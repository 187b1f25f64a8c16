--------------------------- MODULE MCAccessEvents ---------------------------
(* An instance of AccessEvents: the accesses the master makes (it polls     *)
(* input and holding registers and coils, and writes holding registers).    *)
EXTENDS AccessEvents

MasterAccesses == {"HOLDING READ", "HOLDING WRITE", "INPUT READ", "COILS READ"}
=============================================================================
