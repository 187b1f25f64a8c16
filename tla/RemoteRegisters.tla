-------------------------- MODULE RemoteRegisters --------------------------
(***************************************************************************)
(* What polling promises about the registers the master writes, without    *)
(* sweeps, requests, timeouts or late writes.  The master wants a value of *)
(* the register's own range there, and in time learns that it is there;    *)
(* until then the register may still waver between such values, and        *)
(* afterwards it does not change before the master wants another one or    *)
(* the remote unit restarts, which zeroes its registers.                   *)
(***************************************************************************)
CONSTANTS
  Register,  \* the registers the master writes
  Values     \* Values[r]: what it may want in register r

VARIABLES
  wanted,    \* what the master last asked for, or a zero
  remote,    \* what the remote unit has
  confirmed  \* the registers known to hold what is wanted

vars == <<wanted, remote, confirmed>>

Zeroes == [r \in Register |-> 0]

Init == wanted = Zeroes /\ remote = Zeroes /\ confirmed = {}

Want(r) ==
  /\ \E v \in Values[r] : wanted' = [wanted EXCEPT ![r] = v]
  /\ confirmed' = confirmed \ {r}
  /\ UNCHANGED remote

Settle(r) ==
  /\ remote' = [remote EXCEPT ![r] = wanted[r]]
  /\ confirmed' = confirmed \cup {r}
  /\ UNCHANGED wanted

Waver(r) ==
  /\ r \notin confirmed
  /\ \E v \in Values[r] : remote' = [remote EXCEPT ![r] = v]
  /\ UNCHANGED <<wanted, confirmed>>

Reset == remote' = Zeroes /\ confirmed' = {} /\ UNCHANGED wanted

Next == Reset \/ \E r \in Register : Want(r) \/ Settle(r) \/ Waver(r)

Spec == Init /\ [][Next]_vars
=============================================================================
