-------------------------- MODULE MCSlaveResolver ---------------------------
(* Instances of SlaveResolver: the parameter table as shipped, seven rows   *)
(* of slave 1, and one edited for two slaves as the README invites.         *)
EXTENDS SlaveResolver

Rec(a, protocol, port, address) ==
  [slave |-> a, protocol |-> protocol, port |-> port, address |-> address]
Good(a) == Rec(a, TRUE, TRUE, TRUE)

OneSlave == <<1, 1, 1, 1, 1, 1, 1>>
OneSlaveAnswers ==
  {<<Good(1)>>, <<Good(2)>>, <<Rec(1, FALSE, TRUE, TRUE)>>,
   <<Rec(1, TRUE, FALSE, TRUE), Good(1)>>, <<Rec(1, TRUE, TRUE, FALSE)>>,
   <<Rec(2, TRUE, TRUE, FALSE), Rec(1, FALSE, TRUE, TRUE), Good(1)>>}

TwoSlaves == <<1, 1, 2>>
TwoSlaveAnswers == {<<Good(1)>>, <<Good(2)>>, <<Good(1), Good(2)>>}
=============================================================================
