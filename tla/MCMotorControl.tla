--------------------------- MODULE MCMotorControl ---------------------------
(* Instance of MotorControl with two-word registers over three words.  Two  *)
(* of the client's registers mix into numbers neither of them stands for:   *)
(* a negative one, one above full duty, and a NaN.                          *)
EXTENDS MotorControl, TLC

MCWord == 0..2
MCDecode ==
     <<0, 0>> :> 0  @@ <<0, 1>> :> 1   @@ <<0, 2>> :> 60
  @@ <<1, 0>> :> 10 @@ <<1, 1>> :> 20  @@ <<1, 2>> :> 140
  @@ <<2, 0>> :> 30 @@ <<2, 1>> :> -5  @@ <<2, 2>> :> NaN
MCWrites == {<<1, 1>>, <<1, 2>>, <<2, 0>>}
=============================================================================
