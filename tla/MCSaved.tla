------------------------------ MODULE MCSaved ------------------------------
(* One user with one device or with two.                                   *)
EXTENDS Saved, TLC

CONSTANTS d1, d2, u1, pr1, pr2

OneDevice == d1 :> u1
TwoDevices == d1 :> u1 @@ d2 :> u1
=============================================================================
