------------------------------ MODULE MCLikes ------------------------------
(* Two users with a device each, or one of them with two devices.          *)
EXTENDS Likes, TLC

CONSTANTS d1, d2, d3, u1, u2, pr1, pr2

OneDeviceEach == d1 :> u1 @@ d2 :> u2
TwoOfOne == d1 :> u1 @@ d2 :> u1 @@ d3 :> u2
=============================================================================
