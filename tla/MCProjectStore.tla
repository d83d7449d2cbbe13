--------------------------- MODULE MCProjectStore ---------------------------
(* One user on one device or two, or two users with a device each.         *)
EXTENDS ProjectStore, TLC

CONSTANTS d1, d2, u1, u2, id1, id2, f1, f2

OneDevice == d1 :> u1
SameUser == d1 :> u1 @@ d2 :> u1
TwoUsers == d1 :> u1 @@ d2 :> u2
=============================================================================
