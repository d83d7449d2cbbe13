------------------------------- MODULE MCTabs -------------------------------
(* Two projects, both of the device's user or one of them another user's.  *)
EXTENDS Tabs, TLC

CONSTANTS u1, u2, pr1, pr2

NewestFirst == <<pr2, pr1>>
Owners == {pr1 :> u1 @@ pr2 :> u1, pr1 :> u1 @@ pr2 :> u2}
=============================================================================
