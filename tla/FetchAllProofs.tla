--------------------------- MODULE FetchAllProofs ---------------------------
(***************************************************************************)
(* Proofs about the feed's fan-out for any number of users and calls.      *)
(***************************************************************************)
EXTENDS FetchAll, TLAPS

(* Nothing runs initially.                                                 *)
LEMMA InitFetchInv == Init => FetchInv
BY FetchAssumption DEF Init, FetchInv, TypeOK, LeftByLast, LastUserIsThere,
   OverlayIsOfRunning, Phases, Users

(* The invariant is inductive.  A callback counts once because it leaves   *)
(* "waiting" when it runs, and only the last user's moves the call on.     *)
LEMMA StepFetchInv == FetchInv /\ [Next]_vars => FetchInv'
<1> SUFFICES ASSUME FetchInv, [Next]_vars
             PROVE  FetchInv'
    OBVIOUS
<1> USE FetchAssumption DEF FetchInv, TypeOK, Users, Phases
<1>1. CASE UNCHANGED vars
      BY <1>1 DEF vars, LeftByLast, LastUserIsThere, OverlayIsOfRunning
<1>2. CASE LoggedOut
      BY <1>2 DEF LoggedOut, LeftByLast, LastUserIsThere, OverlayIsOfRunning
<1>3. ASSUME NEW c \in Calls, GetProjects(c)
      PROVE  FetchInv'
      BY <1>3 DEF GetProjects, LeftByLast, LastUserIsThere, OverlayIsOfRunning
<1>4. ASSUME NEW c \in Calls, ListingFails(c)
      PROVE  FetchInv'
      BY <1>4 DEF ListingFails, LeftByLast, LastUserIsThere, OverlayIsOfRunning
<1>5. ASSUME NEW c \in Calls, NEW n \in 0..MaxUsers, UsersListed(c, n)
      PROVE  FetchInv'
  <2>1. answered[c] = {} /\ waiting[c] = {}
        BY <1>5 DEF UsersListed, LeftByLast  \* both lie in 1..0
  <2>2. TypeOK'
        BY <1>5 DEF UsersListed
  <2>3. LeftByLast'
        BY <1>5, <2>1 DEF UsersListed, LeftByLast
  <2>4. LastUserIsThere' /\ OverlayIsOfRunning'
        BY <1>5 DEF UsersListed, LastUserIsThere, OverlayIsOfRunning
  <2> QED BY <2>2, <2>3, <2>4
<1>6. ASSUME NEW c \in Calls, NEW u \in waiting[c], ProjectsAnswered(c, u)
      PROVE  FetchInv'
  <2>1. u \in Users /\ phase[c] \in {"fanning", "left", "notified", "done"}
        BY <1>6 DEF LeftByLast
  <2>2. TypeOK'
        BY <1>6, <2>1 DEF ProjectsAnswered
  <2>3. phase[c] # "fanning" => u # listed[c]
        BY <1>6, <2>1 DEF LeftByLast
  <2>4. LeftByLast'
        BY <1>6, <2>1, <2>3 DEF ProjectsAnswered, LeftByLast, LastOf
  <2>5. LastUserIsThere'
        BY <1>6, <2>1, <2>3 DEF ProjectsAnswered, LastUserIsThere, LastOf
  <2>6. OverlayIsOfRunning'
        BY <1>6, <2>1 DEF ProjectsAnswered, OverlayIsOfRunning
  <2> QED BY <2>2, <2>4, <2>5, <2>6
<1>7. ASSUME NEW c \in Calls, GroupNotified(c)
      PROVE  FetchInv'
      BY <1>7 DEF GroupNotified, LeftByLast, LastUserIsThere, OverlayIsOfRunning
<1>8. ASSUME NEW c \in Calls, Completed(c)
      PROVE  FetchInv'
      BY <1>8 DEF Completed, LeftByLast, LastUserIsThere, OverlayIsOfRunning
<1> QED BY <1>1, <1>2, <1>3, <1>4, <1>5, <1>6, <1>7, <1>8 DEF Next, CallStep

(* The inductive invariant holds in every behaviour.                       *)
THEOREM FetchInvariant == Spec => []FetchInv
BY InitFetchInv, StepFetchInv, PTL DEF Spec

(* A completion always has the last user listed, and only users listed.    *)
THEOREM LastUserIsDelivered == Spec => []LastUserIsThere
<1>1. FetchInv => LastUserIsThere
      BY DEF FetchInv
<1> QED BY <1>1, FetchInvariant, PTL
=============================================================================
