------------------------------ MODULE FetchAll ------------------------------
(***************************************************************************)
(* The feed's fan-out: Project.fetchProjects lists the users, asks for the *)
(* projects of each one, and joins the answers with a DispatchGroup that   *)
(* the callback of the last user in the list leaves.  FeedVC.getProjects   *)
(* may start it again while earlier calls are running, each with its own   *)
(* overlay, and replaces the feed with whatever a call returns.            *)
(*                                                                         *)
(* Users are numbered in listing order.  Answers arrive in any order.      *)
(***************************************************************************)
EXTENDS Naturals, FiniteSets

CONSTANTS MaxUsers,    \* bound: users listed by a call
          MaxCalls,    \* bound: calls of getProjects in one behaviour
          MaxLogouts   \* bound: logouts in one behaviour

ASSUME FetchAssumption == /\ MaxUsers \in Nat \ {0}
                          /\ MaxCalls \in Nat \ {0}
                          /\ MaxLogouts \in Nat

Calls == 1..MaxCalls
Users == 1..MaxUsers
Phases == {"idle", "listing", "dead", "fanning", "left", "notified", "done"}

VARIABLES
  phase,     \* phase[c]: how far the call c is
  listed,    \* listed[c]: how many users its listing returned
  waiting,   \* waiting[c]: users whose projects it still waits for
  answered,  \* answered[c]: users in its userPrs array
  given,     \* given[c]: what it passed to its completion
  overlay,   \* the calls whose HUD is on the screen
  feed,      \* the users in FeedVC.userProjects
  logouts    \* logouts so far

vars == <<phase, listed, waiting, answered, given, overlay, feed, logouts>>

Init == /\ phase = [c \in Calls |-> "idle"]
        /\ listed = [c \in Calls |-> 0]
        /\ waiting = [c \in Calls |-> {}]
        /\ answered = [c \in Calls |-> {}]
        /\ given = [c \in Calls |-> {}]
        /\ overlay = {}
        /\ feed = {}
        /\ logouts = 0

\* FeedVC.getProjects: a HUD only over an empty feed, then the listing.
GetProjects(c) ==
  /\ phase[c] = "idle"
  /\ phase' = [phase EXCEPT ![c] = "listing"]
  /\ overlay' = IF feed = {} THEN overlay \cup {c} ELSE overlay
  /\ UNCHANGED <<listed, waiting, answered, given, feed, logouts>>

\* The listing fails: the error is printed and nothing else ever happens.
ListingFails(c) ==
  /\ phase[c] = "listing"
  /\ phase' = [phase EXCEPT ![c] = "dead"]
  /\ UNCHANGED <<listed, waiting, answered, given, overlay, feed, logouts>>

\* The listing returns n users; with none, no callback leaves the group.
UsersListed(c, n) ==
  /\ phase[c] = "listing"
  /\ phase' = [phase EXCEPT ![c] = IF n = 0 THEN "dead" ELSE "fanning"]
  /\ listed' = [listed EXCEPT ![c] = n]
  /\ waiting' = [waiting EXCEPT ![c] = 1..n]
  /\ UNCHANGED <<answered, given, overlay, feed, logouts>>

\* Mutants of LastOf: the group is left one user early; one index too late.
OneBeforeLast(c) == IF listed[c] > 1 THEN listed[c] - 1 ELSE 1
OneAfterLast(c) == listed[c] + 1

\* The user whose callback leaves the group.
LastOf(c) == listed[c]

\* A user's projects arrive, or the read fails and the user has none.
ProjectsAnswered(c, u) ==
  /\ u \in waiting[c]
  /\ waiting' = [waiting EXCEPT ![c] = @ \ {u}]
  /\ answered' = [answered EXCEPT ![c] = @ \cup {u}]
  /\ phase' = [phase EXCEPT ![c] = IF u = LastOf(c) THEN "left" ELSE @]
  /\ UNCHANGED <<listed, given, overlay, feed, logouts>>

\* group.notify runs on the main queue and puts the completion on it again.
GroupNotified(c) ==
  /\ phase[c] = "left"
  /\ phase' = [phase EXCEPT ![c] = "notified"]
  /\ UNCHANGED <<listed, waiting, answered, given, overlay, feed, logouts>>

\* The completion: the HUD comes down, the feed is what has arrived by now.
Completed(c) ==
  /\ phase[c] = "notified"
  /\ phase' = [phase EXCEPT ![c] = "done"]
  /\ given' = [given EXCEPT ![c] = answered[c]]
  /\ overlay' = overlay \ {c}
  /\ feed' = answered[c]
  /\ UNCHANGED <<listed, waiting, answered, logouts>>

\* The logout notification empties the feed, whatever is still in flight.
LoggedOut ==
  /\ logouts < MaxLogouts
  /\ logouts' = logouts + 1
  /\ feed' = {}
  /\ UNCHANGED <<phase, listed, waiting, answered, given, overlay>>

CallStep(c) ==
  \/ GetProjects(c)
  \/ ListingFails(c)
  \/ \E n \in 0..MaxUsers : UsersListed(c, n)
  \/ \E u \in waiting[c] : ProjectsAnswered(c, u)
  \/ GroupNotified(c)
  \/ Completed(c)

Next == LoggedOut \/ \E c \in Calls : CallStep(c)

Spec == Init /\ [][Next]_vars

\* The backend answers and the main queue runs; nobody need ask or log out.
Fairness == \A c \in Calls :
  /\ WF_vars(ListingFails(c) \/ \E n \in 0..MaxUsers : UsersListed(c, n))
  /\ WF_vars(\E u \in waiting[c] : ProjectsAnswered(c, u))
  /\ WF_vars(GroupNotified(c))
  /\ WF_vars(Completed(c))

FairSpec == Spec /\ Fairness
-----------------------------------------------------------------------------
(* Every variable has its type and every counter keeps its bound.          *)
TypeOK == /\ phase \in [Calls -> Phases]
          /\ listed \in [Calls -> 0..MaxUsers]
          /\ waiting \in [Calls -> SUBSET Users]
          /\ answered \in [Calls -> SUBSET Users]
          /\ given \in [Calls -> SUBSET Users]
          /\ overlay \in SUBSET Calls
          /\ feed \in SUBSET Users
          /\ logouts \in 0..MaxLogouts

(* What a completion is sure of: the last user of the list is in what it   *)
(* was given, however the answers were reordered, and nobody is in it who  *)
(* was not listed.                                                         *)
LastUserIsThere ==
  \A c \in Calls : phase[c] = "done" => listed[c] \in given[c] /\ given[c] \subseteq 1..listed[c]

(* "Get all Projects of all Users": a completion has every user listed.    *)
CompletionHasAllUsers ==
  \A c \in Calls : phase[c] = "done" => given[c] = 1..listed[c]

(* Every overlay comes down unless the listing failed or listed no user.   *)
OverlayComesDown ==
  \A c \in Calls : c \in overlay ~> (c \notin overlay \/ phase[c] = "dead")

(* What LastUserIsThere rests on: the group is left only by the last user, *)
(* whose answer is in the array from then on.                              *)
LeftByLast ==
  \A c \in Calls :
    /\ waiting[c] \cup answered[c] \subseteq 1..listed[c]
    /\ waiting[c] \cap answered[c] = {}
    /\ phase[c] = "fanning" => listed[c] \in waiting[c]
    /\ phase[c] \in {"left", "notified", "done"} => listed[c] \in answered[c]
    /\ phase[c] \in {"idle", "listing", "dead"} => listed[c] = 0

\* An overlay belongs to a call that started and has not completed.
OverlayIsOfRunning == \A c \in overlay : phase[c] \notin {"idle", "done"}

(* The inductive invariant of the fan-out.                                 *)
FetchInv == /\ TypeOK
            /\ LeftByLast
            /\ LastUserIsThere
            /\ OverlayIsOfRunning
=============================================================================
