------------------------------- MODULE Saved -------------------------------
(***************************************************************************)
(* The Saved collection: a document per user, in it a key per project the  *)
(* user saved.  Only the devices signed in as that user write it; two      *)
(* saves of one device can still replace each other in a young document.   *)
(***************************************************************************)
EXTENDS Naturals, Sequences

CONSTANTS Devices, Users, Projects,
          UserOf,      \* UserOf[dev]: the user signed in on dev
          MaxTaps, MaxKills, ReadsFail

ASSUME UserOfAssumption == UserOf \in [Devices -> Users]
ASSUME SavedAssumption == MaxTaps \in Nat /\ MaxKills \in Nat /\ ReadsFail \in BOOLEAN

VARIABLES exists, flags, reads, outbox, taps, kills, offCleanly

\* saveSaved and deleteSaved write key prID of Saved/<userID>.
SavedTargets == [dev \in Devices |-> {UserOf[dev]} \X Projects]

INSTANCE FlagDocs WITH Docs <- Users, Fields <- Projects, Targets <- SavedTargets

SaveSaved(dev, project) == SaveTapped(dev, <<UserOf[dev], project>>)

FetchSaved(dev) == \E r \in reads[dev] : ReadAnswered(dev, r)

SaveSavedContinues(dev) == \E r \in reads[dev] : SaveContinues(dev, r)

DeleteSaved(dev, project) == DeleteTapped(dev, <<UserOf[dev], project>>)

SavedNext == \E dev \in Devices :
  \/ \E project \in Projects : SaveSaved(dev, project) \/ DeleteSaved(dev, project)
  \/ FetchSaved(dev)
  \/ SaveSavedContinues(dev)
  \/ WriteReachesServer(dev)
  \/ AppKilled(dev)

SavedSpec == Init /\ [][SavedNext]_vars

SavedFairSpec == SavedSpec /\ Fairness
=============================================================================
