------------------------------- MODULE Likes -------------------------------
(***************************************************************************)
(* The Likes collection: a document per project, in it a key per user who  *)
(* likes the project.  A device toggles the key of the user signed in on   *)
(* it, in the document of any project of the feed.                         *)
(***************************************************************************)
EXTENDS Naturals, Sequences

CONSTANTS Devices, Users, Projects,
          UserOf,      \* UserOf[dev]: the user signed in on dev
          MaxTaps, MaxKills, ReadsFail

ASSUME UserOfAssumption == UserOf \in [Devices -> Users]
ASSUME LikesAssumption == MaxTaps \in Nat /\ MaxKills \in Nat /\ ReadsFail \in BOOLEAN

VARIABLES exists, flags, reads, outbox, taps, kills, offCleanly

\* saveLike and deleteLike write key userID of Likes/<projectID>.
LikeTargets == [dev \in Devices |-> Projects \X {UserOf[dev]}]

INSTANCE FlagDocs WITH Docs <- Projects, Fields <- Users, Targets <- LikeTargets

SaveLike(dev, project) == SaveTapped(dev, <<project, UserOf[dev]>>)

FetchLike(dev) == \E r \in reads[dev] : ReadAnswered(dev, r)

SaveLikeContinues(dev) == \E r \in reads[dev] : SaveContinues(dev, r)

DeleteLike(dev, project) == DeleteTapped(dev, <<project, UserOf[dev]>>)

LikesNext == \E dev \in Devices :
  \/ \E project \in Projects : SaveLike(dev, project) \/ DeleteLike(dev, project)
  \/ FetchLike(dev)
  \/ SaveLikeContinues(dev)
  \/ WriteReachesServer(dev)
  \/ AppKilled(dev)

LikesSpec == Init /\ [][LikesNext]_vars

LikesFairSpec == LikesSpec /\ Fairness
=============================================================================
