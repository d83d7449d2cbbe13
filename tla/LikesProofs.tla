----------------------------- MODULE LikesProofs ----------------------------
(***************************************************************************)
(* The results of FlagDocsProofs for the Likes collection: its assumptions  *)
(* give those of FlagDocs, and its steps are steps of FlagDocs.            *)
(***************************************************************************)
EXTENDS Likes, TLAPS

D == INSTANCE FlagDocsProofs WITH Docs <- Projects, Fields <- Users, Targets <- LikeTargets

(* The pairs a device toggles are documents and keys of the collection.    *)
LEMMA LikesAssumptions ==
  D!TargetsAssumption /\ D!BoundsAssumption /\ D!ReadsFailAssumption
BY UserOfAssumption, LikesAssumption
   DEF LikeTargets, D!TargetsAssumption, D!BoundsAssumption, D!ReadsFailAssumption

(* Every step of the Likes collection is a step of its flag documents.     *)
LEMMA LikesNextIsNext == LikesNext => D!Next
BY DEF LikesNext, SaveLike, DeleteLike, FetchLike, SaveLikeContinues, LikeTargets,
       SaveTapped, DeleteTapped, ReadAnswered, SaveContinues, WriteReachesServer,
       AppKilled, WriteFor, Applied, Visible, SetPending,
       D!Next, D!DeviceStep, D!SaveTapped, D!DeleteTapped, D!ReadAnswered,
       D!SaveContinues, D!WriteReachesServer, D!AppKilled, D!WriteFor, D!Applied,
       D!Visible, D!SetPending

(* Every behaviour of the Likes collection is one of its flag documents.   *)
LEMMA LikesSpecIsSpec == LikesSpec => D!Spec
<1>1. Init => D!Init
      BY DEF Init, D!Init
<1>2. [LikesNext]_vars => [D!Next]_(D!vars)
      BY LikesNextIsNext DEF vars, D!vars
<1> QED BY <1>1, <1>2, PTL DEF LikesSpec, D!Spec

(* A like tapped off while no saveLike of it was in flight stays off, when *)
(* its user is signed in on no other device.                               *)
THEOREM UnlikeIsFinal == LikesSpec => []CleanOffStaysOff
<1>1. D!Spec => []D!CleanOffStaysOff
      BY D!CleanOffIsFinal, LikesAssumptions
<1>2. D!CleanOffStaysOff => CleanOffStaysOff
      BY DEF CleanOffStaysOff, D!CleanOffStaysOff, Sole, D!Sole, Pending, D!Pending
<1> QED BY <1>1, <1>2, LikesSpecIsSpec, PTL

(* While no read fails, a like is lost to another save only in a           *)
(* document whose first saves are still being written.                     *)
THEOREM LikesRefinement ==
  ASSUME ~ReadsFail
  PROVE  LikesSpec => ImplementsAbstract
<1>1. D!Spec => D!ImplementsAbstract
      BY D!Refinement, LikesAssumptions
<1>2. D!ImplementsAbstract <=> ImplementsAbstract
  <2>1. D!Young = Young
        BY DEF Young, D!Young, SetPending, D!SetPending
  <2>2. D!Abstract!Init <=> Abstract!Init
        BY <2>1 DEF Abstract!Init, D!Abstract!Init
  <2>3. [D!Abstract!Next]_(D!Abstract!absVars) <=> [Abstract!Next]_(Abstract!absVars)
    <3>1. D!Young' = Young'
          BY DEF Young, D!Young, SetPending, D!SetPending
    <3> QED BY <2>1, <3>1
            DEF Abstract!Next, Abstract!Raise, Abstract!Clear, Abstract!Replace, Abstract!absVars,
                D!Abstract!Next, D!Abstract!Raise, D!Abstract!Clear, D!Abstract!Replace,
                D!Abstract!absVars
  <2> QED BY <2>2, <2>3, PTL DEF ImplementsAbstract, D!ImplementsAbstract, Abstract!Spec, D!Abstract!Spec
<1> QED BY <1>1, <1>2, LikesSpecIsSpec, PTL

(* The updateData of a saveLike never meets a missing document.            *)
THEOREM LikeFindsItsDocument == LikesSpec => []UpdateFindsDoc
<1>1. D!Spec => []D!UpdateFindsDoc
      BY D!AdditionsFindTheirDocument, LikesAssumptions
<1>2. D!UpdateFindsDoc => UpdateFindsDoc
      BY DEF UpdateFindsDoc, D!UpdateFindsDoc
<1> QED BY <1>1, <1>2, LikesSpecIsSpec, PTL
=============================================================================
