----------------------------- MODULE SavedProofs ----------------------------
(***************************************************************************)
(* The results of FlagDocsProofs for the Saved collection: its assumptions  *)
(* give those of FlagDocs, and its steps are steps of FlagDocs.            *)
(***************************************************************************)
EXTENDS Saved, TLAPS

D == INSTANCE FlagDocsProofs WITH Docs <- Users, Fields <- Projects, Targets <- SavedTargets

(* The pairs a device toggles are documents and keys of the collection.    *)
LEMMA SavedAssumptions ==
  D!TargetsAssumption /\ D!BoundsAssumption /\ D!ReadsFailAssumption
BY UserOfAssumption, SavedAssumption
   DEF SavedTargets, D!TargetsAssumption, D!BoundsAssumption, D!ReadsFailAssumption

(* Every step of the Saved collection is a step of its flag documents.     *)
LEMMA SavedNextIsNext == SavedNext => D!Next
BY DEF SavedNext, SaveSaved, DeleteSaved, FetchSaved, SaveSavedContinues, SavedTargets,
       SaveTapped, DeleteTapped, ReadAnswered, SaveContinues, WriteReachesServer,
       AppKilled, WriteFor, Applied, Visible, SetPending,
       D!Next, D!DeviceStep, D!SaveTapped, D!DeleteTapped, D!ReadAnswered,
       D!SaveContinues, D!WriteReachesServer, D!AppKilled, D!WriteFor, D!Applied,
       D!Visible, D!SetPending

(* Every behaviour of the Saved collection is one of its flag documents.   *)
LEMMA SavedSpecIsSpec == SavedSpec => D!Spec
<1>1. Init => D!Init
      BY DEF Init, D!Init
<1>2. [SavedNext]_vars => [D!Next]_(D!vars)
      BY SavedNextIsNext DEF vars, D!vars
<1> QED BY <1>1, <1>2, PTL DEF SavedSpec, D!Spec

(* While no read fails, a saved project is lost to another save only in a  *)
(* document whose first saves are still being written.                     *)
THEOREM SavedRefinement ==
  ASSUME ~ReadsFail
  PROVE  SavedSpec => ImplementsAbstract
<1>1. D!Spec => D!ImplementsAbstract
      BY D!Refinement, SavedAssumptions
<1>2. D!ImplementsAbstract <=> ImplementsAbstract
  <2>1. D!Young = Young
        BY DEF Young, D!Young, SetPending, D!SetPending
  <2>2. D!Abstract!Init <=> Abstract!Init
        BY <2>1 DEF Abstract!Init, D!Abstract!Init
  <2>3. [D!Abstract!Next]_(D!Abstract!absVars) <=> [Abstract!Next]_(Abstract!absVars)
    <3>1. D!Young' = Young'
          BY DEF Young, D!Young, SetPending, D!SetPending
    <3> QED BY <2>1, <3>1
            DEF Abstract!Next, Abstract!Raise, Abstract!Clear, Abstract!Replace, Abstract!absVars,
                D!Abstract!Next, D!Abstract!Raise, D!Abstract!Clear, D!Abstract!Replace,
                D!Abstract!absVars
  <2> QED BY <2>2, <2>3, PTL DEF ImplementsAbstract, D!ImplementsAbstract, Abstract!Spec, D!Abstract!Spec
<1> QED BY <1>1, <1>2, SavedSpecIsSpec, PTL

(* The updateData of a saveSaved never meets a missing document.           *)
THEOREM SavedFindsItsDocument == SavedSpec => []UpdateFindsDoc
<1>1. D!Spec => []D!UpdateFindsDoc
      BY D!AdditionsFindTheirDocument, SavedAssumptions
<1>2. D!UpdateFindsDoc => UpdateFindsDoc
      BY DEF UpdateFindsDoc, D!UpdateFindsDoc
<1> QED BY <1>1, <1>2, SavedSpecIsSpec, PTL
=============================================================================
