------------------------------ MODULE FlagDocs ------------------------------
(***************************************************************************)
(* Documents whose keys are flags: Likes/<project> has a key per user who  *)
(* likes the project, Saved/<user> a key per project the user saved.  A    *)
(* device raises a flag by reading the document and then, in the callback  *)
(* of the read, either adding its key (updateData) or writing a document   *)
(* with only that key (setData); it clears one with updateData at once.    *)
(*                                                                         *)
(* Firestore is modelled from its use: a device's writes wait in a queue   *)
(* that survives the app and reach the server in order; a read sees the    *)
(* server's document under the device's own waiting writes, or fails.      *)
(* All callbacks of a device run on its main queue, one at a time.         *)
(***************************************************************************)
EXTENDS Naturals, Sequences

CONSTANTS Devices,     \* the installations of the app
          Docs,        \* the documents of the collection
          Fields,      \* the keys a document can have
          Targets,     \* Targets[dev]: the <<doc, field>> pairs dev may toggle
          MaxTaps,     \* bound: taps on a device in one behaviour
          MaxKills,    \* bound: times a device's app is killed
          ReadsFail    \* may a read end in an error (device offline, uncached)

ASSUME TargetsAssumption == Targets \in [Devices -> SUBSET (Docs \X Fields)]
ASSUME BoundsAssumption == MaxTaps \in Nat /\ MaxKills \in Nat
ASSUME ReadsFailAssumption == ReadsFail \in BOOLEAN

VARIABLES
  exists,   \* the documents present on the server
  flags,    \* flags[doc]: the keys of doc on the server
  reads,    \* reads[dev]: reads whose callback has not run yet
  outbox,   \* outbox[dev]: writes the server has not acknowledged
  taps,     \* taps[dev]: taps so far, which also number the reads
  kills,    \* kills[dev]: times the app was killed
  offCleanly \* offCleanly[dev]: pairs last cleared with no save of them in flight

vars == <<exists, flags, reads, outbox, taps, kills, offCleanly>>

Pairs == Docs \X Fields
Answers == {"none", "present", "absent"}
Read == [id : Nat, pair : Pairs, answer : Answers]
Write == [kind : {"set", "add", "del"}, pair : Pairs]

Pending(dev, kinds, pair) ==
  \E i \in 1..Len(outbox[dev]) : outbox[dev][i].kind \in kinds /\ outbox[dev][i].pair = pair

\* A set of the whole document doc waits on dev.
SetPending(dev, doc) ==
  \E i \in 1..Len(outbox[dev]) : outbox[dev][i].kind = "set" /\ outbox[dev][i].pair[1] = doc

\* What a read of doc on dev finds: the server's document, or its own waiting one.
Visible(dev, doc) == doc \in exists \/ SetPending(dev, doc)

Init == /\ exists \in SUBSET Docs
        /\ flags \in [Docs -> SUBSET Fields]
        /\ \A doc \in Docs \ exists : flags[doc] = {}
        /\ reads = [dev \in Devices |-> {}]
        /\ outbox = [dev \in Devices |-> << >>]
        /\ taps = [dev \in Devices |-> 0]
        /\ kills = [dev \in Devices |-> 0]
        /\ offCleanly = [dev \in Devices |-> {}]

\* saveLike: the flag's button was tapped on; start reading the document.
SaveTapped(dev, pair) ==
  /\ taps[dev] < MaxTaps
  /\ taps' = [taps EXCEPT ![dev] = @ + 1]
  /\ reads' = [reads EXCEPT ![dev] =
                 @ \cup {[id |-> taps[dev], pair |-> pair, answer |-> "none"]}]
  /\ offCleanly' = [offCleanly EXCEPT ![dev] = @ \ {pair}]
  /\ UNCHANGED <<exists, flags, outbox, kills>>

\* fetchLike: the backend answers; a missing document and an error are both nil.
ReadAnswered(dev, r) ==
  /\ r.answer = "none"
  /\ \E a \in {"present", "absent"} :
       /\ a = "present" => Visible(dev, r.pair[1])
       /\ a = "absent" => ReadsFail \/ ~Visible(dev, r.pair[1])
       /\ reads' = [reads EXCEPT ![dev] = (@ \ {r}) \cup {[r EXCEPT !.answer = a]}]
  /\ UNCHANGED <<exists, flags, outbox, taps, kills, offCleanly>>

\* Mutants of WriteFor: setData always, and updateData always.
AlwaysSet(r) == [kind |-> "set", pair |-> r.pair]
AlwaysAdd(r) == [kind |-> "add", pair |-> r.pair]

\* The write the callback of saveLike queues for an answered read.
WriteFor(r) == [kind |-> IF r.answer = "present" THEN "add" ELSE "set", pair |-> r.pair]

\* Mutant of SaveContinues: the branch for a missing document is forgotten.
SaveGivesUp(dev, r) ==
  /\ r.answer # "none"
  /\ outbox' = [outbox EXCEPT ![dev] = IF r.answer = "present" THEN Append(@, WriteFor(r)) ELSE @]
  /\ reads' = [reads EXCEPT ![dev] = @ \ {r}]
  /\ UNCHANGED <<exists, flags, taps, kills, offCleanly>>

\* saveLike's callback of fetchLike, on the main queue.
SaveContinues(dev, r) ==
  /\ r.answer # "none"
  /\ outbox' = [outbox EXCEPT ![dev] = Append(@, WriteFor(r))]
  /\ reads' = [reads EXCEPT ![dev] = @ \ {r}]
  /\ UNCHANGED <<exists, flags, taps, kills, offCleanly>>

\* Mutant of DeleteTapped: writes true where the key is to be deleted.
DeleteWritesTrue(dev, pair) ==
  /\ taps[dev] < MaxTaps
  /\ taps' = [taps EXCEPT ![dev] = @ + 1]
  /\ outbox' = [outbox EXCEPT ![dev] = Append(@, [kind |-> "add", pair |-> pair])]
  /\ offCleanly' = [offCleanly EXCEPT ![dev] =
                      IF \E r \in reads[dev] : r.pair = pair THEN @ \ {pair} ELSE @ \cup {pair}]
  /\ UNCHANGED <<exists, flags, reads, kills>>

\* deleteLike: the button was tapped off; the key's deletion is queued at once.
DeleteTapped(dev, pair) ==
  /\ taps[dev] < MaxTaps
  /\ taps' = [taps EXCEPT ![dev] = @ + 1]
  /\ outbox' = [outbox EXCEPT ![dev] = Append(@, [kind |-> "del", pair |-> pair])]
  /\ offCleanly' = [offCleanly EXCEPT ![dev] =
                      IF \E r \in reads[dev] : r.pair = pair THEN @ \ {pair} ELSE @ \cup {pair}]
  /\ UNCHANGED <<exists, flags, reads, kills>>

\* The server applies a write; updateData of a missing document changes nothing.
Applied(w) ==
  LET doc == w.pair[1]  f == w.pair[2] IN
  \/ /\ w.kind = "set"
     /\ exists' = exists \cup {doc}
     /\ flags' = [flags EXCEPT ![doc] = {f}]
  \/ /\ w.kind = "add" /\ doc \in exists
     /\ flags' = [flags EXCEPT ![doc] = @ \cup {f}]
     /\ UNCHANGED exists
  \/ /\ w.kind = "del" /\ doc \in exists
     /\ flags' = [flags EXCEPT ![doc] = @ \ {f}]
     /\ UNCHANGED exists
  \/ /\ w.kind \in {"add", "del"} /\ doc \notin exists
     /\ UNCHANGED <<exists, flags>>

WriteReachesServer(dev) ==
  /\ outbox[dev] # << >>
  /\ Applied(Head(outbox[dev]))
  /\ outbox' = [outbox EXCEPT ![dev] = Tail(@)]
  /\ UNCHANGED <<reads, taps, kills, offCleanly>>

\* The app is killed: reads in flight are forgotten, the write queue is not.
AppKilled(dev) ==
  /\ kills[dev] < MaxKills
  /\ kills' = [kills EXCEPT ![dev] = @ + 1]
  /\ reads' = [reads EXCEPT ![dev] = {}]
  /\ UNCHANGED <<exists, flags, outbox, taps, offCleanly>>

DeviceStep(dev) ==
  \/ \E pair \in Targets[dev] : SaveTapped(dev, pair) \/ DeleteTapped(dev, pair)
  \/ \E r \in reads[dev] : ReadAnswered(dev, r) \/ SaveContinues(dev, r)
  \/ WriteReachesServer(dev)
  \/ AppKilled(dev)

Next == \E dev \in Devices : DeviceStep(dev)

Spec == Init /\ [][Next]_vars

\* The backend answers and the main queue runs what it holds; users need not tap.
Fairness == \A dev \in Devices :
  /\ WF_vars(\E r \in reads[dev] : ReadAnswered(dev, r))
  /\ WF_vars(\E r \in reads[dev] : SaveContinues(dev, r))
  /\ WF_vars(WriteReachesServer(dev))

FairSpec == Spec /\ Fairness
-----------------------------------------------------------------------------
(* Every variable has its type and every counter keeps its bound.          *)
TypeOK == /\ exists \in SUBSET Docs
          /\ flags \in [Docs -> SUBSET Fields]
          /\ reads \in [Devices -> SUBSET Read]
          /\ outbox \in [Devices -> Seq(Write)]
          /\ taps \in [Devices -> 0..MaxTaps]
          /\ kills \in [Devices -> 0..MaxKills]
          /\ offCleanly \in [Devices -> SUBSET Pairs]

(* An updateData that adds a key never meets a missing document, and so    *)
(* never fails: the read that chose it saw the document, documents are     *)
(* never deleted, and a document seen only locally is queued before it.    *)
UpdateFindsDoc ==
  \A dev \in Devices : outbox[dev] # << >> =>
    LET w == Head(outbox[dev]) IN w.kind = "add" => w.pair[1] \in exists

\* No other device toggles pair.
Sole(dev, pair) == \A other \in Devices \ {dev} : pair \notin Targets[other]

(* A flag tapped off while no save of it was in flight stays off: once the *)
(* deletion reached the server no earlier save of the device comes after   *)
(* it.  (Tapped off during a save, the flag can end up on: the save's      *)
(* write is queued behind the deletion.)                                   *)
CleanOffStaysOff ==
  \A dev \in Devices : \A pair \in offCleanly[dev] :
    Sole(dev, pair) /\ ~Pending(dev, {"del"}, pair) => pair[2] \notin flags[pair[1]]

\* The documents of which a device may still queue or send a setData.
Young ==
  {doc \in Docs : \/ doc \notin exists
                  \/ \E dev \in Devices : \/ SetPending(dev, doc)
                                         \/ \E r \in reads[dev] : r.pair[1] = doc /\ r.answer = "absent"}

(* What the safety properties rest on: a queued or future addition finds   *)
(* its document, and a pair cleanly off has no save that could outlast its *)
(* deletion.                                                               *)
EmptyIfAbsent == \A doc \in Docs \ exists : flags[doc] = {}

OwnTargets ==
  \A dev \in Devices :
    /\ \A r \in reads[dev] : r.pair \in Targets[dev]
    /\ \A i \in 1..Len(outbox[dev]) : outbox[dev][i].pair \in Targets[dev]

AddsCovered ==
  \A dev \in Devices : \A i \in 1..Len(outbox[dev]) :
    outbox[dev][i].kind = "add" =>
      \/ outbox[dev][i].pair[1] \in exists
      \/ \E j \in 1..(i - 1) : /\ outbox[dev][j].kind = "set"
                              /\ outbox[dev][j].pair[1] = outbox[dev][i].pair[1]

PresentCovered ==
  \A dev \in Devices : \A r \in reads[dev] :
    r.answer = "present" => Visible(dev, r.pair[1])

OffCovered ==
  \A dev \in Devices : \A pair \in offCleanly[dev] :
    /\ \A r \in reads[dev] : r.pair # pair
    /\ \A i \in 1..Len(outbox[dev]) :
         outbox[dev][i].pair = pair /\ outbox[dev][i].kind # "del" =>
           \E j \in (i + 1)..Len(outbox[dev]) : outbox[dev][j] = [kind |-> "del", pair |-> pair]

IInv == /\ TypeOK
        /\ EmptyIfAbsent
        /\ OwnTargets
        /\ AddsCovered
        /\ PresentCovered
        /\ OffCovered
        /\ CleanOffStaysOff

Abstract == INSTANCE AbstractFlags WITH young <- Young

(* While reads do not fail, a flag is lost to another's save only in a     *)
(* young document, and a document once grown is never young again.         *)
ImplementsAbstract == Abstract!Spec

(* A save whose read is in flight records its flag, if only for a moment,  *)
(* unless the app is killed first.                                         *)
SaveLands ==
  \A dev \in Devices : \A pair \in Targets[dev] :
    (\E r \in reads[dev] : r.pair = pair) ~> (pair[2] \in flags[pair[1]] \/ kills[dev] > 0)
=============================================================================
