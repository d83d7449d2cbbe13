--------------------------- MODULE FlagDocsProofs ---------------------------
(***************************************************************************)
(* Proofs about FlagDocs for any devices, documents, keys and bounds:      *)
(* types, the inductive invariant behind UpdateFindsDoc and                *)
(* CleanOffStaysOff, and the refinement of AbstractFlags.                  *)
(***************************************************************************)
EXTENDS FlagDocs, SequenceTheorems, TLAPS

(* What a queue holds after a write is appended: every write it held, at   *)
(* its place, and the new one last.                                        *)
LEMMA QueueAppend ==
  ASSUME NEW q \in Seq(Write), NEW w \in Write
  PROVE  /\ Append(q, w) \in Seq(Write)
         /\ Len(q) \in Nat
         /\ Len(Append(q, w)) = Len(q) + 1
         /\ \A i \in 1..Len(q) : Append(q, w)[i] = q[i]
         /\ Append(q, w)[Len(q) + 1] = w
BY AppendProperties, LenProperties

(* What a queue holds after its head was sent: every other write, one      *)
(* place earlier.                                                          *)
LEMMA QueueTail ==
  ASSUME NEW q \in Seq(Write), q # << >>
  PROVE  /\ Tail(q) \in Seq(Write)
         /\ Head(q) \in Write
         /\ Head(q) = q[1]
         /\ Len(q) \in Nat \ {0}
         /\ Len(Tail(q)) = Len(q) - 1
         /\ \A i \in 1..Len(q)-1 : Tail(q)[i] = q[i + 1]
BY HeadTailProperties, EmptySeq

(* The writes the operations queue have the type of a write.               *)
LEMMA WriteForType ==
  ASSUME NEW r \in Read
  PROVE  WriteFor(r) \in Write /\ WriteFor(r).pair = r.pair
BY DEF WriteFor, Read, Write

(* A pair that a device may toggle is a document and a key.                *)
LEMMA TargetPairs ==
  ASSUME NEW dev \in Devices, NEW pair \in Targets[dev]
  PROVE  pair \in Pairs
BY TargetsAssumption DEF Pairs

(* A write applied by the server leaves documents and flags of their type. *)
LEMMA AppliedType ==
  ASSUME NEW w, w.pair[1] \in Docs, w.pair[2] \in Fields, Applied(w),
         exists \in SUBSET Docs, flags \in [Docs -> SUBSET Fields]
  PROVE  exists' \in SUBSET Docs /\ flags' \in [Docs -> SUBSET Fields]
BY DEF Applied

(* Init establishes the types.                                             *)
LEMMA InitTypeOK == Init => TypeOK
BY EmptySeq, BoundsAssumption DEF Init, TypeOK

(* Each step preserves the types.                                          *)
LEMMA StepTypeOK == TypeOK /\ [Next]_vars => TypeOK'
<1> SUFFICES ASSUME TypeOK, [Next]_vars
             PROVE  TypeOK'
    OBVIOUS
<1> USE BoundsAssumption DEF TypeOK
<1>1. CASE UNCHANGED vars
      BY <1>1 DEF vars
<1>2. ASSUME NEW dev \in Devices, NEW pair \in Targets[dev], SaveTapped(dev, pair)
      PROVE  TypeOK'
  <2>1. [id |-> taps[dev], pair |-> pair, answer |-> "none"] \in Read
        BY <1>2, TargetPairs DEF Read, Answers
  <2> QED BY <1>2, <2>1 DEF SaveTapped, Pairs
<1>3. ASSUME NEW dev \in Devices, NEW r \in reads[dev], ReadAnswered(dev, r)
      PROVE  TypeOK'
  <2>1. PICK a \in {"present", "absent"} :
          reads' = [reads EXCEPT ![dev] = (@ \ {r}) \cup {[r EXCEPT !.answer = a]}]
        BY <1>3 DEF ReadAnswered
  <2>2. r \in Read
        OBVIOUS
  <2>3. [r EXCEPT !.answer = a] \in Read
        BY <2>2 DEF Read, Answers
  <2> QED BY <1>3, <2>1, <2>3 DEF ReadAnswered
<1>4. ASSUME NEW dev \in Devices, NEW r \in reads[dev], SaveContinues(dev, r)
      PROVE  TypeOK'
  <2>1. WriteFor(r) \in Write
        BY WriteForType
  <2>2. Append(outbox[dev], WriteFor(r)) \in Seq(Write)
        BY <2>1, QueueAppend
  <2> QED BY <1>4, <2>2 DEF SaveContinues
<1>5. ASSUME NEW dev \in Devices, NEW pair \in Targets[dev], DeleteTapped(dev, pair)
      PROVE  TypeOK'
  <2>1. pair \in Pairs
        BY TargetPairs
  <2>2. [kind |-> "del", pair |-> pair] \in Write
        BY <2>1 DEF Write
  <2>3. Append(outbox[dev], [kind |-> "del", pair |-> pair]) \in Seq(Write)
        BY <2>2, QueueAppend
  <2>4. offCleanly' \in [Devices -> SUBSET Pairs]
        BY <1>5, <2>1 DEF DeleteTapped
  <2> QED BY <1>5, <2>3, <2>4 DEF DeleteTapped
<1>6. ASSUME NEW dev \in Devices, WriteReachesServer(dev)
      PROVE  TypeOK'
  <2> DEFINE w == Head(outbox[dev])
  <2>1. w \in Write /\ Tail(outbox[dev]) \in Seq(Write)
        BY <1>6, QueueTail DEF WriteReachesServer
  <2>2. w.pair[1] \in Docs /\ w.pair[2] \in Fields
        BY <2>1 DEF Write, Pairs
  <2>3. exists' \in SUBSET Docs /\ flags' \in [Docs -> SUBSET Fields]
    BY <1>6, <2>2, AppliedType DEF WriteReachesServer
  <2> QED BY <1>6, <2>1, <2>3 DEF WriteReachesServer
<1>7. ASSUME NEW dev \in Devices, AppKilled(dev)
      PROVE  TypeOK'
      BY <1>7 DEF AppKilled
<1> QED BY <1>1, <1>2, <1>3, <1>4, <1>5, <1>6, <1>7 DEF Next, DeviceStep

(* Every variable of FlagDocs keeps its type in every behaviour.           *)
THEOREM TypeCorrect == Spec => []TypeOK
BY InitTypeOK, StepTypeOK, PTL DEF Spec

-----------------------------------------------------------------------------
(* The types of what a step works on, cited by the proofs below.           *)
LEMMA ReadType ==
  ASSUME TypeOK, NEW dev \in Devices, NEW r \in reads[dev]
  PROVE  r \in Read /\ r.pair \in Pairs /\ r.pair[1] \in Docs /\ r.pair[2] \in Fields
<1>1. r \in Read
      BY DEF TypeOK
<1> QED BY <1>1 DEF Read, Pairs

LEMMA WriteType ==
  ASSUME TypeOK, NEW dev \in Devices, NEW i \in 1..Len(outbox[dev])
  PROVE  /\ outbox[dev][i] \in Write
         /\ outbox[dev][i].kind \in {"set", "add", "del"}
         /\ outbox[dev][i].pair \in Pairs
         /\ outbox[dev][i].pair[1] \in Docs
         /\ outbox[dev][i].pair[2] \in Fields
<1>1. outbox[dev] \in Seq(Write)
      BY DEF TypeOK
<1>2. outbox[dev][i] \in Write
      BY <1>1, ElementOfSeq
<1> QED BY <1>2 DEF Write, Pairs

(* The three things a step can do to the queues: nothing, append a write   *)
(* of one device, or send the head of one device's queue.                  *)
LEMMA QueueGrows ==
  ASSUME TypeOK, NEW dev \in Devices, NEW w \in Write,
         outbox' = [outbox EXCEPT ![dev] = Append(@, w)]
  PROVE  /\ \A o \in Devices \ {dev} : outbox'[o] = outbox[o]
         /\ Len(outbox[dev]) \in Nat
         /\ Len(outbox'[dev]) = Len(outbox[dev]) + 1
         /\ \A i \in 1..Len(outbox[dev]) : outbox'[dev][i] = outbox[dev][i]
         /\ outbox'[dev][Len(outbox[dev]) + 1] = w
<1>1. outbox[dev] \in Seq(Write) /\ outbox'[dev] = Append(outbox[dev], w)
      BY DEF TypeOK
<1>2. \A o \in Devices \ {dev} : outbox'[o] = outbox[o]
      BY DEF TypeOK
<1> QED BY <1>1, <1>2, QueueAppend

LEMMA QueueShrinks ==
  ASSUME TypeOK, NEW dev \in Devices, outbox[dev] # << >>,
         outbox' = [outbox EXCEPT ![dev] = Tail(@)]
  PROVE  /\ \A o \in Devices \ {dev} : outbox'[o] = outbox[o]
         /\ Len(outbox[dev]) \in Nat \ {0}
         /\ Head(outbox[dev]) = outbox[dev][1]
         /\ Len(outbox'[dev]) = Len(outbox[dev]) - 1
         /\ \A i \in 1..Len(outbox'[dev]) : outbox'[dev][i] = outbox[dev][i + 1]
<1>1. outbox[dev] \in Seq(Write) /\ outbox'[dev] = Tail(outbox[dev])
      BY DEF TypeOK
<1>2. \A o \in Devices \ {dev} : outbox'[o] = outbox[o]
      BY DEF TypeOK
<1> QED BY <1>1, <1>2, QueueTail

(* Documents are never removed, and a set creates its document.            *)
LEMMA ExistsGrows ==
  ASSUME NEW w, Applied(w)
  PROVE  /\ exists \subseteq exists'
         /\ w.kind = "set" => w.pair[1] \in exists'
BY DEF Applied

(* What the server's step does to one flag: a pair's flag rises only by a  *)
(* write of the pair, and a deletion clears it.                            *)
LEMMA FlagAfter ==
  ASSUME TypeOK, EmptyIfAbsent, NEW w \in Write, Applied(w), NEW pair \in Pairs
  PROVE  /\ pair[2] \in flags'[pair[1]] =>
              pair[2] \in flags[pair[1]] \/ (w.pair = pair /\ w.kind # "del")
         /\ w = [kind |-> "del", pair |-> pair] => pair[2] \notin flags'[pair[1]]
<1>1. pair = <<pair[1], pair[2]>> /\ w.pair = <<w.pair[1], w.pair[2]>>
      BY DEF Write, Pairs
<1>2. pair[1] \in Docs /\ w.pair[1] \in Docs
      BY DEF Write, Pairs
<1>3. w.kind \in {"set", "add", "del"}
      BY DEF Write
<1>4. ASSUME pair[2] \in flags'[pair[1]], pair[2] \notin flags[pair[1]]
      PROVE  w.pair = pair /\ w.kind # "del"
  <2>1. w.kind # "del" /\ pair[1] = w.pair[1] /\ pair[2] = w.pair[2]
    <3> DEFINE d == pair[1]  f == pair[2]  wd == w.pair[1]  wf == w.pair[2]
    <3>1. d \in Docs /\ wd \in Docs /\ f \in flags'[d] /\ f \notin flags[d]
          BY <1>2, <1>4
    <3> HIDE DEF d, f, wd, wf
    <3>2. CASE w.kind = "set" /\ flags' = [flags EXCEPT ![wd] = {wf}]
          BY <3>1, <3>2 DEF TypeOK, d, f, wd, wf
    <3>3. CASE w.kind = "add" /\ flags' = [flags EXCEPT ![wd] = @ \cup {wf}]
          BY <3>1, <3>3 DEF TypeOK, d, f, wd, wf
    <3>4. CASE w.kind = "del" /\ flags' = [flags EXCEPT ![wd] = @ \ {wf}]
          BY <3>1, <3>4 DEF TypeOK
    <3>5. CASE UNCHANGED flags
          BY <3>1, <3>5
    <3> QED BY <3>2, <3>3, <3>4, <3>5 DEF Applied, wd, wf
  <2> QED BY <1>1, <2>1
<1>5. ASSUME w = [kind |-> "del", pair |-> pair]
      PROVE  pair[2] \notin flags'[pair[1]]
      BY <1>2, <1>5 DEF Applied, TypeOK, EmptyIfAbsent
<1> QED BY <1>4, <1>5

-----------------------------------------------------------------------------
(* A missing document has no flags: flags are written to documents that    *)
(* the same write creates or that exist, and no document is removed.       *)
LEMMA StepEmptyIfAbsent ==
  ASSUME TypeOK, EmptyIfAbsent, [Next]_vars
  PROVE  EmptyIfAbsent'
<1>1. CASE UNCHANGED <<exists, flags>>
      BY <1>1 DEF EmptyIfAbsent
<1>2. ASSUME NEW dev \in Devices, WriteReachesServer(dev)
      PROVE  EmptyIfAbsent'
  <2>1. outbox[dev] \in Seq(Write) /\ outbox[dev] # << >>
        BY <1>2 DEF TypeOK, WriteReachesServer
  <2>2. PICK w \in Write : Applied(w)
        BY <1>2, <2>1, QueueTail DEF WriteReachesServer
  <2>3. w.pair[1] \in Docs
        BY DEF Write, Pairs
  <2> QED BY <2>2, <2>3 DEF Applied, EmptyIfAbsent, TypeOK
<1> QED BY <1>1, <1>2 DEF Next, DeviceStep, vars, SaveTapped, ReadAnswered,
           SaveContinues, DeleteTapped, AppKilled

(* A device only reads and writes pairs it may toggle.                     *)
LEMMA StepOwnTargets ==
  ASSUME TypeOK, OwnTargets, [Next]_vars
  PROVE  OwnTargets'
<1>1. CASE UNCHANGED vars
      BY <1>1 DEF OwnTargets, vars
<1>2. ASSUME NEW dev \in Devices, NEW pair \in Targets[dev], SaveTapped(dev, pair)
      PROVE  OwnTargets'
      BY <1>2 DEF SaveTapped, OwnTargets, TypeOK
<1>3. ASSUME NEW dev \in Devices, NEW r \in reads[dev], ReadAnswered(dev, r)
      PROVE  OwnTargets'
  <2>1. r \in Read
        BY ReadType
  <2>2. PICK a \in {"present", "absent"} :
          reads' = [reads EXCEPT ![dev] = (@ \ {r}) \cup {[r EXCEPT !.answer = a]}]
        BY <1>3 DEF ReadAnswered
  <2>3. [r EXCEPT !.answer = a].pair = r.pair
        BY <2>1 DEF Read
  <2> QED BY <1>3, <2>2, <2>3 DEF ReadAnswered, OwnTargets, TypeOK
<1>4. ASSUME NEW dev \in Devices, NEW r \in reads[dev], SaveContinues(dev, r)
      PROVE  OwnTargets'
  <2>1. WriteFor(r) \in Write /\ WriteFor(r).pair = r.pair
        BY ReadType, WriteForType
  <2>2. outbox' = [outbox EXCEPT ![dev] = Append(@, WriteFor(r))]
        BY <1>4 DEF SaveContinues
  <2> QED BY <1>4, <2>1, <2>2, QueueGrows DEF SaveContinues, OwnTargets, TypeOK
<1>5. ASSUME NEW dev \in Devices, NEW pair \in Targets[dev], DeleteTapped(dev, pair)
      PROVE  OwnTargets'
  <2> DEFINE w == [kind |-> "del", pair |-> pair]
  <2>1. w \in Write /\ w.pair = pair
        BY TargetPairs DEF Write
  <2>2. outbox' = [outbox EXCEPT ![dev] = Append(@, w)]
        BY <1>5 DEF DeleteTapped
  <2> HIDE DEF w
  <2> QED BY <1>5, <2>1, <2>2, QueueGrows DEF DeleteTapped, OwnTargets, TypeOK
<1>6. ASSUME NEW dev \in Devices, WriteReachesServer(dev)
      PROVE  OwnTargets'
  <2>1. outbox[dev] # << >> /\ outbox' = [outbox EXCEPT ![dev] = Tail(@)]
        BY <1>6 DEF WriteReachesServer
  <2> QED BY <1>6, <2>1, QueueShrinks DEF WriteReachesServer, OwnTargets
<1>7. ASSUME NEW dev \in Devices, AppKilled(dev)
      PROVE  OwnTargets'
      BY <1>7 DEF AppKilled, OwnTargets, TypeOK
<1> QED BY <1>1, <1>2, <1>3, <1>4, <1>5, <1>6, <1>7 DEF Next, DeviceStep

-----------------------------------------------------------------------------
(* A document a device sees stays visible to it: a waiting set either      *)
(* still waits or has created the document.                                *)
LEMMA VisibleStays ==
  ASSUME TypeOK, [Next]_vars, NEW o \in Devices, NEW doc, Visible(o, doc)
  PROVE  Visible(o, doc)'
<1>1. CASE UNCHANGED <<exists, outbox>>
      BY <1>1 DEF Visible, SetPending
<1>2. ASSUME NEW dev \in Devices, NEW w \in Write, UNCHANGED exists,
             outbox' = [outbox EXCEPT ![dev] = Append(@, w)]
      PROVE  Visible(o, doc)'
      BY <1>2, QueueGrows DEF Visible, SetPending
<1>3. ASSUME NEW dev \in Devices, WriteReachesServer(dev)
      PROVE  Visible(o, doc)'
  <2>1. outbox[dev] # << >> /\ outbox' = [outbox EXCEPT ![dev] = Tail(@)]
        BY <1>3 DEF WriteReachesServer
  <2>2. exists \subseteq exists' /\ (Head(outbox[dev]).kind = "set" =>
                                       Head(outbox[dev]).pair[1] \in exists')
        BY <1>3, ExistsGrows DEF WriteReachesServer
  <2> DEFINE n == Len(outbox[dev])
  <2>5. /\ n \in Nat \ {0}
        /\ Len(outbox'[dev]) = n - 1
        /\ \A i \in 1..Len(outbox'[dev]) : outbox'[dev][i] = outbox[dev][i + 1]
        BY <2>1, QueueShrinks
  <2>3. CASE o # dev \/ doc \in exists
        BY <2>1, <2>2, <2>3, QueueShrinks DEF Visible, SetPending
  <2>4. CASE o = dev /\ doc \notin exists
    <3>1. PICK i \in 1..Len(outbox[dev]) :
            outbox[dev][i].kind = "set" /\ outbox[dev][i].pair[1] = doc
          BY <2>4 DEF Visible, SetPending
    <3>2. CASE i = 1
          BY <2>1, <2>2, <3>1, <3>2, QueueShrinks DEF Visible
    <3>3. CASE i # 1
      <4>1. i \in 1..n /\ i - 1 \in 1..Len(outbox'[dev]) /\ (i - 1) + 1 = i
        <5> HIDE DEF n
        <5> QED BY <2>5, <3>1, <3>3 DEF n
      <4>2. outbox'[dev][i - 1] = outbox[dev][i]
            BY <2>5, <4>1
      <4> QED BY <2>4, <3>1, <4>1, <4>2 DEF Visible, SetPending
    <3> QED BY <3>2, <3>3
  <2> QED BY <2>3, <2>4
<1>4. ASSUME NEW dev \in Devices, NEW r \in reads[dev], SaveContinues(dev, r)
      PROVE  Visible(o, doc)'
      BY <1>2, <1>4, ReadType, WriteForType DEF SaveContinues
<1>5. ASSUME NEW dev \in Devices, NEW pair \in Targets[dev], DeleteTapped(dev, pair)
      PROVE  Visible(o, doc)'
  <2>1. [kind |-> "del", pair |-> pair] \in Write
        BY TargetPairs DEF Write
  <2> QED BY <1>2, <1>5, <2>1 DEF DeleteTapped
<1> QED BY <1>1, <1>3, <1>4, <1>5 DEF Next, DeviceStep, vars, SaveTapped, ReadAnswered,
           AppKilled

(* A read answered "present" keeps seeing its document.                    *)
LEMMA StepPresentCovered ==
  ASSUME TypeOK, PresentCovered, [Next]_vars
  PROVE  PresentCovered'
<1> SUFFICES ASSUME NEW o \in Devices, NEW q \in reads'[o], q.answer = "present"
             PROVE  Visible(o, q.pair[1])'
    BY DEF PresentCovered
<1>1. CASE q \in reads[o]
      BY <1>1, VisibleStays DEF PresentCovered
<1>2. CASE q \notin reads[o]
  <2>1. ASSUME NEW dev \in Devices, NEW pair \in Targets[dev], SaveTapped(dev, pair)
        PROVE  FALSE
        BY <1>2, <2>1 DEF SaveTapped, TypeOK
  <2>2. ASSUME NEW dev \in Devices, NEW r \in reads[dev], ReadAnswered(dev, r)
        PROVE  Visible(o, q.pair[1])'
    <3>1. PICK a \in {"present", "absent"} :
            /\ a = "present" => Visible(dev, r.pair[1])
            /\ reads' = [reads EXCEPT ![dev] = (@ \ {r}) \cup {[r EXCEPT !.answer = a]}]
          BY <2>2 DEF ReadAnswered
    <3>2. r \in Read
          BY ReadType
    <3>3. o = dev /\ q = [r EXCEPT !.answer = a]
          BY <1>2, <3>1 DEF TypeOK
    <3>4. q.pair = r.pair /\ q.answer = a
          BY <3>2, <3>3 DEF Read
    <3> QED BY <3>1, <3>3, <3>4, VisibleStays
  <2>3. ASSUME NEW dev \in Devices, NEW r \in reads[dev], SaveContinues(dev, r)
        PROVE  FALSE
        BY <1>2, <2>3 DEF SaveContinues, TypeOK
  <2>4. ASSUME NEW dev \in Devices, AppKilled(dev)
        PROVE  FALSE
        BY <1>2, <2>4 DEF AppKilled, TypeOK
  <2> QED BY <1>2, <2>1, <2>2, <2>3, <2>4 DEF Next, DeviceStep, vars, DeleteTapped,
             WriteReachesServer
<1> QED BY <1>1, <1>2

(* Every queued addition finds its document, or the queue creates it first.*)
LEMMA StepAddsCovered ==
  ASSUME TypeOK, AddsCovered, PresentCovered, [Next]_vars
  PROVE  AddsCovered'
<1>1. CASE UNCHANGED <<exists, outbox>>
      BY <1>1 DEF AddsCovered
<1>2. ASSUME NEW dev \in Devices, NEW w \in Write, UNCHANGED exists,
             outbox' = [outbox EXCEPT ![dev] = Append(@, w)],
             w.kind = "add" => Visible(dev, w.pair[1])
      PROVE  AddsCovered'
  <2> SUFFICES ASSUME NEW o \in Devices, NEW i \in 1..Len(outbox'[o]),
                      outbox'[o][i].kind = "add",
                      outbox'[o][i].pair[1] \notin exists
               PROVE  \E j \in 1..(i - 1) : /\ outbox'[o][j].kind = "set"
                                          /\ outbox'[o][j].pair[1] = outbox'[o][i].pair[1]
      BY <1>2 DEF AddsCovered
  <2>1. CASE o # dev \/ i # Len(outbox[dev]) + 1
        BY <1>2, <2>1, QueueGrows DEF AddsCovered
  <2>2. CASE o = dev /\ i = Len(outbox[dev]) + 1
    <3>1. outbox'[o][i] = w /\ i - 1 = Len(outbox[dev])
          BY <1>2, <2>2, QueueGrows
    <3>2. SetPending(dev, w.pair[1])
          BY <1>2, <3>1 DEF Visible
    <3> QED BY <1>2, <2>2, <3>1, <3>2, QueueGrows DEF SetPending
  <2> QED BY <2>1, <2>2
<1>3. ASSUME NEW dev \in Devices, WriteReachesServer(dev)
      PROVE  AddsCovered'
  <2>1. outbox[dev] # << >> /\ outbox' = [outbox EXCEPT ![dev] = Tail(@)]
        BY <1>3 DEF WriteReachesServer
  <2>2. exists \subseteq exists' /\ (outbox[dev][1].kind = "set" =>
                                       outbox[dev][1].pair[1] \in exists')
        BY <1>3, <2>1, ExistsGrows, QueueShrinks DEF WriteReachesServer
  <2> SUFFICES ASSUME NEW o \in Devices, NEW i \in 1..Len(outbox'[o]),
                      outbox'[o][i].kind = "add",
                      outbox'[o][i].pair[1] \notin exists'
               PROVE  \E j \in 1..(i - 1) : /\ outbox'[o][j].kind = "set"
                                          /\ outbox'[o][j].pair[1] = outbox'[o][i].pair[1]
      BY DEF AddsCovered
  <2>3. CASE o # dev
        BY <2>1, <2>2, <2>3, QueueShrinks DEF AddsCovered
  <2>4. CASE o = dev
    <3> DEFINE n == Len(outbox[dev])
               m == Len(outbox'[dev])
    <3>0. n \in Nat \ {0} /\ m = n - 1 /\ \A k \in 1..m : outbox'[dev][k] = outbox[dev][k + 1]
          BY <2>1, QueueShrinks
    <3>1. /\ i + 1 \in 1..Len(outbox[dev])
          /\ outbox'[dev][i] = outbox[dev][i + 1]
      <4>1. i \in 1..m
            BY <2>4
      <4> HIDE DEF n, m
      <4> QED BY <3>0, <4>1 DEF n
    <3>2. PICK j \in 1..i : /\ outbox[dev][j].kind = "set"
                            /\ outbox[dev][j].pair[1] = outbox[dev][i + 1].pair[1]
          BY <2>2, <2>4, <3>1 DEF AddsCovered
    <3>3. j # 1
          BY <2>2, <2>4, <3>1, <3>2
    <3>4. j - 1 \in 1..(i - 1) /\ j - 1 \in 1..m /\ (j - 1) + 1 = j
      <4>1. i \in 1..m
            BY <2>4
      <4> HIDE DEF n, m
      <4> QED BY <3>0, <4>1, <3>2, <3>3
    <3>5. outbox'[dev][j - 1] = outbox[dev][j]
          BY <3>0, <3>4
    <3> QED BY <2>4, <3>1, <3>2, <3>4, <3>5
  <2> QED BY <2>3, <2>4
<1>4. ASSUME NEW dev \in Devices, NEW r \in reads[dev], SaveContinues(dev, r)
      PROVE  AddsCovered'
  <2>1. WriteFor(r) \in Write /\ WriteFor(r).pair = r.pair
        BY ReadType, WriteForType
  <2>2. WriteFor(r).kind = "add" => Visible(dev, WriteFor(r).pair[1])
        BY <2>1 DEF WriteFor, PresentCovered
  <2> QED BY <1>2, <1>4, <2>1, <2>2 DEF SaveContinues
<1>5. ASSUME NEW dev \in Devices, NEW pair \in Targets[dev], DeleteTapped(dev, pair)
      PROVE  AddsCovered'
  <2>1. [kind |-> "del", pair |-> pair] \in Write
        BY TargetPairs DEF Write
  <2> QED BY <1>2, <1>5, <2>1 DEF DeleteTapped
<1> QED BY <1>1, <1>3, <1>4, <1>5 DEF Next, DeviceStep, vars, SaveTapped, ReadAnswered,
           AppKilled

-----------------------------------------------------------------------------
(* A deletion of a pair that waits still waits after a step, or was sent.  *)
LEMMA DeletionWaits ==
  ASSUME TypeOK, NEW dev \in Devices, NEW o \in Devices, NEW pair,
         outbox[dev] # << >>, outbox' = [outbox EXCEPT ![dev] = Tail(@)],
         Pending(o, {"del"}, pair), ~Pending(o, {"del"}, pair)'
  PROVE  o = dev /\ outbox[dev][1].kind = "del" /\ outbox[dev][1].pair = pair
<1> DEFINE n == Len(outbox[dev])
           m == Len(outbox'[dev])
<1>1. /\ n \in Nat \ {0} /\ m = n - 1
      /\ \A k \in 1..m : outbox'[dev][k] = outbox[dev][k + 1]
      /\ \A d \in Devices \ {dev} : outbox'[d] = outbox[d]
      BY QueueShrinks
<1>2. o = dev
      BY <1>1 DEF Pending
<1>3. PICK i \in 1..n : outbox[dev][i].kind = "del" /\ outbox[dev][i].pair = pair
      BY <1>2 DEF Pending
<1>4. CASE i = 1
      BY <1>2, <1>3, <1>4
<1>5. CASE i # 1
  <2>1. i - 1 \in 1..m /\ (i - 1) + 1 = i
    <3> HIDE DEF n, m
    <3> QED BY <1>1, <1>3, <1>5
  <2>2. outbox'[dev][i - 1] = outbox[dev][i]
        BY <1>1, <2>1
  <2> QED BY <1>2, <1>3, <2>1, <2>2 DEF Pending
<1> QED BY <1>4, <1>5

(* A pair cleanly off keeps having no save that could outlast its deletion.*)
LEMMA StepOffCovered ==
  ASSUME TypeOK, OffCovered, [Next]_vars
  PROVE  OffCovered'
<1> DEFINE Covered(q, pair) ==
      \A i \in 1..Len(q) : q[i].pair = pair /\ q[i].kind # "del" =>
        \E j \in (i + 1)..Len(q) : q[j] = [kind |-> "del", pair |-> pair]
<1>0. OffCovered <=> \A dev \in Devices : \A pair \in offCleanly[dev] :
        (\A r \in reads[dev] : r.pair # pair) /\ Covered(outbox[dev], pair)
      BY DEF OffCovered
<1>00. OffCovered' <=> \A dev \in Devices : \A pair \in offCleanly'[dev] :
        (\A r \in reads'[dev] : r.pair # pair) /\ Covered(outbox'[dev], pair)
      BY DEF OffCovered
<1>1. CASE UNCHANGED vars
      BY <1>1 DEF OffCovered, vars
<1>2. ASSUME NEW dev \in Devices, NEW pair \in Targets[dev], SaveTapped(dev, pair)
      PROVE  OffCovered'
  <2> HIDE DEF Covered
  <2> QED BY <1>0, <1>00, <1>2 DEF SaveTapped, TypeOK
<1>3. ASSUME NEW dev \in Devices, NEW r \in reads[dev], ReadAnswered(dev, r)
      PROVE  OffCovered'
  <2>1. r \in Read
        BY ReadType
  <2>2. PICK a \in {"present", "absent"} :
          reads' = [reads EXCEPT ![dev] = (@ \ {r}) \cup {[r EXCEPT !.answer = a]}]
        BY <1>3 DEF ReadAnswered
  <2>3. [r EXCEPT !.answer = a].pair = r.pair
        BY <2>1 DEF Read
  <2>4. offCleanly' = offCleanly /\ outbox' = outbox
        BY <1>3 DEF ReadAnswered
  <2> HIDE DEF Covered
  <2> SUFFICES ASSUME NEW d \in Devices, NEW pair \in offCleanly[d]
               PROVE  (\A x \in reads'[d] : x.pair # pair) /\ Covered(outbox[d], pair)
      BY <1>00, <2>4
  <2>5. (\A x \in reads[d] : x.pair # pair) /\ Covered(outbox[d], pair)
        BY <1>0
  <2>6. \A x \in reads'[d] : x \in reads[d] \/ (d = dev /\ x = [r EXCEPT !.answer = a])
        BY <2>2 DEF TypeOK
  <2> QED BY <1>3, <2>3, <2>5, <2>6
<1>4. ASSUME NEW dev \in Devices, NEW r \in reads[dev], SaveContinues(dev, r)
      PROVE  OffCovered'
  <2>1. WriteFor(r) \in Write /\ WriteFor(r).pair = r.pair
        BY ReadType, WriteForType
  <2>2. outbox' = [outbox EXCEPT ![dev] = Append(@, WriteFor(r))]
        BY <1>4 DEF SaveContinues
  <2>3. ASSUME NEW pair \in offCleanly[dev]
        PROVE  Covered(outbox'[dev], pair)
        BY <2>1, <2>2, <2>3, QueueGrows DEF OffCovered
  <2>4. \A o \in Devices \ {dev} : outbox'[o] = outbox[o]
        BY <2>1, <2>2, QueueGrows
  <2> HIDE DEF Covered
  <2> QED BY <1>0, <1>00, <1>4, <2>3, <2>4 DEF SaveContinues, TypeOK
<1>5. ASSUME NEW dev \in Devices, NEW pair \in Targets[dev], DeleteTapped(dev, pair)
      PROVE  OffCovered'
  <2> DEFINE w == [kind |-> "del", pair |-> pair]
  <2>1. w \in Write /\ w.pair = pair /\ w.kind = "del"
        BY TargetPairs DEF Write
  <2>2. outbox' = [outbox EXCEPT ![dev] = Append(@, w)]
        BY <1>5 DEF DeleteTapped
  <2>3. ASSUME NEW p \in offCleanly'[dev]
        PROVE  Covered(outbox'[dev], p)
    <3> HIDE DEF w
    <3>1. CASE p = pair
      <4> DEFINE n == Len(outbox[dev])
                 q == outbox'[dev]
      <4>1. n \in Nat /\ Len(q) = n + 1 /\ q[n + 1] = w
            BY <2>1, <2>2, QueueGrows
      <4>2. ASSUME NEW i \in 1..Len(q), q[i].kind # "del"
            PROVE  n + 1 \in (i + 1)..Len(q)
        <5>1. i # n + 1
              BY <2>1, <4>1, <4>2
        <5> HIDE DEF n, q
        <5> QED BY <4>1, <4>2, <5>1
      <4> QED BY <3>1, <4>1, <4>2 DEF w
    <3>2. CASE p # pair
      <4>1. p \in offCleanly[dev]
            BY <1>5, <2>3, <3>2 DEF DeleteTapped, TypeOK
      <4> QED BY <2>1, <2>2, <3>2, <4>1, QueueGrows DEF OffCovered
    <3> QED BY <3>1, <3>2
  <2>4. \A o \in Devices \ {dev} : outbox'[o] = outbox[o]
    <3> HIDE DEF w
    <3> QED BY <2>1, <2>2, QueueGrows
  <2>5. \A p \in offCleanly'[dev], r \in reads'[dev] : r.pair # p
        BY <1>5 DEF DeleteTapped, TypeOK, OffCovered
  <2> HIDE DEF Covered
  <2> QED BY <1>0, <1>00, <1>5, <2>3, <2>4, <2>5 DEF DeleteTapped, TypeOK
<1>6. ASSUME NEW dev \in Devices, WriteReachesServer(dev)
      PROVE  OffCovered'
  <2>1. outbox[dev] # << >> /\ outbox' = [outbox EXCEPT ![dev] = Tail(@)]
        BY <1>6 DEF WriteReachesServer
  <2> DEFINE n == Len(outbox[dev])
             m == Len(outbox'[dev])
  <2>2. /\ n \in Nat \ {0} /\ m = n - 1
        /\ \A k \in 1..m : outbox'[dev][k] = outbox[dev][k + 1]
        /\ \A o \in Devices \ {dev} : outbox'[o] = outbox[o]
        BY <2>1, QueueShrinks
  <2>3. ASSUME NEW p \in offCleanly[dev], NEW i \in 1..m,
               outbox'[dev][i].pair = p, outbox'[dev][i].kind # "del"
        PROVE  \E j \in (i + 1)..m : outbox'[dev][j] = [kind |-> "del", pair |-> p]
    <3> HIDE DEF n, m
    <3>1. i + 1 \in 1..n /\ outbox'[dev][i] = outbox[dev][i + 1]
          BY <2>2, <2>3
    <3>2. PICK j \in ((i + 1) + 1)..n : outbox[dev][j] = [kind |-> "del", pair |-> p]
          BY <2>3, <3>1 DEF OffCovered, n
    <3>3. j - 1 \in (i + 1)..m /\ j - 1 \in 1..m /\ (j - 1) + 1 = j
          BY <2>2, <2>3, <3>2
    <3>4. outbox'[dev][j - 1] = outbox[dev][j]
          BY <2>2, <3>3
    <3> QED BY <3>2, <3>3, <3>4
  <2>4. \A p \in offCleanly[dev] : Covered(outbox'[dev], p)
        BY <2>3
  <2> HIDE DEF Covered
  <2> QED BY <1>0, <1>00, <1>6, <2>2, <2>4 DEF WriteReachesServer, TypeOK
<1>7. ASSUME NEW dev \in Devices, AppKilled(dev)
      PROVE  OffCovered'
  <2> HIDE DEF Covered
  <2> QED BY <1>0, <1>00, <1>7 DEF AppKilled, TypeOK
<1> QED BY <1>1, <1>2, <1>3, <1>4, <1>5, <1>6, <1>7 DEF Next, DeviceStep

(* A pair cleanly off whose deletion was sent stays off.                   *)
LEMMA StepCleanOff ==
  ASSUME TypeOK, EmptyIfAbsent, OwnTargets, OffCovered, CleanOffStaysOff, [Next]_vars
  PROVE  CleanOffStaysOff'
<1> SUFFICES ASSUME NEW o \in Devices, NEW pair \in offCleanly'[o], Sole(o, pair),
                    ~Pending(o, {"del"}, pair)'
             PROVE  pair[2] \notin flags'[pair[1]]
    BY DEF CleanOffStaysOff, Sole
<1>1. CASE UNCHANGED vars
      BY <1>1 DEF CleanOffStaysOff, vars, Pending
<1>2. ASSUME UNCHANGED <<flags, outbox>>, offCleanly'[o] \subseteq offCleanly[o]
      PROVE  pair[2] \notin flags'[pair[1]]
      BY <1>2 DEF CleanOffStaysOff, Pending
<1>3. ASSUME NEW dev \in Devices, NEW w \in Write, UNCHANGED flags,
             outbox' = [outbox EXCEPT ![dev] = Append(@, w)], pair \in offCleanly[o]
      PROVE  pair[2] \notin flags'[pair[1]]
  <2>1. ~Pending(o, {"del"}, pair)
    <3>1. CASE o # dev
          BY <1>3, <3>1, QueueGrows DEF Pending
    <3>2. CASE o = dev
          BY <1>3, <3>2, QueueGrows DEF Pending
    <3> QED BY <3>1, <3>2
  <2> QED BY <1>3, <2>1 DEF CleanOffStaysOff
<1>4. ASSUME NEW dev \in Devices, NEW p \in Targets[dev], SaveTapped(dev, p)
      PROVE  pair[2] \notin flags'[pair[1]]
  <2>1. offCleanly'[o] \subseteq offCleanly[o]
        BY <1>4 DEF SaveTapped, TypeOK
  <2> QED BY <1>2, <1>4, <2>1 DEF SaveTapped
<1>5. ASSUME NEW dev \in Devices, NEW r \in reads[dev], ReadAnswered(dev, r)
      PROVE  pair[2] \notin flags'[pair[1]]
      BY <1>2, <1>5 DEF ReadAnswered
<1>6. ASSUME NEW dev \in Devices, NEW r \in reads[dev], SaveContinues(dev, r)
      PROVE  pair[2] \notin flags'[pair[1]]
      BY <1>3, <1>6, ReadType, WriteForType DEF SaveContinues
<1>7. ASSUME NEW dev \in Devices, NEW p \in Targets[dev], DeleteTapped(dev, p)
      PROVE  pair[2] \notin flags'[pair[1]]
  <2> DEFINE w == [kind |-> "del", pair |-> p]
  <2>1. w \in Write /\ w.pair = p /\ w.kind = "del"
        BY TargetPairs DEF Write
  <2>2. outbox' = [outbox EXCEPT ![dev] = Append(@, w)]
        BY <1>7 DEF DeleteTapped
  <2> HIDE DEF w
  <2>3. ~(o = dev /\ pair = p)
    <3> SUFFICES ASSUME o = dev, pair = p
                 PROVE  FALSE
        OBVIOUS
    <3> DEFINE n == Len(outbox[dev])
               q == outbox'[dev]
    <3>1. n \in Nat /\ Len(q) = n + 1 /\ q[n + 1] = w
          BY <2>1, <2>2, QueueGrows
    <3>2. n + 1 \in 1..Len(q)
      <4> HIDE DEF n, q
      <4> QED BY <3>1
    <3>3. q[n + 1].kind \in {"del"} /\ q[n + 1].pair = pair
          BY <2>1, <3>1
    <3> QED BY <3>2, <3>3 DEF Pending
  <2>4. pair \in offCleanly[o]
        BY <1>7, <2>3 DEF DeleteTapped, TypeOK
  <2> QED BY <1>3, <1>7, <2>1, <2>2, <2>4 DEF DeleteTapped
<1>8. ASSUME NEW dev \in Devices, WriteReachesServer(dev)
      PROVE  pair[2] \notin flags'[pair[1]]
  <2> DEFINE w == outbox[dev][1]
             n == Len(outbox[dev])
  <2>1. /\ outbox[dev] # << >> /\ outbox' = [outbox EXCEPT ![dev] = Tail(@)]
        /\ offCleanly' = offCleanly
        BY <1>8 DEF WriteReachesServer
  <2>2. Applied(w) /\ n \in Nat \ {0}
        BY <1>8, <2>1, QueueShrinks DEF WriteReachesServer
  <2>3. 1 \in 1..n /\ w \in Write /\ w.pair \in Targets[dev] /\ pair \in Pairs
    <3>1. 1 \in 1..n
      <4> HIDE DEF n
      <4> QED BY <2>2
    <3> QED BY <3>1, <2>1, WriteType DEF OwnTargets, TypeOK
  <2>4. CASE Pending(o, {"del"}, pair)
    <3>1. w.kind = "del" /\ w.pair = pair
          BY <2>1, <2>4, DeletionWaits
    <3>2. w = [kind |-> "del", pair |-> pair]
          BY <2>3, <3>1 DEF Write
    <3> QED BY <2>2, <2>3, <3>2, FlagAfter
  <2>5. CASE ~Pending(o, {"del"}, pair)
    <3>1. pair[2] \notin flags[pair[1]]
          BY <2>1, <2>5 DEF CleanOffStaysOff
    <3>2. ~(w.pair = pair /\ w.kind # "del")
      <4>1. CASE o # dev
            BY <2>3, <4>1 DEF Sole
      <4>2. CASE o = dev
        <5>1. ASSUME w.pair = pair, w.kind # "del"
              PROVE  FALSE
          <6>1. PICK j \in (1 + 1)..n : outbox[dev][j] = [kind |-> "del", pair |-> pair]
                BY <2>1, <2>3, <4>2, <5>1 DEF OffCovered
          <6>2. j \in 1..n
            <7> HIDE DEF n
            <7> QED BY <2>2, <6>1
          <6> QED BY <2>5, <4>2, <6>1, <6>2 DEF Pending
        <5> QED BY <5>1
      <4> QED BY <4>1, <4>2
    <3> QED BY <2>2, <2>3, <3>1, <3>2, FlagAfter
  <2> QED BY <2>4, <2>5
<1>9. ASSUME NEW dev \in Devices, AppKilled(dev)
      PROVE  pair[2] \notin flags'[pair[1]]
      BY <1>2, <1>9 DEF AppKilled
<1> QED BY <1>1, <1>4, <1>5, <1>6, <1>7, <1>8, <1>9 DEF Next, DeviceStep

-----------------------------------------------------------------------------
(* The initial states satisfy the invariant: nothing is queued or read.    *)
LEMMA InitIInv == Init => IInv
<1> SUFFICES ASSUME Init
             PROVE  IInv
    OBVIOUS
<1>1. TypeOK
      BY InitTypeOK
<1>2. \A dev \in Devices : reads[dev] = {} /\ offCleanly[dev] = {} /\ Len(outbox[dev]) = 0
      BY EmptySeq DEF Init
<1>3. EmptyIfAbsent
      BY DEF Init, EmptyIfAbsent
<1> QED BY <1>1, <1>2, <1>3 DEF IInv, OwnTargets, AddsCovered, PresentCovered,
           OffCovered, CleanOffStaysOff

(* The invariant is inductive.                                             *)
LEMMA StepIInv == IInv /\ [Next]_vars => IInv'
BY StepTypeOK, StepEmptyIfAbsent, StepOwnTargets, StepAddsCovered, StepPresentCovered,
   StepOffCovered, StepCleanOff DEF IInv

(* The strengthened invariant holds in every behaviour.                    *)
THEOREM InvariantHolds == Spec => []IInv
BY InitIInv, StepIInv, PTL DEF Spec

(* An updateData that adds a key never meets a missing document: for the   *)
(* head of a queue no earlier set can be waiting, so its document exists.  *)
THEOREM AdditionsFindTheirDocument == Spec => []UpdateFindsDoc
<1>1. IInv => UpdateFindsDoc
  <2> SUFFICES ASSUME IInv, NEW dev \in Devices, outbox[dev] # << >>,
                      Head(outbox[dev]).kind = "add"
               PROVE  Head(outbox[dev]).pair[1] \in exists
      BY DEF UpdateFindsDoc
  <2>1. outbox[dev] \in Seq(Write)
        BY DEF IInv, TypeOK
  <2>2. Head(outbox[dev]) = outbox[dev][1] /\ Len(outbox[dev]) \in Nat \ {0}
        BY <2>1, QueueTail
  <2>3. 1 \in 1..Len(outbox[dev])
        BY <2>2
  <2> QED BY <2>2, <2>3 DEF IInv, AddsCovered
<1> QED BY <1>1, InvariantHolds, PTL

(* A flag tapped off while no save of it was in flight stays off.          *)
THEOREM CleanOffIsFinal == Spec => []CleanOffStaysOff
<1>1. IInv => CleanOffStaysOff
      BY DEF IInv
<1> QED BY <1>1, InvariantHolds, PTL

-----------------------------------------------------------------------------
(* What the server's step does to the documents, in the words of the       *)
(* abstract specification; a set is allowed because its document is young. *)
LEMMA AppliedRefines ==
  ASSUME TypeOK, NEW w \in Write, Applied(w), w.kind = "set" => w.pair[1] \in Young
  PROVE  \/ \E d \in Docs, f \in Fields :
              Abstract!Raise(d, f) \/ Abstract!Clear(d, f) \/ Abstract!Replace(d, f)
         \/ UNCHANGED flags
<1>1. w.pair[1] \in Docs /\ w.pair[2] \in Fields
      BY DEF Write, Pairs
<1>2. CASE w.kind = "set" /\ flags' = [flags EXCEPT ![w.pair[1]] = {w.pair[2]}]
      BY <1>1, <1>2 DEF Abstract!Replace
<1>3. CASE flags' = [flags EXCEPT ![w.pair[1]] = @ \cup {w.pair[2]}]
      BY <1>1, <1>3 DEF Abstract!Raise
<1>4. CASE flags' = [flags EXCEPT ![w.pair[1]] = @ \ {w.pair[2]}]
      BY <1>1, <1>4 DEF Abstract!Clear
<1> QED BY <1>2, <1>3, <1>4 DEF Applied

(* While reads do not fail no document becomes young: a read of an         *)
(* existing document sees it, and documents are never removed.             *)
LEMMA YoungShrinks ==
  ASSUME TypeOK, [Next]_vars, ~ReadsFail
  PROVE  Young' \subseteq Young
<1> DEFINE Blind(doc) == \E dev \in Devices :
                           \E r \in reads[dev] : r.pair[1] = doc /\ r.answer = "absent"
           Sets(doc) == \E dev \in Devices : SetPending(dev, doc)
<1>0. /\ Young = {doc \in Docs : doc \notin exists \/ Sets(doc) \/ Blind(doc)}
      /\ Young' = {doc \in Docs : doc \notin exists' \/ Sets(doc)' \/ Blind(doc)'}
      BY DEF Young
<1>1. CASE UNCHANGED vars
      BY <1>1 DEF Young, SetPending, vars
<1>2. ASSUME NEW dev \in Devices, NEW pair \in Targets[dev], SaveTapped(dev, pair)
      PROVE  Young' \subseteq Young
  <2>1. ASSUME NEW doc, Blind(doc)'
        PROVE  Blind(doc)
        BY <1>2, <2>1 DEF SaveTapped, TypeOK
  <2>2. ASSUME NEW doc, Sets(doc)'
        PROVE  Sets(doc)
        BY <1>2, <2>2 DEF SaveTapped, SetPending
  <2> HIDE DEF Blind, Sets
  <2> QED BY <1>0, <1>2, <2>1, <2>2 DEF SaveTapped
<1>3. ASSUME NEW dev \in Devices, NEW r \in reads[dev], ReadAnswered(dev, r)
      PROVE  Young' \subseteq Young
  <2>1. PICK a \in {"present", "absent"} :
          /\ a = "absent" => ~Visible(dev, r.pair[1])
          /\ reads' = [reads EXCEPT ![dev] = (@ \ {r}) \cup {[r EXCEPT !.answer = a]}]
        BY <1>3 DEF ReadAnswered
  <2>2. r \in Read
        BY ReadType
  <2>3. [r EXCEPT !.answer = a].pair = r.pair /\ [r EXCEPT !.answer = a].answer = a
        BY <2>2 DEF Read
  <2>4. ASSUME NEW doc, Blind(doc)'
        PROVE  Blind(doc) \/ doc \notin exists
        BY <2>1, <2>3, <2>4 DEF TypeOK, Visible
  <2>5. ASSUME NEW doc, Sets(doc)'
        PROVE  Sets(doc)
        BY <1>3, <2>5 DEF ReadAnswered, SetPending
  <2> HIDE DEF Blind, Sets
  <2> QED BY <1>0, <1>3, <2>4, <2>5 DEF ReadAnswered
<1>4. ASSUME NEW dev \in Devices, NEW w \in Write,
             outbox' = [outbox EXCEPT ![dev] = Append(@, w)], NEW doc, Sets(doc)'
      PROVE  Sets(doc) \/ (w.kind = "set" /\ w.pair[1] = doc)
  <2>1. PICK o \in Devices : SetPending(o, doc)'
        BY <1>4
  <2>2. CASE o # dev
        BY <1>4, <2>1, <2>2, QueueGrows DEF SetPending
  <2>3. CASE o = dev
    <3> DEFINE n == Len(outbox[dev])
               q == outbox'[dev]
    <3>1. n \in Nat /\ Len(q) = n + 1 /\ q[n + 1] = w /\ \A i \in 1..n : q[i] = outbox[dev][i]
          BY <1>4, QueueGrows
    <3>2. PICK i \in 1..Len(q) : q[i].kind = "set" /\ q[i].pair[1] = doc
          BY <2>1, <2>3 DEF SetPending
    <3>3. i = n + 1 \/ i \in 1..n
      <4> HIDE DEF n, q
      <4> QED BY <3>1, <3>2
    <3>4. CASE i = n + 1
          BY <3>1, <3>2, <3>4
    <3>5. CASE i \in 1..n
          BY <3>1, <3>2, <3>5 DEF SetPending
    <3> QED BY <3>3, <3>4, <3>5
  <2> QED BY <2>2, <2>3
<1>5. ASSUME NEW dev \in Devices, NEW r \in reads[dev], SaveContinues(dev, r)
      PROVE  Young' \subseteq Young
  <2>1. r \in Read /\ WriteFor(r) \in Write /\ WriteFor(r).pair = r.pair
        BY ReadType, WriteForType
  <2>2. ASSUME NEW doc, Sets(doc)'
        PROVE  Sets(doc) \/ Blind(doc)
    <3>1. CASE WriteFor(r).kind = "set" /\ r.pair[1] = doc
      <4>1. r.answer \in Answers /\ r.answer # "none" /\ r.answer # "present"
            BY <1>5, <2>1, <3>1 DEF SaveContinues, WriteFor, Read
      <4> QED BY <3>1, <4>1 DEF Answers
    <3>2. CASE ~(WriteFor(r).kind = "set" /\ r.pair[1] = doc)
      <4> HIDE DEF Sets
      <4> QED BY <1>4, <1>5, <2>1, <2>2, <3>2 DEF SaveContinues
    <3> QED BY <3>1, <3>2
  <2>3. ASSUME NEW doc, Blind(doc)'
        PROVE  Blind(doc)
        BY <1>5, <2>3 DEF SaveContinues, TypeOK
  <2> HIDE DEF Blind, Sets
  <2> QED BY <1>0, <1>5, <2>2, <2>3 DEF SaveContinues
<1>6. ASSUME NEW dev \in Devices, NEW pair \in Targets[dev], DeleteTapped(dev, pair)
      PROVE  Young' \subseteq Young
  <2> DEFINE w == [kind |-> "del", pair |-> pair]
  <2>1. w \in Write /\ w.kind # "set"
        BY TargetPairs DEF Write
  <2>2. outbox' = [outbox EXCEPT ![dev] = Append(@, w)]
        BY <1>6 DEF DeleteTapped
  <2> HIDE DEF w, Sets
  <2>3. ASSUME NEW doc, Sets(doc)'
        PROVE  Sets(doc)
        BY <1>4, <2>1, <2>2, <2>3
  <2>4. ASSUME NEW doc, Blind(doc)'
        PROVE  Blind(doc)
        BY <1>6, <2>4 DEF DeleteTapped
  <2> HIDE DEF Blind
  <2> QED BY <1>0, <1>6, <2>3, <2>4 DEF DeleteTapped
<1>7. ASSUME NEW dev \in Devices, WriteReachesServer(dev)
      PROVE  Young' \subseteq Young
  <2>1. outbox[dev] # << >> /\ outbox' = [outbox EXCEPT ![dev] = Tail(@)]
        BY <1>7 DEF WriteReachesServer
  <2>2. exists \subseteq exists'
        BY <1>7, ExistsGrows DEF WriteReachesServer
  <2>3. ASSUME NEW doc, Sets(doc)'
        PROVE  Sets(doc)
    <3>1. PICK o \in Devices : SetPending(o, doc)'
          BY <2>3
    <3>2. CASE o # dev
          BY <2>1, <3>1, <3>2, QueueShrinks DEF SetPending
    <3>3. CASE o = dev
      <4> DEFINE n == Len(outbox[dev])
                 q == outbox'[dev]
      <4>1. n \in Nat \ {0} /\ Len(q) = n - 1 /\ \A i \in 1..Len(q) : q[i] = outbox[dev][i + 1]
            BY <2>1, QueueShrinks
      <4>2. PICK i \in 1..Len(q) : q[i].kind = "set" /\ q[i].pair[1] = doc
            BY <3>1, <3>3 DEF SetPending
      <4>3. i + 1 \in 1..n
        <5> HIDE DEF n, q
        <5> QED BY <4>1, <4>2
      <4> QED BY <4>1, <4>2, <4>3 DEF SetPending
    <3> QED BY <3>2, <3>3
  <2>4. ASSUME NEW doc, Blind(doc)'
        PROVE  Blind(doc)
        BY <1>7, <2>4 DEF WriteReachesServer
  <2> HIDE DEF Blind, Sets
  <2> QED BY <1>0, <2>2, <2>3, <2>4
<1>8. ASSUME NEW dev \in Devices, AppKilled(dev)
      PROVE  Young' \subseteq Young
  <2>1. ASSUME NEW doc, Blind(doc)'
        PROVE  Blind(doc)
        BY <1>8, <2>1 DEF AppKilled, TypeOK
  <2>2. ASSUME NEW doc, Sets(doc)'
        PROVE  Sets(doc)
        BY <1>8, <2>2 DEF AppKilled, SetPending
  <2> HIDE DEF Blind, Sets
  <2> QED BY <1>0, <1>8, <2>1, <2>2 DEF AppKilled
<1> QED BY <1>1, <1>2, <1>3, <1>5, <1>6, <1>7, <1>8 DEF Next, DeviceStep

(* Every step is a step of the abstract specification.                     *)
LEMMA StepRefines ==
  ASSUME TypeOK, [Next]_vars, ~ReadsFail
  PROVE  [Abstract!Next]_<<flags, Young>>
<1>1. Young' \subseteq Young
      BY YoungShrinks
<1>2. CASE UNCHANGED flags
      BY <1>1, <1>2 DEF Abstract!Next
<1>3. ASSUME NEW dev \in Devices, WriteReachesServer(dev)
      PROVE  Abstract!Next
  <2>1. outbox[dev] # << >> /\ outbox[dev] \in Seq(Write) /\ Applied(Head(outbox[dev]))
        BY <1>3 DEF WriteReachesServer, TypeOK
  <2>2. /\ Head(outbox[dev]) \in Write
        /\ Head(outbox[dev]) = outbox[dev][1]
        /\ 1 \in 1..Len(outbox[dev])
        BY <2>1, QueueTail
  <2>3. Head(outbox[dev]).pair[1] \in Docs
        BY <2>2 DEF Write, Pairs
  <2>4. Head(outbox[dev]).kind = "set" => Head(outbox[dev]).pair[1] \in Young
        BY <2>2, <2>3 DEF Young, SetPending
  <2> HIDE DEF Young
  <2> QED BY <1>1, <2>1, <2>2, <2>4, AppliedRefines DEF Abstract!Next
<1> QED BY <1>2, <1>3 DEF Next, DeviceStep, vars, SaveTapped, ReadAnswered,
           SaveContinues, DeleteTapped, AppKilled

(* FlagDocs implements AbstractFlags as long as no read fails: flags are   *)
(* raised and cleared one at a time, and replaced only in a young document.*)
THEOREM Refinement ==
  ASSUME ~ReadsFail
  PROVE  Spec => ImplementsAbstract
<1>1. Init => Abstract!Init
      BY DEF Init, Abstract!Init, Young
<1>2. TypeOK /\ [Next]_vars => [Abstract!Next]_(Abstract!absVars)
      BY StepRefines DEF Abstract!absVars
<1> QED BY <1>1, <1>2, TypeCorrect, PTL DEF Spec, ImplementsAbstract, Abstract!Spec
=============================================================================
