----------------------------- MODULE TabsProofs -----------------------------
(***************************************************************************)
(* Proofs about Tabs for any users, projects, owners and bounds: types,    *)
(* that the feed and the profile come to rest showing what Firestore has,  *)
(* that the table is never left behind the rows, and that a refresh does   *)
(* not take the user from under the profile's callbacks.                   *)
(***************************************************************************)
EXTENDS Tabs, SequenceTheorems, FiniteSetTheorems, WellFoundedInduction, TLAPS

(* A set of numbers that is not empty has a least one.                     *)
LEMMA Least ==
  ASSUME NEW own \in SUBSET Nat, own # {}
  PROVE  \E i \in own : \A j \in own : i <= j
<1> DEFINE R == OpToRel(<, Nat)
<1>1. IsWellFoundedOn(R, Nat)
      BY NatLessThanWellFounded
<1>2. R = {ss \in Nat \X Nat : ss[1] < ss[2]}
      BY DEF OpToRel
<1> HIDE DEF R
<1>3. PICK i \in own : \A j \in own : ~(<<j, i>> \in R)
      BY <1>1, WFMin
<1>4. ASSUME NEW j \in own
      PROVE  i <= j
  <2>1. <<j, i>> \in Nat \X Nat
        OBVIOUS
  <2>2. ~(j < i)
        BY <1>2, <1>3, <2>1
  <2> QED BY <2>2
<1> QED BY <1>3, <1>4

(* What is counted from zero and passed on by each number is of them all.  *)
LEMMA Upwards ==
  ASSUME NEW N \in Nat, NEW holds \in SUBSET (0..N), 0 \in holds,
         \A n \in 1..N : n - 1 \in holds => n \in holds
  PROVE  holds = 0..N
<1> SUFFICES ASSUME 0..N \ holds # {} PROVE FALSE
    OBVIOUS
<1>1. 0..N \ holds \in SUBSET Nat
      OBVIOUS
<1>2. PICK i \in 0..N \ holds : \A j \in 0..N \ holds : i <= j
      BY <1>1, Least
<1> QED BY <1>2

(* The rows picked are projects, and without users there are none.         *)
LEMMA PickedRows ==
  ASSUME NEW own, NEW us
  PROVE  /\ Picked(own, us) \in Seq(Projects)
         /\ us = {} => Picked(own, us) = << >>
<1> DEFINE N == Len(Order)
           Step(f, n) == IF n = 0 THEN << >>
                         ELSE IF own[Order[n]] \in us THEN Append(f[n - 1], Order[n]) ELSE f[n - 1]
           Defined == {m \in 0..N : \E f : f = [n \in 0..m |-> Step(f, n)]}
<1>1. N \in Nat /\ \A n \in 1..N : Order[n] \in Projects
      BY TabsAssumption, ElementOfSeq, LenProperties
<1>2. 0 \in Defined
  <2> DEFINE f == [n \in 0..0 |-> << >>]
  <2>1. f = [n \in 0..0 |-> Step(f, n)]
        BY SMT
  <2> HIDE DEF f, Step
  <2> QED BY <1>1, <2>1
<1>3. ASSUME NEW m \in 1..N, m - 1 \in Defined
      PROVE  m \in Defined
  <2>1. PICK g : g = [n \in 0..(m - 1) |-> Step(g, n)]
        BY <1>3
  <2> DEFINE f == [n \in 0..m |-> IF n = m THEN Step(g, m) ELSE g[n]]
  <2>2. \A n \in 0..(m - 1) : g[n] = Step(g, n)
    <3> HIDE DEF Step
    <3> QED BY <2>1
  <2>3. \A n \in 0..m : Step(f, n) = Step(g, n)
        BY <1>1, SMT
  <2>4. \A n \in 0..m : f[n] = Step(f, n)
    <3> HIDE DEF Step
    <3> QED BY <1>1, <2>2, <2>3
  <2>5. f = [n \in 0..m |-> Step(f, n)]
    <3> HIDE DEF Step
    <3>1. f = [n \in 0..m |-> f[n]]
          OBVIOUS
    <3> HIDE DEF f
    <3> QED BY <2>4, <3>1
  <2> HIDE DEF f, Step
  <2> QED BY <1>1, <2>5
<1>4. Defined = 0..N
  <2> HIDE DEF Defined
  <2> QED BY <1>1, <1>2, <1>3, Upwards, Defined \in SUBSET (0..N) DEF Defined
<1>5. PICK f : f = [n \in 0..N |-> Step(f, n)]
  <2> HIDE DEF Step
  <2>1. N \in Defined
        BY <1>1, <1>4
  <2> QED BY <2>1
<1> DEFINE upTo == CHOOSE g : g = [n \in 0..N |-> Step(g, n)]
<1>6. upTo = [n \in 0..N |-> Step(upTo, n)]
  <2> HIDE DEF Step
  <2> QED BY <1>5
<1>7. Picked(own, us) = upTo[N]
      BY DEF Picked
<1> DEFINE Right == {n \in 0..N : upTo[n] \in Seq(Projects) /\ (us = {} => upTo[n] = << >>)}
<1>8. \A n \in 0..N : upTo[n] = Step(upTo, n)
  <2> HIDE DEF Step, upTo
  <2> QED BY <1>6
<1> HIDE DEF upTo
<1>9. 0 \in Right
  <2>1. 0 \in 0..N /\ upTo[0] = << >>
        BY <1>1, <1>8
  <2> QED BY <2>1, EmptySeq
<1>10. ASSUME NEW n \in 1..N, n - 1 \in Right
       PROVE  n \in Right
  <2>1. Order[n] \in Projects /\ n \in 0..N /\ n # 0
        BY <1>1
  <2>2. Append(upTo[n - 1], Order[n]) \in Seq(Projects)
        BY <1>10, <2>1, AppendProperties
  <2> QED BY <1>8, <1>10, <2>1, <2>2
<1>11. Right = 0..N
  <2> HIDE DEF Right
  <2> QED BY <1>1, <1>9, <1>10, Upwards, Right \in SUBSET (0..N) DEF Right
<1> QED BY <1>1, <1>7, <1>11

(* A row that is removed was one of the rows.                              *)
LEMMA Removed ==
  ASSUME NEW S, NEW q \in Seq(S), NEW i \in 1..Len(q)
  PROVE  /\ RemoveAt(q, i) \in Seq(S)
         /\ \A j \in 1..Len(RemoveAt(q, i)) : \E k \in 1..Len(q) : RemoveAt(q, i)[j] = q[k]
<1> DEFINE a == SubSeq(q, 1, i - 1)
           b == SubSeq(q, i + 1, Len(q))
<1>1. Len(q) \in Nat /\ \A k \in 1..Len(q) : q[k] \in S
      BY ElementOfSeq, LenProperties
<1>2. \A k \in 1..(i - 1) : q[k] \in S
      BY <1>1
<1>3. \A k \in (i + 1)..Len(q) : q[k] \in S
      BY <1>1
<1>4. i - 1 \in Int /\ i + 1 \in Int /\ 1 \in Int /\ Len(q) \in Int
      BY <1>1
<1>5. /\ a \in Seq(S) /\ Len(a) = i - 1
      /\ \A k \in 1..(i - 1) : a[k] = q[k]
  <2>1. /\ a \in Seq(S) /\ Len(a) = (IF 1 <= i - 1 THEN (i - 1) - 1 + 1 ELSE 0)
        /\ \A k \in 1..((i - 1) - 1 + 1) : a[k] = q[1 + k - 1]
        BY <1>2, <1>4, SubSeqProperties
  <2> HIDE DEF a
  <2> QED BY <1>1, <2>1
<1>6. /\ b \in Seq(S) /\ Len(b) = Len(q) - i
      /\ \A k \in 1..(Len(q) - i) : b[k] = q[k + i]
  <2>1. /\ b \in Seq(S) /\ Len(b) = (IF i + 1 <= Len(q) THEN Len(q) - (i + 1) + 1 ELSE 0)
        /\ \A k \in 1..(Len(q) - (i + 1) + 1) : b[k] = q[(i + 1) + k - 1]
        BY <1>3, <1>4, SubSeqProperties
  <2> HIDE DEF b
  <2> QED BY <1>1, <2>1
<1>7. RemoveAt(q, i) = a \o b
      BY DEF RemoveAt
<1> HIDE DEF a, b
<1>8. /\ a \o b \in Seq(S) /\ Len(a \o b) = Len(a) + Len(b)
      /\ \A j \in 1..(Len(a) + Len(b)) : (a \o b)[j] = IF j <= Len(a) THEN a[j] ELSE b[j - Len(a)]
      BY <1>5, <1>6, ConcatProperties
<1>9. ASSUME NEW j \in 1..Len(a \o b)
      PROVE  \E k \in 1..Len(q) : (a \o b)[j] = q[k]
  <2>1. CASE j <= i - 1
        BY <1>1, <1>5, <1>6, <1>8, <2>1
  <2>2. CASE j > i - 1
    <3>1. j - (i - 1) \in 1..(Len(q) - i) /\ (a \o b)[j] = b[j - (i - 1)]
          BY <1>1, <1>5, <1>6, <1>8, <2>2
    <3>2. (a \o b)[j] = q[j + 1] /\ j + 1 \in 1..Len(q)
          BY <1>1, <1>5, <1>6, <1>8, <3>1
    <3> QED BY <3>2
  <2> QED BY <1>1, <1>5, <1>6, <1>8, <2>1, <2>2
<1> QED BY <1>7, <1>8, <1>9

(* What waits when callbacks come behind those of a queue.                 *)
LEMMA Behind ==
  ASSUME NEW S, NEW q \in Seq(S), NEW r \in Seq(S), NEW kind
  PROVE  /\ q \o r \in Seq(S)
         /\ Waits(q \o r, kind) <=> Waits(q, kind) \/ Waits(r, kind)
         /\ \A good : EndsWith(r, kind, good) /\ (Waits(r, kind) \/ EndsWith(q, kind, good))
                        => EndsWith(q \o r, kind, good)
<1>1. /\ q \o r \in Seq(S) /\ Len(q \o r) = Len(q) + Len(r) /\ Len(q) \in Nat /\ Len(r) \in Nat
      /\ \A i \in 1..Len(q) + Len(r) : (q \o r)[i] = IF i <= Len(q) THEN q[i] ELSE r[i - Len(q)]
      BY ConcatProperties, LenProperties
<1>2. \A i \in 1..Len(q) : i \in 1..(Len(q) + Len(r)) /\ (q \o r)[i] = q[i]
      BY <1>1
<1>3. \A i \in 1..Len(r) : i + Len(q) \in 1..(Len(q) + Len(r)) /\ (q \o r)[i + Len(q)] = r[i]
      BY <1>1
<1>4. \A i \in 1..(Len(q) + Len(r)) :
        \/ i \in 1..Len(q)
        \/ i - Len(q) \in 1..Len(r) /\ (q \o r)[i] = r[i - Len(q)] /\ i = (i - Len(q)) + Len(q)
      BY <1>1
<1>5. Waits(q \o r, kind) <=> Waits(q, kind) \/ Waits(r, kind)
      BY <1>1, <1>2, <1>3, <1>4 DEF Waits
<1>6. ASSUME NEW good, EndsWith(r, kind, good), Waits(r, kind) \/ EndsWith(q, kind, good),
             NEW i \in 1..(Len(q) + Len(r)), (q \o r)[i].kind = kind, (q \o r)[i] \notin good
      PROVE  \E j \in (i + 1)..(Len(q) + Len(r)) : (q \o r)[j].kind = kind
  <2>1. CASE i \in 1..Len(q) /\ Waits(r, kind)
    <3>1. PICK j \in 1..Len(r) : r[j].kind = kind
          BY <2>1 DEF Waits
    <3>2. j + Len(q) \in (i + 1)..(Len(q) + Len(r))
          BY <1>1, <2>1
    <3> QED BY <1>3, <3>1, <3>2
  <2>2. CASE i \in 1..Len(q) /\ EndsWith(q, kind, good)
    <3>1. PICK j \in (i + 1)..Len(q) : q[j].kind = kind
          BY <1>2, <1>6, <2>2 DEF EndsWith
    <3>2. j \in 1..Len(q) /\ j \in (i + 1)..(Len(q) + Len(r))
          BY <1>1, <2>2
    <3> QED BY <1>2, <3>1, <3>2
  <2>3. CASE i \notin 1..Len(q)
    <3>1. i - Len(q) \in 1..Len(r) /\ (q \o r)[i] = r[i - Len(q)]
          BY <1>4, <2>3
    <3>2. PICK j \in (i - Len(q) + 1)..Len(r) : r[j].kind = kind
          BY <1>6, <3>1 DEF EndsWith
    <3>3. j \in 1..Len(r) /\ j + Len(q) \in (i + 1)..(Len(q) + Len(r))
          BY <1>1, <3>1
    <3> QED BY <1>3, <3>2, <3>3
  <2> QED BY <1>6, <2>1, <2>2, <2>3
<1> QED BY <1>1, <1>5, <1>6 DEF EndsWith

(* What waits behind the head of a queue.                                  *)
LEMMA HeadTaken ==
  ASSUME NEW S, NEW q \in Seq(S), q # << >>
  PROVE  /\ Head(q) \in S /\ Tail(q) \in Seq(S)
         /\ \A kind : /\ Waits(q, kind) <=> Head(q).kind = kind \/ Waits(Tail(q), kind)
                      /\ \A good : EndsWith(q, kind, good) =>
                           /\ EndsWith(Tail(q), kind, good)
                           /\ Head(q).kind = kind /\ ~Waits(Tail(q), kind) => Head(q) \in good
<1>1. /\ Head(q) \in S /\ Tail(q) \in Seq(S) /\ Head(q) = q[1]
      /\ Len(q) \in Nat \ {0} /\ Len(Tail(q)) = Len(q) - 1
      /\ \A i \in 1..(Len(q) - 1) : Tail(q)[i] = q[i + 1]
      BY HeadTailProperties, EmptySeq
<1>2. \A i \in 1..Len(q) : i = 1 \/ (i - 1 \in 1..(Len(q) - 1) /\ Tail(q)[i - 1] = q[i])
  <2>1. ASSUME NEW i \in 1..Len(q), i # 1
        PROVE  i - 1 \in 1..(Len(q) - 1) /\ (i - 1) + 1 = i
        BY <1>1, <2>1
  <2> QED BY <1>1, <2>1
<1>3. \A i \in 1..(Len(q) - 1) : i + 1 \in 1..Len(q)
      BY <1>1
<1>4. ASSUME NEW kind
      PROVE  Waits(q, kind) <=> Head(q).kind = kind \/ Waits(Tail(q), kind)
      BY <1>1, <1>2, <1>3 DEF Waits
<1>5. ASSUME NEW kind, NEW good, EndsWith(q, kind, good)
      PROVE  EndsWith(Tail(q), kind, good)
  <2> SUFFICES ASSUME NEW i \in 1..(Len(q) - 1), Tail(q)[i].kind = kind, Tail(q)[i] \notin good
               PROVE  \E j \in (i + 1)..(Len(q) - 1) : Tail(q)[j].kind = kind
      BY <1>1 DEF EndsWith
  <2>1. PICK j \in (i + 1 + 1)..Len(q) : q[j].kind = kind
        BY <1>1, <1>3, <1>5 DEF EndsWith
  <2>2. j - 1 \in (i + 1)..(Len(q) - 1) /\ j \in 1..Len(q) /\ j # 1
        BY <1>1
  <2> QED BY <1>2, <2>1, <2>2
<1>6. ASSUME NEW kind, NEW good, EndsWith(q, kind, good), Head(q).kind = kind, ~Waits(Tail(q), kind)
      PROVE  Head(q) \in good
  <2>1. 1 \in 1..Len(q)
        BY <1>1
  <2>2. ASSUME NEW j \in 2..Len(q)
        PROVE  q[j].kind # kind
    <3>1. j \in 1..Len(q) /\ j # 1
          BY <1>1
    <3> QED BY <1>1, <1>2, <1>6, <3>1 DEF Waits
  <2> QED BY <1>1, <1>6, <2>1, <2>2 DEF EndsWith
<1> QED BY <1>1, <1>4, <1>5, <1>6

(* A queue of callbacks that are all good, of other kinds or of none.      *)
LEMMA AllGood ==
  ASSUME NEW S, NEW r \in Seq(S), NEW kind, NEW good, \A cb \in S : cb.kind = kind => cb \in good
  PROVE  EndsWith(r, kind, good)
BY ElementOfSeq DEF EndsWith

(* What a queue ends with is still good for a larger set.                  *)
LEMMA MoreGood ==
  ASSUME NEW q, NEW kind, NEW good, NEW more, EndsWith(q, kind, good), good \subseteq more
  PROVE  EndsWith(q, kind, more)
BY DEF EndsWith
-----------------------------------------------------------------------------
(* There are only five kinds of listeners.                                 *)
LEMMA KindsFinite ==
  ASSUME NEW kinds \in SUBSET Kinds
  PROVE  Cardinality(kinds) \in Nat
<1>1. IsFiniteSet({"feedLikes"})
      BY FS_Singleton
<1>2. IsFiniteSet({"feedLikes"} \cup {"feedSaved"})
      BY <1>1, FS_AddElement
<1>3. IsFiniteSet(({"feedLikes"} \cup {"feedSaved"}) \cup {"profLikes"})
      BY <1>2, FS_AddElement
<1>4. IsFiniteSet((({"feedLikes"} \cup {"feedSaved"}) \cup {"profLikes"}) \cup {"profSaved"})
      BY <1>3, FS_AddElement
<1>5. IsFiniteSet(((({"feedLikes"} \cup {"feedSaved"}) \cup {"profLikes"}) \cup {"profSaved"}) \cup {"profUser"})
      BY <1>4, FS_AddElement
<1>6. ((({"feedLikes"} \cup {"feedSaved"}) \cup {"profLikes"}) \cup {"profSaved"}) \cup {"profUser"} = Kinds
      BY DEF Kinds
<1>7. IsFiniteSet(kinds)
      BY <1>5, <1>6, FS_Subset
<1> QED BY <1>7, FS_CardinalityType

\* What becomes of the callbacks of a kind: they stay what they were, or cb is the last.
KindKept(q, new, kind) ==
  /\ Waits(new, kind) <=> Waits(q, kind)
  /\ \A good : EndsWith(q, kind, good) => EndsWith(new, kind, good)
KindAdded(new, kind, cb) ==
  /\ Waits(new, kind)
  /\ \A good : cb \in good => EndsWith(new, kind, good)

(* Documents that are typed make a callback.                               *)
LEMMA BringsTyped ==
  ASSUME NEW kind \in Kinds, NEW docs,
         \/ kind \in {"feedLikes", "profLikes"} /\ docs \in LikeDocs
         \/ kind \in {"feedSaved", "profSaved"} /\ docs \in SavedDocs
         \/ kind = "profUser" /\ docs \in SavedDocs
  PROVE  Brings(kind, docs) \in Callbacks /\ Brings(kind, docs).kind = kind
BY DEF Brings, Callbacks, Kinds

(* What a listener is first called with is what there is.                  *)
LEMMA SnapshotTyped ==
  ASSUME TypeOK, NEW kind \in Kinds
  PROVE  /\ Brings(kind, Snapshot[kind]) \in Callbacks
         /\ Brings(kind, Snapshot[kind]).kind = kind
         /\ kind \in {"feedLikes", "profLikes"} => Snapshot[kind] = likes
         /\ kind \in {"feedSaved", "profSaved"} => Snapshot[kind] = saved
<1>1. NoDocs \in SavedDocs
      BY DEF NoDocs, SavedDocs
<1>2. /\ kind \in {"feedLikes", "profLikes"} => Snapshot[kind] = likes
      /\ kind \in {"feedSaved", "profSaved"} => Snapshot[kind] = saved
      /\ kind = "profUser" => Snapshot[kind] = NoDocs
      BY DEF Snapshot
<1>3. \/ kind \in {"feedLikes", "profLikes"} /\ Snapshot[kind] \in LikeDocs
      \/ kind \in {"feedSaved", "profSaved"} /\ Snapshot[kind] \in SavedDocs
      \/ kind = "profUser" /\ Snapshot[kind] \in SavedDocs
      BY <1>1, <1>2 DEF TypeOK, Kinds
<1> QED BY <1>2, <1>3, BringsTyped

(* The first callbacks of new listeners.                                   *)
LEMMA FirstsBring ==
  ASSUME TypeOK, NEW kinds \in SUBSET Kinds, NEW r \in Firsts(kinds)
  PROVE  /\ r \in Seq(Callbacks)
         /\ \A kind : /\ Waits(r, kind) => kind \in kinds
                      /\ kinds = {kind} => Waits(r, kind)
                      /\ \A good : Brings(kind, Snapshot[kind]) \in good => EndsWith(r, kind, good)
<1> DEFINE n == Cardinality(kinds)
           Brought == {Brings(kind, Snapshot[kind]) : kind \in kinds}
<1>1. n \in Nat
      BY KindsFinite
<1> HIDE DEF n
<1>2. PICK order \in [1..n -> kinds] :
        r = [i \in DOMAIN order |-> Brings(order[i], Snapshot[order[i]])]
      BY DEF Firsts, SetToSeqs, n
<1>3. r \in [1..n -> Brought] /\ \A i \in 1..n : r[i] = Brings(order[i], Snapshot[order[i]])
      BY <1>2
<1>4. r \in Seq(Brought) /\ Len(r) = n
      BY <1>1, <1>3
<1>5. \A kind \in kinds : /\ Brings(kind, Snapshot[kind]) \in Callbacks
                          /\ Brings(kind, Snapshot[kind]).kind = kind
      BY SnapshotTyped
<1>6. r \in Seq(Callbacks)
      BY <1>4, <1>5, SeqMonotonic
<1>7. ASSUME NEW kind, Waits(r, kind)
      PROVE  kind \in kinds
      BY <1>2, <1>3, <1>4, <1>5, <1>7 DEF Waits
<1>8. ASSUME NEW kind, kinds = {kind}
      PROVE  Waits(r, kind)
  <2>1. n = 1
        BY <1>8, FS_Singleton DEF n
  <2>2. order[1] = kind /\ r[1].kind = kind
        BY <1>2, <1>3, <1>5, <1>8, <2>1
  <2> QED BY <1>4, <2>1, <2>2 DEF Waits
<1>9. ASSUME NEW kind, NEW good, Brings(kind, Snapshot[kind]) \in good
      PROVE  EndsWith(r, kind, good)
  <2>1. \A cb \in Brought : cb.kind = kind => cb \in good
        BY <1>5, <1>9
  <2> QED BY <1>4, <2>1, AllGood
<1> QED BY <1>6, <1>7, <1>8, <1>9

(* New listeners: what they are called with comes behind what is there.    *)
LEMMA AskedQueue ==
  ASSUME TypeOK, NEW kinds \in SUBSET Kinds, NEW q \in Seq(Callbacks),
         listeners' = Listening(kinds), \E cbs \in Firsts(kinds) : main' = q \o cbs
  PROVE  /\ main' \in Seq(Callbacks) /\ listeners' \in [Kinds -> 0..MaxListeners]
         /\ \A kind \in Kinds :
              /\ listeners'[kind] >= listeners[kind]
              /\ IF kind \in kinds THEN listeners'[kind] > 0
                 ELSE listeners'[kind] = listeners[kind] /\ KindKept(q, main', kind)
              /\ \/ KindKept(q, main', kind) /\ kinds # {kind}
                 \/ KindAdded(main', kind, Brings(kind, Snapshot[kind]))
<1>1. PICK r \in Firsts(kinds) : main' = q \o r
      OBVIOUS
<1>2. /\ r \in Seq(Callbacks)
      /\ \A kind : /\ Waits(r, kind) => kind \in kinds
                   /\ kinds = {kind} => Waits(r, kind)
                   /\ \A good : Brings(kind, Snapshot[kind]) \in good => EndsWith(r, kind, good)
      BY FirstsBring
<1>3. /\ main' \in Seq(Callbacks)
      /\ \A kind : Waits(main', kind) <=> Waits(q, kind) \/ Waits(r, kind)
      /\ \A kind, good : EndsWith(r, kind, good) /\ (Waits(r, kind) \/ EndsWith(q, kind, good))
                         => EndsWith(main', kind, good)
      BY <1>1, <1>2, Behind
<1>4. /\ listeners' \in [Kinds -> 0..MaxListeners]
      /\ \A kind \in Kinds : /\ listeners'[kind] >= listeners[kind]
                             /\ IF kind \in kinds THEN listeners'[kind] > 0
                                ELSE listeners'[kind] = listeners[kind]
  <2>1. MaxListeners \in Nat \ {0} /\ \A kind \in Kinds : listeners[kind] \in 0..MaxListeners
        BY TabsAssumption DEF TypeOK
  <2>2. /\ DOMAIN listeners' = Kinds /\ listeners' = [kind \in Kinds |-> listeners'[kind]]
        /\ \A kind \in Kinds :
             listeners'[kind] = IF kind \in kinds /\ listeners[kind] < MaxListeners
                                THEN listeners[kind] + 1 ELSE listeners[kind]
        BY DEF Listening
  <2>3. \A kind \in Kinds : listeners'[kind] \in 0..MaxListeners
        BY <2>1, <2>2
  <2>4. listeners' \in [Kinds -> 0..MaxListeners]
        BY <2>2, <2>3
  <2>5. ASSUME NEW kind \in Kinds
        PROVE  /\ listeners'[kind] >= listeners[kind]
               /\ IF kind \in kinds THEN listeners'[kind] > 0
                  ELSE listeners'[kind] = listeners[kind]
        BY <2>1, <2>2
  <2> QED BY <1>3, <2>4, <2>5
<1>5. ASSUME NEW kind, ~Waits(r, kind)
      PROVE  KindKept(q, main', kind)
  <2>1. \A good : EndsWith(r, kind, good)
        BY <1>5 DEF EndsWith, Waits
  <2> QED BY <1>3, <1>5, <2>1 DEF KindKept
<1>6. ASSUME NEW kind, Waits(r, kind)
      PROVE  KindAdded(main', kind, Brings(kind, Snapshot[kind]))
  BY <1>2, <1>3, <1>6 DEF KindAdded
<1>7. ASSUME NEW kind \in Kinds
      PROVE  /\ kind \notin kinds => KindKept(q, main', kind)
             /\ \/ KindKept(q, main', kind) /\ kinds # {kind}
                \/ KindAdded(main', kind, Brings(kind, Snapshot[kind]))
  <2>1. (Waits(r, kind) => kind \in kinds) /\ (kinds = {kind} => Waits(r, kind))
        BY <1>2
  <2> QED BY <1>5, <1>6, <2>1
<1> QED BY <1>3, <1>4, <1>7

(* Listeners of a kind that are called all at once.                        *)
LEMMA CalledAll ==
  ASSUME NEW q \in Seq(Callbacks), NEW kind \in Kinds, NEW docs, NEW n \in Nat,
         Brings(kind, docs) \in Callbacks
  PROVE  /\ q \o Times(n, Brings(kind, docs)) \in Seq(Callbacks)
         /\ \A k : k # kind \/ n = 0 => KindKept(q, q \o Times(n, Brings(kind, docs)), k)
         /\ n # 0 => KindAdded(q \o Times(n, Brings(kind, docs)), kind, Brings(kind, docs))
<1> DEFINE cb == Brings(kind, docs)
           r == Times(n, cb)
<1>1. cb.kind = kind
      BY DEF Brings
<1> HIDE DEF cb
<1>2. r \in Seq({cb}) /\ Len(r) = n /\ \A i \in 1..n : r[i] = cb
      BY DEF Times
<1> HIDE DEF r
<1>3. r \in Seq(Callbacks)
      BY <1>2, SeqMonotonic DEF cb
<1>4. /\ q \o r \in Seq(Callbacks)
      /\ \A k : Waits(q \o r, k) <=> Waits(q, k) \/ Waits(r, k)
      /\ \A k, good : EndsWith(r, k, good) /\ (Waits(r, k) \/ EndsWith(q, k, good))
                         => EndsWith(q \o r, k, good)
      BY <1>3, Behind
<1>5. ASSUME NEW k, k # kind \/ n = 0
      PROVE  KindKept(q, q \o r, k)
  <2>1. ~Waits(r, k) /\ \A good : EndsWith(r, k, good)
        BY <1>1, <1>2, <1>5 DEF Waits, EndsWith
  <2> QED BY <1>4, <2>1 DEF KindKept
<1>6. ASSUME n # 0
      PROVE  KindAdded(q \o r, kind, cb)
  <2>1. 1 \in 1..n
        BY <1>6
  <2>2. Waits(r, kind) /\ \A good : cb \in good => EndsWith(r, kind, good)
        BY <1>1, <1>2, <2>1 DEF Waits, EndsWith
  <2> QED BY <1>4, <2>2 DEF KindAdded
<1> QED BY <1>4, <1>5, <1>6 DEF r, cb

(* What is kept by one step and by the next is kept by both; what is added *)
(* stays the last of its kind as long as it is kept.                       *)
LEMMA KeptTwice ==
  ASSUME NEW q, NEW mid, NEW new, NEW kind
  PROVE  /\ KindKept(q, q, kind)
         /\ KindKept(q, mid, kind) /\ KindKept(mid, new, kind) => KindKept(q, new, kind)
         /\ \A cb : KindAdded(mid, kind, cb) /\ KindKept(mid, new, kind) => KindAdded(new, kind, cb)
BY DEF KindKept, KindAdded

(* A collection that becomes docs: the listeners of its two kinds are told *)
(* if it is new to them, those of other kinds are not.                     *)
LEMMA LikesHeard ==
  ASSUME TypeOK, NEW docs \in LikeDocs, SetLikes(docs)
  PROVE  /\ main' \in Seq(Callbacks) /\ likes' = docs
         /\ \A kind \in Kinds :
              \/ /\ KindAdded(main', kind, Brings(kind, docs)) /\ listeners[kind] # 0
                 /\ kind \in {"feedLikes", "profLikes"}
              \/ /\ KindKept(main, main', kind)
                 /\ kind \in {"feedLikes", "profLikes"} => docs = likes \/ listeners[kind] = 0
<1>1. main \in Seq(Callbacks) /\ \A kind \in Kinds : listeners[kind] \in Nat
      BY TabsAssumption DEF TypeOK
<1>2. CASE docs = likes
      BY <1>1, <1>2, KeptTwice DEF SetLikes
<1>3. CASE docs # likes
  <2> DEFINE first == main \o Times(listeners["feedLikes"], Brings("feedLikes", docs))
             second == first \o Times(listeners["profLikes"], Brings("profLikes", docs))
  <2>1. main' = second
        BY <1>3 DEF SetLikes, Heard
  <2>2. /\ Brings("feedLikes", docs) \in Callbacks /\ Brings("profLikes", docs) \in Callbacks
        /\ "feedLikes" \in Kinds /\ "profLikes" \in Kinds
        BY BringsTyped DEF Kinds
  <2>3. /\ first \in Seq(Callbacks)
        /\ \A k : k # "feedLikes" \/ listeners["feedLikes"] = 0 => KindKept(main, first, k)
        /\ listeners["feedLikes"] # 0 => KindAdded(first, "feedLikes", Brings("feedLikes", docs))
        BY <1>1, <2>2, CalledAll
  <2> HIDE DEF first
  <2>4. /\ second \in Seq(Callbacks)
        /\ \A k : k # "profLikes" \/ listeners["profLikes"] = 0 => KindKept(first, second, k)
        /\ listeners["profLikes"] # 0 => KindAdded(second, "profLikes", Brings("profLikes", docs))
        BY <1>1, <2>2, <2>3, CalledAll
  <2> HIDE DEF second
  <2>5. ASSUME NEW kind \in Kinds, kind \notin {"feedLikes", "profLikes"}
        PROVE  KindKept(main, main', kind)
        BY <2>1, <2>3, <2>4, <2>5, KeptTwice
  <2>6. \/ KindAdded(main', "feedLikes", Brings("feedLikes", docs)) /\ listeners["feedLikes"] # 0
        \/ KindKept(main, main', "feedLikes") /\ listeners["feedLikes"] = 0
        BY <2>1, <2>3, <2>4, KeptTwice
  <2>7. \/ KindAdded(main', "profLikes", Brings("profLikes", docs)) /\ listeners["profLikes"] # 0
        \/ KindKept(main, main', "profLikes") /\ listeners["profLikes"] = 0
        BY <2>1, <2>3, <2>4, KeptTwice
  <2> QED BY <2>1, <2>4, <2>5, <2>6, <2>7 DEF SetLikes
<1> QED BY <1>2, <1>3

(* The profile's listener is on the user's document alone.                 *)
LEMMA SavedHeard ==
  ASSUME TypeOK, NEW docs \in SavedDocs, SetSaved(docs)
  PROVE  /\ main' \in Seq(Callbacks) /\ saved' = docs
         /\ \A kind \in Kinds :
              \/ /\ KindAdded(main', kind, Brings(kind, docs)) /\ listeners[kind] # 0
                 /\ kind \in {"feedSaved", "profSaved"}
              \/ /\ KindKept(main, main', kind)
                 /\ kind = "feedSaved" => docs = saved \/ listeners[kind] = 0
                 /\ kind = "profSaved" => docs[Me] = saved[Me] \/ listeners[kind] = 0
<1>1. main \in Seq(Callbacks) /\ \A kind \in Kinds : listeners[kind] \in Nat
      BY TabsAssumption DEF TypeOK
<1> DEFINE none == << >>
           called == Times(listeners["feedSaved"], Brings("feedSaved", docs))
           first == IF docs = saved THEN main ELSE main \o called
           mine == Times(listeners["profSaved"], Brings("profSaved", docs))
           second == first \o (IF docs[Me] = saved[Me] THEN none ELSE mine)
<1>2. main' = second
      BY DEF SetSaved, Heard
<1>3. /\ Brings("feedSaved", docs) \in Callbacks /\ Brings("profSaved", docs) \in Callbacks
      /\ "feedSaved" \in Kinds /\ "profSaved" \in Kinds
      BY BringsTyped DEF Kinds
<1>4. /\ main \o called \in Seq(Callbacks)
      /\ \A k : k # "feedSaved" \/ listeners["feedSaved"] = 0 => KindKept(main, main \o called, k)
      /\ listeners["feedSaved"] # 0 => KindAdded(main \o called, "feedSaved", Brings("feedSaved", docs))
      BY <1>1, <1>3, CalledAll
<1> HIDE DEF called
<1>5. /\ first \in Seq(Callbacks)
      /\ \A k : k # "feedSaved" \/ listeners["feedSaved"] = 0 \/ docs = saved => KindKept(main, first, k)
      /\ listeners["feedSaved"] # 0 /\ docs # saved => KindAdded(first, "feedSaved", Brings("feedSaved", docs))
      BY <1>1, <1>4, KeptTwice
<1> HIDE DEF first
<1>6. /\ first \o mine \in Seq(Callbacks)
      /\ \A k : k # "profSaved" \/ listeners["profSaved"] = 0 => KindKept(first, first \o mine, k)
      /\ listeners["profSaved"] # 0 => KindAdded(first \o mine, "profSaved", Brings("profSaved", docs))
      BY <1>1, <1>3, <1>5, CalledAll
<1> HIDE DEF mine
<1>7. first \o none = first
      BY <1>5, ConcatEmptySeq
<1>8. /\ second \in Seq(Callbacks)
      /\ \A k : k # "profSaved" \/ listeners["profSaved"] = 0 \/ docs[Me] = saved[Me]
                  => KindKept(first, second, k)
      /\ listeners["profSaved"] # 0 /\ docs[Me] # saved[Me]
           => KindAdded(second, "profSaved", Brings("profSaved", docs))
  <2> HIDE DEF none
  <2>1. CASE docs[Me] = saved[Me]
        BY <1>5, <1>7, <2>1, KeptTwice
  <2>2. CASE docs[Me] # saved[Me]
        BY <1>6, <2>2
  <2> QED BY <2>1, <2>2
<1> HIDE DEF second
<1>9. ASSUME NEW kind \in Kinds, kind \notin {"feedSaved", "profSaved"}
      PROVE  KindKept(main, main', kind)
      BY <1>2, <1>5, <1>8, <1>9, KeptTwice
<1>10. \/ KindAdded(main', "feedSaved", Brings("feedSaved", docs)) /\ listeners["feedSaved"] # 0
       \/ KindKept(main, main', "feedSaved") /\ (docs = saved \/ listeners["feedSaved"] = 0)
       BY <1>2, <1>5, <1>8, KeptTwice
<1>11. \/ KindAdded(main', "profSaved", Brings("profSaved", docs)) /\ listeners["profSaved"] # 0
       \/ /\ KindKept(main, main', "profSaved")
          /\ docs[Me] = saved[Me] \/ listeners["profSaved"] = 0
       BY <1>2, <1>5, <1>8, KeptTwice
<1>12. saved' = docs
       BY DEF SetSaved
<1> QED BY <1>2, <1>8, <1>9, <1>10, <1>11, <1>12

Fails(kind) == [kind |-> kind, docs |-> NoDocs, ok |-> FALSE]

(* A listener that fails: its error comes last of its kind.                *)
LEMMA FailureHeard ==
  ASSUME TypeOK, NEW kind \in Kinds, ListenerFails(kind)
  PROVE  /\ main' \in Seq(Callbacks) /\ listeners' \in [Kinds -> 0..MaxListeners]
         /\ Fails(kind) \in Callbacks /\ ~Fails(kind).ok
         /\ KindAdded(main', kind, Fails(kind))
         /\ \A k \in Kinds : k # kind => KindKept(main, main', k) /\ listeners'[k] = listeners[k]
<1>1. main \in Seq(Callbacks) /\ listeners \in [Kinds -> 0..MaxListeners] /\ MaxListeners \in Nat
      BY TabsAssumption DEF TypeOK
<1>2. Fails(kind) \in Callbacks /\ ~Fails(kind).ok /\ Fails(kind).kind = kind
      BY DEF Fails, Callbacks, NoDocs, SavedDocs
<1>3. main' = main \o <<Fails(kind)>>
      BY <1>1, <1>2, AppendIsConcat DEF ListenerFails, Fails
<1> DEFINE r == <<Fails(kind)>>
<1>4. r \in Seq(Callbacks) /\ Len(r) = 1 /\ r[1] = Fails(kind)
      BY <1>2
<1> HIDE DEF r
<1>5. /\ main \o r \in Seq(Callbacks)
      /\ \A k : Waits(main \o r, k) <=> Waits(main, k) \/ Waits(r, k)
      /\ \A k, good : EndsWith(r, k, good) /\ (Waits(r, k) \/ EndsWith(main, k, good))
                        => EndsWith(main \o r, k, good)
      BY <1>1, <1>4, Behind
<1>6. /\ \A k : Waits(r, k) <=> k = kind
      /\ \A k, good : k # kind \/ Fails(kind) \in good => EndsWith(r, k, good)
      BY <1>2, <1>4 DEF Waits, EndsWith
<1>7. KindAdded(main \o r, kind, Fails(kind))
      BY <1>5, <1>6 DEF KindAdded
<1>8. \A k : k # kind => KindKept(main, main \o r, k)
      BY <1>5, <1>6 DEF KindKept
<1>9. /\ listeners' \in [Kinds -> 0..MaxListeners]
      /\ \A k \in Kinds : k # kind => listeners'[k] = listeners[k]
  <2>1. CASE listeners' = listeners
        BY <1>1, <2>1
  <2>2. CASE listeners' = [listeners EXCEPT ![kind] = @ - 1]
    <3>1. listeners[kind] > 0 /\ listeners[kind] - 1 \in 0..MaxListeners
          BY <1>1 DEF ListenerFails
    <3> QED BY <1>1, <2>2, <3>1
  <2> QED BY <2>1, <2>2 DEF ListenerFails
<1> QED BY <1>2, <1>3, <1>5, <1>7, <1>8, <1>9 DEF r

(* A tap that starts a task finds a number for it: there are no more tasks *)
(* than there were inputs.                                                 *)
LEMMA TaskAdded ==
  ASSUME TypeOK, count < MaxInputs, NEW about \in {"likes", "saved"}, NEW p \in Projects,
         NEW sent \in BOOLEAN, NewTask(about, p, sent)
  PROVE  /\ tasks' \subseteq Tasks /\ IsFiniteSet(tasks') /\ Cardinality(tasks') <= count + 1
         /\ tasks \subseteq tasks' /\ OnTheWay(about, p)'
<1> DEFINE same == {t \in tasks : t.about = about /\ t.project = p}
           free == {n \in 1..MaxInputs : \A t \in same : t.tap # n}
           tap == CHOOSE n \in free : \A m \in free : n <= m
           new == [tap |-> tap, about |-> about, project |-> p, sent |-> sent]
<1>1. /\ tasks \subseteq Tasks /\ IsFiniteSet(tasks) /\ Cardinality(tasks) <= count
      /\ count \in Nat /\ MaxInputs \in Nat
      BY TabsAssumption DEF TypeOK
<1>2. /\ IsFiniteSet(same) /\ Cardinality(same) <= Cardinality(tasks)
      /\ Cardinality(same) \in Nat /\ Cardinality(tasks) \in Nat
  <2>1. same \in SUBSET tasks
        OBVIOUS
  <2> HIDE DEF same
  <2> QED BY <1>1, <2>1, FS_Subset, FS_CardinalityType
<1>3. free # {}
  <2> SUFFICES ASSUME \A n \in 1..MaxInputs : \E t \in same : t.tap = n
               PROVE  FALSE
      OBVIOUS
  <2> DEFINE taps == [t \in same |-> t.tap]
  <2>1. \A t \in same : t.tap \in 1..MaxInputs
        BY <1>1 DEF Tasks
  <2>2. taps \in Surjection(same, 1..MaxInputs)
    <3> HIDE DEF same
    <3> QED BY <2>1 DEF Surjection
  <2> HIDE DEF same, taps
  <2>3. Cardinality(1..MaxInputs) <= Cardinality(same)
        BY <1>2, <2>2, FS_Surjection
  <2>4. Cardinality(1..MaxInputs) = MaxInputs
    <3>1. 1 \in Int /\ MaxInputs \in Int
          BY <1>1
    <3>2. Cardinality(1..MaxInputs) = IF 1 > MaxInputs THEN 0 ELSE MaxInputs - 1 + 1
          BY <3>1, FS_Interval
    <3> QED BY <1>1, <3>2
  <2> QED BY <1>1, <1>2, <2>3, <2>4
<1>4. tap \in 1..MaxInputs
  <2>1. free \in SUBSET Nat /\ free \subseteq 1..MaxInputs
        OBVIOUS
  <2> HIDE DEF free
  <2>2. \E n \in free : \A m \in free : n <= m
        BY <1>3, <2>1, Least
  <2> QED BY <2>1, <2>2
<1>5. tasks' = tasks \cup {new}
      BY DEF NewTask
<1> HIDE DEF tap
<1>6. new \in Tasks /\ new.about = about /\ new.project = p
      BY <1>4 DEF Tasks
<1> HIDE DEF new
<1>7. IsFiniteSet(tasks') /\ Cardinality(tasks') <= count + 1
  <2>1. /\ IsFiniteSet(tasks \cup {new})
        /\ Cardinality(tasks \cup {new}) = IF new \in tasks THEN Cardinality(tasks) ELSE Cardinality(tasks) + 1
        BY <1>1, FS_AddElement
  <2> QED BY <1>1, <1>2, <1>5, <2>1
<1>8. OnTheWay(about, p)'
      BY <1>5, <1>6 DEF OnTheWay
<1> QED BY <1>1, <1>5, <1>6, <1>7, <1>8

(* A task that goes on, or ends.                                           *)
LEMMA TaskChanged ==
  ASSUME TypeOK, NEW t \in tasks
  PROVE  LET next == (tasks \ {t}) \cup {[t EXCEPT !.sent = TRUE]} IN
         /\ next \subseteq Tasks /\ IsFiniteSet(next) /\ Cardinality(next) <= count
         /\ tasks \ {t} \subseteq Tasks /\ IsFiniteSet(tasks \ {t}) /\ Cardinality(tasks \ {t}) <= count
         /\ [t EXCEPT !.sent = TRUE].about = t.about /\ [t EXCEPT !.sent = TRUE].project = t.project
         /\ t.about \in {"likes", "saved"} /\ t.project \in Projects
<1> DEFINE new == [t EXCEPT !.sent = TRUE]
           less == tasks \ {t}
<1>1. /\ tasks \subseteq Tasks /\ IsFiniteSet(tasks) /\ Cardinality(tasks) <= count /\ count \in Nat
      BY TabsAssumption DEF TypeOK
<1>2. /\ t \in Tasks /\ new \in Tasks /\ new.about = t.about /\ new.project = t.project
      /\ t.about \in {"likes", "saved"} /\ t.project \in Projects
      BY <1>1 DEF Tasks
<1> HIDE DEF new
<1>3. IsFiniteSet(less) /\ Cardinality(less) = Cardinality(tasks) - 1 /\ Cardinality(tasks) \in Nat
      BY <1>1, FS_RemoveElement, FS_CardinalityType
<1> HIDE DEF less
<1>4. /\ IsFiniteSet(less \cup {new})
      /\ Cardinality(less \cup {new}) = IF new \in less THEN Cardinality(less) ELSE Cardinality(less) + 1
      BY <1>3, FS_AddElement
<1>5. less \subseteq Tasks /\ less \cup {new} \subseteq Tasks
      BY <1>1, <1>2 DEF less
<1>6. Cardinality(less) <= count /\ Cardinality(less \cup {new}) <= count
      BY <1>1, <1>3, <1>4
<1> QED BY <1>2, <1>3, <1>4, <1>5, <1>6 DEF new, less

(* The documents that a user's key is put into, or taken out of.           *)
LEMMA KeyWritten ==
  ASSUME TypeOK, NEW p \in Projects, NEW u \in Users
  PROVE  /\ With(likes, p, u) \in LikeDocs /\ Without(likes, p, u) \in LikeDocs
         /\ Only(likes, p, u) \in LikeDocs
         /\ With(saved, u, p) \in SavedDocs /\ Without(saved, u, p) \in SavedDocs
         /\ Only(saved, u, p) \in SavedDocs
<1>1. likes \in LikeDocs /\ saved \in SavedDocs
      BY DEF TypeOK
<1>2. With(likes, p, u) \in LikeDocs /\ Without(likes, p, u) \in LikeDocs
      BY <1>1 DEF With, Without, LikeDocs
<1>3. With(saved, u, p) \in SavedDocs /\ Without(saved, u, p) \in SavedDocs
      BY <1>1 DEF With, Without, SavedDocs
<1> QED BY <1>1, <1>2, <1>3 DEF Only, LikeDocs, SavedDocs

TasksGrow == /\ tasks' \subseteq Tasks /\ IsFiniteSet(tasks') /\ Cardinality(tasks') <= count + 1
             /\ tasks \subseteq tasks'

(* A tap on a heart: the cell of one row changes, the project may be of    *)
(* another row if the table is behind, and a task is on its way about it.  *)
LEMMA LikeTapEffect ==
  ASSUME TypeOK, NEW i \in 1..Len(Order), LikeTapped(i)
  PROVE  \E on \in Projects :
           /\ cell' = [cell EXCEPT ![on].like = ~@]
           /\ \/ crashed' = "row" /\ rows # table /\ UNCHANGED <<mark, likes, main, tasks>>
              \/ /\ crashed' = crashed
                 /\ \E p \in Projects :
                      /\ rows = table => p = on
                      /\ TasksGrow /\ OnTheWay("likes", p)'
                      /\ \/ UNCHANGED <<mark, likes, main>>
                         \/ /\ mark' = [mark EXCEPT ![p].like = Absent]
                            /\ SetLikes(Without(likes, p, Me))
<1>1. /\ table \in Seq(Projects) /\ rows \in Seq(Projects) /\ count < MaxInputs
      BY DEF TypeOK, LikeTapped, Input
<1>2. i \in DOMAIN table /\ table[i] \in Projects
      BY <1>1 DEF LikeTapped
<1>3. cell' = [cell EXCEPT ![table[i]].like = ~@]
      BY DEF LikeTapped
<1>4. CASE i \notin DOMAIN rows /\ crashed' = "row" /\ UNCHANGED <<mark, likes, main, tasks>>
      BY <1>2, <1>3, <1>4
<1>5. CASE i \in DOMAIN rows /\ UNCHANGED crashed
  <2>1. PICK p \in Projects, on \in Projects : p = rows[i] /\ on = table[i]
        BY <1>1, <1>2, <1>5
  <2>2. \/ /\ mark' = [mark EXCEPT ![p].like = Absent]
           /\ SetLikes(Without(likes, p, Me))
           /\ NewTask("likes", p, TRUE)
        \/ /\ NewTask("likes", p, FALSE)
           /\ UNCHANGED <<mark, likes, main>>
        BY <1>5, <2>1 DEF LikeTapped
  <2>3. TasksGrow /\ OnTheWay("likes", p)'
    <3>1. CASE NewTask("likes", p, TRUE)
          BY <1>1, <2>1, <3>1, TaskAdded DEF TasksGrow
    <3>2. CASE NewTask("likes", p, FALSE)
          BY <1>1, <2>1, <3>2, TaskAdded DEF TasksGrow
    <3> QED BY <2>2, <3>1, <3>2
  <2>4. rows = table => p = on
        BY <2>1
  <2> QED BY <1>2, <1>3, <1>5, <2>1, <2>2, <2>3, <2>4
<1> QED BY <1>4, <1>5 DEF LikeTapped

(* The same of a tap on a bookmark.                                        *)
LEMMA SavedTapEffect ==
  ASSUME TypeOK, NEW i \in 1..Len(Order), SavedTapped(i)
  PROVE  \E on \in Projects :
           /\ cell' = [cell EXCEPT ![on].saved = ~@]
           /\ \/ crashed' = "row" /\ rows # table /\ UNCHANGED <<mark, saved, main, tasks>>
              \/ /\ crashed' = crashed
                 /\ \E p \in Projects :
                      /\ rows = table => p = on
                      /\ TasksGrow /\ OnTheWay("saved", p)'
                      /\ \/ UNCHANGED <<mark, saved, main>>
                         \/ /\ mark' = [mark EXCEPT ![p].saved = Absent]
                            /\ SetSaved(Without(saved, Me, p))
<1>1. /\ table \in Seq(Projects) /\ rows \in Seq(Projects) /\ count < MaxInputs
      BY DEF TypeOK, SavedTapped, Input
<1>2. i \in DOMAIN table /\ table[i] \in Projects
      BY <1>1 DEF SavedTapped
<1>3. cell' = [cell EXCEPT ![table[i]].saved = ~@]
      BY DEF SavedTapped
<1>4. CASE i \notin DOMAIN rows /\ crashed' = "row" /\ UNCHANGED <<mark, saved, main, tasks>>
      BY <1>2, <1>3, <1>4
<1>5. CASE i \in DOMAIN rows /\ UNCHANGED crashed
  <2>1. PICK p \in Projects, on \in Projects : p = rows[i] /\ on = table[i]
        BY <1>1, <1>2, <1>5
  <2>2. \/ /\ mark' = [mark EXCEPT ![p].saved = Absent]
           /\ SetSaved(Without(saved, Me, p))
           /\ NewTask("saved", p, TRUE)
        \/ /\ NewTask("saved", p, FALSE)
           /\ UNCHANGED <<mark, saved, main>>
        BY <1>5, <2>1 DEF SavedTapped
  <2>3. TasksGrow /\ OnTheWay("saved", p)'
    <3>1. CASE NewTask("saved", p, TRUE)
          BY <1>1, <2>1, <3>1, TaskAdded DEF TasksGrow
    <3>2. CASE NewTask("saved", p, FALSE)
          BY <1>1, <2>1, <3>2, TaskAdded DEF TasksGrow
    <3> QED BY <2>2, <3>1, <3>2
  <2>4. rows = table => p = on
        BY <2>1
  <2> QED BY <1>2, <1>3, <1>5, <2>1, <2>2, <2>3, <2>4
<1> QED BY <1>4, <1>5 DEF SavedTapped
-----------------------------------------------------------------------------
\* The callbacks that are delivered, of the profile and of all.
ProfileDelivered == UserDelivered \/ ProfileLikesDelivered \/ ProfileSavedDelivered
Asks(kinds) == Listen(kinds) /\ kinds \subseteq {"profUser", "profLikes", "profSaved"}

(* What the profile asks for is of its own kinds.                          *)
LEMMA ProfileAsks ==
  ASSUME ProfileSelected \/ ProfileRefreshed \/ LoggedIn
  PROVE  \E kinds \in SUBSET Kinds : Asks(kinds)
<1>1. Missing \in SUBSET Kinds /\ Missing \subseteq {"profUser", "profLikes", "profSaved"}
      BY DEF Missing, Kinds
<1>2. CASE ProfileSelected \/ LoggedIn
      BY <1>1, <1>2 DEF ProfileSelected, LoggedIn, Asks
<1>3. CASE ProfileRefreshed
      BY <1>3 DEF ProfileRefreshed, Asks, Kinds
<1> QED BY <1>2, <1>3

(* The queue after a callback was delivered.                               *)
LEMMA Delivery ==
  ASSUME TypeOK, NEW kind \in Kinds, NEW kinds \in SUBSET Kinds, Called(kind), Takes(kinds)
  PROVE  /\ main' \in Seq(Callbacks) /\ listeners' \in [Kinds -> 0..MaxListeners]
         /\ Head(main) \in Callbacks /\ Head(main).kind = kind /\ Tail(main) \in Seq(Callbacks)
         /\ main # << >> /\ Waits(main, kind)
         /\ \A k \in Kinds :
              /\ listeners'[k] >= listeners[k]
              /\ IF k \in kinds THEN listeners'[k] > 0
                 ELSE listeners'[k] = listeners[k] /\ KindKept(Tail(main), main', k)
              /\ kinds = {k} => KindAdded(main', k, Brings(k, Snapshot[k]))
              /\ k # kind => KindKept(main, Tail(main), k)
              /\ k # kind /\ k \notin kinds => KindKept(main, main', k)
         /\ \A good : EndsWith(main, kind, good) =>
              /\ EndsWith(Tail(main), kind, good)
              /\ ~Waits(Tail(main), kind) => Head(main) \in good
<1>1. main \in Seq(Callbacks) /\ main # << >> /\ Head(main).kind = kind
      BY DEF TypeOK, Called
<1>2. /\ Head(main) \in Callbacks /\ Tail(main) \in Seq(Callbacks)
      /\ \A k : /\ Waits(main, k) <=> Head(main).kind = k \/ Waits(Tail(main), k)
                /\ \A good : EndsWith(main, k, good) =>
                     /\ EndsWith(Tail(main), k, good)
                     /\ Head(main).kind = k /\ ~Waits(Tail(main), k) => Head(main) \in good
      BY <1>1, HeadTaken
<1>3. /\ main' \in Seq(Callbacks) /\ listeners' \in [Kinds -> 0..MaxListeners]
      /\ \A k \in Kinds :
           /\ listeners'[k] >= listeners[k]
           /\ IF k \in kinds THEN listeners'[k] > 0
              ELSE listeners'[k] = listeners[k] /\ KindKept(Tail(main), main', k)
           /\ \/ KindKept(Tail(main), main', k) /\ kinds # {k}
              \/ KindAdded(main', k, Brings(k, Snapshot[k]))
      BY <1>2, AskedQueue DEF Takes
<1>4. \A k : k # kind => KindKept(main, Tail(main), k)
      BY <1>1, <1>2 DEF KindKept
<1>5. \A k \in Kinds : k # kind /\ k \notin kinds => KindKept(main, main', k)
      BY <1>3, <1>4, KeptTwice
<1> QED BY <1>1, <1>2, <1>3, <1>4, <1>5

(* The same for what waits when listeners are added.                       *)
LEMMA Listened ==
  ASSUME TypeOK, NEW kinds \in SUBSET Kinds, Listen(kinds)
  PROVE  /\ main' \in Seq(Callbacks) /\ listeners' \in [Kinds -> 0..MaxListeners]
         /\ \A k \in Kinds :
              /\ listeners'[k] >= listeners[k]
              /\ IF k \in kinds THEN listeners'[k] > 0
                 ELSE listeners'[k] = listeners[k] /\ KindKept(main, main', k)
              /\ \/ KindKept(main, main', k) /\ kinds # {k}
                 \/ KindAdded(main', k, Brings(k, Snapshot[k]))
<1>1. main \in Seq(Callbacks)
      BY DEF TypeOK
<1> QED BY <1>1, AskedQueue DEF Listen

(* The types of the initial state.                                         *)
LEMMA InitTyped == Init => TypeOK
<1> SUFFICES ASSUME Init PROVE TypeOK
    OBVIOUS
<1>1. rows = Picked(owner, shared) /\ rows \in Seq(Projects)
      BY PickedRows DEF Init
<1>2. likes \in LikeDocs /\ saved \in SavedDocs
      BY DEF Init, LikeDocs, SavedDocs
<1>3. main \in Seq(Callbacks) /\ table \in Seq(Projects)
      BY EmptySeq DEF Init
<1>4. listeners \in [Kinds -> 0..MaxListeners] /\ count \in 0..MaxInputs /\ fetching \in 0..(count + 1)
      BY TabsAssumption DEF Init
<1>5. mark \in [Projects -> Marks] /\ cell \in [Projects -> Cells]
      BY DEF Init, Marks, Cells, NoMark, Fresh
<1>6. tasks \subseteq Tasks /\ IsFiniteSet(tasks) /\ Cardinality(tasks) <= count
      BY FS_EmptySet DEF Init
<1>7. lists \in [likes : SUBSET Projects, saved : SUBSET Projects]
      BY DEF Init, Empty
<1> QED BY <1>1, <1>2, <1>3, <1>4, <1>5, <1>6, <1>7 DEF Init, TypeOK

\* The rows are those of the users fetched, but for one that was deleted.
RowsFit == /\ rows \in Seq(Projects) /\ shared \subseteq Users
           /\ LET fetched == Picked(owner, shared)
              IN \/ rows = fetched
                 \/ tab = "covered" /\ \E i \in DOMAIN fetched : rows = RemoveAt(fetched, i)

(* A row that is deleted leaves the rows, and the table.                   *)
LEMMA DeletionTyped ==
  ASSUME TypeOK, NEW p \in Projects, RowDeleted(p)
  PROVE  /\ RowsFit' /\ table' \in Seq(Projects) /\ Shown' \subseteq Shown
         /\ tab' \in {"feed", "covered"} /\ (rows' # rows => tab' = "covered")
         /\ crashed' \in {"not", "row"}
<1>1. /\ rows \in Seq(Projects) /\ table \in Seq(Projects) /\ tab = "feed" /\ crashed = "not"
      /\ RowsFit /\ shared' = shared /\ owner' = owner
      BY DEF TypeOK, RowDeleted, OnFeed, Input, Up, RowsFit
<1> DEFINE i == CHOOSE k \in DOMAIN rows : rows[k] = p
<1>2. i \in DOMAIN rows
      BY DEF RowDeleted, Shown
<1> HIDE DEF i
<1>3. CASE UNCHANGED <<rows, table, tab>> /\ crashed' = "row"
      BY <1>1, <1>3 DEF RowsFit, Shown
<1>4. CASE /\ Len(table) = Len(rows)
           /\ rows' = RemoveAt(rows, i) /\ table' = RemoveAt(table, i)
           /\ tab' = "covered" /\ UNCHANGED crashed
  <2>1. i \in 1..Len(rows) /\ i \in 1..Len(table)
        BY <1>1, <1>2, <1>4
  <2>2. /\ rows' \in Seq(Projects) /\ table' \in Seq(Projects)
        /\ \A j \in 1..Len(rows') : \E k \in 1..Len(rows) : rows'[j] = rows[k]
    <3>1. rows \in Seq(Projects) /\ table \in Seq(Projects)
          BY <1>1
    <3>2. /\ RemoveAt(rows, i) \in Seq(Projects)
          /\ \A j \in 1..Len(RemoveAt(rows, i)) : \E k \in 1..Len(rows) : RemoveAt(rows, i)[j] = rows[k]
          BY <2>1, <3>1, Removed
    <3>3. RemoveAt(table, i) \in Seq(Projects)
          BY <2>1, <3>1, Removed
    <3> QED BY <1>4, <3>2, <3>3
  <2>3. Shown' \subseteq Shown
    <3>1. DOMAIN rows = 1..Len(rows) /\ DOMAIN rows' = 1..Len(rows')
          BY <1>1, <2>2, LenProperties
    <3> QED BY <2>2, <3>1 DEF Shown
  <2>4. RowsFit'
        BY <1>1, <1>2, <1>4, <2>2 DEF RowsFit
  <2> QED BY <1>1, <1>4, <2>2, <2>3, <2>4
<1> QED BY <1>3, <1>4 DEF RowDeleted, i

\* The steps, without those of whoever taps.
NextCases ==
  \/ LikesDelivered \/ SavedDelivered \/ ProfileDelivered \/ Reloaded
  \/ \E us \in SUBSET Users : FetchCompleted(us)
  \/ ListingFailed
  \/ \E t \in tasks : Written(t)
  \/ \E t \in tasks : Acknowledged(t)
  \/ \E i \in 1..Len(Order) : LikeTapped(i)
  \/ \E i \in 1..Len(Order) : SavedTapped(i)
  \/ \E p \in Projects : RowDeleted(p)
  \/ GetProjects \/ FeedSelected
  \/ ProfileSelected \/ ProfileRefreshed \/ LoggedIn \/ LoggedOut
  \/ \E p \in Projects, u \in Users : OthersWrite(p, u)
  \/ \E kind \in Kinds : ListenerFails(kind)
  \/ UNCHANGED vars

(* The steps one by one.                                                   *)
LEMMA Cases ==
  ASSUME TypeOK, [Next]_vars
  PROVE  NextCases
<1>1. Owning \subseteq Users
      BY TabsAssumption DEF TypeOK, Owning
<1>2. \A us \in SUBSET Owning : us \cup (Users \ Owning) \in SUBSET Users
      BY <1>1
<1>3. CASE Fetched
      BY <1>2, <1>3 DEF Fetched, NextCases
<1>4. CASE Delivered
      BY <1>4 DEF Delivered, NextCases, ProfileDelivered
<1>5. CASE Reloaded \/ UNCHANGED vars
      BY <1>5 DEF NextCases
<1>6. CASE Answered
      BY <1>6 DEF Answered, NextCases
<1>7. CASE Tapped
      BY <1>7 DEF Tapped, NextCases
<1>8. CASE Outside
      BY <1>8, TabsAssumption DEF Outside, NextCases
<1> QED BY <1>3, <1>4, <1>5, <1>6, <1>7, <1>8 DEF Next

(* The rows fit after every step.                                          *)
LEMMA StepRows ==
  ASSUME TypeOK, NextCases
  PROVE  RowsFit'
<1>1. RowsFit
      BY DEF TypeOK, RowsFit
<1>2. ASSUME UNCHANGED <<owner, shared, rows>>, tab = "covered" => tab' = "covered"
      PROVE  RowsFit'
      BY <1>1, <1>2 DEF RowsFit
<1> USE DEF vars, session, store, queues, feed, profile
<1>3. ASSUME NEW us \in SUBSET Users, FetchCompleted(us)
      PROVE  RowsFit'
      BY <1>3, PickedRows DEF FetchCompleted, RowsFit
<1>4. CASE LoggedOut
  <2>1. rows' = << >> /\ shared' = {} /\ owner' = owner
        BY <1>4 DEF LoggedOut
  <2> QED BY <2>1, PickedRows, EmptySeq DEF RowsFit
<1>5. CASE LikesDelivered \/ SavedDelivered \/ ProfileDelivered \/ Reloaded
      BY <1>2, <1>5 DEF LikesDelivered, SavedDelivered, ProfileDelivered, UserDelivered,
         ProfileLikesDelivered, ProfileSavedDelivered, Reloaded
<1>6. CASE ListingFailed \/ (\E t \in tasks : Written(t)) \/ (\E t \in tasks : Acknowledged(t))
      BY <1>2, <1>6 DEF ListingFailed, Written, Acknowledged
<1>7. CASE (\E i \in 1..Len(Order) : LikeTapped(i)) \/ (\E i \in 1..Len(Order) : SavedTapped(i))
      BY <1>2, <1>7 DEF LikeTapped, SavedTapped
<1>8. CASE \E p \in Projects : RowDeleted(p)
      BY <1>8, DeletionTyped
<1>9. CASE GetProjects \/ FeedSelected
      BY <1>2, <1>9 DEF GetProjects, FeedSelected, OnProfile
<1>10. CASE ProfileSelected \/ ProfileRefreshed \/ LoggedIn
       BY <1>2, <1>10 DEF ProfileSelected, ProfileRefreshed, LoggedIn, OnFeed
<1>11. CASE \/ \E p \in Projects, u \in Users : OthersWrite(p, u)
            \/ \E kind \in Kinds : ListenerFails(kind)
       BY <1>2, <1>11 DEF OthersWrite, ListenerFails
<1>12. CASE UNCHANGED vars
       BY <1>2, <1>12
<1> QED BY <1>3, <1>4, <1>5, <1>6, <1>7, <1>8, <1>9, <1>10, <1>11, <1>12 DEF NextCases

\* The other types.
OthersTyped ==
  /\ owner \in Ownerships /\ likes \in LikeDocs /\ saved \in SavedDocs
  /\ in \in BOOLEAN /\ dirty \in BOOLEAN /\ lost \in BOOLEAN
  /\ crashed \in {"not", "user", "row"} /\ tab \in {"feed", "profile", "covered"}
  /\ main \in Seq(Callbacks) /\ listeners \in [Kinds -> 0..MaxListeners]
  /\ count \in 0..MaxInputs /\ fetching \in 0..(count + 1)
  /\ table \in Seq(Projects) /\ mark \in [Projects -> Marks] /\ cell \in [Projects -> Cells]
  /\ tasks \subseteq Tasks /\ IsFiniteSet(tasks) /\ Cardinality(tasks) <= count
  /\ user \in {Me, Absent} /\ lists \in [likes : SUBSET Projects, saved : SUBSET Projects]

(* Every step keeps the types.                                             *)
LEMMA StepTyped ==
  ASSUME TypeOK, [Next]_vars
  PROVE  TypeOK'
<1> USE DEF vars, session, store, queues, feed, profile, Input, Up
<1>1. /\ main \in Seq(Callbacks) /\ OthersTyped /\ owner \in [Projects -> Users]
      /\ MaxInputs \in Nat /\ count \in Nat /\ Me \in Users /\ "feedLikes" \in Kinds /\ "feedSaved" \in Kinds
      /\ Cardinality(tasks) \in Nat
      BY TabsAssumption, FS_CardinalityType DEF TypeOK, OthersTyped, Kinds
<1>2. ASSUME LikesDelivered
      PROVE  OthersTyped'
  <2>1. /\ main' \in Seq(Callbacks) /\ listeners' \in [Kinds -> 0..MaxListeners]
        /\ Head(main) \in Callbacks /\ Head(main).kind = "feedLikes"
        BY <1>1, <1>2, Delivery DEF LikesDelivered
  <2>2. \A p \in Projects : Head(main).ok => Head(main).docs[p] \in (SUBSET Users) \cup {Absent}
        BY <2>1 DEF Callbacks, LikeDocs
  <2>3. \A p \in Projects : mark[p] \in Marks
        BY <1>1 DEF OthersTyped
  <2>4. ASSUME NEW p \in Projects
        PROVE  mark'[p] \in Marks
    <3>1. \/ mark'[p] = mark[p]
          \/ /\ Head(main).ok
             /\ mark'[p] = [mark[p] EXCEPT !.like = Head(main).docs[p]]
          BY <1>2 DEF LikesDelivered
    <3> QED BY <2>2, <2>3, <3>1 DEF Marks
  <2>5. mark' = [p \in Projects |-> mark'[p]]
        BY <1>2 DEF LikesDelivered
  <2>6. mark' \in [Projects -> Marks]
        BY <2>4, <2>5
  <2> QED BY <1>1, <1>2, <2>1, <2>6 DEF LikesDelivered, OthersTyped
<1>3. ASSUME SavedDelivered
      PROVE  OthersTyped'
  <2>1. /\ main' \in Seq(Callbacks) /\ listeners' \in [Kinds -> 0..MaxListeners]
        /\ Head(main) \in Callbacks /\ Head(main).kind = "feedSaved"
        BY <1>1, <1>3, Delivery DEF SavedDelivered
  <2>2. \A p \in Projects : Head(main).ok => Head(main).docs[owner[p]] \in (SUBSET Projects) \cup {Absent}
        BY <1>1, <2>1 DEF Callbacks, SavedDocs
  <2>3. \A p \in Projects : mark[p] \in Marks
        BY <1>1 DEF OthersTyped
  <2>4. ASSUME NEW p \in Projects
        PROVE  mark'[p] \in Marks
    <3>1. \/ mark'[p] = mark[p]
          \/ /\ Head(main).ok
             /\ mark'[p] = [mark[p] EXCEPT !.saved = Head(main).docs[owner[p]]]
          BY <1>3 DEF SavedDelivered
    <3> QED BY <2>2, <2>3, <3>1 DEF Marks
  <2>5. mark' = [p \in Projects |-> mark'[p]]
        BY <1>3 DEF SavedDelivered
  <2>6. mark' \in [Projects -> Marks]
        BY <2>4, <2>5
  <2> QED BY <1>1, <1>3, <2>1, <2>6 DEF SavedDelivered, OthersTyped
<1>4. ASSUME ProfileDelivered
      PROVE  OthersTyped'
  <2>1. PICK kind \in Kinds : Called(kind) /\ Takes({})
        BY <1>4 DEF ProfileDelivered, UserDelivered, ProfileLikesDelivered, ProfileSavedDelivered, Kinds
  <2>2. main' \in Seq(Callbacks) /\ listeners' \in [Kinds -> 0..MaxListeners] /\ Head(main) \in Callbacks
        BY <2>1, Delivery
  <2>3. CASE UserDelivered
    <3>1. Head(main).ok \in BOOLEAN
          BY <2>2 DEF Callbacks
    <3>2. user' \in {Me, Absent}
          BY <2>3, <3>1 DEF UserDelivered
    <3> QED BY <1>1, <2>2, <2>3, <3>2 DEF UserDelivered, OthersTyped
  <2>4. CASE ProfileLikesDelivered
    <3>1. crashed' \in {"not", "user", "row"} /\ lists' \in [likes : SUBSET Projects, saved : SUBSET Projects]
          BY <1>1, <2>4 DEF ProfileLikesDelivered, OthersTyped, Own
    <3>2. UNCHANGED <<session, fetching, feed, tasks, user, count, lost>>
          BY <2>4 DEF ProfileLikesDelivered
    <3> QED BY <1>1, <2>2, <3>1, <3>2 DEF OthersTyped
  <2>5. CASE ProfileSavedDelivered
    <3>1. Own \subseteq Projects
          BY DEF Own
    <3>2. crashed' \in {"not", "user", "row"} /\ lists' \in [likes : SUBSET Projects, saved : SUBSET Projects]
          BY <1>1, <2>5, <3>1 DEF ProfileSavedDelivered, OthersTyped
    <3>3. UNCHANGED <<session, fetching, feed, tasks, user, count, lost>>
          BY <2>5 DEF ProfileSavedDelivered
    <3> QED BY <1>1, <2>2, <3>2, <3>3 DEF OthersTyped
  <2> QED BY <1>4, <2>3, <2>4, <2>5 DEF ProfileDelivered
<1>5. ASSUME Reloaded
      PROVE  OthersTyped'
  <2>1. PICK from \in [Projects -> Projects] :
           cell' = [p \in Projects |->
                      LET old == cell[from[p]] IN
                      IF p \notin Shown THEN old
                      ELSE [like |-> IF mark[p].like = Absent THEN old.like
                                     ELSE owner[p] \in mark[p].like,
                            saved |-> IF mark[p].saved = Absent THEN old.saved
                                      ELSE p \in mark[p].saved]]
        BY <1>5 DEF Reloaded, Bijection, Injection
  <2>2. \A p \in Projects : /\ cell[from[p]] \in Cells /\ cell[from[p]].like \in BOOLEAN
                            /\ cell[from[p]].saved \in BOOLEAN
        BY <1>1, <2>1 DEF OthersTyped, Cells
  <2>3. \A p \in Projects : (owner[p] \in mark[p].like) \in BOOLEAN /\ (p \in mark[p].saved) \in BOOLEAN
        OBVIOUS
  <2>4. ASSUME NEW p \in Projects
        PROVE  cell'[p] \in Cells
    <3>1. CASE p \notin Shown
          BY <2>1, <2>2, <3>1
    <3>2. CASE p \in Shown
      <4>1. /\ (IF mark[p].like = Absent THEN cell[from[p]].like ELSE owner[p] \in mark[p].like) \in BOOLEAN
            /\ (IF mark[p].saved = Absent THEN cell[from[p]].saved ELSE p \in mark[p].saved) \in BOOLEAN
            BY <2>2, <2>3
      <4>2. cell'[p] = [like |-> IF mark[p].like = Absent THEN cell[from[p]].like
                                 ELSE owner[p] \in mark[p].like,
                        saved |-> IF mark[p].saved = Absent THEN cell[from[p]].saved
                                  ELSE p \in mark[p].saved]
            BY <2>1, <3>2
      <4> QED BY <4>1, <4>2 DEF Cells
    <3> QED BY <3>1, <3>2
  <2>5. cell' \in [Projects -> Cells]
        BY <2>1, <2>4
  <2>6. table' \in Seq(Projects) /\ dirty' \in BOOLEAN
        BY <1>5 DEF Reloaded, TypeOK
  <2>7. UNCHANGED <<session, queues, fetching, mark, tasks, profile, crashed, count, lost>>
        BY <1>5 DEF Reloaded
  <2> QED BY <1>1, <2>5, <2>6, <2>7 DEF OthersTyped
<1>6. ASSUME NEW us \in SUBSET Users, FetchCompleted(us)
      PROVE  OthersTyped'
  <2>1. main' \in Seq(Callbacks) /\ listeners' \in [Kinds -> 0..MaxListeners]
        BY <1>1, <1>6, Listened DEF FetchCompleted
  <2>3. mark' \in [Projects -> Marks]
        BY <1>6 DEF FetchCompleted, NoMark, Marks
  <2>2. count' \in 0..MaxInputs /\ fetching' \in 0..(count' + 1) /\ Cardinality(tasks') <= count'
    <3>1. /\ count \in 0..MaxInputs /\ fetching \in 0..(count + 1) /\ Cardinality(tasks) <= count
          /\ count' = count /\ tasks' = tasks /\ fetching > 0 /\ fetching' = fetching - 1
          BY <1>1, <1>6 DEF FetchCompleted, OthersTyped
    <3> QED BY <3>1
  <2>4. lost' \in BOOLEAN
        BY <1>6 DEF FetchCompleted
  <2>5. UNCHANGED <<session, table, cell, dirty, tasks, profile, crashed>>
        BY <1>6 DEF FetchCompleted
  <2> QED BY <1>1, <2>1, <2>2, <2>3, <2>4, <2>5 DEF OthersTyped
<1>7. ASSUME ListingFailed \/ GetProjects \/ FeedSelected
      PROVE  OthersTyped'
  <2>1. count' \in 0..MaxInputs /\ fetching' \in 0..(count' + 1) /\ Cardinality(tasks') <= count'
    <3>1. count \in 0..MaxInputs /\ fetching \in 0..(count + 1) /\ Cardinality(tasks) <= count
          BY <1>1 DEF OthersTyped
    <3>2. CASE ListingFailed
          BY <1>1, <3>1, <3>2 DEF ListingFailed
    <3>3. CASE GetProjects
          BY <1>1, <3>1, <3>3 DEF GetProjects
    <3>4. CASE FeedSelected
          BY <1>1, <3>1, <3>4 DEF FeedSelected
    <3> QED BY <1>7, <3>2, <3>3, <3>4
  <2>2. tab' \in {"feed", "profile", "covered"}
        BY <1>1, <1>7 DEF ListingFailed, GetProjects, FeedSelected, OthersTyped
  <2>3. UNCHANGED <<owner, store, in, queues, feed, tasks, profile, crashed, lost>>
        BY <1>7 DEF ListingFailed, GetProjects, FeedSelected
  <2> QED BY <1>1, <2>1, <2>2, <2>3 DEF OthersTyped
<1>8. ASSUME NEW t \in tasks, Written(t)
      PROVE  OthersTyped'
  <2>1. /\ tasks' \subseteq Tasks /\ IsFiniteSet(tasks') /\ Cardinality(tasks') <= count
        /\ t.about \in {"likes", "saved"} /\ t.project \in Projects
        BY <1>8, TaskChanged DEF Written
  <2>2. main' \in Seq(Callbacks) /\ likes' \in LikeDocs /\ saved' \in SavedDocs
    <3>1. CASE t.about = "likes"
      <4>1. PICK docs \in LikeDocs : SetLikes(docs)
            BY <1>1, <1>8, <2>1, <3>1, KeyWritten DEF Written
      <4> QED BY <1>1, <1>8, <3>1, <4>1, LikesHeard DEF Written, OthersTyped
    <3>2. CASE t.about = "saved"
      <4>1. PICK docs \in SavedDocs : SetSaved(docs)
            BY <1>1, <1>8, <2>1, <3>2, KeyWritten DEF Written
      <4> QED BY <1>1, <1>8, <3>2, <4>1, SavedHeard DEF Written, OthersTyped
    <3> QED BY <2>1, <3>1, <3>2
  <2> QED BY <1>1, <1>8, <2>1, <2>2 DEF Written, OthersTyped
<1>9. ASSUME NEW t \in tasks, Acknowledged(t)
      PROVE  OthersTyped'
  <2>1. tasks' \subseteq Tasks /\ IsFiniteSet(tasks') /\ Cardinality(tasks') <= count
        BY <1>9, TaskChanged DEF Acknowledged
  <2>2. main' \in Seq(Callbacks) /\ listeners' \in [Kinds -> 0..MaxListeners]
        BY <1>1, <1>9, Listened DEF Acknowledged
  <2> QED BY <1>1, <1>9, <2>1, <2>2 DEF Acknowledged, OthersTyped
<1>10. ASSUME NEW i \in 1..Len(Order), LikeTapped(i)
       PROVE  OthersTyped'
  <2>1. PICK on \in Projects :
           /\ cell' = [cell EXCEPT ![on].like = ~@]
           /\ \/ crashed' = "row" /\ rows # table /\ UNCHANGED <<mark, likes, main, tasks>>
              \/ /\ crashed' = crashed
                 /\ \E p \in Projects :
                      /\ TasksGrow
                      /\ \/ UNCHANGED <<mark, likes, main>>
                         \/ /\ mark' = [mark EXCEPT ![p].like = Absent]
                            /\ SetLikes(Without(likes, p, Me))
    <3> HIDE DEF vars, session, store, queues, feed, profile, Input, Up
    <3> QED BY <1>10, LikeTapEffect
  <2>2. cell' \in [Projects -> Cells]
    <3>1. cell \in [Projects -> Cells]
          BY <1>1 DEF OthersTyped
    <3>2. cell' = [cell EXCEPT ![on].like = ~@]
          BY <2>1
    <3> QED BY <3>1, <3>2 DEF Cells
  <2>3. tasks' \subseteq Tasks /\ IsFiniteSet(tasks') /\ Cardinality(tasks') <= count'
        BY <1>1, <1>10, <2>1, FS_CardinalityType DEF OthersTyped, TasksGrow, LikeTapped
  <2>4. main' \in Seq(Callbacks) /\ likes' \in LikeDocs /\ mark' \in [Projects -> Marks]
    <3>1. CASE UNCHANGED <<mark, likes, main>>
          BY <1>1, <3>1 DEF OthersTyped
    <3>2. ASSUME NEW p \in Projects, mark' = [mark EXCEPT ![p].like = Absent],
                 SetLikes(Without(likes, p, Me))
          PROVE  main' \in Seq(Callbacks) /\ likes' \in LikeDocs /\ mark' \in [Projects -> Marks]
      <4>1. mark \in [Projects -> Marks]
            BY <1>1 DEF OthersTyped
      <4>2. mark' \in [Projects -> Marks]
            BY <3>2, <4>1 DEF Marks
      <4>3. Without(likes, p, Me) \in LikeDocs
            BY <1>1, KeyWritten
      <4> QED BY <3>2, <4>2, <4>3, LikesHeard
    <3> QED BY <2>1, <3>1, <3>2
  <2> QED BY <1>1, <1>10, <2>1, <2>2, <2>3, <2>4 DEF LikeTapped, OthersTyped
<1>11. ASSUME NEW i \in 1..Len(Order), SavedTapped(i)
       PROVE  OthersTyped'
  <2>1. PICK on \in Projects :
           /\ cell' = [cell EXCEPT ![on].saved = ~@]
           /\ \/ crashed' = "row" /\ rows # table /\ UNCHANGED <<mark, saved, main, tasks>>
              \/ /\ crashed' = crashed
                 /\ \E p \in Projects :
                      /\ TasksGrow
                      /\ \/ UNCHANGED <<mark, saved, main>>
                         \/ /\ mark' = [mark EXCEPT ![p].saved = Absent]
                            /\ SetSaved(Without(saved, Me, p))
    <3> HIDE DEF vars, session, store, queues, feed, profile, Input, Up
    <3> QED BY <1>11, SavedTapEffect
  <2>2. cell' \in [Projects -> Cells]
    <3>1. cell \in [Projects -> Cells]
          BY <1>1 DEF OthersTyped
    <3>2. cell' = [cell EXCEPT ![on].saved = ~@]
          BY <2>1
    <3> QED BY <3>1, <3>2 DEF Cells
  <2>3. tasks' \subseteq Tasks /\ IsFiniteSet(tasks') /\ Cardinality(tasks') <= count'
        BY <1>1, <1>11, <2>1, FS_CardinalityType DEF OthersTyped, TasksGrow, SavedTapped
  <2>4. main' \in Seq(Callbacks) /\ saved' \in SavedDocs /\ mark' \in [Projects -> Marks]
    <3>1. CASE UNCHANGED <<mark, saved, main>>
          BY <1>1, <3>1 DEF OthersTyped
    <3>2. ASSUME NEW p \in Projects, mark' = [mark EXCEPT ![p].saved = Absent],
                 SetSaved(Without(saved, Me, p))
          PROVE  main' \in Seq(Callbacks) /\ saved' \in SavedDocs /\ mark' \in [Projects -> Marks]
      <4>1. mark \in [Projects -> Marks]
            BY <1>1 DEF OthersTyped
      <4>2. mark' \in [Projects -> Marks]
            BY <3>2, <4>1 DEF Marks
      <4>3. Without(saved, Me, p) \in SavedDocs
            BY <1>1, KeyWritten
      <4> QED BY <3>2, <4>2, <4>3, SavedHeard
    <3> QED BY <2>1, <3>1, <3>2
  <2> QED BY <1>1, <1>11, <2>1, <2>2, <2>3, <2>4 DEF SavedTapped, OthersTyped
<1>12. ASSUME NEW p \in Projects, RowDeleted(p)
       PROVE  OthersTyped'
  <2>1. table' \in Seq(Projects) /\ tab' \in {"feed", "covered"} /\ crashed' \in {"not", "row"}
        BY <1>12, DeletionTyped
  <2> QED BY <1>1, <1>12, <2>1 DEF RowDeleted, OthersTyped
<1>13. ASSUME ProfileSelected \/ ProfileRefreshed \/ LoggedIn
       PROVE  OthersTyped'
  <2>1. main' \in Seq(Callbacks) /\ listeners' \in [Kinds -> 0..MaxListeners]
        BY <1>13, ProfileAsks, Listened DEF Asks
  <2>2. count' \in 0..MaxInputs /\ fetching' \in 0..(count' + 1) /\ Cardinality(tasks') <= count'
        BY <1>1, <1>13 DEF ProfileSelected, ProfileRefreshed, LoggedIn, OthersTyped
  <2>3. in' \in BOOLEAN /\ tab' \in {"feed", "profile", "covered"}
        BY <1>1, <1>13 DEF ProfileSelected, ProfileRefreshed, LoggedIn, OthersTyped
  <2>4. UNCHANGED <<owner, store, fetching, feed, tasks, profile, crashed, lost>>
        BY <1>13 DEF ProfileSelected, ProfileRefreshed, LoggedIn
  <2> QED BY <1>1, <2>1, <2>2, <2>3, <2>4 DEF OthersTyped
<1>14. ASSUME LoggedOut
       PROVE  OthersTyped'
  <2>3. mark' \in [Projects -> Marks] /\ lists' \in [likes : SUBSET Projects, saved : SUBSET Projects]
        BY <1>14 DEF LoggedOut, NoMark, Marks, Empty
  <2>1. count' \in 0..MaxInputs /\ fetching' \in 0..(count' + 1) /\ Cardinality(tasks') <= count'
        BY <1>1, <1>14 DEF LoggedOut, OthersTyped
  <2>2. in' \in BOOLEAN /\ dirty' \in BOOLEAN /\ user' \in {Me, Absent}
        BY <1>14 DEF LoggedOut
  <2> QED BY <1>1, <1>14, <2>1, <2>2, <2>3 DEF LoggedOut, OthersTyped
<1>15. ASSUME NEW p \in Projects, NEW u \in Users, OthersWrite(p, u)
       PROVE  OthersTyped'
  <2>1. main' \in Seq(Callbacks) /\ likes' \in LikeDocs /\ saved' \in SavedDocs
    <3>1. ASSUME NEW docs \in LikeDocs, SetLikes(docs), saved' = saved
          PROVE  main' \in Seq(Callbacks) /\ likes' \in LikeDocs /\ saved' \in SavedDocs
          BY <1>1, <3>1, LikesHeard DEF OthersTyped
    <3>2. ASSUME NEW docs \in SavedDocs, SetSaved(docs), likes' = likes
          PROVE  main' \in Seq(Callbacks) /\ likes' \in LikeDocs /\ saved' \in SavedDocs
          BY <1>1, <3>2, SavedHeard DEF OthersTyped
    <3> QED BY <1>15, <3>1, <3>2, KeyWritten DEF OthersWrite
  <2> QED BY <1>1, <1>15, <2>1 DEF OthersWrite, OthersTyped
<1>16. ASSUME NEW kind \in Kinds, ListenerFails(kind)
       PROVE  OthersTyped'
  <2>1. main' \in Seq(Callbacks) /\ listeners' \in [Kinds -> 0..MaxListeners]
        BY <1>16, FailureHeard
  <2> QED BY <1>1, <1>16, <2>1 DEF ListenerFails, OthersTyped
<1>17. ASSUME UNCHANGED vars
       PROVE  OthersTyped'
       BY <1>1, <1>17 DEF OthersTyped
<1>18. NextCases
       BY Cases
<1>19. RowsFit'
       BY <1>18, StepRows
<1>20. OthersTyped'
       BY <1>2, <1>3, <1>4, <1>5, <1>6, <1>7, <1>8, <1>9, <1>10, <1>11, <1>12, <1>13, <1>14, <1>15, <1>16,
          <1>17, <1>18 DEF NextCases
<1> QED BY <1>19, <1>20 DEF TypeOK, OthersTyped, RowsFit
-----------------------------------------------------------------------------
Abouts == {"likes", "saved"}

(* What was on the way stays so while a task goes on; when it ends, only   *)
(* what it was about is not.                                               *)
LEMMA StillOnTheWay ==
  ASSUME TypeOK, NEW t \in tasks, NEW about, NEW p, OnTheWay(about, p)
  PROVE  /\ Written(t) => OnTheWay(about, p)'
         /\ Acknowledged(t) => t.about = about \/ OnTheWay(about, p)'
<1>1. PICK s \in tasks : s.about = about /\ s.project = p
      BY DEF OnTheWay
<1>2. [t EXCEPT !.sent = TRUE].about = t.about /\ [t EXCEPT !.sent = TRUE].project = t.project
      BY TaskChanged
<1>3. ASSUME Written(t)
      PROVE  OnTheWay(about, p)'
  <2>1. tasks' = (tasks \ {t}) \cup {[t EXCEPT !.sent = TRUE]}
        BY <1>3 DEF Written
  <2>2. CASE s = t
    <3> DEFINE new == [t EXCEPT !.sent = TRUE]
    <3>1. new \in tasks' /\ new.about = about /\ new.project = p
          BY <1>1, <1>2, <2>1, <2>2
    <3> HIDE DEF new
    <3> QED BY <3>1 DEF OnTheWay
  <2>3. CASE s # t
    <3>1. s \in tasks'
          BY <2>1, <2>3
    <3> QED BY <1>1, <3>1 DEF OnTheWay
  <2> QED BY <2>2, <2>3
<1>4. ASSUME Acknowledged(t), t.about # about
      PROVE  OnTheWay(about, p)'
  <2>1. s \in tasks'
        BY <1>1, <1>4 DEF Acknowledged
  <2> QED BY <1>1, <2>1 DEF OnTheWay
<1> QED BY <1>3, <1>4

(* The same of a tap.                                                      *)
LEMMA TapKeepsTasks ==
  ASSUME TasksGrow, NEW about, NEW p, OnTheWay(about, p)
  PROVE  OnTheWay(about, p)'
BY DEF TasksGrow, OnTheWay

(* Whether there are tasks only depends on them.                           *)
LEMMA SameTasks ==
  ASSUME tasks' = tasks
  PROVE  \A about, p : OnTheWay(about, p)' <=> OnTheWay(about, p)
BY DEF OnTheWay

\* The steps that leave the queue, the listeners and the collections alone.
QueueAlone == UNCHANGED <<main, listeners, likes, saved>>

(* What such a step keeps of each kind.                                    *)
LEMMA AloneKept ==
  ASSUME QueueAlone
  PROVE  \A kind : KindKept(main, main', kind) /\ listeners'[kind] = listeners[kind]
BY KeptTwice DEF QueueAlone

(* What the steps do to the callbacks that wait for the feed.              *)
LEMMA FeedQueue ==
  ASSUME TypeOK, NextCases
  PROVE  /\ LikesDelivered \/ (Waits(main, "feedLikes") => Waits(main', "feedLikes"))
         /\ SavedDelivered \/ (Waits(main, "feedSaved") => Waits(main', "feedSaved"))
         /\ LikesDelivered => Waits(main', "feedSaved")
         /\ \A us : FetchCompleted(us) => Waits(main', "feedLikes")
         /\ \A t \in tasks : Acknowledged(t) /\ t.about = "likes" => Waits(main', "feedLikes")
         /\ \A t \in tasks : Acknowledged(t) /\ t.about # "likes" => Waits(main', "feedSaved")
<1> DEFINE Grows == \A k \in {"feedLikes", "feedSaved"} : Waits(main, k) => Waits(main', k)
<1>1. {"feedLikes", "feedSaved"} \subseteq Kinds
      BY DEF Kinds
<1>2. ASSUME NEW us, FetchCompleted(us)
      PROVE  Grows /\ Waits(main', "feedLikes")
  <2>1. TypeOK /\ Listen({"feedLikes"}) /\ {"feedLikes"} \in SUBSET Kinds
        BY <1>1, <1>2 DEF FetchCompleted
  <2> QED BY <1>1, <2>1, Listened DEF KindKept, KindAdded
<1>3. ASSUME LikesDelivered
      PROVE  /\ Waits(main', "feedSaved")
             /\ Waits(main, "feedSaved") => Waits(main', "feedSaved")
  <2>1. Called("feedLikes") /\ Takes({"feedSaved"}) /\ {"feedSaved"} \in SUBSET Kinds
        BY <1>1, <1>3 DEF LikesDelivered
  <2> QED BY <1>1, <2>1, Delivery DEF KindAdded
<1>4. ASSUME SavedDelivered
      PROVE  Waits(main, "feedLikes") => Waits(main', "feedLikes")
  <2>1. Called("feedSaved") /\ Takes({})
        BY <1>4 DEF SavedDelivered
  <2> QED BY <1>1, <2>1, Delivery DEF KindKept
<1>5. ASSUME ProfileDelivered
      PROVE  Grows
  <2>1. PICK kind \in {"profUser", "profLikes", "profSaved"} : Called(kind) /\ Takes({})
        BY <1>5 DEF ProfileDelivered, UserDelivered, ProfileLikesDelivered, ProfileSavedDelivered
  <2>2. kind \in Kinds /\ {} \in SUBSET Kinds
        BY DEF Kinds
  <2> QED BY <1>1, <2>1, <2>2, Delivery DEF KindKept
<1>6. ASSUME NEW t \in tasks, Written(t)
      PROVE  Grows
  <2>1. t.about \in Abouts /\ t.project \in Projects /\ Me \in Users
        BY TaskChanged, TabsAssumption DEF Abouts
  <2>2. ASSUME NEW docs \in LikeDocs, SetLikes(docs)
        PROVE  Grows
        BY <1>1, <2>2, LikesHeard DEF KindKept, KindAdded
  <2>3. ASSUME NEW docs \in SavedDocs, SetSaved(docs)
        PROVE  Grows
        BY <1>1, <2>3, SavedHeard DEF KindKept, KindAdded
  <2> HIDE DEF Grows
  <2> QED BY <1>6, <2>1, <2>2, <2>3, KeyWritten DEF Written
<1>7. ASSUME NEW t \in tasks, Acknowledged(t)
      PROVE  /\ Grows
             /\ t.about = "likes" => Waits(main', "feedLikes")
             /\ t.about # "likes" => Waits(main', "feedSaved")
  <2>1. PICK kind \in {"feedLikes", "feedSaved"} :
          Listen({kind}) /\ (t.about = "likes" <=> kind = "feedLikes")
        BY <1>7 DEF Acknowledged
  <2>2. {kind} \in SUBSET Kinds
        BY <1>1
  <2> QED BY <1>1, <2>1, <2>2, Listened DEF KindKept, KindAdded
<1>8. ASSUME NEW i \in 1..Len(Order), LikeTapped(i)
      PROVE  Grows
  <2>1. main' = main \/ \E p \in Projects : SetLikes(Without(likes, p, Me))
        BY <1>8, LikeTapEffect
  <2>2. \A p \in Projects : Without(likes, p, Me) \in LikeDocs
        BY KeyWritten, TabsAssumption
  <2> QED BY <1>1, <2>1, <2>2, LikesHeard DEF KindKept, KindAdded
<1>9. ASSUME NEW i \in 1..Len(Order), SavedTapped(i)
      PROVE  Grows
  <2>1. main' = main \/ \E p \in Projects : SetSaved(Without(saved, Me, p))
        BY <1>9, SavedTapEffect
  <2>2. \A p \in Projects : Without(saved, Me, p) \in SavedDocs
        BY KeyWritten, TabsAssumption
  <2> QED BY <1>1, <2>1, <2>2, SavedHeard DEF KindKept, KindAdded
<1>10. ASSUME ProfileSelected \/ ProfileRefreshed \/ LoggedIn
       PROVE  Grows
       BY <1>1, <1>10, ProfileAsks, Listened DEF Asks, KindKept
<1>11. ASSUME NEW p \in Projects, NEW u \in Users, OthersWrite(p, u)
       PROVE  Grows
  <2>1. ASSUME NEW docs \in LikeDocs, SetLikes(docs)
        PROVE  Grows
        BY <1>1, <2>1, LikesHeard DEF KindKept, KindAdded
  <2>2. ASSUME NEW docs \in SavedDocs, SetSaved(docs)
        PROVE  Grows
        BY <1>1, <2>2, SavedHeard DEF KindKept, KindAdded
  <2> HIDE DEF Grows
  <2> QED BY <1>11, <2>1, <2>2, KeyWritten DEF OthersWrite
<1>12. ASSUME NEW kind \in Kinds, ListenerFails(kind)
       PROVE  Grows
       BY <1>1, <1>12, FailureHeard DEF KindKept, KindAdded
<1>13. ASSUME \/ Reloaded \/ ListingFailed \/ GetProjects \/ FeedSelected \/ LoggedOut \/ UNCHANGED vars
              \/ \E p \in Projects : RowDeleted(p)
       PROVE  Grows
       BY <1>13 DEF Reloaded, ListingFailed, GetProjects, FeedSelected, LoggedOut, RowDeleted, vars, queues
<1> QED BY <1>2, <1>3, <1>4, <1>5, <1>6, <1>7, <1>8, <1>9, <1>10, <1>11, <1>12, <1>13 DEF NextCases

\* A reload of the table is due, or will be once callbacks have come.
ReloadDue == dirty \/ Waits(main, "feedLikes") \/ Waits(main, "feedSaved")

(* Once due, a reload stays due until it is done.                          *)
LEMMA DueStays ==
  ASSUME TypeOK, NextCases, ReloadDue
  PROVE  ReloadDue' \/ Reloaded
<1>1. dirty /\ ~Reloaded => dirty'
  <2> SUFFICES ASSUME dirty, ~Reloaded PROVE dirty'
      OBVIOUS
  <2> USE DEF feed, vars, profile
  <2>1. CASE LikesDelivered \/ SavedDelivered \/ ProfileDelivered
        BY <2>1 DEF LikesDelivered, SavedDelivered, ProfileDelivered, UserDelivered,
           ProfileLikesDelivered, ProfileSavedDelivered
  <2>2. CASE (\E us \in SUBSET Users : FetchCompleted(us)) \/ ListingFailed
        BY <2>2 DEF FetchCompleted, ListingFailed
  <2>3. CASE (\E t \in tasks : Written(t)) \/ (\E t \in tasks : Acknowledged(t))
        BY <2>3 DEF Written, Acknowledged
  <2>4. CASE (\E i \in 1..Len(Order) : LikeTapped(i)) \/ (\E i \in 1..Len(Order) : SavedTapped(i))
        BY <2>4 DEF LikeTapped, SavedTapped
  <2>5. CASE (\E p \in Projects : RowDeleted(p)) \/ GetProjects \/ FeedSelected \/ LoggedOut
        BY <2>5 DEF RowDeleted, GetProjects, FeedSelected, LoggedOut
  <2>6. CASE ProfileSelected \/ ProfileRefreshed \/ LoggedIn
        BY <2>6 DEF ProfileSelected, ProfileRefreshed, LoggedIn
  <2>7. CASE (\E p \in Projects, u \in Users : OthersWrite(p, u)) \/ (\E kind \in Kinds : ListenerFails(kind))
        BY <2>7 DEF OthersWrite, ListenerFails
  <2>8. CASE UNCHANGED vars
        BY <2>8
  <2> QED BY <2>1, <2>2, <2>3, <2>4, <2>5, <2>6, <2>7, <2>8 DEF NextCases
<1>2. SavedDelivered => dirty'
      BY DEF SavedDelivered
<1> QED BY <1>1, <1>2, FeedQueue DEF ReloadDue

(* The table is behind the rows only while a reload is due, in other words.*)
LEMMA BehindIfDue ==
  ASSUME TypeOK
  PROVE  TableCatchesUp <=> (table # rows => ReloadDue)
<1>1. DOMAIN main = 1..Len(main)
      BY LenProperties DEF TypeOK
<1> QED BY <1>1 DEF TableCatchesUp, ReloadDue, Waits

(* Every step leaves the table with the rows, or a reload due.             *)
LEMMA StepTable ==
  ASSUME TypeOK, TableCatchesUp, NextCases, TypeOK'
  PROVE  TableCatchesUp'
<1>1. table # rows => ReloadDue
      BY BehindIfDue
<1>2. TableCatchesUp' <=> (table' # rows' => ReloadDue')
  <2>1. main' \in Seq(Callbacks)
        BY DEF TypeOK
  <2>2. DOMAIN main' = 1..Len(main')
        BY <2>1, LenProperties
  <2> QED BY <2>2 DEF TableCatchesUp, ReloadDue, Waits
<1>3. CASE Reloaded
      BY <1>2, <1>3 DEF Reloaded
<1>4. CASE \E us \in SUBSET Users : FetchCompleted(us)
      BY <1>2, <1>4, FeedQueue DEF ReloadDue
<1>5. CASE LoggedOut
      BY <1>2, <1>5 DEF LoggedOut, ReloadDue
<1>6. CASE \E p \in Projects : RowDeleted(p)
  <2>1. table = rows => table' = rows'
        BY <1>6 DEF RowDeleted
  <2>2. ~Reloaded \/ table' = rows'
        BY DEF Reloaded
  <2> QED BY <1>1, <1>2, <2>1, <2>2, DueStays
<1>7. CASE UNCHANGED <<table, rows>>
  <2>1. Reloaded => table' = rows'
        BY DEF Reloaded
  <2> QED BY <1>1, <1>2, <1>7, <2>1, DueStays
<1> USE DEF feed, vars, profile
<1>8. CASE LikesDelivered \/ SavedDelivered \/ ProfileDelivered
      BY <1>7, <1>8 DEF LikesDelivered, SavedDelivered, ProfileDelivered, UserDelivered,
         ProfileLikesDelivered, ProfileSavedDelivered
<1>9. CASE ListingFailed \/ (\E t \in tasks : Written(t)) \/ (\E t \in tasks : Acknowledged(t))
      BY <1>7, <1>9 DEF ListingFailed, Written, Acknowledged
<1>10. CASE (\E i \in 1..Len(Order) : LikeTapped(i)) \/ (\E i \in 1..Len(Order) : SavedTapped(i))
       BY <1>7, <1>10 DEF LikeTapped, SavedTapped
<1>11. CASE GetProjects \/ FeedSelected \/ ProfileSelected \/ ProfileRefreshed \/ LoggedIn
       BY <1>7, <1>11 DEF GetProjects, FeedSelected, ProfileSelected, ProfileRefreshed, LoggedIn
<1>12. CASE (\E p \in Projects, u \in Users : OthersWrite(p, u)) \/ (\E kind \in Kinds : ListenerFails(kind))
       BY <1>7, <1>12 DEF OthersWrite, ListenerFails
<1>13. CASE UNCHANGED vars
       BY <1>7, <1>13
<1> QED BY <1>3, <1>4, <1>5, <1>6, <1>8, <1>9, <1>10, <1>11, <1>12, <1>13 DEF NextCases

(* Nothing happens after a crash, so a user that was missed does not come. *)
LEMMA StepUser ==
  ASSUME TypeOK, UserFits, NextCases
  PROVE  UserFits'
<1>1. Me # Absent
      BY TabsAssumption
<1>2. CASE UNCHANGED <<profile, crashed>>
      BY <1>2 DEF UserFits, profile
<1>3. CASE UserDelivered
      BY <1>1, <1>3 DEF UserDelivered, UserFits, Called, Up
<1>4. CASE ProfileLikesDelivered
      BY <1>4 DEF ProfileLikesDelivered, UserFits, Called, Up
<1>5. CASE ProfileSavedDelivered
      BY <1>5 DEF ProfileSavedDelivered, UserFits, Called, Up
<1>6. CASE LoggedOut
      BY <1>6 DEF LoggedOut, UserFits
<1>7. CASE (\E i \in 1..Len(Order) : LikeTapped(i)) \/ (\E i \in 1..Len(Order) : SavedTapped(i))
  <2>1. UNCHANGED profile /\ (crashed' = "row" \/ crashed' = crashed)
        BY <1>7 DEF LikeTapped, SavedTapped
  <2> QED BY <2>1 DEF UserFits, profile
<1>8. CASE \E p \in Projects : RowDeleted(p)
  <2>1. UNCHANGED profile /\ (crashed' = "row" \/ crashed' = crashed)
        BY <1>8 DEF RowDeleted
  <2> QED BY <2>1 DEF UserFits, profile
<1>9. CASE LikesDelivered \/ SavedDelivered \/ Reloaded \/ ListingFailed
      BY <1>2, <1>9 DEF LikesDelivered, SavedDelivered, Reloaded, ListingFailed
<1>10. CASE (\E us \in SUBSET Users : FetchCompleted(us)) \/ (\E t \in tasks : Written(t))
            \/ (\E t \in tasks : Acknowledged(t))
       BY <1>2, <1>10 DEF FetchCompleted, Written, Acknowledged
<1>11. CASE GetProjects \/ FeedSelected \/ ProfileSelected \/ ProfileRefreshed \/ LoggedIn
       BY <1>2, <1>11 DEF GetProjects, FeedSelected, ProfileSelected, ProfileRefreshed, LoggedIn
<1>12. CASE (\E p \in Projects, u \in Users : OthersWrite(p, u)) \/ (\E kind \in Kinds : ListenerFails(kind))
       BY <1>2, <1>12 DEF OthersWrite, ListenerFails
<1>13. CASE UNCHANGED vars
       BY <1>2, <1>13 DEF vars
<1> QED BY <1>3, <1>4, <1>5, <1>6, <1>7, <1>8, <1>9, <1>10, <1>11, <1>12, <1>13 DEF NextCases, ProfileDelivered
-----------------------------------------------------------------------------
\* What a kind of listeners is told of has not changed.
SameFor(kind) == /\ kind \in {"feedLikes", "profLikes"} => likes' = likes
                 /\ kind = "feedSaved" => saved' = saved
                 /\ kind = "profSaved" => saved'[Me] = saved[Me]

\* A callback of the kind is delivered, and nothing else happens to the kind.
Delivers(kind) == \/ kind = "feedLikes" /\ LikesDelivered
                  \/ kind = "feedSaved" /\ SavedDelivered
                  \/ kind = "profUser" /\ UserDelivered
                  \/ kind = "profLikes" /\ ProfileLikesDelivered
                  \/ kind = "profSaved" /\ ProfileSavedDelivered
Taken(kind) == /\ Delivers(kind)
               /\ main \in Seq(Callbacks) /\ main # << >> /\ Head(main).kind = kind
               /\ KindKept(Tail(main), main', kind)
               /\ UNCHANGED <<likes, saved>> /\ listeners'[kind] = listeners[kind]

\* A kind is not told of anything, or of what there is now.
NotTold(kind) == /\ KindKept(main, main', kind) /\ listeners'[kind] >= listeners[kind]
                 /\ SameFor(kind) \/ listeners'[kind] = 0
NowTold(kind) == /\ KindAdded(main', kind, Brings(kind, Snapshot'[kind]))
                 /\ listeners'[kind] > 0

(* What each step means for the listeners of a kind.                       *)
LEMMA Told ==
  ASSUME TypeOK, NextCases, NEW kind \in Kinds
  PROVE  Taken(kind) \/ NotTold(kind) \/ NowTold(kind) \/ ListenerFails(kind)
<1>1. /\ main \in Seq(Callbacks) /\ \A k \in Kinds : listeners[k] \in Nat
      /\ {"feedLikes", "feedSaved", "profLikes", "profSaved", "profUser"} = Kinds
      BY TabsAssumption DEF TypeOK, Kinds
<1>2. ASSUME UNCHANGED store
      PROVE  Snapshot'[kind] = Snapshot[kind] /\ SameFor(kind)
      BY <1>2 DEF store, Snapshot, SameFor
<1>3. ASSUME NEW kinds \in SUBSET Kinds, Listen(kinds), UNCHANGED store
      PROVE  NotTold(kind) \/ NowTold(kind)
  <2>1. /\ listeners'[kind] >= listeners[kind] /\ listeners[kind] \in Nat
        /\ kind \in kinds => listeners'[kind] > 0
        /\ \/ KindKept(main, main', kind) /\ kinds # {kind}
           \/ KindAdded(main', kind, Brings(kind, Snapshot[kind]))
        /\ kind \notin kinds => KindKept(main, main', kind)
        BY <1>1, <1>3, Listened
  <2> QED BY <1>2, <1>3, <2>1 DEF NotTold, NowTold
<1>4. ASSUME NEW head \in Kinds, NEW kinds \in SUBSET Kinds, head \notin kinds,
             Delivers(head), Called(head), Takes(kinds), UNCHANGED store,
             kind \in kinds => kinds = {kind}
      PROVE  Taken(kind) \/ NotTold(kind) \/ NowTold(kind)
  <2>1. /\ main # << >> /\ Head(main).kind = head /\ listeners'[kind] >= listeners[kind]
        /\ IF kind \in kinds THEN listeners'[kind] > 0
           ELSE listeners'[kind] = listeners[kind] /\ KindKept(Tail(main), main', kind)
        /\ kinds = {kind} => KindAdded(main', kind, Brings(kind, Snapshot[kind]))
        /\ kind # head /\ kind \notin kinds => KindKept(main, main', kind)
        BY <1>4, Delivery
  <2> QED BY <1>1, <1>2, <1>4, <2>1 DEF Taken, NotTold, NowTold, store
<1>5. ASSUME NEW docs \in LikeDocs, SetLikes(docs), UNCHANGED <<listeners, saved>>
      PROVE  NotTold(kind) \/ NowTold(kind)
  <2>1. /\ likes' = docs
        /\ \/ /\ KindAdded(main', kind, Brings(kind, docs)) /\ listeners[kind] # 0
              /\ kind \in {"feedLikes", "profLikes"}
           \/ /\ KindKept(main, main', kind)
              /\ kind \in {"feedLikes", "profLikes"} => docs = likes \/ listeners[kind] = 0
        BY <1>5, LikesHeard
  <2>2. kind \in {"feedLikes", "profLikes"} => Snapshot'[kind] = docs
        BY <1>1, <2>1 DEF Snapshot
  <2>3. listeners[kind] \in Nat /\ listeners'[kind] = listeners[kind]
        BY <1>1, <1>5
  <2>4. kind \notin {"feedLikes", "profLikes"} => SameFor(kind)
        BY <1>5 DEF SameFor
  <2>5. kind \in {"feedLikes", "profLikes"} /\ docs = likes => SameFor(kind)
        BY <2>1 DEF SameFor
  <2> QED BY <2>1, <2>2, <2>3, <2>4, <2>5 DEF NotTold, NowTold
<1>6. ASSUME NEW docs \in SavedDocs, SetSaved(docs), UNCHANGED <<listeners, likes>>
      PROVE  NotTold(kind) \/ NowTold(kind)
  <2>1. /\ saved' = docs
        /\ \/ /\ KindAdded(main', kind, Brings(kind, docs)) /\ listeners[kind] # 0
              /\ kind \in {"feedSaved", "profSaved"}
           \/ /\ KindKept(main, main', kind)
              /\ kind = "feedSaved" => docs = saved \/ listeners[kind] = 0
              /\ kind = "profSaved" => docs[Me] = saved[Me] \/ listeners[kind] = 0
        BY <1>6, SavedHeard
  <2>2. kind \in {"feedSaved", "profSaved"} => Snapshot'[kind] = docs
        BY <1>1, <2>1 DEF Snapshot
  <2>3. listeners[kind] \in Nat /\ listeners'[kind] = listeners[kind]
        BY <1>1, <1>6
  <2>4. kind \notin {"feedSaved", "profSaved"} => SameFor(kind)
        BY <1>6 DEF SameFor
  <2>5. kind = "feedSaved" /\ docs = saved => SameFor(kind)
        BY <2>1 DEF SameFor
  <2>6. kind = "profSaved" /\ docs[Me] = saved[Me] => SameFor(kind)
        BY <2>1 DEF SameFor
  <2> QED BY <2>1, <2>2, <2>3, <2>4, <2>5, <2>6 DEF NotTold, NowTold
<1>7. ASSUME QueueAlone
      PROVE  NotTold(kind)
  <2>1. SameFor(kind) /\ KindKept(main, main', kind) /\ listeners'[kind] = listeners[kind]
        BY <1>7, AloneKept DEF QueueAlone, SameFor
  <2> QED BY <1>1, <2>1 DEF NotTold
<1>8. CASE LikesDelivered \/ SavedDelivered \/ ProfileDelivered
  <2>1. \E head \in Kinds, kinds \in SUBSET Kinds :
          /\ Delivers(head) /\ Called(head) /\ Takes(kinds) /\ head \notin kinds
          /\ kinds = {} \/ kinds = {"feedSaved"}
    <3> USE DEF Delivers
    <3>1. CASE LikesDelivered
          BY <1>1, <3>1 DEF LikesDelivered
    <3>2. CASE SavedDelivered
          BY <1>1, <3>2 DEF SavedDelivered
    <3>3. CASE UserDelivered
          BY <1>1, <3>3 DEF UserDelivered
    <3>4. CASE ProfileLikesDelivered
          BY <1>1, <3>4 DEF ProfileLikesDelivered
    <3>5. CASE ProfileSavedDelivered
          BY <1>1, <3>5 DEF ProfileSavedDelivered
    <3> QED BY <1>8, <3>1, <3>2, <3>3, <3>4, <3>5 DEF ProfileDelivered
  <2>2. UNCHANGED store
        BY <1>8 DEF LikesDelivered, SavedDelivered, ProfileDelivered, UserDelivered,
           ProfileLikesDelivered, ProfileSavedDelivered, session
  <2> QED BY <1>4, <2>1, <2>2
<1>9. ASSUME NEW us, FetchCompleted(us)
      PROVE  NotTold(kind) \/ NowTold(kind)
      BY <1>1, <1>3, <1>9 DEF FetchCompleted, session
<1>10. ASSUME NEW t \in tasks, Written(t)
       PROVE  NotTold(kind) \/ NowTold(kind)
  <2>1. t.about \in Abouts /\ t.project \in Projects /\ Me \in Users
        BY TaskChanged, TabsAssumption DEF Abouts
  <2> QED BY <1>5, <1>6, <1>10, <2>1, KeyWritten DEF Written
<1>11. ASSUME NEW t \in tasks, Acknowledged(t)
       PROVE  NotTold(kind) \/ NowTold(kind)
       BY <1>1, <1>3, <1>11 DEF Acknowledged, session
<1>12. ASSUME NEW i \in 1..Len(Order), LikeTapped(i)
       PROVE  NotTold(kind) \/ NowTold(kind)
  <2>1. UNCHANGED <<likes, main>> \/ \E p \in Projects : SetLikes(Without(likes, p, Me))
        BY <1>12, LikeTapEffect
  <2>2. \A p \in Projects : Without(likes, p, Me) \in LikeDocs
        BY KeyWritten, TabsAssumption
  <2>3. UNCHANGED <<listeners, saved>>
        BY <1>12 DEF LikeTapped
  <2> QED BY <1>5, <1>7, <2>1, <2>2, <2>3 DEF QueueAlone
<1>13. ASSUME NEW i \in 1..Len(Order), SavedTapped(i)
       PROVE  NotTold(kind) \/ NowTold(kind)
  <2>1. UNCHANGED <<saved, main>> \/ \E p \in Projects : SetSaved(Without(saved, Me, p))
        BY <1>13, SavedTapEffect
  <2>2. \A p \in Projects : Without(saved, Me, p) \in SavedDocs
        BY KeyWritten, TabsAssumption
  <2>3. UNCHANGED <<listeners, likes>>
        BY <1>13 DEF SavedTapped
  <2> QED BY <1>6, <1>7, <2>1, <2>2, <2>3 DEF QueueAlone
<1>14. CASE ProfileSelected \/ ProfileRefreshed \/ LoggedIn
  <2>1. UNCHANGED store
        BY <1>14 DEF ProfileSelected, ProfileRefreshed, LoggedIn, session
  <2> QED BY <1>3, <1>14, <2>1, ProfileAsks DEF Asks
<1>15. ASSUME NEW p \in Projects, NEW u \in Users, OthersWrite(p, u)
       PROVE  NotTold(kind) \/ NowTold(kind)
       BY <1>5, <1>6, <1>15, KeyWritten DEF OthersWrite
<1>16. ASSUME NEW k \in Kinds, ListenerFails(k), k # kind
       PROVE  NotTold(kind)
  <2>1. KindKept(main, main', kind) /\ listeners'[kind] = listeners[kind]
        BY <1>16, FailureHeard
  <2>2. SameFor(kind)
        BY <1>16 DEF ListenerFails, session, store, SameFor
  <2> QED BY <1>1, <2>1, <2>2 DEF NotTold
<1>17. CASE \/ Reloaded \/ ListingFailed \/ GetProjects \/ FeedSelected \/ LoggedOut \/ UNCHANGED vars
            \/ \E p \in Projects : RowDeleted(p)
  <2>1. QueueAlone
        BY <1>17 DEF Reloaded, ListingFailed, GetProjects, FeedSelected, LoggedOut, RowDeleted, vars, queues,
           session, store, QueueAlone
  <2> QED BY <1>7, <2>1
<1> QED BY <1>8, <1>9, <1>10, <1>11, <1>12, <1>13, <1>14, <1>15, <1>16, <1>17 DEF NextCases
-----------------------------------------------------------------------------
\* The steps after which the feed has new rows, or asks for its likes again.
Fetching == \E us \in SUBSET Users : FetchCompleted(us)
Acks(about) == \E t \in tasks : Acknowledged(t) /\ t.about = about

(* The rows are projects.                                                  *)
LEMMA ShownTyped == TypeOK => Shown \subseteq Projects
<1> SUFFICES ASSUME TypeOK PROVE Shown \subseteq Projects
    OBVIOUS
<1>1. rows \in Seq(Projects) /\ DOMAIN rows = 1..Len(rows)
      BY LenProperties DEF TypeOK
<1> QED BY <1>1, ElementOfSeq DEF Shown

(* Between two fetches rows only go, and no bookmark becomes due but when  *)
(* a row was deleted.                                                      *)
LEMMA RowsStay ==
  ASSUME TypeOK, NextCases, ~Fetching
  PROVE  /\ Shown' \subseteq Shown /\ (lost => lost')
         /\ tab' # "covered" => tab # "covered"
         /\ tab' # "covered" /\ Shown' # {} => rows' = rows
         /\ owner' = owner
<1> USE DEF vars, session, feed, profile
<1>1. CASE UNCHANGED <<rows, lost, owner>> /\ (tab = "covered" => tab' = "covered")
      BY <1>1 DEF Shown
<1>2. CASE LikesDelivered \/ SavedDelivered \/ ProfileDelivered \/ Reloaded
      BY <1>1, <1>2 DEF LikesDelivered, SavedDelivered, ProfileDelivered, UserDelivered,
         ProfileLikesDelivered, ProfileSavedDelivered, Reloaded
<1>3. CASE ListingFailed \/ (\E t \in tasks : Written(t)) \/ (\E t \in tasks : Acknowledged(t))
      BY <1>1, <1>3 DEF ListingFailed, Written, Acknowledged
<1>4. CASE (\E i \in 1..Len(Order) : LikeTapped(i)) \/ (\E i \in 1..Len(Order) : SavedTapped(i))
      BY <1>1, <1>4 DEF LikeTapped, SavedTapped
<1>5. ASSUME NEW p \in Projects, RowDeleted(p)
      PROVE  /\ Shown' \subseteq Shown /\ lost' = lost /\ owner' = owner
             /\ tab' # "covered" => rows' = rows /\ tab # "covered"
  <2>1. Shown' \subseteq Shown /\ (rows' # rows => tab' = "covered")
        BY <1>5, DeletionTyped
  <2>2. tab # "covered" /\ lost' = lost /\ owner' = owner
        BY <1>5 DEF RowDeleted, OnFeed
  <2> QED BY <2>1, <2>2
<1>6. CASE GetProjects \/ FeedSelected
      BY <1>1, <1>6 DEF GetProjects, FeedSelected, OnProfile
<1>7. CASE ProfileSelected \/ ProfileRefreshed \/ LoggedIn
      BY <1>1, <1>7 DEF ProfileSelected, ProfileRefreshed, LoggedIn, OnFeed
<1>8. CASE LoggedOut
  <2>1. rows' = << >> /\ lost' = lost /\ owner' = owner /\ tab' = tab
        BY <1>8 DEF LoggedOut
  <2>2. Shown' = {}
        BY <2>1 DEF Shown
  <2> QED BY <2>1, <2>2
<1>9. CASE \E p \in Projects, u \in Users : OthersWrite(p, u)
      BY <1>1, <1>9 DEF OthersWrite
<1>10. CASE \E kind \in Kinds : ListenerFails(kind)
  <2>1. UNCHANGED <<rows, owner, tab>> /\ lost' = TRUE
        BY <1>10 DEF ListenerFails
  <2> QED BY <2>1 DEF Shown
<1>11. CASE UNCHANGED vars
       BY <1>1, <1>11
<1> QED BY <1>2, <1>3, <1>4, <1>5, <1>6, <1>7, <1>8, <1>9, <1>10, <1>11 DEF NextCases, Fetching

\* What is attached to a row stays, or a task about it is on the way.
LikeStays(p) == OnTheWay("likes", p) \/ mark'[p].like # mark[p].like => OnTheWay("likes", p)'
SaveStays(p) == OnTheWay("saved", p) \/ mark'[p].saved # mark[p].saved => OnTheWay("saved", p)'

(* A document attached to a row changes by a callback or a tap.            *)
LEMMA MarksStay ==
  ASSUME TypeOK, NextCases, ~Fetching, NEW p \in Shown'
  PROVE  /\ LikeStays(p) \/ LikesDelivered \/ Acks("likes")
         /\ SaveStays(p) \/ SavedDelivered \/ Acks("saved")
<1> USE DEF vars, session, feed, profile
<1>1. p \in Projects /\ mark \in [Projects -> Marks]
  <2>1. p \in Shown /\ \A q \in Shown : q \in Projects
        BY RowsStay, ShownTyped
  <2> QED BY <2>1 DEF TypeOK
<1>2. CASE UNCHANGED <<mark, tasks>>
      BY <1>2, SameTasks DEF LikeStays, SaveStays
<1>3. CASE LikesDelivered
  <2>1. mark'[p].saved = mark[p].saved
        BY <1>1, <1>3 DEF LikesDelivered, Marks
  <2>2. tasks' = tasks
        BY <1>3 DEF LikesDelivered
  <2> QED BY <1>3, <2>1, <2>2, SameTasks DEF SaveStays
<1>4. CASE SavedDelivered
  <2>1. mark'[p].like = mark[p].like
        BY <1>1, <1>4 DEF SavedDelivered, Marks
  <2>2. tasks' = tasks
        BY <1>4 DEF SavedDelivered
  <2> QED BY <1>4, <2>1, <2>2, SameTasks DEF LikeStays
<1>5. ASSUME NEW t \in tasks, Written(t)
      PROVE  LikeStays(p) /\ SaveStays(p)
  <2>1. mark' = mark
        BY <1>5 DEF Written
  <2> QED BY <1>5, <2>1, StillOnTheWay DEF LikeStays, SaveStays
<1>6. ASSUME NEW t \in tasks, Acknowledged(t)
      PROVE  /\ LikeStays(p) \/ Acks("likes")
             /\ SaveStays(p) \/ Acks("saved")
  <2>1. mark' = mark
        BY <1>6 DEF Acknowledged
  <2> QED BY <1>6, <2>1, StillOnTheWay DEF LikeStays, SaveStays, Acks
<1>7. ASSUME NEW i \in 1..Len(Order), LikeTapped(i)
      PROVE  LikeStays(p) /\ SaveStays(p)
  <2>1. \/ UNCHANGED <<mark, tasks>>
        \/ \E q \in Projects : /\ TasksGrow /\ OnTheWay("likes", q)'
                               /\ mark' = mark \/ mark' = [mark EXCEPT ![q].like = Absent]
        BY <1>7, LikeTapEffect
  <2>2. ASSUME NEW q \in Projects, TasksGrow, OnTheWay("likes", q)',
               mark' = mark \/ mark' = [mark EXCEPT ![q].like = Absent]
        PROVE  LikeStays(p) /\ SaveStays(p)
    <3>1. mark'[p].saved = mark[p].saved /\ (mark'[p].like # mark[p].like => p = q)
          BY <1>1, <2>2 DEF Marks
    <3> QED BY <2>2, <3>1, TapKeepsTasks DEF LikeStays, SaveStays
  <2> QED BY <1>2, <2>1, <2>2, SameTasks DEF LikeStays, SaveStays
<1>8. ASSUME NEW i \in 1..Len(Order), SavedTapped(i)
      PROVE  LikeStays(p) /\ SaveStays(p)
  <2>1. \/ UNCHANGED <<mark, tasks>>
        \/ \E q \in Projects : /\ TasksGrow /\ OnTheWay("saved", q)'
                               /\ mark' = mark \/ mark' = [mark EXCEPT ![q].saved = Absent]
        BY <1>8, SavedTapEffect
  <2>2. ASSUME NEW q \in Projects, TasksGrow, OnTheWay("saved", q)',
               mark' = mark \/ mark' = [mark EXCEPT ![q].saved = Absent]
        PROVE  LikeStays(p) /\ SaveStays(p)
    <3>1. mark'[p].like = mark[p].like /\ (mark'[p].saved # mark[p].saved => p = q)
          BY <1>1, <2>2 DEF Marks
    <3> QED BY <2>2, <3>1, TapKeepsTasks DEF LikeStays, SaveStays
  <2> QED BY <1>2, <2>1, <2>2, SameTasks DEF LikeStays, SaveStays
<1>9. CASE LoggedOut
  <2>1. Shown' = {}
        BY <1>9 DEF LoggedOut, Shown
  <2> QED BY <2>1
<1>10. CASE ProfileDelivered \/ Reloaded \/ ListingFailed \/ (\E q \in Projects : RowDeleted(q))
       BY <1>2, <1>10 DEF ProfileDelivered, UserDelivered, ProfileLikesDelivered, ProfileSavedDelivered,
          Reloaded, ListingFailed, RowDeleted
<1>11. CASE GetProjects \/ FeedSelected \/ ProfileSelected \/ ProfileRefreshed \/ LoggedIn \/ UNCHANGED vars
       BY <1>2, <1>11 DEF GetProjects, FeedSelected, ProfileSelected, ProfileRefreshed, LoggedIn
<1>12. CASE (\E q \in Projects, u \in Users : OthersWrite(q, u)) \/ (\E kind \in Kinds : ListenerFails(kind))
       BY <1>2, <1>12 DEF OthersWrite, ListenerFails
<1> QED BY <1>3, <1>4, <1>5, <1>6, <1>7, <1>8, <1>9, <1>10, <1>11, <1>12 DEF NextCases, Fetching

(* What the last answer that waits brings, once it is the one with what    *)
(* there is.                                                               *)
LEMMA EndsNow ==
  ASSUME NEW kind, NowTold(kind)
  PROVE  /\ Waits(main', kind) /\ listeners'[kind] > 0
         /\ EndsWith(main', kind, {Brings(kind, Snapshot'[kind])})
BY DEF NowTold, KindAdded

(* Every step keeps what the feed hears of the likes.                      *)
LEMMA StepHears ==
  ASSUME TypeOK, FeedHears, NextCases, TypeOK'
  PROVE  FeedHears'
<1> DEFINE fl == "feedLikes"
<1>1. /\ fl \in Kinds /\ Snapshot'[fl] = likes' /\ Snapshot[fl] = likes
      /\ listeners[fl] \in Nat /\ listeners'[fl] \in Nat
      BY TabsAssumption DEF Kinds, Snapshot, TypeOK
<1>2. CASE lost'
      BY <1>2 DEF FeedHears
<1>3. CASE NowTold(fl)
  <2>1. /\ Waits(main', fl) /\ listeners'[fl] > 0
        /\ EndsWith(main', fl, {Brings(fl, likes')})
        BY <1>1, <1>3, EndsNow
  <2> QED BY <2>1 DEF FeedHears
<1>4. CASE Fetching \/ Acks("likes")
  <2>1. Listen({fl}) /\ UNCHANGED store /\ {fl} \in SUBSET Kinds
        BY <1>1, <1>4 DEF Fetching, Acks, FetchCompleted, Acknowledged, session
  <2>2. KindAdded(main', fl, Brings(fl, likes)) /\ listeners'[fl] > 0 /\ likes' = likes
        BY <1>1, <2>1, Listened DEF store
  <2> QED BY <1>1, <1>3, <2>2 DEF NowTold
<1>5. ASSUME ~lost', ~Fetching, ~Acks("likes"), ~NowTold(fl)
      PROVE  FeedHears'
  <2>1. /\ ~lost /\ Shown' \subseteq Shown
        /\ Waits(main, fl) \/ Shown # {} => listeners[fl] > 0
        /\ EndsWith(main, fl, {Brings(fl, likes)})
        /\ ~Waits(main, fl) => \A p \in Shown :
             likes[p] # Absent => OnTheWay("likes", p) \/ mark[p].like = likes[p]
        BY <1>5, RowsStay DEF FeedHears
  <2>2. Taken(fl) \/ NotTold(fl)
        BY <1>1, <1>5, Told DEF ListenerFails
  <2>3. CASE Taken(fl)
    <3>1. /\ Waits(Tail(main), fl) => Waits(main, fl)
          /\ EndsWith(Tail(main), fl, {Brings(fl, likes)})
          /\ ~Waits(Tail(main), fl) => Head(main) = Brings(fl, likes)
          /\ Waits(main, fl)
          BY <2>1, <2>3, HeadTaken DEF Taken
    <3>2. /\ Waits(main', fl) <=> Waits(Tail(main), fl)
          /\ EndsWith(main', fl, {Brings(fl, likes)}) /\ likes' = likes
          /\ listeners'[fl] > 0
          BY <2>1, <2>3, <3>1 DEF Taken, KindKept
    <3>3. ASSUME ~Waits(main', fl), NEW p \in Shown', likes[p] # Absent
          PROVE  mark'[p].like = likes[p]
      <4>1. Head(main).ok /\ Head(main).docs = likes
            BY <3>1, <3>2, <3>3 DEF Brings
      <4>2. p \in Shown /\ p \in Projects /\ mark[p] \in Marks
            BY <2>1, <3>3, ShownTyped DEF TypeOK
      <4>3. LikesDelivered
            BY <2>3 DEF Taken, Delivers
      <4>4. mark'[p] = [mark[p] EXCEPT !.like = likes[p]]
            BY <3>3, <4>1, <4>2, <4>3 DEF LikesDelivered
      <4> QED BY <4>2, <4>4 DEF Marks
    <3> QED BY <3>2, <3>3 DEF FeedHears
  <2>4. CASE NotTold(fl) /\ listeners'[fl] = 0
    <3>1. listeners[fl] = 0
          BY <1>1, <2>4 DEF NotTold
    <3>2. ~Waits(main', fl) /\ Shown' = {}
          BY <2>1, <2>4, <3>1 DEF NotTold, KindKept
    <3> QED BY <3>2 DEF FeedHears, EndsWith, Waits
  <2>5. CASE NotTold(fl) /\ likes' = likes
    <3>1. /\ Waits(main', fl) <=> Waits(main, fl)
          /\ EndsWith(main', fl, {Brings(fl, likes)})
          BY <2>1, <2>5 DEF NotTold, KindKept
    <3>2. Waits(main', fl) \/ Shown' # {} => listeners'[fl] > 0
      <4>1. listeners'[fl] >= listeners[fl] /\ listeners[fl] \in Nat
            BY <1>1, <2>5 DEF NotTold
      <4>2. listeners[fl] > 0 => listeners'[fl] > 0
            BY <1>1, <4>1
      <4> QED BY <2>1, <3>1, <4>2
    <3>3. ~LikesDelivered \/ Waits(main, fl)
          BY <1>1, Delivery DEF LikesDelivered, Kinds
    <3>4. ASSUME ~Waits(main', fl), NEW p \in Shown', likes[p] # Absent
          PROVE  OnTheWay("likes", p)' \/ mark'[p].like = likes[p]
      <4>1. LikeStays(p)
            BY <1>5, <3>1, <3>3, <3>4, MarksStay
      <4>2. OnTheWay("likes", p) \/ mark[p].like = likes[p]
            BY <2>1, <3>1, <3>4
      <4> QED BY <4>1, <4>2 DEF LikeStays
    <3> QED BY <2>5, <3>1, <3>2, <3>4 DEF FeedHears
  <2> QED BY <2>2, <2>3, <2>4, <2>5 DEF NotTold, SameFor
<1> QED BY <1>2, <1>3, <1>4, <1>5

(* Every step keeps what the feed hears of what is saved.                  *)
LEMMA StepHearsSaved ==
  ASSUME TypeOK, FeedHears, FeedHearsSaved, NextCases, TypeOK'
  PROVE  FeedHearsSaved'
<1> DEFINE fl == "feedLikes"
           fs == "feedSaved"
<1>1. /\ fl \in Kinds /\ fs \in Kinds /\ Snapshot'[fs] = saved' /\ Snapshot[fs] = saved
      /\ listeners[fs] \in Nat /\ listeners'[fs] \in Nat
      BY TabsAssumption DEF Kinds, Snapshot, TypeOK
<1> SUFFICES ASSUME ~lost', ~Waits(main', fl), Shown' # {}
             PROVE  FeedHearsSaved'
    BY DEF FeedHearsSaved
<1>2. CASE NowTold(fs)
  <2>1. /\ Waits(main', fs) /\ listeners'[fs] > 0
        /\ EndsWith(main', fs, {Brings(fs, saved')})
        BY <1>1, <1>2, EndsNow
  <2> QED BY <2>1 DEF FeedHearsSaved
<1>3. CASE LikesDelivered
  <2>1. Called(fl) /\ Takes({fs}) /\ UNCHANGED store /\ {fs} \in SUBSET Kinds
        BY <1>1, <1>3 DEF LikesDelivered, session
  <2>2. KindAdded(main', fs, Brings(fs, saved)) /\ listeners'[fs] > 0 /\ saved' = saved
        BY <1>1, <2>1, Delivery DEF store
  <2> QED BY <1>1, <1>2, <2>2 DEF NowTold
<1>4. ASSUME ~LikesDelivered
      PROVE  ~Fetching /\ ~Acks("likes") /\ ~Waits(main, fl)
      BY <1>4, FeedQueue DEF Fetching, Acks
<1>5. CASE Acks("saved")
  <2>1. Listen({fs}) /\ UNCHANGED store /\ {fs} \in SUBSET Kinds
        BY <1>1, <1>5 DEF Acks, Acknowledged, session
  <2>2. KindAdded(main', fs, Brings(fs, saved)) /\ listeners'[fs] > 0 /\ saved' = saved
        BY <1>1, <2>1, Listened DEF store
  <2> QED BY <1>1, <1>2, <2>2 DEF NowTold
<1>6. ASSUME ~LikesDelivered, ~Acks("saved"), ~NowTold(fs)
      PROVE  FeedHearsSaved'
  <2>1. /\ ~lost /\ Shown' \subseteq Shown
        /\ tab' # "covered" => tab # "covered" /\ rows' = rows
        /\ owner' = owner
        BY <1>4, <1>6, RowsStay
  <2>2. /\ listeners[fs] > 0
        /\ EndsWith(main, fs, {Brings(fs, saved)})
        /\ tab # "covered" /\ ~Waits(main, fs) => \A p \in Shown :
             IsFirst(p) /\ saved[owner[p]] # Absent
               => OnTheWay("saved", p) \/ mark[p].saved = saved[owner[p]]
        BY <1>4, <1>6, <2>1 DEF FeedHearsSaved
  <2>3. Taken(fs) \/ NotTold(fs)
        BY <1>1, <1>6, Told DEF ListenerFails
  <2>4. rows' = rows => \A p : IsFirst(p)' <=> IsFirst(p)
        BY <2>1 DEF IsFirst
  <2>5. CASE Taken(fs)
    <3>1. /\ EndsWith(Tail(main), fs, {Brings(fs, saved)})
          /\ ~Waits(Tail(main), fs) => Head(main) = Brings(fs, saved)
          BY <2>2, <2>5, HeadTaken DEF Taken
    <3>2. /\ Waits(main', fs) <=> Waits(Tail(main), fs)
          /\ EndsWith(main', fs, {Brings(fs, saved)}) /\ saved' = saved
          /\ listeners'[fs] > 0
          BY <2>2, <2>5, <3>1 DEF Taken, KindKept
    <3>3. ASSUME ~Waits(main', fs), NEW p \in Shown', IsFirst(p)', saved[owner[p]] # Absent
          PROVE  mark'[p].saved = saved[owner[p]]
      <4>1. Head(main).ok /\ Head(main).docs = saved
            BY <3>1, <3>2, <3>3 DEF Brings
      <4>2. p \in Projects /\ mark[p] \in Marks
            BY <2>1, <3>3, ShownTyped DEF TypeOK
      <4>3. SavedDelivered
            BY <2>5 DEF Taken, Delivers
      <4>4. IsFirst(p)
            BY <2>4, <3>3, <4>3 DEF SavedDelivered
      <4>5. mark'[p] = [mark[p] EXCEPT !.saved = saved[owner[p]]]
            BY <3>3, <4>1, <4>2, <4>3, <4>4 DEF SavedDelivered
      <4> QED BY <4>2, <4>5 DEF Marks
    <3> QED BY <2>1, <3>2, <3>3 DEF FeedHearsSaved
  <2>6. CASE NotTold(fs)
    <3>1. listeners'[fs] > 0
      <4>1. listeners'[fs] >= listeners[fs]
            BY <2>6 DEF NotTold
      <4> QED BY <1>1, <2>2, <4>1
    <3>2. saved' = saved
          BY <2>6, <3>1 DEF NotTold, SameFor
    <3>3. /\ Waits(main', fs) <=> Waits(main, fs)
          /\ EndsWith(main', fs, {Brings(fs, saved)})
          BY <2>2, <2>6 DEF NotTold, KindKept
    <3>4. ~SavedDelivered \/ Waits(main, fs)
      <4>1. SavedDelivered => Called(fs) /\ Takes({}) /\ {} \in SUBSET Kinds
            BY DEF SavedDelivered
      <4> QED BY <1>1, <4>1, Delivery
    <3>5. ASSUME ~Waits(main', fs), tab' # "covered", NEW p \in Shown', IsFirst(p)', saved[owner[p]] # Absent
          PROVE  OnTheWay("saved", p)' \/ mark'[p].saved = saved[owner[p]]
      <4>1. SaveStays(p)
            BY <1>4, <1>6, <3>3, <3>4, <3>5, MarksStay
      <4>2. IsFirst(p) /\ p \in Shown /\ tab # "covered"
            BY <2>1, <2>4, <3>5
      <4>3. OnTheWay("saved", p) \/ mark[p].saved = saved[owner[p]]
            BY <2>2, <3>3, <3>5, <4>2
      <4> QED BY <4>1, <4>3 DEF SaveStays
    <3> QED BY <2>1, <3>1, <3>2, <3>3, <3>5 DEF FeedHearsSaved
  <2> QED BY <2>3, <2>5, <2>6
<1> QED BY <1>2, <1>3, <1>5, <1>6

(* A cell changes by a reload or a tap, which is then on its way; a tap    *)
(* that finds the table as it is changes the cell of its own row.          *)
LEMMA CellsStay ==
  ASSUME TypeOK, NextCases, ~Reloaded, rows = table, NEW p \in Projects
  PROVE  /\ cell'[p].like # cell[p].like => OnTheWay("likes", p)'
         /\ cell'[p].saved # cell[p].saved => OnTheWay("saved", p)'
<1> USE DEF vars, feed, session, profile
<1>1. cell \in [Projects -> Cells]
      BY DEF TypeOK
<1>2. ASSUME NEW i \in 1..Len(Order), LikeTapped(i)
      PROVE  /\ cell'[p].like # cell[p].like => OnTheWay("likes", p)'
             /\ cell'[p].saved = cell[p].saved
  <2>1. PICK on \in Projects : cell' = [cell EXCEPT ![on].like = ~@] /\ OnTheWay("likes", on)'
        BY <1>2, LikeTapEffect
  <2>2. cell'[p].saved = cell[p].saved /\ (cell'[p].like # cell[p].like => p = on)
        BY <1>1, <2>1 DEF Cells
  <2> QED BY <2>1, <2>2
<1>3. ASSUME NEW i \in 1..Len(Order), SavedTapped(i)
      PROVE  /\ cell'[p].saved # cell[p].saved => OnTheWay("saved", p)'
             /\ cell'[p].like = cell[p].like
  <2>1. PICK on \in Projects : cell' = [cell EXCEPT ![on].saved = ~@] /\ OnTheWay("saved", on)'
        BY <1>3, SavedTapEffect
  <2>2. cell'[p].like = cell[p].like /\ (cell'[p].saved # cell[p].saved => p = on)
        BY <1>1, <2>1 DEF Cells
  <2> QED BY <2>1, <2>2
<1>4. CASE LikesDelivered \/ SavedDelivered \/ ProfileDelivered
      BY <1>4 DEF LikesDelivered, SavedDelivered, ProfileDelivered, UserDelivered,
         ProfileLikesDelivered, ProfileSavedDelivered
<1>5. CASE (\E us \in SUBSET Users : FetchCompleted(us)) \/ ListingFailed
      BY <1>5 DEF FetchCompleted, ListingFailed
<1>6. CASE (\E t \in tasks : Written(t)) \/ (\E t \in tasks : Acknowledged(t))
      BY <1>6 DEF Written, Acknowledged
<1>7. CASE (\E q \in Projects : RowDeleted(q)) \/ GetProjects \/ FeedSelected \/ LoggedOut
      BY <1>7 DEF RowDeleted, GetProjects, FeedSelected, LoggedOut
<1>8. CASE ProfileSelected \/ ProfileRefreshed \/ LoggedIn \/ UNCHANGED vars
      BY <1>8 DEF ProfileSelected, ProfileRefreshed, LoggedIn
<1>9. CASE (\E q \in Projects, u \in Users : OthersWrite(q, u)) \/ (\E kind \in Kinds : ListenerFails(kind))
      BY <1>9 DEF OthersWrite, ListenerFails
<1> QED BY <1>2, <1>3, <1>4, <1>5, <1>6, <1>7, <1>8, <1>9 DEF NextCases

(* Every step leaves the cells as their rows, or a reload due.             *)
LEMMA StepCells ==
  ASSUME TypeOK, TableCatchesUp, CellsFollow, NextCases
  PROVE  CellsFollow'
<1>1. CASE ReloadDue'
      BY <1>1 DEF ReloadDue, CellsFollow
<1>2. CASE Reloaded
  <2>1. /\ Shown' = Shown /\ mark' = mark /\ owner' = owner
        /\ \A p \in Projects : p \in Shown =>
             /\ mark[p].like # Absent => cell'[p].like = (owner[p] \in mark[p].like)
             /\ mark[p].saved # Absent => cell'[p].saved = (p \in mark[p].saved)
    <3>1. PICK from \in Bijection(Projects, Projects) :
            cell' = [p \in Projects |->
                       LET old == cell[from[p]] IN
                       IF p \notin Shown THEN old
                       ELSE [like |-> IF mark[p].like = Absent THEN old.like
                                      ELSE owner[p] \in mark[p].like,
                             saved |-> IF mark[p].saved = Absent THEN old.saved
                                       ELSE p \in mark[p].saved]]
          BY <1>2 DEF Reloaded
    <3>2. Shown' = Shown /\ mark' = mark /\ owner' = owner
          BY <1>2 DEF Reloaded, session, Shown
    <3>3. ASSUME NEW p \in Projects, p \in Shown
          PROVE  /\ mark[p].like # Absent => cell'[p].like = (owner[p] \in mark[p].like)
                 /\ mark[p].saved # Absent => cell'[p].saved = (p \in mark[p].saved)
          BY <3>1, <3>3
    <3> QED BY <3>2, <3>3
  <2> QED BY <2>1, ShownTyped DEF CellsFollow
<1>3. ASSUME ~ReloadDue', ~Reloaded
      PROVE  CellsFollow'
  <2>1. ~ReloadDue
        BY <1>3, DueStays
  <2>2. rows = table
        BY <2>1, BehindIfDue
  <2>3. ~LikesDelivered /\ ~SavedDelivered
    <3>1. {"feedLikes", "feedSaved"} \subseteq Kinds
          BY DEF Kinds
    <3>2. LikesDelivered => Called("feedLikes") /\ Takes({"feedSaved"}) /\ {"feedSaved"} \in SUBSET Kinds
          BY <3>1 DEF LikesDelivered
    <3>3. SavedDelivered => Called("feedSaved") /\ Takes({}) /\ {} \in SUBSET Kinds
          BY DEF SavedDelivered
    <3> QED BY <2>1, <3>1, <3>2, <3>3, Delivery DEF ReloadDue
  <2>4. ~Fetching /\ ~Acks("likes") /\ ~Acks("saved")
        BY <1>3, FeedQueue DEF ReloadDue, Fetching, Acks
  <2>5. ASSUME NEW p \in Shown'
        PROVE  /\ mark'[p].like # Absent
                    => OnTheWay("likes", p)' \/ cell'[p].like = (owner'[p] \in mark'[p].like)
               /\ mark'[p].saved # Absent
                    => OnTheWay("saved", p)' \/ cell'[p].saved = (p \in mark'[p].saved)
    <3>1. p \in Shown /\ p \in Projects /\ owner' = owner
          BY <2>4, <2>5, RowsStay, ShownTyped
    <3>2. LikeStays(p) /\ SaveStays(p)
          BY <2>3, <2>4, <2>5, MarksStay
    <3>3. /\ cell'[p].like # cell[p].like => OnTheWay("likes", p)'
          /\ cell'[p].saved # cell[p].saved => OnTheWay("saved", p)'
          BY <1>3, <2>2, <3>1, CellsStay
    <3>4. /\ mark[p].like # Absent
               => OnTheWay("likes", p) \/ cell[p].like = (owner[p] \in mark[p].like)
          /\ mark[p].saved # Absent
               => OnTheWay("saved", p) \/ cell[p].saved = (p \in mark[p].saved)
          BY <2>1, <3>1 DEF CellsFollow, ReloadDue
    <3>5. mark'[p].like # Absent
            => OnTheWay("likes", p)' \/ cell'[p].like = (owner'[p] \in mark'[p].like)
          BY <3>1, <3>2, <3>3, <3>4 DEF LikeStays
    <3>6. mark'[p].saved # Absent
            => OnTheWay("saved", p)' \/ cell'[p].saved = (p \in mark'[p].saved)
          BY <3>1, <3>2, <3>3, <3>4 DEF SaveStays
    <3> QED BY <3>5, <3>6
  <2> QED BY <2>5 DEF CellsFollow
<1> QED BY <1>1, <1>2, <1>3
-----------------------------------------------------------------------------
(* After a crash nothing happens; a list of the profile is made again by   *)
(* its own callback alone, or emptied.                                     *)
LEMMA ListsStay ==
  ASSUME TypeOK, NextCases
  PROVE  /\ crashed' # "user" => crashed # "user"
         /\ ProfileLikesDelivered \/ lists'.likes \in {lists.likes, {}}
         /\ ProfileSavedDelivered \/ lists'.saved \in {lists.saved, {}}
<1> USE DEF vars, feed, session, profile, Called, Input, Up
<1>1. lists \in [likes : SUBSET Projects, saved : SUBSET Projects]
      BY DEF TypeOK
<1>2. CASE LikesDelivered \/ SavedDelivered \/ UserDelivered \/ Reloaded
      BY <1>2 DEF LikesDelivered, SavedDelivered, UserDelivered, Reloaded
<1>3. CASE ProfileLikesDelivered
  <2>1. lists'.saved = lists.saved
        BY <1>1, <1>3 DEF ProfileLikesDelivered
  <2>2. crashed = "not"
        BY <1>3 DEF ProfileLikesDelivered
  <2> QED BY <1>3, <2>1, <2>2
<1>4. CASE ProfileSavedDelivered
  <2>1. lists'.likes = lists.likes
        BY <1>1, <1>4 DEF ProfileSavedDelivered
  <2>2. crashed = "not"
        BY <1>4 DEF ProfileSavedDelivered
  <2> QED BY <1>4, <2>1, <2>2
<1>5. CASE (\E us \in SUBSET Users : FetchCompleted(us)) \/ ListingFailed
      BY <1>5 DEF FetchCompleted, ListingFailed
<1>6. CASE (\E t \in tasks : Written(t)) \/ (\E t \in tasks : Acknowledged(t))
      BY <1>6 DEF Written, Acknowledged
<1>7. CASE (\E i \in 1..Len(Order) : LikeTapped(i)) \/ (\E i \in 1..Len(Order) : SavedTapped(i))
      BY <1>7 DEF LikeTapped, SavedTapped
<1>8. CASE (\E q \in Projects : RowDeleted(q)) \/ GetProjects \/ FeedSelected
      BY <1>8 DEF RowDeleted, GetProjects, FeedSelected
<1>9. CASE LoggedOut
      BY <1>9 DEF LoggedOut, Empty
<1>10. CASE ProfileSelected \/ ProfileRefreshed \/ LoggedIn \/ UNCHANGED vars
       BY <1>10 DEF ProfileSelected, ProfileRefreshed, LoggedIn
<1>11. CASE (\E q \in Projects, u \in Users : OthersWrite(q, u)) \/ (\E kind \in Kinds : ListenerFails(kind))
       BY <1>11 DEF OthersWrite, ListenerFails
<1> QED BY <1>2, <1>3, <1>4, <1>5, <1>6, <1>7, <1>8, <1>9, <1>10, <1>11 DEF NextCases, ProfileDelivered

\* A list is made by its own callback of what that brings, and is empty after an error;
\* good2, list2 and marked2 are what good, list and marked become.
ListMade(kind, good, good2, list, list2, marked, marked2) ==
  /\ ListFollows(kind, good, list, marked)
  /\ Brings(kind, Snapshot'[kind]) \in good2 /\ Errors \subseteq good2
  /\ SameFor(kind) => good2 = good /\ marked2 = marked
  /\ Delivers(kind) \/ list2 \in {list, {}}
  /\ Delivers(kind) /\ crashed' # "user" /\ Head(main) \in good => list2 \subseteq marked2
  /\ Delivers(kind) /\ crashed' # "user" /\ ~Head(main).ok => list2 = {}

(* A list of the profile that is made so follows.                          *)
LEMMA ListKept ==
  ASSUME TypeOK, NextCases, TypeOK', NEW kind \in Kinds, NEW good, NEW good2, NEW list, NEW list2,
         NEW marked, NEW marked2, ListMade(kind, good, good2, list, list2, marked, marked2)
  PROVE  /\ EndsWith(main', kind, good2)
         /\ listeners'[kind] = 0 => EndsWith(main', kind, Errors)
         /\ ~Waits(main', kind) /\ crashed' # "user" =>
              list2 \subseteq marked2 /\ (listeners'[kind] = 0 => list2 = {})
<1> USE DEF ListMade
<1>1. listeners[kind] \in Nat /\ listeners'[kind] \in Nat
      BY TabsAssumption DEF TypeOK
<1>2. /\ EndsWith(main, kind, good) /\ (listeners[kind] = 0 => EndsWith(main, kind, Errors))
      /\ ~Waits(main, kind) /\ crashed' # "user" =>
           list \subseteq marked /\ (listeners[kind] = 0 => list = {})
      BY ListsStay DEF ListFollows
<1>3. CASE NowTold(kind)
      BY <1>3 DEF NowTold, KindAdded
<1>4. CASE ListenerFails(kind)
  <2>1. Fails(kind) \in Errors /\ KindAdded(main', kind, Fails(kind))
        BY <1>4, FailureHeard DEF Errors
  <2> QED BY <2>1 DEF KindAdded
<1>5. CASE Taken(kind)
  <2>1. \A g : EndsWith(main, kind, g) =>
          /\ EndsWith(main', kind, g)
          /\ ~Waits(main', kind) => Head(main) \in g
        BY <1>5, HeadTaken DEF Taken, KindKept
  <2>2. Delivers(kind) /\ listeners'[kind] = listeners[kind] /\ good2 = good
        BY <1>5 DEF Taken, SameFor
  <2>3. ~Waits(main', kind) => Head(main) \in good /\ (listeners[kind] = 0 => Head(main) \in Errors)
        BY <1>2, <2>1
  <2>4. EndsWith(main', kind, good2) /\ (listeners'[kind] = 0 => EndsWith(main', kind, Errors))
        BY <1>2, <2>1, <2>2
  <2>5. \A cb \in Errors : ~cb.ok
        BY DEF Errors
  <2> QED BY <2>2, <2>3, <2>4, <2>5
<1>6. CASE NotTold(kind)
  <2>1. /\ Waits(main', kind) <=> Waits(main, kind)
        /\ EndsWith(main', kind, good) /\ (listeners[kind] = 0 => EndsWith(main', kind, Errors))
        /\ listeners'[kind] = 0 => listeners[kind] = 0
    <3>1. listeners'[kind] >= listeners[kind]
          BY <1>6 DEF NotTold
    <3>2. listeners'[kind] = 0 => listeners[kind] = 0
          BY <1>1, <3>1
    <3> QED BY <1>2, <1>6, <3>2 DEF NotTold, KindKept
  <2>2. Delivers(kind) => Waits(main, kind)
    <3>1. Delivers(kind) => Called(kind)
          BY DEF Delivers, LikesDelivered, SavedDelivered, UserDelivered, ProfileLikesDelivered,
             ProfileSavedDelivered
    <3>2. main \in Seq(Callbacks)
          BY DEF TypeOK
    <3> QED BY <3>1, <3>2, HeadTaken DEF Called
  <2>3. CASE SameFor(kind)
        BY <1>2, <2>1, <2>2, <2>3
  <2>4. CASE listeners'[kind] = 0
    <3>1. EndsWith(main', kind, Errors)
          BY <2>1, <2>4
    <3>2. EndsWith(main', kind, good2)
          BY <3>1, MoreGood
    <3> QED BY <1>2, <2>1, <2>2, <2>4, <3>1, <3>2
  <2> QED BY <1>6, <2>3, <2>4 DEF NotTold
<1> QED BY <1>3, <1>4, <1>5, <1>6, Told

(* Only a user that is there has projects of its own.                      *)
LEMMA OwnOfMe ==
  ASSUME TypeOK
  PROVE  Own \subseteq Projects /\ (user = Me \/ Own = {})
<1>1. Absent \notin Users /\ shared \subseteq Users /\ user \in {Me, Absent}
      BY TabsAssumption DEF TypeOK
<1> QED BY <1>1 DEF Own

(* Every step leaves the lists of the profile with what the last answer    *)
(* brings, or has brought.                                                 *)
LEMMA StepLists ==
  ASSUME TypeOK, ListsFollow, NextCases, TypeOK'
  PROVE  ListsFollow'
<1> DEFINE pl == "profLikes"
           ps == "profSaved"
<1>1. pl \in Kinds /\ ps \in Kinds /\ likes' \in LikeDocs /\ saved' \in SavedDocs
      BY DEF Kinds, TypeOK
<1>2. Brings(pl, Snapshot'[pl]) \in GoodLikes'
  <2>1. Snapshot'[pl] = likes'
        BY DEF Snapshot, Kinds
  <2>2. Brings(pl, likes') \in Callbacks
        BY <1>1, BringsTyped
  <2>3. Brings(pl, likes').docs = likes'
        BY DEF Brings
  <2> QED BY <2>1, <2>2, <2>3 DEF GoodLikes
<1>3. Brings(ps, Snapshot'[ps]) \in GoodSaved'
  <2>1. Snapshot'[ps] = saved'
        BY DEF Snapshot, Kinds
  <2>2. Brings(ps, saved') \in Callbacks
        BY <1>1, BringsTyped
  <2>3. Brings(ps, saved').docs[Me] = saved'[Me]
        BY DEF Brings
  <2> QED BY <2>1, <2>2, <2>3 DEF GoodSaved
<1>4. ASSUME ProfileLikesDelivered, crashed' # "user"
      PROVE  lists'.likes = {p \in Own : Head(main).ok /\ Head(main).docs[p] # Absent /\ user \in Head(main).docs[p]}
  <2>1. lists' = [lists EXCEPT !.likes = {p \in Own \cap {q \in Projects : Head(main).ok /\ Head(main).docs[q] # Absent} :
                                            user \in Head(main).docs[p]}]
        BY <1>4 DEF ProfileLikesDelivered
  <2>2. lists \in [likes : SUBSET Projects, saved : SUBSET Projects]
        BY DEF TypeOK
  <2> QED BY <2>1, <2>2, OwnOfMe
<1>5. ASSUME ProfileSavedDelivered, crashed' # "user"
      PROVE  lists'.saved = IF Head(main).ok /\ Head(main).docs[Me] # Absent THEN Own \cap Head(main).docs[Me] ELSE {}
  <2>1. lists' = [lists EXCEPT !.saved = IF Head(main).ok /\ Head(main).docs[Me] # Absent
                                         THEN Own \cap Head(main).docs[Me] ELSE {}]
        BY <1>5 DEF ProfileSavedDelivered
  <2>2. lists \in [likes : SUBSET Projects, saved : SUBSET Projects]
        BY DEF TypeOK
  <2> QED BY <2>1, <2>2
<1>6. /\ ListFollows(pl, GoodLikes, lists.likes, MyLikes)
      /\ ListFollows(ps, GoodSaved, lists.saved, MySaved)
      BY DEF ListsFollow
<1>7. /\ Delivers(pl) <=> ProfileLikesDelivered
      /\ Delivers(ps) <=> ProfileSavedDelivered
      BY DEF Delivers
<1>8. /\ EndsWith(main', pl, GoodLikes')
      /\ listeners'[pl] = 0 => EndsWith(main', pl, Errors)
      /\ ~Waits(main', pl) /\ crashed' # "user" =>
           lists'.likes \subseteq MyLikes' /\ (listeners'[pl] = 0 => lists'.likes = {})
  <2>1. Errors \subseteq GoodLikes'
        BY DEF Errors, GoodLikes
  <2>2. SameFor(pl) => GoodLikes' = GoodLikes /\ MyLikes' = MyLikes
        BY DEF SameFor, GoodLikes, MyLikes
  <2>3. Delivers(pl) \/ lists'.likes \in {lists.likes, {}}
        BY <1>7, ListsStay
  <2>4. ASSUME Delivers(pl), crashed' # "user", Head(main) \in GoodLikes
        PROVE  lists'.likes \subseteq MyLikes'
    <3>1. likes' = likes
          BY <1>7, <2>4 DEF ProfileLikesDelivered, session, store
    <3> QED BY <1>4, <1>7, <2>4, <3>1, OwnOfMe DEF GoodLikes, MyLikes
  <2>5. ASSUME Delivers(pl), crashed' # "user", ~Head(main).ok
        PROVE  lists'.likes = {}
        BY <1>4, <1>7, <2>5
  <2>6. ListMade(pl, GoodLikes, GoodLikes', lists.likes, lists'.likes, MyLikes, MyLikes')
        BY <1>2, <1>6, <2>1, <2>2, <2>3, <2>4, <2>5 DEF ListMade
  <2> QED BY <1>1, <2>6, ListKept
<1>9. /\ EndsWith(main', ps, GoodSaved')
      /\ listeners'[ps] = 0 => EndsWith(main', ps, Errors)
      /\ ~Waits(main', ps) /\ crashed' # "user" =>
           lists'.saved \subseteq MySaved' /\ (listeners'[ps] = 0 => lists'.saved = {})
  <2>1. Errors \subseteq GoodSaved'
        BY DEF Errors, GoodSaved
  <2>2. SameFor(ps) => GoodSaved' = GoodSaved /\ MySaved' = MySaved
        BY DEF SameFor, GoodSaved, MySaved
  <2>3. Delivers(ps) \/ lists'.saved \in {lists.saved, {}}
        BY <1>7, ListsStay
  <2>4. ASSUME Delivers(ps), crashed' # "user", Head(main) \in GoodSaved
        PROVE  lists'.saved \subseteq MySaved'
    <3>1. saved' = saved
          BY <1>7, <2>4 DEF ProfileSavedDelivered, session, store
    <3> QED BY <1>5, <1>7, <2>4, <3>1, OwnOfMe DEF GoodSaved, MySaved
  <2>5. ASSUME Delivers(ps), crashed' # "user", ~Head(main).ok
        PROVE  lists'.saved = {}
        BY <1>5, <1>7, <2>5
  <2>6. ListMade(ps, GoodSaved, GoodSaved', lists.saved, lists'.saved, MySaved, MySaved')
        BY <1>3, <1>6, <2>1, <2>2, <2>3, <2>4, <2>5 DEF ListMade
  <2> QED BY <1>1, <2>6, ListKept
<1> QED BY <1>8, <1>9 DEF ListsFollow, ListFollows
-----------------------------------------------------------------------------
(* The invariant holds to begin with: nothing waits and nothing is shown.  *)
LEMMA InitInv == Init => TabsInv
<1> SUFFICES ASSUME Init PROVE TabsInv
    OBVIOUS
<1>1. TypeOK
      BY InitTyped
<1>2. main = << >> /\ rows = << >> /\ table = rows /\ lists = Empty /\ crashed = "not"
      BY DEF Init
<1>3. Shown = {} /\ \A kind : ~Waits(main, kind) /\ \A good : EndsWith(main, kind, good)
      BY <1>2 DEF Shown, Waits, EndsWith
<1>4. FeedHears /\ FeedHearsSaved /\ CellsFollow
      BY <1>3 DEF FeedHears, FeedHearsSaved, CellsFollow
<1>5. ListsFollow
      BY <1>2, <1>3 DEF ListsFollow, ListFollows, Empty
<1> QED BY <1>1, <1>2, <1>4, <1>5 DEF TabsInv, TableCatchesUp, UserFits

(* Every step keeps the invariant.                                         *)
LEMMA StepInv ==
  ASSUME TabsInv, [Next]_vars
  PROVE  TabsInv'
<1>1. /\ TypeOK /\ TableCatchesUp /\ UserFits
      /\ FeedHears /\ FeedHearsSaved /\ CellsFollow /\ ListsFollow
      BY DEF TabsInv
<1>2. TypeOK' /\ NextCases
      BY <1>1, StepTyped, Cases
<1>3. TableCatchesUp'
      BY <1>1, <1>2, StepTable
<1>4. UserFits'
      BY <1>1, <1>2, StepUser
<1>5. FeedHears'
      BY <1>1, <1>2, StepHears
<1>6. FeedHearsSaved'
      BY <1>1, <1>2, StepHearsSaved
<1>7. CellsFollow'
      BY <1>1, <1>2, StepCells
<1>8. ListsFollow'
      BY <1>1, <1>2, StepLists
<1> QED BY <1>2, <1>3, <1>4, <1>5, <1>6, <1>7, <1>8 DEF TabsInv

(* In every state the feed and the profile hear, or have heard, of what    *)
(* Firestore has, and what they show follows from that or from a tap that  *)
(* is on its way, whatever the order of fetches, taps, writes, callbacks,  *)
(* failures and logouts.                                                   *)
THEOREM TabsInvariant == Spec => []TabsInv
<1>1. Init => TabsInv
      BY InitInv
<1>2. TabsInv /\ [Next]_vars => TabsInv'
      BY StepInv
<1> QED BY <1>1, <1>2, PTL DEF Spec

(* When all is quiet the invariant leaves the cells and the lists nothing  *)
(* but what Firestore has.                                                 *)
LEMMA AtRest ==
  ASSUME TabsInv
  PROVE  CellsAgree /\ ListsAreMarked
<1>1. /\ UserFits /\ FeedHears /\ FeedHearsSaved /\ CellsFollow /\ ListsFollow
      BY DEF TabsInv
<1>2. ASSUME Quiet
      PROVE  ~dirty /\ (\A kind : ~Waits(main, kind)) /\ \A about, p : ~OnTheWay(about, p)
      BY <1>2 DEF Quiet, Waits, OnTheWay
<1>3. ASSUME Quiet, ~lost, NEW p \in Shown
      PROVE  /\ likes[p] # Absent => cell[p].like = (owner[p] \in likes[p])
             /\ IsFirst(p) /\ tab # "covered" /\ saved[owner[p]] # Absent
                  => cell[p].saved = (p \in saved[owner[p]])
  <2>1. likes[p] # Absent => mark[p].like = likes[p]
        BY <1>1, <1>2, <1>3 DEF FeedHears
  <2>2. IsFirst(p) /\ tab # "covered" /\ saved[owner[p]] # Absent => mark[p].saved = saved[owner[p]]
        BY <1>1, <1>2, <1>3 DEF FeedHearsSaved
  <2>3. /\ mark[p].like # Absent => cell[p].like = (owner[p] \in mark[p].like)
        /\ mark[p].saved # Absent => cell[p].saved = (p \in mark[p].saved)
        BY <1>1, <1>2, <1>3 DEF CellsFollow
  <2> QED BY <2>1, <2>2, <2>3
<1>4. ASSUME Quiet, user # Absent
      PROVE  lists.likes \subseteq MyLikes /\ lists.saved \subseteq MySaved
  <2>1. crashed # "user"
        BY <1>1, <1>4 DEF UserFits
  <2> QED BY <1>1, <1>2, <1>4, <2>1 DEF ListsFollow, ListFollows
<1> QED BY <1>3, <1>4 DEF CellsAgree, ListsAreMarked, MyLikes, MySaved

(* At rest the hearts and the bookmarks of the feed are those of the       *)
(* documents Firestore has.                                                *)
THEOREM CellsEndRight == Spec => []CellsAgree
<1>1. TabsInv => CellsAgree
      BY AtRest
<1> QED BY <1>1, TabsInvariant, PTL

(* At rest the profile lists nothing that its user has taken back.         *)
THEOREM ListsEndRight == Spec => []ListsAreMarked
<1>1. TabsInv => ListsAreMarked
      BY AtRest
<1> QED BY <1>1, TabsInvariant, PTL

(* A table that is behind the rows will be reloaded.                       *)
THEOREM TableIsReloaded == Spec => []TableCatchesUp
<1>1. TabsInv => TableCatchesUp
      BY DEF TabsInv
<1> QED BY <1>1, TabsInvariant, PTL
=============================================================================
