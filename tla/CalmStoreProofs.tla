--------------------------- MODULE CalmStoreProofs ---------------------------
(***************************************************************************)
(* Proofs about ProjectStore where users have one device each: saved posts *)
(* arrive; and, with one device, no failure, no kill and no deletion from  *)
(* the editor, a photo is orphaned only by an edit or a deletion that      *)
(* began from a row older than the photo.  Both rest on what a queue of    *)
(* writes makes of a document.                                             *)
(***************************************************************************)
EXTENDS ProjectStoreProofs, WellFoundedInduction

(* A set of numbers that is not empty has a least one.                     *)
LEMMA LeastOne ==
  ASSUME NEW S \in SUBSET Nat, S # {}
  PROVE  \E k \in S : \A j \in S : k <= j
<1> DEFINE R == OpToRel(<, Nat)
<1>1. IsWellFoundedOn(R, Nat)
      BY NatLessThanWellFounded
<1>2. R = {ss \in Nat \X Nat : ss[1] < ss[2]}
      BY DEF OpToRel
<1> HIDE DEF R
<1>3. PICK k \in S : \A j \in S : ~(<<j, k>> \in R)
      BY <1>1, WFMin
<1>4. ASSUME NEW j \in S
      PROVE  k <= j
  <2>1. <<j, k>> \in Nat \X Nat
        OBVIOUS
  <2>2. ~(j < k)
        BY <1>2, <1>3, <2>1
  <2> QED BY <2>2
<1> QED BY <1>3, <1>4

(* A set of numbers up to n that is not empty has one latest.              *)
LEMMA OneLatest ==
  ASSUME NEW n \in Nat, NEW S \in SUBSET (1..n), S # {}
  PROVE  \E m \in S : Latest(S) = {m} /\ \A j \in S : j <= m
<1> DEFINE T == {k \in 0..n : n - k \in S}
<1>1. T \in SUBSET Nat
      OBVIOUS
<1>2. T # {}
  <2>1. PICK i \in S : TRUE
        OBVIOUS
  <2>2. i \in 1..n /\ n - i \in 0..n /\ n - (n - i) = i
        OBVIOUS
  <2>3. n - i \in T
        BY <2>1, <2>2
  <2> QED BY <2>3
<1> HIDE DEF T
<1>3. PICK k \in T : \A j \in T : k <= j
      BY <1>1, <1>2, LeastOne
<1> DEFINE m == n - k
<1>4. k \in 0..n /\ m \in S /\ m \in 1..n
      BY <1>3 DEF T
<1>5. ASSUME NEW i \in S
      PROVE  i <= m
  <2>1. i \in 1..n /\ n - i \in 0..n /\ n - (n - i) = i
        OBVIOUS
  <2>2. n - i \in T
        BY <2>1 DEF T
  <2>3. k <= n - i
        BY <1>3, <2>2
  <2> QED BY <1>4, <2>1, <2>3
<1> HIDE DEF m
<1>6. Latest(S) = {m}
  <2>1. ASSUME NEW i \in S, m <= i
        PROVE  i = m
        BY <1>4, <1>5, <2>1
  <2>2. m \in Latest(S)
        BY <1>4, <1>5 DEF Latest
  <2>3. \A i \in Latest(S) : i = m
        BY <1>4, <2>1 DEF Latest
  <2> QED BY <2>2, <2>3
<1> QED BY <1>4, <1>5, <1>6

-----------------------------------------------------------------------------
(* The posts of the last of some writes of a queue, if there are any.      *)
Put(q, puts, posts) == IF puts = {} THEN posts ELSE UNION {q[i].posts : i \in Latest(puts)}

(* A document with the text and the posts of some writes of a queue.       *)
Overlay(q, doc, texts, puts) ==
  IF doc.there
  THEN [doc EXCEPT !.text = @ \/ texts # {}, !.posts = Put(q, puts, @)]
  ELSE doc

(* Those of some writes behind every one of others.                        *)
Later(S, start) == {i \in S : \A j \in start : j < i}

(* What the last write of a queue to make or drop a document makes of it.  *)
Base(q, start, doc) ==
  IF start = {} THEN doc ELSE [NoDoc EXCEPT !.there = \A j \in start : q[j].kind = "create"]

(* A queue's document in these terms.                                      *)
LEMMA UnderIs ==
  ASSUME NEW q, NEW key, NEW doc, NEW start, start = Latest(Waiting(q, key, {"create", "drop"}))
  PROVE  Under(q, key, doc) = Overlay(q, Base(q, start, doc),
                                      Later(Waiting(q, key, {"text"}), start),
                                      Later(Waiting(q, key, {"posts"}), start))
BY DEF Under, Overlay, Later, Base, Put

(* No text and no posts.                                                   *)
LEMMA OverlayNone ==
  ASSUME NEW q, NEW doc \in Doc
  PROVE  Overlay(q, doc, {}, {}) = doc
<1>1. Put(q, {}, doc.posts) = doc.posts
      BY DEF Put
<1>2. /\ doc.there \in BOOLEAN /\ doc.text \in BOOLEAN
      /\ doc = [there |-> doc.there, text |-> doc.text, posts |-> doc.posts]
      BY DEF Doc
<1> QED BY <1>1, <1>2 DEF Overlay

(* Posts in the place of others.                                           *)
LEMMA OverlayOther ==
  ASSUME NEW q, NEW qq, NEW doc \in Doc, NEW texts, NEW puts, NEW more
  PROVE  Overlay(qq, doc, texts, more) =
           IF Overlay(q, doc, texts, puts).there
           THEN [Overlay(q, doc, texts, puts) EXCEPT !.posts = Put(qq, more, doc.posts)]
           ELSE Overlay(q, doc, texts, puts)
BY DEF Overlay, Doc

(* The writes of a queue with one more behind it.                          *)
LEMMA WaitingAppend ==
  ASSUME NEW q \in Seq(Writes), NEW w \in Writes
  PROVE  /\ q \o <<w>> \in Seq(Writes)
         /\ Len(q) \in Nat
         /\ \A i \in 1..Len(q) : (q \o <<w>>)[i] = q[i]
         /\ (q \o <<w>>)[Len(q) + 1] = w
         /\ \A key, kinds :
              /\ Waiting(q, key, kinds) \in SUBSET (1..Len(q))
              /\ Waiting(q \o <<w>>, key, kinds) =
                   Waiting(q, key, kinds)
                     \cup (IF w.key = key /\ w.kind \in kinds THEN {Len(q) + 1} ELSE {})
<1>1. <<w>> \in Seq(Writes) /\ Len(<<w>>) = 1 /\ <<w>>[1] = w
      BY OneWrite
<1> DEFINE ww == <<w>>
           qq == q \o ww
<1>2. Len(q) \in Nat
      BY LenProperties
<1> HIDE DEF ww
<1>3. /\ qq \in Seq(Writes) /\ Len(qq) = Len(q) + 1
      /\ \A i \in 1..Len(q) : qq[i] = q[i]
      /\ qq[Len(q) + 1] = w
      BY <1>1, <1>2, ConcatProperties DEF ww
<1> HIDE DEF qq
<1>4. ASSUME NEW key, NEW kinds
      PROVE  /\ Waiting(q, key, kinds) \in SUBSET (1..Len(q))
             /\ Waiting(qq, key, kinds) =
                  Waiting(q, key, kinds)
                    \cup (IF w.key = key /\ w.kind \in kinds THEN {Len(q) + 1} ELSE {})
  <2>1. \A i : i \in 1..Len(qq) <=> i \in 1..Len(q) \/ i = Len(q) + 1
        BY <1>2, <1>3
  <2>2. \A i : i \in Waiting(qq, key, kinds) <=>
               \/ i \in Waiting(q, key, kinds)
               \/ i = Len(q) + 1 /\ w.key = key /\ w.kind \in kinds
        BY <1>3, <2>1 DEF Waiting
  <2>3. Waiting(q, key, kinds) \in SUBSET (1..Len(q))
        BY DEF Waiting
  <2> QED BY <2>2, <2>3
<1> QED BY <1>2, <1>3, <1>4 DEF qq, ww

(* The writes of a queue without its head: one place earlier.              *)
LEMMA WaitingTail ==
  ASSUME NEW q \in Seq(Writes), q # << >>
  PROVE  /\ Head(q) \in Writes /\ Head(q) = q[1] /\ Tail(q) \in Seq(Writes)
         /\ Len(Tail(q)) \in Nat
         /\ \A i \in 1..Len(Tail(q)) : Tail(q)[i] = q[i + 1]
         /\ \A key, kinds :
              /\ Waiting(Tail(q), key, kinds) \in SUBSET (1..Len(Tail(q)))
              /\ Waiting(q, key, kinds) =
                   {i + 1 : i \in Waiting(Tail(q), key, kinds)}
                     \cup (IF Head(q).key = key /\ Head(q).kind \in kinds THEN {1} ELSE {})
<1> DEFINE t == Tail(q)
<1>1. /\ t \in Seq(Writes) /\ Head(q) \in Writes /\ Head(q) = q[1]
      /\ Len(q) \in Nat \ {0} /\ Len(t) = Len(q) - 1
      /\ \A i \in 1..Len(q)-1 : t[i] = q[i + 1]
      BY QueueShrinks
<1> HIDE DEF t
<1>2. Len(t) \in Nat /\ \A i \in 1..Len(t) : t[i] = q[i + 1]
      BY <1>1
<1>3. ASSUME NEW key, NEW kinds
      PROVE  /\ Waiting(t, key, kinds) \in SUBSET (1..Len(t))
             /\ Waiting(q, key, kinds) =
                  {i + 1 : i \in Waiting(t, key, kinds)}
                    \cup (IF Head(q).key = key /\ Head(q).kind \in kinds THEN {1} ELSE {})
  <2>1. \A i : i \in 1..Len(q) => i = 1 \/ (i - 1 \in 1..Len(t) /\ i = (i - 1) + 1 /\ t[i - 1] = q[i])
        BY <1>1, <1>2
  <2>2. \A i \in 1..Len(t) : i + 1 \in 1..Len(q)
        BY <1>1, <1>2
  <2>3. 1 \in 1..Len(q)
        BY <1>1
  <2>4. ASSUME NEW i \in Waiting(q, key, kinds)
        PROVE  \/ \E j \in Waiting(t, key, kinds) : i = j + 1
               \/ i = 1 /\ Head(q).key = key /\ Head(q).kind \in kinds
    <3>1. CASE i = 1
          BY <1>1, <3>1 DEF Waiting
    <3>2. CASE i # 1
      <4>1. i - 1 \in Waiting(t, key, kinds) /\ i = (i - 1) + 1
            BY <2>1, <3>2 DEF Waiting
      <4> QED BY <4>1
    <3> QED BY <3>1, <3>2
  <2>5. ASSUME NEW j \in Waiting(t, key, kinds)
        PROVE  j + 1 \in Waiting(q, key, kinds)
        BY <1>2, <2>2 DEF Waiting
  <2>6. Head(q).key = key /\ Head(q).kind \in kinds => 1 \in Waiting(q, key, kinds)
        BY <1>1, <2>3 DEF Waiting
  <2>7. Waiting(t, key, kinds) \in SUBSET (1..Len(t))
        BY DEF Waiting
  <2> QED BY <2>4, <2>5, <2>6, <2>7
<1> QED BY <1>1, <1>2, <1>3 DEF t

(* What a write makes of a document, kind by kind.                         *)
LEMMA AfterIs ==
  ASSUME NEW w \in Writes, NEW doc
  PROVE  /\ w.kind \in {"create", "drop", "title", "text", "posts"}
         /\ w.kind = "create" => After(w, doc) = [there |-> TRUE, text |-> FALSE, posts |-> {}]
         /\ w.kind = "drop" => After(w, doc) = [there |-> FALSE, text |-> FALSE, posts |-> {}]
         /\ w.kind = "title" => After(w, doc) = doc
         /\ w.kind = "text" => After(w, doc) = IF doc.there THEN [doc EXCEPT !.text = TRUE] ELSE doc
         /\ w.kind = "posts" => After(w, doc) = IF doc.there THEN [doc EXCEPT !.posts = w.posts] ELSE doc
BY DEF After, Writes, NoDoc

(* The document that the last creation or deletion leaves.                 *)
LEMMA BaseIs ==
  ASSUME NEW q, NEW m, NEW doc
  PROVE  /\ Base(q, {m}, doc) \in Doc
         /\ q[m].kind = "create" => Base(q, {m}, doc) = [there |-> TRUE, text |-> FALSE, posts |-> {}]
         /\ q[m].kind # "create" => Base(q, {m}, doc) = [there |-> FALSE, text |-> FALSE, posts |-> {}]
BY DEF Base, NoDoc, Doc

(* The queues q and qq have the same writes before the n-th.               *)
Agree(q, qq, n) == \A i \in 1..(n - 1) : qq[i] = q[i]

(* Writes before the n-th of two queues that agree there.                  *)
LEMMA OverlayBefore ==
  ASSUME NEW n \in Nat, NEW q, NEW qq, Agree(q, qq, n),
         NEW doc, NEW texts, NEW puts \in SUBSET (1..(n - 1))
  PROVE  Overlay(qq, doc, texts, puts) = Overlay(q, doc, texts, puts)
<1>1. Latest(puts) \subseteq 1..(n - 1)
      BY DEF Latest
<1>2. \A i \in Latest(puts) : qq[i].posts = q[i].posts
      BY <1>1 DEF Agree
<1>3. Put(qq, puts, doc.posts) = Put(q, puts, doc.posts)
      BY <1>2 DEF Put
<1> QED BY <1>3 DEF Overlay

(* A write of the text among others.                                       *)
LEMMA OverlayText ==
  ASSUME NEW q, NEW doc \in Doc, NEW texts, NEW puts, NEW n
  PROVE  Overlay(q, doc, texts \cup {n}, puts) =
           IF Overlay(q, doc, texts, puts).there
           THEN [Overlay(q, doc, texts, puts) EXCEPT !.text = TRUE] ELSE Overlay(q, doc, texts, puts)
<1>1. texts \cup {n} # {}
      OBVIOUS
<1>2. doc.text \/ texts \cup {n} # {} <=> TRUE
      BY <1>1
<1>3. PICK more : more = texts \cup {n}
      OBVIOUS
<1>4. Overlay(q, doc, more, puts) =
        IF doc.there THEN [doc EXCEPT !.text = TRUE, !.posts = Put(q, puts, @)] ELSE doc
      BY <1>2, <1>3 DEF Overlay
<1>5. Overlay(q, doc, texts, puts) =
        IF doc.there THEN [doc EXCEPT !.text = @ \/ texts # {}, !.posts = Put(q, puts, @)] ELSE doc
      BY DEF Overlay
<1>6. Overlay(q, doc, more, puts) =
        IF Overlay(q, doc, texts, puts).there
        THEN [Overlay(q, doc, texts, puts) EXCEPT !.text = TRUE] ELSE Overlay(q, doc, texts, puts)
      BY <1>4, <1>5 DEF Doc
<1> QED BY <1>3, <1>6

(* The n-th write is one of the posts, behind all others.                  *)
LEMMA OverlayPosts ==
  ASSUME NEW n \in Nat, NEW q, NEW qq, Agree(q, qq, n),
         NEW doc \in Doc, NEW texts, NEW puts \in SUBSET (1..(n - 1))
  PROVE  Overlay(qq, doc, texts, puts \cup {n}) =
           IF Overlay(q, doc, texts, puts).there
           THEN [Overlay(q, doc, texts, puts) EXCEPT !.posts = qq[n].posts]
           ELSE Overlay(q, doc, texts, puts)
<1> DEFINE more == puts \cup {n}
<1>1. Latest(more) = {n}
  <2>1. \A i \in puts : i \in 1..(n - 1) /\ i <= n /\ ~(n <= i)
        OBVIOUS
  <2>2. n \in Latest(more)
        BY <2>1 DEF Latest
  <2>3. \A i \in Latest(more) : i = n
        BY <2>1 DEF Latest
  <2> QED BY <2>2, <2>3
<1>2. Put(qq, more, doc.posts) = qq[n].posts
      BY <1>1 DEF Put
<1> QED BY <1>2, OverlayOther

(* A queue with one more write makes of a document what that write makes   *)
(* of what the queue made of it.                                           *)
LEMMA UnderAppend ==
  ASSUME NEW q \in Seq(Writes), NEW w \in Writes, NEW key, NEW doc \in Doc
  PROVE  Under(q \o <<w>>, key, doc) = IF w.key = key THEN After(w, Under(q, key, doc))
                                       ELSE Under(q, key, doc)
<1> DEFINE qq == q \o <<w>>
           n == Len(q) + 1
           M == {"create", "drop"}
           W(kinds) == Waiting(q, key, kinds)
           WW(kinds) == Waiting(qq, key, kinds)
           under == Under(q, key, doc)
<1>1. /\ n \in Nat /\ n - 1 = Len(q)
      /\ Agree(q, qq, n)
      /\ qq[n] = w
      BY WaitingAppend DEF Agree
<1>2. \A kinds : /\ W(kinds) \in SUBSET (1..(n - 1))
                 /\ WW(kinds) = W(kinds) \cup (IF w.key = key /\ w.kind \in kinds THEN {n} ELSE {})
      BY <1>1, WaitingAppend
<1>3. PICK start : start = Latest(W(M))
      OBVIOUS
<1>4. PICK base, texts, puts : /\ base = Base(q, start, doc)
                               /\ texts = Later(W({"text"}), start)
                               /\ puts = Later(W({"posts"}), start)
      OBVIOUS
<1>5. under = Overlay(q, base, texts, puts)
      BY <1>3, <1>4, UnderIs
<1>6. Under(qq, key, doc) = Overlay(qq, Base(qq, Latest(WW(M)), doc),
                                    Later(WW({"text"}), Latest(WW(M))),
                                    Later(WW({"posts"}), Latest(WW(M))))
      BY UnderIs
<1>7. /\ start \subseteq 1..(n - 1)
      /\ texts \in SUBSET (1..(n - 1)) /\ puts \in SUBSET (1..(n - 1))
      BY <1>2, <1>3, <1>4 DEF Latest, Later
<1>8. base \in Doc
      BY <1>4 DEF Base, Doc, NoDoc
<1>9. \A i \in 1..(n - 1) : i < n /\ ~(n <= i)
      BY <1>1
<1> HIDE DEF under, qq, n, W, WW
<1>10. CASE w.key = key /\ w.kind \in M
  <2>1. WW(M) = W(M) \cup {n} /\ WW({"text"}) = W({"text"}) /\ WW({"posts"}) = W({"posts"})
        BY <1>2, <1>10
  <2>2. Latest(WW(M)) = {n}
        BY <1>1, <1>2, <1>9, <2>1 DEF Latest
  <2>3. Later(WW({"text"}), {n}) = {} /\ Later(WW({"posts"}), {n}) = {}
        BY <1>1, <1>2, <1>9, <2>1 DEF Later
  <2>4. Base(qq, {n}, doc) \in Doc
        BY BaseIs
  <2>5. Under(qq, key, doc) = Overlay(qq, Base(qq, {n}, doc), {}, {})
        BY <1>6, <2>2, <2>3
  <2>6. Overlay(qq, Base(qq, {n}, doc), {}, {}) = Base(qq, {n}, doc)
        BY <2>4, OverlayNone
  <2>7. Base(qq, {n}, doc) = After(w, under)
    <3>1. CASE w.kind = "create"
      <4>1. After(w, under) = [there |-> TRUE, text |-> FALSE, posts |-> {}]
            BY <3>1, AfterIs
      <4>2. Base(qq, {n}, doc) = [there |-> TRUE, text |-> FALSE, posts |-> {}]
            BY <1>1, <3>1, BaseIs
      <4> QED BY <4>1, <4>2
    <3>2. CASE w.kind = "drop"
      <4>1. After(w, under) = [there |-> FALSE, text |-> FALSE, posts |-> {}]
            BY <3>2, AfterIs
      <4>2. Base(qq, {n}, doc) = [there |-> FALSE, text |-> FALSE, posts |-> {}]
            BY <1>1, <3>2, BaseIs
      <4> QED BY <4>1, <4>2
    <3> QED BY <1>10, <3>1, <3>2
  <2> QED BY <1>10, <2>5, <2>6, <2>7 DEF under, qq
<1>11. CASE ~(w.key = key /\ w.kind \in M)
  <2>1. WW(M) = W(M)
        BY <1>2, <1>11
  <2>2. Latest(WW(M)) = start
        BY <1>3, <2>1
  <2>3. Base(qq, start, doc) = base
        BY <1>1, <1>4, <1>7 DEF Base, Agree
  <2>4. ASSUME NEW kind
        PROVE  Later(WW({kind}), start) = IF w.key = key /\ w.kind = kind
                                          THEN Later(W({kind}), start) \cup {n}
                                          ELSE Later(W({kind}), start)
    <3>1. WW({kind}) = W({kind}) \cup (IF w.key = key /\ w.kind = kind THEN {n} ELSE {})
          BY <1>2
    <3>2. \A j \in start : j < n
          BY <1>7, <1>9
    <3> QED BY <3>1, <3>2 DEF Later
  <2>5. Under(qq, key, doc) =
          Overlay(qq, base, IF w.key = key /\ w.kind = "text" THEN texts \cup {n} ELSE texts,
                            IF w.key = key /\ w.kind = "posts" THEN puts \cup {n} ELSE puts)
        BY <1>4, <1>6, <2>2, <2>3, <2>4
  <2>6. CASE w.key = key /\ w.kind = "text"
    <3>1. Under(qq, key, doc) = Overlay(qq, base, texts \cup {n}, puts)
          BY <2>5, <2>6
    <3>2. Overlay(qq, base, texts \cup {n}, puts) = Overlay(q, base, texts \cup {n}, puts)
          BY <1>1, <1>7, OverlayBefore
    <3>3. Overlay(q, base, texts \cup {n}, puts) =
            IF under.there THEN [under EXCEPT !.text = TRUE] ELSE under
          BY <1>5, <1>8, OverlayText
    <3>4. After(w, under) = IF under.there THEN [under EXCEPT !.text = TRUE] ELSE under
          BY <2>6, AfterIs
    <3> QED BY <2>6, <3>1, <3>2, <3>3, <3>4 DEF under, qq
  <2>7. CASE w.key = key /\ w.kind = "posts"
    <3>1. Under(qq, key, doc) = Overlay(qq, base, texts, puts \cup {n})
          BY <2>5, <2>7
    <3>2. Overlay(qq, base, texts, puts \cup {n}) =
            IF under.there THEN [under EXCEPT !.posts = qq[n].posts] ELSE under
          BY <1>1, <1>5, <1>7, <1>8, OverlayPosts
    <3>3. After(w, under) = IF under.there THEN [under EXCEPT !.posts = w.posts] ELSE under
          BY <2>7, AfterIs
    <3> QED BY <1>1, <2>7, <3>1, <3>2, <3>3 DEF under, qq
  <2>8. CASE ~(w.key = key /\ w.kind \in {"text", "posts"})
    <3>1. Under(qq, key, doc) = Overlay(qq, base, texts, puts)
          BY <2>5, <2>8
    <3>2. Overlay(qq, base, texts, puts) = under
          BY <1>1, <1>5, <1>7, OverlayBefore
    <3>3. w.key = key => After(w, under) = under
          BY <1>11, <2>8, AfterIs
    <3> QED BY <3>1, <3>2, <3>3 DEF under, qq
  <2> QED BY <2>6, <2>7, <2>8
<1> QED BY <1>10, <1>11

(* The writes of a queue in the places they have behind a new head.        *)
Shift(S) == {i + 1 : i \in S}

(* The latest of them.                                                     *)
LEMMA LatestShift ==
  ASSUME NEW S \in SUBSET (Nat \ {0})
  PROVE  /\ Latest(Shift(S)) = Shift(Latest(S))
         /\ S # {} => Latest(Shift(S) \cup {1}) = Shift(Latest(S))
<1>1. \A i \in S : i \in Nat \ {0} /\ i + 1 \in Nat /\ (i + 1) - 1 = i
      OBVIOUS
<1>2. Latest(Shift(S)) = Shift(Latest(S))
  <2>1. ASSUME NEW i \in S, \A j \in S : j <= i
        PROVE  \A j \in Shift(S) : j <= i + 1
        BY <1>1, <2>1 DEF Shift
  <2>2. ASSUME NEW i \in S, \A j \in Shift(S) : j <= i + 1
        PROVE  \A j \in S : j <= i
    <3> SUFFICES ASSUME NEW j \in S PROVE j <= i
        OBVIOUS
    <3>1. j + 1 \in Shift(S)
          BY DEF Shift
    <3>2. j + 1 <= i + 1
          BY <2>2, <3>1
    <3> QED BY <1>1, <3>2
  <2> QED BY <2>1, <2>2 DEF Latest, Shift
<1>3. ASSUME S # {}
      PROVE  Latest(Shift(S) \cup {1}) = Latest(Shift(S))
  <2>1. PICK k \in S : TRUE
        BY <1>3
  <2>2. k + 1 \in Shift(S) /\ ~(k + 1 <= 1)
        BY <1>1, <2>1 DEF Shift
  <2>3. \A i \in Shift(S) : 1 <= i
        BY <1>1 DEF Shift
  <2> QED BY <2>2, <2>3 DEF Latest
<1> QED BY <1>2, <1>3

(* A queue without its head has the head's followers one place earlier.    *)
Follows(q, t) == Len(t) \in Nat /\ \A i \in 1..Len(t) : t[i] = q[i + 1]

(* The writes of posts that t puts on a document, behind the head of q.    *)
Behind(q, t, puts, doc) == Follows(q, t) /\ puts \in SUBSET (1..Len(t)) /\ doc \in Doc

(* What the followers put.                                                 *)
LEMMA PutShift ==
  ASSUME NEW q, NEW t, NEW puts, NEW doc, Behind(q, t, puts, doc), NEW posts
  PROVE  Put(q, Shift(puts), posts) = Put(t, puts, posts)
<1>0. puts \in SUBSET (Nat \ {0}) /\ Latest(puts) \subseteq 1..Len(t)
  <2>1. 1..Len(t) \subseteq Nat \ {0}
        BY DEF Follows, Behind
  <2> QED BY <2>1 DEF Latest, Behind
<1>1. UNION {q[i].posts : i \in Shift(Latest(puts))} = UNION {t[i].posts : i \in Latest(puts)}
  <2>1. \A i \in Latest(puts) : t[i] = q[i + 1]
        BY <1>0 DEF Follows, Behind
  <2>2. {q[i].posts : i \in Shift(Latest(puts))} = {t[i].posts : i \in Latest(puts)}
        BY <2>1 DEF Shift
  <2> QED BY <2>2
<1>2. Shift(puts) = {} <=> puts = {}
      BY DEF Shift
<1> QED BY <1>0, <1>1, <1>2, LatestShift DEF Put

(* What they put behind a head that writes posts.                          *)
LEMMA PutShiftPosts ==
  ASSUME NEW q, NEW t, NEW puts, NEW doc, Behind(q, t, puts, doc), NEW posts
  PROVE  Put(q, Shift(puts) \cup {1}, posts) = Put(t, puts, q[1].posts)
<1>1. CASE puts = {}
  <2>1. Shift(puts) \cup {1} = {1} /\ Latest({1}) = {1}
        BY <1>1 DEF Shift, Latest
  <2> QED BY <1>1, <2>1 DEF Put
<1>2. CASE puts # {}
  <2>1. puts \in SUBSET (Nat \ {0})
    <3>1. 1..Len(t) \subseteq Nat \ {0}
          BY DEF Follows, Behind
    <3> QED BY <3>1 DEF Behind
  <2>2. Latest(Shift(puts) \cup {1}) = Latest(Shift(puts)) /\ Shift(puts) # {}
    <3>1. Latest(Shift(puts)) = Shift(Latest(puts)) /\ Latest(Shift(puts) \cup {1}) = Shift(Latest(puts))
          BY <1>2, <2>1, LatestShift
    <3>2. PICK k \in puts : TRUE
          BY <1>2
    <3>3. k + 1 \in Shift(puts)
          BY DEF Shift
    <3> QED BY <3>1, <3>3
  <2>3. Put(q, Shift(puts) \cup {1}, posts) = Put(q, Shift(puts), posts)
        BY <2>2 DEF Put
  <2>4. Put(q, Shift(puts), posts) = Put(t, puts, posts)
        BY PutShift
  <2>5. Put(t, puts, posts) = Put(t, puts, q[1].posts)
        BY <1>2 DEF Put
  <2> QED BY <2>3, <2>4, <2>5
<1> QED BY <1>1, <1>2

(* The overlay of the followers.                                           *)
LEMMA OverlayShift ==
  ASSUME NEW q, NEW t, NEW puts, NEW texts, NEW doc, Behind(q, t, puts, doc)
  PROVE  Overlay(q, doc, Shift(texts), Shift(puts)) = Overlay(t, doc, texts, puts)
<1>1. Put(q, Shift(puts), doc.posts) = Put(t, puts, doc.posts)
      BY PutShift
<1>2. PICK a : a = Shift(texts)
      OBVIOUS
<1>3. a = {} <=> texts = {}
      BY <1>2 DEF Shift
<1>4. Overlay(q, doc, a, Shift(puts)) = Overlay(t, doc, texts, puts)
      BY <1>1, <1>3 DEF Overlay
<1> QED BY <1>2, <1>4

(* With a head that writes the text.                                       *)
LEMMA OverlayShiftText ==
  ASSUME NEW q, NEW t, NEW puts, NEW texts, NEW doc, Behind(q, t, puts, doc),
         NEW doc2, doc2 = IF doc.there THEN [doc EXCEPT !.text = TRUE] ELSE doc
  PROVE  Overlay(q, doc, Shift(texts) \cup {1}, Shift(puts)) = Overlay(t, doc2, texts, puts)
<1>1. Put(q, Shift(puts), doc.posts) = Put(t, puts, doc.posts)
      BY PutShift
<1>2. PICK b : b = Shift(texts) \cup {1}
      OBVIOUS
<1>3. b # {}
      BY <1>2
<1>4. Overlay(q, doc, b, Shift(puts)) = Overlay(t, doc2, texts, puts)
      BY <1>1, <1>3 DEF Overlay, Doc, Behind
<1> QED BY <1>2, <1>4

(* With a head that writes the posts.                                      *)
LEMMA OverlayShiftPosts ==
  ASSUME NEW q, NEW t, NEW puts, NEW texts, NEW doc, Behind(q, t, puts, doc),
         NEW doc2, doc2 = IF doc.there THEN [doc EXCEPT !.posts = q[1].posts] ELSE doc
  PROVE  Overlay(q, doc, Shift(texts), Shift(puts) \cup {1}) = Overlay(t, doc2, texts, puts)
<1>1. Put(q, Shift(puts) \cup {1}, doc.posts) = Put(t, puts, q[1].posts)
      BY PutShiftPosts
<1>2. PICK a, d : a = Shift(texts) /\ d = Shift(puts) \cup {1}
      OBVIOUS
<1>3. a = {} <=> texts = {}
      BY <1>2 DEF Shift
<1>4. Put(q, d, doc.posts) = Put(t, puts, q[1].posts)
      BY <1>1, <1>2
<1>5. Overlay(q, doc, a, d) = Overlay(t, doc2, texts, puts)
      BY <1>3, <1>4 DEF Overlay, Doc, Behind
<1> QED BY <1>2, <1>5

(* The server taking the head of a queue leaves what the queue makes of    *)
(* the document.                                                           *)
LEMMA UnderTail ==
  ASSUME NEW q \in Seq(Writes), q # << >>, NEW key, NEW doc \in Doc
  PROVE  Under(Tail(q), key, IF Head(q).key = key THEN After(Head(q), doc) ELSE doc) = Under(q, key, doc)
<1> DEFINE t == Tail(q)
           w == Head(q)
           doc2 == IF w.key = key THEN After(w, doc) ELSE doc
           M == {"create", "drop"}
           T(kinds) == Waiting(t, key, kinds)
           Q(kinds) == Waiting(q, key, kinds)
<1>1. w \in Writes /\ w = q[1] /\ Follows(q, t)
      BY WaitingTail DEF Follows
<1>2. \A kinds : /\ T(kinds) \in SUBSET (1..Len(t))
                 /\ Q(kinds) = Shift(T(kinds)) \cup (IF w.key = key /\ w.kind \in kinds THEN {1} ELSE {})
      BY WaitingTail DEF Shift
<1>3. \A d : Under(t, key, d) = Overlay(t, Base(t, Latest(T(M)), d),
                                        Later(T({"text"}), Latest(T(M))),
                                        Later(T({"posts"}), Latest(T(M))))
      BY UnderIs
<1>4. Under(q, key, doc) = Overlay(q, Base(q, Latest(Q(M)), doc),
                                   Later(Q({"text"}), Latest(Q(M))),
                                   Later(Q({"posts"}), Latest(Q(M))))
      BY UnderIs
<1>5. Len(t) \in Nat
      BY <1>1 DEF Follows
<1>6. doc2 \in Doc
      BY <1>1, AfterIsTyped
<1> HIDE DEF t, w, doc2, T, Q
<1>7. CASE T(M) # {}
  <2>1. PICK m \in T(M) : Latest(T(M)) = {m}
        BY <1>2, <1>5, <1>7, OneLatest
  <2>2. m \in 1..Len(t) /\ m + 1 \in Nat /\ m + 1 > 1 /\ T(M) \in SUBSET (Nat \ {0})
        BY <1>2, <1>5, <2>1
  <2>3. Latest(Q(M)) = {m + 1}
    <3>1. Shift({m}) = {m + 1}
          BY DEF Shift
    <3>2. Q(M) \in {Shift(T(M)), Shift(T(M)) \cup {1}}
          BY <1>2
    <3> QED BY <1>7, <2>1, <2>2, <3>1, <3>2, LatestShift
  <2>4. ASSUME NEW kind
        PROVE  Later(Q({kind}), {m + 1}) = Shift(Later(T({kind}), {m}))
    <3>1. Q({kind}) \in {Shift(T({kind})), Shift(T({kind})) \cup {1}}
          BY <1>2
    <3>2. T({kind}) \in SUBSET (Nat \ {0})
          BY <1>2, <1>5
    <3>3. ~(m + 1 < 1)
          BY <2>2
    <3>4. \A i \in T({kind}) : m + 1 < i + 1 <=> m < i
          BY <2>2, <3>2
    <3>5. Later(Q({kind}), {m + 1}) = Later(Shift(T({kind})), {m + 1})
          BY <3>1, <3>3 DEF Later
    <3> QED BY <3>4, <3>5 DEF Later, Shift
  <2>5. Base(q, {m + 1}, doc) = Base(t, {m}, doc2) /\ Base(t, {m}, doc2) \in Doc
    <3>1. t[m] = q[m + 1]
          BY <1>1, <2>2 DEF Follows
    <3>2. Base(q, {m + 1}, doc) = Base(t, {m}, doc2)
          BY <3>1 DEF Base
    <3> QED BY <3>2, BaseIs
  <2>6. PICK base, texts, puts : /\ base = Base(t, {m}, doc2)
                                 /\ texts = Later(T({"text"}), {m})
                                 /\ puts = Later(T({"posts"}), {m})
        OBVIOUS
  <2>7. puts \in SUBSET (1..Len(t)) /\ base \in Doc
        BY <1>2, <2>5, <2>6 DEF Later
  <2>8. Under(t, key, doc2) = Overlay(t, base, texts, puts)
        BY <1>3, <2>1, <2>6
  <2>9. Under(q, key, doc) = Overlay(q, base, Shift(texts), Shift(puts))
        BY <1>4, <2>3, <2>4, <2>5, <2>6
  <2>10. Overlay(q, base, Shift(texts), Shift(puts)) = Overlay(t, base, texts, puts)
    <3>1. Behind(q, t, puts, base)
          BY <1>1, <2>7 DEF Behind
    <3> QED BY <3>1, OverlayShift
  <2> QED BY <2>8, <2>9, <2>10 DEF t, doc2, w
<1>8. CASE T(M) = {}
  <2>1. PICK texts, puts : texts = T({"text"}) /\ puts = T({"posts"})
        OBVIOUS
  <2>2. puts \in SUBSET (1..Len(t)) /\ texts \in SUBSET (1..Len(t))
        BY <1>2, <2>1
  <2>3. Latest({}) = {} /\ \A S : Later(S, {}) = S
        BY DEF Latest, Later
  <2>4. \A x, d : Base(x, {}, d) = d
        BY DEF Base
  <2>5. Under(t, key, doc2) = Overlay(t, doc2, texts, puts)
        BY <1>3, <1>8, <2>1, <2>3, <2>4
  <2>6. Shift(T(M)) = {}
        BY <1>8 DEF Shift
  <2>7. CASE w.key = key /\ w.kind \in M
    <3>1. Q(M) = {1} /\ Q({"text"}) = Shift(texts) /\ Q({"posts"}) = Shift(puts)
          BY <1>2, <2>1, <2>6, <2>7
    <3>2. Latest({1}) = {1}
          BY DEF Latest
    <3>3. Later(Shift(texts), {1}) = Shift(texts) /\ Later(Shift(puts), {1}) = Shift(puts)
      <4>1. \A i \in 1..Len(t) : 1 < i + 1
            BY <1>5
      <4> QED BY <2>2, <4>1 DEF Later, Shift
    <3>4. Base(q, {1}, doc) = doc2
      <4>1. CASE w.kind = "create"
        <5>1. After(w, doc) = [there |-> TRUE, text |-> FALSE, posts |-> {}]
              BY <1>1, <4>1, AfterIs
        <5>2. Base(q, {1}, doc) = [there |-> TRUE, text |-> FALSE, posts |-> {}]
              BY <1>1, <4>1, BaseIs
        <5> QED BY <2>7, <5>1, <5>2 DEF doc2
      <4>2. CASE w.kind = "drop"
        <5>1. After(w, doc) = [there |-> FALSE, text |-> FALSE, posts |-> {}]
              BY <1>1, <4>2, AfterIs
        <5>2. Base(q, {1}, doc) = [there |-> FALSE, text |-> FALSE, posts |-> {}]
              BY <1>1, <4>2, BaseIs
        <5> QED BY <2>7, <5>1, <5>2 DEF doc2
      <4> QED BY <2>7, <4>1, <4>2
    <3>5. Under(q, key, doc) = Overlay(q, doc2, Shift(texts), Shift(puts))
          BY <1>4, <3>1, <3>2, <3>3, <3>4
    <3>6. Overlay(q, doc2, Shift(texts), Shift(puts)) = Overlay(t, doc2, texts, puts)
      <4>1. Behind(q, t, puts, doc2)
            BY <1>1, <1>6, <2>2 DEF Behind
      <4> QED BY <4>1, OverlayShift
    <3> QED BY <2>5, <3>5, <3>6 DEF t, doc2, w
  <2>8. CASE ~(w.key = key /\ w.kind \in M)
    <3>1. Q(M) = {}
          BY <1>2, <2>6, <2>8
    <3>2. Under(q, key, doc) = Overlay(q, doc, Q({"text"}), Q({"posts"}))
          BY <1>4, <2>3, <2>4, <3>1
    <3>3. CASE w.key = key /\ w.kind = "text"
      <4>1. Q({"text"}) = Shift(texts) \cup {1} /\ Q({"posts"}) = Shift(puts)
            BY <1>2, <2>1, <3>3
      <4>2. doc2 = IF doc.there THEN [doc EXCEPT !.text = TRUE] ELSE doc
            BY <1>1, <3>3, AfterIs DEF doc2
      <4>3. Behind(q, t, puts, doc)
            BY <1>1, <2>2 DEF Behind
      <4>4. Overlay(q, doc, Shift(texts) \cup {1}, Shift(puts)) = Overlay(t, doc2, texts, puts)
            BY <4>3, <4>2, OverlayShiftText
      <4> QED BY <2>5, <3>2, <3>3, <4>1, <4>4 DEF t, doc2, w
    <3>4. CASE w.key = key /\ w.kind = "posts"
      <4>1. Q({"text"}) = Shift(texts) /\ Q({"posts"}) = Shift(puts) \cup {1}
            BY <1>2, <2>1, <3>4
      <4>2. doc2 = IF doc.there THEN [doc EXCEPT !.posts = q[1].posts] ELSE doc
            BY <1>1, <3>4, AfterIs DEF doc2
      <4>3. Behind(q, t, puts, doc)
            BY <1>1, <2>2 DEF Behind
      <4>4. Overlay(q, doc, Shift(texts), Shift(puts) \cup {1}) = Overlay(t, doc2, texts, puts)
            BY <4>3, <4>2, OverlayShiftPosts
      <4> QED BY <2>5, <3>2, <3>4, <4>1, <4>4 DEF t, doc2, w
    <3>5. CASE ~(w.key = key /\ w.kind \in {"text", "posts"})
      <4>1. Q({"text"}) = Shift(texts) /\ Q({"posts"}) = Shift(puts)
            BY <1>2, <2>1, <3>5
      <4>2. doc2 = doc
            BY <1>1, <2>8, <3>5, AfterIs DEF doc2
      <4>3. Behind(q, t, puts, doc)
            BY <1>1, <2>2 DEF Behind
      <4>4. Overlay(q, doc, Shift(texts), Shift(puts)) = Overlay(t, doc, texts, puts)
            BY <4>3, OverlayShift
      <4> QED BY <2>5, <3>2, <4>1, <4>2, <4>4 DEF t, doc2, w
    <3> QED BY <3>3, <3>4, <3>5
  <2> QED BY <2>7, <2>8
<1> QED BY <1>7, <1>8

-----------------------------------------------------------------------------
(* What a device fetches after it queued a write.                          *)
LEMMA SeenQueued ==
  ASSUME TypeOK, NEW dev \in Devices, NEW w \in Writes, Queue(dev, <<w>>), docs' = docs,
         NEW key \in Keys
  PROVE  Seen(dev, key)' = IF w.key = key THEN After(w, Seen(dev, key)) ELSE Seen(dev, key)
<1>1. outbox[dev] \in Seq(Writes) /\ docs[key] \in Doc
      BY DEF TypeOK
<1>2. outbox'[dev] = outbox[dev] \o <<w>>
      BY DEF Queue, TypeOK
<1>3. Under(outbox[dev] \o <<w>>, key, docs[key]) =
        IF w.key = key THEN After(w, Under(outbox[dev], key, docs[key]))
        ELSE Under(outbox[dev], key, docs[key])
      BY <1>1, UnderAppend
<1>4. Seen(dev, key)' = Under(outbox'[dev], key, docs[key]) /\ Seen(dev, key) = Under(outbox[dev], key, docs[key])
      BY DEF Seen
<1> QED BY <1>2, <1>3, <1>4

(* A write that reaches the server leaves what its device fetches.         *)
LEMMA SeenSent ==
  ASSUME TypeOK, NEW dev \in Devices, WriteReachesServer(dev), NEW key \in Keys
  PROVE  Seen(dev, key)' = Seen(dev, key)
<1>1. outbox[dev] \in Seq(Writes) /\ outbox[dev] # << >> /\ docs[key] \in Doc
      BY DEF TypeOK, WriteReachesServer
<1> DEFINE w == Head(outbox[dev])
<1>2. outbox'[dev] = Tail(outbox[dev])
      BY DEF WriteReachesServer, TypeOK
<1>3. docs'[key] = IF w.key = key THEN After(w, docs[key]) ELSE docs[key]
      BY DEF WriteReachesServer, TypeOK
<1>4. Under(Tail(outbox[dev]), key, IF w.key = key THEN After(w, docs[key]) ELSE docs[key]) =
        Under(outbox[dev], key, docs[key])
      BY <1>1, UnderTail
<1>5. Seen(dev, key)' = Under(outbox'[dev], key, docs'[key]) /\ Seen(dev, key) = Under(outbox[dev], key, docs[key])
      BY DEF Seen
<1> QED BY <1>2, <1>3, <1>4, <1>5

(* Neither does anything else that queues nothing.                         *)
LEMMA SeenStays ==
  ASSUME NEW dev \in Devices, outbox'[dev] = outbox[dev], NEW key \in Keys, docs'[key] = docs[key]
  PROVE  Seen(dev, key)' = Seen(dev, key)
BY DEF Seen

(* A project whose name was not drawn is not there for anybody.            *)
LEMMA UndrawnSeen ==
  ASSUME TypeOK, NamesDrawn, NEW dev \in Devices, NEW key \in Keys, key[2] \notin drawn
  PROVE  Seen(dev, key) = NoDoc
<1>1. docs[key] = NoDoc /\ NoDoc \in Doc
      BY DEF NamesDrawn, NoDoc, Doc
<1>2. \A kinds : Waiting(outbox[dev], key, kinds) = {}
      BY DEF NamesDrawn, Waiting
<1>3. Latest({}) = {} /\ Later({}, {}) = {}
      BY DEF Latest, Later
<1>4. Base(outbox[dev], {}, NoDoc) = NoDoc
      BY DEF Base
<1>5. Under(outbox[dev], key, NoDoc) = Overlay(outbox[dev], NoDoc, {}, {})
      BY <1>2, <1>3, <1>4, UnderIs
<1>6. Under(outbox[dev], key, NoDoc) = NoDoc
      BY <1>1, <1>5, OverlayNone
<1> QED BY <1>1, <1>6 DEF Seen

(* What saveProject does: a document is created under a new name, or the   *)
(* form's gets its title.                                                  *)
LEMMA SaveProjectDoes ==
  ASSUME TypeOK, NEW dev \in Devices, NEW f \in Form, SaveProject(dev, f),
         f.uid \in drawn \cup {NewId}
  PROVE  \E id \in ProjectIds, w \in Writes :
           /\ w.key = <<AccountOf[dev], id>> /\ w.key \in Keys /\ Queue(dev, <<w>>)
           /\ form' = [form EXCEPT ![dev] = [f EXCEPT !.uid = id]]
           /\ id \in drawn' /\ drawn \subseteq drawn'
           /\ \/ w.kind = "create" /\ id \notin drawn /\ f.uid = NewId
              \/ w.kind = "title" /\ id = f.uid
<1>0. \A id \in ProjectIds : <<AccountOf[dev], id>> \in Keys
      BY StoreAssumption DEF Keys
<1>1. CASE f.uid = NewId
  <2>1. PICK id \in ProjectIds \ drawn :
               /\ drawn' = drawn \cup {id}
               /\ Queue(dev, <<Write(dev, "create", id, {})>>)
               /\ form' = [form EXCEPT ![dev] = [f EXCEPT !.uid = id]]
        BY <1>1 DEF SaveProject
  <2> DEFINE w == Write(dev, "create", id, {})
  <2>2. w \in Writes /\ w.kind = "create" /\ w.key = <<AccountOf[dev], id>>
        BY <2>1, WriteIsTyped
  <2>3. Queue(dev, <<w>>)
        BY <2>1
  <2> HIDE DEF w
  <2> QED BY <1>0, <1>1, <2>1, <2>2, <2>3
<1>2. CASE f.uid # NewId
  <2>1. f.uid \in ProjectIds /\ f.uid \in drawn /\ [f EXCEPT !.uid = f.uid] = f
        BY <1>2 DEF Form
  <2> DEFINE w == Write(dev, "title", f.uid, {})
  <2>2. w \in Writes /\ w.kind = "title" /\ w.key = <<AccountOf[dev], f.uid>>
        BY <2>1, WriteIsTyped
  <2>3. /\ Queue(dev, <<w>>) /\ drawn' = drawn
        /\ form' = [form EXCEPT ![dev] = [f EXCEPT !.uid = f.uid]]
        BY <1>2, <2>1 DEF SaveProject
  <2> HIDE DEF w
  <2> QED BY <1>0, <2>1, <2>2, <2>3
<1> QED BY <1>1, <1>2

(* A save that saves the project at once, or after its photos.             *)
LEMMA SavesDo ==
  ASSUME TypeOK, NEW dev \in Devices, form[dev].uid \in drawn \cup {NewId},
         SaveTapped(dev) \/ UploadsDone(dev)
  PROVE  \/ /\ outbox' = outbox /\ drawn' = drawn /\ screen'[dev] = "uploading"
            /\ \E text \in BOOLEAN : form' = [form EXCEPT ![dev] = [form[dev] EXCEPT !.text = text]]
         \/ \E text \in BOOLEAN, id \in ProjectIds, w \in Writes :
              /\ w.key = <<AccountOf[dev], id>> /\ w.key \in Keys /\ Queue(dev, <<w>>)
              /\ screen'[dev] = "saving"
              /\ form' = [form EXCEPT ![dev] = [form[dev] EXCEPT !.text = text, !.uid = id]]
              /\ id \in drawn' /\ drawn \subseteq drawn'
              /\ \/ w.kind = "create" /\ id \notin drawn /\ form[dev].uid = NewId
                 \/ w.kind = "title" /\ id = form[dev].uid
<1> DEFINE Saves == \E text \in BOOLEAN, id \in ProjectIds, w \in Writes :
              /\ w.key = <<AccountOf[dev], id>> /\ w.key \in Keys /\ Queue(dev, <<w>>)
              /\ screen'[dev] = "saving"
              /\ form' = [form EXCEPT ![dev] = [form[dev] EXCEPT !.text = text, !.uid = id]]
              /\ id \in drawn' /\ drawn \subseteq drawn'
              /\ \/ w.kind = "create" /\ id \notin drawn /\ form[dev].uid = NewId
                 \/ w.kind = "title" /\ id = form[dev].uid
<1>1. ASSUME NEW text \in BOOLEAN, SaveProject(dev, [form[dev] EXCEPT !.text = text]),
             screen'[dev] = "saving"
      PROVE  Saves
  <2>0. form[dev] \in Form
        BY DEF TypeOK
  <2>1. PICK f \in Form : f = [form[dev] EXCEPT !.text = text]
        BY <2>0 DEF Form
  <2>2. f.uid = form[dev].uid
        BY <2>1 DEF TypeOK, Form
  <2>3. SaveProject(dev, f) /\ f.uid \in drawn \cup {NewId}
        BY <1>1, <2>1, <2>2
  <2>4. PICK id \in ProjectIds, w \in Writes :
           /\ w.key = <<AccountOf[dev], id>> /\ w.key \in Keys /\ Queue(dev, <<w>>)
           /\ form' = [form EXCEPT ![dev] = [f EXCEPT !.uid = id]]
           /\ id \in drawn' /\ drawn \subseteq drawn'
           /\ \/ w.kind = "create" /\ id \notin drawn /\ f.uid = NewId
              \/ w.kind = "title" /\ id = f.uid
        BY <2>3, SaveProjectDoes
  <2>5. [f EXCEPT !.uid = id] = [form[dev] EXCEPT !.text = text, !.uid = id]
        BY <2>1
  <2> QED BY <1>1, <2>2, <2>4, <2>5
<1>2. CASE UploadsDone(dev)
  <2>1. form[dev].text \in BOOLEAN /\ form[dev] = [form[dev] EXCEPT !.text = form[dev].text]
        BY DEF TypeOK, Form
  <2>2. screen'[dev] = "saving" /\ SaveProject(dev, form[dev])
        BY <1>2 DEF UploadsDone, TypeOK
  <2>3. PICK text \in BOOLEAN : text = form[dev].text
        BY <2>1
  <2>4. SaveProject(dev, [form[dev] EXCEPT !.text = text])
        BY <2>1, <2>2, <2>3
  <2> HIDE DEF Saves
  <2>5. Saves
        BY <1>1, <2>2, <2>4
  <2> QED BY <2>5 DEF Saves
<1>3. CASE SaveTapped(dev)
  <2>1. PICK text \in {form[dev].text, TRUE} :
          LET f == [form[dev] EXCEPT !.text = text] IN
          IF f.posts # {}
          THEN /\ screen' = [screen EXCEPT ![dev] = "uploading"]
               /\ form' = [form EXCEPT ![dev] = f]
               /\ UNCHANGED <<outbox, drawn>>
          ELSE /\ screen' = [screen EXCEPT ![dev] = "saving"]
               /\ SaveProject(dev, f)
        BY <1>3 DEF SaveTapped
  <2>2. text \in BOOLEAN
        BY <2>1 DEF TypeOK, Form
  <2> DEFINE f == [form[dev] EXCEPT !.text = text]
  <2>3. CASE f.posts # {}
        BY <2>1, <2>2, <2>3 DEF TypeOK
  <2>4. CASE f.posts = {}
    <3>1. SaveProject(dev, f) /\ screen'[dev] = "saving"
          BY <2>1, <2>4 DEF TypeOK
    <3> HIDE DEF Saves
    <3>2. Saves
          BY <1>1, <2>2, <3>1
    <3> QED BY <3>2 DEF Saves
  <2> QED BY <2>3, <2>4
<1> QED BY <1>2, <1>3

-----------------------------------------------------------------------------
(* Names stay drawn.                                                       *)
LEMMA DrawnGrows ==
  ASSUME TypeOK, NamesDrawn, NEW dev \in Devices, Steps(dev)
  PROVE  drawn \subseteq drawn'
<1>1. form[dev].uid \in drawn \cup {NewId}
      BY DEF NamesDrawn
<1>2. CASE SaveTapped(dev) \/ UploadsDone(dev)
      BY <1>1, <1>2, SavesDo
<1>3. CASE ~(SaveTapped(dev) \/ UploadsDone(dev))
      BY <1>3, FetchLeaves
         DEF Steps, Opened, OpenNew, OpenEdit, Edited, PhotoPicked, PostRemoved, Cancelled,
                  Deleted, DeleteFromEditor, DeleteFromFeed, DeleteProject, Uploaded, PhotoPut,
                  PhotoLinked, TitleAcked, Removed, FileRemoved, WriteReachesServer, AppKilled,
                  counters
<1> QED BY <1>2, <1>3

(* The editor's project has a name that was drawn.                         *)
LEMMA FormsDrawn ==
  ASSUME TypeOK, NamesDrawn, NEW dev \in Devices, Steps(dev)
  PROVE  form'[dev].uid \in drawn' \cup {NewId}
<1>0. form[dev].uid \in drawn \cup {NewId} /\ drawn \subseteq drawn'
      BY DrawnGrows DEF NamesDrawn
<1>1. ASSUME form' = [form EXCEPT ![dev] = NoForm]
      PROVE  form'[dev].uid \in drawn' \cup {NewId}
      BY <1>1 DEF TypeOK, NoForm
<1>2. ASSUME OpenNew(dev) \/ Cancelled(dev) \/ TitleAcked(dev) \/ Deleted(dev) \/ AppKilled(dev)
      PROVE  form'[dev].uid \in drawn' \cup {NewId}
  <2>1. form' = [form EXCEPT ![dev] = NoForm]
        BY <1>2 DEF OpenNew, Cancelled, TitleAcked, Deleted, DeleteFromEditor, DeleteFromFeed,
                    DeleteProject, AppKilled
  <2> QED BY <1>1, <2>1
<1>3. ASSUME NEW key \in Keys, OpenEdit(dev, key)
      PROVE  form'[dev].uid \in drawn' \cup {NewId}
  <2>1. rows[dev][key].there
        BY <1>3 DEF OpenEdit, Listed
  <2>2. key[2] \in drawn
        BY <2>1 DEF NamesDrawn
  <2>3. form'[dev].uid = key[2]
        BY <1>3 DEF OpenEdit, TypeOK, NoForm
  <2> QED BY <1>0, <2>2, <2>3
<1>4. ASSUME Edited(dev) \/ Uploaded(dev)
      PROVE  form'[dev].uid = form[dev].uid
  <2>0. form \in [Devices -> Form] /\ form[dev] \in Form
        BY DEF TypeOK
  <2>1. ASSUME NEW name \in Photos, PhotoPicked(dev, name)
        PROVE  form'[dev].uid = form[dev].uid
        BY <2>0, <2>1 DEF PhotoPicked, Form
  <2>2. ASSUME NEW p \in form[dev].posts, PostRemoved(dev, p)
        PROVE  form'[dev].uid = form[dev].uid
        BY <2>0, <2>2 DEF PostRemoved, Form
  <2>3. ASSUME NEW f \in form[dev].fresh, PhotoPut(dev, f)
        PROVE  form'[dev].uid = form[dev].uid
    <3>1. \/ form' = [form EXCEPT ![dev] = [form[dev] EXCEPT !.up = {f}]]
          \/ form' = [form EXCEPT ![dev] = [form[dev] EXCEPT !.fresh = form[dev].fresh \ {f}]]
          BY <2>3 DEF PhotoPut
    <3> QED BY <2>0, <3>1 DEF Form
  <2>4. ASSUME NEW f \in form[dev].fresh, PhotoLinked(dev, f)
        PROVE  form'[dev].uid = form[dev].uid
    <3>1. PICK linked : form' = [form EXCEPT ![dev] =
                  [form[dev] EXCEPT !.posts = {p \in @ : p.photo # f}
                                                \cup {[photo |-> f, linked |-> linked]},
                                    !.fresh = @ \ {f},
                                    !.up = {}]]
          BY <2>4 DEF PhotoLinked
    <3> QED BY <2>0, <3>1 DEF Form
  <2> QED BY <1>4, <2>1, <2>2, <2>3, <2>4 DEF Edited, Uploaded
<1>5. ASSUME Removed(dev) \/ WriteReachesServer(dev) \/ Fetched(dev)
      PROVE  form' = form
      BY <1>5, FetchLeaves DEF Removed, FileRemoved, WriteReachesServer
<1>6. ASSUME SaveTapped(dev) \/ UploadsDone(dev)
      PROVE  form'[dev].uid \in drawn' \cup {NewId}
  <2>1. ASSUME NEW text \in BOOLEAN, form' = [form EXCEPT ![dev] = [form[dev] EXCEPT !.text = text]]
        PROVE  form'[dev].uid = form[dev].uid
        BY <2>1 DEF TypeOK, Form
  <2>2. ASSUME NEW text \in BOOLEAN, NEW id \in ProjectIds,
               form' = [form EXCEPT ![dev] = [form[dev] EXCEPT !.text = text, !.uid = id]]
        PROVE  form'[dev].uid = id
        BY <2>2 DEF TypeOK, Form
  <2>3. CASE \E text \in BOOLEAN : form' = [form EXCEPT ![dev] = [form[dev] EXCEPT !.text = text]]
        BY <1>0, <2>1, <2>3
  <2>4. CASE \E text \in BOOLEAN, id \in ProjectIds :
               /\ form' = [form EXCEPT ![dev] = [form[dev] EXCEPT !.text = text, !.uid = id]]
               /\ id \in drawn'
        BY <2>2, <2>4
  <2>5. \/ \E text \in BOOLEAN : form' = [form EXCEPT ![dev] = [form[dev] EXCEPT !.text = text]]
        \/ \E text \in BOOLEAN, id \in ProjectIds, w \in Writes :
              /\ form' = [form EXCEPT ![dev] = [form[dev] EXCEPT !.text = text, !.uid = id]]
              /\ id \in drawn'
        BY <1>0, <1>6, SavesDo
  <2> QED BY <2>3, <2>4, <2>5
<1> QED BY <1>0, <1>2, <1>3, <1>4, <1>5, <1>6 DEF Steps, Opened

(* So has each write of a queue: ...                                       *)
LEMMA QueuedDrawn ==
  ASSUME TypeOK, NEW dev \in Devices, NEW ws \in Seq(Writes), Queue(dev, ws),
         \A i \in 1..Len(outbox[dev]) : outbox[dev][i].key[2] \in drawn,
         drawn \subseteq drawn', \A i \in 1..Len(ws) : ws[i].key[2] \in drawn'
  PROVE  \A i \in 1..Len(outbox'[dev]) : outbox'[dev][i].key[2] \in drawn'
<1>1. /\ \A i \in 1..Len(outbox[dev]) : outbox'[dev][i] = outbox[dev][i]
      /\ \A i \in 1..Len(outbox'[dev]) :
           \/ i \in 1..Len(outbox[dev])
           \/ i - Len(outbox[dev]) \in 1..Len(ws) /\ outbox'[dev][i] = ws[i - Len(outbox[dev])]
      BY QueueGrows
<1> QED BY <1>1

(* ... saves and deletions write to the project of the form or to one that *)
(* is there.                                                               *)
LEMMA WritesDrawn ==
  ASSUME TypeOK, OneTitle, NamesDrawn, NEW dev \in Devices, Steps(dev)
  PROVE  \A i \in 1..Len(outbox'[dev]) : outbox'[dev][i].key[2] \in drawn'
<1> DEFINE Goal == \A i \in 1..Len(outbox'[dev]) : outbox'[dev][i].key[2] \in drawn'
<1>0. /\ drawn \subseteq drawn' /\ form[dev].uid \in drawn \cup {NewId}
      /\ \A i \in 1..Len(outbox[dev]) : outbox[dev][i].key[2] \in drawn
      BY DrawnGrows DEF NamesDrawn
<1>1. ASSUME NEW w \in Writes, Queue(dev, <<w>>), w.key[2] \in drawn'
      PROVE  Goal
  <2>1. <<w>> \in Seq(Writes) /\ \A i \in 1..Len(<<w>>) : <<w>>[i].key[2] \in drawn'
        BY <1>1, OneWrite
  <2> QED BY <1>0, <1>1, <2>1, QueuedDrawn
<1>2. ASSUME outbox' = outbox
      PROVE  Goal
      BY <1>0, <1>2
<1>3. ASSUME SaveTapped(dev) \/ UploadsDone(dev)
      PROVE  Goal
  <2>1. \/ outbox' = outbox
        \/ \E text \in BOOLEAN, id \in ProjectIds, w \in Writes :
              w.key = <<AccountOf[dev], id>> /\ Queue(dev, <<w>>) /\ id \in drawn'
        BY <1>0, <1>3, SavesDo
  <2> HIDE DEF Goal
  <2>2. ASSUME NEW id \in ProjectIds, NEW w \in Writes,
               w.key = <<AccountOf[dev], id>>, Queue(dev, <<w>>), id \in drawn'
        PROVE  Goal
    <3>1. w.key[2] \in drawn'
          BY <2>2
    <3> QED BY <1>1, <2>2, <3>1
  <2> QED BY <1>2, <2>1, <2>2
<1>4. ASSUME TitleAcked(dev)
      PROVE  Goal
  <2>1. form[dev].uid \in ProjectIds /\ form[dev].uid \in drawn'
        BY <1>0, <1>4, NewIdAssumption DEF TitleAcked, OneTitle, OneTitleOf
  <2>2. PICK ws \in Seq(Writes) :
           /\ Queue(dev, ws)
           /\ \A i \in 1..Len(ws) :
                /\ ws[i].kind \in {"text", "posts"}
                /\ ws[i].key = <<AccountOf[dev], form[dev].uid>>
                /\ ws[i].posts \subseteq form[dev].posts
                /\ ws[i].life = kills[dev]
        BY <1>4, <2>1, TitleAckedQueues
  <2>3. \A i \in 1..Len(ws) : ws[i].key[2] \in drawn'
        BY <2>1, <2>2
  <2> QED BY <1>0, <2>2, <2>3, QueuedDrawn
<1>5. ASSUME NEW id \in ProjectIds, NEW posts, id \in drawn, DeleteProject(dev, id, posts)
      PROVE  Goal
  <2> DEFINE w == Write(dev, "drop", id, {})
  <2>1. w \in Writes /\ w.key = <<AccountOf[dev], id>>
        BY WriteIsTyped
  <2>2. Queue(dev, <<w>>)
        BY <1>5 DEF DeleteProject
  <2> HIDE DEF w
  <2>3. w.key[2] \in drawn'
        BY <1>0, <1>5, <2>1
  <2> QED BY <1>1, <2>1, <2>2, <2>3
<1>6. ASSUME Deleted(dev)
      PROVE  Goal
  <2>1. ASSUME NEW key \in Keys, DeleteFromFeed(dev, key)
        PROVE  Goal
    <3>1. rows[dev][key].there
          BY <2>1 DEF DeleteFromFeed, Listed
    <3>2. key[2] \in drawn /\ key[2] \in ProjectIds
          BY <3>1 DEF NamesDrawn, Keys
    <3> QED BY <1>5, <2>1, <3>2 DEF DeleteFromFeed
  <2>2. ASSUME DeleteFromEditor(dev)
        PROVE  Goal
    <3>1. form[dev].uid \in drawn /\ form[dev].uid \in ProjectIds
          BY <1>0, <2>2 DEF DeleteFromEditor, TypeOK, Form
    <3> QED BY <1>5, <2>2, <3>1 DEF DeleteFromEditor
  <2> QED BY <1>6, <2>1, <2>2 DEF Deleted
<1>7. ASSUME \/ Opened(dev) \/ Edited(dev) \/ Cancelled(dev) \/ Uploaded(dev) \/ AppKilled(dev)
             \/ Removed(dev) \/ Fetched(dev)
      PROVE  outbox' = outbox
      BY <1>7, FetchLeaves DEF Opened, OpenNew, OpenEdit, Edited, PhotoPicked, PostRemoved, Cancelled,
                  Uploaded, PhotoPut, PhotoLinked, AppKilled, Removed, FileRemoved
<1>8. ASSUME WriteReachesServer(dev)
      PROVE  Goal
  <2>1. outbox[dev] \in Seq(Writes) /\ outbox[dev] # << >> /\ outbox'[dev] = Tail(outbox[dev])
        BY <1>8 DEF WriteReachesServer, TypeOK
  <2>2. /\ Len(outbox[dev]) \in Nat \ {0} /\ Len(outbox'[dev]) = Len(outbox[dev]) - 1
        /\ \A i \in 1..Len(outbox[dev])-1 : outbox'[dev][i] = outbox[dev][i + 1]
        BY <2>1, QueueShrinks
  <2>3. ASSUME NEW i \in 1..Len(outbox'[dev])
        PROVE  outbox'[dev][i].key[2] \in drawn'
    <3>1. i \in 1..Len(outbox[dev])-1 /\ i + 1 \in 1..Len(outbox[dev])
          BY <2>2
    <3>2. outbox'[dev][i] = outbox[dev][i + 1]
          BY <2>2, <3>1
    <3>3. outbox[dev][i + 1].key[2] \in drawn
          BY <1>0, <3>1
    <3> QED BY <1>0, <3>2, <3>3
  <2> QED BY <2>3
<1> HIDE DEF Goal
<1>9. Goal
      BY <1>2, <1>3, <1>4, <1>6, <1>7, <1>8 DEF Steps
<1> QED BY <1>9 DEF Goal

(* Each step keeps the names of projects among those drawn.                *)
LEMMA StepNamesDrawn ==
  ASSUME StoreInv, NamesDrawn, [Next]_vars
  PROVE  NamesDrawn'
<1>0. TypeOK /\ OneTitle /\ OwnWork
      BY DEF StoreInv
<1>1. CASE UNCHANGED vars
      BY <1>1 DEF vars, NamesDrawn
<1>2. CASE Next
  <2>1. PICK dev \in Devices : Steps(dev)
        BY <1>2 DEF Next
  <2>2. drawn \subseteq drawn'
        BY <1>0, <2>1, DrawnGrows
  <2>3. ASSUME NEW d \in Devices
        PROVE  /\ form'[d].uid \in drawn' \cup {NewId}
               /\ \A i \in 1..Len(outbox'[d]) : outbox'[d][i].key[2] \in drawn'
    <3>1. CASE d = dev
          BY <1>0, <2>1, <3>1, FormsDrawn, WritesDrawn
    <3>2. CASE d # dev
      <4>1. outbox'[d] = outbox[d] /\ form'[d] = form[d]
            BY <1>0, <2>1, <3>2, OthersKeep
      <4> QED BY <2>2, <4>1 DEF NamesDrawn
    <3> QED BY <3>1, <3>2
  <2>4. ASSUME NEW key \in Keys, docs'[key] # NoDoc
        PROVE  key[2] \in drawn' /\ \E d \in Devices : AccountOf[d] = key[1]
    <3>1. CASE docs'[key] = docs[key]
          BY <2>2, <2>4, <3>1 DEF NamesDrawn
    <3>2. CASE docs'[key] # docs[key]
      <4>1. PICK d \in Devices : /\ Len(outbox[d]) \in Nat \ {0} /\ outbox[d][1].key \in Keys
                                 /\ \A k \in Keys \ {outbox[d][1].key} : docs'[k] = docs[k]
            BY <1>0, <3>2, DocsEffect
      <4>2. key = outbox[d][1].key /\ 1 \in 1..Len(outbox[d])
            BY <3>2, <4>1
      <4> QED BY <1>0, <2>2, <4>2 DEF NamesDrawn, OwnWork
    <3> QED BY <3>1, <3>2
  <2>5. ASSUME NEW key \in Keys, wanted'[key] # {}
        PROVE  key[2] \in drawn' /\ \E d \in Devices : AccountOf[d] = key[1]
    <3>1. CASE wanted'[key] = wanted[key]
          BY <2>2, <2>5, <3>1 DEF NamesDrawn
    <3>2. CASE wanted'[key] # wanted[key]
      <4>1. ~TitleAcked(dev) => wanted' = wanted
            BY <2>1, FetchLeaves
               DEF Steps, Opened, OpenNew, OpenEdit, Edited, PhotoPicked, PostRemoved,
                        Cancelled, SaveTapped, Deleted, DeleteFromEditor, DeleteFromFeed,
                        DeleteProject, Uploaded, PhotoPut, PhotoLinked, UploadsDone, Removed,
                        FileRemoved, WriteReachesServer, AppKilled
      <4>2. TitleAcked(dev) /\ form[dev].uid \in ProjectIds
            BY <1>0, <3>2, <4>1 DEF TitleAcked, OneTitle, OneTitleOf
      <4>3. key = <<AccountOf[dev], form[dev].uid>>
            BY <1>0, <3>2, <4>2 DEF TitleAcked, TypeOK
      <4>4. form[dev].uid \in drawn
            BY <4>2, NewIdAssumption DEF NamesDrawn
      <4> QED BY <2>2, <4>3, <4>4
    <3> QED BY <3>1, <3>2
  <2>6. ASSUME NEW d \in Devices, NEW key \in Keys
        PROVE  /\ rows'[d][key].there => key[2] \in drawn'
               /\ \A n \in Fetches : answers'[d][n][key].there => key[2] \in drawn'
    <3>1. RowStep(d, key) /\ \A n \in Fetches : AnswerStep(d, n, key)
          BY <1>0, FetchEffect DEF FetchStep
    <3>2. Seen(d, key).there => key[2] \in drawn
          BY <1>0, UndrawnSeen DEF NoDoc
    <3>3. /\ rows[d][key].there => key[2] \in drawn
          /\ \A n \in Fetches : answers[d][n][key].there => key[2] \in drawn
          BY DEF NamesDrawn
    <3>4. rows'[d][key].there => key[2] \in drawn'
          BY <2>2, <3>1, <3>3 DEF RowStep, NoDoc
    <3>5. \A n \in Fetches : answers'[d][n][key].there => key[2] \in drawn'
          BY <2>2, <3>1, <3>2, <3>3 DEF AnswerStep, NoDoc
    <3> QED BY <3>4, <3>5
  <2> QED BY <2>3, <2>4, <2>5, <2>6 DEF NamesDrawn
<1> QED BY <1>1, <1>2

-----------------------------------------------------------------------------
(* A document just created.                                                *)
Created == [there |-> TRUE, text |-> FALSE, posts |-> {}]

(* What a device fetches while it saves: what it did, or a new document.   *)
LEMMA SeenSaving ==
  ASSUME TypeOK, NamesDrawn, NEW dev \in Devices, SaveTapped(dev) \/ UploadsDone(dev), NEW key \in Keys
  PROVE  \/ Seen(dev, key)' = Seen(dev, key)
         \/ /\ Seen(dev, key) = NoDoc /\ key[2] \notin drawn
            /\ key = <<AccountOf[dev], form'[dev].uid>> /\ Seen(dev, key)' = Created
<1>0. form[dev].uid \in drawn \cup {NewId} /\ docs' = docs
      BY DEF NamesDrawn, SaveTapped, UploadsDone, server
<1>1. CASE outbox' = outbox
      BY <1>0, <1>1, SeenStays
<1>2. CASE outbox' # outbox
  <2>1. PICK text \in BOOLEAN, id \in ProjectIds, w \in Writes :
          /\ w.key = <<AccountOf[dev], id>> /\ w.key \in Keys /\ Queue(dev, <<w>>)
          /\ screen'[dev] = "saving"
          /\ form' = [form EXCEPT ![dev] = [form[dev] EXCEPT !.text = text, !.uid = id]]
          /\ id \in drawn' /\ drawn \subseteq drawn'
          /\ \/ w.kind = "create" /\ id \notin drawn /\ form[dev].uid = NewId
             \/ w.kind = "title" /\ id = form[dev].uid
        BY <1>0, <1>2, SavesDo
  <2>2. Seen(dev, key)' = IF w.key = key THEN After(w, Seen(dev, key)) ELSE Seen(dev, key)
        BY <1>0, <2>1, SeenQueued
  <2>3. form'[dev].uid = id
        BY <2>1 DEF TypeOK, Form
  <2>4. CASE w.kind = "title" \/ w.key # key
    <3>1. w.kind = "title" => After(w, Seen(dev, key)) = Seen(dev, key)
          BY AfterIs
    <3> QED BY <2>2, <2>4, <3>1
  <2>5. CASE w.kind = "create" /\ w.key = key
    <3>1. After(w, Seen(dev, key)) = Created
          BY <2>5, AfterIs DEF Created
    <3>2. key[2] \notin drawn
          BY <2>1, <2>5
    <3>3. Seen(dev, key) = NoDoc
          BY <3>2, UndrawnSeen
    <3> QED BY <2>1, <2>2, <2>3, <2>5, <3>1, <3>2, <3>3
  <2> QED BY <2>1, <2>4, <2>5
<1> QED BY <1>1, <1>2

(* The callback of a title: the project gets the posts of the form, if it  *)
(* is there and there are any.                                             *)
LEMMA SeenAcked ==
  ASSUME TypeOK, OneTitle, NEW dev \in Devices, TitleAcked(dev), NEW key \in Keys
  PROVE  /\ Seen(dev, key)'.there = Seen(dev, key).there
         /\ Seen(dev, key)'.posts =
              IF key = KeyOf(dev) /\ Seen(dev, key).there /\ form[dev].posts # {}
              THEN form[dev].posts ELSE Seen(dev, key).posts
<1>1. /\ form[dev].uid \in ProjectIds /\ form[dev].posts \subseteq Post /\ form[dev].text \in BOOLEAN
      /\ docs' = docs
      BY DEF TitleAcked, OneTitle, OneTitleOf, TypeOK, Form, server
<1>2. PICK a \in Writes : a = Write(dev, "text", form[dev].uid, {}) /\ a.kind = "text" /\ a.key = KeyOf(dev)
      BY <1>1, WriteIsTyped DEF KeyOf
<1>3. PICK b \in Writes : /\ b = Write(dev, "posts", form[dev].uid, form[dev].posts)
                          /\ b.kind = "posts" /\ b.key = KeyOf(dev) /\ b.posts = form[dev].posts
      BY <1>1, WriteIsTyped DEF KeyOf
<1>4. PICK q \in Seq(Writes), doc \in Doc : q = outbox[dev] /\ doc = docs[key]
      BY DEF TypeOK
<1>5. PICK A, B : /\ A = IF form[dev].text THEN <<a>> ELSE << >>
                  /\ B = IF form[dev].posts # {} THEN <<b>> ELSE << >>
      OBVIOUS
<1>6. A \in Seq(Writes) /\ B \in Seq(Writes) /\ q \o A \in Seq(Writes)
      BY <1>5
<1>7. outbox'[dev] = q \o (A \o B)
  <2>1. Queue(dev, A \o B)
        BY <1>2, <1>3, <1>5 DEF TitleAcked
  <2> QED BY <1>4, <2>1 DEF Queue, TypeOK
<1>8. outbox'[dev] = (q \o A) \o B
  <2>1. \A r \in Seq(Writes), a2 \in Seq(Writes), b2 \in Seq(Writes) :
          (r \o a2) \o b2 = r \o (a2 \o b2)
        BY ConcatAssociative
  <2>2. (q \o A) \o B = q \o (A \o B)
        BY <1>6, <2>1, Zenon
  <2> QED BY <1>7, <2>2, Zenon
<1>9. PICK s0, s1, s2 : s0 = Under(q, key, doc) /\ s1 = Under(q \o A, key, doc)
                        /\ s2 = Under((q \o A) \o B, key, doc)
      OBVIOUS
<1>10. s1 = IF key = KeyOf(dev) /\ form[dev].text /\ s0.there THEN [s0 EXCEPT !.text = TRUE] ELSE s0
  <2>1. CASE form[dev].text
    <3>1. s1 = IF a.key = key THEN After(a, s0) ELSE s0
          BY <1>5, <1>9, <2>1, UnderAppend
    <3>2. After(a, s0) = IF s0.there THEN [s0 EXCEPT !.text = TRUE] ELSE s0
          BY <1>2, AfterIs
    <3> QED BY <1>2, <2>1, <3>1, <3>2
  <2>2. CASE ~form[dev].text
        BY <1>5, <1>9, <2>2, ConcatEmptySeq
  <2> QED BY <2>1, <2>2
<1>11. s2 = IF key = KeyOf(dev) /\ form[dev].posts # {} /\ s1.there
            THEN [s1 EXCEPT !.posts = form[dev].posts] ELSE s1
  <2>1. CASE form[dev].posts # {}
    <3>0. PICK r \in Seq(Writes) : r = q \o A
          BY <1>6
    <3>a. Under(r \o <<b>>, key, doc) = IF b.key = key THEN After(b, Under(r, key, doc))
                                        ELSE Under(r, key, doc)
          BY UnderAppend
    <3>1. s2 = IF b.key = key THEN After(b, s1) ELSE s1
          BY <1>5, <1>9, <2>1, <3>0, <3>a
    <3>2. After(b, s1) = IF s1.there THEN [s1 EXCEPT !.posts = form[dev].posts] ELSE s1
          BY <1>3, AfterIs
    <3> QED BY <1>3, <2>1, <3>1, <3>2
  <2>2. CASE form[dev].posts = {}
        BY <1>5, <1>6, <1>9, <2>2, ConcatEmptySeq
  <2> QED BY <2>1, <2>2
<1>12. Seen(dev, key) = s0 /\ Seen(dev, key)' = s2
       BY <1>1, <1>4, <1>8, <1>9 DEF Seen
<1>13. s0 \in Doc
       BY <1>12, SeenIsTyped
<1>14. s1.there = s0.there /\ s1.posts = s0.posts /\ s1 \in Doc
       BY <1>10, <1>13 DEF Doc
<1>15. s2.there = s1.there /\ s2.posts = IF key = KeyOf(dev) /\ form[dev].posts # {} /\ s1.there
                                         THEN form[dev].posts ELSE s1.posts
       BY <1>11, <1>14 DEF Doc
<1> QED BY <1>12, <1>14, <1>15

(* A deleted project is gone for its device at once.                       *)
LEMMA SeenDeleted ==
  ASSUME TypeOK, NEW dev \in Devices, NEW id \in ProjectIds, NEW posts, DeleteProject(dev, id, posts),
         NEW key \in Keys
  PROVE  Seen(dev, key)' = IF key = <<AccountOf[dev], id>> THEN NoDoc ELSE Seen(dev, key)
<1>1. PICK w \in Writes : /\ w = Write(dev, "drop", id, {})
                          /\ w.kind = "drop" /\ w.key = <<AccountOf[dev], id>>
      BY WriteIsTyped
<1>2. Queue(dev, <<w>>) /\ docs' = docs
      BY <1>1 DEF DeleteProject, server
<1>3. Seen(dev, key)' = IF w.key = key THEN After(w, Seen(dev, key)) ELSE Seen(dev, key)
      BY <1>2, SeenQueued
<1>4. After(w, Seen(dev, key)) = NoDoc
      BY <1>1 DEF After
<1> QED BY <1>1, <1>3, <1>4

(* No other step of a device changes what it fetches.                      *)
LEMMA SeenElse ==
  ASSUME TypeOK, NEW dev \in Devices, NEW key \in Keys,
         \/ Opened(dev) \/ Edited(dev) \/ Cancelled(dev) \/ Uploaded(dev) \/ Removed(dev)
         \/ WriteReachesServer(dev) \/ AppKilled(dev) \/ Fetched(dev)
  PROVE  Seen(dev, key)' = Seen(dev, key)
<1>1. CASE WriteReachesServer(dev)
      BY <1>1, SeenSent
<1>2. CASE ~WriteReachesServer(dev)
  <2>1. outbox' = outbox /\ docs' = docs
        BY <1>2, FetchLeaves
           DEF Opened, OpenNew, OpenEdit, Edited, PhotoPicked, PostRemoved, Cancelled, server,
                    Uploaded, PhotoPut, PhotoLinked, AppKilled, Removed, FileRemoved
  <2> QED BY <2>1, SeenStays
<1> QED BY <1>1, <1>2

(* Nobody has two devices.                                                 *)
OwnDevices == \A a, b \in Devices : AccountOf[a] = AccountOf[b] => a = b

(* Then a step of another device changes nothing of a device's projects.   *)
LEMMA SeenByOthers ==
  ASSUME StoreInv, OwnDevices, NEW dev \in Devices, Steps(dev), NEW d \in Devices, d # dev,
         NEW key \in Keys, key[1] = AccountOf[d]
  PROVE  Seen(d, key)' = Seen(d, key) /\ wanted'[key] = wanted[key]
<1>0. TypeOK /\ OwnWork /\ OneTitle
      BY DEF StoreInv
<1>1. outbox'[d] = outbox[d]
      BY <1>0, OthersKeep
<1>2. key[1] # AccountOf[dev]
      BY DEF OwnDevices
<1>3. docs'[key] = docs[key]
  <2>1. CASE WriteReachesServer(dev)
    <3>1. outbox[dev] \in Seq(Writes) /\ outbox[dev] # << >>
          BY <1>0, <2>1 DEF WriteReachesServer, TypeOK
    <3>2. Head(outbox[dev]) = outbox[dev][1] /\ 1 \in 1..Len(outbox[dev])
          BY <3>1, QueueShrinks
    <3>3. Head(outbox[dev]).key # key
          BY <1>0, <1>2, <3>2 DEF OwnWork
    <3> QED BY <1>0, <2>1, <3>3 DEF WriteReachesServer, TypeOK
  <2>2. CASE ~WriteReachesServer(dev)
        BY <2>2, FetchLeaves
           DEF Steps, Opened, OpenNew, OpenEdit, Edited, PhotoPicked, PostRemoved, Cancelled,
                    SaveTapped, Deleted, DeleteFromEditor, DeleteFromFeed, DeleteProject, Uploaded,
                    PhotoPut, PhotoLinked, UploadsDone, TitleAcked, Removed, FileRemoved, AppKilled,
                    server
  <2> QED BY <2>1, <2>2
<1>4. wanted'[key] = wanted[key]
  <2>1. CASE TitleAcked(dev)
    <3>1. key # <<AccountOf[dev], form[dev].uid>>
          BY <1>2
    <3> QED BY <1>0, <2>1, <3>1 DEF TitleAcked, TypeOK
  <2>2. CASE ~TitleAcked(dev)
        BY <2>2, FetchLeaves
           DEF Steps, Opened, OpenNew, OpenEdit, Edited, PhotoPicked, PostRemoved, Cancelled,
                    SaveTapped, Deleted, DeleteFromEditor, DeleteFromFeed, DeleteProject, Uploaded,
                    PhotoPut, PhotoLinked, UploadsDone, Removed, FileRemoved, WriteReachesServer,
                    AppKilled
  <2> QED BY <2>1, <2>2
<1> QED BY <1>1, <1>3, <1>4, SeenStays

(* Each step keeps what devices fetch of their projects in line with what  *)
(* was last saved.                                                         *)
LEMMA StepSavesShow ==
  ASSUME ArrivalInv, OwnDevices, [Next]_vars
  PROVE  SavesShow'
<1>0. StoreInv /\ TypeOK /\ OneTitle /\ OwnWork /\ NamesDrawn /\ SavesShow
      BY DEF ArrivalInv, StoreInv
<1> SUFFICES ASSUME NEW d \in Devices, NEW key \in Keys, key[1] = AccountOf[d]
             PROVE  Seen(d, key)'.there /\ wanted'[key] # {} => Seen(d, key)'.posts = wanted'[key]
    BY DEF SavesShow
<1> DEFINE Goal == Seen(d, key)'.there /\ wanted'[key] # {} => Seen(d, key)'.posts = wanted'[key]
<1>1. Seen(d, key).there /\ wanted[key] # {} => Seen(d, key).posts = wanted[key]
      BY <1>0 DEF SavesShow
<1>2. ASSUME Seen(d, key)' = Seen(d, key), wanted'[key] = wanted[key]
      PROVE  Goal
      BY <1>1, <1>2
<1>3. ASSUME UNCHANGED vars
      PROVE  Goal
  <2>1. outbox' = outbox /\ docs' = docs /\ wanted' = wanted
        BY <1>3 DEF vars
  <2> QED BY <1>2, <2>1, SeenStays
<1>4. ASSUME NEW dev \in Devices, Steps(dev), dev # d
      PROVE  Goal
      BY <1>0, <1>2, <1>4, SeenByOthers
<1>5. ASSUME Steps(d), ~TitleAcked(d)
      PROVE  wanted' = wanted
      BY <1>5, FetchLeaves
         DEF Steps, Opened, OpenNew, OpenEdit, Edited, PhotoPicked, PostRemoved, Cancelled,
                  SaveTapped, Deleted, DeleteFromEditor, DeleteFromFeed, DeleteProject, Uploaded,
                  PhotoPut, PhotoLinked, UploadsDone, Removed, FileRemoved, WriteReachesServer,
                  AppKilled
<1>6. ASSUME SaveTapped(d) \/ UploadsDone(d), wanted' = wanted
      PROVE  Goal
  <2>1. CASE Seen(d, key)' = Seen(d, key)
        BY <1>2, <1>6, <2>1
  <2>2. CASE key[2] \notin drawn
        BY <1>0, <1>6, <2>2 DEF NamesDrawn
  <2> QED BY <1>0, <1>6, <2>1, <2>2, SeenSaving
<1>7. ASSUME TitleAcked(d)
      PROVE  Goal
  <2>1. /\ Seen(d, key)'.there = Seen(d, key).there
        /\ Seen(d, key)'.posts =
             IF key = KeyOf(d) /\ Seen(d, key).there /\ form[d].posts # {}
             THEN form[d].posts ELSE Seen(d, key).posts
        BY <1>0, <1>7, SeenAcked
  <2>2. wanted'[key] = IF key = KeyOf(d) THEN form[d].posts ELSE wanted[key]
        BY <1>0, <1>7 DEF TitleAcked, TypeOK, KeyOf
  <2> QED BY <1>1, <2>1, <2>2
<1>8. ASSUME NEW id \in ProjectIds, NEW posts, DeleteProject(d, id, posts), wanted' = wanted
      PROVE  Goal
  <2>1. Seen(d, key)' = NoDoc \/ Seen(d, key)' = Seen(d, key)
        BY <1>0, <1>8, SeenDeleted
  <2> QED BY <1>2, <1>8, <2>1 DEF NoDoc
<1>9. ASSUME Deleted(d), wanted' = wanted
      PROVE  Goal
  <2>1. ASSUME NEW k \in Keys, DeleteFromFeed(d, k)
        PROVE  Goal
        BY <1>8, <1>9, <2>1 DEF DeleteFromFeed, Keys
  <2>2. ASSUME DeleteFromEditor(d)
        PROVE  Goal
    <3>1. form[d].uid \in ProjectIds
          BY <1>0, <2>2 DEF DeleteFromEditor, TypeOK, Form
    <3> QED BY <1>8, <1>9, <2>2, <3>1 DEF DeleteFromEditor
  <2> QED BY <1>9, <2>1, <2>2 DEF Deleted
<1>10. ASSUME Steps(d), ~SaveTapped(d), ~UploadsDone(d), ~TitleAcked(d), ~Deleted(d)
       PROVE  Goal
  <2>1. Seen(d, key)' = Seen(d, key)
        BY <1>0, <1>10, SeenElse DEF Steps
  <2> QED BY <1>2, <1>5, <1>10, <2>1
<1> HIDE DEF Goal
<1>11. Goal
       BY <1>3, <1>4, <1>5, <1>6, <1>7, <1>9, <1>10 DEF Next
<1> QED BY <1>11 DEF Goal

(* Init establishes the invariant.                                         *)
LEMMA InitArrivalInv == Init => ArrivalInv
<1> SUFFICES ASSUME Init PROVE ArrivalInv
    OBVIOUS
<1>1. StoreInv
      BY InitStoreInv
<1>2. Len(<< >>) = 0
      OBVIOUS
<1>3. NamesDrawn
      BY <1>2 DEF Init, NamesDrawn, NoForm, Nothing, NoDoc
<1>4. SavesShow
      BY DEF Init, SavesShow
<1> QED BY <1>1, <1>3, <1>4 DEF ArrivalInv

(* Each step preserves it.                                                 *)
LEMMA StepArrivalInv ==
  ASSUME OwnDevices, ArrivalInv, [Next]_vars
  PROVE  ArrivalInv'
<1>1. StoreInv /\ NamesDrawn
      BY DEF ArrivalInv
<1> QED BY <1>1, StepStoreInv, StepNamesDrawn, StepSavesShow DEF ArrivalInv

(* A device with an empty queue fetches what is on the server.             *)
LEMMA QuietSeen ==
  ASSUME TypeOK, NEW dev \in Devices, outbox[dev] = << >>, NEW key \in Keys
  PROVE  Seen(dev, key) = docs[key]
<1>1. PICK q, doc : q = outbox[dev] /\ doc = docs[key] /\ doc \in Doc
      BY DEF TypeOK
<1>2. \A kinds : Waiting(q, key, kinds) = {}
  <2>1. Len(<< >>) = 0
        OBVIOUS
  <2> QED BY <1>1, <2>1 DEF Waiting
<1>3. Latest({}) = {} /\ Later({}, {}) = {}
      BY DEF Latest, Later
<1>4. Base(q, {}, doc) = doc
      BY DEF Base
<1>5. Under(q, key, doc) = Overlay(q, doc, {}, {})
  <2>1. PICK start : start = Latest(Waiting(q, key, {"create", "drop"}))
        OBVIOUS
  <2>2. Under(q, key, doc) = Overlay(q, Base(q, start, doc), Later(Waiting(q, key, {"text"}), start),
                                     Later(Waiting(q, key, {"posts"}), start))
        BY <2>1, UnderIs
  <2>3. start = {} /\ Waiting(q, key, {"text"}) = {} /\ Waiting(q, key, {"posts"}) = {}
        BY <1>2, <1>3, <2>1
  <2> QED BY <1>3, <1>4, <2>2, <2>3
<1>6. Under(q, key, doc) = doc
      BY <1>1, <1>5, OverlayNone
<1> QED BY <1>1, <1>6 DEF Seen

(* Where no user has two devices, whatever calls fail, apps are killed and *)
(* projects deleted: the names in use were drawn, and a device fetches its *)
(* projects with the posts of the last save.                               *)
THEOREM ArrivalInvariant ==
  ASSUME OwnDevices
  PROVE  Spec => []ArrivalInv
<1>1. ArrivalInv /\ [Next]_vars => ArrivalInv'
      BY StepArrivalInv
<1> QED BY <1>1, InitArrivalInv, PTL DEF Spec

(* So a project comes to rest with the posts that it was last saved with.  *)
THEOREM SavedPostsDoArrive ==
  ASSUME OwnDevices
  PROVE  Spec => []SavedPostsArrive
<1>1. ASSUME ArrivalInv
      PROVE  SavedPostsArrive
  <2>0. TypeOK /\ NamesDrawn /\ SavesShow
        BY <1>1 DEF ArrivalInv, StoreInv
  <2> SUFFICES ASSUME Quiet, NEW key \in Keys, docs[key].there, wanted[key] # {}
               PROVE  docs[key].posts = wanted[key]
      BY DEF SavedPostsArrive
  <2>1. PICK dev \in Devices : AccountOf[dev] = key[1]
        BY <2>0 DEF NamesDrawn
  <2>2. Seen(dev, key) = docs[key]
        BY <2>0, QuietSeen DEF Quiet
  <2> QED BY <2>0, <2>1, <2>2 DEF SavesShow
<1>2. ArrivalInv => SavedPostsArrive
      BY <1>1
<1> QED BY <1>2, ArrivalInvariant, PTL

-----------------------------------------------------------------------------
(* One device, no failure, no kill and no deletion from the editor.        *)
Calm == /\ \E dev \in Devices : Devices = {dev}
        /\ ~CallsFail /\ MaxKills = 0 /\ DeletesFrom \subseteq {"feed"}

(* A photo is linked by posts if one of them has its link.                 *)
LEMMA LinksAre ==
  ASSUME NEW posts, NEW f
  PROVE  f \in Links(posts) <=> \E p \in posts : p.linked /\ p.photo = f
BY DEF Links

(* No post, no link.                                                       *)
LEMMA NoLinks == Links({}) = {} /\ Links(NoDoc.posts) = {} /\ Links(Created.posts) = {}
BY DEF Links, NoDoc, Created

(* A photo that is picked joins the editor's posts, without a link.        *)
LEMMA PickedForm ==
  ASSUME TypeOK, NEW dev \in Devices, NEW name \in Photos, PhotoPicked(dev, name)
  PROVE  /\ form'[dev].uid = form[dev].uid /\ form'[dev].up = form[dev].up
         /\ form'[dev].trash = form[dev].trash /\ form[dev].fresh \subseteq form'[dev].fresh
         /\ Links(form'[dev].posts) = Links(form[dev].posts)
         /\ screen[dev] = "editing" /\ screen' = screen /\ files' = files /\ removing' = removing
<1>1. form \in [Devices -> Form] /\ form[dev] \in Form
      BY DEF TypeOK
<1> DEFINE p == [photo |-> FileOf(dev, name), linked |-> FALSE]
<1>2. form' = [form EXCEPT ![dev] = [form[dev] EXCEPT !.posts = form[dev].posts \cup {p},
                                                      !.fresh = form[dev].fresh \cup {FileOf(dev, name)}]]
      BY DEF PhotoPicked
<1>3. ~p.linked
      OBVIOUS
<1> HIDE DEF p
<1>4. /\ form'[dev].uid = form[dev].uid /\ form'[dev].up = form[dev].up
      /\ form'[dev].trash = form[dev].trash /\ form[dev].fresh \subseteq form'[dev].fresh
      /\ form'[dev].posts = form[dev].posts \cup {p}
      BY <1>1, <1>2 DEF Form
<1>5. Links(form[dev].posts \cup {p}) = Links(form[dev].posts)
      BY <1>3 DEF Links
<1> QED BY <1>4, <1>5 DEF PhotoPicked, server

(* A post that is removed takes no link along but its own, whose photo is  *)
(* remembered.                                                             *)
LEMMA RemovedForm ==
  ASSUME TypeOK, NEW dev \in Devices, NEW p \in form[dev].posts, PostRemoved(dev, p)
  PROVE  /\ form'[dev].uid = form[dev].uid /\ form'[dev].up = form[dev].up
         /\ form[dev].trash \subseteq form'[dev].trash
         /\ \A f \in Links(form[dev].posts) : f \in Links(form'[dev].posts) \/ f[2] \in form'[dev].trash
         /\ screen[dev] = "editing" /\ screen' = screen /\ files' = files /\ removing' = removing
<1>1. form \in [Devices -> Form] /\ form[dev] \in Form
      BY DEF TypeOK
<1>2. PICK trash : trash = IF p.linked THEN form[dev].trash \cup {p.photo[2]} ELSE form[dev].trash
      OBVIOUS
<1>3. form' = [form EXCEPT ![dev] = [form[dev] EXCEPT !.posts = form[dev].posts \ {p},
                                                      !.fresh = form[dev].fresh \ {p.photo},
                                                      !.trash = trash]]
      BY <1>2 DEF PostRemoved
<1>4. /\ form'[dev].uid = form[dev].uid /\ form'[dev].up = form[dev].up
      /\ form'[dev].trash = trash /\ form'[dev].posts = form[dev].posts \ {p}
      BY <1>1, <1>3 DEF Form
<1>5. ASSUME NEW f \in Links(form[dev].posts)
      PROVE  f \in Links(form[dev].posts \ {p}) \/ f[2] \in trash
  <2>1. PICK r \in form[dev].posts : r.linked /\ r.photo = f
        BY LinksAre
  <2>2. CASE r = p
        BY <1>2, <2>1, <2>2
  <2>3. CASE r # p
    <3>1. r \in form[dev].posts \ {p}
          BY <2>3
    <3> QED BY <2>1, <3>1, LinksAre
  <2> QED BY <2>2, <2>3
<1> QED BY <1>2, <1>4, <1>5 DEF PostRemoved, server, counters

(* A photo that is stored is the one being uploaded.                       *)
LEMMA PutForm ==
  ASSUME TypeOK, ~CallsFail, NEW dev \in Devices, NEW f \in form[dev].fresh, PhotoPut(dev, f)
  PROVE  /\ form'[dev].uid = form[dev].uid /\ form'[dev].posts = form[dev].posts
         /\ form'[dev].fresh = form[dev].fresh /\ form'[dev].trash = form[dev].trash
         /\ form[dev].up = {} /\ form'[dev].up = {f} /\ files' = files \cup {f}
         /\ screen[dev] = "uploading" /\ screen' = screen /\ removing' = removing
<1>1. form \in [Devices -> Form] /\ form[dev] \in Form
      BY DEF TypeOK
<1>2. form' = [form EXCEPT ![dev] = [form[dev] EXCEPT !.up = {f}]]
      BY DEF PhotoPut
<1>3. /\ form'[dev].uid = form[dev].uid /\ form'[dev].posts = form[dev].posts
      /\ form'[dev].fresh = form[dev].fresh /\ form'[dev].trash = form[dev].trash
      /\ form'[dev].up = {f}
      BY <1>1, <1>2 DEF Form
<1> QED BY <1>3 DEF PhotoPut

(* Its link is the one more in the editor's posts.                         *)
LEMMA LinkedForm ==
  ASSUME TypeOK, ~CallsFail, NEW dev \in Devices, NEW f \in form[dev].fresh, PhotoLinked(dev, f)
  PROVE  /\ form'[dev].uid = form[dev].uid /\ form'[dev].trash = form[dev].trash
         /\ f \in form[dev].up /\ form'[dev].up = {}
         /\ f \in Links(form'[dev].posts) /\ Links(form[dev].posts) \subseteq Links(form'[dev].posts)
         /\ screen[dev] = "uploading" /\ screen' = screen /\ files' = files /\ removing' = removing
<1>1. form \in [Devices -> Form] /\ form[dev] \in Form
      BY DEF TypeOK
<1> DEFINE p == [photo |-> f, linked |-> TRUE]
<1>2. PICK posts : posts = {q \in form[dev].posts : q.photo # f} \cup {p}
      OBVIOUS
<1>3. form' = [form EXCEPT ![dev] = [form[dev] EXCEPT !.posts = posts,
                                                      !.fresh = form[dev].fresh \ {f}, !.up = {}]]
      BY <1>2 DEF PhotoLinked
<1>4. /\ form'[dev].uid = form[dev].uid /\ form'[dev].trash = form[dev].trash
      /\ form'[dev].up = {} /\ form'[dev].posts = posts
      BY <1>1, <1>3 DEF Form
<1>5. f \in Links(posts)
  <2>1. p \in posts /\ p.linked /\ p.photo = f
        BY <1>2
  <2> QED BY <2>1, LinksAre
<1>6. ASSUME NEW g \in Links(form[dev].posts)
      PROVE  g \in Links(posts)
  <2>1. PICK q \in form[dev].posts : q.linked /\ q.photo = g
        BY LinksAre
  <2>2. CASE g # f
    <3>1. q \in posts
          BY <1>2, <2>1, <2>2
    <3> QED BY <2>1, <3>1, LinksAre
  <2> QED BY <1>5, <2>2
<1> QED BY <1>4, <1>5, <1>6 DEF PhotoLinked, server

(* What a save makes of the form and of what its device fetches: the form  *)
(* keeps its photos, and if it gets a name, the project is there at once.  *)
LEMMA SavingForm ==
  ASSUME TypeOK, NamesDrawn, NEW dev \in Devices, SaveTapped(dev) \/ UploadsDone(dev)
  PROVE  /\ form'[dev].posts = form[dev].posts /\ form'[dev].fresh = form[dev].fresh
         /\ form'[dev].up = form[dev].up /\ screen'[dev] \in Busy /\ files' = files
         /\ \/ /\ form'[dev].uid = form[dev].uid
               /\ \A key \in Keys : Seen(dev, key)' = Seen(dev, key)
            \/ /\ form[dev].uid = NewId
               /\ \E new \in Keys : /\ new = <<AccountOf[dev], form'[dev].uid>>
                                    /\ Seen(dev, new) = NoDoc /\ Seen(dev, new)' = Created
                                    /\ \A key \in Keys \ {new} : Seen(dev, key)' = Seen(dev, key)
<1>0. /\ form \in [Devices -> Form] /\ form[dev] \in Form /\ form[dev].uid \in drawn \cup {NewId}
      /\ files' = files /\ docs' = docs
      BY DEF TypeOK, NamesDrawn, SaveTapped, UploadsDone, server
<1>1. ASSUME NEW text \in BOOLEAN, form' = [form EXCEPT ![dev] = [form[dev] EXCEPT !.text = text]]
      PROVE  /\ form'[dev].posts = form[dev].posts /\ form'[dev].fresh = form[dev].fresh
             /\ form'[dev].up = form[dev].up /\ form'[dev].uid = form[dev].uid
      BY <1>0, <1>1 DEF Form
<1>2. ASSUME NEW text \in BOOLEAN, NEW id \in ProjectIds,
             form' = [form EXCEPT ![dev] = [form[dev] EXCEPT !.text = text, !.uid = id]]
      PROVE  /\ form'[dev].posts = form[dev].posts /\ form'[dev].fresh = form[dev].fresh
             /\ form'[dev].up = form[dev].up /\ form'[dev].uid = id
      BY <1>0, <1>2 DEF Form
<1>3. CASE /\ outbox' = outbox /\ drawn' = drawn /\ screen'[dev] = "uploading"
           /\ \E text \in BOOLEAN : form' = [form EXCEPT ![dev] = [form[dev] EXCEPT !.text = text]]
  <2>1. \A key \in Keys : Seen(dev, key)' = Seen(dev, key)
        BY <1>0, <1>3, SeenStays
  <2> QED BY <1>0, <1>1, <1>3, <2>1 DEF Busy
<1>4. ASSUME NEW text \in BOOLEAN, NEW id \in ProjectIds, NEW w \in Writes,
             w.key = <<AccountOf[dev], id>>, w.key \in Keys, Queue(dev, <<w>>),
             screen'[dev] = "saving",
             form' = [form EXCEPT ![dev] = [form[dev] EXCEPT !.text = text, !.uid = id]],
             \/ w.kind = "create" /\ id \notin drawn /\ form[dev].uid = NewId
             \/ w.kind = "title" /\ id = form[dev].uid
      PROVE  /\ form'[dev].posts = form[dev].posts /\ form'[dev].fresh = form[dev].fresh
             /\ form'[dev].up = form[dev].up /\ screen'[dev] \in Busy
             /\ \/ /\ form'[dev].uid = form[dev].uid
                   /\ \A key \in Keys : Seen(dev, key)' = Seen(dev, key)
                \/ /\ form[dev].uid = NewId
                   /\ \E new \in Keys :
                        /\ new = <<AccountOf[dev], form'[dev].uid>>
                        /\ Seen(dev, new) = NoDoc /\ Seen(dev, new)' = Created
                        /\ \A key \in Keys \ {new} : Seen(dev, key)' = Seen(dev, key)
  <2>1. /\ form'[dev].posts = form[dev].posts /\ form'[dev].fresh = form[dev].fresh
        /\ form'[dev].up = form[dev].up /\ form'[dev].uid = id
        BY <1>2, <1>4
  <2>2. screen'[dev] \in Busy
        BY <1>4 DEF Busy
  <2>3. \A key \in Keys : Seen(dev, key)' = IF w.key = key THEN After(w, Seen(dev, key))
                                            ELSE Seen(dev, key)
        BY <1>0, <1>4, SeenQueued
  <2>4. CASE w.kind = "title" /\ id = form[dev].uid
    <3>1. \A doc : After(w, doc) = doc
          BY <2>4, AfterIs
    <3>2. \A key \in Keys : Seen(dev, key)' = Seen(dev, key)
          BY <2>3, <3>1
    <3> QED BY <2>1, <2>2, <2>4, <3>2
  <2>5. CASE w.kind = "create" /\ id \notin drawn /\ form[dev].uid = NewId
    <3>1. PICK new \in Keys : new = w.key
          BY <1>4
    <3>2. new = <<AccountOf[dev], form'[dev].uid>> /\ new[2] \notin drawn
          BY <1>4, <2>1, <2>5, <3>1
    <3>3. Seen(dev, new) = NoDoc
          BY <3>2, UndrawnSeen
    <3>4. Seen(dev, new)' = Created
      <4>1. \A doc : After(w, doc) = Created
            BY <2>5, AfterIs DEF Created
      <4> QED BY <2>3, <3>1, <4>1
    <3>5. \A key \in Keys \ {new} : Seen(dev, key)' = Seen(dev, key)
          BY <2>3, <3>1
    <3> QED BY <2>1, <2>2, <2>5, <3>2, <3>3, <3>4, <3>5
  <2> QED BY <1>4, <2>4, <2>5
<1>5. \/ /\ outbox' = outbox /\ drawn' = drawn /\ screen'[dev] = "uploading"
         /\ \E text \in BOOLEAN : form' = [form EXCEPT ![dev] = [form[dev] EXCEPT !.text = text]]
      \/ \E text \in BOOLEAN, id \in ProjectIds, w \in Writes :
            /\ w.key = <<AccountOf[dev], id>> /\ w.key \in Keys /\ Queue(dev, <<w>>)
            /\ screen'[dev] = "saving"
            /\ form' = [form EXCEPT ![dev] = [form[dev] EXCEPT !.text = text, !.uid = id]]
            /\ id \in drawn' /\ drawn \subseteq drawn'
            /\ \/ w.kind = "create" /\ id \notin drawn /\ form[dev].uid = NewId
               \/ w.kind = "title" /\ id = form[dev].uid
      BY <1>0, SavesDo
<1> QED BY <1>0, <1>3, <1>4, <1>5

(* The form goes when the editor is opened anew or left, and when its save *)
(* or a deletion is through.                                               *)
LEMMA FormGoes ==
  ASSUME TypeOK, NEW dev \in Devices,
         OpenNew(dev) \/ Cancelled(dev) \/ TitleAcked(dev) \/ Deleted(dev)
  PROVE  form'[dev] = NoForm /\ screen'[dev] \notin Busy /\ files' = files
BY DEF OpenNew, Cancelled, TitleAcked, Deleted, DeleteFromEditor, DeleteFromFeed, DeleteProject,
       TypeOK, Busy, server

(* With one device, a project that it finds is its user's.                 *)
LEMMA FoundIsOwn ==
  ASSUME TypeOK, OwnWork, NamesDrawn, NEW dev \in Devices, Devices = {dev}, NEW key \in Keys,
         Seen(dev, key) # NoDoc
  PROVE  key[1] = AccountOf[dev]
<1> SUFFICES ASSUME key[1] # AccountOf[dev]
             PROVE  FALSE
    OBVIOUS
<1>1. docs[key] = NoDoc /\ NoDoc \in Doc
      BY DEF NamesDrawn, NoDoc, Doc
<1>2. \A kinds : Waiting(outbox[dev], key, kinds) = {}
      BY DEF OwnWork, Waiting
<1>3. Latest({}) = {} /\ Later({}, {}) = {}
      BY DEF Latest, Later
<1>4. Base(outbox[dev], {}, NoDoc) = NoDoc
      BY DEF Base
<1>5. Under(outbox[dev], key, NoDoc) = Overlay(outbox[dev], NoDoc, {}, {})
      BY <1>2, <1>3, <1>4, UnderIs
<1>6. Under(outbox[dev], key, NoDoc) = NoDoc
      BY <1>1, <1>5, OverlayNone
<1> QED BY <1>1, <1>6 DEF Seen

(* Each step keeps at most one photo being uploaded, ...                   *)
LEMMA StepOneUpload ==
  ASSUME Calm, ArrivalInv, OneUpload, [Next]_vars
  PROVE  OneUpload'
<1>0. TypeOK /\ NamesDrawn /\ OwnWork
      BY DEF ArrivalInv, StoreInv
<1>1. PICK dev \in Devices : Devices = {dev}
      BY DEF Calm
<1> DEFINE Goal == /\ \A f \in files' : f[1] = AccountOf[dev]
                   /\ form'[dev].up \subseteq form'[dev].fresh
                   /\ \A f, g \in form'[dev].up : f = g
                   /\ screen'[dev] # "uploading" => form'[dev].up = {}
<1> SUFFICES Goal
    BY <1>1 DEF OneUpload
<1>2. /\ \A f \in files : f[1] = AccountOf[dev]
      /\ form[dev].up \subseteq form[dev].fresh
      /\ \A f, g \in form[dev].up : f = g
      /\ screen[dev] # "uploading" => form[dev].up = {}
      BY DEF OneUpload
<1>3. ASSUME files' \subseteq files, form'[dev] = form[dev], screen'[dev] = screen[dev]
      PROVE  Goal
      BY <1>2, <1>3
<1>4. CASE UNCHANGED vars
      BY <1>3, <1>4 DEF vars
<1>5. ASSUME OpenNew(dev) \/ Cancelled(dev) \/ TitleAcked(dev) \/ Deleted(dev)
      PROVE  Goal
  <2>1. form'[dev] = NoForm /\ files' = files
        BY <1>0, <1>5, FormGoes
  <2> QED BY <1>2, <2>1 DEF NoForm
<1>6. ASSUME NEW key \in Keys, OpenEdit(dev, key)
      PROVE  Goal
  <2>1. form'[dev].up = {} /\ files' = files
        BY <1>0, <1>6 DEF OpenEdit, NoForm, TypeOK, server
  <2> QED BY <1>2, <2>1
<1>7. ASSUME NEW name \in Photos, PhotoPicked(dev, name)
      PROVE  Goal
      BY <1>0, <1>2, <1>7, PickedForm
<1>8. ASSUME NEW p \in form[dev].posts, PostRemoved(dev, p)
      PROVE  Goal
      BY <1>0, <1>2, <1>8, RemovedForm
<1>9. ASSUME SaveTapped(dev) \/ UploadsDone(dev)
      PROVE  Goal
  <2>1. /\ form'[dev].fresh = form[dev].fresh /\ form'[dev].up = form[dev].up /\ files' = files
        BY <1>0, <1>9, SavingForm
  <2>2. form[dev].up = {}
        BY <1>2, <1>9 DEF SaveTapped, UploadsDone
  <2> QED BY <1>2, <2>1, <2>2
<1>10. ASSUME NEW f \in form[dev].fresh, PhotoPut(dev, f)
       PROVE  Goal
  <2>1. /\ form'[dev].fresh = form[dev].fresh /\ form'[dev].up = {f} /\ files' = files \cup {f}
        /\ screen[dev] = "uploading" /\ screen' = screen
        BY <1>0, <1>10, PutForm DEF Calm
  <2>2. f[1] = AccountOf[dev]
        BY <1>0 DEF OwnWork
  <2> QED BY <1>2, <2>1, <2>2
<1>11. ASSUME NEW f \in form[dev].fresh, PhotoLinked(dev, f)
       PROVE  Goal
  <2>1. form'[dev].up = {} /\ files' = files
        BY <1>0, <1>11, LinkedForm DEF Calm
  <2> QED BY <1>2, <2>1
<1>12. ASSUME Removed(dev) \/ WriteReachesServer(dev) \/ Fetched(dev)
       PROVE  Goal
  <2>1. files' \subseteq files /\ form' = form /\ screen' = screen
        BY <1>12, FetchLeaves DEF Removed, FileRemoved, WriteReachesServer
  <2> QED BY <1>3, <2>1
<1>13. ~AppKilled(dev)
       BY <1>0 DEF Calm, AppKilled, TypeOK
<1> HIDE DEF Goal
<1> QED BY <1>1, <1>4, <1>5, <1>6, <1>7, <1>8, <1>9, <1>10, <1>11, <1>12, <1>13
        DEF Next, Steps, Opened, Edited, Uploaded

(* A project is there until its device deletes it, ...                     *)
LEMMA StaysThere ==
  ASSUME TypeOK, OneTitle, NamesDrawn, NEW dev \in Devices, NEW key \in Keys,
         Steps(dev) \/ UNCHANGED vars, ~AppKilled(dev), screen'[dev] # "deleting"
  PROVE  screen[dev] # "deleting" /\ (Seen(dev, key).there => Seen(dev, key)'.there)
<1>1. CASE UNCHANGED vars
  <2>1. outbox' = outbox /\ docs' = docs /\ screen' = screen
        BY <1>1 DEF vars
  <2> QED BY <2>1, SeenStays
<1>2. CASE SaveTapped(dev) \/ UploadsDone(dev)
  <2>1. screen[dev] # "deleting"
        BY <1>2 DEF SaveTapped, UploadsDone
  <2> QED BY <1>2, <2>1, SeenSaving DEF Created
<1>3. CASE TitleAcked(dev)
  <2>1. screen[dev] # "deleting"
        BY <1>3 DEF TitleAcked, OneTitle, OneTitleOf
  <2> QED BY <1>3, <2>1, SeenAcked
<1>4. ~Deleted(dev)
      BY DEF Deleted, DeleteFromEditor, DeleteFromFeed, DeleteProject, TypeOK
<1>5. CASE Removed(dev) \/ WriteReachesServer(dev) \/ Fetched(dev)
  <2>1. screen' = screen
        BY <1>5, FetchLeaves DEF Removed, FileRemoved, WriteReachesServer
  <2> QED BY <1>5, <2>1, SeenElse
<1>6. CASE Opened(dev) \/ Edited(dev) \/ Cancelled(dev) \/ Uploaded(dev)
  <2>1. screen[dev] # "deleting"
        BY <1>6 DEF Opened, OpenNew, OpenEdit, Edited, PhotoPicked, PostRemoved, Cancelled,
                    Uploaded, PhotoPut, PhotoLinked
  <2> QED BY <1>6, <2>1, SeenElse
<1> QED BY <1>1, <1>2, <1>3, <1>4, <1>5, <1>6 DEF Steps

(* ... so the feed, however old, shows only projects that are there, ...   *)
LEMMA StepRowsExist ==
  ASSUME Calm, ArrivalInv, RowsExist, [Next]_vars
  PROVE  RowsExist'
<1>0. TypeOK /\ NamesDrawn /\ OneTitle
      BY DEF ArrivalInv, StoreInv
<1>1. PICK dev \in Devices : Devices = {dev}
      BY DEF Calm
<1> SUFFICES ASSUME NEW key \in Keys, screen'[dev] # "deleting", ~Seen(dev, key)'.there
             PROVE  ~rows'[dev][key].there /\ \A n \in Fetches : ~answers'[dev][n][key].there
    BY <1>1 DEF RowsExist, Seen
<1>2. ~AppKilled(dev)
      BY <1>0 DEF Calm, AppKilled, TypeOK
<1>3. Steps(dev) \/ UNCHANGED vars
      BY <1>1 DEF Next
<1>4. screen[dev] # "deleting" /\ ~Seen(dev, key).there
      BY <1>0, <1>2, <1>3, StaysThere
<1>5. ~rows[dev][key].there /\ \A n \in Fetches : ~answers[dev][n][key].there
      BY <1>4 DEF RowsExist
<1>6. RowStep(dev, key) /\ \A n \in Fetches : AnswerStep(dev, n, key)
      BY <1>0, FetchEffect DEF FetchStep
<1>7. ~rows'[dev][key].there
      BY <1>5, <1>6 DEF RowStep, NoDoc
<1>8. \A n \in Fetches : ~answers'[dev][n][key].there
      BY <1>4, <1>5, <1>6 DEF AnswerStep, NoDoc
<1> QED BY <1>7, <1>8

(* What was overlooked stays so.                                           *)
LEMMA StaysOverlooked ==
  ASSUME [Next]_vars
  PROVE  overlooked \subseteq overlooked'
<1>1. ASSUME NEW dev \in Devices, Steps(dev)
      PROVE  overlooked \subseteq overlooked'
      BY <1>1, FetchLeaves
         DEF Steps, Opened, OpenNew, OpenEdit, Edited, PhotoPicked, PostRemoved, Cancelled,
             SaveTapped, Deleted, DeleteFromEditor, DeleteFromFeed, Uploaded, PhotoPut,
             PhotoLinked, UploadsDone, TitleAcked, Removed, FileRemoved, WriteReachesServer,
             AppKilled
<1> QED BY <1>1 DEF Next, vars

(* ... the editor's project is there, with no photo the editor forgot      *)
(* unless its row was old, ...                                             *)
LEMMA StepEditorKnows ==
  ASSUME Calm, ArrivalInv, RowsExist, EditorKnows, [Next]_vars
  PROVE  EditorKnows'
<1>0. TypeOK /\ NamesDrawn /\ OwnWork
      BY DEF ArrivalInv, StoreInv
<1>1. PICK dev \in Devices : Devices = {dev}
      BY DEF Calm
<1> DEFINE Found(key) == key \in Keys /\ key = KeyOf(dev) /\ Seen(dev, key).there
           Known(key) == \A f \in Links(Seen(dev, key).posts) :
                           \/ f \in Links(form[dev].posts) \/ f[2] \in form[dev].trash
                           \/ f \in overlooked
           Goal == form'[dev].uid # NewId =>
                     \E key \in Keys :
                       /\ key = <<AccountOf[dev], form'[dev].uid>> /\ Seen(dev, key)'.there
                       /\ screen'[dev] = "editing" =>
                            \A f \in Links(Seen(dev, key)'.posts) :
                              \/ f \in Links(form'[dev].posts) \/ f[2] \in form'[dev].trash
                              \/ f \in overlooked'
<1> SUFFICES Goal
    BY <1>1 DEF EditorKnows, KeyOf, Seen, Links
<1>2. ASSUME form[dev].uid # NewId
      PROVE  \E key : Found(key) /\ (screen[dev] = "editing" => Known(key))
  <2>1. KeyOf(dev) \in Keys
        BY <1>0, <1>2, StoreAssumption DEF KeyOf, Keys, TypeOK, Form
  <2> QED BY <1>2, <2>1 DEF EditorKnows
<1>3. ASSUME form'[dev].uid = form[dev].uid,
             \A key \in Keys : Seen(dev, key)' = Seen(dev, key),
             screen'[dev] = "editing" =>
               /\ screen[dev] = "editing"
               /\ form[dev].trash \subseteq form'[dev].trash
               /\ \A f \in Links(form[dev].posts) : f \in Links(form'[dev].posts) \/ f[2] \in form'[dev].trash
      PROVE  Goal
  <2> SUFFICES ASSUME form'[dev].uid # NewId
               PROVE  Goal
      OBVIOUS
  <2>1. PICK key : Found(key) /\ (screen[dev] = "editing" => Known(key))
        BY <1>2, <1>3
  <2>2. key = <<AccountOf[dev], form'[dev].uid>>
        BY <1>3, <2>1 DEF KeyOf
  <2>3. Seen(dev, key)' = Seen(dev, key)
        BY <1>3, <2>1
  <2>4. overlooked \subseteq overlooked'
        BY StaysOverlooked
  <2> QED BY <1>3, <2>1, <2>2, <2>3, <2>4
<1>4. CASE UNCHANGED vars
  <2>1. outbox' = outbox /\ docs' = docs /\ form' = form /\ screen' = screen
        BY <1>4 DEF vars
  <2>2. \A key \in Keys : Seen(dev, key)' = Seen(dev, key)
        BY <2>1, SeenStays
  <2> HIDE DEF Goal
  <2> QED BY <1>3, <2>1, <2>2
<1>5. ASSUME OpenNew(dev) \/ Cancelled(dev) \/ TitleAcked(dev) \/ Deleted(dev)
      PROVE  Goal
  <2>1. form'[dev] = NoForm
        BY <1>0, <1>5, FormGoes
  <2> QED BY <2>1 DEF NoForm
<1>6. ASSUME NEW key \in Keys, OpenEdit(dev, key)
      PROVE  Goal
  <2>1. form'[dev].uid = key[2] /\ form'[dev].posts = rows[dev][key].posts
        BY <1>0, <1>6 DEF OpenEdit, NoForm, TypeOK
  <2>2. Seen(dev, key).there
        BY <1>6 DEF OpenEdit, Listed, RowsExist
  <2>3. key[1] = AccountOf[dev]
        BY <1>0, <1>1, <2>2, FoundIsOwn DEF NoDoc
  <2>4. key = <<AccountOf[dev], form'[dev].uid>>
        BY <2>1, <2>3 DEF Keys
  <2>5. Seen(dev, key)' = Seen(dev, key)
        BY <1>0, <1>6, SeenElse DEF Opened
  <2>6. \A f \in Links(Seen(dev, key).posts) : f \in Links(rows[dev][key].posts) \/ f \in overlooked'
        BY <1>6 DEF OpenEdit, Missed
  <2>7. \A f \in Links(Seen(dev, key)'.posts) : f \in Links(form'[dev].posts) \/ f \in overlooked'
        BY <2>1, <2>5, <2>6
  <2> QED BY <2>2, <2>4, <2>5, <2>7
<1> HIDE DEF Goal
<1>7. ASSUME Edited(dev) \/ Uploaded(dev) \/ Removed(dev) \/ WriteReachesServer(dev) \/ Fetched(dev)
      PROVE  \A key \in Keys : Seen(dev, key)' = Seen(dev, key)
      BY <1>0, <1>7, SeenElse
<1>8. ASSUME NEW name \in Photos, PhotoPicked(dev, name)
      PROVE  Goal
  <2>1. /\ form'[dev].uid = form[dev].uid /\ form'[dev].trash = form[dev].trash
        /\ Links(form'[dev].posts) = Links(form[dev].posts) /\ screen' = screen
        BY <1>0, <1>8, PickedForm
  <2> QED BY <1>3, <1>7, <1>8, <2>1 DEF Edited
<1>9. ASSUME NEW p \in form[dev].posts, PostRemoved(dev, p)
      PROVE  Goal
  <2>1. /\ form'[dev].uid = form[dev].uid /\ form[dev].trash \subseteq form'[dev].trash
        /\ \A f \in Links(form[dev].posts) : f \in Links(form'[dev].posts) \/ f[2] \in form'[dev].trash
        /\ screen' = screen
        BY <1>0, <1>9, RemovedForm
  <2> QED BY <1>3, <1>7, <1>9, <2>1 DEF Edited
<1>10. ASSUME SaveTapped(dev) \/ UploadsDone(dev)
       PROVE  Goal
  <2>1. screen'[dev] # "editing"
        BY <1>0, <1>10, SavingForm DEF Busy
  <2>2. \/ /\ form'[dev].uid = form[dev].uid
           /\ \A key \in Keys : Seen(dev, key)' = Seen(dev, key)
        \/ \E new \in Keys : new = <<AccountOf[dev], form'[dev].uid>> /\ Seen(dev, new)' = Created
        BY <1>0, <1>10, SavingForm
  <2>3. ASSUME NEW new \in Keys, new = <<AccountOf[dev], form'[dev].uid>>, Seen(dev, new)' = Created
        PROVE  Goal
        BY <2>1, <2>3 DEF Goal, Created
  <2> QED BY <1>3, <2>1, <2>2, <2>3
<1>11. ASSUME NEW f \in form[dev].fresh, PhotoPut(dev, f) \/ PhotoLinked(dev, f)
       PROVE  Goal
  <2>1. form'[dev].uid = form[dev].uid /\ screen'[dev] # "editing"
        BY <1>0, <1>11, PutForm, LinkedForm DEF Calm
  <2> QED BY <1>3, <1>7, <1>11, <2>1 DEF Uploaded
<1>12. ASSUME Removed(dev) \/ WriteReachesServer(dev) \/ Fetched(dev)
       PROVE  Goal
  <2>1. form' = form /\ screen' = screen
        BY <1>12, FetchLeaves DEF Removed, FileRemoved, WriteReachesServer
  <2> QED BY <1>3, <1>7, <1>12, <2>1
<1>13. ~AppKilled(dev)
       BY <1>0 DEF Calm, AppKilled, TypeOK
<1> QED BY <1>1, <1>4, <1>5, <1>6, <1>8, <1>9, <1>10, <1>11, <1>12, <1>13
        DEF Next, Steps, Opened, Edited, Uploaded

(* ... and every stored photo on its way out, into a project, or in one.   *)
LEMMA StepFilesKept ==
  ASSUME Calm, ArrivalInv, OneUpload, EditorKnows, FilesKept, [Next]_vars
  PROVE  FilesKept'
<1>0. TypeOK /\ NamesDrawn /\ OwnWork /\ OneTitle
      BY DEF ArrivalInv, StoreInv
<1>1. PICK dev \in Devices : Devices = {dev}
      BY DEF Calm
<1> DEFINE busy == screen[dev] \in Busy
           Busy2 == screen'[dev] \in Busy
           key2 == <<AccountOf[dev], form'[dev].uid>>
           Goal(f) == \/ f \in removing'[dev]
                      \/ Busy2 /\ f \in form'[dev].up \cup Links(form'[dev].posts)
                      \/ \E key \in Keys : f \in Links(Seen(dev, key)'.posts) /\ (Busy2 => key # key2)
<1> SUFFICES ASSUME NEW f \in files', f \notin overlooked' PROVE Goal(f)
    BY <1>1 DEF FilesKept, KeyOf, Seen, Links
<1>a. f \notin overlooked
      BY StaysOverlooked
<1>2. f \in files =>
        \/ f \in removing[dev]
        \/ busy /\ f \in form[dev].up \cup Links(form[dev].posts)
        \/ \E key \in Keys : f \in Links(Seen(dev, key).posts) /\ (busy => key # KeyOf(dev))
      BY <1>a DEF FilesKept
<1>3. f \in files => f[1] = AccountOf[dev] /\ f = FileOf(dev, f[2]) /\ f[2] \in Photos
      BY <1>0 DEF OneUpload, TypeOK, Files, FileOf
<1>4. ASSUME f \in files, f \in removing[dev] => f \in removing'[dev],
             \A key \in Keys : Seen(dev, key)' = Seen(dev, key),
             Busy2 = busy, form'[dev].uid = form[dev].uid,
             f \in form[dev].up \cup Links(form[dev].posts) =>
               f \in form'[dev].up \cup Links(form'[dev].posts)
      PROVE  Goal(f)
  <2>1. key2 = KeyOf(dev)
        BY <1>4 DEF KeyOf
  <2> HIDE DEF key2, Busy2, busy
  <2> QED BY <1>2, <1>4, <2>1
<1>5. ASSUME f \in files, f \in removing[dev] => f \in removing'[dev],
             \A key \in Keys : Seen(dev, key)' = Seen(dev, key), ~busy, ~Busy2
      PROVE  Goal(f)
      BY <1>2, <1>5
<1> HIDE DEF Goal
<1>6. CASE UNCHANGED vars
  <2>1. /\ outbox' = outbox /\ docs' = docs /\ form' = form /\ screen' = screen /\ files' = files
        /\ removing' = removing
        BY <1>6 DEF vars
  <2>2. \A key \in Keys : Seen(dev, key)' = Seen(dev, key)
        BY <2>1, SeenStays
  <2> QED BY <1>4, <2>1, <2>2
<1>7. ASSUME Opened(dev) \/ Edited(dev) \/ Cancelled(dev) \/ Uploaded(dev) \/ Removed(dev)
             \/ WriteReachesServer(dev) \/ Fetched(dev)
      PROVE  \A key \in Keys : Seen(dev, key)' = Seen(dev, key)
      BY <1>0, <1>7, SeenElse
<1>8. ASSUME Opened(dev) \/ Edited(dev) \/ Cancelled(dev)
      PROVE  Goal(f)
  <2>1. files' = files /\ removing' = removing /\ ~busy /\ ~Busy2
        BY <1>0, <1>8 DEF Opened, OpenNew, OpenEdit, Edited, PhotoPicked, PostRemoved, Cancelled,
                          TypeOK, Busy, server
  <2> QED BY <1>5, <1>7, <1>8, <2>1
<1>9. ASSUME SaveTapped(dev)
      PROVE  Goal(f)
  <2>1. /\ form'[dev].posts = form[dev].posts /\ Busy2 /\ files' = files
        /\ \/ /\ form'[dev].uid = form[dev].uid
              /\ \A key \in Keys : Seen(dev, key)' = Seen(dev, key)
           \/ \E new \in Keys : /\ new = key2 /\ Seen(dev, new) = NoDoc
                                /\ \A key \in Keys \ {new} : Seen(dev, key)' = Seen(dev, key)
        BY <1>0, <1>9, SavingForm
  <2>2. ~busy /\ screen[dev] = "editing"
        BY <1>9 DEF SaveTapped, Busy
  <2>3. removing'[dev] = removing[dev] \cup {FileOf(dev, name) : name \in form[dev].trash}
        BY <1>0, <1>9 DEF SaveTapped, AskRemoval, TypeOK
  <2>4. CASE f \in removing[dev]
        BY <2>3, <2>4 DEF Goal
  <2>5. ASSUME NEW key \in Keys, f \in Links(Seen(dev, key).posts)
        PROVE  Goal(f)
    <3>1. Seen(dev, key) # NoDoc
          BY <2>5, NoLinks
    <3>2. CASE key # key2
      <4>1. Seen(dev, key)' = Seen(dev, key)
            BY <2>1, <3>2
      <4> QED BY <2>5, <3>2, <4>1 DEF Goal
    <3>3. CASE key = key2
      <4>1. key = KeyOf(dev) /\ form[dev].uid \in ProjectIds
            BY <2>1, <3>1, <3>3 DEF KeyOf, Keys
      <4>2. f \in Links(form[dev].posts) \/ f[2] \in form[dev].trash
            BY <1>a, <2>2, <2>5, <4>1, NewIdAssumption DEF EditorKnows
      <4>3. f[2] \in form[dev].trash => f \in removing'[dev]
            BY <1>3, <2>1, <2>3
      <4> QED BY <2>1, <4>2, <4>3 DEF Goal
    <3> QED BY <3>2, <3>3
  <2> QED BY <1>2, <2>1, <2>2, <2>4, <2>5
<1>10. ASSUME UploadsDone(dev)
       PROVE  Goal(f)
  <2>1. /\ form'[dev].posts = form[dev].posts /\ form'[dev].up = form[dev].up
        /\ Busy2 /\ files' = files
        /\ \/ /\ form'[dev].uid = form[dev].uid
              /\ \A key \in Keys : Seen(dev, key)' = Seen(dev, key)
           \/ \E new \in Keys : /\ new = key2 /\ Seen(dev, new) = NoDoc
                                /\ \A key \in Keys \ {new} : Seen(dev, key)' = Seen(dev, key)
        BY <1>0, <1>10, SavingForm
  <2>2. busy /\ removing' = removing
        BY <1>10 DEF UploadsDone, Busy
  <2>3. CASE f \in removing[dev] \/ f \in form[dev].up \cup Links(form[dev].posts)
        BY <2>1, <2>2, <2>3 DEF Goal
  <2>4. ASSUME NEW key \in Keys, f \in Links(Seen(dev, key).posts), key # KeyOf(dev)
        PROVE  Goal(f)
    <3>1. Seen(dev, key) # NoDoc
          BY <2>4, NoLinks
    <3>2. key # key2
          BY <2>1, <2>4, <3>1 DEF KeyOf
    <3>3. Seen(dev, key)' = Seen(dev, key)
          BY <2>1, <3>2
    <3> QED BY <2>4, <3>2, <3>3 DEF Goal
  <2> QED BY <1>2, <2>1, <2>2, <2>3, <2>4
<1>11. ASSUME NEW g \in form[dev].fresh, PhotoPut(dev, g)
       PROVE  Goal(f)
  <2>1. /\ form'[dev].uid = form[dev].uid /\ form'[dev].posts = form[dev].posts
        /\ form[dev].up = {} /\ form'[dev].up = {g} /\ files' = files \cup {g}
        /\ screen[dev] = "uploading" /\ screen' = screen /\ removing' = removing
        BY <1>0, <1>11, PutForm DEF Calm
  <2>2. CASE f = g
        BY <2>1, <2>2 DEF Goal, Busy
  <2>3. CASE f \in files
        BY <1>4, <1>7, <1>11, <2>1, <2>3 DEF Uploaded
  <2> QED BY <2>1, <2>2, <2>3
<1>12. ASSUME NEW g \in form[dev].fresh, PhotoLinked(dev, g)
       PROVE  Goal(f)
  <2>1. /\ form'[dev].uid = form[dev].uid /\ g \in form[dev].up
        /\ g \in Links(form'[dev].posts) /\ Links(form[dev].posts) \subseteq Links(form'[dev].posts)
        /\ screen' = screen /\ files' = files /\ removing' = removing
        BY <1>0, <1>12, LinkedForm DEF Calm
  <2>2. \A h \in form[dev].up : h = g
        BY <2>1 DEF OneUpload
  <2> QED BY <1>4, <1>7, <1>12, <2>1, <2>2 DEF Uploaded
<1>13. ASSUME TitleAcked(dev)
       PROVE  Goal(f)
  <2>1. files' = files /\ ~Busy2 /\ removing' = removing
        BY <1>0, <1>13, FormGoes DEF TitleAcked
  <2>2. screen[dev] = "saving" /\ form[dev].uid \in ProjectIds
        BY <1>0, <1>13 DEF TitleAcked, OneTitle, OneTitleOf
  <2>3. busy /\ form[dev].up = {}
        BY <2>2 DEF Busy, OneUpload
  <2>4. KeyOf(dev) \in Keys /\ Seen(dev, KeyOf(dev)).there
        BY <2>2, NewIdAssumption, StoreAssumption DEF EditorKnows, KeyOf, Keys
  <2>5. \A key \in Keys : Seen(dev, key)'.posts =
                            IF key = KeyOf(dev) /\ Seen(dev, key).there /\ form[dev].posts # {}
                            THEN form[dev].posts ELSE Seen(dev, key).posts
        BY <1>0, <1>13, SeenAcked
  <2>6. CASE f \in removing[dev]
        BY <2>1, <2>6 DEF Goal
  <2>7. CASE f \in Links(form[dev].posts)
    <3>1. form[dev].posts # {}
          BY <2>7, NoLinks
    <3>2. PICK key \in Keys : key = KeyOf(dev)
          BY <2>4
    <3>3. Seen(dev, key)'.posts = form[dev].posts
          BY <2>4, <2>5, <3>1, <3>2
    <3> QED BY <2>1, <2>7, <3>3 DEF Goal
  <2>8. ASSUME NEW key \in Keys, f \in Links(Seen(dev, key).posts), key # KeyOf(dev)
        PROVE  Goal(f)
    <3>1. Seen(dev, key)'.posts = Seen(dev, key).posts
          BY <2>5, <2>8
    <3> QED BY <2>1, <2>8, <3>1 DEF Goal
  <2> QED BY <1>2, <2>1, <2>3, <2>6, <2>7, <2>8
<1>14. ASSUME NEW key \in Keys, DeleteFromFeed(dev, key)
       PROVE  Goal(f)
  <2>1. files' = files /\ ~Busy2 /\ ~busy
        BY <1>0, <1>14 DEF DeleteFromFeed, DeleteProject, TypeOK, Busy, server
  <2>2. PICK names : names = {p.photo[2] : p \in {q \in rows[dev][key].posts : q.linked}}
        OBVIOUS
  <2>3. removing'[dev] = removing[dev] \cup {FileOf(dev, name) : name \in names}
        BY <1>0, <1>14, <2>2 DEF DeleteFromFeed, DeleteProject, AskRemoval, TypeOK
  <2>4. CASE f \in removing[dev]
        BY <2>3, <2>4 DEF Goal
  <2>5. ASSUME NEW k \in Keys, f \in Links(Seen(dev, k).posts)
        PROVE  Goal(f)
    <3>1. CASE k = key
      <4>0. f \in Links(rows[dev][key].posts)
            BY <1>14, <2>5, <3>1 DEF DeleteFromFeed, Missed
      <4>1. PICK p \in rows[dev][key].posts : p.linked /\ p.photo = f
            BY <4>0, LinksAre
      <4>2. f[2] \in names
            BY <2>2, <4>1
      <4>3. f \in removing'[dev]
            BY <1>3, <2>1, <2>3, <4>2
      <4> QED BY <4>3 DEF Goal
    <3>2. CASE k # key
      <4>1. key[2] \in ProjectIds /\ key = <<AccountOf[dev], key[2]>>
            BY <1>14 DEF Keys, DeleteFromFeed
      <4>2. DeleteProject(dev, key[2], rows[dev][key].posts)
            BY <1>14 DEF DeleteFromFeed
      <4>3. Seen(dev, k)' = Seen(dev, k)
            BY <1>0, <3>2, <4>1, <4>2, SeenDeleted
      <4> QED BY <2>1, <2>5, <4>3 DEF Goal
    <3> QED BY <3>1, <3>2
  <2> QED BY <1>2, <2>1, <2>4, <2>5
<1>15. ASSUME NEW g \in removing[dev], FileRemoved(dev, g)
       PROVE  Goal(f)
  <2>1. /\ files' = files \ {g} /\ removing'[dev] = removing[dev] \ {g}
        /\ form' = form /\ screen' = screen
        BY <1>0, <1>15 DEF Calm, FileRemoved, TypeOK
  <2> QED BY <1>4, <1>7, <1>15, <2>1 DEF Removed
<1>16. ASSUME WriteReachesServer(dev) \/ Fetched(dev)
       PROVE  Goal(f)
  <2>1. files' = files /\ removing' = removing /\ form' = form /\ screen' = screen
        BY <1>16, FetchLeaves DEF WriteReachesServer
  <2> QED BY <1>4, <1>7, <1>16, <2>1
<1>17. ~AppKilled(dev) /\ ~DeleteFromEditor(dev)
       BY <1>0 DEF Calm, AppKilled, DeleteFromEditor, TypeOK
<1> QED BY <1>1, <1>6, <1>8, <1>9, <1>10, <1>11, <1>12, <1>13, <1>14, <1>15, <1>16, <1>17
        DEF Next, Steps, Uploaded, Deleted, Removed

(* Init establishes the invariant.                                         *)
LEMMA InitCalmInv == Init => CalmInv
<1> SUFFICES ASSUME Init PROVE CalmInv
    OBVIOUS
<1>1. OneUpload /\ RowsExist /\ EditorKnows /\ FilesKept
      BY DEF Init, OneUpload, RowsExist, EditorKnows, FilesKept, NoForm, Nothing, NoDoc
<1> QED BY <1>1, InitArrivalInv DEF CalmInv

(* Each step preserves it.                                                 *)
LEMMA StepCalmInv ==
  ASSUME Calm, CalmInv, [Next]_vars
  PROVE  CalmInv'
<1>1. OwnDevices
      BY DEF Calm, OwnDevices
<1> QED BY <1>1, StepArrivalInv, StepOneUpload, StepRowsExist, StepEditorKnows, StepFilesKept
        DEF CalmInv

(* On one device, with no failure, no kill and no deletion from the        *)
(* editor: every stored photo was overlooked by an edit or a deletion that *)
(* began from an old row, is being deleted, is to be saved, or is in a     *)
(* project that no save is replacing.                                      *)
THEOREM CalmInvariant ==
  ASSUME Calm
  PROVE  Spec => []CalmInv
<1>1. CalmInv /\ [Next]_vars => CalmInv'
      BY StepCalmInv
<1> QED BY <1>1, InitCalmInv, PTL DEF Spec

(* So a stored photo that is left in no project was overlooked.            *)
THEOREM NoPhotoOrphaned ==
  ASSUME Calm
  PROVE  Spec => []NoOrphans
<1>1. ASSUME CalmInv
      PROVE  NoOrphans
  <2>0. TypeOK /\ FilesKept
        BY <1>1 DEF CalmInv, ArrivalInv, StoreInv
  <2> SUFFICES ASSUME Quiet, NEW f \in files, f \notin overlooked
               PROVE  Linked(f)
      BY DEF NoOrphans
  <2>1. PICK dev \in Devices : Devices = {dev}
        BY DEF Calm
  <2>2. outbox[dev] = << >> /\ removing[dev] = {} /\ screen[dev] \notin Busy
        BY DEF Quiet, Busy
  <2>3. PICK key \in Keys : f \in Links(Seen(dev, key).posts)
        BY <2>0, <2>2 DEF FilesKept
  <2>4. Seen(dev, key) = docs[key]
        BY <2>0, <2>2, QuietSeen
  <2>5. \E p \in docs[key].posts : p.linked /\ p.photo = f
        BY <2>3, <2>4, LinksAre
  <2> QED BY <2>5 DEF Linked
<1>2. CalmInv => NoOrphans
      BY <1>1
<1> QED BY <1>2, CalmInvariant, PTL

=============================================================================
