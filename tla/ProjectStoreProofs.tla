------------------------- MODULE ProjectStoreProofs -------------------------
(***************************************************************************)
(* Proofs about ProjectStore for any devices, users, names and bounds: the *)
(* types, that links lead to stored photos, and that only owners change    *)
(* their projects and photos.                                              *)
(***************************************************************************)
EXTENDS ProjectStore, SequenceTheorems, TLAPS

(* What a device's queue holds after it queued writes: what it held, and   *)
(* the writes behind it; the other devices' queues stay.                   *)
LEMMA QueueGrows ==
  ASSUME TypeOK, NEW dev \in Devices, NEW ws \in Seq(Writes), Queue(dev, ws)
  PROVE  /\ outbox' \in [Devices -> Seq(Writes)]
         /\ \A d \in Devices \ {dev} : outbox'[d] = outbox[d]
         /\ Len(outbox[dev]) \in Nat /\ Len(ws) \in Nat
         /\ Len(outbox'[dev]) = Len(outbox[dev]) + Len(ws)
         /\ \A i \in 1..Len(outbox[dev]) : outbox'[dev][i] = outbox[dev][i]
         /\ \A i \in 1..Len(outbox'[dev]) :
              \/ i \in 1..Len(outbox[dev])
              \/ /\ i - Len(outbox[dev]) \in 1..Len(ws)
                 /\ outbox'[dev][i] = ws[i - Len(outbox[dev])]
<1> DEFINE q == outbox[dev]
<1>1. q \in Seq(Writes)
      BY DEF TypeOK
<1>2. /\ q \o ws \in Seq(Writes)
      /\ Len(q \o ws) = Len(q) + Len(ws)
      /\ \A i \in 1..Len(q) + Len(ws) : (q \o ws)[i] = IF i <= Len(q) THEN q[i] ELSE ws[i - Len(q)]
      BY <1>1, ConcatProperties
<1>3. Len(q) \in Nat /\ Len(ws) \in Nat
      BY <1>1, LenProperties
<1>4. outbox' = [outbox EXCEPT ![dev] = q \o ws] /\ outbox \in [Devices -> Seq(Writes)]
      BY DEF Queue, TypeOK
<1>5. outbox'[dev] = q \o ws
      BY <1>4
<1>6. \A i \in 1..Len(q) : (q \o ws)[i] = q[i]
      BY <1>2, <1>3
<1>7. \A i \in 1..Len(q) + Len(ws) :
        i \in 1..Len(q) \/ (i - Len(q) \in 1..Len(ws) /\ (q \o ws)[i] = ws[i - Len(q)])
      BY <1>2, <1>3
<1> QED BY <1>2, <1>3, <1>4, <1>5, <1>6, <1>7

(* What a queue holds after its head was sent: every other write, one      *)
(* place earlier.                                                          *)
LEMMA QueueShrinks ==
  ASSUME NEW q \in Seq(Writes), q # << >>
  PROVE  /\ Tail(q) \in Seq(Writes)
         /\ Head(q) \in Writes
         /\ Head(q) = q[1]
         /\ Len(q) \in Nat \ {0}
         /\ Len(Tail(q)) = Len(q) - 1
         /\ \A i \in 1..Len(q)-1 : Tail(q)[i] = q[i + 1]
BY HeadTailProperties, EmptySeq

(* A queue of one write.                                                   *)
LEMMA OneWrite ==
  ASSUME NEW w \in Writes
  PROVE  <<w>> \in Seq(Writes) /\ Len(<<w>>) = 1 /\ <<w>>[1] = w
OBVIOUS

(* A write queued by a device has its type, its owner and its life.        *)
LEMMA WriteIsTyped ==
  ASSUME TypeOK, NEW dev \in Devices, NEW id \in ProjectIds, NEW posts \in SUBSET Post,
         NEW kind \in {"create", "title", "text", "posts", "drop"}
  PROVE  /\ Write(dev, kind, id, posts) \in Writes
         /\ Write(dev, kind, id, posts).kind = kind
         /\ Write(dev, kind, id, posts).key = <<AccountOf[dev], id>>
         /\ Write(dev, kind, id, posts).posts = posts
         /\ Write(dev, kind, id, posts).life = kills[dev]
<1>1. <<AccountOf[dev], id>> \in Keys
      BY StoreAssumption DEF Keys
<1>2. kills[dev] \in Nat
      BY StoreAssumption DEF TypeOK
<1> QED BY <1>1, <1>2 DEF Write, Writes

(* What saveProject does: one title is queued under the user signed in,    *)
(* and the form has the uid it was written to.                             *)
LEMMA SaveProjectEffect ==
  ASSUME TypeOK, NEW dev \in Devices, NEW f \in Form, SaveProject(dev, f)
  PROVE  \E id \in ProjectIds, w \in Writes :
           /\ w.kind \in {"create", "title"} /\ w.key = <<AccountOf[dev], id>>
           /\ w.posts = {} /\ w.life = kills[dev]
           /\ Queue(dev, <<w>>)
           /\ form' = [form EXCEPT ![dev] = [f EXCEPT !.uid = id]]
           /\ drawn' \subseteq ProjectIds \cup Photos
<1>1. CASE f.uid = NewId
  <2>1. PICK id \in ProjectIds \ drawn :
               /\ drawn' = drawn \cup {id}
               /\ Queue(dev, <<Write(dev, "create", id, {})>>)
               /\ form' = [form EXCEPT ![dev] = [f EXCEPT !.uid = id]]
        BY <1>1 DEF SaveProject
  <2> DEFINE w == Write(dev, "create", id, {})
  <2>2. /\ w \in Writes /\ w.kind = "create" /\ w.key = <<AccountOf[dev], id>>
        /\ w.posts = {} /\ w.life = kills[dev]
        BY <2>1, WriteIsTyped
  <2>3. drawn' \subseteq ProjectIds \cup Photos
        BY <2>1 DEF TypeOK
  <2>4. Queue(dev, <<w>>) /\ form' = [form EXCEPT ![dev] = [f EXCEPT !.uid = id]]
        BY <2>1
  <2> HIDE DEF w
  <2> QED BY <2>2, <2>3, <2>4
<1>2. CASE f.uid # NewId
  <2>1. f.uid \in ProjectIds /\ [f EXCEPT !.uid = f.uid] = f
        BY <1>2 DEF Form
  <2> DEFINE w == Write(dev, "title", f.uid, {})
  <2>2. /\ w \in Writes /\ w.kind = "title" /\ w.key = <<AccountOf[dev], f.uid>>
        /\ w.posts = {} /\ w.life = kills[dev]
        BY <2>1, WriteIsTyped
  <2>3. /\ Queue(dev, <<w>>) /\ drawn' = drawn
        /\ form' = [form EXCEPT ![dev] = [f EXCEPT !.uid = f.uid]]
        BY <1>2, <2>1 DEF SaveProject
  <2>4. drawn' \subseteq ProjectIds \cup Photos
        BY <2>3 DEF TypeOK
  <2> HIDE DEF w
  <2> QED BY <2>1, <2>2, <2>3, <2>4
<1> QED BY <1>1, <1>2

(* The text and the posts a save queues: each of the type of a write, and  *)
(* neither a title.                                                        *)
LEMMA TextAndPosts ==
  ASSUME NEW a \in Writes, NEW b \in Writes, NEW s \in BOOLEAN, NEW t \in BOOLEAN
  PROVE  LET ws == (IF s THEN <<a>> ELSE << >>) \o (IF t THEN <<b>> ELSE << >>)
         IN /\ ws \in Seq(Writes)
            /\ \A i \in 1..Len(ws) : ws[i] \in {a, b}
<1>1. <<a>> \in Seq(Writes) /\ <<b>> \in Seq(Writes) /\ << >> \in Seq(Writes)
      OBVIOUS
<1>2. CASE s /\ t
      BY <1>1, <1>2
<1>3. CASE s /\ ~t
      BY <1>1, <1>3
<1>4. CASE ~s /\ t
      BY <1>1, <1>4
<1>5. CASE ~s /\ ~t
      BY <1>1, <1>5
<1> QED BY <1>2, <1>3, <1>4, <1>5

(* A write leaves a document a document, with no posts but its old ones    *)
(* and those of the write.                                                 *)
LEMMA AfterIsTyped ==
  ASSUME NEW w \in Writes, NEW doc \in Doc
  PROVE  After(w, doc) \in Doc /\ After(w, doc).posts \subseteq doc.posts \cup w.posts
BY DEF After, Writes, Doc, NoDoc

(* The parts of a write that waits on a device.                            *)
LEMMA WaitingWriteType ==
  ASSUME TypeOK, NEW dev \in Devices, NEW i \in 1..Len(outbox[dev])
  PROVE  /\ outbox[dev][i] \in Writes
         /\ outbox[dev][i].key \in Keys
         /\ outbox[dev][i].posts \subseteq Post
         /\ outbox[dev][i].life \in Nat
<1>1. outbox[dev] \in Seq(Writes)
      BY DEF TypeOK
<1>2. outbox[dev][i] \in Writes
      BY <1>1, ElementOfSeq
<1> QED BY <1>2 DEF Writes

(* What a device fetches is a document, with no posts but the server's and *)
(* those of its waiting writes.                                            *)
LEMMA SeenIsTyped ==
  ASSUME TypeOK, NEW dev \in Devices, NEW key \in Keys
  PROVE  /\ Seen(dev, key) \in Doc
         /\ \A p \in Seen(dev, key).posts :
              p \in docs[key].posts \/ \E i \in 1..Len(outbox[dev]) : p \in outbox[dev][i].posts
<1> DEFINE q == outbox[dev]
           start == Latest(Waiting(q, key, {"create", "drop"}))
           texts == {i \in Waiting(q, key, {"text"}) : \A j \in start : j < i}
           puts == {i \in Waiting(q, key, {"posts"}) : \A j \in start : j < i}
           doc == IF start = {} THEN docs[key]
                  ELSE [NoDoc EXCEPT !.there = \A j \in start : q[j].kind = "create"]
           put == UNION {q[i].posts : i \in Latest(puts)}
<1>1. Latest(puts) \subseteq 1..Len(q)
      BY DEF Latest, Waiting
<1>2. \A i \in 1..Len(q) : q[i].posts \subseteq Post
      BY WaitingWriteType
<1>3. doc \in Doc /\ doc.posts \subseteq docs[key].posts
      BY DEF TypeOK, Doc, NoDoc
<1>4. put \subseteq Post /\ \A p \in put : \E i \in 1..Len(q) : p \in q[i].posts
      BY <1>1, <1>2
<1>5. Seen(dev, key) = IF doc.there
                       THEN [doc EXCEPT !.text = @ \/ texts # {},
                                        !.posts = IF puts = {} THEN @ ELSE put]
                       ELSE doc
      BY DEF Seen, Under
<1> HIDE DEF start, texts, puts, doc, put
<1> QED BY <1>3, <1>4, <1>5 DEF Doc

(* Files asked to be removed are files.                                    *)
LEMMA AskRemovalIsTyped ==
  ASSUME TypeOK, NEW dev \in Devices, NEW names \in SUBSET Photos, AskRemoval(dev, names)
  PROVE  removing' \in [Devices -> SUBSET Files] /\ discarded' \in SUBSET Files
<1>1. {FileOf(dev, name) : name \in names} \subseteq Files
      BY StoreAssumption DEF FileOf, Files
<1> QED BY <1>1 DEF AskRemoval, TypeOK

(* saveProject leaves queue, form and names of their type.                 *)
LEMMA SaveProjectIsTyped ==
  ASSUME TypeOK, NEW dev \in Devices, NEW f \in Form, SaveProject(dev, f)
  PROVE  /\ outbox' \in [Devices -> Seq(Writes)] /\ form' \in [Devices -> Form]
         /\ drawn' \subseteq ProjectIds \cup Photos
<1>1. PICK id \in ProjectIds, w \in Writes :
           /\ Queue(dev, <<w>>)
           /\ form' = [form EXCEPT ![dev] = [f EXCEPT !.uid = id]]
           /\ drawn' \subseteq ProjectIds \cup Photos
      BY SaveProjectEffect
<1>2. outbox' \in [Devices -> Seq(Writes)]
      BY <1>1, OneWrite, QueueGrows
<1>3. [f EXCEPT !.uid = id] \in Form
      BY DEF Form
<1> QED BY <1>1, <1>2, <1>3 DEF TypeOK

(* The types of what the feed fetched, and of everything else.             *)
FetchedOK ==
  /\ rows \in [Devices -> [Keys -> Doc]]
  /\ answers \in [Devices -> [Fetches -> [Keys -> Doc]]]
  /\ overlooked \in SUBSET Files
OthersOK ==
  /\ docs \in [Keys -> Doc]
  /\ files \in SUBSET Files
  /\ outbox \in [Devices -> Seq(Writes)]
  /\ removing \in [Devices -> SUBSET Files]
  /\ screen \in [Devices -> {"feed", "editing", "deleting"} \cup Busy]
  /\ form \in [Devices -> Form]
  /\ acked \in SUBSET Devices
  /\ edits \in 0..MaxEdits /\ kills \in [Devices -> 0..MaxKills]
  /\ drawn \subseteq ProjectIds \cup Photos
  /\ discarded \in SUBSET Files
  /\ wanted \in [Keys -> SUBSET Post]

(* A row of the feed is a document, and so is what a fetch has so far.     *)
LEMMA RowsAreTyped ==
  ASSUME TypeOK, NEW dev \in Devices, NEW key \in Keys
  PROVE  /\ rows[dev][key] \in Doc
         /\ rows[dev][key].posts \subseteq Post /\ rows[dev][key].text \in BOOLEAN
         /\ rows[dev][key].there \in BOOLEAN
         /\ \A n \in Fetches : answers[dev][n][key] \in Doc
BY DEF TypeOK, Doc

(* A fetch leaves everything but rows and answers.                         *)
LEMMA FetchLeaves ==
  ASSUME NEW dev \in Devices, Fetched(dev)
  PROVE  /\ docs' = docs /\ files' = files /\ outbox' = outbox /\ removing' = removing
         /\ screen' = screen /\ form' = form /\ acked' = acked
         /\ edits' = edits /\ kills' = kills /\ drawn' = drawn
         /\ discarded' = discarded /\ wanted' = wanted /\ overlooked' = overlooked
BY DEF Fetched, FeedCompleted, ProjectsAnswered, server, counters

(* deleteProject leaves everything of its type.                            *)
LEMMA DeleteProjectIsTyped ==
  ASSUME TypeOK, NEW dev \in Devices, NEW id \in ProjectIds, NEW posts \in SUBSET Post,
         DeleteProject(dev, id, posts)
  PROVE  OthersOK'
<1>1. {p.photo[2] : p \in {q \in posts : q.linked}} \subseteq Photos
      BY DEF Post, Files
<1>2. removing' \in [Devices -> SUBSET Files] /\ discarded' \in SUBSET Files
      BY <1>1, AskRemovalIsTyped DEF DeleteProject
<1>3. Write(dev, "drop", id, {}) \in Writes
      BY WriteIsTyped
<1>4. outbox' \in [Devices -> Seq(Writes)]
      BY <1>3, OneWrite, QueueGrows DEF DeleteProject
<1> QED BY <1>2, <1>4 DEF DeleteProject, TypeOK, OthersOK, Form, NoForm, server, counters

(* The callback of a title queues the text and the posts of the form.      *)
LEMMA TitleAckedQueues ==
  ASSUME TypeOK, NEW dev \in Devices, form[dev].uid \in ProjectIds, TitleAcked(dev)
  PROVE  \E ws \in Seq(Writes) :
           /\ Queue(dev, ws)
           /\ \A i \in 1..Len(ws) :
                /\ ws[i].kind \in {"text", "posts"}
                /\ ws[i].key = <<AccountOf[dev], form[dev].uid>>
                /\ ws[i].posts \subseteq form[dev].posts
                /\ ws[i].life = kills[dev]
<1> DEFINE a == Write(dev, "text", form[dev].uid, {})
           b == Write(dev, "posts", form[dev].uid, form[dev].posts)
           ws == (IF form[dev].text THEN <<a>> ELSE << >>)
                 \o (IF form[dev].posts # {} THEN <<b>> ELSE << >>)
<1>1. form[dev].posts \subseteq Post /\ form[dev].text \in BOOLEAN
      BY DEF TypeOK, Form
<1>2. /\ a \in Writes /\ a.kind = "text" /\ a.key = <<AccountOf[dev], form[dev].uid>>
      /\ a.posts = {} /\ a.life = kills[dev]
      BY WriteIsTyped
<1>3. /\ b \in Writes /\ b.kind = "posts" /\ b.key = <<AccountOf[dev], form[dev].uid>>
      /\ b.posts = form[dev].posts /\ b.life = kills[dev]
      BY <1>1, WriteIsTyped
<1>4. Queue(dev, ws)
      BY DEF TitleAcked
<1> HIDE DEF a, b
<1>5. ws \in Seq(Writes) /\ \A i \in 1..Len(ws) : ws[i] \in {a, b}
      BY <1>1, <1>2, <1>3, TextAndPosts
<1> HIDE DEF ws
<1> QED BY <1>2, <1>3, <1>4, <1>5

-----------------------------------------------------------------------------
(* Init establishes the invariant.                                         *)
LEMMA InitStoreInv == Init => StoreInv
<1> SUFFICES ASSUME Init PROVE StoreInv
    OBVIOUS
<1>1. << >> \in Seq(Writes) /\ Len(<< >>) = 0
      OBVIOUS
<1>2. TypeOK
  <2>1. Nothing \in [Keys -> Doc]
        BY DEF Nothing, NoDoc, Doc
  <2> QED BY <1>1, <2>1, StoreAssumption DEF Init, TypeOK, Form, NoForm
<1>3. LinksLead /\ PendingLinksLead /\ OwnWork /\ OneTitle
      BY <1>1 DEF Init, LinksLead, PendingLinksLead, OwnWork, OneTitle, OneTitleOf, TitlesOut, Nothing, NoDoc, NoForm
<1> QED BY <1>2, <1>3 DEF StoreInv

(* Each step preserves the types; the callback of a title needs OneTitle   *)
(* to know that the form it finds has a uid.                               *)
LEMMA StepOthersOK == TypeOK /\ OwnWork /\ OneTitle /\ [Next]_vars => OthersOK'
<1> SUFFICES ASSUME TypeOK, OwnWork, OneTitle, [Next]_vars
             PROVE  OthersOK'
    OBVIOUS
<1> USE StoreAssumption
<1>1. CASE UNCHANGED vars
      BY <1>1 DEF vars, TypeOK, OthersOK
<1>2. ASSUME NEW dev \in Devices, OpenNew(dev) PROVE OthersOK'
      BY <1>2 DEF OpenNew, TypeOK, OthersOK, NoForm, Form, server
<1>3. ASSUME NEW dev \in Devices, NEW key \in Keys, OpenEdit(dev, key) PROVE OthersOK'
  <2> DEFINE f == [NoForm EXCEPT !.uid = key[2], !.posts = rows[dev][key].posts,
                                 !.text = rows[dev][key].text]
  <2>1. rows[dev][key].posts \subseteq Post /\ rows[dev][key].text \in BOOLEAN
        BY RowsAreTyped
  <2>2. f \in Form
        BY <2>1 DEF Form, NoForm, Keys
  <2>3. form' = [form EXCEPT ![dev] = f]
        BY <1>3 DEF OpenEdit
  <2> QED BY <1>3, <2>2, <2>3 DEF OpenEdit, TypeOK, OthersOK, server
<1>4. ASSUME NEW dev \in Devices, NEW name \in Photos, PhotoPicked(dev, name) PROVE OthersOK'
  <2>1. FileOf(dev, name) \in Files
        BY DEF FileOf, Files
  <2>2. [photo |-> FileOf(dev, name), linked |-> FALSE] \in Post
        BY <2>1 DEF Post
  <2> DEFINE g == [form[dev] EXCEPT !.posts = @ \cup {[photo |-> FileOf(dev, name), linked |-> FALSE]},
                                    !.fresh = @ \cup {FileOf(dev, name)}]
  <2>3. g \in Form
    <3>1. form[dev] \in Form
          BY DEF TypeOK
    <3> QED BY <2>1, <2>2, <3>1 DEF Form
  <2>4. form' = [form EXCEPT ![dev] = g]
        BY <1>4 DEF PhotoPicked
  <2>5. form' \in [Devices -> Form]
        BY <2>3, <2>4 DEF TypeOK
  <2> QED BY <1>4, <2>5 DEF PhotoPicked, TypeOK, OthersOK, server
<1>5. ASSUME NEW dev \in Devices, NEW p \in form[dev].posts, PostRemoved(dev, p) PROVE OthersOK'
  <2>1. p.photo[2] \in Photos
        BY DEF TypeOK, Form, Post, Files
  <2> DEFINE g == [form[dev] EXCEPT !.posts = @ \ {p},
                                    !.fresh = @ \ {p.photo},
                                    !.trash = IF p.linked THEN @ \cup {p.photo[2]} ELSE @]
  <2>2. g \in Form
    <3>1. form[dev] \in Form
          BY DEF TypeOK
    <3>2. (IF p.linked THEN form[dev].trash \cup {p.photo[2]} ELSE form[dev].trash) \subseteq Photos
          BY <2>1, <3>1 DEF Form
    <3> QED BY <3>1, <3>2 DEF Form
  <2>3. form' = [form EXCEPT ![dev] = g]
        BY <1>5 DEF PostRemoved
  <2>4. form' \in [Devices -> Form]
        BY <2>2, <2>3 DEF TypeOK
  <2> QED BY <1>5, <2>4 DEF PostRemoved, TypeOK, OthersOK, server, counters
<1>6. ASSUME NEW dev \in Devices, Cancelled(dev) PROVE OthersOK'
      BY <1>6 DEF Cancelled, TypeOK, OthersOK, NoForm, Form, server, counters
<1>7. ASSUME NEW dev \in Devices, SaveTapped(dev) PROVE OthersOK'
  <2>1. removing' \in [Devices -> SUBSET Files] /\ discarded' \in SUBSET Files
        BY <1>7, AskRemovalIsTyped DEF SaveTapped, TypeOK, Form
  <2>2. PICK text \in {form[dev].text, TRUE} :
          LET f == [form[dev] EXCEPT !.text = text] IN
          IF f.posts # {}
          THEN /\ screen' = [screen EXCEPT ![dev] = "uploading"]
               /\ form' = [form EXCEPT ![dev] = f]
               /\ UNCHANGED <<outbox, drawn>>
          ELSE /\ screen' = [screen EXCEPT ![dev] = "saving"]
               /\ SaveProject(dev, f)
        BY <1>7 DEF SaveTapped
  <2> DEFINE f == [form[dev] EXCEPT !.text = text]
  <2>3. f \in Form
    <3>1. form[dev] \in Form
          BY DEF TypeOK
    <3>2. text \in BOOLEAN
          BY <3>1 DEF Form
    <3> QED BY <3>1, <3>2 DEF Form
  <2>4. /\ outbox' \in [Devices -> Seq(Writes)] /\ form' \in [Devices -> Form]
        /\ drawn' \subseteq ProjectIds \cup Photos
    <3>1. CASE f.posts # {}
      <4>1. form' = [form EXCEPT ![dev] = f] /\ outbox' = outbox /\ drawn' = drawn
            BY <2>2, <3>1
      <4> HIDE DEF f
      <4> QED BY <2>3, <4>1 DEF TypeOK
    <3>2. CASE f.posts = {}
          BY <2>2, <2>3, <3>2, SaveProjectIsTyped
    <3> QED BY <3>1, <3>2
  <2>5. screen' \in [Devices -> {"feed", "editing", "deleting"} \cup Busy]
        BY <2>2 DEF TypeOK, Busy
  <2> QED BY <1>7, <2>1, <2>4, <2>5 DEF SaveTapped, TypeOK, OthersOK, server
<1>8. ASSUME NEW dev \in Devices, NEW f \in form[dev].fresh, PhotoPut(dev, f) PROVE OthersOK'
  <2>1. f \in Files
        BY DEF TypeOK, Form
  <2>2. [form[dev] EXCEPT !.up = {f}] \in Form /\ [form[dev] EXCEPT !.fresh = @ \ {f}] \in Form
    <3>1. form[dev] \in Form
          BY DEF TypeOK
    <3> QED BY <2>1, <3>1 DEF Form
  <2>3. files' \in SUBSET Files /\ form' \in [Devices -> Form]
        BY <1>8, <2>1, <2>2 DEF PhotoPut, TypeOK
  <2> QED BY <1>8, <2>3 DEF PhotoPut, TypeOK, OthersOK, counters
<1>9. ASSUME NEW dev \in Devices, NEW f \in form[dev].fresh, PhotoLinked(dev, f) PROVE OthersOK'
  <2>1. f \in Files
        BY DEF TypeOK, Form
  <2>2. PICK linked \in BOOLEAN :
          form' = [form EXCEPT ![dev] = [form[dev] EXCEPT !.posts = {p \in @ : p.photo # f}
                                                               \cup {[photo |-> f, linked |-> linked]},
                                                  !.fresh = @ \ {f},
                                                  !.up = {}]]
        BY <1>9 DEF PhotoLinked
  <2> DEFINE g == [form[dev] EXCEPT !.posts = {p \in @ : p.photo # f}
                                                \cup {[photo |-> f, linked |-> linked]},
                                    !.fresh = @ \ {f},
                                    !.up = {}]
  <2>3. [photo |-> f, linked |-> linked] \in Post
        BY <2>1 DEF Post
  <2>4. g \in Form
    <3>1. form[dev] \in Form
          BY DEF TypeOK
    <3>2. {p \in form[dev].posts : p.photo # f} \cup {[photo |-> f, linked |-> linked]} \subseteq Post
          BY <2>3, <3>1 DEF Form
    <3> QED BY <3>1, <3>2 DEF Form
  <2>5. form' \in [Devices -> Form]
        BY <2>2, <2>4 DEF TypeOK
  <2> QED BY <1>9, <2>5 DEF PhotoLinked, TypeOK, OthersOK, server, counters
<1>10. ASSUME NEW dev \in Devices, UploadsDone(dev) PROVE OthersOK'
  <2>1. form[dev] \in Form
        BY DEF TypeOK
  <2>2. /\ outbox' \in [Devices -> Seq(Writes)] /\ form' \in [Devices -> Form]
        /\ drawn' \subseteq ProjectIds \cup Photos
        BY <1>10, <2>1, SaveProjectIsTyped DEF UploadsDone
  <2> QED BY <1>10, <2>2 DEF UploadsDone, TypeOK, OthersOK, server, Busy
<1>11. ASSUME NEW dev \in Devices, TitleAcked(dev) PROVE OthersOK'
  <2>1. form[dev].uid \in ProjectIds /\ form[dev] \in Form
        BY <1>11 DEF TitleAcked, OneTitle, OneTitleOf, TypeOK
  <2>2. PICK ws \in Seq(Writes) : Queue(dev, ws)
        BY <1>11, <2>1, TitleAckedQueues
  <2>3. outbox' \in [Devices -> Seq(Writes)]
        BY <2>2, QueueGrows
  <2>4. wanted' \in [Keys -> SUBSET Post]
        BY <1>11, <2>1 DEF TitleAcked, TypeOK, Form
  <2>5. form' \in [Devices -> Form]
        BY <1>11 DEF TitleAcked, TypeOK, Form, NoForm
  <2> QED BY <1>11, <2>3, <2>4, <2>5 DEF TitleAcked, TypeOK, OthersOK, server, counters
<1>12. ASSUME NEW dev \in Devices, NEW key \in Keys, DeleteFromFeed(dev, key) PROVE OthersOK'
  <2>1. key[2] \in ProjectIds /\ rows[dev][key].posts \subseteq Post
        BY RowsAreTyped DEF Keys
  <2> QED BY <1>12, <2>1, DeleteProjectIsTyped DEF DeleteFromFeed
<1>13. ASSUME NEW dev \in Devices, DeleteFromEditor(dev) PROVE OthersOK'
  <2>1. form[dev].uid \in ProjectIds /\ form[dev].posts \subseteq Post
        BY <1>13 DEF DeleteFromEditor, TypeOK, Form
  <2> QED BY <1>13, <2>1, DeleteProjectIsTyped DEF DeleteFromEditor
<1>14. ASSUME NEW dev \in Devices, NEW f \in removing[dev], FileRemoved(dev, f) PROVE OthersOK'
      BY <1>14 DEF FileRemoved, TypeOK, OthersOK, counters
<1>15. ASSUME NEW dev \in Devices, WriteReachesServer(dev) PROVE OthersOK'
  <2> DEFINE w == Head(outbox[dev])
  <2>1. outbox[dev] \in Seq(Writes) /\ outbox[dev] # << >>
        BY <1>15 DEF WriteReachesServer, TypeOK
  <2>2. w \in Writes /\ Tail(outbox[dev]) \in Seq(Writes)
        BY <2>1, QueueShrinks
  <2>3. w.key \in Keys
        BY <2>2 DEF Writes
  <2>4. After(w, docs[w.key]) \in Doc
        BY <2>2, <2>3, AfterIsTyped DEF TypeOK
  <2>5. docs' = [docs EXCEPT ![w.key] = After(w, docs[w.key])]
        BY <1>15 DEF WriteReachesServer
  <2>6. docs' \in [Keys -> Doc]
        BY <2>4, <2>5 DEF TypeOK
  <2>7. outbox' \in [Devices -> Seq(Writes)]
        BY <1>15, <2>2 DEF WriteReachesServer, TypeOK
  <2>8. acked' \in SUBSET Devices
        BY <1>15 DEF WriteReachesServer, TypeOK
  <2> QED BY <1>15, <2>6, <2>7, <2>8 DEF WriteReachesServer, TypeOK, OthersOK, counters
<1>16. ASSUME NEW dev \in Devices, AppKilled(dev) PROVE OthersOK'
      BY <1>16 DEF AppKilled, TypeOK, OthersOK, Form, NoForm, server
<1>17. ASSUME NEW dev \in Devices, Fetched(dev) PROVE OthersOK'
      BY <1>17, FetchLeaves DEF TypeOK, OthersOK
<1> QED BY <1>1, <1>2, <1>3, <1>4, <1>5, <1>6, <1>7, <1>8, <1>9, <1>10, <1>11, <1>12,
           <1>13, <1>14, <1>15, <1>16, <1>17
        DEF Next, Steps, Opened, Edited, Uploaded, Deleted, Removed

(* What a step does to rows and answers: rows keep what they show, lose it *)
(* or get what a fetch has; a fetch keeps what it has, loses it or gets    *)
(* the document as the device sees it.                                     *)
RowStep(dev, key) ==
  \/ rows'[dev][key] \in {NoDoc, rows[dev][key]}
  \/ \E n \in Fetches : rows'[dev][key] = answers[dev][n][key]
AnswerStep(dev, n, key) ==
  answers'[dev][n][key] \in {NoDoc, answers[dev][n][key], Seen(dev, key)}
FetchStep == /\ FetchedOK'
             /\ \A dev \in Devices, key \in Keys :
                  RowStep(dev, key) /\ \A n \in Fetches : AnswerStep(dev, n, key)

(* Every step does one of these.                                           *)
LEMMA FetchEffect ==
  ASSUME TypeOK, [Next]_vars
  PROVE  FetchStep
<1>0. /\ rows \in [Devices -> [Keys -> Doc]] /\ overlooked \in SUBSET Files
      /\ answers \in [Devices -> [Fetches -> [Keys -> Doc]]]
      /\ Nothing \in [Keys -> Doc] /\ \A key \in Keys : Nothing[key] = NoDoc
      BY DEF TypeOK, Nothing, NoDoc, Doc
<1>1. ASSUME UNCHANGED <<rows, answers>>, overlooked' \in SUBSET Files
      PROVE  FetchStep
      BY <1>0, <1>1 DEF FetchStep, FetchedOK, RowStep, AnswerStep
<1>2. ASSUME NEW dev \in Devices, NEW key \in Keys
      PROVE  overlooked \cup Missed(dev, key) \in SUBSET Files
  <2>1. Seen(dev, key).posts \subseteq Post
        BY SeenIsTyped DEF Doc
  <2> QED BY <1>0, <2>1 DEF Missed, Links, Post
<1>3. ASSUME NEW dev \in Devices, NEW key \in Keys, OpenEdit(dev, key)
      PROVE  FetchStep
      BY <1>1, <1>2, <1>3 DEF OpenEdit, fetched
<1>4. ASSUME NEW dev \in Devices, NEW key \in Keys, DeleteFromFeed(dev, key)
      PROVE  FetchStep
  <2>1. /\ rows' = [rows EXCEPT ![dev] = [rows[dev] EXCEPT ![key] = NoDoc]]
        /\ answers' = answers /\ overlooked' \in SUBSET Files
        BY <1>2, <1>4 DEF DeleteFromFeed, DeleteProject
  <2>2. NoDoc \in Doc
        BY DEF NoDoc, Doc
  <2> QED BY <1>0, <2>1, <2>2 DEF FetchStep, FetchedOK, RowStep, AnswerStep
<1>5. ASSUME NEW dev \in Devices, NEW n \in Fetches, FeedCompleted(dev, n)
      PROVE  FetchStep
  <2> DEFINE got == answers[dev][n]
             shown == [key \in Keys |-> IF Listed(got[key]) THEN got[key] ELSE NoDoc]
  <2>1. /\ rows' = [rows EXCEPT ![dev] = shown] /\ overlooked' = overlooked
        /\ answers' = [answers EXCEPT ![dev] = [answers[dev] EXCEPT ![n] = Nothing]]
        BY <1>5 DEF FeedCompleted
  <2>2. shown \in [Keys -> Doc] /\ \A key \in Keys : shown[key] \in {NoDoc, got[key]}
        BY <1>0 DEF NoDoc, Doc
  <2> HIDE DEF shown
  <2>3. \A d \in Devices, key \in Keys : RowStep(d, key)
        BY <1>0, <2>1, <2>2 DEF RowStep
  <2>4. \A d \in Devices, key \in Keys, m \in Fetches : AnswerStep(d, m, key)
        BY <1>0, <2>1 DEF AnswerStep
  <2>5. FetchedOK'
        BY <1>0, <2>1, <2>2 DEF FetchedOK
  <2> QED BY <2>3, <2>4, <2>5 DEF FetchStep
<1>6. ASSUME NEW dev \in Devices, NEW n \in Fetches, NEW u \in Users, ProjectsAnswered(dev, n, u)
      PROVE  FetchStep
  <2> DEFINE got == answers[dev][n]
             now == [key \in Keys |-> IF key[1] = u THEN Seen(dev, key) ELSE got[key]]
  <2>1. /\ rows' = rows /\ overlooked' = overlooked
        /\ answers' = [answers EXCEPT ![dev] = [answers[dev] EXCEPT ![n] = now]]
        BY <1>6 DEF ProjectsAnswered
  <2>2. \A key \in Keys : Seen(dev, key) \in Doc
        BY SeenIsTyped
  <2>3. now \in [Keys -> Doc] /\ \A key \in Keys : now[key] \in {got[key], Seen(dev, key)}
        BY <1>0, <2>2
  <2> HIDE DEF now
  <2>4. \A d \in Devices, key \in Keys, m \in Fetches : AnswerStep(d, m, key)
        BY <1>0, <2>1, <2>3 DEF AnswerStep
  <2>5. FetchedOK'
        BY <1>0, <2>1, <2>3 DEF FetchedOK
  <2>6. \A d \in Devices, key \in Keys : RowStep(d, key)
        BY <2>1 DEF RowStep
  <2> QED BY <2>4, <2>5, <2>6 DEF FetchStep
<1>7. ASSUME NEW dev \in Devices, AppKilled(dev)
      PROVE  FetchStep
  <2>1. /\ rows' = [rows EXCEPT ![dev] = Nothing] /\ overlooked' = overlooked
        /\ answers' = [answers EXCEPT ![dev] = [n \in Fetches |-> Nothing]]
        BY <1>7 DEF AppKilled
  <2>2. \A d \in Devices, key \in Keys : RowStep(d, key)
        BY <1>0, <2>1 DEF RowStep
  <2>3. \A d \in Devices, key \in Keys, m \in Fetches : AnswerStep(d, m, key)
        BY <1>0, <2>1 DEF AnswerStep
  <2>4. FetchedOK'
        BY <1>0, <2>1 DEF FetchedOK
  <2> QED BY <2>2, <2>3, <2>4 DEF FetchStep
<1>8. ASSUME NEW dev \in Devices,
             \/ OpenNew(dev) \/ Edited(dev) \/ Cancelled(dev) \/ SaveTapped(dev)
             \/ DeleteFromEditor(dev) \/ Uploaded(dev) \/ UploadsDone(dev) \/ TitleAcked(dev)
             \/ Removed(dev) \/ WriteReachesServer(dev)
      PROVE  FetchStep
  <2>1. UNCHANGED <<rows, answers>> /\ overlooked' = overlooked
        BY <1>8 DEF OpenNew, Edited, PhotoPicked, PostRemoved, Cancelled, SaveTapped,
                    DeleteFromEditor, DeleteProject, Uploaded, PhotoPut, PhotoLinked, UploadsDone,
                    TitleAcked, Removed, FileRemoved, WriteReachesServer, fetched
  <2> QED BY <1>0, <1>1, <2>1
<1>9. CASE UNCHANGED vars
      BY <1>0, <1>1, <1>9 DEF vars
<1>10. ASSUME NEW dev \in Devices, Steps(dev)
       PROVE  FetchStep
       BY <1>3, <1>4, <1>5, <1>6, <1>7, <1>8, <1>10 DEF Steps, Opened, Deleted, Fetched
<1> QED BY <1>9, <1>10 DEF Next

(* So each step preserves the types.                                       *)
LEMMA StepTypeOK == TypeOK /\ OwnWork /\ OneTitle /\ [Next]_vars => TypeOK'
<1>1. TypeOK /\ [Next]_vars => FetchedOK'
      BY FetchEffect DEF FetchStep
<1>2. TypeOK' <=> FetchedOK' /\ OthersOK'
      BY DEF TypeOK, FetchedOK, OthersOK
<1> QED BY <1>1, <1>2, StepOthersOK

-----------------------------------------------------------------------------
(* What a step does to the queues: nothing, the head of one is sent, or a  *)
(* device queues writes under its user, with posts of its form.            *)
OwnWrites(dev, ws) ==
  \A i \in 1..Len(ws) : /\ ws[i].key[1] = AccountOf[dev]
                        /\ ws[i].life = kills[dev]
                        /\ ws[i].posts \subseteq form[dev].posts

(* saveProject queues one write of the device's own.                       *)
LEMMA SaveProjectQueues ==
  ASSUME TypeOK, NEW dev \in Devices, NEW f \in Form, SaveProject(dev, f)
  PROVE  \E ws \in Seq(Writes) : Queue(dev, ws) /\ OwnWrites(dev, ws)
<1>1. PICK id \in ProjectIds, w \in Writes :
           /\ w.key = <<AccountOf[dev], id>> /\ w.posts = {} /\ w.life = kills[dev]
           /\ Queue(dev, <<w>>)
      BY SaveProjectEffect
<1>2. <<w>> \in Seq(Writes) /\ Len(<<w>>) = 1 /\ <<w>>[1] = w
      BY OneWrite
<1>3. OwnWrites(dev, <<w>>)
      BY <1>1, <1>2 DEF OwnWrites
<1> QED BY <1>1, <1>2, <1>3

(* So does deleteProject.                                                  *)
LEMMA DeleteProjectQueues ==
  ASSUME TypeOK, NEW dev \in Devices, NEW id \in ProjectIds, NEW posts \in SUBSET Post,
         DeleteProject(dev, id, posts)
  PROVE  \E ws \in Seq(Writes) : Queue(dev, ws) /\ OwnWrites(dev, ws)
<1> DEFINE w == Write(dev, "drop", id, {})
<1>1. /\ w \in Writes /\ w.key = <<AccountOf[dev], id>> /\ w.posts = {} /\ w.life = kills[dev]
      BY WriteIsTyped
<1>2. Queue(dev, <<w>>)
      BY DEF DeleteProject
<1> HIDE DEF w
<1>3. <<w>> \in Seq(Writes) /\ Len(<<w>>) = 1 /\ <<w>>[1] = w
      BY <1>1, OneWrite
<1>4. OwnWrites(dev, <<w>>)
      BY <1>1, <1>3 DEF OwnWrites
<1> QED BY <1>2, <1>3, <1>4

(* Those are the only writes: nothing else touches a queue.                *)
LEMMA QueueEffect ==
  ASSUME TypeOK, OneTitle, [Next]_vars
  PROVE  \/ outbox' = outbox
         \/ \E dev \in Devices : WriteReachesServer(dev)
         \/ \E dev \in Devices, ws \in Seq(Writes) : Queue(dev, ws) /\ OwnWrites(dev, ws)
<1> DEFINE Queues(dev) == \E ws \in Seq(Writes) : Queue(dev, ws) /\ OwnWrites(dev, ws)
<1>1. CASE UNCHANGED vars
      BY <1>1 DEF vars
<1>2. ASSUME NEW dev \in Devices, SaveTapped(dev)
      PROVE  outbox' = outbox \/ Queues(dev)
  <2>1. PICK text \in {form[dev].text, TRUE} :
          LET f == [form[dev] EXCEPT !.text = text] IN
          (f.posts # {} /\ outbox' = outbox) \/ SaveProject(dev, f)
        BY <1>2 DEF SaveTapped
  <2>a. form[dev] \in Form
        BY DEF TypeOK
  <2>b. text \in BOOLEAN
        BY <2>1, <2>a DEF Form
  <2>2. [form[dev] EXCEPT !.text = text] \in Form
        BY <2>a, <2>b DEF Form
  <2> QED BY <2>1, <2>2, SaveProjectQueues
<1>3. ASSUME NEW dev \in Devices, UploadsDone(dev)
      PROVE  Queues(dev)
  <2>1. form[dev] \in Form /\ SaveProject(dev, form[dev])
        BY <1>3 DEF UploadsDone, TypeOK
  <2> QED BY <2>1, SaveProjectQueues
<1>4. ASSUME NEW dev \in Devices, TitleAcked(dev)
      PROVE  Queues(dev)
  <2>1. form[dev].uid \in ProjectIds
        BY <1>4 DEF TitleAcked, OneTitle, OneTitleOf
  <2>2. PICK ws \in Seq(Writes) :
           /\ Queue(dev, ws)
           /\ \A i \in 1..Len(ws) :
                /\ ws[i].kind \in {"text", "posts"}
                /\ ws[i].key = <<AccountOf[dev], form[dev].uid>>
                /\ ws[i].posts \subseteq form[dev].posts
                /\ ws[i].life = kills[dev]
        BY <1>4, <2>1, TitleAckedQueues
  <2>3. OwnWrites(dev, ws)
        BY <2>2 DEF OwnWrites
  <2> QED BY <2>2, <2>3
<1>5. ASSUME NEW dev \in Devices, NEW key \in Keys, DeleteFromFeed(dev, key)
      PROVE  Queues(dev)
  <2>1. key[2] \in ProjectIds /\ rows[dev][key].posts \subseteq Post
        BY RowsAreTyped DEF Keys
  <2> QED BY <1>5, <2>1, DeleteProjectQueues DEF DeleteFromFeed
<1>6. ASSUME NEW dev \in Devices, DeleteFromEditor(dev)
      PROVE  Queues(dev)
  <2>1. form[dev].uid \in ProjectIds /\ form[dev].posts \subseteq Post
        BY <1>6 DEF DeleteFromEditor, TypeOK, Form
  <2> QED BY <1>6, <2>1, DeleteProjectQueues DEF DeleteFromEditor
<1>7. ASSUME NEW dev \in Devices,
             \/ Opened(dev) \/ Edited(dev) \/ Cancelled(dev) \/ Uploaded(dev) \/ AppKilled(dev)
             \/ Removed(dev) \/ Fetched(dev)
      PROVE  outbox' = outbox
      BY <1>7, FetchLeaves DEF Opened, OpenNew, OpenEdit, Edited, PhotoPicked, PostRemoved, Cancelled,
                  Uploaded, PhotoPut, PhotoLinked, AppKilled, Removed, FileRemoved
<1> HIDE DEF Queues
<1>8. CASE Next
  <2>1. PICK dev \in Devices : Steps(dev)
        BY <1>8 DEF Next
  <2>2. Deleted(dev) => Queues(dev)
        BY <1>5, <1>6 DEF Deleted
  <2>3. outbox' = outbox \/ WriteReachesServer(dev) \/ Queues(dev)
        BY <2>1, <2>2, <1>2, <1>3, <1>4, <1>7 DEF Steps
  <2> QED BY <2>3 DEF Queues
<1> QED BY <1>1, <1>8

-----------------------------------------------------------------------------
(* Files that are stored or were given up stay so: a file only disappears  *)
(* when somebody asked for it.                                             *)
LEMMA SafeGrows ==
  ASSUME TypeOK, PendingLinksLead, [Next]_vars
  PROVE  files \cup discarded \subseteq files' \cup discarded' /\ discarded \subseteq discarded'
<1>1. CASE UNCHANGED vars
      BY <1>1 DEF vars
<1>2. ASSUME NEW dev \in Devices, SaveTapped(dev) \/ Deleted(dev)
      PROVE  files' = files /\ discarded \subseteq discarded'
      BY <1>2 DEF SaveTapped, Deleted, DeleteFromEditor, DeleteFromFeed, DeleteProject,
                  AskRemoval, server
<1>3. ASSUME NEW dev \in Devices, Uploaded(dev)
      PROVE  files \subseteq files' /\ discarded' = discarded
      BY <1>3 DEF Uploaded, PhotoPut, PhotoLinked, server
<1>4. ASSUME NEW dev \in Devices, NEW f \in removing[dev], FileRemoved(dev, f)
      PROVE  files \ {f} \subseteq files' /\ discarded' = discarded /\ f \in discarded
      BY <1>4 DEF FileRemoved, PendingLinksLead
<1>5. ASSUME NEW dev \in Devices,
             \/ Opened(dev) \/ Edited(dev) \/ Cancelled(dev) \/ UploadsDone(dev)
             \/ TitleAcked(dev) \/ WriteReachesServer(dev) \/ AppKilled(dev) \/ Fetched(dev)
      PROVE  files' = files /\ discarded' = discarded
      BY <1>5, FetchLeaves DEF Opened, OpenNew, OpenEdit, Edited, PhotoPicked, PostRemoved, Cancelled,
                  UploadsDone, TitleAcked, WriteReachesServer, AppKilled, server
<1> QED BY <1>1, <1>2, <1>3, <1>4, <1>5 DEF Next, Steps, Removed

(* A post that led to a photo still does.                                  *)
LEMMA StillLeads ==
  ASSUME TypeOK, PendingLinksLead, [Next]_vars, NEW p, Leads(p)
  PROVE  Leads(p)'
BY SafeGrows DEF Leads

(* What is being deleted was asked for, by a device of its owner.          *)
LEMMA RemovalsStep ==
  ASSUME TypeOK, PendingLinksLead, OwnWork, [Next]_vars
  PROVE  \A d \in Devices : /\ removing'[d] \subseteq discarded'
                            /\ \A f \in removing'[d] : f[1] = AccountOf[d]
<1> DEFINE Asked == \A d \in Devices : /\ removing'[d] \subseteq discarded'
                                       /\ \A f \in removing'[d] : f[1] = AccountOf[d]
<1>0. \A d \in Devices : /\ removing[d] \subseteq discarded
                         /\ \A f \in removing[d] : f[1] = AccountOf[d]
      BY DEF PendingLinksLead, OwnWork
<1>1. CASE UNCHANGED vars
      BY <1>0, <1>1 DEF vars
<1>2. ASSUME NEW dev \in Devices, NEW names, AskRemoval(dev, names)
      PROVE  Asked
      BY <1>0, <1>2 DEF AskRemoval, FileOf, TypeOK
<1>3. ASSUME NEW dev \in Devices, SaveTapped(dev)
      PROVE  Asked
      BY <1>2, <1>3 DEF SaveTapped
<1>4. ASSUME NEW dev \in Devices, Deleted(dev)
      PROVE  Asked
      BY <1>2, <1>4 DEF Deleted, DeleteFromEditor, DeleteFromFeed, DeleteProject
<1>5. ASSUME NEW dev \in Devices, NEW f \in removing[dev], FileRemoved(dev, f)
      PROVE  Asked
      BY <1>0, <1>5 DEF FileRemoved, TypeOK
<1>6. ASSUME NEW dev \in Devices, AppKilled(dev)
      PROVE  Asked
      BY <1>0, <1>6 DEF AppKilled, TypeOK
<1>7. ASSUME NEW dev \in Devices,
             \/ Opened(dev) \/ Edited(dev) \/ Cancelled(dev) \/ Uploaded(dev)
             \/ UploadsDone(dev) \/ TitleAcked(dev) \/ WriteReachesServer(dev) \/ Fetched(dev)
      PROVE  removing' = removing /\ discarded' = discarded
      BY <1>7, FetchLeaves DEF Opened, OpenNew, OpenEdit, Edited, PhotoPicked, PostRemoved, Cancelled,
                  Uploaded, PhotoPut, PhotoLinked, UploadsDone, TitleAcked, WriteReachesServer
<1>8. CASE Next
  <2>1. PICK dev \in Devices : Steps(dev)
        BY <1>8 DEF Next
  <2>2. (removing' = removing /\ discarded' = discarded) => Asked
        BY <1>0
  <2>3. Removed(dev) => Asked
        BY <1>5 DEF Removed
  <2> HIDE DEF Asked
  <2>4. Asked
        BY <2>1, <2>2, <2>3, <1>3, <1>4, <1>6, <1>7 DEF Steps
  <2> QED BY <2>4 DEF Asked
<1> QED BY <1>1, <1>8

(* What a step does to the forms: one device's form changes, to one with   *)
(* no posts but its own, those of a row, a post without a link, or the     *)
(* post of a file just stored; and it never stops being that device's.     *)
NewPosts(dev) ==
  \A p \in form'[dev].posts :
    \/ p \in form[dev].posts
    \/ \E key \in Keys : p \in rows[dev][key].posts
    \/ ~p.linked
    \/ p.photo \in form[dev].up

NewFiles(dev) == \A f \in form'[dev].fresh : f \in form[dev].fresh \/ f[1] = AccountOf[dev]

(* No other form changes, and no file but the device's own is added.       *)
LEMMA FormEffect ==
  ASSUME TypeOK, [Next]_vars
  PROVE  \/ form' = form
         \/ \E dev \in Devices : /\ \A d \in Devices \ {dev} : form'[d] = form[d]
                                 /\ NewPosts(dev)
                                 /\ form'[dev].up \subseteq form[dev].up \cup files'
                                 /\ NewFiles(dev)
<1> DEFINE Others(dev) == \A d \in Devices \ {dev} : form'[d] = form[d]
           Changes(dev) == /\ Others(dev) /\ NewPosts(dev)
                           /\ form'[dev].up \subseteq form[dev].up \cup files'
                           /\ NewFiles(dev)
<1>1. CASE UNCHANGED vars
      BY <1>1 DEF vars
<1>2. ASSUME NEW dev \in Devices, form' = [form EXCEPT ![dev] = NoForm]
      PROVE  Changes(dev)
      BY <1>2 DEF NewPosts, NewFiles, NoForm, TypeOK
<1>3. ASSUME NEW dev \in Devices,
             \/ OpenNew(dev) \/ Cancelled(dev) \/ TitleAcked(dev) \/ Deleted(dev) \/ AppKilled(dev)
      PROVE  Changes(dev)
  <2>1. form' = [form EXCEPT ![dev] = NoForm]
        BY <1>3 DEF OpenNew, Cancelled, TitleAcked, Deleted, DeleteFromEditor, DeleteFromFeed,
                    DeleteProject, AppKilled
  <2> QED BY <2>1, <1>2
<1>4. ASSUME NEW dev \in Devices, NEW key \in Keys, OpenEdit(dev, key)
      PROVE  Changes(dev)
  <2> DEFINE g == [NoForm EXCEPT !.uid = key[2], !.posts = rows[dev][key].posts,
                                 !.text = rows[dev][key].text]
  <2>1. form' = [form EXCEPT ![dev] = g]
        BY <1>4 DEF OpenEdit
  <2>2. form'[dev] = g /\ Others(dev)
        BY <2>1 DEF TypeOK
  <2>3. g.posts = rows[dev][key].posts /\ g.up = {} /\ g.fresh = {}
        BY DEF NoForm
  <2> QED BY <2>2, <2>3 DEF NewPosts, NewFiles
<1>5. ASSUME NEW dev \in Devices, NEW name \in Photos, PhotoPicked(dev, name)
      PROVE  Changes(dev)
  <2> DEFINE g == [form[dev] EXCEPT !.posts = @ \cup {[photo |-> FileOf(dev, name), linked |-> FALSE]},
                                    !.fresh = @ \cup {FileOf(dev, name)}]
  <2>1. form' = [form EXCEPT ![dev] = g]
        BY <1>5 DEF PhotoPicked
  <2>2. form'[dev] = g /\ Others(dev)
        BY <2>1 DEF TypeOK
  <2>3. /\ g.posts = form[dev].posts \cup {[photo |-> FileOf(dev, name), linked |-> FALSE]}
        /\ g.up = form[dev].up /\ g.fresh = form[dev].fresh \cup {FileOf(dev, name)}
        BY DEF TypeOK, Form
  <2>4. FileOf(dev, name)[1] = AccountOf[dev]
        BY DEF FileOf
  <2> QED BY <2>2, <2>3, <2>4 DEF NewPosts, NewFiles
<1>6. ASSUME NEW dev \in Devices, NEW p \in form[dev].posts, PostRemoved(dev, p)
      PROVE  Changes(dev)
  <2> DEFINE g == [form[dev] EXCEPT !.posts = @ \ {p},
                                    !.fresh = @ \ {p.photo},
                                    !.trash = IF p.linked THEN @ \cup {p.photo[2]} ELSE @]
  <2>1. form' = [form EXCEPT ![dev] = g]
        BY <1>6 DEF PostRemoved
  <2>2. form'[dev] = g /\ Others(dev)
        BY <2>1 DEF TypeOK
  <2>3. g.posts = form[dev].posts \ {p} /\ g.up = form[dev].up /\ g.fresh \subseteq form[dev].fresh
        BY DEF TypeOK, Form
  <2> QED BY <2>2, <2>3 DEF NewPosts, NewFiles
<1>7. ASSUME NEW dev \in Devices, NEW f \in Form, SaveProject(dev, f),
             f.posts = form[dev].posts, f.up = form[dev].up, f.fresh = form[dev].fresh
      PROVE  Changes(dev)
  <2>0. SaveProject(dev, f)
        BY <1>7
  <2>1. PICK id \in ProjectIds, w \in Writes :
           /\ w.kind \in {"create", "title"} /\ w.key = <<AccountOf[dev], id>>
           /\ w.posts = {} /\ w.life = kills[dev]
           /\ Queue(dev, <<w>>)
           /\ form' = [form EXCEPT ![dev] = [f EXCEPT !.uid = id]]
           /\ drawn' \subseteq ProjectIds \cup Photos
        BY <2>0, SaveProjectEffect
  <2>2. form'[dev] = [f EXCEPT !.uid = id] /\ Others(dev)
        BY <2>1 DEF TypeOK
  <2>3. /\ form'[dev].posts = form[dev].posts /\ form'[dev].up = form[dev].up
        /\ form'[dev].fresh = form[dev].fresh
        BY <1>7, <2>2 DEF Form
  <2> QED BY <2>2, <2>3 DEF NewPosts, NewFiles
<1>8. ASSUME NEW dev \in Devices, SaveTapped(dev)
      PROVE  Changes(dev)
  <2>1. PICK text \in {form[dev].text, TRUE} :
          LET f == [form[dev] EXCEPT !.text = text] IN
          form' = [form EXCEPT ![dev] = f] \/ SaveProject(dev, f)
        BY <1>8 DEF SaveTapped
  <2> DEFINE f == [form[dev] EXCEPT !.text = text]
  <2>2. /\ f \in Form /\ f.posts = form[dev].posts /\ f.up = form[dev].up
        /\ f.fresh = form[dev].fresh
        BY DEF TypeOK, Form
  <2>3. CASE form' = [form EXCEPT ![dev] = f]
    <3>1. form'[dev] = f /\ Others(dev)
          BY <2>3 DEF TypeOK
    <3> QED BY <2>2, <3>1 DEF NewPosts, NewFiles
  <2> HIDE DEF f
  <2>4. CASE SaveProject(dev, f)
        BY <2>2, <2>4, <1>7
  <2> QED BY <2>1, <2>3, <2>4 DEF f
<1>9. ASSUME NEW dev \in Devices, UploadsDone(dev)
      PROVE  Changes(dev)
  <2>1. form[dev] \in Form /\ SaveProject(dev, form[dev])
        BY <1>9 DEF UploadsDone, TypeOK
  <2> QED BY <2>1, <1>7
<1>10. ASSUME NEW dev \in Devices, NEW f \in form[dev].fresh, PhotoPut(dev, f)
       PROVE  Changes(dev)
  <2>1. \/ files' = files \cup {f} /\ form' = [form EXCEPT ![dev] = [form[dev] EXCEPT !.up = {f}]]
        \/ form' = [form EXCEPT ![dev] = [form[dev] EXCEPT !.fresh = @ \ {f}]]
        BY <1>10 DEF PhotoPut
  <2>2. form \in [Devices -> Form] /\ form[dev] \in Form
        BY DEF TypeOK
  <2>3. CASE /\ files' = files \cup {f}
             /\ form' = [form EXCEPT ![dev] = [form[dev] EXCEPT !.up = {f}]]
    <3>1. form'[dev] = [form[dev] EXCEPT !.up = {f}] /\ Others(dev)
          BY <2>2, <2>3
    <3> QED BY <2>2, <2>3, <3>1 DEF NewPosts, NewFiles, Form
  <2>4. CASE form' = [form EXCEPT ![dev] = [form[dev] EXCEPT !.fresh = @ \ {f}]]
    <3>1. form'[dev] = [form[dev] EXCEPT !.fresh = @ \ {f}] /\ Others(dev)
          BY <2>2, <2>4
    <3> QED BY <2>2, <3>1 DEF NewPosts, NewFiles, Form
  <2> QED BY <2>1, <2>3, <2>4
<1>11. ASSUME NEW dev \in Devices, NEW f \in form[dev].fresh, PhotoLinked(dev, f)
       PROVE  Changes(dev)
  <2>1. PICK linked \in BOOLEAN :
          form' = [form EXCEPT ![dev] = [form[dev] EXCEPT !.posts = {p \in @ : p.photo # f}
                                                               \cup {[photo |-> f, linked |-> linked]},
                                                  !.fresh = @ \ {f},
                                                  !.up = {}]]
        BY <1>11 DEF PhotoLinked
  <2> DEFINE g == [form[dev] EXCEPT !.posts = {p \in @ : p.photo # f}
                                                \cup {[photo |-> f, linked |-> linked]},
                                    !.fresh = @ \ {f},
                                    !.up = {}]
  <2>2. form'[dev] = g /\ Others(dev)
        BY <2>1 DEF TypeOK
  <2>3. /\ g.posts = {p \in form[dev].posts : p.photo # f} \cup {[photo |-> f, linked |-> linked]}
        /\ g.up = {} /\ g.fresh \subseteq form[dev].fresh
        BY DEF TypeOK, Form
  <2>4. f \in form[dev].up
        BY <1>11 DEF PhotoLinked
  <2> HIDE DEF g
  <2> QED BY <2>2, <2>3, <2>4 DEF NewPosts, NewFiles
<1>12. ASSUME NEW dev \in Devices,
              WriteReachesServer(dev) \/ Removed(dev) \/ Fetched(dev)
       PROVE  form' = form
       BY <1>12, FetchLeaves DEF WriteReachesServer, Removed, FileRemoved
<1> HIDE DEF Changes
<1>13. CASE Next
  <2>1. PICK dev \in Devices : Steps(dev)
        BY <1>13 DEF Next
  <2>2. Opened(dev) => Changes(dev)
        BY <1>3, <1>4 DEF Opened
  <2>3. Edited(dev) => Changes(dev)
        BY <1>5, <1>6 DEF Edited
  <2>4. Uploaded(dev) => Changes(dev)
        BY <1>10, <1>11 DEF Uploaded
  <2>5. form' = form \/ Changes(dev)
        BY <2>1, <2>2, <2>3, <2>4, <1>3, <1>8, <1>9, <1>12 DEF Steps
  <2> QED BY <2>5 DEF Changes
<1> QED BY <1>1, <1>13

(* The posts of the forms still lead to photos.                            *)
LEMMA FormsStep ==
  ASSUME TypeOK, LinksLead, PendingLinksLead, [Next]_vars
  PROVE  \A d \in Devices : /\ \A p \in form'[d].posts : Leads(p)'
                            /\ form'[d].up \subseteq files' \cup discarded'
<1>1. \A d \in Devices : /\ \A p \in form[d].posts : Leads(p)
                         /\ form[d].up \subseteq files \cup discarded
      BY DEF PendingLinksLead
<1>2. /\ \A p : Leads(p) => Leads(p)'
      /\ files \cup discarded \subseteq files' \cup discarded'
      BY SafeGrows, StillLeads
<1>3. CASE form' = form
      BY <1>1, <1>2, <1>3
<1>4. ASSUME NEW dev \in Devices, \A d \in Devices \ {dev} : form'[d] = form[d],
             NewPosts(dev), form'[dev].up \subseteq form[dev].up \cup files'
      PROVE  \A d \in Devices : /\ \A p \in form'[d].posts : Leads(p)'
                                /\ form'[d].up \subseteq files' \cup discarded'
  <2>1. \A key \in Keys : \A p \in rows[dev][key].posts : Leads(p)
        BY DEF PendingLinksLead
  <2>2. ASSUME NEW p \in form'[dev].posts
        PROVE  Leads(p)'
    <3>1. CASE p \in form[dev].posts \/ \E key \in Keys : p \in rows[dev][key].posts
          BY <1>1, <1>2, <2>1, <3>1
    <3>2. CASE ~p.linked
          BY <3>2 DEF Leads
    <3>3. CASE p.photo \in form[dev].up
          BY <1>1, <1>2, <3>3 DEF Leads
    <3> QED BY <1>4, <3>1, <3>2, <3>3 DEF NewPosts
  <2>3. form'[dev].up \subseteq files' \cup discarded'
        BY <1>1, <1>2, <1>4
  <2>4. ASSUME NEW d \in Devices \ {dev}
        PROVE  /\ \A p \in form'[d].posts : Leads(p)'
               /\ form'[d].up \subseteq files' \cup discarded'
        BY <1>1, <1>2, <1>4
  <2> QED BY <2>2, <2>3, <2>4
<1> QED BY <1>3, <1>4, FormEffect

(* What a step does to the queues, write by write: every write of a queue  *)
(* was in it, or is one of the device's own.                               *)
LEMMA QueueSteps ==
  ASSUME TypeOK, OneTitle, [Next]_vars, NEW d \in Devices, NEW i \in 1..Len(outbox'[d])
  PROVE  \/ \E j \in 1..Len(outbox[d]) : outbox'[d][i] = outbox[d][j]
         \/ /\ outbox'[d][i].key[1] = AccountOf[d]
            /\ outbox'[d][i].life = kills[d]
            /\ outbox'[d][i].posts \subseteq form[d].posts
<1>1. CASE outbox' = outbox
      BY <1>1
<1>2. ASSUME NEW dev \in Devices, WriteReachesServer(dev)
      PROVE  \E j \in 1..Len(outbox[d]) : outbox'[d][i] = outbox[d][j]
  <2>1. outbox' = [outbox EXCEPT ![dev] = Tail(outbox[dev])] /\ outbox[dev] # << >>
        BY <1>2 DEF WriteReachesServer
  <2>2. CASE d # dev
        BY <2>1, <2>2 DEF TypeOK
  <2>3. CASE d = dev
    <3>1. outbox[d] \in Seq(Writes) /\ outbox'[d] = Tail(outbox[d])
          BY <2>1, <2>3 DEF TypeOK
    <3>2. /\ Len(outbox[d]) \in Nat \ {0} /\ Len(outbox'[d]) = Len(outbox[d]) - 1
          /\ \A k \in 1..Len(outbox[d])-1 : outbox'[d][k] = outbox[d][k + 1]
          BY <2>1, <2>3, <3>1, QueueShrinks
    <3>3. i + 1 \in 1..Len(outbox[d]) /\ outbox'[d][i] = outbox[d][i + 1]
          BY <3>2
    <3> QED BY <3>3
  <2> QED BY <2>2, <2>3
<1>3. ASSUME NEW dev \in Devices, NEW ws \in Seq(Writes), Queue(dev, ws), OwnWrites(dev, ws)
      PROVE  \/ \E j \in 1..Len(outbox[d]) : outbox'[d][i] = outbox[d][j]
             \/ /\ outbox'[d][i].key[1] = AccountOf[d]
                /\ outbox'[d][i].life = kills[d]
                /\ outbox'[d][i].posts \subseteq form[d].posts
  <2>1. CASE d # dev
        BY <1>3, <2>1, QueueGrows
  <2>2. CASE d = dev
    <3>0. /\ \A k \in 1..Len(outbox[dev]) : outbox'[dev][k] = outbox[dev][k]
          /\ \A k \in 1..Len(outbox'[dev]) :
               \/ k \in 1..Len(outbox[dev])
               \/ /\ k - Len(outbox[dev]) \in 1..Len(ws)
                  /\ outbox'[dev][k] = ws[k - Len(outbox[dev])]
          BY <1>3, QueueGrows
    <3>1. /\ \A k \in 1..Len(outbox[d]) : outbox'[d][k] = outbox[d][k]
          /\ \/ i \in 1..Len(outbox[d])
             \/ /\ i - Len(outbox[d]) \in 1..Len(ws)
                /\ outbox'[d][i] = ws[i - Len(outbox[d])]
          BY <2>2, <3>0
    <3>2. CASE i \in 1..Len(outbox[d])
          BY <3>1, <3>2
    <3>3. CASE /\ i - Len(outbox[d]) \in 1..Len(ws)
               /\ outbox'[d][i] = ws[i - Len(outbox[d])]
      <4>1. PICK j \in 1..Len(ws) : outbox'[d][i] = ws[j]
            BY <3>3
      <4> QED BY <1>3, <2>2, <4>1 DEF OwnWrites
    <3> QED BY <3>1, <3>2, <3>3
  <2> QED BY <2>1, <2>2
<1> QED BY <1>1, <1>2, <1>3, QueueEffect

(* The posts of the waiting writes still lead to photos.                   *)
LEMMA QueuesLead ==
  ASSUME TypeOK, OneTitle, PendingLinksLead, [Next]_vars
  PROVE  \A d \in Devices : \A i \in 1..Len(outbox'[d]) : \A p \in outbox'[d][i].posts : Leads(p)'
<1> TAKE d \in Devices
<1> TAKE i \in 1..Len(outbox'[d])
<1>1. \A p \in outbox'[d][i].posts : Leads(p)
      BY QueueSteps DEF PendingLinksLead
<1> QED BY <1>1, StillLeads

(* Only a write that reaches the server changes a document, and it leaves  *)
(* no posts but the document's and its own.                                *)
LEMMA DocsEffect ==
  ASSUME TypeOK, [Next]_vars
  PROVE  \/ docs' = docs
         \/ \E dev \in Devices :
              /\ WriteReachesServer(dev)
              /\ Len(outbox[dev]) \in Nat \ {0} /\ outbox[dev][1].key \in Keys
              /\ \A key \in Keys \ {outbox[dev][1].key} : docs'[key] = docs[key]
              /\ docs'[outbox[dev][1].key].posts
                   \subseteq docs[outbox[dev][1].key].posts \cup outbox[dev][1].posts
<1>1. CASE UNCHANGED vars
      BY <1>1 DEF vars
<1>2. ASSUME NEW dev \in Devices, Steps(dev), ~WriteReachesServer(dev)
      PROVE  docs' = docs
      BY <1>2, FetchLeaves
         DEF Steps, Opened, OpenNew, OpenEdit, Edited, PhotoPicked, PostRemoved, Cancelled,
                  SaveTapped, Deleted, DeleteFromEditor, DeleteFromFeed, DeleteProject, Uploaded,
                  PhotoPut, PhotoLinked, UploadsDone, TitleAcked, Removed, FileRemoved, AppKilled,
                  server
<1>3. ASSUME NEW dev \in Devices, WriteReachesServer(dev)
      PROVE  /\ Len(outbox[dev]) \in Nat \ {0} /\ outbox[dev][1].key \in Keys
             /\ \A key \in Keys \ {outbox[dev][1].key} : docs'[key] = docs[key]
             /\ docs'[outbox[dev][1].key].posts
                  \subseteq docs[outbox[dev][1].key].posts \cup outbox[dev][1].posts
  <2> DEFINE w == outbox[dev][1]
  <2>1. outbox[dev] \in Seq(Writes) /\ outbox[dev] # << >>
        BY <1>3 DEF WriteReachesServer, TypeOK
  <2>2. w \in Writes /\ Head(outbox[dev]) = w /\ Len(outbox[dev]) \in Nat \ {0}
        BY <2>1, QueueShrinks
  <2>3. docs' = [docs EXCEPT ![w.key] = After(w, docs[w.key])]
        BY <1>3, <2>2 DEF WriteReachesServer
  <2>4. w.key \in Keys
        BY <2>2 DEF Writes
  <2>5. After(w, docs[w.key]).posts \subseteq docs[w.key].posts \cup w.posts
        BY <2>2, <2>4, AfterIsTyped DEF TypeOK
  <2> QED BY <2>2, <2>3, <2>4, <2>5 DEF TypeOK
<1> QED BY <1>1, <1>2, <1>3 DEF Next

(* The posts of the feed still lead to photos, and those of its fetches.   *)
LEMMA RowsLead ==
  ASSUME TypeOK, LinksLead, PendingLinksLead, [Next]_vars, NEW dev \in Devices, NEW key \in Keys
  PROVE  /\ \A p \in rows'[dev][key].posts : Leads(p)'
         /\ \A n \in Fetches : \A p \in answers'[dev][n][key].posts : Leads(p)'
<1>1. \A p : Leads(p) => Leads(p)'
      BY StillLeads
<1>2. /\ \A p \in rows[dev][key].posts : Leads(p)
      /\ \A n \in Fetches : \A p \in answers[dev][n][key].posts : Leads(p)
      BY DEF PendingLinksLead
<1>3. \A p \in Seen(dev, key).posts : Leads(p)
      BY SeenIsTyped DEF LinksLead, PendingLinksLead
<1>4. RowStep(dev, key) /\ \A n \in Fetches : AnswerStep(dev, n, key)
      BY FetchEffect DEF FetchStep
<1>5. NoDoc.posts = {}
      BY DEF NoDoc
<1>6. \A p \in rows'[dev][key].posts : Leads(p)
      BY <1>2, <1>4, <1>5 DEF RowStep
<1>7. \A n \in Fetches : \A p \in answers'[dev][n][key].posts : Leads(p)
      BY <1>2, <1>3, <1>4, <1>5 DEF AnswerStep
<1> QED BY <1>1, <1>6, <1>7

(* Each step keeps the links of the projects, and of what is on its way.   *)
LEMMA StepLinksLead ==
  ASSUME StoreInv, [Next]_vars
  PROVE  LinksLead' /\ PendingLinksLead'
<1>0. TypeOK /\ OneTitle /\ OwnWork /\ LinksLead /\ PendingLinksLead
      BY DEF StoreInv
<1>1. PendingLinksLead'
      BY <1>0, FormsStep, QueuesLead, RemovalsStep, RowsLead DEF PendingLinksLead
<1>2. \A p : Leads(p) => Leads(p)'
      BY <1>0, StillLeads
<1>3. docs' = docs => \A key \in Keys : \A p \in docs'[key].posts : Leads(p)
      BY <1>0 DEF LinksLead
<1>4. ASSUME NEW dev \in Devices, Len(outbox[dev]) \in Nat \ {0}, outbox[dev][1].key \in Keys,
             \A key \in Keys \ {outbox[dev][1].key} : docs'[key] = docs[key],
             docs'[outbox[dev][1].key].posts
               \subseteq docs[outbox[dev][1].key].posts \cup outbox[dev][1].posts
      PROVE  \A key \in Keys : \A p \in docs'[key].posts : Leads(p)
  <2>1. \A p \in outbox[dev][1].posts : Leads(p)
        BY <1>0, <1>4 DEF PendingLinksLead
  <2> QED BY <1>0, <1>4, <2>1 DEF LinksLead
<1>5. LinksLead'
      BY <1>0, <1>2, <1>3, <1>4, DocsEffect DEF LinksLead
<1> QED BY <1>1, <1>5

(* Each step keeps a device to its user's work.                            *)
LEMMA StepOwnWork ==
  ASSUME StoreInv, [Next]_vars
  PROVE  OwnWork'
<1>0. TypeOK /\ OneTitle /\ OwnWork /\ PendingLinksLead
      BY DEF StoreInv
<1> SUFFICES ASSUME NEW d \in Devices
             PROVE  /\ \A i \in 1..Len(outbox'[d]) : outbox'[d][i].key[1] = AccountOf[d]
                    /\ \A f \in removing'[d] \cup form'[d].fresh : f[1] = AccountOf[d]
    BY DEF OwnWork
<1>1. \A i \in 1..Len(outbox'[d]) : outbox'[d][i].key[1] = AccountOf[d]
      BY <1>0, QueueSteps DEF OwnWork
<1>2. \A f \in removing'[d] : f[1] = AccountOf[d]
      BY <1>0, RemovalsStep
<1>3. \A f \in form'[d].fresh : f \in form[d].fresh \/ f[1] = AccountOf[d]
      BY <1>0, FormEffect DEF NewFiles
<1>4. \A f \in form[d].fresh : f[1] = AccountOf[d]
      BY <1>0 DEF OwnWork
<1> QED BY <1>1, <1>2, <1>3, <1>4

-----------------------------------------------------------------------------
(* A device that does not wait for a title has none on its way.            *)
Idle(dev) == TitlesOut(dev) = {} /\ dev \notin acked

(* Only a device that waits for a title has one on its way.                *)
LEMMA NotSavingIsIdle ==
  ASSUME OneTitle, NEW dev \in Devices, screen[dev] # "saving"
  PROVE  Idle(dev)
BY DEF OneTitle, OneTitleOf, Idle

(* What keeps OneTitleOf, for a device whose queue and life stay: ...      *)
LEMMA SameTitles ==
  ASSUME NEW dev \in Devices, outbox'[dev] = outbox[dev], kills'[dev] = kills[dev]
  PROVE  TitlesOut(dev)' = TitlesOut(dev)
BY DEF TitlesOut

(* ... that nothing else of it changes, ...                                *)
LEMMA TitleFrame ==
  ASSUME NEW dev \in Devices, OneTitleOf(dev),
         outbox'[dev] = outbox[dev], kills'[dev] = kills[dev],
         screen'[dev] = screen[dev], form'[dev].uid = form[dev].uid,
         dev \in acked' <=> dev \in acked
  PROVE  OneTitleOf(dev)'
<1>1. TitlesOut(dev)' = TitlesOut(dev)
      BY SameTitles
<1> QED BY <1>1 DEF OneTitleOf

(* ... or that it is idle.                                                 *)
LEMMA IdleFrame ==
  ASSUME NEW dev \in Devices, OneTitleOf(dev), Idle(dev),
         outbox'[dev] = outbox[dev], kills'[dev] = kills[dev], dev \notin acked'
  PROVE  OneTitleOf(dev)'
<1>1. TitlesOut(dev)' = {}
      BY SameTitles DEF Idle
<1> QED BY <1>1 DEF OneTitleOf

(* For a device that queues writes, in the same life: that the writes are  *)
(* no titles, ...                                                          *)
LEMMA NoTitleQueued ==
  ASSUME TypeOK, NEW dev \in Devices, OneTitleOf(dev), TitlesOut(dev) = {},
         NEW ws \in Seq(Writes), Queue(dev, ws), kills' = kills, dev \notin acked',
         \A i \in 1..Len(ws) : ws[i].life = kills[dev] /\ ws[i].kind \notin {"create", "title"}
  PROVE  OneTitleOf(dev)'
<1>1. \A i \in 1..Len(outbox'[dev]) :
        \/ i \in 1..Len(outbox[dev]) /\ outbox'[dev][i] = outbox[dev][i]
        \/ /\ outbox'[dev][i].life = kills[dev]
           /\ outbox'[dev][i].kind \notin {"create", "title"}
  <2>1. /\ \A i \in 1..Len(outbox[dev]) : outbox'[dev][i] = outbox[dev][i]
        /\ \A i \in 1..Len(outbox'[dev]) :
             \/ i \in 1..Len(outbox[dev])
             \/ /\ i - Len(outbox[dev]) \in 1..Len(ws)
                /\ outbox'[dev][i] = ws[i - Len(outbox[dev])]
        BY QueueGrows
  <2> QED BY <2>1
<1>2. kills[dev] \in Nat /\ kills'[dev] = kills[dev]
      BY StoreAssumption DEF TypeOK
<1>3. TitlesOut(dev)' = {}
      BY <1>1 DEF TitlesOut
<1>4. \A i \in 1..Len(outbox'[dev]) : outbox'[dev][i].life <= kills'[dev]
  <2>1. \A i \in 1..Len(outbox[dev]) : outbox[dev][i].life <= kills[dev]
        BY DEF OneTitleOf
  <2> QED BY <1>1, <1>2, <2>1
<1> QED BY <1>3, <1>4 DEF OneTitleOf

(* ... or that it was idle and queues one title as it starts to wait.      *)
LEMMA TitleQueued ==
  ASSUME TypeOK, NEW dev \in Devices, OneTitleOf(dev), Idle(dev),
         NEW f \in Form, SaveProject(dev, f), kills' = kills, acked' = acked,
         screen'[dev] = "saving"
  PROVE  OneTitleOf(dev)'
<1>1. PICK id \in ProjectIds, w \in Writes :
           /\ w.kind \in {"create", "title"} /\ w.key = <<AccountOf[dev], id>>
           /\ w.posts = {} /\ w.life = kills[dev]
           /\ Queue(dev, <<w>>)
           /\ form' = [form EXCEPT ![dev] = [f EXCEPT !.uid = id]]
           /\ drawn' \subseteq ProjectIds \cup Photos
      BY SaveProjectEffect
<1>2. <<w>> \in Seq(Writes) /\ Len(<<w>>) = 1 /\ <<w>>[1] = w
      BY OneWrite
<1>3. /\ Len(outbox[dev]) \in Nat
      /\ \A i \in 1..Len(outbox'[dev]) :
           \/ i \in 1..Len(outbox[dev]) /\ outbox'[dev][i] = outbox[dev][i]
           \/ i = Len(outbox[dev]) + 1 /\ outbox'[dev][i] = w
  <2>1. /\ Len(outbox[dev]) \in Nat
        /\ \A i \in 1..Len(outbox[dev]) : outbox'[dev][i] = outbox[dev][i]
        /\ \A i \in 1..Len(outbox'[dev]) :
             \/ i \in 1..Len(outbox[dev])
             \/ /\ i - Len(outbox[dev]) \in 1..Len(<<w>>)
                /\ outbox'[dev][i] = <<w>>[i - Len(outbox[dev])]
        BY <1>1, <1>2, QueueGrows
  <2> QED BY <1>2, <2>1
<1>4. kills[dev] \in Nat
      BY StoreAssumption DEF TypeOK
<1>5. \A i \in TitlesOut(dev)' : i = Len(outbox[dev]) + 1
      BY <1>3 DEF TitlesOut, Idle
<1>6. form'[dev].uid \in ProjectIds
      BY <1>1 DEF TypeOK, Form
<1>7. \A i \in 1..Len(outbox'[dev]) : outbox'[dev][i].life <= kills'[dev]
      BY <1>1, <1>3, <1>4 DEF OneTitleOf
<1>8. dev \notin acked'
      BY DEF Idle
<1> QED BY <1>5, <1>6, <1>7, <1>8 DEF OneTitleOf

(* The title a device waits for is acknowledged, or another write is.      *)
LEMMA TitleSent ==
  ASSUME TypeOK, NEW dev \in Devices, OneTitleOf(dev), WriteReachesServer(dev)
  PROVE  OneTitleOf(dev)'
<1> DEFINE w == Head(outbox[dev])
<1>1. /\ Len(outbox[dev]) \in Nat \ {0} /\ Len(outbox'[dev]) = Len(outbox[dev]) - 1
      /\ w = outbox[dev][1]
      /\ \A i \in 1..Len(outbox[dev])-1 : outbox'[dev][i] = outbox[dev][i + 1]
  <2>1. outbox' = [outbox EXCEPT ![dev] = Tail(outbox[dev])] /\ outbox[dev] # << >>
        BY DEF WriteReachesServer
  <2>2. outbox[dev] \in Seq(Writes) /\ outbox'[dev] = Tail(outbox[dev])
        BY <2>1 DEF TypeOK
  <2> QED BY <2>1, <2>2, QueueShrinks
<1>2. /\ kills' = kills /\ screen' = screen /\ form' = form
      /\ acked' = IF w.kind \in {"create", "title"} /\ w.life = kills[dev]
                  THEN acked \cup {dev} ELSE acked
      BY DEF WriteReachesServer, counters
<1> HIDE DEF w
<1>3. \A i \in 1..Len(outbox'[dev]) :
        i + 1 \in 1..Len(outbox[dev]) /\ outbox'[dev][i] = outbox[dev][i + 1]
      BY <1>1
<1>4. \A i \in TitlesOut(dev)' : i \in 1..Len(outbox'[dev]) /\ i + 1 \in TitlesOut(dev)
      BY <1>2, <1>3 DEF TitlesOut
<1>5. \A i \in 1..Len(outbox'[dev]) : outbox'[dev][i].life <= kills'[dev]
      BY <1>2, <1>3 DEF OneTitleOf
<1>6. \A i, j \in TitlesOut(dev)' : i = j
  <2> TAKE i, j \in TitlesOut(dev)'
  <2>1. i + 1 = j + 1 /\ i \in Nat /\ j \in Nat
        BY <1>4 DEF OneTitleOf
  <2> QED BY <2>1
<1>7. CASE w.kind \in {"create", "title"} /\ w.life = kills[dev]
  <2>1. 1 \in TitlesOut(dev)
        BY <1>1, <1>7 DEF TitlesOut
  <2>2. \A i \in TitlesOut(dev)' : i + 1 = 1 /\ i \in 1..Len(outbox'[dev])
        BY <1>4, <2>1 DEF OneTitleOf
  <2>3. TitlesOut(dev)' = {}
        BY <2>2
  <2>4. screen'[dev] = "saving" /\ form'[dev].uid \in ProjectIds
        BY <1>2, <2>1 DEF OneTitleOf
  <2> QED BY <1>5, <2>3, <2>4 DEF OneTitleOf
<1>8. CASE ~(w.kind \in {"create", "title"} /\ w.life = kills[dev])
  <2>1. acked' = acked
        BY <1>2, <1>8
  <2>2. TitlesOut(dev)' # {} => TitlesOut(dev) # {}
        BY <1>4
  <2> QED BY <1>2, <1>5, <1>6, <2>1, <2>2 DEF OneTitleOf
<1> QED BY <1>7, <1>8

(* A killed app forgets the titles of its earlier lives.                   *)
LEMMA TitleForgotten ==
  ASSUME TypeOK, NEW dev \in Devices, OneTitleOf(dev), AppKilled(dev)
  PROVE  OneTitleOf(dev)'
<1>1. /\ outbox' = outbox /\ kills[dev] \in Nat /\ kills'[dev] = kills[dev] + 1
      /\ dev \notin acked'
      BY StoreAssumption DEF AppKilled, TypeOK
<1>2. \A i \in 1..Len(outbox[dev]) : outbox[dev][i].life \in Nat /\ outbox[dev][i].life <= kills[dev]
      BY WaitingWriteType DEF OneTitleOf
<1>3. \A i \in 1..Len(outbox'[dev]) : outbox'[dev][i].life <= kills'[dev] /\ outbox'[dev][i].life # kills'[dev]
      BY <1>1, <1>2
<1>4. TitlesOut(dev)' = {}
      BY <1>3 DEF TitlesOut
<1> QED BY <1>1, <1>3, <1>4 DEF OneTitleOf

(* A step of one device leaves the titles of the others, and what they     *)
(* wait for.                                                               *)
LEMMA OthersKeep ==
  ASSUME TypeOK, NEW dev \in Devices, Steps(dev), NEW d \in Devices, d # dev
  PROVE  /\ outbox'[d] = outbox[d] /\ kills'[d] = kills[d]
         /\ screen'[d] = screen[d] /\ form'[d] = form[d]
         /\ d \in acked' <=> d \in acked
<1> DEFINE Kept == /\ outbox'[d] = outbox[d] /\ kills'[d] = kills[d]
                   /\ screen'[d] = screen[d] /\ form'[d] = form[d]
                   /\ d \in acked' <=> d \in acked
<1>0. /\ outbox \in [Devices -> Seq(Writes)] /\ kills \in [Devices -> 0..MaxKills]
      /\ DOMAIN screen = Devices /\ DOMAIN form = Devices
      BY DEF TypeOK
<1>1. ASSUME Opened(dev) \/ Cancelled(dev)
      PROVE  Kept
      BY <1>0, <1>1 DEF Opened, OpenNew, OpenEdit, Cancelled, counters
<1>2. ASSUME Edited(dev) \/ Uploaded(dev)
      PROVE  Kept
      BY <1>0, <1>2 DEF Edited, PhotoPicked, PostRemoved, Uploaded, PhotoPut, PhotoLinked, counters
<1>3. ASSUME NEW f, SaveProject(dev, f)
      PROVE  outbox'[d] = outbox[d] /\ form'[d] = form[d]
      BY <1>0, <1>3 DEF SaveProject, Queue
<1>4. ASSUME SaveTapped(dev)
      PROVE  Kept
  <2>1. PICK text \in {form[dev].text, TRUE} :
          LET f == [form[dev] EXCEPT !.text = text] IN
          IF f.posts # {}
          THEN /\ screen' = [screen EXCEPT ![dev] = "uploading"]
               /\ form' = [form EXCEPT ![dev] = f]
               /\ UNCHANGED <<outbox, drawn>>
          ELSE /\ screen' = [screen EXCEPT ![dev] = "saving"]
               /\ SaveProject(dev, f)
        BY <1>4 DEF SaveTapped
  <2>2. screen'[d] = screen[d] /\ outbox'[d] = outbox[d] /\ form'[d] = form[d]
        BY <1>0, <1>3, <2>1
  <2> QED BY <1>4, <2>2 DEF SaveTapped
<1>5. ASSUME UploadsDone(dev)
      PROVE  Kept
      BY <1>0, <1>3, <1>5 DEF UploadsDone
<1>6. ASSUME TitleAcked(dev)
      PROVE  Kept
      BY <1>0, <1>6 DEF TitleAcked, Queue, counters
<1>7. ASSUME Deleted(dev)
      PROVE  Kept
      BY <1>0, <1>7 DEF Deleted, DeleteFromEditor, DeleteFromFeed, DeleteProject, Queue, counters
<1>8. ASSUME Removed(dev) \/ WriteReachesServer(dev) \/ AppKilled(dev) \/ Fetched(dev)
      PROVE  Kept
      BY <1>0, <1>8, FetchLeaves DEF Removed, FileRemoved, WriteReachesServer, AppKilled, counters
<1> QED BY <1>1, <1>2, <1>4, <1>5, <1>6, <1>7, <1>8 DEF Steps

(* Each step keeps titles and the devices that wait for them together.     *)
LEMMA StepOneTitle ==
  ASSUME TypeOK, OneTitle, [Next]_vars
  PROVE  OneTitle'
<1>0. \A d \in Devices : OneTitleOf(d)
      BY DEF OneTitle
<1>1. CASE UNCHANGED vars
  <2> SUFFICES ASSUME NEW d \in Devices
               PROVE  OneTitleOf(d)'
      BY DEF OneTitle
  <2>1. /\ outbox'[d] = outbox[d] /\ kills'[d] = kills[d] /\ screen'[d] = screen[d]
        /\ form'[d].uid = form[d].uid
        /\ d \in acked' <=> d \in acked
        BY <1>1 DEF vars
  <2> QED BY <1>0, <2>1, TitleFrame
<1>2. ASSUME NEW dev \in Devices, screen[dev] # "saving",
             Opened(dev) \/ Cancelled(dev) \/ Edited(dev) \/ Uploaded(dev)
      PROVE  OneTitleOf(dev)'
  <2>1. outbox' = outbox /\ kills' = kills /\ acked' = acked
        BY <1>2 DEF Opened, OpenNew, OpenEdit, Cancelled, Edited, PhotoPicked, PostRemoved,
                    Uploaded, PhotoPut, PhotoLinked, counters
  <2>2. Idle(dev)
        BY <1>2, NotSavingIsIdle
  <2>3. dev \notin acked'
        BY <2>1, <2>2 DEF Idle
  <2> QED BY <1>0, <2>1, <2>2, <2>3, IdleFrame
<1>3. ASSUME NEW dev \in Devices, SaveTapped(dev)
      PROVE  OneTitleOf(dev)'
  <2>1. PICK text \in {form[dev].text, TRUE} :
          LET f == [form[dev] EXCEPT !.text = text] IN
          IF f.posts # {}
          THEN /\ screen' = [screen EXCEPT ![dev] = "uploading"]
               /\ form' = [form EXCEPT ![dev] = f]
               /\ UNCHANGED <<outbox, drawn>>
          ELSE /\ screen' = [screen EXCEPT ![dev] = "saving"]
               /\ SaveProject(dev, f)
        BY <1>3 DEF SaveTapped
  <2> DEFINE f == [form[dev] EXCEPT !.text = text]
  <2>2. f \in Form
    <3>1. form[dev] \in Form
          BY DEF TypeOK
    <3>2. text \in BOOLEAN
          BY <3>1 DEF Form
    <3> QED BY <3>1, <3>2 DEF Form
  <2>3. Idle(dev) /\ kills' = kills /\ acked' = acked
        BY <1>3, NotSavingIsIdle DEF SaveTapped
  <2>4. CASE f.posts # {}
    <3>1. outbox' = outbox /\ dev \notin acked'
          BY <2>1, <2>3, <2>4 DEF Idle
    <3> QED BY <1>0, <2>3, <3>1, IdleFrame
  <2>5. CASE f.posts = {}
    <3>1. SaveProject(dev, f) /\ screen'[dev] = "saving"
          BY <2>1, <2>5 DEF TypeOK
    <3> HIDE DEF f
    <3> QED BY <1>0, <2>2, <2>3, <3>1, TitleQueued
  <2> QED BY <2>4, <2>5
<1>4. ASSUME NEW dev \in Devices, UploadsDone(dev)
      PROVE  OneTitleOf(dev)'
  <2>1. /\ form[dev] \in Form /\ SaveProject(dev, form[dev])
        /\ screen'[dev] = "saving" /\ kills' = kills /\ acked' = acked
        BY <1>4 DEF UploadsDone, TypeOK
  <2>2. Idle(dev)
        BY <1>4, NotSavingIsIdle DEF UploadsDone
  <2> QED BY <1>0, <2>1, <2>2, TitleQueued
<1>5. ASSUME NEW dev \in Devices, TitleAcked(dev)
      PROVE  OneTitleOf(dev)'
  <2>1. /\ form[dev].uid \in ProjectIds /\ TitlesOut(dev) = {}
        /\ kills' = kills /\ dev \notin acked'
        BY <1>0, <1>5 DEF TitleAcked, OneTitleOf, counters
  <2>2. PICK ws \in Seq(Writes) :
           /\ Queue(dev, ws)
           /\ \A i \in 1..Len(ws) :
                /\ ws[i].kind \in {"text", "posts"}
                /\ ws[i].key = <<AccountOf[dev], form[dev].uid>>
                /\ ws[i].posts \subseteq form[dev].posts
                /\ ws[i].life = kills[dev]
        BY <1>5, <2>1, TitleAckedQueues
  <2>3. \A i \in 1..Len(ws) : ws[i].life = kills[dev] /\ ws[i].kind \notin {"create", "title"}
        BY <2>2
  <2> QED BY <1>0, <2>1, <2>2, <2>3, NoTitleQueued
<1>6. ASSUME NEW dev \in Devices, NEW id \in ProjectIds, NEW posts, screen[dev] # "saving",
             DeleteProject(dev, id, posts)
      PROVE  OneTitleOf(dev)'
  <2> DEFINE w == Write(dev, "drop", id, {})
  <2>1. w \in Writes /\ w.kind = "drop" /\ w.life = kills[dev]
        BY WriteIsTyped
  <2>2. Queue(dev, <<w>>) /\ kills' = kills /\ acked' = acked
        BY <1>6 DEF DeleteProject, counters
  <2> HIDE DEF w
  <2>3. <<w>> \in Seq(Writes) /\ Len(<<w>>) = 1 /\ <<w>>[1] = w
        BY <2>1, OneWrite
  <2>4. \A i \in 1..Len(<<w>>) : <<w>>[i].life = kills[dev] /\ <<w>>[i].kind \notin {"create", "title"}
        BY <2>1, <2>3
  <2>5. TitlesOut(dev) = {} /\ dev \notin acked'
        BY <1>6, <2>2, NotSavingIsIdle DEF Idle
  <2> QED BY <1>0, <2>2, <2>3, <2>4, <2>5, NoTitleQueued
<1>7. ASSUME NEW dev \in Devices, Removed(dev) \/ Fetched(dev)
      PROVE  OneTitleOf(dev)'
  <2>1. outbox' = outbox /\ kills' = kills /\ screen' = screen /\ form' = form /\ acked' = acked
        BY <1>7, FetchLeaves DEF Removed, FileRemoved, counters
  <2> QED BY <1>0, <2>1, TitleFrame
<1>8. ASSUME NEW dev \in Devices, Steps(dev)
      PROVE  OneTitleOf(dev)'
  <2>1. Opened(dev) \/ Cancelled(dev) \/ Edited(dev) \/ Uploaded(dev) => screen[dev] # "saving"
        BY DEF Opened, OpenNew, OpenEdit, Cancelled, Edited, PhotoPicked, PostRemoved,
               Uploaded, PhotoPut, PhotoLinked
  <2>2. Deleted(dev) => OneTitleOf(dev)'
    <3>1. ASSUME NEW key \in Keys, DeleteFromFeed(dev, key)
          PROVE  OneTitleOf(dev)'
          BY <3>1, <1>6 DEF DeleteFromFeed, Keys
    <3>2. DeleteFromEditor(dev) => form[dev].uid \in ProjectIds
          BY DEF DeleteFromEditor, TypeOK, Form
    <3>3. DeleteFromEditor(dev) => OneTitleOf(dev)'
          BY <3>2, <1>6 DEF DeleteFromEditor
    <3> QED BY <3>1, <3>3 DEF Deleted
  <2>3. WriteReachesServer(dev) \/ AppKilled(dev) => OneTitleOf(dev)'
        BY <1>0, TitleSent, TitleForgotten
  <2> QED BY <1>2, <1>3, <1>4, <1>5, <1>7, <1>8, <2>1, <2>2, <2>3 DEF Steps
<1>9. ASSUME NEW dev \in Devices, Steps(dev), NEW d \in Devices, d # dev
      PROVE  OneTitleOf(d)'
  <2>1. /\ outbox'[d] = outbox[d] /\ kills'[d] = kills[d]
        /\ screen'[d] = screen[d] /\ form'[d] = form[d]
        /\ d \in acked' <=> d \in acked
        BY <1>9, OthersKeep
  <2> QED BY <1>0, <2>1, TitleFrame
<1>10. ASSUME NEW dev \in Devices, Steps(dev)
       PROVE  OneTitle'
       BY <1>8, <1>9, <1>10 DEF OneTitle
<1> QED BY <1>1, <1>10 DEF Next

-----------------------------------------------------------------------------
(* Each step preserves the invariant.                                      *)
LEMMA StepStoreInv == StoreInv /\ [Next]_vars => StoreInv'
<1> SUFFICES ASSUME StoreInv, [Next]_vars
             PROVE  StoreInv'
    OBVIOUS
<1>1. TypeOK /\ OwnWork /\ OneTitle
      BY DEF StoreInv
<1>2. TypeOK'
      BY <1>1, StepTypeOK
<1>3. OneTitle'
      BY <1>1, StepOneTitle
<1>4. LinksLead' /\ PendingLinksLead' /\ OwnWork'
      BY StepLinksLead, StepOwnWork
<1> QED BY <1>2, <1>3, <1>4 DEF StoreInv

(* Whatever calls fail, apps are killed and users edit at once: the types, *)
(* the links, whose work a device does, and at most one title on its way.  *)
THEOREM StoreInvariant == Spec => []StoreInv
BY InitStoreInv, StepStoreInv, PTL DEF Spec

(* Every variable of the store keeps its type.                             *)
THEOREM StoreIsTyped == Spec => []TypeOK
<1>1. StoreInv => TypeOK
      BY DEF StoreInv
<1> QED BY <1>1, StoreInvariant, PTL

(* No failed call, killed app or edit on another device leaves a link in a *)
(* project to a photo that is not stored, unless its deletion was asked.   *)
THEOREM LinksAlwaysLead == Spec => []LinksLead
<1>1. StoreInv => LinksLead
      BY DEF StoreInv
<1> QED BY <1>1, StoreInvariant, PTL

(* Stored photos come and go only by their owner's device: it uploads one  *)
(* of its form, or its deletion of one is done.                            *)
LEMMA FilesEffect ==
  ASSUME TypeOK, OwnWork, [Next]_vars
  PROVE  \/ files' = files
         \/ \E dev \in Devices, f \in Files :
              /\ f[1] = AccountOf[dev]
              /\ \A g \in Files \ {f} : g \in files' <=> g \in files
              /\ removing'[dev] # removing[dev] \/ form'[dev] # form[dev]
<1>1. CASE UNCHANGED vars
      BY <1>1 DEF vars
<1>2. ASSUME NEW dev \in Devices, Steps(dev), ~Uploaded(dev), ~Removed(dev)
      PROVE  files' = files
      BY <1>2, FetchLeaves
         DEF Steps, Opened, OpenNew, OpenEdit, Edited, PhotoPicked, PostRemoved, Cancelled,
                  SaveTapped, Deleted, DeleteFromEditor, DeleteFromFeed, DeleteProject,
                  UploadsDone, TitleAcked, WriteReachesServer, AppKilled, server
<1>3. ASSUME NEW dev \in Devices, NEW f \in form[dev].fresh, PhotoPut(dev, f), files' # files
      PROVE  /\ f \in Files /\ f[1] = AccountOf[dev]
             /\ \A g \in Files \ {f} : g \in files' <=> g \in files
             /\ form'[dev] # form[dev]
  <2>1. form \in [Devices -> Form] /\ form[dev] \in Form
        BY DEF TypeOK
  <2>2. /\ files' = files \cup {f} /\ form[dev].up = {}
        /\ form' = [form EXCEPT ![dev] = [form[dev] EXCEPT !.up = {f}]]
        BY <1>3 DEF PhotoPut
  <2>3. form'[dev].up = {f}
        BY <2>1, <2>2 DEF Form
  <2>4. f \in Files /\ f[1] = AccountOf[dev]
        BY <2>1 DEF OwnWork, Form
  <2> QED BY <2>2, <2>3, <2>4
<1>4. ASSUME NEW dev \in Devices, NEW f \in form[dev].fresh, PhotoLinked(dev, f)
      PROVE  files' = files
      BY <1>4 DEF PhotoLinked, server
<1>5. ASSUME NEW dev \in Devices, NEW f \in removing[dev], FileRemoved(dev, f)
      PROVE  /\ f \in Files /\ f[1] = AccountOf[dev]
             /\ \A g \in Files \ {f} : g \in files' <=> g \in files
             /\ removing'[dev] # removing[dev]
  <2>1. f \in Files /\ f[1] = AccountOf[dev]
        BY DEF OwnWork, TypeOK
  <2>2. f \notin removing'[dev] /\ (files' = files \/ files' = files \ {f})
        BY <1>5 DEF FileRemoved, TypeOK
  <2> QED BY <2>1, <2>2
<1> QED BY <1>1, <1>2, <1>3, <1>4, <1>5 DEF Next, Uploaded, Removed

(* A step that changes a project or a photo of u is taken by a device that *)
(* u is signed in on.                                                      *)
LEMMA StepOwnersOnly ==
  ASSUME StoreInv, [Next]_vars, NEW u \in Users, ~ActedFor(u)
  PROVE  /\ \A id \in ProjectIds : docs'[<<u, id>>] = docs[<<u, id>>]
         /\ \A name \in Photos : <<u, name>> \in files' <=> <<u, name>> \in files
<1>0. TypeOK /\ OwnWork
      BY DEF StoreInv
<1>1. \A id \in ProjectIds : docs'[<<u, id>>] = docs[<<u, id>>]
  <2>1. ASSUME NEW dev \in Devices, WriteReachesServer(dev), Len(outbox[dev]) \in Nat \ {0}
        PROVE  outbox[dev][1].key[1] # u
    <3>1. outbox' = [outbox EXCEPT ![dev] = Tail(outbox[dev])] /\ outbox[dev] # << >>
          BY <2>1 DEF WriteReachesServer
    <3>2. outbox[dev] \in Seq(Writes) /\ outbox'[dev] = Tail(outbox[dev])
          BY <1>0, <3>1 DEF TypeOK
    <3>3. Len(outbox'[dev]) = Len(outbox[dev]) - 1
          BY <3>1, <3>2, QueueShrinks
    <3>4. outbox'[dev] # outbox[dev]
          BY <2>1, <3>3
    <3>5. AccountOf[dev] # u
          BY <3>4 DEF ActedFor
    <3>6. outbox[dev][1].key[1] = AccountOf[dev]
          BY <1>0, <2>1 DEF OwnWork
    <3> QED BY <3>5, <3>6
  <2>2. ASSUME NEW dev \in Devices, NEW id \in ProjectIds,
               WriteReachesServer(dev), Len(outbox[dev]) \in Nat \ {0}
        PROVE  <<u, id>> \in Keys \ {outbox[dev][1].key}
        BY <2>1, <2>2 DEF Keys
  <2> QED BY <1>0, <2>2, DocsEffect
<1>2. \A name \in Photos : <<u, name>> \in files' <=> <<u, name>> \in files
  <2>1. ASSUME NEW dev \in Devices, NEW f \in Files, f[1] = AccountOf[dev],
               removing'[dev] # removing[dev] \/ form'[dev] # form[dev],
               NEW name \in Photos
        PROVE  <<u, name>> \in Files \ {f}
        BY <2>1 DEF ActedFor, Files
  <2> QED BY <1>0, <2>1, FilesEffect
<1> QED BY <1>1, <1>2

(* A user's projects and photos are changed only by a device signed in as  *)
(* that user, although Edit is offered on everybody's projects.            *)
THEOREM OwnersOnly == Spec => OnlyOwnersChange
<1>1. StoreInv /\ [Next]_vars =>
        [\A u \in Users :
           \/ ActedFor(u)
           \/ /\ \A id \in ProjectIds : docs'[<<u, id>>] = docs[<<u, id>>]
              /\ \A name \in Photos : <<u, name>> \in files' <=> <<u, name>> \in files]_vars
      BY StepOwnersOnly
<1> QED BY <1>1, StoreInvariant, PTL DEF Spec, OnlyOwnersChange
=============================================================================
