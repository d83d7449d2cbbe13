-------------------------------- MODULE Tabs --------------------------------
(***************************************************************************)
(* The feed and the profile of one device: two screens that share the      *)
(* projects of the last fetch (appDL.userProjects), the main queue and the *)
(* snapshot listeners on Likes and Saved.  No listener is ever removed:    *)
(* every fetch and every acknowledged tap adds one, and each callback of a *)
(* likes listener of the feed adds a saved listener.  A row carries the    *)
(* Like and the Saved document attached to its project; a cell shows, of   *)
(* them, what concerns the OWNER of the project, and is reused.            *)
(*                                                                         *)
(* likes and saved are the collections as this device's Firestore sees     *)
(* them; what others write changes them like its own writes.               *)
(***************************************************************************)
EXTENDS Naturals, SequencesExt, Functions

CONSTANTS Users, Projects, Absent,
          Me,          \* the user of the device
          Others,      \* the users who write from other devices
          LastUser,    \* the user listed last: fetchProjects always has it
          Order,       \* the projects, newest first
          Ownerships,  \* who owns the projects: the functions to begin with
          Liked,       \* the projects that all users like at the start
          MaxInputs,   \* bound: taps, refreshes, logouts, writes of others, failures
          MaxListeners \* bound: more listeners of a kind are not told apart

ASSUME TabsAssumption ==
  /\ Me \in Users /\ Others \subseteq Users /\ LastUser \in Users /\ Absent \notin Users
  /\ Ownerships \subseteq [Projects -> Users] /\ Liked \subseteq Projects
  /\ Order \in Seq(Projects) /\ {Order[i] : i \in DOMAIN Order} = Projects
  /\ \A i, j \in DOMAIN Order : Order[i] = Order[j] => i = j
  /\ MaxInputs \in Nat /\ MaxListeners \in Nat \ {0}

VARIABLES
  owner,      \* owner[p]: the user whose project p is, always the same
  likes,      \* likes[p]: the users who like p, or Absent: no document
  saved,      \* saved[u]: the projects u saved, or Absent
  in,         \* is the user signed in
  tab,        \* the tab selected, or that a HUD has covered the window for good
  main,       \* the callbacks on the main queue
  listeners,  \* the listeners of each kind
  fetching,   \* fetches of the feed not yet completed
  shared,     \* appDL.userProjects: the users fetched, with all their projects
  rows,       \* FeedVC.projects
  table,      \* the rows that the table shows: those of its last reload
  mark,       \* mark[p]: the documents attached to the project of a row
  cell,       \* cell[p]: what the cell of p shows; of no row: a cell to be reused
  dirty,      \* a reload of the table is due on the main queue
  tasks,      \* likes and saves tapped and not yet acknowledged
  user,       \* ProfileVC.user, or Absent
  lists,      \* ProfileVC.likeProjects and savedProjects
  crashed,    \* what the app has crashed of: no user to unwrap, no such row
  count,      \* the inputs so far
  lost        \* history: a listener failed since the last fetch completed

store == <<likes, saved>>
session == <<owner, store, in, tab>>
queues == <<main, listeners>>
feed == <<shared, rows, table, mark, cell, dirty>>
profile == <<user, lists>>
vars == <<session, queues, fetching, feed, tasks, profile, crashed, count, lost>>

Kinds == {"feedLikes", "feedSaved", "profLikes", "profSaved", "profUser"}
LikeDocs == [Projects -> (SUBSET Users) \cup {Absent}]
SavedDocs == [Users -> (SUBSET Projects) \cup {Absent}]
\* A callback brings the documents of its collection, or an error.
Callbacks == {cb \in [kind : Kinds, docs : LikeDocs \cup SavedDocs, ok : BOOLEAN] : cb.ok =>
                /\ cb.kind \in {"feedLikes", "profLikes"} => cb.docs \in LikeDocs
                /\ cb.kind \in {"feedSaved", "profSaved"} => cb.docs \in SavedDocs}
Marks == [like : (SUBSET Users) \cup {Absent}, saved : (SUBSET Projects) \cup {Absent}]
Cells == [like : BOOLEAN, saved : BOOLEAN]
Tasks == [tap : 1..MaxInputs, about : {"likes", "saved"}, project : Projects,
          sent : BOOLEAN]
NoMark == [like |-> Absent, saved |-> Absent]
Fresh == [like |-> FALSE, saved |-> FALSE]
Empty == [likes |-> {}, saved |-> {}]
Shown == {rows[i] : i \in DOMAIN rows}

Init == /\ owner \in Ownerships
        /\ likes = [p \in Projects |-> IF p \in Liked THEN Users ELSE Absent]
        /\ saved = [u \in Users |-> Absent]
        /\ in = TRUE /\ tab = "feed"
        /\ main = << >> /\ listeners = [kind \in Kinds |-> 0]
        /\ fetching = 1
        /\ shared = {} /\ rows = << >> /\ table = << >>
        /\ mark = [p \in Projects |-> NoMark]
        /\ cell = [p \in Projects |-> Fresh]
        /\ dirty = FALSE
        /\ tasks = {}
        /\ user = Absent /\ lists = Empty
        /\ crashed = "not"
        /\ count = 0
        /\ lost = FALSE
-----------------------------------------------------------------------------
Up == crashed = "not"
Input == Up /\ count < MaxInputs /\ count' = count + 1

Brings(kind, docs) == [kind |-> kind, docs |-> docs, ok |-> TRUE]
Times(n, cb) == [i \in 1..n |-> cb]

\* The documents that a callback brings; to the user's listener they are of no use.
NoDocs == [u \in Users |-> Absent]
Snapshot == [kind \in Kinds |-> CASE kind \in {"feedLikes", "profLikes"} -> likes
                                  [] kind \in {"feedSaved", "profSaved"} -> saved
                                  [] OTHER -> NoDocs]

\* addSnapshotListener for each of the kinds: a first callback with what is there, of
\* several kinds in any order.
Listening(kinds) ==
  [kind \in Kinds |-> IF kind \in kinds /\ listeners[kind] < MaxListeners
                      THEN listeners[kind] + 1 ELSE listeners[kind]]
Firsts(kinds) ==
  {[i \in DOMAIN order |-> Brings(order[i], Snapshot[order[i]])] : order \in SetToSeqs(kinds)}
Listen(kinds) == listeners' = Listening(kinds) /\ \E cbs \in Firsts(kinds) : main' = main \o cbs

\* A collection becomes docs: each listener that sees a difference is called.
Heard(kind, docs) == Times(listeners[kind], Brings(kind, docs))
SetLikes(docs) ==
  /\ likes' = docs
  /\ main' = IF docs = likes THEN main
             ELSE main \o Heard("feedLikes", docs) \o Heard("profLikes", docs)
SetSaved(docs) ==
  /\ saved' = docs
  /\ main' = (IF docs = saved THEN main ELSE main \o Heard("feedSaved", docs))
             \o (IF docs[Me] = saved[Me] THEN << >> ELSE Heard("profSaved", docs))

With(docs, d, key) == [docs EXCEPT ![d] = IF @ = Absent THEN {key} ELSE @ \cup {key}]
Only(docs, d, key) == [docs EXCEPT ![d] = {key}]
Without(docs, d, key) == [docs EXCEPT ![d] = IF @ = Absent THEN @ ELSE @ \ {key}]
-----------------------------------------------------------------------------
OnFeed == in /\ tab = "feed"
OnProfile == in /\ tab = "profile"

\* getProjects: a refresh, or the return from the project editor.
GetProjects ==
  /\ OnFeed /\ Input
  /\ fetching' = fetching + 1
  /\ UNCHANGED <<session, queues, feed, tasks, profile, crashed, lost>>

\* The feed appears: it fetches if it has nothing.
FeedSelected ==
  /\ OnProfile /\ Input
  /\ tab' = "feed"
  /\ fetching' = IF shared = {} THEN fetching + 1 ELSE fetching
  /\ UNCHANGED <<owner, store, in, queues, feed, tasks, profile, crashed, lost>>

\* The projects of the users us, newest first.
Picked(own, us) ==
  LET upTo[n \in 0..Len(Order)] ==
        IF n = 0 THEN << >>
        ELSE IF own[Order[n]] \in us THEN Append(upTo[n - 1], Order[n]) ELSE upTo[n - 1]
  IN upTo[Len(Order)]

\* Mutant of FetchCompleted: the rows of the last fetch are kept.
RowsKept(us) ==
  /\ Up /\ fetching > 0 /\ LastUser \in us
  /\ fetching' = fetching - 1
  /\ shared' = us
  /\ rows' = rows \o Picked(owner, us)
  /\ mark' = [p \in Projects |-> NoMark]
  /\ Listen({"feedLikes"})
  /\ lost' = FALSE
  /\ UNCHANGED <<session, table, cell, dirty, tasks, profile, crashed, count>>

\* getProjects' completion, whoever is signed in by now: new projects, sorted, without
\* marks; getLikes.
FetchCompleted(us) ==
  /\ Up /\ fetching > 0 /\ LastUser \in us
  /\ fetching' = fetching - 1
  /\ shared' = us
  /\ rows' = Picked(owner, us)
  /\ mark' = [p \in Projects |-> NoMark]
  /\ Listen({"feedLikes"})
  /\ lost' = FALSE
  /\ UNCHANGED <<session, table, cell, dirty, tasks, profile, crashed, count>>

\* fetchProjects cannot list the users: its completion never runs.
ListingFailed ==
  /\ Up /\ fetching > 0
  /\ fetching' = fetching - 1
  /\ UNCHANGED <<session, queues, feed, tasks, profile, crashed, count, lost>>

Called(kind) == Up /\ main # << >> /\ Head(main).kind = kind

\* The queue without its head, behind it the first callbacks of new listeners.
Takes(kinds) == listeners' = Listening(kinds) /\ \E cbs \in Firsts(kinds) : main' = Tail(main) \o cbs

\* getLikes' callback: the documents that have a row are attached; getSaved.
LikesDelivered ==
  LET cb == Head(main) IN
  /\ Called("feedLikes")
  /\ mark' = [p \in Projects |-> IF cb.ok /\ p \in Shown /\ cb.docs[p] # Absent
                                 THEN [mark[p] EXCEPT !.like = cb.docs[p]] ELSE mark[p]]
  /\ Takes({"feedSaved"})
  /\ UNCHANGED <<session, fetching, shared, rows, table, cell, dirty, tasks, profile, crashed, count, lost>>

\* The first row of each user.
IsFirst(p) == \E i \in DOMAIN rows : /\ rows[i] = p
                                     /\ \A j \in 1..(i - 1) : owner[rows[j]] # owner[p]

\* Mutant of SavedDelivered: it asks for the likes again.
LikesAgain ==
  LET cb == Head(main) IN
  /\ Called("feedSaved")
  /\ mark' = [p \in Projects |-> IF cb.ok /\ IsFirst(p) /\ cb.docs[owner[p]] # Absent
                                 THEN [mark[p] EXCEPT !.saved = cb.docs[owner[p]]]
                                 ELSE mark[p]]
  /\ dirty' = TRUE
  /\ Takes({"feedLikes"})
  /\ UNCHANGED <<session, fetching, shared, rows, table, cell, tasks, profile, crashed, count, lost>>

\* Mutant of SavedDelivered: it reloads only if there is a document.
ReloadsIfSaved ==
  LET cb == Head(main)
      there == cb.ok /\ \E u \in Users : cb.docs[u] # Absent
  IN
  /\ Called("feedSaved")
  /\ mark' = [p \in Projects |-> IF there /\ IsFirst(p) /\ cb.docs[owner[p]] # Absent
                                 THEN [mark[p] EXCEPT !.saved = cb.docs[owner[p]]]
                                 ELSE mark[p]]
  /\ dirty' = (dirty \/ there)
  /\ Takes({})
  /\ UNCHANGED <<session, fetching, shared, rows, table, cell, tasks, profile, crashed, count, lost>>

\* getSaved's callback: a user's document goes to the first row of that user.
SavedDelivered ==
  LET cb == Head(main) IN
  /\ Called("feedSaved")
  /\ mark' = [p \in Projects |-> IF cb.ok /\ IsFirst(p) /\ cb.docs[owner[p]] # Absent
                                 THEN [mark[p] EXCEPT !.saved = cb.docs[owner[p]]]
                                 ELSE mark[p]]
  /\ dirty' = TRUE
  /\ Takes({})
  /\ UNCHANGED <<session, fetching, shared, rows, table, cell, tasks, profile, crashed, count, lost>>

\* cellForRowAt: the cells change places, and one keeps what its new row has no
\* document for.
Reloaded ==
  /\ Up /\ dirty
  /\ \E from \in Bijection(Projects, Projects) :
       cell' = [p \in Projects |->
                  LET old == cell[from[p]] IN
                  IF p \notin Shown THEN old
                  ELSE [like |-> IF mark[p].like = Absent THEN old.like
                                 ELSE owner[p] \in mark[p].like,
                        saved |-> IF mark[p].saved = Absent THEN old.saved
                                  ELSE p \in mark[p].saved]]
  /\ table' = rows
  /\ dirty' = FALSE
  /\ UNCHANGED <<session, queues, fetching, shared, rows, mark, tasks, profile, crashed, count, lost>>
-----------------------------------------------------------------------------
NewTask(about, p, sent) ==
  LET same == {t \in tasks : t.about = about /\ t.project = p}
      free == {n \in 1..MaxInputs : \A t \in same : t.tap # n}
      tap == CHOOSE n \in free : \A m \in free : n <= m
  IN tasks' = tasks \cup {[tap |-> tap, about |-> about, project |-> p, sent |-> sent]}

\* likeDidTap: the cell of table row i, the project of row i.  On, saveLike starts its
\* read; off, deleteLike writes at once.
LikeTapped(i) ==
  /\ OnFeed /\ i \in DOMAIN table /\ Input
  /\ cell' = [cell EXCEPT ![table[i]].like = ~@]
  /\ \/ /\ i \notin DOMAIN rows /\ crashed' = "row"
        /\ UNCHANGED <<mark, likes, main, tasks>>
     \/ /\ i \in DOMAIN rows /\ cell[table[i]].like
        /\ mark' = [mark EXCEPT ![rows[i]].like = Absent]
        /\ SetLikes(Without(likes, rows[i], Me))
        /\ NewTask("likes", rows[i], TRUE)
        /\ UNCHANGED crashed
     \/ /\ i \in DOMAIN rows /\ ~cell[table[i]].like
        /\ NewTask("likes", rows[i], FALSE)
        /\ UNCHANGED <<mark, likes, main, crashed>>
  /\ UNCHANGED <<owner, saved, in, tab, listeners, fetching, shared, rows, table, dirty, profile, lost>>

\* savedDidTap.
SavedTapped(i) ==
  /\ OnFeed /\ i \in DOMAIN table /\ Input
  /\ cell' = [cell EXCEPT ![table[i]].saved = ~@]
  /\ \/ /\ i \notin DOMAIN rows /\ crashed' = "row"
        /\ UNCHANGED <<mark, saved, main, tasks>>
     \/ /\ i \in DOMAIN rows /\ cell[table[i]].saved
        /\ mark' = [mark EXCEPT ![rows[i]].saved = Absent]
        /\ SetSaved(Without(saved, Me, rows[i]))
        /\ NewTask("saved", rows[i], TRUE)
        /\ UNCHANGED crashed
     \/ /\ i \in DOMAIN rows /\ ~cell[table[i]].saved
        /\ NewTask("saved", rows[i], FALSE)
        /\ UNCHANGED <<mark, saved, main, crashed>>
  /\ UNCHANGED <<owner, likes, in, tab, listeners, fetching, shared, rows, table, dirty, profile, lost>>

\* The menu of p was opened on a row of the table: its own, or the one now at its place.
HasMenu(p) == Contains(table, p) \/ \E i \in DOMAIN table \cap DOMAIN rows : rows[i] = p

\* handleDelete, confirmed: the row goes from both at its index in the feed, and a table
\* that has another number of rows does not bear that.  The HUD that follows stays.
RowDeleted(p) ==
  /\ OnFeed /\ p \in Shown /\ HasMenu(p) /\ owner[p] = Me /\ Input
  /\ LET i == CHOOSE k \in DOMAIN rows : rows[k] = p
     IN \/ /\ Len(table) # Len(rows) /\ crashed' = "row"
           /\ UNCHANGED <<rows, table, tab>>
        \/ /\ Len(table) = Len(rows)
           /\ rows' = RemoveAt(rows, i) /\ table' = RemoveAt(table, i)
           /\ tab' = "covered"
           /\ UNCHANGED crashed
  /\ UNCHANGED <<owner, store, in, queues, fetching, shared, mark, cell, dirty>>
  /\ UNCHANGED <<tasks, profile, lost>>

\* The callback of saveLike's or saveSaved's read writes; if the read failed, or found
\* no document, the write replaces what is there by now.
Written(t) ==
  /\ Up /\ ~t.sent
  /\ tasks' = (tasks \ {t}) \cup {[t EXCEPT !.sent = TRUE]}
  /\ \/ /\ t.about = "likes"
        /\ \/ SetLikes(With(likes, t.project, Me))
           \/ SetLikes(Only(likes, t.project, Me))
        /\ UNCHANGED saved
     \/ /\ t.about = "saved"
        /\ \/ SetSaved(With(saved, Me, t.project))
           \/ SetSaved(Only(saved, Me, t.project))
        /\ UNCHANGED likes
  /\ UNCHANGED <<owner, in, tab, listeners, fetching, feed, profile, crashed, count, lost>>

\* Mutant of Acknowledged: nothing is asked for again.
AckIgnored(t) ==
  /\ Up /\ t.sent
  /\ tasks' = tasks \ {t}
  /\ UNCHANGED <<session, queues, fetching, feed, profile, crashed, count, lost>>

\* The write's completion, whether it failed or not: getLikes or getSaved.
Acknowledged(t) ==
  /\ Up /\ t.sent
  /\ tasks' = tasks \ {t}
  /\ Listen(IF t.about = "likes" THEN {"feedLikes"} ELSE {"feedSaved"})
  /\ UNCHANGED <<session, fetching, feed, profile, crashed, count, lost>>
-----------------------------------------------------------------------------
\* The profile asks, when it appears, for whatever it does not have.
Missing == (IF user = Absent THEN {"profUser"} ELSE {})
           \cup (IF lists.likes = {} THEN {"profLikes"} ELSE {})
           \cup (IF lists.saved = {} THEN {"profSaved"} ELSE {})

ProfileSelected ==
  /\ OnFeed /\ Input
  /\ tab' = "profile"
  /\ Listen(Missing)
  /\ UNCHANGED <<owner, store, in, fetching, feed, tasks, profile, crashed, lost>>

\* refreshHandler.
ProfileRefreshed ==
  /\ OnProfile /\ Input
  /\ Listen({"profUser"})
  /\ UNCHANGED <<session, fetching, feed, tasks, profile, crashed, lost>>

\* fetchCurrentUser's callback: nil after an error.
UserDelivered ==
  /\ Called("profUser")
  /\ user' = IF Head(main).ok THEN Me ELSE Absent
  /\ Takes({})
  /\ UNCHANGED <<session, fetching, feed, tasks, lists, crashed, count, lost>>

\* The user's own projects among those that the feed fetched.
Own == IF user \in shared THEN {p \in Projects : owner[p] = user} ELSE {}

\* Mutant of ProfileLikesDelivered: what is no longer liked is not taken away.
LikesPileUp ==
  LET cb == Head(main)
      there == {p \in Projects : cb.ok /\ cb.docs[p] # Absent}
  IN
  /\ Called("profLikes")
  /\ IF user = Absent /\ there # {} /\ (shared # {} \/ \E p \in there : cb.docs[p] # {})
     THEN crashed' = "user" /\ UNCHANGED lists
     ELSE /\ lists' = [lists EXCEPT !.likes = @ \cup {p \in Own \cap there : user \in cb.docs[p]}]
          /\ UNCHANGED crashed
  /\ Takes({})
  /\ UNCHANGED <<session, fetching, feed, tasks, user, count, lost>>

\* getLikes' callback: unwraps the user once there is a document to look at.
ProfileLikesDelivered ==
  LET cb == Head(main)
      there == {p \in Projects : cb.ok /\ cb.docs[p] # Absent}
  IN
  /\ Called("profLikes")
  /\ IF user = Absent /\ there # {} /\ (shared # {} \/ \E p \in there : cb.docs[p] # {})
     THEN crashed' = "user" /\ UNCHANGED lists
     ELSE /\ lists' = [lists EXCEPT !.likes = {p \in Own \cap there : user \in cb.docs[p]}]
          /\ UNCHANGED crashed
  /\ Takes({})
  /\ UNCHANGED <<session, fetching, feed, tasks, user, count, lost>>

\* getSaved's callback, of the user's own document.
ProfileSavedDelivered ==
  LET cb == Head(main)
      there == cb.ok /\ cb.docs[Me] # Absent
  IN
  /\ Called("profSaved")
  /\ IF user = Absent /\ there /\ shared # {}
     THEN crashed' = "user" /\ UNCHANGED lists
     ELSE /\ lists' = [lists EXCEPT !.saved = IF there THEN Own \cap cb.docs[Me] ELSE {}]
          /\ UNCHANGED crashed
  /\ Takes({})
  /\ UNCHANGED <<session, fetching, feed, tasks, user, count, lost>>
-----------------------------------------------------------------------------
\* The logout notification: both screens are emptied, the listeners stay, and signing
\* out may throw, which nobody hears of.
LoggedOut ==
  /\ OnProfile /\ Input
  /\ in' \in BOOLEAN
  /\ shared' = {} /\ rows' = << >>
  /\ mark' = [p \in Projects |-> NoMark]
  /\ user' = Absent /\ lists' = Empty
  /\ dirty' = TRUE
  /\ UNCHANGED <<owner, store, tab, queues, fetching, table, cell, tasks, crashed, lost>>

\* The same user is back: the profile is on the screen again.
LoggedIn ==
  /\ ~in /\ Input
  /\ in' = TRUE
  /\ Listen(Missing)
  /\ UNCHANGED <<owner, store, tab, fetching, feed, tasks, profile, crashed, lost>>

\* Another device likes or saves a project, or takes it back; its
\* write may replace a document, too.
OthersWrite(p, u) ==
  /\ Input
  /\ \/ /\ \E docs \in {With(likes, p, u), Only(likes, p, u), Without(likes, p, u)} \ {likes} :
             SetLikes(docs)
        /\ UNCHANGED saved
     \/ /\ \E docs \in {With(saved, u, p), Only(saved, u, p), Without(saved, u, p)} \ {saved} :
             SetSaved(docs)
        /\ UNCHANGED likes
  /\ UNCHANGED <<owner, in, tab, listeners, fetching, feed, tasks, profile, crashed, lost>>

\* A listener fails: a last callback with an error.
ListenerFails(kind) ==
  /\ listeners[kind] > 0 /\ Input
  /\ \/ listeners' = [listeners EXCEPT ![kind] = @ - 1]
     \/ listeners[kind] = MaxListeners /\ UNCHANGED listeners
  /\ main' = Append(main, [kind |-> kind, docs |-> NoDocs, ok |-> FALSE])
  /\ lost' = TRUE
  /\ UNCHANGED <<session, fetching, feed, tasks, profile, crashed>>

Delivered == \/ LikesDelivered \/ SavedDelivered \/ UserDelivered
             \/ ProfileLikesDelivered \/ ProfileSavedDelivered

\* Of a user without projects it makes no difference whether the answer came.
Owning == {owner[p] : p \in Projects}
Fetched == \/ \E us \in SUBSET Owning : FetchCompleted(us \cup (Users \ Owning))
           \/ ListingFailed

Answered == \E t \in tasks : Written(t) \/ Acknowledged(t)
Tapped == \/ \E i \in 1..Len(Order) : LikeTapped(i) \/ SavedTapped(i)
          \/ \E p \in Projects : RowDeleted(p)
          \/ GetProjects \/ FeedSelected
          \/ ProfileSelected \/ ProfileRefreshed \/ LoggedOut \/ LoggedIn
Outside == \/ \E p \in Projects, u \in Others : OthersWrite(p, u)
           \/ \E kind \in Kinds : ListenerFails(kind)

Next == Delivered \/ Reloaded \/ Fetched \/ Answered \/ Tapped \/ Outside

Spec == Init /\ [][Next]_vars

\* The main queue runs and the backends answer; taps and others are not promised.
Fairness == WF_vars(Delivered) /\ WF_vars(Reloaded) /\ WF_vars(Fetched) /\ WF_vars(Answered)

FairSpec == Spec /\ Fairness
-----------------------------------------------------------------------------
(* Types, and what ties the screens together: the rows are the projects of *)
(* the users the profile's lists pick from, each once and newest first,    *)
(* but for one that was deleted.                                           *)
TypeOK ==
  /\ owner \in Ownerships /\ likes \in LikeDocs /\ saved \in SavedDocs
  /\ {in, dirty, lost} \subseteq BOOLEAN /\ crashed \in {"not", "user", "row"}
  /\ tab \in {"feed", "profile", "covered"}
  /\ main \in Seq(Callbacks)
  /\ listeners \in [Kinds -> 0..MaxListeners]
  /\ fetching \in 0..(count + 1)
  /\ shared \subseteq Users
  /\ rows \in Seq(Projects)
  /\ LET fetched == Picked(owner, shared)
     IN \/ rows = fetched
        \/ tab = "covered" /\ \E i \in DOMAIN fetched : rows = RemoveAt(fetched, i)
  /\ table \in Seq(Projects)
  /\ mark \in [Projects -> Marks] /\ cell \in [Projects -> Cells]
  /\ tasks \subseteq Tasks /\ IsFiniteSet(tasks) /\ Cardinality(tasks) <= count
  /\ user \in {Me, Absent}
  /\ lists \in [likes : SUBSET Projects, saved : SUBSET Projects]
  /\ count \in 0..MaxInputs

Quiet == main = << >> /\ fetching = 0 /\ tasks = {} /\ ~dirty

(* When all is quiet the feed shows what Firestore has, whatever order of  *)
(* fetches, taps, answers and callbacks led there: a heart is the owner's  *)
(* like, a bookmark on the first row of a user that user's, wherever there *)
(* is a document and no listener failed since the fetch; a row that became *)
(* the first by a deletion has no bookmark yet.                            *)
CellsAgree ==
  Quiet /\ ~lost => \A p \in Shown :
    /\ likes[p] # Absent => cell[p].like = (owner[p] \in likes[p])
    /\ IsFirst(p) /\ tab # "covered" /\ saved[owner[p]] # Absent
         => cell[p].saved = (p \in saved[owner[p]])

(* When all is quiet the profile lists no project as liked or saved that   *)
(* its user does not like or has not saved, although the lists are only    *)
(* made again by a callback, never when the feed fetches, and whatever     *)
(* listeners have failed.                                                  *)
ListsAreMarked ==
  Quiet /\ user # Absent =>
    /\ \A p \in lists.likes : likes[p] # Absent /\ Me \in likes[p]
    /\ \A p \in lists.saved : saved[Me] # Absent /\ p \in saved[Me]

(* The table may show other rows than the feed has, so that a tap takes    *)
(* the project of another row or finds none at all; but only while the     *)
(* reload that ends it is on its way: no failure of a listener and no      *)
(* logout leaves the table behind.                                         *)
TableCatchesUp ==
  table # rows => dirty \/ \E i \in DOMAIN main : main[i].kind \in {"feedLikes", "feedSaved"}

\* A callback of the kind waits; the last of the kind that waits, if any, is a good one.
Waits(q, kind) == \E i \in 1..Len(q) : q[i].kind = kind
EndsWith(q, kind, good) ==
  \A i \in 1..Len(q) : \/ q[i].kind # kind \/ q[i] \in good
                       \/ \E j \in (i + 1)..Len(q) : q[j].kind = kind
OnTheWay(about, p) == \E t \in tasks : t.about = about /\ t.project = p

(* The parts of the inductive invariant.  As long as no listener failed,   *)
(* the last answer that waits for the feed brings what Firestore has, and  *)
(* if none waits and nothing is on its way, each row has its document.     *)
FeedHears == ~lost =>
  /\ Waits(main, "feedLikes") \/ Shown # {} => listeners["feedLikes"] > 0
  /\ EndsWith(main, "feedLikes", {Brings("feedLikes", likes)})
  /\ ~Waits(main, "feedLikes") => \A p \in Shown :
       likes[p] # Absent => OnTheWay("likes", p) \/ mark[p].like = likes[p]

(* The saved listeners of the feed come with the callbacks of the likes.   *)
FeedHearsSaved == ~lost /\ ~Waits(main, "feedLikes") /\ Shown # {} =>
  /\ listeners["feedSaved"] > 0
  /\ EndsWith(main, "feedSaved", {Brings("feedSaved", saved)})
  /\ tab # "covered" /\ ~Waits(main, "feedSaved") => \A p \in Shown :
       IsFirst(p) /\ saved[owner[p]] # Absent
         => OnTheWay("saved", p) \/ mark[p].saved = saved[owner[p]]

(* A cell shows the documents of its row, or a reload is due that will     *)
(* follow from a callback, or what was tapped on it is on its way.         *)
CellsFollow ==
  \/ dirty \/ Waits(main, "feedLikes") \/ Waits(main, "feedSaved")
  \/ \A p \in Shown :
       /\ mark[p].like # Absent
            => OnTheWay("likes", p) \/ cell[p].like = (owner[p] \in mark[p].like)
       /\ mark[p].saved # Absent
            => OnTheWay("saved", p) \/ cell[p].saved = (p \in mark[p].saved)

(* The last answer that waits for a list of the profile brings what there  *)
(* is or an error, an error if nobody listens any more; if none waits, the *)
(* list has only what is liked or saved, and nothing if nobody listens.    *)
Errors == {cb \in Callbacks : ~cb.ok}
GoodLikes == {cb \in Callbacks : cb.ok => cb.docs = likes}
GoodSaved == {cb \in Callbacks : cb.ok => cb.docs[Me] = saved[Me]}
MyLikes == {p \in Projects : likes[p] # Absent /\ Me \in likes[p]}
MySaved == {p \in Projects : saved[Me] # Absent /\ p \in saved[Me]}
ListFollows(kind, good, list, marked) ==
  /\ EndsWith(main, kind, good)
  /\ listeners[kind] = 0 => EndsWith(main, kind, Errors)
  /\ ~Waits(main, kind) /\ crashed # "user" =>
       list \subseteq marked /\ (listeners[kind] = 0 => list = {})
ListsFollow ==
  /\ ListFollows("profLikes", GoodLikes, lists.likes, MyLikes)
  /\ ListFollows("profSaved", GoodSaved, lists.saved, MySaved)

(* A user that was missed has not come since.                              *)
UserFits == crashed = "user" => user = Absent

(* The inductive invariant, from which the safety properties follow.       *)
TabsInv == /\ TypeOK /\ TableCatchesUp /\ UserFits
           /\ FeedHears /\ FeedHearsSaved /\ CellsFollow /\ ListsFollow

(* The cascade of listeners that add listeners ends: the main queue and    *)
(* the table come to rest when nobody taps or writes any more.             *)
CascadeEnds == <>[](Quiet \/ ~Up)
=============================================================================
