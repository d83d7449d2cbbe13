---------------------------- MODULE ProjectStore ----------------------------
(***************************************************************************)
(* Creating, editing and deleting projects: the editor (PostProjectVC and  *)
(* its view model), Project.saveProject and deleteProject, the photo files *)
(* in Storage and the project documents in Firestore.  A save is a chain   *)
(* of remote calls: deletions of removed photos, uploads one by one, the   *)
(* title, then the text and the posts; the app may be killed, or a call    *)
(* may fail, between any two of them.                                      *)
(*                                                                         *)
(* A post is known by its photo file; it is linked once the file's URL is  *)
(* in the post.  Firestore writes wait in a queue that survives the app;   *)
(* Storage calls and callbacks die with it.  Edit and Delete work on the   *)
(* feed's rows, which are as old as the last fetch that completed.         *)
(***************************************************************************)
EXTENDS Naturals, Sequences, FiniteSets

CONSTANTS Devices, Users,
          AccountOf,     \* AccountOf[dev]: the user signed in on dev
          ProjectIds,    \* document names, each drawn once
          Photos,        \* file names (UUIDs), each drawn once
          DeletesFrom,   \* the screens deletion is offered on, of "feed", "editor"
          CallsFail,     \* may an upload or a Storage deletion fail
          MaxFetches,    \* bound: fetches of a device that overlap
          MaxEdits,      \* bound: editors opened, on all devices
          MaxKills       \* bound: times a device's app is killed

ASSUME StoreAssumption == /\ AccountOf \in [Devices -> Users]
                          /\ DeletesFrom \subseteq {"feed", "editor"}
                          /\ CallsFail \in BOOLEAN
                          /\ MaxFetches \in Nat /\ MaxEdits \in Nat /\ MaxKills \in Nat

VARIABLES
  docs,       \* docs[key]: the project documents on the server
  files,      \* the photo files in Storage
  outbox,     \* outbox[dev]: Firestore writes not yet acknowledged
  removing,   \* removing[dev]: Storage deletions in flight
  rows,       \* rows[dev]: the projects of the feed, as fetched
  answers,    \* answers[dev][n]: what the fetch n of dev has so far
  screen,     \* screen[dev]: what the device is doing
  form,       \* form[dev]: the editor's project, updatePr
  acked,      \* devices whose title write was acknowledged, callback not yet run
  edits, kills, \* editors opened; kills[dev]: times dev's app was killed
  drawn,      \* names already drawn
  discarded,  \* files whose deletion was ever asked for
  wanted,     \* wanted[key]: the posts of the last save of key
  overlooked  \* photos that an edit or a deletion began without: its row was old

vars == <<docs, files, outbox, removing, rows, answers, screen, form, acked,
          edits, kills, drawn, discarded, wanted, overlooked>>
server == <<docs, files>>
fetched == <<rows, answers>>
counters == <<edits, kills, drawn>>

Keys == Users \X ProjectIds            \* Users/<uid>/projects/<id>
Files == Users \X Photos               \* Users/<uid>/images/projects/<name>
Post == [photo : Files, linked : BOOLEAN]
Doc == [there : BOOLEAN, text : BOOLEAN, posts : SUBSET Post]
Writes == [kind : {"create", "title", "text", "posts", "drop"}, key : Keys,
           posts : SUBSET Post, life : Nat]
NoDoc == [there |-> FALSE, text |-> FALSE, posts |-> {}]
NewId == ""                            \* the uid of a project not yet saved
ASSUME NewIdAssumption == NewId \notin ProjectIds
Fetches == 1..MaxFetches
Nothing == [key \in Keys |-> NoDoc]
NoForm == [uid |-> NewId, posts |-> {}, fresh |-> {}, up |-> {}, trash |-> {}, text |-> FALSE]
Form == [uid : ProjectIds \cup {NewId}, posts : SUBSET Post, fresh : SUBSET Files,
         up : SUBSET Files, trash : SUBSET Photos, text : BOOLEAN]
Busy == {"uploading", "saving"}

FileOf(dev, name) == <<AccountOf[dev], name>>

Init == /\ docs = Nothing
        /\ files = {}
        /\ outbox = [dev \in Devices |-> << >>]
        /\ removing = [dev \in Devices |-> {}]
        /\ rows = [dev \in Devices |-> Nothing]
        /\ answers = [dev \in Devices |-> [n \in Fetches |-> Nothing]]
        /\ screen = [dev \in Devices |-> "feed"]
        /\ form = [dev \in Devices |-> NoForm]
        /\ acked = {}
        /\ edits = 0
        /\ kills = [dev \in Devices |-> 0]
        /\ drawn = {}
        /\ discarded = {}
        /\ wanted = [key \in Keys |-> {}]
        /\ overlooked = {}
-----------------------------------------------------------------------------
\* The devices whose project still has to draw its uid.
Drafting == {dev \in Devices : screen[dev] \in {"editing", "uploading"} /\ form[dev].uid = NewId}

\* The feed's Post button: an editor on a project with no uid (bound: while there
\* is a name left for every draft).
OpenNew(dev) ==
  /\ screen[dev] = "feed" /\ edits < MaxEdits
  /\ Cardinality(Drafting) < Cardinality(ProjectIds \ drawn)
  /\ screen' = [screen EXCEPT ![dev] = "editing"]
  /\ form' = [form EXCEPT ![dev] = NoForm]
  /\ edits' = edits + 1
  /\ UNCHANGED <<server, fetched, outbox, removing, acked, kills, drawn, discarded,
                 wanted, overlooked>>

\* What a write makes of a document; an update of a missing one fails.
After(w, doc) ==
  CASE w.kind = "create" -> [NoDoc EXCEPT !.there = TRUE]
    [] w.kind = "drop" -> NoDoc
    [] w.kind = "text" /\ doc.there -> [doc EXCEPT !.text = TRUE]
    [] w.kind = "posts" /\ doc.there -> [doc EXCEPT !.posts = w.posts]
    [] OTHER -> doc

\* The indices of the writes of q to key of some kinds, and the last of a set.
Waiting(q, key, kinds) == {i \in 1..Len(q) : q[i].key = key /\ q[i].kind \in kinds}
Latest(indices) == {i \in indices : \A j \in indices : j <= i}

\* The document doc of key under the writes of q.
Under(q, key, doc) ==
  LET start == Latest(Waiting(q, key, {"create", "drop"}))
      later(kind) == {i \in Waiting(q, key, {kind}) : \A j \in start : j < i}
      base == IF start = {} THEN doc
              ELSE [NoDoc EXCEPT !.there = \A j \in start : q[j].kind = "create"]
  IN IF base.there
     THEN [base EXCEPT !.text = @ \/ later("text") # {},
                       !.posts = IF later("posts") = {} THEN @
                                 ELSE UNION {q[i].posts : i \in Latest(later("posts"))}]
     ELSE base

\* The project as dev reads it now: the server's document under dev's waiting writes.
Seen(dev, key) == Under(outbox[dev], key, docs[key])

\* The feed lists a project only if it has a text or a post.
Listed(doc) == doc.there /\ (doc.text \/ doc.posts # {})

\* A fetch, asked for whenever the feed was on the screen, has u's documents; if it
\* never does they are missing (an error, or the join by the last index).
ProjectsAnswered(dev, n, u) ==
  LET got == answers[dev][n] IN
  /\ \A key \in Keys : key[1] = u => got[key] = NoDoc
  /\ answers' = [answers EXCEPT ![dev][n] =
                    [key \in Keys |-> IF key[1] = u THEN Seen(dev, key) ELSE got[key]]]
  /\ UNCHANGED <<server, rows, outbox, removing, screen, form, acked, counters,
                 discarded, wanted,
                 overlooked>>

\* getProjects' completion: what this fetch has replaces the rows, on any screen and
\* however old it is.
FeedCompleted(dev, n) ==
  LET got == answers[dev][n] IN
  /\ rows' = [rows EXCEPT ![dev] = [key \in Keys |-> IF Listed(got[key]) THEN got[key] ELSE NoDoc]]
  /\ answers' = [answers EXCEPT ![dev][n] = Nothing]
  /\ UNCHANGED <<server, outbox, removing, screen, form, acked, counters, discarded, wanted,
                 overlooked>>

\* The photos that posts link, and those of a project that dev's row does not show yet.
Links(posts) == {p.photo : p \in {q \in posts : q.linked}}
Missed(dev, key) == Links(Seen(dev, key).posts) \ Links(rows[dev][key].posts)

\* The three dots' Edit, offered to everybody: a copy of the project of the row.  (A
\* fetch may complete while the dots' menu is up: no step tells it from one that
\* completes after the choice.)
OpenEdit(dev, key) ==
  /\ screen[dev] = "feed" /\ edits < MaxEdits /\ Listed(rows[dev][key])
  /\ screen' = [screen EXCEPT ![dev] = "editing"]
  /\ form' = [form EXCEPT ![dev] = [NoForm EXCEPT !.uid = key[2],
                                                  !.posts = rows[dev][key].posts,
                                                  !.text = rows[dev][key].text]]
  /\ edits' = edits + 1
  /\ overlooked' = overlooked \cup Missed(dev, key)
  /\ UNCHANGED <<server, fetched, outbox, removing, acked, kills, drawn, discarded, wanted>>

\* A photo is picked: a post with an image and no URL.
PhotoPicked(dev, name) ==
  /\ screen[dev] = "editing" /\ name \notin drawn
  /\ form' = [form EXCEPT ![dev] =
                 [form[dev] EXCEPT !.posts = @ \cup {[photo |-> FileOf(dev, name), linked |-> FALSE]},
                                   !.fresh = @ \cup {FileOf(dev, name)}]]
  /\ drawn' = drawn \cup {name}
  /\ UNCHANGED <<server, fetched, outbox, removing, screen, acked, edits, kills,
                 discarded, wanted, overlooked>>

\* Mutants of PostRemoved: the file name is not kept; the whole path is kept.
NameForgotten(dev, p) ==
  /\ screen[dev] = "editing" /\ p \in form[dev].posts
  /\ form' = [form EXCEPT ![dev].posts = @ \ {p}, ![dev].fresh = @ \ {p.photo}]
  /\ UNCHANGED <<server, fetched, outbox, removing, screen, acked, counters, discarded,
                 wanted, overlooked>>
PathKept(dev, p) ==
  /\ screen[dev] = "editing" /\ p \in form[dev].posts
  /\ form' = [form EXCEPT ![dev].posts = @ \ {p},
                          ![dev].fresh = @ \ {p.photo},
                          ![dev].trash = IF p.linked THEN @ \cup {p.photo} ELSE @]
  /\ UNCHANGED <<server, fetched, outbox, removing, screen, acked, counters, discarded,
                 wanted, overlooked>>

\* A post's cross: its file name goes to imageIDArray if it has a URL.
PostRemoved(dev, p) ==
  /\ screen[dev] = "editing" /\ p \in form[dev].posts
  /\ form' = [form EXCEPT ![dev] =
                 [form[dev] EXCEPT !.posts = @ \ {p},
                                   !.fresh = @ \ {p.photo},
                                   !.trash = IF p.linked THEN @ \cup {p.photo[2]} ELSE @]]
  /\ UNCHANGED <<server, fetched, outbox, removing, screen, acked, counters, discarded,
                 wanted, overlooked>>

\* The editor is left without saving.
Cancelled(dev) ==
  /\ screen[dev] = "editing"
  /\ screen' = [screen EXCEPT ![dev] = "feed"]
  /\ form' = [form EXCEPT ![dev] = NoForm]
  /\ UNCHANGED <<server, fetched, outbox, removing, acked, counters, discarded, wanted,
                 overlooked>>
-----------------------------------------------------------------------------
\* Ask Storage to delete names in the folder of the user signed in on dev.
AskRemoval(dev, names) ==
  LET asked == {FileOf(dev, name) : name \in names} IN
  /\ removing' = [removing EXCEPT ![dev] = @ \cup asked]
  /\ discarded' = discarded \cup asked

\* A write dev queues now; its callback is forgotten if the app is killed.
Write(dev, kind, id, posts) ==
  [kind |-> kind, key |-> <<AccountOf[dev], id>>, posts |-> posts, life |-> kills[dev]]

Queue(dev, writes) == outbox' = [outbox EXCEPT ![dev] = @ \o writes]

\* saveProject: the title goes to a new document, or updates the one with the uid.
SaveProject(dev, f) ==
  IF f.uid = NewId
  THEN \E id \in ProjectIds \ drawn :
         /\ drawn' = drawn \cup {id}
         /\ Queue(dev, <<Write(dev, "create", id, {})>>)
         /\ form' = [form EXCEPT ![dev] = [f EXCEPT !.uid = id]]
  ELSE /\ Queue(dev, <<Write(dev, "title", f.uid, {})>>)
       /\ form' = [form EXCEPT ![dev] = f]
       /\ UNCHANGED drawn

\* Save: removed photos are deleted first, then photos are uploaded, then the rest.
SaveTapped(dev) ==
  /\ screen[dev] = "editing"
  /\ AskRemoval(dev, form[dev].trash)
  /\ \E text \in {form[dev].text, TRUE} :
       LET f == [form[dev] EXCEPT !.text = text] IN
       IF f.posts # {}
       THEN /\ screen' = [screen EXCEPT ![dev] = "uploading"]
            /\ form' = [form EXCEPT ![dev] = f]
            /\ UNCHANGED <<outbox, drawn>>
       ELSE /\ screen' = [screen EXCEPT ![dev] = "saving"]
            /\ SaveProject(dev, f)
  /\ UNCHANGED <<server, fetched, acked, edits, kills, wanted, overlooked>>

\* Mutant of PhotoPut: an upload that failed goes on to ask for its URL.
PutUnchecked(dev, f) ==
  /\ screen[dev] = "uploading" /\ form[dev].up = {} /\ f \in form[dev].fresh
  /\ files' \in {files, files \cup {f}}
  /\ form' = [form EXCEPT ![dev].up = {f}]
  /\ UNCHANGED <<docs, fetched, outbox, removing, screen, acked, counters, discarded,
                 wanted, overlooked>>

\* uploadPhotoProject, putData: the file is stored, or the upload fails.
PhotoPut(dev, f) ==
  /\ screen[dev] = "uploading" /\ form[dev].up = {} /\ f \in form[dev].fresh
  /\ \/ /\ files' = files \cup {f}
        /\ form' = [form EXCEPT ![dev].up = {f}]
     \/ /\ CallsFail
        /\ form' = [form EXCEPT ![dev].fresh = @ \ {f}]
        /\ UNCHANGED files
  /\ UNCHANGED <<docs, fetched, outbox, removing, screen, acked, counters, discarded,
                 wanted, overlooked>>

\* uploadPhotoProject, downloadURL: the post gets its link, or nil.
PhotoLinked(dev, f) ==
  /\ screen[dev] = "uploading" /\ f \in form[dev].up
  /\ \E linked \in IF CallsFail THEN BOOLEAN ELSE {TRUE} :
       form' = [form EXCEPT ![dev] =
                  [form[dev] EXCEPT !.posts = {p \in @ : p.photo # f}
                                                \cup {[photo |-> f, linked |-> linked]},
                                    !.fresh = @ \ {f},
                                    !.up = {}]]
  /\ UNCHANGED <<server, fetched, outbox, removing, screen, acked, counters, discarded,
                 wanted, overlooked>>

\* Mutant of UploadsDone: each finished post goes on to save the project.
SavedByEachPost(dev) ==
  /\ screen[dev] = "uploading" /\ form[dev].fresh = {}
  /\ SaveProject(dev, form[dev])
  /\ UNCHANGED <<server, fetched, removing, screen, acked, edits, kills, discarded,
                 wanted, overlooked>>

\* The last post is done: saveProject.
UploadsDone(dev) ==
  /\ screen[dev] = "uploading" /\ form[dev].fresh = {}
  /\ screen' = [screen EXCEPT ![dev] = "saving"]
  /\ SaveProject(dev, form[dev])
  /\ UNCHANGED <<server, fetched, removing, acked, edits, kills, discarded, wanted,
                 overlooked>>

\* Mutants of TitleAcked: the posts are written only if there is no text; without
\* posts the completion is never called.
TextOrPosts(dev) ==
  LET f == form[dev]  key == <<AccountOf[dev], f.uid>> IN
  /\ dev \in acked
  /\ acked' = acked \ {dev}
  /\ Queue(dev, IF f.text THEN <<Write(dev, "text", f.uid, {})>>
                ELSE IF f.posts # {} THEN <<Write(dev, "posts", f.uid, f.posts)>> ELSE << >>)
  /\ wanted' = [wanted EXCEPT ![key] = f.posts]
  /\ screen' = [screen EXCEPT ![dev] = "feed"]
  /\ form' = [form EXCEPT ![dev] = NoForm]
  /\ UNCHANGED <<server, fetched, removing, counters, discarded, overlooked>>
CompletesWithPosts(dev) ==
  LET f == form[dev] IN
  /\ dev \in acked
  /\ acked' = acked \ {dev}
  /\ IF f.posts = {} THEN UNCHANGED <<screen, form, outbox>>
     ELSE /\ Queue(dev, <<Write(dev, "posts", f.uid, f.posts)>>)
          /\ screen' = [screen EXCEPT ![dev] = "feed"]
          /\ form' = [form EXCEPT ![dev] = NoForm]
  /\ UNCHANGED <<server, fetched, removing, counters, discarded, wanted, overlooked>>

\* The title write's callback: text and posts are written, without waiting, the
\* posts only if there are any; the HUD comes down and the feed comes back.
TitleAcked(dev) ==
  LET f == form[dev]  key == <<AccountOf[dev], f.uid>> IN
  /\ dev \in acked
  /\ acked' = acked \ {dev}
  /\ Queue(dev, (IF f.text THEN <<Write(dev, "text", f.uid, {})>> ELSE << >>)
                \o (IF f.posts # {} THEN <<Write(dev, "posts", f.uid, f.posts)>> ELSE << >>))
  /\ wanted' = [wanted EXCEPT ![key] = f.posts]
  /\ screen' = [screen EXCEPT ![dev] = "feed"]
  /\ form' = [form EXCEPT ![dev] = NoForm]
  /\ UNCHANGED <<server, fetched, removing, counters, discarded, overlooked>>
-----------------------------------------------------------------------------
\* Mutant of DeleteProject: each photo is deleted where its link leads.
DeleteByLink(dev, id, posts) ==
  LET asked == {p.photo : p \in {q \in posts : q.linked}} IN
  /\ removing' = [removing EXCEPT ![dev] = @ \cup asked]
  /\ discarded' = discarded \cup asked
  /\ Queue(dev, <<Write(dev, "drop", id, {})>>)
  /\ screen' = [screen EXCEPT ![dev] = "deleting"]
  /\ form' = [form EXCEPT ![dev] = NoForm]
  /\ UNCHANGED <<server, answers, acked, counters, wanted>>

\* deleteProject: delete the photos of posts and the document.  The group is
\* entered once more than it is left, so the HUD stays: "deleting" has no end.
DeleteProject(dev, id, posts) ==
  /\ AskRemoval(dev, {p.photo[2] : p \in {q \in posts : q.linked}})
  /\ Queue(dev, <<Write(dev, "drop", id, {})>>)
  /\ screen' = [screen EXCEPT ![dev] = "deleting"]
  /\ form' = [form EXCEPT ![dev] = NoForm]
  /\ UNCHANGED <<server, answers, acked, counters, wanted>>

\* The three dots' Delete, offered to the owner: the photos are those of the row.
DeleteFromFeed(dev, key) ==
  /\ "feed" \in DeletesFrom
  /\ screen[dev] = "feed" /\ Listed(rows[dev][key]) /\ key[1] = AccountOf[dev]
  /\ DeleteProject(dev, key[2], rows[dev][key].posts)
  /\ rows' = [rows EXCEPT ![dev][key] = NoDoc]
  /\ overlooked' = overlooked \cup Missed(dev, key)

\* The editor's trash button: the posts are those still in the editor.
DeleteFromEditor(dev) ==
  /\ "editor" \in DeletesFrom
  /\ screen[dev] = "editing" /\ form[dev].uid # NewId
  /\ DeleteProject(dev, form[dev].uid, form[dev].posts)
  /\ UNCHANGED <<rows, overlooked>>

\* Storage deletes a file, or (if calls fail) does not, which is only printed.
FileRemoved(dev, f) ==
  /\ f \in removing[dev]
  /\ removing' = [removing EXCEPT ![dev] = @ \ {f}]
  /\ files' \in {files \ {f}} \cup (IF CallsFail THEN {files} ELSE {})
  /\ UNCHANGED <<docs, fetched, outbox, screen, form, acked, counters, discarded, wanted,
                 overlooked>>
-----------------------------------------------------------------------------
\* The server acknowledges a write, or refuses it: the callback runs either way.
WriteReachesServer(dev) ==
  /\ outbox[dev] # << >>
  /\ LET w == Head(outbox[dev]) IN
       /\ docs' = [docs EXCEPT ![w.key] = After(w, @)]
       /\ acked' = IF w.kind \in {"create", "title"} /\ w.life = kills[dev]
                   THEN acked \cup {dev} ELSE acked
  /\ outbox' = [outbox EXCEPT ![dev] = Tail(@)]
  /\ UNCHANGED <<files, fetched, removing, screen, form, counters, discarded, wanted,
                 overlooked>>

\* The app is killed and started again: only the write queue is left.
AppKilled(dev) ==
  /\ kills[dev] < MaxKills
  /\ kills' = [kills EXCEPT ![dev] = @ + 1]
  /\ screen' = [screen EXCEPT ![dev] = "feed"]
  /\ form' = [form EXCEPT ![dev] = NoForm]
  /\ removing' = [removing EXCEPT ![dev] = {}]
  /\ acked' = acked \ {dev}
  /\ rows' = [rows EXCEPT ![dev] = Nothing]
  /\ answers' = [answers EXCEPT ![dev] = [n \in Fetches |-> Nothing]]
  /\ UNCHANGED <<server, outbox, edits, drawn, discarded, wanted, overlooked>>

Fetched(dev) == \E n \in Fetches :
  FeedCompleted(dev, n) \/ \E u \in Users : ProjectsAnswered(dev, n, u)
Opened(dev) == OpenNew(dev) \/ \E key \in Keys : OpenEdit(dev, key)
Edited(dev) == \/ \E name \in Photos : PhotoPicked(dev, name)
               \/ \E p \in form[dev].posts : PostRemoved(dev, p)
Uploaded(dev) == \E f \in form[dev].fresh : PhotoPut(dev, f) \/ PhotoLinked(dev, f)
Deleted(dev) == DeleteFromEditor(dev) \/ \E key \in Keys : DeleteFromFeed(dev, key)
Removed(dev) == \E f \in removing[dev] : FileRemoved(dev, f)

Steps(dev) ==
  \/ Fetched(dev) \/ Opened(dev) \/ Edited(dev) \/ Cancelled(dev) \/ SaveTapped(dev) \/ Deleted(dev)
  \/ Uploaded(dev) \/ UploadsDone(dev) \/ TitleAcked(dev) \/ Removed(dev)
  \/ WriteReachesServer(dev)
  \/ AppKilled(dev)

Next == \E dev \in Devices : Steps(dev)

Spec == Init /\ [][Next]_vars

\* The backends answer and callbacks run; nothing the user does is promised.
Fairness == \A dev \in Devices :
  /\ WF_vars(Uploaded(dev))
  /\ WF_vars(UploadsDone(dev))
  /\ WF_vars(WriteReachesServer(dev))
  /\ WF_vars(TitleAcked(dev))
  /\ WF_vars(Removed(dev))

FairSpec == Spec /\ Fairness
-----------------------------------------------------------------------------
(* Every variable has its type and every counter keeps its bound.          *)
TypeOK ==
  /\ docs \in [Keys -> Doc]
  /\ files \in SUBSET Files
  /\ outbox \in [Devices -> Seq(Writes)]
  /\ removing \in [Devices -> SUBSET Files]
  /\ rows \in [Devices -> [Keys -> Doc]]
  /\ answers \in [Devices -> [Fetches -> [Keys -> Doc]]]
  /\ screen \in [Devices -> {"feed", "editing", "deleting"} \cup Busy]
  /\ form \in [Devices -> Form]
  /\ acked \in SUBSET Devices
  /\ edits \in 0..MaxEdits /\ kills \in [Devices -> 0..MaxKills]
  /\ drawn \subseteq ProjectIds \cup Photos
  /\ discarded \in SUBSET Files
  /\ wanted \in [Keys -> SUBSET Post]
  /\ overlooked \in SUBSET Files

Leads(p) == p.linked => p.photo \in files \cup discarded

(* A link in a project leads to a stored photo, unless somebody asked for  *)
(* that photo to be deleted: uploads are linked only once they are stored, *)
(* and no failure, kill or other device's edit loses the photo of a kept   *)
(* post.                                                                   *)
LinksLead == \A key \in Keys : \A p \in docs[key].posts : Leads(p)

\* Nothing is on its way to a backend and nobody is editing.
Quiet == /\ acked = {}
         /\ \A dev \in Devices : /\ outbox[dev] = << >> /\ removing[dev] = {}
                                /\ screen[dev] \in {"feed", "deleting"}

Linked(f) == \E key \in Keys : \E p \in docs[key].posts : p.linked /\ p.photo = f

(* When all is quiet every stored photo is in a project, unless an edit or *)
(* a deletion began from a row that did not show it: the refetch that      *)
(* follows a save hides no row, so the old one can be tapped (one device,  *)
(* no failure, no kill, deletion from the feed).                           *)
NoOrphans == Quiet => \A f \in files : Linked(f) \/ f \in overlooked

(* "Delete Photo on Storage": when all is quiet and every project was      *)
(* deleted, wherever it was deleted from, no photo is left.                *)
DeletedPhotosAreGone == Quiet /\ (\A key \in Keys : ~docs[key].there) => files = {}

(* When all is quiet a project has the posts it was last saved with, if it *)
(* was saved with any (no user has two devices).                           *)
SavedPostsArrive ==
  Quiet => \A key \in Keys : docs[key].there /\ wanted[key] # {} => docs[key].posts = wanted[key]

(* "Delete Post": when all is quiet no post is left whose photo the user   *)
(* deleted in the editor and then saved.                                   *)
RemovedPostsAreGone ==
  Quiet => \A key \in Keys : \A p \in docs[key].posts : p.linked => p.photo \notin discarded

\* u has a device that did something in this step.
ActedFor(u) == \E dev \in Devices : AccountOf[dev] = u /\ (outbox'[dev] # outbox[dev]
                                                       \/ removing'[dev] # removing[dev]
                                                       \/ form'[dev] # form[dev])

(* A user's projects and photos are changed only by a device signed in as  *)
(* that user: Edit is offered on everybody's projects, and editing one of  *)
(* another changes nothing of it.                                          *)
OnlyOwnersChange ==
  [][\A u \in Users :
       \/ ActedFor(u)
       \/ /\ \A id \in ProjectIds : docs'[<<u, id>>] = docs[<<u, id>>]
          /\ \A name \in Photos : <<u, name>> \in files' <=> <<u, name>> \in files]_vars

(* What LinksLead, OnlyOwnersChange and the types of the documents rest    *)
(* on: the links waiting on a device, or in its feed, lead to photos too,  *)
(* ...                                                                     *)
PendingLinksLead ==
  \A dev \in Devices :
    /\ \A key \in Keys : \A p \in rows[dev][key].posts : Leads(p)
    /\ \A n \in Fetches, key \in Keys : \A p \in answers[dev][n][key].posts : Leads(p)
    /\ \A p \in form[dev].posts : Leads(p)
    /\ \A i \in 1..Len(outbox[dev]) : \A p \in outbox[dev][i].posts : Leads(p)
    /\ form[dev].up \subseteq files \cup discarded
    /\ removing[dev] \subseteq discarded

(* ... a device writes and deletes only under the user signed in on it ... *)
OwnWork ==
  \A dev \in Devices :
    /\ \A i \in 1..Len(outbox[dev]) : outbox[dev][i].key[1] = AccountOf[dev]
    /\ \A f \in removing[dev] \cup form[dev].fresh : f[1] = AccountOf[dev]

\* The titles dev wrote in its present life that the server has not seen.
TitlesOut(dev) ==
  {i \in 1..Len(outbox[dev]) : /\ outbox[dev][i].kind \in {"create", "title"}
                              /\ outbox[dev][i].life = kills[dev]}

\* dev has at most one title on its way, and only while it waits for it.
OneTitleOf(dev) ==
  /\ \A i \in 1..Len(outbox[dev]) : outbox[dev][i].life <= kills[dev]
  /\ \A i, j \in TitlesOut(dev) : i = j
  /\ TitlesOut(dev) # {} => dev \notin acked
  /\ TitlesOut(dev) # {} \/ dev \in acked => screen[dev] = "saving" /\ form[dev].uid \in ProjectIds

(* ... and the callback of a title finds the form that was saved.          *)
OneTitle == \A dev \in Devices : OneTitleOf(dev)

StoreInv == TypeOK /\ LinksLead /\ PendingLinksLead /\ OwnWork /\ OneTitle

(* What SavedPostsArrive rests on: a name in use was drawn, by a device of *)
(* the user, ...                                                           *)
NamesDrawn ==
  /\ \A dev \in Devices :
       /\ \A key \in Keys : rows[dev][key].there => key[2] \in drawn
       /\ \A n \in Fetches, key \in Keys : answers[dev][n][key].there => key[2] \in drawn
       /\ form[dev].uid \in drawn \cup {NewId}
       /\ \A i \in 1..Len(outbox[dev]) : outbox[dev][i].key[2] \in drawn
  /\ \A key \in Keys : docs[key] # NoDoc \/ wanted[key] # {} =>
       key[2] \in drawn /\ \E dev \in Devices : AccountOf[dev] = key[1]

(* ... and a device fetches its projects with the posts of the last save.  *)
SavesShow ==
  \A dev \in Devices, key \in Keys :
    key[1] = AccountOf[dev] /\ Seen(dev, key).there /\ wanted[key] # {} =>
      Seen(dev, key).posts = wanted[key]

ArrivalInv == StoreInv /\ NamesDrawn /\ SavesShow

\* The project in dev's editor.
KeyOf(dev) == <<AccountOf[dev], form[dev].uid>>

(* What NoOrphans rests on: photos are in the user's folder, and only one  *)
(* is being uploaded, ...                                                  *)
OneUpload ==
  \A dev \in Devices :
    /\ \A f \in files : f[1] = AccountOf[dev]
    /\ form[dev].up \subseteq form[dev].fresh
    /\ \A f, g \in form[dev].up : f = g
    /\ screen[dev] # "uploading" => form[dev].up = {}

(* ... a project in the feed exists, ...                                   *)
RowsExist ==
  \A dev \in Devices, key \in Keys : screen[dev] # "deleting" /\ ~Seen(dev, key).there =>
    ~rows[dev][key].there /\ \A n \in Fetches : ~answers[dev][n][key].there

(* ... the editor's project exists, and each of its photos is still in the *)
(* editor, will be deleted or was overlooked, ...                          *)
EditorKnows ==
  \A dev \in Devices : form[dev].uid # NewId =>
    /\ Seen(dev, KeyOf(dev)).there
    /\ screen[dev] = "editing" => \A f \in Links(Seen(dev, KeyOf(dev)).posts) :
         f \in Links(form[dev].posts) \/ f[2] \in form[dev].trash \/ f \in overlooked

(* ... and a stored photo was overlooked, is being deleted, is to be       *)
(* saved, or is in a project that is not just being saved.                 *)
FilesKept ==
  \A dev \in Devices : \A f \in files :
    \/ f \in overlooked
    \/ f \in removing[dev]
    \/ screen[dev] \in Busy /\ f \in form[dev].up \cup Links(form[dev].posts)
    \/ \E key \in Keys : /\ f \in Links(Seen(dev, key).posts)
                         /\ screen[dev] \in Busy => key # KeyOf(dev)

CalmInv == ArrivalInv /\ OneUpload /\ RowsExist /\ EditorKnows /\ FilesKept

(* A save always ends: the HUD comes down whatever calls fail.             *)
SaveEnds == \A dev \in Devices : screen[dev] \in Busy ~> screen[dev] \notin Busy
=============================================================================
