------------------------------ MODULE Accounts ------------------------------
(***************************************************************************)
(* Accounts, the session of a device and the profile: signing up (account, *)
(* then document), logging in and out, the defaults flag that signs out a  *)
(* reinstalled app, the profile's listeners, and editing the profile with  *)
(* an avatar that is uploaded first.  A user is known by the address; a    *)
(* profile is whether the document is there and whose avatar it links to.  *)
(*                                                                         *)
(* Firestore keeps a queue of writes per device and user, sent while that  *)
(* user is signed in; the queues and the session survive the app.          *)
(***************************************************************************)
EXTENDS Naturals, Sequences

CONSTANTS Devices, Users, Nobody,
          Known,        \* users who have an account and a profile from the start
          CallsFail,    \* may calls to Auth and Storage fail
          MaxStarts,    \* bound: sign-ups and log-ins tapped
          MaxEdits,     \* bound: profile editors opened
          MaxWrites,    \* bound: writes waiting on a device for a user
          MaxKills,     \* bound: times an app is killed and started again
          MaxInstalls   \* bound: times an app is deleted and installed again

ASSUME AccountsAssumption == /\ Nobody \notin Users /\ Known \subseteq Users
                             /\ CallsFail \in BOOLEAN
                             /\ MaxStarts \in Nat /\ MaxEdits \in Nat
                             /\ MaxWrites \in Nat /\ MaxKills \in Nat /\ MaxInstalls \in Nat

VARIABLES
  accounts,   \* Auth: the users that have an account
  profiles,   \* Firestore: profiles[u], the document Users/<u>
  avatars,    \* Storage: the users with a profile-photo.jpg
  session,    \* session[dev]: Auth's current user, in the keychain
  flag,       \* flag[dev]: signOutKey in the defaults
  outbox,     \* outbox[dev][u]: Firestore writes not yet acknowledged
  screen,     \* screen[dev]: what the device is doing
  email,      \* email[dev]: the user of the sign-up or log-in
  root,       \* root[dev]: the screen a signed-out device starts from
  listening, due, \* the documents listened to, and those with news not yet delivered
  shown,      \* shown[dev]: ProfileVC.user
  edited,     \* edited[dev]: EditProfileVC.updateUser
  upload,     \* upload[dev]: the state of the avatar's upload
  count,      \* the bounded counters
  stays,      \* devices whose user came in and neither logged out nor reinstalled
  cut,        \* users whose sign-up failed or was killed half-way
  refused     \* users whose document the server refused to create

cloud == <<accounts, profiles, avatars>>
keychain == <<session, flag>>
profileVC == <<listening, due, shown>>
editVC == <<edited, upload>>
history == <<stays, cut, refused>>
vars == <<cloud, keychain, outbox, screen, email, root, profileVC, editVC, count, history>>

Links == Users \cup {Nobody}
Profile == [there : BOOLEAN, link : Links]
User == [uid : Links, link : Links]
Copy == [uid : Links, link : Links, picked : BOOLEAN, editor : Nat]
NoUser == [uid |-> Nobody, link |-> Nobody]
NoCopy == [uid |-> Nobody, link |-> Nobody, picked |-> FALSE, editor |-> 0]
Writes == [kind : {"create", "update"}, uid : Users, link : Links, editor : Nat]
Covered == {"checking", "creating", "created", "saving", "reloading"}
Inside == {"created", "saving", "reloading", "tabs", "editing"}
Kinds == {"starts", "edits", "kills", "installs"}

Init == /\ accounts = Known
        /\ profiles = [u \in Users |-> [there |-> u \in Known, link |-> Nobody]]
        /\ avatars = {}
        /\ session = [dev \in Devices |-> Nobody]
        /\ flag = [dev \in Devices |-> TRUE]
        /\ outbox = [dev \in Devices |-> [u \in Users |-> << >>]]
        /\ screen = [dev \in Devices |-> "out"]
        /\ email = [dev \in Devices |-> Nobody]
        /\ root = [dev \in Devices |-> "welcome"]
        /\ listening = [dev \in Devices |-> {}]
        /\ due = [dev \in Devices |-> {}]
        /\ shown = [dev \in Devices |-> NoUser]
        /\ edited = [dev \in Devices |-> NoCopy]
        /\ upload = [dev \in Devices |-> "no"]
        /\ count = [kind \in Kinds |-> 0]
        /\ stays = {}
        /\ cut = {}
        /\ refused = {}
-----------------------------------------------------------------------------
Counted(kind, max) == count[kind] < max /\ count' = [count EXCEPT ![kind] = @ + 1]

Goes(dev, to) == screen' = [screen EXCEPT ![dev] = to]

\* A change of u's document on dev, if it listens to it; on every device.
Hears(dev, u) == IF u \in listening[dev] THEN due[dev] \cup {u} ELSE due[dev]
Tell(u) == due' = [dev \in Devices |-> Hears(dev, u)]

\* u's profile as dev sees it: the server's under the writes of the user signed in,
\* of which an update changes nothing where there is no document.
Waiting(dev) == IF session[dev] = Nobody THEN << >> ELSE outbox[dev][session[dev]]
Seen(dev, u) ==
  LET own == {i \in 1..Len(Waiting(dev)) : Waiting(dev)[i].uid = u}
      there == profiles[u].there \/ \E i \in own : Waiting(dev)[i].kind = "create"
  IN
  IF own = {} \/ ~there THEN profiles[u]
  ELSE LET last == CHOOSE i \in own : \A j \in own : j <= i
       IN [there |-> TRUE, link |-> Waiting(dev)[last].link]

\* Queue a write of the user signed in on dev; its own listener hears at once.
Queue(dev, u, w) ==
  /\ outbox' = [outbox EXCEPT ![dev][u] = Append(@, w)]
  /\ due' = [due EXCEPT ![dev] = Hears(dev, w.uid)]
-----------------------------------------------------------------------------
\* Sign Up, from the welcome screen.
SignUpTapped(dev, u) ==
  /\ screen[dev] = "out" /\ root[dev] = "welcome"
  /\ Counted("starts", MaxStarts)
  /\ Goes(dev, "checking")
  /\ email' = [email EXCEPT ![dev] = u]
  /\ UNCHANGED <<cloud, keychain, outbox, root, profileVC, editVC, history>>

\* fetchSignInMethods: an error counts as an address that is free.
EmailChecked(dev) ==
  /\ screen[dev] = "checking"
  /\ \E failed \in {FALSE, CallsFail} :
       Goes(dev, IF email[dev] \in accounts /\ ~failed THEN "out" ELSE "creating")
  /\ UNCHANGED <<cloud, keychain, outbox, email, root, profileVC, editVC, count, history>>

\* Auth creates the account and signs in; the callback comes later.
AccountCreated(dev) ==
  /\ screen[dev] = "creating" /\ email[dev] \notin accounts
  /\ accounts' = accounts \cup {email[dev]}
  /\ session' = [session EXCEPT ![dev] = email[dev]]
  /\ Goes(dev, "created")
  /\ UNCHANGED <<profiles, avatars, flag, outbox, email, root, profileVC, editVC, count, history>>

\* Mutant of AccountRefused: the callback goes on without looking at the error.
RefusalIgnored(dev) ==
  /\ screen[dev] = "creating" /\ email[dev] \in accounts
  /\ session' = [session EXCEPT ![dev] = email[dev]]
  /\ Goes(dev, "created")
  /\ UNCHANGED <<cloud, flag, outbox, email, root, profileVC, editVC, count, history>>

\* createAccount fails: the address is taken, or the answer is lost.
AccountRefused(dev) ==
  /\ screen[dev] = "creating"
  /\ \/ email[dev] \in accounts /\ UNCHANGED <<accounts, cut>>
     \/ CallsFail /\ UNCHANGED <<accounts, cut>>
     \/ /\ CallsFail /\ email[dev] \notin accounts
        /\ accounts' = accounts \cup {email[dev]} /\ cut' = cut \cup {email[dev]}
  /\ Goes(dev, "out")
  /\ UNCHANGED <<profiles, avatars, keychain, outbox, email, root, profileVC, editVC, count, stays, refused>>

\* Mutant of UserSaved: the document is left for later.
UserNotSaved(dev) ==
  /\ screen[dev] = "created"
  /\ Goes(dev, "reloading")
  /\ UNCHANGED <<cloud, keychain, outbox, email, root, profileVC, editVC, count, history>>

\* createAccount's callback: saveUser, setData on Users/<uid>.
UserSaved(dev) ==
  LET u == email[dev] IN
  /\ screen[dev] = "created"
  /\ Queue(dev, u, [kind |-> "create", uid |-> u, link |-> Nobody, editor |-> 0])
  /\ Goes(dev, "saving")
  /\ UNCHANGED <<cloud, keychain, email, root, listening, shown, editVC, count, history>>

\* Log In.
LogInTapped(dev, u) ==
  /\ screen[dev] = "out"
  /\ Counted("starts", MaxStarts)
  /\ Goes(dev, "signing")
  /\ email' = [email EXCEPT ![dev] = u]
  /\ UNCHANGED <<cloud, keychain, outbox, root, profileVC, editVC, history>>

SignedIn(dev) ==
  /\ screen[dev] = "signing"
  /\ \/ /\ email[dev] \in accounts
        /\ session' = [session EXCEPT ![dev] = email[dev]]
        /\ Goes(dev, "reloading")
     \/ /\ email[dev] \notin accounts \/ CallsFail
        /\ Goes(dev, "out")
        /\ UNCHANGED session
  /\ UNCHANGED <<cloud, flag, outbox, email, root, profileVC, editVC, count, history>>

\* Mutant of Reloaded: the flag is not set.
FlagForgotten(dev) ==
  /\ screen[dev] = "reloading"
  /\ stays' = stays \cup {dev}
  /\ email' = [email EXCEPT ![dev] = Nobody]
  /\ Goes(dev, "tabs")
  /\ UNCHANGED <<cloud, keychain, outbox, root, profileVC, editVC, count, cut, refused>>

\* reloadCurrentUser's callback, of a sign-up or a log-in: the tabs are back.
Reloaded(dev) ==
  /\ screen[dev] = "reloading"
  /\ flag' = [flag EXCEPT ![dev] = TRUE]
  /\ stays' = stays \cup {dev}
  /\ email' = [email EXCEPT ![dev] = Nobody]
  /\ Goes(dev, "tabs")
  /\ UNCHANGED <<cloud, session, outbox, root, profileVC, editVC, count, cut, refused>>
-----------------------------------------------------------------------------
\* Nothing covers the tabs: no HUD of a save is up.
Free(dev) == screen[dev] = "tabs" /\ upload[dev] = "no"

\* The profile appears without a user, or is refreshed: fetchCurrentUser.
ProfileAppears(dev) ==
  /\ Free(dev)
  /\ listening' = [listening EXCEPT ![dev] = @ \cup {session[dev]}]
  /\ due' = [due EXCEPT ![dev] = @ \cup {session[dev]}]
  /\ UNCHANGED <<cloud, keychain, outbox, screen, email, root, shown, editVC, count, history>>

\* A listener's callback, whoever is signed in by now; an error is its last call.
ListenerFires(dev, u) ==
  /\ u \in due[dev]
  /\ due' = [due EXCEPT ![dev] = @ \ {u}]
  /\ \/ /\ shown' = [shown EXCEPT ![dev] =
                        IF Seen(dev, u).there THEN [uid |-> u, link |-> Seen(dev, u).link]
                        ELSE NoUser]
        /\ UNCHANGED listening
     \/ /\ CallsFail
        /\ shown' = [shown EXCEPT ![dev] = NoUser]
        /\ listening' = [listening EXCEPT ![dev] = @ \ {u}]
  /\ UNCHANGED <<cloud, keychain, outbox, screen, email, root, editVC, count, history>>

\* Logout: the profile is emptied and the flag falls, even if signing out throws.
LogoutTapped(dev) ==
  /\ Free(dev)
  /\ shown' = [shown EXCEPT ![dev] = NoUser]
  /\ flag' = [flag EXCEPT ![dev] = FALSE]
  /\ stays' = stays \ {dev}
  /\ \/ /\ session' = [session EXCEPT ![dev] = Nobody]
        /\ Goes(dev, "out")
        /\ root' = [root EXCEPT ![dev] = "login"]
     \/ CallsFail /\ UNCHANGED <<session, screen, root>>
  /\ UNCHANGED <<cloud, outbox, email, listening, due, editVC, count, cut, refused>>
-----------------------------------------------------------------------------
\* The copy of a user, in a new editor.
CopyOf(user) == [uid |-> user.uid, link |-> user.link, picked |-> FALSE, editor |-> count["edits"] + 1]

\* Mutant of EditTapped: without a user, an empty one is edited.
EditsNobody(dev) ==
  /\ Free(dev) /\ Counted("edits", MaxEdits)
  /\ edited' = [edited EXCEPT ![dev] = CopyOf(IF shown[dev] = NoUser
                                              THEN [NoUser EXCEPT !.uid = session[dev]] ELSE shown[dev])]
  /\ Goes(dev, "editing")
  /\ UNCHANGED <<cloud, keychain, outbox, email, root, profileVC, upload, history>>

\* Edit: a copy of the user shown, if there is one.
EditTapped(dev) ==
  /\ Free(dev) /\ Counted("edits", MaxEdits)
  /\ edited' = [edited EXCEPT ![dev] = IF shown[dev] = NoUser THEN NoCopy ELSE CopyOf(shown[dev])]
  /\ Goes(dev, "editing")
  /\ UNCHANGED <<cloud, keychain, outbox, email, root, profileVC, upload, history>>

Editing(dev) == screen[dev] = "editing" /\ upload[dev] = "no"

\* A new avatar: the copy's link goes at once.
AvatarPicked(dev) ==
  /\ Editing(dev) /\ edited[dev] # NoCopy
  /\ edited' = [edited EXCEPT ![dev] = [@ EXCEPT !.link = Nobody, !.picked = TRUE]]
  /\ UNCHANGED <<cloud, keychain, outbox, screen, email, root, profileVC, upload, count, history>>

\* The group is left: updateUser with the copy and a link.  The HUD comes down; the
\* editor closes when the write is acknowledged.
UpdateUser(dev, link) ==
  /\ edited' = [edited EXCEPT ![dev] = IF screen[dev] = "editing" THEN [@ EXCEPT !.link = link]
                                       ELSE NoCopy]
  /\ Queue(dev, session[dev], [kind |-> "update", uid |-> edited[dev].uid, link |-> link,
                               editor |-> edited[dev].editor])

\* Mutant of SaveTapped: without a copy, a save starts all the same.
SavesNobody(dev) ==
  /\ Editing(dev) /\ Len(outbox[dev][session[dev]]) < MaxWrites
  /\ IF edited[dev].picked
     THEN upload' = [upload EXCEPT ![dev] = "putting"] /\ UNCHANGED <<edited, outbox, due>>
     ELSE UpdateUser(dev, edited[dev].link) /\ UNCHANGED upload
  /\ UNCHANGED <<cloud, keychain, screen, email, root, listening, shown, count, history>>

\* Save (bound: while the queue is short): the avatar first, if one was picked.
SaveTapped(dev) ==
  /\ Editing(dev) /\ edited[dev] # NoCopy /\ Len(outbox[dev][session[dev]]) < MaxWrites
  /\ IF edited[dev].picked
     THEN upload' = [upload EXCEPT ![dev] = "putting"] /\ UNCHANGED <<edited, outbox, due>>
     ELSE UpdateUser(dev, edited[dev].link) /\ UNCHANGED upload
  /\ UNCHANGED <<cloud, keychain, screen, email, root, listening, shown, count, history>>

\* Mutant of AvatarPut: a failed upload goes on to ask for its URL.
PutUnchecked(dev) ==
  /\ upload[dev] = "putting"
  /\ avatars' \in {avatars, avatars \cup {session[dev]}}
  /\ upload' = [upload EXCEPT ![dev] = "linking"]
  /\ UNCHANGED <<accounts, profiles, keychain, outbox, screen, email, root, profileVC, edited,
                 count, history>>

\* uploadAvatar, putData: into the folder of the user signed in, or the link is nil.
AvatarPut(dev) ==
  /\ upload[dev] = "putting"
  /\ \/ /\ avatars' = avatars \cup {session[dev]}
        /\ upload' = [upload EXCEPT ![dev] = "linking"]
        /\ UNCHANGED <<edited, outbox, due>>
     \/ /\ CallsFail
        /\ upload' = [upload EXCEPT ![dev] = "no"]
        /\ UpdateUser(dev, Nobody)
        /\ UNCHANGED avatars
  /\ UNCHANGED <<accounts, profiles, keychain, screen, email, root, listening, shown, count, history>>

\* uploadAvatar, downloadURL.
AvatarLinked(dev) ==
  /\ upload[dev] = "linking"
  /\ upload' = [upload EXCEPT ![dev] = "no"]
  /\ \E link \in {session[dev]} \cup (IF CallsFail THEN {Nobody} ELSE {}) : UpdateUser(dev, link)
  /\ UNCHANGED <<cloud, keychain, screen, email, root, listening, shown, count, history>>

\* Back.
BackTapped(dev) ==
  /\ Editing(dev)
  /\ Goes(dev, "tabs")
  /\ edited' = [edited EXCEPT ![dev] = NoCopy]
  /\ UNCHANGED <<cloud, keychain, outbox, email, root, profileVC, upload, count, history>>
-----------------------------------------------------------------------------
\* Mutant of Answered: a refused document keeps its HUD.
RefusalKeepsHud(dev, w, taken) ==
  CASE w.kind = "create" /\ screen[dev] = "saving" ->
            Goes(dev, IF taken THEN "reloading" ELSE "saving") /\ UNCHANGED edited
     [] w.kind = "update" /\ screen[dev] = "editing" /\ w.editor = edited[dev].editor ->
            /\ Goes(dev, "tabs")
            /\ edited' = IF upload[dev] = "no" THEN [edited EXCEPT ![dev] = NoCopy] ELSE edited
     [] OTHER -> UNCHANGED <<screen, edited>>

\* What the answer to a write does: a sign-up goes on, or stays where it is, signed
\* in; the editor that saved is popped if it is still there.
Answered(dev, w, taken) ==
  CASE w.kind = "create" /\ screen[dev] = "saving" ->
            Goes(dev, IF taken THEN "reloading" ELSE "out") /\ UNCHANGED edited
     [] w.kind = "update" /\ screen[dev] = "editing" /\ w.editor = edited[dev].editor ->
            /\ Goes(dev, "tabs")
            /\ edited' = IF upload[dev] = "no" THEN [edited EXCEPT ![dev] = NoCopy] ELSE edited
     [] OTHER -> UNCHANGED <<screen, edited>>

\* The server takes or refuses a write of the user signed in.
WriteReachesServer(dev) ==
  LET u == session[dev]  w == Head(outbox[dev][u]) IN
  /\ u # Nobody /\ outbox[dev][u] # << >>
  /\ outbox' = [outbox EXCEPT ![dev][u] = Tail(@)]
  /\ \/ /\ profiles' = [profiles EXCEPT ![w.uid] =
                IF w.kind = "create" \/ @.there THEN [there |-> TRUE, link |-> w.link] ELSE @]
        /\ Tell(w.uid)
        /\ Answered(dev, w, TRUE)
        /\ UNCHANGED refused
     \/ /\ CallsFail
        /\ due' = [due EXCEPT ![dev] = Hears(dev, w.uid)]
        /\ Answered(dev, w, FALSE)
        /\ refused' = IF w.kind = "create" THEN refused \cup {w.uid} ELSE refused
        /\ UNCHANGED profiles
  /\ UNCHANGED <<accounts, avatars, keychain, email, root, listening, shown, upload, count,
                 stays, cut>>

\* didFinishLaunching, setupLogOut: a flag that is not set signs out, and is set.
Launch(dev, wasSet) ==
  /\ \E user \in IF wasSet THEN {session[dev]}
                 ELSE {Nobody} \cup (IF CallsFail THEN {session[dev]} ELSE {}) :
       /\ session' = [session EXCEPT ![dev] = user]
       /\ Goes(dev, IF user = Nobody THEN "out" ELSE "tabs")
  /\ flag' = [flag EXCEPT ![dev] = TRUE]
  /\ root' = [root EXCEPT ![dev] = "welcome"]
  /\ email' = [email EXCEPT ![dev] = Nobody]
  /\ listening' = [listening EXCEPT ![dev] = {}]
  /\ due' = [due EXCEPT ![dev] = {}]
  /\ shown' = [shown EXCEPT ![dev] = NoUser]
  /\ edited' = [edited EXCEPT ![dev] = NoCopy]
  /\ upload' = [upload EXCEPT ![dev] = "no"]

\* The app is killed and started again; a creation asked for may go through.
Relaunched(dev) ==
  /\ Counted("kills", MaxKills)
  /\ Launch(dev, flag[dev])
  /\ accounts' \in {accounts} \cup (IF screen[dev] = "creating" THEN {accounts \cup {email[dev]}} ELSE {})
  /\ cut' = cut \cup (accounts' \ accounts) \cup (IF screen[dev] = "created" THEN {email[dev]} ELSE {})
  /\ UNCHANGED <<profiles, avatars, outbox, stays, refused>>

\* The app is deleted and installed again: defaults and queues go, the keychain stays.
Reinstalled(dev) ==
  /\ Counted("installs", MaxInstalls)
  /\ Launch(dev, FALSE)
  /\ outbox' = [outbox EXCEPT ![dev] = [u \in Users |-> << >>]]
  /\ accounts' \in {accounts} \cup (IF screen[dev] = "creating" THEN {accounts \cup {email[dev]}} ELSE {})
  /\ cut' = cut \cup (accounts' \ accounts) \cup (IF screen[dev] = "created" THEN {email[dev]} ELSE {})
                \cup {u \in Users : outbox[dev][u] # << >>}
  /\ stays' = stays \ {dev}
  /\ UNCHANGED <<profiles, avatars, refused>>

SigningUp(dev) == \/ EmailChecked(dev) \/ AccountCreated(dev) \/ AccountRefused(dev) \/ UserSaved(dev)
ComingIn(dev) == SigningUp(dev) \/ SignedIn(dev) \/ Reloaded(dev)
Uploading(dev) == AvatarPut(dev) \/ AvatarLinked(dev)
Tapped(dev) == \/ \E u \in Users : SignUpTapped(dev, u) \/ LogInTapped(dev, u)
               \/ ProfileAppears(dev) \/ LogoutTapped(dev)
               \/ EditTapped(dev) \/ AvatarPicked(dev) \/ SaveTapped(dev) \/ BackTapped(dev)
Heard(dev) == \E u \in due[dev] : ListenerFires(dev, u)

Steps(dev) == \/ Tapped(dev) \/ ComingIn(dev) \/ Uploading(dev) \/ Heard(dev)
              \/ WriteReachesServer(dev) \/ Relaunched(dev) \/ Reinstalled(dev)

Next == \E dev \in Devices : Steps(dev)

Spec == Init /\ [][Next]_vars

\* The backends answer and callbacks run; nothing the user does is promised.
Fairness == \A dev \in Devices : /\ WF_vars(ComingIn(dev))
                                 /\ WF_vars(Uploading(dev))
                                 /\ WF_vars(Heard(dev))
                                 /\ WF_vars(WriteReachesServer(dev))

FairSpec == Spec /\ Fairness
-----------------------------------------------------------------------------
(* Every variable has its type: above all, a user is signed in wherever    *)
(* something is listened to or written, and no save starts without a copy. *)
TypeOK ==
  /\ accounts \subseteq Users /\ avatars \subseteq Users
  /\ cut \subseteq Users /\ refused \subseteq Users
  /\ profiles \in [Users -> Profile]
  /\ session \in [Devices -> Links] /\ email \in [Devices -> Links]
  /\ flag \in [Devices -> BOOLEAN]
  /\ outbox \in [Devices -> [Users -> Seq(Writes)]]
  /\ screen \in [Devices -> {"out", "signing", "tabs", "editing"} \cup Covered]
  /\ root \in [Devices -> {"welcome", "login"}]
  /\ listening \in [Devices -> SUBSET Users] /\ due \in [Devices -> SUBSET Users]
  /\ shown \in [Devices -> User] /\ edited \in [Devices -> Copy]
  /\ upload \in [Devices -> {"no", "putting", "linking"}]
  /\ count \in [Kinds -> Nat]
  /\ stays \subseteq Devices

(* Who came in stays in: a device whose log-in or sign-up was finished has *)
(* a user until that user logs out or the app is reinstalled, however often*)
(* the app is killed, and whatever was left in the defaults by an earlier  *)
(* logout.                                                                 *)
SessionKept == \A dev \in stays : session[dev] # Nobody

(* saveUser's setData never replaces a profile: each account gets its      *)
(* document from one sign-up, although two devices may sign up one address *)
(* at once, and the write may arrive long after the app was killed.        *)
ProfileIsNew ==
  \A dev \in Devices, u \in Users : \A i \in 1..Len(outbox[dev][u]) :
    outbox[dev][u][i].kind = "create" => ~profiles[u].there

(* updateUser always meets its document, unless the server refused to make *)
(* it: whoever edits a profile has seen it on the server, or waits behind  *)
(* the sign-up that writes it.                                             *)
UpdateFindsProfile ==
  \A dev \in Devices : LET q == Waiting(dev) IN
    q # << >> /\ Head(q).kind = "update" =>
      profiles[Head(q).uid].there \/ Head(q).uid \in refused

(* A profile's link leads to an avatar that was stored, of whoever it is.  *)
AvatarsAreThere == \A u \in Users : profiles[u].link # Nobody => profiles[u].link \in avatars

\* Nothing is on its way to the server and nobody is coming in.
Quiet == \A dev \in Devices : /\ \A u \in Users : outbox[dev][u] = << >>
                              /\ screen[dev] \in {"out", "tabs", "editing"}

(* When all is quiet every account has its document, unless its sign-up    *)
(* failed or was killed between the account and the document, or the       *)
(* server refused the document.                                            *)
AccountsHaveProfiles == Quiet => \A u \in accounts \ (cut \cup refused) : profiles[u].there

(* The parts of the inductive invariant.  A device has a user past the     *)
(* sign-up's account or the log-in, and before that only one whose document*)
(* was refused, which leaves the sign-up where it was; a device whose user *)
(* stays has its flag; and an upload has an editor's copy.                 *)
SessionFits(dev) ==
  /\ screen[dev] \in Inside => session[dev] # Nobody
  /\ session[dev] # Nobody => screen[dev] \in Inside \/ session[dev] \in refused
  /\ screen[dev] \in {"checking", "creating", "created", "saving", "signing"} => email[dev] \in Users
  /\ screen[dev] \in {"created", "saving"} => session[dev] = email[dev]
  /\ dev \in stays => flag[dev] /\ session[dev] # Nobody
  /\ upload[dev] # "no" => screen[dev] \in {"tabs", "editing"} /\ edited[dev] # NoCopy
  /\ edited[dev] # NoCopy => screen[dev] = "editing" \/ upload[dev] # "no"
Sessions == \A dev \in Devices : SessionFits(dev)

\* What a queue of u's writes holds: a creation; at most one, of u; updates of users
\* in docs, or that wait behind u's creation; links that lead to an avatar.
Creation(q, i) == i \in 1..Len(q) /\ q[i].kind = "create"
Creates(q) == \E i \in 1..Len(q) : Creation(q, i)
CreatesOnce(q, u) == \A i \in 1..Len(q) : Creation(q, i) =>
  q[i].uid = u /\ \A j \in 1..Len(q) : Creation(q, j) => i = j
Finds(q, u, docs) == \A i \in 1..Len(q) :
  \/ Creation(q, i) \/ q[i].uid \in docs
  \/ q[i].uid = u /\ \E j \in 1..(i - 1) : Creation(q, j)
Leads(q, stored) == \A i \in 1..Len(q) : q[i].link \in stored \cup {Nobody}

\* A sign-up on dev is about to write u's document, or its write waits.
Claims(dev, u) == screen[dev] = "created" /\ email[dev] = u
Makes(dev, u) == Claims(dev, u) \/ Creates(outbox[dev][u])
Documents == {u \in Users : profiles[u].there}

(* One sign-up makes the document of an account, before it is there.       *)
OneCreation == \A u \in Users :
  /\ u \in Documents => u \in accounts
  /\ \A dev \in Devices :
       /\ Makes(dev, u) => u \in accounts \ Documents
       /\ Claims(dev, u) => ~Creates(outbox[dev][u])
       /\ CreatesOnce(outbox[dev][u], u)
  /\ \A d, e \in Devices : Makes(d, u) /\ Makes(e, u) => d = e

(* An update waits for a document that is there, that was refused, or that *)
(* is created by a write before it.                                        *)
Answers == Documents \cup refused
UpdatesCovered == \A dev \in Devices, u \in Users : Finds(outbox[dev][u], u, Answers)

(* The same for the user shown and the copy in the editor, whose update    *)
(* would wait behind all that waits.                                       *)
Ready(dev, v) == \/ v \in Answers
                 \/ v \in Users /\ session[dev] = v /\ Creates(outbox[dev][v])
CopiesCovered == \A dev \in Devices :
  /\ shown[dev] # NoUser => Ready(dev, shown[dev].uid)
  /\ edited[dev] # NoCopy => Ready(dev, edited[dev].uid)

(* Every link, wherever it is, leads to an avatar.                         *)
Stored(link) == link \in avatars \cup {Nobody}
LinksStored ==
  /\ \A u \in Users : Stored(profiles[u].link)
  /\ \A dev \in Devices : /\ Stored(shown[dev].link) /\ Stored(edited[dev].link)
                          /\ upload[dev] = "linking" => Stored(session[dev])
                          /\ \A u \in Users : Leads(outbox[dev][u], avatars)

(* An account without a document has a sign-up under way, or one cut short *)
(* or refused.                                                             *)
NoneForgotten ==
  \A u \in accounts \ (cut \cup refused) : u \in Documents \/ \E dev \in Devices : Makes(dev, u)

(* The inductive invariant, from which the safety properties follow.       *)
AccountsInv == /\ TypeOK /\ Sessions /\ OneCreation /\ UpdatesCovered
               /\ CopiesCovered /\ LinksStored /\ NoneForgotten

Busy(dev) == screen[dev] \in Covered \cup {"signing"} \/ upload[dev] # "no"

(* The HUD of a sign-up, a log-in or an avatar's upload always comes down, *)
(* also when the server refuses the new user's document.                   *)
HudComesDown == \A dev \in Devices : Busy(dev) ~> ~Busy(dev)
=============================================================================
