# A TLA+ model of PC Build

PC Build is an iOS app (Swift, UIKit, Firebase) in which users publish PC-building
projects with photos and like and save each other's projects. It has no server of
its own: every device talks to Firestore (documents), Firebase Storage (photos) and
Firebase Auth directly, and all of the program's logic is in callbacks of those
services, run on the device's main queue. What can go wrong is therefore what can
happen *between* two remote calls: another device's write, another tap, a lost
callback, a failed call, the app being killed. There are no tests in the repository.

Paths below are relative to `src/PC Build/PC Build/`.

## 1. Inventory

| Component | Source | State | Operations | Interacts with |
|---|---|---|---|---|
| Likes | `Models/LikeModel.swift` | `Likes/<project>`: a key per user who likes the project | saveLike (read, then update or set), deleteLike, fetchLike, fetchLikes (listener) | feed cells; Firestore's queue of pending writes |
| Saved | `Models/SavedModel.swift` | `Saved/<user>`: a key per saved project | saveSaved, deleteSaved, fetchSaved, fetchArraySaved | feed, profile |
| Feed fetch | `Models/ProjectModel.swift` (fetchProjects), `Tab-Feeds/FeedVC.swift` (getProjects) | one DispatchGroup and array per call; the feed's rows; the HUD | fan-out over users, completion, refresh, logout notification | HUD, editor (popHandler refreshes), session |
| Project editor and store | `Tab-Feeds/AddProjects/PostProjectVC.swift`, `PostProjectViewModel.swift`, `Models/ProjectModel.swift`, `PostModel.swift`, `FirebaseStorage.swift`, `Tab-Feeds/ThreeDots/ThreeDotsVC.swift` | the project of a row, `updatePr`, `imageIDArray`; `Users/<uid>/projects/<id>`; `Users/<uid>/images/projects/<name>` | open, pick photo, remove post, cancel, save, delete | Storage, Firestore, HUD, feed |
| Feed screen and listeners | `Tab-Feeds/FeedVC.swift`, `FeedTVCell.swift` | `projects` and their marks, the table and its reused cells, snapshot listeners, `appDL.userProjects` | getLikes, getSaved, reload, taps, deletion of a row, logout | Likes, Saved, Feed fetch, Profile |
| Profile | `Tab-Profiles/ProfileVC.swift`, `EditProfiles/EditProfileVC.swift` | user, own projects, saved projects, avatar | listeners, avatar upload, update | Storage, Users, session |
| Accounts and session | `AppDelegates/AppDelegate.swift`, `Models/UserModel.swift`, `Authentications/*` | Auth's current user, `Users/<uid>`, a defaults flag | sign-up, log-in, sign-out, removal | every component guards on `currentUser` |
| HUD | `HUD/HUD.swift` | overlays | shown, removed | every long operation |
| Views, cells, helpers | `MyUtils`, `Extensions`, ... | layout only | - | - |
| Pods | `../Pods` | vendored libraries | - | - |

Hard behaviours: a value read before a callback and used after it (Likes, Saved);
answers in any order (fan-out); a save made of many remote calls, any of which can
fail and after any of which the app can be killed (editor); two devices of one
user; writes queued on the device and sent later; completions that are never
called; a session that outlives the app, its defaults and its queue. `PROJECT.json` lists each one at its line.

What makes each component correct:

- **Likes, Saved**: toggling one flag touches no other; a flag taken off stays off;
  a tapped like is recorded; an update never meets a missing document.
- **Feed fetch**: the completion has the last user's projects and nobody's who is not listed,
  and takes its overlay down.
- **Project editor and store**: links lead to photos, photos belong to projects (but for
  those that an old row hides from the editor), a save arrives and ends, only the owner changes a project.
- **Feed listeners**: the cells show Firestore's likes and saves once all is quiet; the
  table is never left behind the rows; the cascade of listeners ends.
- **Profile, accounts**: every account has a document unless its sign-up was cut
  short or its document refused; who came in stays in; no sign-up replaces a profile; a profile's link leads
  to an avatar; the HUD comes down.

## 2. The modules

| Module | Models | Uses |
|---|---|---|
| `AbstractFlags` | what a collection of flag documents promises | |
| `FlagDocs` | read-then-write flag documents: the common shape of Likes and Saved | instance of `AbstractFlags` |
| `Likes`, `Saved` | the two collections, actions named as in the code | instances of `FlagDocs` |
| `FetchAll` | the fan-out of `fetchProjects` and the feed's overlay | |
| `ProjectStore` | editor, uploads, Storage, Firestore queue, deletion | |
| `Accounts` | sign-up, log-in, logout, kills and reinstalls, the profile's listeners and editor | |
| `Tabs` | the feed and the profile of a device: rows, table, cells, lists, the main queue and the listeners | |
| `MC*` | model values and the constants that are functions | extend the modules above |
| `FlagDocsProofs`, `LikesProofs`, `SavedProofs`, `FetchAllProofs`, `ProjectStoreProofs`, `AccountsProofs`, `TabsProofs` | theorems about the module of that name | TLAPS |
| `CalmStoreProofs` | theorems about `ProjectStore` that need users with one device each, or one device without failures | extends `ProjectStoreProofs` |

### FlagDocs, Likes, Saved

`flags[doc]` and `exists` are the server. `saveLike` is three steps: `SaveTapped`
starts the read, `ReadAnswered` fixes its answer (the server's document, or the
device's own waiting `setData`; a missing document and an error are the same nil),
`SaveContinues` queues `updateData` or `setData`. `deleteLike` queues at once.
`outbox[dev]` is Firestore's queue: it survives the app and is sent in order;
`reads[dev]` does not survive. `updateData` of a missing document fails and
changes nothing. `offCleanly` is a history variable: flags last taken off with no
save of them in flight.

`AbstractFlags` raises and clears single flags; only a *young* document, one whose
first `setData` is still possible, may have its flags replaced. `FlagDocs`
implements it with `young <- Young` while no read fails. With failing reads it
does not: an error is taken for a missing document and a grown document is
replaced.

### FetchAll

`phase[c]` follows one call: listing, fanning out, group left (by the callback whose index is the
last one), notified, completed; `answered[c]` is the array `userPrs`, which is read
when the completion runs. `dead` is a call that never completes: failed listing or
no users. Up to `MaxCalls` calls overlap. `overlay` holds the calls with a HUD.

### ProjectStore

A post is a photo and whether its URL is in it. `form[dev]` is `updatePr` with
`imageIDArray` (`trash`) and the photos that still have to be uploaded (`fresh`,
`up`). `screen[dev]` says which long operation runs. Save is `SaveTapped` (asks
Storage to delete `trash`), `PhotoPut` and `PhotoLinked` for each new photo,
`UploadsDone`, the title write, and `TitleAcked`, its callback. `DeleteProject`
has no end: its DispatchGroup is entered once more than it is left, so the HUD
stays until the app is killed.

Edit and Delete take the project of a row of the feed, `rows[dev]`, which is as old as the last
fetch that completed. `getProjects` shows no HUD over rows, so after a save the old row can be
tapped until the refetch completes. A fetch `n` collects the answers of the users one
by one (`ProjectsAnswered`, in any order, each with the user's documents as the device reads them
then) and replaces the rows at once (`FeedCompleted`), possibly without some users: those
whose reads failed or whom the join by the last index (`FetchAll`) did not wait for. Up to
`MaxFetches` fetches overlap, and an older one may complete last. A fetch may be asked for
whenever the feed was on the screen, and the screen never blocks its callbacks, so its start
is not a step of its own. What an edit or a deletion
from an old row does not know of is recorded in the history variable `overlooked`: the photos
that the project has by then and the row does not show. On one device, without any failure:
save a post A, edit and add B, save, tap Edit on the row that still has A alone, save: the document has A only,
and B's photo is in no project. `NoOrphans` excepts exactly these photos.

Nothing hides a project from a device that is not
its owner's: Edit is offered on every project, and then writes under the folder of
whoever is signed in, which is why `OnlyOwnersChange` has something to say.
A device reads a project as `Seen`: the server's document under its own waiting
writes (`Under`). `discarded` and `wanted` are history variables.

### Accounts

One screen per device (`screen[dev]`): signed out, the steps of a sign-up or a log-in,
the tabs, the profile's editor. A sign-up is `SignUpTapped`, `EmailChecked` (an error
counts as a free address), `AccountCreated` or `AccountRefused`, `UserSaved`, the answer
to the write (`Answered`) and `Reloaded`; each arrow is a callback, so that a kill, a failed
call or another device's sign-up of the same address can fall on it. `session[dev]` is
Auth's user, which the keychain keeps across kills and reinstalls; `flag[dev]` is
`signOutKey`, which a kill keeps and a reinstall loses; `Launch` is what
`didFinishLaunching` makes of the two. `LogoutTapped` clears the flag before it signs out,
and signing out may throw. `outbox[dev][u]` is the queue of the user `u`: Firestore keeps
one per user and sends it while that user is signed in. The server takes a write or, if calls
fail, refuses it; a refused creation removes the HUD and leaves the sign-up on its screen, with the
user signed in but without a document, and from there the device may sign up or log in again, or be
killed and start at the tabs.

The profile listens to the document of whoever is signed in when it appears and
never stops: `listening[dev]` grows, `due[dev]` is news that has not been
delivered, and `ListenerFires` sets `shown[dev]` although the user may have changed; a listener that
fails gives nil and is gone.
The editor works on a copy of `shown` (`edited`), not of the session; `AvatarPut` uses
the session. So after a logout and another log-in a profile can link to the avatar of
another user; the code promises nothing about that, and `AvatarsAreThere` says only
that an avatar is there. `stays`, `cut` and `refused` are history variables: the devices whose user
should still be in, the users whose sign-up was cut short, and those whose document
the server refused.

### Tabs

The other modules look at one collection or one operation; `Tabs` composes what a
device does with their results. `FetchAll` is one action here (`FetchCompleted`, with
any answers that include the last user's, or no completion at all after a failed listing), `saveLike` and `deleteLike` are `Written` and
`Acknowledged`, deletion is its effect on the rows (`RowDeleted`).

`main` is the main queue: callbacks of listeners, run in order. `SetLikes` and `SetSaved`
are writes as this device's Firestore sees them, its own as well as those of `Others` (the
users who write from other devices), and put one callback per listener on it. Any of them may
replace a document: a read that fails, or that found none, is answered by a `setData` (`Only`). A new listener gets a first callback with what is there;
those of several kinds asked for at once come in any order. No listener is removed, so
`listeners` only grows, except by failing; it saturates at `MaxListeners`. A callback of
a likes listener of the feed adds a saved listener, whose first callback asks for the
reload (`dirty`).

`rows` is `FeedVC.projects`, `table` what the table shows until its reload. The two differ
from a fetch to the reload that follows two listeners later, and a tap in between takes
the project of another row, or crashes; so does a deletion confirmed in between, when
the numbers of rows differ (`crashed = "row"`); its menu may have been opened on the row now at
the project's place in the table or on the project's own (`HasMenu`). `mark[p]` is the documents attached to
the project; a fetch makes new projects without them. `cell[p]` is what the cell of `p`
shows: reloading permutes the cells and sets only what there is a document for.
The heart is the *owner's* like, as in the code, while a tap writes the viewer's key.

The profile's lists are made from `shared` (`appDL.userProjects`, set by the feed) by
callbacks that unwrap `user`; `crashed = "user"` is the unwrap of nil, which happens when the
first callbacks come in the wrong order, after a logout and after a failed listener. A logout
empties both screens even if signing out throws. `lost` excuses what a failed listener
no longer tells the feed. A deletion covers the window with a HUD for good (`tab = "covered"`).

## 3. The runs

| Run | Instance | Shows |
|---|---|---|
| `flag_docs` | 2 devices, 1 document, 2 keys (one shared), 2 taps and a kill each, reads may fail | `IInv`, `UpdateFindsDoc` |
| `likes` | 2 users, 1 project, 3 taps and a kill each, reads succeed | `CleanOffStaysOff`, `ImplementsAbstract` |
| `saved` | 2 devices of 1 user, 2 projects, 2 taps and a kill each, fair | `UpdateFindsDoc`, `ImplementsAbstract`, `SaveLands` |
| `fetch` | 2 overlapping calls, 0 to 3 users, 1 logout, fair | `FetchInv`, `LastUserIsThere`, `OverlayComesDown` |
| `store_calm` | 1 device, 3 edits, 2 projects, 2 photos, 2 overlapping fetches, no failure | `CalmInv`, `NoOrphans`, `SavedPostsArrive` |
| `store_rough` | 2 devices of 1 user, 3 edits in all, a kill each, 1 project, 1 photo, calls fail | `StoreInv`, `LinksLead` |
| `store_strangers` | 2 users with a device each, 2 edits in all, a kill each, 1 project, 1 photo, calls fail, fair | `OnlyOwnersChange`, `SaveEnds` |
| `accounts` | 2 devices, 2 users (one with an account), 2 sign-ups or log-ins, an edit, a kill and a reinstall, calls fail, fair | `AccountsInv`, `SessionKept`, `ProfileIsNew`, `UpdateFindsProfile`, `AvatarsAreThere`, `AccountsHaveProfiles`, `HudComesDown` |
| `tabs` | 1 device, 2 users, 2 projects (both of the viewer, or one of each), one liked by everybody, the other user writes from another device, 3 inputs of any kind, fair | `TabsInv`, `CellsAgree`, `ListsAreMarked`, `TableCatchesUp`, `CascadeEnds` |
| `fetch_all_users` | as `fetch` | finding: `CompletionHasAllUsers` is violated |
| `delete_photos` | 1 device, deletion from the editor | finding: `DeletedPhotosAreGone` is violated |
| `delete_post` | 1 device, deletion from the feed | finding: `RemovedPostsAreGone` is violated |

Bounds. Taps, edits, kills, calls and logouts are counted and capped in the guards
(`MaxTaps`, `MaxEdits`, `MaxKills`, `MaxCalls`, `MaxLogouts`, `MaxFetches`, `MaxStarts`, `MaxInstalls`, and
`MaxWrites` for a queue that would only repeat one save); `OpenNew` also needs a
document name left for every draft. Two devices and two
keys are what a lost update needs; two taps are a save and a removal of it, three
add a second save, so that a document can be created, grown and met by an old
answer. Three users give a last user with two others to be late. Two edits are
creating a project and editing it, with one device doing one and the other
device the other; a third one saves, edits and then edits or deletes
from a row that is older than the save. Two overlapping fetches let an old one complete
after a newer; with more devices one is enough, as the other device makes it old. In `accounts` two starts are two devices signing up one
address, or a sign-up, a logout and a log-in (of the same or the other user) on one
device, followed by a kill; one user has an account from the start so that a
second user need not be signed up within the bound. In `tabs` every tap, refresh, tab
change, logout, log-in, write of another user and failure of a listener is one of
`MaxInputs`; three are a like, its removal from the other screen and back, a refresh
that races a tap and its answer, a tap between two writes of another device, or a visit to the profile with a logout and a log-in.
`MaxListeners` is two: one listener and more than one. No
symmetry is used. The app may be left idle at any time, so deadlock is not
checked: a behaviour that has used its taps has really stopped.

Fairness. Weak fairness of what the device's main queue and the backends do:
answers to reads, callbacks, acknowledgement of writes, uploads. GCD runs every
block put on the main queue and Firestore retries a queued write until it is
acknowledged (in `Accounts`, while its user is signed in) or refused; a fetch completes or has failed; an upload ends, well or badly. Nothing a user does (taps, opening,
saving, logging out, killing) is fair, nor what other users write in `Tabs`. `SaveLands` and `SaveEnds` allow for the
kill; `HudComesDown` excuses nothing, a kill takes the HUD with it; `OverlayComesDown` excuses the two cases in which the code never completes.

Findings (each is a run that TLC refutes, see `PROJECT.json`):

1. *"Get all Projects of all Users"* (`Models/ProjectModel.swift:183`): the group is
   left by the last index, not by the last answer, so projects of slower users
   are missing.
2. *"Delete Photo on Storage"* (`Models/ProjectModel.swift:273`): remove a post in the
   editor, then delete the project there: the removed post's photo stays.
3. *"Delete Post"* (`Tab-Feeds/AddProjects/PostProjectVC.swift:39`): remove all posts and
   save: posts are written only if there are any, so they stay, with dead links.

## 4. The proofs

All theorems hold for every value of the constants that satisfies the named
assumptions of the module (`TargetsAssumption`, `BoundsAssumption`,
`FetchAssumption`, ...: types of the constants only; and `NewIdAssumption`: the empty
uid of an unsaved project is no document's name). Theorems that need more say so after
their ASSUME: `OwnDevices` and `Calm` in `CalmStoreProofs`, `~ReadsFail` for the refinements.

- `FlagDocsProofs`. `UpdateFindsDoc` is not inductive: it speaks of the head of the
  queue, and a queued `updateData` may be waiting behind the `setData` that will create its
  document. `IInv` therefore has `AddsCovered` (every waiting addition has its
  document on the server, or an earlier set of it in its own queue),
  `PresentCovered` (the same for a read answered "present" whose callback has not
  run) and `OwnTargets`. `CleanOffStaysOff` needs `OffCovered`: no read of the pair is in
  flight, and every waiting save of it has a deletion behind it. `InvariantHolds`
  proves `IInv` action by action; `AdditionsFindTheirDocument` and `CleanOffIsFinal`
  follow. `Refinement` maps each applied write to `Raise`, `Clear` or `Replace` and shows
  that `Young` only shrinks; it assumes `~ReadsFail`, which is exactly where the
  code loses the property.
- `LikesProofs`, `SavedProofs`. The assumptions of the collections imply those of
  `FlagDocs`, their steps are steps of `FlagDocs`, so the results carry over, and the
  two collections implement `AbstractFlags`.
- `FetchAllProofs`. `LastUserIsThere` rests on `LeftByLast`: a call that left its group has
  the last user's answer.

- `ProjectStoreProofs`. `LinksLead` speaks of the server's documents, which are written
  from queues, which are filled from forms, which are filled from what a device sees of
  the documents: `PendingLinksLead` says the same of rows, answers to fetches, forms and waiting writes, that a
  file whose link is being fetched is stored, and that whatever Storage deletes was
  asked for. The types need more than types: the callback of the title writes to the
  document of the form it finds, so the form must still be the saved one. That is
  `OneTitle`: a device has at most one title of its present life on its way, and only
  while it waits for it. `OwnWork` (waiting writes, deletions and new files are all of the
  signed-in user) is what `OnlyOwnersChange` rests on. Each part has its lemmas about what a
  step does to queues (`QueueEffect`), forms (`FormEffect`), documents (`DocsEffect`) and
  files (`FilesEffect`); `StepStoreInv` combines them.

- `AccountsProofs`. None of the five invariants is inductive. `AccountsInv` follows a
  document from its account on: `OneCreation` says that at most one device is about to
  create u's document or has that write waiting, only while u has an account and no
  document, which makes `ProfileIsNew` hold however late the write arrives. The
  sign-up may wait in the queue when its user already edits the profile, so an update is
  covered by its document or by a creation before it in the same queue (`UpdatesCovered`; a creation may also have been refused, so the documents that answer are `Answers`),
  and the user shown and the copy in the editor by a document or a creation that waits
  (`CopiesCovered`; a copy can outlive its session's user only once the document is there).
  `LinksStored` carries the avatars through shown users, copies and queues;
  `NoneForgotten` finds the sign-up of every account without a document, or that it was cut short or refused; `Sessions` ties
  session, screen, flag and upload of a device. `Appending` and `Sending` say what
  putting a write behind a queue and sending its head do to these promises;
  `QueueEffect` reduces the steps to five ways of treating queues, `OthersStay` to one device.

- `CalmStoreProofs`. `SavedPostsArrive` and `NoOrphans` speak of the moment when all is quiet;
  until then documents are on the server, in queues and in forms. The proofs look at `Seen`
  instead, what a device fetches. Two lemmas say what queues do to it: one more write at the
  end makes of the fetched document what that write would make of it (`UnderAppend`), and the
  server taking the head of the queue changes nothing of it (`UnderTail`). So only the
  device's own saves and deletions change what it fetches (`SeenSaving`, `SeenAcked`,
  `SeenDeleted`, `SeenElse`), and when all is quiet that is the server's document
  (`QuietSeen`). `Under` looks for the last creation and the last posts of a queue instead of
  running through it, because a recursive definition could not be proved about.
  `ArrivalInv` adds to `StoreInv` that a device fetches its projects with the posts of the last
  save (`SavesShow`), and that names in use were drawn (`NamesDrawn`), so that a creation never
  meets a document. It needs `OwnDevices`, nobody has two devices: the posts of two devices
  overtake each other. It needs nothing else: uploads and deletions may fail, apps may be killed,
  projects may be deleted from anywhere.
  `CalmInv` accounts for each stored photo (`FilesKept`): it was overlooked, or it is being deleted, or it
  is linked by the form of a save under way, or by a project that no save is replacing. That a save loses
  no other rests on `EditorKnows` (a photo of the project that is no longer in the editor is in its
  trash or was overlooked, and the project is there, so that its posts can be written), on `RowsExist` (a
  row, or an answer that will make one, is of a project that exists, until a deletion
  covers the screen for good) and on `OneUpload`.
  `Calm` is one device, no failure, no kill, no deletion from the editor. Each of the four is
  needed, TLC finds an orphan without it: a kill between an upload and the title leaves the
  photo behind, so does a failed deletion; a second device of the user replaces posts it never
  saw, one of another user uploads photos for a project that its user does not have; the last
  is finding 2. Likewise two devices of one user refute `SavedPostsArrive`.

- `TabsProofs`. At rest `CellsAgree` and `ListsAreMarked` compare what a screen shows with what
  Firestore has; in between the two differ, and callbacks in the main queue make up for it.
  `TabsInv` says how. As long as no listener failed, the last answer that waits for the feed
  brings what Firestore has, and if none waits each row has its document, unless a tap's write is
  on its way (`FeedHears`; `FeedHearsSaved` for the listeners that the first ones add). A cell
  shows its row's documents, or a reload is due, or a tap on it is on its way (`CellsFollow`).
  `ListsFollow` says the same of the profile's lists, failures included: a failed listener leaves
  an error as the last answer, which empties the list. `Told` splits the steps, for each kind of
  listener, into four: the head of the queue is its answer (`Taken`), nothing is said
  (`NotTold`), what Firestore now has is put behind the queue (`NowTold`), a listener fails.
  `TableCatchesUp` needs only itself: a table unlike the rows has its reload, or the callback
  that asks for it, on the way, and no step takes that away. The theorems hold for any set of `Others`, the
  device's own user included.

Only model-checked: liveness (`SaveLands`, `OverlayComesDown`, `SaveEnds`, `HudComesDown`,
`CascadeEnds`), which the prover does not do. Every invariant and every action property that a
passing run checks is also a theorem.

## 5. Not modelled

- Layout, image resizing, fonts, animations: no shared state. The images that cells load.
- In `Tabs`: kills (the screens have no state that outlives the app), another account that
  logs in on the device (`Accounts` has that), a rollback of a rejected write (it looks
  like a write of somebody else), and a dots menu held open over a fetch that drops the project and one that
  brings it back.
- Titles, dates, descriptions of single posts, sorting: no property here tells
  two of them apart.
- In `FlagDocs`, `FetchAll` and `ProjectStore`: the guards that return without calling a
  completion when nobody is signed in. Their devices are signed in throughout.
- In `ProjectStore`, a fetch that completes while the dots menu is up: the copy is taken at the choice, and
  a fetch just after it leaves the same state. An image that cannot be
  encoded as JPEG (`FirebaseStorage.swift` 49 and 120): both uploads then end without calling their
  completion, and the HUD stays; the images were redrawn before, so this does not happen in practice.
  `uploadAvatar` without a user or an image (35-41): the editor has both.
- The e-mail that resets a password and the checks of the text fields.
- `User.removeUser` and `FirebaseStorage.deleteUser`: no screen calls them.
- The profile's list of own projects: one fetch whose completion replaces it.
- Firebase itself is modelled from its use (marked external in `PROJECT.json`):
  per-device queues of writes, reads under the device's own writes, Storage files.
- Vendored Pods.

## 6. Plan

1. Flag documents, their abstract specification and proofs: done.
2. The fan-out and its proofs: done.
3. The project editor and store and its proofs: done; next, what a second device of a user
   can still rely on (a weaker `SavesShow`, of the device that saved last).
4. `Tabs`, the feed's listeners and the profile's lists, and its proofs: done; next, kills of
   a device between two taps, together with the queue of writes of `FlagDocs`.
5. `Accounts` with the profile and its proofs: done; next, another user's edits of the
   project store between a logout and a log-in.
