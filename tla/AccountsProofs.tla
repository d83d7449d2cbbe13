--------------------------- MODULE AccountsProofs ---------------------------
(***************************************************************************)
(* Proofs about Accounts for any devices, users and bounds: types, who     *)
(* stays signed in, that documents are created once and found by their     *)
(* updates, and that links lead to avatars.                                *)
(***************************************************************************)
EXTENDS Accounts, SequenceTheorems, WellFoundedInduction, TLAPS

(* What a queue holds when a write is put behind it.                       *)
LEMMA QueueGrows ==
  ASSUME NEW q \in Seq(Writes), NEW w \in Writes
  PROVE  /\ Append(q, w) \in Seq(Writes)
         /\ Len(q) \in Nat /\ Len(Append(q, w)) = Len(q) + 1
         /\ \A i \in 1..Len(q) : Append(q, w)[i] = q[i]
         /\ Append(q, w)[Len(q) + 1] = w
BY AppendProperties, LenProperties

(* And what is left of it when its head is sent.                           *)
LEMMA QueueShrinks ==
  ASSUME NEW q \in Seq(Writes), q # << >>
  PROVE  /\ Tail(q) \in Seq(Writes) /\ Head(q) \in Writes /\ Head(q) = q[1]
         /\ Len(q) \in Nat \ {0} /\ Len(Tail(q)) = Len(q) - 1
         /\ \A i \in 1..Len(q) - 1 : Tail(q)[i] = q[i + 1]
BY HeadTailProperties, EmptySeq

(* A set of places that is not empty has a greatest one.                   *)
LEMMA Greatest ==
  ASSUME NEW n \in Nat, NEW own \in SUBSET (1..n), own # {}
  PROVE  \E i \in own : \A j \in own : j <= i
<1> DEFINE R == OpToRel(<, Nat)
           T == {n - i : i \in own}
<1>1. IsWellFoundedOn(R, Nat)
      BY NatLessThanWellFounded
<1>2. \A i \in own : i \in 1..n /\ n - i \in Nat
      BY SMT
<1>3. T \subseteq Nat /\ T # {}
  <2> HIDE DEF R
  <2> QED BY <1>2
<1>4. R = {ss \in Nat \X Nat : ss[1] < ss[2]}
      BY DEF OpToRel
<1> HIDE DEF R
<1>5. \E x \in T : \A y \in T : ~(<<y, x>> \in R)
      BY <1>1, <1>3, WFMin
<1>6. PICK i \in own : \A j \in own : ~(<<n - j, n - i>> \in R)
      BY <1>5
<1>7. ASSUME NEW j \in own
      PROVE  j <= i
  <2>1. <<n - j, n - i>> \in Nat \X Nat
        BY <1>2
  <2>2. ~(n - j < n - i)
        BY <1>4, <1>6, <2>1
  <2> QED BY <1>2, <2>2
<1> QED BY <1>6, <1>7

NewUser(u) == [kind |-> "create", uid |-> u, link |-> Nobody, editor |-> 0]
Update(dev, link) == [kind |-> "update", uid |-> edited[dev].uid, link |-> link,
                      editor |-> edited[dev].editor]

\* The ways a step treats the queues and the documents.
Appended(dev, u, w) == outbox' = [outbox EXCEPT ![dev][u] = Append(@, w)] /\ profiles' = profiles
QueuesKept == outbox' = outbox /\ profiles' = profiles
CreateQueued(dev) == /\ screen[dev] = "created" /\ screen'[dev] = "saving"
                     /\ email' = email /\ accounts' = accounts /\ session' = session
                     /\ Appended(dev, email[dev], NewUser(email[dev]))
UpdateQueued(dev) == /\ edited[dev] # NoCopy /\ screen' = screen /\ email' = email
                     /\ accounts' = accounts /\ session' = session
                     /\ \E link \in Links :
                          /\ \/ link \in {edited[dev].link, Nobody}
                             \/ link = session[dev] /\ upload[dev] = "linking"
                          /\ Appended(dev, session[dev], Update(dev, link))
Taken(w) == profiles' = [profiles EXCEPT ![w.uid] =
  IF w.kind = "create" \/ @.there THEN [there |-> TRUE, link |-> w.link] ELSE @]
Refused(w) == profiles' = profiles /\ (w.kind = "create" => w.uid \in refused')
HeadSent(dev) == /\ outbox[dev][session[dev]] # << >> /\ session[dev] # Nobody
                 /\ outbox' = [outbox EXCEPT ![dev][session[dev]] = Tail(@)]
                 /\ LET w == Head(outbox[dev][session[dev]]) IN Taken(w) \/ Refused(w)
                 /\ accounts' = accounts /\ session' = session
QueuesLost(dev) == /\ outbox' = [outbox EXCEPT ![dev] = [u \in Users |-> << >>]]
                   /\ profiles' = profiles
                   /\ shown'[dev] = NoUser /\ edited'[dev] = NoCopy
                   /\ cut' = cut \cup (accounts' \ accounts)
                             \cup (IF screen[dev] = "created" THEN {email[dev]} ELSE {})
                             \cup {u \in Users : outbox[dev][u] # << >>}

(* Every step keeps the queues, puts a write behind one of its own, sends  *)
(* its head, or loses them all with the app.                               *)
LEMMA QueueEffect ==
  ASSUME TypeOK, Sessions, NEW dev \in Devices, Steps(dev)
  PROVE  QueuesKept \/ CreateQueued(dev) \/ UpdateQueued(dev) \/ HeadSent(dev) \/ QueuesLost(dev)
<1> USE DEF Goes, cloud, keychain, profileVC, editVC, history
<1>1. ASSUME Tapped(dev), ~(\E u \in Users : SignUpTapped(dev, u) \/ LogInTapped(dev, u)), ~SaveTapped(dev)
      PROVE  QueuesKept
      BY <1>1 DEF Tapped, ProfileAppears, LogoutTapped, EditTapped, AvatarPicked, BackTapped, QueuesKept
<1>2. ASSUME NEW u \in Users, SignUpTapped(dev, u) \/ LogInTapped(dev, u)
      PROVE  QueuesKept
      BY <1>2 DEF SignUpTapped, LogInTapped, QueuesKept
<1>3. ASSUME SaveTapped(dev)
      PROVE  QueuesKept \/ UpdateQueued(dev)
  <2>1. edited[dev].link \in Links
        BY DEF TypeOK, Copy
  <2> QED BY <1>3, <2>1 DEF SaveTapped, QueuesKept, UpdateQueued, UpdateUser, Queue, Appended, Update
<1>4. ASSUME EmailChecked(dev) \/ AccountCreated(dev) \/ AccountRefused(dev) \/ SignedIn(dev) \/ Reloaded(dev)
      PROVE  QueuesKept
      BY <1>4 DEF EmailChecked, AccountCreated, AccountRefused, SignedIn, Reloaded, QueuesKept
<1>5. ASSUME UserSaved(dev)
      PROVE  CreateQueued(dev)
      BY <1>5 DEF UserSaved, CreateQueued, Queue, Appended, NewUser, TypeOK
<1>6. ASSUME AvatarPut(dev)
      PROVE  QueuesKept \/ UpdateQueued(dev)
      BY <1>6 DEF AvatarPut, QueuesKept, UpdateQueued, UpdateUser, Queue, Appended, Update, Sessions, SessionFits, Links
<1>7. ASSUME AvatarLinked(dev)
      PROVE  UpdateQueued(dev)
  <2>1. session[dev] \in Links /\ Nobody \in Links
        BY DEF TypeOK, Links
  <2>2. PICK link \in {session[dev]} \cup (IF CallsFail THEN {Nobody} ELSE {}) : UpdateUser(dev, link)
        BY <1>7 DEF AvatarLinked
  <2>3. link \in {Nobody, session[dev]}
        BY <2>2
  <2> QED BY <1>7, <2>1, <2>2, <2>3 DEF AvatarLinked, UpdateQueued, UpdateUser, Queue, Appended, Update, Sessions, SessionFits
<1>8. ASSUME Heard(dev)
      PROVE  QueuesKept
      BY <1>8 DEF Heard, ListenerFires, QueuesKept
<1>9. ASSUME WriteReachesServer(dev)
      PROVE  HeadSent(dev)
      BY <1>9 DEF WriteReachesServer, HeadSent, Taken, Refused
<1>10. ASSUME Relaunched(dev)
       PROVE  QueuesKept
       BY <1>10 DEF Relaunched, QueuesKept
<1>11. ASSUME Reinstalled(dev)
       PROVE  QueuesLost(dev)
       BY <1>11 DEF Reinstalled, Launch, QueuesLost, TypeOK
<1> QED BY <1>1, <1>2, <1>3, <1>4, <1>5, <1>6, <1>7, <1>8, <1>9, <1>10, <1>11
        DEF Steps, ComingIn, SigningUp, Uploading, Tapped

(* A creation that is queued is a write without a link.                    *)
LEMMA CreationIsTyped ==
  ASSUME NEW u \in Users
  PROVE  /\ NewUser(u) \in Writes /\ NewUser(u).kind = "create"
         /\ NewUser(u).uid = u /\ NewUser(u).link = Nobody
BY DEF NewUser, Writes, Links

(* So are the updates of a copy that names a user.                         *)
LEMMA UpdateIsTyped ==
  ASSUME TypeOK, NEW dev \in Devices, edited[dev].uid \in Users, NEW link \in Links
  PROVE  /\ Update(dev, link) \in Writes /\ Update(dev, link).kind = "update"
         /\ Update(dev, link).uid = edited[dev].uid /\ Update(dev, link).link = link
BY DEF Update, Writes, TypeOK, Copy

(* Queues and documents keep their types.                                  *)
LEMMA QueuesTyped ==
  ASSUME TypeOK, Sessions, CopiesCovered, NEW dev \in Devices, Steps(dev)
  PROVE  outbox' \in [Devices -> [Users -> Seq(Writes)]] /\ profiles' \in [Users -> Profile]
<1> USE DEF TypeOK
<1>1. CASE QueuesKept
      BY <1>1 DEF QueuesKept
<1>2. CASE CreateQueued(dev)
  <2>1. email[dev] \in Users
        BY <1>2 DEF CreateQueued, Sessions, SessionFits
  <2>2. Append(outbox[dev][email[dev]], NewUser(email[dev])) \in Seq(Writes)
        BY <2>1, CreationIsTyped, QueueGrows DEF TypeOK
  <2> QED BY <1>2, <2>1, <2>2 DEF CreateQueued, Appended
<1>3. CASE UpdateQueued(dev)
  <2>1. edited[dev].uid \in Users
    <3>1. Ready(dev, edited[dev].uid)
          BY <1>3 DEF UpdateQueued, CopiesCovered
    <3> QED BY <3>1 DEF Ready, Answers, Documents
  <2>2. PICK link \in Links : Appended(dev, session[dev], Update(dev, link))
        BY <1>3 DEF UpdateQueued
  <2>3. session[dev] \in Users
        BY <1>3 DEF UpdateQueued, Sessions, SessionFits, Inside, Links
  <2>4. Append(outbox[dev][session[dev]], Update(dev, link)) \in Seq(Writes)
        BY <2>1, <2>3, UpdateIsTyped, QueueGrows
  <2> QED BY <2>2, <2>3, <2>4 DEF Appended
<1>4. CASE HeadSent(dev)
  <2> DEFINE u == session[dev]  w == Head(outbox[dev][u])
  <2>1. u \in Users
        BY <1>4 DEF HeadSent, Links
  <2>2. w \in Writes /\ Tail(outbox[dev][u]) \in Seq(Writes)
        BY <1>4, <2>1, QueueShrinks DEF HeadSent
  <2>3. w.uid \in Users /\ w.link \in Links
        BY <2>2 DEF Writes
  <2>4. outbox' = [outbox EXCEPT ![dev][u] = Tail(@)]
        BY <1>4 DEF HeadSent
  <2>5. Taken(w) \/ profiles' = profiles
        BY <1>4 DEF HeadSent, Refused
  <2> HIDE DEF u, w
  <2>6. profiles' \in [Users -> Profile]
    <3>1. CASE Taken(w)
      <4> DEFINE p == IF w.kind = "create" \/ profiles[w.uid].there
                     THEN [there |-> TRUE, link |-> w.link] ELSE profiles[w.uid]
      <4>1. p \in Profile
            BY <2>3 DEF Profile
      <4>2. profiles' = [profiles EXCEPT ![w.uid] = p]
            BY <2>3, <3>1 DEF Taken
      <4> HIDE DEF p
      <4> QED BY <4>1, <4>2
    <3> QED BY <2>5, <3>1
  <2> QED BY <2>1, <2>2, <2>4, <2>6
<1>5. CASE QueuesLost(dev)
  <2>1. << >> \in Seq(Writes)
        OBVIOUS
  <2> QED BY <1>5, <2>1 DEF QueuesLost
<1> QED BY <1>1, <1>2, <1>3, <1>4, <1>5, QueueEffect

(* The user that a device sees, if it sees one, has the type of a user.    *)
LEMMA SeenIsTyped ==
  ASSUME TypeOK, NEW dev \in Devices, NEW u \in Users
  PROVE  /\ Seen(dev, u).there \in BOOLEAN /\ Seen(dev, u).link \in Links
         /\ \/ Seen(dev, u) = profiles[u]
            \/ /\ session[dev] \in Users
               /\ \E i \in 1..Len(outbox[dev][session[dev]]) :
                    /\ outbox[dev][session[dev]][i].uid = u
                    /\ Seen(dev, u).link = outbox[dev][session[dev]][i].link
<1> DEFINE q == Waiting(dev)
           own == {i \in 1..Len(q) : q[i].uid = u}
           there == profiles[u].there \/ \E i \in own : q[i].kind = "create"
<1>1. CASE own = {} \/ ~there
      BY <1>1 DEF Seen, TypeOK, Profile
<1>2. CASE own # {} /\ there
  <2>1. session[dev] \in Users /\ q = outbox[dev][session[dev]]
    <3>1. CASE session[dev] = Nobody
      <4>1. q = << >> /\ own = {}
            BY <3>1 DEF Waiting
      <4> QED BY <4>1, <1>2
    <3> QED BY <3>1 DEF Waiting, TypeOK, Links
  <2>2. q \in Seq(Writes)
        BY <2>1 DEF TypeOK
  <2>3. Len(q) \in Nat /\ own \subseteq 1..Len(q)
        BY <2>2, LenProperties
  <2>4. \E i \in own : \A j \in own : j <= i
        BY <1>2, <2>3, Greatest
  <2> DEFINE last == CHOOSE i \in own : \A j \in own : j <= i
  <2>5. last \in own
        BY <2>4
  <2>6. Seen(dev, u) = [there |-> TRUE, link |-> q[last].link]
        BY <1>2 DEF Seen
  <2>7. q[last] \in Writes /\ q[last].uid = u /\ last \in 1..Len(q)
        BY <2>2, <2>5, ElementOfSeq
  <2> HIDE DEF last, own, there
  <2>8. Seen(dev, u).there = TRUE /\ Seen(dev, u).link = q[last].link /\ q[last].link \in Links
        BY <2>6, <2>7 DEF Writes
  <2>9. last \in 1..Len(outbox[dev][session[dev]]) /\ outbox[dev][session[dev]][last].uid = u
        BY <2>1, <2>7
  <2> QED BY <2>1, <2>8, <2>9
<1> QED BY <1>1, <1>2

(* The invariant holds initially.                                          *)
LEMMA InitAccountsInv == Init => AccountsInv
<1> SUFFICES ASSUME Init
             PROVE  AccountsInv
    OBVIOUS
<1> USE AccountsAssumption
<1>1. << >> \in Seq(Writes) /\ Len(<< >>) = 0
      OBVIOUS
<1>2. TypeOK
      BY <1>1 DEF Init, TypeOK, Links, Profile, User, Copy, NoUser, NoCopy
<1>3. Sessions
      BY DEF Init, Sessions, SessionFits, NoCopy, Inside
<1>4. \A dev \in Devices, u \in Users : outbox[dev][u] = << >> /\ ~Makes(dev, u)
      BY <1>1 DEF Init, Makes, Claims, Creates
<1>5. \A dev \in Devices, u \in Users :
        /\ CreatesOnce(outbox[dev][u], u) /\ Finds(outbox[dev][u], u, Answers)
        /\ Leads(outbox[dev][u], avatars)
      BY <1>1, <1>4 DEF CreatesOnce, Finds, Leads
<1>8. OneCreation /\ UpdatesCovered
      BY <1>4, <1>5 DEF OneCreation, UpdatesCovered, Makes, Init, Documents
<1>9. NoneForgotten
      BY DEF Init, NoneForgotten, Documents
<1>6. CopiesCovered
      BY DEF Init, CopiesCovered
<1>7. LinksStored
      BY <1>5 DEF Init, LinksStored, Stored, NoUser, NoCopy
<1> QED BY <1>2, <1>3, <1>6, <1>7, <1>8, <1>9 DEF AccountsInv

(* A counter that counts stays a counter.                                  *)
LEMMA CountedIsTyped ==
  ASSUME TypeOK, NEW kind \in Kinds, NEW max, Counted(kind, max)
  PROVE  count' \in [Kinds -> Nat]
BY DEF TypeOK, Counted

(* Every variable keeps its type.                                          *)
LEMMA StepTypeOK == AccountsInv /\ [Next]_vars => TypeOK'
<1> SUFFICES ASSUME AccountsInv, [Next]_vars
             PROVE  TypeOK'
    OBVIOUS
<1> USE AccountsAssumption DEF AccountsInv, Goes, cloud, keychain, profileVC, editVC, history
<1>1. CASE UNCHANGED vars
      BY <1>1 DEF vars, TypeOK
<1> SUFFICES ASSUME NEW dev \in Devices, Steps(dev)
             PROVE  TypeOK'
    BY <1>1 DEF Next
<1>2. outbox' \in [Devices -> [Users -> Seq(Writes)]] /\ profiles' \in [Users -> Profile]
      BY QueuesTyped
<1>3. \A kind \in Kinds : \A max : Counted(kind, max) => count' \in [Kinds -> Nat]
      BY CountedIsTyped
<1>4. {"starts", "edits", "kills", "installs"} = Kinds /\ NoUser \in User /\ NoCopy \in Copy
      BY DEF Kinds, NoUser, NoCopy, User, Copy, Links
<1>5. ASSUME NEW u \in Users, SignUpTapped(dev, u) \/ LogInTapped(dev, u)
      PROVE  TypeOK'
  <2>1. \E to \in {"checking", "signing"} : screen' = [screen EXCEPT ![dev] = to]
        BY <1>5 DEF SignUpTapped, LogInTapped
  <2>2. screen' \in [Devices -> {"out", "signing", "tabs", "editing"} \cup Covered]
        BY <2>1 DEF TypeOK, Covered
  <2>3. Counted("starts", MaxStarts) /\ email' = [email EXCEPT ![dev] = u]
        BY <1>5 DEF SignUpTapped, LogInTapped
  <2>4. count' \in [Kinds -> Nat]
        BY <1>3, <2>3 DEF Kinds
  <2>5. email' \in [Devices -> Links]
        BY <2>3 DEF TypeOK, Links
  <2> QED BY <1>2, <1>5, <2>2, <2>4, <2>5 DEF SignUpTapped, LogInTapped, TypeOK
<1>6. ASSUME EmailChecked(dev) \/ AccountCreated(dev) \/ AccountRefused(dev)
      PROVE  TypeOK'
  <2>1. email[dev] \in Users
        BY <1>6 DEF EmailChecked, AccountCreated, AccountRefused, Sessions, SessionFits
  <2>2. CASE EmailChecked(dev)
    <3>1. \E to \in {"out", "creating"} : Goes(dev, to)
          BY <2>2 DEF EmailChecked
    <3> QED BY <2>2, <3>1 DEF EmailChecked, TypeOK, Covered
  <2>3. CASE AccountCreated(dev)
        BY <2>1, <2>3 DEF AccountCreated, TypeOK, Links, Covered
  <2>4. CASE AccountRefused(dev)
    <3>1. accounts' \subseteq Users /\ cut' \subseteq Users
          BY <2>1, <2>4 DEF AccountRefused, TypeOK
    <3> QED BY <2>4, <3>1 DEF AccountRefused, TypeOK
  <2> QED BY <1>6, <2>2, <2>3, <2>4
<1>7. ASSUME SignedIn(dev) \/ Reloaded(dev)
      PROVE  TypeOK'
  <2>1. screen[dev] = "signing" => email[dev] \in Users
        BY DEF Sessions, SessionFits
  <2> QED BY <1>7, <2>1 DEF SignedIn, Reloaded, TypeOK, Links, Covered
<1>8. ASSUME UserSaved(dev)
      PROVE  TypeOK'
  <2>1. due' \in [Devices -> SUBSET Users]
    <3>1. email[dev] \in Users /\ NewUser(email[dev]).uid = email[dev]
          BY <1>8, CreationIsTyped DEF UserSaved, Sessions, SessionFits
    <3> QED BY <1>8, <3>1 DEF UserSaved, Queue, Hears, TypeOK
  <2> QED BY <1>2, <1>8, <2>1 DEF UserSaved, TypeOK, Covered
<1>9. ASSUME ProfileAppears(dev) \/ LogoutTapped(dev) \/ BackTapped(dev)
      PROVE  TypeOK'
  <2>1. session[dev] \in Users
        BY <1>9 DEF ProfileAppears, LogoutTapped, BackTapped, Free, Editing, Sessions, SessionFits, Inside, TypeOK, Links
  <2>2. CASE ProfileAppears(dev)
        BY <2>1, <2>2 DEF ProfileAppears, TypeOK
  <2>3. CASE LogoutTapped(dev)
    <3>1. /\ session' \in [Devices -> Links] /\ root' \in [Devices -> {"welcome", "login"}]
          /\ screen' \in [Devices -> {"out", "signing", "tabs", "editing"} \cup Covered]
          BY <2>3 DEF LogoutTapped, TypeOK, Links
    <3> QED BY <1>4, <2>3, <3>1 DEF LogoutTapped, TypeOK
  <2>4. CASE BackTapped(dev)
        BY <1>4, <2>4 DEF BackTapped, TypeOK
  <2> QED BY <1>9, <2>2, <2>3, <2>4
<1>10. ASSUME EditTapped(dev)
       PROVE  TypeOK'
  <2>1. CopyOf(shown[dev]) \in Copy
        BY <1>4 DEF CopyOf, TypeOK, User, Copy
  <2> QED BY <1>3, <1>4, <1>10, <2>1 DEF EditTapped, TypeOK
<1>11. ASSUME AvatarPicked(dev)
       PROVE  TypeOK'
  <2>0. edited[dev] \in Copy /\ Nobody \in Links
        BY DEF TypeOK, Links
  <2>1. [edited[dev] EXCEPT !.link = Nobody, !.picked = TRUE] \in Copy
        BY <2>0 DEF Copy
  <2>2. edited' \in [Devices -> Copy]
        BY <1>11, <2>1 DEF AvatarPicked, TypeOK
  <2> QED BY <1>11, <2>2 DEF AvatarPicked, TypeOK
<1>12. ASSUME NEW u \in due[dev], ListenerFires(dev, u)
       PROVE  TypeOK'
  <2>1. u \in Users
        BY DEF TypeOK
  <2>2. [uid |-> u, link |-> Seen(dev, u).link] \in User
        BY <2>1, SeenIsTyped DEF User, Links
  <2>3. \E user \in User : shown' = [shown EXCEPT ![dev] = user]
        BY <1>4, <1>12, <2>2 DEF ListenerFires
  <2>4. shown' \in [Devices -> User]
        BY <2>3 DEF TypeOK
  <2>5. listening' \in [Devices -> SUBSET Users] /\ due' \in [Devices -> SUBSET Users]
    <3>1. listening' = listening \/ listening' = [listening EXCEPT ![dev] = @ \ {u}]
          BY <1>12 DEF ListenerFires
    <3>2. due' = [due EXCEPT ![dev] = @ \ {u}]
          BY <1>12 DEF ListenerFires
    <3>3. listening[dev] \ {u} \in SUBSET Users /\ due[dev] \ {u} \in SUBSET Users
          BY DEF TypeOK
    <3>4. PICK left \in SUBSET Users, rest \in SUBSET Users :
            /\ listening' = listening \/ listening' = [listening EXCEPT ![dev] = left]
            /\ due' = [due EXCEPT ![dev] = rest]
          BY <3>1, <3>2, <3>3
    <3>5. listening' \in [Devices -> SUBSET Users]
          BY <3>4 DEF TypeOK
    <3>6. due' \in [Devices -> SUBSET Users]
          BY <3>4 DEF TypeOK
    <3> QED BY <3>5, <3>6
  <2> QED BY <1>12, <2>4, <2>5 DEF ListenerFires, TypeOK
<1>13. ASSUME NEW link \in Links, UpdateUser(dev, link), edited[dev] # NoCopy
       PROVE  edited' \in [Devices -> Copy] /\ due' \in [Devices -> SUBSET Users]
  <2>1. edited[dev].uid \in Users
    <3>1. Ready(dev, edited[dev].uid)
          BY <1>13 DEF CopiesCovered
    <3> QED BY <3>1 DEF Ready, Answers, Documents, TypeOK
  <2>2. due' = [due EXCEPT ![dev] = Hears(dev, edited[dev].uid)]
        BY <1>13 DEF UpdateUser, Queue
  <2>3. edited' \in [Devices -> Copy]
        BY <1>4, <1>13 DEF UpdateUser, TypeOK, Copy
  <2> QED BY <2>1, <2>2, <2>3 DEF Hears, TypeOK
<1>14. ASSUME SaveTapped(dev)
       PROVE  TypeOK'
  <2>1. edited[dev].link \in Links
        BY DEF TypeOK, Copy
  <2> QED BY <1>2, <1>13, <1>14, <2>1 DEF SaveTapped, TypeOK
<1>15. ASSUME AvatarPut(dev) \/ AvatarLinked(dev)
       PROVE  TypeOK'
  <2>1. edited[dev] # NoCopy /\ session[dev] \in Users /\ Nobody \in Links
        BY <1>15 DEF AvatarPut, AvatarLinked, Sessions, SessionFits, Inside, TypeOK, Links
  <2>2. {session[dev]} \cup (IF CallsFail THEN {Nobody} ELSE {}) \subseteq Links
        BY <2>1 DEF Links
  <2> QED BY <1>2, <1>13, <1>15, <2>1, <2>2 DEF AvatarPut, AvatarLinked, TypeOK
<1>16. ASSUME WriteReachesServer(dev)
       PROVE  TypeOK'
  <2> DEFINE u == session[dev]  w == Head(outbox[dev][u])
  <2>1. u \in Users /\ outbox[dev][u] # << >>
        BY <1>16 DEF WriteReachesServer, TypeOK, Links
  <2>2. w.uid \in Users
    <3>1. outbox[dev][u] \in Seq(Writes)
          BY <2>1 DEF TypeOK
    <3>2. w \in Writes
          BY <2>1, <3>1, QueueShrinks
    <3> QED BY <3>2 DEF Writes
  <2>3. due' \in [Devices -> SUBSET Users]
    <3>1. \A d \in Devices : Hears(d, w.uid) \in SUBSET Users
          BY <2>2 DEF Hears, TypeOK
    <3>2. \/ due' = [d \in Devices |-> Hears(d, w.uid)]
          \/ due' = [due EXCEPT ![dev] = Hears(dev, w.uid)]
          BY <1>16 DEF WriteReachesServer, Tell
    <3> HIDE DEF w
    <3>3. CASE due' = [d \in Devices |-> Hears(d, w.uid)]
          BY <3>1, <3>3
    <3>4. CASE due' = [due EXCEPT ![dev] = Hears(dev, w.uid)]
      <4>1. Hears(dev, w.uid) \in SUBSET Users
            BY <3>1
      <4> QED BY <3>4, <4>1 DEF TypeOK
    <3> QED BY <3>2, <3>3, <3>4
  <2>8. \E taken \in BOOLEAN : Answered(dev, w, taken)
        BY <1>16 DEF WriteReachesServer
  <2>4. screen' = screen \/ \E to \in {"reloading", "out", "tabs"} : screen' = [screen EXCEPT ![dev] = to]
        BY <2>8 DEF Answered
  <2>6. edited' = edited \/ edited' = [edited EXCEPT ![dev] = NoCopy]
        BY <2>8 DEF Answered
  <2>9. refused' \subseteq Users
    <3>1. refused' = refused \/ refused' = refused \cup {w.uid}
          BY <1>16 DEF WriteReachesServer
    <3> HIDE DEF w
    <3> QED BY <2>2, <3>1 DEF TypeOK
  <2>5. screen' \in [Devices -> {"out", "signing", "tabs", "editing"} \cup Covered]
        BY <2>4 DEF TypeOK, Covered
  <2>7. edited' \in [Devices -> Copy]
        BY <1>4, <2>6 DEF TypeOK
  <2> QED BY <1>2, <1>16, <2>3, <2>5, <2>7, <2>9 DEF WriteReachesServer, TypeOK
<1>17. ASSUME Relaunched(dev) \/ Reinstalled(dev)
       PROVE  TypeOK'
  <2>1. screen[dev] \in {"creating", "created"} => email[dev] \in Users
        BY DEF Sessions, SessionFits
  <2>2. accounts' \subseteq Users
    <3>1. accounts' \in {accounts} \cup (IF screen[dev] = "creating" THEN {accounts \cup {email[dev]}} ELSE {})
          BY <1>17 DEF Relaunched, Reinstalled
    <3>2. CASE screen[dev] = "creating"
      <4>1. accounts' = accounts \/ accounts' = accounts \cup {email[dev]}
            BY <3>1, <3>2
      <4> QED BY <2>1, <3>2, <4>1 DEF TypeOK
    <3> QED BY <3>1, <3>2 DEF TypeOK
  <2>5. (IF screen[dev] = "created" THEN {email[dev]} ELSE {}) \subseteq Users
        BY <2>1
  <2>6. cut' \subseteq Users
    <3>1. \/ cut' = cut \cup (accounts' \ accounts)
                     \cup (IF screen[dev] = "created" THEN {email[dev]} ELSE {})
          \/ cut' = cut \cup (accounts' \ accounts)
                     \cup (IF screen[dev] = "created" THEN {email[dev]} ELSE {})
                     \cup {u \in Users : outbox[dev][u] # << >>}
          BY <1>17 DEF Relaunched, Reinstalled
    <3>2. cut \subseteq Users
          BY DEF TypeOK
    <3> QED BY <2>2, <2>5, <3>1, <3>2
  <2>3. \E wasSet \in BOOLEAN : Launch(dev, wasSet)
        BY <1>17 DEF Relaunched, Reinstalled, TypeOK
  <2>4. /\ session' \in [Devices -> Links] /\ email' \in [Devices -> Links] /\ flag' \in [Devices -> BOOLEAN]
        /\ screen' \in [Devices -> {"out", "signing", "tabs", "editing"} \cup Covered]
        /\ root' \in [Devices -> {"welcome", "login"}]
        /\ listening' \in [Devices -> SUBSET Users] /\ due' \in [Devices -> SUBSET Users]
        /\ shown' \in [Devices -> User] /\ edited' \in [Devices -> Copy]
        /\ upload' \in [Devices -> {"no", "putting", "linking"}]
        BY <1>4, <2>3 DEF Launch, TypeOK, Links
  <2> QED BY <1>2, <1>3, <1>4, <1>17, <2>2, <2>4, <2>6 DEF Relaunched, Reinstalled, TypeOK
<1> QED BY <1>5, <1>6, <1>7, <1>8, <1>9, <1>10, <1>11, <1>12, <1>14, <1>15, <1>16, <1>17
        DEF Steps, Tapped, ComingIn, SigningUp, Uploading, Heard

\* Nothing of d's own changes.
SameDevice(d) == /\ session'[d] = session[d] /\ flag'[d] = flag[d] /\ email'[d] = email[d]
                 /\ screen'[d] = screen[d] /\ upload'[d] = upload[d]
                 /\ shown'[d] = shown[d] /\ edited'[d] = edited[d]
                 /\ outbox'[d] = outbox[d]
                 /\ (d \in stays' <=> d \in stays)

(* A step of one device leaves the others as they are.                     *)
LEMMA OthersStay ==
  ASSUME TypeOK, NEW dev \in Devices, Steps(dev), NEW d \in Devices, d # dev
  PROVE  SameDevice(d)
<1> USE DEF TypeOK, SameDevice, Goes, cloud, keychain, profileVC, editVC, history
<1>1. ASSUME NEW u \in Users, SignUpTapped(dev, u) \/ LogInTapped(dev, u)
      PROVE  SameDevice(d)
      BY <1>1 DEF SignUpTapped, LogInTapped
<1>2. ASSUME EmailChecked(dev) \/ AccountCreated(dev) \/ AccountRefused(dev) \/ SignedIn(dev) \/ Reloaded(dev)
      PROVE  SameDevice(d)
      BY <1>2 DEF EmailChecked, AccountCreated, AccountRefused, SignedIn, Reloaded
<1>3. ASSUME UserSaved(dev)
      PROVE  SameDevice(d)
      BY <1>3 DEF UserSaved, Queue
<1>4. ASSUME ProfileAppears(dev) \/ LogoutTapped(dev) \/ EditTapped(dev) \/ AvatarPicked(dev) \/ BackTapped(dev)
      PROVE  SameDevice(d)
      BY <1>4 DEF ProfileAppears, LogoutTapped, EditTapped, AvatarPicked, BackTapped
<1>5. ASSUME SaveTapped(dev)
      PROVE  SameDevice(d)
      BY <1>5 DEF SaveTapped, UpdateUser, Queue
<1>6. ASSUME AvatarPut(dev) \/ AvatarLinked(dev)
      PROVE  SameDevice(d)
  <2>1. CASE AvatarPut(dev)
        BY <2>1 DEF AvatarPut, UpdateUser, Queue
  <2>2. CASE AvatarLinked(dev)
        BY <2>2 DEF AvatarLinked, UpdateUser, Queue
  <2> QED BY <1>6, <2>1, <2>2
<1>7. ASSUME Heard(dev)
      PROVE  SameDevice(d)
      BY <1>7 DEF Heard, ListenerFires
<1>8. ASSUME WriteReachesServer(dev)
      PROVE  SameDevice(d)
      BY <1>8 DEF WriteReachesServer, Answered
<1>9. ASSUME Relaunched(dev) \/ Reinstalled(dev)
      PROVE  SameDevice(d)
      BY <1>9 DEF Relaunched, Reinstalled, Launch
<1> QED BY <1>1, <1>2, <1>3, <1>4, <1>5, <1>6, <1>7, <1>8, <1>9
        DEF Steps, Tapped, ComingIn, SigningUp, Uploading

(* What a queue promises when a write is put behind it.                    *)
LEMMA Appending ==
  ASSUME NEW q \in Seq(Writes), NEW w \in Writes, NEW u, NEW docs, NEW stored
  PROVE  /\ Creates(Append(q, w)) <=> Creates(q) \/ w.kind = "create"
         /\ CreatesOnce(q, u) /\ (w.kind = "create" => ~Creates(q) /\ w.uid = u)
              => CreatesOnce(Append(q, w), u)
         /\ Finds(q, u, docs) /\ (w.kind = "create" \/ w.uid \in docs \/ (w.uid = u /\ Creates(q)))
              => Finds(Append(q, w), u, docs)
         /\ Leads(q, stored) /\ w.link \in stored \cup {Nobody} => Leads(Append(q, w), stored)
<1> DEFINE r == Append(q, w)  n == Len(q)
<1>1. /\ n \in Nat /\ Len(r) = n + 1 /\ r[n + 1] = w
      /\ \A i \in 1..n : r[i] = q[i]
      BY QueueGrows
<1> HIDE DEF r, n
<1>2. \A i \in 1..(n + 1) : i \in 1..n \/ i = n + 1
      BY <1>1
<1>3. \A i \in 1..n : i \in 1..(n + 1) /\ (Creation(r, i) <=> Creation(q, i))
      BY <1>1 DEF Creation, n
<1>4. n + 1 \in 1..(n + 1) /\ (Creation(r, n + 1) <=> w.kind = "create")
      BY <1>1 DEF Creation
<1>5. Creates(r) <=> Creates(q) \/ w.kind = "create"
      BY <1>1, <1>2, <1>3, <1>4 DEF Creates, n
<1>6. CreatesOnce(q, u) /\ (w.kind = "create" => ~Creates(q) /\ w.uid = u) => CreatesOnce(r, u)
      BY <1>1, <1>2, <1>3, <1>4 DEF CreatesOnce, Creates, n
<1>7. ASSUME Finds(q, u, docs), w.kind = "create" \/ w.uid \in docs \/ (w.uid = u /\ Creates(q))
      PROVE  Finds(r, u, docs)
  <2> SUFFICES ASSUME NEW i \in 1..(n + 1)
               PROVE  \/ Creation(r, i) \/ r[i].uid \in docs
                      \/ r[i].uid = u /\ \E j \in 1..(i - 1) : Creation(r, j)
      BY <1>1 DEF Finds
  <2>1. CASE i \in 1..n
    <3>1. \A j \in 1..(i - 1) : j \in 1..n
          BY <1>1, <2>1
    <3> QED BY <1>1, <1>3, <1>7, <2>1, <3>1 DEF Finds, n
  <2>2. CASE i = n + 1
    <3>1. i - 1 = n
          BY <1>1, <2>2
    <3>2. w.uid = u /\ Creates(q) => \E j \in 1..(i - 1) : Creation(r, j)
          BY <1>3, <3>1 DEF Creates, n
    <3> QED BY <1>1, <1>4, <1>7, <2>2, <3>2
  <2> QED BY <1>2, <2>1, <2>2
<1>8. Leads(q, stored) /\ w.link \in stored \cup {Nobody} => Leads(r, stored)
      BY <1>1, <1>2 DEF Leads, n
<1> QED BY <1>5, <1>6, <1>7, <1>8 DEF r

(* And when its head is sent: if the head creates u's document, nothing    *)
(* else will, and whoever waited behind it finds the document.             *)
LEMMA Sending ==
  ASSUME NEW q \in Seq(Writes), q # << >>, NEW u, NEW docs, NEW stored
  PROVE  /\ Creates(Tail(q)) => Creates(q)
         /\ Head(q).kind # "create" => (Creates(Tail(q)) <=> Creates(q))
         /\ Head(q).kind = "create" => Creates(q)
         /\ CreatesOnce(q, u) => CreatesOnce(Tail(q), u)
         /\ CreatesOnce(q, u) /\ Head(q).kind = "create" => Head(q).uid = u /\ ~Creates(Tail(q))
         /\ Finds(q, u, docs) /\ (Head(q).kind = "create" => u \in docs) => Finds(Tail(q), u, docs)
         /\ Finds(q, u, docs) /\ Head(q).kind # "create" => Head(q).uid \in docs
         /\ Leads(q, stored) => Leads(Tail(q), stored) /\ Head(q).link \in stored \cup {Nobody}
<1> DEFINE t == Tail(q)  h == Head(q)  n == Len(q)
<1>1. /\ n \in Nat \ {0} /\ Len(t) = n - 1 /\ h = q[1] /\ h \in Writes
      /\ \A i \in 1..(n - 1) : t[i] = q[i + 1]
      BY QueueShrinks
<1> HIDE DEF t, h, n
<1>2. 1 \in 1..n /\ \A i \in 1..n : i = 1 \/ (i - 1 \in 1..(n - 1) /\ (i - 1) + 1 = i)
      BY <1>1
<1>3. \A i \in 1..(n - 1) : i + 1 \in 1..n /\ i + 1 # 1 /\ (Creation(t, i) <=> Creation(q, i + 1))
      BY <1>1 DEF Creation, n
<1>4. Creation(q, 1) <=> h.kind = "create"
      BY <1>1, <1>2 DEF Creation, n
<1>5. Creates(t) => Creates(q)
      BY <1>1, <1>3 DEF Creates, n
<1>6. h.kind # "create" => (Creates(t) <=> Creates(q))
  <2> SUFFICES ASSUME h.kind # "create", Creates(q)
               PROVE  Creates(t)
      BY <1>5
  <2>1. PICK i \in 1..n : Creation(q, i)
        BY DEF Creates, n
  <2>2. i - 1 \in 1..(n - 1) /\ (i - 1) + 1 = i
        BY <1>2, <1>4, <2>1
  <2>3. Creation(t, i - 1)
        BY <1>3, <2>1, <2>2
  <2> QED BY <1>1, <2>2, <2>3 DEF Creates
<1>7. h.kind = "create" => Creates(q)
      BY <1>2, <1>4 DEF Creates, n
<1>8. ASSUME CreatesOnce(q, u)
      PROVE  CreatesOnce(t, u)
  <2> SUFFICES ASSUME NEW i \in 1..(n - 1), Creation(t, i)
               PROVE  t[i].uid = u /\ \A j \in 1..(n - 1) : Creation(t, j) => i = j
      BY <1>1 DEF CreatesOnce
  <2>1. q[i + 1].uid = u /\ \A j \in 1..(n - 1) : Creation(t, j) => i + 1 = j + 1
        BY <1>3, <1>8 DEF CreatesOnce, n
  <2> QED BY <1>1, <2>1
<1>9. ASSUME CreatesOnce(q, u), h.kind = "create"
      PROVE  h.uid = u /\ ~Creates(t)
  <2>1. h.uid = u /\ \A j \in 1..n : Creation(q, j) => 1 = j
        BY <1>1, <1>2, <1>4, <1>9 DEF CreatesOnce, n
  <2> QED BY <1>1, <1>3, <2>1 DEF Creates
<1>10. ASSUME Finds(q, u, docs), h.kind = "create" => u \in docs
       PROVE  Finds(t, u, docs)
  <2> SUFFICES ASSUME NEW i \in 1..(n - 1)
               PROVE  \/ Creation(t, i) \/ t[i].uid \in docs
                      \/ t[i].uid = u /\ \E j \in 1..(i - 1) : Creation(t, j)
      BY <1>1 DEF Finds
  <2>1. CASE Creation(q, i + 1) \/ q[i + 1].uid \in docs
        BY <1>1, <1>3, <2>1
  <2>2. ASSUME q[i + 1].uid = u, NEW j \in 1..i, Creation(q, j)
        PROVE  \/ t[i].uid \in docs
               \/ t[i].uid = u /\ \E k \in 1..(i - 1) : Creation(t, k)
    <3>1. CASE j = 1
          BY <1>1, <1>4, <1>10, <2>2, <3>1
    <3>2. CASE j # 1
      <4>1. j - 1 \in 1..(i - 1) /\ j - 1 \in 1..(n - 1) /\ (j - 1) + 1 = j
            BY <1>1, <3>2
      <4> QED BY <1>1, <1>3, <2>2, <4>1
    <3> QED BY <3>1, <3>2
  <2>3. i + 1 \in 1..n /\ (i + 1) - 1 = i
        BY <1>1
  <2>4. \/ Creation(q, i + 1) \/ q[i + 1].uid \in docs
        \/ q[i + 1].uid = u /\ \E j \in 1..i : Creation(q, j)
        BY <1>10, <2>3 DEF Finds, n
  <2> QED BY <2>1, <2>2, <2>4
<1>11. ASSUME Finds(q, u, docs), h.kind # "create"
       PROVE  h.uid \in docs
       BY <1>1, <1>2, <1>4, <1>11 DEF Finds, n
<1>12. ASSUME Leads(q, stored)
       PROVE  Leads(t, stored) /\ h.link \in stored \cup {Nobody}
       BY <1>1, <1>2, <1>3, <1>12 DEF Leads, n
<1> QED BY <1>5, <1>6, <1>7, <1>8, <1>9, <1>10, <1>11, <1>12 DEF t, h

(* Accounts, avatars and the sign-ups cut short or refused only grow.      *)
LEMMA CloudGrows ==
  ASSUME NEW dev \in Devices, Steps(dev)
  PROVE  /\ accounts \subseteq accounts' /\ avatars \subseteq avatars'
         /\ cut \subseteq cut' /\ refused \subseteq refused'
<1> USE DEF cloud, history
<1>1. ASSUME Tapped(dev)
      PROVE  accounts' = accounts /\ avatars' = avatars /\ cut' = cut /\ refused' = refused
      BY <1>1 DEF Tapped, SignUpTapped, LogInTapped, ProfileAppears, LogoutTapped, EditTapped,
                  AvatarPicked, SaveTapped, BackTapped
<1>2. ASSUME ComingIn(dev)
      PROVE  accounts \subseteq accounts' /\ avatars' = avatars /\ cut \subseteq cut' /\ refused' = refused
      BY <1>2 DEF ComingIn, SigningUp, EmailChecked, AccountCreated, AccountRefused, UserSaved,
                  SignedIn, Reloaded
<1>3. ASSUME Uploading(dev) \/ Heard(dev) \/ WriteReachesServer(dev)
      PROVE  accounts' = accounts /\ avatars \subseteq avatars' /\ cut' = cut /\ refused \subseteq refused'
      BY <1>3 DEF Uploading, AvatarPut, AvatarLinked, Heard, ListenerFires, WriteReachesServer
<1>4. ASSUME Relaunched(dev) \/ Reinstalled(dev)
      PROVE  accounts \subseteq accounts' /\ avatars' = avatars /\ cut \subseteq cut' /\ refused' = refused
      BY <1>4 DEF Relaunched, Reinstalled
<1> QED BY <1>1, <1>2, <1>3, <1>4 DEF Steps

(* The session of the device that steps still fits its screen.             *)
LEMMA OwnSession ==
  ASSUME AccountsInv, NEW dev \in Devices, Steps(dev)
  PROVE  SessionFits(dev)'
<1> USE AccountsAssumption DEF TypeOK, SessionFits, Inside, Goes, cloud, keychain, profileVC, editVC, history
<1>0. SessionFits(dev) /\ TypeOK
      BY DEF AccountsInv, Sessions
<1>1. ASSUME NEW u \in Users, SignUpTapped(dev, u) \/ LogInTapped(dev, u)
      PROVE  SessionFits(dev)'
      BY <1>0, <1>1 DEF SignUpTapped, LogInTapped
<1>2. ASSUME EmailChecked(dev) \/ AccountCreated(dev) \/ AccountRefused(dev)
      PROVE  SessionFits(dev)'
      BY <1>0, <1>2 DEF EmailChecked, AccountCreated, AccountRefused
<1>3. ASSUME SignedIn(dev) \/ Reloaded(dev)
      PROVE  SessionFits(dev)'
      BY <1>0, <1>3 DEF SignedIn, Reloaded
<1>4. ASSUME UserSaved(dev)
      PROVE  SessionFits(dev)'
      BY <1>0, <1>4 DEF UserSaved
<1>5. ASSUME ProfileAppears(dev) \/ LogoutTapped(dev)
      PROVE  SessionFits(dev)'
      BY <1>0, <1>5 DEF ProfileAppears, LogoutTapped, Free
<1>6. ASSUME EditTapped(dev) \/ AvatarPicked(dev) \/ BackTapped(dev)
      PROVE  SessionFits(dev)'
      BY <1>0, <1>6 DEF EditTapped, AvatarPicked, BackTapped, Free, Editing
<1>7. ASSUME NEW link, UpdateUser(dev, link), upload'[dev] = "no",
             UNCHANGED <<screen, session, email, flag, stays, refused>>
      PROVE  SessionFits(dev)'
      BY <1>0, <1>7 DEF UpdateUser
<1>8. ASSUME SaveTapped(dev)
      PROVE  SessionFits(dev)'
      BY <1>0, <1>7, <1>8 DEF SaveTapped, Editing
<1>9. ASSUME AvatarPut(dev) \/ AvatarLinked(dev)
      PROVE  SessionFits(dev)'
      BY <1>0, <1>7, <1>9 DEF AvatarPut, AvatarLinked
<1>10. ASSUME Heard(dev)
       PROVE  SessionFits(dev)'
       BY <1>0, <1>10 DEF Heard, ListenerFires
<1>11. ASSUME WriteReachesServer(dev)
       PROVE  SessionFits(dev)'
  <2> DEFINE u == session[dev]  q == outbox[dev][u]  w == Head(q)
  <2>1. u \in Users /\ q # << >>
        BY <1>0, <1>11 DEF WriteReachesServer, Links
  <2>2. q \in Seq(Writes) /\ CreatesOnce(q, u)
        BY <1>0, <2>1 DEF AccountsInv, OneCreation
  <2>3. w.kind = "create" => w.uid = u
        BY <2>1, <2>2, Sending
  <2>4. \/ Answered(dev, w, TRUE)
        \/ Answered(dev, w, FALSE) /\ (w.kind = "create" => w.uid \in refused')
        BY <1>11 DEF WriteReachesServer
  <2>5. /\ session' = session /\ email' = email /\ flag' = flag /\ stays' = stays /\ upload' = upload
        /\ refused \subseteq refused'
        BY <1>11 DEF WriteReachesServer
  <2> HIDE DEF w, q
  <2>6. CASE w.kind = "create" /\ screen[dev] = "saving"
    <3>1. /\ edited' = edited
          /\ screen'[dev] = "reloading" \/ (screen'[dev] = "out" /\ w.uid \in refused')
          BY <1>0, <2>4, <2>6 DEF Answered
    <3> QED BY <1>0, <2>1, <2>3, <2>5, <2>6, <3>1
  <2>7. CASE w.kind = "update" /\ screen[dev] = "editing" /\ w.editor = edited[dev].editor
    <3>1. /\ screen'[dev] = "tabs"
          /\ edited'[dev] = IF upload[dev] = "no" THEN NoCopy ELSE edited[dev]
          BY <1>0, <2>4, <2>7 DEF Answered
    <3> QED BY <1>0, <2>1, <2>5, <2>7, <3>1
  <2>8. CASE ~(w.kind = "create" /\ screen[dev] = "saving")
             /\ ~(w.kind = "update" /\ screen[dev] = "editing" /\ w.editor = edited[dev].editor)
    <3>1. screen' = screen /\ edited' = edited
          BY <2>4, <2>8 DEF Answered
    <3> QED BY <1>0, <2>5, <3>1
  <2> QED BY <2>6, <2>7, <2>8
<1>12. ASSUME Relaunched(dev) \/ Reinstalled(dev)
       PROVE  SessionFits(dev)'
       BY <1>0, <1>12 DEF Relaunched, Reinstalled, Launch
<1> QED BY <1>1, <1>2, <1>3, <1>4, <1>5, <1>6, <1>8, <1>9, <1>10, <1>11, <1>12
        DEF Steps, Tapped, ComingIn, SigningUp, Uploading

(* The session of every device fits its screen after a step.               *)
LEMMA StepSessions == AccountsInv /\ [Next]_vars => Sessions'
<1> SUFFICES ASSUME AccountsInv, [Next]_vars
             PROVE  Sessions'
    OBVIOUS
<1>1. CASE UNCHANGED vars
      BY <1>1 DEF vars, keychain, editVC, history, AccountsInv, Sessions, SessionFits
<1>2. ASSUME NEW dev \in Devices, Steps(dev), NEW d \in Devices
      PROVE  SessionFits(d)'
  <2>1. CASE d = dev
        BY <1>2, <2>1, OwnSession
  <2>2. CASE d # dev
        BY <1>2, <2>2, OthersStay, CloudGrows DEF AccountsInv, Sessions, SessionFits, SameDevice
  <2> QED BY <2>1, <2>2
<1> QED BY <1>1, <1>2 DEF Next, Sessions

\* How a step treats the sign-up of u that has an account and no document yet.
ClaimsChange(dev, u) ==
  /\ Claims(dev, u)' => Claims(dev, u) \/ (u \notin accounts /\ u \in accounts' /\ QueuesKept)
  /\ Claims(dev, u) => Claims(dev, u)' \/ CreateQueued(dev) \/ u \in cut'
  /\ u \in accounts' \ accounts => Claims(dev, u)' \/ u \in cut'

(* A sign-up claims a document only when its account is new, and goes on   *)
(* to write it or is cut short; so does every new account.                 *)
LEMMA ClaimsStep ==
  ASSUME TypeOK, Sessions, NEW dev \in Devices, Steps(dev), NEW u \in Users
  PROVE  ClaimsChange(dev, u)
<1> USE DEF Claims, ClaimsChange, TypeOK, Goes, cloud, history
<1>1. ASSUME screen'[dev] # "created", screen[dev] # "created", accounts' = accounts
      PROVE  ClaimsChange(dev, u)
      BY <1>1
<1>2. ASSUME screen' = screen, email' = email, accounts' = accounts
      PROVE  ClaimsChange(dev, u)
      BY <1>2
<1>3. ASSUME NEW v \in Users, SignUpTapped(dev, v) \/ LogInTapped(dev, v)
      PROVE  ClaimsChange(dev, u)
      BY <1>1, <1>3 DEF SignUpTapped, LogInTapped
<1>4. ASSUME EmailChecked(dev) \/ SignedIn(dev) \/ Reloaded(dev)
      PROVE  ClaimsChange(dev, u)
      BY <1>1, <1>4 DEF EmailChecked, SignedIn, Reloaded
<1>5. ASSUME AccountCreated(dev)
      PROVE  ClaimsChange(dev, u)
      BY <1>5 DEF AccountCreated, QueuesKept
<1>6. ASSUME AccountRefused(dev)
      PROVE  ClaimsChange(dev, u)
      BY <1>6 DEF AccountRefused
<1>7. ASSUME UserSaved(dev)
      PROVE  ClaimsChange(dev, u)
  <2>1. CreateQueued(dev)
        BY <1>7 DEF UserSaved, CreateQueued, Queue, Appended, NewUser, keychain
  <2> QED BY <1>7, <2>1 DEF UserSaved
<1>8. ASSUME ProfileAppears(dev) \/ AvatarPicked(dev) \/ SaveTapped(dev) \/ Uploading(dev) \/ Heard(dev)
      PROVE  ClaimsChange(dev, u)
      BY <1>2, <1>8 DEF ProfileAppears, AvatarPicked, SaveTapped, Uploading, AvatarPut, AvatarLinked,
                        Heard, ListenerFires
<1>9. ASSUME EditTapped(dev) \/ BackTapped(dev)
      PROVE  ClaimsChange(dev, u)
      BY <1>1, <1>9 DEF EditTapped, BackTapped, Free, Editing
<1>10. ASSUME LogoutTapped(dev)
       PROVE  ClaimsChange(dev, u)
       BY <1>1, <1>2, <1>10 DEF LogoutTapped, Free
<1>11. ASSUME WriteReachesServer(dev)
       PROVE  ClaimsChange(dev, u)
       BY <1>1, <1>2, <1>11 DEF WriteReachesServer, Answered
<1>12. ASSUME Relaunched(dev) \/ Reinstalled(dev)
       PROVE  ClaimsChange(dev, u)
  <2>1. screen'[dev] # "created" /\ (screen[dev] = "created" => email[dev] \in cut')
        BY <1>12 DEF Relaunched, Reinstalled, Launch
  <2>2. accounts' \ accounts \subseteq cut'
        BY <1>12 DEF Relaunched, Reinstalled
  <2> QED BY <2>1, <2>2
<1> QED BY <1>3, <1>4, <1>5, <1>6, <1>7, <1>8, <1>9, <1>10, <1>11, <1>12
        DEF Steps, Tapped, ComingIn, SigningUp

\* What a step does to the documents.
DocumentsChange(dev) ==
  /\ Documents \subseteq Documents'
  /\ \A v \in Documents' \ Documents : Creates(outbox[dev][v]) /\ ~Creates(outbox'[dev][v]) /\ HeadSent(dev)

(* No document goes, and one is new only when the server has the creation  *)
(* of the user signed in.                                                  *)
LEMMA DocumentsStep ==
  ASSUME TypeOK, Sessions, OneCreation, NEW dev \in Devices, Steps(dev)
  PROVE  DocumentsChange(dev)
<1> USE DEF DocumentsChange, Documents, TypeOK
<1>1. CASE profiles' = profiles
      BY <1>1
<1>2. CASE HeadSent(dev) /\ profiles' # profiles
  <2> DEFINE u == session[dev]  q == outbox[dev][u]  w == Head(q)
  <2>1. u \in Users /\ q # << >>
        BY <1>2 DEF HeadSent, Links
  <2>2. q \in Seq(Writes) /\ CreatesOnce(q, u)
        BY <2>1 DEF OneCreation
  <2>3. /\ Tail(q) \in Seq(Writes) /\ w \in Writes
        /\ w.kind = "create" => w.uid = u /\ Creates(q) /\ ~Creates(Tail(q))
        BY <2>1, <2>2, Sending, QueueShrinks
  <2>4. w.uid \in Users /\ outbox'[dev][u] = Tail(q)
        BY <1>2, <2>1, <2>3 DEF HeadSent, Writes
  <2>5. Taken(w)
        BY <1>2 DEF HeadSent, Refused
  <2> HIDE DEF u, q, w
  <2>6. \A v \in Users : profiles[v].there => profiles'[v].there
        BY <2>4, <2>5 DEF Taken
  <2>7. \A v \in Users : profiles'[v].there /\ ~profiles[v].there => v = w.uid /\ w.kind = "create"
        BY <2>4, <2>5 DEF Taken
  <2> QED BY <1>2, <2>3, <2>4, <2>6, <2>7 DEF q
<1> QED BY <1>1, <1>2, QueueEffect DEF QueuesKept, CreateQueued, UpdateQueued, QueuesLost, Appended

\* What is to hold of d's queue for u after a step of dev.
QueueFits(d, u) == CreatesOnce(outbox[d][u], u) /\ Finds(outbox[d][u], u, Answers)
QueueChange(dev, d, u) ==
  /\ QueueFits(d, u)'
  /\ Creates(outbox'[d][u]) => \/ Creates(outbox[d][u])
                               \/ d = dev /\ u = email[dev] /\ CreateQueued(dev)
  /\ Creates(outbox[d][u]) => \/ Creates(outbox'[d][u]) \/ u \in Answers'
                              \/ d = dev /\ QueuesLost(dev) /\ u \in cut'

(* Finding a document is easier with more documents.                       *)
LEMMA FindsMore ==
  ASSUME NEW q, NEW u, NEW docs, NEW more, docs \subseteq more, Finds(q, u, docs)
  PROVE  Finds(q, u, more)
BY DEF Finds

(* Who has a document, or was refused one, is known for good.              *)
LEMMA AnswersGrow ==
  ASSUME AccountsInv, NEW dev \in Devices, Steps(dev)
  PROVE  Answers \subseteq Answers'
BY DocumentsStep, CloudGrows DEF AccountsInv, DocumentsChange, Answers

(* The queues keep their creations and the order of their updates.         *)
LEMMA QueuesStep ==
  ASSUME AccountsInv, NEW dev \in Devices, Steps(dev), NEW d \in Devices, NEW u \in Users
  PROVE  QueueChange(dev, d, u)
<1> DEFINE q == outbox[d][u]
<1>0. /\ TypeOK /\ Sessions /\ OneCreation /\ q \in Seq(Writes)
      /\ CreatesOnce(q, u) /\ Finds(q, u, Answers) /\ Answers \subseteq Answers'
      BY AnswersGrow DEF AccountsInv, TypeOK, OneCreation, UpdatesCovered
<1>1. Finds(q, u, Answers')
      BY <1>0, FindsMore
<1>2. ASSUME outbox'[d][u] = q
      PROVE  QueueChange(dev, d, u)
      BY <1>0, <1>1, <1>2 DEF QueueChange, QueueFits
<1>3. CASE QueuesKept
      BY <1>2, <1>3 DEF QueuesKept
<1>4. CASE CreateQueued(dev)
  <2>1. CASE d = dev /\ u = email[dev]
    <3>1. outbox'[d][u] = Append(q, NewUser(u))
          BY <1>0, <1>4, <2>1 DEF CreateQueued, Appended, TypeOK
    <3>2. ~Creates(q)
          BY <1>4, <2>1, <1>0 DEF CreateQueued, OneCreation, Claims
    <3>3. CreatesOnce(Append(q, NewUser(u)), u) /\ Finds(Append(q, NewUser(u)), u, Answers')
          BY <1>0, <1>1, <3>2, Appending, CreationIsTyped
    <3> QED BY <1>4, <2>1, <3>1, <3>2, <3>3 DEF QueueChange, QueueFits
  <2>2. CASE ~(d = dev /\ u = email[dev])
    <3>1. outbox'[d][u] = q
          BY <1>0, <1>4, <2>2 DEF CreateQueued, Appended, TypeOK
    <3> QED BY <1>2, <3>1
  <2> QED BY <2>1, <2>2
<1>5. CASE UpdateQueued(dev)
  <2>1. PICK link \in Links : Appended(dev, session[dev], Update(dev, link))
        BY <1>5 DEF UpdateQueued
  <2>2. Ready(dev, edited[dev].uid)
        BY <1>5 DEF UpdateQueued, AccountsInv, CopiesCovered
  <2> DEFINE w == Update(dev, link)
  <2>3. edited[dev].uid \in Users
        BY <2>2 DEF Ready, Answers, Documents, AccountsInv, TypeOK
  <2>4. w \in Writes /\ w.kind = "update" /\ w.uid = edited[dev].uid
        BY <1>0, <2>3, UpdateIsTyped
  <2> HIDE DEF w
  <2>5. CASE d = dev /\ u = session[dev]
    <3>1. outbox'[d][u] = Append(q, w)
          BY <1>0, <2>1, <2>5 DEF Appended, TypeOK, w
    <3>2. w.uid \in Answers' \/ (w.uid = u /\ Creates(q))
          BY <1>0, <2>2, <2>4, <2>5 DEF Ready
    <3>3. /\ CreatesOnce(Append(q, w), u) /\ Finds(Append(q, w), u, Answers')
          /\ Creates(Append(q, w)) <=> Creates(q)
          BY <1>0, <1>1, <2>4, <3>2, Appending
    <3> QED BY <3>1, <3>3 DEF QueueChange, QueueFits
  <2>6. CASE ~(d = dev /\ u = session[dev])
    <3>1. outbox'[d][u] = q
          BY <1>0, <2>1, <2>6 DEF Appended, TypeOK
    <3> QED BY <1>2, <3>1
  <2> QED BY <2>5, <2>6
<1>6. CASE HeadSent(dev)
  <2>1. CASE d = dev /\ u = session[dev]
    <3>1. q # << >> /\ outbox'[d][u] = Tail(q)
          BY <1>0, <1>6, <2>1 DEF HeadSent, TypeOK
    <3>2. Head(q).kind = "create" => u \in Answers'
      <4>1. Head(q) \in Writes /\ (Head(q).kind = "create" => Head(q).uid = u)
            BY <1>0, <3>1, Sending, QueueShrinks
      <4>2. Taken(Head(q)) \/ Refused(Head(q))
            BY <1>6, <2>1 DEF HeadSent
      <4> QED BY <1>0, <4>1, <4>2 DEF Taken, Refused, Answers, Documents, TypeOK
    <3>3. CreatesOnce(Tail(q), u) /\ Finds(Tail(q), u, Answers')
          BY <1>0, <1>1, <3>1, <3>2, Sending
    <3>4. /\ Creates(Tail(q)) => Creates(q)
          /\ Creates(q) => Creates(Tail(q)) \/ u \in Answers'
          BY <1>0, <3>1, <3>2, Sending
    <3> QED BY <3>1, <3>3, <3>4 DEF QueueChange, QueueFits
  <2>2. CASE ~(d = dev /\ u = session[dev])
    <3>1. outbox'[d][u] = q
          BY <1>0, <1>6, <2>2 DEF HeadSent, TypeOK
    <3> QED BY <1>2, <3>1
  <2> QED BY <2>1, <2>2
<1>7. CASE QueuesLost(dev)
  <2>1. CASE d = dev
    <3>1. outbox'[d][u] = << >>
          BY <1>0, <1>7, <2>1 DEF QueuesLost, TypeOK
    <3>2. CreatesOnce(<< >>, u) /\ Finds(<< >>, u, Answers') /\ ~Creates(<< >>)
          BY DEF CreatesOnce, Finds, Creates
    <3>3. Creates(q) => u \in cut'
          BY <1>7, <2>1, <3>2 DEF QueuesLost
    <3> QED BY <1>7, <2>1, <3>1, <3>2, <3>3 DEF QueueChange, QueueFits
  <2>2. CASE d # dev
    <3>1. outbox'[d][u] = q
          BY <1>0, <1>7, <2>2 DEF QueuesLost, TypeOK
    <3> QED BY <1>2, <3>1
  <2> QED BY <2>1, <2>2
<1> QED BY <1>0, <1>3, <1>4, <1>5, <1>6, <1>7, QueueEffect

(* A document still has one creation, of an account that has none.         *)
LEMMA StepOneCreation == AccountsInv /\ [Next]_vars => OneCreation' /\ UpdatesCovered' /\ NoneForgotten'
<1> SUFFICES ASSUME AccountsInv, [Next]_vars
             PROVE  OneCreation' /\ UpdatesCovered' /\ NoneForgotten'
    OBVIOUS
<1> USE DEF AccountsInv
<1>1. CASE UNCHANGED vars
  <2>1. profiles' = profiles /\ accounts' = accounts /\ outbox' = outbox /\ screen' = screen
        /\ email' = email /\ cut' = cut /\ refused' = refused
        BY <1>1 DEF vars, cloud, history
  <2>2. Documents' = Documents /\ \A d, u : Makes(d, u)' = Makes(d, u) /\ Claims(d, u)' = Claims(d, u)
        BY <2>1 DEF Documents, Makes, Claims
  <2> QED BY <2>1, <2>2 DEF OneCreation, UpdatesCovered, Answers, NoneForgotten
<1> SUFFICES ASSUME NEW dev \in Devices, Steps(dev)
             PROVE  OneCreation' /\ UpdatesCovered' /\ NoneForgotten'
    BY <1>1 DEF Next
<1>2. /\ DocumentsChange(dev) /\ accounts \subseteq accounts'
      /\ cut \subseteq cut' /\ refused \subseteq refused'
      /\ \A u \in Users : ClaimsChange(dev, u)
      /\ \A d \in Devices, u \in Users : QueueChange(dev, d, u)
      BY DocumentsStep, CloudGrows, ClaimsStep, QueuesStep
<1>3. \A d \in Devices, u \in Users : d # dev => (Claims(d, u)' <=> Claims(d, u))
      BY OthersStay DEF SameDevice, Claims
<1>4. UpdatesCovered' /\ \A d \in Devices, u \in Users : CreatesOnce(outbox'[d][u], u)
      BY <1>2 DEF UpdatesCovered, QueueChange, QueueFits
<1>5. ASSUME NEW d \in Devices, NEW u \in Users, Makes(d, u)'
      PROVE  Makes(d, u) \/ (d = dev /\ Claims(d, u)' /\ u \in accounts' \ accounts /\ QueuesKept)
  <2>1. CASE Creates(outbox'[d][u])
    <3>1. CreateQueued(dev) /\ d = dev /\ u = email[dev] => Claims(d, u)
          BY DEF CreateQueued, Claims
    <3> QED BY <1>2, <2>1, <3>1 DEF QueueChange, Makes
  <2>2. CASE Claims(d, u)'
        BY <1>2, <1>3, <2>2 DEF ClaimsChange, Makes
  <2> QED BY <1>5, <2>1, <2>2 DEF Makes
<1>6. ASSUME NEW d \in Devices, NEW u \in Users, Makes(d, u)
      PROVE  Makes(d, u)' \/ u \in Answers' \/ u \in cut'
  <2>1. CASE Claims(d, u)
    <3>1. CreateQueued(dev) /\ d = dev => Creates(outbox'[d][u])
      <4> SUFFICES ASSUME CreateQueued(dev), d = dev
                   PROVE  Creates(outbox'[d][u])
          OBVIOUS
      <4>1. outbox'[d][u] = Append(outbox[d][u], NewUser(u)) /\ outbox[d][u] \in Seq(Writes)
            BY <2>1 DEF CreateQueued, Claims, Appended, TypeOK
      <4> QED BY <4>1, Appending, CreationIsTyped
    <3> QED BY <1>2, <1>3, <2>1, <3>1 DEF ClaimsChange, Makes
  <2>2. CASE Creates(outbox[d][u])
        BY <1>2, <2>2 DEF QueueChange, Makes
  <2> QED BY <1>6, <2>1, <2>2 DEF Makes
<1>7. \A u \in Documents' \ Documents : Creates(outbox[dev][u]) /\ ~Makes(dev, u)'
  <2> SUFFICES ASSUME NEW u \in Documents' \ Documents
               PROVE  Creates(outbox[dev][u]) /\ ~Makes(dev, u)'
      OBVIOUS
  <2>1. u \in Users /\ HeadSent(dev) /\ Creates(outbox[dev][u]) /\ ~Creates(outbox'[dev][u])
        BY <1>2 DEF DocumentsChange, Documents
  <2>2. ~Claims(dev, u)
        BY <2>1 DEF OneCreation
  <2>3. ~Claims(dev, u)'
        BY <1>2, <2>1, <2>2 DEF ClaimsChange, HeadSent
  <2> QED BY <2>1, <2>3 DEF Makes
<1>8. \A u \in Users \ accounts : u \notin Documents /\ \A d \in Devices : ~Makes(d, u)
      BY DEF OneCreation
<1>9. ASSUME NEW u \in Users
      PROVE  /\ u \in Documents' => u \in accounts'
             /\ \A d \in Devices : Makes(d, u)' => u \in accounts' \ Documents'
             /\ \A d \in Devices : Claims(d, u)' => ~Creates(outbox'[d][u])
             /\ \A d, e \in Devices : Makes(d, u)' /\ Makes(e, u)' => d = e
  <2>1. u \in Documents' => u \in accounts'
    <3>1. CASE u \in Documents
          BY <1>2, <3>1 DEF OneCreation
    <3>2. CASE u \in Documents' \ Documents
          BY <1>2, <1>7, <3>2 DEF OneCreation, Makes
    <3> QED BY <3>1, <3>2
  <2>2. ASSUME NEW d \in Devices, Makes(d, u)'
        PROVE  u \in accounts' \ Documents'
    <3>1. CASE Makes(d, u)
      <4>1. u \in accounts \ Documents
            BY <3>1 DEF OneCreation
      <4>2. u \in Documents' => d = dev
            BY <1>7, <3>1, <4>1 DEF OneCreation, Makes
      <4> QED BY <1>2, <1>7, <2>2, <4>1, <4>2
    <3>2. CASE u \in accounts' \ accounts /\ QueuesKept
          BY <1>8, <3>2 DEF QueuesKept, Documents
    <3> QED BY <1>5, <2>2, <3>1, <3>2
  <2>3. ASSUME NEW d \in Devices, Claims(d, u)'
        PROVE  ~Creates(outbox'[d][u])
    <3>1. ~Creates(outbox[d][u])
          BY <1>2, <1>3, <1>8, <2>3 DEF ClaimsChange, OneCreation, Makes
    <3>2. CreateQueued(dev) => d # dev
          BY <2>3 DEF CreateQueued, Claims
    <3> QED BY <1>2, <3>1, <3>2 DEF QueueChange
  <2>4. ASSUME NEW d \in Devices, NEW e \in Devices, Makes(d, u)', Makes(e, u)'
        PROVE  d = e
        BY <1>5, <1>8, <2>4 DEF OneCreation
  <2> QED BY <2>1, <2>2, <2>3, <2>4
<1>10. OneCreation'
       BY <1>4, <1>9 DEF OneCreation
<1>11. NoneForgotten'
  <2> SUFFICES ASSUME NEW u \in accounts' \ (cut' \cup refused'), u \notin Documents'
               PROVE  \E d \in Devices : Makes(d, u)'
      BY DEF NoneForgotten
  <2>1. u \in Users
        BY StepTypeOK DEF TypeOK
  <2>2. CASE u \in accounts
        BY <1>2, <1>6, <2>1, <2>2 DEF NoneForgotten, DocumentsChange, Answers
  <2>3. CASE u \notin accounts
        BY <1>2, <2>1, <2>3 DEF ClaimsChange, Makes
  <2> QED BY <2>2, <2>3
<1> QED BY <1>4, <1>10, <1>11

(* Who sees a profile has its document, or waits with its creation; and    *)
(* its link leads to an avatar.                                            *)
LEMMA SeenIsReady ==
  ASSUME AccountsInv, NEW dev \in Devices, NEW u \in Users, Seen(dev, u).there
  PROVE  Ready(dev, u) /\ Stored(Seen(dev, u).link)
<1> DEFINE s == session[dev]  q == outbox[dev][s]
<1>0. TypeOK /\ OneCreation /\ UpdatesCovered /\ LinksStored
      BY DEF AccountsInv
<1>1. CASE Seen(dev, u) = profiles[u]
      BY <1>0, <1>1 DEF Ready, Answers, Documents, LinksStored
<1>2. ASSUME s \in Users, NEW i \in 1..Len(q), q[i].uid = u, Seen(dev, u).link = q[i].link
      PROVE  Ready(dev, u) /\ Stored(Seen(dev, u).link)
  <2>1. /\ q \in Seq(Writes) /\ CreatesOnce(q, s) /\ Finds(q, s, Answers) /\ Leads(q, avatars)
        /\ Len(q) \in Nat
        BY <1>0, <1>2, LenProperties DEF TypeOK, OneCreation, UpdatesCovered, LinksStored
  <2>2. ASSUME Creation(q, i)
        PROVE  Ready(dev, u)
        BY <1>2, <2>1, <2>2 DEF CreatesOnce, Creates, Ready
  <2>3. ASSUME q[i].uid = s, \E j \in 1..(i - 1) : Creation(q, j)
        PROVE  Ready(dev, u)
    <3>1. Creates(q)
          BY <1>2, <2>1, <2>3 DEF Creates
    <3> QED BY <1>2, <2>3, <3>1 DEF Ready
  <2>4. ASSUME q[i].uid \in Answers
        PROVE  Ready(dev, u)
        BY <1>2, <2>4 DEF Ready
  <2>5. Stored(q[i].link)
        BY <1>2, <2>1 DEF Leads, Stored
  <2> QED BY <1>2, <2>1, <2>2, <2>3, <2>4, <2>5 DEF Finds
<1> QED BY <1>0, <1>1, <1>2, SeenIsTyped

\* How a step treats the user shown, the copy in the editor and the upload.
SessionChange(dev) == \/ session'[dev] = session[dev] \/ session[dev] = Nobody \/ session[dev] \in refused
                      \/ shown'[dev] = NoUser /\ edited'[dev] = NoCopy /\ upload'[dev] = "no"
ShownChange(dev) == \/ shown'[dev] \in {shown[dev], NoUser}
                    \/ \E u \in due[dev] : /\ Seen(dev, u).there
                                           /\ shown'[dev] = [uid |-> u, link |-> Seen(dev, u).link]
EditedChange(dev) ==
  \/ edited'[dev] \in {edited[dev], NoCopy}
  \/ shown[dev] # NoUser /\ edited'[dev] = CopyOf(shown[dev])
  \/ /\ edited[dev] # NoCopy /\ edited'[dev].uid = edited[dev].uid
     /\ \/ edited'[dev].link \in {edited[dev].link, Nobody}
        \/ edited'[dev].link = session[dev] /\ upload[dev] = "linking"
UploadChange(dev) ==
  upload'[dev] = "linking" => session'[dev] = session[dev] /\ (upload[dev] = "linking" \/ session[dev] \in avatars')
CopiesChange(dev) == SessionChange(dev) /\ ShownChange(dev) /\ EditedChange(dev) /\ UploadChange(dev)

(* A device that steps changes what it shows, edits and uploads in few     *)
(* ways, and the session of a user with a document only with both empty.   *)
LEMMA CopiesStep ==
  ASSUME TypeOK, Sessions, NEW dev \in Devices, Steps(dev)
  PROVE  CopiesChange(dev)
<1> USE DEF TypeOK, CopiesChange, Goes, cloud, keychain, profileVC, editVC, history
<1> USE DEF SessionChange, ShownChange, EditedChange, UploadChange
<1>0. SessionFits(dev)
      BY DEF Sessions
<1>1. ASSUME NEW u \in Users, SignUpTapped(dev, u) \/ LogInTapped(dev, u)
      PROVE  CopiesChange(dev)
      BY <1>1 DEF SignUpTapped, LogInTapped
<1>2. ASSUME EmailChecked(dev) \/ AccountRefused(dev) \/ Reloaded(dev) \/ UserSaved(dev)
      PROVE  CopiesChange(dev)
      BY <1>2 DEF EmailChecked, AccountRefused, Reloaded, UserSaved
<1>3. ASSUME AccountCreated(dev) \/ SignedIn(dev)
      PROVE  CopiesChange(dev)
      BY <1>0, <1>3 DEF AccountCreated, SignedIn, SessionFits, Inside
<1>4. ASSUME ProfileAppears(dev) \/ BackTapped(dev)
      PROVE  CopiesChange(dev)
      BY <1>4 DEF ProfileAppears, BackTapped
<1>5. ASSUME LogoutTapped(dev)
      PROVE  CopiesChange(dev)
      BY <1>0, <1>5 DEF LogoutTapped, Free, SessionFits
<1>6. ASSUME EditTapped(dev)
      PROVE  CopiesChange(dev)
      BY <1>6 DEF EditTapped, CopyOf
<1>7. ASSUME AvatarPicked(dev)
      PROVE  CopiesChange(dev)
      BY <1>7 DEF AvatarPicked, Copy
<1>8. ASSUME NEW link, UpdateUser(dev, link), edited[dev] # NoCopy,
             link \in {edited[dev].link, Nobody} \/ (link = session[dev] /\ upload[dev] = "linking")
      PROVE  EditedChange(dev)
      BY <1>8 DEF UpdateUser, Copy
<1>9. ASSUME SaveTapped(dev)
      PROVE  CopiesChange(dev)
      BY <1>8, <1>9 DEF SaveTapped
<1>10. ASSUME AvatarPut(dev)
       PROVE  CopiesChange(dev)
       BY <1>0, <1>8, <1>10 DEF AvatarPut, SessionFits
<1>11. ASSUME AvatarLinked(dev)
       PROVE  CopiesChange(dev)
       BY <1>0, <1>8, <1>11 DEF AvatarLinked, SessionFits
<1>12. ASSUME Heard(dev)
       PROVE  CopiesChange(dev)
       BY <1>12 DEF Heard, ListenerFires
<1>13. ASSUME WriteReachesServer(dev)
       PROVE  CopiesChange(dev)
       BY <1>13 DEF WriteReachesServer, Answered
<1>14. ASSUME Relaunched(dev) \/ Reinstalled(dev)
       PROVE  CopiesChange(dev)
       BY <1>14 DEF Relaunched, Reinstalled, Launch
<1> QED BY <1>1, <1>2, <1>3, <1>4, <1>5, <1>6, <1>7, <1>9, <1>10, <1>11, <1>12, <1>13, <1>14
        DEF Steps, Tapped, ComingIn, SigningUp, Uploading

(* Who is ready to update a document stays ready, while the session and    *)
(* the queues are kept.                                                    *)
LEMMA ReadyStays ==
  ASSUME AccountsInv, NEW dev \in Devices, Steps(dev), NEW d \in Devices, NEW v, Ready(d, v),
         session'[d] = session[d] \/ session[d] = Nobody \/ session[d] \in refused, ~(d = dev /\ QueuesLost(dev))
  PROVE  Ready(d, v)'
<1>1. Answers \subseteq Answers'
      BY AnswersGrow
<1>2. CASE v \in Answers
      BY <1>1, <1>2 DEF Ready
<1>3. CASE v \in Users \ refused /\ session[d] = v /\ Creates(outbox[d][v])
  <2>1. session'[d] = v
        BY <1>3, AccountsAssumption
  <2>2. Creates(outbox'[d][v]) \/ v \in Answers'
        BY <1>3, QueuesStep DEF QueueChange
  <2> QED BY <1>3, <2>1, <2>2 DEF Ready
<1> QED BY <1>2, <1>3 DEF Ready, Answers

\* The user that d shows and the copy it edits may be saved.
CopiesFit(d) == /\ shown[d] # NoUser => Ready(d, shown[d].uid)
                /\ edited[d] # NoCopy => Ready(d, edited[d].uid)

(* Users shown and copies edited stay ready to be saved.                   *)
LEMMA StepCopiesCovered == AccountsInv /\ [Next]_vars => CopiesCovered'
<1> SUFFICES ASSUME AccountsInv, [Next]_vars
             PROVE  CopiesCovered'
    OBVIOUS
<1>1. CASE UNCHANGED vars
      BY <1>1 DEF vars, cloud, keychain, profileVC, editVC, history, AccountsInv, CopiesCovered, Ready,
                  Answers, Documents
<1>2. ASSUME NEW dev \in Devices, Steps(dev), NEW d \in Devices
      PROVE  CopiesFit(d)'
  <2>1. TypeOK /\ Sessions /\ CopiesFit(d)
        BY DEF AccountsInv, CopiesCovered, CopiesFit
  <2>2. CASE d # dev
    <3>1. SameDevice(d)
          BY <1>2, <2>1, <2>2, OthersStay
    <3>2. \A v : Ready(d, v) => Ready(d, v)'
          BY <1>2, <2>2, <3>1, ReadyStays DEF SameDevice
    <3> QED BY <2>1, <3>1, <3>2 DEF SameDevice, CopiesFit, Ready
  <2>3. CASE d = dev /\ QueuesLost(dev)
        BY <2>3 DEF QueuesLost, CopiesFit
  <2>4. CASE d = dev /\ ~QueuesLost(dev)
    <3>1. SessionChange(dev) /\ ShownChange(dev) /\ EditedChange(dev)
          BY <1>2, <2>1, CopiesStep DEF CopiesChange
    <3>2. CASE session'[dev] = session[dev] \/ session[dev] = Nobody \/ session[dev] \in refused
      <4>1. \A v : Ready(dev, v) => Ready(dev, v)'
            BY <1>2, <2>4, <3>2, ReadyStays
      <4>2. shown'[dev] # NoUser => Ready(dev, shown'[dev].uid)
        <5>1. \A u \in due[dev] : Seen(dev, u).there => Ready(dev, u)
              BY <1>2, <2>1, SeenIsReady DEF TypeOK
        <5>2. CASE shown'[dev] \in {shown[dev], NoUser}
              BY <2>1, <2>4, <5>2 DEF CopiesFit
        <5>3. CASE \E u \in due[dev] : /\ Seen(dev, u).there
                                       /\ shown'[dev] = [uid |-> u, link |-> Seen(dev, u).link]
              BY <5>1, <5>3
        <5> QED BY <3>1, <5>2, <5>3 DEF ShownChange
      <4>3. edited'[dev] # NoCopy => Ready(dev, edited'[dev].uid)
            BY <2>1, <2>4, <3>1 DEF EditedChange, CopiesFit, CopyOf
      <4> QED BY <2>4, <4>1, <4>2, <4>3 DEF CopiesFit, Ready
    <3>3. CASE shown'[dev] = NoUser /\ edited'[dev] = NoCopy
          BY <2>4, <3>3 DEF CopiesFit
    <3> QED BY <3>1, <3>2, <3>3 DEF SessionChange
  <2> QED BY <2>2, <2>3, <2>4
<1> QED BY <1>1, <1>2 DEF Next, CopiesCovered, CopiesFit

\* The links that d holds lead to avatars.
LinksFit(d) == /\ Stored(shown[d].link) /\ Stored(edited[d].link)
               /\ upload[d] = "linking" => Stored(session[d])

(* Every link that is shown, edited or about to be written was stored.     *)
LEMMA StepLinksFit ==
  ASSUME AccountsInv, NEW dev \in Devices, Steps(dev), NEW d \in Devices
  PROVE  LinksFit(d)'
<1>1. TypeOK /\ Sessions /\ LinksFit(d)
      BY DEF AccountsInv, LinksStored, LinksFit
<1>2. avatars \subseteq avatars'
      BY CloudGrows
<1>3. \A link : Stored(link) => Stored(link)'
      BY <1>2 DEF Stored
<1>4. CASE d # dev
  <2>1. SameDevice(d)
        BY <1>1, <1>4, OthersStay
  <2> QED BY <1>1, <1>2, <2>1 DEF LinksFit, SameDevice, Stored
<1>5. CASE d = dev
  <2>1. ShownChange(dev) /\ EditedChange(dev) /\ UploadChange(dev)
        BY <1>1, CopiesStep DEF CopiesChange
  <2>2. Stored(NoUser.link) /\ Stored(NoCopy.link)
        BY DEF Stored, NoUser, NoCopy
  <2>3. Stored(shown'[dev].link)
    <3>1. \A u \in due[dev] : Seen(dev, u).there => Stored(Seen(dev, u).link)
          BY <1>1, SeenIsReady DEF TypeOK
    <3>2. CASE shown'[dev] \in {shown[dev], NoUser}
          BY <1>1, <1>5, <2>2, <3>2 DEF LinksFit
    <3>3. CASE \E u \in due[dev] : /\ Seen(dev, u).there
                                   /\ shown'[dev] = [uid |-> u, link |-> Seen(dev, u).link]
          BY <3>1, <3>3
    <3> QED BY <2>1, <3>2, <3>3 DEF ShownChange
  <2>4. Stored(edited'[dev].link)
    <3>1. Stored(shown[dev].link) /\ Stored(edited[dev].link) /\ Stored(Nobody)
          /\ (upload[dev] = "linking" => Stored(session[dev]))
          BY <1>1, <1>5 DEF LinksFit, Stored
    <3>2. CopyOf(shown[dev]).link = shown[dev].link
          BY DEF CopyOf
    <3> QED BY <2>1, <2>2, <3>1, <3>2 DEF EditedChange
  <2>5. upload'[dev] = "linking" => session'[dev] \in avatars' \cup {Nobody}
        BY <1>1, <1>2, <1>5, <2>1 DEF UploadChange, LinksFit, Stored
  <2> QED BY <1>2, <1>5, <2>3, <2>4, <2>5 DEF LinksFit, Stored
<1> QED BY <1>4, <1>5

(* So are the links in the queues, and those in the documents.             *)
LEMMA StepLinksQueued ==
  ASSUME AccountsInv, NEW dev \in Devices, Steps(dev), NEW d \in Devices, NEW u \in Users
  PROVE  Leads(outbox'[d][u], avatars') /\ profiles'[u].link \in avatars' \cup {Nobody}
<1> DEFINE q == outbox[d][u]
<1>1. /\ TypeOK /\ Sessions /\ LinksFit(dev) /\ CopiesCovered /\ q \in Seq(Writes)
      /\ profiles[u].link \in avatars' \cup {Nobody}
      /\ \A e \in Devices, v \in Users : Leads(outbox[e][v], avatars')
      BY CloudGrows DEF AccountsInv, LinksStored, LinksFit, TypeOK, Leads, Stored
<1>2. CASE QueuesKept
      BY <1>1, <1>2 DEF QueuesKept
<1>3. CASE CreateQueued(dev)
  <2>1. CASE d = dev /\ u = email[dev]
    <3>1. outbox'[d][u] = Append(q, NewUser(u)) /\ profiles' = profiles
          BY <1>1, <1>3, <2>1 DEF CreateQueued, Appended, TypeOK
    <3>2. NewUser(u) \in Writes /\ NewUser(u).link \in avatars' \cup {Nobody} /\ Leads(q, avatars')
          BY <1>1, CreationIsTyped
    <3>3. Leads(Append(q, NewUser(u)), avatars')
          BY <1>1, <3>2, Appending
    <3> QED BY <1>1, <3>1, <3>3
  <2>2. CASE ~(d = dev /\ u = email[dev])
    <3>1. outbox'[d][u] = q /\ profiles' = profiles
          BY <1>1, <1>3, <2>2 DEF CreateQueued, Appended, TypeOK
    <3> QED BY <1>1, <3>1
  <2> QED BY <2>1, <2>2
<1>4. CASE UpdateQueued(dev)
  <2>1. PICK link \in Links : /\ \/ link \in {edited[dev].link, Nobody}
                                 \/ link = session[dev] /\ upload[dev] = "linking"
                              /\ Appended(dev, session[dev], Update(dev, link))
        BY <1>4 DEF UpdateQueued
  <2>2. link \in avatars' \cup {Nobody}
        BY <1>1, <2>1, CloudGrows DEF LinksFit, Stored
  <2>3. edited[dev].uid \in Users
        BY <1>1, <1>4 DEF UpdateQueued, CopiesCovered, Ready, Answers, Documents, TypeOK
  <2>4. Update(dev, link) \in Writes /\ Update(dev, link).link = link
        BY <1>1, <2>3, UpdateIsTyped
  <2>5. CASE d = dev /\ u = session[dev]
    <3>1. outbox'[d][u] = Append(q, Update(dev, link)) /\ profiles' = profiles
          BY <1>1, <2>1, <2>5 DEF Appended, TypeOK
    <3>2. Leads(q, avatars') /\ q \in Seq(Writes)
          BY <1>1
    <3> DEFINE w == Update(dev, link)  stored == avatars'
    <3>4. w \in Writes /\ w.link \in stored \cup {Nobody}
          BY <2>2, <2>4
    <3> HIDE DEF w, stored
    <3>5. Leads(q, stored) => Leads(Append(q, w), stored)
          BY <3>2, <3>4, Appending
    <3>6. Leads(Append(q, w), stored)
          BY <3>2, <3>5 DEF stored
    <3> QED BY <1>1, <3>1, <3>6 DEF w, stored
  <2>6. CASE ~(d = dev /\ u = session[dev])
    <3>1. outbox'[d][u] = q /\ profiles' = profiles
          BY <1>1, <2>1, <2>6 DEF Appended, TypeOK
    <3> QED BY <1>1, <3>1
  <2> QED BY <2>5, <2>6
<1>5. CASE HeadSent(dev)
  <2> DEFINE s == session[dev]  r == outbox[dev][s]
  <2>1. s \in Users /\ r # << >> /\ r \in Seq(Writes) /\ Leads(r, avatars')
        BY <1>1, <1>5 DEF HeadSent, TypeOK, Links
  <2>2. Leads(Tail(r), avatars') /\ Head(r).link \in avatars' \cup {Nobody}
        BY <2>1, Sending
  <2>3. outbox'[d][u] = Tail(r) \/ outbox'[d][u] = q
        BY <1>1, <1>5 DEF HeadSent, TypeOK
  <2>4. profiles'[u].link = profiles[u].link \/ profiles'[u].link = Head(r).link
    <3>1. Taken(Head(r)) \/ profiles' = profiles
          BY <1>5 DEF HeadSent, Refused
    <3> DEFINE w == Head(r)
    <3>2. CASE Taken(w)
      <4> DEFINE p == IF w.kind = "create" \/ profiles[w.uid].there
                     THEN [there |-> TRUE, link |-> w.link] ELSE profiles[w.uid]
      <4>1. p.link \in {w.link, profiles[w.uid].link}
            OBVIOUS
      <4>2. profiles' = [profiles EXCEPT ![w.uid] = p]
            BY <3>2 DEF Taken
      <4> HIDE DEF w, p
      <4>3. profiles'[u] = profiles[u] \/ (u = w.uid /\ profiles'[u] = p)
            BY <1>1, <4>2 DEF TypeOK
      <4>4. profiles'[u].link \in {profiles[u].link, w.link}
            BY <4>1, <4>3
      <4> QED BY <4>4 DEF w
    <3> QED BY <3>1, <3>2
  <2> HIDE DEF r, s
  <2> QED BY <1>1, <2>2, <2>3, <2>4
<1>6. CASE QueuesLost(dev)
  <2>1. profiles' = profiles /\ (outbox'[d][u] = << >> \/ outbox'[d][u] = q)
        BY <1>1, <1>6 DEF QueuesLost, TypeOK
  <2>2. Leads(<< >>, avatars')
        BY DEF Leads
  <2> QED BY <1>1, <2>1, <2>2
<1> QED BY <1>1, <1>2, <1>3, <1>4, <1>5, <1>6, QueueEffect

(* So after a step every link still leads to an avatar.                    *)
LEMMA StepLinksStored == AccountsInv /\ [Next]_vars => LinksStored'
<1> SUFFICES ASSUME AccountsInv, [Next]_vars
             PROVE  LinksStored'
    OBVIOUS
<1>1. CASE UNCHANGED vars
      BY <1>1 DEF vars, cloud, keychain, profileVC, editVC, AccountsInv, LinksStored, Stored, Leads
<1>2. ASSUME NEW dev \in Devices, Steps(dev)
      PROVE  LinksStored'
  <2>1. \A u \in Users : Stored(profiles[u].link)'
    <3>1. Devices # {} /\ \A u \in Users : profiles'[u].link \in avatars' \cup {Nobody}
          BY <1>2, StepLinksQueued
    <3> QED BY <3>1 DEF Stored
  <2>2. \A d \in Devices : LinksFit(d)' /\ \A u \in Users : Leads(outbox'[d][u], avatars')
        BY <1>2, StepLinksFit, StepLinksQueued
  <2> QED BY <2>1, <2>2 DEF LinksStored, LinksFit
<1> QED BY <1>1, <1>2 DEF Next

(* The inductive invariant holds in every reachable state, for any devices,*)
(* users and bounds.                                                       *)
THEOREM AccountsInvariant == Spec => []AccountsInv
<1>1. Init => AccountsInv
      BY InitAccountsInv
<1>2. AccountsInv /\ [Next]_vars => AccountsInv'
      BY StepTypeOK, StepSessions, StepOneCreation, StepCopiesCovered, StepLinksStored DEF AccountsInv
<1> QED BY <1>1, <1>2, PTL DEF Spec

(* Who came in stays in: no kill of the app and no flag left by an earlier *)
(* logout signs out a device that finished its log-in or sign-up           *)
(* (AppDelegate.setupLogOut, LoginVC, SignUpVC).                           *)
THEOREM SessionIsKept == Spec => []SessionKept
<1>1. AccountsInv => SessionKept
      BY DEF AccountsInv, TypeOK, Sessions, SessionFits, SessionKept
<1> QED BY <1>1, AccountsInvariant, PTL

(* A sign-up's setData never meets a document (UserModel.saveUser).        *)
THEOREM ProfilesAreNew == Spec => []ProfileIsNew
<1>1. AccountsInv => ProfileIsNew
      BY DEF AccountsInv, OneCreation, Makes, Creates, Creation, Documents, ProfileIsNew
<1> QED BY <1>1, AccountsInvariant, PTL

(* updateUser never meets a document that is missing, unless the server    *)
(* refused to create it.                                                   *)
THEOREM UpdatesFindProfiles == Spec => []UpdateFindsProfile
<1>1. AccountsInv => UpdateFindsProfile
  <2> SUFFICES ASSUME AccountsInv, NEW dev \in Devices, Waiting(dev) # << >>,
                      Head(Waiting(dev)).kind = "update"
               PROVE  \/ profiles[Head(Waiting(dev)).uid].there
                      \/ Head(Waiting(dev)).uid \in refused
      BY DEF UpdateFindsProfile
  <2> DEFINE s == session[dev]  q == outbox[dev][s]
  <2>1. s \in Users /\ Waiting(dev) = q
        BY DEF Waiting, AccountsInv, TypeOK, Links
  <2>2. q \in Seq(Writes) /\ Finds(q, s, Answers)
        BY <2>1 DEF AccountsInv, TypeOK, UpdatesCovered
  <2>3. Head(q).uid \in Answers
        BY <2>1, <2>2, Sending
  <2> QED BY <2>1, <2>3 DEF Answers, Documents
<1> QED BY <1>1, AccountsInvariant, PTL

(* A profile's link leads to an avatar that was stored, whatever uploads   *)
(* failed and whoever edited it (FirebaseStorage.uploadAvatar).            *)
THEOREM LinksLeadToAvatars == Spec => []AvatarsAreThere
<1>1. AccountsInv => AvatarsAreThere
      BY DEF AccountsInv, LinksStored, Stored, AvatarsAreThere
<1> QED BY <1>1, AccountsInvariant, PTL

(* When all is quiet, an account without a document is one whose sign-up   *)
(* failed, was cut short or was refused its document                       *)
(* (UserModel.createAccount, saveUser).                                    *)
THEOREM AccountsGetProfiles == Spec => []AccountsHaveProfiles
<1>1. AccountsInv => AccountsHaveProfiles
  <2> SUFFICES ASSUME AccountsInv, Quiet, NEW u \in accounts \ (cut \cup refused)
               PROVE  profiles[u].there
      BY DEF AccountsHaveProfiles
  <2>1. u \in Users
        BY DEF AccountsInv, TypeOK
  <2>2. \A dev \in Devices : outbox[dev][u] = << >> /\ screen[dev] # "created"
        BY <2>1 DEF Quiet
  <2>3. ~Creates(<< >>)
        BY DEF Creates
  <2>4. \A dev \in Devices : ~Makes(dev, u)
        BY <2>2, <2>3 DEF Makes, Claims
  <2> QED BY <2>4 DEF AccountsInv, NoneForgotten, Documents
<1> QED BY <1>1, AccountsInvariant, PTL
=============================================================================
