---------------------------- MODULE UsersProofs ----------------------------
(***************************************************************************)
(* Proofs that nobody but the last admin can leave the whitelist without   *)
(* an admin, for any chats, and any saves and reads that fail, and that    *)
(* the buffer of the requests keeps its size and lists a chat once; that a *)
(* reset loses nothing saved, that preferences are kept, and that the      *)
(* commands are served as they are documented.                             *)
(*                                                                         *)
(* A save stores the list that is in RAM, so that the file is at any time  *)
(* a list that RAM once held; of the handlers only handleRemoveUser takes  *)
(* an admin away, and its sender is an admin who stays unless it is the    *)
(* same one.                                                               *)
(***************************************************************************)
EXTENDS Users, SequenceTheorems, TLAPS

Lists == users \in [User -> Level] /\ file \in [User -> Level]

Guarded(list) == list = Nobody \/ \E u \in User : list[u] = "admin"

IInv == Lists /\ (~resigned => Guarded(users) /\ Guarded(file))

\* What saveUsers and the save of a username may leave in the file.
LEMMA SavedFile ==
  ASSUME NEW list, Saved(list)
  PROVE  file' \in {list, users, file}
  BY DEF Saved, AfterUsername, saveUsers

LEMMA NotSavedFile ==
  ASSUME NotSaved
  PROVE  file' \in {users, file}
  BY DEF NotSaved, AfterUsername, saveUsers

\* A list that has the onboarding chat as its admin is guarded.
LEMMA OnboardedGuarded ==
  /\ ensureOnboardingAdmin(Nobody) \in [User -> Level]
  /\ Guarded(ensureOnboardingAdmin(Nobody))
  BY UsersAssumption DEF ensureOnboardingAdmin, Nobody, Level, Guarded

LEMMA NobodyGuarded == Nobody \in [User -> Level] /\ Guarded(Nobody)
  BY DEF Nobody, Level, Guarded

LEMMA InitIInv == Init => IInv
  <1> SUFFICES ASSUME Init PROVE IInv
    OBVIOUS
  <1>1. file \in {users, Nobody}
    BY DEF Init, saveUsers
  <1> QED
    BY <1>1, OnboardedGuarded, NobodyGuarded DEF Init, IInv, Lists

\* Each action keeps both lists guarded.
LEMMA NextIInv == IInv /\ [Next]_vars => IInv'
  <1> SUFFICES ASSUME IInv, [Next]_vars PROVE IInv'
    OBVIOUS
  <1> USE DEF IInv, Lists
  <1>1. ASSUME NEW s \in User, NEW t \in User, handleAddUser(s, t)
        PROVE  IInv'
    <2>1. users' \in [User -> Level] /\ users'[s] = "admin"
      BY <1>1 DEF handleAddUser, isAdmin, Level
    <2>2. file' \in {users', users, file} /\ resigned' = resigned
      BY <1>1, SavedFile DEF handleAddUser
    <2> QED
      BY <2>1, <2>2 DEF Guarded
  <1>2. ASSUME NEW s \in User, NEW t \in User, handleRemoveUser(s, t)
        PROVE  IInv'
    <2>1. users' \in [User -> Level] /\ users' = [users EXCEPT ![t] = "none"]
      BY <1>2 DEF handleRemoveUser, Level
    <2>2. file' \in {users', users, file}
      BY <1>2, SavedFile DEF handleRemoveUser
    <2>3. /\ users[s] = "admin"
          /\ ~resigned' => ~resigned /\ ~(s = t /\ Admins(users) = {s} /\ users' # Nobody)
      BY <1>2 DEF handleRemoveUser, isAdmin
    <2>4. ~resigned' => Guarded(users')
      <3>1. CASE s # t
        BY <2>1, <2>3, <3>1 DEF Guarded
      <3>2. CASE s = t /\ Admins(users) = {s}
        BY <2>3, <3>2 DEF Guarded
      <3>3. CASE s = t /\ Admins(users) # {s}
        <4>1. PICK u \in User : u # s /\ users[u] = "admin"
          BY <2>3, <3>3 DEF Admins
        <4>2. users'[u] = "admin"
          BY <2>1, <3>3, <4>1
        <4> QED
          BY <4>2 DEF Guarded
      <3> QED
        BY <3>1, <3>2, <3>3
    <2> QED
      BY <2>1, <2>2, <2>3, <2>4
  <1>3. ASSUME NEW s \in User, NEW t \in User, handlePromoteUser(s, t)
        PROVE  IInv'
    <2>1. users' \in [User -> Level] /\ users'[t] = "admin"
      BY <1>3 DEF handlePromoteUser, Level
    <2>2. file' \in {users', users, file} /\ resigned' = resigned
      BY <1>3, SavedFile DEF handlePromoteUser
    <2> QED
      BY <2>1, <2>2 DEF Guarded
  <1>4. ASSUME NEW s \in User, handleResetUsers(s)
        PROVE  IInv'
    <2>1. users' = Nobody /\ file' \in {users', users, file} /\ resigned' = resigned
      BY <1>4, SavedFile DEF handleResetUsers
    <2> QED
      BY <2>1, NobodyGuarded DEF Guarded
  <1>5. ASSUME NotSaved, UNCHANGED <<users, resigned>>
        PROVE  IInv'
    BY <1>5, NotSavedFile DEF Guarded
  <1>6. ASSUME UNCHANGED <<users, file, resigned>>
        PROVE  IInv'
    BY <1>6 DEF Guarded
  <1>7. ASSUME Boot
        PROVE  IInv'
    <2>1. /\ resigned' = resigned
          /\ \/ users' = ensureOnboardingAdmin(Nobody) /\ file' \in {users', file}
             \/ users' = file /\ file' = file
      BY <1>7 DEF Boot, Loaded, saveUsers
    <2> QED
      BY <2>1, OnboardedGuarded DEF Guarded
  <1>8. ASSUME NEW s \in User,
               \/ OtherCommand(s)
               \/ \E t \in User : handleResetUserConfig(s, t)
               \/ \E v \in Value : modifyUserConfig(s, v)
               \/ \E field \in Setting, v \in Value : handleSetGlobalUint(s, field, v)
        PROVE  IInv'
    BY <1>8, <1>5 DEF OtherCommand, handleResetUserConfig, modifyUserConfig,
                      handleSetGlobalUint
  <1>9. CASE \E s \in User : TurnedAway(s)
    BY <1>9, <1>6 DEF TurnedAway, whitelist
  <1>10. CASE UNCHANGED vars
    BY <1>10, <1>6 DEF vars, whitelist
  <1> QED
    BY <1>1, <1>2, <1>3, <1>4, <1>7, <1>8, <1>9, <1>10 DEF Next

\* Failed saves, misread files, resets of the board and of the whitelist and
\* commands in any order leave no whitelist without an admin, in RAM or in
\* users.json, unless the last admin has removed themself.
THEOREM NeverLockedOutHolds == Spec => []NeverLockedOut
  <1>1. IInv => NeverLockedOut
    BY DEF IInv, Guarded, NeverLockedOut, Admins
  <1> QED
    BY <1>1, InitIInv, NextIInv, PTL DEF Spec

-----------------------------------------------------------------------------
(* The buffer of the requests that were turned away.                       *)

Buffer(q) == q \in Seq(User) /\ Len(q) <= MaxRequests /\ IsInjective(q)

\* Erasing an entry keeps the others, each once.
LEMMA ErasedOnce ==
  ASSUME NEW q, Buffer(q), NEW i \in 1..Len(q)
  PROVE  /\ RemoveAt(q, i) \in Seq(User) /\ Len(RemoveAt(q, i)) = Len(q) - 1
         /\ IsInjective(RemoveAt(q, i))
         /\ \A j \in DOMAIN RemoveAt(q, i) : RemoveAt(q, i)[j] # q[i]
  <1> DEFINE r == RemoveAt(q, i)
  <1>0. q \in Seq(User) /\ Len(q) \in Nat
    BY DEF Buffer
  <1> DEFINE a == SubSeq(q, 1, i - 1)
             b == SubSeq(q, i + 1, Len(q))
  <1>a. /\ a \in Seq(User) /\ Len(a) = i - 1
        /\ \A j \in 1..(i - 1) : a[j] = q[j]
    BY <1>0
  <1>b. /\ b \in Seq(User) /\ Len(b) = Len(q) - i
        /\ \A j \in 1..(Len(q) - i) : b[j] = q[i + j]
    BY <1>0
  <1> HIDE DEF a, b
  <1>c. r = a \o b
    BY DEF RemoveAt, a, b
  <1>1. r \in Seq(User) /\ Len(r) = Len(q) - 1
    <2>1. a \o b \in Seq(User) /\ Len(a \o b) = Len(a) + Len(b)
      BY <1>a, <1>b, ConcatProperties
    <2> QED
      BY <1>0, <1>a, <1>b, <1>c, <2>1
  <1>2. ASSUME NEW j \in 1..(Len(q) - 1)
        PROVE  r[j] = IF j < i THEN q[j] ELSE q[j + 1]
    <2>1. r[j] = IF j <= Len(a) THEN a[j] ELSE b[j - Len(a)]
      BY <1>0, <1>a, <1>b, <1>c, ConcatProperties
    <2>2. CASE j < i
      BY <1>0, <1>a, <2>1, <2>2
    <2>3. CASE ~(j < i)
      <3>1. j - (i - 1) \in 1..(Len(q) - i) /\ i + (j - (i - 1)) = j + 1
        BY <1>0, <2>3
      <3> QED
        BY <1>0, <1>a, <1>b, <2>1, <2>3, <3>1
    <2> QED
      BY <2>2, <2>3
  <1>3. \A j, k \in 1..Len(q) : q[j] = q[k] => j = k
    BY DEF Buffer, IsInjective
  <1>4. DOMAIN r = 1..(Len(q) - 1) /\ Len(q) \in Nat
    BY <1>1 DEF Buffer
  <1>5. ASSUME NEW j \in DOMAIN r, NEW k \in DOMAIN r, r[j] = r[k] PROVE j = k
    BY <1>2, <1>3, <1>4, <1>5
  <1>6. ASSUME NEW j \in DOMAIN r PROVE r[j] # q[i]
    BY <1>2, <1>3, <1>4
  <1> QED
    BY <1>1, <1>5, <1>6 DEF IsInjective

\* So does a new entry for a chat that has none.
LEMMA AppendedOnce ==
  ASSUME NEW q \in Seq(User), IsInjective(q), Len(q) < MaxRequests,
         NEW s \in User, \A i \in DOMAIN q : q[i] # s
  PROVE  Buffer(Append(q, s))
  <1> DEFINE r == Append(q, s)
  <1>1. /\ r \in Seq(User) /\ DOMAIN r = 1..(Len(q) + 1) /\ Len(q) \in Nat
        /\ Len(r) = Len(q) + 1
        /\ DOMAIN q = 1..Len(q)
        /\ \A j \in 1..Len(q) : r[j] = q[j]
        /\ r[Len(q) + 1] = s
    OBVIOUS
  <1>2. ASSUME NEW j \in DOMAIN r, NEW k \in DOMAIN r, r[j] = r[k] PROVE j = k
    <2>1. \A m, n \in DOMAIN q : q[m] = q[n] => m = n
      BY DEF IsInjective
    <2> QED
      BY <1>1, <1>2, <2>1
  <1> QED
    BY <1>1, <1>2, UsersAssumption DEF Buffer, IsInjective

LEMMA RequestRecorded ==
  ASSUME Buffer(requests), NEW s \in User
  PROVE  Buffer(recordUnauthorizedRequest(s))
  <1>1. requests \in Seq(User) /\ Len(requests) <= MaxRequests /\ MaxRequests \in Nat \ {0}
        /\ Len(requests) \in Nat /\ DOMAIN requests = 1..Len(requests)
    BY UsersAssumption DEF Buffer
  <1>2. Contains(requests, s) <=> \E i \in DOMAIN requests : requests[i] = s
    BY <1>1 DEF Contains
  <1>3. CASE Contains(requests, s)
    <2> DEFINE i == CHOOSE i \in DOMAIN requests : requests[i] = s
    <2>1. i \in 1..Len(requests) /\ requests[i] = s
      BY <1>1, <1>2, <1>3
    <2> HIDE DEF i
    <2>2. Buffer(Append(RemoveAt(requests, i), s))
      BY <1>1, <2>1, ErasedOnce, AppendedOnce
    <2> QED
      BY <1>3, <2>2 DEF recordUnauthorizedRequest, i
  <1>4. CASE ~Contains(requests, s) /\ Len(requests) >= MaxRequests
    <2> DEFINE q == Tail(requests)
    <2>1. /\ q \in Seq(User) /\ Len(q) = Len(requests) - 1
          /\ DOMAIN q = 1..(Len(requests) - 1)
          /\ \A j \in 1..(Len(requests) - 1) : q[j] = requests[j + 1]
      BY <1>1, <1>4
    <2>2. IsInjective(q)
      <3>1. \A m, n \in DOMAIN requests : requests[m] = requests[n] => m = n
        BY DEF Buffer, IsInjective
      <3>2. ASSUME NEW j \in DOMAIN q, NEW k \in DOMAIN q, q[j] = q[k] PROVE j = k
        BY <1>1, <2>1, <3>1, <3>2
      <3> QED
        BY <3>2 DEF IsInjective
    <2>3. \A j \in DOMAIN q : q[j] # s
      BY <1>1, <1>2, <1>4, <2>1
    <2>4. Len(q) < MaxRequests
      BY <1>1, <2>1
    <2> HIDE DEF q
    <2>5. Buffer(Append(q, s))
      BY <2>1, <2>2, <2>3, <2>4, AppendedOnce
    <2> QED
      BY <1>4, <2>5 DEF recordUnauthorizedRequest, q
  <1>5. CASE ~Contains(requests, s) /\ Len(requests) < MaxRequests
    <2>1. Buffer(Append(requests, s))
      BY <1>1, <1>2, <1>5, AppendedOnce DEF Buffer
    <2> QED
      BY <1>1, <1>5, <2>1 DEF recordUnauthorizedRequest
  <1> QED
    BY <1>1, <1>3, <1>4, <1>5

-----------------------------------------------------------------------------
(* Type correctness.                                                       *)

\* What the commands and a reset make of the list, the preferences and the
\* settings; the buffer is apart.
Stores ==
  /\ Lists
  /\ prefs \in [User -> Value]
  /\ config \in [Setting -> Value] /\ nvs \in [Persisted -> Value]
  /\ failed \in BOOLEAN /\ misread \in BOOLEAN /\ resigned \in BOOLEAN
  /\ chosen \in [User -> Value] /\ unsaved \subseteq Persisted

LEMMA SaveFlag ==
  ASSUME NEW list, NEW f, NEW save \in saveUsers(list, f)
  PROVE  save.failed \in BOOLEAN
  <1>1. \/ save = [file |-> list, failed |-> FALSE]
        \/ save = [file |-> f, failed |-> TRUE]
    BY DEF saveUsers
  <1>2. save.failed = TRUE \/ save.failed = FALSE
    BY <1>1
  <1> QED
    BY <1>2, Zenon

LEMMA TypeInit == Init => TypeOK
  <1> SUFFICES ASSUME Init PROVE TypeOK
    OBVIOUS
  <1>1. Lists
    <2>1. file \in {users, Nobody}
      BY DEF Init, saveUsers
    <2> QED
      BY <2>1, OnboardedGuarded, NobodyGuarded DEF Init, Lists
  <1>2. failed \in BOOLEAN
    BY SaveFlag DEF Init
  <1>3. requests = << >> /\ Buffer(requests)
    BY UsersAssumption DEF Init, Buffer, IsInjective
  <1> QED
    BY <1>1, <1>2, <1>3, UsersAssumption DEF Init, TypeOK, Lists, Buffer, NoPrefs

LEMMA SavedFlag ==
  ASSUME failed \in BOOLEAN, NEW list
  PROVE  NotSaved \/ Saved(list) => failed' \in BOOLEAN
  <1>1. ASSUME NEW first \in AfterUsername PROVE first.failed \in BOOLEAN
    BY SaveFlag DEF AfterUsername
  <1> QED
    BY <1>1, SaveFlag DEF Saved, NotSaved

LEMMA PrefsSaved ==
  ASSUME Stores, NEW load \in Loaded(prefs, NoPrefs), NEW t \in User, NEW v \in Value,
         NEW save \in saveAllUserConfigs([load.list EXCEPT ![t] = v]),
         prefs' = save.prefs, Chosen(t, v, load, save)
  PROVE  prefs' \in [User -> Value] /\ chosen' \in [User -> Value]
  <1>1. prefs \in [User -> Value] /\ NoPrefs \in [User -> Value] /\ chosen \in [User -> Value]
        /\ Default \in Value
    BY UsersAssumption DEF Stores, NoPrefs
  <1>2. \/ load = [list |-> prefs, ok |-> TRUE]
        \/ load = [list |-> NoPrefs, ok |-> FALSE]
    BY DEF Loaded
  <1>3. load.list \in [User -> Value]
    BY <1>1, <1>2
  <1>4. \/ save = [prefs |-> [load.list EXCEPT ![t] = v], ok |-> TRUE]
        \/ save = [prefs |-> prefs, ok |-> FALSE]
    BY DEF saveAllUserConfigs
  <1>5. prefs' \in [User -> Value]
    BY <1>1, <1>3, <1>4
  <1>6. chosen' \in [User -> Value]
    BY <1>1 DEF Chosen
  <1> QED
    BY <1>5, <1>6

LEMMA StoresNext == Stores /\ [Next]_vars => Stores'
  <1> SUFFICES ASSUME Stores, [Next]_vars PROVE Stores'
    OBVIOUS
  <1>0. /\ users \in [User -> Level] /\ file \in [User -> Level]
        /\ prefs \in [User -> Value] /\ failed \in BOOLEAN
        /\ config \in [Setting -> Value] /\ nvs \in [Persisted -> Value]
        /\ misread \in BOOLEAN /\ resigned \in BOOLEAN
        /\ chosen \in [User -> Value] /\ unsaved \subseteq Persisted
    BY DEF Stores, Lists
  <1>1. ASSUME NEW list \in [User -> Level], Saved(list), users' = list,
               misread' = FALSE, resigned' \in BOOLEAN, UNCHANGED <<preferences, settings>>
        PROVE  Stores'
    <2>1. file' \in {list, users, file} /\ failed' \in BOOLEAN
      BY <1>0, <1>1, SavedFile, SavedFlag
    <2> QED
      BY <1>0, <1>1, <2>1 DEF Stores, Lists, settings, preferences
  <1>2. ASSUME NotSaved, misread' \in BOOLEAN, UNCHANGED <<users, resigned>>,
               prefs' \in [User -> Value], chosen' \in [User -> Value],
               config' \in [Setting -> Value], nvs' \in [Persisted -> Value],
               unsaved' \subseteq Persisted
        PROVE  Stores'
    <2>1. file' \in {users, file} /\ failed' \in BOOLEAN
      BY <1>0, <1>2, NotSavedFile, SavedFlag
    <2> QED
      BY <1>0, <1>2, <2>1 DEF Stores, Lists
  <1>3. ASSUME NEW s \in User, NEW t \in User, handleAddUser(s, t) PROVE Stores'
    BY <1>0, <1>1, <1>3 DEF handleAddUser, Level
  <1>4. ASSUME NEW s \in User, NEW t \in User, handleRemoveUser(s, t) PROVE Stores'
    <2>1. resigned' \in BOOLEAN
      BY <1>0, <1>4 DEF handleRemoveUser
    <2> QED
      BY <1>0, <1>1, <1>4, <2>1 DEF handleRemoveUser, Level
  <1>5. ASSUME NEW s \in User, NEW t \in User, handlePromoteUser(s, t) PROVE Stores'
    BY <1>0, <1>1, <1>5 DEF handlePromoteUser, Level
  <1>6. ASSUME NEW s \in User, handleResetUsers(s) PROVE Stores'
    BY <1>0, <1>1, <1>6, NobodyGuarded DEF handleResetUsers
  <1>7. ASSUME NEW s \in User, OtherCommand(s) PROVE Stores'
    BY <1>0, <1>2, <1>7 DEF OtherCommand, settings, preferences
  <1>8. ASSUME NEW s \in User, NEW v \in Value, modifyUserConfig(s, v) PROVE Stores'
    <2>1. prefs' \in [User -> Value] /\ chosen' \in [User -> Value]
      BY <1>8, PrefsSaved DEF modifyUserConfig, upsertUserConfig
    <2> QED
      BY <1>0, <1>2, <1>8, <2>1 DEF modifyUserConfig, settings
  <1>9. ASSUME NEW s \in User, NEW t \in User, handleResetUserConfig(s, t) PROVE Stores'
    <2>1. prefs' \in [User -> Value] /\ chosen' \in [User -> Value]
      BY <1>0, <1>9, PrefsSaved, UsersAssumption DEF handleResetUserConfig, preferences
    <2> QED
      BY <1>0, <1>2, <1>9, <2>1 DEF handleResetUserConfig, settings
  <1>10. ASSUME NEW s \in User, NEW field \in Setting, NEW v \in Value,
                handleSetGlobalUint(s, field, v)
         PROVE  Stores'
    <2>1. config' \in [Setting -> Value] /\ nvs' \in [Persisted -> Value]
      BY <1>0, <1>10, UsersAssumption DEF handleSetGlobalUint, saveGlobalConfig
    <2>2. unsaved' \subseteq Persisted
      BY <1>10 DEF handleSetGlobalUint
    <2> QED
      BY <1>0, <1>2, <1>10, <2>1, <2>2 DEF handleSetGlobalUint, preferences
  <1>11. ASSUME NEW s \in User, TurnedAway(s) PROVE Stores'
    BY <1>0, <1>11 DEF TurnedAway, whitelist, settings, preferences, Stores, Lists
  <1>12. ASSUME Boot PROVE Stores'
    <2>1. /\ misread' \in BOOLEAN
          /\ users' \in [User -> Level] /\ file' \in [User -> Level]
      BY <1>0, <1>12, OnboardedGuarded, NobodyGuarded DEF Boot, Loaded, saveUsers
    <2>2. failed' \in BOOLEAN
      BY <1>12, SaveFlag DEF Boot
    <2>3. config' \in [Setting -> Value]
      BY <1>0, <1>12, UsersAssumption DEF Boot, loadGlobalConfig
    <2> QED
      BY <1>0, <1>12, <2>1, <2>2, <2>3 DEF Boot, Stores, Lists, preferences
  <1>13. CASE UNCHANGED vars
    BY <1>0, <1>13 DEF vars, whitelist, settings, preferences, Stores, Lists
  <1> QED
    BY <1>3, <1>4, <1>5, <1>6, <1>7, <1>8, <1>9, <1>10, <1>11, <1>12, <1>13 DEF Next

LEMMA BufferNext == Buffer(requests) /\ [Next]_vars => Buffer(requests')
  <1> SUFFICES ASSUME Buffer(requests), [Next]_vars PROVE Buffer(requests')
    OBVIOUS
  <1>1. ASSUME NEW s \in User, TurnedAway(s) PROVE Buffer(requests')
    BY <1>1, RequestRecorded DEF TurnedAway
  <1>2. CASE Boot
    BY <1>2, UsersAssumption DEF Boot, Buffer, IsInjective
  <1>3. CASE UNCHANGED requests
    BY <1>3
  <1> QED
    BY <1>1, <1>2, <1>3 DEF Next, vars, handleAddUser, handleRemoveUser,
       handlePromoteUser, handleResetUsers, handleResetUserConfig,
       handleSetGlobalUint, modifyUserConfig, OtherCommand

\* The lists and settings stay within their types, and the buffer of the
\* requests within its size, with one entry for a chat, whatever is sent.
THEOREM TypeCorrect == Spec => []TypeOK
  <1>1. TypeOK <=> Stores /\ Buffer(requests)
    BY Zenon DEF TypeOK, Stores, Lists, Buffer
  <1>2. TypeOK /\ [Next]_vars => TypeOK'
    <2>1. TypeOK' <=> Stores' /\ Buffer(requests')
      BY Zenon DEF TypeOK, Stores, Lists, Buffer
    <2> QED
      BY <1>1, <2>1, StoresNext, BufferNext
  <1> QED
    BY <1>2, TypeInit, PTL DEF Spec

-----------------------------------------------------------------------------
(* What survives a reset, and whose preferences a command changes.         *)

\* The file holds the list in RAM unless the last save has failed, and so
\* does NVS each of the persisted settings.
Persistent ==
  /\ ~failed => file = users
  /\ \A field \in Persisted \ unsaved : nvs[field] = config[field]

LEMMA SavedList ==
  ASSUME NEW list, Saved(list), ~failed'
  PROVE  file' = list
  BY DEF Saved, saveUsers

LEMMA NotSavedList ==
  ASSUME NotSaved, ~failed', ~failed => file = users
  PROVE  file' = users
  BY DEF NotSaved, AfterUsername, saveUsers

LEMMA PersistentInit == Init => Persistent
  <1> SUFFICES ASSUME Init PROVE Persistent
    OBVIOUS
  <1>1. ~failed => file = users
    BY DEF Init, saveUsers
  <1>2. \A field \in Persisted : nvs[field] = config[field]
    BY UsersAssumption DEF Init
  <1> QED
    BY <1>1, <1>2 DEF Persistent

LEMMA PersistentNext == Stores /\ Persistent /\ [Next]_vars => Persistent'
  <1> SUFFICES ASSUME Stores, Persistent, [Next]_vars PROVE Persistent'
    OBVIOUS
  <1>1. ASSUME Saved(users'), UNCHANGED settings PROVE Persistent'
    BY <1>1, SavedList DEF Persistent, settings
  <1>2. ASSUME NotSaved, UNCHANGED users PROVE ~failed' => file' = users'
    BY <1>2, NotSavedList DEF Persistent
  <1>3. ASSUME NotSaved, UNCHANGED users, UNCHANGED settings PROVE Persistent'
    BY <1>2, <1>3 DEF Persistent, settings
  <1>4. ASSUME NEW s \in User, NEW t \in User,
               \/ handleAddUser(s, t)
               \/ handleRemoveUser(s, t)
               \/ handlePromoteUser(s, t)
               \/ handleResetUsers(s)
        PROVE  Persistent'
    BY <1>1, <1>4 DEF handleAddUser, handleRemoveUser, handlePromoteUser, handleResetUsers
  <1>5. ASSUME NEW s \in User,
               \/ OtherCommand(s)
               \/ \E t \in User : handleResetUserConfig(s, t)
               \/ \E v \in Value : modifyUserConfig(s, v)
        PROVE  Persistent'
    BY <1>3, <1>5 DEF OtherCommand, handleResetUserConfig, modifyUserConfig
  <1>6. ASSUME NEW s \in User, NEW field \in Setting, NEW v \in Value,
               handleSetGlobalUint(s, field, v)
        PROVE  Persistent'
    <2>1. \A f \in Persisted \ unsaved' : nvs'[f] = config'[f]
      BY <1>6 DEF handleSetGlobalUint, saveGlobalConfig
    <2>2. ~failed' => file' = users'
      BY <1>2, <1>6 DEF handleSetGlobalUint
    <2> QED
      BY <2>1, <2>2 DEF Persistent
  <1>7. ASSUME Boot PROVE Persistent'
    <2>1. ~failed' => file' = users'
      BY <1>7 DEF Boot, Loaded, saveUsers
    <2>2. nvs \in [Persisted -> Value] /\ Persisted \subseteq Setting
      BY UsersAssumption DEF Stores
    <2>3. \A field \in Persisted : config'[field] = nvs[field]
      BY <1>7, <2>2 DEF Boot, loadGlobalConfig
    <2>4. \A field \in Persisted : nvs'[field] = config'[field]
      BY <1>7, <2>3 DEF Boot
    <2> QED
      BY <2>1, <2>4 DEF Persistent
  <1>8. CASE \E s \in User : TurnedAway(s)
    BY <1>8 DEF TurnedAway, whitelist, settings, Persistent
  <1>9. CASE UNCHANGED vars
    BY <1>9 DEF vars, whitelist, settings, Persistent
  <1> QED
    BY <1>4, <1>5, <1>6, <1>7, <1>8, <1>9 DEF Next

LEMMA PersistentInvariance == Spec => [](Stores /\ Persistent)
  <1>1. TypeOK => Stores
    BY Zenon DEF TypeOK, Stores, Lists
  <1> QED
    BY <1>1, TypeCorrect, PersistentInit, PersistentNext, PTL DEF Spec

\* What was read is what the file has, unless that is told.
LEMMA LoadedWhole ==
  ASSUME NEW content, NEW nothing, NEW load \in Loaded(content, nothing), load.ok
  PROVE  load.list = content
  <1>1. \/ load = [list |-> content, ok |-> TRUE]
        \/ load = [list |-> nothing, ok |-> FALSE]
    BY DEF Loaded
  <1>2. load # [list |-> nothing, ok |-> FALSE]
    <2>1. load = [list |-> nothing, ok |-> FALSE] => load.ok = FALSE
      OBVIOUS
    <2> QED
      BY <2>1, Zenon
  <1> QED
    BY <1>1, <1>2

\* A reset gives back the whitelist of before it, or its first admin if it
\* was empty, and each persisted setting, whatever commands, saves that
\* failed, for the file or for a key of NVS, and were made good by a later
\* one, and resets came before.
THEOREM ResetLosesNothingHolds == Spec => ResetLosesNothing
  <1> DEFINE Kept ==
        Boot =>
          /\ ~failed /\ ~misread' =>
               users' = IF users = Nobody THEN ensureOnboardingAdmin(Nobody) ELSE users
          /\ \A field \in Persisted \ unsaved : config'[field] = config[field]
  <1>1. Stores /\ Persistent => Kept
    <2> SUFFICES ASSUME Stores, Persistent, Boot PROVE Kept
      OBVIOUS
    <2>1. ASSUME ~failed, ~misread'
          PROVE  users' = IF users = Nobody THEN ensureOnboardingAdmin(Nobody) ELSE users
      <3>1. file = users
        BY <2>1 DEF Persistent
      <3>2. PICK load \in Loaded(file, Nobody) :
              /\ misread' = ~load.ok
              /\ users' = IF load.list = Nobody THEN ensureOnboardingAdmin(Nobody)
                          ELSE load.list
        BY DEF Boot
      <3>3. load.ok
        BY <2>1, <3>2, Zenon
      <3>4. load.list = file
        BY <3>3, LoadedWhole
      <3> QED
        BY <3>1, <3>2, <3>4
    <2>2. ASSUME NEW field \in Persisted \ unsaved PROVE config'[field] = config[field]
      BY UsersAssumption DEF Boot, loadGlobalConfig, Persistent
    <2> QED
      BY <2>1, <2>2
  <1>2. Stores /\ Persistent /\ [Next]_vars => [Kept]_vars
    BY <1>1
  <1> QED
    BY <1>2, PersistentInvariance, PTL DEF Spec, ResetLosesNothing

\* A command about one user rewrites the file with the preferences of all.
\* Whatever commands and resets follow one another, and whichever of their
\* reads and saves fail: a user keeps what the last command about that user
\* has saved, unless somebody else's save has followed a failed read, and
\* then has the default until the next one.
THEOREM PreferencesKeptHolds == Spec => []PreferencesKept
  <1>1. Init => PreferencesKept
    BY DEF Init, PreferencesKept
  <1>2. ASSUME Stores, PreferencesKept, NEW load \in Loaded(prefs, NoPrefs),
               NEW t \in User, NEW v \in Value,
               NEW save \in saveAllUserConfigs([load.list EXCEPT ![t] = v]),
               prefs' = save.prefs, Chosen(t, v, load, save)
        PROVE  PreferencesKept'
    <2> SUFFICES ASSUME NEW u \in User PROVE prefs'[u] = chosen'[u]
      BY DEF PreferencesKept
    <2>1. prefs \in [User -> Value] /\ NoPrefs \in [User -> Value] /\ prefs[u] = chosen[u]
          /\ NoPrefs[u] = Default
      BY <1>2, UsersAssumption DEF Stores, NoPrefs, PreferencesKept
    <2>2. CASE save = [prefs |-> prefs, ok |-> FALSE]
      BY <1>2, <2>1, <2>2 DEF Chosen
    <2>3. CASE save = [prefs |-> [load.list EXCEPT ![t] = v], ok |-> TRUE]
      <3>1. chosen'[u] = IF u = t THEN v ELSE IF load.ok THEN chosen[u] ELSE Default
        BY <1>2, <2>3 DEF Chosen
      <3>2. prefs' = [load.list EXCEPT ![t] = v]
        BY <1>2, <2>3
      <3>3. CASE load = [list |-> prefs, ok |-> TRUE]
        BY <2>1, <3>1, <3>2, <3>3
      <3>4. CASE load = [list |-> NoPrefs, ok |-> FALSE]
        BY <2>1, <3>1, <3>2, <3>4
      <3> QED
        BY <3>3, <3>4 DEF Loaded
    <2> QED
      BY <2>2, <2>3 DEF saveAllUserConfigs
  <1>3. Stores /\ PreferencesKept /\ [Next]_vars => PreferencesKept'
    <2> SUFFICES ASSUME Stores, PreferencesKept, [Next]_vars PROVE PreferencesKept'
      OBVIOUS
    <2>1. ASSUME NEW s \in User, NEW v \in Value, modifyUserConfig(s, v) PROVE PreferencesKept'
      BY <1>2, <2>1 DEF modifyUserConfig, upsertUserConfig
    <2>2. CASE UNCHANGED preferences
      BY <2>2 DEF preferences, PreferencesKept
    <2>3. ASSUME NEW s \in User, NEW t \in User, handleResetUserConfig(s, t)
          PROVE  PreferencesKept'
      BY <1>2, <2>2, <2>3, UsersAssumption DEF handleResetUserConfig
    <2> QED
      BY <2>1, <2>2, <2>3 DEF Next, vars, handleAddUser, handleRemoveUser,
         handlePromoteUser, handleResetUsers, OtherCommand, TurnedAway,
         handleSetGlobalUint, Boot
  <1> QED
    BY <1>1, <1>3, PersistentInvariance, PTL DEF Spec

-----------------------------------------------------------------------------
(* The commands, whatever the text.  A command has one place in the chain  *)
(* and one parser, so that what is reached depends on its own parser only; *)
(* the rest is a comparison, command by command, of what the parsers read  *)
(* with what is documented.                                                *)

\* The link of the chain that has the command.
LinkOf(i, command) ==
  \/ i = 1 /\ command = "/closeevent"
  \/ i = 2 /\ command \in SetInt64
  \/ i = 3 /\ command = "/resetusers"
  \/ i = 4 /\ command = "/notify"
  \/ i = 5 /\ command = "/setalarm"
  \/ i = 6 /\ command = "/setdateformat"
  \/ i = 7 /\ command = "/settimezone"
  \/ i = 8 /\ command \in SetUint
  \/ i = 9 /\ command = "/log"
  \/ i = 10 /\ command = "/dump"
  \/ i = 11 /\ command = "/resetlog"
  \/ i = 12 /\ command = "/resetnotif"
  \/ i = 13 /\ command = "/resetuserconfig"
  \/ i = 14 /\ command \in Bare

LEMMA InPlace ==
  /\ DOMAIN Chain = 1..14
  /\ \A i \in DOMAIN Chain : \A command \in Chain[i] : LinkOf(i, command)
  /\ \A i, j, command : LinkOf(i, command) /\ LinkOf(j, command) => i = j
<1>1. DOMAIN Chain = 1..14
  BY DEF Chain
<1>2. ASSUME NEW i \in 1..14 PROVE \A command \in Chain[i] : LinkOf(i, command)
  <2>1. \/ i = 1 \/ i = 2 \/ i = 3 \/ i = 4 \/ i = 5 \/ i = 6 \/ i = 7 \/ i = 8
        \/ i = 9 \/ i = 10 \/ i = 11 \/ i = 12 \/ i = 13 \/ i = 14
    OBVIOUS
  <2> QED
    BY <2>1 DEF Chain, LinkOf
<1>3. ASSUME NEW i, NEW j, NEW command, LinkOf(i, command), LinkOf(j, command)
      PROVE  i = j
  BY <1>3 DEF LinkOf, SetInt64, SetUint, Bare
<1> QED
  BY <1>1, <1>2, <1>3

LEMMA Reached ==
  ASSUME NEW text, NEW admin \in BOOLEAN
  PROVE  handleIncomingCommand(text, admin)
           = IF /\ text.head \in Command /\ Parses(text.head, text)
                /\ text.head \in AdminOnly => admin
             THEN {text.head} ELSE {}
<1> DEFINE Taken(i) == {command \in Chain[i] : Parses(command, text)}
           reached == {i \in DOMAIN Chain : \A j \in 1..(i - 1) : Taken(j) = {}}
           h == text.head
<1>1. handleIncomingCommand(text, admin)
        = UNION {{command \in Taken(i) : command \in AdminOnly => admin} : i \in reached}
  BY DEF handleIncomingCommand
<1>2. \A command : Parses(command, text) => command = h
  BY DEF Parses
<1>3. CASE h \in Command /\ Parses(h, text)
  <2>1. PICK i \in DOMAIN Chain : h \in Chain[i]
    BY <1>3 DEF Command
  <2>2. \A j \in DOMAIN Chain : h \in Chain[j] => j = i
    BY <2>1, InPlace
  <2>3. DOMAIN Chain = 1..14 /\ i \in 1..14
    BY InPlace, <2>1
  <2>4. Taken(i) = {h} /\ \A j \in DOMAIN Chain : j # i => Taken(j) = {}
    BY <1>2, <1>3, <2>1, <2>2
  <2> HIDE DEF Taken
  <2>5. i \in reached
    BY <2>3, <2>4
  <2>6. \A j \in reached : j \in DOMAIN Chain
    OBVIOUS
  <2> HIDE DEF reached
  <2> QED
    BY <1>1, <1>3, <2>4, <2>5, <2>6
<1>4. CASE ~(h \in Command /\ Parses(h, text))
  <2>1. \A i \in DOMAIN Chain : Taken(i) = {}
    BY <1>2, <1>4 DEF Command
  <2>2. \A j \in reached : j \in DOMAIN Chain
    OBVIOUS
  <2> HIDE DEF reached, Taken
  <2> QED
    BY <1>1, <1>4, <2>1, <2>2
<1> QED
  BY <1>3, <1>4

\* The commands, one by one.
LEMMA Commands ==
  \A command \in Command :
    \/ command \in SetInt64 \/ command \in SetUint \/ command \in Bare
    \/ command \in {"/closeevent", "/resetusers", "/notify", "/setalarm", "/setdateformat",
                    "/settimezone", "/log", "/dump", "/resetlog", "/resetnotif",
                    "/resetuserconfig"}
<1> SUFFICES ASSUME NEW i \in DOMAIN Chain
             PROVE  \A command \in Chain[i] :
                      \/ command \in SetInt64 \/ command \in SetUint \/ command \in Bare
                      \/ command \in {"/closeevent", "/resetusers", "/notify", "/setalarm",
                                      "/setdateformat", "/settimezone", "/log", "/dump",
                                      "/resetlog", "/resetnotif", "/resetuserconfig"}
  BY DEF Command
<1>1. \/ i = 1 \/ i = 2 \/ i = 3 \/ i = 4 \/ i = 5 \/ i = 6 \/ i = 7 \/ i = 8
      \/ i = 9 \/ i = 10 \/ i = 11 \/ i = 12 \/ i = 13 \/ i = 14
  BY InPlace
<1> QED
  BY <1>1 DEF Chain

LEMMA AdminsAlone ==
  /\ \A command \in Command : command \in ForEveryone <=> command \notin AdminOnly
  /\ Destructive \subseteq AdminOnly
BY Commands DEF ForEveryone, AdminOnly, Destructive, SetInt64, SetUint, Bare

\* A text begins with the words that were read.
Begins(form, words) ==
  Len(form) <= Len(words) /\ form = SubSeq(words, 1, Len(form))

LEMMA WordsOf ==
  ASSUME NEW text \in Text
  PROVE  /\ text.words \in Seq(Word)
         /\ DOMAIN text.words = 1..Len(text.words) /\ Len(text.words) \in Nat
         /\ Len(text.words) <= MaxWords
         /\ text.words \in [1..Len(text.words) -> Word]
<1>1. PICK n \in 0..MaxWords : text.words \in [1..n -> Word]
  BY DEF Text
<1>2. n \in Nat /\ n <= MaxWords
  BY <1>1, CommandAssumption
<1>3. text.words \in Seq(Word) /\ Len(text.words) = n
  BY <1>1, <1>2
<1> QED
  BY <1>1, <1>2, <1>3

LEMMA Beginnings ==
  ASSUME NEW words \in Seq(Word)
  PROVE  /\ Begins(<< >>, words)
         /\ Begins(words, words)
         /\ Len(words) >= 1 => Begins(<<words[1]>>, words)
         /\ Len(words) >= 2 => Begins(<<words[1], words[2]>>, words)
<1>1. Len(words) \in Nat
  OBVIOUS
<1>2. Begins(<< >>, words)
  <2>1. SubSeq(words, 1, 0) = << >>
    OBVIOUS
  <2> QED
    BY <1>1, <2>1 DEF Begins
<1>3. Begins(words, words)
  BY <1>1 DEF Begins
<1>4. ASSUME Len(words) >= 1 PROVE Begins(<<words[1]>>, words)
  <2>1. /\ SubSeq(words, 1, 1) \in Seq(Word) /\ Len(SubSeq(words, 1, 1)) = 1
        /\ SubSeq(words, 1, 1)[1] = words[1]
    BY <1>1, <1>4, SubSeqProperties
  <2>2. words[1] \in Word
    BY <1>4
  <2>3. \A i \in 1..1 : SubSeq(words, 1, 1)[i] = <<words[1]>>[i]
    BY <2>1
  <2>4. <<words[1]>> \in Seq(Word) /\ Len(<<words[1]>>) = 1
    BY <2>2
  <2>5. SubSeq(words, 1, 1) = <<words[1]>>
    BY <2>1, <2>3, <2>4, SeqEqual
  <2> QED
    BY <1>1, <1>4, <2>5 DEF Begins
<1>5. ASSUME Len(words) >= 2 PROVE Begins(<<words[1], words[2]>>, words)
  <2>1. /\ SubSeq(words, 1, 2) \in Seq(Word) /\ Len(SubSeq(words, 1, 2)) = 2
        /\ SubSeq(words, 1, 2)[1] = words[1] /\ SubSeq(words, 1, 2)[2] = words[2]
    BY <1>1, <1>5, SubSeqProperties
  <2>2. words[1] \in Word /\ words[2] \in Word
    BY <1>5
  <2>3. \A i \in 1..2 : SubSeq(words, 1, 2)[i] = <<words[1], words[2]>>[i]
    <3>1. \A i \in 1..2 : i = 1 \/ i = 2
      OBVIOUS
    <3>2. <<words[1], words[2]>>[1] = words[1] /\ <<words[1], words[2]>>[2] = words[2]
      OBVIOUS
    <3> QED
      BY <2>1, <3>1, <3>2, Zenon
  <2>4. <<words[1], words[2]>> \in Seq(Word) /\ Len(<<words[1], words[2]>>) = 2
    BY <2>2
  <2>5. SubSeq(words, 1, 2) = <<words[1], words[2]>>
    BY <2>1, <2>3, <2>4, SeqEqual
  <2> QED
    BY <1>1, <1>5, <2>5 DEF Begins
<1> QED
  BY <1>2, <1>3, <1>4, <1>5

\* The parser and the documented forms of each command.
LEMMA ParserOf ==
  ASSUME NEW h, NEW text, text.head = h
  PROVE  /\ h = "/closeevent" => (Parses(h, text) <=> parseCloseEventCommand(text.words))
         /\ h \in SetUint => (Parses(h, text) <=> parseSingleUintCommand(text.words))
         /\ h \in SetInt64 => (Parses(h, text) <=> parseSingleInt64Command(text.words))
         /\ h \in {"/resetusers", "/resetlog"} =>
              (Parses(h, text) <=> parseConfirmed(text.words, text.spare))
         /\ h = "/notify" => (Parses(h, text) <=> parseSwitch(text.words, {"on", "off"}))
         /\ h = "/setalarm" => (Parses(h, text) <=> parseSwitch(text.words, {"ON", "OFF"}))
         /\ h = "/setdateformat" =>
              (Parses(h, text) <=> parseSetDateFormatCommand(text.words, text.spare))
         /\ h = "/settimezone" => (Parses(h, text) <=> parseSetTimezoneCommand(text.words))
         /\ h = "/log" => (Parses(h, text) <=> parseLogCommand(text.words))
         /\ h = "/dump" => (Parses(h, text) <=> parseDumpCommand(text.words))
         /\ h \in {"/resetnotif", "/resetuserconfig"} =>
              (Parses(h, text) <=> parseResetOf(text.words))
         /\ h \in Bare => (Parses(h, text) <=> text.words = << >> /\ text.spare = 0)
BY DEF Parses, SetUint, SetInt64, Bare

LEMMA FormsOf ==
  ASSUME NEW h
  PROVE  /\ h = "/closeevent" => Documented(h) = {<<"id">>, <<"id", "digits">>}
         /\ h \in SetUint => Documented(h) = {<<"digits">>}
         /\ h \in SetInt64 => Documented(h) = {<<"digits">>, <<"negative">>}
         /\ h \in {"/resetusers", "/resetlog"} => Documented(h) = {<<"CONFERMA">>}
         /\ h = "/notify" => Documented(h) = Word \X {"on", "off"}
         /\ h = "/setalarm" => Documented(h) = Word \X {"ON", "OFF"}
         /\ h = "/setdateformat" =>
              Documented(h) = UNION {[1..n -> Word] : n \in 1..MaxWords}
         /\ h = "/settimezone" => Documented(h) = {<<word>> : word \in Word}
         /\ h = "/log" => Documented(h) = {<< >>, <<"digits">>}
         /\ h = "/dump" =>
              Documented(h) = {<<"log">>, <<"notif", "digits">>, <<"notif", "negative">>}
         /\ h \in {"/resetnotif", "/resetuserconfig"} =>
              Documented(h) = {"digits", "negative"} \X {"CONFERMA"}
         /\ h \in Bare => Documented(h) = {<< >>}
BY DEF Documented, SetUint, SetInt64, Bare

\* What is documented is taken, and what is taken begins like something that
\* is documented; where that destroys, it was confirmed.
Confirmed(words) == \E i \in 1..2 \cap DOMAIN words : words[i] = "CONFERMA"

LEMMA Taken ==
  ASSUME NEW h \in Command, NEW text, text.head = h,
         NEW form \in Documented(h), text.words = form, text.spare = 0
  PROVE  Parses(h, text)
<1>1. CASE h = "/closeevent"
  BY <1>1, ParserOf, FormsOf DEF parseCloseEventCommand
<1>2. CASE h \in SetUint
  BY <1>2, ParserOf, FormsOf DEF parseSingleUintCommand
<1>3. CASE h \in SetInt64
  BY <1>3, ParserOf, FormsOf DEF parseSingleInt64Command, isInt64
<1>4. CASE h \in {"/resetusers", "/resetlog"}
  BY <1>4, ParserOf, FormsOf DEF parseConfirmed
<1>5. CASE h = "/notify"
  BY <1>5, ParserOf, FormsOf DEF parseSwitch
<1>6. CASE h = "/setalarm"
  BY <1>6, ParserOf, FormsOf DEF parseSwitch
<1>7. CASE h = "/setdateformat"
  <2>1. PICK n \in 1..MaxWords : form \in [1..n -> Word]
    BY <1>7, FormsOf
  <2>2. DOMAIN form # {}
    BY <2>1, CommandAssumption
  <2> QED
    BY <1>7, <2>2, ParserOf DEF parseSetDateFormatCommand
<1>8. CASE h = "/settimezone"
  BY <1>8, ParserOf, FormsOf DEF parseSetTimezoneCommand
<1>9. CASE h = "/log"
  BY <1>9, ParserOf, FormsOf DEF parseLogCommand
<1>10. CASE h = "/dump"
  BY <1>10, ParserOf, FormsOf DEF parseDumpCommand, isInt64
<1>11. CASE h \in {"/resetnotif", "/resetuserconfig"}
  BY <1>11, ParserOf, FormsOf DEF parseResetOf, isInt64
<1>12. CASE h \in Bare
  BY <1>12, ParserOf, FormsOf
<1> QED
  BY <1>1, <1>2, <1>3, <1>4, <1>5, <1>6, <1>7, <1>8, <1>9, <1>10, <1>11, <1>12, Commands

LEMMA Begun ==
  ASSUME NEW text \in Text, text.head \in Command, Parses(text.head, text)
  PROVE  \/ \E form \in Documented(text.head) : Begins(form, text.words)
         \/ text.head = "/setdateformat" /\ text.spare = 2
<1> DEFINE h == text.head
           words == text.words
<1>w. /\ words \in Seq(Word) /\ Len(words) \in Nat
      /\ Len(words) <= MaxWords /\ words \in [1..Len(words) -> Word]
      /\ words # << >> => Len(words) >= 1
  BY WordsOf
<1>p. \A i \in 1..Len(words) : words[i] \in Word
  BY <1>w
<1>b. /\ Begins(<< >>, words)
      /\ Begins(words, words)
      /\ Len(words) >= 1 => Begins(<<words[1]>>, words)
      /\ Len(words) >= 2 => Begins(<<words[1], words[2]>>, words)
  BY <1>w, Beginnings
<1>h. h \in Command /\ Parses(h, text) /\ text.head = h
  OBVIOUS
<1>s. words = text.words
  OBVIOUS
<1> SUFFICES \/ \E form \in Documented(h) : Begins(form, words)
             \/ h = "/setdateformat" /\ text.spare = 2
  OBVIOUS
<1> HIDE DEF h, words
<1>1. CASE h = "/closeevent"
  <2>1. Len(words) >= 1 /\ <<words[1]>> = <<"id">>
    BY <1>1, <1>h, <1>s, ParserOf DEF parseCloseEventCommand
  <2>2. <<"id">> \in Documented(h)
    BY <1>1, FormsOf
  <2> QED
    BY <2>1, <2>2, <1>b
<1>2. CASE h \in SetUint
  <2>1. Len(words) >= 1 /\ <<words[1]>> = <<"digits">>
    BY <1>2, <1>h, <1>s, ParserOf DEF parseSingleUintCommand
  <2>2. <<"digits">> \in Documented(h)
    BY <1>2, FormsOf
  <2> QED
    BY <2>1, <2>2, <1>b
<1>3. CASE h \in SetInt64
  <2>1. Len(words) >= 1 /\ <<words[1]>> \in {<<"digits">>, <<"negative">>}
    BY <1>3, <1>h, <1>s, ParserOf DEF parseSingleInt64Command, isInt64
  <2>2. {<<"digits">>, <<"negative">>} = Documented(h)
    BY <1>3, FormsOf
  <2> QED
    BY <2>1, <2>2, <1>b
<1>4. CASE h \in {"/resetusers", "/resetlog"}
  <2>1. words = <<"CONFERMA">>
    BY <1>4, <1>h, <1>s, ParserOf DEF parseConfirmed
  <2>2. <<"CONFERMA">> \in Documented(h)
    BY <1>4, FormsOf
  <2> QED
    BY <2>1, <2>2, <1>b
<1>5. CASE h \in {"/notify", "/setalarm"}
  <2>1. /\ Len(words) >= 2
        /\ \/ h = "/notify" /\ words[2] \in {"on", "off"}
           \/ h = "/setalarm" /\ words[2] \in {"ON", "OFF"}
    <3>1. CASE h = "/notify"
      BY <3>1, <1>h, <1>s, ParserOf DEF parseSwitch
    <3>2. CASE h = "/setalarm"
      BY <3>2, <1>h, <1>s, ParserOf DEF parseSwitch
    <3> QED
      BY <1>5, <3>1, <3>2
  <2>2. words[1] \in Word
    BY <2>1, <1>p, <1>w
  <2>3. <<words[1], words[2]>> \in Documented(h)
    BY <2>1, <2>2, FormsOf
  <2> QED
    BY <2>1, <2>3, <1>b
<1>6. CASE h = "/setdateformat"
  <2>1. words # << >> \/ text.spare = 2
    BY <1>6, <1>h, <1>s, ParserOf DEF parseSetDateFormatCommand
  <2>2. ASSUME words # << >> PROVE words \in Documented(h)
    <3>1. Len(words) \in 1..MaxWords
      BY <1>w, <2>2, CommandAssumption
    <3> QED
      BY <1>6, <1>w, <3>1, FormsOf
  <2> QED
    BY <1>6, <2>1, <2>2, <1>b
<1>7. CASE h = "/settimezone"
  <2>1. Len(words) >= 1
    BY <1>7, <1>h, <1>s, <1>w, ParserOf DEF parseSetTimezoneCommand
  <2>2. words[1] \in Word
    BY <2>1, <1>p, <1>w
  <2>3. <<words[1]>> \in Documented(h)
    BY <1>7, <2>2, FormsOf
  <2> QED
    BY <2>1, <2>3, <1>b
<1>8. CASE h \in {"/log"} \cup Bare
  <2>1. << >> \in Documented(h)
    BY <1>8, FormsOf
  <2> QED
    BY <2>1, <1>b
<1>9. CASE h = "/dump"
  <2>1. CASE words = <<"log">>
    <3>1. <<"log">> \in Documented(h)
      BY <1>9, FormsOf
    <3> QED
      BY <2>1, <3>1, <1>b
  <2>2. CASE words # <<"log">>
    <3>1. Len(words) >= 2 /\ words[1] = "notif" /\ words[2] \in {"digits", "negative"}
      BY <1>9, <2>2, <1>h, <1>s, ParserOf DEF parseDumpCommand, isInt64
    <3>2. <<words[1], words[2]>> \in Documented(h)
      BY <1>9, <3>1, FormsOf
    <3> QED
      BY <3>1, <3>2, <1>b
  <2> QED
    BY <2>1, <2>2
<1>10. CASE h \in {"/resetnotif", "/resetuserconfig"}
  <2>1. Len(words) >= 2 /\ words[1] \in {"digits", "negative"} /\ words[2] = "CONFERMA"
    BY <1>10, <1>h, <1>s, ParserOf DEF parseResetOf, isInt64
  <2>2. <<words[1], words[2]>> \in Documented(h)
    BY <1>10, <2>1, FormsOf
  <2> QED
    BY <2>1, <2>2, <1>b
<1> QED
  BY <1>h, <1>1, <1>2, <1>3, <1>4, <1>5, <1>6, <1>7, <1>8, <1>9, <1>10, Commands

LEMMA Destroyed ==
  ASSUME NEW text \in Text, text.head \in Destructive, Parses(text.head, text)
  PROVE  Confirmed(text.words)
<1>w. DOMAIN text.words = 1..Len(text.words) /\ Len(text.words) \in Nat
  BY WordsOf
<1>1. CASE text.head \in {"/resetusers", "/resetlog"}
  <2>1. text.words = <<"CONFERMA">>
    BY <1>1, ParserOf DEF parseConfirmed
  <2> QED
    BY <2>1 DEF Confirmed
<1>2. CASE text.head \in {"/resetnotif", "/resetuserconfig"}
  <2>1. Len(text.words) >= 2 /\ text.words[2] = "CONFERMA"
    BY <1>2, ParserOf DEF parseResetOf
  <2> QED
    BY <1>w, <2>1 DEF Confirmed
<1> QED
  BY <1>1, <1>2 DEF Destructive

LEMMA Served ==
  ASSUME NEW admin \in BOOLEAN
  PROVE  ServedAsDocumented(admin)
<1> SUFFICES ASSUME NEW text \in Text
             PROVE  LET reached == handleIncomingCommand(text, admin)
                        free == admin \/ text.head \in ForEveryone
                    IN  /\ reached \subseteq {text.head}
                        /\ text.head \in Command => \A form \in Documented(text.head) :
                             text.words = form /\ text.spare = 0 =>
                               reached = IF free THEN {text.head} ELSE {}
                        /\ reached # {} =>
                             /\ free
                             /\ text.head \in Destructive => admin /\ Confirmed(text.words)
                             /\ \/ \E form \in Documented(text.head) :
                                     Begins(form, text.words)
                                \/ text.head = "/setdateformat" /\ text.spare = 2
  BY DEF ServedAsDocumented, Confirmed, Begins
<1> DEFINE h == text.head
           free == admin \/ h \in ForEveryone
           served == h \in Command /\ Parses(h, text) /\ (h \in AdminOnly => admin)
           reached == handleIncomingCommand(text, admin)
<1>1. reached = IF served THEN {h} ELSE {}
  BY Reached
<1>2. h \in Command => (free <=> (h \in AdminOnly => admin))
  BY AdminsAlone
<1>3. ASSUME h \in Command, NEW form \in Documented(h), text.words = form, text.spare = 0
      PROVE  Parses(h, text)
  BY <1>3, Taken
<1>4. ASSUME served
      PROVE  \/ \E form \in Documented(h) : Begins(form, text.words)
             \/ h = "/setdateformat" /\ text.spare = 2
  BY <1>4, Begun
<1>5. ASSUME served, h \in Destructive
      PROVE  admin /\ Confirmed(text.words)
  BY <1>5, Destroyed, AdminsAlone
<1>6. served => free
  BY <1>2
<1>7. h \in Command /\ Parses(h, text) /\ free => served
  BY <1>2
<1>8. served => h \in Command
  OBVIOUS
<1> HIDE DEF served, free, reached
<1> QED
  BY <1>1, <1>3, <1>4, <1>5, <1>6, <1>7 DEF free, reached

\* In every state the commands of each user work as docs/commands.md has
\* them, for texts of any number of words: nobody reaches a handler that is
\* not that of the command and not for them, and nothing is destroyed
\* without an admin's CONFERMA (CommandParser.cpp, handleIncomingCommand).
THEOREM CommandsAsDocumentedHolds == Spec => []CommandsAsDocumented
<1>1. AdminsServed /\ OthersServed
  BY Served DEF AdminsServed, OthersServed
<1>2. CommandsAsDocumented
  BY <1>1 DEF CommandsAsDocumented
<1> QED
  BY <1>2, PTL
=============================================================================
