-------------------------------- MODULE Users --------------------------------
(***************************************************************************)
(* What commands change besides the logs: the whitelist (UserList.cpp,     *)
(* UserStorage.cpp), the preferences of the users (UserConfigStorage.cpp), *)
(* the global configuration (GlobalConfigStorage.cpp), and the buffer of   *)
(* the requests that were turned away (UnauthorizedRequestLog.cpp); and    *)
(* what setup finds of them after a reset.                                 *)
(*                                                                         *)
(* A file is written to a temporary one that is then renamed: after a save *)
(* it is the new one or, if that failed, the old one.  A missing file      *)
(* reads like an empty one.                                                *)
(***************************************************************************)
EXTENDS CommandParser, SequencesExt

CONSTANTS
  User,            \* chat ids, known to the whitelist or not
  Onboarding,      \* ONBOARDING_CHAT_ID
  Value,           \* of a preference or a setting
  Default,         \* the value of what has not been set
  Setting,         \* the fields of GlobalConfig
  Persisted,       \* those that are saved: all but anchorPersistIntervalMinutes
  MaxRequests,     \* kMaxUnauthorizedRequests
  Faults           \* "read", "write", "nvs": files that cannot be read, files
                   \* and keys that cannot be written

ASSUME UsersAssumption ==
  /\ IsFiniteSet(User) /\ Onboarding \in User
  /\ Default \in Value
  /\ Persisted \subseteq Setting
  /\ MaxRequests \in Nat \ {0}
  /\ Faults \subseteq {"read", "write", "nvs"}

VARIABLES
  users,     \* g_users
  file,      \* users.json
  prefs,     \* userconfig.json
  config,    \* globalConfig()
  nvs,       \* what of it is in NVS
  requests,  \* g_unauthorizedRequests
  (* History variables: nothing in the code reads them. *)
  failed,    \* the last saveUsers has failed
  misread,   \* the last step was a boot that could not read users.json
  resigned,  \* the last admin has removed themself, and others were left
  chosen,    \* what the last command about each user has saved, or the
             \* default if another one has written over an unreadable file
  unsaved    \* the settings the last save could not put into NVS

whitelist == <<users, file, failed, resigned>>
preferences == <<prefs, chosen>>
settings == <<config, nvs, unsaved>>
vars == <<whitelist, preferences, settings, requests, misread>>

Level == {"none", "standard", "admin"}
Nobody == [u \in User |-> "none"]
Admins(list) == {u \in User : list[u] = "admin"}

isAuthorized(s) == users[s] # "none"
isAdmin(s) == users[s] = "admin"

NoPrefs == [u \in User |-> Default]

-----------------------------------------------------------------------------
(* Files.                                                                  *)

\* What saveUsers(list) may make of the file f, after its one retry.
saveUsers(list, f) ==
  {[file |-> list, failed |-> FALSE]}
    \cup (IF "write" \in Faults THEN {[file |-> f, failed |-> TRUE]} ELSE {})

\* A command saves the whitelist first if its sender has a new username.
AfterUsername == {[file |-> file, failed |-> failed]} \cup saveUsers(users, file)

\* The whole of what a command does to the file: with the username, then
\* with what its handler has made of the list.
Saved(list) ==
  \E first \in AfterUsername : \E last \in saveUsers(list, first.file) :
    file' = last.file /\ failed' = last.failed

NotSaved ==
  \E first \in AfterUsername : file' = first.file /\ failed' = first.failed

\* What reading gives, a failure being an empty list that is not told from
\* an empty file: loadUsers, loadAllUserConfigs.
Loaded(content, nothing) ==
  {[list |-> content, ok |-> TRUE]}
    \cup (IF "read" \in Faults THEN {[list |-> nothing, ok |-> FALSE]} ELSE {})

saveAllUserConfigs(p) ==
  {[prefs |-> p, ok |-> TRUE]}
    \cup (IF "write" \in Faults THEN {[prefs |-> prefs, ok |-> FALSE]} ELSE {})

-----------------------------------------------------------------------------
(* The whitelist: handlers behind requireAdmin.                            *)

handleAddUser(s, t) ==
  /\ isAdmin(s) /\ users[t] = "none"
  /\ users' = [users EXCEPT ![t] = "standard"]
  /\ Saved(users')
  /\ misread' = FALSE
  /\ UNCHANGED <<resigned, preferences, settings, requests>>

\* Mutant: the sender need not be an admin.
handleRemoveUser_ByAnyone(s, t) ==
  /\ isAuthorized(s) /\ isAuthorized(t)
  /\ users' = [users EXCEPT ![t] = "none"]
  /\ Saved(users')
  /\ resigned' = (resigned \/ (s = t /\ Admins(users) = {s} /\ users' # Nobody))
  /\ misread' = FALSE
  /\ UNCHANGED <<preferences, settings, requests>>

\* Nothing keeps an admin from removing themself.
handleRemoveUser(s, t) ==
  /\ isAdmin(s) /\ isAuthorized(t)
  /\ users' = [users EXCEPT ![t] = "none"]
  /\ Saved(users')
  /\ resigned' = (resigned \/ (s = t /\ Admins(users) = {s} /\ users' # Nobody))
  /\ misread' = FALSE
  /\ UNCHANGED <<preferences, settings, requests>>

\* Mutant: the new flag is not saved.
handlePromoteUser_Unsaved(s, t) ==
  /\ isAdmin(s) /\ isAuthorized(t)
  /\ users' = [users EXCEPT ![t] = "admin"]
  /\ NotSaved
  /\ misread' = FALSE
  /\ UNCHANGED <<resigned, preferences, settings, requests>>

handlePromoteUser(s, t) ==
  /\ isAdmin(s) /\ isAuthorized(t)
  /\ users' = [users EXCEPT ![t] = "admin"]
  /\ Saved(users')
  /\ misread' = FALSE
  /\ UNCHANGED <<resigned, preferences, settings, requests>>

handleResetUsers(s) ==
  /\ isAdmin(s)
  /\ users' = Nobody
  /\ Saved(users')
  /\ misread' = FALSE
  /\ UNCHANGED <<resigned, preferences, settings, requests>>

\* Any other command, and those above from who is no admin or about a user
\* who is there already, or is not.
OtherCommand(s) ==
  /\ isAuthorized(s)
  /\ NotSaved
  /\ misread' = FALSE
  /\ UNCHANGED <<users, resigned, preferences, settings, requests>>

-----------------------------------------------------------------------------
(* Preferences and settings.                                               *)

\* Mutant: only the new entry is written.
upsertUserConfig_Alone(configs, s, v) == [NoPrefs EXCEPT ![s] = v]

upsertUserConfig(configs, s, v) == [configs EXCEPT ![s] = v]

\* History: a command about u has saved v for u, with everybody else's
\* entry or, after a read that failed, with nobody's.
Chosen(u, v, load, save) ==
  chosen' = IF ~save.ok THEN chosen
            ELSE [w \in User |-> IF w = u THEN v
                                 ELSE IF load.ok THEN chosen[w] ELSE Default]

\* /notify, /setdateformat, /settimezone.
modifyUserConfig(s, v) ==
  /\ isAuthorized(s)
  /\ NotSaved
  /\ \E load \in Loaded(prefs, NoPrefs) :
       \E save \in saveAllUserConfigs(upsertUserConfig(load.list, s, v)) :
         prefs' = save.prefs /\ Chosen(s, v, load, save)
  /\ misread' = FALSE
  /\ UNCHANGED <<users, resigned, settings, requests>>

\* Nothing is saved if the file has no entry of the user.
handleResetUserConfig(s, t) ==
  /\ isAdmin(s)
  /\ NotSaved
  /\ \E load \in Loaded(prefs, NoPrefs) :
       IF load.list[t] = Default THEN UNCHANGED preferences
       ELSE \E save \in saveAllUserConfigs([load.list EXCEPT ![t] = Default]) :
              prefs' = save.prefs /\ Chosen(t, Default, load, save)
  /\ misread' = FALSE
  /\ UNCHANGED <<users, resigned, settings, requests>>

\* Each key is written for itself, and nobody looks whether it was.
saveGlobalConfig(c, failing) ==
  [field \in Persisted |-> IF field \in failing THEN nvs[field] ELSE c[field]]

\* loadGlobalConfig: the default for what is not in NVS.
loadGlobalConfig ==
  [field \in Setting |-> IF field \in Persisted THEN nvs[field] ELSE Default]

handleSetGlobalUint(s, field, v) ==
  /\ isAdmin(s)
  /\ NotSaved
  /\ config' = [config EXCEPT ![field] = v]
  /\ unsaved' \in IF "nvs" \in Faults THEN SUBSET Persisted ELSE {{}}
  /\ nvs' = saveGlobalConfig(config', unsaved')
  /\ misread' = FALSE
  /\ UNCHANGED <<users, resigned, preferences, requests>>

-----------------------------------------------------------------------------
(* Requests of others.                                                     *)

recordUnauthorizedRequest(s) ==
  IF Contains(requests, s)
  THEN Append(RemoveAt(requests, CHOOSE i \in DOMAIN requests : requests[i] = s), s)
  ELSE IF Len(requests) >= MaxRequests THEN Append(Tail(requests), s)
  ELSE Append(requests, s)

\* A message of a chat that is not on the whitelist: no answer.
TurnedAway(s) ==
  /\ ~isAuthorized(s)
  /\ requests' = recordUnauthorizedRequest(s)
  /\ misread' = FALSE
  /\ UNCHANGED <<whitelist, preferences, settings>>

-----------------------------------------------------------------------------
(* A reset and setup.                                                      *)

ensureOnboardingAdmin(list) == [list EXCEPT ![Onboarding] = "admin"]

\* An empty list, read or not, gets the onboarding chat, and is saved.
Boot ==
  /\ \E load \in Loaded(file, Nobody) :
       /\ misread' = ~load.ok
       /\ IF load.list = Nobody
          THEN /\ users' = ensureOnboardingAdmin(Nobody)
               /\ \E save \in saveUsers(users', file) :
                    file' = save.file /\ failed' = save.failed
          ELSE users' = load.list /\ failed' = FALSE /\ UNCHANGED file
  /\ config' = loadGlobalConfig
  /\ requests' = << >> /\ unsaved' = {}
  /\ UNCHANGED <<resigned, preferences, nvs>>

\* The first boot of the board.
Init ==
  /\ users = ensureOnboardingAdmin(Nobody)
  /\ \E save \in saveUsers(users, Nobody) : file = save.file /\ failed = save.failed
  /\ prefs = NoPrefs
  /\ config = [field \in Setting |-> Default]
  /\ nvs = [field \in Persisted |-> Default]
  /\ requests = << >>
  /\ misread = FALSE /\ resigned = FALSE
  /\ chosen = NoPrefs /\ unsaved = {}

Next ==
  \/ \E s, t \in User :
       \/ handleAddUser(s, t)
       \/ handleRemoveUser(s, t)
       \/ handlePromoteUser(s, t)
       \/ handleResetUserConfig(s, t)
  \/ \E s \in User :
       \/ handleResetUsers(s)
       \/ OtherCommand(s)
       \/ TurnedAway(s)
       \/ \E v \in Value : modifyUserConfig(s, v)
       \/ \E field \in Setting, v \in Value : handleSetGlobalUint(s, field, v)
  \/ Boot

Spec == Init /\ [][Next]_vars

-----------------------------------------------------------------------------
(* Properties.                                                             *)

\* The lists range over what the code allows, the buffer within its size
\* and without repetitions.
TypeOK ==
  /\ users \in [User -> Level] /\ file \in [User -> Level]
  /\ prefs \in [User -> Value]
  /\ config \in [Setting -> Value] /\ nvs \in [Persisted -> Value]
  /\ requests \in Seq(User) /\ Len(requests) <= MaxRequests
  /\ IsInjective(requests)
  /\ failed \in BOOLEAN /\ misread \in BOOLEAN /\ resigned \in BOOLEAN
  /\ chosen \in [User -> Value] /\ unsaved \subseteq Persisted

\* As long as there is anybody on the whitelist, in RAM or in the file,
\* there is an admin: neither failed saves nor files that cannot be read
\* lock everybody out.  Only the last admin can do so, by leaving; an empty
\* list gets the onboarding admin at the next boot.
NeverLockedOut ==
  ~resigned => \A list \in {users, file} : list # Nobody => Admins(list) # {}

\* After a reset the whitelist and the persisted settings are what they
\* were, whatever the commands and usernames in between, if the last save
\* worked, for each key of NVS, and the file can be read; an empty whitelist
\* gets its admin.
ResetLosesNothing ==
  [][Boot =>
       /\ ~failed /\ ~misread' =>
            users' = IF users = Nobody THEN ensureOnboardingAdmin(Nobody) ELSE users
       /\ \A field \in Persisted \ unsaved : config'[field] = config[field]]_vars

\* A user's preferences are what the last command about that user has saved,
\* whatever was commanded about others since, who has left the whitelist and
\* come back, and which saves and reads have failed.  Only a save of somebody
\* else's that could not read the file sets them to the default, and then
\* they stay there: no older value comes back, and nobody gets another's.
PreferencesKept == \A u \in User : prefs[u] = chosen[u]

\* In every state, with whoever is an admin or only on the whitelist then,
\* a text of a form that docs/commands.md gives reaches the handler of its
\* command, and nobody else's text reaches what is reserved for admins.
CommandsAsDocumented ==
  \A user \in User :
    isAuthorized(user) =>
      IF isAdmin(user) THEN AdminsServed ELSE OthersServed
=============================================================================
