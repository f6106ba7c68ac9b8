---------------------- MODULE NotificationEngineProofs ----------------------
(***************************************************************************)
(* Proofs about NotificationEngine for every value of its constants.       *)
(*                                                                         *)
(* Types; the account of scan messages; IInv, which says what a message in *)
(* the queue knows of its row and a row of its notification, and with it   *)
(* that nothing is queued, sent or settled twice; that nothing is          *)
(* forgotten, or left PENDING without a retry; the refinement of Delivery; *)
(* that only what the engine was called for is worked at, for Notifier.    *)
(***************************************************************************)
EXTENDS NotificationEngine, SequenceTheorems, FiniteSetTheorems, TLAPS

-----------------------------------------------------------------------------
(* Sequences of the elements of a finite set, in any order.                *)

\* The elements of the set are listed once each.
LEMMA SetToSeqsIsSeq ==
  ASSUME NEW T, NEW S, S \subseteq T, IsFiniteSet(S), NEW s \in SetToSeqs(S)
  PROVE  /\ s \in Seq(T)
         /\ Len(s) = Cardinality(S)
         /\ DOMAIN s = 1..Cardinality(S)
         /\ \A i \in DOMAIN s : s[i] \in S
         /\ \A i, j \in DOMAIN s : s[i] = s[j] => i = j
<1>1. Cardinality(S) \in Nat
  BY FS_CardinalityType
<1>2. /\ s \in [1..Cardinality(S) -> S]
      /\ \A i, j \in 1..Cardinality(S) : i # j => s[i] # s[j]
  BY DEF SetToSeqs
<1>3. s \in [1..Cardinality(S) -> T]
  BY <1>2
<1>4. s \in Seq(T) /\ Len(s) = Cardinality(S)
  BY <1>1, <1>3
<1> QED
  BY <1>2, <1>4

\* A sequence is only ever appended to.
LEMMA ConcatType ==
  ASSUME NEW T, NEW q \in Seq(T), NEW s \in Seq(T)
  PROVE  q \o s \in Seq(T)
BY ConcatProperties

\* The image of the notifications under a function is finite.
LEMMA ImageFinite ==
  ASSUME NEW S, IsFiniteSet(S), NEW f, f = [x \in S |-> f[x]],
         NEW R, R \subseteq {f[x] : x \in S}
  PROVE  IsFiniteSet(R)
<1>1. f \in Surjection(S, {f[x] : x \in S})
  BY DEF Surjection
<1>2. IsFiniteSet({f[x] : x \in S})
  BY <1>1, FS_Surjection
<1> QED
  BY <1>2, FS_Subset

-----------------------------------------------------------------------------
(* What the engine queues is a set of well-formed messages, and finite.    *)

LEMMA NotificationFinite ==
  IsFiniteSet(Notification)
BY EngineAssumption, FS_Product DEF Notification

LEMMA EventMessagesType ==
  ASSUME NEW R \in SUBSET User, NEW k \in Key
  PROVE  /\ {EventMessage(u, k) : u \in R} \subseteq TrackedMessage
         /\ IsFiniteSet({EventMessage(u, k) : u \in R})
<1>1. \A u \in R : EventMessage(u, k) \in TrackedMessage
  BY DEF EventMessage, TrackedMessage
<1>2. IsFiniteSet(R)
  BY EngineAssumption, FS_Subset
<1> DEFINE f == [u \in R |-> EventMessage(u, k)]
<1>3. {EventMessage(u, k) : u \in R} \subseteq {f[u] : u \in R}
  OBVIOUS
<1>4. f = [u \in R |-> f[u]]
  OBVIOUS
<1> HIDE DEF f
<1>5. IsFiniteSet({EventMessage(u, k) : u \in R})
  BY <1>2, <1>3, <1>4, ImageFinite
<1> QED
  BY <1>1, <1>5

LEMMA AdminAlertsType ==
  ASSUME whitelist \in SUBSET User
  PROVE  AdminAlerts \subseteq UntrackedMessage /\ IsFiniteSet(AdminAlerts)
<1> DEFINE L == whitelist \cap Admin
           f == [u \in L |-> AlertMessage(u)]
<1>1. AdminAlerts \subseteq UntrackedMessage
  <2>1. \A u \in User : AlertMessage(u) \in UntrackedMessage
    BY DEF AlertMessage, UntrackedMessage
  <2> QED
    BY <2>1 DEF AdminAlerts
<1>2. IsFiniteSet(L)
  BY EngineAssumption, FS_Subset
<1>3. AdminAlerts \subseteq {f[u] : u \in L} /\ f = [u \in L |-> f[u]]
  BY DEF AdminAlerts
<1> HIDE DEF f, L
<1>4. IsFiniteSet(AdminAlerts)
  BY <1>2, <1>3, ImageFinite
<1> QED
  BY <1>1, <1>4

LEMMA ScanMessagesType ==
  ASSUME NEW rs \in [User -> [Key -> Row]], NEW seen \in SUBSET User
  PROVE  ScanMessages(rs, seen) \subseteq TrackedMessage /\ IsFiniteSet(ScanMessages(rs, seen))
<1> DEFINE f == [p \in Notification |-> ScanMessage(rs, p[1], p[2])]
<1>1. \A u \in User, k \in Key : ScanMessage(rs, u, k) \in TrackedMessage
  BY DEF ScanMessage, TrackedMessage, PendingIn, Row
<1>2. ScanMessages(rs, seen) \subseteq TrackedMessage
  BY <1>1 DEF ScanMessages, PendingIn
<1>3. ScanMessages(rs, seen) \subseteq {f[p] : p \in Notification}
  <2> SUFFICES ASSUME NEW m \in ScanMessages(rs, seen)
               PROVE  m \in {f[p] : p \in Notification}
    OBVIOUS
  <2>1. PICK u \in seen : m \in {ScanMessage(rs, u, k) : k \in PendingIn(rs, u)}
    BY DEF ScanMessages
  <2>2. PICK k \in PendingIn(rs, u) : m = ScanMessage(rs, u, k)
    BY <2>1
  <2>3. <<u, k>> \in Notification
    BY <2>2 DEF PendingIn, Notification
  <2>4. f[<<u, k>>] = m
    BY <2>2, <2>3
  <2> QED
    BY <2>3, <2>4
<1>4. f = [p \in Notification |-> f[p]]
  OBVIOUS
<1> HIDE DEF f
<1>5. IsFiniteSet(ScanMessages(rs, seen))
  BY <1>3, <1>4, NotificationFinite, ImageFinite
<1> QED
  BY <1>2, <1>5

LEMMA LegibleType ==
  ASSUME whitelist \in SUBSET User, NEW seen \in Legible
  PROVE  seen \in SUBSET User
BY DEF Legible

\* A tracked message of the queue has the fields of a notification.
LEMMA TrackedMessageType ==
  ASSUME NEW m \in Message, m.trackDelivery
  PROVE  m \in TrackedMessage
BY DEF Message, TrackedMessage, UntrackedMessage

LEMMA QueuedNotification ==
  ASSUME NEW q \in Seq(Message), NEW i \in DOMAIN q, q[i].trackDelivery
  PROVE  /\ q[i] \in TrackedMessage
         /\ About(q[i]) \in Notification
<1>1. q[i] \in Message
  OBVIOUS
<1>2. q[i] \in TrackedMessage
  BY <1>1, TrackedMessageType
<1> QED
  BY <1>2 DEF TrackedMessage, About, Notification

-----------------------------------------------------------------------------
(* Type correctness.                                                       *)

LEMMA BeginScanType ==
  ASSUME TypeOK, NEW q \in Seq(Message), NEW after \in Seq(Message),
         NEW rs \in [User -> [Key -> Row]], BeginScan(q, rs, after)
  PROVE  /\ queue' \in Seq(Message)
         /\ scanInProgress' \in BOOLEAN
         /\ inFlight' \in Nat /\ hadPending' \in BOOLEAN
         /\ slipped' \in SUBSET Notification
<1>0. PICK seen \in Legible :
        /\ \E s \in SetToSeqs(ScanMessages(rs, seen)) : queue' = q \o s \o after
        /\ \/ UNCHANGED <<scanInProgress, inFlight, hadPending>>
           \/ /\ scanInProgress' = TRUE /\ hadPending' = FALSE
              /\ inFlight' = Cardinality(ScanMessages(rs, seen))
        /\ slipped' = Waiting(rs) \ {About(m) : m \in ScanMessages(rs, seen)}
  BY DEF BeginScan, scan
<1>1. ScanMessages(rs, seen) \subseteq Message /\ IsFiniteSet(ScanMessages(rs, seen))
  BY LegibleType, ScanMessagesType DEF TypeOK, Message
<1>2. PICK s \in SetToSeqs(ScanMessages(rs, seen)) : queue' = q \o s \o after
  BY <1>0
<1>3. s \in Seq(Message)
  BY <1>1, SetToSeqsIsSeq
<1>4. queue' \in Seq(Message)
  BY <1>2, <1>3, ConcatType
<1>5. inFlight' \in Nat
  BY <1>0, <1>1, FS_CardinalityType DEF TypeOK
<1>6. slipped' \in SUBSET Notification
  BY <1>0 DEF Waiting
<1> QED
  BY <1>0, <1>4, <1>5, <1>6 DEF TypeOK

LEMMA NoScanType ==
  ASSUME TypeOK, NEW q \in Seq(Message), NEW after \in Seq(Message),
         NoScan(q, after)
  PROVE  /\ queue' \in Seq(Message)
         /\ scanInProgress' \in BOOLEAN
         /\ inFlight' \in Nat /\ hadPending' \in BOOLEAN
         /\ slipped' \in SUBSET Notification
BY ConcatType DEF NoScan, TypeOK, scan

\* A row is written, or it is not and its notification is unrecorded.
LEMMA WriteCases ==
  ASSUME NEW m, NEW state, NEW n, writeNotificationState(m, state, n)
  PROVE  \/ /\ rows' = [rows EXCEPT ![m.chatId][m.key] = [state |-> state, n |-> n]]
            /\ unrecorded' = unrecorded
         \/ rows' = rows /\ unrecorded' = unrecorded \cup {About(m)}
BY DEF writeNotificationState

LEMMA WriteType ==
  ASSUME TypeOK, NEW m \in TrackedMessage, NEW state \in RowState, NEW n \in Nat,
         writeNotificationState(m, state, n)
  PROVE  /\ rows' \in [User -> [Key -> Row]]
         /\ unrecorded' \in SUBSET Notification
<1> DEFINE row == [state |-> state, n |-> n]
<1>1. m.chatId \in User /\ m.key \in Key
  BY DEF TrackedMessage
<1>2. About(m) \in Notification
  BY <1>1 DEF About, Notification
<1>3. row \in Row
  BY DEF Row
<1>4. rows \in [User -> [Key -> Row]] /\ unrecorded \in SUBSET Notification
  BY DEF TypeOK
<1>5. [rows EXCEPT ![m.chatId][m.key] = row] \in [User -> [Key -> Row]]
  <2> HIDE DEF row
  <2> QED
    BY <1>1, <1>3, <1>4
<1>6. CASE /\ rows' = [rows EXCEPT ![m.chatId][m.key] = row]
           /\ unrecorded' = unrecorded
  BY <1>4, <1>5, <1>6
<1>7. CASE rows' = rows /\ unrecorded' = unrecorded \cup {About(m)}
  BY <1>2, <1>4, <1>7
<1> QED
  BY <1>6, <1>7, WriteCases

LEMMA ScanMessageDoneType ==
  ASSUME TypeOK, NEW stillPending \in BOOLEAN, ScanMessageDone(stillPending)
  PROVE  /\ active' \in BOOLEAN /\ due' \in BOOLEAN /\ scanInProgress' \in BOOLEAN
         /\ inFlight' \in Nat /\ hadPending' \in BOOLEAN
<1>1. inFlight' \in Nat
  BY DEF TypeOK, ScanMessageDone
<1>2. hadPending' \in BOOLEAN
  BY DEF ScanMessageDone
<1>3. CASE scanInProgress' = FALSE /\ active' = hadPending' /\ due' = FALSE
  BY <1>1, <1>2, <1>3
<1>4. CASE UNCHANGED timer
  BY <1>1, <1>2, <1>4 DEF TypeOK, timer
<1> QED
  BY <1>3, <1>4 DEF ScanMessageDone

\* The ways FinishTick can go, whatever was asked.
TickEnds(m, rest) ==
  \/ /\ m.isScanMessage
     /\ ScanMessageDone(FALSE) /\ queue' = rest /\ UNCHANGED slipped
  \/ /\ ~m.isScanMessage
     /\ (CanScan /\ BeginScan(rest, rows', << >>)) \/ NoScan(rest, << >>)
     /\ UNCHANGED <<active, due>>

LEMMA TickEndsType ==
  ASSUME TypeOK, NEW m, NEW rest \in Seq(Message),
         rows' \in [User -> [Key -> Row]], TickEnds(m, rest)
  PROVE  /\ queue' \in Seq(Message)
         /\ active' \in BOOLEAN /\ due' \in BOOLEAN /\ scanInProgress' \in BOOLEAN
         /\ inFlight' \in Nat /\ hadPending' \in BOOLEAN
         /\ slipped' \in SUBSET Notification
<1>0. << >> \in Seq(Message)
  OBVIOUS
<1>1. CASE ScanMessageDone(FALSE) /\ queue' = rest /\ UNCHANGED slipped
  <2>1. /\ active' \in BOOLEAN /\ due' \in BOOLEAN /\ scanInProgress' \in BOOLEAN
        /\ inFlight' \in Nat /\ hadPending' \in BOOLEAN
    BY <1>1, ScanMessageDoneType
  <2> QED
    BY <1>1, <2>1 DEF TypeOK
<1>2. CASE BeginScan(rest, rows', << >>) /\ UNCHANGED <<active, due>>
  <2>1. /\ queue' \in Seq(Message)
        /\ scanInProgress' \in BOOLEAN
        /\ inFlight' \in Nat /\ hadPending' \in BOOLEAN
        /\ slipped' \in SUBSET Notification
    BY <1>0, <1>2, BeginScanType
  <2> QED
    BY <1>2, <2>1 DEF TypeOK
<1>3. CASE NoScan(rest, << >>) /\ UNCHANGED <<active, due>>
  <2>1. /\ queue' \in Seq(Message)
        /\ scanInProgress' \in BOOLEAN
        /\ inFlight' \in Nat /\ hadPending' \in BOOLEAN
        /\ slipped' \in SUBSET Notification
    BY <1>0, <1>3, NoScanType
  <2> QED
    BY <1>3, <2>1 DEF TypeOK
<1> QED
  BY <1>1, <1>2, <1>3 DEF TickEnds

LEMMA FinishTickEnds ==
  ASSUME NEW m, NEW rest, FinishTick(m, isDue, rest) \/ FinishTick(m, active, rest)
  PROVE  TickEnds(m, rest)
BY DEF FinishTick, TickEnds, runRecoveryScan

LEMMA SettleType ==
  ASSUME TypeOK, NEW m \in TrackedMessage, NEW f \in {"delivered", "abandoned"}, Settle(m, f)
  PROVE  fate' \in [User -> [Key -> {"unsent", "owed", "delivered", "abandoned"}]]
<1>1. m.chatId \in User /\ m.key \in Key
  BY DEF TrackedMessage
<1> QED
  BY <1>1 DEF Settle, TypeOK

LEMMA NotifyEventType ==
  ASSUME TypeOK, NEW k \in Key, NEW R \in SUBSET whitelist, NEW s,
         s \in SetToSeqs({EventMessage(u, k) : u \in R}), notifyEvent(k, R, s)
  PROVE  /\ s \in Seq(Message) /\ queue \o s \in Seq(Message)
         /\ fate' \in [User -> [Key -> {"unsent", "owed", "delivered", "abandoned"}]]
<1>1. R \in SUBSET User
  BY DEF TypeOK
<1>2. s \in Seq(Message)
  <2> DEFINE E == {EventMessage(u, k) : u \in R}
  <2>1. E \subseteq Message /\ IsFiniteSet(E)
    BY <1>1, EventMessagesType DEF Message
  <2> HIDE DEF E
  <2> QED
    BY <2>1, SetToSeqsIsSeq DEF E
<1>3. queue \o s \in Seq(Message)
  BY <1>2, ConcatType DEF TypeOK
<1>4. fate' \in [User -> [Key -> {"unsent", "owed", "delivered", "abandoned"}]]
  BY DEF notifyEvent, TypeOK
<1> QED
  BY <1>2, <1>3, <1>4

\* Alerts, or none, are a sequence of messages in any order.
LEMMA AlertSeqType ==
  ASSUME TypeOK, NEW a, a \in SetToSeqs(AdminAlerts) \/ a \in SetToSeqs({})
  PROVE  a \in Seq(Message)
<1>1. AdminAlerts \subseteq Message /\ IsFiniteSet(AdminAlerts)
  BY AdminAlertsType DEF TypeOK, Message
<1>2. {} \subseteq Message /\ IsFiniteSet({})
  BY FS_EmptySet
<1> QED
  BY <1>1, <1>2, SetToSeqsIsSeq

LEMMA MaintenanceType ==
  ASSUME TypeOK, NEW worsened, NEW gone, performMaintenanceIfDue(worsened, gone)
  PROVE  /\ rows' \in [User -> [Key -> Row]] /\ degraded' \in BOOLEAN
<1>1. NoRow \in Row
  BY DEF NoRow, Row, RowState
<1> QED
  BY <1>1 DEF performMaintenanceIfDue, TypeOK

\* What runRecoveryScan leaves is well typed, whatever was asked.
LEMMA RecoveryScanType ==
  ASSUME TypeOK, NEW q \in Seq(Message), NEW after \in Seq(Message),
         NEW rs \in [User -> [Key -> Row]],
         BeginScan(q, rs, after) \/ NoScan(q, after)
  PROVE  /\ queue' \in Seq(Message)
         /\ scanInProgress' \in BOOLEAN
         /\ inFlight' \in Nat /\ hadPending' \in BOOLEAN
         /\ slipped' \in SUBSET Notification
BY BeginScanType, NoScanType

LEMMA TypeInit == Init => TypeOK
<1> SUFFICES ASSUME Init PROVE TypeOK
  OBVIOUS
<1>1. NoRow \in Row
  BY DEF NoRow, Row, RowState
<1>2. /\ booted \in BOOLEAN /\ active \in BOOLEAN /\ due \in BOOLEAN
      /\ scanInProgress \in BOOLEAN /\ hadPending \in BOOLEAN
      /\ degraded \in BOOLEAN /\ systemError \in BOOLEAN
  BY DEF Init
<1>3. rows \in [User -> [Key -> Row]]
  BY <1>1 DEF Init
<1>4. fate \in [User -> [Key -> {"unsent", "owed", "delivered", "abandoned"}]]
  BY DEF Init
<1> QED
  BY <1>2, <1>3, <1>4 DEF Init, TypeOK

\* What the loop, the commands and the boot do keeps the types.
LEMMA TypeEventLogged == TypeOK /\ EventLogged => TypeOK'
<1> SUFFICES ASSUME TypeOK, EventLogged PROVE TypeOK'
  OBVIOUS
<1>1. PICK k \in Key, R \in SUBSET whitelist :
        \E s \in SetToSeqs({EventMessage(u, k) : u \in R}) :
          /\ notifyEvent(k, R, s)
          /\ queue' = queue \o s
  BY DEF EventLogged
<1>2. PICK s \in SetToSeqs({EventMessage(u, k) : u \in R}) :
        notifyEvent(k, R, s) /\ queue' = queue \o s
  BY <1>1
<1>3. /\ queue' \in Seq(Message)
      /\ fate' \in [User -> [Key -> {"unsent", "owed", "delivered", "abandoned"}]]
  BY <1>2, NotifyEventType
<1> QED
  BY <1>3 DEF EventLogged, TypeOK, timer, scan, log

LEMMA TypeNetworkRestored == TypeOK /\ NetworkRestored => TypeOK'
<1> SUFFICES ASSUME TypeOK, NetworkRestored PROVE TypeOK'
  OBVIOUS
<1> DEFINE Typed ==
      /\ queue' \in Seq(Message)
      /\ scanInProgress' \in BOOLEAN
      /\ inFlight' \in Nat /\ hadPending' \in BOOLEAN
      /\ slipped' \in SUBSET Notification
      /\ fate' \in [User -> [Key -> {"unsent", "owed", "delivered", "abandoned"}]]
<1>0. /\ << >> \in Seq(Message) /\ queue \in Seq(Message)
      /\ rows \in [User -> [Key -> Row]]
  BY DEF TypeOK
<1>1. ASSUME NEW k \in Key, NEW R \in SUBSET whitelist,
             NEW s \in SetToSeqs({EventMessage(u, k) : u \in R}),
             notifyEvent(k, R, s), runRecoveryScan(TRUE, queue \o s, rows, << >>)
      PROVE  Typed
  <2>1. /\ queue \o s \in Seq(Message)
        /\ fate' \in [User -> [Key -> {"unsent", "owed", "delivered", "abandoned"}]]
    BY <1>1, NotifyEventType
  <2>2. BeginScan(queue \o s, rows, << >>) \/ NoScan(queue \o s, << >>)
    BY <1>1 DEF runRecoveryScan
  <2> QED
    BY <1>0, <2>1, <2>2, RecoveryScanType
<1>2. ASSUME NEW alert \in BOOLEAN,
             NEW a \in SetToSeqs(IF alert THEN AdminAlerts ELSE {}),
             runRecoveryScan(TRUE, queue \o a, rows, << >>), UNCHANGED fate
      PROVE  Typed
  <2>1. BeginScan(queue \o a, rows, << >>) \/ NoScan(queue \o a, << >>)
    BY <1>2 DEF runRecoveryScan
  <2>2. queue \o a \in Seq(Message)
    BY <1>0, AlertSeqType, ConcatType
  <2> QED
    BY <1>0, <1>2, <2>1, <2>2, RecoveryScanType DEF TypeOK
<1>3. Typed
  BY <1>1, <1>2 DEF NetworkRestored
<1> QED
  BY <1>3 DEF NetworkRestored, TypeOK, log

LEMMA TypeMaintenance == TypeOK /\ Maintenance => TypeOK'
<1> SUFFICES ASSUME TypeOK, Maintenance PROVE TypeOK'
  OBVIOUS
<1>1. PICK worsened \in BOOLEAN, gone \in SUBSET Settled :
        /\ performMaintenanceIfDue(worsened, gone)
        /\ \E a \in SetToSeqs(IF worsened THEN AdminAlerts ELSE {}) : queue' = queue \o a
  BY DEF Maintenance
<1>2. PICK a \in SetToSeqs(IF worsened THEN AdminAlerts ELSE {}) : queue' = queue \o a
  BY <1>1
<1>3. queue' \in Seq(Message)
  BY <1>2, AlertSeqType, ConcatType DEF TypeOK
<1>4. rows' \in [User -> [Key -> Row]] /\ degraded' \in BOOLEAN
  BY <1>1, MaintenanceType
<1> QED
  BY <1>3, <1>4 DEF Maintenance, TypeOK, timer, scan

LEMMA TypeBootTasks == TypeOK /\ BootTasks => TypeOK'
<1> SUFFICES ASSUME TypeOK, BootTasks PROVE TypeOK'
  OBVIOUS
<1>1. PICK worsened, alert \in BOOLEAN, gone \in SUBSET Settled :
        /\ performMaintenanceIfDue(worsened, gone)
        /\ \E a \in SetToSeqs(IF alert THEN AdminAlerts ELSE {}) :
             runRecoveryScan(TRUE, queue, rows, a)
  BY DEF BootTasks
<1>2. PICK a \in SetToSeqs(IF alert THEN AdminAlerts ELSE {}) :
        runRecoveryScan(TRUE, queue, rows, a)
  BY <1>1
<1>3. a \in Seq(Message) /\ queue \in Seq(Message) /\ rows \in [User -> [Key -> Row]]
  BY <1>2, AlertSeqType DEF TypeOK
<1>4. BeginScan(queue, rows, a) \/ NoScan(queue, a)
  BY <1>2 DEF runRecoveryScan
<1>5. /\ queue' \in Seq(Message)
      /\ scanInProgress' \in BOOLEAN
      /\ inFlight' \in Nat /\ hadPending' \in BOOLEAN
      /\ slipped' \in SUBSET Notification
  BY <1>3, <1>4, RecoveryScanType
<1>6. rows' \in [User -> [Key -> Row]] /\ degraded' \in BOOLEAN
  BY <1>1, MaintenanceType
<1> QED
  BY <1>5, <1>6 DEF BootTasks, TypeOK

LEMMA TypeAdminAlert == TypeOK /\ AdminAlert => TypeOK'
<1> SUFFICES ASSUME TypeOK, AdminAlert PROVE TypeOK'
  OBVIOUS
<1>1. PICK a \in SetToSeqs(AdminAlerts) : queue' = queue \o a
  BY DEF AdminAlert
<1>2. queue' \in Seq(Message)
  BY <1>1, AlertSeqType, ConcatType DEF TypeOK
<1> QED
  BY <1>2 DEF AdminAlert, TypeOK, timer, scan, log

LEMMA TypeWhitelistChange == TypeOK /\ WhitelistChange => TypeOK'
BY DEF WhitelistChange, TypeOK, timer, scan, log, Notification

LEMMA TypeResetNotif ==
  ASSUME TypeOK, NEW u \in User, handleResetNotif(u) PROVE TypeOK'
<1>1. [k \in Key |-> NoRow] \in [Key -> Row]
  BY DEF NoRow, Row, RowState
<1>2. rows' \in [User -> [Key -> Row]]
  BY <1>1 DEF handleResetNotif, TypeOK
<1>3. unrecorded' \in SUBSET Notification
  BY DEF handleResetNotif, TypeOK, Notification, PendingIn
<1> QED
  BY <1>2, <1>3 DEF handleResetNotif, TypeOK, timer, scan

\* A tick keeps the types.
LEMMA TypeQuietTick == TypeOK /\ QuietTick => TypeOK'
<1> SUFFICES ASSUME TypeOK, QuietTick PROVE TypeOK'
  OBVIOUS
<1>1. << >> \in Seq(Message) /\ queue \in Seq(Message) /\ rows \in [User -> [Key -> Row]]
  BY DEF TypeOK
<1>2. BeginScan(queue, rows, << >>) \/ NoScan(queue, << >>)
  BY DEF QuietTick, runRecoveryScan
<1>3. /\ queue' \in Seq(Message)
      /\ scanInProgress' \in BOOLEAN
      /\ inFlight' \in Nat /\ hadPending' \in BOOLEAN
      /\ slipped' \in SUBSET Notification
  BY <1>1, <1>2, RecoveryScanType
<1> QED
  BY <1>3 DEF QuietTick, TypeOK, log

LEMMA TypeSendAlert ==
  ASSUME TypeOK, NEW m, Tail(queue) \in Seq(Message), SendAlert(m) PROVE TypeOK'
<1>1. TickEnds(m, Tail(queue))
  BY FinishTickEnds DEF SendAlert
<1>2. rows' \in [User -> [Key -> Row]]
  BY DEF SendAlert, log, TypeOK
<1> QED
  BY <1>1, <1>2, TickEndsType DEF SendAlert, TypeOK, log

LEMMA TypeSendSuccess ==
  ASSUME TypeOK, NEW m \in TrackedMessage, Tail(queue) \in Seq(Message), SendSuccess(m)
  PROVE  TypeOK'
<1>1. TickEnds(m, Tail(queue))
  BY FinishTickEnds DEF SendSuccess
<1>2. rows' \in [User -> [Key -> Row]] /\ unrecorded' \in SUBSET Notification
  <2>1. CASE writeNotificationState(m, "RESOLVED", 0)
    BY <2>1, WriteType DEF RowState
  <2>2. CASE UNCHANGED log
    BY <2>2 DEF log, TypeOK
  <2> QED
    BY <2>1, <2>2 DEF SendSuccess
<1>3. fate' \in [User -> [Key -> {"unsent", "owed", "delivered", "abandoned"}]]
  BY SettleType DEF SendSuccess
<1> QED
  BY <1>1, <1>2, <1>3, TickEndsType DEF SendSuccess, TypeOK

LEMMA TypeSendPermanent ==
  ASSUME TypeOK, NEW m \in TrackedMessage, Tail(queue) \in Seq(Message), SendPermanent(m)
  PROVE  TypeOK'
<1>1. PICK a \in SetToSeqs(AdminAlerts) : TickEnds(m, Tail(queue) \o a)
  BY FinishTickEnds DEF SendPermanent
<1>2. Tail(queue) \o a \in Seq(Message)
  BY AlertSeqType, ConcatType
<1>3. m.attemptCountBefore + 1 \in Nat
  BY DEF TrackedMessage
<1>4. rows' \in [User -> [Key -> Row]] /\ unrecorded' \in SUBSET Notification
  BY <1>3, WriteType DEF SendPermanent, RowState
<1>5. fate' \in [User -> [Key -> {"unsent", "owed", "delivered", "abandoned"}]]
  BY SettleType DEF SendPermanent
<1> QED
  BY <1>1, <1>2, <1>4, <1>5, TickEndsType DEF SendPermanent, TypeOK

LEMMA TypeSendExhausted ==
  ASSUME TypeOK, NEW m \in TrackedMessage, Tail(queue) \in Seq(Message), SendExhausted(m)
  PROVE  TypeOK'
<1>1. TickEnds(m, Tail(queue))
  BY FinishTickEnds DEF SendExhausted
<1>2. m.attemptCountBefore + 1 \in Nat
  BY DEF TrackedMessage
<1>3. rows' \in [User -> [Key -> Row]] /\ unrecorded' \in SUBSET Notification
  BY <1>2, WriteType DEF SendExhausted, RowState
<1>4. fate' \in [User -> [Key -> {"unsent", "owed", "delivered", "abandoned"}]]
  BY SettleType DEF SendExhausted
<1>5. systemError' \in BOOLEAN
  BY DEF SendExhausted, SystemErrorSeen, TypeOK
<1> QED
  BY <1>1, <1>3, <1>4, <1>5, TickEndsType DEF SendExhausted, TypeOK

LEMMA TypeSendRetry ==
  ASSUME TypeOK, NEW m \in TrackedMessage, Tail(queue) \in Seq(Message), SendRetry(m)
  PROVE  TypeOK'
<1>1. m.attemptCountBefore + 1 \in Nat /\ About(m) \in Notification
  BY DEF TrackedMessage, About, Notification
<1>2. rows' \in [User -> [Key -> Row]] /\ unrecorded' \in SUBSET Notification
  BY <1>1, WriteType DEF SendRetry, RowState
<1>3. systemError' \in BOOLEAN
  BY DEF SendRetry, SystemErrorSeen, TypeOK
<1>4. CASE m.isScanMessage
  <2>1. ScanMessageDone(TRUE) /\ UNCHANGED slipped
    BY <1>4 DEF SendRetry
  <2> QED
    BY <1>2, <1>3, <2>1, ScanMessageDoneType DEF SendRetry, TypeOK
<1>5. CASE ~m.isScanMessage
  <2>1. /\ active' = TRUE /\ due' = FALSE
        /\ slipped' = IF scanInProgress THEN slipped \cup {About(m)} ELSE slipped
        /\ UNCHANGED <<scanInProgress, scan>>
    BY <1>5 DEF SendRetry
  <2>2. slipped' \in SUBSET Notification
    BY <1>1, <2>1 DEF TypeOK
  <2>3. active' \in BOOLEAN /\ due' \in BOOLEAN
    BY <2>1
  <2> QED
    BY <1>2, <1>3, <2>1, <2>2, <2>3 DEF SendRetry, TypeOK, scan
<1> QED
  BY <1>4, <1>5

LEMMA TypeSendHead == TypeOK /\ SendHead => TypeOK'
<1> SUFFICES ASSUME TypeOK, SendHead PROVE TypeOK'
  OBVIOUS
<1> DEFINE m == Head(queue)
<1>1. m \in Message /\ Tail(queue) \in Seq(Message)
  BY HeadTailProperties DEF SendHead, TypeOK
<1>2. m.trackDelivery => m \in TrackedMessage
  BY <1>1, TrackedMessageType
<1>3. SendAlert(m) \/ SendSuccess(m) \/ SendPermanent(m)
        \/ SendExhausted(m) \/ SendRetry(m)
  BY DEF SendHead
<1> HIDE DEF m
<1>4. CASE SendAlert(m)
  BY <1>1, <1>4, TypeSendAlert
<1>5. CASE SendSuccess(m)
  BY <1>1, <1>2, <1>5, TypeSendSuccess DEF SendSuccess
<1>6. CASE SendPermanent(m)
  BY <1>1, <1>2, <1>6, TypeSendPermanent DEF SendPermanent
<1>7. CASE SendExhausted(m)
  BY <1>1, <1>2, <1>7, TypeSendExhausted DEF SendExhausted
<1>8. CASE SendRetry(m)
  BY <1>1, <1>2, <1>8, TypeSendRetry DEF SendRetry
<1> QED
  BY <1>3, <1>4, <1>5, <1>6, <1>7, <1>8

\* The environment keeps the types.
LEMMA TypeTimerElapses == TypeOK /\ TimerElapses => TypeOK'
<1> SUFFICES ASSUME TypeOK, TimerElapses PROVE TypeOK'
  OBVIOUS
<1>1. due' \in BOOLEAN
  BY DEF TimerElapses
<1> QED
  BY <1>1 DEF TimerElapses, TypeOK, scan, log

LEMMA TypeCrash == TypeOK /\ Crash => TypeOK'
<1> SUFFICES ASSUME TypeOK, Crash PROVE TypeOK'
  OBVIOUS
<1>1. \A i \in DOMAIN queue : queue[i].trackDelivery => About(queue[i]) \in Notification
  BY QueuedNotification DEF TypeOK
<1>2. FlowIn(queue) \subseteq Notification
  BY <1>1 DEF FlowIn, Range
<1>3. InHand \subseteq Notification
  BY <1>1 DEF InHand, TypeOK
<1>4. unrecorded' \in SUBSET Notification
  BY <1>2, <1>3 DEF Crash, TypeOK
<1>5. fate' \in [User -> [Key -> {"unsent", "owed", "delivered", "abandoned"}]]
  BY DEF Crash, TypeOK
<1>6. /\ booted' \in BOOLEAN /\ active' \in BOOLEAN /\ due' \in BOOLEAN
      /\ scanInProgress' \in BOOLEAN /\ hadPending' \in BOOLEAN
      /\ degraded' \in BOOLEAN /\ systemError' \in BOOLEAN
  BY DEF Crash
<1> QED
  BY <1>4, <1>5, <1>6 DEF Crash, TypeOK

LEMMA TypeNext == TypeOK /\ [Next]_vars => TypeOK'
<1> SUFFICES ASSUME TypeOK, [Next]_vars PROVE TypeOK'
  OBVIOUS
<1>1. CASE EventLogged
  BY <1>1, TypeEventLogged
<1>2. CASE NetworkRestored
  BY <1>2, TypeNetworkRestored
<1>3. CASE BootTasks
  BY <1>3, TypeBootTasks
<1>4. CASE Maintenance
  BY <1>4, TypeMaintenance
<1>5. CASE AdminAlert
  BY <1>5, TypeAdminAlert
<1>6. CASE WhitelistChange
  BY <1>6, TypeWhitelistChange
<1>7. CASE \E u \in User : handleResetNotif(u)
  BY <1>7, TypeResetNotif
<1>8. CASE tickNotificationEngine
  BY <1>8, TypeSendHead, TypeQuietTick DEF tickNotificationEngine
<1>9. CASE TimerElapses
  BY <1>9, TypeTimerElapses
<1>10. CASE Crash
  BY <1>10, TypeCrash
<1>11. CASE UNCHANGED vars
  BY <1>11 DEF vars, timer, scan, log, TypeOK
<1> QED
  BY <1>1, <1>2, <1>3, <1>4, <1>5, <1>6, <1>7, <1>8, <1>9, <1>10, <1>11 DEF Next

\* The variables keep their types: queued messages are well formed, rows and
\* fates are of known users and known keys.
THEOREM TypeCorrect == Spec => []TypeOK
BY TypeInit, TypeNext, PTL DEF Spec

-----------------------------------------------------------------------------
(* Scans account for their messages: what NotificationEngine.cpp and       *)
(* RetryTimer.cpp count separately agrees with what the queue holds.       *)
(* First, the number of the scan messages of a queue.                      *)

NoScanIn(q) == \A i \in DOMAIN q : ~q[i].isScanMessage

ScanCount(q) == Cardinality(ScanIndices(q))

LEMMA ScanIndicesFinite ==
  ASSUME NEW q \in Seq(Message)
  PROVE  /\ ScanIndices(q) \subseteq 1..Len(q)
         /\ IsFiniteSet(ScanIndices(q))
         /\ ScanCount(q) \in Nat
<1>1. ScanIndices(q) \subseteq 1..Len(q)
  BY DEF ScanIndices
<1>2. IsFiniteSet(1..Len(q))
  BY FS_Interval
<1>3. IsFiniteSet(ScanIndices(q))
  BY <1>1, <1>2, FS_Subset
<1> QED
  BY <1>1, <1>3, FS_CardinalityType DEF ScanCount

LEMMA NoScanCount ==
  ASSUME NEW q \in Seq(Message)
  PROVE  ScanCount(q) = 0 <=> NoScanIn(q)
<1>1. ScanIndices(q) = {} <=> NoScanIn(q)
  BY DEF ScanIndices, NoScanIn
<1> QED
  BY <1>1, ScanIndicesFinite, FS_EmptySet DEF ScanCount

LEMMA ConcatCount ==
  ASSUME NEW q \in Seq(Message), NEW s \in Seq(Message), NoScanIn(s)
  PROVE  ScanCount(q \o s) = ScanCount(q)
<1>1. ScanIndices(q \o s) = ScanIndices(q)
  BY ConcatProperties DEF ScanIndices, NoScanIn
<1> QED
  BY <1>1 DEF ScanCount

LEMMA TailCount ==
  ASSUME NEW q \in Seq(Message), q # << >>
  PROVE  ScanCount(Tail(q)) =
           IF Head(q).isScanMessage THEN ScanCount(q) - 1 ELSE ScanCount(q)
<1> DEFINE S == ScanIndices(Tail(q))
           T == ScanIndices(q) \ {1}
           f == [i \in S |-> i + 1]
<1>1. /\ Tail(q) \in Seq(Message) /\ Len(Tail(q)) = Len(q) - 1 /\ Len(q) \in Nat \ {0}
      /\ \A i \in 1..Len(Tail(q)) : Tail(q)[i] = q[i + 1]
      /\ Head(q) = q[1]
  BY HeadTailProperties, EmptySeq
<1>2. S \subseteq 1..Len(Tail(q)) /\ IsFiniteSet(S)
  BY <1>1, ScanIndicesFinite
<1>3. ASSUME NEW i \in S PROVE i + 1 \in T
  BY <1>1, <1>2 DEF ScanIndices
<1>4. ASSUME NEW j \in T PROVE j - 1 \in S /\ f[j - 1] = j
  <2>1. j \in 2..Len(q) /\ q[j].isScanMessage
    BY <1>1 DEF ScanIndices
  <2>2. j - 1 \in S
    BY <1>1, <2>1 DEF ScanIndices
  <2> QED
    BY <2>1, <2>2
<1>5. f \in Bijection(S, T)
  <2>1. f \in [S -> T]
    BY <1>3
  <2>2. \A a, b \in S : f[a] = f[b] => a = b
    BY <1>2
  <2> QED
    BY <1>4, <2>1, <2>2 DEF Bijection, Injection, Surjection, IsInjective
<1>6. Cardinality(T) = Cardinality(S)
  BY <1>2, <1>5, FS_Bijection DEF ExistsBijection
<1>7. Cardinality(T) =
        IF 1 \in ScanIndices(q) THEN ScanCount(q) - 1 ELSE ScanCount(q)
  BY ScanIndicesFinite, FS_RemoveElement DEF ScanCount
<1>8. 1 \in ScanIndices(q) <=> Head(q).isScanMessage
  BY <1>1 DEF ScanIndices
<1> QED
  BY <1>6, <1>7, <1>8 DEF ScanCount

\* A scan's messages are all the scan messages of the queue it starts on.
LEMMA ScanSuffixCount ==
  ASSUME NEW q \in Seq(Message), NoScanIn(q),
         NEW s \in Seq(Message), \A i \in DOMAIN s : s[i].isScanMessage,
         NEW after \in Seq(Message), NoScanIn(after)
  PROVE  ScanCount(q \o s \o after) = Len(s)
<1>1. q \o s \in Seq(Message)
  BY ConcatType
<1>2. ScanIndices(q \o s) = (Len(q) + 1)..(Len(q) + Len(s))
  <2>1. \A i \in 1..(Len(q) + Len(s)) :
          (q \o s)[i].isScanMessage <=> i \in (Len(q) + 1)..(Len(q) + Len(s))
    <3> SUFFICES ASSUME NEW i \in 1..(Len(q) + Len(s))
                 PROVE  (q \o s)[i].isScanMessage <=> i \in (Len(q) + 1)..(Len(q) + Len(s))
      OBVIOUS
    <3>1. CASE i <= Len(q)
      BY <3>1, ConcatProperties DEF NoScanIn
    <3>2. CASE ~(i <= Len(q))
      <4>1. (q \o s)[i] = s[i - Len(q)]
        BY <3>2, ConcatProperties
      <4>2. i - Len(q) \in DOMAIN s
        BY <3>2
      <4> QED
        BY <3>2, <4>1, <4>2
    <3> QED
      BY <3>1, <3>2
  <2>2. DOMAIN (q \o s) = 1..(Len(q) + Len(s))
    BY <1>1, ConcatProperties
  <2> QED
    BY <2>1, <2>2 DEF ScanIndices
<1>3. ScanCount(q \o s) = Len(s)
  <2>1. Len(q) \in Nat /\ Len(s) \in Nat
    OBVIOUS
  <2> DEFINE a == Len(q) + 1
             b == Len(q) + Len(s)
  <2>2. a \in Int /\ b \in Int
    BY <2>1
  <2>3. Cardinality(a..b) = IF a > b THEN 0 ELSE b - a + 1
    BY <2>2, FS_Interval
  <2> QED
    BY <1>2, <2>1, <2>3 DEF ScanCount
<1> QED
  BY <1>1, <1>3, ConcatCount

-----------------------------------------------------------------------------
(* The pieces of the actions.                                              *)

LEMMA EventSeqNoScan ==
  ASSUME NEW R \in SUBSET User, NEW k \in Key,
         NEW s \in SetToSeqs({EventMessage(u, k) : u \in R})
  PROVE  s \in Seq(Message) /\ NoScanIn(s)
<1> DEFINE E == {EventMessage(u, k) : u \in R}
<1>1. E \subseteq Message /\ IsFiniteSet(E)
  BY EventMessagesType DEF Message
<1>2. \A m \in E : ~m.isScanMessage
  BY DEF EventMessage
<1> HIDE DEF E
<1>3. s \in Seq(Message) /\ \A i \in DOMAIN s : s[i] \in E
  BY <1>1, SetToSeqsIsSeq DEF E
<1> QED
  BY <1>2, <1>3 DEF NoScanIn

LEMMA AlertSeqNoScan ==
  ASSUME TypeOK, NEW a, a \in SetToSeqs(AdminAlerts) \/ a \in SetToSeqs({})
  PROVE  a \in Seq(Message) /\ NoScanIn(a)
<1>1. AdminAlerts \subseteq Message /\ IsFiniteSet(AdminAlerts)
  BY AdminAlertsType DEF TypeOK, Message
<1>2. \A m \in AdminAlerts : ~m.isScanMessage
  BY AdminAlertsType DEF TypeOK, UntrackedMessage
<1>3. CASE a \in SetToSeqs(AdminAlerts)
  BY <1>1, <1>2, <1>3, AlertSeqType, SetToSeqsIsSeq DEF NoScanIn
<1>4. CASE a \in SetToSeqs({})
  <2>1. {} \subseteq Message /\ IsFiniteSet({})
    BY FS_EmptySet
  <2>2. \A i \in DOMAIN a : a[i] \in {}
    BY <1>4, <2>1, SetToSeqsIsSeq
  <2> QED
    BY <2>2, AlertSeqType DEF NoScanIn
<1> QED
  BY <1>3, <1>4

\* A scan that starts counts what it queues; one that does not changes
\* nothing.
LEMMA RecoveryScanAccounts ==
  ASSUME TypeOK, ScanAccounting,
         NEW q \in Seq(Message), ScanCount(q) = inFlight,
         NEW after \in Seq(Message), NoScanIn(after),
         NEW rs \in [User -> [Key -> Row]],
         (CanScan /\ BeginScan(q, rs, after)) \/ NoScan(q, after)
  PROVE  ScanAccounting'
<1>1. CASE CanScan /\ BeginScan(q, rs, after)
  <2>0. PICK seen \in Legible :
          /\ \E s \in SetToSeqs(ScanMessages(rs, seen)) : queue' = q \o s \o after
          /\ IF ScanMessages(rs, seen) = {}
             THEN scanInProgress' = scanInProgress /\ inFlight' = inFlight
             ELSE /\ scanInProgress' = TRUE
                  /\ inFlight' = Cardinality(ScanMessages(rs, seen))
    BY <1>1 DEF BeginScan, scan
  <2>1. /\ ScanMessages(rs, seen) \subseteq Message /\ IsFiniteSet(ScanMessages(rs, seen))
        /\ \A m \in ScanMessages(rs, seen) : m.isScanMessage
    <3>1. \A m \in ScanMessages(rs, seen) : m.isScanMessage
      BY DEF ScanMessages, ScanMessage
    <3> QED
      BY <3>1, LegibleType, ScanMessagesType DEF TypeOK, Message
  <2>2. NoScanIn(q) /\ ~scanInProgress /\ inFlight = 0
    BY <1>1, NoScanCount DEF CanScan, ScanAccounting, TypeOK
  <2>3. PICK s \in SetToSeqs(ScanMessages(rs, seen)) : queue' = q \o s \o after
    BY <2>0
  <2>4. /\ s \in Seq(Message) /\ Len(s) = Cardinality(ScanMessages(rs, seen))
        /\ \A i \in DOMAIN s : s[i].isScanMessage
    BY <2>1, SetToSeqsIsSeq
  <2>5. ScanCount(queue') = Cardinality(ScanMessages(rs, seen))
    BY <2>2, <2>3, <2>4, ScanSuffixCount
  <2>6. CASE ScanMessages(rs, seen) = {}
    <3>1. Cardinality(ScanMessages(rs, seen)) = 0
      BY <2>6, FS_EmptySet
    <3> QED
      BY <2>0, <2>2, <2>5, <2>6, <3>1 DEF ScanAccounting, ScanCount, ScanIndices
  <2>7. CASE ScanMessages(rs, seen) # {}
    <3>1. Cardinality(ScanMessages(rs, seen)) > 0
      BY <2>1, <2>7, FS_EmptySet, FS_CardinalityType
    <3> QED
      BY <2>0, <2>5, <2>7, <3>1 DEF ScanAccounting, ScanCount, ScanIndices
  <2> QED
    BY <2>6, <2>7
<1>2. CASE NoScan(q, after)
  <2>1. ScanCount(queue') = inFlight
    BY <1>2, ConcatCount DEF NoScan
  <2> QED
    BY <1>2, <2>1 DEF NoScan, scan, ScanAccounting, ScanCount, ScanIndices
<1> QED
  BY <1>1, <1>2

\* A scan message sent is one less in flight and one less in the queue; the
\* scan ends with the last.
LEMMA ScanMessageDoneAccounts ==
  ASSUME TypeOK, ScanAccounting, NEW stillPending,
         ScanMessageDone(stillPending), inFlight > 0,
         queue' \in Seq(Message), ScanCount(queue') = inFlight - 1
  PROVE  ScanAccounting'
<1>1. inFlight' = inFlight - 1 /\ inFlight' = ScanCount(queue')
  BY DEF ScanMessageDone, TypeOK
<1>2. scanInProgress
  BY DEF ScanAccounting
<1>3. CASE inFlight - 1 = 0
  BY <1>1, <1>2, <1>3 DEF ScanMessageDone, ScanAccounting, ScanCount, ScanIndices
<1>4. CASE inFlight - 1 # 0
  <2>1. UNCHANGED timer
    BY <1>4 DEF ScanMessageDone, TypeOK
  <2>2. inFlight - 1 > 0
    BY <1>4 DEF TypeOK
  <2> QED
    BY <1>1, <1>2, <2>1, <2>2 DEF timer, ScanAccounting, ScanCount, ScanIndices
<1> QED
  BY <1>3, <1>4

\* The end of a tick that sent m, with rest then in the queue.
LEMMA TickEndsAccounts ==
  ASSUME TypeOK, ScanAccounting, NEW m, NEW rest \in Seq(Message),
         rows' \in [User -> [Key -> Row]], TickEnds(m, rest),
         ScanCount(rest) = IF m.isScanMessage THEN inFlight - 1 ELSE inFlight
  PROVE  ScanAccounting'
<1>1. CASE m.isScanMessage
  <2>1. inFlight > 0
    BY <1>1, ScanIndicesFinite DEF TypeOK
  <2> QED
    BY <1>1, <2>1, ScanMessageDoneAccounts DEF TickEnds
<1>2. CASE ~m.isScanMessage
  <2>1. << >> \in Seq(Message) /\ NoScanIn(<< >>)
    BY DEF NoScanIn
  <2>2. (CanScan /\ BeginScan(rest, rows', << >>)) \/ NoScan(rest, << >>)
    BY <1>2 DEF TickEnds
  <2> QED
    BY <1>2, <2>1, <2>2, RecoveryScanAccounts
<1> QED
  BY <1>1, <1>2

-----------------------------------------------------------------------------
(* Every step keeps the account.                                           *)

\* The variables ScanAccounting reads are untouched but for messages of the
\* normal flow, or alerts, at the end of the queue.
LEMMA AppendAccounts ==
  ASSUME TypeOK, ScanAccounting, NEW s \in Seq(Message), NoScanIn(s),
         queue' = queue \o s, UNCHANGED <<inFlight, scanInProgress>>
  PROVE  ScanAccounting'
<1>1. ScanCount(queue') = ScanCount(queue)
  BY ConcatCount DEF TypeOK
<1> QED
  BY <1>1 DEF ScanAccounting, ScanCount, ScanIndices

LEMMA EventLoggedAccounts == TypeOK /\ ScanAccounting /\ EventLogged => ScanAccounting'
<1> SUFFICES ASSUME TypeOK, ScanAccounting, EventLogged PROVE ScanAccounting'
  OBVIOUS
<1>1. PICK k \in Key, R \in SUBSET whitelist :
        \E s \in SetToSeqs({EventMessage(u, k) : u \in R}) : queue' = queue \o s
  BY DEF EventLogged
<1>2. PICK s \in SetToSeqs({EventMessage(u, k) : u \in R}) : queue' = queue \o s
  BY <1>1
<1>3. s \in Seq(Message) /\ NoScanIn(s)
  BY <1>2, EventSeqNoScan DEF TypeOK
<1> QED
  BY <1>2, <1>3, AppendAccounts DEF EventLogged, timer, scan

LEMMA NetworkRestoredAccounts ==
  TypeOK /\ ScanAccounting /\ NetworkRestored => ScanAccounting'
<1> SUFFICES ASSUME TypeOK, ScanAccounting, NetworkRestored PROVE ScanAccounting'
  OBVIOUS
<1>0. /\ << >> \in Seq(Message) /\ NoScanIn(<< >>) /\ queue \in Seq(Message)
      /\ rows \in [User -> [Key -> Row]] /\ ScanCount(queue) = inFlight
  BY DEF TypeOK, NoScanIn, ScanAccounting, ScanCount
<1>1. ASSUME NEW k \in Key, NEW R \in SUBSET whitelist,
             NEW s \in SetToSeqs({EventMessage(u, k) : u \in R}),
             runRecoveryScan(TRUE, queue \o s, rows, << >>)
      PROVE  ScanAccounting'
  <2>1. s \in Seq(Message) /\ NoScanIn(s)
    BY EventSeqNoScan DEF TypeOK
  <2>2. queue \o s \in Seq(Message) /\ ScanCount(queue \o s) = inFlight
    BY <1>0, <2>1, ConcatCount, ConcatType
  <2>3. \/ CanScan /\ BeginScan(queue \o s, rows, << >>)
        \/ NoScan(queue \o s, << >>)
    BY <1>1 DEF runRecoveryScan
  <2> QED
    BY <1>0, <2>2, <2>3, RecoveryScanAccounts
<1>2. ASSUME NEW alert \in BOOLEAN,
             NEW a \in SetToSeqs(IF alert THEN AdminAlerts ELSE {}),
             runRecoveryScan(TRUE, queue \o a, rows, << >>)
      PROVE  ScanAccounting'
  <2>1. \/ CanScan /\ BeginScan(queue \o a, rows, << >>)
        \/ NoScan(queue \o a, << >>)
    BY <1>2 DEF runRecoveryScan
  <2>2. a \in Seq(Message) /\ NoScanIn(a)
    BY AlertSeqNoScan
  <2>3. queue \o a \in Seq(Message) /\ ScanCount(queue \o a) = inFlight
    BY <1>0, <2>2, ConcatCount, ConcatType
  <2> QED
    BY <1>0, <2>1, <2>3, RecoveryScanAccounts
<1> QED
  BY <1>1, <1>2 DEF NetworkRestored

LEMMA MaintenanceAccounts == TypeOK /\ ScanAccounting /\ Maintenance => ScanAccounting'
<1> SUFFICES ASSUME TypeOK, ScanAccounting, Maintenance PROVE ScanAccounting'
  OBVIOUS
<1>1. PICK worsened \in BOOLEAN :
        \E a \in SetToSeqs(IF worsened THEN AdminAlerts ELSE {}) : queue' = queue \o a
  BY DEF Maintenance
<1>2. PICK a \in SetToSeqs(IF worsened THEN AdminAlerts ELSE {}) : queue' = queue \o a
  BY <1>1
<1>3. a \in Seq(Message) /\ NoScanIn(a)
  BY <1>2, AlertSeqNoScan
<1> QED
  BY <1>2, <1>3, AppendAccounts DEF Maintenance, timer, scan

LEMMA BootTasksAccounts == TypeOK /\ ScanAccounting /\ BootTasks => ScanAccounting'
<1> SUFFICES ASSUME TypeOK, ScanAccounting, BootTasks PROVE ScanAccounting'
  OBVIOUS
<1>1. PICK alert \in BOOLEAN :
        \E a \in SetToSeqs(IF alert THEN AdminAlerts ELSE {}) :
          runRecoveryScan(TRUE, queue, rows, a)
  BY DEF BootTasks
<1>2. PICK a \in SetToSeqs(IF alert THEN AdminAlerts ELSE {}) :
        runRecoveryScan(TRUE, queue, rows, a)
  BY <1>1
<1>3. /\ a \in Seq(Message) /\ NoScanIn(a) /\ queue \in Seq(Message)
      /\ rows \in [User -> [Key -> Row]] /\ ScanCount(queue) = inFlight
  BY <1>2, AlertSeqNoScan DEF TypeOK, ScanAccounting, ScanCount
<1>4. (CanScan /\ BeginScan(queue, rows, a)) \/ NoScan(queue, a)
  BY <1>2 DEF runRecoveryScan
<1> QED
  BY <1>3, <1>4, RecoveryScanAccounts

LEMMA AdminAlertAccounts == TypeOK /\ ScanAccounting /\ AdminAlert => ScanAccounting'
<1> SUFFICES ASSUME TypeOK, ScanAccounting, AdminAlert PROVE ScanAccounting'
  OBVIOUS
<1>1. PICK a \in SetToSeqs(AdminAlerts) : queue' = queue \o a
  BY DEF AdminAlert
<1>2. a \in Seq(Message) /\ NoScanIn(a)
  BY <1>1, AlertSeqNoScan
<1> QED
  BY <1>1, <1>2, AppendAccounts DEF AdminAlert, timer, scan

LEMMA QuietTickAccounts == TypeOK /\ ScanAccounting /\ QuietTick => ScanAccounting'
<1> SUFFICES ASSUME TypeOK, ScanAccounting, QuietTick PROVE ScanAccounting'
  OBVIOUS
<1>1. /\ << >> \in Seq(Message) /\ NoScanIn(<< >>) /\ queue \in Seq(Message)
      /\ rows \in [User -> [Key -> Row]] /\ ScanCount(queue) = inFlight
  BY DEF TypeOK, NoScanIn, ScanAccounting, ScanCount
<1>2. (CanScan /\ BeginScan(queue, rows, << >>)) \/ NoScan(queue, << >>)
  BY DEF QuietTick, runRecoveryScan
<1> QED
  BY <1>1, <1>2, RecoveryScanAccounts

LEMMA SendHeadAccounts == TypeOK /\ ScanAccounting /\ SendHead => ScanAccounting'
<1> SUFFICES ASSUME TypeOK, ScanAccounting, SendHead PROVE ScanAccounting'
  OBVIOUS
<1> DEFINE m == Head(queue)
           rest == Tail(queue)
<1>1. m \in Message /\ rest \in Seq(Message)
  BY HeadTailProperties DEF SendHead, TypeOK
<1>2. ScanCount(rest) = IF m.isScanMessage THEN inFlight - 1 ELSE inFlight
  BY TailCount DEF SendHead, TypeOK, ScanAccounting, ScanCount
<1>3. rows' \in [User -> [Key -> Row]] /\ queue' \in Seq(Message)
  BY TypeSendHead DEF TypeOK
<1>4. SendAlert(m) \/ SendSuccess(m) \/ SendPermanent(m)
        \/ SendExhausted(m) \/ SendRetry(m)
  BY DEF SendHead
<1> HIDE DEF m, rest
<1>5. CASE TickEnds(m, rest)
  BY <1>1, <1>2, <1>3, <1>5, TickEndsAccounts
<1>6. CASE \E a \in SetToSeqs(AdminAlerts) : TickEnds(m, rest \o a)
  <2>1. PICK a \in SetToSeqs(AdminAlerts) : TickEnds(m, rest \o a)
    BY <1>6
  <2>2. a \in Seq(Message) /\ NoScanIn(a)
    BY AlertSeqNoScan
  <2>3. rest \o a \in Seq(Message) /\ ScanCount(rest \o a) = ScanCount(rest)
    BY <1>1, <2>2, ConcatType, ConcatCount
  <2> QED
    BY <1>2, <1>3, <2>1, <2>3, TickEndsAccounts
<1>7. CASE SendRetry(m)
  <2>1. queue' = rest
    BY <1>7 DEF SendRetry, rest
  <2>2. CASE m.isScanMessage
    <3>1. inFlight > 0
      BY <1>1, <1>2, <2>2, ScanIndicesFinite DEF TypeOK
    <3> QED
      BY <1>2, <1>3, <1>7, <2>1, <2>2, <3>1, ScanMessageDoneAccounts DEF SendRetry
  <2>3. CASE ~m.isScanMessage
    <3>1. UNCHANGED <<scanInProgress, scan>>
      BY <1>7, <2>3 DEF SendRetry
    <3> QED
      BY <1>2, <2>1, <2>3, <3>1 DEF scan, ScanAccounting, ScanCount, ScanIndices
  <2> QED
    BY <2>2, <2>3
<1>8. SendAlert(m) \/ SendSuccess(m) \/ SendExhausted(m) => TickEnds(m, rest)
  BY FinishTickEnds DEF SendAlert, SendSuccess, SendExhausted, rest
<1>9. SendPermanent(m) => \E a \in SetToSeqs(AdminAlerts) : TickEnds(m, rest \o a)
  BY FinishTickEnds DEF SendPermanent, rest
<1> QED
  BY <1>4, <1>5, <1>6, <1>7, <1>8, <1>9

LEMMA CrashAccounts == Crash => ScanAccounting'
<1> SUFFICES ASSUME Crash PROVE ScanAccounting'
  OBVIOUS
<1>1. << >> \in Seq(Message) /\ NoScanIn(<< >>)
  BY DEF NoScanIn
<1>2. ScanCount(<< >>) = 0
  BY <1>1, NoScanCount
<1> QED
  BY <1>2 DEF Crash, ScanAccounting, ScanCount, ScanIndices

LEMMA InitAccounts == Init => ScanAccounting
<1>1. << >> \in Seq(Message) /\ NoScanIn(<< >>)
  BY DEF NoScanIn
<1>2. ScanCount(<< >>) = 0
  BY <1>1, NoScanCount
<1> QED
  BY <1>2 DEF Init, ScanAccounting, ScanCount

LEMMA NextAccounts == TypeOK /\ ScanAccounting /\ [Next]_vars => ScanAccounting'
<1> SUFFICES ASSUME TypeOK, ScanAccounting, [Next]_vars PROVE ScanAccounting'
  OBVIOUS
<1> USE DEF ScanAccounting, ScanIndices
<1>1. CASE WhitelistChange
  BY <1>1 DEF WhitelistChange, timer, scan
<1>2. CASE \E u \in User : handleResetNotif(u)
  BY <1>2 DEF handleResetNotif, timer, scan
<1>3. CASE TimerElapses
  BY <1>3 DEF TimerElapses, scan
<1>4. CASE UNCHANGED vars
  BY <1>4 DEF vars, timer, scan
<1>5. CASE tickNotificationEngine
  BY <1>5, SendHeadAccounts, QuietTickAccounts DEF tickNotificationEngine
<1> QED
  BY <1>1, <1>2, <1>3, <1>4, <1>5, EventLoggedAccounts, NetworkRestoredAccounts,
     MaintenanceAccounts, BootTasksAccounts, AdminAlertAccounts, CrashAccounts DEF Next

\* In every reachable state g_scanMessagesInFlight is the number of scan
\* messages in the queue, and scanInProgress_ is set exactly while there are
\* some: no scan is ended early or left open, whatever happens.
THEOREM ScanAccountingHolds == Spec => []ScanAccounting
BY TypeCorrect, InitAccounts, NextAccounts, PTL DEF Spec

-----------------------------------------------------------------------------
(* The inductive invariant.  A message of the normal flow is a first       *)
(* attempt: its row does not exist yet.  A scan message carries the count  *)
(* of a PENDING row, which only a reset of the log can take away.          *)

\* The message m fits the log rs, the fates ft and the unrecorded ones un.
MsgFits(m, rs, ft, un) ==
  m.trackDelivery =>
    IF m.isScanMessage
    THEN /\ m.attemptCountBefore \in 1..MaxRetries
         /\ rs[m.chatId][m.key] \in
              {NoRow, [state |-> "PENDING", n |-> m.attemptCountBefore]}
         /\ ft[m.chatId][m.key] # "unsent"
         /\ About(m) \notin un =>
              /\ ft[m.chatId][m.key] = "owed"
              /\ rs[m.chatId][m.key] # NoRow
    ELSE /\ m.attemptCountBefore = 0
         /\ rs[m.chatId][m.key] = NoRow
         /\ ft[m.chatId][m.key] = "owed"

\* So does the notification <<u, k>>.
NoteFits(u, k, rs, ft, un) ==
  /\ ft[u][k] = "unsent" => rs[u][k] = NoRow
  /\ rs[u][k].state = "PENDING" => rs[u][k].n \in 1..MaxRetries
  /\ rs[u][k].state = "ABANDONED" => rs[u][k].n \in 1..(MaxRetries + 1)
  /\ rs[u][k].state = "PENDING" /\ <<u, k>> \notin un => ft[u][k] = "owed"

MsgsFit(q, rs, ft, un) == \A i \in DOMAIN q : MsgFits(q[i], rs, ft, un)
LogFits(rs, ft, un) == \A u \in User, k \in Key : NoteFits(u, k, rs, ft, un)

IInv ==
  /\ TypeOK
  /\ ScanAccounting
  /\ LogFits(rows, fate, unrecorded)
  /\ MsgsFit(queue, rows, fate, unrecorded)
  /\ Distinct(queue)

-----------------------------------------------------------------------------
(* Queues without repetitions.                                             *)

Untracked(q) == \A i \in DOMAIN q : ~q[i].trackDelivery

\* No tracked message of q is about a notification of s.
Apart(q, s) ==
  \A i \in DOMAIN q, j \in DOMAIN s :
    q[i].trackDelivery /\ s[j].trackDelivery => About(q[i]) # About(s[j])

LEMMA DistinctConcat ==
  ASSUME NEW q \in Seq(Message), NEW s \in Seq(Message),
         Distinct(q), Distinct(s), Apart(q, s)
  PROVE  Distinct(q \o s)
<1> DEFINE r == q \o s
<1> SUFFICES ASSUME NEW i \in DOMAIN r, NEW j \in DOMAIN r,
                    r[i].trackDelivery, r[j].trackDelivery, About(r[i]) = About(r[j])
             PROVE  i = j
  BY DEF Distinct
<1>1. /\ Len(q) \in Nat /\ Len(s) \in Nat
      /\ i \in 1..(Len(q) + Len(s)) /\ j \in 1..(Len(q) + Len(s))
      /\ \A h \in 1..(Len(q) + Len(s)) :
           r[h] = IF h <= Len(q) THEN q[h] ELSE s[h - Len(q)]
  BY ConcatProperties
<1> HIDE DEF r
<1>2. CASE i <= Len(q) /\ j <= Len(q)
  BY <1>1, <1>2 DEF Distinct
<1>3. CASE i <= Len(q) /\ ~(j <= Len(q))
  <2>1. i \in DOMAIN q /\ j - Len(q) \in DOMAIN s
    BY <1>1, <1>3
  <2> QED
    BY <1>1, <1>3, <2>1 DEF Apart
<1>4. CASE ~(i <= Len(q)) /\ j <= Len(q)
  <2>1. j \in DOMAIN q /\ i - Len(q) \in DOMAIN s
    BY <1>1, <1>4
  <2> QED
    BY <1>1, <1>4, <2>1 DEF Apart
<1>5. CASE ~(i <= Len(q)) /\ ~(j <= Len(q))
  <2>1. i - Len(q) \in DOMAIN s /\ j - Len(q) \in DOMAIN s
    BY <1>1, <1>5
  <2>2. i - Len(q) = j - Len(q)
    BY <1>1, <1>5, <2>1 DEF Distinct
  <2> QED
    BY <1>1, <2>2
<1> QED
  BY <1>2, <1>3, <1>4, <1>5

\* Alerts never collide with anything.
LEMMA DistinctUntracked ==
  ASSUME NEW q \in Seq(Message), Distinct(q), NEW s \in Seq(Message), Untracked(s)
  PROVE  Distinct(q \o s)
BY DistinctConcat DEF Untracked, Apart, Distinct

LEMMA DistinctTail ==
  ASSUME NEW q \in Seq(Message), q # << >>, Distinct(q)
  PROVE  /\ Distinct(Tail(q))
         /\ \A i \in DOMAIN Tail(q) :
              /\ i + 1 \in DOMAIN q
              /\ Tail(q)[i] = q[i + 1]
              /\ Head(q).trackDelivery /\ Tail(q)[i].trackDelivery
                   => About(Tail(q)[i]) # About(Head(q))
<1>1. /\ Tail(q) \in Seq(Message) /\ Len(Tail(q)) = Len(q) - 1 /\ Len(q) \in Nat \ {0}
      /\ \A i \in 1..Len(Tail(q)) : Tail(q)[i] = q[i + 1]
      /\ Head(q) = q[1] /\ 1 \in DOMAIN q
  BY HeadTailProperties, EmptySeq
<1>2. \A i \in DOMAIN Tail(q) : i + 1 \in DOMAIN q /\ Tail(q)[i] = q[i + 1] /\ i + 1 # 1
  BY <1>1
<1>3. Distinct(Tail(q))
  <2> SUFFICES ASSUME NEW i \in DOMAIN Tail(q), NEW j \in DOMAIN Tail(q),
                      Tail(q)[i].trackDelivery, Tail(q)[j].trackDelivery,
                      About(Tail(q)[i]) = About(Tail(q)[j])
               PROVE  i = j
    BY DEF Distinct
  <2>1. i + 1 = j + 1
    BY <1>2 DEF Distinct
  <2> QED
    BY <1>1, <2>1
<1> QED
  BY <1>1, <1>2, <1>3 DEF Distinct

\* Messages about different notifications, one each, in any order.
LEMMA DistinctSeq ==
  ASSUME NEW S, S \subseteq Message, IsFiniteSet(S),
         \A a, b \in S : About(a) = About(b) => a = b,
         NEW s \in SetToSeqs(S)
  PROVE  Distinct(s)
<1>1. /\ \A i \in DOMAIN s : s[i] \in S
      /\ \A i, j \in DOMAIN s : s[i] = s[j] => i = j
  BY SetToSeqsIsSeq
<1> QED
  BY <1>1 DEF Distinct

-----------------------------------------------------------------------------
(* What happens to one notification leaves the others as they are.         *)

Untouched(u, k) ==
  /\ rows'[u][k] = rows[u][k]
  /\ fate'[u][k] = fate[u][k]
  /\ <<u, k>> \in unrecorded' <=> <<u, k>> \in unrecorded

LEMMA FrameMsgs ==
  ASSUME NEW q, MsgsFit(q, rows, fate, unrecorded),
         \A i \in DOMAIN q : q[i].trackDelivery => Untouched(q[i].chatId, q[i].key)
  PROVE  MsgsFit(q, rows', fate', unrecorded')
<1> SUFFICES ASSUME NEW i \in DOMAIN q, q[i].trackDelivery
             PROVE  MsgFits(q[i], rows', fate', unrecorded')
  BY DEF MsgsFit, MsgFits
<1> DEFINE m == q[i]
<1>1. MsgFits(m, rows, fate, unrecorded)
  BY DEF MsgsFit
<1>2. Untouched(m.chatId, m.key)
  OBVIOUS
<1> HIDE DEF m
<1>3. MsgFits(m, rows', fate', unrecorded')
  BY <1>1, <1>2 DEF MsgFits, Untouched, About
<1> QED
  BY <1>3 DEF m

LEMMA FrameLog ==
  ASSUME LogFits(rows, fate, unrecorded),
         \A u \in User, k \in Key :
           Untouched(u, k) \/ NoteFits(u, k, rows', fate', unrecorded')
  PROVE  LogFits(rows', fate', unrecorded')
<1> SUFFICES ASSUME NEW u \in User, NEW k \in Key, Untouched(u, k)
             PROVE  NoteFits(u, k, rows', fate', unrecorded')
  BY DEF LogFits
<1>1. NoteFits(u, k, rows, fate, unrecorded)
  BY DEF LogFits
<1> QED
  BY <1>1 DEF NoteFits, Untouched

-----------------------------------------------------------------------------
(* What is put into the queue.                                             *)

\* A scan's messages fit the log it reads and differ from each other.
LEMMA ScanSeqFits ==
  ASSUME NEW seen \in SUBSET User,
         NEW rs \in [User -> [Key -> Row]], NEW ft, NEW un, LogFits(rs, ft, un),
         NEW s \in SetToSeqs(ScanMessages(rs, seen))
  PROVE  /\ s \in Seq(Message) /\ MsgsFit(s, rs, ft, un) /\ Distinct(s)
         /\ \A i \in DOMAIN s : /\ s[i].chatId \in User /\ s[i].key \in Key
                               /\ rs[s[i].chatId][s[i].key].state = "PENDING"
<1>1. ScanMessages(rs, seen) \subseteq Message /\ IsFiniteSet(ScanMessages(rs, seen))
  BY ScanMessagesType DEF Message
<1>2. /\ s \in Seq(Message)
      /\ \A i \in DOMAIN s : s[i] \in ScanMessages(rs, seen)
  BY <1>1, SetToSeqsIsSeq
<1>3. ASSUME NEW m \in ScanMessages(rs, seen)
      PROVE  /\ m.chatId \in User /\ m.key \in Key
             /\ rs[m.chatId][m.key].state = "PENDING"
             /\ m = ScanMessage(rs, m.chatId, m.key)
  <2>1. PICK u \in seen : m \in {ScanMessage(rs, u, k) : k \in PendingIn(rs, u)}
    BY DEF ScanMessages
  <2>2. PICK k \in PendingIn(rs, u) : m = ScanMessage(rs, u, k)
    BY <2>1
  <2>3. m.chatId = u /\ m.key = k
    BY <2>2 DEF ScanMessage
  <2> QED
    BY <2>2, <2>3 DEF PendingIn
<1>4. ASSUME NEW m \in ScanMessages(rs, seen)
      PROVE  MsgFits(m, rs, ft, un)
  <2> DEFINE u == m.chatId
             k == m.key
  <2>1. u \in User /\ k \in Key /\ rs[u][k].state = "PENDING" /\ rs[u][k] \in Row
    BY <1>3
  <2>2. m.isScanMessage /\ m.attemptCountBefore = rs[u][k].n
    BY <1>3 DEF ScanMessage
  <2>3. NoteFits(u, k, rs, ft, un)
    BY <2>1 DEF LogFits
  <2>4. rs[u][k] = [state |-> "PENDING", n |-> rs[u][k].n] /\ rs[u][k] # NoRow
    BY <2>1 DEF Row, NoRow
  <2> QED
    BY <2>1, <2>2, <2>3, <2>4 DEF MsgFits, NoteFits, About, NoRow
<1>5. \A a, b \in ScanMessages(rs, seen) : About(a) = About(b) => a = b
  <2> SUFFICES ASSUME NEW a \in ScanMessages(rs, seen), NEW b \in ScanMessages(rs, seen),
                      About(a) = About(b)
               PROVE  a = b
    OBVIOUS
  <2>1. a.chatId = b.chatId /\ a.key = b.key
    BY DEF About
  <2> QED
    BY <1>3, <2>1
<1>6. Distinct(s)
  BY <1>1, <1>5, DistinctSeq
<1> QED
  BY <1>2, <1>3, <1>4, <1>6 DEF MsgsFit

\* The messages of s are first attempts at k for users of R.
FirstAttempts(s, R, k) ==
  \A i \in DOMAIN s : /\ s[i].chatId \in R /\ s[i].key = k
                      /\ ~s[i].isScanMessage /\ s[i].attemptCountBefore = 0

\* A new event's messages are that, and differ from each other.
LEMMA EventSeqFits ==
  ASSUME NEW R \in SUBSET User, NEW k \in Key,
         NEW s \in SetToSeqs({EventMessage(u, k) : u \in R})
  PROVE  s \in Seq(Message) /\ Distinct(s) /\ FirstAttempts(s, R, k)
<1> DEFINE E == {EventMessage(u, k) : u \in R}
<1>1. E \subseteq Message /\ IsFiniteSet(E)
  BY EventMessagesType DEF Message
<1>2. ASSUME NEW m \in E
      PROVE  /\ m.chatId \in R /\ m.key = k
             /\ ~m.isScanMessage /\ m.attemptCountBefore = 0
             /\ m = EventMessage(m.chatId, k)
  BY DEF EventMessage
<1>4. \A a, b \in E : About(a) = About(b) => a = b
  BY <1>2 DEF About
<1> HIDE DEF E
<1>5. Distinct(s)
  BY <1>1, <1>4, DistinctSeq DEF E
<1>6. s \in Seq(Message) /\ \A i \in DOMAIN s : s[i] \in E
  BY <1>1, SetToSeqsIsSeq DEF E
<1> QED
  BY <1>2, <1>5, <1>6 DEF FirstAttempts

LEMMA AlertSeqUntracked ==
  ASSUME TypeOK, NEW a, a \in SetToSeqs(AdminAlerts) \/ a \in SetToSeqs({})
  PROVE  a \in Seq(Message) /\ NoScanIn(a) /\ Untracked(a)
<1>1. AdminAlerts \subseteq Message /\ IsFiniteSet(AdminAlerts)
  BY AdminAlertsType DEF TypeOK, Message
<1>2. \A m \in AdminAlerts : ~m.trackDelivery
  BY AdminAlertsType DEF TypeOK, UntrackedMessage
<1>3. CASE a \in SetToSeqs(AdminAlerts)
  <2>1. \A i \in DOMAIN a : a[i] \in AdminAlerts
    BY <1>1, <1>3, SetToSeqsIsSeq
  <2> QED
    BY <1>2, <2>1, AlertSeqNoScan DEF Untracked
<1>4. CASE a \in SetToSeqs({})
  <2>1. {} \subseteq Message /\ IsFiniteSet({})
    BY FS_EmptySet
  <2>2. \A i \in DOMAIN a : a[i] \in {}
    BY <1>4, <2>1, SetToSeqsIsSeq
  <2> QED
    BY <2>2, AlertSeqNoScan DEF Untracked
<1> QED
  BY <1>3, <1>4

LEMMA MsgsFitConcat ==
  ASSUME NEW q \in Seq(Message), NEW s \in Seq(Message), NEW rs, NEW ft, NEW un,
         MsgsFit(q, rs, ft, un), MsgsFit(s, rs, ft, un)
  PROVE  MsgsFit(q \o s, rs, ft, un)
<1> SUFFICES ASSUME NEW i \in DOMAIN (q \o s)
             PROVE  MsgFits((q \o s)[i], rs, ft, un)
  BY DEF MsgsFit
<1>1. /\ Len(q) \in Nat /\ Len(s) \in Nat /\ i \in 1..(Len(q) + Len(s))
      /\ (q \o s)[i] = IF i <= Len(q) THEN q[i] ELSE s[i - Len(q)]
  BY ConcatProperties
<1>2. CASE i <= Len(q)
  BY <1>1, <1>2 DEF MsgsFit
<1>3. CASE ~(i <= Len(q))
  <2>1. i - Len(q) \in DOMAIN s
    BY <1>1, <1>3
  <2> QED
    BY <1>1, <1>3, <2>1 DEF MsgsFit
<1> QED
  BY <1>2, <1>3

LEMMA UntrackedFits ==
  ASSUME NEW q, Untracked(q), NEW rs, NEW ft, NEW un
  PROVE  MsgsFit(q, rs, ft, un)
BY DEF Untracked, MsgsFit, MsgFits

-----------------------------------------------------------------------------
(* A scan, asked for over the log rs on the queue q, when rs and the new   *)
(* log have the same PENDING rows.                                         *)

LEMMA RecoveryScanFits ==
  ASSUME TypeOK, ScanAccounting,
         NEW q \in Seq(Message), ScanCount(q) = inFlight, Distinct(q),
         NEW rs \in [User -> [Key -> Row]],
         NEW rn, NEW ft, NEW un, LogFits(rs, ft, un), MsgsFit(q, rn, ft, un),
         \A u \in User, k \in Key : rs[u][k].state = "PENDING" => rn[u][k] = rs[u][k],
         NEW after \in Seq(Message), Untracked(after),
         (CanScan /\ BeginScan(q, rs, after)) \/ NoScan(q, after)
  PROVE  MsgsFit(queue', rn, ft, un) /\ Distinct(queue')
<1>1. CASE CanScan /\ BeginScan(q, rs, after)
  <2>1. NoScanIn(q)
    BY <1>1, NoScanCount DEF CanScan, ScanAccounting, TypeOK
  <2>0. PICK seen \in Legible :
          \E s \in SetToSeqs(ScanMessages(rs, seen)) : queue' = q \o s \o after
    BY <1>1 DEF BeginScan
  <2>2. PICK s \in SetToSeqs(ScanMessages(rs, seen)) : queue' = q \o s \o after
    BY <2>0
  <2>3. /\ s \in Seq(Message) /\ MsgsFit(s, rs, ft, un) /\ Distinct(s)
        /\ \A i \in DOMAIN s : /\ s[i].chatId \in User /\ s[i].key \in Key
                              /\ rs[s[i].chatId][s[i].key].state = "PENDING"
    <3>1. seen \in SUBSET User
      BY LegibleType DEF TypeOK
    <3> QED
      BY <2>2, <3>1, ScanSeqFits
  <2>4. MsgsFit(s, rn, ft, un)
    BY <2>3 DEF MsgsFit, MsgFits
  <2>5. Apart(q, s)
    <3> SUFFICES ASSUME NEW i \in DOMAIN q, NEW j \in DOMAIN s,
                        q[i].trackDelivery, About(q[i]) = About(s[j])
                 PROVE  FALSE
      BY DEF Apart
    <3>1. q[i].chatId = s[j].chatId /\ q[i].key = s[j].key
      BY DEF About
    <3>2. rn[q[i].chatId][q[i].key] = NoRow
      BY <2>1 DEF MsgsFit, MsgFits, NoScanIn
    <3>3. rs[s[j].chatId][s[j].key].state = "PENDING"
          /\ s[j].chatId \in User /\ s[j].key \in Key
      BY <2>3
    <3>4. rn[s[j].chatId][s[j].key].state = "PENDING"
      BY <3>3
    <3> QED
      BY <3>1, <3>2, <3>4 DEF NoRow
  <2>6. q \o s \in Seq(Message) /\ Distinct(q \o s) /\ MsgsFit(q \o s, rn, ft, un)
    BY <2>3, <2>4, <2>5, ConcatType, DistinctConcat, MsgsFitConcat
  <2> QED
    BY <2>2, <2>6, DistinctUntracked, UntrackedFits, MsgsFitConcat
<1>2. CASE NoScan(q, after)
  BY <1>2, DistinctUntracked, UntrackedFits, MsgsFitConcat DEF NoScan
<1> QED
  BY <1>1, <1>2

-----------------------------------------------------------------------------
(* Every step keeps the invariant.                                         *)

StepFits ==
  /\ LogFits(rows', fate', unrecorded')
  /\ MsgsFit(queue', rows', fate', unrecorded')
  /\ Distinct(queue')

\* Nothing changes but for alerts at the end of the queue.
LEMMA QuietStepFits ==
  ASSUME IInv, UNCHANGED <<rows, fate, unrecorded>>,
         NEW a \in Seq(Message), Untracked(a), queue' = queue \o a
  PROVE  StepFits
<1>1. MsgsFit(a, rows, fate, unrecorded)
  BY UntrackedFits
<1>2. queue \in Seq(Message)
  BY DEF IInv, TypeOK
<1>3. MsgsFit(queue \o a, rows, fate, unrecorded) /\ Distinct(queue \o a)
  BY <1>1, <1>2, MsgsFitConcat, DistinctUntracked DEF IInv
<1> QED
  BY <1>3 DEF StepFits, IInv

LEMMA NotifyEventFits ==
  ASSUME IInv, NEW k \in Key, NEW R \in SUBSET whitelist,
         NEW s \in SetToSeqs({EventMessage(u, k) : u \in R}),
         notifyEvent(k, R, s), UNCHANGED <<rows, unrecorded>>
  PROVE  /\ LogFits(rows, fate', unrecorded)
         /\ MsgsFit(queue \o s, rows, fate', unrecorded)
         /\ Distinct(queue \o s)
         /\ s \in Seq(Message) /\ NoScanIn(s)
<1>1. /\ R \in SUBSET User /\ queue \in Seq(Message)
      /\ fate \in [User -> [Key -> {"unsent", "owed", "delivered", "abandoned"}]]
  BY DEF IInv, TypeOK
<1>2. \A u \in User : fate[u][k] = "unsent" /\ rows[u][k] = NoRow
  BY DEF IInv, LogFits, NoteFits, notifyEvent
<1>3. \A u \in User, j \in Key :
        fate'[u][j] = IF u \in R /\ j = k THEN "owed" ELSE fate[u][j]
  BY DEF notifyEvent
<1>4. LogFits(rows, fate', unrecorded)
  <2> SUFFICES ASSUME NEW u \in User, NEW j \in Key
               PROVE  NoteFits(u, j, rows, fate', unrecorded)
    BY DEF LogFits
  <2>1. NoteFits(u, j, rows, fate, unrecorded)
    BY DEF IInv, LogFits
  <2>2. CASE u \in R /\ j = k
    BY <1>2, <1>3, <2>2 DEF NoteFits, NoRow
  <2>3. CASE ~(u \in R /\ j = k)
    BY <1>3, <2>1, <2>3 DEF NoteFits
  <2> QED
    BY <2>2, <2>3
<1>5. /\ s \in Seq(Message) /\ MsgsFit(s, rows, fate', unrecorded) /\ Distinct(s)
      /\ \A i \in DOMAIN s : s[i].chatId \in R /\ s[i].key = k
  <2>1. \A u \in R : rows[u][k] = NoRow /\ fate'[u][k] = "owed"
    BY <1>1, <1>2, <1>3
  <2>2. s \in Seq(Message) /\ Distinct(s) /\ FirstAttempts(s, R, k)
    BY <1>1, EventSeqFits
  <2>3. MsgsFit(s, rows, fate', unrecorded)
    BY <2>1, <2>2 DEF MsgsFit, MsgFits, FirstAttempts
  <2> QED
    BY <2>2, <2>3 DEF FirstAttempts
<1>6. ASSUME NEW i \in DOMAIN queue, queue[i].trackDelivery
      PROVE  queue[i].key # k /\ Untouched(queue[i].chatId, queue[i].key)
  <2>1. queue[i].chatId \in User /\ queue[i].key \in Key
    BY <1>1, <1>6, QueuedNotification DEF TrackedMessage
  <2>2. fate[queue[i].chatId][queue[i].key] # "unsent"
    BY <1>6 DEF IInv, MsgsFit, MsgFits
  <2>3. queue[i].key # k
    BY <1>2, <2>1, <2>2
  <2> QED
    BY <1>3, <2>1, <2>3 DEF Untouched
<1>7. MsgsFit(queue, rows, fate', unrecorded)
  BY <1>6, FrameMsgs DEF IInv
<1>8. Apart(queue, s)
  BY <1>5, <1>6 DEF Apart, About
<1>9. Distinct(queue \o s) /\ MsgsFit(queue \o s, rows, fate', unrecorded)
  BY <1>1, <1>5, <1>7, <1>8, DistinctConcat, MsgsFitConcat DEF IInv
<1> QED
  BY <1>1, <1>4, <1>5, <1>9, EventSeqNoScan

LEMMA EventLoggedFits == IInv /\ EventLogged => StepFits
<1> SUFFICES ASSUME IInv, EventLogged PROVE StepFits
  OBVIOUS
<1>1. PICK k \in Key, R \in SUBSET whitelist :
        \E s \in SetToSeqs({EventMessage(u, k) : u \in R}) :
          notifyEvent(k, R, s) /\ queue' = queue \o s /\ UNCHANGED log
  BY DEF EventLogged
<1>2. PICK s \in SetToSeqs({EventMessage(u, k) : u \in R}) :
        notifyEvent(k, R, s) /\ queue' = queue \o s /\ UNCHANGED log
  BY <1>1
<1> QED
  BY <1>2, NotifyEventFits DEF log, StepFits

LEMMA NetworkRestoredFits == IInv /\ NetworkRestored => StepFits
<1> SUFFICES ASSUME IInv, NetworkRestored PROVE StepFits
  OBVIOUS
<1>0. /\ << >> \in Seq(Message) /\ Untracked(<< >>) /\ queue \in Seq(Message)
      /\ rows \in [User -> [Key -> Row]] /\ ScanCount(queue) = inFlight
      /\ UNCHANGED <<rows, unrecorded>>
  BY DEF IInv, TypeOK, ScanAccounting, ScanCount, Untracked, NetworkRestored, log
<1>1. ASSUME NEW k \in Key, NEW R \in SUBSET whitelist,
             NEW s \in SetToSeqs({EventMessage(u, k) : u \in R}),
             notifyEvent(k, R, s), runRecoveryScan(TRUE, queue \o s, rows, << >>)
      PROVE  StepFits
  <2>1. /\ LogFits(rows, fate', unrecorded)
        /\ MsgsFit(queue \o s, rows, fate', unrecorded)
        /\ Distinct(queue \o s)
        /\ s \in Seq(Message) /\ NoScanIn(s)
    BY <1>0, <1>1, NotifyEventFits
  <2>2. queue \o s \in Seq(Message) /\ ScanCount(queue \o s) = inFlight
    BY <1>0, <2>1, ConcatType, ConcatCount
  <2>3. \/ CanScan /\ BeginScan(queue \o s, rows, << >>)
        \/ NoScan(queue \o s, << >>)
    BY <1>1 DEF runRecoveryScan
  <2>4. MsgsFit(queue', rows, fate', unrecorded) /\ Distinct(queue')
    BY <1>0, <2>1, <2>2, <2>3, RecoveryScanFits DEF IInv
  <2> QED
    BY <1>0, <2>1, <2>4 DEF StepFits
<1>2. ASSUME NEW alert \in BOOLEAN,
             NEW a \in SetToSeqs(IF alert THEN AdminAlerts ELSE {}),
             runRecoveryScan(TRUE, queue \o a, rows, << >>), UNCHANGED fate
      PROVE  StepFits
  <2>1. \/ CanScan /\ BeginScan(queue \o a, rows, << >>)
        \/ NoScan(queue \o a, << >>)
    BY <1>2 DEF runRecoveryScan
  <2>2. a \in Seq(Message) /\ Untracked(a) /\ NoScanIn(a)
    BY AlertSeqUntracked, AlertSeqNoScan DEF IInv
  <2>3. queue \o a \in Seq(Message) /\ ScanCount(queue \o a) = inFlight
    BY <1>0, <2>2, ConcatType, ConcatCount
  <2>4. MsgsFit(queue \o a, rows, fate, unrecorded) /\ Distinct(queue \o a)
    BY <1>0, <2>2, UntrackedFits, MsgsFitConcat, DistinctUntracked DEF IInv
  <2>5. MsgsFit(queue', rows, fate, unrecorded) /\ Distinct(queue')
    BY <1>0, <2>1, <2>3, <2>4, RecoveryScanFits DEF IInv
  <2> QED
    BY <1>0, <1>2, <2>5 DEF StepFits, IInv
<1> QED
  BY <1>1, <1>2 DEF NetworkRestored

\* A queued message is about a row that can still change.
LEMMA LiveRow ==
  ASSUME NEW m, NEW rs, NEW ft, NEW un, MsgFits(m, rs, ft, un), m.trackDelivery
  PROVE  rs[m.chatId][m.key].state \notin Terminal
<1>1. rs[m.chatId][m.key].state \in {"NONE", "PENDING"}
  BY DEF MsgFits, NoRow
<1> QED
  BY <1>1 DEF Terminal

\* Rotation takes away settled rows only.
LEMMA RotationFits ==
  ASSUME IInv, NEW worsened, NEW gone \in SUBSET Settled,
         performMaintenanceIfDue(worsened, gone), UNCHANGED <<fate, unrecorded>>
  PROVE  /\ LogFits(rows', fate', unrecorded')
         /\ MsgsFit(queue, rows', fate', unrecorded')
         /\ \A u \in User, k \in Key :
              rows[u][k].state = "PENDING" => rows'[u][k] = rows[u][k]
<1>1. \A u \in User, k \in Key :
        \/ rows'[u][k] = rows[u][k]
        \/ rows'[u][k] = NoRow /\ rows[u][k].state \in Terminal
  BY DEF performMaintenanceIfDue, Settled
<1>2. LogFits(rows', fate', unrecorded')
  <2> SUFFICES ASSUME NEW u \in User, NEW k \in Key
               PROVE  NoteFits(u, k, rows', fate', unrecorded')
    BY DEF LogFits
  <2>1. NoteFits(u, k, rows, fate, unrecorded)
    BY DEF IInv, LogFits
  <2>2. CASE rows'[u][k] = rows[u][k]
    BY <2>1, <2>2 DEF NoteFits
  <2>3. CASE rows'[u][k] = NoRow
    BY <2>3 DEF NoteFits, NoRow
  <2> QED
    BY <1>1, <2>2, <2>3
<1>3. ASSUME NEW i \in DOMAIN queue, queue[i].trackDelivery
      PROVE  Untouched(queue[i].chatId, queue[i].key)
  <2>1. queue[i].chatId \in User /\ queue[i].key \in Key
    BY <1>3, QueuedNotification DEF TrackedMessage, IInv, TypeOK
  <2>2. MsgFits(queue[i], rows, fate, unrecorded)
    BY DEF IInv, MsgsFit
  <2>3. rows[queue[i].chatId][queue[i].key].state \notin Terminal
    BY <1>3, <2>2, LiveRow
  <2> QED
    BY <1>1, <2>1, <2>3 DEF Untouched
<1>4. MsgsFit(queue, rows', fate', unrecorded')
  BY <1>3, FrameMsgs DEF IInv
<1> QED
  BY <1>1, <1>2, <1>4 DEF Terminal

LEMMA MaintenanceFits == IInv /\ Maintenance => StepFits
<1> SUFFICES ASSUME IInv, Maintenance PROVE StepFits
  OBVIOUS
<1>1. PICK worsened \in BOOLEAN, gone \in SUBSET Settled :
        /\ performMaintenanceIfDue(worsened, gone)
        /\ \E a \in SetToSeqs(IF worsened THEN AdminAlerts ELSE {}) : queue' = queue \o a
  BY DEF Maintenance
<1>2. PICK a \in SetToSeqs(IF worsened THEN AdminAlerts ELSE {}) : queue' = queue \o a
  BY <1>1
<1>3. a \in Seq(Message) /\ Untracked(a)
  BY <1>2, AlertSeqUntracked DEF IInv
<1>4. /\ LogFits(rows', fate', unrecorded')
      /\ MsgsFit(queue, rows', fate', unrecorded')
  BY <1>1, RotationFits DEF Maintenance
<1>5. queue \in Seq(Message) /\ Distinct(queue)
  BY DEF IInv, TypeOK
<1>6. MsgsFit(queue \o a, rows', fate', unrecorded') /\ Distinct(queue \o a)
  BY <1>3, <1>4, <1>5, UntrackedFits, MsgsFitConcat, DistinctUntracked
<1> QED
  BY <1>2, <1>4, <1>6 DEF StepFits

LEMMA BootTasksFits == IInv /\ BootTasks => StepFits
<1> SUFFICES ASSUME IInv, BootTasks PROVE StepFits
  OBVIOUS
<1>1. PICK worsened, alert \in BOOLEAN, gone \in SUBSET Settled :
        /\ performMaintenanceIfDue(worsened, gone)
        /\ \E a \in SetToSeqs(IF alert THEN AdminAlerts ELSE {}) :
             runRecoveryScan(TRUE, queue, rows, a)
  BY DEF BootTasks
<1>2. PICK a \in SetToSeqs(IF alert THEN AdminAlerts ELSE {}) :
        runRecoveryScan(TRUE, queue, rows, a)
  BY <1>1
<1>3. a \in Seq(Message) /\ Untracked(a)
  BY <1>2, AlertSeqUntracked DEF IInv
<1>4. /\ queue \in Seq(Message) /\ Distinct(queue)
      /\ rows \in [User -> [Key -> Row]] /\ ScanCount(queue) = inFlight
      /\ UNCHANGED <<fate, unrecorded>>
  BY DEF IInv, TypeOK, ScanAccounting, ScanCount, BootTasks
<1>5. /\ LogFits(rows', fate', unrecorded')
      /\ MsgsFit(queue, rows', fate', unrecorded')
      /\ \A u \in User, k \in Key :
           rows[u][k].state = "PENDING" => rows'[u][k] = rows[u][k]
  BY <1>1, <1>4, RotationFits
<1>6. LogFits(rows, fate', unrecorded')
  BY <1>4 DEF IInv
<1>7. (CanScan /\ BeginScan(queue, rows, a)) \/ NoScan(queue, a)
  BY <1>2 DEF runRecoveryScan
<1>8. MsgsFit(queue', rows', fate', unrecorded') /\ Distinct(queue')
  BY <1>3, <1>4, <1>5, <1>6, <1>7, RecoveryScanFits DEF IInv
<1> QED
  BY <1>5, <1>8 DEF StepFits

LEMMA AdminAlertFits == IInv /\ AdminAlert => StepFits
<1> SUFFICES ASSUME IInv, AdminAlert PROVE StepFits
  OBVIOUS
<1>1. PICK a \in SetToSeqs(AdminAlerts) : queue' = queue \o a
  BY DEF AdminAlert
<1>2. a \in Seq(Message) /\ Untracked(a)
  BY <1>1, AlertSeqUntracked DEF IInv
<1> QED
  BY <1>1, <1>2, QuietStepFits DEF AdminAlert, log

\* A wiped log: what was PENDING is unrecorded from now on.
LEMMA ResetNotifFits ==
  ASSUME IInv, NEW u \in User, handleResetNotif(u) PROVE StepFits
<1>0. /\ queue' = queue /\ fate' = fate /\ queue \in Seq(Message)
      /\ rows \in [User -> [Key -> Row]]
  BY DEF handleResetNotif, IInv, TypeOK
<1>1. \A v \in User, k \in Key :
        /\ v # u => Untouched(v, k)
        /\ v = u => /\ rows'[v][k] = NoRow
                    /\ <<v, k>> \in unrecorded => <<v, k>> \in unrecorded'
                    /\ rows[v][k].state = "PENDING" => <<v, k>> \in unrecorded'
  BY <1>0 DEF handleResetNotif, Untouched, PendingIn
<1>2. \A k \in Key : NoteFits(u, k, rows', fate', unrecorded')
  BY <1>1 DEF NoteFits, NoRow
<1>3. LogFits(rows', fate', unrecorded')
  BY <1>1, <1>2, FrameLog DEF IInv
<1>4. ASSUME NEW m, m.trackDelivery, m.chatId \in User, m.key \in Key,
             MsgFits(m, rows, fate, unrecorded)
      PROVE  MsgFits(m, rows', fate', unrecorded')
  <2>1. CASE m.chatId # u
    BY <1>1, <1>4, <2>1 DEF MsgFits, Untouched, About
  <2>2. CASE m.chatId = u
    <3>1. m.isScanMessage => About(m) \in unrecorded'
      BY <1>1, <1>4, <2>2 DEF MsgFits, About
    <3>2. rows'[m.chatId][m.key] = NoRow
      BY <1>1, <1>4, <2>2
    <3> QED
      BY <1>0, <1>4, <3>1, <3>2 DEF MsgFits
  <2> QED
    BY <2>1, <2>2
<1>5. MsgsFit(queue, rows', fate', unrecorded')
  <2> SUFFICES ASSUME NEW i \in DOMAIN queue, queue[i].trackDelivery
               PROVE  MsgFits(queue[i], rows', fate', unrecorded')
    BY DEF MsgsFit, MsgFits
  <2>1. queue[i].chatId \in User /\ queue[i].key \in Key
    BY <1>0, QueuedNotification DEF TrackedMessage
  <2>2. MsgFits(queue[i], rows, fate, unrecorded)
    BY DEF IInv, MsgsFit
  <2> QED
    BY <1>4, <2>1, <2>2
<1> QED
  BY <1>0, <1>3, <1>5 DEF StepFits, IInv

LEMMA QuietTickFits == IInv /\ QuietTick => StepFits
<1> SUFFICES ASSUME IInv, QuietTick PROVE StepFits
  OBVIOUS
<1>1. /\ << >> \in Seq(Message) /\ Untracked(<< >>) /\ queue \in Seq(Message)
      /\ rows \in [User -> [Key -> Row]] /\ ScanCount(queue) = inFlight
      /\ UNCHANGED <<rows, fate, unrecorded>>
  BY DEF IInv, TypeOK, ScanAccounting, ScanCount, Untracked, QuietTick, log
<1>2. (CanScan /\ BeginScan(queue, rows, << >>)) \/ NoScan(queue, << >>)
  BY DEF QuietTick, runRecoveryScan
<1>3. MsgsFit(queue', rows, fate, unrecorded) /\ Distinct(queue')
  BY <1>1, <1>2, RecoveryScanFits DEF IInv
<1> QED
  BY <1>1, <1>3 DEF StepFits, IInv

LEMMA CrashFits == IInv /\ Crash => StepFits
<1> SUFFICES ASSUME IInv, Crash PROVE StepFits
  OBVIOUS
<1>1. PICK sent \in SUBSET InHand :
        /\ fate' = [u \in User |-> [k \in Key |->
                      IF <<u, k>> \in sent THEN "delivered" ELSE fate[u][k]]]
        /\ unrecorded' = unrecorded \cup sent \cup FlowIn(queue)
  BY DEF Crash
<1>2. \A u \in User, k \in Key : NoteFits(u, k, rows', fate', unrecorded')
  BY <1>1 DEF Crash, IInv, LogFits, NoteFits
<1>3. queue' = << >>
  BY DEF Crash
<1> QED
  BY <1>2, <1>3 DEF StepFits, LogFits, MsgsFit, Distinct
-----------------------------------------------------------------------------
(* A send.  It changes the notification of the head alone, and no other    *)
(* message of the queue is about that one.                                 *)

LEMMA WriteTouches ==
  ASSUME TypeOK, NEW m \in TrackedMessage, NEW state, NEW n,
         writeNotificationState(m, state, n)
  PROVE  /\ \A u \in User, k \in Key : <<u, k>> # About(m) =>
              /\ rows'[u][k] = rows[u][k]
              /\ <<u, k>> \in unrecorded' <=> <<u, k>> \in unrecorded
         /\ \/ /\ rows'[m.chatId][m.key] = [state |-> state, n |-> n]
               /\ unrecorded' = unrecorded
            \/ /\ rows'[m.chatId][m.key] = rows[m.chatId][m.key]
               /\ About(m) \in unrecorded'
<1>1. m.chatId \in User /\ m.key \in Key /\ rows \in [User -> [Key -> Row]]
  BY DEF TrackedMessage, TypeOK
<1>2. CASE /\ rows' = [rows EXCEPT ![m.chatId][m.key] = [state |-> state, n |-> n]]
           /\ unrecorded' = unrecorded
  BY <1>1, <1>2 DEF About
<1>3. CASE rows' = rows /\ unrecorded' = unrecorded \cup {About(m)}
  BY <1>1, <1>3 DEF About
<1> QED
  BY <1>2, <1>3, WriteCases

LEMMA SettleTouches ==
  ASSUME TypeOK, NEW m \in TrackedMessage, NEW f, Settle(m, f)
  PROVE  /\ \A u \in User, k \in Key : <<u, k>> # About(m) => fate'[u][k] = fate[u][k]
         /\ fate'[m.chatId][m.key] = f
<1>1. m.chatId \in User /\ m.key \in Key
      /\ fate \in [User -> [Key -> {"unsent", "owed", "delivered", "abandoned"}]]
  BY DEF TrackedMessage, TypeOK
<1> QED
  BY <1>1 DEF Settle, About

\* The tick ends with no message in the queue that does not fit.
LEMMA TickEndsFits ==
  ASSUME TypeOK, ScanAccounting, NEW m, NEW rest \in Seq(Message), Distinct(rest),
         ScanCount(rest) = IF m.isScanMessage THEN inFlight - 1 ELSE inFlight,
         rows' \in [User -> [Key -> Row]],
         LogFits(rows', fate', unrecorded'),
         MsgsFit(rest, rows', fate', unrecorded'),
         TickEnds(m, rest)
  PROVE  StepFits
<1>1. CASE m.isScanMessage
  BY <1>1 DEF TickEnds, StepFits
<1>2. CASE ~m.isScanMessage
  <2>1. << >> \in Seq(Message) /\ Untracked(<< >>)
    BY DEF Untracked
  <2>2. (CanScan /\ BeginScan(rest, rows', << >>)) \/ NoScan(rest, << >>)
    BY <1>2 DEF TickEnds
  <2>3. ScanCount(rest) = inFlight
    BY <1>2
  <2>4. MsgsFit(queue', rows', fate', unrecorded') /\ Distinct(queue')
    BY <2>1, <2>2, <2>3, RecoveryScanFits
  <2> QED
    BY <2>4 DEF StepFits
<1> QED
  BY <1>1, <1>2

\* If the step touches at most the notification of the head and leaves it
\* fitting, the log and the rest of the queue still fit.
LEMMA SendFrame ==
  ASSUME IInv, queue # << >>, Head(queue).trackDelivery,
         \A u \in User, k \in Key : <<u, k>> # About(Head(queue)) => Untouched(u, k),
         NoteFits(Head(queue).chatId, Head(queue).key, rows', fate', unrecorded')
  PROVE  /\ LogFits(rows', fate', unrecorded')
         /\ MsgsFit(Tail(queue), rows', fate', unrecorded')
<1>1. queue \in Seq(Message)
  BY DEF IInv, TypeOK
<1>2. LogFits(rows', fate', unrecorded')
  BY FrameLog DEF IInv, About
<1>3. ASSUME NEW i \in DOMAIN Tail(queue), Tail(queue)[i].trackDelivery
      PROVE  Untouched(Tail(queue)[i].chatId, Tail(queue)[i].key)
  <2>1. /\ i + 1 \in DOMAIN queue /\ Tail(queue)[i] = queue[i + 1]
        /\ About(Tail(queue)[i]) # About(Head(queue))
    BY <1>1, <1>3, DistinctTail DEF IInv
  <2>2. Tail(queue)[i].chatId \in User /\ Tail(queue)[i].key \in Key
    BY <1>1, <1>3, <2>1, QueuedNotification DEF TrackedMessage
  <2> QED
    BY <2>1, <2>2 DEF About
<1>4. MsgsFit(Tail(queue), rows, fate, unrecorded)
  BY <1>1, DistinctTail DEF IInv, MsgsFit
<1> QED
  BY <1>2, <1>3, <1>4, FrameMsgs

\* The head of the queue, as every outcome of its send finds it.
LEMMA HeadFits ==
  ASSUME IInv, queue # << >>, Head(queue).trackDelivery
  PROVE  /\ Head(queue) \in TrackedMessage
         /\ MsgFits(Head(queue), rows, fate, unrecorded)
         /\ NoteFits(Head(queue).chatId, Head(queue).key, rows, fate, unrecorded)
         /\ Head(queue).attemptCountBefore \in 0..MaxRetries
<1>1. 1 \in DOMAIN queue /\ Head(queue) = queue[1] /\ queue \in Seq(Message)
  BY HeadTailProperties, EmptySeq DEF IInv, TypeOK
<1>2. Head(queue) \in TrackedMessage /\ MsgFits(Head(queue), rows, fate, unrecorded)
  BY <1>1, QueuedNotification DEF IInv, MsgsFit
<1>3. Head(queue).chatId \in User /\ Head(queue).key \in Key
  BY <1>2 DEF TrackedMessage
<1> QED
  BY <1>2, <1>3, EngineAssumption DEF IInv, LogFits, MsgFits

\* SUCCESS: RESOLVED if there was a PENDING row, or that row is unrecorded.
LEMMA SendSuccessFits ==
  ASSUME IInv, queue # << >>, SendSuccess(Head(queue))
  PROVE  /\ LogFits(rows', fate', unrecorded')
         /\ MsgsFit(Tail(queue), rows', fate', unrecorded')
<1> DEFINE m == Head(queue)
<1>1. /\ m \in TrackedMessage /\ m.trackDelivery
      /\ MsgFits(m, rows, fate, unrecorded)
      /\ NoteFits(m.chatId, m.key, rows, fate, unrecorded)
      /\ m.attemptCountBefore \in 0..MaxRetries
  BY HeadFits DEF SendSuccess
<1>2. /\ Settle(m, "delivered")
      /\ IF m.attemptCountBefore > 0
         THEN writeNotificationState(m, "RESOLVED", 0) ELSE UNCHANGED log
  BY DEF SendSuccess
<1>3. m.trackDelivery => \A u \in User, k \in Key : <<u, k>> # About(m) => Untouched(u, k)
  BY <1>1, <1>2, WriteTouches, SettleTouches DEF IInv, Untouched, log
<1>4. NoteFits(m.chatId, m.key, rows', fate', unrecorded')
  <2>1. fate'[m.chatId][m.key] = "delivered"
    BY <1>1, <1>2, SettleTouches DEF IInv
  <2>2. CASE m.attemptCountBefore > 0
    <3>1. \/ rows'[m.chatId][m.key] = [state |-> "RESOLVED", n |-> 0]
          \/ /\ rows'[m.chatId][m.key] = rows[m.chatId][m.key]
             /\ About(m) \in unrecorded'
      BY <1>1, <1>2, <2>2, WriteTouches DEF IInv
    <3>2. CASE rows'[m.chatId][m.key] = [state |-> "RESOLVED", n |-> 0]
      BY <2>1, <3>2 DEF NoteFits
    <3>3. CASE /\ rows'[m.chatId][m.key] = rows[m.chatId][m.key]
               /\ About(m) \in unrecorded'
      <4> HIDE DEF m
      <4> QED
        BY <1>1, <2>1, <3>3 DEF NoteFits, About
    <3> QED
      BY <3>1, <3>2, <3>3
  <2>3. CASE ~(m.attemptCountBefore > 0)
    <3>1. ~m.isScanMessage
      BY <1>1, <2>3 DEF MsgFits
    <3>2. rows'[m.chatId][m.key] = NoRow
      BY <1>1, <1>2, <2>3, <3>1 DEF MsgFits, log
    <3> QED
      BY <2>1, <3>2 DEF NoteFits, NoRow
  <2> QED
    BY <2>2, <2>3
<1> QED
  BY <1>1, <1>3, <1>4, SendFrame

\* ABANDONED, by a permanent error or by the last attempt; or unrecorded.
LEMMA AbandonFits ==
  ASSUME IInv, queue # << >>, Head(queue).trackDelivery,
         Settle(Head(queue), "abandoned"),
         writeNotificationState(Head(queue), "ABANDONED", Head(queue).attemptCountBefore + 1)
  PROVE  /\ LogFits(rows', fate', unrecorded')
         /\ MsgsFit(Tail(queue), rows', fate', unrecorded')
<1> DEFINE m == Head(queue)
           n == m.attemptCountBefore + 1
<1>1. /\ m \in TrackedMessage
      /\ NoteFits(m.chatId, m.key, rows, fate, unrecorded)
      /\ n \in 1..(MaxRetries + 1)
  BY HeadFits, EngineAssumption
<1>2. \A u \in User, k \in Key : <<u, k>> # About(m) => Untouched(u, k)
  BY <1>1, WriteTouches, SettleTouches DEF IInv, Untouched
<1>3. fate'[m.chatId][m.key] = "abandoned"
  BY <1>1, SettleTouches DEF IInv
<1>4. \/ rows'[m.chatId][m.key] = [state |-> "ABANDONED", n |-> n]
      \/ rows'[m.chatId][m.key] = rows[m.chatId][m.key] /\ About(m) \in unrecorded'
  BY <1>1, WriteTouches DEF IInv
<1>5. NoteFits(m.chatId, m.key, rows', fate', unrecorded')
  <2> HIDE DEF m, n
  <2> QED
    BY <1>1, <1>3, <1>4 DEF NoteFits, About
<1> QED
  BY <1>2, <1>5, SendFrame

\* PENDING, one attempt more; or unrecorded.
LEMMA SendRetryFits ==
  ASSUME IInv, queue # << >>, SendRetry(Head(queue))
  PROVE  StepFits
<1> DEFINE m == Head(queue)
           n == m.attemptCountBefore + 1
<1>1. /\ m \in TrackedMessage /\ m.trackDelivery
      /\ MsgFits(m, rows, fate, unrecorded)
      /\ NoteFits(m.chatId, m.key, rows, fate, unrecorded)
      /\ m.attemptCountBefore \in 0..MaxRetries
  BY HeadFits DEF SendRetry
<1>2. n \in 1..MaxRetries
  BY <1>1, EngineAssumption DEF SendRetry, exceedsMaxRetries
<1>3. writeNotificationState(m, "PENDING", n) /\ fate' = fate /\ queue' = Tail(queue)
  BY DEF SendRetry
<1>4. \A u \in User, k \in Key : <<u, k>> # About(m) => Untouched(u, k)
  BY <1>1, <1>3, WriteTouches DEF IInv, Untouched
<1>5. \/ /\ rows'[m.chatId][m.key] = [state |-> "PENDING", n |-> n]
         /\ unrecorded' = unrecorded
      \/ rows'[m.chatId][m.key] = rows[m.chatId][m.key] /\ About(m) \in unrecorded'
  BY <1>1, <1>3, WriteTouches DEF IInv
<1>6. /\ fate[m.chatId][m.key] # "unsent"
      /\ About(m) \notin unrecorded => fate[m.chatId][m.key] = "owed"
  BY <1>1 DEF MsgFits
<1>7. NoteFits(m.chatId, m.key, rows', fate', unrecorded')
  <2>1. fate' = fate
    BY <1>3
  <2>2. CASE /\ rows'[m.chatId][m.key] = [state |-> "PENDING", n |-> n]
             /\ unrecorded' = unrecorded
    <3> HIDE DEF m, n
    <3> QED
      BY <1>2, <1>6, <2>1, <2>2 DEF NoteFits, About
  <2>3. CASE /\ rows'[m.chatId][m.key] = rows[m.chatId][m.key]
             /\ About(m) \in unrecorded'
    <3> HIDE DEF m, n
    <3> QED
      BY <1>1, <2>1, <2>3 DEF NoteFits, About
  <2> QED
    BY <1>5, <2>2, <2>3
<1>8. /\ LogFits(rows', fate', unrecorded')
      /\ MsgsFit(Tail(queue), rows', fate', unrecorded')
  BY <1>1, <1>4, <1>7, SendFrame
<1>9. Distinct(Tail(queue))
  BY DistinctTail DEF IInv, TypeOK
<1> QED
  BY <1>3, <1>8, <1>9 DEF StepFits

LEMMA SendHeadFits == IInv /\ SendHead => StepFits
<1> SUFFICES ASSUME IInv, SendHead PROVE StepFits
  OBVIOUS
<1> DEFINE m == Head(queue)
           rest == Tail(queue)
<1>1. /\ queue # << >> /\ m \in Message /\ rest \in Seq(Message) /\ Distinct(rest)
      /\ TypeOK /\ ScanAccounting
  BY HeadTailProperties, DistinctTail DEF SendHead, IInv, TypeOK
<1>2. ScanCount(rest) = IF m.isScanMessage THEN inFlight - 1 ELSE inFlight
  BY TailCount DEF SendHead, IInv, TypeOK, ScanAccounting, ScanCount
<1>3. rows' \in [User -> [Key -> Row]]
  BY <1>1, TypeSendHead DEF TypeOK
<1>4. SendAlert(m) \/ SendSuccess(m) \/ SendPermanent(m)
        \/ SendExhausted(m) \/ SendRetry(m)
  BY DEF SendHead
<1>5. CASE SendAlert(m)
  <2>1. TickEnds(m, rest) /\ UNCHANGED <<rows, fate, unrecorded>>
    BY <1>5, FinishTickEnds DEF SendAlert, log
  <2>2. MsgsFit(rest, rows, fate, unrecorded) /\ LogFits(rows, fate, unrecorded)
    BY <1>1, DistinctTail DEF IInv, MsgsFit
  <2> HIDE DEF m, rest
  <2> QED
    BY <1>1, <1>2, <1>3, <2>1, <2>2, TickEndsFits
<1>6. CASE SendSuccess(m)
  <2>1. TickEnds(m, rest)
    BY <1>6, FinishTickEnds DEF SendSuccess
  <2>2. LogFits(rows', fate', unrecorded') /\ MsgsFit(rest, rows', fate', unrecorded')
    BY <1>1, <1>6, SendSuccessFits
  <2> HIDE DEF m, rest
  <2> QED
    BY <1>1, <1>2, <1>3, <2>1, <2>2, TickEndsFits
<1>7. CASE SendPermanent(m)
  <2>1. PICK a \in SetToSeqs(AdminAlerts) : TickEnds(m, rest \o a)
    BY <1>7, FinishTickEnds DEF SendPermanent
  <2>2. a \in Seq(Message) /\ NoScanIn(a) /\ Untracked(a)
    BY <1>1, AlertSeqUntracked
  <2>3. LogFits(rows', fate', unrecorded') /\ MsgsFit(rest, rows', fate', unrecorded')
    BY <1>1, <1>7, AbandonFits DEF SendPermanent
  <2> HIDE DEF m, rest
  <2>4. /\ rest \o a \in Seq(Message) /\ ScanCount(rest \o a) = ScanCount(rest)
        /\ Distinct(rest \o a)
    BY <1>1, <2>2, ConcatType, ConcatCount, DistinctUntracked
  <2>5. MsgsFit(rest \o a, rows', fate', unrecorded')
    BY <1>1, <2>2, <2>3, UntrackedFits, MsgsFitConcat
  <2> QED
    BY <1>1, <1>2, <1>3, <2>1, <2>3, <2>4, <2>5, TickEndsFits
<1>8. CASE SendExhausted(m)
  <2>1. TickEnds(m, rest)
    BY <1>8, FinishTickEnds DEF SendExhausted
  <2>2. LogFits(rows', fate', unrecorded') /\ MsgsFit(rest, rows', fate', unrecorded')
    BY <1>1, <1>8, AbandonFits DEF SendExhausted
  <2> HIDE DEF m, rest
  <2> QED
    BY <1>1, <1>2, <1>3, <2>1, <2>2, TickEndsFits
<1>9. CASE SendRetry(m)
  BY <1>1, <1>9, SendRetryFits
<1> QED
  BY <1>4, <1>5, <1>6, <1>7, <1>8, <1>9

LEMMA IdleFits ==
  ASSUME IInv, UNCHANGED <<queue, rows, fate, unrecorded>>
  PROVE  StepFits
BY DEF IInv, StepFits

-----------------------------------------------------------------------------
(* The theorems.                                                           *)

LEMMA IInvInit == Init => IInv
<1> SUFFICES ASSUME Init PROVE IInv
  OBVIOUS
<1>1. TypeOK /\ ScanAccounting
  BY TypeInit, InitAccounts
<1>2. \A u \in User, k \in Key : rows[u][k] = NoRow
  BY DEF Init
<1>3. LogFits(rows, fate, unrecorded)
  BY <1>2 DEF LogFits, NoteFits, NoRow
<1>4. MsgsFit(queue, rows, fate, unrecorded) /\ Distinct(queue)
  BY DEF Init, MsgsFit, Distinct
<1> QED
  BY <1>1, <1>3, <1>4 DEF IInv

LEMMA NextFits == IInv /\ [Next]_vars => StepFits
<1> SUFFICES ASSUME IInv, [Next]_vars PROVE StepFits
  OBVIOUS
<1>1. CASE WhitelistChange
  BY <1>1, IdleFits DEF WhitelistChange, log
<1>2. CASE \E u \in User : handleResetNotif(u)
  BY <1>2, ResetNotifFits
<1>3. CASE TimerElapses
  BY <1>3, IdleFits DEF TimerElapses, log
<1>4. CASE UNCHANGED vars
  BY <1>4, IdleFits DEF vars, log
<1>5. CASE tickNotificationEngine
  BY <1>5, SendHeadFits, QuietTickFits DEF tickNotificationEngine
<1> QED
  BY <1>1, <1>2, <1>3, <1>4, <1>5, EventLoggedFits, NetworkRestoredFits,
     MaintenanceFits, BootTasksFits, AdminAlertFits, CrashFits DEF Next

LEMMA IInvNext == IInv /\ [Next]_vars => IInv'
<1> SUFFICES ASSUME IInv, [Next]_vars PROVE IInv'
  OBVIOUS
<1>1. TypeOK' /\ ScanAccounting'
  BY TypeNext, NextAccounts DEF IInv
<1>2. /\ LogFits(rows', fate', unrecorded') /\ MsgsFit(queue', rows', fate', unrecorded')
      /\ Distinct(queue')
  BY NextFits DEF StepFits
<1> QED
  BY <1>1, <1>2 DEF IInv

\* The inductive invariant holds in every reachable state.
THEOREM EngineInvariant == Spec => []IInv
BY IInvInit, IInvNext, PTL DEF Spec

\* No notification is ever in the queue twice, in whatever order events,
\* retries, early scans, reconnections and boots ask for it.
THEOREM OneAttemptQueuedHolds == Spec => []OneAttemptQueued
<1>1. IInv => OneAttemptQueued
  BY DEF IInv, OneAttemptQueued
<1> QED
  BY <1>1, EngineInvariant, PTL

LEMMA LimitFollows == IInv => AttemptsWithinLimit
<1> SUFFICES ASSUME IInv PROVE AttemptsWithinLimit
  OBVIOUS
<1>1. queue \in Seq(Message)
  BY DEF IInv, TypeOK
<1>2. ASSUME NEW m \in Range(queue), m.trackDelivery
      PROVE  RowMatches(m)
  <2>1. PICK i \in DOMAIN queue : m = queue[i]
    BY DEF Range
  <2>2. MsgFits(m, rows, fate, unrecorded)
    BY <2>1 DEF IInv, MsgsFit
  <2>3. RowOf(About(m)) = rows[m.chatId][m.key]
    BY DEF RowOf, About
  <2> QED
    BY <1>2, <2>2, <2>3 DEF MsgFits, RowMatches
<1>3. ASSUME NEW p \in Notification
      PROVE  /\ IsPending(p) => RowOf(p).n \in 1..MaxRetries
             /\ RowOf(p).state = "ABANDONED" => RowOf(p).n \in 1..(MaxRetries + 1)
  <2>1. NoteFits(p[1], p[2], rows, fate, unrecorded)
    BY DEF IInv, LogFits, Notification
  <2> QED
    BY <2>1 DEF NoteFits, IsPending, RowOf
<1> QED
  BY <1>2, <1>3 DEF AttemptsWithinLimit

\* The counter in the log and the one in the queue agree, and no row counts
\* more than MaxRetries + 1 attempts.
THEOREM AttemptsWithinLimitHolds == Spec => []AttemptsWithinLimit
BY LimitFollows, EngineInvariant, PTL

LEMMA NoResendFollows == IInv => NoResend
<1> SUFFICES ASSUME IInv, NEW p \in Notification,
                    FateOf(p) \in {"delivered", "abandoned"}, p \notin unrecorded
             PROVE  p \notin TrackedIn(queue) /\ ~IsPending(p)
  BY DEF NoResend
<1>1. p = <<p[1], p[2]>> /\ p[1] \in User /\ p[2] \in Key
  BY DEF Notification
<1>2. NoteFits(p[1], p[2], rows, fate, unrecorded)
  BY <1>1 DEF IInv, LogFits
<1>3. ~IsPending(p)
  BY <1>1, <1>2 DEF NoteFits, IsPending, RowOf, FateOf
<1>4. ASSUME p \in TrackedIn(queue)
      PROVE  FALSE
  <2>1. PICK i \in DOMAIN queue : queue[i].trackDelivery /\ p = About(queue[i])
    BY <1>4 DEF TrackedIn, Range
  <2>2. MsgFits(queue[i], rows, fate, unrecorded)
    BY DEF IInv, MsgsFit
  <2>3. p[1] = queue[i].chatId /\ p[2] = queue[i].key
    BY <2>1 DEF About
  <2>4. FateOf(p) = "owed"
    BY <2>1, <2>2, <2>3 DEF MsgFits, FateOf
  <2> QED
    BY <2>4
<1> QED
  BY <1>3, <1>4

\* What was delivered or given up is not sent again, if its row was kept.
THEOREM NoResendHolds == Spec => []NoResend
BY NoResendFollows, EngineInvariant, PTL

-----------------------------------------------------------------------------
(* What a step may do to a row.                                            *)

RowKept(u, k) == rows'[u][k] \in {rows[u][k], NoRow}

LEMMA SentRowFinal ==
  ASSUME IInv, queue # << >>, Head(queue).trackDelivery, NEW state, NEW n,
         writeNotificationState(Head(queue), state, n),
         NEW u \in User, NEW k \in Key, rows[u][k].state \in Terminal
  PROVE  RowKept(u, k)
<1>1. /\ Head(queue) \in TrackedMessage
      /\ MsgFits(Head(queue), rows, fate, unrecorded)
  BY HeadFits
<1>2. rows[Head(queue).chatId][Head(queue).key].state \notin Terminal
  BY <1>1, LiveRow
<1>3. <<u, k>> # About(Head(queue))
  BY <1>2 DEF About
<1> QED
  BY <1>1, <1>3, WriteTouches DEF RowKept, IInv

LEMMA RowsFinal ==
  ASSUME IInv, Next, NEW u \in User, NEW k \in Key, rows[u][k].state \in Terminal
  PROVE  RowKept(u, k)
<1> USE DEF RowKept
<1>1. CASE \E worsened, gone : performMaintenanceIfDue(worsened, gone)
  BY <1>1 DEF performMaintenanceIfDue
<1>2. CASE \E v \in User : handleResetNotif(v)
  BY <1>2 DEF handleResetNotif, IInv, TypeOK
<1>3. CASE rows' = rows
  BY <1>3
<1>4. CASE SendHead
  <2> DEFINE m == Head(queue)
  <2>1. queue # << >>
    BY <1>4 DEF SendHead
  <2>2. SendAlert(m) \/ SendSuccess(m) \/ SendPermanent(m)
          \/ SendExhausted(m) \/ SendRetry(m)
    BY <1>4 DEF SendHead
  <2>3. \/ rows' = rows
        \/ /\ m.trackDelivery
           /\ \E state, n : writeNotificationState(m, state, n)
    BY <2>2 DEF SendAlert, SendSuccess, SendPermanent, SendExhausted, SendRetry, log
  <2> HIDE DEF m
  <2> QED
    BY <2>1, <2>3, SentRowFinal DEF m
<1>5. EventLogged \/ NetworkRestored => rows' = rows
  BY DEF EventLogged, NetworkRestored, log
<1>6. AdminAlert \/ WhitelistChange \/ QuietTick \/ TimerElapses \/ Crash => rows' = rows
  BY DEF AdminAlert, WhitelistChange, QuietTick, TimerElapses, Crash, log
<1>7. BootTasks \/ Maintenance => \E worsened, gone : performMaintenanceIfDue(worsened, gone)
  <2>1. BootTasks => \E worsened, gone : performMaintenanceIfDue(worsened, gone)
    BY DEF BootTasks
  <2>2. Maintenance => \E worsened, gone : performMaintenanceIfDue(worsened, gone)
    BY DEF Maintenance
  <2> QED
    BY <2>1, <2>2
<1> QED
  BY <1>1, <1>2, <1>3, <1>4, <1>5, <1>6, <1>7 DEF Next, tickNotificationEngine

\* RESOLVED and ABANDONED are final: no step turns such a row into another;
\* only rotation and a reset of the log take it away.
THEOREM TerminalRowsFinalHolds == Spec => TerminalRowsFinal
<1> DEFINE Final ==
      \A p \in Notification :
        RowOf(p).state \in Terminal => RowOf(p)' \in {RowOf(p), NoRow}
<1>1. IInv /\ [Next]_vars => [Final]_vars
  <2> SUFFICES ASSUME IInv, Next, NEW p \in Notification, RowOf(p).state \in Terminal
               PROVE  RowOf(p)' \in {RowOf(p), NoRow}
    OBVIOUS
  <2>1. p[1] \in User /\ p[2] \in Key
    BY DEF Notification
  <2> QED
    BY <2>1, RowsFinal DEF RowOf, RowKept
<1> QED
  BY <1>1, EngineInvariant, PTL DEF Spec, TerminalRowsFinal

-----------------------------------------------------------------------------
(* What a queue carries.  Listing a set in any order misses none of its    *)
(* elements, what is put behind a queue takes nothing away, and what a     *)
(* send takes away is its head.                                            *)

\* A message of q, and a message of a scan in q, is about <<u, k>>.
Carried(q, u, k) ==
  \E i \in DOMAIN q : q[i].trackDelivery /\ About(q[i]) = <<u, k>>
ScanCarried(q, u, k) ==
  \E i \in DOMAIN q : q[i].isScanMessage /\ About(q[i]) = <<u, k>>

LEMMA SetToSeqsListsAll ==
  ASSUME NEW S, IsFiniteSet(S), NEW s \in SetToSeqs(S), NEW x \in S
  PROVE  \E i \in DOMAIN s : s[i] = x
<1> DEFINE D == 1..Cardinality(S)
<1>1. Cardinality(S) \in Nat
  BY FS_CardinalityType
<1>2. s \in Injection(D, S)
  BY DEF SetToSeqs, Injection, IsInjective
<1>3. Cardinality(D) = Cardinality(S)
  BY <1>1, FS_Interval
<1> HIDE DEF D
<1>4. s \in Surjection(D, S)
  BY <1>2, <1>3, FS_Injection
<1>5. DOMAIN s = D
  BY <1>2 DEF Injection
<1> QED
  BY <1>4, <1>5 DEF Surjection

LEMMA PrefixKept ==
  ASSUME NEW q \in Seq(Message), NEW t \in Seq(Message), NEW u, NEW k
  PROVE  /\ Carried(q, u, k) => Carried(q \o t, u, k)
         /\ ScanCarried(q, u, k) => ScanCarried(q \o t, u, k)
<1>1. \A i \in DOMAIN q : i \in DOMAIN (q \o t) /\ (q \o t)[i] = q[i]
  BY ConcatProperties
<1> QED
  BY <1>1 DEF Carried, ScanCarried

LEMMA SuffixKept ==
  ASSUME NEW q \in Seq(Message), NEW t \in Seq(Message), NEW u, NEW k
  PROVE  /\ Carried(t, u, k) => Carried(q \o t, u, k)
         /\ ScanCarried(t, u, k) => ScanCarried(q \o t, u, k)
<1>1. \A i \in DOMAIN t : i + Len(q) \in DOMAIN (q \o t) /\ (q \o t)[i + Len(q)] = t[i]
  BY ConcatProperties
<1> HIDE DEF Message
<1> QED
  BY <1>1 DEF Carried, ScanCarried

\* A send takes away the head and nothing else.
LEMMA TailKept ==
  ASSUME NEW q \in Seq(Message), q # << >>, NEW u, NEW k
  PROVE  /\ Carried(q, u, k) =>
              \/ Carried(Tail(q), u, k)
              \/ Head(q).trackDelivery /\ About(Head(q)) = <<u, k>>
         /\ ScanCarried(q, u, k) =>
              \/ ScanCarried(Tail(q), u, k)
              \/ Head(q).isScanMessage /\ About(Head(q)) = <<u, k>>
<1>1. /\ Len(Tail(q)) = Len(q) - 1 /\ Len(q) \in Nat \ {0}
      /\ \A i \in 1..Len(Tail(q)) : Tail(q)[i] = q[i + 1]
      /\ Head(q) = q[1]
      /\ DOMAIN q = 1..Len(q) /\ DOMAIN Tail(q) = 1..Len(Tail(q))
  BY HeadTailProperties, EmptySeq
<1>2. ASSUME NEW i \in DOMAIN q
      PROVE  \/ q[i] = Head(q)
             \/ \E j \in DOMAIN Tail(q) : Tail(q)[j] = q[i]
  <2>1. CASE i = 1
    BY <1>1, <2>1
  <2>2. CASE i # 1
    <3>1. i - 1 \in DOMAIN Tail(q) /\ (i - 1) + 1 = i
      BY <1>1, <2>2
    <3> QED
      BY <1>1, <3>1
  <2> QED
    BY <2>1, <2>2
<1> QED
  BY <1>2 DEF Carried, ScanCarried

\* notifyEvent queues a message for each user it is given.
LEMMA EventCarried ==
  ASSUME NEW R \in SUBSET User, NEW k \in Key,
         NEW s \in SetToSeqs({EventMessage(u, k) : u \in R}), NEW u \in R
  PROVE  Carried(s, u, k)
<1>1. IsFiniteSet({EventMessage(v, k) : v \in R})
  BY EventMessagesType
<1>2. PICK i \in DOMAIN s : s[i] = EventMessage(u, k)
  BY <1>1, SetToSeqsListsAll
<1>3. s[i].trackDelivery /\ About(s[i]) = <<u, k>>
  BY <1>2 DEF EventMessage, About
<1> QED
  BY <1>3 DEF Carried

\* What a scan queues it carries.
LEMMA ScanCarriesFound ==
  ASSUME NEW rs \in [User -> [Key -> Row]], NEW seen \in SUBSET User,
         NEW s \in SetToSeqs(ScanMessages(rs, seen)),
         NEW u, NEW k, NEW m \in ScanMessages(rs, seen), About(m) = <<u, k>>
  PROVE  ScanCarried(s, u, k)
<1>1. PICK i \in DOMAIN s : s[i] = m
  BY ScanMessagesType, SetToSeqsListsAll
<1>2. m.isScanMessage
  BY DEF ScanMessages, ScanMessage
<1> QED
  BY <1>1, <1>2 DEF ScanCarried

\* What a scan, or no scan, makes of the queue q: more is put behind it, and
\* a scan is begun that carries every pending row that does not slip by.
LEMMA RecoveryScanExtends ==
  ASSUME TypeOK, NEW q \in Seq(Message), NEW after \in Seq(Message),
         NEW rs \in [User -> [Key -> Row]], BeginScan(q, rs, after) \/ NoScan(q, after)
  PROVE  /\ \E t \in Seq(Message) : queue' = q \o t
         /\ BeginScan(q, rs, after) =>
              \A u \in User, k \in Key :
                rs[u][k].state = "PENDING" /\ <<u, k>> \notin slipped' =>
                  scanInProgress' /\ ScanCarried(queue', u, k)
<1>1. CASE BeginScan(q, rs, after)
  <2>0. PICK seen \in Legible :
          /\ \E s \in SetToSeqs(ScanMessages(rs, seen)) : queue' = q \o s \o after
          /\ ScanMessages(rs, seen) # {} => scanInProgress' = TRUE
          /\ slipped' = Waiting(rs) \ {About(m) : m \in ScanMessages(rs, seen)}
    BY <1>1 DEF BeginScan
  <2>1. PICK s \in SetToSeqs(ScanMessages(rs, seen)) : queue' = q \o s \o after
    BY <2>0
  <2>s. seen \in SUBSET User
    BY LegibleType DEF TypeOK
  <2>2. s \in Seq(Message)
    BY <2>s, ScanMessagesType, SetToSeqsIsSeq DEF Message
  <2>3. queue' = q \o (s \o after) /\ s \o after \in Seq(Message) /\ q \o s \in Seq(Message)
    BY <2>1, <2>2, ConcatType, ConcatAssociative
  <2>4. ASSUME NEW u \in User, NEW k \in Key, rs[u][k].state = "PENDING",
               <<u, k>> \notin slipped'
        PROVE  scanInProgress' /\ ScanCarried(queue', u, k)
    <3>1. <<u, k>> \in Waiting(rs)
      BY <2>4 DEF Waiting, Notification
    <3>2. PICK m \in ScanMessages(rs, seen) : About(m) = <<u, k>>
      BY <2>0, <2>4, <3>1
    <3>3. ScanCarried(s, u, k)
      BY <2>s, <3>2, ScanCarriesFound
    <3>4. ScanCarried(q \o s, u, k)
      BY <2>2, <3>3, SuffixKept
    <3> QED
      BY <2>0, <2>1, <2>3, <3>2, <3>4, PrefixKept
  <2> QED
    BY <2>3, <2>4
<1>2. CASE ~BeginScan(q, rs, after) /\ NoScan(q, after)
  BY <1>2 DEF NoScan
<1> QED
  BY <1>1, <1>2

-----------------------------------------------------------------------------
(* How the queue grows: every step but a send and a crash puts something   *)
(* behind it, or nothing; a send puts it behind what the head leaves.      *)

Extends(q) == \E t \in Seq(Message) : queue' = q \o t

LEMMA ExtendsKeeps ==
  ASSUME NEW q \in Seq(Message), Extends(q), NEW u, NEW k
  PROVE  /\ Carried(q, u, k) => Carried(queue', u, k)
         /\ ScanCarried(q, u, k) => ScanCarried(queue', u, k)
BY PrefixKept DEF Extends

LEMMA SameExtends ==
  ASSUME TypeOK, queue' = queue
  PROVE  Extends(queue)
BY EmptySeq, ConcatEmptySeq DEF Extends, TypeOK

LEMMA TickExtends ==
  ASSUME TypeOK, NEW m, NEW rest \in Seq(Message),
         rows' \in [User -> [Key -> Row]], TickEnds(m, rest)
  PROVE  Extends(rest)
<1>1. << >> \in Seq(Message) /\ rest \o << >> = rest
  BY EmptySeq, ConcatEmptySeq
<1>2. CASE queue' = rest
  BY <1>1, <1>2 DEF Extends
<1>3. CASE BeginScan(rest, rows', << >>) \/ NoScan(rest, << >>)
  BY <1>1, <1>3, RecoveryScanExtends DEF Extends
<1> QED
  BY <1>2, <1>3 DEF TickEnds

LEMMA SendExtends ==
  ASSUME TypeOK, queue # << >>, rows' \in [User -> [Key -> Row]], SendHead
  PROVE  Extends(Tail(queue))
<1> DEFINE m == Head(queue)
           rest == Tail(queue)
<1>1. rest \in Seq(Message) /\ rest \o << >> = rest /\ << >> \in Seq(Message)
  BY HeadTailProperties, ConcatEmptySeq, EmptySeq DEF TypeOK
<1>2. \/ TickEnds(m, rest)
      \/ \E a \in SetToSeqs(AdminAlerts) : TickEnds(m, rest \o a)
      \/ queue' = rest
  <2>1. SendAlert(m) \/ SendSuccess(m) \/ SendExhausted(m) => TickEnds(m, rest)
    BY FinishTickEnds DEF SendAlert, SendSuccess, SendExhausted
  <2>2. SendPermanent(m) => \E a \in SetToSeqs(AdminAlerts) : TickEnds(m, rest \o a)
    BY FinishTickEnds DEF SendPermanent
  <2>3. SendRetry(m) => queue' = rest
    BY DEF SendRetry
  <2> QED
    BY <2>1, <2>2, <2>3 DEF SendHead
<1> HIDE DEF m, rest
<1>3. CASE TickEnds(m, rest)
  BY <1>1, <1>3, TickExtends DEF rest
<1>4. CASE \E a \in SetToSeqs(AdminAlerts) : TickEnds(m, rest \o a)
  <2>1. PICK a \in SetToSeqs(AdminAlerts) : TickEnds(m, rest \o a)
    BY <1>4
  <2>2. a \in Seq(Message) /\ rest \o a \in Seq(Message)
    BY <1>1, AlertSeqType, ConcatType
  <2>3. PICK t \in Seq(Message) : queue' = (rest \o a) \o t
    BY <2>1, <2>2, TickExtends DEF Extends
  <2>4. queue' = rest \o (a \o t) /\ a \o t \in Seq(Message)
    BY <1>1, <2>2, <2>3, ConcatAssociative, ConcatType
  <2> QED
    BY <2>4 DEF Extends, rest
<1>5. CASE queue' = rest
  BY <1>1, <1>5 DEF Extends, rest
<1> QED
  BY <1>2, <1>3, <1>4, <1>5

\* What a new event or an end of an outage makes of the queue.
LEMMA NotifiedQueue ==
  ASSUME TypeOK, NEW k \in Key, NEW R \in SUBSET whitelist,
         NEW s \in SetToSeqs({EventMessage(u, k) : u \in R}),
         \/ queue' = queue \o s
         \/ runRecoveryScan(TRUE, queue \o s, rows, << >>)
  PROVE  Extends(queue) /\ \A u \in R : Carried(queue', u, k)
<1>1. /\ R \in SUBSET User /\ queue \in Seq(Message)
      /\ rows \in [User -> [Key -> Row]] /\ << >> \in Seq(Message)
  BY DEF TypeOK
<1>2. s \in Seq(Message) /\ queue \o s \in Seq(Message)
  BY <1>1, EventSeqFits, ConcatType
<1>3. Extends(queue \o s)
  <2>1. CASE queue' = queue \o s
    BY <1>1, <1>2, <2>1, ConcatEmptySeq DEF Extends
  <2>2. CASE runRecoveryScan(TRUE, queue \o s, rows, << >>)
    <3>1. BeginScan(queue \o s, rows, << >>) \/ NoScan(queue \o s, << >>)
      BY <2>2 DEF runRecoveryScan
    <3> QED
      BY <1>1, <1>2, <3>1, RecoveryScanExtends DEF Extends
  <2> QED
    BY <2>1, <2>2
<1>4. PICK t \in Seq(Message) : queue' = (queue \o s) \o t
  BY <1>3 DEF Extends
<1>5. queue' = queue \o (s \o t) /\ s \o t \in Seq(Message)
  BY <1>1, <1>2, <1>4, ConcatAssociative, ConcatType
<1>6. ASSUME NEW u \in R
      PROVE  Carried(queue', u, k)
  <2>1. Carried(s, u, k)
    BY <1>1, EventCarried
  <2>2. Carried(queue \o s, u, k)
    BY <1>1, <1>2, <2>1, SuffixKept
  <2> QED
    BY <1>2, <1>3, <2>2, ExtendsKeeps
<1> QED
  BY <1>5, <1>6 DEF Extends

LEMMA AlertedQueue ==
  ASSUME TypeOK, NEW alert \in BOOLEAN,
         NEW a \in SetToSeqs(IF alert THEN AdminAlerts ELSE {}),
         runRecoveryScan(TRUE, queue \o a, rows, << >>)
  PROVE  Extends(queue)
<1>1. /\ queue \in Seq(Message) /\ << >> \in Seq(Message)
      /\ rows \in [User -> [Key -> Row]]
  BY DEF TypeOK
<1>2. a \in Seq(Message) /\ queue \o a \in Seq(Message)
  BY <1>1, AlertSeqType, ConcatType
<1>3. BeginScan(queue \o a, rows, << >>) \/ NoScan(queue \o a, << >>)
  BY DEF runRecoveryScan
<1>4. PICK t \in Seq(Message) : queue' = (queue \o a) \o t
  BY <1>1, <1>2, <1>3, RecoveryScanExtends
<1>5. queue' = queue \o (a \o t) /\ a \o t \in Seq(Message)
  BY <1>1, <1>2, <1>4, ConcatAssociative, ConcatType
<1> QED
  BY <1>5 DEF Extends

LEMMA BootExtends ==
  ASSUME TypeOK, BootTasks
  PROVE  Extends(queue)
<1>1. PICK alert \in BOOLEAN :
        \E a \in SetToSeqs(IF alert THEN AdminAlerts ELSE {}) :
          runRecoveryScan(TRUE, queue, rows, a)
  BY DEF BootTasks
<1>2. PICK a \in SetToSeqs(IF alert THEN AdminAlerts ELSE {}) :
        runRecoveryScan(TRUE, queue, rows, a)
  BY <1>1
<1>3. a \in Seq(Message)
  BY <1>2, AlertSeqType
<1>4. BeginScan(queue, rows, a) \/ NoScan(queue, a)
  BY <1>2 DEF runRecoveryScan
<1> QED
  BY <1>3, <1>4, RecoveryScanExtends DEF Extends, TypeOK

LEMMA QuietExtends ==
  ASSUME TypeOK, Maintenance \/ AdminAlert \/ QuietTick
  PROVE  Extends(queue)
<1>1. CASE Maintenance
  <2>1. \E worsened \in BOOLEAN :
          \E a \in SetToSeqs(IF worsened THEN AdminAlerts ELSE {}) : queue' = queue \o a
    BY <1>1 DEF Maintenance
  <2> QED
    BY <2>1, AlertSeqType DEF Extends
<1>2. CASE AdminAlert
  BY <1>2, AlertSeqType DEF AdminAlert, Extends
<1>3. CASE QuietTick
  <2>1. BeginScan(queue, rows, << >>) \/ NoScan(queue, << >>)
    BY <1>3 DEF QuietTick, runRecoveryScan
  <2> QED
    BY <2>1, RecoveryScanExtends, EmptySeq DEF TypeOK, Extends
<1> QED
  BY <1>1, <1>2, <1>3
-----------------------------------------------------------------------------
(* What has become of a notification other than the one just sent.         *)

\* The send of the head of the queue, as far as a notification sees it.
LEMMA SendCases ==
  ASSUME IInv, SendHead, NEW u \in User, NEW k \in Key
  PROVE  \/ Untouched(u, k) /\ ~(Head(queue).trackDelivery /\ About(Head(queue)) = <<u, k>>)
         \/ /\ Head(queue).trackDelivery /\ About(Head(queue)) = <<u, k>>
            /\ \/ fate'[u][k] \in {"delivered", "abandoned"}
               \/ /\ fate'[u][k] = fate[u][k]
                  /\ rows'[u][k].state = "PENDING" \/ <<u, k>> \in unrecorded'
<1> DEFINE m == Head(queue)
<1>1. queue # << >> /\ TypeOK
  BY DEF SendHead, IInv
<1>2. SendAlert(m) \/ SendSuccess(m) \/ SendPermanent(m)
        \/ SendExhausted(m) \/ SendRetry(m)
  BY DEF SendHead
<1>3. CASE SendAlert(m)
  BY <1>3 DEF SendAlert, Untouched, log
<1>4. CASE m.trackDelivery
  <2>1. m \in TrackedMessage
    BY <1>1, <1>4, HeadFits
  <2>2. \/ fate' = fate /\ \E n : writeNotificationState(m, "PENDING", n)
        \/ /\ Settle(m, "delivered") \/ Settle(m, "abandoned")
           /\ UNCHANGED log \/ \E state, n : writeNotificationState(m, state, n)
    <3>1. CASE SendSuccess(m)
      BY <3>1 DEF SendSuccess
    <3>2. CASE SendPermanent(m)
      BY <3>2 DEF SendPermanent
    <3>3. CASE SendExhausted(m)
      BY <3>3 DEF SendExhausted
    <3>4. CASE SendRetry(m)
      BY <3>4 DEF SendRetry
    <3> QED
      BY <1>2, <1>4, <3>1, <3>2, <3>3, <3>4 DEF SendAlert
  <2>3. CASE About(m) = <<u, k>>
    <3>1. u = m.chatId /\ k = m.key
      BY <2>3 DEF About
    <3> HIDE DEF m
    <3>2. CASE fate' = fate /\ \E n : writeNotificationState(m, "PENDING", n)
      <4>1. rows'[u][k].state = "PENDING" \/ <<u, k>> \in unrecorded'
        <5>1. PICK n : writeNotificationState(m, "PENDING", n)
          BY <3>2
        <5>2. \/ rows'[u][k] = [state |-> "PENDING", n |-> n]
              \/ <<u, k>> \in unrecorded'
          BY <1>1, <2>1, <2>3, <3>1, <5>1, WriteTouches
        <5> QED
          BY <5>2
      <4> QED
        BY <1>4, <2>3, <3>2, <4>1 DEF m
    <3>3. CASE Settle(m, "delivered") \/ Settle(m, "abandoned")
      <4>1. fate'[u][k] \in {"delivered", "abandoned"}
        BY <1>1, <2>1, <3>1, <3>3, SettleTouches
      <4> QED
        BY <1>4, <2>3, <4>1 DEF m
    <3> QED
      BY <2>2, <3>2, <3>3
  <2>4. CASE About(m) # <<u, k>>
    <3> HIDE DEF m
    <3>1. fate'[u][k] = fate[u][k]
      BY <1>1, <2>1, <2>2, <2>4, SettleTouches
    <3>2. rows'[u][k] = rows[u][k] /\ (<<u, k>> \in unrecorded' <=> <<u, k>> \in unrecorded)
      BY <1>1, <2>1, <2>2, <2>4, WriteTouches DEF log
    <3> QED
      BY <2>4, <3>1, <3>2 DEF m, Untouched
  <2> QED
    BY <2>3, <2>4
<1> QED
  BY <1>2, <1>3, <1>4 DEF SendSuccess, SendPermanent, SendExhausted, SendRetry

-----------------------------------------------------------------------------
(* Nothing is forgotten.                                                   *)

\* The notification <<u, k>> is being worked at, or is in the log to be.
KeptInMind(u, k) ==
  fate[u][k] = "owed" /\ <<u, k>> \notin unrecorded
    => Carried(queue, u, k) \/ rows[u][k].state = "PENDING"

AllKeptInMind == \A u \in User, k \in Key : KeptInMind(u, k)

\* The row stays or was settled, and the queue only grows.
LEMMA GrowthKeepsInMind ==
  ASSUME TypeOK, Extends(queue), NEW u \in User, NEW k \in Key, KeptInMind(u, k),
         \/ /\ rows[u][k].state = "PENDING" => rows'[u][k].state = "PENDING"
            /\ fate'[u][k] = fate[u][k]
            /\ <<u, k>> \in unrecorded => <<u, k>> \in unrecorded'
         \/ Carried(queue', u, k)
  PROVE  KeptInMind(u, k)'
<1>1. Carried(queue, u, k) => Carried(queue', u, k)
  BY ExtendsKeeps DEF TypeOK
<1> QED
  BY <1>1 DEF KeptInMind

LEMMA RotationKeepsPending ==
  ASSUME NEW worsened, NEW gone \in SUBSET Settled, performMaintenanceIfDue(worsened, gone),
         NEW u \in User, NEW k \in Key
  PROVE  rows[u][k].state = "PENDING" <=> rows'[u][k].state = "PENDING"
<1>1. <<u, k>> \in gone => rows[u][k].state \in Terminal
  BY DEF Settled
<1>2. rows'[u][k] = IF <<u, k>> \in gone THEN NoRow ELSE rows[u][k]
  BY DEF performMaintenanceIfDue
<1> QED
  BY <1>1, <1>2 DEF Terminal, NoRow

LEMMA NotifyKeepsInMind ==
  ASSUME IInv, EventLogged \/ NetworkRestored, NEW u \in User, NEW k \in Key,
         KeptInMind(u, k)
  PROVE  KeptInMind(u, k)'
<1>0. rows' = rows /\ unrecorded' = unrecorded /\ TypeOK
  BY DEF EventLogged, NetworkRestored, log, IInv
<1>1. ASSUME NEW j \in Key, NEW R \in SUBSET whitelist,
             NEW s \in SetToSeqs({EventMessage(v, j) : v \in R}),
             notifyEvent(j, R, s),
             \/ queue' = queue \o s
             \/ runRecoveryScan(TRUE, queue \o s, rows, << >>)
      PROVE  KeptInMind(u, k)'
  <2>1. Extends(queue) /\ \A v \in R : Carried(queue', v, j)
    BY <1>0, <1>1, NotifiedQueue
  <2>2. fate'[u][k] = fate[u][k] \/ (u \in R /\ k = j)
    BY <1>1 DEF notifyEvent
  <2> QED
    BY <1>0, <2>1, <2>2, GrowthKeepsInMind
<1>2. ASSUME NEW alert \in BOOLEAN,
             NEW a \in SetToSeqs(IF alert THEN AdminAlerts ELSE {}),
             runRecoveryScan(TRUE, queue \o a, rows, << >>), UNCHANGED fate
      PROVE  KeptInMind(u, k)'
  BY <1>0, <1>2, AlertedQueue, GrowthKeepsInMind
<1>3. EventLogged =>
        \E j \in Key, R \in SUBSET whitelist :
          \E s \in SetToSeqs({EventMessage(v, j) : v \in R}) :
            notifyEvent(j, R, s) /\ queue' = queue \o s
  BY DEF EventLogged
<1>4. NetworkRestored =>
        \/ \E j \in Key, R \in SUBSET whitelist :
             \E s \in SetToSeqs({EventMessage(v, j) : v \in R}) :
               notifyEvent(j, R, s) /\ runRecoveryScan(TRUE, queue \o s, rows, << >>)
        \/ /\ \E alert \in BOOLEAN :
                \E a \in SetToSeqs(IF alert THEN AdminAlerts ELSE {}) :
                  runRecoveryScan(TRUE, queue \o a, rows, << >>)
           /\ UNCHANGED fate
  BY DEF NetworkRestored
<1> QED
  BY <1>1, <1>2, <1>3, <1>4

LEMMA QuietKeepsInMind ==
  ASSUME IInv, NEW u \in User, NEW k \in Key, KeptInMind(u, k),
         \/ Maintenance \/ BootTasks \/ AdminAlert \/ QuietTick
         \/ WhitelistChange \/ TimerElapses \/ UNCHANGED vars
  PROVE  KeptInMind(u, k)'
<1>0. TypeOK
  BY DEF IInv
<1>1. CASE Maintenance
  <2>1. /\ rows[u][k].state = "PENDING" => rows'[u][k].state = "PENDING"
        /\ fate' = fate /\ unrecorded' = unrecorded
    BY <1>1, RotationKeepsPending DEF Maintenance
  <2> QED
    BY <1>0, <1>1, <2>1, QuietExtends, GrowthKeepsInMind
<1>2. CASE BootTasks
  <2>1. /\ rows[u][k].state = "PENDING" => rows'[u][k].state = "PENDING"
        /\ fate' = fate /\ unrecorded' = unrecorded
    BY <1>2, RotationKeepsPending DEF BootTasks
  <2> QED
    BY <1>0, <1>2, <2>1, BootExtends, GrowthKeepsInMind
<1>3. CASE AdminAlert \/ QuietTick
  <2>1. rows' = rows /\ fate' = fate /\ unrecorded' = unrecorded
    BY <1>3 DEF AdminAlert, QuietTick, log
  <2> QED
    BY <1>0, <1>3, <2>1, QuietExtends, GrowthKeepsInMind
<1>4. CASE WhitelistChange \/ TimerElapses \/ UNCHANGED vars
  <2>1. queue' = queue /\ rows' = rows /\ fate' = fate /\ unrecorded' = unrecorded
    BY <1>4 DEF WhitelistChange, TimerElapses, vars, log
  <2> QED
    BY <1>0, <2>1, SameExtends, GrowthKeepsInMind
<1> QED
  BY <1>1, <1>2, <1>3, <1>4

LEMMA ResetKeepsInMind ==
  ASSUME IInv, NEW v \in User, handleResetNotif(v),
         NEW u \in User, NEW k \in Key, KeptInMind(u, k)
  PROVE  KeptInMind(u, k)'
<1>1. /\ queue' = queue /\ fate' = fate
      /\ unrecorded' = unrecorded \cup ({v} \X PendingIn(rows, v))
      /\ u # v => rows'[u][k] = rows[u][k]
      /\ TypeOK
  BY DEF handleResetNotif, IInv, TypeOK
<1>2. u = v /\ rows[u][k].state = "PENDING" => <<u, k>> \in unrecorded'
  BY <1>1 DEF PendingIn
<1> QED
  BY <1>1, <1>2 DEF KeptInMind

LEMMA SendKeepsInMind ==
  ASSUME IInv, SendHead, NEW u \in User, NEW k \in Key, KeptInMind(u, k)
  PROVE  KeptInMind(u, k)'
<1>1. /\ TypeOK /\ queue # << >> /\ queue \in Seq(Message) /\ Tail(queue) \in Seq(Message)
      /\ rows' \in [User -> [Key -> Row]]
  BY TypeSendHead, HeadTailProperties DEF IInv, TypeOK, SendHead
<1>2. Extends(Tail(queue))
  BY <1>1, SendExtends
<1>3. CASE Untouched(u, k) /\ ~(Head(queue).trackDelivery /\ About(Head(queue)) = <<u, k>>)
  <2>1. Carried(queue, u, k) => Carried(queue', u, k)
    BY <1>1, <1>2, <1>3, TailKept, ExtendsKeeps
  <2> QED
    BY <1>3, <2>1 DEF KeptInMind, Untouched
<1>4. CASE \/ fate'[u][k] \in {"delivered", "abandoned"}
           \/ rows'[u][k].state = "PENDING" \/ <<u, k>> \in unrecorded'
  BY <1>4 DEF KeptInMind
<1> QED
  BY <1>3, <1>4, SendCases

\* A reset of the board loses first attempts, which are unrecorded from then
\* on; what a scan was carrying is still PENDING in the log.
LEMMA CrashKeepsInMind ==
  ASSUME IInv, Crash, NEW u \in User, NEW k \in Key, KeptInMind(u, k)
  PROVE  KeptInMind(u, k)'
<1> SUFFICES ASSUME fate'[u][k] = "owed", <<u, k>> \notin unrecorded'
             PROVE  rows'[u][k].state = "PENDING"
  BY DEF KeptInMind
<1>1. PICK sent \in SUBSET InHand :
        /\ fate' = [v \in User |-> [j \in Key |->
                      IF <<v, j>> \in sent THEN "delivered" ELSE fate[v][j]]]
        /\ unrecorded' = unrecorded \cup sent \cup FlowIn(queue)
  BY DEF Crash
<1>2. /\ fate[u][k] = "owed" /\ <<u, k>> \notin unrecorded /\ <<u, k>> \notin FlowIn(queue)
      /\ rows' = rows
  BY <1>1 DEF Crash
<1>3. CASE Carried(queue, u, k)
  <2>1. PICK i \in DOMAIN queue : queue[i].trackDelivery /\ About(queue[i]) = <<u, k>>
    BY <1>3 DEF Carried
  <2>2. queue[i].isScanMessage
    BY <1>2, <2>1 DEF FlowIn, Range
  <2>3. MsgFits(queue[i], rows, fate, unrecorded)
    BY <2>1 DEF IInv, MsgsFit
  <2>4. u = queue[i].chatId /\ k = queue[i].key
    BY <2>1 DEF About
  <2>5. rows[u][k] = [state |-> "PENDING", n |-> queue[i].attemptCountBefore]
    BY <1>2, <2>1, <2>2, <2>3, <2>4 DEF MsgFits
  <2> QED
    BY <1>2, <2>5
<1>4. CASE rows[u][k].state = "PENDING"
  BY <1>2, <1>4
<1> QED
  BY <1>2, <1>3, <1>4 DEF KeptInMind

LEMMA InMindInit == Init => AllKeptInMind
BY DEF Init, AllKeptInMind, KeptInMind

LEMMA InMindNext == IInv /\ AllKeptInMind /\ [Next]_vars => AllKeptInMind'
<1> SUFFICES ASSUME IInv, AllKeptInMind, [Next]_vars, NEW u \in User, NEW k \in Key
             PROVE  KeptInMind(u, k)'
  BY DEF AllKeptInMind
<1>1. KeptInMind(u, k)
  BY DEF AllKeptInMind
<1> QED
  BY <1>1, NotifyKeepsInMind, QuietKeepsInMind, ResetKeepsInMind, SendKeepsInMind,
     CrashKeepsInMind DEF Next, tickNotificationEngine

LEMMA InMindFollows == AllKeptInMind => NothingForgotten
<1> SUFFICES ASSUME AllKeptInMind, NEW p \in Notification,
                    FateOf(p) = "owed", p \notin unrecorded
             PROVE  p \in TrackedIn(queue) \/ IsPending(p)
  BY DEF NothingForgotten
<1>1. p = <<p[1], p[2]>> /\ p[1] \in User /\ p[2] \in Key
  BY DEF Notification
<1>2. Carried(queue, p[1], p[2]) \/ IsPending(p)
  BY <1>1 DEF AllKeptInMind, KeptInMind, FateOf, IsPending, RowOf
<1>3. Carried(queue, p[1], p[2]) => p \in TrackedIn(queue)
  BY <1>1 DEF Carried, TrackedIn, Range
<1> QED
  BY <1>2, <1>3

\* A notification queued for a user is delivered, given up, still queued, or
\* PENDING in the log, unless its row could not be kept: no order of sends,
\* scans, reconnections, rotations, list changes and resets of the board
\* makes the engine lose sight of it.
THEOREM NothingForgottenHolds == Spec => []NothingForgotten
BY InMindFollows, InMindInit, InMindNext, EngineInvariant, PTL DEF Spec

-----------------------------------------------------------------------------
(* Nothing is left without a retry.  PendingHasRetry is not inductive: a   *)
(* scan ends without the timer when nothing it carried is still pending,   *)
(* so one has to know that what is pending then was carried by it.         *)

\* A row the retry mechanism has to come back for.
Waits(u, k) ==
  rows[u][k].state = "PENDING" /\ <<u, k>> \notin slipped \cup unrecorded

\* The timer or a scan comes back for it; a scan that has seen no failure
\* still carries it.
CoveredNote(u, k) ==
  Waits(u, k) => /\ booted => active \/ scanInProgress
                 /\ scanInProgress /\ ~hadPending => ScanCarried(queue, u, k)

Covered == \A u \in User, k \in Key : CoveredNote(u, k)

\* No scan begins or ends, and no row becomes one to come back for.
LEMMA CalmCovers ==
  ASSUME TypeOK, Extends(queue), UNCHANGED <<booted, active, scanInProgress, hadPending>>,
         NEW u \in User, NEW k \in Key, CoveredNote(u, k), Waits(u, k)' => Waits(u, k)
  PROVE  CoveredNote(u, k)'
<1>1. ScanCarried(queue, u, k) => ScanCarried(queue', u, k)
  BY ExtendsKeeps DEF TypeOK
<1> QED
  BY <1>1 DEF CoveredNote

\* A scan that begins carries all there is to come back for.
LEMMA ScanCovers ==
  ASSUME TypeOK, NEW q \in Seq(Message), NEW after \in Seq(Message),
         NEW rs \in [User -> [Key -> Row]], BeginScan(q, rs, after),
         NEW u \in User, NEW k \in Key,
         rows'[u][k].state = "PENDING" => rs[u][k].state = "PENDING"
  PROVE  CoveredNote(u, k)'
<1>1. ASSUME Waits(u, k)'
      PROVE  scanInProgress' /\ ScanCarried(queue', u, k)
  <2>1. rs[u][k].state = "PENDING" /\ <<u, k>> \notin slipped'
    BY <1>1 DEF Waits
  <2> QED
    BY <2>1, RecoveryScanExtends
<1> QED
  BY <1>1 DEF CoveredNote

LEMMA NoScanCovers ==
  ASSUME TypeOK, Extends(queue), UNCHANGED <<booted, active>>,
         NEW q, NEW after, NoScan(q, after),
         NEW u \in User, NEW k \in Key, CoveredNote(u, k), Waits(u, k)' => Waits(u, k)
  PROVE  CoveredNote(u, k)'
BY CalmCovers DEF NoScan, scan

LEMMA NotifyCovers ==
  ASSUME IInv, EventLogged \/ NetworkRestored, NEW u \in User, NEW k \in Key,
         CoveredNote(u, k)
  PROVE  CoveredNote(u, k)'
<1>0. /\ rows' = rows /\ unrecorded' = unrecorded /\ whitelist' = whitelist
      /\ booted' = booted /\ active' = active
      /\ TypeOK /\ rows \in [User -> [Key -> Row]] /\ whitelist \in SUBSET User
      /\ queue \in Seq(Message) /\ << >> \in Seq(Message)
  <2>1. CASE EventLogged
    BY <2>1 DEF EventLogged, log, timer, IInv, TypeOK
  <2>2. CASE NetworkRestored
    BY <2>2 DEF NetworkRestored, log, IInv, TypeOK
  <2> QED
    BY <2>1, <2>2
<1>1. slipped' = slipped => (Waits(u, k)' => Waits(u, k))
  BY <1>0 DEF Waits
<1>2. CASE EventLogged
  <2>1. PICK j \in Key, R \in SUBSET whitelist :
          \E s \in SetToSeqs({EventMessage(v, j) : v \in R}) : queue' = queue \o s
    BY <1>2 DEF EventLogged
  <2>2. Extends(queue)
    BY <1>0, <2>1, NotifiedQueue
  <2> QED
    BY <1>0, <1>1, <1>2, <2>2, CalmCovers DEF EventLogged, timer, scan
<1>3. ASSUME NEW q \in Seq(Message), runRecoveryScan(TRUE, q, rows, << >>), Extends(queue)
      PROVE  CoveredNote(u, k)'
  <2>1. CASE BeginScan(q, rows, << >>)
    BY <1>0, <2>1, ScanCovers
  <2>2. CASE NoScan(q, << >>)
    BY <1>0, <1>1, <1>3, <2>2, NoScanCovers DEF NoScan
  <2> QED
    BY <1>3, <2>1, <2>2 DEF runRecoveryScan
<1>4. CASE NetworkRestored
  <2>1. ASSUME NEW j \in Key, NEW R \in SUBSET whitelist,
               NEW s \in SetToSeqs({EventMessage(v, j) : v \in R}),
               runRecoveryScan(TRUE, queue \o s, rows, << >>)
        PROVE  CoveredNote(u, k)'
    <3>1. Extends(queue)
      BY <1>0, <2>1, NotifiedQueue
    <3>2. queue \o s \in Seq(Message)
      BY <1>0, EventSeqFits, ConcatType
    <3> QED
      BY <1>3, <2>1, <3>1, <3>2
  <2>2. ASSUME NEW alert \in BOOLEAN,
               NEW a \in SetToSeqs(IF alert THEN AdminAlerts ELSE {}),
               runRecoveryScan(TRUE, queue \o a, rows, << >>)
        PROVE  CoveredNote(u, k)'
    <3>1. Extends(queue)
      BY <1>0, <2>2, AlertedQueue
    <3>2. queue \o a \in Seq(Message)
      BY <1>0, AlertSeqType, ConcatType
    <3> QED
      BY <1>3, <2>2, <3>1, <3>2
  <2> QED
    BY <1>4, <2>1, <2>2 DEF NetworkRestored
<1> QED
  BY <1>2, <1>4

LEMMA QuietCovers ==
  ASSUME IInv, NEW u \in User, NEW k \in Key, CoveredNote(u, k),
         \/ Maintenance \/ AdminAlert \/ QuietTick \/ WhitelistChange
         \/ (\E v \in User : handleResetNotif(v)) \/ TimerElapses \/ UNCHANGED vars
  PROVE  CoveredNote(u, k)'
<1>0. TypeOK /\ rows \in [User -> [Key -> Row]] /\ queue \in Seq(Message)
      /\ << >> \in Seq(Message)
  BY DEF IInv, TypeOK
<1>1. CASE Maintenance
  <2>1. rows'[u][k].state = "PENDING" => rows[u][k].state = "PENDING"
    BY <1>1, RotationKeepsPending DEF Maintenance
  <2>2. Waits(u, k)' => Waits(u, k)
    BY <1>1, <2>1 DEF Maintenance, Waits
  <2> QED
    BY <1>0, <1>1, <2>2, QuietExtends, CalmCovers DEF Maintenance, timer, scan
<1>2. CASE AdminAlert
  <2>1. Waits(u, k)' => Waits(u, k)
    BY <1>2 DEF AdminAlert, Waits, log
  <2> QED
    BY <1>0, <1>2, <2>1, QuietExtends, CalmCovers DEF AdminAlert, timer, scan
<1>3. CASE QuietTick
  <2>1. BeginScan(queue, rows, << >>) \/ NoScan(queue, << >>)
    BY <1>3 DEF QuietTick, runRecoveryScan
  <2>2. rows' = rows /\ unrecorded' = unrecorded /\ whitelist' = whitelist
        /\ booted' = booted /\ active' = active
    BY <1>3 DEF QuietTick, log
  <2>3. CASE BeginScan(queue, rows, << >>)
    BY <1>0, <2>2, <2>3, ScanCovers
  <2>4. CASE NoScan(queue, << >>)
    <3>1. Waits(u, k)' => Waits(u, k)
      BY <2>2, <2>4 DEF Waits, NoScan
    <3> QED
      BY <1>0, <1>3, <2>2, <2>4, <3>1, QuietExtends, NoScanCovers
  <2> QED
    BY <2>1, <2>3, <2>4
<1>4. CASE WhitelistChange
  <2>1. Waits(u, k)' => Waits(u, k)
    BY <1>4 DEF WhitelistChange, Waits, log
  <2>2. queue' = queue
    BY <1>4 DEF WhitelistChange
  <2> QED
    BY <1>0, <1>4, <2>1, <2>2, SameExtends, CalmCovers DEF WhitelistChange, timer, scan
<1>5. CASE \E v \in User : handleResetNotif(v)
  <2>1. PICK v \in User : handleResetNotif(v)
    BY <1>5
  <2>2. rows'[u][k] = (IF u = v THEN NoRow ELSE rows[u][k])
    BY <1>0, <2>1 DEF handleResetNotif
  <2>3. rows'[u][k].state = "PENDING" => rows[u][k].state = "PENDING"
    BY <2>2 DEF NoRow
  <2>4. Waits(u, k)' => Waits(u, k)
    BY <2>1, <2>3 DEF handleResetNotif, Waits
  <2>5. queue' = queue /\ UNCHANGED <<booted, active, scanInProgress, hadPending>>
    BY <2>1 DEF handleResetNotif, timer, scan
  <2> QED
    BY <1>0, <2>4, <2>5, SameExtends, CalmCovers
<1>6. CASE TimerElapses \/ UNCHANGED vars
  <2>1. /\ queue' = queue /\ UNCHANGED <<booted, active, scanInProgress, hadPending>>
        /\ UNCHANGED <<whitelist, rows, slipped, unrecorded>>
    BY <1>6 DEF TimerElapses, vars, log, timer, scan
  <2>2. Waits(u, k)' => Waits(u, k)
    BY <2>1 DEF Waits
  <2> QED
    BY <1>0, <2>1, <2>2, SameExtends, CalmCovers
<1> QED
  BY <1>1, <1>2, <1>3, <1>4, <1>5, <1>6

\* The first scan finds every pending row that does not slip by it, or one is
\* under way already.
LEMMA BootCovers ==
  ASSUME IInv, BootTasks, NEW u \in User, NEW k \in Key, CoveredNote(u, k)
  PROVE  CoveredNote(u, k)'
<1>0. TypeOK /\ rows \in [User -> [Key -> Row]] /\ queue \in Seq(Message)
  BY DEF IInv, TypeOK
<1>1. PICK worsened, alert \in BOOLEAN, gone \in SUBSET Settled :
        /\ performMaintenanceIfDue(worsened, gone)
        /\ \E a \in SetToSeqs(IF alert THEN AdminAlerts ELSE {}) :
             runRecoveryScan(TRUE, queue, rows, a)
  BY DEF BootTasks
<1>2. PICK a \in SetToSeqs(IF alert THEN AdminAlerts ELSE {}) :
        runRecoveryScan(TRUE, queue, rows, a)
  BY <1>1
<1>3. /\ a \in Seq(Message)
      /\ rows'[u][k].state = "PENDING" => rows[u][k].state = "PENDING"
      /\ whitelist' = whitelist /\ active' = active /\ unrecorded' = unrecorded
  BY <1>0, <1>1, <1>2, AlertSeqType, RotationKeepsPending DEF BootTasks
<1>4. CASE BeginScan(queue, rows, a)
  BY <1>0, <1>3, <1>4, ScanCovers
<1>5. CASE ~CanScan /\ NoScan(queue, a)
  <2>1. Waits(u, k)' => Waits(u, k)
    BY <1>3, <1>5 DEF NoScan, Waits
  <2>2. ScanCarried(queue, u, k) => ScanCarried(queue', u, k)
    BY <1>0, BootExtends, ExtendsKeeps
  <2>3. scanInProgress /\ scanInProgress' = scanInProgress /\ hadPending' = hadPending
    BY <1>5 DEF CanScan, NoScan, scan
  <2> QED
    BY <2>1, <2>2, <2>3 DEF CoveredNote
<1> QED
  BY <1>2, <1>4, <1>5 DEF runRecoveryScan

LEMMA CrashCovers ==
  ASSUME Crash, NEW u, NEW k
  PROVE  CoveredNote(u, k)'
<1>1. booted' = FALSE /\ scanInProgress' = FALSE
  BY DEF Crash
<1> QED
  BY <1>1 DEF CoveredNote

\* The send of a scan message leaves the scan open, or ends it with the
\* timer set unless every message it carried has settled its notification.
LEMMA ScanMessageDoneCases ==
  ASSUME TypeOK, ScanAccounting, inFlight > 0, NEW stillPending \in BOOLEAN,
         ScanMessageDone(stillPending)
  PROVE  /\ hadPending' = (hadPending \/ stillPending)
         /\ \/ inFlight = 1 /\ scanInProgress' = FALSE /\ active' = hadPending'
            \/ active' = active /\ scanInProgress' = TRUE
<1>1. scanInProgress /\ scanInProgress = TRUE
  BY Zenon DEF ScanAccounting, TypeOK
<1>2. hadPending' = (hadPending \/ stillPending)
  BY Zenon DEF ScanMessageDone
<1>3. inFlight \in Nat
  BY DEF TypeOK
<1>4. CASE inFlight - 1 = 0
  <2>1. scanInProgress' = FALSE /\ active' = (hadPending \/ stillPending)
    BY <1>1, <1>4 DEF ScanMessageDone
  <2>2. inFlight = 1
    BY <1>3, <1>4
  <2> QED
    BY <1>2, <2>1, <2>2
<1>5. CASE inFlight - 1 # 0
  <2>1. UNCHANGED timer
    BY <1>5 DEF ScanMessageDone
  <2> QED
    BY <1>1, <1>2, <2>1 DEF timer
<1> QED
  BY <1>4, <1>5

\* With one message of a scan in flight, and that one sent, no other is
\* queued.
LEMMA LastScanMessage ==
  ASSUME TypeOK, NEW q \in Seq(Message), ScanCount(q) = 0, NEW u, NEW k
  PROVE  ~ScanCarried(q, u, k)
<1>1. NoScanIn(q)
  BY NoScanCount
<1> QED
  BY <1>1 DEF NoScanIn, ScanCarried

LEMMA ScanHead ==
  ASSUME TypeOK, ScanAccounting, queue # << >>, Head(queue).isScanMessage
  PROVE  inFlight > 0
<1>1. ScanCount(Tail(queue)) = inFlight - 1 /\ Tail(queue) \in Seq(Message)
  BY TailCount, HeadTailProperties DEF TypeOK, ScanAccounting, ScanCount
<1>2. ScanCount(Tail(queue)) \in Nat /\ inFlight \in Nat
  BY <1>1, ScanIndicesFinite DEF TypeOK, ScanCount
<1> QED
  BY <1>1, <1>2

\* What the end of a tick does to a row that is still to come back for.
LEMMA TickEndsCovers ==
  ASSUME IInv, queue # << >>, NEW r \in Seq(Message), TickEnds(Head(queue), r),
         rows' \in [User -> [Key -> Row]], UNCHANGED <<whitelist, booted>>,
         Extends(Tail(queue)), NEW u \in User, NEW k \in Key, CoveredNote(u, k),
         slipped' = slipped /\ Waits(u, k)' =>
           Waits(u, k) /\ (Head(queue).isScanMessage => About(Head(queue)) # <<u, k>>)
  PROVE  CoveredNote(u, k)'
<1> DEFINE m == Head(queue)
<1>1. /\ TypeOK /\ ScanAccounting /\ queue \in Seq(Message) /\ << >> \in Seq(Message)
      /\ m \in Message /\ Tail(queue) \in Seq(Message)
  BY HeadTailProperties DEF IInv, TypeOK
<1>2. ScanCount(Tail(queue)) = IF m.isScanMessage THEN inFlight - 1 ELSE inFlight
  BY <1>1, TailCount DEF ScanAccounting, ScanCount
<1>3. ASSUME m.isScanMessage => About(m) # <<u, k>>
      PROVE  /\ ScanCarried(queue, u, k) => ScanCarried(Tail(queue), u, k)
             /\ ScanCarried(Tail(queue), u, k) => ScanCarried(queue', u, k)
  BY <1>1, <1>3, TailKept, ExtendsKeeps
<1>4. CASE m.isScanMessage
  <2>1. ScanMessageDone(FALSE) /\ slipped' = slipped
    BY <1>4 DEF TickEnds
  <2>2. inFlight > 0
    BY <1>1, <1>4, ScanHead
  <2>3. /\ hadPending' = (hadPending \/ FALSE)
        /\ \/ inFlight = 1 /\ scanInProgress' = FALSE /\ active' = hadPending'
           \/ active' = active /\ scanInProgress' = TRUE
    BY <1>1, <2>1, <2>2, ScanMessageDoneCases
  <2> SUFFICES ASSUME Waits(u, k)'
               PROVE  /\ booted' => active' \/ scanInProgress'
                      /\ scanInProgress' /\ ~hadPending' => ScanCarried(queue', u, k)
    BY DEF CoveredNote
  <2>4. Waits(u, k) /\ About(m) # <<u, k>> /\ scanInProgress
    <3>1. scanInProgress
      BY <1>1, <2>2 DEF ScanAccounting
    <3>2. Waits(u, k) /\ About(m) # <<u, k>>
      BY <1>4, <2>1
    <3> QED
      BY <3>1, <3>2
  <2>5. ~hadPending => ScanCarried(Tail(queue), u, k)
    BY <1>3, <2>4 DEF CoveredNote
  <2>6. CASE inFlight = 1 /\ scanInProgress' = FALSE /\ active' = hadPending'
    <3>1. ScanCount(Tail(queue)) = 0
      BY <1>2, <1>4, <2>6
    <3>2. hadPending
      BY <1>1, <2>5, <3>1, LastScanMessage
    <3> QED
      BY <2>3, <2>6, <3>2
  <2>7. CASE active' = active /\ scanInProgress' = TRUE
    BY <1>3, <2>3, <2>4, <2>5, <2>7
  <2> QED
    BY <2>3, <2>6, <2>7
<1>5. CASE ~m.isScanMessage
  <2>1. BeginScan(r, rows', << >>) \/ NoScan(r, << >>)
    BY <1>5 DEF TickEnds
  <2>2. active' = active
    BY <1>5 DEF TickEnds
  <2>3. CASE BeginScan(r, rows', << >>)
    BY <1>1, <2>3, ScanCovers
  <2>4. CASE NoScan(r, << >>)
    <3>1. slipped' = slipped /\ scanInProgress' = scanInProgress /\ hadPending' = hadPending
      BY <2>4 DEF NoScan, scan
    <3>2. Waits(u, k)' => Waits(u, k)
      BY <3>1
    <3>3. ScanCarried(queue, u, k) => ScanCarried(queue', u, k)
      BY <1>3, <1>5
    <3> QED
      BY <2>2, <3>1, <3>2, <3>3 DEF CoveredNote
  <2> QED
    BY <2>1, <2>3, <2>4
<1> QED
  BY <1>4, <1>5

\* A failure during a scan, of one of its messages or of another: the first
\* is remembered in hadPending, the second slips by and sets the timer.
LEMMA RetryCovers ==
  ASSUME IInv, queue # << >>, SendRetry(Head(queue)),
         NEW u \in User, NEW k \in Key, CoveredNote(u, k),
         \/ Untouched(u, k) /\ About(Head(queue)) # <<u, k>>
         \/ About(Head(queue)) = <<u, k>>
  PROVE  CoveredNote(u, k)'
<1> DEFINE m == Head(queue)
<1>1. /\ TypeOK /\ ScanAccounting /\ queue \in Seq(Message)
      /\ m \in Message /\ Tail(queue) \in Seq(Message)
      /\ queue' = Tail(queue) /\ booted' = booted /\ whitelist' = whitelist
  BY HeadTailProperties DEF IInv, TypeOK, SendRetry
<1>2. ScanCount(Tail(queue)) = IF m.isScanMessage THEN inFlight - 1 ELSE inFlight
  BY <1>1, TailCount DEF ScanAccounting, ScanCount
<1>3. CASE m.isScanMessage
  <2>1. inFlight > 0
    BY <1>1, <1>3, ScanHead
  <2>2. ScanMessageDone(TRUE)
    BY <1>3 DEF SendRetry
  <2>3. /\ hadPending' = (hadPending \/ TRUE)
        /\ \/ inFlight = 1 /\ scanInProgress' = FALSE /\ active' = hadPending'
           \/ active' = active /\ scanInProgress' = TRUE
    BY <1>1, <2>1, <2>2, ScanMessageDoneCases
  <2> QED
    BY <2>3 DEF CoveredNote
<1>4. CASE ~m.isScanMessage
  <2>1. /\ active' = TRUE /\ scanInProgress' = scanInProgress /\ hadPending' = hadPending
        /\ slipped' = IF scanInProgress THEN slipped \cup {About(m)} ELSE slipped
    BY <1>4 DEF SendRetry, scan
  <2>2. CASE About(m) = <<u, k>>
    <3>1. scanInProgress => ~Waits(u, k)'
      BY <2>1, <2>2 DEF Waits
    <3> QED
      BY <2>1, <3>1 DEF CoveredNote
  <2>3. CASE Untouched(u, k) /\ About(m) # <<u, k>>
    <3>1. Waits(u, k)' => Waits(u, k)
      BY <1>1, <2>1, <2>3 DEF Waits, Untouched
    <3>2. ScanCarried(queue, u, k) => ScanCarried(queue', u, k)
      BY <1>1, <2>3, TailKept
    <3> QED
      BY <2>1, <3>1, <3>2 DEF CoveredNote
  <2> QED
    BY <2>2, <2>3
<1> QED
  BY <1>3, <1>4

LEMMA SendCovers ==
  ASSUME IInv, IInv', SendHead, NEW u \in User, NEW k \in Key, CoveredNote(u, k)
  PROVE  CoveredNote(u, k)'
<1> DEFINE m == Head(queue)
           rest == Tail(queue)
<1>1. /\ queue # << >> /\ TypeOK /\ rest \in Seq(Message) /\ m \in Message
      /\ rows' \in [User -> [Key -> Row]]
      /\ m.isScanMessage => m.trackDelivery
  <2>1. queue # << >> /\ TypeOK /\ queue \in Seq(Message)
    BY DEF SendHead, IInv, TypeOK
  <2>2. rows' \in [User -> [Key -> Row]]
    BY DEF IInv, TypeOK
  <2>3. rest \in Seq(Message) /\ m \in Message
    BY <2>1, HeadTailProperties
  <2> HIDE DEF m
  <2>4. m.isScanMessage => m.trackDelivery
    BY <2>3 DEF Message, TrackedMessage, UntrackedMessage
  <2> QED
    BY <2>1, <2>2, <2>3, <2>4
<1>2. Extends(rest)
  BY <1>1, SendExtends
<1>3. SendAlert(m) \/ SendSuccess(m) \/ SendPermanent(m)
        \/ SendExhausted(m) \/ SendRetry(m)
  BY DEF SendHead
<1>4. CASE SendRetry(m)
  <2>1. \/ Untouched(u, k) /\ About(m) # <<u, k>>
        \/ About(m) = <<u, k>>
    BY <1>4, SendCases DEF SendRetry
  <2> QED
    BY <1>1, <1>4, <2>1, RetryCovers
<1>5. CASE ~SendRetry(m)
  <2>1. /\ UNCHANGED <<whitelist, booted>>
        /\ \E r \in Seq(Message) : TickEnds(m, r)
        /\ ~m.trackDelivery \/ fate'[u][k] \in {"delivered", "abandoned"}
             \/ About(m) # <<u, k>>
    <3>1. CASE SendAlert(m)
      BY <1>1, <3>1, FinishTickEnds DEF SendAlert
    <3>2. CASE SendSuccess(m) \/ SendExhausted(m)
      <4>1. TickEnds(m, rest) /\ UNCHANGED <<whitelist, booted>>
        BY <3>2, FinishTickEnds DEF SendSuccess, SendExhausted
      <4>2. m \in TrackedMessage /\ (Settle(m, "delivered") \/ Settle(m, "abandoned"))
        BY <1>1, <3>2, HeadFits DEF SendSuccess, SendExhausted
      <4>3. About(m) = <<u, k>> => fate'[u][k] \in {"delivered", "abandoned"}
        BY <1>1, <4>2, SettleTouches DEF About
      <4> QED
        BY <1>1, <4>1, <4>3
    <3>3. CASE SendPermanent(m)
      <4>1. \E a \in SetToSeqs(AdminAlerts) : TickEnds(m, rest \o a)
        BY <3>3, FinishTickEnds DEF SendPermanent
      <4>2. \A a \in SetToSeqs(AdminAlerts) : rest \o a \in Seq(Message)
        BY <1>1, AlertSeqType, ConcatType
      <4>3. m \in TrackedMessage /\ Settle(m, "abandoned") /\ UNCHANGED <<whitelist, booted>>
        BY <1>1, <3>3, HeadFits DEF SendPermanent
      <4>4. About(m) = <<u, k>> => fate'[u][k] \in {"delivered", "abandoned"}
        BY <1>1, <4>3, SettleTouches DEF About
      <4> QED
        BY <4>1, <4>2, <4>3, <4>4
    <3> QED
      BY <1>3, <1>5, <3>1, <3>2, <3>3
  <2>2. ASSUME slipped' = slipped, Waits(u, k)'
        PROVE  Waits(u, k) /\ (m.isScanMessage => About(m) # <<u, k>>)
    <3>1. fate'[u][k] = "owed"
      <4>1. NoteFits(u, k, rows', fate', unrecorded')
        BY DEF IInv, LogFits
      <4> QED
        BY <2>2, <4>1 DEF NoteFits, Waits
    <3>2. Untouched(u, k) /\ (m.isScanMessage => About(m) # <<u, k>>)
      BY <1>1, <2>1, <3>1, SendCases
    <3> QED
      BY <2>1, <2>2, <3>2 DEF Waits, Untouched
  <2>3. PICK r \in Seq(Message) : TickEnds(m, r)
    BY <2>1
  <2> QED
    BY <1>1, <1>2, <2>1, <2>2, <2>3, TickEndsCovers
<1> QED
  BY <1>4, <1>5

LEMMA CoveredInit == Init => Covered
BY DEF Init, Covered, CoveredNote, Waits, NoRow

LEMMA CoveredNext == IInv /\ Covered /\ [Next]_vars => Covered'
<1> SUFFICES ASSUME IInv, Covered, [Next]_vars, NEW u \in User, NEW k \in Key
             PROVE  CoveredNote(u, k)'
  BY DEF Covered
<1>1. CoveredNote(u, k) /\ IInv'
  BY IInvNext DEF Covered
<1> QED
  BY <1>1, NotifyCovers, QuietCovers, BootCovers, SendCovers, CrashCovers
     DEF Next, tickNotificationEngine

\* After the boot tasks no PENDING notification is left without the timer or
\* a scan to come back for it, but for those that the last scan did not
\* carry, since they failed after it had begun, or it could not open their
\* user's log, or did not look there: in no order of handlers is one left
\* behind that a scan has carried, or that failed after the last scan ended.
THEOREM PendingHasRetryHolds == Spec => []PendingHasRetry
<1>1. Covered => PendingHasRetry
  <2> SUFFICES ASSUME Covered, NEW p \in Notification, booted, IsPending(p),
                      p \notin slipped \cup unrecorded
               PROVE  active \/ scanInProgress
    BY DEF PendingHasRetry
  <2>1. p = <<p[1], p[2]>> /\ p[1] \in User /\ p[2] \in Key
    BY DEF Notification
  <2> QED
    BY <2>1 DEF Covered, CoveredNote, Waits, IsPending, RowOf
<1> QED
  BY <1>1, CoveredInit, CoveredNext, EngineInvariant, PTL DEF Spec

-----------------------------------------------------------------------------
(* The engine keeps the promise of Delivery.  What Delivery sees of the    *)
(* engine is a fate and a count of tries for each notification.            *)

Fates == [p \in Notification |-> FateOf(p)]
Tries == [p \in Notification |-> IF IsPending(p) THEN RowOf(p).n ELSE 0]

\* The fate and the tries of <<u, k>> before and after the step.
SameSeen(u, k) ==
  /\ fate'[u][k] = fate[u][k]
  /\ rows[u][k].state = "PENDING" \/ rows'[u][k].state = "PENDING"
       => rows'[u][k] = rows[u][k]

LEMMA SeenAt ==
  ASSUME NEW u \in User, NEW k \in Key
  PROVE  /\ <<u, k>> \in Notification
         /\ Fates[<<u, k>>] = fate[u][k] /\ Fates'[<<u, k>>] = fate'[u][k]
         /\ Tries[<<u, k>>] =
              IF rows[u][k].state = "PENDING" THEN rows[u][k].n ELSE 0
         /\ Tries'[<<u, k>>] =
              IF rows'[u][k].state = "PENDING" THEN rows'[u][k].n ELSE 0
<1>1. <<u, k>> \in Notification
  BY DEF Notification
<1> QED
  BY <1>1 DEF Fates, Tries, FateOf, RowOf, IsPending

LEMMA SameAt ==
  ASSUME NEW u \in User, NEW k \in Key, SameSeen(u, k)
  PROVE  Fates'[<<u, k>>] = Fates[<<u, k>>] /\ Tries'[<<u, k>>] = Tries[<<u, k>>]
BY SeenAt DEF SameSeen

LEMMA SeenTypeNext ==
  ASSUME IInv'
  PROVE  /\ Fates' \in [Notification -> Promise!Fate]
         /\ Tries' \in [Notification -> 0..MaxRetries]
<1>1. ASSUME NEW p \in Notification
      PROVE  Fates'[p] \in Promise!Fate /\ Tries'[p] \in 0..MaxRetries
  <2>1. PICK u \in User, k \in Key : p = <<u, k>>
    BY DEF Notification
  <2>2. NoteFits(u, k, rows', fate', unrecorded')
    BY DEF IInv, LogFits
  <2>3. fate'[u][k] \in {"unsent", "owed", "delivered", "abandoned"}
    BY DEF IInv, TypeOK
  <2>4. rows'[u][k].state = "PENDING" => rows'[u][k].n \in 0..MaxRetries
    BY <2>2, EngineAssumption DEF NoteFits
  <2>5. 0 \in 0..MaxRetries
    BY EngineAssumption
  <2> QED
    BY <2>1, <2>3, <2>4, <2>5, SeenAt DEF Promise!Fate
<1> QED
  BY <1>1 DEF Fates, Tries

\* A function on the notifications is known by its values at the pairs.
LEMMA SameOnPairs ==
  ASSUME NEW f, NEW g, f = [p \in Notification |-> f[p]], g = [p \in Notification |-> g[p]],
         \A u \in User, k \in Key : f[<<u, k>>] = g[<<u, k>>]
  PROVE  f = g
<1>1. ASSUME NEW p \in Notification
      PROVE  f[p] = g[p]
  <2>1. PICK u \in User, k \in Key : p = <<u, k>>
    BY DEF Notification
  <2> QED
    BY <2>1
<1> QED
  BY <1>1

Stutter == Fates' = Fates /\ Tries' = Tries /\ unrecorded' = unrecorded

LEMMA MapStutter ==
  ASSUME \A u \in User, k \in Key : SameSeen(u, k), unrecorded' = unrecorded
  PROVE  Stutter
<1>0. Fates = [p \in Notification |-> Fates[p]] /\ Fates' = [p \in Notification |-> Fates'[p]]
  BY DEF Fates
<1>1. Tries = [p \in Notification |-> Tries[p]] /\ Tries' = [p \in Notification |-> Tries'[p]]
  BY DEF Tries
<1>2. \A u \in User, k \in Key :
        Fates'[<<u, k>>] = Fates[<<u, k>>] /\ Tries'[<<u, k>>] = Tries[<<u, k>>]
  BY SameAt
<1>3. Fates' = Fates
  BY <1>0, <1>2, SameOnPairs
<1>4. Tries' = Tries
  BY <1>1, <1>2, SameOnPairs
<1> QED
  BY <1>3, <1>4 DEF Stutter

\* A step that may do anything to unrecorded notifications and nothing to
\* the others.
LEMMA MapDisturb ==
  ASSUME IInv, IInv', unrecorded \subseteq unrecorded',
         \A u \in User, k \in Key : <<u, k>> \notin unrecorded' => SameSeen(u, k)
  PROVE  Promise!Disturb(unrecorded') /\ unrecorded' \in SUBSET Notification
<1>1. unrecorded' \in SUBSET Notification
  BY DEF IInv, TypeOK
<1>2. unrecorded' = unrecorded \cup unrecorded'
  OBVIOUS
<1>3. /\ Fates' \in [Notification -> Promise!Fate]
      /\ Tries' \in [Notification -> 0..MaxRetries]
  BY SeenTypeNext
<1>4. ASSUME NEW p \in Notification \ unrecorded'
      PROVE  Fates'[p] = Fates[p] /\ Tries'[p] = Tries[p]
  <2>1. PICK u \in User, k \in Key : p = <<u, k>>
    BY DEF Notification
  <2> QED
    BY <2>1, SameAt
<1> QED
  BY <1>1, <1>2, <1>3, <1>4 DEF Promise!Disturb, Fates, Tries

\* notifyEvent accepts the event for the users it lets through.
LEMMA MapAccept ==
  ASSUME IInv, NEW k \in Key, NEW R \in SUBSET whitelist, NEW s,
         notifyEvent(k, R, s), UNCHANGED <<rows, unrecorded>>
  PROVE  Promise!Accept(R \X {k}) /\ R \X {k} \in SUBSET Notification
<1> DEFINE S == R \X {k}
<1>1. R \subseteq User /\ R # {} /\ \A u \in User : fate[u][k] = "unsent"
  <2>1. R # {} /\ \A u \in User : fate[u][k] = "unsent"
    BY DEF notifyEvent
  <2>2. R \subseteq User
    BY DEF IInv, TypeOK
  <2> QED
    BY <2>1, <2>2
<1>2. S # {} /\ S \in SUBSET Notification
  <2>1. PICK u \in R : TRUE
    BY <1>1
  <2>2. <<u, k>> \in S
    OBVIOUS
  <2>3. S \subseteq Notification
    BY <1>1 DEF Notification
  <2> QED
    BY <2>2, <2>3
<1>3. ASSUME NEW p \in S
      PROVE  Fates[p] = "unsent"
  <2>1. PICK u \in R : p = <<u, k>>
    OBVIOUS
  <2> QED
    BY <1>1, <2>1, SeenAt
<1>4. Fates' = [p \in Notification |-> IF p \in S THEN "owed" ELSE Fates[p]]
  <2> DEFINE g == [p \in Notification |-> IF p \in S THEN "owed" ELSE Fates[p]]
  <2>1. ASSUME NEW u \in User, NEW j \in Key
        PROVE  Fates'[<<u, j>>] = g[<<u, j>>]
    <3>1. fate'[u][j] = IF u \in R /\ j = k THEN "owed" ELSE fate[u][j]
      BY DEF notifyEvent
    <3>2. <<u, j>> \in S <=> u \in R /\ j = k
      OBVIOUS
    <3>3. /\ <<u, j>> \in Notification
          /\ Fates[<<u, j>>] = fate[u][j] /\ Fates'[<<u, j>>] = fate'[u][j]
      BY SeenAt
    <3> HIDE DEF S
    <3> QED
      BY <3>1, <3>2, <3>3
  <2>2. Fates' = [p \in Notification |-> Fates'[p]] /\ g = [p \in Notification |-> g[p]]
    BY DEF Fates
  <2> HIDE DEF g
  <2>3. Fates' = g
    BY <2>1, <2>2, SameOnPairs
  <2> QED
    BY <2>3 DEF g
<1>5. Tries' = Tries
  BY DEF Tries, IsPending, RowOf
<1> HIDE DEF S
<1>6. Promise!Accept(S)
  BY <1>2, <1>3, <1>4, <1>5 DEF Promise!Accept, Fates, Tries
<1> QED
  BY <1>2, <1>6 DEF S

\* A step that changes the fate and the tries of one notification.
LEMMA OneChanged ==
  ASSUME NEW u \in User, NEW k \in Key,
         \A v \in User, j \in Key : <<v, j>> # <<u, k>> => SameSeen(v, j)
  PROVE  /\ Fates' = [Fates EXCEPT ![<<u, k>>] = fate'[u][k]]
         /\ Tries' = [Tries EXCEPT ![<<u, k>>] =
                        IF rows'[u][k].state = "PENDING" THEN rows'[u][k].n ELSE 0]
<1> DEFINE n == IF rows'[u][k].state = "PENDING" THEN rows'[u][k].n ELSE 0
           f == [Fates EXCEPT ![<<u, k>>] = fate'[u][k]]
           t == [Tries EXCEPT ![<<u, k>>] = n]
<1>1. /\ Fates' = [p \in Notification |-> Fates'[p]] /\ f = [p \in Notification |-> f[p]]
      /\ Tries' = [p \in Notification |-> Tries'[p]] /\ t = [p \in Notification |-> t[p]]
  BY DEF Fates, Tries
<1>2. ASSUME NEW v \in User, NEW j \in Key
      PROVE  Fates'[<<v, j>>] = f[<<v, j>>] /\ Tries'[<<v, j>>] = t[<<v, j>>]
  <2>1. /\ <<v, j>> \in Notification /\ Fates'[<<u, k>>] = fate'[u][k]
        /\ Tries'[<<u, k>>] = n
    BY SeenAt
  <2>2. <<v, j>> # <<u, k>> =>
          Fates'[<<v, j>>] = Fates[<<v, j>>] /\ Tries'[<<v, j>>] = Tries[<<v, j>>]
    BY SameAt
  <2>3. /\ f[<<v, j>>] = IF <<v, j>> = <<u, k>> THEN fate'[u][k] ELSE Fates[<<v, j>>]
        /\ t[<<v, j>>] = IF <<v, j>> = <<u, k>> THEN n ELSE Tries[<<v, j>>]
    BY <2>1 DEF Fates, Tries
  <2> HIDE DEF f, t, n
  <2> QED
    BY <2>1, <2>2, <2>3
<1> HIDE DEF f, t
<1>3. Fates' = f
  BY <1>1, <1>2, SameOnPairs
<1>4. Tries' = t
  BY <1>1, <1>2, SameOnPairs
<1> QED
  BY <1>3, <1>4 DEF f, t

\* A send: a try, the last one or not, of the notification of the head; if
\* its row could not be written, nothing is promised of it any more.
LEMMA MapSend ==
  ASSUME IInv, IInv', SendHead
  PROVE  Stutter \/ Promise!Next
<1> DEFINE m == Head(queue)
           u == m.chatId
           k == m.key
<1>1. /\ queue # << >> /\ TypeOK
      /\ SendAlert(m) \/ SendSuccess(m) \/ SendPermanent(m)
           \/ SendExhausted(m) \/ SendRetry(m)
  BY DEF SendHead, IInv
<1>2. CASE SendAlert(m)
  <2>1. UNCHANGED <<rows, fate, unrecorded>>
    BY <1>2 DEF SendAlert, log
  <2> QED
    BY <2>1, MapStutter DEF SameSeen
<1>3. CASE m.trackDelivery
  <2>1. /\ m \in TrackedMessage /\ u \in User /\ k \in Key
        /\ MsgFits(m, rows, fate, unrecorded)
        /\ About(m) = <<u, k>>
    BY <1>1, <1>3, HeadFits DEF TrackedMessage, About
  <2>2. \A v \in User, j \in Key :
          <<v, j>> # <<u, k>> =>
            SameSeen(v, j) /\ (<<v, j>> \in unrecorded' <=> <<v, j>> \in unrecorded)
    <3> SUFFICES ASSUME NEW v \in User, NEW j \in Key, <<v, j>> # <<u, k>>
                 PROVE  SameSeen(v, j) /\ (<<v, j>> \in unrecorded' <=> <<v, j>> \in unrecorded)
      OBVIOUS
    <3>1. About(m) # <<v, j>>
      BY <2>1
    <3>2. Untouched(v, j)
      BY <3>1, SendCases
    <3> QED
      BY <3>2 DEF Untouched, SameSeen
  <2>3. unrecorded \subseteq unrecorded' /\ (<<u, k>> \notin unrecorded' => unrecorded' = unrecorded)
    <3>1. UNCHANGED log \/ \E state, n : writeNotificationState(m, state, n)
      <4>1. SendSuccess(m) => UNCHANGED log \/ \E state, n : writeNotificationState(m, state, n)
        BY DEF SendSuccess
      <4>2. SendPermanent(m) \/ SendExhausted(m) \/ SendRetry(m)
              => \E state, n : writeNotificationState(m, state, n)
        BY DEF SendPermanent, SendExhausted, SendRetry
      <4> QED
        BY <1>1, <1>3, <4>1, <4>2 DEF SendAlert
    <3> QED
      BY <2>1, <3>1, WriteCases DEF log
  <2>4. CASE <<u, k>> \in unrecorded'
    <3>1. Promise!Disturb(unrecorded') /\ unrecorded' \in SUBSET Notification
      BY <2>2, <2>3, <2>4, MapDisturb
    <3> QED
      BY <3>1 DEF Promise!Next
  <2>5. CASE <<u, k>> \notin unrecorded'
    <3>1. /\ unrecorded' = unrecorded /\ <<u, k>> \notin unrecorded
          /\ fate[u][k] = "owed"
          /\ IF m.isScanMessage
             THEN rows[u][k] = [state |-> "PENDING", n |-> m.attemptCountBefore]
             ELSE m.attemptCountBefore = 0 /\ rows[u][k] = NoRow
      BY <1>3, <2>1, <2>3, <2>5 DEF MsgFits
    <3>2. /\ <<u, k>> \in Notification /\ Fates[<<u, k>>] = "owed"
          /\ Tries[<<u, k>>] = m.attemptCountBefore
      <4>1. m.attemptCountBefore = IF rows[u][k].state = "PENDING" THEN rows[u][k].n ELSE 0
        BY <3>1 DEF NoRow
      <4> QED
        BY <2>1, <3>1, <4>1, SeenAt
    <3>3. /\ Fates' = [Fates EXCEPT ![<<u, k>>] = fate'[u][k]]
          /\ Tries' = [Tries EXCEPT ![<<u, k>>] =
                         IF rows'[u][k].state = "PENDING" THEN rows'[u][k].n ELSE 0]
      BY <2>1, <2>2, OneChanged
    <3> HIDE DEF u, k
    <3>4. ASSUME NEW f \in {"delivered", "abandoned"}, Settle(m, f),
                 rows'[u][k].state # "PENDING"
          PROVE  Promise!Conclude(<<u, k>>, f)
      <4>1. fate'[u][k] = f
        BY <1>1, <2>1, <3>4, SettleTouches DEF u, k
      <4>2. Fates' = [Fates EXCEPT ![<<u, k>>] = f] /\ Tries' = [Tries EXCEPT ![<<u, k>>] = 0]
        BY <3>3, <3>4, <4>1
      <4> QED
        BY <3>1, <3>2, <4>2 DEF Promise!Conclude, Fates, Tries
    <3>5. CASE SendSuccess(m)
      <4>1. rows'[u][k].state # "PENDING"
        <5>1. CASE m.attemptCountBefore > 0
          <6>1. writeNotificationState(m, "RESOLVED", 0)
            BY <3>5, <5>1 DEF SendSuccess
          <6>2. rows'[u][k] = [state |-> "RESOLVED", n |-> 0]
            BY <1>1, <2>1, <2>5, <6>1, WriteTouches DEF u, k
          <6> QED
            BY <6>2
        <5>2. CASE ~(m.attemptCountBefore > 0)
          <6>1. rows' = rows
            BY <3>5, <5>2 DEF SendSuccess, log
          <6>2. ~m.isScanMessage
            BY <2>1, <1>3, <5>2, EngineAssumption DEF MsgFits
          <6> QED
            BY <3>1, <6>1, <6>2 DEF NoRow
        <5> QED
          BY <5>1, <5>2
      <4> QED
        BY <3>2, <3>4, <3>5, <4>1 DEF SendSuccess, Promise!Next
    <3>6. CASE SendPermanent(m) \/ SendExhausted(m)
      <4>1. /\ Settle(m, "abandoned")
            /\ writeNotificationState(m, "ABANDONED", m.attemptCountBefore + 1)
        BY <3>6 DEF SendPermanent, SendExhausted
      <4>2. rows'[u][k] = [state |-> "ABANDONED", n |-> m.attemptCountBefore + 1]
        BY <1>1, <2>1, <2>5, <4>1, WriteTouches DEF u, k
      <4>3. rows'[u][k].state # "PENDING"
        BY <4>2
      <4> QED
        BY <3>2, <3>4, <4>1, <4>3 DEF Promise!Next
    <3>7. CASE SendRetry(m)
      <4>1. /\ fate' = fate /\ ~(m.attemptCountBefore + 1 > MaxRetries)
            /\ writeNotificationState(m, "PENDING", m.attemptCountBefore + 1)
        BY <3>7 DEF SendRetry, exceedsMaxRetries
      <4>2. rows'[u][k] = [state |-> "PENDING", n |-> m.attemptCountBefore + 1]
        BY <1>1, <2>1, <2>5, <4>1, WriteTouches DEF u, k
      <4>3. m.attemptCountBefore < MaxRetries /\ m.attemptCountBefore \in Nat
        BY <2>1, <4>1, EngineAssumption DEF TrackedMessage
      <4>4. Tries' = [Tries EXCEPT ![<<u, k>>] = @ + 1]
        <5>1. Tries' = [Tries EXCEPT ![<<u, k>>] = m.attemptCountBefore + 1]
          BY <3>3, <4>2
        <5> QED
          BY <3>2, <5>1
      <4>5. Fates' = Fates
        BY <4>1 DEF Fates, FateOf
      <4>6. Promise!Retry(<<u, k>>)
        BY <3>1, <3>2, <4>3, <4>4, <4>5 DEF Promise!Retry, Fates, Tries
      <4> QED
        BY <3>2, <4>6 DEF Promise!Next
    <3> QED
      BY <1>1, <1>3, <3>5, <3>6, <3>7 DEF SendAlert
  <2> QED
    BY <2>4, <2>5
<1> QED
  BY <1>1, <1>2, <1>3 DEF SendSuccess, SendPermanent, SendExhausted, SendRetry

LEMMA MapNotify ==
  ASSUME IInv, EventLogged \/ NetworkRestored
  PROVE  Stutter \/ Promise!Next
<1>1. rows' = rows /\ unrecorded' = unrecorded
  <2>1. CASE EventLogged
    BY <2>1 DEF EventLogged, log
  <2>2. CASE NetworkRestored
    BY <2>2 DEF NetworkRestored, log
  <2> QED
    BY <2>1, <2>2
<1>2. CASE fate' = fate
  BY <1>1, <1>2, MapStutter DEF SameSeen
<1>3. CASE \E k \in Key, R \in SUBSET whitelist : \E s : notifyEvent(k, R, s)
  <2>1. \E S \in SUBSET Notification : Promise!Accept(S)
    BY <1>1, <1>3, MapAccept
  <2> QED
    BY <2>1 DEF Promise!Next
<1>4. EventLogged => \E k \in Key, R \in SUBSET whitelist : \E s : notifyEvent(k, R, s)
  BY DEF EventLogged
<1>5. NetworkRestored =>
        (\E k \in Key, R \in SUBSET whitelist : \E s : notifyEvent(k, R, s)) \/ fate' = fate
  BY DEF NetworkRestored
<1> QED
  BY <1>2, <1>3, <1>4, <1>5

\* Rotation takes away settled rows, which Delivery has forgotten already.
LEMMA MapQuiet ==
  ASSUME IInv,
         \/ Maintenance \/ BootTasks \/ AdminAlert \/ QuietTick
         \/ WhitelistChange \/ TimerElapses \/ UNCHANGED vars
  PROVE  Stutter
<1>1. CASE Maintenance \/ BootTasks
  <2>1. /\ fate' = fate /\ unrecorded' = unrecorded
        /\ \E worsened \in BOOLEAN, gone \in SUBSET Settled :
             performMaintenanceIfDue(worsened, gone)
    <3>1. CASE Maintenance
      BY <3>1 DEF Maintenance
    <3>2. CASE BootTasks
      BY <3>2 DEF BootTasks
    <3> QED
      BY <1>1, <3>1, <3>2
  <2>2. ASSUME NEW u \in User, NEW k \in Key
        PROVE  SameSeen(u, k)
    <3>1. rows'[u][k] = rows[u][k] \/ (rows'[u][k] = NoRow /\ rows[u][k].state \in Terminal)
      BY <2>1 DEF performMaintenanceIfDue, Settled
    <3> QED
      BY <2>1, <3>1 DEF SameSeen, NoRow, Terminal
  <2> QED
    BY <2>1, <2>2, MapStutter
<1>2. CASE \/ AdminAlert \/ QuietTick \/ WhitelistChange \/ TimerElapses
           \/ UNCHANGED vars
  <2>1. rows' = rows /\ fate' = fate /\ unrecorded' = unrecorded
    BY <1>2 DEF AdminAlert, QuietTick, WhitelistChange, TimerElapses, vars, log
  <2> QED
    BY <2>1, MapStutter DEF SameSeen
<1> QED
  BY <1>1, <1>2

\* What a wiped log or a reset of the board takes away is unrecorded, and
\* they touch nothing else.
LEMMA MapFault ==
  ASSUME IInv, IInv', Crash \/ \E u \in User : handleResetNotif(u)
  PROVE  Promise!Next
<1>1. CASE \E u \in User : handleResetNotif(u)
  <2>1. PICK u \in User : handleResetNotif(u)
    BY <1>1
  <2>2. /\ fate' = fate /\ unrecorded' = unrecorded \cup ({u} \X PendingIn(rows, u))
        /\ \A v \in User, k \in Key : rows'[v][k] = IF v = u THEN NoRow ELSE rows[v][k]
    BY <2>1 DEF handleResetNotif, IInv, TypeOK
  <2>3. ASSUME NEW v \in User, NEW k \in Key, <<v, k>> \notin unrecorded'
        PROVE  SameSeen(v, k)
    <3>1. v = u => rows[v][k].state # "PENDING"
      BY <2>2, <2>3 DEF PendingIn
    <3> QED
      BY <2>2, <3>1 DEF SameSeen, NoRow
  <2>4. Promise!Disturb(unrecorded') /\ unrecorded' \in SUBSET Notification
    BY <2>2, <2>3, MapDisturb
  <2> QED
    BY <2>4 DEF Promise!Next
<1>2. CASE Crash
  <2>1. PICK sent \in SUBSET InHand :
          /\ fate' = [v \in User |-> [j \in Key |->
                        IF <<v, j>> \in sent THEN "delivered" ELSE fate[v][j]]]
          /\ unrecorded' = unrecorded \cup sent \cup FlowIn(queue)
    BY <1>2 DEF Crash
  <2>2. rows' = rows
    BY <1>2 DEF Crash
  <2>3. ASSUME NEW v \in User, NEW k \in Key, <<v, k>> \notin unrecorded'
        PROVE  SameSeen(v, k)
    BY <2>1, <2>2, <2>3 DEF SameSeen
  <2>4. Promise!Disturb(unrecorded') /\ unrecorded' \in SUBSET Notification
    BY <2>1, <2>3, MapDisturb
  <2> QED
    BY <2>4 DEF Promise!Next
<1> QED
  BY <1>1, <1>2

LEMMA MapInit == Init => Promise!Init
<1> SUFFICES ASSUME Init PROVE Promise!Init
  OBVIOUS
<1>1. ASSUME NEW p \in Notification
      PROVE  FateOf(p) = "unsent" /\ ~IsPending(p)
  <2>1. p[1] \in User /\ p[2] \in Key
    BY DEF Notification
  <2> QED
    BY <2>1 DEF Init, FateOf, IsPending, RowOf, NoRow
<1> QED
  BY <1>1 DEF Promise!Init, Init

LEMMA MapNext == IInv /\ IInv' /\ [Next]_vars => [Promise!Next]_(Promise!vars)
<1> SUFFICES ASSUME IInv, IInv', [Next]_vars
             PROVE  Promise!Next \/ UNCHANGED Promise!vars
  OBVIOUS
<1>1. Stutter \/ Promise!Next
  BY MapSend, MapNotify, MapQuiet, MapFault DEF Next, tickNotificationEngine
<1>2. Stutter => UNCHANGED Promise!vars
  BY DEF Stutter, Promise!vars, Fates, Tries
<1> QED
  BY <1>1, <1>2

\* Every behaviour of the engine, with its queue, scans, timer and log, is
\* one of Delivery: an event is accepted once, each failed try is counted
\* once, up to MaxRetries of them, and the notification is then delivered or
\* abandoned for good, for every notification whose row was kept.
THEOREM KeepsPromiseHolds == Spec => KeepsPromise
<1>1. Spec => []IInv
  BY EngineInvariant
<1> QED
  BY <1>1, MapInit, MapNext, PTL DEF Spec, KeepsPromise, Promise!Spec

-----------------------------------------------------------------------------
(* What the engine works at is what it has been given: K stands for the    *)
(* keys it was called with.                                                *)

Within(q, K) == \A i \in DOMAIN q : q[i].trackDelivery => q[i].key \in K
PendingWithin(rs, K) ==
  \A u \in User, k \in Key : rs[u][k].state = "PENDING" => k \in K

LEMMA WithinConcat ==
  ASSUME NEW q \in Seq(Message), NEW s \in Seq(Message), NEW K, Within(q, K), Within(s, K)
  PROVE  q \o s \in Seq(Message) /\ Within(q \o s, K)
<1> DEFINE r == q \o s
<1>1. /\ r \in Seq(Message) /\ Len(q) \in Nat /\ Len(s) \in Nat
      /\ DOMAIN r = 1..(Len(q) + Len(s))
      /\ DOMAIN q = 1..Len(q) /\ DOMAIN s = 1..Len(s)
      /\ \A h \in 1..(Len(q) + Len(s)) :
           r[h] = IF h <= Len(q) THEN q[h] ELSE s[h - Len(q)]
  BY ConcatProperties
<1> HIDE DEF r
<1>2. ASSUME NEW i \in DOMAIN r, r[i].trackDelivery
      PROVE  r[i].key \in K
  <2>1. CASE i <= Len(q)
    BY <1>1, <1>2, <2>1 DEF Within
  <2>2. CASE ~(i <= Len(q))
    <3>1. i - Len(q) \in DOMAIN s /\ r[i] = s[i - Len(q)]
      BY <1>1, <2>2
    <3> QED
      BY <1>2, <3>1 DEF Within
  <2> QED
    BY <2>1, <2>2
<1> QED
  BY <1>1, <1>2 DEF Within, r

LEMMA WithinTail ==
  ASSUME NEW q \in Seq(Message), q # << >>, NEW K, Within(q, K)
  PROVE  /\ Tail(q) \in Seq(Message) /\ Within(Tail(q), K)
         /\ Head(q) \in Message
         /\ Head(q).trackDelivery => Head(q) \in TrackedMessage /\ Head(q).key \in K
<1>1. /\ Tail(q) \in Seq(Message) /\ Len(Tail(q)) = Len(q) - 1 /\ Len(q) \in Nat \ {0}
      /\ \A i \in 1..Len(Tail(q)) : Tail(q)[i] = q[i + 1]
      /\ Head(q) = q[1] /\ 1 \in DOMAIN q
      /\ DOMAIN q = 1..Len(q) /\ DOMAIN Tail(q) = 1..Len(Tail(q))
  BY HeadTailProperties, EmptySeq
<1>2. \A i \in DOMAIN Tail(q) : i + 1 \in DOMAIN q /\ Tail(q)[i] = q[i + 1]
  BY <1>1
<1>3. Within(Tail(q), K)
  BY <1>2 DEF Within
<1>4. Head(q).trackDelivery => Head(q) \in TrackedMessage
  BY <1>1, QueuedNotification
<1>5. Head(q).trackDelivery => Head(q).key \in K
  BY <1>1 DEF Within
<1>6. Head(q) \in Message
  BY <1>1
<1> QED
  BY <1>1, <1>3, <1>4, <1>5, <1>6

LEMMA WithinUntracked ==
  ASSUME TypeOK, NEW a, a \in SetToSeqs(AdminAlerts) \/ a \in SetToSeqs({}), NEW K
  PROVE  a \in Seq(Message) /\ Within(a, K)
BY AlertSeqUntracked DEF Untracked, Within

LEMMA WithinScan ==
  ASSUME TypeOK, NEW rs \in [User -> [Key -> Row]], NEW K, PendingWithin(rs, K),
         NEW seen \in SUBSET User, NEW s \in SetToSeqs(ScanMessages(rs, seen))
  PROVE  s \in Seq(Message) /\ Within(s, K)
<1>1. ScanMessages(rs, seen) \subseteq Message /\ IsFiniteSet(ScanMessages(rs, seen))
  BY ScanMessagesType DEF TypeOK, Message
<1>2. s \in Seq(Message) /\ \A i \in DOMAIN s : s[i] \in ScanMessages(rs, seen)
  BY <1>1, SetToSeqsIsSeq
<1>3. ASSUME NEW m \in ScanMessages(rs, seen)
      PROVE  m.key \in K
  <2>1. PICK u \in seen : m \in {ScanMessage(rs, u, k) : k \in PendingIn(rs, u)}
    BY DEF ScanMessages
  <2>2. PICK k \in PendingIn(rs, u) : m = ScanMessage(rs, u, k)
    BY <2>1
  <2>3. m.key = k /\ k \in Key /\ u \in User /\ rs[u][k].state = "PENDING"
    BY <2>2 DEF ScanMessage, PendingIn, TypeOK
  <2> QED
    BY <2>3 DEF PendingWithin
<1> QED
  BY <1>2, <1>3 DEF Within

LEMMA WithinRecovery ==
  ASSUME TypeOK, NEW q \in Seq(Message), NEW after \in Seq(Message),
         NEW rs \in [User -> [Key -> Row]], NEW K, PendingWithin(rs, K),
         Within(q, K), Within(after, K), BeginScan(q, rs, after) \/ NoScan(q, after)
  PROVE  Within(queue', K)
<1>1. CASE BeginScan(q, rs, after)
  <2>0. PICK seen \in Legible :
          \E s \in SetToSeqs(ScanMessages(rs, seen)) : queue' = q \o s \o after
    BY <1>1 DEF BeginScan
  <2>1. PICK s \in SetToSeqs(ScanMessages(rs, seen)) : queue' = q \o s \o after
    BY <2>0
  <2>2. s \in Seq(Message) /\ Within(s, K)
    BY LegibleType, WithinScan DEF TypeOK
  <2>3. q \o s \in Seq(Message) /\ Within(q \o s, K)
    BY <2>2, WithinConcat
  <2> QED
    BY <2>1, <2>3, WithinConcat
<1>2. CASE NoScan(q, after)
  BY <1>2, WithinConcat DEF NoScan
<1> QED
  BY <1>1, <1>2

\* A call of notifyEvent for a key of K, new or not.
LEMMA CalledWithin ==
  ASSUME TypeOK, NEW K, NEW k \in Key, k \in K, NEW R \in SUBSET whitelist,
         NEW s \in SetToSeqs({EventMessage(u, k) : u \in R}), NEW asked,
         runRecoveryScan(asked, queue \o s, rows, << >>),
         fate' = [u \in User |-> [j \in Key |->
                    IF u \in R /\ j = k THEN "owed" ELSE fate[u][j]]],
         UNCHANGED <<whitelist, booted, active, due, rows, unrecorded, degraded, systemError>>,
         Within(queue, K), PendingWithin(rows, K)
  PROVE  TypeOK' /\ Within(queue', K)
<1>1. /\ R \in SUBSET User /\ queue \in Seq(Message)
      /\ rows \in [User -> [Key -> Row]] /\ << >> \in Seq(Message) /\ Within(<< >>, K)
  BY DEF TypeOK, Within
<1>2. s \in Seq(Message) /\ FirstAttempts(s, R, k)
  BY <1>1, EventSeqFits
<1>3. Within(s, K)
  <2> DEFINE E == {EventMessage(u, k) : u \in R}
  <2>1. E \subseteq Message /\ IsFiniteSet(E)
    BY <1>1, EventMessagesType DEF Message
  <2>2. \A m \in E : m.key = k
    BY DEF EventMessage
  <2>3. s \in SetToSeqs(E)
    OBVIOUS
  <2> HIDE DEF E
  <2>4. \A i \in DOMAIN s : s[i] \in E
    BY <2>1, <2>3, SetToSeqsIsSeq
  <2> QED
    BY <2>2, <2>4 DEF Within
<1>4. queue \o s \in Seq(Message) /\ Within(queue \o s, K)
  BY <1>1, <1>2, <1>3, WithinConcat
<1>5. BeginScan(queue \o s, rows, << >>) \/ NoScan(queue \o s, << >>)
  BY DEF runRecoveryScan
<1>6. Within(queue', K)
  BY <1>1, <1>4, <1>5, WithinRecovery
<1>7. /\ queue' \in Seq(Message)
      /\ scanInProgress' \in BOOLEAN
      /\ inFlight' \in Nat /\ hadPending' \in BOOLEAN
      /\ slipped' \in SUBSET Notification
  BY <1>1, <1>4, <1>5, RecoveryScanType
<1>8. fate' \in [User -> [Key -> {"unsent", "owed", "delivered", "abandoned"}]]
  BY DEF TypeOK
<1>9. TypeOK'
  BY <1>7, <1>8 DEF TypeOK
<1> QED
  BY <1>6, <1>9

\* No call, but perhaps an alert.
LEMMA AlertedWithin ==
  ASSUME TypeOK, NEW K, NEW alert, NEW asked,
         NEW a \in SetToSeqs(IF alert THEN AdminAlerts ELSE {}),
         runRecoveryScan(asked, queue \o a, rows, << >>),
         UNCHANGED <<whitelist, booted, active, due, rows, unrecorded, degraded,
                     systemError, fate>>,
         Within(queue, K), PendingWithin(rows, K)
  PROVE  TypeOK' /\ Within(queue', K)
<1>1. /\ queue \in Seq(Message)
      /\ rows \in [User -> [Key -> Row]] /\ << >> \in Seq(Message) /\ Within(<< >>, K)
  BY DEF TypeOK, Within
<1>2. a \in Seq(Message) /\ Within(a, K)
  BY WithinUntracked
<1>4. queue \o a \in Seq(Message) /\ Within(queue \o a, K)
  BY <1>1, <1>2, WithinConcat
<1>5. BeginScan(queue \o a, rows, << >>) \/ NoScan(queue \o a, << >>)
  BY DEF runRecoveryScan
<1>6. Within(queue', K)
  BY <1>1, <1>4, <1>5, WithinRecovery
<1>7. /\ queue' \in Seq(Message)
      /\ scanInProgress' \in BOOLEAN
      /\ inFlight' \in Nat /\ hadPending' \in BOOLEAN
      /\ slipped' \in SUBSET Notification
  BY <1>1, <1>4, <1>5, RecoveryScanType
<1>9. TypeOK'
  BY <1>7 DEF TypeOK
<1> QED
  BY <1>6, <1>9

\* What the engine does by itself, and a crash.
ByItself ==
  \/ BootTasks \/ Maintenance \/ AdminAlert \/ WhitelistChange
  \/ \E u \in User : handleResetNotif(u)
  \/ tickNotificationEngine \/ TimerElapses \/ Crash

LEMMA WriteWithin ==
  ASSUME TypeOK, NEW m \in TrackedMessage, NEW K, m.key \in K, PendingWithin(rows, K),
         UNCHANGED log \/ \E state, n : writeNotificationState(m, state, n)
  PROVE  PendingWithin(rows', K)
<1> SUFFICES ASSUME NEW u \in User, NEW k \in Key, rows'[u][k].state = "PENDING"
             PROVE  k \in K
  BY DEF PendingWithin
<1>1. CASE rows' = rows
  BY <1>1 DEF PendingWithin
<1>2. CASE \E state, n : writeNotificationState(m, state, n)
  <2>1. PICK state, n : writeNotificationState(m, state, n)
    BY <1>2
  <2>2. <<u, k>> # About(m) => rows'[u][k] = rows[u][k]
    BY <2>1, WriteTouches
  <2>3. <<u, k>> = About(m) => k = m.key
    BY DEF About
  <2> QED
    BY <2>2, <2>3 DEF PendingWithin
<1> QED
  BY <1>1, <1>2 DEF log

LEMMA TickWithin ==
  ASSUME TypeOK, NEW m, NEW rest \in Seq(Message), NEW K, Within(rest, K),
         rows' \in [User -> [Key -> Row]], PendingWithin(rows', K), TickEnds(m, rest)
  PROVE  Within(queue', K)
<1>1. << >> \in Seq(Message) /\ Within(<< >>, K)
  BY DEF Within
<1>2. CASE BeginScan(rest, rows', << >>) \/ NoScan(rest, << >>)
  BY <1>1, <1>2, WithinRecovery
<1>3. CASE queue' = rest
  BY <1>3
<1> QED
  BY <1>2, <1>3 DEF TickEnds

LEMMA SendWithin ==
  ASSUME TypeOK, TypeOK', SendHead, NEW K, Within(queue, K), PendingWithin(rows, K)
  PROVE  Within(queue', K) /\ PendingWithin(rows', K)
<1> DEFINE m == Head(queue)
           rest == Tail(queue)
<1>1. /\ rest \in Seq(Message) /\ Within(rest, K)
      /\ m.trackDelivery => m \in TrackedMessage /\ m.key \in K
  BY WithinTail DEF SendHead, TypeOK
<1>2. SendAlert(m) \/ SendSuccess(m) \/ SendPermanent(m)
        \/ SendExhausted(m) \/ SendRetry(m)
  BY DEF SendHead
<1>3. \/ UNCHANGED log
      \/ m.trackDelivery /\ \E state, n : writeNotificationState(m, state, n)
  BY <1>2 DEF SendAlert, SendSuccess, SendPermanent, SendExhausted, SendRetry
<1>4. \/ TickEnds(m, rest)
      \/ \E a \in SetToSeqs(AdminAlerts) : TickEnds(m, rest \o a)
      \/ queue' = rest
  <2>1. SendAlert(m) \/ SendSuccess(m) \/ SendExhausted(m) => TickEnds(m, rest)
    BY FinishTickEnds DEF SendAlert, SendSuccess, SendExhausted
  <2>2. SendPermanent(m) => \E a \in SetToSeqs(AdminAlerts) : TickEnds(m, rest \o a)
    BY FinishTickEnds DEF SendPermanent
  <2>3. SendRetry(m) => queue' = rest
    BY DEF SendRetry
  <2> QED
    BY <1>2, <2>1, <2>2, <2>3
<1> HIDE DEF m, rest
<1>5. PendingWithin(rows', K)
  <2>1. CASE UNCHANGED log
    BY <2>1 DEF log, PendingWithin
  <2>2. CASE m.trackDelivery /\ \E state, n : writeNotificationState(m, state, n)
    BY <1>1, <2>2, WriteWithin
  <2> QED
    BY <1>3, <2>1, <2>2
<1>6. rows' \in [User -> [Key -> Row]]
  BY DEF TypeOK
<1>7. CASE TickEnds(m, rest)
  BY <1>1, <1>5, <1>6, <1>7, TickWithin
<1>8. CASE \E a \in SetToSeqs(AdminAlerts) : TickEnds(m, rest \o a)
  <2>1. PICK a \in SetToSeqs(AdminAlerts) : TickEnds(m, rest \o a)
    BY <1>8
  <2>2. rest \o a \in Seq(Message) /\ Within(rest \o a, K)
    BY <1>1, WithinUntracked, WithinConcat
  <2> QED
    BY <1>5, <1>6, <2>1, <2>2, TickWithin
<1>9. CASE queue' = rest
  BY <1>1, <1>5, <1>9
<1> QED
  BY <1>4, <1>5, <1>7, <1>8, <1>9

LEMMA MaintenanceWithin ==
  ASSUME TypeOK, NEW worsened, NEW gone, performMaintenanceIfDue(worsened, gone),
         NEW K, PendingWithin(rows, K)
  PROVE  PendingWithin(rows', K) /\ rows' \in [User -> [Key -> Row]]
<1>1. NoRow.state # "PENDING"
  BY DEF NoRow
<1>2. PendingWithin(rows', K)
  BY <1>1 DEF performMaintenanceIfDue, PendingWithin
<1> QED
  BY <1>2, MaintenanceType

\* Nothing that the engine does by itself brings in another key.
LEMMA ByItselfWithin ==
  ASSUME TypeOK, ByItself, NEW K, Within(queue, K), PendingWithin(rows, K)
  PROVE  TypeOK' /\ Within(queue', K) /\ PendingWithin(rows', K)
<1>0. TypeOK'
  BY TypeNext DEF ByItself, Next
<1>1. << >> \in Seq(Message) /\ Within(<< >>, K)
      /\ queue \in Seq(Message) /\ rows \in [User -> [Key -> Row]]
  BY DEF Within, TypeOK
<1>2. CASE BootTasks
  <2>1. PICK worsened, alert \in BOOLEAN, gone \in SUBSET Settled :
          /\ performMaintenanceIfDue(worsened, gone)
          /\ \E a \in SetToSeqs(IF alert THEN AdminAlerts ELSE {}) :
               runRecoveryScan(TRUE, queue, rows, a)
    BY <1>2 DEF BootTasks
  <2>2. PICK a \in SetToSeqs(IF alert THEN AdminAlerts ELSE {}) :
          runRecoveryScan(TRUE, queue, rows, a)
    BY <2>1
  <2>3. a \in Seq(Message) /\ Within(a, K)
    BY WithinUntracked
  <2>4. BeginScan(queue, rows, a) \/ NoScan(queue, a)
    BY <2>2 DEF runRecoveryScan
  <2>5. Within(queue', K)
    BY <1>1, <2>3, <2>4, WithinRecovery
  <2> QED
    BY <1>0, <2>1, <2>5, MaintenanceWithin
<1>3. CASE Maintenance
  <2>1. PICK worsened \in BOOLEAN, gone \in SUBSET Settled :
          /\ performMaintenanceIfDue(worsened, gone)
          /\ \E a \in SetToSeqs(IF worsened THEN AdminAlerts ELSE {}) : queue' = queue \o a
    BY <1>3 DEF Maintenance
  <2>2. Within(queue', K)
    BY <1>1, <2>1, WithinUntracked, WithinConcat
  <2> QED
    BY <1>0, <2>1, <2>2, MaintenanceWithin
<1>4. CASE AdminAlert
  <2>1. Within(queue', K)
    BY <1>1, <1>4, WithinUntracked, WithinConcat DEF AdminAlert
  <2> QED
    BY <1>0, <1>4, <2>1 DEF AdminAlert, log
<1>5. CASE WhitelistChange
  BY <1>0, <1>5 DEF WhitelistChange, log
<1>6. CASE \E u \in User : handleResetNotif(u)
  <2>1. PICK v \in User : handleResetNotif(v)
    BY <1>6
  <2>2. \A u \in User, k \in Key : rows'[u][k] \in {rows[u][k], NoRow}
    BY <1>1, <2>1 DEF handleResetNotif
  <2>3. PendingWithin(rows', K)
    BY <2>2 DEF PendingWithin, NoRow
  <2> QED
    BY <1>0, <2>1, <2>3 DEF handleResetNotif
<1>7. CASE SendHead
  BY <1>0, <1>7, SendWithin
<1>8. CASE QuietTick
  <2>1. BeginScan(queue, rows, << >>) \/ NoScan(queue, << >>)
    BY <1>8 DEF QuietTick, runRecoveryScan
  <2>2. Within(queue', K)
    BY <1>1, <2>1, WithinRecovery
  <2> QED
    BY <1>0, <1>8, <2>2 DEF QuietTick, log
<1>9. CASE TimerElapses
  BY <1>0, <1>9 DEF TimerElapses, log
<1>10. CASE Crash
  <2>1. queue' = << >> /\ rows' = rows
    BY <1>10 DEF Crash
  <2> QED
    BY <1>0, <1>1, <2>1
<1> QED
  BY <1>2, <1>3, <1>4, <1>5, <1>6, <1>7, <1>8, <1>9, <1>10
     DEF ByItself, tickNotificationEngine

\* Nor does it make anything of a notification it was not called for.
LEMMA UnsentStays ==
  ASSUME IInv, ByItself, NEW u \in User, NEW k \in Key, fate[u][k] = "unsent"
  PROVE  fate'[u][k] = "unsent"
<1>1. \A i \in DOMAIN queue :
        queue[i].trackDelivery => fate[queue[i].chatId][queue[i].key] # "unsent"
  BY DEF IInv, MsgsFit, MsgFits
<1>2. ASSUME queue # << >>, Head(queue).trackDelivery, About(Head(queue)) = <<u, k>>
      PROVE  FALSE
  <2>1. 1 \in DOMAIN queue /\ Head(queue) = queue[1]
    BY <1>2, HeadTailProperties, EmptySeq DEF IInv, TypeOK
  <2>2. fate[Head(queue).chatId][Head(queue).key] # "unsent"
    BY <1>1, <1>2, <2>1
  <2> QED
    BY <1>2, <2>2 DEF About
<1>3. CASE SendHead
  <2>1. Untouched(u, k)
    BY <1>2, <1>3, SendCases DEF SendHead
  <2> QED
    BY <2>1 DEF Untouched
<1>4. CASE Crash
  <2>1. <<u, k>> \notin InHand
    BY <1>2 DEF InHand
  <2>2. PICK sent \in SUBSET InHand :
          fate' = [v \in User |-> [j \in Key |->
                     IF <<v, j>> \in sent THEN "delivered" ELSE fate[v][j]]]
    BY <1>4 DEF Crash
  <2> QED
    BY <2>1, <2>2
<1>5. SendHead \/ Crash \/ fate' = fate
  <2>1. BootTasks \/ Maintenance \/ AdminAlert => fate' = fate
    BY DEF BootTasks, Maintenance, AdminAlert
  <2>2. WhitelistChange \/ QuietTick \/ TimerElapses => fate' = fate
    BY DEF WhitelistChange, QuietTick, TimerElapses
  <2>3. (\E v \in User : handleResetNotif(v)) => fate' = fate
    BY DEF handleResetNotif
  <2> QED
    BY <2>1, <2>2, <2>3 DEF ByItself, tickNotificationEngine
<1> QED
  BY <1>3, <1>4, <1>5
=============================================================================
