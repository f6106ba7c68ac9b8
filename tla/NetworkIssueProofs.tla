-------------------------- MODULE NetworkIssueProofs --------------------------
(***************************************************************************)
(* Proofs about the judgement of the network, for any thresholds and       *)
(* intervals, and any number of notifications owed.                        *)
(*                                                                         *)
(* The tracker keeps its own moment: it can be told from the true age of   *)
(* the trouble by a turn at most, and looks at it once a turn.  While      *)
(* Telegram counts as unreachable though it is not, no send has happened,  *)
(* so that queue and timer can only draw nearer to the next one.           *)
(***************************************************************************)
EXTENDS NetworkIssue, TLAPS

-----------------------------------------------------------------------------
(* The engine's counts.                                                    *)

Fields == {"fresh", "rescans", "hadPending", "pending", "active", "left"}

\* Every message of a scan is about a PENDING row; what is owed is bounded.
Sound(S) ==
  /\ DOMAIN S = Fields
  /\ S.fresh \in Nat /\ S.rescans \in Nat /\ S.pending \in Nat
  /\ S.hadPending \in BOOLEAN /\ S.active \in BOOLEAN /\ S.left \in 0..RetryInterval
  /\ S.rescans <= S.pending
  /\ S.fresh + S.pending <= MaxOwed

\* T has at least the messages of S, and the same timer.
Fuller(S, T) ==
  /\ T.fresh >= S.fresh /\ T.rescans >= S.rescans
  /\ T.active = S.active /\ T.left = S.left /\ T.pending = S.pending

Queued(S) == S.fresh + S.rescans

LEMMA ScanSound ==
  ASSUME NEW S, Sound(S)
  PROVE  Sound(Scan(S)) /\ Fuller(S, Scan(S))
  <1>1. CASE S.rescans = 0 /\ S.pending > 0
    <2> DEFINE T == [S EXCEPT !.rescans = S.pending, !.hadPending = FALSE]
    <2>1. Scan(S) = T
      BY <1>1 DEF Scan
    <2>2. /\ DOMAIN T = DOMAIN S
          /\ T.fresh = S.fresh /\ T.rescans = S.pending /\ T.pending = S.pending
          /\ T.active = S.active /\ T.left = S.left
      BY DEF Sound, Fields
    <2>3. T.hadPending \in BOOLEAN
      BY DEF Sound, Fields
    <2> HIDE DEF T
    <2>4. Sound(T)
      BY <2>2, <2>3 DEF Sound
    <2>5. Fuller(S, T)
      BY <1>1, <2>2 DEF Sound, Fuller
    <2> QED
      BY <2>1, <2>4, <2>5
  <1>2. CASE ~(S.rescans = 0 /\ S.pending > 0)
    <2>1. Scan(S) = S
      BY <1>2 DEF Scan
    <2>2. Fuller(S, S)
      BY DEF Fuller, Sound
    <2> QED
      BY <2>1, <2>2
  <1> QED
    BY <1>1, <1>2

LEMMA ScanIfSound ==
  ASSUME NEW S, Sound(S), NEW asked
  PROVE  Sound(ScanIf(asked, S)) /\ Fuller(S, ScanIf(asked, S))
  <1>1. CASE asked
    BY <1>1, ScanSound DEF ScanIf
  <1>2. CASE ~asked
    BY <1>2 DEF ScanIf, Fuller, Sound
  <1> QED
    BY <1>1, <1>2

\* The timer leaves no due scan behind: if nothing is queued then, nothing
\* is PENDING, or the timer is not due.
LEMMA TimerScanSound ==
  ASSUME NEW S, Sound(S)
  PROVE  /\ Sound(TimerScan(S)) /\ Fuller(S, TimerScan(S))
         /\ Queued(TimerScan(S)) = 0 => ~S.active \/ S.left > 0 \/ S.pending = 0
  <1>1. Sound(TimerScan(S)) /\ Fuller(S, TimerScan(S))
    BY ScanIfSound DEF TimerScan
  <1>2. CASE S.active /\ S.left = 0 /\ S.rescans = 0 /\ S.pending > 0
    <2>1. TimerScan(S) = [S EXCEPT !.rescans = S.pending, !.hadPending = FALSE]
      BY <1>2 DEF TimerScan, ScanIf, Scan
    <2> QED
      BY <1>1, <1>2, <2>1 DEF Queued, Sound, Fields
  <1>3. CASE ~(S.active /\ S.left = 0 /\ S.rescans = 0 /\ S.pending > 0)
    BY <1>1, <1>3 DEF Queued, Sound, Fields, Fuller
  <1> QED
    BY <1>2, <1>3

LEMMA ArmedSound ==
  ASSUME NEW S, Sound(S)
  PROVE  Sound(Armed(S)) /\ Sound([S EXCEPT !.active = FALSE])
  BY NetworkAssumption DEF Armed, Sound, Fields

LEMMA FreshSound ==
  ASSUME NEW S, Sound(S), S.fresh > 0
  PROVE  /\ Sound([S EXCEPT !.fresh = @ - 1, !.pending = @ + 1])
         /\ Sound([S EXCEPT !.fresh = @ - 1])
  <1>1. Sound([S EXCEPT !.fresh = @ - 1, !.pending = @ + 1])
    BY NetworkAssumption DEF Sound, Fields
  <1>2. Sound([S EXCEPT !.fresh = @ - 1])
    BY NetworkAssumption DEF Sound, Fields
  <1> QED
    BY <1>1, <1>2

\* One message of the queue leaves it.
LEMMA SentSound ==
  ASSUME NEW S, Sound(S), NEW reached, NEW T \in Sent(S, reached)
  PROVE  Sound(T)
  <1>1. CASE S.fresh > 0 /\ T \in {FreshFailed(S), FreshFailedUnrecorded(S), FreshGone(S)}
    BY <1>1, FreshSound, ArmedSound DEF FreshFailed, FreshFailedUnrecorded, FreshGone
  <1>2. CASE S.fresh > 0 /\ T = FreshDelivered(S)
    BY <1>2, FreshSound, ScanIfSound DEF FreshDelivered
  <1>3. ASSUME S.rescans > 0, NEW still \in BOOLEAN, T = Rescanned(S, still)
        PROVE  Sound(T)
    <2> DEFINE had == S.hadPending \/ still
               U   == [S EXCEPT !.rescans = @ - 1, !.hadPending = had,
                                !.pending = IF still THEN @ ELSE @ - 1]
    <2>1. had \in BOOLEAN
      OBVIOUS
    <2>2. Sound(U)
      <3> DEFINE p == IF still THEN S.pending ELSE S.pending - 1
      <3>1. /\ DOMAIN U = DOMAIN S
            /\ U.fresh = S.fresh /\ U.rescans = S.rescans - 1 /\ U.pending = p
            /\ U.left = S.left
        BY DEF Sound, Fields
      <3>2. U.hadPending \in BOOLEAN /\ U.active \in BOOLEAN
        BY <2>1 DEF Sound, Fields
      <3>3. /\ S.rescans - 1 \in Nat /\ p \in Nat /\ S.rescans - 1 <= p
            /\ S.fresh + p <= MaxOwed
        BY <1>3, NetworkAssumption DEF Sound
      <3> HIDE DEF p, U
      <3> QED
        BY <3>1, <3>2, <3>3 DEF Sound
    <2> HIDE DEF U
    <2>3. Sound([U EXCEPT !.active = FALSE])
      BY <2>2, ArmedSound
    <2>4. T = IF U.rescans > 0 THEN U
              ELSE IF had THEN Armed(U) ELSE [U EXCEPT !.active = FALSE]
      BY <1>3 DEF Rescanned, U
    <2> QED
      BY <2>2, <2>3, <2>4, ArmedSound
  <1> QED
    BY <1>1, <1>2, <1>3 DEF Sent, Sound, Fields

-----------------------------------------------------------------------------
(* The inductive invariant.                                                *)

\* What the tracker keeps agrees with the age of the trouble.
TrackerInTime ==
  /\ confirmed => unreachable /\ since >= IssueThreshold
  /\ unreachable => since <= bad /\ bad <= since + MaxBlock
  /\ ~unreachable => bad <= turn
  /\ unreachable /\ ~confirmed => since < IssueThreshold + turn

\* As long as the judgement is out of date, the next send draws nearer.
SendNears ==
  /\ fine > 0 => connected /\ answers
  /\ failures = FailureLimit =>
       /\ Silent => fine = 0
       /\ fresh + rescans = 0 /\ left > 0 => fine + left <= RetryInterval
       /\ fresh + rescans = 0 => fine <= RetryInterval + turn
       /\ fine <= RetryInterval + MaxBlock + turn

IInv ==
  /\ TypeOK
  /\ fresh + pending <= MaxOwed
  /\ RowFollowsTracker
  /\ TrackerInTime
  /\ SendNears

LEMMA NowSound ==
  ASSUME TypeOK, fresh + pending <= MaxOwed
  PROVE  Sound(Now)
  BY NetworkAssumption DEF TypeOK, Now, Sound, Fields

\* The counts that a sound record leaves.
LEMMA BecomeSound ==
  ASSUME NEW S, Sound(S), Become(S)
  PROVE  /\ fresh' \in 0..MaxOwed /\ pending' \in 0..MaxOwed /\ rescans' \in 0..pending'
         /\ hadPending' \in BOOLEAN /\ active' \in BOOLEAN /\ left' \in 0..RetryInterval
         /\ fresh' + pending' <= MaxOwed
  BY NetworkAssumption DEF Become, Sound, Fields

-----------------------------------------------------------------------------
(* A turn.                                                                 *)

LEMMA Ages ==
  /\ Long \in Nat /\ Long > RetryInterval + 2 * MaxBlock
  /\ Long > IssueThreshold + 2 * MaxBlock
  /\ \A a \in 0..Long : /\ Older(a) \in 0..Long /\ Older(a) >= a /\ Older(a) <= a + 1
                        /\ a < Long => Older(a) = a + 1
                        /\ a = Long => Older(a) = Long
  BY NetworkAssumption DEF Long, Older

\* What a turn does to the engine: it either sends, which brings the
\* failures up to date, or leaves the queue as full as before.
LEMMA TurnEngine ==
  ASSUME IInv, Turn
  PROVE  /\ fresh' \in 0..MaxOwed /\ pending' \in 0..MaxOwed /\ rescans' \in 0..pending'
         /\ hadPending' \in BOOLEAN /\ active' \in BOOLEAN /\ left' \in 0..RetryInterval
         /\ fresh' + pending' <= MaxOwed
         /\ \/ recordOutcome(connected /\ answers)
            \/ /\ UNCHANGED <<failures, active, left, pending>>
               /\ fresh' + rescans' >= fresh + rescans
               /\ fresh' + rescans' = 0 => ~active \/ left > 0 \/ pending = 0
               /\ turn = 0 \/ fresh + rescans = 0
  <1> DEFINE told(t) == IF t THEN [Now EXCEPT !.fresh = @ + 1] ELSE Now
             S(t) == ScanIf(ScanAsked, told(t))
  <1>1. PICK t \in BOOLEAN : /\ t => Room
                             /\ tickNotificationEngine(S(t))
    BY DEF Turn, EndNotified
  <1>2. Sound(told(t)) /\ Fuller(Now, told(t))
    <2>1. Sound(Now) /\ Fuller(Now, Now)
      BY NowSound DEF IInv, Fuller, Sound, Fields
    <2>2. ASSUME t PROVE Sound([Now EXCEPT !.fresh = @ + 1])
                         /\ Fuller(Now, [Now EXCEPT !.fresh = @ + 1])
      BY <1>1, <2>1, <2>2, NetworkAssumption DEF Now, Sound, Fields, Fuller, Room, IInv, TypeOK
    <2> QED
      BY <2>1, <2>2
  <1> HIDE DEF told
  <1>3. Sound(S(t)) /\ Fuller(told(t), S(t))
    BY <1>2, ScanIfSound
  <1>4. PICK s : s = S(t)
    OBVIOUS
  <1> HIDE DEF S
  <1>5. Sound(s) /\ Fuller(Now, s) /\ tickNotificationEngine(s)
    BY <1>1, <1>2, <1>3, <1>4 DEF Fuller, Sound, Fields, Now, IInv, TypeOK
  <1>6. ASSUME recordOutcome(connected /\ answers),
               NEW T \in Sent(s, connected /\ answers), Become(TimerScan(T))
        PROVE  Sound(TimerScan(T))
    BY <1>5, <1>6, SentSound, TimerScanSound
  <1>7. ASSUME s.fresh + s.rescans = 0 \/ turn = 0, Become(TimerScan(s)), UNCHANGED failures
        PROVE  /\ Sound(TimerScan(s))
               /\ UNCHANGED <<failures, active, left, pending>>
               /\ fresh' + rescans' >= fresh + rescans
               /\ fresh' + rescans' = 0 => ~active \/ left > 0 \/ pending = 0
               /\ turn = 0 \/ fresh + rescans = 0
    <2>1. /\ Sound(TimerScan(s)) /\ Fuller(s, TimerScan(s))
          /\ Queued(TimerScan(s)) = 0 => ~s.active \/ s.left > 0 \/ s.pending = 0
      BY <1>5, TimerScanSound
    <2>2. PICK r : r = TimerScan(s)
      OBVIOUS
    <2>3. /\ fresh' = r.fresh /\ rescans' = r.rescans /\ pending' = r.pending
          /\ active' = r.active /\ left' = r.left
      BY <1>7, <2>2 DEF Become
    <2>4. /\ r.pending = s.pending /\ r.active = s.active /\ r.left = s.left
          /\ r.fresh >= s.fresh /\ r.rescans >= s.rescans
          /\ r.fresh \in Nat /\ r.rescans \in Nat /\ s.fresh \in Nat /\ s.rescans \in Nat
      BY <1>5, <2>1, <2>2 DEF Fuller, Sound, Fields
    <2>5. /\ s.pending = pending /\ s.active = active /\ s.left = left
          /\ s.fresh >= fresh /\ s.rescans >= rescans
          /\ fresh \in Nat /\ rescans \in Nat
      BY <1>5, NetworkAssumption DEF Fuller, Now, IInv, TypeOK
    <2>6. UNCHANGED <<failures, active, left, pending>>
      BY <1>7, <2>3, <2>4, <2>5
    <2>7. fresh' + rescans' >= fresh + rescans
      BY <2>3, <2>4, <2>5
    <2>8. fresh' + rescans' = 0 => ~active \/ left > 0 \/ pending = 0
      BY <2>1, <2>2, <2>3, <2>5 DEF Queued
    <2>9. turn = 0 \/ fresh + rescans = 0
      BY <1>7, <2>4, <2>5
    <2> QED
      BY <2>1, <2>6, <2>7, <2>8, <2>9
  <1> QED
    BY <1>5, <1>6, <1>7, BecomeSound DEF tickNotificationEngine

LEMMA TurnInv == IInv /\ Turn => IInv'
  <1> SUFFICES ASSUME IInv, Turn PROVE IInv'
    OBVIOUS
  <1> USE NetworkAssumption
  <1>1. /\ TypeOK /\ RowFollowsTracker /\ TrackerInTime /\ SendNears
    BY DEF IInv
  <1>2. /\ update /\ booted' = (booted \/ reachable)
        /\ turn' = 0 /\ bad' = (IF reachable THEN 0 ELSE bad)
        /\ UNCHANGED <<connected, answers, fine>>
        /\ \E written \in BOOLEAN : LogIssue(written)
    BY DEF Turn, world
  <1>3. failures' \in 0..FailureLimit
    BY <1>1, TurnEngine DEF recordOutcome, TypeOK
  <1>4. open' \in BOOLEAN /\ astray' \in BOOLEAN
    BY <1>1, <1>2, Zenon DEF LogIssue, TypeOK
  <1>5. unreachable' \in BOOLEAN /\ confirmed' \in BOOLEAN /\ since' \in 0..Long
    <2>1. since' \in {since, 0}
      BY <1>2 DEF update, tracker
    <2>2. unreachable' \in BOOLEAN
      BY <1>1, <1>2, Zenon DEF update, tracker, TypeOK
    <2>3. confirmed' \in BOOLEAN
      BY <1>1, <1>2, Zenon DEF update, tracker, TypeOK
    <2> QED
      BY <1>1, <2>1, <2>2, <2>3, Ages DEF TypeOK
  <1>6. TypeOK'
    <2>1. booted' \in BOOLEAN
      BY <1>2, Zenon
    <2>2. turn' \in 0..MaxBlock /\ fine' \in 0..Long /\ bad' \in 0..Long
      BY <1>1, <1>2, Ages DEF TypeOK
    <2>3. connected' \in BOOLEAN /\ answers' \in BOOLEAN
      BY <1>1, <1>2 DEF TypeOK
    <2> QED
      BY <1>3, <1>4, <1>5, <2>1, <2>2, <2>3, TurnEngine DEF TypeOK
  <1>7. RowFollowsTracker'
    BY <1>1, <1>2 DEF RowFollowsTracker, LogIssue, update, Started, Ended, tracker, TypeOK
  <1>8. TrackerInTime'
    BY <1>1, <1>2 DEF TrackerInTime, update, Started, tracker, TypeOK
  <1>9. SendNears'
    <2>1. fine' > 0 => connected' /\ answers'
      BY <1>1, <1>2 DEF SendNears
    <2>2. CASE recordOutcome(connected /\ answers)
      <3>1. failures' = FailureLimit => ~(connected /\ answers)
        BY <2>2 DEF recordOutcome
      <3>2. failures' = FailureLimit => fine' = 0
        BY <1>1, <1>2, <3>1 DEF SendNears, TypeOK
      <3> QED
        BY <1>2, <2>1, <3>2, TurnEngine DEF SendNears
    <2>3. CASE /\ UNCHANGED <<failures, active, left, pending>>
               /\ fresh' + rescans' >= fresh + rescans
               /\ fresh' + rescans' = 0 => ~active \/ left > 0 \/ pending = 0
               /\ turn = 0 \/ fresh + rescans = 0
      <3> SUFFICES ASSUME failures' = FailureLimit
                   PROVE  /\ Silent' => fine' = 0
                          /\ fresh' + rescans' = 0 /\ left' > 0 => fine' + left' <= RetryInterval
                          /\ fresh' + rescans' = 0 => fine' <= RetryInterval + turn'
                          /\ fine' <= RetryInterval + MaxBlock + turn'
        BY <2>1 DEF SendNears
      <3>0. fresh \in Nat /\ rescans \in Nat /\ turn \in 0..MaxBlock /\ fine \in Nat
            /\ left \in Nat /\ pending \in Nat
        BY <1>1 DEF TypeOK
      <3>1. /\ Silent => fine = 0
            /\ fresh + rescans = 0 /\ left > 0 => fine + left <= RetryInterval
            /\ fresh + rescans = 0 => fine <= RetryInterval + turn
            /\ fine <= RetryInterval + MaxBlock + turn
        BY <1>1, <2>3 DEF SendNears
      <3>2. fresh' + rescans' = 0 => fresh + rescans = 0
        BY <2>3, <3>0
      <3>3. Silent' => fine' = 0
        BY <1>2, <2>3, <3>1, <3>2 DEF Silent
      <3>4. fresh' + rescans' = 0 /\ left' > 0 => fine' + left' <= RetryInterval
        BY <1>2, <2>3, <3>1, <3>2
      <3>5. fresh' + rescans' = 0 => fine' <= RetryInterval + turn'
        <4>1. ASSUME fresh' + rescans' = 0, left = 0 PROVE fine = 0
          BY <2>3, <3>1, <3>2, <4>1 DEF Silent
        <4> QED
          BY <1>2, <3>0, <3>1, <3>2, <4>1
      <3>6. fine' <= RetryInterval + MaxBlock + turn'
        BY <1>2, <2>3, <3>0, <3>1
      <3> QED
        BY <3>3, <3>4, <3>5, <3>6
    <2> QED
      BY <2>2, <2>3, TurnEngine
  <1> QED
    BY <1>6, <1>7, <1>8, <1>9, TurnEngine DEF IInv

-----------------------------------------------------------------------------
(* The other steps.                                                        *)

LEMMA InitIInv == Init => IInv
  <1> SUFFICES ASSUME Init PROVE IInv
    OBVIOUS
  <1> USE NetworkAssumption DEF Init
  <1>1. TypeOK
    <2>1. 0 \in 0..Long
      BY Ages
    <2>2. 0 \in 0..MaxOwed /\ 0 \in 0..0 /\ 0 \in 0..RetryInterval
          /\ 0 \in 0..MaxBlock /\ 0 \in 0..FailureLimit
      OBVIOUS
    <2> QED
      BY <2>1, <2>2, Zenon DEF TypeOK
  <1>5. fresh + pending <= MaxOwed
    OBVIOUS
  <1>2. RowFollowsTracker
    BY DEF RowFollowsTracker
  <1>3. TrackerInTime
    BY DEF TrackerInTime
  <1>4. SendNears
    BY DEF SendNears, Silent
  <1> QED
    BY <1>1, <1>2, <1>3, <1>4, <1>5 DEF IInv

LEMMA TickInv == IInv /\ Tick => IInv'
  <1> SUFFICES ASSUME IInv, Tick PROVE IInv'
    OBVIOUS
  <1> USE NetworkAssumption
  <1>1. TypeOK /\ RowFollowsTracker /\ TrackerInTime /\ SendNears
    BY DEF IInv
  <1>2. /\ turn < MaxBlock /\ turn' = turn + 1
        /\ since' = Older(since) /\ bad' = Older(bad)
        /\ left' = (IF left > 0 THEN left - 1 ELSE 0)
        /\ fine' = (IF connected /\ answers /\ ~Silent THEN Older(fine) ELSE 0)
        /\ UNCHANGED <<connected, answers, failures, unreachable, confirmed, open,
                       booted, fresh, rescans, hadPending, pending, active, astray>>
    BY DEF Tick, world
  <1>3. since \in 0..Long /\ bad \in 0..Long /\ fine \in 0..Long /\ turn \in 0..MaxBlock
        /\ left \in 0..RetryInterval /\ fresh \in Nat /\ rescans \in Nat
    BY <1>1 DEF TypeOK
  <1>4. TypeOK'
    <2>1. since' \in 0..Long /\ bad' \in 0..Long /\ fine' \in 0..Long
      BY <1>2, <1>3, Ages
    <2>2. turn' \in 0..MaxBlock /\ left' \in 0..RetryInterval
      BY <1>2, <1>3
    <2> QED
      BY <1>1, <1>2, <2>1, <2>2 DEF TypeOK
  <1>5. RowFollowsTracker'
    BY <1>1, <1>2 DEF RowFollowsTracker
  <1>6. TrackerInTime'
    <2>1. /\ since' >= since /\ since' <= since + 1 /\ bad' <= bad + 1
          /\ since < Long => since' = since + 1
          /\ since = Long => since' = Long
          /\ bad < Long => bad' = bad + 1
          /\ bad = Long => bad' = Long
          /\ bad' \in 0..Long /\ since' \in 0..Long /\ Long \in Nat
      BY <1>2, <1>3, Ages
    <2>2. confirmed => unreachable /\ since' >= IssueThreshold
      BY <1>1, <1>3, <2>1 DEF TrackerInTime
    <2>3. unreachable => since' <= bad' /\ bad' <= since' + MaxBlock
      <3> SUFFICES ASSUME unreachable PROVE since' <= bad' /\ bad' <= since' + MaxBlock
        OBVIOUS
      <3>1. since <= bad /\ bad <= since + MaxBlock
        BY <1>1 DEF TrackerInTime
      <3>2. since' <= bad'
        BY <1>3, <2>1, <3>1
      <3>3. bad' <= since' + MaxBlock
        <4>1. CASE since = Long
          BY <1>3, <2>1, <4>1
        <4>2. CASE since < Long
          BY <1>3, <2>1, <3>1, <4>2
        <4>3. since = Long \/ since < Long
          BY <1>3, <2>1
        <4> QED
          BY <4>1, <4>2, <4>3
      <3> QED
        BY <3>2, <3>3
    <2>4. ~unreachable => bad' <= turn'
      BY <1>1, <1>2, <1>3, <2>1 DEF TrackerInTime
    <2>5. unreachable /\ ~confirmed => since' < IssueThreshold + turn'
      BY <1>1, <1>2, <1>3, <2>1 DEF TrackerInTime
    <2> QED
      BY <1>2, <2>2, <2>3, <2>4, <2>5 DEF TrackerInTime
  <1>7. SendNears'
    <2>1. fine' > 0 => connected' /\ answers'
      BY <1>2
    <2>2. CASE fine' = 0
      BY <1>2, <1>3, <2>1, <2>2 DEF SendNears
    <2>3. CASE fine' # 0
      <3>1. fine' <= fine + 1 /\ fine' \in Nat /\ ~Silent
        BY <1>2, <1>3, <2>3, Ages
      <3>2. ~Silent'
        BY <1>2, <3>1 DEF Silent
      <3> SUFFICES ASSUME failures' = FailureLimit
                   PROVE  /\ fresh' + rescans' = 0 /\ left' > 0 => fine' + left' <= RetryInterval
                          /\ fresh' + rescans' = 0 => fine' <= RetryInterval + turn'
                          /\ fine' <= RetryInterval + MaxBlock + turn'
        BY <2>1, <3>2 DEF SendNears
      <3>3. /\ fresh + rescans = 0 /\ left > 0 => fine + left <= RetryInterval
            /\ fresh + rescans = 0 => fine <= RetryInterval + turn
            /\ fine <= RetryInterval + MaxBlock + turn
        BY <1>1, <1>2 DEF SendNears
      <3> QED
        BY <1>2, <1>3, <3>1, <3>3
    <2> QED
      BY <2>2, <2>3
  <1> QED
    BY <1>2, <1>4, <1>5, <1>6, <1>7 DEF IInv

\* A queue to which something is added was empty before if it is after.
LEMMA NoneLeft ==
  ASSUME NEW before \in Nat, NEW after \in Nat, NEW others \in Nat, after >= before
  PROVE  after + others = 0 => before + others = 0
  <1>1. after + others >= before + others /\ before + others >= 0
    OBVIOUS
  <1> QED
    BY <1>1

LEMMA OtherInv ==
  IInv /\ (EventLogged \/ Reply \/ CloseByHand \/ NetworkChanges \/ Crash
           \/ UNCHANGED vars) => IInv'
  <1> SUFFICES ASSUME IInv, EventLogged \/ Reply \/ CloseByHand \/ NetworkChanges
                            \/ Crash \/ UNCHANGED vars
               PROVE  IInv'
    OBVIOUS
  <1> USE NetworkAssumption
  <1>0. /\ TypeOK /\ fresh + pending <= MaxOwed
        /\ RowFollowsTracker /\ TrackerInTime /\ SendNears
    BY DEF IInv
  <1>1. CASE EventLogged
    <2>1. TypeOK' /\ fresh' + pending' <= MaxOwed
      BY <1>0, <1>1, Ages DEF TypeOK, EventLogged, Room, Silent, world, tracker, ages
    <2>2. RowFollowsTracker'
      BY <1>0, <1>1 DEF TypeOK, RowFollowsTracker, EventLogged, Room, Silent, world, tracker, ages
    <2>3. TrackerInTime'
      BY <1>0, <1>1 DEF TypeOK, TrackerInTime, EventLogged, Room, Silent, world, tracker, ages
    <2>4. SendNears'
      BY <1>0, <1>1 DEF TypeOK, SendNears, EventLogged, Room, Silent, world, tracker, ages
    <2> QED
      BY <2>1, <2>2, <2>3, <2>4 DEF IInv
  <1>2. CASE Reply
    <2>1. TypeOK' /\ fresh' + pending' <= MaxOwed
      BY <1>0, <1>2, Ages DEF TypeOK, Reply, recordOutcome, Silent, world, tracker, engine, ages
    <2>2. RowFollowsTracker'
      BY <1>0, <1>2 DEF TypeOK, RowFollowsTracker, Reply, recordOutcome, Silent, world,
                        tracker, engine, ages
    <2>3. TrackerInTime'
      BY <1>0, <1>2 DEF TypeOK, TrackerInTime, Reply, recordOutcome, Silent, world,
                        tracker, engine, ages
    <2>4. SendNears'
      BY <1>0, <1>2 DEF TypeOK, SendNears, Reply, recordOutcome, Silent, world,
                        tracker, engine, ages
    <2> QED
      BY <2>1, <2>2, <2>3, <2>4 DEF IInv
  <1>3. CASE CloseByHand
    <2>0. fresh' = fresh \/ (Room /\ fresh' = fresh + 1)
      BY <1>3 DEF CloseByHand
    <2>a. fresh' \in 0..MaxOwed /\ fresh' + pending <= MaxOwed
      BY <1>0, <2>0 DEF TypeOK, Room
    <2>1. TypeOK' /\ fresh' + pending' <= MaxOwed
      BY <1>0, <1>3, <2>a DEF TypeOK, CloseByHand, world, tracker, ages
    <2>2. RowFollowsTracker'
      BY <1>0, <1>3 DEF TypeOK, RowFollowsTracker, CloseByHand, Room, Silent, world, tracker, ages
    <2>3. TrackerInTime'
      BY <1>0, <1>3 DEF TypeOK, TrackerInTime, CloseByHand, Room, Silent, world, tracker, ages
    <2>4. SendNears'
      <3>1. UNCHANGED <<connected, answers, failures, rescans, pending, active, left,
                        turn, fine>>
        BY <1>3 DEF CloseByHand, world, ages
      <3>2. fresh' + rescans' = 0 => fresh + rescans = 0
        <4>1. fresh \in Nat /\ rescans \in Nat /\ rescans' = rescans /\ fresh' >= fresh
          BY <1>0, <2>0, <3>1 DEF TypeOK
        <4>2. PICK f \in Nat : f = fresh'
          BY <2>a
        <4>3. f + rescans = 0 => fresh + rescans = 0
          BY <4>1, <4>2, NoneLeft
        <4>4. fresh' + rescans' = f + rescans
          BY <4>1, <4>2
        <4> QED
          BY <4>3, <4>4
      <3>3. Silent' => Silent
        BY <3>1, <3>2 DEF Silent
      <3> QED
        BY <1>0, <3>1, <3>2, <3>3 DEF SendNears
    <2> QED
      BY <2>1, <2>2, <2>3, <2>4 DEF IInv
  <1>4. CASE NetworkChanges
    <2>1. TypeOK' /\ fresh' + pending' <= MaxOwed
      BY <1>0, <1>4, Ages DEF TypeOK, NetworkChanges, Silent, tracker, engine
    <2>2. RowFollowsTracker'
      BY <1>0, <1>4 DEF TypeOK, RowFollowsTracker, NetworkChanges, Silent, tracker, engine
    <2>3. TrackerInTime'
      BY <1>0, <1>4 DEF TypeOK, TrackerInTime, NetworkChanges, Silent, tracker, engine
    <2>4. SendNears'
      BY <1>0, <1>4 DEF TypeOK, SendNears, NetworkChanges, Silent, tracker, engine
    <2> QED
      BY <2>1, <2>2, <2>3, <2>4 DEF IInv
  <1>5. CASE Crash
    <2>1. TypeOK' /\ fresh' + pending' <= MaxOwed
      <3>1. 0 \in 0..Long
        BY Ages
      <3>2. pending \in 0..MaxOwed /\ 0 \in 0..pending /\ 0 \in 0..MaxOwed
            /\ 0 \in 0..RetryInterval /\ 0 \in 0..MaxBlock /\ 0 \in 0..FailureLimit
        BY <1>0 DEF TypeOK
      <3>3. TypeOK'
        BY <1>0, <1>5, <3>1, <3>2, Zenon DEF TypeOK, Crash
      <3>4. fresh' + pending' <= MaxOwed
        BY <1>5, <3>2 DEF Crash
      <3> QED
        BY <3>3, <3>4
    <2>2. RowFollowsTracker'
      BY <1>0, <1>5 DEF TypeOK, RowFollowsTracker, Crash, Silent
    <2>3. TrackerInTime'
      BY <1>0, <1>5 DEF TypeOK, TrackerInTime, Crash, Silent
    <2>4. SendNears'
      BY <1>0, <1>5 DEF TypeOK, SendNears, Crash, Silent
    <2> QED
      BY <2>1, <2>2, <2>3, <2>4 DEF IInv
  <1>6. CASE UNCHANGED vars
    <2>1. TypeOK' /\ fresh' + pending' <= MaxOwed
      BY <1>0, <1>6, Ages DEF TypeOK, vars, Silent, world, tracker, engine, ages
    <2>2. RowFollowsTracker'
      BY <1>0, <1>6 DEF TypeOK, RowFollowsTracker, vars, Silent, world, tracker, engine, ages
    <2>3. TrackerInTime'
      BY <1>0, <1>6 DEF TypeOK, TrackerInTime, vars, Silent, world, tracker, engine, ages
    <2>4. SendNears'
      BY <1>0, <1>6 DEF TypeOK, SendNears, vars, Silent, world, tracker, engine, ages
    <2> QED
      BY <2>1, <2>2, <2>3, <2>4 DEF IInv
  <1> QED
    BY <1>1, <1>2, <1>3, <1>4, <1>5, <1>6

THEOREM NetworkInvariant == Spec => []IInv
  <1>1. IInv /\ [Next]_vars => IInv'
    BY TurnInv, TickInv, OtherInv DEF Next
  <1> QED
    BY <1>1, InitIInv, PTL DEF Spec

-----------------------------------------------------------------------------
(* The theorems.                                                           *)

\* No row has two messages of a scan in the queue, and the counts keep their
\* bounds, through failed writes, resets and scans asked for at any moment.
THEOREM TypeCorrect == Spec => []TypeOK
  <1>1. IInv => TypeOK
    BY DEF IInv
  <1> QED
    BY <1>1, NetworkInvariant, PTL

\* The log's open NETWORK_ISSUE is the tracker's, until a failed write, a
\* reset or a close by hand separates them.
THEOREM RowFollowsTrackerHolds == Spec => []RowFollowsTracker
  <1>1. IInv => RowFollowsTracker
    BY DEF IInv
  <1> QED
    BY <1>1, NetworkInvariant, PTL

\* An outage is confirmed when it has lasted for the threshold, not before
\* it and at most two turns after.
THEOREM ConfirmedInTimeHolds == Spec => []ConfirmedInTime
  <1>1. IInv => ConfirmedInTime
    BY NetworkAssumption DEF IInv, TypeOK, TrackerInTime, ConfirmedInTime
  <1> QED
    BY <1>1, NetworkInvariant, PTL

\* When the network is back, the next send tells; the retry timer brings it
\* within its interval.
THEOREM ReturnNoticedHolds == Spec => []ReturnNoticed
  <1>1. IInv => ReturnNoticed
    BY NetworkAssumption DEF IInv, TypeOK, SendNears, ReturnNoticed, reachable
  <1> QED
    BY <1>1, NetworkInvariant, PTL
=============================================================================
