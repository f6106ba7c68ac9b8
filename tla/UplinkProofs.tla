---------------------------- MODULE UplinkProofs ----------------------------
(***************************************************************************)
(* Theorems about Uplink, for any backoff, intervals and range of the      *)
(* millisecond counter.                                                    *)
(*                                                                         *)
(* g_nextAttemptMillis is compared as a signed 32-bit difference and not   *)
(* touched while there is a link, so that it may be any distance from the  *)
(* counter when the link is lost.  The proof follows this distance: as     *)
(* long as it counts as negative the wait has lasted for what it has gone  *)
(* on from Half, and once it is not the next turn makes an attempt.        *)
(***************************************************************************)
EXTENDS Uplink, TLAPS

Reading == 0..(Wrap - 1)

WaitInv ==
  /\ connected => waited = 0
  /\ ~connected =>
       LET late == Elapsed(ms, next)
       IN  IF late >= Half
           THEN waited <= late - Half + MaxBlock
           ELSE waited <= turn \/ (late <= turn /\ waited <= Half + MaxBlock + late)

\* The age of what NVS holds is what tickClock takes it for.
AnchorInv ==
  synced => stored = Elapsed(ms, lastPersist) /\ stored <= PersistInterval + turn

IInv == TypeOK /\ WaitInv /\ AnchorInv /\ EstimateNeverAhead

-----------------------------------------------------------------------------
(* Readings of the counter and delays.                                     *)

LEMMA SizesType ==
  /\ Wrap \in Nat /\ Half \in Nat /\ Wrap = 2 * Half
  /\ MaxBlock \in Nat /\ 0 < MaxBlock /\ MaxBlock < Half
  /\ PersistInterval \in Nat /\ PersistInterval + MaxBlock < Wrap
  BY UplinkAssumption DEF Half

LEMMA ModType ==
  ASSUME NEW t \in Int
  PROVE  t % Wrap \in Reading
  BY SizesType DEF Reading

LEMMA ElapsedCases ==
  ASSUME NEW t \in Reading, NEW since \in Reading
  PROVE  Elapsed(t, since) = IF t >= since THEN t - since ELSE t - since + Wrap
  BY SizesType DEF Elapsed, Reading

LEMMA ElapsedType ==
  ASSUME NEW t \in Reading, NEW since \in Reading
  PROVE  Elapsed(t, since) \in Reading
  BY ModType DEF Elapsed, Reading

LEMMA NextReading ==
  ASSUME NEW t \in Reading
  PROVE  /\ (t + 1) % Wrap = IF t = Wrap - 1 THEN 0 ELSE t + 1
         /\ (t + 1) % Wrap \in Reading
  BY SizesType DEF Reading

\* A tick makes a difference one larger, or 0 after a whole round.
LEMMA ElapsedTick ==
  ASSUME NEW t \in Reading, NEW since \in Reading
  PROVE  Elapsed((t + 1) % Wrap, since) =
           IF Elapsed(t, since) = Wrap - 1 THEN 0 ELSE Elapsed(t, since) + 1
  <1>1. CASE t = Wrap - 1
    <2>1. (t + 1) % Wrap = 0 /\ 0 \in Reading
      BY <1>1, NextReading
    <2>2. Elapsed(0, since) = IF since = 0 THEN 0 ELSE Wrap - since
      BY <2>1, ElapsedCases, SizesType DEF Reading
    <2>3. Elapsed(t, since) = Wrap - 1 - since
      BY <1>1, ElapsedCases, SizesType DEF Reading
    <2> QED
      BY <2>1, <2>2, <2>3, SizesType DEF Reading
  <1>2. CASE t # Wrap - 1
    <2>1. PICK u \in Reading : u = t + 1 /\ (t + 1) % Wrap = u
      BY <1>2, NextReading
    <2>2. Elapsed(u, since) = IF u >= since THEN u - since ELSE u - since + Wrap
      BY ElapsedCases
    <2>3. Elapsed(t, since) = IF t >= since THEN t - since ELSE t - since + Wrap
      BY ElapsedCases
    <2> QED
      BY <2>1, <2>2, <2>3, SizesType DEF Reading
  <1> QED
    BY <1>1, <1>2

LEMMA BackoffType ==
  /\ Len(Delays) \in Nat \ {0}
  /\ \A n \in 0..Len(Delays) : backoffDelay(n) \in Nat
  <1>1. Delays \in Seq(Nat \ {0}) /\ Len(Delays) > 0
    BY UplinkAssumption
  <1>2. Len(Delays) \in Nat \ {0}
    BY <1>1
  <1> SUFFICES ASSUME NEW n \in 0..Len(Delays) PROVE backoffDelay(n) \in Nat
    BY <1>2
  <1>3. (IF n = 0 THEN 1 ELSE Least(n, Len(Delays))) \in 1..Len(Delays)
    BY <1>2 DEF Least
  <1> QED
    BY <1>1, <1>3 DEF backoffDelay

\* The first delay is one that ends, as the cap does.
LEMMA FirstDelay ==
  backoffDelay(1) \in Reading /\ 0 < backoffDelay(1) /\ backoffDelay(1) <= Half
  <1>1. Delays \in Seq(Nat \ {0}) /\ Len(Delays) > 0 /\ Len(Delays) \in Nat
    BY UplinkAssumption
  <1>2. backoffDelay(1) = Delays[1]
    BY <1>1 DEF backoffDelay, Least
  <1>3. 1 \in DOMAIN Delays /\ Len(Delays) \in DOMAIN Delays
    BY <1>1
  <1>4. Delays[1] <= Cap /\ Cap < Half
    BY <1>1, <1>3, UplinkAssumption DEF Cap
  <1>5. Delays[1] \in Nat \ {0} /\ Cap \in Nat
    BY <1>1, <1>3 DEF Cap
  <1> QED
    BY <1>2, <1>4, <1>5, SizesType DEF Reading
-----------------------------------------------------------------------------
(* Types.                                                                  *)

LEMMA InitIInv == Init => IInv
  <1> SUFFICES ASSUME Init PROVE IInv
    OBVIOUS
  <1>1. TypeOK
    <2>1. 0 \in Reading /\ next \in Reading
      BY SizesType, FirstDelay DEF Init, Reading
    <2>2. attempt \in 0..Len(Delays)
      BY BackoffType DEF Init
    <2>3. stored \in 0..Wrap /\ anchorAge \in 0..Wrap /\ turn \in 0..MaxBlock /\ waited \in 0..Wrap
      BY SizesType DEF Init
    <2> QED
      BY <2>1, <2>2, <2>3 DEF Init, TypeOK, Reading
  <1>2. Elapsed(ms, next) >= Half
    BY <1>1, FirstDelay, ElapsedCases, SizesType DEF Init, Reading
  <1>3. Elapsed(ms, next) \in Reading
    BY <1>1, ElapsedType DEF TypeOK, Reading
  <1>4. WaitInv
    BY <1>2, <1>3, SizesType DEF Init, WaitInv, Reading
  <1>5. AnchorInv /\ EstimateNeverAhead
    BY SizesType DEF Init, AnchorInv, EstimateNeverAhead
  <1> QED
    BY <1>1, <1>4, <1>5 DEF IInv

LEMMA tickWifiType ==
  ASSUME TypeOK, tickWifi
  PROVE  attempt' \in 0..Len(Delays) /\ next' \in Reading /\ waited' \in 0..Wrap
  <1> USE DEF TypeOK
  <1>1. CASE connected /\ attempt' = 0 /\ UNCHANGED <<next, waited>>
    BY <1>1, BackoffType DEF Reading
  <1>2. CASE UNCHANGED <<attempt, next, waited>>
    BY <1>2 DEF Reading
  <1>3. CASE /\ attempt' = Least(attempt + 1, Len(Delays))
             /\ next' = (ms + backoffDelay(attempt')) % Wrap
             /\ waited' = 0
    <2>1. attempt' \in 0..Len(Delays)
      BY <1>3, BackoffType DEF Least
    <2>2. ms + backoffDelay(attempt') \in Int
      BY <2>1, BackoffType, SizesType
    <2>3. next' \in Reading
      BY <1>3, <2>2, ModType
    <2> QED
      BY <1>3, <2>1, <2>3, SizesType
  <1> QED
    BY <1>1, <1>2, <1>3 DEF tickWifi

LEMMA tickClockType ==
  ASSUME TypeOK, NEW s \in BOOLEAN, tickClock(s)
  PROVE  /\ stored' \in 0..Wrap /\ anchorAge' \in 0..Wrap
         /\ lastPersist' \in Reading /\ synced' \in BOOLEAN
  <1>1. 0 \in 0..Wrap
    BY SizesType
  <1>2. CASE saveLastEpoch /\ synced' = TRUE
    BY <1>1, <1>2 DEF saveLastEpoch, TypeOK, Reading
  <1>3. CASE synced' \in BOOLEAN /\ UNCHANGED <<stored, anchorAge, lastPersist>>
    BY <1>3 DEF TypeOK, Reading
  <1> QED
    BY <1>2, <1>3 DEF tickClock

LEMMA OlderType ==
  ASSUME NEW age \in 0..Wrap
  PROVE  /\ Older(age) \in 0..Wrap /\ Older(age) <= age + 1
         /\ age < Wrap => Older(age) = age + 1
  BY SizesType DEF Older, Least

LEMMA TypeStep == IInv /\ [Next]_vars => TypeOK'
  <1> SUFFICES ASSUME TypeOK, [Next]_vars PROVE TypeOK'
    BY DEF IInv
  <1> USE DEF TypeOK
  <1>z. 0 \in Reading /\ 0 \in 0..MaxBlock /\ 0 \in 0..Wrap
    BY SizesType DEF Reading
  <1>s. StillSynced \in BOOLEAN
    BY DEF StillSynced
  <1>1. CASE WaitRound
    BY <1>1, <1>z, tickWifiType, tickClockType DEF WaitRound, Reading
  <1>2. CASE FinishSetup
    BY <1>2, <1>s DEF FinishSetup, FallsBack, radio, backoff
  <1>3. CASE Turn
    BY <1>3, <1>z, <1>s, tickWifiType, tickClockType DEF Turn, FallsBack, Reading
  <1>4. CASE Tick
    <2>1. turn' \in 0..MaxBlock
      BY <1>4, SizesType DEF Tick
    <2>2. ms' \in Reading
      BY <1>4, NextReading DEF Tick, Reading
    <2>3. stored' \in 0..Wrap /\ anchorAge' \in 0..Wrap /\ waited' \in 0..Wrap
      BY <1>4, <1>z, OlderType DEF Tick
    <2> QED
      BY <1>4, <2>1, <2>2, <2>3 DEF Tick, radio, setup, Reading
  <1>5. CASE LinkUp
    BY <1>5, <1>z DEF LinkUp, clock, setup
  <1>6. CASE LinkDown
    BY <1>6 DEF LinkDown, backoff, clock, setup
  <1>7. CASE NtpAnswer \/ Glitch
    BY <1>7 DEF NtpAnswer, Glitch, backoff, clock, setup
  <1>8. CASE Crash
    <2>1. attempt' \in 0..Len(Delays) /\ next' \in Reading
      BY <1>8, BackoffType, FirstDelay DEF Crash
    <2> QED
      BY <1>8, <1>z, <2>1 DEF Crash, Reading
  <1>9. CASE UNCHANGED vars
    BY <1>9 DEF vars, radio, backoff, clock, setup
  <1> QED
    BY <1>1, <1>2, <1>3, <1>4, <1>5, <1>6, <1>7, <1>8, <1>9 DEF Next
-----------------------------------------------------------------------------
(* The wait for an attempt.                                                *)

LEMMA WaitStep == IInv /\ [Next]_vars => WaitInv'
  <1> SUFFICES ASSUME IInv, [Next]_vars PROVE WaitInv'
    OBVIOUS
  <1> USE DEF IInv
  <1>t. /\ ms \in Reading /\ next \in Reading /\ turn \in 0..MaxBlock
        /\ waited \in 0..Wrap /\ connected \in BOOLEAN
    BY DEF TypeOK, Reading
  <1>z. waited' = 0 => WaitInv'
    <2>1. SUFFICES ASSUME waited' = 0 PROVE WaitInv'
      OBVIOUS
    <2>2. PICK late \in Reading : late = Elapsed(ms', next')
      BY TypeStep, ElapsedType DEF TypeOK, Reading
    <2>3. PICK blocked \in 0..MaxBlock : blocked = turn'
      BY TypeStep DEF TypeOK
    <2> QED
      BY <2>1, <2>2, <2>3, SizesType DEF WaitInv, Reading
  <1>1. ASSUME tickWifi, turn' = 0, UNCHANGED <<connected, ms>>
        PROVE  WaitInv'
    <2>1. CASE connected
      BY <1>1, <1>z, <2>1 DEF tickWifi, WaitInv
    <2>2. CASE ~connected /\ BackingOff
      BY <1>1, <2>2 DEF tickWifi, WaitInv, BackingOff
    <2>3. CASE ~connected /\ ~BackingOff
      BY <1>1, <1>z, <2>3 DEF tickWifi
    <2> QED
      BY <2>1, <2>2, <2>3
  <1>2. CASE WaitRound \/ Turn
    BY <1>1, <1>2 DEF WaitRound, Turn
  <1>3. CASE Tick
    <2>1. CASE connected
      BY <1>3, <1>z, <2>1 DEF Tick
    <2>2. CASE ~connected
      <3>1. PICK late \in Reading : late = Elapsed(ms, next)
        BY <1>t, ElapsedType
      <3>2. PICK later \in Reading : later = IF late = Wrap - 1 THEN 0 ELSE late + 1
        BY SizesType DEF Reading
      <3>3. Elapsed(ms', next') = later
        BY <1>3, <1>t, <3>1, <3>2, ElapsedTick DEF Tick, backoff
      <3>4. PICK wait \in 0..Wrap : wait = waited' /\ wait <= waited + 1
        BY <1>3, <1>t, <2>2, OlderType DEF Tick
      <3>5. turn' = turn + 1 /\ turn < MaxBlock /\ ~connected'
        BY <1>3, <2>2 DEF Tick, radio
      <3>6. CASE late >= Half /\ late # Wrap - 1
        <4>1. waited <= late - Half + MaxBlock
          BY <2>2, <3>1, <3>6 DEF WaitInv
        <4>2. later >= Half /\ wait <= later - Half + MaxBlock
          BY <1>t, <3>2, <3>4, <3>6, <4>1, SizesType DEF Reading
        <4> QED
          BY <3>3, <3>4, <3>5, <4>2 DEF WaitInv
      <3>7. CASE late = Wrap - 1
        <4>1. waited <= late - Half + MaxBlock
          BY <2>2, <3>1, <3>7, SizesType DEF WaitInv
        <4>2. later = 0 /\ wait <= Half + MaxBlock + later /\ later < Half /\ later <= turn + 1
          BY <1>t, <3>2, <3>4, <3>7, <4>1, SizesType DEF Reading
        <4> QED
          BY <3>3, <3>4, <3>5, <4>2, SizesType DEF WaitInv, Reading
      <3>8. CASE late < Half
        <4>1. waited <= turn \/ (late <= turn /\ waited <= Half + MaxBlock + late)
          BY <2>2, <3>1, <3>8, SizesType DEF WaitInv, Reading
        <4>2. later = late + 1
          BY <3>2, <3>8, SizesType DEF Reading
        <4>3. \/ wait <= turn + 1
              \/ later <= turn + 1 /\ wait <= Half + MaxBlock + later
          BY <1>t, <3>4, <4>1, <4>2, SizesType DEF Reading
        <4>4. later >= Half => wait <= later - Half + MaxBlock
          BY <1>t, <3>5, <4>2, <4>3, <3>8, SizesType DEF Reading
        <4> QED
          BY <3>3, <3>4, <3>5, <4>3, <4>4, SizesType DEF WaitInv, Reading
      <3> QED
        BY <3>6, <3>7, <3>8, SizesType DEF Reading
    <2> QED
      BY <2>1, <2>2
  <1>4. CASE LinkUp \/ Crash
    BY <1>4, <1>z DEF LinkUp, Crash
  <1>5. CASE LinkDown
    BY <1>5, <1>z DEF LinkDown, backoff, WaitInv
  <1>6. CASE FinishSetup \/ NtpAnswer \/ Glitch \/ UNCHANGED vars
    BY <1>6 DEF FinishSetup, NtpAnswer, Glitch, vars, radio, backoff, WaitInv
  <1> QED
    BY <1>2, <1>3, <1>4, <1>5, <1>6 DEF Next

-----------------------------------------------------------------------------
(* The clock.                                                              *)

LEMMA AnchorStep == IInv /\ [Next]_vars => AnchorInv'
  <1> SUFFICES ASSUME IInv, [Next]_vars, synced'
               PROVE  stored' = Elapsed(ms', lastPersist') /\ stored' <= PersistInterval + turn'
    BY DEF AnchorInv
  <1> USE DEF IInv
  <1>t. /\ ms \in Reading /\ lastPersist \in Reading /\ turn \in 0..MaxBlock
        /\ stored \in 0..Wrap /\ synced \in BOOLEAN
    BY DEF TypeOK, Reading
  <1>1. ASSUME NEW s \in BOOLEAN, tickClock(s), s => synced, turn' = 0, ms' = ms
        PROVE  stored' = Elapsed(ms', lastPersist') /\ stored' <= PersistInterval + turn'
    <2>1. CASE saveLastEpoch
      BY <1>1, <1>t, <2>1, ElapsedCases, SizesType DEF saveLastEpoch, Reading
    <2>2. CASE s /\ ~shouldPersistAnchor /\ UNCHANGED <<stored, lastPersist>>
      <3>1. stored = Elapsed(ms, lastPersist)
        BY <1>1, <2>2 DEF AnchorInv
      <3>2. stored < PersistInterval
        BY <1>t, <2>2, <3>1, SizesType DEF shouldPersistAnchor, Reading
      <3> QED
        BY <1>1, <1>t, <2>2, <3>1, <3>2, SizesType
    <2> QED
      BY <1>1, <2>1, <2>2 DEF tickClock
  <1>2. CASE WaitRound
    BY <1>1, <1>2, <1>t DEF WaitRound
  <1>3. CASE Turn
    BY <1>1, <1>3, <1>t DEF Turn, StillSynced, TypeOK
  <1>4. CASE Tick
    <2>1. stored = Elapsed(ms, lastPersist) /\ stored <= PersistInterval + turn
      BY <1>4 DEF Tick, AnchorInv
    <2>2. stored < Wrap - 1 /\ stored' = stored + 1 /\ turn' = turn + 1
      BY <1>4, <1>t, <2>1, OlderType, SizesType DEF Tick
    <2>3. Elapsed(ms', lastPersist') = stored + 1
      BY <1>4, <1>t, <2>1, <2>2, ElapsedTick DEF Tick
    <2> QED
      BY <1>t, <2>1, <2>2, <2>3, SizesType
  <1>5. CASE \/ FinishSetup \/ LinkUp \/ LinkDown \/ NtpAnswer \/ Glitch
             \/ UNCHANGED vars
    BY <1>5 DEF FinishSetup, LinkUp, LinkDown, NtpAnswer, Glitch, vars, clock,
                StillSynced, AnchorInv
  <1>6. CASE Crash
    BY <1>6 DEF Crash
  <1> QED
    BY <1>2, <1>3, <1>4, <1>5, <1>6 DEF Next

LEMMA EstimateStep == IInv /\ [Next]_vars => EstimateNeverAhead'
  <1> SUFFICES ASSUME IInv, [Next]_vars, ~synced', ~misled' PROVE ms' <= anchorAge'
    BY DEF EstimateNeverAhead
  <1> USE DEF IInv, EstimateNeverAhead
  <1>1. ASSUME NEW s \in BOOLEAN, tickClock(s), ~synced, ~misled, ms' = ms
        PROVE  ms' <= anchorAge'
    BY <1>1 DEF tickClock
  <1>2. CASE WaitRound
    BY <1>2, <1>1 DEF WaitRound, TypeOK
  <1>3. CASE Turn
    <2>1. ~plausible
      BY <1>3 DEF Turn, tickClock
    <2>2. ~synced /\ ~misled
      BY <1>3, <2>1 DEF Turn, FallsBack
    <2> QED
      BY <1>3, <2>1, <2>2, <1>1 DEF Turn, StillSynced
  <1>4. CASE FinishSetup
    <2>1. ~synced /\ ~misled
      BY <1>4 DEF FinishSetup, FallsBack, StillSynced
    <2> QED
      BY <1>4, <2>1 DEF FinishSetup
  <1>5. CASE Tick
    <2>1. ms <= anchorAge /\ ms \in Reading /\ anchorAge \in 0..Wrap
      BY <1>5 DEF Tick, TypeOK, Reading
    <2>2. ms' = (IF ms = Wrap - 1 THEN 0 ELSE ms + 1) /\ ms' \in Reading
      BY <1>5, <2>1, NextReading DEF Tick
    <2>3. PICK age \in 0..Wrap : age = anchorAge' /\ (anchorAge < Wrap => age = anchorAge + 1)
      BY <1>5, <2>1, OlderType DEF Tick
    <2>4. anchorAge = Wrap => age = Wrap
      BY <1>5, <2>3, SizesType DEF Tick, Older, Least
    <2> QED
      BY <2>1, <2>2, <2>3, <2>4, SizesType DEF Reading
  <1>6. CASE LinkUp \/ LinkDown \/ NtpAnswer \/ Glitch \/ UNCHANGED vars
    BY <1>6 DEF LinkUp, LinkDown, NtpAnswer, Glitch, vars, clock
  <1>7. CASE Crash
    BY <1>7, TypeStep DEF Crash, TypeOK
  <1> QED
    BY <1>2, <1>3, <1>4, <1>5, <1>6, <1>7 DEF Next

LEMMA Invariance == Spec => []IInv
  BY InitIInv, TypeStep, WaitStep, AnchorStep, EstimateStep, PTL DEF Spec, IInv

-----------------------------------------------------------------------------
(* The theorems.                                                           *)

\* Every variable ranges over what the code allows.
THEOREM TypeCorrect == Spec => []TypeOK
  <1>1. IInv => TypeOK
    BY DEF IInv
  <1> QED
    BY <1>1, Invariance, PTL

\* However old the moment of the next attempt is when the link is lost, an
\* attempt is made before the counter has gone half way round and two turns.
THEOREM AttemptsResumeHolds == Spec => []AttemptsResume
  <1>1. IInv => AttemptsResume
    <2> SUFFICES ASSUME IInv PROVE waited <= Half + 2 * MaxBlock
      BY DEF AttemptsResume
    <2>1. turn \in 0..MaxBlock /\ waited \in 0..Wrap /\ connected \in BOOLEAN
      BY DEF IInv, TypeOK
    <2>2. PICK late \in Reading : late = Elapsed(ms, next)
      BY ElapsedType DEF IInv, TypeOK, Reading
    <2>3. CASE connected
      BY <2>1, <2>3, SizesType DEF IInv, WaitInv
    <2>4. CASE ~connected /\ late >= Half
      BY <2>1, <2>2, <2>4, SizesType DEF IInv, WaitInv, Reading
    <2>5. CASE ~connected /\ late < Half
      <3>1. waited <= turn \/ (late <= turn /\ waited <= Half + MaxBlock + late)
        BY <2>2, <2>5, SizesType DEF IInv, WaitInv, Reading
      <3> QED
        BY <2>1, <3>1, SizesType DEF Reading
    <2> QED
      BY <2>1, <2>3, <2>4, <2>5, SizesType DEF Reading
  <1> QED
    BY <1>1, Invariance, PTL

\* As long as the time is valid the epoch in NVS is no older than the
\* configured interval and one turn.
THEOREM AnchorFreshHolds == Spec => []AnchorFresh
  <1>1. IInv => AnchorFresh
    <2> SUFFICES ASSUME IInv, synced PROVE stored <= PersistInterval + MaxBlock
      BY DEF AnchorFresh
    <2>1. stored <= PersistInterval + turn /\ turn \in 0..MaxBlock /\ stored \in 0..Wrap
      BY DEF IInv, AnchorInv, TypeOK
    <2> QED
      BY <2>1, SizesType
  <1> QED
    BY <1>1, Invariance, PTL

\* Before the first sync of a boot the estimate is not ahead of the time.
THEOREM EstimateNeverAheadHolds == Spec => []EstimateNeverAhead
  <1>1. IInv => EstimateNeverAhead
    BY DEF IInv
  <1> QED
    BY <1>1, Invariance, PTL
=============================================================================
