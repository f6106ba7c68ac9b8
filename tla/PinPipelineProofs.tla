------------------------- MODULE PinPipelineProofs -------------------------
(***************************************************************************)
(* Theorems about PinPipeline, for any pins, queue depth and thresholds:   *)
(* type correctness, that the log follows the pins, the dates it gives     *)
(* their changes, and that only what was stable is reported.               *)
(*                                                                         *)
(* LogFollowsPins speaks of pins nothing is on its way for.  It is made    *)
(* inductive by saying where the last change of a pin is otherwise: in the *)
(* latch, in the last of the pin's records in the queue, or, when there is *)
(* none, in the debouncer.  OnlyStableReported needs for each record that  *)
(* is the last of its pin that the pin has been at its level since         *)
(* (Tracked), and that records are young, so that a difference of readings *)
(* is an age.                                                              *)
(***************************************************************************)
EXTENDS PinPipeline, TLAPS

NoneQueued(p) == \A i \in DOMAIN queue : queue[i].pin # p

LastQueued(p) ==
  \E i \in DOMAIN queue :
    /\ queue[i].pin = p /\ queue[i].level = level[p]
    /\ \A j \in DOMAIN queue : j > i => queue[j].pin # p

InStep(p) ==
  \/ p \in latch
  \/ LastQueued(p)
  \/ /\ NoneQueued(p)
     /\ debouncer[p].pending /\ debouncer[p].level = level[p]
  \/ /\ NoneQueued(p)
     /\ ~debouncer[p].pending /\ reported[p] = StatusOf(p, level[p])

\* With the board down there is nothing in RAM.
NothingWhenDown ==
  ~up => /\ latch = {} /\ queue = << >>
         /\ \A p \in Pin : ~debouncer[p].pending

IInv ==
  /\ TypeOK
  /\ NothingWhenDown
  /\ \A p \in Pin : up /\ p \notin missed => InStep(p)

-----------------------------------------------------------------------------
(* Types.                                                                  *)

LEMMA ElapsedType ==
  ASSUME NEW t \in Int
  PROVE  t % Wrap \in 0..(Wrap - 1)
BY PinAssumption

LEMMA IdleType == 0 \in 0..(Wrap - 1) /\ Idle \in Debouncer
<1>1. 0 \in 0..(Wrap - 1)
  BY PinAssumption
<1> QED
  BY <1>1 DEF Idle, Debouncer, Level

LEMMA StatusType ==
  ASSUME NEW p, NEW l
  PROVE  StatusOf(p, l) \in {"START", "END"}
BY DEF StatusOf, resolvePinEventStatus

\* Every step keeps the types.
LEMMA TypeStep == TypeOK /\ [Next]_vars => TypeOK'
<1> SUFFICES ASSUME TypeOK, [Next]_vars
             PROVE  TypeOK'
  OBVIOUS
<1> USE PinAssumption
<1>1. ASSUME NEW p \in Pin, Edge(p)
      PROVE  TypeOK'
  <2>1. level' \in [Pin -> Level]
    <3>1. level[p] \in Level
      BY DEF TypeOK
    <3>2. 1 - level[p] \in Level
      BY <3>1 DEF Level
    <3> QED
      BY <1>1, <3>2 DEF Edge, TypeOK
  <2>2. age' \in [Pin -> 0..LongAge]
    BY <1>1 DEF Edge, TypeOK, LongAge
  <2>3. latch' \subseteq Pin
    BY <1>1 DEF Edge, TypeOK
  <2> QED
    BY <1>1, <2>1, <2>2, <2>3 DEF Edge, TypeOK, since
<1>2. ASSUME NEW p \in Pin, isrHandler(p)
      PROVE  TypeOK'
  <2>1. latch' \subseteq Pin /\ missed' \subseteq Pin /\ overflow' \in 0..1
    BY <1>2 DEF isrHandler, TypeOK
  <2>2. [pin |-> p, level |-> level[p], millisAtIsr |-> now] \in Transition
    BY DEF TypeOK, Transition
  <2>3. queue' \in Seq(Transition) /\ Len(queue') <= QueueDepth
    <3>1. queue \in Seq(Transition) /\ Len(queue) <= QueueDepth
      BY DEF TypeOK
    <3>2. CASE Len(queue) < QueueDepth
      <4>1. queue' = Append(queue, [pin |-> p, level |-> level[p], millisAtIsr |-> now])
        BY <1>2, <3>2 DEF isrHandler
      <4>2. Len(queue) + 1 <= QueueDepth
        BY <3>1, <3>2
      <4> HIDE <1>2
      <4> QED
        BY <2>2, <3>1, <4>1, <4>2
    <3>3. CASE ~(Len(queue) < QueueDepth)
      BY <1>2, <3>1, <3>3 DEF isrHandler
    <3> QED
      BY <3>2, <3>3
  <2>4. queuedFor' \in Seq(0..Wrap) /\ Len(queuedFor') = Len(queue')
    <3>1. queuedFor \in Seq(0..Wrap) /\ Len(queuedFor) = Len(queue) /\ queue \in Seq(Transition)
      BY DEF TypeOK
    <3>2. CASE Len(queue) < QueueDepth
      <4>1. /\ queuedFor' = Append(queuedFor, 0)
            /\ queue' = Append(queue, [pin |-> p, level |-> level[p], millisAtIsr |-> now])
        BY <1>2, <3>2 DEF isrHandler
      <4> HIDE <1>2
      <4> QED
        BY <2>2, <3>1, <4>1
    <3>3. CASE ~(Len(queue) < QueueDepth)
      BY <1>2, <3>1, <3>3 DEF isrHandler
    <3> QED
      BY <3>2, <3>3
  <2> QED
    BY <1>2, <2>1, <2>3, <2>4 DEF isrHandler, TypeOK, ages
<1>3. CASE Tick
  <2>1. now' \in 0..(Wrap - 1)
    <3>1. now + 1 \in Int
      BY DEF TypeOK
    <3>2. now' = (now + 1) % Wrap
      BY <1>3 DEF Tick
    <3> QED
      BY <3>1, <3>2, ElapsedType
  <2>2. waited' \in 0..Longer(1, MaxBlock)
    BY <1>3 DEF Tick, TypeOK, Longer
  <2>3. age' \in [Pin -> 0..LongAge]
    BY <1>3 DEF Tick, TypeOK, LongAge
  <2>4. stay' \in [Pin -> [Level -> 0..LongAge]]
    <3> SUFFICES ASSUME NEW p \in Pin
                 PROVE  stay'[p] \in [Level -> 0..LongAge]
      BY <1>3 DEF Tick
    <3>1. stay[p] \in [Level -> 0..LongAge] /\ age[p] \in 0..LongAge
          /\ level[p] \in Level
      BY DEF TypeOK
    <3>2. CASE age[p] < LongAge
      <4>1. Longer(stay[p][level[p]], age[p] + 1) \in 0..LongAge
        BY <3>1, <3>2 DEF Longer, LongAge
      <4>2. stay'[p] = [stay[p] EXCEPT ![level[p]] = Longer(@, age[p] + 1)]
        BY <1>3, <3>2 DEF Tick
      <4> QED
        BY <3>1, <4>1, <4>2
    <3>3. CASE ~(age[p] < LongAge)
      BY <1>3, <3>1, <3>3 DEF Tick
    <3> QED
      BY <3>2, <3>3
  <2>5. queuedFor' \in Seq(0..Wrap) /\ Len(queuedFor') = Len(queue')
    <3>1. queuedFor \in Seq(0..Wrap) /\ Len(queuedFor) = Len(queue) /\ queue' = queue
      BY <1>3 DEF Tick, TypeOK, board
    <3>2. queuedFor' = [i \in 1..Len(queuedFor) |-> Older(queuedFor[i])]
      BY <1>3, <3>1 DEF Tick
    <3>3. \A i \in 1..Len(queuedFor) : Older(queuedFor[i]) \in 0..Wrap
      BY <3>1 DEF Older
    <3> HIDE <1>3
    <3> QED
      BY <3>1, <3>2, <3>3
  <2>6. heldFor' \in [Pin -> 0..Wrap]
    BY <1>3 DEF Tick, TypeOK, Older
  <2> QED
    BY <1>3, <2>1, <2>2, <2>3, <2>4, <2>5, <2>6 DEF Tick, TypeOK, board
<1>4. CASE drainPinTransitions
  <2>1. CASE queue = << >>
    BY <1>4, <2>1 DEF drainPinTransitions, TypeOK, ages, since
  <2>2. CASE queue # << >>
    <3>1. Head(queue) \in Transition /\ Tail(queue) \in Seq(Transition)
          /\ Len(Tail(queue)) <= QueueDepth
      BY <2>2 DEF TypeOK
    <3>2. onTransition(debouncer[Head(queue).pin], Head(queue)) \in Debouncer
      BY <3>1 DEF onTransition, Debouncer, Transition
    <3>3. debouncer' \in [Pin -> Debouncer]
      BY <1>4, <2>2, <3>1, <3>2 DEF drainPinTransitions, TypeOK, Transition
    <3>4. queuedFor \in Seq(0..Wrap) /\ queuedFor # << >> /\ Len(queuedFor) = Len(queue)
          /\ queue \in Seq(Transition)
      BY <2>2 DEF TypeOK
    <3>5. queuedFor' \in Seq(0..Wrap) /\ Len(queuedFor') = Len(queue') /\ Head(queuedFor) \in 0..Wrap
      <4>1. queuedFor' = Tail(queuedFor) /\ queue' = Tail(queue)
        BY <1>4, <2>2 DEF drainPinTransitions
      <4> HIDE <1>4
      <4> QED
        BY <2>2, <3>4, <4>1
    <3>6. heldFor' \in [Pin -> 0..Wrap]
      BY <1>4, <2>2, <3>5 DEF drainPinTransitions, TypeOK
    <3> QED
      BY <1>4, <2>2, <3>1, <3>3, <3>5, <3>6 DEF drainPinTransitions, TypeOK, ages
  <2> QED
    BY <2>1, <2>2
<1>5. CASE Poll
  <2>1. debouncer' \in [Pin -> Debouncer]
    <3> SUFFICES ASSUME NEW p \in Pin
                 PROVE  debouncer'[p] \in Debouncer
      BY <1>5 DEF Poll
    <3>1. debouncer[p] \in Debouncer
      BY DEF TypeOK
    <3> QED
      BY <1>5, <3>1 DEF Poll, Debouncer
  <2>2. reported' \in [Pin -> {"START", "END"}]
    BY <1>5, StatusType DEF Poll, TypeOK
  <2>3. stay' \in [Pin -> [Level -> 0..LongAge]]
    BY <1>5 DEF Poll, TypeOK, LongAge
  <2>4. heldFor' \in [Pin -> 0..Wrap]
    BY <1>5 DEF Poll, TypeOK
  <2> QED
    BY <1>5, <2>1, <2>2, <2>3, <2>4 DEF Poll, TypeOK
<1>6. CASE TurnEnds
  BY <1>6 DEF TurnEnds, TypeOK, ages, since, Longer
<1>7. CASE Crash
  <2>1. debouncer' \in [Pin -> Debouncer]
    BY <1>7, IdleType DEF Crash
  <2>2. queue' \in Seq(Transition) /\ Len(queue') <= QueueDepth
    BY <1>7 DEF Crash
  <2>3. latch' \subseteq Pin /\ missed' \subseteq Pin
    BY <1>7, Zenon DEF Crash
  <2>4. overflow' \in 0..1
    BY <1>7 DEF Crash
  <2>5. phase' \in {"drain", "poll", "busy"} /\ up' \in BOOLEAN
    BY <1>7, Zenon DEF Crash
  <2>6. queuedFor' \in Seq(0..Wrap) /\ Len(queuedFor') = Len(queue') /\ heldFor' \in [Pin -> 0..Wrap]
    BY <1>7 DEF Crash
  <2> QED
    BY <1>7, <2>1, <2>2, <2>3, <2>4, <2>5, <2>6 DEF Crash, TypeOK, ages
<1>8. CASE initPinMonitor
  BY <1>8 DEF initPinMonitor, TypeOK, board, since, Longer, LongAge
<1>9. CASE UNCHANGED vars
  BY <1>9 DEF vars, board, ages, since, TypeOK
<1> QED
  BY <1>1, <1>2, <1>3, <1>4, <1>5, <1>6, <1>7, <1>8, <1>9 DEF Next

-----------------------------------------------------------------------------
(* The last change of a pin.                                               *)

\* What concerns p is as it was.
LEMMA Frame ==
  ASSUME NEW p \in Pin, InStep(p), latch' = latch, queue' = queue,
         level' = level, debouncer' = debouncer, reported' = reported
  PROVE  InStep(p)'
BY DEF InStep, LastQueued, NoneQueued

LEMMA EdgeInStep ==
  ASSUME IInv, NEW q \in Pin, Edge(q), NEW p \in Pin, up, p \notin missed
  PROVE  InStep(p)'
<1>1. CASE p = q
  BY <1>1 DEF Edge, InStep
<1>2. CASE p # q
  <2>1. level'[p] = level[p] /\ (p \in latch => p \in latch')
    BY <1>2 DEF Edge, IInv, TypeOK
  <2> QED
    BY <2>1 DEF IInv, Edge, InStep, LastQueued, NoneQueued
<1> QED
  BY <1>1, <1>2

LEMMA IsrInStep ==
  ASSUME IInv, NEW q \in Pin, isrHandler(q), NEW p \in Pin, up, p \notin missed'
  PROVE  InStep(p)'
<1> DEFINE t == [pin |-> q, level |-> level[q], millisAtIsr |-> now]
<1>1. queue \in Seq(Transition)
  BY DEF IInv, TypeOK
<1>2. CASE Len(queue) < QueueDepth
  <2>1. queue' = Append(queue, t)
    BY <1>2 DEF isrHandler
  <2>2. /\ DOMAIN queue' = 1..(Len(queue) + 1)
        /\ queue'[Len(queue) + 1] = t
        /\ \A i \in DOMAIN queue : queue'[i] = queue[i]
    BY <1>1, <2>1
  <2>3. CASE p = q
    <3>1. LastQueued(p)'
      BY <1>1, <2>2, <2>3 DEF LastQueued, isrHandler
    <3> QED
      BY <3>1 DEF InStep
  <2>4. CASE p # q
    <3>1. InStep(p)
      BY <1>2, <2>4 DEF IInv, isrHandler
    <3>2. LastQueued(p) => LastQueued(p)'
      <4> SUFFICES ASSUME LastQueued(p)
                   PROVE  LastQueued(p)'
        OBVIOUS
      <4>1. PICK i \in DOMAIN queue :
              /\ queue[i].pin = p /\ queue[i].level = level[p]
              /\ \A j \in DOMAIN queue : j > i => queue[j].pin # p
        BY DEF LastQueued
      <4>2. i \in DOMAIN queue'
        BY <1>1, <2>2
      <4>3. queue'[i].pin = p /\ queue'[i].level = level'[p]
        BY <2>2, <4>1 DEF isrHandler
      <4>4. \A j \in DOMAIN queue' : j > i => queue'[j].pin # p
        <5> SUFFICES ASSUME NEW j \in DOMAIN queue', j > i
                     PROVE  queue'[j].pin # p
          OBVIOUS
        <5>1. CASE j = Len(queue) + 1
          BY <2>2, <2>4, <5>1
        <5>2. CASE j # Len(queue) + 1
          <6>1. j \in DOMAIN queue
            BY <1>1, <2>2, <5>2
          <6> QED
            BY <2>2, <4>1, <6>1
        <5> QED
          BY <5>1, <5>2
      <4> QED
        BY <4>2, <4>3, <4>4 DEF LastQueued
    <3>3. NoneQueued(p) => NoneQueued(p)'
      <4> SUFFICES ASSUME NoneQueued(p), NEW j \in DOMAIN queue'
                   PROVE  queue'[j].pin # p
        BY DEF NoneQueued
      <4>1. CASE j = Len(queue) + 1
        BY <2>2, <2>4, <4>1
      <4>2. CASE j # Len(queue) + 1
        <5>1. j \in DOMAIN queue
          BY <1>1, <2>2, <4>2
        <5> QED
          BY <2>2, <5>1 DEF NoneQueued
      <4> QED
        BY <4>1, <4>2
    <3>4. /\ p \in latch => p \in latch'
          /\ level' = level /\ debouncer' = debouncer /\ reported' = reported
      BY <2>4 DEF isrHandler
    <3> QED
      BY <3>1, <3>2, <3>3, <3>4 DEF InStep
  <2> QED
    BY <2>3, <2>4
<1>3. CASE ~(Len(queue) < QueueDepth)
  <2>1. p # q /\ p \notin missed
    BY <1>3 DEF isrHandler
  <2>2. InStep(p) /\ (p \in latch => p \in latch')
    BY <2>1 DEF IInv, isrHandler
  <2>3. /\ queue' = queue
        /\ level' = level /\ debouncer' = debouncer /\ reported' = reported
    BY <1>3 DEF isrHandler
  <2> QED
    BY <2>2, <2>3 DEF InStep, LastQueued, NoneQueued
<1> QED
  BY <1>2, <1>3

LEMMA DrainInStep ==
  ASSUME IInv, drainPinTransitions, NEW p \in Pin, up, p \notin missed
  PROVE  InStep(p)'
<1>1. InStep(p)
  BY DEF IInv
<1>2. CASE queue = << >>
  BY <1>1, <1>2, Frame DEF drainPinTransitions
<1>3. CASE queue # << >>
  <2> DEFINE h == Head(queue)
  <2>1. queue \in Seq(Transition) /\ debouncer \in [Pin -> Debouncer]
    BY DEF IInv, TypeOK
  <2>2. /\ queue' = Tail(queue) /\ latch' = latch /\ level' = level
        /\ reported' = reported
        /\ debouncer' = [debouncer EXCEPT ![h.pin] = onTransition(@, h)]
    BY <1>3 DEF drainPinTransitions
  <2>3. /\ 1 \in DOMAIN queue /\ queue[1] = h /\ h \in Transition
        /\ DOMAIN queue' = 1..(Len(queue) - 1)
        /\ \A i \in DOMAIN queue' : i + 1 \in DOMAIN queue /\ queue'[i] = queue[i + 1]
    BY <1>3, <2>1, <2>2
  <2>4. h.pin # p => debouncer'[p] = debouncer[p]
    BY <2>1, <2>2
  <2>5. h.pin = p => debouncer'[p].pending /\ debouncer'[p].level = h.level
    BY <2>1, <2>2 DEF onTransition
  <2>6. NoneQueued(p) => NoneQueued(p)' /\ h.pin # p
    BY <2>3 DEF NoneQueued
  <2>7. CASE LastQueued(p)
    <3>1. PICK i \in DOMAIN queue :
            /\ queue[i].pin = p /\ queue[i].level = level[p]
            /\ \A j \in DOMAIN queue : j > i => queue[j].pin # p
      BY <2>7 DEF LastQueued
    <3>2. CASE i = 1
      <4>1. NoneQueued(p)'
        <5> SUFFICES ASSUME NEW j \in DOMAIN queue'
                     PROVE  queue'[j].pin # p
          BY DEF NoneQueued
        <5>1. j + 1 \in DOMAIN queue /\ j + 1 > i /\ queue'[j] = queue[j + 1]
          BY <2>1, <2>3, <3>2
        <5> QED
          BY <3>1, <5>1
      <4>2. debouncer'[p].pending /\ debouncer'[p].level = level'[p]
        BY <2>2, <2>3, <2>5, <3>1, <3>2
      <4> QED
        BY <4>1, <4>2 DEF InStep
    <3>3. CASE i # 1
      <4>1. i - 1 \in DOMAIN queue' /\ queue'[i - 1] = queue[i]
        <5>1. i - 1 \in DOMAIN queue'
          BY <2>1, <2>3, <3>3
        <5>2. (i - 1) + 1 = i
          BY <2>1
        <5> QED
          BY <2>3, <5>1, <5>2
      <4>2. \A j \in DOMAIN queue' : j > i - 1 => queue'[j].pin # p
        <5> SUFFICES ASSUME NEW j \in DOMAIN queue', j > i - 1
                     PROVE  queue'[j].pin # p
          OBVIOUS
        <5>1. j + 1 \in DOMAIN queue /\ j + 1 > i /\ queue'[j] = queue[j + 1]
          BY <2>1, <2>3
        <5> QED
          BY <3>1, <5>1
      <4>3. queue'[i - 1].pin = p /\ queue'[i - 1].level = level'[p]
        BY <2>2, <3>1, <4>1
      <4>4. LastQueued(p)'
        BY <4>1, <4>2, <4>3 DEF LastQueued
      <4> QED
        BY <4>4 DEF InStep
    <3> QED
      BY <3>2, <3>3
  <2>8. CASE ~LastQueued(p)
    BY <1>1, <2>2, <2>4, <2>6, <2>8 DEF InStep
  <2> QED
    BY <2>7, <2>8
<1> QED
  BY <1>2, <1>3

LEMMA PollInStep ==
  ASSUME IInv, Poll, NEW p \in Pin, up, p \notin missed
  PROVE  InStep(p)'
<1>1. InStep(p)
  BY DEF IInv
<1>2. latch' = latch /\ queue' = queue /\ level' = level
  BY DEF Poll
<1>3. CASE Confirmed(p)
  <2>1. ~debouncer'[p].pending /\ reported'[p] = StatusOf(p, debouncer[p].level)
    BY <1>3 DEF Poll, IInv, TypeOK, Debouncer
  <2>2. debouncer[p].pending
    BY <1>3 DEF Confirmed
  <2>3. LastQueued(p) => LastQueued(p)'
    BY <1>2 DEF LastQueued
  <2>4. NoneQueued(p) => NoneQueued(p)'
    BY <1>2 DEF NoneQueued
  <2> QED
    BY <1>1, <1>2, <2>1, <2>2, <2>3, <2>4 DEF InStep
<1>4. CASE ~Confirmed(p)
  <2>1. debouncer'[p] = debouncer[p] /\ reported'[p] = reported[p]
    BY <1>4 DEF Poll
  <2> QED
    BY <1>1, <1>2, <2>1 DEF InStep, LastQueued, NoneQueued
<1> QED
  BY <1>3, <1>4

-----------------------------------------------------------------------------
(* The invariant.                                                          *)

LEMMA IInvInit == Init => IInv
<1> SUFFICES ASSUME Init
             PROVE  IInv
  OBVIOUS
<1>1. TypeOK
  <2>1. debouncer \in [Pin -> Debouncer] /\ now \in 0..(Wrap - 1)
    BY IdleType DEF Init
  <2>2. queue \in Seq(Transition) /\ Len(queue) <= QueueDepth
    BY PinAssumption DEF Init
  <2>3. waited \in 0..Longer(1, MaxBlock)
    BY PinAssumption DEF Init, Longer
  <2>4. age \in [Pin -> 0..LongAge] /\ stay \in [Pin -> [Level -> 0..LongAge]]
    BY PinAssumption DEF Init, LongAge
  <2>5. level \in [Pin -> Level] /\ reported \in [Pin -> {"START", "END"}]
    BY DEF Init
  <2>6. latch \subseteq Pin /\ missed \subseteq Pin
    BY Zenon DEF Init
  <2>7. overflow \in 0..1
    BY DEF Init
  <2>8. phase \in {"drain", "poll", "busy"} /\ up \in BOOLEAN
    BY Zenon DEF Init
  <2>9. queuedFor \in Seq(0..Wrap) /\ Len(queuedFor) = Len(queue) /\ heldFor \in [Pin -> 0..Wrap]
    BY PinAssumption DEF Init
  <2> QED
    BY <2>1, <2>2, <2>3, <2>4, <2>5, <2>6, <2>7, <2>8, <2>9 DEF TypeOK
<1>2. NothingWhenDown /\ ~up
  BY DEF Init, NothingWhenDown, Idle
<1> QED
  BY <1>1, <1>2 DEF IInv

LEMMA IInvNext == IInv /\ [Next]_vars => IInv'
<1> SUFFICES ASSUME IInv, [Next]_vars
             PROVE  IInv'
  OBVIOUS
<1>1. TypeOK'
  BY TypeStep DEF IInv
<1>2. ASSUME NEW q \in Pin, Edge(q)
      PROVE  IInv'
  <2>1. up' = up /\ missed' = missed
    BY <1>2 DEF Edge
  <2>2. NothingWhenDown'
    BY <1>2, <2>1 DEF IInv, NothingWhenDown, Edge
  <2> QED
    BY <1>1, <1>2, <2>1, <2>2, EdgeInStep DEF IInv
<1>3. ASSUME NEW q \in Pin, isrHandler(q)
      PROVE  IInv'
  <2>1. up' = up /\ up
    BY <1>3 DEF isrHandler, IInv, NothingWhenDown
  <2> QED
    BY <1>1, <1>3, <2>1, IsrInStep DEF IInv, NothingWhenDown
<1>4. CASE Tick
  <2>1. /\ up /\ up' = up /\ missed' = missed /\ latch' = latch /\ queue' = queue
        /\ level' = level /\ debouncer' = debouncer /\ reported' = reported
    BY <1>4 DEF Tick, board
  <2> QED
    BY <1>1, <2>1, Frame DEF IInv, NothingWhenDown
<1>5. CASE drainPinTransitions
  <2>1. up' = up /\ up /\ missed' = missed
    BY <1>5 DEF drainPinTransitions
  <2> QED
    BY <1>1, <1>5, <2>1, DrainInStep DEF IInv, NothingWhenDown
<1>6. CASE Poll
  <2>1. up' = up /\ up /\ missed' = missed
    BY <1>6 DEF Poll
  <2> QED
    BY <1>1, <1>6, <2>1, PollInStep DEF IInv, NothingWhenDown
<1>7. CASE TurnEnds
  <2>1. /\ up /\ up' = up /\ missed' = missed /\ latch' = latch /\ queue' = queue
        /\ level' = level /\ debouncer' = debouncer /\ reported' = reported
    BY <1>7 DEF TurnEnds
  <2> QED
    BY <1>1, <2>1, Frame DEF IInv, NothingWhenDown
<1>8. CASE Crash
  BY <1>1, <1>8 DEF Crash, IInv, NothingWhenDown, Idle
<1>9. CASE initPinMonitor
  <2>1. /\ queue' = << >> /\ \A p \in Pin : ~debouncer'[p].pending
        /\ up' /\ level' = level /\ reported' = reported
        /\ missed' = {p \in Pin : reported[p] # StatusOf(p, level[p])}
    BY <1>9 DEF initPinMonitor, IInv, NothingWhenDown, board
  <2>2. \A p \in Pin : p \notin missed' => InStep(p)'
    BY <2>1 DEF InStep, NoneQueued
  <2> QED
    BY <1>1, <2>1, <2>2 DEF IInv, NothingWhenDown
<1>10. CASE UNCHANGED vars
  <2>1. /\ up' = up /\ missed' = missed /\ latch' = latch /\ queue' = queue
        /\ level' = level /\ debouncer' = debouncer /\ reported' = reported
    BY <1>10 DEF vars, board
  <2> QED
    BY <1>1, <2>1, Frame DEF IInv, NothingWhenDown
<1> QED
  BY <1>2, <1>3, <1>4, <1>5, <1>6, <1>7, <1>8, <1>9, <1>10 DEF Next

\* The pipeline keeps its types, its queue within its depth included, and
\* knows at every moment where the last change of a pin is.
THEOREM PipelineInvariant == Spec => []IInv
<1> QED
  BY IInvInit, IInvNext, PTL DEF Spec

\* In every reachable state the pipeline is well typed and the queue of the
\* interrupt handler within its depth.
THEOREM TypeCorrect == Spec => []TypeOK
<1>1. IInv => TypeOK
  BY DEF IInv
<1> QED
  BY <1>1, PipelineInvariant, PTL

\* For any number of pins that share the queue, whatever its depth, the
\* debounce threshold and the length of a block: a pin nothing is on its way
\* for is in the log as it is on the panel, unless its last change met a full
\* queue or no interrupt.
THEOREM LogFollowsPinsHolds == Spec => []LogFollowsPins
<1>1. IInv => LogFollowsPins
  BY DEF IInv, LogFollowsPins, InStep, LastQueued, Quiet
<1> QED
  BY <1>1, PipelineInvariant, PTL

-----------------------------------------------------------------------------
(* What is reported has been stable.                                       *)

Since(m) == Elapsed(now, m)

Capped(t) == IF t < LongAge THEN t ELSE LongAge

\* No record grows as old as a round of the counter: a poll takes a record
\* out of the debouncer at the threshold, a turn empties the queue.
RecordsYoung ==
  up => /\ phase # "busy" => waited <= 1
        /\ \A p \in Pin : debouncer[p].pending =>
             Since(debouncer[p].millisAtIsr)
               < DebounceTicks + waited + (IF phase = "busy" THEN 0 ELSE MaxBlock)
        /\ \A i \in DOMAIN queue :
             Since(queue[i].millisAtIsr)
               <= waited + (IF phase = "drain" THEN MaxBlock ELSE 0)

\* The last record of p is of level l and of the moment m: p is at l since
\* then, or its next edge is in the latch, and it was at l up to now.
\* (A poll may have forgotten a stay of one tick at most.)
Tracks(p, l, m) ==
  IF p \in latch
  THEN stay[p][l] >= Capped(Since(m)) \/ Since(m) <= 1
  ELSE l = level[p] /\ age[p] = Capped(Since(m)) /\ stay[p][l] >= age[p]

LastOf(p, i) ==
  queue[i].pin = p /\ \A j \in DOMAIN queue : j > i => queue[j].pin # p

Tracked(p) ==
  /\ p \in latch => age[p] = 0
  /\ \A i \in DOMAIN queue :
       LastOf(p, i) => Tracks(p, queue[i].level, queue[i].millisAtIsr)
  /\ NoneQueued(p) /\ debouncer[p].pending =>
       Tracks(p, debouncer[p].level, debouncer[p].millisAtIsr)

\* What is polled has stayed from its record until the queue was empty.
Stayed(p) ==
  phase = "poll" /\ debouncer[p].pending =>
    LET t == Since(debouncer[p].millisAtIsr)
    IN  stay[p][debouncer[p].level] >= Capped(t - waited) \/ t <= 1 + waited

StayInv ==
  /\ RecordsYoung
  /\ up /\ overflow = 0 => \A p \in Pin : Tracked(p) /\ Stayed(p)

LEMMA SinceType ==
  ASSUME NEW t \in 0..(Wrap - 1), NEW m \in 0..(Wrap - 1)
  PROVE  Elapsed(t, m) \in 0..(Wrap - 1)
BY PinAssumption DEF Elapsed

LEMMA SinceSelf ==
  ASSUME NEW t \in 0..(Wrap - 1)
  PROVE  Elapsed(t, t) = 0
BY PinAssumption DEF Elapsed

LEMMA SinceTick ==
  ASSUME NEW t \in 0..(Wrap - 1), NEW m \in 0..(Wrap - 1), Elapsed(t, m) + 1 < Wrap
  PROVE  Elapsed((t + 1) % Wrap, m) = Elapsed(t, m) + 1
<1>1. (t + 1) % Wrap = IF t = Wrap - 1 THEN 0 ELSE t + 1
  BY PinAssumption
<1>2. \A u \in 0..(Wrap - 1) :
        (u - m) % Wrap = IF u >= m THEN u - m ELSE u - m + Wrap
  BY PinAssumption
<1>3. (t + 1) % Wrap \in 0..(Wrap - 1)
  BY <1>1, PinAssumption
<1> QED
  BY <1>1, <1>2, <1>3, PinAssumption DEF Elapsed

\* What TypeOK says of the parts these invariants are about.
LEMMA PipelineTypes ==
  ASSUME TypeOK
  PROVE  /\ now \in 0..(Wrap - 1) /\ waited \in 0..MaxBlock
         /\ \A p \in Pin : /\ debouncer[p].millisAtIsr \in 0..(Wrap - 1)
                          /\ debouncer[p].level \in Level
                          /\ age[p] \in 0..LongAge /\ level[p] \in Level
                          /\ \A l \in Level : stay[p][l] \in 0..LongAge
         /\ queue \in Seq(Transition) /\ DOMAIN queue = 1..Len(queue) /\ Len(queue) \in Nat
         /\ \A i \in DOMAIN queue : /\ queue[i].millisAtIsr \in 0..(Wrap - 1)
                                   /\ queue[i].level \in Level /\ queue[i].pin \in Pin
         /\ DebounceTicks \in Nat \ {0} /\ MaxBlock \in Nat \ {0} /\ LongAge \in Nat
<1> USE PinAssumption
<1>1. now \in 0..(Wrap - 1) /\ waited \in 0..MaxBlock
  BY DEF TypeOK, Longer
<1>2. ASSUME NEW p \in Pin
      PROVE  /\ debouncer[p].millisAtIsr \in 0..(Wrap - 1) /\ debouncer[p].level \in Level
             /\ age[p] \in 0..LongAge /\ level[p] \in Level
             /\ \A l \in Level : stay[p][l] \in 0..LongAge
  BY DEF TypeOK, Debouncer
<1>3. queue \in Seq(Transition) /\ DOMAIN queue = 1..Len(queue) /\ Len(queue) \in Nat
  BY DEF TypeOK
<1>4. ASSUME NEW i \in DOMAIN queue PROVE queue[i] \in Transition
  BY <1>3
<1> QED
  BY <1>1, <1>2, <1>3, <1>4 DEF Transition, LongAge

-----------------------------------------------------------------------------
(* Records are young.                                                      *)

LEMMA YoungStep == TypeOK /\ NothingWhenDown /\ RecordsYoung /\ [Next]_vars => RecordsYoung'
<1> SUFFICES ASSUME TypeOK, NothingWhenDown, RecordsYoung, [Next]_vars, up'
             PROVE  RecordsYoung'
  BY DEF RecordsYoung
<1>0. /\ now \in 0..(Wrap - 1) /\ waited \in 0..MaxBlock
      /\ DebounceTicks \in Nat \ {0} /\ MaxBlock \in Nat \ {0}
      /\ Wrap \in Nat /\ Wrap > DebounceTicks + MaxBlock + 1
  BY PipelineTypes, PinAssumption
<1>1. /\ \A p \in Pin : Since(debouncer[p].millisAtIsr) \in 0..(Wrap - 1)
      /\ \A i \in DOMAIN queue : Since(queue[i].millisAtIsr) \in 0..(Wrap - 1)
  BY PipelineTypes, SinceType DEF Since
<1>2. ASSUME up, UNCHANGED <<up, now, waited, phase, debouncer, queue>>
      PROVE  RecordsYoung'
  BY <1>2 DEF RecordsYoung, Since
<1>3. ASSUME NEW q \in Pin, Edge(q) PROVE RecordsYoung'
  BY <1>2, <1>3 DEF Edge
<1>4. ASSUME NEW q \in Pin, isrHandler(q) PROVE RecordsYoung'
  <2>0. up /\ UNCHANGED <<up, now, waited, phase, debouncer>>
    BY <1>4 DEF isrHandler, NothingWhenDown
  <2>1. CASE UNCHANGED queue
    BY <1>2, <2>0, <2>1
  <2>2. CASE Len(queue) < QueueDepth
    <3> DEFINE t == [pin |-> q, level |-> level[q], millisAtIsr |-> now]
    <3>1. queue' = Append(queue, t)
      BY <1>4, <2>2 DEF isrHandler
    <3>2. /\ DOMAIN queue' = 1..(Len(queue) + 1) /\ DOMAIN queue = 1..Len(queue)
          /\ Len(queue) \in Nat
          /\ queue'[Len(queue) + 1] = t
          /\ \A i \in DOMAIN queue : queue'[i] = queue[i]
      BY <3>1, PipelineTypes
    <3>3. Since(t.millisAtIsr) = 0
      BY <1>0, SinceSelf DEF Since
    <3>4. ASSUME NEW i \in DOMAIN queue'
          PROVE  Since(queue'[i].millisAtIsr) <= waited + (IF phase = "drain" THEN MaxBlock ELSE 0)
      <4>1. CASE i = Len(queue) + 1
        BY <1>0, <3>2, <3>3, <4>1
      <4>2. CASE i # Len(queue) + 1
        <5>1. i \in DOMAIN queue
          BY <3>2, <4>2
        <5> QED
          BY <2>0, <3>2, <5>1 DEF RecordsYoung
      <4> QED
        BY <4>1, <4>2
    <3> HIDE DEF t
    <3> QED
      BY <2>0, <3>4 DEF RecordsYoung, Since
  <2> QED
    BY <1>4, <2>1, <2>2 DEF isrHandler
<1>5. CASE Tick
  <2>1. /\ up /\ waited' = waited + 1 /\ now' = (now + 1) % Wrap
        /\ waited < IF phase = "busy" THEN MaxBlock ELSE 1
        /\ phase' = phase /\ debouncer' = debouncer /\ queue' = queue
    BY <1>5 DEF Tick, board
  <2>2. ASSUME NEW m \in 0..(Wrap - 1), Since(m) + 1 < Wrap
        PROVE  Since(m)' = Since(m) + 1
    BY <1>0, <2>1, <2>2, SinceTick DEF Since
  <2>3. ASSUME NEW p \in Pin, debouncer[p].pending
        PROVE  Since(debouncer[p].millisAtIsr)'
                 < DebounceTicks + waited' + (IF phase = "busy" THEN 0 ELSE MaxBlock)
    <3>1. Since(debouncer[p].millisAtIsr)
            < DebounceTicks + waited + (IF phase = "busy" THEN 0 ELSE MaxBlock)
      BY <2>1, <2>3 DEF RecordsYoung
    <3>2. Since(debouncer[p].millisAtIsr) + 1 < Wrap
      BY <1>0, <1>1, <2>1, <3>1
    <3>3. Since(debouncer[p].millisAtIsr)' = Since(debouncer[p].millisAtIsr) + 1
      BY <2>1, <3>2, PipelineTypes, SinceTick, <1>0 DEF Since
    <3> QED
      BY <1>0, <1>1, <2>1, <3>1, <3>3
  <2>4. ASSUME NEW i \in DOMAIN queue
        PROVE  Since(queue[i].millisAtIsr)'
                 <= waited' + (IF phase = "drain" THEN MaxBlock ELSE 0)
    <3>1. Since(queue[i].millisAtIsr) <= waited + (IF phase = "drain" THEN MaxBlock ELSE 0)
      BY <2>1 DEF RecordsYoung
    <3>2. Since(queue[i].millisAtIsr) + 1 < Wrap
      BY <1>0, <1>1, <2>1, <3>1
    <3>3. Since(queue[i].millisAtIsr)' = Since(queue[i].millisAtIsr) + 1
      BY <2>1, <3>2, PipelineTypes, SinceTick, <1>0 DEF Since
    <3> QED
      BY <1>0, <1>1, <2>1, <3>1, <3>3
  <2> QED
    BY <1>0, <2>1, <2>3, <2>4 DEF RecordsYoung
<1>6. CASE drainPinTransitions
  <2>0. /\ up /\ phase = "drain" /\ now' = now /\ waited' = waited
    BY <1>6 DEF drainPinTransitions
  <2>1. CASE queue = << >>
    BY <1>6, <2>0, <2>1 DEF drainPinTransitions, RecordsYoung, Since
  <2>2. CASE queue # << >>
    <3>1. /\ queue' = Tail(queue) /\ phase' = phase
          /\ debouncer' = [debouncer EXCEPT ![Head(queue).pin] = onTransition(@, Head(queue))]
      BY <1>6, <2>2 DEF drainPinTransitions
    <3>2. /\ 1 \in DOMAIN queue /\ Head(queue) = queue[1]
          /\ \A i \in DOMAIN queue' : i + 1 \in DOMAIN queue /\ queue'[i] = queue[i + 1]
      BY <2>2, <3>1, PipelineTypes
    <3>3. ASSUME NEW i \in DOMAIN queue'
          PROVE  Since(queue'[i].millisAtIsr) <= waited + MaxBlock
      BY <2>0, <3>2 DEF RecordsYoung
    <3>4. ASSUME NEW p \in Pin, debouncer'[p].pending
          PROVE  Since(debouncer'[p].millisAtIsr) < DebounceTicks + waited + MaxBlock
      <4>1. CASE p = queue[1].pin
        <5>1. debouncer'[p].millisAtIsr = queue[1].millisAtIsr
          BY <3>1, <3>2, <4>1 DEF onTransition, TypeOK
        <5>2. Since(queue[1].millisAtIsr) <= waited + MaxBlock
          BY <2>0, <3>2 DEF RecordsYoung
        <5> QED
          BY <1>0, <1>1, <3>2, <5>1, <5>2
      <4>2. CASE p # queue[1].pin
        <5>1. debouncer'[p] = debouncer[p]
          BY <3>1, <3>2, <4>2 DEF TypeOK
        <5> QED
          BY <2>0, <3>4, <5>1 DEF RecordsYoung
      <4> QED
        BY <4>1, <4>2
    <3> QED
      BY <2>0, <3>1, <3>3, <3>4 DEF RecordsYoung, Since
  <2> QED
    BY <2>1, <2>2
<1>7. CASE Poll
  <2>0. /\ up /\ phase = "poll" /\ phase' = "busy" /\ UNCHANGED <<now, waited, queue>>
        /\ debouncer' = [p \in Pin |-> IF Confirmed(p)
                                       THEN [debouncer[p] EXCEPT !.pending = FALSE]
                                       ELSE debouncer[p]]
    BY <1>7 DEF Poll
  <2>1. ASSUME NEW p \in Pin, debouncer'[p].pending
        PROVE  Since(debouncer'[p].millisAtIsr) < DebounceTicks + waited
    <3>1. ~Confirmed(p) /\ debouncer'[p] = debouncer[p]
      <4>1. Confirmed(p) => ~debouncer'[p].pending
        BY <2>0 DEF TypeOK, Debouncer
      <4> QED
        BY <2>0, <2>1, <4>1
    <3>2. ~(Since(debouncer[p].millisAtIsr) >= DebounceTicks)
      BY <2>1, <3>1 DEF Confirmed, Since, nowMillis
    <3> QED
      BY <1>0, <1>1, <3>1, <3>2
  <2>2. \A i \in DOMAIN queue : Since(queue[i].millisAtIsr) <= waited
    BY <1>0, <1>1, <2>0 DEF RecordsYoung
  <2> QED
    BY <1>0, <1>1, <2>0, <2>1, <2>2 DEF RecordsYoung, Since
<1>8. CASE TurnEnds
  <2>0. /\ up /\ phase = "busy" /\ phase' = "drain" /\ waited' = 0
        /\ UNCHANGED <<now, queue, debouncer>>
    BY <1>8 DEF TurnEnds
  <2>1. /\ \A p \in Pin : debouncer[p].pending =>
             Since(debouncer[p].millisAtIsr) < DebounceTicks + waited
        /\ \A i \in DOMAIN queue : Since(queue[i].millisAtIsr) <= waited
    BY <1>0, <2>0 DEF RecordsYoung
  <2> QED
    BY <1>0, <1>1, <2>0, <2>1 DEF RecordsYoung, Since
<1>9. CASE Crash
  BY <1>9 DEF Crash
<1>10. CASE initPinMonitor
  BY <1>10 DEF initPinMonitor, board, NothingWhenDown, RecordsYoung
<1>11. CASE UNCHANGED vars
  BY <1>2, <1>11 DEF vars, board
<1> QED
  BY <1>3, <1>4, <1>5, <1>6, <1>7, <1>8, <1>9, <1>10, <1>11 DEF Next

-----------------------------------------------------------------------------
(* Where the records are, the pin was.                                     *)

\* Nothing has happened to p.
LEMMA TrackedFrame ==
  ASSUME NEW p \in Pin, Tracked(p), UNCHANGED <<now, queue>>,
         level'[p] = level[p], age'[p] = age[p], stay'[p] = stay[p],
         debouncer'[p] = debouncer[p], p \in latch' <=> p \in latch
  PROVE  Tracked(p)'
BY DEF Tracked, Tracks, LastOf, NoneQueued, Since

LEMMA StayedFrame ==
  ASSUME NEW p \in Pin, Stayed(p), phase' = phase, UNCHANGED <<now, waited>>,
         stay'[p] = stay[p], debouncer'[p] = debouncer[p]
  PROVE  Stayed(p)'
BY DEF Stayed, Since

\* Tracks, after the step, of a record of before it.
TracksThen(p, l, m) ==
  IF p \in latch'
  THEN stay'[p][l] >= Capped(Elapsed(now', m)) \/ Elapsed(now', m) <= 1
  ELSE l = level'[p] /\ age'[p] = Capped(Elapsed(now', m)) /\ stay'[p][l] >= age'[p]

LEMMA TrackedThen ==
  ASSUME NEW p \in Pin, p \in latch' => age'[p] = 0,
         \A i \in DOMAIN queue' :
           LastOf(p, i)' => TracksThen(p, queue'[i].level, queue'[i].millisAtIsr),
         NoneQueued(p)' /\ debouncer'[p].pending =>
           TracksThen(p, debouncer'[p].level, debouncer'[p].millisAtIsr)
  PROVE  Tracked(p)'
BY DEF Tracked, Tracks, TracksThen, Since

\* As long as time stands still and the levels are the same.
LEMMA TracksStill ==
  ASSUME NEW p \in Pin, NEW l, NEW m, Tracks(p, l, m), now' = now, level'[p] = level[p],
         age'[p] = age[p], stay'[p] = stay[p], p \in latch' <=> p \in latch
  PROVE  TracksThen(p, l, m)
BY DEF Tracks, TracksThen, Since

LEMMA EdgeTracked ==
  ASSUME TypeOK, NEW q \in Pin, Edge(q), NEW p \in Pin, up, Tracked(p)
  PROVE  Tracked(p)'
<1>1. /\ UNCHANGED <<now, queue, debouncer, stay>> /\ latch' = latch \cup {q}
      /\ level' = [level EXCEPT ![q] = 1 - @] /\ age' = [age EXCEPT ![q] = 0]
  BY DEF Edge
<1>2. CASE p = q
  <2>1. p \in latch' /\ age'[p] = 0
    BY <1>1, <1>2 DEF TypeOK
  <2>2. ASSUME NEW l \in Level, NEW m \in 0..(Wrap - 1), Tracks(p, l, m)
        PROVE  TracksThen(p, l, m)
    BY <1>1, <2>1, <2>2 DEF Tracks, TracksThen, Since
  <2>3. \A i \in DOMAIN queue : LastOf(p, i)' => LastOf(p, i)
    BY <1>1 DEF LastOf
  <2>4. NoneQueued(p)' => NoneQueued(p)
    BY <1>1 DEF NoneQueued
  <2> QED
    BY <1>1, <2>1, <2>2, <2>3, <2>4, PipelineTypes, TrackedThen DEF Tracked
<1>3. CASE p # q
  BY <1>1, <1>3, TrackedFrame DEF TypeOK
<1> QED
  BY <1>2, <1>3

LEMMA IsrTracked ==
  ASSUME TypeOK, NEW q \in Pin, isrHandler(q), overflow' = 0,
         NEW p \in Pin, Tracked(p)
  PROVE  Tracked(p)'
<1> DEFINE t == [pin |-> q, level |-> level[q], millisAtIsr |-> now]
           n == Len(queue) + 1
<1>1. /\ q \in latch /\ latch' = latch \ {q} /\ queue' = Append(queue, t)
      /\ UNCHANGED <<level, now, debouncer, age, stay>>
  BY DEF isrHandler, ages
<1>2. /\ DOMAIN queue' = 1..n /\ DOMAIN queue = 1..Len(queue) /\ Len(queue) \in Nat
      /\ queue'[n] = t
      /\ \A i \in DOMAIN queue : i \in DOMAIN queue' /\ n > i /\ queue'[i] = queue[i]
      /\ \A i \in DOMAIN queue' : i = n \/ i \in DOMAIN queue
  BY <1>1, PipelineTypes
<1>n. n \in DOMAIN queue'
  BY <1>2
<1>3. t.pin = q /\ t.level = level[q] /\ t.millisAtIsr = now
  OBVIOUS
<1> HIDE DEF t, n
<1>4. CASE p = q
  <2>1. TracksThen(p, t.level, t.millisAtIsr)
    <3>1. p \notin latch' /\ Elapsed(now, now) = 0 /\ age[p] = 0
      BY <1>1, <1>4, SinceSelf, PipelineTypes DEF Tracked
    <3>2. Capped(0) = 0 /\ stay[p][level[p]] >= 0
      BY PipelineTypes, PinAssumption DEF Capped, LongAge
    <3> QED
      BY <1>1, <1>3, <1>4, <3>1, <3>2 DEF TracksThen
  <2>2. ASSUME NEW i \in DOMAIN queue', LastOf(p, i)' PROVE i = n
    <3>1. n \in DOMAIN queue' /\ queue'[n].pin = p
      BY <1>2, <1>3, <1>4, <1>n
    <3> QED
      BY <1>2, <2>2, <3>1 DEF LastOf
  <2>3. ~NoneQueued(p)'
    BY <1>2, <1>3, <1>4, <1>n DEF NoneQueued
  <2>4. p \notin latch'
    BY <1>1, <1>4
  <2>5. \A i \in DOMAIN queue' :
          LastOf(p, i)' => TracksThen(p, queue'[i].level, queue'[i].millisAtIsr)
    BY <1>2, <2>1, <2>2
  <2> QED
    BY <2>3, <2>4, <2>5, TrackedThen
<1>5. CASE p # q
  <2>1. p \in latch' <=> p \in latch
    BY <1>1, <1>5
  <2>2. ASSUME NEW l \in Level, NEW m \in 0..(Wrap - 1), Tracks(p, l, m)
        PROVE  TracksThen(p, l, m)
    BY <1>1, <2>1, <2>2, TracksStill
  <2>3. ASSUME NEW i \in DOMAIN queue', LastOf(p, i)'
        PROVE  i \in DOMAIN queue /\ LastOf(p, i) /\ queue'[i] = queue[i]
    <3>1. i # n
      BY <1>2, <1>3, <1>5, <2>3 DEF LastOf
    <3> QED
      BY <1>2, <2>3, <3>1 DEF LastOf
  <2>4. NoneQueued(p)' => NoneQueued(p)
    BY <1>2 DEF NoneQueued
  <2>5. ASSUME NEW i \in DOMAIN queue', LastOf(p, i)'
        PROVE  TracksThen(p, queue'[i].level, queue'[i].millisAtIsr)
    <3>1. Tracks(p, queue[i].level, queue[i].millisAtIsr)
      BY <2>3, <2>5 DEF Tracked
    <3> QED
      BY <2>2, <2>3, <2>5, <3>1, PipelineTypes
  <2>6. NoneQueued(p)' /\ debouncer'[p].pending =>
          TracksThen(p, debouncer'[p].level, debouncer'[p].millisAtIsr)
    BY <1>1, <2>2, <2>4, PipelineTypes DEF Tracked
  <2>7. p \in latch' => age'[p] = 0
    BY <1>1, <2>1 DEF Tracked
  <2> QED
    BY <2>5, <2>6, <2>7, TrackedThen
<1> QED
  BY <1>4, <1>5

LEMMA DrainTracked ==
  ASSUME TypeOK, drainPinTransitions, queue # << >>, NEW p \in Pin, Tracked(p)
  PROVE  Tracked(p)'
<1> DEFINE h == Head(queue)
<1>1. /\ queue' = Tail(queue)
      /\ debouncer' = [debouncer EXCEPT ![h.pin] = onTransition(@, h)]
      /\ UNCHANGED <<level, latch, now, age, stay>>
  BY DEF drainPinTransitions, ages
<1>2. /\ 1 \in DOMAIN queue /\ queue[1] = h
      /\ DOMAIN queue = 1..Len(queue) /\ DOMAIN queue' = 1..(Len(queue) - 1)
      /\ Len(queue) \in Nat
      /\ \A i \in DOMAIN queue' : i + 1 \in DOMAIN queue /\ queue'[i] = queue[i + 1]
  BY <1>1, PipelineTypes
<1>3. ASSUME NEW l \in Level, NEW m \in 0..(Wrap - 1), Tracks(p, l, m)
      PROVE  TracksThen(p, l, m)
  BY <1>1, <1>3, TracksStill
<1>4. ASSUME NEW j \in DOMAIN queue, j > 1
      PROVE  j - 1 \in DOMAIN queue' /\ queue'[j - 1] = queue[j]
  <2>1. j - 1 \in DOMAIN queue' /\ (j - 1) + 1 = j
    BY <1>2, <1>4
  <2> QED
    BY <1>2, <2>1
<1> HIDE DEF h
<1>5. ASSUME NEW i \in DOMAIN queue', LastOf(p, i)'
      PROVE  TracksThen(p, queue'[i].level, queue'[i].millisAtIsr)
  <2>1. LastOf(p, i + 1)
    <3> SUFFICES ASSUME NEW j \in DOMAIN queue, j > i + 1 PROVE queue[j].pin # p
      BY <1>2, <1>5 DEF LastOf
    <3>1. j > 1 /\ j - 1 > i
      BY <1>2
    <3> QED
      BY <1>4, <1>5, <3>1 DEF LastOf
  <2>2. Tracks(p, queue[i + 1].level, queue[i + 1].millisAtIsr)
    BY <1>2, <2>1 DEF Tracked
  <2> QED
    BY <1>2, <1>3, <2>2, PipelineTypes
<1>6. ASSUME NoneQueued(p)', debouncer'[p].pending
      PROVE  TracksThen(p, debouncer'[p].level, debouncer'[p].millisAtIsr)
  <2>1. ASSUME NEW j \in DOMAIN queue, j > 1 PROVE queue[j].pin # p
    BY <1>4, <1>6, <2>1 DEF NoneQueued
  <2>2. CASE h.pin = p
    <3>1. LastOf(p, 1)
      BY <1>2, <2>1, <2>2 DEF LastOf
    <3>2. Tracks(p, h.level, h.millisAtIsr)
      BY <1>2, <3>1 DEF Tracked
    <3>3. debouncer'[p].level = h.level /\ debouncer'[p].millisAtIsr = h.millisAtIsr
      BY <1>1, <2>2 DEF onTransition, TypeOK
    <3> QED
      BY <1>2, <1>3, <3>2, <3>3, PipelineTypes
  <2>3. CASE h.pin # p
    <3>1. NoneQueued(p)
      BY <1>2, <2>1, <2>3 DEF NoneQueued
    <3>2. debouncer'[p] = debouncer[p]
      BY <1>1, <2>3 DEF TypeOK
    <3>3. Tracks(p, debouncer[p].level, debouncer[p].millisAtIsr)
      BY <1>6, <3>1, <3>2 DEF Tracked
    <3> QED
      BY <1>3, <3>2, <3>3, PipelineTypes
  <2> QED
    BY <2>2, <2>3
<1>7. p \in latch' => age'[p] = 0
  BY <1>1 DEF Tracked
<1> QED
  BY <1>5, <1>6, <1>7, TrackedThen

\* The queue is empty: what is in the debouncers is all there is.
LEMMA DrainedStayed ==
  ASSUME TypeOK, drainPinTransitions, queue = << >>, NEW p \in Pin, Tracked(p)
  PROVE  Tracked(p)' /\ Stayed(p)'
<1>1. UNCHANGED <<level, latch, now, age, stay, queue, debouncer, waited>>
  BY DEF drainPinTransitions, ages
<1>2. Tracked(p)'
  BY <1>1, TrackedFrame
<1>3. ASSUME debouncer[p].pending
      PROVE  LET t == Since(debouncer[p].millisAtIsr)
             IN  stay[p][debouncer[p].level] >= Capped(t - waited) \/ t <= 1 + waited
  <2> DEFINE t == Since(debouncer[p].millisAtIsr)
             u == stay[p][debouncer[p].level]
  <2>1. NoneQueued(p)
    BY DEF NoneQueued
  <2>2. t \in Nat /\ waited \in Nat /\ u \in Nat /\ LongAge \in Nat
    <3>1. t \in 0..(Wrap - 1)
      BY PipelineTypes, SinceType DEF Since
    <3> QED
      BY <3>1, PipelineTypes
  <2>3. u >= Capped(t) \/ t <= 1
    <3>1. Tracks(p, debouncer[p].level, debouncer[p].millisAtIsr)
      BY <1>3, <2>1 DEF Tracked
    <3> QED
      BY <3>1 DEF Tracks
  <2> HIDE DEF t, u
  <2>4. u >= Capped(t - waited) \/ t <= 1 + waited
    BY <2>2, <2>3 DEF Capped
  <2> QED
    BY <2>4 DEF t, u
<1> QED
  BY <1>1, <1>2, <1>3 DEF Stayed, Since

LEMMA TickTracked ==
  ASSUME TypeOK, RecordsYoung, Tick, NEW p \in Pin, Tracked(p), Stayed(p)
  PROVE  Tracked(p)' /\ Stayed(p)'
<1>0. /\ up /\ latch = {} /\ latch' = {} /\ waited' = waited + 1 /\ now' = (now + 1) % Wrap
      /\ waited < IF phase = "busy" THEN MaxBlock ELSE 1
      /\ phase' = phase /\ UNCHANGED <<queue, debouncer, level>>
      /\ age'[p] = IF age[p] < LongAge THEN age[p] + 1 ELSE LongAge
      /\ stay'[p] = IF age[p] < LongAge
                    THEN [stay[p] EXCEPT ![level[p]] = Longer(@, age[p] + 1)]
                    ELSE stay[p]
  BY DEF Tick, board
<1>1. /\ age[p] \in 0..LongAge /\ level[p] \in Level /\ LongAge \in Nat
      /\ waited \in 0..MaxBlock /\ MaxBlock \in Nat \ {0} /\ DebounceTicks \in Nat \ {0}
      /\ now \in 0..(Wrap - 1) /\ Wrap \in Nat /\ Wrap > DebounceTicks + MaxBlock + 1
      /\ stay[p] \in [Level -> 0..LongAge]
  BY PipelineTypes, PinAssumption DEF TypeOK
<1>2. ASSUME NEW l \in Level
      PROVE  /\ stay'[p][l] >= stay[p][l] /\ stay'[p][l] \in Nat /\ stay[p][l] \in Nat
             /\ l = level[p] /\ stay[p][l] >= age[p] => stay'[p][l] >= age'[p]
  <2>1. CASE age[p] < LongAge
    <3>1. stay'[p][l] = IF l = level[p] THEN Longer(stay[p][l], age[p] + 1) ELSE stay[p][l]
      BY <1>0, <1>1, <2>1
    <3> QED
      BY <1>0, <1>1, <2>1, <3>1 DEF Longer
  <2>2. CASE ~(age[p] < LongAge)
    BY <1>0, <1>1, <2>2
  <2> QED
    BY <2>1, <2>2
<1>3. ASSUME NEW m \in 0..(Wrap - 1), Since(m) + 1 < Wrap
      PROVE  Since(m) \in Nat /\ Elapsed(now', m) = Since(m) + 1
  <2>1. Elapsed(now, m) \in 0..(Wrap - 1)
    BY <1>1, SinceType
  <2> QED
    BY <1>0, <1>1, <1>3, <2>1, SinceTick DEF Since
<1>4. ASSUME NEW l \in Level, NEW m \in 0..(Wrap - 1), Since(m) + 1 < Wrap, Tracks(p, l, m)
      PROVE  TracksThen(p, l, m)
  <2>1. l = level[p] /\ age[p] = Capped(Since(m)) /\ stay[p][l] >= age[p]
    BY <1>0, <1>4 DEF Tracks
  <2>2. age'[p] = Capped(Elapsed(now', m))
    BY <1>0, <1>1, <1>3, <1>4, <2>1 DEF Capped
  <2> QED
    BY <1>0, <1>2, <2>1, <2>2 DEF TracksThen
<1>5. ASSUME NEW i \in DOMAIN queue
      PROVE  queue[i].millisAtIsr \in 0..(Wrap - 1) /\ Since(queue[i].millisAtIsr) + 1 < Wrap
  <2>1. Since(queue[i].millisAtIsr) <= waited + (IF phase = "drain" THEN MaxBlock ELSE 0)
    BY <1>0 DEF RecordsYoung
  <2>2. Since(queue[i].millisAtIsr) \in 0..(Wrap - 1)
    BY PipelineTypes, SinceType DEF Since
  <2> QED
    BY <1>0, <1>1, <2>1, <2>2, PipelineTypes
<1>6. ASSUME debouncer[p].pending
      PROVE  /\ debouncer[p].millisAtIsr \in 0..(Wrap - 1)
             /\ Since(debouncer[p].millisAtIsr) + 1 < Wrap
  <2>1. Since(debouncer[p].millisAtIsr)
          < DebounceTicks + waited + (IF phase = "busy" THEN 0 ELSE MaxBlock)
    BY <1>0, <1>6 DEF RecordsYoung
  <2>2. Since(debouncer[p].millisAtIsr) \in 0..(Wrap - 1)
    BY PipelineTypes, SinceType DEF Since
  <2> QED
    BY <1>0, <1>1, <2>1, <2>2, PipelineTypes
<1>7. Tracked(p)'
  <2>1. ASSUME NEW i \in DOMAIN queue, LastOf(p, i)
        PROVE  TracksThen(p, queue[i].level, queue[i].millisAtIsr)
    BY <1>4, <1>5, <2>1, PipelineTypes DEF Tracked
  <2>2. NoneQueued(p) /\ debouncer[p].pending =>
          TracksThen(p, debouncer[p].level, debouncer[p].millisAtIsr)
    BY <1>4, <1>6, PipelineTypes DEF Tracked
  <2>3. \A i \in DOMAIN queue : LastOf(p, i)' => LastOf(p, i)
    BY <1>0 DEF LastOf
  <2>4. NoneQueued(p)' => NoneQueued(p)
    BY <1>0 DEF NoneQueued
  <2> QED
    BY <1>0, <2>1, <2>2, <2>3, <2>4, TrackedThen
<1>8. Stayed(p)'
  <2> SUFFICES ASSUME phase = "poll", debouncer[p].pending
               PROVE  LET t == Since(debouncer[p].millisAtIsr)'
                      IN  stay'[p][debouncer[p].level] >= Capped(t - waited') \/ t <= 1 + waited'
    BY <1>0 DEF Stayed, Since
  <2>1. LET t == Since(debouncer[p].millisAtIsr)
        IN  stay[p][debouncer[p].level] >= Capped(t - waited) \/ t <= 1 + waited
    BY DEF Stayed
  <2>2. Since(debouncer[p].millisAtIsr)' = Since(debouncer[p].millisAtIsr) + 1
        /\ Since(debouncer[p].millisAtIsr) \in Nat
    <3>1. Since(debouncer[p].millisAtIsr) \in Nat
      BY <1>3, <1>6
    <3> QED
      BY <1>0, <1>1, <1>6, <3>1, SinceTick DEF Since
  <2>3. /\ stay'[p][debouncer[p].level] >= stay[p][debouncer[p].level]
        /\ stay'[p][debouncer[p].level] \in Nat /\ stay[p][debouncer[p].level] \in Nat
    BY <1>2, PipelineTypes
  <2> QED
    BY <1>0, <1>1, <2>1, <2>2, <2>3 DEF Capped
<1> QED
  BY <1>7, <1>8

LEMMA PollTracked ==
  ASSUME TypeOK, RecordsYoung, Poll, NEW p \in Pin, Tracked(p)
  PROVE  Tracked(p)'
<1>1. /\ up /\ phase = "poll" /\ UNCHANGED <<now, queue, latch, level, age>>
      /\ debouncer'[p] = IF Confirmed(p) THEN [debouncer[p] EXCEPT !.pending = FALSE]
                         ELSE debouncer[p]
      /\ stay'[p] = IF Confirmed(p)
                    THEN [l \in Level |-> IF l = level[p] THEN age[p] ELSE 0]
                    ELSE stay[p]
  BY DEF Poll
<1>2. CASE ~Confirmed(p)
  BY <1>1, <1>2, TrackedFrame
<1>3. CASE Confirmed(p)
  <2>1. ~debouncer'[p].pending
    BY <1>1, <1>3 DEF TypeOK, Debouncer
  <2>2. ASSUME NEW i \in DOMAIN queue, LastOf(p, i)
        PROVE  Tracks(p, queue[i].level, queue[i].millisAtIsr)'
    <3>1. Tracks(p, queue[i].level, queue[i].millisAtIsr)
      BY <2>2 DEF Tracked
    <3>2. CASE p \in latch
      <4>1. Since(queue[i].millisAtIsr) <= waited + 0 /\ waited <= 1
        BY <1>1 DEF RecordsYoung
      <4>2. Since(queue[i].millisAtIsr) \in 0..(Wrap - 1) /\ waited \in 0..MaxBlock
        BY PipelineTypes, SinceType DEF Since
      <4>3. Since(queue[i].millisAtIsr) <= 1
        BY <4>1, <4>2, PinAssumption
      <4> QED
        BY <1>1, <3>2, <4>3 DEF Tracks, Since
    <3>3. CASE p \notin latch
      <4>1. queue[i].level = level[p] /\ age[p] = Capped(Since(queue[i].millisAtIsr))
        BY <3>1, <3>3 DEF Tracks
      <4>2. stay'[p][level[p]] >= age[p]
        BY <1>1, <1>3, PipelineTypes
      <4> QED
        BY <1>1, <3>3, <4>1, <4>2 DEF Tracks, Since
    <3> QED
      BY <3>2, <3>3
  <2>3. \A i \in DOMAIN queue : LastOf(p, i)' => LastOf(p, i)
    BY <1>1 DEF LastOf
  <2> QED
    BY <1>1, <2>1, <2>2, <2>3 DEF Tracked, Tracks, Since
<1> QED
  BY <1>2, <1>3

LEMMA StayInvInit == Init => StayInv
BY DEF Init, StayInv, RecordsYoung

LEMMA StayInvNext == IInv /\ StayInv /\ [Next]_vars => StayInv'
<1> SUFFICES ASSUME IInv, StayInv, [Next]_vars PROVE StayInv'
  OBVIOUS
<1>1. TypeOK /\ NothingWhenDown /\ RecordsYoung
  BY DEF IInv, StayInv
<1>2. RecordsYoung'
  BY <1>1, YoungStep
<1> SUFFICES ASSUME up', overflow' = 0, NEW p \in Pin
             PROVE  Tracked(p)' /\ Stayed(p)'
  BY <1>2 DEF StayInv
<1>3. up /\ overflow = 0 => Tracked(p) /\ Stayed(p)
  BY DEF StayInv
<1>4. ASSUME NEW q \in Pin, Edge(q) PROVE Tracked(p)' /\ Stayed(p)'
  <2>1. up /\ overflow = 0 /\ phase' = phase /\ UNCHANGED <<now, waited, stay, debouncer>>
    BY <1>4 DEF Edge
  <2> QED
    BY <1>1, <1>3, <1>4, <2>1, EdgeTracked, StayedFrame
<1>5. ASSUME NEW q \in Pin, isrHandler(q) PROVE Tracked(p)' /\ Stayed(p)'
  <2>1. up /\ overflow = 0 /\ phase' = phase /\ UNCHANGED <<now, waited, stay, debouncer>>
    BY <1>1, <1>5 DEF isrHandler, NothingWhenDown, ages
  <2> QED
    BY <1>1, <1>3, <1>5, <2>1, IsrTracked, StayedFrame
<1>6. CASE Tick
  <2>1. up /\ overflow = 0
    BY <1>6 DEF Tick, board
  <2> QED
    BY <1>1, <1>3, <1>6, <2>1, TickTracked
<1>7. CASE drainPinTransitions
  <2>1. up /\ overflow = 0
    BY <1>7 DEF drainPinTransitions
  <2>2. CASE queue = << >>
    BY <1>1, <1>3, <1>7, <2>1, <2>2, DrainedStayed
  <2>3. CASE queue # << >>
    <3>1. phase' = "drain"
      BY <1>7, <2>3 DEF drainPinTransitions
    <3> QED
      BY <1>1, <1>3, <1>7, <2>1, <2>3, <3>1, DrainTracked DEF Stayed
  <2> QED
    BY <2>2, <2>3
<1>8. CASE Poll
  <2>1. up /\ overflow = 0 /\ phase' = "busy"
    BY <1>8 DEF Poll
  <2> QED
    BY <1>1, <1>3, <1>8, <2>1, PollTracked DEF Stayed
<1>9. CASE TurnEnds
  <2>1. /\ up /\ overflow = 0 /\ phase' = "drain"
        /\ UNCHANGED <<level, latch, queue, now, debouncer, age, stay>>
    BY <1>9 DEF TurnEnds, ages
  <2> QED
    BY <1>3, <2>1, TrackedFrame DEF Stayed
<1>10. CASE Crash
  BY <1>10 DEF Crash
<1>11. CASE initPinMonitor
  <2>1. latch' = {} /\ queue' = << >> /\ ~debouncer'[p].pending
    BY <1>1, <1>11 DEF initPinMonitor, board, NothingWhenDown
  <2> QED
    BY <2>1 DEF Tracked, Stayed
<1>12. CASE UNCHANGED vars
  <2>1. /\ up /\ overflow = 0 /\ phase' = phase
        /\ UNCHANGED <<level, latch, queue, now, debouncer, age, stay, waited>>
    BY <1>12 DEF vars, board, ages
  <2> QED
    BY <1>3, <2>1, TrackedFrame, StayedFrame
<1> QED
  BY <1>4, <1>5, <1>6, <1>7, <1>8, <1>9, <1>10, <1>11, <1>12 DEF Next

\* With a threshold of more than two ticks (kPinDebounceMs is 300 of them)
\* nothing is reported that the pin has not been for the threshold, less the
\* tick a drain may take: for any number of pins that bounce into a queue
\* that has not been full, turns that block for any while, and wherever
\* millis() wraps.  (At a threshold of two the tick of one drain and that of
\* the poll before it add up to the whole of it.)
THEOREM OnlyStableReportedHolds ==
  ASSUME DebounceTicks > 2
  PROVE  Spec => OnlyStableReported
<1> DEFINE Stable == \A p \in Pin : Confirms(p) /\ overflow = 0
                       => stay[p][debouncer[p].level] >= DebounceTicks - 1
<1>1. IInv /\ StayInv /\ [Next]_vars => [Stable]_vars
  <2> SUFFICES ASSUME IInv, StayInv, [Next]_vars, NEW p \in Pin,
                      Confirms(p), overflow = 0
               PROVE  stay[p][debouncer[p].level] >= DebounceTicks - 1
    OBVIOUS
  <2>0. phase = "poll" /\ up' /\ debouncer[p].pending /\ ~debouncer'[p].pending
    BY DEF Confirms
  <2>1. CASE Poll
    <3> DEFINE t == Since(debouncer[p].millisAtIsr)
               u == stay[p][debouncer[p].level]
    <3>1. Confirmed(p) /\ up
      BY <2>0, <2>1 DEF Poll
    <3>2. t >= DebounceTicks
      BY <3>1 DEF Confirmed, Since, nowMillis
    <3>3. u >= Capped(t - waited) \/ t <= 1 + waited
      BY <2>0, <3>1 DEF StayInv, Stayed
    <3>4. waited <= 1
      BY <2>0, <3>1 DEF StayInv, RecordsYoung
    <3>5. t \in Nat /\ u \in Nat /\ waited \in Nat /\ DebounceTicks \in Nat
      <4>1. TypeOK
        BY DEF IInv
      <4>2. t \in 0..(Wrap - 1)
        BY <4>1, PipelineTypes, SinceType DEF Since
      <4> QED
        BY <4>1, <4>2, PipelineTypes
    <3> HIDE DEF t, u
    <3>6. u >= DebounceTicks - 1
      BY <3>2, <3>3, <3>4, <3>5 DEF Capped, LongAge
    <3> QED
      BY <3>6 DEF u
  <2>2. CASE ~Poll
    <3>1. TypeOK /\ NothingWhenDown
      BY DEF IInv
    <3>2. drainPinTransitions => FALSE
      BY <2>0 DEF drainPinTransitions
    <3>3. Crash \/ initPinMonitor => FALSE
      BY <2>0, <3>1 DEF Crash, initPinMonitor, NothingWhenDown
    <3>4. debouncer' # debouncer
      BY <2>0
    <3> QED
      BY <2>2, <3>2, <3>3, <3>4 DEF Next, vars, board, Edge, isrHandler, Tick, TurnEnds
  <2> QED
    BY <2>1, <2>2
<1> QED
  BY <1>1, PipelineInvariant, StayInvInit, StayInvNext, PTL DEF Spec, OnlyStableReported

-----------------------------------------------------------------------------
(* The date of an event.                                                   *)

LEMMA Division ==
  ASSUME NEW t \in Int, NEW n \in Nat \ {0}
  PROVE  /\ t \div n \in Int /\ t % n \in 0..(n - 1)
         /\ t = n * (t \div n) + (t % n)
         /\ t \in Nat => t \div n \in Nat
<1>1. t \div n \in Int
  OBVIOUS
<1>2. t % n \in Nat /\ t % n < n
  OBVIOUS
<1>3. t = n * (t \div n) + (t % n)
  OBVIOUS
<1>4. t \in Nat => t \div n \in Nat
  OBVIOUS
<1> QED
  BY <1>1, <1>2, <1>3, <1>4

LEMMA SmallFactor ==
  ASSUME NEW d \in Int, NEW n \in Nat \ {0}, n * d > -n, n * d < 2 * n
  PROVE  d \in {0, 1}
<1>1. CASE d >= 2
  <2>1. n * (d - 2) >= 0
    BY <1>1
  <2> QED
    BY <2>1
<1>2. CASE d <= -1
  <2>1. n * (-1 - d) >= 0
    BY <1>2
  <2> QED
    BY <2>1
<1> QED
  BY <1>1, <1>2

LEMMA QuotientOfSum ==
  ASSUME NEW n \in Nat \ {0}, NEW q1 \in Int, NEW q2 \in Int, NEW q3 \in Int,
         NEW r1 \in 0..(n - 1), NEW r2 \in 0..(n - 1), NEW r3 \in 0..(n - 1),
         (n * q1 + r1) + (n * q2 + r2) = n * q3 + r3
  PROVE  q3 - q1 - q2 \in {0, 1}
<1> DEFINE d == q3 - q1 - q2
<1>1. d \in Int /\ n * d = n * q3 - n * q1 - n * q2
  OBVIOUS
<1>2. n * q1 \in Int /\ n * q2 \in Int /\ n * q3 \in Int
  OBVIOUS
<1>3. n * d = r1 + r2 - r3
  BY <1>1, <1>2
<1> HIDE DEF d
<1>4. n * d > -n /\ n * d < 2 * n
  BY <1>1, <1>3
<1>5. d \in {0, 1}
  BY <1>1, <1>4, SmallFactor
<1> QED
  BY <1>5 DEF d

\* The seconds of a sum are those of its parts, and one more at most.
LEMMA SecondsOfSum ==
  ASSUME NEW a \in Int, NEW b \in Int, NEW n \in Nat \ {0}
  PROVE  (a + b) \div n - a \div n - b \div n \in {0, 1}
<1>1. a \div n \in Int /\ a % n \in 0..(n - 1) /\ a = n * (a \div n) + (a % n)
  BY Division
<1>2. b \div n \in Int /\ b % n \in 0..(n - 1) /\ b = n * (b \div n) + (b % n)
  BY Division
<1> DEFINE c == a + b
<1>3. c \in Int
  OBVIOUS
<1> HIDE DEF c
<1>4. c \div n \in Int /\ c % n \in 0..(n - 1) /\ c = n * (c \div n) + (c % n)
  BY <1>3, Division
<1>5. (n * (a \div n) + (a % n)) + (n * (b \div n) + (b % n)) = n * (c \div n) + (c % n)
  BY <1>1, <1>2, <1>4 DEF c
<1> QED
  BY <1>1, <1>2, <1>4, <1>5, QuotientOfSum DEF c

\* Whole rounds make no difference to a remainder.
LEMMA WholeRounds ==
  ASSUME NEW n \in Nat \ {0}, NEW x \in Int, NEW q \in Int, NEW y \in Int, y = x + n * q
  PROVE  y % n = x % n
<1> DEFINE qx == x \div n
           rx == x % n
           qy == y \div n
           ry == y % n
<1>1. qx \in Int /\ rx \in 0..(n - 1) /\ x = n * qx + rx
  BY Division
<1>2. qy \in Int /\ ry \in 0..(n - 1) /\ y = n * qy + ry
  BY Division
<1> HIDE DEF qx, rx, qy, ry
<1> DEFINE d == qx + q - qy
<1>3. d \in Int /\ n * d = n * qx + n * q - n * qy
  BY <1>1, <1>2
<1>4. n * qx \in Int /\ n * q \in Int /\ n * qy \in Int
  BY <1>1, <1>2
<1>5. n * d = ry - rx
  BY <1>1, <1>2, <1>3, <1>4
<1> HIDE DEF d
<1>6. n * d > -n /\ n * d < n /\ n * d < 2 * n
  BY <1>1, <1>2, <1>5
<1>7. d \in {0, 1}
  BY <1>3, <1>6, SmallFactor
<1>8. ry = rx
  BY <1>1, <1>2, <1>5, <1>6, <1>7
<1> QED
  BY <1>8 DEF rx, ry

\* What arithmetic modulo n does to a - d, a second at most from b.
LEMMA NearModulo ==
  ASSUME NEW n \in Nat, n > 1, NEW a \in Int, NEW d \in Int, NEW b \in Int,
         a - d - b \in {0, 1}
  PROVE  ((((a % n) - d) % n) - (b % n)) % n \in {0, 1}
<1> DEFINE m == a - d
           k == a - d - b
<1>0. n \in Nat \ {0} /\ m \in Int /\ k \in Int
  OBVIOUS
<1>1. /\ a \div n \in Int /\ a % n \in Int /\ a = n * (a \div n) + (a % n)
      /\ b \div n \in Int /\ b % n \in Int /\ b = n * (b \div n) + (b % n)
  BY <1>0, Division
<1>2. ((a % n) - d) % n = m % n
  <2>1. (a % n) - d \in Int /\ -(a \div n) \in Int
    BY <1>1
  <2>2. (a % n) - d = m + n * (-(a \div n))
    BY <1>0, <1>1
  <2> HIDE DEF m
  <2> QED
    BY <1>0, <2>1, <2>2, WholeRounds
<1>3. m \div n \in Int /\ m % n \in Int /\ m = n * (m \div n) + (m % n)
  <2> HIDE DEF m
  <2> QED
    BY <1>0, Division
<1>4. ((m % n) - (b % n)) % n = k % n
  <2> DEFINE q == b \div n - m \div n
           u == (m % n) - (b % n)
  <2>1. u \in Int /\ q \in Int
    BY <1>1, <1>3
  <2>2. n * q = n * (b \div n) - n * (m \div n)
    BY <1>0, <1>1, <1>3
  <2>3. u = k + n * q
    <3>1. n * (b \div n) \in Int /\ n * (m \div n) \in Int /\ k = m - b
      BY <1>0, <1>1, <1>3
    <3> HIDE DEF q, m, k
    <3> QED
      BY <1>0, <1>1, <1>3, <2>1, <2>2, <3>1
  <2> HIDE DEF q, m, k, u
  <2>4. u % n = k % n
    BY <1>0, <2>1, <2>3, WholeRounds
  <2> QED
    BY <2>4 DEF u
<1>5. k % n \in {0, 1}
  BY <1>0
<1> QED
  BY <1>2, <1>4, <1>5

Epoch(x) == x % EpochWrap

LEMMA NearEpoch ==
  ASSUME NEW a \in Int, NEW d \in Int, NEW b \in Int, a - d - b \in {0, 1}
  PROVE  Epoch(Epoch(Epoch(a) - d) - Epoch(b)) \in {0, 1}
<1>1. EpochWrap \in Nat /\ EpochWrap > 1
  BY PinAssumption
<1> QED
  BY <1>1, NearModulo DEF Epoch

\* The history variables hold what differences of readings of millis() say.
AgesTrue ==
  /\ \A i \in DOMAIN queue : queuedFor[i] = Since(queue[i].millisAtIsr)
  /\ \A p \in Pin : debouncer[p].pending => heldFor[p] = Since(debouncer[p].millisAtIsr)

LEMMA AgesStep ==
  TypeOK /\ NothingWhenDown /\ RecordsYoung /\ AgesTrue /\ [Next]_vars => AgesTrue'
<1> SUFFICES ASSUME TypeOK, NothingWhenDown, RecordsYoung, AgesTrue, [Next]_vars
             PROVE  AgesTrue'
  OBVIOUS
<1>0. /\ now \in 0..(Wrap - 1) /\ waited \in 0..MaxBlock
      /\ DebounceTicks \in Nat \ {0} /\ MaxBlock \in Nat \ {0}
      /\ Wrap \in Nat /\ Wrap > DebounceTicks + MaxBlock + 1
  BY PipelineTypes, PinAssumption
<1>1. /\ queuedFor \in Seq(0..Wrap) /\ Len(queuedFor) = Len(queue)
      /\ queue \in Seq(Transition) /\ heldFor \in [Pin -> 0..Wrap]
      /\ DOMAIN queuedFor = DOMAIN queue
  BY DEF TypeOK
<1>2. CASE UNCHANGED <<now, queue, debouncer, since>>
  BY <1>2 DEF AgesTrue, Since, since
<1>3. ASSUME NEW q \in Pin, isrHandler(q), Len(queue) < QueueDepth PROVE AgesTrue'
  <2> DEFINE t == [pin |-> q, level |-> level[q], millisAtIsr |-> now]
  <2>1. /\ queue' = Append(queue, t) /\ queuedFor' = Append(queuedFor, 0)
        /\ UNCHANGED <<now, debouncer, heldFor>>
    BY <1>3 DEF isrHandler
  <2>2. t.millisAtIsr = now
    OBVIOUS
  <2> HIDE DEF t
  <2>3. /\ DOMAIN queue' = 1..(Len(queue) + 1) /\ DOMAIN queue = 1..Len(queue)
        /\ Len(queue) \in Nat
        /\ queue'[Len(queue) + 1] = t /\ queuedFor'[Len(queue) + 1] = 0
        /\ \A i \in DOMAIN queue : queue'[i] = queue[i] /\ queuedFor'[i] = queuedFor[i]
    BY <1>1, <2>1
  <2>4. ASSUME NEW i \in DOMAIN queue'
        PROVE  queuedFor'[i] = Elapsed(now, queue'[i].millisAtIsr)
    <3>1. CASE i = Len(queue) + 1
      BY <1>0, <2>2, <2>3, <3>1, SinceSelf
    <3>2. CASE i \in DOMAIN queue
      BY <2>3, <3>2 DEF AgesTrue, Since
    <3> QED
      BY <2>3, <3>1, <3>2
  <2> QED
    BY <2>1, <2>4 DEF AgesTrue, Since
<1>4. CASE Tick
  <2>1. /\ up /\ now' = (now + 1) % Wrap
        /\ waited < IF phase = "busy" THEN MaxBlock ELSE 1
        /\ debouncer' = debouncer /\ queue' = queue
        /\ queuedFor' = [i \in DOMAIN queuedFor |-> Older(queuedFor[i])]
        /\ heldFor' = [p \in Pin |-> IF debouncer[p].pending THEN Older(heldFor[p]) ELSE 0]
    BY <1>4 DEF Tick, board
  <2>2. ASSUME NEW m \in 0..(Wrap - 1), Since(m) + 1 < Wrap
        PROVE  Elapsed(now', m) = Older(Since(m))
    BY <1>0, <2>1, <2>2, SinceTick, SinceType DEF Since, Older
  <2>3. ASSUME NEW i \in DOMAIN queue
        PROVE  Since(queue[i].millisAtIsr) + 1 < Wrap
    <3>1. Since(queue[i].millisAtIsr) <= waited + (IF phase = "drain" THEN MaxBlock ELSE 0)
      BY <2>1 DEF RecordsYoung
    <3>2. Since(queue[i].millisAtIsr) \in 0..(Wrap - 1)
      BY PipelineTypes, SinceType DEF Since
    <3> QED
      BY <1>0, <2>1, <3>1, <3>2
  <2>4. ASSUME NEW p \in Pin, debouncer[p].pending
        PROVE  Since(debouncer[p].millisAtIsr) + 1 < Wrap
    <3>1. Since(debouncer[p].millisAtIsr)
            < DebounceTicks + waited + (IF phase = "busy" THEN 0 ELSE MaxBlock)
      BY <2>1, <2>4 DEF RecordsYoung
    <3>2. Since(debouncer[p].millisAtIsr) \in 0..(Wrap - 1)
      BY PipelineTypes, SinceType DEF Since
    <3> QED
      BY <1>0, <2>1, <3>1, <3>2
  <2>5. ASSUME NEW i \in DOMAIN queue
        PROVE  queuedFor'[i] = Elapsed(now', queue[i].millisAtIsr)
    BY <1>1, <2>1, <2>2, <2>3, PipelineTypes DEF AgesTrue
  <2>6. ASSUME NEW p \in Pin, debouncer[p].pending
        PROVE  heldFor'[p] = Elapsed(now', debouncer[p].millisAtIsr)
    BY <2>1, <2>2, <2>4, <2>6, PipelineTypes DEF AgesTrue
  <2> QED
    BY <2>1, <2>5, <2>6 DEF AgesTrue, Since
<1>5. CASE drainPinTransitions /\ queue # << >>
  <2> DEFINE h == Head(queue)
  <2>1. /\ queue' = Tail(queue) /\ queuedFor' = Tail(queuedFor) /\ now' = now
        /\ debouncer' = [debouncer EXCEPT ![h.pin] = onTransition(@, h)]
        /\ heldFor' = [heldFor EXCEPT ![h.pin] = Head(queuedFor)]
    BY <1>5 DEF drainPinTransitions
  <2>2. /\ 1 \in DOMAIN queue /\ h = queue[1] /\ Head(queuedFor) = queuedFor[1]
        /\ \A i \in DOMAIN queue' : /\ i + 1 \in DOMAIN queue
                                   /\ queue'[i] = queue[i + 1]
                                   /\ queuedFor'[i] = queuedFor[i + 1]
    BY <1>1, <1>5, <2>1
  <2> HIDE DEF h
  <2>3. \A i \in DOMAIN queue' : queuedFor'[i] = Elapsed(now, queue'[i].millisAtIsr)
    BY <2>2 DEF AgesTrue, Since
  <2>4. ASSUME NEW p \in Pin, debouncer'[p].pending
        PROVE  heldFor'[p] = Elapsed(now, debouncer'[p].millisAtIsr)
    <3>1. CASE p = h.pin
      <4>1. heldFor'[p] = queuedFor[1] /\ debouncer'[p].millisAtIsr = queue[1].millisAtIsr
        BY <1>1, <2>1, <2>2, <3>1 DEF onTransition, TypeOK
      <4> QED
        BY <2>2, <4>1 DEF AgesTrue, Since
    <3>2. CASE p # h.pin
      <4>1. heldFor'[p] = heldFor[p] /\ debouncer'[p] = debouncer[p]
        BY <1>1, <2>1, <3>2 DEF TypeOK
      <4> QED
        BY <2>4, <4>1 DEF AgesTrue, Since
    <3> QED
      BY <3>1, <3>2
  <2> QED
    BY <2>1, <2>3, <2>4 DEF AgesTrue, Since
<1>6. CASE Poll
  <2>1. /\ UNCHANGED <<now, queue, queuedFor>>
        /\ \A p \in Pin : IF Confirmed(p) THEN ~debouncer'[p].pending
                          ELSE debouncer'[p] = debouncer[p] /\ heldFor'[p] = heldFor[p]
    BY <1>6 DEF Poll, TypeOK, Debouncer
  <2> QED
    BY <2>1 DEF AgesTrue, Since
<1>7. CASE Crash
  BY <1>7 DEF Crash, AgesTrue, Idle
<1>8. CASE initPinMonitor
  <2>1. queue' = << >> /\ \A p \in Pin : ~debouncer'[p].pending
    BY <1>8 DEF initPinMonitor, NothingWhenDown, board
  <2> QED
    BY <2>1 DEF AgesTrue
<1>9. CASE ~(UNCHANGED <<now, queue, debouncer, since>>)
  <2>1. \A q \in Pin : ~Edge(q)
    BY <1>9 DEF Edge
  <2>2. ASSUME NEW q \in Pin, isrHandler(q) PROVE Len(queue) < QueueDepth
    BY <1>9, <2>2 DEF isrHandler, since
  <2>3. drainPinTransitions => queue # << >>
    BY <1>9 DEF drainPinTransitions
  <2>4. ~TurnEnds /\ ~(UNCHANGED vars)
    BY <1>9 DEF TurnEnds, vars, board
  <2> QED
    BY <1>3, <1>4, <1>5, <1>6, <1>7, <1>8, <2>1, <2>2, <2>3, <2>4 DEF Next
<1> QED
  BY <1>2, <1>9

\* An event is dated by the moment of its interrupt, to a second, at every
\* poll that confirms one: however long the loop was blocked before, wherever
\* millis() and the epoch have wrapped, and whether or not a second divides
\* the round of either.  Records are young, so a difference of readings is
\* the time that has passed; the rest is arithmetic.
THEOREM DatedAtEdgeHolds == Spec => []DatedAtEdge
<1> DEFINE Inv == IInv /\ RecordsYoung /\ AgesTrue
<1>1. Init => Inv
  BY IInvInit DEF Init, RecordsYoung, AgesTrue, Idle
<1>2. Inv /\ [Next]_vars => Inv'
  BY IInvNext, YoungStep, AgesStep DEF IInv
<1>3. Inv => DatedAtEdge
  <2> SUFFICES ASSUME TypeOK, AgesTrue, NEW p \in Pin, Confirmed(p),
                      NEW isr, isr = debouncer[p].millisAtIsr
               PROVE  /\ \A time \in 0..(EpochWrap * TicksPerSecond - 1) :
                           (computeRetroactiveTimestamp(systemEpoch(time + heldFor[p]), nowMillis, isr)
                              - systemEpoch(time)) % EpochWrap \in {0, 1}
                      /\ \A anchor \in 0..(EpochWrap - 1) : isr <= nowMillis =>
                           (computeRetroactiveTimestamp(estimateTimestamp(anchor, nowMillis),
                                                        nowMillis, isr)
                              - estimateTimestamp(anchor, isr)) % EpochWrap \in {0, 1}
    BY DEF DatedAtEdge, IInv
  <2> DEFINE n == TicksPerSecond
             h == Elapsed(now, isr)
  <2>0. /\ n \in Nat \ {0} /\ EpochWrap \in Nat /\ EpochWrap > 1 /\ Wrap \in Nat \ {0}
        /\ now \in 0..(Wrap - 1) /\ isr \in 0..(Wrap - 1)
    BY PipelineTypes, PinAssumption
  <2>1. heldFor[p] = h /\ nowMillis = now
    BY DEF AgesTrue, Confirmed, Since, nowMillis
  <2>2. h \in Nat /\ (isr <= now => isr + h = now) /\ isr \in Int /\ now \in Int
    BY <2>0 DEF Elapsed
  <2> HIDE DEF n, h
  <2> DEFINE hs == h \div n
             is == isr \div n
             ns == now \div n
  <2>3. hs \in Int /\ is \in Int /\ ns \in Int
    <3>1. h \in Int
      BY <2>2
    <3> QED
      BY <2>0, <2>2, <3>1, Division
  <2>4. isr <= now => ns - is - hs \in {0, 1}
    <3>1. h \in Int
      BY <2>2
    <3>2. (isr + h) \div n - is - hs \in {0, 1}
      BY <2>0, <2>2, <3>1, SecondsOfSum, Zenon
    <3> QED
      BY <2>2, <3>2
  <2>5. ASSUME NEW time \in 0..(EpochWrap * TicksPerSecond - 1)
        PROVE  (computeRetroactiveTimestamp(systemEpoch(time + heldFor[p]), nowMillis, isr)
                  - systemEpoch(time)) % EpochWrap \in {0, 1}
    <3> DEFINE a == (time + h) \div n
               b == time \div n
    <3>1. time \in Int /\ time + h \in Int
      BY <2>0, <2>2 DEF n
    <3>2. a \in Int /\ b \in Int
      BY <2>0, <3>1, Division
    <3>3. a - b - hs \in {0, 1}
      BY <2>0, <2>2, <3>1, SecondsOfSum
    <3> HIDE DEF a, b, hs
    <3>4. a - hs - b \in {0, 1}
      BY <2>3, <3>2, <3>3
    <3>5. Epoch(Epoch(Epoch(a) - hs) - Epoch(b)) \in {0, 1}
      BY <2>3, <3>2, <3>4, NearEpoch
    <3>6. systemEpoch(time + heldFor[p]) = Epoch(a) /\ systemEpoch(time) = Epoch(b)
      BY <2>1, Zenon DEF systemEpoch, Epoch, a, b, n
    <3>7. computeRetroactiveTimestamp(Epoch(a), nowMillis, isr) = Epoch(Epoch(a) - hs)
      BY <2>1, Zenon DEF computeRetroactiveTimestamp, Epoch, hs, h, n
    <3>8. (Epoch(Epoch(a) - hs) - Epoch(b)) % EpochWrap \in {0, 1}
      BY <3>5, Zenon DEF Epoch
    <3> QED
      BY <3>6, <3>7, <3>8, Zenon
  <2>6. ASSUME NEW anchor \in 0..(EpochWrap - 1), isr <= nowMillis
        PROVE  (computeRetroactiveTimestamp(estimateTimestamp(anchor, nowMillis), nowMillis, isr)
                  - estimateTimestamp(anchor, isr)) % EpochWrap \in {0, 1}
    <3> DEFINE a == anchor + ns
               b == anchor + is
    <3>1. a - hs - b \in {0, 1} /\ a \in Int /\ b \in Int
      <4> HIDE DEF hs, is, ns
      <4> QED
        BY <2>0, <2>1, <2>3, <2>4, <2>6
    <3> HIDE DEF a, b, hs
    <3>2. Epoch(Epoch(Epoch(a) - hs) - Epoch(b)) \in {0, 1}
      BY <2>3, <3>1, NearEpoch
    <3>3. estimateTimestamp(anchor, nowMillis) = Epoch(a) /\ estimateTimestamp(anchor, isr) = Epoch(b)
      BY <2>1, Zenon DEF estimateTimestamp, Epoch, a, b, n
    <3>4. computeRetroactiveTimestamp(Epoch(a), nowMillis, isr) = Epoch(Epoch(a) - hs)
      BY <2>1, Zenon DEF computeRetroactiveTimestamp, Epoch, hs, h, n
    <3>5. (Epoch(Epoch(a) - hs) - Epoch(b)) % EpochWrap \in {0, 1}
      BY <3>2, Zenon DEF Epoch
    <3> QED
      BY <3>3, <3>4, <3>5, Zenon
  <2> QED
    BY <2>5, <2>6
<1> QED
  BY <1>1, <1>2, <1>3, PTL DEF Spec
=============================================================================
