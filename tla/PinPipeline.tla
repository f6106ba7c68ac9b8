---------------------------- MODULE PinPipeline ----------------------------
(***************************************************************************)
(* From a contact of the alarm panel to the log: the interrupt handler,    *)
(* its queue, the debouncers and the turn of the main loop that drains and *)
(* polls them.  PinMonitor.cpp, PinDebounce.cpp, EventTiming.cpp, loop of  *)
(* the sketch.                                                             *)
(*                                                                         *)
(* A turn drains the queue, reads the clock, polls every debouncer, and    *)
(* then talks to the network for as long as the watchdog allows.  Time is  *)
(* counted in ticks, a few to the debounce threshold; it stands still      *)
(* while an interrupt waits for its handler.                               *)
(***************************************************************************)
EXTENDS Integers, Sequences

CONSTANTS
  Pin,             \* entries of EVENT_TYPES with a pin
  ActiveLow,       \* those with active_low
  QueueDepth,      \* kQueueDepth
  DebounceTicks,   \* kPinDebounceMs
  TicksPerSecond,  \* 1000 for a tick of a millisecond
  Wrap,            \* 2^32: millis() counts modulo Wrap
  EpochWrap,       \* 2^32: epochs are seconds modulo EpochWrap
  MaxBlock         \* the watchdog ends a longer turn

ASSUME PinAssumption ==
  /\ ActiveLow \subseteq Pin
  /\ QueueDepth \in Nat \ {0}
  /\ DebounceTicks \in Nat \ {0}
  /\ TicksPerSecond \in Nat \ {0}
  /\ MaxBlock \in Nat \ {0}
  /\ Wrap \in Nat /\ Wrap > DebounceTicks + MaxBlock + 1
  /\ EpochWrap \in Nat /\ EpochWrap > 1

VARIABLES
  level,      \* of each pin
  up,         \* the board runs, interrupts attached
  latch,      \* pins whose interrupt has not been handled yet
  queue,      \* g_queue
  overflow,   \* g_overflowCount, up to 1
  now,        \* millis()
  debouncer,  \* g_debouncers
  phase,      \* where the loop is: "drain", "poll", or "busy" with the rest
  reported,   \* the last status logAndNotifyEvent was called with; in the log
  (* History variables: nothing in the code reads them. *)
  waited,     \* ticks since the turn began
  missed,     \* pins whose last change no interrupt has seen or queued
  age,        \* ticks since the last edge of the pin, up to LongAge
  stay,       \* the longest a pin has been at a level since it was reported
  queuedFor,  \* ticks since the interrupt of each record of the queue,
  heldFor     \* and of the record a debouncer holds, both up to Wrap

board == <<latch, queue, overflow, debouncer, phase>>
ages == <<age, stay>>
since == <<queuedFor, heldFor>>
vars == <<level, up, board, now, reported, waited, missed, ages, since>>

Level == {0, 1}
Transition == [pin : Pin, level : Level, millisAtIsr : 0..(Wrap - 1)]
Debouncer == [pending : BOOLEAN, level : Level, millisAtIsr : 0..(Wrap - 1)]
Idle == [pending |-> FALSE, level |-> 0, millisAtIsr |-> 0]
LongAge == DebounceTicks + 1

Longer(a, b) == IF a > b THEN a ELSE b
Older(n) == IF n < Wrap THEN n + 1 ELSE Wrap

-----------------------------------------------------------------------------
(* Pure functions.                                                         *)

resolvePinEventStatus(l, activeLow) == IF (l = 0) = activeLow THEN "START" ELSE "END"

StatusOf(p, l) == resolvePinEventStatus(l, p \in ActiveLow)

\* A 32-bit difference of two readings of millis().
Elapsed(t, isr) == (t - isr) % Wrap

\* currentEpoch with the time synchronized: time(), at a time counted in
\* ticks,
systemEpoch(time) == (time \div TicksPerSecond) % EpochWrap

\* and without: the stored anchor and the seconds of millis().  With millis()
\* it goes back to the anchor at the end of a round of the counter.
estimateTimestamp(anchor, t) == (anchor + t \div TicksPerSecond) % EpochWrap

\* Mutant: the event is dated when it is processed.
computeRetroactiveTimestamp_Now(epoch, t, isr) == epoch

computeRetroactiveTimestamp(epoch, t, isr) ==
  (epoch - Elapsed(t, isr) \div TicksPerSecond) % EpochWrap

\* Mutant: the clock is read before the queue is drained.
nowMillis_BeforeDrain == (now - waited) % Wrap

nowMillis == now

\* Mutant: the first transition of a burst wins.
onTransition_KeepsFirst(d, t) ==
  IF d.pending THEN d
  ELSE [pending |-> TRUE, level |-> t.level, millisAtIsr |-> t.millisAtIsr]

\* PinDebouncer::onTransition: the last transition wins.
onTransition(d, t) ==
  [pending |-> TRUE, level |-> t.level, millisAtIsr |-> t.millisAtIsr]

\* Mutant: the readings of millis() are compared, not their difference.
Confirmed_NoWrap(p) ==
  /\ debouncer[p].pending
  /\ nowMillis >= debouncer[p].millisAtIsr + DebounceTicks

\* PinDebouncer::poll returns true.
Confirmed(p) ==
  /\ debouncer[p].pending
  /\ Elapsed(nowMillis, debouncer[p].millisAtIsr) >= DebounceTicks

-----------------------------------------------------------------------------
(* The panel, the time and the interrupt handler.                          *)

\* A contact opens or closes.  A bounce faster than a tick is over before
\* the handler reads the pin.
Edge(p) ==
  /\ up => age[p] > 0 \/ p \in latch
  /\ level' = [level EXCEPT ![p] = 1 - @]
  /\ latch' = IF up THEN latch \cup {p} ELSE latch
  /\ age' = [age EXCEPT ![p] = 0]
  /\ UNCHANGED <<up, queue, overflow, now, debouncer, phase, reported, waited, missed, stay,
                 since>>

\* isrHandler: the level is read when the handler runs; what does not fit
\* into the queue is counted and dropped.
isrHandler(p) ==
  LET t == [pin |-> p, level |-> level[p], millisAtIsr |-> now]
  IN  /\ p \in latch
      /\ latch' = latch \ {p}
      /\ IF Len(queue) < QueueDepth
         THEN /\ queue' = Append(queue, t) /\ queuedFor' = Append(queuedFor, 0)
              /\ missed' = missed \ {p}
              /\ UNCHANGED overflow
         ELSE /\ overflow' = 1 /\ missed' = missed \cup {p}
              /\ UNCHANGED <<queue, queuedFor>>
      /\ UNCHANGED <<level, up, now, debouncer, phase, reported, waited, ages, heldFor>>

\* Between its start and the polls a turn takes next to no time.
Tick ==
  /\ up /\ latch = {}
  /\ waited < IF phase = "busy" THEN MaxBlock ELSE 1
  /\ now' = (now + 1) % Wrap
  /\ waited' = waited + 1
  /\ age' = [p \in Pin |-> IF age[p] < LongAge THEN age[p] + 1 ELSE LongAge]
  /\ stay' = [p \in Pin |-> IF age[p] < LongAge
                            THEN [stay[p] EXCEPT ![level[p]] = Longer(@, age[p] + 1)]
                            ELSE stay[p]]
  /\ queuedFor' = [i \in DOMAIN queuedFor |-> Older(queuedFor[i])]
  /\ heldFor' = [p \in Pin |-> IF debouncer[p].pending THEN Older(heldFor[p]) ELSE 0]
  /\ UNCHANGED <<level, up, board, reported, missed>>

-----------------------------------------------------------------------------
(* The loop.                                                               *)

\* drainPinTransitions(handleRawTransition): one transition at a time,
\* interrupts may add more.
drainPinTransitions ==
  /\ up /\ phase = "drain"
  /\ IF queue = << >>
     THEN phase' = "poll" /\ UNCHANGED <<queue, debouncer, since>>
     ELSE /\ debouncer' = [debouncer EXCEPT ![Head(queue).pin] = onTransition(@, Head(queue))]
          /\ queue' = Tail(queue)
          /\ heldFor' = [heldFor EXCEPT ![Head(queue).pin] = Head(queuedFor)]
          /\ queuedFor' = Tail(queuedFor)
          /\ UNCHANGED phase
  /\ UNCHANGED <<level, up, latch, overflow, now, reported, waited, missed, ages>>

\* What is confirmed is handed to logAndNotifyEvent.
Poll ==
  /\ up /\ phase = "poll"
  /\ debouncer' = [p \in Pin |-> IF Confirmed(p)
                                 THEN [debouncer[p] EXCEPT !.pending = FALSE]
                                 ELSE debouncer[p]]
  /\ reported' = [p \in Pin |-> IF Confirmed(p) THEN StatusOf(p, debouncer[p].level)
                                ELSE reported[p]]
  /\ stay' = [p \in Pin |-> IF Confirmed(p)
                            THEN [l \in Level |-> IF l = level[p] THEN age[p] ELSE 0]
                            ELSE stay[p]]
  /\ heldFor' = [p \in Pin |-> IF Confirmed(p) THEN 0 ELSE heldFor[p]]
  /\ phase' = "busy"
  /\ UNCHANGED <<level, up, latch, queue, overflow, now, waited, missed, age, queuedFor>>

\* The rest of the turn, or of setup, is over.
TurnEnds ==
  /\ up /\ phase = "busy"
  /\ phase' = "drain" /\ waited' = 0
  /\ UNCHANGED <<level, up, latch, queue, overflow, now, debouncer, reported, missed, ages,
                 since>>

\* A reset, by the watchdog or of the power: RAM is lost, the log is not.
Crash ==
  /\ up
  /\ up' = FALSE
  /\ latch' = {} /\ queue' = << >> /\ overflow' = 0 /\ phase' = "busy"
  /\ debouncer' = [p \in Pin |-> Idle]
  /\ missed' = {} /\ queuedFor' = << >> /\ heldFor' = [p \in Pin |-> 0]
  /\ UNCHANGED <<level, now, reported, waited, ages>>

\* initPinMonitor attaches the interrupts.  Nobody reads the level a pin has
\* by then.
initPinMonitor ==
  /\ ~up
  /\ up' = TRUE
  /\ now' = 0 /\ waited' = 0
  /\ missed' = {p \in Pin : reported[p] # StatusOf(p, level[p])}
  /\ age' = [p \in Pin |-> LongAge]
  /\ stay' = [p \in Pin |-> [l \in Level |-> 0]]
  /\ UNCHANGED <<level, board, reported, since>>

Init ==
  /\ level \in [Pin -> Level]
  /\ up = FALSE
  /\ latch = {} /\ queue = << >> /\ overflow = 0 /\ phase = "busy"
  /\ debouncer = [p \in Pin |-> Idle]
  /\ now = 0 /\ waited = 0
  /\ reported = [p \in Pin |-> "END"]
  /\ missed = {}
  /\ age = [p \in Pin |-> 0]
  /\ stay = [p \in Pin |-> [l \in Level |-> 0]]
  /\ queuedFor = << >> /\ heldFor = [p \in Pin |-> 0]

Next ==
  \/ \E p \in Pin : Edge(p)
  \/ \E p \in Pin : isrHandler(p)
  \/ Tick
  \/ drainPinTransitions
  \/ Poll
  \/ TurnEnds
  \/ Crash
  \/ initPinMonitor

Spec == Init /\ [][Next]_vars

\* Interrupts are handled, time passes, the loop runs.  A turn that takes
\* longer than MaxBlock is ended by the watchdog.
Fairness ==
  /\ \A p \in Pin : WF_vars(isrHandler(p))
  /\ WF_vars(Tick)
  /\ WF_vars(drainPinTransitions) /\ WF_vars(Poll) /\ WF_vars(TurnEnds)
  /\ WF_vars(initPinMonitor)

FairSpec == Spec /\ Fairness

-----------------------------------------------------------------------------
(* Properties.                                                             *)

\* The queue is within its depth, and the ages within their bounds.
TypeOK ==
  /\ level \in [Pin -> Level]
  /\ up \in BOOLEAN
  /\ latch \subseteq Pin
  /\ queue \in Seq(Transition) /\ Len(queue) <= QueueDepth
  /\ overflow \in 0..1
  /\ now \in 0..(Wrap - 1)
  /\ debouncer \in [Pin -> Debouncer]
  /\ phase \in {"drain", "poll", "busy"}
  /\ reported \in [Pin -> {"START", "END"}]
  /\ waited \in 0..Longer(1, MaxBlock)
  /\ missed \subseteq Pin
  /\ age \in [Pin -> 0..LongAge]
  /\ stay \in [Pin -> [Level -> 0..LongAge]]
  /\ queuedFor \in Seq(0..Wrap) /\ Len(queuedFor) = Len(queue)
  /\ heldFor \in [Pin -> 0..Wrap]

\* Nothing about p is on its way.
Quiet(p) ==
  /\ p \notin latch
  /\ \A i \in DOMAIN queue : queue[i].pin # p
  /\ ~debouncer[p].pending

\* However interrupts, turns and bounces interleave: when nothing about a pin
\* is on its way the log has the pin's state, unless the queue was full at
\* its last change or the change happened before the interrupts were attached.
LogFollowsPins ==
  \A p \in Pin : up /\ Quiet(p) /\ p \notin missed
                   => reported[p] = StatusOf(p, level[p])

\* The step hands p to logAndNotifyEvent.
Confirms(p) == phase = "poll" /\ up' /\ debouncer[p].pending /\ ~debouncer'[p].pending

\* A status is reported only if the pin has been in it for the threshold
\* since the last report, up to the tick that may pass while the queue is
\* drained: neither a bounce nor the wrap of millis() nor a blocked loop
\* confirms anything.  (An overflow hides edges from the debouncer.)
OnlyStableReported ==
  [][\A p \in Pin : Confirms(p) /\ overflow = 0
       => stay[p][debouncer[p].level] >= DebounceTicks - 1]_vars

\* The date given to what is confirmed is the second its interrupt ran in, or
\* the next one, however long the loop was blocked in between and wherever
\* millis() and the epoch have wrapped: against the true time if that is what
\* the clock tells, else against what the clock estimated as the interrupt
\* ran.  (The estimate itself goes back by a round of millis() at its end: a
\* date of after it, for an interrupt of before it, is a round early.)
DatedAtEdge ==
  phase = "poll" => \A p \in Pin : Confirmed(p) =>
    LET isr == debouncer[p].millisAtIsr
        Dated(epoch, at) ==
          (computeRetroactiveTimestamp(epoch, nowMillis, isr) - at) % EpochWrap \in {0, 1}
    IN  /\ \A time \in 0..(EpochWrap * TicksPerSecond - 1) :
             Dated(systemEpoch(time + heldFor[p]), systemEpoch(time))
        /\ \A anchor \in 0..(EpochWrap - 1) :
             isr <= nowMillis => Dated(estimateTimestamp(anchor, nowMillis),
                                       estimateTimestamp(anchor, isr))

\* A pin that stays as it is gets reported, if its last change was queued.
EventuallyReported ==
  \A p \in Pin, l \in Level :
    <>[](level[p] = l) => <>[](reported[p] = StatusOf(p, l) \/ p \in missed \/ ~up)

\* DESIGN.md 3.3: no transition is ever lost; an alarm pulse shorter than
\* the block of the loop is fully reconstructed, START and END.  So a status
\* a pin has had for longer than the threshold has been reported when the
\* next one is.
PulsesReconstructed ==
  [][\A p \in Pin : Confirms(p) /\ overflow = 0
       => \A l \in Level : stay[p][l] > DebounceTicks
                             => StatusOf(p, l) \in {reported[p], reported'[p]}]_vars
=============================================================================
