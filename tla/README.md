# Verification of the alarm notifier

The firmware under `src/` watches an intrusion-alarm panel with an ESP32 board: contacts raise
interrupts, a single main loop (`Notifier.ino`) debounces them, writes an event log in flash and
notifies a whitelist of Telegram users, with retries. This directory holds TLA+ specifications of
its core, translated from the source, the TLC configurations that check them, and proofs checked
by TLAPS. `PROJECT.json` says line by line which code each definition stands for.

Contents: [inventory](#1-inventory) · [modules](#2-modules) · [runs](#3-runs) ·
[findings](#4-where-code-and-documents-differ) · [proofs](#5-proofs) ·
[not modelled](#6-what-is-not-modelled) · [plan](#7-plan)

## 1. Inventory

One thread, `loop()`, does everything but the pin interrupt handlers. A turn can be blocked by an
HTTP request for up to 10 s, by several for longer, and a watchdog resets the board after 30 s.
Nothing in RAM outlives a reset; flash (LittleFS) and NVS do. The difficulties are therefore not
locks: they are steps of different parts that meet in one queue or one file, a reset or a failed
write between two of them, readings that are stale when they are used, and a 32-bit millisecond
counter that wraps after 49.7 days.

| Component (directory) | State | Operations | What makes it correct |
|---|---|---|---|
| Notification engine (`notifications`) | outbound queue, retry timer, scan in progress and its counters (RAM) | `notifyEvent`, `notifyAdmins`, `runRecoveryScan`, `handleSendOutcome`, `tickNotificationEngine` | no notification is lost, repeated or miscounted; scans end; every notification is settled |
| Notification log (`notifications`) | one JSONL file for each user | append with a retry, fold by key, rotation | the last row of a key tells what is still owed; final rows are final |
| Event log (`events`) | `/log.jsonl`, `g_lastWrittenTs` | append, open events, clamp, `logAndNotifyEvent`, `closeOpenEvent`, `/resetlog` | a consistent account of the transitions; times never go back; logged is notified |
| Rotation and maintenance (`rotation`) | temporary files, last rotation (NVS), degraded flag, error counter | rotation in two passes, weekly schedule, space limits | open events and PENDING rows survive; it ends; a reset loses nothing |
| Pin capture (`pins`) | interrupt queue of 32, one debouncer for each pin | ISR, drain, poll | what is reported was stable, is dated at its edge, and the log ends with the state of the pin |
| Clock (`time`) | `g_synced`, anchor (RAM and NVS) | `tickClock`, `currentEpoch` | the clock gets set; the anchor is fresh and not ahead |
| Network (`network`) | backoff, reachability, issue tracker | `tickWifi`, `recordOutcome`, `update` | links are sought again; an outage is logged if it lasts; its end is noticed |
| Users and configuration (`users`, `config`) | whitelist, preferences (flash), settings (NVS) | commands, load and save, onboarding | nobody is locked out; saved is kept |
| Panel control (`panelcontrol`) | one pulse timer, six output pins | `/setalarm`, release | one pulse at a time, long enough, released |
| Telegram (`telegram`) | rate limiter, buffer of strangers | parse, dispatch, send, classify | whitelist first; a text reaches the command it was written for; admins only where required |
| Diagnostics (`diagnostics`) | the LED and what it was last told | the loop's check of the log, the policy | the LED follows the log |

How they interact: the loop calls, in this order, drain and poll (events to `logAndNotifyEvent`,
which appends a row and calls `notifyEvent` if that worked), `tickWifi` and `tickClock`, the
tracker (which logs `NETWORK_ISSUE` and, at its end, asks for a recovery scan), the boot tasks
(once Telegram is reachable: summary and a scan), maintenance, the engine's tick (at most one send,
whose outcome is fed to the reachability tracker and to the row of the notification), and finally
the Telegram updates, from which commands and callbacks change users, settings and logs. The
engine's tick may start a scan for two more reasons: an early one after a success, and the timer.

The hazards this brings, each at its line with the properties that would show it go wrong, are in
`PROJECT.json` under `hazards`.

## 2. Modules

| Module | Models | Checked with | Proved in |
|---|---|---|---|
| `NotificationEngine` | engine, notification log as the engine folds it | `MCNotificationEngine` | `NotificationEngineProofs` |
| `Delivery` | abstract: what the engine promises for one notification at a time | through `NotificationEngine!KeepsPromise` | `NotificationEngineProofs` |
| `NotificationLog` | the file of a user's notification rows: append, read back, rotate, reset | `MCNotificationLog` | `LogProofs` |
| `RowStore` | abstract: the store of rows that `NotificationEngine` takes this file for | through `NotificationLog!ImplementsRowStore` | `LogProofs` |
| `LineFile` | a file of lines on LittleFS: torn, glued and retried writes (used by both logs) | through both | `LogProofs` |
| `EventLog` | event log, open events, clamp, `/log`, rotation of the log | `MCEventLog` | `LogProofs` |
| `Maintenance` | when the logs are rotated, with which cutoff, and how that is recorded | `MCMaintenance` | `MaintenanceProofs` |
| `PinPipeline` | interrupts, queue, debouncers, drain and poll | itself | `PinPipelineProofs` |
| `Uplink` | WiFi backoff, clock, wait for NTP, the loop's edge detection | `MCUplink` | `UplinkProofs` |
| `NetworkIssue` | reachability, issue tracker, and when the engine sends next | itself | `NetworkIssueProofs` |
| `Outputs` | pulses of `/setalarm`, status LED | itself | `OutputsProofs` |
| `Notifier` | event log and engine together: what is logged is notified, through resets, rotations and resets of the log | `MCNotifier` | `LogProofs` |
| `CommandParser` | the parsers and the chain of dispatch, as operators on texts | `MCUsers` | `UsersProofs` |
| `Users` | whitelist, preferences, settings, strangers, boot | `MCUsers` | `UsersProofs` |

An action is a whole handler. History variables, which no guard of the code's part reads, are
listed apart in each module. What is abstracted:

**NotificationEngine.** A notification is a pair of a user and an event key; the queue, the timer
(`active`, and `due` once its time is over), the scan flags and counters, and the rows (state and
attempt count) are those of the code. `SendHead` is a tick with a send: one disjunct for each outcome
that `handleSendOutcome` tells apart, followed by what ends the tick (early scan, timer scan).
Which events a user has switched off is a free choice of recipients; the order of the messages of
a scan is any order, where the code's is that of its maps. Settings do not change while it runs and
the retry interval is not 0. An event is notified once per key (`EventLog!NotifiedExactlyOnce` shows
that, and `Notifier!EngineUsedAsAssumed` draws the conclusion, except after a misreported write). When an
outage ends and its END cannot be logged, the alert of the first write error may go to the admins before
the scan (`NetworkRestored`). "Delivered" means that the API confirmed it: a
message that arrived though its answer was lost may be sent again. A scan can read the logs of
`Legible` users: one that cannot be opened is an empty one to it, and it goes on with the others. `fate`
follows each notification, `unrecorded` are those whose row could not be kept (failed or suspended
write, reset before the first try, log reset). `slipped` are the PENDING rows that the last scan has passed
by: those it did not carry when it began, for want of a legible log or of a listed user, and those that
became PENDING while it ran. A change of the whitelist alone lets nothing slip.

**LineFile.** A line parses or is `Torn`. LittleFS may take nothing, a part, or all but the newline
of what is printed; the next line is then glued to it, and since JSON is read up to the end of the
first object a whole object followed by anything still parses. Both logs append with one retry. The
module declares the file, the clock and the faults for both; where `EventLog` and `NotificationLog` have
the same word for two things, the latter's begins with `Notif`, so that one module of proofs extends both.

**EventLog.** `LogStart`, `LogEnd`, `LogIgnored` and `LogInstant` are the branches of
`logAndNotifyEvent`, `closeOpenEvent` is the command and the button. `RotationCycle` is one repetition
of the two passes; a reset may come between them or before the rename. `said` is the last transition
the pins asked to have logged: the interface to `PinPipeline`, whose `reported` it is. `handleLog`
folds the lines through the ring of `AggregatedEventLog` as the command does. An INSTANT row and a
START share the path `pushNew`; a ring of n events never holds one more, since nothing looks between
the push and the eviction. A row and its notification are one step: a power loss between the two
(`Notifier.ino:236` and `241`) leaves the log and the files as the step followed at once by `Crash` does, since
what `notifyEvent` changes is in RAM; only the history variable `notified` then counts a call that was
not made.

**NotificationLog.** One user's file, line by line. `fresh` and `scanned` are the messages of the
engine's queue whose outcomes append rows; which row an outcome brings is a choice among those of
`handleSendOutcome`, so that whatever the engine decides is covered. `whole` remembers the last row of
each key that was appended whole, and `ReadsLastWhole` says that reading finds just these.
Opening the file for reading may fail at any moment: `loadNotificationState` then returns nothing,
and a scan or a rotation goes on with that. The refinement mapping of `RowStore` is the fold of the
lines; every append, torn or not, is one `Put` or a stutter, a rotation one `Forget`.

**Maintenance.** A tick is the interval between two checks. `time` is the true epoch and `skew` what
the board's clock is off by: 0 once synchronized, else what the anchor gives or, without one, an
epoch from 0. Arithmetic on epochs is modulo `Wrap` as in the code. A rotation is three steps, since a
reset may fall between the files and the schedule: `performMaintenanceIfDue` decides, `rotateEventLog`
or `RotationFails` does the files, `saveLastRotationEpoch` the NVS. `LogUnread` is a cycle whose first pass
cannot open the log: the code takes it that there is none and records the rotation as done; `unread`
remembers this until the schedule is saved. `calm` counts the ticks since anything went wrong. Which
rows go is only age here; ids, cap and open events are in `EventLog`.

**PinPipeline.** A turn is drain, then the reading of the clock with the polls, then being busy for
up to `MaxBlock`. Interrupts come at any of these points; their handler reads the level of the pin
late, so that a bounce within a tick is seen as one level. `missed` are the pins whose last change
met a full queue, or came before interrupts were attached (the code does not read the levels at
boot). The two clocks an event may be dated by are operators: `systemEpoch`, the true time in seconds, and
`estimateTimestamp`, an anchor and the seconds of `millis()`, both modulo the width of an epoch, which has
nothing to do with that of the counter. `queuedFor` and `heldFor` are how long ago the interrupt of each
record really was.

**Uplink.** Epochs are kept as their distance from the true time, so that a bounded model can ask
whether an estimate is ahead. `WaitRound` and `FinishSetup` are the wait for NTP in `setup`, `Turn`
is what a turn of the loop does with link and clock. The radio may associate without being asked,
and need not when asked: `EventuallySynced` speaks of links that come. `Glitch` is an implausible answer of a time server. Static
addresses and the full reconnection of every tenth attempt are left to the radio.

**NetworkIssue.** Counts notifications instead of telling them apart, and keeps moments as the
ticks since. Its `tickNotificationEngine` is the engine's with what a send may leave behind as a
choice. A tick is longer than the rate limiter's interval. `fine` counts the ticks for which a send
would have worked while there was something to send.

**Outputs.** One reading of `millis()` at the start of a turn times both the pulse and the LED; the
turn then goes on for up to `MaxBlock` ticks. A command, and a change of the log, come at any
moment of it. Whether the network, the clock and the file system are well is a free choice.

**CommandParser.** Functions only: a text is its first word, up to three further words by what the
parsers can tell of them (digits, a minus sign, 32 characters, the words looked for), and the spaces
beyond one. `handleIncomingCommand` returns the handlers that a text reaches from an admin or another
user. `ServedAsDocumented` compares it, over all texts of that form, with the forms of
`docs/commands.md` and the commands it reserves for admins; `Users!CommandsAsDocumented` asks it of
whoever is an admin or a user in a state. `MaxWords` bounds the further words of the texts.

**Users.** A file after a save is the new or the old one (temporary file, one retry, rename). A
command first saves the whitelist if the sender's username is new, then does its own work: both
saves are in the same action, each with its own outcome. A file that cannot be read loads as an
empty list. Of the keys of NVS any may fail to be written, since no result is looked at; `unsaved` are
those that have. `chosen` remembers, for each user, what the last command about that user has saved.
`Boot` is setup's load with the onboarding.

**Notifier.** A step of `EventLog` that may log a row is one with what it calls: `notifyUsers` for the
row if it was notified, else the alert of a first write error, and the recovery scan if the step was the
end of an outage. All else that the engine does is as in `NotificationEngine` (`Engine`, an instance whose
keys are pairs of an id and a status), between turns of the log or in a reset that takes the RAM of both.
Nothing is assumed here of the keys: `notifyUsers` queues a key that it has had as the code would.
`removed` remembers the keys of rows that went with the log or with a rotation that concerns an event
that is over.

**How the modules fit.** The event log and the engine are composed in `Notifier`, the others by their
interfaces, not as one product, which would be out of TLC's reach: `PinPipeline.reported` is
`EventLog.said`; `EventLog.callNotifyEvent` is `NotificationEngine.EventLogged`, as `Notifier` shows;
`NetworkIssue.ScanAsked` is `NetworkRestored` and `BootTasks`;
`Users` changes what `WhitelistChange` changes. In each module the others appear as unconstrained
choices of what they may do, so that a property that holds there holds for any behaviour of the
others that fits the choices. `NotificationLog` stands below `NotificationEngine` as `RowStore`: the
engine's `rows` are its `rows`. `Maintenance.rotateEventLog` is the sequence of cycles of `EventLog` with
the cutoff as `EventLog.rotation`. `Outputs.open` is whether `EventLog.OpenEvents` has an alarm or a
power loss. What `CommandParser` lets through are the commands of `Users`, `EventLog`,
`NotificationLog` and `Outputs`.

## 3. Runs

Passing runs. Every property has a mutant in `PROJECT.json`: a plausible slip in one definition
that breaks it.

| Run | Asks | Bounds |
|---|---|---|
| `NotificationFaults` | Do resets, rows that cannot be written or read, log resets and whitelist changes make the engine queue a notification twice, lose, repeat or miscount it; what can a scan pass by, do scans end, is every notification settled; does the engine implement `Delivery`? | 2 users (one an admin), 1 event, 2 retries, admin alerts on an empty queue |
| `NotificationLogFaults` | Is a file that is torn, misread, rotated and wiped the store of rows that the engine takes it for? | 2 notifications, 5 lines, 2 clock values |
| `EventLogFaults` | Is the log a consistent account with torn and failed writes, resets, closing by hand, log resets and rotation with a cap, is each row notified once, and does `/log` show what happened? | 2 duration types, 2 instant ones, 3 events, 4 lines, cap 1, 2 clock values |
| `NotifierFaults` | Is nobody told twice or forgotten, and does what is retried find its row, with resets, rotations by age, log resets and closing by hand? | 1 user who is sent at most 2 events, 2 types (one ONLY_END) and REBOOT, 3 events, 3 lines, 1 retry, 2 clock values |
| `MaintenanceFaults` | Are rotations done in time, recorded only when done, and do old rows go, with a clock that may be wrong, rotations that fail and a log that cannot be opened? | a week of 2 checks, retention of 2 weeks, epochs of 16, 9 checks, a clock 2 behind, right, or 1 or 3 ahead, or from 0; 2 events |
| `PinFaults` | Is what is reported stable and well dated, and does the log end with the state of the pin? | 1 pin, queue of 2, threshold 3 ticks, blocks of 3, a counter of 8 ticks, 3 ticks to the second, epochs of 4 seconds |
| `OutputsFaults` | Is a pulse neither short nor stuck, is there one at a time, and does the LED follow the log? | 2 pins, pulses of 2 ticks, check every 3, blocks of 3, a counter of 8 |
| `UplinkFaults` | Do the attempts go on, does the clock get set, is the anchor fresh and behind? | delays 1, 2; wait 3; interval 3; blocks of 2; a counter of 10 ticks |
| `NetworkFaults` | Is `NETWORK_ISSUE` logged for the outages that last, and is the end of an outage noticed? | limit of 3 failures as in the code, threshold 2, retry interval 3, blocks of 2, 2 notifications |
| `UsersFaults` | Do failed saves and reads, resets and any commands lock everybody out, undo what was saved, or give a user other preferences than were chosen? Does every text reach the command it is documented to? | 3 chats, 2 values, one setting, a buffer of 2; texts of up to 3 words after the first |

What the properties say is with their definitions. The type invariants are in no run, since they are
proved (section 5). Why the bounds are enough:

* Engine: the faults concern one notification and the order of scan, timer, outcome and a message of
  the normal flow about another one. Two users with one event give a scan of two messages, a message that
  fails while a scan runs, a scan that reads one log and not the other, and a user who leaves
  while the other's scan stops the timer. Two retries are needed to tell a wrong count from a reset
  one, and for a scan that leaves a row PENDING again. Every scan is aggregated (of more than 0): the
  text is then that of the user's log, and nothing but `lists` differs. That a full file system
  suspends PENDING rows is left out of this run: to the rest of the engine a suspended row is one whose
  write failed, which may happen to any row here. The safety properties are proved with all faults, any
  number of users and events and any threshold (section 5).
* Event log: 4 lines hold an open event, a closed one and a torn line; with the cap at 1 a rotation
  needs several cycles, as 256 does for a long log; two clock values put the clock before or after
  the last row.
* Log and engine together: what a call meets in the engine depends on one key at a time, and the user may
  be addressed or not by each; `FewSent` stops at a third that he is sent. Three events are
  two REBOOTs and one that is open or over, notified or PENDING, at the reset between them. Two clock
  values make a rotation take what is over. Failed appends, admin alerts and aggregation are left to
  the runs of the parts and, for all of it at once, to the theorems of section 5, where
  `EngineUsedAsAssumed`, too slow for TLC to evaluate at every step here, is proved.
* Pins: a queue of 2 overflows during a block; the counter wraps within every few steps, at every
  offset from the threshold and from the second, which does not divide it, as 1000 does not divide
  2^32. `DatedAtEdge` is asked for every true time and every anchor there is. One pin: pins only share the
  queue, which `LogFollowsPinsHolds` covers for any number.
* Uplink: the counter wraps during delays, waits and intervals; half its range is more than the
  cap, as in the code (2^31 ms against 300 s).
* Network: the retry interval exceeds the threshold, as in the code (60 min, 120 s), and blocks
  shift every observation.
* Users: three chats fill a buffer of 2; the onboarding chat, an admin it has made and a third. Keys of
  NVS do not meet, so one setting is enough.
  Commands: no parser looks at a fourth word.
* Notification log: two notifications interleave in five lines, which hold three rows of one (two
  PENDING ones and its end) around a torn line and a row of the other.
* Maintenance: 9 checks hold four weeks and two retention periods; a stamp may be ahead of the clock by
  more than a week, and two events are one that is left over and one that is new. `Wrap` exceeds all of it as
  2^32 s exceeds the years a board lives.
* Outputs: blocks are longer than pulses, and the counter wraps within a pulse, a check, or a turn.

**Fairness.** Only where a liveness property needs it, and only for what goes on by itself:
the loop runs for ever (`QuietTick`, `SendHead`, `BootTasks`, `Turn`, `drainPinTransitions`, `Poll`,
`TurnEnds`, `WaitRound`, `FinishSetup`), minutes pass (`TimerElapses`, `Tick`), interrupts are
handled (`isrHandler`), setup ends (`initPinMonitor`), a rotation is synchronous (`RotationCycle`). Of
the environment: Telegram can be reached sooner or later (`BootTasks` is fair), a time server answers
(`NtpAnswer`). Links, faults, users and pins are never fair. `EventuallySettled` is about behaviours whose
resets cease (`<>[]booted`).

## 4. Where code and documents differ

Each of these runs checks one statement of the repository's documents and finds it violated.

1. `NotificationStranded`: a notification that fails in the normal flow while a scan is running is
   not in that scan; if all of the scan's messages are settled, its end stops the timer the failure
   had armed. The row stays PENDING with neither timer nor scan, until another failure, a
   reconnection or a reboot. Two observations below strand rows in the same manner; `PendingHasRetry`
   says which rows may be left so.
2. `PinPulse`: the whole queue is drained into the debouncers before they are polled, and a
   debouncer holds one transition: an alarm that starts and ends during one block of the loop
   leaves no event, though DESIGN 3.3 says that it is fully reconstructed.

**Observations** made while modelling, without a run of their own:

* The moment of the next WiFi attempt is only written at attempts. If a link breaks after 24.8 to 49.7
  days, the signed difference (`WifiManager.cpp:71`) makes it look far ahead, and no attempt is made
  for up to 24.8 days unless the SDK reconnects on its own, where DESIGN 3.4 (line 179) speaks of a cap of
  300 s. `AttemptsResume` bounds this wait.
* After three failed sends Telegram counts as unreachable until a send succeeds, and nothing is sent
  before the retry timer, a new event or a command: the recovery scan does not follow the return of
  the network "immediately" (DESIGN, line 179). `ReturnNoticed`: it follows within the retry interval.
* If `users.json` cannot be read at boot, setup goes on with an empty list, adds the onboarding chat and
  saves that over the file, though `docs/configuration.md:31` says that this chat only matters on the
  very first boot.
* The cutoff wraps round if the epoch is less than the retention (a clock not set, at a retention of
  weeks) or the retention is set to thousands of weeks: nearly every concluded event is removed.
* The row of a concluded event dated near 1970, by a clock that is not set and has no anchor, is far below the
  cutoff once the clock is: the first maintenance after the synchronization that is due removes it, minutes after the event,
  where DESIGN 5.4.2 (`src/DESIGN.md:340`) says the anchor guarantees that no row is deleted in this way.
* If the log exists but cannot be opened for the first pass of a cycle, `rotateEventLog` returns the number
  of cycles done (`EventLogRotation.cpp:20`) and the rotation is recorded, old rows or not, where the comment of
  its caller (`RotationEngine.cpp:38-40`) and DESIGN 9.3.2 say that the schedule advances only if it did not
  fail: `LogUnread` in `Maintenance`. The next rotation, a week later, makes up for it (`OldRowsGo`).
* A scan that cannot open one user's log (`NotificationLogStorage.cpp:12-24`) takes it for empty and goes on
  with the others; if all it carries is settled, its end stops the timer, and the PENDING rows of that log
  wait for another failure, a reconnection or a reboot. The same happens to the rows of a user who is
  removed, and added again after such a scan.
* While the clock is not synchronized its estimate goes back by 49.7 days when `millis()` wraps
  (`Clock.cpp:57`). What is logged after that is dated a round early, or by the clamp at the time of the last
  row before, for up to as long. `DatedAtEdge` speaks of the estimate only between two wraps.
* No result of a write to NVS is looked at (`GlobalConfigStorage.cpp:33-43`), nor, by the commands, of a save
  of the preferences: the command answers that it is done, and a reset, or the next read, undoes it.
* Space is not looked at again after an early rotation, and an early rotation that fails is only
  repeated when the status gets worse once more or the week is over (`RotationEngine.cpp:58-77`).
* A pulse may stay HIGH for 500 ms and the rest of a blocked turn (`PulseInTime`); DESIGN 16 only
  speaks of 500 ms.
* After a boot the LED shows no alarm until the first check of the log.
* A number too long for `stoul` or `stoll` throws out of the parser, and nothing catches it.
* `docs/commands.md:31` gives `/setgraceperiod` in minutes; the code keeps seconds.
* With aggregation the summary text is queued once for every pending record
  (`NotificationEngine.cpp:228`), where DESIGN 6.7 speaks of one message.
* A system error (revoked token) abandons notifications after `max_retries` like any failure;
  DESIGN 6.5 says nothing is marked ABANDONED.
* An event whose row cannot be appended is not notified (`Notifier.ino:236`), where
  `EventLogStorage.h:13-14` says a failure does not block it.
* After a short write the retry is glued to the fragment, reported as written and not counted
  (`EventLogStorage.cpp:25`): `misreported` in `EventLog`.
* The first write error is only reported from `logAndNotifyEvent` and only for a count of 1: one that
  comes from a rotation, a save or closing by hand is never reported.
* A first connection between the last look of the wait for NTP and `Notifier.ino:312` starts no NTP
  before the next reconnection.
* A preference command that cannot read `userconfig.json` writes a file with its own entry alone
  (`modifyUserConfig` ignores the result of the load); the result of `saveUsers` is ignored as well.
* `anchorPersistIntervalMinutes` is not among the settings saved to NVS.
* The levels of the pins are not read at boot.
* After a fallback from NTP the estimate adds all of `millis()` to a recent anchor and is ahead
  (`misled` in `Uplink`).
* After a reset during an outage the START of `NETWORK_ISSUE` stays open, and the END is not logged
  (`astray` in `NetworkIssue`).
* The filter by `added_ts` is not applied in recovery scans.

## 5. Proofs

TLC shows the properties for small instances, TLAPS the following ones for every value of the
constants that satisfies the modules' assumptions (finite sets of users, keys and types, positive
limits, a counter whose range exceeds the lengths that are measured with it, which for the pins are the
threshold and the longest block, with any number of ticks to a second; a torn line is no record;
in `Maintenance`, a clock that is never more than a week behind unless it starts from 0, and epochs that
outlast the run). `OnlyStableReported` assumes in addition a debounce threshold above two ticks; the
code's is 300 ms (`src/src/pins/PinDebounce.h:8`). With a threshold of two ticks TLC refutes it: the tick
that may pass in one drain and that of the poll before it add up to the whole threshold.
Types are proved too (`TypeCorrect`), for every module that has variables and models code.

**The engine** (`NotificationEngineProofs`)

* `ScanAccountingHolds`: `g_scanMessagesInFlight` equals the number of scan messages in the queue, and a
  scan is in progress exactly while there are some. `ScanAccounting` is inductive given the types; the
  work is to count the scan messages of a queue that is appended to and consumed.
* `OneAttemptQueuedHolds`, `AttemptsWithinLimitHolds`, `NoResendHolds`, `TerminalRowsFinalHolds`. None is
  inductive: a scan would queue twice what is in the queue if a message of the normal flow could
  already have a row. The invariant `IInv` adds what every message knows: one of the normal flow is about
  a notification that is owed and has *no* row; one of a scan about a row that is PENDING with the *same*
  count or has been wiped; and what each row says of the fate of its notification. With
  `ScanAccounting` (no scan message when a scan begins) a scan then queues only what is not in the queue,
  and an outcome overwrites only a row it was read from.
* `NothingForgottenHolds`, through `KeptInMind` for one notification: the queue only grows behind its
  head (`Extends`), so what is carried stays carried until it is sent, and each outcome of a send
  leaves a PENDING row, a settled fate or an entry in `unrecorded`.
* `PendingHasRetryHolds`: the timer is stopped only where a scan ends, so `Covered` adds that while
  a scan has met no failure (`hadPending` is false) it still *carries* all that waits and has not
  slipped; when its last message is gone nothing waits but what it has passed by. What it passes by when it
  begins is what waits and is not carried then, whatever logs it could read.
* `KeepsPromiseHolds`, the refinement of `Delivery`: an event that is accepted is an
  `Accept`, a send a `Retry`, `Conclude` or `Disturb` of the notification of its head, what is lost in a
  reset, with the log or with a user a `Disturb`, and all else a stutter.

**The logs** (`LogProofs`). A rotation copies the lines at some numbers, in their order (`RanksListed`), and
keeps what is said of pairs of lines; a write that is torn, glued or retried leaves the old lines with
at most one record or torn line behind them (`RetryOutcome`).

* `EventLog`: `OneOpenPerTypeHolds`, `EndHasStartHolds`, `LogAgreesWithTransitionsHolds`, `MonotonicLogHolds`,
  `NotifiedExactlyOnceHolds`. The core is that the rows are `Coherent`: an id is shared only by a START and a
  later END of the same type, every END has its START, and a type is open once. A START is written only
  after `findOpenEventOfType` found nothing, an END with the id it found, and a rotation removes the
  two together or not at all. `Agreement` with the last transition follows for types that are not
  `astray`; that ids stay below `nextId` (`IdsUsed`), also over a reset, makes keys notified once.
* `/log`: `LogShowsLatestHolds`. The ring is a fold over all lines, so its proof is an induction on the number
  of lines read, from the principle of the least number: the library's theorems of induction take an
  operator as a parameter, while the set of the numbers for which a claim fails needs none (`Induction`).
  The invariant of the loop (`RingHas`) says that after `k` lines the ring holds the last of the rows
  begun by then, each with the END that was seen for it. With `Pairs` there is at most one.
* `RotationCyclesEnd`: a cycle that is to be repeated shortens the file, the measure behind `RotationEnds`,
  whose fairness is left to TLC.
* `NotificationLog`: `ReadsLastWholeHolds` and `ImplementsRowStoreHolds`. The fold over the lines
  takes the last row of each key, so it needs no induction: `HoldsLast` says that `whole` has these
  rows, an append moves the last row of one key, a rotation removes all rows of a settled key or
  none. `QueueOpen` says that no attempt is queued for what is settled, so that no append
  overwrites a settled row; with that each step does to `whole` what `RowStore` allows, for any sequence
  of torn writes, failed reads, rotations and resets.

**From a transition to the users** (`LogProofs`, about `Notifier`)

* `EngineUsedAsAssumedHolds` (not in a run): as long as no append was misreported, every step of log and engine
  together
  is, to the engine, one of `NotificationEngine!Next` or none. That module assumes that a key for which
  `notifyEvent` is called is
  `"unsent"` for every user; here this is proved of the calls that the log makes. Once the invariants of the
  log are there (`repeated \subseteq misreported`), what remains is that nobody is owed a key that
  was not notified (`FatesKnown`), which no step of the engine alone changes (`UnsentStays`).
* `ToldOnceHolds` then follows from what `NotificationEngineProofs` has proved of the engine: its invariants
  are cited of the instance `EP`, whose assumptions are discharged in `EngineIsFit`, and whose
  definitions are seen to be those of `Notifier!Engine` (the lemmas `Same...`).
* `RetriesFindTheirEventHolds`: what is queued or PENDING has been notified (`Within`, `PendingWithin`; here
  also after a misreported write), and a key that was notified is `Accounted` for. A rotation takes all rows
  of an event or none, and none of an open one (`OpenNotCollected`); an append takes none.

**Pins, time and network**

* `PinPipelineProofs!LogFollowsPinsHolds`, for any number of pins. `IInv` says where the last change of a pin
  is: in the latch, in the pin's last record in the queue, in the debouncer with nothing queued
  behind it, or reported. `DatedAtEdgeHolds`: what a debouncer holds is
  younger than a round of the counter (`RecordsYoung`), so that the difference of readings is the true age
  (`AgesTrue`). Taking an age in whole seconds from a time in whole seconds is off by one second at most
  (`SecondsOfSum`), and stays so modulo the width of an epoch (`NearModulo`), into which the second and the
  counter need not fit. `OnlyStableReportedHolds`: a difference of readings is an age, as above, and since the
  last record of a pin the pin has been at its level unless its
  next edge is in the latch (`Tracked`).
* `UplinkProofs`: `AttemptsResumeHolds`, `AnchorFreshHolds`, `EstimateNeverAheadHolds`. `AttemptsResume` needs
  to know how far `g_nextAttemptMillis` is: while the difference counts as negative the wait has lasted
  for no more than the difference has gone on from half the range (`WaitInv`), and once it counts as
  positive the next turn makes an attempt. `AnchorFresh` rests on the true age of the anchor
  being the difference `tickClock` computes, with no whole round of the counter in between.
* `NetworkIssueProofs`: `RowFollowsTrackerHolds`, `ConfirmedInTimeHolds`, `ReturnNoticedHolds`. The first is
  inductive. For the second the moment the tracker keeps is at most a turn off the true beginning, and
  each turn looks at it. For the third (`SendNears`): while the judgement is out of date no send has
  happened, so that the queue and the retry timer can only have come nearer to the next one, which
  corrects it.
* `MaintenanceProofs`: `RotationOnTimeHolds`, `RotationRecordedWhenDoneHolds`, `OldRowsGoHolds`.
  `RotationOnTime` is strengthened with the age of the stamp as `isRotationDue` computes it: the ticks since
  a disturbance are at most that age and one, and after a check the age is below a week. A stamp ahead
  of the clock looks old, since the difference is unsigned, and is replaced at once. That the
  schedule is recorded only when done rests on the invariant that between the files and the NVS nothing
  old is left, unless the log was `unread`. For `OldRowsGo` it is carried on (`LeftInv`): as long as nothing
  goes wrong, no row is older than the retention was at the last recorded rotation, and `RotationOnTime` says
  how
  long ago that is.

**Outputs and users**

* `OutputsProofs`: `PulseInTimeHolds`, `PulseLongEnoughHolds`: while a pulse is on, the difference of readings
  is its true age, since that stays below the pulse and what the present turn has blocked for.
  `LedFollowsLogHolds`: while the LED's reading of the log is stale, the log is younger than the time since
  that reading (`LedInv`), and a reading that is due is made in the same turn.
* `UsersProofs`: `NeverLockedOutHolds`: both lists, in RAM and in the file, keep an admin, since a save
  stores a list that RAM holds, and only an admin takes an admin away. `ResetLosesNothingHolds`: the file
  is the list in RAM unless the last save has failed, and each key of NVS is the setting unless it is
  `unsaved` (`Persistent`). `PreferencesKeptHolds`: a command writes back the file it has read, with the entry
  of
  one chat changed, or, when it could not read it, the defaults with that entry. `TypeCorrect`: the buffer of
  strangers has each of them once, through entries
  that are moved and dropped. `CommandsAsDocumentedHolds`, for texts of any number of words: every parser
  looks at the first word and at most two others, so the forms of a text are told apart by cases.

Only model-checked is liveness (`EventuallySettled`, `RotationEnds`, `EventuallyReported`, `EventuallySynced`):
TLAPS does no fairness. Every invariant and every action property of the passing runs is proved, and
`EngineUsedAsAssumed` besides, which no run checks.

## 6. What is not modelled

* The texts of messages, their formatting, time zones, help pages and `/status`: they read state and
  change none. Of `/log`, which events it shows is modelled, not how.
* HTTP, TLS, the Telegram library, WiFi, SNTP, LittleFS and NVS themselves: external, by what the
  code can observe of them (an outcome, a short write, a link). The offset of the Telegram updates is
  in RAM; that an update is handled again after a reset is not modelled.
* The schema versions, mounting and formatting the file system, reads of the event log that fail.
* The rate limiter, but for the fact that it lets a send through sooner or later.
* Blinking and colours of the LED, the serial log: pure output.
* The percentages of `evaluateSpaceUsage`: any status may be found at any check.
* The product of all modules (but for `Notifier`); see "How the modules fit".

## 7. Plan

1. `NotificationEngine` with `Delivery`, types and queue invariants proved — done.
2. `EventLog` with its rotation — done; `/log` added.
3. `PinPipeline`, `LogFollowsPins` proved — done.
4. `Uplink` and `NetworkIssue`, all their safety properties proved — done.
5. `Users`, `NeverLockedOut` proved, with `CommandParser` — done.
6. `Outputs` and `Maintenance`, proved — done.
7. `NotificationLog` with `RowStore` — done.
8. `NotificationEngine`: nothing forgotten, retries and the refinement of `Delivery` proved — done.
9. The logs: `EventLog`'s invariants, `NotificationLog` as a `RowStore` proved — done.
10. `PinPipeline`, `Outputs` and `Users`: all their safety properties proved — done.
11. `Notifier`: the assumption of the engine on its keys discharged — done. `/log` and the commands proved —
    done.
12. Left: the interface between `PinPipeline!reported` and `EventLog!said` as a module of its own, and the
    tracker's row (`NetworkIssue`) in the log of `Notifier`.
