# A verification of RaftControl

RaftControl drives the four coils of a magnetic-field rig through an NI card.
Everything that matters about it happens between threads: client connections,
a heartbeat watchdog and a GUI call one controller, the controller starts,
replaces and stops actions on a backend, and the backend's streaming thread
calls back.  Around that core a client speaks to the server over TCP, and a window
queues actions and polls them.  This directory holds TLA+ models of all of
these, the instances TLC checks, and theorems that TLAPS proves for every
number of requests and threads.  All paths are relative to the repository's root; `controller.py`,
`backends.py` and so on are in `src/src/raft_control/`.

## The system

| component | state | operations | hard behaviour |
|---|---|---|---|
| `FieldController` (controller.py) | `enabled`, `_active`, `_stopping`, `_records` | enable, disable, send, stop, close; callbacks `_started`, `_duration`, `_done` | stop, disable and close release the lock in the middle; callbacks come late |
| `NIDAQmxBackend` (backends.py) | `_task`, `_replacement`, `_stop`, `_thread`, `_enable_task`, the locals of `run()` | enable, disable, start, replace, stop, close, the worker's loop | a slot shared with the worker, joins that time out, every driver call may raise |
| `SimulationBackend` (backends.py) | `_stop`, `_replacement` and its event, the locals of `run()` | start, replace, stop, the thread's loop | nothing is locked or joined, so threads overlap |
| `RaftControlServer` (server.py) | `_last_heartbeat`, `controls_hardware` of each connection | requests, clean-up of a connection, `_watchdog` | clean-ups, requests and the watchdog race |
| `ActionRecord`, `ActionStatus` (models.py) | status, timestamps, tail, replacement | written by the controller | |
| the worker's sample clock (backends.py, `run()`) | `written`, `pending`, `started_at`, `duration_sent`, `deadline`, the device's counter | write a chunk, pick, report, ramp | the device moves on between two looks at it; samples queue in buffer and FIFO |
| `WaveformStream`, `build_waveform` (waveform.py) | constants of an action | samples at an absolute index | numerical |
| `FrameDecoder` (protocol.py) | byte buffer | feed | fragments, bad frames |
| `RaftControlClient` (client.py) | socket, decoder, a lock | request, close | a timeout, then a late answer |
| GUI (scripts/field_control_gui.py) | `enabled`, `active_action_id`, `active_action_status`, `queued_actions`, timers | enable, disable, send, stop, poll | decisions on a status read earlier, calls that raise |

How they interact: a connection's thread, the watchdog and a local GUI call
`FieldController`.  `send` either calls `backend.start` (nothing active) or
marks the old record replaced and calls `backend.replace`.  `stop` asks the
backend to stop and then marks the record.  The backend's thread reports
through three callbacks, which take the controller's lock.  A remote caller's
request passes `RaftControlClient.request`, the connection and the thread that
serves it.  The window's thread runs button handlers and timers one at a time;
between two of them the backend calls back.

## The modules

| module | models | extends |
|---|---|---|
| `ActionTypes` | identifiers, statuses, reasons for an end | |
| `FieldController` | controller.py with an open backend | `ActionTypes` |
| `NIDAQmxBackend` | the hardware backend and its worker | `ActionTypes` |
| `HardwareControl` | controller and hardware backend joined | both |
| `SimulationBackend` | the simulation and its threads | `ActionTypes` |
| `SimulatedControl` | controller and simulation joined | both |
| `Server` | connections, clean-up and watchdog over the controller | `FieldController` |
| `Playout` | abstract: the order in which actions are heard and reported | `ActionTypes` |
| `OutputStream` | the sample clock of the hardware backend's worker | `ActionTypes` |
| `RequestResponse` | abstract: what a caller of `request()` can rely on | |
| `RemoteClient` | client, decoder, connection and the thread that serves it | |
| `QueueMode` | the window in queue mode over the controller | `FieldController` |
| `...MC` | symmetry for TLC | the above |
| `...Proofs` | theorems and their proofs | the above and `TLAPS` |

Three abstract specifications are implemented by detailed ones:

- `FieldController` is both a component and the abstract specification of the
  system: its backend may return, raise and call back for any admitted action
  in any order.  `HardwareControl`, `SimulatedControl`, `Server` and `QueueMode`
  each *implement* `ControllerSpec` (theorems `HardwareImplementsController`,
  `SimulatedImplementsController`, `ServerImplementsController`,
  `QueueImplementsController`), so what is proved of the controller alone holds
  in all four systems.
- `Playout` says in which order actions come to the coils and when that is
  reported.  `HardwareControl` implements it with threads and an order of
  pending actions (`PlaysInOrder`, theorem `HardwarePlaysInOrder`),
  `OutputStream` with sample positions (`PlaysInOrder`, theorem
  `SamplesPlayInOrder`).  The two refinement mappings are at their
  `Plays == INSTANCE Playout WITH ...`.  That of `OutputStream` takes for the
  queue what is left of `pending` beyond the actions the device has come to
  (`Unreached`); that these stand in front is part of what is proved.
- `RequestResponse` says that answers never go back.  `RemoteClient` implements
  it (`AnswersKeepOrder`, theorem `ClientKeepsPromise`).

### Correspondence

- One `with self._lock` block of the controller is one step.  `stop()` is
  `StopBegin`, the backend's `stop()`, `StopReturns`, `StopMark`; `disable()`
  is a `stop()` followed by `DisableOff`; `close()` follows that with the
  backend's `close()`.  `enable()` keeps the lock over the backend's work, so
  it is `Enable` and `EnableReturns` or `EnableRaises`, with `LockFree` false
  in between.  Nobody else holds the lock over more than a step.
- `send()` is `Reject`, `AdmitFirst` or `AdmitReplacing`.  `start()` and
  `replace()` happen inside `send()`'s lock and in one step with it.  If they
  raise, the records and `_active` have been written already; the joined
  systems model both outcomes.
- Actions are numbered in the order in which their records are made, and a
  backend worker is named by the action that started it.
- The worker of `NIDAQmxBackend` goes through `open`, `fill`, `begin`, the
  loop (`top`, `pick`, `play`, `switch`, `keep`, `write`), `ramp`, `finally`,
  `close`, `zero`, `report`, `exit`; each name is a place in `run()` between
  two things another thread can see.
- `SimulationBackend`'s worker is cut finer, since it takes its replacement
  without a lock: `take`, `forget`, `clear`.
- In `Server` a connection's thread is in `recv` while it waits for or serves a
  request and in `forget`, `stop`, `disable`, `disabled` during its clean-up,
  of which the watchdog shares the last three.

- `OutputStream` is the loop of the same `run()` with its numbers.  `Tick` is
  the device; `Look`, `Pick`, `Play`, `CheckKeep`, `Write` are the five parts of
  one turn; `Ramp`, `WaitEnds` and `Fail` its ends.  `Play` is a step of its own
  since the device moves on between `generated = ...` and
  `started_at = time.monotonic() - ...`.
- In `RemoteClient` a frame is two units, header and payload; `ClientRecv` and
  `ServerRecv` take any number of units that have come, which is `recv` and
  `feed` together.  `Serve` is one turn of the server's loop: `_dispatch`, then
  the answer.
- In `QueueMode` a button's handler is several steps (`handler` says which is
  next), because the backend calls back between a `send()` and the look at its
  record, and between `poll_status` and the send it leads to.  `Press...` begin
  a handler; the window's other handlers wait (`Free`).  `trouble` is a history
  variable: a call has raised since the last `disable()`.  The backend's
  callbacks come in the order that `PlaysInOrder` and `SettledIsFinal` promise
  for the hardware.

### What is abstracted

- Samples and currents.  In `HardwareControl` also positions and times: the
  output is `zero` or `live`; the device may reach the first sample of a pending
  action, and a keep time may be over, at any moment.  Pending actions keep
  their order.  `OutputStream` has the positions and times, one unit of time
  being one sample, and one keep time for all actions.  It leaves the
  threads out: the worker's slot and stop event are written by `Post` and `Stop`
  at any moment.  The repeating window of sources without a stream is left out.
- `timestamps` keeps the four keys (`Stamped`) that tell apart what the status
  does not.
- The card gives its outputs to one task at a time (`OutputsFree`); this is the
  driver's behaviour and marked external.
- `join`'s timeout may come at any time when `JoinTimeouts` is TRUE.  A join of
  a thread that is assigned and not yet started, which three overlapping calls
  could reach, is not modelled: `start()` is one step.
- Exceptions out of the event log are not modelled.
- What the driver raises has a text.  An exception without one is no error to
  `error or "stopped"` (backends.py:385) and to `_done` (controller.py:186), so
  its action would end as completed; `DoneReason` leaves that out, and
  `NeverCompleted` speaks of exceptions with a text only.
- `Server` and `QueueMode` see requests and answers; how they travel is
  `RemoteClient`'s matter.  There a request's content does not matter but for
  being a JSON object (`good`), none (`bad`) or too long (`huge`).
- `QueueMode` lets a call of a remote controller raise before or after it is
  carried out.  A call that times out while the server still carries it out, and
  late answers taken for others, are not joined to the window.
- Requests that only read (`hello`, `status`, `recent`, `preview`) have no
  action.

## What TLC checks

Bounds: `MaxActions` requests in all, the `Callers` given, the public `Methods`
they use, and whether they send invalid requests (`Validity`).  Two actions are
enough for a replacement, or for a restart after a stop over a thread that has
not ended; three for a replacement that overtakes another one.  Two callers are
enough for every pair of calls to interleave.  Four requests to a server let
two answers be late at once while a third is asked for; a buffer of two chunks
with a FIFO of one more lets two replacements wait behind each other.  Three
actions in the window are one that plays, one that is queued and one that is
sent past it.

Deadlock is checked in all runs but two.  `remote_client` stops when both ends
have closed the connection, `output_stream` when the stream has ended and all
has been posted.

| run | instance | properties |
|---|---|---|
| `hardware_operator` | 3 requests, 1 caller, all faults but the final zero write | `BackendTypeOK`, `QuietWhenIdle`, `AmplifierImpliesEnabled`, `DisabledIsIdle`, `ReplacementChain`, `NewestWins`, `KeepTimeAfterStart`, `InactiveIsOver`, `PlaysInOrder`, `SettledIsFinal` |
| `hardware_callers` | 2 requests, valid or not, 2 callers, join timeouts, stream faults | `ControllerTypeOK`, `ActiveIsLive`, `TailAfterKeepTime`, `RejectedIsFinal`, `OneWorker`, `OwnerIsLive`, `NeverCompleted` |
| `hardware_liveness` | 2 requests, 1 caller that stops and closes (the first part of `close()` is `disable()`), fair, stream and final zero write may fail | `CallsReturn`, `ReplacementStarts`, `KeepTimeReported`, `StoppedForGood`, `AmplifierOnAtZero` |
| `simulated` | 2 requests, 1 caller, fair | `SimTypeOK`, `QuietWhenIdle`, `KeepTimeAfterStart`, `StopEnds` |
| `server_clients` | 2 requests, 2 clients and the watchdog, failing driver | `ServerTypeOK`, `NothingPlaysUnattended`, `ViewersAreHarmless` |
| `server_liveness` | 1 request, 2 clients and the watchdog, fair, sound driver | `DisabledUnattended`, `SilenceIsCutOff` |
| `remote_client` | 4 requests, any of them malformed, fair | `LagIsBounded`, `AnswersKeepOrder`, `RequestsCarriedOut` |
| `gui_queue` | 3 requests, remote controller, calls may raise, fair | `RunningIsPolled`, `QueueIsSequential`, `QueueMovesOn` |
| `output_stream` | 3 actions, chunk 2, buffer 4, FIFO 2, ramp 2, slack 1, keep time 3, 12 samples | `KeepTimeIsPlayed`, `RampIsPlayed`, `PlaysInOrder` |

`RampIsPlayed` assumes a device FIFO no longer than the ramp and the quarter of
a second that the deadline adds (`Fifo <= RampLen + Slack`).  At the 40 kHz of
`configs/windows.json` these are 12000 samples; at 1 kHz, the default of
config.py, they are 300, and with a longer FIFO the end of the ramp may be
discarded with the task.  The final zero write follows in either case, so it is
the slope that is lost.

Every property has a mutant: a plausible slip in one definition (kept next to
it, under a name that extends its own) for which TLC finds the property
violated under the same configuration.

The instances are also the limits of what holds.  With two callers that
disable, `NewestWins`, `DisabledIsIdle`, `AmplifierOnAtZero` and
`InactiveIsOver` fail: a second client's send slips into a gap of the first
one's call.  With join timeouts `SettledIsFinal`, `AmplifierOnAtZero`,
`DisabledIsIdle` and `InactiveIsOver` fail, since the worker outlives the
`stop()` that gave up on it.  The theorems say how far these five hold:
`SettledIsFinal` for any number of callers without join timeouts, `NewestWins`
for one caller with or without them, and the other three for one caller without
them.

Two actions let two threads of the simulation overlap, but not with a filled
slot between them; three are more than TLC finishes in minutes.  That the last
of the threads leaves zero, and that keep times come after starts, the theorems
`SimulationEndsQuiet` and `SimulationKeepsTime` say for every number of actions.

### Fairness

`FairSpec` assumes strong fairness of each caller's and each thread's steps:
threads are scheduled, and a Python lock that is released again and again is at
last granted to a thread that waits for it.  Beyond that the hardware model
assumes that the device goes on generating samples, so that a pending action is
reached (`DeviceReached`), and that keep times are finite (`KeepTimeOver`).
Nothing obliges a client to send, stop or enable, and time-outs and driver
failures are never obliged to happen.

In `RemoteClient` what was sent arrives while the connection lives, and the
thread that serves it runs: weak fairness of `ServerRecv` and of `Serve` or
`ServeRaises`.  In `QueueMode` a handler that has begun goes on (weak, it is
one thread) and timers fire (`PollStep`, strong: tkinter's event loop serves a
timer that is due although the operator keeps pressing buttons).
`OutputStream` has safety properties only.

### Where the code falls short of its own words

Three runs end in a counterexample to what a document says:

- `hardware_uncarried`: a second `send` before the worker has registered its
  task.  `replace()` raises after the records were switched, so the old action
  plays on, reported as replaced, and the new one stays queued for ever.
- `hardware_disable_race`: `disable()` lets go of the lock between its `stop()`
  and the block that clears `enabled`; a `send` in between streams on a
  disabled controller.
- `gui_queue_stuck`: `transmit_action` sets a timer only if the status it reads
  right after `send()` is still `queued` or `started`.  When the keep time is
  over by then nobody looks at the action again, and what is queued behind it
  stays there.  (A new Send would be transmitted at once, past the queue.)  The
  run has three valid requests to a local controller, and `QueueNeverSticks`
  exempts a window in whose thread a call has raised, so this is the only way
  it fails: with a `Transmitted` that always sets the timer it holds.

Reading the code against the models shows more of the same kind, which no run
is kept for:

- `on_done` is called from the thread that `start()` then finds alive, so a
  start that follows the report of a failure at once raises "already running",
  and its record stays queued and active (backends.py:207, 385; the comment at
  387 promises a restartable worker).  `InactiveIsOver` says that no more than
  the end of the thread is missing by then.
- `_started` does not look at the record, so a late `on_started` turns a record
  that was replaced in the meantime back to `started`, where it stays
  (controller.py:145).  With the simulation its thread is merely late; with the
  hardware a replacement that waits for the device is itself replaced, and
  reported as started when the device comes to it.  `SettledIsFinal` therefore
  does not speak of replaced records.
- The simulation's thread reads its slot, empties it and clears its event
  without a lock, so a replacement posted between these steps is lost, or stays
  in the slot with its event cleared (backends.py:86-90).
- docs/output-streaming.md:19 says that a replacement "starts its own waveform
  at phase 0", and :133 that a test shows it.  `run()` goes on with the absolute
  sample clock (`sample_index = written`, backends.py:311), so its phase is
  whatever that clock gives.
- `generated >= position` (backends.py:318) holds when the samples *before* the
  position have been generated, one sample before the replacement's first one.
  `Playout`'s `heard` is defined accordingly: the coils have come to it.
- `request()` compares no `request_id`.  After a timeout the late answer is
  returned for the next request, and one of two answers that come in one piece
  is dropped; `LagIsBounded` says how far this can go.  A request whose caller
  has given up is still carried out, a `send` included.
- The client returns the server's error answers like any others, and the
  window looks at them only where it needs a field: a refused `enable` shows as
  enabled, a refused `disable` as disabled.
- After a failed or rejected action the window transmits the next Send at once,
  past what is queued; the queue waits for an action to reach
  `duration_elapsed`.  A status request that raises ends the polling of the
  action, and from then on everything sent is queued and nothing leaves; the
  properties of `gui_queue` exempt a window in whose thread a call has raised.

The simulation's `stop()` moreover only sets an event, so it returns before the
output has been ramped to zero; `test_controller_lifecycle.py` asserts the ramp
right after `control.stop()`, which holds only if the thread gets there first.

One more thing a reader of server.py should know, of which no document says
anything: `_watchdog` forgets `_last_heartbeat` after its `stop` and `disable`,
also when a heartbeat or an `enable` arrived during them.  The controller is
then enabled and not watched until the next heartbeat.  `SilenceIsCutOff` is
stated so as to exempt it.

## What is proved

The theorems hold for every `MaxActions`, every set of `Callers`, `Methods`,
`Validity`, `Faulty`, and for either value of `JoinTimeouts`, `DriverFails` and
`Remote`, for every `MaxRequests`, and for every size of chunk, buffer, FIFO,
ramp, slack and keep time.  The assumptions are the named ones of the modules:
`MaxActions` is a positive natural number, the others have their types, the
watchdog is one of the callers, the window is the only one of its controller,
and a ramp fits into buffer and FIFO.  Where a theorem has a hypothesis of its
own, it is the limit of what holds (above): `~DriverFails` for
`UnattendedIsDisabled`, `~JoinTimeouts` for `SettledStaysSettled`, `OneCaller`
for `NewestReplacementWins`, and the last two for `OperatorInvariant`,
`DisabledStreamsNothing`, `AmplifierRisesAtZero` and `InactiveIsAlwaysOver`.  One caller is the window
that runs with its own controller, whose calls come from one thread; no join
timeout means a worker that ends within the time `stop()` gives it, the length
of the ramp and a second, at least two (backends.py:407).

- **`FieldControllerProofs`**: `ControllerInv` is inductive.  To
  `ActiveIsLive`, `ReplacementChain`, `TailAfterKeepTime` and `RejectedIsFinal`
  it adds that identifiers not handed out have empty records (`Unissued`), since
  a new record would else inherit a chain, and that the active action was
  admitted, so that no callback or replacement touches a rejected record.
- **`HardwareControlProofs`**: `HardwareInv` adds who may hold what:
  the registered task and the reserved outputs belong to a worker that is in the
  code owning them, the only live worker is the one the backend knows, a worker
  that left its loop without a fault saw the stop event, and whatever the
  backend holds was admitted.  The step relation of a worker is first cut down
  to what it may change (`WorkerFrame`), and the invariant is proved from that
  frame.  From it follow `HardwareImplementsController`, `OneWorker`,
  `OwnerIsLive`, and by a second induction `NeverCompleted`;
  `AmplifierImpliesEnabled` is inductive by itself.

  Five more inductions go on from there.  `SettledInv`, for `SettledIsFinal`:
  no worker holds an action that has ended.  Its hard case is a `stop()` that
  waits for its worker while other callers stop, send and start over it; then
  what is being played is newer than the action this `stop()` will mark
  (`Newer`), because the thread it waited for is gone and any thread since
  then was started for a later request.  `CallsAgree` ties the two halves of a call
  together.  `NewestInv`, for `NewestWins`: while `_active` is empty, or a
  `stop()` has not marked its action yet, the stop event is set for whatever
  worker there is.  `OperatorInv`, for `DisabledIsIdle` and `AmplifierOnAtZero`:
  one operator's `stop()` waits for the very thread the backend knows, so
  between it and the block that disables nothing streams (`IdleInv`), and an
  `enable()` that comes after a `disable()` has written zeros before it raises
  the line (`LineInv`).  `InactiveIsOver` is inductive next to these: `_active`
  is cleared by the last callback of the only worker or by the end of a
  `stop()`, when by `IdleInv` no worker is left.
- **`HardwareOutputProofs`**: two more inductions over `HardwareInv`.
  `CoilInv`: while the output is live a worker has still to zero it (or the zero
  write may fail), and no worker fills its buffer under the zero task of
  `enable()`; the second half is what makes a refused zero write harmless.
  From it follows `QuietWhenIdle`.  `TimingInv`: a clock runs only for an action
  that has been reported as started; from it follows `KeepTimeAfterStart`.
  A third one, `PlayInv`, is for `HardwarePlaysInOrder`: what waits for the device
  is newer than all that was reported and waits in order, what is posted is
  newer still, and a worker that opens its task is newer than all that was
  reported.  The last part is what lets a restart come after a stop that left
  pending actions unheard: they are dropped and never reported.  With it every
  step is shown to be one of `Playout` or to leave its variables alone.
- **`SimulatedControlProofs`**: `SimInv` needs no single worker.  A live
  output means that some thread is between its first write and its final zero,
  and whatever a thread plays has been reported as started; from these follow
  `QuietWhenIdle` and `KeepTimeAfterStart`.
- **`ServerProofs`**: `ServerInv` reads as a ledger.  While anything is active
  some connection owes a stop, while the controller is enabled (and the driver
  does not fail) some connection owes a disable, and a connection discharges
  its debt only by making the call.  With nobody connected no debts are left,
  which is `NothingPlaysUnattended` and `DisabledUnattended`.  Its
  part `ThreadsInOrder` says that whoever is in a call or cleans up has asked to
  control the hardware, which gives `ViewersAreHarmless`.

- **`RemoteClientProofs`**: `RemoteInv` orders the six counters of a connection
  (asked, taken in, served, sent back, taken in, returned), each behind the one
  before.  Every call that returns takes a later answer than the call before, so
  only calls that raised widen the gap.  From it follow `LagIsBounded` and the refinement `ClientKeepsPromise`.
- **`OutputStreamProofs`**: `StreamInv` has the distances (what was seen is
  behind the device, the device behind the writer by no more than buffer and
  FIFO), the positions (a clock never runs ahead of the first sample of its
  action) and the deadline.  From it follow `KeepTimeIsPlayed` and
  `RampIsPlayed`.  `OrderInv` is for `PlaysInOrder`: newer actions stand at
  later positions and the one in the slot is newer than all of them
  (`PlacedInv`); `pending` is in order, newer than what was reported, holds
  everything the device has not come to, and begins with what it has come to
  (`QueueInv`).  The last two are needed to see that a `Tick` over a position is
  a `Reach` of the head of `Playout`'s queue and that a report leaves that queue
  alone, and `PlacedInv` that one `Tick` passes one position at most.
- **`QueueModeProofs`**: `QueueInv` says what the window knows.  The active
  action is the one it last transmitted or has had its keep time
  (`ActiveIsKnown`), and if it is the one it looks at, then the status read last
  is a running one or the keep time has been stamped (`LookIsSound`); stamps stay,
  so an old reading never becomes wrong in the direction that matters.  From it
  follows `QueueIsSequential`; `RunningIsPolled` is inductive by itself.

Every invariant and every action property of the passing runs is stated by a
theorem.  Only model-checked are the liveness properties (`CallsReturn`,
`ReplacementStarts`, `KeepTimeReported`, `StoppedForGood`, `StopEnds`,
`SilenceIsCutOff`, `RequestsCarriedOut`, `QueueMovesOn`): they need rules for
fairness and `ENABLED`, which the prover does not have.  The properties of the
three runs with a counterexample are false and have no theorem.

## Plan

Done: all modules above, in the order `ActionTypes`, `FieldController`,
`NIDAQmxBackend`, `HardwareControl`, `SimulationBackend`, `SimulatedControl`,
`Server`, `Playout`, `RequestResponse`, `RemoteClient`, `OutputStream`,
`QueueMode`, and their proofs.  Next:

1. Shutdown: `RaftControlServer.close()` against open connections, and the
   window's `on_close`.
2. `QueueMode` over `RemoteClient`: late answers taken for the status of another
   action, requests that are carried out after their caller gave up.
3. `ActionLifecycle`: one record's life as an abstract specification that the
   operator's system implements.
4. Proofs: what two callers can still rely on where the theorems for one
   operator end, such as an amplifier that rises at zero if no `send` falls into
   another caller's `disable()`.

## Not modelled

- Calibration, configuration, the event log, process priority and the plotting
  of the GUI keep no state that another part waits for.  The probing scripts
  measure the rig, and the field calculation script is unrelated.
- `WaveformStream` and `build_waveform` are numerical: currents, clipping, the
  phase of a carrier at an index.  Where they are sampled is `OutputStream`.
- Of the GUI: the entries, the preview, shuffling, the viewer, which only
  reads, and `on_close`, which is a Stop followed by the end of the process.
- `RaftControlServer.close()`, and `connect()` on a client that was connected
  before, which keeps the decoder with what it holds of a frame (client.py:20);
  no caller in the repository does that.
