# A TLA+ model of VibeNode's session engine

VibeNode runs coding agents: a Flask web server (`src/src/web`, port 5050) shows sessions and
takes requests, and a *session engine* (`src/src/engine`, port 5051) runs them.  The modules in
this directory model the parts of the engine in which threads, an asyncio loop, two processes and
files meet, check them with TLC and prove the most important results with TLAPS.  Paths below are
relative to the repository (`src/` in `PROJECT.json`); line numbers are those of the mapped commit.

## 1. The system

```
 browser --HTTP/WS--> web server --JSON lines over TCP--> session engine --frames--> session host --> CLI
                      routes/*, daemon_client.py          daemon_server.py           session_host.py
                         |                                 |- SessionManager: one asyncio loop thread,
                         |                                 |   request threads, timer threads
                         |                                 |- MessageQueue      gui_message_queues.json
                         +-------- inbox.json -------------+- subsession_inbox   one file per parent
                                  (both processes)         |- SessionRegistry, session_durable: records
                                                           +- durable_jobs, job_supervisor
```

### Inventory

| Component | State it keeps | Operations | What is hard | What makes it correct |
|---|---|---|---|---|
| Message queue `engine/message_queue.py` | `_queues`, the queue file, one debounced `threading.Timer` | queue, edit, remove, clear, remap, dispatch, save, flush, load | the save and `send_fn` run outside the lock; timers race each other and the flush; death inside a write | no message twice, none lost unless discarded; the file catches up |
| Turns of a session `engine/session_manager.py` (`send_message`, `queue_message`, `_emit_state`, `interrupt_session`, `_send_query`, `_post_turn_*`, `_close_session`) | `state`, `_lock`, `task`, `_interrupted`, `_listener_superseded`, the client | send, queue, interrupt, close; on the loop: query, stream, RESULT, drain, listen, cancel, reconnect | synchronous methods call each other across locks; coroutines are cancelled late; flags of one turn reach the next | one turn at a time; state agrees with what runs; every message sent or given up; stopped stays stopped |
| Subsession inbox `engine/subsession_inbox.py`, `sessions_api.py`, `send_message` | `inbox.json` per parent, `inbox_dirty` | append, drain, cap, mark dirty, load, recover | two processes change one file; a cached flag; refusal after the drain | no report lost or delivered twice; a waiting report is noticed |
| API-error retry and self-heal `session_manager.py` 7673-8295, 4540-4860, 2547-2664; `session_durable.py` | `retry_at`, `_api_retry_needed`, `_retry_needs_reconnect`, the count, the countdown task, the durable record of the session | arm, fire, cancel, retry now, resend, heal, save (debounced, immediate), restore | request threads against the loop; what was checked before an await is used after it; an older record written last | a countdown is completed or given up; the budget holds; the queue waits for the resend; the record tells what is armed |
| Permission prompt `session_manager.py` 5790-6070, 1727-1765 | `pending_permission`, `pending_tool_*`, `state` | ask, answer, time out, cancel, interrupt, close | one slot for concurrent prompts; answers name no prompt; states are restored late | a waiting prompt can be answered; the state tells the truth at rest; every prompt returns |
| Session records `session_registry.py` | registry file | save, recover | older data written last | the newest entry is recovered |
| Session host `session_host*.py`, `backends/claude_host.py` | output buffer, seq numbers, pending asks, acks, cached initialize | attach, replay, ack, trim, detach, shutdown, rename | engine restarts while the CLI prints; what is replayed meets what the transcript has | every message reaches the engine once, in order; every request is answered once |
| Engine link `daemon_server.py`, `web/daemon_client.py` | `_sock`, `_connected`, `_reconnect_thread`, pending requests, the engine's list of clients | connect, call, answer, push, heartbeat, force a disconnect, reconnect | four kinds of threads share two fields without a lock; connections that neither deliver nor fail | somebody reconnects while the link is down; it comes back; no connection is left behind |
| Durable jobs `durable_jobs.py`, `job_supervisor.py` | job registry, lock file | launch, relaunch, leave, tick: decide, apply | crash between launch and save; three writers in two processes and a command line | no second process of a job; what is done is not relaunched; what died is decided upon |
| Kanban `web/kanban`, `web/db` | cards | transition, propagate | a read, a check and writes in separate statements | only legal transitions |
| The rest (health monitor, usage limits, hand-off rules, process cleanup, adapters, compose, orgs, launcher, front end) | see `PROJECT.json` | | text rules, I/O, rendering | not modelled |

Interactions: the web server calls the engine over TCP, each request in a thread of its own
(`daemon_server.py` 440-463); request threads hand coroutines to the loop with
`run_coroutine_threadsafe`; `_emit_state` on any thread dispatches the queue, which calls
`send_message`; `report-to-parent` writes the inbox from the web server, the drain reads it in
the engine.

## 2. Plan

Done, in this order: `MessageQueue` with its proofs; `SessionTurns`; `SubsessionInbox` with its
proofs; `SessionHost`; `MessageDelivery`, the abstract queue, and the
proof that the queue implements it; `DurableJobs`; `DaemonLink` with its proofs; `AutoRetry` (with the part
of the durable records that the countdown needs); `PermissionPrompt`; the proofs about `DurableJobs`,
`PermissionPrompt`, `AutoRetry`, `SessionTurns` and `SessionHost`.

Left, in this order:

1. `SessionHost`: an abstract FIFO of messages that it implements.
2. `SessionRecords`: the registry's sweep and recovery over the host's restarts.

The kanban state machine (`web/kanban/state_machine.py`) comes after these: a transition reads, checks and writes a
card and its parent in separate statements, so two requests can both pass the check, but it is apart
from the engine and depends on the isolation of two database back ends.

`SessionTurns`, `AutoRetry` and `PermissionPrompt` are three views of one `SessionInfo`: each keeps
the fields its own properties need and the operations that touch them, and takes the rest of a turn
as one step.  `MessageQueue` is the queue itself, with its file.  Modules that are proved about use
no RECURSIVE operator; parameters are CONSTANTS with named assumptions; each invariant is a
conjunction of named parts.

## 3. The modules

### MessageQueue (`engine/message_queue.py`)

The code holds `_queue_lock` for each change of the queues and calls `save_queues()` and
`send_fn` after it: the critical section is one action, each unlocked step an action of its own.

| Code | Model |
|---|---|
| `_queues` | `queues`, messages with an id beside their text |
| `gui_message_queues.json` | `disk` and `file` ("whole", "empty" after the truncation, "mixed" after two overlapping writes) |
| `_queue_save_timer`, Timer threads | `timer`, `saver[x]` |
| a thread between its steps | `pc[t]`, `held[t]` (the popped message) |
| `queue_message` ... `remap_session` | `QueueMessage`, `RemoveQueueItem`, `EditQueueItem`, `ClearQueue`, `Remap` |
| `try_dispatch` | `PopHead`, then the save, then `SendTaken`, `SendRefused` or `SendQueuedAgain` |
| `save_queues` | `SkipSave`/`DecideSave`, `AssignTimer`, `StartTimer`/`StartTimerRaises` |
| `_save_queues_now` | `TakeSnapshot`, `Truncate`, `Fill` |
| `flush`, process death and `_load_queues` | `Flush`, `Restart` |

### SessionTurns (`engine/session_manager.py`)

A synchronous method is a frame on the stack of the actor that runs it (request thread, timer
thread or the loop), with one label per point where another actor can come between.  While the
loop has a frame it runs nothing else.  `ready` is the loop's FIFO of callbacks, `life[k]` says
where coroutine `k` stands, `cancelled` which of them have a `CancelledError` on its way.  Message
`m` is sent by coroutine `m`; 0 is the first turn of the session.

| Code | Model |
|---|---|
| `send_message` 1600-1725 | `SendAcquire` ... `SendSchedule` |
| `queue_message`, `_try_dispatch_queue` | `QueueAppend`, `QueueCheck`, `Dispatch*` |
| `_emit_state` and its deferred re-emit | `Emit*`, `Reemit*` |
| `interrupt_session`, `_interrupt_session` | `InterruptPop` ... `InterruptSchedule`, `InterruptCallback` |
| `close_session_sync`, `_close_session` | `CloseRequest`, `CloseCallback`, `CloseEnds` |
| `_tracked_coro`, `_send_query` | `SpawnTurn`, `TurnBegins`, `TurnResets`, `Reconnected`, `QuerySent`, `TurnResult`, `TurnSettles`, error paths `StreamStops`, `EndedWithoutResult`, `Mend`, `Mended`, ends `Thrown`, `Unwound`, `Catch`, `Final` |
| `_post_turn_compact_drain`, `_extended_post_turn_listener` | `DrainEnds`, `AutoResumes`, `ResumedResult`, `ListenFails` |

### SubsessionInbox (`engine/subsession_inbox.py`, `send_message`, `report-to-parent`)

`inbox` is the file; each process has a `lock`; a thread loads its `copy` and replaces the file
in a later step.  Reports are written by the web server; the automatic report of the engine is
modelled with its test of the entry's kind.  `dirty` is `inbox_dirty`.  `overlapped` and `missed`
are history: two processes met in the file; the flag was lost over a waiting report.

### SessionHost (`engine/session_host.py`, `engine/backends/claude_host.py`)

The CLI, its host and one engine after another.  A line is its number in `lines`, which keeps the
time the CLI put into it and the time the host read it.  A handler of the host runs from one await
to the next as one action; frames wait in `down[c]` (engine to host, per connection) and `up`.

| Code | Model |
|---|---|
| `_on_cli_message` | `OnCliMessage`, by `CliInitAnswer`, `CliMessage`, `CliAsk`, `CliResult` |
| `_pump_cli` after the stream | `CliExits`, `ExitFinish` |
| `LineBuffer` | `buf`, `BufferedSince`, the trimming in `OnAck` |
| `_attach` up to its first await, its loop, its end | `Attach`, `Frame` with one action per frame, `Leave` |
| `_on_write` | `OnInitialize`, `OnUser`, `OnAnswer` |
| `_orphan_watch`, `_shutdown` | `Orphaned`, `OnShutdown`, `ShutdownEnds` |
| `reconcile`, `HostTransport.connect` | `StartEngine`, `ReadHello` |
| `_pump`, `_read_impl`, `release_replay` | `PumpHead`, `Hold`, `Consume`, `Process` |
| `_restore_entries_from_transcript`, `read_log_entries` | `Restore`, `Restored` |
| `stop`, `close_session`, `kill -9` | `Detach`, `Sleep`, `Kill` |

`replaced` and `crossed` are history: the engines that attached before the host saw their predecessor leave
(a killed engine's frames are still being read), and that a user's message met a turn whose end
the engine had not seen.

### MessageDelivery

`MessageDelivery` says what the queue promises of each message and nothing of threads, timers and
files: it waits, is in the hands of a dispatch, is delivered, or is lost; it is delivered once at
most, and leaves "delivered" and "lost" never, as long as the process lives.  A death may keep any
accepted message waiting, as the file may be old.  `MessageQueue!Delivers` is that specification
under a refinement mapping (`accepted` is `nextId`, `waiting` the ids in the queues, `inHand` those
held by threads, `lost` those removed, cleared, remapped away or dropped); `mq_queue` checks it and
`MessageQueueProofs` proves it.

### DurableJobs (`engine/durable_jobs.py`, `engine/job_supervisor.py`)

The registry, its lock, the supervisor's thread and the other writers (`Clients`: the web server
and the command line).  A tick reads the process list, decides under the lock, and applies under
the lock, which it holds from `TickBegins` to `TickEnds`.  A launch starts a process at once and
becomes known with the save; in between the writer may die.

| Code | Model |
|---|---|
| `_locked`, `load_registry`, `save_registry` | `lock`, `copy[w]`, `disk`; `Save`, `ClientSaves` |
| `run_job`, `relaunch_job`, `leave_job` | `RunJob`, `RelaunchJob`, `LeaveJob` |
| `launch_detached`, `_launch_record`, `apply_relaunch` | `Launched`, `LaunchRecord`, `AfterLaunch`, `Relaunched` |
| `tick`, `_decide_all`, `decide`, `_apply_all` | `TickBegins`, `DecideAll` with `Action` and `Absent`, `Apply`, `TickEnds` |
| external: the job, time, the machine | `Job`, `Ages`, `WriterFails`, `MachineRestarts` |

### DaemonLink (`web/daemon_client.py`, `engine/daemon_server.py`)

The threads of the web server that share `_sock`, `_connected` and `_reconnect_thread`, one label per point
where another thread can come between, and the engine's accept loop and list of clients.  A connection
has an end at each side (`fd`, `peer`); one that is closed while `recv` or `sendall` waits on it is held by the
kernel ("held"); one that the host slept through is `mute`.  A `sendall` on a mute connection may go
through or block (`wsock`): then it keeps the write lock, and everyone who has something to write, the
heartbeat too, stays at "send" behind it.  `_start_reconnect` is what it is in the code, three steps without a lock: the
test, the assignment of a thread object (label "new", not alive yet), and the start of whatever object
`_reconnect_thread` names by then, which raises if that one was started before.  So two reconnect threads may
live at a time, and one may be made and never started.  Time is one delay (`Slept`): a thread that has
nothing to wait for is done before a sleep or a timeout of another ends, and a wait that ends early or late costs one
of the `MaxFaults`.  `_connect`'s two stores (376-377) are one step, which lasts less than a switch between threads
does; a socket without a reference is closed by the interpreter at any time (`Collect`).

| Code | Model |
|---|---|
| `_send_request`, `_send_request_raw` | `Call`, `Send`/`SendBlocks`, `BlockEnds`/`SendFails`, `AfterFailure`, `Waited` |
| `_heartbeat_loop` | `Call(Heartbeat)`, `PingTimesOut`, `Probe` |
| `_force_disconnect` | `ForceDisconnect`, `TakeSock`, `Discard`, `HeartbeatStarts` |
| `_start_reconnect` | `StartReconnect` (the test), `Assign`, `Start`/`StartRaises` |
| `_reconnect_loop`, `_connect`, `_deferred_resync` | `Loop`, `Close`, `Unset`, `Dial`/`Refused`, `Resync`, `AfterConnect`, `Exits` |
| `_reader_loop` | `PickUp`, `Recv`, `RecvFails`, `Ended`, `Drop` |
| the engine's `start`, `_handle_client`, `_push_event`, `_dispatch_sync`, `_drop_client` | `Accept`, `Pushed` (in `Recv`), `Serve`, `DropClient` |
| external: crash, sleep, keepalive, interpreter | `Crash`, `Sleep`, `Keepalive`, `Collect` |

### AutoRetry (`session_manager.py` 2547-2664, 4540-4860, 7673-8295, 10038-10123; `session_durable.py`)

One session, its turn's coroutine, the countdown tasks and `retry_now`'s coroutines on the loop,
and request threads.  The loop's code between two awaits is one action; a section under
`info._lock` is one action of a request thread.  `_fire_api_retry` is three, because its promise is
about the order of its assignments.  A failed turn takes one of three channels: an error RESULT
(`TurnFails`, then `FailedArms`), an exception (`TurnRaises`), a dead transport (`TurnDies`, then
the self-heal `Heals`/`HealFails`).

| Code | Model |
|---|---|
| `_arm_api_retry`, `_clear_api_retry`, `_cancel_api_retry_task` | `Arm`, `Clear`, `Cancelled` |
| `_api_retry_timer`, `_api_retry_timer_fire` | `Wakes`, `Redialled`, `ReconnectFails`, `TaskDies` |
| `_fire_api_retry`, `_handle_retry_send_failure` | `FireBegins`, `FireSends`, `FireEnds`, `FireRefused` |
| `retry_now`, `_do_retry_now_reconnect`, `cancel_auto_retry` | `RetryNow`, `Redialled`, `RedialFails`, `Cancel`, `CancelSets` |
| `send_message`, `queue_message`, `_emit_state`, dispatch | `Send`, `Queue`, `Reemit`, `Emitted`, `Dispatch` |
| `interrupt_session`, `_close_session` | `Interrupt`, `Close`, `Closes` |
| `capture`, `_flush_one`, `_durable_save` | `Rec`, `SaveSoon`, `SaveNow`, `FlushStarts`, `FlushEnds` |
| death of the engine, `start_session`, `_durable_restore_timers` | `Restart`, `Starts`, `Restores` |

### PermissionPrompt (`session_manager.py` 1727-1765, 4873-4922, 5468-5513, 5793-6066)

Each request of the CLI is a callback on the loop that waits for its `Event`, looking every 100 ms;
`slot` is `pending_permission`.  A tab's answer is three steps on a request thread (`Checks`,
`Takes`, `Sets`: the state, the slot, the event), as none of them is under a lock.  An interrupt or
a close sets the state on a request thread and hands its second half to the loop (`pending`).

| Code | Model |
|---|---|
| `can_use_tool`: before the prompt, the prompt, after the wait | `Ask` (allowed without a prompt, or `Prompt`), `Wakes`, `TimesOut`, `ClientGone`, `Cancelled` |
| `resolve_permission` | `Click`, `Checks`, `Takes`, `Sets` |
| `interrupt_session`, `_interrupt_session` | `Interrupt`, `InterruptRuns` with `Denies` |
| `close_session`, `_close_session` | `Close`, `CloseRuns`, `Disconnected` |
| `_send_query`'s self-heal, `_reconnect_client` | `TransportDies`, `HealDisconnects`, `Reconnects` |
| external: the CLI | `CliStops`, `Trouble` |

## 4. What is checked

| Run | Question | States |
|---|---|---|
| `mq_queue` | duplication, loss, the file at rest, over every interleaving and a death; the abstract delivery implemented | 77 thousand |
| `mq_eventually` | a change reaches the file (fair) | 9 thousand |
| `st_turns` | one turn, agreement at rest, without interrupts and failures; every message reaches the CLI (fair) | 165 thousand |
| `st_trouble` | the same machine with an interrupt, a close, a resume and a failure: nothing sent twice or after its discard; stale coroutines | 724 thousand |
| `si_inbox` | reports, drains, cap, flag, failed writes, engine death | 949 thousand |
| `sh_host` | messages, requests and the state of the turn across a kill, a detach or a sleep of the engine and the attach of the next | 1.7 million |
| `dj_jobs` | no second process, no relaunch of what is done, passed or left, over a fault of a writer or the machine; what died is decided upon (fair) | 956 thousand |
| `dl_link` | who reconnects, no connection left open but by a collision of two threads; the link comes back after two faults, or is astray as `Recovers` says (fair) | 385 thousand |
| `ar_retry` | countdown, budget, record and order of the resend against two commands of the user, two failed turns and a restart; the retry happens (fair) | 440 thousand |
| `pp_prompt` | two prompts, two tabs, two troubles: answerable, true at rest; every prompt returns (fair) | 369 thousand |
| `st_deadlock`, `ar_jump` | disagreements of the code with its own documentation, see section 6 | |

**Bounds.**  Every bound is a constant named `Max...`, in a guard, but for the constraint of `dl_link` below.  Two threads are enough for the
races here: each property relates at most two request threads with the loop or a timer.  Two
sessions are there for the remapping of ids, two texts for the duplicate test, two timers because
a new Timer can be made while an old one writes.  `st_turns` has two messages beside the first
turn: one that runs, one that waits or replaces it.  A cap of two with three reports reaches the
eviction with delivered and undelivered entries.  `st_trouble` allows one of each trouble, so it
has every pair of them in every order.  `sh_host` has two engines, as each property is about one
that takes over; three lines are an answer to initialize with a message and a result, or two
messages, or a message and a request, before, between and after detach and attach; `AckEvery` of 2
reaches both reasons for an ack; the clock has the tick of the detach and one after it.  `dj_jobs` has one job (jobs meet in the lock, and where the command of one contains that of another: `is_running` looks for a substring, which is left out), one client
beside the supervisor, three launches (a first one and two relaunches, with a limit of one) and one
fault: each property is about one fault between two steps.  `dl_link` has two faults, so that the second hits
the recovery from the first, two connections (the old one and the new one), two reconnect
threads (more need a third thread that passes the test of 511 in the same instant) and one request beside the heartbeat's.
From the point where two threads have replaced the connection at a time it explores one fault and no request only
(the constraint `AfterACollision` of `MCDaemonLink`): without it the state
space is too large for two faults.  With `MaxFaults = 1` and without the constraint the four properties hold as well (1.9
million states, 17 minutes).  `ar_retry` has `Max` of 1, so the budget is
used up by the second failure; two commands race each other, the timer and the resend; reconnects
of a countdown may fail at every try.  `pp_prompt` has the two prompts of one turn that
overlap or follow each other, two tabs that answer the same one or one each, and two troubles, so an interrupt
meets a heal, a close or another interrupt.  Three
assumptions about time are in the model of the host, each where it is used: an engine takes longer to start
than the clock's resolution (`Attach`), hellos are read in the order of the connections (`Attach`),
and what the CLI wrote is read before the next engine attaches (`CliMessage`).

**Symmetry** is over threads (and sessions, texts, timers where nothing orders them), only in runs
without liveness.

**Fairness.**  `MessageQueue!FairSpec`: threads finish what they began and started timers fire
and write; no operation is forced to begin.  `SessionTurns!FairSpec`: threads, timers and the loop
keep running (weak fairness, as any scheduler gives), and what an await waits for comes: the CLI
answers, the watchdog and the snapshot end.  Stream failures, interrupts, closes and resumes are
never forced.  The CLI's answer is an assumption: the code's watchdog covers a CLI that hangs, which is
not modelled.
`DurableJobs!FairSpec`: a tick that has begun goes on, whoever holds the lock saves, and the
supervisor gets the lock at some time although others take it again and again (strong fairness: a
try polls for ten seconds, the next one is thirty seconds later); jobs, clients and faults are
not forced.  `DaemonLink!FairSpec`: the web server's threads and the engine's loop go on, an engine
that is down is started, and it has something to push from time to time; the heartbeat's timer and
a reconnect's sleep end (strong fairness, since `InTime` disables them while others are on the
move).  A blocked `sendall` ends at some time, when the kernel gives up on the unacknowledged data or by keepalive (weak
fairness of `Keepalive` on the connection where one is blocked): the second of the two defences of 36-45,
without which the write lock would never be free.  On a connection without a blocked write nothing is asked of
keepalive, nothing of the interpreter, and nobody has to call.  `AutoRetry!FairSpec`: while the loop, a thread or a save can go on, one of them
does; an answer of the CLI or a failure comes at some time.  `PermissionPrompt!FairSpec`: the
loop and request threads go on, and a tab that shows a prompt is answered; the hour's timeout is not
used.

Deadlock is checked in `dj_jobs`.  Elsewhere it is not: the bounded systems stop when their
requests are used up, and a real one rests whenever nobody sends; `Delivered`, `Recovers`,
`Resumed`, `Returned` and `NoSelfDeadlock` ask what deadlock checking would.

Each property of a passing run has a mutant in `PROJECT.json`: a plausible bug in a mapped
definition under which TLC finds the property violated.

## 5. What is proved

`MessageQueueProofs` proves, for every set of sessions, texts, threads and timers and every bound,
from the assumptions of `MessageQueue` (bounds are naturals, `None` is no timer, threads are not
timers): `TypeCorrect`, `HeldCorrect`, `NoDuplication`, `NoSilentLoss`, `SavedCopies`,
`QuietSaved` (`QuietMeansSaved`).  The
properties are not inductive by themselves.  `IInv` adds where a thread may hold a message, that
ids not yet accepted are nowhere, that what a snapshot or the file holds has no repetition, and
that the places of an id exclude each other; the step is proved action by action from lemmas on
the id sets of a queue after an append, a removal, an edit, a remap and a pop.  `QuietSaved` has an
invariant of its own, `SaveInv`: unless `raced`, one writer at most is between the truncation and the
fill, and the queues are in the newest snapshot, or somebody will take one (`Owing`), or they are
in the file and nobody writes.  Which snapshot is the newest needs no order of time: a writer
that has its snapshot only (`Ready`) took it after the one that has truncated (`Midway`), as that one was alone.

`SubsessionInboxProofs` proves, for every number of threads, every cap and every bound:

* `LockSuffices` (`LostOnlyToOverlap`): no written report is overwritten unless the two processes
  met in the file.  `FileInv` adds that a thread is between load and write exactly while it holds
  its process's lock, that before an overlap one lock is held at most, and that the holder's copy
  is what the file holds; steps are of three kinds (beside the file, load, release), each a lemma.
* `FlagFollowsFile` (`NoticedUnlessMissed`): the flag follows the file.  `FlagInv` adds the
  threads on their way: a waiting report of a loaded parent has the flag, or has lost it, or a
  thread is about to mark or to clear.

* `TypeCorrect` (`TypeOK`, the cap of the file among it) and `EvictsDeliveredFirst`
  (`DeliveredGoFirst`), from `InboxInv`: a copy is within the cap too, so an append is one over it at
  most, and every entry marked delivered, in the file or in a copy, was returned by a drain.  The
  second is needed because a thread may write back a copy as old as it likes: what it marks
  was marked by a drain before.  `Done` and `Waiting` take the places of a list in order by their
  rank and not by `SelectSeq`, a recursive definition about which the provers know nothing;
  `Halves` says that they divide the list, `CapProperties` what `EnforceCap` drops.

`MessageQueueProofs` also proves `Refinement` (`Spec => Delivers`): initial states map to initial
states, and each action of the queue maps to one of `MessageDelivery` or to a stutter, by the
invariant of `MessageQueueProofs`, which says that the places of an id exclude each other.  Saving,
timers, edits and remaps between ids are stutters; a remap over a queue is a `Drop`; a restart is a
`Die`.

`DaemonLinkProofs` proves `TypeCorrect`, `NeverLeftAlone` (`SomeoneReconnects`) and
`NothingLeaks` (`NoLeak`) for every number of callers, reconnect threads and connections.  `SomeoneReconnects` is inductive together with the
types and one more fact: a ping or its answer is under way only while the heartbeat waits, so that
the reader's wake-up never takes the heartbeat from a label where it was about to start a
reconnect.  The step is in three lemmas (`MoveKeeps` for what one thread's move does to what is said of
labels, `StartSteps` for the four steps of `_start_reconnect`, `Sit` for steps of the network) and one case per action:
a thread leaves the labels at which it brings the connection back only when the connection is up,
when it has started another, or when it found one alive; in the last case that one is at it,
or at its end, which `abandoned` records.  A thread that is to start one counts only while the object it is
to start is not started: when another was quicker, that one's thread is at it.
`NothingLeaks` is `Spec => []NoLeak`: until `collided`, one reconnect thread lives at a time, the current
connection alone is open, and none is when a thread is about to forget it or to connect (`Closed`); the two
steps that break this, the start of a second thread and the forgetting of a new connection, set `collided`.

`DurableJobsProofs` proves `TypeCorrect`, `NoSecondRunHolds` and `RelaunchIsDueHolds` for every set of
jobs and of clients and every bound, from the constants' assumptions (one of them, that `None` is no
record).  `IInv` says per job what the registry knows (`RegistryOK`: its record names the last
launch that was saved, and the earlier ones are over, or a person relaunched it since), what the holder of
the lock is about to save (`CopyOK`: the same, or the one launch it made itself), and what the
supervisor has found out and not yet acted upon (`DecisionOK`: it still holds).  The last one is why
the lock has to last from the decision to the last launch: jobs only die, and only its holder
launches.  "Since a person last decided" is the greatest of a set of launches, whose existence comes
from the least-number principle of `WellFoundedInduction`.

`PermissionPromptProofs` proves `TypeCorrect`, `PromptsAnswerable` (`Answerable`) and
`StateTellsHolds` (`StateTells`) for every set of prompts and of tabs.  `Orderly` is what is so while
no prompt overlaps another and no answer outlives its prompt: the slot, what the tabs show and what
they clicked at belong to the one prompt that waits, and whoever empties the slot has answered it.
`Told` is what is so, besides, while no interrupt or close meets an answer: whoever may set the state
back (the prompt, with its `was`; the second half of an interrupt or a close) finds the turn it was
set for.  The three marks are the only ways out of the two parts: the proof says that no fourth race is left.

`AutoRetryProofs` proves `TypeCorrect`, `CountdownServedHolds`, `HeldBackHolds`, `BudgetKeptHolds` and
`RecordTellsHolds` for every set of request threads and tasks and every budget.  `HeldBack` needs `Held` only (the gate is closed from
the arming to the resend).  `CountdownServed` needs a table of who owes the next step: `TasksOK`
(the handle points to a task that lives and is not cancelled, one task at most fires, and a resend
has dropped the handle) and `CountdownOK` (a countdown over a turn has somebody firing; one without a
handle has a resend or a start).  It is inductive until `orphaned` or `closed`.  The attempt to prove it
found two ways to lose a countdown that the run's bounds hide, and `orphaned` now marks them:

* the restoring of a session arms its countdown over a turn that a send has started meanwhile
  (`session_manager.py` 10077-10080);
* a send comes while the timer reconnects, and the reconnect fails before the send's cancel
  reaches the timer, which then arms over the running turn (8018-8040).  When that turn's transport
  dies, the self-heal does not clear the countdown, and the timer drops it at its check: it stays set
  with nobody.  It takes `Max = 2` and `MaxFailures = 5` to see it with TLC.

`BudgetKept` needs `TimersOK` (one timer at a time: one that waits has the handle or is cancelled, and
none is on its way to a resend while another reconnects) and `BudgetOK`: the attempts made are counted
in `_api_retry_count`, or were lost in one of the restarts; the durable record lags by the attempt
that is being made, and not at all where a timer may still make one.  As it was first written it was
false with `Max = 2`, `MaxFailures = 5` and no restart, which `ar_retry` does not reach: a give-up
restarts the count (8044) while a turn or a resend goes on, and it drops the handle of another
timer (8035), which then fires uncancelled.  A give-up now ends the chain that is counted, and the
dropped handle is marked `orphaned`.  The invariants were checked with TLC at `Max = 2`, `MaxFailures = 5` and two
commands (with and without a restart), and `Max = 1`, four failures, three commands and a
restart (13 million states), before they were proved; larger instances also showed that `Wakes` has to
wait for a cancel that is older than the countdown, as `Redialled` does.

`RecordTells` needs `Told`, which no other part asks for: the latest record, waiting, being written
or on the disk, says whether a countdown is armed, or a turn, a resend or a request that is going to
save is under way.  The one countdown that is dropped without a save is that of a failed turn over
which a resend has used the budget up; `Overrun` says that this resend is still going on.

`SessionTurnsProofs` proves `TypeCorrect`, `SentOnceHolds` and `StaleHandsOffHolds` for every number
of threads, messages, interrupts, closes, resumes and failures.  A message is a frame's argument in one of
several calls on one of several stacks, then an entry of the queue, then a coroutine; "sent once"
needs that it is one of these at a time.  `Placed` says so: a message that has no coroutine is
carried by one frame of one stack, or is in the queue, or is not accepted yet; a dispatch that waits
for the `send_message` it called has the message it took out of the queue above it.  `Lined` says that a
callback on the loop fits its coroutine's life: one spawn per coroutine, one throw, and none for a
coroutine whose last block runs.  `Gave` says that what was sent is past its query and not dropped.
Frames are pushed, popped and replaced at the top of a stack in all the actions, so the lemmas about
a stack come first (`Push`, `Pop`, `OnTop`), then what a step of a call does (`WorkStacks`, `WorkAdvances`,
`WorkFollows`), then one lemma per kind of action.

The second half of `SessionTurnsProofs` is about the runs in which nobody has called `interrupt_session`, which sets
IDLE without `info._lock` and without a look at the turn that runs (section 6 has what it
breaks).  `OneTurnHolds`, `WorkingIsServedHolds` and `RestIsRestHolds` are about every reachable state
of `Spec` whose counters say so (`interrupts = 0`, and for the second `failures = 0`, for the
third `closes = 0`): not about other machines.  Each counter is needed; TLC finds a counterexample
to the property where it is positive, and none where only the others are.  `QuietRuns` puts them together
for the runs that have none of the three, which is what `st_turns` checks on a small instance.

* `Served` is the reason why one message has the session: from the flip to WORKING under the lock to the
  RESULT or the failure of its turn, `Holds(k)` is true of one `k` only; the state is not IDLE
  meanwhile; whoever is between the check and the flip finds nobody (so the unlocked window after
  `sm_check` does no harm); the coroutine that has `info.task` is the one that holds it, or
  is one that has ended or is marked superseded, whose late RESULT leaves the state alone.
  `Tidy` says which frames can be on a stack at once: one frame in the locked block of `send_message`, whose
  actor has the lock, and one last block of a coroutine, at the bottom of the loop's stack.
* `Prompt` says that a send cancels only a coroutine that is past its RESULT (`Passed`), from the frame that
  captured it to the callback, and that a CancelledError is on its way to whoever is cancelled.
* `Working`: a session that shows WORKING has a holder that is not cancelled, or its listener streams a turn
  of the CLI's own, or it is being closed.  A failure breaks it (`_listen_after_turn` only returns).
* `Resting`: a listener that streams a turn shows WORKING, or its cancellation is in a frame, a callback or on its
  way (`Doomed`).  A close breaks it: it ends with STOPPED over whatever runs.

The steps are split by what they do to the frames that matter: `Stands` (nothing), the three of
`send_message`, a step for one coroutine (`Serves`, `Proceeds`, `LineServes` say what it may do, proved
once for each of the 21 actions), and the loop's other callbacks.

`SessionHostProofs` proves `TypeCorrect`, `NothingMissingHolds`, `OnceInOrderHolds`,
`AnsweredOnceHolds` and `TurnAgreedHolds` for every number of engines, lines and messages, every clock, and every
`AckEvery`, from the constants' assumption (of the clock's bound: that it is past the host's start).  `Inv` has ten
parts, and TLC checked it on `sh_host` and, for five minutes, with three engines before it was proved:

* `ConnInv`, `EngineInv`: connections are attached in their order; without a `replaced` engine the writer is the
  only connection whose loop runs; an engine gets nothing before its hello.
* `TimeInv`, `BufferInv`: the times of the lines go up; what was printed since the detach is in the buffer,
  past every acknowledgement that has been or will be read.  So the trimming is safe: an ack names what an engine
  has read, and no engine reads while none is attached.
* `OrderInv`, `KnownInv`, `NewInv`: the lines on their way are in order; each message is shown,
  on its way, or from before the hello's time and about to be restored; what is on its way is newer
  than what was restored, or is skipped.  The time of the detach is the only thing that
  separates the three sources, and a message may be written before it and read by the host after it: those are the
  ones `_is_dup` is for.
* `AskInv`: the host's pending requests are the CLI's; one is at one place at a time.
* `TurnInv`: whatever comes last of the lines that decide (a result, a message that is not skipped) tells
  what the host counts; when none comes, what the engine shows does.  At an attach this needs
  that the last such line since the detach decides for the host too, and that all of them are replayed.

The definitions of the model that sort a set are by rank (`InOrder`: the i-th number has i numbers up to itself),
not by the recursive `SetToSortSeq`; that an increasing enumeration of a set is unique is one of the first lemmas.
The proof found a case that two engines cannot reach: with three, the host may read the message of an engine that was replaced
while the third, which was not, is attached, and then counts a turn that this one does not
show.  `TurnAgreed` had its exception for the engine that attached too early only, and has it
now for the session once any engine did.

## 6. Disagreements between the code and its documentation

Listed as violation runs, each a short counterexample of TLC:

* `st_deadlock`: `send_message` -> `queue_message` -> dispatch -> `send_message` on one
  non-reentrant lock, when an unlocked IDLE comes between the two checks.
* `ar_jump`: an error RESULT sets IDLE (6840) and flags the turn for its retry, but the countdown is armed
  only when the stream has ended (4568-4571).  A request that queues a message in between finds IDLE and `retry_at` at 0
  (`queue_message` 1844-1850, whose gate, like that of `_emit_state`, looks at `retry_at` only), and dispatches
  it ahead of the failed turn that 10271-10275 says must run first; the new turn replaces the coroutine, so the
  failed one is not retried at all (4560).  The same property fails in a second way, after a dead
  transport: the IDLE of the catch-all (4726) opens the queue while only the self-heal is pending, which is not in `retry_at` either
  (restrict `Owed` to `turn = "died"`; TLC gives `TurnDies`, `Queue`, `Dispatch`).

The modules state more properties that the code breaks.  To see one, put it as the only property
of the configuration named (an INVARIANT, where not marked PROPERTY), under `Spec`, without
SYMMETRY for a PROPERTY:

| Property | Configuration | What happens |
|---|---|---|
| `FlushSurvivesExit` | `MQ_queue.cfg` | a save already running can end after the flush of a clean exit (`message_queue.py` 265 cancels the timer, not a save that writes) |
| `DebounceCapturesLatest` | `MQ_queue.cfg` | `save_queues` skips while a timer *thread* is alive, also when that thread has taken its snapshot, so the change waits for the next operation; the comment at `message_queue.py` 82 says the save "will pick up the newest state" |
| `StopSticks` (PROPERTY) | `ST_trouble.cfg` | a send past its check (1699) sets a closed session to WORKING; so do the interrupt's and the error handler's IDLE |
| `NothingOverwritten` | `SI_inbox.cfg` | the inbox lock is per process, the writers are in two processes |
| `DrainedInOrder` | `SI_inbox.cfg` | a report is drained twice |
| `DrainedIsTaken` | `SI_inbox.cfg` | the parent stops between the drain and the check |
| `WaitingIsNoticed` | `SI_inbox.cfg` | the flag is cleared over a report that came after the drain; a stopped parent loads again with `inbox_dirty` FALSE: nothing re-derives it from the file, as `session_manager.py` 3156-3157 says |
| `AutoReportReports` (PROPERTY) | `SI_inbox.cfg` with `MaxSends = 1` | the automatic report (`session_manager.py` 2996) looks for entries of kind "assistant", the transcript's are "asst" (6241): it never reports |
| `OneInitialize` | `SH_host.cfg` | an engine that is killed between its initialize and the CLI's answer leaves a host without a cached answer, so the next engine's initialize reaches the CLI as well |
| `OnceInOrder` without `epoch \notin replaced` | `SH_host.cfg` | an engine that attached before the host saw its predecessor leave restores all of the transcript; a live line read between the hello and the restoring is in both, and `_is_dup` skips only replayed lines |
| `AnsweredOnce` as `~doubled` | `SH_host.cfg` | the answer of a replaced engine is still on its way when the request is replayed and answered again |
| `OneReader` | `ST_deadlock.cfg`, one message, no failure | a turn awaiting its watchdog swallows the cancel of the next send and listens beside it |
| `NoneLeftBehind` | `ST_trouble.cfg` | a message queued between the discard and the IDLE of an interrupt stays behind |
| `OneTurn` | `ST_trouble.cfg` with `MaxMessages = 2` and no closes, resumes and failures | an interrupt sets IDLE before a sent message's coroutine has begun: the next send passes its check, and both query |
| `WorkingIsServed` | `ST_trouble.cfg` | an interrupt without a captured task cancels a later turn; a stream that fails under a turn the CLI started leaves WORKING |
| `RestIsRest` | `ST_trouble.cfg` | an interrupt before a turn's first step is forgotten, the turn runs under IDLE |
| `StaleHandsOff` (PROPERTY) without its exception for the error handler | `ST_trouble.cfg` | after an interrupt, the old turn's error handler sets IDLE over the new turn |
| `ProgressKeepsRelaunches` (PROPERTY) | `DJ_jobs.cfg` | each relaunch writes a log of its own, but `log_size_at_relaunch` (`durable_jobs.py` 426) is the size of the log before it: a run that lives long and writes less than its predecessor "has not progressed", and the job is handed to a person; `job_supervisor.py` 20-21 says that a job that dies after real progress keeps its relaunches |
| `NotTwice` | `DL_link.cfg` | `_start_reconnect` starts a thread "if not already running" (511), and tests and starts without a lock (513-526): two threads that lose the connection together start one each |
| `ThreadsLive` | `DL_link.cfg` | one of the two starts the object that the other has assigned and started: `Thread.start` raises RuntimeError, which ends the reader (718-722, outside its `try`) or the heartbeat (`_force_disconnect`, 570) for good |
| `HeartbeatHeals` (PROPERTY) | `DL_link.cfg`, under `FairSpec` | of two reconnect threads the second replaces `_sock` while the reader has taken the connection of the first: the reader goes on there, and a forced disconnect closes the other one, so it does not wake the reader as `daemon_client.py` 541-544 says |
| `InterruptSticks` (PROPERTY) | `PP_prompt.cfg` with one prompt, one tab and `MaxTroubles = 1` | a prompt that was answered just before the interrupt sets WORKING over its IDLE (6050), although the comment at 6041-6044 says that it must not, and no result follows that would reset it |

The history variables mark where the other properties have exceptions; each is a behaviour of the
code that a reader should know:

* `AutoRetry!wiped`: the `finally` of `_fire_api_retry` (8256-8260) clears a countdown that a resend
  which failed at once has armed.
* `AutoRetry!orphaned`: `retry_now`'s coroutine has no handle, so nothing cancels it, and it checks
  nothing after its await; a countdown armed between its cancel and its resend loses its handle.  With a
  dead transport it cancels the timer (2610), and when its reconnect fails (2655-2660) `retry_at` stays
  set with no timer, the state that 7944-7947 calls the worst.  Nor does anything cancel a countdown
  that a start restores, or a failed reconnect arms, over a turn that has begun meanwhile (section 5);
  and a timer whose reconnect fails drops the handle of one armed after it (8035).
* `AutoRetry!closed`: a timer's failed reconnect sets IDLE over STOPPED or a newer turn (8036-8039);
  a resend that a close overran arms a countdown over STOPPED (8283-8290).
* `AutoRetry!overtaken`: a debounced record popped under the lock is written outside of it
  (`session_durable.py` 236), over an immediate save that came after it.
* Without a mark: `cancel_auto_retry` sets IDLE (2585-2587) over a turn that started meanwhile; a
  cancel while a restored session is STARTING is undone by `_durable_restore_timers` (10077-10080).
* `DaemonLink!collided`: two reconnect threads lived at a time, or `_force_disconnect`, between its read of `_sock` and
  its reset (582-583), had a reconnect in between and forgets the new connection.  The connection that
  is forgotten stays open until the interpreter collects it, or as long as the reader reads from it.  What
  it does to the link for good is in `Recovers`: the reader reads from a connection that is not `_sock` (`Astray`), the reader or the heartbeat
  has ended by the exception of the second `start` (`Astray`), or the two reconnect threads replace each other's
  connection in turn as long as they run into each other.  TLC shows each of the three, and within the bounds no fourth.
* `DaemonLink!abandoned`: a thread that loses the connection while the reconnect thread is between
  its last test and its end takes it for one that will go on (511); and a web server started while the
  engine is down (`start` 218, `_heartbeat_loop` 553-555) does not look for it again by itself.
* What the history variables exempt is not checked: `raced` (the skipped save and the overlapping writes), `overlapped`
  of the inbox and `missed` (the lock per process, the flag), `overtaken`, `orphaned` and `closed` of the retry, `crossed`,
  `overlapped` and `outlived` of the prompt, `replaced` of the host, `abandoned` and `collided` of the link.  The properties
  say that nothing else breaks them; the "hazards" of `PROJECT.json` say for each which part stays open.
* `DurableJobs`: a writer that dies between the launch and the save leaves a process that only the
  process list shows, with the log of the launch before it; `NoSecondRun` holds all the same.
* `PermissionPrompt!overlapped`: a second prompt overwrites the slot of the first (5963), which then
  waits for an interrupt, a close or its hour.
* `PermissionPrompt!outlived`: an answer names no prompt; one that comes late answers the next.
* `PermissionPrompt!crossed`: a cancelled prompt restores the state from before it over an
  interrupt's IDLE (6060); an interrupt that runs after a reconnect denies the new turn's prompt.

## 7. What is only model-checked, and what is left out

Every invariant and action property of a passing run is stated by a theorem of section 5, four of
them under the hypotheses given there.  Out of the prover's reach and checked by TLC alone:

* liveness under fairness: `EventuallySaved`, `Delivered`, `Settled`, `Recovers`, `Resumed`,
  `Returned`.

What is left out of the modules:

* `MessageQueue` takes `write_text` as a truncation followed by one write, and the result of two
  overlapping writes as unreadable.
* `SessionTurns` leaves out the API-error retry and the self-heal resend (in `AutoRetry`), permission
  prompts (in `PermissionPrompt`), the wake-up gate, the start of a session and the transport under
  the client.  A turn's content is left out: what matters is when its stream ends and how.
* `SubsessionInbox` leaves out the quarantine of a corrupt file and the removal of an inbox, and has
  one parent.
* `SessionHost` leaves out stream events, the spill file and the cap on the buffer, the rename, a
  host of another protocol, failed connects and writes, the registry's sweep, and the limit on the
  rows restored from a transcript.
* `DurableJobs` takes the list of processes as exact or missing.  `list_command_lines` (457-473) does not look at the
  exit status: a lister that fails without an exception and prints nothing gives an empty list, every running job looks dead, and
  `NoSecondRun` does not cover the relaunch that follows.  It has one job, so a command that is part of another's (`is_running` 480-500)
  is left out.
* `DurableJobs` leaves out the registration rules and the migration of records, jobs with a progress
  pattern or a log of their own, a registry that does not parse, and the entry written into the
  launching session's transcript.
* `DaemonLink` leaves out the methods behind the requests and their results, the emitter of events
  to the browser, the engine's singleton check, and the late answer to a request that timed out (the client
  drops it by its id).
* `AutoRetry` leaves out which message is resent (a queue is a length), the length of delays, the
  plans of a usage limit, which wait on the same countdown, and the watchdog.
* `PermissionPrompt` leaves out the policy rules and grants that answer without a prompt, the tool's
  input, the hook path, and messages sent while an interrupt or a reconnect is under way.

Components that are not modelled, with the reason, are in `PROJECT.json`.
