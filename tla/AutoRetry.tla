------------------------------ MODULE AutoRetry ------------------------------
(***************************************************************************)
(* The automatic retry of a failed turn (src/src/engine/session_manager.py, *)
(* with the durable record of src/src/engine/session_durable.py): one       *)
(* session, its turns on the engine's event loop, the countdown timers and  *)
(* the retry_now coroutines that run there, and the request threads of the  *)
(* web server's calls, which read and write the same fields without the     *)
(* loop's protection.                                                       *)
(*                                                                          *)
(* The loop does one thing at a time up to its next await; a request thread *)
(* runs at any point of it.  A section under info._lock is one step, and so *)
(* is _arm_api_retry; _fire_api_retry is three, because what it promises is *)
(* about the order of its assignments.  A send replaces the turn there is:  *)
(* the replaced coroutine sees it and touches nothing (SessionTurns).       *)
(*                                                                          *)
(* Left out: messages have no identity (a resend repeats the last one, the  *)
(* queue is a length), delays have no length, and the usage-limit plans,    *)
(* which wait on the same countdown, are not told apart from the backoff.   *)
(***************************************************************************)
EXTENDS Integers, FiniteSets

CONSTANTS
  Requests,     \* request threads
  Tasks,        \* slots for coroutines: countdown timers and retry_now
  Loop,         \* the event loop, when it dispatches a queued message itself
  None,
  Commands,     \* the calls the request threads make
  Max,          \* _API_RETRY_MAX
  MaxCommands,  \* bound: calls made
  MaxFailures,  \* bound: turns and self-heals that fail; other reconnects fail at will
  MaxRestarts   \* bound: restarts of the engine

ASSUME BoundsAssumption ==
  /\ Max \in Nat \ {0} /\ MaxCommands \in Nat /\ MaxFailures \in Nat /\ MaxRestarts \in Nat
  /\ Loop \notin Requests \cup Tasks /\ Requests \cap Tasks = {}
  /\ None \notin Requests \cup Tasks \cup {Loop}
  /\ Commands \subseteq {"send", "queue", "reemit", "cancel", "retry_now", "interrupt", "close"}

VARIABLES
  state,      \* info.state
  turn,       \* where the turn's coroutine is
  queue,      \* messages queued for the session
  retryAt,    \* retry_at > 0: a countdown is shown and the queue is held
  needed,     \* _api_retry_needed
  down,       \* _retry_needs_reconnect
  count,      \* _api_retry_count
  handle,     \* _api_retry_task: the timer a clear would cancel
  doomed,     \* tasks whose cancel() is on its way to the loop
  pc,         \* where each request thread, task and the loop's dispatch is
  closing,    \* a _close_session waits for the loop
  disk,       \* the session's durable record: countdown and count
  later,      \* the debounced record that waits for its timer
  writing,    \* the debounced record that is being written
  restoring,  \* the recovered session's _durable_restore carries a countdown
  waiting,    \* (history) a failed turn waits for the countdown armed for it
  late,       \* (history) dispatches that passed the gate before it was armed
  resent,     \* (history) attempts of the timers since a command, an answer or a give-up
  wiped,      \* (history) a resend cleared the countdown after its turn had ended
  orphaned,   \* (history) no handle points to retry_now's coroutine, or to a timer that another
              \* has dropped, or a countdown was armed over a turn
  closed,     \* (history) the user has closed the session
  overtaken,  \* (history) an immediate save while an older record was written
  commands, failures, restarts

retryVars == <<retryAt, needed, down, count, handle, doomed>>
diskVars  == <<disk, later, writing, overtaken>>
bounds    == <<commands, failures, restarts>>
marks     == <<wiped, orphaned, closed>>
vars == <<state, turn, queue, retryVars, pc, closing, diskVars, restoring, waiting, late,
          resent, marks, bounds>>

Firing == {"fire", "resend", "settle", "refused"}
Records == [at : BOOLEAN, count : Nat]

ASSUME NoRecord == None \notin Records

TypeOK ==
  /\ state \in {"STARTING", "IDLE", "WORKING", "STOPPED"}
  /\ turn \in {"none", "runs", "failed", "done", "raised", "died"}
  /\ queue \in Nat
  /\ retryAt \in BOOLEAN /\ needed \in BOOLEAN /\ down \in BOOLEAN
  /\ count \in Nat
  /\ handle \in Tasks \cup {None} /\ doomed \subseteq Tasks
  /\ pc \in [Requests \cup Tasks \cup {Loop} ->
               Firing \cup {"idle", "dispatch", "cancelled", "sleep", "reconnect", "redial"}]
  /\ closing \in BOOLEAN /\ restoring \in BOOLEAN
  /\ disk \in Records /\ later \in Records \cup {None} /\ writing \in Records \cup {None}
  /\ waiting \in BOOLEAN /\ late \subseteq Requests \cup {Loop}
  /\ resent \in Nat
  /\ wiped \in BOOLEAN /\ orphaned \in BOOLEAN /\ closed \in BOOLEAN /\ overtaken \in BOOLEAN

Init ==
  /\ state = "WORKING" /\ turn = "runs" /\ queue = 0
  /\ retryAt = FALSE /\ needed = FALSE /\ down = FALSE /\ count = 0
  /\ handle = None /\ doomed = {}
  /\ pc = [p \in Requests \cup Tasks \cup {Loop} |-> "idle"]
  /\ closing = FALSE /\ restoring = FALSE
  /\ disk = [at |-> FALSE, count |-> 0] /\ later = None /\ writing = None
  /\ waiting = FALSE /\ late = {} /\ resent = 0
  /\ wiped = FALSE /\ orphaned = FALSE /\ closed = FALSE /\ overtaken = FALSE
  /\ commands = 0 /\ failures = 0 /\ restarts = 0
-----------------------------------------------------------------------------
(* What the steps share.                                                   *)

\* Nothing runs on the loop: no resend, no dispatch of its own, and no session
\* that has started and has its countdown to restore before the next await.
Idling   == pc[Loop] = "idle" /\ \A k \in Tasks : pc[k] \notin Firing
LoopFree == Idling /\ (restoring => state = "STARTING")

Live(k) == pc[k] # "idle"

\* A coroutine that is created; which slot it takes makes no difference.
New(at) == IF \E k \in Tasks : at[k] = "idle" THEN CHOOSE k \in Tasks : at[k] = "idle"
                                              ELSE None

\* A coroutine that is over; `task.done()` makes its handle as good as None.
Over(k) ==
  /\ doomed' = doomed \ {k}
  /\ handle' = IF handle = k THEN None ELSE handle

\* _cancel_api_retry_task: the cancel runs on the loop.
Cancelled == doomed \cup {k \in Tasks : k = handle /\ Live(k)}

\* Mutant: only the timer is cancelled.
ClearTimerOnly(n) ==
  /\ UNCHANGED <<retryAt, needed, down>> /\ count' = n
  /\ handle' = None /\ doomed' = Cancelled

\* _clear_api_retry, which also restarts the budget or leaves it.
Clear(n) ==
  /\ retryAt' = FALSE /\ needed' = FALSE /\ down' = FALSE /\ count' = n
  /\ handle' = None /\ doomed' = Cancelled

Rec == [at |-> retryAt, count |-> count]

\* Mutant: the debounce keeps the first record it was given.
SaveSoonFirst == /\ later' = IF later = None THEN Rec' ELSE later
                 /\ UNCHANGED <<disk, writing, overtaken>>

\* _durable_save: now, or (in every _emit_state) a second later.  A clear of an
\* armed countdown saves now, and the emit after it again.
SaveNow  == /\ disk' = Rec' /\ later' = None /\ UNCHANGED writing
            /\ overtaken' = (overtaken \/ writing # None)

SaveSoon == later' = Rec' /\ UNCHANGED <<disk, writing, overtaken>>

SaveClear ==
  /\ disk' = IF retryAt THEN Rec' ELSE disk
  /\ later' = Rec' /\ UNCHANGED writing
  /\ overtaken' = (overtaken \/ (retryAt /\ writing # None))

\* The end of an _emit_state or of queue_message: dispatch, if the gate is open.
Emitted == IF state' = "IDLE" /\ ~retryAt' /\ queue' > 0 THEN "dispatch" ELSE "idle"
EmitsOnLoop(k) == pc' = [pc EXCEPT ![k] = "idle", ![Loop] = Emitted]

\* send_message past its check: the turn of a user's message, with a clear.
Launch ==
  /\ state' = "WORKING" /\ turn' = "runs" /\ waiting' = FALSE /\ resent' = 0
  /\ Clear(0) /\ SaveClear

\* _arm_api_retry, from the state st, count n and countdown at its caller has set
\* and as the last step of the coroutines in ended: dropped over a stopped session
\* or a newer turn, and when the budget is spent.  The timer it cancels is old.
Arm(st, n, at, ended, old) ==
  LET ends == [q \in DOMAIN pc |-> IF q \in ended THEN "idle" ELSE pc[q]]
  IN /\ needed' = FALSE /\ count' = n
     /\ IF st = "IDLE" /\ n < Max
        THEN LET k == New(ends) IN
               /\ k # None
               /\ pc' = [ends EXCEPT ![k] = "sleep"]
               /\ handle' = k
               /\ doomed' = (doomed \cup {q \in Tasks : q = old /\ Live(q)}) \ ended
               /\ retryAt' = TRUE /\ state' = "IDLE" /\ waiting' = TRUE
               /\ late' = {q \in DOMAIN pc : pc[q] = "dispatch"}
               /\ SaveNow
        ELSE /\ pc' = ends
             /\ handle' = (IF handle \in ended THEN None ELSE handle)
             /\ doomed' = doomed \ ended
             /\ retryAt' = at /\ state' = st
             /\ UNCHANGED <<waiting, late, diskVars>>
-----------------------------------------------------------------------------
(* The request threads.                                                    *)

Call(r, c) ==
  /\ c \in Commands /\ pc[r] = "idle" /\ commands < MaxCommands
  /\ commands' = commands + 1
  /\ restoring' = (restoring /\ c # "interrupt")
  /\ UNCHANGED <<failures, restarts>>

\* send_message from the user: a new turn, or queued behind the one there is.
Send(r) ==
  /\ Call(r, "send")
  /\ state # "STOPPED"
  /\ UNCHANGED <<pc, closing, late, marks>>
  /\ IF state = "IDLE"
     THEN Launch /\ UNCHANGED queue
     ELSE /\ queue' = queue + 1
          /\ UNCHANGED <<state, turn, retryVars, diskVars, waiting, resent>>

\* queue_message, and the re-emit of IDLE three seconds after one.
Queue(r) ==
  /\ Call(r, "queue")
  /\ queue' = queue + 1
  /\ UNCHANGED <<state, turn, retryVars, closing, diskVars, waiting, late, resent, marks>>
  /\ pc' = [pc EXCEPT ![r] = Emitted]
Reemit(r) ==
  /\ Call(r, "reemit")
  /\ UNCHANGED <<state, turn, queue, retryVars, closing, diskVars, waiting, late, resent, marks>>
  /\ pc' = [pc EXCEPT ![r] = Emitted]

\* Mutant: nobody looks whether the queue is empty.
DispatchEmpty(p) ==
  /\ pc[p] = "dispatch"
  /\ pc' = [pc EXCEPT ![p] = "idle"]
  /\ late' = late \ {p}
  /\ UNCHANGED <<closing, restoring, marks, bounds>>
  /\ IF state = "IDLE"
     THEN queue' = queue - 1 /\ Launch
     ELSE UNCHANGED <<state, turn, queue, retryVars, diskVars, waiting, resent>>

\* try_dispatch_queue, past the gate: a message that finds the session busy goes
\* to the end of the queue, one that finds it stopped back to the front.
Dispatch(p) ==
  /\ pc[p] = "dispatch"
  /\ pc' = [pc EXCEPT ![p] = "idle"]
  /\ late' = late \ {p}
  /\ UNCHANGED <<closing, restoring, marks, bounds>>
  /\ IF state = "IDLE" /\ queue > 0
     THEN queue' = queue - 1 /\ Launch
     ELSE UNCHANGED <<state, turn, queue, retryVars, diskVars, waiting, resent>>

\* cancel_auto_retry: clear, then IDLE whatever the state has become.
Cancel(r) ==
  /\ Call(r, "cancel")
  /\ Clear(0)
  /\ disk' = (IF retryAt /\ state # "STOPPED" THEN Rec' ELSE disk)
  /\ later' = (IF retryAt /\ state # "STOPPED" THEN None ELSE later)
  /\ overtaken' = (overtaken \/ (retryAt /\ state # "STOPPED" /\ writing # None))
  /\ waiting' = FALSE /\ resent' = 0
  /\ pc' = [pc EXCEPT ![r] = "cancelled"]
  /\ UNCHANGED <<state, turn, queue, closing, writing, late, marks>>
CancelSets(r) ==
  /\ pc[r] = "cancelled"
  /\ state' = IF state = "STOPPED" THEN state ELSE "IDLE"
  /\ UNCHANGED <<turn, queue, retryVars, closing, restoring, waiting, late, resent, marks,
                 bounds>>
  /\ IF state = "STOPPED" THEN UNCHANGED diskVars ELSE SaveSoon
  /\ pc' = [pc EXCEPT ![r] = Emitted]

\* retry_now: the timer is cancelled; the resend is made here, or by a coroutine
\* that reconnects first and that no handle points to.
RetryNow(r) ==
  /\ Call(r, "retry_now")
  /\ state = "IDLE"
  /\ handle' = None /\ doomed' = Cancelled
  /\ count' = IF retryAt THEN count ELSE 0
  /\ resent' = 0
  /\ IF down THEN New(pc) # None /\ pc' = [pc EXCEPT ![New(pc)] = "redial"]
             ELSE pc' = [pc EXCEPT ![r] = "fire"]
  /\ orphaned' = (orphaned \/ down)
  /\ UNCHANGED <<state, turn, queue, retryAt, needed, down, closing, diskVars, waiting,
                 late, wiped, closed>>

\* interrupt_session: the queue is emptied, the turn is cancelled, and the IDLE
\* of an interrupted session dispatches nothing.
Interrupt(r) ==
  /\ Call(r, "interrupt")
  /\ state # "STOPPED"
  /\ state' = "IDLE" /\ turn' = "none" /\ queue' = 0
  /\ waiting' = FALSE /\ resent' = 0
  /\ Clear(0) /\ SaveClear
  /\ UNCHANGED <<pc, closing, late, marks>>

\* close_session: a stopped session saves nothing; _close_session cancels
\* whatever turn there is when it runs, and forgets the record.
Close(r) ==
  /\ Call(r, "close")
  /\ state' = "STOPPED" /\ closing' = TRUE
  /\ waiting' = FALSE /\ resent' = 0
  /\ closed' = TRUE
  /\ Clear(0)
  /\ UNCHANGED <<turn, queue, pc, diskVars, late, wiped, orphaned>>
Closes ==
  /\ closing /\ LoopFree
  /\ closing' = FALSE /\ state' = "STOPPED" /\ turn' = "none"
  /\ disk' = [at |-> FALSE, count |-> 0] /\ later' = None
  /\ UNCHANGED <<queue, retryVars, pc, writing, overtaken, restoring, waiting, late, resent,
                 marks, bounds>>
-----------------------------------------------------------------------------
(* _fire_api_retry, on the loop by a task or on a request thread.          *)

\* Mutant: the countdown is cleared before the resend.
FireClearsFirst(p) ==
  /\ pc[p] = "fire"
  /\ handle' = None
  /\ state' = "IDLE" /\ count' = count + 1 /\ retryAt' = FALSE
  /\ resent' = IF p \in Tasks THEN resent + 1 ELSE 0
  /\ pc' = [pc EXCEPT ![p] = "resend"]
  /\ UNCHANGED <<turn, queue, needed, down, doomed, closing, diskVars, restoring,
                 waiting, late, marks, bounds>>

\* Mutant: the attempt is not counted.
FireUncounted(p) ==
  /\ pc[p] = "fire"
  /\ handle' = None
  /\ state' = "IDLE"
  /\ resent' = IF p \in Tasks THEN resent + 1 ELSE 0
  /\ pc' = [pc EXCEPT ![p] = "resend"]
  /\ UNCHANGED <<turn, queue, retryAt, needed, down, count, doomed, closing, diskVars,
                 restoring, waiting, late, marks, bounds>>

FireBegins(p) ==
  /\ pc[p] = "fire"
  /\ handle' = None
  /\ state' = "IDLE" /\ count' = count + 1
  /\ resent' = IF p \in Tasks THEN resent + 1 ELSE 0
  /\ pc' = [pc EXCEPT ![p] = "resend"]
  /\ orphaned' = (orphaned \/ handle \notin {None, p})
  /\ UNCHANGED <<turn, queue, retryAt, needed, down, doomed, closing, diskVars, restoring,
                 waiting, late, wiped, closed, bounds>>

\* send_message(_auto_retry): no clear.  Its emit captures the countdown, which
\* is still there.
FireSends(p) ==
  /\ pc[p] = "resend"
  /\ pc' = [pc EXCEPT ![p] = IF state = "STOPPED" THEN "refused" ELSE "settle"]
  /\ UNCHANGED <<retryVars, closing, restoring, late, resent, marks, bounds>>
  /\ waiting' = (waiting /\ state = "STOPPED")
  /\ CASE state = "IDLE" -> /\ state' = "WORKING" /\ turn' = "runs" /\ UNCHANGED queue
                            /\ SaveSoon
       [] state = "STOPPED" -> UNCHANGED <<state, turn, queue, diskVars>>
       [] OTHER -> /\ queue' = queue + 1
                   /\ UNCHANGED <<state, turn, diskVars>>

\* The countdown goes; a refused resend is armed again after a reconnect, or
\* given up (_handle_retry_send_failure, _fail_retry_open).
FireEnds(p) ==
  /\ pc[p] = "settle"
  /\ retryAt' = FALSE
  /\ pc' = [pc EXCEPT ![p] = "idle"]
  /\ wiped' = (wiped \/ state # "WORKING")
  /\ IF p \in Tasks THEN Over(p) ELSE UNCHANGED <<handle, doomed>>
  /\ UNCHANGED <<state, turn, queue, needed, down, count, closing, diskVars, restoring,
                 waiting, late, resent, orphaned, closed, bounds>>
FireRefused(p) ==
  /\ pc[p] = "refused"
  /\ UNCHANGED <<turn, queue, closing, restoring, marks, bounds>>
  /\ CASE state \in {"WORKING", "STARTING"} ->
            /\ retryAt' = FALSE
            /\ pc' = [pc EXCEPT ![p] = "idle"]
            /\ Over(p)
            /\ UNCHANGED <<state, needed, down, count, waiting, late, diskVars, resent>>
       [] state \notin {"WORKING", "STARTING"} /\ count < Max ->
            /\ down' = TRUE /\ UNCHANGED resent
            /\ Arm("IDLE", count, FALSE, {p}, handle)
       [] OTHER ->
            /\ retryAt' = FALSE /\ needed' = FALSE /\ down' = FALSE /\ count' = 0
            /\ handle' = None /\ doomed' = Cancelled \ {p}
            /\ waiting' = FALSE /\ resent' = 0
            /\ UNCHANGED <<state, late>>
            /\ pc' = [pc EXCEPT ![p] = "idle",
                               ![IF p \in Tasks THEN Loop ELSE p] = Emitted]
            /\ (IF state = "IDLE" THEN SaveSoon ELSE UNCHANGED diskVars)
-----------------------------------------------------------------------------
(* The turn's coroutine, on the loop.                                      *)

\* A turn is answered after a round trip; a cancel that is on its way to the loop
\* has arrived by then.
Answered == turn = "runs" /\ LoopFree /\ doomed = {}

\* A RESULT without error ends the chain; the IDLE is emitted after the drain.
TurnSucceeds ==
  /\ Answered
  /\ state' = "IDLE" /\ turn' = "done"
  /\ retryAt' = FALSE /\ needed' = FALSE /\ count' = 0
  /\ waiting' = FALSE /\ resent' = 0
  /\ UNCHANGED <<queue, down, handle, doomed, pc, closing, diskVars, restoring, late, marks,
                 bounds>>
DoneEmits ==
  /\ turn = "done" /\ LoopFree
  /\ turn' = "none"
  /\ UNCHANGED <<state, queue, retryVars, closing, restoring, waiting, late, resent, marks,
                 bounds>>
  /\ SaveSoon
  /\ pc' = [pc EXCEPT ![Loop] = Emitted]

Fails ==
  /\ LoopFree /\ failures < MaxFailures
  /\ failures' = failures + 1
  /\ UNCHANGED <<commands, restarts, restoring>>

\* An error RESULT: flagged if the budget lasts, IDLE, and an await before the
\* countdown is armed (or the drain emits IDLE).
TurnFails ==
  /\ Answered /\ Fails
  /\ state' = "IDLE" /\ turn' = "failed"
  /\ needed' = (count < Max)
  /\ UNCHANGED <<queue, retryAt, down, count, handle, doomed, pc, closing, diskVars, waiting,
                 late, resent, marks>>
FailedArms ==
  /\ turn = "failed" /\ LoopFree /\ needed
  /\ turn' = "none"
  /\ Arm("IDLE", count, retryAt, {}, handle)
  /\ UNCHANGED <<queue, down, closing, restoring, resent, marks, bounds>>
FailedEmits ==
  /\ turn = "failed" /\ LoopFree /\ ~needed
  /\ turn' = "none"
  /\ UNCHANGED <<state, queue, retryVars, closing, restoring, waiting, late, resent, marks,
                 bounds>>
  /\ SaveSoon
  /\ pc' = [pc EXCEPT ![Loop] = Emitted]

\* The API's error is raised in the stream: reconnect, then flag and arm without
\* an await (_flag_api_retry_if_transient), or give up.
TurnRaises ==
  /\ Answered /\ Fails
  /\ turn' = "raised"
  /\ UNCHANGED <<state, queue, retryVars, pc, closing, diskVars, waiting, late, resent, marks>>
Reconnects ==
  /\ turn = "raised" /\ LoopFree
  /\ turn' = "none"
  /\ UNCHANGED <<queue, down, closing, restoring, resent, marks, bounds>>
  /\ IF count < Max
     THEN Arm("IDLE", count, retryAt, {}, handle)
     ELSE /\ state' = "IDLE"
          /\ UNCHANGED <<retryAt, needed, count, handle, doomed, waiting, late>>
          /\ SaveSoon
          /\ pc' = [pc EXCEPT ![Loop] = Emitted]
ReconnectsNot ==
  /\ turn = "raised" /\ Fails
  /\ turn' = "none" /\ state' = "IDLE"
  /\ UNCHANGED <<queue, retryVars, closing, waiting, late, resent, marks>>
  /\ SaveSoon
  /\ pc' = [pc EXCEPT ![Loop] = Emitted]

\* The transport dies: the catch-all of the finally block emits IDLE before the
\* self-heal waits to reconnect.
TurnDies ==
  /\ Answered /\ Fails
  /\ turn' = "died" /\ state' = "IDLE"
  /\ UNCHANGED <<queue, retryVars, closing, waiting, late, resent, marks>>
  /\ SaveSoon
  /\ pc' = [pc EXCEPT ![Loop] = Emitted]

\* The self-heal reconnects, emits IDLE, which dispatches a message that is
\* queued, and resends: behind it in the queue, if there was one.
Heals ==
  /\ turn = "died" /\ LoopFree
  /\ UNCHANGED <<queue, pc, closing, restoring, late, marks, bounds>>
  /\ IF queue > 0 /\ ~retryAt
     THEN Launch
     ELSE /\ state' = "WORKING" /\ turn' = "runs" /\ waiting' = FALSE
          /\ UNCHANGED <<retryVars, resent>>
          /\ SaveSoon

\* _user_stopped, before the backoff or after it (a close during the reconnect
\* itself goes unnoticed).
HealStops ==
  /\ turn = "died" /\ LoopFree /\ state = "STOPPED"
  /\ turn' = "none"
  /\ UNCHANGED <<state, queue, retryVars, pc, closing, diskVars, restoring, waiting, late,
                 resent, marks, bounds>>

\* It cannot, or has tried too often: _escalate_heal_to_backoff.
HealFails ==
  /\ turn = "died" /\ Fails
  /\ turn' = "none"
  /\ UNCHANGED <<queue, closing, resent, marks>>
  /\ IF count < Max
     THEN down' = TRUE /\ Arm("IDLE", count, retryAt, {}, handle)
     ELSE /\ state' = "IDLE"
          /\ UNCHANGED <<retryVars, waiting, late>>
          /\ SaveSoon
          /\ pc' = [pc EXCEPT ![Loop] = Emitted]
-----------------------------------------------------------------------------
(* The timers and the coroutine of retry_now, on the loop.                 *)

\* A task whose cancel has reached the loop while it awaits.
TaskDies(k) ==
  /\ k \in doomed /\ LoopFree
  /\ pc' = [pc EXCEPT ![k] = "idle"]
  /\ Over(k)
  /\ UNCHANGED <<state, turn, queue, retryAt, needed, down, count, closing, diskVars,
                 restoring, waiting, late, resent, marks, bounds>>

\* _api_retry_timer_fire: eligible still, and through a reconnect if need be.  What
\* was cancelled before the countdown was armed is gone by its end.
Wakes(k) ==
  /\ pc[k] = "sleep" /\ LoopFree /\ doomed \subseteq {k}
  /\ UNCHANGED <<state, turn, queue, retryAt, needed, down, count, closing, diskVars,
                 restoring, waiting, late, resent, marks, bounds>>
  /\ IF retryAt /\ state = "IDLE"
     THEN /\ pc' = [pc EXCEPT ![k] = IF down THEN "reconnect" ELSE "fire"]
          /\ UNCHANGED <<handle, doomed>>
     ELSE pc' = [pc EXCEPT ![k] = "idle"] /\ Over(k)

\* The reconnect has succeeded, after any other task's cancel has arrived: nothing
\* is checked again.
Redialled(k) ==
  /\ pc[k] \in {"reconnect", "redial"} /\ LoopFree /\ doomed \subseteq {k}
  /\ down' = FALSE
  /\ resent' = IF pc[k] = "redial" THEN 0 ELSE resent
  /\ pc' = [pc EXCEPT ![k] = "fire"]
  /\ UNCHANGED <<state, turn, queue, retryAt, needed, count, handle, doomed, closing,
                 diskVars, restoring, waiting, late, marks, bounds>>

\* Mutant: a reconnect that fails ends the chain, and nothing says so.
ReconnectFailsSilently(k) ==
  /\ pc[k] = "reconnect" /\ LoopFree /\ doomed \subseteq {k}
  /\ retryAt' = FALSE /\ state' = "IDLE"
  /\ pc' = [pc EXCEPT ![k] = "idle"]
  /\ Over(k)
  /\ UNCHANGED <<turn, queue, needed, down, count, closing, diskVars, waiting, late, resent,
                 restoring, marks, bounds>>

\* The timer's has failed: an attempt is used up and the next countdown armed.
\* `info._api_retry_task = None` drops whatever task it pointed to, uncancelled.
ReconnectFails(k) ==
  /\ pc[k] = "reconnect" /\ LoopFree /\ doomed \subseteq {k}
  /\ UNCHANGED <<turn, queue, closing, restoring, wiped, closed, bounds>>
  /\ orphaned' = (orphaned \/ handle \notin {None, k}
                          \/ (count + 1 < Max /\ turn # "none"))
  /\ IF count + 1 < Max
     THEN /\ UNCHANGED <<down, resent>>
          /\ Arm("IDLE", count + 1, FALSE, {k}, None)
     ELSE /\ retryAt' = FALSE /\ needed' = FALSE /\ down' = FALSE /\ count' = 0
          /\ handle' = None /\ doomed' = doomed \ {k}
          /\ state' = "IDLE" /\ waiting' = FALSE /\ resent' = 0
          /\ UNCHANGED late
          /\ SaveSoon
          /\ EmitsOnLoop(k)

\* retry_now's has failed: the countdown it took the timer from stays.
RedialFails(k) ==
  /\ pc[k] = "redial" /\ LoopFree /\ doomed \subseteq {k}
  /\ state' = "IDLE" /\ waiting' = FALSE
  /\ Over(k)
  /\ UNCHANGED <<turn, queue, retryAt, needed, down, count, closing, restoring, late, resent,
                 marks, bounds>>
  /\ SaveSoon
  /\ EmitsOnLoop(k)
-----------------------------------------------------------------------------
(* The durable record, and a restart of the engine.                        *)

FlushStarts ==
  /\ later # None /\ writing = None
  /\ writing' = later /\ later' = None
  /\ UNCHANGED <<state, turn, queue, retryVars, pc, closing, disk, overtaken, restoring,
                 waiting, late, resent, marks, bounds>>
FlushEnds ==
  /\ writing # None
  /\ disk' = writing /\ writing' = None
  /\ UNCHANGED <<state, turn, queue, retryVars, pc, closing, later, overtaken, restoring,
                 waiting, late, resent, marks, bounds>>

\* The engine is killed, or stops and saves first; start_session puts the record
\* back on a session that starts.
Restart ==
  /\ restarts < MaxRestarts /\ state # "STOPPED"
  /\ restarts' = restarts + 1
  /\ \E rec \in {disk, Rec} :
       /\ disk' = rec
       /\ retryAt' = rec.at /\ restoring' = rec.at /\ count' = rec.count
       /\ waiting' = rec.at
  /\ state' = "STARTING" /\ turn' = "none"
  /\ needed' = FALSE /\ down' = FALSE /\ handle' = None /\ doomed' = {}
  /\ pc' = [p \in DOMAIN pc |-> "idle"]
  /\ later' = None /\ writing' = None
  /\ closing' = FALSE /\ late' = {}
  /\ wiped' = FALSE
  /\ UNCHANGED <<queue, orphaned, closed, overtaken, resent, commands, failures>>

\* The resumed session becomes IDLE, and _durable_restore_timers arms what the
\* record carried, if the session is still IDLE.
Starts ==
  /\ state = "STARTING" /\ LoopFree
  /\ state' = "IDLE"
  /\ UNCHANGED <<turn, queue, retryVars, closing, restoring, waiting, late, resent, marks,
                 bounds>>
  /\ SaveSoon
  /\ pc' = [pc EXCEPT ![Loop] = Emitted]
Restores ==
  /\ restoring /\ state # "STARTING" /\ Idling
  /\ restoring' = FALSE
  /\ orphaned' = (orphaned \/ (state = "IDLE" /\ turn # "none"))
  /\ UNCHANGED <<turn, queue, needed, down, count, closing, resent, wiped, closed, bounds>>
  /\ IF state = "IDLE"
     THEN LET k == New(pc) IN
            /\ k # None
            /\ pc' = [pc EXCEPT ![k] = "sleep"]
            /\ handle' = k /\ doomed' = Cancelled
            /\ retryAt' = TRUE /\ waiting' = TRUE
            /\ late' = {q \in DOMAIN pc : pc[q] = "dispatch"}
            /\ UNCHANGED state /\ SaveNow
     ELSE /\ UNCHANGED <<state, retryAt, handle, doomed, pc, waiting, late>>
          /\ IF state = "STOPPED" THEN UNCHANGED diskVars ELSE SaveNow
-----------------------------------------------------------------------------
Turn == \/ TurnSucceeds \/ DoneEmits \/ FailedArms \/ FailedEmits \/ Reconnects \/ Heals
        \/ HealStops
Failure == TurnFails \/ TurnRaises \/ ReconnectsNot \/ TurnDies \/ HealFails
Fire(p) == FireBegins(p) \/ FireSends(p) \/ FireEnds(p) \/ FireRefused(p)
Task(k) == TaskDies(k) \/ Wakes(k) \/ Redialled(k)
Command(r) == \/ Send(r) \/ Queue(r) \/ Reemit(r) \/ Cancel(r) \/ RetryNow(r)
              \/ Interrupt(r) \/ Close(r)
Engine == Closes \/ Starts \/ Restores \/ FlushStarts \/ FlushEnds

Goes ==
  \/ Turn \/ Failure \/ Engine
  \/ \E r \in Requests : CancelSets(r)
  \/ \E p \in Requests \cup Tasks : Fire(p)
  \/ \E p \in Requests \cup {Loop} : Dispatch(p)
  \/ \E k \in Tasks : Task(k) \/ ReconnectFails(k) \/ RedialFails(k)

Next == Goes \/ Restart \/ \E r \in Requests : Command(r)

Spec == Init /\ [][Next]_vars

\* The least the event loop and the threads give: while a coroutine, a timer, a
\* started call or a save can go on, one of them does.
FairSpec == Spec /\ WF_vars(Goes)
-----------------------------------------------------------------------------
(* Properties.                                                             *)

\* What _fail_retry_open calls the worst possible end state, a countdown that
\* nothing will complete and that holds the queue: there is always a task, a
\* resend, a turn or a start that is going to end it.
Served ==
  \/ \E k \in Tasks : Live(k) /\ k \notin doomed
  \/ \E r \in Requests : pc[r] \in Firing
  \/ turn # "none" \/ state = "STARTING" \/ restoring
CountdownServed == state = "IDLE" /\ retryAt /\ ~Served => orphaned \/ closed

\* The order _fire_api_retry keeps: from the arming of its countdown to its
\* resend, a failed turn is not overtaken by a queued message, unless the
\* message had passed the gate before the countdown was armed.
Dispatched == \E p \in (Requests \cup {Loop}) \ late :
                pc[p] = "dispatch" /\ pc'[p] # "dispatch" /\ queue' < queue
HeldBack == [][waiting /\ ~wiped => ~Dispatched]_vars

\* What _emit_state says of its gate, for every failed turn: a queued message
\* does not jump ahead of the recovery.
Owed == waiting \/ turn = "died" \/ (turn = "failed" /\ needed)
FailedFirst == [][Owed => ~(\E p \in Requests \cup {Loop} :
                              pc[p] = "dispatch" /\ pc'[p] # "dispatch" /\ queue' < queue)]_vars

\* The budget: one chain of retries, which a command, an answer or a give-up ends,
\* resends at most Max times, and once more for a restart that has lost the count.
BudgetKept == resent <= Max + restarts \/ closed \/ orphaned \/ overtaken

\* At rest the durable record says whether a countdown is armed, so a restart
\* brings back the countdown there is, and no other.
AtRest == /\ turn = "none" /\ later = None /\ writing = None /\ LoopFree /\ ~closing
          /\ \A r \in Requests : pc[r] = "idle"
          /\ state = "IDLE" /\ ~restoring
RecordTells == AtRest /\ ~wiped /\ ~overtaken => disk.at = retryAt

\* A failed turn that waits for its countdown is resent, given up with an error,
\* or taken over by the user, unless retry_now cleared its countdown.
Resumed == waiting ~> (~waiting \/ wiped \/ closed)
=============================================================================
