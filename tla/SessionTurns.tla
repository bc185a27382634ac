---------------------------- MODULE SessionTurns ----------------------------
(***************************************************************************)
(* How one agent session takes messages and runs turns                     *)
(* (src/engine/session_manager.py): send_message, queue_message, the queue *)
(* dispatch, interrupt_session and close_session on request threads; the   *)
(* deferred re-emit on timer threads; and the asyncio event loop with the  *)
(* coroutines of the turns (_send_query, the post-turn drain and listener), *)
(* _interrupt_session and _close_session.                                  *)
(*                                                                         *)
(* Every synchronous method is a frame on the stack of the actor that runs *)
(* it, one label per point where another actor can come between: these     *)
(* methods call each other (a dispatch sends, a send emits, an emit        *)
(* dispatches), some of it with info._lock held.  While the loop has a     *)
(* frame it runs nothing else.                                             *)
(*                                                                         *)
(* Message m is sent by the coroutine m, so tasks and messages share their *)
(* numbers; 0 is the turn of the start.  Left out: the API-error retry     *)
(* (retry_at is 0 throughout), the self-heal resend, the wake-up gate (no  *)
(* _wakeup_pending) and permission prompts.                                *)
(***************************************************************************)
EXTENDS Naturals, Sequences, FiniteSets, SequencesExt

CONSTANTS
  Threads,        \* threads that serve requests (_dispatch starts one for each)
  Timers,         \* threads of the deferred re-emit that can run at one time
  Loop,           \* the event loop's thread
  None,           \* Python's None
  MaxMessages,    \* bound: messages over a run
  MaxInterrupts,  \* bound: calls of interrupt_session
  MaxCloses,      \* bound: calls of close_session
  MaxResumes,     \* bound: turns the CLI starts by itself
  MaxFailures     \* bound: streams that end early, reconnects that fail

ASSUME BoundsAssumption ==
  /\ MaxMessages \in Nat /\ MaxInterrupts \in Nat
  /\ MaxCloses \in Nat /\ MaxResumes \in Nat /\ MaxFailures \in Nat
ASSUME ActorsAssumption ==
  /\ Threads \cap Timers = {}
  /\ Loop \notin Threads \cup Timers
  /\ None \notin Threads \cup Timers \cup {Loop} \cup Nat

Actors   == Threads \cup Timers \cup {Loop}
Tasks    == 0 .. MaxMessages
Messages == 1 .. MaxMessages

Labels == {"sm_lock", "sm_check", "sm_flip", "sm_unlock", "sm_schedule",
           "qm_append", "qm_check", "td_pop", "td_wait", "td_refused",
           "es_trim", "es_check", "es_timer", "re_check",
           "in_pop", "in_flag", "in_idle", "in_capture", "in_schedule",
           "tk_catch", "tk_final"}
Frame  == [at : Labels, m : Tasks, x : Tasks \cup {None}]
Calls  == {"spawn", "step", "throw", "cancel", "spawn_interrupt", "interrupt",
           "spawn_close", "close"}
Lives  == {"none", "spawned", "created", "yielded", "reconnect", "prep", "turn",
           "ended", "broken", "mend", "unwind", "settle", "drain", "listen",
           "resumed", "snap", "dead"}

VARIABLES
  state,        \* info.state: "idle", "working", "stopped"
  lock,         \* who holds info._lock
  queue,        \* this session's message queue
  interrupted,  \* info._interrupted
  superseded,   \* info._listener_superseded
  task,         \* info.task
  client,       \* info.client is there
  life,         \* where each coroutine stands
  cancelled,    \* coroutines with a CancelledError on its way
  ready,        \* the callbacks the loop will run, in order
  stack,        \* the frames of each actor, the running one first
  reemits,      \* deferred re-emit timers that have not fired
  accepted,     \* messages taken by send_message or queue_message
  sent,         \* messages given to the CLI, in order
  dropped,      \* messages the session gave up before the CLI had them
  interrupts, closes, resumes, failures,  \* counted against their bounds
  closing       \* a _close_session awaits the disconnect

flags    == <<interrupted, superseded, client>>
turns    == <<task, life, cancelled>>
messages == <<queue, sent, dropped>>
counts   == <<accepted, interrupts, closes, resumes, failures>>
vars == <<state, lock, queue, interrupted, superseded, task, client, life, cancelled,
          ready, stack, reemits, accepted, sent, dropped, interrupts, closes, resumes,
          failures, closing>>

TypeOK ==
  /\ state \in {"idle", "working", "stopped"}
  /\ lock \in Actors \cup {None}
  /\ queue \in Seq(Messages)
  /\ interrupted \in BOOLEAN /\ superseded \in BOOLEAN /\ client \in BOOLEAN
  /\ task \in Tasks \cup {None}
  /\ life \in [Tasks -> Lives]
  /\ cancelled \subseteq Tasks
  /\ ready \in Seq([do : Calls, x : Tasks \cup {None}])
  /\ stack \in [Actors -> Seq(Frame)]
  /\ reemits \in Nat
  /\ accepted \in 0 .. MaxMessages
  /\ sent \in Seq(Tasks)
  /\ dropped \subseteq Messages
  /\ interrupts \in 0 .. MaxInterrupts
  /\ closes \in 0 .. MaxCloses
  /\ resumes \in 0 .. MaxResumes
  /\ failures \in 0 .. MaxFailures
  /\ closing \in BOOLEAN

\* A started session: the first turn runs, or has ended and its coroutine listens.
Init ==
  /\ \/ state = "idle" /\ life = [k \in Tasks |-> IF k = 0 THEN "listen" ELSE "none"]
     \/ state = "working" /\ life = [k \in Tasks |-> IF k = 0 THEN "turn" ELSE "none"]
  /\ lock = None /\ queue = << >>
  /\ interrupted = FALSE /\ superseded = FALSE /\ client = TRUE
  /\ task = 0 /\ cancelled = {}
  /\ ready = << >>
  /\ stack = [a \in Actors |-> << >>]
  /\ reemits = 0 /\ accepted = 0 /\ sent = <<0>> /\ dropped = {}
  /\ interrupts = 0 /\ closes = 0 /\ resumes = 0 /\ failures = 0
  /\ closing = FALSE

-----------------------------------------------------------------------------
(* Frames.                                                                 *)

Idle(a)  == stack[a] = << >>
At(a, l) == stack[a] # << >> /\ Head(stack[a]).at = l
Top(a)   == Head(stack[a])

Called(l, m)   == [at |-> l, m |-> m, x |-> None]
Enter(a, f)    == stack' = [stack EXCEPT ![a] = <<f>> \o @]
Goto(a, l)     == stack' = [stack EXCEPT ![a] = <<[Head(@) EXCEPT !.at = l]>> \o Tail(@)]
\* The running frame goes to label l, where it continues when f has returned.
Call(a, l, f)  == stack' = [stack EXCEPT ![a] = <<f, [Head(@) EXCEPT !.at = l]>> \o Tail(@)]
Return(a)      == stack' = [stack EXCEPT ![a] = Tail(@)]

\* send_message returns to whoever called it; a dispatch looks at the result.
FromDispatch(a) == Len(stack[a]) > 1 /\ stack[a][2].at = "td_wait"
ReturnSent(a) ==
  stack' = [stack EXCEPT ![a] = IF FromDispatch(a) THEN Tail(Tail(@)) ELSE Tail(@)]
ReturnRefused(a) ==
  stack' = [stack EXCEPT ![a] = IF FromDispatch(a)
                                THEN <<[@[2] EXCEPT !.at = "td_refused"]>> \o Tail(Tail(@))
                                ELSE Tail(@)]

Alive(k)  == life[k] \notin {"none", "spawned", "dead"}
Current   == IF task # None /\ Alive(task) THEN task ELSE None   \* not info.task.done()
Post(S)   == ready' = ready \o S                                 \* call_soon_threadsafe
Item(d, k) == [do |-> d, x |-> k]

-----------------------------------------------------------------------------
(* Requests.                                                               *)

Request(t, f) == t \in Threads /\ Idle(t) /\ Enter(t, f)

Accept(t, l) ==
  /\ accepted < MaxMessages
  /\ accepted' = accepted + 1
  /\ Request(t, Called(l, accepted + 1))
  /\ UNCHANGED <<state, lock, flags, turns, ready, reemits, messages, interrupts,
                 closes, resumes, failures, closing>>

SendRequest(t)  == Accept(t, "sm_lock")
QueueRequest(t) == Accept(t, "qm_append")

\* interrupt_session: "Session already stopped" ends it.
InterruptRequest(t) ==
  /\ interrupts < MaxInterrupts
  /\ interrupts' = interrupts + 1
  /\ state # "stopped"
  /\ Request(t, Called("in_pop", 0))
  /\ UNCHANGED <<state, lock, flags, turns, ready, reemits, messages, accepted,
                 closes, resumes, failures, closing>>

\* close_session_sync: the coroutine is submitted; the caller only waits for it.
CloseRequest ==
  /\ closes < MaxCloses
  /\ closes' = closes + 1
  /\ Post(<<Item("spawn_close", None)>>)
  /\ UNCHANGED <<state, lock, flags, turns, stack, reemits, messages, accepted,
                 interrupts, resumes, failures, closing>>

-----------------------------------------------------------------------------
(* send_message.                                                           *)

\* (mutant) the state is checked without waiting for the lock
SendUnlocked(a) ==
  /\ At(a, "sm_lock")
  /\ lock' = a
  /\ Goto(a, "sm_check")
  /\ UNCHANGED <<state, flags, turns, ready, reemits, messages, counts, closing>>

SendAcquire(a) ==
  /\ At(a, "sm_lock") /\ lock = None
  /\ lock' = a
  /\ Goto(a, "sm_check")
  /\ UNCHANGED <<state, flags, turns, ready, reemits, messages, counts, closing>>

\* "Session is stopped": an error for the caller, or the dispatch requeues.
SendRefuse(a) ==
  /\ At(a, "sm_check") /\ state = "stopped"
  /\ lock' = None
  /\ ReturnRefused(a)
  /\ dropped' = IF FromDispatch(a) THEN dropped ELSE dropped \cup {Top(a).m}
  /\ UNCHANGED <<state, flags, turns, ready, reemits, queue, sent, counts, closing>>

\* Not IDLE: queue_message is called with the lock held.
SendBusy(a) ==
  /\ At(a, "sm_check") /\ state = "working"
  /\ Call(a, "sm_unlock", Called("qm_append", Top(a).m))
  /\ UNCHANGED <<state, lock, flags, turns, ready, reemits, messages, counts, closing>>

SendUnlock(a) ==
  /\ At(a, "sm_unlock")
  /\ lock' = None
  /\ ReturnSent(a)
  /\ UNCHANGED <<state, flags, turns, ready, reemits, messages, counts, closing>>

SendPasses(a) ==
  /\ At(a, "sm_check") /\ state = "idle"
  /\ Goto(a, "sm_flip")
  /\ UNCHANGED <<state, lock, flags, turns, ready, reemits, messages, counts, closing>>

\* The rest of the locked block, which does not look at the state again; then
\* _emit_state outside of it.
SendFlip(a) ==
  /\ At(a, "sm_flip")
  /\ state' = "working"
  /\ superseded' = (superseded \/ Current # None)
  /\ lock' = None
  /\ stack' = [stack EXCEPT ![a] = <<Called("es_trim", 0),
                                     [Top(a) EXCEPT !.at = "sm_schedule", !.x = Current]>>
                                   \o Tail(@)]
  /\ UNCHANGED <<interrupted, client, turns, ready, reemits, messages, counts, closing>>

\* Cancel the coroutine found alive, submit the new one.
SendSchedule(a) ==
  /\ At(a, "sm_schedule")
  /\ Post((IF Top(a).x # None THEN <<Item("cancel", Top(a).x)>> ELSE << >>)
          \o <<Item("spawn", Top(a).m)>>)
  /\ life' = [life EXCEPT ![Top(a).m] = "spawned"]
  /\ ReturnSent(a)
  /\ UNCHANGED <<state, lock, flags, task, cancelled, reemits, messages, counts, closing>>

-----------------------------------------------------------------------------
(* queue_message and the dispatch.                                         *)

\* (mutant) the wrong field is queued
QueueWrongField(a) ==
  /\ At(a, "qm_append")
  /\ queue' = Append(queue, Top(a).x)
  /\ Goto(a, "qm_check")
  /\ UNCHANGED <<state, lock, flags, turns, ready, reemits, sent, dropped, counts, closing>>

QueueAppend(a) ==
  /\ At(a, "qm_append")
  /\ queue' = Append(queue, Top(a).m)
  /\ Goto(a, "qm_check")
  /\ UNCHANGED <<state, lock, flags, turns, ready, reemits, sent, dropped, counts, closing>>

\* (mutant) a queued message always waits for the next IDLE emit
QueueNeverDispatches(a) ==
  /\ At(a, "qm_check")
  /\ Return(a)
  /\ UNCHANGED <<state, lock, flags, turns, ready, reemits, messages, counts, closing>>

\* No lock here, and no look at _interrupted.
QueueCheck(a) ==
  /\ At(a, "qm_check")
  /\ IF state = "idle" THEN Goto(a, "td_pop") ELSE Return(a)
  /\ UNCHANGED <<state, lock, flags, turns, ready, reemits, messages, counts, closing>>

DispatchEmpty(a) ==
  /\ At(a, "td_pop") /\ queue = << >>
  /\ Return(a)
  /\ UNCHANGED <<state, lock, flags, turns, ready, reemits, messages, counts, closing>>

\* (mutant) the dispatched message stays in the queue
DispatchPeek(a) ==
  /\ At(a, "td_pop") /\ queue # << >>
  /\ stack' = [stack EXCEPT ![a] = <<Called("sm_lock", Head(queue)),
                                     Called("td_wait", Head(queue))>> \o Tail(@)]
  /\ UNCHANGED <<state, lock, flags, turns, ready, reemits, messages, counts, closing>>

DispatchPop(a) ==
  /\ At(a, "td_pop") /\ queue # << >>
  /\ queue' = Tail(queue)
  /\ stack' = [stack EXCEPT ![a] = <<Called("sm_lock", Head(queue)),
                                     Called("td_wait", Head(queue))>> \o Tail(@)]
  /\ UNCHANGED <<state, lock, flags, turns, ready, reemits, sent, dropped, counts, closing>>

DispatchRequeue(a) ==
  /\ At(a, "td_refused")
  /\ queue' = <<Top(a).m>> \o queue
  /\ Return(a)
  /\ UNCHANGED <<state, lock, flags, turns, ready, reemits, sent, dropped, counts, closing>>

-----------------------------------------------------------------------------
(* _emit_state: trim the entries under info._lock, dispatch on IDLE, start  *)
(* the timer of the deferred re-emit.                                      *)

EmitTrim(a) ==
  /\ At(a, "es_trim")
  /\ state \in {"idle", "stopped"} => lock = None
  /\ Goto(a, "es_check")
  /\ UNCHANGED <<state, lock, flags, turns, ready, reemits, messages, counts, closing>>

EmitCheck(a) ==
  /\ At(a, "es_check")
  /\ IF state = "idle" /\ ~interrupted
     THEN Call(a, "es_timer", Called("td_pop", 0)) ELSE Return(a)
  /\ UNCHANGED <<state, lock, flags, turns, ready, reemits, messages, counts, closing>>

EmitTimer(a) ==
  /\ At(a, "es_timer")
  /\ reemits' = reemits + 1
  /\ Return(a)
  /\ UNCHANGED <<state, lock, flags, turns, ready, messages, counts, closing>>

ReemitFires(d) ==
  /\ d \in Timers /\ Idle(d) /\ reemits > 0
  /\ reemits' = reemits - 1
  /\ Enter(d, Called("re_check", 0))
  /\ UNCHANGED <<state, lock, flags, turns, ready, messages, counts, closing>>

\* No look at _interrupted here either.
ReemitCheck(d) ==
  /\ At(d, "re_check")
  /\ IF state = "idle" THEN Goto(d, "td_pop") ELSE Return(d)
  /\ UNCHANGED <<state, lock, flags, turns, ready, reemits, messages, counts, closing>>

-----------------------------------------------------------------------------
(* interrupt_session, without a lock from end to end.                      *)

\* (mutant) the interrupt reports the queue discarded and leaves it
InterruptKeepsQueue(a) ==
  /\ At(a, "in_pop")
  /\ dropped' = dropped \cup ToSet(queue)
  /\ Goto(a, "in_flag")
  /\ UNCHANGED <<state, lock, flags, turns, ready, reemits, queue, sent, counts, closing>>

InterruptPop(a) ==
  /\ At(a, "in_pop")
  /\ queue' = << >>
  /\ dropped' = dropped \cup ToSet(queue)
  /\ Goto(a, "in_flag")
  /\ UNCHANGED <<state, lock, flags, turns, ready, reemits, sent, counts, closing>>

InterruptFlag(a) ==
  /\ At(a, "in_flag")
  /\ interrupted' = TRUE
  /\ Goto(a, "in_idle")
  /\ UNCHANGED <<state, lock, superseded, client, turns, ready, reemits, messages, counts,
                 closing>>

InterruptIdle(a) ==
  /\ At(a, "in_idle")
  /\ state' = "idle"
  /\ Goto(a, "in_capture")
  /\ UNCHANGED <<lock, flags, turns, ready, reemits, messages, counts, closing>>

InterruptCapture(a) ==
  /\ At(a, "in_capture")
  /\ stack' = [stack EXCEPT ![a] = <<Called("es_trim", 0),
                                     [Top(a) EXCEPT !.at = "in_schedule", !.x = task]>>
                                   \o Tail(@)]
  /\ UNCHANGED <<state, lock, flags, turns, ready, reemits, messages, counts, closing>>

InterruptSchedule(a) ==
  /\ At(a, "in_schedule")
  /\ Post(<<Item("spawn_interrupt", Top(a).x)>>)
  /\ Return(a)
  /\ UNCHANGED <<state, lock, flags, turns, reemits, messages, counts, closing>>

-----------------------------------------------------------------------------
(* The event loop: one callback at a time, in order.                       *)

LoopFree  == Idle(Loop)
Runs(d)  == LoopFree /\ ready # << >> /\ Head(ready).do = d
Taken     == Tail(ready)

\* run_coroutine_threadsafe: the callback makes the asyncio task, whose first step
\* goes to the end of the line.
SpawnTurn ==
  /\ Runs("spawn")
  /\ ready' = Append(Taken, Item("step", Head(ready).x))
  /\ life' = [life EXCEPT ![Head(ready).x] = "created"]
  /\ UNCHANGED <<state, lock, flags, task, cancelled, stack, reemits, messages, counts,
                 closing>>

SpawnOther ==
  /\ \/ Runs("spawn_interrupt") /\ ready' = Append(Taken, Item("interrupt", Head(ready).x))
     \/ Runs("spawn_close") /\ ready' = Append(Taken, Item("close", None))
  /\ UNCHANGED <<state, lock, flags, turns, stack, reemits, messages, counts, closing>>

\* The end of _tracked_coro: info.task is cleared if it is still this one.  A coroutine
\* that ends before its query takes its message with it.
Unsent == {"created", "yielded", "reconnect", "prep"}
Gone(k) ==
  /\ life' = [life EXCEPT ![k] = "dead"]
  /\ task' = IF task = k THEN None ELSE task
  /\ cancelled' = cancelled \ {k}
Dies(k) == Gone(k) /\ dropped' = IF life[k] \in Unsent THEN dropped \cup {k} ELSE dropped
Becomes(k, l) == life' = [life EXCEPT ![k] = l] /\ UNCHANGED <<task, cancelled, dropped>>

\* First step: _tracked_coro takes info.task, _send_query yields once.
TurnBegins(k) ==
  /\ Runs("step") /\ Head(ready).x = k /\ life[k] = "created"
  /\ task' = k
  /\ life' = [life EXCEPT ![k] = "yielded"]
  /\ ready' = Append(Taken, Item("step", k))
  /\ UNCHANGED <<state, lock, flags, cancelled, stack, reemits, messages, counts, closing>>

\* (mutant) _listener_superseded of the turn before is left set
TurnKeepsSuperseded(k) ==
  /\ Runs("step") /\ Head(ready).x = k /\ life[k] = "yielded"
  /\ ready' = Taken
  /\ IF k \in cancelled THEN Dies(k) /\ UNCHANGED interrupted
     ELSE interrupted' = FALSE /\ Becomes(k, IF client THEN "prep" ELSE "reconnect")
  /\ UNCHANGED <<state, lock, superseded, client, stack, reemits, queue, sent, counts, closing>>

\* Second step: the flags of the turn before are cleared, then the client is looked at;
\* _reconnect_client refuses a session that is stopped.  A cancel that came in between
\* the steps ends the coroutine here, without a handler.
TurnResets(k) ==
  /\ Runs("step") /\ Head(ready).x = k /\ life[k] = "yielded"
  /\ ready' = Taken
  /\ IF k \in cancelled
     THEN Dies(k) /\ UNCHANGED <<interrupted, superseded>>
     ELSE /\ interrupted' = FALSE /\ superseded' = FALSE
          /\ CASE client -> Becomes(k, "prep")
               [] ~client /\ state # "stopped" -> Becomes(k, "reconnect")
               [] OTHER -> Dies(k)
  /\ UNCHANGED <<state, lock, client, stack, reemits, queue, sent, counts, closing>>

\* task.cancel(): a coroutine that waits gets a CancelledError in a later callback; one
\* that waits for its watchdog to end swallows it.
Cancels(k, line) ==
  IF k = None \/ ~Alive(k) \/ k \in cancelled \/ life[k] \in {"unwind", "ended", "broken", "settle"}
  THEN ready' = line /\ UNCHANGED cancelled
  ELSE /\ cancelled' = cancelled \cup {k}
       /\ ready' = IF life[k] \in {"created", "yielded"} THEN line
                   ELSE Append(line, Item("throw", k))

CancelCallback ==
  /\ Runs("cancel")
  /\ Cancels(Head(ready).x, Taken)
  /\ UNCHANGED <<state, lock, flags, task, life, stack, reemits, messages, counts, closing>>

\* _interrupt_session: `task_to_cancel or info.task`; nothing without a client.
InterruptCallback ==
  /\ Runs("interrupt")
  /\ IF client THEN Cancels(IF Head(ready).x # None THEN Head(ready).x ELSE task, Taken)
     ELSE ready' = Taken /\ UNCHANGED cancelled
  /\ UNCHANGED <<state, lock, flags, task, life, stack, reemits, messages, counts, closing>>

\* _close_session up to its await of the disconnect, and from there to its end.
CloseCallback ==
  /\ Runs("close")
  /\ Cancels(task, Taken)
  /\ closing' = TRUE
  /\ UNCHANGED <<state, lock, flags, task, life, stack, reemits, messages, counts>>

CloseEnds ==
  /\ closing /\ LoopFree
  /\ closing' = FALSE
  /\ state' = "stopped"
  /\ client' = FALSE
  /\ Enter(Loop, Called("es_trim", 0))
  /\ UNCHANGED <<lock, interrupted, superseded, turns, ready, reemits, messages, counts>>

-----------------------------------------------------------------------------
(* A turn: prepare (snapshots, drain of stale messages), query, receive     *)
(* until RESULT, wait for the watchdog task, peek, listen.  An await that a *)
(* CancelledError is about to end gets nothing any more.                   *)

Waits(k, l)   == LoopFree /\ life[k] = l /\ k \notin cancelled
Bailing(k)    == task # k \/ superseded
Touches(k)    == ~Bailing(k) /\ ~interrupted
UserStopped   == state = "stopped" \/ interrupted
Frames(fs)    == stack' = [stack EXCEPT ![Loop] = fs]
EmitThen(l, k) == Frames(<<Called("es_trim", 0), Called(l, k)>>)
Then(l, k)    == Frames(<<Called(l, k)>>)
Fails         == failures < MaxFailures /\ failures' = failures + 1
              /\ UNCHANGED <<accepted, interrupts, closes, resumes>>
FailsIf(free) == Fails \/ (free /\ UNCHANGED counts)

Reconnected(k) ==
  /\ Waits(k, "reconnect")
  /\ client' = TRUE
  /\ Becomes(k, "prep")
  /\ UNCHANGED <<state, lock, interrupted, superseded, ready, stack, reemits, queue, sent,
                 counts, closing>>

\* IDLE if WORKING, emit, and out before the try block.
ReconnectFails(k) ==
  /\ Waits(k, "reconnect") /\ Fails
  /\ IF state = "working" THEN state' = "idle" /\ Enter(Loop, Called("es_trim", 0))
     ELSE UNCHANGED <<state, stack>>
  /\ Dies(k)
  /\ UNCHANGED <<lock, flags, ready, reemits, queue, sent, closing>>

\* The query goes to the CLI.
QuerySent(k) ==
  /\ Waits(k, "prep") /\ client
  /\ sent' = Append(sent, k)
  /\ Becomes(k, "turn")
  /\ UNCHANGED <<state, lock, flags, ready, stack, reemits, queue, counts, closing>>

\* RESULT, in _process_message: IDLE under the lock, unless superseded.  The loop
\* waits for the lock.
TurnResult(k) ==
  /\ Waits(k, "turn") /\ client /\ task = k /\ lock = None
  /\ state' = IF superseded THEN state ELSE "idle"
  /\ Becomes(k, "settle")
  /\ UNCHANGED <<lock, flags, ready, stack, reemits, queue, sent, counts, closing>>

\* The watchdog has ended: peek, if this is still the task.
TurnSettles(k) ==
  /\ Waits(k, "settle")
  /\ IF task = k THEN Becomes(k, "drain") ELSE Dies(k)
  /\ UNCHANGED <<state, lock, flags, ready, stack, reemits, queue, sent, counts, closing>>

\* Nothing buffered: the listener emits IDLE and stays; or it bails, and _send_query
\* emits IDLE if it is still the task.
DrainEnds(k) ==
  /\ Waits(k, "drain")
  /\ Becomes(k, "listen")
  /\ CASE Bailing(k) /\ task = k /\ state = "idle"  -> EmitThen("tk_final", k)
       [] Bailing(k) /\ ~(task = k /\ state = "idle") -> Then("tk_final", k)
       [] ~Bailing(k) -> Frames(IF state = "idle" THEN <<Called("es_trim", 0)>> ELSE << >>)
  /\ UNCHANGED <<state, lock, flags, ready, reemits, queue, sent, counts, closing>>

\* (mutant) the CLI's own turn is streamed without the flip to WORKING
ResumesIdle(k) ==
  /\ Waits(k, "listen") /\ client /\ ~Bailing(k) /\ state = "idle"
  /\ resumes < MaxResumes
  /\ resumes' = resumes + 1
  /\ Becomes(k, "resumed")
  /\ Frames(<<Called("es_trim", 0)>>)
  /\ UNCHANGED <<state, lock, flags, ready, reemits, queue, sent, accepted, interrupts,
                 closes, failures, closing>>

\* The CLI starts a turn by itself: _enter_auto_resume.
AutoResumes(k) ==
  /\ Waits(k, "listen") /\ client /\ ~Bailing(k) /\ state = "idle"
  /\ resumes < MaxResumes
  /\ resumes' = resumes + 1
  /\ state' = "working"
  /\ Becomes(k, "resumed")
  /\ Frames(<<Called("es_trim", 0)>>)
  /\ UNCHANGED <<lock, flags, ready, reemits, queue, sent, accepted, interrupts, closes,
                 failures, closing>>

ResumedResult(k) ==
  /\ Waits(k, "resumed") /\ client /\ ~Bailing(k) /\ lock = None
  /\ state' = "idle"
  /\ Becomes(k, "listen")
  /\ Frames(<<Called("es_trim", 0)>>)
  /\ UNCHANGED <<lock, flags, ready, reemits, queue, sent, counts, closing>>

\* receive_response raises under the listener, which only returns.
ListenFails(k) ==
  /\ Waits(k, "listen") \/ Waits(k, "resumed")
  /\ FailsIf(~client)
  /\ IF task = k /\ state = "idle" THEN EmitThen("tk_final", k) ELSE Then("tk_final", k)
  /\ UNCHANGED <<state, lock, flags, turns, dropped, ready, reemits, queue, sent, closing>>

\* The stream of a turn ends without a RESULT, or a newer task makes the loop break; or
\* it raises.  Either way the watchdog is awaited next.
StreamStops(k, l) ==
  /\ Waits(k, "turn")
  /\ FailsIf(~client \/ (l = "ended" /\ task # k))
  /\ Becomes(k, l)
  /\ UNCHANGED <<state, lock, flags, ready, stack, reemits, queue, sent, closing>>

\* "forcing IDLE", without info._lock.
EndedWithoutResult(k) ==
  /\ Waits(k, "ended")
  /\ IF state = "working" /\ task = k
     THEN state' = "idle" /\ EmitThen("tk_catch", k)
     ELSE Then("tk_catch", k) /\ UNCHANGED state
  /\ UNCHANGED <<lock, flags, turns, dropped, ready, reemits, queue, sent, counts, closing>>

\* The error handler reconnects, unless the user has stopped the session; so does a query
\* on a client that has gone.  Whatever comes of it, IDLE follows.
Mend(k) ==
  /\ Waits(k, "broken") \/ (Waits(k, "prep") /\ ~client)
  /\ IF UserStopped
     THEN /\ state' = "idle" /\ EmitThen("tk_catch", k)
          /\ Becomes(k, "broken") /\ UNCHANGED client
     ELSE /\ client' = FALSE /\ Becomes(k, "mend") /\ UNCHANGED <<state, stack>>
  /\ UNCHANGED <<lock, interrupted, superseded, ready, reemits, queue, sent, counts, closing>>

Mended(k) ==
  /\ Waits(k, "mend")
  /\ \/ client' = TRUE /\ UNCHANGED counts
     \/ Fails /\ UNCHANGED client
  /\ state' = "idle" /\ EmitThen("tk_catch", k)
  /\ UNCHANGED <<lock, interrupted, superseded, turns, dropped, ready, reemits, queue, sent,
                 closing>>

-----------------------------------------------------------------------------
(* How a coroutine ends.                                                   *)

\* (mutant) the handler does not ask whether the coroutine was replaced
HandlerAlwaysTouches(k, last) ==
  /\ cancelled' = cancelled \ {k} /\ UNCHANGED <<life, task, dropped>>
  /\ IF state = "working"
     THEN state' = "idle" /\ EmitThen(last, k)
     ELSE Then(last, k) /\ UNCHANGED state

\* The CancelledError handler of _send_query, then its finally.
Handler(k, last) ==
  IF ~Touches(k) THEN Dies(k) /\ UNCHANGED <<state, stack>>
  ELSE /\ cancelled' = cancelled \ {k} /\ UNCHANGED <<life, task, dropped>>
       /\ IF state = "working"
          THEN state' = "idle" /\ EmitThen(last, k)
          ELSE Then(last, k) /\ UNCHANGED state

\* The CancelledError arrives.  Before and after the try block of _send_query nothing
\* handles it; in the receive loop the watchdog is awaited first; in the error handler
\* only the finally block is left.
Thrown(k) ==
  /\ Runs("throw") /\ Head(ready).x = k
  /\ ready' = Taken
  /\ CASE life[k] \in {"reconnect", "prep", "snap"} -> Dies(k) /\ UNCHANGED <<state, stack>>
       [] life[k] = "turn" -> /\ life' = [life EXCEPT ![k] = "unwind"]
                              /\ cancelled' = cancelled \ {k}
                              /\ UNCHANGED <<state, stack, task, dropped>>
       [] life[k] = "mend" -> /\ cancelled' = cancelled \ {k} /\ Then("tk_catch", k)
                              /\ UNCHANGED <<state, life, task, dropped>>
       [] life[k] \in {"drain", "listen", "resumed"} -> Handler(k, "tk_final")
  /\ UNCHANGED <<lock, flags, reemits, queue, sent, counts, closing>>

Unwound(k) ==
  /\ Waits(k, "unwind")
  /\ Handler(k, "tk_catch")
  /\ UNCHANGED <<lock, flags, ready, reemits, queue, sent, counts, closing>>

\* The finally block.  Its catch-all is for a coroutine without a RESULT; the snapshot
\* at the end is awaited.
Catch(k) ==
  /\ At(Loop, "tk_catch") /\ Top(Loop).m = k
  /\ CASE ~Touches(k) -> Dies(k) /\ Return(Loop) /\ UNCHANGED state
       [] Touches(k) /\ state = "working" ->
            state' = "idle" /\ EmitThen("tk_final", k) /\ UNCHANGED <<turns, dropped>>
       [] OTHER -> Becomes(k, "snap") /\ Return(Loop) /\ UNCHANGED state
  /\ UNCHANGED <<lock, flags, ready, reemits, queue, sent, counts, closing>>

Final(k) ==
  /\ At(Loop, "tk_final") /\ Top(Loop).m = k
  /\ Return(Loop)
  /\ IF Touches(k) THEN Becomes(k, "snap") ELSE Dies(k)
  /\ UNCHANGED <<state, lock, flags, ready, reemits, queue, sent, counts, closing>>

SnapshotDone(k) ==
  /\ Waits(k, "snap")
  /\ Dies(k)
  /\ UNCHANGED <<state, lock, flags, ready, stack, reemits, queue, sent, counts, closing>>

-----------------------------------------------------------------------------

\* One step of a synchronous method, whoever runs it.
Step(a) ==
  \/ SendAcquire(a) \/ SendRefuse(a) \/ SendBusy(a) \/ SendUnlock(a)
  \/ SendPasses(a) \/ SendFlip(a) \/ SendSchedule(a)
  \/ QueueAppend(a) \/ QueueCheck(a)
  \/ DispatchEmpty(a) \/ DispatchPop(a) \/ DispatchRequeue(a)
  \/ EmitTrim(a) \/ EmitCheck(a) \/ EmitTimer(a)
  \/ ReemitCheck(a)
  \/ InterruptPop(a) \/ InterruptFlag(a) \/ InterruptIdle(a)
  \/ InterruptCapture(a) \/ InterruptSchedule(a)

LoopStep ==
  \/ SpawnTurn \/ SpawnOther \/ CancelCallback \/ InterruptCallback \/ CloseCallback
  \/ CloseEnds
  \/ \E k \in Tasks : TurnBegins(k) \/ TurnResets(k) \/ Thrown(k) \/ Catch(k) \/ Final(k)

\* What an await waits for has come; that it comes is up to the CLI and the disk.
Awaited(k) ==
  \/ Reconnected(k) \/ QuerySent(k) \/ TurnResult(k) \/ TurnSettles(k) \/ DrainEnds(k)
  \/ ResumedResult(k) \/ EndedWithoutResult(k) \/ Mend(k) \/ Mended(k) \/ Unwound(k)
  \/ SnapshotDone(k)

Requests(t) == SendRequest(t) \/ QueueRequest(t) \/ InterruptRequest(t)
Trouble(k)  == ReconnectFails(k) \/ ListenFails(k) \/ StreamStops(k, "ended")
               \/ StreamStops(k, "broken") \/ AutoResumes(k)

Next ==
  \/ \E a \in Actors : Step(a)
  \/ LoopStep
  \/ \E k \in Tasks : Awaited(k) \/ Trouble(k)
  \/ \E d \in Timers : ReemitFires(d)
  \/ \E t \in Threads : Requests(t)
  \/ CloseRequest

Spec == Init /\ [][Next]_vars

\* Threads, timers and the loop keep running; the CLI answers and the disk writes.
FairSpec ==
  /\ Spec
  /\ \A a \in Actors : WF_vars(Step(a))
  /\ WF_vars(LoopStep)
  /\ \A k \in Tasks : WF_vars(Awaited(k))
  /\ \A d \in Timers : WF_vars(ReemitFires(d))

-----------------------------------------------------------------------------
(* Properties.                                                             *)

\* Nothing runs and nothing is about to: every actor idle, no callback, no timer, no
\* coroutine on its way.
Quiescent ==
  /\ \A a \in Actors : Idle(a)
  /\ ready = << >> /\ reemits = 0 /\ ~closing
  /\ \A k \in Tasks : life[k] \in {"none", "turn", "listen", "resumed", "dead"}

\* info._lock (a threading.Lock) is not reentrant: an actor that holds it in send_message
\* never reaches a send_message that asks for it again.
NoSelfDeadlock == \A a \in Actors : ~(At(a, "sm_lock") /\ lock = a)

\* Two sends that both see IDLE do not both start a query: at most one is answered.
OneTurn == Cardinality({k \in Tasks : life[k] = "turn" /\ k \notin cancelled}) <= 1

\* The CLI's stream has one reader: a send cancels the listener before its query reads.
Reads == {"turn", "drain", "listen", "resumed"}
OneReader == Cardinality({k \in Tasks : life[k] \in Reads /\ k \notin cancelled}) <= 1

\* A session that shows WORKING has a turn running, whoever was cancelled on the way to it;
\* otherwise it takes no message any more.
WorkingIsServed ==
  Quiescent /\ state = "working" => \E k \in Tasks : life[k] \in {"turn", "resumed"}

\* A session that shows IDLE or STOPPED has none.
RestIsRest ==
  Quiescent /\ state # "working" => \A k \in Tasks : life[k] \notin {"turn", "resumed"}

\* queue_message's append and check against a turn's IDLE and dispatch: whichever comes
\* second finds the other, so no message stays in the queue of an idle session.
NoneLeftBehind == Quiescent /\ state = "idle" => queue = << >>

\* A message goes to the CLI once at most, and never when an interrupt or a failure took
\* it away or while the queue still has it.
SentOnce ==
  /\ IsInjective(sent)
  /\ ToSet(sent) \cap (dropped \cup ToSet(queue)) = {}

\* A coroutine that has been replaced as info.task never sets the state of the session,
\* however late its stream, its cancellation or its cleanup comes.  Only the reconnect of
\* the error handler does not ask (Mend, Mended).
StaleHandsOff ==
  [][\A k \in Tasks : task # k /\ life[k] \notin {"prep", "broken", "mend"}
                         /\ (Awaited(k) \/ Thrown(k) \/ Catch(k)) => state' = state]_vars

\* A session that _close_session has made STOPPED stays so.
StopSticks == [][state = "stopped" => state' = "stopped"]_vars

\* Every message that send_message or queue_message takes reaches the CLI or is given up,
\* by an interrupt or a failure: none waits for ever.
Delivered == \A m \in Messages : m <= accepted ~> m \in ToSet(sent) \cup dropped
=============================================================================
