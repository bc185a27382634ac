---------------------------- MODULE MessageQueue ----------------------------
(***************************************************************************)
(* The per-session message queue of the session engine                     *)
(* (src/engine/message_queue.py): the in-memory queues, the operations the  *)
(* request threads and the engine run on them, the debounced background    *)
(* save, the flush of a clean shutdown, and the process dying and starting *)
(* again on what the file holds.                                           *)
(*                                                                         *)
(* Every operation of the code is a critical section under _queue_lock     *)
(* followed by save_queues() and, for a dispatch, by the call of send_fn,  *)
(* all of it outside the lock.  The critical section is one action here;   *)
(* each of the unlocked steps after it is an action of its own.            *)
(*                                                                         *)
(* A message carries an id next to its text: the code compares texts only, *)
(* the id lets the properties follow one message.                          *)
(***************************************************************************)
EXTENDS Naturals, Sequences, SequencesExt

CONSTANTS
  Sessions,     \* session ids, the keys of _queues
  Texts,        \* message texts
  Threads,      \* threads that call into the queue
  Savers,       \* threading.Timer objects that can exist at the same time
  None,         \* Python's None
  MaxOps,       \* bound: operations begun over a run
  MaxRestarts   \* bound: process deaths over a run

ASSUME BoundsAssumption == MaxOps \in Nat /\ MaxRestarts \in Nat
ASSUME NoneAssumption == None \notin Savers
ASSUME WritersAssumption == Threads \cap Savers = {}

Ids     == 1 .. MaxOps
Message == [id : Ids, text : Texts]
Popped  == [id : Ids, text : Texts, to : Sessions]
Queues  == [Sessions -> Seq(Message)]
Empty   == [s \in Sessions |-> << >>]
Writers == Threads \cup Savers     \* whoever runs _save_queues_now

VARIABLES
  queues,     \* _queues; a session without a key is a session with << >>
  disk,       \* the queue file, as _load_queues would read it
  file,       \* whether that is the whole file, or it is empty (a write_text
              \* has truncated it) or a mix of two writes: neither can be parsed
  timer,      \* _queue_save_timer
  saver,      \* the state of each Timer object
  snapshot,   \* what a _save_queues_now has taken under the lock
  pc,         \* where each thread stands in its operation
  held,       \* what a dispatch has popped and for which session: a sequence
              \* of at most one
  ops,        \* operations begun so far
  accepted,   \* number of messages accepted so far
  delivered,  \* ids that send_fn has taken
  discarded,  \* ids dropped on request, as a duplicate, or with the process
  aborted,    \* ids whose dispatch died on an exception of save_queues
  flushed,    \* a flush is the last operation that began
  raced,      \* a save was skipped, or overwritten, by a write already under way
  restarts    \* process deaths so far

memVars   == <<queues, accepted, discarded>>
countVars == <<ops, restarts>>
fileVars  == <<disk, file, snapshot>>
timerVars == <<timer, saver>>
sendVars  == <<held, delivered>>
vars == <<queues, disk, file, timer, saver, snapshot, pc, held, ops, accepted,
          delivered, discarded, aborted, flushed, raced, restarts>>

-----------------------------------------------------------------------------
(* Where things are.                                                       *)

SeqIds(q)  == {q[i].id : i \in DOMAIN q}
IdsIn(Q)   == UNION {SeqIds(Q[s]) : s \in Sessions}
QueuedIds  == IdsIn(queues)
OnDisk     == IF file = "whole" THEN disk ELSE Empty     \* what would be loaded
OnDiskIds  == IdsIn(OnDisk)
HeldIds    == UNION {SeqIds(held[t]) : t \in Threads}
Accepted   == 1 .. accepted

\* No id occurs twice in a sequence, or in the queues as a whole.
Distinct(q) == \A i, j \in DOMAIN q : q[i].id = q[j].id => i = j
NoRepeat(Q) == /\ \A s \in Sessions : Distinct(Q[s])
               /\ \A s, r \in Sessions : s # r => SeqIds(Q[s]) \cap SeqIds(Q[r]) = {}

Alive(x)    == saver[x] \in {"waiting", "snap", "writing"}
TimerIs(S)  == timer \in Savers /\ saver[timer] \in S
Writing(w)  == IF w \in Savers THEN saver[w] \in {"snap", "writing"}
               ELSE pc[w] \in {"flushed_snap", "flush_writing"}
Quiescent   == /\ \A t \in Threads : pc[t] = "idle"
               /\ \A x \in Savers : ~Alive(x)
Fresh       == file = "whole" /\ disk = queues

TypeOK ==
  /\ queues \in Queues
  /\ disk \in Queues
  /\ file \in {"whole", "empty", "mixed"}
  /\ timer \in Savers \cup {None}
  /\ saver \in [Savers -> {"dead", "new", "waiting", "snap", "writing"}]
  /\ snapshot \in [Writers -> Queues]
  /\ pc \in [Threads -> {"idle", "save", "save_send", "assign", "assign_send",
                         "start", "start_send", "send", "flush_take",
                         "flushed_snap", "flush_writing"}]
  /\ held \in [Threads -> Seq(Popped)]
  /\ \A t \in Threads : Len(held[t]) <= 1
  /\ ops \in 0 .. MaxOps
  /\ accepted \in 0 .. ops
  /\ delivered \subseteq Ids
  /\ discarded \subseteq Ids
  /\ aborted \subseteq Ids
  /\ flushed \in BOOLEAN
  /\ raced \in BOOLEAN
  /\ restarts \in 0 .. MaxRestarts

Init ==
  /\ queues = Empty /\ disk = Empty /\ file = "whole"
  /\ timer = None
  /\ saver = [x \in Savers |-> "dead"]
  /\ snapshot = [w \in Writers |-> Empty]
  /\ pc = [t \in Threads |-> "idle"]
  /\ held = [t \in Threads |-> << >>]
  /\ ops = 0 /\ accepted = 0
  /\ delivered = {} /\ discarded = {} /\ aborted = {}
  /\ flushed = FALSE /\ raced = FALSE
  /\ restarts = 0

-----------------------------------------------------------------------------
(* The operations: their critical sections.                                *)

Goto(t, l) == pc' = [pc EXCEPT ![t] = l]

\* A thread begins an operation whose critical section leads to step l.
Begin(t, l) ==
  /\ pc[t] = "idle"
  /\ ops < MaxOps
  /\ ops' = ops + 1
  /\ flushed' = (l = "flush_take")
  /\ Goto(t, l)

\* `if q and q[-1] == text`: the adjacent-duplicate guard.
IsTailDuplicate(q, text) == q # << >> /\ Last(q).text = text

\* queue_message from a client.  A duplicate is reported as queued and dropped.
QueueMessage(t, s, text) ==
  /\ Begin(t, "save")
  /\ ~IsTailDuplicate(queues[s], text)
  /\ accepted' = accepted + 1
  /\ queues' = [queues EXCEPT ![s] = Append(@, [id |-> accepted + 1, text |-> text])]
  /\ UNCHANGED <<fileVars, timerVars, sendVars, discarded, aborted, raced, restarts>>

\* Mutant: the removal is not saved.
RemoveWithoutSave(t, s, i) ==
  /\ Begin(t, "idle")
  /\ i \in DOMAIN queues[s]
  /\ queues' = [queues EXCEPT ![s] = RemoveAt(@, i)]
  /\ discarded' = discarded \cup {queues[s][i].id}
  /\ UNCHANGED <<fileVars, timerVars, sendVars, accepted, aborted, raced, restarts>>

\* remove_queue_item: an index out of range returns an error and changes nothing.
RemoveQueueItem(t, s, i) ==
  /\ Begin(t, "save")
  /\ i \in DOMAIN queues[s]
  /\ queues' = [queues EXCEPT ![s] = RemoveAt(@, i)]
  /\ discarded' = discarded \cup {queues[s][i].id}
  /\ UNCHANGED <<fileVars, timerVars, sendVars, accepted, aborted, raced, restarts>>

\* edit_queue_item: no duplicate guard here.
EditQueueItem(t, s, i, text) ==
  /\ Begin(t, "save")
  /\ i \in DOMAIN queues[s]
  /\ queues' = [queues EXCEPT ![s][i].text = text]
  /\ UNCHANGED <<fileVars, timerVars, sendVars, accepted, discarded, aborted,
                 raced, restarts>>

\* clear_queue always saves; pop_queue (interrupt_session) only if there was a key,
\* which makes no difference to what is saved.
ClearQueue(t, s) ==
  /\ Begin(t, "save")
  /\ queues' = [queues EXCEPT ![s] = << >>]
  /\ discarded' = discarded \cup SeqIds(queues[s])
  /\ UNCHANGED <<fileVars, timerVars, sendVars, accepted, aborted, raced, restarts>>

\* Mutants: `_queues[new_id] = _queues.get(old_id)`, which keeps the old key or
\* stores None for a missing one.
RemapCopies(t, old, new) ==
  /\ Begin(t, "save")
  /\ old # new
  /\ queues' = [queues EXCEPT ![new] = queues[old]]
  /\ discarded' = discarded \cup SeqIds(queues[new])
  /\ UNCHANGED <<fileVars, timerVars, sendVars, accepted, aborted, raced, restarts>>
RemapStoresNone(t, old, new) ==
  /\ Begin(t, "save")
  /\ old # new
  /\ queues' = [queues EXCEPT ![new] = IF queues[old] = << >> THEN None ELSE queues[old],
                              ![old] = << >>]
  /\ UNCHANGED <<fileVars, timerVars, sendVars, accepted, discarded, aborted,
                 raced, restarts>>

\* remap_session_id: the old queue replaces whatever the new id had queued.
Remap(t, old, new) ==
  /\ Begin(t, "save")
  /\ old # new
  /\ queues' = IF queues[old] = << >> THEN queues
               ELSE [queues EXCEPT ![new] = queues[old], ![old] = << >>]
  /\ discarded' = discarded \cup (IF queues[old] = << >> THEN {}
                                  ELSE SeqIds(queues[new]))
  /\ UNCHANGED <<fileVars, timerVars, sendVars, accepted, aborted, raced, restarts>>

\* try_dispatch_queue up to the end of its first critical section.
PopHead(t, s) ==
  /\ Begin(t, "save_send")
  /\ queues[s] # << >>
  /\ held' = [held EXCEPT ![t] = <<[id |-> Head(queues[s]).id, text |-> Head(queues[s]).text,
                                to |-> s]>>]
  /\ queues' = [queues EXCEPT ![s] = Tail(@)]
  /\ UNCHANGED <<fileVars, timerVars, accepted, delivered, discarded, aborted,
                 raced, restarts>>

-----------------------------------------------------------------------------
(* send_fn, called by the dispatch without the lock.  send_message starts  *)
(* the turn, refuses (the session is stopped or gone), or finds the        *)
(* session busy and queues the text again, at the tail.                    *)

HeldMessage(t) == [id |-> held[t][1].id, text |-> held[t][1].text]

SendTaken(t) ==
  /\ pc[t] = "send"
  /\ delivered' = delivered \cup SeqIds(held[t])
  /\ held' = [held EXCEPT ![t] = << >>]
  /\ Goto(t, "idle")
  /\ UNCHANGED <<memVars, fileVars, timerVars, aborted, raced, flushed, countVars>>

\* Mutant: a refused message is not put back.
SendRefusedDrops(t) ==
  /\ pc[t] = "send"
  /\ held' = [held EXCEPT ![t] = << >>]
  /\ Goto(t, "save")
  /\ UNCHANGED <<memVars, fileVars, timerVars, delivered, aborted, raced, flushed,
                 countVars>>

\* Send failed: back to the front of the queue.
SendRefused(t) ==
  /\ pc[t] = "send"
  /\ queues' = [queues EXCEPT ![held[t][1].to] = <<HeldMessage(t)>> \o @]
  /\ held' = [held EXCEPT ![t] = << >>]
  /\ Goto(t, "save")
  /\ UNCHANGED <<fileVars, timerVars, accepted, delivered, discarded,
                 aborted, raced, flushed, countVars>>

\* Session busy: send_message has queued the text again, at the tail.
SendQueuedAgain(t) ==
  /\ pc[t] = "send"
  /\ LET dup == IsTailDuplicate(queues[held[t][1].to], held[t][1].text)
     IN  /\ queues' = IF dup THEN queues
                      ELSE [queues EXCEPT ![held[t][1].to] = Append(@, HeldMessage(t))]
         /\ discarded' = IF dup THEN discarded \cup SeqIds(held[t]) ELSE discarded
         /\ Goto(t, IF dup THEN "idle" ELSE "save")
  /\ held' = [held EXCEPT ![t] = << >>]
  /\ UNCHANGED <<fileVars, timerVars, accepted, delivered, aborted, raced,
                 flushed, countVars>>

-----------------------------------------------------------------------------
(* save_queues: look at the timer, assign a new Timer object to            *)
(* _queue_save_timer, start whatever that attribute holds by then.         *)

SkipSave(t) ==
  /\ pc[t] \in {"save", "save_send"}
  /\ TimerIs({"waiting", "snap", "writing"})
  /\ Goto(t, IF pc[t] = "save" THEN "idle" ELSE "send")
  /\ raced' = (raced \/ ~TimerIs({"waiting"}))
  /\ UNCHANGED <<memVars, fileVars, timerVars, sendVars, aborted, flushed, countVars>>

DecideSave(t) ==
  /\ pc[t] \in {"save", "save_send"}
  /\ ~TimerIs({"waiting", "snap", "writing"})
  /\ Goto(t, IF pc[t] = "save" THEN "assign" ELSE "assign_send")
  /\ UNCHANGED <<memVars, fileVars, timerVars, sendVars, aborted, raced, flushed, countVars>>

\* A Timer object nobody refers to any more and that was never started is dead.
AssignTimer(t, x) ==
  /\ pc[t] \in {"assign", "assign_send"}
  /\ saver[x] = "dead"
  /\ timer' = x
  /\ saver' = [y \in Savers |-> IF y = x THEN "new"
                                ELSE IF saver[y] = "new" THEN "dead" ELSE saver[y]]
  /\ Goto(t, IF pc[t] = "assign" THEN "start" ELSE "start_send")
  /\ UNCHANGED <<memVars, fileVars, sendVars, aborted, raced, flushed, countVars>>

\* Mutant: the new timer is never started.
NeverStartTimer(t) ==
  /\ pc[t] \in {"start", "start_send"}
  /\ TimerIs({"new"})
  /\ Goto(t, IF pc[t] = "start" THEN "idle" ELSE "send")
  /\ UNCHANGED <<memVars, fileVars, timerVars, sendVars, aborted, raced, flushed,
                 countVars>>


StartTimer(t) ==
  /\ pc[t] \in {"start", "start_send"}
  /\ TimerIs({"new"})
  /\ saver' = [saver EXCEPT ![timer] = "waiting"]
  /\ Goto(t, IF pc[t] = "start" THEN "idle" ELSE "send")
  /\ UNCHANGED <<memVars, fileVars, timer, sendVars, aborted, raced, flushed, countVars>>

\* Another thread has started (RuntimeError) or removed (AttributeError) the
\* timer in between: the exception ends the operation, with what it has popped.
StartTimerRaises(t) ==
  /\ pc[t] \in {"start", "start_send"}
  /\ ~TimerIs({"new"})
  /\ aborted' = aborted \cup SeqIds(held[t])
  /\ held' = [held EXCEPT ![t] = << >>]
  /\ raced' = TRUE
  /\ Goto(t, "idle")
  /\ UNCHANGED <<memVars, fileVars, timerVars, delivered, flushed, countVars>>

-----------------------------------------------------------------------------
(* _save_queues_now: the snapshot under the lock, the write without it.    *)
(* write_text truncates the file, then fills it.                           *)

TakeSnapshot(w) ==
  /\ \/ w \in Savers /\ saver[w] = "waiting" /\ UNCHANGED pc
        /\ saver' = [saver EXCEPT ![w] = "snap"]
     \/ w \in Threads /\ pc[w] = "flush_take" /\ UNCHANGED saver
        /\ Goto(w, "flushed_snap")
  /\ snapshot' = [snapshot EXCEPT ![w] = queues]
  /\ UNCHANGED <<memVars, disk, file, timer, sendVars, aborted, raced, flushed, countVars>>

Truncate(w) ==
  /\ \/ w \in Savers /\ saver[w] = "snap" /\ UNCHANGED pc
        /\ saver' = [saver EXCEPT ![w] = "writing"]
     \/ w \in Threads /\ pc[w] = "flushed_snap" /\ UNCHANGED saver
        /\ Goto(w, "flush_writing")
  /\ file' = "empty"
  /\ raced' = (raced \/ \E v \in Writers \ {w} : Writing(v))
  /\ UNCHANGED <<memVars, disk, snapshot, timer, sendVars, aborted, flushed, countVars>>

\* Over a file that another writer has filled since, the longer text stays
\* visible behind the shorter one.
Fill(w) ==
  /\ \/ w \in Savers /\ saver[w] = "writing" /\ UNCHANGED pc
        /\ saver' = [saver EXCEPT ![w] = "dead"]
     \/ w \in Threads /\ pc[w] = "flush_writing" /\ UNCHANGED saver
        /\ Goto(w, "idle")
  /\ disk' = snapshot[w]
  /\ file' \in IF file = "empty" THEN {"whole"} ELSE {"whole", "mixed"}
  /\ snapshot' = [snapshot EXCEPT ![w] = Empty]
  /\ UNCHANGED <<memVars, timer, sendVars, aborted, raced, flushed, countVars>>

\* flush: cancel_timer, then _save_queues_now by the calling thread.  cancel()
\* stops a timer that still waits and has no effect on one that is writing.
\* SessionManager.stop is its one caller: no two flushes overlap.
Flush(t) ==
  /\ Begin(t, "flush_take")
  /\ \A u \in Threads : pc[u] \notin {"flush_take", "flushed_snap", "flush_writing"}
  /\ timer' = None
  /\ saver' = IF TimerIs({"new", "waiting"})
              THEN [saver EXCEPT ![timer] = "dead"] ELSE saver
  /\ UNCHANGED <<memVars, fileVars, sendVars, aborted, raced, restarts>>

-----------------------------------------------------------------------------
(* The process dies and the next one loads the file (_load_queues).  The   *)
(* bookkeeping starts again: what the file does not hold is gone.          *)
Restart ==
  /\ restarts < MaxRestarts
  /\ restarts' = restarts + 1
  /\ queues' = OnDisk
  /\ disk' = OnDisk
  /\ file' = "whole"
  /\ timer' = None
  /\ saver' = [x \in Savers |-> "dead"]
  /\ snapshot' = [w \in Writers |-> Empty]
  /\ pc' = [t \in Threads |-> "idle"]
  /\ held' = [t \in Threads |-> << >>]
  /\ delivered' = {} /\ aborted' = {}
  /\ discarded' = Accepted \ OnDiskIds
  /\ flushed' = FALSE /\ raced' = FALSE
  /\ UNCHANGED <<ops, accepted>>

-----------------------------------------------------------------------------
Operation(t) ==
  \/ \E s \in Sessions :
       \/ \E text \in Texts : QueueMessage(t, s, text)
       \/ \E i \in DOMAIN queues[s] : RemoveQueueItem(t, s, i)
       \/ \E i \in DOMAIN queues[s], text \in Texts : EditQueueItem(t, s, i, text)
       \/ ClearQueue(t, s)
       \/ \E new \in Sessions : Remap(t, s, new)
       \/ PopHead(t, s)
  \/ Flush(t)

\* The rest of an operation that has begun.
Continue(t) ==
  \/ SendTaken(t) \/ SendRefused(t) \/ SendQueuedAgain(t)
  \/ SkipSave(t) \/ DecideSave(t)
  \/ \E x \in Savers : AssignTimer(t, x)
  \/ StartTimer(t) \/ StartTimerRaises(t)

Save(w) == TakeSnapshot(w) \/ Truncate(w) \/ Fill(w)

Next ==
  \/ \E t \in Threads : Operation(t) \/ Continue(t)
  \/ \E w \in Writers : Save(w)
  \/ Restart

Spec == Init /\ [][Next]_vars

\* Threads run to the end of what they have begun; timers fire.
FairSpec == Spec /\ \A t \in Threads : WF_vars(Continue(t))
                 /\ \A w \in Writers : WF_vars(Save(w))

-----------------------------------------------------------------------------
(* Properties.                                                             *)

\* A message is in one place only: at one position of one queue, or popped by
\* one dispatch, or already taken by send_fn.  No dispatch, requeue or remap
\* (try_dispatch_queue, remap_session_id) can make two of one message.
InOnePlace ==
  /\ NoRepeat(queues)
  /\ QueuedIds \cap HeldIds = {}
  /\ \A t, u \in Threads : t # u => SeqIds(held[t]) \cap SeqIds(held[u]) = {}
  /\ (QueuedIds \cup HeldIds) \cap (delivered \cup discarded \cup aborted) = {}

\* A message that queue_message accepted stays queued or popped until send_fn
\* takes it, someone discards it, the process dies with it, or save_queues
\* raises under the dispatch that has popped it; and nothing else is there.
NothingVanishes ==
  Accepted = QueuedIds \cup HeldIds \cup delivered \cup discarded \cup aborted

\* Whatever a restart can come to load (the file, or a snapshot on its way there)
\* holds accepted messages only and none of them twice, however old it is.
CopiesSound ==
  /\ NoRepeat(disk) /\ IdsIn(disk) \subseteq Accepted
  /\ \A w \in Writers : NoRepeat(snapshot[w]) /\ IdsIn(snapshot[w]) \subseteq Accepted

\* To its clients the module is MessageDelivery: whatever its threads, timers and
\* saves do, each step moves messages as one step of that specification does.
Promise == INSTANCE MessageDelivery
             WITH waiting <- QueuedIds, inHand <- HeldIds, lost <- discarded \cup aborted
Delivers == Promise!Spec

\* A popped message is held exactly by a dispatch that still has to send it.
HeldIsMidDispatch ==
  \A t \in Threads : held[t] # << >> <=> pc[t] \in {"save_send", "assign_send",
                                                    "start_send", "send"}

\* Once every operation and every save has ended, the file is the queues, unless
\* a save was skipped or overtaken by a write already under way: no operation
\* forgets its save, and the debounce of save_queues loses none by itself.
QuietMeansSaved == Quiescent /\ ~raced => Fresh

\* What save_queues promises ("the pending save will capture the latest state"):
\* once every operation and every save has ended, the file is the queues.
DebounceCapturesLatest == Quiescent => Fresh

\* What flush is for ("to ensure no data loss on clean exit"): when it has ended
\* as the last operation, exiting the process there loses nothing.
FlushSurvivesExit == flushed /\ (\A t \in Threads : pc[t] = "idle") => Fresh

\* A change that is not in the file gets there, under the condition of
\* QuietMeansSaved: the timer is started and what it starts does write.
EventuallySaved == ~Fresh ~> (Fresh \/ raced)
=============================================================================
