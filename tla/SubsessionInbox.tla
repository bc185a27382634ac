---------------------------- MODULE SubsessionInbox ----------------------------
(***************************************************************************)
(* The inbox of a parent session (src/engine/subsession_inbox.py), the      *)
(* reports its subsessions write into it and the drain by which the        *)
(* parent's next message takes them (SessionManager.send_message).         *)
(*                                                                         *)
(* Two processes use the file: the engine drains it and would write the     *)
(* automatic reports, the web server writes those of report-to-parent.      *)
(* Each has a lock of its own (_INBOX_LOCKS) around its load-change-replace *)
(* of the file; os.replace makes the change appear at once.  inbox_dirty is *)
(* the engine's cached "there is something to drain": a send reads the     *)
(* file only when it is set.                                               *)
(*                                                                         *)
(* One parent, one child that reports automatically; a report is the       *)
(* number of its append, a transcript entry its kind.  Left out: a corrupt  *)
(* file (renamed, then empty) and the deletion of the parent.              *)
(***************************************************************************)
EXTENDS Naturals, Sequences, FiniteSets, SequencesExt

CONSTANTS
  EngineThreads,  \* threads of the engine: sends to the parent, IDLE emits of the child
  WebThreads,     \* request threads of the web server: report-to-parent
  None,
  Cap,            \* MAX_PENDING_REPORTS
  MaxReports,     \* bound: reports written
  MaxSends,       \* bound: messages sent to the parent
  MaxTexts,       \* bound: texts of the child with automatic reports
  MaxFaults,      \* bound: failed writes, stops of the parent
  MaxRestarts     \* bound: deaths of the engine

ASSUME CapAssumption == Cap \in Nat \ {0}
ASSUME BoundsAssumption == MaxReports \in Nat /\ MaxSends \in Nat
                           /\ MaxTexts \in Nat /\ MaxFaults \in Nat /\ MaxRestarts \in Nat
ASSUME ThreadsAssumption ==
  EngineThreads \cap WebThreads = {} /\ None \notin EngineThreads \cup WebThreads

Threads == EngineThreads \cup WebThreads
Procs   == {"engine", "web"}
Reports == 1 .. MaxReports
Entry   == [id : Reports, delivered : BOOLEAN]

VARIABLES
  inbox,      \* pending_reports in the file
  lock,       \* who holds each process's lock of this parent
  copy,       \* what a thread has loaded from the file
  carries,    \* the reports in the text a thread is about to send
  pc,
  parent,     \* "live", "stopped", or "absent": not in _sessions
  dirty,      \* info.inbox_dirty
  written,    \* reports written so far
  drained,    \* the reports drains have returned, in order
  taken,      \* reports in a message that the session took
  evicted,    \* reports that the cap has pushed out of the file
  missed,     \* inbox_dirty was cleared or could not be set, or the parent loaded, over
              \* waiting reports, and the flag has not been set since
  overlapped, \* one process has loaded the file while the other was about to write it
  entries,    \* the kinds of the entries in the child's transcript
  seen,       \* _last_auto_report_entry_count
  sends, faults, restarts

vars == <<inbox, lock, copy, carries, pc, parent, dirty, written, drained, taken, evicted,
          missed, overlapped, entries, seen, sends, faults, restarts>>
fileVars   == <<inbox, written, drained, evicted>>
parentVars == <<parent, dirty, missed>>
childVars  == <<entries, seen>>
bounds     == <<sends, faults, restarts>>

\* What _process_message appends for a text of the assistant, and what the automatic
\* report looks for.
EntryKind  == "asst"
ReportKind == "assistant"

Proc(t)     == IF t \in EngineThreads THEN "engine" ELSE "web"
\* The places of a list in order, and the list of what is at them.
InOrder(places) == [i \in 1 .. Cardinality(places) |->
                      CHOOSE n \in places : Cardinality({m \in places : m <= n}) = i]
At(q, places)   == [i \in 1 .. Cardinality(places) |-> q[InOrder(places)[i]]]
Waiting(q)  == At(q, {i \in DOMAIN q : ~q[i].delivered})
Done(q)     == At(q, {i \in DOMAIN q : q[i].delivered})
IdSeq(q)    == [i \in DOMAIN q |-> q[i].id]
IdsOf(q)    == {q[i].id : i \in DOMAIN q}
\* has_undelivered
HasUndelivered == \E i \in DOMAIN inbox : ~inbox[i].delivered

TypeOK ==
  /\ inbox \in Seq(Entry) /\ Len(inbox) <= Cap
  /\ lock \in [Procs -> Threads \cup {None}]
  /\ copy \in [Threads -> Seq(Entry)]
  /\ carries \in [Threads -> Seq(Reports)]
  /\ pc \in [Threads -> {"idle", "append", "append_write", "mark", "check", "drain",
                         "drain_write", "clear", "send"}]
  /\ parent \in {"live", "stopped", "absent"} /\ dirty \in BOOLEAN
  /\ written \in 0 .. MaxReports
  /\ drained \in Seq(Reports)
  /\ taken \subseteq Reports /\ evicted \subseteq Reports
  /\ missed \in BOOLEAN /\ overlapped \in BOOLEAN
  /\ entries \in Seq({EntryKind}) /\ Len(entries) <= MaxTexts /\ seen \in 0 .. Len(entries)
  /\ sends \in 0 .. MaxSends /\ faults \in 0 .. MaxFaults
  /\ restarts \in 0 .. MaxRestarts

Init ==
  /\ inbox = << >>
  /\ lock = [p \in Procs |-> None]
  /\ copy = [t \in Threads |-> << >>] /\ carries = [t \in Threads |-> << >>]
  /\ pc = [t \in Threads |-> "idle"]
  /\ parent = "live" /\ dirty = FALSE
  /\ written = 0 /\ drained = << >> /\ taken = {} /\ evicted = {}
  /\ missed = FALSE /\ overlapped = FALSE
  /\ entries = << >> /\ seen = 0
  /\ sends = 0 /\ faults = 0 /\ restarts = 0

Moves(t, from, to) == pc[t] = from /\ pc' = [pc EXCEPT ![t] = to]
Fault == faults < MaxFaults /\ faults' = faults + 1 /\ UNCHANGED <<sends, restarts>>

\* (mutant) the file is loaded before the lock is asked for
LoadUnlocked(t) ==
  /\ lock' = [lock EXCEPT ![Proc(t)] = t]
  /\ copy' = [copy EXCEPT ![t] = inbox]
  /\ overlapped' = (overlapped \/ \E p \in Procs \ {Proc(t)} : lock[p] # None)

\* `with _lock_for(parent)`, and the file is loaded.
Load(t) ==
  /\ lock[Proc(t)] = None
  /\ lock' = [lock EXCEPT ![Proc(t)] = t]
  /\ copy' = [copy EXCEPT ![t] = inbox]
  /\ overlapped' = (overlapped \/ \E p \in Procs \ {Proc(t)} : lock[p] # None)
Unlock(t) == lock' = [lock EXCEPT ![Proc(t)] = None]

-----------------------------------------------------------------------------
(* A report.                                                               *)

\* (mutant) undelivered entries go first
EvictWaiting(q) ==
  IF Len(q) <= Cap THEN q
  ELSE SubSeq(Waiting(q) \o Done(q), Len(q) - Cap + 1, Len(q))

\* (mutant) one report more than the cap is kept
CapOffByOne(q) == IF Len(q) <= Cap + 1 THEN q ELSE Tail(Done(q) \o Waiting(q))

\* Over the cap, delivered entries go first, the oldest first; the rest ends up with the
\* delivered ones in front.
EnforceCap(q) ==
  IF Len(q) <= Cap THEN q
  ELSE [i \in 1 .. Cap |-> (Done(q) \o Waiting(q))[Len(q) - Cap + i]]

\* A POST to report-to-parent.
BeginReport(t) ==
  /\ t \in WebThreads
  /\ Moves(t, "idle", "append")
  /\ written < MaxReports
  /\ UNCHANGED <<childVars, overlapped, fileVars, lock, copy, carries, parentVars, taken, bounds>>

ChildSpeaks ==
  /\ Len(entries) < MaxTexts
  /\ entries' = Append(entries, EntryKind)
  /\ UNCHANGED <<fileVars, lock, copy, carries, pc, parentVars, overlapped, taken, seen,
                 bounds>>

\* _maybe_auto_report_to_parent, from an IDLE emit: new entries count as reported, and
\* there is a report if one of all the entries is of the kind looked for.
AutoReport(t) ==
  /\ t \in EngineThreads /\ pc[t] = "idle"
  /\ Len(entries) > seen
  /\ written < MaxReports
  /\ seen' = Len(entries)
  /\ pc' = [pc EXCEPT ![t] = IF ReportKind \in ToSet(entries) THEN "append" ELSE "idle"]
  /\ UNCHANGED <<fileVars, lock, copy, carries, parentVars, overlapped, taken, entries,
                 bounds>>

AppendLoad(t) ==
  /\ Moves(t, "append", "append_write")
  /\ Load(t)
  /\ UNCHANGED <<childVars, fileVars, carries, parentVars, taken, bounds>>

AppendWrite(t) ==
  /\ written < MaxReports
  /\ Moves(t, "append_write", "mark")
  /\ written' = written + 1
  /\ LET q == Append(copy[t], [id |-> written', delivered |-> FALSE])
     IN  inbox' = EnforceCap(q) /\ evicted' = evicted \cup (IdsOf(q) \ IdsOf(inbox'))
  /\ Unlock(t)
  /\ UNCHANGED <<childVars, overlapped, copy, carries, parentVars, drained, taken, bounds>>

\* os.replace fails: the reporter gets the error.
AppendFails(t) ==
  /\ Fault
  /\ Moves(t, "append_write", "idle")
  /\ Unlock(t)
  /\ UNCHANGED <<childVars, overlapped, fileVars, copy, carries, parentVars, taken>>

\* (mutant) a report does not set the flag
MarkNothing(t) ==
  /\ Moves(t, "mark", "idle")
  /\ UNCHANGED <<childVars, overlapped, fileVars, lock, copy, carries, parentVars, taken, bounds>>

\* mark_inbox_dirty, a request of its own from the web server; nothing when the parent is
\* not loaded.
Mark(t) ==
  /\ Moves(t, "mark", "idle")
  /\ IF parent = "absent" THEN UNCHANGED <<dirty, missed>>
     ELSE dirty' = TRUE /\ missed' = FALSE
  /\ UNCHANGED <<childVars, overlapped, fileVars, lock, copy, carries, parent, taken, bounds>>

\* The engine does not answer the web server: the flag is not set.
MarkFails(t) ==
  /\ Fault
  /\ t \in WebThreads /\ Moves(t, "mark", "idle")
  /\ missed' = (missed \/ HasUndelivered)
  /\ UNCHANGED <<childVars, overlapped, fileVars, lock, copy, carries, parent, dirty, taken>>

-----------------------------------------------------------------------------
(* A message to the parent.                                                *)

\* A fresh SessionInfo, with inbox_dirty FALSE.
Loads == /\ parent' = "live" /\ dirty' = FALSE
         /\ missed' = (missed \/ HasUndelivered)

\* A parent that is not loaded is resumed first.
BeginSend(t) ==
  /\ t \in EngineThreads
  /\ sends < MaxSends /\ sends' = sends + 1
  /\ Moves(t, "idle", "check")
  /\ IF parent = "absent" THEN Loads ELSE UNCHANGED parentVars
  /\ UNCHANGED <<childVars, overlapped, fileVars, lock, copy, carries, taken, faults, restarts>>

CheckDirty(t) ==
  /\ Moves(t, "check", IF dirty THEN "drain" ELSE "send")
  /\ UNCHANGED <<childVars, overlapped, fileVars, lock, copy, carries, parentVars, taken, bounds>>

DrainLoad(t) ==
  /\ Moves(t, "drain", "drain_write")
  /\ Load(t)
  /\ UNCHANGED <<childVars, fileVars, carries, parentVars, taken, bounds>>

\* (mutant) what was drained is not marked delivered
DrainKeeps(t) ==
  /\ Moves(t, "drain_write", "clear")
  /\ carries' = [carries EXCEPT ![t] = IdSeq(Waiting(copy[t]))]
  /\ drained' = drained \o carries'[t]
  /\ Unlock(t)
  /\ UNCHANGED <<childVars, overlapped, inbox, copy, parentVars, written, taken, evicted, bounds>>

\* Nothing undelivered: the file is not written.
DrainWrite(t) ==
  /\ Moves(t, "drain_write", "clear")
  /\ carries' = [carries EXCEPT ![t] = IdSeq(Waiting(copy[t]))]
  /\ drained' = drained \o carries'[t]
  /\ inbox' = IF Waiting(copy[t]) = << >> THEN inbox
              ELSE [i \in DOMAIN copy[t] |-> [id |-> copy[t][i].id, delivered |-> TRUE]]
  /\ Unlock(t)
  /\ UNCHANGED <<childVars, overlapped, copy, parentVars, written, taken, evicted, bounds>>

\* The write fails: the message goes out without the reports.
DrainFails(t) ==
  /\ Fault
  /\ Waiting(copy[t]) # << >>
  /\ Moves(t, "drain_write", "clear")
  /\ Unlock(t)
  /\ UNCHANGED <<childVars, overlapped, fileVars, copy, carries, parentVars, taken>>

\* The flag is cleared whatever the drain has found.
ClearDirty(t) ==
  /\ Moves(t, "clear", "send")
  /\ dirty' = FALSE
  /\ missed' = (missed \/ HasUndelivered)
  /\ UNCHANGED <<childVars, overlapped, fileVars, lock, copy, carries, parent, taken, bounds>>

\* The locked check of send_message: sent or queued, or "Session is stopped".
SendOrRefuse(t) ==
  /\ Moves(t, "send", "idle")
  /\ taken' = IF parent = "live" THEN taken \cup ToSet(carries[t]) ELSE taken
  /\ carries' = [carries EXCEPT ![t] = << >>]
  /\ UNCHANGED <<childVars, overlapped, fileVars, lock, copy, parentVars, bounds>>

-----------------------------------------------------------------------------
(* The parent and the engine.                                              *)

Stop ==
  /\ Fault
  /\ parent = "live" /\ parent' = "stopped"
  /\ UNCHANGED <<childVars, overlapped, fileVars, lock, copy, carries, pc, dirty, missed, taken>>

\* start_session on a stopped session makes a new SessionInfo.
Wake ==
  /\ parent = "stopped" /\ Loads
  /\ UNCHANGED <<childVars, overlapped, fileVars, lock, copy, carries, pc, taken, bounds>>

\* The engine dies and starts again.  recover_sessions loads the parent only if it was at
\* work, and then looks into the file.
EngineRestart ==
  /\ restarts < MaxRestarts /\ restarts' = restarts + 1
  /\ \/ parent' = "live" /\ dirty' = HasUndelivered
     \/ parent' = "absent" /\ dirty' = FALSE
  /\ pc' = [t \in Threads |-> IF t \in EngineThreads THEN "idle" ELSE pc[t]]
  /\ carries' = [t \in Threads |-> << >>]
  /\ lock' = [lock EXCEPT !["engine"] = None]
  /\ UNCHANGED <<childVars, overlapped, fileVars, copy, missed, taken, sends, faults>>

-----------------------------------------------------------------------------
Report(t) == BeginReport(t) \/ AutoReport(t) \/ AppendLoad(t) \/ AppendWrite(t) \/ AppendFails(t)
             \/ Mark(t) \/ MarkFails(t)
Send(t)   == \/ BeginSend(t) \/ CheckDirty(t) \/ DrainLoad(t) \/ DrainWrite(t)
             \/ DrainFails(t) \/ ClearDirty(t) \/ SendOrRefuse(t)

Next == (\E t \in Threads : Report(t) \/ Send(t)) \/ ChildSpeaks \/ Stop \/ Wake \/ EngineRestart
Spec == Init /\ [][Next]_vars

Quiescent == \A t \in Threads : pc[t] = "idle"

-----------------------------------------------------------------------------
(* Properties.                                                             *)

\* A written report stays in the file until the cap evicts it: no load-change-replace
\* overwrites the one of another thread.  This is what the comment on _INBOX_LOCKS says
\* the lock is for.
NothingOverwritten == \A r \in 1 .. written : r \in IdsOf(inbox) \cup evicted

\* The drains return the reports in the order they were written, and none twice
\* (drain_undelivered's docstring).
DrainedInOrder == \A i, j \in DOMAIN drained : i < j => drained[i] < drained[j]

\* It holds as long as the two processes do not meet in the file: the lock of a process
\* does order its own threads, through crashes and failed writes.
LostOnlyToOverlap == overlapped \/ NothingOverwritten

\* The cap costs a report that nobody has read only when every report in the file is such.
DeliveredGoFirst ==
  [][\A r \in evicted' \ evicted :
       r \notin ToSet(drained) => \A i \in DOMAIN inbox' : ~inbox'[i].delivered]_vars

\* A waiting report of a loaded parent has inbox_dirty set, so the next message drains it,
\* unless the flag was cleared or could not be set, or the parent loaded, over waiting
\* reports, and no report has set it since.
NoticedUnlessMissed ==
  Quiescent /\ parent = "live" /\ HasUndelivered => dirty \/ missed

\* The same without the exception: what mark_inbox_dirty and the clearing of the flag
\* in send_message say they keep.
WaitingIsNoticed == Quiescent /\ parent = "live" /\ HasUndelivered => dirty

\* A report is marked delivered only as part of a message the parent takes.
DrainedIsTaken ==
  Quiescent => \A i \in DOMAIN drained : drained[i] \in taken

\* The IDLE emit of a child with a text it has not reported begins a report.
AutoReportReports == [][\A t \in EngineThreads : AutoReport(t) => pc'[t] = "append"]_vars
=============================================================================
