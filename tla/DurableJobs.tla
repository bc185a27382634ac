------------------------------ MODULE DurableJobs ------------------------------
(***************************************************************************)
(* The registry of long jobs (src/engine/durable_jobs.py), its supervisor  *)
(* thread (src/engine/job_supervisor.py) and the other processes that      *)
(* change it: the web server and the command line, here Clients.  Whoever  *)
(* edits the registry holds its cross-process lock from the load to the    *)
(* save, and launches in between; any of them can die, or fail to save, at *)
(* any point, and the machine can restart.                                 *)
(*                                                                         *)
(* External: the jobs.  A launch writes to a log file of its own, named    *)
(* after the second it was made in; the job writes output, passes its      *)
(* irreversible step, reports that it is done, and dies.  Left out: jobs   *)
(* with a progress pattern or a log of their own, and a registry that does *)
(* not parse.  Who cannot get the lock gives up without an effect.         *)
(***************************************************************************)
EXTENDS Naturals, Sequences, FiniteSets, FiniteSetsExt

CONSTANTS
  None,
  Jobs,
  Clients,
  Supervisor,
  MaxRelaunches,  \* MAX_RELAUNCHES_WITHOUT_PROGRESS
  MaxLaunches,    \* bound: launches
  MaxFaults       \* bound: deaths of a writer, failed saves, restarts of the machine,
                  \* unreadable process lists, failed launches

ASSUME ConstantsAssumption ==
  /\ MaxRelaunches \in Nat \ {0}
  /\ MaxLaunches \in Nat /\ MaxFaults \in Nat
  /\ Supervisor \notin Clients
  /\ None \notin Clients \cup {Supervisor}

Writers == Clients \cup {Supervisor}
States == {"running", "finished", "needs_person", "relaunched", "failed"}
Active == {"running", "relaunched"}

\* What a job writes to its log: output, the line of its irreversible step,
\* the line of its done test.
Texts == {"nothing", "output", "past", "done"}
Size == [nothing |-> 0, output |-> 1, past |-> 2, done |-> 3]

\* A record of the registry.  lastLog is a launch, 0 before the first;
\* relaunched stands for relaunch_count > 0.
Record ==
  [state : States, acknowledged : BOOLEAN, resumable : BOOLEAN,
   relaunched : BOOLEAN, streak : 0 .. MaxRelaunches,
   sizeAtRelaunch : 0 .. 3, lastLog : 0 .. MaxLaunches]

ASSUME NoneAssumption == None \notin Record

VARIABLES
  disk,      \* data/jobs.json: a record for each registered job, None for the others
  lock,      \* who holds jobs.json.lock
  copy,      \* per writer: what it has loaded and changed
  phase,     \* the supervisor: "idle", "decide", "apply"
  present,   \* the jobs on the process list of this tick, None when it cannot be read
  decisions, \* of this tick, not yet applied: job to [action, streak]
  launches,  \* every process launched: what it wrote last, whether it lives, and
             \* whether the registry came to know of it
  old,       \* jobs last launched more than YOUNG_DEATH_SECONDS ago
  faults

vars == <<disk, lock, copy, phase, present, decisions, launches, old, faults>>
tick == <<phase, present, decisions>>

Actions == {"finish", "alive", "unknown", "left", "needs_person", "fail", "relaunch"}
Decision == [action : Actions, streak : 0 .. MaxRelaunches]
Registry == [Jobs -> Record \cup {None}]
Launch ==
  [job : Jobs, by : Writers, wrote : Texts, alive : BOOLEAN,
   known : {"pending", "saved", "lost"}]

TypeOK ==
  /\ disk \in Registry /\ copy \in [Writers -> Registry]
  /\ lock \in Writers \cup {None}
  /\ phase \in {"idle", "decide", "apply"}
  /\ present \in (SUBSET Jobs) \cup {None}
  /\ decisions \in [Jobs -> Decision \cup {None}]
  /\ launches \in Seq(Launch) /\ Len(launches) <= MaxLaunches
  /\ old \subseteq Jobs
  /\ faults \in 0 .. MaxFaults

IsActive(rec) == rec # None /\ rec.state \in Active

Nothing == [j \in Jobs |-> None]

Init ==
  /\ disk = Nothing /\ copy = [w \in Writers |-> Nothing] /\ lock = None
  /\ phase = "idle" /\ present = None /\ decisions = Nothing
  /\ launches = << >> /\ old = {}
  /\ faults = 0

\* Time passes.
Ages(j) ==
  /\ old' = old \cup {j}
  /\ UNCHANGED <<disk, lock, copy, tick, launches, faults>>

Of(j) == {i \in DOMAIN launches : launches[i].job = j}
Alive(j) == \E i \in Of(j) : launches[i].alive

-----------------------------------------------------------------------------
(* The registry file.                                                      *)

\* (mutant) No lock around the edit.
NotLocked(w) == lock' = w

\* edit_registry up to its yield: lock the file and load it.
Locked(w) ==
  /\ lock = None
  /\ lock' = w

Mark(known) ==
  [i \in DOMAIN launches |->
    IF launches[i].known = "pending" THEN [launches[i] EXCEPT !.known = known] ELSE launches[i]]

\* The rest of edit_registry.
Save(w) ==
  /\ disk' = copy[w]
  /\ copy' = [copy EXCEPT ![w] = Nothing]
  /\ lock' = IF lock = w THEN None ELSE lock
  /\ launches' = Mark("saved")

-----------------------------------------------------------------------------
(* Launching.                                                              *)

\* What the log that the record names ends with.
LogOf(rec) == IF rec.lastLog = 0 THEN "nothing" ELSE launches[rec.lastLog].wrote
IsDone(rec) == LogOf(rec) = "done"
IsPast(rec) == LogOf(rec) \in {"past", "done"}
LogSize(rec) == Size[LogOf(rec)]

Launched(w, j) ==
  Append(launches, [job |-> j, by |-> w, wrote |-> "nothing",
                    alive |-> TRUE, known |-> "pending"])

\* _launch_record: ok with a new process, or failed without one (at the
\* bound on launches they all fail).
LaunchRecord(w, j, ok) ==
  /\ old' = old \ {j}
  /\ IF ok THEN /\ Len(launches) < MaxLaunches
             /\ launches' = Launched(w, j)
             /\ UNCHANGED faults
        ELSE /\ \/ faults < MaxFaults /\ faults' = faults + 1
                \/ Len(launches) = MaxLaunches /\ faults' = faults
             /\ UNCHANGED launches

AfterLaunch(rec, ok) ==
  [rec EXCEPT !.lastLog = IF ok THEN Len(launches) + 1 ELSE @]

\* apply_relaunch: what the record becomes.
Relaunched(rec, ok, streak) ==
  [AfterLaunch([rec EXCEPT !.sizeAtRelaunch = LogSize(rec)], ok) EXCEPT
     !.relaunched = TRUE,
     !.streak = streak,
     !.state = IF ok THEN "relaunched" ELSE "failed"]

NewRecord(resumable) ==
  [state |-> "running", acknowledged |-> FALSE, resumable |-> resumable, relaunched |-> FALSE,
   streak |-> 0, sizeAtRelaunch |-> 0, lastLog |-> 0]

-----------------------------------------------------------------------------
(* The clients: one operation, up to its save.                             *)

\* run_job.
RunJob(c, j) ==
  /\ Locked(c)
  /\ disk[j] = None
  /\ \E resumable, ok \in BOOLEAN :
       /\ LaunchRecord(c, j, ok)
       /\ copy' = [copy EXCEPT ![c] = [disk EXCEPT ![j] =
            [AfterLaunch(NewRecord(resumable), ok) EXCEPT !.state = IF ok THEN @ ELSE "failed"]]]
  /\ UNCHANGED <<disk, tick>>

\* relaunch_job by a person, who may do so while the job still runs.
RelaunchJob(c, j) ==
  /\ Locked(c)
  /\ disk[j] # None
  /\ \E ok \in BOOLEAN :
       /\ LaunchRecord(c, j, ok)
       /\ copy' = [copy EXCEPT ![c] = [disk EXCEPT ![j] =
            Relaunched([disk[j] EXCEPT !.acknowledged = FALSE], ok, 0)]]
  /\ UNCHANGED <<disk, tick>>

\* leave_job.
LeaveJob(c, j) ==
  /\ Locked(c)
  /\ disk[j] # None
  /\ copy' = [copy EXCEPT ![c] = [disk EXCEPT ![j] = [disk[j] EXCEPT !.acknowledged = TRUE]]]
  /\ UNCHANGED <<disk, tick, launches, old, faults>>

ClientSaves(c) ==
  /\ copy[c] # Nothing
  /\ Save(c)
  /\ UNCHANGED <<tick, old, faults>>

-----------------------------------------------------------------------------
(* The supervisor.                                                         *)

\* tick: lock, load, and list the processes when there is an active job.
\* The list comes first, exact or not there (a lister that fails and prints nothing
\* gives an empty one: left out); the logs are read when it is there.
TickBegins ==
  /\ phase = "idle"
  /\ Locked(Supervisor)
  /\ copy' = [copy EXCEPT ![Supervisor] = disk]
  /\ \E j \in Jobs : IsActive(disk[j])
  /\ phase' = "decide"
  /\ \/ present' = {j \in Jobs : Alive(j)} /\ UNCHANGED faults
     \/ present' = None /\ faults < MaxFaults /\ faults' = faults + 1
  /\ UNCHANGED <<disk, decisions, launches, old>>

\* The first run counts; a later one has to live and to leave a longer log
\* than there was at its launch.
Progressed(j, rec) ==
  \/ ~rec.relaunched
  \/ j \in old /\ LogSize(rec) > rec.sizeAtRelaunch

Streak(j, rec) == IF Progressed(j, rec) THEN 0 ELSE rec.streak

\* (mutant) The irreversible test comes after the others.
AbsentRelaunchFirst(j, rec) ==
  CASE rec.acknowledged -> "left"
    [] ~rec.acknowledged /\ rec.resumable /\ Streak(j, rec) < MaxRelaunches -> "relaunch"
    [] ~rec.acknowledged /\ ~rec.resumable -> "fail"
    [] OTHER -> "needs_person"

\* (mutant) A job may be relaunched once too often.
AbsentOneMore(j, rec) ==
  CASE rec.acknowledged -> "left"
    [] ~rec.acknowledged /\ IsPast(rec) -> "needs_person"
    [] ~rec.acknowledged /\ ~IsPast(rec) /\ ~rec.resumable -> "fail"
    [] OTHER -> IF Streak(j, rec) > MaxRelaunches THEN "needs_person" ELSE "relaunch"

\* decide: what to do with a job that is not running and not done ...
Absent(j, rec) ==
  CASE rec.acknowledged -> "left"
    [] ~rec.acknowledged /\ IsPast(rec) -> "needs_person"
    [] ~rec.acknowledged /\ ~IsPast(rec) /\ ~rec.resumable -> "fail"
    [] OTHER -> IF Streak(j, rec) >= MaxRelaunches THEN "needs_person" ELSE "relaunch"

\* ... and with any active job.
Action(j, rec) ==
  CASE IsDone(rec) -> "finish"
    [] ~IsDone(rec) /\ present = None -> "unknown"
    [] ~IsDone(rec) /\ present # None /\ j \in present -> "alive"
    [] OTHER -> Absent(j, rec)

Decide(j, rec) ==
  [action |-> Action(j, rec),
   streak |-> IF Action(j, rec) = "relaunch" THEN Streak(j, rec) + 1 ELSE 0]

DecideAll ==
  /\ phase = "decide"
  /\ LET reg == copy[Supervisor] IN
     decisions' = [j \in Jobs |-> IF IsActive(reg[j]) THEN Decide(j, reg[j]) ELSE None]
  /\ phase' = "apply"
  /\ present' = None
  /\ UNCHANGED <<disk, lock, copy, launches, old, faults>>

\* (mutant) A job that was left alone stays as it is.
DecidedNotLeft(rec, action) ==
  CASE action = "finish" -> [rec EXCEPT !.state = "finished"]
    [] action = "needs_person" -> [rec EXCEPT !.state = "needs_person", !.acknowledged = FALSE]
    [] action = "fail" -> [rec EXCEPT !.state = "failed", !.acknowledged = FALSE]
    [] OTHER -> rec

Decided(rec, action) ==
  CASE action = "finish" -> [rec EXCEPT !.state = "finished"]
    [] action = "needs_person" -> [rec EXCEPT !.state = "needs_person", !.acknowledged = FALSE]
    [] action = "fail" -> [rec EXCEPT !.state = "failed", !.acknowledged = FALSE]
    [] action = "left" -> [rec EXCEPT !.state = "failed"]
    [] OTHER -> rec

\* _apply_all, one decision.
Apply(j) ==
  /\ phase = "apply"
  /\ decisions[j] # None
  /\ decisions' = [decisions EXCEPT ![j] = None]
  /\ LET rec == copy[Supervisor][j] IN
     IF decisions[j].action = "relaunch"
     THEN \E ok \in BOOLEAN :
            /\ LaunchRecord(Supervisor, j, ok)
            /\ copy' = [copy EXCEPT ![Supervisor][j] = Relaunched(rec, ok, decisions[j].streak)]
     ELSE /\ copy' = [copy EXCEPT ![Supervisor][j] = Decided(rec, decisions[j].action)]
          /\ UNCHANGED <<launches, old, faults>>
  /\ UNCHANGED <<disk, lock, phase, present>>

TickEnds ==
  /\ phase = "apply"
  /\ decisions = Nothing
  /\ Save(Supervisor)
  /\ phase' = "idle"
  /\ UNCHANGED <<present, decisions, old, faults>>

-----------------------------------------------------------------------------
(* Faults and the jobs.                                                    *)

\* The holder of the lock dies, or cannot save: its copy is gone, and what
\* it launched runs on.
WriterFails ==
  /\ lock # None
  /\ faults < MaxFaults /\ faults' = faults + 1
  /\ lock' = None
  /\ copy' = [copy EXCEPT ![lock] = Nothing]
  /\ launches' = Mark("lost")
  /\ IF lock = Supervisor THEN phase' = "idle" /\ present' = None /\ decisions' = Nothing
                          ELSE UNCHANGED tick
  /\ UNCHANGED <<disk, old>>

\* The machine restarts: every process ends with it.
MachineRestarts ==
  /\ faults < MaxFaults /\ faults' = faults + 1
  /\ lock' = None /\ copy' = [w \in Writers |-> Nothing]
  /\ phase' = "idle" /\ present' = None /\ decisions' = Nothing
  /\ launches' = [i \in DOMAIN launches |->
       [Mark("lost")[i] EXCEPT !.alive = FALSE]]
  /\ UNCHANGED <<disk, old>>

\* A process writes one of the texts after those it wrote, or dies.
Job(i) ==
  /\ i \in DOMAIN launches /\ launches[i].alive
  /\ \/ \E text \in Texts : /\ Size[text] > Size[launches[i].wrote]
                            /\ launches' = [launches EXCEPT ![i].wrote = text]
     \/ launches' = [launches EXCEPT ![i].alive = FALSE]
  /\ UNCHANGED <<disk, lock, copy, tick, old, faults>>

-----------------------------------------------------------------------------
Next ==
  \/ \E j \in Jobs : Ages(j)
  \/ \E c \in Clients, j \in Jobs : RunJob(c, j) \/ RelaunchJob(c, j) \/ LeaveJob(c, j)
  \/ \E c \in Clients : ClientSaves(c)
  \/ TickBegins
  \/ DecideAll
  \/ \E j \in Jobs : Apply(j)
  \/ TickEnds
  \/ WriterFails
  \/ MachineRestarts
  \/ \E i \in 1 .. MaxLaunches : Job(i)

Spec == Init /\ [][Next]_vars

\* The supervisor's thread ticks as long as the engine lives and finishes a
\* tick that it began; who holds the lock saves and lets go of it.  A try to
\* lock polls for ten seconds and the next tick is thirty seconds later, so
\* a lock that is free again and again is had at some time: strong fairness.
Fairness ==
  /\ SF_vars(TickBegins)
  /\ WF_vars(DecideAll) /\ WF_vars(\E j \in Jobs : Apply(j)) /\ WF_vars(TickEnds)
  /\ \A c \in Clients : WF_vars(ClientSaves(c))

FairSpec == Spec /\ Fairness

-----------------------------------------------------------------------------
(* Properties.                                                             *)

Saved(j) == {i \in Of(j) : launches[i].known = "saved"}
LastPerson(j) == Max({0} \cup {i \in Saved(j) : launches[i].by \in Clients})
NewLaunch(j) == /\ Len(launches') > Len(launches)
                /\ launches'[Len(launches')].job = j
                /\ launches'[Len(launches')].by = Supervisor

\* The supervisor never starts a second process of a job that runs, whoever
\* started the first one and whether or not the registry knows of it: what
\* the process list of the tick showed still holds when its decisions are
\* applied (_decide_all, _apply_all, under the lock of edit_registry).
NoSecondRun == [][\A j \in Jobs : NewLaunch(j) => ~Alive(j)]_vars

\* The supervisor relaunches only what is due: since a person last decided,
\* no process that the registry knows of reported done or passed the
\* irreversible step, and nobody has asked to leave the job (decide).
RelaunchIsDue ==
  [][\A j \in Jobs : NewLaunch(j) =>
       /\ disk[j] # None /\ ~disk[j].acknowledged
       /\ \A i \in Saved(j) : i >= LastPerson(j) => launches[i].wrote \notin {"past", "done"}]_vars

\* A registered job that has died does not stay "running": it is relaunched,
\* or finished, failed or handed to a person (the supervisor's tick).
Settled ==
  \A j \in Jobs :
    IsActive(disk[j]) /\ ~Alive(j) ~> ~IsActive(disk[j]) \/ Alive(j)

\* A job is given up for lack of progress only when its last run wrote
\* nothing or was over young (src/engine/job_supervisor.py:20-21: "A job that
\* dies after real progress is not broken: its count resets and it keeps
\* its relaunches").
ProgressKeepsRelaunches ==
  [][\A j \in Jobs :
       /\ phase = "decide" /\ decisions'[j] # None /\ decisions'[j].action = "needs_person"
       /\ ~IsPast(copy[Supervisor][j])
       => launches[Max(Saved(j))].wrote = "nothing" \/ j \notin old]_vars
=============================================================================
