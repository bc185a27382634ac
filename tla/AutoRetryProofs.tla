---------------------------- MODULE AutoRetryProofs ----------------------------
(***************************************************************************)
(* Theorems about AutoRetry, for every set of request threads and tasks    *)
(* and every budget: its types, that a countdown is never left without     *)
(* somebody to end it, that a failed turn is not overtaken by the queue    *)
(* while its countdown runs, that a chain of retries keeps its budget, and *)
(* that at rest the durable record says what is armed.                     *)
(*                                                                         *)
(* Each part of the inductive invariant is a lemma of its own, with a step *)
(* per action.  What _arm_api_retry does to the tasks is described once,   *)
(* point by point (Armed), and so is what a new countdown means for each   *)
(* part.                                                                   *)
(***************************************************************************)
EXTENDS AutoRetry, TLAPS

ProcType == Requests \cup Tasks \cup {Loop}
Places == Firing \cup {"idle", "dispatch", "cancelled", "sleep", "reconnect", "redial"}

CoreType ==
  /\ state \in {"STARTING", "IDLE", "WORKING", "STOPPED"}
  /\ turn \in {"none", "runs", "failed", "done", "raised", "died"}
  /\ queue \in Nat /\ count \in Nat /\ resent \in Nat

FlagType ==
  /\ retryAt \in BOOLEAN /\ needed \in BOOLEAN /\ down \in BOOLEAN
  /\ closing \in BOOLEAN /\ restoring \in BOOLEAN /\ waiting \in BOOLEAN
  /\ wiped \in BOOLEAN /\ orphaned \in BOOLEAN /\ closed \in BOOLEAN

TaskType ==
  /\ handle \in Tasks \cup {None} /\ doomed \subseteq Tasks
  /\ pc \in [ProcType -> Places]
  /\ late \subseteq Requests \cup {Loop}

DiskType ==
  /\ disk \in Records /\ later \in Records \cup {None} /\ writing \in Records \cup {None}
  /\ overtaken \in BOOLEAN

\* Only a request thread or the loop dispatches a message.
Dispatchers == \A k \in Tasks : pc[k] # "dispatch"

Awaiting == {"sleep", "reconnect", "redial"}

\* A session that starts has nothing left of the engine before, but the countdown
\* it is going to restore.
StartsClean ==
  state = "STARTING" =>
    /\ turn = "none" /\ (retryAt => restoring)
    /\ \A p \in Requests \cup Tasks \cup {Loop} : pc[p] \notin Firing \cup Awaiting

\* While a failed turn waits the gate of the queue is closed, but for those who
\* had passed it.
Held ==
  /\ waiting => state # "WORKING"
  /\ waiting /\ ~wiped =>
       retryAt /\ \A p \in Requests \cup {Loop} : pc[p] = "dispatch" => p \in late

\* Somebody is about to end the countdown, whatever the turn is: a request's
\* resend, or that of a task that is past the point where it drops its handle.
RequestFires == \E r \in Requests : pc[r] \in Firing
Resends      == \E k \in Tasks : pc[k] \in {"resend", "settle"} /\ k \notin doomed
Fires        == RequestFires \/ \E k \in Tasks : pc[k] \in Firing /\ k \notin doomed

\* The tasks: the handle points to one that lives and is not cancelled, one at
\* most fires, and a resend has dropped the handle.
TasksOK ==
  /\ \A k \in Tasks : pc[k] # "redial"
  /\ \A k \in doomed : Live(k)
  /\ handle # None => Live(handle) /\ handle \notin doomed
  /\ \A j, k \in Tasks : pc[j] \in Firing /\ pc[k] \in Firing => j = k
  /\ \A k \in Tasks : pc[k] \in {"resend", "settle"} => handle = None
  /\ restoring => handle = None /\ ~down /\ \A k \in Tasks : pc[k] = "idle"

\* The countdown: with a turn somebody is firing, and without a handle somebody
\* is, or a start restores it.
CountdownOK ==
  /\ retryAt /\ turn # "none" => Fires
  /\ retryAt /\ handle = None => restoring \/ RequestFires \/ Resends

Open ==
  /\ state # "STOPPED" /\ ~closing
  /\ \A p \in Requests \cup Tasks \cup {Loop} : pc[p] # "refused"
  /\ state = "WORKING" => turn \in {"runs", "raised"}

Guarded == Open /\ TasksOK /\ CountdownOK

\* Nothing more is promised of such a session.
Marked == orphaned \/ closed

\* One countdown at a time: a timer that waits has the handle or is cancelled, and
\* one that has the handle is not on its way to a resend while a cancelled one lives.
TimersOK ==
  /\ \A k \in Tasks : pc[k] \in {"sleep", "reconnect"} => handle = k \/ k \in doomed
  /\ \A k \in Tasks : pc[k] \in {"reconnect", "fire"} /\ handle = k => doomed = {}
  /\ \A j, k \in Tasks : ~(pc[j] = "fire" /\ pc[k] = "reconnect")

\* The timer k may still begin a resend, and no other has lost its handle for it.
MayFire(k) ==
  /\ handle \in {None, k}
  /\ \/ pc[k] \in {"reconnect", "fire"}
     \/ /\ pc[k] = "sleep" /\ retryAt
        /\ \A j \in Tasks : pc[j] \notin {"resend", "settle"}

\* The attempts made are n more, at most, than are counted in c or lost in a restart.
Kept(c, n) == resent <= c + restarts + n
Saved(n) ==
  /\ Kept(disk.count, n)
  /\ later # None => Kept(later.count, n)
  /\ writing # None => Kept(writing.count, n)

\* The count tells the attempts, the records lag by one; where another may be made
\* there is one left, and the records do not lag.
BudgetOK ==
  /\ restarts \in Nat
  /\ Kept(Max, 0) /\ Kept(count, 0) /\ Saved(1)
  /\ restoring => resent < Max + restarts
  /\ \A k \in Tasks : MayFire(k) => resent < Max + restarts /\ Saved(0)

\* A turn that has failed is not working, and only a resend uses its budget up.
FailedIdle == turn = "failed" => state \in {"IDLE", "STOPPED"}
Overrun ==
  turn = "failed" /\ needed /\ ~(count < Max) =>
    \E p \in Requests \cup Tasks : pc[p] \in {"resend", "refused"}

\* The record that is on its way to the disk, or there, says whether a countdown is
\* armed, or somebody is going to save another.
Latest == IF later # None THEN later ELSE IF writing # None THEN writing ELSE disk
Told ==
  \/ wiped \/ overtaken \/ state # "IDLE" \/ turn # "none"
  \/ \E p \in Requests \cup Tasks : pc[p] \in Firing
  \/ \E r \in Requests : pc[r] = "cancelled"
  \/ Latest.at = retryAt

IInv ==
  /\ TypeOK /\ Dispatchers /\ StartsClean /\ Held
  /\ Marked \/ (Guarded /\ TimersOK)
  /\ Marked \/ overtaken \/ BudgetOK
  /\ FailedIdle /\ Overrun /\ Told
-----------------------------------------------------------------------------
(* Arming a countdown.                                                     *)

\* What a new countdown with count n changes, the coroutines in E being over: its
\* timer takes a slot that is free, or one that E leaves.
Armed(n, E) ==
  /\ \E k \in Tasks :
       /\ k \in E \/ pc[k] = "idle"
       /\ handle' = k /\ doomed' \subseteq Cancelled \ E
       /\ pc'[k] = "sleep"
       /\ \A q \in ProcType \ {k} : pc'[q] = IF q \in E THEN "idle" ELSE pc[q]
  /\ pc' \in [ProcType -> Places]
  /\ needed' = FALSE /\ count' = n /\ retryAt' = TRUE /\ state' = "IDLE" /\ waiting' = TRUE
  /\ late' = {q \in ProcType : pc[q] = "dispatch"}
  /\ SaveNow

\* _arm_api_retry within the budget arms one.
LEMMA ArmArms ==
  ASSUME BoundsAssumption, TaskType, NEW n, NEW at, NEW E \in SUBSET (Requests \cup Tasks),
         NEW old \in {handle, None}, n < Max, Arm("IDLE", n, at, E, old)
  PROVE  Armed(n, E)
<1> DEFINE ends == [q \in DOMAIN pc |-> IF q \in E THEN "idle" ELSE pc[q]]
<1>1. DOMAIN pc = ProcType /\ ends \in [ProcType -> Places]
  BY DEF TaskType, Places
<1> DEFINE hit == doomed \cup {q \in Tasks : q = old /\ Live(q)}
<1>2. PICK k : /\ k = New(ends) /\ k # None /\ pc' = [ends EXCEPT ![k] = "sleep"]
               /\ handle' = k /\ doomed' = hit \ E
               /\ retryAt' = TRUE /\ state' = "IDLE" /\ waiting' = TRUE
               /\ late' = {q \in DOMAIN pc : pc[q] = "dispatch"}
               /\ SaveNow /\ needed' = FALSE /\ count' = n
  BY DEF Arm
<1>3. hit \subseteq Cancelled
  BY BoundsAssumption DEF Cancelled, TaskType
<1>4. doomed' \subseteq Cancelled \ E
  BY <1>2, <1>3
<1> HIDE DEF hit
<1>5. k \in Tasks /\ ends[k] = "idle"
  BY <1>2 DEF New
<1>6. k \in ProcType /\ (k \in E \/ pc[k] = "idle")
  BY <1>1, <1>5 DEF ProcType
<1>7. /\ pc' \in [ProcType -> Places] /\ pc'[k] = "sleep"
      /\ \A q \in ProcType \ {k} : pc'[q] = IF q \in E THEN "idle" ELSE pc[q]
  BY <1>1, <1>2, <1>6 DEF Places
<1> QED BY <1>1, <1>2, <1>4, <1>5, <1>6, <1>7 DEF Armed

\* With the budget spent it leaves the tasks and the countdown as they are.
LEMMA ArmDrops ==
  ASSUME TaskType, NEW n, NEW old, ~(n < Max), Arm("IDLE", n, retryAt, {}, old)
  PROVE  /\ needed' = FALSE /\ count' = n /\ state' = "IDLE"
         /\ UNCHANGED <<pc, handle, doomed, retryAt, waiting, late, disk, later, writing,
                        overtaken>>
<1>1. pc' = [q \in DOMAIN pc |-> pc[q]] /\ doomed' = doomed /\ handle' = handle
  BY DEF Arm
<1>2. pc' = pc
  BY <1>1 DEF TaskType
<1> QED BY <1>1, <1>2 DEF Arm, diskVars

\* The actions that arm a countdown, each within the budget.
LEMMA ArmingActions ==
  ASSUME TaskType
  PROVE  /\ FailedArms => \/ Armed(count, {})
                          \/ /\ needed' = FALSE /\ count' = count /\ state' = "IDLE"
                             /\ UNCHANGED <<pc, handle, doomed, retryAt, waiting, late, disk,
                                            later, writing, overtaken>>
         /\ (Reconnects \/ HealFails) /\ count < Max => Armed(count, {})
         /\ \A p \in Requests \cup Tasks :
              FireRefused(p) /\ state \notin {"WORKING", "STARTING"} /\ count < Max
                => Armed(count, {p})
         /\ \A k \in Tasks :
              ReconnectFails(k) /\ count + 1 < Max => Armed(count + 1, {k})
<1>1. FailedArms => Arm("IDLE", count, retryAt, {}, handle)
  BY DEF FailedArms
<1>2. (Reconnects \/ HealFails) /\ count < Max => Arm("IDLE", count, retryAt, {}, handle)
  BY DEF Reconnects, HealFails
<1>3. ASSUME NEW p \in Requests \cup Tasks, FireRefused(p),
             state \notin {"WORKING", "STARTING"}, count < Max
      PROVE  Arm("IDLE", count, FALSE, {p}, handle)
  BY <1>3 DEF FireRefused
<1>4. ASSUME NEW k \in Tasks, ReconnectFails(k), count + 1 < Max
      PROVE  Arm("IDLE", count + 1, FALSE, {k}, None)
  BY <1>4 DEF ReconnectFails
<1>5. /\ {} \in SUBSET (Requests \cup Tasks)
      /\ \A p \in Requests \cup Tasks : {p} \in SUBSET (Requests \cup Tasks)
  OBVIOUS
<1>6. \A p \in Requests \cup Tasks :
        FireRefused(p) /\ state \notin {"WORKING", "STARTING"} /\ count < Max
          => Armed(count, {p})
  BY <1>3, <1>5, ArmArms, BoundsAssumption
<1>7. \A k \in Tasks : ReconnectFails(k) /\ count + 1 < Max => Armed(count + 1, {k})
  BY <1>4, <1>5, ArmArms, BoundsAssumption
<1>8. (Reconnects \/ HealFails) /\ count < Max => Armed(count, {})
  BY <1>2, <1>5, ArmArms, BoundsAssumption
<1>9. CASE count < Max
  BY <1>1, <1>5, <1>6, <1>7, <1>8, <1>9, ArmArms, BoundsAssumption
<1>10. CASE ~(count < Max)
  BY <1>1, <1>6, <1>7, <1>8, <1>10, ArmDrops
<1> QED BY <1>9, <1>10
-----------------------------------------------------------------------------
\* What holds once a countdown is armed.
LEMMA ArmedTypes ==
  ASSUME TaskType, Dispatchers, NEW n, NEW E, Armed(n, E)
  PROVE  TaskType'
<1>1. handle' \in Tasks \cup {None} /\ doomed' \subseteq Tasks /\ pc' \in [ProcType -> Places]
  BY DEF Armed, TaskType, Cancelled
<1>2. late' \subseteq Requests \cup {Loop}
  BY DEF Armed, Dispatchers, ProcType
<1> QED BY <1>1, <1>2 DEF TaskType

LEMMA ArmedDispatchers ==
  ASSUME TaskType, Dispatchers, NEW n, NEW E, Armed(n, E)
  PROVE  Dispatchers'
BY DEF Armed, Dispatchers, ProcType

LEMMA ArmedHeld ==
  ASSUME BoundsAssumption, TaskType, NEW n, NEW E, Armed(n, E)
  PROVE  Held'
<1>1. waiting' => state' # "WORKING"
  BY DEF Armed
<1>2. PICK k \in Tasks :
        /\ pc'[k] = "sleep"
        /\ \A q \in ProcType \ {k} : pc'[q] = IF q \in E THEN "idle" ELSE pc[q]
  BY DEF Armed
<1>3. \A p \in Requests \cup {Loop} : pc'[p] = "dispatch" => p \in late'
  BY <1>2 DEF Armed, ProcType
<1> QED BY <1>1, <1>3 DEF Armed, Held

LEMMA ArmedStarts ==
  ASSUME NEW n, NEW E, Armed(n, E)
  PROVE  StartsClean'
BY DEF Armed, StartsClean

\* A countdown that is armed between two coroutines, as the last step of the turn
\* or of the one that reconnected.
LEMMA ArmedGuarded ==
  ASSUME BoundsAssumption, TaskType, Guarded, StartsClean, Idling, ~restoring,
         NEW n, NEW E \in SUBSET Tasks, Armed(n, E),
         \A k \in E : pc[k] = "reconnect",
         turn' = "none", closing' = closing, restoring' = restoring
  PROVE  Guarded'
<1>1. PICK k \in Tasks :
        /\ k \in E \/ pc[k] = "idle"
        /\ handle' = k /\ doomed' \subseteq Cancelled \ E
        /\ pc'[k] = "sleep"
        /\ \A q \in ProcType \ {k} : pc'[q] = IF q \in E THEN "idle" ELSE pc[q]
  BY DEF Armed
<1>2. Open'
  BY <1>1 DEF Armed, Open, Guarded, ProcType
<1>3. /\ \A j \in Tasks : pc'[j] \notin Firing \cup {"redial"}
      /\ \A j \in Tasks \ (E \cup {k}) : pc'[j] = pc[j]
  BY <1>1 DEF Guarded, TasksOK, Idling, Firing, ProcType
<1>4. /\ k \notin doomed'
      /\ \A j \in doomed' : j \in Tasks /\ j \notin E /\ j # k /\ Live(j)
  BY <1>1 DEF Guarded, TasksOK, TaskType, Cancelled, Live
<1>5. \A j \in doomed' : Live(j)'
  BY <1>3, <1>4 DEF Live
<1>6. TasksOK'
  BY <1>1, <1>3, <1>4, <1>5 DEF TasksOK, Live, Firing
<1>7. CountdownOK'
  BY <1>1 DEF CountdownOK
<1> QED BY <1>2, <1>6, <1>7 DEF Guarded

LEMMA ArmingGuarded ==
  ASSUME BoundsAssumption, TaskType, StartsClean, Guarded
  PROVE  /\ FailedArms /\ Armed(count, {}) => Guarded'
         /\ (Reconnects \/ HealFails) /\ count < Max => Guarded'
         /\ \A k \in Tasks :
              ReconnectFails(k) /\ count + 1 < Max /\ ~orphaned' => Guarded'
<1>1. {} \in SUBSET Tasks /\ \A k \in {} : pc[k] = "reconnect"
  OBVIOUS
<1>2. ASSUME FailedArms, Armed(count, {}) PROVE Guarded'
  <2>1. /\ Idling /\ ~restoring /\ turn' = "none"
        /\ closing' = closing /\ restoring' = restoring
    BY <1>2 DEF FailedArms, LoopFree, StartsClean
  <2> QED BY <1>1, <1>2, <2>1, ArmedGuarded
<1>3. ASSUME Reconnects \/ HealFails, count < Max PROVE Guarded'
  <2>1. /\ Idling /\ ~restoring /\ turn' = "none"
        /\ closing' = closing /\ restoring' = restoring
    BY <1>3 DEF Reconnects, HealFails, Fails, LoopFree, StartsClean
  <2>2. Armed(count, {})
    BY <1>3, ArmingActions
  <2> QED BY <1>1, <2>1, <2>2, ArmedGuarded
<1>4. ASSUME NEW k \in Tasks, ReconnectFails(k), count + 1 < Max, ~orphaned' PROVE Guarded'
  <2>1. pc[k] = "reconnect" /\ state # "STARTING"
    BY <1>4 DEF ReconnectFails, StartsClean, Awaiting
  <2>2. /\ Idling /\ ~restoring /\ turn' = "none"
        /\ closing' = closing /\ restoring' = restoring
    BY <1>4, <2>1 DEF ReconnectFails, LoopFree
  <2>3. Armed(count + 1, {k})
    BY <1>4, ArmingActions
  <2>4. {k} \in SUBSET Tasks /\ \A j \in {k} : pc[j] = "reconnect"
    BY <2>1
  <2> QED BY <2>2, <2>3, <2>4, ArmedGuarded
<1> QED BY <1>2, <1>3, <1>4
-----------------------------------------------------------------------------
\* The state of the session, of its turn, and the counters.
LEMMA CoreTypeStep ==
  ASSUME CoreType, DiskType, [Next]_vars
  PROVE  CoreType'
<1> USE BoundsAssumption DEF CoreType, Arm, retryVars, Call, Fails, Launch, Clear,
       EmitsOnLoop
<1>1. CASE TurnSucceeds
  BY <1>1 DEF TurnSucceeds
<1>2. CASE DoneEmits
  BY <1>2 DEF DoneEmits
<1>3. CASE FailedArms
  BY <1>3 DEF FailedArms
<1>4. CASE FailedEmits
  BY <1>4 DEF FailedEmits
<1>5. CASE Reconnects
  BY <1>5 DEF Reconnects
<1>6. CASE Heals
  BY <1>6 DEF Heals
<1>7. CASE HealStops
  BY <1>7 DEF HealStops
<1>8. CASE TurnFails
  BY <1>8 DEF TurnFails
<1>9. CASE TurnRaises
  BY <1>9 DEF TurnRaises
<1>10. CASE ReconnectsNot
  BY <1>10 DEF ReconnectsNot
<1>11. CASE TurnDies
  BY <1>11 DEF TurnDies
<1>12. CASE HealFails
  BY <1>12 DEF HealFails
<1>13. CASE Closes
  BY <1>13 DEF Closes
<1>14. CASE Starts
  BY <1>14 DEF Starts
<1>15. CASE Restores
  BY <1>15 DEF Restores
<1>16. CASE FlushStarts
  BY <1>16 DEF FlushStarts
<1>17. CASE FlushEnds
  BY <1>17 DEF FlushEnds
<1>18. CASE Restart
  <2>1. disk \in Records /\ Rec.count = count /\ (writing = None \/ writing \in Records)
    BY DEF DiskType, Rec, Records, CoreType
  <2> QED BY <1>18, <2>1 DEF Restart, Records, Rec
<1>19. ASSUME NEW r \in Requests, CancelSets(r) PROVE CoreType'
  BY <1>19 DEF CancelSets
<1>20. ASSUME NEW r \in Requests, Send(r) PROVE CoreType'
  BY <1>20 DEF Send
<1>21. ASSUME NEW r \in Requests, Queue(r) PROVE CoreType'
  BY <1>21 DEF Queue
<1>22. ASSUME NEW r \in Requests, Reemit(r) PROVE CoreType'
  BY <1>22 DEF Reemit
<1>23. ASSUME NEW r \in Requests, Cancel(r) PROVE CoreType'
  BY <1>23 DEF Cancel
<1>24. ASSUME NEW r \in Requests, RetryNow(r) PROVE CoreType'
  BY <1>24 DEF RetryNow
<1>25. ASSUME NEW r \in Requests, Interrupt(r) PROVE CoreType'
  BY <1>25 DEF Interrupt
<1>26. ASSUME NEW r \in Requests, Close(r) PROVE CoreType'
  BY <1>26 DEF Close
<1>27. ASSUME NEW p \in Requests \cup Tasks, FireBegins(p) PROVE CoreType'
  BY <1>27 DEF FireBegins
<1>28. ASSUME NEW p \in Requests \cup Tasks, FireSends(p) PROVE CoreType'
  BY <1>28 DEF FireSends
<1>29. ASSUME NEW p \in Requests \cup Tasks, FireEnds(p) PROVE CoreType'
  BY <1>29 DEF FireEnds
<1>30. ASSUME NEW p \in Requests \cup Tasks, FireRefused(p) PROVE CoreType'
  BY <1>30 DEF FireRefused
<1>31. ASSUME NEW p \in Requests \cup {Loop}, Dispatch(p) PROVE CoreType'
  BY <1>31 DEF Dispatch
<1>32. ASSUME NEW k \in Tasks, TaskDies(k) PROVE CoreType'
  BY <1>32 DEF TaskDies
<1>33. ASSUME NEW k \in Tasks, Wakes(k) PROVE CoreType'
  BY <1>33 DEF Wakes
<1>34. ASSUME NEW k \in Tasks, Redialled(k) PROVE CoreType'
  BY <1>34 DEF Redialled
<1>35. ASSUME NEW k \in Tasks, ReconnectFails(k) PROVE CoreType'
  BY <1>35 DEF ReconnectFails
<1>36. ASSUME NEW k \in Tasks, RedialFails(k) PROVE CoreType'
  BY <1>36 DEF RedialFails
<1>37. CASE UNCHANGED vars
  BY <1>37 DEF vars
<1> HIDE BoundsAssumption DEF CoreType, Arm, retryVars, Call, Fails, Launch, Clear,
       EmitsOnLoop
<1> QED
  BY <1>1, <1>2, <1>3, <1>4, <1>5, <1>6, <1>7, <1>8, <1>9, <1>10, <1>11, <1>12,
     <1>13, <1>14, <1>15, <1>16, <1>17, <1>18, <1>19, <1>20, <1>21, <1>22, <1>23,
     <1>24, <1>25, <1>26, <1>27, <1>28, <1>29, <1>30, <1>31, <1>32, <1>33, <1>34,
     <1>35, <1>36, <1>37
     DEF Next, Goes, Turn, Failure, Fire, Task, Command, Engine

\* The flags.
LEMMA FlagTypeStep ==
  ASSUME CoreType, FlagType, DiskType, [Next]_vars
  PROVE  FlagType'
<1> USE BoundsAssumption DEF FlagType, Arm, retryVars, marks, Call, Fails, Launch,
       Clear
<1>1. CASE TurnSucceeds
  BY <1>1, Zenon DEF TurnSucceeds
<1>2. CASE DoneEmits
  BY <1>2, Zenon DEF DoneEmits
<1>3. CASE FailedArms
  BY <1>3, Zenon DEF FailedArms
<1>4. CASE FailedEmits
  BY <1>4, Zenon DEF FailedEmits
<1>5. CASE Reconnects
  BY <1>5, Zenon DEF Reconnects
<1>6. CASE Heals
  BY <1>6, Zenon DEF Heals
<1>7. CASE HealStops
  BY <1>7, Zenon DEF HealStops
<1>8. CASE TurnFails
  <2>1. (count < Max) \in BOOLEAN
    BY DEF CoreType
  <2> QED BY <1>8, <2>1, Zenon DEF TurnFails
<1>9. CASE TurnRaises
  BY <1>9, Zenon DEF TurnRaises
<1>10. CASE ReconnectsNot
  BY <1>10, Zenon DEF ReconnectsNot
<1>11. CASE TurnDies
  BY <1>11, Zenon DEF TurnDies
<1>12. CASE HealFails
  BY <1>12, Zenon DEF HealFails
<1>13. CASE Closes
  BY <1>13, Zenon DEF Closes
<1>14. CASE Starts
  BY <1>14, Zenon DEF Starts
<1>15. CASE Restores
  BY <1>15, Zenon DEF Restores
<1>16. CASE FlushStarts
  BY <1>16, Zenon DEF FlushStarts
<1>17. CASE FlushEnds
  BY <1>17, Zenon DEF FlushEnds
<1>18. CASE Restart
  <2>1. disk.at \in BOOLEAN /\ Rec.at \in BOOLEAN
    BY DEF DiskType, Records, Rec
  <2> QED BY <1>18, <2>1, Zenon DEF Restart
<1>19. ASSUME NEW r \in Requests, CancelSets(r) PROVE FlagType'
  BY <1>19, Zenon DEF CancelSets
<1>20. ASSUME NEW r \in Requests, Send(r) PROVE FlagType'
  BY <1>20, Zenon DEF Send
<1>21. ASSUME NEW r \in Requests, Queue(r) PROVE FlagType'
  BY <1>21, Zenon DEF Queue
<1>22. ASSUME NEW r \in Requests, Reemit(r) PROVE FlagType'
  BY <1>22, Zenon DEF Reemit
<1>23. ASSUME NEW r \in Requests, Cancel(r) PROVE FlagType'
  BY <1>23, Zenon DEF Cancel
<1>24. ASSUME NEW r \in Requests, RetryNow(r) PROVE FlagType'
  BY <1>24, Zenon DEF RetryNow
<1>25. ASSUME NEW r \in Requests, Interrupt(r) PROVE FlagType'
  BY <1>25, Zenon DEF Interrupt
<1>26. ASSUME NEW r \in Requests, Close(r) PROVE FlagType'
  BY <1>26, Zenon DEF Close
<1>27. ASSUME NEW p \in Requests \cup Tasks, FireBegins(p) PROVE FlagType'
  BY <1>27, Zenon DEF FireBegins
<1>28. ASSUME NEW p \in Requests \cup Tasks, FireSends(p) PROVE FlagType'
  BY <1>28, Zenon DEF FireSends
<1>29. ASSUME NEW p \in Requests \cup Tasks, FireEnds(p) PROVE FlagType'
  BY <1>29, Zenon DEF FireEnds
<1>30. ASSUME NEW p \in Requests \cup Tasks, FireRefused(p) PROVE FlagType'
  BY <1>30, Zenon DEF FireRefused
<1>31. ASSUME NEW p \in Requests \cup {Loop}, Dispatch(p) PROVE FlagType'
  BY <1>31, Zenon DEF Dispatch
<1>32. ASSUME NEW k \in Tasks, TaskDies(k) PROVE FlagType'
  BY <1>32, Zenon DEF TaskDies
<1>33. ASSUME NEW k \in Tasks, Wakes(k) PROVE FlagType'
  BY <1>33, Zenon DEF Wakes
<1>34. ASSUME NEW k \in Tasks, Redialled(k) PROVE FlagType'
  BY <1>34, Zenon DEF Redialled
<1>35. ASSUME NEW k \in Tasks, ReconnectFails(k) PROVE FlagType'
  BY <1>35, Zenon DEF ReconnectFails
<1>36. ASSUME NEW k \in Tasks, RedialFails(k) PROVE FlagType'
  BY <1>36, Zenon DEF RedialFails
<1>37. CASE UNCHANGED vars
  BY <1>37, Zenon DEF vars
<1> HIDE BoundsAssumption DEF FlagType, Arm, retryVars, marks, Call, Fails, Launch,
       Clear
<1> QED
  BY <1>1, <1>2, <1>3, <1>4, <1>5, <1>6, <1>7, <1>8, <1>9, <1>10, <1>11, <1>12,
     <1>13, <1>14, <1>15, <1>16, <1>17, <1>18, <1>19, <1>20, <1>21, <1>22, <1>23,
     <1>24, <1>25, <1>26, <1>27, <1>28, <1>29, <1>30, <1>31, <1>32, <1>33, <1>34,
     <1>35, <1>36, <1>37
     DEF Next, Goes, Turn, Failure, Fire, Task, Command, Engine

\* The tasks and the threads.
LEMMA TaskTypeStep ==
  ASSUME CoreType, TaskType, Dispatchers, [Next]_vars
  PROVE  TaskType'
<1> USE BoundsAssumption DEF ProcType, Places, Firing, retryVars, Call, Fails, Launch,
       Clear, Over, EmitsOnLoop, Emitted, Cancelled, New
<1>1. CASE TurnSucceeds
  BY <1>1 DEF TurnSucceeds, TaskType
<1>2. CASE DoneEmits
  BY <1>2 DEF DoneEmits, TaskType
<1>3. CASE FailedArms
  <2>1. CASE Armed(count, {})
    BY <1>3, <2>1, ArmedTypes
  <2>2. CASE ~Armed(count, {})
    BY <1>3, <2>2, ArmingActions DEF FailedArms, TaskType
  <2> QED BY <2>1, <2>2
<1>4. CASE FailedEmits
  BY <1>4 DEF FailedEmits, TaskType
<1>5. CASE Reconnects
  <2>1. CASE count < Max
    BY <1>5, <2>1, ArmingActions, ArmedTypes
  <2>2. CASE ~(count < Max)
    BY <1>5, <2>2 DEF Reconnects, TaskType
  <2> QED BY <2>1, <2>2
<1>6. CASE Heals
  BY <1>6 DEF Heals, TaskType
<1>7. CASE HealStops
  BY <1>7 DEF HealStops, TaskType
<1>8. CASE TurnFails
  BY <1>8 DEF TurnFails, TaskType
<1>9. CASE TurnRaises
  BY <1>9 DEF TurnRaises, TaskType
<1>10. CASE ReconnectsNot
  BY <1>10 DEF ReconnectsNot, TaskType
<1>11. CASE TurnDies
  BY <1>11 DEF TurnDies, TaskType
<1>12. CASE HealFails
  <2>1. CASE count < Max
    BY <1>12, <2>1, ArmingActions, ArmedTypes
  <2>2. CASE ~(count < Max)
    BY <1>12, <2>2 DEF HealFails, TaskType
  <2> QED BY <2>1, <2>2
<1>13. CASE Closes
  BY <1>13 DEF Closes, TaskType
<1>14. CASE Starts
  BY <1>14 DEF Starts, TaskType
<1>15. CASE Restores
  <2>1. CASE state = "IDLE"
    <3>1. PICK k : k # None /\ k = New(pc) /\ pc' = [pc EXCEPT ![k] = "sleep"]
      BY <1>15, <2>1 DEF Restores
    <3>2. k \in Tasks
      BY <3>1
    <3> QED BY <1>15, <2>1, <3>1, <3>2 DEF Restores, TaskType, Dispatchers
  <2>2. CASE state # "IDLE"
    BY <1>15, <2>2 DEF Restores, TaskType
  <2> QED BY <2>1, <2>2
<1>16. CASE FlushStarts
  BY <1>16 DEF FlushStarts, TaskType
<1>17. CASE FlushEnds
  BY <1>17 DEF FlushEnds, TaskType
<1>18. CASE Restart
  BY <1>18 DEF Restart, TaskType
<1>19. ASSUME NEW r \in Requests, CancelSets(r) PROVE TaskType'
  BY <1>19 DEF CancelSets, TaskType
<1>20. ASSUME NEW r \in Requests, Send(r) PROVE TaskType'
  BY <1>20 DEF Send, TaskType
<1>21. ASSUME NEW r \in Requests, Queue(r) PROVE TaskType'
  BY <1>21 DEF Queue, TaskType
<1>22. ASSUME NEW r \in Requests, Reemit(r) PROVE TaskType'
  BY <1>22 DEF Reemit, TaskType
<1>23. ASSUME NEW r \in Requests, Cancel(r) PROVE TaskType'
  BY <1>23 DEF Cancel, TaskType
<1>24. ASSUME NEW r \in Requests, RetryNow(r) PROVE TaskType'
  BY <1>24 DEF RetryNow, TaskType
<1>25. ASSUME NEW r \in Requests, Interrupt(r) PROVE TaskType'
  BY <1>25 DEF Interrupt, TaskType
<1>26. ASSUME NEW r \in Requests, Close(r) PROVE TaskType'
  BY <1>26 DEF Close, TaskType
<1>27. ASSUME NEW p \in Requests \cup Tasks, FireBegins(p) PROVE TaskType'
  BY <1>27 DEF FireBegins, TaskType
<1>28. ASSUME NEW p \in Requests \cup Tasks, FireSends(p) PROVE TaskType'
  BY <1>28 DEF FireSends, TaskType
<1>29. ASSUME NEW p \in Requests \cup Tasks, FireEnds(p) PROVE TaskType'
  BY <1>29 DEF FireEnds, TaskType
<1>30. ASSUME NEW p \in Requests \cup Tasks, FireRefused(p) PROVE TaskType'
  <2>1. CASE state \notin {"WORKING", "STARTING"} /\ count < Max
    BY <1>30, <2>1, ArmingActions, ArmedTypes
  <2>2. CASE ~(state \notin {"WORKING", "STARTING"} /\ count < Max)
    BY <1>30, <2>2 DEF FireRefused, TaskType
  <2> QED BY <2>1, <2>2
<1>31. ASSUME NEW p \in Requests \cup {Loop}, Dispatch(p) PROVE TaskType'
  BY <1>31 DEF Dispatch, TaskType
<1>32. ASSUME NEW k \in Tasks, TaskDies(k) PROVE TaskType'
  BY <1>32 DEF TaskDies, TaskType
<1>33. ASSUME NEW k \in Tasks, Wakes(k) PROVE TaskType'
  BY <1>33 DEF Wakes, TaskType
<1>34. ASSUME NEW k \in Tasks, Redialled(k) PROVE TaskType'
  BY <1>34 DEF Redialled, TaskType
<1>35. ASSUME NEW k \in Tasks, ReconnectFails(k) PROVE TaskType'
  <2>1. CASE count + 1 < Max
    BY <1>35, <2>1, ArmingActions, ArmedTypes
  <2>2. CASE ~(count + 1 < Max)
    BY <1>35, <2>2 DEF ReconnectFails, TaskType
  <2> QED BY <2>1, <2>2
<1>36. ASSUME NEW k \in Tasks, RedialFails(k) PROVE TaskType'
  BY <1>36 DEF RedialFails, TaskType
<1>37. CASE UNCHANGED vars
  BY <1>37 DEF vars, TaskType
<1> HIDE BoundsAssumption DEF ProcType, Places, Firing, retryVars, Call, Fails,
       Launch, Clear, Over, EmitsOnLoop, Emitted, Cancelled, New
<1> QED
  BY <1>1, <1>2, <1>3, <1>4, <1>5, <1>6, <1>7, <1>8, <1>9, <1>10, <1>11, <1>12,
     <1>13, <1>14, <1>15, <1>16, <1>17, <1>18, <1>19, <1>20, <1>21, <1>22, <1>23,
     <1>24, <1>25, <1>26, <1>27, <1>28, <1>29, <1>30, <1>31, <1>32, <1>33, <1>34,
     <1>35, <1>36, <1>37
     DEF Next, Goes, Turn, Failure, Fire, Task, Command, Engine

LEMMA DispatchersStep ==
  ASSUME CoreType, TaskType, Dispatchers, [Next]_vars
  PROVE  Dispatchers'
<1> USE BoundsAssumption DEF TaskType, ProcType, Places, EmitsOnLoop, Emitted, New,
       Fails, Call
<1>1. CASE TurnSucceeds
  BY <1>1 DEF TurnSucceeds, Dispatchers
<1>2. CASE DoneEmits
  BY <1>2 DEF DoneEmits, Dispatchers
<1>3. CASE FailedArms
  <2>1. CASE Armed(count, {})
    BY <1>3, <2>1, ArmedDispatchers
  <2>2. CASE ~Armed(count, {})
    BY <1>3, <2>2, ArmingActions DEF FailedArms, Dispatchers
  <2> QED BY <2>1, <2>2
<1>4. CASE FailedEmits
  BY <1>4 DEF FailedEmits, Dispatchers
<1>5. CASE Reconnects
  <2>1. CASE count < Max
    BY <1>5, <2>1, ArmingActions, ArmedDispatchers
  <2>2. CASE ~(count < Max)
    BY <1>5, <2>2 DEF Reconnects, Dispatchers
  <2> QED BY <2>1, <2>2
<1>6. CASE Heals
  BY <1>6 DEF Heals, Dispatchers
<1>7. CASE HealStops
  BY <1>7 DEF HealStops, Dispatchers
<1>8. CASE TurnFails
  BY <1>8 DEF TurnFails, Dispatchers
<1>9. CASE TurnRaises
  BY <1>9 DEF TurnRaises, Dispatchers
<1>10. CASE ReconnectsNot
  BY <1>10 DEF ReconnectsNot, Dispatchers
<1>11. CASE TurnDies
  BY <1>11 DEF TurnDies, Dispatchers
<1>12. CASE HealFails
  <2>1. CASE count < Max
    BY <1>12, <2>1, ArmingActions, ArmedDispatchers
  <2>2. CASE ~(count < Max)
    BY <1>12, <2>2 DEF HealFails, Dispatchers
  <2> QED BY <2>1, <2>2
<1>13. CASE Closes
  BY <1>13 DEF Closes, Dispatchers
<1>14. CASE Starts
  BY <1>14 DEF Starts, Dispatchers
<1>15. CASE Restores
  BY <1>15 DEF Restores, Dispatchers
<1>16. CASE FlushStarts
  BY <1>16 DEF FlushStarts, Dispatchers
<1>17. CASE FlushEnds
  BY <1>17 DEF FlushEnds, Dispatchers
<1>18. CASE Restart
  BY <1>18 DEF Restart, Dispatchers
<1>19. ASSUME NEW r \in Requests, CancelSets(r) PROVE Dispatchers'
  BY <1>19 DEF CancelSets, Dispatchers
<1>20. ASSUME NEW r \in Requests, Send(r) PROVE Dispatchers'
  BY <1>20 DEF Send, Dispatchers
<1>21. ASSUME NEW r \in Requests, Queue(r) PROVE Dispatchers'
  BY <1>21 DEF Queue, Dispatchers
<1>22. ASSUME NEW r \in Requests, Reemit(r) PROVE Dispatchers'
  BY <1>22 DEF Reemit, Dispatchers
<1>23. ASSUME NEW r \in Requests, Cancel(r) PROVE Dispatchers'
  BY <1>23 DEF Cancel, Dispatchers
<1>24. ASSUME NEW r \in Requests, RetryNow(r) PROVE Dispatchers'
  BY <1>24 DEF RetryNow, Dispatchers
<1>25. ASSUME NEW r \in Requests, Interrupt(r) PROVE Dispatchers'
  BY <1>25 DEF Interrupt, Dispatchers
<1>26. ASSUME NEW r \in Requests, Close(r) PROVE Dispatchers'
  BY <1>26 DEF Close, Dispatchers
<1>27. ASSUME NEW p \in Requests \cup Tasks, FireBegins(p) PROVE Dispatchers'
  BY <1>27 DEF FireBegins, Dispatchers
<1>28. ASSUME NEW p \in Requests \cup Tasks, FireSends(p) PROVE Dispatchers'
  BY <1>28 DEF FireSends, Dispatchers
<1>29. ASSUME NEW p \in Requests \cup Tasks, FireEnds(p) PROVE Dispatchers'
  BY <1>29 DEF FireEnds, Dispatchers
<1>30. ASSUME NEW p \in Requests \cup Tasks, FireRefused(p) PROVE Dispatchers'
  <2>1. CASE state \notin {"WORKING", "STARTING"} /\ count < Max
    BY <1>30, <2>1, ArmingActions, ArmedDispatchers
  <2>2. CASE ~(state \notin {"WORKING", "STARTING"} /\ count < Max)
    BY <1>30, <2>2 DEF FireRefused, Dispatchers
  <2> QED BY <2>1, <2>2
<1>31. ASSUME NEW p \in Requests \cup {Loop}, Dispatch(p) PROVE Dispatchers'
  BY <1>31 DEF Dispatch, Dispatchers
<1>32. ASSUME NEW k \in Tasks, TaskDies(k) PROVE Dispatchers'
  BY <1>32 DEF TaskDies, Dispatchers
<1>33. ASSUME NEW k \in Tasks, Wakes(k) PROVE Dispatchers'
  BY <1>33 DEF Wakes, Dispatchers
<1>34. ASSUME NEW k \in Tasks, Redialled(k) PROVE Dispatchers'
  BY <1>34 DEF Redialled, Dispatchers
<1>35. ASSUME NEW k \in Tasks, ReconnectFails(k) PROVE Dispatchers'
  <2>1. CASE count + 1 < Max
    BY <1>35, <2>1, ArmingActions, ArmedDispatchers
  <2>2. CASE ~(count + 1 < Max)
    BY <1>35, <2>2 DEF ReconnectFails, Dispatchers
  <2> QED BY <2>1, <2>2
<1>36. ASSUME NEW k \in Tasks, RedialFails(k) PROVE Dispatchers'
  BY <1>36 DEF RedialFails, Dispatchers
<1>37. CASE UNCHANGED vars
  BY <1>37 DEF vars, Dispatchers
<1> HIDE BoundsAssumption DEF TaskType, ProcType, Places, EmitsOnLoop, Emitted, New,
       Fails, Call
<1> QED
  BY <1>1, <1>2, <1>3, <1>4, <1>5, <1>6, <1>7, <1>8, <1>9, <1>10, <1>11, <1>12,
     <1>13, <1>14, <1>15, <1>16, <1>17, <1>18, <1>19, <1>20, <1>21, <1>22, <1>23,
     <1>24, <1>25, <1>26, <1>27, <1>28, <1>29, <1>30, <1>31, <1>32, <1>33, <1>34,
     <1>35, <1>36, <1>37
     DEF Next, Goes, Turn, Failure, Fire, Task, Command, Engine

LEMMA StartsCleanStep ==
  ASSUME CoreType, TaskType, StartsClean, [Next]_vars
  PROVE  StartsClean'
<1> USE BoundsAssumption DEF CoreType, TaskType, ProcType, Places, Firing, Awaiting,
       retryVars, Call, Fails, Launch, Clear, EmitsOnLoop, Emitted, New, Idling,
       LoopFree, Answered
<1>1. CASE TurnSucceeds
  BY <1>1 DEF TurnSucceeds, StartsClean
<1>2. CASE DoneEmits
  BY <1>2 DEF DoneEmits, StartsClean
<1>3. CASE FailedArms
  <2>1. CASE Armed(count, {})
    BY <1>3, <2>1, ArmedStarts
  <2>2. CASE ~Armed(count, {})
    BY <1>3, <2>2, ArmingActions DEF FailedArms, StartsClean
  <2> QED BY <2>1, <2>2
<1>4. CASE FailedEmits
  BY <1>4 DEF FailedEmits, StartsClean
<1>5. CASE Reconnects
  <2>1. CASE count < Max
    BY <1>5, <2>1, ArmingActions, ArmedStarts
  <2>2. CASE ~(count < Max)
    BY <1>5, <2>2 DEF Reconnects, StartsClean
  <2> QED BY <2>1, <2>2
<1>6. CASE Heals
  BY <1>6 DEF Heals, StartsClean
<1>7. CASE HealStops
  BY <1>7 DEF HealStops, StartsClean
<1>8. CASE TurnFails
  BY <1>8 DEF TurnFails, StartsClean
<1>9. CASE TurnRaises
  BY <1>9 DEF TurnRaises, StartsClean
<1>10. CASE ReconnectsNot
  BY <1>10 DEF ReconnectsNot, StartsClean
<1>11. CASE TurnDies
  BY <1>11 DEF TurnDies, StartsClean
<1>12. CASE HealFails
  <2>1. CASE count < Max
    BY <1>12, <2>1, ArmingActions, ArmedStarts
  <2>2. CASE ~(count < Max)
    BY <1>12, <2>2 DEF HealFails, StartsClean
  <2> QED BY <2>1, <2>2
<1>13. CASE Closes
  BY <1>13 DEF Closes, StartsClean
<1>14. CASE Starts
  BY <1>14 DEF Starts, StartsClean
<1>15. CASE Restores
  BY <1>15 DEF Restores, StartsClean
<1>16. CASE FlushStarts
  BY <1>16 DEF FlushStarts, StartsClean
<1>17. CASE FlushEnds
  BY <1>17 DEF FlushEnds, StartsClean
<1>18. CASE Restart
  BY <1>18 DEF Restart, StartsClean
<1>19. ASSUME NEW r \in Requests, CancelSets(r) PROVE StartsClean'
  BY <1>19 DEF CancelSets, StartsClean
<1>20. ASSUME NEW r \in Requests, Send(r) PROVE StartsClean'
  BY <1>20 DEF Send, StartsClean
<1>21. ASSUME NEW r \in Requests, Queue(r) PROVE StartsClean'
  BY <1>21 DEF Queue, StartsClean
<1>22. ASSUME NEW r \in Requests, Reemit(r) PROVE StartsClean'
  BY <1>22 DEF Reemit, StartsClean
<1>23. ASSUME NEW r \in Requests, Cancel(r) PROVE StartsClean'
  BY <1>23 DEF Cancel, StartsClean
<1>24. ASSUME NEW r \in Requests, RetryNow(r) PROVE StartsClean'
  BY <1>24 DEF RetryNow, StartsClean
<1>25. ASSUME NEW r \in Requests, Interrupt(r) PROVE StartsClean'
  BY <1>25 DEF Interrupt, StartsClean
<1>26. ASSUME NEW r \in Requests, Close(r) PROVE StartsClean'
  BY <1>26 DEF Close, StartsClean
<1>27. ASSUME NEW p \in Requests \cup Tasks, FireBegins(p) PROVE StartsClean'
  BY <1>27 DEF FireBegins, StartsClean
<1>28. ASSUME NEW p \in Requests \cup Tasks, FireSends(p) PROVE StartsClean'
  BY <1>28 DEF FireSends, StartsClean
<1>29. ASSUME NEW p \in Requests \cup Tasks, FireEnds(p) PROVE StartsClean'
  BY <1>29 DEF FireEnds, StartsClean
<1>30. ASSUME NEW p \in Requests \cup Tasks, FireRefused(p) PROVE StartsClean'
  <2>1. CASE state \notin {"WORKING", "STARTING"} /\ count < Max
    BY <1>30, <2>1, ArmingActions, ArmedStarts
  <2>2. CASE ~(state \notin {"WORKING", "STARTING"} /\ count < Max)
    BY <1>30, <2>2 DEF FireRefused, StartsClean
  <2> QED BY <2>1, <2>2
<1>31. ASSUME NEW p \in Requests \cup {Loop}, Dispatch(p) PROVE StartsClean'
  BY <1>31 DEF Dispatch, StartsClean
<1>32. ASSUME NEW k \in Tasks, TaskDies(k) PROVE StartsClean'
  BY <1>32 DEF TaskDies, StartsClean
<1>33. ASSUME NEW k \in Tasks, Wakes(k) PROVE StartsClean'
  BY <1>33 DEF Wakes, StartsClean
<1>34. ASSUME NEW k \in Tasks, Redialled(k) PROVE StartsClean'
  BY <1>34 DEF Redialled, StartsClean
<1>35. ASSUME NEW k \in Tasks, ReconnectFails(k) PROVE StartsClean'
  <2>1. CASE count + 1 < Max
    BY <1>35, <2>1, ArmingActions, ArmedStarts
  <2>2. CASE ~(count + 1 < Max)
    BY <1>35, <2>2 DEF ReconnectFails, StartsClean
  <2> QED BY <2>1, <2>2
<1>36. ASSUME NEW k \in Tasks, RedialFails(k) PROVE StartsClean'
  BY <1>36 DEF RedialFails, StartsClean
<1>37. CASE UNCHANGED vars
  BY <1>37 DEF vars, StartsClean
<1> HIDE BoundsAssumption DEF CoreType, TaskType, ProcType, Places, Firing, Awaiting,
       retryVars, Call, Fails, Launch, Clear, EmitsOnLoop, Emitted, New, Idling,
       LoopFree, Answered
<1> QED
  BY <1>1, <1>2, <1>3, <1>4, <1>5, <1>6, <1>7, <1>8, <1>9, <1>10, <1>11, <1>12,
     <1>13, <1>14, <1>15, <1>16, <1>17, <1>18, <1>19, <1>20, <1>21, <1>22, <1>23,
     <1>24, <1>25, <1>26, <1>27, <1>28, <1>29, <1>30, <1>31, <1>32, <1>33, <1>34,
     <1>35, <1>36, <1>37
     DEF Next, Goes, Turn, Failure, Fire, Task, Command, Engine

LEMMA HeldStep ==
  ASSUME CoreType, TaskType, Dispatchers, StartsClean, Held, [Next]_vars
  PROVE  Held'
<1> USE BoundsAssumption DEF CoreType, Dispatchers, StartsClean, TaskType, ProcType,
       Places, Firing, Awaiting, retryVars, marks, Call, Fails, Launch, Clear,
       EmitsOnLoop, Emitted, New, Idling, LoopFree, Answered
<1>1. CASE TurnSucceeds
  BY <1>1 DEF TurnSucceeds, Held
<1>2. CASE DoneEmits
  BY <1>2 DEF DoneEmits, Held
<1>3. CASE FailedArms
  <2>1. CASE Armed(count, {})
    BY <1>3, <2>1, ArmedHeld
  <2>2. CASE ~Armed(count, {})
    <3>1. UNCHANGED <<pc, retryAt, waiting, late, wiped>> /\ state' = "IDLE"
      BY <1>3, <2>2, ArmingActions DEF FailedArms
    <3> QED BY <3>1 DEF Held
  <2> QED BY <2>1, <2>2
<1>4. CASE FailedEmits
  BY <1>4 DEF FailedEmits, Held
<1>5. CASE Reconnects
  <2>1. CASE count < Max
    BY <1>5, <2>1, ArmingActions, ArmedHeld
  <2>2. CASE ~(count < Max)
    BY <1>5, <2>2 DEF Reconnects, Held
  <2> QED BY <2>1, <2>2
<1>6. CASE Heals
  BY <1>6 DEF Heals, Held
<1>7. CASE HealStops
  BY <1>7 DEF HealStops, Held
<1>8. CASE TurnFails
  BY <1>8 DEF TurnFails, Held
<1>9. CASE TurnRaises
  BY <1>9 DEF TurnRaises, Held
<1>10. CASE ReconnectsNot
  BY <1>10 DEF ReconnectsNot, Held
<1>11. CASE TurnDies
  BY <1>11 DEF TurnDies, Held
<1>12. CASE HealFails
  <2>1. CASE count < Max
    BY <1>12, <2>1, ArmingActions, ArmedHeld
  <2>2. CASE ~(count < Max)
    BY <1>12, <2>2 DEF HealFails, Held
  <2> QED BY <2>1, <2>2
<1>13. CASE Closes
  BY <1>13 DEF Closes, Held
<1>14. CASE Starts
  BY <1>14 DEF Starts, Held
<1>15. CASE Restores
  BY <1>15 DEF Restores, Held
<1>16. CASE FlushStarts
  BY <1>16 DEF FlushStarts, Held
<1>17. CASE FlushEnds
  BY <1>17 DEF FlushEnds, Held
<1>18. CASE Restart
  BY <1>18 DEF Restart, Held
<1>19. ASSUME NEW r \in Requests, CancelSets(r) PROVE Held'
  BY <1>19 DEF CancelSets, Held
<1>20. ASSUME NEW r \in Requests, Send(r) PROVE Held'
  BY <1>20 DEF Send, Held
<1>21. ASSUME NEW r \in Requests, Queue(r) PROVE Held'
  BY <1>21 DEF Queue, Held
<1>22. ASSUME NEW r \in Requests, Reemit(r) PROVE Held'
  BY <1>22 DEF Reemit, Held
<1>23. ASSUME NEW r \in Requests, Cancel(r) PROVE Held'
  BY <1>23 DEF Cancel, Held
<1>24. ASSUME NEW r \in Requests, RetryNow(r) PROVE Held'
  BY <1>24 DEF RetryNow, Held
<1>25. ASSUME NEW r \in Requests, Interrupt(r) PROVE Held'
  BY <1>25 DEF Interrupt, Held
<1>26. ASSUME NEW r \in Requests, Close(r) PROVE Held'
  BY <1>26 DEF Close, Held
<1>27. ASSUME NEW p \in Requests \cup Tasks, FireBegins(p) PROVE Held'
  BY <1>27 DEF FireBegins, Held
<1>28. ASSUME NEW p \in Requests \cup Tasks, FireSends(p) PROVE Held'
  BY <1>28 DEF FireSends, Held
<1>29. ASSUME NEW p \in Requests \cup Tasks, FireEnds(p) PROVE Held'
  BY <1>29 DEF FireEnds, Held
<1>30. ASSUME NEW p \in Requests \cup Tasks, FireRefused(p) PROVE Held'
  <2>1. CASE state \notin {"WORKING", "STARTING"} /\ count < Max
    BY <1>30, <2>1, ArmingActions, ArmedHeld
  <2>2. CASE ~(state \notin {"WORKING", "STARTING"} /\ count < Max)
    BY <1>30, <2>2 DEF FireRefused, Held
  <2> QED BY <2>1, <2>2
<1>31. ASSUME NEW p \in Requests \cup {Loop}, Dispatch(p) PROVE Held'
  BY <1>31 DEF Dispatch, Held
<1>32. ASSUME NEW k \in Tasks, TaskDies(k) PROVE Held'
  BY <1>32 DEF TaskDies, Held
<1>33. ASSUME NEW k \in Tasks, Wakes(k) PROVE Held'
  BY <1>33 DEF Wakes, Held
<1>34. ASSUME NEW k \in Tasks, Redialled(k) PROVE Held'
  BY <1>34 DEF Redialled, Held
<1>35. ASSUME NEW k \in Tasks, ReconnectFails(k) PROVE Held'
  <2>1. CASE count + 1 < Max
    BY <1>35, <2>1, ArmingActions, ArmedHeld
  <2>2. CASE ~(count + 1 < Max)
    BY <1>35, <2>2 DEF ReconnectFails, Held
  <2> QED BY <2>1, <2>2
<1>36. ASSUME NEW k \in Tasks, RedialFails(k) PROVE Held'
  BY <1>36 DEF RedialFails, Held
<1>37. CASE UNCHANGED vars
  BY <1>37 DEF vars, Held
<1> HIDE BoundsAssumption DEF CoreType, Dispatchers, StartsClean, TaskType, ProcType,
       Places, Firing, Awaiting, retryVars, marks, Call, Fails, Launch, Clear,
       EmitsOnLoop, Emitted, New, Idling, LoopFree, Answered
<1> QED
  BY <1>1, <1>2, <1>3, <1>4, <1>5, <1>6, <1>7, <1>8, <1>9, <1>10, <1>11, <1>12,
     <1>13, <1>14, <1>15, <1>16, <1>17, <1>18, <1>19, <1>20, <1>21, <1>22, <1>23,
     <1>24, <1>25, <1>26, <1>27, <1>28, <1>29, <1>30, <1>31, <1>32, <1>33, <1>34,
     <1>35, <1>36, <1>37
     DEF Next, Goes, Turn, Failure, Fire, Task, Command, Engine

LEMMA RecordTypes ==
  ASSUME CoreType, FlagType
  PROVE  Rec \in Records
BY DEF CoreType, FlagType, Rec, Records

\* The durable record and the copies of it that wait to be written.
LEMMA DiskTypeStep ==
  ASSUME DiskType, Rec \in Records, Rec' \in Records, [Next]_vars
  PROVE  DiskType'
<1> USE BoundsAssumption DEF diskVars, Call, Fails, Launch, SaveNow, SaveSoon,
       SaveClear
<1>1. CASE TurnSucceeds
  BY <1>1 DEF TurnSucceeds, DiskType, Arm
<1>2. CASE DoneEmits
  BY <1>2 DEF DoneEmits, DiskType, Arm
<1>3. CASE FailedArms
  BY <1>3, ArmingActions DEF FailedArms, Arm, DiskType
<1>4. CASE FailedEmits
  BY <1>4 DEF FailedEmits, DiskType, Arm
<1>5. CASE Reconnects
  BY <1>5 DEF Reconnects, DiskType, Arm
<1>6. CASE Heals
  BY <1>6 DEF Heals, DiskType, Arm
<1>7. CASE HealStops
  BY <1>7 DEF HealStops, DiskType, Arm
<1>8. CASE TurnFails
  BY <1>8 DEF TurnFails, DiskType, Arm
<1>9. CASE TurnRaises
  BY <1>9 DEF TurnRaises, DiskType, Arm
<1>10. CASE ReconnectsNot
  BY <1>10 DEF ReconnectsNot, DiskType, Arm
<1>11. CASE TurnDies
  BY <1>11 DEF TurnDies, DiskType, Arm
<1>12. CASE HealFails
  BY <1>12 DEF HealFails, DiskType, Arm
<1>13. CASE Closes
  BY <1>13 DEF Closes, DiskType, Records
<1>14. CASE Starts
  BY <1>14 DEF Starts, DiskType, Arm
<1>15. CASE Restores
  BY <1>15 DEF Restores, DiskType, Arm
<1>16. CASE FlushStarts
  BY <1>16 DEF FlushStarts, DiskType, Arm
<1>17. CASE FlushEnds
  BY <1>17 DEF FlushEnds, DiskType, Arm
<1>18. CASE Restart
  BY <1>18 DEF Restart, DiskType, Rec
<1>19. ASSUME NEW r \in Requests, CancelSets(r) PROVE DiskType'
  BY <1>19 DEF CancelSets, DiskType, Arm
<1>20. ASSUME NEW r \in Requests, Send(r) PROVE DiskType'
  BY <1>20 DEF Send, DiskType, Arm
<1>21. ASSUME NEW r \in Requests, Queue(r) PROVE DiskType'
  BY <1>21 DEF Queue, DiskType, Arm
<1>22. ASSUME NEW r \in Requests, Reemit(r) PROVE DiskType'
  BY <1>22 DEF Reemit, DiskType, Arm
<1>23. ASSUME NEW r \in Requests, Cancel(r) PROVE DiskType'
  BY <1>23 DEF Cancel, DiskType, Arm
<1>24. ASSUME NEW r \in Requests, RetryNow(r) PROVE DiskType'
  BY <1>24 DEF RetryNow, DiskType, Arm
<1>25. ASSUME NEW r \in Requests, Interrupt(r) PROVE DiskType'
  BY <1>25 DEF Interrupt, DiskType, Arm
<1>26. ASSUME NEW r \in Requests, Close(r) PROVE DiskType'
  BY <1>26 DEF Close, DiskType, Arm
<1>27. ASSUME NEW p \in Requests \cup Tasks, FireBegins(p) PROVE DiskType'
  BY <1>27 DEF FireBegins, DiskType, Arm
<1>28. ASSUME NEW p \in Requests \cup Tasks, FireSends(p) PROVE DiskType'
  BY <1>28 DEF FireSends, DiskType, Arm
<1>29. ASSUME NEW p \in Requests \cup Tasks, FireEnds(p) PROVE DiskType'
  BY <1>29 DEF FireEnds, DiskType, Arm
<1>30. ASSUME NEW p \in Requests \cup Tasks, FireRefused(p) PROVE DiskType'
  BY <1>30 DEF FireRefused, DiskType, Arm
<1>31. ASSUME NEW p \in Requests \cup {Loop}, Dispatch(p) PROVE DiskType'
  BY <1>31 DEF Dispatch, DiskType, Arm
<1>32. ASSUME NEW k \in Tasks, TaskDies(k) PROVE DiskType'
  BY <1>32 DEF TaskDies, DiskType, Arm
<1>33. ASSUME NEW k \in Tasks, Wakes(k) PROVE DiskType'
  BY <1>33 DEF Wakes, DiskType, Arm
<1>34. ASSUME NEW k \in Tasks, Redialled(k) PROVE DiskType'
  BY <1>34 DEF Redialled, DiskType, Arm
<1>35. ASSUME NEW k \in Tasks, ReconnectFails(k) PROVE DiskType'
  BY <1>35 DEF ReconnectFails, DiskType, Arm
<1>36. ASSUME NEW k \in Tasks, RedialFails(k) PROVE DiskType'
  BY <1>36 DEF RedialFails, DiskType, Arm
<1>37. CASE UNCHANGED vars
  BY <1>37 DEF vars, DiskType, Arm
<1> HIDE BoundsAssumption DEF diskVars, Call, Fails, Launch, SaveNow, SaveSoon,
       SaveClear
<1> QED
  BY <1>1, <1>2, <1>3, <1>4, <1>5, <1>6, <1>7, <1>8, <1>9, <1>10, <1>11, <1>12,
     <1>13, <1>14, <1>15, <1>16, <1>17, <1>18, <1>19, <1>20, <1>21, <1>22, <1>23,
     <1>24, <1>25, <1>26, <1>27, <1>28, <1>29, <1>30, <1>31, <1>32, <1>33, <1>34,
     <1>35, <1>36, <1>37
     DEF Next, Goes, Turn, Failure, Fire, Task, Command, Engine

LEMMA GuardedStep ==
  ASSUME CoreType, TaskType, Dispatchers, StartsClean, Guarded, ~orphaned', ~closed', [Next]_vars
  PROVE  Guarded'
<1> USE BoundsAssumption DEF CoreType, Dispatchers, StartsClean, TaskType, ProcType,
       Places, Firing, Awaiting, RequestFires, Resends, Fires, retryVars, marks, Call,
       Fails, Launch, Clear, Over, EmitsOnLoop, Emitted, Cancelled, New, Idling,
       LoopFree, Answered, Live
<1>1. CASE TurnSucceeds
  BY <1>1 DEF TurnSucceeds, Guarded, Open, TasksOK, CountdownOK
<1>2. CASE DoneEmits
  BY <1>2 DEF DoneEmits, Guarded, Open, TasksOK, CountdownOK
<1>3. CASE FailedArms
  <2>1. CASE Armed(count, {})
    BY <1>3, <2>1, ArmingGuarded
  <2>2. CASE ~Armed(count, {})
    <3>1. /\ UNCHANGED <<pc, handle, doomed, retryAt, down, restoring, closing>>
          /\ turn' = "none" /\ state' = "IDLE" /\ ~restoring
      BY <1>3, <2>2, ArmingActions DEF FailedArms
    <3>2. Open'
      BY <3>1 DEF Guarded, Open
    <3>3. TasksOK'
      BY <3>1 DEF Guarded, TasksOK
    <3>4. CountdownOK'
      BY <3>1 DEF Guarded, CountdownOK
    <3> QED BY <3>2, <3>3, <3>4 DEF Guarded
  <2> QED BY <2>1, <2>2
<1>4. CASE FailedEmits
  BY <1>4 DEF FailedEmits, Guarded, Open, TasksOK, CountdownOK
<1>5. CASE Reconnects
  <2>1. CASE count < Max
    BY <1>5, <2>1, ArmingGuarded
  <2>2. CASE ~(count < Max)
    BY <1>5, <2>2 DEF Reconnects, Guarded, Open, TasksOK, CountdownOK
  <2> QED BY <2>1, <2>2
<1>6. CASE Heals
  BY <1>6 DEF Heals, Guarded, Open, TasksOK, CountdownOK
<1>7. CASE HealStops
  BY <1>7 DEF HealStops, Guarded, Open, TasksOK, CountdownOK
<1>8. CASE TurnFails
  BY <1>8 DEF TurnFails, Guarded, Open, TasksOK, CountdownOK
<1>9. CASE TurnRaises
  BY <1>9 DEF TurnRaises, Guarded, Open, TasksOK, CountdownOK
<1>10. CASE ReconnectsNot
  BY <1>10 DEF ReconnectsNot, Guarded, Open, TasksOK, CountdownOK
<1>11. CASE TurnDies
  BY <1>11 DEF TurnDies, Guarded, Open, TasksOK, CountdownOK
<1>12. CASE HealFails
  <2>1. CASE count < Max
    BY <1>12, <2>1, ArmingGuarded
  <2>2. CASE ~(count < Max)
    BY <1>12, <2>2 DEF HealFails, Guarded, Open, TasksOK, CountdownOK
  <2> QED BY <2>1, <2>2
<1>13. CASE Closes
  BY <1>13 DEF Closes, Guarded, Open, TasksOK, CountdownOK
<1>14. CASE Starts
  BY <1>14 DEF Starts, Guarded, Open, TasksOK, CountdownOK
<1>15. CASE Restores
  <2>1. /\ state # "STARTING" /\ restoring /\ ~restoring' /\ Idling
        /\ UNCHANGED <<turn, down, closing, state>>
    BY <1>15 DEF Restores
  <2>2. handle = None /\ \A k \in Tasks : pc[k] = "idle"
    BY <2>1 DEF Guarded, TasksOK
  <2>3. CASE state = "IDLE"
    <3>1. PICK k \in Tasks : /\ pc' = [pc EXCEPT ![k] = "sleep"] /\ handle' = k
                             /\ doomed' = Cancelled
      BY <1>15, <2>3 DEF Restores
    <3>2. turn' = "none"
      BY <1>15, <2>1, <2>3 DEF Restores
    <3>3. doomed' = {} /\ pc'[k] = "sleep" /\ \A q \in ProcType \ {k} : pc'[q] = pc[q]
      BY <2>2, <3>1 DEF Guarded, TasksOK
    <3>4. Open'
      BY <2>1, <3>2, <3>3 DEF Guarded, Open
    <3>5. TasksOK'
      BY <2>1, <2>2, <3>1, <3>3 DEF TasksOK
    <3>6. CountdownOK'
      BY <3>1, <3>2 DEF CountdownOK
    <3> QED BY <3>4, <3>5, <3>6 DEF Guarded
  <2>4. CASE state # "IDLE"
    <3>1. UNCHANGED <<retryAt, handle, doomed, pc>>
      BY <1>15, <2>4 DEF Restores
    <3> QED BY <2>1, <2>2, <2>4, <3>1 DEF Guarded, Open, TasksOK, CountdownOK
  <2> QED BY <2>3, <2>4
<1>16. CASE FlushStarts
  BY <1>16 DEF FlushStarts, Guarded, Open, TasksOK, CountdownOK
<1>17. CASE FlushEnds
  BY <1>17 DEF FlushEnds, Guarded, Open, TasksOK, CountdownOK
<1>18. CASE Restart
  BY <1>18 DEF Restart, Guarded, Open, TasksOK, CountdownOK
<1>19. ASSUME NEW r \in Requests, CancelSets(r) PROVE Guarded'
  BY <1>19 DEF CancelSets, Guarded, Open, TasksOK, CountdownOK
<1>20. ASSUME NEW r \in Requests, Send(r) PROVE Guarded'
  <2>1. Open'
    BY <1>20 DEF Send, Guarded, Open, TasksOK
  <2>2. TasksOK'
    <3>1. CASE state = "IDLE"
      <4>1. /\ UNCHANGED pc /\ down' = FALSE /\ handle' = None /\ doomed' = Cancelled
            /\ (restoring' => restoring)
        BY <1>20, <3>1 DEF Send
      <4>2. \A k \in Cancelled : Live(k)
        BY DEF Guarded, TasksOK
      <4> QED BY <4>1, <4>2 DEF Guarded, TasksOK
    <3>2. CASE state # "IDLE"
      <4>1. UNCHANGED <<pc, down, handle, doomed>> /\ (restoring' => restoring)
        BY <1>20, <3>2 DEF Send
      <4> QED BY <4>1 DEF Guarded, TasksOK
    <3> QED BY <3>1, <3>2
  <2>3. CountdownOK'
    BY <1>20 DEF Send, Guarded, Open, TasksOK, CountdownOK
  <2> QED BY <2>1, <2>2, <2>3 DEF Guarded
<1>21. ASSUME NEW r \in Requests, Queue(r) PROVE Guarded'
  BY <1>21 DEF Queue, Guarded, Open, TasksOK, CountdownOK
<1>22. ASSUME NEW r \in Requests, Reemit(r) PROVE Guarded'
  BY <1>22 DEF Reemit, Guarded, Open, TasksOK, CountdownOK
<1>23. ASSUME NEW r \in Requests, Cancel(r) PROVE Guarded'
  BY <1>23 DEF Cancel, Guarded, Open, TasksOK, CountdownOK
<1>24. ASSUME NEW r \in Requests, RetryNow(r) PROVE Guarded'
  <2>1. Open'
    BY <1>24 DEF RetryNow, Guarded, Open, TasksOK
  <2>2. TasksOK'
    <3>1. /\ down' = down /\ handle' = None /\ doomed' = Cancelled
          /\ (restoring' => restoring) /\ ~down /\ pc' = [pc EXCEPT ![r] = "fire"]
      BY <1>24 DEF RetryNow
    <3>2. \A k \in Tasks : pc'[k] = pc[k]
      BY <3>1
    <3>3. \A k \in Cancelled : k \in Tasks /\ Live(k)
      BY DEF Guarded, TasksOK
    <3> QED BY <3>1, <3>2, <3>3 DEF Guarded, TasksOK
  <2>3. CountdownOK'
    BY <1>24 DEF RetryNow, Guarded, Open, TasksOK, CountdownOK
  <2> QED BY <2>1, <2>2, <2>3 DEF Guarded
<1>25. ASSUME NEW r \in Requests, Interrupt(r) PROVE Guarded'
  BY <1>25 DEF Interrupt, Guarded, Open, TasksOK, CountdownOK
<1>26. ASSUME NEW r \in Requests, Close(r) PROVE Guarded'
  BY <1>26 DEF Close, Guarded, Open, TasksOK, CountdownOK
<1>27. ASSUME NEW p \in Requests \cup Tasks, FireBegins(p) PROVE Guarded'
  BY <1>27 DEF FireBegins, Guarded, Open, TasksOK, CountdownOK
<1>28. ASSUME NEW p \in Requests \cup Tasks, FireSends(p) PROVE Guarded'
  BY <1>28 DEF FireSends, Guarded, Open, TasksOK, CountdownOK
<1>29. ASSUME NEW p \in Requests \cup Tasks, FireEnds(p) PROVE Guarded'
  BY <1>29 DEF FireEnds, Guarded, Open, TasksOK, CountdownOK
<1>30. ASSUME NEW p \in Requests \cup Tasks, FireRefused(p) PROVE Guarded'
  BY <1>30 DEF FireRefused, Guarded, Open, TasksOK, CountdownOK
<1>31. ASSUME NEW p \in Requests \cup {Loop}, Dispatch(p) PROVE Guarded'
  BY <1>31 DEF Dispatch, Guarded, Open, TasksOK, CountdownOK
<1>32. ASSUME NEW k \in Tasks, TaskDies(k) PROVE Guarded'
  BY <1>32 DEF TaskDies, Guarded, Open, TasksOK, CountdownOK
<1>33. ASSUME NEW k \in Tasks, Wakes(k) PROVE Guarded'
  BY <1>33 DEF Wakes, Guarded, Open, TasksOK, CountdownOK
<1>34. ASSUME NEW k \in Tasks, Redialled(k) PROVE Guarded'
  BY <1>34 DEF Redialled, Guarded, Open, TasksOK, CountdownOK
<1>35. ASSUME NEW k \in Tasks, ReconnectFails(k) PROVE Guarded'
  <2>1. CASE count + 1 < Max
    BY <1>35, <2>1, ArmingGuarded
  <2>2. CASE ~(count + 1 < Max)
    BY <1>35, <2>2 DEF ReconnectFails, Guarded, Open, TasksOK, CountdownOK
  <2> QED BY <2>1, <2>2
<1>36. ASSUME NEW k \in Tasks, RedialFails(k) PROVE Guarded'
  BY <1>36 DEF RedialFails, Guarded, Open, TasksOK, CountdownOK
<1>37. CASE UNCHANGED vars
  BY <1>37 DEF vars, Guarded, Open, TasksOK, CountdownOK
<1> HIDE BoundsAssumption DEF CoreType, Dispatchers, StartsClean, TaskType, ProcType,
       Places, Firing, Awaiting, RequestFires, Resends, Fires, retryVars, marks, Call,
       Fails, Launch, Clear, Over, EmitsOnLoop, Emitted, Cancelled, New, Idling,
       LoopFree, Answered, Live
<1> QED
  BY <1>1, <1>2, <1>3, <1>4, <1>5, <1>6, <1>7, <1>8, <1>9, <1>10, <1>11, <1>12,
     <1>13, <1>14, <1>15, <1>16, <1>17, <1>18, <1>19, <1>20, <1>21, <1>22, <1>23,
     <1>24, <1>25, <1>26, <1>27, <1>28, <1>29, <1>30, <1>31, <1>32, <1>33, <1>34,
     <1>35, <1>36, <1>37
     DEF Next, Goes, Turn, Failure, Fire, Task, Command, Engine
-----------------------------------------------------------------------------
(* The budget.                                                             *)

\* A timer that is armed cancels the one before it, unless that one's handle is gone.
LEMMA ArmCancels ==
  ASSUME NEW n, NEW at, NEW E \in SUBSET (Requests \cup Tasks), NEW old,
         n < Max, Arm("IDLE", n, at, E, old), old = handle \/ handle \in E \cup {None}
  PROVE  {k \in Tasks : (k \in doomed \/ (k = handle /\ Live(k))) /\ k \notin E /\ k # None}
           \subseteq doomed'
<1>1. doomed' = (doomed \cup {q \in Tasks : q = old /\ Live(q)}) \ E
  BY DEF Arm
<1> QED BY <1>1

LEMMA ArmedTimers ==
  ASSUME BoundsAssumption, TaskType, TimersOK, Idling,
         NEW n, NEW E \in SUBSET (Requests \cup Tasks), Armed(n, E),
         {k \in Tasks : (k \in doomed \/ (k = handle /\ Live(k))) /\ k \notin E /\ k # None}
           \subseteq doomed'
  PROVE  TimersOK'
<1>1. PICK k \in Tasks :
        /\ handle' = k /\ pc'[k] = "sleep"
        /\ \A q \in ProcType \ {k} : pc'[q] = IF q \in E THEN "idle" ELSE pc[q]
  BY DEF Armed
<1>2. \A j \in Tasks : pc'[j] # "fire"
  BY <1>1 DEF Idling, Firing, ProcType
<1>3. ASSUME NEW j \in Tasks, pc'[j] \in {"sleep", "reconnect"}, j # k PROVE j \in doomed'
  <2>1. pc[j] = pc'[j] /\ j \notin E
    BY <1>1, <1>3 DEF ProcType
  <2>2. j = handle \/ j \in doomed
    BY <1>3, <2>1 DEF TimersOK
  <2>3. Live(j) /\ j # None
    BY <1>3, <2>1, BoundsAssumption DEF Live
  <2> QED BY <2>1, <2>2, <2>3
<1> QED BY <1>1, <1>2, <1>3 DEF TimersOK

LEMMA ArmingTimers ==
  ASSUME BoundsAssumption, TaskType, TimersOK
  PROVE  /\ (FailedArms \/ Reconnects \/ HealFails) /\ count < Max => TimersOK'
         /\ \A k \in Tasks :
              ReconnectFails(k) /\ count + 1 < Max /\ ~orphaned' => TimersOK'
<1>1. {} \in SUBSET (Requests \cup Tasks)
  OBVIOUS
<1>2. ASSUME FailedArms \/ Reconnects \/ HealFails, count < Max PROVE TimersOK'
  <2>1. Arm("IDLE", count, retryAt, {}, handle) /\ Idling
    BY <1>2 DEF FailedArms, Reconnects, HealFails, Fails, LoopFree
  <2>2. Armed(count, {})
    BY <1>1, <1>2, <2>1, ArmArms, BoundsAssumption
  <2> QED BY <1>1, <1>2, <2>1, <2>2, ArmCancels, ArmedTimers
<1>3. ASSUME NEW k \in Tasks, ReconnectFails(k), count + 1 < Max, ~orphaned' PROVE TimersOK'
  <2>1. Arm("IDLE", count + 1, FALSE, {k}, None) /\ Idling /\ handle \in {None, k}
    BY <1>3 DEF ReconnectFails, LoopFree
  <2>2. {k} \in SUBSET (Requests \cup Tasks) /\ Armed(count + 1, {k})
    BY <1>3, ArmingActions
  <2> QED BY <1>3, <2>1, <2>2, ArmCancels, ArmedTimers
<1> QED BY <1>2, <1>3

\* Nothing the session, its requests and its tasks do gives a second timer a way to its
\* resend.
LEMMA TimersStep ==
  ASSUME CoreType, TaskType, Dispatchers, StartsClean, Guarded, TimersOK,
         ~orphaned', ~closed', [Next]_vars
  PROVE  TimersOK'
<1> USE BoundsAssumption DEF CoreType, Dispatchers, StartsClean, TaskType, ProcType,
       Places, Firing, Awaiting, retryVars, marks, Call, Fails, Launch, Clear, Over,
       EmitsOnLoop, Emitted, Cancelled, New, Idling, LoopFree, Live
<1>1. CASE TurnSucceeds
  BY <1>1 DEF TurnSucceeds, Guarded, Open, TasksOK, TimersOK
<1>2. CASE DoneEmits
  BY <1>2 DEF DoneEmits, Guarded, Open, TasksOK, TimersOK
<1>3. CASE FailedArms
  <2>1. CASE count < Max
    BY <1>3, <2>1, ArmingTimers
  <2>2. CASE ~(count < Max)
    BY <1>3, <2>2, ArmDrops DEF FailedArms, TimersOK
  <2> QED BY <2>1, <2>2
<1>4. CASE FailedEmits
  BY <1>4 DEF FailedEmits, Guarded, Open, TasksOK, TimersOK
<1>5. CASE Reconnects
  <2>1. CASE count < Max
    BY <1>5, <2>1, ArmingTimers
  <2>2. CASE ~(count < Max)
    BY <1>5, <2>2 DEF Reconnects, Guarded, Open, TasksOK, TimersOK
  <2> QED BY <2>1, <2>2
<1>6. CASE Heals
  BY <1>6 DEF Heals, Guarded, Open, TasksOK, TimersOK
<1>7. CASE HealStops
  BY <1>7 DEF HealStops, Guarded, Open, TasksOK, TimersOK
<1>8. CASE TurnFails
  BY <1>8 DEF TurnFails, Guarded, Open, TasksOK, TimersOK
<1>9. CASE TurnRaises
  BY <1>9 DEF TurnRaises, Guarded, Open, TasksOK, TimersOK
<1>10. CASE ReconnectsNot
  BY <1>10 DEF ReconnectsNot, Guarded, Open, TasksOK, TimersOK
<1>11. CASE TurnDies
  BY <1>11 DEF TurnDies, Guarded, Open, TasksOK, TimersOK
<1>12. CASE HealFails
  <2>1. CASE count < Max
    BY <1>12, <2>1, ArmingTimers
  <2>2. CASE ~(count < Max)
    BY <1>12, <2>2 DEF HealFails, Guarded, Open, TasksOK, TimersOK
  <2> QED BY <2>1, <2>2
<1>13. CASE Closes
  BY <1>13 DEF Closes, Guarded, Open, TasksOK, TimersOK
<1>14. CASE Starts
  BY <1>14 DEF Starts, Guarded, Open, TasksOK, TimersOK
<1>15. CASE Restores
  <2>1. restoring /\ UNCHANGED turn
    BY <1>15 DEF Restores
  <2>2. /\ handle = None /\ doomed = {} /\ \A k \in Tasks : pc[k] = "idle"
    BY <2>1 DEF Guarded, TasksOK
  <2>3. CASE state = "IDLE"
    <3>1. PICK k \in Tasks : pc' = [pc EXCEPT ![k] = "sleep"] /\ handle' = k
      BY <1>15, <2>3 DEF Restores
    <3>2. \A j \in Tasks \ {k} : pc'[j] = "idle"
      BY <2>2, <3>1
    <3>3. pc'[k] = "sleep"
      BY <3>1
    <3> QED BY <3>1, <3>2, <3>3 DEF TimersOK
  <2>4. CASE state # "IDLE"
    BY <1>15, <2>4 DEF Restores, TimersOK
  <2> QED BY <2>3, <2>4
<1>16. CASE FlushStarts
  BY <1>16 DEF FlushStarts, Guarded, Open, TasksOK, TimersOK
<1>17. CASE FlushEnds
  BY <1>17 DEF FlushEnds, Guarded, Open, TasksOK, TimersOK
<1>18. CASE Restart
  BY <1>18 DEF Restart, Guarded, Open, TasksOK, TimersOK
<1>19. ASSUME NEW r \in Requests, CancelSets(r) PROVE TimersOK'
  BY <1>19 DEF CancelSets, Guarded, Open, TasksOK, TimersOK
<1>20. ASSUME NEW r \in Requests, Send(r) PROVE TimersOK'
  BY <1>20 DEF Send, Guarded, Open, TasksOK, TimersOK
<1>21. ASSUME NEW r \in Requests, Queue(r) PROVE TimersOK'
  BY <1>21 DEF Queue, Guarded, Open, TasksOK, TimersOK
<1>22. ASSUME NEW r \in Requests, Reemit(r) PROVE TimersOK'
  BY <1>22 DEF Reemit, Guarded, Open, TasksOK, TimersOK
<1>23. ASSUME NEW r \in Requests, Cancel(r) PROVE TimersOK'
  BY <1>23 DEF Cancel, Guarded, Open, TasksOK, TimersOK
<1>24. ASSUME NEW r \in Requests, RetryNow(r) PROVE TimersOK'
  BY <1>24 DEF RetryNow, Guarded, Open, TasksOK, TimersOK
<1>25. ASSUME NEW r \in Requests, Interrupt(r) PROVE TimersOK'
  BY <1>25 DEF Interrupt, Guarded, Open, TasksOK, TimersOK
<1>26. ASSUME NEW r \in Requests, Close(r) PROVE TimersOK'
  BY <1>26 DEF Close, Guarded, Open, TasksOK, TimersOK
<1>27. ASSUME NEW p \in Requests \cup Tasks, FireBegins(p) PROVE TimersOK'
  BY <1>27 DEF FireBegins, Guarded, Open, TasksOK, TimersOK
<1>28. ASSUME NEW p \in Requests \cup Tasks, FireSends(p) PROVE TimersOK'
  BY <1>28 DEF FireSends, Guarded, Open, TasksOK, TimersOK
<1>29. ASSUME NEW p \in Requests \cup Tasks, FireEnds(p) PROVE TimersOK'
  BY <1>29 DEF FireEnds, Guarded, Open, TasksOK, TimersOK
<1>30. ASSUME NEW p \in Requests \cup Tasks, FireRefused(p) PROVE TimersOK'
  BY <1>30 DEF FireRefused, Guarded, Open, TasksOK, TimersOK
<1>31. ASSUME NEW p \in Requests \cup {Loop}, Dispatch(p) PROVE TimersOK'
  BY <1>31 DEF Dispatch, Guarded, Open, TasksOK, TimersOK
<1>32. ASSUME NEW k \in Tasks, TaskDies(k) PROVE TimersOK'
  BY <1>32 DEF TaskDies, Guarded, Open, TasksOK, TimersOK
<1>33. ASSUME NEW k \in Tasks, Wakes(k) PROVE TimersOK'
  BY <1>33 DEF Wakes, Guarded, Open, TasksOK, TimersOK
<1>34. ASSUME NEW k \in Tasks, Redialled(k) PROVE TimersOK'
  BY <1>34 DEF Redialled, Guarded, Open, TasksOK, TimersOK
<1>35. ASSUME NEW k \in Tasks, ReconnectFails(k) PROVE TimersOK'
  <2>1. CASE count + 1 < Max
    BY <1>35, <2>1, ArmingTimers
  <2>2. CASE ~(count + 1 < Max)
    <3>1. /\ handle' = None /\ doomed' = doomed \ {k} /\ handle \in {None, k}
          /\ \A j \in Tasks : pc[j] \notin Firing
      BY <1>35, <2>2 DEF ReconnectFails
    <3>2. pc'[k] = "idle" /\ \A j \in Tasks \ {k} : pc'[j] = pc[j]
      BY <1>35, <2>2 DEF ReconnectFails
    <3> QED BY <3>1, <3>2 DEF TimersOK
  <2> QED BY <2>1, <2>2
<1>36. ASSUME NEW k \in Tasks, RedialFails(k) PROVE TimersOK'
  BY <1>36 DEF RedialFails, Guarded, Open, TasksOK, TimersOK
<1>37. CASE UNCHANGED vars
  BY <1>37 DEF vars, Guarded, Open, TasksOK, TimersOK
<1> HIDE BoundsAssumption DEF CoreType, Dispatchers, StartsClean, TaskType, ProcType,
       Places, Firing, Awaiting, retryVars, marks, Call, Fails, Launch, Clear, Over,
       EmitsOnLoop, Emitted, Cancelled, New, Idling, LoopFree, Live
<1> QED
  BY <1>1, <1>2, <1>3, <1>4, <1>5, <1>6, <1>7, <1>8, <1>9, <1>10, <1>11, <1>12,
     <1>13, <1>14, <1>15, <1>16, <1>17, <1>18, <1>19, <1>20, <1>21, <1>22, <1>23,
     <1>24, <1>25, <1>26, <1>27, <1>28, <1>29, <1>30, <1>31, <1>32, <1>33, <1>34,
     <1>35, <1>36, <1>37
     DEF Next, Goes, Turn, Failure, Fire, Task, Command, Engine

\* A chain that begins has its budget.
LEMMA ZeroSaved ==
  ASSUME DiskType', restarts' \in Nat, resent' = 0, NEW n \in Nat
  PROVE  Saved(n)'
<1>1. resent' <= disk'.count + restarts' + n
  <2>1. disk'.count \in Nat
    BY DEF DiskType, Records
  <2> QED BY <2>1
<1>2. ASSUME later' # None PROVE resent' <= later'.count + restarts' + n
  <2>1. later'.count \in Nat
    BY <1>2 DEF DiskType, Records
  <2> QED BY <2>1
<1>3. ASSUME writing' # None PROVE resent' <= writing'.count + restarts' + n
  <2>1. writing'.count \in Nat
    BY <1>3 DEF DiskType, Records
  <2> QED BY <2>1
<1> QED BY <1>1, <1>2, <1>3 DEF Saved, Kept

LEMMA ZeroBudget ==
  ASSUME BoundsAssumption, CoreType', DiskType', restarts' \in Nat, resent' = 0
  PROVE  BudgetOK'
<1>1. Saved(0)' /\ Saved(1)'
  BY ZeroSaved
<1>2. \A c, m, s \in Nat : 0 < m => 0 <= c + s + 0 /\ 0 <= m + s + 0 /\ 0 < m + s
  OBVIOUS
<1>3. count' \in Nat /\ Max \in Nat /\ 0 < Max
  BY BoundsAssumption DEF CoreType
<1>4. 0 <= count' + restarts' + 0 /\ 0 <= Max + restarts' + 0 /\ 0 < Max + restarts'
  BY <1>2, <1>3, Zenon
<1>5. Kept(Max, 0)' /\ Kept(count, 0)'
  BY <1>4 DEF Kept
<1> QED BY <1>1, <1>4, <1>5 DEF BudgetOK

\* What is saved or written is the count as it is, or a record that was there.
LEMMA SameSaved ==
  ASSUME CoreType, restarts \in Nat, NEW n \in Nat, Saved(n), Kept(count, 0),
         UNCHANGED <<resent, restarts, count>>,
         disk' \in {disk, Rec'} \/ (disk' = writing /\ writing # None),
         later' \in {None, later, Rec'}, writing' \in {None, writing, later}
  PROVE  Saved(n)'
<1>1. Rec'.count = count
  BY DEF Rec
<1>2. /\ resent <= disk.count + restarts + n
      /\ later # None => resent <= later.count + restarts + n
      /\ writing # None => resent <= writing.count + restarts + n
  BY DEF Saved, Kept
<1>3. resent <= count + restarts + n
  <2>1. resent <= count + restarts + 0 /\ count \in Nat /\ resent \in Nat
    BY DEF Kept, CoreType
  <2> QED BY <2>1
<1>4. resent <= disk'.count + restarts + n
  BY <1>1, <1>2, <1>3
<1>5. later' # None => resent <= later'.count + restarts + n
  BY <1>1, <1>2, <1>3
<1>6. writing' # None => resent <= writing'.count + restarts + n
  BY <1>2
<1>7. resent' = resent /\ restarts' = restarts
  OBVIOUS
<1>8. /\ resent' <= disk'.count + restarts' + n
      /\ later' # None => resent' <= later'.count + restarts' + n
      /\ writing' # None => resent' <= writing'.count + restarts' + n
  BY <1>4, <1>5, <1>6, <1>7
<1> QED BY <1>8 DEF Saved, Kept

LEMMA SameBudget ==
  ASSUME CoreType, DiskType, BudgetOK,
         UNCHANGED <<resent, restarts, count>>,
         disk' \in {disk, Rec'} \/ (disk' = writing /\ writing # None),
         later' \in {None, later, Rec'}, writing' \in {None, writing, later},
         restoring' => restoring,
         \A k \in Tasks : MayFire(k)' => MayFire(k)
  PROVE  BudgetOK'
<1>1. 0 \in Nat /\ 1 \in Nat
  OBVIOUS
<1>2. Kept(Max, 0)' /\ Kept(count, 0)'
  BY DEF BudgetOK, Kept
<1>3. restarts \in Nat /\ Kept(count, 0) /\ Saved(1)
  BY DEF BudgetOK
<1>4. Saved(1)'
  BY <1>1, <1>3, SameSaved
<1>5. restoring' => resent' < Max + restarts'
  BY DEF BudgetOK
<1>6. ASSUME NEW k \in Tasks, MayFire(k)' PROVE resent' < Max + restarts' /\ Saved(0)'
  <2>1. resent < Max + restarts /\ Saved(0)
    BY <1>6 DEF BudgetOK
  <2>2. Saved(0)'
    BY <1>1, <1>3, <2>1, SameSaved
  <2> QED BY <2>1, <2>2
<1> QED BY <1>2, <1>4, <1>5, <1>6 DEF BudgetOK

\* A countdown is armed with an attempt left, and saved.
LEMMA ArmedBudget ==
  ASSUME BoundsAssumption, CoreType, BudgetOK,
         NEW n \in {count, count + 1}, n < Max, NEW E, Armed(n, E), ~overtaken',
         UNCHANGED <<resent, restarts>>
  PROVE  BudgetOK'
<1>1. disk' = Rec' /\ later' = None /\ writing' = None /\ Rec'.count = n /\ count' = n
  BY DEF Armed, SaveNow, Rec
<1>2. /\ resent <= count + restarts /\ count \in Nat /\ resent \in Nat /\ restarts \in Nat
      /\ Max \in Nat /\ n \in Nat
  BY BoundsAssumption DEF BudgetOK, Kept, CoreType
<1>3. resent' <= n + restarts' + 0 /\ resent' <= n + restarts' + 1
      /\ resent' < Max + restarts' /\ resent' <= Max + restarts' + 0
  BY <1>2
<1>4. Kept(Max, 0)' /\ Kept(count, 0)'
  BY <1>1, <1>3 DEF Kept
<1>5. Saved(0)' /\ Saved(1)'
  BY <1>1, <1>3 DEF Saved, Kept
<1> QED BY <1>3, <1>4, <1>5 DEF BudgetOK

\* An attempt is made with one left, and only then; what a crash can lose of the count is
\* the attempt that is being made.
LEMMA BudgetStep ==
  ASSUME CoreType, CoreType', DiskType, DiskType', TaskType, Dispatchers, StartsClean,
         Guarded, TimersOK, BudgetOK,
         ~orphaned', ~closed', ~overtaken', [Next]_vars
  PROVE  BudgetOK'
<1> USE BoundsAssumption DEF CoreType, Dispatchers, StartsClean, TaskType, ProcType,
       Places, Firing, Awaiting, retryVars, marks, Launch, Clear, Over,
       EmitsOnLoop, Emitted, Cancelled, New, Idling, LoopFree, Live, Call, Fails
<1>1. CASE TurnSucceeds
  <2>1. resent' = 0 /\ restarts' \in Nat
    BY <1>1 DEF TurnSucceeds, bounds, BudgetOK
  <2> QED BY <2>1, ZeroBudget
<1>2. CASE DoneEmits
  <2>1. /\ UNCHANGED <<resent, restarts, count>> /\ (restoring' => restoring)
        /\ disk' \in {disk, Rec'} \/ (disk' = writing /\ writing # None)
        /\ later' \in {None, later, Rec'} /\ writing' \in {None, writing, later}
    BY <1>2 DEF DoneEmits, SaveSoon, SaveNow, MayFire, diskVars, bounds
  <2>2. \A j \in Tasks : MayFire(j)' => MayFire(j)
    BY <1>2 DEF DoneEmits, MayFire, diskVars, bounds, Guarded, Open, TasksOK
  <2> QED BY <2>1, <2>2, SameBudget
<1>3. CASE FailedArms
  <2>1. CASE count < Max
    <3>1. UNCHANGED <<resent, restarts>> /\ count \in {count, count + 1}
      BY <1>3, <2>1 DEF FailedArms, bounds
    <3>2. Armed(count, {})
      BY <1>3, <2>1, ArmArms DEF FailedArms
    <3> QED BY <1>3, <2>1, <3>1, <3>2, ArmedBudget
  <2>2. CASE ~(count < Max)
    <3>1. UNCHANGED <<resent, restarts, count, disk, later, writing, pc, handle, retryAt,
                      restoring>>
      BY <1>3, <2>2, ArmDrops DEF FailedArms, bounds
    <3>2. \A j \in Tasks : MayFire(j)' => MayFire(j)
      BY <3>1 DEF MayFire
    <3> QED BY <3>1, <3>2, SameBudget
  <2> QED BY <2>1, <2>2
<1>4. CASE FailedEmits
  <2>1. /\ UNCHANGED <<resent, restarts, count>> /\ (restoring' => restoring)
        /\ disk' \in {disk, Rec'} \/ (disk' = writing /\ writing # None)
        /\ later' \in {None, later, Rec'} /\ writing' \in {None, writing, later}
    BY <1>4 DEF FailedEmits, SaveSoon, SaveNow, MayFire, diskVars, bounds
  <2>2. \A j \in Tasks : MayFire(j)' => MayFire(j)
    BY <1>4 DEF FailedEmits, MayFire, diskVars, bounds, Guarded, Open, TasksOK
  <2> QED BY <2>1, <2>2, SameBudget
<1>5. CASE Reconnects
  <2>1. CASE count < Max
    <3>1. UNCHANGED <<resent, restarts>> /\ count \in {count, count + 1}
      BY <1>5, <2>1 DEF Reconnects, Fails, bounds
    <3>2. Armed(count, {})
      BY <1>5, <2>1, ArmingActions
    <3> QED BY <1>5, <2>1, <3>1, <3>2, ArmedBudget
  <2>2. CASE ~(count < Max)
    <3>1. /\ UNCHANGED <<resent, restarts, count>> /\ (restoring' => restoring)
          /\ disk' \in {disk, Rec'} \/ (disk' = writing /\ writing # None)
          /\ later' \in {None, later, Rec'} /\ writing' \in {None, writing, later}
      BY <1>5, <2>2 DEF Reconnects, SaveSoon, SaveNow, MayFire, diskVars, bounds
    <3>2. \A j \in Tasks : MayFire(j)' => MayFire(j)
      BY <1>5, <2>2 DEF Reconnects, MayFire, diskVars, bounds, Guarded, Open, TasksOK
    <3> QED BY <3>1, <3>2, SameBudget
  <2> QED BY <2>1, <2>2
<1>6. CASE Heals
  <2>1. CASE queue > 0 /\ ~retryAt
    <3>1. resent' = 0 /\ restarts' \in Nat
      BY <1>6, <2>1 DEF Heals, bounds, BudgetOK
    <3> QED BY <3>1, ZeroBudget
  <2>2. CASE ~(queue > 0 /\ ~retryAt)
    <3>1. /\ UNCHANGED <<resent, restarts, count>> /\ (restoring' => restoring)
          /\ disk' \in {disk, Rec'} \/ (disk' = writing /\ writing # None)
          /\ later' \in {None, later, Rec'} /\ writing' \in {None, writing, later}
      BY <1>6, <2>2 DEF Heals, SaveSoon, SaveNow, MayFire, diskVars, bounds
    <3>2. \A j \in Tasks : MayFire(j)' => MayFire(j)
      BY <1>6, <2>2 DEF Heals, MayFire, diskVars, bounds, Guarded, Open, TasksOK
    <3> QED BY <3>1, <3>2, SameBudget
  <2> QED BY <2>1, <2>2
<1>7. CASE HealStops
  <2>1. /\ UNCHANGED <<resent, restarts, count>> /\ (restoring' => restoring)
        /\ disk' \in {disk, Rec'} \/ (disk' = writing /\ writing # None)
        /\ later' \in {None, later, Rec'} /\ writing' \in {None, writing, later}
    BY <1>7 DEF HealStops, SaveSoon, SaveNow, MayFire, diskVars, bounds
  <2>2. \A j \in Tasks : MayFire(j)' => MayFire(j)
    BY <1>7 DEF HealStops, MayFire, diskVars, bounds, Guarded, Open, TasksOK
  <2> QED BY <2>1, <2>2, SameBudget
<1>8. CASE TurnFails
  <2>1. /\ UNCHANGED <<resent, restarts, count>> /\ (restoring' => restoring)
        /\ disk' \in {disk, Rec'} \/ (disk' = writing /\ writing # None)
        /\ later' \in {None, later, Rec'} /\ writing' \in {None, writing, later}
    BY <1>8 DEF TurnFails, SaveSoon, SaveNow, MayFire, diskVars, bounds
  <2>2. \A j \in Tasks : MayFire(j)' => MayFire(j)
    BY <1>8 DEF TurnFails, MayFire, diskVars, bounds, Guarded, Open, TasksOK
  <2> QED BY <2>1, <2>2, SameBudget
<1>9. CASE TurnRaises
  <2>1. /\ UNCHANGED <<resent, restarts, count>> /\ (restoring' => restoring)
        /\ disk' \in {disk, Rec'} \/ (disk' = writing /\ writing # None)
        /\ later' \in {None, later, Rec'} /\ writing' \in {None, writing, later}
    BY <1>9 DEF TurnRaises, SaveSoon, SaveNow, MayFire, diskVars, bounds
  <2>2. \A j \in Tasks : MayFire(j)' => MayFire(j)
    BY <1>9 DEF TurnRaises, MayFire, diskVars, bounds, Guarded, Open, TasksOK
  <2> QED BY <2>1, <2>2, SameBudget
<1>10. CASE ReconnectsNot
  <2>1. /\ UNCHANGED <<resent, restarts, count>> /\ (restoring' => restoring)
        /\ disk' \in {disk, Rec'} \/ (disk' = writing /\ writing # None)
        /\ later' \in {None, later, Rec'} /\ writing' \in {None, writing, later}
    BY <1>10 DEF ReconnectsNot, SaveSoon, SaveNow, MayFire, diskVars, bounds
  <2>2. \A j \in Tasks : MayFire(j)' => MayFire(j)
    BY <1>10 DEF ReconnectsNot, MayFire, diskVars, bounds, Guarded, Open, TasksOK
  <2> QED BY <2>1, <2>2, SameBudget
<1>11. CASE TurnDies
  <2>1. /\ UNCHANGED <<resent, restarts, count>> /\ (restoring' => restoring)
        /\ disk' \in {disk, Rec'} \/ (disk' = writing /\ writing # None)
        /\ later' \in {None, later, Rec'} /\ writing' \in {None, writing, later}
    BY <1>11 DEF TurnDies, SaveSoon, SaveNow, MayFire, diskVars, bounds
  <2>2. \A j \in Tasks : MayFire(j)' => MayFire(j)
    BY <1>11 DEF TurnDies, MayFire, diskVars, bounds, Guarded, Open, TasksOK
  <2> QED BY <2>1, <2>2, SameBudget
<1>12. CASE HealFails
  <2>1. CASE count < Max
    <3>1. UNCHANGED <<resent, restarts>> /\ count \in {count, count + 1}
      BY <1>12, <2>1 DEF HealFails, Fails, bounds
    <3>2. Armed(count, {})
      BY <1>12, <2>1, ArmingActions
    <3> QED BY <1>12, <2>1, <3>1, <3>2, ArmedBudget
  <2>2. CASE ~(count < Max)
    <3>1. /\ UNCHANGED <<resent, restarts, count>> /\ (restoring' => restoring)
          /\ disk' \in {disk, Rec'} \/ (disk' = writing /\ writing # None)
          /\ later' \in {None, later, Rec'} /\ writing' \in {None, writing, later}
      BY <1>12, <2>2 DEF HealFails, SaveSoon, SaveNow, MayFire, diskVars, bounds
    <3>2. \A j \in Tasks : MayFire(j)' => MayFire(j)
      BY <1>12, <2>2 DEF HealFails, MayFire, diskVars, bounds, Guarded, Open, TasksOK
    <3> QED BY <3>1, <3>2, SameBudget
  <2> QED BY <2>1, <2>2
<1>13. CASE Closes
  BY <1>13 DEF Closes, Guarded, Open
<1>14. CASE Starts
  <2>1. /\ UNCHANGED <<resent, restarts, count>> /\ (restoring' => restoring)
        /\ disk' \in {disk, Rec'} \/ (disk' = writing /\ writing # None)
        /\ later' \in {None, later, Rec'} /\ writing' \in {None, writing, later}
    BY <1>14 DEF Starts, SaveSoon, SaveNow, MayFire, diskVars, bounds
  <2>2. \A j \in Tasks : MayFire(j)' => MayFire(j)
    BY <1>14 DEF Starts, MayFire, diskVars, bounds, Guarded, Open, TasksOK
  <2> QED BY <2>1, <2>2, SameBudget
<1>15. CASE Restores
  <2>1. /\ restoring /\ ~restoring' /\ UNCHANGED <<resent, restarts, count>>
        /\ disk' \in {disk, Rec'} /\ later' \in {None, later} /\ writing' = writing
    BY <1>15 DEF Restores, SaveNow, diskVars, bounds
  <2>2. \A k \in Tasks : pc[k] = "idle"
    BY <2>1 DEF Guarded, TasksOK
  <2>3. CASE state = "IDLE"
    <3>1. disk' = Rec' /\ later' = None /\ writing' = None
      BY <1>15, <2>3 DEF Restores, SaveNow
    <3>2. /\ resent < Max + restarts /\ resent <= Max + restarts + 0
          /\ resent <= count + restarts + 0 /\ restarts \in Nat
      BY <2>1 DEF BudgetOK, Kept
    <3>3. resent <= count + restarts + 1
      BY <3>2
    <3>4. Rec'.count = count'
      BY DEF Rec
    <3>5. Saved(0)' /\ Saved(1)' /\ Kept(Max, 0)' /\ Kept(count, 0)'
      BY <2>1, <3>1, <3>2, <3>3, <3>4 DEF Saved, Kept
    <3>6. resent' < Max + restarts' /\ restarts' \in Nat
      BY <2>1, <3>2
    <3> QED BY <2>1, <3>5, <3>6 DEF BudgetOK
  <2>4. CASE state # "IDLE"
    <3>1. UNCHANGED pc
      BY <1>15, <2>4 DEF Restores
    <3>2. \A k \in Tasks : ~MayFire(k)'
      BY <2>2, <3>1 DEF MayFire
    <3> QED BY <2>1, <3>2, SameBudget
  <2> QED BY <2>3, <2>4
<1>16. CASE FlushStarts
  <2>1. /\ UNCHANGED <<resent, restarts, count>> /\ (restoring' => restoring)
        /\ disk' \in {disk, Rec'} \/ (disk' = writing /\ writing # None)
        /\ later' \in {None, later, Rec'} /\ writing' \in {None, writing, later}
    BY <1>16 DEF FlushStarts, SaveSoon, SaveNow, MayFire, diskVars, bounds
  <2>2. \A j \in Tasks : MayFire(j)' => MayFire(j)
    BY <1>16 DEF FlushStarts, MayFire, diskVars, bounds, Guarded, Open, TasksOK
  <2> QED BY <2>1, <2>2, SameBudget
<1>17. CASE FlushEnds
  <2>1. /\ UNCHANGED <<resent, restarts, count>> /\ (restoring' => restoring)
        /\ disk' \in {disk, Rec'} \/ (disk' = writing /\ writing # None)
        /\ later' \in {None, later, Rec'} /\ writing' \in {None, writing, later}
    BY <1>17 DEF FlushEnds, SaveSoon, SaveNow, MayFire, diskVars, bounds
  <2>2. \A j \in Tasks : MayFire(j)' => MayFire(j)
    BY <1>17 DEF FlushEnds, MayFire, diskVars, bounds, Guarded, Open, TasksOK
  <2> QED BY <2>1, <2>2, SameBudget
<1>18. CASE Restart
  <2>1. PICK rec \in {disk, Rec} :
          /\ disk' = rec /\ count' = rec.count /\ later' = None /\ writing' = None
          /\ resent' = resent /\ restarts' = restarts + 1
          /\ \A k \in Tasks : pc'[k] = "idle"
    BY <1>18 DEF Restart
  <2>2. resent <= rec.count + restarts + 1
    <3>1. resent <= disk.count + restarts + 1
      BY DEF BudgetOK, Saved, Kept
    <3>2. resent <= Rec.count + restarts + 1
      <4>1. resent <= count + restarts + 0 /\ Rec.count = count /\ restarts \in Nat
        BY DEF BudgetOK, Kept, Rec
      <4> QED BY <4>1
    <3> QED BY <3>1, <3>2
  <2>3. /\ resent <= Max + restarts /\ Max \in Nat /\ resent \in Nat
        /\ rec.count \in Nat /\ restarts \in Nat
    BY DEF BudgetOK, Kept, DiskType, Records, Rec
  <2>4. /\ resent' <= Max + restarts' + 0 /\ resent' < Max + restarts'
        /\ resent' <= rec.count + restarts' + 0 /\ resent' <= rec.count + restarts' + 1
        /\ restarts' \in Nat
    BY <2>1, <2>2, <2>3
  <2>5. Kept(Max, 0)' /\ Kept(count, 0)' /\ Saved(1)'
    BY <2>1, <2>4 DEF Saved, Kept
  <2>6. \A k \in Tasks : ~MayFire(k)'
    BY <2>1 DEF MayFire
  <2> QED BY <2>4, <2>5, <2>6 DEF BudgetOK
<1>19. ASSUME NEW r \in Requests, CancelSets(r) PROVE BudgetOK'
  <2>1. /\ UNCHANGED <<resent, restarts, count>> /\ (restoring' => restoring)
        /\ disk' \in {disk, Rec'} \/ (disk' = writing /\ writing # None)
        /\ later' \in {None, later, Rec'} /\ writing' \in {None, writing, later}
    BY <1>19 DEF CancelSets, SaveSoon, SaveNow, MayFire, diskVars, bounds
  <2>2. \A j \in Tasks : MayFire(j)' => MayFire(j)
    BY <1>19 DEF CancelSets, MayFire, diskVars, bounds, Guarded, Open, TasksOK
  <2> QED BY <2>1, <2>2, SameBudget
<1>20. ASSUME NEW r \in Requests, Send(r) PROVE BudgetOK'
  <2>1. CASE state = "IDLE"
    <3>1. resent' = 0 /\ restarts' \in Nat
      BY <1>20, <2>1 DEF Send, bounds, BudgetOK
    <3> QED BY <3>1, ZeroBudget
  <2>2. CASE ~(state = "IDLE")
    <3>1. /\ UNCHANGED <<resent, restarts, count>> /\ (restoring' => restoring)
          /\ disk' \in {disk, Rec'} \/ (disk' = writing /\ writing # None)
          /\ later' \in {None, later, Rec'} /\ writing' \in {None, writing, later}
      BY <1>20, <2>2 DEF Send, SaveSoon, SaveNow, MayFire, diskVars, bounds
    <3>2. \A j \in Tasks : MayFire(j)' => MayFire(j)
      BY <1>20, <2>2 DEF Send, MayFire, diskVars, bounds, Guarded, Open, TasksOK
    <3> QED BY <3>1, <3>2, SameBudget
  <2> QED BY <2>1, <2>2
<1>21. ASSUME NEW r \in Requests, Queue(r) PROVE BudgetOK'
  <2>1. /\ UNCHANGED <<resent, restarts, count>> /\ (restoring' => restoring)
        /\ disk' \in {disk, Rec'} \/ (disk' = writing /\ writing # None)
        /\ later' \in {None, later, Rec'} /\ writing' \in {None, writing, later}
    BY <1>21 DEF Queue, SaveSoon, SaveNow, MayFire, diskVars, bounds
  <2>2. \A j \in Tasks : MayFire(j)' => MayFire(j)
    BY <1>21 DEF Queue, MayFire, diskVars, bounds, Guarded, Open, TasksOK
  <2> QED BY <2>1, <2>2, SameBudget
<1>22. ASSUME NEW r \in Requests, Reemit(r) PROVE BudgetOK'
  <2>1. /\ UNCHANGED <<resent, restarts, count>> /\ (restoring' => restoring)
        /\ disk' \in {disk, Rec'} \/ (disk' = writing /\ writing # None)
        /\ later' \in {None, later, Rec'} /\ writing' \in {None, writing, later}
    BY <1>22 DEF Reemit, SaveSoon, SaveNow, MayFire, diskVars, bounds
  <2>2. \A j \in Tasks : MayFire(j)' => MayFire(j)
    BY <1>22 DEF Reemit, MayFire, diskVars, bounds, Guarded, Open, TasksOK
  <2> QED BY <2>1, <2>2, SameBudget
<1>23. ASSUME NEW r \in Requests, Cancel(r) PROVE BudgetOK'
  <2>1. resent' = 0 /\ restarts' \in Nat
    BY <1>23 DEF Cancel, bounds, BudgetOK
  <2> QED BY <2>1, ZeroBudget
<1>24. ASSUME NEW r \in Requests, RetryNow(r) PROVE BudgetOK'
  <2>1. resent' = 0 /\ restarts' \in Nat
    BY <1>24 DEF RetryNow, bounds, BudgetOK
  <2> QED BY <2>1, ZeroBudget
<1>25. ASSUME NEW r \in Requests, Interrupt(r) PROVE BudgetOK'
  <2>1. resent' = 0 /\ restarts' \in Nat
    BY <1>25 DEF Interrupt, bounds, BudgetOK
  <2> QED BY <2>1, ZeroBudget
<1>26. ASSUME NEW r \in Requests, Close(r) PROVE BudgetOK'
  <2>1. resent' = 0 /\ restarts' \in Nat
    BY <1>26 DEF Close, bounds, BudgetOK
  <2> QED BY <2>1, ZeroBudget
<1>27. ASSUME NEW p \in Requests \cup Tasks, FireBegins(p) PROVE BudgetOK'
  <2>1. CASE p \in Requests
    <3>1. resent' = 0 /\ restarts' \in Nat
      BY <1>27, <2>1 DEF FireBegins, bounds, BudgetOK
    <3> QED BY <3>1, ZeroBudget
  <2>2. CASE ~(p \in Requests)
    <3>1. /\ p \in Tasks /\ pc[p] = "fire" /\ handle \in {None, p} /\ handle' = None
          /\ resent' = resent + 1 /\ count' = count + 1
          /\ pc' = [pc EXCEPT ![p] = "resend"]
          /\ UNCHANGED <<disk, later, writing, restarts, restoring>>
      BY <1>27, <2>2 DEF FireBegins, diskVars, bounds
    <3>2. MayFire(p)
      BY <3>1 DEF MayFire
    <3>3. /\ resent < Max + restarts /\ Saved(0) /\ resent <= count + restarts + 0
          /\ restarts \in Nat
      BY <3>1, <3>2 DEF BudgetOK, Kept
    <3>4. Kept(Max, 0)' /\ Kept(count, 0)' /\ restarts' \in Nat
      <4>1. resent' <= Max + restarts' + 0 /\ resent' <= count' + restarts' + 0
        BY <3>1, <3>3
      <4> QED BY <3>1, <3>3, <4>1 DEF Kept
    <3>5. Saved(1)'
      <4>1. resent + 1 <= disk.count + restarts + 1
        <5>1. resent <= disk.count + restarts + 0 /\ disk.count \in Nat
          BY <3>3 DEF Saved, Kept, DiskType, Records
        <5> QED BY <3>3, <5>1
      <4>2. ASSUME later # None PROVE resent + 1 <= later.count + restarts + 1
        <5>1. resent <= later.count + restarts + 0 /\ later.count \in Nat
          BY <3>3, <4>2 DEF Saved, Kept, DiskType, Records
        <5> QED BY <3>3, <5>1
      <4>3. ASSUME writing # None PROVE resent + 1 <= writing.count + restarts + 1
        <5>1. resent <= writing.count + restarts + 0 /\ writing.count \in Nat
          BY <3>3, <4>3 DEF Saved, Kept, DiskType, Records
        <5> QED BY <3>3, <5>1
      <4> QED BY <3>1, <4>1, <4>2, <4>3 DEF Saved, Kept
    <3>6. \A k \in Tasks : ~MayFire(k)'
      <4>1. pc'[p] = "resend" /\ \A k \in Tasks \ {p} : pc'[k] = pc[k]
        BY <3>1
      <4>2. \A k \in Tasks \ {p} : pc[k] \notin {"reconnect", "fire"}
        BY <3>1 DEF Guarded, TasksOK, TimersOK
      <4> QED BY <3>1, <4>1, <4>2 DEF MayFire
    <3>7. ~restoring
      BY <3>1 DEF Guarded, TasksOK
    <3> QED BY <3>1, <3>4, <3>5, <3>6, <3>7 DEF BudgetOK
  <2> QED BY <2>1, <2>2
<1>28. ASSUME NEW p \in Requests \cup Tasks, FireSends(p) PROVE BudgetOK'
  <2>1. /\ UNCHANGED <<resent, restarts, count>> /\ (restoring' => restoring)
        /\ disk' \in {disk, Rec'} \/ (disk' = writing /\ writing # None)
        /\ later' \in {None, later, Rec'} /\ writing' \in {None, writing, later}
    BY <1>28 DEF FireSends, SaveSoon, SaveNow, MayFire, diskVars, bounds
  <2>2. \A j \in Tasks : MayFire(j)' => MayFire(j)
    BY <1>28 DEF FireSends, MayFire, diskVars, bounds, Guarded, Open, TasksOK, TimersOK
  <2> QED BY <2>1, <2>2, SameBudget
<1>29. ASSUME NEW p \in Requests \cup Tasks, FireEnds(p) PROVE BudgetOK'
  <2>1. /\ UNCHANGED <<resent, restarts, count>> /\ (restoring' => restoring)
        /\ disk' \in {disk, Rec'} \/ (disk' = writing /\ writing # None)
        /\ later' \in {None, later, Rec'} /\ writing' \in {None, writing, later}
    BY <1>29 DEF FireEnds, SaveSoon, SaveNow, MayFire, diskVars, bounds
  <2>2. \A j \in Tasks : MayFire(j)' => MayFire(j)
    BY <1>29 DEF FireEnds, MayFire, diskVars, bounds, Guarded, Open, TasksOK, TimersOK
  <2> QED BY <2>1, <2>2, SameBudget
<1>30. ASSUME NEW p \in Requests \cup Tasks, FireRefused(p) PROVE BudgetOK'
  BY <1>30 DEF FireRefused, Guarded, Open
<1>31. ASSUME NEW p \in Requests \cup {Loop}, Dispatch(p) PROVE BudgetOK'
  <2>1. CASE state = "IDLE" /\ queue > 0
    <3>1. resent' = 0 /\ restarts' \in Nat
      BY <1>31, <2>1 DEF Dispatch, bounds, BudgetOK
    <3> QED BY <3>1, ZeroBudget
  <2>2. CASE ~(state = "IDLE" /\ queue > 0)
    <3>1. /\ UNCHANGED <<resent, restarts, count>> /\ (restoring' => restoring)
          /\ disk' \in {disk, Rec'} \/ (disk' = writing /\ writing # None)
          /\ later' \in {None, later, Rec'} /\ writing' \in {None, writing, later}
      BY <1>31, <2>2 DEF Dispatch, SaveSoon, SaveNow, MayFire, diskVars, bounds
    <3>2. \A j \in Tasks : MayFire(j)' => MayFire(j)
      BY <1>31, <2>2 DEF Dispatch, MayFire, diskVars, bounds, Guarded, Open, TasksOK
    <3> QED BY <3>1, <3>2, SameBudget
  <2> QED BY <2>1, <2>2
<1>32. ASSUME NEW k \in Tasks, TaskDies(k) PROVE BudgetOK'
  <2>1. /\ UNCHANGED <<resent, restarts, count>> /\ (restoring' => restoring)
        /\ disk' \in {disk, Rec'} \/ (disk' = writing /\ writing # None)
        /\ later' \in {None, later, Rec'} /\ writing' \in {None, writing, later}
    BY <1>32 DEF TaskDies, SaveSoon, SaveNow, MayFire, diskVars, bounds
  <2>2. \A j \in Tasks : MayFire(j)' => MayFire(j)
    BY <1>32 DEF TaskDies, MayFire, diskVars, bounds, Guarded, Open, TasksOK, TimersOK
  <2> QED BY <2>1, <2>2, SameBudget
<1>33. ASSUME NEW k \in Tasks, Wakes(k) PROVE BudgetOK'
  <2>1. /\ UNCHANGED <<resent, restarts, count>> /\ (restoring' => restoring)
        /\ disk' \in {disk, Rec'} \/ (disk' = writing /\ writing # None)
        /\ later' \in {None, later, Rec'} /\ writing' \in {None, writing, later}
    BY <1>33 DEF Wakes, SaveSoon, SaveNow, MayFire, diskVars, bounds
  <2>2. ASSUME NEW j \in Tasks, MayFire(j)' PROVE MayFire(j)
    <3>1. CASE retryAt /\ state = "IDLE"
      <4>1. UNCHANGED <<handle, retryAt>> /\ pc[k] = "sleep"
            /\ \A i \in Tasks : pc[i] \notin {"resend", "settle"}
        BY <1>33, <3>1 DEF Wakes
      <4>2. \A i \in Tasks \ {k} : pc'[i] = pc[i]
        BY <1>33, <3>1 DEF Wakes
      <4> QED BY <2>2, <3>1, <4>1, <4>2 DEF MayFire
    <3>2. CASE ~(retryAt /\ state = "IDLE")
      <4>1. /\ pc[k] = "sleep" /\ pc' = [pc EXCEPT ![k] = "idle"] /\ doomed \subseteq {k}
            /\ handle' = (IF handle = k THEN None ELSE handle) /\ UNCHANGED retryAt
            /\ \A i \in Tasks : pc[i] \notin Firing
        BY <1>33, <3>2 DEF Wakes
      <4>2. j # k /\ pc'[j] = pc[j]
        BY <2>2, <4>1 DEF MayFire
      <4>3. handle = j
        BY <2>2, <4>1, <4>2 DEF MayFire, TimersOK, Guarded, TasksOK
      <4> QED BY <2>2, <4>1, <4>2, <4>3 DEF MayFire
    <3> QED BY <3>1, <3>2
  <2> QED BY <2>1, <2>2, SameBudget
<1>34. ASSUME NEW k \in Tasks, Redialled(k) PROVE BudgetOK'
  <2>1. /\ UNCHANGED <<resent, restarts, count>> /\ (restoring' => restoring)
        /\ disk' \in {disk, Rec'} \/ (disk' = writing /\ writing # None)
        /\ later' \in {None, later, Rec'} /\ writing' \in {None, writing, later}
    BY <1>34 DEF Redialled, SaveSoon, SaveNow, MayFire, Guarded, TasksOK, diskVars, bounds
  <2>2. \A j \in Tasks : MayFire(j)' => MayFire(j)
    BY <1>34 DEF Redialled, MayFire, diskVars, bounds, Guarded, Open, TasksOK, TimersOK
  <2> QED BY <2>1, <2>2, SameBudget
<1>35. ASSUME NEW k \in Tasks, ReconnectFails(k) PROVE BudgetOK'
  <2>1. CASE count + 1 < Max
    <3>1. UNCHANGED <<resent, restarts>> /\ count + 1 \in {count, count + 1}
      BY <1>35, <2>1 DEF ReconnectFails, Fails, bounds
    <3>2. Armed(count + 1, {k})
      BY <1>35, <2>1, ArmingActions
    <3> QED BY <1>35, <2>1, <3>1, <3>2, ArmedBudget
  <2>2. CASE ~(count + 1 < Max)
    <3>1. resent' = 0 /\ restarts' \in Nat
      BY <1>35, <2>2 DEF ReconnectFails, bounds, BudgetOK
    <3> QED BY <3>1, ZeroBudget
  <2> QED BY <2>1, <2>2
<1>36. ASSUME NEW k \in Tasks, RedialFails(k) PROVE BudgetOK'
  BY <1>36 DEF RedialFails, Guarded, TasksOK
<1>37. CASE UNCHANGED vars
  <2>1. /\ UNCHANGED <<resent, restarts, count>> /\ (restoring' => restoring)
        /\ disk' \in {disk, Rec'} \/ (disk' = writing /\ writing # None)
        /\ later' \in {None, later, Rec'} /\ writing' \in {None, writing, later}
    BY <1>37 DEF vars, SaveSoon, SaveNow, MayFire, diskVars, bounds
  <2>2. \A j \in Tasks : MayFire(j)' => MayFire(j)
    BY <1>37 DEF vars, MayFire, diskVars, bounds, Guarded, Open, TasksOK
  <2> QED BY <2>1, <2>2, SameBudget
<1> HIDE BoundsAssumption DEF CoreType, Dispatchers, StartsClean, TaskType, ProcType,
       Places, Firing, Awaiting, retryVars, marks, Launch, Clear, Over,
       EmitsOnLoop, Emitted, Cancelled, New, Idling, LoopFree, Live, Call, Fails
<1> QED
  BY <1>1, <1>2, <1>3, <1>4, <1>5, <1>6, <1>7, <1>8, <1>9, <1>10, <1>11, <1>12,
     <1>13, <1>14, <1>15, <1>16, <1>17, <1>18, <1>19, <1>20, <1>21, <1>22, <1>23,
     <1>24, <1>25, <1>26, <1>27, <1>28, <1>29, <1>30, <1>31, <1>32, <1>33, <1>34,
     <1>35, <1>36, <1>37
     DEF Next, Goes, Turn, Failure, Fire, Task, Command, Engine

\* A save that came too late stays so.
LEMMA OvertakenStays ==
  ASSUME DiskType, [Next]_vars
  PROVE  overtaken => overtaken'
<1> USE BoundsAssumption DEF diskVars, Call, Fails, Launch, Arm, SaveNow, SaveSoon, SaveClear
<1>1. CASE TurnSucceeds
  BY <1>1 DEF TurnSucceeds
<1>2. CASE DoneEmits
  BY <1>2 DEF DoneEmits
<1>3. CASE FailedArms
  BY <1>3 DEF FailedArms
<1>4. CASE FailedEmits
  BY <1>4 DEF FailedEmits
<1>5. CASE Reconnects
  BY <1>5 DEF Reconnects
<1>6. CASE Heals
  BY <1>6 DEF Heals
<1>7. CASE HealStops
  BY <1>7 DEF HealStops
<1>8. CASE TurnFails
  BY <1>8 DEF TurnFails
<1>9. CASE TurnRaises
  BY <1>9 DEF TurnRaises
<1>10. CASE ReconnectsNot
  BY <1>10 DEF ReconnectsNot
<1>11. CASE TurnDies
  BY <1>11 DEF TurnDies
<1>12. CASE HealFails
  BY <1>12 DEF HealFails
<1>13. CASE Closes
  BY <1>13 DEF Closes
<1>14. CASE Starts
  BY <1>14 DEF Starts
<1>15. CASE Restores
  BY <1>15 DEF Restores
<1>16. CASE FlushStarts
  BY <1>16 DEF FlushStarts
<1>17. CASE FlushEnds
  BY <1>17 DEF FlushEnds
<1>18. CASE Restart
  BY <1>18 DEF Restart
<1>19. ASSUME NEW r \in Requests, CancelSets(r) PROVE overtaken => overtaken'
  BY <1>19 DEF CancelSets
<1>20. ASSUME NEW r \in Requests, Send(r) PROVE overtaken => overtaken'
  BY <1>20 DEF Send
<1>21. ASSUME NEW r \in Requests, Queue(r) PROVE overtaken => overtaken'
  BY <1>21 DEF Queue
<1>22. ASSUME NEW r \in Requests, Reemit(r) PROVE overtaken => overtaken'
  BY <1>22 DEF Reemit
<1>23. ASSUME NEW r \in Requests, Cancel(r) PROVE overtaken => overtaken'
  BY <1>23 DEF Cancel
<1>24. ASSUME NEW r \in Requests, RetryNow(r) PROVE overtaken => overtaken'
  BY <1>24 DEF RetryNow
<1>25. ASSUME NEW r \in Requests, Interrupt(r) PROVE overtaken => overtaken'
  BY <1>25 DEF Interrupt
<1>26. ASSUME NEW r \in Requests, Close(r) PROVE overtaken => overtaken'
  BY <1>26 DEF Close
<1>27. ASSUME NEW p \in Requests \cup Tasks, FireBegins(p) PROVE overtaken => overtaken'
  BY <1>27 DEF FireBegins
<1>28. ASSUME NEW p \in Requests \cup Tasks, FireSends(p) PROVE overtaken => overtaken'
  BY <1>28 DEF FireSends
<1>29. ASSUME NEW p \in Requests \cup Tasks, FireEnds(p) PROVE overtaken => overtaken'
  BY <1>29 DEF FireEnds
<1>30. ASSUME NEW p \in Requests \cup Tasks, FireRefused(p) PROVE overtaken => overtaken'
  BY <1>30 DEF FireRefused
<1>31. ASSUME NEW p \in Requests \cup {Loop}, Dispatch(p) PROVE overtaken => overtaken'
  BY <1>31 DEF Dispatch
<1>32. ASSUME NEW k \in Tasks, TaskDies(k) PROVE overtaken => overtaken'
  BY <1>32 DEF TaskDies
<1>33. ASSUME NEW k \in Tasks, Wakes(k) PROVE overtaken => overtaken'
  BY <1>33 DEF Wakes
<1>34. ASSUME NEW k \in Tasks, Redialled(k) PROVE overtaken => overtaken'
  BY <1>34 DEF Redialled
<1>35. ASSUME NEW k \in Tasks, ReconnectFails(k) PROVE overtaken => overtaken'
  BY <1>35 DEF ReconnectFails
<1>36. ASSUME NEW k \in Tasks, RedialFails(k) PROVE overtaken => overtaken'
  BY <1>36 DEF RedialFails
<1>37. CASE UNCHANGED vars
  BY <1>37 DEF vars
<1> HIDE BoundsAssumption DEF diskVars, Call, Fails, Launch, Arm, SaveNow, SaveSoon, SaveClear
<1> QED
  BY <1>1, <1>2, <1>3, <1>4, <1>5, <1>6, <1>7, <1>8, <1>9, <1>10, <1>11, <1>12,
     <1>13, <1>14, <1>15, <1>16, <1>17, <1>18, <1>19, <1>20, <1>21, <1>22, <1>23,
     <1>24, <1>25, <1>26, <1>27, <1>28, <1>29, <1>30, <1>31, <1>32, <1>33, <1>34,
     <1>35, <1>36, <1>37
     DEF Next, Goes, Turn, Failure, Fire, Task, Command, Engine

-----------------------------------------------------------------------------
(* The durable record.                                                     *)

\* A turn that has failed is not working any more.
LEMMA FailedIdleStep ==
  ASSUME FailedIdle, [Next]_vars
  PROVE  FailedIdle'
<1> USE BoundsAssumption DEF FailedIdle, Call, Fails, Launch, Arm, retryVars
<1>1. CASE TurnSucceeds
  BY <1>1 DEF TurnSucceeds
<1>2. CASE DoneEmits
  BY <1>2 DEF DoneEmits
<1>3. CASE FailedArms
  BY <1>3 DEF FailedArms
<1>4. CASE FailedEmits
  BY <1>4 DEF FailedEmits
<1>5. CASE Reconnects
  BY <1>5 DEF Reconnects
<1>6. CASE Heals
  BY <1>6 DEF Heals
<1>7. CASE HealStops
  BY <1>7 DEF HealStops
<1>8. CASE TurnFails
  BY <1>8 DEF TurnFails
<1>9. CASE TurnRaises
  BY <1>9 DEF TurnRaises
<1>10. CASE ReconnectsNot
  BY <1>10 DEF ReconnectsNot
<1>11. CASE TurnDies
  BY <1>11 DEF TurnDies
<1>12. CASE HealFails
  BY <1>12 DEF HealFails
<1>13. CASE Closes
  BY <1>13 DEF Closes
<1>14. CASE Starts
  BY <1>14 DEF Starts
<1>15. CASE Restores
  BY <1>15 DEF Restores
<1>16. CASE FlushStarts
  BY <1>16 DEF FlushStarts
<1>17. CASE FlushEnds
  BY <1>17 DEF FlushEnds
<1>18. CASE Restart
  BY <1>18 DEF Restart
<1>19. ASSUME NEW r \in Requests, CancelSets(r) PROVE FailedIdle'
  BY <1>19 DEF CancelSets
<1>20. ASSUME NEW r \in Requests, Send(r) PROVE FailedIdle'
  BY <1>20 DEF Send
<1>21. ASSUME NEW r \in Requests, Queue(r) PROVE FailedIdle'
  BY <1>21 DEF Queue
<1>22. ASSUME NEW r \in Requests, Reemit(r) PROVE FailedIdle'
  BY <1>22 DEF Reemit
<1>23. ASSUME NEW r \in Requests, Cancel(r) PROVE FailedIdle'
  BY <1>23 DEF Cancel
<1>24. ASSUME NEW r \in Requests, RetryNow(r) PROVE FailedIdle'
  BY <1>24 DEF RetryNow
<1>25. ASSUME NEW r \in Requests, Interrupt(r) PROVE FailedIdle'
  BY <1>25 DEF Interrupt
<1>26. ASSUME NEW r \in Requests, Close(r) PROVE FailedIdle'
  BY <1>26 DEF Close
<1>27. ASSUME NEW p \in Requests \cup Tasks, FireBegins(p) PROVE FailedIdle'
  BY <1>27 DEF FireBegins
<1>28. ASSUME NEW p \in Requests \cup Tasks, FireSends(p) PROVE FailedIdle'
  BY <1>28 DEF FireSends
<1>29. ASSUME NEW p \in Requests \cup Tasks, FireEnds(p) PROVE FailedIdle'
  BY <1>29 DEF FireEnds
<1>30. ASSUME NEW p \in Requests \cup Tasks, FireRefused(p) PROVE FailedIdle'
  BY <1>30 DEF FireRefused
<1>31. ASSUME NEW p \in Requests \cup {Loop}, Dispatch(p) PROVE FailedIdle'
  BY <1>31 DEF Dispatch
<1>32. ASSUME NEW k \in Tasks, TaskDies(k) PROVE FailedIdle'
  BY <1>32 DEF TaskDies
<1>33. ASSUME NEW k \in Tasks, Wakes(k) PROVE FailedIdle'
  BY <1>33 DEF Wakes
<1>34. ASSUME NEW k \in Tasks, Redialled(k) PROVE FailedIdle'
  BY <1>34 DEF Redialled
<1>35. ASSUME NEW k \in Tasks, ReconnectFails(k) PROVE FailedIdle'
  BY <1>35 DEF ReconnectFails
<1>36. ASSUME NEW k \in Tasks, RedialFails(k) PROVE FailedIdle'
  BY <1>36 DEF RedialFails
<1>37. CASE UNCHANGED vars
  BY <1>37 DEF vars
<1> HIDE BoundsAssumption DEF FailedIdle, Call, Fails, Launch, Arm, retryVars
<1> QED
  BY <1>1, <1>2, <1>3, <1>4, <1>5, <1>6, <1>7, <1>8, <1>9, <1>10, <1>11, <1>12,
     <1>13, <1>14, <1>15, <1>16, <1>17, <1>18, <1>19, <1>20, <1>21, <1>22, <1>23,
     <1>24, <1>25, <1>26, <1>27, <1>28, <1>29, <1>30, <1>31, <1>32, <1>33, <1>34,
     <1>35, <1>36, <1>37
     DEF Next, Goes, Turn, Failure, Fire, Task, Command, Engine

\* Only a resend in progress uses the budget up over a turn that has failed.
LEMMA OverrunStep ==
  ASSUME CoreType, TaskType, Dispatchers, FailedIdle, Overrun, [Next]_vars
  PROVE  Overrun'
<1> USE BoundsAssumption DEF CoreType, Dispatchers, FailedIdle, TaskType, ProcType,
       Places, Firing, retryVars, marks, Launch, Clear, Over, EmitsOnLoop, Emitted, New,
       Idling, LoopFree, Call, Fails
<1>1. CASE TurnSucceeds
  BY <1>1 DEF TurnSucceeds, Overrun
<1>2. CASE DoneEmits
  BY <1>2 DEF DoneEmits, Overrun
<1>3. CASE FailedArms
  BY <1>3 DEF FailedArms, Overrun
<1>4. CASE FailedEmits
  BY <1>4 DEF FailedEmits, Overrun
<1>5. CASE Reconnects
  BY <1>5 DEF Reconnects, Overrun
<1>6. CASE Heals
  BY <1>6 DEF Heals, Overrun
<1>7. CASE HealStops
  BY <1>7 DEF HealStops, Overrun
<1>8. CASE TurnFails
  BY <1>8 DEF TurnFails, Overrun
<1>9. CASE TurnRaises
  BY <1>9 DEF TurnRaises, Overrun
<1>10. CASE ReconnectsNot
  BY <1>10 DEF ReconnectsNot, Overrun
<1>11. CASE TurnDies
  BY <1>11 DEF TurnDies, Overrun
<1>12. CASE HealFails
  BY <1>12 DEF HealFails, Overrun
<1>13. CASE Closes
  BY <1>13 DEF Closes, Overrun
<1>14. CASE Starts
  BY <1>14 DEF Starts, Overrun
<1>15. CASE Restores
  BY <1>15 DEF Restores, Overrun
<1>16. CASE FlushStarts
  BY <1>16 DEF FlushStarts, Overrun
<1>17. CASE FlushEnds
  BY <1>17 DEF FlushEnds, Overrun
<1>18. CASE Restart
  BY <1>18 DEF Restart, Overrun
<1>19. ASSUME NEW r \in Requests, CancelSets(r) PROVE Overrun'
  BY <1>19 DEF CancelSets, Overrun
<1>20. ASSUME NEW r \in Requests, Send(r) PROVE Overrun'
  BY <1>20 DEF Send, Overrun
<1>21. ASSUME NEW r \in Requests, Queue(r) PROVE Overrun'
  BY <1>21 DEF Queue, Overrun
<1>22. ASSUME NEW r \in Requests, Reemit(r) PROVE Overrun'
  BY <1>22 DEF Reemit, Overrun
<1>23. ASSUME NEW r \in Requests, Cancel(r) PROVE Overrun'
  BY <1>23 DEF Cancel, Overrun
<1>24. ASSUME NEW r \in Requests, RetryNow(r) PROVE Overrun'
  BY <1>24 DEF RetryNow, Overrun
<1>25. ASSUME NEW r \in Requests, Interrupt(r) PROVE Overrun'
  BY <1>25 DEF Interrupt, Overrun
<1>26. ASSUME NEW r \in Requests, Close(r) PROVE Overrun'
  BY <1>26 DEF Close, Overrun
<1>27. ASSUME NEW p \in Requests \cup Tasks, FireBegins(p) PROVE Overrun'
  BY <1>27 DEF FireBegins, Overrun
<1>28. ASSUME NEW p \in Requests \cup Tasks, FireSends(p) PROVE Overrun'
  BY <1>28 DEF FireSends, Overrun
<1>29. ASSUME NEW p \in Requests \cup Tasks, FireEnds(p) PROVE Overrun'
  BY <1>29 DEF FireEnds, Overrun
<1>30. ASSUME NEW p \in Requests \cup Tasks, FireRefused(p) PROVE Overrun'
  <2>1. SUFFICES ASSUME turn = "failed" PROVE Overrun'
    BY <1>30 DEF FireRefused, Overrun
  <2>2. state \notin {"WORKING", "STARTING"}
    BY <2>1
  <2>3. CASE count < Max
    BY <1>30, <2>2, <2>3 DEF FireRefused, Arm, Overrun
  <2>4. CASE ~(count < Max)
    <3>1. count' = 0
      BY <1>30, <2>2, <2>4 DEF FireRefused
    <3> QED BY <3>1, BoundsAssumption DEF Overrun
  <2> QED BY <2>3, <2>4
<1>31. ASSUME NEW p \in Requests \cup {Loop}, Dispatch(p) PROVE Overrun'
  BY <1>31 DEF Dispatch, Overrun
<1>32. ASSUME NEW k \in Tasks, TaskDies(k) PROVE Overrun'
  BY <1>32 DEF TaskDies, Overrun
<1>33. ASSUME NEW k \in Tasks, Wakes(k) PROVE Overrun'
  BY <1>33 DEF Wakes, Overrun
<1>34. ASSUME NEW k \in Tasks, Redialled(k) PROVE Overrun'
  BY <1>34 DEF Redialled, Overrun
<1>35. ASSUME NEW k \in Tasks, ReconnectFails(k) PROVE Overrun'
  BY <1>35 DEF ReconnectFails, Arm, Overrun
<1>36. ASSUME NEW k \in Tasks, RedialFails(k) PROVE Overrun'
  BY <1>36 DEF RedialFails, Overrun
<1>37. CASE UNCHANGED vars
  BY <1>37 DEF vars, Overrun
<1> HIDE BoundsAssumption DEF CoreType, Dispatchers, FailedIdle, TaskType, ProcType,
       Places, Firing, retryVars, marks, Launch, Clear, Over, EmitsOnLoop, Emitted, New,
       Idling, LoopFree, Call, Fails
<1> QED
  BY <1>1, <1>2, <1>3, <1>4, <1>5, <1>6, <1>7, <1>8, <1>9, <1>10, <1>11, <1>12,
     <1>13, <1>14, <1>15, <1>16, <1>17, <1>18, <1>19, <1>20, <1>21, <1>22, <1>23,
     <1>24, <1>25, <1>26, <1>27, <1>28, <1>29, <1>30, <1>31, <1>32, <1>33, <1>34,
     <1>35, <1>36, <1>37
     DEF Next, Goes, Turn, Failure, Fire, Task, Command, Engine

\* What is saved last is what is on the disk, or is going to be.
LEMMA SaysNow ==
  ASSUME Rec' \in Records, ~overtaken'
  PROVE  /\ SaveNow => Latest'.at = retryAt'
         /\ SaveSoon => Latest'.at = retryAt'
         /\ SaveClear => Latest'.at = retryAt'
<1>1. Rec'.at = retryAt' /\ Rec' # None
  BY NoRecord DEF Rec
<1>2. SaveNow => disk' = Rec' /\ later' = None /\ writing' = None
  BY DEF SaveNow
<1>3. SaveSoon \/ SaveClear => later' = Rec'
  BY DEF SaveSoon, SaveClear
<1> QED BY <1>1, <1>2, <1>3 DEF Latest

\* Whoever changes the countdown saves it, at once or by the time the session rests.
LEMMA ToldStep ==
  ASSUME CoreType, FlagType, DiskType, TaskType, Dispatchers, FailedIdle, Overrun, Told,
         Rec' \in Records, [Next]_vars
  PROVE  Told'
<1> USE BoundsAssumption DEF CoreType, Dispatchers, FailedIdle, TaskType, ProcType,
       Places, Firing, retryVars, diskVars, marks, Clear, Over, EmitsOnLoop,
       Emitted, New, Idling, LoopFree, Call, Fails
<1>1. CASE TurnSucceeds
  BY <1>1, SaysNow DEF TurnSucceeds, Told, Latest, Launch, Arm
<1>2. CASE DoneEmits
  BY <1>2, SaysNow DEF DoneEmits, Told, Latest, Launch, Arm
<1>3. CASE FailedArms
  <2>1. CASE count < Max
    BY <1>3, <2>1, SaysNow DEF FailedArms, Told, Arm
  <2>2. CASE ~(count < Max)
    <3>1. UNCHANGED pc
      BY <1>3, <2>2, ArmDrops DEF FailedArms
    <3>2. \E p \in Requests \cup Tasks : pc[p] \in {"resend", "refused"}
      BY <1>3, <2>2 DEF FailedArms, Overrun
    <3> QED BY <3>1, <3>2 DEF Told
  <2> QED BY <2>1, <2>2
<1>4. CASE FailedEmits
  BY <1>4, SaysNow DEF FailedEmits, Told, Latest, Launch, Arm
<1>5. CASE Reconnects
  BY <1>5, SaysNow DEF Reconnects, Told, Latest, Launch, Arm
<1>6. CASE Heals
  BY <1>6, SaysNow DEF Heals, Told, Latest, Launch, Arm
<1>7. CASE HealStops
  BY <1>7, SaysNow DEF HealStops, Told, Latest, Launch, Arm
<1>8. CASE TurnFails
  BY <1>8, SaysNow DEF TurnFails, Told, Latest, Launch, Arm
<1>9. CASE TurnRaises
  BY <1>9, SaysNow DEF TurnRaises, Told, Latest, Launch, Arm
<1>10. CASE ReconnectsNot
  BY <1>10, SaysNow DEF ReconnectsNot, Told, Latest, Launch, Arm
<1>11. CASE TurnDies
  BY <1>11, SaysNow DEF TurnDies, Told, Latest, Launch, Arm
<1>12. CASE HealFails
  BY <1>12, SaysNow DEF HealFails, Told, Latest, Launch, Arm
<1>13. CASE Closes
  BY <1>13, SaysNow DEF Closes, Told, Latest, Launch, Arm
<1>14. CASE Starts
  BY <1>14, SaysNow DEF Starts, Told, Latest, Launch, Arm
<1>15. CASE Restores
  BY <1>15, SaysNow DEF Restores, Told, Latest, Launch, Arm
<1>16. CASE FlushStarts
  BY <1>16, SaysNow DEF FlushStarts, Told, Latest, Launch, Arm
<1>17. CASE FlushEnds
  BY <1>17, SaysNow DEF FlushEnds, Told, Latest, Launch, Arm
<1>18. CASE Restart
  BY <1>18, SaysNow DEF Restart, Told, Latest, Launch, Arm
<1>19. ASSUME NEW r \in Requests, CancelSets(r) PROVE Told'
  BY <1>19, SaysNow DEF CancelSets, Told, Latest, Launch, Arm
<1>20. ASSUME NEW r \in Requests, Send(r) PROVE Told'
  BY <1>20, SaysNow DEF Send, Told, Latest, Launch, Arm
<1>21. ASSUME NEW r \in Requests, Queue(r) PROVE Told'
  BY <1>21, SaysNow DEF Queue, Told, Latest, Launch, Arm
<1>22. ASSUME NEW r \in Requests, Reemit(r) PROVE Told'
  BY <1>22, SaysNow DEF Reemit, Told, Latest, Launch, Arm
<1>23. ASSUME NEW r \in Requests, Cancel(r) PROVE Told'
  BY <1>23, SaysNow DEF Cancel, Told, Latest, Launch, Arm
<1>24. ASSUME NEW r \in Requests, RetryNow(r) PROVE Told'
  BY <1>24, SaysNow DEF RetryNow, Told, Latest, Launch, Arm
<1>25. ASSUME NEW r \in Requests, Interrupt(r) PROVE Told'
  BY <1>25, SaysNow DEF Interrupt, Told, Latest, Launch, Arm
<1>26. ASSUME NEW r \in Requests, Close(r) PROVE Told'
  BY <1>26, SaysNow DEF Close, Told, Latest, Launch, Arm
<1>27. ASSUME NEW p \in Requests \cup Tasks, FireBegins(p) PROVE Told'
  BY <1>27, SaysNow DEF FireBegins, Told, Latest, Launch, Arm
<1>28. ASSUME NEW p \in Requests \cup Tasks, FireSends(p) PROVE Told'
  BY <1>28, SaysNow DEF FireSends, Told, Latest, Launch, Arm
<1>29. ASSUME NEW p \in Requests \cup Tasks, FireEnds(p) PROVE Told'
  BY <1>29, SaysNow DEF FireEnds, Told, Latest, Launch, Arm
<1>30. ASSUME NEW p \in Requests \cup Tasks, FireRefused(p) PROVE Told'
  BY <1>30, SaysNow DEF FireRefused, Told, Latest, Launch, Arm
<1>31. ASSUME NEW p \in Requests \cup {Loop}, Dispatch(p) PROVE Told'
  BY <1>31, SaysNow DEF Dispatch, Told, Latest, Launch, Arm
<1>32. ASSUME NEW k \in Tasks, TaskDies(k) PROVE Told'
  BY <1>32, SaysNow DEF TaskDies, Told, Latest, Launch, Arm
<1>33. ASSUME NEW k \in Tasks, Wakes(k) PROVE Told'
  BY <1>33, SaysNow DEF Wakes, Told, Latest, Launch, Arm
<1>34. ASSUME NEW k \in Tasks, Redialled(k) PROVE Told'
  BY <1>34, SaysNow DEF Redialled, Told, Latest, Launch, Arm
<1>35. ASSUME NEW k \in Tasks, ReconnectFails(k) PROVE Told'
  BY <1>35, SaysNow DEF ReconnectFails, Told, Latest, Launch, Arm
<1>36. ASSUME NEW k \in Tasks, RedialFails(k) PROVE Told'
  BY <1>36, SaysNow DEF RedialFails, Told, Latest, Launch, Arm
<1>37. CASE UNCHANGED vars
  BY <1>37, SaysNow DEF vars, Told, Latest, Launch, Arm
<1> HIDE BoundsAssumption DEF CoreType, Dispatchers, FailedIdle, TaskType, ProcType,
       Places, Firing, retryVars, diskVars, marks, Clear, Over, EmitsOnLoop,
       Emitted, New, Idling, LoopFree, Call, Fails
<1> QED
  BY <1>1, <1>2, <1>3, <1>4, <1>5, <1>6, <1>7, <1>8, <1>9, <1>10, <1>11, <1>12,
     <1>13, <1>14, <1>15, <1>16, <1>17, <1>18, <1>19, <1>20, <1>21, <1>22, <1>23,
     <1>24, <1>25, <1>26, <1>27, <1>28, <1>29, <1>30, <1>31, <1>32, <1>33, <1>34,
     <1>35, <1>36, <1>37
     DEF Next, Goes, Turn, Failure, Fire, Task, Command, Engine

-----------------------------------------------------------------------------
(* The inductive invariant.                                                *)

LEMMA TypeParts ==
  /\ TypeOK => CoreType /\ FlagType /\ TaskType /\ DiskType
  /\ CoreType' /\ FlagType' /\ TaskType' /\ DiskType' => TypeOK'
<1>1. TypeOK => CoreType
  BY Zenon DEF TypeOK, CoreType
<1>2. TypeOK => FlagType
  BY Zenon DEF TypeOK, FlagType
<1>3. TypeOK => TaskType
  BY Zenon DEF TypeOK, TaskType, ProcType, Places
<1>4. TypeOK => DiskType
  BY Zenon DEF TypeOK, DiskType
<1>5. CoreType' /\ FlagType' /\ TaskType' /\ DiskType' => TypeOK'
  BY Zenon DEF TypeOK, CoreType, FlagType, TaskType, DiskType, ProcType, Places
<1> QED BY <1>1, <1>2, <1>3, <1>4, <1>5

LEMMA InitInv ==
  ASSUME Init
  PROVE  IInv
<1> USE BoundsAssumption
<1>1. TypeOK
  BY DEF Init, TypeOK, Records, Firing
<1>2. \A p \in ProcType : pc[p] = "idle"
  BY DEF Init, ProcType
<1>3. Dispatchers
  BY <1>2 DEF Dispatchers, ProcType
<1>4. StartsClean /\ Held
  BY DEF Init, StartsClean, Held
<1>5. Guarded
  <2>1. Open
    BY <1>2 DEF Init, Open, ProcType
  <2>2. TasksOK
    BY <1>2 DEF Init, TasksOK, ProcType, Firing
  <2>3. CountdownOK
    BY DEF Init, CountdownOK
  <2> QED BY <2>1, <2>2, <2>3 DEF Guarded
<1>6. TimersOK
  BY <1>2 DEF TimersOK, ProcType
<1>7. BudgetOK
  <2>1. /\ restarts = 0 /\ resent = 0 /\ count = 0 /\ disk.count = 0 /\ later = None
        /\ writing = None /\ ~restoring
    BY DEF Init
  <2>2. \A k \in Tasks : ~MayFire(k)
    BY <1>2 DEF MayFire, ProcType
  <2>3. Kept(Max, 0) /\ Kept(count, 0) /\ Saved(1)
    BY <2>1 DEF Kept, Saved
  <2> QED BY <2>1, <2>2, <2>3 DEF BudgetOK
<1>8. FailedIdle /\ Overrun /\ Told
  BY DEF Init, FailedIdle, Overrun, Told
<1> QED BY <1>1, <1>3, <1>4, <1>5, <1>6, <1>7, <1>8 DEF IInv

\* A mark stays: the parts that a marked session has lost are not asked for again.
LEMMA MarksStay ==
  ASSUME [Next]_vars
  PROVE  Marked => Marked'
<1> USE BoundsAssumption DEF Marked, marks, Call, Fails
<1>1. CASE TurnSucceeds
  BY <1>1 DEF TurnSucceeds
<1>2. CASE DoneEmits
  BY <1>2 DEF DoneEmits
<1>3. CASE FailedArms
  BY <1>3 DEF FailedArms
<1>4. CASE FailedEmits
  BY <1>4 DEF FailedEmits
<1>5. CASE Reconnects
  BY <1>5 DEF Reconnects
<1>6. CASE Heals
  BY <1>6 DEF Heals
<1>7. CASE HealStops
  BY <1>7 DEF HealStops
<1>8. CASE TurnFails
  BY <1>8 DEF TurnFails
<1>9. CASE TurnRaises
  BY <1>9 DEF TurnRaises
<1>10. CASE ReconnectsNot
  BY <1>10 DEF ReconnectsNot
<1>11. CASE TurnDies
  BY <1>11 DEF TurnDies
<1>12. CASE HealFails
  BY <1>12 DEF HealFails
<1>13. CASE Closes
  BY <1>13 DEF Closes
<1>14. CASE Starts
  BY <1>14 DEF Starts
<1>15. CASE Restores
  BY <1>15 DEF Restores
<1>16. CASE FlushStarts
  BY <1>16 DEF FlushStarts
<1>17. CASE FlushEnds
  BY <1>17 DEF FlushEnds
<1>18. CASE Restart
  BY <1>18 DEF Restart
<1>19. ASSUME NEW r \in Requests, CancelSets(r) PROVE Marked => Marked'
  BY <1>19 DEF CancelSets
<1>20. ASSUME NEW r \in Requests, Send(r) PROVE Marked => Marked'
  BY <1>20 DEF Send
<1>21. ASSUME NEW r \in Requests, Queue(r) PROVE Marked => Marked'
  BY <1>21 DEF Queue
<1>22. ASSUME NEW r \in Requests, Reemit(r) PROVE Marked => Marked'
  BY <1>22 DEF Reemit
<1>23. ASSUME NEW r \in Requests, Cancel(r) PROVE Marked => Marked'
  BY <1>23 DEF Cancel
<1>24. ASSUME NEW r \in Requests, RetryNow(r) PROVE Marked => Marked'
  BY <1>24 DEF RetryNow
<1>25. ASSUME NEW r \in Requests, Interrupt(r) PROVE Marked => Marked'
  BY <1>25 DEF Interrupt
<1>26. ASSUME NEW r \in Requests, Close(r) PROVE Marked => Marked'
  BY <1>26 DEF Close
<1>27. ASSUME NEW p \in Requests \cup Tasks, FireBegins(p) PROVE Marked => Marked'
  BY <1>27 DEF FireBegins
<1>28. ASSUME NEW p \in Requests \cup Tasks, FireSends(p) PROVE Marked => Marked'
  BY <1>28 DEF FireSends
<1>29. ASSUME NEW p \in Requests \cup Tasks, FireEnds(p) PROVE Marked => Marked'
  BY <1>29 DEF FireEnds
<1>30. ASSUME NEW p \in Requests \cup Tasks, FireRefused(p) PROVE Marked => Marked'
  BY <1>30 DEF FireRefused
<1>31. ASSUME NEW p \in Requests \cup {Loop}, Dispatch(p) PROVE Marked => Marked'
  BY <1>31 DEF Dispatch
<1>32. ASSUME NEW k \in Tasks, TaskDies(k) PROVE Marked => Marked'
  BY <1>32 DEF TaskDies
<1>33. ASSUME NEW k \in Tasks, Wakes(k) PROVE Marked => Marked'
  BY <1>33 DEF Wakes
<1>34. ASSUME NEW k \in Tasks, Redialled(k) PROVE Marked => Marked'
  BY <1>34 DEF Redialled
<1>35. ASSUME NEW k \in Tasks, ReconnectFails(k) PROVE Marked => Marked'
  BY <1>35 DEF ReconnectFails
<1>36. ASSUME NEW k \in Tasks, RedialFails(k) PROVE Marked => Marked'
  BY <1>36 DEF RedialFails
<1>37. CASE UNCHANGED vars
  BY <1>37 DEF vars
<1> HIDE BoundsAssumption DEF Marked, marks, Call, Fails
<1> QED
  BY <1>1, <1>2, <1>3, <1>4, <1>5, <1>6, <1>7, <1>8, <1>9, <1>10, <1>11, <1>12,
     <1>13, <1>14, <1>15, <1>16, <1>17, <1>18, <1>19, <1>20, <1>21, <1>22, <1>23,
     <1>24, <1>25, <1>26, <1>27, <1>28, <1>29, <1>30, <1>31, <1>32, <1>33, <1>34,
     <1>35, <1>36, <1>37
     DEF Next, Goes, Turn, Failure, Fire, Task, Command, Engine

LEMMA StepInv ==
  ASSUME IInv, [Next]_vars
  PROVE  IInv'
<1>1. CoreType /\ FlagType /\ TaskType /\ DiskType
  BY TypeParts DEF IInv
<1>2. CoreType' /\ FlagType' /\ TaskType'
  BY <1>1, CoreTypeStep, FlagTypeStep, TaskTypeStep DEF IInv
<1>3. Rec \in Records
  BY <1>1, RecordTypes
<1>4. Rec' \in Records
  BY <1>2 DEF CoreType, FlagType, Rec, Records
<1>5. DiskType'
  BY <1>1, <1>3, <1>4, DiskTypeStep
<1>6. TypeOK'
  BY <1>2, <1>5, TypeParts
<1>7. Dispatchers' /\ StartsClean' /\ Held'
  BY <1>1, DispatchersStep, StartsCleanStep, HeldStep DEF IInv
<1>8. ASSUME ~Marked' PROVE Guarded' /\ TimersOK'
  <2>1. Guarded /\ TimersOK
    BY <1>8, MarksStay DEF IInv
  <2>2. ~orphaned' /\ ~closed'
    BY <1>8 DEF Marked
  <2> QED BY <1>1, <2>1, <2>2, GuardedStep, TimersStep DEF IInv
<1>9. ASSUME ~Marked', ~overtaken' PROVE BudgetOK'
  <2>1. Guarded /\ TimersOK /\ BudgetOK
    BY <1>1, <1>9, MarksStay, OvertakenStays DEF IInv
  <2>2. ~orphaned' /\ ~closed'
    BY <1>9 DEF Marked
  <2> QED BY <1>1, <1>2, <1>5, <1>9, <2>1, <2>2, BudgetStep DEF IInv
<1>10. FailedIdle' /\ Overrun' /\ Told'
  BY <1>1, <1>4, FailedIdleStep, OverrunStep, ToldStep DEF IInv
<1> QED BY <1>6, <1>7, <1>8, <1>9, <1>10 DEF IInv

\* The invariant the theorems below rest on holds in every state that is reached.
THEOREM Invariant == Spec => []IInv
<1>1. Init => IInv
  BY InitInv
<1>2. IInv /\ [Next]_vars => IInv'
  BY StepInv
<1> QED BY <1>1, <1>2, PTL DEF Spec

\* The fields of the session, its tasks and its record stay in their ranges: a
\* queued message is only taken from a queue that has one, and a task is never
\* among those that passed the gate of the queue.
THEOREM TypeCorrect == Spec => []TypeOK
<1>1. IInv => TypeOK
  BY DEF IInv
<1> QED BY <1>1, Invariant, PTL

\* A countdown that is shown, and that holds the queue, has somebody who is going to
\* end it, whatever the requests do and however often the engine restarts: the end
\* state _fail_retry_open calls the worst possible one is not reached, unless a
\* coroutine that no handle points to was left, a countdown was armed over a turn,
\* or the user has closed the session.
THEOREM CountdownServedHolds == Spec => []CountdownServed
<1>1. ASSUME IInv PROVE CountdownServed
  <2>1. SUFFICES ASSUME state = "IDLE", retryAt, ~orphaned, ~closed
                 PROVE  Served
    BY DEF CountdownServed
  <2>2. Guarded
    BY <1>1, <2>1 DEF IInv, Marked
  <2>3. CASE handle # None
    <3>1. handle \in Tasks /\ Live(handle) /\ handle \notin doomed
      BY <1>1, <2>2, <2>3, TypeParts DEF IInv, Guarded, TasksOK, TaskType
    <3> QED BY <3>1 DEF Served
  <2>4. CASE handle = None
    <3>1. restoring \/ RequestFires \/ Resends
      BY <2>1, <2>2, <2>4 DEF Guarded, CountdownOK
    <3>2. Resends => \E k \in Tasks : Live(k) /\ k \notin doomed
      BY DEF Resends, Live
    <3> QED BY <3>1, <3>2 DEF Served, RequestFires
  <2> QED BY <2>3, <2>4
<1> QED BY <1>1, Invariant, PTL

\* From the arming of its countdown to its resend a failed turn is not overtaken by a
\* queued message, but by one that had passed the gate before: the order of the
\* assignments in _fire_api_retry leaves no gap.
THEOREM HeldBackHolds == Spec => HeldBack
<1>1. ASSUME IInv PROVE waiting /\ ~wiped => ~Dispatched
  BY <1>1 DEF IInv, Held, Dispatched
<1>2. IInv => [waiting /\ ~wiped => ~Dispatched]_vars
  BY <1>1
<1> QED BY <1>2, Invariant, PTL DEF HeldBack

\* The budget: between a command, an answer or a give-up and the next, the timers resend a
\* failed turn at most _API_RETRY_MAX times, and once more for each restart of the engine,
\* which may lose the count of the resend it interrupts.  An orphaned coroutine, a closed
\* session and a record that was written late are not counted on.
THEOREM BudgetKeptHolds == Spec => []BudgetKept
<1>1. ASSUME IInv PROVE BudgetKept
  <2>1. CASE Marked \/ overtaken
    BY <2>1 DEF Marked, BudgetKept
  <2>2. CASE ~Marked /\ ~overtaken
    <3>1. resent <= Max + restarts + 0 /\ restarts \in Nat
      BY <1>1, <2>2 DEF IInv, BudgetOK, Kept
    <3>2. resent <= Max + restarts
      BY <3>1, BoundsAssumption
    <3> QED BY <3>2 DEF BudgetKept
  <2> QED BY <2>1, <2>2
<1> QED BY <1>1, Invariant, PTL

\* At rest the record on the disk says whether a countdown is armed, whatever was saved at
\* once, a second later or not at all: what a restart of the engine brings back is the
\* countdown there is.  The exceptions are a resend that cleared the countdown after its turn
\* had ended, and a record that was written late.
THEOREM RecordTellsHolds == Spec => []RecordTells
<1>1. ASSUME IInv PROVE RecordTells
  <2>1. SUFFICES ASSUME AtRest, ~wiped, ~overtaken PROVE disk.at = retryAt
    BY DEF RecordTells
  <2>2. /\ state = "IDLE" /\ turn = "none" /\ later = None /\ writing = None
        /\ \A p \in Requests \cup Tasks : pc[p] \notin Firing
        /\ \A r \in Requests : pc[r] # "cancelled"
    BY <2>1 DEF AtRest, LoopFree, Idling, Firing
  <2>3. Latest.at = retryAt
    BY <1>1, <2>1, <2>2 DEF IInv, Told
  <2> QED BY <2>2, <2>3 DEF Latest
<1> QED BY <1>1, Invariant, PTL
=============================================================================
