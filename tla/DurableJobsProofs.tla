--------------------------- MODULE DurableJobsProofs ---------------------------
(***************************************************************************)
(* Theorems about DurableJobs, for every set of jobs and of clients and    *)
(* every bound: its types, that the supervisor never starts a second       *)
(* process of a job that runs, and that it relaunches only what is due.    *)
(***************************************************************************)
EXTENDS DurableJobs, WellFoundedInduction, TLAPS

Pending(j) == {i \in Of(j) : launches[i].known = "pending"}

\* Launch i is over and may be repeated.
Over(i) == ~launches[i].alive /\ launches[i].wrote \notin {"past", "done"}

\* ... or a person has relaunched the job since.
Repeatable(j, i) == Over(i) \/ \E k \in Saved(j) : launches[k].by \in Clients /\ k > i

\* What the registry knows of a job: its record names the last launch that was
\* saved, and the earlier ones may be repeated.
RegistryOK(j) ==
  /\ disk[j] = None => Saved(j) = {}
  /\ disk[j] # None =>
       /\ disk[j].lastLog \in Saved(j) \cup {0}
       /\ \A i \in Saved(j) : /\ i <= disk[j].lastLog
                              /\ i < disk[j].lastLog => Repeatable(j, i)

LastLog(rec) == IF rec = None THEN 0 ELSE rec.lastLog

\* What the holder of the lock is about to save of a job: the same launch as
\* in the registry, or the one launch that it made itself.
CopyOK(j) ==
  lock # None =>
    /\ disk[j] # None => copy[lock][j] # None
    /\ \/ Pending(j) = {} /\ LastLog(copy[lock][j]) = LastLog(disk[j])
       \/ \E n \in Pending(j) :
            /\ Pending(j) = {n} /\ copy[lock][j] # None /\ copy[lock][j].lastLog = n
            /\ \A i \in Saved(j) : i < n /\ (launches[n].by \in Clients \/ Repeatable(j, i))

\* What the supervisor has found out about a job and not yet acted upon still
\* holds.
DecisionOK(j) ==
  /\ phase = "decide" => /\ copy[Supervisor][j] = disk[j] /\ Pending(j) = {}
                         /\ present # None /\ Alive(j) => j \in present
  /\ phase = "apply" /\ decisions[j] # None =>
       /\ copy[Supervisor][j] = disk[j] /\ Pending(j) = {}
       /\ disk[j] # None
       /\ decisions[j].action = "relaunch" =>
            /\ ~Alive(j)
            /\ ~disk[j].acknowledged /\ ~IsPast(disk[j])

\* The lock: only its holder has a copy of the registry, and a tick holds it.
LockOK ==
  /\ \A w \in Writers : copy[w] # Nothing => lock = w
  /\ phase # "idle" => lock = Supervisor
  /\ lock = None => \A j \in Jobs : Pending(j) = {}

JobOK(j) == RegistryOK(j) /\ CopyOK(j) /\ DecisionOK(j)

IInv == TypeOK /\ LockOK /\ \A j \in Jobs : JobOK(j)

-----------------------------------------------------------------------------
(* Lemmas about the launches.                                              *)

LEMMA Names ==
  /\ Supervisor \in Writers /\ Supervisor \notin Clients
  /\ None \notin Writers
  /\ \A c \in Clients : c \in Writers
BY ConstantsAssumption DEF Writers

\* The launches, numbered from 1.
LEMMA LaunchType ==
  ASSUME TypeOK
  PROVE  /\ DOMAIN launches = 1 .. Len(launches) /\ Len(launches) \in Nat
         /\ launches \in [1 .. Len(launches) -> Launch]
         /\ \A i \in DOMAIN launches : launches[i] \in Launch
<1>1. launches \in Seq(Launch)
  BY DEF TypeOK
<1> QED BY <1>1

\* The new launch comes after the others, which stay as they are.
LEMMA LaunchedStep ==
  ASSUME TypeOK, NEW w \in Writers, NEW j \in Jobs,
         Len(launches) < MaxLaunches, launches' = Launched(w, j)
  PROVE  /\ launches' \in Seq(Launch) /\ Len(launches') = Len(launches) + 1
         /\ Len(launches') <= MaxLaunches
         /\ DOMAIN launches' = 1 .. Len(launches) + 1
         /\ \A i \in DOMAIN launches : launches'[i] = launches[i]
         /\ launches'[Len(launches) + 1] =
              [job |-> j, by |-> w, wrote |-> "nothing", alive |-> TRUE, known |-> "pending"]
<1> DEFINE new == [job |-> j, by |-> w, wrote |-> "nothing", alive |-> TRUE, known |-> "pending"]
<1>1. new \in Launch
  BY DEF Launch, Texts
<1>2. launches \in Seq(Launch) /\ launches' = Append(launches, new)
  BY DEF TypeOK, Launched
<1>3. MaxLaunches \in Nat
  BY ConstantsAssumption
<1> HIDE DEF new
<1>4. /\ launches' \in Seq(Launch) /\ Len(launches') = Len(launches) + 1
      /\ DOMAIN launches' = 1 .. Len(launches) + 1
      /\ \A i \in DOMAIN launches : launches'[i] = launches[i]
      /\ launches'[Len(launches) + 1] = new
  BY <1>1, <1>2
<1>5. Len(launches') <= MaxLaunches
  BY <1>4, <1>3, LaunchType
<1> QED BY <1>4, <1>5 DEF new

\* A function on the launches' numbers is a sequence.
LEMMA AsLaunches ==
  ASSUME TypeOK, NEW f, f \in [1 .. Len(launches) -> Launch]
  PROVE  f \in Seq(Launch) /\ Len(f) = Len(launches) /\ DOMAIN f = DOMAIN launches
<1>1. Len(launches) \in Nat /\ DOMAIN launches = 1 .. Len(launches)
  BY LaunchType
<1> QED BY <1>1

\* What the registry comes to know of the launches that were pending.
LEMMA MarkStep ==
  ASSUME TypeOK, NEW k \in {"saved", "lost"}, launches' = Mark(k)
  PROVE  /\ launches' \in Seq(Launch) /\ Len(launches') = Len(launches)
         /\ DOMAIN launches' = DOMAIN launches
         /\ \A i \in DOMAIN launches :
              /\ launches'[i].job = launches[i].job /\ launches'[i].by = launches[i].by
              /\ launches'[i].wrote = launches[i].wrote /\ launches'[i].alive = launches[i].alive
              /\ launches'[i].known = IF launches[i].known = "pending" THEN k ELSE launches[i].known
<1>1. /\ DOMAIN launches = 1 .. Len(launches)
      /\ \A i \in DOMAIN launches : launches[i] \in Launch
  BY LaunchType
<1>2. /\ DOMAIN launches' = DOMAIN launches
      /\ launches' \in [1 .. Len(launches) -> Launch]
      /\ \A i \in DOMAIN launches :
           /\ launches'[i].job = launches[i].job /\ launches'[i].by = launches[i].by
           /\ launches'[i].wrote = launches[i].wrote /\ launches'[i].alive = launches[i].alive
           /\ launches'[i].known = IF launches[i].known = "pending" THEN k ELSE launches[i].known
  BY <1>1 DEF Mark, Launch
<1> QED BY <1>2, AsLaunches, Zenon

\* The machine restarts.
LEMMA RestartStep ==
  ASSUME TypeOK,
         launches' = [i \in DOMAIN launches |-> [Mark("lost")[i] EXCEPT !.alive = FALSE]]
  PROVE  /\ launches' \in Seq(Launch) /\ Len(launches') = Len(launches)
         /\ DOMAIN launches' = DOMAIN launches
         /\ \A i \in DOMAIN launches :
              /\ launches'[i].job = launches[i].job /\ launches'[i].by = launches[i].by
              /\ launches'[i].wrote = launches[i].wrote /\ ~launches'[i].alive
              /\ launches'[i].known = IF launches[i].known = "pending" THEN "lost" ELSE launches[i].known
<1>1. /\ DOMAIN launches = 1 .. Len(launches)
      /\ \A i \in DOMAIN launches : launches[i] \in Launch
  BY LaunchType
<1>2. /\ DOMAIN launches' = DOMAIN launches
      /\ launches' \in [1 .. Len(launches) -> Launch]
      /\ \A i \in DOMAIN launches :
           /\ launches'[i].job = launches[i].job /\ launches'[i].by = launches[i].by
           /\ launches'[i].wrote = launches[i].wrote /\ ~launches'[i].alive
           /\ launches'[i].known = IF launches[i].known = "pending" THEN "lost" ELSE launches[i].known
  BY <1>1 DEF Mark, Launch
<1> QED BY <1>2, AsLaunches, Zenon

\* A job writes or dies.
LEMMA JobStep ==
  ASSUME TypeOK, NEW n, Job(n)
  PROVE  /\ launches' \in Seq(Launch) /\ Len(launches') = Len(launches)
         /\ DOMAIN launches' = DOMAIN launches
         /\ \A i \in DOMAIN launches :
              /\ launches'[i].job = launches[i].job /\ launches'[i].by = launches[i].by
              /\ launches'[i].known = launches[i].known
              /\ launches'[i].alive => launches[i].alive
              /\ ~launches[i].alive => launches'[i].wrote = launches[i].wrote
<1>1. /\ DOMAIN launches = 1 .. Len(launches)
      /\ launches \in [1 .. Len(launches) -> Launch]
      /\ \A i \in DOMAIN launches : launches[i] \in Launch
  BY LaunchType
<1>2. n \in DOMAIN launches /\ launches[n].alive
  BY DEF Job
<1>3. \/ \E text \in Texts : launches' = [launches EXCEPT ![n].wrote = text]
      \/ launches' = [launches EXCEPT ![n].alive = FALSE]
  BY DEF Job
<1>4. /\ DOMAIN launches' = DOMAIN launches
      /\ launches' \in [1 .. Len(launches) -> Launch]
      /\ \A i \in DOMAIN launches :
              /\ launches'[i].job = launches[i].job /\ launches'[i].by = launches[i].by
              /\ launches'[i].known = launches[i].known
              /\ launches'[i].alive => launches[i].alive
              /\ ~launches[i].alive => launches'[i].wrote = launches[i].wrote
  <2>1. CASE \E text \in Texts : launches' = [launches EXCEPT ![n].wrote = text]
    <3>1. PICK text \in Texts : launches' = [launches EXCEPT ![n].wrote = text]
      BY <2>1
    <3>2. [launches[n] EXCEPT !.wrote = text] \in Launch
      BY <1>1, <1>2 DEF Launch
    <3> QED BY <1>1, <1>2, <3>1, <3>2 DEF Launch
  <2>2. CASE launches' = [launches EXCEPT ![n].alive = FALSE]
    <3>1. [launches[n] EXCEPT !.alive = FALSE] \in Launch
      BY <1>1, <1>2 DEF Launch
    <3> QED BY <1>1, <1>2, <2>2, <3>1 DEF Launch
  <2> QED BY <1>3, <2>1, <2>2
<1> QED BY <1>4, AsLaunches, Zenon

-----------------------------------------------------------------------------
(* Lemmas about what is said of one job.                                   *)

\* The launches go on: none comes back to life, and the dead write no more.
Evolve ==
  \A i \in DOMAIN launches :
    /\ launches'[i].job = launches[i].job /\ launches'[i].by = launches[i].by
    /\ launches'[i].alive => launches[i].alive
    /\ ~launches[i].alive => launches'[i].wrote = launches[i].wrote

\* Nothing that the registry knows is forgotten, and what may be repeated still may.
LEMMA SavedStays ==
  ASSUME DOMAIN launches \subseteq DOMAIN launches', Evolve,
         \A i \in DOMAIN launches : launches[i].known = "saved" => launches'[i].known = "saved",
         NEW j
  PROVE  /\ Saved(j) \subseteq Saved(j)'
         /\ \A i \in Saved(j) : Repeatable(j, i) => Repeatable(j, i)'
<1>1. Saved(j) \subseteq Saved(j)'
  BY DEF Saved, Of, Evolve
<1>2. ASSUME NEW i \in Saved(j), Repeatable(j, i) PROVE Repeatable(j, i)'
  <2>1. i \in DOMAIN launches
    BY DEF Saved, Of
  <2>2. CASE Over(i)
    BY <2>1, <2>2 DEF Over, Evolve, Repeatable
  <2>3. CASE \E k \in Saved(j) : launches[k].by \in Clients /\ k > i
    <3>1. PICK k \in Saved(j) : launches[k].by \in Clients /\ k > i
      BY <2>3
    <3>2. k \in DOMAIN launches
      BY DEF Saved, Of
    <3>3. k \in Saved(j)' /\ launches'[k].by \in Clients /\ k > i
      BY <1>1, <3>1, <3>2 DEF Evolve
    <3> QED BY <3>3 DEF Repeatable
  <2> QED BY <1>2, <2>2, <2>3 DEF Repeatable
<1> QED BY <1>1, <1>2

\* A step that launches nothing and saves nothing tells the same of each job.
LEMMA SameLaunches ==
  ASSUME DOMAIN launches' = DOMAIN launches, Evolve,
         \A i \in DOMAIN launches : launches'[i].known = launches[i].known,
         NEW j
  PROVE  /\ Saved(j)' = Saved(j) /\ Pending(j)' = Pending(j)
         /\ Alive(j)' => Alive(j)
         /\ \A i \in Saved(j) : Repeatable(j, i) => Repeatable(j, i)'
<1>1. Saved(j)' = Saved(j) /\ Pending(j)' = Pending(j)
  BY DEF Saved, Pending, Of, Evolve
<1>2. Alive(j)' => Alive(j)
  BY DEF Alive, Of, Evolve
<1>3. \A i \in Saved(j) : Repeatable(j, i) => Repeatable(j, i)'
  BY SavedStays
<1> QED BY <1>1, <1>2, <1>3

\* A new launch is pending, and the only one that is new.
LEMMA NewPending ==
  ASSUME TypeOK, NEW w \in Writers, NEW j \in Jobs,
         Len(launches) < MaxLaunches, launches' = Launched(w, j)
  PROVE  /\ \A k \in Jobs : Saved(k)' = Saved(k)
         /\ \A k \in Jobs : k # j => Pending(k)' = Pending(k) /\ (Alive(k)' <=> Alive(k))
         /\ Pending(j)' = Pending(j) \cup {Len(launches) + 1}
         /\ \A k \in Jobs : \A i \in Saved(k) : Repeatable(k, i) => Repeatable(k, i)'
         /\ \A k \in Jobs : \A i \in Saved(k) : i < Len(launches) + 1
         /\ \A i \in DOMAIN launches : launches'[i] = launches[i]
         /\ launches'[Len(launches) + 1].by = w
<1>1. /\ DOMAIN launches' = 1 .. Len(launches) + 1
      /\ \A i \in DOMAIN launches : launches'[i] = launches[i]
      /\ launches'[Len(launches) + 1] =
           [job |-> j, by |-> w, wrote |-> "nothing", alive |-> TRUE, known |-> "pending"]
  BY LaunchedStep
<1>2. DOMAIN launches = 1 .. Len(launches) /\ Len(launches) \in Nat
  BY LaunchType
<1>3. DOMAIN launches' = DOMAIN launches \cup {Len(launches) + 1} /\ Len(launches) + 1 \notin DOMAIN launches
  BY <1>1, <1>2
<1>4. /\ launches'[Len(launches) + 1].job = j /\ launches'[Len(launches) + 1].by = w
      /\ launches'[Len(launches) + 1].known = "pending"
  BY <1>1
<1>5. \A k \in Jobs : Saved(k)' = Saved(k)
  BY <1>1, <1>3, <1>4 DEF Saved, Of
<1>6. \A k \in Jobs : k # j => Pending(k)' = Pending(k) /\ (Alive(k)' <=> Alive(k))
  BY <1>1, <1>3, <1>4 DEF Pending, Of, Alive
<1>7. Pending(j)' = Pending(j) \cup {Len(launches) + 1}
  BY <1>1, <1>3, <1>4 DEF Pending, Of
<1>8. Evolve
  BY <1>1 DEF Evolve
<1>9. \A k \in Jobs : \A i \in Saved(k) : Repeatable(k, i) => Repeatable(k, i)'
  BY <1>1, <1>3, <1>8, SavedStays
<1>10. \A k \in Jobs : \A i \in Saved(k) : i < Len(launches) + 1
  BY <1>2 DEF Saved, Of
<1> QED BY <1>1, <1>4, <1>5, <1>6, <1>7, <1>9, <1>10

\* The launch that the registry names exists.
LEMMA LogExists ==
  ASSUME TypeOK, NEW j \in Jobs, RegistryOK(j), disk[j] # None
  PROVE  /\ disk[j] \in Record
         /\ disk[j].lastLog # 0 => /\ disk[j].lastLog \in DOMAIN launches
                                   /\ launches[disk[j].lastLog].job = j
         /\ LogOf(disk[j]) \in Texts /\ LogSize(disk[j]) \in 0 .. 3
<1>1. disk[j] \in Record
  BY DEF TypeOK, Registry
<1>2. disk[j].lastLog # 0 => /\ disk[j].lastLog \in DOMAIN launches
                             /\ launches[disk[j].lastLog].job = j
  BY DEF RegistryOK, Saved, Of
<1>3. LogOf(disk[j]) \in Texts
  BY <1>2, LaunchType DEF LogOf, Launch, Texts
<1>4. LogSize(disk[j]) \in 0 .. 3
  BY <1>3 DEF LogSize, Size, Texts
<1> QED BY <1>1, <1>2, <1>3, <1>4

-----------------------------------------------------------------------------
(* The kinds of step.                                                      *)

\* The jobs go on and time passes: the registry and its editors do nothing.
LEMMA Quiet ==
  ASSUME IInv, TypeOK', UNCHANGED <<disk, lock, copy, tick>>,
         DOMAIN launches' = DOMAIN launches, Evolve,
         \A i \in DOMAIN launches : launches'[i].known = launches[i].known
  PROVE  IInv'
<1>1. TypeOK /\ LockOK
  BY DEF IInv
<1>2. ASSUME NEW j \in Jobs PROVE JobOK(j)' /\ Pending(j)' = Pending(j)
  <2>1. RegistryOK(j) /\ CopyOK(j) /\ DecisionOK(j)
    BY DEF IInv, JobOK
  <2>2. /\ Saved(j)' = Saved(j) /\ Pending(j)' = Pending(j)
        /\ Alive(j)' => Alive(j)
        /\ \A i \in Saved(j) : Repeatable(j, i) => Repeatable(j, i)'
    BY SameLaunches
  <2>3. RegistryOK(j)'
    BY <2>1, <2>2 DEF RegistryOK
  <2>4. CopyOK(j)'
    <3>1. \A n \in Pending(j) : launches'[n].by = launches[n].by
      BY DEF Pending, Of, Evolve
    <3> QED BY <2>1, <2>2, <3>1 DEF CopyOK
  <2>5. DecisionOK(j)'
    <3>1. /\ phase' = phase /\ present' = present /\ decisions' = decisions
          /\ copy' = copy /\ disk' = disk
      BY DEF tick
    <3>2. disk[j] # None /\ ~Alive(j) /\ ~IsPast(disk[j]) => ~IsPast(disk[j])'
      <4>1. ASSUME disk[j] # None, ~Alive(j), ~IsPast(disk[j]) PROVE ~IsPast(disk[j])'
        <5>1. disk[j].lastLog # 0 => /\ disk[j].lastLog \in DOMAIN launches
                                     /\ launches[disk[j].lastLog].job = j
          BY <1>1, <2>1, <4>1, LogExists
        <5>2. disk[j].lastLog # 0 => launches'[disk[j].lastLog].wrote = launches[disk[j].lastLog].wrote
          BY <4>1, <5>1 DEF Alive, Of, Evolve
        <5> QED BY <4>1, <5>2, <3>1 DEF IsPast, LogOf
      <4> QED BY <4>1
    <3> QED BY <2>1, <2>2, <3>1, <3>2 DEF DecisionOK
  <2> QED BY <2>2, <2>3, <2>4, <2>5 DEF JobOK
<1>3. LockOK'
  BY <1>1, <1>2 DEF LockOK, tick
<1> QED BY <1>2, <1>3 DEF IInv

\* A client edits the record of one job, and launches it or does not.
LEMMA Edit ==
  ASSUME IInv, NoneAssumption, NEW c \in Clients, NEW j \in Jobs, NEW new \in Record,
         Locked(c), copy' = [copy EXCEPT ![c] = [disk EXCEPT ![j] = new]],
         UNCHANGED <<disk, tick>>, old' \subseteq Jobs, faults' \in 0 .. MaxFaults,
         \/ launches' = launches /\ new.lastLog = LastLog(disk[j])
         \/ /\ Len(launches) < MaxLaunches /\ launches' = Launched(c, j)
            /\ new.lastLog = Len(launches) + 1
  PROVE  IInv'
<1>1. TypeOK /\ LockOK
  BY DEF IInv
<1>2. /\ c \in Writers /\ c # Supervisor /\ c # None /\ Supervisor \in Writers
      /\ lock = None /\ lock' = c /\ disk' = disk
      /\ phase' = phase /\ present' = present /\ decisions' = decisions
  BY Names DEF Locked, tick
<1>3. phase = "idle"
  BY <1>1, <1>2, Names DEF LockOK
<1>4. \A k \in Jobs : Pending(k) = {}
  BY <1>1, <1>2 DEF LockOK
<1>5. new # None
  BY DEF NoneAssumption
<1>6. disk \in Registry /\ copy \in [Writers -> Registry]
  BY <1>1 DEF TypeOK
<1>7. [disk EXCEPT ![j] = new] \in Registry
  BY <1>6 DEF Registry
<1>8. copy' \in [Writers -> Registry]
  BY <1>6, <1>7
<1>9. launches' \in Seq(Launch) /\ Len(launches') <= MaxLaunches
  BY <1>1, <1>2, LaunchedStep DEF TypeOK
<1>10. TypeOK'
  BY <1>1, <1>2, <1>8, <1>9 DEF TypeOK
<1>11. /\ copy'[c][j] = new
       /\ \A k \in Jobs : k # j => copy'[c][k] = disk[k]
       /\ \A w \in Writers : w # c => copy'[w] = copy[w]
  BY <1>2, <1>6 DEF Registry
<1>12. LockOK'
  <2>1. \A w \in Writers : w # c => copy[w] = Nothing
    BY <1>1, <1>2, Names DEF LockOK
  <2> QED BY <1>2, <1>3, <1>11, <2>1 DEF LockOK
<1>13. ASSUME NEW k \in Jobs PROVE JobOK(k)'
  <2>1. RegistryOK(k)
    BY DEF IInv, JobOK
  <2>2. DecisionOK(k)'
    BY <1>2, <1>3 DEF DecisionOK
  <2>3. CASE launches' = launches /\ new.lastLog = LastLog(disk[j])
    <3>1. Pending(k)' = Pending(k) /\ Saved(k)' = Saved(k)
      BY <2>3 DEF Pending, Saved, Of
    <3>2. \A i \in Saved(k) : Repeatable(k, i)' <=> Repeatable(k, i)
      BY <2>3, <3>1 DEF Repeatable, Over
    <3>3. RegistryOK(k)'
      BY <2>1, <1>2, <3>1, <3>2 DEF RegistryOK
    <3>4. LastLog(copy'[c][k]) = LastLog(disk[k]) /\ (disk[k] # None => copy'[c][k] # None)
      BY <1>11, <1>5, <2>3 DEF LastLog
    <3>5. CopyOK(k)'
      BY <1>2, <1>4, <3>1, <3>4 DEF CopyOK, LastLog
    <3> QED BY <2>2, <3>3, <3>5 DEF JobOK
  <2>4. CASE /\ Len(launches) < MaxLaunches /\ launches' = Launched(c, j)
             /\ new.lastLog = Len(launches) + 1
    <3> DEFINE n == Len(launches) + 1
    <3>1. /\ Saved(k)' = Saved(k)
          /\ k # j => Pending(k)' = Pending(k)
          /\ Pending(j)' = Pending(j) \cup {n}
          /\ \A i \in Saved(k) : Repeatable(k, i) => Repeatable(k, i)'
          /\ \A i \in Saved(k) : i < n
          /\ launches'[n].by = c
      BY <1>1, <1>2, <2>4, NewPending
    <3>2. new.lastLog = n
      BY <2>4
    <3> HIDE DEF n
    <3>3. RegistryOK(k)'
      BY <2>1, <1>2, <3>1 DEF RegistryOK
    <3>4. CopyOK(k)'
      <4>1. CASE k = j
        <5>1. /\ Pending(j)' = {n} /\ copy'[c][j] = new /\ launches'[n].by \in Clients
              /\ \A i \in Saved(j)' : i < n
          BY <1>4, <1>11, <3>1, <4>1
        <5> QED BY <1>2, <1>5, <3>2, <4>1, <5>1 DEF CopyOK
      <4>2. CASE k # j
        BY <1>2, <1>4, <1>11, <3>1, <4>2 DEF CopyOK, LastLog
      <4> QED BY <4>1, <4>2
    <3> QED BY <2>2, <3>3, <3>4 DEF JobOK
  <2> QED BY <2>3, <2>4
<1> QED BY <1>10, <1>12, <1>13 DEF IInv

\* The supervisor acts upon one decision.
LEMMA Act ==
  ASSUME IInv, NoneAssumption, NEW j \in Jobs, NEW new \in Record,
         phase = "apply", decisions[j] # None,
         copy' = [copy EXCEPT ![Supervisor][j] = new],
         decisions' = [decisions EXCEPT ![j] = None],
         UNCHANGED <<disk, lock, phase, present>>,
         old' \subseteq Jobs, faults' \in 0 .. MaxFaults,
         \/ launches' = launches /\ new.lastLog = disk[j].lastLog
         \/ /\ Len(launches) < MaxLaunches /\ launches' = Launched(Supervisor, j)
            /\ new.lastLog = Len(launches) + 1 /\ decisions[j].action = "relaunch"
  PROVE  IInv'
<1>1. TypeOK /\ LockOK
  BY DEF IInv
<1>2. /\ Supervisor \in Writers /\ Supervisor # None
      /\ lock = Supervisor /\ lock' = Supervisor /\ disk' = disk
      /\ phase' = "apply" /\ present' = present
  BY <1>1, Names DEF LockOK
<1>3. new # None
  BY DEF NoneAssumption
<1>4. disk \in Registry /\ copy \in [Writers -> Registry] /\ decisions \in [Jobs -> Decision \cup {None}]
  BY <1>1 DEF TypeOK
<1>5. copy' \in [Writers -> Registry] /\ decisions' \in [Jobs -> Decision \cup {None}]
  <2>1. copy[Supervisor] \in Registry
    BY <1>2, <1>4
  <2>2. [copy[Supervisor] EXCEPT ![j] = new] \in Registry
    BY <2>1 DEF Registry
  <2> QED BY <1>4, <2>2
<1>6. launches' \in Seq(Launch) /\ Len(launches') <= MaxLaunches
  BY <1>1, <1>2, LaunchedStep DEF TypeOK
<1>7. TypeOK'
  BY <1>1, <1>2, <1>5, <1>6 DEF TypeOK
<1>8. /\ copy'[Supervisor][j] = new /\ decisions'[j] = None
      /\ \A k \in Jobs : k # j => /\ copy'[Supervisor][k] = copy[Supervisor][k]
                                  /\ decisions'[k] = decisions[k]
      /\ \A w \in Writers : w # Supervisor => copy'[w] = copy[w]
  BY <1>2, <1>4 DEF Registry
<1>9. LockOK'
  BY <1>1, <1>2, <1>8 DEF LockOK
<1>10. ASSUME NEW k \in Jobs PROVE JobOK(k)'
  <2>1. RegistryOK(k) /\ CopyOK(k) /\ DecisionOK(k) /\ DecisionOK(j) /\ RegistryOK(j)
    BY DEF IInv, JobOK
  <2>2. /\ copy[Supervisor][j] = disk[j] /\ Pending(j) = {} /\ disk[j] # None
        /\ decisions[j].action = "relaunch" =>
            /\ ~Alive(j)
            /\ ~disk[j].acknowledged /\ ~IsPast(disk[j])
    BY <2>1 DEF DecisionOK
  <2>3. CASE launches' = launches /\ new.lastLog = disk[j].lastLog
    <3>1. Pending(k)' = Pending(k) /\ Saved(k)' = Saved(k) /\ (Alive(k)' <=> Alive(k))
      BY <2>3 DEF Pending, Saved, Of, Alive
    <3>2. \A i \in Saved(k) : Repeatable(k, i)' <=> Repeatable(k, i)
      BY <2>3, <3>1 DEF Repeatable, Over
    <3>3. RegistryOK(k)'
      BY <2>1, <1>2, <3>1, <3>2 DEF RegistryOK
    <3>4. CopyOK(k)'
      <4>1. CASE k = j
        BY <1>2, <1>3, <1>8, <2>2, <2>3, <3>1, <4>1 DEF CopyOK, LastLog
      <4>2. CASE k # j
        BY <1>2, <1>8, <2>1, <2>3, <3>1, <3>2, <4>2 DEF CopyOK
      <4> QED BY <4>1, <4>2
    <3>5. DecisionOK(k)'
      <4>1. CASE k = j
        BY <1>2, <1>8, <4>1 DEF DecisionOK
      <4>2. CASE k # j
        BY <1>2, <1>8, <2>1, <2>3, <3>1, <4>2 DEF DecisionOK, IsPast, LogOf
      <4> QED BY <4>1, <4>2
    <3> QED BY <3>3, <3>4, <3>5 DEF JobOK
  <2>4. CASE /\ Len(launches) < MaxLaunches /\ launches' = Launched(Supervisor, j)
             /\ new.lastLog = Len(launches) + 1 /\ decisions[j].action = "relaunch"
    <3> DEFINE n == Len(launches) + 1
    <3>1. /\ \A x \in Jobs : Saved(x)' = Saved(x)
          /\ k # j => Pending(k)' = Pending(k) /\ (Alive(k)' <=> Alive(k))
          /\ Pending(j)' = Pending(j) \cup {n}
          /\ \A x \in Jobs : \A i \in Saved(x) : Repeatable(x, i) => Repeatable(x, i)'
          /\ \A x \in Jobs : \A i \in Saved(x) : i < n
          /\ \A i \in DOMAIN launches : launches'[i] = launches[i]
      BY <1>1, <1>2, <2>4, NewPending
    <3>2. new.lastLog = n
      BY <2>4
    <3> HIDE DEF n
    <3>3. RegistryOK(k)'
      BY <2>1, <1>2, <3>1 DEF RegistryOK
    <3>4. \A i \in Saved(j) : Repeatable(j, i)
      <4>1. ASSUME NEW i \in Saved(j) PROVE Repeatable(j, i)
        <5>1. i <= disk[j].lastLog /\ (i < disk[j].lastLog => Repeatable(j, i))
          BY <2>1, <2>2 DEF RegistryOK
        <5>2. CASE i < disk[j].lastLog
          BY <5>1, <5>2
        <5>3. CASE i = disk[j].lastLog
          <6>1. i \in DOMAIN launches /\ i # 0 /\ launches[i].job = j
            BY LaunchType, <1>1 DEF Saved, Of
          <6>2. ~launches[i].alive
            BY <2>2, <2>4, <6>1 DEF Alive, Of
          <6>3. launches[i].wrote \notin {"past", "done"}
            BY <2>2, <2>4, <5>3, <6>1 DEF IsPast, LogOf
          <6> QED BY <6>2, <6>3 DEF Repeatable, Over
        <5>4. i < disk[j].lastLog \/ i = disk[j].lastLog
          <6>1. i \in Nat
            BY LaunchType, <1>1 DEF Saved, Of
          <6>2. disk[j].lastLog \in Nat
            BY <1>1, <2>1, <2>2, LogExists DEF Record
          <6> QED BY <5>1, <6>1, <6>2
        <5> QED BY <5>2, <5>3, <5>4
      <4> QED BY <4>1
    <3>5. CopyOK(k)'
      <4>1. CASE k = j
        <5>1. /\ Pending(j)' = {n} /\ copy'[Supervisor][j] = new
              /\ \A i \in Saved(j)' : i < n /\ Repeatable(j, i)'
          BY <1>8, <2>2, <3>1, <3>4
        <5> QED BY <1>2, <1>3, <3>2, <4>1, <5>1 DEF CopyOK
      <4>2. CASE k # j
        <5>1. \A x \in Pending(k) : launches'[x].by = launches[x].by
          BY <3>1 DEF Pending, Of
        <5> QED BY <1>2, <1>8, <2>1, <3>1, <4>2, <5>1 DEF CopyOK
      <4> QED BY <4>1, <4>2
    <3>6. DecisionOK(k)'
      <4>1. CASE k = j
        BY <1>2, <1>8, <4>1 DEF DecisionOK
      <4>2. CASE k # j
        <5>1. disk[k] # None => (IsPast(disk[k])' <=> IsPast(disk[k]))
          <6>1. disk[k] # None /\ disk[k].lastLog # 0 => disk[k].lastLog \in DOMAIN launches
            BY <1>1, <2>1, LogExists
          <6> QED BY <1>2, <3>1, <6>1 DEF IsPast, LogOf
        <5> QED BY <1>2, <1>8, <2>1, <3>1, <4>2, <5>1 DEF DecisionOK
      <4> QED BY <4>1, <4>2
    <3> QED BY <3>3, <3>5, <3>6 DEF JobOK
  <2> QED BY <2>3, <2>4
<1> QED BY <1>7, <1>9, <1>10 DEF IInv

\* The holder of the lock saves: what was pending is saved.
LEMMA Saves ==
  ASSUME IInv, NEW w \in Writers, lock = w, Save(w),
         phase' = "idle", UNCHANGED <<present, decisions, old, faults>>
  PROVE  IInv'
<1>1. TypeOK /\ LockOK
  BY DEF IInv
<1>2. w # None /\ lock' = None /\ disk' = copy[w] /\ copy' = [copy EXCEPT ![w] = Nothing]
  BY Names DEF Save
<1>3. /\ launches' \in Seq(Launch) /\ Len(launches') = Len(launches)
      /\ DOMAIN launches' = DOMAIN launches
      /\ \A i \in DOMAIN launches :
           /\ launches'[i].job = launches[i].job /\ launches'[i].by = launches[i].by
           /\ launches'[i].wrote = launches[i].wrote /\ launches'[i].alive = launches[i].alive
           /\ launches'[i].known = IF launches[i].known = "pending" THEN "saved" ELSE launches[i].known
  <2>1. launches' = Mark("saved")
    BY DEF Save
  <2> QED BY <1>1, <2>1, MarkStep
<1>4. copy \in [Writers -> Registry] /\ Nothing \in Registry
  BY <1>1 DEF TypeOK, Nothing, Registry
<1>5. TypeOK'
  BY <1>1, <1>2, <1>3, <1>4 DEF TypeOK
<1>6. Evolve
  BY <1>3 DEF Evolve
<1>7. ASSUME NEW j \in Jobs
      PROVE  /\ Saved(j)' = Saved(j) \cup Pending(j) /\ Pending(j)' = {}
             /\ \A i \in Saved(j) : Repeatable(j, i) => Repeatable(j, i)'
  <2>1. Saved(j)' = Saved(j) \cup Pending(j) /\ Pending(j)' = {}
    BY <1>3 DEF Saved, Pending, Of
  <2>2. \A i \in Saved(j) : Repeatable(j, i) => Repeatable(j, i)'
    BY <1>3, <1>6, SavedStays
  <2> QED BY <2>1, <2>2
<1>8. LockOK'
  <2>1. \A u \in Writers : copy'[u] = Nothing
    BY <1>1, <1>2, <1>4 DEF LockOK
  <2> QED BY <1>2, <1>7, <2>1 DEF LockOK
<1>9. ASSUME NEW j \in Jobs PROVE JobOK(j)'
  <2>1. RegistryOK(j) /\ CopyOK(j)
    BY DEF IInv, JobOK
  <2>2. /\ Saved(j)' = Saved(j) \cup Pending(j)
        /\ \A i \in Saved(j) : Repeatable(j, i) => Repeatable(j, i)'
    BY <1>7
  <2>3. disk[j] # None => disk'[j] # None
    BY <1>2, <2>1 DEF CopyOK
  <2>4. RegistryOK(j)'
    <3>1. CASE Pending(j) = {} /\ LastLog(disk'[j]) = LastLog(disk[j])
      <4>1. CASE disk[j] = None
        <5>1. Saved(j)' = {}
          BY <2>1, <2>2, <3>1, <4>1 DEF RegistryOK
        <5>2. disk'[j] # None => disk'[j].lastLog = 0
          BY <3>1, <4>1 DEF LastLog
        <5> QED BY <5>1, <5>2 DEF RegistryOK
      <4>2. CASE disk[j] # None
        BY <2>1, <2>2, <2>3, <3>1, <4>2 DEF RegistryOK, LastLog
      <4> QED BY <4>1, <4>2
    <3>2. CASE \E n \in Pending(j) :
                 /\ Pending(j) = {n} /\ disk'[j] # None /\ disk'[j].lastLog = n
                 /\ \A i \in Saved(j) : i < n /\ (launches[n].by \in Clients \/ Repeatable(j, i))
      <4>1. PICK n \in Pending(j) :
              /\ Pending(j) = {n} /\ disk'[j] # None /\ disk'[j].lastLog = n
              /\ \A i \in Saved(j) : i < n /\ (launches[n].by \in Clients \/ Repeatable(j, i))
        BY <3>2
      <4>2. n \in DOMAIN launches /\ n \in Nat /\ launches'[n].by = launches[n].by
        BY <1>1, <1>3, LaunchType DEF Pending, Of
      <4>3. \A i \in Saved(j) : i \in Nat
        BY <1>1, LaunchType DEF Saved, Of
      <4>4. n \in Saved(j)'
        BY <2>2
      <4>5. ASSUME NEW i \in Saved(j)'
            PROVE  i <= n /\ (i < n => Repeatable(j, i)')
        <5>1. CASE i \in Saved(j)
          <6>1. i < n /\ (launches[n].by \in Clients \/ Repeatable(j, i))
            BY <4>1, <5>1
          <6>2. Repeatable(j, i)'
            <7>1. CASE launches[n].by \in Clients
              <8>1. launches'[n].by \in Clients /\ n > i
                BY <4>2, <4>3, <5>1, <6>1, <7>1
              <8> QED BY <4>4, <8>1 DEF Repeatable
            <7>2. CASE Repeatable(j, i)
              BY <2>2, <5>1, <7>2
            <7> QED BY <6>1, <7>1, <7>2
          <6> QED BY <4>2, <4>3, <5>1, <6>1, <6>2
        <5>2. CASE i \in Pending(j)
          BY <4>1, <4>2, <5>2
        <5> QED BY <2>2, <5>1, <5>2
      <4> QED BY <4>1, <4>4, <4>5 DEF RegistryOK
    <3> QED BY <1>2, <2>1, <3>1, <3>2 DEF CopyOK
  <2>5. CopyOK(j)' /\ DecisionOK(j)'
    BY <1>2 DEF CopyOK, DecisionOK
  <2> QED BY <2>4, <2>5 DEF JobOK
<1> QED BY <1>5, <1>8, <1>9 DEF IInv

\* The holder's work is lost: the registry stays as it was.
LEMMA Lost ==
  ASSUME IInv, TypeOK', lock' = None, \A w \in Writers : copy'[w] = Nothing, disk' = disk,
         phase # "idle" => phase' = "idle", phase' # "idle" => phase # "idle",
         DOMAIN launches' = DOMAIN launches, Evolve,
         \A i \in DOMAIN launches :
           launches'[i].known = IF launches[i].known = "pending" THEN "lost" ELSE launches[i].known
  PROVE  IInv'
<1>1. phase' = "idle"
  OBVIOUS
<1>2. ASSUME NEW j \in Jobs
      PROVE  /\ Saved(j)' = Saved(j) /\ Pending(j)' = {}
             /\ \A i \in Saved(j) : Repeatable(j, i) => Repeatable(j, i)'
  <2>1. Saved(j)' = Saved(j) /\ Pending(j)' = {}
    BY DEF Saved, Pending, Of, Evolve
  <2>2. \A i \in Saved(j) : Repeatable(j, i) => Repeatable(j, i)'
    BY SavedStays
  <2> QED BY <2>1, <2>2
<1>3. LockOK'
  BY <1>1, <1>2 DEF LockOK
<1>4. ASSUME NEW j \in Jobs PROVE JobOK(j)'
  <2>1. RegistryOK(j)
    BY DEF IInv, JobOK
  <2>2. RegistryOK(j)'
    BY <2>1, <1>2 DEF RegistryOK
  <2>3. CopyOK(j)' /\ DecisionOK(j)'
    BY <1>1 DEF CopyOK, DecisionOK
  <2> QED BY <2>2, <2>3 DEF JobOK
<1> QED BY <1>3, <1>4 DEF IInv

-----------------------------------------------------------------------------
(* Every step keeps the invariant.                                         *)

LEMMA InitInv == Init => IInv
<1> SUFFICES ASSUME Init PROVE IInv
  OBVIOUS
<1>1. /\ disk = Nothing /\ lock = None /\ phase = "idle" /\ launches = << >>
      /\ copy = [w \in Writers |-> Nothing] /\ present = None /\ decisions = Nothing
      /\ old = {} /\ faults = 0
  BY DEF Init
<1>2. Nothing \in Registry /\ Nothing \in [Jobs -> Decision \cup {None}]
  BY DEF Nothing, Registry
<1>3. TypeOK
  <2>1. launches \in Seq(Launch) /\ Len(launches) <= MaxLaunches
    BY <1>1, ConstantsAssumption
  <2>2. faults \in 0 .. MaxFaults
    BY <1>1, ConstantsAssumption
  <2> QED BY <1>1, <1>2, <2>1, <2>2 DEF TypeOK
<1>4. \A j \in Jobs : Of(j) = {} /\ disk[j] = None
  BY <1>1 DEF Of, Nothing
<1>5. LockOK
  BY <1>1, <1>4 DEF LockOK, Pending
<1>6. \A j \in Jobs : JobOK(j)
  BY <1>1, <1>4 DEF JobOK, RegistryOK, CopyOK, DecisionOK, Saved
<1> QED BY <1>3, <1>5, <1>6 DEF IInv

\* What a try to launch leaves, whether or not it comes off.
LEMMA LaunchEnds ==
  ASSUME TypeOK, NEW w, NEW j, NEW ok \in BOOLEAN, LaunchRecord(w, j, ok)
  PROVE  /\ old' \subseteq Jobs /\ faults' \in 0 .. MaxFaults
         /\ ok => Len(launches) < MaxLaunches /\ launches' = Launched(w, j)
         /\ ~ok => launches' = launches
<1>1. MaxFaults \in Nat /\ faults \in 0 .. MaxFaults /\ old \subseteq Jobs
  BY ConstantsAssumption DEF TypeOK
<1>2. faults' \in 0 .. MaxFaults
  BY <1>1 DEF LaunchRecord
<1> QED BY <1>1, <1>2 DEF LaunchRecord

LEMMA RelaunchedRecord ==
  ASSUME TypeOK, NEW rec \in Record, LogSize(rec) \in 0 .. 3, NEW ok \in BOOLEAN,
         ok => Len(launches) < MaxLaunches, NEW streak \in 0 .. MaxRelaunches
  PROVE  /\ Relaunched(rec, ok, streak) \in Record
         /\ Relaunched(rec, ok, streak).lastLog = IF ok THEN Len(launches) + 1 ELSE rec.lastLog
<1>1. MaxLaunches \in Nat /\ Len(launches) \in Nat
  BY ConstantsAssumption, LaunchType
<1>2. (IF ok THEN Len(launches) + 1 ELSE rec.lastLog) \in 0 .. MaxLaunches
  BY <1>1 DEF Record
<1>3. (IF ok THEN "relaunched" ELSE "failed") \in States
  BY DEF States
<1> DEFINE size == LogSize(rec)
           log == IF ok THEN Len(launches) + 1 ELSE rec.lastLog
           state == IF ok THEN "relaunched" ELSE "failed"
<1>4. Relaunched(rec, ok, streak) =
        [rec EXCEPT !.sizeAtRelaunch = size, !.lastLog = log, !.relaunched = TRUE,
                    !.streak = streak, !.state = state]
  BY DEF Relaunched, AfterLaunch, Record
<1>5. size \in 0 .. 3 /\ log \in 0 .. MaxLaunches /\ state \in States
  BY <1>2, <1>3
<1> HIDE DEF size, log, state
<1>6. /\ Relaunched(rec, ok, streak) \in Record
      /\ Relaunched(rec, ok, streak).lastLog = log
  BY <1>4, <1>5 DEF Record
<1> QED BY <1>6 DEF log

LEMMA RunJobKeeps ==
  ASSUME IInv, NEW c \in Clients, NEW j \in Jobs, RunJob(c, j)
  PROVE  IInv'
<1>1. TypeOK
  BY DEF IInv
<1>2. PICK resumable, ok \in BOOLEAN :
        /\ LaunchRecord(c, j, ok)
        /\ copy' = [copy EXCEPT ![c] = [disk EXCEPT ![j] =
             [AfterLaunch(NewRecord(resumable), ok) EXCEPT !.state = IF ok THEN @ ELSE "failed"]]]
  BY DEF RunJob
<1> DEFINE new == [AfterLaunch(NewRecord(resumable), ok) EXCEPT !.state = IF ok THEN @ ELSE "failed"]
<1>3. /\ old' \subseteq Jobs /\ faults' \in 0 .. MaxFaults
      /\ ok => Len(launches) < MaxLaunches /\ launches' = Launched(c, j)
      /\ ~ok => launches' = launches
  BY <1>1, <1>2, LaunchEnds
<1>4. /\ MaxLaunches \in Nat /\ MaxRelaunches \in Nat /\ Len(launches) \in Nat
  BY <1>1, ConstantsAssumption, LaunchType
<1>5. /\ new \in Record /\ new.lastLog = IF ok THEN Len(launches) + 1 ELSE 0
  <2> DEFINE rec == NewRecord(resumable)
             log == IF ok THEN Len(launches) + 1 ELSE rec.lastLog
             state == IF ok THEN rec.state ELSE "failed"
  <2>1. rec \in Record /\ rec.lastLog = 0
    BY <1>4 DEF NewRecord, Record, States
  <2>2. log \in 0 .. MaxLaunches /\ state \in States
    BY <1>3, <1>4, <2>1 DEF Record, States
  <2>3. AfterLaunch(rec, ok) = [rec EXCEPT !.lastLog = log]
    BY DEF AfterLaunch
  <2>4. new = [[rec EXCEPT !.lastLog = log] EXCEPT !.state = state]
    <3>1. AfterLaunch(rec, ok).state = rec.state
      <4> HIDE DEF rec, log
      <4> QED BY <2>1, <2>3 DEF Record
    <3>2. new = [AfterLaunch(rec, ok) EXCEPT !.state = state]
      BY <3>1, Zenon
    <3> QED BY <2>3, <3>2, Zenon
  <2> HIDE DEF rec, log, state, new
  <2>5. new \in Record /\ new.lastLog = log
    BY <2>1, <2>2, <2>4 DEF Record
  <2> QED BY <2>1, <2>5 DEF log
<1>6. /\ Locked(c) /\ disk[j] = None /\ UNCHANGED <<disk, tick>>
      /\ copy' = [copy EXCEPT ![c] = [disk EXCEPT ![j] = new]]
  BY <1>2 DEF RunJob
<1>7. LastLog(disk[j]) = 0
  BY <1>6 DEF LastLog
<1> HIDE DEF new
<1> QED BY <1>3, <1>5, <1>6, <1>7, Edit, NoneAssumption

LEMMA RelaunchJobKeeps ==
  ASSUME IInv, NEW c \in Clients, NEW j \in Jobs, RelaunchJob(c, j)
  PROVE  IInv'
<1>1. TypeOK /\ RegistryOK(j)
  BY DEF IInv, JobOK
<1> DEFINE rec == [disk[j] EXCEPT !.acknowledged = FALSE]
<1>2. PICK ok \in BOOLEAN :
        /\ LaunchRecord(c, j, ok)
        /\ copy' = [copy EXCEPT ![c] = [disk EXCEPT ![j] = Relaunched(rec, ok, 0)]]
  BY DEF RelaunchJob
<1>3. /\ old' \subseteq Jobs /\ faults' \in 0 .. MaxFaults
      /\ ok => Len(launches) < MaxLaunches /\ launches' = Launched(c, j)
      /\ ~ok => launches' = launches
  BY <1>1, <1>2, LaunchEnds
<1>4. disk[j] # None /\ Locked(c) /\ UNCHANGED <<disk, tick>>
  BY DEF RelaunchJob
<1>5. disk[j] \in Record /\ LogSize(disk[j]) \in 0 .. 3
  BY <1>1, <1>4, LogExists
<1>6. rec \in Record /\ rec.lastLog = disk[j].lastLog
  BY <1>5 DEF Record
<1>7. LogSize(rec) \in 0 .. 3
  BY <1>5, <1>6 DEF LogSize, LogOf
<1>8. 0 \in 0 .. MaxRelaunches
  BY ConstantsAssumption
<1> HIDE DEF rec
<1>9. /\ Relaunched(rec, ok, 0) \in Record
      /\ Relaunched(rec, ok, 0).lastLog = IF ok THEN Len(launches) + 1 ELSE disk[j].lastLog
  BY <1>1, <1>3, <1>6, <1>7, <1>8, RelaunchedRecord
<1>10. LastLog(disk[j]) = disk[j].lastLog
  BY <1>4 DEF LastLog
<1> DEFINE new == Relaunched(rec, ok, 0)
<1>11. /\ new \in Record /\ new.lastLog = IF ok THEN Len(launches) + 1 ELSE disk[j].lastLog
       /\ copy' = [copy EXCEPT ![c] = [disk EXCEPT ![j] = new]]
  BY <1>2, <1>9
<1> HIDE DEF new
<1> QED BY <1>3, <1>4, <1>10, <1>11, Edit, NoneAssumption

LEMMA LeaveJobKeeps ==
  ASSUME IInv, NEW c \in Clients, NEW j \in Jobs, LeaveJob(c, j)
  PROVE  IInv'
<1>1. TypeOK
  BY DEF IInv
<1>2. /\ disk[j] # None /\ Locked(c) /\ UNCHANGED <<disk, tick, launches, old, faults>>
      /\ copy' = [copy EXCEPT ![c] = [disk EXCEPT ![j] = [disk[j] EXCEPT !.acknowledged = TRUE]]]
  BY DEF LeaveJob
<1>3. disk[j] \in Record /\ old' \subseteq Jobs /\ faults' \in 0 .. MaxFaults
  BY <1>1, <1>2 DEF TypeOK, Registry
<1> DEFINE new == [disk[j] EXCEPT !.acknowledged = TRUE]
<1>4. new \in Record /\ new.lastLog = disk[j].lastLog
  BY <1>3 DEF Record
<1>5. launches' = launches /\ new.lastLog = LastLog(disk[j]) /\ UNCHANGED <<disk, tick>>
  BY <1>2, <1>4 DEF LastLog
<1>6. copy' = [copy EXCEPT ![c] = [disk EXCEPT ![j] = new]]
  BY <1>2
<1> HIDE DEF new
<1>7. new \in Record /\ Locked(c)
  BY <1>2, <1>4
<1> QED BY <1>3, <1>5, <1>6, <1>7, Edit, NoneAssumption

LEMMA ClientSavesKeeps ==
  ASSUME IInv, NEW c \in Clients, ClientSaves(c)
  PROVE  IInv'
<1>1. c \in Writers /\ c # Supervisor
  BY Names
<1>2. lock = c
  BY <1>1 DEF IInv, LockOK, ClientSaves
<1>3. phase = "idle"
  BY <1>1, <1>2 DEF IInv, LockOK
<1>4. Save(c) /\ phase' = "idle" /\ UNCHANGED <<present, decisions, old, faults>>
  BY <1>3 DEF ClientSaves, tick
<1> QED BY <1>1, <1>2, <1>4, Saves

LEMMA TickEndsKeeps ==
  ASSUME IInv, TickEnds
  PROVE  IInv'
<1>1. lock = Supervisor
  BY DEF IInv, LockOK, TickEnds
<1> QED BY <1>1, Names, Saves DEF TickEnds

LEMMA TickBeginsKeeps ==
  ASSUME IInv, TickBegins
  PROVE  IInv'
<1>1. TypeOK /\ LockOK
  BY DEF IInv
<1>2. /\ lock = None /\ lock' = Supervisor /\ phase = "idle" /\ phase' = "decide"
      /\ copy' = [copy EXCEPT ![Supervisor] = disk]
      /\ disk' = disk /\ decisions' = decisions /\ launches' = launches /\ old' = old
      /\ Supervisor \in Writers /\ Supervisor # None
  BY Names DEF TickBegins, Locked
<1>3. /\ faults' \in 0 .. MaxFaults
      /\ present' = {j \in Jobs : Alive(j)} \/ present' = None
  BY <1>1, ConstantsAssumption DEF TickBegins, TypeOK
<1>4. disk \in Registry /\ copy \in [Writers -> Registry]
  BY <1>1 DEF TypeOK
<1>5. TypeOK'
  <2>1. copy' \in [Writers -> Registry] /\ present' \in (SUBSET Jobs) \cup {None}
    BY <1>2, <1>3, <1>4
  <2> QED BY <1>1, <1>2, <1>3, <2>1 DEF TypeOK
<1>6. copy'[Supervisor] = disk /\ \A w \in Writers : w # Supervisor => copy'[w] = Nothing
  BY <1>1, <1>2, <1>4, Names DEF LockOK
<1>7. LockOK'
  BY <1>2, <1>6 DEF LockOK
<1>8. ASSUME NEW j \in Jobs PROVE JobOK(j)'
  <2>1. RegistryOK(j) /\ Pending(j) = {}
    BY <1>1, <1>2 DEF IInv, JobOK, LockOK
  <2>2. Pending(j)' = Pending(j) /\ Saved(j)' = Saved(j) /\ (Alive(j)' <=> Alive(j))
    BY <1>2 DEF Pending, Saved, Of, Alive
  <2>3. \A i \in Saved(j) : Repeatable(j, i)' <=> Repeatable(j, i)
    BY <1>2, <2>2 DEF Repeatable, Over
  <2>4. RegistryOK(j)'
    BY <1>2, <2>1, <2>2, <2>3 DEF RegistryOK
  <2>5. CopyOK(j)'
    BY <1>2, <1>6, <2>1, <2>2 DEF CopyOK, LastLog
  <2>6. DecisionOK(j)'
    BY <1>2, <1>3, <1>6, <2>1, <2>2 DEF DecisionOK
  <2> QED BY <2>4, <2>5, <2>6 DEF JobOK
<1> QED BY <1>5, <1>7, <1>8 DEF IInv

\* What is decided of an active job; only a dead one that can be repeated is
\* relaunched.
LEMMA Decides ==
  ASSUME IInv, phase = "decide", NEW j \in Jobs, IsActive(disk[j])
  PROVE  /\ Decide(j, disk[j]) \in Decision
         /\ Decide(j, disk[j]).action = "relaunch" =>
              /\ ~Alive(j)
              /\ ~disk[j].acknowledged /\ ~IsPast(disk[j])
<1>1. TypeOK /\ RegistryOK(j) /\ DecisionOK(j)
  BY DEF IInv, JobOK
<1>2. disk[j] # None /\ disk[j] \in Record
  BY <1>1, LogExists DEF IsActive
<1> DEFINE act == Action(j, disk[j])
           n == IF act = "relaunch" THEN Streak(j, disk[j]) + 1 ELSE 0
<1>3. act \in Actions
  BY DEF Action, Absent, Actions
<1>4. act = "relaunch" => /\ present # None /\ j \notin present
                          /\ ~disk[j].acknowledged /\ ~IsPast(disk[j])
                          /\ ~(Streak(j, disk[j]) >= MaxRelaunches)
  BY DEF Action, Absent
<1>5. Streak(j, disk[j]) \in 0 .. MaxRelaunches
  BY <1>2, ConstantsAssumption DEF Streak, Record
<1>6. n \in 0 .. MaxRelaunches
  BY <1>4, <1>5, ConstantsAssumption
<1>7. Decide(j, disk[j]) = [action |-> act, streak |-> n]
  BY DEF Decide
<1>8. act = "relaunch" => ~Alive(j)
  BY <1>1, <1>4 DEF DecisionOK
<1> HIDE DEF act, n
<1>9. Decide(j, disk[j]) \in Decision /\ Decide(j, disk[j]).action = act
  BY <1>3, <1>6, <1>7 DEF Decision
<1> QED BY <1>4, <1>8, <1>9

LEMMA DecideAllKeeps ==
  ASSUME IInv, DecideAll
  PROVE  IInv'
<1>1. TypeOK /\ LockOK
  BY DEF IInv
<1>2. /\ phase = "decide" /\ phase' = "apply" /\ present' = None
      /\ disk' = disk /\ lock' = lock /\ copy' = copy /\ launches' = launches
      /\ old' = old /\ faults' = faults
      /\ decisions' = [j \in Jobs |-> IF IsActive(copy[Supervisor][j])
                                        THEN Decide(j, copy[Supervisor][j]) ELSE None]
  BY DEF DecideAll
<1>3. lock = Supervisor
  BY <1>1, <1>2 DEF LockOK
<1>4. ASSUME NEW j \in Jobs
      PROVE  /\ copy[Supervisor][j] = disk[j] /\ Pending(j) = {}
             /\ decisions'[j] = IF IsActive(disk[j]) THEN Decide(j, disk[j]) ELSE None
  BY <1>2 DEF IInv, JobOK, DecisionOK
<1>5. decisions' \in [Jobs -> Decision \cup {None}]
  <2>1. \A j \in Jobs : decisions'[j] \in Decision \cup {None}
    BY <1>2, <1>4, Decides
  <2>2. decisions' = [j \in Jobs |-> decisions'[j]]
    BY <1>2
  <2> QED BY <2>1, <2>2
<1>6. TypeOK'
  BY <1>1, <1>2, <1>5 DEF TypeOK
<1>7. ASSUME NEW j \in Jobs PROVE JobOK(j)' /\ Pending(j)' = Pending(j)
  <2>1. RegistryOK(j) /\ CopyOK(j)
    BY DEF IInv, JobOK
  <2>2. Pending(j)' = Pending(j) /\ Saved(j)' = Saved(j) /\ (Alive(j)' <=> Alive(j))
    BY <1>2 DEF Pending, Saved, Of, Alive
  <2>3. \A i \in Saved(j) : Repeatable(j, i)' <=> Repeatable(j, i)
    BY <1>2, <2>2 DEF Repeatable, Over
  <2>4. RegistryOK(j)'
    BY <1>2, <2>1, <2>2, <2>3 DEF RegistryOK
  <2>5. CopyOK(j)'
    BY <1>2, <2>1, <2>2, <2>3 DEF CopyOK
  <2>6. DecisionOK(j)'
    <3>1. decisions'[j] # None =>
            /\ IsActive(disk[j])
            /\ decisions'[j].action = "relaunch" =>
                 /\ ~Alive(j)
                 /\ ~disk[j].acknowledged /\ ~IsPast(disk[j])
      BY <1>2, <1>4, Decides
    <3>2. IsPast(disk[j])' <=> IsPast(disk[j])
      BY <1>2 DEF IsPast, LogOf
    <3> QED BY <1>2, <1>4, <2>2, <3>1, <3>2 DEF DecisionOK, IsActive
  <2> QED BY <2>2, <2>4, <2>5, <2>6 DEF JobOK
<1>8. LockOK'
  BY <1>1, <1>2, <1>3, <1>7 DEF LockOK
<1> QED BY <1>6, <1>7, <1>8 DEF IInv

LEMMA ApplyKeeps ==
  ASSUME IInv, NEW j \in Jobs, Apply(j)
  PROVE  IInv'
<1>1. TypeOK /\ LockOK /\ RegistryOK(j) /\ DecisionOK(j)
  BY DEF IInv, JobOK
<1>2. /\ phase = "apply" /\ decisions[j] # None
      /\ decisions' = [decisions EXCEPT ![j] = None]
      /\ UNCHANGED <<disk, lock, phase, present>>
  BY DEF Apply
<1>3. copy[Supervisor][j] = disk[j] /\ disk[j] # None
  BY <1>1, <1>2 DEF DecisionOK
<1>4. disk[j] \in Record /\ LogSize(disk[j]) \in 0 .. 3
  BY <1>1, <1>3, LogExists
<1>5. decisions[j] \in Decision
  BY <1>1, <1>2 DEF TypeOK
<1>6. CASE decisions[j].action = "relaunch"
  <2> DEFINE streak == decisions[j].streak
  <2>1. PICK ok \in BOOLEAN :
          /\ LaunchRecord(Supervisor, j, ok)
          /\ copy' = [copy EXCEPT ![Supervisor][j] = Relaunched(disk[j], ok, streak)]
    BY <1>3, <1>6 DEF Apply
  <2>2. /\ old' \subseteq Jobs /\ faults' \in 0 .. MaxFaults
        /\ ok => Len(launches) < MaxLaunches /\ launches' = Launched(Supervisor, j)
        /\ ~ok => launches' = launches
    BY <1>1, <2>1, LaunchEnds
  <2>3. streak \in 0 .. MaxRelaunches
    BY <1>5 DEF Decision
  <2> HIDE DEF streak
  <2> DEFINE new == Relaunched(disk[j], ok, streak)
  <2>4. new \in Record /\ new.lastLog = IF ok THEN Len(launches) + 1 ELSE disk[j].lastLog
    BY <1>1, <1>4, <2>2, <2>3, RelaunchedRecord
  <2>5. copy' = [copy EXCEPT ![Supervisor][j] = new]
    BY <2>1
  <2> HIDE DEF new
  <2> QED BY <1>2, <1>6, <2>2, <2>4, <2>5, Act, NoneAssumption
<1>7. CASE decisions[j].action # "relaunch"
  <2> DEFINE new == Decided(disk[j], decisions[j].action)
  <2>1. new \in Record /\ new.lastLog = disk[j].lastLog
    BY <1>4 DEF Decided, Record, States
  <2>2. copy' = [copy EXCEPT ![Supervisor][j] = new] /\ UNCHANGED <<launches, old, faults>>
    BY <1>3, <1>7 DEF Apply
  <2>3. old' \subseteq Jobs /\ faults' \in 0 .. MaxFaults
    BY <1>1, <2>2 DEF TypeOK
  <2> HIDE DEF new
  <2>4. launches' = launches /\ new.lastLog = disk[j].lastLog
    BY <2>1, <2>2
  <2> QED BY <1>2, <2>1, <2>2, <2>3, <2>4, Act, NoneAssumption
<1> QED BY <1>6, <1>7

LEMMA WriterFailsKeeps ==
  ASSUME IInv, WriterFails
  PROVE  IInv'
<1>1. TypeOK /\ LockOK
  BY DEF IInv
<1>2. /\ lock # None /\ lock' = None /\ disk' = disk /\ old' = old
      /\ copy' = [copy EXCEPT ![lock] = Nothing] /\ launches' = Mark("lost")
      /\ IF lock = Supervisor THEN phase' = "idle" /\ present' = None /\ decisions' = Nothing
                              ELSE UNCHANGED tick
  BY DEF WriterFails
<1>3. lock \in Writers /\ copy \in [Writers -> Registry] /\ Nothing \in Registry
  BY <1>1, <1>2 DEF TypeOK, Nothing, Registry
<1>4. \A w \in Writers : copy'[w] = Nothing
  BY <1>1, <1>2, <1>3 DEF LockOK
<1>5. faults' \in 0 .. MaxFaults
  BY <1>1, ConstantsAssumption DEF WriterFails, TypeOK
<1>6. /\ launches' \in Seq(Launch) /\ Len(launches') = Len(launches)
      /\ DOMAIN launches' = DOMAIN launches
      /\ \A i \in DOMAIN launches :
           /\ launches'[i].job = launches[i].job /\ launches'[i].by = launches[i].by
           /\ launches'[i].wrote = launches[i].wrote /\ launches'[i].alive = launches[i].alive
           /\ launches'[i].known = IF launches[i].known = "pending" THEN "lost" ELSE launches[i].known
  BY <1>1, <1>2, MarkStep
<1>7. /\ phase' \in {"idle", "decide", "apply"} /\ present' \in (SUBSET Jobs) \cup {None}
      /\ decisions' \in [Jobs -> Decision \cup {None}]
  BY <1>1, <1>2 DEF TypeOK, tick, Nothing
<1>8. TypeOK'
  <2>1. copy' \in [Writers -> Registry]
    BY <1>2, <1>3
  <2> QED BY <1>1, <1>2, <1>5, <1>6, <1>7, <2>1 DEF TypeOK
<1>9. phase' = "idle"
  BY <1>1, <1>2 DEF LockOK, tick
<1>10. Evolve
  BY <1>6 DEF Evolve
<1> QED BY <1>2, <1>4, <1>6, <1>8, <1>9, <1>10, Lost

LEMMA MachineRestartsKeeps ==
  ASSUME IInv, MachineRestarts
  PROVE  IInv'
<1>1. TypeOK
  BY DEF IInv
<1>2. /\ lock' = None /\ disk' = disk /\ old' = old
      /\ copy' = [w \in Writers |-> Nothing]
      /\ phase' = "idle" /\ present' = None /\ decisions' = Nothing
      /\ launches' = [i \in DOMAIN launches |-> [Mark("lost")[i] EXCEPT !.alive = FALSE]]
  BY DEF MachineRestarts
<1>3. Nothing \in Registry /\ Nothing \in [Jobs -> Decision \cup {None}]
  BY DEF Nothing, Registry
<1>4. faults' \in 0 .. MaxFaults
  BY <1>1, ConstantsAssumption DEF MachineRestarts, TypeOK
<1>5. /\ launches' \in Seq(Launch) /\ Len(launches') = Len(launches)
      /\ DOMAIN launches' = DOMAIN launches
      /\ \A i \in DOMAIN launches :
           /\ launches'[i].job = launches[i].job /\ launches'[i].by = launches[i].by
           /\ launches'[i].wrote = launches[i].wrote /\ ~launches'[i].alive
           /\ launches'[i].known = IF launches[i].known = "pending" THEN "lost" ELSE launches[i].known
  BY <1>1, <1>2, RestartStep
<1>6. TypeOK'
  BY <1>1, <1>2, <1>3, <1>4, <1>5 DEF TypeOK
<1>7. Evolve
  BY <1>5 DEF Evolve
<1>8. \A w \in Writers : copy'[w] = Nothing
  BY <1>2
<1> QED BY <1>2, <1>5, <1>6, <1>7, <1>8, Lost

LEMMA JobKeeps ==
  ASSUME IInv, NEW n, Job(n)
  PROVE  IInv'
<1>1. TypeOK
  BY DEF IInv
<1>2. UNCHANGED <<disk, lock, copy, tick, old, faults>>
  BY DEF Job
<1>3. /\ launches' \in Seq(Launch) /\ Len(launches') = Len(launches)
      /\ DOMAIN launches' = DOMAIN launches
      /\ \A i \in DOMAIN launches :
              /\ launches'[i].job = launches[i].job /\ launches'[i].by = launches[i].by
              /\ launches'[i].known = launches[i].known
              /\ launches'[i].alive => launches[i].alive
              /\ ~launches[i].alive => launches'[i].wrote = launches[i].wrote
  BY <1>1, JobStep
<1>4. TypeOK'
  BY <1>1, <1>2, <1>3 DEF TypeOK, tick
<1> QED BY <1>2, <1>3, <1>4, Quiet DEF Evolve

LEMMA AgesKeeps ==
  ASSUME IInv, NEW j \in Jobs, Ages(j)
  PROVE  IInv'
<1>1. TypeOK'
  BY DEF IInv, TypeOK, Ages, tick
<1> QED BY <1>1, Quiet DEF Ages, Evolve

LEMMA StepInv == IInv /\ [Next]_vars => IInv'
<1> SUFFICES ASSUME IInv, [Next]_vars PROVE IInv'
  OBVIOUS
<1>1. CASE \E j \in Jobs : Ages(j)
  BY <1>1, AgesKeeps
<1>2. CASE \E c \in Clients, j \in Jobs : RunJob(c, j) \/ RelaunchJob(c, j) \/ LeaveJob(c, j)
  BY <1>2, RunJobKeeps, RelaunchJobKeeps, LeaveJobKeeps
<1>3. CASE \E c \in Clients : ClientSaves(c)
  BY <1>3, ClientSavesKeeps
<1>4. CASE TickBegins
  BY <1>4, TickBeginsKeeps
<1>5. CASE DecideAll
  BY <1>5, DecideAllKeeps
<1>6. CASE \E j \in Jobs : Apply(j)
  BY <1>6, ApplyKeeps
<1>7. CASE TickEnds
  BY <1>7, TickEndsKeeps
<1>8. CASE WriterFails
  BY <1>8, WriterFailsKeeps
<1>9. CASE MachineRestarts
  BY <1>9, MachineRestartsKeeps
<1>10. CASE \E i \in 1 .. MaxLaunches : Job(i)
  BY <1>10, JobKeeps
<1>11. CASE UNCHANGED vars
  <2>1. TypeOK'
    BY <1>11 DEF IInv, TypeOK, vars, tick
  <2> QED BY <1>11, <2>1, Quiet DEF vars, tick, Evolve
<1> QED BY <1>1, <1>2, <1>3, <1>4, <1>5, <1>6, <1>7, <1>8, <1>9, <1>10, <1>11 DEF Next

-----------------------------------------------------------------------------
(* The last launch by a person, as the greatest of a set of numbers.       *)

Less == {pair \in Nat \X Nat : pair[1] < pair[2]}

\* A set of natural numbers that is not empty has a least element.
LEMMA Least ==
  ASSUME NEW S, S \subseteq Nat, S # {}
  PROVE  \E x \in S : \A y \in S : x <= y
<1>1. IsWellFoundedOn(Less, Nat)
  BY NatLessThanWellFounded DEF Less, OpToRel
<1>2. PICK x \in S : \A y \in S : ~ (<<y, x>> \in Less)
  BY <1>1, WFMin, Zenon
<1>3. ASSUME NEW y \in S PROVE x <= y
  <2>1. x \in Nat /\ y \in Nat
    OBVIOUS
  <2>2. ~ (y < x)
    BY <1>2, <2>1 DEF Less
  <2> QED BY <2>1, <2>2
<1> QED BY <1>3

\* ... and a greatest one, when it has a bound.
LEMMA MaxIs ==
  ASSUME NEW S, S \subseteq Nat, S # {}, NEW n \in Nat, \A x \in S : x <= n
  PROVE  Max(S) \in S /\ \A y \in S : Max(S) >= y
<1> DEFINE T == {m \in 0 .. n : n - m \in S}
<1>1. T \subseteq Nat
  OBVIOUS
<1>2. T # {}
  <2>1. PICK x \in S : TRUE
    OBVIOUS
  <2>2. n - x \in T
    BY <2>1
  <2> QED BY <2>2
<1>3. PICK m \in T : \A k \in T : m <= k
  BY <1>1, <1>2, Least, Zenon
<1>4. ASSUME NEW y \in S PROVE n - m >= y
  <2>1. n - y \in T
    OBVIOUS
  <2>2. m <= n - y
    BY <1>3, <2>1
  <2> QED BY <2>2
<1>5. \E x \in S : \A y \in S : x >= y
  BY <1>4
<1> HIDE DEF T
<1> QED BY <1>5 DEF Max

\* No launch that is saved was made by a person after the last one.
LEMMA LastPersonIs ==
  ASSUME TypeOK, NEW j, NEW k \in Saved(j), launches[k].by \in Clients
  PROVE  LastPerson(j) \in Nat /\ LastPerson(j) >= k
<1> DEFINE S == {0} \cup {i \in Saved(j) : launches[i].by \in Clients}
<1>1. Len(launches) \in Nat /\ \A i \in Saved(j) : i \in 1 .. Len(launches)
  BY LaunchType DEF Saved, Of
<1>2. S \subseteq Nat /\ S # {} /\ k \in S /\ \A x \in S : x <= Len(launches)
  BY <1>1
<1> HIDE DEF S
<1>3. Max(S) \in S /\ \A y \in S : Max(S) >= y
  BY <1>1, <1>2, MaxIs
<1>4. LastPerson(j) = Max(S)
  BY DEF LastPerson, S
<1> QED BY <1>2, <1>3, <1>4

-----------------------------------------------------------------------------
(* The theorems.                                                           *)

\* Only the application of a decision to relaunch launches in the supervisor's
\* name.
LEMMA WhoLaunches ==
  ASSUME IInv, [Next]_vars, NEW j \in Jobs, NewLaunch(j)
  PROVE  Apply(j) /\ decisions[j].action = "relaunch"
<1>1. TypeOK
  BY DEF IInv
<1>2. Len(launches) \in Nat
  BY <1>1, LaunchType
<1>3. Len(launches') # Len(launches)
  BY <1>2 DEF NewLaunch
<1>4. ASSUME NEW w \in Writers, NEW k \in Jobs, NEW ok \in BOOLEAN, LaunchRecord(w, k, ok)
      PROVE  k = j /\ w = Supervisor
  <2>1. ok
    BY <1>1, <1>3, <1>4, LaunchEnds
  <2>2. Len(launches) < MaxLaunches /\ launches' = Launched(w, k)
    BY <1>1, <1>4, <2>1, LaunchEnds
  <2>3. /\ Len(launches') = Len(launches) + 1
        /\ launches'[Len(launches) + 1] =
             [job |-> k, by |-> w, wrote |-> "nothing", alive |-> TRUE, known |-> "pending"]
    BY <1>1, <2>2, LaunchedStep
  <2> QED BY <2>3 DEF NewLaunch
<1>5. ASSUME NEW w, Save(w) PROVE FALSE
  BY <1>1, <1>3, <1>5, MarkStep DEF Save
<1>6. CASE \E k \in Jobs : Ages(k)
  BY <1>3, <1>6 DEF Ages
<1>7. CASE \E c \in Clients, k \in Jobs : RunJob(c, k) \/ RelaunchJob(c, k) \/ LeaveJob(c, k)
  <2>1. PICK c \in Clients, k \in Jobs : RunJob(c, k) \/ RelaunchJob(c, k) \/ LeaveJob(c, k)
    BY <1>7
  <2>2. c \in Writers /\ c # Supervisor
    BY Names
  <2>3. CASE RunJob(c, k)
    BY <1>4, <2>2, <2>3 DEF RunJob
  <2>4. CASE RelaunchJob(c, k)
    BY <1>4, <2>2, <2>4 DEF RelaunchJob
  <2>5. CASE LeaveJob(c, k)
    BY <1>3, <2>5 DEF LeaveJob
  <2> QED BY <2>1, <2>3, <2>4, <2>5
<1>8. CASE (\E c \in Clients : ClientSaves(c)) \/ TickEnds
  BY <1>5, <1>8 DEF ClientSaves, TickEnds
<1>9. CASE TickBegins \/ DecideAll
  BY <1>3, <1>9 DEF TickBegins, DecideAll
<1>10. CASE \E k \in Jobs : Apply(k)
  <2>1. PICK k \in Jobs : Apply(k)
    BY <1>10
  <2>2. decisions[k].action = "relaunch"
    BY <1>3, <2>1 DEF Apply
  <2>3. k = j
    BY <1>4, <2>1, <2>2, Names DEF Apply
  <2> QED BY <2>1, <2>2, <2>3
<1>11. CASE WriterFails
  BY <1>1, <1>3, <1>11, MarkStep DEF WriterFails
<1>12. CASE MachineRestarts
  BY <1>1, <1>3, <1>12, RestartStep DEF MachineRestarts
<1>13. CASE \E i \in 1 .. MaxLaunches : Job(i)
  BY <1>1, <1>3, <1>13, JobStep
<1>14. CASE UNCHANGED vars
  BY <1>3, <1>14 DEF vars
<1> QED BY <1>6, <1>7, <1>8, <1>9, <1>10, <1>11, <1>12, <1>13, <1>14 DEF Next

\* What the supervisor relaunches is dead, wanted, and of all that has been saved
\* since a person last launched it nothing was done or past its irreversible step.
LEMMA Relaunches ==
  ASSUME IInv, NEW j \in Jobs, Apply(j), decisions[j].action = "relaunch"
  PROVE  /\ ~Alive(j)
         /\ disk[j] # None /\ ~disk[j].acknowledged
         /\ \A i \in Saved(j) : i >= LastPerson(j) => launches[i].wrote \notin {"past", "done"}
<1>1. TypeOK /\ RegistryOK(j) /\ DecisionOK(j)
  BY DEF IInv, JobOK
<1>2. ~Alive(j) /\ disk[j] # None /\ ~disk[j].acknowledged /\ ~IsPast(disk[j])
  BY <1>1 DEF Apply, DecisionOK
<1>3. ASSUME NEW i \in Saved(j), i >= LastPerson(j)
      PROVE  launches[i].wrote \notin {"past", "done"}
  <2>1. i \in Nat /\ i # 0
    BY <1>1, LaunchType DEF Saved, Of
  <2>2. disk[j].lastLog \in Nat
    BY <1>1, <1>2, LogExists DEF Record
  <2>3. i <= disk[j].lastLog /\ (i < disk[j].lastLog => Repeatable(j, i))
    BY <1>1, <1>2 DEF RegistryOK
  <2>4. CASE i = disk[j].lastLog
    BY <1>2, <2>1, <2>4 DEF IsPast, LogOf
  <2>5. CASE i < disk[j].lastLog
    <3>1. CASE Over(i)
      BY <3>1 DEF Over
    <3>2. CASE \E k \in Saved(j) : launches[k].by \in Clients /\ k > i
      <4>1. PICK k \in Saved(j) : launches[k].by \in Clients /\ k > i
        BY <3>2
      <4>2. k \in Nat
        BY <1>1, LaunchType DEF Saved, Of
      <4>3. LastPerson(j) \in Nat /\ LastPerson(j) >= k
        BY <1>1, <4>1, LastPersonIs
      <4> QED BY <1>3, <2>1, <4>1, <4>2, <4>3
    <3> QED BY <2>3, <2>5, <3>1, <3>2 DEF Repeatable
  <2> QED BY <2>1, <2>2, <2>3, <2>4, <2>5
<1> QED BY <1>2, <1>3

\* The strengthening that the theorems rest on holds in every state.
THEOREM Invariant == Spec => []IInv
BY InitInv, StepInv, PTL DEF Spec

\* Every variable keeps its type: no record leaves its bounds, and no launch is
\* named that was never made (src/engine/durable_jobs.py).
THEOREM TypeCorrect == Spec => []TypeOK
<1>1. IInv => TypeOK
  BY DEF IInv
<1> QED BY Invariant, <1>1, PTL

\* The supervisor never starts a second process of a job that runs, whoever
\* launched the first one and whether or not it was ever saved.
THEOREM NoSecondRunHolds == Spec => NoSecondRun
<1>1. IInv /\ [Next]_vars => [\A j \in Jobs : NewLaunch(j) => ~Alive(j)]_vars
  BY WhoLaunches, Relaunches
<1> QED BY Invariant, <1>1, PTL DEF Spec, NoSecondRun

\* The supervisor relaunches only what is due.
THEOREM RelaunchIsDueHolds == Spec => RelaunchIsDue
<1>1. IInv /\ [Next]_vars =>
        [\A j \in Jobs : NewLaunch(j) =>
           /\ disk[j] # None /\ ~disk[j].acknowledged
           /\ \A i \in Saved(j) : i >= LastPerson(j) => launches[i].wrote \notin {"past", "done"}]_vars
  BY WhoLaunches, Relaunches
<1> QED BY Invariant, <1>1, PTL DEF Spec, RelaunchIsDue
=============================================================================
