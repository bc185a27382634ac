------------------------ MODULE SubsessionInboxProofs ------------------------
(***************************************************************************)
(* Proofs about SubsessionInbox, for every number of threads, every cap    *)
(* and every bound: the lock of a process protects the file from the       *)
(* threads of that process, and a waiting report is noticed unless its     *)
(* flag was lost.                                                          *)
(***************************************************************************)
EXTENDS SubsessionInbox, SequenceTheorems, FiniteSetTheorems, TLAPS

Labels == {"idle", "append", "append_write", "mark", "check", "drain", "drain_write",
           "clear", "send"}
Writes == {"append_write", "drain_write"}

\* What is in the file does not matter here, only that it is a sequence.
IsList(q) == \E S : q \in Seq(S)

Shape ==
  /\ pc \in [Threads -> Labels]
  /\ lock \in [Procs -> Threads \cup {None}]
  /\ DOMAIN copy = Threads /\ copy = [t \in Threads |-> copy[t]]
  /\ \A t \in Threads : IsList(copy[t])
  /\ IsList(inbox)
  /\ written \in Nat

\* A thread is between its load and its write exactly while it holds its process's lock.
Locked == \A t \in Threads : pc[t] \in Writes <=> lock[Proc(t)] = t

\* Until the two processes meet in the file, one of them is in it at most, and its copy is
\* what the file holds.
Exclusive == overlapped \/ \A p, r \in Procs : lock[p] # None /\ lock[r] # None => p = r
Current   == overlapped \/ \A t \in Threads : pc[t] \in Writes => copy[t] = inbox

FileInv == Shape /\ Locked /\ Exclusive /\ Current /\ LostOnlyToOverlap

-----------------------------------------------------------------------------
(* The file's operations on lists.                                         *)

LEMMA ProcType == \A t \in Threads : Proc(t) \in Procs
BY DEF Proc, Procs

LEMMA AppendedIds ==
  ASSUME NEW q, IsList(q), NEW e
  PROVE  /\ IsList(Append(q, e))
         /\ IdsOf(q) \cup {e.id} \subseteq IdsOf(Append(q, e))
<1>1. PICK S : q \in Seq(S)
  BY DEF IsList
<1> DEFINE T == S \cup {e}
<1>2. q \in Seq(T)
  BY <1>1, SeqMonotonic, S \subseteq T
<1>3. /\ Append(q, e) \in Seq(T)
      /\ Len(q) \in Nat /\ DOMAIN q = 1 .. Len(q)
      /\ DOMAIN Append(q, e) = 1 .. Len(q) + 1
      /\ \A i \in 1 .. Len(q) : Append(q, e)[i] = q[i]
      /\ Append(q, e)[Len(q) + 1] = e
  <2> HIDE DEF T
  <2>1. e \in T
    BY DEF T
  <2> QED BY <1>2, <2>1, AppendProperties
<1>4. IsList(Append(q, e))
  BY <1>3 DEF IsList
<1>5. IdsOf(q) \cup {e.id} \subseteq IdsOf(Append(q, e))
  BY <1>3 DEF IdsOf
<1> QED BY <1>4, <1>5

LEMMA CappedList == ASSUME NEW q, IsList(q) PROVE IsList(EnforceCap(q))
<1> DEFINE f == [i \in 1 .. Cap |-> (Done(q) \o Waiting(q))[Len(q) - Cap + i]]
           S == {f[i] : i \in 1 .. Cap}
<1>1. f \in [1 .. Cap -> S]
  OBVIOUS
<1>2. f \in Seq(S)
  <2> HIDE DEF f, S
  <2> QED BY <1>1, CapAssumption, SeqDef
<1>3. IsList(f)
  BY <1>2 DEF IsList
<1> HIDE DEF f
<1>4. EnforceCap(q) = q \/ EnforceCap(q) = f
  BY DEF EnforceCap, f
<1> QED BY <1>3, <1>4

LEMMA DeliveredIds ==
  ASSUME NEW q, IsList(q)
  PROVE  LET d == [i \in DOMAIN q |-> [id |-> q[i].id, delivered |-> TRUE]]
         IN  IsList(d) /\ IdsOf(d) = IdsOf(q)
<1> DEFINE d == [i \in DOMAIN q |-> [id |-> q[i].id, delivered |-> TRUE]]
           S == {d[i] : i \in DOMAIN q}
<1>1. DOMAIN q = 1 .. Len(q) /\ Len(q) \in Nat
  BY DEF IsList
<1>2. d \in [1 .. Len(q) -> S]
  BY <1>1
<1>3. d \in Seq(S)
  <2> HIDE DEF d, S
  <2> QED BY <1>1, <1>2, SeqDef
<1>4. IsList(d)
  BY <1>3 DEF IsList
<1>5. DOMAIN d = DOMAIN q /\ \A i \in DOMAIN q : d[i].id = q[i].id
  OBVIOUS
<1>6. IdsOf(d) = IdsOf(q)
  BY <1>5 DEF IdsOf
<1> QED BY <1>4, <1>6

-----------------------------------------------------------------------------
(* The three kinds of steps a thread takes with respect to the file.       *)

\* It is not in the file.
LEMMA AsideStep ==
  ASSUME FileInv, pc' \in [Threads -> Labels],
         \A t \in Threads : pc'[t] \in Writes <=> pc[t] \in Writes,
         UNCHANGED <<inbox, written, evicted, lock, copy, overlapped>>
  PROVE  FileInv'
BY DEF FileInv, Shape, Locked, Exclusive, Current, LostOnlyToOverlap, NothingOverwritten, IdsOf,
       IsList, Procs, Proc

\* It takes its process's lock and loads the file.
LEMMA LoadStep ==
  ASSUME FileInv, NEW t \in Threads, NEW l \in Writes, Load(t),
         pc' = [pc EXCEPT ![t] = l],
         UNCHANGED <<inbox, written, evicted>>
  PROVE  FileInv'
<1> USE DEF FileInv
<1>1. Proc(t) \in Procs /\ None \notin Threads
  BY ProcType, ThreadsAssumption DEF Threads
<1>2. /\ lock' \in [Procs -> Threads \cup {None}]
      /\ lock'[Proc(t)] = t
      /\ \A p \in Procs : p # Proc(t) => lock'[p] = lock[p]
  BY <1>1 DEF Load, Shape
<1>3. /\ copy'[t] = inbox
      /\ \A u \in Threads : u # t => copy'[u] = copy[u]
      /\ copy' = [u \in Threads |-> copy'[u]] /\ DOMAIN copy' = Threads
  BY DEF Load, Shape
<1>4. /\ pc' \in [Threads -> Labels] /\ pc'[t] = l
      /\ \A u \in Threads : u # t => pc'[u] = pc[u]
  BY DEF Shape, Labels, Writes
<1>5. Shape'
  BY <1>2, <1>3, <1>4 DEF Shape, IsList
<1>6. Locked'
  <2>1. ASSUME NEW u \in Threads, u # t PROVE pc'[u] \in Writes <=> lock'[Proc(u)] = u
    <3>1. CASE Proc(u) = Proc(t)
      <4>1. lock[Proc(u)] = None /\ None # u
        BY <1>1, <3>1 DEF Load
      <4> QED BY <1>2, <1>4, <2>1, <3>1, <4>1 DEF Locked
    <3>2. CASE Proc(u) # Proc(t)
      BY <1>2, <1>4, <2>1, <3>2, ProcType DEF Locked
    <3> QED BY <3>1, <3>2
  <2> QED BY <1>2, <1>4, <2>1 DEF Locked
<1>7. Exclusive'
  BY <1>1, <1>2 DEF Exclusive, Load
<1>8. Current'
  BY <1>3, <1>4 DEF Current, Load
<1>9. LostOnlyToOverlap'
  BY DEF LostOnlyToOverlap, NothingOverwritten, Load, IdsOf
<1> QED BY <1>5, <1>6, <1>7, <1>8, <1>9

\* It leaves the file, which holds every report that it held before, and unlocks.
LEMMA ReleaseStep ==
  ASSUME FileInv, NEW t \in Threads, NEW l \in Labels \ Writes, Unlock(t),
         pc[t] \in Writes, pc' = [pc EXCEPT ![t] = l],
         IsList(inbox'), written' \in Nat, LostOnlyToOverlap',
         UNCHANGED <<copy, overlapped>>
  PROVE  FileInv'
<1> USE DEF FileInv
<1>1. Proc(t) \in Procs /\ None \notin Threads
  BY ProcType, ThreadsAssumption DEF Threads
<1>2. /\ lock' \in [Procs -> Threads \cup {None}]
      /\ lock'[Proc(t)] = None
      /\ \A p \in Procs : p # Proc(t) => lock'[p] = lock[p]
  BY <1>1 DEF Unlock, Shape
<1>3. /\ pc' \in [Threads -> Labels] /\ pc'[t] = l
      /\ \A u \in Threads : u # t => pc'[u] = pc[u]
  BY DEF Shape
<1>4. lock[Proc(t)] = t
  BY DEF Locked
<1>5. Shape'
  BY <1>2, <1>3 DEF Shape
<1>6. Locked'
  <2>1. ASSUME NEW u \in Threads, u # t PROVE pc'[u] \in Writes <=> lock'[Proc(u)] = u
    BY <1>1, <1>2, <1>3, <1>4, <2>1, ProcType DEF Locked
  <2>2. lock'[Proc(t)] # t
    BY <1>1, <1>2
  <2> QED BY <1>3, <2>1, <2>2 DEF Locked
<1>7. Exclusive'
  BY <1>2 DEF Exclusive
<1>8. Current'
  <2>1. ASSUME NEW u \in Threads, pc'[u] \in Writes, ~overlapped PROVE FALSE
    <3>1. u # t /\ pc[u] \in Writes
      BY <1>3, <2>1
    <3>2. lock[Proc(u)] = u
      BY <3>1 DEF Locked
    <3>3. Proc(u) = Proc(t)
      BY <1>1, <1>4, <2>1, <3>2, ProcType DEF Exclusive
    <3> QED BY <1>4, <3>1, <3>2, <3>3
  <2> QED BY <2>1 DEF Current
<1> QED BY <1>5, <1>6, <1>7, <1>8

-----------------------------------------------------------------------------
LEMMA FileInit == Init => FileInv
<1> SUFFICES ASSUME Init PROVE FileInv
  OBVIOUS
<1>1. IsList(<< >>)
  BY << >> \in Seq({}) DEF IsList
<1>2. Shape
  BY <1>1 DEF Init, Shape, Labels
<1>3. Locked /\ Exclusive /\ Current
  BY ProcType, ThreadsAssumption DEF Init, Locked, Exclusive, Current, Writes, Threads
<1>4. LostOnlyToOverlap
  BY DEF Init, LostOnlyToOverlap, NothingOverwritten
<1> QED BY <1>2, <1>3, <1>4 DEF FileInv

LEMMA FileStep == FileInv /\ [Next]_vars => FileInv'
<1> SUFFICES ASSUME FileInv, [Next]_vars PROVE FileInv'
  OBVIOUS
<1> USE DEF fileVars, parentVars, childVars, bounds
<1>0. pc \in [Threads -> Labels]
  BY DEF FileInv, Shape
<1>1. ASSUME NEW t \in Threads, BeginReport(t) PROVE FileInv'
  <2>1. pc' \in [Threads -> Labels] /\ \A u \in Threads : pc'[u] \in Writes <=> pc[u] \in Writes
    BY <1>0, <1>1 DEF BeginReport, Moves, Labels, Writes
  <2> QED BY <1>1, <2>1, AsideStep DEF BeginReport
<1>2. ASSUME ChildSpeaks PROVE FileInv'
  BY <1>0, <1>2, AsideStep DEF ChildSpeaks
<1>3. ASSUME NEW t \in Threads, AutoReport(t) PROVE FileInv'
  <2>1. pc' \in [Threads -> Labels] /\ \A u \in Threads : pc'[u] \in Writes <=> pc[u] \in Writes
    BY <1>0, <1>3 DEF AutoReport, Labels, Writes
  <2> QED BY <1>3, <2>1, AsideStep DEF AutoReport
<1>4. ASSUME NEW t \in Threads, AppendLoad(t) PROVE FileInv'
  BY <1>4, LoadStep, "append_write" \in Writes DEF AppendLoad, Moves, Writes
<1>5. ASSUME NEW t \in Threads, AppendWrite(t) PROVE FileInv'
  <2> DEFINE e == [id |-> written', delivered |-> FALSE]
             q == Append(copy[t], e)
  <2>1. /\ written' = written + 1 /\ written \in Nat /\ pc[t] \in Writes /\ IsList(copy[t])
        /\ inbox' = EnforceCap(q)
        /\ evicted' = evicted \cup (IdsOf(q) \ IdsOf(inbox'))
        /\ UNCHANGED <<copy, overlapped>>
    BY <1>5 DEF AppendWrite, Moves, Writes, FileInv, Shape
  <2>2. e.id = written'
    OBVIOUS
  <2> HIDE DEF e
  <2>3. IsList(q) /\ IdsOf(copy[t]) \cup {e.id} \subseteq IdsOf(q)
    BY <2>1, AppendedIds
  <2> HIDE DEF q
  <2>4. IsList(inbox')
    BY <2>1, <2>3, CappedList
  <2>5. LostOnlyToOverlap'
    <3> SUFFICES ASSUME ~overlapped, NEW r \in 1 .. written' PROVE r \in IdsOf(inbox') \cup evicted'
      BY <2>1 DEF LostOnlyToOverlap, NothingOverwritten, IdsOf
    <3>1. copy[t] = inbox
      BY <2>1 DEF FileInv, Current
    <3>2. r \in IdsOf(q) \cup evicted
      <4>1. CASE r = written'
        BY <2>2, <2>3, <4>1
      <4>2. CASE r # written'
        <5>1. r \in 1 .. written
          BY <2>1, <4>2
        <5> QED BY <2>3, <3>1, <5>1 DEF FileInv, LostOnlyToOverlap, NothingOverwritten
      <4> QED BY <4>1, <4>2
    <3> QED BY <2>1, <3>2
  <2>6. written' \in Nat
    BY <2>1
  <2>7. Unlock(t) /\ pc' = [pc EXCEPT ![t] = "mark"] /\ "mark" \in Labels \ Writes
    BY <1>5 DEF AppendWrite, Moves, Labels, Writes
  <2> QED BY <2>1, <2>4, <2>5, <2>6, <2>7, ReleaseStep
<1>6. ASSUME NEW t \in Threads, AppendFails(t) PROVE FileInv'
  <2>1. Unlock(t) /\ pc[t] \in Writes /\ pc' = [pc EXCEPT ![t] = "idle"]
        /\ "idle" \in Labels \ Writes /\ UNCHANGED <<inbox, written, evicted, copy, overlapped>>
    BY <1>6 DEF AppendFails, Moves, Labels, Writes
  <2>2. IsList(inbox') /\ written' \in Nat /\ LostOnlyToOverlap'
    BY <2>1 DEF FileInv, Shape, LostOnlyToOverlap, NothingOverwritten, IdsOf
  <2> QED BY <2>1, <2>2, ReleaseStep
<1>7. ASSUME NEW t \in Threads, Mark(t) \/ MarkFails(t) PROVE FileInv'
  <2>1. pc' \in [Threads -> Labels] /\ \A u \in Threads : pc'[u] \in Writes <=> pc[u] \in Writes
    BY <1>0, <1>7 DEF Mark, MarkFails, Moves, Labels, Writes
  <2> QED BY <1>7, <2>1, AsideStep DEF Mark, MarkFails
<1>8. ASSUME NEW t \in Threads, BeginSend(t) PROVE FileInv'
  <2>1. pc' \in [Threads -> Labels] /\ \A u \in Threads : pc'[u] \in Writes <=> pc[u] \in Writes
    BY <1>0, <1>8 DEF BeginSend, Moves, Labels, Writes
  <2> QED BY <1>8, <2>1, AsideStep DEF BeginSend
<1>9. ASSUME NEW t \in Threads, CheckDirty(t) PROVE FileInv'
  <2>1. pc' \in [Threads -> Labels] /\ \A u \in Threads : pc'[u] \in Writes <=> pc[u] \in Writes
    BY <1>0, <1>9 DEF CheckDirty, Moves, Labels, Writes
  <2> QED BY <1>9, <2>1, AsideStep DEF CheckDirty
<1>10. ASSUME NEW t \in Threads, DrainLoad(t) PROVE FileInv'
  BY <1>10, LoadStep, "drain_write" \in Writes DEF DrainLoad, Moves, Writes
<1>11. ASSUME NEW t \in Threads, DrainWrite(t) PROVE FileInv'
  <2> DEFINE d == [i \in DOMAIN copy[t] |-> [id |-> copy[t][i].id, delivered |-> TRUE]]
  <2>1. /\ pc[t] \in Writes /\ IsList(copy[t]) /\ IsList(inbox) /\ written \in Nat
        /\ inbox' = inbox \/ inbox' = d
        /\ UNCHANGED <<written, evicted, copy, overlapped>>
    BY <1>11 DEF DrainWrite, Moves, Writes, FileInv, Shape
  <2>2. IsList(d) /\ IdsOf(d) = IdsOf(copy[t])
    BY <2>1, DeliveredIds
  <2> HIDE DEF d
  <2>3. IsList(inbox')
    BY <2>1, <2>2
  <2>4. LostOnlyToOverlap'
    <3> SUFFICES ASSUME ~overlapped PROVE NothingOverwritten'
      BY <2>1 DEF LostOnlyToOverlap
    <3>1. IdsOf(inbox') = IdsOf(inbox)
      BY <2>1, <2>2 DEF FileInv, Current
    <3> QED BY <2>1, <3>1 DEF FileInv, LostOnlyToOverlap, NothingOverwritten, IdsOf
  <2>5. Unlock(t) /\ pc' = [pc EXCEPT ![t] = "clear"] /\ "clear" \in Labels \ Writes
    BY <1>11 DEF DrainWrite, Moves, Labels, Writes
  <2> QED BY <2>1, <2>3, <2>4, <2>5, ReleaseStep
<1>12. ASSUME NEW t \in Threads, DrainFails(t) PROVE FileInv'
  <2>1. Unlock(t) /\ pc[t] \in Writes /\ pc' = [pc EXCEPT ![t] = "clear"]
        /\ "clear" \in Labels \ Writes /\ UNCHANGED <<inbox, written, evicted, copy, overlapped>>
    BY <1>12 DEF DrainFails, Moves, Labels, Writes
  <2>2. IsList(inbox') /\ written' \in Nat /\ LostOnlyToOverlap'
    BY <2>1 DEF FileInv, Shape, LostOnlyToOverlap, NothingOverwritten, IdsOf
  <2> QED BY <2>1, <2>2, ReleaseStep
<1>13. ASSUME NEW t \in Threads, ClearDirty(t) \/ SendOrRefuse(t) PROVE FileInv'
  <2>1. pc' \in [Threads -> Labels] /\ \A u \in Threads : pc'[u] \in Writes <=> pc[u] \in Writes
    BY <1>0, <1>13 DEF ClearDirty, SendOrRefuse, Moves, Labels, Writes
  <2> QED BY <1>13, <2>1, AsideStep DEF ClearDirty, SendOrRefuse
<1>14. ASSUME Stop \/ Wake PROVE FileInv'
  BY <1>0, <1>14, AsideStep DEF Stop, Wake
\* The death of the engine frees its lock and touches nothing of the web server.
<1>15. ASSUME EngineRestart PROVE FileInv'
  <2>1. /\ lock' = [lock EXCEPT !["engine"] = None]
        /\ pc' = [t \in Threads |-> IF t \in EngineThreads THEN "idle" ELSE pc[t]]
        /\ UNCHANGED <<inbox, written, evicted, copy, overlapped>>
    BY <1>15 DEF EngineRestart
  <2>2. Shape'
    BY <2>1 DEF FileInv, Shape, Labels, IsList
  <2>3. Locked'
    <3>1. ASSUME NEW t \in EngineThreads PROVE pc'[t] \notin Writes /\ lock'[Proc(t)] # t
      BY <2>1, ThreadsAssumption DEF Writes, Threads, Proc, FileInv, Shape, Procs
    <3>2. ASSUME NEW t \in Threads, t \notin EngineThreads
          PROVE  pc'[t] = pc[t] /\ lock'[Proc(t)] = lock[Proc(t)]
      BY <2>1, <3>2 DEF Threads, Proc, FileInv, Shape, Procs
    <3> QED BY <3>1, <3>2 DEF FileInv, Locked
  <2>4. Exclusive'
    BY <2>1 DEF FileInv, Exclusive, Shape, Procs
  <2>5. Current'
    BY <2>1 DEF FileInv, Current, Writes
  <2>6. LostOnlyToOverlap'
    BY <2>1 DEF FileInv, LostOnlyToOverlap, NothingOverwritten, IdsOf
  <2> QED BY <2>2, <2>3, <2>4, <2>5, <2>6 DEF FileInv
<1>16. CASE UNCHANGED vars
  BY <1>0, <1>16, AsideStep DEF vars
<1> QED BY <1>1, <1>2, <1>3, <1>4, <1>5, <1>6, <1>7, <1>8, <1>9, <1>10, <1>11, <1>12, <1>13,
           <1>14, <1>15, <1>16
        DEF Next, Report, Send

\* However many threads send, drain and report, and whatever fails or dies in between, a
\* written report is in the file or was evicted, as long as the two processes have not met
\* in the file (append_report, drain_undelivered, _lock_for).
THEOREM LockSuffices == Spec => []LostOnlyToOverlap
<1>1. FileInv => LostOnlyToOverlap
  BY DEF FileInv
<1> QED BY FileInit, FileStep, <1>1, PTL DEF Spec

-----------------------------------------------------------------------------
(* The cached flag.                                                        *)

\* A waiting report of a parent in memory has the flag set, or a thread about to set it, or
\* one about to clear it and to account for what it clears.
Noticed ==
  HasUndelivered /\ parent # "absent" =>
    dirty \/ missed \/ \E t \in Threads : pc[t] \in {"mark", "clear"}
FlagInv == pc \in [Threads -> Labels] /\ Noticed

LEMMA FlagInit == Init => FlagInv
BY DEF Init, FlagInv, Noticed, HasUndelivered, Labels

LEMMA FlagStep == FlagInv /\ [Next]_vars => FlagInv'
<1> SUFFICES ASSUME FlagInv, [Next]_vars PROVE FlagInv'
  OBVIOUS
<1> USE DEF fileVars, parentVars, childVars, bounds, FlagInv
\* A step that leaves the file, the flag and the parent alone and ends no mark or clear.
<1>0. ASSUME pc' \in [Threads -> Labels], UNCHANGED <<inbox, parent, dirty, missed>>,
             \A t \in Threads : pc[t] \in {"mark", "clear"} => pc'[t] \in {"mark", "clear"}
      PROVE  FlagInv'
  BY <1>0 DEF Noticed, HasUndelivered
<1>1. ASSUME NEW t \in Threads,
             BeginReport(t) \/ AutoReport(t) \/ AppendLoad(t) \/ AppendFails(t)
      PROVE  FlagInv'
  BY <1>0, <1>1 DEF BeginReport, AutoReport, AppendLoad, AppendFails, Moves, Labels
<1>2. ASSUME NEW t \in Threads, AppendWrite(t) \/ DrainWrite(t) \/ DrainFails(t) PROVE FlagInv'
  <2>1. pc' \in [Threads -> Labels] /\ pc'[t] \in {"mark", "clear"}
    BY <1>2 DEF AppendWrite, DrainWrite, DrainFails, Moves, Labels
  <2> QED BY <2>1 DEF Noticed
<1>3. ASSUME NEW t \in Threads, Mark(t) \/ MarkFails(t) \/ ClearDirty(t) PROVE FlagInv'
  <2>1. pc' \in [Threads -> Labels] /\ UNCHANGED <<inbox, parent>>
    BY <1>3 DEF Mark, MarkFails, ClearDirty, Moves, Labels
  <2>2. HasUndelivered' <=> HasUndelivered
    BY <2>1 DEF HasUndelivered
  <2>3. HasUndelivered' /\ parent' # "absent" => dirty' \/ missed'
    <3>1. CASE Mark(t)
      BY <2>1, <3>1 DEF Mark
    <3>2. CASE MarkFails(t)
      BY <2>2, <3>2 DEF MarkFails, Waiting
    <3>3. CASE ClearDirty(t)
      BY <2>2, <3>3 DEF ClearDirty
    <3> QED BY <1>3, <3>1, <3>2, <3>3
  <2> QED BY <2>1, <2>3 DEF Noticed
<1>4. ASSUME NEW t \in Threads, BeginSend(t) PROVE FlagInv'
  <2>1. /\ pc' \in [Threads -> Labels] /\ UNCHANGED inbox
        /\ \A u \in Threads : pc[u] \in {"mark", "clear"} => pc'[u] \in {"mark", "clear"}
    BY <1>4 DEF BeginSend, Moves, Labels
  <2>2. HasUndelivered' <=> HasUndelivered
    BY <2>1 DEF HasUndelivered
  <2>3. CASE parent = "absent"
    BY <1>4, <2>1, <2>2, <2>3 DEF BeginSend, Loads, Noticed
  <2>4. CASE parent # "absent"
    BY <1>0, <1>4, <2>1, <2>4 DEF BeginSend
  <2> QED BY <2>3, <2>4
<1>5. ASSUME NEW t \in Threads, CheckDirty(t) \/ DrainLoad(t) \/ SendOrRefuse(t) PROVE FlagInv'
  BY <1>0, <1>5 DEF CheckDirty, DrainLoad, SendOrRefuse, Moves, Labels
<1>6. ASSUME ChildSpeaks PROVE FlagInv'
  BY <1>0, <1>6 DEF ChildSpeaks
<1>7. ASSUME Stop PROVE FlagInv'
  BY <1>7 DEF Stop, Noticed, HasUndelivered
<1>8. ASSUME Wake PROVE FlagInv'
  BY <1>8 DEF Wake, Loads, Noticed, HasUndelivered
\* recover_sessions derives the flag from the file.
<1>9. ASSUME EngineRestart PROVE FlagInv'
  <2>1. UNCHANGED inbox /\ pc' \in [Threads -> Labels]
    BY <1>9 DEF EngineRestart, Labels
  <2>2. (parent' = "live" /\ dirty' = HasUndelivered) \/ parent' = "absent"
    BY <1>9 DEF EngineRestart
  <2>3. HasUndelivered' <=> HasUndelivered
    BY <2>1 DEF HasUndelivered
  <2> QED BY <2>1, <2>2, <2>3 DEF Noticed
<1>10. CASE UNCHANGED vars
  BY <1>0, <1>10 DEF vars
<1> QED BY <1>1, <1>2, <1>3, <1>4, <1>5, <1>6, <1>7, <1>8, <1>9, <1>10
        DEF Next, Report, Send

\* However the marks, the drains, the loads of the parent and the deaths of the engine
\* interleave, once every thread is done a waiting report of a parent in memory has its flag
\* set, unless one of the four steps that lose it did (mark_inbox_dirty, send_message,
\* start_session, recover_sessions).
THEOREM FlagFollowsFile == Spec => []NoticedUnlessMissed
<1>1. FlagInv => NoticedUnlessMissed
  BY DEF FlagInv, Noticed, NoticedUnlessMissed, Quiescent
<1> QED BY FlagInit, FlagStep, <1>1, PTL DEF Spec
-----------------------------------------------------------------------------
(* Lists taken from a list in order.                                       *)

Rank(places, n) == Cardinality({m \in places : m <= n})

\* The rank of a place is positive, at most the number of places, and grows with the place.
LEMMA RankGrows ==
  ASSUME NEW places \in SUBSET Nat, IsFiniteSet(places)
  PROVE  /\ Cardinality(places) \in Nat
         /\ \A n \in places : Rank(places, n) \in 1 .. Cardinality(places)
         /\ \A m, n \in places : m < n => Rank(places, m) < Rank(places, n)
<1> DEFINE Upto(n) == {m \in places : m <= n}
<1>1. Cardinality(places) \in Nat
  BY FS_CardinalityType
<1>2. ASSUME NEW n \in places
      PROVE  /\ IsFiniteSet(Upto(n)) /\ Cardinality(Upto(n)) \in Nat
             /\ Cardinality(Upto(n)) <= Cardinality(places) /\ Cardinality(Upto(n)) # 0
  <2>1. Upto(n) \in SUBSET places /\ n \in Upto(n)
    OBVIOUS
  <2>2. IsFiniteSet(Upto(n)) /\ Cardinality(Upto(n)) <= Cardinality(places)
    BY <2>1, FS_Subset
  <2>3. Cardinality(Upto(n)) \in Nat /\ Cardinality(Upto(n)) # 0
    BY <2>1, <2>2, FS_CardinalityType, FS_EmptySet
  <2> QED BY <2>2, <2>3
<1>3. ASSUME NEW m \in places, NEW n \in places, m < n
      PROVE  Cardinality(Upto(m)) < Cardinality(Upto(n))
  <2>1. m \in Nat /\ n \in Nat /\ \A l \in places : l \in Nat
    OBVIOUS
  <2>2. n \in Upto(n) /\ n \notin Upto(m)
    BY <2>1, <1>3
  <2>3. \A l \in places : l <= m => l <= n
    BY <2>1, <1>3
  <2>4. Upto(m) \in SUBSET Upto(n)
    BY <2>3
  <2>5. Cardinality(Upto(m)) <= Cardinality(Upto(n))
        /\ Cardinality(Upto(m)) # Cardinality(Upto(n))
    BY <2>2, <2>4, <1>2, FS_Subset
  <2> QED BY <2>5, <1>2
<1> QED
  <2> HIDE DEF Upto
  <2>1. \A n \in places : Cardinality(Upto(n)) \in 1 .. Cardinality(places)
    BY <1>1, <1>2
  <2> QED BY <1>1, <2>1, <1>3 DEF Rank, Upto

\* Every rank up to the number of places is the rank of exactly one of them.
LEMMA RankOnto ==
  ASSUME NEW places \in SUBSET Nat, IsFiniteSet(places)
  PROVE  /\ \A m, n \in places : Rank(places, m) = Rank(places, n) => m = n
         /\ \A i \in 1 .. Cardinality(places) : \E n \in places : Rank(places, n) = i
<1> DEFINE k == Cardinality(places)
           f == [n \in places |-> Rank(places, n)]
<1>1. k \in Nat /\ f \in [places -> 1 .. k]
  BY RankGrows
<1>2. \A m, n \in places : f[m] = f[n] => m = n
  <2> SUFFICES ASSUME NEW m \in places, NEW n \in places, m # n
               PROVE  Rank(places, m) # Rank(places, n)
    OBVIOUS
  <2>1. m \in Nat /\ n \in Nat /\ Rank(places, m) \in Nat /\ Rank(places, n) \in Nat
    BY RankGrows
  <2>2. m < n \/ n < m
    BY <2>1
  <2> QED BY <2>1, <2>2, RankGrows
<1>3. f \in Injection(places, 1 .. k)
  BY <1>1, <1>2 DEF Injection, IsInjective
<1>4. IsFiniteSet(1 .. k) /\ Cardinality(1 .. k) = k
  BY <1>1, FS_Interval
<1>5. f \in Surjection(places, 1 .. k)
  BY <1>3, <1>4, FS_Injection
<1> QED BY <1>2, <1>5 DEF Surjection

\* The list taken from some places of a list holds what is at them, and nothing else.
LEMMA AtProperties ==
  ASSUME NEW S, NEW q \in Seq(S), NEW places \in SUBSET DOMAIN q
  PROVE  /\ IsFiniteSet(places) /\ Cardinality(places) \in Nat
         /\ At(q, places) \in Seq(S) /\ Len(At(q, places)) = Cardinality(places)
         /\ \A i \in 1 .. Cardinality(places) : \E n \in places : At(q, places)[i] = q[n]
         /\ \A n \in places : \E i \in 1 .. Cardinality(places) : At(q, places)[i] = q[n]
<1> DEFINE k == Cardinality(places)
           s == InOrder(places)
           l == At(q, places)
<1>1. DOMAIN q = 1 .. Len(q) /\ Len(q) \in Nat /\ \A n \in DOMAIN q : q[n] \in S
  OBVIOUS
<1>2. places \in SUBSET Nat /\ IsFiniteSet(places)
  <2>1. IsFiniteSet(1 .. Len(q))
    BY <1>1, FS_Interval
  <2>2. places \in SUBSET (1 .. Len(q))
    BY <1>1
  <2>3. IsFiniteSet(places)
    BY <2>1, <2>2, FS_Subset
  <2>4. \A n \in 1 .. Len(q) : n \in Nat
    BY <1>1
  <2> QED BY <2>2, <2>3, <2>4
<1>3. k \in Nat
  BY <1>2, FS_CardinalityType
<1>4. s = [i \in 1 .. k |-> CHOOSE n \in places : Rank(places, n) = i]
  BY DEF InOrder, Rank
<1>5. \A i \in 1 .. k : s[i] \in places /\ Rank(places, s[i]) = i
  BY <1>2, <1>4, RankOnto
<1>6. l = [i \in 1 .. k |-> q[s[i]]]
  BY DEF At
<1> HIDE DEF k, s, l
<1>7. l \in [1 .. k -> S]
  BY <1>1, <1>5, <1>6
<1>8. l \in Seq(S) /\ Len(l) = k
  BY <1>3, <1>7, SeqDef, LenProperties
<1>9. \A n \in places : \E i \in 1 .. k : l[i] = q[n]
  <2> SUFFICES ASSUME NEW n \in places PROVE \E i \in 1 .. k : l[i] = q[n]
    OBVIOUS
  <2>1. Rank(places, n) \in 1 .. k
    BY <1>2, RankGrows DEF k
  <2>2. s[Rank(places, n)] = n
    BY <1>2, <1>5, <2>1, RankOnto
  <2> QED BY <1>6, <2>1, <2>2
<1> QED BY <1>2, <1>3, <1>5, <1>6, <1>8, <1>9 DEF k, l

\* What a list has delivered and what it has waiting: together they are as long as the list.
LEMMA Halves ==
  ASSUME NEW q \in Seq(Entry)
  PROVE  /\ Done(q) \in Seq(Entry) /\ Waiting(q) \in Seq(Entry)
         /\ Len(Done(q)) + Len(Waiting(q)) = Len(q)
         /\ \A i \in DOMAIN Done(q) : Done(q)[i].delivered /\ \E n \in DOMAIN q : Done(q)[i] = q[n]
         /\ \A i \in DOMAIN Waiting(q) :
              ~Waiting(q)[i].delivered /\ \E n \in DOMAIN q : Waiting(q)[i] = q[n]
         /\ \A n \in DOMAIN q : \/ \E i \in DOMAIN Done(q) : Done(q)[i] = q[n]
                                \/ \E i \in DOMAIN Waiting(q) : Waiting(q)[i] = q[n]
<1> DEFINE D == {i \in DOMAIN q : q[i].delivered}
           W == {i \in DOMAIN q : ~q[i].delivered}
<1>1. D \in SUBSET DOMAIN q /\ W \in SUBSET DOMAIN q /\ D \cup W = DOMAIN q /\ D \cap W = {}
  OBVIOUS
<1>2. Done(q) = At(q, D) /\ Waiting(q) = At(q, W)
  BY DEF Done, Waiting
<1>3. (\A n \in D : q[n].delivered) /\ (\A n \in W : ~q[n].delivered)
  OBVIOUS
<1>4. DOMAIN q = 1 .. Len(q) /\ Len(q) \in Nat
  OBVIOUS
<1> HIDE DEF D, W
<1>5. /\ IsFiniteSet(D) /\ Cardinality(D) \in Nat
      /\ Done(q) \in Seq(Entry) /\ Len(Done(q)) = Cardinality(D)
      /\ \A i \in 1 .. Cardinality(D) : \E n \in D : Done(q)[i] = q[n]
      /\ \A n \in D : \E i \in 1 .. Cardinality(D) : Done(q)[i] = q[n]
  BY <1>1, <1>2, AtProperties
<1>6. /\ IsFiniteSet(W) /\ Cardinality(W) \in Nat
      /\ Waiting(q) \in Seq(Entry) /\ Len(Waiting(q)) = Cardinality(W)
      /\ \A i \in 1 .. Cardinality(W) : \E n \in W : Waiting(q)[i] = q[n]
      /\ \A n \in W : \E i \in 1 .. Cardinality(W) : Waiting(q)[i] = q[n]
  BY <1>1, <1>2, AtProperties
<1>7. Cardinality(DOMAIN q) = Cardinality(D) + Cardinality(W)
  <2>1. Cardinality(D \cup W) = Cardinality(D) + Cardinality(W) - Cardinality(D \cap W)
    BY <1>5, <1>6, FS_Union
  <2>2. Cardinality(D \cap W) = 0
    BY <1>1, FS_EmptySet
  <2>3. Cardinality(D) + Cardinality(W) - 0 = Cardinality(D) + Cardinality(W)
    BY <1>5, <1>6
  <2> QED BY <1>1, <2>1, <2>2, <2>3
<1>8. Cardinality(DOMAIN q) = Len(q)
  BY <1>4, FS_Interval
<1>9. DOMAIN Done(q) = 1 .. Cardinality(D) /\ DOMAIN Waiting(q) = 1 .. Cardinality(W)
  BY <1>5, <1>6
<1>10. \A i \in DOMAIN Done(q) : Done(q)[i].delivered /\ \E n \in DOMAIN q : Done(q)[i] = q[n]
  BY <1>1, <1>3, <1>5, <1>9
<1>11. \A i \in DOMAIN Waiting(q) :
         ~Waiting(q)[i].delivered /\ \E n \in DOMAIN q : Waiting(q)[i] = q[n]
  BY <1>1, <1>3, <1>6, <1>9
<1>12. \A n \in DOMAIN q : \/ \E i \in DOMAIN Done(q) : Done(q)[i] = q[n]
                           \/ \E i \in DOMAIN Waiting(q) : Waiting(q)[i] = q[n]
  BY <1>1, <1>5, <1>6, <1>9
<1> QED BY <1>5, <1>6, <1>7, <1>8, <1>10, <1>11, <1>12

\* A list one longer than the cap loses one entry, and a waiting one only if nothing that
\* remains is delivered.
LEMMA CapProperties ==
  ASSUME NEW q \in Seq(Entry), Len(q) <= Cap + 1
  PROVE  /\ EnforceCap(q) \in Seq(Entry) /\ Len(EnforceCap(q)) <= Cap
         /\ \A i \in DOMAIN EnforceCap(q) : \E n \in DOMAIN q : EnforceCap(q)[i] = q[n]
         /\ \A n \in DOMAIN q :
              \/ q[n].id \in IdsOf(EnforceCap(q))
              \/ q[n].delivered
              \/ \A i \in DOMAIN EnforceCap(q) : ~EnforceCap(q)[i].delivered
<1> DEFINE k == EnforceCap(q)
           d == Done(q)
           w == Waiting(q)
           l == d \o w
<1>1. Len(q) \in Nat /\ Cap \in Nat /\ Cap # 0 /\ Len(q) <= Cap + 1
  BY CapAssumption
<1>2. CASE Len(q) <= Cap
  <2>1. k = q
    BY <1>2 DEF EnforceCap
  <2> QED BY <1>1, <1>2, <2>1 DEF IdsOf
<1>3. CASE ~(Len(q) <= Cap)
  <2>1. Len(q) = Cap + 1
    BY <1>1, <1>3
  <2>2. k = [i \in 1 .. Cap |-> l[Len(q) - Cap + i]]
    BY <1>3 DEF EnforceCap
  <2>3. \A i \in 1 .. Cap : Len(q) - Cap + i = i + 1
    BY <1>1, <2>1
  <2>4. k = [i \in 1 .. Cap |-> l[i + 1]]
    BY <2>2, <2>3
  <2>5. /\ d \in Seq(Entry) /\ w \in Seq(Entry) /\ Len(d) + Len(w) = Cap + 1
        /\ \A i \in DOMAIN d : d[i].delivered /\ \E n \in DOMAIN q : d[i] = q[n]
        /\ \A i \in DOMAIN w : ~w[i].delivered /\ \E n \in DOMAIN q : w[i] = q[n]
        /\ \A n \in DOMAIN q : (\E i \in DOMAIN d : d[i] = q[n]) \/ (\E i \in DOMAIN w : w[i] = q[n])
    BY <2>1, Halves
  <2> HIDE DEF k, d, w
  <2>6. /\ Len(d) \in Nat /\ Len(w) \in Nat
        /\ DOMAIN d = 1 .. Len(d) /\ DOMAIN w = 1 .. Len(w)
    BY <2>5
  <2>7. l \in Seq(Entry) /\ Len(l) = Cap + 1
        /\ \A i \in 1 .. Cap + 1 : l[i] = IF i <= Len(d) THEN d[i] ELSE w[i - Len(d)]
    BY <2>5, ConcatProperties
  <2> HIDE DEF l
  <2>8. \A i \in 1 .. Cap + 1 : l[i] \in Entry /\ \E n \in DOMAIN q : l[i] = q[n]
    <3> SUFFICES ASSUME NEW i \in 1 .. Cap + 1
                 PROVE  l[i] \in Entry /\ \E n \in DOMAIN q : l[i] = q[n]
      OBVIOUS
    <3>1. l[i] \in Entry
      BY <1>1, <2>7
    <3>2. CASE i <= Len(d)
      <4>1. i \in DOMAIN d /\ l[i] = d[i]
        BY <1>1, <2>6, <2>7, <3>2
      <4> QED BY <2>5, <3>1, <4>1
    <3>3. CASE ~(i <= Len(d))
      <4>1. i - Len(d) \in DOMAIN w /\ l[i] = w[i - Len(d)]
        BY <1>1, <2>5, <2>6, <2>7, <3>3
      <4> QED BY <2>5, <3>1, <4>1
    <3> QED BY <3>2, <3>3
  <2>9. k \in Seq(Entry) /\ Len(k) = Cap /\ DOMAIN k = 1 .. Cap
    <3>1. \A i \in 1 .. Cap : i + 1 \in 1 .. Cap + 1
      BY <1>1
    <3>2. k \in [1 .. Cap -> Entry]
      BY <2>4, <2>8, <3>1
    <3> QED BY <1>1, <3>2, SeqDef, LenProperties
  <2>10. \A i \in 1 .. Cap : k[i] = l[i + 1] /\ i + 1 \in 1 .. Cap + 1
    BY <1>1, <2>4
  <2>11. \A n \in DOMAIN q : \E j \in 1 .. Cap + 1 : l[j] = q[n]
    <3> SUFFICES ASSUME NEW n \in DOMAIN q PROVE \E j \in 1 .. Cap + 1 : l[j] = q[n]
      OBVIOUS
    <3>1. ASSUME NEW i \in DOMAIN d, d[i] = q[n] PROVE i \in 1 .. Cap + 1 /\ l[i] = q[n]
      BY <1>1, <2>5, <2>6, <2>7, <3>1
    <3>2. ASSUME NEW i \in DOMAIN w, w[i] = q[n]
          PROVE  Len(d) + i \in 1 .. Cap + 1 /\ l[Len(d) + i] = q[n]
      <4>1. PICK j : j = Len(d) + i
        OBVIOUS
      <4>2. j \in 1 .. Cap + 1 /\ ~(j <= Len(d)) /\ j - Len(d) = i
        BY <1>1, <2>5, <2>6, <4>1
      <4>3. l[j] = w[j - Len(d)]
        BY <2>7, <4>2
      <4> QED BY <3>2, <4>1, <4>2, <4>3
    <3> QED BY <2>5, <3>1, <3>2
  <2>12. ASSUME NEW n \in DOMAIN q, q[n].id \notin IdsOf(k), ~q[n].delivered,
                NEW i \in 1 .. Cap
         PROVE  ~k[i].delivered
    <3>1. PICK j \in 1 .. Cap + 1 : l[j] = q[n]
      BY <2>11
    <3>2. j = 1
      <4> SUFFICES ASSUME j # 1 PROVE FALSE
        OBVIOUS
      <4>1. j - 1 \in 1 .. Cap /\ (j - 1) + 1 = j
        BY <1>1
      <4>2. k[j - 1] = q[n]
        BY <2>10, <3>1, <4>1
      <4> QED BY <2>9, <2>12, <4>1, <4>2 DEF IdsOf
    <3>3. Len(d) = 0
      <4> SUFFICES ASSUME Len(d) # 0 PROVE FALSE
        OBVIOUS
      <4>1. 1 \in DOMAIN d /\ l[1] = d[1]
        BY <1>1, <2>6, <2>7
      <4> QED BY <2>5, <2>12, <3>1, <3>2, <4>1
    <3>4. i + 1 \in DOMAIN w /\ k[i] = w[i + 1]
      BY <1>1, <2>5, <2>6, <2>7, <2>10, <3>3
    <3> QED BY <2>5, <3>4
  <2>13. \A i \in DOMAIN k : \E n \in DOMAIN q : k[i] = q[n]
    BY <2>8, <2>9, <2>10
  <2>14. Len(k) <= Cap
    BY <1>1, <2>9
  <2> QED BY <2>9, <2>12, <2>13, <2>14 DEF k
<1> QED BY <1>2, <1>3

-----------------------------------------------------------------------------
(* Types, the cap, and what the drains have returned.                      *)

\* Every entry marked delivered was returned by a drain.
DrainedIn(q, returned) == \A i \in DOMAIN q : q[i].delivered => q[i].id \in ToSet(returned)

CopiesCapped   == \A t \in Threads : Len(copy[t]) <= Cap
MarkedIsDrained == /\ DrainedIn(inbox, drained)
                   /\ \A t \in Threads : DrainedIn(copy[t], drained)

InboxInv == TypeOK /\ CopiesCapped /\ MarkedIsDrained

\* Drains return more and more.
LEMMA DrainedGrows ==
  ASSUME NEW d \in Seq(Reports), NEW c \in Seq(Reports)
  PROVE  /\ d \o c \in Seq(Reports)
         /\ ToSet(d \o c) = ToSet(d) \cup ToSet(c)
<1>1. /\ d \o c \in Seq(Reports) /\ Len(d \o c) = Len(d) + Len(c)
      /\ Len(d) \in Nat /\ Len(c) \in Nat
      /\ DOMAIN d = 1 .. Len(d) /\ DOMAIN c = 1 .. Len(c)
      /\ DOMAIN (d \o c) = 1 .. Len(d) + Len(c)
      /\ \A i \in 1 .. Len(d) + Len(c) : (d \o c)[i] = IF i <= Len(d) THEN d[i] ELSE c[i - Len(d)]
  BY ConcatProperties
<1>2. ASSUME NEW i \in 1 .. Len(d) + Len(c) PROVE (d \o c)[i] \in ToSet(d) \cup ToSet(c)
  <2>1. CASE i <= Len(d)
    BY <1>1, <2>1 DEF ToSet
  <2>2. CASE ~(i <= Len(d))
    <3>1. i - Len(d) \in DOMAIN c /\ (d \o c)[i] = c[i - Len(d)]
      BY <1>1, <2>2
    <3> QED BY <3>1 DEF ToSet
  <2> QED BY <2>1, <2>2
<1>3. ASSUME NEW i \in DOMAIN d PROVE d[i] \in ToSet(d \o c)
  <2>1. i \in DOMAIN (d \o c) /\ (d \o c)[i] = d[i]
    BY <1>1
  <2> QED BY <2>1 DEF ToSet
<1>4. ASSUME NEW i \in DOMAIN c PROVE c[i] \in ToSet(d \o c)
  <2>1. Len(d) + i \in DOMAIN (d \o c) /\ (d \o c)[Len(d) + i] = c[i]
    <3>1. Len(d) + i \in 1 .. Len(d) + Len(c) /\ ~(Len(d) + i <= Len(d)) /\ Len(d) + i - Len(d) = i
      BY <1>1
    <3> QED BY <1>1, <3>1
  <2> QED BY <2>1 DEF ToSet
<1> QED BY <1>1, <1>2, <1>3, <1>4 DEF ToSet

\* The ids of the waiting entries of a list.
LEMMA WaitingIds ==
  ASSUME NEW q \in Seq(Entry)
  PROVE  /\ IdSeq(Waiting(q)) \in Seq(Reports)
         /\ \A n \in DOMAIN q : ~q[n].delivered => q[n].id \in ToSet(IdSeq(Waiting(q)))
<1> DEFINE w == Waiting(q)
           s == IdSeq(w)
<1>1. /\ w \in Seq(Entry)
      /\ \A i \in DOMAIN Done(q) : Done(q)[i].delivered
      /\ \A n \in DOMAIN q : (\E i \in DOMAIN Done(q) : Done(q)[i] = q[n])
                             \/ (\E i \in DOMAIN w : w[i] = q[n])
  BY Halves
<1> HIDE DEF w
<1>2. DOMAIN w = 1 .. Len(w) /\ Len(w) \in Nat /\ \A i \in DOMAIN w : w[i] \in Entry
  BY <1>1
<1>3. s = [i \in 1 .. Len(w) |-> w[i].id]
  BY <1>2 DEF IdSeq
<1>4. s \in [1 .. Len(w) -> Reports]
  BY <1>2, <1>3 DEF Entry
<1> HIDE DEF s
<1>5. s \in Seq(Reports)
  BY <1>2, <1>4, SeqDef
<1>6. ASSUME NEW n \in DOMAIN q, ~q[n].delivered PROVE q[n].id \in ToSet(s)
  <2>1. PICK i \in DOMAIN w : w[i] = q[n]
    BY <1>1, <1>6
  <2>2. i \in DOMAIN s /\ s[i] = q[n].id
    BY <1>2, <1>3, <2>1
  <2> QED BY <2>2 DEF ToSet
<1> QED BY <1>5, <1>6 DEF s, w

LEMMA InboxInit == Init => InboxInv
<1> SUFFICES ASSUME Init PROVE InboxInv
  OBVIOUS
<1>1. \A S : << >> \in Seq(S) /\ Len(<< >>) = 0 /\ DOMAIN << >> = {}
  OBVIOUS
<1>2. TypeOK
  <2>1. (0 \in 0 .. MaxReports) /\ (0 <= Cap) /\ (0 \in 0 .. MaxSends) /\ (0 <= MaxTexts)
        /\ (0 \in 0 .. MaxFaults) /\ (0 \in 0 .. MaxRestarts) /\ (0 \in 0 .. 0)
    BY CapAssumption, BoundsAssumption
  <2>2. /\ lock \in [Procs -> Threads \cup {None}]
        /\ copy \in [Threads -> Seq(Entry)] /\ carries \in [Threads -> Seq(Reports)]
    BY <1>1 DEF Init
  <2> QED BY <1>1, <2>1, <2>2 DEF Init, TypeOK
<1>3. CopiesCapped /\ MarkedIsDrained
  BY <1>1, CapAssumption DEF Init, CopiesCapped, MarkedIsDrained, DrainedIn
<1> QED BY <1>2, <1>3 DEF InboxInv

\* The conjuncts of the type invariant that steps change together.
FileType   == inbox \in Seq(Entry) /\ Len(inbox) <= Cap /\ written \in 0 .. MaxReports
              /\ drained \in Seq(Reports) /\ evicted \subseteq Reports
LockType   == lock \in [Procs -> Threads \cup {None}]
CopyType   == copy \in [Threads -> Seq(Entry)]
CarryType  == carries \in [Threads -> Seq(Reports)]
ParentType == parent \in {"live", "stopped", "absent"} /\ dirty \in BOOLEAN /\ missed \in BOOLEAN
ChildType  == entries \in Seq({EntryKind}) /\ Len(entries) <= MaxTexts /\ seen \in 0 .. Len(entries)
BoundsType == sends \in 0 .. MaxSends /\ faults \in 0 .. MaxFaults /\ restarts \in 0 .. MaxRestarts

LEMMA TypeParts ==
  TypeOK <=> /\ FileType /\ LockType /\ CopyType /\ CarryType /\ ParentType /\ ChildType
             /\ BoundsType /\ pc \in [Threads -> Labels] /\ taken \subseteq Reports
             /\ overlapped \in BOOLEAN
BY DEF TypeOK, FileType, LockType, CopyType, CarryType, ParentType, ChildType, BoundsType, Labels

\* A step that changes no list of entries keeps what is said of them.
LEMMA ListsKept ==
  ASSUME InboxInv, UNCHANGED <<fileVars, copy>>
  PROVE  FileType' /\ CopyType' /\ CopiesCapped' /\ MarkedIsDrained'
BY TypeParts DEF InboxInv, fileVars, FileType, CopyType, CopiesCapped, MarkedIsDrained, DrainedIn

LEMMA ParentKept == ASSUME InboxInv, UNCHANGED parentVars PROVE ParentType'
BY TypeParts DEF InboxInv, parentVars, ParentType
LEMMA ChildKept == ASSUME InboxInv, UNCHANGED childVars PROVE ChildType'
BY TypeParts DEF InboxInv, childVars, ChildType
LEMMA BoundsKept == ASSUME InboxInv, UNCHANGED bounds PROVE BoundsType'
BY TypeParts DEF InboxInv, bounds, BoundsType
LEMMA RestKept ==
  InboxInv => /\ (UNCHANGED lock => LockType') /\ (UNCHANGED carries => CarryType')
              /\ (UNCHANGED taken => (taken \subseteq Reports)')
              /\ (UNCHANGED overlapped => (overlapped \in BOOLEAN)')
              /\ (UNCHANGED pc => (pc \in [Threads -> Labels])')
BY TypeParts DEF InboxInv, LockType, CarryType

LEMMA TypeJoined ==
  ASSUME FileType', LockType', CopyType', CarryType', ParentType', ChildType',
         BoundsType', (pc \in [Threads -> Labels])', (taken \subseteq Reports)',
         (overlapped \in BOOLEAN)', CopiesCapped', MarkedIsDrained'
  PROVE  InboxInv'
BY DEF InboxInv, TypeOK, FileType, LockType, CopyType, CarryType, ParentType, ChildType, BoundsType, Labels

\* A fault is counted within its bound.
LEMMA FaultCounted == ASSUME InboxInv, Fault PROVE BoundsType'
<1>1. faults \in 0 .. MaxFaults /\ MaxFaults \in Nat
  BY BoundsAssumption, TypeParts DEF InboxInv, BoundsType
<1>2. faults' \in 0 .. MaxFaults
  BY <1>1 DEF Fault
<1> QED BY <1>2, TypeParts DEF InboxInv, BoundsType, Fault

LEMMA MovesTo ==
  ASSUME InboxInv, NEW t \in Threads, NEW a, NEW b \in Labels, Moves(t, a, b)
  PROVE  (pc \in [Threads -> Labels])'
BY TypeParts DEF InboxInv, Moves

\* It locks and loads the file.
LEMMA Loaded ==
  ASSUME InboxInv, NEW t \in Threads, Load(t), UNCHANGED fileVars
  PROVE  FileType' /\ LockType' /\ CopyType' /\ (overlapped \in BOOLEAN)' /\ CopiesCapped'
         /\ MarkedIsDrained'
<1>1. /\ inbox \in Seq(Entry) /\ Len(inbox) <= Cap /\ lock \in [Procs -> Threads \cup {None}]
      /\ copy \in [Threads -> Seq(Entry)]
  BY TypeParts DEF InboxInv, FileType, LockType, CopyType
<1>2. copy' \in [Threads -> Seq(Entry)] /\ \A u \in Threads : copy'[u] = copy[u] \/ copy'[u] = inbox
  BY <1>1 DEF Load
<1>3. lock' \in [Procs -> Threads \cup {None}]
  BY <1>1 DEF Load
<1>4. CopiesCapped'
  BY <1>1, <1>2 DEF InboxInv, CopiesCapped
<1>5. MarkedIsDrained'
  <2>1. ASSUME NEW u \in Threads PROVE DrainedIn(copy'[u], drained)
    BY <1>2 DEF InboxInv, MarkedIsDrained
  <2> QED BY <2>1 DEF InboxInv, MarkedIsDrained, DrainedIn, fileVars
<1>6. FileType'
  BY TypeParts DEF InboxInv, FileType, fileVars
<1>7. (overlapped \in BOOLEAN)'
  BY DEF Load
<1> QED BY <1>2, <1>3, <1>4, <1>5, <1>6, <1>7 DEF CopyType, LockType

LEMMA Unlocked == ASSUME InboxInv, NEW t \in Threads, Unlock(t) PROVE LockType'
BY TypeParts DEF InboxInv, Unlock, LockType

\* A report is written: the cap holds, and it costs a report that no drain has returned only
\* when the file has no other.
LEMMA Written ==
  ASSUME InboxInv, NEW t \in Threads, AppendWrite(t)
  PROVE  /\ FileType' /\ CopyType' /\ CopiesCapped' /\ MarkedIsDrained'
         /\ \A r \in evicted' \ evicted :
              r \notin ToSet(drained) => \A i \in DOMAIN inbox' : ~inbox'[i].delivered
<1> USE DEF fileVars, parentVars, childVars, bounds
<1>1. /\ inbox \in Seq(Entry) /\ copy[t] \in Seq(Entry) /\ Len(copy[t]) <= Cap
      /\ written \in 0 .. MaxReports /\ evicted \subseteq Reports /\ drained \in Seq(Reports)
      /\ Cap \in Nat /\ MaxReports \in Nat /\ DrainedIn(copy[t], drained)
      /\ copy \in [Threads -> Seq(Entry)]
  BY CapAssumption, BoundsAssumption, TypeParts
     DEF InboxInv, FileType, CopyType, CopiesCapped, MarkedIsDrained
<1>2. /\ written < MaxReports /\ written' = written + 1
      /\ UNCHANGED <<copy, drained>>
  BY DEF AppendWrite
<1>3. written' \in 0 .. MaxReports /\ written' \in Reports
  BY <1>1, <1>2 DEF Reports
<1> DEFINE e == [id |-> written', delivered |-> FALSE]
<1>4. PICK new : new = e
  OBVIOUS
<1>5. new \in Entry /\ ~new.delivered
  BY <1>3, <1>4 DEF Entry
<1>6. PICK q : q = Append(copy[t], new)
  OBVIOUS
<1>7. /\ inbox' = EnforceCap(q) /\ evicted' = evicted \cup (IdsOf(q) \ IdsOf(inbox'))
  BY <1>4, <1>6 DEF AppendWrite
<1>8. /\ q \in Seq(Entry) /\ Len(q) = Len(copy[t]) + 1 /\ Len(copy[t]) \in Nat
      /\ DOMAIN q = 1 .. Len(copy[t]) + 1 /\ DOMAIN copy[t] = 1 .. Len(copy[t])
      /\ \A i \in 1 .. Len(copy[t]) : q[i] = copy[t][i]
      /\ q[Len(copy[t]) + 1] = new
  BY <1>1, <1>5, <1>6, AppendProperties
<1>9. Len(q) <= Cap + 1
  BY <1>1, <1>8
<1>10. DrainedIn(q, drained)
  <2> SUFFICES ASSUME NEW i \in DOMAIN q, q[i].delivered PROVE q[i].id \in ToSet(drained)
    BY DEF DrainedIn
  <2>1. i # Len(copy[t]) + 1
    BY <1>5, <1>8
  <2>2. i \in DOMAIN copy[t] /\ q[i] = copy[t][i]
    BY <1>8, <2>1
  <2> QED BY <1>1, <2>2 DEF DrainedIn
<1>11. PICK k : k = EnforceCap(q)
  OBVIOUS
<1>12. /\ k \in Seq(Entry) /\ Len(k) <= Cap
       /\ \A i \in DOMAIN k : \E n \in DOMAIN q : k[i] = q[n]
       /\ \A n \in DOMAIN q : q[n].id \in IdsOf(k) \/ q[n].delivered
                              \/ \A i \in DOMAIN k : ~k[i].delivered
  BY <1>8, <1>9, <1>11, CapProperties
<1>13. inbox' = k
  BY <1>7, <1>11
<1>14. DrainedIn(k, drained)
  BY <1>10, <1>12 DEF DrainedIn
<1>15. IdsOf(q) \subseteq Reports
  <2>1. \A i \in DOMAIN q : q[i] \in Entry
    BY <1>8
  <2> QED BY <2>1 DEF IdsOf, Entry
<1>16. evicted' \subseteq Reports
  BY <1>1, <1>7, <1>15
<1>17. FileType'
  BY <1>1, <1>2, <1>3, <1>12, <1>13, <1>16 DEF FileType
<1>18. CopyType' /\ CopiesCapped'
  BY <1>1, <1>2 DEF CopyType, InboxInv, CopiesCapped
<1>19. MarkedIsDrained'
  BY <1>2, <1>13, <1>14 DEF InboxInv, MarkedIsDrained, DrainedIn
<1>20. ASSUME NEW r \in evicted' \ evicted, r \notin ToSet(drained)
       PROVE  \A i \in DOMAIN k : ~k[i].delivered
  <2>1. r \in IdsOf(q) /\ r \notin IdsOf(k)
    BY <1>7, <1>13, <1>20
  <2>2. PICK n \in DOMAIN q : q[n].id = r
    BY <2>1 DEF IdsOf
  <2>3. ~q[n].delivered
    BY <1>10, <1>20, <2>2 DEF DrainedIn
  <2> QED BY <1>12, <2>1, <2>2, <2>3
<1> QED BY <1>13, <1>17, <1>18, <1>19, <1>20

\* A drain marks what it returns.
LEMMA Drains ==
  ASSUME InboxInv, NEW t \in Threads, DrainWrite(t)
  PROVE  FileType' /\ CopyType' /\ CarryType' /\ CopiesCapped' /\ MarkedIsDrained'
<1> USE DEF fileVars, parentVars, childVars, bounds
<1>1. /\ inbox \in Seq(Entry) /\ copy[t] \in Seq(Entry) /\ Len(copy[t]) <= Cap
      /\ drained \in Seq(Reports) /\ carries \in [Threads -> Seq(Reports)]
  BY TypeParts DEF InboxInv, FileType, CopyType, CarryType, CopiesCapped
<1>2. PICK q : q = copy[t]
  OBVIOUS
<1>3. PICK w : w = IdSeq(Waiting(q))
  OBVIOUS
<1>4. /\ carries' = [carries EXCEPT ![t] = w]
      /\ UNCHANGED <<copy, written, evicted>>
  BY <1>2, <1>3 DEF DrainWrite
<1>5. carries'[t] = w
  BY <1>1, <1>4
<1>6. drained' = drained \o w
  BY <1>5 DEF DrainWrite
<1>7. /\ w \in Seq(Reports)
      /\ \A n \in DOMAIN q : ~q[n].delivered => q[n].id \in ToSet(w)
  BY <1>1, <1>2, <1>3, WaitingIds
<1>8. drained' \in Seq(Reports) /\ ToSet(drained') = ToSet(drained) \cup ToSet(w)
  <2>1. PICK d : d = drained
    OBVIOUS
  <2>2. d \o w \in Seq(Reports) /\ ToSet(d \o w) = ToSet(d) \cup ToSet(w)
    BY <1>1, <1>7, <2>1, DrainedGrows
  <2> QED BY <1>6, <2>1, <2>2
<1> DEFINE m == [i \in DOMAIN q |-> [id |-> q[i].id, delivered |-> TRUE]]
<1>9. inbox' = inbox \/ inbox' = m
  BY <1>2 DEF DrainWrite
<1>10. q \in Seq(Entry) /\ DOMAIN q = 1 .. Len(q) /\ Len(q) \in Nat
       /\ \A i \in DOMAIN q : q[i] \in Entry
  BY <1>1, <1>2
<1>11. m \in [1 .. Len(q) -> Entry]
  <2>1. \A i \in DOMAIN q : [id |-> q[i].id, delivered |-> TRUE] \in Entry
    BY <1>10 DEF Entry
  <2> QED BY <1>10, <2>1
<1>12. m \in Seq(Entry) /\ Len(m) = Len(q)
  <2> HIDE DEF m
  <2> QED BY <1>10, <1>11, SeqDef, LenProperties
<1>13. \A i \in DOMAIN m : i \in DOMAIN q /\ m[i].id = q[i].id
  OBVIOUS
<1> HIDE DEF m
<1>14. DrainedIn(m, drained')
  <2> SUFFICES ASSUME NEW i \in DOMAIN m PROVE m[i].id \in ToSet(drained')
    BY DEF DrainedIn
  <2>1. i \in DOMAIN q /\ m[i].id = q[i].id
    BY <1>13
  <2>2. CASE q[i].delivered
    BY <1>2, <1>8, <2>1, <2>2 DEF InboxInv, MarkedIsDrained, DrainedIn
  <2>3. CASE ~q[i].delivered
    BY <1>7, <1>8, <2>1, <2>3
  <2> QED BY <2>2, <2>3
<1>15. DrainedIn(inbox, drained') /\ \A u \in Threads : DrainedIn(copy[u], drained')
  BY <1>8 DEF InboxInv, MarkedIsDrained, DrainedIn
<1>16. MarkedIsDrained'
  <2>1. DrainedIn(inbox', drained')
    BY <1>9, <1>14, <1>15
  <2>2. \A u \in Threads : DrainedIn(copy'[u], drained')
    BY <1>4, <1>15
  <2> QED BY <2>1, <2>2 DEF MarkedIsDrained
<1>17. inbox' \in Seq(Entry) /\ Len(inbox') <= Cap
  BY <1>1, <1>2, <1>9, <1>12, TypeParts DEF InboxInv, FileType
<1>18. FileType'
  BY <1>4, <1>8, <1>17, TypeParts DEF InboxInv, FileType
<1>19. CopyType' /\ CarryType' /\ CopiesCapped'
  BY <1>1, <1>4, <1>7, TypeParts DEF InboxInv, CopyType, CarryType, CopiesCapped
<1> QED BY <1>16, <1>18, <1>19

\* Every action keeps the types, the cap of each list, and that what is marked was drained.
LEMMA InboxStep == InboxInv /\ [Next]_vars => InboxInv'
<1> SUFFICES ASSUME InboxInv, [Next]_vars PROVE InboxInv'
  OBVIOUS
<1> USE TypeJoined
<1>1. ASSUME NEW t \in Threads, BeginReport(t) PROVE InboxInv'
  <2>1. (pc \in [Threads -> Labels])'
    BY <1>1, MovesTo, "append" \in Labels DEF BeginReport, Labels
  <2> QED BY <1>1, <2>1, ListsKept, ParentKept, ChildKept, BoundsKept, RestKept DEF BeginReport
<1>2. ASSUME ChildSpeaks PROVE InboxInv'
  <2>1. entries \in Seq({EntryKind}) /\ Len(entries) \in Nat /\ seen \in 0 .. Len(entries)
        /\ MaxTexts \in Nat
    BY BoundsAssumption, TypeParts DEF InboxInv, ChildType
  <2>2. entries' = Append(entries, EntryKind) /\ Len(entries) < MaxTexts /\ seen' = seen
    BY <1>2 DEF ChildSpeaks, childVars
  <2>3. ChildType'
    <3>1. entries' \in Seq({EntryKind}) /\ Len(entries') = Len(entries) + 1
      BY <2>1, <2>2, AppendProperties
    <3> QED BY <2>1, <2>2, <3>1 DEF ChildType
  <2> QED BY <1>2, <2>3, ListsKept, ParentKept, BoundsKept, RestKept DEF ChildSpeaks
<1>3. ASSUME NEW t \in Threads, AutoReport(t) PROVE InboxInv'
  <2>1. entries \in Seq({EntryKind}) /\ Len(entries) <= MaxTexts /\ Len(entries) \in Nat
    BY TypeParts DEF InboxInv, ChildType
  <2>2. ChildType'
    BY <1>3, <2>1 DEF AutoReport, ChildType
  <2>3. (pc \in [Threads -> Labels])'
    BY <1>3, TypeParts DEF InboxInv, AutoReport, Labels
  <2> QED BY <1>3, <2>2, <2>3, ListsKept, ParentKept, BoundsKept, RestKept DEF AutoReport
<1>4. ASSUME NEW t \in Threads, AppendLoad(t) PROVE InboxInv'
  <2>1. (pc \in [Threads -> Labels])'
    BY <1>4, MovesTo, "append_write" \in Labels DEF AppendLoad, Labels
  <2> QED BY <1>4, <2>1, Loaded, ParentKept, ChildKept, BoundsKept, RestKept DEF AppendLoad
<1>5. ASSUME NEW t \in Threads, AppendWrite(t) PROVE InboxInv'
  <2>1. (pc \in [Threads -> Labels])'
    BY <1>5, MovesTo, "mark" \in Labels DEF AppendWrite, Labels
  <2>2. FileType' /\ CopyType' /\ CopiesCapped' /\ MarkedIsDrained'
    BY <1>5, Written
  <2>3. Unlock(t) /\ UNCHANGED <<childVars, overlapped, carries, parentVars, taken, bounds>>
    BY <1>5 DEF AppendWrite
  <2> QED BY <2>1, <2>2, <2>3, Unlocked, ParentKept, ChildKept, BoundsKept, RestKept
<1>6. ASSUME NEW t \in Threads, AppendFails(t) PROVE InboxInv'
  <2>1. (pc \in [Threads -> Labels])'
    BY <1>6, MovesTo, "idle" \in Labels DEF AppendFails, Labels
  <2> QED BY <1>6, <2>1, Unlocked, FaultCounted, ListsKept, ParentKept, ChildKept, RestKept
          DEF AppendFails
<1>7. ASSUME NEW t \in Threads, Mark(t) PROVE InboxInv'
  <2>1. (pc \in [Threads -> Labels])'
    BY <1>7, MovesTo, "idle" \in Labels DEF Mark, Labels
  <2>2. ParentType'
    BY <1>7, TypeParts DEF InboxInv, Mark, ParentType
  <2> QED BY <1>7, <2>1, <2>2, ListsKept, ChildKept, BoundsKept, RestKept DEF Mark
<1>8. ASSUME NEW t \in Threads, MarkFails(t) PROVE InboxInv'
  <2>1. (pc \in [Threads -> Labels])'
    BY <1>8, MovesTo, "idle" \in Labels DEF MarkFails, Labels
  <2>2. ParentType'
    BY <1>8, TypeParts DEF InboxInv, MarkFails, ParentType
  <2> QED BY <1>8, <2>1, <2>2, FaultCounted, ListsKept, ChildKept, RestKept DEF MarkFails
<1>9. ASSUME NEW t \in Threads, BeginSend(t) PROVE InboxInv'
  <2>1. (pc \in [Threads -> Labels])'
    BY <1>9, MovesTo, "check" \in Labels DEF BeginSend, Labels
  <2>2. ParentType'
    BY <1>9, ParentKept, TypeParts DEF InboxInv, BeginSend, Loads, ParentType
  <2>3. sends \in 0 .. MaxSends /\ MaxSends \in Nat
    BY BoundsAssumption, TypeParts DEF InboxInv, BoundsType
  <2>4. sends < MaxSends /\ sends' = sends + 1 /\ UNCHANGED <<faults, restarts>>
    BY <1>9 DEF BeginSend
  <2>5. BoundsType'
    BY <2>3, <2>4, TypeParts DEF InboxInv, BoundsType
  <2> QED BY <1>9, <2>1, <2>2, <2>5, ListsKept, ChildKept, RestKept DEF BeginSend
<1>10. ASSUME NEW t \in Threads, CheckDirty(t) PROVE InboxInv'
  <2>1. (IF dirty THEN "drain" ELSE "send") \in Labels
    BY DEF Labels
  <2>2. (pc \in [Threads -> Labels])'
    BY <1>10, <2>1, MovesTo DEF CheckDirty
  <2> QED BY <1>10, <2>2, ListsKept, ParentKept, ChildKept, BoundsKept, RestKept DEF CheckDirty
<1>11. ASSUME NEW t \in Threads, DrainLoad(t) PROVE InboxInv'
  <2>1. (pc \in [Threads -> Labels])'
    BY <1>11, MovesTo, "drain_write" \in Labels DEF DrainLoad, Labels
  <2> QED BY <1>11, <2>1, Loaded, ParentKept, ChildKept, BoundsKept, RestKept DEF DrainLoad
<1>12. ASSUME NEW t \in Threads, DrainWrite(t) PROVE InboxInv'
  <2>1. (pc \in [Threads -> Labels])'
    BY <1>12, MovesTo, "clear" \in Labels DEF DrainWrite, Labels
  <2>2. FileType' /\ CopyType' /\ CarryType' /\ CopiesCapped' /\ MarkedIsDrained'
    BY <1>12, Drains
  <2>3. Unlock(t) /\ UNCHANGED <<childVars, overlapped, parentVars, taken, bounds>>
    BY <1>12 DEF DrainWrite
  <2> QED BY <2>1, <2>2, <2>3, Unlocked, ParentKept, ChildKept, BoundsKept, RestKept
<1>13. ASSUME NEW t \in Threads, DrainFails(t) PROVE InboxInv'
  <2>1. (pc \in [Threads -> Labels])'
    BY <1>13, MovesTo, "clear" \in Labels DEF DrainFails, Labels
  <2> QED BY <1>13, <2>1, Unlocked, FaultCounted, ListsKept, ParentKept, ChildKept, RestKept
          DEF DrainFails
<1>14. ASSUME NEW t \in Threads, ClearDirty(t) PROVE InboxInv'
  <2>1. (pc \in [Threads -> Labels])'
    BY <1>14, MovesTo, "send" \in Labels DEF ClearDirty, Labels
  <2>2. ParentType'
    BY <1>14, TypeParts DEF InboxInv, ClearDirty, ParentType
  <2> QED BY <1>14, <2>1, <2>2, ListsKept, ChildKept, BoundsKept, RestKept DEF ClearDirty
<1>15. ASSUME NEW t \in Threads, SendOrRefuse(t) PROVE InboxInv'
  <2>1. (pc \in [Threads -> Labels])'
    BY <1>15, MovesTo, "idle" \in Labels DEF SendOrRefuse, Labels
  <2>2. carries \in [Threads -> Seq(Reports)] /\ taken \subseteq Reports
    BY TypeParts DEF InboxInv, CarryType
  <2>3. CarryType'
    <3>1. << >> \in Seq(Reports)
      OBVIOUS
    <3> QED BY <1>15, <2>2, <3>1 DEF SendOrRefuse, CarryType
  <2>4. (taken \subseteq Reports)'
    <3>1. ToSet(carries[t]) \subseteq Reports
      BY <2>2 DEF ToSet
    <3> QED BY <1>15, <2>2, <3>1 DEF SendOrRefuse
  <2> QED BY <1>15, <2>1, <2>3, <2>4, ListsKept, ParentKept, ChildKept, BoundsKept, RestKept
          DEF SendOrRefuse
<1>16. ASSUME Stop PROVE InboxInv'
  <2>1. ParentType'
    BY <1>16, TypeParts DEF InboxInv, Stop, ParentType
  <2> QED BY <1>16, <2>1, FaultCounted, ListsKept, ChildKept, RestKept DEF Stop
<1>17. ASSUME Wake PROVE InboxInv'
  <2>1. ParentType'
    BY <1>17, TypeParts DEF InboxInv, Wake, Loads, ParentType
  <2> QED BY <1>17, <2>1, ListsKept, ChildKept, BoundsKept, RestKept DEF Wake
<1>18. ASSUME EngineRestart PROVE InboxInv'
  <2>1. (pc \in [Threads -> Labels])' /\ CarryType' /\ LockType'
    <3>1. pc \in [Threads -> Labels] /\ lock \in [Procs -> Threads \cup {None}]
      BY TypeParts DEF InboxInv, LockType
    <3>2. << >> \in Seq(Reports)
      OBVIOUS
    <3>3. (pc \in [Threads -> Labels])'
      BY <1>18, <3>1 DEF EngineRestart, Labels
    <3>4. CarryType'
      BY <1>18, <3>2 DEF EngineRestart, CarryType
    <3>5. LockType'
      BY <1>18, <3>1 DEF EngineRestart, LockType
    <3> QED BY <3>3, <3>4, <3>5
  <2>2. HasUndelivered \in BOOLEAN
    BY DEF HasUndelivered
  <2>3. ParentType'
    BY <1>18, <2>2, TypeParts DEF InboxInv, EngineRestart, ParentType
  <2>4. restarts \in 0 .. MaxRestarts /\ MaxRestarts \in Nat
    BY BoundsAssumption, TypeParts DEF InboxInv, BoundsType
  <2>5. restarts < MaxRestarts /\ restarts' = restarts + 1 /\ UNCHANGED <<sends, faults>>
    BY <1>18 DEF EngineRestart
  <2>6. BoundsType'
    BY <2>4, <2>5, TypeParts DEF InboxInv, BoundsType
  <2> QED BY <1>18, <2>1, <2>3, <2>6, ListsKept, ChildKept, RestKept DEF EngineRestart
<1>19. CASE UNCHANGED vars
  <2>1. UNCHANGED <<fileVars, copy>> /\ UNCHANGED parentVars /\ UNCHANGED childVars
        /\ UNCHANGED bounds /\ UNCHANGED <<lock, carries, taken, overlapped, pc>>
    BY <1>19 DEF vars, fileVars, parentVars, childVars, bounds
  <2> QED BY <2>1, ListsKept, ParentKept, ChildKept, BoundsKept, RestKept
<1> QED BY <1>1, <1>2, <1>3, <1>4, <1>5, <1>6, <1>7, <1>8, <1>9, <1>10, <1>11, <1>12, <1>13,
           <1>14, <1>15, <1>16, <1>17, <1>18, <1>19
        DEF Next, Report, Send

\* The cap of the file holds in every state, with all the types: a list of the cap's length
\* with one more entry is cut to the cap, whatever is delivered in it (_enforce_cap).
THEOREM TypeCorrect == Spec => []TypeOK
<1>1. InboxInv => TypeOK
  BY DEF InboxInv
<1> QED BY InboxInit, InboxStep, <1>1, PTL DEF Spec

\* Only a write evicts.
LEMMA EvictionStep ==
  ASSUME InboxInv, [Next]_vars
  PROVE  [\A r \in evicted' \ evicted :
            r \notin ToSet(drained) => \A i \in DOMAIN inbox' : ~inbox'[i].delivered]_vars
<1> DEFINE A == \A r \in evicted' \ evicted :
                  r \notin ToSet(drained) => \A i \in DOMAIN inbox' : ~inbox'[i].delivered
<1>1. ASSUME NEW t \in Threads, AppendWrite(t) PROVE A
  BY <1>1, Written
<1>2. evicted' = evicted => A
  OBVIOUS
<1> HIDE DEF A
<1> USE DEF fileVars, bounds
<1>3. ASSUME NEW t \in Threads, Report(t) PROVE A
  BY <1>1, <1>2, <1>3
     DEF Report, BeginReport, AutoReport, AppendLoad, AppendFails, Mark, MarkFails
<1>4. ASSUME NEW t \in Threads, Send(t) PROVE A
  BY <1>2, <1>4
     DEF Send, BeginSend, CheckDirty, DrainLoad, DrainWrite, DrainFails, ClearDirty, SendOrRefuse
<1>5. ASSUME ChildSpeaks \/ Stop \/ Wake \/ EngineRestart PROVE A
  BY <1>2, <1>5 DEF ChildSpeaks, Stop, Wake, EngineRestart
<1>6. UNCHANGED vars \/ A
  BY <1>3, <1>4, <1>5 DEF Next
<1> QED BY <1>6 DEF A

\* Whatever the threads of either process do to the file, the cap throws away a report that
\* no drain has returned only when nothing in the file is delivered (_enforce_cap).
THEOREM EvictsDeliveredFirst == Spec => DeliveredGoFirst
<1> QED BY InboxInit, InboxStep, EvictionStep, PTL DEF Spec, DeliveredGoFirst
=============================================================================
