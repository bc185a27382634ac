--------------------------- MODULE DaemonLinkProofs ---------------------------
(***************************************************************************)
(* Theorems about DaemonLink, for every number of calling threads, of      *)
(* reconnect threads and of connections, and every cap of the engine: its  *)
(* types, that the web server is never left disconnected with nobody on    *)
(* the way to reconnect, and that no connection leaks unless two threads   *)
(* replace it at a time.                                                   *)
(***************************************************************************)
EXTENDS DaemonLink, TLAPS

\* The heartbeat waits as long as its ping or the answer is under way: whatever
\* sends the thread back to its sleep finds it waiting.
PingWaits == ping # None => pc[Heartbeat] = "waiting"

Starting == {"take", "discard", "starting", "spawning", "forced starting", "forced spawning"}

Assigned == {"assigned", "forced assigned"}

\* A reconnect thread has been made, and waits for its start.
ToStart == current # None /\ pc[current] = "new"

Everyone == Threads \cup {Reader}

\* Thread u, at this label, brings the connection back.
AtIt(u, label) ==
  \/ u \in Reconnects /\ label \notin {"dead", "new", "exiting"}
  \/ label \in Starting
  \/ label \in Assigned /\ ToStart

IInv == TypeOK /\ PingWaits /\ SomeoneReconnects
-----------------------------------------------------------------------------
(* Lemmas about a step of one thread.                                      *)

\* A thread goes on to a label: the others stay.
LEMMA GoMoves ==
  ASSUME TypeOK, NEW t \in Everyone, NEW from, NEW to \in Labels, Go(t, from, to)
  PROVE  /\ pc' \in [Everyone -> Labels]
         /\ pc[t] = from /\ pc'[t] = to
         /\ \A u \in Everyone : u # t => pc'[u] = pc[u]
<1> USE DEF Everyone
<1>1. pc \in [Everyone -> Labels]
  BY DEF TypeOK
<1>2. pc[t] = from /\ pc' = [pc EXCEPT ![t] = to]
  BY DEF Go
<1> HIDE DEF Everyone
<1> QED BY <1>1, <1>2

\* SomeoneReconnects, by thread.
LEMMA Someone ==
  ASSUME pc \in [Everyone -> Labels]
  PROVE  SomeoneReconnects <=> connected \/ abandoned \/ \E u \in Everyone : AtIt(u, pc[u])
<1>1. DOMAIN pc = Everyone
  OBVIOUS
<1>2. Reconnects \subseteq Everyone
  BY DEF Everyone, Threads
<1> QED BY <1>1, <1>2 DEF SomeoneReconnects, AtIt, Starting, Assigned, ToStart

\* The same of the next state.
LEMMA SomeoneNext ==
  ASSUME pc' \in [Everyone -> Labels], ToStart => ToStart',
         connected' \/ abandoned' \/ \E u \in Everyone : AtIt(u, pc'[u])
  PROVE  SomeoneReconnects'
<1>1. DOMAIN pc' = Everyone
  OBVIOUS
<1>2. Reconnects \subseteq Everyone
  BY DEF Everyone, Threads
<1> QED BY <1>1, <1>2 DEF SomeoneReconnects, AtIt, Starting, Assigned, ToStart

\* A step in which nobody gives up reconnecting and the connection stays up
\* keeps someone at it.
LEMMA Kept ==
  ASSUME TypeOK, SomeoneReconnects,
         pc' \in [Everyone -> Labels], ToStart => ToStart',
         connected => connected', abandoned => abandoned',
         \A u \in Everyone : AtIt(u, pc[u]) => AtIt(u, pc'[u])
  PROVE  SomeoneReconnects'
<1>1. pc \in [Everyone -> Labels]
  BY DEF TypeOK, Everyone
<1>2. connected \/ abandoned \/ \E u \in Everyone : AtIt(u, pc[u])
  BY <1>1, Someone
<1>3. connected' \/ abandoned' \/ \E u \in Everyone : AtIt(u, pc'[u])
  BY <1>2
<1> QED BY <1>3, SomeoneNext

Held == {"recv", "ended", "drop"}

\* What one thread's move does to everything that is said of pc: the reader has
\* a connection, no reconnect thread is alive before one is started, the
\* heartbeat goes on waiting, and someone is still at it.
LEMMA MoveKeeps ==
  ASSUME IInv,
         NEW t \in Everyone, NEW from, NEW to \in Labels, Go(t, from, to),
         from \notin {"dead", "new"}, current' = current,
         t = Reader /\ to \in Held => from \in Held,
         AtIt(t, from) => AtIt(t, to) \/ connected' \/ abandoned',
         (connected => connected') \/ AtIt(t, to),
         abandoned => abandoned'
  PROVE  /\ pc' \in [Everyone -> Labels]
         /\ pc'[Reader] \in Held => rsock \in Conns
         /\ current = None => \A x \in Reconnects : pc'[x] = "dead"
         /\ ping # None /\ ~(t = Heartbeat /\ from = "waiting") => pc'[Heartbeat] = "waiting"
         /\ SomeoneReconnects'
<1>1. TypeOK /\ PingWaits /\ SomeoneReconnects
  BY DEF IInv
<1>2. /\ pc' \in [Everyone -> Labels]
      /\ pc[t] = from /\ pc'[t] = to
      /\ \A u \in Everyone : u # t => pc'[u] = pc[u]
  BY <1>1, GoMoves
<1>3. Reader \in Everyone /\ Heartbeat \in Everyone /\ Reconnects \subseteq Everyone
  BY DEF Everyone, Threads
<1>4. pc'[Reader] \in Held => rsock \in Conns
  <2>1. pc[Reader] \in Held => rsock \in Conns
    BY <1>1 DEF TypeOK, Held
  <2> QED BY <2>1, <1>2, <1>3
<1>5. current = None => \A x \in Reconnects : pc'[x] = "dead"
  <2>1. current = None => \A x \in Reconnects : pc[x] = "dead"
    BY <1>1 DEF TypeOK
  <2> QED BY <2>1, <1>2, <1>3
<1>6. ping # None /\ ~(t = Heartbeat /\ from = "waiting") => pc'[Heartbeat] = "waiting"
  BY <1>1, <1>2, <1>3 DEF PingWaits
<1>7. SomeoneReconnects'
  <2>0. ToStart => ToStart'
    <3>1. current \in Reconnects \cup {None} /\ Reconnects \subseteq Everyone
      BY <1>1, <1>3 DEF TypeOK
    <3> QED BY <3>1, <1>2 DEF ToStart
  <2>1. pc \in [Everyone -> Labels]
    BY <1>1 DEF TypeOK, Everyone
  <2>2. connected \/ abandoned \/ \E u \in Everyone : AtIt(u, pc[u])
    BY <1>1, <2>1, Someone
  <2>3. CASE AtIt(t, to)
    BY <2>0, <2>3, <1>2, SomeoneNext
  <2>4. CASE ~AtIt(t, to)
    <3>1. connected' \/ abandoned' \/ \E u \in Everyone : AtIt(u, pc'[u])
      <4>1. CASE connected \/ abandoned
        BY <4>1, <2>4
      <4>2. CASE \E u \in Everyone : AtIt(u, pc[u])
        <5>1. PICK u \in Everyone : AtIt(u, pc[u])
          BY <4>2
        <5>2. CASE u = t
          BY <5>1, <5>2, <2>4, <1>2
        <5>3. CASE u # t
          BY <5>1, <5>3, <1>2
        <5> QED BY <5>2, <5>3
      <4> QED BY <4>1, <4>2, <2>2
    <3> QED BY <2>0, <3>1, <1>2, SomeoneNext
  <2> QED BY <2>3, <2>4
<1> QED BY <1>2, <1>4, <1>5, <1>6, <1>7

Pings == [to : {"engine", "web"}, on : Conns] \cup {None}

\* What has its type whatever the threads do.
DataOK ==
  /\ connected \in BOOLEAN /\ up \in BOOLEAN /\ abandoned \in BOOLEAN /\ collided \in BOOLEAN
  /\ fsock \in Conns \cup {None} /\ wsock \in Conns \cup {None}
  /\ sock \in Conns \cup {None} /\ rsock \in Conns \cup {None}
  /\ current \in Reconnects \cup {None}
  /\ fd \in [Conns -> {"open", "held", "closed"}]
  /\ peer \in [Conns -> {"queued", "registered", "gone"}]
  /\ ping \in Pings
  /\ mute \subseteq Conns
  /\ calls \in 0 .. MaxCalls /\ faults \in 0 .. MaxFaults

\* TypeOK, in two parts.
LEMMA TypeParts ==
  TypeOK <=> /\ DataOK
             /\ pc \in [Everyone -> Labels]
             /\ pc[Reader] \in Held => rsock \in Conns
             /\ current = None => \A x \in Reconnects : pc[x] = "dead"
BY DEF TypeOK, DataOK, Everyone, Held, Pings

\* Most steps move one thread and start no reconnect thread; the reader keeps
\* its connection.
LEMMA Walk ==
  ASSUME IInv, DataOK',
         NEW t \in Everyone, NEW from, NEW to \in Labels, Go(t, from, to),
         from \notin {"dead", "new"}, current' = current,
         t = Reader /\ to \in Held => from \in Held,
         AtIt(t, from) => AtIt(t, to) \/ connected' \/ abandoned',
         (connected => connected') \/ AtIt(t, to),
         abandoned => abandoned',
         \/ ping' = None
         \/ ping' # None /\ t = Heartbeat /\ to = "waiting"
         \/ ping' = ping /\ ~(t = Heartbeat /\ from = "waiting"),
         rsock' = rsock
  PROVE  IInv'
<1>1. /\ pc' \in [Everyone -> Labels]
      /\ pc'[Reader] \in Held => rsock \in Conns
      /\ current = None => \A x \in Reconnects : pc'[x] = "dead"
      /\ ping # None /\ ~(t = Heartbeat /\ from = "waiting") => pc'[Heartbeat] = "waiting"
      /\ SomeoneReconnects'
  BY MoveKeeps
<1>2. TypeOK'
  BY <1>1 DEF TypeOK, DataOK, Everyone, Held, Pings
<1>3. PingWaits'
  <2>1. pc'[t] = to
    BY GoMoves DEF IInv
  <2> QED BY <1>1, <2>1 DEF PingWaits
<1> QED BY <1>1, <1>2, <1>3 DEF IInv

\* A step that moves no thread.
LEMMA Sit ==
  ASSUME IInv, DataOK', UNCHANGED <<client, pc>>, ping' = None \/ ping # None
  PROVE  IInv'
<1>1. SomeoneReconnects'
  BY DEF IInv, SomeoneReconnects, client
<1>2. PingWaits'
  BY DEF IInv, PingWaits
<1>3. TypeOK'
  <2>1. /\ pc \in [Everyone -> Labels]
        /\ pc[Reader] \in Held => rsock \in Conns
        /\ current = None => \A x \in Reconnects : pc[x] = "dead"
    BY TypeParts DEF IInv
  <2>2. /\ pc' \in [Everyone -> Labels]
        /\ pc'[Reader] \in Held => rsock' \in Conns
        /\ current' = None => \A x \in Reconnects : pc'[x] = "dead"
    BY <2>1 DEF client
  <2> QED BY <2>2 DEF TypeOK, DataOK, Everyone, Held, Pings
<1> QED BY <1>1, <1>2, <1>3 DEF IInv

-----------------------------------------------------------------------------
(* Every step keeps the invariant.                                         *)

\* The threads, and the labels of each kind.
LEMMA Names ==
  /\ Reader \in Everyone /\ Heartbeat \in Everyone
  /\ Reconnects \subseteq Everyone /\ Threads \subseteq Everyone
  /\ Reader \notin Threads /\ Heartbeat # Reader /\ Heartbeat \notin Reconnects
  /\ \A t \in Callers : t \notin Reconnects /\ t # Heartbeat /\ t # Reader
BY ConstantsAssumption DEF Everyone, Threads

\* Where a thread goes on after a request.
LEMMA DoneLabel ==
  ASSUME NEW t \in Threads
  PROVE  /\ Done(t) \in {"after", "probe", "idle"} /\ Done(t) \in Labels
         /\ t \in Reconnects => Done(t) = "after"
BY DEF Done, Labels

\* The steps of a request.
LEMMA RequestSteps ==
  ASSUME IInv
  PROVE  /\ \A t \in Threads : Call(t) \/ Send(t) \/ SendFails(t) \/ AfterFailure(t) => IInv'
         /\ \A t \in Threads : SendBlocks(t) \/ BlockEnds(t) => IInv'
         /\ \A x \in Reconnects : Resync(x) \/ Waited(x) => IInv'
         /\ PingTimesOut => IInv'
<1>0. DataOK /\ PingWaits
  BY TypeParts DEF IInv
<1>1. ASSUME NEW t \in Threads, Call(t) PROVE IInv'
  <2>1. Go(t, "idle", "send") /\ UNCHANGED <<client, fd, peer, ping, mute, up>>
    BY <1>1 DEF Call
  <2>2. faults' \in 0 .. MaxFaults /\ calls' \in 0 .. MaxCalls
    <3>1. CASE t = Heartbeat
      BY <1>0, <1>1, <3>1, ConstantsAssumption DEF Call, InTime, DataOK
    <3>2. CASE t # Heartbeat
      BY <1>0, <1>1, <3>2, ConstantsAssumption DEF Call, DataOK
    <3> QED BY <3>1, <3>2
  <2>3. DataOK'
    BY <1>0, <2>1, <2>2 DEF DataOK, client, own, Pings
  <2> QED BY <2>1, <2>3, Walk, Names DEF client, AtIt, Starting, Assigned, Held, Labels
<1>2. ASSUME NEW t \in Threads, Send(t) PROVE IInv'
  <2> DEFINE to == IF t \in Callers THEN "idle" ELSE "waiting"
  <2>1. Go(t, "send", to) /\ UNCHANGED <<client, fd, peer, mute, up, calls, faults>>
    BY <1>2 DEF Send
  <2>2. to \in Labels /\ to \notin Held /\ (t \in Reconnects => to = "waiting")
    BY Names DEF Labels, Held
  <2>3. \/ ping' = ping
        \/ t = Heartbeat /\ ping' = [to |-> "engine", on |-> sock] /\ sock \in Conns
    BY <1>0, <1>2 DEF Send, DataOK
  <2>4. DataOK'
    BY <1>0, <2>1, <2>3 DEF DataOK, client, own, Pings
  <2>5. t = Heartbeat => to = "waiting"
    BY Names
  <2> HIDE DEF to
  <2>6. \/ ping' = None
        \/ ping' # None /\ t = Heartbeat /\ to = "waiting"
        \/ ping' = ping /\ ~(t = Heartbeat /\ "send" = "waiting")
    BY <2>3, <2>5
  <2> QED BY <2>1, <2>2, <2>4, <2>6, Walk, Names DEF client, AtIt, Starting, Assigned
<1>3. ASSUME NEW t \in Threads, SendFails(t) PROVE IInv'
  <2>1. Go(t, "send", "failed") /\ UNCHANGED <<client, net>>
    BY <1>3 DEF SendFails
  <2>2. DataOK'
    BY <1>0, <2>1 DEF DataOK, client, own, net, Pings
  <2> QED BY <2>1, <2>2, Walk, Names DEF client, net, AtIt, Starting, Assigned, Held, Labels
<1>4. ASSUME NEW t \in Threads, AfterFailure(t) PROVE IInv'
  <2>1. Go(t, "failed", "starting") /\ connected' = FALSE
        /\ UNCHANGED <<sock, current, rsock, abandoned, own, net>>
    BY <1>4 DEF AfterFailure
  <2>2. DataOK'
    BY <1>0, <2>1 DEF DataOK, own, net, Pings
  <2> QED BY <2>1, <2>2, Walk, Names DEF net, AtIt, Starting, Assigned, Held, Labels
<1>5. ASSUME NEW x \in Reconnects, Resync(x) PROVE IInv'
  <2> DEFINE to == IF connected THEN "send" ELSE "after"
  <2>1. Go(x, "resync", to) /\ UNCHANGED <<client, net>>
    BY <1>5 DEF Resync
  <2>2. DataOK'
    BY <1>0, <2>1 DEF DataOK, client, own, net, Pings
  <2>3. to \in Labels /\ to \notin Held /\ AtIt(x, to)
    BY DEF Labels, Held, AtIt
  <2> HIDE DEF to
  <2> QED BY <2>1, <2>2, <2>3, Walk, Names DEF client, net
<1>6. ASSUME NEW x \in Reconnects, Waited(x) PROVE IInv'
  <2>1. Go(x, "waiting", "after") /\ UNCHANGED <<client, net>>
    BY <1>6, DoneLabel DEF Waited, Threads
  <2>2. DataOK'
    BY <1>0, <2>1 DEF DataOK, client, own, net, Pings
  <2> QED BY <2>1, <2>2, Walk, Names DEF client, net, AtIt, Starting, Assigned, Held, Labels
<1>7. ASSUME PingTimesOut PROVE IInv'
  <2>1. Go(Heartbeat, "waiting", "probe") /\ ping' = None
        /\ UNCHANGED <<client, fd, peer, mute, up, calls>>
    BY <1>7 DEF PingTimesOut
  <2>2. faults' \in 0 .. MaxFaults
    BY <1>0, <1>7, ConstantsAssumption DEF PingTimesOut, InTime, DataOK
  <2>3. DataOK'
    BY <1>0, <2>1, <2>2 DEF DataOK, client, own, Pings
  <2> QED BY <2>1, <2>3, Walk, Names DEF client, AtIt, Starting, Assigned, Held, Labels
<1>8. ASSUME NEW t \in Threads, SendBlocks(t) PROVE IInv'
  <2>1. Go(t, "send", "blocked") /\ wsock' = sock
        /\ UNCHANGED <<connected, sock, current, rsock, fsock, abandoned, collided, net>>
    BY <1>8 DEF SendBlocks
  <2>2. DataOK'
    BY <1>0, <2>1 DEF DataOK, net, Pings
  <2> QED BY <2>1, <2>2, Walk, Names DEF net, AtIt, Starting, Assigned, Held, Labels
<1>9. ASSUME NEW t \in Threads, BlockEnds(t) PROVE IInv'
  <2>1. Go(t, "blocked", "failed") /\ wsock' = None
        /\ UNCHANGED <<connected, sock, current, rsock, fsock, abandoned, collided,
                       peer, ping, mute, up, calls, faults>>
    BY <1>9 DEF BlockEnds
  <2>2. fd' \in [Conns -> {"open", "held", "closed"}]
    BY <1>0, <1>9 DEF BlockEnds, DataOK
  <2>3. DataOK'
    BY <1>0, <2>1, <2>2 DEF DataOK, Pings
  <2> QED BY <2>1, <2>3, Walk, Names DEF AtIt, Starting, Assigned, Held, Labels
<1> QED BY <1>1, <1>2, <1>3, <1>4, <1>5, <1>6, <1>7, <1>8, <1>9

\* _start_reconnect, by whatever thread: a reconnect thread that lives is at it
\* or has ended its loop; one that waits for its start has a thread that starts
\* it; one that is started is at it.
LEMMA StartSteps ==
  ASSUME IInv, NEW t \in Everyone, NEW from \in Starting, NEW spawning \in Starting,
         NEW assigned \in Assigned, NEW to \in Labels, NEW raised \in Labels,
         {to, raised} \cap Held = {}, t \in Reconnects => to = "after" /\ raised = "after"
  PROVE  /\ StartReconnect(t, from, spawning, to) => IInv'
         /\ Assign(t, spawning, assigned) => IInv'
         /\ Start(t, assigned, to) => IInv'
         /\ StartRaises(t, assigned, raised) => IInv'
<1>0. TypeOK /\ DataOK /\ PingWaits /\ SomeoneReconnects
  BY TypeParts DEF IInv
<1>1. /\ {from, spawning, assigned} \cap {"waiting", "dead", "new"} = {}
      /\ {from, spawning, assigned} \cap Held = {}
      /\ spawning \in Labels /\ assigned \in Labels
  <2>1. {from, spawning, assigned} \cap {"waiting", "dead", "new"} = {}
    BY DEF Starting, Assigned
  <2>2. {from, spawning, assigned} \cap Held = {}
    BY DEF Starting, Assigned, Held
  <2>3. spawning \in Labels
    BY DEF Starting, Labels
  <2>4. assigned \in Labels
    BY DEF Assigned, Labels
  <2> QED BY <2>1, <2>2, <2>3, <2>4
<1>b. pc \in [Everyone -> Labels] /\ (pc[Reader] \in Held => rsock \in Conns)
  BY <1>0, TypeParts
<1>2. ASSUME StartReconnect(t, from, spawning, to) PROVE IInv'
  <2>1. UNCHANGED <<connected, sock, current, rsock, own, net>>
        /\ abandoned' = (abandoned \/ (Alive(current) /\ pc[current] = "exiting"))
    BY <1>2 DEF StartReconnect
  <2>2. DataOK'
    BY <1>0, <2>1 DEF DataOK, own, net, Pings
  <2>3. CASE ~Alive(current)
    <3>1. Go(t, from, spawning)
      BY <1>2, <2>3 DEF StartReconnect
    <3> QED BY <1>1, <2>1, <2>2, <3>1, Walk DEF net, AtIt
  <2>4. CASE Alive(current)
    <3>1. Go(t, from, to)
      BY <1>2, <2>4 DEF StartReconnect
    <3>2. current \in Reconnects /\ pc[current] \notin {"dead", "new"}
      BY <1>0, <2>4 DEF Alive, Started, DataOK
    <3>3. pc' \in [Everyone -> Labels] /\ pc[t] = from /\ pc'[t] = to
          /\ \A u \in Everyone : u # t => pc'[u] = pc[u]
      BY <1>0, <3>1, GoMoves
    <3>4. AtIt(current, pc'[current]) \/ abandoned'
      <4>1. CASE current = t
        BY <3>2, <3>3, <4>1 DEF AtIt
      <4>2. CASE current # t
        <5>1. pc'[current] = pc[current]
          BY <3>2, <3>3, <4>2, Names
        <5> QED BY <5>1, <3>2, <2>1, <2>4 DEF AtIt
      <4> QED BY <4>1, <4>2
    <3>5. SomeoneReconnects'
      <4>1. ~ToStart
        BY <3>2 DEF ToStart
      <4> QED BY <3>2, <3>3, <3>4, <4>1, SomeoneNext, Names
    <3>6. TypeOK'
      <4>1. pc'[Reader] \in Held => rsock \in Conns
        BY <1>b, <3>3, Names
      <4>2. current # None
        BY <3>2, ConstantsAssumption
      <4> QED BY <2>1, <2>2, <3>3, <4>1, <4>2 DEF TypeOK, DataOK, Everyone, Held, Pings
    <3>7. PingWaits'
      BY <1>0, <1>1, <2>1, <3>3, Names DEF PingWaits, net
    <3> QED BY <3>5, <3>6, <3>7 DEF IInv
  <2> QED BY <2>3, <2>4
<1>3. ASSUME Assign(t, spawning, assigned) PROVE IInv'
  <2>1. pc[t] = spawning /\ UNCHANGED <<connected, sock, rsock, abandoned, own, net>>
    BY <1>3 DEF Assign
  <2>2. PICK x \in Reconnects :
          /\ pc[x] = "dead" /\ current' = x
          /\ pc' = [u \in DOMAIN pc |-> IF u = t THEN assigned
                                       ELSE IF u = x THEN "new"
                                       ELSE IF pc[u] = "new" THEN "dead" ELSE pc[u]]
    BY <1>3 DEF Assign
  <2>3. DataOK'
    BY <1>0, <2>1, <2>2 DEF DataOK, own, net, Pings
  <2>4. x # t /\ x \in Everyone /\ x # Reader /\ x # Heartbeat
    BY <1>1, <2>1, <2>2, Names, ConstantsAssumption
  <2>5. /\ pc'[t] = assigned /\ pc'[x] = "new" /\ DOMAIN pc' = Everyone
        /\ \A u \in Everyone : u # t /\ u # x => pc'[u] \in {"dead", pc[u]}
        /\ \A u \in Everyone : u # t /\ u # x /\ pc[u] # "new" => pc'[u] = pc[u]
    BY <1>b, <2>2, <2>4
  <2>6. pc' \in [Everyone -> Labels]
    <3>1. "dead" \in Labels /\ "new" \in Labels
      BY DEF Labels
    <3> QED BY <1>1, <1>b, <2>2, <3>1
  <2>7. SomeoneReconnects'
    <3>1. current' # None /\ pc'[current'] = "new" /\ pc'[t] \in {"assigned", "forced assigned"}
      BY <2>2, <2>5, ConstantsAssumption DEF Assigned
    <3> QED BY <2>5, <3>1 DEF SomeoneReconnects
  <2>8. TypeOK'
    <3>1. pc'[Reader] \in Held => rsock \in Conns
      <4>1. pc'[Reader] \in Held => pc[Reader] \in Held
        BY <1>1, <2>4, <2>5, Names DEF Held
      <4> QED BY <1>b, <4>1
    <3>2. current' # None
      BY <2>2, ConstantsAssumption
    <3> QED BY <2>1, <2>3, <2>6, <3>1, <3>2 DEF TypeOK, DataOK, Everyone, Held, Pings
  <2>9. PingWaits'
    <3>1. pc[Heartbeat] = "waiting" => pc'[Heartbeat] = "waiting"
      BY <1>1, <2>1, <2>4, <2>5, Names
    <3> QED BY <1>0, <2>1, <3>1 DEF PingWaits, net
  <2> QED BY <2>7, <2>8, <2>9 DEF IInv
<1>4. ASSUME Start(t, assigned, to) PROVE IInv'
  <2>1. /\ pc[t] = assigned /\ current # None /\ pc[current] = "new"
        /\ pc' = [pc EXCEPT ![t] = to, ![current] = "loop"]
        /\ collided' \in BOOLEAN
        /\ UNCHANGED <<connected, sock, current, rsock, fsock, wsock, abandoned, net>>
    BY <1>0, <1>4 DEF Start, DataOK
  <2>2. DataOK'
    BY <1>0, <2>1 DEF DataOK, net, Pings
  <2>3. current \in Reconnects /\ current \in Everyone /\ current # t /\ "loop" \in Labels
        /\ current # Reader /\ current # Heartbeat
    BY <1>0, <1>1, <2>1, Names, ConstantsAssumption DEF DataOK, Labels
  <2>4. pc' \in [Everyone -> Labels] /\ pc'[t] = to /\ pc'[current] = "loop"
        /\ \A u \in Everyone : u # t /\ u # current => pc'[u] = pc[u]
    BY <1>b, <2>1, <2>3
  <2>5. SomeoneReconnects'
    BY <2>3, <2>4 DEF SomeoneReconnects
  <2>6. TypeOK'
    <3>1. pc'[Reader] \in Held => rsock \in Conns
      BY <1>b, <2>3, <2>4, Names
    <3> QED BY <2>1, <2>2, <2>4, <3>1 DEF TypeOK, DataOK, Everyone, Held, Pings
  <2>7. PingWaits'
    <3>1. pc[Heartbeat] = "waiting" => pc'[Heartbeat] = "waiting"
      BY <1>1, <2>1, <2>3, <2>4, Names
    <3> QED BY <1>0, <2>1, <3>1 DEF PingWaits, net
  <2> QED BY <2>5, <2>6, <2>7 DEF IInv
<1>5. ASSUME StartRaises(t, assigned, raised) PROVE IInv'
  <2>1. Go(t, assigned, raised) /\ UNCHANGED <<client, net>> /\ ~ToStart
    BY <1>5 DEF StartRaises, ToStart
  <2>2. DataOK'
    BY <1>0, <2>1 DEF DataOK, client, own, net, Pings
  <2>3. AtIt(t, assigned) => AtIt(t, raised)
    BY <1>1, <2>1 DEF AtIt, Starting, Assigned
  <2> QED BY <1>1, <2>1, <2>2, <2>3, Walk DEF client, net
<1> QED BY <1>2, <1>3, <1>4, <1>5

\* The same by its callers.
LEMMA StartsSteps ==
  ASSUME IInv
  PROVE  /\ \A t \in Everyone : Starts(t) => IInv'
         /\ HeartbeatStarts => IInv'
<1>1. ASSUME NEW t \in Everyone, Starts(t) PROVE IInv'
  <2> DEFINE to == IF t = Reader THEN "top" ELSE Done(t)
             raised == IF t = Reader THEN "raised" ELSE Done(t)
  <2>1. \/ StartReconnect(t, "starting", "spawning", to) \/ Assign(t, "spawning", "assigned")
        \/ Start(t, "assigned", to) \/ StartRaises(t, "assigned", raised)
    BY <1>1 DEF Starts
  <2>2. t = Reader \/ t \in Threads
    BY DEF Everyone
  <2>3. /\ to \in Labels /\ raised \in Labels /\ {to, raised} \cap Held = {}
        /\ t \in Reconnects => to = "after" /\ raised = "after"
    <3>1. CASE t = Reader
      BY <3>1, ConstantsAssumption DEF Labels, Held
    <3>2. CASE t \in Threads
      <4>1. to = Done(t) /\ raised = Done(t)
        BY <3>2, Names
      <4>2. Done(t) \in {"after", "probe", "idle"} /\ Done(t) \in Labels
            /\ (t \in Reconnects => Done(t) = "after")
        BY <3>2, DoneLabel
      <4> HIDE DEF to, raised
      <4> QED BY <4>1, <4>2 DEF Held
    <3> QED BY <2>2, <3>1, <3>2
  <2> HIDE DEF to, raised
  <2> QED BY <2>1, <2>3, StartSteps DEF Starting, Assigned
<1>2. ASSUME HeartbeatStarts PROVE IInv'
  <2>1. {"idle", "raised"} \subseteq Labels /\ {"idle", "raised"} \cap Held = {}
    BY DEF Labels, Held
  <2>2. /\ "forced starting" \in Starting /\ "forced spawning" \in Starting
        /\ "forced assigned" \in Assigned
    BY DEF Starting, Assigned
  <2> QED BY <1>2, <2>1, <2>2, StartSteps, Names DEF HeartbeatStarts
<1> QED BY <1>1, <1>2

\* The heartbeat after a ping without an answer.
LEMMA HeartbeatSteps ==
  ASSUME IInv
  PROVE  Probe \/ ForceDisconnect \/ TakeSock \/ Discard => IInv'
<1>0. DataOK
  BY TypeParts DEF IInv
<1>1. ASSUME Probe PROVE IInv'
  <2> DEFINE to == IF connected THEN "force" ELSE "idle"
  <2>1. Go(Heartbeat, "probe", to) /\ UNCHANGED <<client, net>>
    BY <1>1 DEF Probe
  <2>2. DataOK'
    BY <1>0, <2>1 DEF DataOK, client, own, net, Pings
  <2>3. to \in Labels /\ to \notin Held
    BY DEF Labels, Held
  <2>4. ~AtIt(Heartbeat, "probe")
    BY Names DEF AtIt, Starting, Assigned
  <2> HIDE DEF to
  <2> QED BY <2>1, <2>2, <2>3, <2>4, Walk, Names DEF client, net
<1>2. ASSUME ForceDisconnect PROVE IInv'
  <2>1. Go(Heartbeat, "force", "take") /\ connected' = FALSE
        /\ UNCHANGED <<sock, current, rsock, abandoned, own, net>>
    BY <1>2 DEF ForceDisconnect
  <2>2. DataOK'
    BY <1>0, <2>1 DEF DataOK, own, net, Pings
  <2> QED BY <2>1, <2>2, Walk, Names DEF net, AtIt, Starting, Assigned, Held, Labels
<1>3. ASSUME TakeSock PROVE IInv'
  <2>1. Go(Heartbeat, "take", "discard") /\ fsock' = sock
        /\ UNCHANGED <<connected, sock, current, rsock, wsock, abandoned, collided, net>>
    BY <1>3 DEF TakeSock
  <2>2. DataOK'
    BY <1>0, <2>1 DEF DataOK, net, Pings
  <2> QED BY <2>1, <2>2, Walk, Names DEF net, AtIt, Starting, Assigned, Held, Labels
<1>4. ASSUME Discard PROVE IInv'
  <2>1. Go(Heartbeat, "discard", "forced starting") /\ sock' = None /\ fsock' = None
        /\ collided' = (collided \/ sock \notin {fsock, None})
        /\ UNCHANGED <<connected, current, rsock, wsock, abandoned, peer, ping, mute, up, calls, faults>>
    BY <1>4 DEF Discard
  <2>2. fd' \in [Conns -> {"open", "held", "closed"}]
    BY <1>0, <1>4 DEF Discard, DataOK
  <2>3. DataOK'
    BY <1>0, <2>1, <2>2 DEF DataOK, Pings
  <2> QED BY <2>1, <2>3, Walk, Names DEF AtIt, Starting, Assigned, Held, Labels
<1> QED BY <1>1, <1>2, <1>3, <1>4

\* The steps of a reconnect thread: it ends its loop only when connected.
LEMMA ReconnectSteps ==
  ASSUME IInv, NEW x \in Reconnects
  PROVE  Loop(x) \/ Close(x) \/ Unset(x) \/ Dial(x) \/ Refused(x) \/ AfterConnect(x) \/ Exits(x) => IInv'
<1>0. DataOK
  BY TypeParts DEF IInv
<1>1. ASSUME Loop(x) PROVE IInv'
  <2> DEFINE to == IF connected THEN "exiting" ELSE "close"
  <2>1. Go(x, "loop", to) /\ UNCHANGED <<client, net>>
    BY <1>1 DEF Loop
  <2>2. DataOK'
    BY <1>0, <2>1 DEF DataOK, client, own, net, Pings
  <2>3. to \in Labels /\ to \notin Held /\ (AtIt(x, to) \/ connected)
    BY DEF Labels, Held, AtIt
  <2> HIDE DEF to
  <2> QED BY <2>1, <2>2, <2>3, Walk, Names DEF client, net
<1>2. ASSUME Close(x) PROVE IInv'
  <2> DEFINE to == IF sock # None THEN "unset" ELSE "dial"
  <2>1. Go(x, "close", to) /\ UNCHANGED <<client, peer, ping, mute, up, calls>>
    BY <1>2 DEF Close
  <2>2. fd' \in [Conns -> {"open", "held", "closed"}]
    BY <1>0, <1>2 DEF Close, DataOK
  <2>3. faults' \in 0 .. MaxFaults
    BY <1>0, <1>2, ConstantsAssumption DEF Close, InTime, DataOK
  <2>4. DataOK'
    BY <1>0, <2>1, <2>2, <2>3 DEF DataOK, client, own, Pings
  <2>5. to \in Labels /\ to \notin Held /\ AtIt(x, to)
    BY DEF Labels, Held, AtIt
  <2> HIDE DEF to
  <2> QED BY <2>1, <2>4, <2>5, Walk, Names DEF client
<1>7. ASSUME Unset(x) PROVE IInv'
  <2>1. Go(x, "unset", "dial") /\ sock' = None
        /\ UNCHANGED <<connected, current, rsock, abandoned, own, net>>
    BY <1>7 DEF Unset
  <2>2. DataOK'
    BY <1>0, <2>1 DEF DataOK, own, net, Pings
  <2> QED BY <2>1, <2>2, Walk, Names DEF net, AtIt, Starting, Assigned, Held, Labels
<1>3. ASSUME Dial(x) PROVE IInv'
  <2>1. Go(x, "dial", "resync") /\ UNCHANGED <<current, rsock, abandoned, own, ping, up, calls, faults>>
    BY <1>3 DEF Dial
  <2>2. PICK c \in Conns : /\ sock' = c
                           /\ connected' = TRUE
                           /\ fd' = [fd EXCEPT ![c] = "open"] /\ peer' = [peer EXCEPT ![c] = "queued"]
                           /\ mute' = mute \ {c}
    BY <1>3 DEF Dial
  <2>3. DataOK'
    BY <1>0, <2>1, <2>2 DEF DataOK, own, Pings
  <2> QED BY <2>1, <2>2, <2>3, Walk, Names DEF AtIt, Starting, Assigned, Held, Labels
<1>4. ASSUME Refused(x) PROVE IInv'
  <2>1. Go(x, "dial", "after") /\ UNCHANGED <<client, net>>
    BY <1>4 DEF Refused
  <2>2. DataOK'
    BY <1>0, <2>1 DEF DataOK, client, own, net, Pings
  <2> QED BY <2>1, <2>2, Walk, Names DEF client, net, AtIt, Starting, Assigned, Held, Labels
<1>5. ASSUME AfterConnect(x) PROVE IInv'
  <2> DEFINE to == IF connected THEN "exiting" ELSE "loop"
  <2>1. Go(x, "after", to) /\ UNCHANGED <<client, net>>
    BY <1>5 DEF AfterConnect
  <2>2. DataOK'
    BY <1>0, <2>1 DEF DataOK, client, own, net, Pings
  <2>3. to \in Labels /\ to \notin Held /\ (AtIt(x, to) \/ connected)
    BY DEF Labels, Held, AtIt
  <2> HIDE DEF to
  <2> QED BY <2>1, <2>2, <2>3, Walk, Names DEF client, net
<1>6. ASSUME Exits(x) PROVE IInv'
  <2>1. Go(x, "exiting", "dead") /\ UNCHANGED <<client, net>>
    BY <1>6 DEF Exits
  <2>2. DataOK'
    BY <1>0, <2>1 DEF DataOK, client, own, net, Pings
  <2> QED BY <2>1, <2>2, Walk, Names DEF client, net, AtIt, Starting, Assigned, Held, Labels
<1> QED BY <1>1, <1>2, <1>3, <1>4, <1>5, <1>6, <1>7

\* The steps of the reader.
LEMMA ReaderSteps ==
  ASSUME IInv
  PROVE  PickUp \/ Recv \/ RecvFails \/ Ended \/ Drop => IInv'
<1>0. TypeOK /\ DataOK /\ PingWaits /\ SomeoneReconnects
  BY TypeParts DEF IInv
<1>a. Reader \notin Reconnects
  BY ConstantsAssumption
<1>1. ASSUME PickUp PROVE IInv'
  <2>1. /\ Go(Reader, "top", "recv") /\ rsock' = sock /\ sock # None /\ connected
        /\ UNCHANGED <<connected, sock, current, abandoned, own, net>>
    BY <1>1 DEF PickUp
  <2>2. DataOK'
    BY <1>0, <2>1 DEF DataOK, own, net, Pings
  <2>3. pc' \in [Everyone -> Labels] /\ \A u \in Everyone : u # Reader => pc'[u] = pc[u]
    BY <1>0, <2>1, GoMoves, Names DEF Labels
  <2>4. SomeoneReconnects'
    BY <2>1 DEF SomeoneReconnects
  <2>5. TypeOK'
    <3>1. rsock' \in Conns
      BY <1>0, <2>1 DEF DataOK
    <3>2. current = None => \A x \in Reconnects : pc'[x] = "dead"
      BY <1>0, <1>a, <2>3, TypeParts, Names
    <3> QED BY <2>1, <2>2, <2>3, <3>1, <3>2 DEF TypeOK, DataOK, Everyone, Held, Pings
  <2>6. PingWaits'
    BY <1>0, <2>1, <2>3, Names DEF PingWaits, net
  <2> QED BY <2>4, <2>5, <2>6 DEF IInv
<1>2. ASSUME Recv PROVE IInv'
  <2>1. pc[Reader] = "recv" /\ UNCHANGED <<client, peer, mute, up, calls, faults>>
    BY <1>2 DEF Recv
  <2>2. fd' \in [Conns -> {"open", "held", "closed"}]
    BY <1>0, <1>2 DEF Recv, Returned, DataOK
  <2>3. Again \in {"recv", "ended"} /\ Again \in Labels /\ ~AtIt(Reader, "recv") /\ "recv" \in Held
    BY <1>a DEF Again, Labels, AtIt, Starting, Assigned, Held
  <2>4. CASE /\ ping' = ping
             /\ pc' = [pc EXCEPT ![Reader] = Again]
    <3>1. DataOK'
      BY <1>0, <2>1, <2>2, <2>4 DEF DataOK, client, own, Pings
    <3>2. Go(Reader, "recv", Again)
      BY <2>1, <2>4 DEF Go
    <3> QED BY <1>a, <2>1, <2>3, <2>4, <3>1, <3>2, Walk, Names DEF client
  <2>5. CASE /\ ping = [to |-> "web", on |-> rsock] /\ ping' = None
             /\ pc' = [pc EXCEPT ![Reader] = Again, ![Heartbeat] = "idle"]
    <3>1. DataOK'
      BY <1>0, <2>1, <2>2, <2>5 DEF DataOK, client, own, Pings
    <3>2. rsock \in Conns
      BY <1>0, <2>1, TypeParts DEF Held
    <3>3. pc[Heartbeat] = "waiting"
      <4>1. ping # None
        BY <2>5, <3>2, ConstantsAssumption
      <4> QED BY <1>0, <4>1 DEF PingWaits
    <3>4. pc \in [Everyone -> Labels] /\ "idle" \in Labels
      BY <1>0, TypeParts DEF Labels
    <3>5. /\ pc' \in [Everyone -> Labels]
          /\ \A u \in Everyone : u # Reader /\ u # Heartbeat => pc'[u] = pc[u]
      BY <2>3, <2>5, <3>4
    <3>6. TypeOK'
      <4>1. current = None => \A x \in Reconnects : pc'[x] = "dead"
        BY <1>0, <1>a, <3>5, TypeParts, Names
      <4> QED BY <2>1, <3>1, <3>2, <3>5, <4>1 DEF TypeOK, DataOK, Everyone, Held, Pings, client
    <3>7. PingWaits'
      BY <2>5 DEF PingWaits
    <3>8. SomeoneReconnects'
      <4>0. ToStart => ToStart'
        BY <1>0, <1>a, <2>1, <3>5, Names DEF DataOK, ToStart, client
      <4>1. ~AtIt(Heartbeat, pc[Heartbeat]) /\ ~AtIt(Reader, pc[Reader])
        BY <2>1, <2>3, <3>3, Names DEF AtIt, Starting, Assigned
      <4>2. \A u \in Everyone : AtIt(u, pc[u]) => AtIt(u, pc'[u])
        BY <3>5, <4>1
      <4> QED BY <1>0, <2>1, <3>5, <4>0, <4>2, Kept DEF client
    <3> QED BY <3>6, <3>7, <3>8 DEF IInv
  <2> QED BY <1>2, <2>4, <2>5 DEF Recv
<1>3. ASSUME RecvFails PROVE IInv'
  <2>1. Go(Reader, "recv", "ended") /\ UNCHANGED <<client, peer, ping, mute, up, calls, faults>>
    BY <1>3 DEF RecvFails
  <2>2. fd' \in [Conns -> {"open", "held", "closed"}]
    BY <1>0, <1>3 DEF RecvFails, Returned, DataOK
  <2>3. DataOK'
    BY <1>0, <2>1, <2>2 DEF DataOK, client, own, Pings
  <2> QED BY <1>a, <2>1, <2>3, Walk, Names DEF client, AtIt, Starting, Assigned, Held, Labels
<1>4. ASSUME Ended PROVE IInv'
  <2> DEFINE to == IF sock = rsock THEN "drop" ELSE "top"
  <2>1. Go(Reader, "ended", to) /\ UNCHANGED <<client, net>>
    BY <1>4 DEF Ended
  <2>2. DataOK'
    BY <1>0, <2>1 DEF DataOK, client, own, net, Pings
  <2>3. to \in Labels /\ "ended" \in Held /\ ~AtIt(Reader, "ended")
    BY <1>a DEF Labels, Held, AtIt, Starting, Assigned
  <2> HIDE DEF to
  <2> QED BY <1>a, <2>1, <2>2, <2>3, Walk, Names DEF client, net
<1>5. ASSUME Drop PROVE IInv'
  <2>1. Go(Reader, "drop", "starting") /\ connected' = FALSE
        /\ UNCHANGED <<sock, current, rsock, abandoned, own, net>>
    BY <1>5 DEF Drop
  <2>2. DataOK'
    BY <1>0, <2>1 DEF DataOK, own, net, Pings
  <2> QED BY <1>a, <2>1, <2>2, Walk, Names DEF net, AtIt, Starting, Assigned, Held, Labels
<1> QED BY <1>1, <1>2, <1>3, <1>4, <1>5

\* The interpreter closes a connection.
LEMMA CollectStep ==
  ASSUME IInv, NEW c \in Conns, Collect(c)
  PROVE  IInv'
<1>1. UNCHANGED <<client, pc, peer, ping, mute, up, calls, faults>> /\ fd' = [fd EXCEPT ![c] = "closed"]
  BY DEF Collect
<1>2. DataOK
  BY TypeParts DEF IInv
<1>3. DataOK'
  BY <1>1, <1>2 DEF DataOK, client, own, Pings
<1> QED BY <1>1, <1>3, Sit

\* The steps of the engine and of the network move no thread of the client.
LEMMA EngineSteps ==
  ASSUME IInv
  PROVE  EngineStep \/ Crash \/ Sleep \/ (\E c \in Conns : Keepalive(c)) => IInv'
<1>0. DataOK
  BY TypeParts DEF IInv
<1>1. ASSUME NEW c \in Conns, Accept(c) PROVE IInv'
  <2>1. UNCHANGED <<client, pc, fd, ping, mute, up, calls, faults>>
    BY <1>1 DEF Accept
  <2>2. peer' \in [Conns -> {"queued", "registered", "gone"}]
    BY <1>0, <1>1 DEF Accept, Registered, DataOK
  <2>3. DataOK'
    BY <1>0, <2>1, <2>2 DEF DataOK, client, own, Pings
  <2> QED BY <2>1, <2>3, Sit
<1>2. ASSUME NEW c \in Conns, DropClient(c) PROVE IInv'
  <2>1. UNCHANGED <<client, pc, fd, ping, mute, up, calls, faults>>
        /\ peer' = [peer EXCEPT ![c] = "gone"]
    BY <1>2 DEF DropClient
  <2>2. DataOK'
    BY <1>0, <2>1 DEF DataOK, client, own, Pings
  <2> QED BY <2>1, <2>2, Sit
<1>3. ASSUME NEW c \in Conns, Serve(c) PROVE IInv'
  <2>1. UNCHANGED <<client, pc, fd, peer, mute, up, calls, faults>>
        /\ ping = [to |-> "engine", on |-> c]
    BY <1>3 DEF Serve
  <2>2. ping # None /\ ping' \in Pings
    BY <1>3, <2>1, ConstantsAssumption DEF Serve, Pings
  <2>3. DataOK'
    BY <1>0, <2>1, <2>2 DEF DataOK, client, own
  <2> QED BY <2>1, <2>2, <2>3, Sit
<1>4. ASSUME EngineStarts \/ Crash \/ Sleep PROVE IInv'
  <2>1. UNCHANGED <<client, pc, fd, ping, calls>>
    BY <1>4 DEF EngineStarts, Crash, Sleep
  <2>2. /\ peer' \in [Conns -> {"queued", "registered", "gone"}]
        /\ mute' \subseteq Conns /\ up' \in BOOLEAN
    BY <1>0, <1>4 DEF EngineStarts, Crash, Sleep, DataOK
  <2>3. faults' \in 0 .. MaxFaults
    BY <1>0, <1>4, ConstantsAssumption DEF EngineStarts, Crash, Sleep, DataOK
  <2>4. DataOK'
    BY <1>0, <2>1, <2>2, <2>3 DEF DataOK, client, own, Pings
  <2> QED BY <2>1, <2>4, Sit
<1>5. ASSUME NEW c \in Conns, Keepalive(c) PROVE IInv'
  <2>1. UNCHANGED <<client, pc, fd, ping, up, calls, faults>>
        /\ mute' = mute \ {c} /\ peer' = [peer EXCEPT ![c] = "gone"]
    BY <1>5 DEF Keepalive
  <2>2. DataOK'
    BY <1>0, <2>1 DEF DataOK, client, own, Pings
  <2> QED BY <2>1, <2>2, Sit
<1> QED BY <1>1, <1>2, <1>3, <1>4, <1>5 DEF EngineStep
-----------------------------------------------------------------------------
(* The theorems.                                                           *)

\* The web server begins connected, or takes note that it began alone.
LEMMA Initially == Init => IInv
<1> SUFFICES ASSUME Init PROVE IInv
  OBVIOUS
<1>1. sock \in Conns \cup {None}
  BY ConstantsAssumption DEF Init
<1>2. pc \in [Everyone -> Labels] /\ pc[Reader] = "top"
  BY DEF Init, Labels, Everyone
<1>3. \A x \in Reconnects : pc[x] = "dead"
  BY ConstantsAssumption DEF Init, Threads
<1>4. DataOK
  <2>1. calls \in 0 .. MaxCalls /\ faults \in 0 .. MaxFaults
    BY ConstantsAssumption DEF Init
  <2>2. /\ fd \in [Conns -> {"open", "held", "closed"}]
        /\ peer \in [Conns -> {"queued", "registered", "gone"}]
    BY DEF Init
  <2>3. up \in BOOLEAN /\ connected \in BOOLEAN /\ abandoned \in BOOLEAN /\ collided \in BOOLEAN
    BY Zenon DEF Init
  <2> QED BY <1>1, <2>1, <2>2, <2>3 DEF Init, DataOK, Pings
<1>5. TypeOK
  BY <1>2, <1>3, <1>4, TypeParts DEF Held
<1>6. PingWaits /\ SomeoneReconnects
  BY DEF Init, PingWaits, SomeoneReconnects
<1> QED BY <1>5, <1>6 DEF IInv

LEMMA Inductive == IInv /\ [Next]_vars => IInv'
<1> SUFFICES ASSUME IInv, [Next]_vars PROVE IInv'
  OBVIOUS
<1>1. CASE ClientStep
  <2>1. CASE \E c \in Conns : Collect(c)
    <3>1. PICK c \in Conns : Collect(c)
      BY <2>1
    <3> QED BY <3>1, CollectStep
  <2> QED BY <1>1, <2>1, Names, RequestSteps, StartsSteps, HeartbeatSteps, ReconnectSteps, ReaderSteps
          DEF ClientStep
<1>2. CASE EngineStep \/ Crash \/ Sleep \/ \E c \in Conns : Keepalive(c)
  BY <1>2, EngineSteps
<1>3. CASE UNCHANGED vars
  <2>1. DataOK'
    <3>1. DataOK
      BY TypeParts DEF IInv
    <3> QED BY <1>3, <3>1 DEF DataOK, Pings, vars
  <2>2. UNCHANGED <<client, pc>> /\ ping' = ping
    BY <1>3 DEF vars, client, own
  <2> QED BY <2>1, <2>2, Sit
<1> QED BY <1>1, <1>2, <1>3 DEF Next

\* Variables and labels keep their types; the reader reads from a connection;
\* a reconnect thread lives only after one has been started.
THEOREM TypeCorrect == Spec => []TypeOK
<1>1. IInv => TypeOK
  BY DEF IInv
<1> QED BY <1>1, Initially, Inductive, PTL DEF Spec

\* However the callers, the heartbeat, the reader and the reconnect threads
\* clear and test _connected without a lock, and whatever the engine and the
\* host do: a web server that is not connected has a thread that reconnects or
\* is about to start one, or has taken one at its end for one that would.
THEOREM NeverLeftAlone == Spec => []SomeoneReconnects
<1>1. IInv => SomeoneReconnects
  BY DEF IInv
<1> QED BY <1>1, Initially, Inductive, PTL DEF Spec
-----------------------------------------------------------------------------
(* No connection is left open.                                             *)

NoneOpen == \A c \in Conns : fd[c] # "open"

\* Until two threads replace the connection at a time: one reconnect thread
\* lives at a time, the current connection alone is open, and whoever is about
\* to forget it or to connect has closed what was there.
Closed ==
  \/ collided
  \/ /\ NotTwice
     /\ \A c \in Conns : fd[c] = "open" => c = sock
     /\ \A x \in Reconnects : pc[x] \in {"unset", "dial"} => NoneOpen

\* A step that starts no reconnect thread, opens no connection, and forgets or
\* replaces the current one only where none is left open.
LEMMA OpensNone ==
  ASSUME Closed, collided => collided',
         \A x \in Reconnects : pc[x] \in {"dead", "new"} => pc'[x] \in {"dead", "new"},
         \A c \in Conns : fd'[c] = "open" => fd[c] = "open",
         sock' = sock \/ collided' \/ NoneOpen',
         \A x \in Reconnects : pc'[x] \in {"unset", "dial"} => pc[x] \in {"unset", "dial"} \/ NoneOpen'
  PROVE  Closed'
<1>1. CASE collided'
  BY <1>1 DEF Closed
<1>2. CASE ~collided'
  <2>1. /\ NotTwice
        /\ \A c \in Conns : fd[c] = "open" => c = sock
        /\ \A x \in Reconnects : pc[x] \in {"unset", "dial"} => NoneOpen
    BY <1>2 DEF Closed
  <2>2. NotTwice'
    BY <2>1 DEF NotTwice, Started
  <2>3. \A c \in Conns : fd'[c] = "open" => c = sock'
    BY <1>2, <2>1 DEF NoneOpen
  <2>4. \A x \in Reconnects : pc'[x] \in {"unset", "dial"} => NoneOpen'
    BY <2>1 DEF NoneOpen
  <2> QED BY <2>2, <2>3, <2>4 DEF Closed
<1> QED BY <1>1, <1>2

LEMMA GoesOn ==
  ASSUME IInv, Closed, NEW t \in Everyone, NEW from, NEW to \in Labels, to \notin {"unset", "dial"},
         from \notin {"dead", "new"}, Go(t, from, to),
         sock' = sock, collided' = collided, \A c \in Conns : fd'[c] = "open" => fd[c] = "open"
  PROVE  Closed'
<1>1. pc[t] = from /\ pc'[t] = to /\ \A u \in Everyone : u # t => pc'[u] = pc[u]
  BY GoMoves DEF IInv
<1>2. \A x \in Reconnects : pc'[x] \in {"unset", "dial"} => pc[x] \in {"unset", "dial"}
  BY <1>1, Names
<1>3. \A x \in Reconnects : pc[x] \in {"dead", "new"} => pc'[x] \in {"dead", "new"}
  BY <1>1, Names
<1> QED BY <1>2, <1>3, OpensNone

\* The steps of a request.
LEMMA RequestCloses ==
  ASSUME IInv, Closed
  PROVE  /\ \A t \in Threads : Call(t) \/ Send(t) \/ SendFails(t) \/ AfterFailure(t) => Closed'
         /\ \A t \in Threads : SendBlocks(t) \/ BlockEnds(t) => Closed'
         /\ \A x \in Reconnects : Resync(x) \/ Waited(x) => Closed'
         /\ PingTimesOut \/ Probe => Closed'
<1>0. fd \in [Conns -> {"open", "held", "closed"}]
  BY TypeParts DEF IInv, DataOK
<1>1. ASSUME NEW t \in Threads, Call(t) \/ Send(t) \/ SendFails(t) \/ AfterFailure(t) PROVE Closed'
  <2>1. /\ sock' = sock /\ fd' = fd /\ collided' = collided
        /\ \E from, to : /\ Go(t, from, to) /\ from \notin {"dead", "new"}
                         /\ to \in {"send", "idle", "waiting", "failed", "starting"}
    BY <1>1 DEF Call, Send, SendFails, AfterFailure, client, own, net
  <2> QED BY <2>1, Names, GoesOn DEF Labels
<1>2. ASSUME NEW t \in Threads, SendBlocks(t) \/ BlockEnds(t) PROVE Closed'
  <2>1. /\ sock' = sock /\ collided' = collided
        /\ \E from, to : /\ Go(t, from, to) /\ from \notin {"dead", "new"} /\ to \in {"blocked", "failed"}
    BY <1>2 DEF SendBlocks, BlockEnds
  <2>2. \A c \in Conns : fd'[c] = "open" => fd[c] = "open"
    BY <1>0, <1>2 DEF SendBlocks, BlockEnds, net
  <2> QED BY <2>1, <2>2, Names, GoesOn DEF Labels
<1>3. ASSUME NEW x \in Reconnects, Resync(x) \/ Waited(x) PROVE Closed'
  <2>1. /\ sock' = sock /\ fd' = fd /\ collided' = collided
        /\ \E from, to : Go(x, from, to) /\ from \notin {"dead", "new"} /\ to \in {"send", "after"}
    BY <1>3, DoneLabel DEF Resync, Waited, client, own, net, Threads
  <2> QED BY <2>1, Names, GoesOn DEF Labels
<1>4. ASSUME PingTimesOut \/ Probe PROVE Closed'
  <2>1. /\ sock' = sock /\ fd' = fd /\ collided' = collided
        /\ \E from, to : /\ Go(Heartbeat, from, to) /\ from \notin {"dead", "new"}
                         /\ to \in {"probe", "force", "idle"}
    BY <1>4 DEF PingTimesOut, Probe, client, own, net
  <2> QED BY <2>1, Names, GoesOn DEF Labels
<1> QED BY <1>1, <1>2, <1>3, <1>4

\* _start_reconnect: a second thread that is started is a collision.
LEMMA StartCloses ==
  ASSUME IInv, Closed, NEW t \in Everyone, NEW from \in Starting, NEW spawning \in Starting,
         NEW assigned \in Assigned, NEW to \in Labels, NEW raised \in Labels,
         {to, raised} \cap {"unset", "dial"} = {}
  PROVE  /\ StartReconnect(t, from, spawning, to) => Closed'
         /\ Assign(t, spawning, assigned) => Closed'
         /\ Start(t, assigned, to) => Closed'
         /\ StartRaises(t, assigned, raised) => Closed'
<1>0. DataOK /\ pc \in [Everyone -> Labels]
  BY TypeParts DEF IInv
<1>a. {from, spawning, assigned} \cap {"dead", "new", "unset", "dial"} = {} /\ spawning \in Labels
  BY DEF Starting, Assigned, Labels
<1>1. ASSUME StartReconnect(t, from, spawning, to) PROVE Closed'
  <2>1. /\ sock' = sock /\ fd' = fd /\ collided' = collided
        /\ Go(t, from, spawning) \/ Go(t, from, to)
    BY <1>1 DEF StartReconnect, own, net
  <2> QED BY <1>a, <2>1, GoesOn
<1>2. ASSUME Assign(t, spawning, assigned) PROVE Closed'
  <2>1. sock' = sock /\ fd' = fd /\ collided' = collided /\ pc[t] = spawning
    BY <1>2 DEF Assign, own, net
  <2>2. PICK x \in Reconnects :
          /\ pc[x] = "dead"
          /\ pc' = [u \in DOMAIN pc |-> IF u = t THEN assigned
                                       ELSE IF u = x THEN "new"
                                       ELSE IF pc[u] = "new" THEN "dead" ELSE pc[u]]
    BY <1>2 DEF Assign
  <2>3. \A y \in Reconnects :
          pc'[y] = IF y = t THEN assigned ELSE IF y = x THEN "new"
                   ELSE IF pc[y] = "new" THEN "dead" ELSE pc[y]
    BY <1>0, <2>2, Names
  <2>4. \A y \in Reconnects : pc[y] \in {"dead", "new"} => pc'[y] \in {"dead", "new"}
    BY <1>a, <2>1, <2>3
  <2>5. \A y \in Reconnects : pc'[y] \in {"unset", "dial"} => pc[y] \in {"unset", "dial"}
    BY <1>a, <2>3
  <2> QED BY <2>1, <2>4, <2>5, OpensNone
<1>3. ASSUME Start(t, assigned, to) PROVE Closed'
  <2>1. /\ sock' = sock /\ fd' = fd /\ pc[current] = "new" /\ current # None
        /\ pc' = [pc EXCEPT ![t] = to, ![current] = "loop"]
        /\ collided' = (collided \/ \E x \in Reconnects : Started(x))
    BY <1>3 DEF Start, net
  <2>2. CASE collided'
    BY <2>2 DEF Closed
  <2>3. CASE ~collided'
    <3>1. \A x \in Reconnects : pc[x] \in {"dead", "new"}
      BY <2>1, <2>3 DEF Started
    <3>2. t \notin Reconnects
      BY <1>3, <1>a, <3>1 DEF Start
    <3>3. current \in Reconnects
      BY <1>0, <2>1 DEF DataOK
    <3>4. pc'[current] = "loop" /\ \A x \in Reconnects : x # current => pc'[x] = pc[x]
      BY <1>0, <2>1, <3>2, <3>3, Names
    <3>5. NotTwice'
      BY <3>1, <3>4 DEF NotTwice, Started
    <3>6. \A x \in Reconnects : pc'[x] \notin {"unset", "dial"}
      BY <3>1, <3>4
    <3>7. \A c \in Conns : fd'[c] = "open" => c = sock'
      BY <2>1, <2>3 DEF Closed
    <3> QED BY <3>5, <3>6, <3>7 DEF Closed
  <2> QED BY <2>2, <2>3
<1>4. ASSUME StartRaises(t, assigned, raised) PROVE Closed'
  <2>1. sock' = sock /\ fd' = fd /\ collided' = collided /\ Go(t, assigned, raised)
    BY <1>4 DEF StartRaises, client, own, net
  <2> QED BY <1>a, <2>1, GoesOn
<1> QED BY <1>1, <1>2, <1>3, <1>4

LEMMA StartsClose ==
  ASSUME IInv, Closed
  PROVE  /\ \A t \in Everyone : Starts(t) => Closed'
         /\ HeartbeatStarts => Closed'
<1>0. /\ {"starting", "spawning", "forced starting", "forced spawning"} \subseteq Starting
      /\ {"assigned", "forced assigned"} \subseteq Assigned
      /\ {"top", "after", "probe", "idle", "raised"} \subseteq Labels
  BY DEF Starting, Assigned, Labels
<1>1. ASSUME NEW t \in Everyone, Starts(t) PROVE Closed'
  <2>1. PICK to \in {"top", "after", "probe", "idle"}, raised \in {"raised", "after", "probe", "idle"} :
          \/ StartReconnect(t, "starting", "spawning", to) \/ Assign(t, "spawning", "assigned")
          \/ Start(t, "assigned", to) \/ StartRaises(t, "assigned", raised)
    BY <1>1, DoneLabel DEF Starts, Everyone
  <2>2. to \in Labels /\ raised \in Labels /\ {to, raised} \cap {"unset", "dial"} = {}
    BY <1>0
  <2> QED BY <1>0, <2>1, <2>2, StartCloses
<1>2. ASSUME HeartbeatStarts PROVE Closed'
  BY <1>0, <1>2, StartCloses, Names DEF HeartbeatStarts
<1> QED BY <1>1, <1>2

\* _force_disconnect: what it forgets is what it has closed, or a collision.
LEMMA ForceCloses ==
  ASSUME IInv, Closed
  PROVE  ForceDisconnect \/ TakeSock \/ Discard => Closed'
<1>0. DataOK
  BY TypeParts DEF IInv
<1>1. ASSUME ForceDisconnect \/ TakeSock PROVE Closed'
  <2>1. /\ sock' = sock /\ fd' = fd /\ collided' = collided
        /\ \E from, to : Go(Heartbeat, from, to) /\ from \notin {"dead", "new"} /\ to \in {"take", "discard"}
    BY <1>1 DEF ForceDisconnect, TakeSock, own, net
  <2> QED BY <2>1, Names, GoesOn DEF Labels
<1>2. ASSUME Discard PROVE Closed'
  <2>1. /\ Go(Heartbeat, "discard", "forced starting")
        /\ collided' = (collided \/ sock \notin {fsock, None})
        /\ fd' = [c \in Conns |-> IF c = fsock /\ fd[c] = "open" THEN "closed" ELSE fd[c]]
    BY <1>2 DEF Discard
  <2>2. \A u \in Reconnects : pc'[u] = pc[u]
    BY <2>1, GoMoves, Names DEF IInv, Labels
  <2>3. \A c \in Conns : fd'[c] = "open" => fd[c] = "open"
    BY <1>0, <2>1 DEF DataOK
  <2>4. collided' \/ NoneOpen'
    <3>1. CASE ~collided'
      <4>1. sock \in {fsock, None} /\ \A c \in Conns : fd[c] = "open" => c = sock
        BY <2>1, <3>1 DEF Closed
      <4>2. \A c \in Conns : fd'[c] # "open"
        BY <1>0, <2>1, <4>1, ConstantsAssumption DEF DataOK
      <4> QED BY <4>2 DEF NoneOpen
    <3> QED BY <3>1
  <2> QED BY <2>1, <2>2, <2>3, <2>4, OpensNone
<1> QED BY <1>1, <1>2

\* The steps of a reconnect thread.
LEMMA ReconnectCloses ==
  ASSUME IInv, Closed, NEW x \in Reconnects
  PROVE  Loop(x) \/ Close(x) \/ Unset(x) \/ Dial(x) \/ Refused(x) \/ AfterConnect(x) \/ Exits(x) => Closed'
<1>0. /\ sock \in Conns \cup {None} /\ None \notin Conns
      /\ fd \in [Conns -> {"open", "held", "closed"}]
  BY TypeParts, ConstantsAssumption DEF IInv, DataOK
<1>1. ASSUME NEW from, NEW to \in Labels, Go(x, from, to)
      PROVE  pc[x] = from /\ pc'[x] = to /\ \A u \in Reconnects : u # x => pc'[u] = pc[u]
  BY <1>1, GoMoves, Names DEF IInv
<1>2. ASSUME Close(x) PROVE Closed'
  <2>1. \A c \in Conns : fd'[c] = IF c # sock THEN fd[c]
                                  ELSE IF InRecv(c) \/ wsock = c THEN "held" ELSE "closed"
    BY <1>2 DEF Close
  <2>2. sock' = sock /\ collided' = collided
    BY <1>2 DEF Close, client, own
  <2>3. PICK to \in {"unset", "dial"} : Go(x, "close", to)
    BY <1>2 DEF Close
  <2>4. \A c \in Conns : fd'[c] = "open" => fd[c] = "open"
    BY <2>1
  <2>5. pc[x] = "close" /\ \A u \in Reconnects : u # x => pc'[u] = pc[u]
    BY <2>3, <1>1 DEF Labels
  <2>6. pc'[x] \in {"unset", "dial"}
    BY <2>3, <1>1 DEF Labels
  <2>7. CASE collided
    BY <2>2, <2>7 DEF Closed
  <2>8. CASE ~collided
    <3>1. NoneOpen'
      <4>1. \A c \in Conns : fd'[c] # "open"
        BY <2>1, <2>8 DEF Closed
      <4> QED BY <4>1 DEF NoneOpen
    <3>2. \A u \in Reconnects : pc[u] \in {"dead", "new"} => pc'[u] \in {"dead", "new"}
      BY <2>5
    <3> QED BY <2>2, <2>4, <3>1, <3>2, OpensNone
  <2> QED BY <2>7, <2>8
<1>3. ASSUME Unset(x) PROVE Closed'
  <2>1. Go(x, "unset", "dial") /\ fd' = fd /\ collided' = collided
    BY <1>3 DEF Unset, own, net
  <2>2. pc[x] = "unset" /\ \A u \in Reconnects : u # x => pc'[u] = pc[u]
    BY <2>1, <1>1 DEF Labels
  <2>3. CASE collided
    BY <2>1, <2>3 DEF Closed
  <2>4. CASE ~collided
    <3>1. NoneOpen
      BY <2>2, <2>4 DEF Closed
    <3>2. NoneOpen'
      BY <2>1, <3>1 DEF NoneOpen
    <3> QED BY <2>1, <2>2, <3>2, OpensNone
  <2> QED BY <2>3, <2>4
<1>4. ASSUME Dial(x) PROVE Closed'
  <2>1. Go(x, "dial", "resync") /\ collided' = collided
    BY <1>4 DEF Dial, own
  <2>2. PICK c \in Conns : sock' = c /\ fd' = [fd EXCEPT ![c] = "open"]
    BY <1>4 DEF Dial
  <2>3. pc[x] = "dial" /\ pc'[x] = "resync" /\ \A u \in Reconnects : u # x => pc'[u] = pc[u]
    BY <2>1, <1>1 DEF Labels
  <2>4. CASE collided
    BY <2>1, <2>4 DEF Closed
  <2>5. CASE ~collided
    <3>1. NotTwice /\ NoneOpen
      BY <2>3, <2>5 DEF Closed
    <3>2. \A d \in Conns : fd'[d] = "open" => d = sock'
      BY <1>0, <2>2, <3>1 DEF NoneOpen
    <3>3. \A u \in Reconnects : u # x => pc[u] \in {"dead", "new"}
      BY <2>3, <3>1 DEF NotTwice, Started
    <3>4. \A u \in Reconnects : pc'[u] \notin {"unset", "dial"}
      BY <2>3, <3>3
    <3>5. NotTwice'
      BY <2>3, <3>3 DEF NotTwice, Started
    <3> QED BY <3>2, <3>4, <3>5 DEF Closed
  <2> QED BY <2>4, <2>5
<1>5. ASSUME Loop(x) \/ Refused(x) \/ AfterConnect(x) \/ Exits(x) PROVE Closed'
  <2>1. /\ sock' = sock /\ fd' = fd /\ collided' = collided
        /\ \E from, to : /\ Go(x, from, to) /\ from \notin {"dead", "new"}
                         /\ to \in {"exiting", "close", "after", "loop", "dead"}
    BY <1>5 DEF Loop, Refused, AfterConnect, Exits, client, own, net
  <2> QED BY <2>1, Names, GoesOn DEF Labels
<1> QED BY <1>2, <1>3, <1>4, <1>5

\* The reader, and the interpreter.
LEMMA ReaderCloses ==
  ASSUME IInv, Closed
  PROVE  /\ PickUp \/ Recv \/ RecvFails \/ Ended \/ Drop => Closed'
         /\ \A c \in Conns : Collect(c) => Closed'
<1>0. fd \in [Conns -> {"open", "held", "closed"}] /\ pc \in [Everyone -> Labels]
  BY TypeParts DEF IInv, DataOK
<1>1. ASSUME PickUp \/ Ended \/ Drop PROVE Closed'
  <2>1. /\ sock' = sock /\ fd' = fd /\ collided' = collided
        /\ \E from, to : /\ Go(Reader, from, to) /\ from \notin {"dead", "new"}
                         /\ to \in {"recv", "drop", "top", "starting"}
    BY <1>1 DEF PickUp, Ended, Drop, client, own, net
  <2> QED BY <2>1, Names, GoesOn DEF Labels
<1>2. ASSUME Recv \/ RecvFails PROVE Closed'
  <2>1. sock' = sock /\ collided' = collided /\ \A c \in Conns : fd'[c] = "open" => fd[c] = "open"
    BY <1>0, <1>2 DEF Recv, RecvFails, Returned, client, own
  <2>2. \A x \in Reconnects : pc'[x] = pc[x]
    BY <1>0, <1>2, Names, ConstantsAssumption DEF Recv, RecvFails, Again, Go
  <2> QED BY <2>1, <2>2, OpensNone
<1>3. ASSUME NEW c \in Conns, Collect(c) PROVE Closed'
  <2>1. sock' = sock /\ collided' = collided /\ pc' = pc /\ fd' = [fd EXCEPT ![c] = "closed"]
    BY <1>3 DEF Collect, client, own
  <2> QED BY <1>0, <2>1, OpensNone
<1> QED BY <1>1, <1>2, <1>3

\* The client owns no open connection but the current one (_connect,
\* _force_disconnect, the reader's held socket), whatever its threads, the
\* engine and the host do, until two reconnect threads live at a time or the
\* heartbeat forgets a connection that replaced the one it closes: these are
\* the only ways to a leak.
THEOREM NothingLeaks == Spec => []NoLeak
<1>1. Init => Closed
  <2> SUFFICES ASSUME Init PROVE Closed
    OBVIOUS
  <2>1. \A x \in Reconnects : pc[x] = "dead"
    BY ConstantsAssumption DEF Init, Threads
  <2>2. \A c \in Conns : fd[c] = "open" => c = sock
    BY DEF Init
  <2> QED BY <2>1, <2>2 DEF Closed, NotTwice, Started
<1>2. IInv /\ Closed /\ [Next]_vars => Closed'
  <2> SUFFICES ASSUME IInv, Closed, [Next]_vars PROVE Closed'
    OBVIOUS
  <2>1. CASE ClientStep
    BY <2>1, Names, RequestCloses, StartsClose, ForceCloses, ReconnectCloses, ReaderCloses DEF ClientStep
  <2>2. ASSUME EngineStep \/ Crash \/ Sleep \/ \E c \in Conns : Keepalive(c) PROVE Closed'
    <3>1. UNCHANGED <<client, pc, fd>>
      BY <2>2 DEF EngineStep, Accept, DropClient, Serve, EngineStarts, Crash, Sleep, Keepalive
    <3> QED BY <3>1, OpensNone DEF client, own
  <2>3. CASE UNCHANGED vars
    BY <2>3, OpensNone DEF vars
  <2> QED BY <2>1, <2>2, <2>3 DEF Next
<1>3. Closed => NoLeak
  BY DEF Closed, NoLeak
<1> QED BY <1>1, <1>2, <1>3, Initially, Inductive, PTL DEF Spec
=============================================================================
