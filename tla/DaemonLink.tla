------------------------------- MODULE DaemonLink -------------------------------
(***************************************************************************)
(* The connection between the web server and the engine: the threads of    *)
(* the client (src/web/daemon_client.py: callers of _send_request, the     *)
(* heartbeat, the reader, the reconnect threads), which share _sock and    *)
(* _connected without a lock, and the registry of connections of the       *)
(* engine (src/engine/daemon_server.py).  The engine crashes and starts    *)
(* again, and the host can sleep: its connections then are mute, neither   *)
(* delivering nor failing.                                                 *)
(*                                                                         *)
(* A connection that is closed while recv or sendall waits on it is held   *)
(* by the kernel until they return (daemon_client.py:574-576); shut down,  *)
(* they return at once.  On a mute connection sendall may block, with the  *)
(* write lock held (43-45).  Messages are the heartbeat's ping and its     *)
(* answer; of the others, events and answers to the other requests, it     *)
(* matters only that the reader gets something to read.  Numbers of closed *)
(* connections are used again.                                             *)
(***************************************************************************)
EXTENDS Naturals, FiniteSets

CONSTANTS
  None,
  Callers,      \* threads that call the engine
  Heartbeat,
  Reader,
  Reconnects,   \* bound: reconnect threads alive at a time
  Conns,        \* bound: connections at a time
  MaxClients,   \* MAX_IPC_CLIENTS
  MaxCalls,     \* bound: requests of the callers
  MaxFaults     \* bound: crashes of the engine, sleeps of the host, delays

ASSUME ConstantsAssumption ==
  /\ MaxClients \in Nat \ {0} /\ MaxFaults \in Nat /\ MaxCalls \in Nat
  /\ Conns # {}
  /\ None \notin Conns \cup Reconnects \cup [to : {"engine", "web"}, on : Conns]
  /\ Callers \cap (Reconnects \cup {Heartbeat, Reader}) = {}
  /\ Heartbeat \notin Reconnects \cup {Reader} /\ Reader \notin Reconnects

Threads == Callers \cup {Heartbeat} \cup Reconnects

VARIABLES
  connected, \* _connected
  sock,      \* _sock
  current,   \* _reconnect_thread
  rsock,     \* current_sock of the reader
  fsock,     \* sock of _force_disconnect
  wsock,     \* the connection on which a sendall blocks, with _write_lock held
  pc,
  fd,        \* the web server's end of a connection: "open", "held", "closed"
  peer,      \* the engine's end: "queued", "registered", "gone"
  ping,      \* the ping or its answer: [to : "engine" or "web", on : a connection]
  mute,      \* connections that the host slept through
  up,        \* the engine runs
  calls,     \* requests of the callers
  faults,
  abandoned, \* history: a thread took a reconnect thread that had ended its loop
             \* for one that would reconnect, or the web server began without engine
  collided   \* history: two reconnect threads lived at a time, or _force_disconnect
             \* forgot a connection that had replaced the one it closes

vars == <<connected, sock, current, rsock, fsock, wsock, pc, fd, peer, ping, mute, up,
          calls, faults, abandoned, collided>>
own == <<fsock, wsock, collided>>
client == <<connected, sock, current, rsock, abandoned, own>>
net == <<fd, peer, ping, mute, up, calls, faults>>

Labels ==
  {"idle", "send", "blocked", "waiting", "failed", "starting", "spawning", "assigned", \* a request
   "probe", "force", "take", "discard",                              \* the heartbeat
   "forced starting", "forced spawning", "forced assigned", "raised",
   "dead", "new", "loop", "close", "unset", "dial", "resync", "after", "exiting", \* a reconnect thread
   "top", "recv", "ended", "drop"}                                   \* the reader

TypeOK ==
  /\ connected \in BOOLEAN /\ up \in BOOLEAN /\ abandoned \in BOOLEAN /\ collided \in BOOLEAN
  /\ fsock \in Conns \cup {None} /\ wsock \in Conns \cup {None}
  /\ sock \in Conns \cup {None} /\ rsock \in Conns \cup {None}
  /\ current \in Reconnects \cup {None}
  /\ pc \in [Threads \cup {Reader} -> Labels]
  /\ fd \in [Conns -> {"open", "held", "closed"}]
  /\ peer \in [Conns -> {"queued", "registered", "gone"}]
  /\ ping \in [to : {"engine", "web"}, on : Conns] \cup {None}
  /\ mute \subseteq Conns
  /\ calls \in 0 .. MaxCalls /\ faults \in 0 .. MaxFaults
  /\ pc[Reader] \in {"recv", "ended", "drop"} => rsock \in Conns
  /\ current = None => \A x \in Reconnects : pc[x] = "dead"

\* start: connected to the engine that runs, or not at all.
Init ==
  /\ up \in BOOLEAN
  /\ connected = up /\ abandoned = ~up /\ collided = FALSE
  /\ sock = IF up THEN CHOOSE c \in Conns : TRUE ELSE None
  /\ current = None /\ rsock = None /\ fsock = None /\ wsock = None
  /\ pc = [t \in Threads \cup {Reader} |->
             IF t = Reader THEN "top" ELSE IF t \in Reconnects THEN "dead" ELSE "idle"]
  /\ fd = [c \in Conns |-> IF c = sock THEN "open" ELSE "closed"]
  /\ peer = [c \in Conns |-> IF c = sock THEN "queued" ELSE "gone"]
  /\ ping = None /\ mute = {} /\ calls = 0 /\ faults = 0

Go(t, from, to) == pc[t] = from /\ pc' = [pc EXCEPT ![t] = to]

\* The reader waits in recv, or has not yet done with connection c.
InRecv(c) == pc[Reader] = "recv" /\ rsock = c
Reading(c) == pc[Reader] \in {"recv", "ended"} /\ rsock = c

\* recv and sendall do not wait any longer on connection c.
Broken(c) == fd[c] = "closed" \/ (peer[c] = "gone" /\ c \notin mute)

-----------------------------------------------------------------------------
(* Time.  What a thread does with nothing to wait for takes less than the  *)
(* seconds another one waits or sleeps, or else that is a fault.           *)

\* The 2 s of _reconnect_loop, the 8 s of HEARTBEAT_TIMEOUT and the 20 s of
\* HEARTBEAT_INTERVAL: all longer than the 0.5 s of the reader.
Slept ==
  /\ \A t \in DOMAIN pc :
       /\ pc[t] \notin {"failed", "starting", "assigned", "probe", "force", "take", "discard",
                       "forced starting", "forced assigned",
                       "loop", "unset", "resync", "after", "exiting", "ended", "drop"}
       /\ pc[t] = "send" => wsock # None
       /\ pc[t] = "blocked" => ~Broken(wsock)
  /\ \A x \in Reconnects :
       /\ up => pc[x] # "dial"
       /\ pc[x] = "dead" => \A t \in DOMAIN pc : pc[t] \notin {"spawning", "forced spawning"}
  /\ ~(pc[Reader] = "top" /\ connected /\ sock # None)
  /\ ~(pc[Reader] = "recv" /\ Broken(rsock))
  /\ \A c \in Conns : peer[c] # "queued" /\ ~(peer[c] = "registered" /\ fd[c] = "closed")

InTime(elapsed) ==
  IF elapsed THEN faults' = faults ELSE faults < MaxFaults /\ faults' = faults + 1

-----------------------------------------------------------------------------
(* Requests.                                                               *)

\* Where a thread goes on without an answer, or whatever the answer.
Done(t) == IF t \in Reconnects THEN "after" ELSE IF t = Heartbeat THEN "probe" ELSE "idle"

\* _send_request: refused at once when not connected.
Call(t) ==
  /\ t \in Callers \cup {Heartbeat}
  /\ connected
  /\ Go(t, "idle", "send")
  /\ IF t = Heartbeat
     THEN InTime(Slept) /\ calls' = calls
     ELSE calls < MaxCalls /\ calls' = calls + 1 /\ faults' = faults
  /\ UNCHANGED <<client, fd, peer, ping, mute, up>>

\* _refresh_protocol, _resync_aliases, _resync_policy: one request stands for three.
Resync(x) ==
  /\ Go(x, "resync", IF connected THEN "send" ELSE "after")
  /\ UNCHANGED <<client, net>>

\* _send_request_raw up to event.wait, with the write lock: a write to a
\* connection that the engine has left may still succeed, and is lost.
Send(t) ==
  /\ wsock = None
  /\ sock # None /\ fd[sock] = "open"
  /\ Go(t, "send", IF t \in Callers THEN "idle" ELSE "waiting")
  /\ ping' = IF t = Heartbeat /\ peer[sock] # "gone" /\ sock \notin mute
             THEN [to |-> "engine", on |-> sock] ELSE ping
  /\ UNCHANGED <<client, fd, peer, mute, up, calls, faults>>

\* sendall waits for room in the buffer of a connection that does not deliver.
SendBlocks(t) ==
  /\ wsock = None
  /\ sock # None /\ fd[sock] = "open" /\ sock \in mute
  /\ Go(t, "send", "blocked")
  /\ wsock' = sock
  /\ UNCHANGED <<connected, sock, current, rsock, fsock, abandoned, collided, net>>

BlockEnds(t) ==
  /\ Go(t, "blocked", "failed")
  /\ Broken(wsock)
  /\ wsock' = None
  /\ fd' = [fd EXCEPT ![wsock] = IF @ = "held" /\ ~InRecv(wsock) THEN "closed" ELSE @]
  /\ UNCHANGED <<connected, sock, current, rsock, fsock, abandoned, collided,
                 peer, ping, mute, up, calls, faults>>

SendFails(t) ==
  /\ wsock = None
  /\ Go(t, "send", "failed")
  /\ ~(sock # None /\ fd[sock] = "open" /\ (peer[sock] # "gone" \/ sock \in mute))
  /\ UNCHANGED <<client, net>>

AfterFailure(t) ==
  /\ Go(t, "failed", "starting")
  /\ connected' = FALSE
  /\ UNCHANGED <<sock, current, rsock, abandoned, own, net>>

\* The connection works: the reader reads from it.
Linked ==
  /\ connected /\ sock # None
  /\ fd[sock] = "open" /\ peer[sock] = "registered" /\ sock \notin mute
  /\ pc[Reader] = "recv" /\ rsock = sock

\* event.wait ends: for the heartbeat, without the answer.
Waited(t) ==
  /\ Go(t, "waiting", Done(t))
  /\ UNCHANGED <<client, net>>

\* An answer will not come, or not be read.  Any other is late by a fault only.
PingIsLost ==
  \/ ping = None
  \/ /\ ping # None
     /\ \/ fd[ping.on] # "open" \/ peer[ping.on] = "gone" \/ ping.on \in mute
        \/ pc[Reader] = "recv" /\ rsock # ping.on /\ ~Broken(rsock)
        \/ pc[Reader] = "raised"

PingTimesOut ==
  /\ Go(Heartbeat, "waiting", "probe")
  /\ ping' = None
  /\ InTime(PingIsLost /\ Slept)
  /\ UNCHANGED <<client, fd, peer, mute, up, calls>>

-----------------------------------------------------------------------------
(* _start_reconnect, between two labels of thread t: the test, the thread  *)
(* object's assignment, and its start, with no lock.                       *)

Started(x) == pc[x] \notin {"dead", "new"}
Alive(x) == x # None /\ Started(x)

StartReconnect(t, from, spawning, to) ==
  /\ Go(t, from, IF Alive(current) THEN to ELSE spawning)
  /\ abandoned' = (abandoned \/ (Alive(current) /\ pc[current] = "exiting"))
  /\ UNCHANGED <<connected, sock, current, rsock, own, net>>

\* (mutant) The thread is made and not kept.
AssignNot(t, spawning, assigned) ==
  /\ pc[t] = spawning
  /\ \E x \in Reconnects :
       /\ pc[x] = "dead" /\ x = CHOOSE y \in Reconnects : pc[y] = "dead"
       /\ pc' = [pc EXCEPT ![t] = assigned, ![x] = "new"]
  /\ UNCHANGED <<client, net>>

\* A thread assigned before and not started yet is forgotten.
Assign(t, spawning, assigned) ==
  /\ pc[t] = spawning
  /\ \E x \in Reconnects :
       /\ pc[x] = "dead" /\ x = CHOOSE y \in Reconnects : pc[y] = "dead"
       /\ pc' = [u \in DOMAIN pc |-> IF u = t THEN assigned
                                    ELSE IF u = x THEN "new"
                                    ELSE IF pc[u] = "new" THEN "dead" ELSE pc[u]]
       /\ current' = x
  /\ UNCHANGED <<connected, sock, rsock, abandoned, own, net>>

\* start() of whatever thread _reconnect_thread is by now ...
Start(t, assigned, to) ==
  /\ pc[t] = assigned
  /\ current # None /\ pc[current] = "new"
  /\ pc' = [pc EXCEPT ![t] = to, ![current] = "loop"]
  /\ collided' = (collided \/ \E x \in Reconnects : Started(x))
  /\ UNCHANGED <<connected, sock, current, rsock, fsock, wsock, abandoned, net>>

\* ... which raises when another thread has started that one.
StartRaises(t, assigned, raised) ==
  /\ current # None /\ pc[current] # "new"
  /\ Go(t, assigned, raised)
  /\ UNCHANGED <<client, net>>

\* A request survives an exception: its caller, the heartbeat and _connect
\* catch it.  The reader does not.
Starts(t) ==
  LET to == IF t = Reader THEN "top" ELSE Done(t)
      raised == IF t = Reader THEN "raised" ELSE Done(t)
  IN \/ StartReconnect(t, "starting", "spawning", to)
     \/ Assign(t, "spawning", "assigned")
     \/ Start(t, "assigned", to)
     \/ StartRaises(t, "assigned", raised)

-----------------------------------------------------------------------------
(* The heartbeat, after a ping without an answer.                          *)

Probe ==
  /\ Go(Heartbeat, "probe", IF connected THEN "force" ELSE "idle")
  /\ UNCHANGED <<client, net>>

\* _force_disconnect: _connected, the read of _sock, and what follows.
ForceDisconnect ==
  /\ Go(Heartbeat, "force", "take")
  /\ connected' = FALSE
  /\ UNCHANGED <<sock, current, rsock, abandoned, own, net>>

TakeSock ==
  /\ Go(Heartbeat, "take", "discard")
  /\ fsock' = sock
  /\ UNCHANGED <<connected, sock, current, rsock, wsock, abandoned, collided, net>>

\* (mutant) The heartbeat leaves the reconnecting to the reader, whose socket
\* is not the current one any more.
DiscardOnly ==
  /\ Go(Heartbeat, "discard", "idle")
  /\ sock' = None /\ fsock' = None
  /\ collided' = (collided \/ sock \notin {fsock, None})
  /\ fd' = [c \in Conns |-> IF c = fsock /\ fd[c] = "open" THEN "closed" ELSE fd[c]]
  /\ UNCHANGED <<connected, current, rsock, wsock, abandoned, peer, ping, mute, up, calls, faults>>

\* shutdown wakes whoever waits on the socket, unless _connect has closed it before.
Discard ==
  /\ Go(Heartbeat, "discard", "forced starting")
  /\ sock' = None /\ fsock' = None
  /\ collided' = (collided \/ sock \notin {fsock, None})
  /\ fd' = [c \in Conns |-> IF c = fsock /\ fd[c] = "open" THEN "closed" ELSE fd[c]]
  /\ UNCHANGED <<connected, current, rsock, wsock, abandoned, peer, ping, mute, up, calls, faults>>

\* No one catches what _force_disconnect raises.
HeartbeatStarts ==
  \/ StartReconnect(Heartbeat, "forced starting", "forced spawning", "idle")
  \/ Assign(Heartbeat, "forced spawning", "forced assigned")
  \/ Start(Heartbeat, "forced assigned", "idle")
  \/ StartRaises(Heartbeat, "forced assigned", "raised")

-----------------------------------------------------------------------------
(* The reconnect threads.                                                  *)

Loop(x) ==
  /\ Go(x, "loop", IF connected THEN "exiting" ELSE "close")
  /\ UNCHANGED <<client, net>>

\* (mutant) The old connection is replaced, and left to the garbage collector.
CloseNot(x) ==
  /\ Go(x, "close", "dial")
  /\ InTime(Slept)
  /\ UNCHANGED <<client, fd, peer, ping, mute, up, calls>>

\* The sleep, and _connect: close, forget, and then connect.
Close(x) ==
  /\ Go(x, "close", IF sock # None THEN "unset" ELSE "dial")
  /\ InTime(Slept)
  /\ fd' = [c \in Conns |-> IF c # sock THEN fd[c]
                           ELSE IF InRecv(c) \/ wsock = c THEN "held" ELSE "closed"]
  /\ UNCHANGED <<client, peer, ping, mute, up, calls>>

Unset(x) ==
  /\ Go(x, "unset", "dial")
  /\ sock' = None
  /\ UNCHANGED <<connected, current, rsock, abandoned, own, net>>

\* A connection that no variable of the client holds.
Free(c) == fd[c] = "closed" /\ peer[c] = "gone" /\ ~Reading(c) /\ c \notin {sock, fsock, wsock}

Dial(x) ==
  /\ up
  /\ Go(x, "dial", "resync")
  /\ \E c \in Conns :
       /\ Free(c) /\ c = CHOOSE d \in Conns : Free(d)
       /\ sock' = c
       /\ connected' = TRUE
       /\ fd' = [fd EXCEPT ![c] = "open"] /\ peer' = [peer EXCEPT ![c] = "queued"]
       /\ mute' = mute \ {c}
  /\ UNCHANGED <<current, rsock, abandoned, own, ping, up, calls, faults>>

\* The interpreter closes a connection to which nothing refers any more, at
\* the latest when the thread that opened it is back from _connect.
Collect(c) ==
  /\ fd[c] = "open" /\ c \notin {sock, rsock, fsock, wsock}
  /\ fd' = [fd EXCEPT ![c] = "closed"]
  /\ UNCHANGED <<client, pc, peer, ping, mute, up, calls, faults>>

Refused(x) ==
  /\ ~up
  /\ Go(x, "dial", "after")
  /\ UNCHANGED <<client, net>>

\* Back in _reconnect_loop.
AfterConnect(x) ==
  /\ Go(x, "after", IF connected THEN "exiting" ELSE "loop")
  /\ UNCHANGED <<client, net>>

Exits(x) ==
  /\ Go(x, "exiting", "dead")
  /\ UNCHANGED <<client, net>>

-----------------------------------------------------------------------------
(* The reader.                                                             *)

PickUp ==
  /\ connected /\ sock # None
  /\ Go(Reader, "top", "recv")
  /\ rsock' = sock
  /\ UNCHANGED <<connected, sock, current, abandoned, own, net>>

\* recv returns: a closed connection that it held is gone then, and the next
\* recv fails.
Returned == fd' = [fd EXCEPT ![rsock] = IF @ = "held" /\ wsock # rsock THEN "closed" ELSE @]

Again == IF connected THEN "recv" ELSE "ended"

\* _push_event sends an event to every connection of the registry.
Pushed(c) == up /\ peer[c] = "registered" /\ c \notin mute

\* What arrives is the answer to the ping, or an event: its way is one step.
Recv ==
  /\ pc[Reader] = "recv"
  /\ fd[rsock] # "closed"
  /\ \/ /\ Pushed(rsock)
        /\ pc' = [pc EXCEPT ![Reader] = Again]
        /\ UNCHANGED ping
     \/ /\ ping = [to |-> "web", on |-> rsock]
        /\ ping' = None
        /\ pc' = [pc EXCEPT ![Reader] = Again, ![Heartbeat] = "idle"]
  /\ Returned
  /\ UNCHANGED <<client, peer, mute, up, calls, faults>>

RecvFails ==
  /\ Go(Reader, "recv", "ended")
  /\ Broken(rsock)
  /\ Returned
  /\ UNCHANGED <<client, peer, ping, mute, up, calls, faults>>

\* Only the reader of the current socket declares the connection lost ...
Ended ==
  /\ Go(Reader, "ended", IF sock = rsock THEN "drop" ELSE "top")
  /\ UNCHANGED <<client, net>>

Drop ==
  /\ Go(Reader, "drop", "starting")
  /\ connected' = FALSE
  /\ UNCHANGED <<sock, current, rsock, abandoned, own, net>>

-----------------------------------------------------------------------------
(* The engine.                                                             *)

Registered == {c \in Conns : peer[c] = "registered"}

\* start's accept and the head of _handle_client: a newcomer at the cap is refused.
Accept(c) ==
  /\ up /\ peer[c] = "queued"
  /\ IF Cardinality(Registered) >= MaxClients
     THEN peer' = [peer EXCEPT ![c] = "gone"]
     ELSE peer' = [peer EXCEPT ![c] = "registered"]
  /\ UNCHANGED <<client, pc, fd, ping, mute, up, calls, faults>>

\* _dispatch_sync, of the ping.
Serve(c) ==
  /\ up /\ peer[c] = "registered"
  /\ ping = [to |-> "engine", on |-> c]
  /\ ping' = IF c \in mute THEN None ELSE [ping EXCEPT !.to = "web"]
  /\ UNCHANGED <<client, pc, fd, peer, mute, up, calls, faults>>

\* _drop_client: the peer has closed, or its host slept (keepalive).
DropClient(c) ==
  /\ peer[c] = "registered"
  /\ c \in mute \/ fd[c] = "closed"
  /\ peer' = [peer EXCEPT ![c] = "gone"]
  /\ UNCHANGED <<client, pc, fd, ping, mute, up, calls, faults>>

Crash ==
  /\ up /\ faults < MaxFaults
  /\ up' = FALSE /\ faults' = faults + 1
  /\ peer' = [c \in Conns |-> "gone"]
  /\ UNCHANGED <<client, pc, fd, ping, mute, calls>>

\* By _restart_daemon, by the launcher, or by hand.
EngineStarts ==
  /\ ~up
  /\ up' = TRUE
  /\ UNCHANGED <<client, pc, fd, peer, ping, mute, calls, faults>>

Sleep ==
  /\ faults < MaxFaults /\ faults' = faults + 1
  /\ mute' = mute \cup {c \in Conns : fd[c] # "closed" /\ peer[c] # "gone"}
  /\ UNCHANGED <<client, pc, fd, peer, ping, up, calls>>

\* The web server's kernel gives up on a mute connection: keepalive, or the
\* retransmissions of a write that nobody acknowledges.
Keepalive(c) ==
  /\ c \in mute
  /\ mute' = mute \ {c} /\ peer' = [peer EXCEPT ![c] = "gone"]
  /\ UNCHANGED <<client, pc, fd, ping, up, calls, faults>>

-----------------------------------------------------------------------------
ClientStep ==
  \/ \E t \in Threads : \/ Call(t) \/ Send(t) \/ SendBlocks(t) \/ BlockEnds(t) \/ SendFails(t)
                         \/ AfterFailure(t) \/ Starts(t)
  \/ Starts(Reader)
  \/ PingTimesOut \/ Probe \/ ForceDisconnect \/ TakeSock \/ Discard \/ HeartbeatStarts
  \/ \E x \in Reconnects : \/ Resync(x) \/ Waited(x) \/ Loop(x) \/ Close(x) \/ Unset(x) \/ Dial(x)
                           \/ Refused(x) \/ AfterConnect(x) \/ Exits(x)
  \/ PickUp \/ Recv \/ RecvFails \/ Ended \/ Drop
  \/ \E c \in Conns : Collect(c)

EngineStep ==
  \/ \E c \in Conns : Accept(c) \/ DropClient(c) \/ Serve(c)
  \/ EngineStarts

Next ==
  \/ ClientStep
  \/ EngineStep
  \/ Crash \/ Sleep
  \/ \E c \in Conns : Keepalive(c)

Spec == Init /\ [][Next]_vars

\* Every thread goes on, and so does the engine, which is started again and
\* has something to push from time to time.  Nobody has to call.  The kernel
\* gives up on a connection on which a write waits; on the others nothing is
\* asked of it.
Fairness ==
  /\ \A t \in Threads \cup {Reader} : WF_vars(Starts(t))
  /\ \A t \in Threads :
       WF_vars(Send(t) \/ SendFails(t)) /\ WF_vars(BlockEnds(t)) /\ WF_vars(AfterFailure(t))
  /\ SF_vars(Call(Heartbeat)) /\ SF_vars(PingTimesOut) /\ WF_vars(HeartbeatStarts)
  /\ WF_vars(Probe \/ ForceDisconnect \/ TakeSock \/ Discard)
  /\ \A x \in Reconnects :
       /\ SF_vars(Close(x))
       /\ WF_vars(Resync(x) \/ Waited(x) \/ Loop(x) \/ Unset(x) \/ Dial(x) \/ Refused(x) \/ AfterConnect(x) \/ Exits(x))
  /\ WF_vars(PickUp) /\ WF_vars(Recv \/ RecvFails \/ Ended \/ Drop)
  /\ \A c \in Conns : WF_vars(Accept(c)) /\ WF_vars(DropClient(c)) /\ WF_vars(Serve(c))
  /\ \A c \in Conns : WF_vars(wsock = c /\ Keepalive(c))
  /\ WF_vars(EngineStarts)

FairSpec == Spec /\ Fairness

-----------------------------------------------------------------------------
(* Properties.                                                             *)

\* While the web server is not connected some thread is at it, or is about to
\* start one (_connected is cleared in three places and the reconnect thread
\* looks at it in three; nothing else brings it back).
SomeoneReconnects ==
  \/ connected
  \/ abandoned
  \/ \E x \in Reconnects : pc[x] \notin {"dead", "new", "exiting"}
  \/ \E t \in DOMAIN pc :
       \/ pc[t] \in {"take", "discard", "starting", "spawning", "forced starting", "forced spawning"}
       \/ pc[t] \in {"assigned", "forced assigned"} /\ current # None /\ pc[current] = "new"

\* The client owns no open connection but the current one, unless two threads
\* replaced it at a time (_connect, _force_disconnect, the reader's held socket):
\* none is left for the engine to count.
NoLeak == \A c \in Conns : fd[c] = "open" => c = sock \/ collided

\* _start_reconnect starts the reconnection if it is not already running
\* (daemon_client.py:511).  False: two threads may test before one starts.
NotTwice == \A x, y \in Reconnects : Started(x) /\ Started(y) => x = y

\* What two threads that replace the connection at a time can do for good: the
\* reader takes the connection of the one and reads on from it, _sock being the
\* other's; or one of them is the reader or the heartbeat, starts the other's
\* reconnect thread a second time, and ends by the exception.
Astray ==
  \/ collided /\ pc[Reader] = "recv" /\ fd[rsock] = "open" /\ rsock # sock
  \/ pc[Reader] = "raised" \/ pc[Heartbeat] = "raised"

\* After the last fault the web server is connected for good, and reads from that
\* connection, unless a thread left the reconnecting to one that had ended its loop
\* (_start_reconnect, _heartbeat_loop, _reader_loop).  The unlocked test and start of
\* _start_reconnect (511-526) allows two reconnect threads at a time: then the link may be
\* astray for good, or two of them close each other's connection again and again.
Recovers ==
  \/ <>[](Linked \/ abandoned)
  \/ <>[]Astray
  \/ []<>(collided /\ ~NotTwice)

\* One failed heartbeat heals the link (daemon_client.py:541-544: the socket is
\* closed, and that wakes the reader and triggers the reconnect).  False: the reader
\* may be astray.
HeartbeatHeals == (pc[Heartbeat] = "force") ~> (Linked \/ abandoned)

\* The reader and the heartbeat run as long as the web server does
\* (daemon_client.py:532-539, 637).  False, as above.
ThreadsLive == pc[Reader] # "raised" /\ pc[Heartbeat] # "raised"
=============================================================================
