------------------------------ MODULE SessionHost ------------------------------
(***************************************************************************)
(* A session's host (src/engine/session_host.py) between the CLI it owns   *)
(* and the engine that is attached to it (HostTransport of                 *)
(* src/engine/backends/claude_host.py, _attach_hosted and _drive_session   *)
(* of session_manager.py).  Engines come one after another: an engine is   *)
(* killed, or stops and detaches, and the next one attaches, gets from the *)
(* host what was printed since the detach and from the CLI's transcript    *)
(* what was printed before.                                                *)
(*                                                                         *)
(* A line of the CLI is its number (seq): lines[n] has its kind, the time   *)
(* the CLI put into it, the time the host read it and, for the answer to   *)
(* an initialize, the engine that asked.  Engine c talks to the host over  *)
(* connection c.  External: the CLI, which records each message in its     *)
(* transcript before the host can read it.                                 *)
(* Left out: stream events, the spill file and its cap, the rename, a host *)
(* of another protocol, failed connects and writes.                        *)
(***************************************************************************)
EXTENDS Naturals, Sequences, FiniteSets, SequencesExt

CONSTANTS
  None,
  AckEvery,     \* ACK_EVERY
  OrphanAfter,  \* orphan_seconds(), in ticks of the clock
  ExitGrace,    \* CLI_EXIT_GRACE, in ticks of the clock
  MaxLines,     \* bound: lines the CLI prints
  MaxEngines,   \* bound: engines, one after another
  MaxSends,     \* bound: messages users send
  MaxTime       \* bound: the clock

Start == 1  \* started_at

ASSUME ConstantsAssumption ==
  /\ AckEvery \in Nat \ {0}
  /\ OrphanAfter \in Nat /\ ExitGrace \in Nat
  /\ MaxLines \in Nat /\ MaxEngines \in Nat \ {0} /\ MaxSends \in Nat
  /\ MaxTime \in Nat \ {0, Start}
  /\ None \notin Nat

Conns == 1 .. MaxEngines
Kinds == {"msg", "ask", "result", "init"}

VARIABLES
  clock,       \* time.time(); two readings may be equal
  lines,       \* what the CLI has printed
  (* the host *)
  host,        \* "up", "shutting" (_shutting), "leaving" (the same after the CLI's exit, for
               \* which _pump_cli waits), "done"
  buf,         \* the numbers in the LineBuffer
  pending,     \* the CLI's requests without an answer
  lastTurnEnd, lastAck,
  writer, detachedAt,
  inFlight,    \* turn_in_flight
  initReq, initCached,
  exitTold,    \* exit_delivered
  handler,     \* per connection: "none", "hello" (said, not read), "loop" (in _attach), "over"
  (* the CLI *)
  turns,       \* turns it runs or has to run
  open,        \* the requests it waits on
  inits,       \* the initialize requests it has got, by engine
  exitAt,      \* when it exited, 0 before
  doubled,     \* a request got a second answer
  (* the connections and the engine *)
  down,        \* per connection: frames on their way to the host
  up,          \* frames on their way to the engine
  epoch,       \* which engine runs or ran last
  engine,      \* "connecting", "handshake", "restoring", "live"; "dead", "gone" (the session
               \* is slept, or its stream has ended)
  since,       \* detached_at of the hello
  inbox,       \* frames read and not yet processed
  unacked, lastSeq,
  skip,        \* the uuids restored
  timeline,    \* info.entries
  asks,        \* the requests shown to the user
  working,     \* state WORKING (or WAITING) rather than IDLE
  sends,
  replaced,    \* engines that attached before the host saw the last one leave
  crossed      \* a user's message met a turn the engine had not seen the end of

hostVars == <<host, buf, pending, lastTurnEnd, lastAck, writer, detachedAt, inFlight,
              initReq, initCached, exitTold>>
cliVars  == <<turns, open, inits, exitAt, doubled>>
viewVars == <<since, skip, timeline, asks, working>>
vars == <<clock, lines, hostVars, handler, cliVars, down, up, epoch, engine, viewVars, inbox,
          unacked, lastSeq, sends, replaced, crossed>>

Line == [kind : Kinds, wrote : 1 .. MaxTime, at : 1 .. MaxTime, to : 0 .. MaxEngines]
UpFrame ==
  [t : {"hello"}, since : 0 .. MaxTime, busy : BOOLEAN]
  \cup [t : {"line"}, n : 1 .. MaxLines, r : BOOLEAN]
  \cup [t : {"cached"}, to : Conns]
  \cup [t : {"exit", "bye"}]
DownFrame ==
  [t : {"init", "user", "detach", "shutdown"}]
  \cup [t : {"answer", "ack"}, n : 0 .. MaxLines]

TypeOK ==
  /\ clock \in 1 .. MaxTime
  /\ lines \in Seq(Line) /\ Len(lines) <= MaxLines
  /\ host \in {"up", "shutting", "leaving", "done"}
  /\ buf \subseteq DOMAIN lines /\ pending \subseteq DOMAIN lines
  /\ lastTurnEnd \in 0 .. Len(lines) /\ lastAck \in 0 .. Len(lines)
  /\ writer \in Conns \cup {None} /\ detachedAt \in 0 .. MaxTime
  /\ (writer = None <=> detachedAt # 0) \/ host = "done"
  /\ inFlight \in BOOLEAN /\ initReq \in Conns \cup {None} /\ initCached \in BOOLEAN
  /\ exitTold \in BOOLEAN
  /\ handler \in [Conns -> {"none", "hello", "loop", "over"}]
  /\ turns \in Nat /\ open \subseteq DOMAIN lines /\ inits \in Seq(Conns)
  /\ exitAt \in 0 .. MaxTime /\ doubled \in BOOLEAN
  /\ down \in [Conns -> Seq(DownFrame)] /\ up \in Seq(UpFrame) /\ inbox \in Seq(UpFrame)
  /\ epoch \in Conns
  /\ engine \in {"connecting", "handshake", "restoring", "live", "dead", "gone"}
  /\ since \in 0 .. MaxTime /\ unacked \in 0 .. AckEvery
  /\ lastSeq \in 0 .. Len(lines)
  /\ skip \subseteq DOMAIN lines /\ timeline \in Seq(DOMAIN lines) /\ asks \subseteq DOMAIN lines
  /\ working \in BOOLEAN /\ sends \in 0 .. MaxSends /\ replaced \subseteq Conns
  /\ crossed \in BOOLEAN

Cached(c)   == [t |-> "cached", to |-> c]
LineOf(n, r) == [t |-> "line", n |-> n, r |-> r]
Only(t)     == [t |-> t]
With(t, n)  == [t |-> t, n |-> n]

Alive  == engine \in {"connecting", "handshake", "restoring", "live"}
Exited == exitAt # 0
Larger(a, b) == IF a < b THEN b ELSE a

\* The numbers in ns from the smallest to the largest.
InOrder(ns) ==
  [i \in 1 .. Cardinality(ns) |-> CHOOSE n \in ns : Cardinality({m \in ns : m <= n}) = i]

\* What is on its way to the engine, and where the lines are in it.
Path   == inbox \o up
Coming == {i \in DOMAIN Path : Path[i].t = "line"}

\* _send: to the connection attached, in vain when its engine is gone.
ToEngine(frames) == IF writer = epoch /\ Alive THEN up \o frames ELSE up

\* The engine's side of its connection.
ToHost(frames) == [down EXCEPT ![epoch] = @ \o frames]

Init ==
  /\ clock = Start + 1 /\ lines = << >>
  /\ host = "up" /\ buf = {} /\ pending = {} /\ lastTurnEnd = 0 /\ lastAck = 0
  /\ writer = None /\ detachedAt = Start /\ inFlight = FALSE
  /\ initReq = None /\ initCached = FALSE /\ exitTold = FALSE
  /\ handler = [c \in Conns |-> IF c = 1 THEN "hello" ELSE "none"]
  /\ turns = 0 /\ open = {} /\ inits = << >> /\ exitAt = 0 /\ doubled = FALSE
  /\ down = [c \in Conns |-> << >>] /\ up = << >>
  /\ epoch = 1 /\ engine = "connecting" /\ inbox = << >> /\ unacked = 0 /\ lastSeq = 0
  /\ since = 0 /\ skip = {} /\ timeline = << >> /\ asks = {} /\ working = FALSE
  /\ sends = 0 /\ replaced = {} /\ crossed = FALSE

Tick ==
  /\ clock < MaxTime
  /\ clock' = clock + 1
  /\ UNCHANGED <<lines, hostVars, handler, cliVars, down, up, epoch, engine, viewVars, inbox,
                 unacked, lastSeq, sends, replaced, crossed>>

-----------------------------------------------------------------------------
(* The CLI prints, the host reads.                                         *)

\* (mutant) output does not count as a turn
OnlyInputBegins(kind) == kind # "result" /\ inFlight

\* A result ends the turn in flight; a message means that one runs.
InFlightAfter(kind) == kind # "result" /\ (inFlight \/ kind = "msg")

\* _on_cli_message
OnCliMessage(kind, wrote, to) ==
  LET n == Len(lines) + 1
      answers == kind = "init" /\ to = initReq
  IN  /\ host # "done" /\ ~Exited /\ Len(lines) < MaxLines
      /\ lines' = Append(lines, [kind |-> kind, wrote |-> wrote, at |-> clock, to |-> to])
      /\ initCached' = (initCached \/ answers)
      /\ initReq' = IF answers THEN None ELSE initReq
      /\ pending' = IF kind = "ask" THEN pending \cup {n} ELSE pending
      /\ lastTurnEnd' = IF kind = "result" THEN n ELSE lastTurnEnd
      /\ inFlight' = InFlightAfter(kind)
      /\ buf' = buf \cup {n}
      /\ up' = ToEngine(<<LineOf(n, FALSE)>>)
      /\ crossed' = (crossed \/ \E c \in Conns : Only("user") \in ToSet(down[c]))
      /\ UNCHANGED <<clock, host, lastAck, writer, detachedAt, exitTold, handler, inits, exitAt,
                     doubled, down, epoch, engine, viewVars, inbox, unacked, lastSeq, sends,
                     replaced>>

Answered == Cardinality({n \in DOMAIN lines : lines[n].kind = "init"})

CliInitAnswer ==
  /\ Answered < Len(inits)
  /\ OnCliMessage("init", clock, inits[Answered + 1])
  /\ UNCHANGED <<turns, open>>

\* A message of the turn that runs, or the first of a turn the CLI starts itself.  The
\* host may read it a tick after it was written, but before the next engine attaches.
CliMessage ==
  /\ Answered > 0
  /\ \E wrote \in {clock - 1, clock} :
       /\ wrote = clock \/ writer = None
       /\ \A n \in DOMAIN lines : lines[n].wrote <= wrote
       /\ OnCliMessage("msg", wrote, 0)
  /\ turns' = Larger(turns, 1)
  /\ UNCHANGED open

CliAsk ==
  /\ turns > 0 /\ open = {}
  /\ OnCliMessage("ask", clock, 0)
  /\ open' = {Len(lines) + 1}
  /\ UNCHANGED turns

CliResult ==
  /\ turns > 0 /\ open = {}
  /\ OnCliMessage("result", clock, 0)
  /\ turns' = turns - 1
  /\ UNCHANGED open

\* The stream ends: _pump_cli, with its wait for the exit code.
CliExits ==
  /\ host # "done" /\ ~Exited
  /\ exitAt' = clock
  /\ inFlight' = FALSE
  /\ IF host = "up" /\ writer # None
     THEN up' = ToEngine(<<Only("exit")>>) /\ exitTold' = TRUE
     ELSE UNCHANGED <<up, exitTold>>
  /\ UNCHANGED <<clock, lines, host, buf, pending, lastTurnEnd, lastAck, writer, detachedAt,
                 initReq, initCached, handler, turns, open, inits, doubled, down, epoch, engine,
                 viewVars, inbox, unacked, lastSeq, sends, replaced, crossed>>

\* _pump_cli waits until an engine has read everything, or was told and has left, or the
\* grace is over.
ExitFinish ==
  /\ host \in {"up", "leaving"} /\ Exited
  /\ \/ lastAck >= Len(lines)
     \/ exitTold /\ writer = None
     \/ clock > exitAt + ExitGrace
  /\ host' = "done"
  /\ UNCHANGED <<clock, lines, buf, pending, lastTurnEnd, lastAck, writer, detachedAt, inFlight,
                 initReq, initCached, exitTold, handler, cliVars, down, up, epoch, engine,
                 viewVars, inbox, unacked, lastSeq, sends, replaced, crossed>>

-----------------------------------------------------------------------------
(* The host and its connections.                                           *)

\* LineBuffer.since
BufferedSince(ts) == {n \in buf : lines[n].at > ts}

\* The requests still open from before the detach, then what was printed after it.
Replay ==
  LET later == BufferedSince(detachedAt)
      early == {n \in pending \ later : lines[n].at <= detachedAt}
  IN  InOrder(early) \o InOrder(later)

\* _attach, up to the first await.  The hellos are read in the order of the connections, and
\* an engine takes longer to start than the clock to tick.
Attach(c) ==
  LET hello == [t |-> "hello", since |-> detachedAt,
                busy |-> inFlight \/ \E i \in DOMAIN Replay : lines[Replay[i]].kind = "result"]
  IN  /\ host # "done" /\ handler[c] = "hello" /\ clock > detachedAt
      /\ \A d \in 1 .. c - 1 : handler[d] # "hello"
      /\ handler' = [handler EXCEPT ![c] = "loop"]
      /\ IF c = epoch /\ Alive
         THEN up' = <<hello>> \o [i \in DOMAIN Replay |-> LineOf(Replay[i], TRUE)]
                    \o (IF Exited THEN <<Only("exit")>> ELSE << >>)
         ELSE UNCHANGED up
      /\ exitTold' = (exitTold \/ Exited)
      /\ writer' = c /\ detachedAt' = 0
      /\ replaced' = IF writer # None THEN replaced \cup {c} ELSE replaced
      /\ UNCHANGED <<clock, lines, host, buf, pending, lastTurnEnd, lastAck, inFlight, initReq,
                     initCached, cliVars, down, epoch, engine, viewVars, inbox, unacked,
                     lastSeq, sends, crossed>>

Frame(c, t) ==
  /\ host # "done" /\ handler[c] = "loop"
  /\ down[c] # << >> /\ Head(down[c]).t = t
  /\ down' = [down EXCEPT ![c] = Tail(@)]

\* The first initialize goes to the CLI, later ones are answered from the cache - by
\* _send, to whoever is attached.
OnInitialize(c) ==
  /\ Frame(c, "init")
  /\ IF initCached
     THEN up' = ToEngine(<<Cached(c)>>) /\ UNCHANGED <<initReq, inits>>
     ELSE /\ initReq' = c
          /\ inits' = IF Exited THEN inits ELSE Append(inits, c)
          /\ UNCHANGED up
  /\ UNCHANGED <<clock, lines, host, buf, pending, lastTurnEnd, lastAck, writer, detachedAt,
                 inFlight, initCached, exitTold, handler, turns, open, exitAt, doubled, epoch,
                 engine, viewVars, inbox, unacked, lastSeq, sends, replaced, crossed>>

OnUser(c) ==
  /\ Frame(c, "user")
  /\ inFlight' = TRUE
  /\ turns' = IF Exited THEN turns ELSE turns + 1
  /\ UNCHANGED <<clock, lines, host, buf, pending, lastTurnEnd, lastAck, writer, detachedAt,
                 initReq, initCached, exitTold, handler, open, inits, exitAt, doubled, up,
                 epoch, engine, viewVars, inbox, unacked, lastSeq, sends, replaced, crossed>>

\* (mutant) an answered request stays pending
StillPending(n) == pending

PendingWithout(n) == pending \ {n}

OnAnswer(c) ==
  /\ Frame(c, "answer")
  /\ LET n == Head(down[c]).n
     IN  /\ pending' = PendingWithout(n)
         /\ open' = open \ {n}
         /\ doubled' = (doubled \/ (n \notin open /\ ~Exited))
  /\ UNCHANGED <<clock, lines, host, buf, lastTurnEnd, lastAck, writer, detachedAt, inFlight,
                 initReq, initCached, exitTold, handler, turns, inits, exitAt, up, epoch,
                 engine, viewVars, inbox, unacked, lastSeq, sends, replaced, crossed>>

\* _on_ack: what is acknowledged goes, up to the last turn that has ended.
OnAck(c) ==
  /\ Frame(c, "ack")
  /\ lastAck' = Larger(lastAck, Head(down[c]).n)
  /\ buf' = {n \in buf : n > lastAck' \/ n > lastTurnEnd}
  /\ UNCHANGED <<clock, lines, host, pending, lastTurnEnd, writer, detachedAt, inFlight,
                 initReq, initCached, exitTold, handler, cliVars, up, epoch, engine, viewVars,
                 inbox, unacked, lastSeq, sends, replaced, crossed>>

\* (mutant) the time of the detach is not taken
DetachTimeKept(c) == detachedAt

DetachTime(c) == IF writer = c THEN clock ELSE detachedAt

\* The end of _attach.
Leave(c) ==
  /\ handler' = [handler EXCEPT ![c] = "over"]
  /\ writer' = IF writer = c THEN None ELSE writer
  /\ detachedAt' = DetachTime(c)
  /\ UNCHANGED <<clock, lines, host, buf, pending, lastTurnEnd, lastAck, inFlight, initReq,
                 initCached, exitTold, cliVars, up, epoch, engine, viewVars, inbox, unacked,
                 lastSeq, sends, replaced, crossed>>

OnDetach(c) == Frame(c, "detach") /\ Leave(c)

\* The engine's end is closed and everything it sent has been read.
OnEof(c) ==
  /\ host # "done" /\ handler[c] = "loop" /\ down[c] = << >>
  /\ c # epoch \/ ~Alive
  /\ Leave(c)
  /\ UNCHANGED down

Stopping == IF Exited THEN "leaving" ELSE "shutting"

OnShutdown(c) ==
  /\ Frame(c, "shutdown")
  /\ host' = IF host = "up" THEN Stopping ELSE host
  /\ handler' = [handler EXCEPT ![c] = "over"]
  /\ UNCHANGED <<clock, lines, buf, pending, lastTurnEnd, lastAck, writer, detachedAt, inFlight,
                 initReq, initCached, exitTold, cliVars, up, epoch, engine, viewVars, inbox,
                 unacked, lastSeq, sends, replaced, crossed>>

\* _orphan_watch
Orphaned ==
  /\ host = "up" /\ writer = None /\ ~inFlight
  /\ clock > detachedAt + OrphanAfter
  /\ host' = Stopping
  /\ UNCHANGED <<clock, lines, buf, pending, lastTurnEnd, lastAck, writer, detachedAt, inFlight,
                 initReq, initCached, exitTold, handler, cliVars, down, up, epoch, engine,
                 viewVars, inbox, unacked, lastSeq, sends, replaced, crossed>>

\* The CLI is killed, the engine attached now is told.
ShutdownEnds ==
  /\ host \in {"shutting", "leaving"}
  /\ host' = "done"
  /\ up' = ToEngine(<<Only("bye")>>)
  /\ writer' = None
  /\ exitAt' = IF Exited THEN exitAt ELSE clock
  /\ UNCHANGED <<clock, lines, buf, pending, lastTurnEnd, lastAck, detachedAt, inFlight,
                 initReq, initCached, exitTold, handler, turns, open, inits, doubled, down,
                 epoch, engine, viewVars, inbox, unacked, lastSeq, sends, replaced, crossed>>

-----------------------------------------------------------------------------
(* The engine.                                                             *)

\* A new engine finds the record of a host that lives, connects and says hello.
StartEngine ==
  /\ engine = "dead" /\ epoch < MaxEngines /\ host # "done"
  /\ epoch' = epoch + 1
  /\ engine' = "connecting"
  /\ handler' = [handler EXCEPT ![epoch'] = "hello"]
  /\ UNCHANGED <<clock, lines, hostVars, cliVars, down, up, viewVars, inbox, unacked, lastSeq,
                 sends, replaced, crossed>>

\* connect reads the hello, then Query.initialize asks.
ReadHello ==
  /\ engine = "connecting" /\ up # << >>
  /\ engine' = "handshake"
  /\ since' = Head(up).since
  /\ working' = Head(up).busy
  /\ up' = Tail(up)
  /\ down' = ToHost(<<Only("init")>>)
  /\ UNCHANGED <<clock, lines, hostVars, handler, cliVars, epoch, skip, timeline, asks, inbox,
                 unacked, lastSeq, sends, replaced, crossed>>

\* The answer to an initialize, and to that of this engine.
IsInit(frame) == frame.t = "cached" \/ (frame.t = "line" /\ lines[frame.n].kind = "init")
IsOurs(frame) == epoch = (IF frame.t = "cached" THEN frame.to ELSE lines[frame.n].to)

\* _pump: a line is acknowledged at the end of a turn and every AckEvery.
PumpHead ==
  LET frame == Head(up)
      count == unacked + 1
      due   == frame.t = "line" /\ (lines[frame.n].kind = "result" \/ count >= AckEvery)
  IN  /\ up # << >> /\ up' = Tail(up)
      /\ IF frame.t = "line"
         THEN lastSeq' = Larger(lastSeq, frame.n) /\ unacked' = IF due THEN 0 ELSE count
         ELSE UNCHANGED <<lastSeq, unacked>>
      /\ down' = ToHost(IF due THEN <<With("ack", frame.n)>>
                        ELSE IF frame.t = "exit" THEN <<With("ack", lastSeq)>>
                        ELSE << >>)

\* Until the replay is released only answers to initialize get through, the rest is held.
\* The engine that spawned the host has nothing to restore.
Hold ==
  /\ engine \in {"handshake", "restoring"}
  /\ PumpHead
  /\ IF IsInit(Head(up)) THEN UNCHANGED inbox ELSE inbox' = Append(inbox, Head(up))
  /\ engine' = IF engine = "handshake" /\ IsInit(Head(up)) /\ IsOurs(Head(up))
               THEN IF epoch = 1 THEN "live" ELSE "restoring"
               ELSE engine
  /\ UNCHANGED <<clock, lines, hostVars, handler, cliVars, epoch, viewVars, sends, replaced,
                 crossed>>

MessageLines == {n \in DOMAIN lines : lines[n].kind = "msg"}
Messages == InOrder(MessageLines)

\* (mutant) what was written at the very time of the detach is left out
RestoredBefore == InOrder({n \in MessageLines : since = 0 \/ lines[n].wrote < since})

\* (mutant) the transcript is restored as it is now
RestoredAll == Messages

\* read_log_entries, up to the detach (0: all of it).
Restored == InOrder({n \in MessageLines : since = 0 \/ lines[n].wrote <= since})

\* _restore_entries_from_transcript, then release_replay.
Restore ==
  /\ engine = "restoring"
  /\ timeline' = Restored
  /\ skip' = ToSet(timeline')
  /\ engine' = "live"
  /\ UNCHANGED <<clock, lines, hostVars, handler, cliVars, down, up, epoch, since, asks,
                 working, inbox, unacked, lastSeq, sends, replaced, crossed>>

\* (mutant) nothing replayed is skipped
NeverDup(frame) == FALSE

\* _is_dup
IsDup(frame) == frame.r /\ frame.n \in skip

\* _read_impl and _process_message: one line, or the end of the stream (the CLI has exited,
\* the host is going).
Process(frame) ==
  LET kind == IF frame.t = "line" THEN lines[frame.n].kind ELSE "end"
  IN  /\ engine' = IF frame.t \in {"exit", "bye"} THEN "gone" ELSE engine
      /\ IF kind = "msg" /\ IsDup(frame) THEN UNCHANGED <<timeline, asks, working>>
         ELSE /\ timeline' = IF kind = "msg" THEN Append(timeline, frame.n) ELSE timeline
              /\ asks' = IF kind = "ask" THEN asks \cup {frame.n} ELSE asks
              /\ working' = (kind # "result" /\ (working \/ kind = "msg"))

\* The held lines come before those the pump reads now.  (Reading a line and processing it
\* are one step: between them the engine only changes what dies with it.)
Consume ==
  /\ engine = "live"
  /\ IF inbox # << >>
     THEN /\ Process(Head(inbox)) /\ inbox' = Tail(inbox)
          /\ UNCHANGED <<up, down, unacked, lastSeq>>
     ELSE PumpHead /\ Process(Head(up)) /\ UNCHANGED inbox
  /\ UNCHANGED <<clock, lines, hostVars, handler, cliVars, epoch, since, skip, sends, replaced,
                 crossed>>

SendUser ==
  /\ engine = "live" /\ ~working /\ sends < MaxSends
  /\ sends' = sends + 1
  /\ working' = TRUE
  /\ crossed' = (crossed \/ turns > 0 \/ Coming # {})
  /\ down' = ToHost(<<Only("user")>>)
  /\ UNCHANGED <<clock, lines, hostVars, handler, cliVars, up, epoch, engine, since, skip,
                 timeline, asks, inbox, unacked, lastSeq, replaced>>

\* The user answers a request.
Answer ==
  /\ engine = "live"
  /\ \E n \in asks : asks' = asks \ {n} /\ down' = ToHost(<<With("answer", n)>>)
  /\ UNCHANGED <<clock, lines, hostVars, handler, cliVars, up, epoch, engine, since, skip,
                 timeline, working, inbox, unacked, lastSeq, sends, replaced, crossed>>

\* What an engine knows dies with it.
Forget ==
  /\ up' = << >> /\ inbox' = << >> /\ unacked' = 0 /\ lastSeq' = 0
  /\ since' = 0 /\ skip' = {} /\ timeline' = << >> /\ asks' = {} /\ working' = FALSE
  /\ UNCHANGED <<clock, lines, hostVars, handler, cliVars, epoch, sends, replaced, crossed>>

\* kill -9: the last frames it wrote may never reach the host.
Kill ==
  /\ Alive
  /\ engine' = "dead"
  /\ \E k \in 0 .. Len(down[epoch]) : down' = [down EXCEPT ![epoch] = SubSeq(@, 1, k)]
  /\ Forget

\* stop(): a graceful engine restart detaches.
Detach ==
  /\ engine = "live"
  /\ engine' = "dead"
  /\ down' = ToHost(<<Only("detach")>>)
  /\ Forget

\* close_session: the host is to end its CLI.
Sleep ==
  /\ engine = "live"
  /\ engine' = "gone"
  /\ down' = ToHost(<<Only("shutdown")>>)
  /\ Forget

Cli == CliInitAnswer \/ CliMessage \/ CliAsk \/ CliResult \/ CliExits
HostStep ==
  \/ ExitFinish \/ Orphaned \/ ShutdownEnds
  \/ \E c \in Conns : \/ Attach(c) \/ OnInitialize(c) \/ OnUser(c) \/ OnAnswer(c) \/ OnAck(c)
                      \/ OnDetach(c) \/ OnEof(c) \/ OnShutdown(c)
EngineStep ==
  \/ StartEngine \/ ReadHello \/ Hold \/ Restore \/ Consume
  \/ SendUser \/ Answer \/ Kill \/ Detach \/ Sleep

Next == Tick \/ Cli \/ HostStep \/ EngineStep

Spec == Init /\ [][Next]_vars

-----------------------------------------------------------------------------
(* What should hold.                                                       *)

\* The engine that took over knows every message of the session or is about to read it: no
\* detach, kill, replay or trimmed buffer loses one.
NewMessages ==
  {i \in Coming : lines[Path[i].n].kind = "msg" /\ ~IsDup(Path[i])}
Known == timeline \o [i \in 1 .. Cardinality(NewMessages) |-> Path[InOrder(NewMessages)[i]].n]
NothingMissing == engine = "live" => MessageLines \subseteq ToSet(Known)

\* It knows each message once and in the order printed, unless it attached before the
\* host saw its predecessor leave.
OnceInOrder == engine = "live" /\ epoch \notin replaced => Known = Messages

\* The CLI gets one answer to a request, though the request is asked again by the next engine.
AnsweredOnce == doubled => replaced # {}

\* With nothing on its way between them, the engine and the host agree whether a turn runs,
\* unless a message met a turn that the CLI had started itself, or an engine attached
\* before the host saw its predecessor leave (that one's message may be read much later).
TurnAgreed ==
  engine = "live" /\ replaced = {} /\ ~crossed /\ host = "up" /\ ~Exited
    /\ Coming = {} /\ (\A i \in DOMAIN down[epoch] : down[epoch][i].t # "user")
    => (working <=> inFlight)

\* session_host.py 25-26: the CLI never sees a second initialize.
OneInitialize == Len(inits) <= 1
=============================================================================
