--------------------------- MODULE SessionHostProofs ---------------------------
(***************************************************************************)
(* Proofs about SessionHost, for every number of engines, lines and        *)
(* messages and every length of the run.                                   *)
(*                                                                         *)
(* Inv, the inductive invariant, says how the connections follow one       *)
(* another, which lines the host still holds for the engine that comes     *)
(* next, what is on its way to the engine attached, who has a request that *)
(* waits for an answer, and what the engine will think of the turn when it *)
(* has read what is coming.                                                *)
(***************************************************************************)
EXTENDS SessionHost, FiniteSetTheorems, SequenceTheorems, TLAPS

-----------------------------------------------------------------------------
(* The invariant.                                                          *)

\* The host has read the hello of the engine that runs.
Attached == Alive /\ handler[epoch] = "loop"

\* detached_at of the hello, read or not, and whether a turn runs.
HelloSince == IF engine = "connecting" THEN Head(up).since ELSE since
HelloBusy  == IF engine = "connecting" THEN Head(up).busy ELSE working

\* Frames name lines that have been printed.
FramesInv ==
  /\ \A i \in DOMAIN up : up[i].t = "line" => up[i].n \in DOMAIN lines
  /\ \A i \in DOMAIN inbox : inbox[i].t = "line" => inbox[i].n \in DOMAIN lines
  /\ \A c \in Conns : \A i \in DOMAIN down[c] :
       /\ down[c][i].t = "ack" => down[c][i].n \in 0 .. Len(lines)
       /\ down[c][i].t = "answer" => down[c][i].n \in DOMAIN lines

TypeInv == TypeOK /\ FramesInv /\ clock > Start

\* The connections are attached in their order, the last of them is the writer.
ConnInv ==
  /\ \A c \in Conns : handler[c] = "none" <=> c > epoch
  /\ \A c, d \in Conns : c < d /\ handler[c] = "hello" => handler[d] \in {"hello", "none"}
  /\ writer # None => handler[writer] \in {"loop", "over"}
  /\ host # "done" /\ writer # None /\ handler[epoch] # "hello" => writer = epoch
  /\ Alive => handler[epoch] \in {"hello", "loop"}
  /\ Attached /\ host # "done" => writer = epoch
  /\ replaced = {} /\ host # "done" => \A c \in Conns : handler[c] = "loop" => writer = c
  /\ \A c \in replaced : handler[c] \in {"loop", "over"}

\* What an engine has before it is attached, and before it is live.
EngineInv ==
  /\ handler[epoch] = "hello" => engine \in {"connecting", "dead"} /\ up = << >>
  /\ engine = "connecting" /\ handler[epoch] = "loop" => up # << >> /\ Head(up).t = "hello"
  /\ engine = "dead" => up = << >>
  /\ engine \in {"connecting", "dead"} => inbox = << >>
  /\ engine = "connecting" => down[epoch] = << >>
  /\ engine # "live" /\ engine # "gone" => timeline = << >> /\ skip = {} /\ asks = {}
  /\ \A c \in Conns : handler[c] \in {"none", "hello"} => down[c] = << >>
  /\ Alive => \A i \in DOMAIN down[epoch] : down[epoch][i].t \notin {"detach", "shutdown"}
  /\ handler[1] = "hello" => lines = << >> /\ inits = << >> /\ turns = 0

\* The times of the lines go up.
TimeInv ==
  /\ detachedAt <= clock
  /\ \A n \in DOMAIN lines :
       /\ lines[n].wrote <= lines[n].at /\ lines[n].at <= clock
       /\ lines[n].kind # "msg" => lines[n].wrote = lines[n].at
  /\ \A m, n \in DOMAIN lines :
       m < n => lines[m].wrote <= lines[n].wrote /\ lines[m].at <= lines[n].at
  /\ Attached => HelloSince < clock /\ (epoch \notin replaced => HelloSince # 0)

\* What was printed since the detach is in the buffer, and no acknowledgement reaches it.
BufferInv ==
  writer = None /\ host # "done" =>
    \A n \in DOMAIN lines : lines[n].at > detachedAt =>
      /\ n \in buf /\ lastAck < n
      /\ \A c \in Conns : \A i \in DOMAIN down[c] : down[c][i].t = "ack" => down[c][i].n < n

\* The lines come in order.
OrderInv == \A i, j \in Coming : i < j => Path[i].n < Path[j].n

\* A message is known, is coming, or will be restored from the transcript.
KnownInv ==
  /\ Attached => \A n \in MessageLines :
       \/ n \in ToSet(timeline)
       \/ \E i \in Coming : Path[i].n = n
       \/ engine # "live" /\ epoch # 1 /\ (HelloSince = 0 \/ lines[n].wrote <= HelloSince)
  /\ skip \subseteq ToSet(timeline) /\ ToSet(timeline) \subseteq MessageLines

\* What comes is newer than what was restored, or is skipped.
NewInv ==
  /\ Alive /\ epoch \notin replaced => \A i \in Coming :
       ~Path[i].r /\ lines[Path[i].n].kind = "msg" => lines[Path[i].n].wrote > HelloSince
  /\ Alive /\ epoch = 1 => \A i \in Coming : ~Path[i].r
  /\ engine = "live" /\ epoch \notin replaced =>
       /\ \A i, j \in DOMAIN timeline : i < j => timeline[i] < timeline[j]
       /\ \A i \in NewMessages : \A j \in DOMAIN timeline : timeline[j] < Path[i].n

\* The answers on their way are to requests that wait, one to each.
AnswersOpen ==
  \A c \in Conns : handler[c] \in {"hello", "loop"} =>
    \A i \in DOMAIN down[c] : down[c][i].t = "answer" =>
      /\ down[c][i].n \in open
      /\ \A j \in DOMAIN down[c] : down[c][j].t = "answer" /\ down[c][j].n = down[c][i].n => j = i

\* A request that waits is at one place only: on its way to the engine, shown to the user,
\* or answered on the way back.
AsksPlaced ==
  handler[epoch] \in {"hello", "loop"} =>
    /\ asks \subseteq open
    /\ \A i \in Coming : lines[Path[i].n].kind = "ask" => Path[i].n \in open /\ Path[i].n \notin asks
    /\ \A i \in DOMAIN down[epoch] : down[epoch][i].t = "answer" =>
         /\ down[epoch][i].n \notin asks
         /\ \A j \in Coming : Path[j].n # down[epoch][i].n

\* With no engine attached, a request printed since the detach waits.
AsksSince ==
  writer = None /\ host # "done" =>
    \A n \in DOMAIN lines : lines[n].kind = "ask" /\ lines[n].at > detachedAt => n \in open

AskInv ==
  /\ pending = open /\ \A n \in open : lines[n].kind = "ask"
  /\ replaced = {} => ~doubled /\ AnswersOpen /\ AsksPlaced /\ AsksSince

\* The lines that will make the engine think that a turn runs, or has ended.
Dup(frame) ==
  frame.r /\ IF engine = "live" THEN frame.n \in skip ELSE lines[frame.n].wrote <= HelloSince
Decides(frame) ==
  \/ lines[frame.n].kind = "result"
  \/ lines[frame.n].kind = "msg" /\ ~Dup(frame)
Effective == {i \in Coming : Decides(Path[i])}

UserComing == \E i \in DOMAIN down[epoch] : down[epoch][i].t = "user"

\* What the engine thinks, or will think when it has read what is coming, is so.
TurnTold ==
  Attached /\ ~UserComing =>
    /\ Effective = {} => (HelloBusy <=> inFlight)
    /\ \A i \in Effective : (\A j \in Effective : j <= i)
         => (inFlight <=> lines[Path[i].n].kind = "msg")

\* A user's message on its way finds nothing else on the way.
TurnBegun == Alive /\ UserComing => engine = "live" /\ working /\ Coming = {}

\* With no engine attached, the last of the lines since the detach tells what runs.
TurnSince ==
  writer = None =>
    \A n \in DOMAIN lines :
      /\ lines[n].at > detachedAt /\ lines[n].kind \in {"msg", "result"}
      /\ \A m \in DOMAIN lines : m > n => lines[m].kind \notin {"msg", "result"}
      => (inFlight <=> lines[n].kind = "msg")

Undisturbed == replaced = {} /\ ~crossed /\ host = "up" /\ ~Exited

TurnInv == Undisturbed => TurnTold /\ TurnBegun /\ TurnSince

Inv == /\ TypeInv /\ ConnInv /\ EngineInv /\ TimeInv /\ BufferInv
       /\ OrderInv /\ KnownInv /\ NewInv /\ AskInv /\ TurnInv

-----------------------------------------------------------------------------
(* Increasing enumerations.                                                *)

Rank(ns, n) == Cardinality({m \in ns : m <= n})

\* The rank of a number in a set is positive, at most the set's size, and grows with the number.
LEMMA RankGrows ==
  ASSUME NEW ns \in SUBSET Nat, IsFiniteSet(ns)
  PROVE  /\ Cardinality(ns) \in Nat
         /\ \A n \in ns : Rank(ns, n) \in 1 .. Cardinality(ns)
         /\ \A m, n \in ns : m < n => Rank(ns, m) < Rank(ns, n)
<1> DEFINE Upto(n) == {m \in ns : m <= n}
<1>1. Cardinality(ns) \in Nat
  BY FS_CardinalityType
<1>2. ASSUME NEW n \in ns
      PROVE  /\ IsFiniteSet(Upto(n)) /\ Cardinality(Upto(n)) \in Nat
             /\ Cardinality(Upto(n)) <= Cardinality(ns) /\ Cardinality(Upto(n)) # 0
  <2>1. Upto(n) \in SUBSET ns /\ n \in Upto(n)
    OBVIOUS
  <2>2. IsFiniteSet(Upto(n)) /\ Cardinality(Upto(n)) <= Cardinality(ns)
    BY <2>1, FS_Subset
  <2>3. Cardinality(Upto(n)) \in Nat /\ Cardinality(Upto(n)) # 0
    BY <2>1, <2>2, FS_CardinalityType, FS_EmptySet
  <2> QED
    BY <2>2, <2>3
<1>3. ASSUME NEW m \in ns, NEW n \in ns, m < n
      PROVE  Cardinality(Upto(m)) < Cardinality(Upto(n))
  <2>0. m \in Nat /\ n \in Nat /\ \A l \in ns : l \in Nat
    OBVIOUS
  <2>1. n \in Upto(n) /\ n \notin Upto(m)
    BY <2>0, <1>3
  <2>2. \A l \in ns : l <= m => l <= n
    BY <2>0, <1>3
  <2>3. Upto(m) \in SUBSET Upto(n)
    BY <2>2
  <2>4. Cardinality(Upto(m)) <= Cardinality(Upto(n))
        /\ Cardinality(Upto(m)) # Cardinality(Upto(n))
    BY <2>1, <2>3, <1>2, FS_Subset
  <2> QED
    BY <2>4, <1>2
<1> QED
  <2> HIDE DEF Upto
  <2>1. \A n \in ns : Cardinality(Upto(n)) \in 1 .. Cardinality(ns)
    BY <1>1, <1>2
  <2> QED
    BY <1>1, <2>1, <1>3 DEF Rank, Upto

\* Every rank up to the size of the set is the rank of one of its numbers.
LEMMA RankOnto ==
  ASSUME NEW ns \in SUBSET Nat, IsFiniteSet(ns), NEW i \in 1 .. Cardinality(ns)
  PROVE  \E n \in ns : Rank(ns, n) = i
<1> DEFINE k == Cardinality(ns)
           f == [n \in ns |-> Rank(ns, n)]
<1>1. k \in Nat /\ f \in [ns -> 1 .. k]
  BY RankGrows
<1>2. \A m, n \in ns : f[m] = f[n] => m = n
  <2> SUFFICES ASSUME NEW m \in ns, NEW n \in ns, m # n
               PROVE  Rank(ns, m) # Rank(ns, n)
    OBVIOUS
  <2>1. m \in Nat /\ n \in Nat /\ Rank(ns, m) \in Nat /\ Rank(ns, n) \in Nat
    BY RankGrows
  <2>2. m < n \/ n < m
    BY <2>1
  <2> QED
    BY <2>1, <2>2, RankGrows
<1>3. f \in Injection(ns, 1 .. k)
  BY <1>1, <1>2 DEF Injection, IsInjective
<1>4. IsFiniteSet(1 .. k) /\ Cardinality(1 .. k) = k
  BY <1>1, FS_Interval
<1>5. f \in Surjection(ns, 1 .. k)
  BY <1>3, <1>4, FS_Injection
<1> QED
  BY <1>5 DEF Surjection

\* InOrder lists the numbers of a set, each once, from the smallest to the largest.
LEMMA InOrderIncreases ==
  ASSUME NEW ns \in SUBSET Nat, IsFiniteSet(ns)
  PROVE  /\ Cardinality(ns) \in Nat
         /\ InOrder(ns) \in [1 .. Cardinality(ns) -> ns]
         /\ \A i \in 1 .. Cardinality(ns) : Rank(ns, InOrder(ns)[i]) = i
         /\ \A i, j \in 1 .. Cardinality(ns) : i < j => InOrder(ns)[i] < InOrder(ns)[j]
         /\ \A n \in ns : \E i \in 1 .. Cardinality(ns) : InOrder(ns)[i] = n
<1> DEFINE k == Cardinality(ns)
           s == InOrder(ns)
<1>1. k \in Nat
  BY RankGrows
<1>2. s = [i \in 1 .. k |-> CHOOSE n \in ns : Rank(ns, n) = i]
  BY DEF InOrder, Rank
<1>3. \A i \in 1 .. k : s[i] \in ns /\ Rank(ns, s[i]) = i
  BY <1>2, RankOnto
<1>4. s \in [1 .. k -> ns]
  BY <1>2, <1>3
<1>n. \A n \in ns : n \in Nat /\ Rank(ns, n) \in Nat
  BY RankGrows
<1> HIDE DEF k, s
<1>5. ASSUME NEW m \in ns, NEW n \in ns, Rank(ns, m) <= Rank(ns, n)
      PROVE  m <= n
  <2>1. m \in Nat /\ n \in Nat /\ Rank(ns, m) \in Nat /\ Rank(ns, n) \in Nat
    BY <1>n
  <2>2. n < m => Rank(ns, n) < Rank(ns, m)
    BY RankGrows
  <2> QED
    BY <1>5, <2>1, <2>2
<1>6. ASSUME NEW i \in 1 .. k, NEW j \in 1 .. k, i < j
      PROVE  s[i] < s[j]
  <2>1. s[i] \in ns /\ s[j] \in ns /\ Rank(ns, s[i]) = i /\ Rank(ns, s[j]) = j
    BY <1>3
  <2>i. i <= j /\ i # j
    BY <1>6
  <2>2. s[i] <= s[j]
    BY <2>1, <2>i, <1>5
  <2>3. s[i] # s[j] /\ s[i] \in Nat /\ s[j] \in Nat
    BY <2>1, <2>i, <1>n
  <2> QED
    BY <2>2, <2>3
<1>7. ASSUME NEW n \in ns
      PROVE  \E i \in 1 .. k : s[i] = n
  <2> DEFINE i == Rank(ns, n)
  <2>1. i \in 1 .. k
    BY RankGrows DEF k
  <2>2. s[i] \in ns /\ Rank(ns, s[i]) = i
    BY <2>1, <1>3
  <2>3. Rank(ns, s[i]) <= Rank(ns, n) /\ Rank(ns, n) <= Rank(ns, s[i])
    BY <2>2, <1>n
  <2>4. s[i] <= n /\ n <= s[i]
    BY <2>2, <2>3, <1>5
  <2>5. n \in Nat /\ s[i] \in Nat
    BY <2>2, <1>n
  <2>6. s[i] = n
    BY <2>4, <2>5
  <2> QED
    BY <2>1, <2>6
<1> QED
  BY <1>1, <1>3, <1>4, <1>6, <1>7 DEF k, s

\* A sequence that lists the numbers of a set from the smallest to the largest is InOrder.
LEMMA InOrderUnique ==
  ASSUME NEW ns \in SUBSET Nat, IsFiniteSet(ns), NEW k \in Nat, NEW s \in [1 .. k -> ns],
         \A i, j \in 1 .. k : i < j => s[i] < s[j],
         \A n \in ns : \E i \in 1 .. k : s[i] = n
  PROVE  s = InOrder(ns)
<1>0. \A i, j \in 1 .. k : s[i] = s[j] => i = j
  <2> SUFFICES ASSUME NEW i \in 1 .. k, NEW j \in 1 .. k, i # j
               PROVE  s[i] # s[j]
    OBVIOUS
  <2>1. i < j \/ j < i
    OBVIOUS
  <2>2. s[i] \in Nat /\ s[j] \in Nat
    OBVIOUS
  <2> QED
    BY <2>1, <2>2
<1>1. Cardinality(ns) = k
  <2>1. s \in Bijection(1 .. k, ns)
    BY <1>0 DEF Bijection, Injection, IsInjective, Surjection
  <2> QED
    BY <2>1, FS_CountingElements DEF ExistsBijection
<1>2. ASSUME NEW i \in 1 .. k
      PROVE  Rank(ns, s[i]) = i
  <2> DEFINE T == {m \in ns : m <= s[i]}
             g == [j \in 1 .. i |-> s[j]]
  <2>1. \A j \in 1 .. i : j \in 1 .. k /\ s[j] \in ns /\ s[j] <= s[i]
    <3> SUFFICES ASSUME NEW j \in 1 .. i
                 PROVE  j \in 1 .. k /\ s[j] \in ns /\ s[j] <= s[i]
      OBVIOUS
    <3>1. j \in 1 .. k /\ (j < i \/ j = i)
      OBVIOUS
    <3>2. s[j] \in Nat /\ s[i] \in Nat /\ s[j] \in ns
      BY <3>1
    <3> QED
      BY <3>1, <3>2
  <2>2. g \in [1 .. i -> T]
    BY <2>1
  <2>3. \A m \in T : \E j \in 1 .. i : g[j] = m
    <3> SUFFICES ASSUME NEW m \in ns, m <= s[i]
                 PROVE  \E j \in 1 .. i : s[j] = m
      OBVIOUS
    <3>1. PICK j \in 1 .. k : s[j] = m
      OBVIOUS
    <3>2. ~(i < j)
      <4>1. s[j] \in Nat /\ s[i] \in Nat
        OBVIOUS
      <4> QED
        BY <3>1, <4>1
    <3> QED
      BY <3>1, <3>2
  <2>4. \A j, l \in 1 .. i : g[j] = g[l] => j = l
    BY <2>1, <1>0
  <2>5. g \in Bijection(1 .. i, T)
    BY <2>2, <2>3, <2>4 DEF Bijection, Injection, IsInjective, Surjection
  <2>6. i \in Nat
    OBVIOUS
  <2> HIDE DEF T, g
  <2>7. Cardinality(T) = i
    BY <2>5, <2>6, FS_CountingElements DEF ExistsBijection
  <2> QED
    BY <2>7 DEF T, Rank
<1>3. InOrder(ns) \in [1 .. k -> ns] /\ \A i \in 1 .. k : Rank(ns, InOrder(ns)[i]) = i
  BY <1>1, InOrderIncreases
<1>4. \A i \in 1 .. k : s[i] = InOrder(ns)[i]
  <2> SUFFICES ASSUME NEW i \in 1 .. k
               PROVE  s[i] = InOrder(ns)[i]
    OBVIOUS
  <2>1. s[i] \in ns /\ InOrder(ns)[i] \in ns /\ Rank(ns, s[i]) = i /\ Rank(ns, InOrder(ns)[i]) = i
    BY <1>2, <1>3
  <2>n. \A n \in ns : n \in Nat
    OBVIOUS
  <2>a. s[i] \in Nat
    BY <2>1, <2>n
  <2>b. InOrder(ns)[i] \in Nat
    BY <2>1, <2>n
  <2>2. s[i] \in Nat /\ InOrder(ns)[i] \in Nat /\ i \in Nat
    BY <2>a, <2>b
  <2>3. ~(s[i] < InOrder(ns)[i]) /\ ~(InOrder(ns)[i] < s[i])
    BY <2>1, <2>2, RankGrows
  <2> QED
    BY <2>2, <2>3
<1> QED
  BY <1>3, <1>4

-----------------------------------------------------------------------------
(* Frames, and the path to the engine.                                     *)

LEMMA UpFrames ==
  /\ \A f \in UpFrame :
       /\ f.t = "line" => f.n \in 1 .. MaxLines /\ f.r \in BOOLEAN
       /\ f.t = "hello" => f.since \in 0 .. MaxTime /\ f.busy \in BOOLEAN
       /\ f.t = "cached" => f.to \in Conns
  /\ \A n \in 1 .. MaxLines, r \in BOOLEAN :
       LineOf(n, r) \in UpFrame /\ LineOf(n, r).t = "line" /\ LineOf(n, r).n = n /\ LineOf(n, r).r = r
  /\ \A c \in Conns : Cached(c) \in UpFrame /\ Cached(c).t = "cached"
  /\ \A t \in {"exit", "bye"} : Only(t) \in UpFrame /\ Only(t).t = t
  /\ \A s \in 0 .. MaxTime, b \in BOOLEAN : [t |-> "hello", since |-> s, busy |-> b] \in UpFrame
BY DEF UpFrame, LineOf, Cached, Only

LEMMA LineFrames ==
  ASSUME NEW n \in 1 .. MaxLines, NEW r \in BOOLEAN
  PROVE  LineOf(n, r) \in UpFrame /\ LineOf(n, r).t = "line" /\ LineOf(n, r).n = n /\ LineOf(n, r).r = r
BY DEF UpFrame, LineOf

LEMMA DownFrames ==
  /\ \A f \in DownFrame : f.t \in {"answer", "ack"} => f.n \in 0 .. MaxLines
  /\ \A t \in {"init", "user", "detach", "shutdown"} : Only(t) \in DownFrame /\ Only(t).t = t
  /\ \A t \in {"answer", "ack"}, n \in 0 .. MaxLines :
       With(t, n) \in DownFrame /\ With(t, n).t = t /\ With(t, n).n = n
BY DEF DownFrame, Only, With

LEMMA PathFacts ==
  ASSUME up \in Seq(UpFrame), inbox \in Seq(UpFrame)
  PROVE  /\ Path \in Seq(UpFrame) /\ Len(Path) \in Nat /\ DOMAIN Path = 1 .. Len(Path)
         /\ Len(inbox) \in Nat /\ Len(up) \in Nat /\ Len(Path) = Len(inbox) + Len(up)
         /\ \A i \in 1 .. Len(Path) :
              Path[i] = IF i <= Len(inbox) THEN inbox[i] ELSE up[i - Len(inbox)]
         /\ IsFiniteSet(Coming) /\ Coming \in SUBSET (1 .. Len(Path))
<1>1. Path \in Seq(UpFrame) /\ Len(Path) = Len(inbox) + Len(up)
      /\ \A i \in 1 .. Len(inbox) + Len(up) :
           Path[i] = IF i <= Len(inbox) THEN inbox[i] ELSE up[i - Len(inbox)]
  BY ConcatProperties DEF Path
<1>2. Len(inbox) \in Nat /\ Len(up) \in Nat /\ Len(Path) \in Nat /\ DOMAIN Path = 1 .. Len(Path)
  BY <1>1, LenProperties
<1>3. Coming \in SUBSET (1 .. Len(Path))
  BY <1>2 DEF Coming
<1>4. IsFiniteSet(Coming)
  <2>1. 1 \in Int /\ Len(Path) \in Int
    BY <1>2
  <2>2. IsFiniteSet(1 .. Len(Path))
    BY <2>1, FS_Interval
  <2> QED
    BY <2>2, <1>3, FS_Subset
<1> QED
  BY <1>1, <1>2, <1>3, <1>4

\* The lines on the way are lines that have been printed.
LEMMA ComingFacts ==
  ASSUME TypeInv
  PROVE  /\ lines \in Seq(Line) /\ Len(lines) \in Nat /\ DOMAIN lines = 1 .. Len(lines)
         /\ Coming \in SUBSET Nat
         /\ \A i \in Coming : Path[i].n \in DOMAIN lines /\ Path[i].r \in BOOLEAN
                                /\ Path[i].n \in Nat /\ Path[i].t = "line" /\ i \in DOMAIN Path
<1>1. up \in Seq(UpFrame) /\ inbox \in Seq(UpFrame) /\ lines \in Seq(Line) /\ FramesInv
  BY DEF TypeInv, TypeOK
<1>2. Len(lines) \in Nat /\ DOMAIN lines = 1 .. Len(lines)
  BY <1>1, LenProperties
<1>3. ASSUME NEW i \in Coming
      PROVE  Path[i].n \in DOMAIN lines /\ Path[i].r \in BOOLEAN /\ Path[i].n \in Nat
             /\ Path[i].t = "line" /\ i \in DOMAIN Path
  <2>1. i \in DOMAIN Path /\ Path[i].t = "line" /\ i \in 1 .. Len(Path) /\ Path[i] \in UpFrame
    BY <1>1, PathFacts, ElementOfSeq DEF Coming
  <2>2. Path[i].r \in BOOLEAN
    BY <2>1, UpFrames
  <2>3. Path[i].n \in DOMAIN lines
    <3>1. CASE i <= Len(inbox)
      <4>1. i \in DOMAIN inbox /\ Path[i] = inbox[i]
        BY <3>1, <2>1, <1>1, PathFacts, LenProperties
      <4> QED
        BY <4>1, <2>1, <1>1 DEF FramesInv
    <3>2. CASE ~(i <= Len(inbox))
      <4>1. i - Len(inbox) \in DOMAIN up /\ Path[i] = up[i - Len(inbox)]
        BY <3>2, <2>1, <1>1, PathFacts, LenProperties
      <4> QED
        BY <4>1, <2>1, <1>1 DEF FramesInv
    <3> QED
      BY <3>1, <3>2
  <2> QED
    BY <2>1, <2>2, <2>3, <1>2
<1>4. Coming \in SUBSET Nat
  BY <1>1, PathFacts
<1> QED
  BY <1>1, <1>2, <1>3, <1>4

\* The path gets one more frame, at its end.
PathGains(f) ==
  /\ Path' \in Seq(UpFrame) /\ Len(Path') = Len(Path) + 1 /\ Path'[Len(Path) + 1] = f
  /\ \A i \in 1 .. Len(Path) : Path'[i] = Path[i]

LEMMA UpGains ==
  ASSUME TypeInv, NEW f \in UpFrame, up' = up \o <<f>>, inbox' = inbox
  PROVE  up' \in Seq(UpFrame) /\ PathGains(f)
<1>1. up \in Seq(UpFrame) /\ inbox \in Seq(UpFrame) /\ <<f>> \in Seq(UpFrame) /\ Len(<<f>>) = 1
      /\ <<f>>[1] = f
  BY DEF TypeInv, TypeOK
<1>2. up' \in Seq(UpFrame) /\ Len(up') = Len(up) + 1
      /\ \A i \in 1 .. Len(up) + 1 : up'[i] = IF i <= Len(up) THEN up[i] ELSE <<f>>[i - Len(up)]
  BY <1>1, ConcatProperties
<1>3. /\ Path' \in Seq(UpFrame) /\ Len(Path') = Len(inbox) + Len(up')
      /\ \A i \in 1 .. Len(inbox) + Len(up') :
           Path'[i] = IF i <= Len(inbox) THEN inbox[i] ELSE up'[i - Len(inbox)]
  BY <1>1, <1>2, ConcatProperties DEF Path
<1>4. Len(inbox) \in Nat /\ Len(up) \in Nat /\ Len(Path) = Len(inbox) + Len(up)
      /\ \A i \in 1 .. Len(Path) :
           Path[i] = IF i <= Len(inbox) THEN inbox[i] ELSE up[i - Len(inbox)]
  BY <1>1, PathFacts
<1>5. Path'[Len(Path) + 1] = f
  <2>1. Path'[Len(Path) + 1] = up'[Len(up) + 1]
    BY <1>2, <1>3, <1>4
  <2>2. up'[Len(up) + 1] = <<f>>[1]
    BY <1>2, <1>4
  <2> QED
    BY <2>1, <2>2, <1>1
<1>6. ASSUME NEW i \in 1 .. Len(Path)
      PROVE  Path'[i] = Path[i]
  <2>1. i \in 1 .. Len(inbox) + Len(up')
    BY <1>2, <1>4
  <2>2. CASE i <= Len(inbox)
    BY <2>1, <2>2, <1>3, <1>4
  <2>3. CASE ~(i <= Len(inbox))
    <3>1. i - Len(inbox) \in 1 .. Len(up) + 1 /\ i - Len(inbox) <= Len(up)
      BY <2>3, <1>4
    <3>2. Path'[i] = up'[i - Len(inbox)] /\ Path[i] = up[i - Len(inbox)]
      BY <2>1, <2>3, <1>3, <1>4
    <3> QED
      BY <3>1, <3>2, <1>2
  <2> QED
    BY <2>2, <2>3
<1> QED
  BY <1>2, <1>3, <1>4, <1>5, <1>6 DEF PathGains

LEMMA GainsComing ==
  ASSUME TypeInv, NEW f \in UpFrame, PathGains(f)
  PROVE  /\ \A i \in Coming : i \in Coming' /\ Path'[i] = Path[i] /\ i < Len(Path) + 1
         /\ \A i \in Coming' : i \in Coming \/ (i = Len(Path) + 1 /\ f.t = "line")
         /\ f.t = "line" => Len(Path) + 1 \in Coming' /\ Path'[Len(Path) + 1] = f
<1>1. up \in Seq(UpFrame) /\ inbox \in Seq(UpFrame)
  BY DEF TypeInv, TypeOK
<1>2. DOMAIN Path' = 1 .. Len(Path) + 1 /\ DOMAIN Path = 1 .. Len(Path) /\ Len(Path) \in Nat
  BY <1>1, PathFacts, LenProperties DEF PathGains
<1> QED
  BY <1>2 DEF PathGains, Coming

\* The path loses the frame at k.
PathLoses(k) ==
  /\ k \in 1 .. Len(Path) /\ Path' \in Seq(UpFrame) /\ Len(Path') = Len(Path) - 1
  /\ \A i \in 1 .. Len(Path) - 1 : Path'[i] = Path[IF i < k THEN i ELSE i + 1]

\* What comes after a loss is, in the same order, what came before, but for the line lost.
LEMMA LosesComing ==
  ASSUME TypeInv, NEW k, PathLoses(k)
  PROVE  \E g \in [Coming' -> Coming \ {k}] :
           /\ \A i \in Coming' : Path'[i] = Path[g[i]]
           /\ \A i, j \in Coming' : i < j <=> g[i] < g[j]
           /\ \A j \in Coming \ {k} : \E i \in Coming' : g[i] = j
<1> DEFINE g == [i \in Coming' |-> IF i < k THEN i ELSE i + 1]
<1>1. up \in Seq(UpFrame) /\ inbox \in Seq(UpFrame)
  BY DEF TypeInv, TypeOK
<1>2. /\ DOMAIN Path' = 1 .. Len(Path) - 1 /\ DOMAIN Path = 1 .. Len(Path) /\ Len(Path) \in Nat
      /\ k \in 1 .. Len(Path)
  BY <1>1, PathFacts, LenProperties DEF PathLoses
<1>3. \A i \in Coming' : g[i] \in Coming \ {k} /\ Path'[i] = Path[g[i]] /\ i \in Nat
  BY <1>2 DEF PathLoses, Coming
<1>4. \A i, j \in Coming' : i < j <=> g[i] < g[j]
  BY <1>3, <1>2
<1>5. ASSUME NEW j \in Coming \ {k}
      PROVE  \E i \in Coming' : g[i] = j
  <2> DEFINE i == IF j < k THEN j ELSE j - 1
  <2>1. j \in 1 .. Len(Path) /\ i \in 1 .. Len(Path) - 1 /\ (IF i < k THEN i ELSE i + 1) = j
    BY <1>2 DEF Coming
  <2>2. i \in Coming'
    BY <2>1, <1>2 DEF PathLoses, Coming
  <2> QED
    BY <2>1, <2>2
<1>6. g \in [Coming' -> Coming \ {k}]
  BY <1>3
<1> QED
  <2> HIDE DEF g
  <2>1. \A i \in Coming' : Path'[i] = Path[g[i]]
    BY <1>3
  <2>2. \A j \in Coming \ {k} : \E i \in Coming' : g[i] = j
    BY <1>5
  <2> WITNESS g \in [Coming' -> Coming \ {k}]
  <2> QED
    BY <1>4, <2>1, <2>2

-----------------------------------------------------------------------------
(* What the steps do to the connections and to the path.                   *)

LEMMA Indices ==
  ASSUME NEW S, NEW s \in Seq(S)
  PROVE  /\ Len(s) \in Nat /\ DOMAIN s = 1 .. Len(s) /\ \A i \in DOMAIN s : s[i] \in S /\ i \in Nat
         /\ s # << >> => /\ Head(s) = s[1] /\ 1 \in DOMAIN s /\ Tail(s) \in Seq(S)
                         /\ Len(Tail(s)) = Len(s) - 1
                         /\ \A i \in DOMAIN Tail(s) : i + 1 \in DOMAIN s /\ Tail(s)[i] = s[i + 1]
<1>1. Len(s) \in Nat /\ DOMAIN s = 1 .. Len(s) /\ \A i \in DOMAIN s : s[i] \in S /\ i \in Nat
  BY LenProperties, ElementOfSeq
<1>2. ASSUME s # << >>
      PROVE  /\ Head(s) = s[1] /\ 1 \in DOMAIN s /\ Tail(s) \in Seq(S)
             /\ Len(Tail(s)) = Len(s) - 1
             /\ \A i \in DOMAIN Tail(s) : i + 1 \in DOMAIN s /\ Tail(s)[i] = s[i + 1]
  <2>1. Len(s) # 0
    BY <1>2, EmptySeq
  <2>2. /\ Tail(s) \in Seq(S) /\ Len(Tail(s)) = Len(s) - 1
        /\ \A i \in 1 .. Len(Tail(s)) : Tail(s)[i] = s[i + 1]
    BY <1>2, HeadTailProperties
  <2>3. DOMAIN Tail(s) = 1 .. Len(Tail(s))
    BY <2>2, LenProperties
  <2>4. Head(s) = s[1]
    BY <1>2
  <2> QED
    BY <1>1, <2>1, <2>2, <2>3, <2>4
<1> QED
  BY <1>1, <1>2

\* The host takes a frame of c.
LEMMA FrameTaken ==
  ASSUME TypeInv, NEW c \in Conns, NEW t, Frame(c, t)
  PROVE  /\ host # "done" /\ handler[c] = "loop" /\ 1 \in DOMAIN down[c]
         /\ Head(down[c]) = down[c][1] /\ down[c][1].t = t /\ down[c][1] \in DownFrame
         /\ down' \in [Conns -> Seq(DownFrame)]
         /\ \A d \in Conns : d # c => down'[d] = down[d]
         /\ \A i \in DOMAIN down'[c] :
              i \in Nat /\ i + 1 \in DOMAIN down[c] /\ down'[c][i] = down[c][i + 1]
         /\ \A d \in Conns : \A i \in DOMAIN down'[d] :
              \E j \in DOMAIN down[d] : down'[d][i] = down[d][j]
<1>1. down \in [Conns -> Seq(DownFrame)] /\ down[c] \in Seq(DownFrame)
  BY DEF TypeInv, TypeOK
<1>2. /\ host # "done" /\ handler[c] = "loop" /\ down[c] # << >> /\ Head(down[c]).t = t
      /\ down' = [down EXCEPT ![c] = Tail(@)]
  BY DEF Frame
<1>3. /\ Head(down[c]) = down[c][1] /\ 1 \in DOMAIN down[c] /\ Tail(down[c]) \in Seq(DownFrame)
      /\ \A i \in DOMAIN Tail(down[c]) :
           i + 1 \in DOMAIN down[c] /\ Tail(down[c])[i] = down[c][i + 1]
      /\ down[c][1] \in DownFrame /\ \A i \in DOMAIN Tail(down[c]) : i \in Nat
  BY <1>1, <1>2, Indices
<1>4. down'[c] = Tail(down[c]) /\ \A d \in Conns : d # c => down'[d] = down[d]
  BY <1>1, <1>2
<1>5. down' \in [Conns -> Seq(DownFrame)]
  BY <1>1, <1>2, <1>3
<1>6. ASSUME NEW d \in Conns, NEW i \in DOMAIN down'[d]
      PROVE  \E j \in DOMAIN down[d] : down'[d][i] = down[d][j]
  <2>1. CASE d # c
    <3>1. down'[d] = down[d]
      BY <2>1, <1>4
    <3> QED
      BY <3>1
  <2>2. CASE d = c
    <3>1. i \in DOMAIN Tail(down[c]) /\ down'[d][i] = Tail(down[c])[i]
      BY <2>2, <1>4
    <3>2. i + 1 \in DOMAIN down[d] /\ down'[d][i] = down[d][i + 1]
      BY <2>2, <3>1, <1>3
    <3> QED
      BY <3>2
  <2> QED
    BY <2>1, <2>2
<1> QED
  BY <1>2, <1>3, <1>4, <1>5, <1>6

\* The engine writes a frame.
LEMMA ToHostAdds ==
  ASSUME TypeInv, NEW f \in DownFrame, down' = ToHost(<<f>>)
  PROVE  /\ down' \in [Conns -> Seq(DownFrame)] /\ Len(down[epoch]) \in Nat
         /\ \A d \in Conns : d # epoch => down'[d] = down[d]
         /\ DOMAIN down'[epoch] = 1 .. Len(down[epoch]) + 1
         /\ DOMAIN down[epoch] = 1 .. Len(down[epoch])
         /\ \A i \in DOMAIN down[epoch] : down'[epoch][i] = down[epoch][i]
         /\ down'[epoch][Len(down[epoch]) + 1] = f
         /\ \A d \in Conns : \A i \in DOMAIN down'[d] :
              \/ down'[d][i] = f /\ d = epoch
              \/ i \in DOMAIN down[d] /\ down'[d][i] = down[d][i]
<1> DEFINE s == down[epoch]
<1>1. down \in [Conns -> Seq(DownFrame)] /\ epoch \in Conns /\ s \in Seq(DownFrame)
  BY DEF TypeInv, TypeOK
<1>2. down' = [down EXCEPT ![epoch] = s \o <<f>>]
  BY <1>1 DEF ToHost
<1>3. /\ s \o <<f>> \in Seq(DownFrame) /\ Len(s \o <<f>>) = Len(s) + 1 /\ Len(s) \in Nat
      /\ \A i \in 1 .. Len(s) : (s \o <<f>>)[i] = s[i]
      /\ (s \o <<f>>)[Len(s) + 1] = f
  BY <1>1
<1>4. DOMAIN s = 1 .. Len(s) /\ DOMAIN (s \o <<f>>) = 1 .. Len(s) + 1
  BY <1>1, <1>3, LenProperties
<1>5. down'[epoch] = s \o <<f>> /\ down' \in [Conns -> Seq(DownFrame)]
      /\ \A d \in Conns : d # epoch => down'[d] = down[d]
  BY <1>1, <1>2, <1>3
<1>6. ASSUME NEW d \in Conns, NEW i \in DOMAIN down'[d]
      PROVE  \/ down'[d][i] = f /\ d = epoch
             \/ i \in DOMAIN down[d] /\ down'[d][i] = down[d][i]
  <2>1. CASE d # epoch
    BY <2>1, <1>5
  <2>2. CASE d = epoch
    <3>1. i \in 1 .. Len(s) \/ i = Len(s) + 1
      BY <2>2, <1>3, <1>4, <1>5
    <3> QED
      BY <2>2, <3>1, <1>3, <1>4, <1>5
  <2> QED
    BY <2>1, <2>2
<1> QED
  BY <1>3, <1>4, <1>5, <1>6

LEMMA ToHostNothing ==
  ASSUME TypeInv, down' = ToHost(<< >>)
  PROVE  down' = down
<1>1. down \in [Conns -> Seq(DownFrame)] /\ epoch \in Conns
  BY DEF TypeInv, TypeOK
<1>2. down[epoch] \o << >> = down[epoch]
  BY <1>1, ConcatEmptySeq
<1> QED
  BY <1>1, <1>2 DEF ToHost

\* The host sends a frame, to the engine attached or to nobody.
LEMMA ToEngineAdds ==
  ASSUME TypeInv, NEW f \in UpFrame, up' = ToEngine(<<f>>), inbox' = inbox
  PROVE  /\ up' \in Seq(UpFrame)
         /\ writer = epoch /\ Alive => up' = up \o <<f>> /\ PathGains(f)
         /\ ~(writer = epoch /\ Alive) => up' = up /\ Path' = Path
<1>1. CASE writer = epoch /\ Alive
  BY <1>1, UpGains DEF ToEngine
<1>2. CASE ~(writer = epoch /\ Alive)
  BY <1>2 DEF ToEngine, Path, TypeInv, TypeOK
<1> QED
  BY <1>1, <1>2

\* What the engine acknowledges when it reads a frame.
Acknowledges ==
  down' = down \/ \E m \in 0 .. Len(lines) : down' = ToHost(<<With("ack", m)>>)

LEMMA PumpTakes ==
  ASSUME TypeInv, PumpHead
  PROVE  /\ up # << >> /\ Head(up) = up[1] /\ 1 \in DOMAIN up /\ up[1] \in UpFrame
         /\ up' = Tail(up) /\ up' \in Seq(UpFrame)
         /\ \A i \in DOMAIN up' : i + 1 \in DOMAIN up /\ up'[i] = up[i + 1]
         /\ lastSeq' \in 0 .. Len(lines) /\ unacked' \in 0 .. AckEvery /\ Acknowledges
<1>1. up \in Seq(UpFrame) /\ lastSeq \in 0 .. Len(lines) /\ unacked \in 0 .. AckEvery
      /\ lines \in Seq(Line) /\ FramesInv
  BY DEF TypeInv, TypeOK
<1>2. up # << >> /\ up' = Tail(up)
  BY DEF PumpHead
<1>3. /\ Head(up) = up[1] /\ 1 \in DOMAIN up /\ up[1] \in UpFrame /\ up' \in Seq(UpFrame)
      /\ \A i \in DOMAIN up' : i + 1 \in DOMAIN up /\ up'[i] = up[i + 1]
  BY <1>1, <1>2, Indices
<1>4. Head(up).t = "line" => Head(up).n \in 1 .. Len(lines)
  BY <1>1, <1>3, LenProperties DEF FramesInv
<1>5. Len(lines) \in Nat /\ AckEvery \in Nat /\ AckEvery # 0
  BY <1>1, LenProperties, ConstantsAssumption
<1>6. lastSeq' \in 0 .. Len(lines)
  BY <1>1, <1>4, <1>5 DEF PumpHead, Larger
<1>7. unacked' \in 0 .. AckEvery
  BY <1>1, <1>4, <1>5 DEF PumpHead
<1>8. Acknowledges
  <2>1. \/ \E m \in 0 .. Len(lines) : down' = ToHost(<<With("ack", m)>>)
        \/ down' = ToHost(<< >>)
    <3> DEFINE due == Head(up).t = "line" /\ (lines[Head(up).n].kind = "result" \/ unacked + 1 >= AckEvery)
    <3>1. down' = ToHost(IF due THEN <<With("ack", Head(up).n)>>
                         ELSE IF Head(up).t = "exit" THEN <<With("ack", lastSeq)>> ELSE << >>)
      BY DEF PumpHead
    <3>2. CASE due
      BY <3>1, <3>2, <1>4, <1>5
    <3>3. CASE ~due /\ Head(up).t = "exit"
      BY <3>1, <3>3, <1>1
    <3>4. CASE ~due /\ Head(up).t # "exit"
      BY <3>1, <3>4
    <3> QED
      BY <3>2, <3>3, <3>4
  <2> QED
    BY <2>1, ToHostNothing DEF Acknowledges
<1> QED
  BY <1>2, <1>3, <1>6, <1>7, <1>8

\* Consume takes the first frame of the path.
LEMMA ConsumeTakes ==
  ASSUME TypeInv, Consume
  PROVE  /\ engine = "live" /\ PathLoses(1) /\ Process(Path[1]) /\ Path[1] \in UpFrame
         /\ up' \in Seq(UpFrame) /\ inbox' \in Seq(UpFrame)
         /\ lastSeq' \in 0 .. Len(lines) /\ unacked' \in 0 .. AckEvery /\ Acknowledges
         /\ \A i \in DOMAIN up' : \E j \in DOMAIN up : up'[i] = up[j]
         /\ \A i \in DOMAIN inbox' : \E j \in DOMAIN inbox : inbox'[i] = inbox[j]
         /\ up' = up \/ up' = Tail(up)
<1>1. /\ up \in Seq(UpFrame) /\ inbox \in Seq(UpFrame) /\ lastSeq \in 0 .. Len(lines)
      /\ unacked \in 0 .. AckEvery
  BY DEF TypeInv, TypeOK
<1>2. /\ Path \in Seq(UpFrame) /\ Len(inbox) \in Nat /\ Len(up) \in Nat /\ Len(Path) \in Nat
      /\ Len(Path) = Len(inbox) + Len(up) /\ DOMAIN Path = 1 .. Len(Path)
      /\ \A i \in 1 .. Len(Path) :
           Path[i] = IF i <= Len(inbox) THEN inbox[i] ELSE up[i - Len(inbox)]
  BY <1>1, PathFacts
<1>3. engine = "live"
  BY DEF Consume
<1>4. CASE inbox # << >>
  <2>1. Process(Head(inbox)) /\ inbox' = Tail(inbox) /\ UNCHANGED <<up, down, unacked, lastSeq>>
    BY <1>4 DEF Consume
  <2>2. /\ Head(inbox) = inbox[1] /\ 1 \in DOMAIN inbox /\ DOMAIN inbox = 1 .. Len(inbox)
        /\ inbox' \in Seq(UpFrame) /\ Len(inbox') = Len(inbox) - 1
        /\ DOMAIN inbox' = 1 .. Len(inbox')
        /\ \A i \in DOMAIN inbox' : i + 1 \in DOMAIN inbox /\ inbox'[i] = inbox[i + 1]
    BY <1>1, <1>4, <2>1, Indices
  <2>3. Path[1] = inbox[1] /\ 1 \in 1 .. Len(Path)
    BY <1>2, <2>2
  <2>4. /\ Path' \in Seq(UpFrame) /\ Len(Path') = Len(inbox') + Len(up)
        /\ \A i \in 1 .. Len(inbox') + Len(up) :
             Path'[i] = IF i <= Len(inbox') THEN inbox'[i] ELSE up[i - Len(inbox')]
    BY <1>1, <2>1, <2>2, ConcatProperties DEF Path
  <2>5. ASSUME NEW i \in 1 .. Len(Path) - 1
        PROVE  Path'[i] = Path[i + 1]
    <3>1. i \in 1 .. Len(inbox') + Len(up) /\ i + 1 \in 1 .. Len(Path)
      BY <1>2, <2>2
    <3>2. CASE i <= Len(inbox')
      <4>1. i \in DOMAIN inbox' /\ i + 1 <= Len(inbox)
        BY <3>1, <3>2, <2>2, <1>2
      <4>2. Path'[i] = inbox'[i] /\ Path[i + 1] = inbox[i + 1]
        BY <3>1, <3>2, <4>1, <2>4, <1>2
      <4> QED
        BY <4>1, <4>2, <2>2
    <3>3. CASE ~(i <= Len(inbox'))
      <4>1. Path'[i] = up[i - Len(inbox')] /\ Path[i + 1] = up[i + 1 - Len(inbox)]
        BY <3>1, <3>3, <2>4, <2>2, <1>2
      <4>2. i - Len(inbox') = i + 1 - Len(inbox)
        BY <2>2, <1>2
      <4> QED
        BY <4>1, <4>2
    <3> QED
      BY <3>2, <3>3
  <2>6. PathLoses(1)
    <3>1. \A i \in 1 .. Len(Path) - 1 : (IF i < 1 THEN i ELSE i + 1) = i + 1
      BY <1>2
    <3> QED
      BY <2>2, <2>3, <2>4, <2>5, <3>1, <1>2 DEF PathLoses
  <2> QED
    BY <1>1, <1>2, <1>3, <2>1, <2>2, <2>3, <2>6, ElementOfSeq DEF Acknowledges
<1>5. CASE inbox = << >>
  <2>1. PumpHead /\ Process(Head(up)) /\ inbox' = inbox
    BY <1>5 DEF Consume
  <2>2. /\ up # << >> /\ Head(up) = up[1] /\ 1 \in DOMAIN up /\ up[1] \in UpFrame
        /\ up' = Tail(up) /\ up' \in Seq(UpFrame)
        /\ \A i \in DOMAIN up' : i + 1 \in DOMAIN up /\ up'[i] = up[i + 1]
        /\ lastSeq' \in 0 .. Len(lines) /\ unacked' \in 0 .. AckEvery /\ Acknowledges
    BY <2>1, PumpTakes
  <2>3. Path = up /\ Path' = up'
    BY <1>1, <1>5, <2>1, <2>2, ConcatEmptySeq DEF Path
  <2>4. Len(up') = Len(up) - 1 /\ DOMAIN up' = 1 .. Len(up') /\ DOMAIN up = 1 .. Len(up)
    BY <1>1, <2>2, Indices
  <2>5. PathLoses(1)
    BY <2>2, <2>3, <2>4, <1>2 DEF PathLoses
  <2> QED
    BY <1>3, <1>5, <2>1, <2>2, <2>3, <2>5
<1> QED
  BY <1>4, <1>5

\* Hold moves the first frame of the connection to the inbox, or drops it.
LEMMA HoldTakes ==
  ASSUME TypeInv, Hold
  PROVE  /\ engine \in {"handshake", "restoring"} /\ up' \in Seq(UpFrame) /\ inbox' \in Seq(UpFrame)
         /\ lastSeq' \in 0 .. Len(lines) /\ unacked' \in 0 .. AckEvery /\ Acknowledges
         /\ \A i \in DOMAIN up' : \E j \in DOMAIN up : up'[i] = up[j]
         /\ \A i \in DOMAIN inbox' : \/ \E j \in DOMAIN inbox : inbox'[i] = inbox[j]
                                     \/ \E j \in DOMAIN up : inbox'[i] = up[j]
         /\ Path' = Path \/ \E k : PathLoses(k) /\ IsInit(Path[k])
<1>1. up \in Seq(UpFrame) /\ inbox \in Seq(UpFrame)
  BY DEF TypeInv, TypeOK
<1>2. /\ Path \in Seq(UpFrame) /\ Len(inbox) \in Nat /\ Len(up) \in Nat /\ Len(Path) \in Nat
      /\ Len(Path) = Len(inbox) + Len(up) /\ DOMAIN Path = 1 .. Len(Path)
      /\ \A i \in 1 .. Len(Path) :
           Path[i] = IF i <= Len(inbox) THEN inbox[i] ELSE up[i - Len(inbox)]
  BY <1>1, PathFacts
<1>3. /\ engine \in {"handshake", "restoring"} /\ PumpHead
      /\ IF IsInit(Head(up)) THEN UNCHANGED inbox ELSE inbox' = Append(inbox, Head(up))
  BY DEF Hold
<1>4. /\ up # << >> /\ Head(up) = up[1] /\ 1 \in DOMAIN up /\ up[1] \in UpFrame
      /\ up' = Tail(up) /\ up' \in Seq(UpFrame)
      /\ \A i \in DOMAIN up' : i + 1 \in DOMAIN up /\ up'[i] = up[i + 1]
      /\ lastSeq' \in 0 .. Len(lines) /\ unacked' \in 0 .. AckEvery /\ Acknowledges
  BY <1>3, PumpTakes
<1>5. Len(up') = Len(up) - 1 /\ DOMAIN up' = 1 .. Len(up') /\ DOMAIN up = 1 .. Len(up)
  BY <1>1, <1>4, Indices
<1>6. CASE IsInit(Head(up))
  <2> DEFINE k == Len(inbox) + 1
  <2>1. inbox' = inbox
    BY <1>3, <1>6
  <2>2. k \in 1 .. Len(Path) /\ Path[k] = up[1]
    <3>1. k \in 1 .. Len(Path) /\ ~(k <= Len(inbox)) /\ k - Len(inbox) = 1
      BY <1>2, <1>4, <1>5
    <3> HIDE DEF k
    <3>2. Path[k] = up[k - Len(inbox)]
      BY <3>1, <1>2
    <3> QED
      BY <3>1, <3>2
  <2>3. /\ Path' \in Seq(UpFrame) /\ Len(Path') = Len(inbox) + Len(up')
        /\ \A i \in 1 .. Len(inbox) + Len(up') :
             Path'[i] = IF i <= Len(inbox) THEN inbox[i] ELSE up'[i - Len(inbox)]
    BY <1>1, <1>4, <2>1, ConcatProperties DEF Path
  <2>4. ASSUME NEW i \in 1 .. Len(Path) - 1
        PROVE  Path'[i] = Path[IF i < k THEN i ELSE i + 1]
    <3>1. i \in 1 .. Len(inbox) + Len(up') /\ i \in 1 .. Len(Path) /\ i + 1 \in 1 .. Len(Path)
      BY <1>2, <1>5
    <3>2. CASE i <= Len(inbox)
      BY <3>1, <3>2, <2>3, <1>2
    <3>3. CASE ~(i <= Len(inbox))
      <4>1. Path'[i] = up'[i - Len(inbox)] /\ Path[i + 1] = up[(i + 1) - Len(inbox)] /\ ~(i < k)
        BY <3>1, <3>3, <2>3, <1>2
      <4>2. i - Len(inbox) \in DOMAIN up' /\ (i - Len(inbox)) + 1 = (i + 1) - Len(inbox)
        BY <3>1, <3>3, <1>2, <1>5
      <4>3. up'[i - Len(inbox)] = up[(i + 1) - Len(inbox)]
        BY <4>2, <1>4
      <4> QED
        BY <4>1, <4>3
    <3> QED
      BY <3>2, <3>3
  <2>5. PathLoses(k) /\ IsInit(Path[k])
    BY <2>2, <2>3, <2>4, <1>2, <1>4, <1>5, <1>6 DEF PathLoses
  <2> QED
    BY <1>1, <1>3, <1>4, <2>1, <2>5
<1>7. CASE ~IsInit(Head(up))
  <2>1. inbox' = Append(inbox, up[1])
    BY <1>3, <1>4, <1>7
  <2>2. /\ inbox' \in Seq(UpFrame) /\ Len(inbox') = Len(inbox) + 1
        /\ \A i \in 1 .. Len(inbox) : inbox'[i] = inbox[i]
        /\ inbox'[Len(inbox) + 1] = up[1]
    BY <1>1, <1>4, <2>1, AppendProperties
  <2>3. DOMAIN inbox' = 1 .. Len(inbox) + 1 /\ DOMAIN inbox = 1 .. Len(inbox)
    BY <1>1, <2>2, LenProperties
  <2>4. /\ Path' \in Seq(UpFrame) /\ Len(Path') = Len(inbox') + Len(up')
        /\ \A i \in 1 .. Len(inbox') + Len(up') :
             Path'[i] = IF i <= Len(inbox') THEN inbox'[i] ELSE up'[i - Len(inbox')]
    <3>1. up' \in Seq(UpFrame) /\ inbox' \in Seq(UpFrame) /\ Path' = inbox' \o up'
      BY <1>4, <2>2 DEF Path
    <3>2. \A a, b \in Seq(UpFrame) :
            /\ a \o b \in Seq(UpFrame) /\ Len(a \o b) = Len(a) + Len(b)
            /\ \A i \in 1 .. Len(a) + Len(b) :
                 (a \o b)[i] = IF i <= Len(a) THEN a[i] ELSE b[i - Len(a)]
      BY ConcatProperties
    <3> QED
      BY <3>1, <3>2
  <2>5. Len(Path') = Len(Path)
    BY <2>4, <2>2, <1>2, <1>5
  <2>6. ASSUME NEW i \in 1 .. Len(Path)
        PROVE  Path'[i] = Path[i]
    <3>1. i \in 1 .. Len(inbox') + Len(up')
      BY <2>4, <2>5
    <3>2. CASE i <= Len(inbox)
      BY <3>1, <3>2, <2>4, <2>2, <1>2
    <3>3. CASE i = Len(inbox) + 1
      BY <3>1, <3>3, <2>4, <2>2, <1>2
    <3>4. CASE i > Len(inbox) + 1
      <4>1. Path'[i] = up'[i - Len(inbox')] /\ Path[i] = up[i - Len(inbox)]
        BY <3>1, <3>4, <2>4, <2>2, <1>2
      <4>2. i - Len(inbox') \in DOMAIN up' /\ (i - Len(inbox')) + 1 = i - Len(inbox)
        BY <3>1, <3>4, <2>2, <1>2, <1>5
      <4> QED
        BY <4>1, <4>2, <1>4
    <3> QED
      BY <3>2, <3>3, <3>4, <1>2
  <2>7. Path' = Path
    BY <2>4, <2>5, <2>6, <1>2, SeqEqual
  <2>8. ASSUME NEW i \in DOMAIN inbox'
        PROVE  \/ \E j \in DOMAIN inbox : inbox'[i] = inbox[j]
               \/ \E j \in DOMAIN up : inbox'[i] = up[j]
    <3>1. i \in 1 .. Len(inbox) \/ i = Len(inbox) + 1
      BY <2>3, <1>2
    <3> QED
      BY <3>1, <2>2, <2>3, <1>4
  <2> QED
    BY <1>3, <1>4, <2>2, <2>7, <2>8
<1> QED
  BY <1>6, <1>7

\* The CLI prints a line.
Printed(kind, wrote, to) ==
  /\ OnCliMessage(kind, wrote, to)
  /\ kind \in Kinds /\ wrote \in 1 .. MaxTime /\ to \in 0 .. MaxEngines
  /\ kind # "msg" => wrote = clock
  /\ kind = "msg" => /\ wrote <= clock /\ (wrote = clock \/ writer = None)
                     /\ \A n \in DOMAIN lines : lines[n].wrote <= wrote
  /\ open' = IF kind = "ask" THEN {Len(lines) + 1} ELSE open
  /\ kind = "ask" => open = {}
  /\ turns' \in Nat
  /\ lines # << >> \/ inits # << >> \/ turns # 0

LEMMA CliPrints ==
  ASSUME TypeInv, CliInitAnswer \/ CliMessage \/ CliAsk \/ CliResult
  PROVE  \E kind, wrote, to : Printed(kind, wrote, to)
<1>1. /\ lines \in Seq(Line) /\ inits \in Seq(Conns) /\ turns \in Nat /\ clock \in 1 .. MaxTime
      /\ clock > 1 /\ MaxTime \in Nat /\ MaxEngines \in Nat /\ DOMAIN lines = 1 .. Len(lines)
      /\ Len(lines) \in Nat
  BY LenProperties, ConstantsAssumption DEF TypeInv, TypeOK, Start
<1> DEFINE N == {n \in DOMAIN lines : lines[n].kind = "init"}
<1>2. Answered \in Nat /\ (Answered > 0 => lines # << >>)
  <2>1. N \in SUBSET (1 .. Len(lines)) /\ IsFiniteSet(1 .. Len(lines))
    BY <1>1, FS_Interval
  <2>2. IsFiniteSet(N) /\ Cardinality(N) \in Nat
    BY <2>1, FS_Subset, FS_CardinalityType
  <2>3. lines = << >> => N = {}
    BY <1>1
  <2> QED
    BY <2>2, <2>3, FS_EmptySet DEF Answered
<1>3. CASE CliInitAnswer
  <2>1. Answered + 1 \in 1 .. Len(inits) /\ inits # << >>
    BY <1>1, <1>2, <1>3, LenProperties DEF CliInitAnswer
  <2>2. inits[Answered + 1] \in 0 .. MaxEngines
    BY <2>1, <1>1, ElementOfSeq DEF Conns
  <2>3. Printed("init", clock, inits[Answered + 1])
    BY <1>1, <1>3, <2>1, <2>2 DEF Printed, CliInitAnswer, Kinds
  <2> QED
    BY <2>3
<1>4. CASE CliMessage
  <2>1. PICK wrote \in {clock - 1, clock} :
          /\ wrote = clock \/ writer = None
          /\ \A n \in DOMAIN lines : lines[n].wrote <= wrote
          /\ OnCliMessage("msg", wrote, 0)
    BY <1>4 DEF CliMessage
  <2>2. wrote \in 1 .. MaxTime /\ wrote <= clock /\ 0 \in 0 .. MaxEngines
    BY <1>1
  <2>3. Answered > 0 /\ turns' = Larger(turns, 1) /\ open' = open
    BY <1>4 DEF CliMessage
  <2>4. turns' \in Nat /\ lines # << >>
    BY <2>3, <1>1, <1>2 DEF Larger
  <2>5. Printed("msg", wrote, 0)
    BY <2>1, <2>2, <2>3, <2>4 DEF Printed, Kinds
  <2> QED
    BY <2>5
<1>5. CASE CliAsk
  <2>1. Printed("ask", clock, 0)
    BY <1>1, <1>5 DEF Printed, CliAsk, Kinds
  <2> QED
    BY <2>1
<1>6. CASE CliResult
  <2>1. turns > 0 /\ turns' = turns - 1 /\ open' = open /\ OnCliMessage("result", clock, 0)
    BY <1>6 DEF CliResult
  <2>2. Printed("result", clock, 0)
    BY <1>1, <2>1 DEF Printed, Kinds
  <2> QED
    BY <2>2
<1> QED
  BY <1>3, <1>4, <1>5, <1>6

LEMMA PrintedLines ==
  ASSUME TypeInv, NEW kind, NEW wrote, NEW to, Printed(kind, wrote, to)
  PROVE  /\ lines' \in Seq(Line) /\ Len(lines) \in Nat /\ Len(lines') = Len(lines) + 1
         /\ Len(lines) + 1 <= MaxLines /\ Len(lines) + 1 \in 1 .. MaxLines
         /\ DOMAIN lines = 1 .. Len(lines) /\ DOMAIN lines' = 1 .. Len(lines) + 1
         /\ \A m \in DOMAIN lines : m \in DOMAIN lines' /\ m < Len(lines) + 1
                                      /\ lines'[m] = lines[m]
         /\ \A m \in DOMAIN lines' : m \in DOMAIN lines \/ m = Len(lines) + 1
         /\ lines'[Len(lines) + 1].kind = kind /\ lines'[Len(lines) + 1].wrote = wrote
         /\ lines'[Len(lines) + 1].at = clock
         /\ up' = ToEngine(<<LineOf(Len(lines) + 1, FALSE)>>) /\ inbox' = inbox
         /\ LineOf(Len(lines) + 1, FALSE) \in UpFrame
<1> DEFINE l == [kind |-> kind, wrote |-> wrote, at |-> clock, to |-> to]
<1>1. /\ lines \in Seq(Line) /\ Len(lines) \in Nat /\ DOMAIN lines = 1 .. Len(lines)
      /\ clock \in 1 .. MaxTime /\ MaxLines \in Nat
  BY LenProperties, ConstantsAssumption DEF TypeInv, TypeOK
<1>2. l \in Line /\ l.kind = kind /\ l.wrote = wrote /\ l.at = clock
  BY <1>1 DEF Printed, Line
<1>3. lines' = Append(lines, l) /\ Len(lines) < MaxLines
  BY DEF Printed, OnCliMessage
<1> HIDE DEF l
<1>4. /\ lines' \in Seq(Line) /\ Len(lines') = Len(lines) + 1
      /\ \A i \in 1 .. Len(lines) : lines'[i] = lines[i]
      /\ lines'[Len(lines) + 1] = l
  BY <1>1, <1>2, <1>3, AppendProperties
<1>5. DOMAIN lines' = 1 .. Len(lines) + 1
  BY <1>4, LenProperties
<1>6. Len(lines) + 1 \in 1 .. MaxLines
  BY <1>1, <1>3
<1>7. LineOf(Len(lines) + 1, FALSE) \in UpFrame
  BY <1>6, UpFrames
<1>8. up' = ToEngine(<<LineOf(Len(lines) + 1, FALSE)>>) /\ inbox' = inbox
  BY DEF Printed, OnCliMessage
<1>9. /\ \A m \in DOMAIN lines : m \in DOMAIN lines' /\ m < Len(lines) + 1 /\ lines'[m] = lines[m]
      /\ \A m \in DOMAIN lines' : m \in DOMAIN lines \/ m = Len(lines) + 1
  BY <1>1, <1>4, <1>5
<1>10. Len(lines) + 1 <= MaxLines
  BY <1>1, <1>3
<1>11. lines'[Len(lines) + 1].kind = kind /\ lines'[Len(lines) + 1].wrote = wrote
       /\ lines'[Len(lines) + 1].at = clock
  BY <1>2, <1>4
<1> QED
  BY <1>1, <1>4, <1>5, <1>6, <1>7, <1>8, <1>9, <1>10, <1>11

\* Every frame on its way to the host was on its way before.
DownFrom ==
  \A d \in Conns : \A i \in DOMAIN down'[d] : \E j \in DOMAIN down[d] : down'[d][i] = down[d][j]

\* The host ends a connection, one whose engine is no more.
LEMMA Leaves ==
  ASSUME TypeInv, EngineInv, NEW c \in Conns, OnDetach(c) \/ OnEof(c)
  PROVE  /\ Leave(c) /\ host # "done" /\ handler[c] = "loop" /\ ~(c = epoch /\ Alive)
         /\ down' \in [Conns -> Seq(DownFrame)] /\ DownFrom
         /\ \A d \in Conns : d # c => down'[d] = down[d]
<1>1. CASE OnDetach(c)
  <2>1. Frame(c, "detach") /\ Leave(c)
    BY <1>1 DEF OnDetach
  <2>2. c = epoch => ~Alive
    BY <2>1, FrameTaken DEF EngineInv
  <2> QED
    BY <2>1, <2>2, FrameTaken DEF DownFrom
<1>2. CASE OnEof(c)
  <2>1. down \in [Conns -> Seq(DownFrame)]
    BY DEF TypeInv, TypeOK
  <2> QED
    BY <1>2, <2>1 DEF OnEof, DownFrom
<1> QED
  BY <1>1, <1>2

\* The engine dies, detaches or sleeps the session.
LEMMA Ends ==
  ASSUME TypeInv, Kill \/ Detach \/ Sleep
  PROVE  /\ Alive /\ engine' \in {"dead", "gone"} /\ Forget
         /\ down' \in [Conns -> Seq(DownFrame)]
         /\ \A d \in Conns : d # epoch => down'[d] = down[d]
         /\ \A i \in DOMAIN down'[epoch] :
              \/ i \in DOMAIN down[epoch] /\ down'[epoch][i] = down[epoch][i]
              \/ down'[epoch][i].t \in {"detach", "shutdown"}
         /\ engine' = "gone" => engine = "live"
<1>1. down \in [Conns -> Seq(DownFrame)] /\ epoch \in Conns /\ down[epoch] \in Seq(DownFrame)
  BY DEF TypeInv, TypeOK
<1>2. CASE Kill
  <2> DEFINE s == down[epoch]
  <2>1. PICK k \in 0 .. Len(s) : down' = [down EXCEPT ![epoch] = SubSeq(s, 1, k)]
    BY <1>1, <1>2 DEF Kill
  <2>2. Len(s) \in Nat /\ DOMAIN s = 1 .. Len(s)
    BY <1>1, LenProperties
  <2>3. \A i \in 1 .. k : s[i] \in DownFrame /\ i \in DOMAIN s
    BY <2>1, <2>2, <1>1, ElementOfSeq
  <2>4. k \in Nat /\ k \in Int /\ 1 \in Int
    BY <2>1, <2>2
  <2>5. /\ SubSeq(s, 1, k) \in Seq(DownFrame)
        /\ Len(SubSeq(s, 1, k)) = IF 1 <= k THEN k - 1 + 1 ELSE 0
        /\ \A i \in 1 .. k - 1 + 1 : SubSeq(s, 1, k)[i] = s[1 + i - 1]
    BY <2>3, <2>4, SubSeqProperties
  <2>6. DOMAIN SubSeq(s, 1, k) = 1 .. k
    BY <2>4, <2>5, LenProperties
  <2>7. \A i \in 1 .. k : SubSeq(s, 1, k)[i] = s[i]
    BY <2>4, <2>5
  <2>8. down'[epoch] = SubSeq(s, 1, k) /\ down' \in [Conns -> Seq(DownFrame)]
        /\ \A d \in Conns : d # epoch => down'[d] = down[d]
    BY <1>1, <2>1, <2>5
  <2> HIDE DEF s
  <2>9. \A i \in DOMAIN down'[epoch] : i \in DOMAIN s /\ down'[epoch][i] = s[i]
    BY <2>3, <2>6, <2>7, <2>8
  <2> QED
    BY <2>8, <2>9, <1>2 DEF Kill, s
<1>3. CASE Detach
  <2>1. Only("detach") \in DownFrame /\ Only("detach").t = "detach"
    BY DownFrames
  <2>2. down' = ToHost(<<Only("detach")>>) /\ Alive /\ engine' = "dead" /\ Forget
    BY <1>3 DEF Detach, Alive
  <2> QED
    BY <2>1, <2>2, ToHostAdds
<1>4. CASE Sleep
  <2>1. Only("shutdown") \in DownFrame /\ Only("shutdown").t = "shutdown"
    BY DownFrames
  <2>2. down' = ToHost(<<Only("shutdown")>>) /\ Alive /\ engine' = "gone" /\ engine = "live" /\ Forget
    BY <1>4 DEF Sleep, Alive
  <2> QED
    BY <2>1, <2>2, ToHostAdds
<1> QED
  BY <1>2, <1>3, <1>4

LEMMA NothingComing ==
  ASSUME up = << >>, inbox = << >>
  PROVE  Path = << >> /\ Coming = {}
BY DEF Path, Coming

\* What the host sends to an engine that attaches.
Replayed == {n \in DOMAIN lines : IF lines[n].at > detachedAt THEN n \in buf ELSE n \in pending}

LEMMA ReplayIsReplayed ==
  ASSUME TypeInv, TimeInv
  PROVE  \E k \in Nat :
           /\ Replay \in [1 .. k -> Replayed] /\ Replay \in Seq(DOMAIN lines) /\ Len(Replay) = k
           /\ \A i, j \in 1 .. k : i < j => Replay[i] < Replay[j]
           /\ \A n \in Replayed : \E i \in 1 .. k : Replay[i] = n
<1> DEFINE later == BufferedSince(detachedAt)
           early == {n \in pending \ later : lines[n].at <= detachedAt}
           a == InOrder(early)
           b == InOrder(later)
<1>1. /\ lines \in Seq(Line) /\ Len(lines) \in Nat /\ DOMAIN lines = 1 .. Len(lines)
      /\ buf \subseteq DOMAIN lines /\ pending \subseteq DOMAIN lines /\ detachedAt \in Nat
      /\ \A n \in DOMAIN lines : lines[n] \in Line /\ lines[n].at \in Nat
  <2>1. /\ lines \in Seq(Line) /\ buf \subseteq DOMAIN lines /\ pending \subseteq DOMAIN lines
        /\ detachedAt \in 0 .. MaxTime /\ MaxTime \in Nat
    BY ConstantsAssumption DEF TypeInv, TypeOK
  <2>2. Len(lines) \in Nat /\ DOMAIN lines = 1 .. Len(lines)
        /\ \A n \in DOMAIN lines : lines[n] \in Line
    BY <2>1, Indices
  <2>3. \A n \in DOMAIN lines : lines[n].at \in Nat
    BY <2>1, <2>2 DEF Line
  <2> QED
    BY <2>1, <2>2, <2>3
<1>2. \A n \in later : n \in DOMAIN lines /\ lines[n].at > detachedAt /\ n \in buf
  BY <1>1 DEF BufferedSince
<1>3. \A n \in early : n \in DOMAIN lines /\ lines[n].at <= detachedAt /\ n \in pending
  BY <1>1
<1>4. /\ early \in SUBSET Nat /\ later \in SUBSET Nat /\ IsFiniteSet(early) /\ IsFiniteSet(later)
  <2>1. early \in SUBSET (1 .. Len(lines)) /\ later \in SUBSET (1 .. Len(lines))
    BY <1>1, <1>2, <1>3
  <2>2. IsFiniteSet(1 .. Len(lines))
    BY <1>1, FS_Interval
  <2> QED
    BY <2>1, <2>2, FS_Subset
<1>5. Replayed = early \cup later
  <2>1. ASSUME NEW n \in Replayed
        PROVE  n \in early \cup later
    <3>1. n \in DOMAIN lines /\ lines[n].at \in Nat
      BY <1>1 DEF Replayed
    <3>2. CASE lines[n].at > detachedAt
      BY <3>1, <3>2 DEF Replayed, BufferedSince
    <3>3. CASE ~(lines[n].at > detachedAt)
      <4>1. n \in pending /\ n \notin later /\ lines[n].at <= detachedAt
        BY <3>1, <3>3, <1>1, <1>2 DEF Replayed
      <4> QED
        BY <4>1
    <3> QED
      BY <3>2, <3>3
  <2>2. ASSUME NEW n \in early \cup later
        PROVE  n \in Replayed
    BY <1>1, <1>2, <1>3 DEF Replayed
  <2> QED
    BY <2>1, <2>2
<1>6. Replay = a \o b
  BY DEF Replay
<1> DEFINE p == Cardinality(early)
           q == Cardinality(later)
<1> HIDE DEF early, later
<1>7. /\ p \in Nat /\ a \in [1 .. p -> early]
      /\ \A i, j \in 1 .. p : i < j => a[i] < a[j]
      /\ \A n \in early : \E i \in 1 .. p : a[i] = n
  BY <1>4, InOrderIncreases
<1>8. /\ q \in Nat /\ b \in [1 .. q -> later]
      /\ \A i, j \in 1 .. q : i < j => b[i] < b[j]
      /\ \A n \in later : \E i \in 1 .. q : b[i] = n
  BY <1>4, InOrderIncreases
<1> HIDE DEF a, b, p, q
<1>9. /\ a \in Seq(DOMAIN lines) /\ b \in Seq(DOMAIN lines) /\ Len(a) = p /\ Len(b) = q
  <2>1. a \in [1 .. p -> DOMAIN lines] /\ b \in [1 .. q -> DOMAIN lines]
    BY <1>2, <1>3, <1>7, <1>8
  <2>2. a \in Seq(DOMAIN lines) /\ b \in Seq(DOMAIN lines)
    BY <2>1, <1>7, <1>8, SeqDef
  <2> QED
    BY <2>1, <2>2, <1>7, <1>8, LenProperties
<1>10. /\ Replay \in Seq(DOMAIN lines) /\ Len(Replay) = p + q
       /\ \A i \in 1 .. p + q : Replay[i] = IF i <= p THEN a[i] ELSE b[i - p]
  BY <1>6, <1>9, ConcatProperties
<1>11. Replay \in [1 .. p + q -> DOMAIN lines]
  BY <1>10, LenProperties
<1>12. ASSUME NEW i \in 1 .. p + q
       PROVE  /\ i <= p => i \in 1 .. p /\ Replay[i] = a[i] /\ Replay[i] \in early
              /\ ~(i <= p) => i - p \in 1 .. q /\ Replay[i] = b[i - p] /\ Replay[i] \in later
  BY <1>7, <1>8, <1>10
<1>13. \A i \in 1 .. p + q : Replay[i] \in Replayed
  BY <1>5, <1>12
<1>14. ASSUME NEW i \in 1 .. p + q, NEW j \in 1 .. p + q, i < j
       PROVE  Replay[i] < Replay[j]
  <2>1. CASE j <= p
    BY <2>1, <1>7, <1>12, <1>14
  <2>2. CASE ~(i <= p)
    <3>1. i - p < j - p /\ ~(j <= p)
      BY <2>2, <1>7, <1>14
    <3> QED
      BY <3>1, <2>2, <1>8, <1>12
  <2>3. CASE i <= p /\ ~(j <= p)
    <3> DEFINE m == Replay[i]
               n == Replay[j]
    <3>1. m \in early /\ n \in later
      BY <2>3, <1>12
    <3>2. m \in DOMAIN lines /\ n \in DOMAIN lines /\ lines[m].at <= detachedAt /\ lines[n].at > detachedAt
          /\ m \in Nat /\ n \in Nat /\ lines[m].at \in Nat /\ lines[n].at \in Nat
      BY <3>1, <1>1, <1>2, <1>3
    <3>3. n < m => lines[n].at <= lines[m].at
      BY <3>2 DEF TimeInv
    <3>4. m < n
      BY <3>2, <3>3, <1>1
    <3> QED
      BY <3>4
  <2> QED
    BY <2>1, <2>2, <2>3, <1>7
<1>15. ASSUME NEW n \in Replayed
       PROVE  \E i \in 1 .. p + q : Replay[i] = n
  <2>1. CASE n \in early
    <3>1. PICK i \in 1 .. p : a[i] = n
      BY <2>1, <1>7
    <3>2. i \in 1 .. p + q /\ i <= p
      BY <3>1, <1>7, <1>8
    <3> QED
      BY <3>1, <3>2, <1>12
  <2>2. CASE n \in later
    <3>1. PICK i \in 1 .. q : b[i] = n
      BY <2>2, <1>8
    <3>2. i + p \in 1 .. p + q /\ ~(i + p <= p) /\ (i + p) - p = i
      BY <3>1, <1>7, <1>8
    <3>3. Replay[i + p] = b[i]
      BY <3>2, <1>12
    <3> QED
      BY <3>1, <3>2, <3>3
  <2> QED
    BY <2>1, <2>2, <1>5
<1>16. p + q \in Nat /\ Replay \in [1 .. p + q -> Replayed]
  BY <1>7, <1>8, <1>11, <1>13
<1> QED
  BY <1>10, <1>14, <1>15, <1>16

\* The path of an engine that is attached: the hello, then the lines replayed, in order.
LEMMA AttachPath ==
  ASSUME TypeInv, TimeInv, EngineInv, NEW c \in Conns, Attach(c), c = epoch, Alive
  PROVE  /\ engine = "connecting" /\ inbox = << >> /\ inbox' = << >> /\ up' \in Seq(UpFrame) /\ up' # << >>
         /\ Head(up').t = "hello" /\ Head(up').since = detachedAt
         /\ Head(up').busy = (inFlight \/ \E n \in Replayed : lines[n].kind = "result")
         /\ \A i \in DOMAIN up' : up'[i].t = "line" => up'[i].n \in DOMAIN lines
         /\ \A i \in Coming' : Path'[i].n \in Replayed /\ Path'[i].r = TRUE
         /\ \A i, j \in Coming' : i < j => Path'[i].n < Path'[j].n
         /\ \A n \in Replayed : \E i \in Coming' : Path'[i].n = n
<1> DEFINE busy == inFlight \/ \E i \in DOMAIN Replay : lines[Replay[i]].kind = "result"
           hello == [t |-> "hello", since |-> detachedAt, busy |-> busy]
           rs == [i \in DOMAIN Replay |-> LineOf(Replay[i], TRUE)]
           end == IF Exited THEN <<Only("exit")>> ELSE << >>
<1>1. engine = "connecting" /\ inbox = << >> /\ inbox' = << >>
  BY DEF Attach, EngineInv, Alive
<1>2. PICK k \in Nat :
           /\ Replay \in [1 .. k -> Replayed] /\ Replay \in Seq(DOMAIN lines) /\ Len(Replay) = k
           /\ \A i, j \in 1 .. k : i < j => Replay[i] < Replay[j]
           /\ \A n \in Replayed : \E i \in 1 .. k : Replay[i] = n
  BY ReplayIsReplayed
<1>3. up' = (<<hello>> \o rs) \o end
  BY DEF Attach
<1>4. /\ lines \in Seq(Line) /\ DOMAIN lines = 1 .. Len(lines) /\ Len(lines) <= MaxLines /\ Len(lines) \in Nat
      /\ MaxLines \in Nat /\ inFlight \in BOOLEAN /\ detachedAt \in 0 .. MaxTime
  BY LenProperties, ConstantsAssumption DEF TypeInv, TypeOK
<1>5. hello \in UpFrame /\ hello.t = "hello" /\ hello.since = detachedAt /\ hello.busy = busy
  <2>1. busy \in BOOLEAN
    BY <1>4
  <2> QED
    BY <2>1, <1>4, UpFrames
<1>6. busy = (inFlight \/ \E n \in Replayed : lines[n].kind = "result")
  BY <1>2
<1>7. \A i \in 1 .. k : /\ rs[i] \in UpFrame /\ rs[i].t = "line" /\ rs[i].n = Replay[i] /\ rs[i].r = TRUE
                        /\ Replay[i] \in DOMAIN lines /\ Replay[i] \in Replayed
  <2>1. \A i \in 1 .. k : /\ rs[i] = LineOf(Replay[i], TRUE)
                         /\ Replay[i] \in DOMAIN lines /\ Replay[i] \in Replayed
    BY <1>2 DEF Replayed
  <2>2. \A n \in DOMAIN lines : n \in 1 .. MaxLines
    BY <1>4
  <2> SUFFICES ASSUME NEW i \in 1 .. k
               PROVE  /\ rs[i] \in UpFrame /\ rs[i].t = "line" /\ rs[i].n = Replay[i] /\ rs[i].r = TRUE
                      /\ Replay[i] \in DOMAIN lines /\ Replay[i] \in Replayed
    OBVIOUS
  <2>3. Replay[i] \in 1 .. MaxLines /\ TRUE \in BOOLEAN
    BY <2>1, <2>2
  <2>4. rs[i] = LineOf(Replay[i], TRUE) /\ Replay[i] \in DOMAIN lines /\ Replay[i] \in Replayed
    BY <2>1
  <2> HIDE DEF rs
  <2> QED
    BY <2>3, <2>4, LineFrames
<1>r. DOMAIN rs = 1 .. k /\ rs = [i \in 1 .. k |-> rs[i]]
  BY <1>2
<1> HIDE DEF rs
<1>8. rs \in Seq(UpFrame) /\ Len(rs) = k
  <2>1. rs \in [1 .. k -> UpFrame]
    BY <1>r, <1>7
  <2>2. rs \in Seq(UpFrame)
    BY <2>1, SeqDef
  <2> QED
    BY <2>1, <2>2, <1>2, LenProperties
<1>9. end \in Seq(UpFrame) /\ Len(end) \in Nat /\ \A i \in 1 .. Len(end) : end[i].t = "exit"
  <2>1. Only("exit") \in UpFrame /\ Only("exit").t = "exit"
    BY UpFrames
  <2> QED
    BY <2>1
<1>e. Len(end) \in Nat
  BY <1>9
<1> HIDE DEF end, hello
<1>10. <<hello>> \in Seq(UpFrame) /\ Len(<<hello>>) = 1 /\ <<hello>>[1] = hello
  BY <1>5
<1>11. /\ <<hello>> \o rs \in Seq(UpFrame) /\ Len(<<hello>> \o rs) = 1 + k
       /\ \A i \in 1 .. 1 + k : (<<hello>> \o rs)[i] = IF i <= 1 THEN <<hello>>[i] ELSE rs[i - 1]
  BY <1>8, <1>10, ConcatProperties
<1>12. /\ up' \in Seq(UpFrame) /\ Len(up') = 1 + k + Len(end)
       /\ \A i \in 1 .. 1 + k + Len(end) :
            up'[i] = IF i <= 1 + k THEN (<<hello>> \o rs)[i] ELSE end[i - (1 + k)]
  <2> DEFINE x == <<hello>> \o rs
  <2>1. x \in Seq(UpFrame) /\ Len(x) = 1 + k /\ up' = x \o end /\ end \in Seq(UpFrame)
    BY <1>3, <1>9, <1>11
  <2> HIDE DEF x
  <2>2. /\ up' \in Seq(UpFrame) /\ Len(up') = 1 + k + Len(end)
        /\ \A i \in 1 .. 1 + k + Len(end) :
             up'[i] = IF i <= 1 + k THEN x[i] ELSE end[i - (1 + k)]
    <3>1. /\ x \o end \in Seq(UpFrame) /\ Len(x \o end) = Len(x) + Len(end)
          /\ \A i \in 1 .. Len(x) + Len(end) :
               (x \o end)[i] = IF i <= Len(x) THEN x[i] ELSE end[i - Len(x)]
      BY <2>1, ConcatProperties
    <3>2. Len(x) + Len(end) = 1 + k + Len(end)
      BY <2>1
    <3> QED
      BY <2>1, <3>1, <3>2
  <2> QED
    BY <2>2 DEF x
<1>13. up'[1] = hello /\ 1 \in DOMAIN up' /\ DOMAIN up' = 1 .. 1 + k + Len(end) /\ up' # << >>
       /\ Head(up') = hello
  <2>1. DOMAIN up' = 1 .. 1 + k + Len(end)
    BY <1>12, LenProperties
  <2>2. up'[1] = hello /\ 1 \in DOMAIN up'
    <3>1. 1 \in 1 .. 1 + k + Len(end) /\ 1 \in 1 .. 1 + k /\ 1 <= 1 + k
      BY <1>e
    <3>2. up'[1] = (<<hello>> \o rs)[1]
      BY <3>1, <1>12
    <3>3. (<<hello>> \o rs)[1] = <<hello>>[1]
      BY <3>1, <1>11
    <3>4. up'[1] = hello
      BY <3>2, <3>3, <1>10
    <3> QED
      BY <2>1, <3>1, <3>4
  <2>3. up' # << >>
    BY <1>12, <1>2, <1>9, EmptySeq
  <2> QED
    BY <2>1, <2>2, <2>3, <1>12
<1>14. ASSUME NEW i \in 1 .. k
       PROVE  i + 1 \in DOMAIN up' /\ up'[i + 1] = rs[i]
  <2>1. i + 1 \in 1 .. 1 + k /\ ~(i + 1 <= 1) /\ (i + 1) - 1 = i /\ i + 1 \in 1 .. 1 + k + Len(end)
    BY <1>e
  <2>2. (<<hello>> \o rs)[i + 1] = rs[i]
    BY <2>1, <1>11
  <2>3. up'[i + 1] = (<<hello>> \o rs)[i + 1]
    <3>1. i + 1 <= 1 + k
      BY <2>1
    <3> QED
      BY <2>1, <3>1, <1>12
  <2> QED
    BY <2>1, <2>2, <2>3, <1>13
<1>15. ASSUME NEW i \in DOMAIN up', up'[i].t = "line"
       PROVE  i - 1 \in 1 .. k /\ up'[i] = rs[i - 1]
  <2>1. i # 1
    BY <1>5, <1>13, <1>15
  <2>2. ~(i > 1 + k)
    <3> SUFFICES ASSUME i > 1 + k
                 PROVE  FALSE
      OBVIOUS
    <3>1. i - (1 + k) \in 1 .. Len(end) /\ up'[i] = end[i - (1 + k)]
      BY <1>12, <1>13, <1>e, <1>2
    <3> QED
      BY <3>1, <1>9, <1>15
  <2>3. i - 1 \in 1 .. k /\ (i - 1) + 1 = i
    BY <2>1, <2>2, <1>13, <1>e
  <2> QED
    BY <2>3, <1>14
<1>16. Path' = up'
  BY <1>1, <1>12, ConcatEmptySeq DEF Path
<1>17. ASSUME NEW i \in Coming'
       PROVE  /\ i - 1 \in 1 .. k /\ Path'[i].n = Replay[i - 1] /\ Path'[i].r = TRUE /\ i \in Int
              /\ Path'[i].n \in Replayed
  <2>1. i \in DOMAIN up' /\ up'[i].t = "line"
    BY <1>16 DEF Coming
  <2>2. i - 1 \in 1 .. k /\ up'[i] = rs[i - 1] /\ i \in Int
    BY <2>1, <1>13, <1>15
  <2> QED
    BY <2>2, <1>7, <1>16
<1>18. ASSUME NEW i \in Coming', NEW j \in Coming', i < j
       PROVE  Path'[i].n < Path'[j].n
  <2>1. i \in Int /\ i - 1 \in 1 .. k /\ Path'[i].n = Replay[i - 1]
    BY <1>17
  <2>2. j \in Int /\ j - 1 \in 1 .. k /\ Path'[j].n = Replay[j - 1]
    BY <1>17
  <2>3. i - 1 < j - 1
    BY <2>1, <2>2, <1>18
  <2> QED
    BY <2>1, <2>2, <2>3, <1>2
<1>19. ASSUME NEW n \in Replayed
       PROVE  \E i \in Coming' : Path'[i].n = n
  <2>1. PICK i \in 1 .. k : Replay[i] = n
    BY <1>2
  <2>2. i + 1 \in Coming' /\ Path'[i + 1].n = n
    BY <2>1, <1>14, <1>7, <1>16 DEF Coming
  <2> QED
    BY <2>2
<1>20. \A i \in DOMAIN up' : up'[i].t = "line" => up'[i].n \in DOMAIN lines
  BY <1>15, <1>7
<1> QED
  BY <1>1, <1>5, <1>6, <1>12, <1>13, <1>17, <1>18, <1>19, <1>20

-----------------------------------------------------------------------------
(* Types.                                                                  *)

LEMMA FramesFromBefore ==
  ASSUME TypeInv, DownFrom, lines' = lines,
         \A i \in DOMAIN up' : \E j \in DOMAIN up : up'[i] = up[j],
         \A i \in DOMAIN inbox' : \/ \E j \in DOMAIN inbox : inbox'[i] = inbox[j]
                                  \/ \E j \in DOMAIN up : inbox'[i] = up[j]
  PROVE  FramesInv'
<1>1. FramesInv
  BY DEF TypeInv
<1>2. \A i \in DOMAIN up' : up'[i].t = "line" => up'[i].n \in DOMAIN lines
  BY <1>1 DEF FramesInv
<1>3. \A i \in DOMAIN inbox' : inbox'[i].t = "line" => inbox'[i].n \in DOMAIN lines
  BY <1>1 DEF FramesInv
<1>4. ASSUME NEW c \in Conns, NEW i \in DOMAIN down'[c]
      PROVE  /\ down'[c][i].t = "ack" => down'[c][i].n \in 0 .. Len(lines)
             /\ down'[c][i].t = "answer" => down'[c][i].n \in DOMAIN lines
  <2>1. PICK j \in DOMAIN down[c] : down'[c][i] = down[c][j]
    BY DEF DownFrom
  <2> QED
    BY <2>1, <1>1 DEF FramesInv
<1> QED
  BY <1>2, <1>3, <1>4 DEF FramesInv

LEMMA SameDown ==
  ASSUME down' = down
  PROVE  DownFrom
BY DEF DownFrom

LEMMA OneMore ==
  ASSUME NEW S, NEW s \in Seq(S), NEW e \in S
  PROVE  /\ s \o <<e>> \in Seq(S) /\ Len(s) \in Nat /\ DOMAIN s = 1 .. Len(s)
         /\ DOMAIN (s \o <<e>>) = 1 .. Len(s) + 1 /\ (s \o <<e>>)[Len(s) + 1] = e
         /\ \A i \in DOMAIN s : i \in DOMAIN (s \o <<e>>) /\ (s \o <<e>>)[i] = s[i]
         /\ \A i \in DOMAIN (s \o <<e>>) : i \in DOMAIN s \/ i = Len(s) + 1
<1>1. s \o <<e>> = Append(s, e)
  BY AppendIsConcat
<1>2. /\ Append(s, e) \in Seq(S) /\ Len(Append(s, e)) = Len(s) + 1 /\ Append(s, e)[Len(s) + 1] = e
      /\ \A i \in 1 .. Len(s) : Append(s, e)[i] = s[i]
  BY AppendProperties
<1>3. /\ Len(s) \in Nat /\ DOMAIN s = 1 .. Len(s) /\ DOMAIN Append(s, e) = 1 .. Len(s) + 1
  BY <1>2, LenProperties
<1> QED
  BY <1>1, <1>2, <1>3

LEMMA FramesWithOneMore ==
  ASSUME TypeInv, DownFrom, lines' = lines, NEW f \in UpFrame, f.t # "line",
         up' = ToEngine(<<f>>), inbox' = inbox
  PROVE  FramesInv' /\ up' \in Seq(UpFrame)
<1>1. FramesInv /\ up \in Seq(UpFrame)
  BY DEF TypeInv, TypeOK
<1>2. up' \in Seq(UpFrame) /\ (up' = up \/ up' = up \o <<f>>)
  BY ToEngineAdds
<1>3. ASSUME NEW i \in DOMAIN up', up'[i].t = "line"
      PROVE  up'[i].n \in DOMAIN lines
  <2>1. CASE up' = up
    BY <2>1, <1>1, <1>3 DEF FramesInv
  <2>2. CASE up' = up \o <<f>>
    <3>1. /\ \A l \in DOMAIN up : up'[l] = up[l]
          /\ up'[Len(up) + 1] = f /\ (i \in DOMAIN up \/ i = Len(up) + 1)
      <4>1. /\ DOMAIN (up \o <<f>>) = DOMAIN up'
            /\ \A l \in DOMAIN up : (up \o <<f>>)[l] = up[l]
            /\ (up \o <<f>>)[Len(up) + 1] = f
            /\ \A l \in DOMAIN (up \o <<f>>) : l \in DOMAIN up \/ l = Len(up) + 1
        BY <1>1, <2>2, OneMore
      <4> QED
        BY <2>2, <4>1
    <3>2. i \in DOMAIN up /\ up'[i] = up[i]
      BY <3>1, <1>3
    <3> QED
      BY <3>2, <1>1, <1>3 DEF FramesInv
  <2> QED
    BY <2>1, <2>2, <1>2
<1>4. \A i \in DOMAIN inbox' : inbox'[i].t = "line" => inbox'[i].n \in DOMAIN lines
  BY <1>1 DEF FramesInv
<1>5. ASSUME NEW c \in Conns, NEW i \in DOMAIN down'[c]
      PROVE  /\ down'[c][i].t = "ack" => down'[c][i].n \in 0 .. Len(lines)
             /\ down'[c][i].t = "answer" => down'[c][i].n \in DOMAIN lines
  <2>1. PICK j \in DOMAIN down[c] : down'[c][i] = down[c][j]
    BY DEF DownFrom
  <2> QED
    BY <2>1, <1>1 DEF FramesInv
<1> QED
  BY <1>2, <1>3, <1>4, <1>5 DEF FramesInv

LEMMA FramesSent ==
  ASSUME TypeInv, lines' = lines, NEW f \in DownFrame, down' = ToHost(<<f>>),
         f.t = "ack" => f.n \in 0 .. Len(lines), f.t = "answer" => f.n \in DOMAIN lines,
         \A i \in DOMAIN up' : \E j \in DOMAIN up : up'[i] = up[j],
         \A i \in DOMAIN inbox' : \/ \E j \in DOMAIN inbox : inbox'[i] = inbox[j]
                                  \/ \E j \in DOMAIN up : inbox'[i] = up[j]
  PROVE  FramesInv' /\ down' \in [Conns -> Seq(DownFrame)]
<1>1. FramesInv
  BY DEF TypeInv
<1>2. /\ down' \in [Conns -> Seq(DownFrame)]
      /\ \A d \in Conns : \A i \in DOMAIN down'[d] :
            \/ down'[d][i] = f /\ d = epoch
            \/ i \in DOMAIN down[d] /\ down'[d][i] = down[d][i]
  BY ToHostAdds
<1>3. /\ \A i \in DOMAIN up' : up'[i].t = "line" => up'[i].n \in DOMAIN lines
      /\ \A i \in DOMAIN inbox' : inbox'[i].t = "line" => inbox'[i].n \in DOMAIN lines
  BY <1>1 DEF FramesInv
<1>4. ASSUME NEW c \in Conns, NEW i \in DOMAIN down'[c]
      PROVE  /\ down'[c][i].t = "ack" => down'[c][i].n \in 0 .. Len(lines)
             /\ down'[c][i].t = "answer" => down'[c][i].n \in DOMAIN lines
  <2>1. CASE down'[c][i] = f
    BY <2>1
  <2>2. CASE i \in DOMAIN down[c] /\ down'[c][i] = down[c][i]
    BY <2>2, <1>1 DEF FramesInv
  <2> QED
    BY <2>1, <2>2, <1>2
<1> QED
  BY <1>2, <1>3, <1>4 DEF FramesInv

LEMMA FramesAcknowledged ==
  ASSUME TypeInv, lines' = lines, Acknowledges,
         \A i \in DOMAIN up' : \E j \in DOMAIN up : up'[i] = up[j],
         \A i \in DOMAIN inbox' : \/ \E j \in DOMAIN inbox : inbox'[i] = inbox[j]
                                  \/ \E j \in DOMAIN up : inbox'[i] = up[j]
  PROVE  FramesInv' /\ down' \in [Conns -> Seq(DownFrame)]
<1>1. CASE down' = down
  <2>1. down' \in [Conns -> Seq(DownFrame)]
    BY <1>1 DEF TypeInv, TypeOK
  <2> QED
    BY <2>1, <1>1, SameDown, FramesFromBefore
<1>2. CASE \E m \in 0 .. Len(lines) : down' = ToHost(<<With("ack", m)>>)
  <2>1. PICK m \in 0 .. Len(lines) : down' = ToHost(<<With("ack", m)>>)
    BY <1>2
  <2>2. m \in 0 .. MaxLines
    BY ComingFacts, ConstantsAssumption DEF TypeInv, TypeOK
  <2>3. With("ack", m) \in DownFrame /\ With("ack", m).t = "ack" /\ With("ack", m).n = m
    BY <2>2, DownFrames
  <2> QED
    BY <2>1, <2>3, FramesSent
<1> QED
  BY <1>1, <1>2 DEF Acknowledges

LEMMA FramesPrinted ==
  ASSUME TypeInv, NEW kind, NEW wrote, NEW to, Printed(kind, wrote, to)
  PROVE  FramesInv' /\ up' \in Seq(UpFrame)
<1> DEFINE n == Len(lines) + 1
           f == LineOf(n, FALSE)
<1>1. /\ n \in 1 .. MaxLines /\ DOMAIN lines' = 1 .. n /\ DOMAIN lines = 1 .. Len(lines)
      /\ Len(lines) \in Nat /\ Len(lines') = n
      /\ up' = ToEngine(<<f>>) /\ inbox' = inbox /\ f \in UpFrame
  BY PrintedLines
<1>2. FramesInv /\ up \in Seq(UpFrame) /\ down' = down
  BY DEF TypeInv, TypeOK, Printed, OnCliMessage
<1>3. up' \in Seq(UpFrame) /\ (up' = up \/ up' = up \o <<f>>)
  BY <1>1, ToEngineAdds
<1>4. f.t = "line" /\ f.n = n
  BY DEF LineOf
<1> HIDE DEF f
<1>5. ASSUME NEW i \in DOMAIN up', up'[i].t = "line"
      PROVE  up'[i].n \in DOMAIN lines'
  <2>1. CASE up' = up
    <3>1. up[i].n \in DOMAIN lines
      BY <2>1, <1>2, <1>5 DEF FramesInv
    <3> QED
      BY <3>1, <2>1, <1>1
  <2>2. CASE up' = up \o <<f>>
    <3>1. /\ \A l \in DOMAIN up : up'[l] = up[l]
          /\ up'[Len(up) + 1] = f /\ (i \in DOMAIN up \/ i = Len(up) + 1)
      <4>1. up \in Seq(UpFrame) /\ f \in UpFrame /\ i \in DOMAIN (up \o <<f>>)
        BY <1>1, <1>2, <2>2
      <4>2. /\ \A l \in DOMAIN up : (up \o <<f>>)[l] = up[l]
            /\ (up \o <<f>>)[Len(up) + 1] = f /\ (i \in DOMAIN up \/ i = Len(up) + 1)
        BY <4>1, OneMore
      <4> QED
        BY <4>2, <2>2
    <3>2. CASE i = Len(up) + 1
      BY <3>1, <3>2, <1>4, <1>1
    <3>3. CASE i \in DOMAIN up
      <4>1. up'[i] = up[i]
        BY <3>1, <3>3
      <4>2. up[i].n \in DOMAIN lines
        BY <3>3, <4>1, <1>2, <1>5 DEF FramesInv
      <4> QED
        BY <4>1, <4>2, <1>1
    <3> QED
      BY <3>1, <3>2, <3>3
  <2> QED
    BY <2>1, <2>2, <1>3
<1>6. \A m \in DOMAIN lines : m \in DOMAIN lines'
  BY <1>1
<1>7. \A i \in DOMAIN inbox' : inbox'[i].t = "line" => inbox'[i].n \in DOMAIN lines'
  BY <1>1, <1>2, <1>6 DEF FramesInv
<1>8. \A m \in 0 .. Len(lines) : m \in 0 .. Len(lines')
  BY <1>1
<1>9. \A c \in Conns : \A i \in DOMAIN down'[c] :
        /\ down'[c][i].t = "ack" => down'[c][i].n \in 0 .. Len(lines')
        /\ down'[c][i].t = "answer" => down'[c][i].n \in DOMAIN lines'
  BY <1>2, <1>6, <1>8 DEF FramesInv
<1> QED
  BY <1>3, <1>5, <1>7, <1>9 DEF FramesInv

\* The types, part by part.
TLines == clock \in 1 .. MaxTime /\ clock > Start /\ lines \in Seq(Line) /\ Len(lines) <= MaxLines
THost ==
  /\ host \in {"up", "shutting", "leaving", "done"}
  /\ buf \subseteq DOMAIN lines /\ pending \subseteq DOMAIN lines
  /\ lastTurnEnd \in 0 .. Len(lines) /\ lastAck \in 0 .. Len(lines)
  /\ inFlight \in BOOLEAN /\ initReq \in Conns \cup {None} /\ initCached \in BOOLEAN
TLink ==
  /\ writer \in Conns \cup {None} /\ detachedAt \in 0 .. MaxTime
  /\ (writer = None <=> detachedAt # 0) \/ host = "done"
  /\ exitTold \in BOOLEAN /\ handler \in [Conns -> {"none", "hello", "loop", "over"}]
  /\ replaced \subseteq Conns
TCli ==
  /\ turns \in Nat /\ open \subseteq DOMAIN lines /\ inits \in Seq(Conns)
  /\ exitAt \in 0 .. MaxTime /\ doubled \in BOOLEAN
TPath == down \in [Conns -> Seq(DownFrame)] /\ up \in Seq(UpFrame) /\ inbox \in Seq(UpFrame)
TEngine ==
  /\ epoch \in Conns
  /\ engine \in {"connecting", "handshake", "restoring", "live", "dead", "gone"}
  /\ since \in 0 .. MaxTime /\ unacked \in 0 .. AckEvery /\ lastSeq \in 0 .. Len(lines)
TView ==
  /\ skip \subseteq DOMAIN lines /\ timeline \in Seq(DOMAIN lines) /\ asks \subseteq DOMAIN lines
  /\ working \in BOOLEAN /\ sends \in 0 .. MaxSends /\ crossed \in BOOLEAN

LEMMA TypeParts ==
  /\ TypeInv => TLines /\ THost /\ TLink /\ TCli /\ TPath /\ TEngine /\ TView /\ FramesInv
  /\ TLines' /\ THost' /\ TLink' /\ TCli' /\ TPath' /\ TEngine' /\ TView' /\ FramesInv' => TypeInv'
BY DEF TypeInv, TypeOK, TLines, THost, TLink, TCli, TPath, TEngine, TView


\* The steps of the clock, the CLI and the host keep the types.
LEMMA HostTypes ==
  ASSUME Inv, Tick \/ Cli \/ HostStep
  PROVE  TypeInv'
<1>1. TypeInv /\ ConnInv /\ EngineInv /\ TimeInv
  BY DEF Inv
<1>2. TLines /\ THost /\ TLink /\ TCli /\ TPath /\ TEngine /\ TView /\ FramesInv
  BY <1>1, TypeParts
<1>3. /\ MaxTime \in Nat /\ MaxLines \in Nat /\ MaxEngines \in Nat
      /\ lines \in Seq(Line) /\ Len(lines) \in Nat /\ DOMAIN lines = 1 .. Len(lines)
  BY <1>2, LenProperties, ConstantsAssumption DEF TLines
<1>4. CASE Tick
  <2>1. FramesInv'
    BY <1>1, <1>4, SameDown, FramesFromBefore DEF Tick
  <2>20. TLines'
    BY <1>2, <1>3, <1>4 DEF TLines, Tick, Start
  <2>21. THost'
    BY <1>2, <1>4 DEF THost, Tick, hostVars, cliVars, viewVars
  <2>22. TLink'
    BY <1>2, <1>4 DEF TLink, Tick, hostVars, cliVars, viewVars
  <2>23. TCli'
    BY <1>2, <1>4 DEF TCli, Tick, hostVars, cliVars, viewVars
  <2>24. TPath'
    BY <1>2, <1>4 DEF TPath, Tick, hostVars, cliVars, viewVars
  <2>25. TEngine'
    BY <1>2, <1>4 DEF TEngine, Tick, hostVars, cliVars, viewVars
  <2>26. TView'
    BY <1>2, <1>4 DEF TView, Tick, hostVars, cliVars, viewVars
  <2> QED
    BY <2>20, <2>21, <2>22, <2>23, <2>24, <2>25, <2>26, <2>1, TypeParts
<1>5. CASE CliInitAnswer \/ CliMessage \/ CliAsk \/ CliResult
  <2>1. PICK kind, wrote, to : Printed(kind, wrote, to)
    BY <1>1, <1>5, CliPrints
  <2>2. FramesInv' /\ up' \in Seq(UpFrame)
    BY <1>1, <2>1, FramesPrinted
  <2>3. /\ lines' \in Seq(Line) /\ Len(lines') = Len(lines) + 1 /\ Len(lines) + 1 <= MaxLines
        /\ DOMAIN lines' = 1 .. Len(lines) + 1
    BY <1>1, <2>1, PrintedLines
  <2>4. /\ clock' = clock /\ host' = host /\ lastAck' = lastAck /\ writer' = writer
        /\ detachedAt' = detachedAt /\ exitTold' = exitTold /\ handler' = handler /\ inits' = inits
        /\ exitAt' = exitAt /\ doubled' = doubled /\ down' = down /\ epoch' = epoch
        /\ engine' = engine /\ since' = since /\ skip' = skip /\ timeline' = timeline /\ asks' = asks
        /\ working' = working /\ inbox' = inbox /\ unacked' = unacked /\ lastSeq' = lastSeq
        /\ sends' = sends /\ replaced' = replaced
    BY <2>1 DEF Printed, OnCliMessage, viewVars
  <2>5. /\ pending' \subseteq pending \cup {Len(lines) + 1} /\ buf' = buf \cup {Len(lines) + 1}
        /\ open' \subseteq open \cup {Len(lines) + 1} /\ lastTurnEnd' \in {lastTurnEnd, Len(lines) + 1}
        /\ turns' \in Nat /\ to \in 0 .. MaxEngines
        /\ initReq' \in {initReq, None} /\ inFlight' \in BOOLEAN /\ crossed' \in BOOLEAN
        /\ initCached' \in BOOLEAN
    BY <2>1, <1>2 DEF Printed, OnCliMessage, InFlightAfter, THost, TView
  <2>6. DOMAIN lines \subseteq DOMAIN lines' /\ Len(lines) + 1 \in DOMAIN lines'
        /\ \A m \in 0 .. Len(lines) : m \in 0 .. Len(lines')
        /\ Len(lines) + 1 \in 0 .. Len(lines')
    BY <1>3, <2>3
  <2>7. timeline' \in Seq(DOMAIN lines')
    BY <1>2, <2>4, <2>6, SeqMonotonic DEF TView
  <2>20. TLines'
    BY <1>2, <2>3, <2>4 DEF TLines, Start
  <2>21. THost'
    BY <1>2, <2>4, <2>5, <2>6 DEF THost
  <2>22. TLink'
    BY <1>2, <2>4 DEF TLink
  <2>23. TCli'
    BY <1>2, <2>4, <2>5, <2>6 DEF TCli
  <2>24. TPath'
    BY <1>2, <2>2, <2>4 DEF TPath
  <2>25. TEngine'
    BY <1>2, <2>4, <2>6 DEF TEngine
  <2>26. TView'
    BY <1>2, <2>4, <2>5, <2>6, <2>7 DEF TView
  <2> QED
    BY <2>20, <2>21, <2>22, <2>23, <2>24, <2>25, <2>26, <2>2, TypeParts
<1>6. CASE CliExits
  <2>1. Only("exit") \in UpFrame /\ Only("exit").t # "line"
    BY UpFrames
  <2>2. FramesInv' /\ up' \in Seq(UpFrame)
    <3>1. CASE host = "up" /\ writer # None
      BY <1>1, <1>6, <2>1, <3>1, SameDown, FramesWithOneMore DEF CliExits
    <3>2. CASE ~(host = "up" /\ writer # None)
      BY <1>1, <1>2, <1>6, <3>2, SameDown, FramesFromBefore DEF CliExits, TPath
    <3> QED
      BY <3>1, <3>2
  <2>20. TLines'
    BY <1>2, <1>6 DEF TLines, CliExits, viewVars
  <2>21. THost'
    BY <1>2, <1>6 DEF THost, CliExits, viewVars
  <2>22. TLink'
    BY <1>2, <1>6 DEF TLink, CliExits, viewVars
  <2>23. TCli'
    BY <1>2, <1>6 DEF TCli, TLines, CliExits
  <2>24. TPath'
    BY <1>2, <1>6, <2>2 DEF TPath, CliExits
  <2>25. TEngine'
    BY <1>2, <1>6 DEF TEngine, CliExits, viewVars
  <2>26. TView'
    BY <1>2, <1>6 DEF TView, CliExits, viewVars
  <2> QED
    BY <2>20, <2>21, <2>22, <2>23, <2>24, <2>25, <2>26, <2>2, TypeParts
<1>7. CASE ExitFinish \/ Orphaned
  <2>1. FramesInv'
    BY <1>1, <1>7, SameDown, FramesFromBefore DEF ExitFinish, Orphaned
  <2>2. host' \in {"shutting", "leaving", "done"} /\ (host = "done" => host' = "done")
    BY <1>7 DEF ExitFinish, Orphaned, Stopping
  <2>3. UNCHANGED <<clock, lines, buf, pending, lastTurnEnd, lastAck, writer, detachedAt, inFlight,
                    initReq, initCached, exitTold, handler, cliVars, down, up, epoch, engine,
                    viewVars, inbox, unacked, lastSeq, sends, replaced, crossed>>
    BY <1>7 DEF ExitFinish, Orphaned
  <2>20. TLines'
    BY <1>2, <2>2, <2>3 DEF TLines, cliVars, viewVars
  <2>21. THost'
    BY <1>2, <2>2, <2>3 DEF THost, cliVars, viewVars
  <2>22. TLink'
    BY <1>2, <2>2, <2>3 DEF TLink, cliVars, viewVars
  <2>23. TCli'
    BY <1>2, <2>2, <2>3 DEF TCli, cliVars, viewVars
  <2>24. TPath'
    BY <1>2, <2>2, <2>3 DEF TPath, cliVars, viewVars
  <2>25. TEngine'
    BY <1>2, <2>2, <2>3 DEF TEngine, cliVars, viewVars
  <2>26. TView'
    BY <1>2, <2>2, <2>3 DEF TView, cliVars, viewVars
  <2> QED
    BY <2>20, <2>21, <2>22, <2>23, <2>24, <2>25, <2>26, <2>1, TypeParts
<1>8. CASE ShutdownEnds
  <2>1. Only("bye") \in UpFrame /\ Only("bye").t # "line"
    BY UpFrames
  <2>2. FramesInv' /\ up' \in Seq(UpFrame)
    BY <1>1, <1>8, <2>1, SameDown, FramesWithOneMore DEF ShutdownEnds
  <2>20. TLines'
    BY <1>2, <1>8 DEF TLines, ShutdownEnds, viewVars
  <2>21. THost'
    BY <1>2, <1>8 DEF THost, ShutdownEnds, viewVars
  <2>22. TLink'
    BY <1>2, <1>8 DEF TLink, ShutdownEnds, viewVars
  <2>23. TCli'
    BY <1>2, <1>8 DEF TCli, TLines, ShutdownEnds
  <2>24. TPath'
    BY <1>2, <1>8, <2>2 DEF TPath, ShutdownEnds
  <2>25. TEngine'
    BY <1>2, <1>8 DEF TEngine, ShutdownEnds, viewVars
  <2>26. TView'
    BY <1>2, <1>8 DEF TView, ShutdownEnds, viewVars
  <2> QED
    BY <2>20, <2>21, <2>22, <2>23, <2>24, <2>25, <2>26, <2>2, TypeParts
<1>9. ASSUME NEW c \in Conns, Attach(c)
      PROVE  TypeInv'
  <2>1. FramesInv' /\ up' \in Seq(UpFrame)
    <3>1. CASE c = epoch /\ Alive
      <4>1. /\ up' \in Seq(UpFrame) /\ \A i \in DOMAIN up' : up'[i].t = "line" => up'[i].n \in DOMAIN lines
        BY <1>1, <1>9, <3>1, AttachPath
      <4>2. lines' = lines /\ inbox' = inbox /\ down' = down
        BY <1>9 DEF Attach
      <4> QED
        BY <1>2, <4>1, <4>2 DEF FramesInv
    <3>2. CASE ~(c = epoch /\ Alive)
      BY <1>1, <1>2, <1>9, <3>2, SameDown, FramesFromBefore DEF Attach, TPath
    <3> QED
      BY <3>1, <3>2
  <2>2. c # None
    BY ConstantsAssumption DEF Conns
  <2>3. /\ handler' = [handler EXCEPT ![c] = "loop"] /\ exitTold' = (exitTold \/ Exited)
        /\ writer' = c /\ detachedAt' = 0 /\ replaced' \in {replaced, replaced \cup {c}}
        /\ UNCHANGED <<clock, lines, host, buf, pending, lastTurnEnd, lastAck, inFlight, initReq,
                     initCached, cliVars, down, epoch, engine, viewVars, inbox, unacked,
                     lastSeq, sends, crossed>>
    BY <1>9 DEF Attach
  <2>20. TLines'
    BY <1>2, <2>3 DEF TLines, cliVars, viewVars
  <2>21. THost'
    BY <1>2, <2>3 DEF THost, cliVars, viewVars
  <2>22. TLink'
    BY <1>2, <1>3, <2>2, <2>3 DEF TLink
  <2>23. TCli'
    BY <1>2, <2>3 DEF TCli, cliVars, viewVars
  <2>24. TPath'
    BY <1>2, <2>1, <2>3 DEF TPath
  <2>25. TEngine'
    BY <1>2, <2>3 DEF TEngine, cliVars, viewVars
  <2>26. TView'
    BY <1>2, <2>3 DEF TView, cliVars, viewVars
  <2> QED
    BY <2>20, <2>21, <2>22, <2>23, <2>24, <2>25, <2>26, <2>1, TypeParts
<1>10. ASSUME NEW c \in Conns, OnInitialize(c)
       PROVE  TypeInv'
  <2>1. down' \in [Conns -> Seq(DownFrame)] /\ DownFrom
    BY <1>1, <1>10, FrameTaken DEF OnInitialize, DownFrom
  <2>2. Cached(c) \in UpFrame /\ Cached(c).t # "line"
    BY UpFrames
  <2>3. FramesInv' /\ up' \in Seq(UpFrame)
    <3>1. CASE initCached
      BY <1>1, <1>10, <2>1, <2>2, <3>1, FramesWithOneMore DEF OnInitialize
    <3>2. CASE ~initCached
      BY <1>1, <1>2, <1>10, <2>1, <3>2, FramesFromBefore DEF OnInitialize, TPath
    <3> QED
      BY <3>1, <3>2
  <2>4. initReq' \in Conns \cup {None} /\ inits' \in Seq(Conns)
    <3>1. Append(inits, c) \in Seq(Conns)
      BY <1>2, AppendProperties DEF TCli
    <3> QED
      BY <1>2, <1>10, <3>1 DEF OnInitialize, TCli, THost
  <2>20. TLines'
    BY <1>2, <1>10, <2>4 DEF TLines, OnInitialize, viewVars
  <2>21. THost'
    BY <1>2, <1>10, <2>4 DEF THost, OnInitialize, viewVars
  <2>22. TLink'
    BY <1>2, <1>10, <2>4 DEF TLink, OnInitialize, viewVars
  <2>23. TCli'
    BY <1>2, <1>10, <2>4 DEF TCli, OnInitialize, viewVars
  <2>24. TPath'
    BY <1>2, <1>10, <2>1, <2>3 DEF TPath, OnInitialize
  <2>25. TEngine'
    BY <1>2, <1>10, <2>4 DEF TEngine, OnInitialize, viewVars
  <2>26. TView'
    BY <1>2, <1>10, <2>4 DEF TView, OnInitialize, viewVars
  <2> QED
    BY <2>20, <2>21, <2>22, <2>23, <2>24, <2>25, <2>26, <2>3, TypeParts
<1>11. ASSUME NEW c \in Conns, OnUser(c)
       PROVE  TypeInv'
  <2>1. down' \in [Conns -> Seq(DownFrame)] /\ DownFrom
    BY <1>1, <1>11, FrameTaken DEF OnUser, DownFrom
  <2>2. FramesInv'
    BY <1>1, <1>11, <2>1, FramesFromBefore DEF OnUser
  <2>20. TLines'
    BY <1>2, <1>11 DEF TLines, OnUser, viewVars
  <2>21. THost'
    BY <1>2, <1>11 DEF THost, OnUser, viewVars
  <2>22. TLink'
    BY <1>2, <1>11 DEF TLink, OnUser, viewVars
  <2>23. TCli'
    BY <1>2, <1>11 DEF TCli, OnUser, viewVars
  <2>24. TPath'
    BY <1>2, <1>11, <2>1 DEF TPath, OnUser
  <2>25. TEngine'
    BY <1>2, <1>11 DEF TEngine, OnUser, viewVars
  <2>26. TView'
    BY <1>2, <1>11 DEF TView, OnUser, viewVars
  <2> QED
    BY <2>20, <2>21, <2>22, <2>23, <2>24, <2>25, <2>26, <2>2, TypeParts
<1>12. ASSUME NEW c \in Conns, OnAnswer(c)
       PROVE  TypeInv'
  <2>1. down' \in [Conns -> Seq(DownFrame)] /\ DownFrom
    BY <1>1, <1>12, FrameTaken DEF OnAnswer, DownFrom
  <2>2. FramesInv'
    BY <1>1, <1>12, <2>1, FramesFromBefore DEF OnAnswer
  <2>20. TLines'
    BY <1>2, <1>12 DEF TLines, OnAnswer, viewVars
  <2>21. THost'
    BY <1>2, <1>12 DEF THost, OnAnswer, PendingWithout
  <2>22. TLink'
    BY <1>2, <1>12 DEF TLink, OnAnswer, viewVars
  <2>23. TCli'
    BY <1>2, <1>12 DEF TCli, OnAnswer, viewVars
  <2>24. TPath'
    BY <1>2, <1>12, <2>1 DEF TPath, OnAnswer
  <2>25. TEngine'
    BY <1>2, <1>12 DEF TEngine, OnAnswer, viewVars
  <2>26. TView'
    BY <1>2, <1>12 DEF TView, OnAnswer, viewVars
  <2> QED
    BY <2>20, <2>21, <2>22, <2>23, <2>24, <2>25, <2>26, <2>2, TypeParts
<1>13. ASSUME NEW c \in Conns, OnAck(c)
       PROVE  TypeInv'
  <2>1. /\ down' \in [Conns -> Seq(DownFrame)] /\ DownFrom /\ 1 \in DOMAIN down[c]
        /\ Head(down[c]) = down[c][1] /\ down[c][1].t = "ack"
    BY <1>1, <1>13, FrameTaken DEF OnAck, DownFrom
  <2>2. FramesInv'
    BY <1>1, <1>13, <2>1, FramesFromBefore DEF OnAck
  <2>3. Head(down[c]).n \in 0 .. Len(lines)
    BY <1>2, <2>1 DEF FramesInv
  <2>4. lastAck' \in 0 .. Len(lines) /\ buf' \subseteq buf
    BY <1>2, <1>13, <2>3 DEF OnAck, THost, Larger
  <2>20. TLines'
    BY <1>2, <1>13, <2>4 DEF TLines, OnAck, cliVars, viewVars
  <2>21. THost'
    BY <1>2, <1>13, <2>4 DEF THost, OnAck, cliVars, viewVars
  <2>22. TLink'
    BY <1>2, <1>13, <2>4 DEF TLink, OnAck, cliVars, viewVars
  <2>23. TCli'
    BY <1>2, <1>13, <2>4 DEF TCli, OnAck, cliVars, viewVars
  <2>24. TPath'
    BY <1>2, <1>13, <2>1 DEF TPath, OnAck
  <2>25. TEngine'
    BY <1>2, <1>13, <2>4 DEF TEngine, OnAck, cliVars, viewVars
  <2>26. TView'
    BY <1>2, <1>13, <2>4 DEF TView, OnAck, cliVars, viewVars
  <2> QED
    BY <2>20, <2>21, <2>22, <2>23, <2>24, <2>25, <2>26, <2>2, TypeParts
<1>14. ASSUME NEW c \in Conns, OnDetach(c) \/ OnEof(c)
       PROVE  TypeInv'
  <2>1. Leave(c) /\ down' \in [Conns -> Seq(DownFrame)] /\ DownFrom
    BY <1>1, <1>14, Leaves
  <2>2. FramesInv'
    BY <1>1, <2>1, FramesFromBefore DEF Leave
  <2>3. c # None
    BY ConstantsAssumption DEF Conns
  <2>20. TLines'
    BY <1>2, <2>1 DEF TLines, Leave, cliVars, viewVars
  <2>21. THost'
    BY <1>2, <2>1 DEF THost, Leave, cliVars, viewVars
  <2>22. TLink'
    BY <1>2, <1>3, <2>1, <2>3 DEF TLink, TLines, Leave, DetachTime, Start
  <2>23. TCli'
    BY <1>2, <2>1 DEF TCli, Leave, cliVars, viewVars
  <2>24. TPath'
    BY <1>2, <2>1 DEF TPath, Leave
  <2>25. TEngine'
    BY <1>2, <2>1 DEF TEngine, Leave, cliVars, viewVars
  <2>26. TView'
    BY <1>2, <2>1 DEF TView, Leave, cliVars, viewVars
  <2> QED
    BY <2>20, <2>21, <2>22, <2>23, <2>24, <2>25, <2>26, <2>2, TypeParts
<1>15. ASSUME NEW c \in Conns, OnShutdown(c)
       PROVE  TypeInv'
  <2>1. down' \in [Conns -> Seq(DownFrame)] /\ DownFrom /\ host # "done"
    BY <1>1, <1>15, FrameTaken DEF OnShutdown, DownFrom
  <2>2. FramesInv'
    BY <1>1, <1>15, <2>1, FramesFromBefore DEF OnShutdown
  <2>20. TLines'
    BY <1>2, <1>15, <2>1 DEF TLines, OnShutdown, cliVars, viewVars
  <2>21. THost'
    BY <1>2, <1>15 DEF THost, OnShutdown, Stopping
  <2>22. TLink'
    BY <1>2, <1>15, <2>1 DEF TLink, OnShutdown, cliVars, viewVars
  <2>23. TCli'
    BY <1>2, <1>15, <2>1 DEF TCli, OnShutdown, cliVars, viewVars
  <2>24. TPath'
    BY <1>2, <1>15, <2>1 DEF TPath, OnShutdown
  <2>25. TEngine'
    BY <1>2, <1>15, <2>1 DEF TEngine, OnShutdown, cliVars, viewVars
  <2>26. TView'
    BY <1>2, <1>15, <2>1 DEF TView, OnShutdown, cliVars, viewVars
  <2> QED
    BY <2>20, <2>21, <2>22, <2>23, <2>24, <2>25, <2>26, <2>2, TypeParts
<1> QED
  BY <1>4, <1>5, <1>6, <1>7, <1>8, <1>9, <1>10, <1>11, <1>12, <1>13, <1>14, <1>15
  DEF Cli, HostStep

\* What is restored: the messages of the transcript, in order.
BeforeSince == {n \in MessageLines : since = 0 \/ lines[n].wrote <= since}

LEMMA InOrderOfLines ==
  ASSUME TypeInv, NEW ns \in SUBSET DOMAIN lines
  PROVE  /\ IsFiniteSet(ns) /\ ns \in SUBSET Nat
         /\ InOrder(ns) \in Seq(DOMAIN lines) /\ DOMAIN InOrder(ns) = 1 .. Cardinality(ns)
         /\ Cardinality(ns) \in Nat
         /\ \A i, j \in DOMAIN InOrder(ns) : i < j => InOrder(ns)[i] < InOrder(ns)[j]
         /\ ToSet(InOrder(ns)) = ns
<1>1. Len(lines) \in Nat /\ DOMAIN lines = 1 .. Len(lines)
  BY ComingFacts
<1>2. ns \in SUBSET Nat /\ IsFiniteSet(ns)
  <2>1. ns \in SUBSET (1 .. Len(lines)) /\ IsFiniteSet(1 .. Len(lines))
    BY <1>1, FS_Interval
  <2> QED
    BY <2>1, FS_Subset
<1> DEFINE k == Cardinality(ns)
<1>3. /\ k \in Nat /\ InOrder(ns) \in [1 .. k -> ns]
      /\ \A i, j \in 1 .. k : i < j => InOrder(ns)[i] < InOrder(ns)[j]
      /\ \A n \in ns : \E i \in 1 .. k : InOrder(ns)[i] = n
  BY <1>2, InOrderIncreases
<1>4. InOrder(ns) \in [1 .. k -> DOMAIN lines] /\ DOMAIN InOrder(ns) = 1 .. k
  BY <1>3
<1>5. InOrder(ns) \in Seq(DOMAIN lines)
  BY <1>3, <1>4, SeqDef
<1>6. ToSet(InOrder(ns)) = ns
  <2>1. \A n \in ToSet(InOrder(ns)) : n \in ns
    BY <1>3, <1>4 DEF ToSet
  <2>2. \A n \in ns : n \in ToSet(InOrder(ns))
    BY <1>3, <1>4 DEF ToSet
  <2> QED
    BY <2>1, <2>2
<1> QED
  BY <1>2, <1>3, <1>4, <1>5, <1>6

LEMMA RestoredInOrder ==
  ASSUME TypeInv
  PROVE  /\ Restored \in Seq(DOMAIN lines) /\ ToSet(Restored) = BeforeSince
         /\ \A i, j \in DOMAIN Restored : i < j => Restored[i] < Restored[j]
<1>1. Restored = InOrder(BeforeSince) /\ BeforeSince \in SUBSET DOMAIN lines
  BY DEF Restored, BeforeSince, MessageLines
<1> QED
  BY <1>1, InOrderOfLines

\* An engine that reads a hello has one.
LEMMA HelloIsRead ==
  ASSUME TypeInv, ConnInv, EngineInv, ReadHello
  PROVE  /\ handler[epoch] = "loop" /\ up # << >> /\ Head(up).t = "hello" /\ up[1].t = "hello"
         /\ Head(up) = up[1]
         /\ Head(up).since \in 0 .. MaxTime /\ Head(up).busy \in BOOLEAN
         /\ up' = Tail(up) /\ up' \in Seq(UpFrame) /\ inbox = << >> /\ inbox' = << >>
         /\ \A i \in DOMAIN up' : i + 1 \in DOMAIN up /\ up'[i] = up[i + 1]
         /\ PathLoses(1) /\ Path[1].t = "hello"
<1>1. engine = "connecting" /\ up # << >> /\ up' = Tail(up) /\ inbox' = inbox
  BY DEF ReadHello
<1>2. handler[epoch] = "loop" /\ Head(up).t = "hello" /\ inbox = << >>
  BY <1>1 DEF ConnInv, EngineInv, Alive
<1>3. up \in Seq(UpFrame)
  BY DEF TypeInv, TypeOK
<1>4. /\ Head(up) = up[1] /\ 1 \in DOMAIN up /\ up[1] \in UpFrame /\ up' \in Seq(UpFrame)
      /\ \A i \in DOMAIN up' : i + 1 \in DOMAIN up /\ up'[i] = up[i + 1]
      /\ Len(up') = Len(up) - 1 /\ DOMAIN up = 1 .. Len(up) /\ DOMAIN up' = 1 .. Len(up')
      /\ Len(up) \in Nat
  BY <1>1, <1>3, Indices
<1>5. Head(up).since \in 0 .. MaxTime /\ Head(up).busy \in BOOLEAN
  BY <1>2, <1>4, UpFrames
<1>6. Path = up /\ Path' = up'
  BY <1>1, <1>2, <1>3, <1>4, ConcatEmptySeq DEF Path
<1>7. PathLoses(1)
  BY <1>4, <1>6 DEF PathLoses
<1> QED
  BY <1>1, <1>2, <1>4, <1>5, <1>6, <1>7

\* The steps of the engine keep the types.
LEMMA EngineTypes ==
  ASSUME Inv, EngineStep
  PROVE  TypeInv'
<1>1. TypeInv /\ ConnInv /\ EngineInv /\ TimeInv
  BY DEF Inv
<1>2. TLines /\ THost /\ TLink /\ TCli /\ TPath /\ TEngine /\ TView /\ FramesInv
  BY <1>1, TypeParts
<1>3. /\ MaxTime \in Nat /\ MaxLines \in Nat /\ MaxEngines \in Nat /\ MaxSends \in Nat /\ AckEvery \in Nat
      /\ lines \in Seq(Line) /\ Len(lines) \in Nat /\ DOMAIN lines = 1 .. Len(lines)
  BY <1>2, LenProperties, ConstantsAssumption DEF TLines
<1>4. CASE StartEngine
  <2>1. FramesInv'
    BY <1>1, <1>4, SameDown, FramesFromBefore DEF StartEngine
  <2>2. epoch' \in Conns
    BY <1>2, <1>3, <1>4 DEF StartEngine, TEngine, Conns
  <2>20. TLines'
    BY <1>2, <1>4, <2>2 DEF TLines, StartEngine, hostVars, cliVars, viewVars
  <2>21. THost'
    BY <1>2, <1>4, <2>2 DEF THost, StartEngine, hostVars, cliVars, viewVars
  <2>22. TLink'
    BY <1>2, <1>4, <2>2 DEF TLink, StartEngine, hostVars, cliVars, viewVars
  <2>23. TCli'
    BY <1>2, <1>4, <2>2 DEF TCli, StartEngine, hostVars, cliVars, viewVars
  <2>24. TPath'
    BY <1>2, <1>4, <2>2 DEF TPath, StartEngine, hostVars, cliVars, viewVars
  <2>25. TEngine'
    BY <1>2, <1>4, <2>2 DEF TEngine, StartEngine, hostVars, cliVars, viewVars
  <2>26. TView'
    BY <1>2, <1>4, <2>2 DEF TView, StartEngine, hostVars, cliVars, viewVars
  <2> QED
    BY <2>20, <2>21, <2>22, <2>23, <2>24, <2>25, <2>26, <2>1, TypeParts
<1>5. CASE ReadHello
  <2>1. /\ Head(up).since \in 0 .. MaxTime /\ Head(up).busy \in BOOLEAN /\ up' \in Seq(UpFrame)
        /\ \A i \in DOMAIN up' : i + 1 \in DOMAIN up /\ up'[i] = up[i + 1]
    BY <1>1, <1>5, HelloIsRead
  <2>2. Only("init") \in DownFrame /\ Only("init").t = "init"
    BY DownFrames
  <2>3. down' = ToHost(<<Only("init")>>) /\ lines' = lines /\ inbox' = inbox
    BY <1>5 DEF ReadHello
  <2>4. FramesInv' /\ down' \in [Conns -> Seq(DownFrame)]
    BY <1>1, <2>1, <2>2, <2>3, FramesSent
  <2>20. TLines'
    BY <1>2, <1>5, <2>1 DEF TLines, ReadHello, hostVars, cliVars
  <2>21. THost'
    BY <1>2, <1>5, <2>1 DEF THost, ReadHello, hostVars, cliVars
  <2>22. TLink'
    BY <1>2, <1>5, <2>1 DEF TLink, ReadHello, hostVars, cliVars
  <2>23. TCli'
    BY <1>2, <1>5, <2>1 DEF TCli, ReadHello, hostVars, cliVars
  <2>24. TPath'
    BY <1>2, <2>1, <2>3, <2>4 DEF TPath
  <2>25. TEngine'
    BY <1>2, <1>5, <2>1 DEF TEngine, ReadHello, hostVars, cliVars
  <2>26. TView'
    BY <1>2, <1>5, <2>1 DEF TView, ReadHello, hostVars, cliVars
  <2> QED
    BY <2>20, <2>21, <2>22, <2>23, <2>24, <2>25, <2>26, <2>4, TypeParts
<1>6. CASE Hold
  <2>1. /\ up' \in Seq(UpFrame) /\ inbox' \in Seq(UpFrame)
        /\ lastSeq' \in 0 .. Len(lines) /\ unacked' \in 0 .. AckEvery /\ Acknowledges
        /\ \A i \in DOMAIN up' : \E j \in DOMAIN up : up'[i] = up[j]
        /\ \A i \in DOMAIN inbox' : \/ \E j \in DOMAIN inbox : inbox'[i] = inbox[j]
                                    \/ \E j \in DOMAIN up : inbox'[i] = up[j]
    BY <1>1, <1>6, HoldTakes
  <2>2. lines' = lines
    BY <1>6 DEF Hold
  <2>3. FramesInv' /\ down' \in [Conns -> Seq(DownFrame)]
    BY <1>1, <2>1, <2>2, FramesAcknowledged
  <2>20. TLines'
    BY <1>2, <1>6, <2>1 DEF TLines, Hold, hostVars, cliVars, viewVars
  <2>21. THost'
    BY <1>2, <1>6, <2>1 DEF THost, Hold, hostVars, cliVars, viewVars
  <2>22. TLink'
    BY <1>2, <1>6, <2>1 DEF TLink, Hold, hostVars, cliVars, viewVars
  <2>23. TCli'
    BY <1>2, <1>6, <2>1 DEF TCli, Hold, hostVars, cliVars, viewVars
  <2>24. TPath'
    BY <1>2, <2>1, <2>3 DEF TPath
  <2>25. TEngine'
    BY <1>2, <1>6, <2>1 DEF TEngine, Hold, hostVars, cliVars, viewVars
  <2>26. TView'
    BY <1>2, <1>6, <2>1 DEF TView, Hold, hostVars, cliVars, viewVars
  <2> QED
    BY <2>20, <2>21, <2>22, <2>23, <2>24, <2>25, <2>26, <2>3, TypeParts
<1>7. CASE Consume
  <2>1. /\ up' \in Seq(UpFrame) /\ inbox' \in Seq(UpFrame)
        /\ lastSeq' \in 0 .. Len(lines) /\ unacked' \in 0 .. AckEvery /\ Acknowledges
        /\ \A i \in DOMAIN up' : \E j \in DOMAIN up : up'[i] = up[j]
        /\ \A i \in DOMAIN inbox' : \/ \E j \in DOMAIN inbox : inbox'[i] = inbox[j]
                                    \/ \E j \in DOMAIN up : inbox'[i] = up[j]
    BY <1>1, <1>7, ConsumeTakes
  <2>2. lines' = lines
    BY <1>7 DEF Consume
  <2>3. FramesInv' /\ down' \in [Conns -> Seq(DownFrame)]
    BY <1>1, <2>1, <2>2, FramesAcknowledged
  <2>4. /\ Process(Path[1]) /\ Path[1] \in UpFrame /\ engine = "live"
        /\ UNCHANGED <<clock, lines, hostVars, handler, cliVars, epoch, since, skip, sends, replaced, crossed>>
    BY <1>1, <1>7, ConsumeTakes DEF Consume
  <2>5. Path[1].t = "line" => Path[1].n \in DOMAIN lines
    <3>1. PathLoses(1)
      BY <1>1, <1>7, ConsumeTakes
    <3>2. 1 \in DOMAIN Path
      BY <3>1, <1>2, PathFacts DEF PathLoses, TPath
    <3> QED
      BY <3>2, <1>1, ComingFacts DEF Coming
  <2>6. timeline' \in Seq(DOMAIN lines)
    <3>1. Path[1].t = "line" => Append(timeline, Path[1].n) \in Seq(DOMAIN lines)
      BY <1>2, <2>5, AppendProperties DEF TView
    <3>2. timeline' = timeline \/ (Path[1].t = "line" /\ timeline' = Append(timeline, Path[1].n))
      BY <2>4 DEF Process
    <3> QED
      BY <1>2, <3>1, <3>2 DEF TView
  <2>7. asks' \subseteq DOMAIN lines /\ working' \in BOOLEAN
    BY <1>2, <2>4, <2>5 DEF Process, TView
  <2>8. engine' \in {"connecting", "handshake", "restoring", "live", "dead", "gone"}
    BY <2>4 DEF Process
  <2>20. TLines'
    BY <1>2, <2>4 DEF TLines, hostVars, cliVars
  <2>21. THost'
    BY <1>2, <2>4 DEF THost, hostVars, cliVars
  <2>22. TLink'
    BY <1>2, <2>4 DEF TLink, hostVars, cliVars
  <2>23. TCli'
    BY <1>2, <2>4 DEF TCli, hostVars, cliVars
  <2>24. TPath'
    BY <1>2, <2>1, <2>3 DEF TPath
  <2>25. TEngine'
    BY <1>2, <2>1, <2>4, <2>8 DEF TEngine
  <2>26. TView'
    BY <1>2, <2>4, <2>6, <2>7 DEF TView
  <2> QED
    BY <2>20, <2>21, <2>22, <2>23, <2>24, <2>25, <2>26, <2>3, TypeParts
<1>8. CASE Restore
  <2>1. FramesInv'
    BY <1>1, <1>2, <1>8, SameDown, FramesFromBefore DEF Restore
  <2>2. timeline' \in Seq(DOMAIN lines) /\ ToSet(timeline') \subseteq DOMAIN lines
    <3>1. timeline' = Restored
      BY <1>8 DEF Restore
    <3> QED
      BY <3>1, <1>1, RestoredInOrder DEF BeforeSince, MessageLines
  <2>20. TLines'
    BY <1>2, <1>8 DEF TLines, Restore, hostVars, cliVars
  <2>21. THost'
    BY <1>2, <1>8 DEF THost, Restore, hostVars, cliVars
  <2>22. TLink'
    BY <1>2, <1>8 DEF TLink, Restore, hostVars, cliVars
  <2>23. TCli'
    BY <1>2, <1>8 DEF TCli, Restore, hostVars, cliVars
  <2>24. TPath'
    BY <1>2, <1>8 DEF TPath, Restore, hostVars, cliVars
  <2>25. TEngine'
    BY <1>2, <1>8 DEF TEngine, Restore, hostVars, cliVars
  <2>26. TView'
    BY <1>2, <1>8, <2>2 DEF TView, Restore
  <2> QED
    BY <2>20, <2>21, <2>22, <2>23, <2>24, <2>25, <2>26, <2>1, TypeParts
<1>9. CASE SendUser
  <2>1. Only("user") \in DownFrame /\ Only("user").t = "user"
    BY DownFrames
  <2>2. down' = ToHost(<<Only("user")>>) /\ lines' = lines /\ up' = up /\ inbox' = inbox
    BY <1>9 DEF SendUser
  <2>3. FramesInv' /\ down' \in [Conns -> Seq(DownFrame)]
    BY <1>1, <2>1, <2>2, FramesSent
  <2>4. sends' \in 0 .. MaxSends /\ crossed' \in BOOLEAN
    BY <1>2, <1>3, <1>9 DEF SendUser, TView
  <2>20. TLines'
    BY <1>2, <1>9 DEF TLines, SendUser, hostVars, cliVars
  <2>21. THost'
    BY <1>2, <1>9 DEF THost, SendUser, hostVars, cliVars
  <2>22. TLink'
    BY <1>2, <1>9 DEF TLink, SendUser, hostVars, cliVars
  <2>23. TCli'
    BY <1>2, <1>9 DEF TCli, SendUser, hostVars, cliVars
  <2>24. TPath'
    BY <1>2, <2>2, <2>3 DEF TPath
  <2>25. TEngine'
    BY <1>2, <1>9 DEF TEngine, SendUser, hostVars, cliVars
  <2>26. TView'
    BY <1>2, <1>9, <2>4 DEF TView, SendUser
  <2> QED
    BY <2>20, <2>21, <2>22, <2>23, <2>24, <2>25, <2>26, <2>3, TypeParts
<1>10. CASE Answer
  <2>1. PICK n \in asks : asks' = asks \ {n} /\ down' = ToHost(<<With("answer", n)>>)
    BY <1>10 DEF Answer
  <2>2. n \in DOMAIN lines /\ n \in 0 .. MaxLines
    BY <2>1, <1>2, <1>3 DEF TView, TLines
  <2>3. With("answer", n) \in DownFrame /\ With("answer", n).t = "answer" /\ With("answer", n).n = n
    BY <2>2, DownFrames
  <2>4. lines' = lines /\ up' = up /\ inbox' = inbox
    BY <1>10 DEF Answer
  <2>5. FramesInv' /\ down' \in [Conns -> Seq(DownFrame)]
    BY <1>1, <2>1, <2>2, <2>3, <2>4, FramesSent
  <2>20. TLines'
    BY <1>2, <1>10 DEF TLines, Answer, hostVars, cliVars
  <2>21. THost'
    BY <1>2, <1>10 DEF THost, Answer, hostVars, cliVars
  <2>22. TLink'
    BY <1>2, <1>10 DEF TLink, Answer, hostVars, cliVars
  <2>23. TCli'
    BY <1>2, <1>10 DEF TCli, Answer, hostVars, cliVars
  <2>24. TPath'
    BY <1>2, <2>4, <2>5 DEF TPath
  <2>25. TEngine'
    BY <1>2, <1>10 DEF TEngine, Answer, hostVars, cliVars
  <2>26. TView'
    BY <1>2, <1>10, <2>1 DEF TView, Answer
  <2> QED
    BY <2>20, <2>21, <2>22, <2>23, <2>24, <2>25, <2>26, <2>5, TypeParts
<1>11. CASE Kill \/ Detach \/ Sleep
  <2>1. /\ engine' \in {"dead", "gone"} /\ Forget /\ down' \in [Conns -> Seq(DownFrame)]
        /\ \A d \in Conns : d # epoch => down'[d] = down[d]
        /\ \A i \in DOMAIN down'[epoch] :
              \/ i \in DOMAIN down[epoch] /\ down'[epoch][i] = down[epoch][i]
              \/ down'[epoch][i].t \in {"detach", "shutdown"}
    BY <1>1, <1>11, Ends
  <2>2. up' = << >> /\ inbox' = << >> /\ lines' = lines
    BY <2>1 DEF Forget
  <2>3. FramesInv'
    <3>1. ASSUME NEW c \in Conns, NEW i \in DOMAIN down'[c]
          PROVE  /\ down'[c][i].t = "ack" => down'[c][i].n \in 0 .. Len(lines)
                 /\ down'[c][i].t = "answer" => down'[c][i].n \in DOMAIN lines
      <4>1. CASE c # epoch
        BY <4>1, <2>1, <1>2 DEF FramesInv
      <4>2. CASE c = epoch
        <5>1. CASE i \in DOMAIN down[c] /\ down'[c][i] = down[c][i]
          BY <5>1, <1>2 DEF FramesInv
        <5>2. CASE down'[c][i].t \in {"detach", "shutdown"}
          BY <5>2
        <5> QED
          BY <4>2, <5>1, <5>2, <2>1
      <4> QED
        BY <4>1, <4>2
    <3> QED
      BY <2>2, <3>1 DEF FramesInv
  <2>4. << >> \in Seq(UpFrame) /\ << >> \in Seq(DOMAIN lines)
    BY EmptySeq
  <2>20. TLines'
    BY <1>2, <2>1 DEF TLines, Forget, hostVars, cliVars
  <2>21. THost'
    BY <1>2, <2>1 DEF THost, Forget, hostVars, cliVars
  <2>22. TLink'
    BY <1>2, <2>1 DEF TLink, Forget, hostVars, cliVars
  <2>23. TCli'
    BY <1>2, <2>1 DEF TCli, Forget, hostVars, cliVars
  <2>24. TPath'
    BY <2>1, <2>2, <2>4 DEF TPath
  <2>25. TEngine'
    BY <1>2, <1>3, <2>1 DEF TEngine, Forget
  <2>26. TView'
    BY <1>2, <2>1, <2>4 DEF TView, Forget
  <2> QED
    BY <2>20, <2>21, <2>22, <2>23, <2>24, <2>25, <2>26, <2>3, TypeParts
<1> QED
  BY <1>4, <1>5, <1>6, <1>7, <1>8, <1>9, <1>10, <1>11 DEF EngineStep

-----------------------------------------------------------------------------
(* The connections.                                                        *)

LEMMA ConnQuiet ==
  ASSUME ConnInv, UNCHANGED <<handler, writer, epoch, replaced>>,
         host' # "done" => host # "done", Alive' => Alive
  PROVE  ConnInv'
<1>1. Attached' => Attached
  BY DEF Attached
<1> QED
  BY <1>1 DEF ConnInv

LEMMA HostConns ==
  ASSUME Inv, HostStep
  PROVE  ConnInv'
<1>1. TypeInv /\ ConnInv /\ EngineInv
  BY DEF Inv
<1>2. /\ epoch \in Conns /\ handler \in [Conns -> {"none", "hello", "loop", "over"}]
      /\ replaced \subseteq Conns /\ None \notin Conns /\ Conns \in SUBSET Nat
      /\ down \in [Conns -> Seq(DownFrame)]
  BY <1>1, ConstantsAssumption DEF TypeInv, TypeOK, Conns
<1>3. /\ \A c \in Conns : handler[c] = "none" <=> c > epoch
      /\ \A c, d \in Conns : c < d /\ handler[c] = "hello" => handler[d] \in {"hello", "none"}
      /\ writer # None => handler[writer] \in {"loop", "over"}
      /\ host # "done" /\ writer # None /\ handler[epoch] # "hello" => writer = epoch
      /\ Alive => handler[epoch] \in {"hello", "loop"}
      /\ Attached /\ host # "done" => writer = epoch
      /\ replaced = {} /\ host # "done" => \A c \in Conns : handler[c] = "loop" => writer = c
      /\ \A c \in replaced : handler[c] \in {"loop", "over"}
  BY <1>1 DEF ConnInv
<1>4. CASE ExitFinish \/ Orphaned
  BY <1>1, <1>4, ConnQuiet DEF ExitFinish, Orphaned, Alive
<1>5. CASE ShutdownEnds
  <2>1. UNCHANGED <<handler, epoch, engine, replaced>> /\ host' = "done" /\ writer' = None
    BY <1>5 DEF ShutdownEnds
  <2> QED
    BY <1>3, <2>1 DEF ConnInv, Alive, Attached
<1>6. ASSUME NEW c \in Conns, OnInitialize(c) \/ OnUser(c) \/ OnAnswer(c) \/ OnAck(c)
      PROVE  ConnInv'
  BY <1>1, <1>6, ConnQuiet DEF OnInitialize, OnUser, OnAnswer, OnAck, Alive
<1>7. ASSUME NEW c \in Conns, Attach(c)
      PROVE  ConnInv'
  <2>1. /\ host # "done" /\ handler[c] = "hello" /\ \A d \in 1 .. c - 1 : handler[d] # "hello"
        /\ handler' = [handler EXCEPT ![c] = "loop"] /\ writer' = c
        /\ replaced' = (IF writer # None THEN replaced \cup {c} ELSE replaced)
        /\ UNCHANGED <<host, epoch, engine>>
    BY <1>7 DEF Attach
  <2>2. handler'[c] = "loop" /\ \A d \in Conns : d # c => handler'[d] = handler[d]
    BY <1>2, <2>1
  <2>3. \A d \in Conns : d < c => handler[d] # "hello"
    BY <1>2, <2>1 DEF Conns
  <2>4. c # epoch => handler[epoch] = "hello"
    <3>1. c \in Nat /\ epoch \in Nat /\ (c > epoch \/ c <= epoch)
      BY <1>2
    <3>2. ~(c > epoch)
      BY <1>3, <2>1
    <3> QED
      BY <1>2, <1>3, <2>1, <3>1, <3>2
  <2>5. \A d \in Conns : handler'[d] = "none" <=> d > epoch'
    BY <1>3, <2>1, <2>2
  <2>6. \A b, d \in Conns : b < d /\ handler'[b] = "hello" => handler'[d] \in {"hello", "none"}
    <3> SUFFICES ASSUME NEW b \in Conns, NEW d \in Conns, b < d, handler'[b] = "hello"
                 PROVE  handler'[d] \in {"hello", "none"}
      OBVIOUS
    <3>1. handler[b] = "hello" /\ d # c
      BY <2>2, <2>3
    <3> QED
      BY <1>3, <2>2, <3>1
  <2>7. writer' # None => handler'[writer'] \in {"loop", "over"}
    BY <2>1, <2>2
  <2>8. handler'[epoch'] # "hello" => writer' = epoch'
    BY <1>2, <2>1, <2>2, <2>4
  <2>9. Alive' => handler'[epoch'] \in {"hello", "loop"}
    BY <1>2, <1>3, <2>1, <2>2 DEF Alive
  <2>10. Attached' /\ host' # "done" => writer' = epoch'
    BY <2>8 DEF Attached
  <2>11. replaced' = {} /\ host' # "done" => \A d \in Conns : handler'[d] = "loop" => writer' = d
    <3>1. SUFFICES ASSUME replaced' = {}, NEW d \in Conns, handler'[d] = "loop", d # c
                   PROVE  FALSE
      BY <2>1
    <3>2. writer = None /\ replaced = {} /\ handler[d] = "loop"
      BY <2>1, <2>2, <3>1
    <3>3. writer = d
      BY <1>3, <2>1, <3>2
    <3> QED
      BY <1>2, <3>2, <3>3
  <2>12. \A d \in replaced' : handler'[d] \in {"loop", "over"}
    BY <1>2, <1>3, <2>1, <2>2
  <2> QED
    BY <2>5, <2>6, <2>7, <2>8, <2>9, <2>10, <2>11, <2>12 DEF ConnInv
<1>8. ASSUME NEW c \in Conns, handler[c] = "loop", host # "done", ~(c = epoch /\ Alive),
             handler' = [handler EXCEPT ![c] = "over"], UNCHANGED <<epoch, engine, replaced>>,
             host' # "done" => host # "done",
             \/ writer' = IF writer = c THEN None ELSE writer
             \/ writer' = writer
      PROVE  ConnInv'
  <2>2. handler'[c] = "over" /\ \A d \in Conns : d # c => handler'[d] = handler[d]
    BY <1>2, <1>8
  <2>3. Alive' <=> Alive
    BY <1>8 DEF Alive
  <2>4. writer' = writer \/ (writer = c /\ writer' = None)
    BY <1>8
  <2>5. \A d \in Conns : handler'[d] = "none" <=> d > epoch'
    BY <1>3, <1>8, <2>2
  <2>6. \A b, d \in Conns : b < d /\ handler'[b] = "hello" => handler'[d] \in {"hello", "none"}
    <3> SUFFICES ASSUME NEW b \in Conns, NEW d \in Conns, b < d, handler'[b] = "hello"
                 PROVE  handler'[d] \in {"hello", "none"}
      OBVIOUS
    <3>1. handler[b] = "hello"
      BY <2>2
    <3>2. handler[d] \in {"hello", "none"}
      BY <1>3, <3>1
    <3> QED
      BY <1>8, <2>2, <3>2
  <2>7. writer' # None => handler'[writer'] \in {"loop", "over"}
    <3>1. SUFFICES ASSUME writer' # None
                   PROVE  handler'[writer'] \in {"loop", "over"}
      OBVIOUS
    <3>2. writer' = writer /\ writer \in Conns
      BY <1>1, <2>4, <3>1 DEF TypeInv, TypeOK
    <3> QED
      BY <1>3, <2>2, <3>1, <3>2
  <2>8. host' # "done" /\ writer' # None /\ handler'[epoch'] # "hello" => writer' = epoch'
    <3>1. SUFFICES ASSUME writer' # None, handler'[epoch] # "hello"
                   PROVE  writer' = epoch
      BY <1>8
    <3>2. writer' = writer /\ handler[epoch] # "hello"
      BY <1>2, <1>8, <2>2, <2>4, <3>1
    <3> QED
      BY <1>3, <1>8, <3>1, <3>2
  <2>9. Alive' => handler'[epoch'] \in {"hello", "loop"}
    BY <1>2, <1>3, <1>8, <2>2, <2>3
  <2>10. Attached' /\ host' # "done" => writer' = epoch'
    <3>1. SUFFICES ASSUME Attached'
                   PROVE  writer' = epoch
      BY <1>8
    <3>2. Alive /\ handler'[epoch] = "loop" /\ c # epoch
      BY <1>8, <2>2, <2>3, <3>1 DEF Attached
    <3>3. writer = epoch
      BY <1>2, <1>3, <1>8, <2>2, <3>2 DEF Attached
    <3> QED
      BY <2>4, <3>2, <3>3
  <2>11. replaced' = {} /\ host' # "done" => \A d \in Conns : handler'[d] = "loop" => writer' = d
    <3>1. SUFFICES ASSUME replaced = {}, NEW d \in Conns, handler'[d] = "loop"
                   PROVE  writer' = d
      BY <1>8
    <3>2. writer = c
      BY <1>3, <1>8, <3>1
    <3>3. d # c /\ handler[d] = "loop"
      BY <2>2, <3>1
    <3> QED
      BY <1>3, <1>8, <3>1, <3>2, <3>3
  <2>12. \A d \in replaced' : handler'[d] \in {"loop", "over"}
    BY <1>2, <1>3, <1>8, <2>2
  <2> QED
    BY <2>5, <2>6, <2>7, <2>8, <2>9, <2>10, <2>11, <2>12 DEF ConnInv
<1>9. ASSUME NEW c \in Conns, OnDetach(c) \/ OnEof(c)
      PROVE  ConnInv'
  <2>1. Leave(c) /\ host # "done" /\ handler[c] = "loop" /\ ~(c = epoch /\ Alive)
    BY <1>1, <1>9, Leaves
  <2> QED
    BY <1>8, <2>1 DEF Leave
<1>10. ASSUME NEW c \in Conns, OnShutdown(c)
       PROVE  ConnInv'
  <2>1. host # "done" /\ handler[c] = "loop" /\ 1 \in DOMAIN down[c] /\ down[c][1].t = "shutdown"
    BY <1>1, <1>10, FrameTaken DEF OnShutdown
  <2>2. ~(c = epoch /\ Alive)
    BY <1>1, <2>1 DEF EngineInv
  <2>3. /\ handler' = [handler EXCEPT ![c] = "over"] /\ UNCHANGED <<epoch, engine, replaced>>
        /\ writer' = writer
    BY <1>10 DEF OnShutdown
  <2> QED
    BY <1>8, <2>1, <2>2, <2>3
<1> QED
  BY <1>4, <1>5, <1>6, <1>7, <1>9, <1>10 DEF HostStep

LEMMA OtherConns ==
  ASSUME Inv, Tick \/ Cli \/ EngineStep
  PROVE  ConnInv'
<1>1. TypeInv /\ ConnInv /\ EngineInv
  BY DEF Inv
<1>2. /\ epoch \in Conns /\ handler \in [Conns -> {"none", "hello", "loop", "over"}]
      /\ replaced \subseteq Conns /\ None \notin Conns /\ Conns \in SUBSET Nat
      /\ MaxEngines \in Nat /\ writer \in Conns \cup {None}
  <2>1. epoch \in Conns /\ replaced \subseteq Conns /\ writer \in Conns \cup {None}
    BY <1>1 DEF TypeInv, TypeOK
  <2>2. handler \in [Conns -> {"none", "hello", "loop", "over"}]
    BY <1>1 DEF TypeInv, TypeOK
  <2>3. None \notin Conns /\ Conns \in SUBSET Nat /\ MaxEngines \in Nat
    BY ConstantsAssumption DEF Conns
  <2> QED
    BY <2>1, <2>2, <2>3
<1>3. CASE Tick
  BY <1>1, <1>3, ConnQuiet DEF Tick, Alive, hostVars
<1>4. CASE CliInitAnswer \/ CliMessage \/ CliAsk \/ CliResult
  <2>1. PICK kind, wrote, to : Printed(kind, wrote, to)
    BY <1>1, <1>4, CliPrints
  <2> QED
    BY <1>1, <2>1, ConnQuiet DEF Printed, OnCliMessage, Alive
<1>5. CASE CliExits
  BY <1>1, <1>5, ConnQuiet DEF CliExits, Alive
<1>6. CASE StartEngine
  <2>1. /\ engine = "dead" /\ epoch < MaxEngines /\ host # "done" /\ epoch' = epoch + 1
        /\ engine' = "connecting" /\ handler' = [handler EXCEPT ![epoch'] = "hello"]
        /\ UNCHANGED <<host, writer, replaced>>
    BY <1>6 DEF StartEngine, hostVars
  <2>2. epoch' \in Conns
    BY <1>2, <2>1 DEF Conns
  <2>3. handler'[epoch'] = "hello" /\ \A d \in Conns : d # epoch' => handler'[d] = handler[d]
    BY <1>2, <2>1, <2>2
  <2>4. handler[epoch'] = "none"
    BY <1>1, <1>2, <2>1, <2>2 DEF ConnInv
  <2>5. \A d \in Conns : handler'[d] = "none" <=> d > epoch'
    <3> SUFFICES ASSUME NEW d \in Conns
                 PROVE  handler'[d] = "none" <=> d > epoch'
      OBVIOUS
    <3>1. handler[d] = "none" <=> d > epoch
      BY <1>1 DEF ConnInv
    <3>2. CASE d = epoch'
      BY <2>3, <3>2, <2>2, <1>2
    <3>3. CASE d # epoch'
      BY <1>2, <2>1, <2>3, <3>1, <3>3
    <3> QED
      BY <3>2, <3>3
  <2>6. \A b, d \in Conns : b < d /\ handler'[b] = "hello" => handler'[d] \in {"hello", "none"}
    <3> SUFFICES ASSUME NEW b \in Conns, NEW d \in Conns, b < d, handler'[b] = "hello"
                 PROVE  handler'[d] \in {"hello", "none"}
      OBVIOUS
    <3>1. CASE d = epoch'
      BY <2>3, <3>1
    <3>2. CASE d # epoch' /\ b # epoch'
      BY <1>1, <2>3, <3>2 DEF ConnInv
    <3>3. CASE b = epoch'
      BY <1>2, <2>2, <2>5, <3>3
    <3> QED
      BY <3>1, <3>2, <3>3
  <2>7. writer' # None => handler'[writer'] \in {"loop", "over"}
    BY <1>1, <1>2, <2>1, <2>3, <2>4 DEF ConnInv
  <2>8. replaced' = {} /\ host' # "done" => \A d \in Conns : handler'[d] = "loop" => writer' = d
    BY <1>1, <2>1, <2>3 DEF ConnInv
  <2>9. \A d \in replaced' : handler'[d] \in {"loop", "over"}
    BY <1>1, <1>2, <2>1, <2>3, <2>4 DEF ConnInv
  <2> QED
    BY <2>3, <2>5, <2>6, <2>7, <2>8, <2>9 DEF ConnInv, Attached
<1>7. CASE ReadHello \/ Hold \/ Restore \/ Consume \/ SendUser \/ Answer
  <2>1. Alive
    BY <1>7 DEF ReadHello, Hold, Restore, Consume, SendUser, Answer, Alive
  <2>2. UNCHANGED <<handler, writer, epoch, replaced, host>>
    BY <1>7 DEF ReadHello, Hold, Restore, Consume, SendUser, Answer, hostVars
  <2> QED
    BY <1>1, <2>1, <2>2, ConnQuiet
<1>8. CASE Kill \/ Detach \/ Sleep
  <2>1. Alive /\ Forget
    BY <1>1, <1>8, Ends
  <2> QED
    BY <1>1, <2>1, ConnQuiet DEF Forget, hostVars
<1> QED
  BY <1>3, <1>4, <1>5, <1>6, <1>7, <1>8 DEF Cli, EngineStep

-----------------------------------------------------------------------------
(* What an engine has before it is attached, and before it is live.        *)

LEMMA OneIsConn == 1 \in Conns
BY ConstantsAssumption DEF Conns

LEMMA HeadKept ==
  ASSUME NEW S, NEW s \in Seq(S), NEW e \in S, s # << >>
  PROVE  s \o <<e>> # << >> /\ Head(s \o <<e>>) = Head(s)
<1>1. /\ s \o <<e>> \in Seq(S) /\ Len(s) \in Nat /\ DOMAIN s = 1 .. Len(s)
      /\ DOMAIN (s \o <<e>>) = 1 .. Len(s) + 1
      /\ \A i \in DOMAIN s : i \in DOMAIN (s \o <<e>>) /\ (s \o <<e>>)[i] = s[i]
  BY OneMore
<1>2. Head(s) = s[1] /\ 1 \in DOMAIN s
  BY Indices
<1> DEFINE t == s \o <<e>>
<1> HIDE DEF t
<1>3. t \in Seq(S) /\ 1 \in DOMAIN t /\ t[1] = s[1]
  BY <1>1, <1>2 DEF t
<1>4. t # << >>
  BY <1>3
<1>5. Head(t) = t[1]
  BY <1>3, <1>4, Indices
<1> QED
  BY <1>2, <1>3, <1>4, <1>5 DEF t

LEMMA NoFrames ==
  ASSUME TypeInv, down' \in [Conns -> Seq(DownFrame)], DownFrom, NEW c \in Conns, down[c] = << >>
  PROVE  down'[c] = << >>
<1>1. DOMAIN down[c] = {}
  BY DEF TypeInv
<1>2. DOMAIN down'[c] = {}
  BY <1>1 DEF DownFrom
<1>3. Len(down'[c]) \in Nat /\ DOMAIN down'[c] = 1 .. Len(down'[c])
  BY LenProperties
<1>4. Len(down'[c]) = 0
  <2> DEFINE l == Len(down'[c])
  <2>1. l \in Nat /\ 1 .. l = {}
    BY <1>2, <1>3
  <2> HIDE DEF l
  <2>2. l # 0 => 1 \in 1 .. l
    BY <2>1
  <2>3. l = 0
    BY <2>1, <2>2
  <2> QED
    BY <2>3 DEF l
<1> QED
  BY <1>4, EmptySeq

\* Nothing is printed and no turn begins before the first engine is attached.
LEMMA FirstAttached ==
  ASSUME ConnInv, NEW c \in Conns, handler[c] = "loop"
  PROVE  handler[1] # "hello"
<1>1. c \in Nat /\ c >= 1 /\ 1 \in Conns
  BY ConstantsAssumption DEF Conns
<1>2. CASE c = 1
  BY <1>2
<1>3. CASE c > 1
  BY <1>1, <1>3 DEF ConnInv
<1> QED
  BY <1>1, <1>2, <1>3

\* A step of the CLI or the host that changes no more of the engine's than what is on its
\* way to it.
LEMMA EngineKept ==
  ASSUME TypeInv, ConnInv, EngineInv,
         UNCHANGED <<epoch, engine, inbox, timeline, skip, asks>>,
         up' = up \/ \E f \in UpFrame : up' = ToEngine(<<f>>),
         \A c \in Conns : handler'[c] = handler[c] \/ (handler[c] = "loop" /\ handler'[c] = "over"),
         down' \in [Conns -> Seq(DownFrame)], DownFrom,
         UNCHANGED <<lines, inits, turns>> \/ handler[1] # "hello"
  PROVE  EngineInv'
<1>1. epoch \in Conns /\ up \in Seq(UpFrame) /\ 1 \in Conns
  BY ConstantsAssumption DEF TypeInv, TypeOK, Conns
<1>2. up' # up => handler[epoch] \in {"loop", "over"} /\ Alive /\ \E f \in UpFrame : up' = up \o <<f>>
  <2>1. SUFFICES ASSUME up' # up
                 PROVE  handler[epoch] \in {"loop", "over"} /\ Alive
                        /\ \E f \in UpFrame : up' = up \o <<f>>
    OBVIOUS
  <2>2. PICK f \in UpFrame : up' = ToEngine(<<f>>)
    BY <2>1
  <2>3. writer = epoch /\ Alive /\ up' = up \o <<f>>
    BY <2>1, <2>2 DEF ToEngine
  <2>4. writer # None
    BY <1>1, <2>3, ConstantsAssumption DEF Conns
  <2> QED
    BY <2>3, <2>4 DEF ConnInv
<1>3. handler'[epoch'] = "hello" => engine' \in {"connecting", "dead"} /\ up' = << >>
  BY <1>1, <1>2 DEF EngineInv
<1>4. engine' = "connecting" /\ handler'[epoch'] = "loop" => up' # << >> /\ Head(up').t = "hello"
  <2>1. SUFFICES ASSUME engine = "connecting", handler[epoch] = "loop"
                 PROVE  up' # << >> /\ Head(up').t = "hello"
    BY <1>1
  <2>2. up # << >> /\ Head(up).t = "hello"
    BY <2>1 DEF EngineInv
  <2>3. CASE up' = up
    BY <2>2, <2>3
  <2>4. CASE up' # up
    <3>1. PICK f \in UpFrame : up' = up \o <<f>>
      BY <1>2, <2>4
    <3> QED
      BY <3>1, <2>2, <1>1, HeadKept
  <2> QED
    BY <2>3, <2>4
<1>5. engine' = "dead" => up' = << >>
  BY <1>2 DEF EngineInv, Alive
<1>6. \A c \in Conns : handler'[c] \in {"none", "hello"} => down'[c] = << >>
  <2> SUFFICES ASSUME NEW c \in Conns, handler'[c] \in {"none", "hello"}
               PROVE  down'[c] = << >>
    OBVIOUS
  <2>1. handler[c] \in {"none", "hello"}
    OBVIOUS
  <2> QED
    BY <2>1, NoFrames DEF EngineInv
<1>7. engine' = "connecting" => down'[epoch'] = << >>
  BY <1>1, NoFrames DEF EngineInv
<1>8. Alive' => \A i \in DOMAIN down'[epoch'] : down'[epoch'][i].t \notin {"detach", "shutdown"}
  <2>1. Alive' <=> Alive
    BY DEF Alive
  <2>2. SUFFICES ASSUME Alive, NEW i \in DOMAIN down'[epoch]
                 PROVE  down'[epoch][i].t \notin {"detach", "shutdown"}
    BY <2>1
  <2>3. PICK j \in DOMAIN down[epoch] : down'[epoch][i] = down[epoch][j]
    BY <1>1, <2>2 DEF DownFrom
  <2> QED
    BY <2>2, <2>3 DEF EngineInv
<1>9. handler'[1] = "hello" => lines' = << >> /\ inits' = << >> /\ turns' = 0
  BY <1>1 DEF EngineInv
<1>10. engine' \in {"connecting", "dead"} => inbox' = << >>
  BY DEF EngineInv
<1>11. engine' # "live" /\ engine' # "gone" => timeline' = << >> /\ skip' = {} /\ asks' = {}
  BY DEF EngineInv
<1> QED
  BY <1>3, <1>4, <1>5, <1>6, <1>7, <1>8, <1>9, <1>10, <1>11 DEF EngineInv

LEMMA HostEngines ==
  ASSUME Inv, Tick \/ Cli \/ HostStep
  PROVE  EngineInv'
<1>1. TypeInv /\ ConnInv /\ EngineInv /\ TimeInv
  BY DEF Inv
<1>2. /\ epoch \in Conns /\ handler \in [Conns -> {"none", "hello", "loop", "over"}]
      /\ down \in [Conns -> Seq(DownFrame)] /\ 1 \in Conns
  BY <1>1, OneIsConn, ConstantsAssumption DEF TypeInv, TypeOK
<1>3. CASE Tick
  <2>1. DownFrom /\ down' = down
    BY <1>3, SameDown DEF Tick
  <2> QED
    BY <1>1, <1>2, <1>3, <2>1, EngineKept DEF Tick, viewVars, cliVars
<1>4. CASE CliInitAnswer \/ CliMessage \/ CliAsk \/ CliResult
  <2>1. PICK kind, wrote, to : Printed(kind, wrote, to)
    BY <1>1, <1>4, CliPrints
  <2>2. DownFrom /\ down' = down
    BY <2>1, SameDown DEF Printed, OnCliMessage
  <2>3. \E f \in UpFrame : up' = ToEngine(<<f>>)
    BY <1>1, <2>1, PrintedLines
  <2>4. handler[1] # "hello"
    BY <1>1, <2>1 DEF Printed, EngineInv
  <2>5. UNCHANGED <<epoch, engine, inbox, timeline, skip, asks, handler>>
    BY <2>1 DEF Printed, OnCliMessage, viewVars
  <2> QED
    BY <1>1, <1>2, <2>2, <2>3, <2>4, <2>5, EngineKept
<1>5. CASE CliExits
  <2>1. DownFrom /\ down' = down
    BY <1>5, SameDown DEF CliExits
  <2>2. up' = up \/ \E f \in UpFrame : up' = ToEngine(<<f>>)
    BY <1>5, UpFrames DEF CliExits
  <2> QED
    BY <1>1, <1>2, <1>5, <2>1, <2>2, EngineKept DEF CliExits, viewVars
<1>6. CASE ExitFinish \/ Orphaned
  <2>1. DownFrom /\ down' = down
    BY <1>6, SameDown DEF ExitFinish, Orphaned
  <2> QED
    BY <1>1, <1>2, <1>6, <2>1, EngineKept DEF ExitFinish, Orphaned, viewVars, cliVars
<1>7. CASE ShutdownEnds
  <2>1. DownFrom /\ down' = down
    BY <1>7, SameDown DEF ShutdownEnds
  <2>2. \E f \in UpFrame : up' = ToEngine(<<f>>)
    BY <1>7, UpFrames DEF ShutdownEnds
  <2> QED
    BY <1>1, <1>2, <1>7, <2>1, <2>2, EngineKept DEF ShutdownEnds, viewVars
<1>8. ASSUME NEW c \in Conns, OnInitialize(c) \/ OnUser(c) \/ OnAnswer(c) \/ OnAck(c)
      PROVE  EngineInv'
  <2>1. handler[c] = "loop" /\ down' \in [Conns -> Seq(DownFrame)] /\ DownFrom
    BY <1>1, <1>8, FrameTaken DEF OnInitialize, OnUser, OnAnswer, OnAck, DownFrom
  <2>2. handler[1] # "hello"
    BY <1>1, <2>1, FirstAttached
  <2>3. up' = up \/ \E f \in UpFrame : up' = ToEngine(<<f>>)
    BY <1>8, UpFrames DEF OnInitialize, OnUser, OnAnswer, OnAck
  <2>4. UNCHANGED <<epoch, engine, inbox, timeline, skip, asks, handler>>
    BY <1>8 DEF OnInitialize, OnUser, OnAnswer, OnAck, viewVars
  <2> QED
    BY <1>1, <1>2, <2>1, <2>2, <2>3, <2>4, EngineKept
<1>9. ASSUME NEW c \in Conns, OnDetach(c) \/ OnEof(c)
      PROVE  EngineInv'
  <2>1. Leave(c) /\ handler[c] = "loop" /\ down' \in [Conns -> Seq(DownFrame)] /\ DownFrom
    BY <1>1, <1>9, Leaves
  <2>2. handler[1] # "hello"
    BY <1>1, <2>1, FirstAttached
  <2>3. \A d \in Conns : handler'[d] = handler[d] \/ (handler[d] = "loop" /\ handler'[d] = "over")
    BY <1>2, <2>1 DEF Leave
  <2>4. UNCHANGED <<epoch, engine, inbox, timeline, skip, asks, up>>
    BY <2>1 DEF Leave, viewVars
  <2> QED
    BY <1>1, <1>2, <2>1, <2>2, <2>3, <2>4, EngineKept
<1>10. ASSUME NEW c \in Conns, OnShutdown(c)
       PROVE  EngineInv'
  <2>1. handler[c] = "loop" /\ down' \in [Conns -> Seq(DownFrame)] /\ DownFrom
    BY <1>1, <1>10, FrameTaken DEF OnShutdown, DownFrom
  <2>2. handler[1] # "hello"
    BY <1>1, <2>1, FirstAttached
  <2>3. \A d \in Conns : handler'[d] = handler[d] \/ (handler[d] = "loop" /\ handler'[d] = "over")
    BY <1>2, <1>10, <2>1 DEF OnShutdown
  <2>4. UNCHANGED <<epoch, engine, inbox, timeline, skip, asks, up>>
    BY <1>10 DEF OnShutdown, viewVars
  <2> QED
    BY <1>1, <1>2, <2>1, <2>2, <2>3, <2>4, EngineKept
<1>11. ASSUME NEW c \in Conns, Attach(c)
       PROVE  EngineInv'
  <2>1. /\ handler[c] = "hello" /\ handler' = [handler EXCEPT ![c] = "loop"]
        /\ UNCHANGED <<epoch, engine, inbox, timeline, skip, asks, down, lines, inits, turns>>
        /\ up' = up \/ (c = epoch /\ Alive)
    BY <1>11 DEF Attach, viewVars, cliVars
  <2>2. handler'[c] = "loop" /\ \A d \in Conns : d # c => handler'[d] = handler[d]
    BY <1>2, <2>1
  <2>3. c = epoch /\ Alive => up' # << >> /\ Head(up').t = "hello" /\ engine = "connecting"
    BY <1>1, <1>11, AttachPath
  <2>4. handler'[epoch'] = "hello" => engine' \in {"connecting", "dead"} /\ up' = << >>
    <3>1. SUFFICES ASSUME handler'[epoch] = "hello"
                   PROVE  engine \in {"connecting", "dead"} /\ up' = << >>
      BY <2>1
    <3>2. c # epoch /\ handler[epoch] = "hello"
      BY <1>2, <2>2, <3>1
    <3> QED
      BY <1>1, <2>1, <3>2 DEF EngineInv
  <2>5. engine' = "connecting" /\ handler'[epoch'] = "loop" => up' # << >> /\ Head(up').t = "hello"
    <3>1. SUFFICES ASSUME engine = "connecting", handler'[epoch] = "loop"
                   PROVE  up' # << >> /\ Head(up').t = "hello"
      BY <2>1
    <3>2. CASE c = epoch
      BY <2>3, <3>1, <3>2 DEF Alive
    <3>3. CASE c # epoch
      BY <1>1, <1>2, <2>1, <2>2, <3>1, <3>3 DEF EngineInv
    <3> QED
      BY <3>2, <3>3
  <2>6. engine' = "dead" => up' = << >>
    BY <1>1, <2>1 DEF EngineInv, Alive
  <2>7. \A d \in Conns : handler'[d] \in {"none", "hello"} => down'[d] = << >>
    BY <1>1, <2>1, <2>2 DEF EngineInv
  <2>8. handler'[1] = "hello" => lines' = << >> /\ inits' = << >> /\ turns' = 0
    BY <1>1, <1>2, <2>1, <2>2 DEF EngineInv
  <2>9. Alive' <=> Alive
    BY <2>1 DEF Alive
  <2> QED
    BY <1>1, <2>1, <2>4, <2>5, <2>6, <2>7, <2>8, <2>9 DEF EngineInv
<1> QED
  BY <1>3, <1>4, <1>5, <1>6, <1>7, <1>8, <1>9, <1>10, <1>11 DEF Cli, HostStep

\* A step of an engine that has read the hello.
LEMMA EngineGoesOn ==
  ASSUME TypeInv, ConnInv, EngineInv, handler[epoch] = "loop", Alive,
         UNCHANGED <<epoch, handler, lines, inits, turns>>,
         engine' \in {"handshake", "restoring", "live", "gone"},
         \/ engine' \in {"live", "gone"}
         \/ UNCHANGED <<timeline, skip, asks>> /\ engine # "live",
         \A d \in Conns : d # epoch => down'[d] = down[d],
         \A i \in DOMAIN down'[epoch] :
           \/ i \in DOMAIN down[epoch] /\ down'[epoch][i] = down[epoch][i]
           \/ down'[epoch][i].t \notin {"detach", "shutdown"}
  PROVE  EngineInv'
<1>1. epoch \in Conns
  BY DEF TypeInv, TypeOK
<1>2. engine' \notin {"live", "gone"} => timeline' = << >> /\ skip' = {} /\ asks' = {}
  BY DEF EngineInv, Alive
<1>3. \A c \in Conns : handler'[c] \in {"none", "hello"} => down'[c] = << >>
  BY DEF EngineInv
<1>4. \A i \in DOMAIN down'[epoch] : down'[epoch][i].t \notin {"detach", "shutdown"}
  BY DEF EngineInv
<1> QED
  BY <1>2, <1>3, <1>4 DEF EngineInv

LEMMA StepEngines ==
  ASSUME Inv, EngineStep
  PROVE  EngineInv'
<1>1. TypeInv /\ ConnInv /\ EngineInv /\ TimeInv
  BY DEF Inv
<1>2. /\ epoch \in Conns /\ handler \in [Conns -> {"none", "hello", "loop", "over"}]
      /\ down \in [Conns -> Seq(DownFrame)] /\ 1 \in Conns /\ MaxEngines \in Nat
  BY <1>1, OneIsConn, ConstantsAssumption DEF TypeInv, TypeOK
<1>3. engine \in {"handshake", "restoring", "live"} => handler[epoch] = "loop" /\ Alive
  BY <1>1 DEF ConnInv, EngineInv, Alive
<1>4. CASE StartEngine
  <2>1. /\ engine = "dead" /\ epoch < MaxEngines /\ epoch' = epoch + 1
        /\ engine' = "connecting" /\ handler' = [handler EXCEPT ![epoch'] = "hello"]
        /\ UNCHANGED <<up, inbox, down, timeline, skip, asks, lines, inits, turns>>
    BY <1>4 DEF StartEngine, viewVars, cliVars
  <2>2. epoch' \in Conns /\ epoch' # 1
    BY <1>2, <2>1 DEF Conns
  <2>3. handler'[epoch'] = "hello" /\ \A d \in Conns : d # epoch' => handler'[d] = handler[d]
    BY <1>2, <2>1, <2>2
  <2>4. handler[epoch'] = "none"
    BY <1>1, <1>2, <2>1, <2>2 DEF ConnInv, Conns
  <2>5. up' = << >> /\ inbox' = << >> /\ timeline' = << >> /\ skip' = {} /\ asks' = {}
    BY <1>1, <2>1 DEF EngineInv
  <2>6. \A c \in Conns : handler'[c] \in {"none", "hello"} => down'[c] = << >>
    BY <1>1, <2>1, <2>3, <2>4 DEF EngineInv
  <2>7. down'[epoch'] = << >>
    BY <2>2, <2>3, <2>6
  <2>8. handler'[1] = "hello" => lines' = << >> /\ inits' = << >> /\ turns' = 0
    BY <1>1, <1>2, <2>1, <2>2, <2>3 DEF EngineInv
  <2> QED
    BY <2>1, <2>3, <2>5, <2>6, <2>7, <2>8 DEF EngineInv
<1>5. CASE ReadHello
  <2>1. Only("init") \in DownFrame /\ Only("init").t = "init"
    BY DownFrames
  <2>2. down' = ToHost(<<Only("init")>>)
    BY <1>5 DEF ReadHello
  <2>3. /\ \A d \in Conns : d # epoch => down'[d] = down[d]
        /\ \A i \in DOMAIN down'[epoch] :
             \/ i \in DOMAIN down[epoch] /\ down'[epoch][i] = down[epoch][i]
             \/ down'[epoch][i].t \notin {"detach", "shutdown"}
    BY <1>1, <1>2, <2>1, <2>2, ToHostAdds
  <2>4. handler[epoch] = "loop" /\ Alive
    BY <1>1, <1>5, HelloIsRead DEF ReadHello, Alive
  <2>5. /\ UNCHANGED <<epoch, handler, lines, inits, turns, timeline, skip, asks>>
        /\ engine' = "handshake" /\ engine # "live"
    BY <1>5 DEF ReadHello, cliVars
  <2> QED
    BY <1>1, <2>3, <2>4, <2>5, EngineGoesOn
<1>6. ASSUME Acknowledges
      PROVE  /\ \A d \in Conns : d # epoch => down'[d] = down[d]
             /\ \A i \in DOMAIN down'[epoch] :
                  \/ i \in DOMAIN down[epoch] /\ down'[epoch][i] = down[epoch][i]
                  \/ down'[epoch][i].t \notin {"detach", "shutdown"}
  <2>1. CASE down' = down
    BY <2>1
  <2>2. CASE \E m \in 0 .. Len(lines) : down' = ToHost(<<With("ack", m)>>)
    <3>1. PICK m \in 0 .. Len(lines) : down' = ToHost(<<With("ack", m)>>)
      BY <2>2
    <3>2. m \in 0 .. MaxLines
      BY <1>1, ComingFacts, ConstantsAssumption DEF TypeInv, TypeOK
    <3>3. With("ack", m) \in DownFrame /\ With("ack", m).t = "ack"
      BY <3>2, DownFrames
    <3> QED
      BY <1>1, <1>2, <3>1, <3>3, ToHostAdds
  <2> QED
    BY <1>6, <2>1, <2>2 DEF Acknowledges
<1>7. CASE Hold
  <2>1. engine \in {"handshake", "restoring"} /\ Acknowledges
    BY <1>1, <1>7, HoldTakes
  <2>2. UNCHANGED <<epoch, handler, lines, inits, turns, timeline, skip, asks>>
    BY <1>7 DEF Hold, cliVars, viewVars
  <2>3. engine' \in {"handshake", "restoring", "live"}
    BY <1>7, <2>1 DEF Hold
  <2> QED
    BY <1>1, <1>3, <1>6, <2>1, <2>2, <2>3, EngineGoesOn
<1>8. CASE Consume
  <2>1. engine = "live" /\ Acknowledges /\ Process(Path[1])
    BY <1>1, <1>8, ConsumeTakes
  <2>2. UNCHANGED <<epoch, handler, lines, inits, turns>>
    BY <1>8 DEF Consume, cliVars
  <2>3. engine' \in {"live", "gone"}
    BY <2>1 DEF Process
  <2> QED
    BY <1>1, <1>3, <1>6, <2>1, <2>2, <2>3, EngineGoesOn
<1>9. CASE Restore
  <2>1. /\ UNCHANGED <<epoch, handler, lines, inits, turns, down>>
        /\ engine = "restoring" /\ engine' = "live"
    BY <1>9 DEF Restore, cliVars
  <2> QED
    BY <1>1, <1>3, <2>1, EngineGoesOn
<1>10. CASE SendUser
  <2>1. /\ UNCHANGED <<epoch, handler, lines, inits, turns, engine>> /\ engine = "live"
        /\ down' = ToHost(<<Only("user")>>)
    BY <1>10 DEF SendUser, cliVars
  <2>2. Only("user") \in DownFrame /\ Only("user").t = "user"
    BY DownFrames
  <2>3. /\ \A d \in Conns : d # epoch => down'[d] = down[d]
        /\ \A i \in DOMAIN down'[epoch] :
             \/ i \in DOMAIN down[epoch] /\ down'[epoch][i] = down[epoch][i]
             \/ down'[epoch][i].t \notin {"detach", "shutdown"}
    BY <1>1, <1>2, <2>1, <2>2, ToHostAdds
  <2> QED
    BY <1>1, <1>3, <2>1, <2>3, EngineGoesOn
<1>11. CASE Answer
  <2>1. UNCHANGED <<epoch, handler, lines, inits, turns, engine>> /\ engine = "live"
    BY <1>11 DEF Answer, cliVars
  <2>2. PICK n \in asks : down' = ToHost(<<With("answer", n)>>)
    BY <1>11 DEF Answer
  <2>3. n \in 0 .. MaxLines
    <3>1. asks \subseteq DOMAIN lines
      BY <1>1 DEF TypeInv, TypeOK
    <3>2. Len(lines) <= MaxLines /\ MaxLines \in Nat
      BY <1>1, ConstantsAssumption DEF TypeInv, TypeOK
    <3>3. Len(lines) \in Nat /\ DOMAIN lines = 1 .. Len(lines)
      BY <1>1, ComingFacts
    <3> QED
      BY <2>2, <3>1, <3>2, <3>3
  <2>4. With("answer", n) \in DownFrame /\ With("answer", n).t = "answer"
    BY <2>3, DownFrames
  <2>5. /\ \A d \in Conns : d # epoch => down'[d] = down[d]
        /\ \A i \in DOMAIN down'[epoch] :
             \/ i \in DOMAIN down[epoch] /\ down'[epoch][i] = down[epoch][i]
             \/ down'[epoch][i].t \notin {"detach", "shutdown"}
    BY <1>1, <1>2, <2>2, <2>4, ToHostAdds
  <2> QED
    BY <1>1, <1>3, <2>1, <2>5, EngineGoesOn
<1>12. CASE Kill \/ Detach \/ Sleep
  <2>1. /\ Alive /\ engine' \in {"dead", "gone"} /\ Forget /\ down' \in [Conns -> Seq(DownFrame)]
        /\ \A d \in Conns : d # epoch => down'[d] = down[d]
        /\ \A i \in DOMAIN down'[epoch] :
              \/ i \in DOMAIN down[epoch] /\ down'[epoch][i] = down[epoch][i]
              \/ down'[epoch][i].t \in {"detach", "shutdown"}
        /\ engine' = "gone" => engine = "live"
    BY <1>1, <1>12, Ends
  <2>2. /\ up' = << >> /\ inbox' = << >> /\ skip' = {} /\ timeline' = << >> /\ asks' = {}
        /\ UNCHANGED <<epoch, handler, lines, inits, turns>>
    BY <2>1 DEF Forget, cliVars
  <2>3. handler'[epoch'] = "hello" => engine' \in {"connecting", "dead"}
    BY <1>3, <2>1, <2>2
  <2>4. \A c \in Conns : handler'[c] \in {"none", "hello"} => down'[c] = << >>
    <3> SUFFICES ASSUME NEW c \in Conns, handler[c] \in {"none", "hello"}
                 PROVE  down'[c] = << >>
      BY <2>2
    <3>1. down[c] = << >>
      BY <1>1 DEF EngineInv
    <3>2. CASE c # epoch
      BY <2>1, <3>1, <3>2
    <3>3. CASE c = epoch
      <4>1. engine = "connecting"
        BY <1>3, <2>1, <3>3 DEF Alive
      <4>2. Kill
        BY <1>12, <4>1 DEF Detach, Sleep
      <4>3. PICK k \in 0 .. Len(down[epoch]) : down' = [down EXCEPT ![epoch] = SubSeq(@, 1, k)]
        BY <4>2 DEF Kill
      <4>4. Len(down[epoch]) = 0 /\ k = 0
        BY <3>1, <3>3, EmptySeq
      <4>5. down'[c] = SubSeq(<< >>, 1, 0)
        BY <1>2, <3>1, <3>3, <4>3, <4>4
      <4> QED
        BY <4>5
    <3> QED
      BY <3>2, <3>3
  <2>5. ~Alive' /\ engine' # "connecting"
    BY <2>1 DEF Alive
  <2>6. handler'[1] = "hello" => lines' = << >> /\ inits' = << >> /\ turns' = 0
    BY <1>1, <2>2 DEF EngineInv
  <2> QED
    BY <2>1, <2>2, <2>3, <2>4, <2>5, <2>6 DEF EngineInv
<1> QED
  BY <1>4, <1>5, <1>7, <1>8, <1>9, <1>10, <1>11, <1>12 DEF EngineStep

-----------------------------------------------------------------------------
(* The steps, by what they do to the path of the engine.                   *)

LEMMA Ranges ==
  ASSUME TypeInv
  PROVE  /\ epoch \in Conns /\ None \notin Conns /\ writer \in Conns \cup {None}
         /\ handler \in [Conns -> {"none", "hello", "loop", "over"}]
         /\ asks \subseteq DOMAIN lines /\ open \subseteq DOMAIN lines
<1>1. None \notin Conns
  BY ConstantsAssumption DEF Conns
<1>2. epoch \in Conns /\ writer \in Conns \cup {None}
  BY DEF TypeInv, TypeOK
<1>3. handler \in [Conns -> {"none", "hello", "loop", "over"}]
  BY DEF TypeInv, TypeOK
<1>4. asks \subseteq DOMAIN lines /\ open \subseteq DOMAIN lines
  BY DEF TypeInv, TypeOK
<1> QED
  BY <1>1, <1>2, <1>3, <1>4

\* No line more or less comes.
SameComing == Coming' = Coming /\ \A i \in Coming : Path'[i] = Path[i]

\* A step beside the path: no line is printed, replayed or read.
Side ==
  /\ UNCHANGED <<lines, epoch, engine, since, skip, timeline, inbox>>
  /\ replaced \subseteq replaced' /\ (Attached' => Attached)
  /\ up' = up \/ \E f \in UpFrame : f.t # "line" /\ up' = ToEngine(<<f>>)

LEMMA HostSides ==
  ASSUME Inv, NEW c \in Conns,
         \/ OnInitialize(c) \/ OnUser(c) \/ OnAnswer(c) \/ OnAck(c)
         \/ OnDetach(c) \/ OnEof(c) \/ OnShutdown(c) \/ (Attach(c) /\ ~(c = epoch /\ Alive))
  PROVE  Side
<1>1. TypeInv /\ ConnInv /\ EngineInv
  BY DEF Inv
<1>2. epoch \in Conns /\ handler \in [Conns -> {"none", "hello", "loop", "over"}]
  BY <1>1 DEF TypeInv, TypeOK
<1>3. CASE OnInitialize(c)
  <2>1. Cached(c) \in UpFrame /\ Cached(c).t = "cached"
    BY UpFrames
  <2>2. up' = up \/ up' = ToEngine(<<Cached(c)>>)
    BY <1>3 DEF OnInitialize
  <2>3. up' = up \/ \E f \in UpFrame : f.t # "line" /\ up' = ToEngine(<<f>>)
    BY <2>1, <2>2
  <2> QED
    BY <1>3, <2>3 DEF Side, OnInitialize, viewVars, Attached, Alive
<1>4. CASE OnUser(c) \/ OnAnswer(c) \/ OnAck(c)
  BY <1>4 DEF Side, OnUser, OnAnswer, OnAck, viewVars, Attached, Alive
<1>5. CASE OnDetach(c) \/ OnEof(c)
  <2>1. Leave(c)
    BY <1>5 DEF OnDetach, OnEof
  <2>2. Attached' => Attached
    BY <1>2, <2>1 DEF Leave, Attached, Alive
  <2> QED
    BY <2>1, <2>2 DEF Side, Leave, viewVars
<1>6. CASE OnShutdown(c)
  <2>1. Attached' => Attached
    BY <1>2, <1>6 DEF OnShutdown, Attached, Alive
  <2> QED
    BY <1>6, <2>1 DEF Side, OnShutdown, viewVars
<1>7. CASE Attach(c) /\ ~(c = epoch /\ Alive)
  <2>1. Attached' => Attached
    BY <1>2, <1>7 DEF Attach, Attached, Alive
  <2> QED
    BY <1>7, <2>1 DEF Side, Attach, viewVars
<1> QED
  BY <1>3, <1>4, <1>5, <1>6, <1>7

LEMMA CliSide ==
  ASSUME Tick \/ ExitFinish \/ Orphaned \/ CliExits \/ ShutdownEnds
  PROVE  Side
<1>1. CASE Tick \/ ExitFinish \/ Orphaned
  BY <1>1 DEF Side, Tick, ExitFinish, Orphaned, hostVars, viewVars, Attached, Alive
<1>2. CASE CliExits
  <2>1. Only("exit") \in UpFrame /\ Only("exit").t = "exit"
    BY UpFrames
  <2>2. up' = up \/ up' = ToEngine(<<Only("exit")>>)
    BY <1>2 DEF CliExits
  <2>3. up' = up \/ \E f \in UpFrame : f.t # "line" /\ up' = ToEngine(<<f>>)
    BY <2>1, <2>2
  <2> QED
    BY <1>2, <2>3 DEF Side, CliExits, viewVars, Attached, Alive
<1>3. CASE ShutdownEnds
  <2>1. Only("bye") \in UpFrame /\ Only("bye").t = "bye"
    BY UpFrames
  <2>2. up' = ToEngine(<<Only("bye")>>)
    BY <1>3 DEF ShutdownEnds
  <2>3. \E f \in UpFrame : f.t # "line" /\ up' = ToEngine(<<f>>)
    BY <2>1, <2>2
  <2> QED
    BY <1>3, <2>3 DEF Side, ShutdownEnds, viewVars, Attached, Alive
<1> QED
  BY <1>1, <1>2, <1>3

LEMMA StepKinds ==
  ASSUME Inv, Next
  PROVE  \/ Side
         \/ \E kind, wrote, to : Printed(kind, wrote, to)
         \/ Attach(epoch) /\ Alive
         \/ StartEngine \/ ReadHello \/ Hold \/ Restore \/ Consume
         \/ Kill \/ Detach \/ Sleep
<1>1. TypeInv
  BY DEF Inv
<1>2. CASE Tick \/ ExitFinish \/ Orphaned \/ CliExits \/ ShutdownEnds
  BY <1>2, CliSide
<1>3. CASE CliInitAnswer \/ CliMessage \/ CliAsk \/ CliResult
  BY <1>1, <1>3, CliPrints
<1>6. CASE SendUser \/ Answer
  BY <1>6 DEF Side, SendUser, Answer, Attached, Alive
<1>7. ASSUME NEW c \in Conns,
             \/ Attach(c) \/ OnInitialize(c) \/ OnUser(c) \/ OnAnswer(c) \/ OnAck(c)
             \/ OnDetach(c) \/ OnEof(c) \/ OnShutdown(c)
      PROVE  Side \/ (Attach(epoch) /\ Alive)
  <2>1. CASE Attach(c) /\ c = epoch /\ Alive
    BY <2>1
  <2>2. CASE ~(Attach(c) /\ c = epoch /\ Alive)
    BY <1>7, <2>2, HostSides
  <2> QED
    BY <2>1, <2>2
<1> QED
  BY <1>2, <1>3, <1>6, <1>7 DEF Next, Cli, HostStep, EngineStep

\* The hello of an engine that is attached stays what it is.
LEMMA HelloKept ==
  ASSUME TypeInv, EngineInv, Attached, engine' = engine, since' = since,
         up' = up \/ \E f \in UpFrame : up' = ToEngine(<<f>>)
  PROVE  /\ HelloSince' = HelloSince
         /\ working' = working => HelloBusy' = HelloBusy
<1>1. CASE engine # "connecting"
  BY <1>1 DEF HelloSince, HelloBusy
<1>2. CASE engine = "connecting"
  <2>1. up # << >> /\ up \in Seq(UpFrame)
    BY <1>2 DEF EngineInv, Attached, TypeInv, TypeOK
  <2>2. Head(up') = Head(up)
    <3>1. CASE up' = up
      BY <3>1
    <3>2. CASE \E f \in UpFrame : up' = up \o <<f>>
      <4>1. PICK f \in UpFrame : up' = up \o <<f>>
        BY <3>2
      <4> QED
        BY <2>1, <4>1, HeadKept
    <3> QED
      BY <3>1, <3>2 DEF ToEngine
  <2> QED
    BY <1>2, <2>2 DEF HelloSince, HelloBusy
<1> QED
  BY <1>1, <1>2

LEMMA SidePath ==
  ASSUME TypeInv, EngineInv, Side
  PROVE  SameComing /\ (Attached => HelloSince' = HelloSince)
<1>1. Attached => HelloSince' = HelloSince
  BY HelloKept DEF Side
<1>2. CASE up' = up
  BY <1>1, <1>2 DEF Side, SameComing, Path, Coming
<1>3. CASE \E f \in UpFrame : f.t # "line" /\ up' = ToEngine(<<f>>)
  <2>1. PICK f \in UpFrame : f.t # "line" /\ up' = ToEngine(<<f>>)
    BY <1>3
  <2>2. inbox' = inbox
    BY DEF Side
  <2>3. CASE writer = epoch /\ Alive
    <3>1. PathGains(f)
      BY <2>1, <2>2, <2>3, ToEngineAdds
    <3> QED
      BY <2>1, <3>1, <1>1, GainsComing DEF SameComing
  <2>4. CASE ~(writer = epoch /\ Alive)
    <3>1. Path' = Path
      BY <2>1, <2>2, <2>4, ToEngineAdds
    <3> QED
      BY <1>1, <3>1 DEF SameComing, Coming
  <2> QED
    BY <2>3, <2>4
<1> QED
  BY <1>2, <1>3 DEF Side

\* Nothing comes to an engine before it is attached.
LEMMA NotAttached ==
  ASSUME TypeInv, ConnInv, EngineInv, ~Attached, Alive
  PROVE  engine = "connecting" /\ Coming = {} /\ Path = << >> /\ up = << >> /\ inbox = << >>
<1>1. handler[epoch] = "hello"
  BY DEF ConnInv, Attached
<1>2. engine = "connecting" /\ up = << >> /\ inbox = << >>
  BY <1>1 DEF EngineInv, Alive
<1> QED
  BY <1>2, NothingComing

\* A line printed comes to the engine that is attached, and to no other.
LEMMA PrintedComing ==
  ASSUME TypeInv, ConnInv, EngineInv, NEW kind, NEW wrote, NEW to, Printed(kind, wrote, to)
  PROVE  /\ \A i \in Coming : i \in Coming' /\ Path'[i] = Path[i] /\ i < Len(Path) + 1
         /\ \A i \in Coming' : i \in Coming \/ (i = Len(Path) + 1 /\ Attached /\ writer = epoch)
         /\ Attached => /\ Len(Path) + 1 \in Coming'
         /\ Len(Path) + 1 \in Coming' => Path'[Len(Path) + 1] = LineOf(Len(lines) + 1, FALSE)
         /\ (Attached' <=> Attached) /\ (Attached => HelloSince' = HelloSince /\ HelloBusy' = HelloBusy)
         /\ UNCHANGED <<epoch, engine, since, skip, timeline, asks, working, replaced>>
<1> DEFINE f == LineOf(Len(lines) + 1, FALSE)
<1>1. /\ f \in UpFrame /\ up' = ToEngine(<<f>>) /\ inbox' = inbox /\ Len(lines) + 1 \in 1 .. MaxLines
  BY PrintedLines
<1>2. f.t = "line"
  BY DEF LineOf
<1> HIDE DEF f
<1>3. /\ UNCHANGED <<epoch, engine, since, skip, timeline, asks, working, handler, replaced>>
      /\ host # "done"
  BY DEF Printed, OnCliMessage, viewVars
<1>4. (Attached' <=> Attached)
  BY <1>3 DEF Attached, Alive
<1>5. Attached => HelloSince' = HelloSince /\ HelloBusy' = HelloBusy
  BY <1>1, <1>3, HelloKept
<1>6. Attached => writer = epoch /\ Alive
  BY <1>3 DEF ConnInv, Attached
<1>7. writer = epoch /\ Alive => Attached
  <2>1. SUFFICES ASSUME writer = epoch, Alive
                 PROVE  Attached
    OBVIOUS
  <2>2. writer # None
    <3>1. epoch \in Conns
      BY DEF TypeInv, TypeOK
    <3>2. None \notin Conns
      BY ConstantsAssumption DEF Conns
    <3> QED
      BY <2>1, <3>1, <3>2
  <2>3. handler[epoch] \in {"loop", "over"} /\ handler[epoch] \in {"hello", "loop"}
    BY <2>1, <2>2 DEF ConnInv
  <2> QED
    BY <2>1, <2>3 DEF Attached
<1>8. Len(Path) \in Nat /\ Coming \in SUBSET (1 .. Len(Path))
  BY PathFacts DEF TypeInv, TypeOK
<1>9. CASE writer = epoch /\ Alive
  <2>1. PathGains(f)
    BY <1>1, <1>9, ToEngineAdds
  <2>2. /\ \A i \in Coming : i \in Coming' /\ Path'[i] = Path[i] /\ i < Len(Path) + 1
        /\ \A i \in Coming' : i \in Coming \/ (i = Len(Path) + 1 /\ f.t = "line")
        /\ f.t = "line" => Len(Path) + 1 \in Coming' /\ Path'[Len(Path) + 1] = f
    BY <1>1, <2>1, GainsComing
  <2> QED
    BY <1>2, <1>3, <1>4, <1>5, <1>7, <1>9, <2>2 DEF f
<1>10. CASE ~(writer = epoch /\ Alive)
  <2>1. Path' = Path
    BY <1>1, <1>10, ToEngineAdds
  <2>2. Coming' = Coming
    BY <2>1 DEF Coming
  <2>3. Len(Path) + 1 \notin Coming' /\ \A i \in Coming : i < Len(Path) + 1
    BY <1>8, <2>2
  <2> QED
    BY <1>3, <1>4, <1>5, <1>6, <1>10, <2>1, <2>2, <2>3
<1> QED
  BY <1>9, <1>10

-----------------------------------------------------------------------------
(* The lines come in order.                                                *)

LEMMA OrderStep ==
  ASSUME Inv, Next
  PROVE  OrderInv'
<1>1. TypeInv /\ ConnInv /\ EngineInv /\ TimeInv /\ OrderInv
  BY DEF Inv
<1>2. /\ Coming \in SUBSET Nat /\ \A i \in Coming : i \in Nat /\ Path[i].n \in DOMAIN lines /\ Path[i].n \in Nat
  BY <1>1, ComingFacts
<1>3. ASSUME SameComing
      PROVE  OrderInv'
  BY <1>1, <1>3 DEF SameComing, OrderInv
<1>4. ASSUME NEW k, PathLoses(k)
      PROVE  OrderInv'
  <2>1. PICK g \in [Coming' -> Coming \ {k}] :
           /\ \A i \in Coming' : Path'[i] = Path[g[i]]
           /\ \A i, j \in Coming' : i < j <=> g[i] < g[j]
           /\ \A j \in Coming \ {k} : \E i \in Coming' : g[i] = j
    BY <1>1, <1>4, LosesComing
  <2>2. SUFFICES ASSUME NEW i \in Coming', NEW j \in Coming', i < j
                 PROVE  Path'[i].n < Path'[j].n
    BY DEF OrderInv
  <2>3. g[i] \in Coming /\ g[j] \in Coming /\ g[i] < g[j]
    BY <2>1, <2>2
  <2> QED
    BY <1>1, <2>1, <2>3 DEF OrderInv
<1>5. CASE Side
  BY <1>1, <1>3, <1>5, SidePath
<1>6. CASE \E kind, wrote, to : Printed(kind, wrote, to)
  <2>1. PICK kind, wrote, to : Printed(kind, wrote, to)
    BY <1>6
  <2> DEFINE q == Len(Path) + 1
             n == Len(lines) + 1
  <2>2. /\ \A i \in Coming : i \in Coming' /\ Path'[i] = Path[i] /\ i < q
        /\ \A i \in Coming' : i \in Coming \/ i = q
        /\ q \in Coming' => Path'[q] = LineOf(n, FALSE)
    BY <1>1, <2>1, PrintedComing
  <2>3. \A m \in DOMAIN lines : m < n
    BY <1>1, <2>1, PrintedLines
  <2>4. LineOf(n, FALSE).n = n
    BY DEF LineOf
  <2>5. q \in Nat
    BY <1>1, PathFacts DEF TypeInv, TypeOK
  <2> HIDE DEF q, n
  <2>6. SUFFICES ASSUME NEW i \in Coming', NEW j \in Coming', i < j
                 PROVE  Path'[i].n < Path'[j].n
    BY DEF OrderInv
  <2>7. CASE i \in Coming /\ j \in Coming
    BY <1>1, <2>2, <2>6, <2>7 DEF OrderInv
  <2>8. CASE i \in Coming /\ j = q
    BY <1>2, <2>2, <2>3, <2>4, <2>8
  <2>9. CASE i = q
    <3>1. j \in Coming \/ j = q
      BY <2>2
    <3>2. ~(q < j)
      <4>1. CASE j = q
        BY <2>5, <4>1
      <4>2. CASE j \in Coming
        <5>1. j \in Nat /\ j < q
          BY <1>2, <2>2, <4>2
        <5> QED
          BY <2>5, <5>1
      <4> QED
        BY <3>1, <4>1, <4>2
    <3> QED
      BY <2>6, <2>9, <3>2
  <2> QED
    BY <2>2, <2>7, <2>8, <2>9
<1>7. CASE Attach(epoch) /\ Alive
  <2>1. epoch \in Conns
    BY <1>1 DEF TypeInv, TypeOK
  <2> QED
    BY <1>1, <1>7, <2>1, AttachPath DEF OrderInv
<1>8. CASE StartEngine \/ Restore
  BY <1>3, <1>8 DEF StartEngine, Restore, SameComing, Coming, Path
<1>9. CASE ReadHello
  BY <1>1, <1>4, <1>9, HelloIsRead
<1>10. CASE Hold
  <2>1. Path' = Path \/ \E k : PathLoses(k) /\ IsInit(Path[k])
    BY <1>1, <1>10, HoldTakes
  <2>2. CASE Path' = Path
    BY <1>3, <2>2 DEF SameComing, Coming
  <2> QED
    BY <1>4, <2>1, <2>2
<1>11. CASE Consume
  BY <1>1, <1>4, <1>11, ConsumeTakes
<1>12. CASE Kill \/ Detach \/ Sleep
  <2>1. up' = << >> /\ inbox' = << >>
    BY <1>1, <1>12, Ends DEF Forget
  <2>2. Coming' = {}
    BY <2>1 DEF Coming, Path
  <2> QED
    BY <2>2 DEF OrderInv
<1> QED
  BY <1>5, <1>6, <1>7, <1>8, <1>9, <1>10, <1>11, <1>12, StepKinds

-----------------------------------------------------------------------------
(* The times.                                                              *)

LEMMA HelloSinceType ==
  ASSUME TypeInv, EngineInv, Attached
  PROVE  HelloSince \in 0 .. MaxTime /\ HelloBusy \in BOOLEAN
<1>1. CASE engine = "connecting"
  <2>1. up # << >> /\ Head(up).t = "hello" /\ up \in Seq(UpFrame)
    BY <1>1 DEF EngineInv, Attached, TypeInv, TypeOK
  <2>2. Head(up) \in UpFrame
    BY <2>1, Indices
  <2> QED
    BY <1>1, <2>1, <2>2, UpFrames DEF HelloSince, HelloBusy
<1>2. CASE engine # "connecting"
  BY <1>2 DEF HelloSince, HelloBusy, TypeInv, TypeOK
<1> QED
  BY <1>1, <1>2

\* The steps in which the engine reads keep what the hello said.
LEMMA Reads ==
  ASSUME TypeInv, ConnInv, EngineInv, ReadHello \/ Hold \/ Restore \/ Consume
  PROVE  /\ Attached /\ HelloSince' = HelloSince /\ (Attached' => Alive')
         /\ UNCHANGED <<clock, lines, hostVars, handler, cliVars, epoch, sends, replaced, crossed>>
         /\ ReadHello \/ Hold \/ Restore => UNCHANGED asks
         /\ ReadHello \/ Hold => UNCHANGED <<skip, timeline>>
         /\ ReadHello => HelloBusy' = HelloBusy
         /\ ReadHello \/ HelloBusy = working
<1>1. UNCHANGED <<clock, lines, hostVars, handler, cliVars, epoch, sends, replaced, crossed>>
  BY DEF ReadHello, Hold, Restore, Consume
<1>2. CASE ReadHello
  <2>1. handler[epoch] = "loop"
    BY <1>2, HelloIsRead
  <2>2. engine = "connecting" /\ engine' = "handshake" /\ since' = Head(up).since /\ working' = Head(up).busy
        /\ UNCHANGED <<skip, timeline, asks>>
    BY <1>2 DEF ReadHello
  <2> QED
    BY <1>1, <1>2, <2>1, <2>2 DEF Attached, Alive, HelloSince, HelloBusy
<1>3. CASE Hold \/ Restore \/ Consume
  <2>1. engine \in {"handshake", "restoring", "live"} /\ engine' # "connecting" /\ since' = since
    BY <1>3 DEF Hold, Restore, Consume, Process, viewVars
  <2>2. Alive /\ handler[epoch] = "loop"
    BY <2>1 DEF Alive, ConnInv, EngineInv
  <2>3. HelloSince' = HelloSince /\ HelloBusy = working
    BY <2>1 DEF HelloSince, HelloBusy
  <2>4. ~ReadHello
    BY <2>1 DEF ReadHello
  <2>5. Hold \/ Restore => UNCHANGED asks
    BY DEF Hold, Restore, viewVars
  <2>6. Hold => UNCHANGED <<skip, timeline>>
    BY DEF Hold, viewVars
  <2> QED
    BY <1>1, <2>2, <2>3, <2>4, <2>5, <2>6 DEF Attached
<1> QED
  BY <1>2, <1>3

LEMMA ClockSteps ==
  ASSUME Inv, Next
  PROVE  clock' \in {clock, clock + 1} /\ detachedAt' \in {detachedAt, clock, 0}
<1>1. TypeInv
  BY DEF Inv
<1>2. CASE Tick
  BY <1>2 DEF Tick, hostVars
<1>3. CASE CliInitAnswer \/ CliMessage \/ CliAsk \/ CliResult
  <2>1. PICK kind, wrote, to : Printed(kind, wrote, to)
    BY <1>1, <1>3, CliPrints
  <2> QED
    BY <2>1 DEF Printed, OnCliMessage
<1>4. CASE CliExits \/ ExitFinish \/ Orphaned \/ ShutdownEnds
  BY <1>4 DEF CliExits, ExitFinish, Orphaned, ShutdownEnds
<1>5. ASSUME NEW c \in Conns,
             \/ Attach(c) \/ OnInitialize(c) \/ OnUser(c) \/ OnAnswer(c) \/ OnAck(c)
             \/ OnDetach(c) \/ OnEof(c) \/ OnShutdown(c)
      PROVE  clock' \in {clock, clock + 1} /\ detachedAt' \in {detachedAt, clock, 0}
  BY <1>5 DEF Attach, OnInitialize, OnUser, OnAnswer, OnAck, OnDetach, OnEof, OnShutdown, Leave,
              DetachTime
<1>6. CASE StartEngine \/ ReadHello \/ Hold \/ Restore \/ Consume \/ SendUser \/ Answer
  BY <1>6 DEF StartEngine, ReadHello, Hold, Restore, Consume, SendUser, Answer, hostVars
<1>7. CASE Kill \/ Detach \/ Sleep
  BY <1>1, <1>7, Ends DEF Forget, hostVars
<1> QED
  BY <1>2, <1>3, <1>4, <1>5, <1>6, <1>7 DEF Next, Cli, HostStep, EngineStep

LEMMA LineTimes ==
  ASSUME TypeInv
  PROVE  /\ clock \in Nat /\ detachedAt \in Nat /\ DOMAIN lines = 1 .. Len(lines) /\ Len(lines) \in Nat
         /\ \A n \in DOMAIN lines : /\ lines[n].wrote \in Nat /\ lines[n].at \in Nat /\ n \in Nat
                                    /\ lines[n].at >= 1 /\ lines[n].wrote >= 1 /\ lines[n].kind \in Kinds
<1>1. /\ lines \in Seq(Line) /\ clock \in 1 .. MaxTime /\ detachedAt \in 0 .. MaxTime /\ MaxTime \in Nat
  BY ConstantsAssumption DEF TypeInv, TypeOK
<1>2. /\ DOMAIN lines = 1 .. Len(lines) /\ Len(lines) \in Nat
      /\ \A n \in DOMAIN lines : lines[n] \in Line /\ n \in Nat
  BY <1>1, Indices
<1> QED
  BY <1>1, <1>2 DEF Line

LEMMA TimeKept ==
  ASSUME TypeInv, TimeInv, lines' = lines, clock' \in {clock, clock + 1},
         detachedAt' \in {detachedAt, clock, 0},
         Attached' => HelloSince' < clock' /\ (epoch' \notin replaced' => HelloSince' # 0)
  PROVE  TimeInv'
<1>1. /\ clock \in Nat /\ detachedAt \in Nat /\ clock <= clock'
      /\ \A n \in DOMAIN lines : lines[n].wrote \in Nat /\ lines[n].at \in Nat
  BY LineTimes
<1>2. detachedAt' <= clock'
  BY <1>1 DEF TimeInv
<1>3. \A n \in DOMAIN lines' : lines'[n].at <= clock'
  BY <1>1 DEF TimeInv
<1> QED
  BY <1>2, <1>3 DEF TimeInv

LEMMA TimeStep ==
  ASSUME Inv, Next
  PROVE  TimeInv'
<1>1. TypeInv /\ ConnInv /\ EngineInv /\ TimeInv
  BY DEF Inv
<1>2. clock' \in {clock, clock + 1} /\ detachedAt' \in {detachedAt, clock, 0}
  BY ClockSteps
<1>3. clock \in Nat /\ detachedAt \in Nat /\ clock \in 1 .. MaxTime
  BY <1>1, LineTimes DEF TypeInv, TypeOK
<1>4. Attached => HelloSince < clock /\ (epoch \notin replaced => HelloSince # 0)
                  /\ HelloSince < clock' /\ HelloSince \in Nat
  BY <1>1, <1>2, <1>3, HelloSinceType DEF TimeInv
<1>5. CASE Side
  <2>1. lines' = lines /\ epoch' = epoch /\ replaced \subseteq replaced' /\ (Attached' => Attached)
    BY <1>5 DEF Side
  <2>2. Attached => HelloSince' = HelloSince
    BY <1>1, <1>5, SidePath
  <2> QED
    BY <1>1, <1>2, <1>4, <2>1, <2>2, TimeKept
<1>6. CASE \E kind, wrote, to : Printed(kind, wrote, to)
  <2>1. PICK kind, wrote, to : Printed(kind, wrote, to)
    BY <1>6
  <2> DEFINE n == Len(lines) + 1
  <2>2. /\ DOMAIN lines = 1 .. Len(lines) /\ Len(lines) \in Nat
        /\ \A m \in DOMAIN lines : m \in DOMAIN lines' /\ m < n /\ lines'[m] = lines[m]
        /\ \A m \in DOMAIN lines' : m \in DOMAIN lines \/ m = n
        /\ lines'[n].kind = kind /\ lines'[n].wrote = wrote /\ lines'[n].at = clock
    BY <1>1, <2>1, PrintedLines
  <2>3. clock' = clock /\ detachedAt' = detachedAt
    BY <2>1 DEF Printed, OnCliMessage
  <2>4. /\ (Attached' <=> Attached) /\ (Attached => HelloSince' = HelloSince)
        /\ UNCHANGED <<epoch, replaced>>
    BY <1>1, <2>1, PrintedComing
  <2>5. /\ wrote \in Nat /\ wrote <= clock /\ (kind # "msg" => wrote = clock)
        /\ (kind = "msg" => \A m \in DOMAIN lines : lines[m].wrote <= wrote)
    BY <1>3, <2>1 DEF Printed
  <2>6. \A m \in DOMAIN lines : /\ lines[m].wrote <= lines[m].at /\ lines[m].at <= clock
                                /\ (lines[m].kind # "msg" => lines[m].wrote = lines[m].at)
                                /\ lines[m].wrote \in Nat /\ lines[m].at \in Nat /\ m \in Nat
    BY <1>1, LineTimes DEF TimeInv
  <2>7. \A m \in DOMAIN lines : lines[m].wrote <= wrote
    BY <1>3, <2>5, <2>6
  <2> HIDE DEF n
  <2>8. \A m \in DOMAIN lines' : /\ lines'[m].wrote <= lines'[m].at /\ lines'[m].at <= clock'
                                 /\ (lines'[m].kind # "msg" => lines'[m].wrote = lines'[m].at)
    <3> SUFFICES ASSUME NEW m \in DOMAIN lines'
                 PROVE  /\ lines'[m].wrote <= lines'[m].at /\ lines'[m].at <= clock'
                        /\ (lines'[m].kind # "msg" => lines'[m].wrote = lines'[m].at)
      OBVIOUS
    <3>1. CASE m = n
      BY <1>3, <2>2, <2>3, <2>5, <3>1
    <3>2. CASE m \in DOMAIN lines
      BY <2>2, <2>3, <2>6, <3>2
    <3> QED
      BY <2>2, <3>1, <3>2
  <2>9. ASSUME NEW l \in DOMAIN lines', NEW m \in DOMAIN lines', l < m
        PROVE  lines'[l].wrote <= lines'[m].wrote /\ lines'[l].at <= lines'[m].at
    <3>1. CASE m \in DOMAIN lines /\ l \in DOMAIN lines
      BY <1>1, <2>2, <2>9, <3>1 DEF TimeInv
    <3>2. CASE m = n /\ l \in DOMAIN lines
      BY <2>2, <2>6, <2>7, <3>2
    <3>3. CASE l = n
      <4>1. n \in Nat
        BY <2>2 DEF n
      <4>2. m = n \/ (m \in Nat /\ m < n)
        BY <2>2, <2>6
      <4> QED
        BY <2>9, <3>3, <4>1, <4>2
    <3> QED
      BY <2>2, <3>1, <3>2, <3>3
  <2>10. detachedAt' <= clock'
    BY <1>1, <2>3 DEF TimeInv
  <2>11. Attached' => HelloSince' < clock' /\ (epoch' \notin replaced' => HelloSince' # 0)
    BY <1>4, <2>3, <2>4
  <2> QED
    BY <2>8, <2>9, <2>10, <2>11 DEF TimeInv
<1>7. CASE Attach(epoch) /\ Alive
  <2>1. epoch \in Conns
    BY <1>1 DEF TypeInv, TypeOK
  <2>2. Head(up').since = detachedAt /\ engine = "connecting"
    BY <1>1, <1>7, <2>1, AttachPath
  <2>3. /\ lines' = lines /\ engine' = engine /\ clock > detachedAt /\ clock' = clock /\ epoch' = epoch
        /\ replaced' = (IF writer # None THEN replaced \cup {epoch} ELSE replaced) /\ host # "done"
    BY <1>7 DEF Attach
  <2>4. HelloSince' = detachedAt
    BY <2>2, <2>3 DEF HelloSince
  <2>5. writer = None => detachedAt # 0
    BY <1>1, <2>3 DEF TypeInv, TypeOK
  <2>6. epoch' \notin replaced' => HelloSince' # 0
    BY <2>3, <2>4, <2>5
  <2>7. HelloSince' < clock'
    BY <1>3, <2>3, <2>4
  <2> QED
    BY <1>1, <1>2, <2>3, <2>6, <2>7, TimeKept
<1>8. CASE StartEngine
  <2>1. lines' = lines /\ handler' = [handler EXCEPT ![epoch'] = "hello"]
    BY <1>8 DEF StartEngine
  <2>2. TypeInv'
    BY <1>8, EngineTypes DEF EngineStep
  <2>3. handler'[epoch'] = "hello"
    BY <1>1, <2>1, <2>2 DEF TypeInv, TypeOK
  <2>4. ~Attached'
    BY <2>3 DEF Attached
  <2> QED
    BY <1>1, <1>2, <2>1, <2>4, TimeKept
<1>9. CASE ReadHello \/ Hold \/ Restore \/ Consume
  <2>1. Attached /\ HelloSince' = HelloSince /\ UNCHANGED <<lines, epoch, replaced>>
    BY <1>1, <1>9, Reads
  <2> QED
    BY <1>1, <1>2, <1>4, <2>1, TimeKept
<1>10. CASE Kill \/ Detach \/ Sleep
  <2>1. lines' = lines /\ ~Attached'
    BY <1>1, <1>10, Ends DEF Forget, Attached, Alive
  <2> QED
    BY <1>1, <1>2, <2>1, TimeKept
<1> QED
  BY <1>5, <1>6, <1>7, <1>8, <1>9, <1>10, StepKinds

-----------------------------------------------------------------------------
(* What is printed while no engine is attached stays in the buffer.        *)

\* No new acknowledgement is on its way.
AckFrom ==
  \A d \in Conns : \A i \in DOMAIN down'[d] : down'[d][i].t = "ack" =>
    \E j \in DOMAIN down[d] : down[d][j] = down'[d][i]

LEMMA BufferKept ==
  ASSUME BufferInv, AckFrom, UNCHANGED <<lines, buf, lastAck, writer, detachedAt>>,
         host' # "done" => host # "done"
  PROVE  BufferInv'
<1>1. SUFFICES ASSUME writer = None, host # "done", NEW n \in DOMAIN lines, lines[n].at > detachedAt
               PROVE  /\ n \in buf /\ lastAck < n
                      /\ \A c \in Conns : \A i \in DOMAIN down'[c] :
                           down'[c][i].t = "ack" => down'[c][i].n < n
  BY DEF BufferInv
<1>2. /\ n \in buf /\ lastAck < n
      /\ \A c \in Conns : \A i \in DOMAIN down[c] : down[c][i].t = "ack" => down[c][i].n < n
  BY <1>1 DEF BufferInv
<1>3. ASSUME NEW c \in Conns, NEW i \in DOMAIN down'[c], down'[c][i].t = "ack"
      PROVE  down'[c][i].n < n
  <2>1. PICK j \in DOMAIN down[c] : down[c][j] = down'[c][i]
    BY <1>3 DEF AckFrom
  <2> QED
    BY <1>2, <1>3, <2>1
<1> QED
  BY <1>2, <1>3

LEMMA SentNoAck ==
  ASSUME TypeInv, NEW f \in DownFrame, f.t # "ack", down' = ToHost(<<f>>)
  PROVE  AckFrom
<1>1. \A d \in Conns : \A i \in DOMAIN down'[d] :
        \/ down'[d][i] = f /\ d = epoch
        \/ i \in DOMAIN down[d] /\ down'[d][i] = down[d][i]
  BY ToHostAdds
<1> QED
  BY <1>1 DEF AckFrom

LEMMA BufferStep ==
  ASSUME Inv, Next
  PROVE  BufferInv'
<1>1. TypeInv /\ ConnInv /\ EngineInv /\ TimeInv /\ BufferInv
  BY DEF Inv
<1>2. /\ epoch \in Conns /\ None \notin Conns
      /\ clock \in Nat /\ detachedAt \in Nat /\ DOMAIN lines = 1 .. Len(lines) /\ Len(lines) \in Nat
      /\ \A n \in DOMAIN lines : lines[n].at \in Nat /\ lines[n].at <= clock /\ n \in Nat
      /\ lastAck \in 0 .. Len(lines) /\ buf \subseteq DOMAIN lines
  <2>1. epoch \in Conns /\ lastAck \in 0 .. Len(lines) /\ buf \subseteq DOMAIN lines
    BY <1>1 DEF TypeInv, TypeOK
  <2>2. None \notin Conns
    BY ConstantsAssumption DEF Conns
  <2>3. \A n \in DOMAIN lines : lines[n].at <= clock
    BY <1>1 DEF TimeInv
  <2> QED
    BY <1>1, <2>1, <2>2, <2>3, LineTimes
<1>3. DownFrom => AckFrom
  BY DEF DownFrom, AckFrom
<1>4. down' = down => AckFrom
  BY DEF AckFrom
<1>5. CASE Tick
  BY <1>1, <1>4, <1>5, BufferKept DEF Tick, hostVars
<1>6. CASE CliInitAnswer \/ CliMessage \/ CliAsk \/ CliResult
  <2>1. PICK kind, wrote, to : Printed(kind, wrote, to)
    BY <1>1, <1>6, CliPrints
  <2> DEFINE n == Len(lines) + 1
  <2>2. /\ \A m \in DOMAIN lines' : m \in DOMAIN lines \/ m = n
        /\ \A m \in DOMAIN lines : lines'[m] = lines[m]
    BY <1>1, <2>1, PrintedLines
  <2>3. /\ UNCHANGED <<host, lastAck, writer, detachedAt, down>> /\ buf' = buf \cup {n}
    BY <2>1 DEF Printed, OnCliMessage
  <2>4. /\ lastAck < n
        /\ \A c \in Conns : \A i \in DOMAIN down[c] : down[c][i].t = "ack" => down[c][i].n < n
    <3>1. \A m \in 0 .. Len(lines) : m < n
      BY <1>2
    <3>2. \A c \in Conns : \A i \in DOMAIN down[c] :
            down[c][i].t = "ack" => down[c][i].n \in 0 .. Len(lines)
      BY <1>1 DEF TypeInv, FramesInv
    <3> QED
      BY <1>2, <3>1, <3>2
  <2> HIDE DEF n
  <2>5. SUFFICES ASSUME writer = None, host # "done", NEW m \in DOMAIN lines', lines'[m].at > detachedAt
                 PROVE  /\ m \in buf' /\ lastAck < m
                        /\ \A c \in Conns : \A i \in DOMAIN down[c] :
                             down[c][i].t = "ack" => down[c][i].n < m
    BY <2>3 DEF BufferInv
  <2>6. CASE m = n
    BY <2>3, <2>4, <2>6
  <2>7. CASE m \in DOMAIN lines
    BY <1>1, <2>2, <2>3, <2>5, <2>7 DEF BufferInv
  <2> QED
    BY <2>2, <2>6, <2>7
<1>7. CASE CliExits \/ ExitFinish \/ Orphaned
  <2>1. /\ UNCHANGED <<lines, buf, lastAck, writer, detachedAt, down>>
        /\ (host' # "done" => host # "done")
    BY <1>7 DEF CliExits, ExitFinish, Orphaned
  <2> QED
    BY <1>1, <1>4, <2>1, BufferKept
<1>8. CASE ShutdownEnds
  BY <1>8 DEF ShutdownEnds, BufferInv
<1>9. ASSUME NEW c \in Conns, OnInitialize(c) \/ OnUser(c) \/ OnAnswer(c) \/ OnShutdown(c)
      PROVE  BufferInv'
  <2>1. DownFrom /\ host # "done"
    BY <1>1, <1>9, FrameTaken DEF OnInitialize, OnUser, OnAnswer, OnShutdown, DownFrom
  <2>2. UNCHANGED <<lines, buf, lastAck, writer, detachedAt>>
    BY <1>9 DEF OnInitialize, OnUser, OnAnswer, OnShutdown
  <2> QED
    BY <1>1, <1>3, <2>1, <2>2, BufferKept
<1>10. ASSUME NEW c \in Conns, Attach(c)
       PROVE  BufferInv'
  <2>1. writer' = c
    BY <1>10 DEF Attach
  <2> QED
    BY <1>2, <2>1 DEF BufferInv
<1>11. ASSUME NEW c \in Conns, OnDetach(c) \/ OnEof(c)
       PROVE  BufferInv'
  <2>1. Leave(c) /\ DownFrom
    BY <1>1, <1>11, Leaves
  <2>2. CASE writer = c
    <3>1. lines' = lines /\ detachedAt' = clock
      BY <2>1, <2>2 DEF Leave, DetachTime
    <3>2. \A n \in DOMAIN lines' : ~(lines'[n].at > detachedAt')
      BY <1>2, <3>1
    <3> QED
      BY <3>2 DEF BufferInv
  <2>3. CASE writer # c
    <3>1. UNCHANGED <<lines, buf, lastAck, writer, detachedAt, host>>
      BY <2>1, <2>3 DEF Leave, DetachTime
    <3> QED
      BY <1>1, <1>3, <2>1, <3>1, BufferKept
  <2> QED
    BY <2>2, <2>3
<1>12. ASSUME NEW c \in Conns, OnAck(c)
       PROVE  BufferInv'
  <2>1. DownFrom /\ host # "done" /\ Head(down[c]) = down[c][1] /\ down[c][1].t = "ack" /\ 1 \in DOMAIN down[c]
    BY <1>1, <1>12, FrameTaken DEF OnAck, DownFrom
  <2> DEFINE a == down[c][1].n
  <2>2. /\ lastAck' = Larger(lastAck, a) /\ buf' = {n \in buf : n > lastAck' \/ n > lastTurnEnd}
        /\ UNCHANGED <<lines, writer, detachedAt, host>>
    BY <1>12, <2>1 DEF OnAck
  <2>3. a \in Nat
    BY <1>1, <1>2, <2>1 DEF TypeInv, FramesInv
  <2> HIDE DEF a
  <2>4. SUFFICES ASSUME writer = None, NEW n \in DOMAIN lines, lines[n].at > detachedAt
                 PROVE  /\ n \in buf' /\ lastAck' < n
                        /\ \A d \in Conns : \A i \in DOMAIN down'[d] :
                             down'[d][i].t = "ack" => down'[d][i].n < n
    BY <2>2 DEF BufferInv
  <2>5. /\ n \in buf /\ lastAck < n
        /\ \A d \in Conns : \A i \in DOMAIN down[d] : down[d][i].t = "ack" => down[d][i].n < n
    BY <1>1, <2>1, <2>4 DEF BufferInv
  <2>6. a < n
    BY <2>1, <2>5 DEF a
  <2>7. lastAck' < n /\ lastAck' \in Nat
    BY <1>2, <2>2, <2>3, <2>5, <2>6 DEF Larger
  <2>8. n \in buf'
    BY <1>2, <2>2, <2>5, <2>7
  <2>9. ASSUME NEW d \in Conns, NEW i \in DOMAIN down'[d], down'[d][i].t = "ack"
        PROVE  down'[d][i].n < n
    <3>1. PICK j \in DOMAIN down[d] : down'[d][i] = down[d][j]
      BY <2>1 DEF DownFrom
    <3> QED
      BY <2>5, <2>9, <3>1
  <2> QED
    BY <2>7, <2>8, <2>9
<1>13. CASE StartEngine
  BY <1>1, <1>4, <1>13, BufferKept DEF StartEngine, hostVars
<1>14. CASE ReadHello
  <2>1. Only("init") \in DownFrame /\ Only("init").t # "ack"
    BY DownFrames
  <2>2. AckFrom
    BY <1>1, <1>14, <2>1, SentNoAck DEF ReadHello
  <2> QED
    BY <1>1, <1>14, <2>2, BufferKept DEF ReadHello, hostVars
<1>15. CASE Hold \/ Restore \/ Consume
  <2>1. Attached /\ UNCHANGED <<hostVars, lines>>
    BY <1>1, <1>15, Reads
  <2>2. host # "done" => writer' # None
    BY <1>1, <1>2, <2>1 DEF ConnInv, hostVars
  <2> QED
    BY <2>1, <2>2 DEF BufferInv, hostVars
<1>16. CASE SendUser
  <2>1. Only("user") \in DownFrame /\ Only("user").t # "ack"
    BY DownFrames
  <2>2. AckFrom
    BY <1>1, <1>16, <2>1, SentNoAck DEF SendUser
  <2> QED
    BY <1>1, <1>16, <2>2, BufferKept DEF SendUser, hostVars
<1>17. CASE Answer
  <2>1. PICK n \in asks : down' = ToHost(<<With("answer", n)>>)
    BY <1>17 DEF Answer
  <2>2. n \in 0 .. MaxLines
    <3>1. asks \subseteq DOMAIN lines
      BY <1>1 DEF TypeInv, TypeOK
    <3>2. Len(lines) <= MaxLines /\ MaxLines \in Nat
      BY <1>1, ConstantsAssumption DEF TypeInv, TypeOK
    <3>3. Len(lines) \in Nat /\ DOMAIN lines = 1 .. Len(lines)
      BY <1>1, ComingFacts
    <3> QED
      BY <2>1, <3>1, <3>2, <3>3
  <2>3. With("answer", n) \in DownFrame /\ With("answer", n).t # "ack"
    BY <2>2, DownFrames
  <2>4. AckFrom
    BY <1>1, <2>1, <2>3, SentNoAck
  <2> QED
    BY <1>1, <1>17, <2>4, BufferKept DEF Answer, hostVars
<1>18. CASE Kill \/ Detach \/ Sleep
  <2>1. /\ Forget /\ \A d \in Conns : d # epoch => down'[d] = down[d]
        /\ \A i \in DOMAIN down'[epoch] :
              \/ i \in DOMAIN down[epoch] /\ down'[epoch][i] = down[epoch][i]
              \/ down'[epoch][i].t \in {"detach", "shutdown"}
    BY <1>1, <1>18, Ends
  <2>2. AckFrom
    BY <2>1 DEF AckFrom
  <2> QED
    BY <1>1, <2>1, <2>2, BufferKept DEF Forget, hostVars
<1> QED
  BY <1>5, <1>6, <1>7, <1>8, <1>9, <1>10, <1>11, <1>12, <1>13, <1>14, <1>15, <1>16, <1>17, <1>18
  DEF Next, Cli, HostStep, EngineStep

-----------------------------------------------------------------------------
(* Every message is known, is coming, or will be restored.                 *)

LEMMA AppendedSet ==
  ASSUME NEW S, NEW s \in Seq(S), NEW e \in S
  PROVE  /\ ToSet(Append(s, e)) = ToSet(s) \cup {e}
         /\ Len(s) \in Nat /\ DOMAIN s = 1 .. Len(s) /\ DOMAIN Append(s, e) = 1 .. Len(s) + 1
         /\ \A i \in 1 .. Len(s) : Append(s, e)[i] = s[i]
         /\ Append(s, e)[Len(s) + 1] = e
<1>1. /\ Append(s, e) \in Seq(S) /\ Len(Append(s, e)) = Len(s) + 1 /\ Append(s, e)[Len(s) + 1] = e
      /\ \A i \in 1 .. Len(s) : Append(s, e)[i] = s[i]
  BY AppendProperties
<1>2. Len(s) \in Nat /\ DOMAIN s = 1 .. Len(s) /\ DOMAIN Append(s, e) = 1 .. Len(s) + 1
  BY <1>1, LenProperties
<1>3. \A x \in ToSet(Append(s, e)) : x \in ToSet(s) \/ x = e
  BY <1>1, <1>2 DEF ToSet
<1>4. \A x \in ToSet(s) : x \in ToSet(Append(s, e))
  BY <1>1, <1>2 DEF ToSet
<1>5. e \in ToSet(Append(s, e))
  BY <1>1, <1>2 DEF ToSet
<1> QED
  BY <1>1, <1>2, <1>3, <1>4, <1>5

\* The engine takes a message that is new to it.
Fresh == 1 \in Coming /\ lines[Path[1].n].kind = "msg" /\ ~IsDup(Path[1])

\* What the engine makes of the frame it processes.
LEMMA Processes ==
  ASSUME TypeInv, ConnInv, EngineInv, Consume
  PROVE  /\ Attached /\ engine = "live" /\ engine' \in {"live", "gone"} /\ skip' = skip
         /\ PathLoses(1) /\ (Path[1].t = "line" <=> 1 \in Coming)
         /\ 1 \in Coming => Path[1].n \in DOMAIN lines /\ engine' = "live"
         /\ \A i \in Coming : i >= 1
         /\ Fresh => /\ timeline' = Append(timeline, Path[1].n) /\ working' = TRUE
         /\ ~Fresh => /\ timeline' = timeline
                      /\ 1 \in Coming /\ lines[Path[1].n].kind = "result" => working' = FALSE
                      /\ ~(1 \in Coming /\ lines[Path[1].n].kind = "result") => working' = working
         /\ 1 \in Coming /\ lines[Path[1].n].kind = "ask" => asks' = asks \cup {Path[1].n}
         /\ ~(1 \in Coming /\ lines[Path[1].n].kind = "ask") => asks' = asks
<1> DEFINE frame == Path[1]
           kind == IF frame.t = "line" THEN lines[frame.n].kind ELSE "end"
<1>1. engine = "live" /\ PathLoses(1) /\ Process(Path[1]) /\ Path[1] \in UpFrame
  BY ConsumeTakes
<1>2. 1 \in DOMAIN Path /\ \A i \in Coming : i >= 1
  BY <1>1, PathFacts DEF PathLoses, TypeInv, TypeOK
<1>3. (frame.t = "line" <=> 1 \in Coming)
  BY <1>2 DEF Coming
<1>4. 1 \in Coming => frame.n \in DOMAIN lines
  BY ComingFacts
<1>5. Attached /\ skip' = skip
  BY Reads DEF Consume
<1>6. /\ engine' = (IF frame.t \in {"exit", "bye"} THEN "gone" ELSE engine)
      /\ IF kind = "msg" /\ IsDup(frame) THEN UNCHANGED <<timeline, asks, working>>
         ELSE /\ timeline' = (IF kind = "msg" THEN Append(timeline, frame.n) ELSE timeline)
              /\ asks' = (IF kind = "ask" THEN asks \cup {frame.n} ELSE asks)
              /\ working' = (kind # "result" /\ (working \/ kind = "msg"))
  BY <1>1 DEF Process
<1>7. working \in BOOLEAN
  BY DEF TypeInv, TypeOK
<1> HIDE DEF frame
<1>8. Fresh <=> kind = "msg" /\ ~IsDup(frame)
  BY <1>3 DEF Fresh, frame
<1>9. (1 \in Coming /\ lines[frame.n].kind = "result") <=> kind = "result"
  BY <1>3
<1>10. (1 \in Coming /\ lines[frame.n].kind = "ask") <=> kind = "ask"
  BY <1>3
<1>11. 1 \in Coming => engine' = "live"
  BY <1>1, <1>3, <1>6
<1>12. engine' \in {"live", "gone"}
  BY <1>1, <1>6
<1> HIDE DEF kind
<1>13. Fresh => timeline' = Append(timeline, frame.n) /\ working' = TRUE
  BY <1>6, <1>8
<1>14. ~Fresh => timeline' = timeline
  BY <1>6, <1>8
<1>15. kind = "result" => working' = FALSE
  BY <1>6
<1>16. ~Fresh /\ kind # "result" => working' = working
  BY <1>6, <1>7, <1>8
<1>17. kind = "ask" => asks' = asks \cup {frame.n}
  BY <1>6
<1>18. kind # "ask" => asks' = asks
  BY <1>6
<1> QED
  BY <1>1, <1>2, <1>3, <1>4, <1>5, <1>8, <1>9, <1>10, <1>11, <1>12, <1>13, <1>14, <1>15, <1>16,
     <1>17, <1>18 DEF frame

\* What is replayed holds every message of which the transcript before the detach has not.
LEMMA ReplayedMessages ==
  ASSUME TypeInv, ConnInv, EngineInv, TimeInv, BufferInv, host # "done", handler[epoch] = "hello",
         Alive, NEW n \in MessageLines
  PROVE  n \in Replayed \/ (epoch # 1 /\ (detachedAt = 0 \/ lines[n].wrote <= detachedAt))
<1>1. /\ n \in DOMAIN lines /\ lines[n].at \in Nat /\ detachedAt \in Nat /\ lines[n].wrote \in Nat
      /\ lines[n].wrote <= lines[n].at
  BY LineTimes DEF MessageLines, TimeInv
<1>2. epoch # 1
  BY <1>1 DEF EngineInv
<1>3. CASE writer # None
  BY <1>2, <1>3 DEF TypeInv, TypeOK
<1>4. CASE writer = None /\ lines[n].at > detachedAt
  BY <1>1, <1>4 DEF BufferInv, Replayed
<1>5. CASE ~(lines[n].at > detachedAt)
  BY <1>1, <1>2, <1>5
<1> QED
  BY <1>3, <1>4, <1>5

LEMMA KnownStep ==
  ASSUME Inv, Next
  PROVE  KnownInv'
<1>1. TypeInv /\ ConnInv /\ EngineInv /\ TimeInv /\ BufferInv /\ KnownInv
  BY DEF Inv
<1>2. /\ skip \subseteq ToSet(timeline) /\ ToSet(timeline) \subseteq MessageLines
      /\ Attached => \A n \in MessageLines :
           \/ n \in ToSet(timeline)
           \/ \E i \in Coming : Path[i].n = n
           \/ engine # "live" /\ epoch # 1 /\ (HelloSince = 0 \/ lines[n].wrote <= HelloSince)
  BY <1>1 DEF KnownInv
<1>3. CASE Side
  <2>1. UNCHANGED <<lines, epoch, engine, skip, timeline>> /\ (Attached' => Attached)
    BY <1>3 DEF Side
  <2>2. SameComing /\ (Attached => HelloSince' = HelloSince)
    BY <1>1, <1>3, SidePath
  <2> QED
    BY <1>2, <2>1, <2>2 DEF KnownInv, SameComing, MessageLines
<1>4. CASE \E kind, wrote, to : Printed(kind, wrote, to)
  <2>1. PICK kind, wrote, to : Printed(kind, wrote, to)
    BY <1>4
  <2> DEFINE q == Len(Path) + 1
             n == Len(lines) + 1
  <2>2. /\ \A i \in Coming : i \in Coming' /\ Path'[i] = Path[i]
        /\ Attached => q \in Coming'
        /\ q \in Coming' => Path'[q] = LineOf(n, FALSE)
        /\ (Attached' <=> Attached) /\ (Attached => HelloSince' = HelloSince)
        /\ UNCHANGED <<epoch, engine, since, skip, timeline>>
    BY <1>1, <2>1, PrintedComing
  <2>3. /\ \A m \in DOMAIN lines : m \in DOMAIN lines' /\ lines'[m] = lines[m]
        /\ \A m \in DOMAIN lines' : m \in DOMAIN lines \/ m = n
    BY <1>1, <2>1, PrintedLines
  <2>4. LineOf(n, FALSE).n = n
    BY DEF LineOf
  <2> HIDE DEF q, n
  <2>5. /\ \A m \in MessageLines : m \in MessageLines' /\ lines'[m] = lines[m]
        /\ \A m \in MessageLines' : m \in MessageLines \/ m = n
    BY <2>3 DEF MessageLines
  <2>6. ASSUME Attached', NEW m \in MessageLines'
        PROVE  \/ m \in ToSet(timeline')
               \/ \E i \in Coming' : Path'[i].n = m
               \/ engine' # "live" /\ epoch' # 1 /\ (HelloSince' = 0 \/ lines'[m].wrote <= HelloSince')
    <3>1. CASE m = n
      BY <2>2, <2>4, <2>6, <3>1
    <3>2. CASE m \in MessageLines
      <4>1. \/ m \in ToSet(timeline)
            \/ \E i \in Coming : Path[i].n = m
            \/ engine # "live" /\ epoch # 1 /\ (HelloSince = 0 \/ lines[m].wrote <= HelloSince)
        BY <1>2, <2>2, <2>6, <3>2
      <4> QED
        BY <2>2, <2>5, <2>6, <3>2, <4>1
    <3> QED
      BY <2>5, <3>1, <3>2
  <2>7. skip' \subseteq ToSet(timeline') /\ ToSet(timeline') \subseteq MessageLines'
    BY <1>2, <2>2, <2>5
  <2> QED
    BY <2>6, <2>7 DEF KnownInv
<1>5. CASE Attach(epoch) /\ Alive
  <2>1. epoch \in Conns
    BY <1>1 DEF TypeInv, TypeOK
  <2>2. /\ engine = "connecting" /\ Head(up').since = detachedAt
        /\ \A n \in Replayed : \E i \in Coming' : Path'[i].n = n
    BY <1>1, <1>5, <2>1, AttachPath
  <2>3. /\ UNCHANGED <<lines, epoch, engine, skip, timeline>> /\ host # "done" /\ handler[epoch] = "hello"
    BY <1>5 DEF Attach, viewVars
  <2>4. HelloSince' = detachedAt
    BY <2>2, <2>3 DEF HelloSince
  <2>5. MessageLines' = MessageLines
    BY <2>3 DEF MessageLines
  <2>6. ASSUME NEW n \in MessageLines'
        PROVE  \/ \E i \in Coming' : Path'[i].n = n
               \/ engine' # "live" /\ epoch' # 1 /\ (HelloSince' = 0 \/ lines'[n].wrote <= HelloSince')
    <3>1. n \in Replayed \/ (epoch # 1 /\ (detachedAt = 0 \/ lines[n].wrote <= detachedAt))
      BY <1>1, <1>5, <2>3, <2>5, ReplayedMessages
    <3> QED
      BY <2>2, <2>3, <2>4, <3>1
  <2> QED
    BY <1>2, <2>3, <2>5, <2>6 DEF KnownInv
<1>6. CASE StartEngine
  <2>1. UNCHANGED <<lines, skip, timeline>> /\ handler' = [handler EXCEPT ![epoch'] = "hello"]
    BY <1>6 DEF StartEngine, viewVars
  <2>2. TypeInv'
    BY <1>6, EngineTypes DEF EngineStep
  <2>3. handler'[epoch'] = "hello"
    BY <1>1, <2>1, <2>2 DEF TypeInv, TypeOK
  <2> QED
    BY <1>2, <2>1, <2>3 DEF KnownInv, Attached, MessageLines
<1>7. ASSUME NEW k, PathLoses(k)
      PROVE  \A j \in Coming : j # k => \E i \in Coming' : Path'[i] = Path[j]
  <2>1. PICK g \in [Coming' -> Coming \ {k}] :
           /\ \A i \in Coming' : Path'[i] = Path[g[i]]
           /\ \A i, j \in Coming' : i < j <=> g[i] < g[j]
           /\ \A j \in Coming \ {k} : \E i \in Coming' : g[i] = j
    BY <1>1, <1>7, LosesComing
  <2> SUFFICES ASSUME NEW j \in Coming, j # k
               PROVE  \E i \in Coming' : Path'[i] = Path[j]
    OBVIOUS
  <2>2. PICK i \in Coming' : g[i] = j
    BY <2>1
  <2> QED
    BY <2>1, <2>2
<1>8. CASE ReadHello
  <2>1. /\ UNCHANGED <<lines, epoch, skip, timeline>> /\ HelloSince' = HelloSince /\ Attached
    BY <1>1, <1>8, Reads
  <2>2. PathLoses(1) /\ 1 \notin Coming
    BY <1>1, <1>8, HelloIsRead DEF Coming
  <2>3. \A j \in Coming : \E i \in Coming' : Path'[i] = Path[j]
    BY <1>7, <2>2
  <2>4. engine # "live" /\ engine' # "live"
    BY <1>8 DEF ReadHello
  <2>5. MessageLines' = MessageLines
    BY <2>1 DEF MessageLines
  <2> QED
    BY <1>2, <2>1, <2>3, <2>4, <2>5 DEF KnownInv
<1>9. CASE Hold
  <2>1. /\ UNCHANGED <<lines, epoch, skip, timeline>> /\ HelloSince' = HelloSince /\ Attached
    BY <1>1, <1>9, Reads
  <2>2. Path' = Path \/ \E k : PathLoses(k) /\ IsInit(Path[k])
    BY <1>1, <1>9, HoldTakes
  <2>3. ASSUME NEW j \in Coming, lines[Path[j].n].kind = "msg"
        PROVE  \E i \in Coming' : Path'[i] = Path[j]
    <3>1. CASE Path' = Path
      BY <3>1 DEF Coming
    <3>2. CASE \E k : PathLoses(k) /\ IsInit(Path[k])
      <4>1. PICK k : PathLoses(k) /\ IsInit(Path[k])
        BY <3>2
      <4>2. j # k
        BY <2>3, <4>1 DEF IsInit, Coming
      <4> QED
        BY <1>7, <4>1, <4>2
    <3> QED
      BY <2>2, <3>1, <3>2
  <2>4. epoch # 1 => engine' # "live"
    BY <1>9 DEF Hold
  <2>5. MessageLines' = MessageLines
    BY <2>1 DEF MessageLines
  <2>6. ASSUME NEW n \in MessageLines
        PROVE  \/ n \in ToSet(timeline')
               \/ \E i \in Coming' : Path'[i].n = n
               \/ engine' # "live" /\ epoch' # 1 /\ (HelloSince' = 0 \/ lines'[n].wrote <= HelloSince')
    <3>1. CASE \E i \in Coming : Path[i].n = n
      <4>1. PICK j \in Coming : Path[j].n = n
        BY <3>1
      <4>2. lines[Path[j].n].kind = "msg"
        BY <4>1, <2>6 DEF MessageLines
      <4> QED
        BY <2>3, <4>1, <4>2
    <3>2. CASE ~(\E i \in Coming : Path[i].n = n)
      BY <1>2, <2>1, <2>4, <3>2
    <3> QED
      BY <3>1, <3>2
  <2> QED
    BY <1>2, <2>1, <2>5, <2>6 DEF KnownInv
<1>10. CASE Restore
  <2>1. /\ UNCHANGED <<lines, epoch>> /\ Attached
    BY <1>1, <1>10, Reads
  <2>2. /\ timeline' = Restored /\ skip' = ToSet(timeline') /\ Path' = Path /\ engine = "restoring"
        /\ up' = up /\ inbox' = inbox
    BY <1>10 DEF Restore, Path
  <2>3. ToSet(timeline') = BeforeSince
    BY <1>1, <2>2, RestoredInOrder
  <2>4. HelloSince = since /\ timeline = << >>
    BY <1>1, <2>2 DEF HelloSince, EngineInv
  <2>5. ToSet(timeline) = {}
    BY <2>4 DEF ToSet
  <2>6. MessageLines' = MessageLines /\ Coming' = Coming
    BY <2>1, <2>2 DEF MessageLines, Coming
  <2>7. ASSUME NEW n \in MessageLines
        PROVE  n \in ToSet(timeline') \/ \E i \in Coming' : Path'[i].n = n
    BY <1>2, <2>1, <2>2, <2>3, <2>4, <2>5, <2>6 DEF BeforeSince
  <2>8. ToSet(timeline') \subseteq MessageLines
    BY <2>3 DEF BeforeSince
  <2> QED
    BY <2>2, <2>6, <2>7, <2>8 DEF KnownInv
<1>11. CASE Consume
  <2>1. /\ UNCHANGED <<lines, epoch>> /\ Attached
    BY <1>1, <1>11, Reads
  <2>2. /\ engine = "live" /\ skip' = skip /\ PathLoses(1)
        /\ 1 \in Coming => Path[1].n \in DOMAIN lines
        /\ Fresh => timeline' = Append(timeline, Path[1].n)
        /\ ~Fresh => timeline' = timeline
    BY <1>1, <1>11, Processes
  <2>3. Fresh => ToSet(timeline') = ToSet(timeline) \cup {Path[1].n}
    <3>1. timeline \in Seq(DOMAIN lines)
      BY <1>1 DEF TypeInv, TypeOK
    <3>2. SUFFICES ASSUME Fresh
                   PROVE  ToSet(timeline') = ToSet(timeline) \cup {Path[1].n}
      OBVIOUS
    <3>3. Path[1].n \in DOMAIN lines /\ timeline' = Append(timeline, Path[1].n)
      BY <2>2, <3>2 DEF Fresh
    <3>4. ToSet(Append(timeline, Path[1].n)) = ToSet(timeline) \cup {Path[1].n}
      BY <3>1, <3>3, AppendedSet
    <3> QED
      BY <3>3, <3>4
  <2>4. MessageLines' = MessageLines
    BY <2>1 DEF MessageLines
  <2>5. Fresh => Path[1].n \in MessageLines
    BY <2>2 DEF Fresh, MessageLines
  <2>6. \A j \in Coming : j # 1 => \E i \in Coming' : Path'[i] = Path[j]
    BY <1>7, <2>2
  <2>7. ToSet(timeline) \subseteq ToSet(timeline')
    BY <2>2, <2>3
  <2>8. 1 \in Coming /\ Path[1].n \in MessageLines => Path[1].n \in ToSet(timeline')
    <3>1. 1 \in Coming /\ Path[1].n \in MessageLines /\ ~Fresh => Path[1].n \in skip
      BY DEF Fresh, MessageLines, IsDup
    <3> QED
      BY <1>2, <2>3, <2>7, <3>1
  <2>9. ASSUME NEW n \in MessageLines
        PROVE  n \in ToSet(timeline') \/ \E i \in Coming' : Path'[i].n = n
    <3>1. n \in ToSet(timeline) \/ \E i \in Coming : Path[i].n = n
      BY <1>2, <2>1, <2>2
    <3>2. CASE n \in ToSet(timeline)
      BY <2>7, <3>2
    <3>3. CASE \E i \in Coming : Path[i].n = n
      <4>1. PICK j \in Coming : Path[j].n = n
        BY <3>3
      <4> QED
        BY <2>6, <2>8, <4>1
    <3> QED
      BY <3>1, <3>2, <3>3
  <2>10. skip' \subseteq ToSet(timeline') /\ ToSet(timeline') \subseteq MessageLines
    BY <1>2, <2>2, <2>3, <2>5, <2>7
  <2> QED
    BY <2>4, <2>9, <2>10 DEF KnownInv
<1>12. CASE Kill \/ Detach \/ Sleep
  <2>1. skip' = {} /\ timeline' = << >> /\ ~Attached'
    BY <1>1, <1>12, Ends DEF Forget, Attached, Alive
  <2>2. ToSet(timeline') = {}
    BY <2>1 DEF ToSet
  <2> QED
    BY <2>1, <2>2 DEF KnownInv
<1> QED
  BY <1>3, <1>4, <1>5, <1>6, <1>8, <1>9, <1>10, <1>11, <1>12, StepKinds

-----------------------------------------------------------------------------
(* What comes is newer than what was restored, or is skipped.              *)

LEMMA LosesKeeps ==
  ASSUME TypeInv, NEW k, PathLoses(k), NEW i \in Coming'
  PROVE  \E j \in Coming \ {k} : Path'[i] = Path[j]
<1>1. PICK g \in [Coming' -> Coming \ {k}] :
         /\ \A a \in Coming' : Path'[a] = Path[g[a]]
         /\ \A a, b \in Coming' : a < b <=> g[a] < g[b]
         /\ \A b \in Coming \ {k} : \E a \in Coming' : g[a] = b
  BY LosesComing
<1> QED
  BY <1>1

LEMMA NewStep ==
  ASSUME Inv, Next
  PROVE  NewInv'
<1>1. TypeInv /\ ConnInv /\ EngineInv /\ TimeInv /\ OrderInv /\ KnownInv /\ NewInv
  BY DEF Inv
<1>2. /\ Alive /\ epoch \notin replaced => \A i \in Coming :
           ~Path[i].r /\ lines[Path[i].n].kind = "msg" => lines[Path[i].n].wrote > HelloSince
      /\ Alive /\ epoch = 1 => \A i \in Coming : ~Path[i].r
      /\ engine = "live" /\ epoch \notin replaced =>
           /\ \A i, j \in DOMAIN timeline : i < j => timeline[i] < timeline[j]
           /\ \A i \in NewMessages : \A j \in DOMAIN timeline : timeline[j] < Path[i].n
  BY <1>1 DEF NewInv
<1>3. /\ timeline \in Seq(DOMAIN lines) /\ epoch \in Conns
      /\ \A i \in Coming : Path[i].n \in DOMAIN lines
  BY <1>1, ComingFacts DEF TypeInv, TypeOK
<1>4. CASE Side
  <2>1. /\ UNCHANGED <<lines, epoch, engine, skip, timeline>> /\ replaced \subseteq replaced'
    BY <1>4 DEF Side
  <2>2. /\ Coming' = Coming /\ (\A i \in Coming : Path'[i] = Path[i])
        /\ Attached => HelloSince' = HelloSince
    BY <1>1, <1>4, SidePath DEF SameComing
  <2>3. Alive /\ ~Attached => Coming = {}
    BY <1>1, NotAttached
  <2>4. Alive' <=> Alive
    BY <2>1 DEF Alive
  <2>5. \A i \in NewMessages' : i \in NewMessages /\ Path'[i] = Path[i]
    BY <2>1, <2>2 DEF NewMessages, IsDup
  <2>6. Alive' /\ epoch' \notin replaced' => \A i \in Coming' :
          ~Path'[i].r /\ lines'[Path'[i].n].kind = "msg" => lines'[Path'[i].n].wrote > HelloSince'
    BY <1>2, <2>1, <2>2, <2>3, <2>4
  <2>7. Alive' /\ epoch' = 1 => \A i \in Coming' : ~Path'[i].r
    BY <1>2, <2>1, <2>2, <2>4
  <2>8. engine' = "live" /\ epoch' \notin replaced' =>
           /\ \A i, j \in DOMAIN timeline' : i < j => timeline'[i] < timeline'[j]
           /\ \A i \in NewMessages' : \A j \in DOMAIN timeline' : timeline'[j] < Path'[i].n
    BY <1>2, <2>1, <2>5
  <2> QED
    BY <2>6, <2>7, <2>8 DEF NewInv
<1>5. CASE \E kind, wrote, to : Printed(kind, wrote, to)
  <2>1. PICK kind, wrote, to : Printed(kind, wrote, to)
    BY <1>5
  <2> DEFINE q == Len(Path) + 1
             n == Len(lines) + 1
  <2>2. /\ \A i \in Coming : i \in Coming' /\ Path'[i] = Path[i]
        /\ \A i \in Coming' : i \in Coming \/ (i = q /\ Attached /\ writer = epoch)
        /\ q \in Coming' => Path'[q] = LineOf(n, FALSE)
        /\ (Attached' <=> Attached) /\ (Attached => HelloSince' = HelloSince)
        /\ UNCHANGED <<epoch, engine, since, skip, timeline, replaced>>
    BY <1>1, <2>1, PrintedComing
  <2>3. /\ \A m \in DOMAIN lines : m \in DOMAIN lines' /\ lines'[m] = lines[m] /\ m < n
        /\ lines'[n].kind = kind /\ lines'[n].wrote = wrote
    BY <1>1, <2>1, PrintedLines
  <2>4. LineOf(n, FALSE).n = n /\ LineOf(n, FALSE).r = FALSE
    BY DEF LineOf
  <2>5. writer = epoch => wrote = clock
    <3>1. epoch # None
      BY <1>3, ConstantsAssumption DEF Conns
    <3> QED
      BY <2>1, <3>1 DEF Printed
  <2> HIDE DEF q, n
  <2>6. Alive' <=> Alive
    BY <2>2 DEF Alive
  <2>7. Alive /\ ~Attached => Coming = {}
    BY <1>1, NotAttached
  <2>8. Attached => HelloSince < clock /\ HelloSince \in Nat
    BY <1>1, HelloSinceType DEF TimeInv
  <2>9. clock \in Nat
    BY <1>1, LineTimes
  <2>10. ASSUME Alive', epoch' \notin replaced', NEW i \in Coming',
                ~Path'[i].r, lines'[Path'[i].n].kind = "msg"
         PROVE  lines'[Path'[i].n].wrote > HelloSince'
    <3>1. CASE i \in Coming
      <4>1. Attached
        BY <2>6, <2>7, <2>10, <3>1
      <4>2. Path'[i] = Path[i] /\ Path[i].n \in DOMAIN lines /\ lines'[Path[i].n] = lines[Path[i].n]
        BY <1>3, <2>2, <2>3, <3>1
      <4> QED
        BY <1>2, <2>2, <2>6, <2>10, <3>1, <4>1, <4>2
    <3>2. CASE i = q /\ Attached /\ writer = epoch
      BY <2>2, <2>3, <2>4, <2>5, <2>8, <2>9, <2>10, <3>2
    <3> QED
      BY <2>2, <3>1, <3>2
  <2>11. ASSUME Alive', epoch' = 1, NEW i \in Coming'
         PROVE  ~Path'[i].r
    BY <1>2, <2>2, <2>4, <2>6, <2>11
  <2>12. ASSUME engine' = "live", epoch' \notin replaced', NEW i \in NewMessages', NEW j \in DOMAIN timeline'
         PROVE  timeline'[j] < Path'[i].n
    <3>1. i \in Coming' /\ lines'[Path'[i].n].kind = "msg" /\ ~IsDup(Path[i])'
      BY <2>12 DEF NewMessages
    <3>2. timeline[j] \in DOMAIN lines
      BY <1>3, <2>2, <2>12, ElementOfSeq
    <3>3. CASE i \in Coming
      <4>1. Path'[i] = Path[i] /\ lines'[Path[i].n] = lines[Path[i].n]
        BY <1>3, <2>2, <2>3, <3>3
      <4>2. i \in NewMessages
        BY <2>2, <3>1, <3>3, <4>1 DEF NewMessages, IsDup
      <4> QED
        BY <1>2, <2>2, <2>12, <4>1, <4>2
    <3>4. CASE i = q
      BY <2>2, <2>3, <2>4, <3>1, <3>2, <3>4
    <3> QED
      BY <2>2, <3>1, <3>3, <3>4
  <2>13. engine' = "live" /\ epoch' \notin replaced' =>
           \A i, j \in DOMAIN timeline' : i < j => timeline'[i] < timeline'[j]
    BY <1>2, <2>2
  <2> QED
    BY <2>10, <2>11, <2>12, <2>13 DEF NewInv
<1>6. CASE Attach(epoch) /\ Alive
  <2>1. /\ engine = "connecting" /\ \A i \in Coming' : Path'[i].n \in Replayed /\ Path'[i].r = TRUE
    BY <1>1, <1>3, <1>6, AttachPath
  <2>2. UNCHANGED <<epoch, engine>> /\ handler[epoch] = "hello"
    BY <1>6 DEF Attach
  <2>3. epoch = 1 => Replayed = {}
    BY <1>1, <2>2 DEF EngineInv, Replayed
  <2> QED
    BY <2>1, <2>2, <2>3 DEF NewInv
<1>7. CASE StartEngine
  <2>1. up' = << >> /\ inbox' = << >> /\ engine' = "connecting"
    BY <1>1, <1>7 DEF StartEngine, EngineInv
  <2>2. Coming' = {}
    BY <2>1 DEF Coming, Path
  <2> QED
    BY <2>1, <2>2 DEF NewInv
<1>8. ASSUME ReadHello \/ Hold \/ Restore \/ Consume,
             \A i \in Coming' : \E j \in Coming : Path'[i] = Path[j],
             engine' = "live" /\ epoch \notin replaced =>
               /\ \A i, j \in DOMAIN timeline' : i < j => timeline'[i] < timeline'[j]
               /\ \A i \in NewMessages' : \A j \in DOMAIN timeline' : timeline'[j] < Path'[i].n
      PROVE  NewInv'
  <2>1. /\ Attached /\ HelloSince' = HelloSince /\ UNCHANGED <<lines, epoch, replaced>>
    BY <1>1, <1>8, Reads
  <2>2. Alive
    BY <2>1 DEF Attached
  <2>3. ASSUME epoch \notin replaced, NEW i \in Coming', ~Path'[i].r, lines[Path'[i].n].kind = "msg"
        PROVE  lines[Path'[i].n].wrote > HelloSince
    BY <1>2, <1>8, <2>2, <2>3
  <2>4. ASSUME epoch = 1, NEW i \in Coming'
        PROVE  ~Path'[i].r
    BY <1>2, <1>8, <2>2, <2>4
  <2> QED
    BY <1>8, <2>1, <2>3, <2>4 DEF NewInv
<1>9. CASE ReadHello
  <2>1. PathLoses(1) /\ engine' # "live"
    BY <1>1, <1>9, HelloIsRead DEF ReadHello
  <2>2. \A i \in Coming' : \E j \in Coming : Path'[i] = Path[j]
    BY <1>1, <2>1, LosesKeeps
  <2> QED
    BY <1>8, <1>9, <2>1, <2>2
<1>10. CASE Hold
  <2>1. Path' = Path \/ \E k : PathLoses(k) /\ IsInit(Path[k])
    BY <1>1, <1>10, HoldTakes
  <2>2. \A i \in Coming' : \E j \in Coming : Path'[i] = Path[j]
    <3>1. CASE Path' = Path
      BY <3>1 DEF Coming
    <3>2. CASE \E k : PathLoses(k) /\ IsInit(Path[k])
      BY <1>1, <3>2, LosesKeeps
    <3> QED
      BY <2>1, <3>1, <3>2
  <2>3. timeline' = << >>
    BY <1>1, <1>10 DEF Hold, viewVars, EngineInv
  <2>4. DOMAIN timeline' = {}
    BY <2>3
  <2> QED
    BY <1>8, <1>10, <2>2, <2>4
<1>11. CASE Restore
  <2>1. /\ Attached /\ UNCHANGED <<lines, epoch, replaced>>
    BY <1>1, <1>11, Reads
  <2>2. /\ timeline' = Restored /\ skip' = ToSet(timeline') /\ Path' = Path /\ engine = "restoring"
    BY <1>11 DEF Restore, Path
  <2>3. Coming' = Coming
    BY <2>2 DEF Coming
  <2>4. /\ ToSet(timeline') = BeforeSince
        /\ \A i, j \in DOMAIN timeline' : i < j => timeline'[i] < timeline'[j]
    BY <1>1, <2>2, RestoredInOrder
  <2>5. HelloSince = since
    BY <2>2 DEF HelloSince
  <2>6. ASSUME epoch \notin replaced, NEW i \in NewMessages', NEW j \in DOMAIN timeline'
        PROVE  timeline'[j] < Path'[i].n
    <3> DEFINE m == timeline'[j]
               n == Path[i].n
    <3>1. i \in Coming /\ lines[n].kind = "msg" /\ ~(Path[i].r /\ n \in BeforeSince)
      BY <2>1, <2>2, <2>3, <2>4, <2>6 DEF NewMessages, IsDup
    <3>2. m \in BeforeSince
      BY <2>4 DEF ToSet
    <3>3. since # 0 /\ since \in Nat
      BY <1>1, <2>1, <2>5, <2>6, HelloSinceType DEF TimeInv
    <3>4. m \in DOMAIN lines /\ lines[m].wrote <= since
      BY <3>2, <3>3 DEF BeforeSince, MessageLines
    <3>5. n \in DOMAIN lines
      BY <1>3, <3>1
    <3>6. lines[n].wrote > since
      <4>1. CASE ~Path[i].r
        BY <1>2, <2>1, <2>5, <2>6, <3>1, <4>1 DEF Attached
      <4>2. CASE Path[i].r
        <5>1. n \notin BeforeSince /\ n \in MessageLines
          BY <3>1, <3>5, <4>2 DEF MessageLines
        <5>2. ~(lines[n].wrote <= since)
          BY <5>1 DEF BeforeSince
        <5> QED
          BY <1>1, <3>3, <3>5, <5>2, LineTimes
      <4> QED
        BY <4>1, <4>2
    <3> HIDE DEF m, n
    <3>7. m \in Nat /\ n \in Nat /\ lines[m].wrote \in Nat /\ lines[n].wrote \in Nat
      BY <1>1, <3>4, <3>5, LineTimes
    <3>8. n < m => lines[n].wrote <= lines[m].wrote
      BY <1>1, <3>4, <3>5 DEF TimeInv
    <3>9. m < n
      BY <3>3, <3>4, <3>6, <3>7, <3>8
    <3> QED
      BY <2>2, <3>9 DEF m, n
  <2> QED
    BY <1>8, <1>11, <2>2, <2>3, <2>4, <2>6
<1>12. CASE Consume
  <2>1. /\ Attached /\ UNCHANGED <<lines, epoch, replaced>>
    BY <1>1, <1>12, Reads
  <2>2. /\ engine = "live" /\ skip' = skip /\ PathLoses(1) /\ \A i \in Coming : i >= 1
        /\ Fresh => timeline' = Append(timeline, Path[1].n)
        /\ ~Fresh => timeline' = timeline
    BY <1>1, <1>12, Processes
  <2>3. \A i \in Coming' : \E j \in Coming : Path'[i] = Path[j]
    BY <1>1, <2>2, LosesKeeps
  <2>4. ASSUME NEW i \in NewMessages'
        PROVE  \E j \in NewMessages : j # 1 /\ Path'[i] = Path[j]
    <3>1. i \in Coming' /\ lines'[Path'[i].n].kind = "msg" /\ ~(Path'[i].r /\ Path'[i].n \in skip')
      BY <2>4 DEF NewMessages, IsDup
    <3>2. PICK j \in Coming \ {1} : Path'[i] = Path[j]
      BY <1>1, <2>2, <3>1, LosesKeeps
    <3>3. j \in NewMessages
      BY <2>1, <2>2, <3>1, <3>2 DEF NewMessages, IsDup
    <3> QED
      BY <3>2, <3>3
  <2>5. CASE ~Fresh
    <3>1. timeline' = timeline
      BY <2>2, <2>5
    <3> QED
      BY <1>2, <1>8, <1>12, <2>2, <2>3, <2>4, <3>1
  <2>6. CASE Fresh
    <3> DEFINE h == Path[1].n
               l == Len(timeline) + 1
    <3>1. 1 \in NewMessages /\ 1 \in Coming /\ h \in DOMAIN lines
      BY <1>3, <2>6 DEF Fresh, NewMessages
    <3>2. /\ Len(timeline) \in Nat /\ DOMAIN timeline = 1 .. Len(timeline) /\ DOMAIN timeline' = 1 .. l
          /\ \A i \in 1 .. Len(timeline) : timeline'[i] = timeline[i]
          /\ timeline'[l] = h
      BY <1>3, <2>2, <2>6, <3>1, AppendedSet
    <3> HIDE DEF h
    <3>3. SUFFICES ASSUME epoch \notin replaced
                   PROVE  /\ \A i, j \in DOMAIN timeline' : i < j => timeline'[i] < timeline'[j]
                          /\ \A i \in NewMessages' : \A j \in DOMAIN timeline' : timeline'[j] < Path'[i].n
      BY <1>8, <1>12, <2>3
    <3>4. \A j \in 1 .. Len(timeline) : timeline[j] < h
      BY <1>2, <2>2, <3>1, <3>2, <3>3 DEF h
    <3>5. ASSUME NEW i \in DOMAIN timeline', NEW j \in DOMAIN timeline', i < j
          PROVE  timeline'[i] < timeline'[j]
      <4>1. i \in 1 .. Len(timeline) /\ (j \in 1 .. Len(timeline) \/ j = l)
        BY <3>2, <3>5
      <4> QED
        BY <1>2, <2>2, <3>2, <3>3, <3>4, <3>5, <4>1
    <3>6. ASSUME NEW i \in NewMessages', NEW j \in DOMAIN timeline'
          PROVE  timeline'[j] < Path'[i].n
      <4>1. PICK k \in NewMessages : k # 1 /\ Path'[i] = Path[k]
        BY <2>4
      <4>2. k \in Coming /\ k \in Nat /\ k > 1
        BY <1>1, <2>2, <4>1, ComingFacts DEF NewMessages
      <4>3. h < Path[k].n
        BY <1>1, <3>1, <4>2 DEF OrderInv, h
      <4>4. CASE j = l
        BY <3>2, <4>1, <4>3, <4>4
      <4>5. CASE j \in 1 .. Len(timeline)
        BY <1>2, <2>2, <3>2, <3>3, <4>1, <4>5
      <4> QED
        BY <3>2, <4>4, <4>5
    <3> QED
      BY <3>5, <3>6
  <2> QED
    BY <2>5, <2>6
<1>13. CASE Kill \/ Detach \/ Sleep
  <2>1. ~Alive' /\ engine' # "live"
    BY <1>1, <1>13, Ends DEF Alive
  <2> QED
    BY <2>1 DEF NewInv
<1> QED
  BY <1>4, <1>5, <1>6, <1>7, <1>9, <1>10, <1>11, <1>12, <1>13, StepKinds

-----------------------------------------------------------------------------
(* The requests and their answers.                                         *)

\* No new answer is on its way over connection d.
AnswersKept(d) ==
  \/ \A i \in DOMAIN down'[d] : down'[d][i].t = "answer" => i \in DOMAIN down[d] /\ down'[d][i] = down[d][i]
  \/ \A i \in DOMAIN down'[d] : i \in Nat /\ i + 1 \in DOMAIN down[d] /\ down'[d][i] = down[d][i + 1]

\* What comes has been coming.
ComesFrom == \A i \in Coming' : \E j \in Coming : Path'[i] = Path[j]

LEMMA AnswersOpenKept ==
  ASSUME AnswersOpen, \A d \in Conns : AnswersKept(d), open \subseteq open',
         \A d \in Conns : handler'[d] \in {"hello", "loop"} =>
           handler[d] \in {"hello", "loop"} \/ down'[d] = << >>
  PROVE  AnswersOpen'
<1> SUFFICES ASSUME NEW c \in Conns, handler'[c] \in {"hello", "loop"},
                    NEW i \in DOMAIN down'[c], down'[c][i].t = "answer"
             PROVE  /\ down'[c][i].n \in open'
                    /\ \A j \in DOMAIN down'[c] :
                         down'[c][j].t = "answer" /\ down'[c][j].n = down'[c][i].n => j = i
  BY DEF AnswersOpen
<1>1. handler[c] \in {"hello", "loop"}
  OBVIOUS
<1>2. \A k \in DOMAIN down[c] : down[c][k].t = "answer" =>
        /\ down[c][k].n \in open
        /\ \A l \in DOMAIN down[c] : down[c][l].t = "answer" /\ down[c][l].n = down[c][k].n => l = k
  BY <1>1 DEF AnswersOpen
<1>3. CASE \A k \in DOMAIN down'[c] :
             down'[c][k].t = "answer" => k \in DOMAIN down[c] /\ down'[c][k] = down[c][k]
  BY <1>2, <1>3
<1>4. CASE \A k \in DOMAIN down'[c] : k \in Nat /\ k + 1 \in DOMAIN down[c] /\ down'[c][k] = down[c][k + 1]
  <2>1. i \in Nat /\ i + 1 \in DOMAIN down[c] /\ down'[c][i] = down[c][i + 1]
    BY <1>4
  <2>2. ASSUME NEW j \in DOMAIN down'[c], down'[c][j].t = "answer", down'[c][j].n = down'[c][i].n
        PROVE  j = i
    <3>1. j \in Nat /\ j + 1 \in DOMAIN down[c] /\ down'[c][j] = down[c][j + 1]
      BY <1>4
    <3>2. j + 1 = i + 1
      BY <1>2, <2>1, <2>2, <3>1
    <3> QED
      BY <2>1, <3>1, <3>2
  <2> QED
    BY <1>2, <2>1, <2>2
<1> QED
  BY <1>3, <1>4 DEF AnswersKept

LEMMA AsksPlacedKept ==
  ASSUME AsksPlaced, epoch \in Conns, AnswersKept(epoch), ComesFrom, open \subseteq open', asks' \subseteq asks,
         UNCHANGED <<lines, epoch>>,
         handler'[epoch] \in {"hello", "loop"} => handler[epoch] \in {"hello", "loop"}
  PROVE  AsksPlaced'
<1> SUFFICES ASSUME handler'[epoch] \in {"hello", "loop"}
             PROVE  /\ asks' \subseteq open'
                    /\ \A i \in Coming' : lines[Path'[i].n].kind = "ask" =>
                         Path'[i].n \in open' /\ Path'[i].n \notin asks'
                    /\ \A i \in DOMAIN down'[epoch] : down'[epoch][i].t = "answer" =>
                         /\ down'[epoch][i].n \notin asks'
                         /\ \A j \in Coming' : Path'[j].n # down'[epoch][i].n
  BY DEF AsksPlaced
<1>1. /\ asks \subseteq open
      /\ \A i \in Coming : lines[Path[i].n].kind = "ask" => Path[i].n \in open /\ Path[i].n \notin asks
      /\ \A i \in DOMAIN down[epoch] : down[epoch][i].t = "answer" =>
           /\ down[epoch][i].n \notin asks
           /\ \A j \in Coming : Path[j].n # down[epoch][i].n
  BY DEF AsksPlaced
<1>2. ASSUME NEW i \in Coming', lines[Path'[i].n].kind = "ask"
      PROVE  Path'[i].n \in open' /\ Path'[i].n \notin asks'
  BY <1>1, <1>2 DEF ComesFrom
<1>3. ASSUME NEW i \in DOMAIN down'[epoch], down'[epoch][i].t = "answer"
      PROVE  /\ down'[epoch][i].n \notin asks'
             /\ \A j \in Coming' : Path'[j].n # down'[epoch][i].n
  <2>1. \E k \in DOMAIN down[epoch] : down'[epoch][i] = down[epoch][k]
    BY <1>3 DEF AnswersKept
  <2>2. PICK k \in DOMAIN down[epoch] : down'[epoch][i] = down[epoch][k]
    BY <2>1
  <2> QED
    BY <1>1, <1>3, <2>2 DEF ComesFrom
<1> QED
  BY <1>1, <1>2, <1>3

LEMMA AskKept ==
  ASSUME TypeInv, AskInv, UNCHANGED <<lines, pending, open, doubled, epoch>>, asks' \subseteq asks,
         replaced \subseteq replaced', \A d \in Conns : AnswersKept(d), ComesFrom,
         \A d \in Conns : handler'[d] \in {"hello", "loop"} => handler[d] \in {"hello", "loop"},
         replaced = {} => AsksSince'
  PROVE  AskInv'
<1>1. pending' = open' /\ \A n \in open' : lines'[n].kind = "ask"
  BY DEF AskInv
<1>2. epoch \in Conns
  BY DEF TypeInv, TypeOK
<1>3. replaced' = {} => ~doubled' /\ AnswersOpen' /\ AsksPlaced' /\ AsksSince'
  <2>1. SUFFICES ASSUME replaced' = {}
                 PROVE  ~doubled' /\ AnswersOpen' /\ AsksPlaced' /\ AsksSince'
    OBVIOUS
  <2>2. replaced = {}
    BY <2>1
  <2>3. ~doubled /\ AnswersOpen /\ AsksPlaced /\ AsksSince'
    BY <2>2 DEF AskInv
  <2>4. AnswersOpen'
    BY <2>3, AnswersOpenKept
  <2>5. AsksPlaced'
    BY <1>2, <2>3, AsksPlacedKept
  <2> QED
    BY <2>3, <2>4, <2>5
<1> QED
  BY <1>1, <1>3 DEF AskInv

LEMMA FramesKept ==
  ASSUME TypeInv
  PROVE  /\ down' = down => \A d \in Conns : AnswersKept(d)
         /\ \A c \in Conns : \A t \in {"init", "user", "detach", "shutdown", "answer", "ack"} :
              Frame(c, t) => \A d \in Conns : AnswersKept(d)
         /\ \A f \in DownFrame : f.t # "answer" /\ down' = ToHost(<<f>>) => \A d \in Conns : AnswersKept(d)
         /\ Acknowledges => \A d \in Conns : AnswersKept(d)
<1>1. down' = down => \A d \in Conns : AnswersKept(d)
  BY DEF AnswersKept
<1>2. ASSUME NEW c \in Conns, NEW t, Frame(c, t), NEW d \in Conns
      PROVE  AnswersKept(d)
  BY <1>2, FrameTaken DEF AnswersKept
<1>3. ASSUME NEW f \in DownFrame, f.t # "answer", down' = ToHost(<<f>>), NEW d \in Conns
      PROVE  AnswersKept(d)
  <2>1. \A i \in DOMAIN down'[d] :
          \/ down'[d][i] = f /\ d = epoch
          \/ i \in DOMAIN down[d] /\ down'[d][i] = down[d][i]
    BY <1>3, ToHostAdds
  <2> QED
    BY <1>3, <2>1 DEF AnswersKept
<1>4. ASSUME Acknowledges
      PROVE  \A d \in Conns : AnswersKept(d)
  <2>1. CASE \E m \in 0 .. Len(lines) : down' = ToHost(<<With("ack", m)>>)
    <3>1. PICK m \in 0 .. Len(lines) : down' = ToHost(<<With("ack", m)>>)
      BY <2>1
    <3>2. m \in 0 .. MaxLines
      BY ComingFacts, ConstantsAssumption DEF TypeInv, TypeOK
    <3>3. With("ack", m) \in DownFrame /\ With("ack", m).t # "answer"
      BY <3>2, DownFrames
    <3> QED
      BY <1>3, <3>1, <3>3
  <2> QED
    BY <1>1, <1>4, <2>1 DEF Acknowledges
<1> QED
  BY <1>1, <1>2, <1>3, <1>4

LEMMA SideComes ==
  ASSUME TypeInv, EngineInv, Side
  PROVE  ComesFrom /\ replaced \subseteq replaced' /\ UNCHANGED <<lines, epoch, engine>>
<1>1. SameComing
  BY SidePath
<1> QED
  BY <1>1 DEF SameComing, ComesFrom, Side

LEMMA AsksSinceKept ==
  ASSUME AskInv, UNCHANGED <<lines, open, writer, detachedAt>>, host' # "done" => host # "done"
  PROVE  replaced = {} => AsksSince'
BY DEF AskInv, AsksSince

LEMMA AskHost ==
  ASSUME Inv, \/ Tick \/ CliExits \/ ExitFinish \/ Orphaned \/ ShutdownEnds
              \/ \E c \in Conns : \/ OnInitialize(c) \/ OnUser(c) \/ OnAck(c) \/ OnDetach(c) \/ OnEof(c)
                                  \/ OnShutdown(c) \/ (Attach(c) /\ ~(c = epoch /\ Alive))
  PROVE  AskInv'
<1>1. TypeInv /\ ConnInv /\ EngineInv /\ TimeInv /\ AskInv
  BY DEF Inv
<1>2. handler \in [Conns -> {"none", "hello", "loop", "over"}] /\ epoch \in Conns /\ None \notin Conns
  BY <1>1, Ranges
<1>3. down' = down => \A d \in Conns : AnswersKept(d)
  BY <1>1, FramesKept
<1>4. CASE Tick
  <2>1. /\ UNCHANGED <<lines, hostVars, handler, cliVars, down, up, inbox, epoch, asks, replaced>>
    BY <1>4 DEF Tick, viewVars
  <2>2. ComesFrom
    BY <2>1 DEF ComesFrom, Path, Coming
  <2>3. replaced = {} => AsksSince'
    BY <1>1, <2>1, AsksSinceKept DEF hostVars, cliVars
  <2> QED
    BY <1>1, <1>3, <2>1, <2>2, <2>3, AskKept DEF hostVars, cliVars
<1>5. CASE CliExits \/ ExitFinish \/ Orphaned
  <2>1. /\ UNCHANGED <<lines, pending, open, doubled, writer, detachedAt, handler, down, epoch, asks, replaced>>
        /\ (host' # "done" => host # "done")
    BY <1>5 DEF CliExits, ExitFinish, Orphaned, cliVars, viewVars
  <2>2. Side
    BY <1>5, CliSide
  <2>3. ComesFrom
    BY <1>1, <2>2, SideComes
  <2>4. replaced = {} => AsksSince'
    BY <1>1, <2>1, AsksSinceKept
  <2> QED
    BY <1>1, <1>3, <2>1, <2>3, <2>4, AskKept
<1>6. CASE ShutdownEnds
  <2>1. /\ UNCHANGED <<lines, pending, open, doubled, handler, down, epoch, asks, replaced>> /\ host' = "done"
    BY <1>6 DEF ShutdownEnds, viewVars
  <2>2. ComesFrom
    BY <1>1, <1>6, CliSide, SideComes
  <2>3. AsksSince'
    BY <2>1 DEF AsksSince
  <2> QED
    BY <1>1, <1>3, <2>1, <2>2, <2>3, AskKept
<1>7. ASSUME NEW c \in Conns,
             \/ OnInitialize(c) \/ OnUser(c) \/ OnAck(c) \/ OnDetach(c) \/ OnEof(c)
             \/ OnShutdown(c) \/ (Attach(c) /\ ~(c = epoch /\ Alive))
      PROVE  AskInv'
  <2>1. Side
    BY <1>7, HostSides
  <2>2. ComesFrom /\ replaced \subseteq replaced' /\ UNCHANGED <<lines, epoch, engine>>
    BY <1>1, <2>1, SideComes
  <2>3. CASE OnInitialize(c) \/ OnUser(c) \/ OnAck(c) \/ OnShutdown(c)
    <3>1. \E t \in {"init", "user", "ack", "shutdown"} : Frame(c, t)
      BY <2>3 DEF OnInitialize, OnUser, OnAck, OnShutdown
    <3>2. \A d \in Conns : AnswersKept(d)
      BY <1>1, <3>1, FramesKept
    <3>3. host # "done"
      BY <3>1 DEF Frame
    <3>4. UNCHANGED <<pending, open, doubled, writer, detachedAt, asks>>
      BY <2>3 DEF OnInitialize, OnUser, OnAck, OnShutdown, viewVars, cliVars
    <3>5. \A d \in Conns : handler'[d] \in {"hello", "loop"} => handler[d] \in {"hello", "loop"}
      BY <1>2, <2>3 DEF OnInitialize, OnUser, OnAck, OnShutdown
    <3>6. replaced = {} => AsksSince'
      BY <1>1, <2>2, <3>3, <3>4, AsksSinceKept
    <3> QED
      BY <1>1, <2>2, <3>2, <3>4, <3>5, <3>6, AskKept
  <2>4. CASE OnDetach(c) \/ OnEof(c)
    <3>1. Leave(c) /\ host # "done" /\ handler[c] = "loop"
      BY <1>1, <2>4, Leaves
    <3>2. \A d \in Conns : AnswersKept(d)
      <4>1. CASE OnDetach(c)
        <5>1. Frame(c, "detach")
          BY <4>1 DEF OnDetach
        <5> QED
          BY <1>1, <5>1, FramesKept
      <4>2. CASE OnEof(c)
        BY <1>3, <4>2 DEF OnEof
      <4> QED
        BY <2>4, <4>1, <4>2
    <3>3. UNCHANGED <<pending, open, doubled, asks>>
      BY <3>1 DEF Leave, viewVars, cliVars
    <3>4. \A d \in Conns : handler'[d] \in {"hello", "loop"} => handler[d] \in {"hello", "loop"}
      BY <1>2, <3>1 DEF Leave
    <3>5. replaced = {} => AsksSince'
      <4>1. SUFFICES ASSUME replaced = {}
                     PROVE  AsksSince'
        OBVIOUS
      <4>2. writer = c
        BY <1>1, <3>1, <4>1 DEF ConnInv
      <4>3. detachedAt' = clock /\ lines' = lines
        BY <3>1, <4>2 DEF Leave, DetachTime
      <4>4. \A n \in DOMAIN lines : ~(lines[n].at > clock)
        BY <1>1, LineTimes DEF TimeInv
      <4> QED
        BY <4>3, <4>4 DEF AsksSince
    <3> QED
      BY <1>1, <2>2, <3>2, <3>3, <3>4, <3>5, AskKept
  <2>5. CASE Attach(c)
    <3>1. /\ UNCHANGED <<pending, open, doubled, asks, down>> /\ writer' = c /\ handler[c] = "hello"
          /\ handler' = [handler EXCEPT ![c] = "loop"]
      BY <2>5 DEF Attach, viewVars, cliVars
    <3>2. \A d \in Conns : handler'[d] \in {"hello", "loop"} => handler[d] \in {"hello", "loop"}
      BY <1>2, <3>1
    <3>3. AsksSince'
      BY <1>2, <3>1 DEF AsksSince
    <3> QED
      BY <1>1, <1>3, <2>2, <3>1, <3>2, <3>3, AskKept
  <2> QED
    BY <1>7, <2>3, <2>4, <2>5
<1> QED
  BY <1>4, <1>5, <1>6, <1>7

\* A line printed: a request begins to wait.
LEMMA AskPrinted ==
  ASSUME Inv, NEW kind, NEW wrote, NEW to, Printed(kind, wrote, to)
  PROVE  AskInv'
<1> DEFINE q == Len(Path) + 1
           n == Len(lines) + 1
<1>1. TypeInv /\ ConnInv /\ EngineInv /\ TimeInv /\ AskInv
  BY DEF Inv
<1>2. /\ \A i \in Coming' : i \in Coming \/ i = q
      /\ \A i \in Coming : Path'[i] = Path[i]
      /\ q \in Coming' => Path'[q] = LineOf(n, FALSE)
      /\ UNCHANGED <<epoch, engine, asks, replaced>>
  BY <1>1, PrintedComing
<1>3. /\ \A m \in DOMAIN lines : m \in DOMAIN lines' /\ lines'[m] = lines[m] /\ m < n
      /\ \A m \in DOMAIN lines' : m \in DOMAIN lines \/ m = n
      /\ lines'[n].kind = kind /\ lines'[n].at = clock
      /\ DOMAIN lines = 1 .. Len(lines) /\ Len(lines) \in Nat
  BY <1>1, PrintedLines
<1>4. /\ UNCHANGED <<host, writer, detachedAt, handler, down, doubled>>
      /\ pending' = (IF kind = "ask" THEN pending \cup {n} ELSE pending)
      /\ open' = (IF kind = "ask" THEN {n} ELSE open) /\ (kind = "ask" => open = {})
  BY DEF Printed, OnCliMessage
<1>5. LineOf(n, FALSE).n = n
  BY DEF LineOf
<1>6. /\ \A i \in Coming : Path[i].n \in DOMAIN lines
      /\ asks \subseteq DOMAIN lines /\ open \subseteq DOMAIN lines /\ n \notin DOMAIN lines
  <2>1. asks \subseteq DOMAIN lines /\ open \subseteq DOMAIN lines
    BY <1>1, Ranges
  <2>2. n \notin DOMAIN lines
    BY <1>3
  <2> QED
    BY <1>1, <2>1, <2>2, ComingFacts
<1> HIDE DEF q, n
<1>7. pending' = open' /\ \A m \in open' : lines'[m].kind = "ask"
  BY <1>1, <1>3, <1>4, <1>6 DEF AskInv
<1>8. open \subseteq open' /\ \A m \in open' : m \in open \/ m = n
  BY <1>4
<1>9. ASSUME replaced = {}
      PROVE  ~doubled' /\ AnswersOpen' /\ AsksPlaced' /\ AsksSince'
  <2>1. ~doubled /\ AnswersOpen /\ AsksPlaced /\ AsksSince
    BY <1>1, <1>9 DEF AskInv
  <2>2. \A d \in Conns : AnswersKept(d)
    BY <1>1, <1>4, FramesKept
  <2>3. AnswersOpen'
    BY <1>4, <1>8, <2>1, <2>2, AnswersOpenKept
  <2>4. AsksPlaced'
    <3>1. SUFFICES ASSUME handler[epoch] \in {"hello", "loop"}
                   PROVE  /\ asks \subseteq open'
                          /\ \A i \in Coming' : lines'[Path'[i].n].kind = "ask" =>
                               Path'[i].n \in open' /\ Path'[i].n \notin asks
                          /\ \A i \in DOMAIN down[epoch] : down[epoch][i].t = "answer" =>
                               /\ down[epoch][i].n \notin asks
                               /\ \A j \in Coming' : Path'[j].n # down[epoch][i].n
      BY <1>2, <1>4 DEF AsksPlaced
    <3>2. /\ asks \subseteq open
          /\ \A i \in Coming : lines[Path[i].n].kind = "ask" => Path[i].n \in open /\ Path[i].n \notin asks
          /\ \A i \in DOMAIN down[epoch] : down[epoch][i].t = "answer" =>
               /\ down[epoch][i].n \notin asks
               /\ \A j \in Coming : Path[j].n # down[epoch][i].n
      BY <2>1, <3>1 DEF AsksPlaced
    <3>3. ASSUME NEW i \in Coming', lines'[Path'[i].n].kind = "ask"
          PROVE  Path'[i].n \in open' /\ Path'[i].n \notin asks
      <4>1. CASE i \in Coming
        BY <1>2, <1>3, <1>6, <1>8, <3>2, <3>3, <4>1
      <4>2. CASE i = q
        <5>1. Path'[i].n = n
          BY <1>2, <1>5, <3>3, <4>2
        <5> QED
          BY <1>3, <1>4, <1>6, <3>3, <5>1
      <4> QED
        BY <1>2, <3>3, <4>1, <4>2
    <3>4. ASSUME NEW i \in DOMAIN down[epoch], down[epoch][i].t = "answer"
          PROVE  down[epoch][i].n \notin asks /\ \A j \in Coming' : Path'[j].n # down[epoch][i].n
      <4>1. down[epoch][i].n \in DOMAIN lines
        BY <1>1, <3>4 DEF TypeInv, TypeOK, FramesInv
      <4>2. ASSUME NEW j \in Coming'
            PROVE  Path'[j].n # down[epoch][i].n
        <5>1. CASE j \in Coming
          BY <1>2, <3>2, <3>4, <5>1
        <5>2. CASE j = q
          BY <1>2, <1>5, <1>6, <4>1, <4>2, <5>2
        <5> QED
          BY <1>2, <5>1, <5>2
      <4> QED
        BY <3>2, <3>4, <4>2
    <3> QED
      BY <1>8, <3>2, <3>3, <3>4
  <2>5. AsksSince'
    <3>1. SUFFICES ASSUME writer = None, host # "done", NEW m \in DOMAIN lines',
                          lines'[m].kind = "ask", lines'[m].at > detachedAt
                   PROVE  m \in open'
      BY <1>4 DEF AsksSince
    <3>2. CASE m = n
      BY <1>3, <1>4, <3>1, <3>2
    <3>3. CASE m \in DOMAIN lines
      BY <1>3, <1>8, <2>1, <3>1, <3>3 DEF AsksSince
    <3> QED
      BY <1>3, <3>2, <3>3
  <2> QED
    BY <1>4, <2>1, <2>3, <2>4, <2>5
<1> QED
  BY <1>2, <1>7, <1>9 DEF AskInv

\* An engine attaches: it is told the requests that wait.
LEMMA AskAttach ==
  ASSUME Inv, Attach(epoch), Alive
  PROVE  AskInv'
<1>1. TypeInv /\ ConnInv /\ EngineInv /\ TimeInv /\ AskInv
  BY DEF Inv
<1>2. /\ epoch \in Conns /\ None \notin Conns /\ handler \in [Conns -> {"none", "hello", "loop", "over"}]
  BY <1>1, Ranges
<1>3. engine = "connecting" /\ \A i \in Coming' : Path'[i].n \in Replayed
  BY <1>1, <1>2, AttachPath
<1>4. /\ UNCHANGED <<lines, pending, open, doubled, epoch, asks, down>> /\ writer' = epoch
      /\ host # "done" /\ handler[epoch] = "hello" /\ handler' = [handler EXCEPT ![epoch] = "loop"]
      /\ replaced' = (IF writer # None THEN replaced \cup {epoch} ELSE replaced)
  BY DEF Attach, viewVars, cliVars
<1>5. asks = {} /\ down[epoch] = << >>
  BY <1>1, <1>3 DEF EngineInv
<1>6. pending = open /\ \A n \in open : lines[n].kind = "ask"
  BY <1>1 DEF AskInv
<1>7. ASSUME replaced' = {}
      PROVE  ~doubled' /\ AnswersOpen' /\ AsksPlaced' /\ AsksSince'
  <2>1. writer = None /\ replaced = {}
    BY <1>4, <1>7
  <2>2. ~doubled /\ AnswersOpen /\ AsksPlaced /\ AsksSince
    BY <1>1, <2>1 DEF AskInv
  <2>3. \A d \in Conns : AnswersKept(d)
    BY <1>1, <1>4, FramesKept
  <2>4. \A d \in Conns : handler'[d] \in {"hello", "loop"} => handler[d] \in {"hello", "loop"}
    BY <1>2, <1>4
  <2>5. AnswersOpen'
    BY <1>4, <2>2, <2>3, <2>4, AnswersOpenKept
  <2>6. ASSUME NEW i \in Coming', lines[Path'[i].n].kind = "ask"
        PROVE  Path'[i].n \in open
    <3> DEFINE m == Path'[i].n
    <3>1. m \in Replayed
      BY <1>3
    <3>2. CASE lines[m].at > detachedAt
      BY <1>4, <2>1, <2>2, <2>6, <3>1, <3>2 DEF AsksSince, Replayed
    <3>3. CASE ~(lines[m].at > detachedAt)
      BY <1>6, <3>1, <3>3 DEF Replayed
    <3> QED
      BY <3>2, <3>3
  <2>7. AsksPlaced'
    BY <1>4, <1>5, <2>6 DEF AsksPlaced
  <2>8. AsksSince'
    BY <1>2, <1>4 DEF AsksSince
  <2> QED
    BY <1>4, <2>2, <2>5, <2>7, <2>8
<1> QED
  BY <1>4, <1>6, <1>7 DEF AskInv

\* The host takes an answer: it is to a request that waits.
LEMMA AskAnswered ==
  ASSUME Inv, NEW c \in Conns, OnAnswer(c)
  PROVE  AskInv'
<1>1. TypeInv /\ ConnInv /\ EngineInv /\ TimeInv /\ AskInv
  BY DEF Inv
<1>2. epoch \in Conns /\ None \notin Conns /\ c # None
  BY <1>1, Ranges
<1> DEFINE n == down[c][1].n
<1>3. /\ host # "done" /\ handler[c] = "loop" /\ 1 \in DOMAIN down[c] /\ down[c][1].t = "answer"
      /\ Head(down[c]) = down[c][1]
      /\ \A d \in Conns : d # c => down'[d] = down[d]
      /\ \A i \in DOMAIN down'[c] :
           i \in Nat /\ i + 1 \in DOMAIN down[c] /\ down'[c][i] = down[c][i + 1]
  BY <1>1, FrameTaken DEF OnAnswer
<1>4. /\ UNCHANGED <<lines, writer, epoch, asks, replaced, handler, up, inbox>>
      /\ pending' = pending \ {n} /\ open' = open \ {n}
      /\ doubled' = (doubled \/ (n \notin open /\ ~Exited))
  BY <1>3 DEF OnAnswer, PendingWithout, viewVars
<1> HIDE DEF n
<1>5. pending' = open' /\ \A m \in open' : lines'[m].kind = "ask"
  BY <1>1, <1>4 DEF AskInv
<1>6. Coming' = Coming /\ Path' = Path
  BY <1>4 DEF Coming, Path
<1>7. ASSUME replaced = {}
      PROVE  ~doubled' /\ AnswersOpen' /\ AsksPlaced' /\ AsksSince'
  <2>1. ~doubled /\ AnswersOpen /\ AsksPlaced /\ AsksSince
    BY <1>1, <1>7 DEF AskInv
  <2>2. writer = c /\ \A d \in Conns : handler[d] = "loop" => d = c
    BY <1>1, <1>3, <1>7 DEF ConnInv
  <2>3. \A i \in DOMAIN down[c] : down[c][i].t = "answer" =>
          /\ down[c][i].n \in open
          /\ \A j \in DOMAIN down[c] : down[c][j].t = "answer" /\ down[c][j].n = down[c][i].n => j = i
    BY <1>3, <2>1 DEF AnswersOpen
  <2>4. n \in open
    BY <1>3, <2>3 DEF n
  <2>5. ASSUME NEW i \in DOMAIN down'[c], down'[c][i].t = "answer"
        PROVE  /\ down'[c][i].n \in open \ {n}
               /\ \A j \in DOMAIN down'[c] :
                    down'[c][j].t = "answer" /\ down'[c][j].n = down'[c][i].n => j = i
    <3>1. i \in Nat /\ i + 1 \in DOMAIN down[c] /\ down'[c][i] = down[c][i + 1]
      BY <1>3
    <3>2. i # 0
      <4>1. down \in [Conns -> Seq(DownFrame)] /\ down' \in [Conns -> Seq(DownFrame)]
        BY <1>1, FrameTaken DEF TypeInv, TypeOK, OnAnswer
      <4>2. DOMAIN down'[c] = 1 .. Len(down'[c]) /\ Len(down'[c]) \in Nat
        BY <4>1, LenProperties
      <4> QED
        BY <4>2, <2>5
    <3>3. i + 1 # 1
      BY <3>1, <3>2
    <3>4. down[c][i + 1].n \in open /\ down[c][i + 1].n # n
      BY <1>3, <2>3, <2>5, <3>1, <3>3 DEF n
    <3>5. ASSUME NEW j \in DOMAIN down'[c], down'[c][j].t = "answer", down'[c][j].n = down'[c][i].n
          PROVE  j = i
      <4>1. j \in Nat /\ j + 1 \in DOMAIN down[c] /\ down'[c][j] = down[c][j + 1]
        BY <1>3
      <4>2. j + 1 = i + 1
        BY <2>3, <2>5, <3>1, <3>5, <4>1
      <4> QED
        BY <3>1, <4>1, <4>2
    <3> QED
      BY <3>1, <3>4, <3>5
  <2>6. AnswersOpen'
    <3>1. SUFFICES ASSUME NEW d \in Conns, handler[d] \in {"hello", "loop"},
                          NEW i \in DOMAIN down'[d], down'[d][i].t = "answer"
                   PROVE  /\ down'[d][i].n \in open \ {n}
                          /\ \A j \in DOMAIN down'[d] :
                               down'[d][j].t = "answer" /\ down'[d][j].n = down'[d][i].n => j = i
      BY <1>4 DEF AnswersOpen
    <3>2. CASE d = c
      BY <2>5, <3>1, <3>2
    <3>3. CASE d # c
      <4>1. down'[d] = << >>
        BY <1>1, <1>3, <2>2, <3>1, <3>3 DEF EngineInv
      <4> QED
        BY <3>1, <4>1
    <3> QED
      BY <3>2, <3>3
  <2>7. AsksPlaced'
    <3>1. CASE epoch = c
      <4>1. /\ asks \subseteq open
            /\ \A i \in Coming : lines[Path[i].n].kind = "ask" => Path[i].n \in open /\ Path[i].n \notin asks
            /\ \A i \in DOMAIN down[c] : down[c][i].t = "answer" =>
                 /\ down[c][i].n \notin asks
                 /\ \A j \in Coming : Path[j].n # down[c][i].n
        BY <1>3, <2>1, <3>1 DEF AsksPlaced
      <4>2. n \notin asks /\ \A j \in Coming : Path[j].n # n
        BY <1>3, <4>1 DEF n
      <4>3. asks \subseteq open \ {n}
        BY <4>1, <4>2
      <4>4. \A i \in Coming : lines[Path[i].n].kind = "ask" =>
              Path[i].n \in open \ {n} /\ Path[i].n \notin asks
        BY <4>1, <4>2
      <4>5. \A i \in DOMAIN down'[c] : down'[c][i].t = "answer" =>
              /\ down'[c][i].n \notin asks
              /\ \A j \in Coming : Path[j].n # down'[c][i].n
        BY <1>3, <4>1
      <4> QED
        BY <1>4, <1>6, <3>1, <4>3, <4>4, <4>5 DEF AsksPlaced
    <3>2. CASE epoch # c
      <4>1. handler[epoch] = "hello"
        BY <1>1, <1>2, <1>3, <2>2, <3>2 DEF ConnInv
      <4>2. engine \in {"connecting", "dead"} /\ up = << >> /\ inbox = << >> /\ asks = {} /\ down[epoch] = << >>
        BY <1>1, <1>2, <4>1 DEF EngineInv
      <4>3. Coming = {}
        BY <4>2, NothingComing
      <4>4. down'[epoch] = << >> /\ asks' = {} /\ Coming' = {} /\ epoch' = epoch
        BY <1>2, <1>3, <1>4, <1>6, <3>2, <4>2, <4>3
      <4> QED
        BY <4>4 DEF AsksPlaced
    <3> QED
      BY <3>1, <3>2
  <2>8. AsksSince'
    BY <1>2, <1>4, <2>2 DEF AsksSince
  <2> QED
    BY <1>4, <2>1, <2>4, <2>6, <2>7, <2>8
<1> QED
  BY <1>4, <1>5, <1>7 DEF AskInv

LEMMA AskEngine ==
  ASSUME Inv, EngineStep
  PROVE  AskInv'
<1>1. TypeInv /\ ConnInv /\ EngineInv /\ TimeInv /\ OrderInv /\ AskInv
  BY DEF Inv
<1>2. epoch \in Conns /\ handler \in [Conns -> {"none", "hello", "loop", "over"}]
      /\ asks \subseteq DOMAIN lines
  BY <1>1, Ranges
<1>3. \A f \in DownFrame : f.t # "answer" /\ down' = ToHost(<<f>>) => \A d \in Conns : AnswersKept(d)
  BY <1>1, FramesKept
<1>4. CASE StartEngine
  <2>1. /\ UNCHANGED <<lines, pending, open, doubled, replaced, host, writer, detachedAt>>
        /\ UNCHANGED <<down, up, inbox, asks>>
        /\ engine = "dead" /\ handler' = [handler EXCEPT ![epoch'] = "hello"]
    BY <1>4 DEF StartEngine, viewVars, cliVars, hostVars
  <2>2. epoch' \in Conns /\ EngineInv'
    BY <1>4, EngineTypes, StepEngines DEF EngineStep, TypeInv, TypeOK
  <2>3. handler'[epoch'] = "hello" /\ \A d \in Conns : d # epoch' => handler'[d] = handler[d]
    BY <1>2, <2>1, <2>2
  <2>4. down'[epoch'] = << >> /\ asks' = {} /\ up' = << >> /\ inbox' = << >>
    BY <1>1, <2>1, <2>2, <2>3 DEF EngineInv
  <2>5. Coming' = {}
    BY <2>4 DEF Coming, Path
  <2>6. AsksPlaced'
    BY <2>4, <2>5 DEF AsksPlaced
  <2>7. pending' = open' /\ \A n \in open' : lines'[n].kind = "ask"
    BY <1>1, <2>1 DEF AskInv
  <2>8. ASSUME replaced = {}
        PROVE  ~doubled' /\ AnswersOpen' /\ AsksSince'
    <3>1. ~doubled /\ AnswersOpen /\ AsksSince
      BY <1>1, <2>8 DEF AskInv
    <3>2. \A d \in Conns : AnswersKept(d)
      BY <1>1, <2>1, FramesKept
    <3>3. \A d \in Conns : handler'[d] \in {"hello", "loop"} =>
            handler[d] \in {"hello", "loop"} \/ down'[d] = << >>
      BY <2>3, <2>4
    <3>4. AnswersOpen'
      BY <2>1, <3>1, <3>2, <3>3, AnswersOpenKept
    <3>5. AsksSince'
      BY <2>1, <3>1 DEF AsksSince
    <3> QED
      BY <2>1, <3>1, <3>4, <3>5
  <2> QED
    BY <2>1, <2>6, <2>7, <2>8 DEF AskInv
<1>5. ASSUME \A d \in Conns : AnswersKept(d), ComesFrom, asks' \subseteq asks,
             UNCHANGED <<lines, hostVars, open, doubled, epoch, replaced, handler>>
      PROVE  AskInv'
  <2>1. UNCHANGED <<host, pending, writer, detachedAt>>
    BY <1>5 DEF hostVars
  <2>2. replaced = {} => AsksSince'
    BY <1>1, <1>5, <2>1, AsksSinceKept
  <2>3. \A d \in Conns : handler'[d] \in {"hello", "loop"} => handler[d] \in {"hello", "loop"}
    BY <1>5
  <2> QED
    BY <1>1, <1>5, <2>1, <2>2, <2>3, AskKept
<1>6. ASSUME NEW k, PathLoses(k)
      PROVE  ComesFrom
  BY <1>1, <1>6, LosesKeeps DEF ComesFrom
<1>7. ASSUME ReadHello \/ Hold \/ Restore \/ Consume
      PROVE  UNCHANGED <<lines, hostVars, open, doubled, epoch, replaced, handler>>
  BY <1>1, <1>7, Reads DEF cliVars
<1>8. CASE ReadHello
  <2>1. Only("init") \in DownFrame /\ Only("init").t # "answer"
    BY DownFrames
  <2>2. \A d \in Conns : AnswersKept(d)
    BY <1>3, <1>8, <2>1 DEF ReadHello
  <2>3. PathLoses(1) /\ asks' = asks
    BY <1>1, <1>8, HelloIsRead DEF ReadHello
  <2> QED
    BY <1>5, <1>6, <1>7, <1>8, <2>2, <2>3
<1>9. CASE Hold
  <2>1. Acknowledges /\ (Path' = Path \/ \E k : PathLoses(k))
    BY <1>1, <1>9, HoldTakes
  <2>2. \A d \in Conns : AnswersKept(d)
    BY <1>1, <2>1, FramesKept
  <2>3. Path' = Path => ComesFrom
    BY DEF ComesFrom, Coming
  <2>4. asks' = asks
    BY <1>9 DEF Hold, viewVars
  <2> QED
    BY <1>5, <1>6, <1>7, <1>9, <2>1, <2>2, <2>3, <2>4
<1>10. CASE Restore
  <2>1. down' = down /\ asks' = asks /\ Path' = Path
    BY <1>10 DEF Restore, Path
  <2>2. \A d \in Conns : AnswersKept(d)
    BY <1>1, <2>1, FramesKept
  <2>3. ComesFrom
    BY <2>1 DEF ComesFrom, Coming
  <2> QED
    BY <1>5, <1>7, <1>10, <2>1, <2>2, <2>3
<1>11. CASE SendUser
  <2>1. Only("user") \in DownFrame /\ Only("user").t # "answer"
    BY DownFrames
  <2>2. \A d \in Conns : AnswersKept(d)
    BY <1>3, <1>11, <2>1 DEF SendUser
  <2>3. ComesFrom
    BY <1>11 DEF SendUser, ComesFrom, Coming, Path
  <2>4. asks' = asks /\ UNCHANGED <<lines, hostVars, open, doubled, epoch, replaced, handler>>
    BY <1>11 DEF SendUser, cliVars
  <2> QED
    BY <1>5, <2>2, <2>3, <2>4
<1>12. CASE Kill \/ Detach \/ Sleep
  <2>1. /\ Forget /\ \A d \in Conns : d # epoch => down'[d] = down[d]
        /\ \A i \in DOMAIN down'[epoch] :
              \/ i \in DOMAIN down[epoch] /\ down'[epoch][i] = down[epoch][i]
              \/ down'[epoch][i].t \in {"detach", "shutdown"}
    BY <1>1, <1>12, Ends
  <2>2. \A d \in Conns : AnswersKept(d)
    <3> SUFFICES ASSUME NEW d \in Conns
                 PROVE  AnswersKept(d)
      OBVIOUS
    <3>1. CASE d = epoch
      BY <2>1, <3>1 DEF AnswersKept
    <3>2. CASE d # epoch
      BY <2>1, <3>2 DEF AnswersKept
    <3> QED
      BY <3>1, <3>2
  <2>3. ComesFrom
    <3>1. up' = << >> /\ inbox' = << >>
      BY <2>1 DEF Forget
    <3>2. Coming' = {}
      BY <3>1 DEF Coming, Path
    <3> QED
      BY <3>2 DEF ComesFrom
  <2>4. asks' \subseteq asks /\ UNCHANGED <<lines, hostVars, open, doubled, epoch, replaced, handler>>
    BY <2>1 DEF Forget, cliVars
  <2> QED
    BY <1>5, <2>2, <2>3, <2>4
<1>13. CASE Consume
  <2>1. Acknowledges
    BY <1>1, <1>13, ConsumeTakes
  <2>2. \A d \in Conns : AnswersKept(d)
    BY <1>1, <2>1, FramesKept
  <2>3. /\ Attached /\ PathLoses(1) /\ \A i \in Coming : i >= 1
        /\ 1 \in Coming => Path[1].n \in DOMAIN lines
        /\ 1 \in Coming /\ lines[Path[1].n].kind = "ask" => asks' = asks \cup {Path[1].n}
        /\ ~(1 \in Coming /\ lines[Path[1].n].kind = "ask") => asks' = asks
    BY <1>1, <1>13, Processes
  <2>4. ComesFrom
    BY <1>6, <2>3
  <2>5. UNCHANGED <<lines, hostVars, open, doubled, epoch, replaced, handler>>
    BY <1>7, <1>13
  <2>6. CASE ~(1 \in Coming /\ lines[Path[1].n].kind = "ask")
    BY <1>5, <2>2, <2>3, <2>4, <2>5, <2>6
  <2>7. CASE 1 \in Coming /\ lines[Path[1].n].kind = "ask"
    <3> DEFINE h == Path[1].n
    <3>1. asks' = asks \cup {h}
      BY <2>3, <2>7
    <3>2. \A i \in Coming' : \E j \in Coming : Path'[i] = Path[j] /\ Path[j].n # h
      <4> SUFFICES ASSUME NEW i \in Coming'
                   PROVE  \E j \in Coming : Path'[i] = Path[j] /\ Path[j].n # h
        OBVIOUS
      <4>1. PICK j \in Coming \ {1} : Path'[i] = Path[j]
        BY <1>1, <2>3, LosesKeeps
      <4>2. j \in Nat /\ j > 1
        BY <1>1, <2>3, <4>1, ComingFacts
      <4>3. h < Path[j].n
        BY <1>1, <2>7, <4>2 DEF OrderInv
      <4>4. h \in Nat /\ Path[j].n \in Nat
        BY <1>1, <2>7, ComingFacts
      <4> QED
        BY <4>1, <4>3, <4>4
    <3> HIDE DEF h
    <3>3. pending' = open' /\ \A n \in open' : lines'[n].kind = "ask"
      BY <1>1, <2>5 DEF AskInv, hostVars
    <3>4. ASSUME replaced = {}
          PROVE  ~doubled' /\ AnswersOpen' /\ AsksPlaced' /\ AsksSince'
      <4>1. ~doubled /\ AnswersOpen /\ AsksPlaced /\ AsksSince
        BY <1>1, <3>4 DEF AskInv
      <4>2. AnswersOpen'
        BY <2>2, <2>5, <4>1, AnswersOpenKept
      <4>3. AsksSince'
        BY <2>5, <4>1 DEF AsksSince, hostVars
      <4>4. /\ asks \subseteq open
            /\ \A i \in Coming : lines[Path[i].n].kind = "ask" => Path[i].n \in open /\ Path[i].n \notin asks
            /\ \A i \in DOMAIN down[epoch] : down[epoch][i].t = "answer" =>
                 /\ down[epoch][i].n \notin asks
                 /\ \A j \in Coming : Path[j].n # down[epoch][i].n
        BY <2>3, <4>1 DEF AsksPlaced, Attached
      <4>5. h \in open
        BY <2>7, <4>4 DEF h
      <4>6. \A i \in Coming' : lines[Path'[i].n].kind = "ask" => Path'[i].n \in open /\ Path'[i].n \notin asks'
        BY <3>1, <3>2, <4>4
      <4>7. ASSUME NEW i \in DOMAIN down'[epoch], down'[epoch][i].t = "answer"
            PROVE  down'[epoch][i].n \notin asks' /\ \A j \in Coming' : Path'[j].n # down'[epoch][i].n
        <5>1. AnswersKept(epoch)
          BY <1>2, <2>2
        <5>2. \E k \in DOMAIN down[epoch] : down'[epoch][i] = down[epoch][k]
          BY <4>7, <5>1 DEF AnswersKept
        <5>3. PICK k \in DOMAIN down[epoch] : down'[epoch][i] = down[epoch][k]
          BY <5>2
        <5>4. /\ down'[epoch][i].n \notin asks /\ \A j \in Coming : Path[j].n # down'[epoch][i].n
          BY <4>4, <4>7, <5>3
        <5>5. down'[epoch][i].n # h
          BY <2>7, <5>4 DEF h
        <5> QED
          BY <3>1, <3>2, <5>4, <5>5
      <4>8. AsksPlaced'
        BY <2>5, <3>1, <4>4, <4>5, <4>6, <4>7 DEF AsksPlaced
      <4> QED
        BY <2>5, <4>1, <4>2, <4>3, <4>8
    <3> QED
      BY <2>5, <3>3, <3>4 DEF AskInv
  <2> QED
    BY <2>6, <2>7
<1>14. CASE Answer
  <2>1. PICK n \in asks : asks' = asks \ {n} /\ down' = ToHost(<<With("answer", n)>>)
    BY <1>14 DEF Answer
  <2>2. UNCHANGED <<lines, hostVars, open, doubled, epoch, replaced, handler, up, inbox>>
        /\ engine = "live"
    BY <1>14 DEF Answer, cliVars
  <2>3. Coming' = Coming /\ Path' = Path
    BY <2>2 DEF Coming, Path
  <2> DEFINE f == With("answer", n)
             l == Len(down[epoch]) + 1
  <2>4. n \in 0 .. MaxLines
    BY <1>1, <2>1, ComingFacts, ConstantsAssumption DEF TypeInv, TypeOK
  <2>5. f \in DownFrame /\ f.t = "answer" /\ f.n = n
    BY <2>4, DownFrames
  <2>6. /\ \A d \in Conns : d # epoch => down'[d] = down[d]
        /\ DOMAIN down'[epoch] = 1 .. l /\ Len(down[epoch]) \in Nat
        /\ DOMAIN down[epoch] = 1 .. Len(down[epoch])
        /\ \A i \in DOMAIN down[epoch] : down'[epoch][i] = down[epoch][i]
        /\ down'[epoch][l] = f
    BY <1>1, <2>1, <2>5, ToHostAdds
  <2> HIDE DEF f
  <2>7. \A i \in DOMAIN down'[epoch] : i \in DOMAIN down[epoch] \/ i = l
    BY <2>6
  <2>8. handler[epoch] = "loop"
    BY <1>1, <2>2 DEF ConnInv, EngineInv, Alive
  <2>9. pending' = open' /\ \A m \in open' : lines'[m].kind = "ask"
    BY <1>1, <2>2 DEF AskInv, hostVars
  <2> HIDE DEF l
  <2>10. ASSUME replaced = {}
         PROVE  ~doubled' /\ AnswersOpen' /\ AsksPlaced' /\ AsksSince'
    <3>1. ~doubled /\ AnswersOpen /\ AsksPlaced /\ AsksSince /\ \A m \in open : lines[m].kind = "ask"
      BY <1>1, <2>10 DEF AskInv
    <3>2. /\ asks \subseteq open
          /\ \A i \in Coming : lines[Path[i].n].kind = "ask" => Path[i].n \in open /\ Path[i].n \notin asks
          /\ \A i \in DOMAIN down[epoch] : down[epoch][i].t = "answer" =>
               /\ down[epoch][i].n \notin asks
               /\ \A j \in Coming : Path[j].n # down[epoch][i].n
      BY <2>8, <3>1 DEF AsksPlaced
    <3>3. \A i \in DOMAIN down[epoch] : down[epoch][i].t = "answer" =>
            /\ down[epoch][i].n \in open
            /\ \A j \in DOMAIN down[epoch] :
                 down[epoch][j].t = "answer" /\ down[epoch][j].n = down[epoch][i].n => j = i
      BY <1>2, <2>8, <3>1 DEF AnswersOpen
    <3>4. n \in open /\ \A i \in DOMAIN down[epoch] : down[epoch][i].t = "answer" => down[epoch][i].n # n
      BY <2>1, <3>2
    <3>5. ASSUME NEW i \in DOMAIN down'[epoch], down'[epoch][i].t = "answer"
          PROVE  /\ down'[epoch][i].n \in open
                 /\ \A j \in DOMAIN down'[epoch] :
                      down'[epoch][j].t = "answer" /\ down'[epoch][j].n = down'[epoch][i].n => j = i
      <4>1. CASE i = l
        BY <2>5, <2>6, <2>7, <3>4, <4>1
      <4>2. CASE i \in DOMAIN down[epoch]
        BY <2>5, <2>6, <2>7, <3>3, <3>4, <3>5, <4>2
      <4> QED
        BY <2>7, <4>1, <4>2
    <3>6. AnswersOpen'
      <4>1. SUFFICES ASSUME NEW d \in Conns, handler[d] \in {"hello", "loop"},
                            NEW i \in DOMAIN down'[d], down'[d][i].t = "answer"
                     PROVE  /\ down'[d][i].n \in open
                            /\ \A j \in DOMAIN down'[d] :
                                 down'[d][j].t = "answer" /\ down'[d][j].n = down'[d][i].n => j = i
        BY <2>2 DEF AnswersOpen
      <4>2. CASE d = epoch
        BY <3>5, <4>1, <4>2
      <4>3. CASE d # epoch
        BY <2>6, <3>1, <4>1, <4>3 DEF AnswersOpen
      <4> QED
        BY <4>2, <4>3
    <3>7. ASSUME NEW i \in DOMAIN down'[epoch], down'[epoch][i].t = "answer"
          PROVE  down'[epoch][i].n \notin asks' /\ \A j \in Coming : Path[j].n # down'[epoch][i].n
      <4>1. CASE i = l
        <5>1. \A j \in Coming : Path[j].n # n
          BY <2>1, <3>1, <3>2, <3>4
        <5> QED
          BY <2>1, <2>5, <2>6, <4>1, <5>1
      <4>2. CASE i \in DOMAIN down[epoch]
        BY <2>1, <2>6, <3>2, <3>7, <4>2
      <4> QED
        BY <2>7, <4>1, <4>2
    <3>8. AsksPlaced'
      BY <2>1, <2>2, <2>3, <3>2, <3>7 DEF AsksPlaced
    <3>9. AsksSince'
      BY <2>2, <3>1 DEF AsksSince, hostVars
    <3> QED
      BY <2>2, <3>1, <3>6, <3>8, <3>9
  <2> QED
    BY <2>2, <2>9, <2>10 DEF AskInv
<1> QED
  BY <1>4, <1>8, <1>9, <1>10, <1>11, <1>12, <1>13, <1>14 DEF EngineStep

LEMMA AskStep ==
  ASSUME Inv, Next
  PROVE  AskInv'
<1>1. TypeInv
  BY DEF Inv
<1>2. CASE CliInitAnswer \/ CliMessage \/ CliAsk \/ CliResult
  BY <1>1, <1>2, CliPrints, AskPrinted
<1>3. ASSUME NEW c \in Conns, Attach(c)
      PROVE  AskInv'
  BY <1>3, AskAttach, AskHost
<1>4. CASE Tick \/ CliExits \/ ExitFinish \/ Orphaned \/ ShutdownEnds
  BY <1>4, AskHost
<1>5. ASSUME NEW c \in Conns,
             \/ OnInitialize(c) \/ OnUser(c) \/ OnAnswer(c) \/ OnAck(c)
             \/ OnDetach(c) \/ OnEof(c) \/ OnShutdown(c)
      PROVE  AskInv'
  BY <1>5, AskHost, AskAnswered
<1>6. CASE EngineStep
  BY <1>6, AskEngine
<1> QED
  BY <1>2, <1>3, <1>4, <1>5, <1>6 DEF Next, Cli, HostStep

-----------------------------------------------------------------------------
(* What the engine will think of the turn.                                 *)

\* A frame that comes means to the engine what it meant before the step.
SameMeaning ==
  \A f \in UpFrame : (\E i \in Coming : Path[i] = f) => (Decides(f)' <=> Decides(f))

LEMMA PathLosesNat ==
  ASSUME NEW k, PathLoses(k)
  PROVE  Coming' \subseteq Nat
<1>1. Path' \in Seq(UpFrame)
  BY DEF PathLoses
<1>2. \A i \in DOMAIN Path' : i \in Nat
  BY <1>1, Indices
<1> QED
  BY <1>2 DEF Coming

LEMMA AckFrames ==
  ASSUME TypeInv
  PROVE  \A m \in 0 .. Len(lines) : With("ack", m) \in DownFrame /\ With("ack", m).t = "ack"
<1>1. Len(lines) \in Nat /\ Len(lines) <= MaxLines /\ MaxLines \in Nat
  BY ConstantsAssumption, LineTimes DEF TypeInv, TypeOK
<1>2. \A m \in 0 .. Len(lines) : m \in 0 .. MaxLines
  BY <1>1
<1> QED
  BY <1>2, DownFrames

LEMMA FramesOfPath ==
  ASSUME TypeInv
  PROVE  \A i \in Coming : Path[i] \in UpFrame /\ i \in Nat
<1>1. Path \in Seq(UpFrame)
  BY PathFacts DEF TypeInv, TypeOK
<1>2. \A i \in DOMAIN Path : Path[i] \in UpFrame
  BY <1>1, Indices
<1> QED
  BY <1>2, ComingFacts

LEMMA MeaningKept ==
  ASSUME UNCHANGED <<lines, engine, skip>>, HelloSince' = HelloSince
  PROVE  SameMeaning
<1>1. SUFFICES ASSUME NEW f \in UpFrame
               PROVE  Decides(f)' <=> Decides(f)
  BY DEF SameMeaning
<1> QED
  BY DEF Decides, Dup

LEMMA EffectiveKept ==
  ASSUME TypeInv, SameComing, SameMeaning
  PROVE  Effective' = Effective
<1>1. \A i \in Coming : Path[i] \in UpFrame
  BY FramesOfPath
<1>2. ASSUME NEW i \in Coming
      PROVE  i \in Effective' <=> i \in Effective
  <2>1. PICK f \in UpFrame : f = Path[i]
    BY <1>1, <1>2
  <2>2. Path'[i] = f /\ i \in Coming'
    BY <1>2, <2>1 DEF SameComing
  <2>3. Decides(f)' <=> Decides(f)
    BY <1>2, <2>1 DEF SameMeaning
  <2>4. i \in Effective' <=> Decides(f)'
    BY <2>2 DEF Effective
  <2>5. i \in Effective <=> Decides(f)
    BY <1>2, <2>1 DEF Effective
  <2> QED
    BY <2>3, <2>4, <2>5
<1>3. Effective' \subseteq Coming /\ Effective \subseteq Coming
  BY DEF Effective, SameComing
<1> QED
  BY <1>2, <1>3

\* When one frame is read, the last of the others that decide stays the last.
LEMMA EffectiveLoses ==
  ASSUME TypeInv, NEW k, PathLoses(k), SameMeaning
  PROVE  /\ Effective' = {} => Effective \subseteq {k}
         /\ \A i \in Effective' : (\A j \in Effective' : j <= i) =>
              \E h \in Effective : Path[h] = Path'[i] /\ \A j \in Effective \ {k} : j <= h
<1>1. PICK g \in [Coming' -> Coming \ {k}] :
         /\ \A i \in Coming' : Path'[i] = Path[g[i]]
         /\ \A i, j \in Coming' : i < j <=> g[i] < g[j]
         /\ \A j \in Coming \ {k} : \E i \in Coming' : g[i] = j
  BY LosesComing
<1>2. \A i \in Coming : Path[i] \in UpFrame /\ i \in Nat
  BY FramesOfPath
<1>3. ASSUME NEW i \in Coming'
      PROVE  i \in Effective' <=> g[i] \in Effective
  <2>0. g[i] \in Coming
    BY <1>1, <1>3
  <2>1. PICK f \in UpFrame : f = Path[g[i]]
    BY <1>2, <2>0
  <2>2. Path'[i] = f
    BY <1>1, <1>3, <2>1
  <2>3. Decides(f)' <=> Decides(f)
    BY <2>0, <2>1 DEF SameMeaning
  <2>4. i \in Effective' <=> Decides(f)'
    BY <1>3, <2>2 DEF Effective
  <2>5. g[i] \in Effective <=> Decides(f)
    BY <2>0, <2>1 DEF Effective
  <2> QED
    BY <2>3, <2>4, <2>5
<1>4. Effective' \subseteq Coming' /\ Effective \subseteq Coming
  BY DEF Effective
<1>5. ASSUME NEW j \in Effective \ {k}
      PROVE  \E i \in Effective' : g[i] = j
  <2>1. PICK i \in Coming' : g[i] = j
    BY <1>1, <1>4, <1>5
  <2> QED
    BY <1>3, <1>5, <2>1
<1>6. ASSUME NEW i \in Effective', \A j \in Effective' : j <= i
      PROVE  \E h \in Effective : Path[h] = Path'[i] /\ \A j \in Effective \ {k} : j <= h
  <2>1. i \in Coming' /\ g[i] \in Effective /\ Path[g[i]] = Path'[i]
    BY <1>1, <1>3, <1>4, <1>6
  <2>2. ASSUME NEW j \in Effective \ {k}
        PROVE  j <= g[i]
    <3>1. PICK m \in Effective' : g[m] = j
      BY <1>5, <2>2
    <3>2. m \in Coming' /\ m <= i
      BY <1>4, <1>6, <3>1
    <3>3. i \in Nat /\ m \in Nat
      <4>1. Coming' \subseteq Nat
        BY <1>1, PathLosesNat
      <4> QED
        BY <2>1, <3>2, <4>1
    <3>4. ~(i < m)
      BY <3>2, <3>3
    <3>5. ~(g[i] < g[m])
      BY <1>1, <2>1, <3>2, <3>4
    <3>6. g[i] \in Nat /\ g[m] \in Nat
      BY <1>1, <1>2, <2>1, <3>2
    <3> QED
      BY <3>1, <3>5, <3>6
  <2> QED
    BY <2>1, <2>2
<1>7. Effective' = {} => Effective \subseteq {k}
  BY <1>5
<1> QED
  BY <1>6, <1>7

\* No message of the user is sent or read.
LEMMA UserKept ==
  ASSUME TypeInv, epoch' = epoch,
         \/ down' = down \/ Acknowledges
         \/ \E f \in DownFrame : f.t # "user" /\ down' = ToHost(<<f>>)
         \/ \E c \in Conns : \E t \in {"init", "answer", "ack"} : Frame(c, t)
  PROVE  UserComing' <=> UserComing
<1>0. epoch \in Conns
  BY Ranges
<1>1. CASE down' = down
  BY <1>1 DEF UserComing
<1>2. ASSUME NEW f \in DownFrame, f.t # "user", down' = ToHost(<<f>>)
      PROVE  UserComing' <=> UserComing
  <2>1. /\ \A i \in DOMAIN down[epoch] : i \in DOMAIN down'[epoch] /\ down'[epoch][i] = down[epoch][i]
        /\ \A i \in DOMAIN down'[epoch] :
              \/ down'[epoch][i] = f
              \/ i \in DOMAIN down[epoch] /\ down'[epoch][i] = down[epoch][i]
    BY <1>0, <1>2, ToHostAdds
  <2> QED
    BY <1>2, <2>1 DEF UserComing
<1>3. CASE Acknowledges
  <2>1. \A m \in 0 .. Len(lines) : With("ack", m) \in DownFrame /\ With("ack", m).t # "user"
    BY AckFrames
  <2> QED
    BY <1>1, <1>2, <1>3, <2>1 DEF Acknowledges
<1>4. ASSUME NEW c \in Conns, NEW t \in {"init", "answer", "ack"}, Frame(c, t)
      PROVE  UserComing' <=> UserComing
  <2>1. /\ 1 \in DOMAIN down[c] /\ down[c][1].t = t
        /\ \A d \in Conns : d # c => down'[d] = down[d]
        /\ \A i \in DOMAIN down'[c] :
             i \in Nat /\ i + 1 \in DOMAIN down[c] /\ down'[c][i] = down[c][i + 1]
    BY <1>4, FrameTaken
  <2>2. CASE c # epoch
    BY <1>0, <2>1, <2>2 DEF UserComing
  <2>3. CASE c = epoch
    <3>1. \A i \in DOMAIN down[c] : i # 1 => i - 1 \in DOMAIN down'[c] /\ down'[c][i - 1] = down[c][i]
      <4>1. down[c] \in Seq(DownFrame) /\ down'[c] = Tail(down[c]) /\ down[c] # << >>
        BY <1>4 DEF Frame, TypeInv, TypeOK
      <4>2. /\ Len(down[c]) \in Nat /\ DOMAIN down[c] = 1 .. Len(down[c])
            /\ Tail(down[c]) \in Seq(DownFrame) /\ Len(Tail(down[c])) = Len(down[c]) - 1
            /\ \A i \in DOMAIN Tail(down[c]) : Tail(down[c])[i] = down[c][i + 1]
        BY <4>1, Indices
      <4>3. DOMAIN Tail(down[c]) = 1 .. Len(down[c]) - 1
        BY <4>2, Indices
      <4>4. SUFFICES ASSUME NEW i \in 1 .. Len(down[c]), i # 1
                     PROVE  i - 1 \in 1 .. Len(down[c]) - 1 /\ Tail(down[c])[i - 1] = down[c][i]
        BY <4>1, <4>2, <4>3
      <4>5. i - 1 \in 1 .. Len(down[c]) - 1 /\ (i - 1) + 1 = i
        BY <4>2, <4>4
      <4> QED
        BY <4>2, <4>3, <4>5
    <3> QED
      BY <1>4, <2>1, <2>3, <3>1 DEF UserComing
  <2> QED
    BY <2>2, <2>3
<1> QED
  BY <1>1, <1>2, <1>3, <1>4

\* What a step leaves alone is told as it was.
LEMMA ToldKept ==
  ASSUME TypeInv, SameComing, SameMeaning, UserComing' <=> UserComing,
         UNCHANGED <<lines, inFlight>>, Attached' => Attached, Attached => (HelloBusy' <=> HelloBusy),
         TurnTold
  PROVE  TurnTold'
<1>1. Effective' = Effective
  BY EffectiveKept
<1>2. \A i \in Effective : Path'[i] = Path[i]
  BY DEF Effective, SameComing
<1>3. SUFFICES ASSUME Attached', ~UserComing'
               PROVE  /\ Effective = {} => (HelloBusy' <=> inFlight)
                      /\ \A i \in Effective : (\A j \in Effective : j <= i)
                           => (inFlight <=> lines[Path[i].n].kind = "msg")
  BY <1>1, <1>2 DEF TurnTold
<1> QED
  BY <1>3 DEF TurnTold

LEMMA SinceKept ==
  ASSUME TurnSince, UNCHANGED <<lines, writer, detachedAt, inFlight>>
  PROVE  TurnSince'
BY DEF TurnSince

\* While it waits to be attached nothing comes from an engine.
LEMMA NoUserBefore ==
  ASSUME TypeInv, ConnInv, EngineInv, Alive, ~Attached
  PROVE  ~UserComing
<1>1. epoch \in Conns /\ handler[epoch] = "hello"
  BY Ranges DEF ConnInv, Attached
<1>2. down[epoch] = << >>
  BY <1>1 DEF EngineInv
<1> QED
  BY <1>2 DEF UserComing

LEMMA FirstIsWriter ==
  ASSUME ConnInv, replaced = {}, host # "done", NEW c \in Conns, handler[c] = "loop"
  PROVE  writer = c
BY DEF ConnInv

\* Steps that leave both sides of the turn alone.
LEMMA TurnSide ==
  ASSUME Inv, Side, UNCHANGED <<crossed, inFlight, writer, detachedAt, working>>,
         host' = "up" => host = "up", Exited => Exited', UserComing' <=> UserComing
  PROVE  TurnInv'
<1>1. TypeInv /\ ConnInv /\ EngineInv /\ TurnInv
  BY DEF Inv
<1>2. UNCHANGED <<lines, epoch, engine, skip, since>> /\ (Attached' => Attached)
      /\ replaced \subseteq replaced'
  BY DEF Side
<1>3. SameComing /\ (Attached => HelloSince' = HelloSince)
  BY <1>1, SidePath
<1>4. Attached => (HelloBusy' <=> HelloBusy)
  BY <1>1, <1>2, HelloKept DEF Side
<1>5. SUFFICES ASSUME Undisturbed'
               PROVE  TurnTold' /\ TurnBegun' /\ TurnSince'
  BY DEF TurnInv
<1>6. TurnTold /\ TurnBegun /\ TurnSince
  BY <1>1, <1>2, <1>5 DEF Undisturbed, TurnInv
<1>7. TurnTold'
  <2>1. CASE Attached
    BY <1>1, <1>2, <1>3, <1>4, <1>6, <2>1, MeaningKept, ToldKept
  <2>2. CASE ~Attached
    BY <1>2, <2>2 DEF TurnTold
  <2> QED
    BY <2>1, <2>2
<1>8. TurnBegun'
  BY <1>2, <1>3, <1>6 DEF TurnBegun, Alive, SameComing
<1>9. TurnSince'
  BY <1>2, <1>6, SinceKept
<1> QED
  BY <1>7, <1>8, <1>9

LEMMA TurnUser ==
  ASSUME Inv, NEW c \in Conns, OnUser(c)
  PROVE  TurnInv'
<1>1. TypeInv /\ ConnInv /\ EngineInv /\ TurnInv
  BY DEF Inv
<1>2. Side
  BY HostSides
<1>3. UNCHANGED <<lines, epoch, engine, handler, writer, working, up, inbox, replaced, crossed, host, exitAt>>
      /\ inFlight' = TRUE /\ Frame(c, "user")
  BY DEF OnUser, viewVars
<1>4. /\ host # "done" /\ handler[c] = "loop" /\ 1 \in DOMAIN down[c] /\ down[c][1].t = "user"
      /\ \A d \in Conns : d # c => down'[d] = down[d]
  BY <1>1, <1>3, FrameTaken
<1>5. SUFFICES ASSUME Undisturbed'
               PROVE  TurnTold' /\ TurnBegun' /\ TurnSince'
  BY DEF TurnInv
<1>6. Undisturbed /\ TurnTold /\ TurnBegun /\ TurnSince
  BY <1>1, <1>3, <1>5 DEF Undisturbed, TurnInv, Exited
<1>7. writer = c /\ writer' # None /\ epoch \in Conns
  BY <1>1, <1>3, <1>4, <1>6, FirstIsWriter, Ranges DEF Undisturbed
<1>8. TurnSince'
  BY <1>7 DEF TurnSince
<1>9. (Attached' <=> Attached) /\ (Alive' <=> Alive)
  BY <1>3 DEF Attached, Alive
<1>10. Coming' = Coming
  BY <1>3 DEF Coming, Path
<1>11. CASE Attached
  <2>1. c = epoch
    BY <1>1, <1>4, <1>7, <1>11 DEF ConnInv
  <2>2. UserComing /\ Alive
    BY <1>4, <1>11, <2>1 DEF UserComing, Attached
  <2>3. engine = "live" /\ working /\ Coming = {}
    BY <1>6, <2>2 DEF TurnBegun
  <2>4. Effective' = {} /\ HelloBusy'
    BY <1>3, <1>10, <2>3 DEF Effective, HelloBusy
  <2>5. TurnTold'
    BY <1>3, <2>4 DEF TurnTold
  <2>6. TurnBegun'
    BY <1>3, <1>10, <2>3 DEF TurnBegun
  <2> QED
    BY <1>8, <2>5, <2>6
<1>12. CASE ~Attached
  <2>1. TurnTold'
    BY <1>9, <1>12 DEF TurnTold
  <2>2. ASSUME Alive
        PROVE  ~UserComing'
    <3>1. handler[epoch] = "hello" /\ ~UserComing
      BY <1>1, <1>7, <1>12, <2>2, NoUserBefore DEF ConnInv, Attached
    <3>2. down'[epoch] = down[epoch]
      BY <1>4, <1>7, <3>1
    <3> QED
      BY <1>3, <3>1, <3>2 DEF UserComing
  <2>3. TurnBegun'
    BY <1>9, <2>2 DEF TurnBegun
  <2> QED
    BY <1>8, <2>1, <2>3
<1> QED
  BY <1>11, <1>12

LEMMA TurnLeave ==
  ASSUME Inv, NEW c \in Conns, OnDetach(c) \/ OnEof(c)
  PROVE  TurnInv'
<1>1. TypeInv /\ ConnInv /\ EngineInv /\ TimeInv /\ TurnInv
  BY DEF Inv
<1>2. Side
  BY HostSides
<1>3. /\ Leave(c) /\ host # "done" /\ handler[c] = "loop" /\ ~(c = epoch /\ Alive)
      /\ \A d \in Conns : d # c => down'[d] = down[d]
  BY <1>1, Leaves
<1>4. UNCHANGED <<lines, epoch, engine, replaced, crossed, host, exitAt>> /\ detachedAt' = DetachTime(c)
  BY <1>3 DEF Leave, cliVars
<1>5. SUFFICES ASSUME Undisturbed'
               PROVE  TurnTold' /\ TurnBegun' /\ TurnSince'
  BY DEF TurnInv
<1>6. replaced = {}
  BY <1>4, <1>5 DEF Undisturbed
<1>7. writer = c /\ epoch \in Conns
  BY <1>1, <1>3, <1>6, FirstIsWriter, Ranges
<1>8. ~Attached
  BY <1>1, <1>3, <1>7 DEF ConnInv, Attached
<1>9. ~Attached' /\ (Alive' <=> Alive)
  BY <1>2, <1>4, <1>8 DEF Side, Alive
<1>10. TurnTold'
  BY <1>9 DEF TurnTold
<1>11. ASSUME Alive
       PROVE  ~UserComing'
  <2>1. ~UserComing /\ c # epoch
    BY <1>1, <1>3, <1>8, <1>11, NoUserBefore
  <2>2. down'[epoch] = down[epoch]
    BY <1>3, <1>7, <2>1
  <2> QED
    BY <1>4, <2>1, <2>2 DEF UserComing
<1>12. TurnBegun'
  BY <1>9, <1>11 DEF TurnBegun
<1>13. detachedAt' = clock
  BY <1>4, <1>7 DEF DetachTime
<1>14. \A n \in DOMAIN lines' : ~(lines'[n].at > detachedAt')
  <2>1. \A n \in DOMAIN lines : lines[n].at <= clock /\ lines[n].at \in Nat /\ clock \in Nat
    BY <1>1, LineTimes DEF TimeInv
  <2>2. \A n \in DOMAIN lines : ~(lines[n].at > clock)
    BY <2>1
  <2> QED
    BY <1>4, <1>13, <2>2
<1>15. TurnSince'
  BY <1>14 DEF TurnSince
<1> QED
  BY <1>10, <1>12, <1>15

LEMMA TurnTakenOver ==
  ASSUME Inv, NEW c \in Conns, Attach(c), ~(c = epoch /\ Alive)
  PROVE  TurnInv'
<1>1. TypeInv /\ ConnInv /\ EngineInv
  BY DEF Inv
<1>2. Side
  BY HostSides
<1>3. /\ UNCHANGED <<down, epoch, engine>> /\ host # "done" /\ writer' = c
      /\ replaced' = IF writer # None THEN replaced \cup {c} ELSE replaced
  BY DEF Attach
<1>4. epoch \in Conns /\ None \notin Conns
  BY <1>1, Ranges
<1>5. SUFFICES ASSUME replaced' = {}
               PROVE  TurnTold' /\ TurnBegun' /\ TurnSince'
  BY DEF TurnInv, Undisturbed
<1>6. writer = None
  BY <1>3, <1>5
<1>7. ~Attached
  BY <1>1, <1>3, <1>4, <1>6 DEF ConnInv
<1>8. ~Attached' /\ (Alive' <=> Alive) /\ (UserComing' <=> UserComing)
  BY <1>2, <1>3, <1>7 DEF Side, Alive, UserComing
<1>9. TurnTold'
  BY <1>8 DEF TurnTold
<1>10. TurnBegun'
  BY <1>1, <1>7, <1>8, NoUserBefore DEF TurnBegun
<1>11. TurnSince'
  BY <1>3, <1>4 DEF TurnSince
<1> QED
  BY <1>9, <1>10, <1>11

LEMMA TurnHost ==
  ASSUME Inv, Tick \/ CliExits \/ HostStep
  PROVE  TurnInv' \/ (Attach(epoch) /\ Alive)
<1>1. TypeInv
  BY DEF Inv
<1>2. CASE Tick
  <2>1. Side
    BY <1>2, CliSide
  <2>2. UNCHANGED <<crossed, inFlight, writer, detachedAt, working, host, exitAt, down, epoch>>
    BY <1>2 DEF Tick, hostVars, cliVars, viewVars
  <2>3. UserComing' <=> UserComing
    BY <2>2 DEF UserComing
  <2> QED
    BY <2>1, <2>2, <2>3, TurnSide DEF Exited
<1>3. CASE CliExits
  <2>1. exitAt' = clock /\ clock \in 1 .. MaxTime
    BY <1>1, <1>3 DEF CliExits, TypeInv, TypeOK
  <2>2. Exited'
    BY <2>1 DEF Exited
  <2> QED
    BY <2>2 DEF TurnInv, Undisturbed
<1>4. CASE ExitFinish \/ Orphaned \/ ShutdownEnds
  <2>1. host' # "up"
    BY <1>4 DEF ExitFinish, Orphaned, ShutdownEnds, Stopping
  <2> QED
    BY <2>1 DEF TurnInv, Undisturbed
<1>5. ASSUME NEW c \in Conns, OnShutdown(c)
      PROVE  TurnInv'
  <2>1. host' # "up"
    BY <1>5 DEF OnShutdown, Stopping
  <2> QED
    BY <2>1 DEF TurnInv, Undisturbed
<1>6. ASSUME NEW c \in Conns, OnInitialize(c) \/ OnAnswer(c) \/ OnAck(c)
      PROVE  TurnInv'
  <2>1. Side
    BY <1>6, HostSides
  <2>2. /\ UNCHANGED <<crossed, inFlight, writer, detachedAt, working, host, exitAt, epoch>>
        /\ \E t \in {"init", "answer", "ack"} : Frame(c, t)
    BY <1>6 DEF OnInitialize, OnAnswer, OnAck, viewVars, cliVars
  <2>3. UserComing' <=> UserComing
    BY <1>1, <2>2, UserKept
  <2> QED
    BY <2>1, <2>2, <2>3, TurnSide DEF Exited
<1>7. ASSUME NEW c \in Conns, Attach(c)
      PROVE  TurnInv' \/ (Attach(epoch) /\ Alive)
  <2>1. CASE c = epoch /\ Alive
    BY <1>7, <2>1
  <2> QED
    BY <1>7, <2>1, TurnTakenOver
<1> QED
  BY <1>2, <1>3, <1>4, <1>5, <1>6, <1>7, TurnUser, TurnLeave DEF HostStep

LEMMA NewestLine ==
  ASSUME TypeInv, NEW kind, NEW wrote, NEW to, Printed(kind, wrote, to),
         NEW n, n = Len(lines) + 1, n \in DOMAIN lines'
  PROVE  /\ \A m \in DOMAIN lines : m \in DOMAIN lines' /\ m < n /\ lines'[m] = lines[m]
         /\ \A m \in DOMAIN lines' : m \in DOMAIN lines \/ m = n
         /\ lines'[n].kind = kind /\ n \in DOMAIN lines'
BY PrintedLines

LEMMA TurnPrinted ==
  ASSUME Inv, NEW kind, NEW wrote, NEW to, Printed(kind, wrote, to)
  PROVE  TurnInv'
<1> DEFINE q == Len(Path) + 1
           n == Len(lines) + 1
<1>1. TypeInv /\ ConnInv /\ EngineInv /\ TurnInv
  BY DEF Inv
<1>2. /\ UNCHANGED <<down, epoch, writer, detachedAt, host, exitAt, replaced, engine>>
      /\ crossed' = (crossed \/ \E c \in Conns : Only("user") \in ToSet(down[c]))
      /\ inFlight' = InFlightAfter(kind) /\ kind \in Kinds
  BY DEF Printed, OnCliMessage
<1>3. /\ \A m \in DOMAIN lines : m \in DOMAIN lines' /\ m < n /\ lines'[m] = lines[m]
      /\ \A m \in DOMAIN lines' : m \in DOMAIN lines \/ m = n
      /\ lines'[n].kind = kind /\ n \in DOMAIN lines'
  <2>1. Len(lines) \in Nat
    BY <1>1, LineTimes
  <2>2. n \in 1 .. Len(lines) + 1
    BY <2>1
  <2>3. DOMAIN lines' = 1 .. Len(lines) + 1
    BY <1>1, PrintedLines
  <2> HIDE DEF n
  <2> QED
    BY <1>1, <2>2, <2>3, NewestLine DEF n
<1>4. /\ \A i \in Coming : i \in Coming' /\ Path'[i] = Path[i] /\ i < q
      /\ \A i \in Coming' : i \in Coming \/ i = q
      /\ Attached => q \in Coming'
      /\ q \in Coming' => Path'[q] = LineOf(n, FALSE)
      /\ (Attached' <=> Attached) /\ (Attached => HelloSince' = HelloSince /\ HelloBusy' = HelloBusy)
      /\ UNCHANGED <<engine, skip>>
  BY <1>1, PrintedComing
<1>5. \A i \in Coming : Path[i].n \in DOMAIN lines /\ i \in Nat
  BY <1>1, ComingFacts, FramesOfPath
<1>6. LineOf(n, FALSE).n = n /\ LineOf(n, FALSE).r = FALSE
  BY DEF LineOf
<1>7. q \in Nat /\ n \in Nat
  <2>1. up \in Seq(UpFrame) /\ inbox \in Seq(UpFrame)
    BY <1>1 DEF TypeInv, TypeOK
  <2>2. Len(Path) \in Nat
    BY <2>1, PathFacts
  <2>3. Len(lines) \in Nat
    BY <1>1, LineTimes
  <2> QED
    BY <2>2, <2>3
<1> HIDE DEF q, n
<1>8. PICK new : new = LineOf(n, FALSE)
  OBVIOUS
<1>9. new.n = n /\ new.r = FALSE
  BY <1>6, <1>8
<1>10. SUFFICES ASSUME Undisturbed'
               PROVE  TurnTold' /\ TurnBegun' /\ TurnSince'
  BY DEF TurnInv
<1>11. /\ TurnTold /\ TurnSince
      /\ \A c \in Conns : Only("user") \notin ToSet(down[c])
  BY <1>1, <1>2, <1>10 DEF Undisturbed, TurnInv, Exited
<1>12. ~UserComing /\ ~UserComing'
  <2>1. epoch \in Conns /\ down[epoch] \in Seq(DownFrame)
    BY <1>1, Ranges DEF TypeInv, TypeOK
  <2>2. ASSUME NEW i \in DOMAIN down[epoch], down[epoch][i].t = "user"
        PROVE  FALSE
    <3>1. down[epoch][i] \in DownFrame
      BY <2>1, <2>2, Indices
    <3>2. down[epoch][i] = Only("user")
      BY <2>2, <3>1 DEF DownFrame, Only
    <3> QED
      BY <1>11, <2>1, <2>2, <3>2 DEF ToSet
  <2> QED
    BY <1>2, <2>2 DEF UserComing
<1>13. TurnBegun'
  BY <1>12 DEF TurnBegun
<1>14. CASE kind \in {"msg", "result"}
  <2>1. inFlight' <=> kind = "msg"
    BY <1>2, <1>14 DEF InFlightAfter
  <2>2. TurnSince'
    <3>1. \A m \in DOMAIN lines : ~(\A l \in DOMAIN lines' : l > m => lines'[l].kind \notin {"msg", "result"})
      <4>1. \A m \in DOMAIN lines : n > m
        BY <1>1, <1>3, <1>7, LineTimes
      <4> QED
        BY <1>3, <1>14, <4>1
    <3> QED
      BY <1>2, <1>3, <2>1, <3>1 DEF TurnSince
  <2>3. TurnTold'
    <3>1. SUFFICES ASSUME Attached
                   PROVE  /\ Effective' # {}
                          /\ \A i \in Effective' : (\A j \in Effective' : j <= i) => i = q
      BY <1>3, <1>4, <1>8, <1>9, <2>1 DEF TurnTold, Effective
    <3>2. q \in Effective'
      <4>1. q \in Coming' /\ Path'[q] = LineOf(n, FALSE)
        BY <1>4, <3>1
      <4>2. Decides(new)'
        BY <1>3, <1>14, <1>9 DEF Decides, Dup
      <4> QED
        BY <1>8, <4>1, <4>2 DEF Effective
    <3>3. ASSUME NEW i \in Effective', q <= i
          PROVE  i = q
      <4>1. i \in Coming \/ i = q
        BY <1>4, <3>3 DEF Effective
      <4>2. i \in Coming => i \in Nat /\ i < q
        BY <1>4, <1>5
      <4> QED
        BY <1>7, <3>3, <4>1, <4>2
    <3> QED
      BY <3>2, <3>3
  <2> QED
    BY <1>13, <2>2, <2>3
<1>15. CASE kind \notin {"msg", "result"}
  <2>1. inFlight' <=> inFlight
    BY <1>2, <1>15 DEF InFlightAfter, Kinds
  <2>2. TurnSince'
    <3>1. SUFFICES ASSUME writer = None, NEW m \in DOMAIN lines',
                          lines'[m].at > detachedAt, lines'[m].kind \in {"msg", "result"},
                          \A l \in DOMAIN lines' : l > m => lines'[l].kind \notin {"msg", "result"}
                   PROVE  inFlight' <=> lines'[m].kind = "msg"
      BY <1>2 DEF TurnSince
    <3>2. m \in DOMAIN lines /\ lines'[m] = lines[m]
      BY <1>3, <1>15, <3>1
    <3>3. \A l \in DOMAIN lines : l > m => lines[l].kind \notin {"msg", "result"}
      BY <1>3, <3>1
    <3> QED
      BY <1>11, <2>1, <3>1, <3>2, <3>3 DEF TurnSince
  <2>3. TurnTold'
    <3>1. CASE ~Attached
      BY <1>4, <3>1 DEF TurnTold
    <3>2. CASE Attached
      <4>1. ASSUME NEW i \in Coming
            PROVE  i \in Effective' <=> i \in Effective
        <5>1. PICK f \in UpFrame : f = Path[i]
          BY <1>1, <4>1, FramesOfPath
        <5>2. Path'[i] = f /\ i \in Coming' /\ f.n \in DOMAIN lines /\ lines'[f.n] = lines[f.n]
          BY <1>3, <1>4, <1>5, <4>1, <5>1
        <5>3. Decides(f)' <=> Decides(f)
          BY <1>4, <3>2, <5>2 DEF Decides, Dup
        <5>4. i \in Effective' <=> Decides(f)'
          BY <5>2 DEF Effective
        <5>5. i \in Effective <=> Decides(f)
          BY <4>1, <5>1 DEF Effective
        <5> QED
          BY <5>3, <5>4, <5>5
      <4>2. q \notin Effective'
        <5>1. SUFFICES ASSUME q \in Coming'
                       PROVE  ~Decides(new)'
          BY <1>4, <1>8 DEF Effective
        <5> QED
          BY <1>3, <1>15, <1>9 DEF Decides
      <4>3. Effective' \subseteq Coming' /\ Effective \subseteq Coming
        BY DEF Effective
      <4>4. Effective' = Effective
        BY <1>4, <4>1, <4>2, <4>3
      <4>5. \A i \in Effective : Path'[i] = Path[i] /\ lines'[Path[i].n] = lines[Path[i].n]
        BY <1>3, <1>4, <1>5, <4>3
      <4>6. /\ Effective = {} => (HelloBusy <=> inFlight)
            /\ \A i \in Effective : (\A j \in Effective : j <= i)
                 => (inFlight <=> lines[Path[i].n].kind = "msg")
        BY <1>11, <1>12, <3>2 DEF TurnTold
      <4>7. HelloBusy' <=> HelloBusy
        BY <1>4, <3>2
      <4> QED
        BY <2>1, <4>4, <4>5, <4>6, <4>7 DEF TurnTold
    <3> QED
      BY <3>1, <3>2
  <2> QED
    BY <1>13, <2>2, <2>3
<1> QED
  BY <1>14, <1>15

\* What is replayed that decides was printed since the detach, all of it and in its order.
LEMMA TurnAttach ==
  ASSUME Inv, Attach(epoch), Alive
  PROVE  TurnInv'
<1>1. /\ TypeInv /\ ConnInv /\ EngineInv /\ TimeInv /\ BufferInv /\ AskInv /\ TurnInv
      /\ epoch \in Conns /\ None \notin Conns
  BY Ranges DEF Inv
<1>2. /\ UNCHANGED <<lines, down, epoch, host, exitAt, inFlight, crossed, engine>> /\ host # "done"
      /\ writer' = epoch /\ handler[epoch] = "hello"
      /\ replaced' = IF writer # None THEN replaced \cup {epoch} ELSE replaced
  BY DEF Attach, cliVars
<1>3. SUFFICES ASSUME Undisturbed'
               PROVE  TurnTold' /\ TurnBegun' /\ TurnSince'
  BY DEF TurnInv
<1>4. writer = None /\ TurnSince
  BY <1>1, <1>2, <1>3 DEF Undisturbed, TurnInv, Exited
<1>5. TurnSince'
  BY <1>1, <1>2 DEF TurnSince
<1>6. ~UserComing'
  <2>1. down[epoch] = << >>
    BY <1>1, <1>2 DEF EngineInv
  <2> QED
    BY <1>2, <2>1 DEF UserComing
<1>7. TurnBegun'
  BY <1>6 DEF TurnBegun
<1>8. /\ engine = "connecting"
      /\ Head(up').since = detachedAt
      /\ Head(up').busy = (inFlight \/ \E n \in Replayed : lines[n].kind = "result")
      /\ \A i \in Coming' : Path'[i].n \in Replayed /\ Path'[i].r = TRUE
      /\ \A i, j \in Coming' : i < j => Path'[i].n < Path'[j].n
      /\ \A n \in Replayed : \E i \in Coming' : Path'[i].n = n
  BY <1>1, AttachPath
<1>9. HelloSince' = detachedAt
      /\ (HelloBusy' <=> (inFlight \/ \E n \in Replayed : lines[n].kind = "result"))
  BY <1>2, <1>8 DEF HelloSince, HelloBusy
<1> DEFINE Tells(n) == lines[n].at > detachedAt /\ lines[n].kind \in {"msg", "result"}
<1>10. \A n \in DOMAIN lines : Tells(n) => n \in Replayed
  BY <1>1, <1>2, <1>4 DEF BufferInv, Replayed
<1>11. \A n \in Replayed : n \in DOMAIN lines /\ (lines[n].kind \in {"msg", "result"} => Tells(n))
  <2>1. SUFFICES ASSUME NEW n \in Replayed, lines[n].kind \in {"msg", "result"}, ~(lines[n].at > detachedAt)
                 PROVE  FALSE
    BY DEF Replayed
  <2>2. n \in open
    BY <1>1, <2>1 DEF Replayed, AskInv
  <2> QED
    BY <1>1, <2>1, <2>2 DEF AskInv
<1>12. ASSUME NEW i \in Coming'
       PROVE  i \in Effective' <=> \/ lines[Path'[i].n].kind = "result"
                                   \/ lines[Path'[i].n].kind = "msg" /\ ~(lines[Path'[i].n].wrote <= detachedAt)
  <2>1. PICK f : f = Path'[i]
    OBVIOUS
  <2>2. i \in Effective' <=> Decides(f)'
    BY <1>12, <2>1 DEF Effective
  <2>3. f.r = TRUE /\ engine' # "live"
    BY <1>2, <1>8, <1>12, <2>1
  <2> QED
    BY <1>2, <1>9, <2>1, <2>2, <2>3 DEF Decides, Dup
<1> HIDE DEF Tells
<1>13. Effective' = {} => (HelloBusy' <=> inFlight)
  <2>1. SUFFICES ASSUME NEW n \in Replayed, lines[n].kind = "result"
                 PROVE  Effective' # {}
    BY <1>9
  <2>2. PICK i \in Coming' : Path'[i].n = n
    BY <1>8
  <2> QED
    BY <1>12, <2>1, <2>2
<1>14. ASSUME NEW i \in Effective', \A j \in Effective' : j <= i
       PROVE  inFlight <=> lines[Path'[i].n].kind = "msg"
  <2>1. PICK n \in Replayed : n = Path'[i].n
    BY <1>8, <1>14 DEF Effective
  <2>2. i \in Coming'
    BY <1>14 DEF Effective
  <2>3. n \in DOMAIN lines /\ Tells(n)
    BY <1>11, <1>12, <1>14, <2>1, <2>2
  <2>4. ~(lines[n].wrote <= detachedAt)
    <3>1. CASE lines[n].kind = "msg"
      BY <1>12, <1>14, <2>1, <2>2, <3>1
    <3>2. CASE lines[n].kind = "result"
      <4>1. /\ lines[n].wrote = lines[n].at /\ lines[n].at \in Nat
            /\ detachedAt \in Nat /\ lines[n].at > detachedAt
        BY <1>1, <2>3, <3>2, LineTimes DEF TimeInv, Tells
      <4> QED
        BY <4>1
    <3> QED
      BY <2>3, <3>1, <3>2 DEF Tells
  <2>5. ASSUME NEW m \in DOMAIN lines, m > n, lines[m].kind \in {"msg", "result"}
        PROVE  FALSE
    <3>1. /\ lines[m].at \in Nat /\ lines[n].at \in Nat /\ detachedAt \in Nat /\ m \in Nat /\ n \in Nat
          /\ lines[m].wrote \in Nat /\ lines[n].wrote \in Nat
      BY <1>1, <2>3, LineTimes
    <3>2. lines[n].at <= lines[m].at /\ lines[n].wrote <= lines[m].wrote
      BY <1>1, <2>3, <2>5, <3>1 DEF TimeInv
    <3>3. Tells(m) /\ ~(lines[m].wrote <= detachedAt)
      BY <2>3, <2>4, <2>5, <3>1, <3>2 DEF Tells
    <3>4. PICK j \in Coming' : Path'[j].n = m
      BY <1>8, <1>10, <3>3
    <3>5. j \in Effective'
      BY <1>12, <2>5, <3>3, <3>4
    <3>6. j <= i /\ ~(j < i) /\ j # i
      BY <1>8, <1>14, <2>1, <2>2, <2>5, <3>1, <3>4, <3>5
    <3>7. i \in Nat /\ j \in Nat
      <4>1. Path' \in Seq(UpFrame)
        <5>1. up' \in Seq(UpFrame) /\ inbox' = << >>
          BY <1>1, AttachPath
        <5> QED
          BY <5>1 DEF Path
      <4> QED
        BY <2>2, <3>4, <4>1, Indices DEF Coming
    <3> QED
      BY <3>6, <3>7
  <2>6. inFlight <=> lines[n].kind = "msg"
    BY <1>4, <2>3, <2>5 DEF TurnSince, Tells
  <2> QED
    BY <2>1, <2>6
<1>15. TurnTold'
  BY <1>2, <1>13, <1>14 DEF TurnTold
<1> QED
  BY <1>5, <1>7, <1>15

LEMMA ToldLoses ==
  ASSUME TypeInv, NEW k, PathLoses(k), k \notin Effective, SameMeaning, Attached, ~UserComing,
         UNCHANGED <<lines, inFlight>>, HelloBusy' <=> HelloBusy, TurnTold
  PROVE  TurnTold'
<1>1. Effective' = {} => (HelloBusy' <=> inFlight)
  <2>1. Effective' = {} => Effective = {}
    BY EffectiveLoses
  <2> QED
    BY <2>1 DEF TurnTold
<1>2. ASSUME NEW i \in Effective', \A j \in Effective' : j <= i
      PROVE  inFlight <=> lines[Path'[i].n].kind = "msg"
  <2>1. PICK h \in Effective : Path[h] = Path'[i] /\ \A j \in Effective \ {k} : j <= h
    BY <1>2, EffectiveLoses
  <2>2. \A j \in Effective : j <= h
    BY <2>1
  <2>3. inFlight <=> lines[Path[h].n].kind = "msg"
    BY <2>2 DEF TurnTold
  <2> QED
    BY <2>1, <2>3
<1> QED
  BY <1>1, <1>2 DEF TurnTold

\* Before it is live an engine has sent no message of a user.
LEMMA TurnReads ==
  ASSUME Inv, ReadHello \/ Hold \/ Restore
  PROVE  TurnInv'
<1>1. TypeInv /\ ConnInv /\ EngineInv /\ TimeInv /\ NewInv /\ TurnInv
  BY DEF Inv
<1>2. /\ Attached /\ HelloSince' = HelloSince
      /\ UNCHANGED <<lines, hostVars, cliVars, epoch, replaced, crossed>>
  BY <1>1, Reads
<1>3. UNCHANGED <<inFlight, writer, detachedAt, host, exitAt>>
  BY <1>2 DEF hostVars, cliVars
<1>4. SUFFICES ASSUME Undisturbed'
               PROVE  TurnTold' /\ TurnBegun' /\ TurnSince'
  BY DEF TurnInv
<1>5. Undisturbed /\ TurnTold /\ TurnBegun /\ TurnSince
  BY <1>1, <1>2, <1>3, <1>4 DEF Undisturbed, TurnInv, Exited
<1>6. Alive /\ engine # "live"
  BY <1>2 DEF Attached, ReadHello, Hold, Restore
<1>7. ~UserComing
  BY <1>5, <1>6 DEF TurnBegun
<1>8. UserComing' <=> UserComing
  <2>1. CASE ReadHello
    <3>1. Only("init") \in DownFrame /\ Only("init").t # "user"
      BY DownFrames
    <3>2. down' = ToHost(<<Only("init")>>)
      BY <2>1 DEF ReadHello
    <3> QED
      BY <1>1, <1>2, <3>1, <3>2, UserKept
  <2>2. CASE Hold
    <3>1. Acknowledges
      BY <1>1, <2>2, HoldTakes
    <3> QED
      BY <1>1, <1>2, <3>1, UserKept
  <2>3. CASE Restore
    BY <1>2, <2>3 DEF Restore, UserComing
  <2> QED
    BY <2>1, <2>2, <2>3
<1>9. TurnBegun'
  BY <1>7, <1>8 DEF TurnBegun
<1>10. TurnSince'
  BY <1>2, <1>3, <1>5, SinceKept
<1>11. HelloBusy' <=> HelloBusy
  <2>1. CASE ReadHello
    BY <1>1, <2>1, Reads
  <2>2. CASE Hold \/ Restore
    BY <2>2 DEF Hold, Restore, HelloBusy, viewVars
  <2> QED
    BY <2>1, <2>2
<1>12. TurnTold'
  <2>1. CASE ReadHello
    <3>1. PathLoses(1) /\ Path[1].t = "hello"
      BY <1>1, <2>1, HelloIsRead
    <3>2. 1 \notin Effective
      BY <3>1 DEF Effective, Coming
    <3>3. engine # "live" /\ engine' # "live"
      BY <2>1 DEF ReadHello
    <3>4. SameMeaning
      <4>1. SUFFICES ASSUME NEW f \in UpFrame
                     PROVE  Decides(f)' <=> Decides(f)
        BY DEF SameMeaning
      <4> QED
        BY <1>2, <3>3 DEF Decides, Dup
    <3> QED
      BY <1>1, <1>2, <1>3, <1>5, <1>7, <1>11, <3>1, <3>2, <3>4, ToldLoses
  <2>2. CASE Hold
    <3>1. SameMeaning
      <4>1. SUFFICES ASSUME NEW f \in UpFrame, \E i \in Coming : Path[i] = f
                     PROVE  Decides(f)' <=> Decides(f)
        BY DEF SameMeaning
      <4>2. engine' # "live" \/ epoch = 1
        BY <2>2 DEF Hold
      <4>3. CASE epoch = 1
        <5>1. ~f.r
          BY <1>1, <1>6, <4>1, <4>3 DEF NewInv
        <5> QED
          BY <1>2, <5>1 DEF Decides, Dup
      <4>4. CASE engine' # "live"
        BY <1>2, <1>6, <4>4 DEF Decides, Dup
      <4> QED
        BY <4>2, <4>3, <4>4
    <3>2. Path' = Path \/ \E k : PathLoses(k) /\ IsInit(Path[k])
      BY <1>1, <2>2, HoldTakes
    <3>3. CASE Path' = Path
      <4>1. SameComing
        BY <3>3 DEF SameComing, Coming
      <4>2. Attached' => Attached
        BY <1>2
      <4> QED
        BY <1>1, <1>2, <1>3, <1>5, <1>8, <1>11, <3>1, <4>1, <4>2, ToldKept
    <3>4. CASE \E k : PathLoses(k) /\ IsInit(Path[k])
      <4>1. PICK k : PathLoses(k) /\ IsInit(Path[k])
        BY <3>4
      <4>2. k \notin Effective
        BY <4>1 DEF Effective, Coming, Decides, IsInit
      <4> QED
        BY <1>1, <1>2, <1>3, <1>5, <1>7, <1>11, <3>1, <4>1, <4>2, ToldLoses
    <3> QED
      BY <3>2, <3>3, <3>4
  <2>3. CASE Restore
    <3>1. /\ UNCHANGED <<inbox, up, since, lines>> /\ engine = "restoring" /\ engine' = "live"
          /\ skip' = ToSet(Restored)
      BY <2>3 DEF Restore
    <3>2. skip' = BeforeSince
      BY <1>1, <3>1, RestoredInOrder
    <3>3. HelloSince = since /\ since # 0
      BY <1>1, <1>2, <1>4, <3>1 DEF HelloSince, TimeInv, Undisturbed
    <3>4. SameMeaning
      <4>1. SUFFICES ASSUME NEW f \in UpFrame, NEW i \in Coming, Path[i] = f
                     PROVE  Decides(f)' <=> Decides(f)
        BY DEF SameMeaning
      <4>2. f.n \in DOMAIN lines
        BY <1>1, <4>1, ComingFacts
      <4>3. lines[f.n].kind = "msg" => (f.n \in skip' <=> lines[f.n].wrote <= HelloSince)
        BY <3>2, <3>3, <4>2 DEF BeforeSince, MessageLines
      <4>4. lines[f.n].kind = "msg" => (Dup(f)' <=> Dup(f))
        BY <3>1, <4>3 DEF Dup
      <4> QED
        BY <3>1, <4>4 DEF Decides
    <3>5. SameComing
      BY <3>1 DEF SameComing, Coming, Path
    <3>6. Attached' => Attached
      BY <1>2
    <3> QED
      BY <1>1, <1>2, <1>3, <1>5, <1>8, <1>11, <3>4, <3>5, <3>6, ToldKept
  <2> QED
    BY <2>1, <2>2, <2>3
<1> QED
  BY <1>9, <1>10, <1>12

LEMMA TurnConsume ==
  ASSUME Inv, Consume
  PROVE  TurnInv'
<1>1. TypeInv /\ ConnInv /\ EngineInv /\ TurnInv
  BY DEF Inv
<1>2. /\ Attached /\ HelloSince' = HelloSince
      /\ UNCHANGED <<lines, hostVars, cliVars, epoch, replaced, crossed>>
  BY <1>1, Reads
<1>3. UNCHANGED <<inFlight, writer, detachedAt, host, exitAt>>
  BY <1>2 DEF hostVars, cliVars
<1>4. SUFFICES ASSUME Undisturbed'
               PROVE  TurnTold' /\ TurnBegun' /\ TurnSince'
  BY DEF TurnInv
<1>5. Undisturbed /\ TurnTold /\ TurnBegun /\ TurnSince
  BY <1>1, <1>2, <1>3, <1>4 DEF Undisturbed, TurnInv, Exited
<1>6. /\ engine = "live" /\ engine' \in {"live", "gone"} /\ skip' = skip /\ PathLoses(1)
      /\ \A i \in Coming : i >= 1
      /\ Fresh => working' = TRUE
      /\ ~Fresh => /\ 1 \in Coming /\ lines[Path[1].n].kind = "result" => working' = FALSE
                   /\ ~(1 \in Coming /\ lines[Path[1].n].kind = "result") => working' = working
  BY <1>1, Processes
<1>7. UserComing' <=> UserComing
  <2>1. Acknowledges
    BY <1>1, ConsumeTakes
  <2> QED
    BY <1>1, <1>2, <2>1, UserKept
<1>8. TurnSince'
  BY <1>2, <1>3, <1>5, SinceKept
<1>9. CASE engine' = "gone"
  <2>1. ~Alive' /\ ~Attached'
    BY <1>9 DEF Alive, Attached
  <2> QED
    BY <1>8, <2>1 DEF TurnTold, TurnBegun
<1>10. CASE engine' = "live"
  <2>1. TurnBegun'
    <3>1. SUFFICES ASSUME UserComing
                   PROVE  working' /\ Coming' = {}
      BY <1>7, <1>10 DEF TurnBegun
    <3>2. working /\ Coming = {}
      BY <1>2, <1>5, <3>1 DEF TurnBegun, Attached
    <3>3. Coming' = {}
      <4>1. \E g \in [Coming' -> Coming \ {1}] : TRUE
        BY <1>1, <1>6, LosesComing
      <4> QED
        BY <3>2, <4>1
    <3>4. working'
      BY <1>6, <3>2
    <3> QED
      BY <3>3, <3>4
  <2>2. SameMeaning
    BY <1>2, <1>6, <1>10, MeaningKept
  <2>3. HelloBusy = working /\ HelloBusy' = working'
    BY <1>6, <1>10 DEF HelloBusy
  <2>4. 1 \in Effective => (1 \in Coming /\ lines[Path[1].n].kind \in {"msg", "result"})
                            /\ (working' <=> lines[Path[1].n].kind = "msg")
    BY <1>6 DEF Effective, Decides, Dup, IsDup, Fresh
  <2>5. 1 \notin Effective => working' = working
    BY <1>6 DEF Effective, Decides, Dup, IsDup, Fresh
  <2>6. TurnTold'
    <3>1. CASE UserComing
      BY <1>7, <3>1 DEF TurnTold
    <3>2. CASE ~UserComing /\ 1 \notin Effective
      BY <1>1, <1>2, <1>3, <1>5, <1>6, <2>2, <2>3, <2>5, <3>2, ToldLoses
    <3>3. CASE ~UserComing /\ 1 \in Effective
      <4>1. \A i \in Effective : (\A j \in Effective : j <= i)
                                   => (inFlight <=> lines[Path[i].n].kind = "msg")
        BY <1>2, <1>5, <3>3 DEF TurnTold
      <4>2. Effective' = {} => (HelloBusy' <=> inFlight)
        <5>1. SUFFICES ASSUME Effective \subseteq {1}
                       PROVE  working' <=> inFlight
          BY <1>1, <1>6, <2>2, <2>3, EffectiveLoses
        <5>2. \A j \in Effective : j <= 1
          BY <5>1
        <5>3. inFlight <=> lines[Path[1].n].kind = "msg"
          BY <3>3, <4>1, <5>2
        <5> QED
          BY <2>4, <3>3, <5>3
      <4>3. ASSUME NEW i \in Effective', \A j \in Effective' : j <= i
            PROVE  inFlight <=> lines[Path'[i].n].kind = "msg"
        <5>1. PICK h \in Effective : Path[h] = Path'[i] /\ \A j \in Effective \ {1} : j <= h
          BY <1>1, <1>6, <2>2, <4>3, EffectiveLoses
        <5>2. 1 <= h
          <6>1. h \in Coming /\ h \in Nat
            BY <1>1, FramesOfPath DEF Effective
          <6> QED
            BY <1>6, <6>1
        <5>3. \A j \in Effective : j <= h
          BY <5>1, <5>2
        <5> QED
          BY <4>1, <5>1, <5>3
      <4> QED
        BY <1>2, <1>3, <4>2, <4>3 DEF TurnTold
    <3> QED
      BY <3>1, <3>2, <3>3
  <2> QED
    BY <1>8, <2>1, <2>6
<1> QED
  BY <1>6, <1>9, <1>10

LEMMA TurnSent ==
  ASSUME Inv, SendUser
  PROVE  TurnInv'
<1>1. TypeInv /\ ConnInv /\ EngineInv /\ TurnInv
  BY DEF Inv
<1>2. /\ UNCHANGED <<lines, inFlight, writer, detachedAt, host, exitAt, epoch, replaced, engine, inbox, up>>
      /\ engine = "live" /\ working' = TRUE /\ down' = ToHost(<<Only("user")>>)
      /\ crossed' = (crossed \/ turns > 0 \/ Coming # {})
  BY DEF SendUser, hostVars, cliVars
<1>3. SUFFICES ASSUME Undisturbed'
               PROVE  TurnTold' /\ TurnBegun' /\ TurnSince'
  BY DEF TurnInv
<1>4. TurnSince /\ Coming = {}
  BY <1>1, <1>2, <1>3 DEF Undisturbed, TurnInv, Exited
<1>5. UserComing'
  <2>1. Only("user") \in DownFrame /\ Only("user").t = "user" /\ epoch \in Conns
    BY <1>1, DownFrames, Ranges
  <2>2. /\ DOMAIN down'[epoch] = 1 .. Len(down[epoch]) + 1 /\ Len(down[epoch]) \in Nat
        /\ down'[epoch][Len(down[epoch]) + 1] = Only("user")
    BY <1>1, <1>2, <2>1, ToHostAdds
  <2>3. Len(down[epoch]) + 1 \in DOMAIN down'[epoch]
    BY <2>2
  <2> QED
    BY <1>2, <2>1, <2>2, <2>3 DEF UserComing
<1>6. TurnTold'
  BY <1>5 DEF TurnTold
<1>7. TurnBegun'
  BY <1>2, <1>4 DEF TurnBegun, Coming, Path
<1>8. TurnSince'
  BY <1>2, <1>4, SinceKept
<1> QED
  BY <1>6, <1>7, <1>8

LEMMA TurnStep ==
  ASSUME Inv, Next
  PROVE  TurnInv'
<1>1. TypeInv /\ ConnInv /\ EngineInv /\ TurnInv /\ epoch \in Conns
  BY Ranges DEF Inv
<1>2. CASE CliInitAnswer \/ CliMessage \/ CliAsk \/ CliResult
  <2>1. PICK kind, wrote, to : Printed(kind, wrote, to)
    BY <1>1, <1>2, CliPrints
  <2> QED
    BY <2>1, TurnPrinted
<1>3. CASE Tick \/ CliExits \/ HostStep
  BY <1>3, TurnHost, TurnAttach
<1>4. CASE StartEngine
  <2>1. /\ UNCHANGED <<lines, hostVars, cliVars, down, replaced, crossed>>
        /\ epoch < MaxEngines /\ epoch' = epoch + 1
        /\ handler' = [handler EXCEPT ![epoch'] = "hello"]
    BY <1>4 DEF StartEngine
  <2>2. epoch' \in Conns /\ epoch' > epoch
    BY <1>1, <2>1, ConstantsAssumption DEF Conns
  <2>3. handler[epoch'] = "none" /\ handler'[epoch'] = "hello"
    BY <1>1, <2>1, <2>2, Ranges DEF ConnInv
  <2>4. down'[epoch'] = << >>
    BY <1>1, <2>1, <2>2, <2>3 DEF EngineInv
  <2>5. TurnTold' /\ TurnBegun'
    BY <2>3, <2>4 DEF TurnTold, TurnBegun, Attached, UserComing
  <2>6. Undisturbed' => TurnSince'
    <3>1. UNCHANGED <<inFlight, writer, detachedAt, host, exitAt>>
      BY <2>1 DEF hostVars, cliVars
    <3> QED
      BY <1>1, <2>1, <3>1, SinceKept DEF TurnInv, Undisturbed, Exited
  <2> QED
    BY <2>5, <2>6 DEF TurnInv
<1>5. CASE Answer
  <2>1. Side
    BY <1>5 DEF Side, Answer, Attached, Alive
  <2>2. UNCHANGED <<crossed, inFlight, writer, detachedAt, working, host, exitAt, epoch>>
    BY <1>5 DEF Answer, hostVars, cliVars
  <2>3. UserComing' <=> UserComing
    <3>1. PICK n \in asks : down' = ToHost(<<With("answer", n)>>)
      BY <1>5 DEF Answer
    <3>2. n \in 0 .. MaxLines
      <4>1. n \in DOMAIN lines /\ Len(lines) <= MaxLines /\ MaxLines \in Nat
        BY <1>1, <3>1, Ranges, ConstantsAssumption DEF TypeInv, TypeOK
      <4> QED
        BY <1>1, <4>1, LineTimes
    <3>3. With("answer", n) \in DownFrame /\ With("answer", n).t # "user"
      BY <3>2, DownFrames
    <3> QED
      BY <1>1, <2>2, <3>1, <3>3, UserKept
  <2> QED
    BY <2>1, <2>2, <2>3, TurnSide DEF Exited
<1>6. CASE Kill \/ Detach \/ Sleep
  <2>1. engine' \in {"dead", "gone"} /\ Forget
    BY <1>1, <1>6, Ends
  <2>2. UNCHANGED <<lines, inFlight, writer, detachedAt, host, exitAt, replaced, crossed>>
    <3>1. UNCHANGED <<hostVars, cliVars, replaced, crossed>>
      BY <2>1 DEF Forget
    <3>2. lines' = lines
      BY <2>1 DEF Forget
    <3> QED
      BY <3>1, <3>2 DEF hostVars, cliVars
  <2>3. TurnTold' /\ TurnBegun'
    BY <2>1 DEF TurnTold, TurnBegun, Attached, Alive
  <2>4. Undisturbed' => TurnSince'
    BY <1>1, <2>2, SinceKept DEF TurnInv, Undisturbed, Exited
  <2> QED
    BY <2>3, <2>4 DEF TurnInv
<1> QED
  BY <1>2, <1>3, <1>4, <1>5, <1>6, TurnReads, TurnConsume, TurnSent DEF Next, Cli, EngineStep

-----------------------------------------------------------------------------
(* Every reachable state.                                                  *)

LEMMA Starts ==
  ASSUME Init
  PROVE  Inv
<1>1. /\ 1 \in Conns /\ Conns \subseteq Nat /\ MaxTime \in Nat /\ 2 <= MaxTime /\ None \notin Conns
      /\ MaxLines \in Nat /\ MaxSends \in Nat /\ AckEvery \in Nat /\ MaxEngines \in Nat
  BY ConstantsAssumption, OneIsConn DEF Conns, Start
<1>2. /\ lines = << >> /\ DOMAIN lines = {} /\ Len(lines) = 0 /\ lines \in Seq(Line)
      /\ up = << >> /\ inbox = << >> /\ timeline = << >> /\ inits = << >>
      /\ \A c \in Conns : down[c] = << >>
  BY DEF Init
<1>3. /\ clock = 2 /\ detachedAt = 1 /\ writer = None /\ epoch = 1 /\ engine = "connecting"
      /\ handler = [c \in Conns |-> IF c = 1 THEN "hello" ELSE "none"]
      /\ replaced = {} /\ pending = {} /\ open = {} /\ asks = {} /\ skip = {} /\ turns = 0
      /\ doubled = FALSE /\ buf = {}
  BY DEF Init, Start
<1>4. Path = << >> /\ Coming = {}
  BY <1>2, NothingComing
<1>5. handler[1] = "hello" /\ ~Attached
  BY <1>1, <1>3 DEF Attached
<1>6. TypeInv
  <2>1. TLines
    BY <1>1, <1>2, <1>3 DEF TLines, Start
  <2>2. THost
    <3>1. /\ host = "up" /\ lastTurnEnd = 0 /\ lastAck = 0 /\ inFlight = FALSE /\ initReq = None
          /\ initCached = FALSE
      BY DEF Init
    <3>2. 0 \in 0 .. Len(lines)
      BY <1>2
    <3> QED
      BY <1>3, <3>1, <3>2 DEF THost
  <2>3. TLink
    <3>1. exitTold = FALSE /\ detachedAt \in 0 .. MaxTime /\ detachedAt # 0
      BY <1>1, <1>3 DEF Init
    <3>2. handler \in [Conns -> {"none", "hello", "loop", "over"}]
      BY <1>3
    <3> QED
      BY <1>3, <3>1, <3>2 DEF TLink
  <2>4. TCli
    <3>1. exitAt = 0 /\ 0 \in 0 .. MaxTime /\ inits \in Seq(Conns) /\ 0 \in Nat
      BY <1>1, <1>2 DEF Init
    <3> QED
      BY <1>3, <3>1 DEF TCli
  <2>5. TPath
    BY <1>2 DEF TPath, Init
  <2>6. TEngine
    BY <1>1, <1>2, <1>3 DEF TEngine, Init
  <2>7. TView
    <3>1. working = FALSE /\ sends = 0 /\ 0 \in 0 .. MaxSends /\ crossed = FALSE
      BY <1>1 DEF Init
    <3>2. timeline \in Seq(DOMAIN lines)
      BY <1>2
    <3> QED
      BY <1>3, <3>1, <3>2 DEF TView
  <2>8. FramesInv
    BY <1>2 DEF FramesInv
  <2> QED
    BY <2>1, <2>2, <2>3, <2>4, <2>5, <2>6, <2>7, <2>8
       DEF TypeInv, TypeOK, TLines, THost, TLink, TCli, TPath, TEngine, TView
<1>7. ConnInv
  <2>1. \A c \in Conns : (handler[c] = "none" <=> c > 1) /\ handler[c] \in {"none", "hello"}
    BY <1>1, <1>3 DEF Conns
  <2>2. \A c, d \in Conns : c < d /\ handler[c] = "hello" => handler[d] \in {"hello", "none"}
    BY <2>1
  <2> QED
    BY <1>3, <1>5, <2>1, <2>2 DEF ConnInv
<1>8. EngineInv
  <2>1. \A c \in Conns : \A i \in DOMAIN down[c] : FALSE
    BY <1>2
  <2>2. down[1] = << >> /\ \A i \in DOMAIN down[1] : FALSE
    BY <1>1, <1>2
  <2> QED
    BY <1>2, <1>3, <1>5, <2>1, <2>2 DEF EngineInv
<1>9. TimeInv
  BY <1>2, <1>3, <1>5 DEF TimeInv
<1>10. BufferInv
  BY <1>2 DEF BufferInv
<1>11. OrderInv
  BY <1>4 DEF OrderInv
<1>12. KnownInv
  BY <1>2, <1>3, <1>5 DEF KnownInv, ToSet
<1>13. NewInv
  BY <1>3, <1>4 DEF NewInv
<1>14. AskInv
  BY <1>2, <1>3, <1>4 DEF AskInv, AnswersOpen, AsksPlaced, AsksSince
<1>15. TurnInv
  <2>1. ~UserComing
    BY <1>1, <1>2, <1>3 DEF UserComing
  <2> QED
    BY <1>2, <1>5, <2>1 DEF TurnInv, TurnTold, TurnBegun, TurnSince
<1> QED
  BY <1>6, <1>7, <1>8, <1>9, <1>10, <1>11, <1>12, <1>13, <1>14, <1>15 DEF Inv

LEMMA Stutters ==
  ASSUME Inv, UNCHANGED vars
  PROVE  Inv'
<1>1. /\ UNCHANGED <<clock, lines, host, buf, pending, lastTurnEnd, lastAck, writer, detachedAt>>
      /\ UNCHANGED <<inFlight, initReq, initCached, exitTold, handler, turns, open, inits, exitAt>>
      /\ UNCHANGED <<doubled, down, up, epoch, engine, since, skip, timeline, asks, working>>
      /\ UNCHANGED <<inbox, unacked, lastSeq, sends, replaced, crossed>>
  BY DEF vars, hostVars, cliVars, viewVars
<1>2. Path' = Path /\ Coming' = Coming /\ MessageLines' = MessageLines
  BY <1>1 DEF Path, Coming, MessageLines
<1>3. /\ (Alive' <=> Alive) /\ (Attached' <=> Attached)
      /\ HelloSince' = HelloSince /\ HelloBusy' = HelloBusy /\ (Exited' <=> Exited)
  BY <1>1 DEF Alive, Attached, HelloSince, HelloBusy, Exited
<1>4. TypeInv'
  BY <1>1 DEF Inv, TypeInv, TypeOK, FramesInv
<1>5. ConnInv'
  BY <1>1, <1>3 DEF Inv, ConnInv
<1>6. EngineInv'
  BY <1>1, <1>3 DEF Inv, EngineInv
<1>7. TimeInv'
  BY <1>1, <1>3 DEF Inv, TimeInv
<1>8. BufferInv'
  BY <1>1 DEF Inv, BufferInv
<1>9. OrderInv'
  BY <1>2 DEF Inv, OrderInv
<1>10. KnownInv'
  BY <1>1, <1>2, <1>3 DEF Inv, KnownInv
<1>11. NewMessages' = NewMessages
  BY <1>1, <1>2 DEF NewMessages, IsDup
<1>12. NewInv'
  BY <1>1, <1>2, <1>3, <1>11 DEF Inv, NewInv
<1>13. AskInv'
  BY <1>1, <1>2 DEF Inv, AskInv, AnswersOpen, AsksPlaced, AsksSince
<1>14. Effective' = Effective
  BY <1>1, <1>2, <1>3 DEF Effective, Decides, Dup
<1>15. TurnInv'
  BY <1>1, <1>2, <1>3, <1>14
     DEF Inv, TurnInv, TurnTold, TurnBegun, TurnSince, Undisturbed, UserComing
<1> QED
  BY <1>4, <1>5, <1>6, <1>7, <1>8, <1>9, <1>10, <1>12, <1>13, <1>15 DEF Inv

LEMMA Steps ==
  ASSUME Inv, Next
  PROVE  Inv'
<1>1. TypeInv'
  BY HostTypes, EngineTypes DEF Next
<1>2. ConnInv'
  BY HostConns, OtherConns DEF Next
<1>3. EngineInv'
  BY HostEngines, StepEngines DEF Next
<1>4. TimeInv' /\ BufferInv' /\ OrderInv'
  BY TimeStep, BufferStep, OrderStep
<1>5. KnownInv' /\ NewInv' /\ AskInv' /\ TurnInv'
  BY KnownStep, NewStep, AskStep, TurnStep
<1> QED
  BY <1>1, <1>2, <1>3, <1>4, <1>5 DEF Inv

\* The invariant holds in every reachable state.
THEOREM Invariance == Spec => []Inv
<1>1. Init => Inv
  BY Starts
<1>2. Inv /\ [Next]_vars => Inv'
  BY Steps, Stutters
<1> QED
  BY <1>1, <1>2, PTL DEF Spec

-----------------------------------------------------------------------------
(* What it implies.                                                        *)

LEMMA Joined ==
  ASSUME NEW S, NEW a \in Seq(S), NEW b \in Seq(S), NEW k \in Nat, Len(b) = k
  PROVE  /\ a \o b \in Seq(S) /\ Len(a) \in Nat /\ DOMAIN (a \o b) = 1 .. Len(a) + k
         /\ \A i \in 1 .. Len(a) : (a \o b)[i] = a[i]
         /\ \A i \in 1 .. k : (a \o b)[Len(a) + i] = b[i]
<1>1. /\ a \o b \in Seq(S) /\ Len(a) \in Nat /\ Len(a \o b) = Len(a) + k
  OBVIOUS
<1>2. \A i \in 1 .. Len(a) + k : (a \o b)[i] = IF i <= Len(a) THEN a[i] ELSE b[i - Len(a)]
  OBVIOUS
<1>3. \A i \in 1 .. Len(a) : (a \o b)[i] = a[i]
  BY <1>1, <1>2
<1>4. ASSUME NEW i \in 1 .. k
      PROVE  (a \o b)[Len(a) + i] = b[i]
  <2>1. Len(a) + i \in 1 .. Len(a) + k /\ ~(Len(a) + i <= Len(a)) /\ (Len(a) + i) - Len(a) = i
    BY <1>1
  <2> QED
    BY <1>2, <2>1
<1>5. DOMAIN (a \o b) = 1 .. Len(a) + k
  BY <1>1, Indices
<1> QED
  BY <1>1, <1>3, <1>4, <1>5

LEMMA KnownParts ==
  ASSUME TypeInv
  PROVE  /\ Len(timeline) \in Nat /\ DOMAIN timeline = 1 .. Len(timeline)
         /\ Cardinality(NewMessages) \in Nat
         /\ Known \in Seq(DOMAIN lines) /\ DOMAIN Known = 1 .. Len(timeline) + Cardinality(NewMessages)
         /\ \A i \in 1 .. Len(timeline) : Known[i] = timeline[i]
         /\ \A i \in 1 .. Cardinality(NewMessages) :
              Known[Len(timeline) + i] = Path[InOrder(NewMessages)[i]].n
         /\ InOrder(NewMessages) \in [1 .. Cardinality(NewMessages) -> NewMessages]
         /\ \A i, j \in 1 .. Cardinality(NewMessages) :
              i < j => InOrder(NewMessages)[i] < InOrder(NewMessages)[j]
         /\ \A m \in NewMessages : \E i \in 1 .. Cardinality(NewMessages) : InOrder(NewMessages)[i] = m
<1> DEFINE k == Cardinality(NewMessages)
           s == [i \in 1 .. k |-> Path[InOrder(NewMessages)[i]].n]
<1>1. NewMessages \subseteq Coming
  BY DEF NewMessages
<1>2. IsFiniteSet(NewMessages) /\ NewMessages \in SUBSET Nat
  <2>1. IsFiniteSet(Coming) /\ Coming \in SUBSET Nat
    BY PathFacts, ComingFacts DEF TypeInv, TypeOK
  <2> QED
    BY <1>1, <2>1, FS_Subset
<1>3. /\ k \in Nat /\ InOrder(NewMessages) \in [1 .. k -> NewMessages]
      /\ \A i, j \in 1 .. k : i < j => InOrder(NewMessages)[i] < InOrder(NewMessages)[j]
      /\ \A m \in NewMessages : \E i \in 1 .. k : InOrder(NewMessages)[i] = m
  BY <1>2, InOrderIncreases
<1>4. \A i \in Coming : Path[i].n \in DOMAIN lines
  BY ComingFacts
<1> HIDE DEF k
<1>5. s \in [1 .. k -> DOMAIN lines] /\ \A i \in 1 .. k : s[i] = Path[InOrder(NewMessages)[i]].n
  BY <1>1, <1>3, <1>4
<1>6. Known = timeline \o s
  BY DEF Known, k
<1> HIDE DEF s
<1>7. s \in Seq(DOMAIN lines) /\ Len(s) = k
  BY <1>3, <1>5
<1>8. timeline \in Seq(DOMAIN lines) /\ Len(timeline) \in Nat /\ DOMAIN timeline = 1 .. Len(timeline)
  <2>1. timeline \in Seq(DOMAIN lines)
    BY DEF TypeInv, TypeOK
  <2> QED
    BY <2>1, Indices
<1>9. /\ timeline \o s \in Seq(DOMAIN lines) /\ DOMAIN (timeline \o s) = 1 .. Len(timeline) + k
      /\ \A i \in 1 .. Len(timeline) : (timeline \o s)[i] = timeline[i]
      /\ \A i \in 1 .. k : (timeline \o s)[Len(timeline) + i] = s[i]
  BY <1>3, <1>7, <1>8, Joined
<1> QED
  BY <1>3, <1>5, <1>6, <1>8, <1>9 DEF k

LEMMA LiveIsAttached ==
  ASSUME ConnInv, EngineInv, engine = "live"
  PROVE  Attached
BY DEF ConnInv, EngineInv, Attached, Alive

LEMMA KnownIsMessages ==
  ASSUME Inv, engine = "live"
  PROVE  ToSet(Known) = MessageLines
<1>1. TypeInv /\ KnownInv /\ Attached
  BY LiveIsAttached DEF Inv
<1> DEFINE l == Len(timeline)
           k == Cardinality(NewMessages)
<1>2. /\ l \in Nat /\ k \in Nat /\ DOMAIN timeline = 1 .. l /\ DOMAIN Known = 1 .. l + k
      /\ \A i \in 1 .. l : Known[i] = timeline[i]
      /\ \A i \in 1 .. k : Known[l + i] = Path[InOrder(NewMessages)[i]].n
      /\ InOrder(NewMessages) \in [1 .. k -> NewMessages]
      /\ \A m \in NewMessages : \E i \in 1 .. k : InOrder(NewMessages)[i] = m
  BY <1>1, KnownParts
<1> HIDE DEF l, k
<1>3. \A m \in NewMessages : Path[m].n \in MessageLines
  BY <1>1, ComingFacts DEF NewMessages, MessageLines
<1>4. ToSet(timeline) \subseteq MessageLines /\ skip \subseteq ToSet(timeline)
  BY <1>1 DEF KnownInv
<1>5. ASSUME NEW i \in 1 .. l + k
      PROVE  Known[i] \in MessageLines
  <2>1. CASE i \in 1 .. l
    BY <1>2, <1>4, <2>1 DEF ToSet
  <2>2. CASE i \notin 1 .. l
    <3>1. PICK j \in 1 .. k : i = l + j
      <4>1. i - l \in 1 .. k /\ i = l + (i - l)
        BY <1>2, <1>5, <2>2
      <4> QED
        BY <4>1
    <3>2. Known[i] = Path[InOrder(NewMessages)[j]].n /\ InOrder(NewMessages)[j] \in NewMessages
      BY <1>2, <3>1
    <3> QED
      BY <1>3, <3>2
  <2> QED
    BY <2>1, <2>2
<1>6. ASSUME NEW n \in ToSet(timeline)
      PROVE  n \in ToSet(Known)
  <2>1. PICK i \in 1 .. l : n = timeline[i]
    BY <1>2, <1>6 DEF ToSet
  <2>2. i \in 1 .. l + k /\ Known[i] = n
    BY <1>2, <2>1
  <2> QED
    BY <1>2, <2>2 DEF ToSet
<1>7. ASSUME NEW m \in NewMessages
      PROVE  Path[m].n \in ToSet(Known)
  <2>1. PICK j \in 1 .. k : InOrder(NewMessages)[j] = m
    BY <1>2
  <2>2. l + j \in 1 .. l + k /\ Known[l + j] = Path[m].n
    BY <1>2, <2>1
  <2> QED
    BY <1>2, <2>2 DEF ToSet
<1>8. ASSUME NEW n \in MessageLines
      PROVE  n \in ToSet(Known)
  <2>1. n \in ToSet(timeline) \/ \E i \in Coming : Path[i].n = n
    BY <1>1 DEF KnownInv
  <2>2. ASSUME NEW i \in Coming, Path[i].n = n
        PROVE  n \in ToSet(Known)
    <3>1. CASE i \in NewMessages
      BY <1>7, <2>2, <3>1
    <3>2. CASE i \notin NewMessages
      <4>1. n \in skip
        BY <2>2, <3>2 DEF NewMessages, MessageLines, IsDup
      <4> QED
        BY <1>4, <1>6, <4>1
    <3> QED
      BY <3>1, <3>2
  <2> QED
    BY <1>6, <2>1, <2>2
<1>9. ToSet(Known) \subseteq MessageLines
  BY <1>2, <1>5 DEF ToSet
<1> QED
  BY <1>8, <1>9

LEMMA KnownInOrder ==
  ASSUME Inv, engine = "live", epoch \notin replaced
  PROVE  Known = Messages
<1>1. TypeInv /\ NewInv /\ OrderInv
  BY DEF Inv
<1> DEFINE l == Len(timeline)
           k == Cardinality(NewMessages)
           new == InOrder(NewMessages)
<1>2. /\ l \in Nat /\ k \in Nat /\ DOMAIN timeline = 1 .. l /\ DOMAIN Known = 1 .. l + k
      /\ Known \in Seq(DOMAIN lines)
      /\ \A i \in 1 .. l : Known[i] = timeline[i]
      /\ \A i \in 1 .. k : Known[l + i] = Path[new[i]].n
      /\ new \in [1 .. k -> NewMessages]
      /\ \A i, j \in 1 .. k : i < j => new[i] < new[j]
  BY <1>1, KnownParts
<1> HIDE DEF l, k, new
<1>3. /\ \A i, j \in 1 .. l : i < j => timeline[i] < timeline[j]
      /\ \A i \in NewMessages : \A j \in 1 .. l : timeline[j] < Path[i].n
  BY <1>1, <1>2 DEF NewInv
<1>4. \A i, j \in NewMessages : i < j => Path[i].n < Path[j].n
  BY <1>1 DEF OrderInv, NewMessages
<1>5. \A i \in 1 .. l + k : i \in 1 .. l \/ \E j \in 1 .. k : i = l + j
  <2>1. TAKE i \in 1 .. l + k
  <2>2. i \notin 1 .. l => i - l \in 1 .. k /\ i = l + (i - l)
    BY <1>2
  <2> QED
    BY <2>2
<1>6. ASSUME NEW i \in 1 .. l + k, NEW j \in 1 .. l + k, i < j
      PROVE  Known[i] < Known[j]
  <2>1. CASE i \in 1 .. l /\ j \in 1 .. l
    BY <1>2, <1>3, <1>6, <2>1
  <2>2. CASE i \in 1 .. l /\ j \notin 1 .. l
    <3>1. PICK q \in 1 .. k : j = l + q
      BY <1>5, <2>2
    <3>2. new[q] \in NewMessages /\ Known[j] = Path[new[q]].n /\ Known[i] = timeline[i]
      BY <1>2, <2>2, <3>1
    <3> QED
      BY <1>3, <2>2, <3>2
  <2>3. CASE i \notin 1 .. l
    <3>1. j \notin 1 .. l
      BY <1>2, <1>6, <2>3
    <3>2. PICK p \in 1 .. k : i = l + p
      BY <1>5, <2>3
    <3>3. PICK q \in 1 .. k : j = l + q
      BY <1>5, <3>1
    <3>4. p < q
      BY <1>2, <1>6, <3>2, <3>3
    <3>5. new[p] \in NewMessages /\ new[q] \in NewMessages /\ new[p] < new[q]
      BY <1>2, <3>4
    <3>6. Known[i] = Path[new[p]].n /\ Known[j] = Path[new[q]].n
      BY <1>2, <3>2, <3>3
    <3> QED
      BY <1>4, <3>5, <3>6
  <2> QED
    BY <2>1, <2>2, <2>3
<1>7. ToSet(Known) = MessageLines
  BY KnownIsMessages
<1>8. IsFiniteSet(MessageLines) /\ MessageLines \in SUBSET Nat
  <2>1. MessageLines \in SUBSET DOMAIN lines
    BY DEF MessageLines
  <2> QED
    BY <1>1, <2>1, InOrderOfLines
<1>9. l + k \in Nat
  BY <1>2
<1>10. /\ Known \in [1 .. l + k -> MessageLines]
       /\ \A n \in MessageLines : \E i \in 1 .. l + k : Known[i] = n
  <2>1. \A i \in 1 .. l + k : Known[i] \in MessageLines
    BY <1>2, <1>7 DEF ToSet
  <2>2. \A n \in MessageLines : \E i \in 1 .. l + k : Known[i] = n
    BY <1>2, <1>7 DEF ToSet
  <2>3. Known = [i \in 1 .. l + k |-> Known[i]]
    BY <1>2
  <2> QED
    BY <2>1, <2>2, <2>3
<1>11. Known = InOrder(MessageLines)
  BY <1>6, <1>8, <1>9, <1>10, InOrderUnique
<1> QED
  BY <1>11 DEF Messages

\* The host's, the CLI's and the engine's state have their types, and no engine is attached
\* exactly when the time of a detach is kept.
THEOREM TypeCorrect == Spec => []TypeOK
<1>1. Inv => TypeOK
  BY DEF Inv, TypeInv
<1> QED
  BY <1>1, Invariance, PTL

\* The engine that took a session over knows every message of it or has it coming: no kill,
\* detach, replay or trimmed buffer loses one.
THEOREM NothingMissingHolds == Spec => []NothingMissing
<1>1. Inv => NothingMissing
  BY KnownIsMessages DEF NothingMissing
<1> QED
  BY <1>1, Invariance, PTL

\* What is restored from the transcript and what is replayed fit together: each message is
\* shown once, in the order printed, by an engine whose predecessor the host saw leave.
THEOREM OnceInOrderHolds == Spec => []OnceInOrder
<1>1. Inv => OnceInOrder
  BY KnownInOrder DEF OnceInOrder
<1> QED
  BY <1>1, Invariance, PTL

\* However often its request is replayed, the CLI gets one answer to it, as long as no engine
\* attached before the host saw the last one leave.
THEOREM AnsweredOnceHolds == Spec => []AnsweredOnce
<1>1. Inv => AnsweredOnce
  BY DEF Inv, AskInv, AnsweredOnce
<1> QED
  BY <1>1, Invariance, PTL

\* With nothing on its way between them, the engine and the host agree whether a turn runs.
THEOREM TurnAgreedHolds == Spec => []TurnAgreed
<1>1. ASSUME Inv
      PROVE  TurnAgreed
  <2>1. SUFFICES ASSUME engine = "live", Undisturbed, Coming = {}, ~UserComing
                 PROVE  working <=> inFlight
    BY DEF TurnAgreed, Undisturbed, UserComing
  <2>2. Attached
    BY <1>1, <2>1, LiveIsAttached DEF Inv
  <2>3. TurnTold
    BY <1>1, <2>1 DEF Inv, TurnInv
  <2>4. Effective = {}
    BY <2>1 DEF Effective
  <2>5. HelloBusy <=> inFlight
    BY <2>1, <2>2, <2>3, <2>4 DEF TurnTold
  <2> QED
    BY <2>1, <2>5 DEF HelloBusy
<1> QED
  BY <1>1, Invariance, PTL
=============================================================================
