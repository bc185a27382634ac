-------------------------- MODULE SessionTurnsProofs --------------------------
(***************************************************************************)
(* Theorems about SessionTurns, for every number of threads, messages,     *)
(* interrupts, closes and failures: its types, that a message goes to the  *)
(* CLI once at most, and that a replaced coroutine leaves the state of the *)
(* session alone.                                                          *)
(*                                                                         *)
(* The second half is about the runs in which nobody has called            *)
(* interrupt_session (its state is set without info._lock and without a    *)
(* look at the turn that runs): at most one turn runs, a session that      *)
(* shows WORKING has one, and one that shows IDLE has none.                *)
(***************************************************************************)
EXTENDS SessionTurns, FiniteSetTheorems, TLAPS

-----------------------------------------------------------------------------
(* The invariant.                                                          *)

\* The frames that carry a message nobody else has: the others only know its number.
Carrying == {"sm_lock", "sm_check", "sm_flip", "sm_schedule", "qm_append", "td_refused"}
Carries(f) == f.at \in Carrying

\* The messages on a stack, each once; a dispatch that waits has the send_message it
\* called above it, with the message it took from the queue.
MessagesIn(s) == {s[i].m : i \in {j \in DOMAIN s : Carries(s[j])}}
OnceIn(s) == \A i, j \in DOMAIN s :
               Carries(s[i]) /\ Carries(s[j]) /\ s[i].m = s[j].m => i = j
Sending == {"sm_lock", "sm_check", "sm_flip", "sm_schedule", "sm_unlock"}
Waited(f, g) == g.at = "td_wait" => f.at \in Sending /\ f.m = g.m
Linked(s) == \A i \in DOMAIN s : i > 1 => Waited(s[i - 1], s[i])
StackOK(s) ==
  /\ OnceIn(s) /\ Linked(s) /\ MessagesIn(s) \subseteq Messages
  /\ s # << >> => Head(s).at # "td_wait"

\* The coroutines whose last block runs on a stack.
Ends(f)   == f.at \in {"tk_catch", "tk_final"}
Ending(s) == {s[i].m : i \in {j \in DOMAIN s : Ends(s[j])}}

\* A message that has no coroutine yet, and one whose coroutine has not sent it.
Free(m) == m <= accepted /\ life[m] = "none" /\ m \notin dropped
Early   == {"spawned"} \cup Unsent

Placed ==
  /\ \A a \in Actors : StackOK(stack[a])
  /\ \A a, b \in Actors : a # b => MessagesIn(stack[a]) \cap MessagesIn(stack[b]) = {}
  /\ IsInjective(queue)
  /\ \A m \in ToSet(queue) : Free(m)
  /\ \A a \in Actors : \A m \in MessagesIn(stack[a]) : Free(m) /\ m \notin ToSet(queue)
  /\ \A m \in Messages : m > accepted => life[m] = "none" /\ m \notin dropped

\* Who can be thrown a CancelledError.
Throwable == {"reconnect", "prep", "turn", "mend", "drain", "listen", "resumed", "snap"}

Lined ==
  /\ \A i \in DOMAIN ready :
       /\ ready[i].do = "spawn" => ready[i].x \in Tasks /\ life[ready[i].x] = "spawned"
       /\ ready[i].do = "throw" => ready[i].x \in cancelled /\ life[ready[i].x] \in Throwable
  /\ \A i, j \in DOMAIN ready :
       ready[i] = ready[j] /\ ready[i].do \in {"spawn", "throw"} => i = j
  /\ \A k \in Ending(stack[Loop]) : k \notin cancelled /\ life[k] \notin {"none", "spawned"}

Gave ==
  /\ IsInjective(sent)
  /\ \A k \in ToSet(sent) : life[k] \notin Early \cup {"none"} /\ k \notin dropped
  /\ \A k \in Tasks : life[k] \in Early => k \notin dropped
  /\ life[0] \notin Early \cup {"none"}

-----------------------------------------------------------------------------
(* A stack and its top frame.                                              *)

\* A frame that is pushed.
LEMMA Push ==
  ASSUME NEW s \in Seq(Frame), NEW f \in Frame
  PROVE  /\ <<f>> \o s \in Seq(Frame) /\ <<f>> \o s # << >>
         /\ Head(<<f>> \o s) = f /\ Tail(<<f>> \o s) = s
         /\ (<<f>> \o s)[1] = f
         /\ DOMAIN (<<f>> \o s) = 1 .. Len(s) + 1 /\ DOMAIN s = 1 .. Len(s) /\ Len(s) \in Nat
         /\ \A i \in DOMAIN s : i + 1 \in DOMAIN (<<f>> \o s) /\ (<<f>> \o s)[i + 1] = s[i]
         /\ \A i \in DOMAIN (<<f>> \o s) :
              i = 1 \/ (i - 1 \in DOMAIN s /\ (<<f>> \o s)[i] = s[i - 1])
         /\ s # << >> => 1 \in DOMAIN s /\ s[1] = Head(s)
<1> DEFINE t == <<f>> \o s
<1>1. /\ t \in Seq(Frame) /\ t # << >>
      /\ Len(s) \in Nat /\ DOMAIN s = 1 .. Len(s)
      /\ DOMAIN t = 1 .. Len(s) + 1
      /\ t[1] = f
      /\ \A i \in 2 .. Len(s) + 1 : t[i] = s[i - 1]
  OBVIOUS
<1>2. Head(t) = f /\ Tail(t) = s
  OBVIOUS
<1>3. s # << >> => 1 \in DOMAIN s /\ s[1] = Head(s)
  OBVIOUS
<1> HIDE DEF t
<1>4. \A i \in DOMAIN t : i = 1 \/ (i - 1 \in DOMAIN s /\ t[i] = s[i - 1])
  BY <1>1
<1>5. \A i \in DOMAIN s : i + 1 \in DOMAIN t /\ t[i + 1] = s[i]
  BY <1>1
<1> QED BY <1>1, <1>2, <1>3, <1>4, <1>5 DEF t

\* A stack that is not empty is its top frame on the rest.
LEMMA Pop ==
  ASSUME NEW s \in Seq(Frame), s # << >>
  PROVE  /\ Head(s) \in Frame /\ Tail(s) \in Seq(Frame)
         /\ s = <<Head(s)>> \o Tail(s)
OBVIOUS

LEMMA PushTwo ==
  ASSUME NEW s \in Seq(Frame), NEW f \in Frame, NEW g \in Frame
  PROVE  <<f, g>> \o s = <<f>> \o (<<g>> \o s)
<1> DEFINE t == <<f, g>> \o s
           u == <<f>> \o (<<g>> \o s)
<1>1. /\ t \in Seq(Frame) /\ Len(t) = Len(s) + 2 /\ t[1] = f /\ t[2] = g
      /\ \A i \in 3 .. Len(s) + 2 : t[i] = s[i - 2]
  OBVIOUS
<1>2. /\ u \in Seq(Frame) /\ Len(u) = Len(s) + 2 /\ u[1] = f /\ u[2] = g
      /\ \A i \in 3 .. Len(s) + 2 : u[i] = s[i - 2]
  OBVIOUS
<1>3. Len(s) \in Nat
  OBVIOUS
<1> HIDE DEF t, u
<1>4. \A i \in 1 .. Len(s) + 2 : t[i] = u[i]
  BY <1>1, <1>2, <1>3
<1>5. t = u
  BY <1>1, <1>2, <1>4
<1> QED BY <1>5 DEF t, u

\* What the frames of a stack with one more carry, and what they run.
LEMMA PushCarries ==
  ASSUME NEW s \in Seq(Frame), NEW f \in Frame
  PROVE  /\ MessagesIn(<<f>> \o s) = MessagesIn(s) \cup (IF Carries(f) THEN {f.m} ELSE {})
         /\ Ending(<<f>> \o s) = Ending(s) \cup (IF Ends(f) THEN {f.m} ELSE {})
         /\ OnceIn(<<f>> \o s) <=> OnceIn(s) /\ (Carries(f) => f.m \notin MessagesIn(s))
         /\ Linked(<<f>> \o s) <=> Linked(s) /\ (s # << >> => Waited(f, Head(s)))
<1> DEFINE t == <<f>> \o s
<1>1. /\ t[1] = f /\ 1 \in DOMAIN t
      /\ DOMAIN t = 1 .. Len(s) + 1 /\ DOMAIN s = 1 .. Len(s) /\ Len(s) \in Nat
      /\ \A i \in DOMAIN s : i + 1 \in DOMAIN t /\ t[i + 1] = s[i]
      /\ \A i \in DOMAIN t : i = 1 \/ (i - 1 \in DOMAIN s /\ t[i] = s[i - 1])
      /\ s # << >> => 1 \in DOMAIN s /\ s[1] = Head(s)
  BY Push
<1> HIDE DEF t
<1>2. MessagesIn(t) = MessagesIn(s) \cup (IF Carries(f) THEN {f.m} ELSE {})
  <2>1. ASSUME NEW x \in MessagesIn(t)
        PROVE  x \in MessagesIn(s) \cup (IF Carries(f) THEN {f.m} ELSE {})
    BY <1>1 DEF MessagesIn
  <2>2. MessagesIn(s) \subseteq MessagesIn(t)
    BY <1>1 DEF MessagesIn
  <2>3. Carries(f) => f.m \in MessagesIn(t)
    BY <1>1 DEF MessagesIn
  <2> QED BY <2>1, <2>2, <2>3
<1>3. Ending(t) = Ending(s) \cup (IF Ends(f) THEN {f.m} ELSE {})
  <2>1. ASSUME NEW x \in Ending(t)
        PROVE  x \in Ending(s) \cup (IF Ends(f) THEN {f.m} ELSE {})
    BY <1>1 DEF Ending
  <2>2. Ending(s) \subseteq Ending(t)
    BY <1>1 DEF Ending
  <2>3. Ends(f) => f.m \in Ending(t)
    BY <1>1 DEF Ending
  <2> QED BY <2>1, <2>2, <2>3
<1>4. OnceIn(t) <=> OnceIn(s) /\ (Carries(f) => f.m \notin MessagesIn(s))
  <2>1. ASSUME OnceIn(t) PROVE OnceIn(s) /\ (Carries(f) => f.m \notin MessagesIn(s))
    <3>1. OnceIn(s)
      BY <1>1, <2>1 DEF OnceIn
    <3>2. ASSUME Carries(f), f.m \in MessagesIn(s) PROVE FALSE
      <4>1. PICK i \in DOMAIN s : Carries(s[i]) /\ s[i].m = f.m
        BY <3>2 DEF MessagesIn
      <4> QED BY <1>1, <2>1, <3>2, <4>1 DEF OnceIn
    <3> QED BY <3>1, <3>2
  <2>2. ASSUME OnceIn(s), Carries(f) => f.m \notin MessagesIn(s) PROVE OnceIn(t)
    <3>1. SUFFICES ASSUME NEW i \in DOMAIN t, NEW j \in DOMAIN t,
                          Carries(t[i]), Carries(t[j]), t[i].m = t[j].m
                   PROVE  i = j
      BY DEF OnceIn
    <3>2. CASE i = 1 /\ j # 1
      BY <1>1, <2>2, <3>1, <3>2 DEF MessagesIn
    <3>3. CASE i # 1 /\ j = 1
      BY <1>1, <2>2, <3>1, <3>3 DEF MessagesIn
    <3>4. CASE i # 1 /\ j # 1
      BY <1>1, <2>2, <3>1, <3>4 DEF OnceIn
    <3> QED BY <3>2, <3>3, <3>4
  <2> QED BY <2>1, <2>2
<1>5. Linked(t) <=> Linked(s) /\ (s # << >> => Waited(f, Head(s)))
  <2>1. ASSUME Linked(t) PROVE Linked(s) /\ (s # << >> => Waited(f, Head(s)))
    <3>1. ASSUME NEW i \in DOMAIN s, i > 1 PROVE Waited(s[i - 1], s[i])
      <4>1. i - 1 \in DOMAIN s /\ i + 1 > 1 /\ (i - 1) + 1 = i /\ (i + 1) - 1 = i
        BY <1>1, <3>1
      <4>2. t[i] = s[i - 1] /\ t[i + 1] = s[i] /\ i + 1 \in DOMAIN t
        BY <1>1, <3>1, <4>1
      <4> QED BY <2>1, <4>1, <4>2 DEF Linked
    <3>2. ASSUME s # << >> PROVE Waited(f, Head(s))
      <4>1. 2 \in DOMAIN t /\ t[2] = Head(s) /\ 2 > 1 /\ 2 - 1 = 1
        BY <1>1, <3>2
      <4>2. Waited(t[2 - 1], t[2])
        BY <2>1, <4>1 DEF Linked
      <4> QED BY <1>1, <4>1, <4>2
    <3> QED BY <3>1, <3>2 DEF Linked
  <2>2. ASSUME Linked(s), s # << >> => Waited(f, Head(s)) PROVE Linked(t)
    <3>1. SUFFICES ASSUME NEW i \in DOMAIN t, i > 1 PROVE Waited(t[i - 1], t[i])
      BY DEF Linked
    <3>2. i - 1 \in DOMAIN s /\ t[i] = s[i - 1] /\ s # << >>
      BY <1>1, <3>1
    <3>3. CASE i - 1 = 1
      BY <1>1, <2>2, <3>2, <3>3
    <3>4. CASE i - 1 > 1
      <4>1. (i - 1) - 1 \in DOMAIN s /\ t[i - 1] = s[(i - 1) - 1]
        BY <1>1, <3>1, <3>4
      <4> QED BY <2>2, <3>2, <3>4, <4>1 DEF Linked
    <3> QED BY <1>1, <3>1, <3>2, <3>3, <3>4
  <2> QED BY <2>1, <2>2
<1> QED BY <1>2, <1>3, <1>4, <1>5 DEF t

\* A frame and what is below it.
LEMMA Below ==
  ASSUME NEW s \in Seq(Frame), s # << >>, OnceIn(s), Linked(s)
  PROVE  /\ Head(s) \in Frame /\ Tail(s) \in Seq(Frame)
         /\ OnceIn(Tail(s)) /\ Linked(Tail(s))
         /\ Tail(s) # << >> => Waited(Head(s), Head(Tail(s)))
         /\ MessagesIn(s) = MessagesIn(Tail(s))
                            \cup (IF Carries(Head(s)) THEN {Head(s).m} ELSE {})
         /\ Ending(s) = Ending(Tail(s)) \cup (IF Ends(Head(s)) THEN {Head(s).m} ELSE {})
         /\ Carries(Head(s)) => Head(s).m \notin MessagesIn(Tail(s))
<1> DEFINE h == Head(s)
           r == Tail(s)
<1>1. h \in Frame /\ r \in Seq(Frame) /\ s = <<h>> \o r
  BY Pop
<1> HIDE DEF h, r
<1>2. /\ MessagesIn(s) = MessagesIn(r) \cup (IF Carries(h) THEN {h.m} ELSE {})
      /\ Ending(s) = Ending(r) \cup (IF Ends(h) THEN {h.m} ELSE {})
      /\ OnceIn(s) <=> OnceIn(r) /\ (Carries(h) => h.m \notin MessagesIn(r))
      /\ Linked(s) <=> Linked(r) /\ (r # << >> => Waited(h, Head(r)))
  BY <1>1, PushCarries
<1> QED BY <1>1, <1>2 DEF h, r

\* A stack that is in order, its top frame and the rest.
LEMMA TopOf ==
  ASSUME NEW s \in Seq(Frame), s # << >>, StackOK(s)
  PROVE  /\ Head(s) \in Frame /\ Tail(s) \in Seq(Frame) /\ Head(s).at # "td_wait"
         /\ OnceIn(Tail(s)) /\ Linked(Tail(s)) /\ MessagesIn(Tail(s)) \subseteq Messages
         /\ Tail(s) # << >> => Waited(Head(s), Head(Tail(s)))
         /\ MessagesIn(s) = MessagesIn(Tail(s))
                            \cup (IF Carries(Head(s)) THEN {Head(s).m} ELSE {})
         /\ Ending(s) = Ending(Tail(s)) \cup (IF Ends(Head(s)) THEN {Head(s).m} ELSE {})
         /\ Carries(Head(s)) => Head(s).m \in Messages /\ Head(s).m \notin MessagesIn(Tail(s))
BY Below DEF StackOK

\* A frame on top of a stack that is in order but for its own top.
LEMMA OnTop ==
  ASSUME NEW r \in Seq(Frame), OnceIn(r), Linked(r), MessagesIn(r) \subseteq Messages,
         NEW g \in Frame, g.at # "td_wait",
         r # << >> => Waited(g, Head(r)),
         Carries(g) => g.m \in Messages /\ g.m \notin MessagesIn(r)
  PROVE  /\ <<g>> \o r \in Seq(Frame) /\ StackOK(<<g>> \o r)
         /\ MessagesIn(<<g>> \o r) = MessagesIn(r) \cup (IF Carries(g) THEN {g.m} ELSE {})
         /\ Ending(<<g>> \o r) = Ending(r) \cup (IF Ends(g) THEN {g.m} ELSE {})
<1>1. /\ MessagesIn(<<g>> \o r) = MessagesIn(r) \cup (IF Carries(g) THEN {g.m} ELSE {})
      /\ Ending(<<g>> \o r) = Ending(r) \cup (IF Ends(g) THEN {g.m} ELSE {})
      /\ OnceIn(<<g>> \o r) /\ Linked(<<g>> \o r)
  BY PushCarries
<1>2. <<g>> \o r \in Seq(Frame) /\ Head(<<g>> \o r) = g
  BY Push
<1> QED BY <1>1, <1>2 DEF StackOK

\* What a step of actor a does to the stacks: its own stays in order, without the
\* messages of L and with those of M.
Moves(a, L, M) ==
  /\ stack' \in [Actors -> Seq(Frame)]
  /\ \A b \in Actors \ {a} : stack'[b] = stack[b]
  /\ StackOK(stack'[a])
  /\ MessagesIn(stack'[a]) = (MessagesIn(stack[a]) \ L) \cup M
  /\ Ending(stack'[a]) \subseteq Ending(stack[a])

Stacks == stack \in [Actors -> Seq(Frame)] /\ \A a \in Actors : StackOK(stack[a])

OfTop(a) == IF Carries(Top(a)) THEN {Top(a).m} ELSE {}

\* The top frame goes on.
LEMMA GotoMoves ==
  ASSUME Stacks, NEW a \in Actors, stack[a] # << >>, NEW l \in Labels, Goto(a, l),
         l \notin {"td_wait", "tk_catch", "tk_final"},
         l \in Carrying => Carries(Top(a)),
         Top(a).at \in Sending => l \in Sending
  PROVE  Moves(a, IF l \in Carrying THEN {} ELSE OfTop(a), {})
<1> DEFINE s == stack[a]
           g == [Head(s) EXCEPT !.at = l]
<1>1. s \in Seq(Frame) /\ s # << >> /\ StackOK(s)
  BY DEF Stacks
<1>2. g \in Frame /\ g.m = Head(s).m /\ g.at = l
  <2>1. Head(s) \in Frame
    BY <1>1, TopOf
  <2> QED BY <2>1 DEF Frame
<1>3. /\ stack' = [stack EXCEPT ![a] = <<g>> \o Tail(s)]
  BY DEF Goto
<1>4. /\ <<g>> \o Tail(s) \in Seq(Frame) /\ StackOK(<<g>> \o Tail(s))
      /\ MessagesIn(<<g>> \o Tail(s)) =
           MessagesIn(Tail(s)) \cup (IF Carries(g) THEN {g.m} ELSE {})
      /\ Ending(<<g>> \o Tail(s)) = Ending(Tail(s)) \cup (IF Ends(g) THEN {g.m} ELSE {})
  <2> HIDE DEF s, g
  <2>1. Top(a) = Head(s)
    BY DEF Top, s
  <2>2. Tail(s) # << >> => Waited(g, Head(Tail(s)))
    BY <1>1, <1>2, <2>1, TopOf DEF Waited
  <2>3. Carries(g) => g.m \in Messages /\ g.m \notin MessagesIn(Tail(s))
    BY <1>1, <1>2, <2>1, TopOf DEF Carries
  <2> QED BY <1>1, <1>2, <2>2, <2>3, TopOf, OnTop
<1>5. stack' \in [Actors -> Seq(Frame)] /\ stack'[a] = <<g>> \o Tail(s)
      /\ \A b \in Actors \ {a} : stack'[b] = stack[b]
  BY <1>3, <1>4 DEF Stacks
<1> HIDE DEF g
<1>6. /\ MessagesIn(s) = MessagesIn(Tail(s)) \cup OfTop(a)
      /\ Ending(Tail(s)) \subseteq Ending(s)
      /\ Carries(Top(a)) => Top(a).m \notin MessagesIn(Tail(s))
  BY <1>1, TopOf DEF Top, OfTop
<1>7. MessagesIn(stack'[a]) =
        (MessagesIn(s) \ (IF l \in Carrying THEN {} ELSE OfTop(a))) \cup {}
  <2>1. CASE l \in Carrying
    <3>1. Carries(g) /\ Carries(Top(a)) /\ g.m = Top(a).m
      BY <1>2, <2>1 DEF Carries, Top
    <3> QED BY <1>4, <1>5, <1>6, <2>1, <3>1 DEF OfTop
  <2>2. CASE l \notin Carrying
    <3>1. ~Carries(g)
      BY <1>2, <2>2 DEF Carries
    <3> QED BY <1>4, <1>5, <1>6, <2>2, <3>1 DEF OfTop
  <2> QED BY <2>1, <2>2
<1>8. Ending(stack'[a]) \subseteq Ending(s)
  BY <1>2, <1>4, <1>5, <1>6 DEF Ends
<1> QED BY <1>4, <1>5, <1>7, <1>8 DEF Moves

\* The top frame returns to a caller that is not a dispatch.
LEMMA ReturnMoves ==
  ASSUME Stacks, NEW a \in Actors, stack[a] # << >>, stack' = [stack EXCEPT ![a] = Tail(@)],
         Tail(stack[a]) # << >> => Head(Tail(stack[a])).at # "td_wait"
  PROVE  Moves(a, OfTop(a), {})
<1>1. stack[a] \in Seq(Frame) /\ StackOK(stack[a])
  BY DEF Stacks
<1>2. /\ Tail(stack[a]) \in Seq(Frame) /\ StackOK(Tail(stack[a]))
      /\ MessagesIn(stack[a]) = MessagesIn(Tail(stack[a])) \cup OfTop(a)
      /\ Ending(Tail(stack[a])) \subseteq Ending(stack[a])
      /\ Carries(Top(a)) => Top(a).m \notin MessagesIn(Tail(stack[a]))
  BY <1>1, TopOf DEF StackOK, Top, OfTop
<1>3. stack' \in [Actors -> Seq(Frame)] /\ stack'[a] = Tail(stack[a])
      /\ \A b \in Actors \ {a} : stack'[b] = stack[b]
  BY <1>2 DEF Stacks
<1> QED BY <1>2, <1>3 DEF Moves, OfTop

\* The top frame becomes g and calls f.
LEMMA CallMoves ==
  ASSUME Stacks, NEW a \in Actors, stack[a] # << >>, NEW f \in Frame, NEW g \in Frame,
         stack' = [stack EXCEPT ![a] = <<f, g>> \o Tail(@)],
         ~Ends(f), ~Ends(g), f.at # "td_wait", Waited(f, g),
         Top(a).at \in Sending => g.at \in Sending /\ g.m = Top(a).m,
         Carries(f) => ~Carries(g) /\ f.m \in Messages
                       /\ (f.m \in MessagesIn(stack[a]) => f.m \in OfTop(a)),
         Carries(g) => g.m \in OfTop(a)
  PROVE  Moves(a, OfTop(a), IF Carries(f) THEN {f.m} ELSE IF Carries(g) THEN {g.m} ELSE {})
<1> DEFINE s == stack[a]
           r == Tail(s)
<1>1. s \in Seq(Frame) /\ s # << >> /\ StackOK(s)
  BY DEF Stacks
<1>2. /\ r \in Seq(Frame) /\ OnceIn(r) /\ Linked(r) /\ MessagesIn(r) \subseteq Messages
      /\ r # << >> => Waited(Top(a), Head(r))
      /\ MessagesIn(s) = MessagesIn(r) \cup OfTop(a)
      /\ Ending(r) \subseteq Ending(s)
      /\ \A m \in OfTop(a) : m \in Messages /\ m \notin MessagesIn(r)
  BY <1>1, TopOf DEF Top, OfTop
<1>3. r # << >> => Waited(g, Head(r))
  BY <1>2 DEF Waited
<1>4. /\ <<g>> \o r \in Seq(Frame) /\ OnceIn(<<g>> \o r) /\ Linked(<<g>> \o r)
      /\ MessagesIn(<<g>> \o r) = MessagesIn(r) \cup (IF Carries(g) THEN {g.m} ELSE {})
      /\ Ending(<<g>> \o r) = Ending(r) \cup (IF Ends(g) THEN {g.m} ELSE {})
      /\ Head(<<g>> \o r) = g
  <2> HIDE DEF r
  <2> QED BY <1>2, <1>3, Push, PushCarries
<1> DEFINE t == <<g>> \o r
<1>5. MessagesIn(t) \subseteq Messages /\ (Carries(f) => f.m \notin MessagesIn(t))
  BY <1>2, <1>4
<1>6. <<f, g>> \o r = <<f>> \o t
  BY <1>2, PushTwo
<1> HIDE DEF t, r, s
<1>7. /\ <<f>> \o t \in Seq(Frame) /\ StackOK(<<f>> \o t)
      /\ MessagesIn(<<f>> \o t) = MessagesIn(t) \cup (IF Carries(f) THEN {f.m} ELSE {})
      /\ Ending(<<f>> \o t) = Ending(t) \cup (IF Ends(f) THEN {f.m} ELSE {})
  <2>1. t \in Seq(Frame) /\ OnceIn(t) /\ Linked(t) /\ Head(t) = g
    BY <1>4 DEF t
  <2> QED BY <1>5, <2>1, OnTop
<1>8. stack' \in [Actors -> Seq(Frame)] /\ stack'[a] = <<f>> \o t
      /\ \A b \in Actors \ {a} : stack'[b] = stack[b]
  BY <1>6, <1>7 DEF Stacks, s, r
<1>9. MessagesIn(stack'[a]) = (MessagesIn(stack[a]) \ OfTop(a))
        \cup (IF Carries(f) THEN {f.m} ELSE IF Carries(g) THEN {g.m} ELSE {})
  BY <1>2, <1>4, <1>7, <1>8 DEF t, s
<1>10. Ending(stack'[a]) \subseteq Ending(stack[a])
  BY <1>2, <1>4, <1>7, <1>8 DEF t, s
<1> QED BY <1>7, <1>8, <1>9, <1>10 DEF Moves

\* send_message was called by a dispatch: the frame below it is the one that waits.
LEMMA Dispatching ==
  ASSUME Stacks, NEW a \in Actors, stack[a] # << >>
  PROVE  FromDispatch(a) <=> Tail(stack[a]) # << >> /\ Head(Tail(stack[a])).at = "td_wait"
<1>1. stack[a] \in Seq(Frame)
  BY DEF Stacks
<1> DEFINE s == stack[a]
<1>2. s \in Seq(Frame) /\ s # << >>
  BY <1>1
<1> HIDE DEF s
<1>3. Len(s) > 1 <=> Tail(s) # << >>
  <2>1. Len(s) \in Nat /\ Len(s) # 0 /\ Len(Tail(s)) = Len(s) - 1 /\ Tail(s) \in Seq(Frame)
    BY <1>2
  <2>2. ASSUME NEW t \in Seq(Frame) PROVE t # << >> <=> Len(t) # 0
    OBVIOUS
  <2>3. Tail(s) # << >> <=> Len(Tail(s)) # 0
    BY <2>1, <2>2, Zenon
  <2> QED BY <2>1, <2>3
<1>4. ASSUME Tail(s) # << >> PROVE Head(Tail(s)) = s[2]
  BY <1>2, <1>4
<1> QED BY <1>3, <1>4 DEF FromDispatch, s

\* What a dispatch that waits leaves when it is gone, too.
LEMMA DispatchBelow ==
  ASSUME Stacks, NEW a \in Actors, stack[a] # << >>, FromDispatch(a)
  PROVE  /\ Tail(stack[a]) \in Seq(Frame) /\ Tail(stack[a]) # << >>
         /\ Head(Tail(stack[a])) = stack[a][2]
         /\ stack[a][2] \in Frame /\ stack[a][2].at = "td_wait" /\ stack[a][2].m = Top(a).m
         /\ Tail(Tail(stack[a])) \in Seq(Frame)
         /\ StackOK(Tail(Tail(stack[a])))
         /\ MessagesIn(stack[a]) = MessagesIn(Tail(Tail(stack[a]))) \cup OfTop(a)
         /\ Ending(Tail(Tail(stack[a]))) \subseteq Ending(stack[a])
         /\ Carries(Top(a)) => Top(a).m \in Messages
                               /\ Top(a).m \notin MessagesIn(Tail(Tail(stack[a])))
<1>1. stack[a] \in Seq(Frame) /\ StackOK(stack[a])
  BY DEF Stacks
<1> DEFINE s == stack[a]
           r == Tail(s)
<1>2. /\ r \in Seq(Frame) /\ OnceIn(r) /\ Linked(r) /\ MessagesIn(r) \subseteq Messages
      /\ r # << >> => Waited(Top(a), Head(r))
      /\ MessagesIn(s) = MessagesIn(r) \cup OfTop(a)
      /\ Ending(r) \subseteq Ending(s)
      /\ Carries(Top(a)) => Top(a).m \in Messages /\ Top(a).m \notin MessagesIn(r)
  BY <1>1, TopOf DEF Top, OfTop
<1>3. r # << >> /\ Head(r).at = "td_wait"
  BY Dispatching
<1>4. Head(r) = s[2]
  <2> HIDE DEF s
  <2>1. s \in Seq(Frame) /\ s # << >> /\ Tail(s) # << >>
    BY <1>1, <1>3 DEF s
  <2> QED BY <2>1
<1> HIDE DEF r, s
<1>5. /\ Head(r) \in Frame /\ Tail(r) \in Seq(Frame)
      /\ OnceIn(Tail(r)) /\ Linked(Tail(r))
      /\ Tail(r) # << >> => Waited(Head(r), Head(Tail(r)))
      /\ MessagesIn(r) = MessagesIn(Tail(r))
                         \cup (IF Carries(Head(r)) THEN {Head(r).m} ELSE {})
      /\ Ending(r) = Ending(Tail(r)) \cup (IF Ends(Head(r)) THEN {Head(r).m} ELSE {})
  BY <1>2, <1>3, Below
<1>6. ~Carries(Head(r)) /\ ~Ends(Head(r)) /\ Head(r).at \notin Sending
  BY <1>3 DEF Carries, Ends, Carrying, Sending
<1>7. StackOK(Tail(r)) /\ MessagesIn(r) = MessagesIn(Tail(r)) /\ Ending(r) = Ending(Tail(r))
  BY <1>2, <1>5, <1>6 DEF StackOK, Waited
<1>8. Head(r).m = Top(a).m
  BY <1>2, <1>3 DEF Waited
<1> QED BY <1>2, <1>3, <1>4, <1>5, <1>7, <1>8 DEF r, s

\* send_message returns.
LEMMA SentMoves ==
  ASSUME Stacks, NEW a \in Actors, stack[a] # << >>, ReturnSent(a)
  PROVE  Moves(a, OfTop(a), {})
<1>1. CASE FromDispatch(a)
  <2>1. stack' = [stack EXCEPT ![a] = Tail(Tail(@))]
    BY <1>1 DEF ReturnSent
  <2>2. stack' \in [Actors -> Seq(Frame)] /\ stack'[a] = Tail(Tail(stack[a]))
        /\ \A b \in Actors \ {a} : stack'[b] = stack[b]
    BY <1>1, <2>1, DispatchBelow DEF Stacks
  <2> QED BY <1>1, <2>2, DispatchBelow DEF Moves, OfTop
<1>2. CASE ~FromDispatch(a)
  <2>1. stack' = [stack EXCEPT ![a] = Tail(@)]
    BY <1>2 DEF ReturnSent
  <2> QED BY <1>2, <2>1, Dispatching, ReturnMoves
<1> QED BY <1>1, <1>2

\* send_message has refused: a dispatch is left with the message, a caller is not.
LEMMA RefusedMoves ==
  ASSUME Stacks, NEW a \in Actors, stack[a] # << >>, Carries(Top(a)), ReturnRefused(a)
  PROVE  Moves(a, IF FromDispatch(a) THEN {} ELSE {Top(a).m}, {})
<1>1. CASE FromDispatch(a)
  <2> DEFINE r == Tail(Tail(stack[a]))
             g == [stack[a][2] EXCEPT !.at = "td_refused"]
  <2>1. stack' = [stack EXCEPT ![a] = <<g>> \o r]
    BY <1>1 DEF ReturnRefused
  <2>2. /\ stack[a][2] \in Frame /\ stack[a][2].m = Top(a).m
        /\ r \in Seq(Frame) /\ StackOK(r)
        /\ MessagesIn(stack[a]) = MessagesIn(r) \cup {Top(a).m}
        /\ Ending(r) \subseteq Ending(stack[a])
        /\ Top(a).m \in Messages /\ Top(a).m \notin MessagesIn(r)
    BY <1>1, DispatchBelow DEF OfTop
  <2>3. g \in Frame /\ g.m = Top(a).m /\ g.at = "td_refused"
    BY <2>2 DEF Frame, Labels
  <2> HIDE DEF g, r
  <2>4. /\ <<g>> \o r \in Seq(Frame) /\ StackOK(<<g>> \o r)
        /\ MessagesIn(<<g>> \o r) = MessagesIn(r) \cup {Top(a).m}
        /\ Ending(<<g>> \o r) = Ending(r)
    <3>1. /\ OnceIn(r) /\ Linked(r) /\ MessagesIn(r) \subseteq Messages
          /\ r # << >> => Waited(g, Head(r))
          /\ Carries(g) /\ ~Ends(g) /\ g.at # "td_wait"
      BY <2>2, <2>3 DEF StackOK, Waited, Carries, Carrying, Ends
    <3> QED BY <2>2, <2>3, <3>1, OnTop
  <2>5. stack' \in [Actors -> Seq(Frame)] /\ stack'[a] = <<g>> \o r
        /\ \A b \in Actors \ {a} : stack'[b] = stack[b]
    BY <2>1, <2>4 DEF Stacks
  <2> QED BY <1>1, <2>2, <2>4, <2>5 DEF Moves
<1>2. CASE ~FromDispatch(a)
  <2>1. stack' = [stack EXCEPT ![a] = Tail(@)]
    BY <1>2 DEF ReturnRefused
  <2>2. Moves(a, OfTop(a), {})
    BY <1>2, <2>1, Dispatching, ReturnMoves
  <2> QED BY <1>2, <2>2 DEF OfTop
<1> QED BY <1>1, <1>2

-----------------------------------------------------------------------------
(* The stacks, step by step.                                               *)

LEMMA AtTop ==
  ASSUME Stacks, NEW a \in Actors, NEW l, At(a, l)
  PROVE  /\ stack[a] # << >> /\ Top(a).at = l /\ Top(a) = Head(stack[a])
         /\ Top(a) \in Frame
         /\ l \notin Sending /\ Tail(stack[a]) # << >> => Head(Tail(stack[a])).at # "td_wait"
         /\ OfTop(a) = (IF l \in Carrying THEN {Top(a).m} ELSE {})
         /\ OfTop(a) \subseteq MessagesIn(stack[a]) /\ OfTop(a) \subseteq Messages
<1>1. stack[a] # << >> /\ Top(a).at = l /\ Top(a) = Head(stack[a])
  BY DEF At, Top
<1>2. stack[a] \in Seq(Frame) /\ StackOK(stack[a])
  BY DEF Stacks
<1>3. /\ Tail(stack[a]) # << >> => Waited(Top(a), Head(Tail(stack[a])))
      /\ OfTop(a) \subseteq MessagesIn(stack[a]) /\ OfTop(a) \subseteq Messages
      /\ Top(a) \in Frame
  BY <1>1, <1>2, TopOf DEF OfTop
<1> QED BY <1>1, <1>3 DEF Waited, OfTop, Carries

\* Most steps move no message from one hand to another.
Kept(a) ==
  \/ SendAcquire(a) \/ SendBusy(a) \/ SendUnlock(a) \/ SendPasses(a) \/ SendFlip(a)
  \/ QueueCheck(a) \/ DispatchEmpty(a) \/ EmitTrim(a) \/ EmitCheck(a) \/ EmitTimer(a)
  \/ ReemitCheck(a) \/ InterruptPop(a) \/ InterruptFlag(a) \/ InterruptIdle(a)
  \/ InterruptCapture(a) \/ InterruptSchedule(a)

LEMMA KeptMoves ==
  ASSUME Stacks, task \in Tasks \cup {None}, NEW a \in Actors, Kept(a)
  PROVE  Moves(a, {}, {})
<1>1. CASE SendAcquire(a)
  <2>1. At(a, "sm_lock") /\ Goto(a, "sm_check")
    BY <1>1 DEF SendAcquire
  <2>2. Moves(a, IF "sm_check" \in Carrying THEN {} ELSE OfTop(a), {})
    BY <2>1, AtTop, GotoMoves DEF Carries, Carrying, Sending, Labels
  <2> QED BY <2>1, <2>2, AtTop DEF Carrying
<1>2. CASE SendPasses(a)
  <2>1. At(a, "sm_check") /\ Goto(a, "sm_flip")
    BY <1>2 DEF SendPasses
  <2>2. Moves(a, IF "sm_flip" \in Carrying THEN {} ELSE OfTop(a), {})
    BY <2>1, AtTop, GotoMoves DEF Carries, Carrying, Sending, Labels
  <2> QED BY <2>1, <2>2, AtTop DEF Carrying
<1>3. CASE EmitTrim(a)
  <2>1. At(a, "es_trim") /\ Goto(a, "es_check")
    BY <1>3 DEF EmitTrim
  <2>2. Moves(a, IF "es_check" \in Carrying THEN {} ELSE OfTop(a), {})
    BY <2>1, AtTop, GotoMoves DEF Carries, Carrying, Sending, Labels
  <2> QED BY <2>1, <2>2, AtTop DEF Carrying
<1>4. CASE InterruptPop(a)
  <2>1. At(a, "in_pop") /\ Goto(a, "in_flag")
    BY <1>4 DEF InterruptPop
  <2>2. Moves(a, IF "in_flag" \in Carrying THEN {} ELSE OfTop(a), {})
    BY <2>1, AtTop, GotoMoves DEF Carries, Carrying, Sending, Labels
  <2> QED BY <2>1, <2>2, AtTop DEF Carrying
<1>5. CASE InterruptFlag(a)
  <2>1. At(a, "in_flag") /\ Goto(a, "in_idle")
    BY <1>5 DEF InterruptFlag
  <2>2. Moves(a, IF "in_idle" \in Carrying THEN {} ELSE OfTop(a), {})
    BY <2>1, AtTop, GotoMoves DEF Carries, Carrying, Sending, Labels
  <2> QED BY <2>1, <2>2, AtTop DEF Carrying
<1>6. CASE InterruptIdle(a)
  <2>1. At(a, "in_idle") /\ Goto(a, "in_capture")
    BY <1>6 DEF InterruptIdle
  <2>2. Moves(a, IF "in_capture" \in Carrying THEN {} ELSE OfTop(a), {})
    BY <2>1, AtTop, GotoMoves DEF Carries, Carrying, Sending, Labels
  <2> QED BY <2>1, <2>2, AtTop DEF Carrying
<1>7. CASE DispatchEmpty(a)
  <2>1. At(a, "td_pop") /\ Return(a)
    BY <1>7 DEF DispatchEmpty
  <2>2. Moves(a, OfTop(a), {})
    BY <2>1, AtTop, ReturnMoves DEF Return, Sending
  <2>3. OfTop(a) = {}
    BY <2>1, AtTop DEF Carrying
  <2> QED BY <2>2, <2>3
<1>8. CASE EmitTimer(a)
  <2>1. At(a, "es_timer") /\ Return(a)
    BY <1>8 DEF EmitTimer
  <2>2. Moves(a, OfTop(a), {})
    BY <2>1, AtTop, ReturnMoves DEF Return, Sending
  <2>3. OfTop(a) = {}
    BY <2>1, AtTop DEF Carrying
  <2> QED BY <2>2, <2>3
<1>9. CASE InterruptSchedule(a)
  <2>1. At(a, "in_schedule") /\ Return(a)
    BY <1>9 DEF InterruptSchedule
  <2>2. Moves(a, OfTop(a), {})
    BY <2>1, AtTop, ReturnMoves DEF Return, Sending
  <2>3. OfTop(a) = {}
    BY <2>1, AtTop DEF Carrying
  <2> QED BY <2>2, <2>3
<1>10. CASE QueueCheck(a)
  <2>1. At(a, "qm_check") /\ (Goto(a, "td_pop") \/ Return(a))
    BY <1>10 DEF QueueCheck
  <2>2. Goto(a, "td_pop") => Moves(a, IF "td_pop" \in Carrying THEN {} ELSE OfTop(a), {})
    BY <2>1, AtTop, GotoMoves DEF Carries, Carrying, Sending, Labels
  <2>3. Return(a) => Moves(a, OfTop(a), {})
    BY <2>1, AtTop, ReturnMoves DEF Return, Sending
  <2> QED BY <2>1, <2>2, <2>3, AtTop DEF Carrying
<1>11. CASE ReemitCheck(a)
  <2>1. At(a, "re_check") /\ (Goto(a, "td_pop") \/ Return(a))
    BY <1>11 DEF ReemitCheck
  <2>2. Goto(a, "td_pop") => Moves(a, IF "td_pop" \in Carrying THEN {} ELSE OfTop(a), {})
    BY <2>1, AtTop, GotoMoves DEF Carries, Carrying, Sending, Labels
  <2>3. Return(a) => Moves(a, OfTop(a), {})
    BY <2>1, AtTop, ReturnMoves DEF Return, Sending
  <2> QED BY <2>1, <2>2, <2>3, AtTop DEF Carrying
<1>12. CASE SendUnlock(a)
  <2>1. At(a, "sm_unlock") /\ ReturnSent(a)
    BY <1>12 DEF SendUnlock
  <2>2. Moves(a, OfTop(a), {})
    BY <2>1, AtTop, SentMoves
  <2>3. OfTop(a) = {}
    BY <2>1, AtTop DEF Carrying
  <2> QED BY <2>2, <2>3
<1>13. CASE SendBusy(a)
  <2> DEFINE f == Called("qm_append", Top(a).m)
             g == [Top(a) EXCEPT !.at = "sm_unlock"]
  <2>1. /\ At(a, "sm_check") /\ stack' = [stack EXCEPT ![a] = <<f, g>> \o Tail(@)]
    BY <1>13 DEF SendBusy, Call, Top
  <2>2. Top(a) \in Frame /\ 0 \in Tasks
    BY <2>1, AtTop, BoundsAssumption DEF Tasks, Current
  <2>3. /\ f \in Frame /\ g \in Frame /\ g.m = Top(a).m
        /\ f.at = "qm_append" /\ g.at = "sm_unlock" /\ f.m = Top(a).m
    BY <2>2 DEF Called, Frame, Labels
  <2> HIDE DEF f, g
  <2>4. Moves(a, OfTop(a), IF Carries(f) THEN {f.m} ELSE IF Carries(g) THEN {g.m} ELSE {})
    <3>1. /\ ~Ends(f) /\ ~Ends(g) /\ f.at # "td_wait" /\ Waited(f, g)
          /\ Top(a).at \in Sending => g.at \in Sending
      BY <2>1, <2>3, AtTop DEF Ends, Waited, Sending
    <3>2. /\ Carries(f) => ~Carries(g) /\ f.m \in OfTop(a)
          /\ Carries(g) => g.m \in OfTop(a)
      BY <2>1, <2>3, AtTop DEF Carries, Carrying
    <3>3. OfTop(a) \subseteq Messages
      BY <2>1, AtTop
    <3> QED BY <2>1, <2>3, <3>1, <3>2, <3>3, AtTop, CallMoves
  <2>5. OfTop(a) = (IF Carries(f) THEN {f.m} ELSE IF Carries(g) THEN {g.m} ELSE {})
    BY <2>1, <2>3, AtTop DEF Carries, Carrying
  <2>6. OfTop(a) \subseteq MessagesIn(stack[a])
    BY <2>1, AtTop
  <2> QED BY <2>4, <2>5, <2>6 DEF Moves
<1>14. CASE EmitCheck(a)
  <2>a. CASE Return(a)
    <3>1. At(a, "es_check") /\ Return(a)
      BY <1>14, <2>a DEF EmitCheck
    <3>2. Moves(a, OfTop(a), {})
      BY <3>1, AtTop, ReturnMoves DEF Return, Sending
    <3>3. OfTop(a) = {}
      BY <3>1, AtTop DEF Carrying
    <3> QED BY <3>2, <3>3
  <2>b. CASE ~Return(a)
    <3> DEFINE f == Called("td_pop", 0)
               g == [Top(a) EXCEPT !.at = "es_timer"]
    <3>1. /\ At(a, "es_check") /\ stack' = [stack EXCEPT ![a] = <<f, g>> \o Tail(@)]
      BY <1>14, <2>b DEF EmitCheck, Call, Top
    <3>2. Top(a) \in Frame /\ 0 \in Tasks
      BY <3>1, AtTop, BoundsAssumption DEF Tasks, Current
    <3>3. /\ f \in Frame /\ g \in Frame /\ g.m = Top(a).m
          /\ f.at = "td_pop" /\ g.at = "es_timer"
      BY <3>2 DEF Called, Frame, Labels
    <3> HIDE DEF f, g
    <3>4. Moves(a, OfTop(a), IF Carries(f) THEN {f.m} ELSE IF Carries(g) THEN {g.m} ELSE {})
      <4>1. /\ ~Ends(f) /\ ~Ends(g) /\ f.at # "td_wait" /\ Waited(f, g)
            /\ Top(a).at \in Sending => g.at \in Sending
        BY <3>1, <3>3, AtTop DEF Ends, Waited, Sending
      <4>2. /\ Carries(f) => ~Carries(g) /\ f.m \in OfTop(a)
            /\ Carries(g) => g.m \in OfTop(a)
        BY <3>1, <3>3, AtTop DEF Carries, Carrying
      <4>3. OfTop(a) \subseteq Messages
        BY <3>1, AtTop
      <4> QED BY <3>1, <3>3, <4>1, <4>2, <4>3, AtTop, CallMoves
    <3>5. OfTop(a) = (IF Carries(f) THEN {f.m} ELSE IF Carries(g) THEN {g.m} ELSE {})
      BY <3>1, <3>3, AtTop DEF Carries, Carrying
    <3>6. OfTop(a) \subseteq MessagesIn(stack[a])
      BY <3>1, AtTop
    <3> QED BY <3>4, <3>5, <3>6 DEF Moves
  <2> QED BY <2>a, <2>b
<1>15. CASE SendFlip(a)
  <2> DEFINE f == Called("es_trim", 0)
             g == [Top(a) EXCEPT !.at = "sm_schedule", !.x = Current]
  <2>1. /\ At(a, "sm_flip") /\ stack' = [stack EXCEPT ![a] = <<f, g>> \o Tail(@)]
    BY <1>15 DEF SendFlip, Call, Top
  <2>2. Top(a) \in Frame /\ 0 \in Tasks /\ Current \in Tasks \cup {None}
    BY <2>1, AtTop, BoundsAssumption DEF Tasks, Current
  <2>3. /\ f \in Frame /\ g \in Frame /\ g.m = Top(a).m
        /\ f.at = "es_trim" /\ g.at = "sm_schedule"
    BY <2>2 DEF Called, Frame, Labels
  <2> HIDE DEF f, g
  <2>4. Moves(a, OfTop(a), IF Carries(f) THEN {f.m} ELSE IF Carries(g) THEN {g.m} ELSE {})
    <3>1. /\ ~Ends(f) /\ ~Ends(g) /\ f.at # "td_wait" /\ Waited(f, g)
          /\ Top(a).at \in Sending => g.at \in Sending
      BY <2>1, <2>3, AtTop DEF Ends, Waited, Sending
    <3>2. /\ Carries(f) => ~Carries(g) /\ f.m \in OfTop(a)
          /\ Carries(g) => g.m \in OfTop(a)
      BY <2>1, <2>3, AtTop DEF Carries, Carrying
    <3>3. OfTop(a) \subseteq Messages
      BY <2>1, AtTop
    <3> QED BY <2>1, <2>3, <3>1, <3>2, <3>3, AtTop, CallMoves
  <2>5. OfTop(a) = (IF Carries(f) THEN {f.m} ELSE IF Carries(g) THEN {g.m} ELSE {})
    BY <2>1, <2>3, AtTop DEF Carries, Carrying
  <2>6. OfTop(a) \subseteq MessagesIn(stack[a])
    BY <2>1, AtTop
  <2> QED BY <2>4, <2>5, <2>6 DEF Moves
<1>16. CASE InterruptCapture(a)
  <2> DEFINE f == Called("es_trim", 0)
             g == [Top(a) EXCEPT !.at = "in_schedule", !.x = task]
  <2>1. /\ At(a, "in_capture") /\ stack' = [stack EXCEPT ![a] = <<f, g>> \o Tail(@)]
    BY <1>16 DEF InterruptCapture, Call, Top
  <2>2. Top(a) \in Frame /\ 0 \in Tasks
    BY <2>1, AtTop, BoundsAssumption DEF Tasks, Current
  <2>3. /\ f \in Frame /\ g \in Frame /\ g.m = Top(a).m
        /\ f.at = "es_trim" /\ g.at = "in_schedule"
    BY <2>2 DEF Called, Frame, Labels
  <2> HIDE DEF f, g
  <2>4. Moves(a, OfTop(a), IF Carries(f) THEN {f.m} ELSE IF Carries(g) THEN {g.m} ELSE {})
    <3>1. /\ ~Ends(f) /\ ~Ends(g) /\ f.at # "td_wait" /\ Waited(f, g)
          /\ Top(a).at \in Sending => g.at \in Sending
      BY <2>1, <2>3, AtTop DEF Ends, Waited, Sending
    <3>2. /\ Carries(f) => ~Carries(g) /\ f.m \in OfTop(a)
          /\ Carries(g) => g.m \in OfTop(a)
      BY <2>1, <2>3, AtTop DEF Carries, Carrying
    <3>3. OfTop(a) \subseteq Messages
      BY <2>1, AtTop
    <3> QED BY <2>1, <2>3, <3>1, <3>2, <3>3, AtTop, CallMoves
  <2>5. OfTop(a) = (IF Carries(f) THEN {f.m} ELSE IF Carries(g) THEN {g.m} ELSE {})
    BY <2>1, <2>3, AtTop DEF Carries, Carrying
  <2>6. OfTop(a) \subseteq MessagesIn(stack[a])
    BY <2>1, AtTop
  <2> QED BY <2>4, <2>5, <2>6 DEF Moves
<1> QED BY <1>1, <1>2, <1>3, <1>4, <1>5, <1>6, <1>7, <1>8, <1>9, <1>10, <1>11, <1>12,
     <1>13, <1>14, <1>15, <1>16 DEF Kept

\* The others do.
LEMMA GivingMoves ==
  ASSUME Stacks, NEW a \in Actors,
         SendSchedule(a) \/ QueueAppend(a) \/ DispatchRequeue(a)
  PROVE  Moves(a, {Top(a).m}, {}) /\ Top(a).m \in MessagesIn(stack[a])
<1>1. CASE SendSchedule(a)
  <2>1. At(a, "sm_schedule") /\ ReturnSent(a)
    BY <1>1 DEF SendSchedule
  <2>2. Moves(a, OfTop(a), {})
    BY <2>1, AtTop, SentMoves
  <2>3. OfTop(a) = {Top(a).m} /\ OfTop(a) \subseteq MessagesIn(stack[a])
    BY <2>1, AtTop DEF Carrying
  <2> QED BY <2>2, <2>3
<1>2. CASE QueueAppend(a)
  <2>1. At(a, "qm_append") /\ Goto(a, "qm_check")
    BY <1>2 DEF QueueAppend
  <2>2. Moves(a, IF "qm_check" \in Carrying THEN {} ELSE OfTop(a), {})
    BY <2>1, AtTop, GotoMoves DEF Carries, Carrying, Sending, Labels
  <2>3. OfTop(a) = {Top(a).m} /\ OfTop(a) \subseteq MessagesIn(stack[a])
    BY <2>1, AtTop DEF Carrying
  <2> QED BY <2>2, <2>3 DEF Carrying
<1>3. CASE DispatchRequeue(a)
  <2>1. At(a, "td_refused") /\ Return(a)
    BY <1>3 DEF DispatchRequeue
  <2>2. Moves(a, OfTop(a), {})
    BY <2>1, AtTop, ReturnMoves DEF Return, Sending
  <2>3. OfTop(a) = {Top(a).m} /\ OfTop(a) \subseteq MessagesIn(stack[a])
    BY <2>1, AtTop DEF Carrying
  <2> QED BY <2>2, <2>3
<1> QED BY <1>1, <1>2, <1>3

LEMMA RefuseMoves ==
  ASSUME Stacks, NEW a \in Actors, SendRefuse(a)
  PROVE  /\ Moves(a, IF FromDispatch(a) THEN {} ELSE {Top(a).m}, {})
         /\ Top(a).m \in MessagesIn(stack[a]) /\ Top(a).m \in Messages
<1>1. At(a, "sm_check") /\ ReturnRefused(a)
  BY DEF SendRefuse
<1>2. /\ OfTop(a) = {Top(a).m} /\ OfTop(a) \subseteq MessagesIn(stack[a])
      /\ OfTop(a) \subseteq Messages
  BY <1>1, AtTop DEF Carrying
<1>3. stack[a] # << >> /\ Carries(Top(a))
  BY <1>1, AtTop DEF Carries, Carrying
<1> QED BY <1>1, <1>2, <1>3, RefusedMoves

LEMMA PopMoves ==
  ASSUME Stacks, queue \in Seq(Messages), NEW a \in Actors, DispatchPop(a),
         Head(queue) \notin MessagesIn(stack[a])
  PROVE  Moves(a, {}, {Head(queue)})
<1> DEFINE f == Called("sm_lock", Head(queue))
           g == Called("td_wait", Head(queue))
<1>1. /\ At(a, "td_pop") /\ stack' = [stack EXCEPT ![a] = <<f, g>> \o Tail(@)]
  BY DEF DispatchPop
<1>2. Head(queue) \in Messages /\ Messages \subseteq Tasks
  BY BoundsAssumption DEF DispatchPop, Messages, Tasks
<1>3. /\ f \in Frame /\ g \in Frame /\ g.m = f.m /\ f.m = Head(queue)
      /\ f.at = "sm_lock" /\ g.at = "td_wait"
  BY <1>2 DEF Called, Frame, Labels
<1> HIDE DEF f, g
<1>4. OfTop(a) = {}
  BY <1>1, AtTop DEF Carrying
<1>5. /\ Carries(f) /\ ~Carries(g) /\ ~Ends(f) /\ ~Ends(g) /\ f.at # "td_wait" /\ Waited(f, g)
      /\ Top(a).at \notin Sending /\ stack[a] # << >>
  BY <1>1, <1>3, AtTop DEF Ends, Waited, Sending, Carries, Carrying
<1>6. Moves(a, OfTop(a), IF Carries(f) THEN {f.m} ELSE IF Carries(g) THEN {g.m} ELSE {})
  BY <1>1, <1>2, <1>3, <1>5, CallMoves
<1> QED BY <1>3, <1>4, <1>5, <1>6

\* A call begins on an idle actor.
LEMMA EmptyStack ==
  /\ << >> \in Seq(Frame) /\ OnceIn(<< >>) /\ Linked(<< >>)
  /\ MessagesIn(<< >>) = {} /\ Ending(<< >>) = {}
BY DEF OnceIn, Linked, MessagesIn, Ending

LEMMA OneFrame ==
  ASSUME NEW f \in Frame, f.at # "td_wait", Carries(f) => f.m \in Messages
  PROVE  /\ <<f>> \in Seq(Frame) /\ StackOK(<<f>>) /\ <<f>> \o << >> = <<f>>
         /\ MessagesIn(<<f>>) = (IF Carries(f) THEN {f.m} ELSE {})
         /\ Ending(<<f>>) = (IF Ends(f) THEN {f.m} ELSE {})
<1>1. <<f>> \o << >> = <<f>>
  OBVIOUS
<1>2. MessagesIn(<< >>) \subseteq Messages
  BY EmptyStack
<1>3. /\ <<f>> \o << >> \in Seq(Frame) /\ StackOK(<<f>> \o << >>)
      /\ MessagesIn(<<f>> \o << >>) = MessagesIn(<< >>) \cup (IF Carries(f) THEN {f.m} ELSE {})
      /\ Ending(<<f>> \o << >>) = Ending(<< >>) \cup (IF Ends(f) THEN {f.m} ELSE {})
  BY <1>2, EmptyStack, OnTop
<1> QED BY <1>1, <1>3, EmptyStack

LEMMA EnterMoves ==
  ASSUME Stacks, NEW a \in Actors, Idle(a), NEW f \in Frame, Enter(a, f),
         f.at # "td_wait", ~Ends(f), Carries(f) => f.m \in Messages
  PROVE  Moves(a, {}, IF Carries(f) THEN {f.m} ELSE {})
<1>1. stack' = [stack EXCEPT ![a] = <<f>> \o @] /\ stack[a] = << >>
  BY DEF Enter, Idle
<1>2. stack'[a] = <<f>> /\ \A b \in Actors \ {a} : stack'[b] = stack[b]
  BY <1>1, OneFrame DEF Stacks
<1>3. stack' \in [Actors -> Seq(Frame)]
  BY <1>1, OneFrame DEF Stacks
<1> QED BY <1>1, <1>2, <1>3, OneFrame, EmptyStack DEF Moves

\* The loop leaves for the frames of an emit, of the end of coroutine k, or none.
LoopLeft(k) ==
  \/ Frames(<< >>) \/ Frames(<<Called("es_trim", 0)>>)
  \/ \E l \in {"tk_catch", "tk_final"} : EmitThen(l, k) \/ Then(l, k)

LEMMA LoopMoves ==
  ASSUME Stacks, NEW k \in Tasks, LoopLeft(k)
  PROVE  /\ stack' \in [Actors -> Seq(Frame)]
         /\ \A b \in Actors \ {Loop} : stack'[b] = stack[b]
         /\ StackOK(stack'[Loop]) /\ MessagesIn(stack'[Loop]) = {}
         /\ Ending(stack'[Loop]) \subseteq {k}
<1>1. ASSUME NEW fs \in Seq(Frame), Frames(fs), StackOK(fs), MessagesIn(fs) = {},
             Ending(fs) \subseteq {k}
      PROVE  /\ stack' \in [Actors -> Seq(Frame)]
             /\ \A b \in Actors \ {Loop} : stack'[b] = stack[b]
             /\ StackOK(stack'[Loop]) /\ MessagesIn(stack'[Loop]) = {}
             /\ Ending(stack'[Loop]) \subseteq {k}
  <2>1. stack' = [stack EXCEPT ![Loop] = fs]
    BY <1>1 DEF Frames
  <2>2. stack' \in [Actors -> Seq(Frame)] /\ stack'[Loop] = fs
        /\ \A b \in Actors \ {Loop} : stack'[b] = stack[b]
    BY <1>1, <2>1 DEF Stacks, Actors
  <2> QED BY <1>1, <2>2
<1> DEFINE e == Called("es_trim", 0)
<1>2. e \in Frame /\ e.at = "es_trim" /\ ~Carries(e) /\ ~Ends(e)
  BY BoundsAssumption DEF Called, Frame, Labels, Tasks, Carries, Carrying, Ends
<1>3. CASE Frames(<< >>)
  <2>1. StackOK(<< >>)
    BY EmptyStack DEF StackOK
  <2> QED BY <1>1, <1>3, <2>1, EmptyStack
<1>4. CASE Frames(<<e>>)
  <2> HIDE DEF e
  <2> QED BY <1>1, <1>2, <1>4, OneFrame
<1>5. ASSUME NEW l \in {"tk_catch", "tk_final"}, EmitThen(l, k) \/ Then(l, k)
      PROVE  Frames(<<e, Called(l, k)>>) \/ Frames(<<Called(l, k)>>)
  BY <1>5 DEF EmitThen, Then
<1>6. ASSUME NEW l \in {"tk_catch", "tk_final"}, EmitThen(l, k) \/ Then(l, k)
      PROVE  /\ stack' \in [Actors -> Seq(Frame)]
             /\ \A b \in Actors \ {Loop} : stack'[b] = stack[b]
             /\ StackOK(stack'[Loop]) /\ MessagesIn(stack'[Loop]) = {}
             /\ Ending(stack'[Loop]) \subseteq {k}
  <2> DEFINE g == Called(l, k)
  <2>1. g \in Frame /\ g.at = l /\ g.m = k /\ ~Carries(g) /\ Ends(g) /\ g.at # "td_wait"
    BY DEF Called, Frame, Labels, Carries, Carrying, Ends
  <2>2. Frames(<<e, g>>) \/ Frames(<<g>>)
    BY <1>5, <1>6
  <2> HIDE DEF e, g
  <2>3. <<g>> \in Seq(Frame) /\ StackOK(<<g>>) /\ MessagesIn(<<g>>) = {} /\ Ending(<<g>>) = {k}
    BY <2>1, OneFrame
  <2>7. Head(<<g>>) = g
    OBVIOUS
  <2>4. <<e, g>> \o << >> = <<e>> \o (<<g>> \o << >>) /\ <<g>> \o << >> = <<g>>
        /\ <<e, g>> \o << >> = <<e, g>>
    BY <1>2, <2>1, PushTwo, EmptyStack
  <2>5. <<e>> \o <<g>> = <<e, g>>
    BY <2>4
  <2>6. /\ <<e>> \o <<g>> \in Seq(Frame) /\ StackOK(<<e>> \o <<g>>)
        /\ MessagesIn(<<e>> \o <<g>>) = MessagesIn(<<g>>)
        /\ Ending(<<e>> \o <<g>>) = Ending(<<g>>)
    BY <1>2, <2>1, <2>3, <2>7, OnTop DEF StackOK, Waited
  <2> QED BY <1>1, <2>2, <2>3, <2>5, <2>6
<1> QED BY <1>3, <1>4, <1>6 DEF LoopLeft

-----------------------------------------------------------------------------
(* The types.                                                              *)

Items == [do : Calls, x : Tasks \cup {None}]

PlainType ==
  /\ state \in {"idle", "working", "stopped"} /\ lock \in Actors \cup {None}
  /\ task \in Tasks \cup {None} /\ reemits \in Nat
  /\ accepted \in 0 .. MaxMessages /\ interrupts \in 0 .. MaxInterrupts
  /\ closes \in 0 .. MaxCloses /\ resumes \in 0 .. MaxResumes
  /\ failures \in 0 .. MaxFailures

FlagType ==
  /\ interrupted \in BOOLEAN /\ superseded \in BOOLEAN /\ client \in BOOLEAN
  /\ closing \in BOOLEAN

LifeType == life \in [Tasks -> Lives] /\ cancelled \subseteq Tasks

MessageType == queue \in Seq(Messages) /\ sent \in Seq(Tasks) /\ dropped \subseteq Messages

LEMMA TypeParts ==
  TypeOK <=> /\ PlainType /\ FlagType /\ LifeType /\ MessageType
             /\ ready \in Seq(Items) /\ stack \in [Actors -> Seq(Frame)]
BY Zenon DEF TypeOK, PlainType, FlagType, LifeType, MessageType, Items

\* The callback that runs.
LEMMA Running ==
  ASSUME ready \in Seq(Items), NEW d, Runs(d)
  PROVE  /\ stack[Loop] = << >> /\ ready # << >> /\ Head(ready) \in Items /\ Head(ready).do = d
         /\ Head(ready).x \in Tasks \cup {None} /\ Taken \in Seq(Items)
<1>1. ASSUME NEW s \in Seq(Items), s # << >>
      PROVE Head(s) \in Items /\ Tail(s) \in Seq(Items)
  BY <1>1
<1>2. Head(ready) \in Items /\ Tail(ready) \in Seq(Items)
  BY <1>1 DEF Runs
<1> QED BY <1>2 DEF Runs, LoopFree, Idle, Taken, Items

\* The first in the line is a callback of it.
LEMMA FirstInLine ==
  ASSUME ready \in Seq(Items), ready # << >>
  PROVE  1 \in DOMAIN ready /\ ready[1] = Head(ready) /\ Head(ready) \in ToSet(ready)
<1>1. ASSUME NEW s \in Seq(Items), s # << >> PROVE 1 \in DOMAIN s /\ s[1] = Head(s)
  BY <1>1
<1> QED BY <1>1 DEF ToSet

\* The coroutine that is made has been scheduled.
LEMMA Spawner ==
  ASSUME ready \in Seq(Items), Lined, SpawnTurn
  PROVE  Head(ready).x \in Tasks /\ life[Head(ready).x] = "spawned"
<1>1. ready # << >> /\ Head(ready).do = "spawn"
  BY DEF SpawnTurn, Runs
<1> QED BY <1>1, FirstInLine DEF Lined

\* A CancelledError finds a coroutine that can take it.
LEMMA Thrower ==
  ASSUME ready \in Seq(Items), Lined, NEW k \in Tasks, Thrown(k)
  PROVE  k \in cancelled /\ life[k] \in Throwable
<1>1. ready # << >> /\ Head(ready).do = "throw" /\ Head(ready).x = k
  BY DEF Thrown, Runs
<1> QED BY <1>1, FirstInLine DEF Lined

\* The plain fields, action by action.
LEMMA PlainStep ==
  ASSUME PlainType, ready \in Seq(Items), Lined, [Next]_vars
  PROVE  PlainType'
<1> USE BoundsAssumption DEF PlainType, flags, turns, messages, counts, vars, Gone,
       Dies, Becomes, Fails, FailsIf, Waits, Actors, Cancels, Handler
<1>1. ASSUME NEW a \in Actors, SendAcquire(a) PROVE PlainType'
  BY <1>1 DEF SendAcquire
<1>2. ASSUME NEW a \in Actors, SendRefuse(a) PROVE PlainType'
  BY <1>2 DEF SendRefuse
<1>3. ASSUME NEW a \in Actors, SendBusy(a) PROVE PlainType'
  BY <1>3 DEF SendBusy
<1>4. ASSUME NEW a \in Actors, SendUnlock(a) PROVE PlainType'
  BY <1>4 DEF SendUnlock
<1>5. ASSUME NEW a \in Actors, SendPasses(a) PROVE PlainType'
  BY <1>5 DEF SendPasses
<1>6. ASSUME NEW a \in Actors, SendFlip(a) PROVE PlainType'
  BY <1>6 DEF SendFlip
<1>7. ASSUME NEW a \in Actors, SendSchedule(a) PROVE PlainType'
  BY <1>7 DEF SendSchedule
<1>8. ASSUME NEW a \in Actors, QueueAppend(a) PROVE PlainType'
  BY <1>8 DEF QueueAppend
<1>9. ASSUME NEW a \in Actors, QueueCheck(a) PROVE PlainType'
  BY <1>9 DEF QueueCheck
<1>10. ASSUME NEW a \in Actors, DispatchEmpty(a) PROVE PlainType'
  BY <1>10 DEF DispatchEmpty
<1>11. ASSUME NEW a \in Actors, DispatchPop(a) PROVE PlainType'
  BY <1>11 DEF DispatchPop
<1>12. ASSUME NEW a \in Actors, DispatchRequeue(a) PROVE PlainType'
  BY <1>12 DEF DispatchRequeue
<1>13. ASSUME NEW a \in Actors, EmitTrim(a) PROVE PlainType'
  BY <1>13 DEF EmitTrim
<1>14. ASSUME NEW a \in Actors, EmitCheck(a) PROVE PlainType'
  BY <1>14 DEF EmitCheck
<1>15. ASSUME NEW a \in Actors, EmitTimer(a) PROVE PlainType'
  BY <1>15 DEF EmitTimer
<1>16. ASSUME NEW a \in Actors, ReemitCheck(a) PROVE PlainType'
  BY <1>16 DEF ReemitCheck
<1>17. ASSUME NEW a \in Actors, InterruptPop(a) PROVE PlainType'
  BY <1>17 DEF InterruptPop
<1>18. ASSUME NEW a \in Actors, InterruptFlag(a) PROVE PlainType'
  BY <1>18 DEF InterruptFlag
<1>19. ASSUME NEW a \in Actors, InterruptIdle(a) PROVE PlainType'
  BY <1>19 DEF InterruptIdle
<1>20. ASSUME NEW a \in Actors, InterruptCapture(a) PROVE PlainType'
  BY <1>20 DEF InterruptCapture
<1>21. ASSUME NEW a \in Actors, InterruptSchedule(a) PROVE PlainType'
  BY <1>21 DEF InterruptSchedule
<1>22. CASE SpawnTurn
  BY <1>22 DEF SpawnTurn
<1>23. CASE SpawnOther
  BY <1>23 DEF SpawnOther
<1>24. CASE CancelCallback
  BY <1>24 DEF CancelCallback
<1>25. CASE InterruptCallback
  BY <1>25 DEF InterruptCallback
<1>26. CASE CloseCallback
  BY <1>26 DEF CloseCallback
<1>27. CASE CloseEnds
  BY <1>27 DEF CloseEnds
<1>28. CASE CloseRequest
  BY <1>28 DEF CloseRequest
<1>29. ASSUME NEW k \in Tasks, TurnBegins(k) PROVE PlainType'
  BY <1>29 DEF TurnBegins
<1>30. ASSUME NEW k \in Tasks, TurnResets(k) PROVE PlainType'
  BY <1>30 DEF TurnResets
<1>31. ASSUME NEW k \in Tasks, Thrown(k) PROVE PlainType'
  <2>1. life[k] \in Throwable
    BY <1>31, Thrower
  <2> QED BY <1>31, <2>1 DEF Thrown, Throwable
<1>32. ASSUME NEW k \in Tasks, Catch(k) PROVE PlainType'
  BY <1>32 DEF Catch
<1>33. ASSUME NEW k \in Tasks, Final(k) PROVE PlainType'
  BY <1>33 DEF Final
<1>34. ASSUME NEW k \in Tasks, Reconnected(k) PROVE PlainType'
  BY <1>34 DEF Reconnected
<1>35. ASSUME NEW k \in Tasks, QuerySent(k) PROVE PlainType'
  BY <1>35 DEF QuerySent
<1>36. ASSUME NEW k \in Tasks, TurnResult(k) PROVE PlainType'
  BY <1>36 DEF TurnResult
<1>37. ASSUME NEW k \in Tasks, TurnSettles(k) PROVE PlainType'
  BY <1>37 DEF TurnSettles
<1>38. ASSUME NEW k \in Tasks, DrainEnds(k) PROVE PlainType'
  BY <1>38 DEF DrainEnds
<1>39. ASSUME NEW k \in Tasks, ResumedResult(k) PROVE PlainType'
  BY <1>39 DEF ResumedResult
<1>40. ASSUME NEW k \in Tasks, EndedWithoutResult(k) PROVE PlainType'
  BY <1>40 DEF EndedWithoutResult
<1>41. ASSUME NEW k \in Tasks, Mend(k) PROVE PlainType'
  BY <1>41 DEF Mend
<1>42. ASSUME NEW k \in Tasks, Mended(k) PROVE PlainType'
  BY <1>42 DEF Mended
<1>43. ASSUME NEW k \in Tasks, Unwound(k) PROVE PlainType'
  BY <1>43 DEF Unwound
<1>44. ASSUME NEW k \in Tasks, SnapshotDone(k) PROVE PlainType'
  BY <1>44 DEF SnapshotDone
<1>45. ASSUME NEW k \in Tasks, ReconnectFails(k) PROVE PlainType'
  BY <1>45 DEF ReconnectFails
<1>46. ASSUME NEW k \in Tasks, ListenFails(k) PROVE PlainType'
  BY <1>46 DEF ListenFails
<1>47. ASSUME NEW k \in Tasks, AutoResumes(k) PROVE PlainType'
  BY <1>47 DEF AutoResumes
<1>48. ASSUME NEW k \in Tasks, StreamStops(k, "ended") \/ StreamStops(k, "broken")
       PROVE PlainType'
  BY <1>48 DEF StreamStops
<1>49. ASSUME NEW d \in Timers, ReemitFires(d) PROVE PlainType'
  BY <1>49 DEF ReemitFires
<1>50. ASSUME NEW t \in Threads, SendRequest(t) \/ QueueRequest(t) PROVE PlainType'
  BY <1>50 DEF SendRequest, QueueRequest, Accept
<1>51. ASSUME NEW t \in Threads, InterruptRequest(t) PROVE PlainType'
  BY <1>51 DEF InterruptRequest
<1>52. CASE UNCHANGED vars
  BY <1>52 DEF vars
<1> HIDE BoundsAssumption DEF PlainType, flags, turns, messages, counts, vars, Gone,
       Dies, Becomes, Fails, FailsIf, Waits, Actors, Cancels, Handler
<1> QED
  BY <1>1, <1>2, <1>3, <1>4, <1>5, <1>6, <1>7, <1>8, <1>9, <1>10, <1>11, <1>12, <1>13,
     <1>14, <1>15, <1>16, <1>17, <1>18, <1>19, <1>20, <1>21, <1>22, <1>23, <1>24,
     <1>25, <1>26, <1>27, <1>28, <1>29, <1>30, <1>31, <1>32, <1>33, <1>34, <1>35,
     <1>36, <1>37, <1>38, <1>39, <1>40, <1>41, <1>42, <1>43, <1>44, <1>45, <1>46,
     <1>47, <1>48, <1>49, <1>50, <1>51, <1>52
     DEF Next, Step, LoopStep, Awaited, Trouble, Requests

LEMMA FlagStep ==
  ASSUME FlagType, [Next]_vars
  PROVE  FlagType'
<1> USE DEF FlagType, flags, turns, messages, counts, vars, Gone, Dies, Becomes, Fails,
       FailsIf, Waits, Actors, Cancels, Handler
<1>1. ASSUME NEW a \in Actors, SendAcquire(a) PROVE FlagType'
  BY <1>1 DEF SendAcquire
<1>2. ASSUME NEW a \in Actors, SendRefuse(a) PROVE FlagType'
  BY <1>2 DEF SendRefuse
<1>3. ASSUME NEW a \in Actors, SendBusy(a) PROVE FlagType'
  BY <1>3 DEF SendBusy
<1>4. ASSUME NEW a \in Actors, SendUnlock(a) PROVE FlagType'
  BY <1>4 DEF SendUnlock
<1>5. ASSUME NEW a \in Actors, SendPasses(a) PROVE FlagType'
  BY <1>5 DEF SendPasses
<1>6. ASSUME NEW a \in Actors, SendFlip(a) PROVE FlagType'
  <2>1. /\ UNCHANGED <<interrupted, client, closing>>
        /\ superseded' = (superseded \/ Current # None)
    BY <1>6 DEF SendFlip
  <2>2. superseded' \in BOOLEAN
    BY <2>1, Zenon
  <2> QED BY <2>1, <2>2
<1>7. ASSUME NEW a \in Actors, SendSchedule(a) PROVE FlagType'
  BY <1>7 DEF SendSchedule
<1>8. ASSUME NEW a \in Actors, QueueAppend(a) PROVE FlagType'
  BY <1>8 DEF QueueAppend
<1>9. ASSUME NEW a \in Actors, QueueCheck(a) PROVE FlagType'
  BY <1>9 DEF QueueCheck
<1>10. ASSUME NEW a \in Actors, DispatchEmpty(a) PROVE FlagType'
  BY <1>10 DEF DispatchEmpty
<1>11. ASSUME NEW a \in Actors, DispatchPop(a) PROVE FlagType'
  BY <1>11 DEF DispatchPop
<1>12. ASSUME NEW a \in Actors, DispatchRequeue(a) PROVE FlagType'
  BY <1>12 DEF DispatchRequeue
<1>13. ASSUME NEW a \in Actors, EmitTrim(a) PROVE FlagType'
  BY <1>13 DEF EmitTrim
<1>14. ASSUME NEW a \in Actors, EmitCheck(a) PROVE FlagType'
  BY <1>14 DEF EmitCheck
<1>15. ASSUME NEW a \in Actors, EmitTimer(a) PROVE FlagType'
  BY <1>15 DEF EmitTimer
<1>16. ASSUME NEW a \in Actors, ReemitCheck(a) PROVE FlagType'
  BY <1>16 DEF ReemitCheck
<1>17. ASSUME NEW a \in Actors, InterruptPop(a) PROVE FlagType'
  BY <1>17 DEF InterruptPop
<1>18. ASSUME NEW a \in Actors, InterruptFlag(a) PROVE FlagType'
  BY <1>18 DEF InterruptFlag
<1>19. ASSUME NEW a \in Actors, InterruptIdle(a) PROVE FlagType'
  BY <1>19 DEF InterruptIdle
<1>20. ASSUME NEW a \in Actors, InterruptCapture(a) PROVE FlagType'
  BY <1>20 DEF InterruptCapture
<1>21. ASSUME NEW a \in Actors, InterruptSchedule(a) PROVE FlagType'
  BY <1>21 DEF InterruptSchedule
<1>22. CASE SpawnTurn
  BY <1>22 DEF SpawnTurn
<1>23. CASE SpawnOther
  BY <1>23 DEF SpawnOther
<1>24. CASE CancelCallback
  BY <1>24 DEF CancelCallback
<1>25. CASE InterruptCallback
  BY <1>25 DEF InterruptCallback
<1>26. CASE CloseCallback
  BY <1>26 DEF CloseCallback
<1>27. CASE CloseEnds
  BY <1>27 DEF CloseEnds
<1>28. CASE CloseRequest
  BY <1>28 DEF CloseRequest
<1>29. ASSUME NEW k \in Tasks, TurnBegins(k) PROVE FlagType'
  BY <1>29 DEF TurnBegins
<1>30. ASSUME NEW k \in Tasks, TurnResets(k) PROVE FlagType'
  BY <1>30 DEF TurnResets
<1>31. ASSUME NEW k \in Tasks, Thrown(k) PROVE FlagType'
  BY <1>31 DEF Thrown
<1>32. ASSUME NEW k \in Tasks, Catch(k) PROVE FlagType'
  BY <1>32 DEF Catch
<1>33. ASSUME NEW k \in Tasks, Final(k) PROVE FlagType'
  BY <1>33 DEF Final
<1>34. ASSUME NEW k \in Tasks, Reconnected(k) PROVE FlagType'
  BY <1>34 DEF Reconnected
<1>35. ASSUME NEW k \in Tasks, QuerySent(k) PROVE FlagType'
  BY <1>35 DEF QuerySent
<1>36. ASSUME NEW k \in Tasks, TurnResult(k) PROVE FlagType'
  BY <1>36 DEF TurnResult
<1>37. ASSUME NEW k \in Tasks, TurnSettles(k) PROVE FlagType'
  BY <1>37 DEF TurnSettles
<1>38. ASSUME NEW k \in Tasks, DrainEnds(k) PROVE FlagType'
  BY <1>38 DEF DrainEnds
<1>39. ASSUME NEW k \in Tasks, ResumedResult(k) PROVE FlagType'
  BY <1>39 DEF ResumedResult
<1>40. ASSUME NEW k \in Tasks, EndedWithoutResult(k) PROVE FlagType'
  BY <1>40 DEF EndedWithoutResult
<1>41. ASSUME NEW k \in Tasks, Mend(k) PROVE FlagType'
  BY <1>41 DEF Mend
<1>42. ASSUME NEW k \in Tasks, Mended(k) PROVE FlagType'
  BY <1>42 DEF Mended
<1>43. ASSUME NEW k \in Tasks, Unwound(k) PROVE FlagType'
  BY <1>43 DEF Unwound
<1>44. ASSUME NEW k \in Tasks, SnapshotDone(k) PROVE FlagType'
  BY <1>44 DEF SnapshotDone
<1>45. ASSUME NEW k \in Tasks, ReconnectFails(k) PROVE FlagType'
  BY <1>45 DEF ReconnectFails
<1>46. ASSUME NEW k \in Tasks, ListenFails(k) PROVE FlagType'
  BY <1>46 DEF ListenFails
<1>47. ASSUME NEW k \in Tasks, AutoResumes(k) PROVE FlagType'
  BY <1>47 DEF AutoResumes
<1>48. ASSUME NEW k \in Tasks, StreamStops(k, "ended") \/ StreamStops(k, "broken")
       PROVE FlagType'
  BY <1>48 DEF StreamStops
<1>49. ASSUME NEW d \in Timers, ReemitFires(d) PROVE FlagType'
  BY <1>49 DEF ReemitFires
<1>50. ASSUME NEW t \in Threads, SendRequest(t) \/ QueueRequest(t) PROVE FlagType'
  BY <1>50 DEF SendRequest, QueueRequest, Accept
<1>51. ASSUME NEW t \in Threads, InterruptRequest(t) PROVE FlagType'
  BY <1>51 DEF InterruptRequest
<1>52. CASE UNCHANGED vars
  BY <1>52 DEF vars
<1> HIDE DEF FlagType, flags, turns, messages, counts, vars, Gone, Dies, Becomes,
       Fails, FailsIf, Waits, Actors, Cancels, Handler
<1> QED
  BY <1>1, <1>2, <1>3, <1>4, <1>5, <1>6, <1>7, <1>8, <1>9, <1>10, <1>11, <1>12, <1>13,
     <1>14, <1>15, <1>16, <1>17, <1>18, <1>19, <1>20, <1>21, <1>22, <1>23, <1>24,
     <1>25, <1>26, <1>27, <1>28, <1>29, <1>30, <1>31, <1>32, <1>33, <1>34, <1>35,
     <1>36, <1>37, <1>38, <1>39, <1>40, <1>41, <1>42, <1>43, <1>44, <1>45, <1>46,
     <1>47, <1>48, <1>49, <1>50, <1>51, <1>52
     DEF Next, Step, LoopStep, Awaited, Trouble, Requests

LEMMA LifeStep ==
  ASSUME PlainType, LifeType, ready \in Seq(Items), Lined, [Next]_vars
  PROVE  LifeType'
<1> USE BoundsAssumption DEF LifeType, PlainType, Lives, flags, turns, messages,
       counts, vars, Gone, Dies, Becomes, Fails, FailsIf, Waits, Actors, Cancels,
       Handler
<1>1. ASSUME NEW a \in Actors, SendAcquire(a) PROVE LifeType'
  BY <1>1 DEF SendAcquire
<1>2. ASSUME NEW a \in Actors, SendRefuse(a) PROVE LifeType'
  BY <1>2 DEF SendRefuse
<1>3. ASSUME NEW a \in Actors, SendBusy(a) PROVE LifeType'
  BY <1>3 DEF SendBusy
<1>4. ASSUME NEW a \in Actors, SendUnlock(a) PROVE LifeType'
  BY <1>4 DEF SendUnlock
<1>5. ASSUME NEW a \in Actors, SendPasses(a) PROVE LifeType'
  BY <1>5 DEF SendPasses
<1>6. ASSUME NEW a \in Actors, SendFlip(a) PROVE LifeType'
  BY <1>6 DEF SendFlip
<1>7. ASSUME NEW a \in Actors, SendSchedule(a) PROVE LifeType'
  BY <1>7 DEF SendSchedule
<1>8. ASSUME NEW a \in Actors, QueueAppend(a) PROVE LifeType'
  BY <1>8 DEF QueueAppend
<1>9. ASSUME NEW a \in Actors, QueueCheck(a) PROVE LifeType'
  BY <1>9 DEF QueueCheck
<1>10. ASSUME NEW a \in Actors, DispatchEmpty(a) PROVE LifeType'
  BY <1>10 DEF DispatchEmpty
<1>11. ASSUME NEW a \in Actors, DispatchPop(a) PROVE LifeType'
  BY <1>11 DEF DispatchPop
<1>12. ASSUME NEW a \in Actors, DispatchRequeue(a) PROVE LifeType'
  BY <1>12 DEF DispatchRequeue
<1>13. ASSUME NEW a \in Actors, EmitTrim(a) PROVE LifeType'
  BY <1>13 DEF EmitTrim
<1>14. ASSUME NEW a \in Actors, EmitCheck(a) PROVE LifeType'
  BY <1>14 DEF EmitCheck
<1>15. ASSUME NEW a \in Actors, EmitTimer(a) PROVE LifeType'
  BY <1>15 DEF EmitTimer
<1>16. ASSUME NEW a \in Actors, ReemitCheck(a) PROVE LifeType'
  BY <1>16 DEF ReemitCheck
<1>17. ASSUME NEW a \in Actors, InterruptPop(a) PROVE LifeType'
  BY <1>17 DEF InterruptPop
<1>18. ASSUME NEW a \in Actors, InterruptFlag(a) PROVE LifeType'
  BY <1>18 DEF InterruptFlag
<1>19. ASSUME NEW a \in Actors, InterruptIdle(a) PROVE LifeType'
  BY <1>19 DEF InterruptIdle
<1>20. ASSUME NEW a \in Actors, InterruptCapture(a) PROVE LifeType'
  BY <1>20 DEF InterruptCapture
<1>21. ASSUME NEW a \in Actors, InterruptSchedule(a) PROVE LifeType'
  BY <1>21 DEF InterruptSchedule
<1>22. CASE SpawnTurn
  BY <1>22 DEF SpawnTurn
<1>23. CASE SpawnOther
  BY <1>23 DEF SpawnOther
<1>24. CASE CancelCallback
  <2>1. Runs("cancel")
    BY <1>24 DEF CancelCallback
  <2>2. Head(ready).x \in Tasks \cup {None}
    BY <2>1, Running
  <2> QED BY <1>24, <2>2 DEF CancelCallback, Lives, Item, Taken
<1>25. CASE InterruptCallback
  <2>1. Runs("interrupt")
    BY <1>25 DEF InterruptCallback
  <2>2. Head(ready).x \in Tasks \cup {None}
    BY <2>1, Running
  <2> QED BY <1>25, <2>2 DEF InterruptCallback, Lives, Item, Taken
<1>26. CASE CloseCallback
  <2>1. Runs("close")
    BY <1>26 DEF CloseCallback
  <2>2. Head(ready).x \in Tasks \cup {None}
    BY <2>1, Running
  <2> QED BY <1>26, <2>2 DEF CloseCallback, Lives, Item, Taken
<1>27. CASE CloseEnds
  BY <1>27 DEF CloseEnds
<1>28. CASE CloseRequest
  BY <1>28 DEF CloseRequest
<1>29. ASSUME NEW k \in Tasks, TurnBegins(k) PROVE LifeType'
  BY <1>29 DEF TurnBegins
<1>30. ASSUME NEW k \in Tasks, TurnResets(k) PROVE LifeType'
  BY <1>30 DEF TurnResets
<1>31. ASSUME NEW k \in Tasks, Thrown(k) PROVE LifeType'
  <2>1. life[k] \in Throwable
    BY <1>31, Thrower
  <2> QED BY <1>31, <2>1 DEF Thrown, Throwable
<1>32. ASSUME NEW k \in Tasks, Catch(k) PROVE LifeType'
  BY <1>32 DEF Catch
<1>33. ASSUME NEW k \in Tasks, Final(k) PROVE LifeType'
  BY <1>33 DEF Final
<1>34. ASSUME NEW k \in Tasks, Reconnected(k) PROVE LifeType'
  BY <1>34 DEF Reconnected
<1>35. ASSUME NEW k \in Tasks, QuerySent(k) PROVE LifeType'
  BY <1>35 DEF QuerySent
<1>36. ASSUME NEW k \in Tasks, TurnResult(k) PROVE LifeType'
  BY <1>36 DEF TurnResult
<1>37. ASSUME NEW k \in Tasks, TurnSettles(k) PROVE LifeType'
  BY <1>37 DEF TurnSettles
<1>38. ASSUME NEW k \in Tasks, DrainEnds(k) PROVE LifeType'
  BY <1>38 DEF DrainEnds
<1>39. ASSUME NEW k \in Tasks, ResumedResult(k) PROVE LifeType'
  BY <1>39 DEF ResumedResult
<1>40. ASSUME NEW k \in Tasks, EndedWithoutResult(k) PROVE LifeType'
  BY <1>40 DEF EndedWithoutResult
<1>41. ASSUME NEW k \in Tasks, Mend(k) PROVE LifeType'
  BY <1>41 DEF Mend
<1>42. ASSUME NEW k \in Tasks, Mended(k) PROVE LifeType'
  BY <1>42 DEF Mended
<1>43. ASSUME NEW k \in Tasks, Unwound(k) PROVE LifeType'
  BY <1>43 DEF Unwound
<1>44. ASSUME NEW k \in Tasks, SnapshotDone(k) PROVE LifeType'
  BY <1>44 DEF SnapshotDone
<1>45. ASSUME NEW k \in Tasks, ReconnectFails(k) PROVE LifeType'
  BY <1>45 DEF ReconnectFails
<1>46. ASSUME NEW k \in Tasks, ListenFails(k) PROVE LifeType'
  BY <1>46 DEF ListenFails
<1>47. ASSUME NEW k \in Tasks, AutoResumes(k) PROVE LifeType'
  BY <1>47 DEF AutoResumes
<1>48. ASSUME NEW k \in Tasks, StreamStops(k, "ended") \/ StreamStops(k, "broken")
       PROVE LifeType'
  BY <1>48 DEF StreamStops
<1>49. ASSUME NEW d \in Timers, ReemitFires(d) PROVE LifeType'
  BY <1>49 DEF ReemitFires
<1>50. ASSUME NEW t \in Threads, SendRequest(t) \/ QueueRequest(t) PROVE LifeType'
  BY <1>50 DEF SendRequest, QueueRequest, Accept
<1>51. ASSUME NEW t \in Threads, InterruptRequest(t) PROVE LifeType'
  BY <1>51 DEF InterruptRequest
<1>52. CASE UNCHANGED vars
  BY <1>52 DEF vars
<1> HIDE BoundsAssumption DEF LifeType, PlainType, Lives, flags, turns, messages,
       counts, vars, Gone, Dies, Becomes, Fails, FailsIf, Waits, Actors, Cancels,
       Handler
<1> QED
  BY <1>1, <1>2, <1>3, <1>4, <1>5, <1>6, <1>7, <1>8, <1>9, <1>10, <1>11, <1>12, <1>13,
     <1>14, <1>15, <1>16, <1>17, <1>18, <1>19, <1>20, <1>21, <1>22, <1>23, <1>24,
     <1>25, <1>26, <1>27, <1>28, <1>29, <1>30, <1>31, <1>32, <1>33, <1>34, <1>35,
     <1>36, <1>37, <1>38, <1>39, <1>40, <1>41, <1>42, <1>43, <1>44, <1>45, <1>46,
     <1>47, <1>48, <1>49, <1>50, <1>51, <1>52
     DEF Next, Step, LoopStep, Awaited, Trouble, Requests

\* Lines of callbacks.
LEMMA Line ==
  ASSUME NEW s \in Seq(Items), NEW e \in Items
  PROVE  /\ Append(s, e) \in Seq(Items) /\ s \o <<e>> \in Seq(Items)
         /\ s \o (<< >> \o <<e>>) \in Seq(Items)
         /\ \A d \in Items : s \o (<<d>> \o <<e>>) \in Seq(Items)
OBVIOUS

LEMMA CancelLine ==
  ASSUME NEW s \in Seq(Items), NEW k \in Tasks \cup {None}, Cancels(k, s)
  PROVE  ready' \in Seq(Items)
<1>1. ready' = s \/ ready' = Append(s, Item("throw", k))
  BY DEF Cancels
<1>2. Item("throw", k) \in Items
  BY DEF Item, Items, Calls
<1> QED BY <1>1, <1>2, Line

LEMMA LineStep ==
  ASSUME PlainType, Stacks, ready \in Seq(Items), [Next]_vars
  PROVE  ready' \in Seq(Items)
<1> USE DEF flags, turns, messages, counts, vars
<1>1. ASSUME NEW a \in Actors, SendAcquire(a) PROVE ready' \in Seq(Items)
  BY <1>1 DEF SendAcquire
<1>2. ASSUME NEW a \in Actors, SendRefuse(a) PROVE ready' \in Seq(Items)
  BY <1>2 DEF SendRefuse
<1>3. ASSUME NEW a \in Actors, SendBusy(a) PROVE ready' \in Seq(Items)
  BY <1>3 DEF SendBusy
<1>4. ASSUME NEW a \in Actors, SendUnlock(a) PROVE ready' \in Seq(Items)
  BY <1>4 DEF SendUnlock
<1>5. ASSUME NEW a \in Actors, SendPasses(a) PROVE ready' \in Seq(Items)
  BY <1>5 DEF SendPasses
<1>6. ASSUME NEW a \in Actors, SendFlip(a) PROVE ready' \in Seq(Items)
  BY <1>6 DEF SendFlip
<1>7. ASSUME NEW a \in Actors, SendSchedule(a) PROVE ready' \in Seq(Items)
  <2>1. Top(a).x \in Tasks \cup {None} /\ Top(a).m \in Tasks
    BY <1>7, AtTop DEF SendSchedule, Frame
  <2>2. Item("cancel", Top(a).x) \in Items /\ Item("spawn", Top(a).m) \in Items
    BY <2>1 DEF Item, Items, Calls
  <2>3. \/ ready' = ready \o (<<Item("cancel", Top(a).x)>> \o <<Item("spawn", Top(a).m)>>)
        \/ ready' = ready \o (<< >> \o <<Item("spawn", Top(a).m)>>)
    BY <1>7 DEF SendSchedule, Post
  <2> QED BY <2>2, <2>3, Line
<1>8. ASSUME NEW a \in Actors, QueueAppend(a) PROVE ready' \in Seq(Items)
  BY <1>8 DEF QueueAppend
<1>9. ASSUME NEW a \in Actors, QueueCheck(a) PROVE ready' \in Seq(Items)
  BY <1>9 DEF QueueCheck
<1>10. ASSUME NEW a \in Actors, DispatchEmpty(a) PROVE ready' \in Seq(Items)
  BY <1>10 DEF DispatchEmpty
<1>11. ASSUME NEW a \in Actors, DispatchPop(a) PROVE ready' \in Seq(Items)
  BY <1>11 DEF DispatchPop
<1>12. ASSUME NEW a \in Actors, DispatchRequeue(a) PROVE ready' \in Seq(Items)
  BY <1>12 DEF DispatchRequeue
<1>13. ASSUME NEW a \in Actors, EmitTrim(a) PROVE ready' \in Seq(Items)
  BY <1>13 DEF EmitTrim
<1>14. ASSUME NEW a \in Actors, EmitCheck(a) PROVE ready' \in Seq(Items)
  BY <1>14 DEF EmitCheck
<1>15. ASSUME NEW a \in Actors, EmitTimer(a) PROVE ready' \in Seq(Items)
  BY <1>15 DEF EmitTimer
<1>16. ASSUME NEW a \in Actors, ReemitCheck(a) PROVE ready' \in Seq(Items)
  BY <1>16 DEF ReemitCheck
<1>17. ASSUME NEW a \in Actors, InterruptPop(a) PROVE ready' \in Seq(Items)
  BY <1>17 DEF InterruptPop
<1>18. ASSUME NEW a \in Actors, InterruptFlag(a) PROVE ready' \in Seq(Items)
  BY <1>18 DEF InterruptFlag
<1>19. ASSUME NEW a \in Actors, InterruptIdle(a) PROVE ready' \in Seq(Items)
  BY <1>19 DEF InterruptIdle
<1>20. ASSUME NEW a \in Actors, InterruptCapture(a) PROVE ready' \in Seq(Items)
  BY <1>20 DEF InterruptCapture
<1>21. ASSUME NEW a \in Actors, InterruptSchedule(a) PROVE ready' \in Seq(Items)
  <2>1. Top(a).x \in Tasks \cup {None}
    BY <1>21, AtTop DEF InterruptSchedule, Frame
  <2>2. /\ ready' = ready \o <<Item("spawn_interrupt", Top(a).x)>>
        /\ Item("spawn_interrupt", Top(a).x) \in Items
    BY <1>21, <2>1 DEF InterruptSchedule, Post, Item, Items, Calls
  <2> QED BY <2>2, Line
<1>22. CASE SpawnTurn
  <2>1. Runs("spawn")
    BY <1>22 DEF SpawnTurn
  <2>2. Taken \in Seq(Items) /\ Head(ready).x \in Tasks \cup {None}
    BY <2>1, Running
  <2>3. ready' = Append(Taken, Item("step", Head(ready).x)) /\ Item("step", Head(ready).x) \in Items
    BY <1>22, <2>2 DEF SpawnTurn, Item, Items, Calls
  <2> QED BY <2>2, <2>3, Line
<1>23. CASE SpawnOther
  <2>1. /\ ready \in Seq(Items) /\ ready # << >> /\ Taken \in Seq(Items)
        /\ Head(ready).x \in Tasks \cup {None}
    BY <1>23, Running DEF SpawnOther, Runs
  <2>2. \E d \in {"interrupt", "close"}, x \in Tasks \cup {None} :
          ready' = Append(Taken, Item(d, x))
    BY <1>23, <2>1 DEF SpawnOther
  <2>3. \A d \in {"interrupt", "close"}, x \in Tasks \cup {None} : Item(d, x) \in Items
    BY DEF Item, Items, Calls
  <2> QED BY <2>1, <2>2, <2>3, Line
<1>24. CASE CancelCallback
  <2>1. Runs("cancel")
    BY <1>24 DEF CancelCallback
  <2>2. Taken \in Seq(Items) /\ Head(ready).x \in Tasks \cup {None}
    BY <2>1, Running
  <2>3. Cancels(Head(ready).x, Taken) /\ Head(ready).x \in Tasks \cup {None}
    BY <1>24, <2>2 DEF CancelCallback, PlainType
  <2> QED BY <2>2, <2>3, CancelLine
<1>25. CASE InterruptCallback
  <2>1. Runs("interrupt")
    BY <1>25 DEF InterruptCallback
  <2>2. Taken \in Seq(Items) /\ Head(ready).x \in Tasks \cup {None}
    BY <2>1, Running
  <2>3. ready' = Taken \/ \E j \in Tasks \cup {None} : Cancels(j, Taken)
    BY <1>25, <2>2 DEF InterruptCallback, PlainType
  <2> QED BY <2>2, <2>3, CancelLine
<1>26. CASE CloseCallback
  <2>1. Runs("close")
    BY <1>26 DEF CloseCallback
  <2>2. Taken \in Seq(Items) /\ Head(ready).x \in Tasks \cup {None}
    BY <2>1, Running
  <2>3. Cancels(task, Taken) /\ task \in Tasks \cup {None}
    BY <1>26, <2>2 DEF CloseCallback, PlainType
  <2> QED BY <2>2, <2>3, CancelLine
<1>27. CASE CloseEnds
  BY <1>27 DEF CloseEnds
<1>28. CASE CloseRequest
  <2>1. ready' = ready \o <<Item("spawn_close", None)>> /\ Item("spawn_close", None) \in Items
    BY <1>28 DEF CloseRequest, Post, Item, Items, Calls
  <2> QED BY <2>1, Line
<1>29. ASSUME NEW k \in Tasks, TurnBegins(k) PROVE ready' \in Seq(Items)
  <2>1. Runs("step")
    BY <1>29 DEF TurnBegins
  <2>2. Taken \in Seq(Items) /\ Head(ready).x \in Tasks \cup {None}
    BY <2>1, Running
  <2>3. ready' = Append(Taken, Item("step", k)) /\ Item("step", k) \in Items
    BY <1>29, <2>2 DEF TurnBegins, Item, Items, Calls
  <2> QED BY <2>2, <2>3, Line
<1>30. ASSUME NEW k \in Tasks, TurnResets(k) PROVE ready' \in Seq(Items)
  <2>1. Runs("step")
    BY <1>30 DEF TurnResets
  <2>2. Taken \in Seq(Items) /\ Head(ready).x \in Tasks \cup {None}
    BY <2>1, Running
  <2> QED BY <1>30, <2>2 DEF TurnResets
<1>31. ASSUME NEW k \in Tasks, Thrown(k) PROVE ready' \in Seq(Items)
  <2>1. Runs("throw")
    BY <1>31 DEF Thrown
  <2>2. Taken \in Seq(Items) /\ Head(ready).x \in Tasks \cup {None}
    BY <2>1, Running
  <2> QED BY <1>31, <2>2 DEF Thrown
<1>32. ASSUME NEW k \in Tasks, Catch(k) PROVE ready' \in Seq(Items)
  BY <1>32 DEF Catch
<1>33. ASSUME NEW k \in Tasks, Final(k) PROVE ready' \in Seq(Items)
  BY <1>33 DEF Final
<1>34. ASSUME NEW k \in Tasks, Reconnected(k) PROVE ready' \in Seq(Items)
  BY <1>34 DEF Reconnected
<1>35. ASSUME NEW k \in Tasks, QuerySent(k) PROVE ready' \in Seq(Items)
  BY <1>35 DEF QuerySent
<1>36. ASSUME NEW k \in Tasks, TurnResult(k) PROVE ready' \in Seq(Items)
  BY <1>36 DEF TurnResult
<1>37. ASSUME NEW k \in Tasks, TurnSettles(k) PROVE ready' \in Seq(Items)
  BY <1>37 DEF TurnSettles
<1>38. ASSUME NEW k \in Tasks, DrainEnds(k) PROVE ready' \in Seq(Items)
  BY <1>38 DEF DrainEnds
<1>39. ASSUME NEW k \in Tasks, ResumedResult(k) PROVE ready' \in Seq(Items)
  BY <1>39 DEF ResumedResult
<1>40. ASSUME NEW k \in Tasks, EndedWithoutResult(k) PROVE ready' \in Seq(Items)
  BY <1>40 DEF EndedWithoutResult
<1>41. ASSUME NEW k \in Tasks, Mend(k) PROVE ready' \in Seq(Items)
  BY <1>41 DEF Mend
<1>42. ASSUME NEW k \in Tasks, Mended(k) PROVE ready' \in Seq(Items)
  BY <1>42 DEF Mended
<1>43. ASSUME NEW k \in Tasks, Unwound(k) PROVE ready' \in Seq(Items)
  BY <1>43 DEF Unwound
<1>44. ASSUME NEW k \in Tasks, SnapshotDone(k) PROVE ready' \in Seq(Items)
  BY <1>44 DEF SnapshotDone
<1>45. ASSUME NEW k \in Tasks, ReconnectFails(k) PROVE ready' \in Seq(Items)
  BY <1>45 DEF ReconnectFails
<1>46. ASSUME NEW k \in Tasks, ListenFails(k) PROVE ready' \in Seq(Items)
  BY <1>46 DEF ListenFails
<1>47. ASSUME NEW k \in Tasks, AutoResumes(k) PROVE ready' \in Seq(Items)
  BY <1>47 DEF AutoResumes
<1>48. ASSUME NEW k \in Tasks, StreamStops(k, "ended") \/ StreamStops(k, "broken")
       PROVE ready' \in Seq(Items)
  BY <1>48 DEF StreamStops
<1>49. ASSUME NEW d \in Timers, ReemitFires(d) PROVE ready' \in Seq(Items)
  BY <1>49 DEF ReemitFires
<1>50. ASSUME NEW t \in Threads, SendRequest(t) \/ QueueRequest(t)
       PROVE ready' \in Seq(Items)
  BY <1>50 DEF SendRequest, QueueRequest, Accept
<1>51. ASSUME NEW t \in Threads, InterruptRequest(t) PROVE ready' \in Seq(Items)
  BY <1>51 DEF InterruptRequest
<1>52. CASE UNCHANGED vars
  BY <1>52 DEF vars
<1> HIDE DEF flags, turns, messages, counts, vars
<1> QED
  BY <1>1, <1>2, <1>3, <1>4, <1>5, <1>6, <1>7, <1>8, <1>9, <1>10, <1>11, <1>12, <1>13,
     <1>14, <1>15, <1>16, <1>17, <1>18, <1>19, <1>20, <1>21, <1>22, <1>23, <1>24,
     <1>25, <1>26, <1>27, <1>28, <1>29, <1>30, <1>31, <1>32, <1>33, <1>34, <1>35,
     <1>36, <1>37, <1>38, <1>39, <1>40, <1>41, <1>42, <1>43, <1>44, <1>45, <1>46,
     <1>47, <1>48, <1>49, <1>50, <1>51, <1>52
     DEF Next, Step, LoopStep, Awaited, Trouble, Requests

-----------------------------------------------------------------------------
(* What the event loop's steps do for a coroutine.                         *)

\* The frames the loop is left with.
LoopStacks(k) ==
  /\ stack' \in [Actors -> Seq(Frame)]
  /\ \A b \in Actors \ {Loop} : stack'[b] = stack[b]
  /\ StackOK(stack'[Loop]) /\ MessagesIn(stack'[Loop]) \subseteq MessagesIn(stack[Loop])
  /\ Ending(stack'[Loop]) \subseteq Ending(stack[Loop]) \cup {k}

\* Coroutine k goes on or ends, and no other does; it takes its message with it when it
\* ends before the query.
Advances(k) ==
  /\ \A j \in Tasks \ {k} : life'[j] = life[j] /\ (j \in cancelled' <=> j \in cancelled)
  /\ life[k] # "none" /\ life'[k] \notin {"none", "spawned"}
  /\ life'[k] \in Early => life[k] \in Early
  /\ dropped \subseteq dropped'
  /\ \A j \in dropped' \ dropped : j = k /\ life[k] \in Unsent /\ life'[k] = "dead"
  /\ UNCHANGED <<queue, accepted>>
  /\ k \notin cancelled' \/ stack'[Loop] = << >>
  /\ \/ sent' = sent
     \/ sent' = Append(sent, k) /\ dropped' = dropped /\ life[k] = "prep" /\ life'[k] = "turn"

LEMMA LoopStacked ==
  ASSUME Stacks, NEW k \in Tasks,
         \/ UNCHANGED stack
         \/ LoopLeft(k)
         \/ (At(Loop, "tk_catch") \/ At(Loop, "tk_final")) /\ Return(Loop)
         \/ Idle(Loop) /\ Enter(Loop, Called("es_trim", 0))
  PROVE  LoopStacks(k)
<1>1. Loop \in Actors
  BY DEF Actors
<1>2. CASE UNCHANGED stack
  BY <1>1, <1>2 DEF Stacks, LoopStacks
<1>3. CASE LoopLeft(k)
  BY <1>3, LoopMoves DEF LoopStacks
<1>4. CASE (At(Loop, "tk_catch") \/ At(Loop, "tk_final")) /\ Return(Loop)
  <2>1. Moves(Loop, OfTop(Loop), {})
    <3>1. PICK l \in {"tk_catch", "tk_final"} : At(Loop, l)
      BY <1>4
    <3> QED BY <1>1, <1>4, <3>1, AtTop, ReturnMoves DEF Return, Sending
  <2> QED BY <2>1 DEF Moves, LoopStacks
<1>5. CASE Idle(Loop) /\ Enter(Loop, Called("es_trim", 0))
  <2> DEFINE e == Called("es_trim", 0)
  <2>1. e \in Frame /\ e.at = "es_trim" /\ ~Carries(e) /\ ~Ends(e)
    BY BoundsAssumption DEF Called, Frame, Labels, Tasks, Carries, Carrying, Ends
  <2> HIDE DEF e
  <2>2. Enter(Loop, e)
    BY <1>5 DEF e
  <2>3. Moves(Loop, {}, {})
    BY <1>1, <1>5, <2>1, <2>2, EnterMoves
  <2> QED BY <2>3 DEF Moves, LoopStacks
<1> QED BY <1>2, <1>3, <1>4, <1>5

\* The last block of a coroutine runs on the loop.
LEMMA AtEnd ==
  ASSUME Stacks, Lined, NEW k \in Tasks, NEW l \in {"tk_catch", "tk_final"},
         At(Loop, l), Top(Loop).m = k
  PROVE  k \notin cancelled /\ life[k] \notin {"none", "spawned"}
<1>1. Loop \in Actors
  BY DEF Actors
<1>2. stack[Loop] # << >> /\ StackOK(stack[Loop]) /\ Head(stack[Loop]).at = l
      /\ Head(stack[Loop]).m = k /\ stack[Loop] \in Seq(Frame)
  BY <1>1 DEF Stacks, At, Top
<1>3. k \in Ending(stack[Loop])
  BY <1>2, TopOf DEF Ends
<1> QED BY <1>3 DEF Lined

\* The steps of the loop for coroutine k.
Work(k) ==
  \/ (SpawnTurn /\ Head(ready).x = k) \/ TurnBegins(k) \/ TurnResets(k) \/ Thrown(k)
  \/ Catch(k) \/ Final(k) \/ Reconnected(k) \/ QuerySent(k) \/ TurnResult(k)
  \/ TurnSettles(k) \/ DrainEnds(k) \/ ResumedResult(k) \/ EndedWithoutResult(k)
  \/ Mend(k) \/ Mended(k) \/ Unwound(k) \/ SnapshotDone(k) \/ ReconnectFails(k)
  \/ ListenFails(k) \/ AutoResumes(k)
  \/ StreamStops(k, "ended") \/ StreamStops(k, "broken")

LEMMA WorkStacks ==
  ASSUME Stacks, ready \in Seq(Items), Lined, NEW k \in Tasks, Work(k)
  PROVE  LoopStacks(k)
<1>1. CASE SpawnTurn /\ Head(ready).x = k
  BY <1>1, LoopStacked DEF SpawnTurn
<1>2. CASE TurnBegins(k)
  BY <1>2, LoopStacked DEF TurnBegins
<1>3. CASE TurnResets(k)
  BY <1>3, LoopStacked DEF TurnResets
<1>4. CASE Thrown(k)
  <2>1. life[k] \in Throwable
    BY <1>4, Thrower
  <2> QED BY <1>4, <2>1, LoopStacked DEF Thrown, Throwable, Handler, LoopLeft
<1>5. CASE Catch(k)
  BY <1>5, LoopStacked DEF Catch, LoopLeft
<1>6. CASE Final(k)
  BY <1>6, LoopStacked DEF Final, LoopLeft
<1>7. CASE Reconnected(k)
  BY <1>7, LoopStacked DEF Reconnected
<1>8. CASE QuerySent(k)
  BY <1>8, LoopStacked DEF QuerySent
<1>9. CASE TurnResult(k)
  BY <1>9, LoopStacked DEF TurnResult
<1>10. CASE TurnSettles(k)
  BY <1>10, LoopStacked DEF TurnSettles
<1>11. CASE DrainEnds(k)
  BY <1>11, LoopStacked DEF DrainEnds, LoopLeft
<1>12. CASE ResumedResult(k)
  BY <1>12, LoopStacked DEF ResumedResult, LoopLeft
<1>13. CASE EndedWithoutResult(k)
  BY <1>13, LoopStacked DEF EndedWithoutResult, LoopLeft
<1>14. CASE Mend(k)
  BY <1>14, LoopStacked DEF Mend, LoopLeft
<1>15. CASE Mended(k)
  BY <1>15, LoopStacked DEF Mended, LoopLeft
<1>16. CASE Unwound(k)
  BY <1>16, LoopStacked DEF Unwound, LoopLeft, Handler
<1>17. CASE SnapshotDone(k)
  BY <1>17, LoopStacked DEF SnapshotDone
<1>18. CASE ReconnectFails(k)
  BY <1>18, LoopStacked DEF ReconnectFails, Waits, LoopFree
<1>19. CASE ListenFails(k)
  BY <1>19, LoopStacked DEF ListenFails, LoopLeft
<1>20. CASE AutoResumes(k)
  BY <1>20, LoopStacked DEF AutoResumes, LoopLeft
<1>21. CASE StreamStops(k, "ended") \/ StreamStops(k, "broken")
  BY <1>21, LoopStacked DEF StreamStops
<1> QED
  BY <1>1, <1>2, <1>3, <1>4, <1>5, <1>6, <1>7, <1>8, <1>9, <1>10, <1>11, <1>12, <1>13,
     <1>14, <1>15, <1>16, <1>17, <1>18, <1>19, <1>20, <1>21
     DEF Work

LEMMA WorkAdvances ==
  ASSUME Stacks, LifeType, ready \in Seq(Items), Lined, NEW k \in Tasks, Work(k)
  PROVE  Advances(k)
<1> USE DEF LifeType, Advances, Early, Unsent, Dies, Gone, Becomes, Waits, Fails,
       FailsIf, messages, counts, turns, flags
<1>1. CASE SpawnTurn /\ Head(ready).x = k
  BY <1>1, Spawner, Running DEF SpawnTurn
<1>2. CASE TurnBegins(k)
  BY <1>2, Running DEF TurnBegins
<1>3. CASE TurnResets(k)
  BY <1>3, Running DEF TurnResets
<1>4. CASE Thrown(k)
  <2>1. k \in cancelled /\ life[k] \in Throwable
    BY <1>4, Thrower
  <2> QED BY <1>4, <2>1 DEF Thrown, Throwable, Handler
<1>5. CASE Catch(k)
  <2>1. k \notin cancelled /\ life[k] \notin {"none", "spawned"}
    BY <1>5, AtEnd DEF Catch
  <2> QED BY <1>5, <2>1 DEF Catch
<1>6. CASE Final(k)
  <2>1. k \notin cancelled /\ life[k] \notin {"none", "spawned"}
    BY <1>6, AtEnd DEF Final
  <2> QED BY <1>6, <2>1 DEF Final
<1>7. CASE Reconnected(k)
  BY <1>7 DEF Reconnected
<1>8. CASE QuerySent(k)
  BY <1>8 DEF QuerySent
<1>9. CASE TurnResult(k)
  BY <1>9 DEF TurnResult
<1>10. CASE TurnSettles(k)
  BY <1>10 DEF TurnSettles
<1>11. CASE DrainEnds(k)
  BY <1>11 DEF DrainEnds
<1>12. CASE ResumedResult(k)
  BY <1>12 DEF ResumedResult
<1>13. CASE EndedWithoutResult(k)
  BY <1>13 DEF EndedWithoutResult
<1>14. CASE Mend(k)
  BY <1>14 DEF Mend
<1>15. CASE Mended(k)
  BY <1>15 DEF Mended
<1>16. CASE Unwound(k)
  BY <1>16 DEF Unwound, Handler
<1>17. CASE SnapshotDone(k)
  BY <1>17 DEF SnapshotDone
<1>18. CASE ReconnectFails(k)
  BY <1>18 DEF ReconnectFails
<1>19. CASE ListenFails(k)
  BY <1>19 DEF ListenFails
<1>20. CASE AutoResumes(k)
  BY <1>20 DEF AutoResumes
<1>21. CASE StreamStops(k, "ended") \/ StreamStops(k, "broken")
  BY <1>21 DEF StreamStops
<1> HIDE DEF LifeType, Advances, Early, Unsent, Dies, Gone, Becomes, Waits, Fails,
       FailsIf, messages, counts, turns, flags
<1> QED
  BY <1>1, <1>2, <1>3, <1>4, <1>5, <1>6, <1>7, <1>8, <1>9, <1>10, <1>11, <1>12, <1>13,
     <1>14, <1>15, <1>16, <1>17, <1>18, <1>19, <1>20, <1>21
     DEF Work

-----------------------------------------------------------------------------
(* The line of callbacks.                                                  *)

Special(e) == e.do \in {"spawn", "throw"}
Fits(e, l, c) ==
  /\ e.do = "spawn" => e.x \in Tasks /\ l[e.x] = "spawned"
  /\ e.do = "throw" => e.x \in c /\ l[e.x] \in Throwable

\* The line without its first d callbacks, with that of E behind it, as far as the
\* special ones go.
Follows(d, E) ==
  \A i \in DOMAIN ready' :
    Special(ready'[i]) =>
      \/ i = Len(ready') /\ ready'[i] \in E
      \/ i + d \in DOMAIN ready /\ ready'[i] = ready[i + d]

LEMMA Positions ==
  ASSUME NEW s \in Seq(Items), NEW e \in Items
  PROVE  /\ Len(s) \in Nat /\ DOMAIN s = 1 .. Len(s)
         /\ \A i \in DOMAIN s : s[i] \in Items
         /\ DOMAIN Append(s, e) = 1 .. Len(s) + 1 /\ Len(Append(s, e)) = Len(s) + 1
         /\ Append(s, e)[Len(s) + 1] = e
         /\ \A i \in DOMAIN s : Append(s, e)[i] = s[i]
         /\ s # << >> =>
              /\ Tail(s) \in Seq(Items) /\ Len(Tail(s)) = Len(s) - 1 /\ Len(s) > 0
              /\ \A i \in DOMAIN Tail(s) : i + 1 \in DOMAIN s /\ Tail(s)[i] = s[i + 1]
         /\ s \o <<e>> = Append(s, e)
<1>1. Len(s) \in Nat /\ DOMAIN s = 1 .. Len(s) /\ \A i \in DOMAIN s : s[i] \in Items
  OBVIOUS
<1>2. /\ DOMAIN Append(s, e) = 1 .. Len(s) + 1 /\ Len(Append(s, e)) = Len(s) + 1
      /\ Append(s, e)[Len(s) + 1] = e
      /\ \A i \in DOMAIN s : Append(s, e)[i] = s[i]
  OBVIOUS
<1>3. ASSUME s # << >>
      PROVE  /\ Tail(s) \in Seq(Items) /\ Len(Tail(s)) = Len(s) - 1 /\ Len(s) > 0
             /\ \A i \in DOMAIN Tail(s) : i + 1 \in DOMAIN s /\ Tail(s)[i] = s[i + 1]
  BY <1>3
<1>4. s \o <<e>> = Append(s, e)
  OBVIOUS
<1> QED BY <1>1, <1>2, <1>3, <1>4

\* The first callback is taken, others are put behind.
LEMMA TakenFollows ==
  ASSUME ready \in Seq(Items), ready # << >>
  PROVE  /\ ready' = Taken => Follows(1, {})
         /\ \A e \in Items : ready' = Append(Taken, e) => Follows(1, {e})
<1>1. /\ Taken \in Seq(Items)
      /\ \A i \in DOMAIN Taken : i + 1 \in DOMAIN ready /\ Taken[i] = ready[i + 1]
  BY Positions DEF Taken
<1>2. ASSUME ready' = Taken PROVE Follows(1, {})
  BY <1>1, <1>2 DEF Follows
<1>3. ASSUME NEW e \in Items, ready' = Append(Taken, e) PROVE Follows(1, {e})
  <2>1. DOMAIN ready' = 1 .. Len(Taken) + 1 /\ DOMAIN Taken = 1 .. Len(Taken)
        /\ Len(Taken) \in Nat /\ Len(ready') = Len(Taken) + 1
        /\ ready'[Len(Taken) + 1] = e /\ \A i \in DOMAIN Taken : ready'[i] = Taken[i]
    BY <1>1, <1>3, Positions
  <2>2. \A i \in DOMAIN ready' : i = Len(Taken) + 1 \/ i \in DOMAIN Taken
    BY <2>1
  <2> QED BY <1>1, <2>1, <2>2 DEF Follows
<1> QED BY <1>2, <1>3

LEMMA PostFollows ==
  ASSUME ready \in Seq(Items), NEW e \in Items
  PROVE  /\ ready' = ready => Follows(0, {})
         /\ ready' = ready \o <<e>> => Follows(0, {e})
         /\ ready' = ready \o (<< >> \o <<e>>) => Follows(0, {e})
         /\ \A c \in Items : ready' = ready \o (<<c>> \o <<e>>) /\ ~Special(c) => Follows(0, {e})
<1>1. \A i \in DOMAIN ready : i + 0 = i
  BY Positions
<1>2. ASSUME ready' = ready PROVE Follows(0, {})
  BY <1>1, <1>2 DEF Follows
<1>3. ASSUME ready' = Append(ready, e) PROVE Follows(0, {e})
  <2>1. DOMAIN ready' = 1 .. Len(ready) + 1 /\ Len(ready') = Len(ready) + 1
        /\ DOMAIN ready = 1 .. Len(ready) /\ Len(ready) \in Nat
        /\ ready'[Len(ready) + 1] = e /\ \A i \in DOMAIN ready : ready'[i] = ready[i]
    BY <1>3, Positions
  <2>2. \A i \in DOMAIN ready' : i = Len(ready) + 1 \/ (i \in DOMAIN ready /\ i + 0 = i)
    BY <2>1
  <2> QED BY <2>1, <2>2 DEF Follows
<1>4. ready \o <<e>> = Append(ready, e) /\ ready \o (<< >> \o <<e>>) = Append(ready, e)
  OBVIOUS
<1>5. ASSUME NEW c \in Items, ready' = ready \o (<<c>> \o <<e>>), ~Special(c)
      PROVE  Follows(0, {e})
  <2> DEFINE s == Append(ready, c)
  <2>1. ready' = Append(s, e)
    BY <1>5
  <2>2. s \in Seq(Items)
    OBVIOUS
  <2>3. DOMAIN s = 1 .. Len(ready) + 1 /\ Len(s) = Len(ready) + 1
        /\ DOMAIN ready = 1 .. Len(ready) /\ Len(ready) \in Nat
        /\ s[Len(ready) + 1] = c /\ \A i \in DOMAIN ready : s[i] = ready[i]
    BY Positions
  <2> HIDE DEF s
  <2>4. DOMAIN ready' = 1 .. Len(s) + 1 /\ Len(ready') = Len(s) + 1
        /\ ready'[Len(s) + 1] = e /\ \A i \in DOMAIN s : ready'[i] = s[i]
    BY <2>1, <2>2, Positions
  <2>5. \A i \in DOMAIN ready' : \/ i = Len(s) + 1
                                 \/ i = Len(ready) + 1 /\ i \in DOMAIN s
                                 \/ i \in DOMAIN ready /\ i \in DOMAIN s /\ i + 0 = i
    BY <2>3, <2>4
  <2> QED BY <1>5, <2>3, <2>4, <2>5 DEF Follows
<1> QED BY <1>2, <1>3, <1>4, <1>5

\* A callback that is not special does not matter.
LEMMA PlainFollows ==
  ASSUME NEW d, NEW e, ~Special(e), Follows(d, {e})
  PROVE  Follows(d, {})
BY DEF Follows

\* The line and the coroutines that end stay in order.
LEMMA LinedKept ==
  ASSUME Lined, ready \in Seq(Items), ready' \in Seq(Items), NEW d \in {0, 1}, NEW E,
         Follows(d, E),
         \A e \in E : e \notin ToSet(ready) /\ Fits(e, life', cancelled'),
         \A i \in DOMAIN ready :
           i > d /\ Special(ready[i]) => Fits(ready[i], life', cancelled'),
         \A k \in Ending(stack'[Loop]) :
           k \notin cancelled' /\ life'[k] \notin {"none", "spawned"}
  PROVE  Lined'
<1>1. \A i \in DOMAIN ready' : i \in Nat /\ i > 0 /\ i + d > d
  <2>1. Len(ready') \in Nat /\ DOMAIN ready' = 1 .. Len(ready')
    OBVIOUS
  <2> QED BY <2>1
<1>2. ASSUME NEW i \in DOMAIN ready', Special(ready'[i])
      PROVE Fits(ready'[i], life', cancelled')
  BY <1>1, <1>2 DEF Follows
<1>3. ASSUME NEW i \in DOMAIN ready', NEW j \in DOMAIN ready',
             ready'[i] = ready'[j], Special(ready'[i])
      PROVE  i = j
  <2>1. CASE i = Len(ready') /\ j = Len(ready')
    BY <2>1
  <2>2. ASSUME NEW p \in DOMAIN ready', NEW q \in DOMAIN ready', ready'[p] = ready'[q],
               ready'[p] \in E, q + d \in DOMAIN ready, ready'[q] = ready[q + d]
        PROVE  FALSE
    BY <2>2 DEF ToSet
  <2>3. CASE /\ i + d \in DOMAIN ready /\ ready'[i] = ready[i + d]
             /\ j + d \in DOMAIN ready /\ ready'[j] = ready[j + d]
    <3>1. i + d = j + d
      BY <1>3, <2>3 DEF Lined, Special
    <3> QED BY <1>1, <3>1
  <2> QED BY <1>3, <2>1, <2>2, <2>3 DEF Follows
<1>4. \A i \in DOMAIN ready' :
        /\ ready'[i].do = "spawn" => ready'[i].x \in Tasks /\ life'[ready'[i].x] = "spawned"
        /\ ready'[i].do = "throw" =>
             ready'[i].x \in cancelled' /\ life'[ready'[i].x] \in Throwable
  BY <1>2 DEF Fits, Special
<1>5. \A i, j \in DOMAIN ready' :
        ready'[i] = ready'[j] /\ ready'[i].do \in {"spawn", "throw"} => i = j
  BY <1>3 DEF Special
<1> QED BY <1>4, <1>5 DEF Lined

\* The coroutines that have no special callback.
LEMMA Unlisted ==
  ASSUME Lined, NEW k, life[k] # "spawned", k \notin cancelled \/ life[k] \notin Throwable
  PROVE  \A i \in DOMAIN ready : Special(ready[i]) => ready[i].x # k
BY DEF Lined, Special

LEMMA EndingTasks ==
  ASSUME NEW s \in Seq(Frame)
  PROVE  Ending(s) \subseteq Tasks
<1>1. \A i \in DOMAIN s : s[i] \in Frame
  OBVIOUS
<1> QED BY <1>1 DEF Ending, Frame

\* The callback that is taken is the special one of coroutine k, if it has one.
LEMMA TakenOnce ==
  ASSUME Lined, ready \in Seq(Items), ready # << >>, NEW k, Head(ready).x = k,
         \/ Head(ready).do = "spawn" /\ life[k] \notin Throwable
         \/ Head(ready).do = "throw" /\ life[k] # "spawned"
  PROVE  \A i \in DOMAIN ready : i > 1 /\ Special(ready[i]) => ready[i].x # k
<1>1. 1 \in DOMAIN ready /\ ready[1] = Head(ready)
  BY FirstInLine
<1>2. \A i \in DOMAIN ready : i \in Nat /\ ready[i] \in Items
  BY Positions
<1> SUFFICES ASSUME NEW i \in DOMAIN ready, i > 1, Special(ready[i]), ready[i].x = k
             PROVE  FALSE
  OBVIOUS
<1>3. ready[i].do = Head(ready).do
  BY DEF Lined, Special
<1>4. ready[i] = ready[1]
  BY <1>1, <1>2, <1>3 DEF Items
<1> QED BY <1>1, <1>2, <1>4 DEF Lined, Special

LEMMA WorkFollows ==
  ASSUME Stacks, LifeType, ready \in Seq(Items), Lined, NEW k \in Tasks, Work(k)
  PROVE  \E d \in {0, 1} :
           /\ Follows(d, {})
           /\ \A i \in DOMAIN ready : i > d /\ Special(ready[i]) => ready[i].x # k
<1> DEFINE Goal == \E d \in {0, 1} :
              /\ Follows(d, {})
              /\ \A i \in DOMAIN ready : i > d /\ Special(ready[i]) => ready[i].x # k
<1>a. Follows(0, {}) /\ k \notin cancelled /\ life[k] # "spawned" => Goal
  BY Unlisted
<1>b. ready # << >> /\ ready' = Taken => Follows(1, {})
  BY TakenFollows
<1>c. ASSUME ready # << >>, NEW e \in Items, ready' = Append(Taken, e), e.do = "step"
      PROVE  Follows(1, {})
  BY <1>c, TakenFollows, PlainFollows DEF Special
<1>d. ready' = ready => Follows(0, {})
  <2>1. \A i \in DOMAIN ready : i + 0 = i
    BY Positions
  <2> QED BY <2>1 DEF Follows
<1> HIDE DEF Goal
<1>1. ASSUME SpawnTurn /\ Head(ready).x = k PROVE Goal
  <2>1. /\ ready # << >> /\ Head(ready).do = "spawn" /\ life[k] = "spawned"
        /\ Head(ready).x = k /\ ready' = Append(Taken, Item("step", k))
    BY <1>1, Spawner DEF SpawnTurn, Runs
  <2>2. Item("step", k) \in Items /\ Item("step", k).do = "step"
    BY DEF Item, Items, Calls
  <2>3. Follows(1, {})
    BY <2>1, <2>2, <1>c
  <2> QED BY <2>1, <2>3, TakenOnce DEF Throwable, Goal
<1>2. ASSUME TurnBegins(k) PROVE Goal
  <2>1. /\ ready # << >> /\ life[k] = "created" /\ ready' = Append(Taken, Item("step", k))
    BY <1>2 DEF TurnBegins, Runs
  <2>2. Item("step", k) \in Items /\ Item("step", k).do = "step"
    BY DEF Item, Items, Calls
  <2>3. Follows(1, {})
    BY <2>1, <2>2, <1>c
  <2> QED BY <2>1, <2>3, Unlisted DEF Throwable, Goal
<1>3. ASSUME TurnResets(k) PROVE Goal
  <2>1. /\ ready # << >> /\ life[k] = "yielded" /\ ready' = Taken
    BY <1>3 DEF TurnResets, Runs
  <2> QED BY <2>1, <1>b, Unlisted DEF Throwable, Goal
<1>4. ASSUME Thrown(k) PROVE Goal
  <2>1. /\ ready # << >> /\ Head(ready).do = "throw" /\ life[k] \in Throwable
        /\ Head(ready).x = k /\ ready' = Taken
    BY <1>4, Thrower DEF Thrown, Runs
  <2> QED BY <2>1, <1>b, TakenOnce DEF Throwable, Goal
<1>5. ASSUME Catch(k) PROVE Goal
  <2>1. k \notin cancelled /\ life[k] # "spawned" /\ ready' = ready
    BY <1>5, AtEnd DEF Catch
  <2> QED BY <2>1, <1>a, <1>d
<1>6. ASSUME Final(k) PROVE Goal
  <2>1. k \notin cancelled /\ life[k] # "spawned" /\ ready' = ready
    BY <1>6, AtEnd DEF Final
  <2> QED BY <2>1, <1>a, <1>d
<1>7. ASSUME Reconnected(k) PROVE Goal
  BY <1>7, <1>a, <1>d DEF Reconnected, Waits
<1>8. ASSUME QuerySent(k) PROVE Goal
  BY <1>8, <1>a, <1>d DEF QuerySent, Waits
<1>9. ASSUME TurnResult(k) PROVE Goal
  BY <1>9, <1>a, <1>d DEF TurnResult, Waits
<1>10. ASSUME TurnSettles(k) PROVE Goal
  BY <1>10, <1>a, <1>d DEF TurnSettles, Waits
<1>11. ASSUME DrainEnds(k) PROVE Goal
  BY <1>11, <1>a, <1>d DEF DrainEnds, Waits
<1>12. ASSUME ResumedResult(k) PROVE Goal
  BY <1>12, <1>a, <1>d DEF ResumedResult, Waits
<1>13. ASSUME EndedWithoutResult(k) PROVE Goal
  BY <1>13, <1>a, <1>d DEF EndedWithoutResult, Waits
<1>14. ASSUME Mend(k) PROVE Goal
  BY <1>14, <1>a, <1>d DEF Mend, Waits
<1>15. ASSUME Mended(k) PROVE Goal
  BY <1>15, <1>a, <1>d DEF Mended, Waits
<1>16. ASSUME Unwound(k) PROVE Goal
  BY <1>16, <1>a, <1>d DEF Unwound, Waits
<1>17. ASSUME SnapshotDone(k) PROVE Goal
  BY <1>17, <1>a, <1>d DEF SnapshotDone, Waits
<1>18. ASSUME ReconnectFails(k) PROVE Goal
  BY <1>18, <1>a, <1>d DEF ReconnectFails, Waits
<1>19. ASSUME ListenFails(k) PROVE Goal
  BY <1>19, <1>a, <1>d DEF ListenFails, Waits
<1>20. ASSUME AutoResumes(k) PROVE Goal
  BY <1>20, <1>a, <1>d DEF AutoResumes, Waits
<1>21. ASSUME StreamStops(k, "ended") \/ StreamStops(k, "broken") PROVE Goal
  BY <1>21, <1>a, <1>d DEF StreamStops, Waits
<1> QED
  BY <1>1, <1>2, <1>3, <1>4, <1>5, <1>6, <1>7, <1>8, <1>9, <1>10, <1>11, <1>12, <1>13,
     <1>14, <1>15, <1>16, <1>17, <1>18, <1>19, <1>20, <1>21
     DEF Work, Goal

LEMMA WorkLined ==
  ASSUME Stacks, LifeType, ready \in Seq(Items), ready' \in Seq(Items), Lined,
         NEW k \in Tasks, Work(k)
  PROVE  Lined'
<1>1. Advances(k) /\ LoopStacks(k)
  BY WorkAdvances, WorkStacks
<1>2. PICK d \in {0, 1} :
        /\ Follows(d, {})
        /\ \A i \in DOMAIN ready : i > d /\ Special(ready[i]) => ready[i].x # k
  BY WorkFollows
<1>3. ASSUME NEW i \in DOMAIN ready, i > d, Special(ready[i])
      PROVE  Fits(ready[i], life', cancelled')
  <2>1. ready[i].x \in Tasks \ {k}
    BY <1>2, <1>3 DEF Lined, Special, LifeType
  <2>2. life'[ready[i].x] = life[ready[i].x]
        /\ (ready[i].x \in cancelled' <=> ready[i].x \in cancelled)
    BY <1>1, <2>1 DEF Advances
  <2> QED BY <1>3, <2>1, <2>2 DEF Lined, Fits
<1>4. ASSUME NEW j \in Ending(stack'[Loop])
      PROVE  j \notin cancelled' /\ life'[j] \notin {"none", "spawned"}
  <2>1. j # k => j \in Ending(stack[Loop]) /\ j \in Tasks
    BY <1>1, <1>4, EndingTasks DEF LoopStacks, Stacks, Actors
  <2>2. stack'[Loop] # << >>
    BY <1>4, EmptyStack
  <2> QED BY <1>1, <2>1, <2>2 DEF Advances, Lined
<1> QED BY <1>2, <1>3, <1>4, LinedKept

\* A cancellation is thrown once at most.
LEMMA CancelLined ==
  ASSUME LifeType, ready \in Seq(Items), ready' \in Seq(Items), Lined, ready # << >>,
         NEW k \in Tasks \cup {None}, Cancels(k, Taken) \/ (ready' = Taken /\ UNCHANGED cancelled),
         UNCHANGED <<life, stack>>, stack[Loop] = << >>
  PROVE  Lined'
<1>1. Ending(stack'[Loop]) = {}
  BY EmptyStack
<1>2. CASE ready' = Taken /\ UNCHANGED cancelled
  <2>1. \A i \in DOMAIN ready : Special(ready[i]) => Fits(ready[i], life', cancelled')
    BY <1>2 DEF Lined, Fits
  <2> QED BY <1>1, <1>2, <2>1, TakenFollows, LinedKept
<1>3. CASE ~(ready' = Taken /\ UNCHANGED cancelled)
  <2>1. /\ k \in Tasks /\ k \notin cancelled /\ cancelled' = cancelled \cup {k}
        /\ life[k] \notin {"none", "spawned", "dead", "unwind", "ended", "broken", "settle"}
        /\ ready' = IF life[k] \in {"created", "yielded"} THEN Taken
                    ELSE Append(Taken, Item("throw", k))
    BY <1>3 DEF Cancels, Alive
  <2>2. \A i \in DOMAIN ready : Special(ready[i]) => Fits(ready[i], life', cancelled')
    BY <2>1 DEF Lined, Fits
  <2>3. CASE life[k] \in {"created", "yielded"}
    BY <1>1, <2>1, <2>2, <2>3, TakenFollows, LinedKept
  <2>4. CASE life[k] \notin {"created", "yielded"}
    <3> DEFINE e == Item("throw", k)
    <3>1. e \in Items /\ e.do = "throw" /\ e.x = k
      BY DEF Item, Items, Calls
    <3> HIDE DEF e
    <3>2. ready' = Append(Taken, e)
      BY <2>1, <2>4 DEF e
    <3>3. life[k] \in Throwable
      BY <2>1, <2>4 DEF LifeType, Lives, Throwable
    <3>4. e \notin ToSet(ready)
      BY <2>1, <3>1 DEF Lined, ToSet
    <3>5. Fits(e, life', cancelled')
      BY <2>1, <3>1, <3>3 DEF Fits
    <3> QED BY <1>1, <2>2, <3>1, <3>2, <3>4, <3>5, TakenFollows, LinedKept
  <2> QED BY <2>3, <2>4
<1> QED BY <1>2, <1>3

\* The line of a step that makes, throws and cancels nothing.
LEMMA QuietLined ==
  ASSUME Lined, ready \in Seq(Items), ready' \in Seq(Items), UNCHANGED <<life, cancelled>>,
         Ending(stack'[Loop]) \subseteq Ending(stack[Loop]),
         \/ ready' = ready
         \/ \E e \in Items : ~Special(e) /\ \/ ready' = ready \o <<e>>
                                            \/ ready # << >> /\ ready' = Append(Taken, e)
  PROVE  Lined'
<1>1. \A i \in DOMAIN ready : Special(ready[i]) => Fits(ready[i], life', cancelled')
  BY DEF Lined, Fits
<1>2. \E d \in {0, 1} : Follows(d, {})
  <2>1. CASE ready' = ready
    <3>1. \A i \in DOMAIN ready : i + 0 = i
      BY Positions
    <3> QED BY <2>1, <3>1 DEF Follows
  <2>2. ASSUME NEW e \in Items, ~Special(e),
               ready' = ready \o <<e>> \/ (ready # << >> /\ ready' = Append(Taken, e))
        PROVE  \E d \in {0, 1} : Follows(d, {})
    <3>1. Follows(0, {e}) \/ Follows(1, {e})
      BY <2>2, PostFollows, TakenFollows
    <3> QED BY <2>2, <3>1, PlainFollows
  <2> QED BY <2>1, <2>2
<1>3. \A k \in Ending(stack'[Loop]) : k \notin cancelled' /\ life'[k] \notin {"none", "spawned"}
  BY DEF Lined
<1> QED BY <1>1, <1>2, <1>3, LinedKept

-----------------------------------------------------------------------------
(* Where the messages are.                                                 *)

\* A sequence without repetitions that gets a new member, or loses its first.
LEMMA Members ==
  ASSUME NEW S, NEW q \in Seq(S), IsInjective(q), NEW m \in S, m \notin ToSet(q)
  PROVE  /\ ToSet(Append(q, m)) = ToSet(q) \cup {m} /\ IsInjective(Append(q, m))
         /\ ToSet(<<m>> \o q) = ToSet(q) \cup {m} /\ IsInjective(<<m>> \o q)
<1>1. /\ Len(q) \in Nat /\ DOMAIN q = 1 .. Len(q) /\ \A i \in DOMAIN q : q[i] \in S
      /\ DOMAIN Append(q, m) = 1 .. Len(q) + 1 /\ Append(q, m)[Len(q) + 1] = m
      /\ \A i \in DOMAIN q : Append(q, m)[i] = q[i]
  OBVIOUS
<1> DEFINE t == <<m>> \o q
<1>2. DOMAIN t = 1 .. Len(q) + 1 /\ t[1] = m /\ \A i \in 2 .. Len(q) + 1 : t[i] = q[i - 1]
  OBVIOUS
<1> DEFINE u == Append(q, m)
<1>3. DOMAIN u = 1 .. Len(q) + 1 /\ u[Len(q) + 1] = m /\ \A i \in DOMAIN q : u[i] = q[i]
  BY <1>1
<1> HIDE DEF t, u
<1>4. \A i \in DOMAIN u : i = Len(q) + 1 \/ (i \in DOMAIN q /\ u[i] = q[i])
  BY <1>1, <1>3
<1>5. \A i \in DOMAIN t : i = 1 \/ (i - 1 \in DOMAIN q /\ t[i] = q[i - 1])
  BY <1>1, <1>2
<1>6. \A i \in DOMAIN q : i + 1 \in DOMAIN t /\ t[i + 1] = q[i] /\ i \in DOMAIN u
  <2>1. \A i \in DOMAIN q : i + 1 \in 2 .. Len(q) + 1 /\ (i + 1) - 1 = i /\ i \in 1 .. Len(q) + 1
    BY <1>1
  <2> QED BY <1>2, <1>3, <2>1
<1>7. ToSet(u) = ToSet(q) \cup {m} /\ ToSet(t) = ToSet(q) \cup {m}
  <2>1. ToSet(u) \subseteq ToSet(q) \cup {m} /\ ToSet(t) \subseteq ToSet(q) \cup {m}
    <3>1. \A i \in DOMAIN u : u[i] = m \/ u[i] \in ToSet(q)
      BY <1>3, <1>4 DEF ToSet
    <3>2. \A i \in DOMAIN t : t[i] = m \/ t[i] \in ToSet(q)
      BY <1>2, <1>5 DEF ToSet
    <3> QED BY <3>1, <3>2 DEF ToSet
  <2>2. m \in ToSet(u) /\ m \in ToSet(t)
    BY <1>1, <1>2, <1>3 DEF ToSet
  <2>3. ToSet(q) \subseteq ToSet(u) /\ ToSet(q) \subseteq ToSet(t)
    BY <1>3, <1>6 DEF ToSet
  <2> QED BY <2>1, <2>2, <2>3
<1>8. IsInjective(u) /\ IsInjective(t)
  <2>1. \A i \in DOMAIN q : q[i] # m
    BY DEF ToSet
  <2>2. IsInjective(u)
    BY <1>3, <1>4, <2>1 DEF IsInjective
  <2>3. ASSUME NEW i \in DOMAIN t, NEW j \in DOMAIN t, t[i] = t[j] PROVE i = j
    <3>1. i = 1 <=> j = 1
      BY <1>2, <1>5, <2>1, <2>3
    <3>2. CASE i # 1
      <4>1. i - 1 = j - 1
        BY <1>5, <2>3, <3>1, <3>2 DEF IsInjective
      <4> QED BY <1>1, <1>2, <4>1
    <3> QED BY <3>1, <3>2
  <2> QED BY <2>2, <2>3 DEF IsInjective
<1> QED BY <1>7, <1>8 DEF t, u

LEMMA Appended ==
  ASSUME NEW S, NEW q \in Seq(S), IsInjective(q), NEW m \in S, m \notin ToSet(q)
  PROVE  ToSet(Append(q, m)) = ToSet(q) \cup {m} /\ IsInjective(Append(q, m))
<1>1. /\ ToSet(Append(q, m)) = ToSet(q) \cup {m} /\ IsInjective(Append(q, m))
      /\ ToSet(<<m>> \o q) = ToSet(q) \cup {m} /\ IsInjective(<<m>> \o q)
  BY Members
<1> QED BY <1>1

LEMMA WithoutFirst ==
  ASSUME NEW S, NEW q \in Seq(S), q # << >>, IsInjective(q)
  PROVE  /\ Head(q) \in S /\ Tail(q) \in Seq(S) /\ Head(q) \in ToSet(q)
         /\ IsInjective(Tail(q)) /\ ToSet(Tail(q)) = ToSet(q) \ {Head(q)}
<1> DEFINE t == Tail(q)
<1>1. /\ Len(q) \in Nat /\ DOMAIN q = 1 .. Len(q) /\ Len(q) > 0 /\ Head(q) = q[1]
      /\ Head(q) \in S /\ t \in Seq(S)
      /\ DOMAIN t = 1 .. Len(q) - 1 /\ \A i \in DOMAIN t : t[i] = q[i + 1]
  OBVIOUS
<1> HIDE DEF t
<1>2. 1 \in DOMAIN q /\ \A i \in DOMAIN t : i + 1 \in DOMAIN q /\ i + 1 # 1
  BY <1>1
<1>3. \A i \in DOMAIN q : i = 1 \/ (i - 1 \in DOMAIN t /\ t[i - 1] = q[i])
  <2>1. \A i \in DOMAIN q : i = 1 \/ (i - 1 \in DOMAIN t /\ (i - 1) + 1 = i)
    BY <1>1
  <2> QED BY <1>1, <2>1
<1>4. ASSUME NEW i \in DOMAIN t, NEW j \in DOMAIN t, t[i] = t[j] PROVE i = j
  <2>1. i + 1 = j + 1
    BY <1>1, <1>2, <1>4 DEF IsInjective
  <2> QED BY <1>1, <2>1
<1>5. ToSet(t) \subseteq ToSet(q) /\ q[1] \in ToSet(q) /\ q[1] \notin ToSet(t)
  BY <1>1, <1>2 DEF ToSet, IsInjective
<1>6. ToSet(q) \ {q[1]} \subseteq ToSet(t)
  BY <1>3 DEF ToSet
<1> QED BY <1>1, <1>4, <1>5, <1>6 DEF t, IsInjective

\* The messages that somebody carries or that wait in the queue become fewer.
LEMMA PlacedShrinks ==
  ASSUME Placed, accepted' = accepted,
         \A a \in Actors : /\ StackOK(stack'[a])
                           /\ MessagesIn(stack'[a]) \subseteq MessagesIn(stack[a]),
         IsInjective(queue'), ToSet(queue') \subseteq ToSet(queue),
         \A m \in ToSet(queue') : life'[m] = "none" /\ m \notin dropped',
         \A a \in Actors : \A m \in MessagesIn(stack'[a]) : life'[m] = "none" /\ m \notin dropped',
         \A m \in Messages : m > accepted => life'[m] = "none" /\ m \notin dropped'
  PROVE  Placed'
<1>1. \A a, b \in Actors : a # b => MessagesIn(stack'[a]) \cap MessagesIn(stack'[b]) = {}
  BY DEF Placed
<1>2. \A m \in ToSet(queue') : Free(m)'
  BY DEF Placed, Free
<1>3. \A a \in Actors : \A m \in MessagesIn(stack'[a]) : Free(m)' /\ m \notin ToSet(queue')
  BY DEF Placed, Free
<1> QED BY <1>1, <1>2, <1>3 DEF Placed

\* An actor puts the message it carries into the queue.
LEMMA PlacedGives ==
  ASSUME Placed, NEW a \in Actors, NEW m \in MessagesIn(stack[a]), Moves(a, {m}, {}),
         IsInjective(queue'), ToSet(queue') = ToSet(queue) \cup {m},
         UNCHANGED <<life, dropped, accepted>>
  PROVE  Placed'
<1>1. \A b \in Actors : /\ StackOK(stack'[b]) /\ m \notin MessagesIn(stack'[b])
                        /\ MessagesIn(stack'[b]) \subseteq MessagesIn(stack[b])
  BY DEF Placed, Moves
<1>2. \A b, c \in Actors : b # c => MessagesIn(stack'[b]) \cap MessagesIn(stack'[c]) = {}
  BY <1>1 DEF Placed
<1>3. \A x : Free(x)' <=> Free(x)
  BY DEF Free
<1>4. \A x \in ToSet(queue') : Free(x)'
  BY <1>3 DEF Placed
<1>5. \A b \in Actors : \A x \in MessagesIn(stack'[b]) : Free(x)' /\ x \notin ToSet(queue')
  BY <1>1, <1>3 DEF Placed
<1> QED BY <1>1, <1>2, <1>4, <1>5 DEF Placed

\* An actor takes a message from the queue.
LEMMA PlacedTakes ==
  ASSUME Placed, NEW a \in Actors, NEW m \in ToSet(queue), Moves(a, {}, {m}),
         IsInjective(queue'), ToSet(queue') = ToSet(queue) \ {m},
         UNCHANGED <<life, dropped, accepted>>
  PROVE  Placed'
<1>1. \A b \in Actors : m \notin MessagesIn(stack[b])
  BY DEF Placed
<1>2. \A b \in Actors : /\ StackOK(stack'[b])
                        /\ MessagesIn(stack'[b]) \subseteq MessagesIn(stack[b]) \cup {m}
                        /\ b # a => MessagesIn(stack'[b]) = MessagesIn(stack[b])
  BY DEF Placed, Moves
<1>3. \A b, c \in Actors : b # c => MessagesIn(stack'[b]) \cap MessagesIn(stack'[c]) = {}
  BY <1>1, <1>2 DEF Placed
<1>4. \A x : Free(x)' <=> Free(x)
  BY DEF Free
<1>5. \A x \in ToSet(queue') : Free(x)'
  BY <1>4 DEF Placed
<1>6. \A b \in Actors : \A x \in MessagesIn(stack'[b]) : Free(x)' /\ x \notin ToSet(queue')
  BY <1>2, <1>4 DEF Placed
<1> QED BY <1>2, <1>3, <1>5, <1>6 DEF Placed

\* A request brings a new message.
LEMMA PlacedAccepts ==
  ASSUME Placed, NEW a \in Actors, accepted \in Nat, accepted < MaxMessages,
         queue \in Seq(Messages),
         NEW n, n = accepted + 1, accepted' = n, Moves(a, {}, {n}),
         UNCHANGED <<life, dropped, queue>>
  PROVE  Placed'
<1>1. n \in Messages
  BY BoundsAssumption DEF Messages
<1>2. \A b \in Actors : n \notin MessagesIn(stack[b])
  BY DEF Placed, Free
<1>3. \A b \in Actors : /\ StackOK(stack'[b])
                        /\ MessagesIn(stack'[b]) \subseteq MessagesIn(stack[b]) \cup {n}
                        /\ b # a => MessagesIn(stack'[b]) = MessagesIn(stack[b])
  BY DEF Placed, Moves
<1>4. \A b, c \in Actors : b # c => MessagesIn(stack'[b]) \cap MessagesIn(stack'[c]) = {}
  BY <1>2, <1>3 DEF Placed
<1>5. \A x \in Messages : Free(x) => Free(x)'
  BY DEF Free, Messages
<1>6. Free(n)' /\ n \notin ToSet(queue)
  <2>1. life[n] = "none" /\ n \notin dropped
    BY <1>1 DEF Placed
  <2>2. n \notin ToSet(queue)
    BY DEF Placed, Free
  <2>3. n <= accepted'
    BY <1>1 DEF Messages
  <2> QED BY <2>1, <2>2, <2>3 DEF Free
<1>7. \A b \in Actors : \A x \in MessagesIn(stack[b]) : x \in Messages
  BY DEF Placed, StackOK
<1>8. ASSUME NEW b \in Actors, NEW x \in MessagesIn(stack'[b])
      PROVE  Free(x)' /\ x \notin ToSet(queue')
  <2>1. x = n \/ x \in MessagesIn(stack[b])
    BY <1>3, <1>8
  <2>2. CASE x = n
    BY <1>6, <2>2
  <2>3. CASE x \in MessagesIn(stack[b])
    BY <1>5, <1>7, <2>3 DEF Placed
  <2> QED BY <2>1, <2>2, <2>3
<1>9. \A x \in Messages : x > accepted' => life'[x] = "none" /\ x \notin dropped'
  BY DEF Placed, Messages
<1>10. \A x \in ToSet(queue') : Free(x)'
  <2>1. ToSet(queue) \subseteq Messages
    BY DEF ToSet
  <2> QED BY <1>5, <2>1 DEF Placed
<1> QED BY <1>3, <1>4, <1>8, <1>9, <1>10 DEF Placed

IInv == TypeOK /\ Placed /\ Lined /\ Gave

-----------------------------------------------------------------------------
(* The steps, by what they do to the messages.                             *)

\* What the invariant gives the lemmas above.
LEMMA Given ==
  ASSUME IInv
  PROVE  /\ PlainType /\ FlagType /\ LifeType /\ MessageType /\ ready \in Seq(Items)
         /\ Stacks /\ Placed /\ Lined /\ Gave
         /\ ToSet(queue) \subseteq Messages /\ Messages \subseteq Tasks
         /\ \A a \in Actors : MessagesIn(stack[a]) \subseteq Messages
<1>1. /\ PlainType /\ FlagType /\ LifeType /\ MessageType /\ ready \in Seq(Items)
      /\ stack \in [Actors -> Seq(Frame)]
  BY TypeParts DEF IInv
<1>2. Placed /\ Lined /\ Gave /\ Stacks
  BY <1>1 DEF IInv, Placed, Stacks
<1>3. ToSet(queue) \subseteq Messages
  BY <1>1 DEF MessageType, ToSet
<1>4. Messages \subseteq Tasks
  BY BoundsAssumption DEF Messages, Tasks
<1>5. \A a \in Actors : MessagesIn(stack[a]) \subseteq Messages
  BY <1>2 DEF Stacks, StackOK
<1> QED BY <1>1, <1>2, <1>3, <1>4, <1>5

\* What is to be shown of a step.
Good == Placed /\ Lined /\ Gave /\ MessageType /\ stack \in [Actors -> Seq(Frame)]

LEMMA StayMoves ==
  ASSUME Stacks, UNCHANGED stack
  PROVE  Moves(Loop, {}, {})
BY DEF Stacks, Moves, Actors

LEMMA MovesEnding ==
  ASSUME NEW a \in Actors, NEW L, NEW M, Moves(a, L, M)
  PROVE  Ending(stack'[Loop]) \subseteq Ending(stack[Loop])
BY DEF Moves, Actors

\* A step of a coroutine.
LEMMA WorkGood ==
  ASSUME IInv, ready' \in Seq(Items), LifeType', NEW k \in Tasks, Work(k)
  PROVE  Good'
<1>1. /\ LifeType /\ MessageType /\ ready \in Seq(Items) /\ Stacks
      /\ Placed /\ Lined /\ Gave
      /\ ToSet(queue) \subseteq Messages /\ Messages \subseteq Tasks
      /\ \A a \in Actors : MessagesIn(stack[a]) \subseteq Messages
  BY Given
<1>2. LoopStacks(k) /\ Advances(k)
  BY <1>1, WorkStacks, WorkAdvances
<1>3. Lined'
  BY <1>1, WorkLined
<1>4. \A m \in Messages : life[m] = "none" /\ m \notin dropped =>
                            life'[m] = "none" /\ m \notin dropped'
  BY <1>1, <1>2 DEF Advances
<1>5. \A a \in Actors : /\ StackOK(stack'[a])
                        /\ MessagesIn(stack'[a]) \subseteq MessagesIn(stack[a])
  <2>1. \A a \in Actors \ {Loop} : stack'[a] = stack[a] /\ StackOK(stack[a])
    BY <1>1, <1>2 DEF LoopStacks, Stacks
  <2>2. /\ StackOK(stack'[Loop])
        /\ MessagesIn(stack'[Loop]) \subseteq MessagesIn(stack[Loop])
    BY <1>2 DEF LoopStacks
  <2>3. ASSUME NEW a \in Actors
        PROVE  StackOK(stack'[a]) /\ MessagesIn(stack'[a]) \subseteq MessagesIn(stack[a])
    <3>1. CASE a = Loop
      BY <2>2, <3>1
    <3>2. CASE a # Loop
      BY <2>1, <3>2
    <3> QED BY <3>1, <3>2
  <2> QED BY <2>3
<1>6. Placed'
  <2>1. queue' = queue /\ accepted' = accepted
    BY <1>2 DEF Advances
  <2>2. \A m \in ToSet(queue') : life'[m] = "none" /\ m \notin dropped'
    BY <1>1, <1>4, <2>1 DEF Placed, Free
  <2>3. \A a \in Actors : \A m \in MessagesIn(stack'[a]) : life'[m] = "none" /\ m \notin dropped'
    BY <1>1, <1>4, <1>5 DEF Placed, Free
  <2>4. \A m \in Messages : m > accepted => life'[m] = "none" /\ m \notin dropped'
    BY <1>1, <1>4 DEF Placed
  <2>5. IsInjective(queue') /\ ToSet(queue') \subseteq ToSet(queue)
    BY <1>1, <2>1 DEF Placed
  <2> QED BY <1>1, <1>5, <2>1, <2>2, <2>3, <2>4, <2>5, PlacedShrinks
<1>7. \A j \in dropped' : j \in dropped \/ (j = k /\ life[k] \in Unsent /\ life'[k] = "dead")
  BY <1>2 DEF Advances
<1>8. \A j \in Tasks : /\ life[j] # "none" => life'[j] # "none"
                       /\ life'[j] \in Early => life[j] \in Early
  BY <1>2 DEF Advances
<1>9. "dead" \notin Early /\ Unsent \subseteq Early
  BY DEF Early, Unsent
<1>10. ToSet(sent) \subseteq Tasks /\ 0 \in Tasks
  BY <1>1, BoundsAssumption DEF MessageType, ToSet, Tasks
<1>11. /\ \A j \in Tasks : life'[j] \in Early => j \notin dropped'
       /\ life'[0] \notin Early \cup {"none"}
  <2>1. life'[0] \notin Early \cup {"none"}
    BY <1>1, <1>8, <1>10 DEF Gave
  <2>2. ASSUME NEW j \in Tasks, life'[j] \in Early PROVE j \notin dropped'
    BY <1>1, <1>7, <1>8, <1>9, <2>2 DEF Gave
  <2> QED BY <2>1, <2>2
<1>12. \A j \in ToSet(sent) : life'[j] \notin Early \cup {"none"} /\ j \notin dropped'
  BY <1>1, <1>7, <1>8, <1>9, <1>10 DEF Gave
<1>13. IsInjective(sent') /\ \A j \in ToSet(sent') : life'[j] \notin Early \cup {"none"}
                                                     /\ j \notin dropped'
  <2>1. CASE sent' = sent
    BY <1>1, <1>12, <2>1 DEF Gave
  <2>2. CASE sent' = Append(sent, k) /\ dropped' = dropped
             /\ life[k] = "prep" /\ life'[k] = "turn"
    <3>1. k \notin ToSet(sent) /\ k \notin dropped
      BY <1>1, <2>2 DEF Gave, Early, Unsent
    <3>2. IsInjective(sent') /\ ToSet(sent') = ToSet(sent) \cup {k}
      <4>1. sent \in Seq(Tasks) /\ IsInjective(sent)
        BY <1>1 DEF Gave, MessageType
      <4>2. /\ ToSet(Append(sent, k)) = ToSet(sent) \cup {k}
            /\ IsInjective(Append(sent, k))
        BY <3>1, <4>1, Appended
      <4>3. sent' = Append(sent, k)
        BY <2>2
      <4> HIDE <2>2
      <4> QED BY <4>2, <4>3
    <3> QED BY <1>12, <2>2, <3>1, <3>2 DEF Early, Unsent
  <2> QED BY <1>2, <2>1, <2>2 DEF Advances
<1>14. Gave'
  BY <1>11, <1>13 DEF Gave
<1>15. MessageType'
  <2>1. queue' \in Seq(Messages) /\ sent' \in Seq(Tasks)
    BY <1>1, <1>2 DEF Advances, MessageType
  <2>2. life[k] \in Unsent => k \in Messages
    <3>1. life[k] \in Unsent => k # 0
      BY <1>1, <1>9 DEF Gave
    <3> QED BY <3>1, BoundsAssumption DEF Tasks, Messages
  <2>3. dropped' \subseteq Messages
    BY <1>1, <1>7, <2>2 DEF MessageType
  <2> QED BY <2>1, <2>3 DEF MessageType
<1> QED BY <1>2, <1>3, <1>6, <1>14, <1>15 DEF Good, LoopStacks

\* A step that leaves the coroutines alone, and may give up messages.
LEMMA DropsGood ==
  ASSUME IInv, NEW a \in Actors, NEW L, Moves(a, L, {}),
         UNCHANGED <<life, accepted, sent>>, queue' = queue \/ queue' = << >>,
         dropped \subseteq dropped',
         \A m \in dropped' \ dropped :
           /\ m \in Messages /\ Free(m) /\ m \notin ToSet(queue')
           /\ \A b \in Actors : m \notin MessagesIn(stack'[b]),
         Lined'
  PROVE  Good'
<1>1. /\ MessageType /\ Stacks /\ Placed /\ Gave
  BY Given
<1>2. \A b \in Actors : /\ StackOK(stack'[b])
                        /\ MessagesIn(stack'[b]) \subseteq MessagesIn(stack[b])
  BY <1>1 DEF Moves, Stacks
<1>3. IsInjective(queue') /\ ToSet(queue') \subseteq ToSet(queue) /\ queue' \in Seq(Messages)
  <2>1. IsInjective(<< >>) /\ ToSet(<< >>) = {} /\ << >> \in Seq(Messages)
    BY DEF IsInjective, ToSet
  <2> QED BY <1>1, <2>1 DEF Placed, MessageType
<1>4. Placed'
  <2>1. \A m \in ToSet(queue') : life'[m] = "none" /\ m \notin dropped'
    BY <1>1, <1>3 DEF Placed, Free
  <2>2. \A b \in Actors : \A m \in MessagesIn(stack'[b]) : life'[m] = "none" /\ m \notin dropped'
    BY <1>1, <1>2 DEF Placed, Free
  <2>3. \A m \in Messages : m > accepted => m \notin dropped' \ dropped
    <3>1. accepted \in Nat
      BY Given DEF PlainType
    <3> QED BY <3>1 DEF Free, Messages
  <2>4. \A m \in Messages : m > accepted => life'[m] = "none" /\ m \notin dropped'
    BY <1>1, <2>3 DEF Placed
  <2> QED BY <1>1, <1>2, <1>3, <2>1, <2>2, <2>4, PlacedShrinks
<1>5. Gave'
  BY <1>1 DEF Gave, Free, Early, Unsent
<1>6. MessageType'
  BY <1>1, <1>3 DEF MessageType
<1> QED BY <1>4, <1>5, <1>6 DEF Good, Moves

\* A step that moves no message and no coroutine.
LEMMA QuietGood ==
  ASSUME IInv, ready' \in Seq(Items), NEW a \in Actors, Moves(a, {}, {}),
         UNCHANGED <<life, cancelled, accepted, sent, queue, dropped>>,
         \/ ready' = ready
         \/ \E e \in Items : ~Special(e) /\ \/ ready' = ready \o <<e>>
                                            \/ ready # << >> /\ ready' = Append(Taken, e)
  PROVE  Good'
<1>1. Ending(stack'[Loop]) \subseteq Ending(stack[Loop])
  BY MovesEnding
<1>2. ready \in Seq(Items) /\ Lined
  BY Given
<1>3. Lined'
  BY <1>1, <1>2, QuietLined
<1> QED BY <1>3, DropsGood

\* A step that cancels a coroutine.
LEMMA CancelGood ==
  ASSUME IInv, ready' \in Seq(Items), ready # << >>, NEW k \in Tasks \cup {None},
         Cancels(k, Taken) \/ (ready' = Taken /\ UNCHANGED cancelled),
         UNCHANGED <<life, stack, accepted, sent, queue, dropped>>, stack[Loop] = << >>
  PROVE  Good'
<1>1. LifeType /\ ready \in Seq(Items) /\ Lined /\ Stacks
  BY Given
<1>2. Lined'
  BY <1>1, CancelLined
<1>3. Moves(Loop, {}, {})
  BY <1>1, StayMoves
<1>4. Loop \in Actors
  BY DEF Actors
<1> QED BY <1>2, <1>3, <1>4, DropsGood

\* A send_message that gives its message to a coroutine.
LEMMA ScheduleGood ==
  ASSUME IInv, ready' \in Seq(Items), NEW a \in Actors, SendSchedule(a)
  PROVE  Good'
<1> DEFINE m == Top(a).m
<1>1. /\ PlainType /\ LifeType /\ MessageType /\ ready \in Seq(Items) /\ Stacks
      /\ Placed /\ Lined /\ Gave /\ Messages \subseteq Tasks
      /\ \A b \in Actors : MessagesIn(stack[b]) \subseteq Messages
      /\ ToSet(queue) \subseteq Messages
  BY Given
<1>2. Moves(a, {m}, {}) /\ m \in MessagesIn(stack[a])
  BY <1>1, GivingMoves
<1>3. m \in Messages /\ m \in Tasks /\ Free(m) /\ m \notin ToSet(queue)
  BY <1>1, <1>2 DEF Placed
<1>4. /\ UNCHANGED <<cancelled, queue, sent, dropped, accepted>>
      /\ life' = [life EXCEPT ![m] = "spawned"]
  BY DEF SendSchedule, messages, counts
<1> HIDE DEF m
<1>5. life'[m] = "spawned" /\ \A j \in Tasks \ {m} : life'[j] = life[j]
  BY <1>1, <1>3, <1>4 DEF LifeType
<1>6. \A b \in Actors : /\ StackOK(stack'[b])
                        /\ MessagesIn(stack'[b]) \subseteq MessagesIn(stack[b]) \ {m}
  BY <1>1, <1>2 DEF Moves, Stacks, Placed
<1>7. Placed'
  <2>1. \A j \in ToSet(queue') : life'[j] = "none" /\ j \notin dropped'
    BY <1>1, <1>3, <1>4, <1>5 DEF Placed, Free
  <2>2. \A b \in Actors : \A j \in MessagesIn(stack'[b]) : life'[j] = "none" /\ j \notin dropped'
    BY <1>1, <1>4, <1>5, <1>6 DEF Placed, Free
  <2>3. m <= accepted /\ m \in Nat /\ accepted \in Nat
    BY <1>1, <1>3 DEF Free, PlainType, Messages
  <2>4. \A j \in Messages : j > accepted => life'[j] = "none" /\ j \notin dropped'
    <3>1. \A j \in Messages : j > accepted => j # m
      BY <2>3 DEF Messages
    <3> QED BY <1>1, <1>4, <1>5, <3>1 DEF Placed
  <2>5. IsInjective(queue') /\ ToSet(queue') = ToSet(queue)
    BY <1>1, <1>4 DEF Placed
  <2> QED BY <1>1, <1>4, <1>6, <2>1, <2>2, <2>4, <2>5, PlacedShrinks
<1>8. Gave'
  <2>1. ToSet(sent) \subseteq Tasks /\ m # 0 /\ 0 \in Tasks
    BY <1>1, <1>3, BoundsAssumption DEF MessageType, ToSet, Messages, Tasks
  <2>2. m \notin ToSet(sent)
    BY <1>1, <1>3 DEF Gave, Free
  <2>3. m \notin dropped
    BY <1>3 DEF Free
  <2> QED BY <1>1, <1>4, <1>5, <2>1, <2>2, <2>3 DEF Gave
<1>9. Lined'
  <2> DEFINE e == Item("spawn", m)
  <2>1. e \in Items /\ e.do = "spawn" /\ e.x = m
    BY <1>3 DEF Item, Items, Calls
  <2>2. Top(a).x # None => /\ Item("cancel", Top(a).x) \in Items
                           /\ ~Special(Item("cancel", Top(a).x))
    <3>1. Top(a).x \in Tasks \cup {None}
      BY <1>1, AtTop DEF SendSchedule, Frame
    <3> QED BY <3>1 DEF Item, Items, Calls, Special
  <2>3. \/ ready' = ready \o (<< >> \o <<e>>)
        \/ Top(a).x # None /\ ready' = ready \o (<<Item("cancel", Top(a).x)>> \o <<e>>)
    BY DEF SendSchedule, Post, m
  <2> HIDE DEF e
  <2>4. Follows(0, {e})
    BY <1>1, <2>1, <2>2, <2>3, PostFollows
  <2>5. e \notin ToSet(ready) /\ Fits(e, life', cancelled')
    <3>1. life[m] = "none"
      BY <1>3 DEF Free
    <3>2. e \notin ToSet(ready)
      BY <1>1, <2>1, <3>1 DEF Lined, ToSet
    <3> QED BY <1>3, <1>5, <2>1, <3>2 DEF Fits
  <2>6. ASSUME NEW i \in DOMAIN ready, Special(ready[i])
        PROVE Fits(ready[i], life', cancelled')
    <3>1. ready[i].x \in Tasks /\ life[ready[i].x] # "none"
      BY <1>1, <2>6 DEF Lined, Special, LifeType, Throwable
    <3>2. life'[ready[i].x] = life[ready[i].x]
      BY <1>3, <1>5, <3>1 DEF Free
    <3> QED BY <1>1, <1>4, <2>6, <3>1, <3>2 DEF Lined, Fits
  <2>7. ASSUME NEW k \in Ending(stack'[Loop])
        PROVE  k \notin cancelled' /\ life'[k] \notin {"none", "spawned"}
    <3>1. k \in Ending(stack[Loop]) /\ k \in Tasks
      BY <1>1, <1>2, <2>7, MovesEnding, EndingTasks DEF Stacks, Actors
    <3>2. k # m
      BY <1>1, <1>3, <3>1 DEF Lined, Free
    <3> QED BY <1>1, <1>4, <1>5, <3>1, <3>2 DEF Lined
  <2>8. \A x \in {e} : x \notin ToSet(ready) /\ Fits(x, life', cancelled')
    BY <2>5
  <2> QED BY <1>1, <2>4, <2>6, <2>7, <2>8, LinedKept
<1> QED BY <1>1, <1>2, <1>4, <1>7, <1>8, <1>9 DEF Good, Moves, MessageType

\* A message goes into the queue, or comes out of it.
LEMMA QueueGood ==
  ASSUME IInv, ready' \in Seq(Items), NEW a \in Actors,
         QueueAppend(a) \/ DispatchRequeue(a) \/ DispatchPop(a)
  PROVE  Good'
<1>1. /\ MessageType /\ ready \in Seq(Items) /\ Stacks /\ Placed /\ Lined /\ Gave
      /\ \A b \in Actors : MessagesIn(stack[b]) \subseteq Messages
      /\ queue \in Seq(Messages) /\ IsInjective(queue)
  BY Given DEF MessageType, Placed
<1>2. UNCHANGED <<life, cancelled, dropped, accepted, sent, ready>>
  BY DEF QueueAppend, DispatchRequeue, DispatchPop, turns, counts
<1>3. CASE QueueAppend(a) \/ DispatchRequeue(a)
  <2> DEFINE m == Top(a).m
  <2>1. Moves(a, {m}, {}) /\ m \in MessagesIn(stack[a])
    BY <1>1, <1>3, GivingMoves
  <2>2. queue' = Append(queue, m) \/ queue' = <<m>> \o queue
    BY <1>3 DEF QueueAppend, DispatchRequeue
  <2> HIDE DEF m
  <2>3. m \in Messages /\ m \notin ToSet(queue)
    BY <1>1, <2>1 DEF Placed
  <2>4. IsInjective(queue') /\ ToSet(queue') = ToSet(queue) \cup {m} /\ queue' \in Seq(Messages)
    <3>1. /\ IsInjective(Append(queue, m)) /\ ToSet(Append(queue, m)) = ToSet(queue) \cup {m}
          /\ IsInjective(<<m>> \o queue) /\ ToSet(<<m>> \o queue) = ToSet(queue) \cup {m}
      BY <1>1, <2>3, Members
    <3>2. Append(queue, m) \in Seq(Messages) /\ <<m>> \o queue \in Seq(Messages)
      BY <1>1, <2>3
    <3> QED BY <2>2, <3>1, <3>2
  <2>5. Placed'
    BY <1>1, <1>2, <2>1, <2>4, PlacedGives
  <2>6. Lined'
    BY <1>1, <1>2, <2>1, MovesEnding, QuietLined
  <2> QED BY <1>1, <1>2, <2>1, <2>4, <2>5, <2>6 DEF Good, Moves, MessageType, Gave
<1>4. CASE DispatchPop(a)
  <2> DEFINE m == Head(queue)
  <2>1. queue # << >> /\ queue' = Tail(queue)
    BY <1>4 DEF DispatchPop
  <2>2. /\ m \in ToSet(queue) /\ queue' \in Seq(Messages)
        /\ IsInjective(queue') /\ ToSet(queue') = ToSet(queue) \ {m}
    BY <1>1, <2>1, WithoutFirst
  <2>3. m \notin MessagesIn(stack[a])
    BY <1>1, <2>2 DEF Placed
  <2>4. Moves(a, {}, {m})
    BY <1>1, <1>4, <2>3, PopMoves
  <2> HIDE DEF m
  <2>5. Placed'
    BY <1>1, <1>2, <2>2, <2>4, PlacedTakes
  <2>6. Lined'
    BY <1>1, <1>2, <2>4, MovesEnding, QuietLined
  <2> QED BY <1>1, <1>2, <2>2, <2>4, <2>5, <2>6 DEF Good, Moves, MessageType, Gave
<1> QED BY <1>3, <1>4

\* An interrupt that empties the queue, and a refusal that the caller gets.
LEMMA GiveUpGood ==
  ASSUME IInv, ready' \in Seq(Items), NEW a \in Actors, InterruptPop(a) \/ SendRefuse(a)
  PROVE  Good'
<1>1. /\ PlainType /\ ready \in Seq(Items) /\ Stacks /\ Placed /\ Lined
      /\ ToSet(queue) \subseteq Messages
  BY Given
<1>2. UNCHANGED <<life, cancelled, accepted, sent, ready>>
  BY DEF InterruptPop, SendRefuse, turns, counts
<1>3. CASE InterruptPop(a)
  <2>1. Moves(a, {}, {})
    BY <1>1, <1>3, KeptMoves DEF PlainType, Kept
  <2>2. Lined'
    BY <1>1, <1>2, <2>1, MovesEnding, QuietLined
  <2>3. queue' = << >> /\ dropped' = dropped \cup ToSet(queue) /\ ToSet(<< >>) = {}
    BY <1>3 DEF InterruptPop, ToSet
  <2>4. \A b \in Actors : MessagesIn(stack'[b]) = MessagesIn(stack[b])
    BY <2>1 DEF Moves
  <2>5. \A m \in ToSet(queue) :
          /\ m \in Messages /\ Free(m) /\ m \notin ToSet(queue')
          /\ \A b \in Actors : m \notin MessagesIn(stack'[b])
    BY <1>1, <2>3, <2>4 DEF Placed
  <2> QED BY <1>2, <2>1, <2>2, <2>3, <2>5, DropsGood
<1>4. CASE SendRefuse(a)
  <2> DEFINE m == Top(a).m
             L == IF FromDispatch(a) THEN {} ELSE {m}
  <2>1. Moves(a, L, {}) /\ m \in MessagesIn(stack[a]) /\ m \in Messages
    BY <1>1, <1>4, RefuseMoves
  <2>2. dropped' = dropped \cup L /\ queue' = queue
    BY <1>4 DEF SendRefuse
  <2>3. Lined'
    BY <1>1, <1>2, <2>1, MovesEnding, QuietLined
  <2>4. ASSUME NEW j \in L
        PROVE  /\ j \in Messages /\ Free(j) /\ j \notin ToSet(queue')
               /\ \A b \in Actors : j \notin MessagesIn(stack'[b])
    <3>1. j = m
      OBVIOUS
    <3> HIDE DEF m, L
    <3>2. j \in Messages /\ Free(j) /\ j \notin ToSet(queue')
      BY <1>1, <2>1, <2>2, <3>1 DEF Placed
    <3>3. \A b \in Actors \ {a} : j \notin MessagesIn(stack'[b])
      BY <1>1, <2>1, <3>1 DEF Placed, Moves
    <3>4. j \notin MessagesIn(stack'[a])
      BY <2>1, <2>4 DEF Moves
    <3> QED BY <3>2, <3>3, <3>4
  <2> HIDE DEF L, m
  <2> QED BY <1>2, <2>1, <2>2, <2>3, <2>4, DropsGood
<1> QED BY <1>3, <1>4

\* A request with a message.
LEMMA AcceptGood ==
  ASSUME IInv, NEW t \in Threads, SendRequest(t) \/ QueueRequest(t)
  PROVE  Good'
<1>1. PICK l \in {"sm_lock", "qm_append"} : Accept(t, l)
  BY DEF SendRequest, QueueRequest
<1>2. /\ PlainType /\ MessageType /\ ready \in Seq(Items) /\ Stacks
      /\ Placed /\ Lined /\ Gave
  BY Given
<1> DEFINE n == accepted + 1
           f == Called(l, n)
<1>3. /\ t \in Actors /\ accepted \in Nat /\ accepted < MaxMessages /\ accepted' = n
      /\ UNCHANGED <<life, cancelled, ready, queue, sent, dropped>>
      /\ Idle(t) /\ Enter(t, f)
  BY <1>1, <1>2 DEF Accept, Request, Actors, turns, messages, PlainType
<1>4. n \in Messages /\ n \in Tasks
  BY <1>3, BoundsAssumption DEF Messages, Tasks
<1>5. f \in Frame /\ f.m = n /\ Carries(f) /\ ~Ends(f) /\ f.at # "td_wait"
  BY <1>4 DEF Called, Frame, Labels, Carries, Carrying, Ends
<1> HIDE DEF f
<1>6. Moves(t, {}, {n})
  <2>1. Moves(t, {}, IF Carries(f) THEN {f.m} ELSE {})
    BY <1>2, <1>3, <1>4, <1>5, EnterMoves
  <2> QED BY <1>5, <2>1
<1>7. Placed'
  BY <1>2, <1>3, <1>6, PlacedAccepts DEF MessageType
<1>8. Lined'
  BY <1>2, <1>3, <1>6, MovesEnding, QuietLined
<1> QED BY <1>2, <1>3, <1>6, <1>7, <1>8 DEF Good, Moves, MessageType, Gave

-----------------------------------------------------------------------------
(* The invariant holds at the start and is kept.                           *)

LEMMA InitInv == Init => IInv
<1> SUFFICES ASSUME Init PROVE IInv
  OBVIOUS
<1>1. << >> \in Seq(Messages) /\ << >> \in Seq(Items) /\ << >> \in Seq(Frame)
  OBVIOUS
<1>2. 0 \in Tasks /\ <<0>> \in Seq(Tasks)
  <2>1. 0 \in Tasks
    BY BoundsAssumption DEF Tasks
  <2> QED BY <2>1
<1>3. PlainType /\ FlagType
  <2>1. PlainType
    BY <1>2, BoundsAssumption DEF Init, PlainType
  <2>2. FlagType
    BY DEF Init, FlagType
  <2> QED BY <2>1, <2>2
<1>4. LifeType /\ MessageType /\ ready \in Seq(Items) /\ stack \in [Actors -> Seq(Frame)]
  BY <1>1, <1>2 DEF Init, LifeType, MessageType, Lives
<1>5. ToSet(<< >>) = {} /\ IsInjective(<< >>) /\ ToSet(<<0>>) = {0} /\ IsInjective(<<0>>)
  BY DEF ToSet, IsInjective
<1>6. \A a \in Actors : stack[a] = << >> /\ StackOK(stack[a]) /\ MessagesIn(stack[a]) = {}
  BY EmptyStack DEF Init, StackOK
<1>7. /\ \A m \in Messages : m \in Tasks /\ m # 0
      /\ \A k \in Tasks : k # 0 => life[k] = "none"
      /\ life[0] \in {"listen", "turn"}
  BY <1>2, BoundsAssumption DEF Init, Messages, Tasks
<1>8. Placed
  BY <1>5, <1>6, <1>7 DEF Init, Placed
<1>9. Lined
  BY EmptyStack DEF Init, Lined, Actors
<1>10. Gave
  BY <1>5, <1>7 DEF Init, Gave, Early, Unsent
<1> QED BY <1>3, <1>4, <1>8, <1>9, <1>10, TypeParts DEF IInv

LEMMA StepGood ==
  ASSUME IInv, [Next]_vars, ready' \in Seq(Items), LifeType'
  PROVE  Good'
<1>1. /\ PlainType /\ ready \in Seq(Items) /\ Stacks /\ Lined /\ task \in Tasks \cup {None}
  BY Given DEF PlainType
<1>2. \A k \in Tasks : Work(k) => Good'
  BY WorkGood
<1>3. ASSUME NEW a \in Actors, SendAcquire(a) PROVE Good'
  <2>1. Moves(a, {}, {})
    BY <1>1, <1>3, KeptMoves DEF Kept
  <2>2. UNCHANGED <<life, cancelled, accepted, sent, queue, dropped, ready>>
    BY <1>3 DEF SendAcquire, turns, messages, counts
  <2> QED BY <2>1, <2>2, QuietGood
<1>4. ASSUME NEW a \in Actors, SendRefuse(a) PROVE Good'
  BY <1>4, GiveUpGood
<1>5. ASSUME NEW a \in Actors, SendBusy(a) PROVE Good'
  <2>1. Moves(a, {}, {})
    BY <1>1, <1>5, KeptMoves DEF Kept
  <2>2. UNCHANGED <<life, cancelled, accepted, sent, queue, dropped, ready>>
    BY <1>5 DEF SendBusy, turns, messages, counts
  <2> QED BY <2>1, <2>2, QuietGood
<1>6. ASSUME NEW a \in Actors, SendUnlock(a) PROVE Good'
  <2>1. Moves(a, {}, {})
    BY <1>1, <1>6, KeptMoves DEF Kept
  <2>2. UNCHANGED <<life, cancelled, accepted, sent, queue, dropped, ready>>
    BY <1>6 DEF SendUnlock, turns, messages, counts
  <2> QED BY <2>1, <2>2, QuietGood
<1>7. ASSUME NEW a \in Actors, SendPasses(a) PROVE Good'
  <2>1. Moves(a, {}, {})
    BY <1>1, <1>7, KeptMoves DEF Kept
  <2>2. UNCHANGED <<life, cancelled, accepted, sent, queue, dropped, ready>>
    BY <1>7 DEF SendPasses, turns, messages, counts
  <2> QED BY <2>1, <2>2, QuietGood
<1>8. ASSUME NEW a \in Actors, SendFlip(a) PROVE Good'
  <2>1. Moves(a, {}, {})
    BY <1>1, <1>8, KeptMoves DEF Kept
  <2>2. UNCHANGED <<life, cancelled, accepted, sent, queue, dropped, ready>>
    BY <1>8 DEF SendFlip, turns, messages, counts
  <2> QED BY <2>1, <2>2, QuietGood
<1>9. ASSUME NEW a \in Actors, SendSchedule(a) PROVE Good'
  BY <1>9, ScheduleGood
<1>10. ASSUME NEW a \in Actors, QueueAppend(a) PROVE Good'
  BY <1>10, QueueGood
<1>11. ASSUME NEW a \in Actors, QueueCheck(a) PROVE Good'
  <2>1. Moves(a, {}, {})
    BY <1>1, <1>11, KeptMoves DEF Kept
  <2>2. UNCHANGED <<life, cancelled, accepted, sent, queue, dropped, ready>>
    BY <1>11 DEF QueueCheck, turns, messages, counts
  <2> QED BY <2>1, <2>2, QuietGood
<1>12. ASSUME NEW a \in Actors, DispatchEmpty(a) PROVE Good'
  <2>1. Moves(a, {}, {})
    BY <1>1, <1>12, KeptMoves DEF Kept
  <2>2. UNCHANGED <<life, cancelled, accepted, sent, queue, dropped, ready>>
    BY <1>12 DEF DispatchEmpty, turns, messages, counts
  <2> QED BY <2>1, <2>2, QuietGood
<1>13. ASSUME NEW a \in Actors, DispatchPop(a) PROVE Good'
  BY <1>13, QueueGood
<1>14. ASSUME NEW a \in Actors, DispatchRequeue(a) PROVE Good'
  BY <1>14, QueueGood
<1>15. ASSUME NEW a \in Actors, EmitTrim(a) PROVE Good'
  <2>1. Moves(a, {}, {})
    BY <1>1, <1>15, KeptMoves DEF Kept
  <2>2. UNCHANGED <<life, cancelled, accepted, sent, queue, dropped, ready>>
    BY <1>15 DEF EmitTrim, turns, messages, counts
  <2> QED BY <2>1, <2>2, QuietGood
<1>16. ASSUME NEW a \in Actors, EmitCheck(a) PROVE Good'
  <2>1. Moves(a, {}, {})
    BY <1>1, <1>16, KeptMoves DEF Kept
  <2>2. UNCHANGED <<life, cancelled, accepted, sent, queue, dropped, ready>>
    BY <1>16 DEF EmitCheck, turns, messages, counts
  <2> QED BY <2>1, <2>2, QuietGood
<1>17. ASSUME NEW a \in Actors, EmitTimer(a) PROVE Good'
  <2>1. Moves(a, {}, {})
    BY <1>1, <1>17, KeptMoves DEF Kept
  <2>2. UNCHANGED <<life, cancelled, accepted, sent, queue, dropped, ready>>
    BY <1>17 DEF EmitTimer, turns, messages, counts
  <2> QED BY <2>1, <2>2, QuietGood
<1>18. ASSUME NEW a \in Actors, ReemitCheck(a) PROVE Good'
  <2>1. Moves(a, {}, {})
    BY <1>1, <1>18, KeptMoves DEF Kept
  <2>2. UNCHANGED <<life, cancelled, accepted, sent, queue, dropped, ready>>
    BY <1>18 DEF ReemitCheck, turns, messages, counts
  <2> QED BY <2>1, <2>2, QuietGood
<1>19. ASSUME NEW a \in Actors, InterruptPop(a) PROVE Good'
  BY <1>19, GiveUpGood
<1>20. ASSUME NEW a \in Actors, InterruptFlag(a) PROVE Good'
  <2>1. Moves(a, {}, {})
    BY <1>1, <1>20, KeptMoves DEF Kept
  <2>2. UNCHANGED <<life, cancelled, accepted, sent, queue, dropped, ready>>
    BY <1>20 DEF InterruptFlag, turns, messages, counts
  <2> QED BY <2>1, <2>2, QuietGood
<1>21. ASSUME NEW a \in Actors, InterruptIdle(a) PROVE Good'
  <2>1. Moves(a, {}, {})
    BY <1>1, <1>21, KeptMoves DEF Kept
  <2>2. UNCHANGED <<life, cancelled, accepted, sent, queue, dropped, ready>>
    BY <1>21 DEF InterruptIdle, turns, messages, counts
  <2> QED BY <2>1, <2>2, QuietGood
<1>22. ASSUME NEW a \in Actors, InterruptCapture(a) PROVE Good'
  <2>1. Moves(a, {}, {})
    BY <1>1, <1>22, KeptMoves DEF Kept
  <2>2. UNCHANGED <<life, cancelled, accepted, sent, queue, dropped, ready>>
    BY <1>22 DEF InterruptCapture, turns, messages, counts
  <2> QED BY <2>1, <2>2, QuietGood
<1>23. ASSUME NEW a \in Actors, InterruptSchedule(a) PROVE Good'
  <2> DEFINE e == Item("spawn_interrupt", Top(a).x)
  <2>1. Moves(a, {}, {})
    BY <1>1, <1>23, KeptMoves DEF Kept
  <2>2. e \in Items /\ ~Special(e)
    <3>1. Top(a).x \in Tasks \cup {None}
      BY <1>1, <1>23, AtTop DEF InterruptSchedule, Frame
    <3> QED BY <3>1 DEF Item, Items, Calls, Special
  <2>3. /\ UNCHANGED <<life, cancelled, accepted, sent, queue, dropped>>
        /\ ready' = ready \o <<e>>
    BY <1>23 DEF InterruptSchedule, Post, turns, messages, counts
  <2> HIDE DEF e
  <2> QED BY <2>1, <2>2, <2>3, QuietGood
<1>24. CASE SpawnTurn
  <2>1. Head(ready).x \in Tasks
    BY <1>1, <1>24, Spawner
  <2>2. Work(Head(ready).x)
    BY <1>24 DEF Work
  <2> QED BY <2>1, <2>2, WorkGood
<1>25. CASE SpawnOther
  <2>1. ready # << >> /\ Head(ready).x \in Tasks \cup {None}
    BY <1>1, <1>25, Running DEF SpawnOther, Runs
  <2>2. /\ UNCHANGED <<life, cancelled, accepted, sent, queue, dropped, stack>>
        /\ \E d \in {"interrupt", "close"}, x \in Tasks \cup {None} :
             ready' = Append(Taken, Item(d, x))
    BY <1>25, <2>1 DEF SpawnOther, turns, messages, counts
  <2>3. \A d \in {"interrupt", "close"}, x \in Tasks \cup {None} :
          Item(d, x) \in Items /\ ~Special(Item(d, x))
    BY DEF Item, Items, Calls, Special
  <2>4. \E e \in Items : ~Special(e) /\ ready' = Append(Taken, e)
    BY <2>2, <2>3
  <2>5. Moves(Loop, {}, {}) /\ Loop \in Actors
    BY <1>1, <2>2, StayMoves DEF Actors
  <2> QED BY <2>1, <2>2, <2>4, <2>5, QuietGood
<1>26. CASE CancelCallback
  <2>1. Runs("cancel")
    BY <1>26 DEF CancelCallback
  <2>2. ready # << >> /\ stack[Loop] = << >> /\ Head(ready).x \in Tasks \cup {None}
    BY <1>1, <2>1, Running
  <2>3. UNCHANGED <<life, stack, accepted, sent, queue, dropped>>
    BY <1>26 DEF CancelCallback, turns, messages, counts
  <2>4. \E k \in Tasks \cup {None} : Cancels(k, Taken) \/ (ready' = Taken /\ UNCHANGED cancelled)
    BY <1>1, <1>26, <2>2 DEF CancelCallback
  <2> QED BY <2>2, <2>3, <2>4, CancelGood
<1>27. CASE InterruptCallback
  <2>1. Runs("interrupt")
    BY <1>27 DEF InterruptCallback
  <2>2. ready # << >> /\ stack[Loop] = << >> /\ Head(ready).x \in Tasks \cup {None}
    BY <1>1, <2>1, Running
  <2>3. UNCHANGED <<life, stack, accepted, sent, queue, dropped>>
    BY <1>27 DEF InterruptCallback, turns, messages, counts
  <2>4. \E k \in Tasks \cup {None} : Cancels(k, Taken) \/ (ready' = Taken /\ UNCHANGED cancelled)
    BY <1>1, <1>27, <2>2 DEF InterruptCallback
  <2> QED BY <2>2, <2>3, <2>4, CancelGood
<1>28. CASE CloseCallback
  <2>1. Runs("close")
    BY <1>28 DEF CloseCallback
  <2>2. ready # << >> /\ stack[Loop] = << >> /\ Head(ready).x \in Tasks \cup {None}
    BY <1>1, <2>1, Running
  <2>3. UNCHANGED <<life, stack, accepted, sent, queue, dropped>>
    BY <1>28 DEF CloseCallback, turns, messages, counts
  <2>4. \E k \in Tasks \cup {None} : Cancels(k, Taken) \/ (ready' = Taken /\ UNCHANGED cancelled)
    BY <1>1, <1>28, <2>2 DEF CloseCallback
  <2> QED BY <2>2, <2>3, <2>4, CancelGood
<1>29. CASE CloseEnds
  <2> DEFINE e == Called("es_trim", 0)
  <2>1. e \in Frame /\ e.at = "es_trim" /\ ~Carries(e) /\ ~Ends(e)
    BY BoundsAssumption DEF Called, Frame, Labels, Tasks, Carries, Carrying, Ends
  <2> HIDE DEF e
  <2>2. /\ UNCHANGED <<life, cancelled, accepted, sent, queue, dropped, ready>>
        /\ Idle(Loop) /\ Enter(Loop, e) /\ Loop \in Actors
    BY <1>29 DEF CloseEnds, e, turns, messages, counts, Actors, LoopFree
  <2>3. Moves(Loop, {}, {})
    BY <1>1, <2>1, <2>2, EnterMoves
  <2> QED BY <2>2, <2>3, QuietGood
<1>30. CASE CloseRequest
  <2> DEFINE e == Item("spawn_close", None)
  <2>1. e \in Items /\ ~Special(e)
    BY DEF Item, Items, Calls, Special
  <2>2. /\ UNCHANGED <<life, cancelled, accepted, sent, queue, dropped, stack>>
        /\ ready' = ready \o <<e>>
    BY <1>30 DEF CloseRequest, Post, turns, messages
  <2> HIDE DEF e
  <2>3. Moves(Loop, {}, {}) /\ Loop \in Actors
    BY <1>1, <2>2, StayMoves DEF Actors
  <2> QED BY <2>1, <2>2, <2>3, QuietGood
<1>31. ASSUME NEW d \in Timers, ReemitFires(d) PROVE Good'
  <2> DEFINE e == Called("re_check", 0)
  <2>1. e \in Frame /\ e.at = "re_check" /\ ~Carries(e) /\ ~Ends(e)
    BY BoundsAssumption DEF Called, Frame, Labels, Tasks, Carries, Carrying, Ends
  <2> HIDE DEF e
  <2>2. /\ UNCHANGED <<life, cancelled, accepted, sent, queue, dropped, ready>>
        /\ Idle(d) /\ Enter(d, e) /\ d \in Actors
    BY <1>31 DEF ReemitFires, e, turns, messages, counts, Actors
  <2>3. Moves(d, {}, {})
    BY <1>1, <2>1, <2>2, EnterMoves
  <2> QED BY <2>2, <2>3, QuietGood
<1>32. ASSUME NEW t \in Threads, SendRequest(t) \/ QueueRequest(t) PROVE Good'
  BY <1>32, AcceptGood
<1>33. ASSUME NEW t \in Threads, InterruptRequest(t) PROVE Good'
  <2> DEFINE e == Called("in_pop", 0)
  <2>1. e \in Frame /\ e.at = "in_pop" /\ ~Carries(e) /\ ~Ends(e)
    BY BoundsAssumption DEF Called, Frame, Labels, Tasks, Carries, Carrying, Ends
  <2> HIDE DEF e
  <2>2. /\ UNCHANGED <<life, cancelled, accepted, sent, queue, dropped, ready>>
        /\ Idle(t) /\ Enter(t, e) /\ t \in Actors
    BY <1>33 DEF InterruptRequest, e, turns, messages, counts, Actors, Request
  <2>3. Moves(t, {}, {})
    BY <1>1, <2>1, <2>2, EnterMoves
  <2> QED BY <2>2, <2>3, QuietGood
<1>34. CASE UNCHANGED vars
  <2>1. UNCHANGED <<life, cancelled, accepted, sent, queue, dropped, stack, ready>>
    BY <1>34 DEF vars
  <2>2. Moves(Loop, {}, {}) /\ Loop \in Actors
    BY <1>1, <2>1, StayMoves DEF Actors
  <2> QED BY <2>1, <2>2, QuietGood
<1> QED
  BY <1>2, <1>3, <1>4, <1>5, <1>6, <1>7, <1>8, <1>9, <1>10, <1>11, <1>12, <1>13, <1>14,
     <1>15, <1>16, <1>17, <1>18, <1>19, <1>20, <1>21, <1>22, <1>23, <1>24, <1>25,
     <1>26, <1>27, <1>28, <1>29, <1>30, <1>31, <1>32, <1>33, <1>34
     DEF Next, Step, LoopStep, Awaited, Trouble, Requests, Work

LEMMA StepInv ==
  ASSUME IInv, [Next]_vars
  PROVE  IInv'
<1>1. /\ PlainType /\ FlagType /\ LifeType /\ ready \in Seq(Items) /\ Stacks /\ Lined
  BY Given
<1>2. PlainType' /\ FlagType' /\ LifeType' /\ ready' \in Seq(Items)
  BY <1>1, PlainStep, FlagStep, LifeStep, LineStep
<1>3. Good'
  BY <1>2, StepGood
<1>4. TypeOK'
  <2>1. MessageType' /\ stack' \in [Actors -> Seq(Frame)]
    BY <1>3 DEF Good
  <2> QED BY <1>2, <2>1, Zenon DEF TypeOK, PlainType, FlagType, LifeType, MessageType, Items
<1> QED BY <1>3, <1>4 DEF IInv, Good

\* The invariant the theorems below rest on holds in every state that is reached.
THEOREM Invariant == Spec => []IInv
<1>1. Init => IInv
  BY InitInv
<1>2. IInv /\ [Next]_vars => IInv'
  BY StepInv
<1> QED BY <1>1, <1>2, PTL DEF Spec

\* The session, its coroutines, the line of callbacks and the stacks of every thread
\* stay in their ranges.
THEOREM TypeCorrect == Spec => []TypeOK
<1>1. IInv => TypeOK
  BY DEF IInv
<1> QED BY <1>1, Invariant, PTL

\* A message goes to the CLI once at most, and never one that an interrupt or a
\* failure took away or that the queue still has: from the call that brought it a
\* message is carried by one frame of one stack, or waits in the queue, or has the one
\* coroutine that sends it.
THEOREM SentOnceHolds == Spec => []SentOnce
<1>1. IInv => SentOnce
  <2>1. SUFFICES ASSUME IInv PROVE SentOnce
    OBVIOUS
  <2>2. Gave /\ Placed
    BY <2>1 DEF IInv
  <2> QED BY <2>2 DEF SentOnce, Gave, Placed, Free
<1> QED BY <1>1, Invariant, PTL

\* A coroutine that info.task no longer points to leaves the state of the session
\* alone, whether its stream ends, its CancelledError arrives or its cleanup runs.
THEOREM StaleHandsOffHolds == Spec => StaleHandsOff
<1>1. ASSUME IInv, NEW k \in Tasks, task # k, life[k] \notin {"prep", "broken", "mend"},
             Awaited(k) \/ Thrown(k) \/ Catch(k)
      PROVE  state' = state
  <2> USE <1>1 DEF Bailing, Touches, Handler, Waits
  <2>1. CASE Thrown(k)
    <3>1. life[k] \in Throwable
      BY <2>1, Given, Thrower
    <3> QED BY <2>1, <3>1 DEF Thrown, Throwable
  <2>2. CASE Catch(k)
    BY <2>2 DEF Catch
  <2>3. CASE Awaited(k)
    BY <2>3 DEF Awaited, Reconnected, QuerySent, TurnResult, TurnSettles, DrainEnds,
                ResumedResult, EndedWithoutResult, Mend, Mended, Unwound, SnapshotDone
  <2> QED BY <2>1, <2>2, <2>3
<1>2. IInv => [\A k \in Tasks : task # k /\ life[k] \notin {"prep", "broken", "mend"}
                 /\ (Awaited(k) \/ Thrown(k) \/ Catch(k)) => state' = state]_vars
  BY <1>1
<1> QED BY <1>2, Invariant, PTL DEF StaleHandsOff

-----------------------------------------------------------------------------
(* As long as nobody has called interrupt_session.                         *)

-----------------------------------------------------------------------------
(* Info._lock and the frames that the arguments below follow.              *)

\* The frames of send_message between its acquire and its release of info._lock.
Owning   == {"sm_check", "sm_flip", "sm_unlock"}
Owns(S)  == \E f \in S : f.at \in Owning
OwnsOnce(s) == \A i, j \in DOMAIN s : s[i].at \in Owning /\ s[j].at \in Owning => i = j
\* The block at the end of a coroutine is called by nobody.
EndsLast(s) == \A i \in DOMAIN s : Ends(s[i]) => i = Len(s)

Tidy == \A a \in Actors :
  /\ OwnsOnce(stack[a]) /\ EndsLast(stack[a])
  /\ Owns(ToSet(stack[a])) => lock = a
  /\ a # Loop => \A f \in ToSet(stack[a]) : ~Ends(f)

\* The frames that decide who has the session.
Interrupting == {"in_pop", "in_flag", "in_idle", "in_capture", "in_schedule"}
KeyLabels == {"sm_flip", "sm_schedule", "tk_catch", "tk_final"} \cup Interrupting
KeyIn(S)  == {f \in S : f.at \in KeyLabels}
Keys      == KeyIn(UNION {ToSet(stack[a]) : a \in Actors})

\* What a push does to the frames of a stack.
LEMMA PushFrames ==
  ASSUME NEW s \in Seq(Frame), NEW f \in Frame
  PROVE  /\ ToSet(<<f>> \o s) = {f} \cup ToSet(s)
         /\ OwnsOnce(<<f>> \o s) <=> OwnsOnce(s) /\ (f.at \in Owning => ~Owns(ToSet(s)))
         /\ EndsLast(<<f>> \o s) <=> EndsLast(s) /\ (Ends(f) => s = << >>)
<1> DEFINE t == <<f>> \o s
<1>1. /\ t[1] = f /\ 1 \in DOMAIN t /\ Len(t) = Len(s) + 1
      /\ DOMAIN t = 1 .. Len(s) + 1 /\ DOMAIN s = 1 .. Len(s) /\ Len(s) \in Nat
      /\ \A i \in DOMAIN s : i + 1 \in DOMAIN t /\ t[i + 1] = s[i]
      /\ \A i \in DOMAIN t : i = 1 \/ (i - 1 \in DOMAIN s /\ t[i] = s[i - 1])
  BY Push
<1>2. s = << >> <=> Len(s) = 0
  OBVIOUS
<1> HIDE DEF t
<1>3. ToSet(t) = {f} \cup ToSet(s)
  BY <1>1 DEF ToSet
<1>4. OwnsOnce(t) <=> OwnsOnce(s) /\ (f.at \in Owning => ~Owns(ToSet(s)))
  <2>1. ASSUME OwnsOnce(t) PROVE OwnsOnce(s) /\ (f.at \in Owning => ~Owns(ToSet(s)))
    <3>1. OwnsOnce(s)
      BY <1>1, <2>1 DEF OwnsOnce
    <3>2. ASSUME f.at \in Owning, Owns(ToSet(s)) PROVE FALSE
      <4>1. PICK i \in DOMAIN s : s[i].at \in Owning
        BY <3>2 DEF Owns, ToSet
      <4> QED BY <1>1, <2>1, <3>2, <4>1 DEF OwnsOnce
    <3> QED BY <3>1, <3>2
  <2>2. ASSUME OwnsOnce(s), f.at \in Owning => ~Owns(ToSet(s)) PROVE OwnsOnce(t)
    <3>1. SUFFICES ASSUME NEW i \in DOMAIN t, NEW j \in DOMAIN t,
                          t[i].at \in Owning, t[j].at \in Owning
                   PROVE  i = j
      BY DEF OwnsOnce
    <3>2. CASE i = 1 /\ j # 1
      BY <1>1, <2>2, <3>1, <3>2 DEF Owns, ToSet
    <3>3. CASE i # 1 /\ j = 1
      BY <1>1, <2>2, <3>1, <3>3 DEF Owns, ToSet
    <3>4. CASE i # 1 /\ j # 1
      BY <1>1, <2>2, <3>1, <3>4 DEF OwnsOnce
    <3> QED BY <3>2, <3>3, <3>4
  <2> QED BY <2>1, <2>2
<1>5. EndsLast(t) <=> EndsLast(s) /\ (Ends(f) => s = << >>)
  <2>1. ASSUME EndsLast(t) PROVE EndsLast(s) /\ (Ends(f) => s = << >>)
    <3>1. ASSUME NEW i \in DOMAIN s, Ends(s[i]) PROVE i = Len(s)
      <4>1. i + 1 \in DOMAIN t /\ Ends(t[i + 1])
        BY <1>1, <3>1
      <4>2. i + 1 = Len(t)
        BY <2>1, <4>1 DEF EndsLast
      <4> QED BY <1>1, <4>2
    <3>2. Ends(f) => 1 = Len(t)
      BY <1>1, <2>1 DEF EndsLast
    <3> QED BY <1>1, <1>2, <3>1, <3>2 DEF EndsLast
  <2>2. ASSUME EndsLast(s), Ends(f) => s = << >> PROVE EndsLast(t)
    <3>1. SUFFICES ASSUME NEW i \in DOMAIN t, Ends(t[i]) PROVE i = Len(t)
      BY DEF EndsLast
    <3>2. CASE i = 1
      BY <1>1, <1>2, <2>2, <3>1, <3>2
    <3>3. CASE i # 1
      <4>1. i - 1 \in DOMAIN s /\ Ends(s[i - 1])
        BY <1>1, <3>1, <3>3
      <4>2. i - 1 = Len(s)
        BY <2>2, <4>1 DEF EndsLast
      <4> QED BY <1>1, <4>2
    <3> QED BY <3>2, <3>3
  <2> QED BY <2>1, <2>2
<1> QED BY <1>3, <1>4, <1>5 DEF t

LEMMA NoFrames ==
  << >> \in Seq(Frame) /\ ToSet(<< >>) = {} /\ OwnsOnce(<< >>) /\ EndsLast(<< >>)
BY DEF ToSet, OwnsOnce, EndsLast

\* A stack that is not empty.
LEMMA PopFrames ==
  ASSUME NEW s \in Seq(Frame), s # << >>, OwnsOnce(s), EndsLast(s)
  PROVE  /\ Head(s) \in Frame /\ Tail(s) \in Seq(Frame)
         /\ ToSet(s) = {Head(s)} \cup ToSet(Tail(s))
         /\ OwnsOnce(Tail(s)) /\ EndsLast(Tail(s))
         /\ Head(s).at \in Owning => ~Owns(ToSet(Tail(s)))
         /\ Ends(Head(s)) => Tail(s) = << >>
<1> DEFINE h == Head(s)
           r == Tail(s)
<1>1. h \in Frame /\ r \in Seq(Frame) /\ s = <<h>> \o r
  BY Pop
<1> HIDE DEF h, r
<1>2. /\ ToSet(s) = {h} \cup ToSet(r)
      /\ OwnsOnce(s) <=> OwnsOnce(r) /\ (h.at \in Owning => ~Owns(ToSet(r)))
      /\ EndsLast(s) <=> EndsLast(r) /\ (Ends(h) => r = << >>)
  BY <1>1, PushFrames
<1> QED BY <1>1, <1>2 DEF h, r

-----------------------------------------------------------------------------
(* A step takes the frames Q off the top of a stack and leaves those of P.  *)

Swaps(a, Q, P) ==
  /\ stack' \in [Actors -> Seq(Frame)]
  /\ \A b \in Actors \ {a} : stack'[b] = stack[b]
  /\ OwnsOnce(stack'[a]) /\ EndsLast(stack'[a])
  /\ \E R : /\ ToSet(stack[a]) = Q \cup R /\ ToSet(stack'[a]) = P \cup R
            /\ Owns(Q) => ~Owns(R)

Tidied(a) ==
  /\ stack \in [Actors -> Seq(Frame)]
  /\ stack[a] # << >> /\ OwnsOnce(stack[a]) /\ EndsLast(stack[a])

\* The top frame goes on at another line.
LEMMA GotoSwaps ==
  ASSUME NEW a \in Actors, Tidied(a), NEW l \in Labels, Goto(a, l),
         l \notin {"tk_catch", "tk_final"},
         l \in Owning => Top(a).at \in Owning \/ (lock # a /\ Tidy)
  PROVE  Swaps(a, {Top(a)}, {[Top(a) EXCEPT !.at = l]})
<1> DEFINE s == stack[a]
           g == [Head(s) EXCEPT !.at = l]
<1>1. /\ s \in Seq(Frame) /\ s # << >> /\ Head(s) \in Frame /\ Tail(s) \in Seq(Frame)
      /\ ToSet(s) = {Head(s)} \cup ToSet(Tail(s))
      /\ OwnsOnce(Tail(s)) /\ EndsLast(Tail(s))
      /\ Head(s).at \in Owning => ~Owns(ToSet(Tail(s)))
  BY PopFrames DEF Tidied
<1>2. g \in Frame /\ g.at = l
  BY <1>1 DEF Frame
<1>3. /\ <<g>> \o Tail(s) \in Seq(Frame)
      /\ stack' = [stack EXCEPT ![a] = <<g>> \o Tail(s)]
  BY <1>1, <1>2 DEF Goto
<1>4. stack' \in [Actors -> Seq(Frame)] /\ stack'[a] = <<g>> \o Tail(s)
      /\ \A b \in Actors \ {a} : stack'[b] = stack[b]
  BY <1>3 DEF Tidied
<1> HIDE DEF g, s
<1>5. l \in Owning => ~Owns(ToSet(Tail(s)))
  BY <1>1 DEF Top, s, Tidy, Owns
<1>6. /\ ToSet(<<g>> \o Tail(s)) = {g} \cup ToSet(Tail(s))
      /\ OwnsOnce(<<g>> \o Tail(s)) /\ EndsLast(<<g>> \o Tail(s))
  BY <1>1, <1>2, <1>5, PushFrames DEF Ends
<1>7. Owns({Head(s)}) => ~Owns(ToSet(Tail(s)))
  BY <1>1 DEF Owns
<1>8. Swaps(a, {Head(s)}, {g})
  BY <1>1, <1>4, <1>6, <1>7 DEF Swaps, s
<1> QED BY <1>8 DEF g, s, Top

\* The top frame is gone.
LEMMA ReturnSwaps ==
  ASSUME NEW a \in Actors, Tidied(a), Return(a)
  PROVE  Swaps(a, {Top(a)}, {})
<1> DEFINE s == stack[a]
<1>1. /\ s \in Seq(Frame) /\ s # << >> /\ Head(s) \in Frame /\ Tail(s) \in Seq(Frame)
      /\ ToSet(s) = {Head(s)} \cup ToSet(Tail(s))
      /\ OwnsOnce(Tail(s)) /\ EndsLast(Tail(s))
      /\ Head(s).at \in Owning => ~Owns(ToSet(Tail(s)))
  BY PopFrames DEF Tidied
<1>2. stack' \in [Actors -> Seq(Frame)] /\ stack'[a] = Tail(s)
      /\ \A b \in Actors \ {a} : stack'[b] = stack[b]
  BY <1>1 DEF Tidied, Return
<1>3. Owns({Head(s)}) => ~Owns(ToSet(Tail(s)))
  BY <1>1 DEF Owns
<1> QED BY <1>1, <1>2, <1>3 DEF Swaps, Top

\* The top frame becomes g and calls f.
LEMMA CallSwaps ==
  ASSUME NEW a \in Actors, Tidied(a), NEW f \in Frame, NEW g \in Frame,
         stack' = [stack EXCEPT ![a] = <<f, g>> \o Tail(@)],
         ~Ends(f), ~Ends(g), f.at \notin Owning, g.at \in Owning => Top(a).at \in Owning
  PROVE  Swaps(a, {Top(a)}, {f, g})
<1> DEFINE s == stack[a]
<1>1. /\ s \in Seq(Frame) /\ s # << >> /\ Head(s) \in Frame /\ Tail(s) \in Seq(Frame)
      /\ ToSet(s) = {Head(s)} \cup ToSet(Tail(s))
      /\ OwnsOnce(Tail(s)) /\ EndsLast(Tail(s))
      /\ Head(s).at \in Owning => ~Owns(ToSet(Tail(s)))
  BY PopFrames DEF Tidied
<1> DEFINE t == <<g>> \o Tail(s)
<1>2. t \in Seq(Frame) /\ <<f>> \o t \in Seq(Frame) /\ <<f, g>> \o Tail(s) = <<f>> \o t
  <2>1. t \in Seq(Frame)
    BY <1>1, Push
  <2>2. <<f>> \o t \in Seq(Frame)
    BY <2>1, Push
  <2> QED BY <1>1, <2>1, <2>2, PushTwo
<1>3. stack' = [stack EXCEPT ![a] = <<f>> \o t]
  BY <1>2
<1>4. stack' \in [Actors -> Seq(Frame)] /\ stack'[a] = <<f>> \o t
      /\ \A b \in Actors \ {a} : stack'[b] = stack[b]
  BY <1>2, <1>3 DEF Tidied
<1>5. ToSet(t) = {g} \cup ToSet(Tail(s)) /\ OwnsOnce(t) /\ EndsLast(t)
  <2>1. g.at \in Owning => ~Owns(ToSet(Tail(s)))
    BY <1>1 DEF Top
  <2> QED BY <1>1, <2>1, PushFrames
<1> HIDE DEF t
<1>6. ToSet(<<f>> \o t) = {f} \cup ToSet(t) /\ OwnsOnce(<<f>> \o t) /\ EndsLast(<<f>> \o t)
  BY <1>2, <1>5, PushFrames
<1>7. Owns({Head(s)}) => ~Owns(ToSet(Tail(s)))
  BY <1>1 DEF Owns
<1>8. ToSet(<<f>> \o t) = {f, g} \cup ToSet(Tail(s))
  BY <1>5, <1>6
<1> QED BY <1>1, <1>4, <1>6, <1>7, <1>8 DEF Swaps, Top

\* send_message returns, with the dispatch that called it when there is one.
LEMMA SentSwaps ==
  ASSUME Stacks, NEW a \in Actors, Tidied(a), ReturnSent(a)
  PROVE  \/ Swaps(a, {Top(a)}, {})
         \/ \E w \in Frame : w.at = "td_wait" /\ Swaps(a, {Top(a), w}, {})
<1>1. CASE FromDispatch(a)
  <2> DEFINE r == Tail(stack[a])
  <2>1. stack' = [stack EXCEPT ![a] = Tail(Tail(@))]
    BY <1>1 DEF ReturnSent
  <2>2. r \in Seq(Frame) /\ r # << >> /\ Head(r) \in Frame /\ Head(r).at = "td_wait"
    BY <1>1, DispatchBelow DEF Tidied
  <2>3. /\ ToSet(stack[a]) = {Head(stack[a])} \cup ToSet(r) /\ OwnsOnce(r) /\ EndsLast(r)
        /\ Head(stack[a]).at \in Owning => ~Owns(ToSet(r))
    BY PopFrames DEF Tidied
  <2>4. /\ Tail(r) \in Seq(Frame) /\ ToSet(r) = {Head(r)} \cup ToSet(Tail(r))
        /\ OwnsOnce(Tail(r)) /\ EndsLast(Tail(r))
    <3> HIDE DEF r
    <3> QED BY <2>2, <2>3, PopFrames
  <2>5. stack' \in [Actors -> Seq(Frame)] /\ stack'[a] = Tail(r)
        /\ \A b \in Actors \ {a} : stack'[b] = stack[b]
    BY <2>1, <2>4 DEF Tidied
  <2> HIDE DEF r
  <2>6. ToSet(stack[a]) = {Top(a), Head(r)} \cup ToSet(Tail(r))
    BY <2>3, <2>4 DEF Top
  <2>7. Owns({Top(a), Head(r)}) => ~Owns(ToSet(Tail(r)))
    BY <2>2, <2>3, <2>4 DEF Top, Owns, Owning
  <2>8. Swaps(a, {Top(a), Head(r)}, {})
    BY <2>4, <2>5, <2>6, <2>7 DEF Swaps
  <2> QED BY <2>2, <2>8
<1>2. CASE ~FromDispatch(a)
  <2>1. Return(a)
    BY <1>2 DEF ReturnSent, Return
  <2> QED BY <2>1, ReturnSwaps
<1> QED BY <1>1, <1>2

\* send_message has refused; a dispatch goes on with the refusal.
LEMMA RefusedSwaps ==
  ASSUME Stacks, NEW a \in Actors, Tidied(a), ReturnRefused(a)
  PROVE  \/ Swaps(a, {Top(a)}, {})
         \/ \E w, g \in Frame : /\ w.at = "td_wait" /\ g.at = "td_refused"
                                /\ Swaps(a, {Top(a), w}, {g})
<1>1. CASE FromDispatch(a)
  <2> DEFINE r == Tail(stack[a])
             g == [stack[a][2] EXCEPT !.at = "td_refused"]
  <2>1. stack' = [stack EXCEPT ![a] = <<g>> \o Tail(Tail(@))]
    BY <1>1 DEF ReturnRefused
  <2>2. /\ r \in Seq(Frame) /\ r # << >> /\ Head(r) \in Frame /\ Head(r).at = "td_wait"
        /\ stack[a][2] \in Frame
    BY <1>1, DispatchBelow DEF Tidied
  <2>3. g \in Frame /\ g.at = "td_refused"
    BY <2>2 DEF Frame, Labels
  <2>4. /\ ToSet(stack[a]) = {Head(stack[a])} \cup ToSet(r) /\ OwnsOnce(r) /\ EndsLast(r)
        /\ Head(stack[a]).at \in Owning => ~Owns(ToSet(r))
    BY PopFrames DEF Tidied
  <2>5. /\ Tail(r) \in Seq(Frame) /\ ToSet(r) = {Head(r)} \cup ToSet(Tail(r))
        /\ OwnsOnce(Tail(r)) /\ EndsLast(Tail(r))
    <3> HIDE DEF r
    <3> QED BY <2>2, <2>4, PopFrames
  <2> HIDE DEF g
  <2>6. stack' = [stack EXCEPT ![a] = <<g>> \o Tail(r)]
    BY <2>1
  <2> HIDE DEF r
  <2>7. /\ <<g>> \o Tail(r) \in Seq(Frame)
        /\ ToSet(<<g>> \o Tail(r)) = {g} \cup ToSet(Tail(r))
        /\ OwnsOnce(<<g>> \o Tail(r)) /\ EndsLast(<<g>> \o Tail(r))
    BY <2>3, <2>5, Push, PushFrames DEF Owning, Ends
  <2>8. stack' \in [Actors -> Seq(Frame)] /\ stack'[a] = <<g>> \o Tail(r)
        /\ \A b \in Actors \ {a} : stack'[b] = stack[b]
    BY <2>6, <2>7 DEF Tidied
  <2>9. ToSet(stack[a]) = {Top(a), Head(r)} \cup ToSet(Tail(r))
    BY <2>4, <2>5 DEF Top
  <2>10. Owns({Top(a), Head(r)}) => ~Owns(ToSet(Tail(r)))
    BY <2>2, <2>4, <2>5 DEF Top, Owns, Owning
  <2>11. Swaps(a, {Top(a), Head(r)}, {g})
    BY <2>7, <2>8, <2>9, <2>10 DEF Swaps
  <2> QED BY <2>2, <2>3, <2>11
<1>2. CASE ~FromDispatch(a)
  <2>1. Return(a)
    BY <1>2 DEF ReturnRefused, Return
  <2> QED BY <2>1, ReturnSwaps
<1> QED BY <1>1, <1>2

LEMMA SingleFrame ==
  ASSUME NEW f \in Frame
  PROVE  /\ <<f>> \in Seq(Frame) /\ ToSet(<<f>>) = {f} /\ <<f>> \o << >> = <<f>>
         /\ OwnsOnce(<<f>>) /\ EndsLast(<<f>>)
<1>1. <<f>> \in Seq(Frame) /\ <<f>> \o << >> = <<f>>
  OBVIOUS
<1>2. << >> \in Seq(Frame) /\ ~Owns(ToSet(<< >>))
  BY NoFrames DEF Owns
<1>3. /\ ToSet(<<f>> \o << >>) = {f} \cup ToSet(<< >>)
      /\ OwnsOnce(<<f>> \o << >>) /\ EndsLast(<<f>> \o << >>)
  BY <1>2, NoFrames, PushFrames
<1> QED BY <1>1, <1>3, NoFrames

\* A call begins on an actor that was idle.
LEMMA EnterSwaps ==
  ASSUME stack \in [Actors -> Seq(Frame)], NEW a \in Actors, Idle(a), NEW f \in Frame,
         Enter(a, f)
  PROVE  Swaps(a, {}, {f})
<1>1. stack[a] = << >> /\ stack' = [stack EXCEPT ![a] = <<f>> \o << >>]
  BY DEF Enter, Idle
<1>2. <<f>> \o << >> \in Seq(Frame) /\ ToSet(<<f>> \o << >>) = {f}
      /\ OwnsOnce(<<f>> \o << >>) /\ EndsLast(<<f>> \o << >>)
  BY SingleFrame
<1>3. stack' \in [Actors -> Seq(Frame)] /\ stack'[a] = <<f>> \o << >>
      /\ \A b \in Actors \ {a} : stack'[b] = stack[b]
  BY <1>1, <1>2
<1> QED BY <1>1, <1>2, <1>3, NoFrames DEF Swaps, Owns

\* What the frames that change say of the key frames of all stacks, and of the lock.
LEMMA SwapsKeys ==
  ASSUME NEW a \in Actors, NEW Q, NEW P, Swaps(a, Q, P)
  PROVE  Keys' \subseteq Keys \cup KeyIn(P) /\ Keys \subseteq Keys' \cup KeyIn(Q)
<1>1. PICK R : ToSet(stack[a]) = Q \cup R /\ ToSet(stack'[a]) = P \cup R
  BY DEF Swaps
<1>2. \A b \in Actors \ {a} : stack'[b] = stack[b]
  BY DEF Swaps
<1>3. ASSUME NEW f, f \in Keys' PROVE f \in Keys \cup KeyIn(P)
  <2>1. PICK b \in Actors : f \in ToSet(stack'[b]) /\ f.at \in KeyLabels
    BY <1>3 DEF Keys, KeyIn
  <2> QED BY <1>1, <1>2, <2>1 DEF Keys, KeyIn
<1>4. ASSUME NEW f, f \in Keys PROVE f \in Keys' \cup KeyIn(Q)
  <2>1. PICK b \in Actors : f \in ToSet(stack[b]) /\ f.at \in KeyLabels
    BY <1>4 DEF Keys, KeyIn
  <2> QED BY <1>1, <1>2, <2>1 DEF Keys, KeyIn
<1> QED BY <1>3, <1>4

LEMMA SwapsTidy ==
  ASSUME Tidy, NEW a \in Actors, NEW Q, NEW P, Swaps(a, Q, P),
         a # Loop => \A f \in P : ~Ends(f),
         \/ ~Owns(P) /\ lock' = lock
         \/ Owns(Q) /\ lock' = lock
         \/ Owns(Q) /\ ~Owns(P) /\ lock' = None
         \/ lock = None /\ lock' = a
  PROVE  Tidy'
<1>1. PICK R : /\ ToSet(stack[a]) = Q \cup R /\ ToSet(stack'[a]) = P \cup R
               /\ Owns(Q) => ~Owns(R)
  BY DEF Swaps
<1>2. /\ \A b \in Actors \ {a} : stack'[b] = stack[b]
      /\ OwnsOnce(stack'[a]) /\ EndsLast(stack'[a])
  BY DEF Swaps
<1>3. None \notin Actors
  BY ActorsAssumption DEF Actors
<1>4. /\ Owns(Q) => lock = a
      /\ Owns(ToSet(stack'[a])) => Owns(P) \/ Owns(R)
      /\ Owns(R) => lock = a
  BY <1>1 DEF Tidy, Owns
<1>5. Owns(ToSet(stack'[a])) => lock' = a
  BY <1>1, <1>4
<1>6. ASSUME NEW b \in Actors \ {a} PROVE Owns(ToSet(stack'[b])) => lock' = b
  <2>1. Owns(ToSet(stack[b])) => lock = b
    BY DEF Tidy
  <2> QED BY <1>2, <1>3, <1>4, <1>6, <2>1
<1>7. a # Loop => \A f \in ToSet(stack'[a]) : ~Ends(f)
  BY <1>1 DEF Tidy
<1>8. ASSUME NEW b \in Actors
      PROVE  /\ OwnsOnce(stack'[b]) /\ EndsLast(stack'[b])
             /\ Owns(ToSet(stack'[b])) => lock' = b
             /\ b # Loop => \A f \in ToSet(stack'[b]) : ~Ends(f)
  <2>1. CASE b = a
    BY <1>2, <1>5, <1>7, <2>1
  <2>2. CASE b # a
    BY <1>2, <1>6, <2>2 DEF Tidy
  <2> QED BY <2>1, <2>2
<1> QED BY <1>8 DEF Tidy

-----------------------------------------------------------------------------
(* The steps of the synchronous methods.                                   *)

LEMMA TidyTop ==
  ASSUME Stacks, Tidy, NEW a \in Actors, NEW l, At(a, l)
  PROVE  /\ Tidied(a) /\ Top(a) \in Frame /\ Top(a).at = l /\ Top(a) \in ToSet(stack[a])
         /\ l \in KeyLabels => Top(a) \in Keys
         /\ l \in Owning => lock = a
<1>1. stack[a] # << >> /\ Top(a) = Head(stack[a]) /\ Top(a).at = l /\ Top(a) \in Frame
  BY AtTop
<1>2. Tidied(a)
  BY <1>1 DEF Tidied, Tidy, Stacks
<1>3. Top(a) \in ToSet(stack[a])
  BY <1>1, <1>2, PopFrames DEF Tidied
<1> QED BY <1>1, <1>2, <1>3 DEF Keys, KeyIn, Tidy, Owns

LEMMA QuietSwaps ==
  ASSUME Tidy, NEW a \in Actors, NEW Q, NEW P, Swaps(a, Q, P),
         \A f \in Q \cup P : f.at \notin KeyLabels,
         \/ ~Owns(P) /\ lock' = lock
         \/ Owns(Q) /\ lock' = lock
         \/ Owns(Q) /\ ~Owns(P) /\ lock' = None
         \/ lock = None /\ lock' = a
  PROVE  Keys' = Keys /\ Tidy'
<1>1. KeyIn(Q) = {} /\ KeyIn(P) = {} /\ \A f \in P : ~Ends(f)
  BY DEF KeyIn, KeyLabels, Ends
<1> QED BY <1>1, SwapsKeys, SwapsTidy

QuietStep(a) ==
  \/ SendAcquire(a) \/ SendRefuse(a) \/ SendBusy(a) \/ SendUnlock(a)
  \/ QueueAppend(a) \/ QueueCheck(a)
  \/ DispatchEmpty(a) \/ DispatchPop(a) \/ DispatchRequeue(a)
  \/ EmitTrim(a) \/ EmitCheck(a) \/ EmitTimer(a) \/ ReemitCheck(a)

\* The top frame, which is not one of send_message's locked block, goes on or returns.
LEMMA PlainGoes ==
  ASSUME Stacks, Tidy, NEW a \in Actors, NEW l, At(a, l), l \notin KeyLabels \cup Owning,
         lock' = lock, Return(a) \/ \E n \in Labels \ (KeyLabels \cup Owning) : Goto(a, n)
  PROVE  Keys' = Keys /\ Tidy'
<1>1. Tidied(a) /\ Top(a) \in Frame /\ Top(a).at = l
  BY TidyTop
<1>2. CASE Return(a)
  <2>1. Swaps(a, {Top(a)}, {})
    BY <1>1, <1>2, ReturnSwaps
  <2> QED BY <1>1, <2>1, QuietSwaps DEF Owns
<1>3. ASSUME NEW n \in Labels \ (KeyLabels \cup Owning), Goto(a, n)
      PROVE  Keys' = Keys /\ Tidy'
  <2> DEFINE g == [Top(a) EXCEPT !.at = n]
  <2>1. Swaps(a, {Top(a)}, {g})
    BY <1>1, <1>3, GotoSwaps DEF KeyLabels
  <2>2. g.at = n
    BY <1>1 DEF Frame
  <2> HIDE DEF g
  <2> QED BY <1>1, <1>3, <2>1, <2>2, QuietSwaps DEF Owns
<1> QED BY <1>2, <1>3

LEMMA CalledFrame ==
  ASSUME NEW l \in Labels, NEW m \in Tasks
  PROVE  Called(l, m) \in Frame /\ Called(l, m).at = l /\ Called(l, m).m = m
BY DEF Called, Frame

LEMMA QuietKeys ==
  ASSUME Stacks, Tidy, queue \in Seq(Messages), Messages \subseteq Tasks, 0 \in Tasks,
         NEW a \in Actors, QuietStep(a)
  PROVE  Keys' = Keys /\ Tidy'
<1> USE DEF Owning, KeyLabels, Interrupting
<1>1. CASE SendAcquire(a)
  <2> DEFINE g == [Top(a) EXCEPT !.at = "sm_check"]
  <2>1. At(a, "sm_lock") /\ lock = None /\ lock' = a /\ Goto(a, "sm_check")
    BY <1>1 DEF SendAcquire
  <2>2. Tidied(a) /\ Top(a) \in Frame /\ Top(a).at = "sm_lock" /\ lock # a
    BY <2>1, TidyTop, ActorsAssumption DEF Actors
  <2>3. Swaps(a, {Top(a)}, {g})
    BY <2>1, <2>2, GotoSwaps DEF Labels
  <2>4. g.at = "sm_check"
    BY <2>2 DEF Frame
  <2> HIDE DEF g
  <2> QED BY <2>1, <2>2, <2>3, <2>4, QuietSwaps
<1>2. CASE SendRefuse(a)
  <2>1. At(a, "sm_check") /\ lock' = None /\ ReturnRefused(a)
    BY <1>2 DEF SendRefuse
  <2>2. Tidied(a) /\ Top(a).at = "sm_check"
    BY <2>1, TidyTop
  <2>3. CASE Swaps(a, {Top(a)}, {})
    BY <2>1, <2>2, <2>3, QuietSwaps DEF Owns
  <2>4. ASSUME NEW w \in Frame, NEW g \in Frame, w.at = "td_wait", g.at = "td_refused",
               Swaps(a, {Top(a), w}, {g})
        PROVE  Keys' = Keys /\ Tidy'
    BY <2>1, <2>2, <2>4, QuietSwaps DEF Owns
  <2> QED BY <2>1, <2>2, <2>3, <2>4, RefusedSwaps
<1>3. CASE SendBusy(a)
  <2> DEFINE f == Called("qm_append", Top(a).m)
             g == [Top(a) EXCEPT !.at = "sm_unlock"]
  <2>1. At(a, "sm_check") /\ lock' = lock
        /\ stack' = [stack EXCEPT ![a] = <<f, g>> \o Tail(@)]
    BY <1>3 DEF SendBusy, Call, Top
  <2>2. Tidied(a) /\ Top(a) \in Frame /\ Top(a).at = "sm_check"
    BY <2>1, TidyTop
  <2>3. f \in Frame /\ g \in Frame /\ f.at = "qm_append" /\ g.at = "sm_unlock"
    BY <2>2, CalledFrame DEF Frame, Labels
  <2> HIDE DEF f, g
  <2>4. Swaps(a, {Top(a)}, {f, g})
    BY <2>1, <2>2, <2>3, CallSwaps DEF Ends
  <2> QED BY <2>1, <2>2, <2>3, <2>4, QuietSwaps DEF Owns
<1>4. CASE SendUnlock(a)
  <2>1. At(a, "sm_unlock") /\ lock' = None /\ ReturnSent(a)
    BY <1>4 DEF SendUnlock
  <2>2. Tidied(a) /\ Top(a).at = "sm_unlock"
    BY <2>1, TidyTop
  <2>3. CASE Swaps(a, {Top(a)}, {})
    BY <2>1, <2>2, <2>3, QuietSwaps DEF Owns
  <2>4. ASSUME NEW w \in Frame, w.at = "td_wait", Swaps(a, {Top(a), w}, {})
        PROVE  Keys' = Keys /\ Tidy'
    BY <2>1, <2>2, <2>4, QuietSwaps DEF Owns
  <2> QED BY <2>1, <2>2, <2>3, <2>4, SentSwaps
<1>5. CASE QueueAppend(a)
  BY <1>5, PlainGoes DEF QueueAppend, Labels
<1>6. CASE QueueCheck(a)
  BY <1>6, PlainGoes DEF QueueCheck, Labels
<1>7. CASE DispatchEmpty(a)
  BY <1>7, PlainGoes DEF DispatchEmpty
<1>8. CASE DispatchPop(a)
  <2> DEFINE f == Called("sm_lock", Head(queue))
             g == Called("td_wait", Head(queue))
  <2>1. At(a, "td_pop") /\ lock' = lock /\ queue # << >>
        /\ stack' = [stack EXCEPT ![a] = <<f, g>> \o Tail(@)]
    BY <1>8 DEF DispatchPop
  <2>2. Tidied(a) /\ Top(a) \in Frame /\ Top(a).at = "td_pop"
    BY <2>1, TidyTop
  <2>3. Head(queue) \in Tasks
    <3>1. ASSUME NEW q \in Seq(Messages), q # << >> PROVE Head(q) \in Messages
      BY <3>1
    <3> QED BY <2>1, <3>1
  <2>4. f \in Frame /\ g \in Frame /\ f.at = "sm_lock" /\ g.at = "td_wait"
    BY <2>3, CalledFrame DEF Labels
  <2> HIDE DEF f, g
  <2>5. Swaps(a, {Top(a)}, {f, g})
    BY <2>1, <2>2, <2>4, CallSwaps DEF Ends
  <2> QED BY <2>1, <2>2, <2>4, <2>5, QuietSwaps DEF Owns
<1>9. CASE DispatchRequeue(a)
  BY <1>9, PlainGoes DEF DispatchRequeue
<1>10. CASE EmitTrim(a)
  BY <1>10, PlainGoes DEF EmitTrim, Labels
<1>11. CASE EmitCheck(a)
  <2>1. At(a, "es_check") /\ lock' = lock
    BY <1>11 DEF EmitCheck
  <2>2. CASE Return(a)
    BY <2>1, <2>2, PlainGoes
  <2>3. CASE Call(a, "es_timer", Called("td_pop", 0))
    <3> DEFINE f == Called("td_pop", 0)
               g == [Top(a) EXCEPT !.at = "es_timer"]
    <3>1. stack' = [stack EXCEPT ![a] = <<f, g>> \o Tail(@)]
      BY <2>3 DEF Call, Top
    <3>2. Tidied(a) /\ Top(a) \in Frame /\ Top(a).at = "es_check"
      BY <2>1, TidyTop
    <3>3. f \in Frame /\ g \in Frame /\ f.at = "td_pop" /\ g.at = "es_timer"
      BY <3>2, CalledFrame DEF Frame, Labels
    <3> HIDE DEF f, g
    <3>4. Swaps(a, {Top(a)}, {f, g})
      BY <3>1, <3>2, <3>3, CallSwaps DEF Ends
    <3> QED BY <2>1, <3>2, <3>3, <3>4, QuietSwaps DEF Owns
  <2> QED BY <1>11, <2>2, <2>3 DEF EmitCheck
<1>12. CASE EmitTimer(a)
  BY <1>12, PlainGoes DEF EmitTimer
<1>13. CASE ReemitCheck(a)
  BY <1>13, PlainGoes DEF ReemitCheck, Labels
<1> QED BY <1>1, <1>2, <1>3, <1>4, <1>5, <1>6, <1>7, <1>8, <1>9, <1>10, <1>11, <1>12,
           <1>13 DEF QuietStep

\* The check has passed: the frame is at the flip.
LEMMA PassesKeys ==
  ASSUME Stacks, Tidy, NEW a \in Actors, SendPasses(a)
  PROVE  /\ Tidy' /\ Keys \subseteq Keys'
         /\ \A f \in Keys' : f \in Keys \/ f.at = "sm_flip"
<1> DEFINE g == [Top(a) EXCEPT !.at = "sm_flip"]
<1>1. At(a, "sm_check") /\ lock' = lock /\ Goto(a, "sm_flip")
  BY DEF SendPasses
<1>2. Tidied(a) /\ Top(a) \in Frame /\ Top(a).at = "sm_check"
  BY <1>1, TidyTop
<1>3. Swaps(a, {Top(a)}, {g})
  BY <1>1, <1>2, GotoSwaps DEF Owning, Labels
<1>4. g.at = "sm_flip"
  BY <1>2 DEF Frame
<1> HIDE DEF g
<1>5. Keys' \subseteq Keys \cup {g} /\ Keys \subseteq Keys'
  BY <1>2, <1>3, SwapsKeys DEF KeyIn, KeyLabels, Interrupting
<1>6. Tidy'
  BY <1>1, <1>2, <1>3, <1>4, SwapsTidy DEF Owns, Owning, Ends
<1> QED BY <1>4, <1>5, <1>6

\* The flip: nobody else is at it, and this one is about to schedule its coroutine.
LEMMA FlipKeys ==
  ASSUME Stacks, Tidy, 0 \in Tasks, task \in Tasks \cup {None},
         NEW a \in Actors, SendFlip(a)
  PROVE  /\ Tidy' /\ Top(a) \in Keys /\ Top(a).at = "sm_flip" /\ Top(a).m \in Tasks
         /\ \A f \in Keys' : f.at # "sm_flip"
         /\ \A f \in Keys : f \in Keys' \/ f.at = "sm_flip"
         /\ \E g \in Keys' : /\ g.at = "sm_schedule" /\ g.m = Top(a).m /\ g.x = Current
                             /\ Keys' \subseteq Keys \cup {g}
<1> DEFINE e == Called("es_trim", 0)
           g == [Top(a) EXCEPT !.at = "sm_schedule", !.x = Current]
<1>1. At(a, "sm_flip") /\ lock' = None
      /\ stack' = [stack EXCEPT ![a] = <<e, g>> \o Tail(@)]
  BY DEF SendFlip
<1>2. /\ Tidied(a) /\ Top(a) \in Frame /\ Top(a).at = "sm_flip" /\ Top(a) \in Keys
      /\ lock = a
  BY <1>1, TidyTop DEF KeyLabels, Owning
<1>3. /\ e \in Frame /\ g \in Frame /\ e.at = "es_trim"
      /\ g.at = "sm_schedule" /\ g.m = Top(a).m /\ g.x = Current
  <2>1. Current \in Tasks \cup {None}
    BY DEF Current
  <2>2. e \in Frame /\ e.at = "es_trim"
    BY CalledFrame DEF Labels
  <2>3. g \in Frame /\ g.at = "sm_schedule" /\ g.m = Top(a).m /\ g.x = Current
    BY <1>2, <2>1 DEF Frame, Labels
  <2> QED BY <2>2, <2>3
<1> HIDE DEF e, g
<1>4. Swaps(a, {Top(a)}, {e, g})
  BY <1>1, <1>2, <1>3, CallSwaps DEF Owning, Ends
<1>5. Keys' \subseteq Keys \cup {g} /\ \A f \in Keys : f \in Keys' \/ f.at = "sm_flip"
  <2>1. KeyIn({e, g}) \subseteq {g} /\ KeyIn({Top(a)}) \subseteq {Top(a)}
    BY <1>3 DEF KeyIn, KeyLabels, Interrupting
  <2> QED BY <1>2, <1>4, <2>1, SwapsKeys
<1>6. Tidy'
  BY <1>1, <1>2, <1>3, <1>4, SwapsTidy DEF Owns, Owning, Ends
<1>7. g \in Keys'
  <2>1. g \in ToSet(stack'[a])
    BY <1>4 DEF Swaps
  <2> QED BY <1>3, <2>1 DEF Keys, KeyIn, KeyLabels
<1>8. ASSUME NEW f \in Keys', f.at = "sm_flip" PROVE FALSE
  <2>1. PICK b \in Actors : f \in ToSet(stack'[b])
    BY DEF Keys, KeyIn
  <2>2. lock' = b
    BY <1>6, <1>8, <2>1 DEF Tidy, Owns, Owning
  <2> QED BY <1>1, <2>2, ActorsAssumption DEF Actors
<1>9. Top(a).m \in Tasks
  BY <1>2 DEF Frame
<1> QED BY <1>2, <1>3, <1>5, <1>6, <1>7, <1>8, <1>9

\* The coroutine is scheduled.
LEMMA ScheduleKeys ==
  ASSUME Stacks, Tidy, NEW a \in Actors, SendSchedule(a)
  PROVE  /\ Tidy' /\ Top(a) \in Keys /\ Top(a).at = "sm_schedule" /\ Top(a).m \in Tasks
         /\ Keys' \subseteq Keys /\ Keys \subseteq Keys' \cup {Top(a)}
<1>1. At(a, "sm_schedule") /\ lock' = lock /\ ReturnSent(a)
  BY DEF SendSchedule
<1>2. /\ Tidied(a) /\ Top(a).at = "sm_schedule" /\ Top(a) \in Keys /\ Top(a).m \in Tasks
  BY <1>1, TidyTop DEF KeyLabels, Frame
<1>3. PICK Q : Swaps(a, Q, {}) /\ KeyIn(Q) \subseteq {Top(a)}
  <2>1. CASE Swaps(a, {Top(a)}, {})
    BY <2>1 DEF KeyIn
  <2>2. ASSUME NEW w \in Frame, w.at = "td_wait", Swaps(a, {Top(a), w}, {})
        PROVE  \E Q : Swaps(a, Q, {}) /\ KeyIn(Q) \subseteq {Top(a)}
    BY <2>2 DEF KeyIn, KeyLabels, Interrupting
  <2> QED BY <1>1, <1>2, <2>1, <2>2, SentSwaps
<1>4. Tidy'
  BY <1>1, <1>3, SwapsTidy DEF Owns
<1>5. Keys' \subseteq Keys /\ Keys \subseteq Keys' \cup {Top(a)}
  BY <1>3, SwapsKeys DEF KeyIn
<1> QED BY <1>2, <1>4, <1>5

-----------------------------------------------------------------------------
(* The steps of the event loop.                                            *)

\* The frames of the synchronous methods among the key frames, and the coroutines whose
\* last block runs.
Senders   == {f \in Keys : ~Ends(f)}
Finishing == {f.m : f \in {g \in Keys : Ends(g)}}

LEMMA Finishers ==
  ASSUME Stacks, Tidy
  PROVE  /\ Finishing \subseteq Tasks
         /\ Idle(Loop) => Finishing = {}
         /\ \A l \in {"tk_catch", "tk_final"} :
              At(Loop, l) => Finishing = {Top(Loop).m} /\ stack[Loop] = <<Top(Loop)>>
<1> Loop \in Actors
  BY DEF Actors
<1>1. ASSUME NEW f \in Keys, Ends(f) PROVE f \in ToSet(stack[Loop]) /\ f.m \in Tasks
  <2>1. PICK b \in Actors : f \in ToSet(stack[b])
    BY DEF Keys, KeyIn
  <2>2. b = Loop
    BY <1>1, <2>1 DEF Tidy
  <2>3. f \in Frame
    <3>1. stack[b] \in Seq(Frame)
      BY DEF Stacks
    <3>2. \A i \in DOMAIN stack[b] : stack[b][i] \in Frame
      BY <3>1
    <3> QED BY <2>1, <3>2 DEF ToSet
  <2> QED BY <2>1, <2>2, <2>3 DEF Frame
<1>2. Finishing \subseteq Tasks
  BY <1>1 DEF Finishing
<1>3. Idle(Loop) => Finishing = {}
  BY <1>1, NoFrames DEF Finishing, Idle
<1>4. ASSUME NEW l \in {"tk_catch", "tk_final"}, At(Loop, l)
      PROVE  Finishing = {Top(Loop).m} /\ stack[Loop] = <<Top(Loop)>>
  <2>1. /\ Tidied(Loop) /\ Top(Loop) \in Frame /\ Top(Loop).at = l /\ Top(Loop) \in Keys
        /\ Ends(Top(Loop))
    BY <1>4, TidyTop DEF KeyLabels, Ends
  <2>2. Top(Loop) = Head(stack[Loop]) /\ stack[Loop] \in Seq(Frame) /\ stack[Loop] # << >>
    BY <2>1 DEF Top, Tidied
  <2>3. Tail(stack[Loop]) = << >> /\ ToSet(stack[Loop]) = {Top(Loop)}
    BY <2>1, <2>2, PopFrames, NoFrames DEF Tidied
  <2>4. stack[Loop] = <<Top(Loop)>>
    BY <2>2, <2>3, Pop, SingleFrame
  <2> QED BY <1>1, <2>1, <2>3, <2>4 DEF Finishing
<1> QED BY <1>2, <1>3, <1>4

\* The same key frames make the same of both.
LEMMA SameKeys ==
  ASSUME Keys' = Keys
  PROVE  Senders' = Senders /\ Finishing' = Finishing
BY DEF Senders, Finishing

LEMMA StayKeys ==
  ASSUME Stacks, Tidy, lock' = lock, UNCHANGED stack \/ (Idle(Loop) /\ Frames(<< >>))
  PROVE  Tidy' /\ Senders' = Senders /\ Finishing' = Finishing
<1>1. stack' = stack
  BY DEF Stacks, Frames, Idle, Actors
<1>2. Keys' = Keys /\ Tidy'
  BY <1>1 DEF Keys, Tidy
<1> QED BY <1>2, SameKeys

LEMMA EmitKeys ==
  ASSUME Stacks, Tidy, lock' = lock, 0 \in Tasks, Idle(Loop),
         Frames(<<Called("es_trim", 0)>>) \/ Enter(Loop, Called("es_trim", 0))
  PROVE  Tidy' /\ Senders' = Senders /\ Finishing' = Finishing
<1> DEFINE e == Called("es_trim", 0)
<1>1. e \in Frame /\ e.at = "es_trim"
  BY CalledFrame DEF Labels
<1> HIDE DEF e
<1>2. Enter(Loop, e) \/ Frames(<<e>>)
  BY DEF e
<1>3. Loop \in Actors /\ stack \in [Actors -> Seq(Frame)]
  BY DEF Actors, Stacks
<1>4. Frames(<<e>>) => Enter(Loop, e)
  BY <1>1, SingleFrame DEF Enter, Frames, Idle
<1>5. Swaps(Loop, {}, {e})
  BY <1>1, <1>2, <1>3, <1>4, EnterSwaps
<1>6. Keys' = Keys /\ Tidy'
  BY <1>1, <1>3, <1>5, QuietSwaps DEF Owns, Owning, KeyLabels, Interrupting
<1> QED BY <1>6, SameKeys

\* The last block of coroutine k is called.
LEMMA ThenKeys ==
  ASSUME Stacks, Tidy, lock' = lock, 0 \in Tasks, NEW k \in Tasks,
         NEW l \in {"tk_catch", "tk_final"}, EmitThen(l, k) \/ Then(l, k),
         Idle(Loop) \/ At(Loop, "tk_catch")
  PROVE  Tidy' /\ Senders' = Senders /\ Finishing' = {k}
<1> DEFINE e == Called("es_trim", 0)
           g == Called(l, k)
<1>1. /\ e \in Frame /\ e.at = "es_trim" /\ ~Ends(e) /\ e.at \notin KeyLabels
      /\ g \in Frame /\ g.at = l /\ g.m = k /\ Ends(g) /\ g.at \in KeyLabels
  BY CalledFrame DEF Labels, Ends, KeyLabels, Interrupting
<1>2. Frames(<<e, g>>) \/ Frames(<<g>>)
  BY DEF EmitThen, Then
<1> HIDE DEF e, g
<1>3. Loop \in Actors /\ stack \in [Actors -> Seq(Frame)]
  BY DEF Actors, Stacks
<1>4. PICK P : P \in {{g}, {e, g}} /\ OwnsOnce(stack'[Loop]) /\ EndsLast(stack'[Loop])
               /\ stack' \in [Actors -> Seq(Frame)] /\ ToSet(stack'[Loop]) = P
               /\ \A b \in Actors \ {Loop} : stack'[b] = stack[b]
  <2>1. /\ <<g>> \in Seq(Frame) /\ ToSet(<<g>>) = {g} /\ <<g>> \o << >> = <<g>>
        /\ OwnsOnce(<<g>>) /\ EndsLast(<<g>>)
    BY <1>1, SingleFrame
  <2>2. CASE Frames(<<g>>)
    <3>1. stack' \in [Actors -> Seq(Frame)] /\ stack'[Loop] = <<g>>
          /\ \A b \in Actors \ {Loop} : stack'[b] = stack[b]
      BY <1>3, <2>1, <2>2 DEF Frames
    <3> QED BY <2>1, <3>1
  <2>3. CASE Frames(<<e, g>>)
    <3>1. <<e, g>> = <<e>> \o <<g>>
      <4>1. <<e, g>> \o << >> = <<e>> \o (<<g>> \o << >>)
        BY <1>1, PushTwo, NoFrames
      <4>2. <<e, g>> \o << >> = <<e, g>>
        BY <1>1
      <4> QED BY <2>1, <4>1, <4>2
    <3>2. /\ <<e>> \o <<g>> \in Seq(Frame) /\ ToSet(<<e>> \o <<g>>) = {e} \cup {g}
          /\ OwnsOnce(<<e>> \o <<g>>) /\ EndsLast(<<e>> \o <<g>>)
      <4>1. <<e>> \o <<g>> \in Seq(Frame)
        BY <1>1, <2>1, Push
      <4>2. e.at \notin Owning
        BY <1>1 DEF Owning
      <4> QED BY <1>1, <2>1, <4>1, <4>2, PushFrames
    <3>3. stack' \in [Actors -> Seq(Frame)] /\ stack'[Loop] = <<e>> \o <<g>>
          /\ \A b \in Actors \ {Loop} : stack'[b] = stack[b]
      BY <1>3, <2>1, <2>3, <3>1, <3>2 DEF Frames
    <3>4. ToSet(stack'[Loop]) = {e, g}
      BY <3>2, <3>3
    <3> QED BY <3>2, <3>3, <3>4
  <2> QED BY <1>2, <2>2, <2>3
<1>5. PICK Q : ToSet(stack[Loop]) = Q /\ \A f \in Q : Ends(f)
  <2>1. CASE Idle(Loop)
    BY <2>1, NoFrames DEF Idle
  <2>2. CASE At(Loop, "tk_catch")
    <3>1. stack[Loop] = <<Top(Loop)>> /\ Top(Loop) \in Frame /\ Top(Loop).at = "tk_catch"
      BY <1>3, <2>2, Finishers, TidyTop
    <3> QED BY <3>1, SingleFrame DEF Ends
  <2> QED BY <2>1, <2>2
<1>6. Swaps(Loop, Q, P)
  <2>1. ToSet(stack[Loop]) = Q \cup {} /\ ToSet(stack'[Loop]) = P \cup {} /\ ~Owns({})
    BY <1>4, <1>5 DEF Owns
  <2> QED BY <1>4, <2>1 DEF Swaps
<1>7. Keys' \subseteq Keys \cup {g} /\ \A f \in Keys : f \in Keys' \/ Ends(f)
  <2>1. KeyIn(P) \subseteq {g} /\ \A f \in KeyIn(Q) : Ends(f)
    BY <1>1, <1>4, <1>5 DEF KeyIn
  <2> QED BY <1>3, <1>6, <2>1, SwapsKeys
<1>8. Tidy'
  <2>1. ~Owns(P)
    BY <1>1, <1>4 DEF Owns, Owning, Ends
  <2> QED BY <1>3, <1>6, <2>1, SwapsTidy
<1>9. ASSUME NEW f \in Keys', Ends(f) PROVE f = g
  <2>1. PICK b \in Actors : f \in ToSet(stack'[b])
    BY <1>9 DEF Keys, KeyIn
  <2>2. b = Loop
    BY <1>8, <1>9, <2>1 DEF Tidy
  <2> QED BY <1>1, <1>4, <1>9, <2>1, <2>2
<1>10. g \in Keys'
  BY <1>1, <1>3, <1>4 DEF Keys, KeyIn
<1>11. Senders' = Senders
  BY <1>1, <1>7 DEF Senders
<1>12. Finishing' = {k}
  BY <1>1, <1>9, <1>10 DEF Finishing
<1> QED BY <1>8, <1>11, <1>12

\* The last block is over.
LEMMA DoneKeys ==
  ASSUME Stacks, Tidy, lock' = lock, NEW l \in {"tk_catch", "tk_final"}, At(Loop, l),
         Return(Loop)
  PROVE  Tidy' /\ Senders' = Senders /\ Finishing' = {}
<1>1. Loop \in Actors /\ stack \in [Actors -> Seq(Frame)]
  BY DEF Actors, Stacks
<1>2. /\ Tidied(Loop) /\ Top(Loop) \in Frame /\ Top(Loop).at = l
      /\ stack[Loop] = <<Top(Loop)>>
  BY <1>1, TidyTop, Finishers
<1>3. Swaps(Loop, {Top(Loop)}, {})
  BY <1>1, <1>2, ReturnSwaps
<1>4. Tidy'
  BY <1>1, <1>3, SwapsTidy DEF Owns
<1>5. Keys' \subseteq Keys /\ Keys \subseteq Keys' \cup {Top(Loop)}
  BY <1>1, <1>3, SwapsKeys DEF KeyIn
<1>6. stack'[Loop] = << >>
  <2>1. Tail(<<Top(Loop)>>) = << >>
    OBVIOUS
  <2> QED BY <1>1, <1>2, <2>1 DEF Return
<1>7. ASSUME NEW f \in Keys', Ends(f) PROVE FALSE
  <2>1. PICK b \in Actors : f \in ToSet(stack'[b])
    BY <1>7 DEF Keys, KeyIn
  <2>2. b = Loop
    BY <1>4, <1>7, <2>1 DEF Tidy
  <2> QED BY <1>6, <2>1, <2>2, NoFrames
<1>8. Ends(Top(Loop))
  BY <1>2 DEF Ends
<1>9. Senders' = Senders
  BY <1>5, <1>7, <1>8 DEF Senders
<1> QED BY <1>4, <1>7, <1>9 DEF Finishing

-----------------------------------------------------------------------------
(* Who has the session.                                                    *)

\* The coroutines that are on their way to a RESULT, those of them that have taken
\* info.task, and where the others can be whose last block runs.
Busy   == {"spawned", "created", "yielded", "reconnect", "prep", "turn", "ended", "broken",
           "mend"}
Own    == Busy \ {"spawned", "created"}
Finals == {"ended", "broken", "mend", "unwind", "settle", "drain", "listen", "resumed", "snap"}

Turning(k)   == life[k] \in Busy /\ k \notin Finishing
Scheduled(k) == \E f \in Senders : f.at = "sm_schedule" /\ f.m = k
Holds(k)     == Turning(k) \/ Scheduled(k)

\* At most one message has the session, from the flip to WORKING in send_message to the
\* RESULT of its turn or to its failure; whoever is at the flip finds nobody; and the
\* listener of a turn before leaves the state alone once there is such a message.
Served ==
  /\ \A j, k \in Tasks : Holds(j) /\ Holds(k) => j = k
  /\ \A k \in Tasks : Holds(k) => state # "idle"
  /\ \A f \in Senders : f.at = "sm_flip" => \A k \in Tasks : ~Holds(k)
  /\ \A f \in Senders : f.at \notin Interrupting
  /\ \A k \in Tasks : Turning(k) /\ life[k] \in Own => task = k
  /\ \A k \in Tasks : Holds(k) /\ ~superseded /\ task \notin {None, k} => ~Alive(task)
  /\ \A k \in Finishing : life[k] \in Finals

\* What a step for coroutine k does to that.
Serves(k) ==
  /\ Tidy' /\ Senders' = Senders
  /\ \A j \in Tasks \ {k} : life'[j] = life[j]
  /\ \A j : j # k => (j \in Finishing' <=> j \in Finishing)
  /\ Turning(k)' => Turning(k)
  /\ state' = "idle" => \/ state = "idle"
                        \/ Turning(k) /\ ~Turning(k)'
                        \/ task = k /\ ~superseded /\ Alive(k) /\ ~Turning(k)
  /\ \/ /\ superseded' = superseded
        /\ task' = task \/ (task = k /\ task' = None)
        /\ Alive(k)' => Alive(k) \/ Turning(k)
     \/ Turning(k) /\ task' \in {k, None}
  /\ Turning(k)' /\ life'[k] \in Own => task' = k
  /\ k \in Finishing' => life'[k] \in Finals

\* What the steps of the loop do to the stacks.
Emits == UNCHANGED stack \/ Frames(<< >>) \/ Frames(<<Called("es_trim", 0)>>)
         \/ Enter(Loop, Called("es_trim", 0))
Ender(k) == \E l \in {"tk_catch", "tk_final"} : EmitThen(l, k) \/ Then(l, k)

LEMMA LoopKeys ==
  ASSUME Stacks, Tidy, lock' = lock, NEW k \in Tasks
  PROVE  /\ Idle(Loop) => Finishing = {}
         /\ At(Loop, "tk_catch") \/ At(Loop, "tk_final") => Finishing = {Top(Loop).m}
         /\ Idle(Loop) /\ Emits => Tidy' /\ Senders' = Senders /\ Finishing' = {}
         /\ (Idle(Loop) \/ At(Loop, "tk_catch")) /\ Ender(k) =>
              Tidy' /\ Senders' = Senders /\ Finishing' = {k}
         /\ (At(Loop, "tk_catch") \/ At(Loop, "tk_final")) /\ Return(Loop) =>
              Tidy' /\ Senders' = Senders /\ Finishing' = {}
<1>1. 0 \in Tasks
  BY BoundsAssumption DEF Tasks
<1>2. /\ Idle(Loop) => Finishing = {}
      /\ At(Loop, "tk_catch") \/ At(Loop, "tk_final") => Finishing = {Top(Loop).m}
  BY Finishers
<1>3. Idle(Loop) /\ Emits => Tidy' /\ Senders' = Senders /\ Finishing' = {}
  BY <1>1, <1>2, StayKeys, EmitKeys DEF Emits
<1>4. (Idle(Loop) \/ At(Loop, "tk_catch")) /\ Ender(k) =>
        Tidy' /\ Senders' = Senders /\ Finishing' = {k}
  BY <1>1, ThenKeys DEF Ender
<1>5. (At(Loop, "tk_catch") \/ At(Loop, "tk_final")) /\ Return(Loop) =>
        Tidy' /\ Senders' = Senders /\ Finishing' = {}
  BY DoneKeys
<1> QED BY <1>2, <1>3, <1>4, <1>5

LEMMA WorkServes ==
  ASSUME IInv, Tidy, Served, NEW k \in Tasks, Work(k)
  PROVE  Serves(k)
<1>1. /\ LifeType /\ ready \in Seq(Items) /\ Stacks /\ Lined
  BY Given
<1>2. lock' = lock => 
         /\ Idle(Loop) => Finishing = {}
         /\ At(Loop, "tk_catch") \/ At(Loop, "tk_final") => Finishing = {Top(Loop).m}
         /\ Idle(Loop) /\ Emits => Tidy' /\ Senders' = Senders /\ Finishing' = {}
         /\ (Idle(Loop) \/ At(Loop, "tk_catch")) /\ Ender(k) =>
              Tidy' /\ Senders' = Senders /\ Finishing' = {k}
         /\ (At(Loop, "tk_catch") \/ At(Loop, "tk_final")) /\ Return(Loop) =>
              Tidy' /\ Senders' = Senders /\ Finishing' = {}
  BY <1>1, LoopKeys
<1>3. \A j \in Tasks : life[j] \in Own /\ j \notin Finishing => task = j
  BY DEF Served, Turning, Own
<1>4. \A j \in Finishing : life[j] \in Finals
  BY DEF Served
<1>5. None \notin Tasks
  BY ActorsAssumption, BoundsAssumption DEF Tasks
<1> USE DEF LifeType, Serves, Turning, Busy, Own, Finals, Alive, Dies, Gone, Becomes, Waits,
       LoopFree, Emits, flags, turns, messages, counts
<1>6. CASE SpawnTurn /\ Head(ready).x = k
  BY <1>1, <1>2, <1>6, Spawner, Running DEF SpawnTurn, Runs
<1>7. CASE TurnBegins(k)
  BY <1>1, <1>2, <1>7 DEF TurnBegins, Runs
<1>8. CASE TurnResets(k)
  BY <1>1, <1>2, <1>3, <1>8 DEF TurnResets, Runs
<1>9. CASE Thrown(k)
  <2>1. k \in cancelled /\ life[k] \in Throwable
    BY <1>1, <1>9, Thrower
  <2>2. CASE life[k] \in {"reconnect", "prep", "snap"}
    BY <1>1, <1>2, <1>9, <2>2 DEF Thrown, Runs
  <2>3. CASE life[k] = "turn"
    BY <1>1, <1>2, <1>9, <2>3 DEF Thrown, Runs
  <2>4. CASE life[k] = "mend"
    BY <1>1, <1>2, <1>9, <2>4 DEF Thrown, Runs, Ender
  <2>5. CASE life[k] \in {"drain", "listen", "resumed"}
    <3>1. Handler(k, "tk_final") /\ Idle(Loop) /\ lock' = lock /\ superseded' = superseded
      BY <1>9, <2>5 DEF Thrown, Runs
    <3> QED BY <1>1, <1>2, <2>5, <3>1 DEF Handler, Ender, Touches, Bailing
  <2> QED BY <2>1, <2>2, <2>3, <2>4, <2>5 DEF Throwable
<1>10. CASE Catch(k)
  BY <1>1, <1>2, <1>3, <1>4, <1>10 DEF Catch, Ender, Touches, Bailing
<1>11. CASE Final(k)
  BY <1>1, <1>2, <1>3, <1>4, <1>11 DEF Final, Touches, Bailing
<1>12. CASE Reconnected(k)
  BY <1>1, <1>2, <1>3, <1>12 DEF Reconnected
<1>13. CASE QuerySent(k)
  BY <1>1, <1>2, <1>3, <1>13 DEF QuerySent
<1>14. CASE TurnResult(k)
  BY <1>1, <1>2, <1>14 DEF TurnResult
<1>15. CASE TurnSettles(k)
  BY <1>1, <1>2, <1>15 DEF TurnSettles
<1>16. CASE DrainEnds(k)
  BY <1>1, <1>2, <1>16 DEF DrainEnds, Ender
<1>17. CASE ResumedResult(k)
  BY <1>1, <1>2, <1>17 DEF ResumedResult, Bailing
<1>18. CASE EndedWithoutResult(k)
  BY <1>1, <1>2, <1>18 DEF EndedWithoutResult, Ender
<1>19. CASE Mend(k)
  BY <1>1, <1>2, <1>3, <1>19 DEF Mend, Ender
<1>20. CASE Mended(k)
  BY <1>1, <1>2, <1>20 DEF Mended, Ender
<1>21. CASE Unwound(k)
  BY <1>1, <1>2, <1>21 DEF Unwound, Handler, Ender, Touches, Bailing
<1>22. CASE SnapshotDone(k)
  BY <1>1, <1>2, <1>22 DEF SnapshotDone
<1>23. CASE ReconnectFails(k)
  BY <1>1, <1>2, <1>23 DEF ReconnectFails
<1>24. CASE ListenFails(k)
  BY <1>1, <1>2, <1>24 DEF ListenFails, Ender
<1>25. CASE AutoResumes(k)
  BY <1>1, <1>2, <1>25 DEF AutoResumes
<1>26. CASE StreamStops(k, "ended") \/ StreamStops(k, "broken")
  BY <1>1, <1>2, <1>3, <1>26 DEF StreamStops
<1> HIDE DEF LifeType, Serves, Turning, Busy, Own, Finals, Alive, Dies, Gone, Becomes, Waits,
       LoopFree, Emits, flags, turns, messages, counts
<1> QED
  BY <1>6, <1>7, <1>8, <1>9, <1>10, <1>11, <1>12, <1>13, <1>14, <1>15, <1>16, <1>17, <1>18,
     <1>19, <1>20, <1>21, <1>22, <1>23, <1>24, <1>25, <1>26
     DEF Work

\* A frame that schedules a coroutine is the only trace of it.
LEMMA SenderFrames ==
  ASSUME IInv, NEW f \in Senders, f.at \in {"sm_flip", "sm_schedule"}
  PROVE  f.m \in Messages /\ life[f.m] = "none"
<1>1. PICK a \in Actors : f \in ToSet(stack[a])
  BY DEF Senders, Keys, KeyIn
<1>2. f.m \in MessagesIn(stack[a])
  BY <1>1 DEF MessagesIn, ToSet, Carries, Carrying
<1> QED BY <1>2, Given DEF Placed, Free

LEMMA HeldTasks ==
  ASSUME IInv, NEW k \in Tasks
  PROVE  /\ Scheduled(k) => life[k] = "none"
         /\ Turning(k) => ~Scheduled(k) /\ life[k] # "none"
<1>1. Scheduled(k) => life[k] = "none"
  BY SenderFrames DEF Scheduled
<1> QED BY <1>1 DEF Turning, Busy

LEMMA WorkServed ==
  ASSUME IInv, Tidy, Served, NEW k \in Tasks, life[k] # "none", Serves(k)
  PROVE  Tidy' /\ Served'
<1>1. /\ Finishing \subseteq Tasks /\ None \notin Tasks /\ task \in Tasks \cup {None}
  BY Given, Finishers, ActorsAssumption, BoundsAssumption DEF Tasks, PlainType
<1>2. \A j \in Tasks : Scheduled(j)' <=> Scheduled(j)
  BY DEF Serves, Scheduled
<1>3. \A j \in Tasks : j # k => (Turning(j)' <=> Turning(j)) /\ life'[j] = life[j]
  BY DEF Serves, Turning
<1>4. ~Scheduled(k) /\ (Turning(k)' => Turning(k))
  BY HeldTasks DEF Serves
<1>5. \A j \in Tasks : Holds(j)' => Holds(j)
  BY <1>2, <1>3, <1>4 DEF Holds
<1>6. \A i, j \in Tasks : Holds(i)' /\ Holds(j)' => i = j
  BY <1>5 DEF Served
<1>7. ASSUME NEW j \in Tasks, Holds(j)' PROVE state' # "idle"
  <2>1. Holds(j) /\ state # "idle"
    BY <1>5, <1>7 DEF Served
  <2>2. ~(Turning(k) /\ ~Turning(k)')
    <3>1. SUFFICES ASSUME Turning(k), ~Turning(k)' PROVE FALSE
      OBVIOUS
    <3>2. j = k
      BY <2>1, <3>1 DEF Served, Holds
    <3> QED BY <1>2, <1>4, <1>7, <3>1, <3>2 DEF Holds
  <2>3. ~(task = k /\ ~superseded /\ Alive(k) /\ ~Turning(k))
    BY <1>1, <1>4, <2>1 DEF Served, Holds
  <2> QED BY <2>1, <2>2, <2>3 DEF Serves
<1>8. \A f \in Senders' : f.at = "sm_flip" => \A j \in Tasks : ~Holds(j)'
  BY <1>5 DEF Serves, Served
<1>9. \A f \in Senders' : f.at \notin Interrupting
  BY DEF Serves, Served
<1>10. ASSUME NEW j \in Tasks, Turning(j)', life'[j] \in Own PROVE task' = j
  <2>1. CASE j = k
    BY <1>10, <2>1 DEF Serves
  <2>2. CASE j # k
    <3>1. Turning(j) /\ task = j
      BY <1>3, <1>10, <2>2 DEF Served
    <3>2. ~Turning(k)
      BY <2>2, <3>1 DEF Served, Holds
    <3> QED BY <2>2, <3>1, <3>2 DEF Serves
  <2> QED BY <2>1, <2>2
<1>11. ASSUME NEW j \in Tasks, Holds(j)', ~superseded', task' \notin {None, j}
       PROVE  ~Alive(task)'
  <2>1. Holds(j)
    BY <1>5, <1>11
  <2>2. Turning(k) => j = k
    BY <2>1 DEF Served, Holds
  <2>3. superseded' = superseded /\ (Alive(k)' => Alive(k) \/ Turning(k)) /\ task' = task
    BY <1>11, <2>2 DEF Serves
  <2>4. ~Alive(task) /\ task \in Tasks \ {j}
    BY <1>1, <1>11, <2>1, <2>3 DEF Served
  <2>5. CASE task = k
    BY <2>2, <2>3, <2>4, <2>5
  <2>6. CASE task # k
    BY <1>3, <2>3, <2>4, <2>6 DEF Alive
  <2> QED BY <2>5, <2>6
<1>12. \A j \in Finishing' : life'[j] \in Finals
  BY <1>1, <1>3 DEF Serves, Served
<1>13. Served'
  BY <1>6, <1>7, <1>8, <1>9, <1>10, <1>11, <1>12 DEF Served
<1> QED BY <1>13 DEF Serves

\* A step that leaves the coroutines, the frames of the sends and the flags alone.
LEMMA QuietServed ==
  ASSUME IInv, Tidy, Served, Senders' = Senders, Finishing' = Finishing,
         life' = life, task' = task, superseded' = superseded, state' \in {state, "stopped"}
  PROVE  Served'
<1>1. \A j \in Tasks : (Turning(j)' <=> Turning(j)) /\ (Holds(j)' <=> Holds(j))
  BY DEF Turning, Holds, Scheduled
<1>2. Alive(task)' <=> Alive(task)
  BY DEF Alive
<1> QED BY <1>1, <1>2 DEF Served

LEMMA PassesServed ==
  ASSUME IInv, Tidy, Served, NEW a \in Actors, SendPasses(a)
  PROVE  Tidy' /\ Served'
<1>1. /\ Tidy' /\ Keys \subseteq Keys' /\ \A f \in Keys' : f \in Keys \/ f.at = "sm_flip"
  BY Given, PassesKeys
<1>2. UNCHANGED <<state, life, task, superseded>> /\ state = "idle"
  BY DEF SendPasses, flags, turns
<1>3. /\ Senders \subseteq Senders'
      /\ \A f \in Senders' : f \in Senders \/ f.at = "sm_flip"
  BY <1>1 DEF Senders
<1>4. Finishing' = Finishing
  BY <1>1 DEF Finishing, Ends
<1>5. \A j \in Tasks : (Turning(j)' <=> Turning(j)) /\ (Holds(j)' <=> Holds(j))
  BY <1>2, <1>3, <1>4 DEF Turning, Holds, Scheduled
<1>6. \A j \in Tasks : ~Holds(j)
  BY <1>2 DEF Served
<1>7. \A f \in Senders' : f.at \notin Interrupting
  BY <1>3 DEF Served, Interrupting
<1>8. Served'
  BY <1>2, <1>4, <1>5, <1>6, <1>7 DEF Served
<1> QED BY <1>1, <1>8

LEMMA FlipServed ==
  ASSUME IInv, Tidy, Served, NEW a \in Actors, SendFlip(a)
  PROVE  Tidy' /\ Served'
<1>1. /\ Stacks /\ 0 \in Tasks /\ task \in Tasks \cup {None} /\ None \notin Tasks
  BY Given, ActorsAssumption, BoundsAssumption DEF PlainType, Tasks
<1>2. /\ Tidy' /\ Top(a) \in Keys /\ Top(a).at = "sm_flip" /\ Top(a).m \in Tasks
      /\ \A f \in Keys' : f.at # "sm_flip"
      /\ \A f \in Keys : f \in Keys' \/ f.at = "sm_flip"
  BY <1>1, FlipKeys
<1>3. PICK g \in Keys' : /\ g.at = "sm_schedule" /\ g.m = Top(a).m /\ g.x = Current
                         /\ Keys' \subseteq Keys \cup {g}
  BY <1>1, FlipKeys
<1>4. /\ UNCHANGED <<life, task>> /\ state' = "working"
      /\ superseded' = (superseded \/ Current # None)
  BY DEF SendFlip, turns
<1>5. /\ Senders' \subseteq Senders \cup {g} /\ Finishing' = Finishing
  BY <1>2, <1>3 DEF Senders, Finishing, Ends
<1>6. \A j \in Tasks : ~Holds(j)
  <2>1. Top(a) \in Senders
    BY <1>2 DEF Senders, Ends
  <2> QED BY <1>2, <2>1 DEF Served
<1>7. \A j \in Tasks : ~Turning(j)' /\ (Holds(j)' => j = g.m)
  BY <1>4, <1>5, <1>6 DEF Turning, Holds, Scheduled
<1>8. ~superseded' /\ task' \notin {None} => ~Alive(task)'
  BY <1>1, <1>4 DEF Current, Alive
<1>9. \A f \in Senders' : f.at \notin Interrupting /\ f.at # "sm_flip"
  BY <1>2, <1>3, <1>5 DEF Served, Interrupting, Senders
<1>10. Served'
  BY <1>4, <1>5, <1>7, <1>8, <1>9 DEF Served
<1> QED BY <1>2, <1>10

LEMMA ScheduleServed ==
  ASSUME IInv, Tidy, Served, NEW a \in Actors, SendSchedule(a)
  PROVE  Tidy' /\ Served'
<1>1. Stacks /\ LifeType /\ Finishing \subseteq Tasks
  BY Given, Finishers
<1>2. /\ Tidy' /\ Top(a) \in Keys /\ Top(a).at = "sm_schedule" /\ Top(a).m \in Tasks
      /\ Keys' \subseteq Keys /\ Keys \subseteq Keys' \cup {Top(a)}
  BY <1>1, ScheduleKeys
<1> DEFINE m == Top(a).m
<1>3. /\ UNCHANGED <<state, task, superseded>>
      /\ life'[m] = "spawned" /\ \A j \in Tasks \ {m} : life'[j] = life[j]
  BY <1>1, <1>2 DEF SendSchedule, flags, LifeType
<1>4. Scheduled(m) /\ life[m] = "none"
  <2>1. Top(a) \in Senders
    BY <1>2 DEF Senders, Ends
  <2> QED BY <1>2, <2>1, HeldTasks DEF Scheduled
<1>5. /\ Senders' \subseteq Senders /\ Finishing' = Finishing
  BY <1>2 DEF Senders, Finishing, Ends
<1>6. m \notin Finishing
  BY <1>4 DEF Served, Finals
<1> HIDE DEF m
<1>7. \A j \in Tasks : /\ Holds(j)' => Holds(j)
                       /\ j # m => (Turning(j)' <=> Turning(j))
                       /\ life'[j] \in Own <=> life[j] \in Own
                       /\ life'[j] \in {"none", "spawned", "dead"} <=>
                            life[j] \in {"none", "spawned", "dead"}
  BY <1>2, <1>3, <1>4, <1>5 DEF Turning, Holds, Scheduled, Busy, Own
<1>8. task \in Tasks => (Alive(task)' <=> Alive(task))
  BY <1>3, <1>7 DEF Alive
<1>9. task \in Tasks \cup {None}
  BY Given DEF PlainType
<1>10. /\ \A j, k \in Tasks : Holds(j)' /\ Holds(k)' => j = k
       /\ \A k \in Tasks : Holds(k)' => state' # "idle"
       /\ \A f \in Senders' : f.at = "sm_flip" => \A k \in Tasks : ~Holds(k)'
       /\ \A f \in Senders' : f.at \notin Interrupting
  BY <1>3, <1>5, <1>7 DEF Served
<1>11. \A k \in Tasks : Turning(k)' /\ life'[k] \in Own => task' = k
  BY <1>3, <1>7 DEF Served, Own
<1>12. \A k \in Tasks : Holds(k)' /\ ~superseded' /\ task' \notin {None, k} => ~Alive(task)'
  BY <1>3, <1>7, <1>8, <1>9 DEF Served
<1>13. \A k \in Finishing' : life'[k] \in Finals
  BY <1>1, <1>3, <1>5, <1>6 DEF Served
<1>14. Served'
  BY <1>10, <1>11, <1>12, <1>13 DEF Served
<1> QED BY <1>2, <1>14

\* What is counted only grows.
LEMMA Counted ==
  ASSUME [Next]_vars
  PROVE  /\ interrupts' \in {interrupts, interrupts + 1}
         /\ closes' \in {closes, closes + 1}
         /\ failures' \in {failures, failures + 1}
<1> DEFINE Goal == /\ interrupts' \in {interrupts, interrupts + 1}
                   /\ closes' \in {closes, closes + 1}
                   /\ failures' \in {failures, failures + 1}
<1> USE DEF counts, Fails, FailsIf
<1>1. ASSUME NEW a \in Actors, Step(a) PROVE Goal
  BY <1>1 DEF Step, SendAcquire, SendRefuse, SendBusy, SendUnlock, SendPasses, SendFlip,
     SendSchedule, QueueAppend, QueueCheck, DispatchEmpty, DispatchPop, DispatchRequeue,
     EmitTrim, EmitCheck, EmitTimer, ReemitCheck, InterruptPop, InterruptFlag,
     InterruptIdle, InterruptCapture, InterruptSchedule
<1>2. ASSUME LoopStep PROVE Goal
  BY <1>2 DEF LoopStep, SpawnTurn, SpawnOther, CancelCallback, InterruptCallback,
     CloseCallback, CloseEnds, TurnBegins, TurnResets, Thrown, Catch, Final
<1>3. ASSUME NEW k \in Tasks, Awaited(k) PROVE Goal
  BY <1>3 DEF Awaited, Reconnected, QuerySent, TurnResult, TurnSettles, DrainEnds,
     ResumedResult, EndedWithoutResult, Mend, Mended, Unwound, SnapshotDone
<1>4. ASSUME NEW k \in Tasks, Trouble(k) PROVE Goal
  BY <1>4 DEF Trouble, ReconnectFails, ListenFails, StreamStops, AutoResumes
<1>5. ASSUME NEW t \in Threads, Requests(t) PROVE Goal
  BY <1>5 DEF Requests, SendRequest, QueueRequest, Accept, InterruptRequest
<1>6. ASSUME NEW d \in Timers, ReemitFires(d) PROVE Goal
  BY <1>6 DEF ReemitFires
<1>7. ASSUME CloseRequest PROVE Goal
  BY <1>7 DEF CloseRequest
<1>8. ASSUME UNCHANGED vars PROVE Goal
  BY <1>8 DEF vars
<1>9. Goal
  <2> HIDE DEF Goal
  <2> QED BY <1>1, <1>2, <1>3, <1>4, <1>5, <1>6, <1>7, <1>8 DEF Next
<1> QED BY <1>9

\* No frame of interrupt_session is on a stack.
LEMMA NoInterrupt ==
  ASSUME IInv, Tidy, Served, NEW a \in Actors, NEW l \in Interrupting, At(a, l)
  PROVE  FALSE
<1>1. Top(a) \in Keys /\ Top(a).at = l
  BY Given, TidyTop DEF KeyLabels
<1>2. Top(a) \in Senders
  BY <1>1 DEF Senders, Ends, Interrupting
<1> QED BY <1>1, <1>2 DEF Served

\* A call begins on an actor that was idle, and it is not one of interrupt_session's.
LEMMA EnterKeys ==
  ASSUME Stacks, Tidy, NEW a \in Actors, Idle(a), NEW l \in Labels \ (KeyLabels \cup Owning),
         NEW m \in Tasks, Enter(a, Called(l, m)), lock' = lock
  PROVE  Tidy' /\ Senders' = Senders /\ Finishing' = Finishing
<1> DEFINE f == Called(l, m)
<1>1. f \in Frame /\ f.at = l
  BY CalledFrame
<1> HIDE DEF f
<1>2. Swaps(a, {}, {f})
  BY <1>1, EnterSwaps DEF f, Stacks
<1>3. Keys' = Keys /\ Tidy'
  BY <1>1, <1>2, QuietSwaps DEF Owns
<1> QED BY <1>3, SameKeys

\* The steps, by what they do to the key frames.
Steady == Tidy' /\ Senders' = Senders /\ Finishing' = Finishing
Stands == Steady /\ UNCHANGED <<state, life, task, superseded, interrupted, client, cancelled,
                                closing, ready>>
LoopActs == SpawnOther \/ CancelCallback \/ InterruptCallback \/ CloseCallback \/ CloseEnds
            \/ CloseRequest

LEMMA Kinds ==
  ASSUME IInv, Tidy, Served, [Next]_vars, interrupts' = interrupts
  PROVE  \/ Stands
         \/ \E a \in Actors : SendPasses(a) \/ SendFlip(a) \/ SendSchedule(a)
         \/ \E k \in Tasks : Work(k)
         \/ LoopActs
<1> DEFINE Goal == \/ Stands
                   \/ \E a \in Actors : SendPasses(a) \/ SendFlip(a) \/ SendSchedule(a)
                   \/ \E k \in Tasks : Work(k)
                   \/ LoopActs
<1>1. /\ Stacks /\ Lined /\ ready \in Seq(Items) /\ 0 \in Tasks /\ Messages \subseteq Tasks
      /\ queue \in Seq(Messages) /\ PlainType
  BY Given, BoundsAssumption DEF MessageType, Tasks
<1>2. ASSUME NEW a \in Actors, QuietStep(a) PROVE Stands
  <2>1. Steady
    BY <1>1, <1>2, QuietKeys, SameKeys DEF Steady
  <2>2. UNCHANGED <<state, life, task, superseded, interrupted, client, cancelled, closing,
                    ready>>
    BY <1>2 DEF QuietStep, SendAcquire, SendRefuse, SendBusy, SendUnlock, QueueAppend,
       QueueCheck, DispatchEmpty, DispatchPop, DispatchRequeue, EmitTrim, EmitCheck,
       EmitTimer, ReemitCheck, flags, turns
  <2> QED BY <2>1, <2>2 DEF Stands
<1>3. ASSUME NEW a \in Actors, Step(a) PROVE Goal
  <2>1. ~(InterruptPop(a) \/ InterruptFlag(a) \/ InterruptIdle(a) \/ InterruptCapture(a)
          \/ InterruptSchedule(a))
    BY NoInterrupt DEF InterruptPop, InterruptFlag, InterruptIdle, InterruptCapture,
       InterruptSchedule, Interrupting
  <2> QED BY <1>2, <1>3, <2>1 DEF Step, QuietStep
<1>4. ASSUME NEW d \in Timers, ReemitFires(d) PROVE Stands
  <2>1. /\ d \in Actors /\ Idle(d) /\ Enter(d, Called("re_check", 0)) /\ lock' = lock
        /\ UNCHANGED <<state, life, task, superseded, interrupted, client, cancelled, closing,
                       ready>>
    BY <1>4 DEF ReemitFires, Actors, flags, turns
  <2>2. Steady
    BY <1>1, <2>1, EnterKeys DEF Labels, KeyLabels, Owning, Interrupting, Steady
  <2> QED BY <2>1, <2>2 DEF Stands
<1>5. ASSUME NEW t \in Threads, NEW l \in {"sm_lock", "qm_append"}, Accept(t, l) PROVE Stands
  <2>1. /\ t \in Actors /\ Idle(t) /\ Enter(t, Called(l, accepted + 1)) /\ lock' = lock
        /\ UNCHANGED <<state, life, task, superseded, interrupted, client, cancelled, closing,
                       ready>>
        /\ accepted < MaxMessages
    BY <1>5 DEF Accept, Request, Actors, flags, turns
  <2>2. accepted + 1 \in Tasks
    BY <1>1, <2>1, BoundsAssumption DEF Tasks, PlainType
  <2>3. Steady
    BY <1>1, <2>1, <2>2, EnterKeys DEF Labels, KeyLabels, Owning, Interrupting, Steady
  <2> QED BY <2>1, <2>3 DEF Stands
<1>6. ASSUME NEW t \in Threads, InterruptRequest(t) PROVE FALSE
  <2>1. interrupts' = interrupts + 1
    BY <1>6 DEF InterruptRequest
  <2> QED BY <1>1, <2>1, BoundsAssumption DEF PlainType
<1>7. ASSUME UNCHANGED vars PROVE Stands
  <2>1. UNCHANGED <<stack, lock, state, life, task, superseded, interrupted, client, cancelled,
                    closing, ready>>
    BY <1>7 DEF vars
  <2> QED BY <1>1, <2>1, StayKeys DEF Stands, Steady
<1>8. LoopStep => Goal
  <2>1. \A k \in Tasks : TurnBegins(k) \/ TurnResets(k) \/ Thrown(k) \/ Catch(k) \/ Final(k)
                        => Work(k)
    BY DEF Work
  <2>2. SpawnTurn => Head(ready).x \in Tasks /\ Work(Head(ready).x)
    BY <1>1, Spawner DEF Work
  <2> QED BY <2>1, <2>2 DEF LoopStep, LoopActs
<1>9. \A k \in Tasks : Awaited(k) \/ Trouble(k) => Work(k)
  BY DEF Awaited, Trouble, Work
<1>10. \A t \in Threads : Requests(t) => Stands
  BY <1>5, <1>6 DEF Requests, SendRequest, QueueRequest
<1> HIDE DEF Goal
<1>11. Stands \/ CloseRequest \/ (\E k \in Tasks : Work(k)) => Goal
  BY DEF Goal, LoopActs
<1>12. Goal
  BY <1>3, <1>4, <1>7, <1>8, <1>9, <1>10, <1>11 DEF Next
<1> QED BY <1>12 DEF Goal

LEMMA LoopActsKeys ==
  ASSUME IInv, Tidy, LoopActs
  PROVE  Steady /\ UNCHANGED <<life, task, superseded, interrupted>>
         /\ state' \in {state, "stopped"}
<1>1. Stacks /\ 0 \in Tasks
  BY Given, BoundsAssumption DEF Tasks
<1>2. UNCHANGED <<lock, life, task, superseded, interrupted>> /\ state' \in {state, "stopped"}
  BY DEF LoopActs, SpawnOther, CancelCallback, InterruptCallback, CloseCallback, CloseEnds,
     CloseRequest, flags, turns
<1>3. UNCHANGED stack \/ (Idle(Loop) /\ Enter(Loop, Called("es_trim", 0)))
  BY DEF LoopActs, SpawnOther, CancelCallback, InterruptCallback, CloseCallback, CloseEnds,
     CloseRequest, LoopFree
<1>4. Steady
  BY <1>1, <1>2, <1>3, StayKeys, EmitKeys DEF Steady
<1> QED BY <1>2, <1>4

LEMMA ServedStep ==
  ASSUME IInv, Tidy, Served, [Next]_vars, interrupts' = interrupts
  PROVE  Tidy' /\ Served'
<1>1. CASE Stands
  BY <1>1, QuietServed DEF Stands, Steady
<1>2. CASE LoopActs
  BY <1>2, LoopActsKeys, QuietServed DEF Steady
<1>3. ASSUME NEW k \in Tasks, Work(k) PROVE Tidy' /\ Served'
  <2>1. life[k] # "none"
    BY <1>3, Given, WorkAdvances DEF Advances
  <2> QED BY <1>3, <2>1, WorkServes, WorkServed
<1> QED BY <1>1, <1>2, <1>3, Kinds, PassesServed, FlipServed, ScheduleServed

LEMMA InitServed ==
  ASSUME Init
  PROVE  Tidy /\ Served
<1>1. \A a \in Actors : stack[a] = << >>
  BY DEF Init
<1>2. Keys = {}
  BY <1>1, NoFrames DEF Keys, KeyIn
<1>3. Senders = {} /\ Finishing = {}
  BY <1>2 DEF Senders, Finishing
<1>4. Tidy
  BY <1>1, NoFrames DEF Tidy, Owns
<1>5. \A k \in Tasks : Holds(k) => k = 0 /\ life[0] = "turn"
  BY <1>3 DEF Init, Holds, Turning, Scheduled, Busy
<1>6. \A k \in Tasks : Turning(k) => k = 0
  BY <1>5 DEF Holds
<1>7. task = 0 /\ (life[0] = "turn" => state = "working")
  <2>1. 0 \in Tasks
    BY BoundsAssumption DEF Tasks
  <2> QED BY <2>1 DEF Init
<1>8. Served
  BY <1>3, <1>5, <1>6, <1>7 DEF Served
<1> QED BY <1>4, <1>8

Undisturbed == interrupts = 0 => Tidy /\ Served

\* As long as nobody has called interrupt_session, one message has the session.
THEOREM UndisturbedHolds == Spec => []Undisturbed
<1>1. Init => Undisturbed
  BY InitServed DEF Undisturbed
<1>2. IInv /\ Undisturbed /\ [Next]_vars => Undisturbed'
  <2>1. SUFFICES ASSUME IInv, Undisturbed, [Next]_vars, interrupts' = 0
                 PROVE  Tidy' /\ Served'
    BY DEF Undisturbed
  <2>2. interrupts' = interrupts
    <3>1. interrupts \in Nat /\ interrupts' \in {interrupts, interrupts + 1}
      BY <2>1, Given, Counted DEF PlainType
    <3> QED BY <2>1, <3>1
  <2> QED BY <2>1, <2>2, ServedStep DEF Undisturbed
<1> QED BY <1>1, <1>2, Invariant, PTL DEF Spec

\* Two sends that both see IDLE do not both start a turn, whatever closes, failures, dead
\* clients and turns of the CLI's own come between them: only interrupt_session, which sets
\* IDLE without the lock, lets a second one in.
THEOREM OneTurnHolds == Spec => [](interrupts = 0 => OneTurn)
<1>1. ASSUME IInv, Undisturbed, interrupts = 0 PROVE OneTurn
  <2> DEFINE T == {k \in Tasks : life[k] = "turn" /\ k \notin cancelled}
  <2>1. Served /\ Tidy
    BY <1>1 DEF Undisturbed
  <2>2. \A k \in T : Holds(k)
    BY <2>1 DEF Served, Holds, Turning, Busy, Finals
  <2>3. \A j, k \in T : j = k
    BY <2>1, <2>2 DEF Served
  <2>4. T = {} \/ \E k \in T : T = {k}
    BY <2>3
  <2>5. Cardinality({}) = 0 /\ \A k : Cardinality({k}) = 1
    BY FS_EmptySet, FS_Singleton
  <2>6. Cardinality(T) <= 1
    <3> HIDE DEF T
    <3> QED BY <2>4, <2>5
  <2> QED BY <2>6 DEF OneTurn
<1>2. IInv /\ Undisturbed => (interrupts = 0 => OneTurn)
  BY <1>1
<1> QED BY <1>2, Invariant, UndisturbedHolds, PTL

\* In a run without interrupts there is never a second turn.
THEOREM OneTurnUninterrupted == MaxInterrupts = 0 => (Spec => []OneTurn)
<1> SUFFICES ASSUME MaxInterrupts = 0 PROVE Spec => []OneTurn
  OBVIOUS
<1>1. IInv => interrupts = 0
  BY Given DEF PlainType
<1> QED BY <1>1, Invariant, OneTurnHolds, PTL

-----------------------------------------------------------------------------
(* The line of callbacks, as a set.                                        *)

LEMMA LineSets ==
  ASSUME NEW s \in Seq(Items), NEW e \in Items
  PROVE  /\ Append(s, e) \in Seq(Items) /\ ToSet(Append(s, e)) = ToSet(s) \cup {e}
         /\ s # << >> => /\ Head(s) \in Items /\ Tail(s) \in Seq(Items)
                         /\ ToSet(s) = {Head(s)} \cup ToSet(Tail(s))
         /\ s \o <<e>> = Append(s, e) /\ s \o (<< >> \o <<e>>) = Append(s, e)
         /\ \A d \in Items : s \o (<<d>> \o <<e>>) = Append(Append(s, d), e)
<1>1. ToSet(Append(s, e)) = ToSet(s) \cup {e}
  <2>1. /\ Len(s) \in Nat /\ DOMAIN s = 1 .. Len(s)
        /\ DOMAIN Append(s, e) = 1 .. Len(s) + 1 /\ Append(s, e)[Len(s) + 1] = e
        /\ \A i \in DOMAIN s : Append(s, e)[i] = s[i]
    BY Positions
  <2> DEFINE u == Append(s, e)
  <2> HIDE DEF u
  <2>2. /\ \A i \in DOMAIN u : i = Len(s) + 1 \/ (i \in DOMAIN s /\ u[i] = s[i])
        /\ \A i \in DOMAIN s : i \in DOMAIN u /\ u[i] = s[i]
        /\ Len(s) + 1 \in DOMAIN u /\ u[Len(s) + 1] = e
    BY <2>1 DEF u
  <2>3. ToSet(u) = ToSet(s) \cup {e}
    BY <2>2 DEF ToSet
  <2> QED BY <2>3 DEF u
<1>2. ASSUME s # << >>
      PROVE  /\ Head(s) \in Items /\ Tail(s) \in Seq(Items)
             /\ ToSet(s) = {Head(s)} \cup ToSet(Tail(s))
  <2> DEFINE t == Tail(s)
  <2>1. /\ Len(s) \in Nat /\ DOMAIN s = 1 .. Len(s) /\ Len(s) > 0 /\ Head(s) = s[1]
        /\ Head(s) \in Items /\ t \in Seq(Items)
        /\ DOMAIN t = 1 .. Len(s) - 1 /\ \A i \in DOMAIN t : t[i] = s[i + 1]
    BY <1>2
  <2> HIDE DEF t
  <2>2. 1 \in DOMAIN s /\ \A i \in DOMAIN t : i + 1 \in DOMAIN s
    BY <2>1
  <2>3. \A i \in DOMAIN s : i = 1 \/ (i - 1 \in DOMAIN t /\ t[i - 1] = s[i])
    <3>1. \A i \in DOMAIN s : i = 1 \/ (i - 1 \in DOMAIN t /\ (i - 1) + 1 = i)
      BY <2>1
    <3> QED BY <2>1, <3>1
  <2>4. ToSet(s) = {Head(s)} \cup ToSet(t)
    BY <2>1, <2>2, <2>3 DEF ToSet
  <2> QED BY <2>1, <2>4 DEF t
<1>3. Append(s, e) \in Seq(Items) /\ s \o <<e>> = Append(s, e)
      /\ s \o (<< >> \o <<e>>) = Append(s, e)
  OBVIOUS
<1>4. \A d \in Items : s \o (<<d>> \o <<e>>) = Append(Append(s, d), e)
  OBVIOUS
<1> QED BY <1>1, <1>2, <1>3, <1>4

\* A callback runs, and puts another one behind the line or none.
LEMMA TakenSets ==
  ASSUME ready \in Seq(Items), ready # << >>
  PROVE  /\ Head(ready) \in Items /\ ToSet(ready) = {Head(ready)} \cup ToSet(Taken)
         /\ ready' = Taken => ToSet(ready) = {Head(ready)} \cup ToSet(ready')
         /\ \A e \in Items : ready' = Append(Taken, e) =>
              /\ ToSet(ready') = ToSet(Taken) \cup {e}
              /\ ToSet(ready) \cup {e} = {Head(ready)} \cup ToSet(ready')
<1>1. Item("step", None) \in Items
  BY DEF Item, Items, Calls
<1>2. Head(ready) \in Items /\ Taken \in Seq(Items)
      /\ ToSet(ready) = {Head(ready)} \cup ToSet(Taken)
  BY <1>1, LineSets DEF Taken
<1>3. \A e \in Items : ToSet(Append(Taken, e)) = ToSet(Taken) \cup {e}
  BY <1>2, LineSets
<1> QED BY <1>2, <1>3

\* What a step for coroutine k does to the line: it takes the callbacks of k alone.
LineServes(k) ==
  /\ \A e \in ToSet(ready') : e \in ToSet(ready) \/ e.do = "step"
  /\ \A e \in ToSet(ready) : e \in ToSet(ready') \/ e.do \in {"spawn", "step"}
                             \/ (e = Item("throw", k) /\ Thrown(k))

LEMMA WorkLine ==
  ASSUME IInv, NEW k \in Tasks, Work(k)
  PROVE  LineServes(k)
<1>1. ready \in Seq(Items) /\ Lined
  BY Given
<1>2. Item("step", k) \in Items /\ Item("step", k).do = "step"
  BY DEF Item, Items, Calls
<1>3. ready' = ready => LineServes(k)
  BY DEF LineServes
<1>4. CASE SpawnTurn /\ Head(ready).x = k
  <2>1. /\ ready # << >> /\ Head(ready).do = "spawn"
        /\ ready' = Append(Taken, Item("step", k))
    BY <1>4 DEF SpawnTurn, Runs
  <2> QED BY <1>1, <1>2, <2>1, TakenSets DEF LineServes
<1>5. CASE TurnBegins(k)
  <2>1. /\ ready # << >> /\ Head(ready).do = "step"
        /\ ready' = Append(Taken, Item("step", k))
    BY <1>5 DEF TurnBegins, Runs
  <2> QED BY <1>1, <1>2, <2>1, TakenSets DEF LineServes
<1>6. CASE TurnResets(k)
  <2>1. ready # << >> /\ Head(ready).do = "step" /\ ready' = Taken
    BY <1>6 DEF TurnResets, Runs
  <2> QED BY <1>1, <2>1, TakenSets DEF LineServes
<1>7. CASE Thrown(k)
  <2>1. /\ ready # << >> /\ Head(ready).do = "throw" /\ Head(ready).x = k /\ ready' = Taken
    BY <1>7 DEF Thrown, Runs
  <2>2. Head(ready) = Item("throw", k)
    <3>1. Head(ready) \in Items
      BY <1>1, <2>1, TakenSets
    <3> QED BY <2>1, <3>1 DEF Items, Item
  <2> QED BY <1>1, <1>7, <2>1, <2>2, TakenSets DEF LineServes
<1>8. ASSUME Work(k), ready' # ready
      PROVE  (SpawnTurn /\ Head(ready).x = k) \/ TurnBegins(k) \/ TurnResets(k) \/ Thrown(k)
  BY <1>8 DEF Work, Catch, Final, Reconnected, QuerySent, TurnResult, TurnSettles, DrainEnds,
     ResumedResult, EndedWithoutResult, Mend, Mended, Unwound, SnapshotDone, ReconnectFails,
     ListenFails, AutoResumes, StreamStops
<1> QED BY <1>3, <1>4, <1>5, <1>6, <1>7, <1>8

-----------------------------------------------------------------------------
(* Cancellations, and who is cancelled.                                    *)

Throws(k)  == Item("throw", k) \in ToSet(ready)
Passed(k)  == life[k] # "none" /\ ~Turning(k)
\* The listener that streams a turn of the CLI's own.
Streams(k) == life[k] = "resumed" /\ task = k /\ ~superseded
Lent(k)    == Streams(k) /\ client /\ k \notin Finishing

\* A CancelledError is on its way to whoever is cancelled; a send cancels only a
\* coroutine that is past its RESULT; and a turn that has begun is not superseded.
Prompt ==
  /\ ~interrupted
  /\ \A e \in ToSet(ready) : e.do \notin {"spawn_interrupt", "interrupt"}
  /\ \A k \in cancelled : life[k] \in {"created", "yielded"} \/ Throws(k)
  /\ \A f \in Senders : f.at = "sm_schedule" /\ f.x # None => Passed(f.x)
  /\ \A k \in Tasks : Item("cancel", k) \in ToSet(ready) => Passed(k)
  /\ \A k \in Tasks : Turning(k) /\ life[k] \in Own \ {"yielded"} => ~superseded

\* What a step for coroutine k does to that, and to the state of the session.
Proceeds(k) ==
  /\ ~interrupted' /\ closing' = closing
  /\ cancelled' \subseteq cancelled
  /\ \A j \in Tasks \ {k} : j \in cancelled' <=> j \in cancelled
  /\ k \in cancelled' => life'[k] \in {"created", "yielded"}
  /\ life'[k] # "none"
  /\ superseded' => superseded
  /\ Turning(k)' /\ life'[k] \in Own \ {"yielded"} => ~superseded'
  /\ client' = client \/ Turning(k)
  /\ state' \in {state, "idle", "working"}
  /\ state' = "working" => state = "working" \/ (state = "idle" /\ Lent(k)')
  /\ life'[k] = "resumed" => k \in Finishing' \/ (Streams(k)' /\ state' = "working")
  /\ failures' = failures /\ state' = "working" =>
       /\ Turning(k) /\ ~Turning(k)' => k \in cancelled
       /\ ~Lent(k)

LEMMA WorkProceeds ==
  ASSUME IInv, Tidy, Served, Prompt, NEW k \in Tasks, Work(k)
  PROVE  Proceeds(k)
<1>1. /\ LifeType /\ ready \in Seq(Items) /\ Stacks /\ Lined /\ failures \in Nat
  BY Given, BoundsAssumption DEF PlainType
<1>2. lock' = lock =>
         /\ Idle(Loop) => Finishing = {}
         /\ At(Loop, "tk_catch") \/ At(Loop, "tk_final") => Finishing = {Top(Loop).m}
         /\ Idle(Loop) /\ Emits => Tidy' /\ Senders' = Senders /\ Finishing' = {}
         /\ (Idle(Loop) \/ At(Loop, "tk_catch")) /\ Ender(k) =>
              Tidy' /\ Senders' = Senders /\ Finishing' = {k}
         /\ (At(Loop, "tk_catch") \/ At(Loop, "tk_final")) /\ Return(Loop) =>
              Tidy' /\ Senders' = Senders /\ Finishing' = {}
  BY <1>1, LoopKeys
<1>3. \A j \in Tasks : life[j] \in Own /\ j \notin Finishing => task = j
  BY DEF Served, Turning, Own
<1>4. ~interrupted /\ (life[k] \in Own \ {"yielded"} /\ k \notin Finishing => ~superseded)
  BY DEF Prompt, Turning, Own
<1>5. life[k] = "spawned" => k \notin cancelled
  <2>1. ASSUME Throws(k) PROVE life[k] \in Throwable
    <3>1. PICK i \in DOMAIN ready : ready[i] = Item("throw", k)
      BY <2>1 DEF Throws, ToSet
    <3> QED BY <1>1, <3>1 DEF Lined, Item
  <2> QED BY <2>1 DEF Prompt, Throwable
<1>6. \A j \in Finishing : life[j] \in Finals
  BY DEF Served
<1> USE DEF LifeType, Proceeds, Turning, Streams, Lent, Busy, Own, Finals, Dies, Gone, Becomes,
       Waits, LoopFree, Emits, Fails, FailsIf, flags, turns, messages, counts
<1>7. CASE SpawnTurn /\ Head(ready).x = k
  BY <1>1, <1>2, <1>4, <1>5, <1>7, Spawner, Running DEF SpawnTurn, Runs
<1>8. CASE TurnBegins(k)
  BY <1>1, <1>2, <1>4, <1>8 DEF TurnBegins, Runs
<1>9. CASE TurnResets(k)
  BY <1>1, <1>2, <1>3, <1>4, <1>9 DEF TurnResets, Runs
<1>10. CASE Thrown(k)
  <2>1. k \in cancelled /\ life[k] \in Throwable
    BY <1>1, <1>10, Thrower
  <2>2. CASE life[k] \in {"reconnect", "prep", "snap"}
    BY <1>1, <1>2, <1>4, <1>10, <2>1, <2>2 DEF Thrown, Runs
  <2>3. CASE life[k] = "turn"
    BY <1>1, <1>2, <1>4, <1>10, <2>1, <2>3 DEF Thrown, Runs
  <2>4. CASE life[k] = "mend"
    BY <1>1, <1>2, <1>4, <1>10, <2>1, <2>4 DEF Thrown, Runs, Ender
  <2>5. CASE life[k] \in {"drain", "listen", "resumed"}
    <3>1. /\ Handler(k, "tk_final") /\ Idle(Loop) /\ lock' = lock
          /\ UNCHANGED <<interrupted, superseded, client, closing>>
      BY <1>10, <2>5 DEF Thrown, Runs
    <3> QED BY <1>1, <1>2, <1>4, <2>5, <3>1 DEF Handler, Ender, Touches, Bailing
  <2> QED BY <2>1, <2>2, <2>3, <2>4, <2>5 DEF Throwable
<1>11. CASE Catch(k)
  <2>1. k \notin cancelled
    BY <1>1, <1>11, AtEnd DEF Catch
  <2> QED BY <1>1, <1>2, <1>4, <1>6, <1>11, <2>1 DEF Catch, Ender
<1>12. CASE Final(k)
  <2>1. k \notin cancelled
    BY <1>1, <1>12, AtEnd DEF Final
  <2> QED BY <1>1, <1>2, <1>4, <1>6, <1>12, <2>1 DEF Final
<1>13. CASE Reconnected(k)
  BY <1>1, <1>2, <1>4, <1>13 DEF Reconnected
<1>14. CASE QuerySent(k)
  BY <1>1, <1>2, <1>4, <1>14 DEF QuerySent
<1>15. CASE TurnResult(k)
  BY <1>1, <1>2, <1>4, <1>15 DEF TurnResult
<1>16. CASE TurnSettles(k)
  BY <1>1, <1>2, <1>4, <1>16 DEF TurnSettles
<1>17. CASE DrainEnds(k)
  BY <1>1, <1>2, <1>4, <1>17 DEF DrainEnds, Ender
<1>18. CASE ResumedResult(k)
  BY <1>1, <1>2, <1>4, <1>18 DEF ResumedResult
<1>19. CASE EndedWithoutResult(k)
  BY <1>1, <1>2, <1>3, <1>4, <1>19 DEF EndedWithoutResult, Ender
<1>20. CASE Mend(k)
  BY <1>1, <1>2, <1>4, <1>20 DEF Mend, Ender
<1>21. CASE Mended(k)
  BY <1>1, <1>2, <1>4, <1>21 DEF Mended, Ender
<1>22. CASE Unwound(k)
  BY <1>1, <1>2, <1>4, <1>22 DEF Unwound, Handler, Ender
<1>23. CASE SnapshotDone(k)
  BY <1>1, <1>2, <1>4, <1>23 DEF SnapshotDone
<1>24. CASE ReconnectFails(k)
  BY <1>1, <1>2, <1>4, <1>24 DEF ReconnectFails
<1>25. CASE ListenFails(k)
  BY <1>1, <1>2, <1>4, <1>25 DEF ListenFails, Ender
<1>26. CASE AutoResumes(k)
  BY <1>1, <1>2, <1>4, <1>26 DEF AutoResumes, Bailing
<1>27. CASE StreamStops(k, "ended") \/ StreamStops(k, "broken")
  BY <1>1, <1>2, <1>4, <1>27 DEF StreamStops
<1> HIDE DEF LifeType, Proceeds, Turning, Streams, Lent, Busy, Own, Finals, Dies, Gone, Becomes,
       Waits, LoopFree, Emits, Fails, FailsIf, flags, turns, messages, counts
<1> QED
  BY <1>7, <1>8, <1>9, <1>10, <1>11, <1>12, <1>13, <1>14, <1>15, <1>16, <1>17, <1>18,
     <1>19, <1>20, <1>21, <1>22, <1>23, <1>24, <1>25, <1>26, <1>27
     DEF Work

\* Whoever is cancelled has begun, and has not ended.
LEMMA CancelledLives ==
  ASSUME IInv, Prompt, NEW k \in cancelled
  PROVE  k \in Tasks /\ life[k] \in {"created", "yielded"} \cup Throwable
<1>1. Lined /\ LifeType
  BY Given
<1>2. ASSUME Throws(k) PROVE life[k] \in Throwable
  <2>1. PICK i \in DOMAIN ready : ready[i] = Item("throw", k)
    BY <1>2 DEF Throws, ToSet
  <2> QED BY <1>1, <2>1 DEF Lined, Item
<1> QED BY <1>1, <1>2 DEF Prompt, LifeType

\* The callbacks that a step neither takes nor posts.
LineKept(N) ==
  /\ \A e \in ToSet(ready') : e \in ToSet(ready) \/ e.do \in N
  /\ \A e \in ToSet(ready) : e \in ToSet(ready') \/ e.do \in N

LEMMA SenderTasks ==
  ASSUME IInv, NEW f \in Senders
  PROVE  f.x \in Tasks \cup {None}
<1>1. PICK b \in Actors : f \in ToSet(stack[b])
  BY DEF Senders, Keys, KeyIn
<1>2. stack[b] \in Seq(Frame)
  BY Given DEF Stacks
<1>3. \A i \in DOMAIN stack[b] : stack[b][i] \in Frame
  BY <1>2
<1> QED BY <1>1, <1>3 DEF ToSet, Frame

LEMMA StandsPrompt ==
  ASSUME IInv, Prompt, Senders' = Senders, Finishing' = Finishing,
         LineKept({"spawn_close", "close"}), UNCHANGED <<life, superseded, interrupted, cancelled>>
  PROVE  Prompt'
<1>1. \A k : /\ Throws(k) => Throws(k)'
             /\ Item("cancel", k) \in ToSet(ready') => Item("cancel", k) \in ToSet(ready)
  BY DEF LineKept, Throws, Item
<1>2. \A k : (Turning(k)' <=> Turning(k)) /\ (Passed(k)' <=> Passed(k))
  BY DEF Turning, Passed
<1>3. \A e \in ToSet(ready') : e.do \notin {"spawn_interrupt", "interrupt"}
  BY DEF LineKept, Prompt
<1> QED BY <1>1, <1>2, <1>3 DEF Prompt

LEMMA PassesPrompt ==
  ASSUME IInv, Tidy, Prompt, NEW a \in Actors, SendPasses(a)
  PROVE  Prompt'
<1>1. /\ Keys \subseteq Keys' /\ \A f \in Keys' : f \in Keys \/ f.at = "sm_flip"
  BY Given, PassesKeys
<1>2. UNCHANGED <<life, superseded, interrupted, cancelled, ready>>
  BY DEF SendPasses, flags, turns
<1>3. \A f \in Senders' : f \in Senders \/ f.at = "sm_flip"
  BY <1>1 DEF Senders
<1>4. Finishing' = Finishing
  BY <1>1 DEF Finishing, Ends
<1>5. \A k : (Turning(k)' <=> Turning(k)) /\ (Passed(k)' <=> Passed(k)) /\ (Throws(k)' <=> Throws(k))
  BY <1>2, <1>4 DEF Turning, Passed, Throws
<1>6. \A f \in Senders' : f.at = "sm_schedule" /\ f.x # None => Passed(f.x)'
  BY <1>3, <1>5 DEF Prompt
<1> QED BY <1>2, <1>5, <1>6 DEF Prompt

LEMMA FlipPrompt ==
  ASSUME IInv, Tidy, Served, Prompt, NEW a \in Actors, SendFlip(a)
  PROVE  Prompt'
<1>1. /\ Stacks /\ 0 \in Tasks /\ task \in Tasks \cup {None}
  BY Given, BoundsAssumption DEF PlainType, Tasks
<1>2. /\ Top(a) \in Keys /\ Top(a).at = "sm_flip"
      /\ \A f \in Keys : f \in Keys' \/ f.at = "sm_flip"
  BY <1>1, FlipKeys
<1>3. PICK g \in Keys' : /\ g.at = "sm_schedule" /\ g.x = Current
                         /\ Keys' \subseteq Keys \cup {g}
  BY <1>1, FlipKeys
<1>4. UNCHANGED <<life, interrupted, cancelled, ready>>
  BY DEF SendFlip, turns
<1>5. /\ Senders' \subseteq Senders \cup {g} /\ Finishing' = Finishing
  BY <1>2, <1>3 DEF Senders, Finishing, Ends
<1>6. \A j \in Tasks : ~Turning(j)
  <2>1. Top(a) \in Senders
    BY <1>2 DEF Senders, Ends
  <2> QED BY <1>2, <2>1 DEF Served, Holds
<1>7. \A k : (Turning(k)' <=> Turning(k)) /\ (Passed(k)' <=> Passed(k)) /\ (Throws(k)' <=> Throws(k))
  BY <1>4, <1>5 DEF Turning, Passed, Throws
<1>8. Current # None => Passed(Current)
  BY <1>1, <1>6 DEF Current, Passed, Alive
<1>9. \A f \in Senders' : f.at = "sm_schedule" /\ f.x # None => Passed(f.x)'
  BY <1>3, <1>5, <1>7, <1>8 DEF Prompt
<1> QED BY <1>4, <1>6, <1>7, <1>9 DEF Prompt

\* What a send posts, and whose coroutine it is.
LEMMA ScheduleLine ==
  ASSUME IInv, Tidy, NEW a \in Actors, SendSchedule(a)
  PROVE  /\ Top(a).m \in Tasks /\ life[Top(a).m] = "none" /\ life'[Top(a).m] = "spawned"
         /\ \A j \in Tasks \ {Top(a).m} : life'[j] = life[j]
         /\ Tidy' /\ Top(a) \in Senders /\ Top(a).at = "sm_schedule"
         /\ Senders' \subseteq Senders /\ Senders \subseteq Senders' \cup {Top(a)}
         /\ Finishing' = Finishing
         /\ \/ Top(a).x # None
               /\ ToSet(ready') = ToSet(ready) \cup {Item("cancel", Top(a).x),
                                                     Item("spawn", Top(a).m)}
            \/ Top(a).x = None /\ ToSet(ready') = ToSet(ready) \cup {Item("spawn", Top(a).m)}
         /\ UNCHANGED <<state, task, superseded, interrupted, client, cancelled, closing>>
<1> DEFINE m == Top(a).m
           x == Top(a).x
<1>1. /\ Stacks /\ LifeType /\ ready \in Seq(Items)
  BY Given
<1>2. /\ Tidy' /\ Top(a) \in Keys /\ Top(a).at = "sm_schedule" /\ m \in Tasks
      /\ Keys' \subseteq Keys /\ Keys \subseteq Keys' \cup {Top(a)}
  BY <1>1, ScheduleKeys
<1>3. /\ Top(a) \in Senders /\ Senders' \subseteq Senders
      /\ Senders \subseteq Senders' \cup {Top(a)} /\ Finishing' = Finishing
  BY <1>2 DEF Senders, Finishing, Ends
<1>4. life[m] = "none"
  BY <1>2, <1>3, SenderFrames
<1>5. /\ life'[m] = "spawned" /\ \A j \in Tasks \ {m} : life'[j] = life[j]
      /\ UNCHANGED <<state, task, superseded, interrupted, client, cancelled, closing>>
  BY <1>1, <1>2 DEF SendSchedule, flags, LifeType
<1>6. x \in Tasks \cup {None}
  BY <1>1, AtTop DEF SendSchedule, Frame
<1>7. \/ x # None /\ ready' = ready \o (<<Item("cancel", x)>> \o <<Item("spawn", m)>>)
      \/ x = None /\ ready' = ready \o (<< >> \o <<Item("spawn", m)>>)
  BY DEF SendSchedule, Post
<1> HIDE DEF m, x
<1>8. Item("cancel", x) \in Items /\ Item("spawn", m) \in Items
  BY <1>2, <1>6 DEF Item, Items, Calls
<1>9. \/ x # None /\ ToSet(ready') = ToSet(ready) \cup {Item("cancel", x), Item("spawn", m)}
      \/ x = None /\ ToSet(ready') = ToSet(ready) \cup {Item("spawn", m)}
  <2>1. CASE x = None
    <3>1. ready' = Append(ready, Item("spawn", m))
      BY <1>1, <1>7, <1>8, <2>1, LineSets
    <3> QED BY <1>1, <1>8, <2>1, <3>1, LineSets
  <2>2. CASE x # None
    <3>1. ready' = Append(Append(ready, Item("cancel", x)), Item("spawn", m))
      BY <1>1, <1>7, <1>8, <2>2, LineSets
    <3>2. /\ Append(ready, Item("cancel", x)) \in Seq(Items)
          /\ ToSet(Append(ready, Item("cancel", x))) = ToSet(ready) \cup {Item("cancel", x)}
      BY <1>1, <1>8, LineSets
    <3>3. ToSet(ready') = ToSet(Append(ready, Item("cancel", x))) \cup {Item("spawn", m)}
      BY <1>8, <3>1, <3>2, LineSets
    <3> QED BY <2>2, <3>2, <3>3
  <2> QED BY <2>1, <2>2
<1> QED BY <1>2, <1>3, <1>4, <1>5, <1>9 DEF m, x

LEMMA SchedulePrompt ==
  ASSUME IInv, Tidy, Prompt, NEW a \in Actors, SendSchedule(a)
  PROVE  Prompt'
<1> DEFINE m == Top(a).m
           x == Top(a).x
<1>1. /\ m \in Tasks /\ life[m] = "none" /\ life'[m] = "spawned"
      /\ \A j \in Tasks \ {m} : life'[j] = life[j]
      /\ Top(a) \in Senders /\ Top(a).at = "sm_schedule"
      /\ Senders' \subseteq Senders /\ Finishing' = Finishing
      /\ \/ x # None /\ ToSet(ready') = ToSet(ready) \cup {Item("cancel", x), Item("spawn", m)}
         \/ x = None /\ ToSet(ready') = ToSet(ready) \cup {Item("spawn", m)}
      /\ UNCHANGED <<superseded, interrupted, cancelled>>
  BY ScheduleLine
<1>2. x # None => Passed(x)
  BY <1>1 DEF Prompt
<1> HIDE DEF m, x
<1>3. ASSUME NEW j \in Tasks, Passed(j) PROVE Passed(j)'
  BY <1>1, <1>3 DEF Passed, Turning
<1>4. ASSUME NEW e \in ToSet(ready')
      PROVE  e \in ToSet(ready) \/ e = Item("spawn", m) \/ (x # None /\ e = Item("cancel", x))
  BY <1>1, <1>4
<1>5. ToSet(ready) \subseteq ToSet(ready')
  BY <1>1
<1>6. \A e \in ToSet(ready') : e.do \notin {"spawn_interrupt", "interrupt"}
  BY <1>4 DEF Prompt, Item
<1>7. \A k \in cancelled' : life'[k] \in {"created", "yielded"} \/ Throws(k)'
  <2>1. m \notin cancelled
    BY <1>1, CancelledLives DEF Throwable
  <2>2. cancelled \subseteq Tasks
    BY Given DEF LifeType
  <2> QED BY <1>1, <1>5, <2>1, <2>2 DEF Prompt, Throws
<1>8. ASSUME NEW f \in Senders', f.at = "sm_schedule", f.x # None PROVE Passed(f.x)'
  <2>1. f \in Senders /\ Passed(f.x)
    BY <1>1, <1>8 DEF Prompt
  <2>2. f.x \in Tasks
    BY <1>8, <2>1, SenderTasks
  <2> QED BY <1>3, <2>1, <2>2
<1>9. ASSUME NEW k \in Tasks, Item("cancel", k) \in ToSet(ready') PROVE Passed(k)'
  <2>1. Item("cancel", k) # Item("spawn", m)
    BY DEF Item
  <2>2. x # None /\ Item("cancel", k) = Item("cancel", x) => x = k
    BY DEF Item
  <2>3. Passed(k)
    BY <1>2, <1>4, <1>9, <2>1, <2>2 DEF Prompt
  <2> QED BY <1>3, <2>3
<1>10. \A k \in Tasks : Turning(k)' /\ life'[k] \in Own \ {"yielded"} => ~superseded'
  BY <1>1 DEF Prompt, Turning, Own, Busy
<1> QED BY <1>1, <1>6, <1>7, <1>8, <1>9, <1>10 DEF Prompt

LEMMA WorkPrompt ==
  ASSUME IInv, Prompt, NEW k \in Tasks, Serves(k), Proceeds(k), LineServes(k)
  PROVE  Prompt'
<1>1. \A j \in Tasks : Passed(j) => Passed(j)'
  BY DEF Serves, Proceeds, Passed, Turning
<1>2. \A j : j # k /\ Throws(j) => Throws(j)'
  BY DEF LineServes, Throws, Item
<1>3. cancelled \subseteq Tasks
  BY Given DEF LifeType
<1>4. ~interrupted' /\ \A e \in ToSet(ready') : e.do \notin {"spawn_interrupt", "interrupt"}
  BY DEF Prompt, Proceeds, LineServes
<1>5. \A j \in cancelled' : life'[j] \in {"created", "yielded"} \/ Throws(j)'
  BY <1>2, <1>3 DEF Prompt, Proceeds, Serves
<1>6. ASSUME NEW f \in Senders', f.at = "sm_schedule", f.x # None PROVE Passed(f.x)'
  <2>1. f \in Senders /\ Passed(f.x)
    BY <1>6 DEF Prompt, Serves
  <2>2. f.x \in Tasks
    BY <1>6, <2>1, SenderTasks
  <2> QED BY <1>1, <2>1, <2>2
<1>7. \A j \in Tasks : Item("cancel", j) \in ToSet(ready') => Passed(j)'
  <2>1. \A j : Item("cancel", j).do # "step"
    BY DEF Item
  <2> QED BY <1>1, <2>1 DEF LineServes, Prompt
<1>8. \A j \in Tasks : Turning(j)' /\ life'[j] \in Own \ {"yielded"} => ~superseded'
  BY DEF Prompt, Proceeds, Serves, Turning
<1> QED BY <1>4, <1>5, <1>6, <1>7, <1>8 DEF Prompt

\* A cancellation that the loop runs.
LEMMA CancelsLine ==
  ASSUME IInv, NEW d, Runs(d), NEW k \in Tasks \cup {None}, Cancels(k, Taken)
  PROVE  /\ \A e \in ToSet(ready') : e \in ToSet(ready) \/ e = Item("throw", k)
         /\ \A e \in ToSet(ready) : e \in ToSet(ready') \/ e.do = d
         /\ Head(ready) \in ToSet(ready) /\ Head(ready).do = d /\ Head(ready) \in Items
         /\ \A j \in cancelled' :
              j \in cancelled \/ (j = k /\ (life[k] \in {"created", "yielded"} \/ Throws(k)'))
         /\ cancelled \subseteq cancelled'
         /\ k \in Tasks /\ life[k] = "resumed" => k \in cancelled'
<1>1. /\ ready \in Seq(Items) /\ ready # << >> /\ Head(ready).do = d /\ Head(ready) \in Items
      /\ None \notin Tasks
  BY Given, Running, ActorsAssumption, BoundsAssumption DEF Tasks
<1>2. Item("throw", k) \in Items
  BY DEF Item, Items, Calls
<1>3. ready' = Taken \/ ready' = Append(Taken, Item("throw", k))
  BY DEF Cancels
<1>4. /\ \A e \in ToSet(ready') : e \in ToSet(ready) \/ e = Item("throw", k)
      /\ \A e \in ToSet(ready) : e \in ToSet(ready') \/ e.do = d
      /\ Head(ready) \in ToSet(ready)
      /\ ready' = Append(Taken, Item("throw", k)) => Item("throw", k) \in ToSet(ready')
  BY <1>1, <1>2, <1>3, TakenSets
<1>5. /\ \A j \in cancelled' :
           j \in cancelled \/ (j = k /\ (life[k] \in {"created", "yielded"} \/ Throws(k)'))
      /\ cancelled \subseteq cancelled'
  BY <1>4 DEF Cancels, Throws
<1>6. k \in Tasks /\ life[k] = "resumed" => k \in cancelled'
  BY <1>1 DEF Cancels, Alive
<1> QED BY <1>1, <1>4, <1>5, <1>6

LEMMA CancelsPrompt ==
  ASSUME IInv, Prompt, NEW d \in {"cancel", "close"}, Runs(d), NEW k \in Tasks \cup {None},
         Cancels(k, Taken), Senders' = Senders, Finishing' = Finishing,
         UNCHANGED <<life, superseded, interrupted>>
  PROVE  Prompt'
<1>1. /\ \A e \in ToSet(ready') : e \in ToSet(ready) \/ e = Item("throw", k)
      /\ \A e \in ToSet(ready) : e \in ToSet(ready') \/ e.do = d
      /\ \A j \in cancelled' :
           j \in cancelled \/ (j = k /\ (life[k] \in {"created", "yielded"} \/ Throws(k)'))
  BY CancelsLine
<1>2. \A j : Throws(j) => Throws(j)'
  BY <1>1 DEF Throws, Item
<1>3. \A j : Item("cancel", j) \in ToSet(ready') => Item("cancel", j) \in ToSet(ready)
  BY <1>1 DEF Item
<1>4. \A j : (Turning(j)' <=> Turning(j)) /\ (Passed(j)' <=> Passed(j))
  BY DEF Turning, Passed
<1>5. \A e \in ToSet(ready') : e.do \notin {"spawn_interrupt", "interrupt"}
  BY <1>1 DEF Prompt, Item
<1>6. \A j \in cancelled' : life'[j] \in {"created", "yielded"} \/ Throws(j)'
  BY <1>1, <1>2 DEF Prompt
<1> QED BY <1>3, <1>4, <1>5, <1>6 DEF Prompt

LEMMA NoInterruptCallback ==
  ASSUME IInv, Prompt
  PROVE  ~InterruptCallback /\ ~Runs("spawn_interrupt")
<1>1. ASSUME NEW d \in {"spawn_interrupt", "interrupt"}, Runs(d) PROVE FALSE
  <2>1. ready # << >> /\ Head(ready).do = d /\ ready \in Seq(Items)
    BY <1>1, Given DEF Runs
  <2> QED BY <2>1, TakenSets DEF Prompt
<1> QED BY <1>1 DEF InterruptCallback

LEMMA LoopActsPrompt ==
  ASSUME IInv, Tidy, Prompt, LoopActs
  PROVE  Prompt'
<1>1. ready \in Seq(Items) /\ task \in Tasks \cup {None}
  BY Given DEF PlainType
<1>2. /\ Senders' = Senders /\ Finishing' = Finishing
      /\ UNCHANGED <<life, task, superseded, interrupted>>
  BY LoopActsKeys DEF Steady
<1>3. ASSUME LineKept({"spawn_close", "close"}), UNCHANGED cancelled PROVE Prompt'
  BY <1>2, <1>3, StandsPrompt
<1>4. Item("close", None) \in Items /\ Item("spawn_close", None) \in Items
      /\ Item("close", None).do = "close" /\ Item("spawn_close", None).do = "spawn_close"
  BY DEF Item, Items, Calls
<1>5. CASE SpawnOther
  <2>1. /\ ready # << >> /\ Head(ready).do = "spawn_close" /\ UNCHANGED cancelled
        /\ ready' = Append(Taken, Item("close", None))
    BY <1>5, NoInterruptCallback DEF SpawnOther, turns, Runs
  <2> QED BY <1>1, <1>3, <1>4, <2>1, TakenSets DEF LineKept
<1>6. CASE CancelCallback
  <2>1. Runs("cancel") /\ Cancels(Head(ready).x, Taken)
    BY <1>6 DEF CancelCallback
  <2>2. Head(ready).x \in Tasks \cup {None}
    BY <1>1, <2>1, Running
  <2> QED BY <1>2, <2>1, <2>2, CancelsPrompt
<1>7. CASE CloseCallback
  <2>1. Runs("close") /\ Cancels(task, Taken)
    BY <1>7 DEF CloseCallback
  <2> QED BY <1>1, <1>2, <2>1, CancelsPrompt
<1>8. CASE CloseEnds
  <2>1. UNCHANGED <<ready, cancelled>>
    BY <1>8 DEF CloseEnds, turns
  <2> QED BY <1>3, <2>1 DEF LineKept
<1>9. CASE CloseRequest
  <2>1. ready' = ready \o <<Item("spawn_close", None)>> /\ UNCHANGED cancelled
    BY <1>9 DEF CloseRequest, Post, turns
  <2>2. ToSet(ready') = ToSet(ready) \cup {Item("spawn_close", None)}
    BY <1>1, <1>4, <2>1, LineSets
  <2> QED BY <1>3, <1>4, <2>1, <2>2 DEF LineKept
<1> QED BY <1>5, <1>6, <1>7, <1>8, <1>9, NoInterruptCallback DEF LoopActs

LEMMA PromptStep ==
  ASSUME IInv, Tidy, Served, Prompt, [Next]_vars, interrupts' = interrupts
  PROVE  Prompt'
<1>1. CASE Stands
  <2>1. LineKept({"spawn_close", "close"})
    BY <1>1 DEF Stands, LineKept
  <2> QED BY <1>1, <2>1, StandsPrompt DEF Stands, Steady
<1>2. ASSUME NEW k \in Tasks, Work(k) PROVE Prompt'
  BY <1>2, WorkServes, WorkProceeds, WorkLine, WorkPrompt
<1> QED BY <1>1, <1>2, Kinds, PassesPrompt, FlipPrompt, SchedulePrompt, LoopActsPrompt

-----------------------------------------------------------------------------
(* A session that shows WORKING.                                           *)

\* While nothing fails, a session that shows WORKING is with a message that is not
\* cancelled, or with its listener, or about to be closed.
Working ==
  /\ state = "working" => closing \/ \E k \in Tasks : Holds(k) \/ Lent(k)
  /\ \A k \in cancelled : Holds(k) /\ state = "working" => closing

\* A step that leaves all of that alone.
LEMMA StandsWorking ==
  ASSUME Working, \A j \in Tasks : (Holds(j)' <=> Holds(j)) /\ (Lent(j) => Lent(j)'),
         cancelled \subseteq Tasks, UNCHANGED <<state, closing, cancelled>>
  PROVE  Working'
BY DEF Working

LEMMA FlipWorking ==
  ASSUME IInv, Tidy, Served, Prompt, Working, NEW a \in Actors, SendFlip(a)
  PROVE  Working'
<1>1. /\ Stacks /\ 0 \in Tasks /\ task \in Tasks \cup {None} /\ cancelled \subseteq Tasks
  BY Given, BoundsAssumption DEF PlainType, LifeType, Tasks
<1>2. PICK m \in Tasks : /\ m = Top(a).m /\ Top(a) \in Keys /\ Top(a).at = "sm_flip"
                         /\ \A f \in Keys : f \in Keys' \/ f.at = "sm_flip"
  BY <1>1, FlipKeys
<1>3. PICK g \in Keys' : /\ g.at = "sm_schedule" /\ g.m = m
                         /\ Keys' \subseteq Keys \cup {g}
  BY <1>1, <1>2, FlipKeys
<1>4. UNCHANGED <<life, cancelled, closing>>
  BY DEF SendFlip, turns
<1>5. /\ Senders' \subseteq Senders \cup {g} /\ Finishing' = Finishing
      /\ g \in Senders' /\ Top(a) \in Senders
  BY <1>2, <1>3 DEF Senders, Finishing, Ends
<1>6. (\A j \in Tasks : ~Holds(j)) /\ life[m] = "none"
  BY <1>2, <1>5, SenderFrames DEF Served
<1>7. Holds(m)'
  BY <1>3, <1>5 DEF Holds, Scheduled
<1>8. ASSUME NEW j \in cancelled, Holds(j)' PROVE FALSE
  <2>1. j # m
    BY <1>6, CancelledLives DEF Throwable
  <2> QED BY <1>1, <1>3, <1>4, <1>5, <1>6, <1>8, <2>1 DEF Holds, Scheduled, Turning
<1> QED BY <1>2, <1>4, <1>7, <1>8 DEF Working

LEMMA ScheduleWorking ==
  ASSUME IInv, Tidy, Served, Working, NEW a \in Actors, SendSchedule(a)
  PROVE  Working'
<1>1. PICK m \in Tasks :
      /\ life[m] = "none" /\ life'[m] = "spawned"
      /\ \A j \in Tasks \ {m} : life'[j] = life[j]
      /\ Top(a) \in Senders /\ Top(a).at = "sm_schedule" /\ Top(a).m = m
      /\ Senders' \subseteq Senders /\ Senders \subseteq Senders' \cup {Top(a)}
      /\ Finishing' = Finishing
      /\ UNCHANGED <<state, task, superseded, client, cancelled, closing>>
  BY ScheduleLine
<1>2. Scheduled(m) /\ m \notin Finishing
  BY <1>1 DEF Scheduled, Served, Finals
<1>3. Turning(m)'
  BY <1>1, <1>2 DEF Turning, Busy
<1>4. \A j \in Tasks : Scheduled(j) => Scheduled(j)' \/ j = m
  BY <1>1 DEF Scheduled
<1>5. \A j \in Tasks : Scheduled(j)' => Scheduled(j)
  BY <1>1 DEF Scheduled
<1>6. \A j \in Tasks : (Holds(j)' <=> Holds(j)) /\ (Lent(j) => Lent(j)')
  BY <1>1, <1>2, <1>3, <1>4, <1>5 DEF Holds, Turning, Lent, Streams
<1>7. cancelled \subseteq Tasks
  BY Given DEF LifeType
<1> QED BY <1>1, <1>6, <1>7, StandsWorking

LEMMA WorkWorking ==
  ASSUME IInv, Served, Prompt, Working, NEW k \in Tasks, life[k] # "none", Serves(k),
         Proceeds(k), failures' = failures
  PROVE  Working'
<1>1. /\ cancelled \subseteq Tasks /\ ~Scheduled(k)
  BY Given, HeldTasks DEF LifeType
<1>2. \A j \in Tasks : Scheduled(j)' <=> Scheduled(j)
  BY DEF Serves, Scheduled
<1>3. \A j \in Tasks : j # k => (Turning(j)' <=> Turning(j)) /\ life'[j] = life[j]
  BY DEF Serves, Turning
<1>4. \A j \in Tasks : Holds(j)' => Holds(j)
  BY <1>1, <1>2, <1>3 DEF Holds, Serves
<1>5. ASSUME state' = "working"
      PROVE  closing' \/ \E j \in Tasks : Holds(j)' \/ Lent(j)'
  <2>1. CASE state # "working"
    BY <1>5, <2>1 DEF Proceeds
  <2>2. ASSUME NEW j \in Tasks, Holds(j), state = "working"
        PROVE  closing' \/ \E i \in Tasks : Holds(i)' \/ Lent(i)'
    <3>1. CASE j # k
      BY <1>2, <1>3, <2>2, <3>1 DEF Holds
    <3>2. CASE j = k
      <4>1. Turning(k)
        BY <1>1, <2>2, <3>2 DEF Holds
      <4>2. CASE Turning(k)'
        BY <4>2 DEF Holds
      <4>3. CASE ~Turning(k)'
        <5>1. k \in cancelled
          BY <1>5, <4>1, <4>3 DEF Proceeds
        <5> QED BY <2>2, <3>2, <5>1 DEF Working, Proceeds
      <4> QED BY <4>2, <4>3
    <3> QED BY <3>1, <3>2
  <2>3. ASSUME NEW j \in Tasks, Lent(j), ~Turning(k) PROVE Lent(j)'
    <3>1. j # k
      BY <1>5, <2>3 DEF Proceeds
    <3> QED BY <1>3, <2>3, <3>1 DEF Lent, Streams, Serves, Proceeds
  <2>4. CASE closing
    BY <2>4 DEF Proceeds
  <2>5. CASE Turning(k) /\ state = "working"
    BY <2>2, <2>5 DEF Holds
  <2>6. CASE state = "working" /\ ~closing /\ ~Turning(k)
    BY <2>2, <2>3, <2>6 DEF Working
  <2> QED BY <2>1, <2>4, <2>5, <2>6
<1>6. ASSUME NEW j \in cancelled', Holds(j)', state' = "working" PROVE closing'
  <2>1. j \in cancelled /\ Holds(j)
    BY <1>1, <1>4, <1>6 DEF Proceeds
  <2>2. state = "working"
    BY <1>1, <1>6, <2>1 DEF Served, Proceeds
  <2> QED BY <2>1, <2>2 DEF Working, Proceeds
<1> QED BY <1>5, <1>6 DEF Working

LEMMA LoopActsWorking ==
  ASSUME IInv, Tidy, Prompt, Working, LoopActs
  PROVE  Working'
<1>1. /\ ready \in Seq(Items) /\ task \in Tasks \cup {None} /\ cancelled \subseteq Tasks
  BY Given DEF PlainType, LifeType
<1>2. /\ Senders' = Senders /\ Finishing' = Finishing
      /\ UNCHANGED <<life, task, superseded>>
  BY LoopActsKeys DEF Steady
<1>3. \A j \in Tasks : (Holds(j)' <=> Holds(j)) /\ (client' = client => (Lent(j)' <=> Lent(j)))
  BY <1>2 DEF Holds, Turning, Scheduled, Lent, Streams
<1>4. CASE CancelCallback
  <2> DEFINE x == Head(ready).x
  <2>1. Runs("cancel") /\ Cancels(x, Taken) /\ UNCHANGED <<state, closing, client>>
    BY <1>4 DEF CancelCallback, flags
  <2>2. x \in Tasks \cup {None} /\ Head(ready) \in Items
    BY <1>1, <2>1, Running
  <2>3. Head(ready) = Item("cancel", x) /\ Head(ready) \in ToSet(ready)
    <3>1. ready # << >> /\ Head(ready).do = "cancel"
      BY <2>1 DEF Runs
    <3> QED BY <1>1, <2>2, <3>1, TakenSets DEF Items, Item
  <2>4. \A j \in cancelled' : j \in cancelled \/ (j = x /\ x \in Tasks)
    <3>1. None \notin Tasks /\ cancelled' \subseteq cancelled \cup Tasks
      <4>1. cancelled' = cancelled \/ (Alive(x) /\ x # None /\ cancelled' = cancelled \cup {x})
        BY <2>1 DEF Cancels
      <4> QED BY <2>2, <4>1, ActorsAssumption, BoundsAssumption DEF Tasks
    <3>2. \A j \in cancelled' : j \in cancelled \/ j = x
      BY <2>1, <2>2, CancelsLine
    <3> QED BY <1>1, <3>1, <3>2
  <2>5. x \in Tasks => ~Holds(x)
    <3>1. x \in Tasks => Passed(x)
      BY <2>3 DEF Prompt
    <3> QED BY <3>1, HeldTasks DEF Passed, Holds
  <2> HIDE DEF x
  <2> QED BY <1>1, <1>3, <2>1, <2>4, <2>5 DEF Working
<1>5. CASE CloseCallback
  BY <1>5 DEF CloseCallback, Working
<1>6. CASE CloseEnds
  BY <1>6 DEF CloseEnds, Working
<1>7. CASE SpawnOther \/ CloseRequest
  <2>1. UNCHANGED <<state, closing, client, cancelled>>
    BY <1>7 DEF SpawnOther, CloseRequest, flags, turns
  <2> QED BY <1>1, <1>3, <2>1, StandsWorking
<1> QED BY <1>4, <1>5, <1>6, <1>7, NoInterruptCallback DEF LoopActs

LEMMA WorkingStep ==
  ASSUME IInv, Tidy, Served, Prompt, Working, [Next]_vars, interrupts' = interrupts,
         failures' = failures
  PROVE  Working'
<1>1. cancelled \subseteq Tasks
  BY Given DEF LifeType
<1>2. CASE Stands
  <2>1. \A j \in Tasks : (Holds(j)' <=> Holds(j)) /\ (Lent(j) => Lent(j)')
    BY <1>2 DEF Stands, Steady, Holds, Turning, Scheduled, Lent, Streams
  <2> QED BY <1>1, <1>2, <2>1, StandsWorking DEF Stands
<1>3. ASSUME NEW a \in Actors, SendPasses(a) PROVE Working'
  <2>1. /\ Keys \subseteq Keys' /\ \A f \in Keys' : f \in Keys \/ f.at = "sm_flip"
    BY <1>3, Given, PassesKeys
  <2>2. UNCHANGED <<state, life, task, superseded, client, cancelled, closing>>
    BY <1>3 DEF SendPasses, flags, turns
  <2>3. /\ Senders \subseteq Senders' /\ \A f \in Senders' : f \in Senders \/ f.at = "sm_flip"
        /\ Finishing' = Finishing
    BY <2>1 DEF Senders, Finishing, Ends
  <2>4. \A j \in Tasks : (Holds(j)' <=> Holds(j)) /\ (Lent(j) => Lent(j)')
    BY <2>2, <2>3 DEF Holds, Turning, Scheduled, Lent, Streams
  <2> QED BY <1>1, <2>2, <2>4, StandsWorking
<1>4. ASSUME NEW k \in Tasks, Work(k) PROVE Working'
  <2>1. life[k] # "none"
    BY <1>4, Given, WorkAdvances DEF Advances
  <2> QED BY <1>4, <2>1, WorkServes, WorkProceeds, WorkWorking
<1> QED BY <1>2, <1>3, <1>4, Kinds, FlipWorking, ScheduleWorking, LoopActsWorking

-----------------------------------------------------------------------------
(* A session that shows IDLE.                                              *)

\* The listener is about to be cancelled, or its last block runs.
Doomed(k) ==
  \/ \E f \in Senders : f.at = "sm_schedule" /\ f.x = k
  \/ Item("cancel", k) \in ToSet(ready)
  \/ Throws(k)
  \/ k \in Finishing

\* While nobody closes the session, a turn of the CLI's own shows WORKING, unless a send is
\* about to cancel the listener that streams it.
Resting ==
  /\ state # "stopped" /\ ~closing
  /\ \A e \in ToSet(ready) : e.do \notin {"spawn_close", "close"}
  /\ \A k \in Tasks : life[k] = "resumed" => Doomed(k) \/ (Streams(k) /\ state = "working")

LEMMA StandsResting ==
  ASSUME Resting, \A f \in Senders : f \in Senders' \/ f.at # "sm_schedule",
         Finishing' = Finishing, ToSet(ready) \subseteq ToSet(ready'),
         \A e \in ToSet(ready') : e.do \notin {"spawn_close", "close"},
         UNCHANGED <<state, closing, life, task, superseded>>
  PROVE  Resting'
<1>1. \A k : Doomed(k) => Doomed(k)'
  BY DEF Doomed, Throws
<1>2. \A k : Streams(k) <=> Streams(k)'
  BY DEF Streams
<1> QED BY <1>1, <1>2 DEF Resting

LEMMA PassesResting ==
  ASSUME IInv, Tidy, Resting, NEW a \in Actors, SendPasses(a)
  PROVE  Resting'
<1>1. Keys \subseteq Keys' /\ \A f \in Keys' : f \in Keys \/ f.at = "sm_flip"
  BY Given, PassesKeys
<1>2. Senders \subseteq Senders' /\ Finishing' = Finishing
  BY <1>1 DEF Senders, Finishing, Ends
<1>3. UNCHANGED <<state, closing, life, task, superseded, ready>>
  BY DEF SendPasses, flags, turns
<1> QED BY <1>2, <1>3, StandsResting DEF Resting

\* A send finds the listener alive, and takes it along to be cancelled.
LEMMA FlipResting ==
  ASSUME IInv, Tidy, Resting, NEW a \in Actors, SendFlip(a)
  PROVE  Resting'
<1>1. Stacks /\ 0 \in Tasks /\ task \in Tasks \cup {None} /\ None \notin Tasks
  BY Given, BoundsAssumption, ActorsAssumption DEF PlainType, Tasks
<1>2. Top(a) \in Keys /\ Top(a).at = "sm_flip" /\ \A f \in Keys : f \in Keys' \/ f.at = "sm_flip"
  BY <1>1, FlipKeys
<1>3. PICK g \in Keys' : /\ g.at = "sm_schedule" /\ g.x = Current
                         /\ Keys' \subseteq Keys \cup {g}
  BY <1>1, FlipKeys
<1>4. UNCHANGED <<life, ready, closing>> /\ state' = "working"
  BY DEF SendFlip, turns
<1>5. /\ \A f \in Senders : f \in Senders' \/ f.at = "sm_flip"
      /\ g \in Senders' /\ Finishing' = Finishing
  BY <1>2, <1>3 DEF Senders, Finishing, Ends
<1>6. \A k : Doomed(k) => Doomed(k)'
  BY <1>4, <1>5 DEF Doomed, Throws
<1>7. ASSUME NEW k \in Tasks, Streams(k) PROVE Doomed(k)'
  <2>1. Current = k
    BY <1>1, <1>7 DEF Streams, Current, Alive
  <2>2. g \in Senders' /\ g.at = "sm_schedule" /\ g.x = k
    BY <1>3, <1>5, <2>1
  <2> QED BY <2>2 DEF Doomed
<1> QED BY <1>4, <1>6, <1>7 DEF Resting

LEMMA ScheduleResting ==
  ASSUME IInv, Tidy, Resting, NEW a \in Actors, SendSchedule(a)
  PROVE  Resting'
<1> DEFINE m == Top(a).m
           x == Top(a).x
<1>1. /\ m \in Tasks /\ life'[m] = "spawned"
      /\ \A j \in Tasks \ {m} : life'[j] = life[j]
      /\ Top(a) \in Senders /\ Top(a).at = "sm_schedule"
      /\ Senders \subseteq Senders' \cup {Top(a)}
      /\ Finishing' = Finishing
      /\ \/ x # None /\ ToSet(ready') = ToSet(ready) \cup {Item("cancel", x), Item("spawn", m)}
         \/ x = None /\ ToSet(ready') = ToSet(ready) \cup {Item("spawn", m)}
      /\ UNCHANGED <<state, task, superseded, closing>>
  BY ScheduleLine
<1>2. None \notin Tasks
  BY BoundsAssumption, ActorsAssumption DEF Tasks
<1>3. \A e \in ToSet(ready') : e.do \notin {"spawn_close", "close"}
  <2>1. \A e \in ToSet(ready') : e \in ToSet(ready) \/ e.do \in {"cancel", "spawn"}
    BY <1>1 DEF Item
  <2> QED BY <2>1 DEF Resting
<1>4. \A f \in Senders : f \in Senders' \/ f.x = x
  BY <1>1 DEF x
<1> HIDE DEF m, x
<1>5. ASSUME NEW k \in Tasks, Doomed(k) PROVE Doomed(k)'
  <2>1. ASSUME NEW f \in Senders, f.at = "sm_schedule", f.x = k PROVE Doomed(k)'
    <3>1. CASE f \in Senders'
      BY <2>1, <3>1 DEF Doomed
    <3>2. CASE f.x = x
      <4>1. Item("cancel", k) \in ToSet(ready')
        BY <1>1, <1>2, <2>1, <3>2
      <4> QED BY <4>1 DEF Doomed
    <3> QED BY <1>4, <3>1, <3>2
  <2>2. ToSet(ready) \subseteq ToSet(ready')
    BY <1>1
  <2> QED BY <1>1, <1>5, <2>1, <2>2 DEF Doomed, Throws
<1>6. \A k \in Tasks : life'[k] = "resumed" => life[k] = "resumed" /\ (Streams(k) => Streams(k)')
  BY <1>1 DEF Streams
<1> QED BY <1>1, <1>3, <1>5, <1>6 DEF Resting

\* A step for one coroutine does not take the session from the listener of another.
LEMMA WorkResting ==
  ASSUME IInv, Served, Resting, NEW k \in Tasks, life[k] # "none", Serves(k), Proceeds(k),
         LineServes(k)
  PROVE  Resting'
<1>1. state' # "stopped" /\ ~closing'
  BY DEF Resting, Proceeds
<1>2. \A e \in ToSet(ready') : e.do \notin {"spawn_close", "close"}
  BY DEF Resting, LineServes
<1>3. ASSUME NEW j \in Tasks, j # k, Doomed(j) PROVE Doomed(j)'
  <2>1. Item("cancel", j) \in ToSet(ready) => Item("cancel", j) \in ToSet(ready')
    BY DEF LineServes, Item
  <2>2. Throws(j) => Throws(j)'
    BY <1>3 DEF LineServes, Throws, Item
  <2> QED BY <1>3, <2>1, <2>2 DEF Doomed, Serves
<1>4. ASSUME NEW j \in Tasks, j # k, Streams(j), state = "working"
      PROVE  Streams(j)' /\ state' = "working"
  <2>1. task = j /\ ~superseded /\ life[j] = "resumed" /\ Alive(task) /\ None \notin Tasks
    BY <1>4, BoundsAssumption, ActorsAssumption DEF Streams, Alive, Tasks
  <2>2. ~Turning(k)
    BY <1>4, <2>1 DEF Served, Holds
  <2>3. superseded' = superseded /\ task' = task /\ life'[j] = life[j]
    BY <1>4, <2>1, <2>2 DEF Serves
  <2>4. state' # "idle"
    BY <1>4, <2>1, <2>2 DEF Serves
  <2> QED BY <1>4, <2>1, <2>3, <2>4 DEF Streams, Proceeds
<1>5. ASSUME NEW j \in Tasks, life'[j] = "resumed"
      PROVE  Doomed(j)' \/ (Streams(j)' /\ state' = "working")
  <2>1. CASE j = k
    BY <1>5, <2>1 DEF Proceeds, Doomed
  <2>2. CASE j # k
    <3>1. life[j] = "resumed"
      BY <1>5, <2>2 DEF Serves
    <3> QED BY <1>3, <1>4, <2>2, <3>1 DEF Resting
  <2> QED BY <2>1, <2>2
<1> QED BY <1>1, <1>2, <1>5 DEF Resting

LEMMA LoopActsResting ==
  ASSUME IInv, Tidy, Prompt, Prompt', Resting, LoopActs, closes' = closes
  PROVE  Resting'
<1>1. /\ ready \in Seq(Items) /\ closes \in Nat
  BY Given, BoundsAssumption DEF PlainType
<1>2. /\ Senders' = Senders /\ Finishing' = Finishing
      /\ UNCHANGED <<life, task, superseded>>
  BY LoopActsKeys DEF Steady
<1>3. ASSUME NEW d \in {"spawn_close", "close"}, Runs(d) PROVE FALSE
  <2>1. ready # << >> /\ Head(ready).do = d
    BY <1>3 DEF Runs
  <2> QED BY <1>1, <2>1, TakenSets DEF Resting
<1>4. CancelCallback
  BY <1>1, <1>3, NoInterruptCallback
     DEF LoopActs, SpawnOther, CloseCallback, CloseEnds, CloseRequest, Resting
<1>5. PICK x \in Tasks \cup {None} :
        Runs("cancel") /\ Cancels(x, Taken) /\ x = Head(ready).x /\ UNCHANGED <<state, closing>>
  <2>1. Runs("cancel") /\ Cancels(Head(ready).x, Taken) /\ UNCHANGED <<state, closing>>
    BY <1>4 DEF CancelCallback
  <2> QED BY <1>1, <2>1, Running
<1>6. /\ \A e \in ToSet(ready') : e \in ToSet(ready) \/ e = Item("throw", x)
      /\ \A e \in ToSet(ready) : e \in ToSet(ready') \/ e.do = "cancel"
      /\ x \in Tasks /\ life[x] = "resumed" => x \in cancelled'
      /\ ToSet(ready) = {Head(ready)} \cup ToSet(Taken)
      /\ ToSet(Taken) \subseteq ToSet(ready')
  <2>1. ready # << >> /\ Item("throw", x) \in Items
    BY <1>5 DEF Runs, Item, Items, Calls
  <2>2. ready' = Taken \/ ready' = Append(Taken, Item("throw", x))
    BY <1>5 DEF Cancels
  <2>3. ToSet(ready) = {Head(ready)} \cup ToSet(Taken) /\ ToSet(Taken) \subseteq ToSet(ready')
    BY <1>1, <2>1, <2>2, TakenSets
  <2> QED BY <1>5, <2>3, CancelsLine
<1>7. \A e \in ToSet(ready') : e.do \notin {"spawn_close", "close"}
  BY <1>6 DEF Resting, Item
<1>8. ASSUME NEW k \in Tasks, life[k] = "resumed", Doomed(k) PROVE Doomed(k)'
  <2>1. CASE x = k
    <3>1. k \in cancelled' /\ life'[k] = "resumed"
      BY <1>2, <1>6, <1>8, <2>1
    <3> QED BY <3>1 DEF Prompt, Doomed
  <2>2. CASE x # k
    <3>1. Item("cancel", k) # Head(ready)
      BY <1>5, <2>2 DEF Item
    <3>2. Item("cancel", k) \in ToSet(ready) => Item("cancel", k) \in ToSet(ready')
      BY <1>6, <3>1
    <3>3. Throws(k) => Throws(k)'
      BY <1>6 DEF Throws, Item
    <3> QED BY <1>2, <1>8, <3>2, <3>3 DEF Doomed
  <2> QED BY <2>1, <2>2
<1>9. \A k : Streams(k) <=> Streams(k)'
  BY <1>2 DEF Streams
<1> QED BY <1>2, <1>5, <1>7, <1>8, <1>9 DEF Resting

LEMMA RestingStep ==
  ASSUME IInv, Tidy, Served, Prompt, Prompt', Resting, [Next]_vars,
         interrupts' = interrupts, closes' = closes
  PROVE  Resting'
<1>1. CASE Stands
  <2>1. Senders' = Senders /\ Finishing' = Finishing /\ ready' = ready
        /\ UNCHANGED <<state, closing, life, task, superseded>>
    BY <1>1 DEF Stands, Steady
  <2> QED BY <2>1, StandsResting DEF Resting
<1>2. ASSUME NEW k \in Tasks, Work(k) PROVE Resting'
  <2>1. life[k] # "none"
    BY <1>2, Given, WorkAdvances DEF Advances
  <2> QED BY <1>2, <2>1, WorkServes, WorkProceeds, WorkLine, WorkResting
<1> QED BY <1>1, <1>2, Kinds, PassesResting, FlipResting, ScheduleResting, LoopActsResting

-----------------------------------------------------------------------------
(* What a session at rest shows.                                           *)

LEMMA InitQuiet ==
  ASSUME Init
  PROVE  Prompt /\ Working /\ Resting
<1>1. /\ ready = << >> /\ cancelled = {} /\ ~interrupted /\ ~superseded /\ ~closing /\ client
      /\ task = 0 /\ \A a \in Actors : stack[a] = << >>
  BY DEF Init
<1>2. ToSet(ready) = {}
  BY <1>1 DEF ToSet
<1>3. Senders = {} /\ Finishing = {}
  BY <1>1, NoFrames DEF Senders, Finishing, Keys, KeyIn
<1>4. 0 \in Tasks /\ \A k \in Tasks : life[k] # "resumed"
  BY BoundsAssumption DEF Init, Tasks
<1>5. /\ state # "stopped" /\ (state = "working" => life[0] = "turn")
  BY <1>4 DEF Init
<1>6. Prompt
  BY <1>1, <1>2, <1>3 DEF Prompt
<1>7. Working
  BY <1>1, <1>3, <1>4, <1>5 DEF Working, Holds, Turning, Busy
<1>8. Resting
  BY <1>1, <1>2, <1>4, <1>5 DEF Resting
<1> QED BY <1>6, <1>7, <1>8

UndisturbedTurns ==
  /\ Undisturbed
  /\ interrupts = 0 => Prompt
  /\ interrupts = 0 /\ failures = 0 => Working
  /\ interrupts = 0 /\ closes = 0 => Resting

LEMMA UndisturbedStep ==
  ASSUME IInv, UndisturbedTurns, [Next]_vars
  PROVE  UndisturbedTurns'
<1>1. /\ interrupts \in Nat /\ closes \in Nat /\ failures \in Nat
      /\ interrupts' \in {interrupts, interrupts + 1} /\ closes' \in {closes, closes + 1}
      /\ failures' \in {failures, failures + 1}
  BY Given, Counted DEF PlainType
<1>2. /\ interrupts' = 0 => interrupts = 0 /\ interrupts' = interrupts
      /\ closes' = 0 => closes = 0 /\ closes' = closes
      /\ failures' = 0 => failures = 0 /\ failures' = failures
  BY <1>1
<1>3. SUFFICES ASSUME interrupts' = 0 
               PROVE  /\ Tidy' /\ Served' /\ Prompt'
                      /\ failures' = 0 => Working'
                      /\ closes' = 0 => Resting'
  BY DEF UndisturbedTurns, Undisturbed
<1>4. Tidy /\ Served /\ Prompt /\ interrupts' = interrupts
  BY <1>2, <1>3 DEF UndisturbedTurns, Undisturbed
<1>5. Tidy' /\ Served' /\ Prompt'
  BY <1>4, ServedStep, PromptStep
<1>6. ASSUME failures' = 0 PROVE Working'
  <2>1. Working /\ failures' = failures
    BY <1>2, <1>3, <1>6 DEF UndisturbedTurns
  <2> QED BY <1>4, <2>1, WorkingStep
<1>7. ASSUME closes' = 0 PROVE Resting'
  <2>1. Resting /\ closes' = closes
    BY <1>2, <1>3, <1>7 DEF UndisturbedTurns
  <2> QED BY <1>4, <1>5, <2>1, RestingStep
<1> QED BY <1>5, <1>6, <1>7

\* As long as nobody has called interrupt_session, and as long as nothing has failed or
\* nobody has closed the session, the parts of the invariant hold that ask for it.
THEOREM UndisturbedTurnsHold == Spec => []UndisturbedTurns
<1>1. Init => UndisturbedTurns
  BY InitServed, InitQuiet DEF UndisturbedTurns, Undisturbed
<1>2. IInv /\ UndisturbedTurns /\ [Next]_vars => UndisturbedTurns'
  BY UndisturbedStep
<1> QED BY <1>1, <1>2, Invariant, PTL DEF Spec

LEMMA QuietStacks ==
  ASSUME Quiescent
  PROVE  Senders = {} /\ Finishing = {} /\ ToSet(ready) = {}
<1>1. /\ \A a \in Actors : stack[a] = << >> 
      /\ ready = << >>
  BY DEF Quiescent, Idle
<1>2. Keys = {}
  BY <1>1, NoFrames DEF Keys, KeyIn
<1> QED BY <1>1, <1>2 DEF Senders, Finishing, ToSet

\* A session that shows WORKING has a turn, however its sends, its queue, the CLI's own
\* turns and a close come together: while nothing fails, nobody who ends a turn forgets
\* the state, and nobody is cancelled who still has it.
THEOREM WorkingIsServedHolds ==
  Spec => [](interrupts = 0 /\ failures = 0 => WorkingIsServed)
<1>1. ASSUME UndisturbedTurns, interrupts = 0, failures = 0, Quiescent, state = "working"
      PROVE  \E k \in Tasks : life[k] \in {"turn", "resumed"}
  <2>1. ~closing /\ \A k \in Tasks : life[k] \in {"none", "turn", "listen", "resumed", "dead"}
    BY <1>1 DEF Quiescent
  <2>2. PICK k \in Tasks : Holds(k) \/ Lent(k)
    BY <1>1, <2>1 DEF UndisturbedTurns, Working
  <2>3. Senders = {}
    BY <1>1, QuietStacks
  <2> QED BY <2>1, <2>2, <2>3 DEF Holds, Scheduled, Turning, Busy, Lent, Streams
<1>2. UndisturbedTurns => (interrupts = 0 /\ failures = 0 => WorkingIsServed)
  BY <1>1 DEF WorkingIsServed
<1> QED BY <1>2, UndisturbedTurnsHold, PTL

\* A session that shows IDLE has no turn, of a message or of the CLI's own, while nobody
\* closes it: whatever fails, the turn that ended in the failure is over.
THEOREM RestIsRestHolds ==
  Spec => [](interrupts = 0 /\ closes = 0 => RestIsRest)
<1>1. ASSUME UndisturbedTurns, interrupts = 0, closes = 0, Quiescent, state # "working",
             state \in {"idle", "working", "stopped"},
             NEW k \in Tasks, life[k] \in {"turn", "resumed"}
      PROVE  FALSE
  <2>1. Senders = {} /\ Finishing = {} /\ ToSet(ready) = {}
    BY <1>1, QuietStacks
  <2>2. Resting /\ Served
    BY <1>1 DEF UndisturbedTurns, Undisturbed
  <2>3. state = "idle"
    BY <1>1, <2>2 DEF Resting
  <2>4. ~Doomed(k)
    BY <2>1 DEF Doomed, Throws
  <2>5. CASE life[k] = "turn"
    BY <2>1, <2>2, <2>3, <2>5 DEF Served, Holds, Turning, Busy
  <2>6. CASE life[k] = "resumed"
    BY <1>1, <2>2, <2>4, <2>6 DEF Resting
  <2> QED BY <1>1, <2>5, <2>6
<1>2. IInv => state \in {"idle", "working", "stopped"}
  BY Given DEF PlainType
<1>3. IInv /\ UndisturbedTurns => (interrupts = 0 /\ closes = 0 => RestIsRest)
  BY <1>1, <1>2 DEF RestIsRest
<1> QED BY <1>3, Invariant, UndisturbedTurnsHold, PTL

\* Both, of a run in which nothing of the kind happens at all: a session that is only sent
\* messages shows WORKING exactly while it has a turn.
THEOREM QuietRuns ==
  MaxInterrupts = 0 /\ MaxCloses = 0 /\ MaxFailures = 0 =>
    (Spec => [](OneTurn /\ WorkingIsServed /\ RestIsRest))
<1> SUFFICES ASSUME MaxInterrupts = 0, MaxCloses = 0, MaxFailures = 0
             PROVE  Spec => [](OneTurn /\ WorkingIsServed /\ RestIsRest)
  OBVIOUS
<1>1. IInv => interrupts = 0 /\ closes = 0 /\ failures = 0
  BY Given DEF PlainType
<1> QED BY <1>1, Invariant, OneTurnHolds, WorkingIsServedHolds, RestIsRestHolds, PTL
=============================================================================
