------------------------- MODULE MessageQueueProofs -------------------------
(***************************************************************************)
(* Proofs about MessageQueue, for every number of sessions, texts,         *)
(* threads, timers and restarts: its types, that a message is in one place *)
(* only and does not vanish, that at rest the file is the queues, and that *)
(* the queue implements MessageDelivery.                                   *)
(***************************************************************************)
EXTENDS MessageQueue, SequenceTheorems, TLAPS

-----------------------------------------------------------------------------
(* What the edits of one queue do to the ids it holds.                     *)

\* The critical section of queue_message: one id more, still without repetition
\* when the id is new.
LEMMA AppendIds ==
  ASSUME NEW q \in Seq(Message), NEW m \in Message
  PROVE  /\ Append(q, m) \in Seq(Message)
         /\ SeqIds(Append(q, m)) = SeqIds(q) \cup {m.id}
         /\ Distinct(q) /\ m.id \notin SeqIds(q) => Distinct(Append(q, m))
<1> DEFINE r == Append(q, m)
<1>1. /\ r \in Seq(Message)
      /\ DOMAIN r = 1 .. Len(q) + 1
      /\ DOMAIN q = 1 .. Len(q)
      /\ Len(q) \in Nat
      /\ \A i \in 1 .. Len(q) : r[i] = q[i]
      /\ r[Len(q) + 1] = m
  OBVIOUS
<1>2. SeqIds(r) = SeqIds(q) \cup {m.id}
  BY <1>1 DEF SeqIds
<1>3. Distinct(q) /\ m.id \notin SeqIds(q) => Distinct(r)
  BY <1>1 DEF SeqIds, Distinct
<1> QED BY <1>1, <1>2, <1>3

\* The pop of try_dispatch_queue takes the head's id, and only that one.
LEMMA TailIds ==
  ASSUME NEW q \in Seq(Message), q # << >>
  PROVE  /\ Tail(q) \in Seq(Message)
         /\ Head(q) \in Message
         /\ SeqIds(q) = SeqIds(Tail(q)) \cup {Head(q).id}
         /\ Distinct(q) => Distinct(Tail(q)) /\ Head(q).id \notin SeqIds(Tail(q))
<1> DEFINE r == Tail(q)
<1>1. /\ r \in Seq(Message)
      /\ Head(q) = q[1] /\ q[1] \in Message
      /\ Len(q) \in Nat /\ Len(q) >= 1
      /\ DOMAIN q = 1 .. Len(q)
      /\ DOMAIN r = 1 .. Len(q) - 1
      /\ \A i \in 1 .. Len(q) - 1 : r[i] = q[i + 1]
  OBVIOUS
<1>2. \A i \in DOMAIN q : i = 1 \/ (i - 1 \in DOMAIN r /\ r[i - 1] = q[i])
  BY <1>1
<1>3. \A i \in DOMAIN r : i + 1 \in DOMAIN q /\ r[i] = q[i + 1] /\ i + 1 # 1
  BY <1>1
<1>4. SeqIds(q) = SeqIds(r) \cup {q[1].id}
  <2>1. ASSUME NEW x \in SeqIds(q) PROVE x \in SeqIds(r) \cup {q[1].id}
    BY <2>1, <1>2 DEF SeqIds
  <2>2. ASSUME NEW x \in SeqIds(r) \cup {q[1].id} PROVE x \in SeqIds(q)
    BY <2>2, <1>1, <1>3 DEF SeqIds
  <2> QED BY <2>1, <2>2
<1>5. ASSUME Distinct(q) PROVE Distinct(r) /\ q[1].id \notin SeqIds(r)
  <2>1. Distinct(r)
    BY <1>1, <1>3, <1>5 DEF Distinct
  <2>2. q[1].id \notin SeqIds(r)
    BY <1>1, <1>3, <1>5 DEF Distinct, SeqIds
  <2> QED BY <2>1, <2>2
<1> QED BY <1>1, <1>4, <1>5

\* The requeue of a refused message at the front.
LEMMA PrependIds ==
  ASSUME NEW q \in Seq(Message), NEW m \in Message
  PROVE  /\ <<m>> \o q \in Seq(Message)
         /\ SeqIds(<<m>> \o q) = SeqIds(q) \cup {m.id}
         /\ Distinct(q) /\ m.id \notin SeqIds(q) => Distinct(<<m>> \o q)
<1> DEFINE r == <<m>> \o q
<1>1. /\ r \in Seq(Message)
      /\ Len(q) \in Nat
      /\ DOMAIN q = 1 .. Len(q)
      /\ DOMAIN r = 1 .. Len(q) + 1
      /\ r[1] = m
      /\ \A i \in 2 .. Len(q) + 1 : r[i] = q[i - 1]
  OBVIOUS
<1>2. \A i \in DOMAIN r : i = 1 \/ (i - 1 \in DOMAIN q /\ r[i] = q[i - 1])
  BY <1>1
<1>3. \A i \in DOMAIN q : i + 1 \in DOMAIN r /\ r[i + 1] = q[i]
  BY <1>1
<1>4. SeqIds(r) = SeqIds(q) \cup {m.id}
  <2>1. ASSUME NEW x \in SeqIds(r) PROVE x \in SeqIds(q) \cup {m.id}
    BY <2>1, <1>1, <1>2 DEF SeqIds
  <2>2. SeqIds(q) \subseteq SeqIds(r)
    BY <1>3 DEF SeqIds
  <2>3. 1 \in DOMAIN r /\ r[1].id = m.id
    BY <1>1
  <2>4. m.id \in SeqIds(r)
    BY <2>3 DEF SeqIds
  <2> QED BY <2>1, <2>2, <2>4
<1>5. ASSUME Distinct(q), m.id \notin SeqIds(q) PROVE Distinct(r)
  BY <1>1, <1>2, <1>5 DEF Distinct, SeqIds
<1> QED BY <1>1, <1>4, <1>5

\* remove_queue_item takes out one position and keeps the rest in order.
LEMMA RemoveAtIds ==
  ASSUME NEW q \in Seq(Message), NEW k \in DOMAIN q
  PROVE  /\ RemoveAt(q, k) \in Seq(Message)
         /\ SeqIds(q) = SeqIds(RemoveAt(q, k)) \cup {q[k].id}
         /\ Distinct(q) => Distinct(RemoveAt(q, k))
                           /\ q[k].id \notin SeqIds(RemoveAt(q, k))
<1> DEFINE r == RemoveAt(q, k)
<1> DEFINE a == SubSeq(q, 1, k - 1)
           b == SubSeq(q, k + 1, Len(q))
<1>6. /\ Len(q) \in Nat /\ k \in 1 .. Len(q)
      /\ DOMAIN q = 1 .. Len(q)
      /\ \A i \in 1 .. Len(q) : q[i] \in Message
      /\ r = a \o b
  BY DEF RemoveAt
<1>7. /\ a \in Seq(Message) /\ Len(a) = k - 1
      /\ \A i \in 1 .. k - 1 : a[i] = q[i]
  BY <1>6, SubSeqProperties
<1>8. /\ b \in Seq(Message) /\ Len(b) = Len(q) - k
      /\ \A i \in 1 .. Len(q) - k : b[i] = q[k + i]
  <2>1. k + 1 \in Int /\ Len(q) \in Int /\ \A i \in k + 1 .. Len(q) : q[i] \in Message
    BY <1>6
  <2>2. /\ b \in Seq(Message)
        /\ Len(b) = IF k + 1 <= Len(q) THEN Len(q) - (k + 1) + 1 ELSE 0
        /\ \A i \in 1 .. Len(q) - (k + 1) + 1 : b[i] = q[k + 1 + i - 1]
    BY <2>1, SubSeqProperties
  <2> QED BY <1>6, <2>2
<1> HIDE DEF a, b, r
<1>9. /\ r \in Seq(Message)
      /\ Len(r) = Len(a) + Len(b)
      /\ \A i \in 1 .. Len(a) + Len(b) : r[i] = IF i <= Len(a) THEN a[i] ELSE b[i - Len(a)]
  BY <1>6, <1>7, <1>8, ConcatProperties
<1>1. /\ Len(q) \in Nat /\ k \in 1 .. Len(q)
      /\ DOMAIN q = 1 .. Len(q)
      /\ r \in Seq(Message)
      /\ DOMAIN r = 1 .. Len(q) - 1
      /\ \A i \in 1 .. Len(q) - 1 : r[i] = IF i < k THEN q[i] ELSE q[i + 1]
  <2>1. Len(r) = Len(q) - 1
    BY <1>6, <1>7, <1>8, <1>9
  <2>2. DOMAIN r = 1 .. Len(q) - 1
    BY <1>9, <2>1, LenProperties
  <2>3. ASSUME NEW i \in 1 .. Len(q) - 1, i < k PROVE r[i] = q[i]
    <3>1. r[i] = a[i]
      BY <1>6, <1>7, <1>8, <1>9, <2>3
    <3> QED BY <1>6, <1>7, <2>3, <3>1
  <2>4. ASSUME NEW i \in 1 .. Len(q) - 1, ~(i < k) PROVE r[i] = q[i + 1]
    <3>1. i \in 1 .. Len(a) + Len(b) /\ ~(i <= Len(a)) /\ Len(a) = k - 1
      BY <1>6, <1>7, <1>8, <2>4
    <3>2. r[i] = b[i - Len(a)]
      BY <1>9, <3>1
    <3>3. r[i] = b[i - (k - 1)]
      BY <3>1, <3>2
    <3>4. i - (k - 1) \in 1 .. Len(q) - k /\ k + (i - (k - 1)) = i + 1
      BY <1>6, <2>4
    <3> QED BY <1>8, <3>3, <3>4
  <2> QED BY <1>6, <1>9, <2>2, <2>3, <2>4
<1>2. \A i \in DOMAIN q : \/ i = k
                          \/ i < k /\ i \in DOMAIN r /\ r[i] = q[i]
                          \/ i > k /\ i - 1 \in DOMAIN r /\ r[i - 1] = q[i]
  BY <1>1
<1>3. \A i \in DOMAIN r : \/ i < k /\ i \in DOMAIN q /\ r[i] = q[i]
                          \/ i >= k /\ i + 1 \in DOMAIN q /\ r[i] = q[i + 1]
  BY <1>1
<1>4. SeqIds(q) = SeqIds(r) \cup {q[k].id}
  <2>1. ASSUME NEW x \in SeqIds(q) PROVE x \in SeqIds(r) \cup {q[k].id}
    BY <2>1, <1>2 DEF SeqIds
  <2>2. ASSUME NEW x \in SeqIds(r) \cup {q[k].id} PROVE x \in SeqIds(q)
    BY <2>2, <1>3 DEF SeqIds
  <2> QED BY <2>1, <2>2
<1>5. ASSUME Distinct(q) PROVE Distinct(r) /\ q[k].id \notin SeqIds(r)
  <2>1. Distinct(r)
    BY <1>1, <1>3, <1>5 DEF Distinct
  <2>2. q[k].id \notin SeqIds(r)
    BY <1>1, <1>3, <1>5 DEF Distinct, SeqIds
  <2> QED BY <2>1, <2>2
<1> QED BY <1>1, <1>4, <1>5 DEF r

\* edit_queue_item changes a text and no id.
LEMMA EditIds ==
  ASSUME NEW q \in Seq(Message), NEW k \in DOMAIN q, NEW x \in Texts
  PROVE  /\ [q EXCEPT ![k].text = x] \in Seq(Message)
         /\ SeqIds([q EXCEPT ![k].text = x]) = SeqIds(q)
         /\ Distinct(q) => Distinct([q EXCEPT ![k].text = x])
<1> DEFINE r == [q EXCEPT ![k].text = x]
           e == [q[k] EXCEPT !.text = x]
<1>1. /\ k \in 1 .. Len(q) /\ DOMAIN q = 1 .. Len(q)
      /\ q[k] \in Message
  OBVIOUS
<1>2. e \in Message /\ e.id = q[k].id
  BY <1>1 DEF Message
<1>3. r = [q EXCEPT ![k] = e]
  BY <1>1
<1> HIDE DEF r, e
<1>4. /\ r \in Seq(Message)
      /\ Len(r) = Len(q)
      /\ \A j \in 1 .. Len(q) : r[j] = IF j = k THEN e ELSE q[j]
  BY <1>1, <1>2, <1>3, ExceptSeq
<1>5. DOMAIN r = DOMAIN q /\ \A j \in DOMAIN q : r[j].id = q[j].id
  BY <1>1, <1>2, <1>4
<1> QED BY <1>4, <1>5 DEF SeqIds, Distinct, r

-----------------------------------------------------------------------------
(* The type invariant.                                                     *)

LEMMA IdsOfQueue ==
  ASSUME NEW q \in Seq(Message) PROVE SeqIds(q) \subseteq Ids
<1> SUFFICES ASSUME NEW i \in DOMAIN q PROVE q[i].id \in Ids
  BY DEF SeqIds
<1>1. q[i] \in Message
  OBVIOUS
<1> QED BY <1>1 DEF Message

LEMMA IdsOfHeld ==
  ASSUME NEW q \in Seq(Popped) PROVE SeqIds(q) \subseteq Ids
<1> SUFFICES ASSUME NEW i \in DOMAIN q PROVE q[i].id \in Ids
  BY DEF SeqIds
<1>1. q[i] \in Popped
  OBVIOUS
<1> QED BY <1>1 DEF Popped

LEMMA EmptyType == Empty \in Queues
  BY DEF Empty, Queues

LEMMA InitType == Init => TypeOK
<1> SUFFICES ASSUME Init PROVE TypeOK
  OBVIOUS
<1>1. /\ queues \in Queues /\ disk \in Queues
      /\ snapshot \in [Writers -> Queues]
  BY EmptyType DEF Init
<1>2. /\ held \in [Threads -> Seq(Popped)]
      /\ \A t \in Threads : Len(held[t]) <= 1
  BY DEF Init
<1>3. /\ saver \in [Savers -> {"dead", "new", "waiting", "snap", "writing"}]
      /\ pc \in [Threads -> {"idle", "save", "save_send", "assign", "assign_send",
                             "start", "start_send", "send", "flush_take",
                             "flushed_snap", "flush_writing"}]
  BY DEF Init
<1>4. /\ ops \in 0 .. MaxOps /\ accepted \in 0 .. ops
      /\ restarts \in 0 .. MaxRestarts
  BY BoundsAssumption DEF Init
<1> QED BY <1>1, <1>2, <1>3, <1>4 DEF Init, TypeOK

\* What a dispatch holds when it sends: one message, for one session.
LEMMA HeldIsOne ==
  ASSUME TypeOK, NEW t \in Threads, held[t] # << >>
  PROVE  /\ held[t][1].to \in Sessions
         /\ HeldMessage(t) \in Message
         /\ SeqIds(held[t]) = {HeldMessage(t).id}
<1>1. held[t] \in Seq(Popped) /\ Len(held[t]) <= 1
  BY DEF TypeOK
<1>2. Len(held[t]) = 1
  <2>1. Len(held[t]) \in Nat \ {0}
    BY <1>1, EmptySeq, Zenon
  <2>2. \A n \in Nat \ {0} : n <= 1 => n = 1
    OBVIOUS
  <2> QED BY <1>1, <2>1, <2>2, Zenon
<1>3. DOMAIN held[t] = 1 .. 1
  BY <1>1, <1>2, LenProperties
<1>4. 1 \in DOMAIN held[t] /\ held[t][1] \in Popped
  BY <1>1, <1>3
<1>5. SeqIds(held[t]) = {held[t][1].id}
  BY <1>3 DEF SeqIds
<1> QED BY <1>4, <1>5 DEF Popped, Message, HeldMessage

LEMMA TypeStep == TypeOK /\ HeldIsMidDispatch /\ [Next]_vars => TypeOK'
<1> SUFFICES ASSUME TypeOK, HeldIsMidDispatch, [Next]_vars PROVE TypeOK'
  OBVIOUS
<1> USE DEF Queues, Ids, memVars, countVars, fileVars, timerVars, sendVars
<1>1. ASSUME NEW t \in Threads, NEW s \in Sessions, NEW x \in Texts,
             QueueMessage(t, s, x)
      PROVE  TypeOK'
  <2>1. /\ accepted + 1 \in 1 .. MaxOps
        /\ accepted' \in 0 .. ops' /\ ops' \in 0 .. MaxOps
    BY <1>1, BoundsAssumption DEF QueueMessage, Begin, TypeOK
  <2>2. [id |-> accepted + 1, text |-> x] \in Message
    BY <2>1 DEF Message
  <2>3. queues' \in Queues
    BY <1>1, <2>2, AppendIds DEF QueueMessage, TypeOK
  <2> QED BY <1>1, <2>1, <2>3 DEF QueueMessage, Begin, Goto, TypeOK
<1>2. ASSUME NEW t \in Threads, NEW s \in Sessions, NEW i \in DOMAIN queues[s],
             RemoveQueueItem(t, s, i)
      PROVE  TypeOK'
  <2>1. ops' \in 0 .. MaxOps /\ accepted' \in 0 .. ops'
    BY <1>2, BoundsAssumption DEF RemoveQueueItem, Begin, TypeOK
  <2>2. queues' \in Queues
    BY <1>2, RemoveAtIds DEF RemoveQueueItem, TypeOK
  <2>3. queues[s][i].id \in Ids
    BY IdsOfQueue DEF TypeOK, SeqIds
  <2> QED BY <1>2, <2>1, <2>2, <2>3 DEF RemoveQueueItem, Begin, Goto, TypeOK
<1>3. ASSUME NEW t \in Threads, NEW s \in Sessions, NEW i \in DOMAIN queues[s],
             NEW x \in Texts, EditQueueItem(t, s, i, x)
      PROVE  TypeOK'
  <2>1. ops' \in 0 .. MaxOps /\ accepted' \in 0 .. ops'
    BY <1>3, BoundsAssumption DEF EditQueueItem, Begin, TypeOK
  <2>2. queues' = [queues EXCEPT ![s] = [queues[s] EXCEPT ![i].text = x]]
    BY <1>3 DEF EditQueueItem
  <2>3. queues' \in Queues
    BY <2>2, EditIds DEF TypeOK
  <2> QED BY <1>3, <2>1, <2>3 DEF EditQueueItem, Begin, Goto, TypeOK
<1>4. ASSUME NEW t \in Threads, NEW s \in Sessions, ClearQueue(t, s)
      PROVE  TypeOK'
  <2>1. ops' \in 0 .. MaxOps /\ accepted' \in 0 .. ops'
    BY <1>4, BoundsAssumption DEF ClearQueue, Begin, TypeOK
  <2>2. queues' \in Queues
    BY <1>4 DEF ClearQueue, TypeOK
  <2>3. SeqIds(queues[s]) \subseteq Ids
    BY IdsOfQueue DEF TypeOK
  <2> QED BY <1>4, <2>1, <2>2, <2>3 DEF ClearQueue, Begin, Goto, TypeOK
<1>5. ASSUME NEW t \in Threads, NEW old \in Sessions, NEW new \in Sessions,
             Remap(t, old, new)
      PROVE  TypeOK'
  <2>1. ops' \in 0 .. MaxOps /\ accepted' \in 0 .. ops'
    BY <1>5, BoundsAssumption DEF Remap, Begin, TypeOK
  <2>2. queues' \in Queues
    <3>1. CASE queues[old] = << >>
      BY <1>5, <3>1 DEF Remap, TypeOK
    <3>2. CASE queues[old] # << >>
      <4>1. queues' = [r \in Sessions |-> IF r = old THEN << >>
                                         ELSE IF r = new THEN queues[old] ELSE queues[r]]
        BY <1>5, <3>2 DEF Remap, TypeOK
      <4> QED BY <4>1 DEF TypeOK
    <3> QED BY <3>1, <3>2
  <2>3. SeqIds(queues[new]) \subseteq Ids
    BY IdsOfQueue DEF TypeOK
  <2> QED BY <1>5, <2>1, <2>2, <2>3 DEF Remap, Begin, Goto, TypeOK
<1>6. ASSUME NEW t \in Threads, NEW s \in Sessions, PopHead(t, s)
      PROVE  TypeOK'
  <2>1. ops' \in 0 .. MaxOps /\ accepted' \in 0 .. ops'
    BY <1>6, BoundsAssumption DEF PopHead, Begin, TypeOK
  <2>2. queues' \in Queues /\ Head(queues[s]) \in Message
    BY <1>6, TailIds DEF PopHead, TypeOK
  <2>3. [id |-> Head(queues[s]).id, text |-> Head(queues[s]).text, to |-> s] \in Popped
    BY <2>2 DEF Message, Popped
  <2>4. held' \in [Threads -> Seq(Popped)] /\ \A u \in Threads : Len(held'[u]) <= 1
    BY <1>6, <2>3 DEF PopHead, TypeOK
  <2> QED BY <1>6, <2>1, <2>2, <2>4 DEF PopHead, Begin, Goto, TypeOK
<1>7. ASSUME NEW t \in Threads, SendTaken(t) PROVE TypeOK'
  <2>1. held' \in [Threads -> Seq(Popped)] /\ \A u \in Threads : Len(held'[u]) <= 1
    BY <1>7 DEF SendTaken, TypeOK
  <2>2. SeqIds(held[t]) \subseteq Ids
    BY IdsOfHeld DEF TypeOK
  <2> QED BY <1>7, <2>1, <2>2 DEF SendTaken, Goto, TypeOK
<1>8. ASSUME NEW t \in Threads, SendRefused(t) PROVE TypeOK'
  <2>0. held[t] # << >>
    BY <1>8 DEF SendRefused, HeldIsMidDispatch
  <2>1. held' \in [Threads -> Seq(Popped)] /\ \A u \in Threads : Len(held'[u]) <= 1
    BY <1>8 DEF SendRefused, TypeOK
  <2>2. queues' \in Queues
    BY <1>8, <2>0, HeldIsOne, PrependIds DEF SendRefused, TypeOK
  <2> QED BY <1>8, <2>1, <2>2 DEF SendRefused, Goto, TypeOK
<1>9. ASSUME NEW t \in Threads, SendQueuedAgain(t) PROVE TypeOK'
  <2>0. held[t] # << >>
    BY <1>9 DEF SendQueuedAgain, HeldIsMidDispatch
  <2>1. held' \in [Threads -> Seq(Popped)] /\ \A u \in Threads : Len(held'[u]) <= 1
    BY <1>9 DEF SendQueuedAgain, TypeOK
  <2>2. queues' \in Queues
    BY <1>9, <2>0, HeldIsOne, AppendIds DEF SendQueuedAgain, TypeOK
  <2>3. SeqIds(held[t]) \subseteq Ids
    BY IdsOfHeld DEF TypeOK
  <2>4. discarded' \subseteq Ids
    BY <1>9, <2>3 DEF SendQueuedAgain, TypeOK
  <2> QED BY <1>9, <2>1, <2>2, <2>4 DEF SendQueuedAgain, Goto, TypeOK
<1>10. ASSUME NEW t \in Threads, SkipSave(t) \/ DecideSave(t) \/ StartTimer(t)
       PROVE  TypeOK'
  BY <1>10 DEF SkipSave, DecideSave, StartTimer, TimerIs, Goto, TypeOK
<1>11. ASSUME NEW t \in Threads, NEW x \in Savers, AssignTimer(t, x) PROVE TypeOK'
  BY <1>11 DEF AssignTimer, Goto, TypeOK
<1>12. ASSUME NEW t \in Threads, StartTimerRaises(t) PROVE TypeOK'
  <2>1. held' \in [Threads -> Seq(Popped)] /\ \A u \in Threads : Len(held'[u]) <= 1
    BY <1>12 DEF StartTimerRaises, TypeOK
  <2>2. SeqIds(held[t]) \subseteq Ids
    BY IdsOfHeld DEF TypeOK
  <2> QED BY <1>12, <2>1, <2>2 DEF StartTimerRaises, Goto, TypeOK
<1>13. ASSUME NEW t \in Threads, Flush(t) PROVE TypeOK'
  <2>1. ops' \in 0 .. MaxOps /\ accepted' \in 0 .. ops'
    BY <1>13, BoundsAssumption DEF Flush, Begin, TypeOK
  <2> QED BY <1>13, <2>1 DEF Flush, Begin, TimerIs, Goto, TypeOK
<1>14. ASSUME NEW w \in Writers, TakeSnapshot(w) PROVE TypeOK'
  BY <1>14 DEF TakeSnapshot, Goto, TypeOK
<1>15. ASSUME NEW w \in Writers, Truncate(w) PROVE TypeOK'
  BY <1>15 DEF Truncate, Goto, TypeOK
<1>16. ASSUME NEW w \in Writers, Fill(w) PROVE TypeOK'
  <2>1. disk' \in Queues /\ snapshot' \in [Writers -> Queues]
    BY <1>16, EmptyType DEF Fill, TypeOK
  <2>2. file' \in {"whole", "empty", "mixed"}
    BY <1>16 DEF Fill
  <2>3. /\ saver' \in [Savers -> {"dead", "new", "waiting", "snap", "writing"}]
        /\ pc' \in [Threads -> {"idle", "save", "save_send", "assign", "assign_send",
                               "start", "start_send", "send", "flush_take",
                               "flushed_snap", "flush_writing"}]
    BY <1>16 DEF Fill, Goto, TypeOK
  <2> QED BY <1>16, <2>1, <2>2, <2>3 DEF Fill, TypeOK
<1>17. ASSUME Restart PROVE TypeOK'
  <2>1. OnDisk \in Queues
    BY EmptyType DEF OnDisk, TypeOK
  <2>2. discarded' \subseteq Ids
    BY <1>17, BoundsAssumption DEF Restart, Accepted, TypeOK
  <2>3. restarts' \in 0 .. MaxRestarts
    BY <1>17, BoundsAssumption DEF Restart, TypeOK
  <2>4. held' \in [Threads -> Seq(Popped)] /\ \A u \in Threads : Len(held'[u]) <= 1
    BY <1>17 DEF Restart
  <2>5. snapshot' \in [Writers -> Queues]
    BY <1>17, EmptyType DEF Restart
  <2> QED BY <1>17, <2>1, <2>2, <2>3, <2>4, <2>5 DEF Restart, TypeOK
<1>18. CASE UNCHANGED vars
  BY <1>18 DEF vars, TypeOK
<1> QED BY <1>1, <1>2, <1>3, <1>4, <1>5, <1>6, <1>7, <1>8, <1>9, <1>10, <1>11, <1>12,
           <1>13, <1>14, <1>15, <1>16, <1>17, <1>18
        DEF Next, Operation, Continue, Save

-----------------------------------------------------------------------------
(* What a dispatch holds.                                                  *)

LEMMA HeldStep == TypeOK /\ HeldIsMidDispatch /\ [Next]_vars => HeldIsMidDispatch'
<1> SUFFICES ASSUME TypeOK, HeldIsMidDispatch, [Next]_vars PROVE HeldIsMidDispatch'
  OBVIOUS
<1>0. /\ pc \in [Threads -> {"idle", "save", "save_send", "assign", "assign_send",
                             "start", "start_send", "send", "flush_take",
                             "flushed_snap", "flush_writing"}]
      /\ held \in [Threads -> Seq(Popped)]
      /\ Threads \cap Savers = {}
  BY WritersAssumption DEF TypeOK
<1> USE DEF HeldIsMidDispatch, Goto, Begin, memVars, countVars, fileVars, timerVars, sendVars
<1>1. ASSUME NEW t \in Threads, NEW s \in Sessions,
             \/ \E x \in Texts : QueueMessage(t, s, x)
             \/ \E i \in DOMAIN queues[s] : RemoveQueueItem(t, s, i)
             \/ \E i \in DOMAIN queues[s], x \in Texts : EditQueueItem(t, s, i, x)
             \/ ClearQueue(t, s)
             \/ \E new \in Sessions : Remap(t, s, new)
      PROVE  HeldIsMidDispatch'
  <2>1. /\ pc[t] = "idle" /\ pc' = [pc EXCEPT ![t] = "save"] /\ UNCHANGED held
    BY <1>1 DEF QueueMessage, RemoveQueueItem, EditQueueItem, ClearQueue, Remap
  <2> QED BY <1>0, <2>1
<1>2. ASSUME NEW t \in Threads, NEW s \in Sessions, PopHead(t, s)
      PROVE  HeldIsMidDispatch'
  BY <1>0, <1>2 DEF PopHead
<1>3. ASSUME NEW t \in Threads,
             SendTaken(t) \/ SendRefused(t) \/ SendQueuedAgain(t) \/ StartTimerRaises(t)
      PROVE  HeldIsMidDispatch'
  <2>1. /\ pc' \in {[pc EXCEPT ![t] = "idle"], [pc EXCEPT ![t] = "save"]}
        /\ held' = [held EXCEPT ![t] = << >>]
    BY <1>3 DEF SendTaken, SendRefused, SendQueuedAgain, StartTimerRaises
  <2> QED BY <1>0, <2>1
<1>4. ASSUME NEW t \in Threads, SkipSave(t) \/ DecideSave(t) \/ StartTimer(t)
      PROVE  HeldIsMidDispatch'
  BY <1>0, <1>4 DEF SkipSave, DecideSave, StartTimer
<1>5. ASSUME NEW t \in Threads, NEW x \in Savers, AssignTimer(t, x)
      PROVE  HeldIsMidDispatch'
  BY <1>0, <1>5 DEF AssignTimer
<1>6. ASSUME NEW t \in Threads, Flush(t) PROVE HeldIsMidDispatch'
  BY <1>0, <1>6 DEF Flush
<1>7. ASSUME NEW w \in Writers, TakeSnapshot(w) \/ Truncate(w) \/ Fill(w)
      PROVE  HeldIsMidDispatch'
  <2>1. CASE UNCHANGED <<pc, held>>
    BY <2>1
  <2>2. CASE w \in Threads /\ UNCHANGED held
             /\ \/ pc[w] = "flush_take" /\ pc' = [pc EXCEPT ![w] = "flushed_snap"]
                \/ pc[w] = "flushed_snap" /\ pc' = [pc EXCEPT ![w] = "flush_writing"]
                \/ pc[w] = "flush_writing" /\ pc' = [pc EXCEPT ![w] = "idle"]
    BY <1>0, <2>2
  <2> QED BY <1>7, <2>1, <2>2 DEF TakeSnapshot, Truncate, Fill
<1>8. ASSUME Restart PROVE HeldIsMidDispatch'
  BY <1>8 DEF Restart
<1>9. CASE UNCHANGED vars
  BY <1>9 DEF vars
<1> QED BY <1>1, <1>2, <1>3, <1>4, <1>5, <1>6, <1>7, <1>8, <1>9
        DEF Next, Operation, Continue, Save

\* The state always has its type: no operation of the queue module, save, flush or
\* restart leaves a value of a kind the others do not expect.
THEOREM TypeCorrect == Spec => []TypeOK
<1>1. Init => TypeOK /\ HeldIsMidDispatch
  BY InitType DEF Init, HeldIsMidDispatch
<1>2. TypeOK /\ HeldIsMidDispatch /\ [Next]_vars => (TypeOK /\ HeldIsMidDispatch)'
  BY TypeStep, HeldStep
<1> QED BY <1>1, <1>2, PTL DEF Spec

\* A popped message is held exactly by a dispatch that has not sent it yet: the
\* steps between the pop and send_fn in try_dispatch_queue neither lose nor keep it.
THEOREM HeldCorrect == Spec => []HeldIsMidDispatch
<1>1. Init => TypeOK /\ HeldIsMidDispatch
  BY InitType DEF Init, HeldIsMidDispatch
<1>2. TypeOK /\ HeldIsMidDispatch /\ [Next]_vars => (TypeOK /\ HeldIsMidDispatch)'
  BY TypeStep, HeldStep
<1> QED BY <1>1, <1>2, PTL DEF Spec

-----------------------------------------------------------------------------
(* Where a message can be.                                                 *)

LEMMA InIdsIn ==
  ASSUME NEW Q, NEW x PROVE x \in IdsIn(Q) <=> \E s \in Sessions : x \in SeqIds(Q[s])
  BY DEF IdsIn

LEMMA EmptyIds == SeqIds(<< >>) = {} /\ Distinct(<< >>)
  BY DEF SeqIds, Distinct

\* One queue replaced by another: what has gone from it is gone from the queues,
\* and nothing repeats if what is new in it was in no other queue.
LEMMA ChangeOne ==
  ASSUME NEW Q, NEW R, NEW s \in Sessions, NEW q,
         R[s] = q, \A r \in Sessions : r # s => R[r] = Q[r],
         NoRepeat(Q), Distinct(q),
         \A r \in Sessions : r # s => SeqIds(q) \cap SeqIds(Q[r]) = {}
  PROVE  /\ NoRepeat(R)
         /\ \A x : x \in IdsIn(R) <=> \/ x \in SeqIds(q)
                                      \/ x \in IdsIn(Q) /\ x \notin SeqIds(Q[s])
<1>2. NoRepeat(R)
  BY DEF NoRepeat
<1>3. ASSUME NEW x PROVE x \in IdsIn(R) <=> \/ x \in SeqIds(q)
                                            \/ x \in IdsIn(Q) /\ x \notin SeqIds(Q[s])
  <2>1. \A r \in Sessions : x \in SeqIds(Q[s]) /\ x \in SeqIds(Q[r]) => r = s
    BY DEF NoRepeat
  <2> QED BY <2>1, InIdsIn
<1> QED BY <1>2, <1>3

\* What a dispatch held is out of its hands.
LEMMA Released ==
  ASSUME TypeOK, NEW t \in Threads, held' = [held EXCEPT ![t] = << >>],
         \A u, v \in Threads : u # v => SeqIds(held[u]) \cap SeqIds(held[v]) = {}
  PROVE  /\ \A u, v \in Threads : u # v => SeqIds(held'[u]) \cap SeqIds(held'[v]) = {}
         /\ \A x : x \in HeldIds' <=> x \in HeldIds /\ x \notin SeqIds(held[t])
         /\ SeqIds(held[t]) \subseteq HeldIds
<1>1. /\ held'[t] = << >>
      /\ \A u \in Threads : u # t => held'[u] = held[u]
  BY DEF TypeOK
<1>2. \A u, v \in Threads : u # v => SeqIds(held'[u]) \cap SeqIds(held'[v]) = {}
  BY <1>1, EmptyIds
<1>3. ASSUME NEW x PROVE x \in HeldIds' <=> x \in HeldIds /\ x \notin SeqIds(held[t])
  <2>1. x \in HeldIds <=> \E u \in Threads : x \in SeqIds(held[u])
    BY DEF HeldIds
  <2>2. x \in HeldIds' <=> \E u \in Threads : x \in SeqIds(held'[u])
    BY DEF HeldIds
  <2> QED BY <1>1, <2>1, <2>2, EmptyIds
<1>4. SeqIds(held[t]) \subseteq HeldIds
  BY DEF HeldIds
<1> QED BY <1>2, <1>3, <1>4

\* The inductive invariant.  InOnePlace alone is not: a restart loads an old copy,
\* so the copies must be sound, and a new id is new only if all ids are accounted for.
Placement == InOnePlace /\ NothingVanishes /\ CopiesSound
IInv == TypeOK /\ HeldIsMidDispatch /\ Placement

Gone == delivered \cup discarded \cup aborted

LEMMA InitPlacement == Init => Placement
<1> SUFFICES ASSUME Init PROVE Placement
  OBVIOUS
<1>1. /\ \A s \in Sessions : queues[s] = << >> /\ disk[s] = << >>
      /\ \A w \in Writers, s \in Sessions : snapshot[w][s] = << >>
      /\ \A t \in Threads : held[t] = << >>
      /\ accepted = 0
  BY DEF Init, Empty
<1>2. Accepted = {}
  BY <1>1 DEF Accepted
<1>3. QueuedIds = {} /\ HeldIds = {} /\ IdsIn(disk) = {}
      /\ \A w \in Writers : IdsIn(snapshot[w]) = {}
  BY <1>1, EmptyIds DEF QueuedIds, HeldIds, IdsIn
<1>4. NoRepeat(queues) /\ NoRepeat(disk) /\ \A w \in Writers : NoRepeat(snapshot[w])
  BY <1>1, EmptyIds DEF NoRepeat
<1> QED BY <1>1, <1>2, <1>3, <1>4, EmptyIds
        DEF Init, Placement, InOnePlace, NothingVanishes, CopiesSound

LEMMA CopiesKept ==
  ASSUME CopiesSound, UNCHANGED <<disk, snapshot>>, Accepted \subseteq Accepted'
  PROVE  CopiesSound'
  BY DEF CopiesSound

\* The ids in the parts of InOnePlace and NothingVanishes, one id at a time.
LEMMA PlacementById ==
  ASSUME NoRepeat(queues),
         \A t, u \in Threads : t # u => SeqIds(held[t]) \cap SeqIds(held[u]) = {},
         \A x : x \in QueuedIds => x \notin HeldIds /\ x \notin Gone,
         \A x : x \in HeldIds => x \notin Gone,
         \A x : x \in Accepted <=> x \in QueuedIds \/ x \in HeldIds \/ x \in Gone
  PROVE  InOnePlace /\ NothingVanishes
  BY DEF InOnePlace, NothingVanishes, Gone

LEMMA PlacementStep == IInv /\ [Next]_vars => Placement'
<1> SUFFICES ASSUME IInv, [Next]_vars PROVE Placement'
  OBVIOUS
<1>0. /\ TypeOK /\ HeldIsMidDispatch /\ InOnePlace /\ NothingVanishes /\ CopiesSound
      /\ NoRepeat(queues)
      /\ \A t, u \in Threads : t # u => SeqIds(held[t]) \cap SeqIds(held[u]) = {}
      /\ \A x : x \in QueuedIds => x \notin HeldIds /\ x \notin Gone
      /\ \A x : x \in HeldIds => x \notin Gone
      /\ \A x : x \in Accepted <=> x \in QueuedIds \/ x \in HeldIds \/ x \in Gone
  BY DEF IInv, Placement, InOnePlace, NothingVanishes, Gone
<1>a. /\ queues \in Queues
      /\ \A s \in Sessions : queues[s] \in Seq(Message) /\ Distinct(queues[s])
      /\ \A s \in Sessions : SeqIds(queues[s]) \subseteq QueuedIds
  BY <1>0 DEF TypeOK, Queues, NoRepeat, QueuedIds, IdsIn
<1> USE DEF memVars, countVars, fileVars, timerVars, sendVars
<1>1. ASSUME NEW t \in Threads, NEW s \in Sessions, NEW text \in Texts,
             QueueMessage(t, s, text)
      PROVE  Placement'
  <2> DEFINE m == [id |-> accepted + 1, text |-> text]
             q == Append(queues[s], m)
  <2>1. /\ accepted' = accepted + 1 /\ accepted \in Nat /\ m \in Message
    <3>1. accepted + 1 \in 1 .. MaxOps /\ accepted \in Nat
      BY <1>0, <1>1, BoundsAssumption DEF QueueMessage, Begin, TypeOK
    <3> QED BY <1>1, <3>1 DEF QueueMessage, Message, Ids
  <2>2. \A x : x \in Accepted' <=> x \in Accepted \/ x = m.id
    BY <2>1 DEF Accepted
  <2>3. m.id \notin Accepted
    BY <2>1 DEF Accepted
  <2> HIDE DEF m
  <2>4. q \in Seq(Message) /\ Distinct(q) /\ SeqIds(q) = SeqIds(queues[s]) \cup {m.id}
    BY <1>0, <1>a, <2>1, <2>3, AppendIds
  <2> HIDE DEF q
  <2>5. /\ NoRepeat(queues')
        /\ \A x : x \in QueuedIds' <=> x \in QueuedIds \/ x = m.id
    <3>1. queues'[s] = q /\ \A r \in Sessions : r # s => queues'[r] = queues[r]
      BY <1>1, <1>a DEF QueueMessage, Queues, m, q
    <3>2. \A r \in Sessions : r # s => SeqIds(q) \cap SeqIds(queues[r]) = {}
      BY <1>0, <1>a, <2>3, <2>4 DEF NoRepeat
    <3>3. NoRepeat(queues) /\ Distinct(q)
      BY <1>0, <2>4
    <3>4. /\ NoRepeat(queues')
          /\ \A x : x \in IdsIn(queues') <=> \/ x \in SeqIds(q)
                                             \/ x \in IdsIn(queues) /\ x \notin SeqIds(queues[s])
      BY <3>1, <3>2, <3>3, ChangeOne, Zenon
    <3> QED BY <1>a, <2>4, <3>4 DEF QueuedIds
  <2>6. UNCHANGED <<held, disk, snapshot, Gone, HeldIds>>
    BY <1>1 DEF QueueMessage, Gone, HeldIds
  <2>7. CopiesSound'
    BY <1>0, <2>2, <2>6, CopiesKept
  <2>8. (InOnePlace /\ NothingVanishes)'
    BY <1>0, <2>2, <2>3, <2>5, <2>6, PlacementById DEF InOnePlace, NothingVanishes, Gone
  <2> QED BY <2>7, <2>8 DEF Placement
<1>2. ASSUME NEW t \in Threads, NEW s \in Sessions, NEW i \in DOMAIN queues[s],
             RemoveQueueItem(t, s, i)
      PROVE  Placement'
  <2> DEFINE q == RemoveAt(queues[s], i)
             d == queues[s][i].id
  <2>1. /\ Distinct(q) /\ SeqIds(queues[s]) = SeqIds(q) \cup {d} /\ d \notin SeqIds(q)
    BY <1>a, RemoveAtIds
  <2>2. /\ queues'[s] = q /\ \A r \in Sessions : r # s => queues'[r] = queues[r]
        /\ \A x : x \in Gone' <=> x \in Gone \/ x = d
        /\ UNCHANGED <<held, disk, snapshot, HeldIds, Accepted>>
    BY <1>2, <1>a DEF RemoveQueueItem, Queues, Gone, HeldIds, Accepted
  <2> HIDE DEF q, d
  <2>3. \A r \in Sessions : r # s => SeqIds(q) \cap SeqIds(queues[r]) = {}
    BY <1>0, <2>1 DEF NoRepeat
  <2>4. /\ NoRepeat(queues')
        /\ \A x : x \in IdsIn(queues') <=> \/ x \in SeqIds(q)
                                           \/ x \in IdsIn(queues) /\ x \notin SeqIds(queues[s])
    <3>1. /\ NoRepeat(queues) /\ Distinct(q)
          /\ queues'[s] = q /\ \A r \in Sessions : r # s => queues'[r] = queues[r]
      BY <1>0, <2>1, <2>2
    <3> QED BY <2>3, <3>1, ChangeOne, Zenon
  <2>5. \A x : x \in QueuedIds' <=> x \in QueuedIds /\ x # d
    BY <1>a, <2>1, <2>4 DEF QueuedIds
  <2>6. d \in QueuedIds
    BY <1>a, <2>1
  <2>7. CopiesSound'
    BY <1>0, <2>2, CopiesKept
  <2>8. (InOnePlace /\ NothingVanishes)'
    BY <1>0, <2>2, <2>4, <2>5, <2>6 DEF InOnePlace, NothingVanishes, Gone
  <2> QED BY <2>7, <2>8 DEF Placement
<1>3. ASSUME NEW t \in Threads, NEW s \in Sessions, NEW i \in DOMAIN queues[s],
             NEW text \in Texts, EditQueueItem(t, s, i, text)
      PROVE  Placement'
  <2> DEFINE q == [queues[s] EXCEPT ![i].text = text]
  <2>1. Distinct(q) /\ SeqIds(q) = SeqIds(queues[s])
    BY <1>a, EditIds
  <2>2. queues' = [queues EXCEPT ![s] = q]
    BY <1>3 DEF EditQueueItem
  <2> HIDE DEF q
  <2>3. /\ queues'[s] = q /\ \A r \in Sessions : r # s => queues'[r] = queues[r]
        /\ UNCHANGED <<held, disk, snapshot, HeldIds, Accepted, Gone>>
    BY <1>3, <1>a, <2>2 DEF EditQueueItem, Queues, Gone, HeldIds, Accepted
  <2>4. \A r \in Sessions : r # s => SeqIds(q) \cap SeqIds(queues[r]) = {}
    BY <1>0, <2>1 DEF NoRepeat
  <2>5. /\ NoRepeat(queues')
        /\ \A x : x \in IdsIn(queues') <=> \/ x \in SeqIds(q)
                                           \/ x \in IdsIn(queues) /\ x \notin SeqIds(queues[s])
    <3>1. /\ NoRepeat(queues) /\ Distinct(q)
          /\ queues'[s] = q /\ \A r \in Sessions : r # s => queues'[r] = queues[r]
      BY <1>0, <2>1, <2>3
    <3> QED BY <2>4, <3>1, ChangeOne, Zenon
  <2>6. \A x : x \in QueuedIds' <=> x \in QueuedIds
    BY <1>a, <2>1, <2>5 DEF QueuedIds
  <2>7. CopiesSound'
    BY <1>0, <2>3, CopiesKept
  <2>8. (InOnePlace /\ NothingVanishes)'
    BY <1>0, <2>3, <2>5, <2>6 DEF InOnePlace, NothingVanishes, Gone
  <2> QED BY <2>7, <2>8 DEF Placement
<1>4. ASSUME NEW t \in Threads, NEW s \in Sessions, ClearQueue(t, s)
      PROVE  Placement'
  <2>1. /\ queues'[s] = << >> /\ \A r \in Sessions : r # s => queues'[r] = queues[r]
        /\ \A x : x \in Gone' <=> x \in Gone \/ x \in SeqIds(queues[s])
        /\ UNCHANGED <<held, disk, snapshot, HeldIds, Accepted>>
    BY <1>4, <1>a DEF ClearQueue, Queues, Gone, HeldIds, Accepted
  <2>2. \A r \in Sessions : r # s => SeqIds(<< >>) \cap SeqIds(queues[r]) = {}
    BY EmptyIds
  <2>3. /\ NoRepeat(queues')
        /\ \A x : x \in IdsIn(queues') <=> \/ x \in SeqIds(<< >>)
                                           \/ x \in IdsIn(queues) /\ x \notin SeqIds(queues[s])
    BY <1>0, <2>1, <2>2, EmptyIds, ChangeOne, Zenon
  <2>4. \A x : x \in QueuedIds' <=> x \in QueuedIds /\ x \notin SeqIds(queues[s])
    BY <2>3, EmptyIds DEF QueuedIds
  <2>5. CopiesSound'
    BY <1>0, <2>1, CopiesKept
  <2>6. (InOnePlace /\ NothingVanishes)'
    BY <1>0, <1>a, <2>1, <2>3, <2>4 DEF InOnePlace, NothingVanishes, Gone
  <2> QED BY <2>5, <2>6 DEF Placement
<1>5. ASSUME NEW t \in Threads, NEW old \in Sessions, NEW new \in Sessions,
             Remap(t, old, new)
      PROVE  Placement'
  <2>1. UNCHANGED <<held, disk, snapshot, HeldIds, Accepted>>
    BY <1>5 DEF Remap, HeldIds, Accepted
  <2>2. CopiesSound'
    BY <1>0, <2>1, CopiesKept
  <2>3. CASE queues[old] = << >>
    <3>1. UNCHANGED <<queues, QueuedIds, Gone>>
      BY <1>5, <2>3 DEF Remap, QueuedIds, Gone
    <3> QED BY <1>0, <2>1, <2>2, <3>1 DEF Placement, InOnePlace, NothingVanishes, Gone
  <2>4. CASE queues[old] # << >>
    <3>1. /\ queues'[old] = << >> /\ queues'[new] = queues[old] /\ old # new
          /\ \A r \in Sessions : r # old /\ r # new => queues'[r] = queues[r]
          /\ \A x : x \in Gone' <=> x \in Gone \/ x \in SeqIds(queues[new])
      BY <1>5, <1>a, <2>4 DEF Remap, Queues, Gone
    <3>2. NoRepeat(queues')
      BY <1>0, <3>1, EmptyIds DEF NoRepeat
    <3>3. ASSUME NEW x
          PROVE  x \in QueuedIds' <=> x \in QueuedIds /\ x \notin SeqIds(queues[new])
      <4>1. \A r, u \in Sessions : x \in SeqIds(queues[r]) /\ x \in SeqIds(queues[u]) => r = u
        BY <1>0 DEF NoRepeat
      <4>2. x \in QueuedIds <=> \E r \in Sessions : x \in SeqIds(queues[r])
        BY DEF QueuedIds, IdsIn
      <4>3. x \in QueuedIds' <=> \E r \in Sessions : x \in SeqIds(queues'[r])
        BY DEF QueuedIds, IdsIn
      <4> QED BY <3>1, <4>1, <4>2, <4>3, EmptyIds
    <3>4. (InOnePlace /\ NothingVanishes)'
      BY <1>0, <1>a, <2>1, <3>1, <3>2, <3>3 DEF InOnePlace, NothingVanishes, Gone
    <3> QED BY <2>2, <3>4 DEF Placement
  <2> QED BY <2>3, <2>4
<1>6. ASSUME NEW t \in Threads, NEW s \in Sessions, PopHead(t, s)
      PROVE  Placement'
  <2> DEFINE q == Tail(queues[s])
             d == Head(queues[s]).id
             h == [id |-> Head(queues[s]).id, text |-> Head(queues[s]).text, to |-> s]
  <2>1. /\ Distinct(q) /\ SeqIds(queues[s]) = SeqIds(q) \cup {d} /\ d \notin SeqIds(q)
    BY <1>6, <1>a, TailIds DEF PopHead
  <2>2. /\ queues'[s] = q /\ \A r \in Sessions : r # s => queues'[r] = queues[r]
        /\ UNCHANGED <<disk, snapshot, Accepted, Gone>>
        /\ held' = [held EXCEPT ![t] = <<h>>]
    BY <1>6, <1>a DEF PopHead, Queues, Gone, Accepted
  <2>3. SeqIds(held[t]) = {}
    BY <1>0, <1>6, EmptyIds DEF PopHead, Begin, HeldIsMidDispatch
  <2>4. SeqIds(<<h>>) = {d}
    BY DEF SeqIds
  <2> HIDE DEF q, d, h
  <2>5. \A r \in Sessions : r # s => SeqIds(q) \cap SeqIds(queues[r]) = {}
    BY <1>0, <2>1 DEF NoRepeat
  <2>6. /\ NoRepeat(queues')
        /\ \A x : x \in IdsIn(queues') <=> \/ x \in SeqIds(q)
                                           \/ x \in IdsIn(queues) /\ x \notin SeqIds(queues[s])
    <3>1. /\ NoRepeat(queues) /\ Distinct(q)
          /\ queues'[s] = q /\ \A r \in Sessions : r # s => queues'[r] = queues[r]
      BY <1>0, <2>1, <2>2
    <3> QED BY <2>5, <3>1, ChangeOne, Zenon
  <2>7. d \in QueuedIds /\ \A x : x \in QueuedIds' <=> x \in QueuedIds /\ x # d
    BY <1>a, <2>1, <2>6 DEF QueuedIds
  <2>8. /\ SeqIds(held'[t]) = {d}
        /\ \A u \in Threads : u # t => held'[u] = held[u]
    BY <1>0, <2>2, <2>4 DEF TypeOK
  <2>9. \A x : x \in HeldIds' <=> x \in HeldIds \/ x = d
    <3>1. \A x : x \in HeldIds <=> \E u \in Threads : x \in SeqIds(held[u])
      BY DEF HeldIds
    <3>2. \A x : x \in HeldIds' <=> \E u \in Threads : x \in SeqIds(held'[u])
      BY DEF HeldIds
    <3> QED BY <2>3, <2>8, <3>1, <3>2
  <2>10. \A u \in Threads : d \notin SeqIds(held[u])
    BY <1>0, <2>7 DEF HeldIds
  <2>11. \A u, v \in Threads : u # v => SeqIds(held'[u]) \cap SeqIds(held'[v]) = {}
    BY <1>0, <2>8, <2>10
  <2>12. CopiesSound'
    BY <1>0, <2>2, CopiesKept
  <2>13. (InOnePlace /\ NothingVanishes)'
    BY <1>0, <2>2, <2>6, <2>7, <2>9, <2>11 DEF InOnePlace, NothingVanishes, Gone
  <2> QED BY <2>12, <2>13 DEF Placement
<1>7. ASSUME NEW t \in Threads, SendTaken(t) \/ StartTimerRaises(t)
      PROVE  Placement'
  <2>1. /\ held' = [held EXCEPT ![t] = << >>]
        /\ \A x : x \in Gone' <=> x \in Gone \/ x \in SeqIds(held[t])
        /\ UNCHANGED <<queues, disk, snapshot, Accepted, QueuedIds>>
    BY <1>7 DEF SendTaken, StartTimerRaises, Gone, Accepted, QueuedIds
  <2>2. /\ \A u, v \in Threads : u # v => SeqIds(held'[u]) \cap SeqIds(held'[v]) = {}
        /\ \A x : x \in HeldIds' <=> x \in HeldIds /\ x \notin SeqIds(held[t])
        /\ SeqIds(held[t]) \subseteq HeldIds
    BY <1>0, <2>1, Released
  <2>3. CopiesSound'
    BY <1>0, <2>1, CopiesKept
  <2>4. (InOnePlace /\ NothingVanishes)'
    BY <1>0, <2>1, <2>2 DEF InOnePlace, NothingVanishes, Gone
  <2> QED BY <2>3, <2>4 DEF Placement
<1>8. ASSUME NEW t \in Threads, SendRefused(t) PROVE Placement'
  <2> DEFINE m == HeldMessage(t)
             s == held[t][1].to
             q == <<m>> \o queues[s]
  <2>1. /\ s \in Sessions /\ m \in Message /\ SeqIds(held[t]) = {m.id}
    BY <1>0, <1>8, HeldIsOne DEF SendRefused, HeldIsMidDispatch
  <2>2. /\ held' = [held EXCEPT ![t] = << >>]
        /\ queues' = [queues EXCEPT ![s] = q]
        /\ UNCHANGED <<disk, snapshot, Accepted, Gone>>
    BY <1>8 DEF SendRefused, Gone, Accepted
  <2> HIDE DEF m, s
  <2>3. /\ \A u, v \in Threads : u # v => SeqIds(held'[u]) \cap SeqIds(held'[v]) = {}
        /\ \A x : x \in HeldIds' <=> x \in HeldIds /\ x # m.id
        /\ m.id \in HeldIds
    BY <1>0, <2>1, <2>2, Released
  <2>4. /\ SeqIds(q) = SeqIds(queues[s]) \cup {m.id} /\ Distinct(q)
    BY <1>0, <1>a, <2>1, <2>3, PrependIds
  <2> HIDE DEF q
  <2>5. \A r \in Sessions : r # s => SeqIds(q) \cap SeqIds(queues[r]) = {}
    BY <1>0, <1>a, <2>1, <2>3, <2>4 DEF NoRepeat
  <2>6. /\ NoRepeat(queues')
        /\ \A x : x \in IdsIn(queues') <=> \/ x \in SeqIds(q)
                                           \/ x \in IdsIn(queues) /\ x \notin SeqIds(queues[s])
    <3>1. /\ NoRepeat(queues) /\ Distinct(q) /\ s \in Sessions
          /\ queues'[s] = q /\ \A r \in Sessions : r # s => queues'[r] = queues[r]
      BY <1>0, <1>a, <2>1, <2>2, <2>4 DEF Queues
    <3> QED BY <2>5, <3>1, ChangeOne, Zenon
  <2>7. \A x : x \in QueuedIds' <=> x \in QueuedIds \/ x = m.id
    BY <1>a, <2>1, <2>4, <2>6 DEF QueuedIds
  <2>8. CopiesSound'
    BY <1>0, <2>2, CopiesKept
  <2>9. (InOnePlace /\ NothingVanishes)'
    BY <1>0, <2>2, <2>3, <2>6, <2>7 DEF InOnePlace, NothingVanishes, Gone
  <2> QED BY <2>8, <2>9 DEF Placement
<1>9. ASSUME NEW t \in Threads, SendQueuedAgain(t) PROVE Placement'
  <2> DEFINE m == HeldMessage(t)
             s == held[t][1].to
             q == Append(queues[s], m)
  <2>1. /\ s \in Sessions /\ m \in Message /\ SeqIds(held[t]) = {m.id}
    BY <1>0, <1>9, HeldIsOne DEF SendQueuedAgain, HeldIsMidDispatch
  <2>2. /\ held' = [held EXCEPT ![t] = << >>]
        /\ \/ queues' = queues /\ discarded' = discarded \cup SeqIds(held[t])
           \/ queues' = [queues EXCEPT ![s] = q] /\ discarded' = discarded
        /\ UNCHANGED <<disk, snapshot, Accepted, delivered, aborted>>
    BY <1>9 DEF SendQueuedAgain, Accepted
  <2> HIDE DEF m, s
  <2>3. /\ \A u, v \in Threads : u # v => SeqIds(held'[u]) \cap SeqIds(held'[v]) = {}
        /\ \A x : x \in HeldIds' <=> x \in HeldIds /\ x # m.id
        /\ m.id \in HeldIds
    BY <1>0, <2>1, <2>2, Released
  <2>4. CopiesSound'
    BY <1>0, <2>2, CopiesKept
  <2>5. CASE queues' = queues /\ discarded' = discarded \cup SeqIds(held[t])
    <3>1. /\ UNCHANGED <<queues, QueuedIds, Accepted>>
          /\ \A x : x \in Gone' <=> x \in Gone \/ x = m.id
      BY <2>1, <2>2, <2>5 DEF QueuedIds, Gone
    <3>2. (InOnePlace /\ NothingVanishes)'
      BY <1>0, <2>3, <3>1 DEF InOnePlace, NothingVanishes, Gone
    <3> QED BY <2>4, <3>2 DEF Placement
  <2>6. CASE queues' = [queues EXCEPT ![s] = q] /\ discarded' = discarded
    <3>1. SeqIds(q) = SeqIds(queues[s]) \cup {m.id} /\ Distinct(q)
      BY <1>0, <1>a, <2>1, <2>3, AppendIds
    <3>2. UNCHANGED <<Gone, Accepted>>
      BY <2>2, <2>6 DEF Gone
    <3> HIDE DEF q
    <3>3. \A r \in Sessions : r # s => SeqIds(q) \cap SeqIds(queues[r]) = {}
      BY <1>0, <1>a, <2>1, <2>3, <3>1 DEF NoRepeat
    <3>4. /\ NoRepeat(queues')
          /\ \A x : x \in IdsIn(queues') <=> \/ x \in SeqIds(q)
                                             \/ x \in IdsIn(queues) /\ x \notin SeqIds(queues[s])
      <4>1. /\ NoRepeat(queues) /\ Distinct(q) /\ s \in Sessions
            /\ queues'[s] = q /\ \A r \in Sessions : r # s => queues'[r] = queues[r]
        BY <1>0, <1>a, <2>1, <2>6, <3>1 DEF Queues
      <4> QED BY <3>3, <4>1, ChangeOne, Zenon
    <3>5. \A x : x \in QueuedIds' <=> x \in QueuedIds \/ x = m.id
      BY <1>a, <2>1, <3>1, <3>4 DEF QueuedIds
    <3>6. (InOnePlace /\ NothingVanishes)'
      BY <1>0, <2>3, <3>2, <3>4, <3>5 DEF InOnePlace, NothingVanishes, Gone
    <3> QED BY <2>4, <3>6 DEF Placement
  <2> QED BY <2>2, <2>5, <2>6
<1>10. ASSUME UNCHANGED <<queues, held, accepted, delivered, discarded, aborted>>,
              CopiesSound'
       PROVE  Placement'
  <2>1. UNCHANGED <<queues, held, Accepted, QueuedIds, HeldIds, delivered, discarded, aborted>>
    BY <1>10 DEF Accepted, QueuedIds, HeldIds
  <2> QED BY <1>0, <1>10, <2>1 DEF Placement, InOnePlace, NothingVanishes
<1>11. ASSUME UNCHANGED <<queues, held, accepted, delivered, discarded, aborted, disk, snapshot>>
       PROVE  Placement'
  <2>1. CopiesSound'
    BY <1>0, <1>11, CopiesKept DEF Accepted
  <2> QED BY <1>10, <1>11, <2>1
<1>12. ASSUME NEW t \in Threads,
              \/ SkipSave(t) \/ DecideSave(t) \/ StartTimer(t) \/ Flush(t)
              \/ \E x \in Savers : AssignTimer(t, x)
       PROVE  Placement'
  BY <1>11, <1>12 DEF SkipSave, DecideSave, StartTimer, AssignTimer, Flush
<1>13. ASSUME NEW w \in Writers, TakeSnapshot(w) PROVE Placement'
  <2>1. NoRepeat(queues) /\ IdsIn(queues) \subseteq Accepted
    BY <1>0 DEF QueuedIds
  <2>2. /\ UNCHANGED <<disk, Accepted>>
        /\ \A v \in Writers : snapshot'[v] = snapshot[v] \/ snapshot'[v] = queues
    BY <1>0, <1>13 DEF TakeSnapshot, TypeOK, Accepted
  <2>3. CopiesSound'
    BY <1>0, <2>1, <2>2 DEF CopiesSound
  <2> QED BY <1>10, <1>13, <2>3 DEF TakeSnapshot
<1>14. ASSUME NEW w \in Writers, Truncate(w) PROVE Placement'
  BY <1>11, <1>14 DEF Truncate
<1>15. ASSUME NEW w \in Writers, Fill(w) PROVE Placement'
  <2>1. NoRepeat(Empty) /\ IdsIn(Empty) = {}
    BY EmptyIds DEF NoRepeat, IdsIn, Empty
  <2>2. /\ disk' = snapshot[w] /\ UNCHANGED Accepted
        /\ \A v \in Writers : snapshot'[v] = snapshot[v] \/ snapshot'[v] = Empty
    BY <1>0, <1>15 DEF Fill, TypeOK, Accepted
  <2>3. CopiesSound'
    BY <1>0, <2>1, <2>2 DEF CopiesSound
  <2> QED BY <1>10, <1>15, <2>3 DEF Fill
<1>16. ASSUME Restart PROVE Placement'
  <2>1. NoRepeat(Empty) /\ IdsIn(Empty) = {}
    BY EmptyIds DEF NoRepeat, IdsIn, Empty
  <2>2. NoRepeat(OnDisk) /\ IdsIn(OnDisk) \subseteq Accepted
    BY <1>0, <2>1 DEF OnDisk, CopiesSound
  <2>3. /\ queues' = OnDisk /\ disk' = OnDisk /\ UNCHANGED Accepted
        /\ \A w \in Writers : snapshot'[w] = Empty
        /\ \A t \in Threads : held'[t] = << >>
        /\ \A x : x \in Gone' <=> x \in Accepted /\ x \notin IdsIn(OnDisk)
    BY <1>16 DEF Restart, Accepted, Gone, OnDiskIds
  <2>4. QueuedIds' = IdsIn(OnDisk)
    BY <2>3 DEF QueuedIds
  <2>5. HeldIds' = {}
    BY <2>3, EmptyIds DEF HeldIds
  <2>6. CopiesSound'
    BY <2>1, <2>2, <2>3 DEF CopiesSound
  <2>7. (InOnePlace /\ NothingVanishes)'
    BY <2>2, <2>3, <2>4, <2>5, EmptyIds DEF InOnePlace, NothingVanishes, Gone
  <2> QED BY <2>6, <2>7 DEF Placement
<1>17. CASE UNCHANGED vars
  BY <1>11, <1>17 DEF vars
<1> QED BY <1>1, <1>2, <1>3, <1>4, <1>5, <1>6, <1>7, <1>8, <1>9, <1>12, <1>13, <1>14,
           <1>15, <1>16, <1>17
        DEF Next, Operation, Continue, Save

LEMMA Invariance == Spec => []IInv
<1>1. Init => IInv
  BY InitType, InitPlacement DEF Init, HeldIsMidDispatch, IInv
<1>2. IInv /\ [Next]_vars => IInv'
  BY TypeStep, HeldStep, PlacementStep DEF IInv
<1> QED BY <1>1, <1>2, PTL DEF Spec

\* No dispatch, requeue, remap or restart makes two of one message, or delivers one
\* that is still queued.
THEOREM NoDuplication == Spec => []InOnePlace
<1>1. IInv => InOnePlace
  BY DEF IInv, Placement
<1> QED BY <1>1, Invariance, PTL

\* A message the queue accepted is queued, being dispatched, sent, or lost in one of
\* the ways the code has (discarded, died with the process, died in save_queues).
THEOREM NoSilentLoss == Spec => []NothingVanishes
<1>1. IInv => NothingVanishes
  BY DEF IInv, Placement
<1> QED BY <1>1, Invariance, PTL

\* Whatever the file or a save under way holds, a restart loads accepted messages
\* and none of them twice.
THEOREM SavedCopies == Spec => []CopiesSound
<1>1. IInv => CopiesSound
  BY DEF IInv, Placement
<1> QED BY <1>1, Invariance, PTL

-----------------------------------------------------------------------------
(* The file at rest.                                                       *)

\* Somebody is going to save the queues as they are when it gets there.
Owing ==
  \/ \E t \in Threads : pc[t] \in {"save", "save_send", "assign", "assign_send",
                                   "start", "start_send", "flush_take"}
  \/ \E x \in Savers : saver[x] = "waiting"

\* A writer that has its snapshot, and one that has truncated the file as well.
Ready(w)  == IF w \in Savers THEN saver[w] = "snap" ELSE pc[w] = "flushed_snap"
Midway(w) == IF w \in Savers THEN saver[w] = "writing" ELSE pc[w] = "flush_writing"

\* One writer at most has the file; the queues are in the newest snapshot, or
\* will be, or are in the file.
OneMidway ==
  /\ \A v, w \in Writers : Midway(v) /\ Midway(w) => v = w
  /\ \A w \in Writers : Midway(w) => file = "empty"
Caught ==
  \/ Owing
  \/ \E w \in Writers : Ready(w) /\ snapshot[w] = queues
  \/ /\ \E w \in Writers : Midway(w) /\ snapshot[w] = queues
     /\ \A w \in Writers : ~Ready(w)
  \/ Fresh /\ \A w \in Writers : ~Writing(w)
SaveInv == raced \/ (OneMidway /\ Caught)

LEMMA WritingIs == \A w \in Writers : Writing(w) <=> Ready(w) \/ Midway(w)
  BY DEF Writing, Ready, Midway

\* A step beside the file: what is ready or midway stays so, and the queues
\* change under a thread that saves them next.
LEMMA Beside ==
  ASSUME OneMidway, Caught, UNCHANGED fileVars,
         \A w \in Writers : (Ready(w)' <=> Ready(w)) /\ (Midway(w)' <=> Midway(w)),
         Owing' \/ (~Owing /\ queues' = queues)
  PROVE  OneMidway' /\ Caught'
<1>1. UNCHANGED <<disk, file, snapshot>>
  BY DEF fileVars
<1>2. OneMidway'
  BY <1>1 DEF OneMidway
<1>3. CASE Owing'
  BY <1>2, <1>3 DEF Caught
<1>4. CASE ~Owing /\ queues' = queues
  <2>1. \A w \in Writers : Writing(w)' <=> Writing(w)
    BY WritingIs DEF Writing, Ready, Midway
  <2>2. Fresh' <=> Fresh
    BY <1>1, <1>4 DEF Fresh
  <2> QED BY <1>1, <1>2, <1>4, <2>1, <2>2 DEF Caught
<1> QED BY <1>3, <1>4

\* A thread that does not write, and timers that do not.
LEMMA Steady ==
  ASSUME TypeOK, NEW t \in Threads, NEW l, pc' = [pc EXCEPT ![t] = l],
         pc[t] \notin {"flushed_snap", "flush_writing"},
         l \notin {"flushed_snap", "flush_writing"},
         \A x \in Savers : \/ saver'[x] = saver[x]
                           \/ /\ saver[x] \notin {"snap", "writing"}
                              /\ saver'[x] \notin {"snap", "writing"}
  PROVE  /\ pc'[t] = l
         /\ \A u \in Threads : u # t => pc'[u] = pc[u]
         /\ \A w \in Writers : (Ready(w)' <=> Ready(w)) /\ (Midway(w)' <=> Midway(w))
<1>1. pc'[t] = l /\ \A u \in Threads : u # t => pc'[u] = pc[u]
  BY DEF TypeOK
<1>2. ASSUME NEW w \in Writers PROVE (Ready(w)' <=> Ready(w)) /\ (Midway(w)' <=> Midway(w))
  <2>1. CASE w \in Savers
    BY <2>1 DEF Ready, Midway
  <2>2. CASE w \notin Savers
    BY <1>1, <2>2 DEF Ready, Midway, Writers
  <2> QED BY <2>1, <2>2
<1> QED BY <1>1, <1>2

LEMMA SaveStep == TypeOK /\ SaveInv /\ [Next]_vars => SaveInv'
<1> SUFFICES ASSUME TypeOK, SaveInv, [Next]_vars, ~raced' PROVE OneMidway' /\ Caught'
  BY DEF SaveInv
<1>1. ASSUME NEW t \in Threads, Operation(t) PROVE OneMidway' /\ Caught'
  <2>1. ~raced /\ OneMidway /\ Caught
    <3>1. UNCHANGED raced
      BY <1>1 DEF Operation, QueueMessage, RemoveQueueItem, EditQueueItem, ClearQueue, Remap,
                  PopHead, Flush
    <3> QED BY <3>1, Zenon DEF SaveInv
  <2>2. PICK l \in {"save", "save_send", "flush_take"} : Begin(t, l) /\ UNCHANGED fileVars
    BY <1>1 DEF Operation, QueueMessage, RemoveQueueItem, EditQueueItem, ClearQueue, Remap,
                PopHead, Flush
  <2>3. \A x \in Savers : \/ saver'[x] = saver[x]
                          \/ /\ saver[x] \notin {"snap", "writing"}
                             /\ saver'[x] \notin {"snap", "writing"}
    <3>1. CASE Flush(t)
      BY <3>1 DEF Flush, TimerIs, TypeOK
    <3>2. CASE UNCHANGED saver
      BY <3>2
    <3> QED BY <1>1, <3>1, <3>2 DEF Operation, QueueMessage, RemoveQueueItem, EditQueueItem,
                                    ClearQueue, Remap, PopHead, timerVars
  <2>4. pc' = [pc EXCEPT ![t] = l] /\ pc[t] = "idle"
    BY <2>2 DEF Begin, Goto
  <2>5. /\ pc'[t] = l
        /\ \A w \in Writers : (Ready(w)' <=> Ready(w)) /\ (Midway(w)' <=> Midway(w))
    BY <2>3, <2>4, Steady
  <2>6. Owing'
    BY <2>5 DEF Owing
  <2> QED BY <2>1, <2>2, <2>5, <2>6, Beside
<1>2. ASSUME NEW t \in Threads, Continue(t) PROVE OneMidway' /\ Caught'
  <2>0. ~StartTimerRaises(t)
    BY Zenon DEF StartTimerRaises
  <2>1. ~raced /\ OneMidway /\ Caught /\ UNCHANGED fileVars
    <3>1. UNCHANGED fileVars
      BY <1>2, <2>0 DEF Continue, SendTaken, SendRefused, SendQueuedAgain, SkipSave,
                        DecideSave, AssignTimer, StartTimer
    <3>2. ~raced
      <4>1. CASE SkipSave(t)
        BY <4>1, Zenon DEF SkipSave
      <4>2. CASE UNCHANGED raced
        BY <4>2
      <4> QED BY <1>2, <2>0, <4>1, <4>2, Zenon
              DEF Continue, SendTaken, SendRefused, SendQueuedAgain, DecideSave, AssignTimer,
                  StartTimer
    <3> QED BY <3>1, <3>2, Zenon DEF SaveInv
  <2>3. \A x \in Savers : \/ saver'[x] = saver[x]
                          \/ /\ saver[x] \notin {"snap", "writing"}
                             /\ saver'[x] \notin {"snap", "writing"}
    <3>1. ASSUME NEW x \in Savers, AssignTimer(t, x) PROVE <2>3
      BY <3>1 DEF AssignTimer
    <3>2. CASE StartTimer(t)
      BY <3>2 DEF StartTimer, TimerIs, TypeOK
    <3>3. CASE UNCHANGED saver
      BY <3>3
    <3> QED BY <1>2, <2>0, <3>1, <3>2, <3>3
            DEF Continue, SendTaken, SendRefused, SendQueuedAgain, SkipSave, DecideSave, timerVars
  <2>4. PICK l \in {"idle", "save", "send", "assign", "assign_send", "start", "start_send"} :
          Goto(t, l) /\ pc[t] \notin {"flushed_snap", "flush_writing"}
    <3>1. CASE SendTaken(t) \/ SendRefused(t) \/ SendQueuedAgain(t)
      BY <3>1 DEF SendTaken, SendRefused, SendQueuedAgain
    <3>2. CASE SkipSave(t) \/ DecideSave(t)
      BY <3>2 DEF SkipSave, DecideSave
    <3>3. CASE StartTimer(t) \/ \E x \in Savers : AssignTimer(t, x)
      BY <3>3 DEF AssignTimer, StartTimer
    <3> QED BY <1>2, <2>0, <3>1, <3>2, <3>3 DEF Continue
  <2>5. /\ pc'[t] = l
        /\ \A u \in Threads : u # t => pc'[u] = pc[u]
        /\ \A w \in Writers : (Ready(w)' <=> Ready(w)) /\ (Midway(w)' <=> Midway(w))
    BY <2>3, <2>4, Steady DEF Goto
  <2>6. Owing' \/ (~Owing /\ queues' = queues)
    <3>1. CASE SendTaken(t)
      <4>1. queues' = queues /\ saver' = saver /\ pc[t] = "send"
        BY <3>1 DEF SendTaken, memVars, timerVars
      <4> QED BY <2>5, <4>1 DEF Owing
    <3>2. CASE SendRefused(t)
      BY <2>4, <3>2 DEF SendRefused, Goto, Owing, TypeOK
    <3>3. CASE SendQueuedAgain(t)
      <4>1. /\ saver' = saver /\ pc[t] = "send"
            /\ pc'[t] = "save" \/ queues' = queues
        BY <3>3 DEF SendQueuedAgain, Goto, TypeOK, timerVars
      <4> QED BY <2>5, <4>1 DEF Owing
    <3>4. CASE SkipSave(t)
      <4>1. timer \in Savers /\ saver'[timer] = "waiting"
        BY <2>1, <3>4 DEF SkipSave, TimerIs, timerVars
      <4> QED BY <4>1 DEF Owing
    <3>5. CASE DecideSave(t)
      BY <3>5 DEF DecideSave, Goto, Owing, TypeOK
    <3>6. ASSUME NEW x \in Savers, AssignTimer(t, x) PROVE Owing'
      BY <3>6 DEF AssignTimer, Goto, Owing, TypeOK
    <3>7. CASE StartTimer(t)
      <4>1. timer \in Savers /\ saver'[timer] = "waiting"
        BY <3>7 DEF StartTimer, TimerIs, TypeOK
      <4> QED BY <4>1 DEF Owing
    <3> QED BY <1>2, <2>0, <3>1, <3>2, <3>3, <3>4, <3>5, <3>6, <3>7 DEF Continue
  <2> QED BY <2>1, <2>5, <2>6, Beside
<1>3. ASSUME NEW w \in Writers, TakeSnapshot(w) PROVE OneMidway' /\ Caught'
  <2>1. /\ ~raced /\ OneMidway /\ UNCHANGED <<queues, file>>
        /\ snapshot' = [snapshot EXCEPT ![w] = queues] /\ snapshot'[w] = queues
    BY <1>3 DEF TakeSnapshot, SaveInv, memVars, TypeOK
  <2>2. /\ Ready(w)' /\ ~Midway(w)'
        /\ \A v \in Writers : v # w => (Midway(v)' <=> Midway(v))
    <3>1. CASE w \in Savers /\ saver[w] = "waiting" /\ UNCHANGED pc
                /\ saver' = [saver EXCEPT ![w] = "snap"]
      BY <3>1 DEF Ready, Midway, Writers, TypeOK
    <3>2. CASE w \in Threads /\ pc[w] = "flush_take" /\ UNCHANGED saver
                /\ Goto(w, "flushed_snap")
      BY <3>2, WritersAssumption DEF Ready, Midway, Writers, TypeOK, Goto
    <3> QED BY <1>3, <3>1, <3>2 DEF TakeSnapshot
  <2>3. OneMidway'
    BY <2>1, <2>2 DEF OneMidway
  <2> QED BY <2>1, <2>2, <2>3 DEF Caught
<1>4. ASSUME NEW w \in Writers, Truncate(w) PROVE OneMidway' /\ Caught'
  <2>1. /\ ~raced /\ OneMidway /\ Caught /\ UNCHANGED <<queues, snapshot>>
        /\ file' = "empty" /\ \A v \in Writers : v # w => ~Writing(v)
    BY <1>4 DEF Truncate, SaveInv, memVars
  <2>2. /\ Ready(w) /\ Midway(w)' /\ ~Ready(w)'
        /\ \A v \in Writers : v # w => ~Ready(v)' /\ ~Midway(v)'
        /\ Owing => Owing'
    <3>1. CASE w \in Savers /\ saver[w] = "snap" /\ UNCHANGED pc
                /\ saver' = [saver EXCEPT ![w] = "writing"]
      BY <2>1, <3>1 DEF Ready, Midway, Writing, Owing, Writers, TypeOK
    <3>2. CASE w \in Threads /\ pc[w] = "flushed_snap" /\ UNCHANGED saver
                /\ Goto(w, "flush_writing")
      BY <2>1, <3>2, WritersAssumption DEF Ready, Midway, Writing, Owing, Writers, TypeOK, Goto
    <3> QED BY <1>4, <3>1, <3>2 DEF Truncate
  <2>3. OneMidway'
    BY <2>1, <2>2 DEF OneMidway
  <2>4. Writing(w) /\ \A v \in Writers : v # w => ~Ready(v) /\ ~Midway(v)
    BY <2>1, <2>2, WritingIs
  <2> QED BY <2>1, <2>2, <2>3, <2>4 DEF Caught
<1>5. ASSUME NEW w \in Writers, Fill(w) PROVE OneMidway' /\ Caught'
  <2>1. /\ ~raced /\ OneMidway /\ Caught /\ UNCHANGED queues
        /\ disk' = snapshot[w]
        /\ file = "empty" => file' = "whole"
        /\ \A v \in Writers : v # w => snapshot'[v] = snapshot[v]
    BY <1>5 DEF Fill, SaveInv, memVars, TypeOK
  <2>2. /\ Midway(w) /\ ~Ready(w) /\ ~Midway(w)' /\ ~Ready(w)'
        /\ \A v \in Writers : v # w => (Ready(v)' <=> Ready(v)) /\ (Midway(v)' <=> Midway(v))
        /\ Owing => Owing'
    <3>1. CASE w \in Savers /\ saver[w] = "writing" /\ UNCHANGED pc
                /\ saver' = [saver EXCEPT ![w] = "dead"]
      BY <3>1 DEF Ready, Midway, Owing, Writers, TypeOK
    <3>2. CASE w \in Threads /\ pc[w] = "flush_writing" /\ UNCHANGED saver
                /\ Goto(w, "idle")
      BY <3>2, WritersAssumption DEF Ready, Midway, Owing, Writers, TypeOK, Goto
    <3> QED BY <1>5, <3>1, <3>2 DEF Fill
  <2>3. file' = "whole" /\ \A v \in Writers : ~Midway(v)'
    BY <2>1, <2>2 DEF OneMidway
  <2>4. OneMidway'
    BY <2>3 DEF OneMidway
  <2>5. CASE snapshot[w] = queues /\ \A v \in Writers : ~Ready(v)
    <3>1. \A v \in Writers : ~Writing(v)'
      BY <2>2, <2>3, <2>5 DEF Writing, Ready, Midway
    <3> QED BY <2>1, <2>3, <2>4, <2>5, <3>1 DEF Caught, Fresh
  <2>6. CASE \E v \in Writers : Ready(v) /\ snapshot[v] = queues
    BY <2>1, <2>2, <2>4, <2>6 DEF Caught
  <2> QED BY <2>1, <2>2, <2>4, <2>5, <2>6, WritingIs DEF Caught, OneMidway
<1>6. CASE Restart
  <2>1. /\ file' = "whole" /\ disk' = queues'
        /\ \A w \in Writers : ~Writing(w)' /\ ~Midway(w)'
    BY <1>6 DEF Restart, Writing, Midway, Writers
  <2> QED BY <2>1 DEF OneMidway, Caught, Fresh
<1>7. CASE UNCHANGED vars
  <2>1. /\ ~raced /\ OneMidway /\ Caught
        /\ UNCHANGED <<queues, disk, file, snapshot, pc, saver>>
    BY <1>7 DEF vars, SaveInv
  <2> QED BY <2>1 DEF OneMidway, Caught, Owing, Ready, Midway, Writing, Fresh
<1> QED BY <1>1, <1>2, <1>3, <1>4, <1>5, <1>6, <1>7 DEF Next, Save

\* Once every operation and every save has ended, the file is the queues, unless a
\* save was skipped or overtaken by a write already under way (save_queues, flush).
THEOREM QuietSaved == Spec => []QuietMeansSaved
<1>1. Init => SaveInv
  <2> SUFFICES ASSUME Init PROVE OneMidway /\ Caught
    BY DEF SaveInv
  <2>1. \A w \in Writers : ~Midway(w) /\ ~Writing(w)
    BY DEF Init, Midway, Writing, Writers
  <2> QED BY <2>1 DEF Init, OneMidway, Caught, Fresh
<1>2. SaveInv => QuietMeansSaved
  <2> SUFFICES ASSUME OneMidway, Caught, Quiescent PROVE Fresh
    BY DEF SaveInv, QuietMeansSaved
  <2>1. ~Owing
    BY DEF Owing, Quiescent, Alive
  <2>2. \A w \in Writers : ~Ready(w) /\ ~Midway(w)
    BY DEF Ready, Midway, Quiescent, Alive, Writers
  <2> QED BY <2>1, <2>2 DEF Caught
<1> QED BY <1>1, <1>2, SaveStep, TypeCorrect, PTL DEF Spec

-----------------------------------------------------------------------------
(* MessageQueue implements MessageDelivery.  By the invariant above the      *)
(* queued messages are all the accepted ones that are nowhere else, so a     *)
(* step is known by what it does to the rest.                                *)

AbstractStep == [Promise!Next]_(Promise!vars)

\* What is queued is what was accepted and is neither held nor gone.
LEMMA QueuedIsTheRest ==
  ASSUME IInv
  PROVE  /\ QueuedIds = Accepted \ (HeldIds \cup delivered \cup discarded \cup aborted)
         /\ HeldIds \subseteq Accepted
         /\ HeldIds \cap (delivered \cup discarded \cup aborted) = {}
  BY DEF IInv, Placement, InOnePlace, NothingVanishes

LEMMA QueuedIsTheRestNext ==
  ASSUME IInv'
  PROVE  /\ QueuedIds' = Accepted' \ (HeldIds' \cup delivered' \cup discarded' \cup aborted')
         /\ QueuedIds' \subseteq Accepted'
  BY DEF IInv, Placement, InOnePlace, NothingVanishes

\* The init states of the queue are init states of the promise.
LEMMA InitRefines == Init => Promise!Init
<1> SUFFICES ASSUME Init PROVE Promise!Init
  OBVIOUS
<1>1. /\ \A s \in Sessions : queues[s] = << >>
      /\ \A t \in Threads : held[t] = << >>
  BY DEF Init, Empty
<1>2. QueuedIds = {} /\ HeldIds = {}
  BY <1>1, EmptyIds DEF QueuedIds, HeldIds, IdsIn
<1> QED BY <1>2 DEF Init, Promise!Init

\* A step that changes nothing but timers, files and places in an operation.
LEMMA Stutters ==
  ASSUME UNCHANGED <<queues, held, accepted, delivered, discarded, aborted>>
  PROVE  AbstractStep
<1>1. UNCHANGED <<QueuedIds, HeldIds>>
  BY DEF QueuedIds, HeldIds
<1> QED BY <1>1 DEF AbstractStep, Promise!vars

\* Messages of the queues are discarded.
LEMMA Drops ==
  ASSUME IInv, IInv', NEW D \in SUBSET QueuedIds,
         UNCHANGED <<held, accepted, delivered, aborted>>,
         discarded' = discarded \cup D
  PROVE  AbstractStep
<1>1. UNCHANGED <<HeldIds, Accepted>>
  BY DEF HeldIds, Accepted
<1>2. QueuedIds' = Accepted' \ (HeldIds' \cup delivered' \cup discarded' \cup aborted')
  BY QueuedIsTheRestNext
<1>3. QueuedIds' = QueuedIds \ D
  BY <1>1, <1>2, QueuedIsTheRest
<1>4. (discarded \cup aborted)' = (discarded \cup aborted) \cup D
  OBVIOUS
<1>5. Promise!Drop
  BY <1>1, <1>3, <1>4, Zenon DEF Promise!Drop
<1> QED BY <1>5 DEF AbstractStep, Promise!Next

\* A dispatch lets go of what it held: into the queues, to the session, or lost.
LEMMA LetsGo ==
  ASSUME IInv, IInv', NEW t \in Threads, held[t] # << >>,
         held' = [held EXCEPT ![t] = << >>], UNCHANGED accepted,
         \/ UNCHANGED <<delivered, discarded, aborted>>
         \/ delivered' = delivered \cup SeqIds(held[t]) /\ UNCHANGED <<discarded, aborted>>
         \/ discarded' = discarded \cup SeqIds(held[t]) /\ UNCHANGED <<delivered, aborted>>
         \/ aborted' = aborted \cup SeqIds(held[t]) /\ UNCHANGED <<delivered, discarded>>
  PROVE  AbstractStep
<1> DEFINE m == HeldMessage(t).id
<1>1. TypeOK /\ \A u, v \in Threads : u # v => SeqIds(held[u]) \cap SeqIds(held[v]) = {}
  BY DEF IInv, Placement, InOnePlace
<1>2. SeqIds(held[t]) = {m}
  BY <1>1, HeldIsOne
<1> HIDE DEF m
<1>3. HeldIds' = HeldIds \ {m} /\ m \in HeldIds
  <2>1. /\ \A x : x \in HeldIds' <=> x \in HeldIds /\ x \notin SeqIds(held[t])
        /\ SeqIds(held[t]) \subseteq HeldIds
    BY <1>1, Released
  <2> QED BY <1>2, <2>1
<1>4. Accepted' = Accepted
  BY DEF Accepted
<1>5. /\ QueuedIds' = Accepted' \ (HeldIds' \cup delivered' \cup discarded' \cup aborted')
      /\ QueuedIds = Accepted \ (HeldIds \cup delivered \cup discarded \cup aborted)
      /\ HeldIds \subseteq Accepted
      /\ HeldIds \cap (delivered \cup discarded \cup aborted) = {}
  BY QueuedIsTheRest, QueuedIsTheRestNext
<1>6. CASE UNCHANGED <<delivered, discarded, aborted>>
  <2>1. QueuedIds' = QueuedIds \cup {m}
    BY <1>3, <1>4, <1>5, <1>6
  <2>2. Promise!PutBack
    BY <1>3, <1>6, <2>1, Zenon DEF Promise!PutBack
  <2> QED BY <2>2 DEF AbstractStep, Promise!Next
<1>7. CASE delivered' = delivered \cup SeqIds(held[t]) /\ UNCHANGED <<discarded, aborted>>
  <2>1. QueuedIds' = QueuedIds /\ delivered' = delivered \cup {m}
    BY <1>2, <1>3, <1>4, <1>5, <1>7
  <2>2. Promise!Deliver
    BY <1>3, <1>7, <2>1, Zenon DEF Promise!Deliver
  <2> QED BY <2>2 DEF AbstractStep, Promise!Next
<1>8. CASE /\ UNCHANGED delivered
           /\ \/ discarded' = discarded \cup SeqIds(held[t]) /\ UNCHANGED aborted
              \/ aborted' = aborted \cup SeqIds(held[t]) /\ UNCHANGED discarded
  <2>1. /\ QueuedIds' = QueuedIds
        /\ (discarded \cup aborted)' = (discarded \cup aborted) \cup {m}
    BY <1>2, <1>3, <1>4, <1>5, <1>8
  <2>2. Promise!LoseInHand
    BY <1>3, <1>8, <2>1, Zenon DEF Promise!LoseInHand
  <2> QED BY <2>2 DEF AbstractStep, Promise!Next
<1> QED BY <1>6, <1>7, <1>8

\* Every step of the queue is a step of the promise, or leaves it unchanged.
LEMMA StepRefines == IInv /\ IInv' /\ [Next]_vars => AbstractStep
<1> SUFFICES ASSUME IInv, IInv', [Next]_vars PROVE AbstractStep
  OBVIOUS
<1>0. TypeOK /\ HeldIsMidDispatch /\ accepted \in Nat
  BY DEF IInv, TypeOK
<1>a. \A s \in Sessions : SeqIds(queues[s]) \subseteq QueuedIds
  BY DEF QueuedIds, IdsIn
<1> USE DEF memVars, countVars, fileVars, timerVars, sendVars
<1>1. ASSUME NEW t \in Threads, NEW s \in Sessions, NEW text \in Texts,
             QueueMessage(t, s, text)
      PROVE  AbstractStep
  <2>1. /\ accepted' = accepted + 1
        /\ UNCHANGED <<HeldIds, delivered, discarded, aborted>>
    BY <1>1 DEF QueueMessage, HeldIds
  <2>2. Accepted' = Accepted \cup {accepted + 1} /\ accepted + 1 \notin Accepted
    BY <1>0, <2>1 DEF Accepted
  <2>3. /\ QueuedIds' = Accepted' \ (HeldIds' \cup delivered' \cup discarded' \cup aborted')
        /\ QueuedIds = Accepted \ (HeldIds \cup delivered \cup discarded \cup aborted)
        /\ HeldIds \cup delivered \cup discarded \cup aborted \subseteq Accepted
    BY QueuedIsTheRest, QueuedIsTheRestNext DEF IInv, Placement, NothingVanishes
  <2>4. QueuedIds' = QueuedIds \cup {accepted + 1}
    BY <2>1, <2>2, <2>3
  <2>5. Promise!Accept
    BY <2>1, <2>4 DEF Promise!Accept
  <2> QED BY <2>5 DEF AbstractStep, Promise!Next
<1>2. ASSUME NEW t \in Threads, NEW s \in Sessions, NEW i \in DOMAIN queues[s],
             RemoveQueueItem(t, s, i)
      PROVE  AbstractStep
  <2>1. {queues[s][i].id} \subseteq QueuedIds
    BY <1>a DEF SeqIds
  <2> QED BY <1>2, <2>1, Drops DEF RemoveQueueItem
<1>3. ASSUME NEW t \in Threads, NEW s \in Sessions, NEW i \in DOMAIN queues[s],
             NEW text \in Texts, EditQueueItem(t, s, i, text)
      PROVE  AbstractStep
  <2>1. {} \in SUBSET QueuedIds /\ discarded' = discarded \cup {}
        /\ UNCHANGED <<held, accepted, delivered, aborted>>
    BY <1>3 DEF EditQueueItem
  <2> QED BY <2>1, Drops
<1>4. ASSUME NEW t \in Threads, NEW s \in Sessions, ClearQueue(t, s)
      PROVE  AbstractStep
  BY <1>4, <1>a, Drops DEF ClearQueue
<1>5. ASSUME NEW t \in Threads, NEW old \in Sessions, NEW new \in Sessions,
             Remap(t, old, new)
      PROVE  AbstractStep
  <2>1. PICK D \in {{}, SeqIds(queues[new])} : discarded' = discarded \cup D
    BY <1>5 DEF Remap
  <2>2. D \in SUBSET QueuedIds /\ UNCHANGED <<held, accepted, delivered, aborted>>
    BY <1>5, <1>a, <2>1 DEF Remap
  <2> QED BY <2>1, <2>2, Drops
<1>6. ASSUME NEW t \in Threads, NEW s \in Sessions, PopHead(t, s)
      PROVE  AbstractStep
  <2> DEFINE d == Head(queues[s]).id
             h == [id |-> Head(queues[s]).id, text |-> Head(queues[s]).text, to |-> s]
  <2>1. d \in QueuedIds
    <3>1. queues[s] \in Seq(Message) /\ queues[s] # << >>
      BY <1>0, <1>6 DEF PopHead, TypeOK, Queues
    <3> QED BY <1>a, <3>1, TailIds
  <2>2. /\ held' = [held EXCEPT ![t] = <<h>>]
        /\ UNCHANGED <<accepted, Accepted, delivered, discarded, aborted>>
    BY <1>6 DEF PopHead, Accepted
  <2>3. SeqIds(held[t]) = {}
    BY <1>0, <1>6, EmptyIds DEF PopHead, Begin, HeldIsMidDispatch
  <2>4. SeqIds(<<h>>) = {d}
    BY DEF SeqIds
  <2> HIDE DEF d, h
  <2>5. /\ SeqIds(held'[t]) = {d}
        /\ \A u \in Threads : u # t => held'[u] = held[u]
    BY <1>0, <2>2, <2>4 DEF TypeOK
  <2>6. HeldIds' = HeldIds \cup {d}
    <3>1. \A x : x \in HeldIds <=> \E u \in Threads : x \in SeqIds(held[u])
      BY DEF HeldIds
    <3>2. \A x : x \in HeldIds' <=> \E u \in Threads : x \in SeqIds(held'[u])
      BY DEF HeldIds
    <3>3. \A x : x \in HeldIds' <=> x \in HeldIds \/ x = d
      BY <2>3, <2>5, <3>1, <3>2
    <3> QED BY <3>3
  <2>7. /\ QueuedIds' = Accepted' \ (HeldIds' \cup delivered' \cup discarded' \cup aborted')
        /\ QueuedIds = Accepted \ (HeldIds \cup delivered \cup discarded \cup aborted)
    BY QueuedIsTheRest, QueuedIsTheRestNext
  <2>8. QueuedIds' = QueuedIds \ {d}
    BY <2>2, <2>6, <2>7
  <2>9. Promise!TakeUp
    BY <2>1, <2>2, <2>6, <2>8, Zenon DEF Promise!TakeUp
  <2> QED BY <2>9 DEF AbstractStep, Promise!Next
<1>7. ASSUME NEW t \in Threads, SendTaken(t) \/ SendRefused(t) \/ SendQueuedAgain(t)
      PROVE  AbstractStep
  <2>1. held[t] # << >>
    BY <1>0, <1>7 DEF SendTaken, SendRefused, SendQueuedAgain, HeldIsMidDispatch
  <2>2. /\ held' = [held EXCEPT ![t] = << >>] /\ UNCHANGED accepted
        /\ \/ UNCHANGED <<delivered, discarded, aborted>>
           \/ delivered' = delivered \cup SeqIds(held[t]) /\ UNCHANGED <<discarded, aborted>>
           \/ discarded' = discarded \cup SeqIds(held[t]) /\ UNCHANGED <<delivered, aborted>>
    BY <1>7 DEF SendTaken, SendRefused, SendQueuedAgain
  <2> QED BY <2>1, <2>2, LetsGo
<1>8. ASSUME NEW t \in Threads, StartTimerRaises(t) PROVE AbstractStep
  <2>1. CASE held[t] = << >>
    <3>1. held' = held
      BY <1>0, <1>8, <2>1 DEF StartTimerRaises, TypeOK
    <3>2. aborted' = aborted
      BY <1>8, <2>1, EmptyIds DEF StartTimerRaises
    <3> QED BY <1>8, <3>1, <3>2, Stutters DEF StartTimerRaises
  <2>2. CASE held[t] # << >>
    BY <1>8, <2>2, LetsGo DEF StartTimerRaises
  <2> QED BY <2>1, <2>2
<1>9. ASSUME NEW t \in Threads,
             \/ SkipSave(t) \/ DecideSave(t) \/ StartTimer(t) \/ Flush(t)
             \/ \E x \in Savers : AssignTimer(t, x)
      PROVE  AbstractStep
  BY <1>9, Stutters DEF SkipSave, DecideSave, StartTimer, AssignTimer, Flush
<1>10. ASSUME NEW w \in Writers, TakeSnapshot(w) \/ Truncate(w) \/ Fill(w)
       PROVE  AbstractStep
  BY <1>10, Stutters DEF TakeSnapshot, Truncate, Fill
<1>11. ASSUME Restart PROVE AbstractStep
  <2>1. QueuedIds' = OnDiskIds /\ UNCHANGED <<accepted, Accepted>>
    BY <1>11 DEF Restart, QueuedIds, OnDiskIds, Accepted
  <2>2. QueuedIds' \subseteq Accepted
    BY <2>1, QueuedIsTheRestNext
  <2>3. HeldIds' = {}
    BY <1>11, EmptyIds DEF Restart, HeldIds
  <2>4. /\ (discarded \cup aborted)' = (1 .. accepted) \ OnDiskIds
        /\ delivered' = {}
    BY <1>11 DEF Restart, Accepted
  <2>5. Promise!Die
    BY <2>1, <2>2, <2>3, <2>4, Zenon DEF Promise!Die, Accepted
  <2> QED BY <2>5 DEF AbstractStep, Promise!Next
<1>12. CASE UNCHANGED vars
  BY <1>12, Stutters DEF vars
<1> QED BY <1>1, <1>2, <1>3, <1>4, <1>5, <1>6, <1>7, <1>8, <1>9, <1>10, <1>11, <1>12
        DEF Next, Operation, Continue, Save

\* Whatever the callers, the dispatches, the saves and the deaths of the process do
\* and in whatever order, the queue does what MessageDelivery says: a message is
\* taken at most once in the life of a process, and never after it was discarded.
THEOREM Refinement == Spec => Delivers
<1>1. Init => Promise!Init
  BY InitRefines
<1>2. IInv /\ IInv' /\ [Next]_vars => [Promise!Next]_(Promise!vars)
  BY StepRefines DEF AbstractStep
<1> QED BY <1>1, <1>2, Invariance, PTL DEF Spec, Delivers, Promise!Spec
=============================================================================
