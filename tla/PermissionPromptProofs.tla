------------------------- MODULE PermissionPromptProofs -------------------------
(***************************************************************************)
(* Theorems about PermissionPrompt, for every set of requests and of tabs  *)
(* and every bound: its types, that a prompt that waits can be answered or *)
(* is about to end, and that the state tells whether a turn runs.          *)
(***************************************************************************)
EXTENDS PermissionPrompt, TLAPS

\* An answer for prompt p is there, or on its way in a tab that took the slot.
Answered(p) == holder[p] # None \/ \E c \in Tabs : tab[c].took = p

\* Something is under way that ends every prompt.
Leaves == pending # {} \/ leaving = "yes" \/ client = "gone"

\* What is so as long as prompts come one at a time and no answer outlives its
\* prompt: the slot, what is shown and what the tabs have clicked at belong to
\* the one prompt that waits; whoever empties the slot has answered it; and as
\* long as it is not answered the CLI waits for it, and nothing ends the turn.
Orderly ==
  /\ \A p, q \in Waiting : p = q
  /\ slot \in Waiting \cup {None}
  /\ shown \in Waiting \cup {None} /\ \A p \in Waiting : shown = p
  /\ \A c \in Tabs : /\ tab[c].at # "idle" => tab[c].seen \in Waiting
                     /\ tab[c].at = "idle" => tab[c] = NoClick
                     /\ tab[c].at # "taken" => tab[c].took = None
                     /\ tab[c].took \in Waiting \cup {None}
  /\ \A p \in Prompts \ Waiting : holder[p] = None
  /\ \A p \in Waiting :
       /\ slot = p \/ Answered(p)
       /\ (\E c \in Tabs : tab[c].at = "taken") => Answered(p)
       /\ state = "WAITING" \/ Answered(p) \/ Leaves
       /\ cli => p \in asked \/ Answered(p) \/ Leaves

InTime == \A c \in Tabs : tab[c].at \notin {"checked", "taken"}

\* What is so, besides, as long as no interrupt and no close meets an answer:
\* who may set the state back to what it was finds the turn it was set for,
PromptTold(p) ==
  /\ was[p] = "WORKING"
  /\ state = "WAITING" /\ cli => p \in asked
  /\ holder[p] = "interrupt" => state # "WAITING" \/ why = "close"
  /\ holder[p] = "answer" \/ ~InTime => state = "WAITING"
  /\ turn = "none" /\ (client = "gone" \/ leaving # "no") => holder[p] = "interrupt"
  /\ leaving = "yes" => turn = "heals" \/ why = "close"
  /\ leaving = "yes" /\ "interrupt" \in pending => why = "close"

\* a close has denied the prompt that waits and lasts,
ClosedTold ==
  why = "close" =>
    /\ turn = "none" /\ ~cli /\ slot = None
    /\ \A p \in Waiting : holder[p] = "interrupt"
    /\ Waiting # {} => InTime
    /\ leaving # "no" \/ (client = "gone" /\ state = "STOPPED")

\* and the state is that of the turn, but for an interrupt or a close whose second
\* half is to come.
StateTold ==
  /\ turn = "runs" =>
       /\ client = "up" /\ leaving = "no"
       /\ state \in {"WORKING", "WAITING"} \/ pending \cap {"interrupt", "close"} # {}
  /\ state = "WORKING" => turn # "none" \/ why = "close"
  /\ state = "WAITING" => (Waiting # {} /\ turn # "none") \/ why = "close"
  /\ "interrupt" \in pending /\ why # "close" =>
       state # "WAITING" /\ (state = "WORKING" => client = "gone")

Told == (\A p \in Waiting : PromptTold(p)) /\ ClosedTold /\ StateTold

IInv ==
  /\ TypeOK
  /\ overlapped \/ outlived \/ Orderly
  /\ overlapped \/ outlived \/ crossed \/ Told

-----------------------------------------------------------------------------
(* Types, in parts.                                                        *)

PromptType ==
  /\ slot \in Prompts \cup {None} /\ shown \in Prompts \cup {None}
  /\ pc \in [Prompts -> {"unasked", "waits", "done"}]
  /\ was \in [Prompts -> {"IDLE", "WORKING", "WAITING", "STOPPED"}]
  /\ holder \in [Prompts -> {"answer", "interrupt", None}]
  /\ asked \subseteq {p \in Prompts : pc[p] = "waits"}

ClickType == [at : {"idle", "sent", "checked", "taken"}, seen : Prompts \cup {None},
              took : Prompts \cup {None}]

TurnType ==
  /\ state \in {"IDLE", "WORKING", "WAITING", "STOPPED"}
  /\ cli \in BOOLEAN /\ turn \in {"none", "runs", "heals"}
  /\ client \in {"up", "dead", "gone"}
  /\ pending \subseteq {"interrupt", "stale interrupt", "close"}
  /\ leaving \in {"no", "yes", "failed"} /\ why \in {"heal", "close"}

CountType ==
  /\ turns \in 0 .. MaxTurns /\ troubles \in 0 .. MaxTroubles
  /\ overlapped \in BOOLEAN /\ outlived \in BOOLEAN /\ crossed \in BOOLEAN

LEMMA TypeParts ==
  TypeOK <=> PromptType /\ TurnType /\ CountType /\ tab \in [Tabs -> ClickType]
BY Zenon DEF TypeOK, PromptType, TurnType, CountType, ClickType

LEMMA TypePartsNext ==
  TypeOK' <=> PromptType' /\ TurnType' /\ CountType' /\ tab' \in [Tabs -> ClickType]
BY Zenon DEF TypeOK, PromptType, TurnType, CountType, ClickType

\* One trouble more.
LEMMA TroubleType ==
  ASSUME CountType, Trouble, UNCHANGED <<overlapped, outlived>>, crossed' \in BOOLEAN
  PROVE  CountType'
<1>1. turns' \in 0 .. MaxTurns /\ troubles' \in 0 .. MaxTroubles
  BY ConstantsAssumption DEF CountType, Trouble
<1> QED BY <1>1 DEF CountType

LEMMA SameCounts ==
  ASSUME CountType, UNCHANGED <<bounds, overlapped, outlived>>, crossed' \in BOOLEAN
  PROVE  CountType'
BY DEF CountType, bounds

LEMMA SamePrompts ==
  ASSUME PromptType, UNCHANGED <<slot, shown, pc, was, holder>>, asked' \in {asked, {}}
  PROVE  PromptType'
BY DEF PromptType

LEMMA SameTurn ==
  ASSUME TurnType, UNCHANGED <<cli, turn, client, pending, leaving, why>>,
         state' \in {"IDLE", "WORKING", "WAITING", "STOPPED"}
  PROVE  TurnType'
BY DEF TurnType

\* Every step keeps the types.
LEMMA EndsType ==
  ASSUME PromptType, NEW p \in Prompts, Ends(p)
  PROVE  PromptType' /\ outlived' \in BOOLEAN
<1>1. /\ pc' = [pc EXCEPT ![p] = "done"] /\ slot' = None /\ shown' = None
      /\ asked' = asked \ {p}
      /\ was' = [was EXCEPT ![p] = "IDLE"] /\ holder' = [holder EXCEPT ![p] = None]
  BY DEF Ends
<1>2. pc' \in [Prompts -> {"unasked", "waits", "done"}]
  BY <1>1 DEF PromptType
<1>3. was' \in [Prompts -> {"IDLE", "WORKING", "WAITING", "STOPPED"}]
  BY <1>1 DEF PromptType
<1>4. holder' \in [Prompts -> {"answer", "interrupt", None}]
  BY <1>1 DEF PromptType
<1>5. asked' \subseteq {q \in Prompts : pc'[q] = "waits"}
  BY <1>1 DEF PromptType
<1>6. outlived' \in BOOLEAN
  BY DEF Ends
<1> QED BY <1>1, <1>2, <1>3, <1>4, <1>5, <1>6 DEF PromptType

LEMMA CallbackType ==
  ASSUME TypeOK, NEW p \in Prompts, Wakes(p) \/ ClientGone(p) \/ Cancelled(p) \/ TimesOut(p)
  PROVE  TypeOK'
<1>1. PromptType /\ TurnType /\ CountType /\ tab \in [Tabs -> ClickType]
  BY TypeParts
<1>2. Ends(p) /\ UNCHANGED <<tab, cli, turn, client, pending, leaving, why>>
  BY DEF Wakes, ClientGone, Cancelled, TimesOut, Ends
<1>3. PromptType' /\ outlived' \in BOOLEAN
  BY <1>1, <1>2, EndsType
<1>4. state' \in {"IDLE", "WORKING", "WAITING", "STOPPED"}
  BY <1>1 DEF Wakes, ClientGone, Cancelled, TimesOut, PromptType, TurnType
<1>5. TurnType'
  BY <1>1, <1>2, <1>4, SameTurn
<1>6. CountType'
  <2>1. CASE TimesOut(p)
    <3>1. turns' \in 0 .. MaxTurns /\ troubles' \in 0 .. MaxTroubles
      BY <1>1, <2>1, ConstantsAssumption DEF TimesOut, Trouble, CountType
    <3>2. overlapped' = overlapped /\ crossed' \in BOOLEAN
      BY <2>1 DEF TimesOut
    <3> QED BY <1>1, <1>3, <3>1, <3>2 DEF CountType
  <2>2. CASE Wakes(p) \/ ClientGone(p) \/ Cancelled(p)
    <3>1. UNCHANGED <<turns, troubles>> /\ UNCHANGED <<overlapped, crossed>>
      BY <2>2 DEF Wakes, ClientGone, Cancelled, bounds
    <3> QED BY <1>1, <1>3, <3>1 DEF CountType
  <2> QED BY <2>1, <2>2
<1> QED BY <1>1, <1>2, <1>3, <1>5, <1>6, TypePartsNext

LEMMA AskType ==
  ASSUME TypeOK, NEW p \in Prompts, Ask(p)
  PROVE  TypeOK'
<1>1. PromptType /\ TurnType /\ CountType /\ tab \in [Tabs -> ClickType]
  BY TypeParts
<1>2. UNCHANGED <<holder, tab, cli, turn, client, pending, leaving, why, turns, troubles>>
  BY DEF Ask, bounds
<1>3. CASE /\ pc' = [pc EXCEPT ![p] = "done"]
           /\ UNCHANGED <<state, slot, shown, was, asked, history>>
  <2>1. PromptType'
    <3>1. pc' \in [Prompts -> {"unasked", "waits", "done"}]
      BY <1>1, <1>3 DEF PromptType
    <3>2. asked' \subseteq {q \in Prompts : pc'[q] = "waits"}
      BY <1>1, <1>3 DEF PromptType, Ask
    <3> QED BY <1>1, <1>2, <1>3, <3>1, <3>2 DEF PromptType
  <2>2. TurnType' /\ CountType'
    BY <1>1, <1>2, <1>3 DEF TurnType, CountType, history
  <2> QED BY <1>1, <1>2, <2>1, <2>2, TypePartsNext
<1>4. CASE /\ Prompt(p) /\ pc' = [pc EXCEPT ![p] = "waits"] /\ asked' = asked \cup {p}
           /\ overlapped' \in BOOLEAN /\ crossed' \in BOOLEAN /\ UNCHANGED outlived
  <2>1. PromptType'
    <3>1. pc' \in [Prompts -> {"unasked", "waits", "done"}]
      BY <1>1, <1>4 DEF PromptType
    <3>2. was' \in [Prompts -> {"IDLE", "WORKING", "WAITING", "STOPPED"}]
      BY <1>1, <1>4 DEF PromptType, TurnType, Prompt
    <3>3. asked' \subseteq {q \in Prompts : pc'[q] = "waits"}
      BY <1>1, <1>4 DEF PromptType
    <3> QED BY <1>1, <1>2, <1>4, <3>1, <3>2, <3>3 DEF PromptType, Prompt
  <2>2. TurnType'
    BY <1>1, <1>2, <1>4 DEF TurnType, Prompt
  <2>3. CountType'
    BY <1>1, <1>2, <1>4 DEF CountType
  <2> QED BY <1>1, <1>2, <2>1, <2>2, <2>3, TypePartsNext
<1>5. \/ /\ pc' = [pc EXCEPT ![p] = "done"]
         /\ UNCHANGED <<state, slot, shown, was, asked, history>>
      \/ /\ Prompt(p) /\ pc' = [pc EXCEPT ![p] = "waits"] /\ asked' = asked \cup {p}
         /\ overlapped' \in BOOLEAN /\ crossed' \in BOOLEAN /\ UNCHANGED outlived
  <2>1. \A x : (overlapped \/ x) \in BOOLEAN /\ (crossed \/ x) \in BOOLEAN
    OBVIOUS
  <2> QED BY <2>1, Zenon DEF Ask
<1> QED BY <1>3, <1>4, <1>5

LEMMA TabType ==
  ASSUME TypeOK, NEW c \in Tabs, Click(c) \/ Answer(c)
  PROVE  TypeOK'
<1>1. PromptType /\ TurnType /\ CountType /\ tab \in [Tabs -> ClickType]
  BY TypeParts
<1>2. /\ UNCHANGED <<state, shown, pc, was>>
      /\ UNCHANGED <<asked, cli, turn, client, pending, leaving, why>>
      /\ UNCHANGED <<turns, troubles>> /\ UNCHANGED <<overlapped, outlived, crossed>>
  BY DEF Click, Answer, Checks, Takes, Sets, loopVars, bounds, history
<1>3. TurnType' /\ CountType'
  BY <1>1, <1>2 DEF TurnType, CountType
<1>4. PromptType'
  <2>1. slot' \in {slot, None}
    BY DEF Click, Answer, Checks, Takes, Sets
  <2>2. holder' \in [Prompts -> {"answer", "interrupt", None}]
    BY <1>1 DEF Click, Answer, Checks, Takes, Sets, PromptType
  <2> QED BY <1>1, <1>2, <2>1, <2>2 DEF PromptType
<1>5. tab' \in [Tabs -> ClickType]
  <2>1. tab[c] \in ClickType /\ slot \in Prompts \cup {None} /\ shown \in Prompts \cup {None}
    BY <1>1 DEF PromptType
  <2>2. PICK new : tab' = [tab EXCEPT ![c] = new]
                   /\ new \in {[at |-> "sent", seen |-> shown, took |-> None], NoClick,
                               [tab[c] EXCEPT !.at = "checked"],
                               [tab[c] EXCEPT !.at = "taken", !.took = slot]}
    BY DEF Click, Answer, Checks, Takes, Sets
  <2>3. /\ [at |-> "sent", seen |-> shown, took |-> None] \in ClickType /\ NoClick \in ClickType
        /\ [tab[c] EXCEPT !.at = "checked"] \in ClickType
        /\ [tab[c] EXCEPT !.at = "taken", !.took = slot] \in ClickType
    BY <2>1 DEF ClickType, NoClick
  <2>4. new \in ClickType
    BY <2>2, <2>3
  <2> QED BY <1>1, <2>2, <2>4
<1> QED BY <1>3, <1>4, <1>5, TypePartsNext

LEMMA TurnStepType ==
  ASSUME TypeOK, Send \/ Result \/ CliStops \/ TransportDies
  PROVE  TypeOK'
<1>1. PromptType /\ TurnType /\ CountType /\ tab \in [Tabs -> ClickType]
  BY TypeParts
<1>2. /\ UNCHANGED <<slot, shown, pc, was, holder>> /\ UNCHANGED tab
      /\ UNCHANGED <<pending, leaving, why>> /\ UNCHANGED <<overlapped, outlived, crossed>>
      /\ asked' = asked \/ asked' = {}
  BY DEF Send, Result, CliStops, TransportDies, history
<1>3. PromptType'
  BY <1>1, <1>2, SamePrompts
<1>4. TurnType'
  <2>1. /\ state' \in {"IDLE", "WORKING", state}
        /\ cli' \in {FALSE, TRUE} /\ turn' \in {"none", "runs", "heals", turn}
        /\ client' \in {"dead", client}
    BY DEF Send, Result, CliStops, TransportDies
  <2> QED BY <1>1, <1>2, <2>1 DEF TurnType
<1>5. CountType'
  <2>1. turns' \in 0 .. MaxTurns /\ troubles' \in 0 .. MaxTroubles
    BY <1>1, ConstantsAssumption DEF Send, Result, CliStops, TransportDies, CountType, Trouble, bounds
  <2> QED BY <1>1, <1>2, <2>1 DEF CountType
<1> QED BY <1>1, <1>2, <1>3, <1>4, <1>5, TypePartsNext

LEMMA ConnectionType ==
  ASSUME TypeOK, Disconnected \/ HealDisconnects \/ Reconnects
  PROVE  TypeOK'
<1>1. PromptType /\ TurnType /\ CountType /\ tab \in [Tabs -> ClickType]
  BY TypeParts
<1>2. /\ UNCHANGED <<slot, shown, pc, was, holder>> /\ UNCHANGED tab /\ UNCHANGED asked
      /\ UNCHANGED <<turns, troubles>> /\ UNCHANGED <<overlapped, outlived, crossed>>
  BY DEF Disconnected, HealDisconnects, Reconnects, history, bounds
<1>3. PromptType'
  BY <1>1, <1>2, SamePrompts
<1>4. CountType'
  BY <1>1, <1>2 DEF CountType
<1>5. TurnType'
  <2>1. CASE Disconnected
    BY <1>1, <2>1 DEF Disconnected, TurnType
  <2>2. CASE HealDisconnects
    BY <1>1, <2>2 DEF HealDisconnects, TurnType
  <2>3. CASE Reconnects
    <3>1. pending' \subseteq {"interrupt", "stale interrupt", "close"}
      <4>1. pending \subseteq {"interrupt", "stale interrupt", "close"}
        BY <1>1 DEF TurnType
      <4>2. \/ pending' = {IF half = "interrupt" THEN "stale interrupt" ELSE half : half \in pending}
            \/ pending' = pending
        BY <2>3 DEF Reconnects
      <4> QED BY <4>1, <4>2
    <3>2. /\ client' \in {"up", client} /\ cli' \in {TRUE, cli} /\ turn' \in {"runs", "none"}
          /\ state' \in {"WORKING", "IDLE"} /\ UNCHANGED <<leaving, why>>
      BY <2>3 DEF Reconnects
    <3> QED BY <1>1, <3>1, <3>2 DEF TurnType
  <2> QED BY <2>1, <2>2, <2>3
<1> QED BY <1>1, <1>2, <1>3, <1>4, <1>5, TypePartsNext

LEMMA StopType ==
  ASSUME TypeOK, Interrupt \/ Close \/ InterruptRuns \/ CloseRuns
  PROVE  TypeOK'
<1>1. PromptType /\ TurnType /\ CountType /\ tab \in [Tabs -> ClickType]
  BY TypeParts
<1>2. /\ UNCHANGED <<shown, pc, was>> /\ UNCHANGED tab /\ UNCHANGED client
      /\ UNCHANGED <<overlapped, outlived>> /\ asked' \in {asked, {}}
  BY DEF Interrupt, Close, InterruptRuns, CloseRuns
<1>3. PromptType'
  <2>1. slot' \in {slot, None}
    BY DEF Interrupt, Close, InterruptRuns, CloseRuns, Denies
  <2>2. holder' \in [Prompts -> {"answer", "interrupt", None}]
    <3>1. holder' = holder \/ (slot # None /\ holder' = [holder EXCEPT ![slot] = "interrupt"])
      BY DEF Interrupt, Close, InterruptRuns, CloseRuns, Denies
    <3> QED BY <1>1, <3>1 DEF PromptType
  <2> QED BY <1>1, <1>2, <2>1, <2>2 DEF PromptType
<1>4. TurnType'
  <2>1. /\ state' \in {state, "IDLE", "STOPPED"} /\ cli' \in {cli, FALSE}
        /\ turn' \in {turn, "none"} /\ leaving' \in {leaving, "yes", "failed"}
        /\ why' \in {why, "close"}
    BY DEF Interrupt, Close, InterruptRuns, CloseRuns
  <2>2. pending' \subseteq pending \cup {"interrupt", "close"}
    BY DEF Interrupt, Close, InterruptRuns, CloseRuns
  <2> QED BY <1>1, <1>2, <2>1, <2>2 DEF TurnType
<1>5. CountType'
  <2>1. turns' \in 0 .. MaxTurns /\ troubles' \in 0 .. MaxTroubles
    <3>1. UNCHANGED <<turns, troubles>> \/ Trouble
      BY DEF Interrupt, Close, InterruptRuns, CloseRuns, bounds
    <3> QED BY <1>1, <3>1, ConstantsAssumption DEF Trouble, CountType
  <2>2. crossed' \in BOOLEAN
    BY DEF Interrupt, Close, InterruptRuns, CloseRuns
  <2> QED BY <1>1, <1>2, <2>1, <2>2 DEF CountType
<1> QED BY <1>1, <1>2, <1>3, <1>4, <1>5, TypePartsNext

LEMMA StepType == TypeOK /\ [Next]_vars => TypeOK'
<1> SUFFICES ASSUME TypeOK, [Next]_vars PROVE TypeOK'
  OBVIOUS
<1>1. CASE UNCHANGED vars
  <2>1. PromptType /\ TurnType /\ CountType /\ tab \in [Tabs -> ClickType]
    BY TypeParts
  <2>2. /\ UNCHANGED <<state, slot, shown, pc, was, holder, tab>>
        /\ UNCHANGED <<asked, cli, turn, client, pending, leaving, why>>
        /\ UNCHANGED <<turns, troubles>> /\ UNCHANGED <<overlapped, outlived, crossed>>
    BY <1>1 DEF vars, loopVars, bounds, history
  <2>3. PromptType'
    BY <2>1, <2>2 DEF PromptType
  <2>4. TurnType'
    BY <2>1, <2>2 DEF TurnType
  <2>5. CountType'
    BY <2>1, <2>2 DEF CountType
  <2> QED BY <2>1, <2>2, <2>3, <2>4, <2>5, TypePartsNext
<1>2. CASE Next
  BY <1>2, CallbackType, AskType, TabType, TurnStepType, ConnectionType, StopType
     DEF Next, Callback, Answer, Halves
<1> QED BY <1>1, <1>2

-----------------------------------------------------------------------------
(* The prompts stay orderly.                                               *)

\* A prompt that is answered stays so until its callback has seen it.
LEMMA AnsweredStays ==
  ASSUME PromptType, tab' = tab,
         \/ holder' = holder
         \/ slot \in Prompts /\ holder' = [holder EXCEPT ![slot] = "interrupt"],
         NEW p \in Prompts, Answered(p)
  PROVE  Answered(p)'
BY ConstantsAssumption DEF PromptType, Answered

\* The end of a callback that no answer outlives: nothing waits, in a tab or
\* for one.
LEMMA EndsOrderly ==
  ASSUME TypeOK, Orderly, NEW p \in Prompts, pc[p] = "waits", Ends(p), ~outlived'
  PROVE  Orderly'
<1>1. PromptType /\ tab \in [Tabs -> ClickType]
  BY TypeParts
<1>2. p \in Waiting
  BY DEF Waiting
<1>3. /\ pc' = [pc EXCEPT ![p] = "done"] /\ slot' = None /\ shown' = None
      /\ tab' = tab
      /\ ~ \E c \in Tabs : tab[c].seen = p
  BY DEF Ends
<1>4. Waiting' = {}
  BY <1>1, <1>2, <1>3 DEF Waiting, PromptType, Orderly
<1>5. \A c \in Tabs : tab[c] = NoClick
  BY <1>2, <1>3 DEF Orderly
<1>6. \A c \in Tabs : tab'[c].took = None /\ tab'[c].at = "idle"
  BY <1>3, <1>5 DEF NoClick
<1>7. \A q \in Prompts : holder'[q] = None
  <2>1. holder' = [holder EXCEPT ![p] = None] /\ Waiting = {p}
    BY <1>2 DEF Ends, Orderly
  <2> QED BY <1>1, <2>1 DEF PromptType, Orderly
<1> QED BY <1>3, <1>4, <1>5, <1>6, <1>7 DEF Orderly

LEMMA AskOrderly ==
  ASSUME TypeOK, Orderly, NEW p \in Prompts, Ask(p), ~overlapped'
  PROVE  Orderly'
<1>1. PromptType /\ tab \in [Tabs -> ClickType]
  BY TypeParts
<1>2. pc[p] = "unasked" /\ cli' = cli /\ tab' = tab /\ holder' = holder
      /\ UNCHANGED <<pending, leaving, client>>
  BY DEF Ask
<1>3. CASE pc' = [pc EXCEPT ![p] = "done"] /\ UNCHANGED <<state, slot, shown, was, asked, history>>
  <2>1. Waiting' = Waiting
    BY <1>1, <1>2, <1>3 DEF Waiting, PromptType
  <2>2. \A q \in Prompts : Answered(q)' <=> Answered(q)
    BY <1>2 DEF Answered
  <2>3. Leaves' <=> Leaves
    BY <1>2 DEF Leaves
  <2>4. Waiting \subseteq Prompts
    BY DEF Waiting
  <2> QED BY <1>2, <1>3, <2>1, <2>2, <2>3, <2>4 DEF Orderly
<1>4. CASE /\ Prompt(p) /\ pc' = [pc EXCEPT ![p] = "waits"] /\ asked' = asked \cup {p}
           /\ Waiting = {}
  <2>1. Waiting' = {p}
    BY <1>1, <1>4 DEF Waiting, PromptType
  <2>2. /\ slot' = p /\ shown' = p /\ state' = "WAITING" /\ p \in asked'
    BY <1>4 DEF Prompt
  <2>3. \A c \in Tabs : tab'[c] = NoClick /\ tab'[c].at = "idle" /\ tab'[c].took = None
    BY <1>2, <1>4 DEF Orderly, NoClick
  <2>4. \A q \in Prompts : holder'[q] = None
    BY <1>2, <1>4 DEF Orderly
  <2> QED BY <2>1, <2>2, <2>3, <2>4 DEF Orderly
<1>5. \/ pc' = [pc EXCEPT ![p] = "done"] /\ UNCHANGED <<state, slot, shown, was, asked, history>>
      \/ /\ Prompt(p) /\ pc' = [pc EXCEPT ![p] = "waits"] /\ asked' = asked \cup {p}
         /\ Waiting = {}
  BY DEF Ask
<1> QED BY <1>3, <1>4, <1>5

LEMMA TabOrderly ==
  ASSUME TypeOK, Orderly, NEW c \in Tabs, Click(c) \/ Answer(c)
  PROVE  Orderly'
<1>1. PromptType /\ tab \in [Tabs -> ClickType]
  BY TypeParts
<1>2. /\ UNCHANGED <<state, shown, pc>> /\ UNCHANGED <<asked, cli>>
      /\ UNCHANGED <<client, pending, leaving>>
  BY DEF Click, Answer, Checks, Takes, Sets, loopVars
<1>3. Waiting' = Waiting /\ (Leaves' <=> Leaves) /\ Waiting \subseteq Prompts /\ None \notin Prompts
  BY <1>2, ConstantsAssumption DEF Waiting, Leaves
<1>4. CASE Click(c)
  <2>1. /\ tab[c].at = "idle" /\ tab' = [tab EXCEPT ![c] = [at |-> "sent", seen |-> shown, took |-> None]]
        /\ slot' = slot /\ holder' = holder /\ shown # None
    BY <1>4 DEF Click
  <2>2. tab[c].took = None
    BY <2>1 DEF Orderly, NoClick
  <2>3. /\ tab'[c].at = "sent" /\ tab'[c].seen = shown /\ tab'[c].took = None
        /\ \A d \in Tabs : d # c => tab'[d] = tab[d]
    BY <1>1, <2>1
  <2>4. \A p \in Prompts : Answered(p) => Answered(p)'
    BY <1>3, <2>1, <2>2, <2>3 DEF Answered
  <2> QED BY <1>2, <1>3, <2>1, <2>3, <2>4 DEF Orderly
<1>5. CASE Checks(c)
  <2>1. /\ tab[c].at = "sent" /\ slot' = slot /\ holder' = holder
        /\ \/ tab' = [tab EXCEPT ![c] = [tab[c] EXCEPT !.at = "checked"]]
           \/ tab' = [tab EXCEPT ![c] = NoClick]
    BY <1>5 DEF Checks
  <2>2. /\ tab[c].took = None /\ tab[c].seen \in Waiting /\ tab[c] \in ClickType
    BY <1>1, <2>1 DEF Orderly
  <2>3. \A d \in Tabs : d # c => tab'[d] = tab[d]
    BY <1>1, <2>1
  <2>4. \/ tab'[c].at = "checked" /\ tab'[c].seen = tab[c].seen /\ tab'[c].took = None
        \/ tab'[c] = NoClick /\ tab'[c].at = "idle" /\ tab'[c].took = None
    <3>1. CASE tab' = [tab EXCEPT ![c] = [tab[c] EXCEPT !.at = "checked"]]
      <4>1. tab'[c] = [tab[c] EXCEPT !.at = "checked"]
        BY <1>1, <3>1
      <4> QED BY <2>2, <4>1 DEF ClickType
    <3>2. CASE tab' = [tab EXCEPT ![c] = NoClick]
      <4>1. tab'[c] = NoClick
        BY <1>1, <3>2
      <4> QED BY <4>1 DEF NoClick
    <3> QED BY <2>1, <3>1, <3>2
  <2>5. \A p \in Prompts : Answered(p) => Answered(p)'
    BY <1>3, <2>1, <2>2, <2>3 DEF Answered
  <2> QED BY <1>2, <1>3, <2>1, <2>2, <2>3, <2>4, <2>5 DEF Orderly
<1>6. CASE Takes(c)
  <2>1. /\ tab[c].at = "checked" /\ slot' = slot /\ holder' = holder
        /\ tab' = [tab EXCEPT ![c] = [tab[c] EXCEPT !.at = "taken", !.took = slot]]
    BY <1>6 DEF Takes
  <2>2. /\ tab[c].took = None /\ tab[c].seen \in Waiting /\ tab[c] \in ClickType
    BY <1>1, <2>1 DEF Orderly
  <2>3. \A d \in Tabs : d # c => tab'[d] = tab[d]
    BY <1>1, <2>1
  <2>4. tab'[c] = [tab[c] EXCEPT !.at = "taken", !.took = slot]
    BY <1>1, <2>1
  <2>5. tab'[c].at = "taken" /\ tab'[c].seen = tab[c].seen /\ tab'[c].took = slot
    BY <2>2, <2>4 DEF ClickType
  <2>6. \A p \in Prompts : Answered(p) => Answered(p)'
    BY <1>3, <2>1, <2>2, <2>3 DEF Answered
  <2>7. \A p \in Waiting : Answered(p)'
    <3>1. ASSUME NEW p \in Waiting PROVE Answered(p)'
      <4>1. CASE slot = p
        BY <2>5, <4>1 DEF Answered
      <4>2. CASE Answered(p)
        BY <1>3, <2>6, <4>2
      <4> QED BY <4>1, <4>2 DEF Orderly
    <3> QED BY <3>1
  <2> QED BY <1>2, <1>3, <2>1, <2>2, <2>3, <2>5, <2>7 DEF Orderly
<1>7. CASE Sets(c)
  <2>1. /\ tab[c].at = "taken" /\ slot' = None
        /\ holder' = IF tab[c].took \in Waiting
                     THEN [holder EXCEPT ![tab[c].took] = "answer"] ELSE holder
        /\ tab' = [tab EXCEPT ![c] = NoClick]
    BY <1>7 DEF Sets
  <2>2. tab'[c] = NoClick /\ tab'[c].at = "idle" /\ tab'[c].took = None
    BY <1>1, <2>1 DEF NoClick
  <2>3. \A d \in Tabs : d # c => tab'[d] = tab[d]
    BY <1>1, <2>1
  <2>4. ASSUME NEW p \in Waiting PROVE Answered(p)'
    <3>1. Answered(p)
      BY <2>1 DEF Orderly
    <3>2. CASE tab[c].took = p
      <4>1. holder'[p] = "answer"
        BY <1>1, <1>3, <2>1, <3>2 DEF PromptType
      <4> QED BY <4>1, ConstantsAssumption DEF Answered
    <3>3. CASE tab[c].took # p
      <4>1. holder'[p] = holder[p]
        BY <1>1, <1>3, <2>1, <3>3 DEF PromptType
      <4> QED BY <3>1, <3>3, <4>1, <2>3 DEF Answered
    <3> QED BY <3>2, <3>3
  <2> QED BY <1>2, <1>3, <2>1, <2>2, <2>3, <2>4 DEF Orderly
<1> QED BY <1>4, <1>5, <1>6, <1>7 DEF Answer

\* Turns, interrupts, closes and lost transports leave the callbacks and the tabs
\* alone; some empty the slot, and then they have answered.
LEMMA OthersOrderly ==
  ASSUME TypeOK, Orderly, UNCHANGED <<shown, pc, tab>>,
         UNCHANGED <<slot, holder>> \/ Denies,
         \A p \in Waiting :
           \/ Denies \/ Leaves' \/ Answered(p)
           \/ /\ Leaves => Leaves'
              /\ state = "WAITING" => state' = "WAITING"
              /\ cli' => cli /\ asked' = asked
  PROVE  Orderly'
<1>1. PromptType /\ tab \in [Tabs -> ClickType]
  BY TypeParts
<1>2. Waiting' = Waiting /\ Waiting \subseteq Prompts /\ None \notin Prompts
  BY ConstantsAssumption DEF Waiting
<1>3. \A p \in Prompts : Answered(p) => Answered(p)'
  <2>1. \/ holder' = holder
        \/ slot \in Prompts /\ holder' = [holder EXCEPT ![slot] = "interrupt"]
    BY <1>1 DEF Denies, PromptType
  <2> QED BY <1>1, <2>1, AnsweredStays
<1>4. ASSUME Denies, NEW p \in Waiting PROVE Answered(p)'
  <2>1. CASE slot = p
    <3>1. holder'[p] = "interrupt"
      BY <1>1, <1>2, <1>4, <2>1 DEF Denies, PromptType
    <3> QED BY <3>1, ConstantsAssumption DEF Answered
  <2>2. CASE Answered(p)
    BY <1>2, <1>3, <2>2
  <2> QED BY <2>1, <2>2 DEF Orderly
<1>5. slot' \in {slot, None}
  BY DEF Denies
<1>6. ASSUME NEW p \in Waiting
      PROVE  /\ slot' = p \/ Answered(p)'
             /\ (\E c \in Tabs : tab'[c].at = "taken") => Answered(p)'
             /\ state' = "WAITING" \/ Answered(p)' \/ Leaves'
             /\ cli' => p \in asked' \/ Answered(p)' \/ Leaves'
  BY <1>2, <1>3, <1>4 DEF Orderly
<1>7. \A p \in Prompts \ Waiting : holder'[p] = None
  BY <1>1, <1>2 DEF Denies, PromptType, Orderly
<1> QED BY <1>2, <1>5, <1>6, <1>7 DEF Orderly

LEMMA StepOrderly ==
  ASSUME TypeOK, Orderly, Next, ~overlapped', ~outlived'
  PROVE  Orderly'
<1> USE DEF Leaves
<1>1. CASE \E p \in Prompts : Ask(p) \/ Callback(p) \/ TimesOut(p)
  <2>1. PICK p \in Prompts : Ask(p) \/ Callback(p) \/ TimesOut(p)
    BY <1>1
  <2>2. CASE Ask(p)
    BY <2>2, AskOrderly
  <2>3. CASE Callback(p) \/ TimesOut(p)
    <3>1. pc[p] = "waits" /\ Ends(p)
      BY <2>3 DEF Callback, Wakes, ClientGone, Cancelled, TimesOut
    <3> QED BY <3>1, EndsOrderly
  <2> QED BY <2>1, <2>2, <2>3
<1>2. CASE \E c \in Tabs : Click(c) \/ Answer(c)
  BY <1>2, TabOrderly
<1>3. CASE Send
  <2>1. /\ UNCHANGED <<shown, pc, tab>> /\ UNCHANGED <<slot, holder>>
        /\ state = "IDLE" /\ ~Leaves
    BY <1>3 DEF Send
  <2>2. \A p \in Waiting : Answered(p)
    BY <2>1 DEF Orderly
  <2> QED BY <2>1, <2>2, OthersOrderly
<1>4. CASE Result
  <2>1. /\ UNCHANGED <<shown, pc, tab>> /\ UNCHANGED <<slot, holder>>
        /\ UNCHANGED <<pending, leaving, client>>
        /\ cli /\ asked = {}
    BY <1>4 DEF Result
  <2>2. \A p \in Waiting : Answered(p) \/ Leaves'
    BY <2>1 DEF Orderly
  <2> QED BY <2>1, <2>2, OthersOrderly
<1>5. CASE Interrupt \/ Close
  <2>1. UNCHANGED <<shown, pc, tab>> /\ UNCHANGED <<slot, holder>> /\ pending' # {}
    BY <1>5 DEF Interrupt, Close
  <2> QED BY <2>1, OthersOrderly
<1>6. CASE TransportDies
  <2>1. /\ UNCHANGED <<shown, pc, tab>> /\ UNCHANGED <<slot, holder>>
        /\ pending' = pending /\ leaving' = leaving /\ client = "up" /\ cli' = FALSE
        /\ state = "WAITING" => state' = "WAITING"
    BY <1>6 DEF TransportDies
  <2> QED BY <2>1, OthersOrderly
<1>7. CASE CliStops
  <2>1. /\ UNCHANGED <<shown, pc, tab>> /\ UNCHANGED <<slot, holder>>
        /\ UNCHANGED <<pending, leaving, client, state>> /\ cli' = FALSE
    BY <1>7 DEF CliStops
  <2> QED BY <2>1, OthersOrderly
<1>8. CASE InterruptRuns
  <2>1. /\ UNCHANGED <<shown, pc, tab>> /\ client' = client
        /\ IF client = "gone" THEN UNCHANGED <<slot, holder>> ELSE Denies
    BY <1>8 DEF InterruptRuns
  <2> QED BY <2>1, OthersOrderly
<1>9. CASE CloseRuns
  <2>1. UNCHANGED <<shown, pc, tab>> /\ Denies
    BY <1>9 DEF CloseRuns
  <2> QED BY <2>1, OthersOrderly
<1>10. CASE Disconnected
  <2>1. UNCHANGED <<shown, pc, tab>> /\ UNCHANGED <<slot, holder>> /\ client' = "gone"
    BY <1>10 DEF Disconnected
  <2> QED BY <2>1, OthersOrderly
<1>11. CASE HealDisconnects
  <2>1. /\ UNCHANGED <<shown, pc, tab>> /\ UNCHANGED <<slot, holder>>
        /\ UNCHANGED <<pending, client, state, cli, asked>> /\ leaving = "no"
    BY <1>11 DEF HealDisconnects
  <2> QED BY <2>1, OthersOrderly
<1>12. CASE Reconnects
  <2>1. UNCHANGED <<shown, pc, tab>> /\ UNCHANGED <<slot, holder>> /\ Waiting = {}
    BY <1>12 DEF Reconnects
  <2> QED BY <2>1, OthersOrderly
<1> QED BY <1>1, <1>2, <1>3, <1>4, <1>5, <1>6, <1>7, <1>8, <1>9, <1>10, <1>11, <1>12
        DEF Next, Halves

\* What has happened has happened.
LEMMA HistoryStays ==
  ASSUME Next
  PROVE  (overlapped => overlapped') /\ (outlived => outlived') /\ (crossed => crossed')
<1>1. ASSUME NEW p \in Prompts, Ask(p)
      PROVE  (overlapped => overlapped') /\ (outlived => outlived') /\ (crossed => crossed')
  <2>1. outlived' = outlived
    BY <1>1 DEF Ask, history
  <2>2. overlapped => overlapped'
    BY <1>1, Zenon DEF Ask, history
  <2>3. crossed => crossed'
    BY <1>1, Zenon DEF Ask, history
  <2> QED BY <2>1, <2>2, <2>3
<1>2. ASSUME NEW p \in Prompts, Ends(p) PROVE outlived => outlived'
  BY <1>2, Zenon DEF Ends
<1>3. ASSUME NEW p \in Prompts, TimesOut(p)
      PROVE  (overlapped => overlapped') /\ (crossed => crossed')
  BY <1>3, Zenon DEF TimesOut
<1>4. ASSUME NEW p \in Prompts, Callback(p)
      PROVE  (overlapped => overlapped') /\ (crossed => crossed')
  BY <1>4 DEF Callback, Wakes, ClientGone, Cancelled
<1>5. ASSUME NEW c \in Tabs, Click(c) \/ Answer(c) PROVE UNCHANGED history
  BY <1>5 DEF Click, Answer, Checks, Takes, Sets
<1>6. ASSUME Send \/ Result \/ TransportDies \/ CliStops \/ Disconnected \/ HealDisconnects \/ Reconnects
      PROVE  UNCHANGED history
  BY <1>6 DEF Send, Result, TransportDies, CliStops, Disconnected, HealDisconnects, Reconnects
<1>7. ASSUME Interrupt \/ Close \/ InterruptRuns \/ CloseRuns
      PROVE  UNCHANGED <<overlapped, outlived>>
  BY <1>7 DEF Interrupt, Close, InterruptRuns, CloseRuns
<1>8. ASSUME Interrupt \/ Close \/ InterruptRuns \/ CloseRuns
      PROVE  crossed => crossed'
  BY <1>8, Zenon DEF Interrupt, Close, InterruptRuns, CloseRuns
<1>9. ASSUME NEW p \in Prompts, Callback(p) \/ TimesOut(p) PROVE Ends(p)
  BY <1>9 DEF Callback, Wakes, ClientGone, Cancelled, TimesOut
<1>10. UNCHANGED history => UNCHANGED <<overlapped, outlived>> /\ UNCHANGED crossed
  BY DEF history
<1>11. CASE \E p \in Prompts : Ask(p) \/ Callback(p) \/ TimesOut(p)
  BY <1>1, <1>2, <1>3, <1>4, <1>9, <1>11
<1>12. CASE \E c \in Tabs : Click(c) \/ Answer(c)
  BY <1>5, <1>10, <1>12
<1>13. CASE Send \/ Result \/ TransportDies \/ CliStops \/ Disconnected \/ HealDisconnects \/ Reconnects
  BY <1>6, <1>10, <1>13
<1>14. CASE Interrupt \/ Close \/ InterruptRuns \/ CloseRuns
  BY <1>7, <1>8, <1>14
<1> QED BY <1>11, <1>12, <1>13, <1>14 DEF Next, Halves

-----------------------------------------------------------------------------
(* The state tells.                                                        *)

\* A callback that ends leaves no prompt and no click; what matters is the state
\* it sets.
LEMMA EndsTold ==
  ASSUME TypeOK, Orderly, Told, NEW p \in Prompts, Callback(p) \/ TimesOut(p),
         ~outlived', ~crossed'
  PROVE  Told'
<1>1. PromptType /\ tab \in [Tabs -> ClickType]
  BY TypeParts
<1>2. pc[p] = "waits" /\ Ends(p)
  BY DEF Callback, Wakes, ClientGone, Cancelled, TimesOut
<1>3. /\ pc' = [pc EXCEPT ![p] = "done"] /\ slot' = None /\ tab' = tab
      /\ UNCHANGED <<cli, turn, client, pending, leaving, why>>
      /\ ~ \E c \in Tabs : tab[c].seen = p
  BY <1>2 DEF Ends
<1>4. Waiting = {p} /\ Waiting' = {}
  BY <1>1, <1>2, <1>3 DEF Waiting, PromptType, Orderly
<1>5. PromptTold(p) /\ ClosedTold /\ StateTold
  BY <1>4 DEF Told
<1>6. holder[p] \in {"answer", "interrupt", None} /\ None \notin {"answer", "interrupt"}
  BY <1>1, ConstantsAssumption DEF PromptType
<1>7. Answered(p) => holder[p] # None
  <2>1. \A c \in Tabs : tab[c] = NoClick
    BY <1>3, <1>4 DEF Orderly
  <2> QED BY <2>1, <1>4, <1>1, ConstantsAssumption DEF Answered, NoClick
<1>8. ClosedTold' /\ StateTold'
  <2>1. CASE Wakes(p)
    <3>1. /\ holder[p] # None
          /\ state' = IF holder[p] = "interrupt" THEN state ELSE "WORKING"
      BY <2>1 DEF Wakes
    <3> QED BY <1>3, <1>4, <1>5, <1>6, <3>1 DEF PromptTold, ClosedTold, StateTold
  <2>2. CASE ClientGone(p)
    <3>1. holder[p] = None /\ client = "gone" /\ state' = "WORKING"
      BY <2>2 DEF ClientGone
    <3> QED BY <1>3, <1>4, <1>5, <1>6, <3>1 DEF PromptTold, ClosedTold, StateTold
  <2>3. CASE TimesOut(p)
    <3>1. holder[p] = None /\ state' = "WORKING"
      BY <2>3 DEF TimesOut
    <3>2. state = "WAITING"
      BY <2>3, Zenon DEF TimesOut
    <3> QED BY <1>3, <1>4, <1>5, <1>6, <3>1, <3>2 DEF PromptTold, ClosedTold, StateTold
  <2>4. CASE Cancelled(p)
    <3>1. leaving = "yes" /\ state' = was[p]
      BY <2>4 DEF Cancelled
    <3> QED BY <1>3, <1>4, <1>5, <1>6, <3>1 DEF PromptTold, ClosedTold, StateTold
  <2> QED BY <2>1, <2>2, <2>3, <2>4 DEF Callback
<1> QED BY <1>4, <1>8 DEF Told

\* Nothing else changes: what is told of a prompt stays true.
LEMMA AskTold ==
  ASSUME TypeOK, Orderly, Told, NEW p \in Prompts, Ask(p), ~overlapped', ~crossed'
  PROVE  Told'
<1>1. PromptType /\ TurnType
  BY TypeParts
<1>2. /\ pc[p] = "unasked" /\ cli /\ leaving # "yes"
      /\ UNCHANGED <<holder, tab, cli, turn, client, pending, leaving, why>>
  BY DEF Ask
<1>3. InTime' <=> InTime
  BY <1>2 DEF InTime
<1>4. CASE pc' = [pc EXCEPT ![p] = "done"] /\ UNCHANGED <<state, slot, shown, was, asked, history>>
  <2>1. Waiting' = Waiting
    BY <1>1, <1>2, <1>4 DEF Waiting, PromptType
  <2>2. \A q : PromptTold(q) => PromptTold(q)'
    BY <1>2, <1>3, <1>4 DEF PromptTold
  <2> QED BY <1>2, <1>3, <1>4, <2>1, <2>2 DEF Told, ClosedTold, StateTold
<1>5. CASE /\ Prompt(p) /\ pc' = [pc EXCEPT ![p] = "waits"] /\ asked' = asked \cup {p}
           /\ client = "up" /\ Waiting = {} /\ state = "WORKING"
  <2>1. Waiting' = {p}
    BY <1>1, <1>5 DEF Waiting, PromptType
  <2>2. slot' = p /\ was'[p] = "WORKING" /\ state' = "WAITING" /\ p \in asked'
    BY <1>1, <1>5 DEF Prompt, PromptType
  <2>3. holder'[p] = None /\ None \notin {"answer", "interrupt"}
    BY <1>2, <1>5, ConstantsAssumption DEF Orderly
  <2>4. why # "close" /\ turn # "none" /\ "interrupt" \notin pending
    BY <1>2, <1>5 DEF Told, ClosedTold, StateTold
  <2> QED BY <1>2, <1>5, <2>1, <2>2, <2>3, <2>4 DEF Told, PromptTold, ClosedTold, StateTold
<1>6. \/ pc' = [pc EXCEPT ![p] = "done"] /\ UNCHANGED <<state, slot, shown, was, asked, history>>
      \/ /\ Prompt(p) /\ pc' = [pc EXCEPT ![p] = "waits"] /\ asked' = asked \cup {p}
         /\ client = "up" /\ Waiting = {} /\ state = "WORKING"
  <2>1. overlapped' = (overlapped \/ Waiting # {}) => Waiting = {}
    OBVIOUS
  <2>2. crossed' = (crossed \/ state # "WORKING") => state = "WORKING"
    OBVIOUS
  <2> QED BY <2>1, <2>2, Zenon DEF Ask
<1> QED BY <1>4, <1>5, <1>6

LEMMA TabTold ==
  ASSUME TypeOK, Orderly, Told, NEW c \in Tabs, Click(c) \/ Answer(c)
  PROVE  Told'
<1>1. PromptType /\ tab \in [Tabs -> ClickType]
  BY TypeParts
<1>2. /\ UNCHANGED <<state, pc, was, asked, cli, turn, client, pending, leaving, why>>
  BY DEF Click, Answer, Checks, Takes, Sets, loopVars
<1>3. Waiting' = Waiting /\ Waiting \subseteq Prompts
  BY <1>2 DEF Waiting
<1>4. CASE UNCHANGED <<slot, holder>> /\ (InTime => InTime' \/ (state = "WAITING" /\ slot # None))
           /\ (InTime' => InTime)
  <2>1. ASSUME NEW p \in Waiting PROVE PromptTold(p)'
    BY <1>2, <1>4 DEF Told, PromptTold
  <2> QED BY <1>2, <1>3, <1>4, <2>1 DEF Told, ClosedTold, StateTold
<1>5. CASE Click(c)
  <2>1. /\ tab[c].at = "idle" /\ UNCHANGED <<slot, holder>>
        /\ tab'[c].at = "sent" /\ \A d \in Tabs : d # c => tab'[d] = tab[d]
    BY <1>1, <1>5 DEF Click
  <2>2. InTime' <=> InTime
    BY <2>1 DEF InTime
  <2> QED BY <1>4, <2>1, <2>2
<1>6. CASE Checks(c)
  <2>1. /\ tab[c].at = "sent" /\ UNCHANGED <<slot, holder>>
        /\ \A d \in Tabs : d # c => tab'[d] = tab[d]
        /\ (state = "WAITING" /\ slot # None) \/ tab'[c].at = "idle"
    BY <1>1, <1>6 DEF Checks, NoClick
  <2>2. InTime' => InTime
    BY <2>1 DEF InTime
  <2>3. InTime => InTime' \/ (state = "WAITING" /\ slot # None)
    BY <2>1 DEF InTime
  <2> QED BY <1>4, <2>1, <2>2, <2>3
<1>7. CASE Takes(c)
  <2>1. tab[c] \in ClickType /\ tab[c].at = "checked" /\ UNCHANGED <<slot, holder>>
        /\ tab'[c] = [tab[c] EXCEPT !.at = "taken", !.took = slot]
    BY <1>1, <1>7 DEF Takes
  <2>2. tab'[c].at = "taken"
    BY <2>1 DEF ClickType
  <2>3. ~InTime /\ ~InTime'
    BY <2>1, <2>2 DEF InTime
  <2> QED BY <1>4, <2>1, <2>3
<1>8. CASE Sets(c)
  <2>1. /\ tab[c].at = "taken" /\ slot' = None
        /\ holder' = IF tab[c].took \in Waiting
                     THEN [holder EXCEPT ![tab[c].took] = "answer"] ELSE holder
    BY <1>8 DEF Sets
  <2>2. ~InTime
    BY <2>1 DEF InTime
  <2>3. ASSUME NEW p \in Waiting PROVE PromptTold(p)' /\ why # "close"
    <3>1. holder'[p] \in {holder[p], "answer"}
      BY <1>1, <1>3, <2>1 DEF PromptType
    <3>2. state = "WAITING" /\ why # "close" /\ holder[p] # "interrupt" /\ PromptTold(p)
      BY <2>2 DEF Told, PromptTold, ClosedTold
    <3> QED BY <1>2, <3>1, <3>2 DEF PromptTold
  <2> QED BY <1>2, <1>3, <2>1, <2>3 DEF Told, ClosedTold, StateTold
<1> QED BY <1>5, <1>6, <1>7, <1>8 DEF Answer

\* An interrupt and a close that no answer meets.
LEMMA StopTold ==
  ASSUME TypeOK, Orderly, Told, Interrupt \/ Close \/ InterruptRuns \/ CloseRuns, ~crossed'
  PROVE  Told'
<1>1. PromptType /\ tab \in [Tabs -> ClickType] /\ TurnType
  BY TypeParts
<1>2. UNCHANGED <<pc, was, tab, client>>
  BY DEF Interrupt, Close, InterruptRuns, CloseRuns
<1>3. /\ Waiting' = Waiting /\ Waiting \subseteq Prompts /\ (InTime' <=> InTime)
      /\ None \notin Prompts /\ None \notin {"answer", "interrupt"}
  BY <1>2, ConstantsAssumption DEF Waiting, InTime
<1>4. ~InFlight => InTime /\ \A p \in Waiting : holder[p] = None
  BY DEF InFlight, InTime
<1>5. CASE Interrupt
  <2>1. /\ state # "STOPPED" /\ state' = "IDLE" /\ pending' = pending \cup {"interrupt"}
        /\ UNCHANGED <<slot, holder, asked, cli, turn, leaving, why>>
    BY <1>5 DEF Interrupt
  <2>2. Waiting = {} \/ (~InFlight /\ leaving # "yes")
    BY <1>5, Zenon DEF Interrupt
  <2>3. ASSUME NEW p \in Waiting PROVE PromptTold(p)'
    BY <1>2, <1>3, <1>4, <2>1, <2>2, <2>3 DEF Told, PromptTold
  <2> QED BY <1>2, <1>3, <2>1, <2>3 DEF Told, ClosedTold, StateTold
<1>6. CASE Close
  <2>1. /\ state # "STOPPED" /\ state' = "STOPPED" /\ pending' = pending \cup {"close"}
        /\ UNCHANGED <<slot, holder, asked, cli, turn, leaving, why>>
    BY <1>6 DEF Close
  <2>2. ~InFlight
    BY <1>6, Zenon DEF Close
  <2>3. ASSUME NEW p \in Waiting PROVE PromptTold(p)'
    BY <1>2, <1>3, <1>4, <2>1, <2>2, <2>3 DEF Told, PromptTold
  <2> QED BY <1>2, <1>3, <2>1, <2>3 DEF Told, ClosedTold, StateTold
<1>7. CASE CloseRuns
  <2>1. /\ Denies /\ pending' = pending \ {"close"} /\ turn' = "none" /\ cli' = FALSE
        /\ leaving' \in {"yes", "failed"} /\ why' = "close" /\ state' = state
    BY <1>7 DEF CloseRuns
  <2>2. ~InFlight
    BY <1>7, Zenon DEF CloseRuns
  <2>3. ASSUME NEW p \in Waiting PROVE holder'[p] = "interrupt"
    <3>1. holder[p] = None /\ InTime
      BY <1>4, <2>2
    <3>2. ~Answered(p)
      BY <1>3, <3>1 DEF Orderly, Answered, InTime
    <3>3. slot = p
      BY <3>2 DEF Orderly
    <3> QED BY <1>1, <1>3, <2>1, <3>3 DEF Denies, PromptType
  <2>4. ASSUME NEW p \in Waiting PROVE PromptTold(p)'
    BY <1>2, <1>3, <1>4, <2>1, <2>2, <2>3 DEF Told, PromptTold
  <2>5. slot' = None /\ InTime'
    BY <1>3, <1>4, <2>1, <2>2 DEF Denies
  <2> QED BY <1>2, <1>3, <2>1, <2>3, <2>4, <2>5 DEF Told, ClosedTold, StateTold
<1>8. CASE InterruptRuns
  <2>1. PICK half \in pending \ {"close"} :
          /\ pending' = pending \ {half}
          /\ IF client = "gone" THEN UNCHANGED <<slot, holder>> ELSE Denies
          /\ turn' = IF client = "gone" \/ half = "stale interrupt" THEN turn ELSE "none"
          /\ crossed' = (crossed \/ (half = "stale interrupt" /\ slot # None))
          /\ UNCHANGED <<state, asked, cli, leaving, why>>
    BY <1>8 DEF InterruptRuns
  <2>2. half \in {"interrupt", "stale interrupt"}
    BY <1>1, <2>1 DEF TurnType
  <2>3. half = "stale interrupt" => slot = None
    BY <2>1, Zenon
  <2>4. /\ pending' = pending \ {half} /\ UNCHANGED <<state, asked, cli, leaving, why>>
        /\ IF client = "gone" THEN UNCHANGED <<slot, holder>> ELSE Denies
        /\ turn' = IF client = "gone" \/ half = "stale interrupt" THEN turn ELSE "none"
    BY <2>1
  <2>5. CASE client = "gone" \/ half = "stale interrupt"
    <3>1. UNCHANGED <<slot, holder, turn>>
      BY <2>3, <2>4, <2>5 DEF Denies
    <3>2. ASSUME NEW p \in Waiting PROVE PromptTold(p)'
      BY <1>2, <1>3, <2>4, <3>1, <3>2 DEF Told, PromptTold
    <3> QED BY <1>2, <1>3, <2>2, <2>4, <2>5, <3>1, <3>2 DEF Told, ClosedTold, StateTold
  <2>6. CASE client # "gone" /\ half = "interrupt"
    <3>1. Denies /\ turn' = "none" /\ "interrupt" \in pending
      BY <2>1, <2>4, <2>6
    <3>2. ASSUME NEW p \in Waiting PROVE holder'[p] = "interrupt"
      <4>1. CASE slot = p
        BY <1>1, <1>3, <3>1, <4>1 DEF Denies, PromptType
      <4>2. CASE slot # p
        <5>1. slot = None /\ Answered(p)
          BY <4>2 DEF Orderly
        <5>2. holder' = holder
          BY <3>1, <5>1 DEF Denies
        <5>3. holder[p] # None \/ ~InTime
          BY <1>3, <5>1 DEF Answered, Orderly, InTime
        <5>4. holder[p] \in {"answer", "interrupt", None}
          BY <1>1, <1>3 DEF PromptType
        <5>5. why # "close" => state # "WAITING"
          BY <3>1 DEF Told, StateTold
        <5> QED BY <5>2, <5>3, <5>4, <5>5 DEF Told, PromptTold, ClosedTold
      <4> QED BY <4>1, <4>2
    <3>3. slot' = None
      BY <3>1 DEF Denies
    <3>4. why # "close" => state \notin {"WAITING", "WORKING"}
      BY <2>6, <3>1 DEF Told, StateTold
    <3>5. ASSUME NEW p \in Waiting PROVE PromptTold(p)'
      <4>1. PromptTold(p)
        BY DEF Told
      <4>2. leaving = "yes" => why = "close"
        BY <3>1, <4>1 DEF PromptTold
      <4>3. ~InTime => state = "WAITING"
        BY <4>1 DEF PromptTold
      <4>4. holder'[p] = "interrupt"
        BY <3>2
      <4> QED BY <1>2, <1>3, <2>4, <3>1, <3>4, <4>1, <4>2, <4>3, <4>4 DEF PromptTold
    <3> QED BY <1>2, <1>3, <2>4, <3>1, <3>2, <3>3, <3>4, <3>5 DEF Told, ClosedTold, StateTold
  <2> QED BY <2>2, <2>5, <2>6
<1> QED BY <1>5, <1>6, <1>7, <1>8

\* Turns and lost transports.
LEMMA TurnTold ==
  ASSUME TypeOK, Orderly, Told, Send \/ Result \/ CliStops \/ TransportDies
  PROVE  Told'
<1>1. PromptType /\ TurnType
  BY TypeParts
<1>2. UNCHANGED <<slot, pc, was, holder, tab, leaving, why, pending>>
  BY DEF Send, Result, CliStops, TransportDies
<1>3. /\ Waiting' = Waiting /\ Waiting \subseteq Prompts /\ (InTime' <=> InTime)
      /\ None \notin Prompts /\ None \notin {"answer", "interrupt"}
  BY <1>2, ConstantsAssumption DEF Waiting, InTime
<1>4. CASE Send
  <2>1. /\ state = "IDLE" /\ turn = "none" /\ ~cli /\ pending = {} /\ client = "up"
        /\ leaving = "no" /\ state' = "WORKING" /\ turn' = "runs" /\ cli' = TRUE
        /\ client' = client /\ asked' = asked
    BY <1>4 DEF Send
  <2>2. ASSUME NEW p \in Waiting PROVE PromptTold(p)'
    BY <1>2, <1>3, <2>1, <2>2 DEF Told, PromptTold
  <2> QED BY <1>2, <1>3, <2>1, <2>2 DEF Told, ClosedTold, StateTold
<1>5. CASE Result
  <2>1. /\ cli /\ turn = "runs" /\ asked = {} /\ client = "up" /\ cli' = FALSE /\ turn' = "none"
        /\ state' = "IDLE" /\ client' = client /\ asked' = asked
    BY <1>5 DEF Result
  <2>2. leaving = "no" /\ why # "close"
    BY <2>1 DEF Told, StateTold, ClosedTold
  <2>3. ASSUME NEW p \in Waiting PROVE PromptTold(p)'
    BY <1>2, <1>3, <2>1, <2>2, <2>3 DEF Told, PromptTold
  <2> QED BY <1>2, <1>3, <2>1, <2>2, <2>3 DEF Told, ClosedTold, StateTold
<1>6. CASE CliStops
  <2>1. cli' = FALSE /\ UNCHANGED <<state, turn, client>>
    BY <1>6 DEF CliStops
  <2>2. ASSUME NEW p \in Waiting PROVE PromptTold(p)'
    BY <1>2, <1>3, <2>1, <2>2 DEF Told, PromptTold
  <2> QED BY <1>2, <1>3, <2>1, <2>2 DEF Told, ClosedTold, StateTold
<1>7. CASE TransportDies
  <2>1. /\ turn = "runs" /\ client = "up" /\ pending = {} /\ client' = "dead" /\ cli' = FALSE
        /\ turn' = "heals" /\ state' = IF state = "WORKING" THEN "IDLE" ELSE state
    BY <1>7 DEF TransportDies
  <2>2. ASSUME NEW p \in Waiting PROVE PromptTold(p)'
    BY <1>2, <1>3, <2>1, <2>2 DEF Told, PromptTold
  <2> QED BY <1>2, <1>3, <2>1, <2>2 DEF Told, ClosedTold, StateTold
<1> QED BY <1>4, <1>5, <1>6, <1>7

LEMMA ConnectionTold ==
  ASSUME TypeOK, Orderly, Told, Disconnected \/ HealDisconnects \/ Reconnects
  PROVE  Told'
<1>1. PromptType /\ TurnType
  BY TypeParts
<1>2. UNCHANGED <<slot, pc, was, holder, tab, asked>>
  BY DEF Disconnected, HealDisconnects, Reconnects
<1>3. /\ Waiting' = Waiting /\ Waiting \subseteq Prompts /\ (InTime' <=> InTime)
      /\ None \notin Prompts /\ None \notin {"answer", "interrupt"}
  BY <1>2, ConstantsAssumption DEF Waiting, InTime
<1>4. CASE Disconnected
  <2>1. /\ leaving = "yes" => Waiting = {}
        /\ leaving # "no" /\ leaving' = "no" /\ client' = "gone"
        /\ state' = IF why = "close" THEN "STOPPED" ELSE state
        /\ UNCHANGED <<cli, turn, pending, why>>
    BY <1>4 DEF Disconnected
  <2>2. ASSUME NEW p \in Waiting PROVE PromptTold(p)'
    BY <1>2, <1>3, <2>1, <2>2 DEF Told, PromptTold, ClosedTold
  <2> QED BY <1>2, <1>3, <2>1, <2>2 DEF Told, ClosedTold, StateTold
<1>5. CASE HealDisconnects
  <2>1. /\ turn = "heals" /\ client = "dead" /\ leaving = "no" /\ UNCHANGED <<state, cli, client, pending>>
        /\ \/ /\ state = "STOPPED" \/ "interrupt" \in pending
              /\ turn' = "none" /\ UNCHANGED <<leaving, why>>
           \/ /\ state # "STOPPED" /\ "interrupt" \notin pending
              /\ leaving' \in {"yes", "failed"} /\ why' = "heal" /\ turn' = turn
    BY <1>5 DEF HealDisconnects
  <2>2. why # "close"
    BY <2>1 DEF Told, ClosedTold
  <2>3. ASSUME NEW p \in Waiting PROVE PromptTold(p)'
    BY <1>2, <1>3, <2>1, <2>2, <2>3 DEF Told, PromptTold
  <2> QED BY <1>2, <1>3, <2>1, <2>2, <2>3 DEF Told, ClosedTold, StateTold
<1>6. CASE Reconnects
  <2>1. /\ turn = "heals" /\ leaving = "no" /\ Waiting = {} /\ UNCHANGED <<leaving, why>>
        /\ \/ /\ client' = "up" /\ turn' = "runs" /\ state' = "WORKING"
              /\ "interrupt" \notin pending'
           \/ turn' = "none" /\ state' = "IDLE"
    BY <1>6 DEF Reconnects
  <2>2. why # "close"
    BY <2>1 DEF Told, ClosedTold
  <2> QED BY <1>2, <1>3, <2>1, <2>2 DEF Told, ClosedTold, StateTold
<1> QED BY <1>4, <1>5, <1>6

LEMMA StepTold ==
  ASSUME TypeOK, Orderly, Told, Next, ~overlapped', ~outlived', ~crossed'
  PROVE  Told'
BY EndsTold, AskTold, TabTold, StopTold, TurnTold, ConnectionTold DEF Next, Halves

-----------------------------------------------------------------------------
(* The theorems.                                                           *)

LEMMA InitInv == Init => IInv
<1> SUFFICES ASSUME Init PROVE IInv
  OBVIOUS
<1>1. PromptType
  BY DEF Init, PromptType
<1>2. TurnType
  BY DEF Init, TurnType
<1>3. CountType
  <2>1. 0 \in 0 .. MaxTurns /\ 0 \in 0 .. MaxTroubles
    BY ConstantsAssumption
  <2> QED BY <2>1, Zenon DEF Init, CountType
<1>4. tab \in [Tabs -> ClickType]
  BY DEF Init, ClickType, NoClick
<1>5. Waiting = {}
  BY DEF Init, Waiting
<1>6. Orderly
  BY <1>5 DEF Init, Orderly, NoClick
<1>7. Told
  BY <1>5 DEF Init, Told, ClosedTold, StateTold
<1> QED BY <1>1, <1>2, <1>3, <1>4, <1>6, <1>7, TypeParts DEF IInv

LEMMA StepInv == IInv /\ [Next]_vars => IInv'
<1> SUFFICES ASSUME IInv, [Next]_vars PROVE IInv'
  OBVIOUS
<1>1. TypeOK /\ TypeOK'
  BY StepType DEF IInv
<1>2. CASE Next
  <2>1. overlapped' \/ outlived' \/ Orderly'
    BY <1>1, <1>2, StepOrderly, HistoryStays DEF IInv
  <2>2. overlapped' \/ outlived' \/ crossed' \/ Told'
    BY <1>1, <1>2, StepTold, HistoryStays DEF IInv
  <2> QED BY <1>1, <2>1, <2>2 DEF IInv
<1>3. CASE UNCHANGED vars
  <2>1. UNCHANGED <<state, slot, shown, pc, was, holder, tab>>
        /\ UNCHANGED <<overlapped, outlived, crossed>>
        /\ UNCHANGED <<asked, cli, turn, client, pending, leaving, why>>
    BY <1>3 DEF vars, loopVars, history
  <2>2. Waiting' = Waiting /\ (InTime' <=> InTime)
    BY <2>1 DEF Waiting, InTime
  <2>3. Orderly => Orderly'
    BY <2>1, <2>2 DEF Orderly, Answered, Leaves
  <2>4. Told => Told'
    BY <2>1, <2>2 DEF Told, PromptTold, ClosedTold, StateTold
  <2> QED BY <1>1, <2>1, <2>3, <2>4 DEF IInv
<1> QED BY <1>2, <1>3

THEOREM Invariant == Spec => []IInv
BY InitInv, StepInv, PTL DEF Spec

\* Every variable keeps its type (src/engine/session_manager.py).
THEOREM TypeCorrect == Spec => []TypeOK
<1>1. IInv => TypeOK
  BY DEF IInv
<1> QED BY Invariant, <1>1, PTL

\* A prompt that waits can be answered, or is about to end.
THEOREM PromptsAnswerable == Spec => []Answerable
<1>1. IInv => Answerable
  <2>1. \A p \in Waiting : Waiting \subseteq Prompts
    BY DEF Waiting
  <2> QED BY DEF IInv, Orderly, Answered, Leaves, Answerable
<1> QED BY Invariant, <1>1, PTL

\* When nothing is under way the state tells whether a turn runs, and a closed
\* session is stopped, whatever restored the state last (can_use_tool,
\* resolve_permission, interrupt_session, close_session, _reconnect_client).
THEOREM StateTellsHolds == Spec => []StateTells
<1>1. IInv => StateTells
  <2> SUFFICES ASSUME TypeOK, Told, AtRest
               PROVE  \/ state = "WORKING" /\ turn = "runs"
                      \/ state = "IDLE" /\ turn = "none" /\ ~(why = "close" /\ client = "gone")
                      \/ state = "STOPPED" /\ turn = "none"
    BY DEF IInv, StateTells
  <2>1. TurnType
    BY TypeParts
  <2>2. Waiting = {} /\ pending = {} /\ leaving = "no" /\ turn # "heals"
    BY DEF AtRest
  <2>3. why = "close" => turn = "none" /\ state = "STOPPED"
    BY <2>2 DEF Told, ClosedTold
  <2>4. turn = "runs" => state \in {"WORKING", "WAITING"}
    BY <2>2 DEF Told, StateTold
  <2>5. (state = "WORKING" => turn # "none") /\ state # "WAITING"
    BY <2>2, <2>3 DEF Told, StateTold
  <2> QED BY <2>1, <2>2, <2>3, <2>4, <2>5 DEF TurnType
<1> QED BY Invariant, <1>1, PTL
=============================================================================
