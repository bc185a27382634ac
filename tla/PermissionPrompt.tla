--------------------------- MODULE PermissionPrompt ---------------------------
(***************************************************************************)
(* Permission prompts of one session (src/engine/session_manager.py).  The  *)
(* CLI asks before it runs a tool; each request is a callback of its own on *)
(* the engine's event loop, which looks every 100 ms whether it was         *)
(* answered.  All of them share one slot, pending_permission, and the state *)
(* of the session.  The answers of the browser's tabs name the session and  *)
(* not the prompt; each comes on a request thread, and takes the slot       *)
(* without a lock.  An interrupt and a close set the state on a request     *)
(* thread and run their second half on the loop; a lost transport is        *)
(* reconnected, which cancels the callbacks that wait.                      *)
(*                                                                          *)
(* External: the CLI and the tabs.  Left out: messages sent while an        *)
(* interrupt or a reconnect is under way (SessionTurns, AutoRetry), the     *)
(* tool and its input, and what lets a tool run without a prompt.           *)
(***************************************************************************)
EXTENDS Naturals

CONSTANTS
  None,
  Prompts,     \* requests of the CLI
  Tabs,
  MaxTurns,    \* bound: turns
  MaxTroubles  \* bound: interrupts, closes, lost transports, hours without an answer

ASSUME ConstantsAssumption ==
  /\ MaxTurns \in Nat \ {0} /\ MaxTroubles \in Nat
  /\ None \notin Prompts /\ None \notin {"answer", "interrupt"}

VARIABLES
  state,     \* info.state
  slot,      \* pending_permission: whose event and holder it is
  shown,     \* pending_tool_name and pending_tool_input: whose they are
  pc,        \* the callback of each request: "unasked", "waits", "done"
  was,       \* its prev_state
  holder,    \* the answer put into its holder (its event is set)
  tab,       \* the answer a tab has on its way
  asked,     \* the requests the CLI waits for
  cli,       \* the CLI is in a turn
  turn,      \* the turn's coroutine: "none", "runs", "heals"
  client,    \* info.client: "up", "dead", "gone" (None)
  pending,   \* the second halves of interrupts and closes, handed to the loop
  leaving,   \* disconnect: "no", "yes", or "failed"
  why,       \* what disconnects: "heal", "close"
  turns, troubles,
  overlapped,  \* history: a prompt was opened while another one waited
  outlived,    \* history: an answer was on its way when its prompt returned
  crossed      \* history: an interrupt or a close met a prompt that was answered and
               \* had not returned, or was being cancelled; or a prompt was opened
               \* after the interrupt, or denied by that of an older turn

loopVars == <<asked, cli, turn, client, pending, leaving, why>>
history  == <<overlapped, outlived, crossed>>
bounds   == <<turns, troubles>>
vars == <<state, slot, shown, pc, was, holder, tab, loopVars,
          bounds, history>>

NoClick == [at |-> "idle", seen |-> None, took |-> None]

TypeOK ==
  /\ state \in {"IDLE", "WORKING", "WAITING", "STOPPED"}
  /\ slot \in Prompts \cup {None} /\ shown \in Prompts \cup {None}
  /\ pc \in [Prompts -> {"unasked", "waits", "done"}]
  /\ was \in [Prompts -> {"IDLE", "WORKING", "WAITING", "STOPPED"}]
  /\ holder \in [Prompts -> {"answer", "interrupt", None}]
  /\ tab \in [Tabs -> [at : {"idle", "sent", "checked", "taken"}, seen : Prompts \cup {None},
                       took : Prompts \cup {None}]]
  /\ asked \subseteq {p \in Prompts : pc[p] = "waits"}
  /\ cli \in BOOLEAN /\ turn \in {"none", "runs", "heals"}
  /\ client \in {"up", "dead", "gone"}
  /\ pending \subseteq {"interrupt", "stale interrupt", "close"}
  /\ leaving \in {"no", "yes", "failed"} /\ why \in {"heal", "close"}
  /\ turns \in 0 .. MaxTurns /\ troubles \in 0 .. MaxTroubles
  /\ overlapped \in BOOLEAN /\ outlived \in BOOLEAN /\ crossed \in BOOLEAN

Init ==
  /\ state = "IDLE" /\ slot = None /\ shown = None
  /\ pc = [p \in Prompts |-> "unasked"]
  /\ was = [p \in Prompts |-> "IDLE"]
  /\ holder = [p \in Prompts |-> None]
  /\ tab = [c \in Tabs |-> NoClick]
  /\ asked = {} /\ cli = FALSE /\ turn = "none" /\ client = "up"
  /\ pending = {} /\ leaving = "no" /\ why = "heal"
  /\ turns = 0 /\ troubles = 0
  /\ overlapped = FALSE /\ outlived = FALSE /\ crossed = FALSE

Trouble == troubles < MaxTroubles /\ troubles' = troubles + 1 /\ UNCHANGED turns
Waiting == {p \in Prompts : pc[p] = "waits"}

\* An answer that was let in and whose callback has not seen it.
InFlight == \/ \E p \in Waiting : holder[p] # None
            \/ \E c \in Tabs : tab[c].at \in {"checked", "taken"}
-----------------------------------------------------------------------------
(* The request of the CLI: can_use_tool up to its first sleep.             *)

\* (mutant) The state is set and the slot is filled by whoever sees the state.
PromptUnfilled(p) ==
  /\ shown' = p
  /\ was' = [was EXCEPT ![p] = state]
  /\ state' = "WAITING"
  /\ UNCHANGED slot

Prompt(p) ==
  /\ slot' = p /\ shown' = p
  /\ was' = [was EXCEPT ![p] = state]
  /\ state' = "WAITING"

\* Answered without a prompt when there is no transport, and when a grant of an
\* earlier answer, the policy or the custom rules allow the tool (always_allowed_tools,
\* should_auto_approve): the user changes those at any time.
Ask(p) ==
  /\ pc[p] = "unasked" /\ cli /\ leaving # "yes"
  /\ \/ /\ pc' = [pc EXCEPT ![p] = "done"]
        /\ UNCHANGED <<state, slot, shown, was, asked, history>>
     \/ /\ client = "up"
        /\ Prompt(p)
        /\ pc' = [pc EXCEPT ![p] = "waits"]
        /\ asked' = asked \cup {p}
        /\ overlapped' = (overlapped \/ Waiting # {})
        /\ crossed' = (crossed \/ state # "WORKING")
        /\ UNCHANGED outlived
  /\ UNCHANGED <<holder, tab, cli, turn, client, pending, leaving, why, bounds>>
-----------------------------------------------------------------------------
(* The rest of can_use_tool: how a callback that waits comes to its end.   *)

\* (mutant) The CLI is not sent the answer.
EndsUntold(p) ==
  /\ pc' = [pc EXCEPT ![p] = "done"]
  /\ slot' = None /\ shown' = None
  /\ outlived' = (outlived \/ \E c \in Tabs : tab[c].seen = p)
  /\ was' = [was EXCEPT ![p] = "IDLE"] /\ holder' = [holder EXCEPT ![p] = None]
  /\ UNCHANGED <<tab, asked, cli, turn, client, pending, leaving, why>>

\* What every end does; an answer for this prompt that is on its way is one too
\* many now.
Ends(p) ==
  /\ pc' = [pc EXCEPT ![p] = "done"]
  /\ slot' = None /\ shown' = None
  /\ asked' = asked \ {p}
  /\ outlived' = (outlived \/ \E c \in Tabs : tab[c].seen = p)
  /\ was' = [was EXCEPT ![p] = "IDLE"] /\ holder' = [holder EXCEPT ![p] = None]
  /\ UNCHANGED <<tab, cli, turn, client, pending, leaving, why>>

\* (mutant) The state is set back whatever the answer is.
WakesUnchecked(p) ==
  /\ pc[p] = "waits" /\ holder[p] # None
  /\ Ends(p)
  /\ state' = "WORKING"
  /\ UNCHANGED <<bounds, overlapped, crossed>>

\* An answer, to allow or to deny, sets the state back; that of an interrupt does not.
Wakes(p) ==
  /\ pc[p] = "waits" /\ holder[p] # None
  /\ Ends(p)
  /\ state' = IF holder[p] = "interrupt" THEN state ELSE "WORKING"
  /\ UNCHANGED <<bounds, overlapped, crossed>>

\* 36000 polls: denied, and the turn goes on.
TimesOut(p) ==
  /\ pc[p] = "waits" /\ holder[p] = None /\ client # "gone"
  /\ Trouble
  /\ Ends(p)
  /\ state' = "WORKING"
  /\ crossed' = (crossed \/ state # "WAITING")
  /\ UNCHANGED overlapped

\* The client is None: allowed.
ClientGone(p) ==
  /\ pc[p] = "waits" /\ holder[p] = None /\ client = "gone"
  /\ Ends(p)
  /\ state' = "WORKING"
  /\ UNCHANGED <<bounds, overlapped, crossed>>

\* The disconnect cancels the SDK's task group.
Cancelled(p) ==
  /\ pc[p] = "waits" /\ leaving = "yes"
  /\ Ends(p)
  /\ state' = was[p]
  /\ UNCHANGED <<bounds, overlapped, crossed>>
-----------------------------------------------------------------------------
(* The tabs, and resolve_permission.                                       *)

\* A tab that shows a prompt: to_state_dict tells it of one while WAITING.
Click(c) ==
  /\ tab[c].at = "idle"
  /\ state = "WAITING" /\ shown # None
  /\ tab' = [tab EXCEPT ![c] = [at |-> "sent", seen |-> shown, took |-> None]]
  /\ UNCHANGED <<state, slot, shown, pc, was, holder, loopVars, bounds, history>>

Checks(c) ==
  /\ tab[c].at = "sent"
  /\ tab' = [tab EXCEPT ![c] = IF state = "WAITING" /\ slot # None
                               THEN [@ EXCEPT !.at = "checked"] ELSE NoClick]
  /\ UNCHANGED <<state, slot, shown, pc, was, holder, loopVars, bounds, history>>

Takes(c) ==
  /\ tab[c].at = "checked"
  /\ tab' = [tab EXCEPT ![c] = [@ EXCEPT !.at = "taken", !.took = slot]]
  /\ UNCHANGED <<state, slot, shown, pc, was, holder, loopVars, bounds, history>>

\* A prompt that was taken from the slot before is answered once more.
Sets(c) ==
  /\ tab[c].at = "taken"
  /\ slot' = None
  /\ holder' = IF tab[c].took \in Waiting
               THEN [holder EXCEPT ![tab[c].took] = "answer"] ELSE holder
  /\ tab' = [tab EXCEPT ![c] = NoClick]
  /\ UNCHANGED <<state, shown, pc, was, loopVars, bounds, history>>
-----------------------------------------------------------------------------
(* Turns, interrupts, closes, lost transports.                             *)

Send ==
  /\ state = "IDLE" /\ turns < MaxTurns
  /\ turn = "none" /\ ~cli /\ pending = {} /\ client = "up" /\ leaving = "no"
  /\ state' = "WORKING" /\ turn' = "runs" /\ cli' = TRUE
  /\ turns' = turns + 1
  /\ UNCHANGED <<slot, shown, pc, was, holder, tab, asked,
                 client, pending, leaving, why, troubles, history>>

\* The CLI ends its turn when it waits for no answer.
Result ==
  /\ cli /\ turn = "runs" /\ asked = {} /\ client = "up"
  /\ cli' = FALSE /\ turn' = "none"
  /\ state' = "IDLE"
  /\ UNCHANGED <<slot, shown, pc, was, holder, tab, asked,
                 client, pending, leaving, why, bounds, history>>

\* interrupt_session, close_session.
Interrupt ==
  /\ state # "STOPPED" /\ pending \cap {"interrupt", "stale interrupt"} = {}
  /\ Trouble
  /\ state' = "IDLE"
  /\ pending' = pending \cup {"interrupt"}
  /\ crossed' = (crossed \/ (Waiting # {} /\ (InFlight \/ leaving = "yes")))
  /\ UNCHANGED <<slot, shown, pc, was, holder, tab, asked, cli,
                 turn, client, leaving, why, overlapped, outlived>>

Close ==
  /\ state # "STOPPED" /\ "close" \notin pending
  /\ Trouble
  /\ state' = "STOPPED"
  /\ pending' = pending \cup {"close"}
  /\ crossed' = (crossed \/ InFlight)
  /\ UNCHANGED <<slot, shown, pc, was, holder, tab, asked, cli,
                 turn, client, leaving, why, overlapped, outlived>>

\* (mutant) The slot is emptied, and its prompt not told.
DeniesNothing ==
  /\ slot' = None
  /\ UNCHANGED holder

\* What both do first on the loop: the prompt in the slot is denied.
Denies ==
  /\ slot' = None
  /\ holder' = IF slot # None THEN [holder EXCEPT ![slot] = "interrupt"] ELSE holder

\* _interrupt_session: nothing without a client; the coroutine that was the
\* turn's at the time of the interrupt is cancelled, and no newer one.
InterruptRuns ==
  \E half \in pending \ {"close"} :
    /\ pending' = pending \ {half}
    /\ IF client = "gone" THEN UNCHANGED <<slot, holder>> ELSE Denies
    /\ turn' = IF client = "gone" \/ half = "stale interrupt" THEN turn ELSE "none"
    /\ crossed' = (crossed \/ (half = "stale interrupt" /\ slot # None))
    /\ UNCHANGED <<state, shown, pc, was, tab, asked, cli,
                   client, leaving, why, bounds, overlapped, outlived>>

\* The CLI hears of the interrupt, and waits for none of its requests.
CliStops ==
  /\ cli /\ turn = "none" /\ pending = {}
  /\ cli' = FALSE /\ asked' = {}
  /\ UNCHANGED <<state, slot, shown, pc, was, holder, tab, turn,
                 client, pending, leaving, why, bounds, history>>

\* _close_session up to the disconnect, which ends or cancels whatever there is, the
\* disconnect of a heal too; without a client there is nothing to disconnect.
CloseRuns ==
  /\ "close" \in pending /\ ~(leaving = "yes" /\ why = "close")
  /\ pending' = pending \ {"close"}
  /\ Denies
  /\ turn' = "none" /\ cli' = FALSE /\ asked' = {}
  /\ leaving' \in IF client = "gone" THEN {"failed"} ELSE {"yes", "failed"}
  /\ why' = "close"
  /\ crossed' = (crossed \/ InFlight)
  /\ UNCHANGED <<state, shown, pc, was, tab, client, bounds, overlapped, outlived>>

\* The catch-all of _send_query's finally sets IDLE, if the state is WORKING.
TransportDies ==
  /\ turn = "runs" /\ client = "up" /\ pending = {}
  /\ Trouble
  /\ client' = "dead" /\ cli' = FALSE /\ asked' = {}
  /\ turn' = "heals"
  /\ state' = IF state = "WORKING" THEN "IDLE" ELSE state
  /\ UNCHANGED <<slot, shown, pc, was, holder, tab, pending,
                 leaving, why, history>>

\* _reconnect_client, not over a session the user stopped.
HealDisconnects ==
  /\ turn = "heals" /\ client = "dead" /\ leaving = "no"
  /\ IF state = "STOPPED" \/ "interrupt" \in pending
     THEN turn' = "none" /\ UNCHANGED <<leaving, why>>
     ELSE leaving' \in {"yes", "failed"} /\ why' = "heal" /\ UNCHANGED turn
  /\ UNCHANGED <<state, slot, shown, pc, was, holder, tab, asked,
                 cli, client, pending, bounds, history>>

\* The disconnect is over when its task group is, or has raised.
Disconnected ==
  /\ leaving = "yes" => Waiting = {}
  /\ leaving # "no"
  /\ leaving' = "no" /\ client' = "gone"
  /\ state' = IF why = "close" THEN "STOPPED" ELSE state
  /\ UNCHANGED <<slot, shown, pc, was, holder, tab, asked, cli,
                 turn, pending, why, bounds, history>>

\* Connected again: IDLE, and the message is sent once more; or not.  It takes
\* longer (_RECONNECT_STAGGER_S) than a callback needs to find the client gone.
Reconnects ==
  /\ turn = "heals" /\ client = "gone" /\ leaving = "no" /\ Waiting = {}
  /\ \/ /\ client' = "up" /\ cli' = TRUE /\ turn' = "runs" /\ state' = "WORKING"
        /\ pending' = {IF half = "interrupt" THEN "stale interrupt" ELSE half : half \in pending}
     \/ UNCHANGED <<client, cli, pending>> /\ turn' = "none" /\ state' = "IDLE"
  /\ UNCHANGED <<slot, shown, pc, was, holder, tab, asked,
                 leaving, why, bounds, history>>
-----------------------------------------------------------------------------
Callback(p) == Wakes(p) \/ ClientGone(p) \/ Cancelled(p)
Answer(c) == Checks(c) \/ Takes(c) \/ Sets(c)
Halves == InterruptRuns \/ CloseRuns \/ Disconnected \/ HealDisconnects \/ Reconnects

Next ==
  \/ \E p \in Prompts : Ask(p) \/ Callback(p) \/ TimesOut(p)
  \/ \E c \in Tabs : Click(c) \/ Answer(c)
  \/ Send \/ Result \/ Interrupt \/ Close \/ TransportDies \/ CliStops
  \/ Halves

Spec == Init /\ [][Next]_vars

\* The event loop and the request threads go on, and a tab that shows a prompt
\* is answered.  Nobody has to ask, to interrupt or to fail.
FairSpec ==
  /\ Spec
  /\ \A p \in Prompts : WF_vars(Callback(p))
  /\ \A c \in Tabs : WF_vars(Click(c)) /\ WF_vars(Answer(c))
  /\ WF_vars(Halves)
-----------------------------------------------------------------------------
(* Properties.                                                             *)

\* A prompt that waits can be answered, or is about to end: the slot and what
\* the tabs show are its own and the state lets an answer in.  The slot and the
\* state belong to the session, and interrupts, closes, reconnects and answers
\* change them; with one prompt at a time, and no answer that comes after its
\* prompt has ended, none of them leaves a prompt behind.
Answerable ==
  \A p \in Waiting :
    \/ slot = p /\ shown = p /\ state = "WAITING"
    \/ holder[p] # None \/ \E c \in Tabs : tab[c].took = p
    \/ pending # {} \/ leaving = "yes" \/ client = "gone"
    \/ overlapped \/ outlived

\* When nothing is under way the state tells whether a turn runs, whatever
\* restored it last, and a closed session is stopped.
AtRest ==
  /\ Waiting = {} /\ \A c \in Tabs : tab[c].at = "idle"
  /\ pending = {} /\ leaving = "no" /\ turn # "heals" /\ (cli => turn = "runs")
StateTells ==
  AtRest => \/ state = "WORKING" /\ turn = "runs"
            \/ state = "IDLE" /\ turn = "none" /\ ~(why = "close" /\ client = "gone")
            \/ state = "STOPPED" /\ turn = "none"
            \/ overlapped \/ outlived \/ crossed

\* Every prompt comes to its end without its hour running out, if whoever sees
\* it answers.
Returned == \A p \in Prompts : pc[p] = "waits" ~> (pc[p] = "done" \/ overlapped \/ outlived)

\* The comment in can_use_tool: an interrupt's IDLE is not flipped back by a
\* prompt that was answered; WORKING after it is a new message or a reconnect.
InterruptSticks ==
  [][state = "IDLE" /\ state' = "WORKING" => turns' # turns \/ turn = "heals"]_vars
=============================================================================
