--------------------------- MODULE MessageDelivery ---------------------------
(***************************************************************************)
(* What the message queue promises of each message, whatever its threads,  *)
(* timers and files do: from the time it is accepted it waits, is in the   *)
(* hands of a dispatch, has been taken by the session, or is lost, and as  *)
(* long as the process lives it is taken once at most and never comes back *)
(* from being taken or lost.  The death of the process may keep any of the *)
(* accepted messages waiting, the taken ones too.  MessageQueue implements *)
(* it.                                                                     *)
(***************************************************************************)
EXTENDS Naturals

VARIABLES
  accepted,   \* messages accepted so far: they are 1 .. accepted
  waiting,
  inHand,
  delivered,
  lost

vars == <<accepted, waiting, inHand, delivered, lost>>

Init ==
  /\ accepted = 0
  /\ waiting = {} /\ inHand = {} /\ delivered = {} /\ lost = {}

Accept ==
  /\ accepted' = accepted + 1
  /\ waiting' = waiting \cup {accepted + 1}
  /\ UNCHANGED <<inHand, delivered, lost>>

TakeUp ==
  \E m \in waiting :
    /\ waiting' = waiting \ {m}
    /\ inHand' = inHand \cup {m}
    /\ UNCHANGED <<accepted, delivered, lost>>

Deliver ==
  \E m \in inHand :
    /\ inHand' = inHand \ {m}
    /\ delivered' = delivered \cup {m}
    /\ UNCHANGED <<accepted, waiting, lost>>

PutBack ==
  \E m \in inHand :
    /\ inHand' = inHand \ {m}
    /\ waiting' = waiting \cup {m}
    /\ UNCHANGED <<accepted, delivered, lost>>

\* Of the waiting ones several at a time, of those in hand one.
Drop ==
  \E D \in SUBSET waiting :
    /\ waiting' = waiting \ D
    /\ lost' = lost \cup D
    /\ UNCHANGED <<accepted, inHand, delivered>>

LoseInHand ==
  \E m \in inHand :
    /\ inHand' = inHand \ {m}
    /\ lost' = lost \cup {m}
    /\ UNCHANGED <<accepted, waiting, delivered>>

Die ==
  \E kept \in SUBSET (1 .. accepted) :
    /\ waiting' = kept
    /\ lost' = (1 .. accepted) \ kept
    /\ inHand' = {} /\ delivered' = {}
    /\ UNCHANGED accepted

Next == Accept \/ TakeUp \/ Deliver \/ PutBack \/ Drop \/ LoseInHand \/ Die

Spec == Init /\ [][Next]_vars
=============================================================================
