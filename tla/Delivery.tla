------------------------------- MODULE Delivery -------------------------------
(***************************************************************************)
(* What the sending half of a QUIC packet number space promises its        *)
(* streams and control frames: an item submitted is waiting to be sent, in *)
(* flight, or settled (acknowledged, withdrawn or superseded).  It is      *)
(* one of these at a time, it returns from flight only to wait again, and  *)
(* it stays settled.  Module Rtb implements this.                          *)
(***************************************************************************)
CONSTANT Item

VARIABLES waiting, inFlight, settled
vars == <<waiting, inFlight, settled>>

Init == waiting = {} /\ inFlight = {} /\ settled = {}

Unseen == Item \ (waiting \cup inFlight \cup settled)

\* An item is submitted and has to wait; it may stand in for items S, as a
\* RESET_STREAM frame does for the data of its stream.
Submit(i, S) ==
  /\ i \in Unseen /\ S \subseteq waiting \cup inFlight
  /\ waiting' = (waiting \ S) \cup {i}
  /\ inFlight' = inFlight \ S
  /\ settled' = settled \cup S

\* A packet carries some of what waits and some that is submitted with it.
Transmit(W, N) ==
  /\ W \subseteq waiting /\ N \subseteq Unseen
  /\ waiting' = waiting \ W
  /\ inFlight' = inFlight \cup W \cup N
  /\ UNCHANGED settled

\* S is settled; L, which was in flight, has to be sent again.
Settle(S, L) ==
  /\ S \subseteq waiting \cup inFlight /\ L \subseteq inFlight \ S
  /\ settled' = settled \cup S
  /\ waiting' = (waiting \ S) \cup L
  /\ inFlight' = inFlight \ (S \cup L)

Next ==
  \/ \E i \in Unseen, S \in SUBSET (waiting \cup inFlight) : Submit(i, S)
  \/ \E W \in SUBSET waiting, N \in SUBSET Unseen : Transmit(W, N)
  \/ \E S \in SUBSET (waiting \cup inFlight), L \in SUBSET inFlight : Settle(S, L)

Spec == Init /\ [][Next]_vars
=============================================================================
