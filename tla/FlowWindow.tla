----------------------------- MODULE FlowWindow ------------------------------
(***************************************************************************)
(* What flow control of a connection promises: its peer stays below the    *)
(* announced limit, each byte it uses gives back its credit at most once,  *)
(* and a new limit lies one window beyond what was given back, so that the *)
(* receiver never owes more than a window.  Module RxFlow implements this. *)
(***************************************************************************)
EXTENDS Integers

CONSTANT InitialWindow

VARIABLES received, returned, limit, window
vars == <<received, returned, limit, window>>

Init == received = 0 /\ returned = 0 /\ limit = InitialWindow /\ window = InitialWindow

\* Bytes arrive, and bytes that arrived give their credit back.
Use ==
  /\ received' \in received .. limit
  /\ returned' \in returned .. received'
  /\ UNCHANGED <<limit, window>>

\* A new limit is announced; the window may grow.
Announce ==
  /\ window' \in Nat /\ window' >= window
  /\ limit' = returned + window'
  /\ UNCHANGED <<received, returned>>

Next == Use \/ Announce

Spec == Init /\ [][Next]_vars
=============================================================================
