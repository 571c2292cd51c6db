----------------------------- MODULE KnownGood -----------------------------
(***************************************************************************)
(* What the Agent's known-good pointer promises, without logs, crashes or  *)
(* clusters.  Each target has a chain of verified snapshots: a deployment  *)
(* adds one on top of the snapshot that is good at that moment, and an     *)
(* explicit rollback returns to the one below, never to any other.         *)
(***************************************************************************)
CONSTANTS
  Snapshots,   \* identities of verified snapshots
  Places,      \* runtime targets
  Nothing      \* no snapshot

VARIABLES
  good,        \* the known-good snapshot of each target
  promoted,    \* the snapshots that were ever good
  below        \* the snapshot each of them was deployed on top of

vars == <<good, promoted, below>>

Init ==
  /\ good = [t \in Places |-> Nothing]
  /\ promoted = {}
  /\ below = [s \in Snapshots |-> Nothing]

Deploy(t, s) ==
  /\ s \notin promoted
  /\ good' = [good EXCEPT ![t] = s]
  /\ promoted' = promoted \cup {s}
  /\ below' = [below EXCEPT ![s] = good[t]]

Undo(t) ==
  /\ good[t] # Nothing
  /\ below[good[t]] # Nothing
  /\ good' = [good EXCEPT ![t] = below[good[t]]]
  /\ UNCHANGED <<promoted, below>>

Next == \E t \in Places : Undo(t) \/ \E s \in Snapshots : Deploy(t, s)

Spec == Init /\ [][Next]_vars
=============================================================================
