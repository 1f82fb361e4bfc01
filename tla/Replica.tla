-------------------------------- MODULE Replica --------------------------------
(***************************************************************************)
(* What the distribution of the schedule promises at all times, whatever   *)
(* breaks: a receiver's copy of an event is a version that the database    *)
(* has held, and it never goes back to an earlier one - it moves forward,  *)
(* or it is dropped.                                                       *)
(***************************************************************************)
EXTENDS Naturals

CONSTANTS Receivers, Events, Versions

VARIABLES
  master,  \* the version of each event in the management database
  copy     \* the version each receiver holds of it, 0 if none

Init ==
  /\ master \in [Events -> Versions]
  /\ copy = [r \in Receivers |-> [e \in Events |-> 0]]

\* An event is edited.
Edit(e) ==
  /\ master[e] + 1 \in Versions
  /\ master' = [master EXCEPT ![e] = @ + 1]
  /\ UNCHANGED copy

\* A receiver takes over a version no older than its own.
Advance(r, e, v) ==
  /\ copy[r][e] <= v /\ v <= master[e]
  /\ copy' = [copy EXCEPT ![r][e] = v]
  /\ UNCHANGED master

\* A receiver drops some of its copies.
Drop(r, S) ==
  /\ copy' = [copy EXCEPT ![r] = [e \in Events |-> IF e \in S THEN 0 ELSE @[e]]]
  /\ UNCHANGED master

Next ==
  \/ \E e \in Events : Edit(e)
  \/ \E r \in Receivers : \/ \E e \in Events, v \in Versions : Advance(r, e, v)
                          \/ \E S \in SUBSET Events : Drop(r, S)

Spec == Init /\ [][Next]_<<master, copy>>

=============================================================================
