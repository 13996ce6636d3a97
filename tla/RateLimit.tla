----------------------------- MODULE RateLimit ------------------------------
(***************************************************************************)
(* What `min_interval' promises, without an engine: every data point is a  *)
(* register whose value changes only when one of its spacings (the intervals *)
(* of its rules) has passed since its previous change.  RulesEngine is     *)
(* shown to implement it.                                                  *)
(***************************************************************************)
EXTENDS Integers

CONSTANTS Points, Values, None, Spacings, InitDevices

VARIABLES clock, value, changedAt

Init ==
  /\ clock = 0 /\ value \in InitDevices
  /\ changedAt = [p \in Points |-> None]

Change(p, v) ==
  /\ value[p] # v
  /\ changedAt[p] = None \/ \E d \in Spacings[p] : clock - changedAt[p] >= d
  /\ value' = [value EXCEPT ![p] = v]
  /\ changedAt' = [changedAt EXCEPT ![p] = clock]
  /\ clock' = clock

Pass == clock' = clock + 1 /\ UNCHANGED <<value, changedAt>>

Next == Pass \/ \E p \in Points, v \in Values : Change(p, v)

Spec == Init /\ [][Next]_<<clock, value, changedAt>>
=============================================================================
