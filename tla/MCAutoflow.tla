----------------------------- MODULE MCAutoflow -----------------------------
(* Small instances of Autoflow for TLC.                                     *)
EXTENDS AutoflowInv, TLC

CONSTANTS s1, s2, t1, t2, d1, d2, u1

\* One saving, with one or two executions of it and at most one delete.
OneSaving    == {s1}
OneUser      == {u1}
OwnerOfOne   == [c \in OneSaving |-> u1]
OneTrigger   == {t1}
TwoTriggers  == {t1, t2}
OneOnOne     == [t \in OneTrigger |-> s1]
BothOnOne    == [t \in TwoTriggers |-> s1]
NoDelete     == {}
DeletesNone  == [d \in NoDelete |-> s1]
OneDelete    == {d1}
DeletesOne   == [d \in OneDelete |-> s1]

\* Two savings of one user, and an execution of the first.
TwoSavings   == {s1, s2}
OwnerOfTwo   == [c \in TwoSavings |-> u1]
OneOnFirst   == [t \in OneTrigger |-> s1]

TriggerSymmetry == Permutations(TwoTriggers)

=============================================================================
