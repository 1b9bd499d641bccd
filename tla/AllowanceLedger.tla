-------------------------- MODULE AllowanceLedger --------------------------
(***************************************************************************)
(* What an allowance promises its owner: once it is granted and its start  *)
(* has come, each period from the start on gives up to its limit, and the  *)
(* next one gives it anew.  Nothing is said here of requests, operations   *)
(* or of what was signed.  Transfers implements it.                        *)
(***************************************************************************)
EXTENDS Integers

CONSTANTS
  Grants,
  LimitOf,
  StartOf, \* StartOf[g]: the first tick of the first period of g
  Period   \* ticks of a period

VARIABLES
  now,
  granted,  \* the allowances that may be drawn on; none is ever withdrawn
  spent     \* spent[g]: drawn on g in its running period

vars == <<now, granted, spent>>

Init ==
  /\ now = 0
  /\ granted = {}
  /\ spent = [g \in Grants |-> 0]

Grant(g) ==
  /\ g \notin granted
  /\ granted' = granted \cup {g}
  /\ UNCHANGED <<now, spent>>

Draw(g, n) ==
  /\ g \in granted
  /\ now >= StartOf[g]
  /\ spent[g] + n <= LimitOf[g]
  /\ spent' = [spent EXCEPT ![g] = @ + n]
  /\ UNCHANGED <<now, granted>>

\* A period of g begins at tick i.
Renewed(g, i) == (i - StartOf[g]) \div Period # (i - 1 - StartOf[g]) \div Period

Tick ==
  /\ now' = now + 1
  /\ spent' = [g \in Grants |-> IF Renewed(g, now + 1) THEN 0 ELSE spent[g]]
  /\ UNCHANGED granted

Next ==
  \/ \E g \in Grants : Grant(g) \/ \E n \in 0..LimitOf[g] : Draw(g, n)
  \/ Tick

Spec == Init /\ [][Next]_vars
=============================================================================
