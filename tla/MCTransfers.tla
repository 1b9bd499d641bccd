---------------------------- MODULE MCTransfers ----------------------------
(* A small instance of Transfers for TLC: wallet a has code and money for   *)
(* one draw and a half, wallet b has money and no code.  b sends a money of *)
(* its own, with an operation that may deploy b; a grants b an allowance    *)
(* from late on the first day, which may deploy b as well; b draws on it    *)
(* twice, each time all that can be drawn but one; and an autoflow deposits *)
(* from a.  The allowance's row starts a tick after midnight, and the clock *)
(* goes on until the first tick of its second 24 hours.  There is no quote: *)
(* it would take the steps of a transfer up to its submission.              *)
EXTENDS TransfersProps, TLC

CONSTANTS a, b, t1, t2, t3, g1

TwoWallets == {a, b}
ThreeSends == {t1, t2, t3}
OneGrant   == {g1}
Senders    == [r \in ThreeSends \cup OneGrant |-> IF r = g1 THEN a ELSE b]
Amounts    == [r \in ThreeSends |-> 2]
Payees     == [r \in ThreeSends |-> IF r = t1 THEN a ELSE b]
Drawn      == [r \in ThreeSends |-> IF r = t1 THEN NoGrant ELSE g1]
ToB        == [g \in OneGrant |-> b]
Limits     == [g \in OneGrant |-> 3]
Starts     == [g \in OneGrant |-> 3]
Money      == [w \in TwoWallets |-> IF w = a THEN 3 ELSE 2]
Savings    == [w \in TwoWallets |-> IF w = a THEN {2} ELSE {}]
OnlyA      == {a}
SameDraws  == Permutations({t2, t3})
=============================================================================
