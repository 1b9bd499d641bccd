------------------------ MODULE MCBalanceListener ------------------------
(* A small instance of BalanceListener for TLC: a wallet that may be    *)
(* added, again and again, while the listener starts or runs, two starts, a  *)
(* stop, two blocks and balances up to 2.                                    *)
EXTENDS BalanceListenerProps

CONSTANTS w1, p1

OneWallet == {w1}
TwoStarts == {1, 2}
OneStop   == {p1}
NoneKnown == {}
=============================================================================
