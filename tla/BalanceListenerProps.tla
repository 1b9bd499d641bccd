----------------------- MODULE BalanceListenerProps -----------------------
(* What the balance listener promises.                                      *)
EXTENDS BalanceListener

\* If no stop came while a start was under way, there is at most the one
\* watch that a stop would end, however starts and stops follow each other
\* and whichever of them fail; and a listener that has been stopped watches
\* nothing (isRunning, unwatch).
OneWatch ==
  ~hasty => /\ watching \subseteq {unwatch}
            /\ ~running => watching = {}

\* As long as no check of the balances overlapped another or an
\* initialisation, no wallet is reported more than blocks have added to it,
\* although polls skip blocks, reads fail and watches are begun anew.  Only
\* addWallet of a wallet that is monitored already makes more: the balance it
\* drops may be reported once more, also that of a check it interrupts.
ReportsBacked ==
  ~lapped =>
    \A w \in wallets :
      reported[w] <= (credited[w][height] - since[w]) + forgotten[w]

\* A watch that is kept up ends with the balances the chain ended with, if no
\* check overlapped another or met an error.
CaughtUp ==
  <>[](\/ watching = {} \/ lapped \/ failed
       \/ \A w \in wallets : last[w] = balance[w][height])

-----------------------------------------------------------------------------
(* The inductive invariant.                                                 *)

\* At most one start is under way, and the listener runs while one is or while
\* a watch is open; the open watch is the one of the last start.
WatchInv ==
  ~hasty =>
    /\ watching \subseteq {unwatch}
    /\ watching # {} => running
    /\ Starting => running /\ watching = {}
    /\ \A r, s \in Starts : pc[r] = "init" /\ pc[s] = "init" => r = s

\* Between two blocks a balance grows by no more than what was credited.
CreditInv ==
  \A w \in Wallets : \A b \in 0..height : \A d \in b..height :
    /\ credited[w][b] <= credited[w][d]
    /\ balance[w][d] - balance[w][b] <= credited[w][d] - credited[w][b]

\* What has been reported of w, and r more, is backed by what was credited up
\* to block b, of which last[w] leaves a part to be reported.
Backed(w, b, r) ==
  reported[w] + r + since[w] + (balance[w][b] - last[w])
    <= credited[w][b] + forgotten[w]

\* A check that is at w with an object which is no longer in the map.
Detached(c, w) == c.wallet = w /\ w \in c.renewed

\* What last[w] is: at most the balance at a block, up to which what has been
\* reported is backed, and beyond which no check has gone back.
LastIsRead(w) ==
  \E b \in 0..height :
    /\ last[w] <= balance[w][b]
    /\ Backed(w, b, 0)
    /\ \A c \in checks : b <= c.block /\ (Detached(c, w) => Backed(w, b, c.gain))

\* With one check at a time, the gain it holds is the one upon last[w].
ReportInv ==
  ~lapped =>
    /\ \A c, d \in checks : c = d
    /\ \A c \in checks :
         /\ c.block <= height
         /\ c.renewed \subseteq c.visited \cup {c.wallet}
         /\ c.wallet # NoWallet /\ c.wallet \notin c.renewed =>
              c.gain = balance[c.wallet][c.block] - last[c.wallet]
    /\ \A w \in Wallets : LastIsRead(w)

IInv == TypeOK /\ WatchInv /\ CreditInv /\ ReportInv

-----------------------------------------------------------------------------
\* What a check has done with a wallet is final: as long as checks do not
\* overlap and meet no error, the last balance of every wallet that the check
\* of a block has visited is the one of that block, whatever the chain, the
\* starts and the new wallets do meanwhile (checkBalanceChanges), but for those
\* that were added once more since.  It is what a later gain is measured from,
\* and the safety part of CaughtUp.
VisitedIsCurrent ==
  ~lapped /\ ~failed =>
    \A c \in checks : \A w \in c.visited \ c.renewed :
      last[w] = balance[w][c.block]
=============================================================================
