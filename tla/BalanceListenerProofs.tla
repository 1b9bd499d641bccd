----------------------- MODULE BalanceListenerProofs -----------------------
(***************************************************************************)
(* For any number of starts, stops, wallets and blocks: the inductive      *)
(* invariant of BalanceListener, and with it that there is one watch that  *)
(* a stop ends, that no more is reported than was credited, and that what  *)
(* a check has visited is up to date.                                      *)
(***************************************************************************)
EXTENDS BalanceListenerProps, TLAPS

USE MonitorAssumption DEF NoWatch, Heights, Watch

-----------------------------------------------------------------------------
(* The types.                                                               *)

LEMMA TypeOKInit == Init => TypeOK
<1> SUFFICES ASSUME Init PROVE TypeOK
  OBVIOUS
<1>1. height \in Heights /\ unwatch \in Watch /\ checks \in SUBSET Check
  BY DEF Init
<1>2. balance \in [Wallets -> [Heights -> Nat]] /\ credited = balance
  BY DEF Init
<1>3. /\ emitted \in [Starts -> Heights \cup {-1}]
      /\ inited \in [Starts -> SUBSET Wallets]
      /\ pc \in [Starts -> {"idle", "init", "done", "failed"}]
  BY DEF Init
<1> QED BY <1>1, <1>2, <1>3 DEF Init, TypeOK

\* Every action keeps the types.
LEMMA TypeOKStep == TypeOK /\ [Next]_vars => TypeOK'
<1> SUFFICES ASSUME TypeOK, [Next]_vars PROVE TypeOK'
  OBVIOUS
<1> USE DEF chainVars, detectorVars, watchVars, checkVars
<1>a. /\ height \in Heights /\ balance \in [Wallets -> [Heights -> Nat]]
      /\ credited \in [Wallets -> [Heights -> Nat]]
  BY DEF TypeOK
<1>1. CASE NewBlock
  <2>1. PICK new \in [Wallets -> 0..MaxBalance] :
          /\ balance' =
               [w \in Wallets |-> [balance[w] EXCEPT ![height + 1] = new[w]]]
          /\ credited' =
               [w \in Wallets |-> [credited[w] EXCEPT ![height + 1] =
                  credited[w][height] + Gain(balance[w][height], new[w])]]
    BY <1>1 DEF NewBlock
  <2>2. ASSUME NEW w \in Wallets
        PROVE  /\ new[w] \in Nat
               /\ credited[w][height] + Gain(balance[w][height], new[w]) \in Nat
    <3>1. /\ new[w] \in Nat /\ balance[w][height] \in Nat
          /\ credited[w][height] \in Nat
      BY <1>a
    <3> QED BY <3>1 DEF Gain
  <2>3. \A w \in Wallets :
          [balance[w] EXCEPT ![height + 1] = new[w]] \in [Heights -> Nat]
    BY <1>a, <2>2
  <2>4. \A w \in Wallets :
          [credited[w] EXCEPT ![height + 1] =
             credited[w][height] + Gain(balance[w][height], new[w])]
            \in [Heights -> Nat]
    BY <1>a, <2>2
  <2>5. /\ balance' \in [Wallets -> [Heights -> Nat]]
        /\ credited' \in [Wallets -> [Heights -> Nat]]
    BY <2>1, <2>3, <2>4
  <2>6. height' \in Heights
    BY <1>1, <1>a DEF NewBlock
  <2> QED BY <1>1, <2>5, <2>6 DEF NewBlock, TypeOK
<1> USE DEF TypeOK
<1>2. ASSUME NEW s \in Starts, Start(s) \/ InitializeThrows(s) \/ WatchBlocks(s)
      PROVE  TypeOK'
  BY <1>2 DEF Start, InitializeThrows, WatchBlocks
<1>3. ASSUME NEW s \in Starts, NEW w \in Wallets, InitializeBalance(s, w)
      PROVE  TypeOK'
  <2>1. balance[w][height] \in Nat /\ credited[w][height] \in Nat
    OBVIOUS
  <2> QED BY <1>3, <2>1 DEF InitializeBalance
<1>4. ASSUME NEW s \in Starts, Emit(s) PROVE TypeOK'
  <2>1. checks' \in SUBSET Check
    BY <1>4 DEF Emit, Check
  <2>2. emitted' \in [Starts -> Heights \cup {-1}]
    BY <1>4 DEF Emit
  <2> QED BY <1>4, <2>1, <2>2 DEF Emit
<1>5. ASSUME NEW p \in Stops, Stop(p) PROVE TypeOK'
  BY <1>5 DEF Stop
<1>6. ASSUME NEW w \in Wallets, AddWallet(w) PROVE TypeOK'
  <2>1. BalanceKnown(w) \in Nat
    <3>1. last[w] \in Nat /\ \A c \in checks : c.gain \in Nat
      BY DEF Check
    <3>2. CASE Holders(w) = {}
      BY <3>1, <3>2 DEF BalanceKnown
    <3>3. CASE Holders(w) # {}
      <4>1. (CHOOSE c \in Holders(w) : TRUE) \in checks
        BY <3>3 DEF Holders
      <4> QED BY <3>1, <3>3, <4>1 DEF BalanceKnown
    <3> QED BY <3>2, <3>3
  <2>2. forgotten' \in [Wallets -> Nat]
    BY <1>6, <2>1 DEF AddWallet
  <2>3. checks' \in SUBSET Check
    <3>1. ASSUME NEW c \in checks
          PROVE  [c EXCEPT !.renewed = @ \cup ({w} \cap (c.visited \cup {c.wallet}))]
                   \in Check
      <4>1. c \in Check /\ c.renewed \cup ({w} \cap (c.visited \cup {c.wallet}))
                             \in SUBSET Wallets
        BY DEF Check
      <4> QED BY <4>1 DEF Check
    <3>2. checks' = {[c EXCEPT !.renewed =
                        @ \cup ({w} \cap (c.visited \cup {c.wallet}))] : c \in checks}
      BY <1>6 DEF AddWallet, Renew
    <3> HIDE DEF TypeOK
    <3> QED BY <3>1, <3>2
  <2> QED BY <1>6, <2>2, <2>3 DEF AddWallet
<1>7. ASSUME NEW c \in checks, NEW w \in Wallets,
             Compare(c, w) \/ CompareThrows(c, w)
      PROVE  TypeOK'
  <2>1. c \in Check /\ balance[w][c.block] \in Nat /\ last[w] \in Nat
    BY DEF Check
  <2>2. Visited(c, w) \in Check
    BY <2>1 DEF Visited, Check
  <2>3. ASSUME balance[w][c.block] > last[w]
        PROVE  [c EXCEPT !.wallet = w, !.gain = balance[w][c.block] - last[w]]
                 \in Check
    <3>1. balance[w][c.block] - last[w] \in Nat
      BY <2>1, <2>3
    <3> QED BY <2>1, <3>1 DEF Check
  <2>4. CASE Compare(c, w)
    BY <2>1, <2>2, <2>3, <2>4 DEF Compare, Replace
  <2>5. CASE CompareThrows(c, w)
    BY <2>2, <2>5 DEF CompareThrows, Replace
  <2> QED BY <1>7, <2>4, <2>5
<1>8. ASSUME NEW c \in checks, Notify(c) \/ NotifyThrows(c) PROVE TypeOK'
  <2>1. /\ c \in Check /\ c.wallet \in Wallets /\ c.gain \in Nat
        /\ balance[c.wallet][c.block] \in Nat
    <3>1. c \in Check /\ c.wallet \in Wallets
      BY <1>8 DEF Check, Notify, NotifyThrows
    <3>2. c.gain \in Nat /\ c.block \in Heights
      BY <3>1 DEF Check
    <3> QED BY <3>1, <3>2
  <2>2. Visited(c, c.wallet) \in Check
    BY <2>1 DEF Visited, Check
  <2>3. checks' \in SUBSET Check /\ last' \in [Wallets -> Nat]
    <3>1. checks' \in SUBSET Check
      BY <1>8, <2>1, <2>2 DEF Notify, NotifyThrows, Replace
    <3>2. SetLast(c)
      BY <1>8 DEF Notify, NotifyThrows
    <3> QED BY <2>1, <3>1, <3>2 DEF SetLast
  <2>4. reported' \in [Wallets -> Nat]
    <3>1. reported[c.wallet] + c.gain \in Nat
      BY <2>1
    <3>2. CASE reported' = [reported EXCEPT ![c.wallet] = @ + c.gain]
      BY <3>1, <3>2
    <3>3. CASE UNCHANGED reported
      BY <3>3
    <3> QED BY <1>8, <3>2, <3>3 DEF Notify, NotifyThrows
  <2> QED BY <1>8, <2>3, <2>4 DEF Notify, NotifyThrows
<1>9. ASSUME NEW c \in checks, CheckEnds(c) PROVE TypeOK'
  BY <1>9 DEF CheckEnds
<1>10. CASE UNCHANGED vars
  BY <1>10 DEF vars
<1> QED BY <1>1, <1>2, <1>3, <1>4, <1>5, <1>6, <1>7, <1>8, <1>9, <1>10
           DEF Next, CheckSteps

-----------------------------------------------------------------------------
(* One watch.                                                               *)

\* Only a start, a stop and the end of an initialisation matter.
LEMMA WatchInvStep == TypeOK /\ WatchInv /\ [Next]_vars => WatchInv'
<1> SUFFICES ASSUME TypeOK, WatchInv, [Next]_vars PROVE WatchInv'
  OBVIOUS
<1> USE DEF TypeOK, WatchInv, Starting, chainVars, detectorVars, watchVars,
            checkVars
<1>1. ASSUME UNCHANGED <<pc, hasty, running, unwatch, watching>> PROVE WatchInv'
  BY <1>1
<1>2. ASSUME NEW s \in Starts, Start(s) PROVE WatchInv'
  BY <1>2 DEF Start
<1>3. ASSUME NEW s \in Starts, InitializeThrows(s) PROVE WatchInv'
  BY <1>3 DEF InitializeThrows
<1>4. ASSUME NEW s \in Starts, WatchBlocks(s) PROVE WatchInv'
  BY <1>4 DEF WatchBlocks
<1>5. ASSUME NEW p \in Stops, Stop(p) PROVE WatchInv'
  BY <1>5 DEF Stop
<1>6. ASSUME \/ NewBlock
             \/ \E s \in Starts : Emit(s)
             \/ \E s \in Starts, w \in Wallets : InitializeBalance(s, w)
             \/ \E w \in Wallets : AddWallet(w)
             \/ \E c \in checks : CheckSteps(c)
             \/ UNCHANGED vars
      PROVE  UNCHANGED <<pc, hasty, running, unwatch, watching>>
  BY <1>6 DEF NewBlock, Emit, InitializeBalance, AddWallet, CheckSteps,
              Compare, CompareThrows, Notify, NotifyThrows, CheckEnds, vars
<1> QED BY <1>1, <1>2, <1>3, <1>4, <1>5, <1>6 DEF Next

-----------------------------------------------------------------------------
(* What was credited, and what was reported.                                *)

\* A new block credits what the balance gains.
LEMMA CreditInvStep == TypeOK /\ CreditInv /\ [Next]_vars => CreditInv'
<1> SUFFICES ASSUME TypeOK, CreditInv, [Next]_vars PROVE CreditInv'
  OBVIOUS
<1>a. /\ height \in Heights /\ Heights \subseteq Nat
      /\ balance \in [Wallets -> [Heights -> Nat]]
      /\ credited \in [Wallets -> [Heights -> Nat]]
  BY DEF TypeOK
<1>1. CASE NewBlock
  <2> SUFFICES ASSUME NEW w \in Wallets, NEW b \in 0..height',
                      NEW d \in b..height'
               PROVE  /\ credited'[w][b] <= credited'[w][d]
                      /\ balance'[w][d] - balance'[w][b]
                           <= credited'[w][d] - credited'[w][b]
    BY DEF CreditInv
  <2>1. PICK new \in [Wallets -> 0..MaxBalance] :
          /\ balance' =
               [v \in Wallets |-> [balance[v] EXCEPT ![height + 1] = new[v]]]
          /\ credited' =
               [v \in Wallets |-> [credited[v] EXCEPT ![height + 1] =
                  credited[v][height] + Gain(balance[v][height], new[v])]]
    BY <1>1 DEF NewBlock
  <2>2. height \in Nat /\ height' = height + 1 /\ height + 1 \in Heights
    BY <1>1, <1>a DEF NewBlock
  <2>3. /\ balance'[w] = [balance[w] EXCEPT ![height + 1] = new[w]]
        /\ credited'[w] = [credited[w] EXCEPT ![height + 1] =
             credited[w][height] + Gain(balance[w][height], new[w])]
    BY <2>1
  <2>4. /\ balance'[w][height + 1] = new[w]
        /\ credited'[w][height + 1] =
             credited[w][height] + Gain(balance[w][height], new[w])
        /\ \A e \in 0..height : /\ balance'[w][e] = balance[w][e]
                                /\ credited'[w][e] = credited[w][e]
    <3>1. /\ balance[w] \in [Heights -> Nat] /\ credited[w] \in [Heights -> Nat]
          /\ 0..height \subseteq Heights /\ height + 1 \notin 0..height
      BY <1>a, <2>2
    <3> QED BY <2>2, <2>3, <3>1
  <2>5. /\ Gain(balance[w][height], new[w]) \in Nat
        /\ new[w] - balance[w][height] <= Gain(balance[w][height], new[w])
    <3>1. new[w] \in Nat /\ balance[w][height] \in Nat
      BY <1>a
    <3> QED BY <3>1 DEF Gain
  <2>6. CASE d <= height
    <3>1. b \in 0..height /\ d \in b..height /\ d \in 0..height
      BY <2>2, <2>6
    <3> QED BY <2>4, <3>1 DEF CreditInv
  <2>7. CASE d = height + 1 /\ b <= height
    <3>1. b \in 0..height /\ height \in b..height /\ height \in 0..height
      BY <2>2, <2>7
    <3>2. /\ credited[w][b] <= credited[w][height]
          /\ balance[w][height] - balance[w][b]
               <= credited[w][height] - credited[w][b]
      BY <3>1 DEF CreditInv
    <3>3. /\ credited[w][b] \in Nat /\ credited[w][height] \in Nat
          /\ balance[w][b] \in Nat /\ balance[w][height] \in Nat
          /\ new[w] \in Nat
      <4>1. b \in Heights
        BY <2>2, <3>1
      <4> QED BY <1>a, <4>1
    <3>4. /\ balance'[w][b] = balance[w][b] /\ credited'[w][b] = credited[w][b]
          /\ balance'[w][d] = new[w]
          /\ credited'[w][d] =
               credited[w][height] + Gain(balance[w][height], new[w])
      BY <2>4, <2>7, <3>1
    <3> QED BY <2>5, <3>2, <3>3, <3>4
  <2>8. CASE d = height + 1 /\ b = height + 1
    <3>1. /\ credited'[w][b] = credited'[w][d] /\ balance'[w][b] = balance'[w][d]
          /\ credited'[w][d] \in Nat /\ balance'[w][d] \in Nat
      <4>1. /\ new[w] \in Nat /\ credited[w][height] \in Nat
            /\ Gain(balance[w][height], new[w]) \in Nat
        BY <1>a, <2>5
      <4> QED BY <2>4, <2>8, <4>1
    <3> QED BY <3>1
  <2> QED BY <2>2, <2>6, <2>7, <2>8
<1>2. ASSUME ~NewBlock PROVE UNCHANGED chainVars
  BY <1>2 DEF Next, Start, InitializeThrows, WatchBlocks, InitializeBalance, Emit,
              Stop, AddWallet, CheckSteps, Compare, CompareThrows, Notify,
              NotifyThrows, CheckEnds, vars
<1> QED BY <1>1, <1>2 DEF CreditInv, chainVars

\* What is backed up to a block is backed up to a later one, where all of what
\* last[w] leaves may be reported.
LEMMA BackedLater ==
  ASSUME TypeOK, CreditInv, NEW w \in Wallets, NEW b \in 0..height,
         NEW d \in b..height, NEW r \in Nat, Backed(w, b, r)
  PROVE  /\ Backed(w, d, r)
         /\ reported[w] + r + (balance[w][d] - last[w]) + since[w]
              <= credited[w][d] + forgotten[w]
<1>1. height \in Nat /\ height \in Heights
  BY DEF TypeOK
<1>2. b \in Heights /\ d \in Heights
  BY <1>1
<1>3. balance[w][d] - balance[w][b] <= credited[w][d] - credited[w][b]
  BY DEF CreditInv
<1>4. /\ credited[w][b] \in Nat /\ credited[w][d] \in Nat
      /\ balance[w][b] \in Nat /\ balance[w][d] \in Nat
  BY <1>2 DEF TypeOK
<1>5. /\ reported[w] \in Nat /\ since[w] \in Nat /\ last[w] \in Nat
      /\ forgotten[w] \in Nat
  BY DEF TypeOK
<1> QED BY <1>3, <1>4, <1>5 DEF Backed

\* One check, that is at block d and holds nothing more of w than its object in
\* the map does: last[w] may be moved to d or stay.
LEMMA LastKept ==
  ASSUME TypeOK, CreditInv, NEW w \in Wallets, LastIsRead(w),
         NEW c \in checks, NEW d, checks' = {d}, d.block = c.block,
         c.block <= height, ~Detached(d, w)',
         UNCHANGED <<height, balance, credited, since[w], reported[w], last[w],
                     forgotten[w]>>
  PROVE  LastIsRead(w)'
<1>1. PICK b \in 0..height :
        /\ last[w] <= balance[w][b]
        /\ Backed(w, b, 0)
        /\ b <= c.block
  BY DEF LastIsRead
<1>2. Backed(w, b, 0)'
  BY <1>1 DEF Backed
<1> QED BY <1>1, <1>2 DEF LastIsRead

LEMMA LastMoved ==
  ASSUME TypeOK, CreditInv, NEW w \in Wallets, LastIsRead(w),
         NEW c \in checks, NEW d, checks' = {d}, d.block = c.block,
         c.block <= height, ~Detached(d, w)',
         last'[w] = balance[w][c.block],
         \/ reported'[w] = reported[w]
         \/ reported'[w] = reported[w] + (balance[w][c.block] - last[w]),
         UNCHANGED <<height, balance, credited, since[w], forgotten[w]>>
  PROVE  LastIsRead(w)'
<1>1. PICK b \in 0..height :
        /\ last[w] <= balance[w][b]
        /\ Backed(w, b, 0)
        /\ b <= c.block
  BY DEF LastIsRead
<1>2. height \in Nat /\ c \in Check /\ c.block \in Heights
  BY DEF TypeOK, Check
<1>3. c.block \in b..height /\ c.block \in 0..height
  BY <1>1, <1>2
<1>4. /\ Backed(w, c.block, 0)
      /\ reported[w] + 0 + (balance[w][c.block] - last[w]) + since[w]
           <= credited[w][c.block] + forgotten[w]
  BY <1>1, <1>3, BackedLater
<1>5. /\ reported[w] \in Nat /\ since[w] \in Nat /\ last[w] \in Nat
      /\ forgotten[w] \in Nat
      /\ balance[w][c.block] \in Nat /\ credited[w][c.block] \in Nat
  BY <1>2 DEF TypeOK
<1>6. Backed(w, c.block, 0)'
  <2>1. reported'[w] + since[w] <= credited[w][c.block] + forgotten[w]
    <3>1. CASE reported'[w] = reported[w] + (balance[w][c.block] - last[w])
      BY <1>4, <1>5, <3>1
    <3>2. CASE reported'[w] = reported[w] /\ last[w] <= balance[w][c.block]
      BY <1>4, <1>5, <3>2
    <3>3. CASE reported'[w] = reported[w] /\ last[w] > balance[w][c.block]
      <4>1. /\ balance[w][c.block] - balance[w][b]
                 <= credited[w][c.block] - credited[w][b]
            /\ credited[w][b] <= credited[w][c.block]
        BY <1>3 DEF CreditInv
      <4>2. balance[w][b] \in Nat /\ credited[w][b] \in Nat
        <5>1. b \in Heights
          BY <1>1, <1>2 DEF TypeOK
        <5> QED BY <5>1 DEF TypeOK
      <4> QED BY <1>1, <1>5, <3>3, <4>1, <4>2 DEF Backed
    <3> QED BY <1>5, <3>1, <3>2, <3>3
  <2> QED BY <1>5, <2>1 DEF Backed
<1>7. last'[w] <= balance'[w][c.block]
  BY <1>5
<1>8. c.block <= d.block
  BY <1>2
<1> QED BY <1>3, <1>6, <1>7, <1>8 DEF LastIsRead

\* addWallet drops what is known of w, which may be reported once more.
LEMMA LastDropped ==
  ASSUME TypeOK, CreditInv, ReportInv, ~lapped, NEW w \in Wallets, AddWallet(w)
  PROVE  LastIsRead(w)'
<1>1. /\ last'[w] = 0 /\ forgotten'[w] = forgotten[w] + BalanceKnown(w)
      /\ UNCHANGED <<height, balance, credited, since, reported>>
  BY DEF AddWallet, TypeOK, chainVars
<1>2. /\ \A c, d \in checks : c = d
      /\ \A c \in checks :
           /\ c.block <= height
           /\ c.wallet # NoWallet /\ c.wallet \notin c.renewed =>
                c.gain = balance[c.wallet][c.block] - last[c.wallet]
      /\ LastIsRead(w)
  BY DEF ReportInv
<1>3. PICK b \in 0..height :
        /\ last[w] <= balance[w][b]
        /\ Backed(w, b, 0)
        /\ \A c \in checks : b <= c.block /\ (Detached(c, w) => Backed(w, b, c.gain))
  BY <1>2 DEF LastIsRead
<1>4. /\ height \in Nat /\ height \in Heights /\ b \in Heights
      /\ \A c \in checks : c \in Check /\ c.block \in Heights /\ c.gain \in Nat
  BY DEF TypeOK, Check
<1>5. /\ reported[w] \in Nat /\ since[w] \in Nat /\ last[w] \in Nat
      /\ forgotten[w] \in Nat /\ balance[w][b] \in Nat /\ credited[w][b] \in Nat
  BY <1>4 DEF TypeOK
<1>6. checks' = {[c EXCEPT !.renewed = @ \cup ({w} \cap (c.visited \cup {c.wallet}))] :
                   c \in checks}
  BY DEF AddWallet, Renew
<1>7. ASSUME NEW d \in checks'
      PROVE  \E c \in checks : /\ d.block = c.block /\ d.gain = c.gain
                               /\ d.wallet = c.wallet
  BY <1>4, <1>6 DEF Check
<1>8. CASE Holders(w) = {}
  <2>1. BalanceKnown(w) = last[w]
    BY <1>5, <1>8 DEF BalanceKnown
  <2>2. Backed(w, b, 0)'
    BY <1>1, <1>3, <1>5, <2>1 DEF Backed
  <2>3. ASSUME NEW d \in checks', d.wallet = w PROVE Backed(w, b, d.gain)'
    <3>1. PICK c \in checks : d.gain = c.gain /\ c.wallet = w
      BY <1>7, <2>3
    <3>2. Backed(w, b, c.gain)
      BY <1>3, <1>8, <3>1 DEF Detached, Holders
    <3>3. c.gain \in Nat
      BY <1>4
    <3>4. Backed(w, b, c.gain)'
      BY <1>1, <1>5, <2>1, <3>2, <3>3 DEF Backed
    <3> QED BY <3>1, <3>4
  <2>4. \A d \in checks' : b <= d.block
    BY <1>3, <1>7
  <2>5. last'[w] <= balance'[w][b] /\ b \in 0..height'
    BY <1>1, <1>3, <1>5
  <2> QED BY <2>2, <2>3, <2>4, <2>5 DEF LastIsRead, Detached
<1>9. CASE Holders(w) # {}
  <2>1. PICK c \in checks : c = (CHOOSE h \in Holders(w) : TRUE) /\ c \in Holders(w)
    BY <1>9 DEF Holders
  <2>2. c.wallet = w /\ w # NoWallet /\ c.wallet \notin c.renewed /\ checks = {c}
    BY <1>2, <2>1 DEF Holders
  <2>3. c.block \in b..height /\ c.block \in 0..height /\ c.gain \in Nat
    BY <1>2, <1>3, <1>4
  <2>4. balance[w][c.block] \in Nat /\ credited[w][c.block] \in Nat
    BY <1>4 DEF TypeOK
  <2>5. last[w] + c.gain = balance[w][c.block]
    BY <1>2, <1>5, <2>2, <2>3, <2>4
  <2>6. BalanceKnown(w) = balance[w][c.block]
    BY <1>9, <2>1, <2>5 DEF BalanceKnown
  <2>7. reported[w] + 0 + (balance[w][c.block] - last[w]) + since[w]
          <= credited[w][c.block] + forgotten[w]
    BY <1>3, <2>3, BackedLater
  <2>8. Backed(w, c.block, c.gain)' /\ Backed(w, c.block, 0)'
    <3>1. reported[w] + c.gain + since[w] <= credited[w][c.block] + forgotten[w]
      BY <1>5, <2>3, <2>4, <2>5, <2>7
    <3> QED BY <1>1, <1>5, <2>3, <2>4, <2>6, <3>1 DEF Backed
  <2>9. \A d \in checks' : d.block = c.block /\ d.gain = c.gain
    BY <1>7, <2>2
  <2>10. last'[w] <= balance'[w][c.block] /\ c.block \in 0..height'
    BY <1>1, <2>3, <2>4
  <2>11. \A d \in checks' : c.block <= d.block
    BY <2>3, <2>9
  <2> QED BY <2>8, <2>9, <2>10, <2>11 DEF LastIsRead
<1> QED BY <1>8, <1>9

\* Without an overlap the wallets are read block after block.
LEMMA ReportInvStep ==
  TypeOK /\ CreditInv /\ ReportInv /\ [Next]_vars => ReportInv'
<1> SUFFICES ASSUME TypeOK, CreditInv, ReportInv, [Next]_vars, ~lapped'
             PROVE  ReportInv'
  BY DEF ReportInv
<1> USE DEF chainVars, detectorVars, watchVars, checkVars
<1>a. height \in Nat /\ height \in Heights /\ \A c \in checks : c \in Check
  BY DEF TypeOK
<1>b. ~lapped
  BY DEF Next, NewBlock, Start, InitializeThrows, WatchBlocks, InitializeBalance,
         Emit, Stop, AddWallet, CheckSteps, Compare, CompareThrows, Notify,
         NotifyThrows, CheckEnds, vars
<1>c. /\ \A c, d \in checks : c = d
      /\ \A c \in checks :
           /\ c.block <= height
           /\ c.renewed \subseteq c.visited \cup {c.wallet}
           /\ c.wallet # NoWallet /\ c.wallet \notin c.renewed =>
                c.gain = balance[c.wallet][c.block] - last[c.wallet]
      /\ \A w \in Wallets : LastIsRead(w)
  BY <1>b DEF ReportInv
<1>d. \A c \in checks : /\ c.block \in Heights /\ c.gain \in Nat
                        /\ c.wallet # NoWallet => c.wallet \in Wallets
                        /\ c.visited \subseteq Wallets
                        /\ c.renewed \subseteq Wallets
  BY <1>a DEF Check
<1>1. CASE NewBlock
  <2>1. height' = height + 1 /\ UNCHANGED checkVars
    BY <1>1 DEF NewBlock
  <2>2. \A w \in Wallets : \A b \in 0..height :
          balance'[w][b] = balance[w][b] /\ credited'[w][b] = credited[w][b]
    BY <1>1, <1>a DEF NewBlock, TypeOK
  <2>3. ASSUME NEW w \in Wallets PROVE LastIsRead(w)'
    <3>1. PICK b \in 0..height :
            /\ last[w] <= balance[w][b]
            /\ Backed(w, b, 0)
            /\ \A c \in checks :
                 b <= c.block /\ (Detached(c, w) => Backed(w, b, c.gain))
      BY <1>c DEF LastIsRead
    <3>2. b \in 0..height' /\ last'[w] <= balance'[w][b]
      BY <2>1, <2>2, <3>1, <1>a
    <3>3. ASSUME NEW r, Backed(w, b, r) PROVE Backed(w, b, r)'
      BY <2>1, <2>2, <3>1, <3>3 DEF Backed
    <3>4. /\ Backed(w, b, 0)'
          /\ \A c \in checks : Detached(c, w) => Backed(w, b, c.gain)'
      BY <3>1, <3>3
    <3> QED BY <2>1, <3>1, <3>2, <3>4 DEF LastIsRead, Detached
  <2>4. \A c \in checks : c.block \in 0..height
    BY <1>a, <1>c, <1>d
  <2>5. \A c \in checks : c.block <= height'
    BY <1>a, <2>1, <2>4
  <2> QED BY <1>c, <1>d, <2>1, <2>2, <2>3, <2>4, <2>5 DEF ReportInv
<1>2. ASSUME NEW s \in Starts, NEW w \in Wallets, InitializeBalance(s, w)
      PROVE  ReportInv'
  <2>1. /\ last' = [last EXCEPT ![w] = balance[w][height]]
        /\ since' = [since EXCEPT ![w] = credited[w][height]]
        /\ reported' = [reported EXCEPT ![w] = 0]
        /\ forgotten' = [forgotten EXCEPT ![w] = 0]
        /\ checks = {} /\ checks' = {}
        /\ UNCHANGED chainVars
    BY <1>2 DEF InitializeBalance
  <2>2. ASSUME NEW v \in Wallets PROVE LastIsRead(v)'
    <3>1. CASE v = w
      <4>1. /\ last'[v] = balance'[v][height'] /\ reported'[v] = 0
            /\ since'[v] = credited'[v][height'] /\ forgotten'[v] = 0
            /\ balance[v][height] \in Nat /\ credited[v][height] \in Nat
        BY <2>1, <3>1, <1>a DEF TypeOK
      <4>2. height' \in 0..height' /\ last'[v] <= balance'[v][height']
        BY <1>a, <2>1, <4>1
      <4>3. Backed(v, height, 0)'
        BY <2>1, <4>1 DEF Backed
      <4> QED BY <2>1, <4>2, <4>3 DEF LastIsRead
    <3>2. CASE v # w
      <4>1. UNCHANGED <<last[v], reported[v], since[v], forgotten[v]>>
        BY <2>1, <3>2 DEF TypeOK
      <4> QED BY <1>c, <2>1, <4>1 DEF LastIsRead, Backed
    <3> QED BY <3>1, <3>2
  <2> QED BY <2>1, <2>2 DEF ReportInv
<1>3. ASSUME NEW s \in Starts, Emit(s) PROVE ReportInv'
  <2>1. /\ checks = {}
        /\ checks' = {[watch |-> s, block |-> height, visited |-> {},
                       wallet |-> NoWallet, gain |-> 0, renewed |-> {}]}
        /\ UNCHANGED <<chainVars, last, reported, since, forgotten>>
    BY <1>3 DEF Emit
  <2>2. ASSUME NEW w \in Wallets PROVE LastIsRead(w)'
    <3>1. PICK b \in 0..height : last[w] <= balance[w][b] /\ Backed(w, b, 0)
      BY <1>c DEF LastIsRead
    <3>2. Backed(w, b, 0)'
      BY <2>1, <3>1 DEF Backed
    <3>3. \A c \in checks' : b <= c.block /\ ~Detached(c, w)'
      BY <1>a, <2>1, <3>1 DEF Detached
    <3> QED BY <2>1, <3>1, <3>2, <3>3 DEF LastIsRead
  <2> QED BY <1>a, <2>1, <2>2 DEF ReportInv
<1>4. ASSUME NEW c \in checks, NEW w \in Wallets,
             Compare(c, w) \/ CompareThrows(c, w)
      PROVE  ReportInv'
  <2>1. /\ c.block <= height /\ c \in Check /\ checks = {c}
        /\ c.wallet = NoWallet /\ w # NoWallet /\ w \notin c.visited
        /\ UNCHANGED <<chainVars, reported, since, forgotten>>
    BY <1>4, <1>a, <1>c DEF Compare, CompareThrows
  <2>2. w \notin c.renewed
    BY <1>c, <2>1
  <2>3. ASSUME NEW d, checks' = {d}, d.block = c.block, UNCHANGED last,
               d.wallet \in {NoWallet, w}, d.renewed = c.renewed
        PROVE  \A v \in Wallets : LastIsRead(v)'
    <3>1. ASSUME NEW v \in Wallets PROVE LastIsRead(v)'
      <4>1. ~Detached(d, v)'
        BY <2>2, <2>3 DEF Detached
      <4> QED BY <1>c, <2>1, <2>3, <4>1, LastKept
    <3> QED BY <3>1
  <2>4. CASE Compare(c, w) /\ balance[w][c.block] > last[w]
    <3> DEFINE d == [c EXCEPT !.wallet = w, !.gain = balance[w][c.block] - last[w]]
    <3>1. /\ d.block = c.block /\ d.wallet = w /\ d.renewed = c.renewed
          /\ d.visited = c.visited /\ d.gain = balance[w][c.block] - last[w]
      BY <2>1 DEF Check
    <3>2. checks' = {d} /\ UNCHANGED last
      BY <2>1, <2>4 DEF Compare, Replace
    <3> HIDE DEF d
    <3>3. \A v \in Wallets : LastIsRead(v)'
      BY <2>3, <3>1, <3>2
    <3>4. d.renewed \subseteq d.visited \cup {d.wallet}
      BY <1>c, <2>1, <3>1, <1>d
    <3> QED BY <2>1, <3>1, <3>2, <3>3, <3>4 DEF ReportInv
  <2>5. CASE Compare(c, w) /\ ~(balance[w][c.block] > last[w])
    <3> DEFINE d == Visited(c, w)
    <3>1. /\ d.block = c.block /\ d.wallet = NoWallet
          /\ d.renewed = c.renewed /\ d.visited = c.visited \cup {w}
      BY <2>1 DEF Check, Visited
    <3>2. checks' = {d} /\ last' = [last EXCEPT ![w] = balance[w][c.block]]
      BY <2>1, <2>5 DEF Compare, Replace
    <3> HIDE DEF d
    <3>3. ASSUME NEW v \in Wallets PROVE LastIsRead(v)'
      <4>a. ~Detached(d, v)'
        BY <3>1 DEF Detached
      <4>1. CASE v = w
        <5>1. last'[w] = balance[w][c.block]
          BY <3>2 DEF TypeOK
        <5> QED BY <1>c, <2>1, <3>1, <3>2, <4>1, <4>a, <5>1, LastMoved
      <4>2. CASE v # w
        <5>1. UNCHANGED last[v]
          BY <3>2, <4>2 DEF TypeOK
        <5> QED BY <1>c, <2>1, <3>1, <3>2, <4>a, <5>1, LastKept
      <4> QED BY <4>1, <4>2
    <3>4. d.renewed \subseteq d.visited \cup {d.wallet}
      BY <1>c, <2>1, <3>1
    <3> QED BY <2>1, <3>1, <3>2, <3>3, <3>4 DEF ReportInv
  <2>6. CASE CompareThrows(c, w)
    <3> DEFINE d == Visited(c, w)
    <3>1. /\ d.block = c.block /\ d.wallet = NoWallet
          /\ d.renewed = c.renewed /\ d.visited = c.visited \cup {w}
      BY <2>1 DEF Check, Visited
    <3>2. checks' = {d} /\ UNCHANGED last
      BY <2>1, <2>6 DEF CompareThrows, Replace
    <3> HIDE DEF d
    <3>3. \A v \in Wallets : LastIsRead(v)'
      BY <2>3, <3>1, <3>2
    <3>4. d.renewed \subseteq d.visited \cup {d.wallet}
      BY <1>c, <2>1, <3>1
    <3> QED BY <2>1, <3>1, <3>2, <3>3, <3>4 DEF ReportInv
  <2> QED BY <1>4, <2>4, <2>5, <2>6
<1>5. ASSUME NEW c \in checks, Notify(c) \/ NotifyThrows(c) PROVE ReportInv'
  <2> DEFINE w == c.wallet
             d == Visited(c, w)
  <2>1. /\ c.block <= height /\ c \in Check /\ checks = {c}
        /\ w \in Wallets /\ w # NoWallet /\ c.gain \in Nat
    BY <1>5, <1>c, <1>d, <1>a DEF Notify, NotifyThrows
  <2>2. /\ d.block = c.block /\ d.wallet = NoWallet
        /\ d.renewed = c.renewed /\ d.visited = c.visited \cup {w}
    BY <2>1 DEF Check, Visited
  <2>3. /\ checks' = {d} /\ SetLast(c)
        /\ UNCHANGED <<chainVars, since, forgotten>>
        /\ \/ reported' = [reported EXCEPT ![w] = @ + c.gain]
           \/ UNCHANGED reported
    BY <1>5, <2>1 DEF Notify, NotifyThrows, Replace
  <2>4. \/ w \in c.renewed /\ UNCHANGED last
        \/ /\ w \notin c.renewed /\ c.gain = balance[w][c.block] - last[w]
           /\ last' = [last EXCEPT ![w] = balance[w][c.block]]
    BY <1>c, <2>1, <2>3 DEF SetLast
  <2> HIDE DEF d, w
  <2>5. ASSUME NEW v \in Wallets PROVE LastIsRead(v)'
    <3>a. ~Detached(d, v)'
      BY <2>2 DEF Detached
    <3>1. CASE v = w /\ w \notin c.renewed
      <4>1. last'[w] = balance[w][c.block]
        BY <2>1, <2>4, <3>1 DEF TypeOK
      <4>2. \/ reported'[w] = reported[w]
            \/ reported'[w] = reported[w] + (balance[w][c.block] - last[w])
        BY <2>1, <2>3, <2>4, <3>1 DEF TypeOK
      <4> QED BY <1>c, <2>1, <2>2, <2>3, <3>1, <3>a, <4>1, <4>2, LastMoved
    <3>2. CASE v = w /\ w \in c.renewed
      <4>1. PICK b \in 0..height :
              /\ last[w] <= balance[w][b]
              /\ Backed(w, b, 0)
              /\ b <= c.block /\ (Detached(c, w) => Backed(w, b, c.gain))
        BY <1>c, <2>1 DEF LastIsRead
      <4>2. Backed(w, b, c.gain)
        BY <3>2, <4>1 DEF Detached, w
      <4>3. reported'[w] = reported[w] + c.gain \/ reported'[w] = reported[w]
        BY <2>1, <2>3 DEF TypeOK
      <4>4. UNCHANGED <<last, height, balance, credited, since, forgotten>>
        BY <2>3, <2>4, <3>2
      <4>5. /\ reported[w] \in Nat /\ since[w] \in Nat /\ last[w] \in Nat
            /\ forgotten[w] \in Nat /\ balance[w][b] \in Nat
            /\ credited[w][b] \in Nat
        <5>1. b \in Heights
          BY <1>a, <4>1
        <5>2. w \in Wallets
          BY <2>1
        <5>3. /\ reported[w] \in Nat /\ since[w] \in Nat /\ last[w] \in Nat
              /\ forgotten[w] \in Nat
          BY <5>2 DEF TypeOK
        <5>4. balance[w] \in [Heights -> Nat] /\ credited[w] \in [Heights -> Nat]
          BY <5>2 DEF TypeOK
        <5> QED BY <5>1, <5>3, <5>4
      <4>6. Backed(w, b, 0)'
        <5>1. CASE reported'[w] = reported[w] + c.gain
          BY <2>1, <4>2, <4>4, <4>5, <5>1 DEF Backed
        <5>2. CASE reported'[w] = reported[w]
          BY <4>1, <4>4, <4>5, <5>2 DEF Backed
        <5> QED BY <4>3, <5>1, <5>2
      <4>7. b <= d.block
        BY <2>2, <4>1
      <4> QED BY <2>3, <3>2, <3>a, <4>1, <4>4, <4>6, <4>7 DEF LastIsRead
    <3>3. CASE v # w
      <4>1. UNCHANGED <<last[v], reported[v]>>
        BY <2>3, <2>4, <3>3 DEF TypeOK
      <4> QED BY <1>c, <2>1, <2>2, <2>3, <3>a, <4>1, LastKept
    <3> QED BY <3>1, <3>2, <3>3
  <2>6. d.renewed \subseteq d.visited \cup {d.wallet}
    BY <1>c, <2>1, <2>2 DEF w
  <2> QED BY <2>1, <2>2, <2>3, <2>5, <2>6 DEF ReportInv
<1>6. ASSUME NEW c \in checks, CheckEnds(c) PROVE ReportInv'
  <2>1. /\ checks' \subseteq checks
        /\ UNCHANGED <<chainVars, last, reported, since, forgotten>>
    BY <1>6 DEF CheckEnds
  <2>2. \A v \in Wallets : LastIsRead(v)'
    BY <1>c, <2>1 DEF LastIsRead, Backed, Detached
  <2> QED BY <1>c, <2>1, <2>2 DEF ReportInv
<1>7. ASSUME UNCHANGED <<chainVars, last, reported, since, forgotten, checks>>
      PROVE  ReportInv'
  <2>1. \A v \in Wallets : LastIsRead(v)'
    BY <1>c, <1>7 DEF LastIsRead, Backed, Detached
  <2> QED BY <1>7, <1>c, <2>1 DEF ReportInv
<1>8. ASSUME \/ \E s \in Starts :
                  Start(s) \/ InitializeThrows(s) \/ WatchBlocks(s)
             \/ \E p \in Stops : Stop(p)
             \/ UNCHANGED vars
      PROVE  UNCHANGED <<chainVars, last, reported, since, forgotten, checks>>
  BY <1>8 DEF Start, InitializeThrows, WatchBlocks, Stop, vars
<1>9. ASSUME NEW w \in Wallets, AddWallet(w) PROVE ReportInv'
  <2>1. /\ UNCHANGED <<chainVars, since, reported>>
        /\ last' = [last EXCEPT ![w] = 0]
        /\ forgotten' = [forgotten EXCEPT ![w] = @ + BalanceKnown(w)]
        /\ checks' = {[c EXCEPT !.renewed =
                         @ \cup ({w} \cap (c.visited \cup {c.wallet}))] :
                        c \in checks}
    BY <1>9 DEF AddWallet, Renew
  <2>2. ASSUME NEW d \in checks'
        PROVE  \E c \in checks :
                 /\ d.block = c.block /\ d.gain = c.gain /\ d.wallet = c.wallet
                 /\ d.visited = c.visited
                 /\ d.renewed =
                      c.renewed \cup ({w} \cap (c.visited \cup {c.wallet}))
    BY <1>a, <2>1 DEF Check
  <2>3. \A c, d \in checks' : c = d
    <3>1. CASE checks = {}
      BY <2>1, <3>1
    <3>2. ASSUME NEW c \in checks PROVE \A d, e \in checks' : d = e
      <4>1. checks = {c}
        BY <1>c
      <4>2. checks' = {[c EXCEPT !.renewed =
                          @ \cup ({w} \cap (c.visited \cup {c.wallet}))]}
        BY <2>1, <4>1
      <4> QED BY <4>2
    <3> QED BY <3>1, <3>2
  <2>4. ASSUME NEW d \in checks'
        PROVE  /\ d.block <= height'
               /\ d.renewed \subseteq d.visited \cup {d.wallet}
               /\ d.wallet # NoWallet /\ d.wallet \notin d.renewed =>
                    d.gain = balance'[d.wallet][d.block] - last'[d.wallet]
    <3>1. PICK c \in checks :
            /\ d.block = c.block /\ d.gain = c.gain /\ d.wallet = c.wallet
            /\ d.visited = c.visited
            /\ d.renewed = c.renewed \cup ({w} \cap (c.visited \cup {c.wallet}))
      BY <2>2
    <3>2. d.block <= height' /\ d.renewed \subseteq d.visited \cup {d.wallet}
      BY <1>c, <2>1, <3>1
    <3>3. ASSUME d.wallet # NoWallet, d.wallet \notin d.renewed
          PROVE  d.gain = balance'[d.wallet][d.block] - last'[d.wallet]
      <4>1. c.wallet # w /\ c.wallet \in Wallets /\ c.wallet \notin c.renewed
        BY <1>d, <3>1, <3>3
      <4>2. last'[c.wallet] = last[c.wallet]
        BY <2>1, <4>1 DEF TypeOK
      <4> QED BY <1>c, <2>1, <3>1, <3>3, <4>1, <4>2
    <3> QED BY <3>2, <3>3
  <2>5. ASSUME NEW v \in Wallets PROVE LastIsRead(v)'
    <3>1. CASE v = w
      BY <1>9, <1>b, <3>1, LastDropped
    <3>2. CASE v # w
      <4>1. UNCHANGED <<last[v], forgotten[v]>>
        BY <2>1, <3>2 DEF TypeOK
      <4>2. PICK b \in 0..height :
              /\ last[v] <= balance[v][b]
              /\ Backed(v, b, 0)
              /\ \A c \in checks :
                   b <= c.block /\ (Detached(c, v) => Backed(v, b, c.gain))
        BY <1>c DEF LastIsRead
      <4>3. ASSUME NEW r, Backed(v, b, r) PROVE Backed(v, b, r)'
        BY <2>1, <4>1, <4>3 DEF Backed
      <4>4. ASSUME NEW d \in checks'
            PROVE  b <= d.block /\ (Detached(d, v)' => Backed(v, b, d.gain)')
        <5>1. PICK c \in checks :
                /\ d.block = c.block /\ d.gain = c.gain /\ d.wallet = c.wallet
                /\ d.renewed = c.renewed \cup ({w} \cap (c.visited \cup {c.wallet}))
          BY <2>2
        <5>2. Detached(d, v)' => Detached(c, v)
          BY <3>2, <5>1 DEF Detached
        <5>3. Detached(c, v) => Backed(v, b, c.gain)'
          BY <4>2, <4>3
        <5> QED BY <4>2, <5>1, <5>2, <5>3
      <4>5. Backed(v, b, 0)'
        BY <4>2, <4>3
      <4>6. b \in 0..height' /\ last'[v] <= balance'[v][b]
        BY <2>1, <4>1, <4>2
      <4> QED BY <4>4, <4>5, <4>6 DEF LastIsRead
    <3> QED BY <3>1, <3>2
  <2> QED BY <2>3, <2>4, <2>5 DEF ReportInv
<1> QED BY <1>1, <1>2, <1>3, <1>4, <1>5, <1>6, <1>7, <1>8, <1>9
      DEF Next, CheckSteps

-----------------------------------------------------------------------------
(* The theorems.                                                            *)

LEMMA IInvInit == Init => IInv
<1> SUFFICES ASSUME Init PROVE IInv
  OBVIOUS
<1>1. TypeOK
  BY TypeOKInit
<1>2. WatchInv
  BY DEF Init, WatchInv, Starting
<1>3. CreditInv
  BY DEF Init, CreditInv
<1>4. \A w \in Wallets : LastIsRead(w)
  BY DEF Init, LastIsRead, Backed
<1> QED BY <1>1, <1>2, <1>3, <1>4 DEF Init, IInv, ReportInv

\* IInv is an invariant (BalanceChangeListener).
THEOREM Invariance == Spec => []IInv
<1>1. IInv /\ [Next]_vars => IInv'
  BY TypeOKStep, WatchInvStep, CreditInvStep, ReportInvStep DEF IInv
<1> QED BY IInvInit, <1>1, PTL DEF Spec

\* One watch, that a stop ends (start, stop).
THEOREM WatchesAreOne == Spec => []OneWatch
<1>1. IInv => OneWatch
  BY DEF IInv, WatchInv, OneWatch
<1> QED BY <1>1, Invariance, PTL

\* No more is reported than blocks have added and addWallet has dropped
\* (checkBalanceChanges, addWallet).
THEOREM ReportsAreBacked == Spec => []ReportsBacked
<1>1. IInv => ReportsBacked
  <2> SUFFICES ASSUME IInv, ~lapped, NEW w \in wallets
               PROVE  reported[w] <= (credited[w][height] - since[w]) + forgotten[w]
    BY DEF ReportsBacked
  <2>1. w \in Wallets /\ height \in Heights /\ height \in Nat
    BY DEF IInv, TypeOK
  <2>2. PICK b \in 0..height : last[w] <= balance[w][b] /\ Backed(w, b, 0)
    BY <2>1 DEF IInv, ReportInv, LastIsRead
  <2>3. credited[w][b] <= credited[w][height]
    <3>1. height \in b..height
      BY <2>1, <2>2
    <3> QED BY <2>1, <2>2, <3>1 DEF IInv, CreditInv
  <2>4. /\ credited[w][b] \in Nat /\ credited[w][height] \in Nat
        /\ reported[w] \in Nat /\ since[w] \in Nat /\ forgotten[w] \in Nat
        /\ last[w] \in Nat /\ balance[w][b] \in Nat
    <3>1. b \in Heights
      BY <2>1
    <3> QED BY <2>1, <3>1 DEF IInv, TypeOK
  <2> QED BY <2>2, <2>3, <2>4 DEF Backed
<1> QED BY <1>1, Invariance, PTL

-----------------------------------------------------------------------------
(* The last balances.                                                       *)

\* With one check at a time, a step of it changes the last balance of the one
\* wallet that it adds to those visited, unless it has lost the object.
LEMMA VisitKeepsCurrent ==
  ASSUME TypeOK, VisitedIsCurrent, ~lapped, ~failed,
         NEW c \in checks, NEW w \in Wallets, UNCHANGED balance,
         checks' = {Visited(c, w)},
         \/ w \in c.renewed /\ UNCHANGED last
         \/ last' = [last EXCEPT ![w] = balance[w][c.block]]
  PROVE  VisitedIsCurrent'
<1>1. c \in Check
  BY DEF TypeOK
<1>2. /\ Visited(c, w).visited = c.visited \cup {w}
      /\ Visited(c, w).block = c.block /\ Visited(c, w).renewed = c.renewed
  BY <1>1 DEF Visited, Check
<1>3. last \in [Wallets -> Nat] /\ c.visited \subseteq Wallets
  BY <1>1 DEF TypeOK, Check
<1>4. \A v \in c.visited \ c.renewed : last[v] = balance[v][c.block]
  BY DEF VisitedIsCurrent
<1>5. \A v \in (c.visited \cup {w}) \ c.renewed : last'[v] = balance[v][c.block]
  BY <1>3, <1>4
<1> QED BY <1>2, <1>5 DEF VisitedIsCurrent

LEMMA VisitedIsCurrentStep ==
  IInv /\ VisitedIsCurrent /\ [Next]_vars => VisitedIsCurrent'
<1> SUFFICES ASSUME TypeOK, ReportInv, VisitedIsCurrent, [Next]_vars,
                    ~lapped', ~failed'
             PROVE  VisitedIsCurrent'
  BY DEF IInv, VisitedIsCurrent
<1> USE DEF chainVars, detectorVars, watchVars, checkVars
<1>a. /\ height \in Nat /\ last \in [Wallets -> Nat]
      /\ balance \in [Wallets -> [Heights -> Nat]]
      /\ \A c \in checks : c \in Check
  BY DEF TypeOK
<1>b. ~lapped /\ ~failed
  <2>1. ASSUME \/ NewBlock
               \/ \E s \in Starts :
                    Start(s) \/ InitializeThrows(s) \/ WatchBlocks(s)
               \/ \E p \in Stops : Stop(p)
               \/ \E w \in Wallets : AddWallet(w)
               \/ UNCHANGED vars
        PROVE  ~lapped /\ ~failed
    BY <2>1 DEF NewBlock, Start, InitializeThrows, WatchBlocks, Stop,
       AddWallet, vars
  <2>2. ASSUME NEW s \in Starts,
               Emit(s) \/ \E w \in Wallets : InitializeBalance(s, w)
        PROVE  ~lapped /\ ~failed
    <3>1. UNCHANGED failed /\ (lapped => lapped')
      BY <2>2, Zenon DEF Emit, InitializeBalance
    <3> QED BY <3>1
  <2>3. ASSUME NEW c \in checks, CheckSteps(c) PROVE ~lapped /\ ~failed
    <3>1. ASSUME NEW w \in Wallets, Compare(c, w) \/ CompareThrows(c, w)
          PROVE  ~lapped /\ ~failed
      BY <3>1 DEF Compare, CompareThrows
    <3>2. ASSUME Notify(c) \/ NotifyThrows(c) \/ CheckEnds(c)
          PROVE  ~lapped /\ ~failed
      BY <3>2 DEF Notify, NotifyThrows, CheckEnds
    <3> QED BY <2>3, <3>1, <3>2 DEF CheckSteps
  <2> QED BY <2>1, <2>2, <2>3 DEF Next
<1>c. /\ \A c, d \in checks : c = d
      /\ \A c \in checks : c.block <= height
  BY <1>b DEF ReportInv
<1>d. \A c \in checks : \A w \in c.visited \ c.renewed : last[w] = balance[w][c.block]
  BY <1>b DEF VisitedIsCurrent
<1>1. CASE NewBlock
  <2>1. UNCHANGED <<last, checks>>
    BY <1>1 DEF NewBlock
  <2>2. \A w \in Wallets : \A b \in 0..height : balance'[w][b] = balance[w][b]
    BY <1>1, <1>a DEF NewBlock
  <2>3. \A c \in checks : c.block \in 0..height /\ c.visited \subseteq Wallets
    BY <1>a, <1>c DEF Check
  <2> QED BY <1>d, <2>1, <2>2, <2>3 DEF VisitedIsCurrent
<1>2. ASSUME NEW s \in Starts, NEW w \in Wallets, InitializeBalance(s, w)
      PROVE  VisitedIsCurrent'
  <2>1. checks' = {}
    BY <1>2 DEF InitializeBalance
  <2> QED BY <2>1 DEF VisitedIsCurrent
<1>3. ASSUME NEW s \in Starts, Emit(s) PROVE VisitedIsCurrent'
  <2>1. checks' = {[watch |-> s, block |-> height, visited |-> {},
                    wallet |-> NoWallet, gain |-> 0, renewed |-> {}]}
    BY <1>3 DEF Emit
  <2> QED BY <2>1 DEF VisitedIsCurrent
<1>4. ASSUME NEW c \in checks, NEW w \in Wallets, Compare(c, w)
      PROVE  VisitedIsCurrent'
  <2>1. checks = {c} /\ UNCHANGED balance
    BY <1>4, <1>c DEF Compare
  <2>2. CASE balance[w][c.block] > last[w]
    <3>1. /\ UNCHANGED last
          /\ checks' = {[c EXCEPT !.wallet = w,
                                  !.gain = balance[w][c.block] - last[w]]}
      BY <1>4, <2>1, <2>2 DEF Compare, Replace
    <3>2. \A d \in checks' : /\ d.visited = c.visited /\ d.block = c.block
                              /\ d.renewed = c.renewed
      BY <3>1, <1>a DEF Check
    <3> QED BY <1>d, <2>1, <3>1, <3>2 DEF VisitedIsCurrent
  <2>3. CASE ~(balance[w][c.block] > last[w])
    <3>1. /\ last' = [last EXCEPT ![w] = balance[w][c.block]]
          /\ checks' = {Visited(c, w)}
      BY <1>4, <2>1, <2>3 DEF Compare, Replace
    <3> QED BY <1>b, <2>1, <3>1, VisitKeepsCurrent
  <2> QED BY <2>2, <2>3
<1>5. ASSUME NEW c \in checks, Notify(c) \/ NotifyThrows(c)
      PROVE  VisitedIsCurrent'
  <2>1. checks = {c} /\ UNCHANGED balance
    BY <1>5, <1>c DEF Notify, NotifyThrows
  <2>2. c.wallet \in Wallets
    BY <1>5, <1>a DEF Notify, NotifyThrows, Check
  <2>3. /\ \/ c.wallet \in c.renewed /\ UNCHANGED last
           \/ last' = [last EXCEPT ![c.wallet] = balance[c.wallet][c.block]]
        /\ checks' = {Visited(c, c.wallet)}
    BY <1>5, <2>1 DEF Notify, NotifyThrows, Replace, SetLast
  <2> QED BY <1>b, <2>1, <2>2, <2>3, VisitKeepsCurrent
<1>6. ASSUME NEW c \in checks, NEW w \in Wallets, CompareThrows(c, w)
      PROVE  FALSE
  BY <1>6 DEF CompareThrows
<1>7. ASSUME NEW c \in checks, CheckEnds(c) PROVE VisitedIsCurrent'
  <2>1. checks' \subseteq checks /\ UNCHANGED <<last, balance>>
    BY <1>7 DEF CheckEnds
  <2> QED BY <1>d, <2>1 DEF VisitedIsCurrent
<1>8. ASSUME UNCHANGED <<balance, last, checks>> PROVE VisitedIsCurrent'
  BY <1>8, <1>d DEF VisitedIsCurrent
<1>9. ASSUME \/ \E s \in Starts :
                  Start(s) \/ InitializeThrows(s) \/ WatchBlocks(s)
             \/ \E p \in Stops : Stop(p)
             \/ UNCHANGED vars
      PROVE  UNCHANGED <<balance, last, checks>>
  BY <1>9 DEF Start, InitializeThrows, WatchBlocks, Stop, vars
<1>10. ASSUME NEW w \in Wallets, AddWallet(w) PROVE VisitedIsCurrent'
  <2>1. /\ UNCHANGED balance /\ last' = [last EXCEPT ![w] = 0]
        /\ checks' = {[c EXCEPT !.renewed =
                         @ \cup ({w} \cap (c.visited \cup {c.wallet}))] :
                        c \in checks}
    BY <1>10 DEF AddWallet, Renew
  <2>2. ASSUME NEW d \in checks', NEW v \in d.visited \ d.renewed
        PROVE  last'[v] = balance[v][d.block]
    <3>1. PICK c \in checks :
            /\ d.block = c.block /\ d.visited = c.visited
            /\ d.renewed = c.renewed \cup ({w} \cap (c.visited \cup {c.wallet}))
      <4>1. PICK c \in checks :
              d = [c EXCEPT !.renewed =
                     @ \cup ({w} \cap (c.visited \cup {c.wallet}))]
        BY <2>1
      <4>2. c \in Check
        BY <1>a
      <4> QED BY <4>1, <4>2 DEF Check
    <3>2. v \in c.visited \ c.renewed /\ v # w /\ v \in Wallets
      BY <1>a, <2>2, <3>1 DEF Check
    <3>3. last'[v] = last[v]
      BY <1>a, <2>1, <3>2
    <3> QED BY <1>d, <3>1, <3>2, <3>3
  <2> QED BY <2>1, <2>2 DEF VisitedIsCurrent
<1> QED BY <1>1, <1>2, <1>3, <1>4, <1>5, <1>6, <1>7, <1>8, <1>9, <1>10
      DEF Next, CheckSteps

\* What a check has looked at stays up to date until the check is over
\* (checkBalanceChanges).
THEOREM ChecksAreFinal == Spec => []VisitedIsCurrent
<1>1. Init => VisitedIsCurrent
  BY DEF Init, VisitedIsCurrent
<1> QED BY <1>1, VisitedIsCurrentStep, Invariance, PTL DEF Spec
=============================================================================
