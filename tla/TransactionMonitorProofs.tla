---------------------- MODULE TransactionMonitorProofs ----------------------
(***************************************************************************)
(* For any number of watches, wallets, blocks and transactions: the        *)
(* monitor uses the rate limiter as it is meant to be used, and with it    *)
(* keeps the limit; and its inductive invariant, from which follows that   *)
(* every payment of a block that was gone through was notified.            *)
(***************************************************************************)
EXTENDS TransactionMonitorProps, RateLimiterProofs

USE MonitorAssumption DEF NoWatch, Heights

Positions == {"slot", "block", "loop", "receiptSlot", "receipt", "add"}

\* The types of what is not the limiter's.
MonitorTypeOK ==
  /\ height \in Heights
  /\ toStart \in SUBSET Starts /\ toStop \in SUBSET Stops
  /\ wallets \in SUBSET Wallets
  /\ running \in BOOLEAN
  /\ unwatch \in Starts \cup {NoWatch}
  /\ watching \in SUBSET Starts
  /\ emitted \in [Starts -> Heights \cup {-1}]
  /\ processed \in Seq(Txs)
  /\ handlers \in SUBSET Handler
  /\ \A h \in handlers : h.at \in {"receiptSlot", "receipt", "add"} => h.tx \in Txs
  /\ notified \in [Txs -> Nat]
  /\ swept \in SUBSET Heights
  /\ lapped \in BOOLEAN

LEMMA Types == TypeOK <=> LimiterTypeOK /\ MonitorTypeOK
BY DEF TypeOK, MonitorTypeOK

-----------------------------------------------------------------------------
(* The records of the handlers.                                             *)

LEMMA Caller ==
  ASSUME MonitorTypeOK, NEW h \in handlers
  PROVE  h \in Handler /\ <<h.watch, h.block>> \in Callers
BY DEF MonitorTypeOK, Handler

LEMMA GotoHandler ==
  ASSUME NEW h \in Handler, NEW p \in Positions
  PROVE  LET g == [h EXCEPT !.at = p]
         IN  /\ g \in Handler /\ g.at = p
             /\ g.watch = h.watch /\ g.block = h.block
             /\ g.seen = h.seen /\ g.tx = h.tx
BY DEF Handler, Positions

LEMMA TakeTxHandler ==
  ASSUME NEW h \in Handler, NEW x \in Txs, NEW p \in Positions
  PROVE  LET g == [h EXCEPT !.tx = x, !.at = p]
         IN  /\ g \in Handler /\ g.at = p /\ g.tx = x
             /\ g.watch = h.watch /\ g.block = h.block /\ g.seen = h.seen
BY DEF Handler, Positions

LEMMA SeenHandler ==
  ASSUME NEW h \in Handler, NEW x \in Txs
  PROVE  LET g == Seen(h, x)
         IN  /\ g \in Handler /\ g.at = "loop" /\ g.seen = h.seen \cup {x}
             /\ g.watch = h.watch /\ g.block = h.block
BY DEF Handler, Seen

-----------------------------------------------------------------------------
(* The limiter.                                                             *)

\* Every step is a step of the limiter, or leaves it alone.
LEMMA LimiterStep ==
  MonitorTypeOK /\ [Next]_vars => [LimiterNext]_limiterVars
<1> SUFFICES ASSUME MonitorTypeOK, [Next]_vars
             PROVE  [LimiterNext]_limiterVars
  OBVIOUS
<1>1. ASSUME NEW h \in handlers, TakeSlot(h) \/ AwaitSlot(h)
      PROVE  LimiterNext
  BY <1>1, Caller DEF TakeSlot, AwaitSlot, LimiterNext
<1>2. ASSUME Time PROVE LimiterNext
  BY <1>2 DEF Time, LimiterNext
<1>3. ASSUME \/ NewBlock
             \/ \E s \in Starts : Start(s) \/ Emit(s)
             \/ \E p \in Stops : Stop(p)
             \/ \E w \in Wallets : AddWallet(w)
             \/ \E h \in handlers :
                  \/ GetBlock(h) \/ \E x \in Txs : ProcessTx(h, x)
                  \/ AddProcessed(h) \/ ProcessThrows(h) \/ ProcessEnds(h)
             \/ UNCHANGED vars
      PROVE  UNCHANGED limiterVars
  BY <1>3 DEF NewBlock, Start, Emit, Stop, AddWallet, GetBlock, ProcessTx,
              AddProcessed, ProcessThrows, ProcessEnds, vars
<1> QED BY <1>1, <1>2, <1>3 DEF Next, HandlerSteps

-----------------------------------------------------------------------------
(* The types.                                                               *)

LEMMA MonitorTypeOKStep == MonitorTypeOK /\ [Next]_vars => MonitorTypeOK'
<1> SUFFICES ASSUME MonitorTypeOK, [Next]_vars PROVE MonitorTypeOK'
  OBVIOUS
<1> USE DEF MonitorTypeOK, watchVars, handlerVars
<1>1. CASE NewBlock \/ Time
  <2>1. height' \in Heights
    BY <1>1 DEF NewBlock, Time
  <2> QED BY <1>1, <2>1 DEF NewBlock, Time
<1>2. ASSUME NEW s \in Starts, Start(s) PROVE MonitorTypeOK'
  BY <1>2 DEF Start
<1>3. ASSUME NEW s \in Starts, Emit(s) PROVE MonitorTypeOK'
  BY <1>3 DEF Emit, Handler
<1>4. ASSUME NEW p \in Stops, Stop(p) PROVE MonitorTypeOK'
  BY <1>4 DEF Stop
<1>5. ASSUME NEW w \in Wallets, AddWallet(w) PROVE MonitorTypeOK'
  BY <1>5 DEF AddWallet
<1>6. ASSUME NEW h \in handlers, TakeSlot(h) \/ GetBlock(h) PROVE MonitorTypeOK'
  <2>1. PICK p \in {"block", "loop", "receipt"} :
          /\ handlers' = (handlers \ {h}) \cup {[h EXCEPT !.at = p]}
          /\ p = "receipt" => h.at = "receiptSlot"
    BY <1>6 DEF TakeSlot, GetBlock, Goto, Replace
  <2> DEFINE g == [h EXCEPT !.at = p]
  <2>2. g \in Handler /\ g.tx = h.tx /\ g.at = p
    <3>1. h \in Handler
      OBVIOUS
    <3> HIDE DEF MonitorTypeOK
    <3> QED BY <3>1 DEF Handler
  <2> HIDE DEF g
  <2>3. /\ handlers' \in SUBSET Handler
        /\ \A f \in handlers' :
             f.at \in {"receiptSlot", "receipt", "add"} => f.tx \in Txs
    BY <2>1, <2>2 DEF g
  <2> QED BY <1>6, <2>3 DEF TakeSlot, GetBlock
<1>7. ASSUME NEW h \in handlers, AwaitSlot(h) PROVE MonitorTypeOK'
  BY <1>7 DEF AwaitSlot
<1>8. ASSUME NEW h \in handlers, NEW x \in Txs, ProcessTx(h, x)
      PROVE  MonitorTypeOK'
  <2>1. /\ Seen(h, x) \in Handler
        /\ [h EXCEPT !.tx = x, !.at = "add"] \in Handler
        /\ [h EXCEPT !.tx = x, !.at = "receiptSlot"] \in Handler
    BY SeenHandler, TakeTxHandler DEF Positions
  <2>2. handlers' \in SUBSET Handler
    BY <1>8, <2>1 DEF ProcessTx, Replace
  <2>3. notified' \in [Txs -> Nat]
    <3>1. \/ UNCHANGED notified
          \/ notified' = [notified EXCEPT ![x] = @ + 1]
      BY <1>8 DEF ProcessTx
    <3> QED BY <3>1
  <2>4. \A f \in handlers' :
          f.at \in {"receiptSlot", "receipt", "add"} => f.tx \in Txs
    <3>1. h \in Handler
      OBVIOUS
    <3>2. PICK g \in {Seen(h, x), [h EXCEPT !.tx = x, !.at = "add"],
                      [h EXCEPT !.tx = x, !.at = "receiptSlot"]} :
            handlers' = (handlers \ {h}) \cup {g}
      BY <1>8 DEF ProcessTx, Replace
    <3>3. g.at = "loop" \/ g.tx = x
      BY <3>1 DEF Handler, Seen
    <3> QED BY <3>2, <3>3
  <2> QED BY <1>8, <2>2, <2>3, <2>4 DEF ProcessTx
<1>9. ASSUME NEW h \in handlers, AddProcessed(h) PROVE MonitorTypeOK'
  <2>0. h.tx \in Txs
    BY <1>9 DEF AddProcessed
  <2>1. handlers' \in SUBSET Handler
    BY <1>9, <2>0, SeenHandler DEF AddProcessed, Replace
  <2>2. processed' \in Seq(Txs)
    BY <1>9, <2>0 DEF AddProcessed
  <2> QED BY <1>9, <2>0, <2>1, <2>2, SeenHandler DEF AddProcessed, Replace
<1>10. ASSUME NEW h \in handlers, ProcessThrows(h) PROVE MonitorTypeOK'
  BY <1>10 DEF ProcessThrows
<1>11. ASSUME NEW h \in handlers, ProcessEnds(h) PROVE MonitorTypeOK'
  <2>1. processed' \in Seq(Txs)
    BY <1>11 DEF ProcessEnds
  <2> QED BY <1>11, <2>1 DEF ProcessEnds, Handler
<1>12. CASE UNCHANGED vars
  BY <1>12 DEF vars
<1> QED BY <1>1, <1>2, <1>3, <1>4, <1>5, <1>6, <1>7, <1>8, <1>9, <1>10, <1>11,
           <1>12 DEF Next, HandlerSteps

-----------------------------------------------------------------------------
(* The watches and their handlers.                                          *)

LEMMA WatchInvStep == WatchInv /\ [Next]_vars => WatchInv'
BY DEF WatchInv, Next, NewBlock, Time, Start, Emit, Stop, AddWallet,
   HandlerSteps, TakeSlot, AwaitSlot, GetBlock, ProcessTx, AddProcessed,
   ProcessThrows, ProcessEnds, vars, watchVars

\* A handler may be replaced by one that is further on.
LEMMA ReplaceKeeps ==
  ASSUME HandlerInv, NEW h \in handlers, NEW g, Replace(h, g),
         g.watch = h.watch, g.block = h.block,
         UNCHANGED emitted, asleep' \subseteq asleep,
         h.at \in {"slot", "receiptSlot"} => <<h.watch, h.block>> \notin asleep'
  PROVE  HandlerInv'
<1>1. handlers' = (handlers \ {h}) \cup {g}
  BY DEF Replace
<1>2. \A f \in handlers' : f.block <= emitted'[f.watch]
  BY <1>1 DEF HandlerInv
<1>3. \A e, f \in handlers' : e.watch = f.watch /\ e.block = f.block => e = f
  BY <1>1 DEF HandlerInv
<1>4. ASSUME NEW k \in Starts, NEW b \in Heights, <<k, b>> \in asleep'
      PROVE  \E f \in handlers' : /\ f.watch = k /\ f.block = b
                                  /\ f.at \in {"slot", "receiptSlot"}
  <2>1. PICK f \in handlers : /\ f.watch = k /\ f.block = b
                              /\ f.at \in {"slot", "receiptSlot"}
    BY <1>4 DEF HandlerInv
  <2>2. f # h
    BY <1>4, <2>1
  <2> QED BY <1>1, <2>1, <2>2
<1> QED BY <1>2, <1>3, <1>4 DEF HandlerInv

LEMMA HandlerInvStep ==
  MonitorTypeOK /\ HandlerInv /\ [Next]_vars => HandlerInv'
<1> SUFFICES ASSUME MonitorTypeOK, HandlerInv, [Next]_vars PROVE HandlerInv'
  OBVIOUS
<1>a. \A h \in handlers : h \in Handler
  BY DEF MonitorTypeOK
<1>1. ASSUME UNCHANGED <<handlers, emitted, asleep>> PROVE HandlerInv'
  BY <1>1 DEF HandlerInv
<1>2. ASSUME NEW s \in Starts, Emit(s) PROVE HandlerInv'
  <2> DEFINE g == [watch |-> s, block |-> height, seen |-> {}, tx |-> NoTx,
                   at |-> "slot"]
  <2>1. /\ handlers' = handlers \cup {g} /\ asleep' = asleep
        /\ emitted' = [emitted EXCEPT ![s] = height]
        /\ emitted[s] < height /\ emitted \in [Starts -> Heights \cup {-1}]
        /\ height \in Nat
    BY <1>2 DEF Emit, MonitorTypeOK, limiterVars
  <2>2. g.watch = s /\ g.block = height
    OBVIOUS
  <2> HIDE DEF g
  <2>3. ASSUME NEW f \in handlers
        PROVE  f.block <= emitted'[f.watch] /\ (f.watch = s => f.block < height)
    <3>1. f.block <= emitted[f.watch] /\ f.block \in Nat /\ f.watch \in Starts
      BY <1>a DEF HandlerInv, Handler
    <3>2. emitted[f.watch] \in Int
      <4>1. emitted[f.watch] \in Heights \cup {-1}
        BY <2>1, <3>1
      <4> QED BY <4>1
    <3> QED BY <2>1, <3>1, <3>2
  <2>4. g.block <= emitted'[g.watch]
    BY <2>1, <2>2
  <2>5. \A e, f \in handlers' : e.watch = f.watch /\ e.block = f.block => e = f
    BY <2>1, <2>2, <2>3 DEF HandlerInv
  <2> QED BY <2>1, <2>3, <2>4, <2>5 DEF HandlerInv
<1>3. ASSUME NEW h \in handlers, TakeSlot(h) PROVE HandlerInv'
  <2>1. PICK p : Replace(h, [h EXCEPT !.at = p])
    BY <1>3 DEF TakeSlot, Goto
  <2>2. /\ [h EXCEPT !.at = p].watch = h.watch
        /\ [h EXCEPT !.at = p].block = h.block
    BY <1>a DEF Handler
  <2>3. UNCHANGED emitted /\ asleep' = asleep \ {<<h.watch, h.block>>}
    BY <1>3 DEF TakeSlot, GiveSlot, watchVars
  <2> QED BY <2>1, <2>2, <2>3, ReplaceKeeps
<1>4. ASSUME NEW h \in handlers, AwaitSlot(h) PROVE HandlerInv'
  <2>1. /\ UNCHANGED <<handlers, emitted>> /\ h.at \in {"slot", "receiptSlot"}
        /\ asleep' = asleep \cup {<<h.watch, h.block>>}
    BY <1>4 DEF AwaitSlot, Sleep, watchVars, handlerVars
  <2> QED BY <2>1 DEF HandlerInv
<1>5. ASSUME NEW h \in handlers, GetBlock(h) PROVE HandlerInv'
  <2>1. /\ Replace(h, [h EXCEPT !.at = "loop"]) /\ h.at = "block"
        /\ UNCHANGED <<emitted, asleep>>
    BY <1>5 DEF GetBlock, Goto, watchVars, limiterVars
  <2>2. /\ [h EXCEPT !.at = "loop"].watch = h.watch
        /\ [h EXCEPT !.at = "loop"].block = h.block
    BY <1>a DEF Handler
  <2> QED BY <2>1, <2>2, ReplaceKeeps
<1>6. ASSUME NEW h \in handlers, NEW x \in Txs, ProcessTx(h, x)
      PROVE  HandlerInv'
  <2>1. PICK g \in {Seen(h, x), [h EXCEPT !.tx = x, !.at = "add"],
                    [h EXCEPT !.tx = x, !.at = "receiptSlot"]} : Replace(h, g)
    BY <1>6 DEF ProcessTx
  <2>2. g.watch = h.watch /\ g.block = h.block
    BY <1>a DEF Handler, Seen
  <2>3. h.at = "loop" /\ UNCHANGED <<emitted, asleep>>
    BY <1>6 DEF ProcessTx, watchVars, limiterVars
  <2> QED BY <2>1, <2>2, <2>3, ReplaceKeeps
<1>7. ASSUME NEW h \in handlers, AddProcessed(h) PROVE HandlerInv'
  <2>1. /\ Replace(h, Seen(h, h.tx)) /\ h.at \in {"add", "receipt"}
        /\ UNCHANGED <<emitted, asleep>>
    BY <1>7 DEF AddProcessed, watchVars, limiterVars
  <2>2. Seen(h, h.tx).watch = h.watch /\ Seen(h, h.tx).block = h.block
    BY <1>a DEF Handler, Seen
  <2> QED BY <2>1, <2>2, ReplaceKeeps
<1>8. ASSUME NEW h \in handlers, ProcessThrows(h) \/ ProcessEnds(h)
      PROVE  HandlerInv'
  <2>1. /\ handlers' = handlers \ {h} /\ h.at \in {"block", "receipt", "loop"}
        /\ UNCHANGED <<emitted, asleep>>
    BY <1>8 DEF ProcessThrows, ProcessEnds, watchVars, limiterVars
  <2>2. ASSUME NEW k \in Starts, NEW b \in Heights, <<k, b>> \in asleep'
        PROVE  \E f \in handlers' : /\ f.watch = k /\ f.block = b
                                    /\ f.at \in {"slot", "receiptSlot"}
    <3>1. PICK f \in handlers : /\ f.watch = k /\ f.block = b
                                /\ f.at \in {"slot", "receiptSlot"}
      BY <2>1, <2>2 DEF HandlerInv
    <3> QED BY <2>1, <3>1
  <2> QED BY <2>1, <2>2 DEF HandlerInv
<1>9. ASSUME \/ NewBlock \/ Time
             \/ \E s \in Starts : Start(s)
             \/ \E p \in Stops : Stop(p)
             \/ \E w \in Wallets : AddWallet(w)
             \/ UNCHANGED vars
      PROVE  UNCHANGED <<handlers, emitted, asleep>>
  BY <1>9 DEF NewBlock, Time, Tick, Start, Stop, AddWallet, vars, watchVars,
              handlerVars, limiterVars
<1> QED BY <1>1, <1>2, <1>3, <1>4, <1>5, <1>6, <1>7, <1>8, <1>9
        DEF Next, HandlerSteps

-----------------------------------------------------------------------------
(* What was notified.                                                       *)

LEMMA ToldInvStep == MonitorTypeOK /\ ToldInv /\ [Next]_vars => ToldInv'
<1> SUFFICES ASSUME MonitorTypeOK, ToldInv, [Next]_vars PROVE ToldInv'
  OBVIOUS
<1>a. /\ \A h \in handlers : h \in Handler
      /\ \A i \in 1..Len(processed) : processed[i] \in Txs
      /\ Len(processed) \in Nat
  BY DEF MonitorTypeOK
<1>b. \A x \in Txs : notified[x] \in Nat /\ notified'[x] \in Nat
  BY MonitorTypeOKStep DEF MonitorTypeOK
<1>c. \A x \in Txs : Told(x) => Told(x)'
  <2>1. ASSUME NEW h \in handlers, NEW y \in Txs, ProcessTx(h, y), NEW x \in Txs
        PROVE  notified[x] <= notified'[x]
    <3>1. \/ notified' = notified
          \/ notified' = [notified EXCEPT ![y] = @ + 1]
      BY <2>1 DEF ProcessTx
    <3>2. notified'[x] = notified[x] \/ notified'[x] = notified[x] + 1
      BY <3>1 DEF MonitorTypeOK
    <3> QED BY <1>b, <3>2
  <2>2. ASSUME ~\E h \in handlers : \E y \in Txs : ProcessTx(h, y)
        PROVE  UNCHANGED notified
    BY <2>2 DEF Next, NewBlock, Time, Start, Emit, Stop, AddWallet, HandlerSteps,
           TakeSlot, AwaitSlot, GetBlock, AddProcessed, ProcessThrows,
           ProcessEnds, vars, handlerVars
  <2>3. \A x \in Txs : notified[x] <= notified'[x]
    BY <1>b, <2>1, <2>2
  <2> QED BY <1>b, <2>3 DEF Told
<1>d. Known \subseteq wallets'
  BY DEF ToldInv, Next, NewBlock, Time, Start, Emit, Stop, AddWallet,
     HandlerSteps, TakeSlot, AwaitSlot, GetBlock, ProcessTx, AddProcessed,
     ProcessThrows, ProcessEnds, vars
<1>e. /\ \A x \in Txs : HasProcessed(x) => Told(x)'
      /\ \A h \in handlers :
           /\ \A x \in h.seen : Told(x)'
           /\ h.at \in {"receiptSlot", "receipt", "add"} => Told(h.tx)'
      /\ \A x \in Txs : BlockOf[x] \in swept => Told(x)'
  <2>2. ASSUME NEW h \in handlers
        PROVE  /\ \A x \in h.seen : Told(x)'
               /\ h.at \in {"receiptSlot", "receipt", "add"} => Told(h.tx)'
    <3>1. h.seen \subseteq Txs
      BY <1>a DEF Handler
    <3> QED BY <1>c, <3>1 DEF ToldInv, MonitorTypeOK
  <2> QED BY <1>c, <2>2 DEF ToldInv
<1>1. ASSUME UNCHANGED <<processed, handlers, swept>> PROVE ToldInv'
  <2>1. \A x \in Txs : HasProcessed(x)' => HasProcessed(x)
    BY <1>1 DEF HasProcessed
  <2> QED BY <1>1, <1>d, <1>e, <2>1 DEF ToldInv
\* A handler moves on, with what it has seen told.
<1>2. ASSUME NEW h \in handlers, NEW g, handlers' = (handlers \ {h}) \cup {g},
             \A x \in g.seen : Told(x)',
             g.at \in {"receiptSlot", "receipt", "add"} => Told(g.tx)',
             UNCHANGED <<processed, swept>>
      PROVE  ToldInv'
  <2>1. \A x \in Txs : HasProcessed(x)' => HasProcessed(x)
    BY <1>2 DEF HasProcessed
  <2> QED BY <1>2, <1>d, <1>e, <2>1 DEF ToldInv
<1>3. ASSUME NEW h \in handlers, TakeSlot(h) \/ GetBlock(h) PROVE ToldInv'
  <2>1. PICK p \in {"block", "loop", "receipt"} :
          /\ handlers' = (handlers \ {h}) \cup {[h EXCEPT !.at = p]}
          /\ p = "receipt" => h.at = "receiptSlot"
          /\ UNCHANGED <<processed, swept>>
    BY <1>3 DEF TakeSlot, GetBlock, Goto, Replace
  <2> DEFINE g == [h EXCEPT !.at = p]
  <2>2. g.at = p /\ g.tx = h.tx /\ g.seen = h.seen
    BY <1>a DEF Handler
  <2>3. handlers' = (handlers \ {h}) \cup {g}
    BY <2>1
  <2> HIDE DEF g
  <2>4. \A x \in g.seen : Told(x)'
    BY <1>e, <2>2
  <2>5. g.at \in {"receiptSlot", "receipt", "add"} => Told(g.tx)'
    BY <1>e, <2>1, <2>2
  <2> QED BY <1>2, <2>1, <2>3, <2>4, <2>5
<1>4. ASSUME NEW h \in handlers, NEW x \in Txs, ProcessTx(h, x) PROVE ToldInv'
  <2>0. UNCHANGED <<processed, swept>>
    BY <1>4 DEF ProcessTx
  <2>1. CASE HasProcessed(x)
    <3>1. handlers' = (handlers \ {h}) \cup {Seen(h, x)}
      BY <1>4, <2>1 DEF ProcessTx, Replace
    <3>2. Seen(h, x).seen = h.seen \cup {x} /\ Seen(h, x).at = "loop"
      BY <1>a DEF Handler, Seen
    <3> QED BY <1>2, <1>e, <2>0, <2>1, <3>1, <3>2
  <2>2. CASE ~HasProcessed(x) /\ HasWallet(ToOf[x])
    <3> DEFINE g == [h EXCEPT !.tx = x, !.at = "add"]
    <3>1. /\ handlers' = (handlers \ {h}) \cup {g}
          /\ x \in Paying => notified' = [notified EXCEPT ![x] = @ + 1]
      BY <1>4, <2>2 DEF ProcessTx, Replace
    <3>2. g.seen = h.seen /\ g.tx = x
      BY <1>a DEF Handler
    <3>3. Told(x)'
      <4>1. x \in Paying => notified'[x] = notified[x] + 1
        BY <3>1 DEF MonitorTypeOK
      <4> QED BY <1>b, <4>1 DEF Told
    <3> HIDE DEF g
    <3> QED BY <1>2, <1>e, <2>0, <3>1, <3>2, <3>3
  <2>3. CASE ~HasProcessed(x) /\ ~HasWallet(ToOf[x])
    <3> DEFINE g == [h EXCEPT !.tx = x, !.at = "receiptSlot"]
    <3>1. handlers' = (handlers \ {h}) \cup {g}
      BY <1>4, <2>3 DEF ProcessTx, Replace
    <3>2. g.seen = h.seen /\ g.tx = x
      BY <1>a DEF Handler
    <3>3. Told(x)'
      BY <2>3 DEF Told, ToldInv, HasWallet
    <3> HIDE DEF g
    <3> QED BY <1>2, <1>e, <2>0, <3>1, <3>2, <3>3
  <2> QED BY <2>1, <2>2, <2>3
<1>5. ASSUME NEW h \in handlers, AddProcessed(h) PROVE ToldInv'
  <2>1. /\ handlers' = (handlers \ {h}) \cup {Seen(h, h.tx)}
        /\ processed' = IF HasProcessed(h.tx) THEN processed
                        ELSE Append(processed, h.tx)
        /\ h.at \in {"add", "receipt"} /\ UNCHANGED swept
    BY <1>5 DEF AddProcessed, Replace
  <2>2. h.tx \in Txs /\ Told(h.tx)'
    BY <1>e, <2>1 DEF MonitorTypeOK
  <2>3. Seen(h, h.tx).seen = h.seen \cup {h.tx} /\ Seen(h, h.tx).at = "loop"
    BY <1>a DEF Handler, Seen
  <2>4. ASSUME NEW y \in Txs, HasProcessed(y)' PROVE HasProcessed(y) \/ y = h.tx
    <3>1. CASE processed' = processed
      BY <2>4, <3>1 DEF HasProcessed
    <3>2. CASE processed' = Append(processed, h.tx)
      <4>1. PICK i \in 1..Len(processed') : processed'[i] = y
        BY <2>4 DEF HasProcessed
      <4>2. processed \in Seq(Txs)
        BY DEF MonitorTypeOK
      <4>3. CASE i \in 1..Len(processed)
        BY <2>2, <3>2, <4>1, <4>2, <4>3 DEF HasProcessed
      <4>4. CASE i = Len(processed) + 1
        BY <2>2, <3>2, <4>1, <4>2, <4>4
      <4>5. i \in 1..Len(processed) \/ i = Len(processed) + 1
        BY <1>a, <2>2, <3>2, <4>2
      <4> QED BY <4>3, <4>4, <4>5
    <3> QED BY <2>1, <3>1, <3>2
  <2>5. \A y \in Txs : HasProcessed(y)' => Told(y)'
    BY <1>e, <2>2, <2>4
  <2>6. \A y \in Seen(h, h.tx).seen : Told(y)'
    BY <1>e, <2>2, <2>3
  <2> QED BY <1>d, <1>e, <2>1, <2>3, <2>5, <2>6 DEF ToldInv
<1>6. ASSUME NEW h \in handlers, ProcessThrows(h) PROVE ToldInv'
  <2>1. /\ handlers' \subseteq handlers /\ UNCHANGED <<processed, swept>>
    BY <1>6 DEF ProcessThrows
  <2>2. \A x \in Txs : HasProcessed(x)' => HasProcessed(x)
    BY <2>1 DEF HasProcessed
  <2> QED BY <1>d, <1>e, <2>1, <2>2 DEF ToldInv
<1>7. ASSUME NEW h \in handlers, ProcessEnds(h) PROVE ToldInv'
  <2>1. /\ handlers' \subseteq handlers /\ swept' = swept \cup {h.block}
        /\ TxsIn(h.block) \subseteq h.seen
    BY <1>7 DEF ProcessEnds
  <2>2. PICK m \in 1..(Len(processed) + 1) :
          processed' = SubSeq(processed, m, Len(processed))
    <3>1. 1 \in 1..(Len(processed) + 1)
      BY <1>a
    <3>2. Len(processed) > Keep =>
            Len(processed) - Keep + 1 \in 1..(Len(processed) + 1)
      BY <1>a
    <3> QED BY <1>7, <3>1, <3>2 DEF ProcessEnds
  <2>3. ASSUME NEW x \in Txs, HasProcessed(x)' PROVE HasProcessed(x)
    <3>1. PICK i \in 1..Len(processed') : processed'[i] = x
      BY <2>3 DEF HasProcessed
    <3>2. processed \in Seq(Txs) /\ m \in Nat /\ m >= 1 /\ i \in Nat /\ i >= 1
      BY <1>a, <2>2, <3>1 DEF MonitorTypeOK
    <3>3. /\ Len(processed') = Len(processed) - m + 1
          /\ processed'[i] = processed[m + i - 1]
      BY <1>a, <2>2, <3>1, <3>2
    <3>4. m + i - 1 \in 1..Len(processed)
      BY <1>a, <3>1, <3>2, <3>3
    <3> QED BY <3>1, <3>3, <3>4 DEF HasProcessed
  <2>4. \A x \in Txs : BlockOf[x] = h.block => Told(x)'
    BY <1>e, <2>1 DEF TxsIn
  <2> QED BY <1>d, <1>e, <2>1, <2>3, <2>4 DEF ToldInv
<1>8. ASSUME \/ NewBlock \/ Time
             \/ \E s \in Starts : Start(s)
             \/ \E p \in Stops : Stop(p)
             \/ \E w \in Wallets : AddWallet(w)
             \/ \E h \in handlers : AwaitSlot(h)
             \/ UNCHANGED vars
      PROVE  UNCHANGED <<processed, handlers, swept>>
  BY <1>8 DEF NewBlock, Time, Start, Stop, AddWallet, AwaitSlot, vars, handlerVars
<1>9. ASSUME NEW s \in Starts, Emit(s) PROVE ToldInv'
  <2> DEFINE g == [watch |-> s, block |-> height, seen |-> {}, tx |-> NoTx,
                   at |-> "slot"]
  <2>1. handlers' = handlers \cup {g} /\ UNCHANGED <<processed, swept>>
    BY <1>9 DEF Emit
  <2>2. g.seen = {} /\ g.at = "slot"
    OBVIOUS
  <2> HIDE DEF g
  <2>3. \A x \in Txs : HasProcessed(x)' => HasProcessed(x)
    BY <2>1 DEF HasProcessed
  <2> QED BY <1>d, <1>e, <2>1, <2>2, <2>3 DEF ToldInv
<1> QED BY <1>1, <1>3, <1>4, <1>5, <1>6, <1>7, <1>8, <1>9
        DEF Next, HandlerSteps

-----------------------------------------------------------------------------
(* How often it was notified.                                               *)

\* What is forgotten when the newest Keep transactions are kept is passed, if
\* the block it is in holds no more than Keep.
LEMMA ForgottenIsPassed ==
  ASSUME MonitorTypeOK, InBlockOrder, NEW i \in 1..Len(processed),
         Len(processed) - i >= Keep, Fits(BlockOf[processed[i]])
  PROVE  Passed(processed[i])
<1> SUFFICES ASSUME ~Passed(processed[i]) PROVE FALSE
  OBVIOUS
<1> DEFINE n == Len(processed)
           b == BlockOf[processed[i]]
           f == [j \in i..n |-> processed[j]]
<1>1. n \in Nat /\ \A j \in 1..n : processed[j] \in Txs
  <2>1. processed \in Seq(Txs)
    BY DEF MonitorTypeOK
  <2> QED BY <2>1
<1>2. \A k \in Starts : emitted[k] \in Int
  <2>1. \A k \in Starts : emitted[k] \in Heights \cup {-1}
    BY DEF MonitorTypeOK
  <2> QED BY <2>1
<1>3. \A x \in Txs : BlockOf[x] \in Int
  OBVIOUS
<1>4. ASSUME NEW j \in i..n PROVE processed[j] \in TxsIn(b)
  <2>1. j \in 1..n /\ processed[j] \in Txs /\ processed[i] \in Txs
    BY <1>1
  <2>2. BlockOf[processed[i]] <= BlockOf[processed[j]]
    <3>1. CASE j = i
      BY <1>3, <2>1, <3>1
    <3>2. CASE i < j
      BY <2>1, <3>2 DEF InBlockOrder
    <3> QED BY <1>1, <3>1, <3>2
  <2>3. PICK k \in Starts : BlockOf[processed[j]] <= emitted[k]
    BY <2>1 DEF InBlockOrder
  <2>4. ~(BlockOf[processed[i]] < emitted[k])
    BY DEF Passed
  <2>5. BlockOf[processed[j]] = b
    BY <1>2, <1>3, <2>1, <2>2, <2>3, <2>4
  <2> QED BY <2>1, <2>5 DEF TxsIn
<1>5. f \in Injection(i..n, TxsIn(b))
  <2>1. \A j, k \in i..n : processed[j] = processed[k] => j = k
    <3>1. \A j, k \in i..n : j \in 1..n /\ k \in 1..n /\ (j = k \/ j < k \/ k < j)
      BY <1>1
    <3> QED BY <3>1 DEF InBlockOrder
  <2>2. f \in [i..n -> TxsIn(b)]
    BY <1>4
  <2> QED BY <2>1, <2>2 DEF Injection, IsInjective
<1>6. IsFiniteSet(TxsIn(b)) /\ Cardinality(TxsIn(b)) <= Keep
  <2>1. TxsIn(b) \subseteq Txs /\ b \in Heights
    BY <1>1 DEF TxsIn
  <2> QED BY <2>1, FS_Subset DEF Fits
<1>7. Cardinality(i..n) = n - i + 1
  BY <1>1, FS_Interval
<1>8. Cardinality(i..n) <= Cardinality(TxsIn(b))
  BY <1>5, <1>6, FS_Injection
<1>9. Cardinality(TxsIn(b)) \in Nat
  BY <1>6, FS_CardinalityType
<1> HIDE DEF f, b
<1> QED BY <1>1, <1>6, <1>7, <1>8, <1>9

\* A handler that is not at "add" moves on, and nothing is notified.
LEMMA OnceInvMove ==
  ASSUME OneHandler, InBlockOrder, OnceTold, NEW h \in handlers, NEW g,
         h.at # "add", handlers' = (handlers \ {h}) \cup {g}, g.block = h.block,
         g.at \in {"receiptSlot", "receipt", "add"} => g.tx \in TxsIn(g.block),
         UNCHANGED <<height, emitted, processed, notified>>
  PROVE  OneHandler' /\ InBlockOrder' /\ OnceTold'
<1>1. handlers' = {g}
  BY DEF OneHandler
<1>2. OneHandler'
  BY <1>1 DEF OneHandler, TxsIn
<1>3. \A x \in Txs : (Passed(x) => Passed(x)') /\ (HasProcessed(x) => HasProcessed(x)')
  BY DEF Passed, HasProcessed
<1>4. \A f \in handlers : f.at # "add"
  BY DEF OneHandler
<1> QED BY <1>2, <1>3, <1>4 DEF InBlockOrder, OnceTold

LEMMA OnceInvStep ==
  MonitorTypeOK /\ HandlerInv /\ OnceInv /\ [Next]_vars => OnceInv'
<1> SUFFICES ASSUME MonitorTypeOK, HandlerInv, OnceInv, [Next]_vars, ~lapped'
             PROVE  OneHandler' /\ InBlockOrder' /\ OnceTold'
  BY DEF OnceInv
<1>a. OneHandler /\ InBlockOrder /\ OnceTold
  <2>1. ~lapped
    BY DEF Next, NewBlock, Time, Start, Emit, Stop, AddWallet, HandlerSteps,
           TakeSlot, AwaitSlot, GetBlock, ProcessTx, AddProcessed,
           ProcessThrows, ProcessEnds, vars, handlerVars
  <2> QED BY <2>1 DEF OnceInv
<1>b. /\ \A h \in handlers : h \in Handler
      /\ \A i \in 1..Len(processed) : processed[i] \in Txs
      /\ Len(processed) \in Nat /\ processed \in Seq(Txs)
      /\ height \in Nat
      /\ notified \in [Txs -> Nat]
      /\ emitted \in [Starts -> Heights \cup {-1}]
  BY DEF MonitorTypeOK
<1>c. \A k \in Starts : emitted[k] \in Int
  <2>1. \A k \in Starts : emitted[k] \in Heights \cup {-1}
    BY <1>b
  <2> QED BY <2>1
<1>d. \A x \in Txs : BlockOf[x] \in Nat
  OBVIOUS
<1>1. ASSUME UNCHANGED <<handlers, processed, emitted, notified>>,
             height' \in Nat, height <= height'
      PROVE  OneHandler' /\ InBlockOrder' /\ OnceTold'
  <2>1. \A k \in Starts : emitted'[k] <= height'
    BY <1>1, <1>a, <1>b, <1>c DEF OneHandler
  <2>2. OneHandler'
    BY <1>1, <1>a, <2>1 DEF OneHandler, TxsIn
  <2>3. \A x \in Txs : (Passed(x) => Passed(x)') /\ (HasProcessed(x) => HasProcessed(x)')
    BY <1>1 DEF Passed, HasProcessed
  <2> QED BY <1>1, <1>a, <2>2, <2>3 DEF InBlockOrder, OnceTold
<1>2. ASSUME \/ NewBlock \/ Time
             \/ \E s \in Starts : Start(s)
             \/ \E p \in Stops : Stop(p)
             \/ \E w \in Wallets : AddWallet(w)
             \/ \E h \in handlers : AwaitSlot(h)
             \/ UNCHANGED vars
      PROVE  /\ UNCHANGED <<handlers, processed, emitted, notified>>
             /\ height' \in Nat /\ height <= height'
  <2>1. UNCHANGED <<handlers, processed, emitted, notified>>
    BY <1>2 DEF NewBlock, Time, Start, Stop, AddWallet, AwaitSlot, vars,
                watchVars, handlerVars
  <2>2. height' = height \/ height' = height + 1
    BY <1>2 DEF NewBlock, Time, Start, Stop, AddWallet, AwaitSlot, vars
  <2> QED BY <1>b, <2>1, <2>2
<1>3. ASSUME NEW s \in Starts, Emit(s)
      PROVE  OneHandler' /\ InBlockOrder' /\ OnceTold'
  <2> DEFINE g == [watch |-> s, block |-> height, seen |-> {}, tx |-> NoTx,
                   at |-> "slot"]
  <2>1. /\ handlers' = handlers \cup {g} /\ handlers = {}
        /\ emitted' = [emitted EXCEPT ![s] = height] /\ emitted[s] < height
        /\ UNCHANGED <<height, processed, notified>>
    BY <1>3 DEF Emit
  <2>2. g.block = height /\ g.at = "slot"
    OBVIOUS
  <2> HIDE DEF g
  <2>3. handlers' = {g}
    BY <2>1
  <2>4. \A k \in Starts : emitted[k] <= emitted'[k] /\ emitted'[k] <= height
                          /\ emitted'[k] \in Int
    BY <1>a, <1>b, <1>c, <2>1 DEF OneHandler
  <2>5. OneHandler'
    BY <2>1, <2>2, <2>3, <2>4 DEF OneHandler
  <2>6. InBlockOrder'
    <3>1. ASSUME NEW i \in 1..Len(processed)
          PROVE  \E k \in Starts : BlockOf[processed[i]] <= emitted'[k]
      <4>1. PICK k \in Starts : BlockOf[processed[i]] <= emitted[k]
        BY <1>a DEF InBlockOrder
      <4>2. BlockOf[processed[i]] \in Nat
        BY <1>b, <1>d
      <4>3. BlockOf[processed[i]] <= emitted'[k]
        BY <1>c, <2>4, <4>1, <4>2
      <4> QED BY <4>3
    <3> QED BY <1>a, <2>1, <3>1 DEF InBlockOrder
  <2>7. OnceTold'
    <3>1. \A x \in Txs : Passed(x) => Passed(x)'
      <4> SUFFICES ASSUME NEW x \in Txs, NEW k \in Starts, BlockOf[x] < emitted[k]
                   PROVE  BlockOf[x] < emitted'[k]
        BY DEF Passed
      <4> QED BY <1>c, <1>d, <2>4
    <3>2. \A x \in Txs : HasProcessed(x) => HasProcessed(x)'
      BY <2>1 DEF HasProcessed
    <3> QED BY <1>a, <2>1, <3>1, <3>2 DEF OnceTold
  <2> QED BY <2>5, <2>6, <2>7
<1>4. ASSUME NEW h \in handlers, TakeSlot(h) \/ GetBlock(h)
      PROVE  OneHandler' /\ InBlockOrder' /\ OnceTold'
  <2>1. PICK p \in {"block", "loop", "receipt"} :
          /\ handlers' = (handlers \ {h}) \cup {[h EXCEPT !.at = p]}
          /\ p = "receipt" => h.at = "receiptSlot"
          /\ h.at # "add"
          /\ UNCHANGED <<height, emitted, processed, notified>>
    BY <1>4 DEF TakeSlot, GetBlock, Goto, Replace, watchVars
  <2> DEFINE g == [h EXCEPT !.at = p]
  <2>2. g.at = p /\ g.tx = h.tx /\ g.block = h.block
    BY <1>b DEF Handler
  <2>3. handlers' = (handlers \ {h}) \cup {g}
    BY <2>1
  <2> HIDE DEF g
  <2>4. g.at \in {"receiptSlot", "receipt", "add"} => g.tx \in TxsIn(g.block)
    BY <1>a, <2>1, <2>2 DEF OneHandler
  <2> QED BY <1>a, <2>1, <2>2, <2>3, <2>4, OnceInvMove
<1>5. ASSUME NEW h \in handlers, NEW x \in Txs, ProcessTx(h, x)
      PROVE  OneHandler' /\ InBlockOrder' /\ OnceTold'
  <2>1. /\ x \in TxsIn(h.block) /\ h.at = "loop"
        /\ UNCHANGED <<height, emitted, processed>>
    BY <1>5 DEF ProcessTx, watchVars
  <2>2. PICK g \in {Seen(h, x), [h EXCEPT !.tx = x, !.at = "add"],
                    [h EXCEPT !.tx = x, !.at = "receiptSlot"]} :
          handlers' = (handlers \ {h}) \cup {g}
    BY <1>5 DEF ProcessTx, Replace
  <2>3. g.block = h.block /\ (g.at = "loop" \/ g.tx = x)
    BY <1>b DEF Handler, Seen
  <2>4. CASE UNCHANGED notified
    <3>1. g.at \in {"receiptSlot", "receipt", "add"} => g.tx \in TxsIn(g.block)
      BY <2>1, <2>3
    <3> QED BY <1>a, <2>1, <2>2, <2>3, <2>4, <3>1, OnceInvMove
  <2>5. CASE /\ ~HasProcessed(x) /\ notified' = [notified EXCEPT ![x] = @ + 1]
             /\ handlers' = (handlers \ {h}) \cup {[h EXCEPT !.tx = x, !.at = "add"]}
    <3> DEFINE a == [h EXCEPT !.tx = x, !.at = "add"]
    <3>1. a.block = h.block /\ a.tx = x /\ a.at = "add"
      BY <1>b DEF Handler
    <3>2. handlers' = {a}
      BY <1>a, <2>5 DEF OneHandler
    <3> HIDE DEF a
    <3>3. OneHandler'
      BY <1>a, <2>1, <3>1, <3>2 DEF OneHandler
    <3>4. InBlockOrder'
      BY <1>a, <2>1 DEF InBlockOrder
    <3>5. ASSUME Fits(BlockOf[x]) PROVE notified[x] = 0
      <4>1. ~Passed(x)
        <5>1. BlockOf[x] = h.block
          BY <2>1 DEF TxsIn
        <5>2. \A k \in Starts : emitted[k] <= BlockOf[x]
          BY <1>a, <5>1 DEF OneHandler
        <5> QED BY <1>c, <1>d, <5>2 DEF Passed
      <4>2. \A f \in handlers : f.at # "add"
        BY <1>a, <2>1 DEF OneHandler
      <4>3. ~(notified[x] >= 1)
        BY <1>a, <2>5, <3>5, <4>1, <4>2 DEF OnceTold
      <4> QED BY <1>b, <4>3
    <3>6. ASSUME NEW y \in Txs, Fits(BlockOf[y])
          PROVE  /\ notified'[y] <= 1
                 /\ notified'[y] >= 1 =>
                      \/ Passed(y)' \/ HasProcessed(y)'
                      \/ \E f \in handlers' : f.at = "add" /\ f.tx = y
      <4>1. CASE y = x
        <5>1. notified'[y] = 1
          BY <1>b, <2>5, <3>5, <3>6, <4>1
        <5> QED BY <3>1, <3>2, <4>1, <5>1
      <4>2. CASE y # x
        <5>1. notified'[y] = notified[y]
          BY <1>b, <2>5, <4>2
        <5>2. \A f \in handlers : f.at # "add"
          BY <1>a, <2>1 DEF OneHandler
        <5>3. (Passed(y) => Passed(y)') /\ (HasProcessed(y) => HasProcessed(y)')
          BY <2>1 DEF Passed, HasProcessed
        <5> QED BY <1>a, <3>6, <5>1, <5>2, <5>3 DEF OnceTold
      <4> QED BY <4>1, <4>2
    <3> QED BY <3>3, <3>4, <3>6 DEF OnceTold
  <2> QED BY <1>5, <2>4, <2>5 DEF ProcessTx, Replace
<1>6. ASSUME NEW h \in handlers, AddProcessed(h)
      PROVE  OneHandler' /\ InBlockOrder' /\ OnceTold'
  <2> DEFINE g == Seen(h, h.tx)
  <2>1. /\ handlers' = (handlers \ {h}) \cup {g}
        /\ processed' = IF HasProcessed(h.tx) THEN processed
                        ELSE Append(processed, h.tx)
        /\ h.at \in {"add", "receipt"}
        /\ UNCHANGED <<height, emitted, notified>>
    BY <1>6 DEF AddProcessed, Replace, watchVars
  <2>2. g.at = "loop" /\ g.block = h.block
    BY <1>b DEF Handler, Seen
  <2>3. h.tx \in Txs /\ BlockOf[h.tx] = h.block
    BY <1>a, <2>1 DEF OneHandler, TxsIn
  <2> HIDE DEF g
  <2>4. handlers' = {g}
    BY <1>a, <2>1 DEF OneHandler
  <2>5. OneHandler'
    BY <1>a, <2>1, <2>2, <2>4 DEF OneHandler
  <2>6. \A x \in Txs : Passed(x) => Passed(x)'
    BY <2>1 DEF Passed
  <2>7. CASE HasProcessed(h.tx)
    <3>1. processed' = processed
      BY <2>1, <2>7
    <3>2. InBlockOrder'
      BY <1>a, <2>1, <3>1 DEF InBlockOrder
    <3>3. \A x \in Txs : HasProcessed(x) => HasProcessed(x)'
      BY <3>1 DEF HasProcessed
    <3>4. \A f \in handlers : f.tx = h.tx
      BY <1>a DEF OneHandler
    <3>5. OnceTold'
      BY <1>a, <2>1, <2>6, <2>7, <3>3, <3>4 DEF OnceTold
    <3> QED BY <2>5, <3>2, <3>5
  <2>8. CASE ~HasProcessed(h.tx)
    <3>1. /\ Len(processed') = Len(processed) + 1
          /\ \A i \in 1..Len(processed) : processed'[i] = processed[i]
          /\ processed'[Len(processed) + 1] = h.tx
      BY <1>b, <2>1, <2>3, <2>8
    <3>2. \A i \in 1..Len(processed') : i \in 1..Len(processed) \/ i = Len(processed) + 1
      BY <1>b, <3>1
    <3>3. h.block <= emitted[h.watch] /\ h.watch \in Starts
      BY <1>b DEF HandlerInv, Handler
    <3>4. ASSUME NEW i \in 1..Len(processed)
          PROVE  processed[i] # h.tx /\ BlockOf[processed[i]] <= BlockOf[h.tx]
      <4>1. processed[i] # h.tx
        BY <2>8 DEF HasProcessed
      <4>2. PICK k \in Starts : BlockOf[processed[i]] <= emitted[k]
        BY <1>a DEF InBlockOrder
      <4>3. emitted[k] <= h.block
        BY <1>a DEF OneHandler
      <4>4. BlockOf[processed[i]] \in Nat /\ emitted[k] \in Int /\ h.block \in Nat
        BY <1>b, <1>c, <1>d, <2>3
      <4> QED BY <2>3, <4>1, <4>2, <4>3, <4>4
    <3>5. ASSUME NEW i \in 1..Len(processed'), NEW j \in 1..Len(processed'), i < j
          PROVE  /\ processed'[i] # processed'[j]
                 /\ BlockOf[processed'[i]] <= BlockOf[processed'[j]]
      <4>1. i \in 1..Len(processed)
        BY <1>b, <3>1, <3>5
      <4>2. CASE j \in 1..Len(processed)
        BY <1>a, <3>1, <3>5, <4>1, <4>2 DEF InBlockOrder
      <4>3. CASE j = Len(processed) + 1
        BY <3>1, <3>4, <4>1, <4>3
      <4> QED BY <3>2, <4>2, <4>3
    <3>6. ASSUME NEW i \in 1..Len(processed')
          PROVE  \E k \in Starts : BlockOf[processed'[i]] <= emitted'[k]
      <4>1. CASE i \in 1..Len(processed)
        BY <1>a, <2>1, <3>1, <4>1 DEF InBlockOrder
      <4>2. CASE i = Len(processed) + 1
        BY <2>1, <2>3, <3>1, <3>3, <4>2
      <4> QED BY <3>2, <4>1, <4>2
    <3>7. HasProcessed(h.tx)' /\ \A x \in Txs : HasProcessed(x) => HasProcessed(x)'
      <4>1. Len(processed) + 1 \in 1..Len(processed')
        BY <1>b, <3>1
      <4>2. \A i \in 1..Len(processed) : i \in 1..Len(processed')
        BY <1>b, <3>1
      <4>3. \A y : HasProcessed(y) => HasProcessed(y)'
        BY <3>1, <4>2 DEF HasProcessed
      <4>4. \E i \in 1..Len(processed') : processed'[i] = h.tx
        BY <3>1, <4>1
      <4>5. h.tx' = h.tx
        OBVIOUS
      <4> QED BY <4>3, <4>4 DEF HasProcessed
    <3>8. \A f \in handlers : f.tx = h.tx
      BY <1>a DEF OneHandler
    <3>9. OnceTold'
      BY <1>a, <2>1, <2>6, <3>7, <3>8 DEF OnceTold
    <3> QED BY <2>5, <3>5, <3>6, <3>9 DEF InBlockOrder
  <2> QED BY <2>7, <2>8
<1>7. ASSUME NEW h \in handlers, ProcessThrows(h) \/ ProcessEnds(h)
      PROVE  /\ OneHandler' /\ handlers' \subseteq handlers
             /\ \A f \in handlers : f.at # "add"
             /\ UNCHANGED <<height, emitted, notified>>
             /\ \A x \in Txs : Passed(x) => Passed(x)'
  <2>1. /\ handlers' = handlers \ {h} /\ h.at # "add"
        /\ UNCHANGED <<height, emitted, notified>>
    BY <1>7 DEF ProcessThrows, ProcessEnds, watchVars
  <2>2. OneHandler'
    BY <1>a, <2>1 DEF OneHandler, TxsIn
  <2> QED BY <1>a, <2>1, <2>2 DEF OneHandler, Passed
<1>8. ASSUME NEW h \in handlers, ProcessThrows(h)
      PROVE  OneHandler' /\ InBlockOrder' /\ OnceTold'
  <2>1. UNCHANGED <<processed, emitted>>
    BY <1>8 DEF ProcessThrows, watchVars
  <2>2. InBlockOrder'
    BY <1>a, <2>1 DEF InBlockOrder
  <2>3. \A x \in Txs : HasProcessed(x) => HasProcessed(x)'
    BY <2>1 DEF HasProcessed
  <2> QED BY <1>7, <1>8, <1>a, <2>2, <2>3 DEF OnceTold
<1>9. ASSUME NEW h \in handlers, ProcessEnds(h)
      PROVE  OneHandler' /\ InBlockOrder' /\ OnceTold'
  <2> DEFINE n == Len(processed)
  <2>1. PICK m \in 1..(n + 1) :
          /\ processed' = SubSeq(processed, m, n)
          /\ \A i \in 1..n : i < m => n - i >= Keep
    <3>1. CASE n > Keep
      <4>1. n - Keep + 1 \in 1..(n + 1)
        BY <1>b, <3>1
      <4>2. \A i \in 1..n : i < n - Keep + 1 => n - i >= Keep
        BY <1>b
      <4> QED BY <1>9, <3>1, <4>1, <4>2 DEF ProcessEnds
    <3>2. CASE ~(n > Keep)
      <4>1. 1 \in 1..(n + 1) /\ \A i \in 1..n : ~(i < 1)
        BY <1>b
      <4> QED BY <1>9, <3>2, <4>1 DEF ProcessEnds
    <3> QED BY <3>1, <3>2
  <2>2. m \in Nat /\ m >= 1 /\ m <= n + 1
    BY <1>b, <2>1
  <2>3. /\ Len(processed') = n - m + 1
        /\ \A i \in 1..(n - m + 1) : processed'[i] = processed[m + i - 1]
    BY <1>b, <2>1, <2>2
  <2>4. \A i \in 1..Len(processed') : m + i - 1 \in 1..n
    BY <1>b, <2>2, <2>3
  <2>5. \A i, j \in 1..Len(processed') : i < j => m + i - 1 < m + j - 1
    BY <1>b, <2>2, <2>3
  <2>6. UNCHANGED emitted
    BY <1>7, <1>9
  <2> HIDE DEF n
  <2>7. ASSUME NEW i \in 1..Len(processed'), NEW j \in 1..Len(processed'), i < j
        PROVE  /\ processed'[i] # processed'[j]
               /\ BlockOf[processed'[i]] <= BlockOf[processed'[j]]
    <3>1. /\ m + i - 1 \in 1..n /\ m + j - 1 \in 1..n
          /\ m + i - 1 < m + j - 1
      BY <2>4, <2>5, <2>7
    <3>2. processed'[i] = processed[m + i - 1] /\ processed'[j] = processed[m + j - 1]
      BY <2>3
    <3> QED BY <1>a, <3>1, <3>2 DEF InBlockOrder, n
  <2>8. ASSUME NEW i \in 1..Len(processed')
        PROVE  \E k \in Starts : BlockOf[processed'[i]] <= emitted'[k]
    BY <1>a, <2>3, <2>4, <2>6 DEF InBlockOrder, n
  <2>9. ASSUME NEW x \in Txs, Fits(BlockOf[x]), HasProcessed(x)
        PROVE  Passed(x) \/ HasProcessed(x)'
    <3>1. PICK i \in 1..n : processed[i] = x
      BY <2>9 DEF HasProcessed, n
    <3>2. CASE i < m
      BY <1>a, <2>1, <2>9, <3>1, <3>2, ForgottenIsPassed DEF n
    <3>3. CASE i >= m
      <4>1. /\ i - m + 1 \in 1..Len(processed')
            /\ m + (i - m + 1) - 1 = i
        BY <1>b, <2>2, <2>3, <3>3 DEF n
      <4>2. processed'[i - m + 1] = processed[i]
        BY <2>3, <4>1
      <4> QED BY <3>1, <4>1, <4>2 DEF HasProcessed
    <3> QED BY <2>2, <3>2, <3>3
  <2>10. OnceTold'
    BY <1>7, <1>9, <1>a, <2>9 DEF OnceTold
  <2> QED BY <1>7, <1>9, <2>7, <2>8, <2>10 DEF InBlockOrder
<1> QED BY <1>1, <1>2, <1>3, <1>4, <1>5, <1>6, <1>8, <1>9 DEF Next, HandlerSteps

-----------------------------------------------------------------------------
(* The theorems.                                                            *)

LEMMA InitTypeOK == Init => MonitorTypeOK
<1> SUFFICES ASSUME Init PROVE MonitorTypeOK
  OBVIOUS
<1>1. processed = <<>> /\ handlers = {} /\ height \in Heights
  BY DEF Init
<1>2. emitted \in [Starts -> Heights \cup {-1}] /\ notified \in [Txs -> Nat]
  BY DEF Init
<1>3. processed \in Seq(Txs) /\ handlers \in SUBSET Handler
  BY <1>1
<1>4. unwatch \in Starts \cup {NoWatch} /\ wallets \in SUBSET Wallets
  BY DEF Init
<1> QED BY <1>1, <1>2, <1>3, <1>4 DEF Init, MonitorTypeOK

LEMMA IInvInit == Init => IInv
<1> SUFFICES ASSUME Init PROVE IInv
  OBVIOUS
<1>1. TypeOK
  BY InitTypeOK, LimiterInvInit, Types DEF Init, LimiterInv
<1>2. WatchInv /\ HandlerInv
  BY DEF Init, LimiterInit, WatchInv, HandlerInv
<1>3. ToldInv
  BY DEF Init, ToldInv, HasProcessed
<1> QED BY <1>1, <1>2, <1>3 DEF IInv

\* The monitor uses the limiter as it is meant to be used (waitForSlot).
THEOREM UsesLimiter == Spec => LimiterSpec
<1>1. Init => LimiterInit
  BY DEF Init
<1> QED BY <1>1, InitTypeOK, MonitorTypeOKStep, LimiterStep, PTL
        DEF Spec, LimiterSpec

\* The monitor asks the node for no more than the limit (waitForSlot).
THEOREM MonitorKeepsLimit == Spec => []WindowKept
BY UsesLimiter, LimitKept

\* IInv is an invariant (TransactionMonitor).
THEOREM Invariance == Spec => []IInv
<1> DEFINE J == IInv /\ LimiterInv
<1>1. Init => J
  BY IInvInit, LimiterInvInit DEF Init
<1>2. J /\ [Next]_vars => J'
  <2> SUFFICES ASSUME IInv, LimiterInv, [Next]_vars PROVE J'
    OBVIOUS
  <2>1. MonitorTypeOK /\ MonitorTypeOK'
    BY Types, MonitorTypeOKStep DEF IInv
  <2>2. LimiterInv'
    BY <2>1, LimiterStep, LimiterInvStep
  <2>3. TypeOK'
    BY <2>1, <2>2, Types DEF LimiterInv, TypeOK, MonitorTypeOK
  <2> QED BY <2>1, <2>2, <2>3, WatchInvStep, HandlerInvStep, ToldInvStep DEF IInv
<1> QED BY <1>1, <1>2, PTL DEF Spec

\* A payment of a block that was gone through was notified (processBlock).
THEOREM PaymentsAreNotified == Spec => []PaymentsNotified
<1>1. IInv => PaymentsNotified
  BY DEF IInv, ToldInv, Told, PaymentsNotified
<1> QED BY <1>1, Invariance, PTL

\* OnceInv is an invariant (processBlock, the newest 1000).
LEMMA OnceInvariance == Spec => []OnceInv
<1>1. Init => OnceInv
  <2> SUFFICES ASSUME Init PROVE OneHandler /\ InBlockOrder /\ OnceTold
    BY DEF OnceInv
  <2>1. /\ handlers = {} /\ processed = <<>> /\ height = 0
        /\ \A k \in Starts : emitted[k] = -1
        /\ \A x \in Txs : notified[x] = 0
    BY DEF Init
  <2>2. Len(processed) = 0 /\ 1..Len(processed) = {}
    BY <2>1
  <2> QED BY <2>1, <2>2 DEF OneHandler, InBlockOrder, OnceTold
<1>2. IInv /\ OnceInv /\ [Next]_vars => OnceInv'
  BY OnceInvStep, Types DEF IInv
<1> QED BY <1>1, <1>2, Invariance, PTL DEF Spec

\* No transaction is notified twice, unless a block was handed over while one
\* was being processed, or the block has more than Keep of them: of the newest
\* Keep that are remembered, none that is forgotten comes again (processBlock,
\* the newest 1000).
THEOREM NoSecondNotice == Spec => []NotifiedOnce
<1>1. OnceInv => NotifiedOnce
  BY DEF OnceInv, OnceTold, NotifiedOnce
<1> QED BY <1>1, OnceInvariance, PTL
=============================================================================
