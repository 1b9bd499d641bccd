--------------------------- MODULE SavingsLedger ---------------------------
(***************************************************************************)
(* What the autoflow core promises of its records, whatever its requests   *)
(* do to each other: a ledger of saving plans, of the executions booked    *)
(* for them and of the deposits sent for those executions, with one atomic *)
(* step per thing that may happen to it.  Autoflow implements it.          *)
(***************************************************************************)
CONSTANTS Savings, Triggers, TargetOf

VARIABLES
  plan,     \* the life of a saving: "absent", "live", "deleted"
  credit,   \* the executions its progress counts
  book,     \* the recorded result of an execution, "none", or "erased" for a
            \* success that was deleted with its saving
  deposit   \* the deposit operation of an execution

vars == <<plan, credit, book, deposit>>

Of(s) == {t \in Triggers : TargetOf[t] = s}

Init ==
  /\ plan = [s \in Savings |-> "absent"]
  /\ credit = [s \in Savings |-> {}]
  /\ book = [t \in Triggers |-> "none"]
  /\ deposit = [t \in Triggers |-> "none"]

Open(s) ==
  /\ plan[s] = "absent"
  /\ plan' = [plan EXCEPT ![s] = "live"]
  /\ UNCHANGED <<credit, book, deposit>>

Successes(s) == {t \in Of(s) : book[t] \in {"SUCCESS", "erased"}}

\* Closing takes the executions of the saving with it.
Close(s) ==
  /\ plan[s] = "live"
  /\ plan' = [plan EXCEPT ![s] = "deleted"]
  /\ credit' = [credit EXCEPT ![s] = {}]
  /\ book' = [t \in Triggers |->
       CASE t \notin Of(s)                     -> book[t]
         [] t \in Successes(s)                 -> "erased"
         [] t \in Of(s) /\ t \notin Successes(s) -> "none"]
  /\ UNCHANGED deposit

\* A deposit is sent once, for a saving that has been opened.
Send(t) ==
  /\ plan[TargetOf[t]] # "absent"
  /\ deposit[t] = "none"
  /\ deposit' = [deposit EXCEPT ![t] = "pending"]
  /\ UNCHANGED <<plan, credit, book>>

Settle(t) ==
  /\ deposit[t] = "pending"
  /\ \E r \in {"mined", "reverted"} : deposit' = [deposit EXCEPT ![t] = r]
  /\ UNCHANGED <<plan, credit, book>>

\* The result of an execution is recorded once, a success only of a settled
\* deposit.  It brings back a saving that was closed.  The progress may be set
\* back by it, but never counts more than the successes there were.
Record(t) ==
  LET s == TargetOf[t] IN
  /\ plan[s] # "absent"
  /\ book[t] = "none"
  /\ plan' = [plan EXCEPT ![s] = "live"]
  /\ \E r \in {"SUCCESS", "FAILED"} :
       /\ r = "SUCCESS" => deposit[t] \in {"mined", "reverted"}
       /\ book' = [book EXCEPT ![t] = r]
  /\ credit'[s] \subseteq Successes(s)'
  /\ book'[t] = "SUCCESS" => t \in credit'[s]
  /\ credit' = [credit EXCEPT ![s] = credit'[s]]
  /\ UNCHANGED deposit

Next ==
  \/ \E s \in Savings : Open(s) \/ Close(s)
  \/ \E t \in Triggers : Send(t) \/ Settle(t) \/ Record(t)

Spec == Init /\ [][Next]_vars
=============================================================================
