----------------------------- MODULE AutoflowInv -----------------------------
(***************************************************************************)
(* An inductive invariant of Autoflow that implies its safety properties.  *)
(***************************************************************************)
EXTENDS AutoflowProps

Settled(t) == chain[t] \in {"mined", "reverted"}

\* What the control point of an execution says about its transaction.
TxInv ==
  \A t \in Triggers :
    /\ exec[t] # "none" =>
         /\ srv = "up" /\ ~aborted[t]
         /\ tpc[t] \in {"submit", "receipt", "save2", "save3", "emit",
                        "commit"}
    /\ exec[t] = "PENDING" => tpc[t] \notin {"emit", "commit"}
    /\ exec[t] = "SUCCESS" =>
         /\ outcome[t] = "success" /\ wrote[t]
         /\ tpc[t] \in {"emit", "commit"}
    /\ exec[t] = "FAILED" =>
         /\ outcome[t] = "failed"
         /\ tpc[t] \in {"emit", "commit"}
    /\ wrote[t] => exec[t] # "none"
    /\ srv = "up" /\ tpc[t] \in {"submit", "receipt", "save2"} =>
         exec[t] = "PENDING"
    /\ tpc[t] = "save3" /\ ~aborted[t] => exec[t] = "PENDING"
    /\ srv = "up" /\ tpc[t] \in {"emit", "commit"} /\ outcome[t] = "success" =>
         exec[t] = "SUCCESS"
    /\ srv = "stopping" /\ InTx(t) => aborted[t]
    /\ srv = "down" => tpc[t] \in Ended \cup {"idle"}

\* Where the deposit and the recorded result of an execution can be.
DepositInv ==
  \A t \in Triggers :
    /\ chain[t] # "none" =>
         tpc[t] \notin {"idle", "find", "prepare", "save1", "submit"}
    /\ tpc[t] = "save2" => Settled(t)
    /\ exec[t] = "SUCCESS" => Settled(t)
    /\ Booked(t) => Settled(t)
    /\ dbExec[t] # "none" => tpc[t] = "done"
    /\ dbExec[t] # "PENDING"
    /\ tpc[t] = "done" /\ outcome[t] = "success" => Booked(t)

\* What a notification was published for.
NoteInv ==
  \A t \in Triggers :
    /\ pending[t] \in {"none", outcome[t]}
    /\ note[t] \in {"none", outcome[t]}
    /\ pending[t] # "none" \/ note[t] # "none" =>
         tpc[t] \in {"commit"} \cup Ended
    /\ outcome[t] = "success" => Settled(t)
    /\ outcome[t] # "none" => tpc[t] \in {"emit", "commit"} \cup Ended
    /\ Booked(t) => outcome[t] = "success"
    /\ dbExec[t] = "FAILED" => outcome[t] = "failed"

\* What an execution has used is live or inserted by itself, and what it has
\* read was committed.
LockInv ==
  \A t \in Triggers :
    /\ exec[t] # "none" => row[TargetOf[t]] = "live" \/ wrote[t]
    /\ InTx(t) => row[TargetOf[t]] # "absent"
    /\ chain[t] # "none" => row[TargetOf[t]] # "absent"

\* A delete that holds the lock of a live row excludes every other user of it;
\* one that got the lock and found no row came second.
HoldInv ==
  \A d \in Deletes :
    /\ holds[d] =>
         /\ srv = "up" /\ dpc[d] \in {"deregister", "commit"}
         /\ row[VictimOf[d]] = "live"
    /\ srv = "down" => dpc[d] \in Ended \cup {"idle"}
    /\ srv = "up" /\ dpc[d] \in {"deregister", "commit"} /\ ~holds[d] =>
         row[VictimOf[d]] = "deleted" \/ VictimOf[d] \in revived
    /\ dpc[d] \in {"delete", "deregister", "commit"} =>
         row[VictimOf[d]] # "absent"
    /\ \A t \in Triggers :
         holds[d] /\ VictimOf[d] = TargetOf[t] => exec[t] = "none"
    /\ \A e \in Deletes :
         holds[d] /\ holds[e] /\ VictimOf[d] = VictimOf[e] => d = e

\* A saving, its job and its goal through its creation and its deletion.
JobInv ==
  /\ \A s \in Creates :
       /\ row[s] # "absent" => cpc[s] = "done" /\ goal[s] # "none"
       /\ cpc[s] = "commit" => goal[s] # "none"
       /\ cpc[s] \in {"goal", "commit"} => s \in jobs
       /\ s \in revived => row[s] # "absent"
       /\ srv = "down" => cpc[s] \in Ended \cup {"idle"}
  /\ \A d \in Deletes : dpc[d] = "commit" => VictimOf[d] \notin jobs
  /\ DeletedHasNoJob

\* The progress in the table and the copy of it a request holds.
ProgressInv ==
  /\ ProgressBackedByExecutions
  /\ \A t \in Triggers :
       /\ InTx(t) =>
            /\ copy[t] \ {t} \subseteq Succeeded(TargetOf[t])
            /\ TargetOf[t] \notin revived /\ row[TargetOf[t]] = "live" =>
                 \A u \in copy[t] \ {t} : dbExec[u] = "SUCCESS"
       /\ t \in copy[t] =>
            /\ tpc[t] \in {"save2", "save3", "emit", "commit"} \cup Ended
            /\ tpc[t] = "save3" => aborted[t]
            /\ exec[t] # "FAILED"
       /\ exec[t] = "SUCCESS" \/ tpc[t] = "save2" => t \in copy[t]

\* A saving on which executions never overlapped has one at a time, and that
\* one has read every success there is.
SerialInv ==
  \A s \in Creates \ raced :
    /\ row[s] = "live" => saved[s] = Succeeded(s)
    /\ \A t, u \in TriggersOf(s) : InTx(t) /\ InTx(u) => t = u
    /\ \A t \in TriggersOf(s) : InTx(t) => copy[t] \ {t} = Succeeded(s)

\* The live savings of a user that a creation has counted.
Counted(u) == ActiveOf(u) \ revived

\* A user whose creations never overlapped has one at a time, and it has
\* counted what is there.
LimitInv ==
  \A u \in Users \ racedUsers :
    /\ Cardinality(Counted(u)) <= MaxActive
    /\ \A c \in Creates :
         UserOf[c] = u /\ Creating(c) =>
           /\ Cardinality(Counted(u)) < MaxActive
           /\ \A b \in Creates : UserOf[b] = u /\ Creating(b) => b = c

IInv ==
  /\ TypeOK
  /\ TxInv
  /\ DepositInv
  /\ NoteInv
  /\ LockInv
  /\ HoldInv
  /\ JobInv
  /\ LiveHasJob
  /\ ProgressInv
  /\ SerialInv
  /\ LimitInv

-----------------------------------------------------------------------------
\* One execution at a time has written a saving: FOR NO KEY UPDATE excludes
\* itself, and an INSERT waits for another one of the same key.  Inductive by
\* itself, and needed for HoldersGoOn only.
OneUpdater ==
  \A t, u \in Triggers :
    wrote[t] /\ wrote[u] /\ TargetOf[t] = TargetOf[u] => t = u
=============================================================================
