------------------------- MODULE UserProfileProofs -------------------------
(***************************************************************************)
(* For any number of users and requests: the inductive invariant of        *)
(* UserProfile, and with it the uniqueness of usernames under every        *)
(* interleaving and the exactness of rows whose requests do not overlap.   *)
(***************************************************************************)
EXTENDS UserProfileProps, TLAPS

\* Merging into a row the columns that differ gives the new row.
LEMMA MergeChanged ==
  ASSUME NEW old \in Row, NEW new \in Row
  PROVE  Merge(old, new, Changed(old, new)) = new
BY DEF Merge, Changed, Row, Columns

\* A merge of two rows is a row, with the username of one of them.
LEMMA MergeRow ==
  ASSUME NEW old \in Row, NEW new \in Row, NEW cols
  PROVE  /\ Merge(old, new, cols) \in Row
         /\ Merge(old, new, cols).username =
              IF "username" \in cols THEN new.username ELSE old.username
BY DEF Merge, Row

\* A merge of no column changes nothing.
LEMMA MergeNothing ==
  ASSUME NEW old \in Row, NEW new \in Row
  PROVE  Merge(old, new, {}) = old
BY DEF Merge, Row

\* A request makes a row of a row; only a setup touches the PIN.
LEMMA IntendedRow ==
  ASSUME NEW r \in Requests, NEW old \in Row
  PROVE  /\ Intended(r, old) \in Row
         /\ r \in Setups =>
              Intended(r, old).pin = r /\ Intended(r, old).pinSetup
         /\ r \notin Setups =>
              /\ Intended(r, old).pin = old.pin
              /\ Intended(r, old).pinSetup = old.pinSetup
BY ProfileAssumption DEF Intended, Row, Requests

LEMMA FreshRow == ASSUME NEW q \in BOOLEAN PROVE Fresh(q) \in Row
BY DEF Fresh, Row

-----------------------------------------------------------------------------
\* Every action keeps the types.
LEMMA TypeOKStep == TypeOK /\ [Next]_vars => TypeOK'
<1> SUFFICES ASSUME TypeOK, [Next]_vars PROVE TypeOK'
  OBVIOUS
<1> USE ProfileAssumption DEF TypeOK, Goto, Pc, Ended
<1>e. ASSUME NEW r \in Requests, NEW label \in Pc, End(r, label)
      PROVE  /\ pc' \in [Requests -> Pc]
             /\ copy' \in [Requests -> Row]
             /\ diff' \in [Requests -> SUBSET Columns]
             /\ holds' \in SUBSET Requests
  BY <1>e, FreshRow DEF End
<1>1. ASSUME NEW r \in Requests, FindById(r) PROVE TypeOK'
  BY <1>1 DEF FindById
<1>2. ASSUME NEW r \in Requests, Change(r) PROVE TypeOK'
  BY <1>2, IntendedRow DEF Change
<1>3. ASSUME NEW r \in Requests, NoQr(r) PROVE TypeOK'
  BY <1>3, <1>e DEF NoQr
<1>4. ASSUME NEW r \in Requests, SelectForSave(r) PROVE TypeOK'
  BY <1>4 DEF SelectForSave, Changed
<1>5. ASSUME NEW r \in Requests, Update(r) PROVE TypeOK'
  BY <1>5 DEF Update
<1>6. ASSUME NEW r \in Requests, UpdateRejected(r) PROVE TypeOK'
  BY <1>6, <1>e DEF UpdateRejected
<1>7. ASSUME NEW r \in Requests, Commit(r) PROVE TypeOK'
  <2>1. OwnerOf[r] \in Users
    OBVIOUS
  <2>2. row' \in [Users -> Row]
    BY <1>7, <2>1, MergeRow DEF Commit
  <2>3. wanted' \in [Users -> Row]
    BY <1>7, <2>1, IntendedRow DEF Commit
  <2> QED
    BY <1>7, <1>e, <2>2, <2>3 DEF Commit
<1>8. ASSUME NEW r \in Requests, Throws(r) PROVE TypeOK'
  BY <1>8, <1>e DEF Throws
<1>9. ASSUME UNCHANGED vars PROVE TypeOK'
  BY <1>9 DEF vars
<1> QED
  BY <1>1, <1>2, <1>3, <1>4, <1>5, <1>6, <1>7, <1>8, <1>9
     DEF Next, Step, Quiet

\* At most one request holds a row, and it is about to commit.
LEMMA LocksStep == TypeOK /\ LocksInv /\ [Next]_vars => LocksInv'
<1> SUFFICES ASSUME TypeOK, LocksInv, [Next]_vars PROVE LocksInv'
  OBVIOUS
<1> USE ProfileAssumption DEF TypeOK, LocksInv, Goto
<1>e. ASSUME NEW r \in Requests, End(r, "done") \/ End(r, "failed")
      PROVE  LocksInv'
  BY <1>e DEF End
<1>1. ASSUME NEW r \in Requests, FindById(r) PROVE LocksInv'
  BY <1>1 DEF FindById
<1>2. ASSUME NEW r \in Requests, Change(r) PROVE LocksInv'
  BY <1>2 DEF Change
<1>4. ASSUME NEW r \in Requests, SelectForSave(r) PROVE LocksInv'
  BY <1>4 DEF SelectForSave
<1>5. ASSUME NEW r \in Requests, Update(r) PROVE LocksInv'
  BY <1>5 DEF Update, Waits
<1>9. ASSUME UNCHANGED vars PROVE LocksInv'
  BY <1>9 DEF vars
<1> QED
  BY <1>e, <1>1, <1>2, <1>4, <1>5, <1>9
     DEF Next, Step, Quiet, NoQr, UpdateRejected, Commit, Throws

\* A request that ends gives its name up, or makes it the user's.
LEMMA NamesStep ==
  TypeOK /\ LocksInv /\ NamesInv /\ UsernamesUnique /\ [Next]_vars
    => NamesInv' /\ UsernamesUnique'
<1> SUFFICES ASSUME TypeOK, LocksInv, NamesInv, UsernamesUnique, [Next]_vars
             PROVE  NamesInv' /\ UsernamesUnique'
  OBVIOUS
<1> USE ProfileAssumption DEF TypeOK, NamesInv, UsernamesUnique, Goto
<1>e. ASSUME NEW r \in Requests, End(r, "done") \/ End(r, "failed"),
             row' = row
      PROVE  NamesInv' /\ UsernamesUnique'
  BY <1>e DEF End
<1>1. ASSUME NEW r \in Requests, FindById(r)
      PROVE  NamesInv' /\ UsernamesUnique'
  BY <1>1 DEF FindById, LocksInv
<1>2. ASSUME NEW r \in Requests, Change(r)
      PROVE  NamesInv' /\ UsernamesUnique'
  BY <1>2 DEF Change, LocksInv
<1>4. ASSUME NEW r \in Requests, SelectForSave(r)
      PROVE  NamesInv' /\ UsernamesUnique'
  BY <1>4 DEF SelectForSave, LocksInv
<1>5. ASSUME NEW r \in Requests, Update(r)
      PROVE  NamesInv' /\ UsernamesUnique'
  BY <1>5 DEF Update, Waits, Duplicate
<1>7. ASSUME NEW r \in Requests, Commit(r)
      PROVE  NamesInv' /\ UsernamesUnique'
  <2> DEFINE u == OwnerOf[r]
  <2>1. u \in Users
    OBVIOUS
  <2>2. /\ row' = [row EXCEPT ![u] = Merge(@, copy[r], diff[r])]
        /\ holds' = holds \ {r}
        /\ copy' = [copy EXCEPT ![r] = Fresh(FALSE)]
        /\ diff' = [diff EXCEPT ![r] = {}]
    BY <1>7 DEF Commit, End
  <2>3. row'[u].username = IF "username" \in diff[r] THEN copy[r].username
                           ELSE row[u].username
    BY <2>1, <2>2, MergeRow
  <2>4. \A v \in Users \ {u} : row'[v] = row[v]
    BY <2>1, <2>2
  <2>5. "username" \in diff[r] => r \in holds
    BY <1>7 DEF Commit, LocksInv
  <2>6. UsernamesUnique'
    BY <2>1, <2>3, <2>4, <2>5
  <2>7. NamesInv'
    BY <2>1, <2>2, <2>3, <2>4, <2>5
  <2> QED
    BY <2>6, <2>7
<1>9. ASSUME UNCHANGED vars PROVE NamesInv' /\ UsernamesUnique'
  BY <1>9 DEF vars
<1> QED
  BY <1>e, <1>1, <1>2, <1>4, <1>5, <1>7, <1>9
     DEF Next, Step, Quiet, NoQr, UpdateRejected, Throws

-----------------------------------------------------------------------------
\* The row of a user whose requests do not overlap takes every change.
LEMMA SerialStep ==
  IInv /\ [Next]_vars =>
    SerialInv' /\ SerialUpdatesKept' /\ SerialPinSetOnce'
<1> DEFINE Goal == SerialInv /\ SerialUpdatesKept /\ SerialPinSetOnce
<1> SUFFICES ASSUME IInv, [Next]_vars PROVE Goal'
  BY DEF IInv
<1> USE ProfileAssumption
    DEF IInv, TypeOK, SerialInv, SerialUpdatesKept, SerialPinSetOnce, Goto,
        InTx
<1>e. ASSUME NEW r \in Requests, End(r, "failed"), UNCHANGED <<row, raced, wanted>>
      PROVE  Goal'
  BY <1>e DEF End
<1>1. ASSUME NEW r \in Requests, FindById(r) PROVE Goal'
  <2> DEFINE u == OwnerOf[r]
  <2>1. CASE pc'[r] = "refused"
    <3>1. /\ pc' = [pc EXCEPT ![r] = "refused"]
          /\ UNCHANGED <<row, copy, diff, raced, wanted>>
      BY <1>1, <2>1 DEF FindById
    <3> QED
      BY <3>1
  <2>2. CASE pc'[r] = "done"
    BY <1>1, <2>2 DEF FindById, Requests
  <2>3. CASE pc'[r] = "work"
    <3>1. /\ pc[r] = "idle"
          /\ pc' = [pc EXCEPT ![r] = "work"]
          /\ copy' = [copy EXCEPT ![r] = row[u]]
          /\ r \in Setups => ~row[u].pinSetup
          /\ UNCHANGED <<row, diff, holds, wanted>>
          /\ raced \subseteq raced'
          /\ u \notin raced' =>
               \A q \in Requests \ {r} : OwnerOf[q] = u => ~InTx(q)
      BY <1>1, <2>3 DEF FindById
    <3>2. SerialUpdatesKept' /\ SerialPinSetOnce'
      BY <3>1
    <3>3. SerialInv'
      BY <3>1
    <3> QED
      BY <3>2, <3>3
  <2> QED
    BY <1>1, <2>1, <2>2, <2>3 DEF FindById
<1>2. ASSUME NEW r \in Requests, Change(r) PROVE Goal'
  BY <1>2 DEF Change
<1>3. ASSUME NEW r \in Requests, NoQr(r) PROVE Goal'
  BY <1>3 DEF NoQr, End
<1>4. ASSUME NEW r \in Requests, SelectForSave(r) PROVE Goal'
  <2>1. /\ pc[r] = "select"
        /\ diff' = [diff EXCEPT ![r] = Changed(row[OwnerOf[r]], copy[r])]
        /\ UNCHANGED <<row, copy, holds, raced, wanted>>
    BY <1>4 DEF SelectForSave
  <2>2. PICK label \in {"update", "commit"} : pc' = [pc EXCEPT ![r] = label]
    BY <1>4 DEF SelectForSave
  <2>3. SerialUpdatesKept' /\ SerialPinSetOnce'
    BY <2>1, <2>2
  <2>4. SerialInv'
    BY <2>1, <2>2
  <2> QED
    BY <2>3, <2>4
<1>5. ASSUME NEW r \in Requests, Update(r) PROVE Goal'
  BY <1>5 DEF Update
<1>7. ASSUME NEW r \in Requests, Commit(r) PROVE Goal'
  <2> DEFINE u == OwnerOf[r]
  <2>1. u \in Users
    OBVIOUS
  <2>2. /\ row' = [row EXCEPT ![u] = Merge(@, copy[r], diff[r])]
        /\ wanted' = [wanted EXCEPT ![u] = Intended(r, @)]
        /\ pc[r] = "commit"
        /\ pc' = [pc EXCEPT ![r] = "done"]
        /\ copy' = [copy EXCEPT ![r] = Fresh(FALSE)]
        /\ diff' = [diff EXCEPT ![r] = {}]
        /\ raced' = raced
    BY <1>7 DEF Commit, End
  <2>3. \A v \in Users \ {u} : row'[v] = row[v] /\ wanted'[v] = wanted[v]
    BY <2>1, <2>2
  <2>4. ASSUME u \notin raced
        PROVE  /\ row'[u] = Intended(r, row[u])
               /\ wanted'[u] = row'[u]
               /\ r \in Setups => ~row[u].pinSetup
               /\ \A q \in Requests \ {r} : OwnerOf[q] = u => ~InTx(q)
    <3>1. /\ copy[r] = Intended(r, row[u])
          /\ diff[r] = Changed(row[u], copy[r])
          /\ r \in Setups => ~row[u].pinSetup
      BY <2>1, <2>2, <2>4
    <3>2. row'[u] = copy[r]
      BY <2>1, <2>2, <3>1, MergeChanged
    <3> QED
      BY <2>1, <2>2, <2>4, <3>1, <3>2
  <2>5. SerialUpdatesKept'
    BY <2>2, <2>3, <2>4
  <2>6. SerialPinSetOnce'
    <3> SUFFICES ASSUME NEW v \in Users \ raced, NEW q \in Setups,
                        OwnerOf[q] = v, pc'[q] = "done"
                 PROVE  row'[v].pin = q /\ row'[v].pinSetup
      BY <2>2
    <3>1. CASE v # u
      BY <2>2, <2>3, <3>1 DEF Requests
    <3>2. CASE v = u /\ q = r
      BY <2>1, <2>4, <3>2, IntendedRow
    <3>3. CASE v = u /\ q # r
      <4>1. row[u].pin = q /\ row[u].pinSetup
        BY <2>2, <3>3 DEF Requests
      <4>2. r \notin Setups
        BY <2>4, <3>3, <4>1
      <4> QED
        BY <2>1, <2>4, <3>3, <4>1, <4>2, IntendedRow
    <3> QED
      BY <3>1, <3>2, <3>3
  <2>7. SerialInv'
    <3> SUFFICES ASSUME NEW v \in Users \ raced PROVE SerialInv!(v)'
      BY <2>2
    <3>1. CASE v # u
      BY <2>2, <2>3, <3>1
    <3>2. CASE v = u
      BY <2>2, <2>4, <3>2
    <3> QED
      BY <3>1, <3>2
  <2> QED
    BY <2>5, <2>6, <2>7
<1>9. ASSUME UNCHANGED vars PROVE Goal'
  BY <1>9 DEF vars
<1> QED
  BY <1>e, <1>1, <1>2, <1>3, <1>4, <1>5, <1>7, <1>9
     DEF Next, Step, Quiet, UpdateRejected, Throws

-----------------------------------------------------------------------------
\* No request has come: nothing is changed, locked or overlapping.
LEMMA InitIInv == Init => IInv
<1> SUFFICES ASSUME Init PROVE IInv
  OBVIOUS
<1>1. TypeOK
  BY FreshRow DEF Init, TypeOK, Pc, Columns
<1>2. UsernamesUnique
  BY DEF Init, UsernamesUnique, Fresh
<1>3. LocksInv /\ NamesInv /\ SerialInv /\ SerialUpdatesKept /\ SerialPinSetOnce
  BY ProfileAssumption
     DEF Init, LocksInv, NamesInv, SerialInv, SerialUpdatesKept,
         SerialPinSetOnce, InTx, Requests
<1> QED
  BY <1>1, <1>2, <1>3 DEF IInv

\* The inductive invariant holds in every reachable state.
THEOREM Invariance == Spec => []IInv
<1>1. IInv /\ [Next]_vars => IInv'
  BY TypeOKStep, LocksStep, NamesStep, SerialStep DEF IInv
<1> QED
  BY InitIInv, <1>1, PTL DEF Spec

\* No two users ever hold the same username, for any number of concurrent
\* updates (UserOrmEntity.username, UpdateUserProfileUseCase).
THEOREM UniqueNames == Spec => []UsernamesUnique
<1>1. IInv => UsernamesUnique
  BY DEF IInv
<1> QED
  BY <1>1, Invariance, PTL

\* The row of a user whose requests never overlap is what they meant it to be.
THEOREM SerialKept == Spec => []SerialUpdatesKept
<1>1. IInv => SerialUpdatesKept
  BY DEF IInv
<1> QED
  BY <1>1, Invariance, PTL

\* The PIN of a user whose requests never overlap is set by one request and
\* stays (SetupPinUseCase).
THEOREM SerialPin == Spec => []SerialPinSetOnce
<1>1. IInv => SerialPinSetOnce
  BY DEF IInv
<1> QED
  BY <1>1, Invariance, PTL
=============================================================================
