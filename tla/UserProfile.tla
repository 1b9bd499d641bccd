---------------------------- MODULE UserProfile ----------------------------
(***************************************************************************)
(* The requests that change a row of the table users once sign-up has      *)
(* inserted it: POST /me/setup-pin, PATCH /me and GET /me, which stores a  *)
(* QR code the first time it finds none.  Each reads the row into an       *)
(* entity, changes the entity and saves it whole, in a READ COMMITTED      *)
(* transaction of its own.                                                 *)
(*                                                                         *)
(* A PIN is named by the request that sets it.  The columns no request     *)
(* changes (email, wallet, deployed, enabled) are left out, and so is the  *)
(* value of updatedAt: an UPDATE that writes nothing else may be issued or *)
(* not.  Every request is used once.  A crash of the process is the        *)
(* failure of every request in flight.                                     *)
(***************************************************************************)
EXTENDS Naturals, FiniteSets

CONSTANTS
  Users,
  Setups,     \* setup-pin requests, and the PINs they set
  Renames,    \* profile updates
  Views,      \* reads of the own profile
  OwnerOf,    \* OwnerOf[r]: the logged-in user of request r
  Names,
  NameOf,     \* NameOf[r]: the username in profile update r, or NoName
  NoName,     \* the username NULL
  Unqr,       \* users whose QR code could not be generated at sign-up
  NoPin       \* the pin NULL

Requests == Setups \cup Renames \cup Views

ASSUME ProfileAssumption ==
  /\ Setups \cap Renames = {}
  /\ Setups \cap Views = {}
  /\ Renames \cap Views = {}
  /\ OwnerOf \in [Requests -> Users]
  /\ NameOf \in [Renames -> Names \cup {NoName}]
  /\ NoName \notin Names
  /\ NoPin \notin Setups

VARIABLES
  row,      \* the committed row of a user
  pc,       \* where a request is
  copy,     \* the entity a request has in memory
  diff,     \* the columns its UPDATE writes
  holds,    \* requests that have updated the row and not ended
  raced,    \* history: users for whom two requests overlapped
  wanted    \* history: the row as the requests that ended well meant it

vars == <<row, pc, copy, diff, holds, raced, wanted>>

Columns == {"username", "pin", "pinSetup", "qr"}

Row == [username : Names \cup {NoName}, pin : Setups \cup {NoPin},
        pinSetup : BOOLEAN, qr : BOOLEAN]

Ended == {"done", "refused", "failed"}

Pc == {"idle", "work", "select", "update", "commit"} \cup Ended

TypeOK ==
  /\ row \in [Users -> Row]
  /\ pc \in [Requests -> Pc]
  /\ copy \in [Requests -> Row]
  /\ diff \in [Requests -> SUBSET Columns]
  /\ holds \in SUBSET Requests
  /\ raced \in SUBSET Users
  /\ wanted \in [Users -> Row]

\* Sign-up inserts a user without username and PIN, and without a QR code
\* when the generator fails.
Fresh(q) ==
  [username |-> NoName, pin |-> NoPin, pinSetup |-> FALSE, qr |-> q]

Init ==
  /\ row = [u \in Users |-> Fresh(u \notin Unqr)]
  /\ pc = [r \in Requests |-> "idle"]
  /\ copy = [r \in Requests |-> Fresh(FALSE)]
  /\ diff = [r \in Requests |-> {}]
  /\ holds = {}
  /\ raced = {}
  /\ wanted = row

-----------------------------------------------------------------------------
Goto(r, label) == pc' = [pc EXCEPT ![r] = label]

\* Mutant of End: the connection goes back with its transaction open.
EndKeepsLock(r, label) ==
  /\ Goto(r, label)
  /\ copy' = [copy EXCEPT ![r] = Fresh(FALSE)]
  /\ diff' = [diff EXCEPT ![r] = {}]
  /\ UNCHANGED holds

\* The request ends, and its entity and its lock with it.
End(r, label) ==
  /\ Goto(r, label)
  /\ copy' = [copy EXCEPT ![r] = Fresh(FALSE)]
  /\ diff' = [diff EXCEPT ![r] = {}]
  /\ holds' = holds \ {r}

\* Between the read of the row and the end of the transaction.
InTx(r) == pc[r] \in {"work", "select", "update", "commit"}

\* What a request means to do to the row it read.
Intended(r, old) ==
  IF r \in Setups THEN [old EXCEPT !.pin = r, !.pinSetup = TRUE]
  ELSE IF r \in Renames THEN [old EXCEPT !.username = NameOf[r]]
  ELSE [old EXCEPT !.qr = TRUE]

\* Mutant of Changed: the repository does not map pinSetup.
ChangedUnmapped(old, new) ==
  {c \in Columns \ {"pinSetup"} : new[c] # old[c]}

Changed(old, new) == {c \in Columns : new[c] # old[c]}

\* The row old, with columns cols taken from new.
Merge(old, new, cols) ==
  [username |-> IF "username" \in cols THEN new.username ELSE old.username,
   pin |-> IF "pin" \in cols THEN new.pin ELSE old.pin,
   pinSetup |-> IF "pinSetup" \in cols THEN new.pinSetup ELSE old.pinSetup,
   qr |-> IF "qr" \in cols THEN new.qr ELSE old.qr]

\* Mutant of FindById: a PIN may be set up again.
FindByIdAgain(r) ==
  /\ pc[r] = "idle"
  /\ Goto(r, "work")
  /\ copy' = [copy EXCEPT ![r] = row[OwnerOf[r]]]
  /\ raced' = IF \E q \in Requests \ {r} : OwnerOf[q] = OwnerOf[r] /\ InTx(q)
                THEN raced \cup {OwnerOf[r]} ELSE raced
  /\ UNCHANGED <<row, diff, holds, wanted>>

\* A request arrives and finds the row.  A PIN that is set up is not set
\* again; a profile that has its QR code is only read.
FindById(r) ==
  LET u == OwnerOf[r] IN
  /\ pc[r] = "idle"
  /\ \/ /\ r \in Setups /\ row[u].pinSetup
        /\ Goto(r, "refused")
        /\ UNCHANGED <<copy, raced>>
     \/ /\ r \in Views /\ row[u].qr
        /\ Goto(r, "done")
        /\ UNCHANGED <<copy, raced>>
     \/ /\ r \in Setups => ~row[u].pinSetup
        /\ r \in Views => ~row[u].qr
        /\ Goto(r, "work")
        /\ copy' = [copy EXCEPT ![r] = row[u]]
        /\ raced' = IF \E q \in Requests \ {r} : OwnerOf[q] = u /\ InTx(q)
                      THEN raced \cup {u} ELSE raced
  /\ UNCHANGED <<row, diff, holds, wanted>>

\* hashPassword, generateCryptoAddressQR or nothing; then the entity changes.
Change(r) ==
  /\ pc[r] = "work"
  /\ copy' = [copy EXCEPT ![r] = Intended(r, @)]
  /\ Goto(r, "select")
  /\ UNCHANGED <<row, diff, holds, raced, wanted>>

\* The QR code cannot be generated: answered without one.
NoQr(r) ==
  /\ pc[r] = "work"
  /\ r \in Views
  /\ End(r, "done")
  /\ UNCHANGED <<row, raced, wanted>>

\* save() selects the row again and compares it with the entity; it issues
\* an UPDATE of the columns that differ, updatedAt among them, if any.
SelectForSave(r) ==
  LET d == Changed(row[OwnerOf[r]], copy[r]) IN
  /\ pc[r] = "select"
  /\ diff' = [diff EXCEPT ![r] = d]
  /\ \/ Goto(r, "update")
     \/ d = {} /\ Goto(r, "commit")
  /\ UNCHANGED <<row, copy, holds, raced, wanted>>

\* Another transaction holds the row, or an index entry that may become, or
\* may stay, a duplicate of the username.
Waits(r) ==
  \E q \in holds \ {r} :
    \/ OwnerOf[q] = OwnerOf[r]
    \/ /\ "username" \in diff[r] \cap diff[q]
       /\ copy[r].username # NoName
       /\ copy[r].username \in {copy[q].username, row[OwnerOf[q]].username}

\* Mutant of Duplicate: the username column is not unique.
DuplicateAllowed(r) == FALSE

\* The username column is unique, NULL excepted.
Duplicate(r) ==
  /\ "username" \in diff[r]
  /\ copy[r].username # NoName
  /\ \E v \in Users \ {OwnerOf[r]} : row[v].username = copy[r].username

Update(r) ==
  /\ pc[r] = "update"
  /\ ~Waits(r)
  /\ ~Duplicate(r)
  /\ holds' = holds \cup {r}
  /\ Goto(r, "commit")
  /\ UNCHANGED <<row, copy, diff, raced, wanted>>

UpdateRejected(r) ==
  /\ pc[r] = "update"
  /\ ~Waits(r)
  /\ Duplicate(r)
  /\ End(r, "failed")
  /\ UNCHANGED <<row, raced, wanted>>

\* The columns of the UPDATE become visible, on top of what was committed
\* since the entity was read.
Commit(r) ==
  LET u == OwnerOf[r] IN
  /\ pc[r] = "commit"
  /\ row' = [row EXCEPT ![u] = Merge(@, copy[r], diff[r])]
  /\ wanted' = [wanted EXCEPT ![u] = Intended(r, @)]
  /\ End(r, "done")
  /\ UNCHANGED raced

\* A statement or the COMMIT fails, or the process dies: rolled back.
Throws(r) ==
  /\ InTx(r)
  /\ End(r, "failed")
  /\ UNCHANGED <<row, raced, wanted>>

Step(r) ==
  \/ Change(r)
  \/ SelectForSave(r)
  \/ Update(r) \/ UpdateRejected(r)
  \/ Commit(r)

Quiet == (\A r \in Requests : pc[r] \in Ended) /\ UNCHANGED vars

Next ==
  \/ \E r \in Requests : FindById(r) \/ Step(r) \/ NoQr(r) \/ Throws(r)
  \/ Quiet

Spec == Init /\ [][Next]_vars

\* A continuation that is ready runs, and PostgreSQL grants a lock once it is
\* free; nothing need fail, and no request is preferred.
FairSpec == Spec /\ WF_vars(\E r \in Requests : Step(r))
=============================================================================
