-------------------------- MODULE UserProfileProps --------------------------
(* What the requests on a user's row promise together.                      *)
EXTENDS UserProfile

\* No two users ever hold the same username, whatever their updates read,
\* wait for and write back (UserOrmEntity.username is unique).
UsernamesUnique ==
  \A u, v \in Users :
    row[u].username # NoName /\ row[u].username = row[v].username => u = v

\* For a user whose requests never overlapped, every change that was made is
\* still there, and nothing else.
SerialUpdatesKept == \A u \in Users \ raced : row[u] = wanted[u]

\* For a user whose requests never overlapped, the PIN is set by one request
\* and stays (SetupPinUseCase.execute).
SerialPinSetOnce ==
  \A u \in Users \ raced : \A r \in Setups :
    OwnerOf[r] = u /\ pc[r] = "done" => row[u].pin = r /\ row[u].pinSetup

\* Every request that is received is answered, whoever it waits for: as each
\* is used once, no time comes from which some request is always in flight.
RequestsEnd == []<>(\A r \in Requests : ~InTx(r))

-----------------------------------------------------------------------------
(* An inductive invariant.                                                  *)

LocksInv ==
  /\ \A r \in holds : pc[r] = "commit"
  /\ \A r \in Requests : pc[r] = "commit" /\ r \notin holds => diff[r] = {}
  /\ \A r, q \in holds : OwnerOf[r] = OwnerOf[q] => r = q

\* A username that is being written is nobody else's, and no one else is
\* writing it.
NamesInv ==
  \A r \in holds :
    "username" \in diff[r] /\ copy[r].username # NoName =>
      /\ \A v \in Users \ {OwnerOf[r]} : row[v].username # copy[r].username
      /\ \A q \in holds \ {r} :
           "username" \in diff[q] => copy[q].username # copy[r].username

\* A user whose requests never overlapped has one at a time, and what that
\* one has read is still what the row says.
SerialInv ==
  \A u \in Users \ raced :
    /\ \A r, q \in Requests :
         OwnerOf[r] = u /\ OwnerOf[q] = u /\ InTx(r) /\ InTx(q) => r = q
    /\ \A r \in Requests : OwnerOf[r] = u =>
         /\ pc[r] = "work" =>
              copy[r] = row[u] /\ (r \in Setups => ~row[u].pinSetup)
         /\ pc[r] \in {"select", "update", "commit"} =>
              /\ copy[r] = Intended(r, row[u])
              /\ r \in Setups => ~row[u].pinSetup
         /\ pc[r] \in {"update", "commit"} =>
              diff[r] = Changed(row[u], copy[r])

IInv ==
  /\ TypeOK
  /\ LocksInv
  /\ NamesInv
  /\ UsernamesUnique
  /\ SerialInv
  /\ SerialUpdatesKept
  /\ SerialPinSetOnce

-----------------------------------------------------------------------------
\* SetupPinUseCase: "Pin is already setup" is what a second request is told,
\* so a PIN that is stored is the user's from then on.
PinIsKept ==
  [][\A u \in Users : row[u].pin # NoPin => row'[u].pin = row[u].pin]_vars
=============================================================================
