--------------------------- MODULE MCUserProfile ---------------------------
(* Small instances of UserProfile for TLC.                                  *)
EXTENDS UserProfileProps

CONSTANTS u1, u2, p1, p2, n1, n2, v1, v2, x

TwoUsers == {u1, u2}
OneName  == {x}

\* The first user sets a PIN twice and takes a name; the second user wants the
\* name too and has no QR code yet.  Both look at their profiles.
TwoSetups  == {p1, p2}
TwoRenames == {n1, n2}
TwoViews   == {v1, v2}
Owners ==
  [r \in TwoSetups \cup TwoRenames \cup TwoViews |->
     IF r \in {n2, v1} THEN u2 ELSE u1]
NoQrYet  == {u2}
NewNames == [r \in TwoRenames |-> x]

\* One user sets a PIN and takes a name.
OneSetup  == {p1}
OneRename == {n1}
NoView    == {}
OwnersOne == [r \in OneSetup \cup OneRename |-> u1]
NewName   == [r \in OneRename |-> x]
=============================================================================
