----------------------------- MODULE GroupWallet -----------------------------
(***************************************************************************)
(* A GroupWalletDelegation: its members, of which a number has to approve. *)
(* The repository saves it as it is and constructs it anew when it loads   *)
(* it.  A member is its address.                                           *)
(***************************************************************************)
EXTENDS Integers, FiniteSets

CONSTANT Members

ASSUME MembersAssumption == IsFiniteSet(Members)

VARIABLES
  group,     \* the delegation, or NoGroup
  emptied    \* history: it has lost its last member

groupVars == <<group, emptied>>

NoGroup == [members |-> {}, approvalThreshold |-> -1]

Groups == [members : SUBSET Members, approvalThreshold : Int]

GroupTypeOK ==
  /\ group \in Groups
  /\ emptied \in BOOLEAN

GroupInit ==
  /\ group = NoGroup
  /\ emptied = FALSE

-----------------------------------------------------------------------------
\* validateGroupWallet: what the constructor accepts, when the delegation is
\* made and when it is loaded.
Loads(g) ==
  /\ g.members # {}
  /\ g.approvalThreshold \in 1..Cardinality(g.members)

CreateGroup(ms, n) ==
  LET g == [members |-> ms, approvalThreshold |-> n] IN
  /\ group = NoGroup
  /\ Loads(g)
  /\ group' = g
  /\ UNCHANGED emptied

AddMember(a) ==
  /\ group # NoGroup
  /\ a \notin group.members
  /\ group' = [group EXCEPT !.members = @ \cup {a}]
  /\ UNCHANGED emptied

\* Mutant of Adjusted: the threshold stays.
AdjustedNot(n, ms) == n

\* The threshold n, once the members are ms.
Adjusted(n, ms) == IF n > Cardinality(ms) THEN Cardinality(ms) ELSE n

RemoveMember(a) ==
  LET ms == group.members \ {a} IN
  /\ group # NoGroup
  /\ a \in group.members
  /\ group' = [members |-> ms,
               approvalThreshold |-> Adjusted(group.approvalThreshold, ms)]
  /\ emptied' = (emptied \/ ms = {})

UpdateApprovalThreshold(n) ==
  /\ group # NoGroup
  /\ n \in 1..Cardinality(group.members)
  /\ group' = [group EXCEPT !.approvalThreshold = n]
  /\ UNCHANGED emptied

\* canApprove.
CanApprove(approvals) == approvals >= group.approvalThreshold

GroupNext ==
  \/ \E n \in 0..(Cardinality(Members) + 1) :
       \/ \E ms \in SUBSET Members : CreateGroup(ms, n)
       \/ UpdateApprovalThreshold(n)
  \/ \E a \in Members : AddMember(a) \/ RemoveMember(a)

-----------------------------------------------------------------------------
\* A group delegation that never lost its last member can be loaded again and is
\* not approved by nobody, in whatever order members come and go and the
\* threshold moves (addMember, removeMember, updateApprovalThreshold).
GroupLoads ==
  (group # NoGroup /\ ~emptied) => Loads(group) /\ ~CanApprove(0)
=============================================================================
