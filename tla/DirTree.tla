------------------------------ MODULE DirTree ------------------------------
(***************************************************************************)
(* The metadata tree of the group (dir_tree.h, dir_tree.cc).               *)
(*                                                                         *)
(* A DirTree is a function from the paths below the root to tree nodes.  A *)
(* path is a nonempty sequence of names; the set of paths is closed under  *)
(* nonempty prefixes.  The children set of the C++ node at path p is the   *)
(* set of paths of the domain that extend p by one name, so std::set's     *)
(* "one child per name" holds by representation.  Names are numbers, their *)
(* order being operator< on TreeNode.                                      *)
(***************************************************************************)
EXTENDS Integers, Sequences, FiniteSets, Functions

\* The node just below the root on the way to p.
Top(p) == <<Head(p)>>

\* file_type values that initDirTree turns into a node; the others are UNKNOWN.
FileTypes ==
    {"REGULAR", "DIRECTORY", "CHRDEVICE", "BLKDEVICE", "FIFO", "SYMLINK", "SOCKET"}

\* A function from nonempty paths to nodes whose domain holds, with a path, the
\* path's first step.
IsTree(t) ==
    /\ t = [p \in DOMAIN t |-> t[p]]
    /\ \A p \in DOMAIN t :
         /\ p \in Seq(Nat) \ {<< >>}
         /\ Top(p) \in DOMAIN t
         /\ t[p] \in [type : FileTypes, host_id : Nat]

\* The children of the root, which removal, merge and the conflict check visit.
RootChildren(t) == {p \in DOMAIN t : Len(p) = 1}

\* Mutant: entries of unknown type are not passed over.
InitDirTreeUnknown(fs, host_id) ==
    [p \in DOMAIN fs |-> [type |-> fs[p], host_id |-> host_id]]

\* UserFS::initDirTree: one node, owned by host_id, for every entry below the
\* working directory whose type is known (fs maps paths to entry types).  When the
\* walk throws instead is the subject of Startup.
InitDirTree(fs, host_id) ==
    [p \in {q \in DOMAIN fs : fs[q] \in FileTypes} |->
        [type |-> fs[p], host_id |-> host_id]]

\* TreeNode::setHostID on the root: every node below it changes owner.
SetHostID(t, host_id) == [p \in DOMAIN t |-> [t[p] EXCEPT !.host_id = host_id]]

\* DirTree::removeOf erases the root's children of a host, with all below them.
RemoveOf(t, host_id) ==
    Restrict(t, {p \in DOMAIN t : t[Top(p)].host_id # host_id})

\* DirTree::removeNotOf keeps only the root's children of a host.
RemoveNotOf(t, host_id) ==
    Restrict(t, {p \in DOMAIN t : t[Top(p)].host_id = host_id})

\* DirTree::merge: std::set::insert leaves a child alone that is already there.
Merge(t, u) ==
    LET fresh == {p \in DOMAIN u : Top(p) \notin DOMAIN t}
    IN  [p \in DOMAIN t \cup fresh |-> IF p \in DOMAIN t THEN t[p] ELSE u[p]]

\* The order in which an iterator visits the root's children.
InOrder(t) ==
    LET names == {p[1] : p \in RootChildren(t)}
    IN  CHOOSE q \in [1..Cardinality(names) -> names] : \A i, j \in DOMAIN q : i < j => q[i] < q[j]

\* The two-pointer loop of hasConflict from (i, j), up to last1 and last2.
CommonNames(a, b, last1, last2) ==
    LET scan[at \in (1..last1) \X (1..last2)] ==
            LET i == at[1]
                j == at[2]
            IN  IF i = last1 \/ j = last2 THEN << >>
                ELSE CASE a[i] < b[j] -> scan[<<i + 1, j>>]
                       [] b[j] < a[i] -> scan[<<i, j + 1>>]
                       [] OTHER       -> <<a[i]>> \o scan[<<i + 1, j + 1>>]
    IN  scan[<<1, 1>>]

\* t.hasConflict(u).  The code sets both first1 and last1 to begin(), so the
\* range of u's children that is compared is empty.
HasConflict(t, u) ==
    CommonNames(InOrder(u), InOrder(t), 1, Cardinality(RootChildren(t)) + 1)

=============================================================================
