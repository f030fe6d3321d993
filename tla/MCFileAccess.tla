---------------------------- MODULE MCFileAccess ----------------------------
(* Host 1, the master, shares a directory 1 with the file 2 and a file 3; the *)
(* node itself is host 2 and shares 4; host 3, which joins later, shares 5.   *)
EXTENDS FileAccess, TLC

Hosts == <<[address |-> "m", working_dir |-> "d"],
           [address |-> "s", working_dir |-> "d"],
           [address |-> "t", working_dir |-> "d"]>>

Node(type, host_id, size) == [type |-> type, host_id |-> host_id, size |-> size]

MCTree ==
    (<<1>>    :> Node("DIRECTORY", 1, 0)) @@
    (<<1, 2>> :> Node("REGULAR", 1, 2)) @@
    (<<3>>    :> Node("REGULAR", 1, 1)) @@
    (<<4>>    :> Node("REGULAR", 2, 1))

MCViews ==
    <<[tree |-> MCTree, hosts |-> [id \in 0..2 |-> Hosts[IF id = 0 THEN 1 ELSE id]]],
      [tree |-> MCTree @@ (<<5>> :> Node("REGULAR", 3, 1)),
       hosts |-> [id \in 0..3 |-> Hosts[IF id = 0 THEN 1 ELSE id]]]>>

\* Every file has the size that the tree says.
MCSize ==
    LET t == MCViews[2].tree
    IN  [f \in {<<Hosts[t[p].host_id].address, <<Hosts[t[p].host_id].working_dir, p>>>> :
                  p \in {q \in DOMAIN t : t[q].type = "REGULAR"}} |-> t[f[2][2]].size]

\* Later the node's own machine has a file with the path of the late host's.
MCSizeLater == MCSize @@ (<<"s", <<"d", <<5>>>>>> :> 1)

Request(op, path, offset) == [op |-> op, path |-> path, offset |-> offset]

\* The two blocks of one file.
OneFile == {Request("read", <<1, 2>>, offset) : offset \in {0, 1}}

\* Also another file of that host, the node's own and the late host's file.
Reads == OneFile \cup {Request("read", <<name>>, 0) : name \in {3, 4, 5}}

\* Also all other operations, and the ways in which they fail.
AllRequests ==
    Reads \cup
    {Request("getattr", <<1, 2>>, 0), Request("getattr", <<6>>, 0),
     Request("readdir", << >>, 0), Request("readdir", <<3>>, 0),
     Request("open", <<1, 2>>, 0), Request("open for writing", <<1, 2>>, 0),
     Request("read", <<1>>, 0), Request("read", <<1, 2>>, 2)}

\* What two threads ask for at the same time.
Mixed == {Request("read", <<1, 2>>, 0), Request("read", <<5>>, 0), Request("readdir", << >>, 0)}

=============================================================================
