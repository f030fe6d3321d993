-------------------------- MODULE GroupRefinement ---------------------------
(***************************************************************************)
(* How Group implements Broadcast.                                         *)
(***************************************************************************)
EXTENDS Group

\* Both ends are open and the network carries the connection.
Linked ==
    {s \in Standby : masterEnd[s] = "open" /\ standbyEnd[s] = "open" /\ s \notin cut}

\* The metadata of a packet of type 1 or 2, or of a process.
Metadata(tree, hs) == [tree |-> tree, hosts |-> hs]

Versions(packets) ==
    [i \in DOMAIN packets |-> Metadata(packets[i].tree, packets[i].hosts)]

\* The standbys that carry an id.
Registered == {s \in Standby : conn[s].id # 0}

\* The packets of the posted calls that are for every connection.  No call is
\* for the master alone, so they are what would be coming to it.
ForAll == Coming(posted, Master)

B == INSTANCE Broadcast WITH
        meta   <- Metadata(dirTree, hosts),
        recent <- Versions(ForAll),
        linked <- Linked,
        joined <- Registered,
        coming <- [s \in Standby |-> IF s \in Linked THEN Versions(InFlight(s)) ELSE << >>],
        view   <- [s \in Standby |-> Metadata(sb[s].dirTree, sb[s].hosts)]

\* The master's posts, its sending queues, the sockets and the handlers of both
\* ends deliver to every linked standby each version of the metadata, from those
\* that are posted when it is accepted on: in order, none skipped or sent before it
\* is current, and none repeated but the version of its own registration.
ImplementsBroadcast == B!Spec

\* For FairSpec and connections that are not cut: when nodes have stopped coming
\* and going, every registered standby that is still linked shows the master's
\* metadata for good.
Converges ==
    \A s \in Standby :
        <>[](s \in Linked /\ conn[s].id # 0 =>
               sb[s].dirTree = dirTree /\ sb[s].hosts = hosts)

=============================================================================
