------------------------------- MODULE Group --------------------------------
(***************************************************************************)
(* A group: one master, its standbys and the connections between them.     *)
(***************************************************************************)
EXTENDS MasterNode, StandbyNode

CONSTANT
    EarlyStart      \* bound: whether standbys may start before the master has
                    \* got as far as serving

vars == <<masterVars, sb, wireVars>>

Init == WireInit /\ MasterInit /\ StandbyInit

-----------------------------------------------------------------------------
(* Steps by who takes them. *)

MasterMain == StartNetwork \/ PushMasterHost \/ MasterHostPushed

\* What the master's network thread does for one connection.
MasterHandles(s) ==
    \/ MasterOnPacket(s) \/ MasterOnReadError(s)
    \/ MasterOnWritten(s) \/ MasterOnWrittenStale(s) \/ MasterOnWriteError(s)

MasterIO(s) == Accept(s) \/ MasterWriteDone(s)

MasterPosted == PostedWrite \/ PostedWriteTo

MasterStep ==
    \/ MasterMain \/ Listen \/ ListenFailed \/ MasterPosted \/ MasterExit
    \/ \E s \in Standby : MasterHandles(s) \/ MasterIO(s) \/ MasterOnReadCut(s)

StandbyMain(s) == SendMetadata(s) \/ Mount(s)

StandbyConnects(s) == Connected(s) \/ ConnectFailed(s)

StandbyHandles(s) ==
    \/ StandbyPosted(s)
    \/ StandbyOnPacket(s) \/ StandbyOnReadError(s)
    \/ StandbyOnWritten(s) \/ StandbyOnWriteError(s)

StandbyStep(s) ==
    /\ \/ (EarlyStart \/ main = "serving") /\ StandbyStart(s)
       \/ StandbyMain(s) \/ StandbyConnects(s)
       \/ StandbyHandles(s) \/ StandbyOnReadCut(s) \/ StandbyExit(s)
    /\ UNCHANGED masterVars

NetworkStep(s) == Cut(s) /\ UNCHANGED <<masterVars, sb>>

Next ==
    \/ MasterStep /\ UNCHANGED sb
    \/ \E s \in Standby : StandbyStep(s)
    \/ \E s \in Standby : NetworkStep(s)

Spec == Init /\ [][Next]_vars

\* A thread that can go on does, an operation that can finish does, and its
\* handler is run.  Nobody is bound to start or to end a process, and an error
\* on a connection that was cut may never be reported.
Fairness ==
    /\ WF_vars(MasterMain /\ UNCHANGED sb)
    /\ WF_vars((Listen \/ ListenFailed) /\ UNCHANGED sb)
    /\ WF_vars(MasterPosted /\ UNCHANGED sb)
    /\ \A s \in Standby :
         /\ WF_vars(Accept(s) /\ UNCHANGED sb)
         /\ WF_vars(MasterWriteDone(s) /\ UNCHANGED sb)
         /\ WF_vars(MasterHandles(s) /\ UNCHANGED sb)
         /\ WF_vars(StandbyMain(s) /\ UNCHANGED masterVars)
         /\ WF_vars(StandbyConnects(s) /\ UNCHANGED masterVars)
         /\ WF_vars(StandbyHandles(s) /\ UNCHANGED masterVars)

FairSpec == Spec /\ Fairness

-----------------------------------------------------------------------------
(* Types. *)

Machine == {Master} \cup Standby

Host == [id : Nat, address : Machine \cup {NoAddress}, working_dir : Machine]

IsPacket(p) ==
    /\ p.type \in 0..2
    /\ IsTree(p.tree)
    /\ p.type = 0 => p.host \in Host
    /\ p.type # 0 => p.hosts \in Seq(Host)
    /\ p.type = 1 => p.id \in Nat

\* The type invariant: trees are trees at every step of their way from a
\* working directory through packets and queues into the nodes' metadata.
TypeOK ==
    /\ acceptor \in {"closed", "listening", "failed"}
    /\ masterEnd \in [Standby -> {"none", "open", "closed"}]
    /\ standbyEnd \in [Standby -> {"none", "connecting", "open", "failed", "closed"}]
    /\ cut \subseteq Standby
    /\ main \in {"init", "started", "pushing", "colliding", "serving", "exited"}
    /\ IsTree(dirTree)
    /\ hosts \in Seq(Host)
    /\ maxHostId \in Nat
    /\ raced \in BOOLEAN
    /\ \A i \in DOMAIN posted : IsPacket(posted[i].packet)
    /\ \A s \in Standby :
         /\ \A i \in DOMAIN toMaster[s] : IsPacket(toMaster[s][i])
         /\ \A i \in DOMAIN toStandby[s] : IsPacket(toStandby[s][i])
         /\ conn[s].id \in Nat
         /\ conn[s].rd \in {"none", "pending", "ok", "err"}
         /\ conn[s].wr \in Seq({"none", "pending", "ok", "err"})
         /\ \A i \in DOMAIN conn[s].queue : IsPacket(conn[s].queue[i])
         /\ sb[s].main \in {"init", "started", "waiting", "mounted", "exited"}
         /\ sb[s].sem \in Nat
         /\ sb[s].waiting \in BOOLEAN
         /\ sb[s].hostId \in Nat
         /\ IsTree(sb[s].dirTree)
         /\ sb[s].hosts \in Seq(Host)

-----------------------------------------------------------------------------
(* Safety. *)

\* Every node of the master's tree belongs to the master or to a connection
\* that carries the node's host id: as long as that connection is open, the
\* close() that ends it removes the node.  UserFS::disconnect(handle) and
\* removeOf leave nothing behind when they reset the id, although removeOf looks
\* at the root's children only.  No id is given twice.
OwnersRegistered ==
    /\ \A p \in DOMAIN dirTree : dirTree[p].host_id # 0
    /\ \A p \in DOMAIN dirTree :
         \/ dirTree[p].host_id = 1
         \/ \E s \in Standby : conn[s].id = dirTree[p].host_id
         \/ main = "exited"
    /\ \A s \in Standby : conn[s].id # 0 => conn[s].id \in 2..(maxHostId - 1)
    /\ \A s, t \in Standby : conn[s].id = conn[t].id /\ conn[s].id # 0 => s = t

\* A mounted standby finds the host of every node it shows: the entry at index
\* host_id of its _hosts, where UserFS::read looks, has that id.  This takes
\* the tree and the host table of every packet to fit together, and holds if
\* no standby registered before the master's main thread pushed its own entry.
HostsResolve ==
    \A s \in Standby : sb[s].main = "mounted" /\ ~raced =>
        \A p \in DOMAIN sb[s].dirTree :
            LET n == sb[s].dirTree[p].host_id + 1
            IN  n <= Len(sb[s].hosts) /\ sb[s].hosts[n].id = n - 1

\* A standby that has a host table from the master only ever sees it extended:
\* updateInfo and slaveRecognized replace it by a later one, never an older
\* one, so the SSH session cached for an id in UserFS::read stays right.
HostsGrow ==
    [][\A s \in Standby :
         sb[s].hosts # sb'[s].hosts /\ Len(sb[s].hosts) > 1 /\ ~raced' =>
             /\ Len(sb[s].hosts) <= Len(sb'[s].hosts)
             /\ SubSeq(sb'[s].hosts, 1, Len(sb[s].hosts)) = sb[s].hosts]_vars

\* The packets that the posted calls will put into the sending queue of s.
Coming(calls, s) ==
    LET upTo[i \in 0..Len(calls)] ==
          IF i = 0 THEN << >>
          ELSE IF calls[i].call = "write" \/ calls[i].to = s
               THEN Append(upTo[i - 1], calls[i].packet)
               ELSE upTo[i - 1]
    IN  upTo[Len(calls)]

\* The packets in a connection's queue that have not been handed to the kernel.
Unsent(c) ==
    IF c.wr # << >> /\ Head(c.wr) = "ok" THEN Tail(c.queue) ELSE c.queue

\* The packets for s that the master has produced and s has not handled yet.
InFlight(s) == toStandby[s] \o Unsent(conn[s]) \o Coming(posted, s)

\* A registered standby is never left with old metadata: the last packet on
\* its way to it, or its own state if there is none, is the master's current
\* tree and host table.  Every change of them is followed by sendUpdate, and
\* no packet is skipped, dropped or overtaken in posts, queue and socket.
ViewsCatchUp ==
    \A s \in Standby :
        conn[s].id # 0 /\ masterEnd[s] = "open" /\ standbyEnd[s] = "open" /\ s \notin cut =>
            LET view == IF InFlight(s) = << >> THEN sb[s]
                        ELSE LET last == InFlight(s)[Len(InFlight(s))]
                             IN  [dirTree |-> last.tree, hosts |-> last.hosts]
            IN  view.dirTree = dirTree /\ (raced \/ view.hosts = hosts)

\* On an open connection a write is in progress exactly when the sending queue
\* is not empty, and never two at once: the write_in_progress test in write and
\* writeTo neither interleaves two packets nor leaves one lying.
WriteInProgress ==
    \A s \in Standby : masterEnd[s] = "open" =>
        /\ Len(conn[s].wr) <= 1
        /\ conn[s].wr = << >> <=> conn[s].queue = << >>

\* The wakeup of a standby's main thread is not lost: once the network thread
\* has cleared _main_thread_is_waiting, a main thread that waits, or is yet to
\* wait, finds the semaphore posted.
NoLostWakeup ==
    \A s \in Standby :
        /\ sb[s].main \in {"started", "waiting"} /\ ~sb[s].waiting => sb[s].sem > 0
        /\ sb[s].main = "mounted" => ~sb[s].waiting

\* A standby that has lost the master and has nothing left to handle shows its
\* own files only and has released its main thread, whatever was received,
\* finished or aborted around the close.
AloneAfterDisconnect ==
    \A s \in Standby :
        /\ sb[s].main \notin {"init", "exited"}
        /\ standbyEnd[s] \in {"failed", "closed"}
        /\ ~Working(s)
        => /\ ~sb[s].waiting
           /\ \A p \in DOMAIN sb[s].dirTree : sb[s].dirTree[p].host_id = sb[s].hostId

-----------------------------------------------------------------------------
(* What comments and the README say that the code does not do. *)

\* "assert no conflicts" (DirTree::merge): when newConnection merges a tree,
\* none of its top-level names is in the master's tree already.
MergeWithoutConflicts ==
    [][\A s \in Standby : conn'[s].id \notin {0, conn[s].id} =>
         RootChildren(dirTree) \cap RootChildren(Head(toMaster[s]).tree) = {}]_vars

\* A standby "sends its local metadata to the master" (README): what it sends
\* in initTCPNetwork is its own tree and its own host.
JoinIsLocal ==
    \A s \in Standby : \A i \in DOMAIN toMaster[s] :
        /\ toMaster[s][i].tree = InitDirTree(Shared[s], 0)
        /\ toMaster[s][i].host.working_dir = s

\* "1 -- master's host" (Hosts::_hosts), which the push in initTCPNetwork is to
\* bring about, in the tables the standbys hold.
MasterHostIsFirst ==
    \A s \in Standby : Len(sb[s].hosts) > 1 => sb[s].hosts[2].id = 1

\* A connection stays in _connections after close() because handlers of its
\* operations are still to run: such a handler finds the packet it has written
\* at the front of the sending queue.
WrittenPacketQueued ==
    \A s \in Standby :
        conn[s].wr # << >> /\ Head(conn[s].wr) = "ok" => conn[s].queue # << >>

\* "All other nodes can no longer see files from this node" (README) after it
\* has quit: the master's tree holds no node of a standby that has exited.
QuitFilesVanish ==
    \A s \in Standby :
        sb[s].main = "exited" ~>
            [](\A p \in DOMAIN dirTree : dirTree[p].host_id # 1 =>
                 hosts[dirTree[p].host_id + 1].working_dir # s)

-----------------------------------------------------------------------------
(* Liveness, for FairSpec and connections that are not cut. *)

\* A standby that waits in initTCPNetwork is released: recognised, or told of
\* a failed connection.
MainReleased ==
    \A s \in Standby :
        sb[s].main = "waiting" ~> sb[s].main \in {"mounted", "exited"}

\* The files of a registered standby that leaves disappear for good from the
\* master and from every standby that stays connected.
Shows(tree, id) == \E p \in DOMAIN tree : tree[p].host_id = id
Departed ==
    \A s \in Standby, id \in 2..(Cardinality(Standby) + 1) :
        (conn[s].id = id /\ masterEnd[s] = "open" /\ standbyEnd[s] = "closed")
        ~> [](main = "exited" \/
              (/\ ~Shows(dirTree, id)
               /\ \A t \in Standby : standbyEnd[t] = "open" /\ conn[t].id # 0
                    => ~Shows(sb[t].dirTree, id)))

=============================================================================
