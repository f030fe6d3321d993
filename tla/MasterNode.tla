----------------------------- MODULE MasterNode -----------------------------
(***************************************************************************)
(* The master process: UserFS, TCPManager and TCPMasterMessager of a node  *)
(* started with --listen.  Two threads run in it.  The main thread starts  *)
(* the network thread and then pushes the master's second host entry; the  *)
(* network thread runs io_service::run, one handler at a time.             *)
(*                                                                         *)
(* io_service is external.  Functions given to post() run in the order     *)
(* they were posted; the handler of an I/O operation runs any time after   *)
(* the operation finished.  An operation that has finished keeps its       *)
(* result when the socket is closed before its handler runs; only one that *)
(* has not is aborted.  A read that has finished differs from a pending    *)
(* one only when the socket is closed, so that is where the model chooses; *)
(* a write that has finished is marked, since its packet is on its way.    *)
(* The read of a packet's header and of its body are one operation here.   *)
(***************************************************************************)
EXTENDS Wire, DirTree

CONSTANTS
    NoAddress,      \* the address of an unconnected socket
    MasterMayExit   \* bound: whether the master process may end

VARIABLES
    main,           \* where the main thread is in initTCPNetwork
    dirTree,        \* _dir_tree
    hosts,          \* _hosts: hosts[i + 1] is the C++ _hosts[i]
    maxHostId,      \* _max_host_id
    posted,         \* functions posted to the io_service, oldest first
    conn,           \* per standby: its tuple in _connections
    raced           \* history: a standby was registered before the main
                    \* thread had pushed the master's host entry

masterVars == <<main, dirTree, hosts, maxHostId, posted, conn, raced>>

Self == [id |-> 1, address |-> Master, working_dir |-> Master]

\* id: slave id; queue: sending queue; rd: the read in progress;
\* wr: the writes in progress, oldest first.
NoConnection == [id |-> 0, queue |-> << >>, rd |-> "none", wr |-> << >>]

\* Mutant: ids are handed out from 3.
MasterInitOffByOne ==
    /\ main = "init"
    /\ dirTree = InitDirTree(Shared[Master], 1)
    /\ hosts = <<Self>>
    /\ maxHostId = 3
    /\ posted = << >>
    /\ conn = [s \in Standby |-> NoConnection]
    /\ raced = FALSE

\* After setMaster, initDirTree and initHost.
MasterInit ==
    /\ main = "init"
    /\ dirTree = InitDirTree(Shared[Master], 1)
    /\ hosts = <<Self>>
    /\ maxHostId = 2
    /\ posted = << >>
    /\ conn = [s \in Standby |-> NoConnection]
    /\ raced = FALSE

-----------------------------------------------------------------------------
(* The main thread. *)

\* TCPManager::start: from here on the network thread runs.
StartNetwork ==
    /\ main = "init"
    /\ main' = "started"
    /\ UNCHANGED <<dirTree, hosts, maxHostId, posted, conn, raced, wireVars>>

\* _hosts.push(_hosts[0]), without the lock, begins ...
PushMasterHost ==
    /\ main = "started"
    /\ main' = "pushing"
    /\ UNCHANGED <<dirTree, hosts, maxHostId, posted, conn, raced, wireVars>>

\* ... and ends.  If the network thread pushed meanwhile, both have grown the
\* same vector: either entry may be lost.
MasterHostPushed ==
    /\ main \in {"pushing", "colliding"}
    /\ hosts' \in {Append(hosts, hosts[1])}
                    \cup (IF main = "colliding" THEN {hosts} ELSE {})
    /\ main' = "serving"
    /\ UNCHANGED <<dirTree, maxHostId, posted, conn, raced, wireVars>>

\* The process is gone and the kernel has closed its sockets.
MasterGone ==
    /\ main' = "exited"
    /\ acceptor' = "failed"
    /\ masterEnd' = [s \in Standby |-> "closed"]
    /\ posted' = << >>
    /\ conn' = [s \in Standby |-> NoConnection]
    /\ toMaster' = [s \in Standby |-> << >>]
    /\ UNCHANGED <<dirTree, hosts, maxHostId, raced, standbyEnd, toStandby, cut>>

\* Unmounting (stop is posted and the network thread joined), or a crash.
MasterExit ==
    /\ MasterMayExit
    /\ main # "exited"
    /\ MasterGone

-----------------------------------------------------------------------------
(* Parts of the network thread's handlers. *)

\* TCPMasterMessager::do_write: writing to a closed socket fails at once.
DoWrite(c, open) == [c EXCEPT !.wr = Append(@, IF open THEN "pending" ELSE "err")]

\* Mutant: a write is started although one is in progress.
EnqueueAlwaysWrite(c, packet, open) ==
    DoWrite([c EXCEPT !.queue = Append(@, packet)], open)

\* Mutant: the newest packet is the next to be written.
EnqueueNewestFirst(c, packet, open) ==
    IF c.queue = << >> THEN DoWrite([c EXCEPT !.queue = <<packet>>], open)
    ELSE [c EXCEPT !.queue = <<Head(@), packet>> \o Tail(@)]

\* Push a packet and start writing unless a write is in progress.
Enqueue(c, packet, open) ==
    LET pushed == [c EXCEPT !.queue = Append(@, packet)]
    IN  IF c.queue = << >> THEN DoWrite(pushed, open) ELSE pushed

\* socket.close(): what is pending is aborted; a read may have finished before.
Aborted(s, c) ==
    LET writes == [i \in DOMAIN c.wr |-> IF c.wr[i] = "pending" THEN "err" ELSE c.wr[i]]
        reads  == IF c.rd # "pending" THEN {c.rd}
                  ELSE {"err"} \cup (IF toMaster[s] # << >> THEN {"ok"} ELSE {})
    IN  {[c EXCEPT !.rd = r, !.wr = writes] : r \in reads}

\* UserFS::sendUpdate with the metadata as it will be.
Update(tree, hs) == [call |-> "write", packet |-> UpdatePacket(tree, hs)]

\* Reading _hosts under the lock while the main thread may be pushing to it.
HostsSeen(hs) ==
    {hs} \cup (IF main \in {"pushing", "colliding"} THEN {Append(hs, hs[1])} ELSE {})

\* Mutant: slave_id, a reference, is reset before removeOf(slave_id).
DisconnectSlaveResetFirst(id) ==
    IF id = 0
    THEN UNCHANGED <<dirTree, posted>>
    ELSE /\ dirTree' = RemoveOf(dirTree, 0)
         /\ \E seen \in HostsSeen(hosts) :
                posted' = Append(posted, Update(RemoveOf(dirTree, 0), seen))

\* Mutant: sendUpdate is not called.
DisconnectSlaveSilently(id) ==
    /\ dirTree' = IF id = 0 THEN dirTree ELSE RemoveOf(dirTree, id)
    /\ UNCHANGED posted

\* UserFS::disconnect(handle) for a connection with this slave id.
DisconnectSlave(id) ==
    IF id = 0
    THEN UNCHANGED <<dirTree, posted>>
    ELSE /\ dirTree' = RemoveOf(dirTree, id)
         /\ \E seen \in HostsSeen(hosts) :
                posted' = Append(posted, Update(RemoveOf(dirTree, id), seen))

\* TCPMasterMessager::close of the connection of s, whose tuple is c.
Close(s, c) ==
    IF masterEnd[s] = "open"
    THEN /\ masterEnd' = [masterEnd EXCEPT ![s] = "closed"]
         /\ \E a \in Aborted(s, c) :
               conn' = [conn EXCEPT ![s] = [a EXCEPT !.queue = << >>, !.id = 0]]
         /\ DisconnectSlave(c.id)
    ELSE /\ conn' = [conn EXCEPT ![s] = c]
         /\ UNCHANGED <<masterEnd, dirTree, posted>>

\* do_read_header: reading from a closed socket fails at once.
ReadNext(s) == IF masterEnd[s] = "open" THEN "pending" ELSE "err"

\* What remote_endpoint yields for the address of the peer.
RemoteAddresses(s) ==
    IF masterEnd[s] # "open" THEN {NoAddress}
    ELSE IF standbyEnd[s] = "closed" \/ s \in cut THEN {s, NoAddress}
    ELSE {s}

\* _hosts.push(slave_host) under the lock, which the main thread does not take.
PushSlaveHost(host) ==
    /\ hosts' \in {Append(hosts, host)}
                    \cup (IF main \in {"pushing", "colliding"} THEN {hosts} ELSE {})
    /\ main' = IF main = "pushing" THEN "colliding" ELSE main
    /\ raced' = (raced \/ main # "serving")

\* UserFS::newConnection when there is no conflict.
RegisterSlave(s, packet) ==
    \E address \in RemoteAddresses(s) :
        LET id   == maxHostId
            tree == Merge(dirTree, SetHostID(packet.tree, id))
            host == [packet.host EXCEPT !.id = id, !.address = address]
        IN  /\ maxHostId' = id + 1
            /\ dirTree' = tree
            /\ PushSlaveHost(host)
            /\ conn' = [conn EXCEPT ![s].id = id, ![s].rd = ReadNext(s)]
            /\ \E seen \in HostsSeen(hosts') :
                  posted' = posted \o
                    <<[call |-> "writeTo", to |-> s,
                       packet |-> RecognitionPacket(id, tree, seen)],
                      Update(tree, seen)>>
            /\ UNCHANGED masterEnd

\* UserFS::newConnection.  After a close the next read fails at once.
NewConnection(s, packet) ==
    IF HasConflict(dirTree, packet.tree) # << >>
    THEN /\ Close(s, [conn[s] EXCEPT !.rd = "err"])
         /\ UNCHANGED <<main, hosts, maxHostId, raced>>
    ELSE RegisterSlave(s, packet)

-----------------------------------------------------------------------------
(* The network thread. *)

\* TCPMasterMessager::start: open, bind and listen succeed ...
Listen ==
    /\ main \notin {"init", "exited"}
    /\ acceptor = "closed"
    /\ acceptor' = "listening"
    /\ UNCHANGED <<masterVars, masterEnd, standbyEnd, toMaster, toStandby, cut>>

\* ... or one of them fails and the thread ends.
ListenFailed ==
    /\ main \notin {"init", "exited"}
    /\ acceptor = "closed"
    /\ acceptor' = "failed"
    /\ UNCHANGED <<masterVars, masterEnd, standbyEnd, toMaster, toStandby, cut>>

\* Handler of async_accept: a new tuple, and the first read.  The handler of an
\* accept that failed only starts the next one, which changes nothing here.
Accept(s) ==
    /\ acceptor = "listening"
    /\ masterEnd[s] = "none"
    /\ standbyEnd[s] \in {"open", "closed"}
    /\ masterEnd' = [masterEnd EXCEPT ![s] = "open"]
    /\ conn' = [conn EXCEPT ![s] = [NoConnection EXCEPT !.rd = "pending"]]
    /\ UNCHANGED <<main, dirTree, hosts, maxHostId, posted, raced,
                   acceptor, standbyEnd, toMaster, toStandby, cut>>

\* The function posted by write: the packet goes to every open connection.
PostedWrite ==
    /\ posted # << >>
    /\ Head(posted).call = "write"
    /\ conn' = [s \in Standby |->
                  IF masterEnd[s] = "open"
                  THEN Enqueue(conn[s], Head(posted).packet, TRUE)
                  ELSE conn[s]]
    /\ posted' = Tail(posted)
    /\ UNCHANGED <<main, dirTree, hosts, maxHostId, raced, wireVars>>

\* The function posted by writeTo, which does not look whether it is open.
PostedWriteTo ==
    /\ posted # << >>
    /\ Head(posted).call = "writeTo"
    /\ LET s == Head(posted).to
       IN  conn' = [conn EXCEPT ![s] =
                      Enqueue(@, Head(posted).packet, masterEnd[s] = "open")]
    /\ posted' = Tail(posted)
    /\ UNCHANGED <<main, dirTree, hosts, maxHostId, raced, wireVars>>

\* Handler of a read that finished: a whole packet is there ...
MasterOnPacket(s) ==
    /\ \/ conn[s].rd = "pending" /\ toMaster[s] # << >>
       \/ conn[s].rd = "ok"
    /\ toMaster' = [toMaster EXCEPT ![s] = Tail(@)]
    /\ NewConnection(s, Head(toMaster[s]))
    /\ UNCHANGED <<acceptor, standbyEnd, toStandby, cut>>

\* ... or the read failed: it was aborted, or the standby has closed ...
MasterOnReadError(s) ==
    /\ \/ conn[s].rd = "pending" /\ standbyEnd[s] = "closed"
       \/ conn[s].rd = "err"
    /\ Close(s, [conn[s] EXCEPT !.rd = "none"])
    /\ UNCHANGED <<main, hosts, maxHostId, raced,
                   acceptor, standbyEnd, toMaster, toStandby, cut>>

\* ... or the kernel has noticed that the connection was cut.
MasterOnReadCut(s) ==
    /\ conn[s].rd = "pending"
    /\ s \in cut
    /\ Close(s, [conn[s] EXCEPT !.rd = "none"])
    /\ UNCHANGED <<main, hosts, maxHostId, raced,
                   acceptor, standbyEnd, toMaster, toStandby, cut>>

\* The pending write finishes: the packet has been handed to the kernel.
MasterWriteDone(s) ==
    /\ conn[s].wr # << >>
    /\ Head(conn[s].wr) = "pending"
    /\ toStandby' = Deliver(toStandby, s, Head(conn[s].queue),
                            standbyEnd[s] = "closed")
    /\ conn' = [conn EXCEPT ![s].wr[1] = "ok"]
    /\ UNCHANGED <<main, dirTree, hosts, maxHostId, posted, raced,
                   acceptor, masterEnd, standbyEnd, toMaster, cut>>

\* Handler of a write that succeeded: pop the packet, write the next one.
MasterOnWritten(s) ==
    /\ conn[s].wr # << >>
    /\ Head(conn[s].wr) = "ok"
    /\ conn[s].queue # << >>
    /\ LET popped == [conn[s] EXCEPT !.wr = Tail(@), !.queue = Tail(@)]
       IN  conn' = [conn EXCEPT ![s] =
                      IF popped.queue = << >> THEN popped
                      ELSE DoWrite(popped, masterEnd[s] = "open")]
    /\ UNCHANGED <<main, dirTree, hosts, maxHostId, posted, raced, wireVars>>

\* The same handler when close() ran first and emptied the queue.  front() of
\* the empty queue is undefined: the process dies, or a length is read that
\* differs and close() finds the socket closed.  The latter also happens when
\* a packet of another length was queued after the close.
MasterOnWrittenStale(s) ==
    /\ conn[s].wr # << >>
    /\ Head(conn[s].wr) = "ok"
    /\ masterEnd[s] # "open"
    /\ \/ /\ conn' = [conn EXCEPT ![s].wr = Tail(@)]
          /\ UNCHANGED <<main, dirTree, hosts, maxHostId, posted, raced, wireVars>>
       \/ /\ conn[s].queue = << >>
          /\ MasterGone

\* Handler of a write that failed: it was aborted, or the standby is gone.
MasterOnWriteError(s) ==
    /\ conn[s].wr # << >>
    /\ \/ Head(conn[s].wr) = "pending" /\ (standbyEnd[s] = "closed" \/ s \in cut)
       \/ Head(conn[s].wr) = "err"
    /\ Close(s, [conn[s] EXCEPT !.wr = Tail(@)])
    /\ UNCHANGED <<main, hosts, maxHostId, raced,
                   acceptor, standbyEnd, toMaster, toStandby, cut>>

=============================================================================
