---------------------------- MODULE StandbyNode -----------------------------
(***************************************************************************)
(* The standby processes: UserFS, TCPManager and TCPSlaveMessager of nodes *)
(* started with --connect.  In each of them the main thread starts the     *)
(* network thread, sends the node's own metadata and waits on a semaphore  *)
(* until the network thread has an answer; then it mounts the filesystem.  *)
(* The io_service is as in MasterNode.  It returns from run() when it is   *)
(* out of work, and what is posted after that never runs.                  *)
(***************************************************************************)
EXTENDS Wire, DirTree

CONSTANT
    MayExit         \* bound: the standbys whose process may end

VARIABLE
    sb              \* per standby: the state of its process

-----------------------------------------------------------------------------
\* main: the main thread; sem, waiting: _slave_wait_sem and
\* _main_thread_is_waiting; hostId, dirTree, hosts: _host_id, _dir_tree and
\* _hosts; post: posted functions, by the packet they write;
\* queue: _write_packets; rd, wr: the read and write in progress.
\* initHost takes the address given with --connect, which is the master's.
StandbyInit ==
    sb = [s \in Standby |->
            [main |-> "init", sem |-> 0, waiting |-> TRUE, hostId |-> 0,
             dirTree |-> InitDirTree(Shared[s], 0),
             hosts |-> <<[id |-> 0, address |-> Master, working_dir |-> s]>>,
             post |-> << >>, queue |-> << >>, rd |-> "none", wr |-> "none"]]

-----------------------------------------------------------------------------
(* The main thread. *)

\* TCPManager::start: the network thread begins to connect.
StandbyStart(s) ==
    /\ sb[s].main = "init"
    /\ sb' = [sb EXCEPT ![s].main = "started"]
    /\ standbyEnd' = [standbyEnd EXCEPT ![s] = "connecting"]
    /\ UNCHANGED <<acceptor, masterEnd, toMaster, toStandby, cut>>

\* io_service::run has not returned.
Working(s) ==
    \/ standbyEnd[s] = "connecting"
    \/ sb[s].rd # "none" \/ sb[s].wr # "none" \/ sb[s].post # << >>

\* The rest of initTCPNetwork up to the wait: the metadata is read, under the
\* lock, as it is now, and sent.
SendMetadata(s) ==
    /\ sb[s].main = "started"
    /\ LET join == JoinPacket(sb[s].dirTree, sb[s].hosts[1])
       IN  sb' = [sb EXCEPT ![s].main = "waiting",
                            ![s].post = IF Working(s) THEN Append(@, join) ELSE @]
    /\ UNCHANGED wireVars

\* _slave_wait_sem.wait() returns; main goes on to mount.
Mount(s) ==
    /\ sb[s].main = "waiting"
    /\ sb[s].sem > 0
    /\ sb' = [sb EXCEPT ![s].main = "mounted", ![s].sem = @ - 1]
    /\ UNCHANGED wireVars

\* The process ends, by unmounting or by a crash.
StandbyExit(s) ==
    /\ s \in MayExit
    /\ sb[s].main \notin {"init", "exited"}
    /\ sb' = [sb EXCEPT ![s] = [@ EXCEPT !.main = "exited", !.post = << >>,
                                !.queue = << >>, !.rd = "none", !.wr = "none"]]
    /\ standbyEnd' = [standbyEnd EXCEPT ![s] =
                        IF @ \in {"open", "closed"} THEN "closed" ELSE "failed"]
    /\ toStandby' = [toStandby EXCEPT ![s] = << >>]
    /\ UNCHANGED <<acceptor, masterEnd, toMaster, cut>>

-----------------------------------------------------------------------------
(* Parts of the network thread's handlers. *)

\* Mutant: the flag is cleared and the semaphore not posted.
DisconnectWithoutPost(p) ==
    [p EXCEPT !.dirTree = RemoveNotOf(p.dirTree, p.hostId), !.waiting = FALSE]

\* Mutant: the tree is left as it is.
DisconnectKeepsTree(p) ==
    [p EXCEPT !.waiting = FALSE, !.sem = IF p.waiting THEN p.sem + 1 ELSE p.sem]

\* UserFS::disconnect() on the process state p.
Disconnect(p) ==
    [p EXCEPT !.dirTree = RemoveNotOf(p.dirTree, p.hostId),
              !.waiting = FALSE,
              !.sem = IF p.waiting THEN p.sem + 1 ELSE p.sem]

\* UserFS::slaveRecognized.
SlaveRecognized(p, packet) ==
    [p EXCEPT !.hostId = packet.id, !.dirTree = packet.tree,
              !.hosts = packet.hosts, !.waiting = FALSE, !.sem = p.sem + 1]

\* UserFS::updateInfo.
UpdateInfo(p, packet) ==
    [p EXCEPT !.dirTree = packet.tree, !.hosts = packet.hosts]

\* TCPManager::read, slave side; packets of another type are ignored.
ReadPacket(p, packet) ==
    CASE packet.type = 1 -> SlaveRecognized(p, packet)
      [] packet.type = 2 -> UpdateInfo(p, packet)
      [] OTHER           -> p

\* A write that was still pending when its socket was closed.
Abort(op) == IF op = "pending" THEN "err" ELSE op

\* A read when its socket is closed: it may have finished before.
AbortRead(s, op) ==
    IF op # "pending" THEN {op}
    ELSE {"err"} \cup (IF toStandby[s] # << >> THEN {"ok"} ELSE {})

\* _socket.close(), which also ends a connection attempt; the handler of the
\* attempt then calls disconnect() once more, which changes nothing.
SocketClosed(s) ==
    [standbyEnd EXCEPT ![s] = CASE @ = "open"       -> "closed"
                                [] @ = "connecting" -> "failed"
                                [] OTHER            -> @]

\* What every failed read or write ends with: close the socket, disconnect().
Fail(s, p) ==
    /\ standbyEnd' = SocketClosed(s)
    /\ \E r \in AbortRead(s, p.rd) :
          sb' = [sb EXCEPT ![s] = Disconnect([p EXCEPT !.rd = r, !.wr = Abort(@)])]
    /\ UNCHANGED <<acceptor, masterEnd, toMaster, toStandby, cut>>

-----------------------------------------------------------------------------
(* The network thread. *)

\* async_connect succeeds: start reading.
Connected(s) ==
    /\ standbyEnd[s] = "connecting"
    /\ acceptor = "listening"
    /\ s \notin cut
    /\ standbyEnd' = [standbyEnd EXCEPT ![s] = "open"]
    /\ sb' = [sb EXCEPT ![s].rd = "pending"]
    /\ UNCHANGED <<acceptor, masterEnd, toMaster, toStandby, cut>>

\* Mutant: disconnect() is not called for a failed connection attempt.
ConnectFailedQuietly(s) ==
    /\ standbyEnd[s] = "connecting"
    /\ acceptor # "listening" \/ s \in cut
    /\ standbyEnd' = [standbyEnd EXCEPT ![s] = "failed"]
    /\ sb' = [sb EXCEPT ![s].wr = Abort(@)]
    /\ UNCHANGED <<acceptor, masterEnd, toMaster, toStandby, cut>>

\* The master's address, an IP address and so one endpoint, refuses or does
\* not answer: the socket stays open but unconnected, and a write fails.
ConnectFailed(s) ==
    /\ standbyEnd[s] = "connecting"
    /\ acceptor # "listening" \/ s \in cut
    /\ standbyEnd' = [standbyEnd EXCEPT ![s] = "failed"]
    /\ sb' = [sb EXCEPT ![s] = Disconnect([sb[s] EXCEPT !.wr = Abort(@)])]
    /\ UNCHANGED <<acceptor, masterEnd, toMaster, toStandby, cut>>

\* The function posted by write.  A write to a connecting socket waits.
StandbyPosted(s) ==
    /\ sb[s].post # << >>
    /\ sb' = [sb EXCEPT ![s] =
                [sb[s] EXCEPT !.post = Tail(@), !.queue = Append(@, Head(sb[s].post)),
                              !.wr = IF sb[s].queue # << >> THEN @
                                     ELSE IF standbyEnd[s] \in {"connecting", "open"}
                                          THEN "pending" ELSE "err"]]
    /\ UNCHANGED wireVars

\* Handler of a read that finished: deal with the packet, read the next ...
StandbyOnPacket(s) ==
    /\ \/ sb[s].rd = "pending" /\ toStandby[s] # << >>
       \/ sb[s].rd = "ok"
    /\ toStandby' = [toStandby EXCEPT ![s] = Tail(@)]
    /\ sb' = [sb EXCEPT ![s] =
                [ReadPacket(sb[s], Head(toStandby[s])) EXCEPT
                   !.rd = IF standbyEnd[s] = "open" THEN "pending" ELSE "err"]]
    /\ UNCHANGED <<acceptor, masterEnd, standbyEnd, toMaster, cut>>

\* ... or the read failed: it was aborted, or the master has closed ...
StandbyOnReadError(s) ==
    /\ \/ sb[s].rd = "pending" /\ masterEnd[s] = "closed"
       \/ sb[s].rd = "err"
    /\ Fail(s, [sb[s] EXCEPT !.rd = "none"])

\* ... or the kernel has noticed that the connection was cut.
StandbyOnReadCut(s) ==
    /\ sb[s].rd = "pending"
    /\ s \in cut
    /\ Fail(s, [sb[s] EXCEPT !.rd = "none"])

\* The write finishes and its handler pops the packet.  Main sends one packet,
\* so no other write starts; and since nothing but this handler looks at the
\* queue, it does not matter when the handler runs.
StandbyOnWritten(s) ==
    /\ sb[s].wr = "pending"
    /\ standbyEnd[s] = "open"
    /\ toMaster' = Deliver(toMaster, s, Head(sb[s].queue), masterEnd[s] = "closed")
    /\ sb' = [sb EXCEPT ![s].queue = Tail(@), ![s].wr = "none"]
    /\ UNCHANGED <<acceptor, masterEnd, standbyEnd, toStandby, cut>>

\* Handler of a write that failed: it was aborted, or the master has closed.
StandbyOnWriteError(s) ==
    /\ \/ /\ sb[s].wr = "pending"
          /\ standbyEnd[s] = "open"
          /\ masterEnd[s] = "closed" \/ s \in cut
       \/ sb[s].wr = "err"
    /\ Fail(s, [sb[s] EXCEPT !.wr = "none"])

=============================================================================
