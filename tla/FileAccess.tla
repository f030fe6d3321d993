----------------------------- MODULE FileAccess -----------------------------
(***************************************************************************)
(* The file operations of a mounted node: the FUSE callbacks               *)
(* (fuse_interface.cc), UserFS::find and UserFS::read (user_fs.cc) and the *)
(* table of SSH sessions (ssh_manager.h), run by several FUSE threads      *)
(* while the network thread replaces the metadata.  The node is a standby; *)
(* what it is sent is one view after another, each a tree and a host table *)
(* that extends the table before (HostsGrow of Group).                     *)
(*                                                                         *)
(* find holds the lock and is one step.  What a callback reads through the *)
(* pointer that find returned, and what UserFS::read reads of _hosts, is   *)
(* read without the lock; dead and updating say when that is undefined.    *)
(* Remote paths are pairs of a working directory and a path.               *)
(***************************************************************************)
EXTENDS SSHSession, DirTree

CONSTANTS Views,        \* the metadata that the node gets, in order
          HostId,       \* _host_id
          Requests,     \* what the kernel may ask: [op, path, offset]
          MaxCalls,     \* how many requests it makes
          MaxGone,      \* how many files their owners remove
          Overlap       \* whether the metadata may change during a request

\* What Group shows of the metadata of a standby: each node has its host in the
\* table (HostsResolve), and the table is only ever extended (HostsGrow).
ASSUME ViewsAssumption ==
    /\ Len(Views) \in Nat \ {0}
    /\ \A i \in 1..Len(Views) :
         LET v == Views[i]
         IN  \A p \in DOMAIN v.tree : v.tree[p].host_id \in DOMAIN v.hosts
    /\ \A i \in 1..Len(Views) - 1 : \A id \in DOMAIN Views[i].hosts :
         /\ id \in DOMAIN Views[i + 1].hosts
         /\ Views[i + 1].hosts[id] = Views[i].hosts[id]

\* A path is a sequence of names.
ASSUME RequestsAssumption ==
    \A request \in Requests : request.path \in Seq(Int) /\ request.offset \in Nat

\* The path of a node's file on its owner.
FileOf(v, p) ==
    LET host == v.hosts[v.tree[p].host_id]
    IN  <<host.address, <<host.working_dir, p>>>>

\* Shared files do not shrink: those that are there are as long as any view says.
ASSUME SizeAssumption ==
    /\ \A file \in DOMAIN Size : Size[file] \in Nat
    /\ \A i \in 1..Len(Views) : \A p \in DOMAIN Views[i].tree :
         /\ Views[i].tree[p].size \in Nat
         /\ FileOf(Views[i], p) \in DOMAIN Size =>
              Views[i].tree[p].size <= Size[FileOf(Views[i], p)]

ASSUME BoundsAssumption == {MaxFaults, MaxDrops, MaxCalls} \subseteq Nat

VARIABLES tree, hosts,  \* _dir_tree and _hosts
          view,         \* the number of the last view that they were
          link,         \* the connection to the master: "up"; "closed", where a
                        \* read may have finished before; "failing", where the
                        \* next read is under way; "over"
          updating,     \* what the network thread does with the lock held
          calls,
          mounted

vars == <<sshVars, tree, hosts, view, link, updating, calls, mounted>>

metadata == <<tree, hosts, view, link, updating>>

\* What a thread leaves alone outside of its session.
outside == <<conns, faults, others, metadata, calls, mounted>>

Idle == [pc |-> "idle"]

Init ==
    /\ th = [t \in Thread |-> Idle]
    /\ session = << >> /\ conns = << >>
    /\ gone = {} /\ faults = 0 /\ drops = 0
    /\ crashed = "no"
    /\ tree = Views[1].tree /\ hosts = Views[1].hosts
    /\ view = 1 /\ link = "up"
    /\ updating = "no"
    /\ calls = 0
    /\ mounted = TRUE

Busy(t) == th[t].pc \notin {"idle", "dead"}

----------------------------------------------------------------------------
(* The network thread.                                                     *)

\* The network thread takes the lock to replace the metadata, or to drop what is
\* not the node's own.  Nodes that it frees are dead for whoever points to them.
Lock(why, freed) ==
    /\ updating = "no" /\ mounted /\ crashed = "no"
    /\ Overlap \/ \A t \in Thread : ~Busy(t)
    /\ updating' = why
    /\ th' = [t \in Thread |->
                IF th[t].pc = "inspect" /\ th[t].node \in freed
                THEN [th[t] EXCEPT !.dead = TRUE] ELSE th[t]]
    /\ UNCHANGED <<session, conns, faults, others, tree, hosts, view, link, calls, mounted>>

\* UserFS::updateInfo begins to assign the children of the root and the hosts.  A
\* read that had finished when the socket was closed is handled as any other.
BeginUpdate ==
    /\ view < Len(Views) /\ link \in {"up", "closed"}
    /\ Lock("update", DOMAIN tree)

\* After an update the next packet is read.
ReadOn == link' = IF link = "closed" THEN "failing" ELSE link

\* Mutant: the host table is not replaced.
EndUpdateKeepsHosts ==
    /\ updating = "update" /\ crashed = "no"
    /\ tree' = Views[view + 1].tree
    /\ view' = view + 1
    /\ updating' = "no"
    /\ ReadOn
    /\ UNCHANGED <<sshVars, hosts, calls, mounted>>

\* updateInfo is done.
EndUpdate ==
    /\ updating = "update" /\ crashed = "no"
    /\ tree' = Views[view + 1].tree
    /\ hosts' = Views[view + 1].hosts
    /\ view' = view + 1
    /\ updating' = "no"
    /\ ReadOn
    /\ UNCHANGED <<sshVars, calls, mounted>>

\* UserFS::disconnect begins to erase the nodes of the others.
BeginDisconnect ==
    /\ link # "over"
    /\ Lock("disconnect", {p \in DOMAIN tree : tree[Top(p)].host_id # HostId})

\* disconnect is done.  It is called once for a failed read and once for a failed
\* write, so after the first time the other operation may still be under way.
EndDisconnect ==
    /\ updating = "disconnect" /\ crashed = "no"
    /\ tree' = RemoveNotOf(tree, HostId)
    /\ link' \in IF link = "up" THEN {"closed", "over"} ELSE {"over"}
    /\ updating' = "no"
    /\ UNCHANGED <<sshVars, hosts, view, calls, mounted>>

----------------------------------------------------------------------------
(* The FUSE callbacks.                                                     *)

\* nullptr, where a node is named by its path and the root by the empty one.
NoNode == <<-1>>

\* DirTree::find: from the root down, one name of the path after the other.  The
\* paths of FUSE are absolute and have no dots, which find would skip.
Find(t, path) ==
    IF \A i \in 1..Len(path) : SubSeq(path, 1, i) \in DOMAIN t THEN path ELSE NoNode

\* The kernel asks for something.
Call(t, request) ==
    /\ mounted /\ th[t] = Idle
    /\ calls < MaxCalls
    /\ calls' = calls + 1
    /\ th' = [th EXCEPT ![t] =
                [pc |-> "find", op |-> request.op, path |-> request.path,
                 offset |-> request.offset, node |-> NoNode, dead |-> FALSE, id |-> 0,
                 remote |-> NoPath, fresh |-> FALSE, retry |-> FALSE, troubled |-> FALSE,
                 ans |-> [kind |-> "none", data |-> << >>]]]
    /\ UNCHANGED <<session, conns, faults, others, metadata, mounted>>

\* UserFS::find, under the lock.
FindNode(t) ==
    /\ th[t].pc = "find"
    /\ updating = "no"
    /\ th' = [th EXCEPT ![t].pc = "inspect", ![t].node = Find(tree, th[t].path)]
    /\ UNCHANGED <<session, outside>>

\* The node that a pointer points to; the root is always there.
NodeAt(p) ==
    IF p = << >> THEN [type |-> "DIRECTORY", host_id |-> HostId, size |-> 0] ELSE tree[p]

\* The callback reads the node it found after the lock was released, and all but
\* read are done then.
Inspect(t) ==
    LET self == th[t]
        node == NodeAt(self.node)
        children == {p \in DOMAIN tree : /\ Len(p) = Len(self.node) + 1
                                         /\ SubSeq(p, 1, Len(self.node)) = self.node}
    IN  /\ IF self.node = NoNode THEN Answer(t, "ENOENT", << >>)
           ELSE CASE self.op = "getattr" -> Answer(t, "attr", node.type)
                  [] self.op = "readdir" ->
                        IF node.type # "DIRECTORY" THEN Answer(t, "ENOTDIR", << >>)
                        ELSE Answer(t, "names", children)
                  [] self.op = "open" -> Answer(t, "ok", << >>)
                  [] self.op = "open for writing" -> Answer(t, "EACCES", << >>)
                  [] OTHER ->           \* "read"
                        IF node.type = "DIRECTORY" THEN Answer(t, "EISDIR", << >>)
                        ELSE IF self.offset >= node.size THEN Answer(t, "eof", << >>)
                        ELSE th' = [th EXCEPT ![t].pc = "find host", ![t].id = node.host_id]
        /\ UNCHANGED <<session, conns, faults, others>>

\* The node has been freed, or its children are being replaced.
Torn(t) == th[t].dead \/ (updating # "no" /\ th[t].op = "readdir" /\ th[t].node = << >>)

InspectNode(t) ==
    /\ th[t].pc = "inspect"
    /\ IF Torn(t) THEN Undefined("node") ELSE Inspect(t)
    /\ UNCHANGED <<metadata, calls, mounted>>

----------------------------------------------------------------------------
(* UserFS::read and SSHManager.                                            *)

\* UserFS::read reads _hosts without the lock.
Unguarded(t) ==
    /\ th[t].pc \in {"insert", "locate"}
    /\ updating = "update"
    /\ Undefined("hosts")
    /\ UNCHANGED <<metadata, calls, mounted>>

\* SSHManager::findHost.
FindHost(t) ==
    /\ th[t].pc = "find host"
    /\ Goto(t, IF th[t].id \in DOMAIN session THEN "locate" ELSE "insert")
    /\ UNCHANGED <<session, outside>>

\* emplace of a new id.
Inserted(id, s) ==
    [i \in DOMAIN session \cup {id} |-> IF i = id THEN s ELSE session[i]]

\* Mutant: the place in the table is counted from one.
InsertHostOffByOne(t) ==
    LET id == th[t].id
    IN  /\ th[t].pc = "insert"
        /\ id \notin DOMAIN session
        /\ \E s \in NewSession(hosts[id - 1].address) : session' = Inserted(id, s)
        /\ Goto(t, "locate")
        /\ UNCHANGED outside

\* Mutant: operator[] instead of emplace.
InsertHostReplaces(t) ==
    LET id == th[t].id
    IN  /\ th[t].pc = "insert"
        /\ \E s \in NewSession(hosts[id].address) : session' = Inserted(id, s)
        /\ Goto(t, "locate")
        /\ UNCHANGED outside

\* SSHManager::insertHost.  Another thread may have been faster: emplace leaves
\* its session, and the read fails.
InsertHost(t) ==
    LET id == th[t].id
    IN  /\ th[t].pc = "insert"
        /\ \/ /\ id \notin DOMAIN session
              /\ \E s \in NewSession(hosts[id].address) : session' = Inserted(id, s)
              /\ Goto(t, "locate")
           \/ /\ id \in DOMAIN session
              /\ Answer(t, "EIO", << >>)
              /\ UNCHANGED session
        /\ UNCHANGED outside

\* Two threads use the unordered_map at once, one of them to insert.
MapRace(t) ==
    /\ th[t].pc = "insert"
    /\ \E u \in Thread \ {t} : th[u].pc \in {"find host", "insert", "check"}
    /\ Undefined("map")
    /\ UNCHANGED <<metadata, calls, mounted>>

\* The path on the owner, and the read itself if that is this node: a file that
\* cannot be opened gives no bytes, and bad() is false; bad() tells of an error in
\* a file that is open.
Locate(t) ==
    LET self   == th[t]
        host   == hosts[self.id]
        remote == <<host.working_dir, self.path>>
        file   == <<host.address, remote>>
        opened == file \in DOMAIN Size \ gone
    IN  /\ self.pc = "locate"
        /\ \/ /\ self.id # HostId
              /\ th' = [th EXCEPT ![t].pc = "check", ![t].remote = remote]
              /\ UNCHANGED faults
           \/ /\ self.id = HostId
              /\ IF opened /\ self.offset < Size[file]
                 THEN Answer(t, "bytes", <<file, self.offset>>)
                 ELSE Answer(t, "eof", << >>)
              /\ UNCHANGED faults
           \/ /\ self.id = HostId /\ opened
              /\ Fails(FALSE)
              /\ th' = [th EXCEPT ![t].pc = "done", ![t].troubled = TRUE,
                                  ![t].ans = [kind |-> "EIO", data |-> << >>]]
        /\ UNCHANGED <<session, conns, others, metadata, calls, mounted>>

\* The callback returns.
Return(t) ==
    /\ th[t].pc = "done"
    /\ th' = [th EXCEPT ![t] = Idle]
    /\ UNCHANGED <<session, outside>>

----------------------------------------------------------------------------
\* The owner of a file removes it.
RemoveFile(file) ==
    /\ Cardinality(gone) < MaxGone
    /\ gone' = gone \cup {file}
    /\ UNCHANGED <<th, session, conns, faults, drops, crashed, metadata, calls, mounted>>

\* The filesystem is unmounted, and ~SSHManager deletes the sessions.
Unmount ==
    /\ mounted
    /\ \A t \in Thread : th[t] = Idle
    /\ mounted' = FALSE
    /\ IF \E id \in DOMAIN session, part \in Parts : Invalid(session[id][part], part)
       THEN Undefined("session")
       ELSE /\ conns' = [c \in DOMAIN conns |->
                           LET s == session[conns[c].of]
                           IN  [conns[c] EXCEPT !.parts = {part \in @ : s[part] # c},
                                                !.up = @ /\ s.ssh # c]]
            /\ session' = << >>
            /\ UNCHANGED <<th, gone, faults, drops, crashed>>
    /\ UNCHANGED <<metadata, calls>>

ThreadStep(t) ==
    \/ FindNode(t) \/ InspectNode(t) \/ Unguarded(t) \/ FindHost(t)
    \/ InsertHost(t) \/ MapRace(t) \/ Locate(t) \/ Return(t)
    \/ SessionStep(t) /\ UNCHANGED <<metadata, calls, mounted>>

Next ==
    \/ \E t \in Thread : ThreadStep(t)
    \/ \E t \in Thread, request \in Requests : Call(t, request)
    \/ BeginUpdate \/ EndUpdate \/ BeginDisconnect \/ EndDisconnect
    \/ \E c \in DOMAIN conns : Drop(c) /\ UNCHANGED <<metadata, calls, mounted>>
    \/ \E file \in DOMAIN Size \ gone : RemoveFile(file)
    \/ Unmount

Spec == Init /\ [][Next]_vars

\* A thread that can take a step does, and the lock is released.
FairSpec ==
    /\ Spec
    /\ \A t \in Thread : WF_vars(ThreadStep(t))
    /\ WF_vars(EndUpdate \/ EndDisconnect)

----------------------------------------------------------------------------
(* Properties.                                                             *)

Handle == {Null, Wild} \cup DOMAIN conns

\* The type invariant.  A session's handles are null, unset or of a connection
\* that was made, and each connection belongs to a session of the table.
FileTypeOK ==
    /\ \A t \in Thread : Busy(t) =>
         /\ th[t].node \in (UNION {DOMAIN Views[i].tree : i \in 1..Len(Views)})
                             \cup {<< >>, NoNode}
         /\ th[t].id \in {0} \cup DOMAIN hosts
    /\ \A id \in DOMAIN session :
         /\ id \in DOMAIN hosts
         /\ {session[id].ssh, session[id].sftp, session[id].file} \subseteq Handle
    /\ \A c \in DOMAIN conns :
         /\ conns[c].parts \subseteq Parts
         /\ mounted => conns[c].of \in DOMAIN session
    /\ gone \subseteq DOMAIN Size
    /\ faults \in 0..MaxFaults /\ drops \in 0..MaxDrops /\ calls \in 0..MaxCalls
    /\ view \in 1..Len(Views) /\ link \in {"up", "closed", "failing", "over"}
    /\ updating \in {"no", "update", "disconnect"}

\* The file that a thread in UserFS::read is asked for.
Asked(t) == <<hosts[th[t].id].address, <<hosts[th[t].id].working_dir, th[t].path>>>>

HasRead(t) == th[t].pc = "done" /\ th[t].op = "read" /\ th[t].id # 0

\* A read returns the block that was asked for, of the file with that path below
\* the working directory of the node's owner, whatever file the session had open
\* before, wherever it stood and however often the connection was made anew
\* (SSHSession::read and do_read).  A read inside a remote file is never answered
\* as if the file had ended.
RightBytes ==
    \A t \in Thread : HasRead(t) =>
        /\ th[t].ans.kind = "bytes" => th[t].ans.data = <<Asked(t), th[t].offset>>
        /\ th[t].ans.kind = "eof" => th[t].id = HostId

\* A read fails only if the node's own file could not be read, or if a connection to
\* its owner could not be made, or was lost, after the read had begun to make it.  A
\* connection that the server closed before, or that fails at the first try, is
\* replaced without the reader seeing it (UserFS::read, SSHSession::read).
ErrorsExplained ==
    \A t \in Thread : HasRead(t) /\ th[t].ans.kind = "EIO" => th[t].troubled

\* One thread alone never uses or releases an object of libssh that has been
\* released before, although a change of the file overwrites the handles of the
\* previous connection, all of them or only the first ones (do_connect, disconnect).
NoFreedHandle == crashed # "freed"

\* The bytes that a read returns are from the machine that the host table names for
\* the node's owner, also if other threads use, close and open again the session that
\* the read goes through, of which none is locked (UserFS::read, SSHSession).  What
\* threads that share a session may get wrong is the file and the place in it.
RightHost ==
    \A t \in Thread : HasRead(t) /\ th[t].ans.kind = "bytes" =>
        th[t].ans.data[1][1] = hosts[th[t].id].address

\* The session kept for a host goes to the address that the host table has for it
\* now, although sessions are made once and the table is replaced again and again
\* (UserFS::read, SSHManager::insertHost).
SessionAddress ==
    \A id \in DOMAIN session : session[id].address = hosts[id].address

\* A host from which a file has once been opened has no unset handle any more: its
\* session is never made again, also if two threads both found none and both insert
\* one (SSHManager::insertHost), and no step takes a handle back (do_connect,
\* disconnect).  So only the first connection to a host can die of unset handles.
SessionKept ==
    \A c \in DOMAIN conns : mounted /\ conns[c].file # NoPath =>
        \A part \in Parts : session[conns[c].of][part] # Wild

\* Every request is answered, unless the process dies of undefined behaviour: no
\* failure of a server and no update leaves a FUSE thread waiting or retrying.
CallsReturn ==
    \A t \in Thread : Busy(t) ~> (~Busy(t) \/ crashed # "no")

=============================================================================
