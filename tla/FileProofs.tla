----------------------------- MODULE FileProofs -----------------------------
(***************************************************************************)
(* The sessions of a mounted node go to the right addresses and its        *)
(* handles stay in order, for any number of FUSE threads, any requests and *)
(* any sequence of views.                                                  *)
(*                                                                         *)
(* What has to be followed is an owner's id: from the tree, through the    *)
(* pointer a thread holds without the lock and its copy of the id, into    *)
(* the table of sessions, while tree and host table are replaced; and then *)
(* which connections the handles of a session are of.                      *)
(***************************************************************************)
EXTENDS FileAccess, TLAPS

ThreadFields == {"pc", "op", "path", "offset", "node", "dead", "id", "remote",
                 "fresh", "retry", "troubled", "ans"}

SessionFields == {"address", "open", "ssh", "sftp", "file"}

\* A thread that runs has all its locals.
ThreadsOK ==
    /\ DOMAIN th = Thread
    /\ \A t \in Thread :
         /\ "pc" \in DOMAIN th[t]
         /\ Busy(t) => DOMAIN th[t] = ThreadFields /\ th[t].path \in Seq(Int)

\* A pointer to a node that has not been freed is to the root, to a node of the
\* tree, or null; while the tree is being changed, to nothing that is removed.
PointersOK ==
    \A t \in Thread : th[t].pc = "inspect" /\ ~th[t].dead =>
        \/ th[t].node \in {<< >>, NoNode}
        \/ /\ th[t].node \in DOMAIN tree
           /\ updating # "update"
           /\ updating = "disconnect" => tree[Top(th[t].node)].host_id = HostId

\* The id that a thread is about to look up is in the host table.
IdsOK ==
    \A t \in Thread : th[t].pc \in {"find host", "insert"} => th[t].id \in DOMAIN hosts

\* Every node has its host in the table, which is the one of the view.
MetadataOK ==
    /\ view \in 1..Len(Views) /\ hosts = Views[view].hosts
    /\ updating = "update" => view < Len(Views)
    /\ link \in {"up", "closed", "failing", "over"}
    /\ \A p \in DOMAIN tree : tree[p].host_id \in DOMAIN hosts

\* A session is of a host in the table, and goes to its address.
SessionsOK ==
    \A id \in DOMAIN session :
        /\ id \in DOMAIN hosts
        /\ DOMAIN session[id] = SessionFields
        /\ session[id].address = hosts[id].address

FileInv == ThreadsOK /\ PointersOK /\ IdsOK /\ MetadataOK /\ SessionsOK

----------------------------------------------------------------------------
\* Thread t goes on to a place where it neither holds a pointer nor looks up an id.
Leaves(t) ==
    /\ DOMAIN th' = Thread
    /\ \A u \in Thread \ {t} : th'[u] = th[u]
    /\ DOMAIN th'[t] = DOMAIN th[t]
    /\ th'[t].path = th[t].path
    /\ th'[t].pc \notin {"inspect", "find host", "insert"}

\* Sessions are neither added nor removed, and keep their addresses.
SameSessions ==
    /\ DOMAIN session' = DOMAIN session
    /\ \A id \in DOMAIN session :
         DOMAIN session'[id] = DOMAIN session[id] /\ session'[id].address = session[id].address

\* A busy thread that leaves, without changing the metadata or the sessions' addresses,
\* keeps the invariant.
LEMMA LeavesKeeps ==
    ASSUME FileInv, NEW t \in Thread, Busy(t), Leaves(t), SameSessions, UNCHANGED metadata
    PROVE  FileInv'
<1>1. ThreadsOK'
  BY Zenon DEF FileInv, ThreadsOK, Leaves, Busy, ThreadFields
<1>2. PointersOK'
  BY Zenon DEF FileInv, PointersOK, Leaves, metadata, Top
<1>3. IdsOK'
  BY Zenon DEF FileInv, IdsOK, Leaves, metadata
<1>4. MetadataOK'
  BY Zenon DEF FileInv, MetadataOK, metadata
<1>5. SessionsOK'
  BY Zenon DEF FileInv, SessionsOK, SameSessions, metadata
<1> QED BY Zenon, <1>1, <1>2, <1>3, <1>4, <1>5 DEF FileInv

\* So does undefined behaviour, after which no thread goes on.
LEMMA UndefinedKeeps ==
    ASSUME FileInv, NEW what, Undefined(what), UNCHANGED metadata
    PROVE  FileInv'
<1> USE DEF Undefined, metadata
<1>1. \A t \in Thread : DOMAIN th'[t] = {"pc"} /\ th'[t].pc = "dead"
  BY Zenon
<1>2. ThreadsOK'
  BY Zenon, <1>1 DEF ThreadsOK, Busy
<1>3. PointersOK' /\ IdsOK'
  BY Zenon, <1>1 DEF PointersOK, IdsOK
<1>4. MetadataOK' /\ SessionsOK'
  BY Zenon DEF FileInv, MetadataOK, SessionsOK
<1> QED BY Zenon, <1>2, <1>3, <1>4 DEF FileInv

----------------------------------------------------------------------------
\* The ways in which a step of UserFS::read takes a thread on.
LEMMA Moves ==
    ASSUME FileInv, NEW t \in Thread, Busy(t)
    PROVE  /\ \A pc : Goto(t, pc) /\ pc \notin {"inspect", "find host", "insert"} => Leaves(t)
           /\ \A kind, data : Answer(t, kind, data) => Leaves(t)
           /\ ConnectFails(t) => Leaves(t)
           /\ ReadFails(t) => Leaves(t)
<1> USE DEF Leaves, ThreadFields
<1>0. DOMAIN th = Thread /\ DOMAIN th[t] = ThreadFields
  BY Zenon DEF FileInv, ThreadsOK
<1>1. ASSUME NEW pc, Goto(t, pc), pc \notin {"inspect", "find host", "insert"} PROVE Leaves(t)
  BY Zenon, <1>0, <1>1 DEF Goto
<1>2. ASSUME NEW kind, NEW data, Answer(t, kind, data) PROVE Leaves(t)
  BY Zenon, <1>0, <1>2 DEF Answer
<1>3. ASSUME ConnectFails(t) PROVE Leaves(t)
  BY Zenon, <1>0, <1>3 DEF ConnectFails
<1>4. ASSUME ReadFails(t) PROVE Leaves(t)
  BY Zenon, <1>0, <1>4 DEF ReadFails
<1> QED BY Zenon, <1>1, <1>2, <1>3, <1>4

\* The ways in which it changes a session: never the address.
LEMMA SessionChanges ==
    ASSUME FileInv, NEW id, NEW v
    PROVE  /\ UNCHANGED session => SameSessions
           /\ session' = [session EXCEPT ![id].ssh = v] => SameSessions
           /\ session' = [session EXCEPT ![id].sftp = v] => SameSessions
           /\ session' = [session EXCEPT ![id].file = v] => SameSessions
           /\ session' = [session EXCEPT ![id].open = v] => SameSessions
<1>0. \A i \in DOMAIN session : DOMAIN session[i] = SessionFields
  BY Zenon DEF FileInv, SessionsOK
<1> USE <1>0 DEF SameSessions, SessionFields
<1>1. UNCHANGED session => SameSessions
  BY Zenon
<1>2. session' = [session EXCEPT ![id].ssh = v] => SameSessions
  OBVIOUS
<1>3. session' = [session EXCEPT ![id].sftp = v] => SameSessions
  OBVIOUS
<1>4. session' = [session EXCEPT ![id].file = v] => SameSessions
  OBVIOUS
<1>5. session' = [session EXCEPT ![id].open = v] => SameSessions
  OBVIOUS
<1> QED BY Zenon, <1>1, <1>2, <1>3, <1>4, <1>5

\* The steps of SSHSession change neither the address of a session nor the set of
\* sessions, and leave the thread inside UserFS::read, or done.
LEMMA SessionStepKeeps ==
    ASSUME FileInv, NEW t \in Thread, SessionStep(t), UNCHANGED metadata
    PROVE  FileInv'
<1> DEFINE Bad == \E what : Undefined(what)
           Fine == Busy(t) /\ Leaves(t) /\ SameSessions
           id == th[t].id
<1>0. /\ UNCHANGED session => SameSessions
      /\ \A v : session' = [session EXCEPT ![id].ssh = v] => SameSessions
      /\ \A v : session' = [session EXCEPT ![id].sftp = v] => SameSessions
      /\ \A v : session' = [session EXCEPT ![id].file = v] => SameSessions
      /\ \A v : session' = [session EXCEPT ![id].open = v] => SameSessions
  BY Zenon, SessionChanges
<1>1. ASSUME Check(t) PROVE Fine
  <2>1. Busy(t)  BY Zenon, <1>1 DEF Check, Busy
  <2> QED BY Zenon, <1>0, <1>1, <2>1, Moves DEF Check
<1>2. ASSUME SshNew(t) PROVE Fine
  <2>1. Busy(t)  BY Zenon, <1>2 DEF SshNew, Busy
  <2> QED BY Zenon, <1>0, <1>2, <2>1, Moves DEF SshNew
<1>3. ASSUME SshConnect(t) PROVE Fine \/ Bad
  <2>1. Busy(t)  BY Zenon, <1>3 DEF SshConnect, Busy
  <2> QED BY Zenon, <1>0, <1>3, <2>1, Moves DEF SshConnect, BadHandle
<1>4. ASSUME SftpNew(t) PROVE Fine \/ Bad
  <2>1. Busy(t)  BY Zenon, <1>4 DEF SftpNew, Busy
  <2> QED BY Zenon, <1>0, <1>4, <2>1, Moves DEF SftpNew, BadHandle
<1>5. ASSUME SftpOpen(t) PROVE Fine \/ Bad
  <2>1. Busy(t)  BY Zenon, <1>5 DEF SftpOpen, Busy
  <2>2. DOMAIN th = Thread /\ DOMAIN th[t] = ThreadFields
    BY Zenon, <2>1 DEF FileInv, ThreadsOK
  <2>3. th' = [th EXCEPT ![t].pc = "seek", ![t].fresh = TRUE] => Leaves(t)
    BY <2>2 DEF Leaves, ThreadFields
  <2>4. \A i \in DOMAIN session : DOMAIN session[i] = SessionFields
    BY Zenon DEF FileInv, SessionsOK
  <2>5. session' = [session EXCEPT ![id].file = Mine(t).sftp, ![id].open = th[t].remote]
          => SameSessions
    BY <2>4 DEF SameSessions, SessionFields
  <2> QED BY Zenon, <1>0, <1>5, <2>1, <2>3, <2>5, Moves DEF SftpOpen, BadHandle
<1>6. ASSUME Seek(t) PROVE Fine \/ Bad
  <2>1. Busy(t)  BY Zenon, <1>6 DEF Seek, Busy
  <2> QED BY Zenon, <1>0, <1>6, <2>1, Moves DEF Seek, BadHandle, ReadFails
<1>7. ASSUME Fetch(t) PROVE Fine \/ Bad
  <2>1. Busy(t)  BY Zenon, <1>7 DEF Fetch, Busy
  <2>2. ReadFails(t) => UNCHANGED session  BY Zenon DEF ReadFails
  <2> QED BY Zenon, <1>0, <1>7, <2>1, <2>2, Moves DEF Fetch, BadHandle
<1>8. ASSUME CloseFile(t) PROVE Fine \/ Bad
  <2>1. Busy(t)  BY Zenon, <1>8 DEF CloseFile, Busy
  <2> QED BY Zenon, <1>0, <1>8, <2>1, Moves DEF CloseFile, Release, BadHandle, Mine
<1>9. ASSUME CloseSftp(t) PROVE Fine \/ Bad
  <2>1. Busy(t)  BY Zenon, <1>9 DEF CloseSftp, Busy
  <2> QED BY Zenon, <1>0, <1>9, <2>1, Moves DEF CloseSftp, Release, BadHandle, Mine
<1>10. ASSUME CloseSsh(t) PROVE Fine \/ Bad
  <2>1. Busy(t)  BY Zenon, <1>10 DEF CloseSsh, Busy
  <2> QED BY Zenon, <1>0, <1>10, <2>1, Moves DEF CloseSsh, Release, BadHandle, Mine
<1>11. ASSUME Closed(t) PROVE Fine
  <2>1. Busy(t)  BY Zenon, <1>11 DEF Closed, Busy
  <2>2. DOMAIN th = Thread /\ DOMAIN th[t] = ThreadFields
    BY Zenon, <2>1 DEF FileInv, ThreadsOK
  <2>3. th' = [th EXCEPT ![t].pc = "new", ![t].retry = FALSE] => Leaves(t)
    BY <2>2 DEF Leaves, ThreadFields
  <2> QED BY Zenon, <1>0, <1>11, <2>1, <2>3, Moves DEF Closed
<1>12. Fine \/ Bad
  BY Zenon, <1>1, <1>2, <1>3, <1>4, <1>5, <1>6, <1>7, <1>8, <1>9, <1>10, <1>11 DEF SessionStep
<1>13. CASE Fine
  BY Zenon, <1>13, LeavesKeeps
<1>14. CASE Bad
  BY Zenon, <1>14, UndefinedKeeps
<1> QED BY Zenon, <1>12, <1>13, <1>14

----------------------------------------------------------------------------
\* What DirTree::find returns is null, the root or a node of the tree.
LEMMA FindResult ==
    ASSUME NEW t, NEW path \in Seq(Int)
    PROVE  Find(t, path) \in {<< >>, NoNode} \/ Find(t, path) \in DOMAIN t
<1>1. CASE path = << >>
  BY Zenon, <1>1 DEF Find
<1>2. CASE path # << >>
  <2>1. Len(path) \in 1..Len(path) /\ SubSeq(path, 1, Len(path)) = path
    BY <1>2
  <2> QED BY Zenon, <2>1 DEF Find
<1> QED BY Zenon, <1>1, <1>2

\* A pointer is got under the lock.
LEMMA FindNodeKeeps ==
    ASSUME FileInv, NEW t \in Thread, FindNode(t)
    PROVE  FileInv'
<1> USE DEF FindNode, outside, metadata
<1>1. /\ DOMAIN th = Thread /\ DOMAIN th[t] = ThreadFields
      /\ th[t].path \in Seq(Int)
  BY Zenon DEF FileInv, ThreadsOK, Busy
<1>2. /\ DOMAIN th' = Thread /\ \A u \in Thread \ {t} : th'[u] = th[u]
      /\ DOMAIN th'[t] = ThreadFields /\ th'[t].path = th[t].path
      /\ th'[t].pc = "inspect" /\ th'[t].node = Find(tree, th[t].path)
  BY Zenon, <1>1 DEF ThreadFields
<1>3. ThreadsOK'
  BY Zenon, <1>1, <1>2 DEF FileInv, ThreadsOK, Busy, ThreadFields
<1>4. PointersOK'
  <2>1. Find(tree, th[t].path) \in {<< >>, NoNode} \/ Find(tree, th[t].path) \in DOMAIN tree
    BY Zenon, <1>1, FindResult
  <2> QED BY <1>2, <2>1 DEF FileInv, PointersOK
<1>5. IdsOK'
  BY Zenon, <1>2 DEF FileInv, IdsOK
<1>6. MetadataOK' /\ SessionsOK'
  BY Zenon DEF FileInv, MetadataOK, SessionsOK
<1> QED BY Zenon, <1>3, <1>4, <1>5, <1>6 DEF FileInv

\* The owner's id is read through the pointer, if the node has not been freed.
LEMMA InspectNodeKeeps ==
    ASSUME FileInv, NEW t \in Thread, InspectNode(t)
    PROVE  FileInv'
<1> DEFINE node == NodeAt(th[t].node)
           ToRead == th' = [th EXCEPT ![t].pc = "find host", ![t].id = node.host_id]
<1>1. UNCHANGED metadata /\ Busy(t) /\ th[t].pc = "inspect"
  BY Zenon DEF InspectNode, Busy
<1>2. CASE Torn(t)
  BY Zenon, <1>1, <1>2, UndefinedKeeps DEF InspectNode
<1>3. CASE ~Torn(t) /\ \E kind, data : Answer(t, kind, data)
  <2>1. UNCHANGED session  BY Zenon, <1>3 DEF InspectNode, Inspect
  <2>2. SameSessions  BY Zenon, <2>1 DEF SameSessions
  <2>3. Leaves(t)  BY Zenon, <1>1, <1>3, Moves
  <2> QED BY Zenon, <1>1, <2>2, <2>3, LeavesKeeps
<1>4. CASE ~Torn(t) /\ ToRead /\ th[t].node # NoNode /\ node.type # "DIRECTORY"
  <2>1. DOMAIN th = Thread /\ DOMAIN th[t] = ThreadFields /\ th[t].path \in Seq(Int)
    BY Zenon, <1>1 DEF FileInv, ThreadsOK
  <2>2. /\ DOMAIN th' = Thread /\ \A u \in Thread \ {t} : th'[u] = th[u]
        /\ DOMAIN th'[t] = ThreadFields /\ th'[t].path = th[t].path
        /\ th'[t].pc = "find host" /\ th'[t].id = node.host_id
    BY Zenon, <1>4, <2>1 DEF ThreadFields
  <2>3. th[t].node \in DOMAIN tree /\ node = tree[th[t].node]
    BY Zenon, <1>1, <1>4 DEF NodeAt, Torn, FileInv, PointersOK
  <2>4. th'[t].id \in DOMAIN hosts
    BY Zenon, <2>2, <2>3 DEF FileInv, MetadataOK
  <2>5. ThreadsOK'
    BY Zenon, <2>1, <2>2 DEF FileInv, ThreadsOK, Busy, ThreadFields
  <2>6. PointersOK' /\ IdsOK'
    BY Zenon, <1>1, <2>2, <2>4 DEF FileInv, PointersOK, IdsOK, metadata
  <2>7. UNCHANGED session  BY Zenon, <1>4 DEF InspectNode, Inspect
  <2>8. MetadataOK' /\ SessionsOK'
    BY Zenon, <1>1, <2>7 DEF FileInv, MetadataOK, SessionsOK, metadata
  <2> QED BY Zenon, <2>5, <2>6, <2>8 DEF FileInv
<1>5. Torn(t) \/ (~Torn(t) /\ Inspect(t))
  BY Zenon DEF InspectNode
<1>6. ASSUME Inspect(t)
      PROVE  \/ \E kind, data : Answer(t, kind, data)
             \/ ToRead /\ th[t].node # NoNode /\ node.type # "DIRECTORY"
  BY <1>6, Zenon DEF Inspect
<1> QED BY Zenon, <1>2, <1>3, <1>4, <1>5, <1>6

\* The id that a thread looks up stays in the table until it inserts a session.
LEMMA FindHostKeeps ==
    ASSUME FileInv, NEW t \in Thread, FindHost(t)
    PROVE  FileInv'
<1> USE DEF FindHost, Goto, outside, metadata
<1>1. DOMAIN th = Thread /\ DOMAIN th[t] = ThreadFields /\ th[t].path \in Seq(Int)
  BY Zenon DEF FileInv, ThreadsOK, Busy
<1>2. /\ DOMAIN th' = Thread /\ \A u \in Thread \ {t} : th'[u] = th[u]
      /\ DOMAIN th'[t] = ThreadFields /\ th'[t].path = th[t].path
      /\ th'[t].pc \in {"locate", "insert"} /\ th'[t].id = th[t].id
  BY Zenon, <1>1 DEF ThreadFields
<1>3. ThreadsOK'
  BY Zenon, <1>1, <1>2 DEF FileInv, ThreadsOK, Busy, ThreadFields
<1>4. PointersOK' /\ IdsOK'
  BY ZenonT(30), <1>2 DEF FileInv, PointersOK, IdsOK
<1>5. MetadataOK' /\ SessionsOK'
  BY Zenon DEF FileInv, MetadataOK, SessionsOK
<1> QED BY Zenon, <1>3, <1>4, <1>5 DEF FileInv

\* A new session is for an id of the table, and gets the address that is there now.
LEMMA InsertHostKeeps ==
    ASSUME FileInv, NEW t \in Thread, InsertHost(t)
    PROVE  FileInv'
<1> DEFINE id == th[t].id
<1>1. Busy(t) /\ UNCHANGED metadata /\ id \in DOMAIN hosts
  BY Zenon DEF InsertHost, outside, Busy, FileInv, IdsOK
<1>2. CASE id \in DOMAIN session
  <2>1. Leaves(t) /\ UNCHANGED session
    BY Zenon, <1>1, <1>2, Moves DEF InsertHost
  <2>2. SameSessions  BY Zenon, <2>1 DEF SameSessions
  <2> QED BY Zenon, <1>1, <2>1, <2>2, LeavesKeeps
<1>3. CASE id \notin DOMAIN session
  <2>1. Leaves(t)
    BY Zenon, <1>1, <1>3, Moves DEF InsertHost
  <2>2. PICK s \in NewSession(hosts[id].address) : session' = Inserted(id, s)
    BY Zenon, <1>3 DEF InsertHost
  <2>3. DOMAIN s = SessionFields /\ s.address = hosts[id].address
    BY Zenon, <2>2 DEF NewSession, SessionFields
  <2>4. ThreadsOK'
    BY Zenon, <1>1, <2>1 DEF FileInv, ThreadsOK, Leaves, Busy, ThreadFields
  <2>5. PointersOK' /\ IdsOK'
    BY Zenon, <1>1, <2>1 DEF FileInv, PointersOK, IdsOK, Leaves, metadata
  <2>6. MetadataOK'
    BY Zenon, <1>1 DEF FileInv, MetadataOK, metadata
  <2>7. SessionsOK'
    BY Zenon, <1>1, <2>2, <2>3 DEF FileInv, SessionsOK, Inserted, metadata
  <2> QED BY Zenon, <2>4, <2>5, <2>6, <2>7 DEF FileInv
<1> QED BY Zenon, <1>2, <1>3

\* A thread that has found its session no longer needs the id to be in the table.
LEMMA LocateKeeps ==
    ASSUME FileInv, NEW t \in Thread, Locate(t)
    PROVE  FileInv'
<1>1. Busy(t) /\ UNCHANGED <<metadata, session>>
  BY Zenon DEF Locate, Busy
<1>2. DOMAIN th = Thread /\ DOMAIN th[t] = ThreadFields
  BY Zenon, <1>1 DEF FileInv, ThreadsOK
<1>3. \A r : th' = [th EXCEPT ![t].pc = "check", ![t].remote = r] => Leaves(t)
  BY <1>2 DEF Leaves, ThreadFields
<1>4. \A a : th' = [th EXCEPT ![t].pc = "done", ![t].troubled = TRUE, ![t].ans = a] => Leaves(t)
  BY <1>2 DEF Leaves, ThreadFields
<1>5. Leaves(t)
  BY Zenon, <1>1, <1>3, <1>4, Moves DEF Locate
<1>6. SameSessions
  BY Zenon, <1>1 DEF SameSessions
<1> QED BY Zenon, <1>1, <1>5, <1>6, LeavesKeeps

\* A thread that gets or ends a request has no pointer and no id.
LEMMA CallReturnKeeps ==
    ASSUME FileInv, NEW t \in Thread, Return(t) \/ \E request \in Requests : Call(t, request)
    PROVE  FileInv'
<1>1. UNCHANGED <<metadata, session>>
  BY Zenon DEF Return, Call, outside
<1>2. DOMAIN th = Thread
  BY Zenon DEF FileInv, ThreadsOK
<1>3. /\ DOMAIN th' = Thread /\ \A u \in Thread \ {t} : th'[u] = th[u]
      /\ \/ DOMAIN th'[t] = {"pc"} /\ th'[t].pc = "idle"
         \/ DOMAIN th'[t] = ThreadFields /\ th'[t].pc = "find" /\ th'[t].path \in Seq(Int)
  BY <1>2, RequestsAssumption DEF Return, Call, Idle, ThreadFields
<1>4. ThreadsOK'
  BY Zenon, <1>3 DEF FileInv, ThreadsOK, Busy, ThreadFields
<1>5. PointersOK' /\ IdsOK'
  BY Zenon, <1>1, <1>3 DEF FileInv, PointersOK, IdsOK, metadata
<1>6. MetadataOK' /\ SessionsOK'
  BY Zenon, <1>1 DEF FileInv, MetadataOK, SessionsOK, metadata
<1> QED BY Zenon, <1>4, <1>5, <1>6 DEF FileInv

----------------------------------------------------------------------------
\* With the lock, what is about to be freed is dead for whoever points to it.
LEMMA BeginKeeps ==
    ASSUME FileInv, BeginUpdate \/ BeginDisconnect
    PROVE  FileInv'
<1>1. /\ UNCHANGED <<session, tree, hosts, view, link>>
      /\ updating = "no"
      /\ updating' = "update" => view < Len(Views)
  BY Zenon DEF BeginUpdate, BeginDisconnect, Lock
<1>2. /\ DOMAIN th' = Thread
      /\ \A t \in Thread : th'[t] = th[t] \/ th'[t] = [th[t] EXCEPT !.dead = TRUE]
  BY Zenon DEF BeginUpdate, BeginDisconnect, Lock
<1>3. \A t \in Thread :
        /\ DOMAIN th'[t] = DOMAIN th[t] /\ th'[t].pc = th[t].pc
        /\ Busy(t) => th'[t].path = th[t].path /\ th'[t].node = th[t].node
                                               /\ th'[t].id = th[t].id
  BY Zenon, <1>2 DEF FileInv, ThreadsOK, ThreadFields, Busy
<1>4. ThreadsOK'
  BY Zenon, <1>2, <1>3 DEF FileInv, ThreadsOK, Busy
<1>5. IdsOK'
  BY Zenon, <1>1, <1>3 DEF FileInv, IdsOK, Busy
<1>6. PointersOK'
  <2> SUFFICES ASSUME NEW t \in Thread, th'[t].pc = "inspect", ~th'[t].dead,
                      th'[t].node \notin {<< >>, NoNode}
               PROVE  /\ th'[t].node \in DOMAIN tree'
                      /\ updating' # "update"
                      /\ updating' = "disconnect" => tree'[Top(th'[t].node)].host_id = HostId
    BY Zenon DEF PointersOK
  <2>1. th[t].pc = "inspect" /\ DOMAIN th[t] = ThreadFields
    BY Zenon, <1>3 DEF FileInv, ThreadsOK, Busy
  <2>2. th'[t] = th[t]
    BY Zenon, <1>2, <2>1 DEF ThreadFields
  <2>3. th[t].node \in DOMAIN tree
    BY Zenon, <2>1, <2>2 DEF FileInv, PointersOK
  <2>4. CASE BeginUpdate
    <3>1. th'[t] = [th[t] EXCEPT !.dead = TRUE]
      BY Zenon, <2>1, <2>3, <2>4 DEF BeginUpdate, Lock
    <3> QED BY Zenon, <2>1, <3>1 DEF ThreadFields
  <2>5. CASE BeginDisconnect
    <3>1. tree[Top(th[t].node)].host_id # HostId => th'[t] = [th[t] EXCEPT !.dead = TRUE]
      BY Zenon, <2>1, <2>3, <2>5 DEF BeginDisconnect, Lock
    <3>2. tree[Top(th[t].node)].host_id = HostId
      BY Zenon, <2>1, <3>1 DEF ThreadFields
    <3>3. updating' = "disconnect"
      BY Zenon, <2>5 DEF BeginDisconnect, Lock
    <3> QED BY Zenon, <1>1, <2>2, <2>3, <3>2, <3>3
  <2> QED BY Zenon, <2>4, <2>5
<1>7. MetadataOK' /\ SessionsOK'
  BY Zenon, <1>1 DEF FileInv, MetadataOK, SessionsOK
<1> QED BY Zenon, <1>4, <1>5, <1>6, <1>7 DEF FileInv

\* The new table extends the old one, so ids and sessions stay right.
LEMMA EndUpdateKeeps ==
    ASSUME FileInv, EndUpdate
    PROVE  FileInv'
<1> USE DEF EndUpdate, sshVars
<1>1. /\ view \in 1..Len(Views) - 1 /\ hosts = Views[view].hosts
      /\ view + 1 \in 1..Len(Views)
  BY ViewsAssumption DEF FileInv, MetadataOK
<1>2. \A id \in DOMAIN hosts : id \in DOMAIN hosts' /\ hosts'[id] = hosts[id]
  BY Zenon, <1>1, ViewsAssumption
<1>3. \A p \in DOMAIN tree' : tree'[p].host_id \in DOMAIN hosts'
  BY Zenon, <1>1, ViewsAssumption
<1>4. ThreadsOK'
  BY Zenon DEF FileInv, ThreadsOK, Busy
<1>5. PointersOK' /\ IdsOK'
  BY Zenon, <1>2 DEF FileInv, PointersOK, IdsOK
<1>6. MetadataOK'
  <2>1. link' \in {"up", "closed", "failing", "over"}
    BY Zenon DEF ReadOn, FileInv, MetadataOK
  <2> QED BY <1>1, <1>3, <2>1, ViewsAssumption DEF MetadataOK
<1>7. SessionsOK'
  BY Zenon, <1>2 DEF FileInv, SessionsOK
<1> QED BY Zenon, <1>4, <1>5, <1>6, <1>7 DEF FileInv

\* What is erased had been declared dead; the table stays.
LEMMA EndDisconnectKeeps ==
    ASSUME FileInv, EndDisconnect
    PROVE  FileInv'
<1> USE DEF EndDisconnect, sshVars
<1>1. \A p : p \in DOMAIN tree' <=> p \in DOMAIN tree /\ tree[Top(p)].host_id = HostId
  BY Zenon DEF RemoveNotOf, Restrict
<1>2. \A p \in DOMAIN tree' : tree'[p] = tree[p]
  BY Zenon DEF RemoveNotOf, Restrict
<1>3. ThreadsOK'
  BY Zenon DEF FileInv, ThreadsOK, Busy
<1>4. PointersOK'
  BY Zenon, <1>1 DEF FileInv, PointersOK
<1>5. IdsOK' /\ SessionsOK'
  BY Zenon DEF FileInv, IdsOK, SessionsOK
<1>6. MetadataOK'
  BY <1>1, <1>2, ViewsAssumption DEF FileInv, MetadataOK
<1> QED BY Zenon, <1>3, <1>4, <1>5, <1>6 DEF FileInv

----------------------------------------------------------------------------
\* A connection that is closed by its server, a file that is removed and the end of
\* the mount change no pointer, no id and no address.
LEMMA OutsideKeeps ==
    ASSUME FileInv,
           \/ \E c \in DOMAIN conns : Drop(c) /\ UNCHANGED <<metadata, calls, mounted>>
           \/ \E file \in DOMAIN Size \ gone : RemoveFile(file)
           \/ Unmount
    PROVE  FileInv'
<1>1. ASSUME NEW c \in DOMAIN conns, Drop(c), UNCHANGED metadata PROVE FileInv'
  <2>1. /\ DOMAIN th' = Thread /\ UNCHANGED session
        /\ \A t \in Thread : th'[t] = th[t] \/ th'[t] = [th[t] EXCEPT !.troubled = TRUE]
    BY Zenon, <1>1 DEF Drop
  <2>2. \A t \in Thread :
          /\ DOMAIN th'[t] = DOMAIN th[t] /\ th'[t].pc = th[t].pc
          /\ Busy(t) => /\ th'[t].path = th[t].path /\ th'[t].node = th[t].node
                        /\ th'[t].id = th[t].id /\ th'[t].dead = th[t].dead
    BY Zenon, <2>1 DEF FileInv, ThreadsOK, ThreadFields, Busy
  <2>3. ThreadsOK'
    BY Zenon, <2>1, <2>2 DEF FileInv, ThreadsOK, Busy
  <2>4. PointersOK' /\ IdsOK'
    BY Zenon, <1>1, <2>2 DEF FileInv, PointersOK, IdsOK, Busy, metadata
  <2>5. MetadataOK' /\ SessionsOK'
    BY Zenon, <1>1, <2>1 DEF FileInv, MetadataOK, SessionsOK, metadata
  <2> QED BY Zenon, <2>3, <2>4, <2>5 DEF FileInv
<1>2. ASSUME NEW file, RemoveFile(file) PROVE FileInv'
  BY Zenon, <1>2 DEF RemoveFile, metadata, FileInv, ThreadsOK, PointersOK, IdsOK, MetadataOK,
     SessionsOK, Busy
<1>3. ASSUME Unmount PROVE FileInv'
  <2>1. UNCHANGED metadata
    BY Zenon, <1>3 DEF Unmount
  <2>2. CASE Undefined("session")
    BY Zenon, <2>1, <2>2, UndefinedKeeps
  <2>3. CASE ~Undefined("session")
    <3>1. session' = << >> /\ UNCHANGED th
      BY Zenon, <1>3, <2>3 DEF Unmount
    <3>2. DOMAIN session' = {}
      BY <3>1
    <3> QED BY Zenon, <2>1, <3>1, <3>2 DEF metadata, FileInv, ThreadsOK, PointersOK, IdsOK,
               MetadataOK, SessionsOK, Busy
  <2> QED BY Zenon, <2>2, <2>3
<1> QED BY Zenon, <1>1, <1>2, <1>3

\* The mount begins with the first view, no session and idle threads.
LEMMA FileInit == Init => FileInv
<1> SUFFICES ASSUME Init PROVE FileInv
  BY Zenon
<1>1. /\ DOMAIN th = Thread
      /\ \A t \in Thread : DOMAIN th[t] = {"pc"} /\ th[t].pc = "idle"
  BY Zenon DEF Init, Idle
<1>2. ThreadsOK /\ PointersOK /\ IdsOK
  BY Zenon, <1>1 DEF ThreadsOK, PointersOK, IdsOK, Busy
<1>3. MetadataOK
  BY ViewsAssumption DEF Init, MetadataOK
<1>4. SessionsOK
  <2>1. DOMAIN session = {}
    BY DEF Init
  <2> QED BY Zenon, <2>1 DEF SessionsOK
<1> QED BY Zenon, <1>2, <1>3, <1>4 DEF FileInv

\* Every step of the FUSE threads, the network thread and the outside keeps FileInv.
LEMMA FileNext == FileInv /\ [Next]_vars => FileInv'
<1> SUFFICES ASSUME FileInv, [Next]_vars PROVE FileInv'
  BY Zenon
<1>1. ASSUME NEW t \in Thread, ThreadStep(t) PROVE FileInv'
  <2>1. ASSUME Unguarded(t) \/ MapRace(t) PROVE FileInv'
    BY Zenon, <2>1, UndefinedKeeps DEF Unguarded, MapRace
  <2>2. ASSUME SessionStep(t), UNCHANGED <<metadata, calls, mounted>> PROVE FileInv'
    BY Zenon, <2>2, SessionStepKeeps
  <2> QED BY Zenon, <1>1, <2>1, <2>2, FindNodeKeeps, InspectNodeKeeps, FindHostKeeps,
             InsertHostKeeps, LocateKeeps, CallReturnKeeps DEF ThreadStep
<1>2. ASSUME NEW t \in Thread, NEW request \in Requests, Call(t, request) PROVE FileInv'
  BY Zenon, <1>2, CallReturnKeeps
<1>3. CASE UNCHANGED vars
  BY Zenon, <1>3 DEF vars, sshVars, FileInv, ThreadsOK, PointersOK, IdsOK, MetadataOK, SessionsOK, Busy
<1> QED BY Zenon, <1>1, <1>2, <1>3, BeginKeeps, EndUpdateKeeps, EndDisconnectKeeps, OutsideKeeps
        DEF Next

\* For any threads, requests and views: the session that UserFS::read keeps for a
\* host goes to the address that the host table has for it now, whatever updates
\* come between the lookup of a node, the insertion of the session and its use.
\* (A thread that uses freed memory meanwhile ends the process, and the behaviour.)
THEOREM SessionsReachHosts == Spec => []SessionAddress
<1>1. FileInv => SessionAddress
  BY Zenon DEF FileInv, SessionsOK, SessionAddress
<1> QED BY <1>1, FileInit, FileNext, PTL DEF Spec

\* For any threads, requests and views: the id under which UserFS::read is about to
\* look up, or to insert, a host is in the host table, although it was read through
\* a pointer that was used without the lock, and the table may be a later one.
THEOREM LookupInTable == Spec => []IdsOK
<1>1. FileInv => IdsOK
  BY Zenon DEF FileInv
<1> QED BY <1>1, FileInit, FileNext, PTL DEF Spec

----------------------------------------------------------------------------
(* The handles of the sessions, for any number of threads.                 *)

\* The places of a thread that has found its session in the table.
InSession == {"locate", "check", "new", "connect", "sftp", "open", "seek", "fetch",
              "disconnect", "close sftp", "close ssh", "closed"}

ConnFields == {"of", "to", "up", "parts", "file", "pos"}

AllNodes == UNION {DOMAIN Views[i].tree : i \in 1..Len(Views)}

\* The connections are a sequence of records, each of a session of the table.
ConnsOK ==
    /\ \E S : conns \in Seq(S)
    /\ \A c \in DOMAIN conns :
         /\ DOMAIN conns[c] = ConnFields
         /\ conns[c].parts \subseteq Parts
         /\ mounted => conns[c].of \in DOMAIN session

\* A handle is null, unset, or of a connection that was made for its session.
HandlesOK ==
    \A id \in DOMAIN session : \A part \in Parts :
        LET h == session[id][part]
        IN  h \in {Null, Wild} \/ (h \in DOMAIN conns /\ conns[h].of = id)

\* Who uses a session finds it in the table; who has called ssh_new, its handle set.
UsersOK ==
    \A t \in Thread :
        /\ th[t].pc \in InSession => th[t].id \in DOMAIN session
        /\ th[t].pc \in {"connect", "sftp", "open"} => session[th[t].id].ssh # Wild

\* The rest of the type invariant.
BoundsOK ==
    /\ gone \subseteq DOMAIN Size
    /\ faults \in 0..MaxFaults /\ drops \in 0..MaxDrops /\ calls \in 0..MaxCalls
    /\ updating \in {"no", "update", "disconnect"}
    /\ DOMAIN tree \subseteq AllNodes
    /\ \A t \in Thread : Busy(t) =>
         /\ th[t].node \in AllNodes \cup {<< >>, NoNode}
         /\ th[t].id \in {0} \cup DOMAIN hosts

HandleInv == ConnsOK /\ HandlesOK /\ UsersOK /\ SessionKept /\ BoundsOK

----------------------------------------------------------------------------
\* A thread that uses session i changes handles of that session only, to null or
\* to connections made for it, and never back to an unset value.
Handled(t, i) ==
    /\ th[t].pc \in InSession /\ i = th[t].id
    /\ DOMAIN th' = Thread /\ \A u \in Thread \ {t} : th'[u] = th[u]
    /\ th'[t].id = i /\ th'[t].node = th[t].node
    /\ th'[t].pc \in InSession \cup {"done"}
    /\ DOMAIN session' = DOMAIN session
    /\ \A j \in DOMAIN session \ {i} : session'[j] = session[j]
    /\ \A part \in Parts :
         \/ session'[i][part] \in {session[i][part], Null}
         \/ session'[i][part] \in DOMAIN conns' /\ conns'[session'[i][part]].of = i
    /\ \E S : conns' \in Seq(S)
    /\ \A c \in DOMAIN conns :
         /\ c \in DOMAIN conns' /\ conns'[c].of = conns[c].of
         /\ \/ conns'[c].file = conns[c].file
            \/ conns[c].of = i /\ \A part \in Parts : session'[i][part] # Wild
    /\ \A c \in DOMAIN conns' :
         /\ DOMAIN conns'[c] = ConnFields /\ conns'[c].parts \subseteq Parts
         /\ c \notin DOMAIN conns => conns'[c].of = i /\ conns'[c].file = NoPath
    /\ th'[t].pc \in {"connect", "sftp", "open"} => session'[i].ssh # Wild
    /\ UNCHANGED <<gone, drops>> /\ faults' \in 0..MaxFaults

\* Such a step keeps HandleInv.
LEMMA HandledKeeps ==
    ASSUME FileInv, HandleInv, NEW t \in Thread, NEW i, Handled(t, i),
           UNCHANGED <<metadata, calls, mounted>>
    PROVE  HandleInv'
<1>0. i \in DOMAIN session
  BY Zenon DEF HandleInv, UsersOK, Handled
<1>1. DOMAIN conns \subseteq DOMAIN conns' /\ DOMAIN session' = DOMAIN session /\ mounted' = mounted
  BY Zenon DEF Handled
<1>2. ConnsOK'
  BY <1>0, <1>1 DEF HandleInv, ConnsOK, Handled
<1>3. HandlesOK'
  <2> SUFFICES ASSUME NEW j \in DOMAIN session, NEW part \in Parts
               PROVE  LET h == session'[j][part]
                      IN  h \in {Null, Wild} \/ (h \in DOMAIN conns' /\ conns'[h].of = j)
    BY Zenon, <1>1 DEF HandlesOK
  <2>1. LET h == session[j][part]
        IN  h \in {Null, Wild} \/ (h \in DOMAIN conns' /\ conns'[h].of = j)
    BY Zenon DEF HandleInv, HandlesOK, Handled
  <2> QED BY Zenon, <2>1 DEF Handled
<1>4. \A j \in DOMAIN session : \A part \in Parts :
        session[j][part] # Wild => session'[j][part] # Wild
  <2> SUFFICES ASSUME NEW j \in DOMAIN session, NEW part \in Parts, session'[j][part] = Wild
               PROVE  session[j][part] = Wild
    BY Zenon
  <2>1. CASE j = i
    <3>1. Wild \notin DOMAIN conns'
      BY DEF Handled, Wild
    <3> QED BY <2>1, <3>1 DEF Handled, Null, Wild
  <2>2. CASE j # i
    BY Zenon, <2>2 DEF Handled
  <2> QED BY Zenon, <2>1, <2>2
<1>5. UsersOK'
  <2> SUFFICES ASSUME NEW u \in Thread
               PROVE  /\ th'[u].pc \in InSession => th'[u].id \in DOMAIN session'
                      /\ th'[u].pc \in {"connect", "sftp", "open"} => session'[th'[u].id].ssh # Wild
    BY Zenon DEF UsersOK
  <2>1. CASE u = t
    BY Zenon, <1>0, <1>1, <2>1 DEF Handled
  <2>2. CASE u # t
    <3>1. /\ th'[u] = th[u]
          /\ th[u].pc \in InSession => th[u].id \in DOMAIN session
          /\ th[u].pc \in {"connect", "sftp", "open"} => session[th[u].id].ssh # Wild
      BY Zenon, <2>2 DEF Handled, HandleInv, UsersOK
    <3> QED BY Zenon, <1>1, <1>4, <3>1 DEF InSession, Parts
  <2> QED BY Zenon, <2>1, <2>2
<1>6. SessionKept'
  <2> SUFFICES ASSUME NEW c \in DOMAIN conns', mounted, conns'[c].file # NoPath, NEW part \in Parts
               PROVE  session'[conns'[c].of][part] # Wild
    BY <1>1 DEF SessionKept
  <2>1. c \in DOMAIN conns /\ conns'[c].of = conns[c].of
    BY Zenon DEF Handled
  <2>2. CASE conns'[c].file = conns[c].file
    <3>1. conns[c].of \in DOMAIN session /\ session[conns[c].of][part] # Wild
      BY Zenon, <2>1, <2>2 DEF HandleInv, SessionKept, ConnsOK
    <3> QED BY Zenon, <1>4, <2>1, <3>1
  <2> QED BY <2>1, <2>2 DEF Handled
<1>7. BoundsOK'
  <2>1. /\ UNCHANGED <<gone, drops, calls, tree, hosts, updating>>
        /\ faults' \in 0..MaxFaults
    BY Zenon DEF Handled, metadata
  <2>2. ASSUME NEW u \in Thread, Busy(u)'
        PROVE  th'[u].node \in AllNodes \cup {<< >>, NoNode} /\ th'[u].id \in {0} \cup DOMAIN hosts
    <3>1. Busy(u) /\ th'[u].node = th[u].node /\ th'[u].id = th[u].id
      BY Zenon, <2>2 DEF Handled, Busy, InSession
    <3> QED BY Zenon, <3>1 DEF HandleInv, BoundsOK
  <2> QED BY Zenon, <2>1, <2>2 DEF HandleInv, BoundsOK
<1> QED BY Zenon, <1>2, <1>3, <1>5, <1>6, <1>7 DEF HandleInv

----------------------------------------------------------------------------
\* Thread t goes on to pc with the locals of its request as they are.
Goes(t, pc) ==
    /\ DOMAIN th' = Thread /\ \A u \in Thread \ {t} : th'[u] = th[u]
    /\ DOMAIN th'[t] = ThreadFields /\ th'[t].pc = pc
    /\ th'[t].op = th[t].op /\ th'[t].path = th[t].path /\ th'[t].offset = th[t].offset
    /\ th'[t].node = th[t].node /\ th'[t].id = th[t].id

\* The ways in which the steps of SSHSession take a thread on, and what they do to
\* its other locals.
LEMMA WhereTo ==
    ASSUME FileInv, NEW t \in Thread, Busy(t)
    PROVE  /\ \A pc : Goto(t, pc) =>
                /\ Goes(t, pc) /\ th'[t].remote = th[t].remote
                /\ th'[t].fresh = th[t].fresh /\ th'[t].retry = th[t].retry
                /\ th'[t].troubled = th[t].troubled
           /\ \A kind, data : Answer(t, kind, data) =>
                /\ Goes(t, "done") /\ th'[t].troubled = th[t].troubled
                /\ th'[t].ans.kind = kind /\ th'[t].ans.data = data
           /\ ConnectFails(t) =>
                /\ Goes(t, "disconnect") /\ th'[t].remote = th[t].remote
                /\ th'[t].troubled = TRUE
           /\ ReadFails(t) =>
                /\ Goes(t, "disconnect") /\ th'[t].remote = th[t].remote
                /\ th'[t].retry = ~th[t].fresh /\ th'[t].troubled = th[t].troubled
           /\ th' = [th EXCEPT ![t].pc = "seek", ![t].fresh = TRUE] =>
                /\ Goes(t, "seek") /\ th'[t].remote = th[t].remote
                /\ th'[t].fresh = TRUE /\ th'[t].troubled = th[t].troubled
           /\ th' = [th EXCEPT ![t].pc = "new", ![t].retry = FALSE] =>
                Goes(t, "new") /\ th'[t].remote = th[t].remote
           /\ \A r : th' = [th EXCEPT ![t].pc = "check", ![t].remote = r] =>
                Goes(t, "check") /\ th'[t].remote = r
<1>0. DOMAIN th = Thread /\ DOMAIN th[t] = ThreadFields
  BY Zenon DEF FileInv, ThreadsOK
<1> USE <1>0 DEF Goes, ThreadFields
<1>1. \A pc : Goto(t, pc) =>
        /\ Goes(t, pc) /\ th'[t].remote = th[t].remote
        /\ th'[t].fresh = th[t].fresh /\ th'[t].retry = th[t].retry
        /\ th'[t].troubled = th[t].troubled
  BY Zenon DEF Goto
<1>2. \A kind, data : Answer(t, kind, data) =>
        /\ Goes(t, "done") /\ th'[t].troubled = th[t].troubled
        /\ th'[t].ans.kind = kind /\ th'[t].ans.data = data
  BY DEF Answer
<1>3. ConnectFails(t) =>
        /\ Goes(t, "disconnect") /\ th'[t].remote = th[t].remote
        /\ th'[t].troubled = TRUE
  BY DEF ConnectFails
<1>4. ReadFails(t) =>
        /\ Goes(t, "disconnect") /\ th'[t].remote = th[t].remote
        /\ th'[t].retry = ~th[t].fresh /\ th'[t].troubled = th[t].troubled
  BY DEF ReadFails
<1>5. th' = [th EXCEPT ![t].pc = "seek", ![t].fresh = TRUE] =>
        /\ Goes(t, "seek") /\ th'[t].remote = th[t].remote
        /\ th'[t].fresh = TRUE /\ th'[t].troubled = th[t].troubled
  OBVIOUS
<1>6. th' = [th EXCEPT ![t].pc = "new", ![t].retry = FALSE] =>
        Goes(t, "new") /\ th'[t].remote = th[t].remote
  OBVIOUS
<1>7. \A r : th' = [th EXCEPT ![t].pc = "check", ![t].remote = r] =>
        Goes(t, "check") /\ th'[t].remote = r
  OBVIOUS
<1> QED BY Zenon, <1>1, <1>2, <1>3, <1>4, <1>5, <1>6, <1>7

\* A file of this node that cannot be read ends the read too.
LEMMA OwnFileFails ==
    ASSUME FileInv, NEW t \in Thread, Busy(t), NEW a,
           th' = [th EXCEPT ![t].pc = "done", ![t].troubled = TRUE, ![t].ans = a]
    PROVE  Goes(t, "done") /\ th'[t].troubled = TRUE /\ th'[t].ans = a
<1>0. DOMAIN th = Thread /\ DOMAIN th[t] = ThreadFields
  BY Zenon DEF FileInv, ThreadsOK
<1> QED BY <1>0 DEF Goes, ThreadFields

\* A thread that has its answer is done.
LEMMA AnswerGoes ==
    ASSUME FileInv, NEW t \in Thread, Busy(t), NEW kind, NEW data, Answer(t, kind, data)
    PROVE  Goes(t, "done") /\ th'[t].ans.kind = kind /\ th'[t].ans.data = data
<1>1. DOMAIN th = Thread /\ DOMAIN th[t] = ThreadFields
  BY Zenon DEF FileInv, ThreadsOK
<1> QED BY Zenon, <1>1 DEF Answer, Goes, ThreadFields

\* Only session i is set, to an SSHSession with these members.
Sets(i, ssh, sftp, file, open) ==
    /\ DOMAIN session' = DOMAIN session
    /\ \A j \in DOMAIN session \ {i} : session'[j] = session[j]
    /\ DOMAIN session'[i] = SessionFields /\ session'[i].address = session[i].address
    /\ session'[i].ssh = ssh /\ session'[i].sftp = sftp
    /\ session'[i].file = file /\ session'[i].open = open

\* The ways in which a step sets a member of a session.
LEMMA MemberSet ==
    ASSUME FileInv, NEW i \in DOMAIN session
    PROVE  LET s == session[i]
           IN  /\ UNCHANGED session => Sets(i, s.ssh, s.sftp, s.file, s.open)
               /\ \A v : session' = [session EXCEPT ![i].ssh = v] =>
                           Sets(i, v, s.sftp, s.file, s.open)
               /\ \A v : session' = [session EXCEPT ![i].sftp = v] =>
                           Sets(i, s.ssh, v, s.file, s.open)
               /\ \A v : session' = [session EXCEPT ![i].file = v] =>
                           Sets(i, s.ssh, s.sftp, v, s.open)
               /\ \A v, w : session' = [session EXCEPT ![i].file = v, ![i].open = w] =>
                           Sets(i, s.ssh, s.sftp, v, w)
               /\ session' = [session EXCEPT ![i] = [s EXCEPT !.open = NoPath]] =>
                           Sets(i, s.ssh, s.sftp, s.file, NoPath)
               /\ session' = [session EXCEPT ![i] = [s EXCEPT !.file = Null]] =>
                           Sets(i, s.ssh, s.sftp, Null, s.open)
               /\ session' = [session EXCEPT ![i] = [s EXCEPT !.sftp = Null]] =>
                           Sets(i, s.ssh, Null, s.file, s.open)
<1>0. DOMAIN session[i] = SessionFields
  BY Zenon DEF FileInv, SessionsOK
<1> USE <1>0 DEF Sets, SessionFields
<1> DEFINE s == session[i]
<1>1. UNCHANGED session => Sets(i, s.ssh, s.sftp, s.file, s.open)
  BY Zenon
<1>2. \A v : session' = [session EXCEPT ![i].ssh = v] => Sets(i, v, s.sftp, s.file, s.open)
  BY Zenon
<1>3. \A v : session' = [session EXCEPT ![i].sftp = v] => Sets(i, s.ssh, v, s.file, s.open)
  BY Zenon
<1>4. \A v : session' = [session EXCEPT ![i].file = v] => Sets(i, s.ssh, s.sftp, v, s.open)
  BY Zenon
<1>5. ASSUME NEW v, NEW w, session' = [session EXCEPT ![i].file = v, ![i].open = w]
      PROVE  Sets(i, s.ssh, s.sftp, v, w)
  <2>1. session' = [session EXCEPT ![i] = [s EXCEPT !.file = v, !.open = w]]
    BY Zenon, <1>5
  <2> HIDE DEF s
  <2>2. session'[i] = [s EXCEPT !.file = v, !.open = w]
    BY Zenon, <2>1
  <2> QED BY Zenon, <2>1, <2>2 DEF s
<1>6. session' = [session EXCEPT ![i] = [s EXCEPT !.open = NoPath]] =>
        Sets(i, s.ssh, s.sftp, s.file, NoPath)
  BY Zenon
<1>7. session' = [session EXCEPT ![i] = [s EXCEPT !.file = Null]] =>
        Sets(i, s.ssh, s.sftp, Null, s.open)
  BY Zenon
<1>8. session' = [session EXCEPT ![i] = [s EXCEPT !.sftp = Null]] =>
        Sets(i, s.ssh, Null, s.file, s.open)
  BY Zenon
<1> HIDE DEF s
<1> QED BY Zenon, <1>1, <1>2, <1>3, <1>4, <1>5, <1>6, <1>7, <1>8 DEF s

\* Only connection h is set, which stays of the same session and to the same host.
SetsConn(h, up, parts, file, pos) ==
    /\ DOMAIN conns' = DOMAIN conns
    /\ \E S : conns' \in Seq(S)
    /\ \A c \in DOMAIN conns \ {h} : conns'[c] = conns[c]
    /\ DOMAIN conns'[h] = ConnFields
    /\ conns'[h].of = conns[h].of /\ conns'[h].to = conns[h].to
    /\ conns'[h].up = up /\ conns'[h].parts = parts
    /\ conns'[h].file = file /\ conns'[h].pos = pos

\* A function on the places of a sequence is a sequence.
LEMMA OnSamePlaces ==
    ASSUME NEW S, NEW q \in Seq(S), NEW f, f = [c \in DOMAIN q |-> f[c]]
    PROVE  \E T : f \in Seq(T)
<1> DEFINE T == {f[c] : c \in DOMAIN q}
<1>1. DOMAIN q = 1..Len(q) /\ Len(q) \in Nat
  OBVIOUS
<1>2. f \in [1..Len(q) -> T]
  BY Zenon, <1>1
<1>3. f \in Seq(T)
  BY <1>1, <1>2
<1> QED BY Zenon, <1>3

\* The ways in which a step sets the members of a connection.
LEMMA ConnSet ==
    ASSUME ConnsOK, NEW h \in DOMAIN conns
    PROVE  LET c == conns[h]
           IN  /\ \A v : conns' = [conns EXCEPT ![h].up = v] =>
                           SetsConn(h, v, c.parts, c.file, c.pos)
               /\ \A v : conns' = [conns EXCEPT ![h].parts = v] =>
                           SetsConn(h, c.up, v, c.file, c.pos)
               /\ \A v : conns' = [conns EXCEPT ![h].pos = v] =>
                           SetsConn(h, c.up, c.parts, c.file, v)
               /\ \A v, w : conns' = [conns EXCEPT ![h].parts = v, ![h].file = w, ![h].pos = 0]
                           => SetsConn(h, c.up, v, w, 0)
               /\ \A v, w : conns' = [k \in DOMAIN conns |-> IF k # h THEN conns[k]
                                        ELSE [conns[k] EXCEPT !.parts = v, !.up = w]]
                           => SetsConn(h, w, v, c.file, c.pos)
<1>0. DOMAIN conns[h] = ConnFields
  BY Zenon DEF ConnsOK
<1>1. PICK S : conns \in Seq(S)
  BY Zenon DEF ConnsOK
<1>2. conns' = [k \in DOMAIN conns |-> conns'[k]] => \E T : conns' \in Seq(T)
  BY Zenon, <1>1, OnSamePlaces
<1> USE <1>0, <1>2 DEF SetsConn, ConnFields
<1> DEFINE c == conns[h]
<1>3. \A v : conns' = [conns EXCEPT ![h].up = v] => SetsConn(h, v, c.parts, c.file, c.pos)
  BY Zenon
<1>4. \A v : conns' = [conns EXCEPT ![h].parts = v] => SetsConn(h, c.up, v, c.file, c.pos)
  BY Zenon
<1>5. \A v : conns' = [conns EXCEPT ![h].pos = v] => SetsConn(h, c.up, c.parts, c.file, v)
  BY Zenon
<1>6. \A v, w : conns' = [conns EXCEPT ![h].parts = v, ![h].file = w, ![h].pos = 0]
                  => SetsConn(h, c.up, v, w, 0)
  <2> SUFFICES ASSUME NEW v, NEW w,
                      conns' = [conns EXCEPT ![h].parts = v, ![h].file = w, ![h].pos = 0]
               PROVE  SetsConn(h, c.up, v, w, 0)
    BY Zenon
  <2> DEFINE r == [c EXCEPT !.parts = v, !.file = w, !.pos = 0]
  <2>1. conns' = [conns EXCEPT ![h] = r]
    BY Zenon
  <2>2. /\ DOMAIN r = ConnFields /\ r.of = c.of /\ r.to = c.to /\ r.up = c.up
        /\ r.parts = v /\ r.file = w /\ r.pos = 0
    BY Zenon
  <2> HIDE DEF r
  <2> QED BY Zenon, <2>1, <2>2
<1>7. \A v, w : conns' = [k \in DOMAIN conns |-> IF k # h THEN conns[k]
                            ELSE [conns[k] EXCEPT !.parts = v, !.up = w]]
                  => SetsConn(h, w, v, c.file, c.pos)
  <2> SUFFICES ASSUME NEW v, NEW w,
                      conns' = [k \in DOMAIN conns |-> IF k # h THEN conns[k]
                                  ELSE [conns[k] EXCEPT !.parts = v, !.up = w]]
               PROVE  SetsConn(h, w, v, c.file, c.pos)
    BY Zenon
  <2> DEFINE r == [c EXCEPT !.parts = v, !.up = w]
  <2>1. conns' = [k \in DOMAIN conns |-> IF k # h THEN conns[k] ELSE r]
    BY Zenon
  <2>2. /\ DOMAIN r = ConnFields /\ r.of = c.of /\ r.to = c.to /\ r.up = w
        /\ r.parts = v /\ r.file = c.file /\ r.pos = c.pos
    BY Zenon
  <2> HIDE DEF r
  <2> QED BY Zenon, <2>1, <2>2
<1> QED BY Zenon, <1>3, <1>4, <1>5, <1>6, <1>7

\* A new connection comes after the others.
LEMMA ConnAdded ==
    ASSUME ConnsOK, NEW r, conns' = Append(conns, r)
    PROVE  /\ \E S : conns' \in Seq(S)
           /\ Len(conns) \in Nat /\ DOMAIN conns = 1..Len(conns)
           /\ DOMAIN conns' = DOMAIN conns \cup {Len(conns) + 1}
           /\ \A c \in DOMAIN conns : conns'[c] = conns[c]
           /\ conns'[Len(conns) + 1] = r
<1>1. PICK S : conns \in Seq(S)
  BY Zenon DEF ConnsOK
<1>2. conns \in Seq(S \cup {r}) /\ r \in S \cup {r}
  BY <1>1
<1>3. conns' \in Seq(S \cup {r})
  BY <1>2
<1> QED BY <1>2, <1>3

----------------------------------------------------------------------------
\* A handle that is set is of a connection of its session.
LEMMA SetHandle ==
    ASSUME HandleInv, NEW i \in DOMAIN session, NEW part \in Parts
    PROVE  LET h == session[i][part]
           IN  /\ h \in Int
               /\ h > 0 <=> h \notin {Null, Wild}
               /\ h > 0 => h \in DOMAIN conns /\ conns[h].of = i
<1>1. PICK S : conns \in Seq(S)
  BY Zenon DEF HandleInv, ConnsOK
<1>2. DOMAIN conns = 1..Len(conns) /\ Len(conns) \in Nat
  BY <1>1
<1>3. LET h == session[i][part]
      IN  h \in {Null, Wild} \/ (h \in DOMAIN conns /\ conns[h].of = i)
  BY Zenon DEF HandleInv, HandlesOK
<1> QED BY <1>2, <1>3 DEF Null, Wild

\* What a step of a session does if it makes no connection: handles stay, become null
\* or refer to a connection of the session.
LEMMA HandledSession ==
    ASSUME FileInv, HandleInv, NEW t \in Thread, th[t].pc \in InSession,
           NEW pc \in InSession \cup {"done"}, Goes(t, pc),
           NEW ssh, NEW sftp, NEW file, NEW open, Sets(th[t].id, ssh, sftp, file, open),
           LET s == session[th[t].id]
           IN  /\ ssh \in {s.ssh, Null}
               /\ sftp \in {s.sftp, Null} \/ (sftp \in DOMAIN conns /\ conns[sftp].of = th[t].id)
               /\ file \in {s.file, Null} \/ (file \in DOMAIN conns /\ conns[file].of = th[t].id),
           pc \in {"connect", "sftp", "open"} => ssh # Wild,
           DOMAIN conns' = DOMAIN conns, \E S : conns' \in Seq(S),
           \A c \in DOMAIN conns :
             /\ DOMAIN conns'[c] = ConnFields /\ conns'[c].of = conns[c].of
             /\ conns'[c].parts \subseteq Parts
             /\ \/ conns'[c].file = conns[c].file
                \/ conns[c].of = th[t].id /\ Wild \notin {ssh, sftp, file},
           UNCHANGED others, faults' \in 0..MaxFaults
    PROVE  Handled(t, th[t].id)
<1> DEFINE i == th[t].id
<1>1. /\ session'[i].ssh = ssh /\ session'[i].sftp = sftp /\ session'[i].file = file
      /\ DOMAIN session' = DOMAIN session
      /\ \A j \in DOMAIN session \ {i} : session'[j] = session[j]
  BY Zenon DEF Sets
<1>2. \A part \in Parts :
         \/ session'[i][part] \in {session[i][part], Null}
         \/ session'[i][part] \in DOMAIN conns' /\ conns'[session'[i][part]].of = i
  BY Zenon, <1>1 DEF Parts
<1>3. Wild \notin {ssh, sftp, file} => \A part \in Parts : session'[i][part] # Wild
  BY Zenon, <1>1 DEF Parts
<1> QED BY Zenon, <1>1, <1>2, <1>3 DEF Handled, Goes, others

\* Each step of a session is such a step, or is undefined.
LEMMA SessionStepHandles ==
    ASSUME FileInv, HandleInv, NEW t \in Thread, SessionStep(t)
    PROVE  Handled(t, th[t].id) \/ \E what : Undefined(what)
<1> DEFINE Bad == \E what : Undefined(what)
           i == th[t].id
           s == session[i]
           Fine == Handled(t, i)
<1>0. th[t].pc \in InSession /\ Busy(t)
  BY Zenon DEF SessionStep, Check, SshNew, SshConnect, SftpNew, SftpOpen, Seek, Fetch, CloseFile,
         CloseSftp, CloseSsh, Closed, InSession, Busy
<1>1. /\ i \in DOMAIN session /\ ConnsOK /\ faults \in 0..MaxFaults /\ MaxFaults \in Nat
      /\ th[t].pc \in {"connect", "sftp", "open"} => s.ssh # Wild
  BY Zenon, <1>0, BoundsAssumption DEF HandleInv, UsersOK, BoundsOK
<1>2. /\ \E S : conns \in Seq(S)
      /\ \A c \in DOMAIN conns : DOMAIN conns[c] = ConnFields /\ conns[c].parts \subseteq Parts
  BY Zenon, <1>1 DEF ConnsOK
<1>3. ASSUME NEW h, NEW up, NEW parts, NEW file, NEW pos, h \in DOMAIN conns,
             SetsConn(h, up, parts, file, pos), parts \subseteq Parts
      PROVE  /\ DOMAIN conns' = DOMAIN conns /\ \E S : conns' \in Seq(S)
             /\ \A c \in DOMAIN conns :
                  /\ DOMAIN conns'[c] = ConnFields /\ conns'[c].of = conns[c].of
                  /\ conns'[c].parts \subseteq Parts
                  /\ conns'[c].file = conns[c].file \/ (c = h /\ conns'[c].file = file)
  BY Zenon, <1>2, <1>3 DEF SetsConn
<1>4. \A reason : Fails(reason) => faults' \in 0..MaxFaults
  BY <1>1 DEF Fails
<1>5. \A part \in Parts : LET h == s[part]
                          IN  /\ h \in Int /\ (h > 0 <=> h \notin {Null, Wild})
                              /\ h > 0 => h \in DOMAIN conns /\ conns[h].of = i
  BY Zenon, <1>1, SetHandle
<1> HIDE DEF s, i
<1>6. \A open : \A pc \in InSession \cup {"done"}, ssh \in {s.ssh, Null},
                   sftp \in {s.sftp, Null}, file \in {s.file, Null} :
        /\ Goes(t, pc) /\ Sets(i, ssh, sftp, file, open)
        /\ pc \in {"connect", "sftp", "open"} => ssh # Wild
        /\ UNCHANGED <<conns, others>> /\ faults' \in 0..MaxFaults
        => Fine
  BY ZenonT(30), <1>0, <1>2, HandledSession DEF i, s
<1> DEFINE Set(ssh, sftp, file, open) == Sets(i, ssh, sftp, file, open)
<1>7. /\ UNCHANGED session => Set(s.ssh, s.sftp, s.file, s.open)
      /\ \A v : session' = [session EXCEPT ![i].ssh = v] => Set(v, s.sftp, s.file, s.open)
      /\ \A v : session' = [session EXCEPT ![i].sftp = v] => Set(s.ssh, v, s.file, s.open)
      /\ \A v : session' = [session EXCEPT ![i].file = v] => Set(s.ssh, s.sftp, v, s.open)
      /\ \A v, w : session' = [session EXCEPT ![i].file = v, ![i].open = w] =>
                     Set(s.ssh, s.sftp, v, w)
  BY Zenon, <1>1, MemberSet DEF s
<1> HIDE DEF Set, Fine
<1>8. ASSUME Check(t) PROVE Fine
  BY Zenon, <1>0, <1>1, <1>6, <1>7, <1>8, WhereTo DEF Check, InSession, Set
<1>9. ASSUME SshNew(t) PROVE Fine
  <2>1. ASSUME NEW r, conns' = Append(conns, r), DOMAIN r = ConnFields, r.of = i,
               r.parts \subseteq Parts, r.file = NoPath,
               session' = [session EXCEPT ![i].ssh = Len(conns) + 1],
               Goto(t, "connect"), UNCHANGED <<faults, others>>
        PROVE  Fine
    <3>1. Set(Len(conns) + 1, s.sftp, s.file, s.open) /\ Goes(t, "connect")
      BY Zenon, <1>0, <1>7, <2>1, WhereTo
    <3>2. /\ \E S : conns' \in Seq(S)
          /\ Len(conns) \in Nat /\ DOMAIN conns = 1..Len(conns)
          /\ DOMAIN conns' = DOMAIN conns \cup {Len(conns) + 1}
          /\ \A c \in DOMAIN conns : conns'[c] = conns[c]
          /\ conns'[Len(conns) + 1] = r
      BY Zenon, <1>1, <2>1, ConnAdded
    <3>3. /\ DOMAIN session' = DOMAIN session
          /\ \A j \in DOMAIN session \ {i} : session'[j] = session[j]
          /\ session'[i].ssh = Len(conns) + 1 /\ session'[i].sftp = s.sftp
          /\ session'[i].file = s.file
      BY Zenon, <3>1 DEF Set, Sets
    <3>4. \A part \in Parts :
             \/ session'[i][part] \in {session[i][part], Null}
             \/ session'[i][part] \in DOMAIN conns' /\ conns'[session'[i][part]].of = i
      <4>1. /\ session'[i].ssh \in DOMAIN conns' /\ conns'[session'[i].ssh].of = i
            /\ session'[i].sftp = session[i].sftp /\ session'[i].file = session[i].file
        BY Zenon, <2>1, <3>2, <3>3 DEF s
      <4> QED BY Zenon, <4>1 DEF Parts
    <3>5. \A c \in DOMAIN conns' :
            /\ DOMAIN conns'[c] = ConnFields /\ conns'[c].parts \subseteq Parts
            /\ c \notin DOMAIN conns => conns'[c].of = i /\ conns'[c].file = NoPath
      BY Zenon, <1>2, <2>1, <3>2
    <3>6. session'[i].ssh # Wild
      BY <3>2, <3>3 DEF Wild
    <3> QED BY Zenon, <1>0, <1>1, <2>1, <3>1, <3>2, <3>3, <3>4, <3>5, <3>6
            DEF Fine, Handled, Goes, others, i, InSession
  <2>2. CASE /\ Fails(FALSE) /\ session' = [session EXCEPT ![i].ssh = Null]
             /\ ConnectFails(t) /\ UNCHANGED conns
    <3>1. Set(Null, s.sftp, s.file, s.open) /\ Goes(t, "disconnect") /\ UNCHANGED others
      BY Zenon, <1>0, <1>7, <2>2, WhereTo DEF ConnectFails
    <3> QED BY Zenon, <1>4, <1>6, <2>2, <3>1 DEF InSession, Set
  <2>3. \/ /\ conns' = Append(conns, [of |-> i, to |-> s.address, up |-> FALSE,
                                      parts |-> {"ssh"}, file |-> NoPath, pos |-> 0])
           /\ session' = [session EXCEPT ![i].ssh = Len(conns) + 1]
           /\ Goto(t, "connect") /\ UNCHANGED <<faults, others>>
        \/ /\ Fails(FALSE) /\ session' = [session EXCEPT ![i].ssh = Null]
           /\ ConnectFails(t) /\ UNCHANGED conns
    BY Zenon, <1>9 DEF SshNew, Mine, s, i
  <2> DEFINE r == [of |-> i, to |-> s.address, up |-> FALSE,
                   parts |-> {"ssh"}, file |-> NoPath, pos |-> 0]
  <2>4. DOMAIN r = ConnFields /\ r.of = i /\ r.parts \subseteq Parts /\ r.file = NoPath
    BY Zenon DEF ConnFields, Parts
  <2> HIDE DEF r
  <2> QED BY Zenon, <2>1, <2>2, <2>3, <2>4 DEF r
<1> DEFINE Changed(h, f) == /\ h \in DOMAIN conns /\ conns[h].of = i
                            /\ \E parts \in SUBSET Parts : \E up, pos :
                                  SetsConn(h, up, parts, f, pos)
           Got(sftp, file) == \E open : Set(s.ssh, sftp, file, open)
           Went == \E pc \in InSession \cup {"done"} :
                      Goes(t, pc) /\ (pc \in {"connect", "sftp", "open"} => s.ssh # Wild)
<1> HIDE DEF Changed, Got, Went
<1>10. ASSUME NEW h, NEW f, Changed(h, f), Went,
              NEW sftp \in {s.sftp, Null, h}, NEW file \in {s.file, Null, h}, Got(sftp, file),
              f = conns[h].file \/ Wild \notin {s.ssh, sftp, file},
              faults' \in 0..MaxFaults, UNCHANGED others
       PROVE  Fine
  <2> DEFINE ssh == s.ssh
  <2>a. h \in DOMAIN conns /\ conns[h].of = i
    BY Zenon, <1>10 DEF Changed
  <2>p. PICK parts \in SUBSET Parts : \E up, pos : SetsConn(h, up, parts, f, pos)
    BY Zenon, <1>10 DEF Changed
  <2>b. PICK up, pos : SetsConn(h, up, parts, f, pos)
    BY Zenon, <2>p
  <2>c. PICK open : Set(ssh, sftp, file, open)
    BY Zenon, <1>10 DEF Got
  <2>d. PICK pc \in InSession \cup {"done"} :
          Goes(t, pc) /\ (pc \in {"connect", "sftp", "open"} => ssh # Wild)
    BY Zenon, <1>10 DEF Went
  <2>1. /\ DOMAIN conns' = DOMAIN conns /\ \E S : conns' \in Seq(S)
        /\ \A c \in DOMAIN conns :
             /\ DOMAIN conns'[c] = ConnFields /\ conns'[c].of = conns[c].of
             /\ conns'[c].parts \subseteq Parts
             /\ conns'[c].file = conns[c].file \/ (c = h /\ conns'[c].file = f)
    BY SMTT(30), <1>3, <2>a, <2>b
  <2>2. \A c \in DOMAIN conns :
          /\ DOMAIN conns'[c] = ConnFields /\ conns'[c].of = conns[c].of
          /\ conns'[c].parts \subseteq Parts
          /\ \/ conns'[c].file = conns[c].file
             \/ conns[c].of = i /\ Wild \notin {ssh, sftp, file}
    BY Zenon, <1>10, <2>a, <2>1
  <2>3. /\ ssh \in {s.ssh, Null}
        /\ sftp \in {s.sftp, Null} \/ (sftp \in DOMAIN conns /\ conns[sftp].of = i)
        /\ file \in {s.file, Null} \/ (file \in DOMAIN conns /\ conns[file].of = i)
    BY Zenon, <1>10, <2>a
  <2> HIDE DEF ssh
  <2> QED BY ZenonT(30), <1>0, <1>10, <2>c, <2>d, <2>1, <2>2, <2>3, HandledSession
          DEF Fine, i, s, Set
<1>11. ASSUME SshConnect(t) PROVE Fine \/ Bad
  <2> DEFINE h == s.ssh
  <2>1. CASE /\ Valid(h, "ssh") /\ conns' = [conns EXCEPT ![h].up = TRUE]
             /\ Goto(t, "sftp") /\ UNCHANGED <<session, faults, others>>
    <3>1. h \in DOMAIN conns /\ conns[h].of = i
      BY Zenon, <1>5, <2>1 DEF Valid, Parts
    <3>2. PICK up : SetsConn(h, up, conns[h].parts, conns[h].file, conns[h].pos)
      BY Zenon, <1>1, <2>1, <3>1, ConnSet
    <3>3. Goes(t, "sftp") /\ Set(s.ssh, s.sftp, s.file, s.open)
      BY Zenon, <1>0, <1>7, <2>1, WhereTo
    <3>4. th[t].pc = "connect" BY Zenon, <1>11 DEF SshConnect
    <3>5. conns[h].parts \in SUBSET Parts /\ faults' \in 0..MaxFaults /\ UNCHANGED others
      BY Zenon, <1>1, <1>2, <2>1, <3>1
    <3>6. "sftp" \in InSession /\ s.ssh # Wild
      BY Zenon, <1>1, <3>4 DEF InSession
    <3>7. Changed(h, conns[h].file) BY Zenon, <3>1, <3>2, <3>5 DEF Changed
    <3>8. Got(s.sftp, s.file) BY Zenon, <3>3 DEF Got
    <3>9. Went BY Zenon, <3>3, <3>6 DEF Went
    <3> HIDE DEF h
    <3> QED BY Zenon, <1>10, <3>5, <3>7, <3>8, <3>9
  <2>2. CASE Fails(h = Null) /\ ConnectFails(t) /\ UNCHANGED <<session, conns>>
    <3>1. Goes(t, "disconnect") /\ Set(s.ssh, s.sftp, s.file, s.open) /\ UNCHANGED others
      BY Zenon, <1>0, <1>7, <2>2, WhereTo DEF ConnectFails
    <3> QED BY Zenon, <1>4, <1>6, <2>2, <3>1 DEF InSession, Set
  <2> QED BY Zenon, <1>11, <2>1, <2>2 DEF SshConnect, BadHandle, Mine, s, i
<1>12. ASSUME SftpNew(t) PROVE Fine \/ Bad
  <2> DEFINE h == s.ssh
             Begin == conns' = [conns EXCEPT ![h].parts = @ \cup {"sftp"}]
  <2>0. th[t].pc = "sftp" /\ h # Wild
    BY Zenon, <1>1, <1>12 DEF SftpNew
  <2>1. ASSUME h # Null, Begin, session' = [session EXCEPT ![i].sftp = h],
               Goto(t, "open") \/ ConnectFails(t), faults' \in 0..MaxFaults, UNCHANGED others
        PROVE  Fine
    <3>1. h \in DOMAIN conns /\ conns[h].of = i
      BY Zenon, <1>5, <2>0, <2>1 DEF Parts
    <3>2. SetsConn(h, conns[h].up, conns[h].parts \cup {"sftp"}, conns[h].file, conns[h].pos)
      BY Zenon, <1>1, <2>1, <3>1, ConnSet
    <3>3. /\ Set(s.ssh, h, s.file, s.open)
          /\ Goes(t, "open") \/ Goes(t, "disconnect")
      BY Zenon, <1>0, <1>7, <2>1, WhereTo
    <3>4. conns[h].parts \cup {"sftp"} \in SUBSET Parts
      BY Zenon, <1>2, <3>1 DEF Parts
    <3>5. "open" \in InSession /\ "disconnect" \in InSession /\ s.ssh # Wild
      BY Zenon, <2>0 DEF InSession
    <3>6. Changed(h, conns[h].file) BY Zenon, <3>1, <3>2, <3>4 DEF Changed
    <3>7. Got(h, s.file) BY Zenon, <3>3 DEF Got
    <3>8. Went BY Zenon, <3>3, <3>5 DEF Went
    <3> HIDE DEF h
    <3> QED BY Zenon, <1>10, <2>1, <3>6, <3>7, <3>8
  <2>2. CASE /\ session' = [session EXCEPT ![i].sftp = Null] /\ UNCHANGED conns
             /\ ConnectFails(t) /\ faults' \in 0..MaxFaults
    <3>1. Goes(t, "disconnect") /\ Set(s.ssh, Null, s.file, s.open) /\ UNCHANGED others
      BY Zenon, <1>0, <1>7, <2>2, WhereTo DEF ConnectFails
    <3> QED BY Zenon, <1>6, <2>2, <3>1 DEF InSession, Set
  <2>3. ConnectFails(t) => UNCHANGED others
    BY Zenon DEF ConnectFails
  <2>4. UNCHANGED faults => faults' \in 0..MaxFaults
    BY Zenon, <1>1
  <2> QED BY Zenon, <1>4, <1>5, <1>12, <2>1, <2>2, <2>3, <2>4
          DEF SftpNew, BadHandle, Mine, s, i, Valid, Null, Parts
<1>13. ASSUME SftpOpen(t) PROVE Fine \/ Bad
  <2> DEFINE h == s.sftp
  <2>1. CASE /\ Valid(h, "sftp")
             /\ conns' = [conns EXCEPT ![h].parts = @ \cup {"file"},
                                       ![h].file = th[t].remote, ![h].pos = 0]
             /\ session' = [session EXCEPT ![i].file = h, ![i].open = th[t].remote]
             /\ th' = [th EXCEPT ![t].pc = "seek", ![t].fresh = TRUE]
             /\ UNCHANGED <<faults, others>>
    <3>1. h \in DOMAIN conns /\ conns[h].of = i /\ h # Wild
      BY Zenon, <1>5, <2>1 DEF Valid, Parts
    <3>2. SetsConn(h, conns[h].up, conns[h].parts \cup {"file"}, th[t].remote, 0)
      BY Zenon, <1>1, <2>1, <3>1, ConnSet
    <3>3. Goes(t, "seek") /\ Set(s.ssh, s.sftp, h, th[t].remote)
      BY Zenon, <1>0, <1>7, <2>1, WhereTo
    <3>4. conns[h].parts \cup {"file"} \in SUBSET Parts
      BY Zenon, <1>2, <3>1 DEF Parts
    <3>5. s.ssh # Wild BY Zenon, <1>1, <1>13 DEF SftpOpen
    <3>6. "seek" \in InSession /\ faults' \in 0..MaxFaults /\ UNCHANGED others
      BY Zenon, <1>1, <2>1 DEF InSession
    <3>7. Wild \notin {s.ssh, s.sftp, h}
      BY Zenon, <3>1, <3>5
    <3>8. Changed(h, th[t].remote) BY Zenon, <3>1, <3>2, <3>4 DEF Changed
    <3>9. Got(s.sftp, h) BY Zenon, <3>3 DEF Got
    <3>10. Went BY Zenon, <3>3, <3>5, <3>6 DEF Went
    <3> HIDE DEF h
    <3> QED BY Zenon, <1>10, <3>6, <3>7, <3>8, <3>9, <3>10
  <2>2. CASE /\ session' = [session EXCEPT ![i].file = Null] /\ UNCHANGED conns
             /\ ConnectFails(t) /\ faults' \in 0..MaxFaults
    <3>1. Goes(t, "disconnect") /\ Set(s.ssh, s.sftp, Null, s.open) /\ UNCHANGED others
      BY Zenon, <1>0, <1>7, <2>2, WhereTo DEF ConnectFails
    <3> QED BY Zenon, <1>6, <2>2, <3>1 DEF InSession, Set
  <2> QED BY Zenon, <1>4, <1>13, <2>1, <2>2 DEF SftpOpen, BadHandle, Mine, s, i
<1>14. ASSUME Seek(t) \/ Fetch(t) PROVE Fine \/ Bad
  <2> DEFINE h == s.file
  <2>1. ASSUME NEW pos, conns' = [conns EXCEPT ![h].pos = pos], Valid(h, "file"),
               NEW pc \in {"fetch", "done"}, Goes(t, pc), UNCHANGED <<session, faults, others>>
        PROVE  Fine
    <3>1. h \in DOMAIN conns /\ conns[h].of = i
      BY Zenon, <1>5, <2>1 DEF Valid, Parts
    <3>2. PICK up : SetsConn(h, up, conns[h].parts, conns[h].file, pos)
      BY Zenon, <1>1, <2>1, <3>1, ConnSet
    <3>3. Set(s.ssh, s.sftp, s.file, s.open)
      BY Zenon, <1>7, <2>1
    <3>4. /\ conns[h].parts \in SUBSET Parts /\ faults' \in 0..MaxFaults /\ UNCHANGED others
          /\ pc \in InSession \cup {"done"}
          /\ pc \in {"connect", "sftp", "open"} => s.ssh # Wild
      BY Zenon, <1>1, <1>2, <2>1, <3>1 DEF InSession
    <3>5. Changed(h, conns[h].file) BY Zenon, <3>1, <3>2, <3>4 DEF Changed
    <3>6. Got(s.sftp, s.file) BY Zenon, <3>3 DEF Got
    <3>7. Went BY Zenon, <2>1, <3>4 DEF Went
    <3> HIDE DEF h
    <3> QED BY Zenon, <1>10, <3>4, <3>5, <3>6, <3>7
  <2>2. ASSUME NEW pc \in {"disconnect", "done"}, Goes(t, pc),
               UNCHANGED <<session, conns, faults, others>>
        PROVE  Fine
    <3>1. Set(s.ssh, s.sftp, s.file, s.open)
      BY Zenon, <1>7, <2>2
    <3> QED BY Zenon, <1>1, <1>6, <2>2, <3>1 DEF InSession, Set
  <2>3. /\ ReadFails(t) => Goes(t, "disconnect") /\ UNCHANGED <<session, conns, faults, others>>
        /\ Goto(t, "fetch") => Goes(t, "fetch")
        /\ \A kind, data : Answer(t, kind, data) => Goes(t, "done")
    BY Zenon, <1>0, WhereTo DEF ReadFails
  <2>4. ASSUME Seek(t) PROVE Fine \/ Bad
    BY Zenon, <2>1, <2>2, <2>3, <2>4 DEF Seek, BadHandle, Mine, s, i
  <2>5. ASSUME Fetch(t) PROVE Fine \/ Bad
    BY Zenon, <2>1, <2>2, <2>3, <2>5 DEF Fetch, BadHandle, Mine, s, i
  <2> QED BY Zenon, <1>14, <2>4, <2>5
<1>15. ASSUME NEW part \in Parts, NEW w, NEW next, Release(t, part, w, next),
              next \in {"close sftp", "close ssh", "closed"}, NEW sftp, NEW file, NEW open,
              session' = [session EXCEPT ![i] = w] => Set(s.ssh, sftp, file, open),
              sftp \in {s.sftp, Null}, file \in {s.file, Null}
       PROVE  Fine \/ Bad
  <2> DEFINE h == s[part]
  <2>1. CASE Invalid(h, part) /\ BadHandle(h)
    BY Zenon, <2>1 DEF BadHandle
  <2>2. CASE /\ ~Invalid(h, part) /\ session' = [session EXCEPT ![i] = w] /\ Goto(t, next)
             /\ conns' = [c \in DOMAIN conns |->
                            IF c # h THEN conns[c]
                            ELSE [conns[c] EXCEPT !.parts = @ \ {part}, !.up = @ /\ part # "ssh"]]
             /\ UNCHANGED <<faults, others>>
    <3>1. /\ Set(s.ssh, sftp, file, open) /\ Goes(t, next) /\ UNCHANGED others
          /\ faults' \in 0..MaxFaults
          /\ next \in InSession \cup {"done"}
          /\ next \in {"connect", "sftp", "open"} => s.ssh # Wild
      BY Zenon, <1>0, <1>1, <1>15, <2>2, WhereTo DEF InSession
    <3>2. CASE h = Null
      <4>1. Null \notin DOMAIN conns /\ conns = [c \in DOMAIN conns |-> conns[c]]
        BY <1>2 DEF Null
      <4>2. conns' = conns
        BY Zenon, <2>2, <3>2, <4>1
      <4> QED BY Zenon, <1>6, <1>15, <3>1, <4>2 DEF Set
    <3>3. CASE h # Null
      <4>1. h \in DOMAIN conns /\ conns[h].of = i
        BY Zenon, <1>5, <2>2, <3>3 DEF Invalid, Valid
      <4>2. conns' = [c \in DOMAIN conns |->
                        IF c # h THEN conns[c]
                        ELSE [conns[c] EXCEPT !.parts = conns[h].parts \ {part},
                                              !.up = conns[h].up /\ part # "ssh"]]
        BY Zenon, <2>2
      <4>3. PICK up : SetsConn(h, up, conns[h].parts \ {part}, conns[h].file, conns[h].pos)
        BY Zenon, <1>1, <4>1, <4>2, ConnSet
      <4>4. conns[h].parts \ {part} \in SUBSET Parts
        BY Zenon, <1>2, <4>1
      <4>5. sftp \in {s.sftp, Null, h} /\ file \in {s.file, Null, h}
        BY Zenon, <1>15
      <4>6. Changed(h, conns[h].file) BY Zenon, <4>1, <4>3, <4>4 DEF Changed
      <4>7. Got(sftp, file) BY Zenon, <3>1 DEF Got
      <4>8. Went BY Zenon, <3>1 DEF Went
      <4> HIDE DEF h
      <4>9. Fine BY Zenon, <1>10, <3>1, <4>5, <4>6, <4>7, <4>8
      <4> QED BY Zenon, <4>9
    <3> QED BY Zenon, <3>2, <3>3
  <2> QED BY Zenon, <1>15, <2>1, <2>2 DEF Release, Mine, s, i
<1>16. ASSUME CloseFile(t) \/ CloseSftp(t) \/ CloseSsh(t) PROVE Fine \/ Bad
  <2>1. /\ session' = [session EXCEPT ![i] = [s EXCEPT !.open = NoPath]] =>
             Set(s.ssh, s.sftp, s.file, NoPath)
        /\ session' = [session EXCEPT ![i] = [s EXCEPT !.file = Null]] =>
             Set(s.ssh, s.sftp, Null, s.open)
        /\ session' = [session EXCEPT ![i] = [s EXCEPT !.sftp = Null]] =>
             Set(s.ssh, Null, s.file, s.open)
    BY Zenon, <1>1, MemberSet DEF Set, s
  <2>2. ASSUME CloseFile(t) PROVE Fine \/ Bad
    <3>1. Release(t, "file", [s EXCEPT !.open = NoPath], "close sftp")
      BY Zenon, <2>2 DEF CloseFile, Mine, s, i
    <3> QED BY Zenon, <1>15, <2>1, <3>1 DEF Parts
  <2>3. ASSUME CloseSftp(t) PROVE Fine \/ Bad
    <3>1. Release(t, "sftp", [s EXCEPT !.file = Null], "close ssh")
      BY Zenon, <2>3 DEF CloseSftp, Mine, s, i
    <3> QED BY Zenon, <1>15, <2>1, <3>1 DEF Parts
  <2>4. ASSUME CloseSsh(t) PROVE Fine \/ Bad
    <3>1. Release(t, "ssh", [s EXCEPT !.sftp = Null], "closed")
      BY Zenon, <2>4 DEF CloseSsh, Mine, s, i
    <3> QED BY Zenon, <1>15, <2>1, <3>1 DEF Parts
  <2> QED BY Zenon, <1>16, <2>2, <2>3, <2>4
<1>17. ASSUME Closed(t) PROVE Fine
  <2>1. Set(Null, s.sftp, s.file, s.open) /\ UNCHANGED <<conns, faults, others>>
    BY Zenon, <1>7, <1>17 DEF Closed, i
  <2>2. Goes(t, "new") \/ Goes(t, "done")
    BY Zenon, <1>0, <1>17, WhereTo DEF Closed
  <2> QED BY Zenon, <1>1, <1>6, <2>1, <2>2 DEF InSession, Set
<1> QED BY Zenon, <1>8, <1>9, <1>11, <1>12, <1>13, <1>14, <1>16, <1>17 DEF SessionStep, Fine, i

----------------------------------------------------------------------------
\* Steps that leave sessions and connections alone keep HandleInv, if no thread gets
\* into a session that is not there.
LEMMA ThreadsOnlyKeep ==
    ASSUME HandleInv, UNCHANGED <<session, conns, mounted>>, gone' \subseteq DOMAIN Size,
           faults' \in 0..MaxFaults, drops' \in 0..MaxDrops, calls' \in 0..MaxCalls,
           updating' \in {"no", "update", "disconnect"}, DOMAIN tree' \subseteq AllNodes,
           DOMAIN hosts \subseteq DOMAIN hosts',
           \A t \in Thread :
             \/ /\ th'[t].pc = th[t].pc
                /\ Busy(t) => th'[t].node = th[t].node /\ th'[t].id = th[t].id
             \/ /\ th'[t].pc \notin {"connect", "sftp", "open"}
                /\ th'[t].pc \in InSession => th'[t].id \in DOMAIN session
                /\ Busy(t)' => /\ th'[t].node \in AllNodes \cup {<< >>, NoNode}
                               /\ th'[t].id \in {0} \cup DOMAIN hosts'
    PROVE  HandleInv'
<1>1. ConnsOK' /\ HandlesOK' /\ SessionKept'
  BY Zenon DEF HandleInv, ConnsOK, HandlesOK, SessionKept
<1>2. UsersOK'
  BY Zenon DEF HandleInv, UsersOK, InSession, Busy
<1>3. ASSUME NEW t \in Thread, Busy(t)'
      PROVE  th'[t].node \in AllNodes \cup {<< >>, NoNode} /\ th'[t].id \in {0} \cup DOMAIN hosts'
  BY Zenon, <1>3 DEF HandleInv, BoundsOK, Busy
<1>4. BoundsOK'
  BY Zenon, <1>3 DEF HandleInv, BoundsOK
<1> QED BY Zenon, <1>1, <1>2, <1>4 DEF HandleInv

\* So does undefined behaviour.
LEMMA UndefinedHandles ==
    ASSUME HandleInv, NEW what, Undefined(what), UNCHANGED <<metadata, calls>>,
           mounted' => mounted
    PROVE  HandleInv'
<1>1. \A t \in Thread : th'[t].pc = "dead"
  BY Zenon DEF Undefined
<1>2. UNCHANGED <<session, conns, gone, faults, drops, tree, hosts, updating, calls>>
  BY Zenon DEF Undefined, metadata
<1>3. ConnsOK' /\ HandlesOK' /\ SessionKept'
  BY Zenon, <1>2 DEF HandleInv, ConnsOK, HandlesOK, SessionKept
<1>4. UsersOK' /\ BoundsOK'
  BY Zenon, <1>1, <1>2 DEF HandleInv, UsersOK, BoundsOK, InSession, Busy
<1> QED BY Zenon, <1>3, <1>4 DEF HandleInv

\* A session that is added has no connection yet.
LEMMA InsertHostHandles ==
    ASSUME FileInv, HandleInv, NEW t \in Thread, InsertHost(t)
    PROVE  HandleInv'
<1> DEFINE id == th[t].id
<1>1. Busy(t) /\ th[t].pc = "insert" /\ UNCHANGED outside /\ id \in DOMAIN hosts
  BY Zenon DEF InsertHost, Busy, FileInv, IdsOK
<1>2. UNCHANGED <<conns, gone, faults, drops, tree, hosts, updating, calls, mounted>>
  BY Zenon, <1>1 DEF outside, others, metadata
<1>3. CASE id \in DOMAIN session
  <2>1. Goes(t, "done") /\ UNCHANGED session
    BY Zenon, <1>1, <1>3, WhereTo DEF InsertHost
  <2>2. /\ \A u \in Thread \ {t} : th'[u] = th[u]
        /\ th'[t].pc = "done" /\ th'[t].node = th[t].node /\ th'[t].id = id
    BY Zenon, <2>1 DEF Goes
  <2>3. /\ gone' \subseteq DOMAIN Size /\ faults' \in 0..MaxFaults
        /\ drops' \in 0..MaxDrops /\ calls' \in 0..MaxCalls
        /\ updating' \in {"no", "update", "disconnect"} /\ DOMAIN tree' \subseteq AllNodes
        /\ th[t].node \in AllNodes \cup {<< >>, NoNode}
    BY Zenon, <1>1, <1>2 DEF HandleInv, BoundsOK
  <2>4. "done" \notin InSession \cup {"connect", "sftp", "open"}
    BY Zenon DEF InSession
  <2>5. ASSUME NEW u \in Thread
        PROVE  \/ /\ th'[u].pc = th[u].pc
                  /\ Busy(u) => th'[u].node = th[u].node /\ th'[u].id = th[u].id
               \/ /\ th'[u].pc \notin {"connect", "sftp", "open"}
                  /\ th'[u].pc \in InSession => th'[u].id \in DOMAIN session
                  /\ Busy(u)' => /\ th'[u].node \in AllNodes \cup {<< >>, NoNode}
                                 /\ th'[u].id \in {0} \cup DOMAIN hosts'
    <3>1. CASE u = t
      BY Zenon, <1>1, <1>2, <2>2, <2>3, <2>4, <3>1
    <3>2. CASE u # t
      BY Zenon, <2>2, <3>2
    <3> QED BY Zenon, <3>1, <3>2
  <2> QED BY Zenon, <1>2, <2>1, <2>3, <2>5, ThreadsOnlyKeep
<1>4. CASE id \notin DOMAIN session
  <2>1. Goes(t, "locate")
    BY Zenon, <1>1, <1>4, WhereTo DEF InsertHost
  <2>2. PICK s \in NewSession(hosts[id].address) : session' = Inserted(id, s)
    BY Zenon, <1>4 DEF InsertHost
  <2>3. /\ DOMAIN session' = DOMAIN session \cup {id}
        /\ session'[id] = s /\ \A i \in DOMAIN session : session'[i] = session[i]
    BY Zenon, <1>4, <2>2 DEF Inserted
  <2>4. \A part \in Parts : s[part] \in {Null, Wild}
    BY Zenon DEF NewSession, Parts
  <2>5. ConnsOK'
    BY Zenon, <1>2, <2>3 DEF HandleInv, ConnsOK
  <2>6. HandlesOK'
    BY <1>2, <2>3, <2>4 DEF HandleInv, HandlesOK
  <2>7. SessionKept'
    BY Zenon, <1>2, <2>3 DEF HandleInv, SessionKept, ConnsOK
  <2>8. UsersOK'
    <3> SUFFICES ASSUME NEW u \in Thread
                 PROVE  /\ th'[u].pc \in InSession => th'[u].id \in DOMAIN session'
                        /\ th'[u].pc \in {"connect", "sftp", "open"} => session'[th'[u].id].ssh # Wild
      BY Zenon DEF UsersOK
    <3>1. CASE u = t
      BY Zenon, <2>1, <2>3, <3>1 DEF Goes
    <3>2. CASE u # t
      <4>1. /\ th'[u] = th[u]
            /\ th[u].pc \in InSession => th[u].id \in DOMAIN session
            /\ th[u].pc \in {"connect", "sftp", "open"} => session[th[u].id].ssh # Wild
        BY Zenon, <2>1, <3>2 DEF Goes, HandleInv, UsersOK
      <4> QED BY Zenon, <2>3, <4>1 DEF InSession
    <3> QED BY Zenon, <3>1, <3>2
  <2>9. BoundsOK'
    BY Zenon, <1>1, <1>2, <2>1 DEF HandleInv, BoundsOK, Goes, Busy
  <2> QED BY Zenon, <2>5, <2>6, <2>7, <2>8, <2>9 DEF HandleInv
<1> QED BY Zenon, <1>3, <1>4

\* The steps of a thread before and after it uses a session.
LEMMA CallbackHandles ==
    ASSUME FileInv, HandleInv, NEW t \in Thread,
           \/ FindNode(t) \/ InspectNode(t) \/ FindHost(t) \/ Locate(t) \/ Return(t)
           \/ \E request \in Requests : Call(t, request)
    PROVE  HandleInv'
<1> DEFINE Fine == /\ UNCHANGED <<session, conns, gone, drops, mounted, metadata>>
                   /\ calls' \in 0..MaxCalls /\ faults' \in 0..MaxFaults
                   /\ \A u \in Thread \ {t} : th'[u] = th[u]
                   /\ th'[t].pc \notin {"connect", "sftp", "open"}
                   /\ th'[t].pc \in InSession => th'[t].id \in DOMAIN session
                   /\ Busy(t)' => /\ th'[t].node \in AllNodes \cup {<< >>, NoNode}
                                  /\ th'[t].id \in {0} \cup DOMAIN hosts
<1>0. /\ DOMAIN th = Thread /\ (Busy(t) => DOMAIN th[t] = ThreadFields /\ th[t].path \in Seq(Int))
      /\ calls \in 0..MaxCalls /\ MaxCalls \in Nat /\ DOMAIN tree \subseteq AllNodes
      /\ faults \in 0..MaxFaults /\ MaxFaults \in Nat
      /\ Busy(t) => /\ th[t].node \in AllNodes \cup {<< >>, NoNode}
                    /\ th[t].id \in {0} \cup DOMAIN hosts
  BY Zenon, BoundsAssumption DEF FileInv, ThreadsOK, HandleInv, BoundsOK
<1>1. ASSUME Fine PROVE HandleInv'
  <2>1. /\ UNCHANGED <<session, conns, mounted, tree, hosts>> /\ gone' \subseteq DOMAIN Size
        /\ drops' \in 0..MaxDrops /\ updating' \in {"no", "update", "disconnect"}
        /\ DOMAIN tree' \subseteq AllNodes
    BY Zenon, <1>1 DEF HandleInv, BoundsOK, metadata
  <2>2. \A u \in Thread \ {t} :
          th'[u].pc = th[u].pc /\ (Busy(u) => th'[u].node = th[u].node /\ th'[u].id = th[u].id)
    BY Zenon, <1>1
  <2> QED BY Zenon, <1>1, <2>1, <2>2, ThreadsOnlyKeep
<1> USE DEF outside, others, Busy, InSession
<1>2. ASSUME FindNode(t) PROVE Fine
  <2>1. Find(tree, th[t].path) \in {<< >>, NoNode} \/ Find(tree, th[t].path) \in DOMAIN tree
    BY Zenon, <1>0, <1>2, FindResult DEF FindNode
  <2>2. /\ \A u \in Thread \ {t} : th'[u] = th[u]
        /\ th'[t].pc = "inspect" /\ th'[t].node = Find(tree, th[t].path) /\ th'[t].id = th[t].id
    BY Zenon, <1>0, <1>2 DEF FindNode, ThreadFields
  <2> QED BY Zenon, <1>0, <1>2, <2>1, <2>2 DEF FindNode
<1>3. ASSUME InspectNode(t), ~Torn(t) PROVE Fine
  <2> DEFINE node == NodeAt(th[t].node)
             ToRead == th' = [th EXCEPT ![t].pc = "find host", ![t].id = node.host_id]
  <2>1. th[t].pc = "inspect" /\ UNCHANGED <<metadata, calls, mounted>> /\ Inspect(t)
    BY Zenon, <1>3 DEF InspectNode
  <2>2. \/ \E kind, data : Answer(t, kind, data)
        \/ ToRead
    BY <2>1, Zenon DEF Inspect
  <2>3. UNCHANGED <<session, conns, faults, gone, drops>>
    BY Zenon, <2>1 DEF Inspect
  <2>4. CASE \E kind, data : Answer(t, kind, data)
    <3>1. Goes(t, "done")
      BY Zenon, <2>1, <2>4, WhereTo
    <3> QED BY Zenon, <1>0, <2>1, <2>3, <3>1 DEF Goes
  <2>5. CASE ToRead
    <3>1. /\ \A u \in Thread \ {t} : th'[u] = th[u]
          /\ th'[t].pc = "find host" /\ th'[t].node = th[t].node
      BY Zenon, <1>0, <2>1, <2>5 DEF ThreadFields
    <3>2. th'[t].id \in DOMAIN hosts'
      <4>1. FileInv'
        BY Zenon, <1>3, InspectNodeKeeps
      <4> QED BY Zenon, <3>1, <4>1 DEF FileInv, IdsOK
    <3> QED BY Zenon, <1>0, <2>1, <2>3, <3>1, <3>2 DEF metadata
  <2> QED BY Zenon, <2>2, <2>4, <2>5
<1>4. ASSUME FindHost(t) PROVE Fine
  <2>1. Goes(t, IF th[t].id \in DOMAIN session THEN "locate" ELSE "insert")
    BY Zenon, <1>4, WhereTo DEF FindHost
  <2> QED BY Zenon, <1>0, <1>4, <2>1 DEF FindHost, Goes
<1>5. ASSUME Locate(t) PROVE Fine
  <2>1. Goes(t, "check") \/ Goes(t, "done")
    BY Zenon, <1>5, WhereTo, OwnFileFails DEF Locate
  <2>2. th[t].id \in DOMAIN session
    BY Zenon, <1>5 DEF HandleInv, UsersOK, Locate
  <2>3. faults' \in 0..MaxFaults
    BY <1>0, <1>5 DEF Locate, Fails
  <2> QED BY Zenon, <1>0, <1>5, <2>1, <2>2, <2>3 DEF Locate, Goes
<1>6. ASSUME Return(t) PROVE Fine
  BY Zenon, <1>0, <1>6 DEF Return, Idle
<1>7. ASSUME NEW request \in Requests, Call(t, request) PROVE Fine
  <2>1. /\ \A u \in Thread \ {t} : th'[u] = th[u]
        /\ th'[t].pc = "find" /\ th'[t].node = NoNode /\ th'[t].id = 0
    BY Zenon, <1>0, <1>7 DEF Call
  <2>2. /\ UNCHANGED <<session, conns, faults, gone, drops, mounted, metadata>>
        /\ calls' \in 0..MaxCalls /\ faults' \in 0..MaxFaults
    <3>1. /\ UNCHANGED <<session, conns, faults, gone, drops, mounted, metadata>>
          /\ calls < MaxCalls /\ calls' = calls + 1
      BY Zenon, <1>7 DEF Call
    <3>2. calls' \in 0..MaxCalls
      BY <1>0, <3>1
    <3> QED BY Zenon, <1>0, <3>1, <3>2
  <2> QED BY Zenon, <2>1, <2>2
<1>8. ASSUME InspectNode(t), Torn(t) PROVE HandleInv'
  BY Zenon, <1>8, UndefinedHandles DEF InspectNode
<1> HIDE DEF Fine
<1> QED BY Zenon, <1>1, <1>2, <1>3, <1>4, <1>5, <1>6, <1>7, <1>8

\* The steps of the network thread: later views have more hosts, and all their
\* nodes are nodes of some view.
LEMMA NetworkHandles ==
    ASSUME FileInv, HandleInv, BeginUpdate \/ EndUpdate \/ BeginDisconnect \/ EndDisconnect
    PROVE  HandleInv'
<1>0. DOMAIN tree \subseteq AllNodes /\ gone \subseteq DOMAIN Size /\ drops \in 0..MaxDrops
      /\ faults \in 0..MaxFaults /\ calls \in 0..MaxCalls /\ updating \in {"no", "update", "disconnect"}
  BY Zenon DEF HandleInv, BoundsOK
<1>1. ASSUME BeginUpdate \/ BeginDisconnect PROVE HandleInv'
  <2>1. /\ UNCHANGED <<session, conns, faults, mounted, gone, drops, calls, tree, hosts>>
        /\ updating' \in {"no", "update", "disconnect"}
    BY Zenon, <1>1 DEF BeginUpdate, BeginDisconnect, Lock, others
  <2>2. \A t \in Thread : th'[t] = th[t] \/ th'[t] = [th[t] EXCEPT !.dead = TRUE]
    BY Zenon, <1>1 DEF BeginUpdate, BeginDisconnect, Lock
  <2>3. \A t \in Thread :
          th'[t].pc = th[t].pc /\ (Busy(t) => th'[t].node = th[t].node /\ th'[t].id = th[t].id)
    BY Zenon, <2>2 DEF FileInv, ThreadsOK, ThreadFields
  <2> QED BY Zenon, <1>0, <2>1, <2>3, ThreadsOnlyKeep
<1>2. ASSUME EndUpdate PROVE HandleInv'
  <2>1. /\ view \in 1..Len(Views) - 1 /\ hosts = Views[view].hosts
        /\ view + 1 \in 1..Len(Views)
    BY <1>2, ViewsAssumption DEF EndUpdate, FileInv, MetadataOK
  <2>2. DOMAIN hosts \subseteq DOMAIN hosts' /\ DOMAIN tree' \subseteq AllNodes
    BY <1>2, <2>1, ViewsAssumption DEF EndUpdate, AllNodes
  <2> QED BY Zenon, <1>0, <1>2, <2>2, ThreadsOnlyKeep DEF EndUpdate, sshVars, others
<1>3. ASSUME EndDisconnect PROVE HandleInv'
  <2>1. DOMAIN tree' \subseteq AllNodes
    BY Zenon, <1>0, <1>3 DEF EndDisconnect, RemoveNotOf, Restrict
  <2> QED BY Zenon, <1>0, <1>3, <2>1, ThreadsOnlyKeep DEF EndDisconnect, sshVars, others
<1> QED BY Zenon, <1>1, <1>2, <1>3

\* A server that closes a connection, an owner that removes a file, and the end of
\* the mount, which forgets all sessions.
LEMMA OutsideHandles ==
    ASSUME FileInv, HandleInv,
           \/ \E c \in DOMAIN conns : Drop(c) /\ UNCHANGED <<metadata, calls, mounted>>
           \/ \E file \in DOMAIN Size \ gone : RemoveFile(file)
           \/ Unmount
    PROVE  HandleInv'
<1>0. /\ ConnsOK /\ \E S : conns \in Seq(S)
      /\ \A c \in DOMAIN conns : DOMAIN conns[c] = ConnFields /\ conns[c].parts \subseteq Parts
      /\ gone \subseteq DOMAIN Size /\ drops \in 0..MaxDrops /\ MaxDrops \in Nat
      /\ faults \in 0..MaxFaults /\ DOMAIN tree \subseteq AllNodes /\ calls \in 0..MaxCalls
      /\ updating \in {"no", "update", "disconnect"}
  BY Zenon, BoundsAssumption DEF HandleInv, ConnsOK, BoundsOK
<1>1. ASSUME NEW c \in DOMAIN conns, Drop(c), UNCHANGED <<metadata, calls, mounted>>
      PROVE  HandleInv'
  <2>1. /\ \A t \in Thread : th'[t] = th[t] \/ th'[t] = [th[t] EXCEPT !.troubled = TRUE]
        /\ UNCHANGED <<session, gone, faults>>
        /\ drops' \in 0..MaxDrops
        /\ conns' = [conns EXCEPT ![c].up = FALSE]
    BY <1>0, <1>1 DEF Drop
  <2>2. \A t \in Thread :
          th'[t].pc = th[t].pc /\ (Busy(t) => th'[t].node = th[t].node /\ th'[t].id = th[t].id)
    BY Zenon, <2>1 DEF FileInv, ThreadsOK, ThreadFields
  <2>3. PICK up : SetsConn(c, up, conns[c].parts, conns[c].file, conns[c].pos)
    BY Zenon, <1>0, <2>1, ConnSet
  <2>4. /\ DOMAIN conns' = DOMAIN conns /\ \E S : conns' \in Seq(S)
        /\ \A k \in DOMAIN conns :
             /\ DOMAIN conns'[k] = ConnFields /\ conns'[k].parts = conns[k].parts
             /\ conns'[k].of = conns[k].of /\ conns'[k].file = conns[k].file
    BY Zenon, <1>0, <2>3 DEF SetsConn
  <2>5. ConnsOK' /\ HandlesOK' /\ SessionKept'
    BY <1>1, <2>1, <2>4 DEF HandleInv, ConnsOK, HandlesOK, SessionKept
  <2>6. UsersOK' /\ BoundsOK'
    BY Zenon, <1>1, <2>1, <2>2 DEF HandleInv, UsersOK, BoundsOK, InSession, Busy, metadata
  <2> QED BY Zenon, <2>5, <2>6 DEF HandleInv
<1>2. ASSUME NEW file \in DOMAIN Size \ gone, RemoveFile(file) PROVE HandleInv'
  <2>1. gone' \subseteq DOMAIN Size
    BY Zenon, <1>0, <1>2 DEF RemoveFile
  <2> QED BY Zenon, <1>0, <1>2, <2>1, ThreadsOnlyKeep DEF RemoveFile, metadata
<1>3. ASSUME Unmount PROVE HandleInv'
  <2>1. UNCHANGED <<metadata, calls>> /\ ~mounted'
    BY Zenon, <1>3 DEF Unmount
  <2>2. CASE Undefined("session")
    BY Zenon, <2>1, <2>2, UndefinedHandles
  <2>3. CASE ~Undefined("session")
    <3>1. conns' = [c \in DOMAIN conns |->
                      LET s == session[conns[c].of]
                      IN  [conns[c] EXCEPT !.parts = {part \in @ : s[part] # c},
                                           !.up = @ /\ s.ssh # c]]
      BY Zenon, <1>3, <2>3 DEF Unmount
    <3>2. UNCHANGED <<gone, faults, drops>> /\ DOMAIN session' = {}
          /\ \A t \in Thread : th'[t].pc = "idle"
      <4>1. session' = << >> /\ UNCHANGED <<th, gone, faults, drops>>
        BY Zenon, <1>3, <2>3 DEF Unmount
      <4>2. \A t \in Thread : th[t] = Idle
        BY Zenon, <1>3 DEF Unmount
      <4> QED BY <4>1, <4>2 DEF Idle
    <3>3. DOMAIN conns' = DOMAIN conns /\ conns' = [c \in DOMAIN conns |-> conns'[c]]
      BY Zenon, <3>1
    <3>4. \E S : conns' \in Seq(S)
      BY Zenon, <1>0, <3>3, OnSamePlaces
    <3>5. ASSUME NEW c \in DOMAIN conns
          PROVE  DOMAIN conns'[c] = ConnFields /\ conns'[c].parts \subseteq Parts
      BY Zenon, <1>0, <3>1 DEF ConnFields
    <3>6. ConnsOK' /\ HandlesOK' /\ SessionKept'
      BY Zenon, <2>1, <3>2, <3>3, <3>4, <3>5 DEF ConnsOK, HandlesOK, SessionKept
    <3>7. UsersOK' /\ BoundsOK'
      BY Zenon, <2>1, <3>2 DEF HandleInv, UsersOK, BoundsOK, InSession, Busy, metadata
    <3> QED BY Zenon, <3>6, <3>7 DEF HandleInv
  <2> QED BY Zenon, <2>2, <2>3
<1> QED BY Zenon, <1>1, <1>2, <1>3

\* The mount begins without sessions and connections.
LEMMA HandleInit == Init => HandleInv
<1> SUFFICES ASSUME Init PROVE HandleInv
  BY Zenon
<1>1. /\ \A t \in Thread : th[t].pc = "idle"
      /\ DOMAIN session = {} /\ DOMAIN conns = {} /\ conns \in Seq({})
  BY DEF Init, Idle
<1>2. ConnsOK /\ HandlesOK /\ SessionKept /\ UsersOK
  BY Zenon, <1>1 DEF ConnsOK, HandlesOK, SessionKept, UsersOK, InSession
<1>3. BoundsOK
  BY SMTT(30), <1>1, ViewsAssumption, BoundsAssumption DEF Init, BoundsOK, AllNodes, Busy
<1> QED BY Zenon, <1>2, <1>3 DEF HandleInv

\* Every step of the FUSE threads, the network thread and the outside keeps HandleInv.
LEMMA HandleNext == FileInv /\ HandleInv /\ [Next]_vars => HandleInv'
<1> SUFFICES ASSUME FileInv, HandleInv, [Next]_vars PROVE HandleInv'
  BY Zenon
<1>1. ASSUME NEW t \in Thread, ThreadStep(t) PROVE HandleInv'
  <2>1. ASSUME Unguarded(t) \/ MapRace(t) PROVE HandleInv'
    <3>1. PICK what : Undefined(what)
      BY Zenon, <2>1 DEF Unguarded, MapRace
    <3>2. UNCHANGED <<metadata, calls, mounted>>
      BY <2>1, Zenon DEF Unguarded, MapRace
    <3> QED BY Zenon, <3>1, <3>2, UndefinedHandles
  <2>2. ASSUME SessionStep(t), UNCHANGED <<metadata, calls, mounted>> PROVE HandleInv'
    <3>1. CASE \E what : Undefined(what)
      BY Zenon, <2>2, <3>1, UndefinedHandles
    <3>2. CASE Handled(t, th[t].id)
      BY Zenon, <2>2, <3>2, HandledKeeps
    <3> QED BY Zenon, <2>2, <3>1, <3>2, SessionStepHandles
  <2> QED BY Zenon, <1>1, <2>1, <2>2, CallbackHandles, InsertHostHandles DEF ThreadStep
<1>2. ASSUME NEW t \in Thread, NEW request \in Requests, Call(t, request) PROVE HandleInv'
  BY Zenon, <1>2, CallbackHandles
<1>3. CASE UNCHANGED vars
  BY Zenon, <1>3 DEF vars, sshVars, others, HandleInv, ConnsOK, HandlesOK, UsersOK, SessionKept,
              BoundsOK, Busy
<1> QED BY Zenon, <1>1, <1>2, <1>3, NetworkHandles, OutsideHandles DEF Next

\* For any threads, requests and views: the state of the file operations has its
\* type.  In particular a session's handles are null, unset or of a connection that
\* was made, and a connection belongs to a session of the table as long as the
\* filesystem is mounted.
THEOREM FileStateTyped == Spec => []FileTypeOK
<1>1. FileInv /\ HandleInv => FileTypeOK
  <2> SUFFICES ASSUME FileInv, HandleInv PROVE FileTypeOK
    BY Zenon
  <2>1. \A id \in DOMAIN session :
          /\ id \in DOMAIN hosts
          /\ {session[id].ssh, session[id].sftp, session[id].file} \subseteq Handle
    BY Zenon DEF FileInv, SessionsOK, HandleInv, HandlesOK, Handle, Parts
  <2>2. \A c \in DOMAIN conns :
          conns[c].parts \subseteq Parts /\ (mounted => conns[c].of \in DOMAIN session)
    BY Zenon DEF HandleInv, ConnsOK
  <2>3. view \in 1..Len(Views) /\ link \in {"up", "closed", "failing", "over"}
    BY Zenon DEF FileInv, MetadataOK
  <2> QED BY Zenon, <2>1, <2>2, <2>3 DEF HandleInv, BoundsOK, AllNodes, FileTypeOK
<1> QED BY <1>1, FileInit, FileNext, HandleInit, HandleNext, PTL DEF Spec

\* For any threads, requests and views: once a file has been opened on a connection
\* to a host, none of the three handles of that host's session is unset again until
\* the filesystem is unmounted, also if threads race to insert or use the session
\* (SSHManager::insertHost, do_connect, disconnect).
THEOREM HandlesStaySet == Spec => []SessionKept
<1>1. HandleInv => SessionKept
  BY Zenon DEF HandleInv
<1> QED BY <1>1, FileInit, FileNext, HandleInit, HandleNext, PTL DEF Spec

----------------------------------------------------------------------------
(***************************************************************************)
(* Whatever threads do to a session that they share, it stays a session of *)
(* one host: its connections all go to the address that the table has for  *)
(* that host, and only the bytes of such a connection are answered.        *)
(***************************************************************************)

\* A connection goes to the address of the host that it was made for.
ReachOK ==
    \A c \in DOMAIN conns :
        conns[c].of \in DOMAIN hosts /\ conns[c].to = hosts[conns[c].of].address

\* What thread t answers is from the owner of the node (RightHost).
FromOwner(t) ==
    HasRead(t) /\ th[t].ans.kind = "bytes" => th[t].ans.data[1][1] = hosts[th[t].id].address

OwnerInv == ReachOK /\ \A t \in Thread : FromOwner(t)

\* Connection c stays of the same host and goes to the same address.
SameConn(c) ==
    c \in DOMAIN conns /\ conns'[c].of = conns[c].of /\ conns'[c].to = conns[c].to

HostsKept == \A id \in DOMAIN hosts : id \in DOMAIN hosts' /\ hosts'[id] = hosts[id]

\* Connections are made to the address of their host, and the table is only extended.
LEMMA ReachKeeps ==
    ASSUME ReachOK, HostsKept,
           \A c \in DOMAIN conns' :
             \/ SameConn(c)
             \/ conns'[c].of \in DOMAIN hosts /\ conns'[c].to = hosts[conns'[c].of].address
    PROVE  ReachOK'
BY Zenon DEF ReachOK, HostsKept, SameConn

\* An answer stays right.
LEMMA AnswerKept ==
    ASSUME HandleInv, HostsKept, NEW t \in Thread, FromOwner(t), th'[t] = th[t]
    PROVE  FromOwner(t)'
<1> SUFFICES ASSUME HasRead(t)', th'[t].ans.kind = "bytes"
             PROVE  th'[t].ans.data[1][1] = hosts'[th'[t].id].address
  BY Zenon DEF FromOwner
<1>1. HasRead(t) /\ th[t].ans.kind = "bytes"
  BY Zenon DEF HasRead
<1>2. th[t].id \in DOMAIN hosts
  BY Zenon, <1>1 DEF HandleInv, BoundsOK, Busy, HasRead
<1>3. th[t].ans.data[1][1] = hosts[th[t].id].address
  BY Zenon, <1>1 DEF FromOwner
<1> QED BY Zenon, <1>2, <1>3 DEF HostsKept

\* A step that makes no connection keeps OwnerInv, if the threads that it changes do
\* not answer, or are right.
LEMMA OwnerKeeps ==
    ASSUME HandleInv, OwnerInv, HostsKept, \A c \in DOMAIN conns' : SameConn(c),
           \A t \in Thread : th'[t] = th[t] \/ th'[t].pc # "done" \/ FromOwner(t)'
    PROVE  OwnerInv'
<1>1. ReachOK'
  BY Zenon, ReachKeeps DEF OwnerInv
<1>2. \A t \in Thread : th'[t].pc # "done" => FromOwner(t)'
  BY Zenon DEF FromOwner, HasRead
<1>3. ASSUME NEW t \in Thread, th'[t] = th[t] PROVE FromOwner(t)'
  BY Zenon, <1>3, AnswerKept DEF OwnerInv
<1> QED BY Zenon, <1>1, <1>2, <1>3 DEF OwnerInv

\* Undefined behaviour ends all threads.
LEMMA UndefinedOwner ==
    ASSUME HandleInv, OwnerInv, UNCHANGED hosts, NEW what, Undefined(what)
    PROVE  OwnerInv'
<1>1. HostsKept /\ UNCHANGED conns /\ \A t \in Thread : th'[t].pc = "dead"
  BY Zenon DEF HostsKept, Undefined
<1>2. \A c \in DOMAIN conns' : SameConn(c)
  BY Zenon, <1>1 DEF SameConn
<1> QED BY Zenon, <1>1, <1>2, OwnerKeeps

\* The ways in which a step changes connections.
LEMMA ConnsStay ==
    ASSUME ConnsOK, NEW h, NEW v,
           \/ UNCHANGED conns
           \/ conns' = [conns EXCEPT ![h].up = v]
           \/ conns' = [conns EXCEPT ![h].parts = v]
           \/ conns' = [conns EXCEPT ![h].pos = v]
    PROVE  \A c \in DOMAIN conns' : SameConn(c)
<1>0. \A c \in DOMAIN conns : DOMAIN conns[c] = ConnFields
  BY Zenon DEF ConnsOK
<1> USE <1>0 DEF SameConn, ConnFields
<1>1. CASE UNCHANGED conns
  BY Zenon, <1>1
<1>2. CASE conns' = [conns EXCEPT ![h].up = v]
  BY <1>2
<1>3. CASE conns' = [conns EXCEPT ![h].parts = v]
  BY <1>3
<1>4. CASE conns' = [conns EXCEPT ![h].pos = v]
  BY <1>4
<1> QED BY Zenon, <1>1, <1>2, <1>3, <1>4

\* No other thread takes a step.
OthersStay(t) == \A u \in Thread \ {t} : th'[u] = th[u]

\* No step of a session but sftp_read answers with bytes.
LEMMA QuietSteps ==
    ASSUME FileInv, NEW t \in Thread, SessionStep(t), ~Fetch(t), ~\E what : Undefined(what)
    PROVE  OthersStay(t) /\ (th'[t].pc # "done" \/ th'[t].ans.kind # "bytes")
<1>0. Busy(t)
  BY Zenon DEF SessionStep, Check, SshNew, SshConnect, SftpNew, SftpOpen, Seek, CloseFile,
         CloseSftp, CloseSsh, Closed, Busy
<1>1. \/ \E pc \in InSession : Goto(t, pc)
      \/ ConnectFails(t) \/ ReadFails(t)
      \/ th' = [th EXCEPT ![t].pc = "seek", ![t].fresh = TRUE]
      \/ th' = [th EXCEPT ![t].pc = "new", ![t].retry = FALSE]
      \/ Answer(t, "EIO", << >>)
  <2>1. CASE Check(t) \/ SshNew(t) \/ SshConnect(t)
    BY Zenon, <2>1 DEF Check, SshNew, SshConnect, BadHandle, InSession
  <2>2. CASE SftpNew(t) \/ SftpOpen(t) \/ Seek(t)
    BY Zenon, <2>2 DEF SftpNew, SftpOpen, Seek, BadHandle, InSession
  <2>3. CASE CloseFile(t) \/ CloseSftp(t) \/ CloseSsh(t) \/ Closed(t)
    BY Zenon, <2>3 DEF CloseFile, CloseSftp, CloseSsh, Closed, Release, BadHandle, InSession
  <2> QED BY Zenon, <2>1, <2>2, <2>3 DEF SessionStep
<1>2. CASE Answer(t, "EIO", << >>)
  <2>1. Goes(t, "done") /\ th'[t].ans.kind = "EIO"
    BY Zenon, <1>0, <1>2, AnswerGoes
  <2> QED BY Zenon, <2>1 DEF Goes, OthersStay
<1>3. CASE ~Answer(t, "EIO", << >>)
  <2>1. \E pc \in InSession : Goes(t, pc)
    BY Zenon, <1>0, <1>1, <1>3, WhereTo DEF InSession
  <2> QED BY Zenon, <2>1 DEF Goes, InSession, OthersStay
<1> QED BY Zenon, <1>2, <1>3

\* What sftp_read returns comes from the connection that the file belongs to, which is
\* one of the session's.
LEMMA FetchOwner ==
    ASSUME FileInv, HandleInv, OwnerInv, NEW t \in Thread, Fetch(t), UNCHANGED metadata,
           ~\E what : Undefined(what)
    PROVE  OwnerInv'
<1> DEFINE file == session[th[t].id].file
<1>0. Busy(t) /\ th[t].pc = "fetch" /\ UNCHANGED hosts /\ ConnsOK
  BY Zenon DEF Fetch, Busy, metadata, HandleInv
<1>1. /\ th[t].id \in DOMAIN session
      /\ file > 0 => file \in DOMAIN conns /\ conns[file].of = th[t].id
  <2>1. th[t].id \in DOMAIN session
    BY Zenon, <1>0 DEF HandleInv, UsersOK, InSession
  <2> QED BY Zenon, <2>1, SetHandle DEF Parts
<1>2. HostsKept
  BY Zenon, <1>0 DEF HostsKept
<1>3. \A c \in DOMAIN conns' : SameConn(c)
  BY Zenon, <1>0, ConnsStay DEF Fetch, ReadFails, BadHandle
<1>4. CASE \E pos : file > 0 /\ Answer(t, "bytes", <<<<conns[file].to, conns[file].file>>, pos>>)
  <2>1. PICK pos : file > 0 /\ Answer(t, "bytes", <<<<conns[file].to, conns[file].file>>, pos>>)
    BY Zenon, <1>4
  <2> DEFINE data == <<<<conns[file].to, conns[file].file>>, pos>>
  <2>2. data[1][1] = conns[file].to
    OBVIOUS
  <2> HIDE DEF data
  <2>3. Goes(t, "done") /\ th'[t].ans.data = data
    <3>1. Answer(t, "bytes", data)
      BY Zenon, <2>1 DEF data
    <3> QED BY Zenon, <1>0, <3>1, AnswerGoes
  <2>4. conns[file].to = hosts[th[t].id].address
    BY Zenon, <1>1, <2>1 DEF OwnerInv, ReachOK
  <2>5. FromOwner(t)'
    BY Zenon, <1>0, <2>2, <2>3, <2>4 DEF FromOwner, Goes
  <2> QED BY Zenon, <1>2, <1>3, <2>3, <2>5, OwnerKeeps DEF Goes
<1>5. CASE Answer(t, "eof", << >>)
  <2>1. Goes(t, "done") /\ th'[t].ans.kind = "eof"
    BY Zenon, <1>0, <1>5, AnswerGoes
  <2>2. FromOwner(t)'
    BY Zenon, <2>1 DEF FromOwner
  <2> QED BY Zenon, <1>2, <1>3, <2>1, <2>2, OwnerKeeps DEF Goes
<1>6. CASE ReadFails(t)
  <2>1. Goes(t, "disconnect")
    BY Zenon, <1>0, <1>6, WhereTo
  <2> QED BY Zenon, <1>2, <1>3, <2>1, OwnerKeeps DEF Goes
<1>7. \/ \E pos : file > 0 /\ Answer(t, "bytes", <<<<conns[file].to, conns[file].file>>, pos>>)
      \/ Answer(t, "eof", << >>) \/ ReadFails(t)
  BY Zenon DEF Fetch, BadHandle, Valid, Mine
<1> QED BY Zenon, <1>4, <1>5, <1>6, <1>7

\* ssh_new is told the session's address; no other step makes a connection.
LEMMA SessionStepOwner ==
    ASSUME FileInv, HandleInv, OwnerInv, NEW t \in Thread, SessionStep(t), UNCHANGED metadata
    PROVE  OwnerInv'
<1> DEFINE id == th[t].id
<1>0. UNCHANGED hosts /\ HostsKept /\ ConnsOK
  BY Zenon DEF metadata, HostsKept, HandleInv
<1>1. CASE \E what : Undefined(what)
  BY Zenon, <1>0, <1>1, UndefinedOwner
<1>2. CASE Fetch(t) /\ ~\E what : Undefined(what)
  BY Zenon, <1>2, FetchOwner
<1>3. CASE ~Fetch(t) /\ ~\E what : Undefined(what)
  <2>1. OthersStay(t) /\ (th'[t].pc # "done" \/ th'[t].ans.kind # "bytes")
    BY Zenon, <1>3, QuietSteps
  <2>2. \A u \in Thread : th'[u] = th[u] \/ th'[u].pc # "done" \/ FromOwner(u)'
    BY Zenon, <2>1 DEF OthersStay, FromOwner
  <2>3. CASE conns' = Append(conns, [of |-> id, to |-> session[id].address, up |-> FALSE,
                                     parts |-> {"ssh"}, file |-> NoPath, pos |-> 0])
             /\ th[t].pc = "new"
    <3> DEFINE r == [of |-> id, to |-> session[id].address, up |-> FALSE,
                     parts |-> {"ssh"}, file |-> NoPath, pos |-> 0]
    <3>1. r.of = id /\ r.to = session[id].address
      BY Zenon
    <3> HIDE DEF r
    <3>2. /\ DOMAIN conns' = DOMAIN conns \cup {Len(conns) + 1}
          /\ \A c \in DOMAIN conns : conns'[c] = conns[c]
          /\ conns'[Len(conns) + 1] = r
      <4>1. conns' = Append(conns, r)
        BY Zenon, <2>3 DEF r
      <4> QED BY Zenon, <1>0, <4>1, ConnAdded
    <3>3. id \in DOMAIN hosts /\ session[id].address = hosts[id].address
      BY Zenon, <2>3 DEF HandleInv, UsersOK, InSession, FileInv, SessionsOK
    <3>4. ReachOK'
      BY Zenon, <1>0, <3>1, <3>2, <3>3, ReachKeeps DEF OwnerInv, SameConn
    <3>5. ASSUME NEW u \in Thread PROVE FromOwner(u)'
      BY Zenon, <1>0, <2>2, AnswerKept DEF FromOwner, HasRead, OwnerInv
    <3> QED BY Zenon, <3>4, <3>5 DEF OwnerInv
  <2>4. CASE \A c \in DOMAIN conns' : SameConn(c)
    BY Zenon, <1>0, <2>2, <2>4, OwnerKeeps
  <2>5. \/ conns' = Append(conns, [of |-> id, to |-> session[id].address, up |-> FALSE,
                                   parts |-> {"ssh"}, file |-> NoPath, pos |-> 0])
           /\ th[t].pc = "new"
        \/ \A c \in DOMAIN conns' : SameConn(c)
    <3>1. CASE Check(t) \/ SshConnect(t)
      BY Zenon, <1>0, <1>3, <3>1, ConnsStay DEF Check, SshConnect, BadHandle
    <3>2. CASE SshNew(t)
      BY Zenon, <1>0, <3>2, ConnsStay DEF SshNew, Mine
    <3>3. CASE SftpNew(t)
      <4>1. UNCHANGED conns \/ \E h, v : conns' = [conns EXCEPT ![h].parts = v]
        BY Zenon, <1>3, <3>3 DEF SftpNew, BadHandle
      <4> QED BY Zenon, <1>0, <4>1, ConnsStay
    <3>4. CASE Seek(t) \/ Closed(t)
      BY Zenon, <1>0, <1>3, <3>4, ConnsStay DEF Seek, Closed, ReadFails, BadHandle
    <3>5. CASE SftpOpen(t)
      <4> DEFINE h == Mine(t).sftp
                 w == th[t].remote
      <4>1. \/ UNCHANGED conns
            \/ conns' = [conns EXCEPT ![h].parts = @ \cup {"file"}, ![h].file = w, ![h].pos = 0]
        BY Zenon, <1>3, <3>5 DEF SftpOpen, BadHandle
      <4>2. \A c \in DOMAIN conns : DOMAIN conns[c] = ConnFields
        BY Zenon, <1>0 DEF ConnsOK
      <4> HIDE DEF h, w
      <4>3. \A c \in DOMAIN conns' : SameConn(c)
        BY <4>1, <4>2 DEF SameConn, ConnFields
      <4> QED BY Zenon, <4>3
    <3>6. CASE CloseFile(t) \/ CloseSftp(t) \/ CloseSsh(t)
      <4>1. PICK part, s, next : Release(t, part, s, next)
        BY Zenon, <3>6 DEF CloseFile, CloseSftp, CloseSsh
      <4>2. conns' = [c \in DOMAIN conns |->
                        IF c # Mine(t)[part] THEN conns[c]
                        ELSE [conns[c] EXCEPT !.parts = @ \ {part}, !.up = @ /\ part # "ssh"]]
        BY Zenon, <1>3, <4>1 DEF Release, BadHandle
      <4>3. \A c \in DOMAIN conns : DOMAIN conns[c] = ConnFields
        BY Zenon, <1>0 DEF ConnsOK
      <4> QED BY Zenon, <4>2, <4>3 DEF SameConn, ConnFields
    <3> QED BY Zenon, <1>3, <3>1, <3>2, <3>3, <3>4, <3>5, <3>6 DEF SessionStep
  <2> QED BY Zenon, <2>3, <2>4, <2>5
<1> QED BY Zenon, <1>1, <1>2, <1>3

\* The steps of a thread outside of a session.  Only Locate answers with bytes, of a
\* file of this node.
LEMMA CallbackOwner ==
    ASSUME FileInv, HandleInv, OwnerInv, NEW t \in Thread,
           \/ FindNode(t) \/ InspectNode(t) \/ FindHost(t) \/ InsertHost(t) \/ Locate(t)
           \/ Return(t) \/ \E request \in Requests : Call(t, request)
    PROVE  OwnerInv'
<1>0. DOMAIN th = Thread /\ (Busy(t) => DOMAIN th[t] = ThreadFields)
  BY Zenon DEF FileInv, ThreadsOK
<1>1. UNCHANGED hosts /\ HostsKept
  <2>1. UNCHANGED hosts
    BY Zenon DEF FindNode, InspectNode, FindHost, InsertHost, Locate, Return, Call, outside, metadata
  <2> QED BY Zenon, <2>1 DEF HostsKept
<1>2. ASSUME UNCHANGED conns, OthersStay(t), th'[t].pc # "done" \/ FromOwner(t)' PROVE OwnerInv'
  <2>1. \A c \in DOMAIN conns' : SameConn(c)
    BY Zenon, <1>2 DEF SameConn
  <2> QED BY Zenon, <1>1, <1>2, <2>1, OwnerKeeps DEF OthersStay
<1>3. ASSUME UNCHANGED conns, Busy(t), NEW kind, NEW data, Answer(t, kind, data),
             kind = "bytes" => data[1][1] = hosts[th[t].id].address
      PROVE  OwnerInv'
  <2>1. Goes(t, "done") /\ th'[t].ans.kind = kind /\ th'[t].ans.data = data
    BY Zenon, <1>3, AnswerGoes
  <2>2. OthersStay(t) /\ FromOwner(t)'
    BY Zenon, <1>1, <1>3, <2>1 DEF Goes, OthersStay, FromOwner
  <2> QED BY Zenon, <1>2, <1>3, <2>2
<1>4. ASSUME FindNode(t) \/ FindHost(t) PROVE OwnerInv'
  <2>1. /\ UNCHANGED conns /\ OthersStay(t)
        /\ th'[t].pc \in {"inspect", "locate", "insert"}
    BY Zenon, <1>0, <1>4 DEF FindNode, FindHost, Goto, outside, OthersStay, Busy, ThreadFields
  <2> QED BY Zenon, <1>2, <2>1
<1>5. ASSUME InspectNode(t) PROVE OwnerInv'
  <2>1. CASE Undefined("node")
    BY Zenon, <1>1, <2>1, UndefinedOwner
  <2>2. CASE Inspect(t)
    <3>0. Busy(t) /\ UNCHANGED conns
      BY Zenon, <1>5, <2>2 DEF InspectNode, Inspect, Busy
    <3>1. \/ \E kind, data : kind # "bytes" /\ Answer(t, kind, data)
          \/ th' = [th EXCEPT ![t].pc = "find host", ![t].id = NodeAt(th[t].node).host_id]
      BY <2>2, Zenon DEF Inspect
    <3>2. CASE th' = [th EXCEPT ![t].pc = "find host", ![t].id = NodeAt(th[t].node).host_id]
      <4>1. OthersStay(t) /\ th'[t].pc = "find host"
        BY Zenon, <1>0, <3>0, <3>2 DEF OthersStay, ThreadFields
      <4> QED BY Zenon, <1>2, <3>0, <4>1
    <3> QED BY Zenon, <1>3, <3>0, <3>1, <3>2
  <2> QED BY Zenon, <1>5, <2>1, <2>2 DEF InspectNode
<1>6. ASSUME InsertHost(t) PROVE OwnerInv'
  <2>1. Busy(t) /\ UNCHANGED conns /\ (Goto(t, "locate") \/ Answer(t, "EIO", << >>))
    BY Zenon, <1>6 DEF InsertHost, Busy, outside
  <2>2. CASE Goto(t, "locate")
    <3>1. Goes(t, "locate")
      BY Zenon, <2>1, <2>2, WhereTo
    <3> QED BY Zenon, <1>2, <2>1, <3>1 DEF Goes, OthersStay
  <2> QED BY Zenon, <1>3, <2>1, <2>2
<1>7. ASSUME Locate(t) PROVE OwnerInv'
  <2> DEFINE host == hosts[th[t].id]
             file == <<host.address, <<host.working_dir, th[t].path>>>>
             data == <<file, th[t].offset>>
             a == [kind |-> "EIO", data |-> << >>]
  <2>1. data[1][1] = host.address /\ a.kind = "EIO"
    OBVIOUS
  <2>2. Busy(t) /\ UNCHANGED conns
    BY Zenon, <1>7 DEF Locate, Busy
  <2>3. \/ \E r : th' = [th EXCEPT ![t].pc = "check", ![t].remote = r]
        \/ Answer(t, "bytes", data) \/ Answer(t, "eof", << >>)
        \/ th' = [th EXCEPT ![t].pc = "done", ![t].troubled = TRUE, ![t].ans = a]
    BY Zenon, <1>7 DEF Locate
  <2> HIDE DEF data, a
  <2>4. CASE \E r : th' = [th EXCEPT ![t].pc = "check", ![t].remote = r]
    <3>1. Goes(t, "check")
      BY Zenon, <2>2, <2>4, WhereTo
    <3> QED BY Zenon, <1>2, <2>2, <3>1 DEF Goes, OthersStay
  <2>5. CASE th' = [th EXCEPT ![t].pc = "done", ![t].troubled = TRUE, ![t].ans = a]
    <3>1. Goes(t, "done") /\ th'[t].ans = a
      BY Zenon, <2>2, <2>5, OwnFileFails
    <3>2. OthersStay(t) /\ FromOwner(t)'
      BY Zenon, <2>1, <3>1 DEF Goes, OthersStay, FromOwner
    <3> QED BY Zenon, <1>2, <2>2, <3>2
  <2> QED BY Zenon, <1>3, <2>1, <2>2, <2>3, <2>4, <2>5
<1>8. ASSUME Return(t) \/ \E request \in Requests : Call(t, request) PROVE OwnerInv'
  <2>1. UNCHANGED conns /\ \E r : r.pc # "done" /\ th' = [th EXCEPT ![t] = r]
    <3>1. CASE Return(t)
      BY Zenon, <3>1 DEF Return, outside, Idle
    <3>2. CASE \E request \in Requests : Call(t, request)
      BY Zenon, <3>2 DEF Call
    <3> QED BY Zenon, <1>8, <3>1, <3>2
  <2>2. OthersStay(t) /\ th'[t].pc # "done"
    BY Zenon, <1>0, <2>1 DEF OthersStay
  <2> QED BY Zenon, <1>2, <2>1, <2>2
<1> QED BY Zenon, <1>4, <1>5, <1>6, <1>7, <1>8

\* Updates only extend the host table, and no step of the network thread, of a server,
\* of an owner or of the kernel makes a thread answer.
LEMMA OutsideOwner ==
    ASSUME FileInv, HandleInv, OwnerInv,
           \/ BeginUpdate \/ EndUpdate \/ BeginDisconnect \/ EndDisconnect
           \/ \E c \in DOMAIN conns : Drop(c) /\ UNCHANGED <<metadata, calls, mounted>>
           \/ \E file \in DOMAIN Size \ gone : RemoveFile(file)
           \/ Unmount
           \/ UNCHANGED vars
    PROVE  OwnerInv'
<1>0. ConnsOK /\ \A t \in Thread : Busy(t) => DOMAIN th[t] = ThreadFields
  BY Zenon DEF HandleInv, FileInv, ThreadsOK
<1>1. ASSUME UNCHANGED <<hosts, conns>>, \A t \in Thread : th'[t] = th[t] \/ th'[t].pc # "done"
      PROVE  OwnerInv'
  <2>1. HostsKept /\ \A c \in DOMAIN conns' : SameConn(c)
    BY Zenon, <1>1 DEF HostsKept, SameConn
  <2> QED BY Zenon, <1>1, <2>1, OwnerKeeps
<1>2. ASSUME BeginUpdate \/ BeginDisconnect PROVE OwnerInv'
  <2>1. /\ UNCHANGED <<hosts, conns>>
        /\ \A t \in Thread : \/ th'[t] = th[t]
                             \/ th[t].pc = "inspect" /\ th'[t] = [th[t] EXCEPT !.dead = TRUE]
    BY Zenon, <1>2 DEF BeginUpdate, BeginDisconnect, Lock
  <2>2. \A t \in Thread : th'[t] = th[t] \/ th'[t].pc # "done"
    BY Zenon, <1>0, <2>1 DEF Busy, ThreadFields
  <2> QED BY Zenon, <1>1, <2>1, <2>2
<1>3. ASSUME EndUpdate PROVE OwnerInv'
  <2>1. /\ view \in 1..Len(Views) - 1 /\ hosts = Views[view].hosts
        /\ hosts' = Views[view + 1].hosts
    BY <1>3, ViewsAssumption DEF EndUpdate, FileInv, MetadataOK
  <2>2. HostsKept
    BY Zenon, <2>1, ViewsAssumption DEF HostsKept
  <2>3. UNCHANGED <<th, conns>>
    BY Zenon, <1>3 DEF EndUpdate, sshVars
  <2>4. \A c \in DOMAIN conns' : SameConn(c)
    BY Zenon, <2>3 DEF SameConn
  <2> QED BY Zenon, <2>2, <2>3, <2>4, OwnerKeeps
<1>4. ASSUME EndDisconnect \/ (\E file \in DOMAIN Size \ gone : RemoveFile(file)) \/ UNCHANGED vars
      PROVE  OwnerInv'
  <2>1. UNCHANGED <<th, conns, hosts>>
    BY Zenon, <1>4 DEF EndDisconnect, RemoveFile, vars, sshVars, metadata
  <2> QED BY Zenon, <1>1, <2>1
<1>5. ASSUME NEW c \in DOMAIN conns, Drop(c), UNCHANGED metadata PROVE OwnerInv'
  <2>1. /\ conns' = [conns EXCEPT ![c].up = FALSE] /\ HostsKept
        /\ \A t \in Thread : \/ th'[t] = th[t]
                             \/ /\ th[t].pc \in {"sftp", "open", "seek", "fetch"}
                                /\ th'[t] = [th[t] EXCEPT !.troubled = TRUE]
    BY Zenon, <1>5 DEF Drop, HostsKept, metadata
  <2>2. \A t \in Thread : th'[t] = th[t] \/ th'[t].pc # "done"
    BY Zenon, <1>0, <2>1 DEF Busy, ThreadFields
  <2>3. \A k \in DOMAIN conns' : SameConn(k)
    BY Zenon, <1>0, <2>1, ConnsStay
  <2> QED BY Zenon, <2>1, <2>2, <2>3, OwnerKeeps
<1>6. ASSUME Unmount PROVE OwnerInv'
  <2>0. UNCHANGED hosts /\ HostsKept
    BY Zenon, <1>6 DEF Unmount, metadata, HostsKept
  <2>1. CASE Undefined("session")
    BY Zenon, <2>0, <2>1, UndefinedOwner
  <2>2. CASE ~Undefined("session")
    <3>1. /\ UNCHANGED th
          /\ conns' = [c \in DOMAIN conns |->
                         LET s == session[conns[c].of]
                         IN  [conns[c] EXCEPT !.parts = {part \in @ : s[part] # c},
                                              !.up = @ /\ s.ssh # c]]
      BY Zenon, <1>6, <2>2 DEF Unmount
    <3>2. \A c \in DOMAIN conns : DOMAIN conns[c] = ConnFields
      BY Zenon, <1>0 DEF ConnsOK
    <3>3. \A c \in DOMAIN conns' : SameConn(c)
      BY Zenon, <3>1, <3>2 DEF SameConn, ConnFields
    <3> QED BY Zenon, <2>0, <3>1, <3>3, OwnerKeeps
  <2> QED BY Zenon, <2>1, <2>2
<1> QED BY Zenon, <1>2, <1>3, <1>4, <1>5, <1>6

\* Every step keeps OwnerInv.
LEMMA OwnerNext == FileInv /\ HandleInv /\ OwnerInv /\ [Next]_vars => OwnerInv'
<1> SUFFICES ASSUME FileInv, HandleInv, OwnerInv, [Next]_vars PROVE OwnerInv'
  BY Zenon
<1>1. ASSUME NEW t \in Thread, ThreadStep(t) PROVE OwnerInv'
  <2>1. ASSUME Unguarded(t) \/ MapRace(t) PROVE OwnerInv'
    <3>1. PICK what : Undefined(what)
      BY Zenon, <2>1 DEF Unguarded, MapRace
    <3>2. UNCHANGED hosts
      BY <2>1, Zenon DEF Unguarded, MapRace, metadata
    <3> QED BY Zenon, <3>1, <3>2, UndefinedOwner
  <2> QED BY Zenon, <1>1, <2>1, CallbackOwner, SessionStepOwner DEF ThreadStep
<1>2. ASSUME NEW t \in Thread, NEW request \in Requests, Call(t, request) PROVE OwnerInv'
  BY Zenon, <1>2, CallbackOwner
<1> QED BY Zenon, <1>1, <1>2, OutsideOwner DEF Next

\* For any number of FUSE threads, and any views, requests, failures and removals: the
\* bytes that a read returns come from the machine that the host table names for the
\* owner of the node, although threads use, close and replace the connection of a host
\* under each other's feet, and the network thread replaces the table (UserFS::read,
\* SSHManager::insertHost, do_connect, do_read).
THEOREM BytesFromOwner == Spec => []RightHost
<1>1. Init => OwnerInv
  <2> SUFFICES ASSUME Init PROVE OwnerInv
    BY Zenon
  <2>1. DOMAIN conns = {} /\ \A t \in Thread : th[t].pc = "idle"
    BY DEF Init, Idle
  <2> QED BY Zenon, <2>1 DEF OwnerInv, ReachOK, FromOwner, HasRead
<1>2. OwnerInv => RightHost
  BY Zenon DEF OwnerInv, FromOwner, RightHost
<1> QED BY <1>1, <1>2, FileInit, FileNext, HandleInit, HandleNext, OwnerNext, PTL DEF Spec

----------------------------------------------------------------------------
(***************************************************************************)
(* What FUSE threads read that never use the session of one host at a time *)
(* (Apart), for any requests, views, failures and removals: the right      *)
(* bytes, an error only with a reason, and nothing through an object that  *)
(* libssh has released.                                                    *)
(*                                                                         *)
(* What has to be followed is which objects of libssh a session's handles  *)
(* still refer to while they are overwritten and released one by one, and  *)
(* what a thread knows of its connection at each place of                  *)
(* SSHSession::read.  What it knows is of its own session, and no step of  *)
(* a thread at another session takes that away.                            *)
(***************************************************************************)

\* The places where a thread uses the session of the host it reads from, or inserts it.
InRead == {"insert", "check", "new", "connect", "sftp", "open", "seek", "fetch",
           "disconnect", "close sftp", "close ssh", "closed"}

\* No two threads use the session of one host at a time.
Apart ==
    \A t, u \in Thread :
        th[t].pc \in InRead /\ th[u].pc \in InRead /\ th[t].id = th[u].id => t = u

\* The places of a thread in UserFS::read, and those of disconnect().
Reading == InSession \cup {"find host", "insert"}
Closing == {"disconnect", "close sftp", "close ssh", "closed"}

\* Where disconnect() has released an object and not yet forgotten it.
ReleasedAt == [file |-> "close sftp", sftp |-> "close ssh", ssh |-> "closed"]

\* While the process runs, the object of a handle exists, or has just been released
\* by the thread in disconnect().
LiveOK ==
    IF crashed = "no"
    THEN \A id \in DOMAIN session : \A part \in Parts : session[id][part] > 0 =>
           \/ part \in conns[session[id][part]].parts
           \/ \E t \in Thread : th[t].pc = ReleasedAt[part] /\ th[t].id = id
    ELSE crashed # "freed" /\ \A t \in Thread : th[t].pc = "dead"

\* A file that is there is as long as the tree says.
FitOK ==
    \A p \in DOMAIN tree :
       LET f == FileOf([tree |-> tree, hosts |-> hosts], p)
       IN  tree[p].size \in Nat /\ (f \in DOMAIN Size => tree[p].size <= Size[f])

\* Connections go to the address of their session, and a session knows what file is
\* open on its connection.
FilesOK ==
    /\ \A c \in DOMAIN conns :
         /\ conns[c].file # NoPath => <<conns[c].to, conns[c].file>> \in DOMAIN Size
         /\ mounted => conns[c].to = session[conns[c].of].address
    /\ \A id \in DOMAIN session : session[id].open # NoPath /\ session[id].file > 0 =>
         conns[session[id].file].file = session[id].open

Remote(t) == <<hosts[th[t].id].working_dir, th[t].path>>

\* The file that was opened for this read is on a connection that is up, or there is
\* a reason why it is not.
Connected(t) ==
    th[t].fresh => LET file == session[th[t].id].file
                   IN  file > 0 /\ (conns[file].up \/ th[t].troubled)

\* The read will try again, or has a reason to fail.
Excused(t) == th[t].retry \/ th[t].troubled

\* What a thread knows at each place.
ReaderOK(t) ==
    /\ Busy(t) => mounted /\ th[t].offset \in Nat
    /\ th[t].pc \in {"find", "inspect"} => th[t].id = 0
    /\ th[t].pc = "inspect" => th[t].node \in {th[t].path, NoNode}
    /\ th[t].pc \in {"find", "inspect", "find host", "insert", "locate", "check"} => ~th[t].fresh
    /\ th[t].pc = "insert" => th[t].id \notin DOMAIN session
    /\ th[t].pc \in Reading /\ Asked(t) \in DOMAIN Size => th[t].offset < Size[Asked(t)]
    /\ th[t].pc \in InSession \ {"locate"} => th[t].remote = Remote(t)
    /\ th[t].pc \in {"seek", "fetch"} => session[th[t].id].open = th[t].remote
    /\ th[t].pc = "fetch" /\ session[th[t].id].file > 0 =>
         conns[session[th[t].id].file].pos = th[t].offset
    /\ th[t].pc \in {"seek", "fetch"} => Connected(t)
    /\ th[t].pc \in Closing => Excused(t)

ReadersOK == \A t \in Thread : ReaderOK(t)

ReadInv == LiveOK /\ FitOK /\ FilesOK /\ ReadersOK /\ RightBytes /\ ErrorsExplained

----------------------------------------------------------------------------
\* What has to be shown of the session that thread t uses, and of its answer.
SessionGood(t) ==
    LET s == session[th[t].id]
    IN  /\ \A part \in Parts : s[part] > 0 =>
             part \in conns[s[part]].parts \/ th[t].pc = ReleasedAt[part]
        /\ s.open # NoPath /\ s.file > 0 => conns[s.file].file = s.open

Answered(t) ==
    HasRead(t) =>
        /\ th[t].ans.kind = "bytes" => th[t].ans.data = <<Asked(t), th[t].offset>>
        /\ th[t].ans.kind = "eof" => th[t].id = HostId
        /\ th[t].ans.kind = "EIO" => th[t].troubled

\* Connections of other sessions stay; new ones go to the address of session i.
KeepsConns(i) ==
    /\ \A c \in DOMAIN conns :
         /\ c \in DOMAIN conns' /\ conns'[c].to = conns[c].to /\ conns'[c].of = conns[c].of
         /\ conns[c].of # i => conns'[c] = conns[c]
    /\ \A c \in DOMAIN conns' :
         \/ c \in DOMAIN conns /\ conns'[c].file = conns[c].file
         \/ c \in DOMAIN conns /\ <<conns'[c].to, conns'[c].file>> \in DOMAIN Size
         \/ /\ c \notin DOMAIN conns /\ conns'[c].file = NoPath
            /\ conns'[c].of = i /\ conns'[c].to = session[i].address

\* A handle is kept beyond its object in disconnect() only.
LEMMA ReleasedClosing == \A part \in Parts : ReleasedAt[part] \in Closing
<1>1. ReleasedAt["file"] \in Closing  BY Zenon DEF ReleasedAt, Closing
<1>2. ReleasedAt["sftp"] \in Closing  BY Zenon DEF ReleasedAt, Closing
<1>3. ReleasedAt["ssh"] \in Closing  BY Zenon DEF ReleasedAt, Closing
<1> QED BY Zenon, <1>1, <1>2, <1>3 DEF Parts

\* The session that a thread uses is good: it is the one that may be releasing it.
LEMMA MineGood ==
    ASSUME Apart, ReadInv, NEW t \in Thread, th[t].pc \in InSession \ {"locate"},
           th[t].id \in DOMAIN session
    PROVE  crashed = "no" /\ SessionGood(t)
<1>1. crashed = "no"
  BY Zenon DEF ReadInv, LiveOK, InSession
<1>2. th[t].pc \in InRead /\ Closing \subseteq InRead
  BY Zenon DEF InSession, InRead, Closing
<1>3. ASSUME NEW part \in Parts, session[th[t].id][part] > 0
      PROVE  \/ part \in conns[session[th[t].id][part]].parts
             \/ th[t].pc = ReleasedAt[part]
  <2>1. CASE \E u \in Thread : th[u].pc = ReleasedAt[part] /\ th[u].id = th[t].id
    BY Zenon, <1>2, <2>1, ReleasedClosing DEF Apart
  <2> QED BY Zenon, <1>1, <1>3, <2>1 DEF ReadInv, LiveOK
<1> QED BY Zenon, <1>1, <1>3 DEF ReadInv, FilesOK, SessionGood

\* What another thread knows stays, if the host table and what it knows of its session
\* do.
LEMMA OtherReads ==
    ASSUME ReadInv, NEW u \in Thread, th'[u] = th[u], UNCHANGED <<hosts, mounted>>,
           th[u].pc = "insert" => th[u].id \notin DOMAIN session',
           th[u].pc \in {"seek", "fetch"} =>
             LET s == session[th[u].id]
             IN  session'[th[u].id] = s /\ (s.file > 0 => conns'[s.file] = conns[s.file])
    PROVE  ReaderOK(u)'
<1>1. ReaderOK(u)
  BY Zenon DEF ReadInv, ReadersOK
<1>2. Asked(u)' = Asked(u) /\ Remote(u)' = Remote(u) /\ Excused(u)' = Excused(u)
  BY Zenon DEF Asked, Remote, Excused
<1>3. th[u].pc \in {"seek", "fetch"} => Connected(u)'
  BY Zenon, <1>1 DEF ReaderOK, Connected
<1>4. th[u].pc = "fetch" /\ session'[th[u].id].file > 0 =>
        conns'[session'[th[u].id].file].pos = th[u].offset
  BY Zenon, <1>1 DEF ReaderOK
<1>5. th[u].pc \in {"seek", "fetch"} => session'[th[u].id].open = th[u].remote
  BY Zenon, <1>1 DEF ReaderOK
<1> QED BY ZenonT(30), <1>1, <1>2, <1>3, <1>4, <1>5 DEF ReaderOK, Busy

\* So do the answers of the others.
LEMMA OtherAnswers ==
    ASSUME ReadInv, NEW t \in Thread, OthersStay(t), UNCHANGED hosts, Answered(t)'
    PROVE  RightBytes' /\ ErrorsExplained'
<1>1. ASSUME NEW u \in Thread PROVE Answered(u)'
  <2>1. CASE u = t
    BY Zenon, <2>1
  <2>2. CASE u # t
    <3>1. th'[u] = th[u]
      BY Zenon, <2>2 DEF OthersStay
    <3>2. Asked(u)' = Asked(u)
      BY Zenon, <3>1 DEF Asked
    <3>3. Answered(u)
      BY Zenon DEF ReadInv, RightBytes, ErrorsExplained, Answered
    <3> QED BY Zenon, <3>1, <3>2, <3>3 DEF Answered, HasRead
  <2> QED BY Zenon, <2>1, <2>2
<1> QED BY Zenon, <1>1 DEF RightBytes, ErrorsExplained, Answered

\* A step of a thread in its session keeps ReadInv, if it does for that session, that
\* thread and its answer.
LEMMA SessionReads ==
    ASSUME Apart, FileInv, HandleInv, ReadInv,
           NEW t \in Thread, th[t].pc \in InSession \ {"locate"}, OthersStay(t),
           NEW i, i = th[t].id, th'[t].id = i,
           NEW ssh, NEW sftp, NEW file, NEW open, Sets(i, ssh, sftp, file, open),
           KeepsConns(i), SessionGood(t)', ReaderOK(t)', Answered(t)',
           UNCHANGED <<tree, hosts, mounted, crashed>>
    PROVE  ReadInv'
<1>0. i \in DOMAIN session
  BY Zenon DEF HandleInv, UsersOK
<1>1. /\ DOMAIN session' = DOMAIN session
      /\ \A j \in DOMAIN session \ {i} : session'[j] = session[j]
      /\ session'[i].address = session[i].address
  BY Zenon DEF Sets
<1>2. crashed = "no"
  BY Zenon DEF ReadInv, LiveOK, InSession
<1>3. ASSUME NEW j \in DOMAIN session \ {i}, NEW part \in Parts, session[j][part] > 0
      PROVE  conns'[session[j][part]] = conns[session[j][part]]
  <2>1. session[j][part] \in DOMAIN conns /\ conns[session[j][part]].of = j
    BY Zenon, <1>3, SetHandle
  <2> QED BY Zenon, <2>1 DEF KeepsConns
<1>4. LiveOK'
  <2> SUFFICES ASSUME NEW j \in DOMAIN session, NEW part \in Parts, session'[j][part] > 0
               PROVE  \/ part \in conns'[session'[j][part]].parts
                      \/ \E u \in Thread : th'[u].pc = ReleasedAt[part] /\ th'[u].id = j
    BY Zenon, <1>1, <1>2 DEF LiveOK, ReleasedAt
  <2>1. CASE j = i
    BY Zenon, <2>1 DEF SessionGood, ReleasedAt
  <2>2. CASE j # i
    <3>1. session'[j] = session[j] /\ conns'[session[j][part]] = conns[session[j][part]]
      BY Zenon, <1>1, <1>3, <2>2
    <3>2. CASE \E u \in Thread : th[u].pc = ReleasedAt[part] /\ th[u].id = j
      BY Zenon, <2>2, <3>2 DEF OthersStay
    <3>3. session[j][part] > 0
      BY Zenon, <3>1
    <3>4. \/ part \in conns[session[j][part]].parts
          \/ \E u \in Thread : th[u].pc = ReleasedAt[part] /\ th[u].id = j
      BY Zenon, <1>2, <3>3 DEF ReadInv, LiveOK
    <3> QED BY Zenon, <3>1, <3>2, <3>4
  <2> QED BY Zenon, <2>1, <2>2
<1>5. FitOK'
  BY Zenon DEF ReadInv, FitOK
<1>6. FilesOK'
  <2>1. ASSUME NEW c \in DOMAIN conns'
        PROVE  /\ conns'[c].file # NoPath => <<conns'[c].to, conns'[c].file>> \in DOMAIN Size
               /\ mounted' => conns'[c].to = session'[conns'[c].of].address
    <3>1. CASE c \in DOMAIN conns
      <4>1. /\ conns'[c].to = conns[c].to /\ conns'[c].of = conns[c].of
            /\ conns'[c].file = conns[c].file \/ <<conns'[c].to, conns'[c].file>> \in DOMAIN Size
        BY Zenon, <3>1 DEF KeepsConns
      <4>2. /\ conns[c].file # NoPath => <<conns[c].to, conns[c].file>> \in DOMAIN Size
            /\ mounted => /\ conns[c].to = session[conns[c].of].address
                          /\ conns[c].of \in DOMAIN session
        BY Zenon, <3>1 DEF ReadInv, FilesOK, HandleInv, ConnsOK
      <4> QED BY Zenon, <1>1, <4>1, <4>2
    <3>2. CASE c \notin DOMAIN conns
      BY Zenon, <1>1, <3>2 DEF KeepsConns
    <3> QED BY Zenon, <3>1, <3>2
  <2>2. ASSUME NEW j \in DOMAIN session, session'[j].open # NoPath, session'[j].file > 0
        PROVE  conns'[session'[j].file].file = session'[j].open
    <3>1. CASE j = i
      BY Zenon, <2>2, <3>1 DEF SessionGood
    <3>2. CASE j # i
      <4>1. session'[j] = session[j]
        BY Zenon, <1>1, <3>2
      <4>2. conns'[session[j].file] = conns[session[j].file]
        BY Zenon, <1>3, <2>2, <3>2, <4>1 DEF Parts
      <4> QED BY Zenon, <2>2, <4>1, <4>2 DEF ReadInv, FilesOK
    <3> QED BY Zenon, <3>1, <3>2
  <2> QED BY Zenon, <1>1, <2>1, <2>2 DEF FilesOK
<1>7. ASSUME NEW u \in Thread \ {t} PROVE ReaderOK(u)'
  <2>1. th'[u] = th[u]
    BY Zenon DEF OthersStay
  <2>2. th[u].pc = "insert" => th[u].id \notin DOMAIN session'
    BY Zenon, <1>1 DEF ReadInv, ReadersOK, ReaderOK
  <2>3. ASSUME th[u].pc \in {"seek", "fetch"}
        PROVE  th[u].id \in DOMAIN session \ {i}
    <3>1. th[u].pc \in InSession /\ th[u].pc \in InRead /\ th[t].pc \in InRead
      BY Zenon, <2>3 DEF InSession, InRead
    <3> QED BY Zenon, <3>1 DEF Apart, HandleInv, UsersOK
  <2>4. th[u].pc \in {"seek", "fetch"} =>
          LET s == session[th[u].id]
          IN  session'[th[u].id] = s /\ (s.file > 0 => conns'[s.file] = conns[s.file])
    BY Zenon, <1>1, <1>3, <2>3 DEF Parts
  <2> QED BY Zenon, <2>1, <2>2, <2>4, OtherReads
<1>8. RightBytes' /\ ErrorsExplained'
  BY Zenon, OtherAnswers
<1> QED BY Zenon, <1>4, <1>5, <1>6, <1>7, <1>8 DEF ReadInv, ReadersOK

\* Setting one connection of session i keeps the others.
LEMMA ConnKept ==
    ASSUME HandleInv, NEW i, NEW h \in DOMAIN conns, conns[h].of = i,
           NEW up, NEW parts, NEW file, NEW pos, SetsConn(h, up, parts, file, pos),
           file = conns[h].file \/ <<conns[h].to, file>> \in DOMAIN Size
    PROVE  KeepsConns(i)
BY Zenon DEF SetsConn, KeepsConns

\* Undefined behaviour that is not the use of a released object keeps ReadInv.
LEMMA UndefinedReads ==
    ASSUME ReadInv, NEW what, what \notin {"no", "freed"}, Undefined(what),
           UNCHANGED <<tree, hosts>>, mounted' => mounted
    PROVE  ReadInv'
<1>1. /\ \A t \in Thread : th'[t].pc = "dead"
      /\ crashed' = what /\ UNCHANGED <<session, conns>>
  BY Zenon DEF Undefined
<1>2. LiveOK' /\ ReadersOK' /\ RightBytes' /\ ErrorsExplained'
  BY Zenon, <1>1 DEF LiveOK, ReadersOK, ReaderOK, RightBytes, ErrorsExplained, HasRead, Busy,
              Reading, InSession, Closing
<1>3. FitOK'
  BY Zenon DEF ReadInv, FitOK
<1>4. FilesOK'
  BY Zenon, <1>1 DEF ReadInv, FilesOK
<1> QED BY Zenon, <1>2, <1>3, <1>4 DEF ReadInv

\* A thread that goes on in its session keeps what it knows of its request.
LEMMA ReaderGoes ==
    ASSUME ReadInv, NEW t \in Thread, th[t].pc \in InSession \ {"locate"},
           NEW pc \in (InSession \ {"locate", "check"}) \cup {"done"}, Goes(t, pc),
           pc # "done" => th'[t].remote = th[t].remote, UNCHANGED <<hosts, mounted>>,
           LET s == session'[th[t].id]
           IN  /\ pc \in {"seek", "fetch"} => s.open = th[t].remote
               /\ pc = "fetch" /\ s.file > 0 => conns'[s.file].pos = th[t].offset,
           pc \in {"seek", "fetch"} => Connected(t)', pc \in Closing => Excused(t)'
    PROVE  ReaderOK(t)'
<1>1. /\ mounted /\ th[t].offset \in Nat /\ th[t].remote = Remote(t)
      /\ Asked(t) \in DOMAIN Size => th[t].offset < Size[Asked(t)]
  BY Zenon DEF ReadInv, ReadersOK, ReaderOK, Reading, InSession, Busy
<1>2. /\ th'[t].pc = pc /\ th'[t].offset = th[t].offset /\ th'[t].id = th[t].id
      /\ th'[t].path = th[t].path
  BY Zenon DEF Goes
<1>3. Asked(t)' = Asked(t) /\ Remote(t)' = Remote(t)
  BY Zenon, <1>2 DEF Asked, Remote
<1>4. /\ Busy(t)' => mounted' /\ th'[t].offset \in Nat
      /\ th'[t].pc \notin {"find", "inspect", "find host", "insert", "locate", "check"}
  BY Zenon, <1>1, <1>2 DEF InSession
<1>5. /\ th'[t].pc \in Reading /\ Asked(t)' \in DOMAIN Size => th'[t].offset < Size[Asked(t)']
      /\ th'[t].pc \in InSession \ {"locate"} => th'[t].remote = Remote(t)'
  BY Zenon, <1>1, <1>2, <1>3 DEF InSession
<1> QED BY Zenon, <1>2, <1>4, <1>5 DEF ReaderOK

----------------------------------------------------------------------------
\* A step of the thread that stays in SSHSession::read keeps ReadInv, if it leaves
\* the session good and the thread knows what it should at the next place.
LEMMA GoesOnReads ==
    ASSUME Apart, FileInv, HandleInv, ReadInv, NEW t \in Thread, NEW i, i = th[t].id,
           th[t].pc \in InSession \ {"locate"},
           NEW pc \in InSession \ {"locate", "check"}, Goes(t, pc), th'[t].remote = th[t].remote,
           NEW ssh, NEW sftp, NEW file, NEW open, Sets(i, ssh, sftp, file, open), KeepsConns(i),
           ssh > 0 => "ssh" \in conns'[ssh].parts \/ pc = "closed",
           sftp > 0 => "sftp" \in conns'[sftp].parts \/ pc = "close ssh",
           file > 0 => "file" \in conns'[file].parts \/ pc = "close sftp",
           open # NoPath /\ file > 0 => conns'[file].file = open,
           pc \in {"seek", "fetch"} => open = th[t].remote,
           pc = "fetch" /\ file > 0 => conns'[file].pos = th[t].offset,
           pc \in {"seek", "fetch"} => Connected(t)', pc \in Closing => Excused(t)',
           UNCHANGED <<tree, hosts, mounted, crashed>>
    PROVE  ReadInv'
<1>1. /\ session'[i].ssh = ssh /\ session'[i].sftp = sftp /\ session'[i].file = file
      /\ session'[i].open = open /\ th'[t].id = i /\ th'[t].pc = pc
  BY Zenon DEF Sets, Goes
<1>2. SessionGood(t)'
  <2>1. \A part \in Parts : session'[i][part] > 0 =>
          part \in conns'[session'[i][part]].parts \/ pc = ReleasedAt[part]
    <3>1. ASSUME NEW part \in Parts, session'[i][part] > 0
          PROVE  part \in conns'[session'[i][part]].parts \/ pc = ReleasedAt[part]
      <4>1. CASE part = "ssh"  BY Zenon, <1>1, <3>1, <4>1 DEF ReleasedAt
      <4>2. CASE part = "sftp"  BY Zenon, <1>1, <3>1, <4>2 DEF ReleasedAt
      <4>3. CASE part = "file"  BY Zenon, <1>1, <3>1, <4>3 DEF ReleasedAt
      <4> QED BY Zenon, <4>1, <4>2, <4>3 DEF Parts
    <3> QED BY Zenon, <3>1
  <2> QED BY Zenon, <1>1, <2>1 DEF SessionGood
<1>3. ReaderOK(t)'
  BY Zenon, <1>1, ReaderGoes
<1>4. Answered(t)'
  BY Zenon, <1>1 DEF Answered, HasRead, InSession
<1> QED BY Zenon, <1>1, <1>2, <1>3, <1>4, SessionReads DEF Goes, OthersStay

\* What the thread knows when it takes a step of its session.
LEMMA InSessionKnows ==
    ASSUME Apart, FileInv, HandleInv, ReadInv, NEW t \in Thread, SessionStep(t)
    PROVE  LET i == th[t].id
               s == session[i]
           IN  /\ th[t].pc \in InSession \ {"locate"} /\ Busy(t)
               /\ i \in DOMAIN session /\ crashed = "no" /\ ConnsOK
               /\ s.ssh > 0 => /\ s.ssh \in DOMAIN conns /\ conns[s.ssh].of = i
                               /\ "ssh" \in conns[s.ssh].parts \/ th[t].pc = "closed"
               /\ s.sftp > 0 => /\ s.sftp \in DOMAIN conns /\ conns[s.sftp].of = i
                                /\ "sftp" \in conns[s.sftp].parts \/ th[t].pc = "close ssh"
               /\ s.file > 0 => /\ s.file \in DOMAIN conns /\ conns[s.file].of = i
                                /\ "file" \in conns[s.file].parts \/ th[t].pc = "close sftp"
               /\ s.open # NoPath /\ s.file > 0 => conns[s.file].file = s.open
               /\ {s.ssh, s.sftp, s.file} \subseteq Int
               /\ \A h \in {s.ssh, s.sftp, s.file} : h > 0 \/ h \in {Null, Wild}
<1> DEFINE i == th[t].id
           s == session[i]
<1>1. th[t].pc \in InSession \ {"locate"} /\ Busy(t)
  BY Zenon DEF SessionStep, Check, SshNew, SshConnect, SftpNew, SftpOpen, Seek, Fetch, CloseFile,
         CloseSftp, CloseSsh, Closed, InSession, Busy
<1>2. i \in DOMAIN session /\ ConnsOK
  BY Zenon, <1>1 DEF HandleInv, UsersOK
<1>3. crashed = "no" /\ SessionGood(t)
  BY Zenon, <1>1, <1>2, MineGood
<1>4. \A part \in Parts : LET h == s[part]
                          IN  /\ h \in Int /\ (h > 0 <=> h \notin {Null, Wild})
                              /\ h > 0 => h \in DOMAIN conns /\ conns[h].of = i
  BY Zenon, <1>2, SetHandle
<1>5. /\ s.ssh > 0 => "ssh" \in conns[s.ssh].parts \/ th[t].pc = "closed"
      /\ s.sftp > 0 => "sftp" \in conns[s.sftp].parts \/ th[t].pc = "close ssh"
      /\ s.file > 0 => "file" \in conns[s.file].parts \/ th[t].pc = "close sftp"
      /\ s.open # NoPath /\ s.file > 0 => conns[s.file].file = s.open
  BY Zenon, <1>3 DEF SessionGood, Parts, ReleasedAt
<1> HIDE DEF s, i
<1>6. /\ s.ssh > 0 => s.ssh \in DOMAIN conns /\ conns[s.ssh].of = i
      /\ s.sftp > 0 => s.sftp \in DOMAIN conns /\ conns[s.sftp].of = i
      /\ s.file > 0 => s.file \in DOMAIN conns /\ conns[s.file].of = i
      /\ {s.ssh, s.sftp, s.file} \subseteq Int
      /\ \A h \in {s.ssh, s.sftp, s.file} : h > 0 \/ h \in {Null, Wild}
  BY Zenon, <1>4 DEF Parts
<1> QED BY Zenon, <1>1, <1>2, <1>3, <1>5, <1>6 DEF i, s

\* SSHSession::read uses the open file if it is the right one.
LEMMA CheckReads ==
    ASSUME Apart, FileInv, HandleInv, ReadInv, NEW t \in Thread, Check(t),
           UNCHANGED <<tree, hosts, mounted>>
    PROVE  ReadInv'
<1> DEFINE i == th[t].id
           s == session[i]
<1>0. SessionStep(t)
  BY Zenon DEF SessionStep
<1>1. th[t].pc = "check" /\ UNCHANGED <<session, conns, crashed>>
  BY Zenon DEF Check, others
<1>2. PICK pc \in {"seek", "new"} : Goto(t, pc) /\ (pc = "seek" => s.open = th[t].remote)
  BY Zenon DEF Check, Mine
<1>3. /\ Goes(t, pc) /\ th'[t].remote = th[t].remote /\ th'[t].fresh = th[t].fresh
      /\ Sets(i, s.ssh, s.sftp, s.file, s.open)
  BY Zenon, <1>0, <1>1, <1>2, WhereTo, MemberSet, InSessionKnows
<1>4. ~th[t].fresh
  BY Zenon, <1>1 DEF ReadInv, ReadersOK, ReaderOK
<1>5. KeepsConns(i)
  BY Zenon, <1>1 DEF KeepsConns
<1>6. /\ s.ssh > 0 => "ssh" \in conns[s.ssh].parts
      /\ s.sftp > 0 => "sftp" \in conns[s.sftp].parts
      /\ s.file > 0 => "file" \in conns[s.file].parts
      /\ s.open # NoPath /\ s.file > 0 => conns[s.file].file = s.open
  BY Zenon, <1>0, <1>1, InSessionKnows
<1>7. /\ th[t].pc \in InSession \ {"locate"} /\ pc \in InSession \ {"locate", "check"}
      /\ pc \notin Closing /\ pc # "fetch" /\ Connected(t)' /\ conns' = conns
      /\ UNCHANGED <<tree, hosts, mounted, crashed>>
  BY Zenon, <1>1, <1>2, <1>3, <1>4 DEF InSession, Closing, Connected
<1> HIDE DEF s, i
<1>8. i = th[t].id
  BY Zenon DEF i
<1> QED BY ZenonT(30), <1>2, <1>3, <1>5, <1>6, <1>7, <1>8, GoesOnReads

\* The null handle is of no connection.
LEMMA NullIsNone == ~(Null > 0)
BY DEF Null

\* A failure, after which disconnect() begins, leaves handles or makes them null.
LEMMA FailureReads ==
    ASSUME Apart, FileInv, HandleInv, ReadInv, NEW t \in Thread, SessionStep(t),
           th[t].pc \notin Closing, Goes(t, "disconnect"), th'[t].remote = th[t].remote,
           Excused(t)', NEW i, i = th[t].id, NEW s, s = session[i],
           NEW ssh \in {s.ssh, Null}, NEW sftp \in {s.sftp, Null}, NEW file \in {s.file, Null},
           Sets(i, ssh, sftp, file, s.open), UNCHANGED <<conns, tree, hosts, mounted, crashed>>
    PROVE  ReadInv'
<1>1. KeepsConns(i)
  BY Zenon DEF KeepsConns
<1>2. /\ th[t].pc \in InSession \ {"locate"}
      /\ s.ssh > 0 => "ssh" \in conns[s.ssh].parts
      /\ s.sftp > 0 => "sftp" \in conns[s.sftp].parts
      /\ s.file > 0 => "file" \in conns[s.file].parts
      /\ s.open # NoPath /\ s.file > 0 => conns[s.file].file = s.open
  BY Zenon, InSessionKnows DEF Closing
<1>3. /\ ssh > 0 => "ssh" \in conns'[ssh].parts
      /\ sftp > 0 => "sftp" \in conns'[sftp].parts
      /\ file > 0 => "file" \in conns'[file].parts
      /\ s.open # NoPath /\ file > 0 => conns'[file].file = s.open
  <2>1. ~(Null > 0)
    BY Zenon, NullIsNone
  <2>2. (ssh > 0 => ssh = s.ssh) /\ (sftp > 0 => sftp = s.sftp) /\ (file > 0 => file = s.file)
    BY Zenon, <2>1
  <2> QED BY Zenon, <1>2, <2>2
<1>4. /\ "disconnect" \in InSession \ {"locate", "check"}
      /\ "disconnect" \notin {"seek", "fetch"}
      /\ UNCHANGED <<tree, hosts, mounted, crashed>>
  BY Zenon DEF InSession
<1> QED BY Zenon, <1>1, <1>2, <1>3, <1>4, GoesOnReads

\* ssh_new: the handle gets an object of its own, or is null.
LEMMA SshNewReads ==
    ASSUME Apart, FileInv, HandleInv, ReadInv, NEW t \in Thread, SshNew(t),
           UNCHANGED <<tree, hosts, mounted>>
    PROVE  ReadInv'
<1> DEFINE i == th[t].id
           s == session[i]
           r == [of |-> i, to |-> s.address, up |-> FALSE, parts |-> {"ssh"},
                 file |-> NoPath, pos |-> 0]
<1>0. SessionStep(t)
  BY Zenon DEF SessionStep
<1>1. th[t].pc = "new" /\ UNCHANGED crashed
  BY Zenon DEF SshNew, others, ConnectFails
<1>2. /\ r.of = i /\ r.to = s.address /\ r.parts = {"ssh"} /\ r.file = NoPath
      /\ r.pos = 0 /\ ConnsOK /\ Busy(t) /\ i \in DOMAIN session
      /\ th[t].pc \in InSession \ {"locate"}
  BY Zenon, <1>0, InSessionKnows
<1> HIDE DEF r
<1>3. \/ /\ conns' = Append(conns, r)
         /\ session' = [session EXCEPT ![i].ssh = Len(conns) + 1]
         /\ Goto(t, "connect")
      \/ /\ session' = [session EXCEPT ![i].ssh = Null]
         /\ ConnectFails(t) /\ UNCHANGED conns
  BY Zenon DEF SshNew, Mine, r
<1>4. CASE /\ conns' = Append(conns, r)
           /\ session' = [session EXCEPT ![i].ssh = Len(conns) + 1]
           /\ Goto(t, "connect")
  <2>1. /\ Goes(t, "connect") /\ th'[t].remote = th[t].remote
        /\ Sets(i, Len(conns) + 1, s.sftp, s.file, s.open)
    BY Zenon, <1>2, <1>4, WhereTo, MemberSet
  <2>2. /\ Len(conns) \in Nat /\ DOMAIN conns = 1..Len(conns)
        /\ DOMAIN conns' = DOMAIN conns \cup {Len(conns) + 1}
        /\ \A c \in DOMAIN conns : conns'[c] = conns[c]
        /\ conns'[Len(conns) + 1] = r
    BY Zenon, <1>2, <1>4, ConnAdded
  <2>3. KeepsConns(i)
    BY Zenon, <1>2, <2>2 DEF KeepsConns
  <2>4. /\ s.sftp > 0 => "sftp" \in conns'[s.sftp].parts
        /\ s.file > 0 => "file" \in conns'[s.file].parts
        /\ s.open # NoPath /\ s.file > 0 => conns'[s.file].file = s.open
    BY Zenon, <1>0, <1>1, <2>2, InSessionKnows
  <2>5. /\ "ssh" \in conns'[Len(conns) + 1].parts /\ "connect" \in InSession \ {"locate", "check"}
        /\ "connect" \notin {"seek", "fetch"} \cup Closing
    BY Zenon, <1>2, <2>2 DEF InSession, Closing
  <2> HIDE DEF s
  <2> QED BY Zenon, <1>1, <1>2, <2>1, <2>3, <2>4, <2>5, GoesOnReads
<1>5. CASE /\ session' = [session EXCEPT ![i].ssh = Null]
           /\ ConnectFails(t) /\ UNCHANGED conns
  <2>1. /\ Goes(t, "disconnect") /\ th'[t].remote = th[t].remote /\ Excused(t)'
        /\ Sets(i, Null, s.sftp, s.file, s.open)
    BY Zenon, <1>2, <1>5, WhereTo, MemberSet DEF Excused
  <2>2. th[t].pc \notin Closing
    BY Zenon, <1>1 DEF Closing
  <2> QED BY Zenon, <1>0, <1>1, <1>5, <2>1, <2>2, FailureReads
<1> QED BY Zenon, <1>3, <1>4, <1>5

\* A handle of the only thread's session that the thread uses is never of an object
\* that has been released.
LEMMA NotFreed ==
    ASSUME Apart, FileInv, HandleInv, ReadInv, NEW t \in Thread, SessionStep(t),
           NEW part \in Parts, ~Valid(session[th[t].id][part], part),
           th[t].pc # ReleasedAt[part], BadHandle(session[th[t].id][part]),
           UNCHANGED <<tree, hosts, mounted>>
    PROVE  ReadInv'
<1> DEFINE h == session[th[t].id][part]
<1>1. h \in Int /\ (h > 0 => part \in conns[h].parts)
  <2>1. CASE part = "ssh"  BY Zenon, <2>1, InSessionKnows DEF ReleasedAt
  <2>2. CASE part = "sftp"  BY Zenon, <2>2, InSessionKnows DEF ReleasedAt
  <2>3. CASE part = "file"  BY Zenon, <2>3, InSessionKnows DEF ReleasedAt
  <2> QED BY Zenon, <2>1, <2>2, <2>3 DEF Parts
<1>2. Undefined("unset")
  BY Zenon, <1>1 DEF Valid, BadHandle
<1> QED BY Zenon, <1>2, UndefinedReads

\* ssh_connect: the connection of the handle is up, or there is a reason to fail.
LEMMA SshConnectReads ==
    ASSUME Apart, FileInv, HandleInv, ReadInv, NEW t \in Thread, SshConnect(t),
           UNCHANGED <<tree, hosts, mounted>>
    PROVE  ReadInv'
<1> DEFINE i == th[t].id
           s == session[i]
           h == s.ssh
<1>0. SessionStep(t)
  BY Zenon DEF SessionStep
<1>1. th[t].pc = "connect" /\ th[t].pc \notin Closing
  BY Zenon DEF SshConnect, Closing
<1>2. /\ ConnsOK /\ Busy(t) /\ i \in DOMAIN session /\ th[t].pc \in InSession \ {"locate"}
      /\ h > 0 => h \in DOMAIN conns /\ conns[h].of = i
  BY Zenon, <1>0, InSessionKnows
<1>3. CASE /\ Valid(h, "ssh") /\ conns' = [conns EXCEPT ![h].up = TRUE]
           /\ Goto(t, "sftp") /\ UNCHANGED <<session, faults, others>>
  <2>1. /\ Goes(t, "sftp") /\ th'[t].remote = th[t].remote
        /\ Sets(i, s.ssh, s.sftp, s.file, s.open)
    BY Zenon, <1>2, <1>3, WhereTo, MemberSet
  <2>2. h \in DOMAIN conns /\ conns[h].of = i
    BY Zenon, <1>2, <1>3 DEF Valid
  <2>3. PICK up : SetsConn(h, up, conns[h].parts, conns[h].file, conns[h].pos)
    BY Zenon, <1>2, <1>3, <2>2, ConnSet
  <2>4. KeepsConns(i)
    BY Zenon, <2>2, <2>3, ConnKept
  <2>5. \A c \in DOMAIN conns : conns'[c].parts = conns[c].parts /\ conns'[c].file = conns[c].file
    BY Zenon, <2>2, <2>3 DEF SetsConn
  <2>6. /\ s.ssh > 0 => "ssh" \in conns'[s.ssh].parts
        /\ s.sftp > 0 => "sftp" \in conns'[s.sftp].parts
        /\ s.file > 0 => "file" \in conns'[s.file].parts
        /\ s.open # NoPath /\ s.file > 0 => conns'[s.file].file = s.open
    BY Zenon, <1>0, <1>1, <2>5, InSessionKnows
  <2>7. /\ "sftp" \in InSession \ {"locate", "check"}
        /\ "sftp" \notin {"seek", "fetch"} \cup Closing
        /\ UNCHANGED <<tree, hosts, mounted, crashed>>
    BY Zenon, <1>3 DEF InSession, Closing, others
  <2> HIDE DEF s
  <2> QED BY Zenon, <1>2, <2>1, <2>4, <2>6, <2>7, GoesOnReads
<1>4. CASE ConnectFails(t) /\ UNCHANGED <<session, conns>>
  <2>1. /\ Goes(t, "disconnect") /\ th'[t].remote = th[t].remote /\ Excused(t)'
        /\ Sets(i, s.ssh, s.sftp, s.file, s.open) /\ UNCHANGED crashed
    BY Zenon, <1>2, <1>4, WhereTo, MemberSet DEF Excused, ConnectFails, others
  <2> QED BY Zenon, <1>0, <1>1, <1>4, <2>1, FailureReads
<1>5. CASE Invalid(h, "ssh") /\ BadHandle(h)
  <2>1. "ssh" \in Parts /\ th[t].pc # ReleasedAt["ssh"]
    BY Zenon, <1>1 DEF Parts, ReleasedAt
  <2> QED BY Zenon, <1>0, <1>5, <2>1, NotFreed DEF Invalid
<1> QED BY Zenon, <1>3, <1>4, <1>5 DEF SshConnect, Mine

\* sftp_new and sftp_init: the sftp session belongs to the connection of the handle.
LEMMA SftpNewReads ==
    ASSUME Apart, FileInv, HandleInv, ReadInv, NEW t \in Thread, SftpNew(t),
           UNCHANGED <<tree, hosts, mounted>>
    PROVE  ReadInv'
<1> DEFINE i == th[t].id
           s == session[i]
           h == s.ssh
<1>0. SessionStep(t)
  BY Zenon DEF SessionStep
<1>1. th[t].pc = "sftp" /\ th[t].pc \notin Closing
  BY Zenon DEF SftpNew, Closing
<1>2. /\ ConnsOK /\ Busy(t) /\ i \in DOMAIN session /\ th[t].pc \in InSession \ {"locate"}
      /\ h > 0 => h \in DOMAIN conns /\ conns[h].of = i
  BY Zenon, <1>0, InSessionKnows
<1>3. ASSUME h > 0, conns' = [conns EXCEPT ![h].parts = @ \cup {"sftp"}],
             session' = [session EXCEPT ![i].sftp = h],
             Goto(t, "open") \/ ConnectFails(t), UNCHANGED others
      PROVE  ReadInv'
  <2>1. PICK pc \in {"open", "disconnect"} :
          /\ Goes(t, pc) /\ th'[t].remote = th[t].remote
          /\ pc \in Closing => Excused(t)'
    BY Zenon, <1>2, <1>3, WhereTo DEF Excused, Closing
  <2>2. h \in DOMAIN conns /\ conns[h].of = i /\ Sets(i, s.ssh, h, s.file, s.open)
    BY Zenon, <1>2, <1>3, MemberSet
  <2>3. SetsConn(h, conns[h].up, conns[h].parts \cup {"sftp"}, conns[h].file, conns[h].pos)
    BY Zenon, <1>2, <1>3, <2>2, ConnSet
  <2>4. KeepsConns(i)
    BY Zenon, <2>2, <2>3, ConnKept
  <2>5. /\ \A c \in DOMAIN conns :
             conns[c].parts \subseteq conns'[c].parts /\ conns'[c].file = conns[c].file
        /\ "sftp" \in conns'[h].parts
    BY Zenon, <2>2, <2>3 DEF SetsConn
  <2>6. /\ s.ssh > 0 => "ssh" \in conns'[s.ssh].parts
        /\ s.file > 0 => "file" \in conns'[s.file].parts
        /\ s.open # NoPath /\ s.file > 0 => conns'[s.file].file = s.open
    BY Zenon, <1>0, <1>1, <2>5, InSessionKnows
  <2>7. /\ pc \in InSession \ {"locate", "check"} /\ pc \notin {"seek", "fetch"}
        /\ UNCHANGED <<tree, hosts, mounted, crashed>>
    BY Zenon, <1>3 DEF InSession, others
  <2> HIDE DEF s
  <2> QED BY Zenon, <1>2, <2>1, <2>2, <2>4, <2>5, <2>6, <2>7, GoesOnReads
<1>4. CASE ConnectFails(t) /\ UNCHANGED conns /\ session' = [session EXCEPT ![i].sftp = Null]
  <2>1. /\ Goes(t, "disconnect") /\ th'[t].remote = th[t].remote /\ Excused(t)'
        /\ Sets(i, s.ssh, Null, s.file, s.open) /\ UNCHANGED crashed
    BY Zenon, <1>2, <1>4, WhereTo, MemberSet DEF Excused, ConnectFails, others
  <2> QED BY Zenon, <1>0, <1>1, <1>4, <2>1, FailureReads
<1>5. CASE Invalid(h, "ssh") /\ BadHandle(h)
  <2>1. "ssh" \in Parts /\ th[t].pc # ReleasedAt["ssh"]
    BY Zenon, <1>1 DEF Parts, ReleasedAt
  <2> QED BY Zenon, <1>0, <1>5, <2>1, NotFreed DEF Invalid
<1>6. ConnectFails(t) => UNCHANGED others
  BY Zenon DEF ConnectFails
<1>7. Valid(h, "ssh") \/ (~Invalid(h, "ssh") /\ h # Null) => h > 0
  BY Zenon DEF Valid, Invalid
<1> QED BY Zenon, <1>3, <1>4, <1>5, <1>6, <1>7 DEF SftpNew, Mine

\* sftp_open: only now is a file open on the connection, and the session remembers it.
LEMMA SftpOpenReads ==
    ASSUME Apart, FileInv, HandleInv, ReadInv, NEW t \in Thread, SftpOpen(t),
           UNCHANGED <<tree, hosts, mounted>>
    PROVE  ReadInv'
<1> DEFINE i == th[t].id
           s == session[i]
           h == s.sftp
           r == th[t].remote
<1>0. SessionStep(t)
  BY Zenon DEF SessionStep
<1>1. th[t].pc = "open" /\ th[t].pc \notin Closing
  BY Zenon DEF SftpOpen, Closing
<1>2. /\ ConnsOK /\ Busy(t) /\ i \in DOMAIN session /\ th[t].pc \in InSession \ {"locate"}
      /\ h > 0 => h \in DOMAIN conns /\ conns[h].of = i
  BY Zenon, <1>0, InSessionKnows
<1>3. CASE /\ Valid(h, "sftp") /\ conns[h].up /\ <<conns[h].to, r>> \in DOMAIN Size \ gone
           /\ conns' = [conns EXCEPT ![h].parts = @ \cup {"file"}, ![h].file = r, ![h].pos = 0]
           /\ session' = [session EXCEPT ![i].file = h, ![i].open = r]
           /\ th' = [th EXCEPT ![t].pc = "seek", ![t].fresh = TRUE]
           /\ UNCHANGED <<faults, others>>
  <2>1. /\ Goes(t, "seek") /\ th'[t].remote = r
        /\ Sets(i, s.ssh, s.sftp, h, r)
    BY Zenon, <1>2, <1>3, WhereTo, MemberSet
  <2>2. h > 0 /\ h \in DOMAIN conns /\ conns[h].of = i
    BY Zenon, <1>2, <1>3 DEF Valid
  <2>3. SetsConn(h, conns[h].up, conns[h].parts \cup {"file"}, r, 0)
    BY Zenon, <1>2, <1>3, <2>2, ConnSet
  <2>4. KeepsConns(i)
    BY Zenon, <1>3, <2>2, <2>3, ConnKept
  <2>5. /\ \A c \in DOMAIN conns : conns[c].parts \subseteq conns'[c].parts
        /\ "file" \in conns'[h].parts /\ conns'[h].file = r /\ conns'[h].up
    BY Zenon, <1>3, <2>2, <2>3 DEF SetsConn
  <2>6. /\ s.ssh > 0 => "ssh" \in conns'[s.ssh].parts
        /\ s.sftp > 0 => "sftp" \in conns'[s.sftp].parts
    BY Zenon, <1>0, <1>1, <2>5, InSessionKnows
  <2>7. Connected(t)'
    BY Zenon, <2>1, <2>2, <2>5 DEF Connected, Sets, Goes
  <2>8. /\ "seek" \in InSession \ {"locate", "check"} /\ "seek" \notin Closing
        /\ UNCHANGED <<tree, hosts, mounted, crashed>>
    BY Zenon, <1>3 DEF InSession, Closing, others
  <2> HIDE DEF s, r
  <2> QED BY Zenon, <1>2, <2>1, <2>4, <2>5, <2>6, <2>7, <2>8, GoesOnReads DEF r
<1>4. CASE ConnectFails(t) /\ UNCHANGED conns /\ session' = [session EXCEPT ![i].file = Null]
  <2>1. /\ Goes(t, "disconnect") /\ th'[t].remote = th[t].remote /\ Excused(t)'
        /\ Sets(i, s.ssh, s.sftp, Null, s.open) /\ UNCHANGED crashed
    BY Zenon, <1>2, <1>4, WhereTo, MemberSet DEF Excused, ConnectFails, others
  <2> QED BY Zenon, <1>0, <1>1, <1>4, <2>1, FailureReads
<1>5. CASE Invalid(h, "sftp") /\ BadHandle(h)
  <2>1. "sftp" \in Parts /\ th[t].pc # ReleasedAt["sftp"]
    BY Zenon, <1>1 DEF Parts, ReleasedAt
  <2> QED BY Zenon, <1>0, <1>5, <2>1, NotFreed DEF Invalid
<1> QED BY Zenon, <1>3, <1>4, <1>5 DEF SftpOpen, Mine

\* do_read fails only on the connection that was found, or with a reason.
LEMMA ReadFailsReads ==
    ASSUME Apart, FileInv, HandleInv, ReadInv, NEW t \in Thread, SessionStep(t),
           th[t].pc \in {"seek", "fetch"}, ReadFails(t),
           LET file == session[th[t].id].file IN file = Null \/ ~conns[file].up,
           UNCHANGED <<tree, hosts, mounted>>
    PROVE  ReadInv'
<1> DEFINE i == th[t].id
           s == session[i]
<1>1. /\ Goes(t, "disconnect") /\ th'[t].remote = th[t].remote
      /\ th'[t].retry = ~th[t].fresh /\ th'[t].troubled = th[t].troubled
      /\ Sets(i, s.ssh, s.sftp, s.file, s.open) /\ UNCHANGED <<conns, crashed>>
  BY Zenon, InSessionKnows, WhereTo, MemberSet DEF ReadFails, others
<1>2. th[t].fresh => th[t].troubled
  <2>1. Connected(t)
    BY Zenon DEF ReadInv, ReadersOK, ReaderOK
  <2>2. ~(Null > 0)
    BY Zenon, NullIsNone
  <2>3. ~(s.file > 0) \/ ~conns[s.file].up
    BY Zenon, <2>2
  <2> QED BY <2>1, <2>3, Zenon DEF Connected
<1>3. Excused(t)' /\ th[t].pc \notin Closing
  BY Zenon, <1>1, <1>2 DEF Excused, Closing
<1> QED BY Zenon, <1>1, <1>3, FailureReads

\* sftp_seek64: the position is the one that is asked for.
LEMMA SeekReads ==
    ASSUME Apart, FileInv, HandleInv, ReadInv, NEW t \in Thread, Seek(t),
           UNCHANGED <<tree, hosts, mounted>>
    PROVE  ReadInv'
<1> DEFINE i == th[t].id
           s == session[i]
           h == s.file
<1>0. SessionStep(t)
  BY Zenon DEF SessionStep
<1>1. th[t].pc = "seek"
  BY Zenon DEF Seek
<1>2. /\ ConnsOK /\ Busy(t) /\ i \in DOMAIN session /\ th[t].pc \in InSession \ {"locate"}
      /\ h > 0 => h \in DOMAIN conns /\ conns[h].of = i
  BY Zenon, <1>0, InSessionKnows
<1>3. CASE /\ Valid(h, "file") /\ conns' = [conns EXCEPT ![h].pos = th[t].offset]
           /\ Goto(t, "fetch") /\ UNCHANGED <<session, faults, others>>
  <2>1. /\ Goes(t, "fetch") /\ th'[t].remote = th[t].remote
        /\ th'[t].fresh = th[t].fresh /\ th'[t].troubled = th[t].troubled
        /\ Sets(i, s.ssh, s.sftp, s.file, s.open)
    BY Zenon, <1>2, <1>3, WhereTo, MemberSet
  <2>2. h > 0 /\ h \in DOMAIN conns /\ conns[h].of = i
    BY Zenon, <1>2, <1>3 DEF Valid
  <2>3. SetsConn(h, conns[h].up, conns[h].parts, conns[h].file, th[t].offset)
    BY Zenon, <1>2, <1>3, <2>2, ConnSet
  <2>4. KeepsConns(i)
    BY Zenon, <2>2, <2>3, ConnKept
  <2>5. /\ \A c \in DOMAIN conns :
             conns'[c].parts = conns[c].parts /\ conns'[c].file = conns[c].file
        /\ conns'[h].pos = th[t].offset /\ conns'[h].up = conns[h].up
    BY Zenon, <2>2, <2>3 DEF SetsConn
  <2>6. /\ s.ssh > 0 => "ssh" \in conns'[s.ssh].parts
        /\ s.sftp > 0 => "sftp" \in conns'[s.sftp].parts
        /\ s.file > 0 => "file" \in conns'[s.file].parts
        /\ s.open # NoPath /\ s.file > 0 => conns'[s.file].file = s.open
    BY Zenon, <1>0, <1>1, <2>5, InSessionKnows
  <2>7. Connected(t) /\ s.open = th[t].remote
    BY Zenon, <1>1 DEF ReadInv, ReadersOK, ReaderOK
  <2>8. Connected(t)'
    BY Zenon, <2>1, <2>5, <2>7 DEF Connected, Sets, Goes
  <2>9. /\ "fetch" \in InSession \ {"locate", "check"} /\ "fetch" \notin Closing
        /\ UNCHANGED <<tree, hosts, mounted, crashed>>
    BY Zenon, <1>3 DEF InSession, Closing, others
  <2> HIDE DEF s
  <2> QED BY Zenon, <1>2, <2>1, <2>4, <2>5, <2>6, <2>7, <2>8, <2>9, GoesOnReads
<1>4. CASE h = Null /\ ReadFails(t)
  BY Zenon, <1>0, <1>1, <1>4, ReadFailsReads
<1>5. CASE Invalid(h, "file") /\ BadHandle(h)
  <2>1. "file" \in Parts /\ th[t].pc # ReleasedAt["file"]
    BY Zenon, <1>1 DEF Parts, ReleasedAt
  <2> QED BY Zenon, <1>0, <1>5, <2>1, NotFreed DEF Invalid
<1> QED BY Zenon, <1>3, <1>4, <1>5 DEF Seek, Mine

\* The thread has its answer, and leaves the session good.
LEMMA AnswerReads ==
    ASSUME Apart, FileInv, HandleInv, ReadInv, NEW t \in Thread, NEW i, i = th[t].id,
           th[t].pc \in InSession \ {"locate"}, Goes(t, "done"), Answered(t)',
           NEW ssh, NEW sftp, NEW file, NEW open, Sets(i, ssh, sftp, file, open), KeepsConns(i),
           ssh > 0 => "ssh" \in conns'[ssh].parts,
           sftp > 0 => "sftp" \in conns'[sftp].parts,
           file > 0 => "file" \in conns'[file].parts,
           open # NoPath /\ file > 0 => conns'[file].file = open,
           UNCHANGED <<tree, hosts, mounted, crashed>>
    PROVE  ReadInv'
<1>1. /\ session'[i].ssh = ssh /\ session'[i].sftp = sftp /\ session'[i].file = file
      /\ session'[i].open = open /\ th'[t].id = i /\ th'[t].pc = "done"
  BY Zenon DEF Sets, Goes
<1>2. SessionGood(t)'
  <2>1. ASSUME NEW part \in Parts, session'[i][part] > 0
        PROVE  part \in conns'[session'[i][part]].parts
    BY Zenon, <1>1, <2>1 DEF Parts
  <2> QED BY Zenon, <1>1, <2>1 DEF SessionGood
<1>3. ReaderOK(t)'
  <2>1. "done" \notin {"seek", "fetch"} \cup Closing
    BY Zenon DEF Closing
  <2> QED BY Zenon, <1>1, <2>1, ReaderGoes
<1> QED BY Zenon, <1>1, <1>2, <1>3, SessionReads DEF Goes, OthersStay

\* sftp_read: the block comes from the file and the place that were asked for, and is
\* inside the file.
LEMMA FetchReads ==
    ASSUME Apart, FileInv, HandleInv, ReadInv, NEW t \in Thread, Fetch(t),
           UNCHANGED <<tree, hosts, mounted>>
    PROVE  ReadInv'
<1> DEFINE i == th[t].id
           s == session[i]
           h == s.file
           from == <<conns[h].to, conns[h].file>>
           at == conns[h].pos
<1>0. SessionStep(t)
  BY Zenon DEF SessionStep
<1>1. th[t].pc = "fetch"
  BY Zenon DEF Fetch
<1>2. /\ ConnsOK /\ Busy(t) /\ i \in DOMAIN session /\ th[t].pc \in InSession \ {"locate"}
      /\ h > 0 => h \in DOMAIN conns /\ conns[h].of = i
      /\ s.open # NoPath /\ h > 0 => conns[h].file = s.open
  BY Zenon, <1>0, InSessionKnows
<1>3. ASSUME Valid(h, "file")
      PROVE  /\ h \in DOMAIN conns /\ conns[h].of = i /\ at = th[t].offset
             /\ from = Asked(t) /\ at < Size[from]
  <2>1. h > 0 /\ h \in DOMAIN conns /\ conns[h].of = i
    BY Zenon, <1>2, <1>3 DEF Valid
  <2>2. /\ mounted /\ th[t].remote = Remote(t) /\ s.open = th[t].remote
        /\ at = th[t].offset
        /\ Asked(t) \in DOMAIN Size => th[t].offset < Size[Asked(t)]
    BY Zenon, <1>1, <1>2, <2>1 DEF ReadInv, ReadersOK, ReaderOK, Reading, InSession
  <2>3. s.open = <<hosts[i].working_dir, th[t].path>> /\ s.open # NoPath
    BY <2>2 DEF Remote, NoPath
  <2>4. conns[h].file = s.open
    BY Zenon, <1>2, <2>1, <2>3
  <2>5. conns[h].to = hosts[i].address
    BY Zenon, <1>2, <2>1, <2>2 DEF ReadInv, FilesOK, FileInv, SessionsOK
  <2>6. from = Asked(t)
    BY Zenon, <2>3, <2>4, <2>5 DEF Asked
  <2>7. from \in DOMAIN Size
    BY Zenon, <2>1, <2>3, <2>4 DEF ReadInv, FilesOK
  <2> QED BY Zenon, <2>1, <2>2, <2>6, <2>7
<1>4. CASE /\ Valid(h, "file") /\ conns' = [conns EXCEPT ![h].pos = at + 1]
           /\ Answer(t, "bytes", <<from, at>>) /\ UNCHANGED <<session, faults, others>>
  <2>1. /\ Goes(t, "done") /\ th'[t].ans.kind = "bytes" /\ th'[t].ans.data = <<from, at>>
        /\ Sets(i, s.ssh, s.sftp, s.file, s.open)
    <3>1. PICK data : data = <<from, at>> /\ Answer(t, "bytes", data)
      BY Zenon, <1>4
    <3>2. Goes(t, "done") /\ th'[t].ans.kind = "bytes" /\ th'[t].ans.data = data
      BY Zenon, <1>2, <3>1, AnswerGoes
    <3>3. Sets(i, s.ssh, s.sftp, s.file, s.open)
      BY Zenon, <1>2, <1>4, MemberSet
    <3> QED BY Zenon, <3>1, <3>2, <3>3
  <2>2. h \in DOMAIN conns /\ conns[h].of = i /\ at = th[t].offset /\ from = Asked(t)
    BY Zenon, <1>3, <1>4
  <2>3. SetsConn(h, conns[h].up, conns[h].parts, conns[h].file, at + 1)
    BY Zenon, <1>2, <1>4, <2>2, ConnSet
  <2>4. KeepsConns(i)
    BY Zenon, <2>2, <2>3, ConnKept
  <2>5. \A c \in DOMAIN conns : conns'[c].parts = conns[c].parts /\ conns'[c].file = conns[c].file
    BY Zenon, <2>2, <2>3 DEF SetsConn
  <2>6. /\ s.ssh > 0 => "ssh" \in conns'[s.ssh].parts
        /\ s.sftp > 0 => "sftp" \in conns'[s.sftp].parts
        /\ s.file > 0 => "file" \in conns'[s.file].parts
        /\ s.open # NoPath /\ s.file > 0 => conns'[s.file].file = s.open
    BY Zenon, <1>0, <1>1, <2>5, InSessionKnows
  <2>7. Asked(t)' = Asked(t) /\ th'[t].offset = th[t].offset
    BY Zenon, <2>1 DEF Asked, Goes
  <2>8. Answered(t)'
    BY Zenon, <2>1, <2>2, <2>7 DEF Answered
  <2>9. UNCHANGED <<tree, hosts, mounted, crashed>>
    BY Zenon, <1>4 DEF others
  <2> HIDE DEF s
  <2> QED BY Zenon, <1>2, <2>1, <2>4, <2>6, <2>8, <2>9, AnswerReads
<1>5. CASE Valid(h, "file") /\ ~conns[h].up /\ ReadFails(t)
  BY Zenon, <1>0, <1>1, <1>5, ReadFailsReads
<1>6. CASE ~Valid(h, "file") /\ BadHandle(h)
  <2>1. "file" \in Parts /\ th[t].pc # ReleasedAt["file"]
    BY Zenon, <1>1 DEF Parts, ReleasedAt
  <2> QED BY Zenon, <1>0, <1>6, <2>1, NotFreed
<1> QED BY Zenon, <1>3, <1>4, <1>5, <1>6 DEF Fetch, Mine

\* disconnect() releases an object, and the next step forgets the handle.
LEMMA ReleaseReads ==
    ASSUME Apart, FileInv, HandleInv, ReadInv, NEW t \in Thread,
           CloseFile(t) \/ CloseSftp(t) \/ CloseSsh(t), UNCHANGED <<tree, hosts, mounted>>
    PROVE  ReadInv'
<1> DEFINE i == th[t].id
           s == session[i]
<1>0. SessionStep(t)
  BY Zenon DEF SessionStep
<1>1. /\ ConnsOK /\ Busy(t) /\ i \in DOMAIN session /\ th[t].pc \in InSession \ {"locate"}
      /\ s.ssh > 0 => s.ssh \in DOMAIN conns /\ conns[s.ssh].of = i
      /\ s.sftp > 0 => s.sftp \in DOMAIN conns /\ conns[s.sftp].of = i
      /\ s.file > 0 => s.file \in DOMAIN conns /\ conns[s.file].of = i
  BY Zenon, <1>0, InSessionKnows
<1>2. /\ s.ssh > 0 => "ssh" \in conns[s.ssh].parts \/ th[t].pc = "closed"
      /\ s.sftp > 0 => "sftp" \in conns[s.sftp].parts \/ th[t].pc = "close ssh"
      /\ s.file > 0 => "file" \in conns[s.file].parts \/ th[t].pc = "close sftp"
      /\ s.open # NoPath /\ s.file > 0 => conns[s.file].file = s.open
  BY Zenon, <1>0, InSessionKnows
<1>3. PICK part, w, next :
        /\ part \in Parts /\ Release(t, part, w, next)
        /\ \/ /\ part = "file" /\ next = "close sftp" /\ th[t].pc = "disconnect"
              /\ w = [s EXCEPT !.open = NoPath]
           \/ /\ part = "sftp" /\ next = "close ssh" /\ th[t].pc = "close sftp"
              /\ w = [s EXCEPT !.file = Null]
           \/ /\ part = "ssh" /\ next = "closed" /\ th[t].pc = "close ssh"
              /\ w = [s EXCEPT !.sftp = Null]
  BY Zenon DEF CloseFile, CloseSftp, CloseSsh, Mine, Parts
<1> DEFINE h == s[part]
<1>4. CASE Invalid(h, part) /\ BadHandle(h)
  <2>1. th[t].pc # ReleasedAt[part]
    <3>1. CASE part = "ssh"  BY Zenon, <1>3, <3>1 DEF ReleasedAt
    <3>2. CASE part = "sftp"  BY Zenon, <1>3, <3>2 DEF ReleasedAt
    <3>3. CASE part = "file"  BY Zenon, <1>3, <3>3 DEF ReleasedAt
    <3> QED BY Zenon, <1>3, <3>1, <3>2, <3>3 DEF Parts
  <2> QED BY Zenon, <1>0, <1>3, <1>4, <2>1, NotFreed DEF Invalid
<1>5. CASE /\ ~Invalid(h, part) /\ session' = [session EXCEPT ![i] = w] /\ Goto(t, next)
           /\ conns' = [c \in DOMAIN conns |->
                          IF c # h THEN conns[c]
                          ELSE [conns[c] EXCEPT !.parts = @ \ {part}, !.up = @ /\ part # "ssh"]]
           /\ UNCHANGED <<faults, others>>
  <2>1. /\ Goes(t, next) /\ th'[t].remote = th[t].remote
        /\ th'[t].retry = th[t].retry /\ th'[t].troubled = th[t].troubled
    BY Zenon, <1>1, <1>5, WhereTo
  <2>2. PICK sftp, file, open :
          /\ Sets(i, s.ssh, sftp, file, open)
          /\ \/ /\ part = "file" /\ next = "close sftp" /\ th[t].pc = "disconnect"
                /\ sftp = s.sftp /\ file = s.file /\ open = NoPath
             \/ /\ part = "sftp" /\ next = "close ssh" /\ th[t].pc = "close sftp"
                /\ sftp = s.sftp /\ file = Null /\ open = s.open
             \/ /\ part = "ssh" /\ next = "closed" /\ th[t].pc = "close ssh"
                /\ sftp = Null /\ file = s.file /\ open = s.open
    BY Zenon, <1>1, <1>3, <1>5, MemberSet
  <2>3. Excused(t)'
    <3>1. Excused(t)
      BY Zenon, <1>3 DEF ReadInv, ReadersOK, ReaderOK, Closing
    <3> QED BY <2>1, <3>1, Zenon DEF Excused
  <2>4. /\ KeepsConns(i) /\ DOMAIN conns' = DOMAIN conns
        /\ \A c \in DOMAIN conns :
             conns'[c].file = conns[c].file /\ conns[c].parts \ {part} \subseteq conns'[c].parts
    <3>1. CASE h = Null
      <4>1. PICK S : conns \in Seq(S)
        BY Zenon, <1>1 DEF ConnsOK
      <4>2. Null \notin DOMAIN conns /\ conns = [c \in DOMAIN conns |-> conns[c]]
        BY <4>1 DEF Null
      <4>3. conns' = conns
        BY Zenon, <1>5, <3>1, <4>2
      <4> QED BY Zenon, <4>3 DEF KeepsConns
    <3>2. CASE h # Null
      <4>1. h \in DOMAIN conns /\ conns[h].of = i
        BY Zenon, <1>1, <1>3, <1>5, <3>2 DEF Invalid, Valid, Parts
      <4>2. conns' = [c \in DOMAIN conns |->
                        IF c # h THEN conns[c]
                        ELSE [conns[c] EXCEPT !.parts = conns[h].parts \ {part},
                                              !.up = conns[h].up /\ part # "ssh"]]
        BY Zenon, <1>5
      <4>3. PICK up : SetsConn(h, up, conns[h].parts \ {part}, conns[h].file, conns[h].pos)
        BY Zenon, <1>1, <4>1, <4>2, ConnSet
      <4>4. KeepsConns(i)
        BY Zenon, <4>1, <4>3, ConnKept
      <4> QED BY Zenon, <4>1, <4>3, <4>4 DEF SetsConn
    <3> QED BY Zenon, <3>1, <3>2
  <2> HIDE DEF s, i
  <2>5. /\ s.ssh > 0 => "ssh" \in conns'[s.ssh].parts \/ next = "closed"
        /\ sftp > 0 => "sftp" \in conns'[sftp].parts \/ next = "close ssh"
        /\ file > 0 => "file" \in conns'[file].parts \/ next = "close sftp"
        /\ open # NoPath /\ file > 0 => conns'[file].file = open
    <3>0. ~(Null > 0)
      BY Zenon, NullIsNone
    <3>1. CASE part = "file" /\ next = "close sftp" /\ th[t].pc = "disconnect"
               /\ sftp = s.sftp /\ file = s.file /\ open = NoPath
      BY Zenon, <1>1, <1>2, <2>4, <3>1
    <3>2. CASE part = "sftp" /\ next = "close ssh" /\ th[t].pc = "close sftp"
               /\ sftp = s.sftp /\ file = Null /\ open = s.open
      BY Zenon, <1>1, <1>2, <2>4, <3>0, <3>2
    <3>3. CASE part = "ssh" /\ next = "closed" /\ th[t].pc = "close ssh"
               /\ sftp = Null /\ file = s.file /\ open = s.open
      BY Zenon, <1>1, <1>2, <2>4, <3>0, <3>3
    <3> QED BY Zenon, <2>2, <3>1, <3>2, <3>3
  <2>6. /\ next \in InSession \ {"locate", "check"} /\ next \notin {"seek", "fetch"}
        /\ UNCHANGED <<tree, hosts, mounted, crashed>> /\ i = th[t].id
    BY Zenon, <1>3, <1>5 DEF InSession, others, i
  <2> QED BY Zenon, <1>1, <2>1, <2>2, <2>3, <2>4, <2>5, <2>6, GoesOnReads
<1> QED BY Zenon, <1>3, <1>4, <1>5 DEF Release, Mine

\* After disconnect() the read begins again, or fails with a reason.
LEMMA ClosedReads ==
    ASSUME Apart, FileInv, HandleInv, ReadInv, NEW t \in Thread, Closed(t),
           UNCHANGED <<tree, hosts, mounted>>
    PROVE  ReadInv'
<1> DEFINE i == th[t].id
           s == session[i]
<1>0. SessionStep(t)
  BY Zenon DEF SessionStep
<1>1. th[t].pc = "closed" /\ UNCHANGED <<conns, crashed>>
  BY Zenon DEF Closed, others
<1>2. /\ Busy(t) /\ i \in DOMAIN session /\ th[t].pc \in InSession \ {"locate"} /\ i = th[t].id
      /\ Null > 0 => "ssh" \in conns'[Null].parts
      /\ s.sftp > 0 => "sftp" \in conns'[s.sftp].parts
      /\ s.file > 0 => "file" \in conns'[s.file].parts
      /\ s.open # NoPath /\ s.file > 0 => conns'[s.file].file = s.open
  <2>1. ~(Null > 0)
    BY Zenon, NullIsNone
  <2>2. /\ Busy(t) /\ i \in DOMAIN session /\ th[t].pc \in InSession \ {"locate"}
        /\ s.sftp > 0 => "sftp" \in conns[s.sftp].parts
        /\ s.file > 0 => "file" \in conns[s.file].parts
        /\ s.open # NoPath /\ s.file > 0 => conns[s.file].file = s.open
    BY Zenon, <1>0, <1>1, InSessionKnows
  <2> QED BY Zenon, <1>1, <2>1, <2>2
<1>3. Sets(i, Null, s.sftp, s.file, s.open) /\ KeepsConns(i)
  BY Zenon, <1>1, <1>2, MemberSet DEF Closed, KeepsConns
<1>4. UNCHANGED <<tree, hosts, mounted, crashed>>
  BY Zenon, <1>1
<1>5. CASE th' = [th EXCEPT ![t].pc = "new", ![t].retry = FALSE]
  <2>1. /\ Goes(t, "new") /\ th'[t].remote = th[t].remote
        /\ "new" \in InSession \ {"locate", "check"} /\ "new" \notin {"seek", "fetch"} \cup Closing
    BY Zenon, <1>2, <1>5, WhereTo DEF InSession, Closing
  <2> HIDE DEF s, i
  <2> QED BY Zenon, <1>2, <1>3, <1>4, <2>1, GoesOnReads
<1>6. CASE ~th[t].retry /\ Answer(t, "EIO", << >>)
  <2>1. /\ Goes(t, "done") /\ th'[t].troubled = th[t].troubled /\ th'[t].ans.kind = "EIO"
    BY Zenon, <1>2, <1>6, WhereTo
  <2>2. Excused(t)
    BY Zenon, <1>1 DEF ReadInv, ReadersOK, ReaderOK, Closing
  <2>3. th'[t].troubled
    BY <1>6, <2>1, <2>2, Zenon DEF Excused
  <2>4. Answered(t)'
    BY Zenon, <2>1, <2>3 DEF Answered
  <2> HIDE DEF s, i
  <2> QED BY Zenon, <1>2, <1>3, <1>4, <2>1, <2>4, AnswerReads
<1> QED BY Zenon, <1>5, <1>6 DEF Closed

----------------------------------------------------------------------------
\* Every step of SSHSession::read and disconnect() keeps ReadInv.
LEMMA SessionStepReads ==
    ASSUME Apart, FileInv, HandleInv, ReadInv, NEW t \in Thread, SessionStep(t),
           UNCHANGED <<metadata, calls, mounted>>
    PROVE  ReadInv'
<1>1. UNCHANGED <<tree, hosts, mounted>>
  BY Zenon DEF metadata
<1> QED BY Zenon, <1>1, CheckReads, SshNewReads, SshConnectReads, SftpNewReads, SftpOpenReads, SeekReads,
           FetchReads, ReleaseReads, ClosedReads DEF SessionStep

\* A step of the thread before or after it uses a session keeps ReadInv, if it does for
\* what the thread knows and answers.
LEMMA CallbackStep ==
    ASSUME FileInv, ReadInv, NEW t \in Thread, th[t].pc \notin Closing \cup {"dead"},
           \/ FindNode(t) \/ Inspect(t) \/ FindHost(t) \/ Locate(t) \/ Return(t)
           \/ \E request \in Requests : Call(t, request),
           UNCHANGED <<session, conns, tree, hosts, mounted, crashed>>,
           ReaderOK(t)', Answered(t)'
    PROVE  ReadInv'
<1>0. OthersStay(t)
  <2>1. DOMAIN th = Thread
    BY Zenon DEF FileInv, ThreadsOK
  <2>2. \E x : th' = [th EXCEPT ![t] = x]
    BY ZenonT(30) DEF FindNode, Inspect, Answer, FindHost, Goto, Locate, Return, Call
  <2> QED BY Zenon, <2>1, <2>2 DEF OthersStay
<1>1. crashed = "no"
  BY Zenon DEF ReadInv, LiveOK
<1>2. LiveOK'
  <2>1. ASSUME NEW id \in DOMAIN session, NEW part \in Parts, session[id][part] > 0
        PROVE  \/ part \in conns[session[id][part]].parts
               \/ \E u \in Thread : th'[u].pc = ReleasedAt[part] /\ th'[u].id = id
    <3>1. CASE \E u \in Thread : th[u].pc = ReleasedAt[part] /\ th[u].id = id
      BY Zenon, <1>0, <3>1, ReleasedClosing DEF OthersStay
    <3> QED BY Zenon, <1>1, <2>1, <3>1 DEF ReadInv, LiveOK
  <2> QED BY Zenon, <1>1, <2>1 DEF LiveOK
<1>3. FitOK' /\ FilesOK'
  BY Zenon DEF ReadInv, FitOK, FilesOK
<1>4. ASSUME NEW u \in Thread \ {t} PROVE ReaderOK(u)'
  <2>1. th'[u] = th[u] /\ (th[u].pc = "insert" => th[u].id \notin DOMAIN session')
    BY Zenon, <1>0 DEF OthersStay, ReadInv, ReadersOK, ReaderOK
  <2> QED BY Zenon, <2>1, OtherReads
<1>5. RightBytes' /\ ErrorsExplained'
  BY Zenon, <1>0, OtherAnswers
<1> QED BY Zenon, <1>2, <1>3, <1>4, <1>5 DEF ReadInv, ReadersOK

\* UserFS::find returns the node with the path of the request, or null.
LEMMA FindNodeReads ==
    ASSUME Apart, FileInv, ReadInv, NEW t \in Thread, FindNode(t)
    PROVE  ReadInv'
<1>1. /\ th[t].pc = "find" /\ Busy(t) /\ DOMAIN th = Thread /\ DOMAIN th[t] = ThreadFields
      /\ th[t].pc \notin Closing \cup {"dead"}
  BY Zenon DEF FindNode, Busy, FileInv, ThreadsOK, Closing
<1>2. /\ th'[t].pc = "inspect" /\ th'[t].node \in {th[t].path, NoNode}
      /\ th'[t].path = th[t].path /\ th'[t].offset = th[t].offset
      /\ th'[t].id = th[t].id /\ th'[t].fresh = th[t].fresh
  BY Zenon, <1>1 DEF FindNode, ThreadFields, Find
<1>3. UNCHANGED <<session, conns, tree, hosts, mounted, crashed>>
  BY Zenon DEF FindNode, outside, others, metadata
<1>4. mounted /\ th[t].offset \in Nat /\ th[t].id = 0 /\ ~th[t].fresh
  BY Zenon, <1>1 DEF ReadInv, ReadersOK, ReaderOK
<1>5. ReaderOK(t)' /\ Answered(t)'
  BY Zenon, <1>2, <1>3, <1>4 DEF ReaderOK, Answered, HasRead, Reading, InSession, Closing
<1> QED BY Zenon, <1>1, <1>3, <1>5, CallbackStep

\* The callback goes on to UserFS::read only inside the file.
LEMMA InspectNodeReads ==
    ASSUME Apart, FileInv, HandleInv, ReadInv, NEW t \in Thread, InspectNode(t)
    PROVE  ReadInv'
<1> DEFINE self == th[t]
           node == NodeAt(self.node)
           ToRead == th' = [th EXCEPT ![t].pc = "find host", ![t].id = node.host_id]
<1>1. /\ self.pc = "inspect" /\ Busy(t) /\ DOMAIN th = Thread /\ DOMAIN self = ThreadFields
      /\ self.pc \notin Closing \cup {"dead"} /\ UNCHANGED <<tree, hosts, mounted>>
  BY Zenon DEF InspectNode, metadata, Busy, FileInv, ThreadsOK, Closing
<1>2. /\ mounted /\ self.offset \in Nat /\ self.id = 0 /\ ~self.fresh
      /\ self.node \in {self.path, NoNode}
  BY Zenon, <1>1 DEF ReadInv, ReadersOK, ReaderOK
<1>3. CASE Torn(t)
  BY <1>1, <1>3, UndefinedReads DEF InspectNode
<1>4. CASE ~Torn(t)
  <2>1. Inspect(t)
    BY Zenon, <1>4 DEF InspectNode
  <2>2. UNCHANGED <<session, conns, tree, hosts, mounted, crashed>>
    BY Zenon, <1>1, <2>1 DEF Inspect, others
  <2>3. \/ \E kind, data : Answer(t, kind, data)
        \/ ToRead /\ self.node # NoNode /\ node.type # "DIRECTORY" /\ ~(self.offset >= node.size)
    BY <2>1, Zenon DEF Inspect
  <2>4. CASE \E kind, data : Answer(t, kind, data)
    <3>1. Goes(t, "done")
      BY Zenon, <1>1, <2>4, WhereTo
    <3>2. ReaderOK(t)' /\ Answered(t)'
      BY Zenon, <1>2, <2>2, <3>1 DEF Goes, ReaderOK, Answered, HasRead, Reading, InSession, Closing
    <3> QED BY Zenon, <1>1, <2>1, <2>2, <3>2, CallbackStep
  <2>5. CASE /\ ToRead /\ self.node # NoNode /\ node.type # "DIRECTORY"
             /\ ~(self.offset >= node.size)
    <3>1. /\ th'[t].pc = "find host" /\ th'[t].id = node.host_id /\ th'[t].path = self.path
          /\ th'[t].offset = self.offset /\ th'[t].fresh = self.fresh
      BY Zenon, <1>1, <2>5 DEF ThreadFields
    <3>2. self.node # << >>
      BY Zenon, <2>5 DEF NodeAt
    <3>3. self.path \in DOMAIN tree /\ node = tree[self.path]
      BY Zenon, <1>1, <1>2, <1>4, <2>5, <3>2 DEF FileInv, PointersOK, Torn, NodeAt
    <3>4. Asked(t)' = FileOf([tree |-> tree, hosts |-> hosts], self.path)
      BY Zenon, <1>1, <3>1, <3>3 DEF Asked, FileOf
    <3>5. node.size \in Nat /\ (Asked(t)' \in DOMAIN Size => node.size <= Size[Asked(t)'])
      BY Zenon, <3>3, <3>4 DEF ReadInv, FitOK
    <3>6. Asked(t)' \in DOMAIN Size => th'[t].offset < Size[Asked(t)']
      <4>1. ASSUME NEW n, n = Size[Asked(t)'], Asked(t)' \in DOMAIN Size
            PROVE  self.offset < n
        <5>1. n \in Nat /\ node.size <= n
          BY Zenon, <3>5, <4>1, SizeAssumption
        <5>2. node.size \in Nat /\ self.offset \in Nat /\ ~(self.offset >= node.size)
          BY Zenon, <1>2, <2>5, <3>5
        <5> HIDE DEF node, self
        <5> QED BY <5>1, <5>2
      <4> QED BY Zenon, <3>1, <4>1
    <3>7. ReaderOK(t)' /\ Answered(t)'
      BY Zenon, <1>2, <2>2, <3>1, <3>6 DEF ReaderOK, Answered, HasRead, Reading, InSession, Closing
    <3> QED BY Zenon, <1>1, <2>1, <2>2, <3>7, CallbackStep
  <2> QED BY Zenon, <2>3, <2>4, <2>5
<1> QED BY Zenon, <1>3, <1>4

\* SSHManager::findHost: the session is there, or will be inserted.
LEMMA FindHostReads ==
    ASSUME Apart, FileInv, HandleInv, ReadInv, NEW t \in Thread, FindHost(t)
    PROVE  ReadInv'
<1>1. th[t].pc = "find host" /\ Busy(t) /\ th[t].pc \notin Closing \cup {"dead"}
  BY Zenon DEF FindHost, Busy, Closing
<1>2. PICK pc \in {"locate", "insert"} :
        Goto(t, pc) /\ (pc = "insert" => th[t].id \notin DOMAIN session)
  BY Zenon DEF FindHost
<1>3. Goes(t, pc) /\ th'[t].fresh = th[t].fresh
  BY Zenon, <1>1, <1>2, WhereTo
<1>4. UNCHANGED <<session, conns, tree, hosts, mounted, crashed>>
  BY Zenon DEF FindHost, outside, others, metadata
<1>5. /\ mounted /\ th[t].offset \in Nat /\ ~th[t].fresh
      /\ Asked(t) \in DOMAIN Size => th[t].offset < Size[Asked(t)]
  BY Zenon, <1>1 DEF ReadInv, ReadersOK, ReaderOK, Reading
<1>6. Asked(t)' = Asked(t) /\ th'[t].offset = th[t].offset /\ th'[t].id = th[t].id
      /\ th'[t].pc = pc
  BY Zenon, <1>3, <1>4 DEF Asked, Goes
<1>7. ReaderOK(t)' /\ Answered(t)'
  BY Zenon, <1>2, <1>3, <1>4, <1>5, <1>6 DEF ReaderOK, Answered, HasRead, InSession, Closing
<1> QED BY Zenon, <1>1, <1>4, <1>7, CallbackStep

\* SSHManager::insertHost: there is no session yet, since no other thread inserts it,
\* and the new one has no connection.
LEMMA InsertHostReads ==
    ASSUME Apart, FileInv, HandleInv, ReadInv, NEW t \in Thread, InsertHost(t)
    PROVE  ReadInv'
<1> DEFINE id == th[t].id
<1>1. th[t].pc = "insert" /\ Busy(t)
  BY Zenon DEF InsertHost, Busy
<1>2. /\ mounted /\ th[t].offset \in Nat /\ ~th[t].fresh /\ id \notin DOMAIN session
      /\ Asked(t) \in DOMAIN Size => th[t].offset < Size[Asked(t)]
  BY Zenon, <1>1 DEF ReadInv, ReadersOK, ReaderOK, Reading
<1>3. UNCHANGED <<conns, tree, hosts, mounted, crashed>>
  BY Zenon DEF InsertHost, outside, others, metadata
<1>4. Goes(t, "locate") /\ th'[t].fresh = th[t].fresh
  BY Zenon, <1>1, <1>2, WhereTo DEF InsertHost
<1>5. PICK s \in NewSession(hosts[id].address) : session' = Inserted(id, s)
  BY Zenon, <1>2 DEF InsertHost
<1>6. /\ DOMAIN session' = DOMAIN session \cup {id}
      /\ session'[id] = s /\ \A i \in DOMAIN session : session'[i] = session[i]
  BY Zenon, <1>2, <1>5 DEF Inserted
<1>7. s.open = NoPath /\ \A part \in Parts : ~(s[part] > 0)
  BY DEF NewSession, Parts, Null, Wild
<1>8. crashed = "no"
  BY Zenon, <1>1 DEF ReadInv, LiveOK
<1>9. LiveOK'
  <2>1. ASSUME NEW i \in DOMAIN session, NEW part \in Parts, session[i][part] > 0
        PROVE  \/ part \in conns[session[i][part]].parts
               \/ \E u \in Thread : th'[u].pc = ReleasedAt[part] /\ th'[u].id = i
    <3>1. th[t].pc \notin Closing
      BY Zenon, <1>1 DEF Closing
    <3>2. CASE \E u \in Thread : th[u].pc = ReleasedAt[part] /\ th[u].id = i
      BY Zenon, <1>4, <3>1, <3>2, ReleasedClosing DEF Goes
    <3> QED BY Zenon, <1>8, <2>1, <3>2 DEF ReadInv, LiveOK
  <2> QED BY Zenon, <1>3, <1>6, <1>7, <1>8, <2>1 DEF LiveOK
<1>10. FitOK'
  BY Zenon, <1>3 DEF ReadInv, FitOK
<1>11. FilesOK'
  <2>1. \A c \in DOMAIN conns : conns[c].of \in DOMAIN session
    BY Zenon, <1>2 DEF HandleInv, ConnsOK
  <2> QED BY Zenon, <1>2, <1>3, <1>6, <1>7, <2>1 DEF ReadInv, FilesOK
<1>12. /\ Asked(t)' = Asked(t) /\ th'[t].offset = th[t].offset /\ th'[t].id = id
       /\ th'[t].pc = "locate"
  BY Zenon, <1>3, <1>4 DEF Asked, Goes
<1>13. ReaderOK(t)'
  BY Zenon, <1>2, <1>3, <1>4, <1>12 DEF ReaderOK, InSession, Closing
<1>14. ASSUME NEW u \in Thread \ {t} PROVE ReaderOK(u)'
  <2>1. th'[u] = th[u]
    BY Zenon, <1>4 DEF Goes
  <2>2. th[u].pc = "insert" => th[u].id \notin DOMAIN session'
    <3>1. th[u].pc = "insert" => th[u].id # id
      BY Zenon, <1>1 DEF Apart, InRead
    <3>2. th[u].pc = "insert" => th[u].id \notin DOMAIN session
      BY Zenon DEF ReadInv, ReadersOK, ReaderOK
    <3> QED BY Zenon, <1>6, <3>1, <3>2
  <2>3. th[u].pc \in {"seek", "fetch"} => th[u].id \in DOMAIN session
    BY Zenon DEF InSession, HandleInv, UsersOK
  <2> QED BY Zenon, <1>3, <1>6, <2>1, <2>2, <2>3, OtherReads
<1>15. RightBytes' /\ ErrorsExplained'
  <2>1. OthersStay(t) /\ Answered(t)'
    BY Zenon, <1>4, <1>12 DEF Goes, OthersStay, Answered, HasRead
  <2> QED BY Zenon, <1>3, <2>1, OtherAnswers
<1> QED BY Zenon, <1>9, <1>10, <1>11, <1>13, <1>14, <1>15 DEF ReadInv, ReadersOK

\* A remote file is asked for by its path on the owner; one of this node is read.
LEMMA LocateReads ==
    ASSUME Apart, FileInv, HandleInv, ReadInv, NEW t \in Thread, Locate(t)
    PROVE  ReadInv'
<1>1. /\ th[t].pc = "locate" /\ Busy(t) /\ th[t].pc \notin Closing \cup {"dead"}
      /\ DOMAIN th = Thread /\ DOMAIN th[t] = ThreadFields
  BY Zenon DEF Locate, Busy, Closing, FileInv, ThreadsOK
<1>2. /\ mounted /\ th[t].offset \in Nat /\ ~th[t].fresh
      /\ Asked(t) \in DOMAIN Size => th[t].offset < Size[Asked(t)]
  BY Zenon, <1>1 DEF ReadInv, ReadersOK, ReaderOK, Reading, InSession
<1>3. UNCHANGED <<session, conns, tree, hosts, mounted, crashed>>
  BY Zenon DEF Locate, outside, others, metadata
<1>4. \/ th' = [th EXCEPT ![t].pc = "check", ![t].remote = Remote(t)]
      \/ /\ th[t].id = HostId
         /\ Answer(t, "bytes", <<Asked(t), th[t].offset>>) \/ Answer(t, "eof", << >>)
      \/ th' = [th EXCEPT ![t].pc = "done", ![t].troubled = TRUE,
                           ![t].ans = [kind |-> "EIO", data |-> << >>]]
  BY Zenon DEF Locate, Remote, Asked
<1>5. CASE th' = [th EXCEPT ![t].pc = "check", ![t].remote = Remote(t)]
  <2>1. Goes(t, "check") /\ th'[t].remote = Remote(t) /\ th'[t].fresh = th[t].fresh
    <3>1. th'[t].fresh = th[t].fresh
      BY Zenon, <1>1, <1>5 DEF ThreadFields
    <3>2. Goes(t, "check") /\ th'[t].remote = Remote(t)
      <4> DEFINE r == Remote(t)
      <4> HIDE DEF r
      <4>1. th' = [th EXCEPT ![t].pc = "check", ![t].remote = r]
        BY Zenon, <1>5 DEF r
      <4>2. Goes(t, "check") /\ th'[t].remote = r
        BY Zenon, <1>1, <4>1 DEF Goes, ThreadFields
      <4> QED BY Zenon, <4>2 DEF r
    <3> QED BY Zenon, <3>1, <3>2
  <2>2. /\ Asked(t)' = Asked(t) /\ Remote(t)' = Remote(t) /\ th'[t].offset = th[t].offset
        /\ th'[t].pc = "check"
    BY Zenon, <1>3, <2>1 DEF Asked, Remote, Goes
  <2>3. ReaderOK(t)' /\ Answered(t)'
    BY Zenon, <1>2, <1>3, <2>1, <2>2 DEF ReaderOK, Answered, HasRead, Closing
  <2> QED BY Zenon, <1>1, <1>3, <2>3, CallbackStep
<1>6. CASE /\ th[t].id = HostId
           /\ Answer(t, "bytes", <<Asked(t), th[t].offset>>) \/ Answer(t, "eof", << >>)
  <2>1. /\ Goes(t, "done") /\ th'[t].ans.kind \in {"bytes", "eof"}
        /\ th'[t].ans.kind = "bytes" => th'[t].ans.data = <<Asked(t), th[t].offset>>
    <3>1. CASE Answer(t, "bytes", <<Asked(t), th[t].offset>>)
      <4>1. /\ Goes(t, "done") /\ th'[t].ans.kind = "bytes"
            /\ th'[t].ans.data = <<Asked(t), th[t].offset>>
        BY Zenon, <1>1, <3>1, AnswerGoes
      <4> QED BY Zenon, <4>1
    <3>2. CASE Answer(t, "eof", << >>)
      <4>1. Goes(t, "done") /\ th'[t].ans.kind = "eof"
        BY Zenon, <1>1, <3>2, WhereTo
      <4> QED BY Zenon, <4>1
    <3> QED BY Zenon, <1>6, <3>1, <3>2
  <2>2. /\ Asked(t)' = Asked(t) /\ th'[t].offset = th[t].offset /\ th'[t].id = HostId
        /\ th'[t].pc = "done"
    BY Zenon, <1>3, <1>6, <2>1 DEF Asked, Goes
  <2>3. ReaderOK(t)'
    BY Zenon, <1>2, <1>3, <2>2 DEF ReaderOK, Reading, InSession, Closing
  <2>4. Answered(t)'
    BY Zenon, <2>1, <2>2 DEF Answered
  <2> QED BY Zenon, <1>1, <1>3, <2>3, <2>4, CallbackStep
<1>7. CASE th' = [th EXCEPT ![t].pc = "done", ![t].troubled = TRUE,
                             ![t].ans = [kind |-> "EIO", data |-> << >>]]
  <2> DEFINE a == [kind |-> "EIO", data |-> << >>]
  <2>0. a.kind = "EIO"
    OBVIOUS
  <2> HIDE DEF a
  <2>1. Goes(t, "done") /\ th'[t].troubled = TRUE /\ th'[t].ans = a
    <3>1. th' = [th EXCEPT ![t].pc = "done", ![t].troubled = TRUE, ![t].ans = a]
      BY Zenon, <1>7 DEF a
    <3> QED BY Zenon, <1>1, <3>1, OwnFileFails
  <2>2. th'[t].pc = "done" /\ th'[t].offset = th[t].offset /\ th'[t].troubled /\ th'[t].ans.kind = "EIO"
    BY Zenon, <2>0, <2>1 DEF Goes
  <2>3. ReaderOK(t)' /\ Answered(t)'
    BY Zenon, <1>2, <1>3, <2>2 DEF ReaderOK, Answered, Reading, InSession, Closing
  <2> QED BY Zenon, <1>1, <1>3, <2>3, CallbackStep
<1> QED BY Zenon, <1>4, <1>5, <1>6, <1>7

\* A callback begins with the locals of its request, and ends without any.
LEMMA CallReturnReads ==
    ASSUME Apart, FileInv, HandleInv, ReadInv, NEW t \in Thread,
           Return(t) \/ \E request \in Requests : Call(t, request)
    PROVE  ReadInv'
<1>0. DOMAIN th = Thread
  BY Zenon DEF FileInv, ThreadsOK
<1>1. th[t].pc \notin Closing \cup {"dead"}
  <2>1. th[t].pc = "done" \/ th[t] = Idle
    BY Zenon DEF Return, Call
  <2>2. th[t] = Idle => th[t].pc = "idle"
    BY DEF Idle
  <2> QED BY Zenon, <2>1, <2>2 DEF Closing
<1>2. UNCHANGED <<session, conns, tree, hosts, mounted, crashed>>
  BY Zenon DEF Return, Call, outside, others, metadata
<1>3. CASE Return(t)
  <2>1. th'[t].pc = "idle"
    BY Zenon, <1>0, <1>3 DEF Return, Idle
  <2>2. ReaderOK(t)' /\ Answered(t)'
    BY Zenon, <2>1 DEF ReaderOK, Answered, HasRead, Reading, InSession, Closing, Busy
  <2> QED BY Zenon, <1>1, <1>2, <1>3, <2>2, CallbackStep
<1>4. CASE \E request \in Requests : Call(t, request)
  <2>1. PICK request \in Requests : Call(t, request)
    BY Zenon, <1>4
  <2>2. /\ th'[t].pc = "find" /\ th'[t].offset = request.offset /\ th'[t].id = 0 /\ mounted
        /\ th'[t].fresh = FALSE
    BY Zenon, <1>0, <2>1 DEF Call
  <2>3. th'[t].offset \in Nat
    BY Zenon, <2>2, RequestsAssumption
  <2>4. ReaderOK(t)' /\ Answered(t)'
    BY Zenon, <1>2, <2>2, <2>3 DEF ReaderOK, Answered, HasRead, Reading, InSession, Closing
  <2> QED BY Zenon, <1>1, <1>2, <1>4, <2>4, CallbackStep
<1> QED BY Zenon, <1>3, <1>4

----------------------------------------------------------------------------
\* What a thread knows and answers depends on the hosts it asks for, which stay.
LEMMA HostsExtended ==
    ASSUME FileInv, HandleInv, ReadInv, \A id \in DOMAIN hosts : hosts'[id] = hosts[id],
           UNCHANGED <<th, session, conns, mounted, crashed>>, FitOK'
    PROVE  ReadInv'
<1>1. LiveOK' /\ FilesOK'
  <2>1. LiveOK' = LiveOK
    BY ZenonT(30) DEF LiveOK
  <2>2. FilesOK' = FilesOK
    BY Zenon DEF FilesOK
  <2> QED BY Zenon, <2>1, <2>2 DEF ReadInv
<1>2. ASSUME NEW t \in Thread, th[t].pc \in Reading \/ HasRead(t)
      PROVE  Asked(t)' = Asked(t) /\ Remote(t)' = Remote(t)
  <2>1. th[t].id \in DOMAIN hosts
    <3>1. CASE th[t].pc \in InSession
      BY Zenon, <3>1 DEF HandleInv, UsersOK, FileInv, SessionsOK
    <3>2. CASE th[t].pc \in {"find host", "insert"}
      BY Zenon, <3>2 DEF FileInv, IdsOK
    <3>3. CASE HasRead(t)
      BY Zenon, <3>3 DEF HandleInv, BoundsOK, Busy, HasRead
    <3> QED BY Zenon, <1>2, <3>1, <3>2, <3>3 DEF Reading
  <2> QED BY Zenon, <2>1 DEF Asked, Remote
<1>3. RightBytes' /\ ErrorsExplained'
  BY Zenon, <1>2 DEF ReadInv, RightBytes, ErrorsExplained, HasRead
<1>4. ASSUME NEW t \in Thread PROVE ReaderOK(t)'
  <2>1. ReaderOK(t)
    BY Zenon DEF ReadInv, ReadersOK
  <2>2. Connected(t)' = Connected(t) /\ Excused(t)' = Excused(t) /\ Busy(t)' = Busy(t)
    BY Zenon DEF Connected, Excused, Busy
  <2>3. th[t].pc \in InSession \ {"locate"} => th[t].pc \in Reading
    BY Zenon DEF Reading
  <2>4. CASE th[t].pc \in Reading
    BY ZenonT(30), <1>2, <2>1, <2>2, <2>4 DEF ReaderOK
  <2>5. CASE th[t].pc \notin Reading
    BY Zenon, <2>1, <2>2, <2>3, <2>5 DEF ReaderOK
  <2> QED BY Zenon, <2>4, <2>5
<1> QED BY Zenon, <1>1, <1>3, <1>4 DEF ReadInv, ReadersOK

\* The steps of the network thread: the files of a view are as long as it says, and
\* the owner of a file stays where it is.
LEMMA NetworkReads ==
    ASSUME FileInv, HandleInv, ReadInv, BeginUpdate \/ EndUpdate \/ BeginDisconnect \/ EndDisconnect
    PROVE  ReadInv'
<1>1. ASSUME BeginUpdate \/ BeginDisconnect PROVE ReadInv'
  <2>1. UNCHANGED <<session, conns, mounted, crashed, tree, hosts>>
    BY Zenon, <1>1 DEF BeginUpdate, BeginDisconnect, Lock, others
  <2>2. \A t \in Thread : \/ th'[t] = th[t]
                          \/ th[t].pc = "inspect" /\ th'[t] = [th[t] EXCEPT !.dead = TRUE]
    BY Zenon, <1>1 DEF BeginUpdate, BeginDisconnect, Lock
  <2>3. ASSUME NEW t \in Thread
        PROVE  \/ th'[t] = th[t]
               \/ /\ th'[t].pc = "inspect" /\ th[t].pc = "inspect" /\ th'[t].path = th[t].path
                  /\ th'[t].node = th[t].node /\ th'[t].id = th[t].id
                  /\ th'[t].offset = th[t].offset /\ th'[t].fresh = th[t].fresh
    <3>1. th[t].pc = "inspect" => DOMAIN th[t] = ThreadFields
      BY Zenon DEF FileInv, ThreadsOK, Busy
    <3> QED BY Zenon, <2>2, <3>1 DEF ThreadFields
  <2>4. \A t \in Thread : th'[t].pc = th[t].pc /\ (th[t].pc # "inspect" => th'[t] = th[t])
    BY Zenon, <2>3
  <2>5. LiveOK'
    <3>1. CASE crashed = "no"
      <4>1. ASSUME NEW id \in DOMAIN session, NEW part \in Parts, session[id][part] > 0
            PROVE  \/ part \in conns[session[id][part]].parts
                   \/ \E t \in Thread : th'[t].pc = ReleasedAt[part] /\ th'[t].id = id
        <5>1. \A t \in Thread : th[t].pc = ReleasedAt[part] => th[t].pc # "inspect"
          BY Zenon, ReleasedClosing DEF Closing
        <5> QED BY <2>4, <3>1, <4>1, <5>1 DEF ReadInv, LiveOK
      <4> QED BY Zenon, <2>1, <3>1, <4>1 DEF LiveOK
    <3>2. CASE crashed # "no"
      BY Zenon, <2>1, <2>4, <3>2 DEF ReadInv, LiveOK
    <3> QED BY Zenon, <3>1, <3>2
  <2>6. FitOK' /\ FilesOK'
    BY Zenon, <2>1 DEF ReadInv, FitOK, FilesOK
  <2>7. RightBytes' /\ ErrorsExplained'
    BY ZenonT(30), <2>1, <2>4 DEF ReadInv, RightBytes, ErrorsExplained, HasRead, Asked
  <2>8. ASSUME NEW t \in Thread PROVE ReaderOK(t)'
    <3>1. ReaderOK(t)
      BY Zenon DEF ReadInv, ReadersOK
    <3>2. CASE th[t].pc # "inspect"
      <4>1. th'[t] = th[t]
        BY Zenon, <2>4, <3>2
      <4>2. th[t].pc = "insert" => th[t].id \notin DOMAIN session'
        BY Zenon, <2>1, <3>1 DEF ReaderOK
      <4> QED BY Zenon, <2>1, <4>1, <4>2, OtherReads
    <3>3. CASE th[t].pc = "inspect"
      <4>1. /\ mounted /\ th[t].offset \in Nat /\ th[t].id = 0
            /\ th[t].node \in {th[t].path, NoNode} /\ ~th[t].fresh
        BY Zenon, <3>1, <3>3 DEF ReaderOK, Busy
      <4>2. /\ th'[t].pc = "inspect" /\ th'[t].path = th[t].path
            /\ th'[t].node = th[t].node /\ th'[t].id = th[t].id
            /\ th'[t].offset = th[t].offset /\ th'[t].fresh = th[t].fresh
        BY Zenon, <2>3, <3>3
      <4> QED BY Zenon, <2>1, <4>1, <4>2 DEF ReaderOK, Reading, InSession, Closing
    <3> QED BY Zenon, <3>2, <3>3
  <2> QED BY Zenon, <2>5, <2>6, <2>7, <2>8 DEF ReadInv, ReadersOK
<1>2. ASSUME EndUpdate PROVE ReadInv'
  <2>1. /\ view \in 1..Len(Views) - 1 /\ hosts = Views[view].hosts
        /\ view + 1 \in 1..Len(Views)
        /\ tree' = Views[view + 1].tree /\ hosts' = Views[view + 1].hosts
    BY <1>2, ViewsAssumption DEF EndUpdate, FileInv, MetadataOK
  <2>2. \A id \in DOMAIN hosts : hosts'[id] = hosts[id]
    BY Zenon, <2>1, ViewsAssumption
  <2>3. FitOK'
    <3>1. \A p : FileOf([tree |-> tree', hosts |-> hosts'], p) = FileOf(Views[view + 1], p)
      BY Zenon, <2>1 DEF FileOf
    <3> QED BY Zenon, <2>1, <3>1, SizeAssumption DEF FitOK
  <2> QED BY Zenon, <1>2, <2>2, <2>3, HostsExtended DEF EndUpdate, sshVars, others
<1>3. ASSUME EndDisconnect PROVE ReadInv'
  <2>1. /\ DOMAIN tree' \subseteq DOMAIN tree /\ \A p \in DOMAIN tree' : tree'[p] = tree[p]
        /\ UNCHANGED <<th, session, conns, mounted, crashed, hosts>>
    BY Zenon, <1>3 DEF EndDisconnect, RemoveNotOf, Restrict, sshVars, others
  <2>2. FitOK'
    BY Zenon, <2>1 DEF ReadInv, FitOK, FileOf
  <2> QED BY Zenon, <2>1, <2>2, HostsExtended
<1> QED BY Zenon, <1>1, <1>2, <1>3

\* A connection that the server closes under a read that has made it is a reason to fail.
LEMMA DropReads ==
    ASSUME FileInv, HandleInv, ReadInv, NEW c \in DOMAIN conns, Drop(c),
           UNCHANGED <<metadata, calls, mounted>>
    PROVE  ReadInv'
<1> DEFINE Hit(t) == \/ th[t].pc \in {"sftp", "open"}
                     \/ th[t].pc \in {"seek", "fetch"} /\ th[t].fresh
<1>1. UNCHANGED <<session, crashed, tree, hosts, mounted>>
  BY Zenon DEF Drop, metadata
<1>2. \A t \in Thread : th'[t] = IF Hit(t) THEN [th[t] EXCEPT !.troubled = TRUE] ELSE th[t]
  BY Zenon DEF Drop
<1>3. ASSUME NEW t \in Thread
      PROVE  \/ th'[t] = th[t] /\ ~Hit(t)
             \/ /\ Hit(t) /\ DOMAIN th[t] = ThreadFields
                /\ th'[t] = [th[t] EXCEPT !.troubled = TRUE]
  <2>1. Hit(t) => Busy(t)
    BY Zenon DEF Busy
  <2>2. Busy(t) => DOMAIN th[t] = ThreadFields
    BY Zenon DEF FileInv, ThreadsOK
  <2> HIDE DEF Hit
  <2> QED BY Zenon, <1>2, <2>1, <2>2
<1>4. ASSUME NEW t \in Thread
      PROVE  \/ th'[t] = th[t] /\ ~Hit(t)
             \/ /\ Hit(t) /\ th'[t].pc = th[t].pc /\ th'[t].path = th[t].path
                /\ th'[t].offset = th[t].offset /\ th'[t].id = th[t].id
                /\ th'[t].remote = th[t].remote /\ th'[t].fresh = th[t].fresh
                /\ th'[t].node = th[t].node /\ th'[t].troubled = TRUE
  <2>1. CASE th'[t] = th[t] /\ ~Hit(t)
    BY Zenon, <2>1
  <2>2. CASE /\ Hit(t) /\ DOMAIN th[t] = ThreadFields
             /\ th'[t] = [th[t] EXCEPT !.troubled = TRUE]
    <3> HIDE DEF Hit
    <3> QED BY Zenon, <2>2 DEF ThreadFields
  <2> QED BY Zenon, <1>3, <2>1, <2>2
<1>5. \A t \in Thread : /\ Hit(t) => th[t].pc \in {"sftp", "open", "seek", "fetch"}
                        /\ th[t].pc \in {"seek", "fetch"} /\ th[t].fresh => Hit(t)
  BY Zenon
<1> HIDE DEF Hit
<1>6. \A t \in Thread : /\ th'[t].pc = th[t].pc
                        /\ th[t].pc \notin {"sftp", "open", "seek", "fetch"} => th'[t] = th[t]
  BY Zenon, <1>4, <1>5
<1>7. PICK up : SetsConn(c, up, conns[c].parts, conns[c].file, conns[c].pos)
  <2>1. ConnsOK /\ conns' = [conns EXCEPT ![c].up = FALSE]
    BY Zenon DEF Drop, HandleInv
  <2> QED BY Zenon, <2>1, ConnSet
<1>8. /\ DOMAIN conns' = DOMAIN conns
      /\ \A k \in DOMAIN conns :
           /\ conns'[k].parts = conns[k].parts /\ conns'[k].to = conns[k].to
           /\ conns'[k].of = conns[k].of /\ conns'[k].file = conns[k].file
           /\ conns'[k].pos = conns[k].pos
  BY Zenon, <1>7 DEF SetsConn
<1>9. \A id \in DOMAIN session : \A part \in Parts :
        session[id][part] > 0 => session[id][part] \in DOMAIN conns
  BY Zenon, SetHandle
<1>10. LiveOK'
  <2>1. CASE crashed = "no"
    <3>1. ASSUME NEW id \in DOMAIN session, NEW part \in Parts, session[id][part] > 0
          PROVE  \/ part \in conns'[session[id][part]].parts
                 \/ \E t \in Thread : th'[t].pc = ReleasedAt[part] /\ th'[t].id = id
      <4>1. \A t \in Thread : th[t].pc = ReleasedAt[part] =>
              th[t].pc \notin {"sftp", "open", "seek", "fetch"}
        BY Zenon, ReleasedClosing DEF Closing
      <4>2. CASE part \in conns[session[id][part]].parts
        BY Zenon, <1>8, <1>9, <3>1, <4>2
      <4>3. CASE \E t \in Thread : th[t].pc = ReleasedAt[part] /\ th[t].id = id
        BY Zenon, <1>6, <4>1, <4>3
      <4> QED BY Zenon, <2>1, <3>1, <4>2, <4>3 DEF ReadInv, LiveOK
    <3> QED BY Zenon, <1>1, <2>1, <3>1 DEF LiveOK
  <2>2. CASE crashed # "no"
    BY Zenon, <1>1, <1>6, <2>2 DEF ReadInv, LiveOK
  <2> QED BY Zenon, <2>1, <2>2
<1>11. FitOK'
  BY Zenon, <1>1 DEF ReadInv, FitOK
<1>12. FilesOK'
  <2>1. ASSUME NEW k \in DOMAIN conns
        PROVE  /\ conns'[k].file # NoPath => <<conns'[k].to, conns'[k].file>> \in DOMAIN Size
               /\ mounted' => conns'[k].to = session'[conns'[k].of].address
    <3>1. /\ conns[k].file # NoPath => <<conns[k].to, conns[k].file>> \in DOMAIN Size
          /\ mounted => conns[k].to = session[conns[k].of].address
      BY Zenon DEF ReadInv, FilesOK
    <3>2. /\ conns'[k].to = conns[k].to /\ conns'[k].of = conns[k].of
          /\ conns'[k].file = conns[k].file
      BY Zenon, <1>8
    <3> QED BY <1>1, <3>1, <3>2
  <2>2. ASSUME NEW id \in DOMAIN session, session[id].open # NoPath, session[id].file > 0
        PROVE  conns'[session[id].file].file = session[id].open
    <3>1. session[id].file \in DOMAIN conns
      BY Zenon, <1>9, <2>2 DEF Parts
    <3> QED BY Zenon, <1>8, <2>2, <3>1 DEF ReadInv, FilesOK
  <2> QED BY Zenon, <1>1, <1>8, <2>1, <2>2 DEF FilesOK
<1>13. RightBytes' /\ ErrorsExplained'
  <2>1. ASSUME NEW t \in Thread PROVE Answered(t)'
    <3>1. th[t].pc = "done" => th'[t] = th[t] /\ Asked(t)' = Asked(t)
      BY Zenon, <1>1, <1>6 DEF Asked
    <3>2. Answered(t)
      BY Zenon DEF ReadInv, RightBytes, ErrorsExplained, Answered
    <3> QED BY Zenon, <1>6, <3>1, <3>2 DEF Answered, HasRead
  <2> QED BY Zenon, <2>1 DEF RightBytes, ErrorsExplained, Answered
<1>14. ASSUME NEW t \in Thread PROVE ReaderOK(t)'
  <2>1. ReaderOK(t)
    BY Zenon DEF ReadInv, ReadersOK
  <2>2. ASSUME th[t].pc \in {"seek", "fetch"} PROVE Connected(t)'
    <3>1. CASE Hit(t)
      <4>1. Connected(t) /\ th[t].pc \in InSession
        BY Zenon, <2>1, <2>2 DEF ReaderOK, InSession
      <4>2. th'[t].id = th[t].id /\ th'[t].fresh = th[t].fresh /\ th'[t].troubled = TRUE
        BY Zenon, <1>4, <3>1
      <4> QED BY <1>1, <4>1, <4>2, Zenon DEF Connected
    <3>2. CASE ~Hit(t)
      <4>1. ~th[t].fresh /\ th'[t] = th[t]
        BY Zenon, <1>4, <1>5, <2>2, <3>2
      <4> QED BY Zenon, <4>1 DEF Connected
    <3> QED BY Zenon, <3>1, <3>2
  <2>3. th[t].pc = "fetch" /\ session[th[t].id].file > 0 =>
          conns'[session[th[t].id].file].pos = th[t].offset
    <3>1. th[t].pc = "fetch" => th[t].id \in DOMAIN session
      BY Zenon DEF HandleInv, UsersOK, InSession
    <3>2. th[t].pc = "fetch" /\ session[th[t].id].file > 0 =>
            conns[session[th[t].id].file].pos = th[t].offset
      BY Zenon, <2>1 DEF ReaderOK
    <3> QED BY Zenon, <1>8, <1>9, <3>1, <3>2 DEF Parts
  <2>4. /\ th'[t].pc = th[t].pc /\ th'[t].path = th[t].path /\ th'[t].offset = th[t].offset
        /\ th'[t].id = th[t].id /\ th'[t].remote = th[t].remote /\ th'[t].fresh = th[t].fresh
        /\ th'[t].node = th[t].node
    BY Zenon, <1>4
  <2>5. Asked(t)' = Asked(t) /\ Remote(t)' = Remote(t)
    BY Zenon, <1>1, <2>4 DEF Asked, Remote
  <2>6. th[t].pc \in Closing => Excused(t)'
    <3>1. th[t].pc \in Closing => Excused(t) /\ th'[t] = th[t]
      BY Zenon, <1>6, <2>1 DEF ReaderOK, Closing
    <3> QED BY Zenon, <3>1 DEF Excused
  <2>7. /\ Busy(t)' => mounted' /\ th'[t].offset \in Nat
        /\ th'[t].pc \in {"find", "inspect"} => th'[t].id = 0
        /\ th'[t].pc = "inspect" => th'[t].node \in {th'[t].path, NoNode}
    <3>1. Busy(t) => mounted /\ th[t].offset \in Nat
      BY Zenon, <2>1 DEF ReaderOK
    <3>2. Busy(t)' => mounted' /\ th'[t].offset \in Nat
      <4>1. mounted => mounted'
        BY <1>1
      <4>2. Busy(t)' <=> Busy(t)
        BY Zenon, <2>4 DEF Busy
      <4> QED BY Zenon, <2>4, <3>1, <4>1, <4>2
    <3>3. /\ th[t].pc \in {"find", "inspect"} => th[t].id = 0
          /\ th[t].pc = "inspect" => th[t].node \in {th[t].path, NoNode}
      BY Zenon, <2>1 DEF ReaderOK
    <3> QED BY Zenon, <2>4, <3>2, <3>3
  <2>8. th'[t].pc \in {"find", "inspect", "find host", "insert", "locate", "check"} =>
          ~th'[t].fresh
    BY <2>1, <2>4, Zenon DEF ReaderOK
  <2>9. /\ th'[t].pc = "insert" => th'[t].id \notin DOMAIN session'
        /\ th'[t].pc \in Reading /\ Asked(t)' \in DOMAIN Size => th'[t].offset < Size[Asked(t)']
        /\ th'[t].pc \in InSession \ {"locate"} => th'[t].remote = Remote(t)'
        /\ th'[t].pc \in {"seek", "fetch"} => session'[th'[t].id].open = th'[t].remote
    BY Zenon, <1>1, <2>1, <2>4, <2>5 DEF ReaderOK
  <2> QED BY Zenon, <1>1, <2>2, <2>3, <2>4, <2>6, <2>7, <2>8, <2>9 DEF ReaderOK
<1> QED BY Zenon, <1>10, <1>11, <1>12, <1>13, <1>14 DEF ReadInv, ReadersOK

\* Removing a file changes nothing that is followed here, and the end of the mount
\* forgets all sessions.
LEMMA OutsideReads ==
    ASSUME FileInv, HandleInv, ReadInv,
           Unmount \/ \E file \in DOMAIN Size \ gone : RemoveFile(file)
    PROVE  ReadInv'
<1>1. ASSUME \E file \in DOMAIN Size \ gone : RemoveFile(file) PROVE ReadInv'
  <2>1. UNCHANGED <<th, session, conns, mounted, crashed, tree, hosts>>
    BY Zenon, <1>1 DEF RemoveFile, metadata
  <2>2. FitOK'
    BY Zenon, <2>1 DEF ReadInv, FitOK
  <2> QED BY Zenon, <2>1, <2>2, HostsExtended
<1>2. ASSUME Unmount PROVE ReadInv'
  <2>1. UNCHANGED <<tree, hosts>> /\ ~mounted'
    BY Zenon, <1>2 DEF Unmount, metadata
  <2>2. CASE Undefined("session")
    BY Zenon, <2>1, <2>2, UndefinedReads
  <2>3. CASE ~Undefined("session")
    <3>0. session' = << >> /\ UNCHANGED <<th, crashed>>
      BY Zenon, <1>2, <2>3 DEF Unmount
    <3>1. conns' = [c \in DOMAIN conns |->
                      LET s == session[conns[c].of]
                      IN  [conns[c] EXCEPT !.parts = {part \in @ : s[part] # c},
                                           !.up = @ /\ s.ssh # c]]
      BY Zenon, <1>2, <2>3 DEF Unmount
    <3>2. \A t \in Thread : th'[t].pc = "idle" /\ th'[t] = th[t]
      <4>1. \A t \in Thread : th[t] = Idle
        BY Zenon, <1>2 DEF Unmount
      <4> QED BY <3>0, <4>1 DEF Idle
    <3>3. DOMAIN session' = {}
      BY <3>0
    <3>4. DOMAIN conns' = DOMAIN conns /\ \A c \in DOMAIN conns : DOMAIN conns[c] = ConnFields
      BY Zenon, <3>1 DEF HandleInv, ConnsOK
    <3>5. ASSUME NEW c \in DOMAIN conns
          PROVE  conns'[c].to = conns[c].to /\ conns'[c].file = conns[c].file
      BY Zenon, <3>1, <3>4 DEF ConnFields
    <3>6. LiveOK'
      BY Zenon, <3>0, <3>2, <3>3 DEF ReadInv, LiveOK
    <3>7. FitOK'
      BY Zenon, <2>1 DEF ReadInv, FitOK
    <3>8. FilesOK'
      BY Zenon, <2>1, <3>3, <3>4, <3>5 DEF ReadInv, FilesOK
    <3>9. ReadersOK' /\ RightBytes' /\ ErrorsExplained'
      BY Zenon, <3>2 DEF ReadersOK, ReaderOK, RightBytes, ErrorsExplained, HasRead, Busy, Reading,
                  InSession, Closing
    <3> QED BY Zenon, <3>6, <3>7, <3>8, <3>9 DEF ReadInv
  <2> QED BY Zenon, <2>2, <2>3
<1> QED BY Zenon, <1>1, <1>2

\* The mount begins with the first view, and nobody reads.
LEMMA ReadInit == Init => ReadInv
<1> SUFFICES ASSUME Init PROVE ReadInv
  BY Zenon
<1>1. /\ \A t \in Thread : th[t].pc = "idle"
      /\ DOMAIN session = {} /\ DOMAIN conns = {} /\ crashed = "no"
  BY DEF Init, Idle
<1>2. LiveOK /\ FilesOK
  BY Zenon, <1>1 DEF LiveOK, FilesOK
<1>3. ReadersOK /\ RightBytes /\ ErrorsExplained
  BY Zenon, <1>1 DEF ReadersOK, ReaderOK, RightBytes, ErrorsExplained, HasRead, Busy, Reading,
              InSession, Closing
<1>4. FitOK
  <2>1. tree = Views[1].tree /\ hosts = Views[1].hosts /\ 1 \in 1..Len(Views)
    BY ViewsAssumption DEF Init
  <2>2. \A p : FileOf([tree |-> tree, hosts |-> hosts], p) = FileOf(Views[1], p)
    BY Zenon, <2>1 DEF FileOf
  <2> QED BY Zenon, <2>1, <2>2, SizeAssumption DEF FitOK
<1> QED BY Zenon, <1>2, <1>3, <1>4 DEF ReadInv

\* From a state in which the threads are apart, every step keeps ReadInv.
LEMMA ReadNext == Apart /\ FileInv /\ HandleInv /\ ReadInv /\ [Next]_vars => ReadInv'
<1> SUFFICES ASSUME Apart, FileInv, HandleInv, ReadInv, [Next]_vars PROVE ReadInv'
  BY Zenon
<1>1. ASSUME NEW t \in Thread, ThreadStep(t) PROVE ReadInv'
  <2>1. ASSUME Unguarded(t) \/ MapRace(t) PROVE ReadInv'
    <3>1. Undefined("hosts") \/ Undefined("map")
      BY Zenon, <2>1 DEF Unguarded, MapRace
    <3>2. UNCHANGED <<tree, hosts, mounted>>
      BY <2>1, Zenon DEF Unguarded, MapRace, metadata
    <3> QED BY Zenon, <3>1, <3>2, UndefinedReads
  <2> QED BY Zenon, <1>1, <2>1, FindNodeReads, InspectNodeReads, FindHostReads, InsertHostReads,
             LocateReads, CallReturnReads, SessionStepReads DEF ThreadStep
<1>2. ASSUME NEW t \in Thread, NEW request \in Requests, Call(t, request) PROVE ReadInv'
  BY Zenon, <1>2, CallReturnReads
<1>3. CASE UNCHANGED vars
  <2>1. UNCHANGED <<th, session, conns, mounted, crashed, tree, hosts>>
    BY Zenon, <1>3 DEF vars, sshVars, others
  <2>2. FitOK'
    BY Zenon, <2>1 DEF ReadInv, FitOK
  <2> QED BY Zenon, <2>1, <2>2, HostsExtended
<1> QED BY Zenon, <1>1, <1>2, <1>3, NetworkReads, DropReads, OutsideReads DEF Next

\* So ReadInv holds in every state, if the threads are apart in every state.
LEMMA ReadInvariance == Spec => ([]Apart => []ReadInv)
BY FileInit, FileNext, HandleInit, HandleNext, ReadInit, ReadNext, PTL DEF Spec

\* ReadInv contains what the readers are promised.
LEMMA ReadInvShows == ReadInv => RightBytes /\ ErrorsExplained /\ NoFreedHandle
BY Zenon DEF ReadInv, LiveOK, NoFreedHandle

----------------------------------------------------------------------------
\* FUSE runs a single thread.
OneThread == \A t, u \in Thread : t = u

\* Then there is nobody to share a session with.
LEMMA AloneIsApart == ASSUME OneThread PROVE Apart
BY Zenon DEF OneThread, Apart

\* With one FUSE thread: no handle of an object that libssh has released is used or
\* released again, although do_connect overwrites the handles of the previous connection
\* one by one.
THEOREM ReleasedNeverUsed == ASSUME OneThread PROVE Spec => []NoFreedHandle
BY AloneIsApart, ReadInvariance, ReadInvShows, PTL

\* With one FUSE thread: a read returns the block that was asked for, of the file with
\* that path on the node's owner, and a remote file never seems to end early, however
\* often connections are lost and files and views change (SSHSession::read, do_read).
THEOREM ReadsAreRight == ASSUME OneThread PROVE Spec => []RightBytes
BY AloneIsApart, ReadInvariance, ReadInvShows, PTL

\* With one FUSE thread: a read fails only if the node's own file could not be read, or
\* if a connection could not be made, or was lost, after the read had begun to make it
\* (UserFS::read, SSHSession::read, do_connect).
THEOREM ErrorsHaveReasons == ASSUME OneThread PROVE Spec => []ErrorsExplained
BY AloneIsApart, ReadInvariance, ReadInvShows, PTL

=============================================================================
