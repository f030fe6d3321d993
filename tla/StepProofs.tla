----------------------------- MODULE StepProofs -----------------------------
(***************************************************************************)
(* The steps of Group by what they do: to the process of a standby, to the *)
(* master's metadata, and to the connection, the link and the posted calls *)
(* on which metadata is on its way.                                        *)
(*                                                                         *)
(* Then induction over numbers, and what it says of Coming, the packets    *)
(* that posted calls will send, and of sequences; and what a step does to  *)
(* the packets on their way to a standby.                                  *)
(***************************************************************************)
EXTENDS GroupProofs, WellFoundedInduction

-----------------------------------------------------------------------------
(* What a step of a standby does to its own process and its connection. *)

\* The process of s becomes p, which shows the same files.
SameFiles(s, p) ==
    /\ p.dirTree = sb[s].dirTree /\ p.hosts = sb[s].hosts /\ p.hostId = sb[s].hostId

\* Its main thread starts the network thread.
Starts(s, p) ==
    /\ EarlyStart \/ main = "serving"
    /\ sb[s].main = "init" /\ p.main = "started"
    /\ SameFiles(s, p)
    /\ p.waiting = sb[s].waiting /\ p.rd = sb[s].rd /\ p.wr = sb[s].wr
    /\ standbyEnd' = [standbyEnd EXCEPT ![s] = "connecting"]
    /\ UNCHANGED toStandby

\* It goes on, and may find the connection established.
GoesOn(s, p) ==
    /\ p.main = "init" <=> sb[s].main = "init"
    /\ p.main = "exited" <=> sb[s].main = "exited"
    /\ SameFiles(s, p)
    /\ p.waiting = sb[s].waiting
    /\ p.wr = "err" => sb[s].wr = "err" \/ standbyEnd[s] \notin {"connecting", "open"}
    /\ p.wr = "err" /\ sb[s].wr # "err" => sb[s].post # << >>
    /\ \/ p.rd = sb[s].rd /\ UNCHANGED standbyEnd
       \/ /\ standbyEnd[s] = "connecting" /\ p.rd = "pending"
          /\ standbyEnd' = [standbyEnd EXCEPT ![s] = "open"]
    /\ UNCHANGED toStandby

\* A packet arrives.
Arrives(s, p) ==
    /\ toStandby[s] # << >>
    /\ sb[s].rd \in {"pending", "ok"}
    /\ p.main = sb[s].main /\ p.wr = sb[s].wr
    /\ p.dirTree = Head(toStandby[s]).tree
    /\ p.hosts = Head(toStandby[s]).hosts
    /\ p.waiting => sb[s].waiting
    /\ p.rd = IF standbyEnd[s] = "open" THEN "pending" ELSE "err"
    /\ toStandby' = [toStandby EXCEPT ![s] = Tail(@)]
    /\ UNCHANGED standbyEnd

\* The connection has failed, and the standby is on its own.
Loses(s, p) ==
    /\ \/ /\ sb[s].rd = "pending" \/ standbyEnd[s] = "open"
          /\ masterEnd[s] = "closed" \/ s \in cut
       \/ standbyEnd[s] = "connecting" \/ sb[s].rd = "err" \/ sb[s].wr = "err"
    /\ p.main = sb[s].main /\ p.hosts = sb[s].hosts /\ p.hostId = sb[s].hostId
    /\ p.dirTree = RemoveNotOf(sb[s].dirTree, sb[s].hostId)
    /\ ~p.waiting
    /\ p.rd = "pending" => sb[s].rd = "pending" /\ standbyEnd[s] = "connecting"
    /\ standbyEnd' = SocketClosed(s)
    /\ UNCHANGED toStandby

\* The process ends.
Exits(s, p) ==
    /\ sb[s].main # "init" /\ p.main = "exited" /\ SameFiles(s, p)
    /\ p.rd = "none" /\ p.wr = "none"
    /\ standbyEnd' = [standbyEnd EXCEPT ![s] =
                        IF @ \in {"open", "closed"} THEN "closed" ELSE "failed"]
    /\ toStandby' = [toStandby EXCEPT ![s] = << >>]

Changes(s, p) ==
    /\ sb' = [sb EXCEPT ![s] = p]
    /\ UNCHANGED <<masterVars, masterEnd, cut>>
    /\ Starts(s, p) \/ GoesOn(s, p) \/ Arrives(s, p) \/ Loses(s, p) \/ Exits(s, p)

\* What disconnect() and an answer leave of a process.
LEMMA DisconnectFiles ==
    ASSUME NEW p \in Process
    PROVE  LET q == Disconnect(p)
           IN  /\ q \in Process /\ q.main = p.main /\ q.hosts = p.hosts
               /\ q.hostId = p.hostId /\ q.rd = p.rd /\ q.wr = p.wr
               /\ q.waiting = FALSE
               /\ q.dirTree = RemoveNotOf(p.dirTree, p.hostId)
<1> DEFINE t == RemoveNotOf(p.dirTree, p.hostId)
           n == IF p.waiting THEN p.sem + 1 ELSE p.sem
           q == [p EXCEPT !.dirTree = t, !.waiting = FALSE, !.sem = n]
<1>1. p.dirTree \in Tree /\ p.hostId \in Nat /\ p.sem \in Nat /\ p.waiting \in BOOLEAN
  BY Zenon DEF Process
<1>2. t \in Tree
  BY Zenon, <1>1, RemoveNotOfType
<1>3. n \in Nat
  BY <1>1
<1> HIDE DEF t, n
<1>4. /\ q \in Process /\ q.main = p.main /\ q.hosts = p.hosts /\ q.hostId = p.hostId
      /\ q.rd = p.rd /\ q.wr = p.wr /\ q.waiting = FALSE /\ q.dirTree = t
  BY Zenon, <1>2, <1>3 DEF Process
<1>5. Disconnect(p) = q
  BY Zenon DEF Disconnect, t, n
<1> QED BY Zenon, <1>4, <1>5 DEF t

\* TCPManager::read on a standby takes the packet's files and hosts.
LEMMA ReadPacketFiles ==
    ASSUME NEW p \in Process, NEW packet \in Packet
    PROVE  LET q == ReadPacket(p, packet)
           IN  /\ q \in Process /\ q.main = p.main /\ q.rd = p.rd /\ q.wr = p.wr
               /\ q.dirTree = packet.tree /\ q.hosts = packet.hosts
               /\ q.waiting => p.waiting
<1> DEFINE q == ReadPacket(p, packet)
<1>0. p.sem \in Nat /\ p.waiting \in BOOLEAN
  BY Zenon DEF Process
<1>1. CASE packet.type = 1
  <2> DEFINE n == p.sem + 1
             r == [p EXCEPT !.hostId = packet.id, !.dirTree = packet.tree,
                            !.hosts = packet.hosts, !.waiting = FALSE, !.sem = n]
  <2>1. packet.id \in Nat /\ packet.tree \in Tree /\ packet.hosts \in Hosts
    BY <1>1 DEF Packet
  <2>2. n \in Nat
    BY <1>0
  <2>3. q = r
    BY <1>1 DEF ReadPacket, SlaveRecognized
  <2> HIDE DEF n
  <2>4. /\ r \in Process /\ r.main = p.main /\ r.rd = p.rd /\ r.wr = p.wr
        /\ r.dirTree = packet.tree /\ r.hosts = packet.hosts /\ r.waiting = FALSE
    BY Zenon, <2>1, <2>2 DEF Process
  <2> HIDE DEF r
  <2> QED BY Zenon, <2>3, <2>4
<1>2. CASE packet.type = 2
  <2> DEFINE r == [p EXCEPT !.dirTree = packet.tree, !.hosts = packet.hosts]
  <2>1. packet.tree \in Tree /\ packet.hosts \in Hosts
    BY Zenon, <1>2 DEF Packet
  <2>2. q = r
    BY <1>2 DEF ReadPacket, UpdateInfo
  <2>3. /\ r \in Process /\ r.main = p.main /\ r.rd = p.rd /\ r.wr = p.wr
        /\ r.dirTree = packet.tree /\ r.hosts = packet.hosts /\ r.waiting = p.waiting
    BY Zenon, <2>1 DEF Process
  <2> HIDE DEF r
  <2> QED BY Zenon, <2>2, <2>3
<1> QED BY Zenon, <1>1, <1>2 DEF Packet

\* A failed read or write, whose handler has made the process a.
LEMMA FailChanges ==
    ASSUME IInv, NEW s \in Standby, NEW a \in Process, Fail(s, a), UNCHANGED masterVars,
           a.main = sb[s].main, a.hosts = sb[s].hosts, a.hostId = sb[s].hostId,
           a.dirTree = sb[s].dirTree,
           \/ /\ sb[s].rd = "pending" \/ standbyEnd[s] = "open"
              /\ masterEnd[s] = "closed" \/ s \in cut
           \/ sb[s].rd = "err" \/ sb[s].wr = "err"
    PROVE  \E p \in Process : Changes(s, p)
<1> DEFINE w == Abort(a.wr)
<1>1. PICK r \in AbortRead(s, a.rd) :
        sb' = [sb EXCEPT ![s] = Disconnect([a EXCEPT !.rd = r, !.wr = Abort(@)])]
  BY Zenon DEF Fail
<1> DEFINE b == [a EXCEPT !.rd = r, !.wr = w]
           p == Disconnect(b)
<1>2. r \in Op /\ w \in Op /\ r # "pending"
  BY Zenon DEF AbortRead, Abort, Op, Process
<1> HIDE DEF w
<1>3. /\ b \in Process /\ b.rd = r /\ b.main = a.main /\ b.hosts = a.hosts
      /\ b.hostId = a.hostId /\ b.dirTree = a.dirTree
  BY Zenon, <1>2 DEF Process
<1>4. sb' = [sb EXCEPT ![s] = p]
  <2>1. b = [a EXCEPT !.rd = r, !.wr = Abort(@)]
    BY Zenon DEF w
  <2> HIDE DEF b
  <2> QED BY Zenon, <1>1, <2>1
<1> HIDE DEF b
<1>5. /\ p \in Process /\ p.main = b.main /\ p.hosts = b.hosts
      /\ p.hostId = b.hostId /\ p.rd = b.rd /\ p.waiting = FALSE
      /\ p.dirTree = RemoveNotOf(b.dirTree, b.hostId)
  BY Zenon, <1>3, DisconnectFiles
<1> HIDE DEF p
<1>6. /\ standbyEnd' = SocketClosed(s)
      /\ UNCHANGED <<acceptor, masterEnd, toMaster, toStandby, cut>>
  BY Zenon DEF Fail
<1>7. Loses(s, p)
  BY Zenon, <1>2, <1>3, <1>5, <1>6 DEF Loses
<1>8. Changes(s, p)
  BY Zenon, <1>4, <1>6, <1>7 DEF Changes
<1> QED BY Zenon, <1>5, <1>8

\* A standby's step is one of these.
LEMMA StandbyChanges ==
    ASSUME IInv, NEW s \in Standby, StandbyStep(s)
    PROVE  \E p \in Process : Changes(s, p)
<1>0. sb[s] \in Process /\ UNCHANGED masterVars
  BY Zenon, StandbyFacts DEF StandbyStep
<1>1. CASE (EarlyStart \/ main = "serving") /\ StandbyStart(s)
  <2> DEFINE p == [sb[s] EXCEPT !.main = "started"]
  <2>1. p \in Process /\ p.main = "started" /\ SameFiles(s, p)
        /\ p.waiting = sb[s].waiting /\ p.rd = sb[s].rd /\ p.wr = sb[s].wr
    BY Zenon, <1>0 DEF Process, SameFiles
  <2>2. sb' = [sb EXCEPT ![s] = p]
    BY Zenon, <1>1 DEF StandbyStart
  <2> HIDE DEF p
  <2>3. Starts(s, p) /\ UNCHANGED <<masterEnd, cut>>
    BY Zenon, <1>1, <2>1 DEF Starts, StandbyStart
  <2> QED BY Zenon, <1>0, <2>1, <2>2, <2>3 DEF Changes
<1>2. CASE SendMetadata(s)
  <2> DEFINE join == JoinPacket(sb[s].dirTree, sb[s].hosts[1])
             post == IF Working(s) THEN Append(sb[s].post, join) ELSE sb[s].post
             p == [sb[s] EXCEPT !.main = "waiting", !.post = post]
  <2>1. post \in Seq(Join)
    <3>1. sb[s].post \in Seq(Join) /\ sb[s].dirTree \in Tree /\ sb[s].hosts \in Hosts
      BY Zenon, <1>0 DEF Process
    <3>2. sb[s].hosts[1] \in Host
      BY <3>1 DEF Hosts
    <3>3. join \in Join
      BY Zenon, <3>1, <3>2 DEF JoinPacket, Join
    <3> HIDE DEF join
    <3> QED BY <3>1, <3>3
  <2>2. sb' = [sb EXCEPT ![s] = p]
    BY Zenon, <1>2 DEF SendMetadata
  <2> HIDE DEF post
  <2>3. p \in Process /\ p.main = "waiting" /\ SameFiles(s, p)
        /\ p.waiting = sb[s].waiting /\ p.rd = sb[s].rd /\ p.wr = sb[s].wr
    BY Zenon, <1>0, <2>1 DEF Process, SameFiles
  <2> HIDE DEF p
  <2>4. GoesOn(s, p) /\ UNCHANGED <<masterEnd, cut>>
    BY Zenon, <1>2, <2>3 DEF GoesOn, SendMetadata, wireVars
  <2> QED BY Zenon, <1>0, <2>2, <2>3, <2>4 DEF Changes
<1>3. CASE Mount(s)
  <2> DEFINE n == sb[s].sem - 1
             p == [sb[s] EXCEPT !.main = "mounted", !.sem = n]
  <2>1. n \in Nat
    BY <1>0, <1>3 DEF Process, Mount
  <2>2. sb' = [sb EXCEPT ![s] = p]
    BY Zenon, <1>3 DEF Mount
  <2> HIDE DEF n
  <2>3. p \in Process /\ p.main = "mounted" /\ SameFiles(s, p)
        /\ p.waiting = sb[s].waiting /\ p.rd = sb[s].rd /\ p.wr = sb[s].wr
    BY Zenon, <1>0, <2>1 DEF Process, SameFiles
  <2> HIDE DEF p
  <2>4. GoesOn(s, p) /\ UNCHANGED <<masterEnd, cut>>
    BY Zenon, <1>3, <2>3 DEF GoesOn, Mount, wireVars
  <2> QED BY Zenon, <1>0, <2>2, <2>3, <2>4 DEF Changes
<1>4. CASE Connected(s)
  <2> DEFINE p == [sb[s] EXCEPT !.rd = "pending"]
  <2>1. p \in Process /\ p.main = sb[s].main /\ SameFiles(s, p)
        /\ p.waiting = sb[s].waiting /\ p.rd = "pending" /\ p.wr = sb[s].wr
    BY Zenon, <1>0 DEF Process, SameFiles, Op
  <2>2. sb' = [sb EXCEPT ![s] = p]
    BY Zenon, <1>4 DEF Connected
  <2> HIDE DEF p
  <2>3. GoesOn(s, p) /\ UNCHANGED <<masterEnd, cut>>
    BY Zenon, <1>4, <2>1 DEF GoesOn, Connected
  <2> QED BY Zenon, <1>0, <2>1, <2>2, <2>3 DEF Changes
<1>5. CASE ConnectFailed(s)
  <2> DEFINE w == Abort(sb[s].wr)
             a == [sb[s] EXCEPT !.wr = w]
             p == Disconnect(a)
  <2>1. w \in Op
    BY Zenon, <1>0 DEF Abort, Op, Process
  <2>2. sb' = [sb EXCEPT ![s] = p]
    BY Zenon, <1>5 DEF ConnectFailed
  <2> HIDE DEF w
  <2>3. /\ a \in Process /\ a.rd = sb[s].rd /\ a.main = sb[s].main
        /\ a.hosts = sb[s].hosts /\ a.hostId = sb[s].hostId /\ a.dirTree = sb[s].dirTree
    BY Zenon, <1>0, <2>1 DEF Process
  <2> HIDE DEF a
  <2>4. /\ p \in Process /\ p.main = a.main /\ p.hosts = a.hosts
        /\ p.hostId = a.hostId /\ p.rd = a.rd /\ p.waiting = FALSE
        /\ p.dirTree = RemoveNotOf(a.dirTree, a.hostId)
    BY Zenon, <2>3, DisconnectFiles
  <2> HIDE DEF p
  <2>5. standbyEnd' = SocketClosed(s) /\ UNCHANGED <<masterEnd, toStandby, cut>>
    BY Zenon, <1>5, StandbyFacts DEF ConnectFailed, SocketClosed
  <2>6. Loses(s, p)
    BY Zenon, <1>5, <2>3, <2>4, <2>5 DEF Loses, ConnectFailed
  <2> QED BY Zenon, <1>0, <2>2, <2>4, <2>5, <2>6 DEF Changes
<1>6. CASE StandbyPosted(s)
  <2> DEFINE q == Append(sb[s].queue, Head(sb[s].post))
             rest == Tail(sb[s].post)
             w == IF sb[s].queue # << >> THEN sb[s].wr
                  ELSE IF standbyEnd[s] \in {"connecting", "open"} THEN "pending" ELSE "err"
             p == [sb[s] EXCEPT !.post = rest, !.queue = q, !.wr = w]
  <2>1. q \in Seq(Join) /\ rest \in Seq(Join) /\ sb[s].post # << >> /\ w \in Op
    <3>1. sb[s].post \in Seq(Join) /\ sb[s].queue \in Seq(Join) /\ sb[s].wr \in Op
      BY Zenon, <1>0 DEF Process
    <3>2. sb[s].post # << >>
      BY Zenon, <1>6 DEF StandbyPosted
    <3>3. q \in Seq(Join) /\ rest \in Seq(Join)
      BY <3>1, <3>2
    <3> QED BY Zenon, <3>1, <3>2, <3>3 DEF Op
  <2>2. sb' = [sb EXCEPT ![s] = p]
    BY Zenon, <1>6 DEF StandbyPosted
  <2>3. w = "err" => sb[s].wr = "err" \/ standbyEnd[s] \notin {"connecting", "open"}
    BY Zenon
  <2> HIDE DEF q, rest, w
  <2>4. p \in Process /\ p.main = sb[s].main /\ SameFiles(s, p)
        /\ p.waiting = sb[s].waiting /\ p.rd = sb[s].rd /\ p.wr = w
    BY Zenon, <1>0, <2>1 DEF Process, SameFiles
  <2> HIDE DEF p
  <2>5. GoesOn(s, p) /\ UNCHANGED <<masterEnd, cut>>
    BY Zenon, <1>6, <2>1, <2>3, <2>4 DEF GoesOn, StandbyPosted, wireVars
  <2> QED BY Zenon, <1>0, <2>2, <2>4, <2>5 DEF Changes
<1>7. CASE StandbyOnWritten(s)
  <2> DEFINE q == Tail(sb[s].queue)
             p == [sb[s] EXCEPT !.queue = q, !.wr = "none"]
  <2>1. q \in Seq(Join)
    <3>1. sb[s].queue \in Seq(Join) /\ sb[s].queue # << >>
      BY Zenon, <1>0, <1>7, StandbyFacts DEF Process, ProcAt, StandbyOnWritten
    <3> QED BY <3>1
  <2>2. sb' = [sb EXCEPT ![s] = p]
    BY Zenon, <1>7 DEF StandbyOnWritten
  <2> HIDE DEF q
  <2>3. p \in Process /\ p.main = sb[s].main /\ SameFiles(s, p)
        /\ p.waiting = sb[s].waiting /\ p.rd = sb[s].rd /\ p.wr = "none"
    BY Zenon, <1>0, <2>1 DEF Process, SameFiles, Op
  <2> HIDE DEF p
  <2>4. GoesOn(s, p) /\ UNCHANGED <<masterEnd, cut>>
    BY Zenon, <1>7, <2>3 DEF GoesOn, StandbyOnWritten
  <2> QED BY Zenon, <1>0, <2>2, <2>3, <2>4 DEF Changes
<1>8. CASE StandbyOnPacket(s)
  <2> DEFINE packet == Head(toStandby[s])
             r == IF standbyEnd[s] = "open" THEN "pending" ELSE "err"
             a == ReadPacket(sb[s], packet)
             p == [a EXCEPT !.rd = r]
  <2>1. toStandby[s] # << >> /\ sb[s].rd \in {"pending", "ok"}
    BY Zenon, <1>8, StandbyFacts DEF StandbyOnPacket, ProcAt
  <2>2. packet \in Packet /\ r \in Op
    BY <2>1, StandbyFacts DEF Op
  <2>3. /\ sb' = [sb EXCEPT ![s] = p]
        /\ toStandby' = [toStandby EXCEPT ![s] = Tail(@)]
        /\ UNCHANGED <<masterEnd, standbyEnd, cut>>
    BY Zenon, <1>8 DEF StandbyOnPacket
  <2> HIDE DEF packet, r
  <2>4. /\ a \in Process /\ a.main = sb[s].main /\ a.wr = sb[s].wr
        /\ a.dirTree = packet.tree /\ a.hosts = packet.hosts
        /\ a.waiting => sb[s].waiting
    BY Zenon, <1>0, <2>2, ReadPacketFiles
  <2> HIDE DEF a
  <2>5. /\ p \in Process /\ p.main = a.main /\ p.wr = a.wr /\ p.rd = r
        /\ p.dirTree = a.dirTree /\ p.hosts = a.hosts /\ p.waiting = a.waiting
    BY Zenon, <2>2, <2>4 DEF Process
  <2> HIDE DEF p
  <2>6. Arrives(s, p)
    BY Zenon, <2>1, <2>3, <2>4, <2>5 DEF Arrives, packet, r
  <2> QED BY Zenon, <1>0, <2>3, <2>5, <2>6 DEF Changes
<1>9. CASE StandbyOnReadError(s) \/ StandbyOnReadCut(s)
  <2> DEFINE a == [sb[s] EXCEPT !.rd = "none"]
  <2>1. /\ a \in Process /\ a.main = sb[s].main /\ a.hosts = sb[s].hosts
        /\ a.hostId = sb[s].hostId /\ a.dirTree = sb[s].dirTree
    BY Zenon, <1>0 DEF Process, Op
  <2>2. Fail(s, a)
    BY Zenon, <1>9 DEF StandbyOnReadError, StandbyOnReadCut
  <2>3. \/ /\ sb[s].rd = "pending" \/ standbyEnd[s] = "open"
           /\ masterEnd[s] = "closed" \/ s \in cut
        \/ sb[s].rd = "err" \/ sb[s].wr = "err"
    BY Zenon, <1>9 DEF StandbyOnReadError, StandbyOnReadCut
  <2> HIDE DEF a
  <2> QED BY Zenon, <1>0, <2>1, <2>2, <2>3, FailChanges
<1>10. CASE StandbyOnWriteError(s)
  <2> DEFINE a == [sb[s] EXCEPT !.wr = "none"]
  <2>1. /\ a \in Process /\ a.main = sb[s].main /\ a.hosts = sb[s].hosts
        /\ a.hostId = sb[s].hostId /\ a.dirTree = sb[s].dirTree
    BY Zenon, <1>0 DEF Process, Op
  <2>2. Fail(s, a)
    BY Zenon, <1>10 DEF StandbyOnWriteError
  <2>3. \/ /\ sb[s].rd = "pending" \/ standbyEnd[s] = "open"
           /\ masterEnd[s] = "closed" \/ s \in cut
        \/ sb[s].rd = "err" \/ sb[s].wr = "err"
    BY Zenon, <1>10 DEF StandbyOnWriteError
  <2> HIDE DEF a
  <2> QED BY Zenon, <1>0, <2>1, <2>2, <2>3, FailChanges
<1>11. CASE StandbyExit(s)
  <2> DEFINE p == [sb[s] EXCEPT !.main = "exited", !.post = << >>,
                                !.queue = << >>, !.rd = "none", !.wr = "none"]
  <2>1. << >> \in Seq(Join)
    OBVIOUS
  <2>2. /\ p \in Process /\ p.main = "exited" /\ SameFiles(s, p)
        /\ p.rd = "none" /\ p.wr = "none"
    BY Zenon, <1>0, <2>1 DEF Process, SameFiles, Op
  <2>3. sb' = [sb EXCEPT ![s] = p]
    BY Zenon, <1>11 DEF StandbyExit
  <2> HIDE DEF p
  <2>4. Exits(s, p) /\ UNCHANGED <<masterEnd, cut>>
    BY Zenon, <1>11, <2>2 DEF Exits, StandbyExit
  <2> QED BY Zenon, <1>0, <2>2, <2>3, <2>4 DEF Changes
<1> QED BY Zenon, <1>1, <1>2, <1>3, <1>4, <1>5, <1>6, <1>7, <1>8, <1>9, <1>10, <1>11
        DEF StandbyStep, StandbyMain, StandbyConnects, StandbyHandles

-----------------------------------------------------------------------------
(* The two ends of a connection. *)

\* A master that has exited has nothing left.  Before it has accepted a
\* connection nothing is on its way, not even a posted call for it alone; an
\* accepted one was established; and a standby reads from an established
\* connection, until that is broken.
LinkInv ==
    /\ main = "exited" =>
         posted = << >> /\ \A s \in Standby : masterEnd[s] = "closed" /\ conn[s] = NoConnection
    /\ \A i \in DOMAIN posted :
         posted[i].call = "writeTo" => masterEnd[posted[i].to] # "none"
    /\ \A s \in Standby :
         /\ masterEnd[s] = "none" => conn[s] = NoConnection /\ toStandby[s] = << >>
         /\ masterEnd[s] = "open" => standbyEnd[s] \in {"open", "closed"}
         /\ sb[s].main = "init" <=> standbyEnd[s] = "none"
         /\ sb[s].rd = "pending" => standbyEnd[s] = "open"
         /\ sb[s].rd \in {"ok", "err"} \/ sb[s].wr = "err" => standbyEnd[s] \in {"failed", "closed"}

-----------------------------------------------------------------------------
(* What a step of the master does to its metadata and the packets on their *)
(* way. *)

\* Whether a call is for s.
For(c, s) == c.call = "write" \/ c.to = s

\* Nothing that concerns the metadata happens to the connection of t.
Undisturbed(t) ==
    /\ conn'[t].id = conn[t].id
    /\ masterEnd[t] = "none" \/ main = "exited" => conn'[t] = conn[t]
    /\ masterEnd[t] = "open" => Unsent(conn'[t]) = Unsent(conn[t])

\* Threads go on, sent packets are popped.
Quiet ==
    /\ \/ main' = main
       \/ main = "init" /\ main' = "started"
       \/ main = "started" /\ main' = "pushing"
    /\ UNCHANGED <<dirTree, hosts, maxHostId, raced, posted,
                   masterEnd, standbyEnd, toStandby, cut>>
    /\ \A t \in Standby : Undisturbed(t)

\* The oldest posted call puts its packet into the queues.
Distributes ==
    /\ posted # << >> /\ posted' = Tail(posted)
    /\ UNCHANGED <<main, dirTree, hosts, maxHostId, raced,
                   masterEnd, standbyEnd, toStandby, cut>>
    /\ \A t \in Standby :
         /\ conn'[t].id = conn[t].id
         /\ masterEnd[t] = "none" => conn'[t] = conn[t]
         /\ masterEnd[t] = "open" =>
              Unsent(conn'[t]) = IF For(Head(posted), t)
                                 THEN Append(Unsent(conn[t]), Head(posted).packet)
                                 ELSE Unsent(conn[t])

\* A packet is handed to the kernel.
Sends(s) ==
    /\ masterEnd[s] = "open" /\ Unsent(conn[s]) # << >>
    /\ toStandby' = Deliver(toStandby, s, Head(Unsent(conn[s])), standbyEnd[s] = "closed")
    /\ Unsent(conn'[s]) = Tail(Unsent(conn[s])) /\ conn'[s].id = conn[s].id
    /\ \A t \in Standby \ {s} : conn'[t] = conn[t]
    /\ UNCHANGED <<main, dirTree, hosts, maxHostId, raced, posted,
                   masterEnd, standbyEnd, cut>>

\* A connection is closed; if it was registered, its nodes go, and all others
\* are told.
Closes(s) ==
    /\ masterEnd[s] = "open"
    /\ masterEnd' = [masterEnd EXCEPT ![s] = "closed"]
    /\ DisconnectSlave(conn[s].id)
    /\ conn'[s].id = 0
    /\ \A t \in Standby \ {s} : conn'[t] = conn[t]
    /\ UNCHANGED <<main, hosts, maxHostId, raced, standbyEnd, toStandby, cut>>

\* A standby is registered: it is told its id, and all are told of its nodes.
Registers(s) ==
    /\ masterEnd[s] # "none" /\ main # "exited" /\ conn[s].id = 0
    /\ conn'[s].id = maxHostId /\ maxHostId' = maxHostId + 1
    /\ \E host \in Host : host.id = maxHostId /\ PushSlaveHost(host)
    /\ \E seen \in HostsSeen(hosts') :
          posted' = posted \o
            <<[call |-> "writeTo", to |-> s,
               packet |-> RecognitionPacket(maxHostId, dirTree', seen)],
              Update(dirTree', seen)>>
    /\ Unsent(conn'[s]) = Unsent(conn[s])
    /\ \A t \in Standby \ {s} : conn'[t] = conn[t]
    /\ UNCHANGED <<masterEnd, standbyEnd, toStandby, cut>>

MasterDoes ==
    \/ Quiet \/ MasterHostPushed \/ MasterGone \/ Distributes
    \/ \E s \in Standby : Accept(s) \/ Sends(s) \/ Closes(s) \/ Registers(s)

\* The writes that an open connection has, and what is unsent.
LEMMA OpenConn ==
    ASSUME IInv, NEW s \in Standby
    PROVE  /\ conn[s] \in Conn /\ conn \in [Standby -> Conn]
           /\ conn[s].queue \in Seq(Packet) /\ conn[s].wr \in Seq(Op)
           /\ masterEnd[s] = "open" =>
                /\ conn[s].queue = << >> => conn[s].wr = << >>
                /\ conn[s].queue # << >> => conn[s].wr = <<conn[s].wr[1]>>
                /\ Unsent(conn[s]) \in Seq(Packet)
<1>1. /\ conn[s] \in Conn /\ conn \in [Standby -> Conn]
      /\ conn[s].queue \in Seq(Packet) /\ conn[s].wr \in Seq(Op)
      /\ masterEnd[s] = "open" =>
           Len(conn[s].wr) <= 1 /\ (conn[s].wr = << >> <=> conn[s].queue = << >>)
  BY Zenon DEF IInv, TypeInv, MasterType, ConnInv, Conn
<1> DEFINE w == conn[s].wr
           q == conn[s].queue
<1>2. ASSUME masterEnd[s] = "open", q # << >> PROVE w = <<w[1]>>
  <2>1. w \in Seq(Op) /\ w # << >> /\ Len(w) <= 1
    BY Zenon, <1>1, <1>2
  <2> HIDE DEF w
  <2>2. Len(w) = 1
    BY Zenon, <2>1, NonEmptyLen
  <2> QED BY <2>1, <2>2
<1>3. ASSUME masterEnd[s] = "open" PROVE Unsent(conn[s]) \in Seq(Packet)
  <2>1. q # << >> => Tail(q) \in Seq(Packet)
    BY <1>1
  <2> QED BY Zenon, <1>1, <1>3, <2>1 DEF Unsent
<1> QED BY Zenon, <1>1, <1>2, <1>3

\* A packet that is queued is the last of the unsent ones.
LEMMA EnqueueUnsent ==
    ASSUME IInv, NEW s \in Standby, masterEnd[s] = "open", NEW packet \in Packet
    PROVE  Unsent(Enqueue(conn[s], packet, TRUE)) = Append(Unsent(conn[s]), packet)
<1> DEFINE e == Enqueue(conn[s], packet, TRUE)
           q == conn[s].queue
           w == conn[s].wr
<1>1. /\ e.queue = Append(q, packet)
      /\ q # << >> => e.wr = w
      /\ q = << >> => e.wr = Append(w, "pending")
  BY Zenon, OpenConn, EnqueueType
<1>2. /\ q \in Seq(Packet) /\ w \in Seq(Op)
      /\ q = << >> => w = << >>
  BY Zenon, OpenConn
<1>3. CASE q = << >>
  <2>1. Append(<< >>, "pending") # << >> /\ Head(Append(<< >>, "pending")) = "pending"
    OBVIOUS
  <2>2. e.wr = Append(<< >>, "pending")
    BY Zenon, <1>1, <1>2, <1>3
  <2>3. Unsent(e) = e.queue
    BY Zenon, <2>1, <2>2 DEF Unsent
  <2>4. Unsent(conn[s]) = q
    BY Zenon, <1>2, <1>3 DEF Unsent
  <2> QED BY Zenon, <1>1, <2>3, <2>4
<1>4. CASE q # << >>
  <2> HIDE DEF q
  <2>1. Tail(Append(q, packet)) = Append(Tail(q), packet)
    BY <1>2, <1>4
  <2> QED BY Zenon, <1>1, <1>4, <2>1 DEF Unsent, q
<1> QED BY Zenon, <1>3, <1>4

\* A posted call is run.
LEMMA PostedDistributes ==
    ASSUME IInv, LinkInv, MasterPosted PROVE Distributes
<1> DEFINE c == Head(posted)
<1>1. /\ posted # << >> /\ posted' = Tail(posted)
      /\ UNCHANGED <<main, dirTree, hosts, maxHostId, raced,
                     masterEnd, standbyEnd, toStandby, cut>>
  BY Zenon DEF MasterPosted, PostedWrite, PostedWriteTo, wireVars
<1>2. c \in Call /\ c = posted[1] /\ 1 \in DOMAIN posted
  <2>1. posted \in Seq(Call)
    BY Zenon DEF IInv, TypeInv, MasterType
  <2> QED BY <1>1, <2>1
<1> HIDE DEF c
<1>3. c.packet \in Packet
  BY Zenon, <1>2 DEF Call
<1>4. ASSUME NEW t \in Standby
      PROVE  /\ conn'[t].id = conn[t].id
             /\ masterEnd[t] = "none" => conn'[t] = conn[t]
             /\ masterEnd[t] = "open" =>
                  Unsent(conn'[t]) = IF For(c, t) THEN Append(Unsent(conn[t]), c.packet)
                                     ELSE Unsent(conn[t])
  <2> DEFINE e == Enqueue(conn[t], c.packet, TRUE)
             d == Enqueue(conn[t], c.packet, FALSE)
  <2>1. e.id = conn[t].id /\ d.id = conn[t].id
    <3>1. conn[t] \in Conn /\ TRUE \in BOOLEAN /\ FALSE \in BOOLEAN
      BY Zenon, OpenConn
    <3> QED BY Zenon, <1>3, <3>1, EnqueueType
  <2>2. masterEnd[t] = "open" => Unsent(e) = Append(Unsent(conn[t]), c.packet)
    BY Zenon, <1>3, EnqueueUnsent
  <2> HIDE DEF e, d
  <2>3. CASE PostedWrite
    <3>1. c.call = "write" /\ conn'[t] = IF masterEnd[t] = "open" THEN e ELSE conn[t]
      BY Zenon, <2>3 DEF PostedWrite, c, e
    <3>2. For(c, t)
      BY Zenon, <3>1 DEF For
    <3> QED BY Zenon, <2>1, <2>2, <3>1, <3>2
  <2>4. CASE PostedWriteTo
    <3>1. c.call = "writeTo" /\ c.to \in Standby
      BY Zenon, <1>2, <2>4 DEF Call, PostedWriteTo, c
    <3>2. masterEnd[c.to] # "none"
      BY Zenon, <1>2, <3>1 DEF LinkInv
    <3>3. conn' = [conn EXCEPT ![c.to] =
                     Enqueue(conn[c.to], c.packet, masterEnd[c.to] = "open")]
      BY Zenon, <2>4 DEF PostedWriteTo, c
    <3>4. For(c, t) <=> t = c.to
      BY Zenon, <3>1 DEF For
    <3>5. CASE t = c.to
      <4>1. conn'[t] = Enqueue(conn[t], c.packet, masterEnd[t] = "open")
        BY Zenon, <3>1, <3>3, <3>5, OpenConn
      <4>2. masterEnd[t] = "open" => conn'[t] = e
        BY Zenon, <4>1 DEF e
      <4>3. masterEnd[t] # "open" => conn'[t] = d
        <5> SUFFICES ASSUME masterEnd[t] # "open" PROVE conn'[t] = d
          BY Zenon
        <5>1. (masterEnd[t] = "open") = FALSE
          BY Zenon
        <5> QED BY Zenon, <4>1, <5>1 DEF d
      <4> QED BY Zenon, <2>1, <2>2, <3>2, <3>4, <3>5, <4>2, <4>3
    <3>6. CASE t # c.to
      BY Zenon, <3>1, <3>3, <3>4, <3>6, OpenConn
    <3> QED BY Zenon, <3>5, <3>6
  <2> QED BY Zenon, <2>3, <2>4 DEF MasterPosted
<1> QED BY Zenon, <1>1, <1>4 DEF Distributes, c

\* A write finishes.
LEMMA WriteDoneSends ==
    ASSUME IInv, LinkInv, NEW s \in Standby, MasterWriteDone(s) PROVE Sends(s)
<1> DEFINE w == conn[s].wr
           q == conn[s].queue
           v == [w EXCEPT ![1] = "ok"]
           c == [conn[s] EXCEPT !.wr = v]
<1>1. w # << >> /\ Head(w) = "pending"
  BY Zenon DEF MasterWriteDone
<1>2. w \in Seq(Op) /\ q \in Seq(Packet) /\ conn[s] \in Conn
  BY Zenon, OpenConn
<1>3. 1 \in DOMAIN w /\ w[1] = "pending"
  BY <1>1, <1>2
<1>4. masterEnd[s] = "open"
  BY Zenon, <1>3 DEF IInv, ConnInv
<1>5. q # << >> /\ w = <<"pending">>
  BY Zenon, <1>1, <1>3, <1>4, OpenConn
<1>6. v = <<"ok">>
  BY <1>5
<1>7. conn' = [conn EXCEPT ![s] = c]
  BY Zenon DEF MasterWriteDone
<1> HIDE DEF v
<1>8. v \in Seq(Op) /\ v # << >> /\ Head(v) = "ok"
  BY <1>6 DEF Op
<1>9. c.wr = v /\ c.queue = q /\ c.id = conn[s].id
  BY Zenon, <1>2, <1>8, ConnWrite DEF Conn
<1> HIDE DEF c
<1>10. Unsent(conn[s]) = q
  BY Zenon, <1>1 DEF Unsent
<1>11. Unsent(c) = Tail(q)
  BY Zenon, <1>8, <1>9 DEF Unsent
<1>12. conn'[s] = c /\ \A t \in Standby \ {s} : conn'[t] = conn[t]
  BY Zenon, <1>7, OpenConn
<1>13. /\ toStandby' = Deliver(toStandby, s, Head(q), standbyEnd[s] = "closed")
       /\ UNCHANGED <<main, dirTree, hosts, maxHostId, raced, posted,
                      masterEnd, standbyEnd, cut>>
  BY Zenon DEF MasterWriteDone
<1> QED BY Zenon, <1>4, <1>5, <1>9, <1>10, <1>11, <1>12, <1>13 DEF Sends

\* Handlers of writes that succeeded change nothing but the queue's front.
LEMMA WrittenQuiet ==
    ASSUME IInv, LinkInv, NEW s \in Standby, MasterOnWritten(s) PROVE Quiet
<1> DEFINE w == conn[s].wr
           q == conn[s].queue
           open == masterEnd[s] = "open"
           popped == [conn[s] EXCEPT !.wr = Tail(@), !.queue = Tail(@)]
           c == IF popped.queue = << >> THEN popped ELSE DoWrite(popped, open)
<1>1. /\ w # << >> /\ Head(w) = "ok" /\ q # << >>
      /\ conn' = [conn EXCEPT ![s] = c]
      /\ UNCHANGED <<main, dirTree, hosts, maxHostId, raced, posted,
                     masterEnd, standbyEnd, toStandby, cut>>
  BY Zenon DEF MasterOnWritten, wireVars
<1>2. conn[s] \in Conn /\ w \in Seq(Op) /\ q \in Seq(Packet) /\ open \in BOOLEAN
  BY Zenon, OpenConn
<1>3. /\ c.id = conn[s].id /\ c.queue = Tail(q)
      /\ Tail(q) = << >> => c.wr = Tail(w)
      /\ Tail(q) # << >> => c.wr = Append(Tail(w), IF open THEN "pending" ELSE "err")
  BY Zenon, <1>1, <1>2, PopType
<1> HIDE DEF popped, c
<1>4. conn'[s] = c /\ \A t \in Standby \ {s} : conn'[t] = conn[t]
  BY Zenon, <1>1, OpenConn
<1>5. masterEnd[s] # "none" /\ main # "exited"
  BY <1>1 DEF LinkInv, NoConnection
<1>6. ASSUME masterEnd[s] = "open" PROVE Unsent(c) = Unsent(conn[s])
  <2>1. w = <<w[1]>>
    BY Zenon, <1>1, <1>6, OpenConn
  <2>7. w \in Seq(Op)
    BY Zenon, <1>2
  <2> HIDE DEF w
  <2>8. Len(w) = 1
    BY <2>1
  <2>2. Tail(w) = << >>
    BY Zenon, <2>7, <2>8, TailOfOne
  <2>3. c.wr = << >> \/ c.wr = Append(<< >>, "pending")
    BY Zenon, <1>3, <1>6, <2>2
  <2>4. Append(<< >>, "pending") # << >> /\ Head(Append(<< >>, "pending")) = "pending"
    OBVIOUS
  <2>5. Unsent(c) = c.queue
    BY Zenon, <2>3, <2>4 DEF Unsent
  <2>6. Unsent(conn[s]) = Tail(q)
    BY Zenon, <1>1 DEF Unsent, w
  <2> QED BY Zenon, <1>3, <2>5, <2>6
<1> QED BY Zenon, <1>1, <1>3, <1>4, <1>5, <1>6 DEF Quiet, Undisturbed

\* A write handler that finds its connection closed changes nothing that is followed
\* here, unless the process ends.
LEMMA WrittenStaleDoes ==
    ASSUME IInv, LinkInv, NEW s \in Standby, MasterOnWrittenStale(s) PROVE Quiet \/ MasterGone
<1>1. CASE MasterGone
  BY Zenon, <1>1
<1>2. CASE /\ conn' = [conn EXCEPT ![s].wr = Tail(@)]
           /\ UNCHANGED <<main, dirTree, hosts, maxHostId, posted, raced, wireVars>>
  <2>1. conn[s].wr # << >> /\ masterEnd[s] # "open"
    BY Zenon DEF MasterOnWrittenStale
  <2>2. masterEnd[s] # "none" /\ main # "exited"
    BY <2>1 DEF LinkInv, NoConnection
  <2>3. /\ conn'[s].id = conn[s].id
        /\ \A t \in Standby \ {s} : conn'[t] = conn[t]
    BY Zenon, <1>2, OpenConn DEF Conn
  <2> QED BY Zenon, <1>2, <2>1, <2>2, <2>3 DEF Quiet, Undisturbed, wireVars
<1> QED BY Zenon, <1>1, <1>2 DEF MasterOnWrittenStale

\* close(): either it does, or the connection is closed already.
LEMMA CloseDoes ==
    ASSUME IInv, LinkInv, NEW s \in Standby, NEW c \in Conn, Close(s, c),
           c.id = conn[s].id, masterEnd[s] # "none", main # "exited",
           UNCHANGED <<main, hosts, maxHostId, raced, standbyEnd, toStandby, cut>>
    PROVE  Quiet \/ Closes(s)
<1>1. CASE masterEnd[s] # "open"
  <2>1. conn' = [conn EXCEPT ![s] = c] /\ UNCHANGED <<masterEnd, dirTree, posted>>
    BY Zenon, <1>1 DEF Close
  <2>2. conn'[s] = c /\ \A t \in Standby \ {s} : conn'[t] = conn[t]
    BY Zenon, <2>1, OpenConn
  <2> QED BY Zenon, <1>1, <2>1, <2>2 DEF Quiet, Undisturbed
<1>2. CASE masterEnd[s] = "open"
  <2>1. PICK a \in Aborted(s, c) :
          conn' = [conn EXCEPT ![s] = [a EXCEPT !.queue = << >>, !.id = 0]]
    BY Zenon, <1>2 DEF Close
  <2> DEFINE b == [a EXCEPT !.queue = << >>, !.id = 0]
  <2>2. a \in Conn
    BY Zenon, AbortedType
  <2>3. b.id = 0
    <3>1. << >> \in Seq(Packet)
      OBVIOUS
    <3> QED BY Zenon, <2>2, <3>1, ConnClosed
  <2> HIDE DEF b
  <2>4. conn'[s] = b /\ \A t \in Standby \ {s} : conn'[t] = conn[t]
    BY Zenon, <2>1, OpenConn DEF b
  <2>5. /\ masterEnd' = [masterEnd EXCEPT ![s] = "closed"]
        /\ DisconnectSlave(conn[s].id)
    BY Zenon, <1>2 DEF Close
  <2> QED BY Zenon, <1>2, <2>3, <2>4, <2>5 DEF Closes
<1> QED BY Zenon, <1>1, <1>2

\* The error handlers of a connection close it, or change nothing.
LEMMA ErrorDoes ==
    ASSUME IInv, LinkInv, NEW s \in Standby,
           MasterOnReadError(s) \/ MasterOnReadCut(s) \/ MasterOnWriteError(s)
    PROVE  Quiet \/ Closes(s)
<1>0. UNCHANGED <<main, hosts, maxHostId, raced, standbyEnd, toStandby, cut>>
  BY Zenon DEF MasterOnReadError, MasterOnReadCut, MasterOnWriteError
<1>1. conn[s] \in Conn /\ conn[s].wr \in Seq(Op)
  BY Zenon, OpenConn
<1>2. CASE MasterOnReadError(s) \/ MasterOnReadCut(s)
  <2> DEFINE c == [conn[s] EXCEPT !.rd = "none"]
  <2>1. Close(s, c) /\ conn[s].rd # "none"
    BY Zenon, <1>2 DEF MasterOnReadError, MasterOnReadCut
  <2>2. c \in Conn /\ c.id = conn[s].id
    BY Zenon, <1>1, ConnRead DEF Op
  <2>3. masterEnd[s] # "none" /\ main # "exited"
    BY <2>1 DEF LinkInv, NoConnection
  <2> HIDE DEF c
  <2> QED BY Zenon, <1>0, <2>1, <2>2, <2>3, CloseDoes
<1>3. CASE MasterOnWriteError(s)
  <2> DEFINE w == Tail(conn[s].wr)
             c == [conn[s] EXCEPT !.wr = w]
  <2>1. Close(s, c) /\ conn[s].wr # << >>
    BY Zenon, <1>3 DEF MasterOnWriteError
  <2>2. w \in Seq(Op)
    BY <1>1, <2>1
  <2> HIDE DEF w
  <2>3. c \in Conn /\ c.id = conn[s].id
    BY Zenon, <1>1, <2>2, ConnWrite
  <2>4. masterEnd[s] # "none" /\ main # "exited"
    BY <2>1 DEF LinkInv, NoConnection
  <2> HIDE DEF c
  <2> QED BY Zenon, <1>0, <2>1, <2>3, <2>4, CloseDoes
<1> QED BY Zenon, <1>2, <1>3

\* A join is handled.
LEMMA OnPacketDoes ==
    ASSUME IInv, LinkInv, NEW s \in Standby, MasterOnPacket(s)
    PROVE  Quiet \/ Closes(s) \/ Registers(s)
<1> DEFINE packet == Head(toMaster[s])
<1>1. /\ NewConnection(s, packet) /\ UNCHANGED <<standbyEnd, toStandby, cut>>
      /\ toMaster[s] # << >> /\ conn[s].rd # "none"
  BY Zenon DEF MasterOnPacket, IInv, ConnInv
<1>2. /\ conn[s] \in Conn /\ packet \in Join /\ conn[s].id = 0 /\ maxHostId \in Nat
      /\ conn[s].queue \in Seq(Packet) /\ conn[s].wr \in Seq(Op)
  <2>1. toMaster[s] \in Seq(Join) /\ conn[s].id = 0 /\ maxHostId \in Nat
    BY Zenon, <1>1 DEF IInv, TypeInv, WireType, MasterType, JoinInv, JoinAt
  <2> QED BY <1>1, <2>1, OpenConn
<1> HIDE DEF packet
<1>3. masterEnd[s] # "none" /\ main # "exited"
  BY <1>1 DEF LinkInv, NoConnection
<1>4. CASE HasConflict(dirTree, packet.tree) # << >>
  <2> DEFINE c == [conn[s] EXCEPT !.rd = "err"]
  <2>1. Close(s, c) /\ UNCHANGED <<main, hosts, maxHostId, raced>>
    BY Zenon, <1>1, <1>4 DEF NewConnection
  <2>2. c \in Conn /\ c.id = conn[s].id
    BY Zenon, <1>2, ConnRead DEF Op
  <2> HIDE DEF c
  <2> QED BY Zenon, <1>1, <1>3, <2>1, <2>2, CloseDoes
<1>5. CASE HasConflict(dirTree, packet.tree) = << >>
  <2> DEFINE id == maxHostId
             tree == Merge(dirTree, SetHostID(packet.tree, id))
  <2>1. PICK address \in RemoteAddresses(s) :
          /\ maxHostId' = id + 1
          /\ dirTree' = tree
          /\ PushSlaveHost([packet.host EXCEPT !.id = id, !.address = address])
          /\ conn' = [conn EXCEPT ![s].id = id, ![s].rd = ReadNext(s)]
          /\ \E seen \in HostsSeen(hosts') :
               posted' = posted \o
                 <<[call |-> "writeTo", to |-> s, packet |-> RecognitionPacket(id, tree, seen)],
                   Update(tree, seen)>>
          /\ UNCHANGED masterEnd
    BY Zenon, <1>1, <1>5 DEF NewConnection, RegisterSlave
  <2> DEFINE host == [packet.host EXCEPT !.id = id, !.address = address]
  <2>2. host \in Host /\ host.id = id
    <3>1. address \in Machine \cup {NoAddress}
      BY Zenon, <2>1 DEF RemoteAddresses, Machine
    <3> QED BY Zenon, <1>2, <3>1 DEF Host, Join
  <2> HIDE DEF host, tree
  <2>3. \E h \in Host : h.id = maxHostId /\ PushSlaveHost(h)
    BY Zenon, <2>1, <2>2 DEF host
  <2> DEFINE rd == ReadNext(s)
             c == [conn[s] EXCEPT !.id = id, !.rd = rd]
  <2>4. rd \in Op
    BY Zenon DEF ReadNext, Op
  <2>5. conn' = [conn EXCEPT ![s] = c]
    BY Zenon, <2>1, OpenConn
  <2> HIDE DEF rd
  <2>6. c.id = id /\ c.wr = conn[s].wr /\ c.queue = conn[s].queue
    BY Zenon, <1>2, <2>4 DEF Conn
  <2> HIDE DEF c
  <2>7. conn'[s] = c /\ \A t \in Standby \ {s} : conn'[t] = conn[t]
    BY Zenon, <2>5, OpenConn
  <2>8. Unsent(c) = Unsent(conn[s])
    BY Zenon, <2>6 DEF Unsent
  <2>9. \E seen \in HostsSeen(hosts') :
          posted' = posted \o
            <<[call |-> "writeTo", to |-> s,
               packet |-> RecognitionPacket(maxHostId, dirTree', seen)],
              Update(dirTree', seen)>>
    BY Zenon, <2>1
  <2> QED BY Zenon, <1>1, <1>2, <1>3, <2>1, <2>3, <2>6, <2>7, <2>8, <2>9 DEF Registers
<1> QED BY Zenon, <1>4, <1>5

\* Every step of the master is one of these.
LEMMA MasterStepDoes ==
    ASSUME IInv, LinkInv, MasterStep PROVE MasterDoes
<1>1. CASE MasterMain
  BY Zenon, <1>1 DEF MasterMain, StartNetwork, PushMasterHost, wireVars, MasterDoes, Quiet, Undisturbed
<1>2. CASE Listen \/ ListenFailed
  BY Zenon, <1>2 DEF Listen, ListenFailed, masterVars, MasterDoes, Quiet, Undisturbed
<1>3. CASE MasterPosted
  BY Zenon, <1>3, PostedDistributes DEF MasterDoes
<1>4. CASE MasterExit
  BY Zenon, <1>4 DEF MasterExit, MasterDoes
<1>5. ASSUME NEW s \in Standby, MasterHandles(s) \/ MasterIO(s) \/ MasterOnReadCut(s)
      PROVE  MasterDoes
  BY Zenon, <1>5, OnPacketDoes, ErrorDoes, WrittenQuiet, WrittenStaleDoes, WriteDoneSends
     DEF MasterHandles, MasterIO, MasterDoes
<1> QED BY Zenon, <1>1, <1>2, <1>3, <1>4, <1>5 DEF MasterStep

-----------------------------------------------------------------------------
(* The two ends stay in step. *)

\* The types that the proofs below use.
LEMMA Types ==
    ASSUME IInv
    PROVE  /\ masterEnd \in [Standby -> {"none", "open", "closed"}]
           /\ standbyEnd \in [Standby -> {"none", "connecting", "open", "failed", "closed"}]
           /\ toStandby \in [Standby -> Seq(Packet)]
           /\ dirTree \in Tree /\ hosts \in Hosts /\ maxHostId \in Nat /\ raced \in BOOLEAN
           /\ posted \in Seq(Call) /\ conn \in [Standby -> Conn]
           /\ sb \in [Standby -> Process]
           /\ cut \in SUBSET Standby
  BY Zenon DEF IInv, TypeInv, WireType, MasterType, StandbyType

\* The standby's side of LinkInv.
LEMMA StandbyLink ==
    ASSUME IInv, LinkInv, NEW s \in Standby, NEW p \in Process, Changes(s, p)
    PROVE  LinkInv'
<1>1. /\ sb' = [sb EXCEPT ![s] = p]
      /\ UNCHANGED <<main, dirTree, hosts, maxHostId, posted, conn, raced, masterEnd, cut>>
  BY Zenon DEF Changes, masterVars
<1>2. sb'[s] = p /\ \A t \in Standby \ {s} : sb'[t] = sb[t]
  BY Zenon, <1>1, Types
<1>3. /\ \A t \in Standby \ {s} : standbyEnd'[t] = standbyEnd[t] /\ toStandby'[t] = toStandby[t]
  BY Zenon, Types DEF Changes, Starts, GoesOn, Arrives, Loses, Exits, SocketClosed
<1>4. toStandby[s] = << >> => toStandby'[s] = << >>
  BY Zenon, Types DEF Changes, Starts, GoesOn, Arrives, Loses, Exits
<1>5. /\ masterEnd[s] = "none" => conn[s] = NoConnection /\ toStandby[s] = << >>
      /\ masterEnd[s] = "open" => standbyEnd[s] \in {"open", "closed"}
      /\ sb[s].main = "init" <=> standbyEnd[s] = "none"
      /\ sb[s].rd = "pending" => standbyEnd[s] = "open"
      /\ sb[s].rd \in {"ok", "err"} \/ sb[s].wr = "err" => standbyEnd[s] \in {"failed", "closed"}
  BY Zenon DEF LinkInv
<1>6. /\ masterEnd[s] = "open" => standbyEnd'[s] \in {"open", "closed"}
      /\ p.main = "init" <=> standbyEnd'[s] = "none"
      /\ p.rd = "pending" => standbyEnd'[s] = "open"
      /\ p.rd \in {"ok", "err"} \/ p.wr = "err" => standbyEnd'[s] \in {"failed", "closed"}
  <2>1. CASE Starts(s, p)
    BY Zenon, <1>5, <2>1, Types DEF Starts
  <2>2. CASE GoesOn(s, p)
    <3>1. p.wr = "err" => standbyEnd[s] \in {"failed", "closed"}
      <4>1. sb[s].post # << >> => sb[s].main # "init"
        BY Zenon, StandbyFacts DEF JoinAt
      <4> QED BY Zenon, <1>5, <2>2, <4>1, Types DEF GoesOn
    <3> QED BY Zenon, <1>5, <2>2, <3>1, Types DEF GoesOn
  <2>3. CASE Arrives(s, p)
    <3>1. UNCHANGED standbyEnd /\ p.main = sb[s].main /\ p.wr = sb[s].wr
          /\ p.rd = (IF standbyEnd[s] = "open" THEN "pending" ELSE "err")
          /\ toStandby[s] # << >>
      BY Zenon, <2>3 DEF Arrives
    <3>2. ASSUME standbyEnd[s] # "open" PROVE standbyEnd[s] \in {"failed", "closed"}
      BY Zenon, <2>3, <1>5, <3>2 DEF Arrives
    <3> QED BY Zenon, <1>5, <3>1, <3>2
  <2>4. CASE Loses(s, p)
    <3>1. standbyEnd' = SocketClosed(s) /\ p.main = sb[s].main
          /\ (p.rd = "pending" => sb[s].rd = "pending" /\ standbyEnd[s] = "connecting")
      BY Zenon, <2>4 DEF Loses
    <3>2. standbyEnd[s] # "none"
      BY Zenon, <1>5, <2>4 DEF Loses
    <3>3. standbyEnd'[s] \in {"failed", "closed"}
          /\ (standbyEnd[s] \in {"open", "closed"} => standbyEnd'[s] = "closed")
      BY Zenon, <3>1, <3>2, Types DEF SocketClosed
    <3> QED BY Zenon, <1>5, <3>1, <3>2, <3>3
  <2>5. CASE Exits(s, p)
    BY Zenon, <1>5, <2>5, Types DEF Exits
  <2> QED BY Zenon, <2>1, <2>2, <2>3, <2>4, <2>5 DEF Changes
<1>7. ASSUME NEW t \in Standby
      PROVE  /\ masterEnd'[t] = "none" => conn'[t] = NoConnection /\ toStandby'[t] = << >>
             /\ masterEnd'[t] = "open" => standbyEnd'[t] \in {"open", "closed"}
             /\ sb'[t].main = "init" <=> standbyEnd'[t] = "none"
             /\ sb'[t].rd = "pending" => standbyEnd'[t] = "open"
             /\ sb'[t].rd \in {"ok", "err"} \/ sb'[t].wr = "err" =>
                  standbyEnd'[t] \in {"failed", "closed"}
  <2>1. CASE t = s
    BY Zenon, <1>1, <1>2, <1>4, <1>5, <1>6, <2>1
  <2>2. CASE t # s
    BY <1>1, <1>2, <1>3, <2>2 DEF LinkInv
  <2> QED BY Zenon, <2>1, <2>2
<1> QED BY Zenon, <1>1, <1>7 DEF LinkInv

\* The master's side.
LEMMA MasterLink ==
    ASSUME IInv, LinkInv, MasterDoes, UNCHANGED sb PROVE LinkInv'
<1> USE Types
<1>1. CASE Quiet
  BY Zenon, <1>1 DEF Quiet, Undisturbed, LinkInv
<1>2. CASE MasterHostPushed
  BY Zenon, <1>2 DEF MasterHostPushed, wireVars, LinkInv
<1>3. CASE MasterGone
  BY <1>3 DEF MasterGone, LinkInv
<1>4. CASE Distributes
  <2>1. \A i \in DOMAIN Tail(posted) :
          i + 1 \in DOMAIN posted /\ Tail(posted)[i] = posted[i + 1]
    BY <1>4 DEF Distributes
  <2> QED BY <1>4, <2>1 DEF Distributes, LinkInv
<1>5. ASSUME NEW s \in Standby, Accept(s) PROVE LinkInv'
  <2>1. /\ masterEnd' = [masterEnd EXCEPT ![s] = "open"]
        /\ \A t \in Standby \ {s} : conn'[t] = conn[t]
        /\ standbyEnd[s] \in {"open", "closed"} /\ masterEnd[s] = "none"
        /\ UNCHANGED <<main, posted, standbyEnd, toStandby>>
    BY Zenon, <1>5 DEF Accept
  <2>2. /\ masterEnd'[s] = "open"
        /\ \A t \in Standby \ {s} : masterEnd'[t] = masterEnd[t]
    BY Zenon, <2>1
  <2>3. \A t \in Standby : masterEnd[t] # "none" => masterEnd'[t] # "none"
    BY Zenon, <2>1, <2>2
  <2>4. \A i \in DOMAIN posted : posted[i].call = "writeTo" => posted[i].to \in Standby
    <3>1. \A i \in DOMAIN posted : posted[i] \in Call
      OBVIOUS
    <3> QED BY Zenon, <3>1 DEF Call
  <2> QED BY <2>1, <2>2, <2>3, <2>4 DEF LinkInv
<1>6. ASSUME NEW s \in Standby, Sends(s) PROVE LinkInv'
  <2>1. \A t \in Standby \ {s} : toStandby'[t] = toStandby[t]
    BY Zenon, <1>6 DEF Sends, Deliver
  <2> QED BY <1>6, <2>1 DEF Sends, LinkInv
<1>7. ASSUME NEW s \in Standby, Closes(s) PROVE LinkInv'
  <2>1. /\ masterEnd' = [masterEnd EXCEPT ![s] = "closed"]
        /\ \A t \in Standby \ {s} : conn'[t] = conn[t]
        /\ UNCHANGED <<main, standbyEnd, toStandby>>
        /\ DisconnectSlave(conn[s].id)
    BY Zenon, <1>7 DEF Closes
  <2>2. /\ masterEnd'[s] = "closed"
        /\ \A t \in Standby \ {s} : masterEnd'[t] = masterEnd[t]
    BY Zenon, <2>1
  <2>3. \A i \in DOMAIN posted' : \/ i \in DOMAIN posted /\ posted'[i] = posted[i]
                                  \/ posted'[i].call = "write"
    <3>1. CASE conn[s].id = 0
      BY Zenon, <2>1, <3>1 DEF DisconnectSlave
    <3>2. CASE conn[s].id # 0
      <4>1. PICK seen : posted' = Append(posted, Update(RemoveOf(dirTree, conn[s].id), seen))
        BY Zenon, <2>1, <3>2 DEF DisconnectSlave
      <4> DEFINE u == Update(RemoveOf(dirTree, conn[s].id), seen)
      <4>2. u.call = "write"
        BY Zenon DEF Update
      <4> HIDE DEF u
      <4>3. posted' = Append(posted, u)
        BY Zenon, <4>1 DEF u
      <4> QED BY <4>2, <4>3
    <3> QED BY Zenon, <3>1, <3>2
  <2>4. \A i \in DOMAIN posted : posted[i].call = "writeTo" => posted[i].to \in Standby
    <3>1. \A i \in DOMAIN posted : posted[i] \in Call
      OBVIOUS
    <3> QED BY Zenon, <3>1 DEF Call
  <2>5. \A i \in DOMAIN posted' :
          posted'[i].call = "writeTo" => masterEnd'[posted'[i].to] # "none"
    <3>1. \A t \in Standby : masterEnd[t] # "none" => masterEnd'[t] # "none"
      BY Zenon, <2>2
    <3>2. ASSUME NEW i \in DOMAIN posted', posted'[i].call = "writeTo"
          PROVE  masterEnd'[posted'[i].to] # "none"
      <4>1. i \in DOMAIN posted /\ posted'[i] = posted[i]
        BY Zenon, <2>3, <3>2
      <4>2. posted[i].to \in Standby /\ masterEnd[posted[i].to] # "none"
        BY Zenon, <2>4, <3>2, <4>1 DEF LinkInv
      <4> QED BY Zenon, <3>1, <4>1, <4>2
    <3> QED BY Zenon, <3>2
  <2>6. main' # "exited"
    BY Zenon, <1>7, <2>1 DEF LinkInv, Closes
  <2> QED BY <2>1, <2>2, <2>5, <2>6 DEF LinkInv
<1>8. ASSUME NEW s \in Standby, Registers(s) PROVE LinkInv'
  <2>1. PICK host \in Host, seen \in HostsSeen(hosts') :
          /\ PushSlaveHost(host)
          /\ posted' = posted \o
               <<[call |-> "writeTo", to |-> s,
                  packet |-> RecognitionPacket(maxHostId, dirTree', seen)],
                 Update(dirTree', seen)>>
    BY Zenon, <1>8 DEF Registers
  <2> DEFINE a == [call |-> "writeTo", to |-> s,
                   packet |-> RecognitionPacket(maxHostId, dirTree', seen)]
             b == Update(dirTree', seen)
  <2>2. a.call = "writeTo" /\ a.to = s /\ b.call = "write"
    BY Zenon DEF Update
  <2> HIDE DEF a, b
  <2>3. posted' = posted \o <<a, b>>
    BY Zenon, <2>1 DEF a, b
  <2>4. \A i \in DOMAIN posted' : \/ i \in DOMAIN posted /\ posted'[i] = posted[i]
                                  \/ posted'[i] = a \/ posted'[i] = b
    BY <2>3
  <2>5. main' # "exited"
    BY Zenon, <1>8, <2>1 DEF PushSlaveHost, Registers
  <2>6. /\ masterEnd[s] # "none" /\ \A t \in Standby \ {s} : conn'[t] = conn[t]
        /\ UNCHANGED <<masterEnd, standbyEnd, toStandby>>
    BY Zenon, <1>8 DEF Registers
  <2>7. ASSUME NEW i \in DOMAIN posted', posted'[i].call = "writeTo"
        PROVE  masterEnd'[posted'[i].to] # "none"
    <3>1. CASE i \in DOMAIN posted /\ posted'[i] = posted[i]
      BY Zenon, <2>6, <2>7, <3>1 DEF LinkInv
    <3>2. CASE posted'[i] = a
      BY Zenon, <2>2, <2>6, <3>2
    <3>3. CASE posted'[i] = b
      BY Zenon, <2>2, <2>7, <3>3
    <3> QED BY Zenon, <2>4, <3>1, <3>2, <3>3
  <2> QED BY Zenon, <2>5, <2>6, <2>7 DEF LinkInv
<1> QED BY Zenon, <1>1, <1>2, <1>3, <1>4, <1>5, <1>6, <1>7, <1>8 DEF MasterDoes

\* At first there are no connections.
LEMMA LinkInit == Init => LinkInv
  BY DEF Init, WireInit, MasterInit, StandbyInit, LinkInv

\* A step is one of the master's, one of a standby's, or a cut.
LEMMA Steps ==
    ASSUME IInv, LinkInv, [Next]_vars
    PROVE  \/ MasterDoes /\ UNCHANGED sb
           \/ \E s \in Standby : \E p \in Process : Changes(s, p)
           \/ \E s \in Standby : NetworkStep(s)
           \/ UNCHANGED vars
  BY Zenon, MasterStepDoes, StandbyChanges DEF Next

\* Every step keeps LinkInv.
LEMMA LinkNext ==
    ASSUME IInv, LinkInv, [Next]_vars PROVE LinkInv'
<1>1. ASSUME NEW s \in Standby, NetworkStep(s) PROVE LinkInv'
  BY Zenon, <1>1 DEF NetworkStep, Cut, masterVars, LinkInv
<1>2. CASE UNCHANGED vars
  BY Zenon, <1>2 DEF vars, masterVars, wireVars, LinkInv
<1> QED BY Zenon, <1>1, <1>2, Steps, MasterLink, StandbyLink

-----------------------------------------------------------------------------
(* Induction, with sets of numbers in place of predicates. *)

\* A set of numbers that has an element has a least one.
LEMMA LeastElement ==
    ASSUME NEW S \in SUBSET Nat, S # {}
    PROVE  \E n \in S : \A m \in S : n <= m
<1> DEFINE R == {e \in Nat \X Nat : e[1] < e[2]}
<1>1. IsWellFoundedOn(R, Nat)
  BY Zenon, NatLessThanWellFounded DEF OpToRel
<1>2. \E n \in S : \A m \in S : ~(<<m, n>> \in R)
  <2> HIDE DEF R
  <2> QED BY Zenon, <1>1, WFMin
<1>3. PICK n \in S : \A m \in S : ~(<<m, n>> \in R)
  BY Zenon, <1>2
<1>4. ASSUME NEW m \in S PROVE n <= m
  <2>1. ~(<<m, n>> \in R)
    BY Zenon, <1>3
  <2>2. ~(m < n)
    BY Zenon, <2>1
  <2> QED BY <2>2
<1> QED BY Zenon, <1>4

\* A set that has 0 and, with a number, the next one, has all.
LEMMA SetInduction ==
    ASSUME NEW S \in SUBSET Nat, 0 \in S, \A n \in S : n + 1 \in S
    PROVE  S = Nat
<1> DEFINE Out == Nat \ S
<1> SUFFICES ASSUME Out # {} PROVE FALSE
  BY Zenon
<1>1. PICK n \in Out : \A m \in Out : n <= m
  <2>1. Out \in SUBSET Nat
    BY Zenon
  <2> HIDE DEF Out
  <2> QED BY Zenon, <2>1, LeastElement
<1>2. n - 1 \in Nat /\ n - 1 \in S
  BY <1>1
<1> QED BY <1>2

-----------------------------------------------------------------------------
(* Which of the posted calls a standby will get. *)

\* The recursion of Coming, as a property of a function on 0..n.
Collects(f, n, calls, s) ==
    f = [i \in 0..n |->
           IF i = 0 THEN << >>
           ELSE IF For(calls[i], s) THEN Append(f[i - 1], calls[i].packet)
           ELSE f[i - 1]]

\* There is such a function: every one can be extended by one step.
LEMMA CollectsExists ==
    ASSUME NEW calls, NEW s, NEW n \in Nat
    PROVE  \E f : Collects(f, n, calls, s)
<1> DEFINE S == {k \in Nat : \E f : Collects(f, k, calls, s)}
<1>1. 0 \in S
  <2>1. Collects([i \in 0..0 |-> << >>], 0, calls, s)
    BY DEF Collects
  <2> QED BY Zenon, <2>1
<1>2. ASSUME NEW k \in S PROVE k + 1 \in S
  <2>1. PICK f : Collects(f, k, calls, s)
    BY Zenon
  <2> DEFINE g == [i \in 0..(k + 1) |->
                     IF i <= k THEN f[i]
                     ELSE IF For(calls[i], s) THEN Append(f[i - 1], calls[i].packet)
                     ELSE f[i - 1]]
  <2>2. ASSUME NEW i \in 0..(k + 1)
        PROVE  g[i] = IF i = 0 THEN << >>
                      ELSE IF For(calls[i], s) THEN Append(g[i - 1], calls[i].packet)
                      ELSE g[i - 1]
    <3>1. i = 0 => g[i] = << >>
      BY <2>1 DEF Collects
    <3>2. i # 0 => g[i - 1] = f[i - 1]
      OBVIOUS
    <3>3. i # 0 /\ i <= k =>
            f[i] = IF For(calls[i], s) THEN Append(f[i - 1], calls[i].packet) ELSE f[i - 1]
      <4> SUFFICES ASSUME i # 0, i \in 0..k
                   PROVE  f[i] = IF For(calls[i], s) THEN Append(f[i - 1], calls[i].packet)
                                 ELSE f[i - 1]
        OBVIOUS
      <4> QED BY <2>1, Zenon DEF Collects
    <3> QED BY Zenon, <3>1, <3>2, <3>3
  <2>3. Collects(g, k + 1, calls, s)
    <3>1. DOMAIN g = 0..(k + 1) /\ g = [i \in 0..(k + 1) |-> g[i]]
      BY Zenon
    <3> HIDE DEF g
    <3> QED BY Zenon, <2>2, <3>1 DEF Collects
  <2> HIDE DEF g
  <2> QED BY <2>3
<1>3. S = Nat
  <2> HIDE DEF S
  <2>1. S \in SUBSET Nat
    BY Zenon DEF S
  <2> QED BY Zenon, <1>1, <1>2, <2>1, SetInduction
<1> QED BY Zenon, <1>3

\* The function that Coming takes the last value of.
UpTo(calls, s) == CHOOSE f : Collects(f, Len(calls), calls, s)

\* Coming in terms of it, and its recursion.
LEMMA ComingUpTo ==
    ASSUME NEW calls \in Seq(Call), NEW s
    PROVE  /\ Coming(calls, s) = UpTo(calls, s)[Len(calls)]
           /\ Collects(UpTo(calls, s), Len(calls), calls, s)
<1>1. Coming(calls, s) = UpTo(calls, s)[Len(calls)]
  BY Zenon DEF Coming, UpTo, Collects, For
<1>2. \E f : Collects(f, Len(calls), calls, s)
  <2>1. Len(calls) \in Nat
    OBVIOUS
  <2> QED BY Zenon, <2>1, CollectsExists
<1>3. Collects(UpTo(calls, s), Len(calls), calls, s)
  BY Zenon, <1>2 DEF UpTo
<1> QED BY Zenon, <1>1, <1>3

\* The recursion, step by step.
LEMMA CollectsZero ==
    ASSUME NEW f, NEW n \in Nat, NEW calls, NEW s, Collects(f, n, calls, s)
    PROVE  f[0] = << >>
<1>1. 0 \in 0..n
  OBVIOUS
<1> QED BY <1>1, Zenon DEF Collects

\* With one call more, the packets are one more if the call is for s.
LEMMA CollectsNext ==
    ASSUME NEW f, NEW n \in Nat, NEW calls, NEW s, Collects(f, n, calls, s),
           NEW k \in Nat, k < n
    PROVE  /\ For(calls[k + 1], s) => f[k + 1] = Append(f[k], calls[k + 1].packet)
           /\ ~For(calls[k + 1], s) => f[k + 1] = f[k]
<1>1. k + 1 \in 0..n /\ k + 1 # 0 /\ (k + 1) - 1 = k
  OBVIOUS
<1>2. /\ For(calls[k + 1], s) => f[k + 1] = Append(f[(k + 1) - 1], calls[k + 1].packet)
      /\ ~For(calls[k + 1], s) => f[k + 1] = f[(k + 1) - 1]
  BY <1>1, Zenon DEF Collects
<1> QED BY Zenon, <1>1, <1>2

\* What is collected are packets.
LEMMA CollectsType ==
    ASSUME NEW f, NEW calls \in Seq(Call), NEW s, Collects(f, Len(calls), calls, s)
    PROVE  \A i \in 0..Len(calls) : f[i] \in Seq(Packet)
<1> DEFINE n == Len(calls)
<1>0. n \in Nat
  OBVIOUS
<1> HIDE DEF n
<1> DEFINE S == {k \in Nat : k <= n => f[k] \in Seq(Packet)}
<1>1. 0 \in S
  <2>1. f[0] = << >>
    BY Zenon, <1>0, CollectsZero DEF n
  <2>2. << >> \in Seq(Packet)
    OBVIOUS
  <2> QED BY Zenon, <2>1, <2>2
<1>2. ASSUME NEW k \in S PROVE k + 1 \in S
  <2> SUFFICES ASSUME k + 1 <= n PROVE f[k + 1] \in Seq(Packet)
    OBVIOUS
  <2>1. k \in Nat /\ k < n /\ f[k] \in Seq(Packet) /\ k + 1 \in 1..n
    BY <1>0
  <2>2. calls[k + 1].packet \in Packet
    <3>1. calls[k + 1] \in Call
      BY <2>1 DEF n
    <3> QED BY Zenon, <3>1 DEF Call
  <2>3. f[k + 1] = Append(f[k], calls[k + 1].packet) \/ f[k + 1] = f[k]
    BY <1>0, <2>1, CollectsNext DEF n
  <2>4. Append(f[k], calls[k + 1].packet) \in Seq(Packet)
    BY <2>1, <2>2
  <2> QED BY Zenon, <2>1, <2>3, <2>4
<1>3. S = Nat
  <2> HIDE DEF S
  <2>1. S \in SUBSET Nat
    BY Zenon DEF S
  <2> QED BY Zenon, <1>1, <1>2, <2>1, SetInduction
<1> QED BY <1>3 DEF n

\* Without calls nothing comes.
LEMMA ComingEmpty ==
    ASSUME NEW s PROVE Coming(<< >>, s) = << >>
<1> DEFINE none == << >>
<1>1. none \in Seq(Call) /\ Len(none) = 0 /\ 0 \in Nat
  OBVIOUS
<1> HIDE DEF none
<1>2. Collects(UpTo(none, s), 0, none, s) /\ Coming(none, s) = UpTo(none, s)[0]
  BY Zenon, <1>1, ComingUpTo
<1>3. UpTo(none, s)[0] = << >>
  BY Zenon, <1>1, <1>2, CollectsZero
<1> QED BY Zenon, <1>2, <1>3 DEF none

\* What comes are packets.
LEMMA ComingType ==
    ASSUME NEW calls \in Seq(Call), NEW s PROVE Coming(calls, s) \in Seq(Packet)
<1>1. Len(calls) \in 0..Len(calls)
  OBVIOUS
<1> QED BY Zenon, <1>1, ComingUpTo, CollectsType

\* A call that is posted is the last to come.
LEMMA ComingAppend ==
    ASSUME NEW calls \in Seq(Call), NEW c \in Call, NEW s
    PROVE  Coming(Append(calls, c), s) =
             IF For(c, s) THEN Append(Coming(calls, s), c.packet) ELSE Coming(calls, s)
<1> DEFINE more == Append(calls, c)
           n == Len(calls)
           m == Len(calls) + 1
           f == UpTo(calls, s)
           g == UpTo(more, s)
<1>1. /\ more \in Seq(Call) /\ n \in Nat /\ m \in Nat /\ m = n + 1 /\ Len(more) = m
      /\ more[n + 1] = c
      /\ \A i \in 1..n : more[i] = calls[i]
  OBVIOUS
<1> HIDE DEF more
<1>2. /\ Collects(f, n, calls, s) /\ Coming(calls, s) = f[n]
      /\ Collects(g, m, more, s) /\ Coming(more, s) = g[m]
  BY Zenon, <1>1, ComingUpTo
<1> HIDE DEF n, m, f, g
<1> DEFINE S == {k \in Nat : k <= n => g[k] = f[k]}
<1>3. 0 \in S
  <2>1. f[0] = << >> /\ g[0] = << >>
    BY Zenon, <1>1, <1>2, CollectsZero
  <2> QED BY Zenon, <2>1
<1>4. ASSUME NEW k \in S PROVE k + 1 \in S
  <2> SUFFICES ASSUME k + 1 <= n PROVE g[k + 1] = f[k + 1]
    OBVIOUS
  <2>1. k \in Nat /\ k < n /\ k < m /\ more[k + 1] = calls[k + 1] /\ g[k] = f[k]
    BY <1>1
  <2>2. /\ For(calls[k + 1], s) => f[k + 1] = Append(f[k], calls[k + 1].packet)
        /\ ~For(calls[k + 1], s) => f[k + 1] = f[k]
    BY Zenon, <1>1, <1>2, <2>1, CollectsNext
  <2>3. /\ For(more[k + 1], s) => g[k + 1] = Append(g[k], more[k + 1].packet)
        /\ ~For(more[k + 1], s) => g[k + 1] = g[k]
    BY Zenon, <1>1, <1>2, <2>1, CollectsNext
  <2> QED BY Zenon, <2>1, <2>2, <2>3
<1>5. S = Nat
  <2> HIDE DEF S
  <2>1. S \in SUBSET Nat
    BY Zenon DEF S
  <2> QED BY Zenon, <1>3, <1>4, <2>1, SetInduction
<1>6. g[n] = f[n] /\ n < m
  BY <1>1, <1>5
<1>7. /\ For(c, s) => g[n + 1] = Append(g[n], c.packet)
      /\ ~For(c, s) => g[n + 1] = g[n]
  BY <1>1, <1>2, <1>6, CollectsNext
<1> QED BY Zenon, <1>1, <1>2, <1>6, <1>7 DEF more

\* A call that is done was the first to come.
LEMMA ComingTail ==
    ASSUME NEW calls \in Seq(Call), calls # << >>, NEW s
    PROVE  Coming(calls, s) =
             IF For(Head(calls), s) THEN <<Head(calls).packet>> \o Coming(Tail(calls), s)
             ELSE Coming(Tail(calls), s)
<1> DEFINE rest == Tail(calls)
           c == calls[1]
           n == Len(rest)
           m == Len(calls)
           f == UpTo(calls, s)
           g == UpTo(rest, s)
           first == IF For(c, s) THEN <<c.packet>> ELSE << >>
<1>1. /\ rest \in Seq(Call) /\ n \in Nat /\ m \in Nat /\ m = n + 1
      /\ c \in Call /\ c = Head(calls)
      /\ \A i \in 1..n : rest[i] = calls[i + 1]
  OBVIOUS
<1>2. /\ Collects(f, m, calls, s) /\ Coming(calls, s) = f[m]
      /\ Collects(g, n, rest, s) /\ Coming(rest, s) = g[n]
      /\ \A i \in 0..n : g[i] \in Seq(Packet)
  <2> HIDE DEF rest
  <2> QED BY Zenon, <1>1, ComingUpTo, CollectsType
<1>3. c.packet \in Packet /\ first \in Seq(Packet)
  <2>1. c.packet \in Packet
    BY Zenon, <1>1 DEF Call
  <2>2. << >> \in Seq(Packet) /\ <<c.packet>> \in Seq(Packet)
    BY <2>1
  <2> QED BY Zenon, <2>1, <2>2
<1> HIDE DEF rest, c, n, m, f, g, first
<1> DEFINE S == {k \in Nat : k <= n => f[k + 1] = first \o g[k]}
<1>4. 0 \in S
  <2>1. f[0] = << >> /\ g[0] = << >>
    BY Zenon, <1>1, <1>2, CollectsZero
  <2>2. /\ For(c, s) => f[1] = Append(f[0], c.packet)
        /\ ~For(c, s) => f[1] = f[0]
    <3>1. 0 \in Nat /\ 0 < m /\ 0 + 1 = 1
      BY <1>1
    <3>2. /\ For(calls[0 + 1], s) => f[0 + 1] = Append(f[0], calls[0 + 1].packet)
          /\ ~For(calls[0 + 1], s) => f[0 + 1] = f[0]
      BY Zenon, <1>1, <1>2, <3>1, CollectsNext
    <3> QED BY Zenon, <3>1, <3>2 DEF c
  <2>3. Append(<< >>, c.packet) = <<c.packet>>
    BY <1>3
  <2>4. f[1] = first
    BY Zenon, <2>1, <2>2, <2>3 DEF first
  <2>5. first \o << >> = first
    BY <1>3
  <2>6. 0 \in Nat /\ 0 + 1 = 1
    OBVIOUS
  <2>7. f[0 + 1] = first \o g[0]
    BY Zenon, <2>1, <2>4, <2>5, <2>6
  <2> QED BY Zenon, <2>6, <2>7
<1>5. ASSUME NEW k \in S PROVE k + 1 \in S
  <2> SUFFICES ASSUME k + 1 <= n PROVE f[(k + 1) + 1] = first \o g[k + 1]
    OBVIOUS
  <2> DEFINE j == k + 1
             d == calls[j + 1]
             x == g[k]
             e == d.packet
  <2>1. /\ k \in Nat /\ k < n /\ j \in Nat /\ j < m /\ j \in 1..n /\ k \in 0..n
        /\ rest[j] = d /\ f[j] = first \o x
    BY <1>1
  <2>2. /\ For(d, s) => g[j] = Append(x, e)
        /\ ~For(d, s) => g[j] = x
    <3>1. /\ For(rest[k + 1], s) => g[k + 1] = Append(g[k], rest[k + 1].packet)
          /\ ~For(rest[k + 1], s) => g[k + 1] = g[k]
      BY ZenonT(30), <1>1, <1>2, <2>1, CollectsNext
    <3> QED BY Zenon, <2>1, <3>1
  <2>3. /\ For(d, s) => f[j + 1] = Append(f[j], e)
        /\ ~For(d, s) => f[j + 1] = f[j]
    <3> HIDE DEF j
    <3> QED BY Zenon, <1>1, <1>2, <2>1, CollectsNext
  <2>4. e \in Packet /\ x \in Seq(Packet)
    <3>1. rest[j] \in Call
      BY <1>1, <2>1 DEF n
    <3>2. d \in Call
      BY Zenon, <2>1, <3>1
    <3> HIDE DEF d
    <3> QED BY Zenon, <1>2, <2>1, <3>2 DEF Call
  <2> HIDE DEF d, x, e
  <2>5. Append(first \o x, e) = first \o Append(x, e)
    <3>1. Append(first \o x, e) = (first \o x) \o <<e>> /\ Append(x, e) = x \o <<e>>
      BY <1>3, <2>4
    <3>2. <<e>> \in Seq(Packet)
      BY <2>4
    <3>3. (first \o x) \o <<e>> = first \o (x \o <<e>>)
      <4> DEFINE y == <<e>>
      <4> HIDE DEF y
      <4>1. (first \o x) \o y = first \o (x \o y)
        BY <1>3, <2>4, <3>2 DEF y
      <4> QED BY Zenon, <4>1 DEF y
    <3> QED BY Zenon, <3>1, <3>3
  <2> QED BY Zenon, <2>1, <2>2, <2>3, <2>5
<1>6. S = Nat
  <2> HIDE DEF S
  <2>1. S \in SUBSET Nat
    BY Zenon DEF S
  <2> QED BY Zenon, <1>4, <1>5, <2>1, SetInduction
<1>7. f[m] = first \o g[n]
  <2>1. n \in S
    BY Zenon, <1>1, <1>6
  <2>2. f[n + 1] = first \o g[n]
    BY <1>1, <2>1
  <2> QED BY Zenon, <1>1, <2>2
<1>8. ~For(c, s) => first \o g[n] = g[n]
  <2> DEFINE x == g[n]
  <2>1. x \in Seq(Packet)
    BY <1>1, <1>2
  <2> HIDE DEF x
  <2>2. << >> \o x = x
    BY <2>1
  <2> QED BY Zenon, <2>2 DEF x, first
<1>9. For(c, s) => first = <<c.packet>>
  BY Zenon DEF first
<1> QED BY Zenon, <1>1, <1>2, <1>7, <1>8, <1>9 DEF rest

-----------------------------------------------------------------------------
(* Sequences. *)

\* Append and concatenation.
LEMMA ConcatAppend ==
    ASSUME NEW S, NEW a \in Seq(S), NEW b \in Seq(S), NEW e \in S
    PROVE  a \o Append(b, e) = Append(a \o b, e)
  OBVIOUS

\* An appended element comes before what is concatenated.
LEMMA AppendConcat ==
    ASSUME NEW S, NEW a \in Seq(S), NEW b \in Seq(S), NEW e \in S
    PROVE  Append(a, e) \o b = a \o (<<e>> \o b)
<1>1. <<e>> \in Seq(S) /\ Append(a, e) = a \o <<e>>
  OBVIOUS
<1> DEFINE y == <<e>>
<1> HIDE DEF y
<1>2. (a \o y) \o b = a \o (y \o b)
  BY <1>1 DEF y
<1> QED BY Zenon, <1>1, <1>2 DEF y

\* Concatenation is associative.
LEMMA ConcatAssoc ==
    ASSUME NEW S, NEW a \in Seq(S), NEW b \in Seq(S), NEW c \in Seq(S)
    PROVE  (a \o b) \o c = a \o (b \o c)
  OBVIOUS

\* Head and tail of a concatenation are those of its first part.
LEMMA HeadTailConcat ==
    ASSUME NEW S, NEW a \in Seq(S), NEW b \in Seq(S), a # << >>
    PROVE  /\ a \o b # << >>
           /\ Head(a \o b) = Head(a)
           /\ Tail(a \o b) = Tail(a) \o b
  OBVIOUS

\* A sequence is its head and its tail.
LEMMA HeadAndTail ==
    ASSUME NEW S, NEW a \in Seq(S), a # << >>
    PROVE  /\ Head(a) \in S /\ Tail(a) \in Seq(S)
           /\ a = <<Head(a)>> \o Tail(a)
  OBVIOUS

\* The elements of a concatenation are those of its parts.
LEMMA ConcatIndex ==
    ASSUME NEW S, NEW a \in Seq(S), NEW b \in Seq(S)
    PROVE  /\ \A i \in DOMAIN a : i \in DOMAIN (a \o b) /\ (a \o b)[i] = a[i]
           /\ \A i \in DOMAIN b :
                Len(a) + i \in DOMAIN (a \o b) /\ (a \o b)[Len(a) + i] = b[i]
           /\ \A i \in DOMAIN (a \o b) : ~(i <= Len(a)) => i - Len(a) \in DOMAIN b
           /\ \A i \in DOMAIN (a \o b) : i <= Len(a) => i \in DOMAIN a
  OBVIOUS

\* An element put in front moves the others by one place.
LEMMA ConsIndex ==
    ASSUME NEW S, NEW e \in S, NEW b \in Seq(S)
    PROVE  \A i \in DOMAIN b : 1 + i \in DOMAIN (<<e>> \o b) /\ (<<e>> \o b)[1 + i] = b[i]
  OBVIOUS

\* The sequence r has elements of q, in the same order.
Sub(r, q) ==
    \A i, j \in DOMAIN r : i <= j =>
        \E k, l \in DOMAIN q : k <= l /\ r[i] = q[k] /\ r[j] = q[l]

\* Sub is reflexive,
LEMMA SubSame ==
    ASSUME NEW q PROVE Sub(q, q)
  BY Zenon DEF Sub

\* a sequence is part of what it begins,
LEMMA SubFirst ==
    ASSUME NEW S, NEW a \in Seq(S), NEW b \in Seq(S) PROVE Sub(a, a \o b)
<1> SUFFICES ASSUME NEW i \in DOMAIN a, NEW j \in DOMAIN a, i <= j
             PROVE  \E k, l \in DOMAIN (a \o b) :
                      k <= l /\ a[i] = (a \o b)[k] /\ a[j] = (a \o b)[l]
  BY Zenon DEF Sub
<1>1. i \in DOMAIN (a \o b) /\ j \in DOMAIN (a \o b)
      /\ (a \o b)[i] = a[i] /\ (a \o b)[j] = a[j]
  OBVIOUS
<1> QED BY Zenon, <1>1

\* of what it ends,
LEMMA SubLast ==
    ASSUME NEW S, NEW a \in Seq(S), NEW b \in Seq(S) PROVE Sub(b, a \o b)
<1> SUFFICES ASSUME NEW i \in DOMAIN b, NEW j \in DOMAIN b, i <= j
             PROVE  \E k, l \in DOMAIN (a \o b) :
                      k <= l /\ b[i] = (a \o b)[k] /\ b[j] = (a \o b)[l]
  BY Zenon DEF Sub
<1> DEFINE n == Len(a)
<1>1. n + i \in DOMAIN (a \o b) /\ n + j \in DOMAIN (a \o b) /\ n + i <= n + j
      /\ (a \o b)[n + i] = b[i] /\ (a \o b)[n + j] = b[j]
  OBVIOUS
<1> QED BY Zenon, <1>1

\* and of itself with an element more,
LEMMA SubBoth ==
    ASSUME NEW S, NEW a \in Seq(S), NEW b \in Seq(S), NEW e \in S
    PROVE  Sub(a \o b, a \o (<<e>> \o b))
<1> DEFINE r == a \o b
           y == <<e>>
           q == a \o (y \o b)
           n == Len(a)
           f(i) == IF i <= n THEN i ELSE i + 1
<1> SUFFICES ASSUME NEW i \in DOMAIN r, NEW j \in DOMAIN r, i <= j
             PROVE  \E k, l \in DOMAIN q : k <= l /\ r[i] = q[k] /\ r[j] = q[l]
  BY Zenon DEF Sub
<1>1. y \in Seq(S)
  OBVIOUS
<1> HIDE DEF y
<1>2. ASSUME NEW m \in DOMAIN r PROVE f(m) \in DOMAIN q /\ r[m] = q[f(m)]
  <2>1. CASE m <= n
    BY <1>1, <2>1
  <2>2. CASE ~(m <= n)
    <3> DEFINE d == m - n
               z == y \o b
    <3>1. z \in Seq(S)
      BY <1>1
    <3>2. d \in DOMAIN b /\ m = n + d /\ n \in Nat /\ d \in Nat
      BY <2>2, ConcatIndex
    <3>3. r[n + d] = b[d]
      BY <3>2, ConcatIndex
    <3>4. 1 + d \in DOMAIN z /\ z[1 + d] = b[d]
      <4>1. \A k \in DOMAIN b : 1 + k \in DOMAIN z /\ z[1 + k] = b[k]
        BY ConsIndex DEF y
      <4> HIDE DEF z, d
      <4> QED BY Zenon, <1>1, <3>2, <4>1
    <3> HIDE DEF z, d
    <3>5. n + (1 + d) \in DOMAIN (a \o z) /\ (a \o z)[n + (1 + d)] = z[1 + d]
      <4>1. \A k \in DOMAIN z : n + k \in DOMAIN (a \o z) /\ (a \o z)[n + k] = z[k]
        BY <3>1, ConcatIndex
      <4> HIDE DEF n
      <4> QED BY Zenon, <3>4, <4>1
    <3>6. f(m) = n + (1 + d)
      BY <2>2, <3>2
    <3>7. q = a \o z
      BY Zenon DEF z
    <3> HIDE DEF f, q, r
    <3> QED BY Zenon, <3>2, <3>3, <3>4, <3>5, <3>6, <3>7
  <2> QED BY Zenon, <2>1, <2>2
<1>3. f(i) <= f(j)
  BY <1>1
<1>4. f(i) \in DOMAIN q /\ f(j) \in DOMAIN q /\ r[i] = q[f(i)] /\ r[j] = q[f(j)]
  BY Zenon, <1>2
<1> HIDE DEF f, q, r
<1> QED BY Zenon, <1>3, <1>4

\* also before the same end.
LEMMA SubConcat ==
    ASSUME NEW S, NEW a \in Seq(S), NEW b \in Seq(S), NEW c \in Seq(S), Sub(a, b)
    PROVE  Sub(a \o c, b \o c)
<1> DEFINE r == a \o c
           q == b \o c
           n == Len(a)
           m == Len(b)
<1> SUFFICES ASSUME NEW i \in DOMAIN r, NEW j \in DOMAIN r, i <= j
             PROVE  \E k, l \in DOMAIN q : k <= l /\ r[i] = q[k] /\ r[j] = q[l]
  BY Zenon DEF Sub
<1>1. CASE j <= n
  <2>1. i \in DOMAIN a /\ j \in DOMAIN a /\ r[i] = a[i] /\ r[j] = a[j]
    BY <1>1
  <2>2. PICK k \in DOMAIN b, l \in DOMAIN b : k <= l /\ a[i] = b[k] /\ a[j] = b[l]
    BY Zenon, <2>1 DEF Sub
  <2>3. k \in DOMAIN q /\ l \in DOMAIN q /\ q[k] = b[k] /\ q[l] = b[l]
    OBVIOUS
  <2> QED BY Zenon, <2>1, <2>2, <2>3
<1>2. CASE i <= n /\ ~(j <= n)
  <2>1. i \in DOMAIN a /\ r[i] = a[i] /\ j - n \in DOMAIN c /\ r[j] = c[j - n]
    BY <1>2
  <2>2. PICK k \in DOMAIN b : a[i] = b[k]
    <3>1. i <= i
      OBVIOUS
    <3> QED BY Zenon, <2>1, <3>1 DEF Sub
  <2> DEFINE l == m + (j - n)
  <2>3. k \in DOMAIN q /\ q[k] = b[k] /\ l \in DOMAIN q /\ q[l] = c[j - n] /\ k <= l
    BY <2>1
  <2> QED BY Zenon, <2>1, <2>2, <2>3
<1>3. CASE ~(i <= n) /\ ~(j <= n)
  <2> DEFINE k == m + (i - n)
             l == m + (j - n)
  <2>1. /\ r[i] = c[i - n] /\ r[j] = c[j - n]
        /\ k \in DOMAIN q /\ l \in DOMAIN q /\ k <= l
        /\ q[k] = c[i - n] /\ q[l] = c[j - n]
    <3> DEFINE x == i - n
               z == j - n
    <3>1. /\ x \in DOMAIN c /\ z \in DOMAIN c /\ i = n + x /\ j = n + z /\ x <= z
          /\ n \in Nat /\ m \in Nat
      BY <1>3, ConcatIndex
    <3> HIDE DEF x, z
    <3>2. r[n + x] = c[x] /\ r[n + z] = c[z]
      <4>1. \A e \in DOMAIN c : r[n + e] = c[e]
        BY ConcatIndex
      <4> HIDE DEF r, n
      <4> QED BY Zenon, <3>1, <4>1
    <3>3. /\ m + x \in DOMAIN q /\ q[m + x] = c[x]
          /\ m + z \in DOMAIN q /\ q[m + z] = c[z]
      <4>1. \A e \in DOMAIN c : Len(b) + e \in DOMAIN (b \o c) /\ (b \o c)[Len(b) + e] = c[e]
        BY ConcatIndex
      <4> QED BY Zenon, <3>1, <4>1
    <3>4. m + x <= m + z
      BY <3>1
    <3> HIDE DEF n, m, q, r
    <3> QED BY Zenon, <3>1, <3>2, <3>3, <3>4 DEF x, z
  <2> QED BY Zenon, <2>1
<1> QED BY Zenon, <1>1, <1>2, <1>3

-----------------------------------------------------------------------------
(* The way of the packets to a standby. *)

\* What can still arrive, by the state of the master's end, what is in the
\* link, the connection and the posted calls.
Road(end, link, c, calls, s) ==
    IF end = "closed" THEN link ELSE (link \o Unsent(c)) \o Coming(calls, s)
Way(s) == Road(masterEnd[s], toStandby[s], conn[s], posted, s)

\* The parts of the way are sequences of packets.
LEMMA WayParts ==
    ASSUME IInv, LinkInv, NEW s \in Standby
    PROVE  /\ toStandby[s] \in Seq(Packet)
           /\ Coming(posted, s) \in Seq(Packet)
           /\ masterEnd[s] # "closed" =>
                Unsent(conn[s]) \in Seq(Packet) /\ Way(s) = InFlight(s)
           /\ masterEnd[s] = "none" =>
                /\ toStandby[s] = << >> /\ conn[s] = NoConnection
                /\ Unsent(conn[s]) = << >> /\ Way(s) = Coming(posted, s)
           /\ Way(s) \in Seq(Packet)
<1>1. toStandby[s] \in Seq(Packet) /\ masterEnd[s] \in {"none", "open", "closed"}
  BY Zenon, Types
<1>2. Coming(posted, s) \in Seq(Packet)
  BY Zenon, Types, ComingType
<1>3. masterEnd[s] = "none" => /\ toStandby[s] = << >> /\ conn[s] = NoConnection
                               /\ Unsent(conn[s]) = << >>
  BY DEF LinkInv, Unsent, NoConnection
<1>4. masterEnd[s] # "closed" => Unsent(conn[s]) \in Seq(Packet)
  <2>1. << >> \in Seq(Packet)
    OBVIOUS
  <2> QED BY Zenon, <1>1, <1>3, <2>1, OpenConn
<1>5. masterEnd[s] # "closed" => Way(s) = InFlight(s)
  BY Zenon DEF Way, Road, InFlight
<1>6. masterEnd[s] = "none" => Way(s) = Coming(posted, s)
  <2> DEFINE c == Coming(posted, s)
  <2> SUFFICES ASSUME masterEnd[s] = "none" PROVE Way(s) = c
    BY Zenon
  <2>1. c \in Seq(Packet)
    BY Zenon, <1>2
  <2>2. Way(s) = (<< >> \o << >>) \o c
    BY Zenon, <1>3 DEF Way, Road
  <2> HIDE DEF c
  <2>3. (<< >> \o << >>) \o c = c
    BY <2>1
  <2> QED BY Zenon, <2>2, <2>3
<1>7. Way(s) \in Seq(Packet)
  <2> DEFINE a == toStandby[s]
             u == Unsent(conn[s])
             c == Coming(posted, s)
  <2>1. CASE masterEnd[s] = "closed"
    BY Zenon, <1>1, <2>1 DEF Way, Road
  <2>2. CASE masterEnd[s] # "closed"
    <3>1. a \in Seq(Packet) /\ u \in Seq(Packet) /\ c \in Seq(Packet)
      BY Zenon, <1>1, <1>2, <1>4, <2>2
    <3>2. Way(s) = (a \o u) \o c
      BY Zenon, <2>2 DEF Way, Road
    <3> HIDE DEF a, u, c
    <3> QED BY <3>1, <3>2
  <2> QED BY Zenon, <2>1, <2>2
<1> QED BY Zenon, <1>1, <1>2, <1>3, <1>4, <1>5, <1>6, <1>7

\* Nothing happens on the way.
LEMMA SameWay ==
    ASSUME IInv, LinkInv, NEW t \in Standby,
           UNCHANGED posted, masterEnd'[t] = masterEnd[t], toStandby'[t] = toStandby[t],
           conn'[t] = conn[t] \/ Undisturbed(t)
    PROVE  Way(t)' = Way(t)
<1>1. masterEnd[t] \in {"none", "open", "closed"}
  BY Zenon, Types
<1>2. Way(t)' = Road(masterEnd'[t], toStandby'[t], conn'[t], posted', t)
  BY Zenon DEF Way
<1>3. masterEnd[t] # "closed" => Unsent(conn'[t]) = Unsent(conn[t])
  BY Zenon, <1>1 DEF Undisturbed
<1> QED BY Zenon, <1>2, <1>3 DEF Way, Road

\* A connection is accepted: the calls posted before reach it as well.
LEMMA AcceptWay ==
    ASSUME IInv, LinkInv, NEW s \in Standby, Accept(s), NEW t \in Standby
    PROVE  Way(t)' = Way(t)
<1>1. /\ masterEnd[s] = "none"
      /\ masterEnd' = [masterEnd EXCEPT ![s] = "open"]
      /\ conn' = [conn EXCEPT ![s] = [NoConnection EXCEPT !.rd = "pending"]]
      /\ UNCHANGED <<posted, toStandby>>
  BY Zenon DEF Accept
<1>2. CASE t # s
  <2>1. masterEnd'[t] = masterEnd[t] /\ conn'[t] = conn[t] /\ toStandby'[t] = toStandby[t]
    BY Zenon, <1>1, <1>2, Types
  <2> QED BY Zenon, <1>1, <2>1, SameWay
<1>3. CASE t = s
  <2> DEFINE c == [NoConnection EXCEPT !.rd = "pending"]
  <2>1. masterEnd'[s] = "open" /\ conn'[s] = c /\ masterEnd[s] # "closed"
    BY Zenon, <1>1, Types
  <2>2. Unsent(c) = << >>
    BY Zenon DEF Unsent, NoConnection
  <2> HIDE DEF c
  <2>3. Unsent(conn[s]) = << >>
    BY Zenon, <1>1, WayParts
  <2>4. Way(s)' = Road(masterEnd'[s], toStandby'[s], conn'[s], posted', s)
    BY Zenon DEF Way
  <2>5. Way(s)' = (toStandby[s] \o << >>) \o Coming(posted, s)
    BY Zenon, <1>1, <2>1, <2>2, <2>4 DEF Road
  <2>6. Way(s) = (toStandby[s] \o << >>) \o Coming(posted, s)
    BY Zenon, <2>1, <2>3 DEF Way, Road
  <2> QED BY Zenon, <1>3, <2>5, <2>6
<1> QED BY Zenon, <1>2, <1>3

\* A posted call is run: its packet moves on, or is not meant for a connection
\* that is yet to be accepted.
LEMMA DistributesWay ==
    ASSUME IInv, LinkInv, Distributes, NEW t \in Standby
    PROVE  /\ masterEnd[t] # "none" => Way(t)' = Way(t)
           /\ Way(t)' # Way(t) => Way(t) # << >> /\ Way(t)' = Tail(Way(t))
<1> DEFINE a == toStandby[t]
           u == Unsent(conn[t])
           h == Head(posted)
           e == h.packet
           r == Coming(Tail(posted), t)
           c == Coming(posted, t)
<1>1. /\ posted \in Seq(Call) /\ posted # << >> /\ posted' = Tail(posted)
      /\ UNCHANGED <<masterEnd, toStandby>>
  BY Zenon, Types DEF Distributes
<1>2. Tail(posted) \in Seq(Call) /\ h \in Call
  BY <1>1
<1>3. r \in Seq(Packet) /\ e \in Packet
  BY Zenon, <1>2, ComingType DEF Call
<1>4. /\ For(h, t) => c = <<e>> \o r
      /\ ~For(h, t) => c = r
  BY Zenon, <1>1, ComingTail
<1>5. Way(t)' = Road(masterEnd[t], a, conn'[t], Tail(posted), t)
  BY Zenon, <1>1 DEF Way
<1>6. CASE masterEnd[t] = "closed"
  BY Zenon, <1>5, <1>6 DEF Way, Road
<1>7. CASE masterEnd[t] = "none"
  <2>1. conn'[t] = conn[t] /\ u = << >> /\ a = << >>
    BY Zenon, <1>7, WayParts DEF Distributes
  <2>2. Way(t)' = (<< >> \o << >>) \o r
    BY Zenon, <1>5, <1>7, <2>1 DEF Road
  <2>3. Way(t) = c
    BY Zenon, <1>7, WayParts
  <2> HIDE DEF r, c, e
  <2>4. Way(t)' = r
    BY <1>3, <2>2
  <2>5. (<<e>> \o r) # << >> /\ Tail(<<e>> \o r) = r
    BY <1>3
  <2> QED BY Zenon, <1>4, <1>7, <2>3, <2>4, <2>5
<1>8. CASE masterEnd[t] = "open"
  <2>1. a \in Seq(Packet) /\ u \in Seq(Packet)
    BY Zenon, <1>8, WayParts
  <2>2. Unsent(conn'[t]) = IF For(h, t) THEN Append(u, e) ELSE u
    BY Zenon, <1>8 DEF Distributes
  <2>3. Way(t)' = (a \o Unsent(conn'[t])) \o r
    BY Zenon, <1>5, <1>8 DEF Road
  <2>4. Way(t) = (a \o u) \o c
    BY Zenon, <1>8 DEF Way, Road
  <2> HIDE DEF a, u, r, c, e, h
  <2>5. (a \o Append(u, e)) \o r = (a \o u) \o (<<e>> \o r)
    <3>1. a \o Append(u, e) = Append(a \o u, e)
      BY <1>3, <2>1, ConcatAppend
    <3> DEFINE b == a \o u
    <3>2. b \in Seq(Packet)
      BY <2>1
    <3> HIDE DEF b
    <3>3. Append(b, e) \o r = b \o (<<e>> \o r)
      BY <1>3, <3>2, AppendConcat
    <3> QED BY Zenon, <3>1, <3>3 DEF b
  <2>6. Way(t)' = Way(t)
    BY Zenon, <1>4, <2>2, <2>3, <2>4, <2>5
  <2> QED BY Zenon, <2>6
<1> QED BY Zenon, <1>6, <1>7, <1>8, Types

\* A packet is handed to the kernel.  It stays on the way unless the standby
\* has closed or the network has cut the connection.
LEMMA SendsWay ==
    ASSUME IInv, LinkInv, NEW s \in Standby, Sends(s), NEW t \in Standby
    PROVE  /\ t # s \/ ~(standbyEnd[s] = "closed" \/ s \in cut) => Way(t)' = Way(t)
           /\ Sub(Way(t)', Way(t))
<1> DEFINE a == toStandby[s]
           u == Unsent(conn[s])
           e == Head(u)
           r == Tail(u)
           c == Coming(posted, s)
           gone == standbyEnd[s] = "closed" \/ s \in cut
<1>1. /\ masterEnd[s] = "open" /\ u # << >>
      /\ toStandby' = Deliver(toStandby, s, e, standbyEnd[s] = "closed")
      /\ Unsent(conn'[s]) = r
      /\ \A x \in Standby \ {s} : conn'[x] = conn[x]
      /\ UNCHANGED <<posted, masterEnd>>
  BY Zenon DEF Sends
<1>2. toStandby' = IF gone THEN toStandby ELSE [toStandby EXCEPT ![s] = Append(@, e)]
  BY Zenon, <1>1 DEF Deliver
<1>3. /\ \A x \in Standby \ {s} : toStandby'[x] = toStandby[x]
      /\ toStandby'[s] = IF gone THEN a ELSE Append(a, e)
  BY Zenon, <1>2, Types
<1>4. CASE t # s
  <2>1. Way(t)' = Way(t)
    BY Zenon, <1>1, <1>3, <1>4, SameWay
  <2> QED BY Zenon, <1>4, <2>1, SubSame
<1>5. CASE t = s
  <2>1. a \in Seq(Packet) /\ u \in Seq(Packet) /\ c \in Seq(Packet)
    BY Zenon, <1>1, WayParts
  <2>2. Way(s)' = Road(masterEnd'[s], toStandby'[s], conn'[s], posted', s)
    BY Zenon DEF Way
  <2>3. Way(s)' = (toStandby'[s] \o r) \o c
    BY Zenon, <1>1, <2>2 DEF Road
  <2>4. Way(s) = (a \o u) \o c
    BY Zenon, <1>1 DEF Way, Road
  <2> HIDE DEF a, c
  <2>5. e \in Packet /\ r \in Seq(Packet) /\ u = <<e>> \o r
    <3> HIDE DEF u
    <3> QED BY Zenon, <1>1, <2>1, HeadAndTail
  <2> HIDE DEF u, e, r
  <2>6. Append(a, e) \o r = a \o u
    BY <2>1, <2>5, AppendConcat
  <2>7. CASE ~gone
    <3>1. Way(s)' = Way(s)
      BY Zenon, <1>3, <2>3, <2>4, <2>6, <2>7
    <3> QED BY Zenon, <1>5, <3>1, SubSame
  <2>8. CASE gone
    <3>1. Sub(a \o r, a \o u)
      BY Zenon, <2>1, <2>5, SubBoth
    <3>2. a \o r \in Seq(Packet) /\ a \o u \in Seq(Packet)
      BY <2>1, <2>5
    <3> DEFINE x == a \o r
               y == a \o u
    <3>3. x \in Seq(Packet) /\ y \in Seq(Packet) /\ Sub(x, y)
      BY Zenon, <3>1, <3>2
    <3>4. Way(s)' = x \o c /\ Way(s) = y \o c
      BY Zenon, <1>3, <2>3, <2>4, <2>8
    <3> HIDE DEF x, y
    <3>5. Sub(x \o c, y \o c)
      BY Zenon, <2>1, <3>3, SubConcat
    <3>6. Sub(Way(s)', Way(s))
      BY Zenon, <3>4, <3>5
    <3> QED BY Zenon, <1>5, <2>8, <3>6
  <2> QED BY Zenon, <2>7, <2>8
<1> QED BY Zenon, <1>4, <1>5

\* What is in the link stays on the way when the master's end is closed.
LEMMA ClosedWay ==
    ASSUME IInv, LinkInv, NEW t \in Standby,
           masterEnd'[t] = "closed", toStandby'[t] = toStandby[t]
    PROVE  Sub(Way(t)', Way(t))
<1>1. Way(t)' = toStandby[t]
  <2>1. Way(t)' = Road(masterEnd'[t], toStandby'[t], conn'[t], posted', t)
    BY Zenon DEF Way
  <2> QED BY Zenon, <2>1 DEF Road
<1>2. CASE masterEnd[t] = "closed"
  <2>1. Way(t) = toStandby[t]
    BY Zenon, <1>2 DEF Way, Road
  <2> QED BY Zenon, <1>1, <2>1, SubSame
<1>3. CASE masterEnd[t] # "closed"
  <2> DEFINE a == toStandby[t]
             u == Unsent(conn[t])
             c == Coming(posted, t)
  <2>1. a \in Seq(Packet) /\ u \in Seq(Packet) /\ c \in Seq(Packet)
    BY Zenon, <1>3, WayParts
  <2>2. Way(t) = (a \o u) \o c
    BY Zenon, <1>3 DEF Way, Road
  <2> HIDE DEF u, c
  <2>3. Way(t)' = a
    BY Zenon, <1>1
  <2> HIDE DEF a
  <2> DEFINE b == u \o c
  <2>4. b \in Seq(Packet) /\ Way(t) = a \o b
    BY <2>1, <2>2, ConcatAssoc
  <2> HIDE DEF b
  <2>5. Sub(a, a \o b)
    BY Zenon, <2>1, <2>4, SubFirst
  <2> QED BY Zenon, <2>3, <2>4, <2>5
<1> QED BY Zenon, <1>2, <1>3

\* A call that is posted is the last on the way of the standbys it is for.
LEMMA RoadAppend ==
    ASSUME NEW end, end # "closed", NEW link \in Seq(Packet), NEW c,
           Unsent(c) \in Seq(Packet), NEW calls \in Seq(Call), NEW k \in Call, NEW s
    PROVE  Road(end, link, c, Append(calls, k), s) =
             IF For(k, s) THEN Append(Road(end, link, c, calls, s), k.packet)
             ELSE Road(end, link, c, calls, s)
<1> DEFINE u == Unsent(c)
           x == Coming(calls, s)
           e == k.packet
           b == link \o u
<1>1. x \in Seq(Packet) /\ e \in Packet
  BY Zenon, ComingType DEF Call
<1>2. Coming(Append(calls, k), s) = IF For(k, s) THEN Append(x, e) ELSE x
  BY Zenon, ComingAppend
<1>3. b \in Seq(Packet)
  OBVIOUS
<1>4. /\ Road(end, link, c, Append(calls, k), s) = b \o Coming(Append(calls, k), s)
      /\ Road(end, link, c, calls, s) = b \o x
  BY Zenon DEF Road
<1> HIDE DEF u, x, e, b
<1>5. b \o Append(x, e) = Append(b \o x, e)
  BY <1>1, <1>3, ConcatAppend
<1> QED BY Zenon, <1>2, <1>4, <1>5 DEF e

=============================================================================
