----------------------------- MODULE FlowProofs -----------------------------
(***************************************************************************)
(* The flow of metadata from the master to the standbys: what is published *)
(* comes last on the way, all that packets show is complete, and a standby *)
(* that has lost the master shows its own files only.                      *)
(***************************************************************************)
EXTENDS StepProofs

-----------------------------------------------------------------------------
(* What is published comes last on the way. *)

\* A packet with the new metadata, as the network thread sees them.
Published(u) == u \in Packet /\ u.tree = dirTree' /\ u.hosts \in HostsSeen(hosts')

\* The call that sendUpdate posts publishes the metadata to everybody.
LEMMA UpdatePublished ==
    ASSUME IInv, IInv', NEW seen \in HostsSeen(hosts')
    PROVE  LET c == Update(dirTree', seen)
           IN  c \in Call /\ Published(c.packet) /\ \A t : For(c, t)
<1> DEFINE c == Update(dirTree', seen)
<1>1. dirTree' \in Tree /\ hosts' \in Hosts
  BY Zenon DEF IInv, TypeInv, MasterType
<1>2. seen \in Hosts
  BY Zenon, <1>1, HostsSeenType
<1>3. c \in Call
  BY Zenon, <1>1, <1>2, UpdateType
<1>4. c.call = "write" /\ c.packet.tree = dirTree' /\ c.packet.hosts = seen
  BY Zenon DEF Update, UpdatePacket
<1> HIDE DEF c
<1>5. c.packet \in Packet
  BY Zenon, <1>3 DEF Call
<1> QED BY Zenon, <1>3, <1>4, <1>5 DEF Published, For, c

\* Closing a connection: its way loses packets, and the others' get the update.
LEMMA ClosesWay ==
    ASSUME IInv, LinkInv, IInv', NEW s \in Standby, Closes(s), NEW t \in Standby
    PROVE  /\ t = s => Sub(Way(t)', Way(t))
           /\ t # s /\ (conn[s].id = 0 \/ masterEnd[t] = "closed") => Way(t)' = Way(t)
           /\ t # s /\ conn[s].id # 0 /\ masterEnd[t] # "closed" =>
                \E u : Published(u) /\ Way(t)' = Append(Way(t), u)
<1>1. /\ masterEnd' = [masterEnd EXCEPT ![s] = "closed"]
      /\ DisconnectSlave(conn[s].id)
      /\ \A x \in Standby \ {s} : conn'[x] = conn[x]
      /\ UNCHANGED <<hosts, toStandby>>
  BY Zenon DEF Closes
<1>2. masterEnd'[s] = "closed" /\ \A x \in Standby \ {s} : masterEnd'[x] = masterEnd[x]
  BY Zenon, <1>1, Types
<1>3. CASE t = s
  BY Zenon, <1>1, <1>2, <1>3, ClosedWay
<1>4. CASE t # s
  <2>1. /\ masterEnd'[t] = masterEnd[t] /\ conn'[t] = conn[t]
        /\ toStandby'[t] = toStandby[t]
    BY Zenon, <1>1, <1>2, <1>4
  <2>2. Way(t)' = Road(masterEnd[t], toStandby[t], conn[t], posted', t)
    BY Zenon, <2>1 DEF Way
  <2>3. CASE conn[s].id = 0
    <3>1. UNCHANGED posted
      BY Zenon, <1>1, <2>3 DEF DisconnectSlave
    <3>2. Way(t)' = Way(t)
      BY Zenon, <2>1, <3>1, SameWay
    <3> QED BY Zenon, <1>4, <2>3, <3>2
  <2>4. CASE masterEnd[t] = "closed"
    <3>1. Way(t)' = Way(t)
      BY Zenon, <2>2, <2>4 DEF Way, Road
    <3> QED BY Zenon, <1>4, <2>4, <3>1
  <2>5. CASE conn[s].id # 0 /\ masterEnd[t] # "closed"
    <3>1. PICK seen \in HostsSeen(hosts) : posted' = Append(posted, Update(dirTree', seen))
      BY Zenon, <1>1, <2>5 DEF DisconnectSlave
    <3>2. seen \in HostsSeen(hosts')
      BY Zenon, <1>1, <3>1
    <3> DEFINE c == Update(dirTree', seen)
    <3>3. c \in Call /\ Published(c.packet) /\ For(c, t)
      BY Zenon, <3>2, UpdatePublished
    <3> HIDE DEF c
    <3>4. posted' = Append(posted, c)
      BY Zenon, <3>1 DEF c
    <3>5. /\ toStandby[t] \in Seq(Packet) /\ Unsent(conn[t]) \in Seq(Packet)
          /\ posted \in Seq(Call)
      BY Zenon, <2>5, WayParts, Types
    <3>6. Way(t)' = Append(Way(t), c.packet)
      BY Zenon, <2>2, <2>5, <3>3, <3>4, <3>5, RoadAppend DEF Way
    <3> QED BY Zenon, <1>4, <2>5, <3>3, <3>6
  <2> QED BY Zenon, <2>3, <2>4, <2>5
<1> QED BY Zenon, <1>3, <1>4

\* Registering a standby: it gets its recognition and the update, the others the update.
LEMMA RegistersWay ==
    ASSUME IInv, LinkInv, IInv', NEW s \in Standby, Registers(s), NEW t \in Standby
    PROVE  /\ masterEnd[t] = "closed" => Way(t)' = Way(t)
           /\ t # s /\ masterEnd[t] # "closed" =>
                \E u : Published(u) /\ Way(t)' = Append(Way(t), u)
           /\ t = s /\ masterEnd[t] # "closed" =>
                \E u, v : /\ Published(u) /\ Published(v)
                          /\ Way(t)' = Append(Append(Way(t), v), u)
<1>1. PICK seen \in HostsSeen(hosts') :
        posted' = posted \o
          <<[call |-> "writeTo", to |-> s,
             packet |-> RecognitionPacket(maxHostId, dirTree', seen)],
            Update(dirTree', seen)>>
  BY Zenon DEF Registers
<1> DEFINE a == [call |-> "writeTo", to |-> s,
                 packet |-> RecognitionPacket(maxHostId, dirTree', seen)]
           b == Update(dirTree', seen)
<1>2. b \in Call /\ Published(b.packet) /\ For(b, t)
  BY Zenon, UpdatePublished
<1>3. /\ a \in Call /\ Published(a.packet) /\ (For(a, t) <=> t = s)
  <2>1. dirTree' \in Tree /\ hosts' \in Hosts /\ maxHostId \in Nat
    BY Zenon DEF IInv, TypeInv, MasterType
  <2>2. seen \in Hosts
    BY Zenon, <2>1, HostsSeenType
  <2> DEFINE r == RecognitionPacket(maxHostId, dirTree', seen)
  <2>3. r \in Packet /\ r.tree = dirTree' /\ r.hosts = seen
    BY Zenon, <2>1, <2>2 DEF RecognitionPacket, Packet
  <2> HIDE DEF r
  <2>4. a = [call |-> "writeTo", to |-> s, packet |-> r]
    BY Zenon DEF r
  <2>5. a \in Call /\ a.packet = r /\ a.call = "writeTo" /\ a.to = s
    BY Zenon, <2>3, <2>4 DEF Call
  <2> HIDE DEF a
  <2> QED BY Zenon, <2>3, <2>5 DEF Published, For
<1> HIDE DEF a, b
<1>4. /\ UNCHANGED <<masterEnd, toStandby>>
      /\ Unsent(conn'[t]) = Unsent(conn[t])
  BY Zenon DEF Registers
<1>5. posted \in Seq(Call) /\ toStandby[t] \in Seq(Packet)
      /\ (masterEnd[t] # "closed" => Unsent(conn[t]) \in Seq(Packet))
  BY Zenon, WayParts, Types
<1>6. posted' = Append(Append(posted, a), b)
  <2>1. posted' = posted \o <<a, b>>
    BY Zenon, <1>1 DEF a, b
  <2> QED BY <1>2, <1>3, <1>5, <2>1
<1> DEFINE calls == Append(posted, a)
<1>7. calls \in Seq(Call)
  BY <1>3, <1>5
<1>8. Way(t)' = Road(masterEnd[t], toStandby[t], conn[t], posted', t)
  <2>1. Way(t)' = Road(masterEnd[t], toStandby[t], conn'[t], posted', t)
    BY Zenon, <1>4 DEF Way
  <2> QED BY Zenon, <1>4, <2>1 DEF Road
<1>9. CASE masterEnd[t] = "closed"
  BY Zenon, <1>8, <1>9 DEF Way, Road
<1>10. CASE masterEnd[t] # "closed"
  <2> DEFINE way == Road(masterEnd[t], toStandby[t], conn[t], calls, t)
  <2>1. way = IF t = s THEN Append(Way(t), a.packet) ELSE Way(t)
    <3> DEFINE old == Road(masterEnd[t], toStandby[t], conn[t], posted, t)
    <3>1. way = IF For(a, t) THEN Append(old, a.packet) ELSE old
      BY Zenon, <1>3, <1>5, <1>10, RoadAppend
    <3>2. old = Way(t)
      BY Zenon DEF Way
    <3> HIDE DEF old, way
    <3> QED BY Zenon, <1>3, <3>1, <3>2
  <2> HIDE DEF calls
  <2>2. Road(masterEnd[t], toStandby[t], conn[t], Append(calls, b), t) = Append(way, b.packet)
    BY Zenon, <1>2, <1>5, <1>7, <1>10, RoadAppend
  <2>3. Way(t)' = Append(way, b.packet)
    BY Zenon, <1>6, <1>8, <2>2 DEF calls
  <2> HIDE DEF way
  <2> QED BY Zenon, <1>2, <1>3, <1>10, <2>1, <2>3
<1> QED BY Zenon, <1>9, <1>10

\* A standby's steps.
LEMMA ChangesWay ==
    ASSUME IInv, LinkInv, NEW s \in Standby, NEW p \in Process, Changes(s, p),
           NEW t \in Standby
    PROVE  /\ t # s \/ ~(Arrives(s, p) \/ Exits(s, p)) => Way(t)' = Way(t)
           /\ t = s /\ Arrives(s, p) => /\ Way(t) # << >> /\ Way(t)' = Tail(Way(t))
                                        /\ Head(Way(t)) = Head(toStandby[t])
           /\ Sub(Way(t)', Way(t))
<1>1. UNCHANGED <<masterEnd, conn, posted>>
  BY Zenon DEF Changes, masterVars
<1>2. CASE t # s \/ ~(Arrives(s, p) \/ Exits(s, p))
  <2>1. toStandby'[t] = toStandby[t]
    BY Zenon, <1>2, Types DEF Changes, Starts, GoesOn, Arrives, Loses, Exits
  <2>2. Way(t)' = Way(t)
    BY Zenon, <1>1, <2>1, SameWay
  <2>3. ~(t = s /\ Arrives(s, p))
    BY Zenon, <1>2
  <2> QED BY Zenon, <2>2, <2>3, SubSame
<1>3. CASE t = s /\ (Arrives(s, p) \/ Exits(s, p))
  <2> DEFINE a == toStandby[t]
             u == Unsent(conn[t])
             c == Coming(posted, t)
             b == IF masterEnd[t] = "closed" THEN << >> ELSE u \o c
  <2>1. /\ a \in Seq(Packet) /\ c \in Seq(Packet)
        /\ masterEnd[t] # "closed" => u \in Seq(Packet)
    BY Zenon, WayParts
  <2>2. b \in Seq(Packet)
    <3>1. << >> \in Seq(Packet)
      OBVIOUS
    <3> HIDE DEF u, c
    <3> QED BY <2>1, <3>1
  <2>3. \A x \in Seq(Packet) : Road(masterEnd[t], x, conn[t], posted, t) = x \o b
    <3> SUFFICES ASSUME NEW x \in Seq(Packet)
                 PROVE  Road(masterEnd[t], x, conn[t], posted, t) = x \o b
      BY Zenon
    <3>1. CASE masterEnd[t] = "closed"
      BY <3>1 DEF Road
    <3>2. CASE masterEnd[t] # "closed"
      <4>1. Road(masterEnd[t], x, conn[t], posted, t) = (x \o u) \o c
        BY Zenon, <3>2 DEF Road
      <4>2. u \in Seq(Packet)
        BY Zenon, <2>1, <3>2
      <4> HIDE DEF u, c
      <4> QED BY <2>1, <3>2, <4>1, <4>2, ConcatAssoc
    <3> QED BY Zenon, <3>1, <3>2
  <2> HIDE DEF b
  <2>4. Way(t) = a \o b
    BY Zenon, <2>1, <2>3 DEF Way
  <2>5. Way(t)' = Road(masterEnd[t], toStandby'[t], conn[t], posted, t)
    BY Zenon, <1>1 DEF Way
  <2>6. CASE Arrives(s, p)
    <3>1. toStandby'[t] = Tail(a) /\ a # << >>
      BY Zenon, <1>3, <2>6, Types DEF Arrives
    <3> HIDE DEF a
    <3>2. Tail(a) \in Seq(Packet)
      BY <2>1, <3>1
    <3>3. Way(t)' = Tail(a) \o b
      BY Zenon, <2>3, <2>5, <3>1, <3>2
    <3>4. a \o b # << >> /\ Head(a \o b) = Head(a) /\ Tail(a \o b) = Tail(a) \o b
      BY Zenon, <2>1, <2>2, <3>1, HeadTailConcat
    <3>5. Sub(Way(t)', Way(t))
      <4> DEFINE q == a \o b
                 h == Head(q)
                 r == Tail(q)
      <4>1. q \in Seq(Packet) /\ q # << >>
        BY <2>1, <2>2, <3>4
      <4> HIDE DEF q
      <4>2. h \in Packet /\ r \in Seq(Packet) /\ q = <<h>> \o r /\ <<h>> \in Seq(Packet)
        BY <4>1, HeadAndTail
      <4> DEFINE y == <<h>>
      <4>5. y \in Seq(Packet) /\ q = y \o r
        BY Zenon, <4>2
      <4> HIDE DEF r, y
      <4>3. Sub(r, y \o r)
        BY Zenon, <4>2, <4>5, SubLast
      <4>4. Way(t)' = r /\ Way(t) = q
        BY Zenon, <2>4, <3>3, <3>4 DEF q, r
      <4> QED BY Zenon, <4>3, <4>4, <4>5
    <3> QED BY Zenon, <1>3, <2>4, <2>6, <3>3, <3>4, <3>5 DEF a
  <2>7. CASE Exits(s, p) /\ ~Arrives(s, p)
    <3>1. toStandby'[t] = << >>
      BY Zenon, <1>3, <2>7, Types DEF Exits
    <3>2. << >> \in Seq(Packet) /\ << >> \o b = b
      BY <2>2
    <3>3. Way(t)' = b
      BY Zenon, <2>3, <2>5, <3>1, <3>2
    <3> HIDE DEF a
    <3>4. Sub(b, a \o b)
      BY Zenon, <2>1, <2>2, SubLast
    <3> QED BY Zenon, <1>3, <2>4, <2>7, <3>3, <3>4
  <2> QED BY Zenon, <1>3, <2>6, <2>7
<1> QED BY Zenon, <1>2, <1>3

\* The cut of a connection, and stuttering.
LEMMA IdleWay ==
    ASSUME IInv, LinkInv, NEW t \in Standby,
           (\E s \in Standby : NetworkStep(s)) \/ UNCHANGED vars
    PROVE  Way(t)' = Way(t)
<1>1. UNCHANGED <<masterEnd, toStandby, conn, posted>>
  BY Zenon DEF NetworkStep, Cut, vars, masterVars, wireVars
<1> QED BY Zenon, <1>1, SameWay

\* The steps that change the master's tree tell every open connection.
Publishes == \E s \in Standby : Registers(s) \/ (Closes(s) /\ conn[s].id # 0)

\* In sum: packets leave the way of a standby in any step, come to it in the
\* steps that publish, and never change places.
LEMMA WayStep ==
    ASSUME IInv, LinkInv, IInv', [Next]_vars, NEW t \in Standby
    PROVE  \/ Sub(Way(t)', Way(t))
           \/ /\ Publishes
              /\ \E u, v : /\ Published(u) /\ Published(v)
                           /\ \/ Way(t)' = Append(Way(t), u)
                              \/ Way(t)' = Append(Append(Way(t), v), u)
<1>1. ASSUME Way(t)' = Way(t) PROVE Sub(Way(t)', Way(t))
  BY Zenon, <1>1, SubSame
<1>2. CASE MasterDoes /\ UNCHANGED sb
  <2>1. CASE Quiet
    BY Zenon, <1>1, <2>1, SameWay DEF Quiet
  <2>2. CASE MasterHostPushed
    BY Zenon, <1>1, <2>2, SameWay DEF MasterHostPushed, wireVars
  <2>3. CASE MasterGone
    BY Zenon, <2>3, ClosedWay DEF MasterGone
  <2>4. CASE Distributes
    <3>1. CASE Way(t)' = Way(t)
      BY Zenon, <1>1, <3>1
    <3>2. CASE Way(t)' # Way(t)
      <4> DEFINE q == Way(t)
                 h == Head(q)
                 r == Tail(q)
                 y == <<h>>
      <4>1. q \in Seq(Packet) /\ q # << >> /\ Way(t)' = r
        BY Zenon, <2>4, <3>2, DistributesWay, WayParts
      <4> HIDE DEF q
      <4>2. h \in Packet /\ r \in Seq(Packet) /\ q = y \o r /\ y \in Seq(Packet)
        BY <4>1, HeadAndTail
      <4> HIDE DEF r, y
      <4>3. Sub(r, y \o r)
        BY Zenon, <4>2, SubLast
      <4> QED BY Zenon, <4>1, <4>2, <4>3 DEF q
    <3> QED BY Zenon, <3>1, <3>2
  <2>5. ASSUME NEW s \in Standby, Accept(s) PROVE Sub(Way(t)', Way(t))
    BY Zenon, <1>1, <2>5, AcceptWay
  <2>6. ASSUME NEW s \in Standby, Sends(s) PROVE Sub(Way(t)', Way(t))
    BY Zenon, <2>6, SendsWay
  <2>7. ASSUME NEW s \in Standby, Closes(s)
        PROVE  \/ Sub(Way(t)', Way(t))
               \/ Publishes /\ \E u : Published(u) /\ Way(t)' = Append(Way(t), u)
    BY Zenon, <1>1, <2>7, ClosesWay DEF Publishes
  <2>8. ASSUME NEW s \in Standby, Registers(s)
        PROVE  \/ Sub(Way(t)', Way(t))
               \/ /\ Publishes
                  /\ \E u, v : /\ Published(u) /\ Published(v)
                               /\ \/ Way(t)' = Append(Way(t), u)
                                  \/ Way(t)' = Append(Append(Way(t), v), u)
    BY Zenon, <1>1, <2>8, RegistersWay DEF Publishes
  <2> QED BY Zenon, <1>2, <2>1, <2>2, <2>3, <2>4, <2>5, <2>6, <2>7, <2>8 DEF MasterDoes
<1>3. ASSUME NEW s \in Standby, NEW p \in Process, Changes(s, p) PROVE Sub(Way(t)', Way(t))
  BY Zenon, <1>3, ChangesWay
<1>4. CASE (\E s \in Standby : NetworkStep(s)) \/ UNCHANGED vars
  BY Zenon, <1>1, <1>4, IdleWay
<1> QED BY Zenon, <1>2, <1>3, <1>4, Steps

\* The way is a sequence of packets, in every state and the next.
LEMMA WayType ==
    IInv /\ LinkInv => \A s \in Standby : Way(s) \in Seq(Packet)
  BY Zenon, WayParts

\* The same of the next state.
LEMMA WayTypeNext ==
    IInv' /\ LinkInv' => \A s \in Standby : Way(s)' \in Seq(Packet)
<1>1. (IInv /\ LinkInv => \A s \in Standby : Way(s) \in Seq(Packet))'
  BY WayType, PTL
<1> QED BY Zenon, <1>1

\* Nothing is on a way that has less than nothing.
LEMMA SubEmpty ==
    ASSUME NEW r \in Seq(Packet), Sub(r, << >>) PROVE r = << >>
<1> SUFFICES ASSUME r # << >> PROVE FALSE
  BY Zenon
<1>1. 1 \in DOMAIN r /\ 1 <= 1
  OBVIOUS
<1>2. \E k \in DOMAIN << >> : TRUE
  BY Zenon, <1>1 DEF Sub
<1> QED BY <1>2

-----------------------------------------------------------------------------
(* The master's host table. *)

Early == {"init", "started", "pushing"}

\* As long as no standby registered too early, nothing is on its way before the
\* master's main thread has pushed its entry, and from then on the entry at
\* index i has id i - 1.  If standbys start late enough, none registers early.
StartInv ==
    /\ ~raced =>
         /\ main # "colliding"
         /\ main \in Early =>
              /\ hosts = <<Self>> /\ maxHostId = 2
              /\ \A s \in Standby : conn[s].id = 0 /\ Way(s) = << >>
         /\ main = "serving" =>
              Len(hosts) = maxHostId /\ \A i \in 2..Len(hosts) : hosts[i].id = i - 1
    /\ ~EarlyStart =>
         /\ ~raced
         /\ main \in Early => \A s \in Standby : standbyEnd[s] = "none" /\ masterEnd[s] = "none"

\* The master begins with its own files and without connections.
LEMMA StartInit == Init => StartInv
<1> SUFFICES ASSUME Init PROVE StartInv
  BY Zenon
<1>1. /\ main = "init" /\ hosts = <<Self>> /\ maxHostId = 2 /\ ~raced
      /\ \A s \in Standby : conn[s].id = 0 /\ standbyEnd[s] = "none" /\ masterEnd[s] = "none"
  BY Zenon DEF Init, WireInit, MasterInit, NoConnection
<1>2. ASSUME NEW s \in Standby PROVE Way(s) = << >>
  <2>1. IInv /\ LinkInv
    BY Zenon, InitInv, LinkInit
  <2>2. masterEnd[s] = "none" /\ posted = << >>
    BY Zenon DEF Init, WireInit, MasterInit
  <2>3. Way(s) = Coming(posted, s)
    BY Zenon, <2>1, <2>2, WayParts
  <2> QED BY Zenon, <2>2, <2>3, ComingEmpty
<1> QED BY Zenon, <1>1, <1>2 DEF StartInv, Early

\* Nothing goes onto the ways before the first registration.
LEMMA StillEmpty ==
    ASSUME IInv, LinkInv, IInv', LinkInv', [Next]_vars, ~Publishes,
           NEW t \in Standby, Way(t) = << >>
    PROVE  Way(t)' = << >>
<1>1. Sub(Way(t)', << >>)
  BY Zenon, WayStep
<1>2. Way(t)' \in Seq(Packet)
  BY Zenon, WayTypeNext
<1> HIDE DEF Way
<1> QED BY Zenon, <1>1, <1>2, SubEmpty

\* What is published in time goes out with the host table as it is.
LEMMA PublishesAll ==
    ASSUME IInv, LinkInv, StartInv, Publishes, ~raced'
    PROVE  /\ ~raced /\ main = "serving" /\ main' = "serving"
           /\ \A u : Published(u) => u.tree = dirTree' /\ u.hosts = hosts'
<1>1. ~raced /\ main = "serving" /\ main' = "serving"
  <2>1. ASSUME NEW s \in Standby, Registers(s) PROVE ~raced /\ main = "serving" /\ main' = "serving"
    BY Zenon, <2>1 DEF Registers, PushSlaveHost
  <2>2. ASSUME NEW s \in Standby, Closes(s), conn[s].id # 0
        PROVE ~raced /\ main = "serving" /\ main' = "serving"
    <3>1. ~raced /\ main' = main /\ masterEnd[s] = "open"
      BY Zenon, <2>2 DEF Closes
    <3>2. main \in {"init", "started", "pushing", "colliding", "serving", "exited"}
      BY Zenon DEF IInv, TypeInv, MasterType
    <3> QED BY Zenon, <2>2, <3>1, <3>2 DEF LinkInv, StartInv, Early
  <2> QED BY Zenon, <2>1, <2>2 DEF Publishes
<1>2. HostsSeen(hosts') = {hosts'}
  BY Zenon, <1>1 DEF HostsSeen
<1> QED BY Zenon, <1>1, <1>2 DEF Published

\* All but the push and a registration leave the table alone.
LEMMA StartKept ==
    ASSUME IInv, LinkInv, StartInv, IInv', LinkInv', [Next]_vars,
           UNCHANGED <<hosts, maxHostId, raced>>,
           main' = main \/ (main \in Early /\ main' \in Early) \/ main' = "exited",
           \A s \in Standby : conn'[s].id \in {conn[s].id, 0},
           ~EarlyStart /\ main' \in Early =>
             \A s \in Standby : standbyEnd'[s] = "none" /\ masterEnd'[s] = "none"
    PROVE  StartInv'
<1>1. ASSUME ~raced, main \in Early, NEW s \in Standby PROVE Way(s)' = << >>
  <2>1. \A t \in Standby : conn[t].id = 0 /\ Way(t) = << >>
    BY Zenon, <1>1 DEF StartInv
  <2>2. ~Publishes
    BY <2>1, Types DEF Publishes, Registers
  <2> QED BY Zenon, <2>1, <2>2, StillEmpty
<1>2. main' # main => /\ main' # "colliding" /\ main' # "serving"
                      /\ main' \in Early => main \in Early
  BY Zenon DEF Early
<1>3. ASSUME ~raced'
      PROVE  /\ main' # "colliding"
             /\ main' \in Early =>
                  /\ hosts' = <<Self>> /\ maxHostId' = 2
                  /\ \A s \in Standby : conn'[s].id = 0 /\ Way(s)' = << >>
             /\ main' = "serving" =>
                  Len(hosts') = maxHostId' /\ \A i \in 2..Len(hosts') : hosts'[i].id = i - 1
  <2>1. ~raced
    BY Zenon, <1>3
  <2> HIDE DEF Way
  <2>2. main' # "colliding"
    BY Zenon, <2>1, <1>2 DEF StartInv
  <2>3. ASSUME main' \in Early
        PROVE  /\ hosts' = <<Self>> /\ maxHostId' = 2
               /\ \A s \in Standby : conn'[s].id = 0 /\ Way(s)' = << >>
    <3>1. main \in Early
      BY Zenon, <1>2, <2>3
    <3>2. \A s \in Standby : Way(s)' = << >>
      BY Zenon, <1>1, <2>1, <3>1
    <3> QED BY Zenon, <2>1, <3>1, <3>2 DEF StartInv
  <2>4. ASSUME main' = "serving"
        PROVE Len(hosts') = maxHostId' /\ \A i \in 2..Len(hosts') : hosts'[i].id = i - 1
    BY Zenon, <1>2, <2>1, <2>4 DEF StartInv
  <2> QED BY Zenon, <2>2, <2>3, <2>4
<1>4. ~EarlyStart => ~raced'
  BY Zenon DEF StartInv
<1> HIDE DEF Way
<1> QED BY Zenon, <1>3, <1>4 DEF StartInv

\* The master's steps keep StartInv.
LEMMA MasterStart ==
    ASSUME IInv, LinkInv, StartInv, IInv', LinkInv', [Next]_vars, MasterDoes
    PROVE  StartInv'
<1>1. CASE Quiet
  <2>1. \A s \in Standby : conn'[s].id = conn[s].id
    BY Zenon, <1>1 DEF Quiet, Undisturbed
  <2>2. /\ UNCHANGED <<hosts, maxHostId, raced, masterEnd, standbyEnd>>
        /\ main' = main \/ (main \in Early /\ main' \in Early)
    BY Zenon, <1>1 DEF Quiet, Early
  <2> QED BY Zenon, <2>1, <2>2, StartKept DEF StartInv, Early
<1>2. CASE MasterHostPushed
  <2>1. ASSUME ~raced'
        PROVE  Len(hosts') = maxHostId' /\ \A i \in 2..Len(hosts') : hosts'[i].id = i - 1
    <3>1. ~raced /\ main = "pushing" /\ maxHostId' = maxHostId
      BY Zenon, <1>2, <2>1 DEF MasterHostPushed, StartInv
    <3>2. hosts = <<Self>> /\ maxHostId = 2
      BY Zenon, <3>1 DEF StartInv, Early
    <3>3. hosts' = Append(hosts, hosts[1])
      BY Zenon, <1>2, <3>1 DEF MasterHostPushed
    <3>4. hosts \in Seq(Host) /\ Len(hosts) = 1 /\ hosts[1] = Self
      BY Zenon, <3>2, Types DEF Hosts
    <3> DEFINE h == hosts[1]
    <3>5. h \in Host /\ h = Self
      BY <3>4
    <3> HIDE DEF h
    <3>6. hosts \in Seq(Host) /\ hosts' = Append(hosts, h)
      BY Zenon, <3>3, <3>4 DEF h
    <3>7. Len(hosts') = Len(hosts) + 1 /\ hosts'[Len(hosts) + 1] = h
      BY <3>5, <3>6
    <3>8. Len(hosts') = 2 /\ hosts'[2] = Self
      BY <3>4, <3>5, <3>7
    <3>9. Self.id = 1
      BY Zenon DEF Self
    <3> QED BY <3>1, <3>2, <3>8, <3>9
  <2>2. main' = "serving" /\ raced' = raced
    BY Zenon, <1>2 DEF MasterHostPushed
  <2> HIDE DEF Way
  <2> QED BY Zenon, <2>1, <2>2 DEF StartInv, Early
<1>3. CASE MasterGone
  <2>1. \A s \in Standby : conn'[s].id = 0
    BY Zenon, <1>3 DEF MasterGone, NoConnection
  <2> QED BY Zenon, <1>3, <2>1, StartKept DEF MasterGone, Early
<1>4. CASE Distributes
  BY Zenon, <1>4, StartKept DEF Distributes, StartInv
<1>5. ASSUME NEW s \in Standby, Accept(s) PROVE StartInv'
  <2>1. /\ UNCHANGED <<main, hosts, maxHostId, raced, standbyEnd>>
        /\ masterEnd' = [masterEnd EXCEPT ![s] = "open"]
        /\ standbyEnd[s] # "none"
    BY Zenon, <1>5 DEF Accept
  <2>2. \A t \in Standby : conn'[t].id \in {conn[t].id, 0}
    BY Zenon, <1>5, Types DEF Accept, NoConnection
  <2> QED BY Zenon, <2>1, <2>2, StartKept DEF StartInv
<1>6. ASSUME NEW s \in Standby, Sends(s) PROVE StartInv'
  <2>1. \A t \in Standby : conn'[t].id = conn[t].id
    BY Zenon, <1>6 DEF Sends
  <2> QED BY Zenon, <1>6, <2>1, StartKept DEF Sends, StartInv
<1>7. ASSUME NEW s \in Standby, Closes(s) PROVE StartInv'
  <2>1. \A t \in Standby : conn'[t].id \in {conn[t].id, 0}
    BY Zenon, <1>7 DEF Closes
  <2> QED BY Zenon, <1>7, <2>1, StartKept DEF Closes, StartInv
<1>8. ASSUME NEW s \in Standby, Registers(s) PROVE StartInv'
  <2>1. PICK host \in Host : host.id = maxHostId /\ PushSlaveHost(host)
    BY Zenon, <1>8 DEF Registers
  <2>2. maxHostId' = maxHostId + 1 /\ raced' = (raced \/ main # "serving")
    BY Zenon, <1>8, <2>1 DEF Registers, PushSlaveHost
  <2>3. ASSUME ~raced'
        PROVE  /\ main' = "serving"
               /\ Len(hosts') = maxHostId' /\ \A i \in 2..Len(hosts') : hosts'[i].id = i - 1
    <3>1. ~raced /\ main = "serving"
      BY Zenon, <2>2, <2>3
    <3>2. main' = "serving" /\ hosts' = Append(hosts, host)
      BY Zenon, <2>1, <3>1 DEF PushSlaveHost
    <3>3. Len(hosts) = maxHostId /\ \A i \in 2..Len(hosts) : hosts[i].id = i - 1
      BY Zenon, <3>1 DEF StartInv
    <3>4. hosts \in Seq(Host)
      BY Zenon, Types DEF Hosts
    <3> QED BY <2>1, <2>2, <3>2, <3>3, <3>4
  <2>4. ASSUME ~EarlyStart PROVE ~raced'
    <3>1. main \in {"init", "started", "pushing", "colliding", "serving", "exited"}
      BY Zenon DEF IInv, TypeInv, MasterType
    <3>2. masterEnd[s] # "none" /\ main # "exited"
      BY Zenon, <1>8 DEF Registers
    <3>3. ~raced /\ main \notin Early /\ main # "colliding"
      BY Zenon, <2>4, <3>2 DEF StartInv
    <3> QED BY Zenon, <2>2, <3>1, <3>2, <3>3 DEF Early
  <2> HIDE DEF Way
  <2> QED BY Zenon, <2>3, <2>4 DEF StartInv, Early
<1> QED BY Zenon, <1>1, <1>2, <1>3, <1>4, <1>5, <1>6, <1>7, <1>8 DEF MasterDoes

\* Every step keeps StartInv.
LEMMA StartNext ==
    ASSUME IInv, LinkInv, StartInv, IInv', LinkInv', [Next]_vars
    PROVE  StartInv'
<1>1. ASSUME NEW s \in Standby, NEW p \in Process, Changes(s, p) PROVE StartInv'
  <2>1. UNCHANGED <<main, hosts, maxHostId, raced, conn, masterEnd>>
    BY Zenon, <1>1 DEF Changes, masterVars
  <2>2. ASSUME ~EarlyStart, main \in Early, NEW t \in Standby PROVE standbyEnd'[t] = "none"
    <3>1. standbyEnd[t] = "none" /\ standbyEnd[s] = "none" /\ sb[s].main = "init"
      BY Zenon, <2>2 DEF StartInv, LinkInv
    <3>2. ~Starts(s, p) /\ ~Exits(s, p)
      BY Zenon, <2>2, <3>1 DEF Starts, Exits, Early
    <3>3. UNCHANGED standbyEnd \/ standbyEnd' = SocketClosed(s)
      BY Zenon, <1>1, <3>1, <3>2 DEF Changes, GoesOn, Arrives, Loses
    <3> QED BY Zenon, <3>1, <3>3, Types DEF SocketClosed
  <2> QED BY Zenon, <2>1, <2>2, StartKept DEF StartInv
<1>2. CASE (\E s \in Standby : NetworkStep(s)) \/ UNCHANGED vars
  <2>1. UNCHANGED <<main, hosts, maxHostId, raced, conn, masterEnd, standbyEnd>>
    BY Zenon, <1>2 DEF NetworkStep, Cut, vars, masterVars, wireVars
  <2> QED BY Zenon, <2>1, StartKept DEF StartInv
<1> QED BY Zenon, <1>1, <1>2, Steps, MasterStart

-----------------------------------------------------------------------------
(* What packets bring and standbys show. *)

\* A whole root child has one owner.
Uniform(t) == \A p \in DOMAIN t : t[p].host_id = t[Top(p)].host_id

\* The host of every node is found where UserFS::read looks for it.
Resolves(t, hs) ==
    \A p \in DOMAIN t : t[p].host_id + 1 <= Len(hs) /\ hs[t[p].host_id + 1].id = t[p].host_id

\* The process shows its own files only.
Own(p) == \A q \in DOMAIN p.dirTree : p.dirTree[q].host_id = p.hostId

\* Every packet and every standby's tree fits its host table, if there was no
\* race; and a standby whose connection has failed is alone, or has a failed
\* read left that will make it so.
ViewInv ==
    \A s \in Standby :
        /\ \A i \in DOMAIN Way(s) :
             /\ Uniform(Way(s)[i].tree)
             /\ ~raced => Resolves(Way(s)[i].tree, Way(s)[i].hosts)
        /\ Uniform(sb[s].dirTree)
        /\ ~raced => Resolves(sb[s].dirTree, sb[s].hosts)
        /\ sb[s].main \notin {"init", "exited"} /\ standbyEnd[s] \in {"failed", "closed"} =>
             ~sb[s].waiting /\ (sb[s].rd = "err" \/ Own(sb[s]))

\* What removeNotOf leaves.
LEMMA RemoveNotOfLeaves ==
    ASSUME NEW t \in Tree, NEW h \in Nat, NEW p \in DOMAIN RemoveNotOf(t, h)
    PROVE  /\ p \in DOMAIN t /\ t[Top(p)].host_id = h
           /\ RemoveNotOf(t, h)[p] = t[p]
           /\ RemoveNotOf(t, h)[Top(p)] = t[Top(p)]
<1> DEFINE d == {q \in DOMAIN t : t[Top(q)].host_id = h}
<1>1. RemoveNotOf(t, h) = [q \in d |-> t[q]]
  BY Zenon DEF RemoveNotOf, Restrict
<1>2. p \in d
  BY Zenon, <1>1
<1>3. Top(p) \in DOMAIN t /\ p \in Path
  BY Zenon, <1>2, TreeElim
<1>4. Top(Top(p)) = Top(p)
  BY Zenon, <1>3, TopTop
<1>5. Top(p) \in d
  BY Zenon, <1>2, <1>3, <1>4
<1> QED BY Zenon, <1>1, <1>2, <1>5

\* A standby that is left alone shows some of the files that it showed before.
LEMMA LeftAlone ==
    ASSUME NEW t \in Tree, NEW h \in Nat, Uniform(t)
    PROVE  LET r == RemoveNotOf(t, h)
           IN  /\ Uniform(r)
               /\ \A p \in DOMAIN r : r[p].host_id = h
               /\ \A hs : Resolves(t, hs) => Resolves(r, hs)
<1> DEFINE r == RemoveNotOf(t, h)
<1>1. \A p \in DOMAIN r : /\ p \in DOMAIN t /\ t[Top(p)].host_id = h
                          /\ r[p] = t[p] /\ r[Top(p)] = t[Top(p)]
  BY Zenon, RemoveNotOfLeaves
<1> HIDE DEF r
<1>2. Uniform(r) /\ \A p \in DOMAIN r : r[p].host_id = h
  BY Zenon, <1>1 DEF Uniform
<1>3. ASSUME NEW hs, Resolves(t, hs) PROVE Resolves(r, hs)
  BY Zenon, <1>1, <1>3 DEF Resolves
<1> QED BY Zenon, <1>2, <1>3 DEF r

\* A registration before its time is remembered.
LEMMA RacedStays ==
    ASSUME IInv, LinkInv, [Next]_vars, ~raced' PROVE ~raced
<1>1. ASSUME MasterDoes PROVE ~raced
  BY Zenon, <1>1 DEF MasterDoes, Quiet, MasterHostPushed, MasterGone, Distributes, Accept, Sends,
              Closes, Registers, PushSlaveHost
<1> QED BY Zenon, <1>1, Steps DEF Changes, NetworkStep, vars, masterVars

\* An element of a sequence that is one longer.
LEMMA AppendIndex ==
    ASSUME NEW q \in Seq(Packet), NEW u \in Packet, NEW i \in DOMAIN Append(q, u)
    PROVE  \/ i \in DOMAIN q /\ Append(q, u)[i] = q[i]
           \/ i = Len(q) + 1 /\ Append(q, u)[i] = u
  OBVIOUS

\* Where a packet on its way comes from.
LEMMA WayFrom ==
    ASSUME IInv, LinkInv, IInv', LinkInv', [Next]_vars, NEW t \in Standby,
           NEW i \in DOMAIN Way(t)'
    PROVE  \/ \E k \in DOMAIN Way(t) : Way(t)'[i] = Way(t)[k]
           \/ Publishes /\ Published(Way(t)'[i])
<1>1. CASE Sub(Way(t)', Way(t))
  <2>1. i <= i
    <3>1. Way(t)' \in Seq(Packet)
      BY Zenon, WayTypeNext
    <3> HIDE DEF Way
    <3> QED BY <3>1
  <2> QED BY Zenon, <1>1, <2>1 DEF Sub
<1>2. ASSUME Publishes, NEW u, NEW v, Published(u), Published(v),
             \/ Way(t)' = Append(Way(t), u)
             \/ Way(t)' = Append(Append(Way(t), v), u)
      PROVE  \/ \E k \in DOMAIN Way(t) : Way(t)'[i] = Way(t)[k]
             \/ Publishes /\ Published(Way(t)'[i])
  <2>1. Way(t) \in Seq(Packet) /\ u \in Packet /\ v \in Packet
    BY Zenon, <1>2, WayType DEF Published
  <2> DEFINE q == Way(t)
             r == Way(t)'
  <2> HIDE DEF q, r
  <2>2. \/ \E k \in DOMAIN q : r[i] = q[k]
        \/ r[i] = u \/ r[i] = v
    <3>1. q \in Seq(Packet) /\ i \in DOMAIN r /\ (r = Append(q, u) \/ r = Append(Append(q, v), u))
      BY Zenon, <1>2, <2>1 DEF q, r
    <3> DEFINE a == Append(q, v)
    <3>2. a \in Seq(Packet)
      BY <2>1, <3>1
    <3>3. ASSUME NEW k \in DOMAIN a PROVE (k \in DOMAIN q /\ a[k] = q[k]) \/ a[k] = v
      BY Zenon, <2>1, <3>1, <3>3, AppendIndex
    <3> HIDE DEF a
    <3>4. CASE r = Append(q, u)
      BY Zenon, <2>1, <3>1, <3>4, AppendIndex
    <3>5. CASE r = Append(a, u)
      BY Zenon, <2>1, <3>1, <3>2, <3>3, <3>5, AppendIndex
    <3> QED BY Zenon, <3>1, <3>4, <3>5 DEF a
  <2> QED BY Zenon, <1>2, <2>2 DEF q, r
<1> QED BY Zenon, <1>1, <1>2, WayStep

\* Where a standby's files and host table come from.
LEMMA ViewFrom ==
    ASSUME IInv, LinkInv, [Next]_vars, NEW t \in Standby
    PROVE  \/ /\ sb'[t].dirTree = sb[t].dirTree /\ sb'[t].hosts = sb[t].hosts
              /\ sb'[t].hostId = sb[t].hostId
           \/ /\ Way(t) # << >> /\ Way(t)' = Tail(Way(t))
              /\ sb'[t].dirTree = Way(t)[1].tree /\ sb'[t].hosts = Way(t)[1].hosts
           \/ /\ sb'[t].dirTree = RemoveNotOf(sb[t].dirTree, sb[t].hostId)
              /\ sb'[t].hosts = sb[t].hosts /\ sb'[t].hostId = sb[t].hostId
<1>1. ASSUME NEW s \in Standby, NEW p \in Process, Changes(s, p), s = t
      PROVE  \/ SameFiles(t, p)
             \/ /\ Way(t) # << >> /\ Way(t)' = Tail(Way(t))
                /\ p.dirTree = Way(t)[1].tree /\ p.hosts = Way(t)[1].hosts
             \/ /\ p.dirTree = RemoveNotOf(sb[t].dirTree, sb[t].hostId)
                /\ p.hosts = sb[t].hosts /\ p.hostId = sb[t].hostId
  <2>1. CASE Arrives(s, p)
    <3>1. /\ Way(t) # << >> /\ Way(t)' = Tail(Way(t))
          /\ p.dirTree = Head(Way(t)).tree /\ p.hosts = Head(Way(t)).hosts
      BY Zenon, <1>1, <2>1, ChangesWay DEF Arrives
    <3>2. Head(Way(t)) = Way(t)[1]
      OBVIOUS
    <3> QED BY Zenon, <3>1, <3>2
  <2> QED BY Zenon, <1>1, <2>1 DEF Changes, Starts, GoesOn, Loses, Exits
<1>2. ASSUME NEW s \in Standby, NEW p \in Process, Changes(s, p)
      PROVE  sb'[t] = IF s = t THEN p ELSE sb[t]
  BY Zenon, <1>2, Types DEF Changes
<1>3. ASSUME ~\E s \in Standby : \E p \in Process : Changes(s, p) PROVE sb' = sb
  BY Zenon, <1>3, Steps DEF NetworkStep, vars
<1> QED BY Zenon, <1>1, <1>2, <1>3 DEF SameFiles

\* The files a process starts with are its own.
LEMMA ViewInit == Init => ViewInv
<1> SUFFICES ASSUME Init, NEW s \in Standby
             PROVE  /\ DOMAIN Way(s) = {} /\ sb[s].main = "init"
                    /\ Uniform(sb[s].dirTree) /\ Resolves(sb[s].dirTree, sb[s].hosts)
  BY Zenon DEF ViewInv
<1>1. Way(s) = << >>
  BY Zenon, StartInit DEF StartInv, Early, Init, MasterInit
<1> DEFINE t == InitDirTree(Shared[s], 0)
           h == [id |-> 0, address |-> Master, working_dir |-> s]
<1>2. sb[s].main = "init" /\ sb[s].dirTree = t /\ sb[s].hosts = <<h>>
  BY Zenon DEF Init, StandbyInit
<1>3. t \in Tree
  BY Zenon, InitDirTreeType DEF Machine
<1>4. \A p \in DOMAIN t : t[p].host_id = 0
  BY Zenon DEF InitDirTree
<1> HIDE DEF t
<1>5. Uniform(t)
  BY Zenon, <1>3, <1>4, TreeElim DEF Uniform
<1>6. h.id = 0
  BY Zenon
<1> HIDE DEF h
<1>7. Len(<<h>>) = 1 /\ <<h>>[1].id = 0
  BY Zenon, <1>6
<1>8. Resolves(t, <<h>>)
  BY <1>4, <1>7 DEF Resolves
<1>9. DOMAIN Way(s) = {}
  BY <1>1
<1> QED BY Zenon, <1>2, <1>5, <1>8, <1>9

\* The master's own metadata, once its main thread has pushed its entry.
LEMMA MasterResolves ==
    IInv /\ StartInv /\ main = "serving" =>
        Uniform(dirTree) /\ (~raced => Resolves(dirTree, hosts))
<1> SUFFICES ASSUME IInv, StartInv, main = "serving"
             PROVE  Uniform(dirTree) /\ (~raced => Resolves(dirTree, hosts))
  BY Zenon
<1>1. Uniform(dirTree)
  BY Zenon DEF IInv, OwnerInv, Uniform
<1>2. ASSUME ~raced, NEW p \in DOMAIN dirTree
      PROVE  /\ dirTree[p].host_id + 1 <= Len(hosts)
             /\ hosts[dirTree[p].host_id + 1].id = dirTree[p].host_id
  <2>1. Len(hosts) = maxHostId /\ \A i \in 2..Len(hosts) : hosts[i].id = i - 1
    BY Zenon, <1>2 DEF StartInv
  <2>2. maxHostId \in Nat /\ maxHostId >= 2
    BY Zenon, Types DEF IInv, OwnerInv
  <2>3. \/ dirTree[p].host_id = 1
        \/ \E s \in Standby : dirTree[p].host_id = conn[s].id /\ conn[s].id # 0
    BY Zenon DEF IInv, OwnerInv
  <2>4. \A s \in Standby : conn[s].id # 0 => conn[s].id \in 2..(maxHostId - 1)
    BY Zenon DEF IInv, OwnerInv
  <2>5. dirTree[p].host_id \in 1..(maxHostId - 1)
    BY <2>2, <2>3, <2>4
  <2> DEFINE h == dirTree[p].host_id
  <2>6. h \in 1..(maxHostId - 1)
    BY Zenon, <2>5
  <2> HIDE DEF h
  <2>7. h + 1 \in 2..Len(hosts) /\ h + 1 <= Len(hosts) /\ (h + 1) - 1 = h
    BY <2>1, <2>2, <2>6
  <2>8. h + 1 <= Len(hosts) /\ hosts[h + 1].id = h
    BY Zenon, <2>1, <2>7
  <2> QED BY Zenon, <2>8 DEF h
<1> QED BY Zenon, <1>1, <1>2 DEF Resolves

\* The same after a step.
LEMMA MasterResolvesNext ==
    ASSUME IInv', StartInv', main' = "serving"
    PROVE  Uniform(dirTree') /\ (~raced' => Resolves(dirTree', hosts'))
<1>1. (IInv /\ StartInv /\ main = "serving"
        => Uniform(dirTree) /\ (~raced => Resolves(dirTree, hosts)))'
  BY MasterResolves, PTL
<1> QED BY Zenon, <1>1 DEF Uniform, Resolves

\* The packets' part of ViewInv.
LEMMA PacketsNext ==
    ASSUME IInv, LinkInv, StartInv, ViewInv, IInv', LinkInv', StartInv', [Next]_vars,
           NEW s \in Standby, NEW i \in DOMAIN Way(s)'
    PROVE  /\ Uniform(Way(s)'[i].tree)
           /\ ~raced' => Resolves(Way(s)'[i].tree, Way(s)'[i].hosts)
<1> DEFINE q == Way(s)
           u == Way(s)'[i]
<1>1. CASE \E k \in DOMAIN q : u = q[k]
  <2>1. PICK k \in DOMAIN q : u = q[k]
    BY Zenon, <1>1
  <2>2. Uniform(q[k].tree) /\ (~raced => Resolves(q[k].tree, q[k].hosts))
    BY Zenon, <2>1 DEF ViewInv
  <2> QED BY Zenon, <2>1, <2>2, RacedStays
<1>2. CASE Publishes /\ Published(u)
  <2>1. u.tree = dirTree'
    BY Zenon, <1>2 DEF Published
  <2>2. Uniform(dirTree')
    BY Zenon DEF IInv, OwnerInv, Uniform
  <2>3. ASSUME ~raced' PROVE Resolves(u.tree, u.hosts)
    <3>1. main' = "serving" /\ u.tree = dirTree' /\ u.hosts = hosts'
      BY Zenon, <1>2, <2>3, PublishesAll
    <3>2. Resolves(dirTree', hosts')
      BY Zenon, <2>3, <3>1, MasterResolvesNext
    <3> QED BY Zenon, <3>1, <3>2
  <2> QED BY Zenon, <2>1, <2>2, <2>3
<1> QED BY Zenon, <1>1, <1>2, WayFrom

\* The standbys' part.
LEMMA ViewsNext ==
    ASSUME IInv, LinkInv, StartInv, ViewInv, [Next]_vars, NEW s \in Standby
    PROVE  /\ Uniform(sb'[s].dirTree)
           /\ ~raced' => Resolves(sb'[s].dirTree, sb'[s].hosts)
<1> DEFINE v == sb[s]
           w == sb'[s]
           q == Way(s)
<1>1. Uniform(v.dirTree) /\ (~raced => Resolves(v.dirTree, v.hosts))
  BY Zenon DEF ViewInv
<1>2. CASE w.dirTree = v.dirTree /\ w.hosts = v.hosts
  BY Zenon, <1>1, <1>2, RacedStays
<1>3. CASE /\ q # << >> /\ w.dirTree = q[1].tree /\ w.hosts = q[1].hosts
  <2>1. 1 \in DOMAIN q
    <3>1. q \in Seq(Packet)
      BY Zenon, WayType
    <3> HIDE DEF q
    <3> QED BY <1>3, <3>1
  <2>2. Uniform(q[1].tree) /\ (~raced => Resolves(q[1].tree, q[1].hosts))
    BY Zenon, <2>1 DEF ViewInv
  <2> QED BY Zenon, <1>3, <2>2, RacedStays
<1>4. CASE w.dirTree = RemoveNotOf(v.dirTree, v.hostId) /\ w.hosts = v.hosts
  <2>1. v.dirTree \in Tree /\ v.hostId \in Nat
    BY Zenon, Types DEF Process
  <2> QED BY Zenon, <1>1, <1>4, <2>1, LeftAlone, RacedStays
<1> QED BY Zenon, <1>2, <1>3, <1>4, ViewFrom

\* The part about standbys whose connection has failed.
LEMMA AloneNext ==
    ASSUME IInv, LinkInv, ViewInv, [Next]_vars, NEW t \in Standby,
           sb'[t].main \notin {"init", "exited"}, standbyEnd'[t] \in {"failed", "closed"}
    PROVE  ~sb'[t].waiting /\ (sb'[t].rd = "err" \/ Own(sb'[t]))
<1>1. ASSUME sb[t].main \notin {"init", "exited"}, standbyEnd[t] \in {"failed", "closed"}
      PROVE  ~sb[t].waiting /\ (sb[t].rd = "err" \/ Own(sb[t]))
  BY Zenon, <1>1 DEF ViewInv
<1>2. CASE sb'[t] = sb[t] /\ standbyEnd'[t] = standbyEnd[t]
  BY Zenon, <1>1, <1>2
<1>3. ASSUME MasterDoes PROVE UNCHANGED standbyEnd
  BY Zenon, <1>3 DEF MasterDoes, Quiet, MasterHostPushed, MasterGone, Distributes, Accept, Sends,
              Closes, Registers, wireVars
<1>4. ASSUME NEW p \in Process, Changes(t, p)
      PROVE  ~p.waiting /\ (p.rd = "err" \/ Own(p))
  <2>0. sb'[t] = p
    BY Zenon, <1>4, Types DEF Changes
  <2>1. CASE Starts(t, p)
    BY Zenon, <2>1, Types DEF Starts
  <2>2. CASE GoesOn(t, p)
    <3>1. standbyEnd'[t] = standbyEnd[t] /\ p.rd = sb[t].rd
      BY Zenon, <2>2, Types DEF GoesOn
    <3>2. sb[t].main \notin {"init", "exited"} /\ p.waiting = sb[t].waiting
      BY Zenon, <2>0, <2>2 DEF GoesOn
    <3>3. Own(sb[t]) => Own(p)
      BY Zenon, <2>2 DEF GoesOn, SameFiles, Own
    <3> QED BY Zenon, <1>1, <3>1, <3>2, <3>3
  <2>3. CASE Arrives(t, p)
    <3>1. standbyEnd'[t] = standbyEnd[t] /\ p.main = sb[t].main
      BY Zenon, <2>3 DEF Arrives
    <3>2. p.rd = "err"
      BY Zenon, <2>3, <3>1 DEF Arrives
    <3>3. ~sb[t].waiting
      BY Zenon, <1>1, <2>0, <3>1
    <3> QED BY Zenon, <2>3, <3>2, <3>3 DEF Arrives
  <2>4. CASE Loses(t, p)
    <3>1. sb[t].dirTree \in Tree /\ sb[t].hostId \in Nat /\ Uniform(sb[t].dirTree)
      BY Zenon, Types DEF ViewInv, Process
    <3>2. /\ ~p.waiting /\ p.dirTree = RemoveNotOf(sb[t].dirTree, sb[t].hostId)
          /\ p.hostId = sb[t].hostId
      BY Zenon, <2>4 DEF Loses
    <3> QED BY Zenon, <3>1, <3>2, LeftAlone DEF Own
  <2>5. CASE Exits(t, p)
    BY Zenon, <2>0, <2>5 DEF Exits
  <2> QED BY Zenon, <1>4, <2>1, <2>2, <2>3, <2>4, <2>5 DEF Changes
<1>5. ASSUME NEW s \in Standby, NEW p \in Process, Changes(s, p), s # t
      PROVE  sb'[t] = sb[t] /\ standbyEnd'[t] = standbyEnd[t]
  <2>1. sb'[t] = sb[t]
    BY <1>5 DEF Changes
  <2>2. standbyEnd'[t] = standbyEnd[t]
    <3>1. ASSUME NEW x, standbyEnd' = [standbyEnd EXCEPT ![s] = x]
          PROVE  standbyEnd'[t] = standbyEnd[t]
      BY <1>5, <3>1
    <3>2. CASE Starts(s, p) \/ GoesOn(s, p) \/ Arrives(s, p)
      BY Zenon, <3>1, <3>2 DEF Starts, GoesOn, Arrives
    <3>3. CASE Loses(s, p)
      BY Zenon, <3>1, <3>3 DEF Loses, SocketClosed
    <3>4. CASE Exits(s, p)
      BY Zenon, <3>1, <3>4 DEF Exits
    <3> QED BY Zenon, <1>5, <3>2, <3>3, <3>4 DEF Changes
  <2> QED BY Zenon, <2>1, <2>2
<1>6. ASSUME (\E s \in Standby : NetworkStep(s)) \/ UNCHANGED vars
      PROVE  sb' = sb /\ UNCHANGED standbyEnd
  BY Zenon, <1>6 DEF NetworkStep, Cut, vars, wireVars
<1>7. ASSUME NEW p \in Process, Changes(t, p) PROVE sb'[t] = p
  BY Zenon, <1>7, Types DEF Changes
<1> QED BY Zenon, <1>2, <1>3, <1>4, <1>5, <1>6, <1>7, Steps

\* Every step keeps ViewInv.
LEMMA ViewNext ==
    ASSUME IInv, LinkInv, StartInv, ViewInv, IInv', LinkInv', StartInv', [Next]_vars
    PROVE  ViewInv'
<1> HIDE DEF Way
<1> QED BY Zenon, PacketsNext, ViewsNext, AloneNext DEF ViewInv, Own

\* What the properties below rest on, in one formula.
FlowInv == IInv /\ LinkInv /\ StartInv /\ ViewInv

\* So FlowInv holds in every state.
LEMMA FlowInvariance == Spec => []FlowInv
<1>1. Init => FlowInv
  BY Zenon, InitInv, LinkInit, StartInit, ViewInit DEF FlowInv
<1>2. FlowInv /\ [Next]_vars => FlowInv'
  BY Zenon, NextInv, LinkNext, StartNext, ViewNext DEF FlowInv
<1> QED BY <1>1, <1>2, PTL DEF Spec

\* A standby that has lost the master and has handled what was left shows its
\* own files only and has released its main thread: TCPSlaveMessager::close and
\* UserFS::disconnect undo what any packet around the close has done.
THEOREM LostStandbyIsAlone == Spec => []AloneAfterDisconnect
<1>1. FlowInv => AloneAfterDisconnect
  BY Zenon DEF FlowInv, ViewInv, AloneAfterDisconnect, Own, Working
<1> QED BY <1>1, FlowInvariance, PTL

\* A mounted standby finds the host of every node it shows at the index where
\* UserFS::read looks, unless a standby registered before the master's main
\* thread had pushed its own entry.
THEOREM ShownHostsResolve == Spec => []HostsResolve
<1>1. FlowInv => HostsResolve
  <2> SUFFICES ASSUME FlowInv, NEW s \in Standby, ~raced, NEW p \in DOMAIN sb[s].dirTree
               PROVE  LET n == sb[s].dirTree[p].host_id + 1
                      IN  n <= Len(sb[s].hosts) /\ sb[s].hosts[n].id = n - 1
    BY Zenon DEF HostsResolve
  <2>1. sb[s].dirTree[p].host_id \in Nat
    <3>1. sb[s].dirTree \in Tree
      BY Zenon, Types DEF FlowInv, Process
    <3> QED BY Zenon, <3>1, TreeElim DEF Node
  <2>2. Resolves(sb[s].dirTree, sb[s].hosts)
    BY Zenon DEF FlowInv, ViewInv
  <2> DEFINE h == sb[s].dirTree[p].host_id
             n == h + 1
  <2>3. n <= Len(sb[s].hosts) /\ sb[s].hosts[n].id = h
    BY Zenon, <2>2 DEF Resolves
  <2>4. n - 1 = h
    <3> HIDE DEF h
    <3>1. h \in Nat
      BY Zenon, <2>1 DEF h
    <3> QED BY <3>1
  <2>5. n <= Len(sb[s].hosts) /\ sb[s].hosts[n].id = n - 1
    BY Zenon, <2>3, <2>4
  <2> QED BY Zenon, <2>5
<1> QED BY <1>1, FlowInvariance, PTL

=============================================================================
