--------------------------- MODULE CatchUpProofs ----------------------------
(***************************************************************************)
(* In which order metadata arrives: host tables only grow, and the last    *)
(* packet on the way to a standby is current.                              *)
(***************************************************************************)
EXTENDS FlowProofs

-----------------------------------------------------------------------------
(* Host tables only grow. *)

\* The host table b begins with a.
Older(a, b) == Len(a) <= Len(b) /\ \A k \in 1..Len(a) : b[k] = a[k]

\* If there was no race: the host tables on their way to a standby are in the
\* order in which the master had them, and what a standby holds is older.
GrowInv ==
    ~raced => \A s \in Standby :
        /\ \A i \in DOMAIN Way(s) : Older(Way(s)[i].hosts, hosts)
        /\ \A i, j \in DOMAIN Way(s) : i <= j => Older(Way(s)[i].hosts, Way(s)[j].hosts)
        /\ Len(sb[s].hosts) > 1 =>
             /\ Older(sb[s].hosts, hosts)
             /\ \A i \in DOMAIN Way(s) : Older(sb[s].hosts, Way(s)[i].hosts)

\* Being older is transitive.
LEMMA OlderTrans ==
    ASSUME NEW a \in Hosts, NEW b \in Hosts, NEW c \in Hosts, Older(a, b), Older(b, c)
    PROVE  Older(a, c)
  BY DEF Older, Hosts

\* An older table is the beginning of a newer one.
LEMMA OlderSubSeq ==
    ASSUME NEW a \in Hosts, NEW b \in Hosts, Older(a, b)
    PROVE  Len(a) <= Len(b) /\ SubSeq(b, 1, Len(a)) = a
  BY DEF Older, Hosts

\* A packet's host table is one.
LEMMA WayHosts ==
    ASSUME IInv, LinkInv, NEW s \in Standby, NEW i \in DOMAIN Way(s)
    PROVE  Way(s)[i].hosts \in Hosts
<1>1. Way(s) \in Seq(Packet)
  BY Zenon, WayType
<1> DEFINE q == Way(s)
<1> HIDE DEF q
<1>2. q \in Seq(Packet) /\ i \in DOMAIN q
  BY Zenon, <1>1 DEF q
<1>3. q[i] \in Packet
  BY <1>2
<1>4. q[i].hosts \in Hosts
  BY Zenon, <1>3 DEF Packet
<1> QED BY Zenon, <1>4 DEF q

\* The master's host table is extended, if there is no race.
LEMMA HostsOlder ==
    ASSUME IInv, LinkInv, IInv', StartInv, [Next]_vars, ~raced'
    PROVE  Older(hosts, hosts')
<1>1. hosts \in Hosts /\ hosts' \in Hosts
  BY Zenon DEF IInv, TypeInv, MasterType
<1>2. CASE UNCHANGED hosts
  BY <1>1, <1>2 DEF Older, Hosts
<1>3. ASSUME NEW h \in Host, hosts' = Append(hosts, h) PROVE Older(hosts, hosts')
  BY <1>1, <1>3 DEF Older, Hosts
<1>4. ASSUME MasterDoes PROVE UNCHANGED hosts \/ \E h \in Host : hosts' = Append(hosts, h)
  <2>1. CASE MasterHostPushed
    <3>1. hosts[1] \in Host
      BY <1>1 DEF Hosts
    <3> QED BY Zenon, <2>1, <3>1 DEF MasterHostPushed
  <2>2. ASSUME NEW s \in Standby, Registers(s)
        PROVE UNCHANGED hosts \/ \E h \in Host : hosts' = Append(hosts, h)
    BY Zenon, <2>2 DEF Registers, PushSlaveHost
  <2> QED BY Zenon, <1>4, <2>1, <2>2 DEF MasterDoes, Quiet, MasterGone, Distributes, Accept, Sends, Closes
<1> QED BY Zenon, <1>2, <1>3, <1>4, Steps DEF Changes, NetworkStep, vars, masterVars

\* Packets on their way stay in order, and what is published comes last.
LEMMA WayPairs ==
    ASSUME IInv, LinkInv, IInv', LinkInv', [Next]_vars, NEW t \in Standby,
           NEW i \in DOMAIN Way(t)', NEW j \in DOMAIN Way(t)', i <= j
    PROVE  \/ \E k, l \in DOMAIN Way(t) :
                 k <= l /\ Way(t)'[i] = Way(t)[k] /\ Way(t)'[j] = Way(t)[l]
           \/ Publishes /\ Published(Way(t)'[j])
<1>1. CASE Sub(Way(t)', Way(t))
  BY Zenon, <1>1 DEF Sub
<1>2. ASSUME Publishes, NEW u, NEW v, Published(u), Published(v),
             \/ Way(t)' = Append(Way(t), u)
             \/ Way(t)' = Append(Append(Way(t), v), u)
      PROVE  \/ \E k, l \in DOMAIN Way(t) :
                   k <= l /\ Way(t)'[i] = Way(t)[k] /\ Way(t)'[j] = Way(t)[l]
             \/ Publishes /\ Published(Way(t)'[j])
  <2>1. Way(t) \in Seq(Packet) /\ u \in Packet /\ v \in Packet
    BY Zenon, <1>2, WayType DEF Published
  <2> DEFINE q == Way(t)
             r == Way(t)'
  <2> HIDE DEF q, r
  <2>2. \/ i \in DOMAIN q /\ j \in DOMAIN q /\ r[i] = q[i] /\ r[j] = q[j]
        \/ r[j] = u \/ r[j] = v
    <3>1. /\ q \in Seq(Packet) /\ i \in DOMAIN r /\ j \in DOMAIN r
          /\ r = Append(q, u) \/ r = Append(Append(q, v), u)
      BY Zenon, <1>2, <2>1 DEF q, r
    <3> DEFINE a == Append(q, v)
    <3>2. a \in Seq(Packet) /\ Len(a) = Len(q) + 1
      BY <2>1, <3>1
    <3>3. ASSUME NEW k \in DOMAIN a
          PROVE  (k \in DOMAIN q /\ a[k] = q[k]) \/ (k = Len(q) + 1 /\ a[k] = v)
      BY Zenon, <2>1, <3>1, <3>3, AppendIndex
    <3> HIDE DEF a
    <3>4. CASE r = Append(q, u)
      <4>1. ASSUME NEW k \in DOMAIN r
            PROVE  (k \in DOMAIN q /\ r[k] = q[k]) \/ (k = Len(q) + 1 /\ r[k] = u)
        BY Zenon, <2>1, <3>1, <3>4, <4>1, AppendIndex
      <4> QED BY <3>1, <4>1
    <3>5. CASE r = Append(a, u)
      <4>1. ASSUME NEW k \in DOMAIN r
            PROVE  (k \in DOMAIN a /\ r[k] = a[k]) \/ (k = Len(a) + 1 /\ r[k] = u)
        BY Zenon, <2>1, <3>2, <3>5, <4>1, AppendIndex
      <4> QED BY <3>1, <3>2, <3>3, <4>1
    <3> QED BY Zenon, <3>1, <3>4, <3>5 DEF a
  <2>3. CASE r[j] = u \/ r[j] = v
    BY Zenon, <1>2, <2>3 DEF r
  <2>4. CASE i \in DOMAIN q /\ j \in DOMAIN q /\ r[i] = q[i] /\ r[j] = q[j]
    BY Zenon, <2>4 DEF q, r
  <2> QED BY Zenon, <2>2, <2>3, <2>4
<1> QED BY Zenon, <1>1, <1>2, WayStep

\* At first nothing is on its way, and a standby has only its own host.
LEMMA GrowInit == Init => GrowInv
<1> SUFFICES ASSUME Init PROVE GrowInv
  BY Zenon
<1>0. SUFFICES ASSUME NEW s \in Standby PROVE DOMAIN Way(s) = {} /\ ~(Len(sb[s].hosts) > 1)
  BY Zenon DEF GrowInv
<1>1. Way(s) = << >>
  BY Zenon, StartInit DEF StartInv, Early, Init, MasterInit
<1>2. sb[s].hosts = <<[id |-> 0, address |-> Master, working_dir |-> s]>>
  BY Zenon DEF Init, StandbyInit
<1> QED BY <1>1, <1>2

\* Every table on its way is older than the master's, also after a step.
LEMMA WayOlder ==
    ASSUME IInv, LinkInv, StartInv, GrowInv, IInv', LinkInv', [Next]_vars, ~raced',
           NEW s \in Standby, NEW i \in DOMAIN Way(s)'
    PROVE  Older(Way(s)'[i].hosts, hosts')
<1>0. ~raced /\ hosts \in Hosts /\ hosts' \in Hosts
  BY Zenon, RacedStays DEF IInv, TypeInv, MasterType
<1>1. CASE \E k \in DOMAIN Way(s) : Way(s)'[i] = Way(s)[k]
  <2>1. PICK k \in DOMAIN Way(s) : Way(s)'[i] = Way(s)[k]
    BY Zenon, <1>1
  <2>2. Older(Way(s)[k].hosts, hosts) /\ Way(s)[k].hosts \in Hosts
    BY Zenon, <1>0, <2>1, WayHosts DEF GrowInv
  <2>3. Older(hosts, hosts')
    BY Zenon, HostsOlder
  <2>4. Older(Way(s)[k].hosts, hosts')
    BY Zenon, <1>0, <2>2, <2>3, OlderTrans
  <2> QED BY Zenon, <2>1, <2>4
<1>2. CASE Publishes /\ Published(Way(s)'[i])
  <2>1. Way(s)'[i].hosts = hosts'
    BY Zenon, <1>2, PublishesAll
  <2>2. Older(hosts', hosts')
    BY <1>0 DEF Older, Hosts
  <2> QED BY Zenon, <2>1, <2>2
<1> QED BY Zenon, <1>1, <1>2, WayFrom

\* What a standby holds is older than what comes, also after a step.
LEMMA ViewOlder ==
    ASSUME IInv, LinkInv, StartInv, GrowInv, IInv', LinkInv', [Next]_vars, ~raced',
           NEW s \in Standby, Len(sb'[s].hosts) > 1
    PROVE  /\ Older(sb'[s].hosts, hosts')
           /\ \A i \in DOMAIN Way(s)' : Older(sb'[s].hosts, Way(s)'[i].hosts)
<1> DEFINE q == Way(s)
           r == Way(s)'
           h == sb[s].hosts
           h1 == sb'[s].hosts
<1>1. /\ ~raced /\ hosts \in Hosts /\ hosts' \in Hosts /\ q \in Seq(Packet)
      /\ h \in Hosts /\ h1 \in Hosts
  BY Zenon, RacedStays, WayType DEF IInv, TypeInv, MasterType, StandbyType, Process
<1>2. Older(hosts, hosts')
  BY Zenon, HostsOlder
<1>3. CASE h1 = h
  <2>1. Older(h, hosts) /\ \A i \in DOMAIN q : Older(h, q[i].hosts)
    BY Zenon, <1>1, <1>3 DEF GrowInv
  <2>2. Older(h, hosts')
    BY Zenon, <1>1, <1>2, <2>1, OlderTrans
  <2>3. ASSUME NEW i \in DOMAIN r PROVE Older(h, r[i].hosts)
    <3>1. CASE \E k \in DOMAIN q : r[i] = q[k]
      BY Zenon, <2>1, <3>1
    <3>2. CASE Publishes /\ Published(r[i])
      <4>1. r[i].hosts = hosts'
        BY Zenon, <3>2, PublishesAll
      <4> QED BY Zenon, <2>2, <4>1
    <3> QED BY Zenon, <3>1, <3>2, WayFrom
  <2> QED BY Zenon, <1>3, <2>2, <2>3
<1>4. CASE q # << >> /\ r = Tail(q) /\ h1 = q[1].hosts
  <2> DEFINE q1 == q
             r1 == r
  <2>1. /\ q1 \in Seq(Packet) /\ q1 # << >> /\ r1 = Tail(q1)
    BY Zenon, <1>1, <1>4
  <2>2. /\ \A i \in DOMAIN q1 : Older(q1[i].hosts, hosts)
        /\ \A i, j \in DOMAIN q1 : i <= j => Older(q1[i].hosts, q1[j].hosts)
    BY Zenon, <1>1 DEF GrowInv
  <2>3. h1 = q1[1].hosts
    BY Zenon, <1>4
  <2> HIDE DEF q1, r1
  <2>4. /\ 1 \in DOMAIN q1
        /\ \A i \in DOMAIN r1 : i + 1 \in DOMAIN q1 /\ 1 <= i + 1 /\ r1[i] = q1[i + 1]
    BY <2>1
  <2>5. Older(h1, hosts)
    BY Zenon, <2>2, <2>3, <2>4
  <2>6. Older(h1, hosts')
    BY Zenon, <1>1, <1>2, <2>5, OlderTrans
  <2>7. \A i \in DOMAIN r1 : Older(h1, r1[i].hosts)
    BY Zenon, <2>2, <2>3, <2>4
  <2> QED BY Zenon, <2>6, <2>7 DEF r1
<1> QED BY Zenon, <1>3, <1>4, ViewFrom

\* Every step keeps GrowInv.
LEMMA GrowNext ==
    ASSUME IInv, LinkInv, StartInv, GrowInv, IInv', LinkInv', [Next]_vars
    PROVE  GrowInv'
<1> SUFFICES ASSUME ~raced', NEW s \in Standby
             PROVE  /\ \A i \in DOMAIN Way(s)' : Older(Way(s)'[i].hosts, hosts')
                    /\ \A i, j \in DOMAIN Way(s)' :
                         i <= j => Older(Way(s)'[i].hosts, Way(s)'[j].hosts)
                    /\ Len(sb'[s].hosts) > 1 =>
                         /\ Older(sb'[s].hosts, hosts')
                         /\ \A i \in DOMAIN Way(s)' : Older(sb'[s].hosts, Way(s)'[i].hosts)
  BY Zenon DEF GrowInv
<1>1. ASSUME NEW i \in DOMAIN Way(s)', NEW j \in DOMAIN Way(s)', i <= j
      PROVE  Older(Way(s)'[i].hosts, Way(s)'[j].hosts)
  <2>1. CASE \E k, l \in DOMAIN Way(s) :
                k <= l /\ Way(s)'[i] = Way(s)[k] /\ Way(s)'[j] = Way(s)[l]
    BY Zenon, <2>1, RacedStays DEF GrowInv
  <2>2. CASE Publishes /\ Published(Way(s)'[j])
    <3>1. Way(s)'[j].hosts = hosts'
      BY Zenon, <2>2, PublishesAll
    <3>2. Older(Way(s)'[i].hosts, hosts')
      BY Zenon, WayOlder
    <3> QED BY Zenon, <3>1, <3>2
  <2> QED BY Zenon, <1>1, <2>1, <2>2, WayPairs
<1>2. \A i \in DOMAIN Way(s)' : Older(Way(s)'[i].hosts, hosts')
  BY Zenon, WayOlder
<1>3. Len(sb'[s].hosts) > 1 =>
         /\ Older(sb'[s].hosts, hosts')
         /\ \A i \in DOMAIN Way(s)' : Older(sb'[s].hosts, Way(s)'[i].hosts)
  BY Zenon, ViewOlder
<1> QED BY Zenon, <1>1, <1>2, <1>3

\* A standby that holds a host table of the master's only ever sees it extended:
\* slaveRecognized and updateInfo never bring an older table than the one they
\* replace, whatever the queues and sockets did to the packets before.
THEOREM HostTablesGrow == Spec => HostsGrow
<1> DEFINE G == \A s \in Standby :
                  sb[s].hosts # sb'[s].hosts /\ Len(sb[s].hosts) > 1 /\ ~raced' =>
                    /\ Len(sb[s].hosts) <= Len(sb'[s].hosts)
                    /\ SubSeq(sb'[s].hosts, 1, Len(sb[s].hosts)) = sb[s].hosts
<1>1. Init => GrowInv
  BY Zenon, GrowInit
<1>2. FlowInv /\ FlowInv' /\ GrowInv /\ [Next]_vars => GrowInv'
  BY Zenon, GrowNext DEF FlowInv
<1>3. FlowInv /\ FlowInv' /\ GrowInv /\ [Next]_vars => [G]_vars
  <2> SUFFICES ASSUME FlowInv, FlowInv', GrowInv, [Next]_vars, NEW s \in Standby,
                      sb[s].hosts # sb'[s].hosts, Len(sb[s].hosts) > 1, ~raced'
               PROVE  /\ Len(sb[s].hosts) <= Len(sb'[s].hosts)
                      /\ SubSeq(sb'[s].hosts, 1, Len(sb[s].hosts)) = sb[s].hosts
    BY Zenon
  <2>1. IInv /\ LinkInv /\ IInv' /\ ~raced
    BY Zenon, RacedStays DEF FlowInv
  <2>2. Way(s) # << >> /\ sb'[s].hosts = Way(s)[1].hosts
    BY Zenon, <2>1, ViewFrom
  <2>3. 1 \in DOMAIN Way(s)
    <3>1. Way(s) \in Seq(Packet)
      BY Zenon, <2>1, WayType
    <3> HIDE DEF Way
    <3> QED BY <2>2, <3>1
  <2>4. Older(sb[s].hosts, sb'[s].hosts)
    BY Zenon, <2>1, <2>2, <2>3 DEF GrowInv
  <2>5. sb[s].hosts \in Hosts /\ sb'[s].hosts \in Hosts
    BY Zenon, <2>1 DEF IInv, TypeInv, StandbyType, Process
  <2> QED BY Zenon, <2>4, <2>5, OlderSubSeq
<1>4. HostsGrow <=> [][G]_vars
  BY Zenon DEF HostsGrow
<1> QED BY <1>1, <1>2, <1>3, <1>4, FlowInvariance, PTL DEF Spec

-----------------------------------------------------------------------------
(* Nobody is left with old metadata. *)

\* Every packet that the master posts will reach the standby: it is linked, or
\* its connection is yet to be accepted.
Reached(s) ==
    \/ masterEnd[s] = "none"
    \/ masterEnd[s] = "open" /\ standbyEnd[s] = "open" /\ s \notin cut

\* The way of a standby gets what is published,
Gets(t) ==
    /\ Publishes
    /\ \E u, v : /\ Published(u) /\ Published(v)
                 /\ \/ Way(t)' = Append(Way(t), u)
                    \/ Way(t)' = Append(Append(Way(t), v), u)
\* or stays as it is,
Keeps(t) ==
    /\ Way(t)' = Way(t)
    /\ masterEnd[t] = "open" =>
         sb'[t].dirTree = sb[t].dirTree /\ sb'[t].hosts = sb[t].hosts
\* or loses its first packet, which a linked standby has received.
Takes(t) ==
    /\ Way(t) # << >> /\ Way(t)' = Tail(Way(t))
    /\ masterEnd[t] = "open" =>
         sb'[t].dirTree = Way(t)[1].tree /\ sb'[t].hosts = Way(t)[1].hosts

\* The master's metadata stay as they are, but for the push of its own entry.
SameMetadata ==
    /\ dirTree' = dirTree
    /\ hosts' = hosts \/ MasterHostPushed
    /\ \A t \in Standby : conn'[t].id # 0 => conn[t].id # 0

\* Steps of a standby.
LEMMA ChangesReached ==
    ASSUME IInv, LinkInv, NEW s \in Standby, NEW p \in Process, Changes(s, p),
           NEW t \in Standby, Reached(t)'
    PROVE  Reached(t) /\ SameMetadata /\ (Keeps(t) \/ Takes(t))
<1>1. /\ sb' = [sb EXCEPT ![s] = p]
      /\ UNCHANGED <<masterEnd, conn, posted, dirTree, hosts, cut>>
  BY Zenon DEF Changes, masterVars
<1>2. SameMetadata
  BY Zenon, <1>1 DEF SameMetadata
<1>3. CASE t # s
  <2>1. sb'[t] = sb[t] /\ Way(t)' = Way(t)
    BY <1>1, <1>3, ChangesWay
  <2>2. standbyEnd'[t] = standbyEnd[t]
    <3>1. ASSUME NEW x, standbyEnd' = [standbyEnd EXCEPT ![s] = x]
          PROVE  standbyEnd'[t] = standbyEnd[t]
      BY <1>3, <3>1
    <3>2. CASE Starts(s, p) \/ GoesOn(s, p) \/ Arrives(s, p)
      BY Zenon, <3>1, <3>2 DEF Starts, GoesOn, Arrives
    <3>3. CASE Loses(s, p)
      BY Zenon, <3>1, <3>3 DEF Loses, SocketClosed
    <3>4. CASE Exits(s, p)
      BY Zenon, <3>1, <3>4 DEF Exits
    <3> QED BY Zenon, <3>2, <3>3, <3>4 DEF Changes
  <2> QED BY Zenon, <1>1, <1>2, <2>1, <2>2 DEF Reached, Keeps
<1>4. CASE t = s /\ masterEnd[t] = "none"
  <2>1. Reached(t) /\ toStandby[t] = << >> /\ masterEnd'[t] = masterEnd[t] /\ conn'[t] = conn[t]
    BY Zenon, <1>1, <1>4 DEF Reached, LinkInv
  <2>2. toStandby'[t] = toStandby[t]
    <3>1. ~Arrives(s, p)
      BY Zenon, <1>4, <2>1 DEF Arrives
    <3> QED BY Zenon, <1>4, <2>1, <3>1, Types DEF Changes, Starts, GoesOn, Loses, Exits
  <2>3. Way(t)' = Way(t)
    BY Zenon, <1>1, <2>1, <2>2, SameWay
  <2> QED BY Zenon, <1>2, <1>4, <2>1, <2>3 DEF Keeps
<1>5. CASE t = s /\ masterEnd[t] # "none"
  <2>0. /\ masterEnd[t] = "open" /\ standbyEnd'[t] = "open" /\ t \notin cut /\ sb'[t] = p
        /\ standbyEnd[t] \in {"open", "closed"}
    BY Zenon, <1>1, <1>5, Types DEF Reached, LinkInv
  <2>1. CASE Starts(s, p)
    BY Zenon, <1>5, <2>0, <2>1, Types DEF Starts
  <2>2. CASE GoesOn(s, p)
    <3>1. standbyEnd[t] = "open"
      BY Zenon, <1>5, <2>0, <2>2, Types DEF GoesOn
    <3>2. Way(t)' = Way(t)
      BY Zenon, <1>1, <2>2, SameWay DEF GoesOn
    <3> QED BY Zenon, <1>2, <1>5, <2>0, <2>2, <3>1, <3>2 DEF Reached, Keeps, GoesOn, SameFiles
  <2>3. CASE Arrives(s, p)
    <3>1. standbyEnd[t] = "open"
      BY Zenon, <2>0, <2>3 DEF Arrives
    <3>2. Way(t) # << >> /\ Way(t)' = Tail(Way(t)) /\ Head(Way(t)) = Head(toStandby[t])
      BY Zenon, <1>5, <2>3, ChangesWay
    <3>3. Head(Way(t)) = Way(t)[1]
      OBVIOUS
    <3>4. p.dirTree = Way(t)[1].tree /\ p.hosts = Way(t)[1].hosts
      BY Zenon, <1>5, <2>3, <3>2, <3>3 DEF Arrives
    <3> QED BY Zenon, <1>2, <2>0, <3>1, <3>2, <3>4 DEF Reached, Takes
  <2>4. CASE Loses(s, p)
    BY Zenon, <1>5, <2>0, <2>4, Types DEF Loses, SocketClosed
  <2>5. CASE Exits(s, p)
    BY Zenon, <1>5, <2>0, <2>5, Types DEF Exits
  <2> QED BY Zenon, <2>1, <2>2, <2>3, <2>4, <2>5 DEF Changes
<1> QED BY Zenon, <1>3, <1>4, <1>5

\* Steps of the master.
LEMMA MasterReached ==
    ASSUME IInv, LinkInv, IInv', MasterDoes, UNCHANGED sb, NEW t \in Standby, Reached(t)'
    PROVE  Reached(t) /\ (Gets(t) \/ (SameMetadata /\ (Keeps(t) \/ Takes(t))))
<1>1. CASE Quiet
  <2>1. Way(t)' = Way(t)
    BY Zenon, <1>1, SameWay DEF Quiet
  <2> QED BY Zenon, <1>1, <2>1 DEF Quiet, Undisturbed, Reached, SameMetadata, Keeps
<1>2. CASE MasterHostPushed
  <2>1. UNCHANGED <<posted, masterEnd, toStandby, conn, standbyEnd, cut, dirTree>>
    BY Zenon, <1>2 DEF MasterHostPushed, wireVars
  <2>2. Way(t)' = Way(t)
    BY Zenon, <2>1, SameWay
  <2> QED BY Zenon, <1>2, <2>1, <2>2 DEF Reached, SameMetadata, Keeps
<1>3. CASE MasterGone
  BY Zenon, <1>3 DEF MasterGone, Reached
<1>4. CASE Distributes
  <2>1. Reached(t) /\ SameMetadata
    BY Zenon, <1>4 DEF Distributes, Reached, SameMetadata
  <2>2. CASE masterEnd[t] = "none"
    BY Zenon, <1>4, <2>1, <2>2, DistributesWay DEF Keeps, Takes
  <2>3. CASE masterEnd[t] # "none"
    BY Zenon, <1>4, <2>1, <2>3, DistributesWay DEF Keeps
  <2> QED BY Zenon, <2>2, <2>3
<1>5. ASSUME NEW s \in Standby, Accept(s) PROVE Reached(t) /\ SameMetadata /\ Keeps(t)
  <2>1. Way(t)' = Way(t)
    BY Zenon, <1>5, AcceptWay
  <2>2. SameMetadata
    BY Zenon, <1>5, Types DEF Accept, SameMetadata, NoConnection
  <2>3. Reached(t)
    BY Zenon, <1>5, Types DEF Accept, Reached
  <2> QED BY Zenon, <2>1, <2>2, <2>3 DEF Keeps
<1>6. ASSUME NEW s \in Standby, Sends(s) PROVE Reached(t) /\ SameMetadata /\ Keeps(t)
  <2>1. Reached(t) /\ SameMetadata
    BY Zenon, <1>6 DEF Sends, Reached, SameMetadata
  <2>2. t # s \/ ~(standbyEnd[s] = "closed" \/ s \in cut)
    BY Zenon, <1>6, <2>1 DEF Sends, Reached
  <2>3. Way(t)' = Way(t)
    BY Zenon, <1>6, <2>2, SendsWay
  <2> QED BY Zenon, <2>1, <2>3 DEF Keeps
<1>7. ASSUME NEW s \in Standby, Closes(s)
      PROVE  Reached(t) /\ (Gets(t) \/ (SameMetadata /\ Keeps(t)))
  <2>1. t # s /\ masterEnd'[t] = masterEnd[t] /\ masterEnd[t] # "closed" /\ Reached(t)
    BY Zenon, <1>7, Types DEF Closes, Reached
  <2>2. CASE conn[s].id = 0
    <3>1. SameMetadata
      BY Zenon, <1>7, <2>2 DEF Closes, DisconnectSlave, SameMetadata
    <3> QED BY Zenon, <1>7, <2>1, <2>2, <3>1, ClosesWay DEF Keeps
  <2>3. CASE conn[s].id # 0
    BY Zenon, <1>7, <2>1, <2>3, ClosesWay DEF Gets, Publishes
  <2> QED BY Zenon, <2>2, <2>3
<1>8. ASSUME NEW s \in Standby, Registers(s) PROVE Reached(t) /\ Gets(t)
  <2>1. masterEnd[t] # "closed" /\ Reached(t)
    BY Zenon, <1>8 DEF Registers, Reached
  <2> QED BY Zenon, <1>8, <2>1, RegistersWay DEF Gets, Publishes
<1> QED BY Zenon, <1>1, <1>2, <1>3, <1>4, <1>5, <1>6, <1>7, <1>8 DEF MasterDoes

\* A standby that a step leaves reached was reached before, and its way gets what is
\* published, stays, or loses the packet that the standby takes.
LEMMA ReachedStep ==
    ASSUME IInv, LinkInv, IInv', [Next]_vars, NEW t \in Standby, Reached(t)'
    PROVE  Reached(t) /\ (Gets(t) \/ (SameMetadata /\ (Keeps(t) \/ Takes(t))))
<1>1. CASE (\E s \in Standby : NetworkStep(s)) \/ UNCHANGED vars
  <2>1. /\ UNCHANGED <<masterEnd, standbyEnd, dirTree, hosts, conn, sb>>
        /\ t \notin cut' => t \notin cut
    BY Zenon, <1>1 DEF NetworkStep, Cut, vars, masterVars, wireVars
  <2>2. Way(t)' = Way(t)
    BY Zenon, <1>1, IdleWay
  <2> QED BY Zenon, <2>1, <2>2 DEF Reached, SameMetadata, Keeps
<1> QED BY Zenon, <1>1, Steps, ChangesReached, MasterReached

\* The master's metadata, but for entries lost or doubled in a race.
Current(tree, hs) == tree = dirTree /\ (raced \/ hs = hosts)

\* The last packet on its way to a standby that will be reached is current; if
\* there is none and it is registered, it shows the current metadata.
CatchInv ==
    \A s \in Standby : Reached(s) =>
        /\ Way(s) # << >> => Current(Way(s)[Len(Way(s))].tree, Way(s)[Len(Way(s))].hosts)
        /\ Way(s) = << >> /\ conn[s].id # 0 => Current(sb[s].dirTree, sb[s].hosts)

\* The last element after Append,
LEMMA LastOfAppend ==
    ASSUME NEW q \in Seq(Packet), NEW u \in Packet
    PROVE  Append(q, u) # << >> /\ Append(q, u)[Len(Append(q, u))] = u
  OBVIOUS

\* and after Tail.
LEMMA LastOfTail ==
    ASSUME NEW q \in Seq(Packet), q # << >>
    PROVE  /\ Tail(q) # << >> => Tail(q)[Len(Tail(q))] = q[Len(q)]
           /\ Tail(q) = << >> => q[1] = q[Len(q)]
<1>1. Len(q) \in Nat /\ Len(q) >= 1 /\ Len(Tail(q)) = Len(q) - 1 /\ Tail(q) \in Seq(Packet)
  OBVIOUS
<1>2. CASE Tail(q) = << >>
  <2> DEFINE n == Len(q)
  <2>1. n \in Nat /\ n - 1 = 0
    BY Zenon, <1>1, <1>2
  <2> HIDE DEF n
  <2>2. n = 1
    BY <2>1
  <2>3. q[1] = q[n]
    BY Zenon, <2>2
  <2> QED BY Zenon, <1>2, <2>3 DEF n
<1>3. CASE Tail(q) # << >>
  BY <1>1, <1>3
<1> QED BY Zenon, <1>2, <1>3

\* At first nobody is registered.
LEMMA CatchInit == Init => CatchInv
<1> SUFFICES ASSUME Init, NEW s \in Standby PROVE Way(s) = << >> /\ conn[s].id = 0
  BY Zenon DEF CatchInv
<1> QED BY Zenon, StartInit DEF StartInv, Early, Init, MasterInit

\* Every step keeps CatchInv.
LEMMA CatchNext ==
    ASSUME IInv, LinkInv, StartInv, CatchInv, IInv', LinkInv', [Next]_vars
    PROVE  CatchInv'
<1> SUFFICES ASSUME NEW s \in Standby, Reached(s)'
             PROVE  /\ Way(s)' # << >> =>
                         Current(Way(s)[Len(Way(s))].tree, Way(s)[Len(Way(s))].hosts)'
                    /\ Way(s)' = << >> /\ conn'[s].id # 0 =>
                         Current(sb[s].dirTree, sb[s].hosts)'
  BY Zenon DEF CatchInv
<1> DEFINE q == Way(s)
           r == Way(s)'
           Now(tree, hs) == tree = dirTree' /\ (raced' \/ hs = hosts')
<1> SUFFICES /\ r # << >> => Now(r[Len(r)].tree, r[Len(r)].hosts)
             /\ r = << >> /\ conn'[s].id # 0 => Now(sb'[s].dirTree, sb'[s].hosts)
  BY Zenon DEF Current
<1>1. /\ q \in Seq(Packet) /\ Reached(s)
      /\ Gets(s) \/ (SameMetadata /\ (Keeps(s) \/ Takes(s)))
  BY Zenon, WayType, ReachedStep
<1>2. /\ q # << >> => Current(q[Len(q)].tree, q[Len(q)].hosts)
      /\ q = << >> /\ conn[s].id # 0 => Current(sb[s].dirTree, sb[s].hosts)
  BY Zenon, <1>1 DEF CatchInv
<1>3. CASE Gets(s)
  <2>1. PICK u, v : /\ Published(u) /\ Published(v)
                    /\ r = Append(q, u) \/ r = Append(Append(q, v), u)
    BY Zenon, <1>3 DEF Gets
  <2>2. u \in Packet /\ v \in Packet /\ Now(u.tree, u.hosts)
    BY Zenon, <1>3, <2>1, PublishesAll DEF Published, Gets
  <2> HIDE DEF q, r, Now
  <2>3. Append(q, v) \in Seq(Packet)
    BY <1>1, <2>2
  <2>4. r # << >> /\ r[Len(r)] = u
    BY Zenon, <1>1, <2>1, <2>2, <2>3, LastOfAppend
  <2> QED BY Zenon, <2>2, <2>4
<1>4. CASE SameMetadata /\ (Keeps(s) \/ Takes(s))
  <2>1. CASE MasterHostPushed /\ ~raced'
    <3>1. main \in Early /\ ~raced /\ conn' = conn
      BY Zenon, <2>1, RacedStays DEF MasterHostPushed, StartInv, Early
    <3>2. q = << >> /\ conn[s].id = 0
      BY Zenon, <3>1 DEF StartInv
    <3>3. r = << >>
      BY Zenon, <1>4, <3>2 DEF Keeps, Takes
    <3> QED BY Zenon, <3>1, <3>2, <3>3
  <2>2. CASE ~(MasterHostPushed /\ ~raced')
    <3>1. \A tree, hs : Current(tree, hs) => Now(tree, hs)
      BY Zenon, <1>4, <2>2, RacedStays DEF SameMetadata, Current
    <3>2. conn'[s].id # 0 => conn[s].id # 0 /\ masterEnd[s] = "open"
      <4>1. conn'[s].id # 0 => conn[s].id # 0
        BY Zenon, <1>4 DEF SameMetadata
      <4>2. masterEnd[s] # "none" => masterEnd[s] = "open"
        BY Zenon, <1>1 DEF Reached
      <4>3. masterEnd[s] = "none" => conn[s].id = 0
        BY DEF LinkInv, NoConnection
      <4> QED BY Zenon, <4>1, <4>2, <4>3
    <3>3. CASE Keeps(s)
      <4>1. r = q /\ (masterEnd[s] = "open" =>
                        sb'[s].dirTree = sb[s].dirTree /\ sb'[s].hosts = sb[s].hosts)
        BY Zenon, <3>3 DEF Keeps
      <4> HIDE DEF q, r, Now
      <4> QED BY Zenon, <1>2, <3>1, <3>2, <4>1
    <3>4. CASE Takes(s)
      <4>1. /\ q # << >> /\ r = Tail(q)
            /\ masterEnd[s] = "open" =>
                 sb'[s].dirTree = q[1].tree /\ sb'[s].hosts = q[1].hosts
        BY Zenon, <3>4 DEF Takes
      <4> HIDE DEF q, r, Now
      <4>2. /\ r # << >> => r[Len(r)] = q[Len(q)]
            /\ r = << >> => q[1] = q[Len(q)]
        BY Zenon, <1>1, <4>1, LastOfTail
      <4> QED BY Zenon, <1>2, <3>1, <3>2, <4>1, <4>2
    <3> QED BY Zenon, <1>4, <3>3, <3>4
  <2> QED BY Zenon, <2>1, <2>2
<1> QED BY Zenon, <1>1, <1>3, <1>4

\* The master's current metadata are always on their way to a registered
\* standby, behind everything else, or there: every change is followed by
\* sendUpdate, and neither the posted calls nor the queue nor the socket drop or
\* reorder a packet of a working connection.
THEOREM NobodyLeftBehind == Spec => []ViewsCatchUp
<1>1. Init => CatchInv
  BY Zenon, CatchInit
<1>2. FlowInv /\ FlowInv' /\ CatchInv /\ [Next]_vars => CatchInv'
  BY Zenon, CatchNext DEF FlowInv
<1>3. FlowInv /\ CatchInv => ViewsCatchUp
  <2> SUFFICES ASSUME FlowInv, CatchInv, NEW s \in Standby, conn[s].id # 0,
                      masterEnd[s] = "open", standbyEnd[s] = "open", s \notin cut
               PROVE  LET view == IF InFlight(s) = << >> THEN sb[s]
                                  ELSE LET last == InFlight(s)[Len(InFlight(s))]
                                       IN  [dirTree |-> last.tree, hosts |-> last.hosts]
                      IN  view.dirTree = dirTree /\ (raced \/ view.hosts = hosts)
    BY Zenon DEF ViewsCatchUp
  <2>1. Way(s) = InFlight(s)
    BY Zenon, WayParts DEF FlowInv
  <2>2. Reached(s)
    BY Zenon DEF Reached
  <2> DEFINE q == InFlight(s)
  <2>3. /\ q # << >> => Current(q[Len(q)].tree, q[Len(q)].hosts)
        /\ q = << >> => Current(sb[s].dirTree, sb[s].hosts)
    BY Zenon, <2>1, <2>2 DEF CatchInv
  <2> HIDE DEF q
  <2>4. LET view == IF q = << >> THEN sb[s]
                    ELSE [dirTree |-> q[Len(q)].tree, hosts |-> q[Len(q)].hosts]
        IN  view.dirTree = dirTree /\ (raced \/ view.hosts = hosts)
    BY Zenon, <2>3 DEF Current
  <2> QED BY Zenon, <2>4 DEF q
<1> QED BY <1>1, <1>2, <1>3, FlowInvariance, PTL DEF Spec

=============================================================================
