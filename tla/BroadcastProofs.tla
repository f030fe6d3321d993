-------------------------- MODULE BroadcastProofs ---------------------------
(***************************************************************************)
(* Group implements Broadcast: every kind of step does to the metadata     *)
(* what a step of Broadcast does, or nothing.                              *)
(***************************************************************************)
EXTENDS FlowProofs, GroupRefinement

Version == [tree : Tree, hosts : Hosts]

\* Versions maps packets one by one.
LEMMA VersionsType ==
    ASSUME NEW q \in Seq(Packet)
    PROVE  /\ Versions(q) \in Seq(Version) /\ Len(Versions(q)) = Len(q)
           /\ Versions(q) = << >> <=> q = << >>
           /\ \A i \in DOMAIN q : Versions(q)[i] = Metadata(q[i].tree, q[i].hosts)
<1> DEFINE f == [i \in DOMAIN q |-> Metadata(q[i].tree, q[i].hosts)]
<1>1. DOMAIN q = 1..Len(q) /\ Len(q) \in Nat
  OBVIOUS
<1>2. \A i \in DOMAIN q : Metadata(q[i].tree, q[i].hosts) \in Version
  <2> TAKE i \in DOMAIN q
  <2>1. q[i] \in Packet
    OBVIOUS
  <2>2. q[i].tree \in Tree /\ q[i].hosts \in Hosts
    BY Zenon, <2>1 DEF Packet
  <2> QED BY Zenon, <2>2 DEF Metadata, Version
<1>3. f \in [1..Len(q) -> Version]
  BY Zenon, <1>1, <1>2
<1>4. f \in Seq(Version) /\ Len(f) = Len(q)
  BY <1>1, <1>3
<1>5. Versions(q) = f
  BY Zenon DEF Versions
<1>6. f = << >> <=> q = << >>
  BY <1>4
<1> QED BY Zenon, <1>4, <1>5, <1>6

\* The versions that packets carry, when one is added,
LEMMA VersionsAppend ==
    ASSUME NEW q \in Seq(Packet), NEW u \in Packet
    PROVE  Versions(Append(q, u)) = Append(Versions(q), Metadata(u.tree, u.hosts))
<1> DEFINE m == Metadata(u.tree, u.hosts)
           v == Versions(q)
           a == Append(q, u)
           w == Versions(a)
           b == Append(v, m)
<1>1. a \in Seq(Packet) /\ Len(a) = Len(q) + 1 /\ a[Len(q) + 1] = u
      /\ \A i \in 1..Len(q) : a[i] = q[i] /\ i \in DOMAIN q
  OBVIOUS
<1>2. m \in Version
  <2>1. u.tree \in Tree /\ u.hosts \in Hosts
    BY Zenon DEF Packet
  <2> QED BY Zenon, <2>1 DEF Metadata, Version
<1>3. v \in Seq(Version) /\ Len(v) = Len(q) /\ Len(q) \in Nat
  BY VersionsType
<1>4. \A i \in 1..Len(q) : v[i] = Metadata(q[i].tree, q[i].hosts)
  BY Zenon, <1>1, VersionsType
<1> HIDE DEF a
<1>5. /\ w \in Seq(Version) /\ Len(w) = Len(a)
      /\ \A i \in DOMAIN a : w[i] = Metadata(a[i].tree, a[i].hosts)
  BY Zenon, <1>1, VersionsType
<1> HIDE DEF v, w, m
<1>6. b \in Seq(Version) /\ Len(b) = Len(q) + 1 /\ b[Len(q) + 1] = m
      /\ \A i \in 1..Len(q) : b[i] = v[i]
  BY <1>2, <1>3
<1>7. ASSUME NEW i \in 1..(Len(q) + 1) PROVE w[i] = b[i]
  <2>1. i \in DOMAIN a
    BY <1>1
  <2>2. w[i] = Metadata(a[i].tree, a[i].hosts)
    BY Zenon, <1>5, <2>1
  <2>3. CASE i = Len(q) + 1
    BY Zenon, <1>1, <1>6, <2>2, <2>3 DEF m
  <2>4. CASE i \in 1..Len(q)
    BY Zenon, <1>1, <1>4, <1>6, <2>2, <2>4
  <2> QED BY <1>3, <2>3, <2>4
<1> HIDE DEF b
<1>8. w = b
  BY <1>1, <1>3, <1>5, <1>6, <1>7
<1> QED BY Zenon, <1>8 DEF a, b, v, w, m

\* and when the first is taken.
LEMMA VersionsTail ==
    ASSUME NEW q \in Seq(Packet), q # << >>
    PROVE  /\ Versions(Tail(q)) = Tail(Versions(q))
           /\ Head(Versions(q)) = Metadata(q[1].tree, q[1].hosts)
<1> DEFINE t == Tail(q)
           v == Versions(q)
           w == Versions(t)
<1>1. t \in Seq(Packet) /\ Len(t) = Len(q) - 1 /\ Len(q) \in Nat \ {0} /\ 1 \in DOMAIN q
      /\ \A i \in DOMAIN t : t[i] = q[i + 1] /\ i + 1 \in DOMAIN q /\ i \in 1..(Len(q) - 1)
  OBVIOUS
<1>2. /\ v \in Seq(Version) /\ Len(v) = Len(q) /\ v # << >>
      /\ \A i \in DOMAIN q : v[i] = Metadata(q[i].tree, q[i].hosts)
  BY Zenon, VersionsType
<1> HIDE DEF t
<1>3. /\ w \in Seq(Version) /\ Len(w) = Len(t)
      /\ \A i \in DOMAIN t : w[i] = Metadata(t[i].tree, t[i].hosts)
  BY Zenon, <1>1, VersionsType
<1> HIDE DEF v, w
<1>4. /\ Tail(v) \in Seq(Version) /\ Len(Tail(v)) = Len(q) - 1
      /\ \A i \in 1..(Len(q) - 1) : Tail(v)[i] = v[i + 1]
  BY <1>1, <1>2
<1>5. DOMAIN t = 1..(Len(q) - 1)
  BY <1>1
<1>6. ASSUME NEW i \in 1..(Len(q) - 1) PROVE w[i] = Tail(v)[i]
  BY Zenon, <1>1, <1>2, <1>3, <1>4, <1>5
<1>7. w = Tail(v)
  BY <1>1, <1>3, <1>4, <1>6
<1>8. Head(v) = v[1]
  BY <1>2
<1> QED BY Zenon, <1>1, <1>2, <1>7, <1>8 DEF t, v, w

\* What is coming to a standby, in the terms of Broadcast.
ComingTo(s) == IF s \in Linked THEN Versions(InFlight(s)) ELSE << >>

\* To a linked standby come the versions on its way.
LEMMA ComingIsWay ==
    IInv /\ LinkInv => \A s \in Linked : ComingTo(s) = Versions(Way(s))
<1> SUFFICES ASSUME IInv, LinkInv, NEW s \in Linked PROVE InFlight(s) = Way(s)
  BY Zenon DEF ComingTo
<1>1. s \in Standby /\ masterEnd[s] = "open"
  BY Zenon DEF Linked
<1> QED BY Zenon, <1>1, WayParts

\* The same of the next state.
LEMMA ComingIsWayNext ==
    IInv' /\ LinkInv' => \A s \in Linked' : ComingTo(s)' = Versions(Way(s)')
<1>1. (IInv /\ LinkInv => \A s \in Linked : ComingTo(s) = Versions(Way(s)))'
  BY ComingIsWay, PTL
<1> QED BY Zenon, <1>1 DEF Versions

-----------------------------------------------------------------------------
(* The posted calls that are for every connection. *)

\* To a standby that is not accepted yet, these are all that is coming.
LEMMA ForAllNew ==
    ASSUME IInv, LinkInv, NEW s \in Standby, masterEnd[s] = "none"
    PROVE  Way(s) = ForAll
<1> DEFINE n == Len(posted)
           f == UpTo(posted, s)
           g == UpTo(posted, Master)
<1>1. posted \in Seq(Call)
  BY Zenon, Types
<1>2. n \in Nat /\ \A k \in Nat : k < n => k + 1 \in DOMAIN posted /\ posted[k + 1] \in Call
  BY <1>1
<1>3. ASSUME NEW k \in Nat, k < n PROVE For(posted[k + 1], s) <=> For(posted[k + 1], Master)
  <2> DEFINE c == posted[k + 1]
  <2>1. c \in Call /\ (c.call = "writeTo" => masterEnd[c.to] # "none")
    BY Zenon, <1>2, <1>3 DEF LinkInv
  <2> HIDE DEF c
  <2>2. c.call = "write" \/ (c.call = "writeTo" /\ c.to \in Standby)
    BY Zenon, <2>1 DEF Call
  <2> QED BY Zenon, <2>1, <2>2, MasterAssumption DEF For, c
<1>4. /\ Collects(f, n, posted, s) /\ Coming(posted, s) = f[n]
      /\ Collects(g, n, posted, Master) /\ Coming(posted, Master) = g[n]
  BY Zenon, <1>1, ComingUpTo
<1> HIDE DEF n, f, g
<1> DEFINE S == {k \in Nat : k <= n => f[k] = g[k]}
<1>5. 0 \in S
  <2>1. f[0] = << >> /\ g[0] = << >>
    BY Zenon, <1>2, <1>4, CollectsZero
  <2> QED BY Zenon, <2>1
<1>6. ASSUME NEW k \in S PROVE k + 1 \in S
  <2> SUFFICES ASSUME k + 1 <= n PROVE f[k + 1] = g[k + 1]
    OBVIOUS
  <2>1. k \in Nat /\ k < n /\ f[k] = g[k]
    BY <1>2
  <2>2. /\ For(posted[k + 1], s) => f[k + 1] = Append(f[k], posted[k + 1].packet)
        /\ ~For(posted[k + 1], s) => f[k + 1] = f[k]
    BY Zenon, <1>2, <1>4, <2>1, CollectsNext
  <2>3. /\ For(posted[k + 1], Master) => g[k + 1] = Append(g[k], posted[k + 1].packet)
        /\ ~For(posted[k + 1], Master) => g[k + 1] = g[k]
    BY Zenon, <1>2, <1>4, <2>1, CollectsNext
  <2> QED BY Zenon, <1>3, <2>1, <2>2, <2>3
<1>7. S = Nat
  <2> HIDE DEF S
  <2>1. S \in SUBSET Nat
    BY Zenon DEF S
  <2> QED BY Zenon, <1>5, <1>6, <2>1, SetInduction
<1>8. f[n] = g[n]
  BY <1>2, <1>7
<1> QED BY Zenon, <1>4, <1>8, WayParts DEF ForAll

\* They are packets.
LEMMA ForAllType ==
    ASSUME IInv PROVE ForAll \in Seq(Packet)
  BY Zenon, Types, ComingType DEF ForAll

\* The metadata that are published come after them.
LEMMA ForAllPublish ==
    ASSUME IInv, LinkInv, IInv', Publishes
    PROVE  \E u : Published(u) /\ ForAll' = Append(ForAll, u)
<1>1. posted \in Seq(Call)
  BY Zenon, Types
<1>2. ASSUME NEW s \in Standby, Registers(s)
      PROVE  \E u : Published(u) /\ ForAll' = Append(ForAll, u)
  <2>1. PICK seen \in HostsSeen(hosts') :
          posted' = posted \o
            <<[call |-> "writeTo", to |-> s,
               packet |-> RecognitionPacket(maxHostId, dirTree', seen)],
              Update(dirTree', seen)>>
    BY Zenon, <1>2 DEF Registers
  <2> DEFINE r == RecognitionPacket(maxHostId, dirTree', seen)
             a == [call |-> "writeTo", to |-> s, packet |-> r]
             c == Update(dirTree', seen)
             calls == Append(posted, a)
  <2>2. c \in Call /\ Published(c.packet) /\ For(c, Master)
    BY Zenon, UpdatePublished
  <2>3. a \in Call /\ ~For(a, Master)
    <3>1. dirTree' \in Tree /\ hosts' \in Hosts /\ maxHostId \in Nat
      BY Zenon DEF IInv, TypeInv, MasterType
    <3>2. seen \in Hosts
      BY Zenon, <3>1, HostsSeenType
    <3>3. r \in Packet
      BY Zenon, <3>1, <3>2 DEF RecognitionPacket, Packet
    <3> HIDE DEF r
    <3>4. a \in Call /\ a.call = "writeTo" /\ a.to = s
      BY Zenon, <3>3 DEF Call
    <3> HIDE DEF a
    <3> QED BY Zenon, <3>4, MasterAssumption DEF For
  <2>4. posted' = posted \o <<a, c>>
    BY Zenon, <2>1
  <2> HIDE DEF a, c
  <2>5. posted' = Append(calls, c) /\ calls \in Seq(Call)
    BY <1>1, <2>2, <2>3, <2>4
  <2>6. Coming(calls, Master) = ForAll
    BY Zenon, <1>1, <2>3, ComingAppend DEF ForAll
  <2> HIDE DEF calls
  <2>7. Coming(Append(calls, c), Master) = Append(ForAll, c.packet)
    BY Zenon, <2>2, <2>5, <2>6, ComingAppend
  <2> QED BY Zenon, <2>2, <2>5, <2>7 DEF ForAll
<1>3. ASSUME NEW s \in Standby, Closes(s), conn[s].id # 0
      PROVE  \E u : Published(u) /\ ForAll' = Append(ForAll, u)
  <2>1. PICK seen \in HostsSeen(hosts) : posted' = Append(posted, Update(dirTree', seen))
    BY Zenon, <1>3 DEF Closes, DisconnectSlave
  <2>2. seen \in HostsSeen(hosts')
    BY Zenon, <1>3, <2>1 DEF Closes
  <2> DEFINE c == Update(dirTree', seen)
  <2>3. c \in Call /\ Published(c.packet) /\ For(c, Master)
    BY Zenon, <2>2, UpdatePublished
  <2>4. posted' = Append(posted, c)
    BY Zenon, <2>1
  <2> HIDE DEF c
  <2>5. Coming(Append(posted, c), Master) = Append(ForAll, c.packet)
    BY Zenon, <1>1, <2>3, ComingAppend DEF ForAll
  <2> QED BY Zenon, <2>3, <2>4, <2>5 DEF ForAll
<1> QED BY Zenon, <1>2, <1>3 DEF Publishes

\* A call that is done is no longer among them.
LEMMA ForAllDistributes ==
    ASSUME IInv, Distributes
    PROVE  ForAll' = ForAll \/ (ForAll # << >> /\ ForAll' = Tail(ForAll))
<1> DEFINE e == Head(posted).packet
           r == Coming(Tail(posted), Master)
<1>1. posted \in Seq(Call) /\ posted # << >> /\ posted' = Tail(posted)
  BY Zenon, Types DEF Distributes
<1>2. Head(posted) \in Call /\ Tail(posted) \in Seq(Call)
  BY <1>1
<1>3. e \in Packet /\ r \in Seq(Packet)
  BY Zenon, <1>2, ComingType DEF Call
<1>4. ForAll = IF For(Head(posted), Master) THEN <<e>> \o r ELSE r
  BY Zenon, <1>1, ComingTail DEF ForAll
<1>5. ForAll' = r
  BY Zenon, <1>1 DEF ForAll
<1> HIDE DEF e, r
<1>6. <<e>> \o r # << >> /\ Tail(<<e>> \o r) = r
  BY <1>3
<1> QED BY Zenon, <1>4, <1>5, <1>6

-----------------------------------------------------------------------------
(* The steps of Broadcast, in the terms of Group. *)

\* The files of all standbys but those in S stay.
SameViews(S) ==
    \A t \in Standby \ S : sb'[t].dirTree = sb[t].dirTree /\ sb'[t].hosts = sb[t].hosts

\* Links end.
LEMMA RefinesUnlink ==
    ASSUME IInv, LinkInv, IInv', LinkInv', UNCHANGED <<dirTree, hosts, ForAll, Registered>>,
           SameViews({}), Linked' \subseteq Linked, \A t \in Linked' : Way(t)' = Way(t)
    PROVE  B!Unlink
<1>1. \A t \in Standby : /\ t \notin Linked' => ComingTo(t)' = << >>
                         /\ t \in Linked' => ComingTo(t)' = ComingTo(t)
  BY Zenon, ComingIsWay, ComingIsWayNext DEF ComingTo, Versions
<1>2. UNCHANGED [t \in Standby |-> Metadata(sb[t].dirTree, sb[t].hosts)]
  BY Zenon DEF SameViews, Metadata
<1>3. UNCHANGED Metadata(dirTree, hosts) /\ UNCHANGED Versions(ForAll) /\ UNCHANGED Registered
  BY Zenon DEF Metadata, Versions
<1> QED BY Zenon, <1>1, <1>2, <1>3 DEF B!Unlink, ComingTo

\* The master's metadata, as they are published.
Complete(u) == u \in Packet /\ u.tree = dirTree' /\ u.hosts = hosts'

\* The master publishes new metadata to all that are linked, to some twice.
LEMMA RefinesPublish ==
    ASSUME IInv, LinkInv, IInv', LinkInv', SameViews({}), Linked' \subseteq Linked, NEW twice,
           \E u : Complete(u) /\ ForAll' = Append(ForAll, u),
           \A t \in Linked' : t \notin twice =>
             \E u : Complete(u) /\ Way(t)' = Append(Way(t), u),
           \A t \in Linked' : t \in twice =>
             \E u, v : Complete(u) /\ Complete(v) /\ Way(t)' = Append(Append(Way(t), v), u)
    PROVE  B!Publish(twice)
<1> DEFINE m == Metadata(dirTree', hosts')
<1>1. m \in Version
  BY Zenon DEF IInv, TypeInv, MasterType, Metadata, Version
<1>2. ASSUME NEW q \in Seq(Packet), NEW u, Complete(u)
      PROVE  /\ Append(q, u) \in Seq(Packet)
             /\ Versions(Append(q, u)) = Append(Versions(q), m)
             /\ Versions(q) \in Seq(Version)
  <2>1. u \in Packet /\ m = Metadata(u.tree, u.hosts)
    BY Zenon, <1>2 DEF Complete
  <2>2. Append(q, u) \in Seq(Packet)
    BY <2>1
  <2> QED BY Zenon, <2>1, <2>2, VersionsAppend, VersionsType
<1>3. \A t \in Linked' : /\ t \in Standby /\ Way(t) \in Seq(Packet)
                         /\ ComingTo(t) = Versions(Way(t)) /\ ComingTo(t)' = Versions(Way(t)')
  BY Zenon, WayType, ComingIsWay, ComingIsWayNext DEF Linked
<1> HIDE DEF m
<1>4. ASSUME NEW c \in Seq(Version)
      PROVE  Append(c, m) = c \o <<m>> /\ Append(Append(c, m), m) = c \o <<m, m>>
  BY <1>1
<1>5. ASSUME NEW t \in Linked', t \notin twice PROVE ComingTo(t)' = ComingTo(t) \o <<m>>
  <2>1. PICK u : Complete(u) /\ Way(t)' = Append(Way(t), u)
    BY Zenon, <1>5
  <2>2. /\ Way(t) \in Seq(Packet) /\ ComingTo(t) = Versions(Way(t))
        /\ ComingTo(t)' = Versions(Append(Way(t), u))
    BY Zenon, <1>3, <2>1
  <2>3. ComingTo(t)' = Append(ComingTo(t), m) /\ ComingTo(t) \in Seq(Version)
    BY Zenon, <1>2, <2>1, <2>2
  <2> QED BY Zenon, <1>4, <2>3
<1>6. ASSUME NEW t \in Linked', t \in twice PROVE ComingTo(t)' = ComingTo(t) \o <<m, m>>
  <2>1. PICK u, v : Complete(u) /\ Complete(v) /\ Way(t)' = Append(Append(Way(t), v), u)
    BY Zenon, <1>6
  <2> DEFINE a == Append(Way(t), v)
  <2>2. /\ a \in Seq(Packet) /\ Versions(a) = Append(ComingTo(t), m)
        /\ ComingTo(t) \in Seq(Version)
    BY Zenon, <1>2, <1>3, <2>1
  <2> HIDE DEF a
  <2>3. Versions(Append(a, u)) = Append(Append(ComingTo(t), m), m)
    BY Zenon, <1>2, <2>1, <2>2
  <2>4. ComingTo(t)' = Versions(Append(a, u))
    BY Zenon, <1>3, <2>1 DEF a
  <2> QED BY Zenon, <1>4, <2>2, <2>3, <2>4
<1>7. Versions(ForAll)' = Append(Versions(ForAll), m)
  <2>1. PICK u : Complete(u) /\ ForAll' = Append(ForAll, u)
    BY Zenon
  <2>2. Versions(ForAll)' = Versions(Append(ForAll, u))
    BY Zenon, <2>1 DEF Versions
  <2> QED BY Zenon, <1>2, <2>1, <2>2, ForAllType
<1>8. \A t \in Standby : t \notin Linked' => ComingTo(t)' = << >>
  BY Zenon DEF ComingTo
<1>9. UNCHANGED [t \in Standby |-> Metadata(sb[t].dirTree, sb[t].hosts)]
  BY Zenon DEF SameViews, Metadata
<1>10. m = Metadata(dirTree, hosts)'
  BY Zenon DEF m, Metadata
<1>11. \A t \in Standby :
         ComingTo(t)' = IF t \notin Linked' THEN << >>
                        ELSE IF t \in twice THEN ComingTo(t) \o <<m, m>>
                        ELSE ComingTo(t) \o <<m>>
  BY Zenon, <1>5, <1>6, <1>8
<1> QED BY Zenon, <1>7, <1>9, <1>10, <1>11 DEF B!Publish, ComingTo

\* A standby is linked; the calls posted for everybody are on its way.
LEMMA RefinesConnect ==
    ASSUME IInv, LinkInv, IInv', LinkInv', UNCHANGED <<dirTree, hosts, ForAll, Registered>>,
           SameViews({}), NEW s \in Standby, Linked' = Linked \cup {s},
           s \notin Linked, s \notin Registered,
           \A t \in Linked' : Way(t)' = Way(t), Way(s) = ForAll
    PROVE  B!Connect(s)
<1>1. \A t \in Standby \ {s} : ComingTo(t)' = ComingTo(t)
  BY Zenon, ComingIsWay, ComingIsWayNext DEF ComingTo, Versions
<1>2. ComingTo(s)' = Versions(ForAll)
  <2>1. s \in Linked' /\ Way(s)' = ForAll
    BY Zenon
  <2>2. ComingTo(s)' = Versions(Way(s)')
    BY Zenon, <2>1, ComingIsWayNext
  <2> QED BY Zenon, <2>1, <2>2
<1>3. UNCHANGED [t \in Standby |-> Metadata(sb[t].dirTree, sb[t].hosts)]
  BY Zenon DEF SameViews, Metadata
<1>4. UNCHANGED Metadata(dirTree, hosts) /\ UNCHANGED Versions(ForAll) /\ UNCHANGED Registered
  BY Zenon DEF Metadata, Versions
<1> QED BY Zenon, <1>1, <1>2, <1>3, <1>4 DEF B!Connect, ComingTo

\* A linked standby takes the next version.
LEMMA RefinesArrive ==
    ASSUME IInv, LinkInv, IInv', LinkInv', UNCHANGED <<dirTree, hosts, ForAll, Registered>>,
           NEW s \in Linked, SameViews({s}), Linked' = Linked,
           \A t \in Linked \ {s} : Way(t)' = Way(t),
           Way(s) # << >>, Way(s)' = Tail(Way(s)),
           sb'[s].dirTree = Way(s)[1].tree, sb'[s].hosts = Way(s)[1].hosts
    PROVE  B!Arrive(s)
<1>1. s \in Standby
  BY Zenon DEF Linked
<1>2. \A t \in Standby \ {s} : ComingTo(t)' = ComingTo(t)
  BY SMTT(30), ComingIsWay, ComingIsWayNext DEF ComingTo, Versions
<1>3. /\ ComingTo(s) # << >>
      /\ Metadata(sb'[s].dirTree, sb'[s].hosts) = Head(ComingTo(s))
      /\ ComingTo(s)' = Tail(ComingTo(s))
  <2> DEFINE q == Way(s)
  <2>1. /\ ComingTo(s) = Versions(q) /\ ComingTo(s)' = Versions(Tail(q))
        /\ q \in Seq(Packet) /\ q # << >>
    BY Zenon, <1>1, WayType, ComingIsWay, ComingIsWayNext DEF Versions
  <2> HIDE DEF q
  <2>2. /\ Versions(q) # << >> /\ Versions(Tail(q)) = Tail(Versions(q))
        /\ Head(Versions(q)) = Metadata(q[1].tree, q[1].hosts)
    BY Zenon, <2>1, VersionsType, VersionsTail
  <2> QED BY Zenon, <2>1, <2>2 DEF q
<1>4. \A t \in Standby \ {s} :
        Metadata(sb'[t].dirTree, sb'[t].hosts) = Metadata(sb[t].dirTree, sb[t].hosts)
  BY Zenon DEF SameViews
<1>5. UNCHANGED Metadata(dirTree, hosts) /\ UNCHANGED Versions(ForAll) /\ UNCHANGED Registered
  BY Zenon DEF Metadata, Versions
<1> QED BY Zenon, <1>1, <1>2, <1>3, <1>4, <1>5 DEF B!Arrive, ComingTo, Metadata

\* A standby that is not linked changes what it shows.
LEMMA RefinesAlone ==
    ASSUME IInv, LinkInv, IInv', LinkInv', UNCHANGED <<dirTree, hosts, ForAll, Registered>>,
           NEW s \in Standby, s \notin Linked, SameViews({s}), Linked' = Linked,
           \A t \in Linked : Way(t)' = Way(t)
    PROVE  B!Alone(s)
<1>1. \A t \in Standby : ComingTo(t)' = ComingTo(t)
  BY Zenon, ComingIsWay, ComingIsWayNext DEF ComingTo, Versions
<1>2. \A t \in Standby \ {s} :
        Metadata(sb'[t].dirTree, sb'[t].hosts) = Metadata(sb[t].dirTree, sb[t].hosts)
  BY Zenon DEF SameViews
<1>3. UNCHANGED Metadata(dirTree, hosts) /\ UNCHANGED Versions(ForAll) /\ UNCHANGED Registered
  BY Zenon DEF Metadata, Versions
<1> QED BY Zenon, <1>1, <1>2, <1>3 DEF B!Alone, ComingTo, Metadata

\* If standbys start when the master serves, nothing is posted before.
NothingPosted == main \in Early => posted = << >>

\* At first nothing is.
LEMMA NothingPostedInit == Init => NothingPosted
  BY Zenon DEF Init, MasterInit, NothingPosted

\* The first connection is accepted when the master serves.
LEMMA NothingPostedNext ==
    ASSUME ~EarlyStart, FlowInv, FlowInv', NothingPosted, [Next]_vars
    PROVE  NothingPosted'
<1>1. /\ IInv /\ LinkInv /\ StartInv /\ ~raced'
      /\ main \in Early => \A s \in Standby : masterEnd[s] = "none"
  BY Zenon DEF FlowInv, StartInv
<1>2. CASE Publishes
  <2>1. main' = "serving"
    BY Zenon, <1>1, <1>2, PublishesAll
  <2> QED BY Zenon, <2>1 DEF NothingPosted, Early
<1>3. CASE MasterDoes /\ ~Publishes
  <2>1. CASE Quiet
    BY Zenon, <2>1 DEF Quiet, NothingPosted, Early
  <2>2. CASE MasterHostPushed \/ MasterGone
    BY Zenon, <2>2 DEF MasterHostPushed, MasterGone, NothingPosted, Early
  <2>3. CASE Distributes
    BY Zenon, <2>3 DEF Distributes, NothingPosted
  <2>4. ASSUME NEW s \in Standby, Accept(s) \/ Sends(s) PROVE NothingPosted'
    BY Zenon, <2>4 DEF Accept, Sends, NothingPosted
  <2>5. ASSUME NEW s \in Standby, Closes(s) PROVE NothingPosted'
    BY Zenon, <1>3, <2>5 DEF Publishes, Closes, DisconnectSlave, NothingPosted
  <2> QED BY Zenon, <1>3, <2>1, <2>2, <2>3, <2>4, <2>5 DEF MasterDoes, Publishes
<1>4. CASE UNCHANGED <<main, posted>>
  BY Zenon, <1>4 DEF NothingPosted
<1>5. ASSUME NEW s \in Standby, NEW p \in Process, Changes(s, p) PROVE UNCHANGED <<main, posted>>
  BY Zenon, <1>5 DEF Changes, masterVars
<1>6. CASE (\E s \in Standby : NetworkStep(s)) \/ UNCHANGED vars
  BY Zenon, <1>4, <1>6 DEF NetworkStep, Cut, vars, masterVars
<1> QED BY Zenon, <1>1, <1>2, <1>3, <1>4, <1>5, <1>6, Steps

\* The standbys that carry an id, when no id or one id changes.
LEMMA RegisteredIs ==
    /\ (\A t \in Standby : conn'[t].id = conn[t].id) => UNCHANGED Registered
    /\ \A s \in Standby :
         (\A t \in Standby \ {s} : conn'[t].id = conn[t].id) =>
           /\ conn'[s].id # 0 => Registered' = Registered \cup {s}
           /\ conn'[s].id = 0 => Registered' = Registered \ {s}
  BY DEF Registered

\* The master's steps.
LEMMA MasterRefines ==
    ASSUME ~EarlyStart, FlowInv, NothingPosted, FlowInv', MasterDoes, UNCHANGED sb, [Next]_vars
    PROVE  B!Next
<1>1. /\ IInv /\ LinkInv /\ StartInv /\ IInv' /\ LinkInv' /\ StartInv'
      /\ ~raced /\ ~raced'
  BY Zenon DEF FlowInv, StartInv
<1>2. SameViews({})
  BY Zenon DEF SameViews
<1>3. ASSUME UNCHANGED <<dirTree, hosts, ForAll, Registered>>, Linked' \subseteq Linked,
             \A t \in Linked' : Way(t)' = Way(t)
      PROVE  B!Next
  BY Zenon, <1>1, <1>2, <1>3, RefinesUnlink DEF B!Next
<1>4. CASE Quiet
  <2>1. \A t \in Standby : Way(t)' = Way(t)
    BY Zenon, <1>1, <1>4, SameWay DEF Quiet
  <2>2. UNCHANGED <<dirTree, hosts, posted, masterEnd, standbyEnd, cut>>
    BY Zenon, <1>4 DEF Quiet
  <2>3. UNCHANGED Registered
    BY Zenon, <1>4, RegisteredIs DEF Quiet, Undisturbed
  <2>4. UNCHANGED ForAll
    BY Zenon, <2>2 DEF ForAll
  <2> QED BY Zenon, <1>3, <2>1, <2>2, <2>3, <2>4 DEF Linked
<1>5. CASE MasterHostPushed
  <2>1. main \in Early /\ UNCHANGED <<posted, conn, masterEnd, standbyEnd, cut>>
    BY Zenon, <1>1, <1>5 DEF MasterHostPushed, StartInv, Early, wireVars
  <2>2. Linked = {} /\ Linked' = {} /\ Registered = {} /\ UNCHANGED Registered
    BY Zenon, <1>1, <2>1 DEF Linked, Registered, StartInv
  <2>3. ForAll = << >> /\ UNCHANGED ForAll
    BY Zenon, <2>1, ComingEmpty DEF ForAll, NothingPosted
  <2>4. Versions(ForAll) = << >> /\ UNCHANGED Versions(ForAll)
    BY Zenon, <1>1, <2>3, ForAllType, VersionsType DEF Versions
  <2>5. \A t \in Standby : ComingTo(t)' = << >> /\ ComingTo(t) = << >>
    BY Zenon, <2>2 DEF ComingTo
  <2>6. UNCHANGED [t \in Standby |-> Metadata(sb[t].dirTree, sb[t].hosts)]
    BY Zenon DEF Metadata
  <2>7. B!Prepare
    BY Zenon, <2>2, <2>4, <2>5, <2>6 DEF B!Prepare, ComingTo
  <2> QED BY Zenon, <2>7 DEF B!Next
<1>6. CASE MasterGone
  <2>1. Linked' = {} /\ UNCHANGED <<dirTree, hosts>> /\ posted' = << >>
    BY Zenon, <1>6 DEF MasterGone, Linked
  <2>2. Registered' = {}
    BY Zenon, <1>6 DEF MasterGone, Registered, NoConnection
  <2>3. ForAll' = << >>
    BY Zenon, <2>1, ComingEmpty DEF ForAll
  <2>4. Versions(ForAll)' = << >>
    <3>1. ForAll' \in Seq(Packet)
      BY <2>3
    <3> QED BY Zenon, <2>3, <3>1, VersionsType DEF Versions
  <2>5. \A t \in Standby : ComingTo(t)' = << >>
    BY Zenon, <2>1 DEF ComingTo
  <2>6. UNCHANGED [t \in Standby |-> Metadata(sb[t].dirTree, sb[t].hosts)]
    BY Zenon DEF Metadata
  <2>7. UNCHANGED Metadata(dirTree, hosts)
    BY Zenon, <2>1 DEF Metadata
  <2>8. B!Stop
    BY Zenon, <2>1, <2>2, <2>4, <2>5, <2>6, <2>7 DEF B!Stop, ComingTo
  <2> QED BY Zenon, <2>8 DEF B!Next
<1>7. CASE Distributes
  <2>1. UNCHANGED <<dirTree, hosts, masterEnd, standbyEnd, cut>>
    BY Zenon, <1>7 DEF Distributes
  <2>2. \A t \in Linked' : Way(t)' = Way(t)
    BY Zenon, <1>1, <1>7, <2>1, DistributesWay DEF Linked
  <2>3. UNCHANGED Registered
    BY Zenon, <1>7, RegisteredIs DEF Distributes
  <2>4. UNCHANGED Linked
    BY Zenon, <2>1 DEF Linked
  <2>5. CASE UNCHANGED ForAll
    BY Zenon, <1>3, <2>1, <2>2, <2>3, <2>4, <2>5
  <2>6. CASE ForAll # << >> /\ ForAll' = Tail(ForAll)
    <3>1. Versions(ForAll) # << >> /\ Versions(ForAll)' = Tail(Versions(ForAll))
      <4>1. Versions(ForAll)' = Versions(Tail(ForAll))
        BY Zenon, <2>6 DEF Versions
      <4> QED BY Zenon, <1>1, <2>6, <4>1, ForAllType, VersionsType, VersionsTail
    <3>2. \A t \in Standby : ComingTo(t)' = ComingTo(t)
      BY Zenon, <1>1, <2>2, <2>4, ComingIsWay, ComingIsWayNext DEF ComingTo, Versions
    <3>3. UNCHANGED [t \in Standby |-> Metadata(sb[t].dirTree, sb[t].hosts)]
      BY Zenon DEF Metadata
    <3>4. UNCHANGED Metadata(dirTree, hosts)
      BY Zenon, <2>1 DEF Metadata
    <3>5. B!Distribute
      BY Zenon, <2>3, <2>4, <3>1, <3>2, <3>3, <3>4 DEF B!Distribute, ComingTo
    <3> QED BY Zenon, <3>5 DEF B!Next
  <2> QED BY Zenon, <1>1, <1>7, <2>5, <2>6, ForAllDistributes
<1>8. ASSUME NEW s \in Standby, Accept(s) PROVE B!Next
  <2>1. /\ masterEnd[s] = "none" /\ masterEnd' = [masterEnd EXCEPT ![s] = "open"]
        /\ conn' = [conn EXCEPT ![s] = [NoConnection EXCEPT !.rd = "pending"]]
        /\ UNCHANGED <<dirTree, hosts, posted, standbyEnd, cut>>
    BY Zenon, <1>8 DEF Accept
  <2>2. \A t \in Linked' : Way(t)' = Way(t)
    BY Zenon, <1>1, <1>8, AcceptWay DEF Linked
  <2>3. /\ s \notin Linked
        /\ \A t \in Standby \ {s} : t \in Linked' <=> t \in Linked
    BY Zenon, <1>1, <2>1, Types DEF Linked
  <2>4. Linked \subseteq Standby /\ Linked' \subseteq Standby
    BY Zenon DEF Linked
  <2>5. s \notin Registered /\ UNCHANGED Registered
    <3>1. conn[s].id = 0
      BY Zenon, <1>1, <2>1 DEF IInv, ConnInv
    <3>2. conn'[s].id = 0 /\ \A t \in Standby \ {s} : conn'[t] = conn[t]
      BY <1>1, <2>1, Types DEF NoConnection
    <3> QED BY Zenon, <3>1, <3>2, RegisteredIs DEF Registered
  <2>6. UNCHANGED ForAll
    BY Zenon, <2>1 DEF ForAll
  <2>7. CASE s \notin Linked'
    <3>1. Linked' \subseteq Linked
      BY Zenon, <2>3, <2>4, <2>7
    <3> QED BY Zenon, <1>3, <2>1, <2>2, <2>5, <2>6, <3>1
  <2>8. CASE s \in Linked'
    <3>1. Linked' = Linked \cup {s}
      BY Zenon, <2>3, <2>4, <2>8
    <3>2. Way(s) = ForAll
      BY Zenon, <1>1, <2>1, ForAllNew
    <3>3. B!Connect(s)
      BY Zenon, <1>1, <1>2, <2>1, <2>2, <2>3, <2>5, <2>6, <3>1, <3>2, RefinesConnect
    <3> QED BY Zenon, <3>3 DEF B!Next
  <2> QED BY Zenon, <2>7, <2>8
<1>9. ASSUME NEW s \in Standby, Sends(s) PROVE B!Next
  <2>1. UNCHANGED <<dirTree, hosts, posted, masterEnd, standbyEnd, cut>>
    BY Zenon, <1>9 DEF Sends
  <2>2. \A t \in Linked' : Way(t)' = Way(t)
    BY Zenon, <1>1, <1>9, <2>1, SendsWay DEF Linked
  <2>3. UNCHANGED Registered
    BY Zenon, <1>9, RegisteredIs DEF Sends
  <2>4. UNCHANGED ForAll
    BY Zenon, <2>1 DEF ForAll
  <2> QED BY Zenon, <1>3, <2>1, <2>2, <2>3, <2>4 DEF Linked
<1>10. ASSUME NEW s \in Standby, Closes(s) PROVE B!Next
  <2>1. /\ masterEnd' = [masterEnd EXCEPT ![s] = "closed"] /\ UNCHANGED <<hosts, standbyEnd, cut>>
        /\ conn'[s].id = 0 /\ \A t \in Standby \ {s} : conn'[t] = conn[t]
    BY Zenon, <1>10 DEF Closes
  <2>2. \A t \in Linked' : t \in Standby /\ t # s /\ t \in Linked /\ masterEnd[t] = "open"
    BY Zenon, <1>1, <2>1, Types DEF Linked
  <2>3. CASE conn[s].id = 0
    <3>1. UNCHANGED <<dirTree, posted>>
      BY Zenon, <1>10, <2>3 DEF Closes, DisconnectSlave
    <3>2. \A t \in Linked' : Way(t)' = Way(t)
      BY Zenon, <1>1, <1>10, <2>2, <2>3, ClosesWay
    <3>3. UNCHANGED Registered
      <4>1. \A t \in Standby : conn'[t].id = conn[t].id
        BY Zenon, <2>1, <2>3
      <4> QED BY Zenon, <4>1, RegisteredIs
    <3>4. UNCHANGED ForAll
      BY Zenon, <3>1 DEF ForAll
    <3> QED BY Zenon, <1>3, <2>1, <2>2, <3>1, <3>2, <3>3, <3>4
  <2>4. CASE conn[s].id # 0
    <3>1. Publishes
      BY Zenon, <1>10, <2>4 DEF Publishes
    <3>2. \A u : Published(u) => Complete(u)
      BY Zenon, <1>1, <3>1, PublishesAll DEF Published, Complete
    <3>3. \A t \in Linked' : \E u : Complete(u) /\ Way(t)' = Append(Way(t), u)
      BY Zenon, <1>1, <1>10, <2>2, <2>4, <3>2, ClosesWay
    <3>4. \E u : Complete(u) /\ ForAll' = Append(ForAll, u)
      BY Zenon, <1>1, <3>1, <3>2, ForAllPublish
    <3>5. B!Publish({})
      BY Zenon, <1>1, <1>2, <2>2, <3>3, <3>4, RefinesPublish
    <3>6. Linked' = Linked \ {s}
      <4>1. s \notin Linked' /\ \A t \in Standby \ {s} : t \in Linked' <=> t \in Linked
        BY Zenon, <1>1, <2>1, <2>2, Types DEF Linked
      <4>2. Linked \subseteq Standby /\ Linked' \subseteq Standby
        BY Zenon DEF Linked
      <4> QED BY Zenon, <4>1, <4>2
    <3>7. s \in Registered /\ Registered' = Registered \ {s}
      BY Zenon, <2>1, <2>4, RegisteredIs DEF Registered
    <3>8. B!Leave(s)
      BY Zenon, <3>5, <3>6, <3>7 DEF B!Leave
    <3> QED BY Zenon, <3>8 DEF B!Next
  <2> QED BY Zenon, <2>3, <2>4
<1>11. ASSUME NEW s \in Standby, Registers(s) PROVE B!Next
  <2>1. /\ UNCHANGED <<masterEnd, standbyEnd, cut>> /\ Publishes
        /\ conn[s].id = 0 /\ conn'[s].id = maxHostId
        /\ \A t \in Standby \ {s} : conn'[t] = conn[t]
    BY Zenon, <1>11 DEF Registers, Publishes
  <2>2. UNCHANGED Linked /\ \A t \in Linked' : t \in Standby /\ masterEnd[t] # "closed"
    BY Zenon, <2>1 DEF Linked
  <2>3. \A u : Published(u) => Complete(u)
    BY Zenon, <1>1, <2>1, PublishesAll DEF Published, Complete
  <2>4. \A t \in Linked' : t \notin {s} =>
          \E u : Complete(u) /\ Way(t)' = Append(Way(t), u)
    BY Zenon, <1>1, <1>11, <2>2, <2>3, RegistersWay
  <2>5. \A t \in Linked' : t \in {s} =>
          \E u, v : Complete(u) /\ Complete(v) /\ Way(t)' = Append(Append(Way(t), v), u)
    BY Zenon, <1>1, <1>11, <2>2, <2>3, RegistersWay
  <2>6. \E u : Complete(u) /\ ForAll' = Append(ForAll, u)
    BY Zenon, <1>1, <2>1, <2>3, ForAllPublish
  <2>7. B!Publish({s})
    BY Zenon, <1>1, <1>2, <2>2, <2>4, <2>5, <2>6, RefinesPublish
  <2>8. s \notin Registered /\ Registered' = Registered \cup {s}
    <3>1. maxHostId # 0
      BY <1>1 DEF IInv, OwnerInv
    <3> QED BY Zenon, <2>1, <3>1, RegisteredIs DEF Registered
  <2>9. B!Join(s)
    BY Zenon, <2>2, <2>7, <2>8 DEF B!Join
  <2> QED BY Zenon, <2>9 DEF B!Next
<1> QED BY Zenon, <1>4, <1>5, <1>6, <1>7, <1>8, <1>9, <1>10, <1>11 DEF MasterDoes

\* The standbys' steps.
LEMMA StandbyRefines ==
    ASSUME FlowInv, FlowInv', NEW s \in Standby, NEW p \in Process, Changes(s, p)
    PROVE  B!Next
<1>1. /\ IInv /\ LinkInv /\ IInv' /\ LinkInv'
      /\ sb' = [sb EXCEPT ![s] = p] /\ UNCHANGED <<masterEnd, cut, dirTree, hosts, posted, conn>>
      /\ UNCHANGED <<ForAll, Registered>>
  BY Zenon DEF FlowInv, Changes, masterVars, ForAll, Registered
<1>2. SameViews({s}) /\ sb'[s] = p
  BY Zenon, <1>1, Types DEF SameViews
<1>3. ASSUME SameFiles(s, p) PROVE SameViews({})
  BY Zenon, <1>2, <1>3 DEF SameViews, SameFiles
<1>4. ASSUME NEW x, standbyEnd' = [standbyEnd EXCEPT ![s] = x]
      PROVE  \A t \in Standby \ {s} : t \in Linked' <=> t \in Linked
  BY <1>1, <1>4 DEF Linked
<1>5. Linked \subseteq Standby /\ Linked' \subseteq Standby
  BY Zenon DEF Linked
<1>6. \A t \in Standby : t # s \/ ~(Arrives(s, p) \/ Exits(s, p)) => Way(t)' = Way(t)
  BY Zenon, <1>1, ChangesWay
<1>7. CASE Starts(s, p) /\ ~(Arrives(s, p) \/ Exits(s, p))
  <2>1. s \notin Linked'
    BY Zenon, <1>1, <1>7, Types DEF Starts, Linked
  <2>2. Linked' \subseteq Linked
    BY Zenon, <1>4, <1>5, <1>7, <2>1 DEF Starts
  <2>3. B!Unlink
    BY Zenon, <1>1, <1>3, <1>5, <1>6, <1>7, <2>2, RefinesUnlink DEF Starts
  <2> QED BY Zenon, <2>3 DEF B!Next
<1>8. CASE GoesOn(s, p) /\ ~(Arrives(s, p) \/ Exits(s, p))
  <2>1. Linked' \subseteq Linked
    <3>1. CASE UNCHANGED standbyEnd
      BY Zenon, <1>1, <3>1 DEF Linked
    <3>2. CASE standbyEnd[s] = "connecting" /\ standbyEnd' = [standbyEnd EXCEPT ![s] = "open"]
      <4>1. s \notin Linked'
        BY Zenon, <1>1, <3>2 DEF Linked, LinkInv
      <4> QED BY Zenon, <1>4, <1>5, <3>2, <4>1
    <3> QED BY Zenon, <1>8, <3>1, <3>2 DEF GoesOn
  <2>2. B!Unlink
    BY Zenon, <1>1, <1>3, <1>5, <1>6, <1>8, <2>1, RefinesUnlink DEF GoesOn
  <2> QED BY Zenon, <2>2 DEF B!Next
<1>9. CASE Arrives(s, p)
  <2>1. Linked' = Linked
    BY Zenon, <1>1, <1>9 DEF Arrives, Linked
  <2>2. CASE s \in Linked
    <3>1. Way(s) # << >> /\ Way(s)' = Tail(Way(s)) /\ Head(Way(s)) = Head(toStandby[s])
      BY Zenon, <1>1, <1>9, ChangesWay
    <3>2. Head(Way(s)) = Way(s)[1]
      OBVIOUS
    <3>3. p.dirTree = Way(s)[1].tree /\ p.hosts = Way(s)[1].hosts
      BY Zenon, <1>9, <3>1, <3>2 DEF Arrives
    <3>4. \A t \in Linked \ {s} : Way(t)' = Way(t)
      BY Zenon, <1>5, <1>6
    <3>5. B!Arrive(s)
      BY Zenon, <1>1, <1>2, <2>1, <2>2, <3>1, <3>3, <3>4, RefinesArrive
    <3> QED BY Zenon, <3>5 DEF B!Next
  <2>3. CASE s \notin Linked
    <3>1. \A t \in Linked : Way(t)' = Way(t)
      BY Zenon, <1>5, <1>6, <2>3
    <3>2. B!Alone(s)
      BY Zenon, <1>1, <1>2, <2>1, <2>3, <3>1, RefinesAlone
    <3> QED BY Zenon, <3>2 DEF B!Next
  <2> QED BY Zenon, <2>2, <2>3
<1>10. CASE Loses(s, p)
  <2>1. s \notin Linked
    BY Zenon, <1>1, <1>10 DEF Loses, Linked, LinkInv
  <2>2. s \notin Linked'
    BY Zenon, <1>1, <1>10, Types DEF Loses, Linked, SocketClosed
  <2>3. Linked' = Linked
    <3>1. PICK x : standbyEnd' = [standbyEnd EXCEPT ![s] = x]
      BY Zenon, <1>10 DEF Loses, SocketClosed
    <3>2. \A t \in Standby \ {s} : t \in Linked' <=> t \in Linked
      BY Zenon, <1>4, <3>1
    <3> QED BY <1>5, <2>1, <2>2, <3>2
  <2>4. \A t \in Linked : Way(t)' = Way(t)
    BY Zenon, <1>5, <1>6, <2>1
  <2>5. B!Alone(s)
    BY Zenon, <1>1, <1>2, <2>1, <2>3, <2>4, RefinesAlone
  <2> QED BY Zenon, <2>5 DEF B!Next
<1>11. CASE Exits(s, p)
  <2>1. s \notin Linked'
    BY Zenon, <1>1, <1>11, Types DEF Exits, Linked
  <2>2. Linked' \subseteq Linked
    BY Zenon, <1>4, <1>5, <1>11, <2>1 DEF Exits
  <2>3. \A t \in Linked' : Way(t)' = Way(t)
    BY Zenon, <1>5, <1>6, <2>1
  <2>4. B!Unlink
    BY Zenon, <1>1, <1>3, <1>11, <2>2, <2>3, RefinesUnlink DEF Exits
  <2> QED BY Zenon, <2>4 DEF B!Next
<1> QED BY Zenon, <1>7, <1>8, <1>9, <1>10, <1>11 DEF Changes

\* The master's posts, sending queues, sockets and the handlers of both ends do
\* to the metadata what Broadcast says, if standbys start when the master
\* serves: to a linked standby comes every version from those that are posted
\* when it is accepted on, in order and once (that of its own registration
\* twice), and none is sent before it is current.
THEOREM GroupImplementsBroadcast ==
    ASSUME ~EarlyStart PROVE Spec => ImplementsBroadcast
<1>1. Init => B!Init
  <2> SUFFICES ASSUME Init PROVE B!Init
    BY Zenon
  <2>1. Linked = {} /\ Registered = {} /\ posted = << >>
    BY Zenon DEF Init, WireInit, MasterInit, NoConnection, Linked, Registered
  <2>2. ForAll = << >>
    BY Zenon, <2>1, ComingEmpty DEF ForAll
  <2>3. Versions(ForAll) = << >>
    <3>1. ForAll \in Seq(Packet)
      BY <2>2
    <3> QED BY Zenon, <2>2, <3>1, VersionsType
  <2> QED BY Zenon, <2>1, <2>3 DEF B!Init
<1>2. FlowInv /\ FlowInv' /\ NothingPosted /\ [Next]_vars => NothingPosted'
  BY Zenon, NothingPostedNext
<1>3. FlowInv /\ FlowInv' /\ NothingPosted /\ [Next]_vars => [B!Next]_B!vars
  <2> SUFFICES ASSUME FlowInv, FlowInv', NothingPosted, [Next]_vars PROVE [B!Next]_B!vars
    BY Zenon
  <2>1. IInv /\ LinkInv /\ IInv' /\ LinkInv'
    BY Zenon DEF FlowInv
  <2>2. CASE (\E s \in Standby : NetworkStep(s)) \/ UNCHANGED vars
    <3>1. /\ UNCHANGED <<masterEnd, standbyEnd, dirTree, hosts, posted, conn, sb>>
          /\ UNCHANGED <<ForAll, Registered>>
          /\ cut \subseteq cut'
      BY Zenon, <2>2 DEF NetworkStep, Cut, vars, masterVars, wireVars, ForAll, Registered
    <3>2. Linked' \subseteq Linked /\ Linked \subseteq Standby
      BY Zenon, <3>1 DEF Linked
    <3>3. \A t \in Linked' : Way(t)' = Way(t)
      BY Zenon, <2>1, <2>2, <3>2, IdleWay
    <3>4. SameViews({})
      BY Zenon, <3>1 DEF SameViews
    <3>5. B!Unlink
      BY Zenon, <2>1, <3>1, <3>2, <3>3, <3>4, RefinesUnlink
    <3> QED BY Zenon, <3>5 DEF B!Next
  <2> QED BY Zenon, <2>1, <2>2, Steps, MasterRefines, StandbyRefines
<1> QED BY <1>1, <1>2, <1>3, NothingPostedInit, FlowInvariance, PTL
         DEF Spec, ImplementsBroadcast, B!Spec

=============================================================================
