---------------------------- MODULE GroupProofs -----------------------------
(***************************************************************************)
(* The inductive invariant of Group, and what follows from it for every set *)
(* of standbys, every content of the working directories and any number of *)
(* cuts and exits.                                                         *)
(*                                                                         *)
(* First lemmas on trees, sequences and links that the proofs of the steps *)
(* share, then the steps of the master, of the standbys and of the network. *)
(***************************************************************************)
EXTENDS Group, TLAPS

-----------------------------------------------------------------------------
(* Trees. *)

Path == Seq(Nat) \ {<< >>}
Node == [type : FileTypes, host_id : Nat]
Tree ==
    {t \in UNION {[D -> Node] : D \in SUBSET Path} :
        \A p \in DOMAIN t : Top(p) \in DOMAIN t}

\* The set of trees is what the type invariant calls a tree.
LEMMA TreeIsTree ==
    ASSUME NEW t \in Tree PROVE IsTree(t)
<1>1. PICK D \in SUBSET Path : t \in [D -> Node]
  BY Zenon DEF Tree
<1>2. DOMAIN t = D /\ t = [p \in DOMAIN t |-> t[p]]
  BY Zenon, <1>1
<1>3. \A p \in D : p \in Path /\ t[p] \in Node /\ Top(p) \in D
  BY Zenon, <1>1, <1>2 DEF Tree
<1> QED
  BY Zenon, <1>2, <1>3 DEF IsTree, Path, Node

\* How to show that a function is a tree.
LEMMA TreeIntro ==
    ASSUME NEW D \in SUBSET Path, NEW t \in [D -> Node],
           \A p \in D : Top(p) \in D
    PROVE  t \in Tree
  BY Zenon DEF Tree

\* What membership in Tree gives.
LEMMA TreeElim ==
    ASSUME NEW t \in Tree
    PROVE  /\ DOMAIN t \in SUBSET Path
           /\ t \in [DOMAIN t -> Node]
           /\ \A p \in DOMAIN t : Top(p) \in DOMAIN t
  BY Zenon DEF Tree

\* A path of one step is its own first step.
LEMMA TopTop ==
    ASSUME NEW p \in Path
    PROVE  /\ Top(p) \in Path
           /\ Top(Top(p)) = Top(p)
           /\ Len(p) <= 1 => Top(p) = p
<1>1. p \in Seq(Nat) /\ p # << >>
  BY Zenon DEF Path
<1>2. Head(p) \in Nat /\ Head(p) = p[1] /\ Len(p) \in Nat /\ Len(p) > 0
  BY <1>1
<1>3. <<Head(p)>> \in Seq(Nat) /\ <<Head(p)>> # << >>
  BY <1>2
<1>4. Head(<<Head(p)>>) = Head(p)
  BY <1>2
<1>5. ASSUME Len(p) <= 1 PROVE <<Head(p)>> = p
  <2>1. Len(p) = 1
    BY <1>2, <1>5
  <2> QED BY <1>1, <1>2, <2>1
<1> QED BY Zenon, <1>3, <1>4, <1>5 DEF Path, Top

\* initDirTree yields a tree.
LEMMA InitDirTreeType ==
    ASSUME NEW m \in Machine, NEW h \in Nat
    PROVE  InitDirTree(Shared[m], h) \in Tree
<1> DEFINE fs == Shared[m]
           D == {q \in DOMAIN fs : fs[q] \in FileTypes}
           t == [p \in D |-> [type |-> fs[p], host_id |-> h]]
<1>1. \A p \in DOMAIN fs :
        /\ p \in Path
        /\ Len(p) > 1 => Top(p) \in DOMAIN fs /\ fs[Top(p)] = "DIRECTORY"
  BY Zenon, SharedAssumption DEF Machine, Path, Top
<1>2. D \in SUBSET Path
  BY Zenon, <1>1
<1>3. ASSUME NEW p \in D PROVE Top(p) \in D
  <2>1. CASE Len(p) > 1
    BY Zenon, <1>1, <2>1 DEF FileTypes
  <2>2. CASE ~(Len(p) > 1)
    <3>1. Len(p) <= 1
      BY <1>1, <2>2 DEF Path
    <3> QED BY Zenon, <1>1, <3>1, TopTop
  <2> QED BY Zenon, <2>1, <2>2
<1>4. t \in [D -> Node]
  BY Zenon DEF Node
<1>5. t \in Tree
  BY Zenon, <1>2, <1>3, <1>4, TreeIntro
<1> QED BY Zenon, <1>5 DEF InitDirTree

\* setHostID yields a tree with the same paths and one owner.
LEMMA SetHostIDType ==
    ASSUME NEW t \in Tree, NEW h \in Nat
    PROVE  /\ SetHostID(t, h) \in Tree
           /\ DOMAIN SetHostID(t, h) = DOMAIN t
           /\ \A p \in DOMAIN t : SetHostID(t, h)[p].host_id = h
<1> DEFINE u == [p \in DOMAIN t |-> [t[p] EXCEPT !.host_id = h]]
<1>1. /\ DOMAIN t \in SUBSET Path
      /\ \A p \in DOMAIN t : t[p] \in Node /\ Top(p) \in DOMAIN t
  BY Zenon, TreeElim
<1>2. \A p \in DOMAIN t :
        [t[p] EXCEPT !.host_id = h] \in Node /\ [t[p] EXCEPT !.host_id = h].host_id = h
  BY <1>1 DEF Node
<1>3. u \in [DOMAIN t -> Node]
  BY Zenon, <1>2
<1>4. u \in Tree
  BY Zenon, <1>1, <1>3, TreeIntro
<1> QED BY Zenon, <1>2, <1>4 DEF SetHostID

\* Keeping whole root children, by their owner, keeps a tree.
LEMMA RestrictType ==
    ASSUME NEW t \in Tree, NEW D \in SUBSET DOMAIN t,
           \A p \in D : Top(p) \in D
    PROVE  /\ Restrict(t, D) \in Tree
           /\ DOMAIN Restrict(t, D) = D
           /\ \A p \in D : Restrict(t, D)[p] = t[p]
<1>1. DOMAIN t \in SUBSET Path /\ t \in [DOMAIN t -> Node]
  BY Zenon, TreeElim
<1>2. [p \in D |-> t[p]] \in [D -> Node]
  BY Zenon, <1>1
<1>3. [p \in D |-> t[p]] \in Tree
  BY Zenon, <1>1, <1>2, TreeIntro
<1> QED BY Zenon, <1>3 DEF Restrict

\* removeOf yields a tree: the nodes whose root child has another owner.
LEMMA RemoveOfType ==
    ASSUME NEW t \in Tree, NEW h \in Nat
    PROVE  /\ RemoveOf(t, h) \in Tree
           /\ DOMAIN RemoveOf(t, h) = {p \in DOMAIN t : t[Top(p)].host_id # h}
           /\ \A p \in DOMAIN RemoveOf(t, h) : RemoveOf(t, h)[p] = t[p]
<1> DEFINE D == {p \in DOMAIN t : t[Top(p)].host_id # h}
<1>1. \A p \in D : Top(p) \in D
  BY Zenon, TreeElim, TopTop
<1> HIDE DEF D
<1>2. D \in SUBSET DOMAIN t
  BY Zenon DEF D
<1>3. /\ Restrict(t, D) \in Tree
      /\ DOMAIN Restrict(t, D) = D
      /\ \A p \in D : Restrict(t, D)[p] = t[p]
  BY Zenon, <1>1, <1>2, RestrictType
<1> QED BY Zenon, <1>3 DEF RemoveOf, D

\* removeNotOf yields a tree: the nodes whose root child has this owner.
LEMMA RemoveNotOfType ==
    ASSUME NEW t \in Tree, NEW h \in Nat
    PROVE  RemoveNotOf(t, h) \in Tree
<1> DEFINE D == {p \in DOMAIN t : t[Top(p)].host_id = h}
<1>1. \A p \in D : Top(p) \in D
  BY Zenon, TreeElim, TopTop
<1> HIDE DEF D
<1>2. D \in SUBSET DOMAIN t
  BY Zenon DEF D
<1> QED BY Zenon, <1>1, <1>2, RestrictType DEF RemoveNotOf, D

\* merge yields a tree.  A root child of u comes with everything below it, or,
\* where its name is taken, not at all.
LEMMA MergeType ==
    ASSUME NEW t \in Tree, NEW u \in Tree
    PROVE  /\ Merge(t, u) \in Tree
           /\ DOMAIN t \subseteq DOMAIN Merge(t, u)
           /\ \A p \in DOMAIN t : Merge(t, u)[p] = t[p]
           /\ \A p \in DOMAIN Merge(t, u) \ DOMAIN t :
                /\ p \in DOMAIN u /\ Merge(t, u)[p] = u[p]
                /\ Top(p) \in DOMAIN Merge(t, u) \ DOMAIN t
<1> DEFINE fresh == {p \in DOMAIN u : Top(p) \notin DOMAIN t}
           D == DOMAIN t \cup fresh
           v == [p \in D |-> IF p \in DOMAIN t THEN t[p] ELSE u[p]]
<1>1. /\ DOMAIN t \in SUBSET Path /\ DOMAIN u \in SUBSET Path
      /\ \A p \in DOMAIN t : t[p] \in Node /\ Top(p) \in DOMAIN t
      /\ \A p \in DOMAIN u : u[p] \in Node /\ Top(p) \in DOMAIN u
  BY Zenon, TreeElim
<1>2. \A p \in fresh : Top(p) \in fresh
  BY Zenon, <1>1, TopTop
<1>3. D \in SUBSET Path /\ \A p \in D : Top(p) \in D
  BY Zenon, <1>1, <1>2
<1>4. v \in [D -> Node]
  BY Zenon, <1>1
<1>5. v \in Tree
  BY Zenon, <1>3, <1>4, TreeIntro
<1>6. \A p \in D \ DOMAIN t : p \in fresh /\ Top(p) \in D \ DOMAIN t
  BY Zenon, <1>2
<1> QED BY Zenon, <1>5, <1>6 DEF Merge

\* The loop of hasConflict on an empty first range compares nothing.
LEMMA EmptyRange ==
    ASSUME NEW a, NEW b, NEW last2 \in Nat \ {0}
    PROVE  CommonNames(a, b, 1, last2) = << >>
<1> DEFINE P == (1..1) \X (1..last2)
           Scan(f) == [at \in P |->
                          IF at[1] = 1 \/ at[2] = last2 THEN << >>
                          ELSE CASE a[at[1]] < b[at[2]] -> f[<<at[1] + 1, at[2]>>]
                                 [] b[at[2]] < a[at[1]] -> f[<<at[1], at[2] + 1>>]
                                 [] OTHER -> <<a[at[1]]>> \o f[<<at[1] + 1, at[2] + 1>>]]
           none == [at \in P |-> << >>]
<1>0. \A at \in P : at[1] = 1
  OBVIOUS
<1>1. \A f : Scan(f) = none
  <2> HIDE DEF P
  <2> QED BY Zenon, <1>0
<1>2. <<1, 1>> \in P
  OBVIOUS
<1>3. none[<<1, 1>>] = << >>
  BY Zenon, <1>2
<1> HIDE DEF none
<1>4. (CHOOSE f : f = Scan(f)) = none
  <2>1. \A f : f = Scan(f) <=> f = none
    BY Zenon, <1>1
  <2> HIDE DEF Scan
  <2>2. none = Scan(none)
    BY Zenon, <2>1
  <2>3. \E f : f = Scan(f)
    BY Zenon, <2>2
  <2> QED BY Zenon, <2>1, <2>3
<1> QED BY Zenon, <1>3, <1>4 DEF CommonNames

\* hasConflict finds no name in common, whatever the two trees hold: last1 is set
\* to begin() where end() is meant (dir_tree.cc:47), so a host that joins with a
\* name that is taken is never refused.  The only hypothesis is that the set of
\* root children has a size, as every std::set has.
THEOREM ConflictsUnseen ==
    ASSUME NEW t, NEW u, Cardinality(RootChildren(t)) \in Nat
    PROVE  HasConflict(t, u) = << >>
<1>1. Cardinality(RootChildren(t)) + 1 \in Nat \ {0}
  OBVIOUS
<1> QED BY Zenon, <1>1, EmptyRange DEF HasConflict

-----------------------------------------------------------------------------
(* The inductive invariant. *)

Hosts == Seq(Host) \ {<< >>}
Join == [type : {0}, tree : Tree, host : Host]
Packet == [type : {1}, id : Nat, tree : Tree, hosts : Hosts]
            \cup [type : {2}, tree : Tree, hosts : Hosts]
Call == [call : {"write"}, packet : Packet]
            \cup [call : {"writeTo"}, to : Standby, packet : Packet]
Op == {"none", "pending", "ok", "err"}
Conn == [id : Nat, queue : Seq(Packet), rd : Op, wr : Seq(Op)]
Process ==
    [main : {"init", "started", "waiting", "mounted", "exited"},
     sem : Nat, waiting : BOOLEAN, hostId : Nat, dirTree : Tree, hosts : Hosts,
     post : Seq(Join), queue : Seq(Join), rd : Op, wr : Op]

WireType ==
    /\ acceptor \in {"closed", "listening", "failed"}
    /\ masterEnd \in [Standby -> {"none", "open", "closed"}]
    /\ standbyEnd \in [Standby -> {"none", "connecting", "open", "failed", "closed"}]
    /\ toMaster \in [Standby -> Seq(Join)]
    /\ toStandby \in [Standby -> Seq(Packet)]
    /\ cut \in SUBSET Standby

MasterType ==
    /\ main \in {"init", "started", "pushing", "colliding", "serving", "exited"}
    /\ dirTree \in Tree
    /\ hosts \in Hosts
    /\ maxHostId \in Nat
    /\ posted \in Seq(Call)
    /\ conn \in [Standby -> Conn]
    /\ raced \in BOOLEAN

StandbyType == sb \in [Standby -> Process]

\* Only an accepted connection has an id or reads; a read that finished before
\* a close has its packet; what is pending is on an
\* open socket; and an open connection writes exactly when it has packets.
ConnInv ==
    \A s \in Standby :
        /\ masterEnd[s] = "none" => conn[s].id = 0 /\ conn[s].rd = "none"
        /\ conn[s].rd = "ok" => toMaster[s] # << >>
        /\ \A i \in DOMAIN conn[s].wr : conn[s].wr[i] = "pending" => masterEnd[s] = "open"
        /\ masterEnd[s] = "open" =>
             /\ Len(conn[s].wr) <= 1
             /\ conn[s].wr = << >> <=> conn[s].queue = << >>

\* The same for a standby, and what its semaphore is worth.
ProcAt(p, incoming) ==
    /\ p.rd = "ok" => incoming # << >>
    /\ p.wr = "pending" => p.queue # << >>
    /\ p.main \in {"init", "started", "waiting"} /\ ~p.waiting => p.sem > 0
    /\ p.main = "mounted" => ~p.waiting
    /\ p.waiting => p.sem = 0
ProcInv == \A s \in Standby : ProcAt(sb[s], toStandby[s])

\* Who owns the master's nodes: a whole root child has one owner, and the owner
\* is the master or a connection that carries its id.
OwnerInv ==
    /\ \A p \in DOMAIN dirTree :
         dirTree[p].host_id # 0 /\ dirTree[p].host_id = dirTree[Top(p)].host_id
    /\ maxHostId >= 2
    /\ \A p \in DOMAIN dirTree :
         \/ dirTree[p].host_id = 1
         \/ \E s \in Standby : conn[s].id = dirTree[p].host_id
         \/ main = "exited"
    /\ \A s \in Standby : conn[s].id # 0 => conn[s].id \in 2..(maxHostId - 1)
    /\ \A s, t \in Standby : conn[s].id = conn[t].id /\ conn[s].id # 0 => s = t

\* A standby sends its metadata once.  They are posted, being written, on their
\* way, or registered; a connection that has an id gets no second join.
JoinAt(p, c, incoming) ==
    /\ p.main \in {"init", "started"} =>
         p.post = << >> /\ p.queue = << >> /\ p.wr # "pending" /\ incoming = << >> /\ c.id = 0
    /\ p.post # << >> =>
         p.queue = << >> /\ p.wr # "pending" /\ incoming = << >> /\ c.id = 0
    /\ p.wr = "pending" => incoming = << >> /\ c.id = 0
    /\ incoming # << >> => c.id = 0
    /\ Len(p.post) <= 1 /\ Len(incoming) <= 1
JoinInv == \A s \in Standby : JoinAt(sb[s], conn[s], toMaster[s])

TypeInv == WireType /\ MasterType /\ StandbyType
IInv == TypeInv /\ ConnInv /\ ProcInv /\ OwnerInv /\ JoinInv

-----------------------------------------------------------------------------
(* Steps that leave a part of the invariant alone. *)

\* Nothing a connection's part speaks of has changed.
LEMMA ConnFrame ==
    ConnInv /\ UNCHANGED <<conn, toMaster, masterEnd>> => ConnInv'
  BY DEF ConnInv

\* Nothing the standbys' part speaks of has changed.
LEMMA ProcFrame ==
    ProcInv /\ UNCHANGED <<sb, toStandby>> => ProcInv'
  BY Zenon DEF ProcInv

\* Nothing the owners' part speaks of has changed.
LEMMA OwnerFrame ==
    OwnerInv /\ UNCHANGED <<dirTree, conn, maxHostId, main>> => OwnerInv'
  BY Zenon DEF OwnerInv

\* Connections change, but not their ids.
LEMMA OwnerFrameIds ==
    /\ OwnerInv
    /\ UNCHANGED <<dirTree, maxHostId, main>>
    /\ \A s \in Standby : conn'[s].id = conn[s].id
    => OwnerInv'
  BY Zenon DEF OwnerInv

\* The master takes no join back and registers none without taking it in.
LEMMA JoinFrame ==
    ASSUME JoinInv, UNCHANGED sb,
           \A s \in Standby :
             /\ toMaster'[s] \in {toMaster[s], << >>}
             /\ conn'[s].id \in {conn[s].id, 0}
    PROVE  JoinInv'
<1> SUFFICES ASSUME NEW s \in Standby
             PROVE  JoinAt(sb[s], conn'[s], toMaster'[s])
  BY Zenon DEF JoinInv
<1>1. JoinAt(sb[s], conn[s], toMaster[s])
  BY Zenon DEF JoinInv
<1>2. JoinAt(sb[s], conn'[s], toMaster[s])
  BY Zenon, <1>1 DEF JoinAt
<1>3. CASE toMaster'[s] = toMaster[s]
  BY Zenon, <1>2, <1>3
<1>4. CASE toMaster'[s] = << >>
  <2>1. Len(<< >>) <= 1
    OBVIOUS
  <2> QED BY Zenon, <1>2, <1>4, <2>1 DEF JoinAt
<1> QED BY Zenon, <1>3, <1>4

\* The connection that is not there yet.
LEMMA NoConnectionType == NoConnection \in Conn
  BY DEF NoConnection, Conn, Op

\* A sequence of at most one element that is not empty has one.
LEMMA NonEmptyLen ==
    ASSUME NEW S, NEW q \in Seq(S), q # << >>, Len(q) <= 1
    PROVE  Len(q) = 1
<1>1. Len(q) \in Nat /\ Len(q) # 0
  OBVIOUS
<1> QED BY <1>1

\* A sequence with an element is not empty.
LEMMA LenNonEmpty ==
    ASSUME NEW q, Len(q) = 1
    PROVE  q # << >>
<1>1. Len(<< >>) = 0
  BY Zenon
<1> SUFFICES ASSUME q = << >> PROVE FALSE
  BY Zenon
<1>2. Len(q) = 0
  BY Zenon, <1>1
<1> QED BY <1>2

\* Taking the only element of a sequence leaves it empty.
LEMMA TailOfOne ==
    ASSUME NEW S, NEW q \in Seq(S), Len(q) = 1
    PROVE  Head(q) \in S /\ Tail(q) = << >>
<1>1. q # << >>
  BY Zenon, LenNonEmpty
<1>2. Head(q) \in S /\ Tail(q) \in Seq(S) /\ Len(Tail(q)) = 0
  BY <1>1
<1> DEFINE r == Tail(q)
<1>3. r \in Seq(S) /\ Len(r) = 0
  BY Zenon, <1>2
<1> HIDE DEF r
<1>4. r = << >>
  BY <1>3
<1> QED BY Zenon, <1>2, <1>4 DEF r

\* Handing a packet to the kernel adds it to the link or drops it.
LEMMA DeliverType ==
    ASSUME NEW S, NEW link \in [Standby -> Seq(S)], NEW s \in Standby, NEW packet \in S,
           NEW gone \in BOOLEAN
    PROVE  /\ Deliver(link, s, packet, gone) \in [Standby -> Seq(S)]
           /\ \A t \in Standby :
                link[t] # << >> => Deliver(link, s, packet, gone)[t] # << >>
<1> DEFINE more == [link EXCEPT ![s] = Append(@, packet)]
<1>1. Append(link[s], packet) \in Seq(S) /\ Append(link[s], packet) # << >>
  OBVIOUS
<1>2. more \in [Standby -> Seq(S)]
  BY Zenon, <1>1
<1>3. \A t \in Standby : link[t] # << >> => more[t] # << >>
  BY Zenon, <1>1
<1> QED BY Zenon, <1>2, <1>3 DEF Deliver

\* The first state satisfies the invariant.
LEMMA InitInv == Init => IInv
<1> SUFFICES ASSUME Init PROVE IInv
  BY Zenon
<1>1. Self \in Host
  BY Zenon DEF Self, Host, Machine
<1>2. dirTree \in Tree
  BY Zenon, InitDirTreeType DEF Init, MasterInit, Machine
<1>3. MasterType
  <2>1. hosts \in Hosts
    BY <1>1 DEF Init, MasterInit, Hosts
  <2>2. conn \in [Standby -> Conn]
    BY Zenon, NoConnectionType DEF Init, MasterInit
  <2>3. posted \in Seq(Call)
    BY DEF Init, MasterInit
  <2> QED BY Zenon, <1>2, <2>1, <2>2, <2>3 DEF Init, MasterInit, MasterType
<1>4. WireType
  BY DEF Init, WireInit, WireType
<1>5. ASSUME NEW s \in Standby PROVE sb[s] \in Process
  <2>1. InitDirTree(Shared[s], 0) \in Tree
    BY Zenon, InitDirTreeType DEF Machine
  <2>2. <<[id |-> 0, address |-> Master, working_dir |-> s]>> \in Hosts
    BY DEF Hosts, Host, Machine
  <2> QED BY <2>1, <2>2 DEF Init, StandbyInit, Process, Op
<1>6. StandbyType
  BY Zenon, <1>5 DEF StandbyType, Init, StandbyInit
<1>7. ConnInv
  BY DEF Init, WireInit, MasterInit, NoConnection, ConnInv
<1>8. ProcInv
  BY Zenon DEF Init, StandbyInit, ProcInv, ProcAt
<1>9. \A p \in DOMAIN dirTree : dirTree[p].host_id = 1 /\ Top(p) \in DOMAIN dirTree
  <2>1. \A p \in DOMAIN dirTree : dirTree[p].host_id = 1
    BY Zenon DEF Init, MasterInit, InitDirTree
  <2> QED BY Zenon, <1>2, <2>1, TreeElim
<1>10. OwnerInv
  BY <1>9 DEF Init, MasterInit, NoConnection, OwnerInv
<1>11. JoinInv
  BY DEF Init, MasterInit, StandbyInit, WireInit, NoConnection, JoinInv, JoinAt
<1> QED BY Zenon, <1>3, <1>4, <1>6, <1>7, <1>8, <1>10, <1>11 DEF IInv, TypeInv

-----------------------------------------------------------------------------
(* The parts the master's handlers are made of: what they do to one connection. *)

\* Changing fields of a connection keeps the others: queue and id, in close(),
LEMMA ConnClosed ==
    ASSUME NEW c \in Conn, NEW q \in Seq(Packet)
    PROVE  LET d == [c EXCEPT !.queue = q, !.id = 0]
           IN  d \in Conn /\ d.id = 0 /\ d.rd = c.rd /\ d.wr = c.wr
  BY Zenon DEF Conn

\* ... the read in progress,
LEMMA ConnRead ==
    ASSUME NEW c \in Conn, NEW r \in Op
    PROVE  LET d == [c EXCEPT !.rd = r]
           IN  d \in Conn /\ d.rd = r /\ d.id = c.id /\ d.wr = c.wr /\ d.queue = c.queue
  BY Zenon DEF Conn

\* ... the writes in progress,
LEMMA ConnWrite ==
    ASSUME NEW c \in Conn, NEW w \in Seq(Op)
    PROVE  LET d == [c EXCEPT !.wr = w]
           IN  d \in Conn /\ d.wr = w /\ d.id = c.id /\ d.rd = c.rd /\ d.queue = c.queue
  BY Zenon DEF Conn

\* A step that changes one connection and closes none.
LEMMA ConnStep ==
    ASSUME IInv, NEW s \in Standby, NEW c \in Conn,
           conn' = [conn EXCEPT ![s] = c],
           UNCHANGED masterEnd,
           \A t \in Standby \ {s} : toMaster'[t] = toMaster[t],
           masterEnd[s] = "none" => c.id = 0 /\ c.rd = "none",
           c.rd = "ok" => toMaster'[s] # << >>,
           \A i \in DOMAIN c.wr : c.wr[i] = "pending" => masterEnd[s] = "open",
           masterEnd[s] = "open" =>
             Len(c.wr) <= 1 /\ (c.wr = << >> <=> c.queue = << >>)
    PROVE  /\ conn' \in [Standby -> Conn]
           /\ conn'[s] = c /\ \A t \in Standby \ {s} : conn'[t] = conn[t]
           /\ ConnInv'
<1>1. /\ conn' \in [Standby -> Conn]
      /\ conn'[s] = c /\ \A t \in Standby \ {s} : conn'[t] = conn[t]
  BY Zenon DEF IInv, TypeInv, MasterType
<1>2. ASSUME NEW t \in Standby
      PROVE  /\ masterEnd'[t] = "none" => conn'[t].id = 0 /\ conn'[t].rd = "none"
             /\ conn'[t].rd = "ok" => toMaster'[t] # << >>
             /\ \A i \in DOMAIN conn'[t].wr :
                  conn'[t].wr[i] = "pending" => masterEnd'[t] = "open"
             /\ masterEnd'[t] = "open" =>
                  /\ Len(conn'[t].wr) <= 1
                  /\ conn'[t].wr = << >> <=> conn'[t].queue = << >>
  <2>1. CASE t = s
    BY Zenon, <1>1, <2>1
  <2>2. CASE t # s
    BY Zenon, <1>1, <2>2 DEF IInv, ConnInv
  <2> QED BY Zenon, <2>1, <2>2
<1>3. ConnInv'
  BY Zenon, <1>2 DEF ConnInv
<1> QED BY Zenon, <1>1, <1>3

\* Appending a packet to a connection's queue keeps its type and id, and the
\* write_in_progress test keeps one write going while there are packets.
LEMMA EnqueueType ==
    ASSUME NEW c \in Conn, NEW packet \in Packet, NEW open \in BOOLEAN
    PROVE  LET e == Enqueue(c, packet, open)
           IN  /\ e \in Conn
               /\ e.id = c.id /\ e.rd = c.rd
               /\ e.queue = Append(c.queue, packet) /\ e.queue # << >>
               /\ c.queue # << >> => e.wr = c.wr
               /\ c.queue = << >> =>
                    e.wr = Append(c.wr, IF open THEN "pending" ELSE "err")
<1> DEFINE q == Append(c.queue, packet)
           op == IF open THEN "pending" ELSE "err"
           w == Append(c.wr, op)
           pushed == [c EXCEPT !.queue = q]
           written == [pushed EXCEPT !.wr = w]
<1>1. c.queue \in Seq(Packet) /\ c.wr \in Seq(Op) /\ op \in Op
  BY Zenon DEF Conn, Op
<1>2. q \in Seq(Packet) /\ q # << >>
  BY <1>1
<1>3. w \in Seq(Op)
  BY <1>1
<1> HIDE DEF q, w, op
<1>4. /\ pushed \in Conn /\ pushed.queue = q
      /\ pushed.wr = c.wr /\ pushed.id = c.id /\ pushed.rd = c.rd
  BY Zenon, <1>2 DEF Conn
<1>5. /\ written \in Conn /\ written.queue = q
      /\ written.wr = w /\ written.id = c.id /\ written.rd = c.rd
  BY Zenon, <1>2, <1>3 DEF Conn
<1>6. Enqueue(c, packet, open) = IF c.queue = << >> THEN written ELSE pushed
  BY Zenon, <1>4 DEF Enqueue, DoWrite, q, w, op
<1> HIDE DEF pushed, written
<1> QED BY Zenon, <1>2, <1>4, <1>5, <1>6 DEF q, w, op

\* Popping the packet that was written, and writing the next if there is one.
LEMMA PopType ==
    ASSUME NEW c \in Conn, c.wr # << >>, c.queue # << >>, NEW open \in BOOLEAN
    PROVE  LET d == [c EXCEPT !.wr = Tail(@), !.queue = Tail(@)]
               e == IF d.queue = << >> THEN d ELSE DoWrite(d, open)
           IN  /\ e \in Conn
               /\ e.id = c.id /\ e.rd = c.rd /\ e.queue = Tail(c.queue)
               /\ Tail(c.queue) = << >> => e.wr = Tail(c.wr)
               /\ Tail(c.queue) # << >> =>
                    e.wr = Append(Tail(c.wr), IF open THEN "pending" ELSE "err")
<1> DEFINE w == Tail(c.wr)
           q == Tail(c.queue)
           op == IF open THEN "pending" ELSE "err"
           v == Append(w, op)
           d == [c EXCEPT !.wr = w, !.queue = q]
           e == [d EXCEPT !.wr = v]
<1>1. c.queue \in Seq(Packet) /\ c.wr \in Seq(Op) /\ op \in Op
  BY Zenon DEF Conn, Op
<1>2. q \in Seq(Packet) /\ w \in Seq(Op)
  BY <1>1
<1>3. v \in Seq(Op)
  BY <1>1, <1>2
<1> HIDE DEF q, w, v, op
<1>4. /\ d \in Conn /\ d.queue = q /\ d.wr = w /\ d.id = c.id /\ d.rd = c.rd
  BY Zenon, <1>2 DEF Conn
<1> HIDE DEF d
<1>5. /\ e \in Conn /\ e.queue = q /\ e.wr = v /\ e.id = c.id /\ e.rd = c.rd
  BY Zenon, <1>3, <1>4, ConnWrite
<1>6. e = DoWrite(d, open)
  BY Zenon, <1>4 DEF DoWrite, v, op
<1> HIDE DEF e
<1>7. [c EXCEPT !.wr = Tail(@), !.queue = Tail(@)] = d
  BY Zenon DEF d, q, w, Conn
<1> QED BY Zenon, <1>4, <1>5, <1>6, <1>7 DEF v, q, w, op

\* A tree and a host table make an update.
LEMMA UpdateType ==
    ASSUME NEW tree \in Tree, NEW hs \in Hosts
    PROVE  Update(tree, hs) \in Call
  BY Zenon DEF Update, UpdatePacket, Call, Packet

\* What may be read of the host table is a host table.
LEMMA HostsSeenType ==
    ASSUME NEW hs \in Hosts, NEW seen \in HostsSeen(hs)
    PROVE  seen \in Hosts
<1>1. hs[1] \in Host
  BY DEF Hosts
<1>2. Append(hs, hs[1]) \in Hosts
  BY <1>1 DEF Hosts
<1> QED BY Zenon, <1>2 DEF HostsSeen

\* close() aborts what is pending; a read counts as finished only if there is
\* a packet.
LEMMA AbortedType ==
    ASSUME NEW s, NEW c \in Conn, NEW a \in Aborted(s, c)
    PROVE  /\ a \in Conn
           /\ a.rd = "ok" => c.rd = "ok" \/ toMaster[s] # << >>
           /\ \A i \in DOMAIN a.wr : a.wr[i] # "pending"
<1> DEFINE writes == [i \in DOMAIN c.wr |-> IF c.wr[i] = "pending" THEN "err" ELSE c.wr[i]]
<1>1. c.wr \in Seq(Op) /\ c.rd \in Op
  BY Zenon DEF Conn
<1>2. writes \in Seq(Op) /\ \A i \in DOMAIN writes : writes[i] # "pending"
  <2>1. writes \in [1..Len(c.wr) -> Op]
    BY <1>1 DEF Op
  <2> QED BY <1>1, <2>1
<1>3. PICK r : /\ a = [c EXCEPT !.rd = r, !.wr = writes]
               /\ r \in Op /\ (r = "ok" => c.rd = "ok" \/ toMaster[s] # << >>)
  BY Zenon, <1>1 DEF Aborted, Op
<1>4. a.rd = r /\ a.wr = writes
  BY Zenon, <1>3 DEF Conn
<1>5. a \in Conn
  BY Zenon, <1>2, <1>3 DEF Conn
<1> QED BY Zenon, <1>2, <1>3, <1>4, <1>5

\* close() of a connection, whose tuple the calling handler has changed to c,
\* keeps the invariant: all nodes of its slave leave the tree with its id.
LEMMA CloseInv ==
    ASSUME IInv, NEW s \in Standby, NEW c \in Conn, Close(s, c),
           UNCHANGED <<main, maxHostId>>,
           c.id = conn[s].id,
           masterEnd[s] = "none" => c.rd = "none",
           \A t \in Standby \ {s} : toMaster'[t] = toMaster[t],
           c.rd = "ok" => toMaster[s] # << >>,
           c.rd \in {"ok", "pending"} => toMaster'[s] = toMaster[s],
           \A i \in DOMAIN c.wr : c.wr[i] = "pending" => masterEnd[s] = "open"
    PROVE  /\ masterEnd' \in [Standby -> {"none", "open", "closed"}]
           /\ conn' \in [Standby -> Conn]
           /\ dirTree' \in Tree
           /\ posted' \in Seq(Call)
           /\ \A t \in Standby : conn'[t].id \in {conn[t].id, 0}
           /\ ConnInv'
           /\ OwnerInv'
<1> USE DEF IInv, TypeInv
<1>0. c.id \in Nat /\ c.rd \in Op /\ conn[s] \in Conn
  BY Zenon DEF Conn, MasterType
<1>1. CASE masterEnd[s] # "open"
  <2>1. conn' = [conn EXCEPT ![s] = c] /\ UNCHANGED <<masterEnd, dirTree, posted>>
    BY Zenon, <1>1 DEF Close
  <2>2. conn' \in [Standby -> Conn]
    BY Zenon, <2>1 DEF MasterType
  <2>3. ConnInv'
    BY <1>0, <1>1, <2>1 DEF ConnInv, MasterType, WireType
  <2>4. OwnerInv'
    BY Zenon, <2>1, OwnerFrameIds DEF MasterType
  <2>5. \A t \in Standby : conn'[t].id = conn[t].id
    BY Zenon, <2>1 DEF MasterType
  <2> QED BY Zenon, <2>1, <2>2, <2>3, <2>4, <2>5 DEF MasterType, WireType
<1>2. CASE masterEnd[s] = "open"
  <2>1. PICK a \in Aborted(s, c) :
          conn' = [conn EXCEPT ![s] = [a EXCEPT !.queue = << >>, !.id = 0]]
    BY Zenon, <1>2 DEF Close
  <2> DEFINE b == [a EXCEPT !.queue = << >>, !.id = 0]
  <2>2. /\ a \in Conn
        /\ a.rd = "ok" => c.rd = "ok" \/ toMaster[s] # << >>
        /\ \A i \in DOMAIN a.wr : a.wr[i] # "pending"
    BY Zenon, AbortedType
  <2>3. b \in Conn /\ b.id = 0 /\ b.rd = a.rd /\ b.wr = a.wr
    <3>1. << >> \in Seq(Packet)
      OBVIOUS
    <3> QED BY Zenon, <2>2, <3>1, ConnClosed
  <2>4. a.rd = "ok" => c.rd \in {"ok", "pending"}
    BY Zenon, <1>0, <2>1 DEF Aborted, Conn
  <2> HIDE DEF b
  <2>5. /\ conn' \in [Standby -> Conn]
        /\ conn'[s] = b /\ \A t \in Standby \ {s} : conn'[t] = conn[t]
    BY Zenon, <2>1, <2>3 DEF MasterType, b
  <2>6. /\ masterEnd' \in [Standby -> {"none", "open", "closed"}]
        /\ masterEnd'[s] = "closed"
        /\ \A t \in Standby \ {s} : masterEnd'[t] = masterEnd[t]
    BY Zenon, <1>2 DEF Close, WireType
  <2>7. ConnInv'
    <3> SUFFICES ASSUME NEW t \in Standby
                 PROVE  /\ masterEnd'[t] = "none" => conn'[t].id = 0 /\ conn'[t].rd = "none"
                        /\ conn'[t].rd = "ok" => toMaster'[t] # << >>
                        /\ \A i \in DOMAIN conn'[t].wr :
                             conn'[t].wr[i] = "pending" => masterEnd'[t] = "open"
                        /\ masterEnd'[t] = "open" =>
                             /\ Len(conn'[t].wr) <= 1
                             /\ conn'[t].wr = << >> <=> conn'[t].queue = << >>
      BY Zenon DEF ConnInv
    <3>1. CASE t = s
      BY Zenon, <2>2, <2>3, <2>4, <2>5, <2>6, <3>1
    <3>2. CASE t # s
      BY <2>5, <2>6, <3>2 DEF ConnInv
    <3> QED BY Zenon, <3>1, <3>2
  <2>11. \A t \in Standby : conn'[t].id \in {conn[t].id, 0}
    BY Zenon, <2>3, <2>5
  <2>8. DisconnectSlave(c.id)
    BY Zenon, <1>2 DEF Close
  <2>9. CASE c.id = 0
    <3>1. UNCHANGED <<dirTree, posted>>
      BY Zenon, <2>8, <2>9 DEF DisconnectSlave
    <3>2. \A t \in Standby : conn'[t].id = conn[t].id
      BY Zenon, <2>3, <2>5, <2>9
    <3>3. OwnerInv'
      BY Zenon, <3>1, <3>2, OwnerFrameIds
    <3> QED BY Zenon, <2>5, <2>6, <2>7, <2>11, <3>1, <3>3 DEF MasterType
  <2>10. CASE c.id # 0
    <3>1. PICK seen \in HostsSeen(hosts) :
            posted' = Append(posted, Update(RemoveOf(dirTree, c.id), seen))
      BY Zenon, <2>8, <2>10 DEF DisconnectSlave
    <3>2. dirTree' = RemoveOf(dirTree, c.id)
      BY Zenon, <2>8, <2>10 DEF DisconnectSlave
    <3>3. /\ dirTree' \in Tree
          /\ DOMAIN dirTree' = {p \in DOMAIN dirTree : dirTree[Top(p)].host_id # c.id}
          /\ \A p \in DOMAIN dirTree' : dirTree'[p] = dirTree[p]
      BY Zenon, <1>0, <3>2, RemoveOfType DEF MasterType
    <3>4. posted' \in Seq(Call)
      <4>1. Update(RemoveOf(dirTree, c.id), seen) \in Call
        BY Zenon, <3>2, <3>3, HostsSeenType, UpdateType DEF MasterType
      <4> QED BY <3>1, <4>1 DEF MasterType
    <3>5. \A p \in DOMAIN dirTree' : Top(p) \in DOMAIN dirTree'
      BY Zenon, <3>3, TreeElim
    <3>6. \A p \in DOMAIN dirTree' : dirTree'[p].host_id # c.id
      BY Zenon, <3>3 DEF OwnerInv
    <3>7. \A p \in DOMAIN dirTree' :
            \/ dirTree'[p].host_id = 1
            \/ \E t \in Standby : conn'[t].id = dirTree'[p].host_id
            \/ main' = "exited"
      <4> SUFFICES ASSUME NEW p \in DOMAIN dirTree',
                          dirTree'[p].host_id # 1, main' # "exited"
                   PROVE  \E t \in Standby : conn'[t].id = dirTree'[p].host_id
        BY Zenon
      <4>1. PICK t \in Standby : conn[t].id = dirTree'[p].host_id
        BY <3>3 DEF OwnerInv
      <4>2. t # s
        BY Zenon, <3>6, <4>1
      <4> QED BY Zenon, <2>5, <4>1, <4>2
    <3>8. \A t \in Standby : conn'[t].id # 0 => t # s /\ conn'[t].id = conn[t].id
      BY Zenon, <2>3, <2>5
    <3>9. OwnerInv'
      BY <3>3, <3>5, <3>7, <3>8 DEF OwnerInv
    <3> QED BY Zenon, <2>5, <2>6, <2>7, <2>11, <3>3, <3>4, <3>9
  <2> QED BY Zenon, <2>9, <2>10
<1> QED BY Zenon, <1>1, <1>2

\* The facts about one connection that its handlers start from.
LEMMA ConnFacts ==
    ASSUME IInv, NEW s \in Standby
    PROVE  /\ conn[s] \in Conn
           /\ conn[s].id \in Nat /\ conn[s].rd \in Op
           /\ conn[s].wr \in Seq(Op) /\ conn[s].queue \in Seq(Packet)
           /\ masterEnd[s] = "none" => conn[s].id = 0 /\ conn[s].rd = "none"
           /\ conn[s].rd = "ok" => toMaster[s] # << >>
           /\ \A i \in DOMAIN conn[s].wr : conn[s].wr[i] = "pending" => masterEnd[s] = "open"
           /\ masterEnd[s] = "open" =>
                /\ Len(conn[s].wr) <= 1
                /\ conn[s].wr = << >> <=> conn[s].queue = << >>
  BY Zenon DEF IInv, TypeInv, MasterType, Conn, ConnInv

----------------------------------------------------------------------------
(* The master takes in a join: the invariant is kept whether the standby is  *)
(* registered or turned away.                                                *)

\* Registering a standby: its nodes get a new id, which its connection carries.
LEMMA RegisterSlaveInv ==
    ASSUME IInv, NEW s \in Standby, NEW packet \in Join, RegisterSlave(s, packet),
           conn[s].rd # "none", conn[s].id = 0,
           \A t \in Standby \ {s} : toMaster'[t] = toMaster[t]
    PROVE  /\ main' \in {"init", "started", "pushing", "colliding", "serving", "exited"}
           /\ masterEnd' = masterEnd
           /\ dirTree' \in Tree /\ hosts' \in Hosts /\ maxHostId' \in Nat
           /\ posted' \in Seq(Call) /\ conn' \in [Standby -> Conn] /\ raced' \in BOOLEAN
           /\ \A t \in Standby \ {s} : conn'[t] = conn[t]
           /\ ConnInv' /\ OwnerInv'
<1> USE DEF IInv, TypeInv
<1> DEFINE id == maxHostId
           mine == SetHostID(packet.tree, id)
           tree == Merge(dirTree, mine)
           c == [conn[s] EXCEPT !.id = id, !.rd = ReadNext(s)]
<1>1. id \in Nat /\ dirTree \in Tree /\ packet.tree \in Tree /\ packet.host \in Host
      /\ hosts \in Hosts
  BY Zenon DEF MasterType, Join
<1>2. PICK address \in RemoteAddresses(s) :
        /\ maxHostId' = id + 1
        /\ dirTree' = tree
        /\ PushSlaveHost([packet.host EXCEPT !.id = id, !.address = address])
        /\ conn' = [conn EXCEPT ![s].id = id, ![s].rd = ReadNext(s)]
        /\ \E seen \in HostsSeen(hosts') :
             posted' = posted \o
               <<[call |-> "writeTo", to |-> s, packet |-> RecognitionPacket(id, tree, seen)],
                 Update(tree, seen)>>
        /\ UNCHANGED masterEnd
  BY Zenon DEF RegisterSlave
<1> DEFINE host == [packet.host EXCEPT !.id = id, !.address = address]
<1>3. host \in Host
  <2>1. address \in Machine \cup {NoAddress}
    BY Zenon, <1>2 DEF RemoteAddresses, Machine
  <2> QED BY Zenon, <1>1, <2>1 DEF Host
<1> HIDE DEF host
<1>4. /\ hosts' \in Hosts
      /\ main' \in {"init", "started", "pushing", "colliding", "serving", "exited"}
      /\ (main' = "exited" <=> main = "exited")
      /\ raced' \in BOOLEAN
  <2>1. Append(hosts, host) \in Hosts
    BY <1>1, <1>3 DEF Hosts
  <2>2. PushSlaveHost(host)
    BY Zenon, <1>2 DEF host
  <2> QED BY Zenon, <2>1, <2>2 DEF PushSlaveHost, MasterType
<1>5. /\ mine \in Tree
      /\ \A p \in DOMAIN mine : mine[p].host_id = id
  BY Zenon, <1>1, SetHostIDType
<1> HIDE DEF mine
<1>6. /\ tree \in Tree
      /\ DOMAIN dirTree \subseteq DOMAIN tree
      /\ \A p \in DOMAIN dirTree : tree[p] = dirTree[p]
      /\ \A p \in DOMAIN tree \ DOMAIN dirTree :
           /\ p \in DOMAIN mine /\ tree[p] = mine[p]
           /\ Top(p) \in DOMAIN tree \ DOMAIN dirTree
  BY Zenon, <1>1, <1>5, MergeType
<1> HIDE DEF tree
<1>7. \A p \in DOMAIN tree \ DOMAIN dirTree : tree[p].host_id = id /\ tree[Top(p)].host_id = id
  BY Zenon, <1>5, <1>6
<1>8. posted' \in Seq(Call)
  <2>1. PICK seen \in HostsSeen(hosts') :
          posted' = posted \o
            <<[call |-> "writeTo", to |-> s, packet |-> RecognitionPacket(id, tree, seen)],
              Update(tree, seen)>>
    BY Zenon, <1>2
  <2>2. seen \in Hosts
    BY Zenon, <1>4, <2>1, HostsSeenType
  <2> DEFINE a == [call |-> "writeTo", to |-> s, packet |-> RecognitionPacket(id, tree, seen)]
             b == Update(tree, seen)
  <2>3. a \in Call
    BY Zenon, <1>1, <1>6, <2>2 DEF RecognitionPacket, Call, Packet
  <2>4. b \in Call
    BY Zenon, <1>6, <2>2, UpdateType
  <2> HIDE DEF a, b
  <2>5. <<a, b>> \in Seq(Call)
    BY <2>3, <2>4
  <2>6. posted' = posted \o <<a, b>>
    BY Zenon, <2>1 DEF a, b
  <2>7. posted \in Seq(Call)
    BY Zenon DEF MasterType
  <2> QED BY <2>5, <2>6, <2>7
<1>9. ReadNext(s) \in Op /\ ReadNext(s) \in {"pending", "err"}
  BY Zenon DEF ReadNext, Op
<1>10. conn[s] \in Conn /\ conn' = [conn EXCEPT ![s] = c]
  BY Zenon, <1>2, ConnFacts DEF MasterType
<1>11. /\ c \in Conn /\ c.id = id /\ c.rd = ReadNext(s)
       /\ c.wr = conn[s].wr /\ c.queue = conn[s].queue
  <2> DEFINE rd == ReadNext(s)
  <2>1. c = [conn[s] EXCEPT !.id = id, !.rd = rd]
    BY Zenon
  <2>2. rd \in Op
    BY Zenon, <1>9
  <2> HIDE DEF c, rd
  <2>3. c \in Conn /\ c.id = id /\ c.rd = rd
        /\ c.wr = conn[s].wr /\ c.queue = conn[s].queue
    BY Zenon, <1>1, <1>10, <2>1, <2>2 DEF Conn
  <2> QED BY Zenon, <2>3 DEF rd
<1> HIDE DEF c
<1>12. /\ conn' \in [Standby -> Conn]
       /\ conn'[s] = c /\ \A t \in Standby \ {s} : conn'[t] = conn[t]
       /\ ConnInv'
  <2>1. masterEnd[s] # "none"
    BY Zenon, ConnFacts
  <2>2. /\ \A i \in DOMAIN c.wr : c.wr[i] = "pending" => masterEnd[s] = "open"
        /\ masterEnd[s] = "open" =>
             Len(c.wr) <= 1 /\ (c.wr = << >> <=> c.queue = << >>)
    BY Zenon, <1>11, ConnFacts
  <2> QED BY Zenon, <1>2, <1>9, <1>10, <1>11, <2>1, <2>2, ConnStep
<1>13. OwnerInv'
  <2>0. OwnerInv
    BY Zenon
  <2> HIDE DEF IInv, TypeInv
  <2>1. \A p \in DOMAIN tree : Top(p) \in DOMAIN tree
    BY Zenon, <1>6, TreeElim
  <2>7. \A p \in DOMAIN tree : tree[p].host_id # 0
    <3>1. id # 0
      BY <1>1, <2>0 DEF OwnerInv
    <3>2. \A p \in DOMAIN dirTree : dirTree[p].host_id # 0
      BY Zenon, <2>0 DEF OwnerInv
    <3> HIDE DEF id
    <3> QED BY <1>6, <1>7, <3>1, <3>2
  <2>2. \A p \in DOMAIN tree : tree[p].host_id = tree[Top(p)].host_id
    <3> SUFFICES ASSUME NEW p \in DOMAIN tree
                 PROVE  tree[p].host_id = tree[Top(p)].host_id
      BY Zenon
    <3>1. CASE p \in DOMAIN dirTree
      <4>1. Top(p) \in DOMAIN dirTree
        BY Zenon, <1>1, <3>1, TreeElim
      <4> QED BY Zenon, <1>6, <2>0, <3>1, <4>1 DEF OwnerInv
    <3>2. CASE p \notin DOMAIN dirTree
      BY Zenon, <1>7, <3>2
    <3> QED BY Zenon, <3>1, <3>2
  <2>3. ASSUME NEW p \in DOMAIN tree, tree[p].host_id # 1, main' # "exited"
        PROVE  \E t \in Standby : conn'[t].id = tree[p].host_id
    <3>1. CASE p \in DOMAIN dirTree
      <4>1. PICK t \in Standby : conn[t].id = tree[p].host_id
        BY <1>4, <1>6, <2>0, <2>3, <3>1 DEF OwnerInv
      <4>2. CASE t # s
        BY Zenon, <1>12, <4>1, <4>2
      <4>3. CASE t = s
        BY Zenon, <2>7, <4>1, <4>3
      <4> QED BY Zenon, <4>2, <4>3
    <3>2. CASE p \notin DOMAIN dirTree
      BY Zenon, <1>7, <1>11, <1>12, <3>2
    <3> QED BY Zenon, <3>1, <3>2
  <2>4. \A t \in Standby : conn'[t].id # 0 => conn'[t].id \in 2..(maxHostId' - 1)
    <3> SUFFICES ASSUME NEW t \in Standby, conn'[t].id # 0
                 PROVE  conn'[t].id \in 2..(maxHostId' - 1)
      BY Zenon
    <3>1. id \in Nat /\ id >= 2 /\ maxHostId' = id + 1
      BY Zenon, <1>1, <1>2, <2>0 DEF OwnerInv
    <3>2. conn[t].id # 0 => conn[t].id \in 2..(id - 1)
      BY Zenon, <2>0 DEF OwnerInv
    <3>3. conn'[t].id = id \/ conn'[t].id = conn[t].id
      BY Zenon, <1>11, <1>12
    <3> HIDE DEF id
    <3> QED BY <3>1, <3>2, <3>3
  <2>5. \A t, u \in Standby : conn'[t].id = conn'[u].id /\ conn'[t].id # 0 => t = u
    <3>1. ASSUME NEW t \in Standby PROVE conn[t].id # id
      <4>1. conn[t].id # 0 => conn[t].id \in 2..(id - 1)
        BY Zenon, <2>0 DEF OwnerInv
      <4>2. id \in Nat /\ id >= 2
        BY Zenon, <1>1, <2>0 DEF OwnerInv
      <4> HIDE DEF id
      <4> QED BY <4>1, <4>2
    <3>2. conn'[s].id = id /\ \A t \in Standby \ {s} : conn'[t].id = conn[t].id
      BY Zenon, <1>11, <1>12
    <3>3. \A t, u \in Standby : conn[t].id = conn[u].id /\ conn[t].id # 0 => t = u
      BY Zenon, <2>0 DEF OwnerInv
    <3> HIDE DEF id
    <3> SUFFICES ASSUME NEW t \in Standby, NEW u \in Standby,
                        conn'[t].id = conn'[u].id, conn'[t].id # 0, t # u
                 PROVE  FALSE
      BY Zenon
    <3>4. CASE t = s
      BY Zenon, <3>1, <3>2, <3>4
    <3>5. CASE u = s
      BY Zenon, <3>1, <3>2, <3>5
    <3>6. CASE t # s /\ u # s
      BY Zenon, <3>2, <3>3, <3>6
    <3> QED BY Zenon, <3>4, <3>5, <3>6
  <2>6. maxHostId' >= 2
    BY <1>1, <1>2, <2>0 DEF OwnerInv
  <2>8. dirTree' = tree
    BY Zenon, <1>2 DEF tree, mine
  <2>9. \A p \in DOMAIN dirTree' :
          dirTree'[p].host_id # 0 /\ dirTree'[p].host_id = dirTree'[Top(p)].host_id
    BY Zenon, <2>2, <2>7, <2>8
  <2>10. \A p \in DOMAIN dirTree' :
          \/ dirTree'[p].host_id = 1
          \/ \E t \in Standby : conn'[t].id = dirTree'[p].host_id
          \/ main' = "exited"
    BY Zenon, <2>3, <2>8
  <2> QED BY Zenon, <2>4, <2>5, <2>6, <2>9, <2>10 DEF OwnerInv
<1> QED BY <1>1, <1>2, <1>4, <1>6, <1>8, <1>12, <1>13

\* A join is handled: the standby is registered, or closed if it conflicts.
LEMMA MasterOnPacketInv ==
    ASSUME IInv, NEW s \in Standby, MasterOnPacket(s), UNCHANGED sb PROVE IInv'
<1> USE DEF IInv, TypeInv
<1> DEFINE packet == Head(toMaster[s])
<1>1. /\ toMaster' = [toMaster EXCEPT ![s] = Tail(@)]
      /\ NewConnection(s, packet)
      /\ UNCHANGED <<acceptor, standbyEnd, toStandby, cut>>
      /\ toMaster[s] # << >> /\ conn[s].rd # "none"
  BY Zenon DEF MasterOnPacket, ConnInv
<1>2. /\ toMaster[s] \in Seq(Join) /\ Len(toMaster[s]) <= 1
      /\ conn[s].id = 0
  BY Zenon, <1>1 DEF WireType, JoinInv, JoinAt
<1>3. packet \in Join /\ Tail(toMaster[s]) = << >>
  <2>1. Len(toMaster[s]) = 1
    BY Zenon, <1>1, <1>2, NonEmptyLen
  <2> QED BY Zenon, <1>2, <2>1, TailOfOne
<1> HIDE DEF packet
<1>4. /\ toMaster'[s] = << >>
      /\ \A t \in Standby \ {s} : toMaster'[t] = toMaster[t]
      /\ toMaster' \in [Standby -> Seq(Join)]
  <2>1. << >> \in Seq(Join)
    OBVIOUS
  <2>2. toMaster' = [toMaster EXCEPT ![s] = << >>]
    BY Zenon, <1>1, <1>3
  <2> QED BY Zenon, <2>1, <2>2 DEF WireType
<1>5. CASE HasConflict(dirTree, packet.tree) # << >>
  <2> DEFINE c == [conn[s] EXCEPT !.rd = "err"]
  <2>1. Close(s, c) /\ UNCHANGED <<main, hosts, maxHostId, raced>>
    BY Zenon, <1>1, <1>5 DEF NewConnection
  <2>2. conn[s] \in Conn /\ "err" \in Op
    BY Zenon, ConnFacts DEF Op
  <2>3. c \in Conn /\ c.rd = "err" /\ c.id = conn[s].id /\ c.wr = conn[s].wr
    BY Zenon, <2>2, ConnRead
  <2> HIDE DEF c
  <2>4. \A i \in DOMAIN c.wr : c.wr[i] = "pending" => masterEnd[s] = "open"
    BY Zenon, <2>3, ConnFacts
  <2>5. masterEnd[s] # "none"
    BY Zenon, <1>1 DEF ConnInv
  <2>6. /\ masterEnd' \in [Standby -> {"none", "open", "closed"}]
        /\ conn' \in [Standby -> Conn] /\ dirTree' \in Tree /\ posted' \in Seq(Call)
        /\ ConnInv' /\ OwnerInv'
        /\ \A t \in Standby : conn'[t].id \in {conn[t].id, 0}
    BY Zenon, <1>4, <2>1, <2>3, <2>4, <2>5, CloseInv
  <2>7. TypeInv'
    BY Zenon, <1>1, <1>4, <2>1, <2>6 DEF WireType, MasterType, StandbyType
  <2>8. ProcInv'
    BY Zenon, <1>1, ProcFrame
  <2>9. JoinInv'
    BY Zenon, <1>4, <2>6, JoinFrame
  <2> QED BY Zenon, <2>6, <2>7, <2>8, <2>9
<1>6. CASE HasConflict(dirTree, packet.tree) = << >>
  <2>1. RegisterSlave(s, packet)
    BY Zenon, <1>1, <1>6 DEF NewConnection
  <2>2. /\ main' \in {"init", "started", "pushing", "colliding", "serving", "exited"}
        /\ masterEnd' = masterEnd
        /\ dirTree' \in Tree /\ hosts' \in Hosts /\ maxHostId' \in Nat
        /\ posted' \in Seq(Call) /\ conn' \in [Standby -> Conn] /\ raced' \in BOOLEAN
        /\ \A t \in Standby \ {s} : conn'[t] = conn[t]
        /\ ConnInv' /\ OwnerInv'
    BY Zenon, <1>1, <1>2, <1>3, <1>4, <2>1, RegisterSlaveInv
  <2>3. TypeInv'
    BY Zenon, <1>1, <1>4, <2>2 DEF WireType, MasterType, StandbyType
  <2>4. ProcInv'
    BY Zenon, <1>1, ProcFrame
  <2>5. JoinInv'
    <3>1. JoinAt(sb[s], conn'[s], << >>)
      <4>1. JoinAt(sb[s], conn[s], toMaster[s])
        BY Zenon DEF JoinInv
      <4>2. Len(<< >>) <= 1
        OBVIOUS
      <4> QED BY Zenon, <1>1, <4>1, <4>2 DEF JoinAt
    <3>2. \A t \in Standby \ {s} : JoinAt(sb[t], conn'[t], toMaster'[t])
      BY Zenon, <1>4, <2>2 DEF JoinInv
    <3>3. \A t \in Standby : JoinAt(sb[t], conn'[t], toMaster'[t])
      BY Zenon, <1>4, <3>1, <3>2
    <3> QED BY Zenon, <3>3 DEF JoinInv
  <2> QED BY Zenon, <2>2, <2>3, <2>4, <2>5
<1> QED BY Zenon, <1>5, <1>6

-----------------------------------------------------------------------------
(* Every step of the master keeps the inductive invariant. *)

\* The main thread's steps: starting, and pushing the master's host entry.
LEMMA MasterMainInv ==
    ASSUME IInv, MasterMain, UNCHANGED sb PROVE IInv'
<1> USE DEF IInv, TypeInv
<1>1. /\ UNCHANGED <<dirTree, maxHostId, posted, conn, raced, wireVars>>
      /\ main # "exited" /\ main' \in {"started", "pushing", "serving"}
  BY Zenon DEF MasterMain, StartNetwork, PushMasterHost, MasterHostPushed
<1>2. hosts' \in Hosts
  <2>1. Append(hosts, hosts[1]) \in Hosts
    <3>1. hosts[1] \in Host
      BY DEF MasterType, Hosts
    <3> QED BY <3>1 DEF MasterType, Hosts
  <2> QED BY Zenon, <2>1 DEF MasterMain, StartNetwork, PushMasterHost, MasterHostPushed, MasterType
<1>3. TypeInv'
  BY Zenon, <1>1, <1>2 DEF WireType, MasterType, StandbyType, wireVars
<1>4. ConnInv'
  BY Zenon, <1>1, ConnFrame DEF wireVars
<1>5. ProcInv'
  BY Zenon, <1>1, ProcFrame DEF wireVars
<1>6. OwnerInv'
  BY Zenon, <1>1 DEF OwnerInv
<1>7. JoinInv'
  BY Zenon, <1>1, JoinFrame DEF wireVars
<1> QED BY Zenon, <1>3, <1>4, <1>5, <1>6, <1>7

\* The listening socket.
LEMMA ListenInv ==
    ASSUME IInv, Listen \/ ListenFailed, UNCHANGED sb PROVE IInv'
<1> USE DEF IInv, TypeInv
<1>1. /\ UNCHANGED <<masterVars, masterEnd, standbyEnd, toMaster, toStandby, cut>>
      /\ acceptor' \in {"listening", "failed"}
  BY Zenon DEF Listen, ListenFailed
<1>2. TypeInv'
  BY Zenon, <1>1 DEF WireType, MasterType, StandbyType, masterVars
<1>3. ConnInv' /\ ProcInv' /\ OwnerInv'
  BY Zenon, <1>1, ConnFrame, ProcFrame, OwnerFrame DEF masterVars
<1>4. JoinInv'
  BY Zenon, <1>1, JoinFrame DEF masterVars
<1> QED BY Zenon, <1>2, <1>3, <1>4

\* The end of the master process.
LEMMA MasterGoneInv ==
    ASSUME IInv, MasterGone, UNCHANGED sb PROVE IInv'
<1> USE DEF IInv, TypeInv
<1>1. NoConnection \in Conn /\ NoConnection.id = 0 /\ NoConnection.rd = "none"
      /\ NoConnection.wr = << >>
  BY Zenon, NoConnectionType DEF NoConnection
<1>2. conn' \in [Standby -> Conn] /\ \A s \in Standby : conn'[s] = NoConnection
  BY Zenon, <1>1 DEF MasterGone
<1>3. posted' \in Seq(Call) /\ toMaster' \in [Standby -> Seq(Join)]
  BY DEF MasterGone
<1>4. TypeInv'
  BY Zenon, <1>2, <1>3 DEF MasterGone, WireType, MasterType, StandbyType
<1>5. \A s \in Standby : masterEnd'[s] = "closed"
  BY Zenon DEF MasterGone
<1>6. ConnInv'
  BY <1>1, <1>2, <1>5 DEF ConnInv
<1>7. ProcInv'
  BY Zenon, ProcFrame DEF MasterGone
<1>8. OwnerInv'
  BY Zenon, <1>1, <1>2 DEF MasterGone, OwnerInv
<1>9. JoinInv'
  <2>1. \A s \in Standby : toMaster'[s] = << >>
    BY Zenon DEF MasterGone
  <2> QED BY Zenon, <1>1, <1>2, <2>1, JoinFrame
<1> QED BY Zenon, <1>4, <1>6, <1>7, <1>8, <1>9

\* A new connection.
LEMMA AcceptInv ==
    ASSUME IInv, NEW s \in Standby, Accept(s), UNCHANGED sb PROVE IInv'
<1> USE DEF IInv, TypeInv
<1> DEFINE c == [NoConnection EXCEPT !.rd = "pending"]
<1>1. c \in Conn /\ c.id = 0 /\ c.rd = "pending" /\ c.wr = << >> /\ c.queue = << >>
  <2>1. "pending" \in Op
    BY Zenon DEF Op
  <2>2. NoConnection.id = 0 /\ NoConnection.wr = << >> /\ NoConnection.queue = << >>
    BY Zenon DEF NoConnection
  <2> QED BY Zenon, <2>1, <2>2, NoConnectionType, ConnRead
<1> HIDE DEF c
<1>2. /\ conn' = [conn EXCEPT ![s] = c] /\ masterEnd' = [masterEnd EXCEPT ![s] = "open"]
      /\ UNCHANGED <<main, dirTree, hosts, maxHostId, posted, raced,
                     acceptor, standbyEnd, toMaster, toStandby, cut>>
  BY Zenon DEF Accept, c
<1>3. /\ conn' \in [Standby -> Conn]
      /\ conn'[s] = c /\ \A t \in Standby \ {s} : conn'[t] = conn[t]
  BY Zenon, <1>1, <1>2 DEF MasterType
<1>4. /\ masterEnd' \in [Standby -> {"none", "open", "closed"}]
      /\ masterEnd'[s] = "open" /\ \A t \in Standby \ {s} : masterEnd'[t] = masterEnd[t]
  BY Zenon, <1>2 DEF WireType
<1>5. TypeInv'
  BY Zenon, <1>2, <1>3, <1>4 DEF WireType, MasterType, StandbyType
<1>6. ConnInv'
  BY <1>1, <1>2, <1>3, <1>4 DEF ConnInv
<1>7. ProcInv'
  BY Zenon, <1>2, ProcFrame
<1>8. OwnerInv'
  <2>1. conn[s].id = 0
    BY Zenon DEF Accept, ConnInv
  <2>2. \A t \in Standby : conn'[t].id = conn[t].id
    BY Zenon, <1>1, <1>3, <2>1
  <2> QED BY Zenon, <1>2, <2>2, OwnerFrameIds
<1>9. JoinInv'
  BY Zenon, <1>1, <1>2, <1>3, JoinFrame
<1> QED BY Zenon, <1>5, <1>6, <1>7, <1>8, <1>9

\* The posted function of write: every open connection gets the packet.
LEMMA PostedWriteInv ==
    ASSUME IInv, PostedWrite, UNCHANGED sb PROVE IInv'
<1> USE DEF IInv, TypeInv
<1> DEFINE packet == Head(posted).packet
<1>1. packet \in Packet /\ posted' \in Seq(Call)
  <2>1. Head(posted) \in Call /\ Tail(posted) \in Seq(Call)
    BY DEF PostedWrite, MasterType
  <2> QED BY Zenon, <2>1 DEF PostedWrite, Call
<1> HIDE DEF packet
<1>2. conn' = [s \in Standby |-> IF masterEnd[s] = "open"
                                  THEN Enqueue(conn[s], packet, TRUE) ELSE conn[s]]
      /\ UNCHANGED <<main, dirTree, hosts, maxHostId, raced, wireVars>>
  BY Zenon DEF PostedWrite, packet
<1>3. ASSUME NEW s \in Standby
      PROVE  /\ conn[s] \in Conn /\ conn'[s] \in Conn
             /\ conn'[s].id = conn[s].id /\ conn'[s].rd = conn[s].rd
             /\ masterEnd[s] # "open" => conn'[s] = conn[s]
             /\ masterEnd[s] = "open" => Len(conn'[s].wr) = 1 /\ conn'[s].queue # << >>
  <2>0. conn[s] \in Conn
    BY Zenon DEF MasterType
  <2>1. CASE masterEnd[s] # "open"
    BY Zenon, <1>2, <2>0, <2>1
  <2>2. CASE masterEnd[s] = "open"
    <3>1. conn'[s] = Enqueue(conn[s], packet, TRUE)
      BY Zenon, <1>2, <2>2
    <3>2. /\ Len(conn[s].wr) <= 1 /\ (conn[s].wr = << >> <=> conn[s].queue = << >>)
          /\ conn[s].wr \in Seq(Op)
      BY Zenon, <2>0, <2>2 DEF ConnInv, Conn
    <3>3. /\ conn'[s] \in Conn
          /\ conn'[s].id = conn[s].id /\ conn'[s].rd = conn[s].rd
          /\ conn'[s].queue # << >>
          /\ conn[s].queue # << >> => conn'[s].wr = conn[s].wr
          /\ conn[s].queue = << >> => conn'[s].wr = Append(conn[s].wr, "pending")
      <4>1. TRUE \in BOOLEAN
        BY Zenon
      <4> DEFINE e == Enqueue(conn[s], packet, TRUE)
      <4>2. /\ e \in Conn /\ e.id = conn[s].id /\ e.rd = conn[s].rd
            /\ e.queue # << >>
            /\ conn[s].queue # << >> => e.wr = conn[s].wr
            /\ conn[s].queue = << >> =>
                 e.wr = Append(conn[s].wr, IF TRUE THEN "pending" ELSE "err")
        BY Zenon, <1>1, <2>0, <4>1, EnqueueType
      <4> QED BY Zenon, <3>1, <4>2
    <3>4. Len(conn'[s].wr) = 1
      <4>1. CASE conn[s].queue = << >>
        <5>1. conn[s].wr = << >> /\ conn'[s].wr = Append(conn[s].wr, "pending")
          BY Zenon, <3>2, <3>3, <4>1
        <5>2. Append(<< >>, "pending") = <<"pending">>
          OBVIOUS
        <5>3. conn'[s].wr = <<"pending">>
          BY Zenon, <5>1, <5>2
        <5>4. Len(<<"pending">>) = 1
          BY Zenon
        <5> QED BY Zenon, <5>3, <5>4
      <4>2. CASE conn[s].queue # << >>
        <5>1. /\ conn[s].wr # << >> /\ conn[s].wr \in Seq(Op) /\ Len(conn[s].wr) <= 1
              /\ conn'[s].wr = conn[s].wr
          BY Zenon, <3>2, <3>3, <4>2
        <5>2. Len(conn[s].wr) = 1
          BY Zenon, <5>1, NonEmptyLen
        <5> QED BY Zenon, <5>1, <5>2
      <4> QED BY Zenon, <4>1, <4>2
    <3> QED BY Zenon, <2>0, <2>2, <3>3, <3>4
  <2> QED BY Zenon, <2>1, <2>2
<1>4. conn' \in [Standby -> Conn]
  BY Zenon, <1>2, <1>3
<1>5. TypeInv'
  BY Zenon, <1>1, <1>2, <1>4 DEF WireType, MasterType, StandbyType, wireVars
<1>6. ConnInv'
  <2>1. ASSUME NEW s \in Standby, masterEnd[s] = "open"
        PROVE  conn'[s].wr # << >>
    <3>1. Len(conn'[s].wr) = 1
      BY Zenon, <1>3, <2>1
    <3> QED BY Zenon, <3>1, LenNonEmpty
  <2>2. UNCHANGED <<masterEnd, toMaster>>
    BY Zenon, <1>2 DEF wireVars
  <2>3. ASSUME NEW s \in Standby
        PROVE  /\ masterEnd'[s] = "none" => conn'[s].id = 0 /\ conn'[s].rd = "none"
               /\ conn'[s].rd = "ok" => toMaster'[s] # << >>
               /\ \A i \in DOMAIN conn'[s].wr :
                    conn'[s].wr[i] = "pending" => masterEnd'[s] = "open"
               /\ masterEnd'[s] = "open" =>
                    /\ Len(conn'[s].wr) <= 1
                    /\ conn'[s].wr = << >> <=> conn'[s].queue = << >>
    <3>1. CASE masterEnd[s] = "open"
      <4>1. Len(conn'[s].wr) <= 1
        <5>1. Len(conn'[s].wr) = 1
          BY Zenon, <1>3, <3>1
        <5> QED BY <5>1
      <4>2. conn'[s].rd = "ok" => toMaster'[s] # << >>
        BY Zenon, <1>3, <2>2 DEF ConnInv
      <4> QED BY Zenon, <1>3, <2>1, <2>2, <3>1, <4>1, <4>2
    <3>2. CASE masterEnd[s] # "open"
      BY <1>3, <2>2, <3>2 DEF ConnInv
    <3> QED BY Zenon, <3>1, <3>2
  <2> QED BY Zenon, <2>3 DEF ConnInv
<1>7. ProcInv'
  BY Zenon, <1>2, ProcFrame DEF wireVars
<1>8. OwnerInv'
  BY Zenon, <1>2, <1>3, OwnerFrameIds
<1>9. JoinInv'
  BY Zenon, <1>2, <1>3, JoinFrame DEF wireVars
<1> QED BY Zenon, <1>5, <1>6, <1>7, <1>8, <1>9

\* The posted function of writeTo: one connection gets it, open or not.
LEMMA PostedWriteToInv ==
    ASSUME IInv, PostedWriteTo, UNCHANGED sb PROVE IInv'
<1> USE DEF IInv, TypeInv
<1> DEFINE packet == Head(posted).packet
           s == Head(posted).to
           c == Enqueue(conn[s], packet, masterEnd[s] = "open")
<1>1. packet \in Packet /\ s \in Standby /\ posted' \in Seq(Call)
  <2>1. Head(posted) \in Call /\ Tail(posted) \in Seq(Call)
    BY DEF PostedWriteTo, MasterType
  <2> QED BY Zenon, <2>1 DEF PostedWriteTo, Call
<1>2. conn' = [conn EXCEPT ![s] = c]
      /\ UNCHANGED <<main, dirTree, hosts, maxHostId, raced, wireVars>>
  BY Zenon DEF PostedWriteTo
<1>3. conn[s] \in Conn /\ conn[s].wr \in Seq(Op) /\ (masterEnd[s] = "open") \in BOOLEAN
  BY Zenon, <1>1 DEF MasterType, Conn
<1> HIDE DEF packet, s
<1>4. /\ c \in Conn
      /\ c.id = conn[s].id /\ c.rd = conn[s].rd
      /\ c.queue # << >>
      /\ conn[s].queue # << >> => c.wr = conn[s].wr
      /\ conn[s].queue = << >> =>
           c.wr = Append(conn[s].wr, IF masterEnd[s] = "open" THEN "pending" ELSE "err")
  BY Zenon, <1>1, <1>3, EnqueueType
<1> HIDE DEF c
<1>5. ASSUME NEW i \in DOMAIN c.wr, c.wr[i] = "pending" PROVE masterEnd[s] = "open"
  <2>0. \A j \in DOMAIN conn[s].wr : conn[s].wr[j] = "pending" => masterEnd[s] = "open"
    BY Zenon, <1>1 DEF ConnInv
  <2>1. CASE conn[s].queue # << >>
    BY Zenon, <1>4, <1>5, <2>0, <2>1
  <2>2. CASE conn[s].queue = << >> /\ masterEnd[s] # "open"
    <3>1. c.wr = Append(conn[s].wr, "err")
      BY Zenon, <1>4, <2>2
    <3>2. i \in DOMAIN conn[s].wr /\ c.wr[i] = conn[s].wr[i]
      BY <1>3, <1>5, <3>1
    <3> QED BY Zenon, <1>5, <2>0, <3>2
  <2> QED BY Zenon, <2>1, <2>2
<1>6. ASSUME masterEnd[s] = "open"
      PROVE  Len(c.wr) <= 1 /\ (c.wr = << >> <=> c.queue = << >>)
  BY <1>1, <1>3, <1>4, <1>6 DEF ConnInv
<1>7. masterEnd[s] = "none" => c.id = 0 /\ c.rd = "none"
  BY Zenon, <1>1, <1>4 DEF ConnInv
<1>8. c.rd = "ok" => toMaster'[s] # << >>
  BY Zenon, <1>1, <1>2, <1>4 DEF ConnInv, wireVars
<1>9. /\ conn' \in [Standby -> Conn]
      /\ conn'[s] = c /\ \A t \in Standby \ {s} : conn'[t] = conn[t]
      /\ ConnInv'
  <2>1. UNCHANGED <<masterEnd, toMaster>>
    BY Zenon, <1>2 DEF wireVars
  <2> QED BY Zenon, <1>1, <1>2, <1>4, <1>5, <1>6, <1>7, <1>8, <2>1, ConnStep
<1>10. TypeInv'
  BY Zenon, <1>1, <1>2, <1>9 DEF WireType, MasterType, StandbyType, wireVars
<1>11. ProcInv'
  BY Zenon, <1>2, ProcFrame DEF wireVars
<1>12. OwnerInv'
  BY Zenon, <1>1, <1>2, <1>4, <1>9, OwnerFrameIds
<1>13. JoinInv'
  BY Zenon, <1>1, <1>2, <1>4, <1>9, JoinFrame DEF wireVars
<1> QED BY Zenon, <1>9, <1>10, <1>11, <1>12, <1>13

\* A write that finishes hands its packet to the kernel.
LEMMA MasterWriteDoneInv ==
    ASSUME IInv, NEW s \in Standby, MasterWriteDone(s), UNCHANGED sb PROVE IInv'
<1> USE DEF IInv, TypeInv
<1>1. /\ conn[s] \in Conn /\ conn[s].wr \in Seq(Op) /\ conn[s].wr # << >>
      /\ conn[s].wr[1] = "pending" /\ 1 \in DOMAIN conn[s].wr
  BY ConnFacts DEF MasterWriteDone
<1>2. masterEnd[s] = "open"
  BY Zenon, <1>1, ConnFacts
<1>3. conn[s].queue # << >> /\ conn[s].queue \in Seq(Packet)
  BY Zenon, <1>1, <1>2, ConnFacts
<1> DEFINE w == [conn[s].wr EXCEPT ![1] = "ok"]
           c == [conn[s] EXCEPT !.wr = w]
<1>4. w \in Seq(Op) /\ Len(w) = Len(conn[s].wr) /\ DOMAIN w = DOMAIN conn[s].wr
  <2>1. "ok" \in Op
    BY Zenon DEF Op
  <2> QED BY <1>1, <2>1
<1>5. w # << >>
  BY <1>1, <1>4
<1>6. conn' = [conn EXCEPT ![s] = c]
  BY Zenon, <1>1 DEF MasterWriteDone, MasterType, Conn
<1> HIDE DEF w
<1>7. c \in Conn /\ c.wr = w /\ c.id = conn[s].id /\ c.rd = conn[s].rd
      /\ c.queue = conn[s].queue
  BY Zenon, <1>1, <1>4, ConnWrite
<1> HIDE DEF c
<1>8. UNCHANGED <<main, dirTree, hosts, maxHostId, posted, raced,
                  acceptor, masterEnd, standbyEnd, toMaster, cut>>
  BY Zenon DEF MasterWriteDone
<1>9. /\ conn' \in [Standby -> Conn]
      /\ conn'[s] = c /\ \A t \in Standby \ {s} : conn'[t] = conn[t]
      /\ ConnInv'
  <2>1. Len(c.wr) <= 1 /\ c.wr # << >> /\ c.queue # << >>
    BY Zenon, <1>2, <1>3, <1>4, <1>5, <1>7, ConnFacts
  <2>2. c.rd = "ok" => toMaster'[s] # << >>
    BY Zenon, <1>7, <1>8, ConnFacts
  <2> QED BY Zenon, <1>2, <1>6, <1>7, <1>8, <2>1, <2>2, ConnStep
<1>10. /\ toStandby' \in [Standby -> Seq(Packet)]
       /\ \A t \in Standby : toStandby[t] # << >> => toStandby'[t] # << >>
  <2>1. Head(conn[s].queue) \in Packet
    BY <1>3
  <2>2. toStandby' = Deliver(toStandby, s, Head(conn[s].queue), standbyEnd[s] = "closed")
    BY Zenon DEF MasterWriteDone
  <2> DEFINE gone == standbyEnd[s] = "closed"
             packet == Head(conn[s].queue)
  <2>3. gone \in BOOLEAN /\ toStandby \in [Standby -> Seq(Packet)]
    BY Zenon DEF WireType
  <2> HIDE DEF gone, packet
  <2>4. /\ Deliver(toStandby, s, packet, gone) \in [Standby -> Seq(Packet)]
        /\ \A t \in Standby :
             toStandby[t] # << >> => Deliver(toStandby, s, packet, gone)[t] # << >>
    BY <2>1, <2>3, DeliverType DEF packet
  <2> QED BY Zenon, <2>2, <2>4 DEF gone, packet
<1>11. TypeInv'
  BY Zenon, <1>8, <1>9, <1>10 DEF WireType, MasterType, StandbyType
<1>12. ProcInv'
  BY Zenon, <1>10 DEF ProcInv, ProcAt
<1>13. OwnerInv'
  BY Zenon, <1>7, <1>8, <1>9, OwnerFrameIds
<1>14. JoinInv'
  BY Zenon, <1>7, <1>8, <1>9, JoinFrame
<1> QED BY Zenon, <1>9, <1>11, <1>12, <1>13, <1>14

\* A handler that finds a write done pops the packet and writes the next one.
LEMMA MasterOnWrittenInv ==
    ASSUME IInv, NEW s \in Standby, MasterOnWritten(s), UNCHANGED sb PROVE IInv'
<1> USE DEF IInv, TypeInv
<1>1. /\ conn[s] \in Conn
      /\ conn[s].wr \in Seq(Op) /\ conn[s].wr # << >>
      /\ conn[s].queue \in Seq(Packet) /\ conn[s].queue # << >>
  BY Zenon, ConnFacts DEF MasterOnWritten
<1> DEFINE w == Tail(conn[s].wr)
           q == Tail(conn[s].queue)
           op == IF masterEnd[s] = "open" THEN "pending" ELSE "err"
           popped == [conn[s] EXCEPT !.wr = Tail(@), !.queue = Tail(@)]
           c == IF popped.queue = << >> THEN popped
                ELSE DoWrite(popped, masterEnd[s] = "open")
<1>2. /\ w \in Seq(Op) /\ Len(w) = Len(conn[s].wr) - 1
      /\ \A i \in DOMAIN w : i + 1 \in DOMAIN conn[s].wr /\ w[i] = conn[s].wr[i + 1]
  BY <1>1
<1>3. /\ conn' = [conn EXCEPT ![s] = c]
      /\ UNCHANGED <<main, dirTree, hosts, maxHostId, posted, raced, wireVars>>
  BY Zenon DEF MasterOnWritten
<1>4. masterEnd[s] = "open" => w = << >>
  <2>1. masterEnd[s] = "open" => Len(conn[s].wr) <= 1
    BY Zenon, ConnFacts
  <2> QED BY <1>1, <1>2, <2>1
<1>5. \A i \in DOMAIN w : w[i] = "pending" => masterEnd[s] = "open"
  BY Zenon, <1>2, ConnFacts
<1>6. op \in Op
  BY Zenon DEF Op
<1>7. (masterEnd[s] = "open") \in BOOLEAN
  BY Zenon
<1>8. /\ c \in Conn /\ c.id = conn[s].id /\ c.rd = conn[s].rd /\ c.queue = q
      /\ q = << >> => c.wr = w
      /\ q # << >> => c.wr = Append(w, op)
  BY Zenon, <1>1, <1>7, PopType
<1> HIDE DEF w, q, c, popped
<1>9. \A i \in DOMAIN c.wr : c.wr[i] = "pending" => masterEnd[s] = "open"
  <2>1. CASE q = << >>
    BY Zenon, <1>5, <1>8, <2>1
  <2>2. CASE q # << >> /\ masterEnd[s] # "open"
    <3>1. c.wr = Append(w, "err")
      BY Zenon, <1>8, <2>2
    <3>2. ASSUME NEW i \in DOMAIN Append(w, "err"), Append(w, "err")[i] = "pending"
          PROVE  FALSE
      <4>1. i \in DOMAIN w /\ Append(w, "err")[i] = w[i]
        BY <1>2, <3>2
      <4> QED BY Zenon, <1>5, <2>2, <3>2, <4>1
    <3> QED BY Zenon, <3>1, <3>2
  <2> QED BY Zenon, <2>1, <2>2
<1>10. masterEnd[s] = "open" => Len(c.wr) <= 1 /\ (c.wr = << >> <=> c.queue = << >>)
  <2>1. CASE q = << >> /\ masterEnd[s] = "open"
    <3>1. c.wr = << >> /\ c.queue = << >>
      BY Zenon, <1>4, <1>8, <2>1
    <3> QED BY <3>1
  <2>2. CASE q # << >> /\ masterEnd[s] = "open"
    <3>1. c.wr = Append(<< >>, "pending") /\ c.queue = q
      BY Zenon, <1>4, <1>8, <2>2
    <3>2. Append(<< >>, "pending") = <<"pending">> /\ Len(<<"pending">>) = 1
      OBVIOUS
    <3>3. c.wr # << >> /\ Len(c.wr) = 1
      BY <3>1, <3>2
    <3> QED BY <2>2, <3>1, <3>3
  <2> QED BY Zenon, <2>1, <2>2
<1>12. UNCHANGED <<masterEnd, toMaster>>
  BY Zenon, <1>3 DEF wireVars
<1>13. /\ conn' \in [Standby -> Conn]
       /\ conn'[s] = c /\ \A t \in Standby \ {s} : conn'[t] = conn[t]
       /\ ConnInv'
  <2>1. /\ masterEnd[s] = "none" => c.id = 0 /\ c.rd = "none"
        /\ c.rd = "ok" => toMaster'[s] # << >>
    BY Zenon, <1>8, <1>12, ConnFacts
  <2> QED BY Zenon, <1>3, <1>8, <1>9, <1>10, <1>12, <2>1, ConnStep
<1>14. TypeInv'
  BY Zenon, <1>3, <1>13 DEF WireType, MasterType, StandbyType, wireVars
<1>15. ProcInv'
  BY Zenon, <1>3, ProcFrame DEF wireVars
<1>16. OwnerInv'
  BY Zenon, <1>3, <1>8, <1>13, OwnerFrameIds
<1>17. JoinInv'
  BY Zenon, <1>8, <1>12, <1>13, JoinFrame
<1> QED BY Zenon, <1>13, <1>14, <1>15, <1>16, <1>17

\* A write handler that runs after the close leaves its connection, or ends
\* the process.
LEMMA MasterOnWrittenStaleInv ==
    ASSUME IInv, NEW s \in Standby, MasterOnWrittenStale(s), UNCHANGED sb PROVE IInv'
<1> USE DEF IInv, TypeInv
<1>1. CASE MasterGone
  BY Zenon, <1>1, MasterGoneInv
<1>2. CASE /\ conn' = [conn EXCEPT ![s].wr = Tail(@)]
           /\ UNCHANGED <<main, dirTree, hosts, maxHostId, posted, raced, wireVars>>
  <2>1. /\ conn[s] \in Conn /\ conn[s].wr \in Seq(Op) /\ conn[s].wr # << >>
        /\ masterEnd[s] # "open"
    BY Zenon, ConnFacts DEF MasterOnWrittenStale
  <2> DEFINE w == Tail(conn[s].wr)
             c == [conn[s] EXCEPT !.wr = w]
  <2>2. /\ w \in Seq(Op)
        /\ \A i \in DOMAIN w : i + 1 \in DOMAIN conn[s].wr /\ w[i] = conn[s].wr[i + 1]
    BY <2>1
  <2>3. \A i \in DOMAIN w : w[i] = "pending" => masterEnd[s] = "open"
    BY Zenon, <2>2, ConnFacts
  <2>4. conn' = [conn EXCEPT ![s] = c]
    BY Zenon, <1>2
  <2> HIDE DEF w
  <2>5. c \in Conn /\ c.wr = w /\ c.id = conn[s].id /\ c.rd = conn[s].rd
    BY Zenon, <2>1, <2>2, ConnWrite
  <2> HIDE DEF c
  <2>6. UNCHANGED <<masterEnd, toMaster>>
    BY Zenon, <1>2 DEF wireVars
  <2>7. /\ conn' \in [Standby -> Conn]
        /\ conn'[s] = c /\ \A t \in Standby \ {s} : conn'[t] = conn[t]
        /\ ConnInv'
    <3>1. /\ masterEnd[s] = "none" => c.id = 0 /\ c.rd = "none"
          /\ c.rd = "ok" => toMaster'[s] # << >>
      BY Zenon, <2>5, <2>6, ConnFacts
    <3> QED BY Zenon, <2>1, <2>3, <2>4, <2>5, <2>6, <3>1, ConnStep
  <2>8. TypeInv'
    BY Zenon, <1>2, <2>7 DEF WireType, MasterType, StandbyType, wireVars
  <2>9. ProcInv'
    BY Zenon, <1>2, ProcFrame DEF wireVars
  <2>10. OwnerInv'
    BY Zenon, <1>2, <2>5, <2>7, OwnerFrameIds
  <2>11. JoinInv'
    BY Zenon, <2>5, <2>6, <2>7, JoinFrame
  <2> QED BY Zenon, <2>7, <2>8, <2>9, <2>10, <2>11
<1> QED BY Zenon, <1>1, <1>2 DEF MasterOnWrittenStale

\* A failed write closes the connection.
LEMMA MasterOnWriteErrorInv ==
    ASSUME IInv, NEW s \in Standby, MasterOnWriteError(s), UNCHANGED sb PROVE IInv'
<1> USE DEF IInv, TypeInv
<1>1. conn[s] \in Conn /\ conn[s].wr \in Seq(Op) /\ conn[s].wr # << >>
  BY Zenon, ConnFacts DEF MasterOnWriteError
<1> DEFINE w == Tail(conn[s].wr)
           c == [conn[s] EXCEPT !.wr = w]
<1>2. /\ w \in Seq(Op)
      /\ \A i \in DOMAIN w : i + 1 \in DOMAIN conn[s].wr /\ w[i] = conn[s].wr[i + 1]
  BY <1>1
<1>3. \A i \in DOMAIN w : w[i] = "pending" => masterEnd[s] = "open"
  BY Zenon, <1>2, ConnFacts
<1>4. /\ Close(s, c)
      /\ UNCHANGED <<main, hosts, maxHostId, raced,
                     acceptor, standbyEnd, toMaster, toStandby, cut>>
  BY Zenon DEF MasterOnWriteError
<1> HIDE DEF w
<1>5. c \in Conn /\ c.wr = w /\ c.id = conn[s].id /\ c.rd = conn[s].rd
  BY Zenon, <1>1, <1>2, ConnWrite
<1> HIDE DEF c
<1>6. /\ masterEnd[s] = "none" => c.rd = "none"
      /\ c.rd = "ok" => toMaster[s] # << >>
      /\ \A i \in DOMAIN c.wr : c.wr[i] = "pending" => masterEnd[s] = "open"
  <2>1. /\ masterEnd[s] = "none" => conn[s].rd = "none"
        /\ conn[s].rd = "ok" => toMaster[s] # << >>
    BY Zenon, ConnFacts
  <2> HIDE DEF IInv, TypeInv
  <2> QED BY Zenon, <1>3, <1>5, <2>1
<1>7. /\ masterEnd' \in [Standby -> {"none", "open", "closed"}]
      /\ conn' \in [Standby -> Conn] /\ dirTree' \in Tree /\ posted' \in Seq(Call)
      /\ ConnInv' /\ OwnerInv'
      /\ \A t \in Standby : conn'[t].id \in {conn[t].id, 0}
  BY Zenon, <1>4, <1>5, <1>6, CloseInv
<1>8. TypeInv'
  BY Zenon, <1>4, <1>7 DEF WireType, MasterType, StandbyType
<1>9. ProcInv'
  BY Zenon, <1>4, ProcFrame
<1>10. JoinInv'
  BY Zenon, <1>4, <1>7, JoinFrame
<1> QED BY Zenon, <1>7, <1>8, <1>9, <1>10

\* So does a failed read, whatever made it fail.
LEMMA MasterOnReadErrorInv ==
    ASSUME IInv, NEW s \in Standby, MasterOnReadError(s) \/ MasterOnReadCut(s),
           UNCHANGED sb
    PROVE  IInv'
<1> USE DEF IInv, TypeInv
<1> DEFINE c == [conn[s] EXCEPT !.rd = "none"]
<1>1. conn[s] \in Conn /\ "none" \in Op
  BY Zenon, ConnFacts DEF Op
<1>2. /\ Close(s, c)
      /\ UNCHANGED <<main, hosts, maxHostId, raced,
                     acceptor, standbyEnd, toMaster, toStandby, cut>>
  BY Zenon DEF MasterOnReadError, MasterOnReadCut
<1>3. c \in Conn /\ c.rd = "none" /\ c.id = conn[s].id /\ c.wr = conn[s].wr
  BY Zenon, <1>1, ConnRead
<1> HIDE DEF c
<1>4. \A i \in DOMAIN c.wr : c.wr[i] = "pending" => masterEnd[s] = "open"
  BY Zenon, <1>3, ConnFacts
<1>5. /\ masterEnd' \in [Standby -> {"none", "open", "closed"}]
      /\ conn' \in [Standby -> Conn] /\ dirTree' \in Tree /\ posted' \in Seq(Call)
      /\ ConnInv' /\ OwnerInv'
      /\ \A t \in Standby : conn'[t].id \in {conn[t].id, 0}
  BY Zenon, <1>2, <1>3, <1>4, CloseInv
<1>6. TypeInv'
  BY Zenon, <1>2, <1>5 DEF WireType, MasterType, StandbyType
<1>7. ProcInv'
  BY Zenon, <1>2, ProcFrame
<1>8. JoinInv'
  BY Zenon, <1>2, <1>5, JoinFrame
<1> QED BY Zenon, <1>5, <1>6, <1>7, <1>8

\* Every step of the master keeps the invariant.
LEMMA MasterStepInv ==
    ASSUME IInv, MasterStep, UNCHANGED sb PROVE IInv'
<1>1. CASE MasterMain
  BY Zenon, <1>1, MasterMainInv
<1>2. CASE Listen \/ ListenFailed
  BY Zenon, <1>2, ListenInv
<1>3. CASE MasterPosted
  BY Zenon, <1>3, PostedWriteInv, PostedWriteToInv DEF MasterPosted
<1>4. CASE MasterExit
  BY Zenon, <1>4, MasterGoneInv DEF MasterExit
<1>5. ASSUME NEW s \in Standby, MasterHandles(s) \/ MasterIO(s) \/ MasterOnReadCut(s)
      PROVE  IInv'
  BY Zenon, <1>5, MasterOnPacketInv, MasterOnReadErrorInv, MasterOnWrittenInv,
     MasterOnWrittenStaleInv, MasterOnWriteErrorInv, AcceptInv, MasterWriteDoneInv
     DEF MasterHandles, MasterIO
<1> QED BY Zenon, <1>1, <1>2, <1>3, <1>4, <1>5 DEF MasterStep

-----------------------------------------------------------------------------
(* Every step of a standby, and of the network, keeps it. *)

\* What is to be shown of a step that changes the process of s to p.
LEMMA StandbyFrame ==
    ASSUME IInv, NEW s \in Standby, NEW p \in Process,
           sb' = [sb EXCEPT ![s] = p],
           UNCHANGED <<masterVars, acceptor, masterEnd, cut>>,
           standbyEnd' \in [Standby -> {"none", "connecting", "open", "failed", "closed"}],
           toMaster' \in [Standby -> Seq(Join)],
           toStandby' \in [Standby -> Seq(Packet)],
           \A t \in Standby \ {s} : toMaster'[t] = toMaster[t] /\ toStandby'[t] = toStandby[t],
           toMaster[s] # << >> => toMaster'[s] # << >>,
           ProcAt(p, toStandby'[s]),
           JoinAt(p, conn[s], toMaster'[s])
    PROVE  IInv'
<1> USE DEF IInv, TypeInv
<1>1. UNCHANGED <<main, dirTree, hosts, maxHostId, posted, conn, raced>>
  BY Zenon DEF masterVars
<1>2. sb' \in [Standby -> Process] /\ sb'[s] = p /\ \A t \in Standby \ {s} : sb'[t] = sb[t]
  BY Zenon DEF StandbyType
<1>3. TypeInv'
  BY Zenon, <1>1, <1>2 DEF WireType, MasterType, StandbyType
<1>4. ConnInv'
  <2>1. \A t \in Standby : toMaster[t] # << >> => toMaster'[t] # << >>
    BY Zenon
  <2> QED BY Zenon, <1>1, <2>1 DEF ConnInv
<1>5. ProcInv'
  <2>1. \A t \in Standby : ProcAt(sb'[t], toStandby'[t])
    BY Zenon, <1>2 DEF ProcInv
  <2> QED BY Zenon, <2>1 DEF ProcInv
<1>6. OwnerInv'
  BY Zenon, <1>1, OwnerFrame
<1>7. JoinInv'
  <2>1. \A t \in Standby : JoinAt(sb'[t], conn[t], toMaster'[t])
    BY Zenon, <1>2 DEF JoinInv
  <2> QED BY Zenon, <1>1, <2>1 DEF JoinInv
<1> QED BY Zenon, <1>3, <1>4, <1>5, <1>6, <1>7

\* The invariant, for one standby.
LEMMA StandbyFacts ==
    ASSUME IInv, NEW s \in Standby
    PROVE  /\ sb[s] \in Process
           /\ ProcAt(sb[s], toStandby[s])
           /\ JoinAt(sb[s], conn[s], toMaster[s])
           /\ toMaster[s] \in Seq(Join) /\ toStandby[s] \in Seq(Packet)
           /\ sb \in [Standby -> Process]
           /\ standbyEnd \in [Standby -> {"none", "connecting", "open", "failed", "closed"}]
           /\ toMaster \in [Standby -> Seq(Join)]
           /\ toStandby \in [Standby -> Seq(Packet)]
  BY Zenon DEF IInv, TypeInv, WireType, StandbyType, ProcInv, JoinInv

\* disconnect() keeps the process a process, and leaves nobody waiting.
LEMMA DisconnectType ==
    ASSUME NEW p \in Process, NEW incoming, ProcAt(p, incoming)
    PROVE  LET q == Disconnect(p)
           IN  /\ q \in Process
               /\ ProcAt(q, incoming)
               /\ q.main = p.main /\ q.post = p.post /\ q.queue = p.queue
               /\ q.rd = p.rd /\ q.wr = p.wr
<1> DEFINE t == RemoveNotOf(p.dirTree, p.hostId)
           n == IF p.waiting THEN p.sem + 1 ELSE p.sem
           q == [p EXCEPT !.dirTree = t, !.waiting = FALSE, !.sem = n]
<1>1. p.dirTree \in Tree /\ p.hostId \in Nat /\ p.sem \in Nat /\ p.waiting \in BOOLEAN
  BY Zenon DEF Process
<1>2. t \in Tree
  BY Zenon, <1>1, RemoveNotOfType
<1>3. n \in Nat /\ (p.main \in {"init", "started", "waiting"} => n > 0)
  <2>1. CASE p.waiting
    <3>1. n = p.sem + 1
      BY Zenon, <2>1
    <3> HIDE DEF n
    <3> QED BY <1>1, <3>1
  <2>2. CASE ~p.waiting
    BY Zenon, <1>1, <2>2 DEF ProcAt
  <2> QED BY Zenon, <2>1, <2>2
<1> HIDE DEF t, n
<1>4. /\ q \in Process
      /\ q.main = p.main /\ q.post = p.post /\ q.queue = p.queue
      /\ q.rd = p.rd /\ q.wr = p.wr /\ q.waiting = FALSE /\ q.sem = n
  BY Zenon, <1>2, <1>3 DEF Process
<1>5. ProcAt(q, incoming)
  <2> HIDE DEF q
  <2> QED BY Zenon, <1>3, <1>4 DEF ProcAt
<1>6. Disconnect(p) = q
  BY Zenon DEF Disconnect, t, n
<1> QED BY Zenon, <1>4, <1>5, <1>6

\* close and disconnect() after a failed read or write.
LEMMA FailInv ==
    ASSUME IInv, NEW s \in Standby, NEW p \in Process, Fail(s, p), UNCHANGED masterVars,
           p.main = sb[s].main, p.post = sb[s].post, p.queue = sb[s].queue,
           p.waiting = sb[s].waiting, p.sem = sb[s].sem,
           p.rd \in {sb[s].rd, "none"}, p.wr \in {sb[s].wr, "none"}
    PROVE  IInv'
<1> DEFINE w == Abort(p.wr)
<1>1. PICK r \in AbortRead(s, p.rd) :
        sb' = [sb EXCEPT ![s] = Disconnect([p EXCEPT !.rd = r, !.wr = Abort(@)])]
  BY Zenon DEF Fail
<1> DEFINE a == [p EXCEPT !.rd = r, !.wr = w]
           q == Disconnect(a)
<1>2. /\ r \in Op /\ w \in Op /\ w # "pending"
      /\ r = "ok" => p.rd = "ok" \/ toStandby[s] # << >>
  BY Zenon DEF AbortRead, Abort, Op, Process
<1> HIDE DEF w
<1>3. /\ a \in Process /\ a.rd = r /\ a.wr = w
      /\ a.main = p.main /\ a.post = p.post /\ a.queue = p.queue
      /\ a.waiting = p.waiting /\ a.sem = p.sem
  BY Zenon, <1>2 DEF Process
<1>4. sb' = [sb EXCEPT ![s] = q]
  <2>1. a = [p EXCEPT !.rd = r, !.wr = Abort(@)]
    BY Zenon DEF w
  <2> HIDE DEF a
  <2> QED BY Zenon, <1>1, <2>1
<1> HIDE DEF a
<1>5. ProcAt(a, toStandby[s])
  BY Zenon, <1>2, <1>3, StandbyFacts DEF ProcAt
<1>6. /\ q \in Process /\ ProcAt(q, toStandby[s])
      /\ q.main = a.main /\ q.post = a.post /\ q.queue = a.queue
      /\ q.rd = a.rd /\ q.wr = a.wr
  BY Zenon, <1>3, <1>5, DisconnectType
<1> HIDE DEF q
<1>7. JoinAt(q, conn[s], toMaster[s])
  BY Zenon, <1>2, <1>3, <1>6, StandbyFacts DEF JoinAt
<1>8. /\ standbyEnd' = SocketClosed(s)
      /\ UNCHANGED <<acceptor, masterEnd, toMaster, toStandby, cut>>
  BY Zenon DEF Fail
<1>9. standbyEnd' \in [Standby -> {"none", "connecting", "open", "failed", "closed"}]
  BY Zenon, <1>8, StandbyFacts DEF SocketClosed
<1>10. UNCHANGED <<masterVars, acceptor, masterEnd, cut>>
  BY Zenon, <1>8
<1> QED BY Zenon, <1>4, <1>6, <1>7, <1>8, <1>9, <1>10, StandbyFacts, StandbyFrame

\* Handlers of reads and writes that failed.
LEMMA StandbyOnErrorInv ==
    ASSUME IInv, NEW s \in Standby, UNCHANGED masterVars,
           StandbyOnReadError(s) \/ StandbyOnReadCut(s) \/ StandbyOnWriteError(s)
    PROVE  IInv'
<1>0. sb[s] \in Process /\ "none" \in Op
  BY Zenon, StandbyFacts DEF Op
<1>1. CASE StandbyOnReadError(s) \/ StandbyOnReadCut(s)
  <2> DEFINE p == [sb[s] EXCEPT !.rd = "none"]
  <2>1. Fail(s, p)
    BY Zenon, <1>1 DEF StandbyOnReadError, StandbyOnReadCut
  <2>2. /\ p \in Process /\ p.main = sb[s].main /\ p.post = sb[s].post
        /\ p.queue = sb[s].queue /\ p.waiting = sb[s].waiting /\ p.sem = sb[s].sem
        /\ p.rd = "none" /\ p.wr = sb[s].wr
    BY Zenon, <1>0 DEF Process
  <2> HIDE DEF p
  <2> QED BY Zenon, <2>1, <2>2, FailInv
<1>2. CASE StandbyOnWriteError(s)
  <2> DEFINE p == [sb[s] EXCEPT !.wr = "none"]
  <2>1. Fail(s, p)
    BY Zenon, <1>2 DEF StandbyOnWriteError
  <2>2. /\ p \in Process /\ p.main = sb[s].main /\ p.post = sb[s].post
        /\ p.queue = sb[s].queue /\ p.waiting = sb[s].waiting /\ p.sem = sb[s].sem
        /\ p.wr = "none" /\ p.rd = sb[s].rd
    BY Zenon, <1>0 DEF Process
  <2> HIDE DEF p
  <2> QED BY Zenon, <2>1, <2>2, FailInv
<1> QED BY Zenon, <1>1, <1>2

\* Starting the network thread.
LEMMA StandbyStartInv ==
    ASSUME IInv, NEW s \in Standby, StandbyStart(s), UNCHANGED masterVars PROVE IInv'
<1> DEFINE p == [sb[s] EXCEPT !.main = "started"]
<1>1. /\ sb' = [sb EXCEPT ![s] = p] /\ sb[s].main = "init"
      /\ standbyEnd' = [standbyEnd EXCEPT ![s] = "connecting"]
      /\ UNCHANGED <<masterVars, acceptor, masterEnd, toMaster, toStandby, cut>>
  BY Zenon, StandbyFacts DEF StandbyStart
<1>2. /\ p \in Process /\ p.main = "started" /\ p.post = sb[s].post
      /\ p.queue = sb[s].queue /\ p.waiting = sb[s].waiting /\ p.sem = sb[s].sem
      /\ p.rd = sb[s].rd /\ p.wr = sb[s].wr
  BY Zenon, StandbyFacts DEF Process
<1> HIDE DEF p
<1>3. ProcAt(p, toStandby[s]) /\ JoinAt(p, conn[s], toMaster[s])
  BY Zenon, <1>1, <1>2, StandbyFacts DEF ProcAt, JoinAt
<1>4. standbyEnd' \in [Standby -> {"none", "connecting", "open", "failed", "closed"}]
  BY Zenon, <1>1, StandbyFacts
<1> QED BY Zenon, <1>1, <1>2, <1>3, <1>4, StandbyFacts, StandbyFrame

\* The metadata is posted once.
LEMMA SendMetadataInv ==
    ASSUME IInv, NEW s \in Standby, SendMetadata(s), UNCHANGED masterVars PROVE IInv'
<1> DEFINE join == JoinPacket(sb[s].dirTree, sb[s].hosts[1])
           post == IF Working(s) THEN Append(sb[s].post, join) ELSE sb[s].post
           p == [sb[s] EXCEPT !.main = "waiting", !.post = post]
<1>1. /\ sb' = [sb EXCEPT ![s] = p] /\ sb[s].main = "started"
      /\ UNCHANGED <<masterVars, wireVars>>
  BY Zenon, StandbyFacts DEF SendMetadata
<1>2. join \in Join
  <2>1. sb[s].dirTree \in Tree /\ sb[s].hosts \in Hosts
    BY Zenon, StandbyFacts DEF Process
  <2>2. sb[s].hosts[1] \in Host
    BY <2>1 DEF Hosts
  <2> QED BY Zenon, <2>1, <2>2 DEF JoinPacket, Join
<1>3. sb[s].post = << >> /\ sb[s].queue = << >> /\ sb[s].wr # "pending"
      /\ toMaster[s] = << >> /\ conn[s].id = 0
  BY Zenon, <1>1, StandbyFacts DEF JoinAt
<1>4. post \in Seq(Join) /\ Len(post) <= 1
  <2> HIDE DEF join
  <2>1. << >> \in Seq(Join) /\ Len(<< >>) = 0
    OBVIOUS
  <2>2. Append(<< >>, join) = <<join>> /\ Len(<<join>>) = 1 /\ <<join>> \in Seq(Join)
    BY <1>2
  <2> QED BY <1>3, <2>1, <2>2
<1> HIDE DEF post
<1>5. /\ p \in Process /\ p.main = "waiting" /\ p.post = post
      /\ p.queue = sb[s].queue /\ p.waiting = sb[s].waiting /\ p.sem = sb[s].sem
      /\ p.rd = sb[s].rd /\ p.wr = sb[s].wr
  BY ZenonT(30), <1>4, StandbyFacts DEF Process
<1> HIDE DEF p
<1>6. ProcAt(p, toStandby[s])
  BY Zenon, <1>1, <1>5, StandbyFacts DEF ProcAt
<1>7. JoinAt(p, conn[s], toMaster[s])
  BY Zenon, <1>3, <1>4, <1>5, StandbyFacts DEF JoinAt
<1> QED BY Zenon, <1>1, <1>5, <1>6, <1>7, StandbyFacts, StandbyFrame DEF wireVars

\* The wait ends and the filesystem is mounted.
LEMMA MountInv ==
    ASSUME IInv, NEW s \in Standby, Mount(s), UNCHANGED masterVars PROVE IInv'
<1> DEFINE n == sb[s].sem - 1
           p == [sb[s] EXCEPT !.main = "mounted", !.sem = n]
<1>1. /\ sb' = [sb EXCEPT ![s] = p] /\ sb[s].main = "waiting" /\ sb[s].sem > 0
      /\ UNCHANGED <<masterVars, wireVars>>
  BY Zenon, StandbyFacts DEF Mount
<1>2. n \in Nat /\ sb[s].waiting \in BOOLEAN /\ sb[s].waiting = FALSE
  <2>1. sb[s].sem \in Nat /\ sb[s].waiting \in BOOLEAN /\ (sb[s].waiting => sb[s].sem = 0)
    BY Zenon, StandbyFacts DEF Process, ProcAt
  <2> QED BY <1>1, <2>1
<1> HIDE DEF n
<1>3. /\ p \in Process /\ p.main = "mounted" /\ p.post = sb[s].post
      /\ p.queue = sb[s].queue /\ p.waiting = sb[s].waiting /\ p.sem = n
      /\ p.rd = sb[s].rd /\ p.wr = sb[s].wr
  BY Zenon, <1>2, StandbyFacts DEF Process
<1> HIDE DEF p
<1>4. ProcAt(p, toStandby[s]) /\ JoinAt(p, conn[s], toMaster[s])
  BY Zenon, <1>1, <1>2, <1>3, StandbyFacts DEF ProcAt, JoinAt
<1> QED BY Zenon, <1>1, <1>3, <1>4, StandbyFacts, StandbyFrame DEF wireVars

\* A process ends.
LEMMA StandbyExitInv ==
    ASSUME IInv, NEW s \in Standby, StandbyExit(s), UNCHANGED masterVars PROVE IInv'
<1> DEFINE p == [sb[s] EXCEPT !.main = "exited", !.post = << >>, !.queue = << >>,
                              !.rd = "none", !.wr = "none"]
<1>1. /\ sb' = [sb EXCEPT ![s] = p] /\ sb[s].main # "init"
      /\ standbyEnd' = [standbyEnd EXCEPT ![s] =
                          IF @ \in {"open", "closed"} THEN "closed" ELSE "failed"]
      /\ toStandby' = [toStandby EXCEPT ![s] = << >>]
      /\ UNCHANGED <<masterVars, acceptor, masterEnd, toMaster, cut>>
  BY Zenon, StandbyFacts DEF StandbyExit
<1>2. << >> \in Seq(Join) /\ << >> \in Seq(Packet) /\ "none" \in Op /\ Len(<< >>) = 0
  BY DEF Op
<1>3. /\ p \in Process /\ p.main = "exited" /\ p.post = << >>
      /\ p.queue = << >> /\ p.waiting = sb[s].waiting /\ p.sem = sb[s].sem
      /\ p.rd = "none" /\ p.wr = "none"
  BY Zenon, <1>2, StandbyFacts DEF Process
<1> HIDE DEF p
<1>4. ProcAt(p, toStandby'[s])
  BY Zenon, <1>3, StandbyFacts DEF ProcAt
<1>5. JoinAt(p, conn[s], toMaster[s])
  BY Zenon, <1>2, <1>3, StandbyFacts DEF JoinAt
<1>6. standbyEnd' \in [Standby -> {"none", "connecting", "open", "failed", "closed"}]
  BY Zenon, <1>1, StandbyFacts
<1>7. /\ toStandby' \in [Standby -> Seq(Packet)]
      /\ \A t \in Standby \ {s} : toStandby'[t] = toStandby[t]
  BY Zenon, <1>1, <1>2, StandbyFacts
<1> QED BY Zenon, <1>1, <1>3, <1>4, <1>5, <1>6, <1>7, StandbyFacts, StandbyFrame

\* The connection is made, or not.
LEMMA ConnectInv ==
    ASSUME IInv, NEW s \in Standby, StandbyConnects(s), UNCHANGED masterVars PROVE IInv'
<1>1. CASE Connected(s)
  <2> DEFINE p == [sb[s] EXCEPT !.rd = "pending"]
  <2>1. /\ sb' = [sb EXCEPT ![s] = p]
        /\ standbyEnd' = [standbyEnd EXCEPT ![s] = "open"]
        /\ UNCHANGED <<masterVars, acceptor, masterEnd, toMaster, toStandby, cut>>
    BY Zenon, <1>1, StandbyFacts DEF Connected
  <2>2. /\ p \in Process /\ p.main = sb[s].main /\ p.post = sb[s].post
        /\ p.queue = sb[s].queue /\ p.waiting = sb[s].waiting /\ p.sem = sb[s].sem
        /\ p.rd = "pending" /\ p.wr = sb[s].wr
    BY ZenonT(30), StandbyFacts DEF Process, Op
  <2> HIDE DEF p
  <2>3. ProcAt(p, toStandby[s]) /\ JoinAt(p, conn[s], toMaster[s])
    BY Zenon, <2>2, StandbyFacts DEF ProcAt, JoinAt
  <2>4. standbyEnd' \in [Standby -> {"none", "connecting", "open", "failed", "closed"}]
    BY Zenon, <2>1, StandbyFacts
  <2> QED BY Zenon, <2>1, <2>2, <2>3, <2>4, StandbyFacts, StandbyFrame
<1>2. CASE ConnectFailed(s)
  <2> DEFINE w == Abort(sb[s].wr)
             a == [sb[s] EXCEPT !.wr = w]
             p == Disconnect(a)
  <2>1. /\ sb' = [sb EXCEPT ![s] = p]
        /\ standbyEnd' = [standbyEnd EXCEPT ![s] = "failed"]
        /\ UNCHANGED <<masterVars, acceptor, masterEnd, toMaster, toStandby, cut>>
    BY Zenon, <1>2, StandbyFacts DEF ConnectFailed
  <2>2. w \in Op /\ w # "pending"
    BY Zenon, StandbyFacts DEF Abort, Op, Process
  <2> HIDE DEF w
  <2>3. /\ a \in Process /\ a.main = sb[s].main /\ a.post = sb[s].post
        /\ a.queue = sb[s].queue /\ a.waiting = sb[s].waiting /\ a.sem = sb[s].sem
        /\ a.rd = sb[s].rd /\ a.wr = w
    BY Zenon, <2>2, StandbyFacts DEF Process
  <2> HIDE DEF a
  <2>4. ProcAt(a, toStandby[s])
    BY Zenon, <2>2, <2>3, StandbyFacts DEF ProcAt
  <2>5. /\ p \in Process /\ ProcAt(p, toStandby[s])
        /\ p.main = a.main /\ p.post = a.post /\ p.queue = a.queue
        /\ p.rd = a.rd /\ p.wr = a.wr
    BY Zenon, <2>3, <2>4, DisconnectType
  <2> HIDE DEF p
  <2>6. JoinAt(p, conn[s], toMaster[s])
    BY Zenon, <2>2, <2>3, <2>5, StandbyFacts DEF JoinAt
  <2>7. standbyEnd' \in [Standby -> {"none", "connecting", "open", "failed", "closed"}]
    BY Zenon, <2>1, StandbyFacts
  <2> QED BY Zenon, <2>1, <2>5, <2>6, <2>7, StandbyFacts, StandbyFrame
<1> QED BY Zenon, <1>1, <1>2 DEF StandbyConnects

\* The posted function: the join is the only packet, so its write starts.
LEMMA StandbyPostedInv ==
    ASSUME IInv, NEW s \in Standby, StandbyPosted(s), UNCHANGED masterVars PROVE IInv'
<1> DEFINE post == Tail(sb[s].post)
           queue == Append(sb[s].queue, Head(sb[s].post))
           w == IF sb[s].queue # << >> THEN sb[s].wr
                ELSE IF standbyEnd[s] \in {"connecting", "open"} THEN "pending" ELSE "err"
           p == [sb[s] EXCEPT !.post = post, !.queue = queue, !.wr = w]
<1>1. /\ sb' = [sb EXCEPT ![s] = p] /\ sb[s].post # << >>
      /\ UNCHANGED <<masterVars, wireVars>>
  BY Zenon, StandbyFacts DEF StandbyPosted
<1>2. /\ sb[s].post \in Seq(Join) /\ sb[s].queue \in Seq(Join) /\ Len(sb[s].post) = 1
      /\ sb[s].queue = << >> /\ toMaster[s] = << >> /\ conn[s].id = 0
      /\ sb[s].main \notin {"init", "started"}
  <2>1. /\ sb[s].post \in Seq(Join) /\ sb[s].queue \in Seq(Join) /\ Len(sb[s].post) <= 1
        /\ sb[s].queue = << >> /\ toMaster[s] = << >> /\ conn[s].id = 0
        /\ sb[s].main \notin {"init", "started"}
    BY Zenon, <1>1, StandbyFacts DEF Process, JoinAt
  <2> QED BY Zenon, <1>1, <2>1, NonEmptyLen
<1>3. post = << >> /\ Head(sb[s].post) \in Join
  BY Zenon, <1>2, TailOfOne
<1>4. queue \in Seq(Join) /\ queue # << >>
  BY <1>2, <1>3
<1>5. w \in Op
  BY Zenon, StandbyFacts DEF Op, Process
<1>6. post \in Seq(Join) /\ Len(<< >>) = 0
  <2>1. << >> \in Seq(Join) /\ Len(<< >>) = 0
    OBVIOUS
  <2> HIDE DEF post
  <2> QED BY Zenon, <1>3, <2>1
<1> HIDE DEF post, queue, w
<1>7. /\ p \in Process /\ p.main = sb[s].main /\ p.post = post
      /\ p.queue = queue /\ p.waiting = sb[s].waiting /\ p.sem = sb[s].sem
      /\ p.rd = sb[s].rd /\ p.wr = w
  BY Zenon, <1>4, <1>5, <1>6, StandbyFacts DEF Process
<1> HIDE DEF p
<1>8. ProcAt(p, toStandby[s])
  BY Zenon, <1>4, <1>7, StandbyFacts DEF ProcAt
<1>9. JoinAt(p, conn[s], toMaster[s])
  BY Zenon, <1>2, <1>3, <1>6, <1>7, StandbyFacts DEF JoinAt
<1> QED BY Zenon, <1>1, <1>7, <1>8, <1>9, StandbyFacts, StandbyFrame DEF wireVars

\* The join has been written: it is on its way, or lost.
LEMMA StandbyOnWrittenInv ==
    ASSUME IInv, NEW s \in Standby, StandbyOnWritten(s), UNCHANGED masterVars PROVE IInv'
<1> DEFINE queue == Tail(sb[s].queue)
           join == Head(sb[s].queue)
           p == [sb[s] EXCEPT !.queue = queue, !.wr = "none"]
<1>1. /\ sb' = [sb EXCEPT ![s] = p] /\ sb[s].wr = "pending"
      /\ toMaster' = Deliver(toMaster, s, join, masterEnd[s] = "closed")
      /\ UNCHANGED <<masterVars, acceptor, masterEnd, standbyEnd, toStandby, cut>>
  BY Zenon, StandbyFacts DEF StandbyOnWritten
<1>2. /\ sb[s].queue \in Seq(Join) /\ sb[s].queue # << >> /\ sb[s].post = << >>
      /\ toMaster[s] = << >> /\ conn[s].id = 0 /\ sb[s].main \notin {"init", "started"}
  BY Zenon, <1>1, StandbyFacts DEF Process, ProcAt, JoinAt
<1>3. queue \in Seq(Join) /\ join \in Join /\ "none" \in Op
  BY <1>2 DEF Op
<1> HIDE DEF queue, join
<1>4. /\ p \in Process /\ p.main = sb[s].main /\ p.post = sb[s].post
      /\ p.queue = queue /\ p.waiting = sb[s].waiting /\ p.sem = sb[s].sem
      /\ p.rd = sb[s].rd /\ p.wr = "none"
  BY Zenon, <1>3, StandbyFacts DEF Process
<1> HIDE DEF p
<1>5. /\ toMaster' \in [Standby -> Seq(Join)]
      /\ Len(toMaster'[s]) <= 1
      /\ \A t \in Standby \ {s} : toMaster'[t] = toMaster[t]
  <2>1. Append(<< >>, join) = <<join>> /\ Len(<<join>>) = 1 /\ <<join>> \in Seq(Join)
        /\ Len(<< >>) = 0
    BY <1>3
  <2>2. toMaster' = toMaster \/ toMaster' = [toMaster EXCEPT ![s] = Append(@, join)]
    BY Zenon, <1>1 DEF Deliver
  <2>3. toMaster' = toMaster \/ toMaster' = [toMaster EXCEPT ![s] = <<join>>]
    BY Zenon, <1>2, <2>1, <2>2
  <2>4. CASE toMaster' = toMaster
    <3>1. Len(toMaster'[s]) = 0
      BY Zenon, <1>2, <2>1, <2>4
    <3>2. Len(toMaster'[s]) <= 1
      BY <3>1
    <3>3. toMaster' \in [Standby -> Seq(Join)]
      BY Zenon, <2>4, StandbyFacts
    <3> QED BY Zenon, <2>4, <3>2, <3>3
  <2>5. CASE toMaster' = [toMaster EXCEPT ![s] = <<join>>]
    <3> DEFINE q == <<join>>
    <3>1. q \in Seq(Join) /\ Len(q) = 1 /\ toMaster' = [toMaster EXCEPT ![s] = q]
      BY Zenon, <2>1, <2>5
    <3> HIDE DEF q
    <3>2. toMaster'[s] = q /\ toMaster' \in [Standby -> Seq(Join)]
      BY Zenon, <3>1, StandbyFacts
    <3>3. \A t \in Standby \ {s} : toMaster'[t] = toMaster[t]
      BY Zenon, <3>1, StandbyFacts
    <3>4. Len(toMaster'[s]) = 1
      BY Zenon, <3>1, <3>2
    <3>5. Len(toMaster'[s]) <= 1
      BY <3>4
    <3> QED BY Zenon, <3>2, <3>3, <3>5
  <2> QED BY Zenon, <2>3, <2>4, <2>5
<1>6. ProcAt(p, toStandby[s])
  BY Zenon, <1>4, StandbyFacts DEF ProcAt
<1>7. JoinAt(p, conn[s], toMaster'[s])
  BY Zenon, <1>2, <1>4, <1>5, StandbyFacts DEF JoinAt
<1> QED BY ZenonT(30), <1>1, <1>2, <1>4, <1>5, <1>6, <1>7, StandbyFacts, StandbyFrame

\* A packet of the master is dealt with.
LEMMA ReadPacketType ==
    ASSUME NEW p \in Process, NEW packet \in Packet, NEW incoming, ProcAt(p, incoming)
    PROVE  LET q == ReadPacket(p, packet)
           IN  /\ q \in Process
               /\ q.main = p.main /\ q.post = p.post /\ q.queue = p.queue
               /\ q.rd = p.rd /\ q.wr = p.wr
               /\ ProcAt(q, incoming)
<1> DEFINE q == ReadPacket(p, packet)
<1>0. p.sem \in Nat /\ p.waiting \in BOOLEAN
  BY Zenon DEF Process
<1>1. CASE packet.type = 1
  <2> DEFINE n == p.sem + 1
             r == [p EXCEPT !.hostId = packet.id, !.dirTree = packet.tree,
                            !.hosts = packet.hosts, !.waiting = FALSE, !.sem = n]
  <2>1. packet.id \in Nat /\ packet.tree \in Tree /\ packet.hosts \in Hosts
    BY <1>1 DEF Packet
  <2>2. n \in Nat /\ n > 0
    BY <1>0
  <2>3. q = r
    BY <1>1 DEF ReadPacket, SlaveRecognized
  <2> HIDE DEF n
  <2>4. /\ r \in Process /\ r.waiting = FALSE /\ r.sem = n
        /\ r.main = p.main /\ r.post = p.post /\ r.queue = p.queue
        /\ r.rd = p.rd /\ r.wr = p.wr
    BY Zenon, <2>1, <2>2 DEF Process
  <2> HIDE DEF r
  <2>5. ProcAt(r, incoming)
    BY Zenon, <2>2, <2>4 DEF ProcAt
  <2> QED BY Zenon, <2>3, <2>4, <2>5
<1>2. CASE packet.type = 2
  <2> DEFINE r == [p EXCEPT !.dirTree = packet.tree, !.hosts = packet.hosts]
  <2>1. packet.tree \in Tree /\ packet.hosts \in Hosts
    BY Zenon, <1>2 DEF Packet
  <2>2. q = r
    BY <1>2 DEF ReadPacket, UpdateInfo
  <2>3. /\ r \in Process /\ r.waiting = p.waiting /\ r.sem = p.sem
        /\ r.main = p.main /\ r.post = p.post /\ r.queue = p.queue
        /\ r.rd = p.rd /\ r.wr = p.wr
    BY Zenon, <2>1 DEF Process
  <2> HIDE DEF r
  <2>4. ProcAt(r, incoming)
    BY Zenon, <2>3 DEF ProcAt
  <2> QED BY Zenon, <2>2, <2>3, <2>4
<1> QED BY Zenon, <1>1, <1>2 DEF Packet

\* Handler of a read that finished.
LEMMA StandbyOnPacketInv ==
    ASSUME IInv, NEW s \in Standby, StandbyOnPacket(s), UNCHANGED masterVars PROVE IInv'
<1> DEFINE packet == Head(toStandby[s])
           rest == Tail(toStandby[s])
           r == IF standbyEnd[s] = "open" THEN "pending" ELSE "err"
           a == ReadPacket(sb[s], packet)
           p == [a EXCEPT !.rd = r]
<1>1. /\ sb' = [sb EXCEPT ![s] = p] /\ toStandby[s] # << >>
      /\ toStandby' = [toStandby EXCEPT ![s] = rest]
      /\ UNCHANGED <<masterVars, acceptor, masterEnd, standbyEnd, toMaster, cut>>
  <2>1. toStandby[s] # << >>
    BY Zenon, StandbyFacts DEF StandbyOnPacket, ProcAt
  <2> QED BY Zenon, <2>1, StandbyFacts DEF StandbyOnPacket
<1>2. packet \in Packet /\ rest \in Seq(Packet)
  BY <1>1, StandbyFacts
<1>3. r \in Op /\ r # "ok"
  BY Zenon DEF Op
<1> HIDE DEF packet, rest, r
<1>4. /\ a \in Process /\ a.main = sb[s].main /\ a.post = sb[s].post
      /\ a.queue = sb[s].queue /\ a.rd = sb[s].rd /\ a.wr = sb[s].wr
      /\ ProcAt(a, toStandby[s])
  BY Zenon, <1>2, ReadPacketType, StandbyFacts
<1> HIDE DEF a
<1>5. /\ p \in Process /\ p.rd = r /\ p.wr = a.wr /\ p.main = a.main /\ p.post = a.post
      /\ p.queue = a.queue /\ p.waiting = a.waiting /\ p.sem = a.sem
  BY Zenon, <1>3, <1>4 DEF Process
<1> HIDE DEF p
<1>6. ProcAt(p, toStandby'[s])
  BY Zenon, <1>3, <1>4, <1>5 DEF ProcAt
<1>7. JoinAt(p, conn[s], toMaster[s])
  BY Zenon, <1>4, <1>5, StandbyFacts DEF JoinAt
<1>8. /\ toStandby' \in [Standby -> Seq(Packet)]
      /\ \A t \in Standby \ {s} : toStandby'[t] = toStandby[t]
  BY Zenon, <1>1, <1>2, StandbyFacts
<1> QED BY Zenon, <1>1, <1>5, <1>6, <1>7, <1>8, StandbyFacts, StandbyFrame

\* Every step of a standby keeps the invariant.
LEMMA StandbyStepInv ==
    ASSUME IInv, NEW s \in Standby, StandbyStep(s) PROVE IInv'
  BY Zenon, StandbyStartInv, SendMetadataInv, MountInv, ConnectInv, StandbyPostedInv,
     StandbyOnPacketInv, StandbyOnErrorInv, StandbyOnWrittenInv, StandbyExitInv
     DEF StandbyStep, StandbyMain, StandbyHandles

\* So does the network.
LEMMA NetworkStepInv ==
    ASSUME IInv, NEW s \in Standby, NetworkStep(s) PROVE IInv'
<1> USE DEF IInv, TypeInv
<1>1. /\ cut' = cut \cup {s}
      /\ UNCHANGED <<acceptor, masterEnd, standbyEnd, toMaster, toStandby, masterVars, sb>>
  BY Zenon DEF NetworkStep, Cut
<1>2. UNCHANGED <<main, dirTree, hosts, maxHostId, posted, conn, raced>>
  BY Zenon, <1>1 DEF masterVars
<1>3. TypeInv'
  BY Zenon, <1>1, <1>2 DEF WireType, MasterType, StandbyType
<1>4. ConnInv' /\ ProcInv' /\ OwnerInv'
  BY Zenon, <1>1, <1>2, ConnFrame, ProcFrame, OwnerFrame
<1>5. JoinInv'
  BY Zenon, <1>1, <1>2, JoinFrame
<1> QED BY Zenon, <1>3, <1>4, <1>5

-----------------------------------------------------------------------------
(* The invariant is inductive. *)

\* No step of the master, of a standby or of the network breaks the invariant.
LEMMA NextInv ==
    IInv /\ [Next]_vars => IInv'
<1> SUFFICES ASSUME IInv, [Next]_vars PROVE IInv'
  BY Zenon
<1>1. CASE MasterStep /\ UNCHANGED sb
  BY Zenon, <1>1, MasterStepInv
<1>2. ASSUME NEW s \in Standby, StandbyStep(s) PROVE IInv'
  BY Zenon, <1>2, StandbyStepInv
<1>3. ASSUME NEW s \in Standby, NetworkStep(s) PROVE IInv'
  BY Zenon, <1>3, NetworkStepInv
<1>4. CASE UNCHANGED vars
  <2> USE DEF IInv, TypeInv
  <2>1. /\ UNCHANGED <<main, dirTree, hosts, maxHostId, posted, conn, raced, sb>>
        /\ UNCHANGED <<acceptor, masterEnd, standbyEnd, toMaster, toStandby, cut>>
    BY Zenon, <1>4 DEF vars, masterVars, wireVars
  <2>2. TypeInv'
    BY Zenon, <2>1 DEF WireType, MasterType, StandbyType
  <2>3. ConnInv' /\ ProcInv' /\ OwnerInv'
    BY Zenon, <2>1, ConnFrame, ProcFrame, OwnerFrame
  <2>4. JoinInv'
    BY Zenon, <2>1, JoinFrame
  <2> QED BY Zenon, <2>2, <2>3, <2>4
<1> QED BY Zenon, <1>1, <1>2, <1>3, <1>4 DEF Next

\* The inductive invariant holds in every state of every group.
THEOREM Invariance == Spec => []IInv
  BY InitInv, NextInv, PTL DEF Spec

\* A packet of the inductive invariant is a packet of TypeOK.
LEMMA PacketIsPacket ==
    /\ \A p \in Join : IsPacket(p)
    /\ \A p \in Packet : IsPacket(p)
<1>1. ASSUME NEW p \in Join PROVE IsPacket(p)
  <2>1. p.type = 0 /\ p.tree \in Tree /\ p.host \in Host
    BY Zenon DEF Join
  <2>2. IsTree(p.tree)
    BY Zenon, <2>1, TreeIsTree
  <2> QED BY <2>1, <2>2 DEF IsPacket
<1>2. ASSUME NEW p \in Packet PROVE IsPacket(p)
  <2>1. p.type \in {1, 2} /\ p.tree \in Tree /\ p.hosts \in Seq(Host)
        /\ (p.type = 1 => p.id \in Nat)
    BY DEF Packet, Hosts
  <2>2. IsTree(p.tree)
    BY Zenon, <2>1, TreeIsTree
  <2> QED BY <2>1, <2>2 DEF IsPacket
<1> QED BY Zenon, <1>1, <1>2

\* Type correctness: whatever directories are shared and whoever joins, leaves
\* or fails in whatever order, every tree in the master, in a standby, in a
\* queue or on the way is a tree, every host table a sequence of hosts, and
\* every packet well formed.
THEOREM TypeCorrect == Spec => []TypeOK
<1>1. IInv => TypeOK
  <2> SUFFICES ASSUME IInv PROVE TypeOK
    BY Zenon
  <2> USE DEF IInv, TypeInv
  <2>1. /\ acceptor \in {"closed", "listening", "failed"}
        /\ masterEnd \in [Standby -> {"none", "open", "closed"}]
        /\ standbyEnd \in [Standby -> {"none", "connecting", "open", "failed", "closed"}]
        /\ cut \subseteq Standby
    BY Zenon DEF WireType
  <2>2. /\ main \in {"init", "started", "pushing", "colliding", "serving", "exited"}
        /\ IsTree(dirTree)
        /\ hosts \in Seq(Host)
        /\ maxHostId \in Nat
        /\ raced \in BOOLEAN
    BY Zenon, TreeIsTree DEF MasterType, Hosts
  <2>3. \A i \in DOMAIN posted : IsPacket(posted[i].packet)
    <3>1. \A i \in DOMAIN posted : posted[i] \in Call
      BY DEF MasterType
    <3>2. \A i \in DOMAIN posted : posted[i].packet \in Packet
      BY Zenon, <3>1 DEF Call
    <3> QED BY Zenon, <3>2, PacketIsPacket
  <2>4. ASSUME NEW s \in Standby
        PROVE  /\ \A i \in DOMAIN toMaster[s] : IsPacket(toMaster[s][i])
               /\ \A i \in DOMAIN toStandby[s] : IsPacket(toStandby[s][i])
    <3>1. toMaster[s] \in Seq(Join) /\ toStandby[s] \in Seq(Packet)
      BY Zenon DEF WireType
    <3>2. /\ \A i \in DOMAIN toMaster[s] : toMaster[s][i] \in Join
          /\ \A i \in DOMAIN toStandby[s] : toStandby[s][i] \in Packet
      BY <3>1
    <3> QED BY Zenon, <3>2, PacketIsPacket
  <2>5. ASSUME NEW s \in Standby
        PROVE  /\ conn[s].id \in Nat
               /\ conn[s].rd \in {"none", "pending", "ok", "err"}
               /\ conn[s].wr \in Seq({"none", "pending", "ok", "err"})
               /\ \A i \in DOMAIN conn[s].queue : IsPacket(conn[s].queue[i])
    <3>1. /\ conn[s].id \in Nat /\ conn[s].rd \in Op
          /\ conn[s].wr \in Seq(Op) /\ conn[s].queue \in Seq(Packet)
      BY Zenon DEF MasterType, Conn
    <3>2. \A i \in DOMAIN conn[s].queue : conn[s].queue[i] \in Packet
      BY <3>1
    <3> QED BY Zenon, <3>1, <3>2, PacketIsPacket DEF Op
  <2>6. ASSUME NEW s \in Standby
        PROVE  /\ sb[s].main \in {"init", "started", "waiting", "mounted", "exited"}
               /\ sb[s].sem \in Nat
               /\ sb[s].waiting \in BOOLEAN
               /\ sb[s].hostId \in Nat
               /\ IsTree(sb[s].dirTree)
               /\ sb[s].hosts \in Seq(Host)
    <3>1. sb[s] \in Process
      BY Zenon DEF StandbyType
    <3> QED BY Zenon, <3>1, TreeIsTree DEF Process, Hosts
  <2> QED BY Zenon, <2>1, <2>2, <2>3, <2>4, <2>5, <2>6 DEF TypeOK
<1> QED BY <1>1, Invariance, PTL

\* In every group, each node of the master's tree is the master's or that of a
\* connection which still carries its id, and ids are not shared: what
\* disconnect(handle) removes before it resets the id is all that came with it.
THEOREM Ownership == Spec => []OwnersRegistered
<1>1. IInv => OwnersRegistered
  BY Zenon DEF IInv, OwnerInv, OwnersRegistered
<1> QED BY <1>1, Invariance, PTL

\* In every group, an open connection of the master has exactly one write in
\* progress while packets are queued, and none otherwise.
THEOREM OneWrite == Spec => []WriteInProgress
<1>1. IInv => WriteInProgress
  BY Zenon DEF IInv, ConnInv, WriteInProgress
<1> QED BY <1>1, Invariance, PTL

\* In every group, a standby's main thread whose flag was cleared finds the
\* semaphore posted, however recognition, updates and disconnection interleave
\* with it.
THEOREM Wakeup == Spec => []NoLostWakeup
<1>1. IInv => NoLostWakeup
  BY Zenon DEF IInv, ProcInv, ProcAt, NoLostWakeup
<1> QED BY <1>1, Invariance, PTL

=============================================================================
