-------------------------------- MODULE Wire --------------------------------
(***************************************************************************)
(* What travels between a standby and the master: the three packet types   *)
(* of tcp_manager.cc, and the two ends of the TCP connection they travel   *)
(* on.  Packets are whole: the length header, the body and the bytes of a  *)
(* serialised tree or host table are abstracted to a record.               *)
(*                                                                         *)
(* A standby process connects once in its life, so a connection is named   *)
(* after it.  boost::asio and the kernel are external; the assumptions     *)
(* made about them are                                                     *)
(*   - bytes arrive once and in order, or the connection dies;             *)
(*   - when the peer closes, what it sent before may still be read, a read *)
(*     that finds nothing fails, and a write may succeed or fail;          *)
(*   - a connection that is cut goes silent: what was on its way may       *)
(*     arrive, nothing more does, and an error may or may not be reported. *)
(***************************************************************************)
EXTENDS Naturals, Sequences, FiniteSets

CONSTANTS
    Master,         \* the master process and its machine
    Standby,        \* the standby processes, each on a machine of its own
    Shared,         \* per machine: the working directory's entries and types
    MaxCuts         \* bound: how many connections the network may cut

ASSUME MaxCutsAssumption == MaxCuts \in Nat
\* A path is a nonempty sequence of names, and what has entries below it is a
\* directory.
ASSUME SharedAssumption ==
    \A m \in {Master} \cup Standby : \A p \in DOMAIN Shared[m] :
        /\ p \in Seq(Nat) \ {<< >>}
        /\ Len(p) > 1 => /\ <<Head(p)>> \in DOMAIN Shared[m]
                         /\ Shared[m][<<Head(p)>>] = "DIRECTORY"
ASSUME MasterAssumption == Master \notin Standby

VARIABLES
    acceptor,       \* the master's listening socket
    masterEnd,      \* per standby: the socket the master accepted for it
    standbyEnd,     \* per standby: its own socket
    toMaster,       \* per standby: packets on the way to the master
    toStandby,      \* per standby: packets on the way to the standby
    cut             \* the standbys whose connection the network has cut

wireVars == <<acceptor, masterEnd, standbyEnd, toMaster, toStandby, cut>>

\* Packet type 0: a standby's own tree and host.
JoinPacket(tree, host) == [type |-> 0, tree |-> tree, host |-> host]

\* Packet type 1: recognition, with the new id and the merged metadata.
RecognitionPacket(id, tree, hosts) ==
    [type |-> 1, id |-> id, tree |-> tree, hosts |-> hosts]

\* Packet type 2: the current metadata, for every standby.
UpdatePacket(tree, hosts) == [type |-> 2, tree |-> tree, hosts |-> hosts]

WireInit ==
    /\ acceptor = "closed"
    /\ masterEnd = [s \in Standby |-> "none"]
    /\ standbyEnd = [s \in Standby |-> "none"]
    /\ toMaster = [s \in Standby |-> << >>]
    /\ toStandby = [s \in Standby |-> << >>]
    /\ cut = {}

\* A packet handed to the kernel arrives unless the other end is gone.
Deliver(link, s, packet, peerGone) ==
    IF peerGone \/ s \in cut THEN link
    ELSE [link EXCEPT ![s] = Append(@, packet)]

\* The network silently stops carrying the connection of s.
Cut(s) ==
    /\ Cardinality(cut) < MaxCuts
    /\ s \notin cut
    /\ standbyEnd[s] \in {"connecting", "open"}
    /\ cut' = cut \cup {s}
    /\ UNCHANGED <<acceptor, masterEnd, standbyEnd, toMaster, toStandby>>

=============================================================================
