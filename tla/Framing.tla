------------------------------ MODULE Framing -------------------------------
(***************************************************************************)
(* How a message becomes the bytes of a packet, and how TCPManager::read   *)
(* takes them apart again.  A serialised tree or host table is any         *)
(* sequence of bytes: boost::serialization is external.                    *)
(***************************************************************************)
EXTENDS ByteOrder

\* Packet::sizeLength
SizeLength == 8

\* Mutant: the size of the packet instead of the size of the data.
EncodeDataWholeSize(data) == HostToNetwork64(Len(data) + SizeLength) \o data

\* Packet::encodeData
EncodeData(data) == HostToNetwork64(Len(data)) \o data

-----------------------------------------------------------------------------
(* Messages, by the calls they lead to at the other end. *)

NewConnectionCall(tree, host) == [type |-> 0, tree |-> tree, hosts |-> host]

SlaveRecognizedCall(id, tree, hosts) ==
    [type |-> 1, id |-> id, tree |-> tree, hosts |-> hosts]

UpdateInfoCall(tree, hosts) == [type |-> 2, tree |-> tree, hosts |-> hosts]

\* A length and what has this length.
Field(bytes) == HostToNetwork64(Len(bytes)) \o bytes

\* The end of initTCPNetwork, of newConnection, and sendUpdate.
Message(call) ==
    LET id == IF call.type = 1 THEN HostToNetwork64(call.id) ELSE << >>
    IN  HostToNetwork64(call.type) \o id \o Field(call.tree) \o Field(call.hosts)

-----------------------------------------------------------------------------
(* Reading a message. *)

Number(data, at) == NetworkToHost64(SubSeq(data, at, at + SizeLength - 1))

\* Mutant: the length of the second field is taken where the first one's is.
FieldsSameLength(data, at) ==
    LET treeLength == Number(data, at)
        treeAt     == at + SizeLength
        hostsAt    == treeAt + treeLength + SizeLength
        end        == hostsAt + treeLength
    IN  [tree |-> SubSeq(data, treeAt, treeAt + treeLength - 1),
         hosts |-> SubSeq(data, hostsAt, end - 1), end |-> end]

\* Two fields from position at on, and the position after them.
Fields(data, at) ==
    LET treeLength  == Number(data, at)
        treeAt      == at + SizeLength
        hostsLength == Number(data, treeAt + treeLength)
        hostsAt     == treeAt + treeLength + SizeLength
        end         == hostsAt + hostsLength
    IN  [tree |-> SubSeq(data, treeAt, treeAt + treeLength - 1),
         hosts |-> SubSeq(data, hostsAt, end - 1), end |-> end]

\* Where the fields of a message of this type begin.
FieldsAt(type) == 1 + SizeLength + (IF type = 1 THEN SizeLength ELSE 0)

\* TCPManager::read of the master (types = {0}) and of a standby
\* (types = {1, 2}): the calls made.  Other packet types are ignored.
Calls(data, types) ==
    LET type   == Number(data, 1)
        fields == Fields(data, FieldsAt(type))
    IN  IF type \notin types THEN << >>
        ELSE CASE type = 0 -> <<NewConnectionCall(fields.tree, fields.hosts)>>
               [] type = 1 -> <<SlaveRecognizedCall(Number(data, 1 + SizeLength),
                                                    fields.tree, fields.hosts)>>
               [] type = 2 -> <<UpdateInfoCall(fields.tree, fields.hosts)>>

=============================================================================
