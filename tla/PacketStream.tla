---------------------------- MODULE PacketStream ----------------------------
(***************************************************************************)
(* One direction of a connection in bytes: TCPManager::write and the       *)
(* messagers' do_write at one end, do_read_header, do_read_body and        *)
(* TCPManager::read at the other.  TCP cuts the stream wherever it likes;  *)
(* async_write and async_read go on until all bytes are through or the     *)
(* connection has ended.                                                   *)
(***************************************************************************)
EXTENDS Framing

CONSTANTS
    Trees, Tables,  \* serialised trees and host tables: sequences of bytes
    Ids,            \* ids given to standbys
    MaxSent,        \* bound: messages the master sends on the connection
    Window          \* bound: bytes the kernel holds

\* How many numbers six bytes hold.
Width48 == Width32 * Width16

\* Trees and tables are bytes.  No message is longer than memory is large, so the two
\* highest bytes of its lengths are 0, and so are those of an id.
ASSUME MessagesAssumption ==
    /\ Trees \subseteq Seq(Byte) /\ Tables \subseteq Seq(Byte)
    /\ Ids \subseteq 0..(Width48 - 1)
    /\ \A t \in Trees, h \in Tables : 4 * SizeLength + Len(t) + Len(h) < Width48

VARIABLES
    reader,         \* who reads this direction: "master" or "standby"
    sent,           \* history: the messages given to write, as calls
    queue,          \* packets not yet written; of the first, what remains
    wire,           \* bytes in the kernel
    writerEnd,      \* "open" or "closed"
    readerEnd,      \* "open" or "closed"
    phase,          \* the read under way: "header", "body", or none: "closed"
    size,           \* _packet.size() of the packet being read
    buffer,         \* bytes that this read has got so far
    made            \* history: the calls made by TCPManager::read

vars == <<reader, sent, queue, wire, writerEnd, readerEnd, phase, size, buffer, made>>

Types == IF reader = "master" THEN {0} ELSE {1, 2}

ToMaster == {NewConnectionCall(t, h) : t \in Trees, h \in Tables}

ToStandby ==
    {SlaveRecognizedCall(i, t, h) : i \in Ids, t \in Trees, h \in Tables}
        \cup {UpdateInfoCall(t, h) : t \in Trees, h \in Tables}

Sendable == IF reader = "master" THEN ToMaster ELSE ToStandby

\* A standby sends its metadata once; the master goes on sending.
Limit == IF reader = "master" THEN 1 ELSE MaxSent

Init ==
    /\ reader \in {"master", "standby"}
    /\ sent = << >> /\ queue = << >> /\ wire = << >>
    /\ writerEnd = "open" /\ readerEnd = "open"
    /\ phase = "header" /\ size = 0 /\ buffer = << >> /\ made = << >>

-----------------------------------------------------------------------------
(* The writing end. *)

\* TCPManager::write or writeTo, and the queue of the messager.
Write(call) ==
    /\ writerEnd = "open"
    /\ Len(sent) < Limit
    /\ sent' = Append(sent, call)
    /\ queue' = Append(queue, EncodeData(Message(call)))
    /\ UNCHANGED <<reader, wire, writerEnd, readerEnd, phase, size, buffer, made>>

\* do_write: the kernel takes some bytes; when it has all, the packet is popped.
WriteSome(k) ==
    /\ writerEnd = "open"
    /\ queue # << >>
    /\ k \in 1..Len(Head(queue))
    /\ Len(wire) + k <= Window
    /\ wire' = wire \o SubSeq(Head(queue), 1, k)
    /\ queue' = IF k = Len(Head(queue)) THEN Tail(queue)
                ELSE [queue EXCEPT ![1] = SubSeq(@, k + 1, Len(@))]
    /\ UNCHANGED <<reader, sent, writerEnd, readerEnd, phase, size, buffer, made>>

\* The socket is closed, or its process ends, whatever is still to be written.
WriterCloses ==
    /\ writerEnd = "open"
    /\ writerEnd' = "closed"
    /\ UNCHANGED <<reader, sent, queue, wire, readerEnd, phase, size, buffer, made>>

-----------------------------------------------------------------------------
(* The reading end. *)

\* How many bytes the read under way is for.
Wanted == IF phase = "header" THEN SizeLength ELSE size

ReadSome(k) ==
    /\ phase # "closed" /\ readerEnd = "open"
    /\ k \in 1..Len(wire)
    /\ Len(buffer) + k <= Wanted
    /\ buffer' = buffer \o SubSeq(wire, 1, k)
    /\ wire' = SubSeq(wire, k + 1, Len(wire))
    /\ UNCHANGED <<reader, sent, queue, writerEnd, readerEnd, phase, size, made>>

\* Handler of do_read_header: decodeSize, then do_read_body.
OnHeader ==
    /\ phase = "header"
    /\ Len(buffer) = SizeLength
    /\ size' = NetworkToHost64(buffer)
    /\ phase' = "body"
    /\ buffer' = << >>
    /\ UNCHANGED <<reader, sent, queue, wire, writerEnd, readerEnd, made>>

\* Mutant: the buffer is not resized for the next header.
OnBodyKeepsBuffer ==
    /\ phase = "body"
    /\ Len(buffer) = size
    /\ made' = made \o Calls(buffer, Types)
    /\ phase' = "header"
    /\ UNCHANGED <<reader, sent, queue, wire, writerEnd, readerEnd, size, buffer>>

\* Handler of do_read_body: setData, TCPManager::read, do_read_header.
OnBody ==
    /\ phase = "body"
    /\ Len(buffer) = size
    /\ made' = made \o Calls(buffer, Types)
    /\ phase' = "header"
    /\ buffer' = << >>
    /\ UNCHANGED <<reader, sent, queue, wire, writerEnd, readerEnd, size>>

\* Either handler when the stream ended too early, or the socket has been closed.
OnReadError ==
    /\ phase # "closed"
    /\ Len(buffer) < Wanted
    /\ readerEnd = "closed" \/ (writerEnd = "closed" /\ wire = << >>)
    /\ readerEnd' = "closed"
    /\ phase' = "closed"
    /\ buffer' = << >>
    /\ UNCHANGED <<reader, sent, queue, wire, writerEnd, size, made>>

\* The reader closes its socket, because one of its own writes has failed.  That
\* takes back no read that is complete: its handler is called as if nothing had
\* happened, and only the read that it starts fails.
ReaderCloses ==
    /\ phase # "closed" /\ readerEnd = "open"
    /\ readerEnd' = "closed"
    /\ UNCHANGED <<reader, sent, queue, wire, writerEnd, phase, size, buffer, made>>

-----------------------------------------------------------------------------

Transfer == \E k \in 1..Window : WriteSome(k) \/ ReadSome(k)

Handler == OnHeader \/ OnBody \/ OnReadError

Next ==
    \/ \E call \in Sendable : Write(call)
    \/ Transfer \/ Handler \/ WriterCloses \/ ReaderCloses

Spec == Init /\ [][Next]_vars

\* The kernel carries what it can, and io_service::run calls the handlers.
FairSpec ==
    /\ Spec
    /\ WF_vars(\E k \in 1..Window : WriteSome(k))
    /\ WF_vars(\E k \in 1..Window : ReadSome(k))
    /\ WF_vars(Handler)

-----------------------------------------------------------------------------

\* The type invariant: bytes everywhere, and a read never takes more than it
\* was started for.
StreamTypeOK ==
    /\ {writerEnd, readerEnd} \subseteq {"open", "closed"}
    /\ phase \in {"header", "body", "closed"}
    /\ size \in Nat
    /\ wire \in Seq(Byte) /\ buffer \in Seq(Byte) /\ queue \in Seq(Seq(Byte))
    /\ IF phase = "closed" THEN readerEnd = "closed" ELSE Len(buffer) <= Wanted
    /\ Len(made) <= Len(sent)

\* A whole packet has been read, and its handler is still to be called.
Complete == phase = "body" /\ Len(buffer) = size

\* "packet size should just fit in with the protocol" (tcp_manager.h): when
\* TCPManager::read is called, the fields it finds by their lengths end exactly
\* where the packet does, however the stream was cut up before.
JustFits ==
    Complete =>
        LET type == Number(buffer, 1)
        IN  type \in Types /\ Fields(buffer, FieldsAt(type)).end = size + 1

\* Messages whose calls are still to come: all of them, but after the writer has
\* closed only those it had written to the end, and after the reader has closed
\* only the one it had read to the end.
Coming ==
    LET last == IF readerEnd = "closed"
                THEN IF Complete THEN Len(made) + 1 ELSE Len(made)
                ELSE IF writerEnd = "closed" THEN Len(sent) - Len(queue)
                ELSE Len(sent)
    IN  SubSeq(sent, Len(made) + 1, last)

Channel == INSTANCE PacketChannel WITH
    Call <- ToMaster \cup ToStandby, coming <- Coming

\* The stream of bytes implements a channel of whole messages: header and body
\* reads stay in step with what was written, nothing is lost in the middle, and
\* TCPManager::read makes the call, with the id, tree and table, that was sent.
ImplementsChannel == Channel!Spec

\* Every message sent is handled unless the connection ends.
Handled ==
    \A n \in 1..MaxSent :
        Len(sent) >= n ~> (Len(made) >= n \/ writerEnd = "closed" \/ readerEnd = "closed")

=============================================================================
