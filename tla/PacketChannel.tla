--------------------------- MODULE PacketChannel ----------------------------
(***************************************************************************)
(* What one direction of a connection promises to TCPManager: the calls    *)
(* that messages stand for are made at the other end once, whole and in    *)
(* the order of sending, except that the last ones are lost when the       *)
(* connection ends.  The links of module Wire are such channels.           *)
(***************************************************************************)
EXTENDS Naturals, Sequences

CONSTANT Call       \* the messages, by the calls they stand for

VARIABLES
    coming,         \* messages sent whose call has not been made
    made            \* the calls made

Init == coming = << >> /\ made = << >>

Send(call) ==
    /\ coming' = Append(coming, call)
    /\ UNCHANGED made

Receive ==
    /\ coming # << >>
    /\ made' = Append(made, Head(coming))
    /\ coming' = Tail(coming)

\* The connection ends: only what had been transmitted still comes.
Lose == \E n \in 0..(Len(coming) - 1) :
    /\ coming' = SubSeq(coming, 1, n)
    /\ UNCHANGED made

Next == (\E call \in Call : Send(call)) \/ Receive \/ Lose

Spec == Init /\ [][Next]_<<coming, made>>

=============================================================================
