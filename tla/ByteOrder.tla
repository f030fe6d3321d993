----------------------------- MODULE ByteOrder ------------------------------
(***************************************************************************)
(* The conversions of bytes_order.h.  Base is the number of values of a    *)
(* byte: 256 in the code, less in the instance TLC checks.  A number in   *)
(* network form is a sequence of bytes; network[i] is element i + 1.       *)
(* Shifting right by eight bits is a division by Base, masking with 0xff a *)
(* remainder, and the bits that | joins do not overlap, so it is a sum.    *)
(***************************************************************************)
EXTENDS Integers, Sequences

CONSTANT Base       \* the number of values of a byte

ASSUME BaseAssumption == Base \in Nat /\ Base > 1

Byte == 0..(Base - 1)

\* How many numbers uint16_t, uint32_t and uint64_t hold.
Width16 == Base * Base
Width32 == Width16 * Width16
Width64 == Width32 * Width32

-----------------------------------------------------------------------------
(* To the network: the byte at index i is host >> 8 * i & 0xff. *)

HostToNetwork16(host) ==
    LET h1 == host \div Base
    IN  <<host % Base, h1 % Base>>

HostToNetwork32(host) ==
    LET h1 == host \div Base
        h2 == h1 \div Base
        h3 == h2 \div Base
    IN  <<host % Base, h1 % Base, h2 % Base, h3 % Base>>

HostToNetwork64(host) ==
    LET h1 == host \div Base
        h2 == h1 \div Base
        h3 == h2 \div Base
        h4 == h3 \div Base
        h5 == h4 \div Base
        h6 == h5 \div Base
        h7 == h6 \div Base
    IN  <<host % Base, h1 % Base, h2 % Base, h3 % Base,
          h4 % Base, h5 % Base, h6 % Base, h7 % Base>>

-----------------------------------------------------------------------------
(* From the network. *)

NetworkToHost16(n) == n[1] + Base * n[2]

NetworkToHost32(n) == n[1] + Base * (n[2] + Base * (n[3] + Base * n[4]))

\* network[6] is shifted by 48 and by 56; network[7] is not used.
NetworkToHost64(n) ==
    n[1] + Base * (n[2] + Base * (n[3] + Base * (n[4] +
        Base * (n[5] + Base * (n[6] + Base * (n[7] + Base * n[7]))))))

=============================================================================
