---------------------------- MODULE StreamProofs ----------------------------
(***************************************************************************)
(* The stream of packets between two nodes is a channel of whole messages, *)
(* for bytes of every size, all trees, tables and ids and any number of    *)
(* messages.  First what the conversions of bytes_order.h do to a number,  *)
(* then that TCPManager::read gets back what a message was made from, and  *)
(* then the invariant that keeps reads in step with packets.               *)
(***************************************************************************)
EXTENDS PacketStream, TLAPS

\* Shifting by a byte and masking lose nothing: the number is its lowest byte
\* plus the rest, shifted back.
LEMMA DivMod ==
    ASSUME NEW n \in Nat
    PROVE  /\ n \div Base \in Nat
           /\ n % Base \in Byte
           /\ (n % Base) + Base * (n \div Base) = n
  BY BaseAssumption, SMT DEF Byte

\* A number of k + 1 bytes has k bytes after a shift by one.
LEMMA DivLess ==
    ASSUME NEW n \in Nat, NEW x \in Nat, n < Base * x
    PROVE  n \div Base < x
  <1>1. Base * (n \div Base) <= n
    BY DivMod, BaseAssumption, SMT DEF Byte
  <1>2. n \div Base \in Nat
    BY Zenon, DivMod
  <1>. QED
    BY <1>1, <1>2, BaseAssumption, SMT

\* A number of one byte is that byte.
LEMMA LastByte ==
    ASSUME NEW n \in Nat, n < Base
    PROVE  n % Base = n
  BY BaseAssumption, SMT

\* A 16 bit number survives its conversion to the network and back.
THEOREM Lossless16 ==
    ASSUME NEW n \in Nat, n < Width16
    PROVE  NetworkToHost16(HostToNetwork16(n)) = n
  <1>. DEFINE h1 == n \div Base
  <1>1. h1 \in Nat /\ (n % Base) + Base * h1 = n
    BY Zenon, DivMod
  <1>2. h1 % Base = h1
    BY Zenon, <1>1, DivLess, LastByte, BaseAssumption DEF Width16
  <1>. QED
    BY Zenon, <1>1, <1>2 DEF NetworkToHost16, HostToNetwork16

\* A 32 bit number survives its conversion to the network and back.
THEOREM Lossless32 ==
    ASSUME NEW n \in Nat, n < Width32
    PROVE  NetworkToHost32(HostToNetwork32(n)) = n
  <1>. DEFINE h1 == n \div Base
             h2 == h1 \div Base
             h3 == h2 \div Base
  <1>1. h1 \in Nat /\ (n % Base) + Base * h1 = n
    BY Zenon, DivMod
  <1>2. h2 \in Nat /\ (h1 % Base) + Base * h2 = h1
    BY Zenon, <1>1, DivMod
  <1>3. h3 \in Nat /\ (h2 % Base) + Base * h3 = h2
    BY Zenon, <1>2, DivMod
  <1>4. h3 < Base
    <2>1. n < Base * (Base * (Base * Base))
      BY BaseAssumption, SMT DEF Width32, Width16
    <2>2. h1 < Base * (Base * Base)
      BY <2>1, DivLess, BaseAssumption, SMT
    <2>3. h2 < Base * Base
      BY <1>1, <2>2, DivLess, BaseAssumption, SMT
    <2>. QED
      BY <1>2, <2>3, DivLess, BaseAssumption, SMT
  <1>5. h3 % Base = h3
    BY Zenon, <1>3, <1>4, LastByte
  <1>6. HostToNetwork32(n) = <<n % Base, h1 % Base, h2 % Base, h3 % Base>>
    BY Zenon DEF HostToNetwork32
  <1>7. NetworkToHost32(HostToNetwork32(n))
          = (n % Base) + Base * ((h1 % Base) + Base * ((h2 % Base) + Base * h3))
    BY <1>5, <1>6 DEF NetworkToHost32
  <1>. HIDE DEF h1, h2, h3
  <1>. QED
    BY Zenon, <1>1, <1>2, <1>3, <1>7

\* Equal numbers with the same lowest byte are equal above it.
LEMMA SameAbove ==
    ASSUME NEW d \in Nat, NEW x \in Nat, NEW y \in Nat
    PROVE  d + Base * x = d + Base * y <=> x = y
  <1>1. ASSUME d + Base * x = d + Base * y PROVE x = y
    <2>1. Base * x = Base * y
      BY <1>1, BaseAssumption, SMT
    <2>2. Base * (x - y) = 0
      BY <2>1, BaseAssumption, SMT
    <2>. QED
      BY <2>2, BaseAssumption, SMT
  <1>. QED
    BY Zenon, <1>1

\* Numbers with the same byte put below them stay as equal as they were.
LEMMA ByteBelow ==
    ASSUME NEW d \in Nat, NEW v \in Nat, NEW high \in Nat
    PROVE  d + Base * v \in Nat /\ (d + Base * v = d + Base * high <=> v = high)
  <1>1. d + Base * v \in Nat
    BY BaseAssumption, SMT
  <1>. QED
    BY Zenon, <1>1, SameAbove

\* A 64 bit number survives its conversion to the network and back exactly if
\* its two highest bytes are equal, since network_to_host_64 takes the highest
\* one from the byte below it.
THEOREM Lossless64 ==
    ASSUME NEW n \in Nat, n < Width64
    PROVE  NetworkToHost64(HostToNetwork64(n)) = n
             <=> HostToNetwork64(n)[7] = HostToNetwork64(n)[8]
  <1>. DEFINE h1 == n \div Base
             h2 == h1 \div Base
             h3 == h2 \div Base
             h4 == h3 \div Base
             h5 == h4 \div Base
             h6 == h5 \div Base
             h7 == h6 \div Base
             d6 == h6 % Base
             v6 == d6 + Base * d6
             v5 == (h5 % Base) + Base * v6
             v4 == (h4 % Base) + Base * v5
             v3 == (h3 % Base) + Base * v4
             v2 == (h2 % Base) + Base * v3
             v1 == (h1 % Base) + Base * v2
  <1>0. h1 \in Nat /\ n % Base \in Nat /\ (n % Base) + Base * h1 = n
    BY DivMod DEF Byte
  <1>1. h2 \in Nat /\ h1 % Base \in Nat /\ (h1 % Base) + Base * h2 = h1
    BY <1>0, DivMod DEF Byte
  <1>2. h3 \in Nat /\ h2 % Base \in Nat /\ (h2 % Base) + Base * h3 = h2
    BY <1>1, DivMod DEF Byte
  <1>3. h4 \in Nat /\ h3 % Base \in Nat /\ (h3 % Base) + Base * h4 = h3
    BY <1>2, DivMod DEF Byte
  <1>4. h5 \in Nat /\ h4 % Base \in Nat /\ (h4 % Base) + Base * h5 = h4
    BY <1>3, DivMod DEF Byte
  <1>5. h6 \in Nat /\ h5 % Base \in Nat /\ (h5 % Base) + Base * h6 = h5
    BY <1>4, DivMod DEF Byte
  <1>6. h7 \in Nat /\ d6 \in Nat /\ d6 + Base * h7 = h6
    BY <1>5, DivMod DEF Byte
  <1>7. h7 % Base = h7
    <2>. DEFINE b2 == Base * Base
               b3 == Base * b2
               b4 == Base * b3
               b5 == Base * b4
               b6 == Base * b5
               b7 == Base * b6
    <2>0. b2 \in Nat /\ b3 \in Nat /\ b4 \in Nat /\ b5 \in Nat /\ b6 \in Nat /\ b7 \in Nat
      BY BaseAssumption, SMT
    <2>1. n < Base * b7
      BY BaseAssumption, SMT DEF Width64, Width32, Width16
    <2>. HIDE DEF b7
    <2>2. h1 < b7
      BY Zenon, <2>0, <2>1, DivLess
    <2>. USE DEF b7
    <2>. HIDE DEF b6, h1
    <2>3. h2 < b6
      BY Zenon, <1>0, <2>0, <2>2, DivLess
    <2>. USE DEF b6, h1
    <2>. HIDE DEF b5, h2
    <2>4. h3 < b5
      BY Zenon, <1>1, <2>0, <2>3, DivLess
    <2>. USE DEF b5, h2
    <2>. HIDE DEF b4, h3
    <2>5. h4 < b4
      BY Zenon, <1>2, <2>0, <2>4, DivLess
    <2>. USE DEF b4, h3
    <2>. HIDE DEF b3, h4
    <2>6. h5 < b3
      BY Zenon, <1>3, <2>0, <2>5, DivLess
    <2>. USE DEF b3, h4
    <2>. HIDE DEF b2, h5
    <2>7. h6 < b2
      BY Zenon, <1>4, <2>0, <2>6, DivLess
    <2>. USE DEF b2, h5
    <2>. HIDE DEF h6
    <2>8. h7 < Base
      BY Zenon, <1>5, <2>7, DivLess, BaseAssumption
    <2>. QED
      BY Zenon, <1>6, <2>8, LastByte
  <1>8. HostToNetwork64(n) = <<n % Base, h1 % Base, h2 % Base, h3 % Base,
                               h4 % Base, h5 % Base, d6, h7>>
    BY Zenon, <1>7 DEF HostToNetwork64
  <1>. HIDE DEF h1, h2, h3, h4, h5, h6, h7, d6
  <1>9. NetworkToHost64(HostToNetwork64(n)) = (n % Base) + Base * v1
    BY <1>8 DEF NetworkToHost64
  <1>10. v6 \in Nat /\ (v6 = h6 <=> d6 = h7)
    BY Zenon, <1>6, ByteBelow
  <1>. HIDE DEF v6
  <1>11. v5 \in Nat /\ (v5 = h5 <=> v6 = h6)
    <2>1. v5 \in Nat /\ (v5 = (h5 % Base) + Base * h6 <=> v6 = h6)
      BY Zenon, <1>5, <1>10, ByteBelow
    <2>. QED
      BY Zenon, <1>5, <2>1
  <1>. HIDE DEF v5
  <1>12. v4 \in Nat /\ (v4 = h4 <=> v5 = h5)
    <2>1. v4 \in Nat /\ (v4 = (h4 % Base) + Base * h5 <=> v5 = h5)
      BY Zenon, <1>4, <1>11, ByteBelow
    <2>. QED
      BY Zenon, <1>4, <2>1
  <1>. HIDE DEF v4
  <1>13. v3 \in Nat /\ (v3 = h3 <=> v4 = h4)
    <2>1. v3 \in Nat /\ (v3 = (h3 % Base) + Base * h4 <=> v4 = h4)
      BY Zenon, <1>3, <1>12, ByteBelow
    <2>. QED
      BY Zenon, <1>3, <2>1
  <1>. HIDE DEF v3
  <1>14. v2 \in Nat /\ (v2 = h2 <=> v3 = h3)
    <2>1. v2 \in Nat /\ (v2 = (h2 % Base) + Base * h3 <=> v3 = h3)
      BY Zenon, <1>2, <1>13, ByteBelow
    <2>. QED
      BY Zenon, <1>2, <2>1
  <1>. HIDE DEF v2
  <1>15. v1 \in Nat /\ (v1 = h1 <=> v2 = h2)
    <2>1. v1 \in Nat /\ (v1 = (h1 % Base) + Base * h2 <=> v2 = h2)
      BY Zenon, <1>1, <1>14, ByteBelow
    <2>. QED
      BY Zenon, <1>1, <2>1
  <1>. HIDE DEF v1
  <1>16. (n % Base) + Base * v1 = n <=> v1 = h1
    <2>1. (n % Base) + Base * v1 = (n % Base) + Base * h1 <=> v1 = h1
      BY Zenon, <1>0, <1>15, ByteBelow
    <2>. QED
      BY Zenon, <1>0, <2>1
  <1>. QED
    BY <1>8, <1>9, <1>10, <1>11, <1>12, <1>13, <1>14, <1>15, <1>16

\* A number below 2^48, as every length is, survives: both highest bytes are 0.
LEMMA SmallSurvives ==
    ASSUME NEW n \in 0..(Width48 - 1)
    PROVE  NetworkToHost64(HostToNetwork64(n)) = n
  <1>. DEFINE h1 == n \div Base
             h2 == h1 \div Base
             h3 == h2 \div Base
             h4 == h3 \div Base
             h5 == h4 \div Base
             h6 == h5 \div Base
             h7 == h6 \div Base
             b2 == Base * Base
             b3 == Base * b2
             b4 == Base * b3
             b5 == Base * b4
             b6 == Base * b5
  <1>0. b2 \in Nat /\ b3 \in Nat /\ b4 \in Nat /\ b5 \in Nat /\ b6 \in Nat
    BY BaseAssumption, SMT
  <1>1. n \in Nat /\ n < b6
    <2>1. Width48 = b6
      BY BaseAssumption, SMT DEF Width48, Width32, Width16
    <2>. QED
      BY <1>0, <2>1
  <1>2. n < Width64
    <2>1. Width64 = b6 * b2 /\ b2 >= 1
      BY BaseAssumption, SMT DEF Width64, Width32, Width16
    <2>. HIDE DEF b2, b6
    <2>2. b6 <= b6 * b2
      BY <1>0, <2>1, SMT
    <2>3. b6 * b2 \in Nat
      BY <1>0, SMT
    <2>. QED
      BY <1>0, <1>1, <2>1, <2>2, <2>3, SMT
  <1>. HIDE DEF b6
  <1>3. h1 \in Nat /\ h1 < b5
    BY Zenon, <1>0, <1>1, DivMod, DivLess DEF b6
  <1>. HIDE DEF b5, h1
  <1>4. h2 \in Nat /\ h2 < b4
    BY Zenon, <1>0, <1>3, DivMod, DivLess DEF b5
  <1>. HIDE DEF b4, h2
  <1>5. h3 \in Nat /\ h3 < b3
    BY Zenon, <1>0, <1>4, DivMod, DivLess DEF b4
  <1>. HIDE DEF b3, h3
  <1>6. h4 \in Nat /\ h4 < b2
    BY Zenon, <1>0, <1>5, DivMod, DivLess DEF b3
  <1>. HIDE DEF b2, h4
  <1>7. h5 \in Nat /\ h5 < Base
    BY Zenon, <1>0, <1>6, DivMod, DivLess, BaseAssumption DEF b2
  <1>. HIDE DEF h5
  <1>8. h6 = 0
    BY <1>7, BaseAssumption, SMT
  <1>. HIDE DEF h6
  <1>9. h6 % Base = 0 /\ h7 % Base = 0
    BY <1>8, BaseAssumption, SMT
  <1>10. HostToNetwork64(n)[7] = h6 % Base /\ HostToNetwork64(n)[8] = h7 % Base
    BY Zenon DEF HostToNetwork64, h1, h2, h3, h4, h5, h6, h7
  <1>. HIDE DEF h7
  <1>. QED
    BY Zenon, <1>1, <1>2, <1>9, <1>10, Lossless64

-----------------------------------------------------------------------------
(* Sequences by their elements. *)

\* What a concatenation holds at each place.
LEMMA Joined ==
    ASSUME NEW S, NEW a \in Seq(S), NEW b \in Seq(S)
    PROVE  /\ a \o b \in Seq(S)
           /\ Len(a \o b) = Len(a) + Len(b)
           /\ \A i \in 1..Len(a) : (a \o b)[i] = a[i]
           /\ \A i \in 1..Len(b) : (a \o b)[Len(a) + i] = b[i]
  OBVIOUS

\* What a part of a sequence holds at each place.
LEMMA Part ==
    ASSUME NEW S, NEW q \in Seq(S), NEW m \in Nat \ {0}, NEW n \in Nat,
           m <= n + 1, n <= Len(q)
    PROVE  /\ SubSeq(q, m, n) \in Seq(S)
           /\ Len(SubSeq(q, m, n)) = n + 1 - m
           /\ \A i \in 1..(n + 1 - m) : SubSeq(q, m, n)[i] = q[m + i - 1]
  OBVIOUS

\* Sequences of the same length with the same elements are the same.
LEMMA SameElements ==
    ASSUME NEW S, NEW a \in Seq(S), NEW b \in Seq(S), Len(a) = Len(b),
           \A i \in 1..Len(a) : a[i] = b[i]
    PROVE  a = b
  OBVIOUS

\* A part of some bytes that has the elements of others is those.
LEMMA PartIs ==
    ASSUME NEW q \in Seq(Byte), NEW x \in Seq(Byte), NEW at \in Nat \ {0},
           at + Len(x) - 1 <= Len(q),
           \A i \in 1..Len(x) : q[at + i - 1] = x[i]
    PROVE  SubSeq(q, at, at + Len(x) - 1) = x
  <1>. DEFINE last == at + Len(x) - 1
             part == SubSeq(q, at, last)
  <1>1. last \in Nat /\ at <= last + 1 /\ last <= Len(q)
    OBVIOUS
  <1>2. last + 1 - at = Len(x)
    OBVIOUS
  <1>. HIDE DEF last
  <1>3. /\ part \in Seq(Byte) /\ Len(part) = last + 1 - at
        /\ \A i \in 1..(last + 1 - at) : part[i] = q[at + i - 1]
    BY <1>1, Part
  <1>. HIDE DEF part
  <1>4. part = x
    BY Zenon, <1>2, <1>3, SameElements
  <1>. QED
    BY Zenon, <1>4 DEF part, last

-----------------------------------------------------------------------------
(* A message and what is read from it. *)

\* A number is sent as eight bytes.
LEMMA EightBytes ==
    ASSUME NEW n \in Nat
    PROVE  HostToNetwork64(n) \in Seq(Byte) /\ Len(HostToNetwork64(n)) = SizeLength
  <1>. DEFINE h1 == n \div Base
             h2 == h1 \div Base
             h3 == h2 \div Base
             h4 == h3 \div Base
             h5 == h4 \div Base
             h6 == h5 \div Base
             h7 == h6 \div Base
  <1>1. n % Base \in Byte /\ h1 \in Nat
    BY Zenon, DivMod
  <1>2. h1 % Base \in Byte /\ h2 \in Nat
    BY Zenon, <1>1, DivMod
  <1>3. h2 % Base \in Byte /\ h3 \in Nat
    BY Zenon, <1>2, DivMod
  <1>4. h3 % Base \in Byte /\ h4 \in Nat
    BY Zenon, <1>3, DivMod
  <1>5. h4 % Base \in Byte /\ h5 \in Nat
    BY Zenon, <1>4, DivMod
  <1>6. h5 % Base \in Byte /\ h6 \in Nat
    BY Zenon, <1>5, DivMod
  <1>7. h6 % Base \in Byte /\ h7 \in Nat
    BY Zenon, <1>6, DivMod
  <1>8. h7 % Base \in Byte
    BY Zenon, <1>7, DivMod
  <1>9. HostToNetwork64(n) = <<n % Base, h1 % Base, h2 % Base, h3 % Base,
                               h4 % Base, h5 % Base, h6 % Base, h7 % Base>>
    BY Zenon DEF HostToNetwork64
  <1>. HIDE DEF h1, h2, h3, h4, h5, h6, h7
  <1>. QED
    BY <1>1, <1>2, <1>3, <1>4, <1>5, <1>6, <1>7, <1>8, <1>9 DEF SizeLength

\* The length of the part of a sequence that holds a number.
LEMMA NumberLength ==
    ASSUME NEW at \in Nat \ {0}
    PROVE  /\ at + SizeLength - 1 \in Nat /\ at <= at + SizeLength - 1 + 1
           /\ at + SizeLength - 1 + 1 - at = SizeLength
BY DEF SizeLength

\* Eight bytes that are those of a number are read as that number.
LEMMA NumberRead ==
    ASSUME NEW n \in 0..(Width48 - 1), NEW data \in Seq(Byte), NEW at \in Nat \ {0},
           at + SizeLength - 1 <= Len(data),
           \A i \in 1..SizeLength : data[at + i - 1] = HostToNetwork64(n)[i]
    PROVE  Number(data, at) = n
  <1>. DEFINE part == SubSeq(data, at, at + SizeLength - 1)
  <1>1. \A i \in 1..SizeLength : part[i] = HostToNetwork64(n)[i]
    <2>1. /\ at + SizeLength - 1 \in Nat /\ at <= at + SizeLength - 1 + 1
          /\ at + SizeLength - 1 + 1 - at = SizeLength
      BY Zenon, NumberLength
    <2>3. \A i \in 1..SizeLength : part[i] = data[at + i - 1]
      BY <2>1, Part
    <2>. QED
      BY Zenon, <2>3
  <1>2. Number(data, at) = NetworkToHost64(part)
    BY Zenon DEF Number
  <1>. HIDE DEF part
  <1>3. /\ part[1] = HostToNetwork64(n)[1] /\ part[2] = HostToNetwork64(n)[2]
        /\ part[3] = HostToNetwork64(n)[3] /\ part[4] = HostToNetwork64(n)[4]
        /\ part[5] = HostToNetwork64(n)[5] /\ part[6] = HostToNetwork64(n)[6]
        /\ part[7] = HostToNetwork64(n)[7]
    BY <1>1 DEF SizeLength
  <1>4. NetworkToHost64(part) = NetworkToHost64(HostToNetwork64(n))
    BY <1>3, Zenon DEF NetworkToHost64
  <1>. QED
    BY Zenon, <1>2, <1>4, SmallSurvives


\* A field is its length and then its bytes.
LEMMA FieldBytes ==
    ASSUME NEW bytes \in Seq(Byte)
    PROVE  /\ Field(bytes) \in Seq(Byte)
           /\ Len(Field(bytes)) = SizeLength + Len(bytes)
           /\ \A i \in 1..SizeLength : Field(bytes)[i] = HostToNetwork64(Len(bytes))[i]
           /\ \A i \in 1..Len(bytes) : Field(bytes)[SizeLength + i] = bytes[i]
  <1>. DEFINE number == HostToNetwork64(Len(bytes))
  <1>1. number \in Seq(Byte) /\ Len(number) = SizeLength
    BY EightBytes
  <1>2. Field(bytes) = number \o bytes
    BY Zenon DEF Field
  <1>. HIDE DEF number
  <1>3. /\ number \o bytes \in Seq(Byte)
        /\ Len(number \o bytes) = Len(number) + Len(bytes)
        /\ \A i \in 1..Len(number) : (number \o bytes)[i] = number[i]
        /\ \A i \in 1..Len(bytes) : (number \o bytes)[Len(number) + i] = bytes[i]
    <2>1. number \in Seq(Byte)
      BY Zenon, <1>1
    <2>. QED
      BY <2>1, Joined
  <1>. QED
    BY <1>1, <1>2, <1>3, Zenon DEF number

\* These bytes begin with head, and after it both fields are found and nothing more.
ReadBack(data, head, tree, hosts) ==
    /\ data \in Seq(Byte)
    /\ Len(data) = Len(head) + 2 * SizeLength + Len(tree) + Len(hosts)
    /\ \A i \in 1..Len(head) : data[i] = head[i]
    /\ Fields(data, Len(head) + 1)
         = [tree |-> tree, hosts |-> hosts, end |-> Len(data) + 1]

\* TCPManager::read finds both fields of a message, whatever stands before them,
\* and nothing is left after them.
LEMMA FieldsRead ==
    ASSUME NEW head \in Seq(Byte), NEW tree \in Seq(Byte), NEW hosts \in Seq(Byte),
           Len(tree) < Width48, Len(hosts) < Width48
    PROVE  ReadBack((head \o Field(tree)) \o Field(hosts), head, tree, hosts)
  <1>. DEFINE data == (head \o Field(tree)) \o Field(hosts)
  <1>0. data = (head \o Field(tree)) \o Field(hosts)
    BY Zenon
  <1>. HIDE DEF data
  <1>. DEFINE ft == Field(tree)
             fh == Field(hosts)
             front == head \o ft
  <1>1. /\ ft \in Seq(Byte) /\ Len(ft) = SizeLength + Len(tree)
        /\ fh \in Seq(Byte) /\ Len(fh) = SizeLength + Len(hosts)
    BY Zenon, FieldBytes
  <1>2. /\ \A i \in 1..SizeLength : ft[i] = HostToNetwork64(Len(tree))[i]
        /\ \A i \in 1..Len(tree) : ft[SizeLength + i] = tree[i]
        /\ \A i \in 1..SizeLength : fh[i] = HostToNetwork64(Len(hosts))[i]
        /\ \A i \in 1..Len(hosts) : fh[SizeLength + i] = hosts[i]
    BY Zenon, FieldBytes
  <1>. HIDE DEF ft, fh
  <1>3. /\ front \in Seq(Byte) /\ Len(front) = Len(head) + Len(ft)
        /\ \A i \in 1..Len(head) : front[i] = head[i]
        /\ \A i \in 1..Len(ft) : front[Len(head) + i] = ft[i]
    <2>1. ft \in Seq(Byte)
      BY Zenon, <1>1
    <2>. QED
      BY <2>1
  <1>. HIDE DEF front
  <1>4. data = front \o fh
    BY Zenon, <1>0 DEF front, ft, fh
  <1>5. /\ data \in Seq(Byte) /\ Len(data) = Len(front) + Len(fh)
        /\ \A i \in 1..Len(front) : data[i] = front[i]
        /\ \A i \in 1..Len(fh) : data[Len(front) + i] = fh[i]
    <2>1. fh \in Seq(Byte) /\ front \in Seq(Byte)
      BY Zenon, <1>1, <1>3
    <2>. QED
      BY <1>4, <2>1
  <1>6. Len(head) \in Nat /\ Len(tree) \in Nat /\ Len(hosts) \in Nat
    OBVIOUS
  <1>7. Len(data) = Len(head) + 2 * SizeLength + Len(tree) + Len(hosts)
    BY <1>1, <1>3, <1>5, <1>6 DEF SizeLength
  <1>8. \A i \in 1..Len(head) : data[i] = head[i]
    BY <1>1, <1>3, <1>5, <1>6 DEF SizeLength
  <1>9. \A i \in 1..Len(ft) : data[Len(head) + i] = ft[i]
    <2>. TAKE i \in 1..Len(ft)
    <2>1. Len(head) + i \in 1..Len(front)
      BY <1>1, <1>3, <1>6
    <2>. QED
      BY Zenon, <1>3, <1>5, <2>1
  <1>. DEFINE at == Len(head) + 1
             treeAt == at + SizeLength
             hostsLengthAt == treeAt + Len(tree)
             hostsAt == treeAt + Len(tree) + SizeLength
             end == hostsAt + Len(hosts)
  <1>10. Number(data, at) = Len(tree)
    <2>1. \A i \in 1..SizeLength : data[at + i - 1] = HostToNetwork64(Len(tree))[i]
      <3>. TAKE i \in 1..SizeLength
      <3>1. i \in 1..Len(ft) /\ at + i - 1 = Len(head) + i
        BY <1>1, <1>6 DEF SizeLength
      <3>. QED
        BY Zenon, <1>2, <1>9, <3>1
    <2>2. at \in Nat \ {0} /\ at + SizeLength - 1 <= Len(data)
      BY <1>6, <1>7 DEF SizeLength
    <2>3. Len(tree) \in 0..(Width48 - 1)
      BY <1>6, BaseAssumption, SMT DEF Width48, Width32, Width16
    <2>. HIDE DEF at
    <2>. QED
      BY Zenon, <1>5, <2>1, <2>2, <2>3, NumberRead
  <1>11. Number(data, hostsLengthAt) = Len(hosts)
    <2>1. \A i \in 1..SizeLength :
              data[hostsLengthAt + i - 1] = HostToNetwork64(Len(hosts))[i]
      <3>. TAKE i \in 1..SizeLength
      <3>1. i \in 1..Len(fh) /\ hostsLengthAt + i - 1 = Len(front) + i
        BY <1>1, <1>3, <1>6 DEF SizeLength
      <3>. QED
        BY Zenon, <1>2, <1>5, <3>1
    <2>2. /\ hostsLengthAt \in Nat \ {0}
          /\ hostsLengthAt + SizeLength - 1 <= Len(data)
      BY <1>6, <1>7 DEF SizeLength
    <2>3. Len(hosts) \in 0..(Width48 - 1)
      BY <1>6, BaseAssumption, SMT DEF Width48, Width32, Width16
    <2>. HIDE DEF hostsLengthAt
    <2>. QED
      BY Zenon, <1>5, <2>1, <2>2, <2>3, NumberRead
  <1>12. SubSeq(data, treeAt, treeAt + Len(tree) - 1) = tree
    <2>1. treeAt \in Nat \ {0} /\ treeAt + Len(tree) - 1 <= Len(data)
      BY <1>6, <1>7 DEF SizeLength
    <2>2. \A i \in 1..Len(tree) : data[treeAt + i - 1] = tree[i]
      <3>. TAKE i \in 1..Len(tree)
      <3>1. /\ SizeLength + i \in 1..Len(ft)
            /\ treeAt + i - 1 = Len(head) + (SizeLength + i)
        BY <1>1, <1>6 DEF SizeLength
      <3>. QED
        BY Zenon, <1>2, <1>9, <3>1
    <2>. HIDE DEF treeAt
    <2>. QED
      BY <1>5, <2>1, <2>2, PartIs, Zenon
  <1>13. SubSeq(data, hostsAt, end - 1) = hosts
    <2>1. hostsAt \in Nat \ {0} /\ hostsAt + Len(hosts) - 1 <= Len(data)
      BY <1>6, <1>7 DEF SizeLength
    <2>2. \A i \in 1..Len(hosts) : data[hostsAt + i - 1] = hosts[i]
      <3>. TAKE i \in 1..Len(hosts)
      <3>1. /\ SizeLength + i \in 1..Len(fh)
            /\ hostsAt + i - 1 = Len(front) + (SizeLength + i)
        BY <1>1, <1>3, <1>6 DEF SizeLength
      <3>. QED
        BY Zenon, <1>2, <1>5, <3>1
    <2>3. end - 1 = hostsAt + Len(hosts) - 1
      BY <1>6 DEF SizeLength
    <2>. HIDE DEF hostsAt, end
    <2>4. SubSeq(data, hostsAt, hostsAt + Len(hosts) - 1) = hosts
      BY <1>5, <2>1, <2>2, PartIs, Zenon
    <2>. QED
      BY Zenon, <2>3, <2>4
  <1>14. end = Len(data) + 1
    BY <1>6, <1>7 DEF SizeLength
  <1>15. Fields(data, at) = [tree |-> SubSeq(data, treeAt, treeAt + Len(tree) - 1),
                             hosts |-> SubSeq(data, hostsAt, end - 1), end |-> end]
    BY Zenon, <1>10, <1>11 DEF Fields
  <1>. QED
    BY Zenon, <1>0, <1>5, <1>7, <1>8, <1>12, <1>13, <1>14, <1>15 DEF ReadBack


\* What is known of a message that may be sent.
LEMMA CallShape ==
    ASSUME NEW call \in ToMaster \cup ToStandby
    PROVE  /\ call.type \in 0..2
           /\ call.tree \in Seq(Byte) /\ call.hosts \in Seq(Byte)
           /\ 4 * SizeLength + Len(call.tree) + Len(call.hosts) < Width48
           /\ call.type = 0 => call = NewConnectionCall(call.tree, call.hosts)
           /\ call.type = 1 => /\ call.id \in 0..(Width48 - 1)
                               /\ call = SlaveRecognizedCall(call.id, call.tree, call.hosts)
           /\ call.type = 2 => call = UpdateInfoCall(call.tree, call.hosts)
  <1>1. ASSUME NEW t \in Trees, NEW h \in Tables
        PROVE  /\ t \in Seq(Byte) /\ h \in Seq(Byte)
               /\ 4 * SizeLength + Len(t) + Len(h) < Width48
    BY Zenon, <1>1, MessagesAssumption
  <1>2. CASE call \in ToMaster
    <2>1. PICK t \in Trees, h \in Tables : call = NewConnectionCall(t, h)
      BY <1>2 DEF ToMaster
    <2>2. call.type = 0 /\ call.tree = t /\ call.hosts = h
      BY Zenon, <2>1 DEF NewConnectionCall
    <2>. QED
      BY <1>1, <2>1, <2>2
  <1>3. CASE \E i \in Ids, t \in Trees, h \in Tables : call = SlaveRecognizedCall(i, t, h)
    <2>1. PICK i \in Ids, t \in Trees, h \in Tables : call = SlaveRecognizedCall(i, t, h)
      BY Zenon, <1>3
    <2>2. call.type = 1 /\ call.id = i /\ call.tree = t /\ call.hosts = h
      BY Zenon, <2>1 DEF SlaveRecognizedCall
    <2>3. i \in 0..(Width48 - 1)
      BY Zenon, MessagesAssumption
    <2>. QED
      BY <1>1, <2>1, <2>2, <2>3
  <1>4. CASE \E t \in Trees, h \in Tables : call = UpdateInfoCall(t, h)
    <2>1. PICK t \in Trees, h \in Tables : call = UpdateInfoCall(t, h)
      BY Zenon, <1>4
    <2>2. call.type = 2 /\ call.tree = t /\ call.hosts = h
      BY Zenon, <2>1 DEF UpdateInfoCall
    <2>. QED
      BY <1>1, <2>1, <2>2
  <1>. QED
    BY <1>2, <1>3, <1>4 DEF ToStandby

\* TCPManager::read of a whole message finds its type, and both fields, which end
\* where the message does, and so makes the call that the message stands for.
LEMMA MessageRead ==
    ASSUME NEW call \in ToMaster \cup ToStandby,
           NEW types, call.type \in types
    PROVE  /\ Message(call) \in Seq(Byte)
           /\ Len(Message(call)) \in 0..(Width48 - 1) /\ Len(Message(call)) > 0
           /\ Number(Message(call), 1) = call.type
           /\ Fields(Message(call), FieldsAt(call.type)).end = Len(Message(call)) + 1
           /\ Calls(Message(call), types) = <<call>>
  <1>. DEFINE type == call.type
             tree == call.tree
             hosts == call.hosts
             number == HostToNetwork64(type)
             id == IF type = 1 THEN HostToNetwork64(call.id) ELSE << >>
             head == number \o id
             data == Message(call)
  <1>1. /\ type \in 0..2 /\ tree \in Seq(Byte) /\ hosts \in Seq(Byte)
        /\ 4 * SizeLength + Len(tree) + Len(hosts) < Width48
        /\ type = 1 => call.id \in 0..(Width48 - 1)
    BY Zenon, CallShape
  <1>2. Len(tree) \in Nat /\ Len(hosts) \in Nat /\ Width48 \in Nat /\ Width48 >= 64
    <2>1. Len(tree) \in Nat /\ Len(hosts) \in Nat
      BY <1>1
    <2>2. Width16 \in Nat /\ Width16 >= 4
      BY BaseAssumption, SMT DEF Width16
    <2>3. Width32 \in Nat /\ Width32 >= 16
      <3>. HIDE DEF Width16
      <3>. QED
        BY <2>2, SMT DEF Width32
    <2>4. Width48 \in Nat /\ Width48 >= 64
      BY <2>2, <2>3, SMT DEF Width48
    <2>. QED
      BY Zenon, <2>1, <2>4
  <1>3. data = (head \o Field(tree)) \o Field(hosts)
    BY Zenon DEF Message
  <1>4. number \in Seq(Byte) /\ Len(number) = SizeLength
    BY <1>1, EightBytes
  <1>5. id \in Seq(Byte) /\ Len(id) = IF type = 1 THEN SizeLength ELSE 0
    <2>1. CASE type = 1
      BY <1>1, <2>1, EightBytes
    <2>2. CASE type # 1
      BY <2>2
    <2>. QED
      BY Zenon, <2>1, <2>2
  <1>. HIDE DEF number, id, data, type, tree, hosts
  <1>6. /\ head \in Seq(Byte) /\ Len(head) = Len(number) + Len(id)
        /\ \A i \in 1..Len(number) : head[i] = number[i]
        /\ \A i \in 1..Len(id) : head[Len(number) + i] = id[i]
    <2>1. number \in Seq(Byte) /\ id \in Seq(Byte)
      BY Zenon, <1>4, <1>5
    <2>. QED
      BY <2>1, Joined
  <1>. HIDE DEF head
  <1>7. Len(head) + 1 = FieldsAt(type)
    BY <1>4, <1>5, <1>6 DEF FieldsAt, SizeLength
  <1>8. Len(tree) < Width48 /\ Len(hosts) < Width48
    BY <1>1, <1>2 DEF SizeLength
  <1>9. /\ data \in Seq(Byte)
        /\ Len(data) = Len(head) + 2 * SizeLength + Len(tree) + Len(hosts)
        /\ \A i \in 1..Len(head) : data[i] = head[i]
        /\ Fields(data, FieldsAt(type))
             = [tree |-> tree, hosts |-> hosts, end |-> Len(data) + 1]
    <2>1. head \in Seq(Byte) /\ tree \in Seq(Byte) /\ hosts \in Seq(Byte)
      BY Zenon, <1>1, <1>6
    <2>2. ReadBack((head \o Field(tree)) \o Field(hosts), head, tree, hosts)
      BY Zenon, <1>8, <2>1, FieldsRead
    <2>3. ReadBack(data, head, tree, hosts)
      BY Zenon, <1>3, <2>2
    <2>. QED
      BY Zenon, <1>7, <2>3 DEF ReadBack
  <1>10. Len(data) \in 0..(Width48 - 1) /\ Len(data) > 0
    <2>1. Len(data) \in 0..(Width48 - 1)
      BY <1>1, <1>2, <1>4, <1>5, <1>6, <1>9 DEF SizeLength
    <2>2. Len(head) >= SizeLength /\ Len(head) \in Nat
      BY <1>4, <1>5, <1>6 DEF SizeLength
    <2>3. Len(tree) \in Nat /\ Len(hosts) \in Nat
      BY <1>1
    <2>. QED
      BY <1>9, <2>1, <2>2, <2>3 DEF SizeLength
  <1>11. Number(data, 1) = type
    <2>1. type \in 0..(Width48 - 1)
      BY <1>1, <1>2
    <2>2. \A i \in 1..SizeLength : data[1 + i - 1] = HostToNetwork64(type)[i]
      <3>. TAKE i \in 1..SizeLength
      <3>1. 1 + i - 1 = i
        OBVIOUS
      <3>2. i \in 1..Len(number) /\ i \in 1..Len(head)
        <4>1. Len(number) = SizeLength /\ Len(head) = SizeLength + Len(id)
          BY Zenon, <1>4, <1>6
        <4>2. Len(id) \in Nat
          BY <1>5
        <4>. QED
          BY <4>1, <4>2 DEF SizeLength
      <3>. QED
        BY Zenon, <1>6, <1>9, <3>1, <3>2 DEF number
    <2>3. 1 \in Nat \ {0} /\ 1 + SizeLength - 1 <= Len(data)
      BY <1>2, <1>4, <1>5, <1>6, <1>9 DEF SizeLength
    <2>. QED
      BY Zenon, <1>9, <2>1, <2>2, <2>3, NumberRead
  <1>12. type = 1 => Number(data, 1 + SizeLength) = call.id
    <2>. SUFFICES ASSUME type = 1 PROVE Number(data, 1 + SizeLength) = call.id
      BY Zenon
    <2>1. id = HostToNetwork64(call.id)
      BY Zenon DEF id
    <2>2. \A i \in 1..SizeLength :
              data[(1 + SizeLength) + i - 1] = HostToNetwork64(call.id)[i]
      <3>. TAKE i \in 1..SizeLength
      <3>1. /\ (1 + SizeLength) + i - 1 = Len(number) + i
            /\ i \in 1..Len(id) /\ Len(number) + i \in 1..Len(head)
        BY <1>4, <1>5, <1>6 DEF SizeLength
      <3>. QED
        BY Zenon, <1>6, <1>9, <2>1, <3>1
    <2>3. 1 + SizeLength \in Nat \ {0} /\ (1 + SizeLength) + SizeLength - 1 <= Len(data)
      BY <1>2, <1>4, <1>5, <1>6, <1>9 DEF SizeLength
    <2>4. call.id \in 0..(Width48 - 1)
      BY Zenon, <1>1
    <2>. QED
      BY <1>9, <2>2, <2>3, <2>4, NumberRead, Zenon
  <1>13. Fields(data, FieldsAt(type)).end = Len(data) + 1
    BY <1>9
  <1>14. Calls(data, types) = <<call>>
    <2>1. /\ Fields(data, FieldsAt(type)).tree = tree
          /\ Fields(data, FieldsAt(type)).hosts = hosts
      BY <1>9
    <2>2. type \in types
      BY Zenon DEF type
    <2>3. CASE type = 0
      <3>1. Calls(data, types) = <<NewConnectionCall(tree, hosts)>>
        BY <1>11, <2>1, <2>2, <2>3 DEF Calls
      <3>2. call = NewConnectionCall(tree, hosts)
        BY Zenon, <2>3, CallShape DEF type, tree, hosts
      <3>. QED
        BY Zenon, <3>1, <3>2
    <2>4. CASE type = 1
      <3>1. Calls(data, types) = <<SlaveRecognizedCall(call.id, tree, hosts)>>
        BY <1>11, <1>12, <2>1, <2>2, <2>4 DEF Calls
      <3>2. call = SlaveRecognizedCall(call.id, tree, hosts)
        BY Zenon, <2>4, CallShape DEF type, tree, hosts
      <3>. QED
        BY Zenon, <3>1, <3>2
    <2>5. CASE type = 2
      <3>1. Calls(data, types) = <<UpdateInfoCall(tree, hosts)>>
        BY <1>11, <2>1, <2>2, <2>5 DEF Calls
      <3>2. call = UpdateInfoCall(tree, hosts)
        BY Zenon, <2>5, CallShape DEF type, tree, hosts
      <3>. QED
        BY Zenon, <3>1, <3>2
    <2>6. type = 0 \/ type = 1 \/ type = 2
      BY <1>1
    <2>. QED
      BY Zenon, <2>3, <2>4, <2>5, <2>6
  <1>. QED
    BY Zenon, <1>9, <1>10, <1>11, <1>13, <1>14 DEF data, type


-----------------------------------------------------------------------------
(* The invariant. *)

AnyCall == ToMaster \cup ToStandby

\* The packet in which a message is sent.
Packet(call) == EncodeData(Message(call))

\* Bytes of the packet being read that were read before the read under way.
Before == IF phase = "body" THEN SizeLength ELSE 0

\* start[m] bytes were sent before packet m.
StartsOK(start) ==
    /\ start \in [1..(Len(sent) + 1) -> Nat]
    /\ \A m \in 1..Len(sent) : start[m + 1] = start[m] + Len(Packet(sent[m]))
    /\ \A m \in 1..Len(sent) : \A n \in (m + 1)..(Len(sent) + 1) :
           start[m] + Len(Packet(sent[m])) <= start[n]

\* The number of bytes that have left the kernel.
ReadTo(start) == start[Len(made) + 1] + Before + Len(buffer)

\* The first packet that is not written to the end.
First == Len(sent) - Len(queue) + 1

\* The queue holds the rest of packet First and all later ones, and the kernel has
\* taken what comes before.
QueueOK(start) ==
    /\ Len(made) + Len(queue) <= Len(sent)
    /\ queue = << >> => ReadTo(start) + Len(wire) = start[Len(sent) + 1]
    /\ queue # << >> =>
        \E done \in Nat :
            /\ Len(queue[1]) > 0 /\ done + Len(queue[1]) = Len(Packet(sent[First]))
            /\ \A i \in 1..Len(queue[1]) : queue[1][i] = Packet(sent[First])[done + i]
            /\ ReadTo(start) + Len(wire) = start[First] + done
    /\ \A i \in 2..Len(queue) : queue[i] = Packet(sent[First + i - 1])

\* A byte in the kernel is the byte of the packet that its place in the stream is in.
WireOK(start) ==
    \A m \in 1..Len(sent) : \A p \in 1..Len(Packet(sent[m])) : \A i \in 1..Len(wire) :
        ReadTo(start) + i = start[m] + p => wire[i] = Packet(sent[m])[p]

\* The read under way is for the header or the data of the first packet whose call
\* has not been made, and has got the bytes of it.
ReadOK ==
    /\ phase = "body" => /\ Len(made) < Len(sent)
                         /\ size = Len(Message(sent[Len(made) + 1]))
    /\ Len(made) < Len(sent) =>
        \A i \in 1..Len(buffer) : buffer[i] = Packet(sent[Len(made) + 1])[Before + i]

InStep(start) == StartsOK(start) /\ QueueOK(start) /\ WireOK(start) /\ ReadOK

\* The calls made are those of the first messages.
MadeOK ==
    /\ reader \in {"master", "standby"}
    /\ sent \in Seq(Sendable) /\ made \in Seq(Sendable)
    /\ \A i \in 1..Len(made) : made[i] = sent[i]

StreamInv ==
    /\ StreamTypeOK /\ MadeOK
    /\ phase # "closed" => \E start : InStep(start)

-----------------------------------------------------------------------------

\* A packet is the length of the data and the data.
LEMMA PacketBytes ==
    ASSUME NEW call \in AnyCall
    PROVE  /\ Message(call) \in Seq(Byte)
           /\ Len(Message(call)) \in 0..(Width48 - 1) /\ Len(Message(call)) > 0
           /\ Packet(call) \in Seq(Byte)
           /\ Len(Packet(call)) = SizeLength + Len(Message(call))
           /\ \A i \in 1..SizeLength :
                  Packet(call)[i] = HostToNetwork64(Len(Message(call)))[i]
           /\ \A i \in 1..Len(Message(call)) :
                  Packet(call)[SizeLength + i] = Message(call)[i]
  <1>. DEFINE data == Message(call)
  <1>1. data \in Seq(Byte) /\ Len(data) \in 0..(Width48 - 1) /\ Len(data) > 0
    BY Zenon, MessageRead DEF AnyCall
  <1>2. Packet(call) = Field(data)
    BY Zenon DEF Packet, EncodeData, Field
  <1>. HIDE DEF data
  <1>. QED
    BY <1>1, <1>2, FieldBytes DEF data

\* What is sent is one of the messages that this reader knows.
LEMMA SentKnown ==
    ASSUME NEW call \in Sendable, MadeOK
    PROVE  call \in AnyCall /\ call.type \in Types
  <1>1. CASE reader = "master"
    <2>1. PICK t \in Trees, h \in Tables : call = NewConnectionCall(t, h)
      BY <1>1 DEF Sendable, ToMaster
    <2>2. call \in ToMaster
      BY Zenon, <1>1 DEF Sendable
    <2>3. call.type = 0
      BY Zenon, <2>1 DEF NewConnectionCall
    <2>. QED
      BY Zenon, <1>1, <2>2, <2>3 DEF AnyCall, Types
  <1>2. CASE reader # "master"
    <2>1. call \in ToStandby
      BY Zenon, <1>2 DEF Sendable
    <2>2. call.type = 1 \/ call.type = 2
      BY <2>1 DEF ToStandby, SlaveRecognizedCall, UpdateInfoCall
    <2>. QED
      BY Zenon, <1>2, <2>1, <2>2 DEF AnyCall, Types
  <1>. QED
    BY Zenon, <1>1, <1>2

\* The same of a message by its number.
LEMMA SentPacket ==
    ASSUME MadeOK, NEW m \in 1..Len(sent)
    PROVE  /\ sent[m] \in Sendable /\ sent[m] \in AnyCall /\ sent[m].type \in Types
           /\ Packet(sent[m]) \in Seq(Byte)
           /\ Len(Message(sent[m])) \in Nat /\ Len(Message(sent[m])) > 0
           /\ Len(Packet(sent[m])) = SizeLength + Len(Message(sent[m]))
  <1>1. sent[m] \in Sendable
    BY DEF MadeOK
  <1>2. sent[m] \in AnyCall /\ sent[m].type \in Types
    BY Zenon, <1>1, SentKnown
  <1>. QED
    BY <1>1, <1>2, PacketBytes

\* The kernel has not taken more bytes than all packets have, and the calls made
\* are those of packets before the read under way.
LEMMA WrittenTo ==
    ASSUME StreamTypeOK, MadeOK, NEW start, InStep(start)
    PROVE  /\ Len(made) \in Nat /\ Len(sent) \in Nat /\ Len(queue) \in Nat
           /\ Len(buffer) \in Nat /\ Len(wire) \in Nat
           /\ Len(made) <= Len(sent)
           /\ start[Len(made) + 1] \in Nat /\ Before \in Nat /\ ReadTo(start) \in Nat
           /\ start[Len(sent) + 1] \in Nat
           /\ ReadTo(start) + Len(wire) <= start[Len(sent) + 1]
  <1>1. /\ Len(made) \in Nat /\ Len(sent) \in Nat /\ Len(queue) \in Nat
        /\ Len(buffer) \in Nat /\ Len(wire) \in Nat
    BY DEF StreamTypeOK, MadeOK
  <1>2. Len(made) + Len(queue) <= Len(sent)
    BY Zenon DEF InStep, QueueOK
  <1>3. Before \in Nat
    BY Zenon DEF Before, SizeLength
  <1>4. start[Len(made) + 1] \in Nat /\ start[Len(sent) + 1] \in Nat
    <2>1. Len(made) + 1 \in 1..(Len(sent) + 1) /\ Len(sent) + 1 \in 1..(Len(sent) + 1)
      BY <1>1, <1>2
    <2>. QED
      BY Zenon, <2>1 DEF InStep, StartsOK
  <1>5. ReadTo(start) \in Nat
    BY <1>1, <1>3, <1>4 DEF ReadTo
  <1>6. ReadTo(start) + Len(wire) <= start[Len(sent) + 1]
    <2>1. CASE queue = << >>
      <3>1. ReadTo(start) + Len(wire) = start[Len(sent) + 1]
        BY Zenon, <2>1 DEF InStep, QueueOK
      <3>. QED
        BY <1>4, <3>1
    <2>2. CASE queue # << >>
      <3>1. Len(queue) > 0
        BY <2>2 DEF StreamTypeOK
      <3>2. First \in 1..Len(sent) /\ Len(sent) + 1 \in (First + 1)..(Len(sent) + 1)
        BY <1>1, <1>2, <3>1 DEF First
      <3>3. PICK done \in Nat :
              /\ Len(queue[1]) > 0 /\ done + Len(queue[1]) = Len(Packet(sent[First]))
              /\ ReadTo(start) + Len(wire) = start[First] + done
        BY Zenon, <2>2 DEF InStep, QueueOK
      <3>4. start[First] + Len(Packet(sent[First])) <= start[Len(sent) + 1]
        BY Zenon, <3>2 DEF InStep, StartsOK
      <3>5. First \in 1..(Len(sent) + 1)
        BY <1>1, <3>2
      <3>6. start[First] \in Nat
        BY Zenon, <3>5 DEF InStep, StartsOK
      <3>7. Len(Packet(sent[First])) \in Nat
        BY <3>2, SentPacket DEF SizeLength
      <3>8. Len(queue[1]) \in Nat
        BY <3>1 DEF StreamTypeOK
      <3>9. start[First] + done <= start[First] + Len(Packet(sent[First]))
        BY <3>3, <3>6, <3>7, <3>8
      <3>10. start[First] + done <= start[Len(sent) + 1]
        BY <1>4, <3>4, <3>6, <3>7, <3>9
      <3>. QED
        BY Zenon, <3>3, <3>10
    <2>. QED
      BY Zenon, <2>1, <2>2
  <1>7. Len(made) <= Len(sent)
    BY <1>1, <1>2
  <1>. QED
    BY Zenon, <1>1, <1>3, <1>4, <1>5, <1>6, <1>7


\* While there are bytes to read, or a body, some message's call is to be made.
LEMMA Reading ==
    ASSUME StreamTypeOK, MadeOK, NEW start, InStep(start),
           phase = "body" \/ Len(buffer) + Len(wire) > 0
    PROVE  Len(made) + 1 \in 1..Len(sent)
  <1>1. CASE phase = "body"
    BY <1>1, WrittenTo DEF InStep, ReadOK
  <1>2. CASE Len(buffer) + Len(wire) > 0
    <2>. SUFFICES ASSUME Len(made) = Len(sent) PROVE FALSE
      BY WrittenTo
    <2>1. ReadTo(start) = start[Len(sent) + 1] + Before + Len(buffer)
      BY Zenon DEF ReadTo
    <2>. QED
      BY <1>2, <2>1, WrittenTo
  <1>. QED
    BY Zenon, <1>1, <1>2

\* Init establishes the invariant.
LEMMA StreamInit ==
    ASSUME Init
    PROVE  StreamInv
  <1>1. StreamTypeOK /\ MadeOK
    BY DEF Init, StreamTypeOK, MadeOK, Wanted, SizeLength
  <1>. DEFINE start == [m \in 1..1 |-> 0]
  <1>2. InStep(start)
    <2>1. Len(sent) = 0 /\ Len(made) = 0 /\ Len(queue) = 0 /\ Len(wire) = 0
          /\ Len(buffer) = 0 /\ Before = 0
      BY Zenon DEF Init, Before
    <2>2. start[1] = 0 /\ start \in [1..(Len(sent) + 1) -> Nat]
      BY <2>1
    <2>. HIDE DEF start
    <2>3. StartsOK(start)
      BY <2>1, <2>2 DEF StartsOK
    <2>4. QueueOK(start)
      BY <2>1, <2>2 DEF QueueOK, ReadTo, Init
    <2>5. WireOK(start)
      BY <2>1 DEF WireOK
    <2>6. ReadOK
      BY <2>1 DEF ReadOK, Init
    <2>. QED
      BY Zenon, <2>3, <2>4, <2>5, <2>6 DEF InStep
  <1>. QED
    BY <1>1, <1>2, Zenon DEF StreamInv

\* A message that is sent goes to the end of the queue, and its packet to the end of
\* the stream.
LEMMA WriteInStep ==
    ASSUME StreamInv, NEW call \in Sendable, Write(call)
    PROVE  StreamInv'
  <1>1. StreamTypeOK /\ MadeOK
    BY Zenon DEF StreamInv
  <1>. DEFINE N == Len(sent)
             packet == Packet(call)
  <1>2. /\ sent \in Seq(Sendable) /\ sent' = Append(sent, call)
        /\ queue \in Seq(Seq(Byte)) /\ queue' = Append(queue, packet)
        /\ UNCHANGED <<reader, wire, writerEnd, readerEnd, phase, size, buffer, made>>
    BY Zenon, <1>1 DEF Write, Packet, StreamTypeOK, MadeOK
  <1>3. packet \in Seq(Byte) /\ Len(packet) \in Nat /\ Len(packet) > 0
    <2>1. packet \in Seq(Byte) /\ Len(packet) = SizeLength + Len(Message(call))
          /\ Len(Message(call)) \in Nat
      BY <1>1, SentKnown, PacketBytes
    <2>. QED
      BY <2>1 DEF SizeLength
  <1>. HIDE DEF packet
  <1>4. /\ N \in Nat /\ Len(sent') = N + 1 /\ sent'[N + 1] = call
        /\ \A m \in 1..N : sent'[m] = sent[m]
        /\ sent' \in Seq(Sendable)
    BY <1>2
  <1>5. /\ Len(queue) \in Nat /\ Len(queue') = Len(queue) + 1
        /\ queue'[Len(queue) + 1] = packet
        /\ \A i \in 1..Len(queue) : queue'[i] = queue[i]
        /\ queue' \in Seq(Seq(Byte))
    BY <1>2, <1>3
  <1>6. StreamTypeOK'
    BY <1>1, <1>2, <1>4, <1>5 DEF StreamTypeOK, Wanted, MadeOK
  <1>7. MadeOK'
    <2>1. Len(made) \in Nat /\ Len(made) <= N
      BY <1>1 DEF StreamTypeOK, MadeOK
    <2>2. Sendable' = Sendable
      BY Zenon, <1>2 DEF Sendable
    <2>3. \A i \in 1..Len(made) : made[i] = sent'[i]
      <3>. TAKE i \in 1..Len(made)
      <3>1. i \in 1..N
        BY <1>4, <2>1
      <3>. QED
        BY Zenon, <1>1, <1>4, <3>1 DEF MadeOK
    <2>. QED
      BY Zenon, <1>1, <1>2, <1>4, <2>2, <2>3 DEF MadeOK
  <1>8. ASSUME NEW start, InStep(start)
        PROVE  \E start2 : InStep(start2)'
    <2>0. start \in [1..(N + 1) -> Nat]
      BY Zenon, <1>8 DEF InStep, StartsOK
    <2>1. PICK next : /\ next \in [1..(N + 2) -> Nat]
                      /\ next[N + 2] = start[N + 1] + Len(packet)
                      /\ \A m \in 1..(N + 1) : next[m] = start[m]
      <3>. DEFINE longer == [m \in 1..(N + 2) |->
                        IF m = N + 2 THEN start[N + 1] + Len(packet) ELSE start[m]]
      <3>1. /\ longer \in [1..(N + 2) -> Nat]
            /\ longer[N + 2] = start[N + 1] + Len(packet)
            /\ \A m \in 1..(N + 1) : longer[m] = start[m]
        BY <1>3, <1>4, <2>0
      <3>. QED
        BY Zenon, <3>1
    <2>2. /\ Len(made) \in Nat /\ Len(made) <= N /\ Len(made) + Len(queue) <= N
          /\ ReadTo(start) \in Nat /\ Len(wire) \in Nat
          /\ ReadTo(start) + Len(wire) <= start[N + 1]
      BY Zenon, <1>1, <1>8, WrittenTo DEF InStep, QueueOK
    <2>3. ReadTo(next)' = ReadTo(start) /\ Before' = Before
      <3>1. Len(made) + 1 \in 1..(N + 1)
        BY <1>4, <2>2
      <3>2. Before' = Before
        BY Zenon, <1>2 DEF Before
      <3>. QED
        BY Zenon, <1>2, <2>1, <3>1, <3>2 DEF ReadTo
    <2>4. StartsOK(next)'
      <3>1. \A m \in 1..(N + 1) : next[m + 1] = next[m] + Len(Packet(sent'[m]))
        <4>. TAKE m \in 1..(N + 1)
        <4>1. CASE m \in 1..N
          BY <1>4, <1>8, <2>1, <4>1 DEF InStep, StartsOK
        <4>2. CASE m = N + 1
          BY <1>4, <2>1, <4>2 DEF packet
        <4>. QED
          BY <1>4, <4>1, <4>2
      <3>2. ASSUME NEW m \in 1..(N + 1), NEW n \in (m + 1)..(N + 2)
            PROVE  next[m] + Len(Packet(sent'[m])) <= next[n]
        <4>1. CASE m \in 1..N /\ n \in (m + 1)..(N + 1)
          BY <1>4, <1>8, <2>1, <4>1 DEF InStep, StartsOK
        <4>2. CASE m \in 1..N /\ n = N + 2
          <5>0. m \in 1..(N + 1) /\ N + 1 \in (m + 1)..(N + 1) /\ N + 1 \in 1..(N + 1)
            BY <1>4, <4>2
          <5>1. start[m] + Len(Packet(sent[m])) <= start[N + 1]
            BY Zenon, <1>8, <4>2, <5>0 DEF InStep, StartsOK
          <5>2. Len(Packet(sent[m])) \in Nat
            BY <1>1, <4>2, SentPacket DEF SizeLength
          <5>3. start[m] \in Nat /\ start[N + 1] \in Nat /\ next[m] = start[m]
            BY Zenon, <2>0, <2>1, <5>0
          <5>4. sent'[m] = sent[m] /\ next[n] = start[N + 1] + Len(packet)
            BY Zenon, <1>4, <2>1, <4>2
          <5>. QED
            BY <1>3, <5>1, <5>2, <5>3, <5>4
        <4>3. CASE m = N + 1
          <5>1. n = N + 2 /\ next[m] = start[N + 1] /\ Packet(sent'[m]) = packet
            BY <1>4, <2>1, <4>3 DEF packet
          <5>2. start[N + 1] \in Nat
            BY <1>4, <2>0
          <5>. QED
            BY <1>3, <2>1, <5>1, <5>2
        <4>. QED
          BY <1>4, <4>1, <4>2, <4>3
      <3>. QED
        BY <1>4, <2>1, <3>1, <3>2 DEF StartsOK
    <2>5. QueueOK(next)'
      <3>0. First' = First /\ First = N - Len(queue) + 1
        BY <1>4, <1>5 DEF First
      <3>1. CASE queue = << >>
        <4>1. Len(queue) = 0 /\ First = N + 1
          BY <1>4, <3>0, <3>1
        <4>2. ReadTo(next)' + Len(wire') = next[N + 1] + 0
          BY <1>2, <1>4, <1>8, <2>0, <2>1, <2>3, <3>1 DEF InStep, QueueOK
        <4>3. queue'[1] = packet /\ Packet(sent'[N + 1]) = packet
          BY <1>4, <1>5, <4>1 DEF packet
        <4>4. /\ Len(queue'[1]) > 0 /\ 0 + Len(queue'[1]) = Len(Packet(sent'[First']))
              /\ \A i \in 1..Len(queue'[1]) :
                     queue'[1][i] = Packet(sent'[First'])[0 + i]
              /\ ReadTo(next)' + Len(wire') = next[First'] + 0
          BY <1>3, <3>0, <4>1, <4>2, <4>3
        <4>5. \A i \in 2..Len(queue') : queue'[i] = Packet(sent'[First' + i - 1])
          BY <1>5, <4>1
        <4>6. Len(made') + Len(queue') <= Len(sent')
          BY <1>2, <1>4, <1>5, <2>2
        <4>7. queue' # << >>
          <5>1. Len(queue') # 0
            BY <1>5
          <5>. QED
            BY <5>1
        <4>. QED
          BY Zenon, <4>4, <4>5, <4>6, <4>7 DEF QueueOK
      <3>2. CASE queue # << >>
        <4>1. Len(queue) > 0
          BY <1>2, <3>2
        <4>2. Len(queue') # 0 /\ First \in 1..N
          BY <1>4, <1>5, <2>2, <3>0, <4>1
        <4>3. queue'[1] = queue[1]
          BY SMTT(30), <1>5, <4>1
        <4>4. queue' # << >>
          BY <4>2
        <4>5. PICK done \in Nat :
                /\ Len(queue[1]) > 0 /\ done + Len(queue[1]) = Len(Packet(sent[First]))
                /\ \A i \in 1..Len(queue[1]) : queue[1][i] = Packet(sent[First])[done + i]
                /\ ReadTo(start) + Len(wire) = start[First] + done
          BY Zenon, <1>8, <3>2 DEF InStep, QueueOK
        <4>6. sent'[First'] = sent[First] /\ next[First'] = start[First]
          <5>1. First \in 1..(N + 1)
            BY <1>4, <4>2
          <5>. QED
            BY Zenon, <1>4, <2>1, <3>0, <4>2, <5>1
        <4>7. /\ Len(queue'[1]) > 0 /\ done + Len(queue'[1]) = Len(Packet(sent'[First']))
              /\ \A i \in 1..Len(queue'[1]) :
                     queue'[1][i] = Packet(sent'[First'])[done + i]
              /\ ReadTo(next)' + Len(wire') = next[First'] + done
          BY Zenon, <1>2, <2>3, <4>5, <4>6, <4>3
        <4>8. ASSUME NEW i \in 2..Len(queue')
              PROVE  queue'[i] = Packet(sent'[First' + i - 1])
          <5>1. CASE i \in 2..Len(queue)
            <6>1. First + i - 1 \in 1..N
              BY SMTT(30), <1>4, <1>5, <3>0, <4>2, <5>1
            <6>2. queue'[i] = queue[i]
              BY <1>5, <5>1
            <6>. QED
              BY Zenon, <1>4, <1>8, <3>0, <5>1, <6>1, <6>2 DEF InStep, QueueOK
          <5>2. CASE i = Len(queue) + 1
            <6>1. First + i - 1 = N + 1
              BY <1>4, <1>5, <3>0, <5>2
            <6>. QED
              BY Zenon, <1>4, <1>5, <3>0, <5>2, <6>1 DEF packet
          <5>. QED
            BY <1>5, <5>1, <5>2
        <4>9. Len(made') + Len(queue') <= Len(sent')
          BY <1>2, <1>4, <1>5, <2>2
        <4>. QED
          BY Zenon, <4>4, <4>7, <4>8, <4>9 DEF QueueOK
      <3>. QED
        BY Zenon, <3>1, <3>2
    <2>6. WireOK(next)'
      <3>0. SUFFICES ASSUME NEW m \in 1..Len(sent'),
                            NEW p \in 1..Len(Packet(sent'[m])),
                            NEW i \in 1..Len(wire'), ReadTo(next)' + i = next[m] + p
                     PROVE  wire'[i] = Packet(sent'[m])[p]
        BY Zenon DEF WireOK
      <3>3. m \in 1..(N + 1) /\ i \in 1..Len(wire) /\ ReadTo(start) + i = next[m] + p
        BY Zenon, <1>2, <1>4, <2>3, <3>0
      <3>1. CASE m \in 1..N
        <4>1. sent'[m] = sent[m] /\ next[m] = start[m]
          BY Zenon, <1>4, <2>1, <3>1, <3>3
        <4>2. WireOK(start)
          BY Zenon, <1>8 DEF InStep
        <4>. QED
          BY <1>2, <3>1, <3>3, <4>1, <4>2 DEF WireOK
      <3>2. CASE m = N + 1
        <4>1. next[m] = start[N + 1] /\ start[N + 1] \in Nat
          BY Zenon, <1>4, <2>0, <2>1, <3>2
        <4>2. Packet(sent'[m]) = packet
          BY Zenon, <1>4, <3>2 DEF packet
        <4>. QED
          BY SMTT(30), <1>3, <2>2, <3>3, <4>1, <4>2
      <3>. QED
        BY <1>4, <3>1, <3>2, <3>3
    <2>7. ReadOK'
      <3>1. CASE Len(made) < N
        <4>1. Len(made) + 1 \in 1..N /\ sent'[Len(made) + 1] = sent[Len(made) + 1]
          BY <1>4, <2>2, <3>1
        <4>. QED
          BY <1>2, <1>4, <1>8, <2>2, <2>3, <3>1, <4>1 DEF InStep, ReadOK
      <3>2. CASE Len(made) = N
        <4>1. phase # "body" /\ ~(Len(buffer) + Len(wire) > 0)
          BY <1>1, <1>4, <1>8, <3>2, Reading
        <4>2. Len(buffer) \in Nat
          BY <1>1 DEF StreamTypeOK
        <4>3. 1..Len(buffer) = {}
          BY <2>2, <4>1, <4>2
        <4>. QED
          BY Zenon, <1>2, <4>1, <4>3 DEF ReadOK
      <3>. QED
        BY <1>4, <2>2, <3>1, <3>2
    <2>. QED
      BY Zenon, <2>4, <2>5, <2>6, <2>7 DEF InStep
  <1>9. phase' # "closed" => \E start : InStep(start)'
    BY Zenon, <1>2, <1>8 DEF StreamInv
  <1>. QED
    BY Zenon, <1>6, <1>7, <1>9 DEF StreamInv


\* A place in the stream is in one packet only.
LEMMA OnePlace ==
    ASSUME MadeOK, NEW start, StartsOK(start),
           NEW m \in 1..Len(sent), NEW p \in 1..Len(Packet(sent[m])),
           NEW n \in 1..Len(sent), NEW q \in 1..Len(Packet(sent[n])),
           start[m] + p = start[n] + q
    PROVE  m = n /\ p = q
  <1>1. Len(sent) \in Nat
    BY DEF MadeOK
  <1>2. start[m] \in Nat /\ start[n] \in Nat
    <2>1. m \in 1..(Len(sent) + 1) /\ n \in 1..(Len(sent) + 1)
      BY <1>1
    <2>. QED
      BY Zenon, <2>1 DEF StartsOK
  <1>3. Len(Packet(sent[m])) \in Nat /\ Len(Packet(sent[n])) \in Nat
    BY SentPacket
  <1>4. ~(m < n)
    <2>. SUFFICES ASSUME m < n PROVE FALSE
      BY Zenon
    <2>1. n \in (m + 1)..(Len(sent) + 1)
      BY <1>1
    <2>2. start[m] + Len(Packet(sent[m])) <= start[n]
      BY Zenon, <2>1 DEF StartsOK
    <2>. QED
      BY <1>2, <1>3, <2>2
  <1>5. ~(n < m)
    <2>. SUFFICES ASSUME n < m PROVE FALSE
      BY Zenon
    <2>1. m \in (n + 1)..(Len(sent) + 1)
      BY <1>1
    <2>2. start[n] + Len(Packet(sent[n])) <= start[m]
      BY Zenon, <2>1 DEF StartsOK
    <2>. QED
      BY <1>2, <1>3, <2>2
  <1>6. m = n
    BY <1>1, <1>4, <1>5
  <1>. QED
    BY <1>2, <1>6

\* Places in the stream are counted from several beginnings.
LEMMA SumsRegroup == \A a, b, c \in Nat : a + (b + c) = (a + b) + c
OBVIOUS

\* Bytes that the kernel takes are the next ones of the stream.
LEMMA WriteSomeInStep ==
    ASSUME StreamInv, NEW k \in 1..Window, WriteSome(k)
    PROVE  StreamInv'
  <1>1. StreamTypeOK /\ MadeOK
    BY Zenon DEF StreamInv
  <1>. DEFINE N == Len(sent)
             Q == Len(queue)
             W == Len(wire)
             L == Len(queue[1])
  <1>2. UNCHANGED <<reader, sent, writerEnd, readerEnd, phase, size, buffer, made>>
    BY Zenon DEF WriteSome
  <1>3. queue \in Seq(Seq(Byte)) /\ wire \in Seq(Byte) /\ N \in Nat /\ W \in Nat
    BY <1>1 DEF StreamTypeOK, MadeOK
  <1>4. Q \in Nat /\ Q > 0 /\ Head(queue) = queue[1]
    BY <1>3 DEF WriteSome
  <1>5. queue[1] \in Seq(Byte) /\ L \in Nat /\ k \in 1..L
    BY <1>3, <1>4 DEF WriteSome
  <1>6. /\ wire' \in Seq(Byte) /\ Len(wire') = W + k
        /\ \A i \in 1..W : wire'[i] = wire[i]
        /\ \A i \in 1..k : wire'[W + i] = queue[1][i]
    <2>. DEFINE some == SubSeq(queue[1], 1, k)
    <2>1. wire' = wire \o some
      BY Zenon, <1>4 DEF WriteSome
    <2>2. some \in Seq(Byte) /\ Len(some) = k /\ \A i \in 1..k : some[i] = queue[1][i]
      BY <1>5
    <2>. HIDE DEF some
    <2>3. some \in Seq(Byte) /\ wire \in Seq(Byte)
      BY Zenon, <1>3, <2>2
    <2>4. /\ wire \o some \in Seq(Byte) /\ Len(wire \o some) = W + Len(some)
          /\ \A i \in 1..W : (wire \o some)[i] = wire[i]
          /\ \A i \in 1..Len(some) : (wire \o some)[W + i] = some[i]
      BY <2>3
    <2>. QED
      BY Zenon, <2>1, <2>2, <2>4
  <1>7. ASSUME k = L
        PROVE  /\ queue' \in Seq(Seq(Byte)) /\ Len(queue') = Q - 1
               /\ \A i \in 1..(Q - 1) : queue'[i] = queue[i + 1]
    <2>1. queue' = Tail(queue)
      BY Zenon, <1>4, <1>7 DEF WriteSome
    <2>. QED
      BY <1>3, <1>4, <2>1
  <1>8. ASSUME k # L
        PROVE  /\ queue' \in Seq(Seq(Byte)) /\ Len(queue') = Q
               /\ Len(queue'[1]) = L - k
               /\ \A i \in 1..(L - k) : queue'[1][i] = queue[1][k + i]
               /\ \A i \in 2..Q : queue'[i] = queue[i]
    <2>. DEFINE rest == SubSeq(queue[1], k + 1, L)
    <2>1. queue' = [queue EXCEPT ![1] = rest]
      BY Zenon, <1>4, <1>8 DEF WriteSome
    <2>2. /\ rest \in Seq(Byte) /\ Len(rest) = L - k
          /\ \A i \in 1..(L - k) : rest[i] = queue[1][k + i]
      BY <1>5
    <2>. HIDE DEF rest
    <2>3. /\ queue' \in Seq(Seq(Byte)) /\ Len(queue') = Q
          /\ queue'[1] = rest /\ \A i \in 2..Q : queue'[i] = queue[i]
      BY <1>3, <1>4, <2>1, <2>2
    <2>. QED
      BY Zenon, <2>2, <2>3
  <1>9. queue' \in Seq(Seq(Byte))
    BY Zenon, <1>7, <1>8
  <1>10. StreamTypeOK'
    BY Zenon, <1>1, <1>2, <1>6, <1>9 DEF StreamTypeOK, Wanted
  <1>11. MadeOK'
    BY Zenon, <1>1, <1>2 DEF MadeOK, Sendable
  <1>12. ASSUME NEW start, InStep(start)
         PROVE  InStep(start)'
    <2>1. Before' = Before /\ ReadTo(start)' = ReadTo(start)
      BY Zenon, <1>2 DEF Before, ReadTo
    <2>2. StartsOK(start) /\ QueueOK(start) /\ WireOK(start) /\ ReadOK
      BY Zenon, <1>12 DEF InStep
    <2>3. ReadTo(start) \in Nat /\ Len(made) \in Nat /\ Len(made) + Q <= N
      BY Zenon, <1>1, <1>12, <2>2, WrittenTo DEF QueueOK
    <2>4. First \in 1..N /\ First = N - Q + 1
      BY <1>3, <1>4, <2>3 DEF First
    <2>5. PICK done \in Nat :
            /\ L > 0 /\ done + L = Len(Packet(sent[First]))
            /\ \A i \in 1..L : queue[1][i] = Packet(sent[First])[done + i]
            /\ ReadTo(start) + W = start[First] + done
      <3>1. queue # << >>
        BY Zenon DEF WriteSome
      <3>. QED
        BY Zenon, <2>2, <3>1 DEF QueueOK
    <2>6. start[First] \in Nat /\ start[First + 1] = start[First] + (done + L)
      <3>1. First \in 1..(N + 1)
        BY <1>3, <2>4
      <3>. QED
        BY Zenon, <2>2, <2>4, <2>5, <3>1 DEF StartsOK
    <2>7. \A i \in 2..Q : queue[i] = Packet(sent[First + i - 1])
      BY Zenon, <2>2 DEF QueueOK
    <2>8. QueueOK(start)'
      <3>1. ReadTo(start)' + Len(wire') = start[First] + (done + k)
        <4>1. ReadTo(start)' + Len(wire') = ReadTo(start) + (W + k)
          BY Zenon, <1>6, <2>1
        <4>2. ReadTo(start) + (W + k) = (ReadTo(start) + W) + k
          BY <1>3, <2>3
        <4>3. (start[First] + done) + k = start[First] + (done + k)
          BY <2>6
        <4>. QED
          BY Zenon, <2>5, <4>1, <4>2, <4>3
      <3>2. CASE k = L
        <4>1. /\ Len(queue') = Q - 1 /\ \A i \in 1..(Q - 1) : queue'[i] = queue[i + 1]
          BY Zenon, <1>7, <3>2
        <4>2. First' = First + 1
          BY <1>2, <1>3, <1>4, <4>1 DEF First
        <4>3. Len(made') + Len(queue') <= Len(sent')
          BY <1>2, <1>3, <1>4, <2>3, <4>1
        <4>4. ASSUME NEW i \in 1..(Q - 1)
              PROVE  queue'[i] = Packet(sent'[First' + i - 1])
          <5>1. i + 1 \in 2..Q /\ First' + i - 1 = First + (i + 1) - 1
            BY <1>3, <1>4, <2>4, <4>2
          <5>. QED
            BY Zenon, <1>2, <2>7, <4>1, <5>1
        <4>5. CASE Q = 1
          <5>1. queue' = << >>
            BY <1>9, <4>1, <4>5
          <5>2. First = N
            BY <1>3, <2>4, <4>5
          <5>3. ReadTo(start)' + Len(wire') = start[Len(sent') + 1]
            BY Zenon, <1>2, <2>6, <3>1, <3>2, <5>2
          <5>4. \A i \in 2..Len(queue') : queue'[i] = Packet(sent'[First' + i - 1])
            BY <4>1, <4>5
          <5>. QED
            BY Zenon, <4>3, <5>1, <5>3, <5>4 DEF QueueOK
        <4>6. CASE Q > 1
          <5>1. queue' # << >>
            <6>1. Len(queue') # 0
              BY <1>4, <4>1, <4>6
            <6>. QED
              BY <6>1
          <5>2. First + 1 \in 1..N /\ 1 \in 1..(Q - 1) /\ First' + 1 - 1 = First + 1
            BY <1>3, <1>4, <2>4, <4>2, <4>6
          <5>3. queue'[1] = Packet(sent'[First'])
            BY Zenon, <4>2, <4>4, <5>2
          <5>4. Packet(sent'[First']) \in Seq(Byte) /\ Len(Packet(sent'[First'])) > 0
            <6>1. sent'[First'] = sent[First + 1]
              BY Zenon, <1>2, <4>2
            <6>2. /\ Packet(sent[First + 1]) \in Seq(Byte)
                  /\ Len(Packet(sent[First + 1]))
                       = SizeLength + Len(Message(sent[First + 1]))
                  /\ Len(Message(sent[First + 1])) \in Nat
              BY Zenon, <1>1, <5>2, SentPacket
            <6>3. SizeLength + Len(Message(sent[First + 1])) > 0
              BY <6>2 DEF SizeLength
            <6>. QED
              BY Zenon, <6>1, <6>2, <6>3
          <5>5. /\ Len(queue'[1]) > 0 /\ 0 + Len(queue'[1]) = Len(Packet(sent'[First']))
                /\ \A i \in 1..Len(queue'[1]) :
                       queue'[1][i] = Packet(sent'[First'])[0 + i]
            BY <5>3, <5>4
          <5>6. ReadTo(start)' + Len(wire') = start[First'] + 0
            <6>1. start[First + 1] \in Nat
              BY <2>5, <2>6, <1>5
            <6>. QED
              BY <2>6, <3>1, <3>2, <4>2, <6>1
          <5>7. \A i \in 2..Len(queue') : queue'[i] = Packet(sent'[First' + i - 1])
            BY <1>4, <4>1, <4>4
          <5>. QED
            BY Zenon, <4>3, <5>1, <5>5, <5>6, <5>7 DEF QueueOK
        <4>7. Q = 1 \/ Q > 1
          <5>1. \A n \in Nat : n > 0 => n = 1 \/ n > 1
            OBVIOUS
          <5>. QED
            BY <1>4, <5>1, Zenon
        <4>. QED
          BY Zenon, <4>5, <4>6, <4>7
      <3>3. CASE k # L
        <4>1. /\ Len(queue') = Q /\ Len(queue'[1]) = L - k
              /\ \A i \in 1..(L - k) : queue'[1][i] = queue[1][k + i]
              /\ \A i \in 2..Q : queue'[i] = queue[i]
          BY Zenon, <1>8, <3>3
        <4>2. First' = First
          BY Zenon, <1>2, <4>1 DEF First
        <4>3. queue' # << >>
          <5>1. Len(queue') # 0
            BY <1>4, <4>1
          <5>. QED
            BY <5>1
        <4>4. /\ done + k \in Nat /\ Len(queue'[1]) > 0
              /\ (done + k) + Len(queue'[1]) = Len(Packet(sent'[First']))
          <5>1. done + k \in Nat /\ L - k > 0 /\ (done + k) + (L - k) = done + L
            <6>1. \A d \in Nat, l \in Nat : \A j \in 1..l : j # l =>
                      d + j \in Nat /\ l - j > 0 /\ (d + j) + (l - j) = d + l
              OBVIOUS
            <6>. QED
              BY <1>5, <3>3, <6>1, Zenon
          <5>. QED
            BY Zenon, <1>2, <2>5, <4>1, <4>2, <5>1
        <4>5. ASSUME NEW i \in 1..Len(queue'[1])
              PROVE  queue'[1][i] = Packet(sent'[First'])[(done + k) + i]
          <5>1. i \in 1..(L - k) /\ k + i \in 1..L /\ done + (k + i) = (done + k) + i
            BY <1>5, <4>1
          <5>. QED
            BY Zenon, <1>2, <2>5, <4>1, <4>2, <5>1
        <4>6. \A i \in 2..Len(queue') : queue'[i] = Packet(sent'[First' + i - 1])
          BY Zenon, <1>2, <2>7, <4>1, <4>2
        <4>7. ReadTo(start)' + Len(wire') = start[First'] + (done + k)
          BY Zenon, <3>1, <4>2
        <4>8. Len(made') + Len(queue') <= Len(sent')
          BY Zenon, <1>2, <2>3, <4>1
        <4>. QED
          BY Zenon, <4>3, <4>4, <4>5, <4>6, <4>7, <4>8 DEF QueueOK
      <3>. QED
        BY Zenon, <3>2, <3>3
    <2>9. WireOK(start)'
      <3>1. SUFFICES ASSUME NEW m \in 1..Len(sent'), NEW p \in 1..Len(Packet(sent'[m])),
                            NEW i \in 1..Len(wire'), ReadTo(start)' + i = start[m] + p
                     PROVE  wire'[i] = Packet(sent'[m])[p]
        BY Zenon DEF WireOK
      <3>2. /\ m \in 1..N /\ p \in 1..Len(Packet(sent[m]))
            /\ ReadTo(start) + i = start[m] + p
        BY Zenon, <1>2, <2>1, <3>1
      <3>3. CASE i \in 1..W
        BY Zenon, <1>2, <1>6, <2>2, <3>2, <3>3 DEF WireOK
      <3>4. CASE i \in (W + 1)..(W + k)
        <4>1. PICK j \in 1..k : i = W + j
          <5>1. i - W \in 1..k /\ i = W + (i - W)
            BY <1>3, <3>4
          <5>. QED
            BY Zenon, <5>1
        <4>2. j \in Nat /\ j \in 1..L /\ done + j \in 1..(done + L)
          BY <1>5
        <4>3. start[m] + p = start[First] + (done + j)
          <5>1. ReadTo(start) + (W + j) = (ReadTo(start) + W) + j
            <6>1. \A b, c \in Nat : ReadTo(start) + (b + c) = (ReadTo(start) + b) + c
              BY Zenon, <2>3, SumsRegroup
            <6>. QED
              BY Zenon, <1>3, <4>2, <6>1
          <5>2. (start[First] + done) + j = start[First] + (done + j)
            <6>1. \A b, c \in Nat : start[First] + (b + c) = (start[First] + b) + c
              BY Zenon, <2>6, SumsRegroup
            <6>. QED
              BY Zenon, <4>2, <6>1
          <5>. QED
            BY Zenon, <2>5, <3>2, <4>1, <5>1, <5>2
        <4>4. done + j \in 1..Len(Packet(sent[First]))
          BY Zenon, <2>5, <4>2
        <4>5. m = First /\ p = done + j
          <5>. DEFINE q == done + j
          <5>1. q \in 1..Len(Packet(sent[First])) /\ start[m] + p = start[First] + q
            BY Zenon, <4>3, <4>4
          <5>. HIDE DEF q
          <5>2. First \in 1..Len(sent) /\ m \in 1..Len(sent)
            BY Zenon, <2>4, <3>2
          <5>3. p \in 1..Len(Packet(sent[m]))
            BY Zenon, <3>2
          <5>4. MadeOK /\ StartsOK(start)
            BY Zenon, <1>1, <2>2
          <5>5. m = First /\ p = q
            BY <5>1, <5>2, <5>3, <5>4, OnePlace
          <5>. QED
            BY Zenon, <5>5 DEF q
        <4>6. wire'[i] = queue[1][j]
          BY Zenon, <1>6, <4>1
        <4>. QED
          BY Zenon, <1>2, <2>5, <4>2, <4>5, <4>6
      <3>. QED
        BY <1>3, <1>6, <3>3, <3>4
    <2>10. StartsOK(start)'
      BY Zenon, <1>2, <2>2 DEF StartsOK
    <2>11. ReadOK'
      BY Zenon, <1>2, <2>1, <2>2 DEF ReadOK
    <2>. QED
      BY Zenon, <2>8, <2>9, <2>10, <2>11 DEF InStep
  <1>13. phase' # "closed" => \E start : InStep(start)'
    BY Zenon, <1>2, <1>12 DEF StreamInv
  <1>. QED
    BY Zenon, <1>10, <1>11, <1>13 DEF StreamInv


\* Bytes that a read gets are the next ones of the packet it reads.
LEMMA ReadSomeInStep ==
    ASSUME StreamInv, NEW k \in 1..Window, ReadSome(k)
    PROVE  StreamInv'
  <1>1. StreamTypeOK /\ MadeOK
    BY Zenon DEF StreamInv
  <1>. DEFINE N == Len(sent)
             M == Len(made)
             W == Len(wire)
             B == Len(buffer)
  <1>2. UNCHANGED <<reader, sent, queue, writerEnd, readerEnd, phase, size, made>>
    BY Zenon DEF ReadSome
  <1>3. buffer \in Seq(Byte) /\ wire \in Seq(Byte) /\ N \in Nat /\ W \in Nat /\ B \in Nat
    BY <1>1 DEF StreamTypeOK, MadeOK
  <1>4. k \in 1..W /\ B + k <= Wanted /\ phase # "closed"
    BY Zenon DEF ReadSome
  <1>5. /\ wire' \in Seq(Byte) /\ Len(wire') = W - k
        /\ \A i \in 1..(W - k) : wire'[i] = wire[k + i]
    <2>1. wire' = SubSeq(wire, k + 1, W)
      BY Zenon DEF ReadSome
    <2>. QED
      BY <1>3, <1>4, <2>1
  <1>6. /\ buffer' \in Seq(Byte) /\ Len(buffer') = B + k
        /\ \A i \in 1..B : buffer'[i] = buffer[i]
        /\ \A i \in 1..k : buffer'[B + i] = wire[i]
    <2>. DEFINE some == SubSeq(wire, 1, k)
    <2>1. buffer' = buffer \o some
      BY Zenon DEF ReadSome
    <2>2. some \in Seq(Byte) /\ Len(some) = k /\ \A i \in 1..k : some[i] = wire[i]
      BY <1>3, <1>4
    <2>. HIDE DEF some
    <2>3. some \in Seq(Byte) /\ buffer \in Seq(Byte)
      BY Zenon, <1>3, <2>2
    <2>4. /\ buffer \o some \in Seq(Byte) /\ Len(buffer \o some) = B + Len(some)
          /\ \A i \in 1..B : (buffer \o some)[i] = buffer[i]
          /\ \A i \in 1..Len(some) : (buffer \o some)[B + i] = some[i]
      BY <2>3
    <2>. QED
      BY Zenon, <2>1, <2>2, <2>4
  <1>7. StreamTypeOK'
    <2>1. Wanted' = Wanted
      BY Zenon, <1>2 DEF Wanted
    <2>. QED
      BY Zenon, <1>1, <1>2, <1>4, <1>5, <1>6, <2>1 DEF StreamTypeOK
  <1>8. MadeOK'
    BY Zenon, <1>1, <1>2 DEF MadeOK, Sendable
  <1>9. ASSUME NEW start, InStep(start)
        PROVE  InStep(start)'
    <2>1. StartsOK(start) /\ QueueOK(start) /\ WireOK(start) /\ ReadOK
      BY Zenon, <1>9 DEF InStep
    <2>2. /\ ReadTo(start) \in Nat /\ M \in Nat
          /\ start[M + 1] \in Nat /\ Before \in Nat
      BY Zenon, <1>1, <1>9, WrittenTo
    <2>3. Before' = Before /\ ReadTo(start)' = ReadTo(start) + k
      <3>1. Before' = Before
        BY Zenon, <1>2 DEF Before
      <3>2. ReadTo(start)' = start[M + 1] + Before + (B + k)
        BY Zenon, <1>2, <1>6, <3>1 DEF ReadTo
      <3>3. start[M + 1] + Before + (B + k) = (start[M + 1] + Before + B) + k
        BY <1>3, <2>2
      <3>. QED
        BY Zenon, <3>1, <3>2, <3>3 DEF ReadTo
    <2>4. ReadTo(start)' + Len(wire') = ReadTo(start) + W
      BY <1>3, <1>4, <1>5, <2>2, <2>3
    <2>5. StartsOK(start)'
      BY Zenon, <1>2, <2>1 DEF StartsOK
    <2>6. QueueOK(start)'
      <3>1. First' = First
        BY Zenon, <1>2 DEF First
      <3>. QED
        BY Zenon, <1>2, <2>1, <2>4, <3>1 DEF QueueOK
    <2>7. WireOK(start)'
      <3>1. SUFFICES ASSUME NEW m \in 1..Len(sent'), NEW p \in 1..Len(Packet(sent'[m])),
                            NEW i \in 1..Len(wire'), ReadTo(start)' + i = start[m] + p
                     PROVE  wire'[i] = Packet(sent'[m])[p]
        BY Zenon DEF WireOK
      <3>2. m \in 1..N /\ p \in 1..Len(Packet(sent[m])) /\ i \in 1..(W - k)
        BY Zenon, <1>2, <1>5, <3>1
      <3>3. k + i \in 1..W /\ ReadTo(start) + (k + i) = (ReadTo(start) + k) + i
        BY <1>3, <1>4, <2>2, <3>2
      <3>4. ReadTo(start) + (k + i) = start[m] + p
        BY Zenon, <2>3, <3>1, <3>3
      <3>5. wire[k + i] = Packet(sent[m])[p]
        BY Zenon, <2>1, <3>2, <3>3, <3>4 DEF WireOK
      <3>. QED
        BY Zenon, <1>2, <1>5, <3>2, <3>5
    <2>8. ReadOK'
      <3>1. phase' = "body" => /\ Len(made') < Len(sent')
                               /\ size' = Len(Message(sent'[Len(made') + 1]))
        BY Zenon, <1>2, <2>1 DEF ReadOK
      <3>2. ASSUME M < N, NEW i \in 1..(B + k)
            PROVE  buffer'[i] = Packet(sent[M + 1])[Before + i]
        <4>1. CASE i \in 1..B
          BY Zenon, <1>6, <2>1, <3>2, <4>1 DEF ReadOK
        <4>2. CASE i \in (B + 1)..(B + k)
          <5>0. M + 1 \in 1..N
            BY <1>3, <2>2, <3>2
          <5>1. PICK j \in 1..k : i = B + j
            <6>1. i - B \in 1..k /\ i = B + (i - B)
              BY <1>3, <4>2
            <6>. QED
              BY Zenon, <6>1
          <5>2. Before + i \in 1..Len(Packet(sent[M + 1]))
            <6>1. /\ Len(Packet(sent[M + 1])) = SizeLength + Len(Message(sent[M + 1]))
                  /\ Len(Message(sent[M + 1])) \in Nat
              BY Zenon, <1>1, <5>0, SentPacket
            <6>2. CASE phase = "header"
              <7>1. Before = 0 /\ Wanted = SizeLength
                BY Zenon, <6>2 DEF Before, Wanted
              <7>. QED
                BY <1>3, <1>4, <6>1, <7>1 DEF SizeLength
            <6>3. CASE phase = "body"
              <7>1. Before = SizeLength /\ Wanted = Len(Message(sent[M + 1]))
                BY Zenon, <2>1, <6>3 DEF Before, Wanted, ReadOK
              <7>. QED
                BY <1>3, <1>4, <6>1, <7>1 DEF SizeLength
            <6>. QED
              BY Zenon, <1>1, <1>4, <6>2, <6>3 DEF StreamTypeOK
          <5>3. ReadTo(start) + j = start[M + 1] + (Before + i)
            <6>. DEFINE a == start[M + 1]
                       b == Before
                       c == B
            <6>1. ReadTo(start) = a + b + c
              BY Zenon DEF ReadTo
            <6>2. a \in Nat /\ b \in Nat /\ c \in Nat /\ j \in Nat
              BY <1>3, <2>2, <5>1
            <6>. HIDE DEF a, b, c
            <6>3. (a + b + c) + j = a + (b + (c + j))
              BY <6>2
            <6>. QED
              BY Zenon, <5>1, <6>1, <6>3 DEF a, b, c
          <5>4. j \in 1..W
            BY <1>3, <1>4, <5>1
          <5>5. wire[j] = Packet(sent[M + 1])[Before + i]
            BY Zenon, <2>1, <5>0, <5>2, <5>3, <5>4 DEF WireOK
          <5>. QED
            BY Zenon, <1>6, <5>1, <5>5
        <4>. QED
          BY <1>3, <1>4, <4>1, <4>2
      <3>. QED
        BY Zenon, <1>2, <1>6, <2>3, <3>1, <3>2 DEF ReadOK
    <2>. QED
      BY Zenon, <2>5, <2>6, <2>7, <2>8 DEF InStep
  <1>10. phase' # "closed" => \E start : InStep(start)'
    BY Zenon, <1>2, <1>9 DEF StreamInv
  <1>. QED
    BY Zenon, <1>7, <1>8, <1>10 DEF StreamInv

\* The header that was read is that of the next message, and holds its length.
LEMMA OnHeaderInStep ==
    ASSUME StreamInv, OnHeader
    PROVE  StreamInv' /\ Len(made) < Len(sent)
  <1>1. StreamTypeOK /\ MadeOK
    BY Zenon DEF StreamInv
  <1>. DEFINE M == Len(made)
             B == Len(buffer)
  <1>2. /\ phase = "header" /\ B = SizeLength /\ size' = NetworkToHost64(buffer)
        /\ phase' = "body" /\ buffer' = << >>
        /\ UNCHANGED <<reader, sent, queue, wire, writerEnd, readerEnd, made>>
    BY Zenon DEF OnHeader
  <1>3. PICK start : InStep(start)
    BY Zenon, <1>2 DEF StreamInv
  <1>4. /\ Len(sent) \in Nat /\ M \in Nat /\ B \in Nat /\ Len(wire) \in Nat
        /\ start[M + 1] \in Nat
    BY Zenon, <1>1, <1>3, WrittenTo
  <1>5. M + 1 \in 1..Len(sent)
    <2>1. B + Len(wire) > 0
      BY <1>2, <1>4 DEF SizeLength
    <2>. QED
      BY Zenon, <1>1, <1>3, <2>1, Reading
  <1>. DEFINE data == Message(sent[M + 1])
  <1>6. /\ Len(data) \in 0..(Width48 - 1)
        /\ \A i \in 1..SizeLength :
               Packet(sent[M + 1])[i] = HostToNetwork64(Len(data))[i]
    <2>1. sent[M + 1] \in AnyCall
      BY Zenon, <1>1, <1>5, SentPacket
    <2>. QED
      BY Zenon, <2>1, PacketBytes
  <1>. HIDE DEF data
  <1>7. size' = Len(data)
    <2>1. M < Len(sent) /\ Before = 0
      BY <1>2, <1>4, <1>5 DEF Before
    <2>2. ReadOK
      BY Zenon, <1>3 DEF InStep
    <2>3. ASSUME NEW i \in 1..SizeLength
          PROVE  buffer[1 + i - 1] = HostToNetwork64(Len(data))[i]
      <3>1. 1 + i - 1 = i /\ Before + i = i
        BY <2>1
      <3>2. buffer[i] = Packet(sent[M + 1])[Before + i]
        BY Zenon, <1>2, <2>1, <2>2 DEF ReadOK
      <3>. QED
        BY Zenon, <1>6, <3>1, <3>2
    <2>4. /\ buffer \in Seq(Byte) /\ 1 \in Nat \ {0} /\ 1 + SizeLength - 1 <= Len(buffer)
      BY <1>1, <1>2 DEF StreamTypeOK, SizeLength
    <2>5. Number(buffer, 1) = Len(data)
      BY Zenon, <1>6, <2>3, <2>4, NumberRead
    <2>6. SubSeq(buffer, 1, 1 + SizeLength - 1) = buffer
      <3>1. 1 + Len(buffer) - 1 = 1 + SizeLength - 1 /\ 1 + Len(buffer) - 1 <= Len(buffer)
        BY <1>2 DEF SizeLength
      <3>2. \A i \in 1..Len(buffer) : buffer[1 + i - 1] = buffer[i]
        OBVIOUS
      <3>. QED
        BY Zenon, <2>4, <3>1, <3>2, PartIs
    <2>. QED
      BY Zenon, <1>2, <2>5, <2>6 DEF Number
  <1>8. StreamTypeOK'
    <2>1. size' \in Nat
      BY <1>6, <1>7
    <2>2. Len(buffer') = 0 /\ buffer' \in Seq(Byte)
      BY <1>2
    <2>. QED
      BY <1>1, <1>2, <2>1, <2>2 DEF StreamTypeOK, Wanted
  <1>9. MadeOK'
    BY Zenon, <1>1, <1>2 DEF MadeOK, Sendable
  <1>10. InStep(start)'
    <2>1. StartsOK(start) /\ QueueOK(start) /\ WireOK(start) /\ ReadOK
      BY Zenon, <1>3 DEF InStep
    <2>2. ReadTo(start)' = ReadTo(start)
      <3>1. Before = 0 /\ Before' = SizeLength /\ Len(buffer') = 0
        BY Zenon, <1>2 DEF Before
      <3>2. ReadTo(start)' = start[M + 1] + SizeLength + 0
        BY Zenon, <1>2, <3>1 DEF ReadTo
      <3>3. ReadTo(start) = start[M + 1] + 0 + SizeLength
        BY Zenon, <1>2, <3>1 DEF ReadTo
      <3>. QED
        BY <1>4, <3>2, <3>3 DEF SizeLength
    <2>3. StartsOK(start)'
      BY Zenon, <1>2, <2>1 DEF StartsOK
    <2>4. QueueOK(start)'
      <3>1. First' = First
        BY Zenon, <1>2 DEF First
      <3>. QED
        BY Zenon, <1>2, <2>1, <2>2, <3>1 DEF QueueOK
    <2>5. WireOK(start)'
      BY <1>2, <2>1, <2>2 DEF WireOK
    <2>6. ReadOK'
      <3>1. Len(buffer') = 0
        BY Zenon, <1>2
      <3>2. M < Len(sent)
        BY <1>4, <1>5
      <3>. QED
        BY <1>2, <1>7, <3>1, <3>2 DEF ReadOK, data
    <2>. QED
      BY Zenon, <2>3, <2>4, <2>5, <2>6 DEF InStep
  <1>11. M < Len(sent)
    BY <1>4, <1>5
  <1>. QED
    BY Zenon, <1>8, <1>9, <1>10, <1>11 DEF StreamInv


\* A body that has been read is the data of the next message, and its packet had
\* been written to the end.
LEMMA BodyRead ==
    ASSUME StreamInv, Complete
    PROVE  /\ Len(made) \in Nat /\ Len(sent) \in Nat /\ Len(queue) \in Nat
           /\ Len(made) + 1 + Len(queue) <= Len(sent)
           /\ buffer = Message(sent[Len(made) + 1])
           /\ sent[Len(made) + 1] \in Sendable
           /\ sent[Len(made) + 1] \in AnyCall /\ sent[Len(made) + 1].type \in Types
  <1>. USE DEF Complete
  <1>1. StreamTypeOK /\ MadeOK
    BY Zenon DEF StreamInv
  <1>. DEFINE M == Len(made)
             N == Len(sent)
             call == sent[M + 1]
  <1>2. PICK start : InStep(start)
    BY Zenon DEF StreamInv
  <1>3. StartsOK(start) /\ QueueOK(start) /\ ReadOK
    BY Zenon, <1>2 DEF InStep
  <1>4. /\ N \in Nat /\ M \in Nat /\ Len(queue) \in Nat /\ Len(wire) \in Nat
        /\ Len(buffer) \in Nat /\ start[M + 1] \in Nat /\ ReadTo(start) \in Nat
    BY Zenon, <1>1, <1>2, WrittenTo
  <1>5. M + 1 \in 1..N
    BY Zenon, <1>1, <1>2, Reading
  <1>6. /\ call \in Sendable /\ call \in AnyCall /\ call.type \in Types
        /\ Len(Packet(call)) = SizeLength + Len(Message(call))
    BY Zenon, <1>1, <1>5, SentPacket
  <1>7. /\ Message(call) \in Seq(Byte)
        /\ \A i \in 1..Len(Message(call)) : Packet(call)[SizeLength + i] = Message(call)[i]
    BY Zenon, <1>6, PacketBytes
  <1>8. Len(buffer) = Len(Message(call)) /\ Before = SizeLength
    BY Zenon, <1>3 DEF ReadOK, Before
  <1>9. buffer = Message(call)
    <2>1. \A i \in 1..Len(buffer) : buffer[i] = Packet(call)[Before + i]
      BY Zenon, <1>3, <1>4, <1>5 DEF ReadOK
    <2>2. \A i \in 1..Len(buffer) : buffer[i] = Message(call)[i]
      BY Zenon, <1>7, <1>8, <2>1
    <2>3. buffer \in Seq(Byte)
      BY Zenon, <1>1 DEF StreamTypeOK
    <2>. HIDE DEF call
    <2>. QED
      BY Zenon, <1>7, <1>8, <2>2, <2>3, SameElements
  <1>10. M + 1 + Len(queue) <= N
    <2>1. M + Len(queue) <= N
      BY Zenon, <1>3 DEF QueueOK
    <2>2. SUFFICES ASSUME M + Len(queue) = N PROVE FALSE
      BY <1>4, <2>1
    <2>3. Len(queue) > 0
      BY <1>4, <1>5, <2>2
    <2>4. First = M + 1 /\ queue # << >>
      BY <1>4, <2>2, <2>3 DEF First
    <2>5. PICK done \in Nat :
            /\ Len(queue[1]) > 0 /\ done + Len(queue[1]) = Len(Packet(call))
            /\ ReadTo(start) + Len(wire) = start[M + 1] + done
      BY Zenon, <1>3, <2>4 DEF QueueOK
    <2>6. ReadTo(start) = start[M + 1] + SizeLength + Len(Message(call))
      BY Zenon, <1>8 DEF ReadTo
    <2>7. Len(queue[1]) \in Nat /\ Len(Message(call)) \in Nat
      BY <1>1, <1>4, <1>7, <2>3 DEF StreamTypeOK
    <2>8. \A a, w, q, l \in Nat : ~(/\ q > 0 /\ done + q = SizeLength + l
                                    /\ (a + SizeLength + l) + w = a + done)
      BY DEF SizeLength
    <2>. QED
      BY ZenonT(30), <1>4, <1>6, <2>5, <2>6, <2>7, <2>8
  <1>. QED
    BY Zenon, <1>4, <1>6, <1>9, <1>10

\* TCPManager::read makes the call of the message that is next.
LEMMA NextCall ==
    ASSUME StreamInv, Complete
    PROVE  /\ Calls(buffer, Types) = <<sent[Len(made) + 1]>>
           /\ Number(buffer, 1) \in Types
           /\ Fields(buffer, FieldsAt(Number(buffer, 1))).end = size + 1
  <1>. USE DEF Complete
  <1>. DEFINE call == sent[Len(made) + 1]
  <1>1. buffer = Message(call) /\ call \in AnyCall /\ call.type \in Types
    BY Zenon, BodyRead
  <1>. HIDE DEF call
  <1>2. /\ Number(buffer, 1) = call.type
        /\ Fields(buffer, FieldsAt(call.type)).end = Len(buffer) + 1
        /\ Calls(buffer, Types) = <<call>>
    BY Zenon, <1>1, MessageRead DEF AnyCall
  <1>. QED
    BY Zenon, <1>1, <1>2 DEF call

\* The next read after a body is for the header of the next packet.
LEMMA OnBodyInStep ==
    ASSUME StreamInv, OnBody
    PROVE  StreamInv' /\ made' = Append(made, sent[Len(made) + 1])
  <1>1. StreamTypeOK /\ MadeOK
    BY Zenon DEF StreamInv
  <1>. DEFINE M == Len(made)
             N == Len(sent)
             call == sent[M + 1]
  <1>2. /\ Complete /\ phase = "body" /\ phase' = "header" /\ buffer' = << >>
        /\ made' = made \o Calls(buffer, Types)
        /\ UNCHANGED <<reader, sent, queue, wire, writerEnd, readerEnd, size>>
    BY Zenon DEF OnBody, Complete
  <1>3. /\ M \in Nat /\ N \in Nat /\ Len(queue) \in Nat
        /\ M + 1 + Len(queue) <= N
        /\ buffer = Message(call) /\ call \in Sendable /\ call \in AnyCall
    BY Zenon, <1>2, BodyRead
  <1>4. made' = Append(made, call)
    <2>1. made' = made \o <<call>>
      BY Zenon, <1>2, NextCall
    <2>2. made \in Seq(Sendable)
      BY Zenon, <1>1 DEF MadeOK
    <2>. HIDE DEF call
    <2>. QED
      BY <1>3, <2>1, <2>2
  <1>5. /\ made' \in Seq(Sendable) /\ Len(made') = M + 1
        /\ \A i \in 1..(M + 1) : made'[i] = sent[i]
    <2>1. made \in Seq(Sendable) /\ \A i \in 1..M : made[i] = sent[i]
      BY Zenon, <1>1 DEF MadeOK
    <2>2. /\ made' \in Seq(Sendable) /\ Len(made') = M + 1 /\ made'[M + 1] = call
          /\ \A i \in 1..M : made'[i] = made[i]
      <3>. HIDE DEF call
      <3>. QED
        BY <1>3, <1>4, <2>1
    <2>3. ASSUME NEW i \in 1..(M + 1) PROVE made'[i] = sent[i]
      <3>1. i \in 1..M \/ i = M + 1
        BY <1>3
      <3>. QED
        BY Zenon, <2>1, <2>2, <3>1
    <2>. QED
      BY Zenon, <2>2, <2>3
  <1>6. StreamTypeOK'
    <2>1. Len(buffer') = 0 /\ buffer' \in Seq(Byte)
      BY <1>2
    <2>2. Len(made') <= Len(sent')
      BY <1>2, <1>3, <1>5
    <2>. QED
      BY <1>1, <1>2, <2>1, <2>2 DEF StreamTypeOK, Wanted, SizeLength
  <1>7. MadeOK'
    <2>1. Sendable' = Sendable
      BY Zenon, <1>2 DEF Sendable
    <2>. QED
      BY Zenon, <1>1, <1>2, <1>5, <2>1 DEF MadeOK
  <1>8. PICK start : InStep(start)
    BY Zenon, <1>2 DEF StreamInv
  <1>9. InStep(start)'
    <2>1. StartsOK(start) /\ QueueOK(start) /\ WireOK(start) /\ ReadOK
      BY Zenon, <1>8 DEF InStep
    <2>2. ReadTo(start)' = ReadTo(start)
      <3>1. Before = SizeLength /\ Before' = 0 /\ Len(buffer') = 0
        BY Zenon, <1>2 DEF Before
      <3>2. ReadTo(start)' = start[(M + 1) + 1] + 0 + 0
        BY Zenon, <1>5, <3>1 DEF ReadTo
      <3>3. ReadTo(start) = start[M + 1] + SizeLength + Len(Message(call))
        BY Zenon, <1>3, <3>1 DEF ReadTo
      <3>4. M + 1 \in 1..N
        BY <1>3
      <3>5. start[(M + 1) + 1] = start[M + 1] + (SizeLength + Len(Message(call)))
        BY Zenon, <1>1, <2>1, <3>4, SentPacket DEF StartsOK
      <3>6. Len(Message(call)) \in Nat /\ start[M + 1] \in Nat
        BY Zenon, <1>1, <1>8, <3>4, SentPacket, WrittenTo
      <3>7. \A a, l \in Nat : a + SizeLength + l = (a + (SizeLength + l)) + 0 + 0
        BY DEF SizeLength
      <3>. QED
        BY Zenon, <3>2, <3>3, <3>5, <3>6, <3>7
    <2>3. StartsOK(start)'
      BY Zenon, <1>2, <2>1 DEF StartsOK
    <2>4. QueueOK(start)'
      <3>1. First' = First
        BY Zenon, <1>2 DEF First
      <3>2. Len(made') + Len(queue') <= Len(sent')
        BY Zenon, <1>2, <1>3, <1>5
      <3>. QED
        BY Zenon, <1>2, <2>1, <2>2, <3>1, <3>2 DEF QueueOK
    <2>5. WireOK(start)'
      BY <1>2, <2>1, <2>2 DEF WireOK
    <2>6. ReadOK'
      <3>1. Len(buffer') = 0
        BY Zenon, <1>2
      <3>. QED
        BY <1>2, <3>1 DEF ReadOK
    <2>. QED
      BY Zenon, <2>3, <2>4, <2>5, <2>6 DEF InStep
  <1>. QED
    BY Zenon, <1>4, <1>6, <1>7, <1>9 DEF StreamInv

\* An end that closes leaves the messages and the calls as they are.
LEMMA CloseInStep ==
    ASSUME StreamInv, OnReadError \/ ReaderCloses \/ WriterCloses
    PROVE  StreamInv'
  <1>1. StreamTypeOK /\ MadeOK
    BY Zenon DEF StreamInv
  <1>2. CASE OnReadError
    <2>1. /\ phase' = "closed" /\ readerEnd' = "closed" /\ buffer' = << >>
          /\ UNCHANGED <<reader, sent, queue, wire, writerEnd, size, made>>
      BY Zenon, <1>2 DEF OnReadError
    <2>2. StreamTypeOK'
      <3>1. buffer' \in Seq(Byte)
        BY <2>1
      <3>. QED
        BY Zenon, <1>1, <2>1, <3>1 DEF StreamTypeOK
    <2>3. MadeOK'
      BY Zenon, <1>1, <2>1 DEF MadeOK, Sendable
    <2>. QED
      BY Zenon, <2>1, <2>2, <2>3 DEF StreamInv
  <1>3. CASE ReaderCloses \/ WriterCloses
    <2>1. /\ {writerEnd', readerEnd'} \subseteq {writerEnd, readerEnd, "closed"}
          /\ phase = "closed" => readerEnd' = readerEnd
          /\ UNCHANGED <<reader, sent, queue, wire, phase, size, buffer, made>>
      BY Zenon, <1>3 DEF ReaderCloses, WriterCloses
    <2>2. StreamTypeOK'
      BY Zenon, <1>1, <2>1 DEF StreamTypeOK, Wanted
    <2>3. MadeOK'
      BY Zenon, <1>1, <2>1 DEF MadeOK, Sendable
    <2>4. ASSUME NEW start, InStep(start) PROVE InStep(start)'
      BY <2>1, <2>4 DEF InStep, StartsOK, QueueOK, WireOK, ReadOK, ReadTo, First, Before
    <2>. QED
      BY Zenon, <2>1, <2>2, <2>3, <2>4 DEF StreamInv
  <1>. QED
    BY Zenon, <1>2, <1>3


\* Every step keeps the invariant.
LEMMA StreamNext ==
    ASSUME StreamInv, [Next]_vars
    PROVE  StreamInv'
  <1>1. CASE \E call \in Sendable : Write(call)
    BY Zenon, <1>1, WriteInStep
  <1>2. CASE Transfer
    BY Zenon, <1>2, WriteSomeInStep, ReadSomeInStep DEF Transfer
  <1>3. CASE Handler
    BY Zenon, <1>3, OnHeaderInStep, OnBodyInStep, CloseInStep DEF Handler
  <1>4. CASE WriterCloses \/ ReaderCloses
    BY Zenon, <1>4, CloseInStep
  <1>5. CASE UNCHANGED vars
    <2>1. UNCHANGED <<reader, sent, queue, wire, writerEnd, readerEnd, phase, size, buffer, made>>
      BY Zenon, <1>5 DEF vars
    <2>2. StreamTypeOK'
      BY Zenon, <2>1 DEF StreamInv, StreamTypeOK, Wanted
    <2>3. MadeOK'
      BY Zenon, <2>1 DEF StreamInv, MadeOK, Sendable
    <2>4. ASSUME NEW start, InStep(start) PROVE InStep(start)'
      BY <2>1, <2>4 DEF InStep, StartsOK, QueueOK, WireOK, ReadOK, ReadTo, First, Before
    <2>. QED
      BY Zenon, <2>1, <2>2, <2>3, <2>4 DEF StreamInv
  <1>. QED
    BY Zenon, <1>1, <1>2, <1>3, <1>4, <1>5 DEF Next

\* Header and body reads stay in step with the packets for ever.
THEOREM ReadsInStep == Spec => []StreamInv
  <1>1. Init => StreamInv
    BY Zenon, StreamInit
  <1>2. StreamInv /\ [Next]_vars => StreamInv'
    BY Zenon, StreamNext
  <1>. QED
    BY <1>1, <1>2, PTL DEF Spec

\* The stream is well typed, no read takes more than it was started for, and there
\* are never more calls than messages.
THEOREM StreamTyped == Spec => []StreamTypeOK
  <1>1. StreamInv => StreamTypeOK
    BY Zenon DEF StreamInv
  <1>. QED
    BY <1>1, ReadsInStep, PTL

\* Whenever TCPManager::read is called, the fields of the packet end where it does.
THEOREM PacketsJustFit == Spec => []JustFits
  <1>1. StreamInv => JustFits
    BY Zenon, NextCall DEF JustFits
  <1>. QED
    BY <1>1, ReadsInStep, PTL

-----------------------------------------------------------------------------
(* The stream implements the channel. *)

\* The number of the last message that can still come.
LastComing ==
    IF readerEnd = "closed" THEN IF Complete THEN Len(made) + 1 ELSE Len(made)
    ELSE IF writerEnd = "closed" THEN Len(sent) - Len(queue)
    ELSE Len(sent)

\* What is added to a sequence is added to the rest of it.
LEMMA RestAppend ==
    ASSUME NEW S, NEW q \in Seq(S), NEW e \in S, NEW m \in 0..Len(q)
    PROVE  SubSeq(Append(q, e), m + 1, Len(q) + 1)
             = Append(SubSeq(q, m + 1, Len(q)), e)
  <1>. DEFINE a == SubSeq(Append(q, e), m + 1, Len(q) + 1)
             r == SubSeq(q, m + 1, Len(q))
             b == Append(r, e)
             n == Len(q) - m
  <1>1. n \in Nat /\ Len(q) \in Nat /\ m \in Nat
    OBVIOUS
  <1>2. r \in Seq(S) /\ Len(r) = n /\ \A i \in 1..n : r[i] = q[m + i]
    OBVIOUS
  <1>3. /\ a \in Seq(S) /\ Len(a) = n + 1
        /\ \A i \in 1..(n + 1) : a[i] = Append(q, e)[m + i]
    <2>. DEFINE long == Append(q, e)
               l == Len(q) + 1
    <2>1. long \in Seq(S) /\ Len(long) = l /\ l \in Nat
      OBVIOUS
    <2>2. m + 1 \in 1..l /\ l - m = n + 1
      OBVIOUS
    <2>. HIDE DEF long, l, n
    <2>3. /\ SubSeq(long, m + 1, l) \in Seq(S)
          /\ Len(SubSeq(long, m + 1, l)) = l - m
          /\ \A i \in 1..(l - m) : SubSeq(long, m + 1, l)[i] = long[m + i]
      BY <1>1, <2>1, <2>2
    <2>. QED
      BY Zenon, <2>2, <2>3 DEF long, l
  <1>. HIDE DEF a, r
  <1>4. /\ b \in Seq(S) /\ Len(b) = n + 1 /\ b[n + 1] = e
        /\ \A i \in 1..n : b[i] = r[i]
    BY <1>2
  <1>. HIDE DEF b
  <1>5. ASSUME NEW i \in 1..(n + 1) PROVE a[i] = b[i]
    <2>1. CASE i \in 1..n
      <3>1. m + i \in 1..Len(q)
        BY <1>1, <2>1
      <3>2. Append(q, e)[m + i] = q[m + i]
        BY <3>1
      <3>. QED
        BY Zenon, <1>2, <1>3, <1>4, <2>1, <3>2
    <2>2. CASE i = n + 1
      <3>1. m + i = Len(q) + 1
        BY <1>1, <2>2
      <3>2. Append(q, e)[Len(q) + 1] = e
        OBVIOUS
      <3>. QED
        BY Zenon, <1>3, <1>4, <2>2, <3>1, <3>2
    <2>. QED
      BY <1>1, <2>1, <2>2
  <1>6. a = b
    BY Zenon, <1>3, <1>4, <1>5, SameElements
  <1>. QED
    BY Zenon, <1>6 DEF a, b, r

\* The head and the tail of a part of a sequence.
LEMMA RestFirst ==
    ASSUME NEW S, NEW q \in Seq(S), NEW m \in 0..(Len(q) - 1), NEW n \in (m + 1)..Len(q)
    PROVE  /\ SubSeq(q, m + 1, n) # << >>
           /\ Head(SubSeq(q, m + 1, n)) = q[m + 1]
           /\ Tail(SubSeq(q, m + 1, n)) = SubSeq(q, (m + 1) + 1, n)
  <1>. DEFINE a == SubSeq(q, m + 1, n)
             b == SubSeq(q, (m + 1) + 1, n)
             k == n - m
  <1>1. k \in Nat /\ k > 0
    OBVIOUS
  <1>2. a \in Seq(S) /\ Len(a) = k /\ \A i \in 1..k : a[i] = q[m + i]
    OBVIOUS
  <1>3. b \in Seq(S) /\ Len(b) = k - 1 /\ \A i \in 1..(k - 1) : b[i] = q[m + (1 + i)]
    OBVIOUS
  <1>. HIDE DEF a, b, k
  <1>4. a # << >> /\ Head(a) = a[1]
    BY <1>1, <1>2
  <1>5. /\ Tail(a) \in Seq(S) /\ Len(Tail(a)) = k - 1
        /\ \A i \in 1..(k - 1) : Tail(a)[i] = a[1 + i]
    BY <1>1, <1>2
  <1>6. ASSUME NEW i \in 1..(k - 1) PROVE Tail(a)[i] = b[i]
    <2>1. 1 + i \in 1..k
      BY <1>1
    <2>. QED
      BY Zenon, <1>2, <1>3, <1>5, <2>1
  <1>7. Tail(a) = b
    BY Zenon, <1>3, <1>5, <1>6, SameElements
  <1>8. a[1] = q[m + 1]
    BY <1>1, <1>2
  <1>. QED
    BY Zenon, <1>4, <1>7, <1>8 DEF a, b

\* Messages are lost from some number on, or not at all.
LEMMA LoseOrStay ==
    ASSUME StreamInv, made' = made, sent' = sent,
           LastComing \in Len(made)..Len(sent), LastComing' \in Len(made)..LastComing
    PROVE  [Channel!Next]_<<Coming, made>>
  <1>. DEFINE M == Len(made)
             last == LastComing
             next == LastComing'
  <1>1. /\ sent \in Seq(AnyCall) /\ M \in Nat /\ Len(sent) \in Nat
    <2>1. \A call \in Sendable : call \in AnyCall
      BY Zenon, SentKnown DEF StreamInv
    <2>. QED
      BY <2>1 DEF StreamInv, MadeOK
  <1>2. Coming = SubSeq(sent, M + 1, last) /\ Coming' = SubSeq(sent, M + 1, next)
    BY Zenon DEF Coming, LastComing
  <1>3. last \in M..Len(sent) /\ next \in M..last
    BY Zenon
  <1>. HIDE DEF last, next
  <1>4. CASE next = last
    BY Zenon, <1>2, <1>4
  <1>5. CASE next # last
    <2>. DEFINE n == next - M
    <2>1. Len(Coming) = last - M /\ n \in 0..(Len(Coming) - 1)
      <3>1. Len(SubSeq(sent, M + 1, last)) = last - M
        BY <1>1, <1>3
      <3>2. Len(Coming) = last - M
        BY Zenon, <1>2, <3>1
      <3>3. next - M \in 0..((last - M) - 1)
        BY <1>1, <1>3, <1>5
      <3>. QED
        BY Zenon, <3>2, <3>3
    <2>2. Coming' = SubSeq(Coming, 1, n)
      <3>1. SubSeq(SubSeq(sent, M + 1, last), 1, next - M) = SubSeq(sent, M + 1, next)
        BY <1>1, <1>3
      <3>. QED
        BY Zenon, <1>2, <3>1
    <2>. HIDE DEF n
    <2>3. Channel!Lose
      BY Zenon, <2>1, <2>2 DEF Channel!Lose
    <2>. QED
      BY Zenon, <2>3 DEF Channel!Next
  <1>. QED
    BY Zenon, <1>4, <1>5

\* What may come lies between the calls made and the messages sent.
LEMMA LastBetween ==
    ASSUME StreamInv
    PROVE  /\ Len(made) \in Nat /\ Len(sent) \in Nat /\ Len(queue) \in Nat
           /\ LastComing \in Len(made)..Len(sent)
           /\ readerEnd # "closed" => Len(sent) - Len(queue) \in Len(made)..Len(sent)
           /\ Complete => Len(made) + 1 <= Len(sent) - Len(queue)
  <1>1. /\ Len(made) \in Nat /\ Len(sent) \in Nat /\ Len(queue) \in Nat
        /\ Len(made) <= Len(sent) /\ (readerEnd # "closed" => phase # "closed")
    BY DEF StreamInv, StreamTypeOK, MadeOK
  <1>2. readerEnd # "closed" => Len(made) + Len(queue) <= Len(sent)
    BY Zenon, <1>1 DEF StreamInv, InStep, QueueOK
  <1>3. readerEnd # "closed" => Len(sent) - Len(queue) \in Len(made)..Len(sent)
    BY <1>1, <1>2
  <1>4. Complete => Len(made) + 1 <= Len(sent) - Len(queue)
    <2>1. Complete => Len(made) + 1 + Len(queue) <= Len(sent)
      BY Zenon, BodyRead
    <2>. QED
      BY <1>1, <2>1
  <1>5. LastComing \in Len(made)..Len(sent)
    <2>1. CASE readerEnd = "closed"
      BY <1>1, <1>4, <2>1 DEF LastComing
    <2>2. CASE readerEnd # "closed" /\ writerEnd = "closed"
      BY Zenon, <1>1, <1>3, <2>2 DEF LastComing
    <2>3. CASE readerEnd # "closed" /\ writerEnd # "closed"
      BY <1>1, <1>3, <2>3 DEF LastComing
    <2>. QED
      BY Zenon, <2>1, <2>2, <2>3
  <1>. QED
    BY Zenon, <1>1, <1>3, <1>4, <1>5

\* Every step of the stream is one of the channel, or leaves it as it is.
LEMMA ChannelStep ==
    ASSUME StreamInv, [Next]_vars
    PROVE  [Channel!Next]_<<Coming, made>>
  <1>. DEFINE M == Len(made)
             N == Len(sent)
  <1>1. /\ M \in Nat /\ N \in Nat /\ Len(queue) \in Nat /\ LastComing \in M..N
        /\ readerEnd # "closed" => N - Len(queue) \in M..N
        /\ Complete => M + 1 <= N - Len(queue)
    BY Zenon, LastBetween
  <1>2. sent \in Seq(AnyCall) /\ Coming = SubSeq(sent, M + 1, LastComing)
    <2>1. \A call \in Sendable : call \in AnyCall
      BY Zenon, SentKnown DEF StreamInv
    <2>2. sent \in Seq(AnyCall)
      BY <2>1 DEF StreamInv, MadeOK
    <2>. QED
      BY Zenon, <2>2 DEF Coming, LastComing
  <1>3. ASSUME NEW call \in Sendable, Write(call)
        PROVE  [Channel!Next]_<<Coming, made>>
    <2>1. /\ writerEnd = "open" /\ sent' = Append(sent, call)
          /\ UNCHANGED <<writerEnd, readerEnd, made>> /\ Complete' = Complete
      BY Zenon, <1>3 DEF Write, Complete
    <2>2. call \in AnyCall
      BY Zenon, SentKnown DEF StreamInv
    <2>3. CASE readerEnd = "closed"
      <3>. DEFINE last == LastComing
      <3>1. LastComing' = last
        BY Zenon, <2>1, <2>3 DEF LastComing
      <3>2. Coming' = SubSeq(sent', M + 1, last)
        BY Zenon, <2>1, <3>1 DEF Coming, LastComing
      <3>3. last \in M..N
        BY Zenon, <1>1
      <3>. HIDE DEF last
      <3>4. SubSeq(Append(sent, call), M + 1, last) = SubSeq(sent, M + 1, last)
        BY <1>1, <1>2, <2>2, <3>3
      <3>. QED
        BY Zenon, <1>2, <2>1, <3>2, <3>4 DEF last
    <2>4. CASE readerEnd # "closed"
      <3>1. Coming = SubSeq(sent, M + 1, N) /\ Coming' = SubSeq(sent', M + 1, Len(sent'))
        BY Zenon, <2>1, <2>4 DEF Coming
      <3>2. SubSeq(Append(sent, call), M + 1, N + 1) = Append(SubSeq(sent, M + 1, N), call)
        <4>1. M \in 0..N
          BY <1>1
        <4>. QED
          BY Zenon, <1>2, <2>2, <4>1, RestAppend
      <3>3. Len(sent') = N + 1
        BY <1>2, <2>1
      <3>4. Coming' = Append(Coming, call)
        BY Zenon, <2>1, <3>1, <3>2, <3>3
      <3>5. Channel!Send(call)
        BY Zenon, <2>1, <3>4 DEF Channel!Send
      <3>. QED
        BY Zenon, <2>2, <3>5 DEF Channel!Next, AnyCall
    <2>. QED
      BY Zenon, <2>3, <2>4
  <1>4. ASSUME UNCHANGED <<sent, readerEnd, writerEnd, made>>,
               Len(queue') = Len(queue) \/ writerEnd = "open",
               Complete' = Complete \/ readerEnd = "open"
        PROVE  [Channel!Next]_<<Coming, made>>
    <2>1. LastComing' = LastComing
      <3>1. CASE readerEnd = "closed"
        <4>1. Complete' = Complete
          BY Zenon, <1>4, <3>1
        <4>. QED
          BY Zenon, <1>4, <3>1, <4>1 DEF LastComing
      <3>2. CASE readerEnd # "closed" /\ writerEnd = "closed"
        <4>1. Len(queue') = Len(queue)
          BY Zenon, <1>4, <3>2
        <4>. QED
          BY Zenon, <1>4, <3>2, <4>1 DEF LastComing
      <3>3. CASE readerEnd # "closed" /\ writerEnd # "closed"
        BY Zenon, <1>4, <3>3 DEF LastComing
      <3>. QED
        BY Zenon, <3>1, <3>2, <3>3
    <2>2. Coming' = Coming
      BY Zenon, <1>2, <1>4, <2>1 DEF Coming, LastComing
    <2>. QED
      BY Zenon, <1>4, <2>2
  <1>5. ASSUME NEW k \in 1..Window, WriteSome(k)
        PROVE  [Channel!Next]_<<Coming, made>>
    BY Zenon, <1>4, <1>5 DEF WriteSome, Complete
  <1>6. ASSUME NEW k \in 1..Window, ReadSome(k)
        PROVE  [Channel!Next]_<<Coming, made>>
    BY Zenon, <1>4, <1>6 DEF ReadSome
  <1>7. CASE OnHeader
    <2>1. /\ UNCHANGED <<sent, queue, writerEnd, readerEnd, made>>
          /\ phase = "header" /\ phase' = "body" /\ buffer' = << >>
      BY Zenon, <1>7 DEF OnHeader
    <2>2. ~Complete'
      <3>1. StreamInv' /\ M < N
        BY Zenon, <1>7, OnHeaderInStep
      <3>2. size' = Len(Message(sent[M + 1]))
        BY Zenon, <2>1, <3>1 DEF StreamInv, InStep, ReadOK
      <3>3. Len(Message(sent[M + 1])) > 0 /\ Len(Message(sent[M + 1])) \in Nat
        <4>1. M + 1 \in 1..Len(sent)
          BY <1>1, <3>1
        <4>. QED
          BY Zenon, <4>1, SentPacket DEF StreamInv
      <3>4. size' > 0 /\ size' \in Nat
        BY Zenon, <3>2, <3>3
      <3>. QED
        BY <2>1, <3>4 DEF Complete
    <2>. QED
      BY Zenon, <1>4, <2>1, <2>2 DEF Complete
  <1>8. CASE OnBody
    <2>1. /\ Complete /\ ~Complete'
          /\ UNCHANGED <<sent, queue, writerEnd, readerEnd>>
      BY Zenon, <1>8 DEF OnBody, Complete
    <2>2. M + 1 <= N - Len(queue)
      BY Zenon, <1>1, <2>1
    <2>3. made' = Append(made, sent[M + 1])
      BY Zenon, <1>8, OnBodyInStep
    <2>4. LastComing \in (M + 1)..N
      <3>1. CASE readerEnd = "closed" \/ writerEnd = "closed"
        BY <1>1, <2>1, <2>2, <3>1 DEF LastComing
      <3>2. CASE readerEnd # "closed" /\ writerEnd # "closed"
        BY <1>1, <2>1, <2>2, <3>2 DEF LastComing
      <3>. QED
        BY Zenon, <3>1, <3>2
    <2>5. Len(made') = M + 1
      <3>1. made \in Seq(Sendable)
        BY Zenon DEF StreamInv, MadeOK
      <3>. QED
        BY <2>3, <3>1
    <2>6. LastComing' = LastComing
      BY Zenon, <2>1, <2>5 DEF LastComing
    <2>7. Coming' = SubSeq(sent, (M + 1) + 1, LastComing)
      BY Zenon, <2>1, <2>5, <2>6 DEF Coming, LastComing
    <2>. DEFINE last == LastComing
    <2>8. last \in (M + 1)..N
      BY Zenon, <2>4
    <2>. HIDE DEF last
    <2>9. /\ SubSeq(sent, M + 1, last) # << >>
          /\ Head(SubSeq(sent, M + 1, last)) = sent[M + 1]
          /\ Tail(SubSeq(sent, M + 1, last)) = SubSeq(sent, (M + 1) + 1, last)
      <3>1. M \in 0..(Len(sent) - 1)
        BY <1>1, <2>8
      <3>. QED
        BY Zenon, <1>2, <2>8, <3>1, RestFirst
    <2>10. Coming # << >> /\ Head(Coming) = sent[M + 1] /\ Coming' = Tail(Coming)
      BY Zenon, <1>2, <2>7, <2>9 DEF last
    <2>11. Channel!Receive
      BY Zenon, <2>3, <2>10 DEF Channel!Receive
    <2>. QED
      BY Zenon, <2>11 DEF Channel!Next
  <1>9. CASE OnReadError
    <2>1. readerEnd' = "closed" /\ ~Complete' /\ UNCHANGED <<sent, made>>
      BY Zenon, <1>9 DEF OnReadError, Complete
    <2>2. LastComing' = M
      BY Zenon, <2>1 DEF LastComing
    <2>. QED
      BY <1>1, <2>1, <2>2, LoseOrStay
  <1>10. CASE ReaderCloses \/ WriterCloses
    <2>1. UNCHANGED <<sent, queue, made>> /\ Complete' = Complete
      BY Zenon, <1>10 DEF ReaderCloses, WriterCloses, Complete
    <2>2. LastComing' \in M..LastComing
      <3>1. CASE ReaderCloses
        <4>1. readerEnd = "open" /\ readerEnd' = "closed"
          BY Zenon, <3>1 DEF ReaderCloses
        <4>2. CASE Complete
          <5>1. LastComing' = M + 1 /\ LastComing \in {N - Len(queue), N}
            BY Zenon, <2>1, <4>1, <4>2 DEF LastComing
          <5>. QED
            BY <1>1, <4>2, <5>1
        <4>3. CASE ~Complete
          <5>1. LastComing' = M
            BY Zenon, <2>1, <4>1, <4>3 DEF LastComing
          <5>. QED
            BY <1>1, <5>1
        <4>. QED
          BY Zenon, <4>2, <4>3
      <3>2. CASE WriterCloses /\ readerEnd = "closed"
        <4>1. LastComing' = LastComing
          BY Zenon, <2>1, <3>2 DEF LastComing, WriterCloses
        <4>. QED
          BY <1>1, <4>1
      <3>3. CASE WriterCloses /\ readerEnd # "closed"
        <4>1. LastComing = N /\ LastComing' = N - Len(queue)
          BY Zenon, <2>1, <3>3 DEF LastComing, WriterCloses
        <4>. QED
          BY Zenon, <1>1, <3>3, <4>1
      <3>. QED
        BY Zenon, <1>10, <3>1, <3>2, <3>3
    <2>. QED
      BY Zenon, <1>1, <2>1, <2>2, LoseOrStay
  <1>11. CASE UNCHANGED vars
    BY Zenon, <1>4, <1>11 DEF vars, Complete
  <1>. QED
    BY Zenon, <1>3, <1>5, <1>6, <1>7, <1>8, <1>9, <1>10, <1>11 DEF Next, Transfer, Handler

\* However the bytes are cut up on their way, the stream is a channel of whole
\* messages: each call is made once, with the id, tree and table that were sent, in
\* the order of sending, and only the last ones are lost when an end closes.
THEOREM StreamImplementsChannel == Spec => ImplementsChannel
  <1>1. Init => Channel!Init
    BY DEF Init, Channel!Init, Coming
  <1>2. StreamInv /\ [Next]_vars => [Channel!Next]_<<Coming, made>>
    BY Zenon, ChannelStep
  <1>. QED
    BY <1>1, <1>2, ReadsInStep, PTL DEF Spec, ImplementsChannel, Channel!Spec

=============================================================================
