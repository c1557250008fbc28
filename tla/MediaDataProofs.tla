-------------------------- MODULE MediaDataProofs --------------------------
(* Proofs about MediaData, for any streams, sizes and faults. *)
EXTENDS MediaData, TLAPS, SequenceTheorems, FiniteSetTheorems

Structure == {"NAL", "STAP_A", "STAP_B", "MTAP", "FU_A", "FU_B", "APs", "FUs", "audio"}
Packet == [media : Medias, unit : Nat \ {0}, i : Nat \ {0}, n : Nat \ {0},
           nt : Structure, size : Nat, offset : Nat]
Item == Medias \X Nat \X Nat

\* A packet of media m that is in flight belongs to a unit that was sent, and
\* is of its structure and size.
InFlight(m, p) ==
    /\ p.media = m /\ p.unit \in 1 .. Len(units[m])
    /\ p.nt = units[m][p.unit].nt /\ p.size = units[m][p.unit].size

\* What TypeOK leaves open: the sequences, and that the server is within its
\* last unit while packets of it are left.
Types ==
    /\ frameType \in FrameTypes
    /\ prefixParameterOnce \in [Medias -> BOOLEAN]
    /\ pc \in [Medias -> {"idle", "fetch", "parse", "copy"}]
    /\ size \in [Medias -> Nat] /\ SizeTmp \in [Medias -> Nat]
    /\ StartFlag \in [Medias -> BOOLEAN] /\ EndFlag \in [Medias -> BOOLEAN]
    /\ left \in [Medias -> Nat] /\ faults \in [Medias -> Nat] /\ dead \in BOOLEAN
    /\ units \in [Medias -> Seq(Shape)]
    /\ net \in [Medias -> Seq(Packet)] /\ late \in [Medias -> SUBSET Packet]
    /\ buf \in [Medias -> Seq(Item)] /\ out \in [Medias -> Seq(Seq(Item))]
    /\ VideoBuffer \in Packet \cup {<<>>}
Queued ==
    \A m \in Medias :
        /\ \A j \in 1 .. Len(net[m]) : InFlight(m, net[m][j])
        /\ \A p \in late[m] : InFlight(m, p)
Sending ==
    \A m \in Medias : left[m] # 0 =>
        units[m] # <<>> /\ left[m] < units[m][Len(units[m])].n
Held == \A m \in Medias : pc[m] \in {"parse", "copy"} => VideoBuffer \in Packet
TypeInv == Types /\ Queued /\ Sending /\ Held

-----------------------------------------------------------------------------
(* Operators *)

\* A packet made by the server is a packet.
LEMMA PacketOfType ==
    ASSUME NEW m \in Medias, NEW u \in Nat \ {0}, NEW s \in Shape,
           NEW k \in Nat \ {0}
    PROVE  /\ PacketOf(m, u, s, k) \in Packet
           /\ PacketOf(m, u, s, k).media = m /\ PacketOf(m, u, s, k).unit = u
           /\ PacketOf(m, u, s, k).i = k /\ PacketOf(m, u, s, k).n = s.n
           /\ PacketOf(m, u, s, k).nt = s.nt /\ PacketOf(m, u, s, k).size = s.size
           /\ PacketOf(m, u, s, k).offset = s.offset
BY DEF PacketOf, Packet, Shape, Structure

LEMMA Singleton ==
    ASSUME NEW S, NEW x \in S
    PROVE  <<x>> \in Seq(S) /\ Len(<<x>>) = 1 /\ \A j \in 1 .. Len(<<x>>) : <<x>>[j] = x
OBVIOUS

\* A packet that is not in the queue goes behind as many packets as come before
\* it, and the others keep their order.
LEMMA InsertAt ==
    ASSUME NEW q \in Seq(Packet), NEW p \in Packet
    PROVE  \E k \in 0 .. Len(q) :
              /\ k = Cardinality({j \in 1 .. Len(q) : Before(q[j], p)})
              /\ (~ \E j \in 1 .. Len(q) : q[j] = p) =>
                    /\ Insert(q, p) \in Seq(Packet) /\ Len(Insert(q, p)) = Len(q) + 1
                    /\ \A i \in 1 .. k : Insert(q, p)[i] = q[i]
                    /\ Insert(q, p)[k + 1] = p
                    /\ \A i \in k + 2 .. Len(q) + 1 : Insert(q, p)[i] = q[i - 1]
<1> DEFINE B == {j \in 1 .. Len(q) : Before(q[j], p)}
           k == Cardinality(B)
           a == SubSeq(q, 1, k)
           b == SubSeq(q, k + 1, Len(q))
<1>1. Len(q) \in Nat /\ \A j \in 1 .. Len(q) : q[j] \in Packet
  BY LenProperties, ElementOfSeq
<1>2. k \in 0 .. Len(q)
  <2>1. IsFiniteSet(1 .. Len(q)) /\ Cardinality(1 .. Len(q)) = Len(q)
    <3>1. 1 \in Int /\ Len(q) \in Int /\ (1 > Len(q) => Len(q) = 0) /\ Len(q) - 1 + 1 = Len(q)
      BY <1>1
    <3> QED BY <3>1, FS_Interval
  <2>2. B \subseteq 1 .. Len(q) OBVIOUS
  <2>3. IsFiniteSet(B) /\ Cardinality(B) <= Len(q)
    BY <2>1, <2>2, FS_Subset
  <2>4. Cardinality(B) \in Nat BY <2>3, FS_CardinalityType
  <2> QED BY <2>3, <2>4, <1>1
<1> HIDE DEF k
<1>3. /\ a \in Seq(Packet) /\ Len(a) = k
      /\ \A i \in 1 .. k : a[i] = q[i]
  <2>1. \A i \in 1 .. k : q[i] \in Packet BY <1>1, <1>2
  <2>2. Len(a) = IF 1 <= k THEN k - 1 + 1 ELSE 0
    BY <1>1, <1>2, <2>1, SubSeqProperties
  <2>3. \A i \in 1 .. k - 1 + 1 : a[i] = q[1 + i - 1]
    BY <1>1, <1>2, <2>1, SubSeqProperties
  <2>4. a \in Seq(Packet) BY <1>1, <1>2, <2>1, SubSeqProperties
  <2> HIDE DEF a
  <2> QED BY <2>2, <2>3, <2>4, <1>1, <1>2
<1>4. /\ b \in Seq(Packet) /\ Len(b) = Len(q) - k
      /\ \A i \in 1 .. Len(q) - k : b[i] = q[k + i]
  <2>1. \A i \in k + 1 .. Len(q) : q[i] \in Packet BY <1>1, <1>2
  <2>2. Len(b) = IF k + 1 <= Len(q) THEN Len(q) - (k + 1) + 1 ELSE 0
    BY <1>1, <1>2, <2>1, SubSeqProperties
  <2>3. \A i \in 1 .. Len(q) - (k + 1) + 1 : b[i] = q[(k + 1) + i - 1]
    BY <1>1, <1>2, <2>1, SubSeqProperties
  <2>4. b \in Seq(Packet) BY <1>1, <1>2, <2>1, SubSeqProperties
  <2> HIDE DEF b
  <2>5. Len(b) = Len(q) - k BY <2>2, <1>1, <1>2
  <2>6. \A i \in 1 .. Len(q) - k : b[i] = q[k + i]
    <3> SUFFICES ASSUME NEW i \in 1 .. Len(q) - k PROVE b[i] = q[k + i]
      OBVIOUS
    <3>1. i \in 1 .. Len(q) - (k + 1) + 1 /\ (k + 1) + i - 1 = k + i
      BY <1>1, <1>2
    <3> QED BY <2>3, <3>1
  <2> QED BY <2>4, <2>5, <2>6
<1> HIDE DEF a, b
<1>5. /\ <<p>> \in Seq(Packet) /\ Len(<<p>>) = 1 /\ <<p>>[1] = p
  OBVIOUS
<1> DEFINE c == a \o <<p>>
<1>6. /\ c \in Seq(Packet) /\ Len(c) = k + 1
      /\ \A i \in 1 .. k : c[i] = q[i]
      /\ c[k + 1] = p
  BY <1>2, <1>3, <1>5, ConcatProperties
<1> HIDE DEF c
<1> DEFINE r == c \o b
<1>7. /\ r \in Seq(Packet) /\ Len(r) = Len(q) + 1
      /\ \A i \in 1 .. k : r[i] = q[i]
      /\ r[k + 1] = p
      /\ \A i \in k + 2 .. Len(q) + 1 : r[i] = q[i - 1]
  <2>1. /\ r \in Seq(Packet) /\ Len(r) = Len(c) + Len(b)
        /\ \A i \in 1 .. Len(c) + Len(b) :
              r[i] = IF i <= Len(c) THEN c[i] ELSE b[i - Len(c)]
    BY <1>4, <1>6, ConcatProperties
  <2> HIDE DEF r
  <2>2. Len(c) + Len(b) = Len(q) + 1 BY <1>1, <1>2, <1>4, <1>6
  <2>3. ASSUME NEW i \in 1 .. k + 1 PROVE r[i] = c[i]
    BY <2>1, <2>2, <1>1, <1>2, <1>6
  <2>4. ASSUME NEW i \in k + 2 .. Len(q) + 1 PROVE r[i] = q[i - 1]
    <3>1. i - (k + 1) \in 1 .. Len(q) - k /\ k + (i - (k + 1)) = i - 1
      BY <1>1, <1>2
    <3>2. r[i] = b[i - (k + 1)]
      BY <2>1, <2>2, <1>1, <1>2, <1>6
    <3> QED BY <3>1, <3>2, <1>4
  <2> QED BY <2>1, <2>2, <2>3, <2>4, <1>2, <1>6
<1> HIDE DEF r
<1>8. (~ \E j \in 1 .. Len(q) : q[j] = p) => Insert(q, p) = r
  BY DEF Insert, r, c, a, b, k
<1>9. k = Cardinality(B) BY DEF k
<1> QED BY <1>2, <1>7, <1>8, <1>9

\* What is inserted into the queue is the packet, and nothing is invented.
LEMMA InsertType ==
    ASSUME NEW q \in Seq(Packet), NEW p \in Packet
    PROVE  /\ Insert(q, p) \in Seq(Packet)
           /\ \A j \in 1 .. Len(Insert(q, p)) :
                 Insert(q, p)[j] = p \/ \E l \in 1 .. Len(q) : Insert(q, p)[j] = q[l]
<1>1. CASE \E j \in 1 .. Len(q) : q[j] = p
  BY <1>1 DEF Insert
<1>2. CASE ~ \E j \in 1 .. Len(q) : q[j] = p
  <2>1. PICK r : r = Insert(q, p) OBVIOUS
  <2>2. PICK k \in 0 .. Len(q) :
           /\ r \in Seq(Packet) /\ Len(r) = Len(q) + 1
           /\ \A i \in 1 .. k : r[i] = q[i]
           /\ r[k + 1] = p
           /\ \A i \in k + 2 .. Len(q) + 1 : r[i] = q[i - 1]
    BY <1>2, <2>1, InsertAt
  <2>3. Len(q) \in Nat BY LenProperties
  <2>4. ASSUME NEW i \in 1 .. Len(r)
        PROVE  r[i] = p \/ \E l \in 1 .. Len(q) : r[i] = q[l]
    <3>1. CASE i <= k BY <3>1, <2>2, <2>3
    <3>2. CASE i = k + 1 BY <3>2, <2>2
    <3>3. CASE i > k + 1
      <4>1. i - 1 \in 1 .. Len(q) /\ i \in k + 2 .. Len(q) + 1
        BY <3>3, <2>2, <2>3
      <4> QED BY <4>1, <2>2
    <3> QED BY <3>1, <3>2, <3>3, <2>2, <2>3
  <2> QED BY <2>1, <2>2, <2>4
<1> QED BY <1>1, <1>2

\* CopyData appends items of the packet in VideoBuffer; their unit is not 0.
LEMMA CopyItemsType ==
    ASSUME NEW f \in FrameType, NEW p \in Packet, NEW start \in BOOLEAN
    PROVE  /\ CopyItems(f, p, start) \in Seq(Item)
           /\ \A j \in 1 .. Len(CopyItems(f, p, start)) :
                 CopyItems(f, p, start)[j] \in {<<p.media, p.unit, 0>>,
                                                <<p.media, p.unit, p.i>>}
<1> DEFINE x == <<p.media, p.unit, 0>>
           y == <<p.media, p.unit, p.i>>
           h == IF IsNALU(f) /\ start THEN <<x>> ELSE <<>>
           d == IF Carries(f, p) THEN <<y>> ELSE <<>>
<1>1. x \in Item /\ y \in Item
  BY DEF Packet, Item
<1>2. CopyItems(f, p, start) = h \o d
  BY DEF CopyItems
<1> HIDE DEF x, y
<1>3. h \in Seq(Item) /\ \A j \in 1 .. Len(h) : h[j] = x
  <2>1. CASE h = <<x>>
    BY <2>1, <1>1, Singleton
  <2>2. CASE h = <<>>
    BY <2>2, EmptySeq
  <2> QED BY <2>1, <2>2
<1>4. d \in Seq(Item) /\ \A j \in 1 .. Len(d) : d[j] = y
  <2>1. CASE d = <<y>>
    BY <2>1, <1>1, Singleton
  <2>2. CASE d = <<>>
    BY <2>2, EmptySeq
  <2> QED BY <2>1, <2>2
<1> HIDE DEF h, d
<1>5. /\ h \o d \in Seq(Item) /\ Len(h \o d) = Len(h) + Len(d)
      /\ \A j \in 1 .. Len(h) + Len(d) :
            (h \o d)[j] = IF j <= Len(h) THEN h[j] ELSE d[j - Len(h)]
  BY <1>3, <1>4, ConcatProperties
<1>6. Len(h) \in Nat /\ Len(d) \in Nat
  BY <1>3, <1>4, LenProperties
<1>7. \A j \in 1 .. Len(h \o d) : (h \o d)[j] \in {x, y}
  BY <1>3, <1>4, <1>5, <1>6
<1> QED BY <1>2, <1>5, <1>7 DEF x, y

\* The start code is all that CopyData may add to the size of a packet, unless
\* the packet is shorter than the header it skips.
LEMMA CopySizeType ==
    ASSUME NEW f \in FrameType, NEW p \in Packet, NEW start \in BOOLEAN, NEW n \in Nat
    PROVE  /\ CopySize(f, p, start, n) \in Nat
           /\ ~RunsOff(f, p, n) => CopySize(f, p, start, n) <= n + 4
<1>1. HeaderSize(f) \in {1, 2}
  BY DEF HeaderSize
<1>2. /\ SkipHeaderSize(f, p) \in Nat
      /\ IsNALU(f) => SkipHeaderSize(f, p) \in HeaderSize(f) .. 3
  BY <1>1 DEF SkipHeaderSize, Packet
<1>3. SizeT \in Nat /\ SizeT >= 4 BY SizesAssumption
<1> QED BY <1>1, <1>2, <1>3 DEF CopySize, RunsOff

-----------------------------------------------------------------------------
(* Type correctness *)

\* What SendPacket does to the unit it is in, and the packet it sends.
LEMMA SendEffect ==
    ASSUME TypeInv, NEW m \in Medias, NEW s \in Shapes[m], SendPacket(m, s)
    PROVE  /\ units' \in [Medias -> Seq(Shape)] /\ left' \in [Medias -> Nat] /\ Sending'
           /\ NextPacket(m, s) \in Packet
           /\ NextPacket(m, s).media = m /\ NextPacket(m, s).unit \in 1 .. Len(units'[m])
           /\ NextPacket(m, s).nt = units'[m][NextPacket(m, s).unit].nt
           /\ NextPacket(m, s).size = units'[m][NextPacket(m, s).unit].size
           /\ \A n \in Medias : /\ Len(units[n]) \in Nat /\ Len(units[n]) <= Len(units'[n])
                                 /\ \A u \in 1 .. Len(units[n]) : units'[n][u] = units[n][u]
<1>1. s \in Shape /\ s.n \in Nat \ {0}
  BY StreamsAssumption DEF Shape
<1>2. /\ units \in [Medias -> Seq(Shape)] /\ left \in [Medias -> Nat]
      /\ units[m] \in Seq(Shape) /\ Len(units[m]) \in Nat /\ left[m] \in Nat
      /\ \A n \in Medias : Len(units[n]) \in Nat
  BY LenProperties DEF TypeInv, Types
<1>3. CASE Begin(m, s)
  <2>1. /\ left[m] = 0 /\ units' = [units EXCEPT ![m] = Append(units[m], s)]
        /\ left' = [left EXCEPT ![m] = s.n - 1]
    BY <1>3 DEF Begin, Sent
  <2>2. /\ Append(units[m], s) \in Seq(Shape)
        /\ Append(units[m], s) # <<>>
        /\ Len(Append(units[m], s)) = Len(units[m]) + 1
        /\ Append(units[m], s)[Len(units[m]) + 1] = s
        /\ \A u \in 1 .. Len(units[m]) : Append(units[m], s)[u] = units[m][u]
    BY <1>1, <1>2, AppendProperties
  <2> DEFINE a == Append(units[m], s)
  <2> HIDE DEF a
  <2>3. /\ a \in Seq(Shape) /\ a # <<>> /\ Len(a) = Len(units[m]) + 1
        /\ a[Len(a)] = s /\ \A u \in 1 .. Len(units[m]) : a[u] = units[m][u]
        /\ units' = [units EXCEPT ![m] = a]
    BY <2>1, <2>2 DEF a
  <2>4. /\ units' \in [Medias -> Seq(Shape)] /\ left' \in [Medias -> Nat]
        /\ units'[m] = a /\ left'[m] = s.n - 1
        /\ \A n \in Medias : n # m => units'[n] = units[n] /\ left'[n] = left[n]
    BY <1>1, <1>2, <2>1, <2>3
  <2>5. Sending'
    BY <1>1, <2>3, <2>4 DEF Sending, TypeInv
  <2>6. NextPacket(m, s) = PacketOf(m, Len(units[m]) + 1, s, 1)
    BY <2>1 DEF NextPacket, Sent
  <2>7. NextPacket(m, s) \in Packet /\ NextPacket(m, s).media = m
        /\ NextPacket(m, s).unit = Len(units[m]) + 1
        /\ NextPacket(m, s).nt = s.nt /\ NextPacket(m, s).size = s.size
    <3>1. Len(units[m]) + 1 \in Nat \ {0} /\ 1 \in Nat \ {0}
      BY <1>2
    <3> QED BY <1>1, <2>6, <3>1, PacketOfType
  <2>8. NextPacket(m, s).unit \in 1 .. Len(units'[m])
    BY <1>2, <2>3, <2>4, <2>7
  <2>9. units'[m][NextPacket(m, s).unit] = s BY <2>3, <2>4, <2>7
  <2>10. ASSUME NEW n \in Medias
         PROVE  /\ Len(units[n]) <= Len(units'[n])
                /\ \A u \in 1 .. Len(units[n]) : units'[n][u] = units[n][u]
    BY <1>2, <2>3, <2>4
  <2> QED BY <1>2, <2>4, <2>5, <2>7, <2>8, <2>9, <2>10
<1>4. CASE Continue(m, s)
  <2>1. /\ left[m] # 0 /\ units' = units /\ left' = [left EXCEPT ![m] = left[m] - 1]
        /\ s = units[m][Len(units[m])]
    BY <1>4 DEF Continue, Sent
  <2>2. units[m] # <<>> /\ left[m] < s.n
    BY <2>1 DEF TypeInv, Sending
  <2>3. Len(units[m]) \in Nat \ {0}
    BY <1>2, <2>2, EmptySeq
  <2>4. left' \in [Medias -> Nat] /\ left'[m] = left[m] - 1
        /\ \A n \in Medias : n # m => left'[n] = left[n]
    BY <1>2, <2>1
  <2>5. Sending'
    BY <1>1, <1>2, <2>1, <2>2, <2>4 DEF Sending, TypeInv
  <2>6. NextPacket(m, s) = PacketOf(m, Len(units[m]), s, s.n - left[m] + 1)
    BY <2>1 DEF NextPacket, Sent
  <2>7. s.n - left[m] + 1 \in Nat \ {0}
    BY <1>1, <1>2, <2>2
  <2>8. NextPacket(m, s) \in Packet /\ NextPacket(m, s).media = m
        /\ NextPacket(m, s).unit = Len(units[m])
        /\ NextPacket(m, s).nt = s.nt /\ NextPacket(m, s).size = s.size
    BY <1>1, <2>3, <2>6, <2>7, PacketOfType
  <2>9. NextPacket(m, s).unit \in 1 .. Len(units'[m])
    BY <2>1, <2>3, <2>8
  <2> QED BY <1>2, <2>1, <2>4, <2>5, <2>8, <2>9
<1> QED BY <1>3, <1>4 DEF SendPacket

\* A packet appended to the queue or set aside leaves it well formed.
LEMMA QueueEffect ==
    ASSUME TypeInv, NEW m \in Medias, NEW p \in Packet,
           units' \in [Medias -> Seq(Shape)],
           \A n \in Medias : /\ Len(units[n]) \in Nat /\ Len(units[n]) <= Len(units'[n])
                              /\ \A u \in 1 .. Len(units[n]) : units'[n][u] = units[n][u],
           p.media = m, p.unit \in 1 .. Len(units'[m]),
           p.nt = units'[m][p.unit].nt, p.size = units'[m][p.unit].size,
           net' = net \/ net' = [net EXCEPT ![m] = Append(net[m], p)],
           late' = late \/ late' = [late EXCEPT ![m] = late[m] \cup {p}]
    PROVE  net' \in [Medias -> Seq(Packet)] /\ late' \in [Medias -> SUBSET Packet]
           /\ Queued'
<1>1. /\ net \in [Medias -> Seq(Packet)] /\ late \in [Medias -> SUBSET Packet]
      /\ net[m] \in Seq(Packet) /\ Len(net[m]) \in Nat
  BY LenProperties DEF TypeInv, Types
<1>2. \A n \in Medias : Len(units'[n]) \in Nat
  BY LenProperties
<1> DEFINE Flying(n, q) ==
              /\ q.media = n /\ q.unit \in 1 .. Len(units'[n])
              /\ q.nt = units'[n][q.unit].nt /\ q.size = units'[n][q.unit].size
<1>3. ASSUME NEW n \in Medias, NEW q, InFlight(n, q)
      PROVE  Flying(n, q)
  BY <1>2, <1>3 DEF InFlight
<1> DEFINE a == Append(net[m], p)
<1>4. /\ a \in Seq(Packet) /\ Len(a) = Len(net[m]) + 1
      /\ \A j \in 1 .. Len(net[m]) : a[j] = net[m][j]
      /\ a[Len(net[m]) + 1] = p
  BY <1>1, AppendProperties
<1> HIDE DEF a
<1>5. ASSUME NEW n \in Medias
      PROVE  \A j \in 1 .. Len(net'[n]) : Flying(n, net'[n][j])
  <2>1. \A j \in 1 .. Len(net[n]) : Flying(n, net[n][j])
    BY <1>3 DEF TypeInv, Queued
  <2>2. CASE net'[n] = net[n] BY <2>1, <2>2
  <2>3. CASE n = m /\ net'[n] = a
    <3> SUFFICES ASSUME NEW j \in 1 .. Len(a)
                 PROVE  Flying(n, a[j])
      BY <2>3
    <3>1. CASE j = Len(net[m]) + 1 BY <2>3, <3>1, <1>4
    <3>2. CASE j # Len(net[m]) + 1
      <4>1. j \in 1 .. Len(net[m]) BY <3>2, <1>1, <1>4
      <4>2. n = m /\ a[j] = net[m][j] BY <2>3, <4>1, <1>4
      <4> HIDE DEF Flying
      <4> QED BY <2>1, <4>1, <4>2
    <3> QED BY <3>1, <3>2
  <2> QED BY <2>2, <2>3, <1>1 DEF a
<1>6. ASSUME NEW n \in Medias
      PROVE  \A q \in late'[n] : Flying(n, q)
  <2>1. \A q \in late[n] : Flying(n, q)
    BY <1>3 DEF TypeInv, Queued
  <2>2. CASE late'[n] = late[n] BY <2>1, <2>2
  <2>3. CASE n = m /\ late'[n] = late[n] \cup {p} BY <2>1, <2>3
  <2> QED BY <2>2, <2>3, <1>1
<1>7. net' \in [Medias -> Seq(Packet)]
  BY <1>1, <1>4 DEF a
<1>8. late' \in [Medias -> SUBSET Packet]
  <2>1. late[m] \cup {p} \in SUBSET Packet BY <1>1
  <2> QED BY <1>1, <2>1
<1> QED BY <1>5, <1>6, <1>7, <1>8 DEF Queued, InFlight

LEMMA TypeEnvironment ==
    ASSUME TypeInv, NEW m \in Medias, Environment(m)
    PROVE  TypeInv'
<1>1. ASSUME NEW s \in Shapes[m], SendPacket(m, s),
             net' = net \/ net' = [net EXCEPT ![m] = Append(net[m], NextPacket(m, s))],
             late' = late \/ late' = [late EXCEPT ![m] = late[m] \cup {NextPacket(m, s)}],
             faults' \in [Medias -> Nat]
      PROVE  TypeInv'
  <2>1. /\ units' \in [Medias -> Seq(Shape)] /\ left' \in [Medias -> Nat] /\ Sending'
        /\ NextPacket(m, s) \in Packet
        /\ NextPacket(m, s).media = m /\ NextPacket(m, s).unit \in 1 .. Len(units'[m])
        /\ NextPacket(m, s).nt = units'[m][NextPacket(m, s).unit].nt
        /\ NextPacket(m, s).size = units'[m][NextPacket(m, s).unit].size
        /\ \A n \in Medias : /\ Len(units[n]) \in Nat /\ Len(units[n]) <= Len(units'[n])
                              /\ \A u \in 1 .. Len(units[n]) : units'[n][u] = units[n][u]
    BY <1>1, SendEffect
  <2>2. net' \in [Medias -> Seq(Packet)] /\ late' \in [Medias -> SUBSET Packet]
        /\ Queued'
    BY <1>1, <2>1, QueueEffect
  <2> QED BY <1>1, <2>1, <2>2 DEF SendPacket, TypeInv, Types, Held
<1>2. ASSUME NEW s \in Shapes[m],
             Arrive(m, s) \/ Lose(m, s) \/ Delay(m, s) \/ Duplicate(m, s)
      PROVE  TypeInv'
  <2>1. faults \in [Medias -> Nat] BY DEF TypeInv, Types
  <2>2. faults' \in [Medias -> Nat]
    BY <1>2, <2>1 DEF Arrive, Lose, Delay, Duplicate
  <2> QED BY <1>1, <1>2, <2>2 DEF Arrive, Lose, Delay, Duplicate
<1>3. CASE ArriveLate(m)
  <2>1. PICK p \in late[m] : /\ net' = [net EXCEPT ![m] = Insert(net[m], p)]
                             /\ late' = [late EXCEPT ![m] = late[m] \ {p}]
    BY <1>3 DEF ArriveLate
  <2>2. /\ net \in [Medias -> Seq(Packet)] /\ late \in [Medias -> SUBSET Packet]
        /\ net[m] \in Seq(Packet) /\ p \in Packet /\ InFlight(m, p)
    BY DEF TypeInv, Types, Queued
  <2> DEFINE a == Insert(net[m], p)
  <2>3. /\ a \in Seq(Packet)
        /\ \A j \in 1 .. Len(a) : a[j] = p \/ \E l \in 1 .. Len(net[m]) : a[j] = net[m][l]
    BY <2>2, InsertType
  <2> HIDE DEF a
  <2>4. \A j \in 1 .. Len(a) : InFlight(m, a[j])
    BY <2>2, <2>3 DEF TypeInv, Queued
  <2>5. /\ net' \in [Medias -> Seq(Packet)] /\ net'[m] = a
        /\ \A n \in Medias : n # m => net'[n] = net[n]
        /\ late' \in [Medias -> SUBSET Packet]
        /\ \A n \in Medias : late'[n] \subseteq late[n]
    BY <2>1, <2>2, <2>3 DEF a
  <2>6. UNCHANGED <<frameType, prefixParameterOnce, VideoBuffer, pc, size, SizeTmp,
                    StartFlag, EndFlag, buf, units, left, dead, out, faults>>
    BY <1>3 DEF ArriveLate
  <2>7. ASSUME NEW n \in Medias
        PROVE  /\ \A j \in 1 .. Len(net'[n]) : InFlight(n, net'[n][j])
               /\ \A q \in late'[n] : InFlight(n, q)
    <3>1. CASE n = m BY <2>4, <2>5, <3>1 DEF TypeInv, Queued
    <3>2. CASE n # m BY <2>5, <3>2 DEF TypeInv, Queued
    <3> QED BY <3>1, <3>2
  <2>8. Queued'
    BY <2>6, <2>7 DEF Queued, InFlight
  <2> QED BY <2>5, <2>6, <2>8 DEF TypeInv, Types, Sending, Held
<1> QED BY <1>2, <1>3 DEF Environment

LEMMA TypeCall ==
    ASSUME TypeInv, NEW m \in Medias, GetMediaData(m)
    PROVE  TypeInv'
<1>1. XPS(m) \in Item /\ XPS(m) = <<m, 0, 0>>
  BY DEF XPS, Item
<1>2. <<XPS(m)>> \in Seq(Item) /\ <<>> \in Seq(Item)
  BY <1>1, Singleton, EmptySeq
<1> DEFINE b == IF prefixParameterOnce[m] THEN <<XPS(m)>> ELSE <<>>
           n == IF prefixParameterOnce[m] THEN XPSSize ELSE 0
<1>3. b \in Seq(Item) /\ n \in Nat
  BY <1>2, SizesAssumption
<1>4. /\ buf' = [buf EXCEPT ![m] = b] /\ size' = [size EXCEPT ![m] = n]
      /\ prefixParameterOnce' = [prefixParameterOnce EXCEPT ![m] = FALSE]
      /\ pc' = [pc EXCEPT ![m] = "fetch"]
      /\ UNCHANGED <<frameType, VideoBuffer, SizeTmp, StartFlag, EndFlag, units,
                     left, net, late, dead, out, faults>>
  BY DEF GetMediaData
<1> HIDE DEF b, n
<1>5. Types' BY <1>3, <1>4 DEF TypeInv, Types
<1>6. Queued' /\ Sending' BY <1>4 DEF TypeInv, Queued, InFlight, Sending
<1>7. Held' BY <1>4 DEF TypeInv, Types, Held
<1> QED BY <1>5, <1>6, <1>7 DEF TypeInv

\* The end of a call, with or without a result.
LEMMA TypeReturn ==
    ASSUME TypeInv, NEW m \in Medias, NEW r \in Seq(Item), Return(m, r) \/ ReturnNULL(m)
    PROVE  /\ pc' \in [Medias -> {"idle", "fetch", "parse", "copy"}]
           /\ SizeTmp' \in [Medias -> Nat]
           /\ StartFlag' \in [Medias -> BOOLEAN] /\ EndFlag' \in [Medias -> BOOLEAN]
           /\ buf' \in [Medias -> Seq(Item)] /\ out' \in [Medias -> Seq(Seq(Item))]
           /\ pc'[m] = "idle" /\ \A n \in Medias : n # m => pc'[n] = pc[n]
<1>1. <<>> \in Seq(Item) BY EmptySeq
<1>2. Leave(m) BY DEF Return, ReturnNULL
<1>3. /\ pc' \in [Medias -> {"idle", "fetch", "parse", "copy"}]
      /\ SizeTmp' \in [Medias -> Nat]
      /\ StartFlag' \in [Medias -> BOOLEAN] /\ EndFlag' \in [Medias -> BOOLEAN]
      /\ pc'[m] = "idle" /\ \A n \in Medias : n # m => pc'[n] = pc[n]
  BY <1>2 DEF Leave, TypeInv, Types
<1>4. buf' \in [Medias -> Seq(Item)]
  BY <1>1, <1>2 DEF Leave, TypeInv, Types
<1>5. out' \in [Medias -> Seq(Seq(Item))]
  <2>1. out \in [Medias -> Seq(Seq(Item))] /\ out[m] \in Seq(Seq(Item))
    BY DEF TypeInv, Types
  <2>2. Append(out[m], r) \in Seq(Seq(Item))
    BY <2>1, AppendProperties
  <2>3. out' = out \/ out' = [out EXCEPT ![m] = Append(out[m], r)]
    BY DEF Return, ReturnNULL
  <2> QED BY <2>1, <2>2, <2>3
<1> QED BY <1>3, <1>4, <1>5

\* Fetch moves the head of the queue into VideoBuffer.
LEMMA FetchEffect ==
    ASSUME TypeInv, NEW m \in Medias, Fetch(m)
    PROVE  /\ VideoBuffer' = Head(net[m]) /\ Head(net[m]) \in Packet
           /\ InFlight(m, Head(net[m])) /\ Head(net[m]).size \in Nat
           /\ net' \in [Medias -> Seq(Packet)] /\ net'[m] = Tail(net[m])
           /\ \A n \in Medias : n # m => net'[n] = net[n]
           /\ Queued'
<1>1. /\ net \in [Medias -> Seq(Packet)] /\ net[m] \in Seq(Packet) /\ net[m] # <<>>
      /\ VideoBuffer' = Head(net[m]) /\ net' = [net EXCEPT ![m] = Tail(net[m])]
      /\ UNCHANGED <<units, late>>
  BY DEF TypeInv, Types, Fetch
<1> DEFINE t == Tail(net[m])
<1>2. /\ Head(net[m]) \in Packet /\ t \in Seq(Packet)
      /\ Len(t) = Len(net[m]) - 1
      /\ \A i \in 1 .. Len(t) : t[i] = net[m][i + 1]
      /\ Len(net[m]) \in Nat \ {0} /\ Head(net[m]) = net[m][1]
  BY <1>1, HeadTailProperties, EmptySeq
<1>3. Head(net[m]).size \in Nat
  BY <1>2 DEF Packet
<1>4. InFlight(m, Head(net[m]))
  BY <1>2 DEF TypeInv, Queued
<1> HIDE DEF t
<1>5. \A j \in 1 .. Len(t) : InFlight(m, t[j])
  BY <1>2 DEF TypeInv, Queued
<1>6. /\ net' \in [Medias -> Seq(Packet)] /\ net'[m] = t
      /\ \A n \in Medias : n # m => net'[n] = net[n]
  BY <1>1, <1>2 DEF t
<1>7. Queued'
  BY <1>1, <1>5, <1>6 DEF TypeInv, Queued, InFlight
<1> QED BY <1>1, <1>2, <1>3, <1>4, <1>6, <1>7 DEF t

LEMMA TypeStep ==
    ASSUME TypeInv, NEW m \in Medias, Step(m)
    PROVE  TypeInv'
<1>1. /\ faults \in [Medias -> Nat] /\ size \in [Medias -> Nat]
      /\ pc \in [Medias -> {"idle", "fetch", "parse", "copy"}]
      /\ buf[m] \in Seq(Item) /\ StartFlag[m] \in BOOLEAN /\ EndFlag[m] \in BOOLEAN
      /\ SizeTmp[m] \in Nat
      /\ frameType[m] \in FrameType
  BY StreamsAssumption DEF TypeInv, Types
<1>2. CASE NoData(m)
  <2>1. faults' \in [Medias -> Nat] BY <1>1, <1>2 DEF NoData
  <2>2. ReturnNULL(m) BY <1>2 DEF NoData
  <2>3. Types'
    BY <1>1, <1>2, <2>1, <2>2, TypeReturn DEF NoData, TypeInv, Types
  <2>4. Queued' /\ Sending' BY <1>2 DEF NoData, TypeInv, Queued, InFlight, Sending
  <2>5. Held' BY <1>1, <1>2, <2>2, TypeReturn DEF NoData, TypeInv, Held
  <2> QED BY <2>3, <2>4, <2>5 DEF TypeInv
<1>3. CASE ParsePacketError(m)
  <2>1. faults' \in [Medias -> Nat] BY <1>1, <1>3 DEF ParsePacketError
  <2>2. ReturnNULL(m) BY <1>3 DEF ParsePacketError
  <2>3. Types'
    BY <1>1, <1>3, <2>1, <2>2, TypeReturn DEF ParsePacketError, TypeInv, Types
  <2>4. Queued' /\ Sending'
    BY <1>3 DEF ParsePacketError, TypeInv, Queued, InFlight, Sending
  <2>5. Held' BY <1>1, <1>3, <2>2, TypeReturn DEF ParsePacketError, TypeInv, Held
  <2> QED BY <2>3, <2>4, <2>5 DEF TypeInv
<1>4. CASE FetchFits(m)
  <2>1. Fetch(m) BY <1>4 DEF FetchFits
  <2>2. /\ VideoBuffer' \in Packet /\ net' \in [Medias -> Seq(Packet)] /\ Queued'
        /\ Head(net[m]).size \in Nat
    BY <2>1, FetchEffect
  <2>3. Types' BY <1>4, <2>1, <2>2 DEF FetchFits, Fetch, TypeInv, Types
  <2>4. Sending' BY <2>1 DEF Fetch, TypeInv, Sending
  <2> QED BY <2>2, <2>3, <2>4 DEF TypeInv, Held
<1>5. CASE FetchTruncated(m) \/ FetchEmpty(m) \/ FetchTooLarge(m)
  <2>1. Fetch(m) /\ (Return(m, buf[m]) \/ ReturnNULL(m)) /\ dead' \in BOOLEAN
    BY <1>5 DEF FetchTruncated, FetchEmpty, FetchTooLarge, TypeInv, Types
  <2>2. VideoBuffer' \in Packet /\ net' \in [Medias -> Seq(Packet)] /\ Queued'
    BY <2>1, FetchEffect
  <2>3. faults' \in [Medias -> Nat]
    BY <1>1, <1>5 DEF FetchTruncated, FetchEmpty, FetchTooLarge
  <2>4. Types'
    BY <1>1, <2>1, <2>2, <2>3, TypeReturn DEF Fetch, TypeInv, Types
  <2>5. Sending' BY <2>1 DEF Fetch, TypeInv, Sending
  <2> QED BY <2>2, <2>4, <2>5 DEF TypeInv, Held
<1>6. CASE ParsePacket(m)
  <2>1. VideoBuffer \in Packet BY <1>6 DEF ParsePacket, TypeInv, Held
  <2>2. \A flags \in Parsed(m, VideoBuffer) \ {<<>>} :
           flags[1] \in BOOLEAN /\ flags[2] \in BOOLEAN
    <3> DEFINE x == IsPacketStart(VideoBuffer)
               y == IsPacketEnd(VideoBuffer)
    <3>1. x \in BOOLEAN /\ y \in BOOLEAN BY DEF IsPacketStart, IsPacketEnd
    <3>2. Parsed(m, VideoBuffer) \ {<<>>} \subseteq (BOOLEAN \X BOOLEAN) \cup {<<x, y>>}
      BY DEF Parsed
    <3> HIDE DEF x, y
    <3>3. <<x, y>> \in BOOLEAN \X BOOLEAN BY <3>1
    <3> QED BY <3>2, <3>3
  <2>3. StartFlag' \in [Medias -> BOOLEAN] /\ EndFlag' \in [Medias -> BOOLEAN]
    BY <1>6, <2>2 DEF ParsePacket, TypeInv, Types
  <2>4. Types' BY <1>6, <2>3 DEF ParsePacket, TypeInv, Types
  <2>5. Queued' /\ Sending'
    BY <1>6 DEF ParsePacket, TypeInv, Queued, InFlight, Sending
  <2>6. Held' BY <1>6, <2>1 DEF ParsePacket, Held
  <2> QED BY <2>4, <2>5, <2>6 DEF TypeInv
<1>7. CASE CopyData(m) \/ CopyDataRunsOff(m)
  <2>0. Copy(m) BY <1>7 DEF CopyData, CopyDataRunsOff
  <2>1. VideoBuffer \in Packet BY <2>0 DEF Copy, TypeInv, Held
  <2> DEFINE c == CopySize(frameType[m], VideoBuffer, StartFlag[m], SizeTmp[m])
  <2>2. c \in Nat BY <1>1, <2>1, CopySizeType
  <2>3. Copied(m) \in Seq(Item)
    BY <1>1, <2>1, CopyItemsType, ConcatProperties DEF Copied
  <2>4. size' = [size EXCEPT ![m] = size[m] + c] BY <2>0 DEF Copy
  <2> HIDE DEF c
  <2>5. size' \in [Medias -> Nat] BY <1>1, <2>2, <2>4
  <2>6. Queued' /\ Sending' BY <2>0 DEF Copy, TypeInv, Queued, InFlight, Sending
  <2>7. Held'
    <3>1. VideoBuffer' \in Packet BY <2>0, <2>1 DEF Copy
    <3> QED BY <3>1 DEF Held
  <2>8. dead' \in BOOLEAN /\ faults' \in [Medias -> Nat]
    <3>1. dead \in BOOLEAN BY DEF TypeInv, Types
    <3>2. dead' = dead \/ dead' = TRUE BY <1>7 DEF CopyData, CopyDataRunsOff
    <3>3. dead' \in BOOLEAN
      <4>1. CASE dead' = dead BY <3>1, <4>1
      <4>2. CASE dead' = TRUE BY <4>2, Zenon
      <4> QED BY <3>2, <4>1, <4>2
    <3>4. faults' = faults \/ faults' = [faults EXCEPT ![m] = faults[m] + 1]
      BY <1>7 DEF CopyData, CopyDataRunsOff
    <3>5. faults' \in [Medias -> Nat]
      <4> DEFINE f == faults[m] + 1
      <4>1. f \in Nat BY <1>1
      <4>2. faults' = faults \/ faults' = [faults EXCEPT ![m] = f] BY <3>4
      <4> HIDE DEF f
      <4> QED BY <1>1, <4>1, <4>2
    <3> QED BY <3>3, <3>5
  <2>9. CASE Return(m, Copied(m)) \/ ReturnNULL(m)
    <3>1. Types'
      BY <2>0, <2>3, <2>5, <2>8, <2>9, TypeReturn DEF Copy, TypeInv, Types
    <3> QED BY <2>6, <2>7, <3>1 DEF TypeInv
  <2>10. CASE /\ pc' = [pc EXCEPT ![m] = "fetch"] /\ buf' = [buf EXCEPT ![m] = Copied(m)]
              /\ UNCHANGED <<SizeTmp, StartFlag, EndFlag, out>>
    <3>1. Types'
      BY <2>0, <2>3, <2>5, <2>8, <2>10 DEF Copy, TypeInv, Types
    <3> QED BY <2>6, <2>7, <3>1 DEF TypeInv
  <2> QED BY <1>7, <2>9, <2>10 DEF CopyData, CopyDataRunsOff
<1> QED BY <1>2, <1>3, <1>4, <1>5, <1>6, <1>7 DEF Step

LEMMA TypeInit == Init => TypeInv
<1> SUFFICES ASSUME Init PROVE TypeInv
  OBVIOUS
<1>0. dead \in BOOLEAN BY Zenon DEF Init
<1>1. Types BY <1>0, EmptySeq DEF Init, Types
<1>2. Queued BY DEF Init, Queued
<1>3. Sending BY DEF Init, Sending
<1>4. Held BY DEF Init, Held
<1> QED BY <1>1, <1>2, <1>3, <1>4 DEF TypeInv

LEMMA TypeNext == TypeInv /\ [Next]_vars => TypeInv'
<1>1. TypeInv /\ UNCHANGED vars => TypeInv'
  BY DEF vars, TypeInv, Types, Queued, InFlight, Sending, Held
<1> QED BY <1>1, TypeEnvironment, TypeCall, TypeStep DEF Next

LEMMA TypeAlways == Spec => []TypeInv
BY TypeInit, TypeNext, PTL DEF Spec

\* GetMediaData, the server and the network keep their types, and every packet
\* in the queue of a media is one of its own units.
THEOREM MediaTypeOK == Spec => []TypeOK
<1>1. TypeInv => TypeOK
  BY DEF TypeInv, Types, Queued, InFlight, TypeOK
<1> QED BY <1>1, TypeAlways, PTL

-----------------------------------------------------------------------------
(* What is returned *)

\* Copied keeps buf and adds items of the packet in VideoBuffer.
LEMMA CopiedItems ==
    ASSUME TypeInv, NEW m \in Medias, pc[m] = "copy"
    PROVE  /\ Copied(m) \in Seq(Item)
           /\ \A j \in 1 .. Len(Copied(m)) :
                 \/ j \in 1 .. Len(buf[m]) /\ Copied(m)[j] = buf[m][j]
                 \/ Copied(m)[j] \in {<<VideoBuffer.media, VideoBuffer.unit, 0>>,
                                      <<VideoBuffer.media, VideoBuffer.unit, VideoBuffer.i>>}
<1> DEFINE c == CopyItems(frameType[m], VideoBuffer, StartFlag[m])
           I == {<<VideoBuffer.media, VideoBuffer.unit, 0>>,
                 <<VideoBuffer.media, VideoBuffer.unit, VideoBuffer.i>>}
           b == buf[m]
           r == b \o c
<1>1. VideoBuffer \in Packet /\ b \in Seq(Item) /\ StartFlag[m] \in BOOLEAN
      /\ frameType[m] \in FrameType
  BY StreamsAssumption DEF TypeInv, Types, Held
<1>2. c \in Seq(Item) /\ \A j \in 1 .. Len(c) : c[j] \in I
  BY <1>1, CopyItemsType
<1> HIDE DEF c, I, b
<1>3. /\ r \in Seq(Item) /\ Len(r) = Len(b) + Len(c)
      /\ \A j \in 1 .. Len(b) + Len(c) : r[j] = IF j <= Len(b) THEN b[j] ELSE c[j - Len(b)]
  BY <1>1, <1>2, ConcatProperties
<1>4. Len(b) \in Nat /\ Len(c) \in Nat
  BY <1>1, <1>2, LenProperties
<1> HIDE DEF r
<1>5. ASSUME NEW j \in 1 .. Len(r)
      PROVE  (j \in 1 .. Len(b) /\ r[j] = b[j]) \/ r[j] \in I
  <2>1. CASE j <= Len(b) BY <1>3, <1>4, <2>1
  <2>2. CASE ~(j <= Len(b))
    <3>1. j - Len(b) \in 1 .. Len(c) /\ r[j] = c[j - Len(b)]
      BY <1>3, <1>4, <2>2
    <3> QED BY <3>1, <1>2
  <2> QED BY <2>1, <2>2
<1>6. Copied(m) = r BY DEF Copied, r, b, c
<1> QED BY <1>3, <1>5, <1>6 DEF b, I

\* A step of a call works on its own buf and returns it at most once.
LEMMA StepEffect ==
    ASSUME TypeInv, NEW m \in Medias, Step(m)
    PROVE  /\ pc[m] # "idle" /\ UNCHANGED <<frameType, prefixParameterOnce, units, left>>
           /\ \A n \in Medias : n # m => /\ buf'[n] = buf[n] /\ out'[n] = out[n]
                                          /\ pc'[n] = pc[n]
           /\ \E r \in Seq(Item) :
                 /\ r = buf[m] \/ (pc[m] = "copy" /\ r = Copied(m))
                 /\ \/ buf'[m] = <<>> /\ out'[m] \in {out[m], Append(out[m], r)}
                    \/ buf'[m] = r /\ out'[m] = out[m]
<1>1. /\ buf \in [Medias -> Seq(Item)] /\ out \in [Medias -> Seq(Seq(Item))]
      /\ pc \in [Medias -> {"idle", "fetch", "parse", "copy"}] /\ buf[m] \in Seq(Item)
  BY DEF TypeInv, Types
<1>2. ASSUME NEW r \in Seq(Item), r = buf[m] \/ (pc[m] = "copy" /\ r = Copied(m)),
             \/ Return(m, r) \/ ReturnNULL(m)
             \/ /\ pc' = [pc EXCEPT ![m] = "fetch"] /\ UNCHANGED out
                /\ buf' = [buf EXCEPT ![m] = r]
      PROVE  /\ \A n \in Medias : n # m => /\ buf'[n] = buf[n] /\ out'[n] = out[n]
                                           /\ pc'[n] = pc[n]
             /\ \/ buf'[m] = <<>> /\ out'[m] \in {out[m], Append(out[m], r)}
                \/ buf'[m] = r /\ out'[m] = out[m]
  BY <1>1, <1>2 DEF Return, ReturnNULL, Leave
<1>3. CASE \/ NoData(m) \/ ParsePacketError(m) \/ FetchTruncated(m) \/ FetchEmpty(m)
           \/ FetchTooLarge(m) \/ CopyDataRunsOff(m)
  <2>1. /\ Return(m, buf[m]) \/ ReturnNULL(m)
        /\ pc[m] # "idle" /\ UNCHANGED <<frameType, prefixParameterOnce, units, left>>
    BY <1>3 DEF NoData, ParsePacketError, FetchTruncated, FetchEmpty, FetchTooLarge, Fetch,
                CopyDataRunsOff, Copy
  <2> QED BY <1>1, <1>2, <2>1
<1>4. CASE FetchFits(m) \/ ParsePacket(m)
  <2>1. /\ \A n \in Medias : n # m => pc'[n] = pc[n]
        /\ UNCHANGED <<buf, out, frameType, prefixParameterOnce, units, left>>
        /\ pc[m] # "idle"
    BY <1>1, <1>4 DEF FetchFits, Fetch, ParsePacket
  <2> QED BY <1>1, <2>1
<1>5. CASE CopyData(m)
  <2>1. pc[m] = "copy" /\ UNCHANGED <<frameType, prefixParameterOnce, units, left>>
    BY <1>5 DEF CopyData, Copy
  <2>2. Copied(m) \in Seq(Item) BY <2>1, CopiedItems
  <2>3. \/ Return(m, Copied(m))
        \/ /\ pc' = [pc EXCEPT ![m] = "fetch"] /\ UNCHANGED out
           /\ buf' = [buf EXCEPT ![m] = Copied(m)]
    BY <1>5 DEF CopyData
  <2> QED BY <1>2, <2>1, <2>2, <2>3
<1> QED BY <1>3, <1>4, <1>5 DEF Step

\* A result is appended behind those returned before.
LEMMA Appended ==
    ASSUME NEW S, NEW o \in Seq(S), NEW r \in S, NEW q, q = o \/ q = Append(o, r)
    PROVE  /\ q \in Seq(S)
           /\ \A k \in 1 .. Len(q) :
                 (k \in 1 .. Len(o) /\ q[k] = o[k]) \/ (k = Len(o) + 1 /\ q[k] = r)
<1>1. Len(o) \in Nat BY LenProperties
<1>2. q \in Seq(S) BY AppendProperties
<1>3. ASSUME NEW k \in 1 .. Len(q)
      PROVE  (k \in 1 .. Len(o) /\ q[k] = o[k]) \/ (k = Len(o) + 1 /\ q[k] = r)
  <2>1. CASE q = o BY <2>1
  <2>2. CASE q = Append(o, r)
    <3>1. /\ Len(q) = Len(o) + 1 /\ q[Len(o) + 1] = r
          /\ \A l \in 1 .. Len(o) : q[l] = o[l]
      BY <2>2, AppendProperties
    <3>2. CASE k = Len(o) + 1 BY <3>1, <3>2
    <3>3. CASE k # Len(o) + 1 
      <4>1. k \in 1 .. Len(o) BY <1>1, <3>1, <3>3
      <4> QED BY <3>1, <4>1
    <3> QED BY <3>2, <3>3
  <2> QED BY <2>1, <2>2
<1> QED BY <1>2, <1>3

\* The parameter sets are in a call with contents b only if nothing was
\* returned before (o), and in the first result only.
XPSFirst(m, b, o) ==
    /\ \A j \in 1 .. Len(b) : b[j] = XPS(m) => j = 1 /\ o = <<>>
    /\ \A k \in 1 .. Len(o) : \A j \in 1 .. Len(o[k]) :
          o[k][j] = XPS(m) => j = 1 /\ k = 1
XPSInv ==
    \A m \in Medias :
        /\ prefixParameterOnce[m] => pc[m] = "idle" /\ out[m] = <<>>
        /\ XPSFirst(m, buf[m], out[m])

LEMMA XPSStep ==
    ASSUME TypeInv, XPSInv, NEW m \in Medias, Step(m)
    PROVE  XPSInv'
<1>1. /\ pc[m] # "idle" /\ UNCHANGED prefixParameterOnce
      /\ \A n \in Medias : n # m => /\ buf'[n] = buf[n] /\ out'[n] = out[n]
                                     /\ pc'[n] = pc[n]
  BY StepEffect
<1>2. PICK r \in Seq(Item) :
         /\ r = buf[m] \/ (pc[m] = "copy" /\ r = Copied(m))
         /\ \/ buf'[m] = <<>> /\ out'[m] \in {out[m], Append(out[m], r)}
            \/ buf'[m] = r /\ out'[m] = out[m]
  BY StepEffect
<1>3. \A j \in 1 .. Len(r) : r[j] = XPS(m) => j = 1 /\ out[m] = <<>>
  <2>1. CASE r = buf[m] BY <2>1 DEF XPSInv, XPSFirst
  <2>2. CASE pc[m] = "copy" /\ r = Copied(m)
    <3>1. VideoBuffer \in Packet BY <2>2 DEF TypeInv, Held
    <3>2. VideoBuffer.unit # 0 BY <3>1 DEF Packet
    <3>3. XPS(m) \notin {<<VideoBuffer.media, VideoBuffer.unit, 0>>,
                        <<VideoBuffer.media, VideoBuffer.unit, VideoBuffer.i>>}
      BY <3>2 DEF XPS
    <3> QED BY <2>2, <3>3, CopiedItems DEF XPSInv, XPSFirst
  <2> QED BY <1>2, <2>1, <2>2
<1>4. out[m] \in Seq(Seq(Item)) /\ Len(out[m]) \in Nat /\ (out[m] = <<>> => Len(out[m]) = 0)
  BY LenProperties, EmptySeq DEF TypeInv, Types
<1>5. ~prefixParameterOnce[m] BY <1>1 DEF XPSInv
<1> DEFINE q == out'[m]
<1>6. q = out[m] \/ q = Append(out[m], r) BY <1>2
<1> DEFINE S == Seq(Item)
<1> HIDE DEF q, S
<1>7. ASSUME NEW k \in 1 .. Len(q), NEW j \in 1 .. Len(q[k]), q[k][j] = XPS(m)
      PROVE  j = 1 /\ k = 1
  <2>1. \/ k \in 1 .. Len(out[m]) /\ q[k] = out[m][k]
        \/ k = Len(out[m]) + 1 /\ q[k] = r
    <3>1. out[m] \in Seq(S) /\ r \in S BY <1>4 DEF S
    <3> QED BY <1>6, <3>1, Appended, SMTT(30)
  <2>2. CASE k \in 1 .. Len(out[m]) /\ q[k] = out[m][k]
    BY <1>7, <2>2 DEF XPSInv, XPSFirst
  <2>3. CASE k = Len(out[m]) + 1 /\ q[k] = r
    BY <1>3, <1>4, <1>7, <2>3
  <2> QED BY <2>1, <2>2, <2>3
<1>8. \A j \in 1 .. Len(buf'[m]) : buf'[m][j] = XPS(m) => j = 1 /\ q = <<>>
  <2>1. CASE buf'[m] = <<>> BY <2>1
  <2>2. CASE buf'[m] = r /\ out'[m] = out[m] BY <2>2, <1>3 DEF q
  <2> QED BY <1>2, <2>1, <2>2
<1>9. XPSFirst(m, buf'[m], out'[m])
  <2>1. q = out'[m] BY DEF q
  <2> QED BY <2>1, <1>7, <1>8 DEF XPSFirst
<1>10. ASSUME NEW n \in Medias
       PROVE  /\ prefixParameterOnce'[n] => pc'[n] = "idle" /\ out'[n] = <<>>
              /\ XPSFirst(n, buf'[n], out'[n])
  <2>1. CASE n = m BY <2>1, <1>1, <1>5, <1>9
  <2>2. CASE n # m BY <2>2, <1>1 DEF XPSInv
  <2> QED BY <2>1, <2>2
<1> QED BY <1>10 DEF XPSInv

LEMMA XPSNext == TypeInv /\ XPSInv /\ [Next]_vars => XPSInv'
<1> SUFFICES ASSUME TypeInv, XPSInv, [Next]_vars PROVE XPSInv'
  OBVIOUS
<1>1. ASSUME NEW m \in Medias, Environment(m) PROVE XPSInv'
  <2>1. UNCHANGED <<prefixParameterOnce, pc, buf, out>>
    BY <1>1 DEF Environment, Arrive, Lose, Delay, Duplicate, SendPacket, ArriveLate
  <2> QED BY <2>1 DEF XPSInv
<1>2. ASSUME NEW m \in Medias, GetMediaData(m) PROVE XPSInv'
  <2>1. /\ prefixParameterOnce' = [prefixParameterOnce EXCEPT ![m] = FALSE]
        /\ pc' = [pc EXCEPT ![m] = "fetch"] /\ UNCHANGED out
        /\ buf' = [buf EXCEPT ![m] = IF prefixParameterOnce[m] THEN <<XPS(m)>> ELSE <<>>]
    BY <1>2 DEF GetMediaData
  <2>2. /\ prefixParameterOnce \in [Medias -> BOOLEAN] /\ buf \in [Medias -> Seq(Item)]
        /\ pc \in [Medias -> {"idle", "fetch", "parse", "copy"}]
    BY DEF TypeInv, Types
  <2>3. ASSUME NEW n \in Medias, n # m
        PROVE  /\ prefixParameterOnce'[n] = prefixParameterOnce[n] /\ pc'[n] = pc[n]
               /\ buf'[n] = buf[n]
    BY <2>1, <2>2, <2>3
  <2>4. ~prefixParameterOnce'[m] BY <2>1, <2>2
  <2>5. XPSFirst(m, buf'[m], out[m])
    <3>1. CASE prefixParameterOnce[m]
      <4> DEFINE b == <<XPS(m)>>
      <4>1. buf'[m] = b /\ out[m] = <<>> BY <2>1, <2>2, <3>1 DEF XPSInv
      <4>2. \A j \in 1 .. Len(b) : j = 1 OBVIOUS
      <4>3. \A k \in 1 .. Len(out[m]) : FALSE BY <4>1
      <4> HIDE DEF b
      <4>4. XPSFirst(m, b, out[m]) BY <4>1, <4>2, <4>3 DEF XPSFirst
      <4> QED BY <4>1, <4>4
    <3>2. CASE ~prefixParameterOnce[m]
      <4>1. buf'[m] = <<>> BY <2>1, <2>2, <3>2
      <4>2. XPSFirst(m, buf[m], out[m]) BY DEF XPSInv
      <4>3. \A j \in 1 .. Len(<<>>) : FALSE OBVIOUS
      <4>4. XPSFirst(m, <<>>, out[m]) BY <4>2, <4>3 DEF XPSFirst
      <4> QED BY <4>1, <4>4
    <3> QED BY <3>1, <3>2
  <2> QED BY <2>1, <2>3, <2>4, <2>5 DEF XPSInv
<1>3. CASE UNCHANGED vars
  BY <1>3 DEF vars, XPSInv
<1> QED BY <1>1, <1>2, <1>3, XPSStep DEF Next

\* PrefixParameterOnce: SPS and PPS (and VPS) come at most once, at the very
\* beginning of what GetMediaData returns.
THEOREM MediaParametersOnce == Spec => []ParametersOnce
<1>1. Init => XPSInv
  BY DEF Init, XPSInv, XPSFirst
<1>2. XPSInv => ParametersOnce
  <2> SUFFICES ASSUME XPSInv, NEW m \in Medias, NEW k \in 1 .. Len(out[m]),
                      NEW j \in 1 .. Len(out[m][k]), out[m][k][j] = XPS(m)
               PROVE  j = 1 /\ \A l \in 1 .. k - 1 : out[m][l] = <<>>
    BY DEF ParametersOnce
  <2>1. j = 1 /\ k = 1 BY DEF XPSInv, XPSFirst
  <2> QED BY <2>1
<1> QED BY <1>1, <1>2, XPSNext, TypeAlways, PTL DEF Spec

-----------------------------------------------------------------------------
(* One thread *)

SingleThread == \A m, n \in Medias : Thread[m] = Thread[n]

\* Contents b and results o of a call of media m are its own.
OwnItems(m, b, o) ==
    /\ \A j \in 1 .. Len(b) : b[j][1] = m
    /\ \A k \in 1 .. Len(o) : \A j \in 1 .. Len(o[k]) : o[k][j][1] = m
\* One call at a time, and VideoBuffer holds a packet of its media.
Alone == \A m, n \in Medias : pc[m] # "idle" /\ pc[n] # "idle" => m = n
OwnBuffer ==
    \A m \in Medias : pc[m] \in {"parse", "copy"} =>
        InFlight(m, VideoBuffer) /\ SizeTmp[m] = VideoBuffer.size
OwnInv == Alone /\ OwnBuffer /\ \A m \in Medias : OwnItems(m, buf[m], out[m])

LEMMA OwnStep ==
    ASSUME TypeInv, OwnInv, NEW m \in Medias, Step(m)
    PROVE  OwnInv'
<1>1. /\ pc[m] # "idle" /\ UNCHANGED units
      /\ \A n \in Medias : n # m => /\ buf'[n] = buf[n] /\ out'[n] = out[n]
                                     /\ pc'[n] = pc[n]
  BY StepEffect
<1>2. PICK r \in Seq(Item) :
         /\ r = buf[m] \/ (pc[m] = "copy" /\ r = Copied(m))
         /\ \/ buf'[m] = <<>> /\ out'[m] \in {out[m], Append(out[m], r)}
            \/ buf'[m] = r /\ out'[m] = out[m]
  BY StepEffect
<1>3. \A n \in Medias : n # m => pc[n] = "idle" /\ pc'[n] = "idle"
  BY <1>1 DEF OwnInv, Alone
<1>4. Alone' BY <1>3 DEF Alone
<1>5. OwnBuffer'
  <2>1. pc'[m] \in {"parse", "copy"} =>
           InFlight(m, VideoBuffer') /\ SizeTmp'[m] = VideoBuffer'.size
    <3>1. CASE \/ NoData(m) \/ ParsePacketError(m) \/ FetchTruncated(m) \/ FetchEmpty(m)
               \/ FetchTooLarge(m) \/ CopyDataRunsOff(m)
      <4>1. Leave(m)
        BY <3>1 DEF NoData, ParsePacketError, FetchTruncated, FetchEmpty, FetchTooLarge,
                    CopyDataRunsOff, Return, ReturnNULL
      <4> QED BY <4>1 DEF Leave, TypeInv, Types
    <3>2. CASE FetchFits(m)
      <4>1. InFlight(m, VideoBuffer') /\ VideoBuffer' = Head(net[m])
        BY <3>2, FetchEffect DEF FetchFits
      <4>2. SizeTmp'[m] = Head(net[m]).size BY <3>2 DEF FetchFits, TypeInv, Types
      <4> QED BY <4>1, <4>2
    <3>3. CASE ParsePacket(m)
      BY <3>3 DEF ParsePacket, OwnInv, OwnBuffer
    <3>4. CASE CopyData(m)
      BY <3>4 DEF CopyData, Copy, Return, Leave, TypeInv, Types
    <3> QED BY <3>1, <3>2, <3>3, <3>4 DEF Step
  <2> QED BY <1>1, <1>3, <2>1 DEF OwnBuffer, InFlight
<1>6. \A j \in 1 .. Len(r) : r[j][1] = m
  <2>1. CASE r = buf[m] BY <2>1 DEF OwnInv, OwnItems
  <2>2. CASE pc[m] = "copy" /\ r = Copied(m)
    <3>1. VideoBuffer.media = m BY <2>2 DEF OwnInv, OwnBuffer, InFlight
    <3>2. <<VideoBuffer.media, VideoBuffer.unit, 0>>[1] = m
          /\ <<VideoBuffer.media, VideoBuffer.unit, VideoBuffer.i>>[1] = m
      BY <3>1
    <3> QED BY <2>2, <3>2, CopiedItems DEF OwnInv, OwnItems
  <2> QED BY <1>2, <2>1, <2>2
<1> DEFINE q == out'[m]
           S == Seq(Item)
<1>7. q = out[m] \/ q = Append(out[m], r) BY <1>2
<1>8. out[m] \in Seq(S) /\ r \in S BY DEF TypeInv, Types
<1> HIDE DEF q, S
<1>9. ASSUME NEW k \in 1 .. Len(q), NEW j \in 1 .. Len(q[k])
      PROVE  q[k][j][1] = m
  <2>1. (k \in 1 .. Len(out[m]) /\ q[k] = out[m][k]) \/ (k = Len(out[m]) + 1 /\ q[k] = r)
    BY <1>7, <1>8, Appended, SMTT(30)
  <2>2. CASE q[k] = r BY <2>2, <1>6
  <2>3. CASE k \in 1 .. Len(out[m]) /\ q[k] = out[m][k]
    <3>1. j \in 1 .. Len(out[m][k]) BY <2>3
    <3>2. OwnItems(m, buf[m], out[m]) BY DEF OwnInv
    <3> QED BY <2>3, <3>1, <3>2 DEF OwnItems
  <2> QED BY <2>1, <2>2, <2>3
<1>10. OwnItems(m, buf'[m], out'[m])
  <2>1. \A j \in 1 .. Len(buf'[m]) : buf'[m][j][1] = m BY <1>2, <1>6
  <2> QED BY <2>1, <1>9 DEF OwnItems, q
<1>11. ASSUME NEW n \in Medias PROVE OwnItems(n, buf'[n], out'[n])
  <2>1. CASE n = m BY <2>1, <1>10
  <2>2. CASE n # m BY <2>2, <1>1 DEF OwnInv
  <2> QED BY <2>1, <2>2
<1> QED BY <1>4, <1>5, <1>11 DEF OwnInv

LEMMA OwnNext == ASSUME SingleThread PROVE TypeInv /\ OwnInv /\ [Next]_vars => OwnInv'
<1> SUFFICES ASSUME TypeInv, OwnInv, [Next]_vars PROVE OwnInv'
  OBVIOUS
<1>1. ASSUME NEW m \in Medias, Environment(m) PROVE OwnInv'
  <2>1. UNCHANGED <<VideoBuffer, SizeTmp, pc, buf, out>>
    BY <1>1 DEF Environment, Arrive, Lose, Delay, Duplicate, SendPacket, ArriveLate
  <2>2. \A n \in Medias : /\ Len(units[n]) \in Nat /\ Len(units'[n]) \in Nat
                           /\ Len(units[n]) <= Len(units'[n])
                           /\ \A u \in 1 .. Len(units[n]) : units'[n][u] = units[n][u]
    <3>1. ASSUME NEW s \in Shapes[m], SendPacket(m, s)
          PROVE  \A n \in Medias : /\ Len(units[n]) \in Nat /\ Len(units'[n]) \in Nat
                                    /\ Len(units[n]) <= Len(units'[n])
                                    /\ \A u \in 1 .. Len(units[n]) : units'[n][u] = units[n][u]
      BY <3>1, SendEffect, LenProperties
    <3>2. CASE ArriveLate(m)
      BY <3>2, LenProperties DEF ArriveLate, TypeInv, Types
    <3> QED BY <1>1, <3>1, <3>2 DEF Environment, Arrive, Lose, Delay, Duplicate
  <2>3. \A n \in Medias : InFlight(n, VideoBuffer) =>
           /\ VideoBuffer.media = n /\ VideoBuffer.unit \in 1 .. Len(units'[n])
           /\ VideoBuffer.nt = units'[n][VideoBuffer.unit].nt
           /\ VideoBuffer.size = units'[n][VideoBuffer.unit].size
    BY <2>2 DEF InFlight
  <2>4. OwnBuffer' BY <2>1, <2>3 DEF OwnInv, OwnBuffer, InFlight
  <2> QED BY <2>1, <2>4 DEF OwnInv, Alone
<1>2. ASSUME NEW m \in Medias, GetMediaData(m) PROVE OwnInv'
  <2>1. /\ pc' = [pc EXCEPT ![m] = "fetch"] /\ UNCHANGED <<out, VideoBuffer, SizeTmp, units>>
        /\ buf' = [buf EXCEPT ![m] = IF prefixParameterOnce[m] THEN <<XPS(m)>> ELSE <<>>]
        /\ ~Busy(Thread[m])
    BY <1>2 DEF GetMediaData
  <2>2. /\ buf \in [Medias -> Seq(Item)]
        /\ pc \in [Medias -> {"idle", "fetch", "parse", "copy"}]
    BY DEF TypeInv, Types
  <2>3. \A n \in Medias : pc[n] = "idle" BY <2>1 DEF Busy, SingleThread
  <2>4. Alone' BY <2>1, <2>2, <2>3 DEF Alone
  <2>5. OwnBuffer' BY <2>1, <2>2, <2>3 DEF OwnBuffer
  <2>6. \A j \in 1 .. Len(buf'[m]) : buf'[m][j][1] = m
    <3>1. CASE prefixParameterOnce[m]
      <4>1. buf'[m] = <<XPS(m)>> /\ Len(<<XPS(m)>>) = 1 BY <2>1, <2>2, <3>1
      <4>2. XPS(m)[1] = m BY DEF XPS
      <4> QED BY <4>1, <4>2
    <3>2. CASE ~prefixParameterOnce[m]
      <4>1. buf'[m] = <<>> BY <2>1, <2>2, <3>2
      <4> QED BY <4>1
    <3> QED BY <3>1, <3>2
  <2>7. ASSUME NEW n \in Medias PROVE OwnItems(n, buf'[n], out'[n])
    <3>1. CASE n = m
      <4>1. OwnItems(m, buf[m], out[m]) /\ out' = out BY <2>1 DEF OwnInv
      <4>2. OwnItems(m, buf'[m], out[m]) BY <2>6, <4>1 DEF OwnItems
      <4> QED BY <3>1, <4>1, <4>2
    <3>2. CASE n # m
      <4>1. buf'[n] = buf[n] /\ out'[n] = out[n] BY <2>1, <2>2, <3>2
      <4> QED BY <4>1 DEF OwnInv
    <3> QED BY <3>1, <3>2
  <2> QED BY <2>4, <2>5, <2>7 DEF OwnInv
<1>3. CASE UNCHANGED vars
  BY <1>3 DEF vars, OwnInv, Alone, OwnBuffer, InFlight
<1> QED BY <1>1, <1>2, <1>3, OwnStep DEF Next

LEMMA OwnAlways == ASSUME SingleThread PROVE Spec => []OwnInv
<1>1. Init => OwnInv
  BY DEF Init, OwnInv, Alone, OwnBuffer, OwnItems
<1> QED BY <1>1, OwnNext, TypeAlways, PTL DEF Spec

\* With one thread for all GetMediaData calls, the shared VideoBuffer does not
\* mix medias.  The assumption is needed: see run shared_buffer.
THEOREM MediaOwn == ASSUME SingleThread PROVE Spec => []OwnMedia
<1>1. OwnInv => OwnMedia
  BY DEF OwnInv, OwnItems, OwnMedia
<1> QED BY <1>1, OwnAlways, PTL

-----------------------------------------------------------------------------
(* The size of a unit *)

\* As long as no packet is shorter than its header, size is within its bounds,
\* and while a packet is in VideoBuffer it fits buf, without the start code.
SizeInv ==
    \A m \in Medias : Headless(m) \/
        /\ size[m] <= MaxSize + 4 \/ size[m] <= XPSSize
        /\ pc[m] \in {"parse", "copy"} => size[m] + SizeTmp[m] <= MaxSize

\* What was sent is not taken back.
LEMMA SentStays ==
    ASSUME TypeInv, NEW m \in Medias, Environment(m), NEW n \in Medias
    PROVE  (Headless(n) => Headless(n)') /\ (Oversized(n) => Oversized(n)')
<1>1. /\ Len(units[n]) \in Nat /\ Len(units'[n]) \in Nat /\ Len(units[n]) <= Len(units'[n])
      /\ \A u \in 1 .. Len(units[n]) : units'[n][u] = units[n][u]
  <2>1. ASSUME NEW s \in Shapes[m], SendPacket(m, s)
        PROVE  /\ Len(units[n]) \in Nat /\ Len(units'[n]) \in Nat
               /\ Len(units[n]) <= Len(units'[n])
               /\ \A u \in 1 .. Len(units[n]) : units'[n][u] = units[n][u]
    BY <2>1, SendEffect, LenProperties
  <2>2. CASE ArriveLate(m)
    BY <2>2, LenProperties DEF ArriveLate, TypeInv, Types
  <2> QED BY <2>1, <2>2 DEF Environment, Arrive, Lose, Delay, Duplicate
<1>2. frameType' = frameType
  BY DEF Environment, Arrive, Lose, Delay, Duplicate, SendPacket, ArriveLate
<1>3. \A u \in 1 .. Len(units[n]) : u \in 1 .. Len(units'[n]) BY <1>1
<1> QED BY <1>1, <1>2, <1>3 DEF Headless, Oversized

\* A copy that runs off is that of a packet shorter than its header.
LEMMA RunsOffHeadless ==
    ASSUME TypeInv, OwnInv, NEW m \in Medias, pc[m] = "copy",
           RunsOff(frameType[m], VideoBuffer, SizeTmp[m])
    PROVE  Headless(m)
<1>1. InFlight(m, VideoBuffer) /\ SizeTmp[m] = VideoBuffer.size
  BY DEF OwnInv, OwnBuffer
<1> DEFINE s == units[m][VideoBuffer.unit]
<1>2. /\ VideoBuffer.unit \in 1 .. Len(units[m]) /\ VideoBuffer.nt = s.nt
      /\ SizeTmp[m] = s.size
  BY <1>1 DEF InFlight
<1> HIDE DEF s
<1>3. RunsOff(frameType[m], s, s.size)
  BY <1>2 DEF RunsOff, SkipHeaderSize
<1> QED BY <1>2, <1>3 DEF Headless, s

LEMMA SizeStep ==
    ASSUME TypeInv, OwnInv, SizeInv, NEW m \in Medias, Step(m)
    PROVE  SizeInv'
<1>1. /\ size \in [Medias -> Nat] /\ SizeTmp \in [Medias -> Nat]
      /\ pc \in [Medias -> {"idle", "fetch", "parse", "copy"}]
      /\ StartFlag[m] \in BOOLEAN /\ frameType[m] \in FrameType
      /\ MaxSize \in Nat /\ XPSSize \in Nat
  BY StreamsAssumption, SizesAssumption DEF TypeInv, Types
<1>2. UNCHANGED <<frameType, units>> BY StepEffect
<1>3. \A n \in Medias : Headless(n)' <=> Headless(n) BY <1>2 DEF Headless
<1>4. CASE \/ NoData(m) \/ ParsePacketError(m) \/ FetchTruncated(m) \/ FetchEmpty(m)
           \/ FetchTooLarge(m)
  <2>1. UNCHANGED size /\ Leave(m)
    BY <1>4 DEF NoData, ParsePacketError, FetchTruncated, FetchEmpty, FetchTooLarge, Fetch,
                Return, ReturnNULL
  <2> QED BY <1>1, <1>3, <2>1 DEF Leave, SizeInv
<1>5. CASE FetchFits(m)
  <2>1. /\ UNCHANGED size /\ SizeTmp' = [SizeTmp EXCEPT ![m] = Head(net[m]).size]
        /\ pc' = [pc EXCEPT ![m] = "parse"] /\ size[m] + Head(net[m]).size <= MaxSize
    BY <1>5 DEF FetchFits, Fetch, Fits
  <2> QED BY <1>1, <1>3, <2>1 DEF SizeInv
<1>6. CASE ParsePacket(m)
  BY <1>1, <1>3, <1>6 DEF ParsePacket, SizeInv
<1>7. CASE CopyData(m) \/ CopyDataRunsOff(m)
  <2>1. VideoBuffer \in Packet /\ pc[m] = "copy" /\ Copy(m)
    BY <1>7 DEF CopyData, CopyDataRunsOff, Copy, TypeInv, Held
  <2> DEFINE c == CopySize(frameType[m], VideoBuffer, StartFlag[m], SizeTmp[m])
  <2>2. c \in Nat /\ (~RunsOff(frameType[m], VideoBuffer, SizeTmp[m]) => c <= SizeTmp[m] + 4)
    BY <1>1, <2>1, CopySizeType
  <2>3. size' = [size EXCEPT ![m] = size[m] + c] BY <2>1 DEF Copy
  <2> HIDE DEF c
  <2>4. Headless(m) \/ size[m] + c <= MaxSize + 4
    BY <1>1, <2>1, <2>2, RunsOffHeadless DEF SizeInv
  <2>5. /\ pc'[m] \notin {"parse", "copy"}
        /\ \A n \in Medias : n # m => pc'[n] = pc[n] /\ SizeTmp'[n] = SizeTmp[n]
    BY <1>1, <1>7 DEF CopyData, CopyDataRunsOff, Return, ReturnNULL, Leave
  <2> QED BY <1>1, <1>3, <2>3, <2>4, <2>5 DEF SizeInv
<1> QED BY <1>4, <1>5, <1>6, <1>7 DEF Step

\* With one thread, and as long as the server sends no packet that is shorter
\* than its own header, *size exceeds max_size by a start code at most, whatever
\* the network does.
THEOREM MediaOverrunBounded == ASSUME SingleThread PROVE Spec => []OverrunBounded
<1>1. Init => SizeInv
  BY SizesAssumption DEF Init, SizeInv
<1>2. TypeInv /\ OwnInv /\ SizeInv /\ [Next]_vars => SizeInv'
  <2> SUFFICES ASSUME TypeInv, OwnInv, SizeInv, [Next]_vars PROVE SizeInv'
    OBVIOUS
  <2>1. ASSUME NEW m \in Medias, Environment(m) PROVE SizeInv'
    <3>1. UNCHANGED <<size, SizeTmp, pc>>
      BY <2>1 DEF Environment, Arrive, Lose, Delay, Duplicate, SendPacket, ArriveLate
    <3>2. \A n \in Medias : Headless(n) => Headless(n)' BY <2>1, SentStays
    <3> QED BY <3>1, <3>2 DEF SizeInv
  <2>2. ASSUME NEW m \in Medias, GetMediaData(m) PROVE SizeInv'
    <3> DEFINE z == IF prefixParameterOnce[m] THEN XPSSize ELSE 0
    <3>1. z \in Nat /\ z <= XPSSize BY SizesAssumption
    <3>2. /\ size' = [size EXCEPT ![m] = z] /\ pc' = [pc EXCEPT ![m] = "fetch"]
          /\ UNCHANGED <<SizeTmp, frameType, units>>
      BY <2>2 DEF GetMediaData
    <3>3. size \in [Medias -> Nat] /\ pc \in [Medias -> {"idle", "fetch", "parse", "copy"}]
      BY DEF TypeInv, Types
    <3>4. \A n \in Medias : Headless(n)' <=> Headless(n) BY <3>2 DEF Headless
    <3> HIDE DEF z
    <3> QED BY <3>1, <3>2, <3>3, <3>4 DEF SizeInv
  <2>3. CASE UNCHANGED vars BY <2>3 DEF vars, SizeInv, Headless
  <2> QED BY <2>1, <2>2, <2>3, SizeStep DEF Next
<1>3. SizeInv => OverrunBounded
  BY DEF SizeInv, OverrunBounded
<1> QED BY <1>1, <1>2, <1>3, TypeAlways, OwnAlways, PTL DEF Spec

\* With one thread, only a packet that is shorter than its header or larger than
\* VideoBuffer makes GetMediaData write beyond its memory.
THEOREM MediaKilledBySizeOnly == ASSUME SingleThread PROVE Spec => []KilledBySizeOnly
<1>1. Init => KilledBySizeOnly
  BY DEF Init, KilledBySizeOnly
<1>2. TypeInv /\ OwnInv /\ KilledBySizeOnly /\ [Next]_vars => KilledBySizeOnly'
  <2> SUFFICES ASSUME TypeInv, OwnInv, KilledBySizeOnly, [Next]_vars PROVE KilledBySizeOnly'
    OBVIOUS
  <2>1. ASSUME NEW m \in Medias, Environment(m) PROVE KilledBySizeOnly'
    <3>1. UNCHANGED dead
      BY <2>1 DEF Environment, Arrive, Lose, Delay, Duplicate, SendPacket, ArriveLate
    <3>2. \A n \in Medias : (Headless(n) => Headless(n)') /\ (Oversized(n) => Oversized(n)')
      BY <2>1, SentStays
    <3> QED BY <3>1, <3>2 DEF KilledBySizeOnly
  <2>2. ASSUME UNCHANGED <<dead, frameType, units>> PROVE KilledBySizeOnly'
    BY <2>2 DEF KilledBySizeOnly, Headless, Oversized
  <2>3. ASSUME NEW m \in Medias, GetMediaData(m) PROVE KilledBySizeOnly'
    BY <2>2, <2>3 DEF GetMediaData
  <2>4. ASSUME NEW m \in Medias, Step(m) PROVE KilledBySizeOnly'
    <3>1. UNCHANGED <<frameType, units>> BY <2>4, StepEffect
    <3>2. CASE UNCHANGED dead BY <2>2, <3>1, <3>2
    <3>3. CASE FetchTooLarge(m)
      <4>1. InFlight(m, Head(net[m])) BY <3>3, FetchEffect DEF FetchTooLarge
      <4>2. Head(net[m]).size > VideoBufferSize BY <3>3 DEF FetchTooLarge
      <4>3. Oversized(m) BY <4>1, <4>2 DEF InFlight, Oversized
      <4>4. Oversized(m)' BY <3>1, <4>3 DEF Oversized
      <4> QED BY <4>4 DEF KilledBySizeOnly
    <3>4. CASE CopyDataRunsOff(m)
      <4>1. Headless(m) BY <3>4, RunsOffHeadless DEF CopyDataRunsOff, Copy
      <4>2. Headless(m)' BY <3>1, <4>1 DEF Headless
      <4> QED BY <4>2 DEF KilledBySizeOnly
    <3> QED BY <2>4, <3>2, <3>3, <3>4 DEF Step, NoData, FetchEmpty, FetchTruncated,
               FetchFits, ParsePacket, ParsePacketError, CopyData
  <2>5. CASE UNCHANGED vars BY <2>2, <2>5 DEF vars
  <2> QED BY <2>1, <2>3, <2>4, <2>5 DEF Next
<1> QED BY <1>1, <1>2, TypeAlways, OwnAlways, PTL DEF Spec

-----------------------------------------------------------------------------
(* Without faults *)

\* Only fragmentation units take several packets, and an audio packet carries
\* more than its headers.
Framed ==
    \A f \in FrameTypes, m \in Medias : \A s \in Shapes[m] :
        /\ s.n > 1 => s.nt \in {"FU_A", "FUs"} /\ IsNALU(f[m])
        /\ f[m].EncodeType = "MPA" /\ s.offset = 0 => s.size > 4

\* Positions in a stream: of a packet, of the one after it, of the next one the
\* server sends; the packets q are all those from one position up to another.
Pos(p) == <<p.unit, p.i>>
After(p) == IF p.i < p.n THEN <<p.unit, p.i + 1>> ELSE <<p.unit + 1, 1>>
ToSend(m) ==
    IF left[m] = 0 THEN <<Len(units[m]) + 1, 1>>
    ELSE <<Len(units[m]), units[m][Len(units[m])].n - left[m] + 1>>
Run(q, from, to) ==
    /\ q = <<>> => from = to
    /\ q # <<>> => Pos(q[1]) = from /\ After(q[Len(q)]) = to
    /\ \A j \in 1 .. Len(q) - 1 : Pos(q[j + 1]) = After(q[j])

\* Packet p of media m is one of those its unit was sent in.
Genuine(m, p) ==
    LET s == units[m][p.unit]
    IN  /\ p.unit \in 1 .. Len(units[m]) /\ p.media = m /\ p.i <= p.n
        /\ p.n = s.n /\ p.nt = s.nt /\ p.size = s.size /\ p.offset = s.offset

\* The items of the first i packets of unit u, and what stands before them.
Part(f, m, u, i) ==
    IF ~IsNALU(f) THEN [k \in 1 .. i |-> <<m, u, k>>]
    ELSE IF i = 0 THEN <<>> ELSE [k \in 1 .. i + 1 |-> <<m, u, k - 1>>]
Front(f, m, k) == IF k = 1 /\ IsNALU(f) THEN <<XPS(m)>> ELSE <<>>
Collected(m, i) ==
    LET u == Len(out[m]) + 1
    IN  buf[m] = Front(frameType[m], m, u) \o Part(frameType[m], m, u, i)

\* The call has the packets before that at position i of its unit, the queue
\* holds those from there on.
Fetching(m, i) ==
    /\ i > 0 => IsNALU(frameType[m])
    /\ Collected(m, i) /\ Run(net[m], <<Len(out[m]) + 1, i + 1>>, ToSend(m))
Holding(m) ==
    /\ Genuine(m, VideoBuffer) /\ VideoBuffer.unit = Len(out[m]) + 1
    /\ Collected(m, VideoBuffer.i - 1) /\ Run(net[m], After(VideoBuffer), ToSend(m))
InPlace(m) ==
    /\ pc[m] = "idle" => Run(net[m], <<Len(out[m]) + 1, 1>>, ToSend(m))
    /\ pc[m] = "fetch" => \E i \in Nat : Fetching(m, i)
    /\ pc[m] \in {"parse", "copy"} => Holding(m)
    /\ pc[m] = "copy" => /\ StartFlag[m] = (VideoBuffer.i = 1)
                         /\ EndFlag[m] = (VideoBuffer.i = VideoBuffer.n)
Exact(m) ==
    /\ late[m] = {} /\ \A j \in 1 .. Len(net[m]) : Genuine(m, net[m][j])
    /\ prefixParameterOnce[m] <=>
          IsNALU(frameType[m]) /\ out[m] = <<>> /\ pc[m] = "idle"
    /\ InPlace(m)
    /\ Len(out[m]) <= Len(units[m])
    /\ \A k \in 1 .. Len(out[m]) : units[m][k].offset = 0 =>
          out[m][k] = Front(frameType[m], m, k) \o Whole(m, k)
Sampled == \A m \in Medias : \A u \in 1 .. Len(units[m]) : units[m][u] \in Shapes[m]
ExactInv == Sampled /\ \A m \in Medias : faults[m] = 0 => Exact(m)

LEMMA RunAppend ==
    ASSUME NEW q \in Seq(Packet), NEW p \in Packet, NEW from, Run(q, from, Pos(p))
    PROVE  Run(Append(q, p), from, After(p))
<1> DEFINE a == Append(q, p)
<1>1. /\ Len(q) \in Nat /\ (q # <<>> => Len(q) \in Nat \ {0})
      /\ (q = <<>> => Len(q) = 0)
  BY LenProperties, EmptySeq
<1>2. /\ a # <<>> /\ Len(a) = Len(q) + 1 /\ a[Len(q) + 1] = p
      /\ \A j \in 1 .. Len(q) : a[j] = q[j]
  BY AppendProperties
<1> HIDE DEF a
<1>3. Pos(a[1]) = from
  <2>1. CASE q = <<>> BY <1>1, <1>2, <2>1 DEF Run
  <2>2. CASE q # <<>>
    <3>1. 1 \in 1 .. Len(q) BY <1>1, <2>2
    <3> QED BY <1>2, <2>2, <3>1 DEF Run
  <2> QED BY <2>1, <2>2
<1>4. ASSUME NEW j \in 1 .. Len(a) - 1 PROVE Pos(a[j + 1]) = After(a[j])
  <2>1. j \in 1 .. Len(q) /\ q # <<>> BY <1>1, <1>2
  <2>2. CASE j = Len(q) BY <1>2, <2>1, <2>2 DEF Run
  <2>3. CASE j # Len(q)
    <3>1. j \in 1 .. Len(q) - 1 /\ j + 1 \in 1 .. Len(q) BY <1>1, <2>1, <2>3
    <3> QED BY <1>2, <2>1, <3>1 DEF Run
  <2> QED BY <2>2, <2>3
<1>5. Run(a, from, After(p))
  BY <1>2, <1>3, <1>4 DEF Run
<1> QED BY <1>5 DEF a

LEMMA RunTail ==
    ASSUME NEW q \in Seq(Packet), NEW from, NEW to, q # <<>>, Run(q, from, to)
    PROVE  Pos(Head(q)) = from /\ Run(Tail(q), After(Head(q)), to)
<1> DEFINE t == Tail(q)
<1>1. Len(q) \in Nat \ {0} /\ Head(q) = q[1] BY EmptySeq
<1>2. /\ t \in Seq(Packet) /\ Len(t) = Len(q) - 1
      /\ \A j \in 1 .. Len(t) : t[j] = q[j + 1]
  BY HeadTailProperties
<1>3. (t # <<>> => Len(t) \in Nat \ {0}) /\ (t = <<>> => Len(t) = 0)
  BY <1>2, EmptySeq
<1> HIDE DEF t
<1>4. ASSUME NEW j \in 1 .. Len(t) - 1 PROVE Pos(t[j + 1]) = After(t[j])
  <2>1. j + 1 \in 1 .. Len(q) - 1 /\ j \in 1 .. Len(t) /\ j + 1 \in 1 .. Len(t)
    BY <1>1, <1>2
  <2>2. t[j] = q[j + 1] /\ t[j + 1] = q[(j + 1) + 1] BY <1>2, <2>1
  <2> QED BY <2>1, <2>2 DEF Run
<1>5. CASE t = <<>>
  <2>1. Len(q) = 1 BY <1>1, <1>2, <1>3, <1>5
  <2>2. After(q[1]) = to BY <2>1 DEF Run
  <2>3. Run(t, After(Head(q)), to) BY <1>1, <1>4, <1>5, <2>2 DEF Run
  <2> QED BY <1>1, <2>3 DEF Run, t
<1>6. CASE t # <<>>
  <2>1. 1 \in 1 .. Len(t) /\ Len(t) \in 1 .. Len(t) /\ 1 \in 1 .. Len(q) - 1
        /\ Len(t) + 1 = Len(q)
    BY <1>1, <1>2, <1>3, <1>6
  <2>2. t[1] = q[1 + 1] /\ t[Len(t)] = q[Len(q)] BY <1>2, <2>1
  <2>3. Pos(t[1]) = After(q[1]) /\ After(t[Len(t)]) = to
    BY <2>1, <2>2 DEF Run
  <2>4. Run(t, After(Head(q)), to) BY <1>1, <1>4, <1>6, <2>3 DEF Run
  <2> QED BY <1>1, <2>4 DEF Run, t
<1> QED BY <1>5, <1>6

\* The packet that is sent next is where the sender is, and moves it on.
LEMMA SendPos ==
    ASSUME TypeInv, Sampled, NEW m \in Medias, NEW s \in Shapes[m], SendPacket(m, s),
           NEW p, p = NextPacket(m, s)
    PROVE  /\ Pos(p) = ToSend(m) /\ After(p) = ToSend(m)' /\ Genuine(m, p)'
           /\ \A u \in 1 .. Len(units[m]) : units'[m][u] = units[m][u]
           /\ Len(units[m]) \in Nat /\ Len(units[m]) <= Len(units'[m])
           /\ \A n \in Medias : n # m => units'[n] = units[n] /\ left'[n] = left[n]
           /\ Sampled'
<1>1. s \in Shape /\ s.n \in Nat \ {0}
  BY StreamsAssumption DEF Shape
<1>2. /\ units \in [Medias -> Seq(Shape)] /\ left \in [Medias -> Nat]
      /\ units[m] \in Seq(Shape) /\ Len(units[m]) \in Nat /\ left[m] \in Nat
  BY LenProperties DEF TypeInv, Types
<1>3. CASE Begin(m, s)
  <2> DEFINE a == Append(units[m], s)
  <2>1. /\ left[m] = 0 /\ units' = [units EXCEPT ![m] = a]
        /\ left' = [left EXCEPT ![m] = s.n - 1]
    BY <1>3 DEF Begin, Sent
  <2>2. /\ a \in Seq(Shape) /\ Len(a) = Len(units[m]) + 1
        /\ a[Len(units[m]) + 1] = s
        /\ \A u \in 1 .. Len(units[m]) : a[u] = units[m][u]
    BY <1>1, <1>2, AppendProperties
  <2> HIDE DEF a
  <2>3. /\ units'[m] = a /\ left'[m] = s.n - 1
        /\ \A n \in Medias : n # m => units'[n] = units[n] /\ left'[n] = left[n]
    BY <1>1, <1>2, <2>1
  <2>4. p = PacketOf(m, Len(units[m]) + 1, s, 1)
    BY <2>1 DEF NextPacket, Sent
  <2>5. Len(units[m]) + 1 \in Nat \ {0} /\ 1 \in Nat \ {0} BY <1>2
  <2>6. /\ p.media = m /\ p.unit = Len(units[m]) + 1 /\ p.i = 1 /\ p.n = s.n
        /\ p.nt = s.nt /\ p.size = s.size /\ p.offset = s.offset
    BY <1>1, <2>4, <2>5, PacketOfType
  <2>7. Pos(p) = ToSend(m) BY <2>1, <2>6 DEF Pos, ToSend
  <2>8. After(p) = ToSend(m)'
    <3>1. CASE s.n = 1
      BY <1>1, <1>2, <2>2, <2>3, <2>6, <3>1 DEF After, ToSend
    <3>2. CASE s.n # 1
      <4>1. 1 < s.n /\ s.n - 1 # 0 /\ s.n - (s.n - 1) + 1 = 2 BY <1>1, <3>2
      <4>2. After(p) = <<Len(units[m]) + 1, 2>> BY <2>6, <4>1 DEF After
      <4>3. ToSend(m)' = <<Len(units[m]) + 1, s.n - (s.n - 1) + 1>>
        BY <2>2, <2>3, <4>1 DEF ToSend
      <4> QED BY <4>1, <4>2, <4>3
    <3> QED BY <3>1, <3>2
  <2>9. Genuine(m, p)'
    <3>1. units'[m][p.unit] = s /\ p.unit \in 1 .. Len(units'[m]) /\ p.i <= p.n
      BY <1>1, <1>2, <2>2, <2>3, <2>6
    <3> QED BY <2>6, <3>1 DEF Genuine
  <2>10. Sampled'
    <3>1. ASSUME NEW u \in 1 .. Len(units'[m]) PROVE units'[m][u] \in Shapes[m]
      <4>1. CASE u = Len(units[m]) + 1 BY <2>2, <2>3, <4>1
      <4>2. CASE u # Len(units[m]) + 1
        <5>1. u \in 1 .. Len(units[m]) BY <1>2, <2>2, <2>3, <4>2
        <5> QED BY <2>2, <2>3, <5>1 DEF Sampled
      <4> QED BY <4>1, <4>2
    <3>2. ASSUME NEW n \in Medias, n # m, NEW u \in 1 .. Len(units'[n])
          PROVE  units'[n][u] \in Shapes[n]
      BY <2>3, <3>2 DEF Sampled
    <3> QED BY <3>1, <3>2 DEF Sampled
  <2> QED BY <1>2, <2>2, <2>3, <2>7, <2>8, <2>9, <2>10
<1>4. CASE Continue(m, s)
  <2>1. /\ left[m] # 0 /\ units' = units /\ left' = [left EXCEPT ![m] = left[m] - 1]
        /\ s = units[m][Len(units[m])]
    BY <1>4 DEF Continue, Sent
  <2>2. units[m] # <<>> /\ left[m] < s.n
    BY <2>1 DEF TypeInv, Sending
  <2>3. Len(units[m]) \in Nat \ {0}
    BY <1>2, <2>2, EmptySeq
  <2>4. /\ left'[m] = left[m] - 1
        /\ \A n \in Medias : n # m => left'[n] = left[n]
    BY <1>2, <2>1
  <2>5. p = PacketOf(m, Len(units[m]), s, s.n - left[m] + 1)
    BY <2>1 DEF NextPacket, Sent
  <2>6. s.n - left[m] + 1 \in Nat \ {0}
    BY <1>1, <1>2, <2>2
  <2>7. /\ p.media = m /\ p.unit = Len(units[m]) /\ p.i = s.n - left[m] + 1
        /\ p.n = s.n /\ p.nt = s.nt /\ p.size = s.size /\ p.offset = s.offset
    BY <1>1, <2>3, <2>5, <2>6, PacketOfType
  <2>8. Pos(p) = ToSend(m) BY <2>1, <2>7 DEF Pos, ToSend
  <2>9. After(p) = ToSend(m)'
    <3>1. CASE left[m] = 1
      <4>1. s.n - left[m] + 1 = s.n /\ left[m] - 1 = 0 BY <1>1, <1>2, <3>1
      <4>2. After(p) = <<Len(units[m]) + 1, 1>> BY <1>1, <2>7, <4>1 DEF After
      <4> QED BY <2>1, <2>4, <4>1, <4>2 DEF ToSend
    <3>2. CASE left[m] # 1
      <4>1. /\ s.n - left[m] + 1 < s.n /\ left[m] - 1 # 0
            /\ (s.n - left[m] + 1) + 1 = s.n - (left[m] - 1) + 1
        <5>1. \A x, y \in Nat : y # 0 /\ y # 1 =>
                 x - y + 1 < x /\ y - 1 # 0 /\ (x - y + 1) + 1 = x - (y - 1) + 1
          OBVIOUS
        <5>2. s.n \in Nat BY <1>1
        <5> QED BY <5>1, <5>2, <1>2, <2>1, <3>2
      <4>2. After(p) = <<Len(units[m]), (s.n - left[m] + 1) + 1>>
        BY <2>7, <4>1 DEF After
      <4>3. ToSend(m)' = <<Len(units[m]), s.n - (left[m] - 1) + 1>>
        BY <2>1, <2>4, <4>1 DEF ToSend
      <4> QED BY <4>1, <4>2, <4>3
    <3> QED BY <3>1, <3>2
  <2>10. Genuine(m, p)'
    <3>1. units'[m][p.unit] = s /\ p.unit \in 1 .. Len(units'[m]) /\ p.i <= p.n
      BY <1>1, <1>2, <2>1, <2>3, <2>7
    <3> QED BY <2>7, <3>1 DEF Genuine
  <2>11. Sampled' BY <2>1 DEF Sampled
  <2> QED BY <1>2, <2>1, <2>4, <2>8, <2>9, <2>10, <2>11
<1> QED BY <1>3, <1>4 DEF SendPacket

LEMMA NumberedItems ==
    ASSUME NEW m \in Medias, NEW u \in Nat, NEW n \in Nat, NEW a,
           a = [k \in 1 .. n |-> <<m, u, k - 1>>]
    PROVE  /\ a \in Seq(Item) /\ Len(a) = n
           /\ \A k \in 1 .. n : a[k] = <<m, u, k - 1>>
<1>1. \A k \in 1 .. n : <<m, u, k - 1>> \in Item BY DEF Item
<1>2. a \in [1 .. n -> Item] BY <1>1
<1>3. a \in Seq(Item) BY <1>2
<1>4. DOMAIN a = 1 .. n BY <1>2
<1>5. Len(a) = n BY <1>3, <1>4, LenProperties
<1> QED BY <1>3, <1>5

\* Copying the next packet of a unit completes one more part of it.
LEMMA PartGrows ==
    ASSUME NEW f \in FrameType, NEW p \in Packet,
           IsNALU(f) \/ (p.i = 1 /\ Carries(f, p))
    PROVE  /\ Part(f, p.media, p.unit, p.i - 1) \in Seq(Item)
           /\ CopyItems(f, p, p.i = 1) \in Seq(Item)
           /\ Part(f, p.media, p.unit, p.i - 1) \o CopyItems(f, p, p.i = 1)
                 = Part(f, p.media, p.unit, p.i)
<1> DEFINE h == <<p.media, p.unit, 0>>
           d == <<p.media, p.unit, p.i>>
           a == [k \in 1 .. p.i |-> <<p.media, p.unit, k - 1>>]
           b == [k \in 1 .. p.i + 1 |-> <<p.media, p.unit, k - 1>>]
<1>1. p.i \in Nat \ {0} /\ h \in Item /\ d \in Item
  BY DEF Packet, Item
<1>2. CASE ~IsNALU(f)
  <2>1. p.i = 1 /\ Carries(f, p) BY <1>2
  <2>2. CopyItems(f, p, p.i = 1) = <<>> \o <<d>>
    BY <1>2, <2>1 DEF CopyItems
  <2>3. Part(f, p.media, p.unit, p.i - 1) = <<>>
    BY <1>2, <2>1 DEF Part
  <2>4. Part(f, p.media, p.unit, p.i) = <<d>>
    BY <1>2, <2>1 DEF Part
  <2> HIDE DEF d
  <2>5. <<d>> \in Seq(Item) BY <1>1, Singleton
  <2> QED BY <2>2, <2>3, <2>4, <2>5, ConcatEmptySeq, EmptySeq
<1>3. CASE IsNALU(f) /\ p.i = 1
  <2>1. CopyItems(f, p, p.i = 1) = <<h>> \o <<d>> BY <1>3 DEF CopyItems, Carries, IsNALU
  <2>2. Part(f, p.media, p.unit, p.i - 1) = <<>> BY <1>3 DEF Part
  <2>3. Part(f, p.media, p.unit, p.i) = <<h, d>> BY <1>3 DEF Part
  <2> HIDE DEF h, d
  <2>4. <<h>> \o <<d>> = <<h, d>> /\ <<h>> \o <<d>> \in Seq(Item)
    <3>1. /\ <<h>> \in Seq(Item) /\ <<d>> \in Seq(Item) /\ Len(<<h>>) = 1 /\ Len(<<d>>) = 1
          /\ <<h>>[1] = h /\ <<d>>[1] = d
      BY <1>1, Singleton
    <3>2. /\ <<h>> \o <<d>> \in Seq(Item) /\ Len(<<h>> \o <<d>>) = 2
          /\ (<<h>> \o <<d>>)[1] = h /\ (<<h>> \o <<d>>)[2] = d
      BY <3>1, ConcatProperties
    <3>3. <<h, d>> \in Seq(Item) /\ Len(<<h, d>>) = 2 /\ <<h, d>>[1] = h /\ <<h, d>>[2] = d
      BY <1>1
    <3>4. \A k \in 1 .. 2 : k = 1 \/ k = 2 OBVIOUS
    <3> QED BY <3>2, <3>3, <3>4, SeqEqual
  <2> QED BY <2>1, <2>2, <2>3, <2>4, ConcatEmptySeq, EmptySeq
<1>4. CASE IsNALU(f) /\ p.i # 1
  <2>1. CopyItems(f, p, p.i = 1) = <<>> \o <<d>> BY <1>4 DEF CopyItems, Carries, IsNALU
  <2>2. p.i - 1 # 0 /\ (p.i - 1) + 1 = p.i BY <1>1, <1>4
  <2>3. Part(f, p.media, p.unit, p.i - 1) = a BY <1>4, <2>2 DEF Part
  <2>4. Part(f, p.media, p.unit, p.i) = b BY <1>1, <1>4 DEF Part
  <2>5. <<d>> \in Seq(Item) BY <1>1, Singleton
  <2>6. /\ a \in Seq(Item) /\ Len(a) = p.i
        /\ \A k \in 1 .. p.i : a[k] = <<p.media, p.unit, k - 1>>
    <3>1. p.media \in Medias /\ p.unit \in Nat /\ p.i \in Nat BY DEF Packet
    <3> QED BY <3>1, NumberedItems
  <2>7. /\ b \in Seq(Item) /\ Len(b) = p.i + 1
        /\ \A k \in 1 .. p.i + 1 : b[k] = <<p.media, p.unit, k - 1>>
    <3>1. p.media \in Medias /\ p.unit \in Nat /\ p.i + 1 \in Nat BY DEF Packet
    <3> QED BY <3>1, NumberedItems
  <2>8. b[p.i + 1] = d BY <1>1, <2>7
  <2>9. \A k \in 1 .. p.i : b[k] = a[k] BY <1>1, <2>6, <2>7
  <2> HIDE DEF a, b, d
  <2>10. /\ a \o <<d>> \in Seq(Item) /\ Len(a \o <<d>>) = p.i + 1
         /\ \A k \in 1 .. p.i : (a \o <<d>>)[k] = a[k]
         /\ (a \o <<d>>)[p.i + 1] = d
    BY <1>1, <2>5, <2>6, ConcatProperties
  <2>11. a \o <<d>> = b
    <3> DEFINE c == a \o <<d>>
    <3>1. c \in Seq(Item) /\ Len(c) = Len(b) BY <2>7, <2>10
    <3>2. \A k \in 1 .. Len(b) : k \in 1 .. p.i \/ k = p.i + 1 BY <1>1, <2>7
    <3>3. \A k \in 1 .. Len(b) : c[k] = b[k] BY <2>8, <2>9, <2>10, <3>2
    <3>4. b \in Seq(Item) BY <2>7
    <3> HIDE DEF c
    <3>5. c = b BY <3>1, <3>3, <3>4, SeqEqual
    <3> QED BY <3>5 DEF c
  <2>12. CopyItems(f, p, p.i = 1) = <<d>> BY <2>1, <2>5, ConcatEmptySeq
  <2> QED BY <2>3, <2>4, <2>5, <2>6, <2>11, <2>12
<1> QED BY <1>2, <1>3, <1>4

\* A step of another media does not disturb this one, unless it replaces the
\* packet this one holds.
LEMMA ExactFrame ==
    ASSUME NEW n \in Medias, Exact(n), frameType' = frameType,
           late'[n] = late[n], net'[n] = net[n], out'[n] = out[n], pc'[n] = pc[n],
           prefixParameterOnce'[n] = prefixParameterOnce[n],
           units'[n] = units[n], left'[n] = left[n], buf'[n] = buf[n],
           StartFlag'[n] = StartFlag[n], EndFlag'[n] = EndFlag[n],
           pc[n] \in {"idle", "fetch"} \/ VideoBuffer' = VideoBuffer
    PROVE  Exact(n)'
<1>1. ToSend(n)' = ToSend(n) BY DEF ToSend
<1>2. \A i \in Nat : Fetching(n, i)' <=> Fetching(n, i)
  BY <1>1 DEF Fetching, Collected
<1>3. VideoBuffer' = VideoBuffer => (Holding(n)' <=> Holding(n))
  BY <1>1 DEF Holding, Collected, Genuine
<1>4. InPlace(n)'
  BY <1>1, <1>2, <1>3 DEF Exact, InPlace
<1>5. \A j \in 1 .. Len(net'[n]) : Genuine(n, net[n][j])'
  BY DEF Exact, Genuine
<1>6. \A k : Whole(n, k)' = Whole(n, k) BY DEF Whole
<1> QED BY <1>4, <1>5, <1>6 DEF Exact

\* What was sent stays as it was sent.
LEMMA UnitsGrow ==
    ASSUME TypeInv, NEW m \in Medias, frameType' = frameType,
           Len(units[m]) \in Nat, Len(units'[m]) \in Nat, Len(units[m]) <= Len(units'[m]),
           \A u \in 1 .. Len(units[m]) : units'[m][u] = units[m][u]
    PROVE  /\ \A p : Genuine(m, p) => Genuine(m, p)'
           /\ \A k \in 1 .. Len(units[m]) : Whole(m, k)' = Whole(m, k)
<1>1. ASSUME NEW p, Genuine(m, p) PROVE Genuine(m, p)'
  BY <1>1 DEF Genuine
<1>2. ASSUME NEW k \in 1 .. Len(units[m]) PROVE Whole(m, k)' = Whole(m, k)
  BY DEF Whole
<1> QED BY <1>1, <1>2

LEMMA ExactArrive ==
    ASSUME TypeInv, Sampled, NEW m \in Medias, Exact(m), NEW s \in Shapes[m], Arrive(m, s)
    PROVE  Exact(m)'
<1>1. PICK p : p = NextPacket(m, s) OBVIOUS
<1>2. /\ SendPacket(m, s) /\ net' = [net EXCEPT ![m] = Append(net[m], p)] /\ late' = late
      /\ UNCHANGED <<frameType, prefixParameterOnce, VideoBuffer, pc, StartFlag, EndFlag,
                     buf, out>>
  BY <1>1 DEF Arrive, SendPacket
<1>3. p \in Packet /\ units' \in [Medias -> Seq(Shape)] BY <1>1, <1>2, SendEffect
<1>4. /\ Pos(p) = ToSend(m) /\ After(p) = ToSend(m)' /\ Genuine(m, p)'
      /\ \A u \in 1 .. Len(units[m]) : units'[m][u] = units[m][u]
      /\ Len(units[m]) \in Nat /\ Len(units[m]) <= Len(units'[m])
  BY <1>1, <1>2, SendPos
<1>5. Len(units'[m]) \in Nat BY <1>3, LenProperties
<1>6. /\ \A q : Genuine(m, q) => Genuine(m, q)'
      /\ \A k \in 1 .. Len(units[m]) : Whole(m, k)' = Whole(m, k)
  BY <1>2, <1>4, <1>5, UnitsGrow
<1>0. PICK a : a = Append(net[m], p) OBVIOUS
<1>7. net[m] \in Seq(Packet) /\ net'[m] = a BY <1>2, <1>0 DEF TypeInv, Types
<1>8. \A from : Run(net[m], from, ToSend(m)) => Run(a, from, ToSend(m)')
  BY <1>3, <1>4, <1>7, <1>0, RunAppend
<1>9. \A j \in 1 .. Len(a) : Genuine(m, a[j])'
  <2>1. a \in Seq(Packet)
        /\ \A j \in 1 .. Len(a) : (j \in 1 .. Len(net[m]) /\ a[j] = net[m][j])
                                  \/ (j = Len(net[m]) + 1 /\ a[j] = p)
    BY <1>3, <1>7, <1>0, Appended
  <2>2. ASSUME NEW q, NEW j \in 1 .. Len(a), q = a[j] PROVE Genuine(m, q)'
    BY <2>1, <2>2, <1>4, <1>6 DEF Exact
  <2> QED BY <2>2
<1>10. InPlace(m)'
  <2>1. pc[m] = "idle" => Run(net'[m], <<Len(out'[m]) + 1, 1>>, ToSend(m)')
    BY <1>2, <1>7, <1>8 DEF Exact, InPlace
  <2>2. \A i \in Nat : Fetching(m, i) => Fetching(m, i)'
    BY <1>2, <1>7, <1>8 DEF Fetching, Collected
  <2>3. Holding(m) => Holding(m)'
    BY <1>2, <1>6, <1>7, <1>8 DEF Holding, Collected
  <2> QED BY <1>2, <2>1, <2>2, <2>3 DEF Exact, InPlace
<1>11. /\ Len(out[m]) \in Nat /\ Len(out[m]) <= Len(units[m])
  BY LenProperties DEF TypeInv, Types, Exact
<1>12. ASSUME NEW k \in 1 .. Len(out[m]), units'[m][k].offset = 0
       PROVE  out[m][k] = Front(frameType[m], m, k) \o Whole(m, k)'
  <2>1. k \in 1 .. Len(units[m]) BY <1>4, <1>11
  <2> QED BY <1>4, <1>6, <1>12, <2>1 DEF Exact
<1>13. \A j \in 1 .. Len(net'[m]) : Genuine(m, net[m][j])'
  BY <1>7, <1>9 DEF Genuine
<1>14. Len(out'[m]) <= Len(units'[m])
  BY <1>2, <1>4, <1>5, <1>11
<1>15. (prefixParameterOnce[m] <=>
          IsNALU(frameType[m]) /\ out[m] = <<>> /\ pc[m] = "idle")'
  BY <1>2 DEF Exact
<1>16. late'[m] = {} BY <1>2 DEF Exact
<1> QED BY <1>2, <1>10, <1>12, <1>13, <1>14, <1>15, <1>16 DEF Exact

\* A step of the call that returns nothing.
LEMMA ExactKept ==
    ASSUME NEW m \in Medias, Exact(m), UNCHANGED <<frameType, units>>,
           late'[m] = late[m], out'[m] = out[m],
           \A j \in 1 .. Len(net'[m]) : Genuine(m, net'[m][j]),
           prefixParameterOnce'[m] <=>
              IsNALU(frameType[m]) /\ out[m] = <<>> /\ pc'[m] = "idle",
           InPlace(m)'
    PROVE  Exact(m)'
<1>1. \A j \in 1 .. Len(net'[m]) : Genuine(m, net[m][j])' BY DEF Genuine
<1>2. \A k : Whole(m, k)' = Whole(m, k) BY DEF Whole
<1> QED BY <1>1, <1>2 DEF Exact

LEMMA PartType ==
    ASSUME NEW f \in FrameType, NEW m \in Medias, NEW u \in Nat, NEW i \in Nat
    PROVE  /\ Part(f, m, u, i) \in Seq(Item) /\ (Part(f, m, u, i) = <<>> <=> i = 0)
           /\ Front(f, m, u) \in Seq(Item)
           /\ (Front(f, m, u) = <<>> <=> ~(u = 1 /\ IsNALU(f)))
<1>1. XPS(m) \in Item BY DEF XPS, Item
<1>2. Front(f, m, u) \in Seq(Item) /\ (Front(f, m, u) = <<>> <=> ~(u = 1 /\ IsNALU(f)))
  <2>1. CASE u = 1 /\ IsNALU(f)
    <3>1. Front(f, m, u) = <<XPS(m)>> BY <2>1 DEF Front
    <3>2. <<XPS(m)>> \in Seq(Item) /\ Len(<<XPS(m)>>) = 1 BY <1>1, Singleton
    <3>3. <<XPS(m)>> # <<>> BY <3>2, EmptySeq
    <3> QED BY <2>1, <3>1, <3>2, <3>3
  <2>2. CASE ~(u = 1 /\ IsNALU(f)) BY <2>2, EmptySeq DEF Front
  <2> QED BY <2>1, <2>2
<1>3. CASE IsNALU(f) /\ i = 0 BY <1>2, <1>3, EmptySeq DEF Part
<1>4. CASE IsNALU(f) /\ i # 0
  <2> DEFINE n == i + 1
             b == [k \in 1 .. n |-> <<m, u, k - 1>>]
  <2>1. Part(f, m, u, i) = b BY <1>4 DEF Part
  <2>2. n \in Nat /\ n # 0 OBVIOUS
  <2> HIDE DEF n
  <2>3. \A k \in 1 .. n : <<m, u, k - 1>> \in Item BY <2>2 DEF Item
  <2>4. b \in [1 .. n -> Item] BY <2>3
  <2> HIDE DEF b
  <2>5. b \in Seq(Item) /\ DOMAIN b = 1 .. n BY <2>2, <2>4
  <2>6. Len(b) = n BY <2>2, <2>5, LenProperties
  <2> QED BY <1>2, <1>4, <2>1, <2>2, <2>5, <2>6, EmptySeq
<1>5. CASE ~IsNALU(f)
  <2> DEFINE a == [k \in 1 .. i |-> <<m, u, k>>]
  <2>1. Part(f, m, u, i) = a BY <1>5 DEF Part
  <2>2. \A k \in 1 .. i : <<m, u, k>> \in Item BY DEF Item
  <2>3. a \in [1 .. i -> Item] BY <2>2
  <2> HIDE DEF a
  <2>4. a \in Seq(Item) /\ DOMAIN a = 1 .. i BY <2>3
  <2>5. Len(a) = i BY <2>4, LenProperties
  <2>6. i = 0 => a = <<>> BY <2>4, <2>5, EmptySeq
  <2>7. a = <<>> => i = 0 BY <2>5, EmptySeq
  <2> QED BY <1>2, <2>1, <2>4, <2>6, <2>7
<1> QED BY <1>3, <1>4, <1>5

LEMMA ExactGetMediaData ==
    ASSUME TypeInv, NEW m \in Medias, Exact(m), GetMediaData(m)
    PROVE  Exact(m)'
<1> DEFINE u == Len(out[m]) + 1
           f == frameType[m]
<1>1. /\ UNCHANGED <<frameType, units, left, late, net, out, VideoBuffer>>
      /\ pc[m] = "idle" /\ pc'[m] = "fetch" /\ prefixParameterOnce'[m] = FALSE
      /\ buf'[m] = IF prefixParameterOnce[m] THEN <<XPS(m)>> ELSE <<>>
  BY DEF GetMediaData, TypeInv, Types
<1>2. out[m] \in Seq(Seq(Item)) /\ f \in FrameType
  BY StreamsAssumption DEF TypeInv, Types
<1>3. Len(out[m]) \in Nat /\ (out[m] = <<>> <=> Len(out[m]) = 0)
  BY <1>2, LenProperties, EmptySeq
<1>4. prefixParameterOnce[m] <=> u = 1 /\ IsNALU(f)
  BY <1>1, <1>3 DEF Exact
<1>5. buf'[m] = Front(f, m, u) BY <1>1, <1>4 DEF Front
<1>6. u \in Nat /\ 0 \in Nat BY <1>3
<1> HIDE DEF f, u
<1>7. buf'[m] = Front(f, m, u) \o Part(f, m, u, 0)
  BY <1>2, <1>5, <1>6, PartType, ConcatEmptySeq
<1>8. Run(net[m], <<u, 1>>, ToSend(m)) BY <1>1 DEF Exact, InPlace, u
<1>9. ToSend(m)' = ToSend(m) BY <1>1 DEF ToSend
<1>10. Fetching(m, 0)'
  BY <1>1, <1>7, <1>8, <1>9, SMTT(30) DEF Fetching, Collected, f, u
<1>11. InPlace(m)' BY <1>1, <1>6, <1>10 DEF InPlace
<1>12. \A j \in 1 .. Len(net'[m]) : Genuine(m, net'[m][j]) BY <1>1 DEF Exact
<1> QED BY <1>1, <1>11, <1>12, ExactKept

LEMMA ExactNoData ==
    ASSUME TypeInv, NEW m \in Medias, Exact(m), NoData(m), faults'[m] = 0
    PROVE  Exact(m)'
<1> DEFINE u == Len(out[m]) + 1
           f == frameType[m]
<1>1. /\ UNCHANGED <<frameType, units, left, late, net, out, prefixParameterOnce>>
      /\ pc[m] = "fetch" /\ pc'[m] = "idle"
      /\ faults'[m] = faults[m] + IF buf[m] = <<>> THEN 0 ELSE 1
      /\ faults[m] \in Nat
  BY DEF NoData, ReturnNULL, Leave, TypeInv, Types
<1>2. buf[m] = <<>> BY <1>1
<1>3. PICK i \in Nat : Fetching(m, i) BY <1>1 DEF Exact, InPlace
<1>4. out[m] \in Seq(Seq(Item)) /\ f \in FrameType
  BY StreamsAssumption DEF TypeInv, Types
<1>5. Len(out[m]) \in Nat /\ u \in Nat /\ (out[m] = <<>> => u = 1)
  BY <1>4, LenProperties, EmptySeq
<1>6. Front(f, m, u) \o Part(f, m, u, i) = <<>>
  BY <1>2, <1>3 DEF Fetching, Collected
<1>7. Run(net[m], <<u, i + 1>>, ToSend(m)) BY <1>3 DEF Fetching
<1> HIDE DEF u, f
<1>8. Front(f, m, u) = <<>> /\ Part(f, m, u, i) = <<>>
  BY <1>4, <1>5, <1>6, PartType, ConcatEqualIffEmpty
<1>9. i = 0 /\ ~(u = 1 /\ IsNALU(f)) BY <1>4, <1>5, <1>8, PartType
<1>10. Run(net[m], <<u, 1>>, ToSend(m)) BY <1>7, <1>9
<1>11. ToSend(m)' = ToSend(m) BY <1>1 DEF ToSend
<1>12. InPlace(m)' BY <1>1, <1>10, <1>11 DEF InPlace, u
<1>13. \A j \in 1 .. Len(net'[m]) : Genuine(m, net'[m][j]) BY <1>1 DEF Exact
<1>14. ~prefixParameterOnce'[m] BY <1>1 DEF Exact
<1>15. ~(IsNALU(frameType[m]) /\ out[m] = <<>>) BY <1>5, <1>9 DEF f
<1> QED BY <1>1, <1>12, <1>13, <1>14, <1>15, ExactKept

LEMMA ExactFetch ==
    ASSUME TypeInv, NEW m \in Medias, Exact(m), FetchFits(m)
    PROVE  Exact(m)'
<1>0. PICK p : p = Head(net[m]) OBVIOUS
<1>1. /\ UNCHANGED <<frameType, units, left, late, out, buf, prefixParameterOnce>>
      /\ pc[m] = "fetch" /\ pc'[m] = "parse" /\ Fetch(m) /\ net[m] # <<>>
  BY DEF FetchFits, Fetch, TypeInv, Types
<1>2. /\ VideoBuffer' = p /\ p \in Packet /\ net'[m] = Tail(net[m])
      /\ net[m] \in Seq(Packet)
  BY <1>0, <1>1, FetchEffect DEF TypeInv, Types
<1>3. PICK i \in Nat : Fetching(m, i) BY <1>1 DEF Exact, InPlace
<1>4. Pos(p) = <<Len(out[m]) + 1, i + 1>> /\ Run(net'[m], After(p), ToSend(m))
  BY <1>0, <1>1, <1>2, <1>3, RunTail DEF Fetching
<1>5. p.unit = Len(out[m]) + 1 /\ p.i = i + 1 BY <1>4 DEF Pos
<1>6. p.i - 1 = i BY <1>5
<1>7. p = net[m][1] /\ Len(net[m]) \in Nat \ {0}
      /\ Len(net'[m]) = Len(net[m]) - 1
      /\ \A j \in 1 .. Len(net'[m]) : net'[m][j] = net[m][j + 1]
  BY <1>0, <1>1, <1>2, HeadTailProperties, EmptySeq
<1>8. Genuine(m, p) BY <1>7 DEF Exact
<1>9. ASSUME NEW j \in 1 .. Len(net'[m]) PROVE Genuine(m, net'[m][j])
  <2>1. j + 1 \in 1 .. Len(net[m]) BY <1>7
  <2> QED BY <1>7, <2>1 DEF Exact
<1>10. ToSend(m)' = ToSend(m) BY <1>1 DEF ToSend
<1>11. Collected(m, p.i - 1)' BY <1>1, <1>3, <1>6 DEF Fetching, Collected
<1>12. Genuine(m, p)' BY <1>1, <1>8 DEF Genuine
<1>13. Holding(m)'
  BY <1>1, <1>2, <1>4, <1>5, <1>10, <1>11, <1>12 DEF Holding, Collected, Genuine
<1>14. InPlace(m)' BY <1>1, <1>13 DEF InPlace
<1> QED BY <1>1, <1>9, <1>14, ExactKept DEF Exact

\* Where the packet that is held belongs, by Framed.
LEMMA HeldPacket ==
    ASSUME TypeInv, Sampled, Framed, NEW m \in Medias, Exact(m), pc[m] \in {"parse", "copy"}
    PROVE  /\ VideoBuffer \in Packet /\ Holding(m) /\ frameType[m] \in FrameType
           /\ VideoBuffer.media = m /\ VideoBuffer.unit = Len(out[m]) + 1
           /\ VideoBuffer.unit \in 1 .. Len(units[m]) /\ VideoBuffer.i <= VideoBuffer.n
           /\ VideoBuffer.n > 1 => VideoBuffer.nt \in {"FU_A", "FUs"} /\ IsNALU(frameType[m])
           /\ VideoBuffer.offset = units[m][VideoBuffer.unit].offset
           /\ VideoBuffer.n = units[m][VideoBuffer.unit].n
           /\ VideoBuffer.offset = 0 => Carries(frameType[m], VideoBuffer)
<1> DEFINE p == VideoBuffer
           f == frameType[m]
           s == units[m][p.unit]
<1>1. Holding(m) /\ Genuine(m, p) /\ p.unit = Len(out[m]) + 1
  BY DEF Exact, InPlace, Holding
<1>2. p \in Packet /\ frameType \in FrameTypes /\ f \in FrameType
  BY StreamsAssumption DEF TypeInv, Types, Held
<1>3. /\ p.unit \in 1 .. Len(units[m]) /\ p.media = m /\ p.i <= p.n
      /\ p.n = s.n /\ p.nt = s.nt /\ p.size = s.size /\ p.offset = s.offset
  BY <1>1 DEF Genuine
<1>4. s \in Shapes[m] BY <1>3 DEF Sampled
<1> HIDE DEF p, s
<1>5. /\ s.n > 1 => s.nt \in {"FU_A", "FUs"} /\ IsNALU(f)
      /\ f.EncodeType = "MPA" /\ s.offset = 0 => s.size > 4
  BY <1>2, <1>4 DEF Framed
<1>6. p.size \in Nat /\ p.offset \in Nat BY <1>2 DEF Packet
<1>7. ASSUME p.offset = 0 PROVE Carries(f, p)
  <2> SUFFICES ASSUME f.EncodeType = "MPA" PROVE p.size > SkipHeaderSize(f, p)
    BY DEF Carries
  <2>1. SkipHeaderSize(f, p) = 4 + p.offset BY DEF SkipHeaderSize, IsNALU
  <2> QED BY <1>3, <1>5, <1>6, <1>7, <2>1
<1> QED BY <1>1, <1>2, <1>3, <1>5, <1>7 DEF p, s

LEMMA ExactParse ==
    ASSUME TypeInv, Sampled, Framed, NEW m \in Medias, Exact(m), ParsePacket(m)
    PROVE  Exact(m)'
<1> DEFINE p == VideoBuffer
<1>1. PICK flags \in Parsed(m, p) \ {<<>>} :
         /\ StartFlag' = [StartFlag EXCEPT ![m] = flags[1]]
         /\ EndFlag' = [EndFlag EXCEPT ![m] = flags[2]]
  BY DEF ParsePacket
<1>2. /\ UNCHANGED <<frameType, prefixParameterOnce, VideoBuffer, buf, units, left, net,
                     late, out>>
      /\ pc[m] = "parse" /\ pc'[m] = "copy"
  BY DEF ParsePacket, TypeInv, Types
<1>3. /\ p \in Packet /\ Holding(m) /\ p.media = m /\ p.i <= p.n
      /\ p.n > 1 => p.nt \in {"FU_A", "FUs"}
  BY <1>2, HeldPacket
<1>4. flags = <<IsPacketStart(p), IsPacketEnd(p)>> BY <1>3 DEF Parsed
<1>5. p.i \in Nat \ {0} /\ p.n \in Nat \ {0} BY <1>3 DEF Packet
<1> HIDE DEF p
<1>6. IsPacketStart(p) = (p.i = 1) /\ IsPacketEnd(p) = (p.i = p.n)
  <2>1. CASE p.nt \in {"FU_A", "FUs"} BY <2>1 DEF IsPacketStart, IsPacketEnd
  <2>2. CASE p.nt \notin {"FU_A", "FUs"}
    <3>1. p.n = 1 /\ p.i = 1 BY <1>3, <1>5, <2>2
    <3> QED BY <2>2, <3>1 DEF IsPacketStart, IsPacketEnd
  <2> QED BY <2>1, <2>2
<1>7. StartFlag'[m] = flags[1] /\ EndFlag'[m] = flags[2]
  BY <1>1 DEF TypeInv, Types
<1>8. flags[1] = IsPacketStart(p) /\ flags[2] = IsPacketEnd(p) BY <1>4
<1>9. StartFlag'[m] = (p.i = 1) /\ EndFlag'[m] = (p.i = p.n)
  BY <1>6, <1>7, <1>8
<1>10. ToSend(m)' = ToSend(m) BY <1>2 DEF ToSend
<1>11. Holding(m)' BY <1>2, <1>3, <1>10 DEF Holding, Collected, Genuine
<1>12. InPlace(m)' BY <1>2, <1>9, <1>11 DEF InPlace, p
<1>13. \A j \in 1 .. Len(net'[m]) : Genuine(m, net'[m][j]) BY <1>2 DEF Exact
<1> QED BY <1>2, <1>12, <1>13, ExactKept DEF Exact

\* The last packet of a unit makes what was collected the unit.
LEMMA PartWhole ==
    ASSUME NEW m \in Medias, NEW k, NEW n \in Nat \ {0}, n = units[m][k].n
    PROVE  Part(frameType[m], m, k, n) = Whole(m, k)
<1>1. CASE IsNALU(frameType[m]) BY <1>1 DEF Part, Whole
<1>2. CASE ~IsNALU(frameType[m]) BY <1>2 DEF Part, Whole
<1> QED BY <1>1, <1>2

LEMMA ExactCopy ==
    ASSUME TypeInv, Sampled, Framed, NEW m \in Medias, Exact(m), CopyData(m)
    PROVE  Exact(m)'
<1>0. PICK p : p = VideoBuffer OBVIOUS
<1> DEFINE f == frameType[m]
           u == Len(out[m]) + 1
           F == Front(f, m, u)
           S == Seq(Item)
<1>1. /\ UNCHANGED <<frameType, prefixParameterOnce, VideoBuffer, units, left, net, late>>
      /\ pc[m] = "copy"
  BY DEF CopyData, Copy
<1>2. /\ p \in Packet /\ Holding(m) /\ f \in FrameType /\ p.media = m /\ p.unit = u
      /\ p.unit \in 1 .. Len(units[m]) /\ p.i <= p.n
      /\ p.n > 1 => IsNALU(f)
      /\ p.offset = units[m][u].offset /\ p.n = units[m][u].n
      /\ p.offset = 0 => Carries(f, p)
  BY <1>0, <1>1, HeldPacket
<1>3. p.i \in Nat \ {0} /\ p.n \in Nat \ {0} /\ p.offset \in Nat BY <1>2 DEF Packet
<1>4. /\ StartFlag[m] = (p.i = 1) /\ EndFlag[m] = (p.i = p.n)
      /\ buf[m] = F \o Part(f, m, u, p.i - 1)
      /\ Run(net[m], After(p), ToSend(m))
  BY <1>0, <1>1 DEF Exact, InPlace, Holding, Collected
<1>5. /\ out \in [Medias -> Seq(S)] /\ out[m] \in Seq(S)
  BY DEF TypeInv, Types
<1> HIDE DEF S
<1>6. Len(out[m]) \in Nat /\ u \in Nat BY <1>5, LenProperties
<1>7. PICK c : c = Copied(m) OBVIOUS
<1>8. c \in S BY <1>1, <1>7, CopiedItems DEF S
<1>9. c = buf[m] \o CopyItems(f, p, p.i = 1) BY <1>0, <1>4, <1>7 DEF Copied
<1> HIDE DEF f, u
<1>10. ASSUME IsNALU(f) \/ p.offset = 0 PROVE c = F \o Part(f, m, u, p.i)
  <2>1. IsNALU(f) \/ (p.i = 1 /\ Carries(f, p))
    BY <1>2, <1>3, <1>10
  <2> DEFINE a == Part(f, m, u, p.i - 1)
             b == CopyItems(f, p, p.i = 1)
  <2>2. a \in S /\ b \in S /\ a \o b = Part(f, m, u, p.i)
    BY <1>2, <2>1, PartGrows DEF S
  <2>3. F \in S BY <1>2, <1>6, PartType, 0 \in Nat DEF S
  <2>4. c = (F \o a) \o b BY <1>4, <1>9
  <2> HIDE DEF F, a, b
  <2>5. (F \o a) \o b = F \o (a \o b)
    <3>1. F \in Seq(Item) /\ a \in Seq(Item) /\ b \in Seq(Item) BY <2>2, <2>3 DEF S
    <3> QED BY <3>1, ConcatAssociative
  <2> QED BY <2>2, <2>4, <2>5
<1>11. \A j \in 1 .. Len(net'[m]) : Genuine(m, net'[m][j]) BY <1>1 DEF Exact
<1>12. ToSend(m)' = ToSend(m) BY <1>1 DEF ToSend
<1>13. CASE ~EndFlag[m]
  <2>1. /\ pc'[m] = "fetch" /\ buf'[m] = c /\ out' = out
    BY <1>7, <1>13 DEF CopyData, TypeInv, Types
  <2>2. p.i < p.n /\ p.n > 1
    <3>1. p.i # p.n BY <1>4, <1>13
    <3> QED BY <1>2, <1>3, <3>1
  <2>3. IsNALU(f) /\ After(p) = <<u, p.i + 1>> BY <1>2, <2>2 DEF After
  <2>4. Fetching(m, p.i)'
    BY <1>1, <1>4, <1>10, <1>12, <2>1, <2>3 DEF Fetching, Collected, f, u
  <2>5. InPlace(m)' BY <1>3, <2>1, <2>4 DEF InPlace
  <2> QED BY <1>1, <1>11, <2>1, <2>5, ExactKept DEF Exact
<1>14. CASE EndFlag[m]
  <2>1. /\ pc'[m] = "idle" /\ out' = [out EXCEPT ![m] = Append(out[m], c)]
    BY <1>7, <1>14 DEF CopyData, Return, Leave, TypeInv, Types
  <2>0. PICK o : o = Append(out[m], c) OBVIOUS
  <2>2. out'[m] = o BY <1>5, <2>0, <2>1
  <2>3. o # <<>> /\ Len(o) = u BY <1>5, <1>8, <2>0, AppendProperties DEF u
  <2>4. p.i = p.n BY <1>4, <1>14
  <2>5. After(p) = <<u + 1, 1>> BY <1>2, <1>3, <2>4 DEF After
  <2>6. InPlace(m)'
    BY <1>1, <1>4, <1>12, <2>1, <2>2, <2>3, <2>5 DEF InPlace
  <2>7. Len(out'[m]) <= Len(units'[m])
    BY <1>1, <1>2, <2>2, <2>3
  <2>8. ASSUME NEW k \in 1 .. Len(o), units[m][k].offset = 0
        PROVE  o[k] = Front(f, m, k) \o Whole(m, k)
    <3>1. (k \in 1 .. Len(out[m]) /\ o[k] = out[m][k]) \/ (k = u /\ o[k] = c)
      BY <1>5, <1>8, <2>0, Appended DEF u
    <3>2. CASE k \in 1 .. Len(out[m]) /\ o[k] = out[m][k]
      BY <2>8, <3>2 DEF Exact, f
    <3>3. CASE k = u /\ o[k] = c
      <4>1. c = F \o Part(f, m, u, p.n) BY <1>2, <1>10, <2>4, <2>8, <3>3
      <4>2. Part(f, m, u, p.n) = Whole(m, u) BY <1>2, <1>3, PartWhole DEF f
      <4> QED BY <3>3, <4>1, <4>2
    <3> QED BY <3>1, <3>2, <3>3
  <2>9. \A k : Whole(m, k)' = Whole(m, k) BY <1>1 DEF Whole
  <2>10. \A j \in 1 .. Len(net'[m]) : Genuine(m, net[m][j])'
    BY <1>1, <1>11 DEF Genuine
  <2>11. ~prefixParameterOnce'[m] BY <1>1 DEF Exact
  <2>12. late'[m] = {} BY <1>1 DEF Exact
  <2>13. \A k \in 1 .. Len(out'[m]) : units'[m][k].offset = 0 =>
            out'[m][k] = Front(frameType'[m], m, k) \o Whole(m, k)'
    BY <1>1, <2>2, <2>8, <2>9 DEF f
  <2> QED BY <2>2, <2>3, <2>6, <2>7, <2>10, <2>11, <2>12, <2>13 DEF Exact
<1> QED BY <1>13, <1>14 DEF TypeInv, Types

LEMMA ExactEnvironment ==
    ASSUME TypeInv, ExactInv, NEW m \in Medias, Environment(m)
    PROVE  ExactInv'
<1>1. /\ faults \in [Medias -> Nat] /\ net \in [Medias -> Seq(Packet)]
      /\ late \in [Medias -> SUBSET Packet]
  BY DEF TypeInv, Types
<1>2. UNCHANGED <<frameType, prefixParameterOnce, VideoBuffer, pc, StartFlag, EndFlag, buf,
                  out>>
  BY DEF Environment, Arrive, Lose, Delay, Duplicate, SendPacket, ArriveLate
<1>3. /\ Sampled'
      /\ \A n \in Medias : n # m => units'[n] = units[n] /\ left'[n] = left[n]
  <2>1. ASSUME NEW s \in Shapes[m], SendPacket(m, s)
        PROVE  /\ Sampled'
               /\ \A n \in Medias : n # m => units'[n] = units[n] /\ left'[n] = left[n]
    BY <2>1, SendPos DEF ExactInv
  <2>2. CASE ArriveLate(m) BY <2>2 DEF ArriveLate, ExactInv, Sampled
  <2> QED BY <2>1, <2>2 DEF Environment, Arrive, Lose, Delay, Duplicate
<1>4. \A n \in Medias : n # m => /\ net'[n] = net[n] /\ late'[n] = late[n]
                                 /\ faults'[n] = faults[n]
  BY <1>1 DEF Environment, Arrive, Lose, Delay, Duplicate, ArriveLate
<1>5. ASSUME faults'[m] = 0 PROVE Exact(m)'
  <2>1. faults[m] \in Nat BY <1>1
  <2>2. ASSUME NEW s \in Shapes[m] PROVE ~Lose(m, s) /\ ~Delay(m, s) /\ ~Duplicate(m, s)
    BY <1>1, <1>5, <2>1 DEF Lose, Delay, Duplicate
  <2>3. ASSUME NEW s \in Shapes[m], Arrive(m, s) PROVE Exact(m)'
    <3>1. faults[m] = 0 BY <1>5, <2>3 DEF Arrive
    <3> QED BY <2>3, <3>1, ExactArrive DEF ExactInv
  <2>4. ~ArriveLate(m)
    <3>1. SUFFICES ASSUME ArriveLate(m) PROVE FALSE OBVIOUS
    <3>2. faults[m] = 0 BY <1>5, <3>1 DEF ArriveLate
    <3>3. late[m] = {} BY <3>2 DEF ExactInv, Exact
    <3> QED BY <3>1, <3>3 DEF ArriveLate
  <2> QED BY <2>2, <2>3, <2>4 DEF Environment
<1>6. ASSUME NEW n \in Medias, n # m, faults'[n] = 0 PROVE Exact(n)'
  <2>1. Exact(n) BY <1>4, <1>6 DEF ExactInv
  <2> QED BY <1>2, <1>3, <1>4, <1>6, <2>1, ExactFrame
<1> QED BY <1>3, <1>5, <1>6 DEF ExactInv

LEMMA ExactStep ==
    ASSUME Framed, TypeInv, OwnInv, ExactInv, NEW m \in Medias, Step(m)
    PROVE  ExactInv'
<1>1. /\ faults \in [Medias -> Nat] /\ net \in [Medias -> Seq(Packet)]
      /\ StartFlag \in [Medias -> BOOLEAN] /\ EndFlag \in [Medias -> BOOLEAN]
  BY DEF TypeInv, Types
<1>2. /\ UNCHANGED <<frameType, prefixParameterOnce, units, left>> /\ pc[m] # "idle"
      /\ \A n \in Medias : n # m => /\ buf'[n] = buf[n] /\ out'[n] = out[n]
                                    /\ pc'[n] = pc[n]
  BY StepEffect
<1>3. Sampled' BY <1>2 DEF ExactInv, Sampled
<1>4. /\ late' = late
      /\ \A n \in Medias : n # m => /\ net'[n] = net[n] /\ faults'[n] = faults[n]
                                    /\ StartFlag'[n] = StartFlag[n] /\ EndFlag'[n] = EndFlag[n]
  BY <1>1 DEF Step, NoData, FetchEmpty, FetchTooLarge, FetchTruncated, FetchFits, Fetch,
              ParsePacket, ParsePacketError, CopyData, CopyDataRunsOff, Copy, Return,
              ReturnNULL, Leave
<1>5. ASSUME faults'[m] = 0 PROVE Exact(m)'
  <2>1. faults[m] \in Nat BY <1>1
  <2>2. /\ ~FetchTruncated(m) /\ ~ParsePacketError(m) /\ ~FetchEmpty(m)
        /\ ~FetchTooLarge(m) /\ ~CopyDataRunsOff(m)
    BY <1>1, <1>5, <2>1 DEF FetchTruncated, ParsePacketError, FetchEmpty, FetchTooLarge,
                            CopyDataRunsOff
  <2>3. faults[m] = 0
    <3>1. CASE NoData(m)
      <4>1. faults'[m] = faults[m] + IF buf[m] = <<>> THEN 0 ELSE 1
        BY <1>1, <3>1 DEF NoData
      <4> QED BY <1>5, <2>1, <4>1
    <3>2. CASE FetchFits(m) \/ ParsePacket(m) \/ CopyData(m)
      BY <1>5, <3>2 DEF FetchFits, ParsePacket, CopyData
    <3> QED BY <2>2, <3>1, <3>2 DEF Step
  <2>4. Exact(m) /\ Sampled BY <2>3 DEF ExactInv
  <2> QED BY <1>5, <2>2, <2>4, ExactNoData, ExactFetch, ExactParse, ExactCopy DEF Step
<1>6. ASSUME NEW n \in Medias, n # m, faults'[n] = 0 PROVE Exact(n)'
  <2>1. Exact(n) BY <1>4, <1>6 DEF ExactInv
  <2>2. pc[n] = "idle" BY <1>2, <1>6 DEF OwnInv, Alone
  <2> QED BY <1>2, <1>4, <1>6, <2>1, <2>2, ExactFrame
<1> QED BY <1>3, <1>5, <1>6 DEF ExactInv

LEMMA ExactNext ==
    ASSUME SingleThread, Framed
    PROVE  TypeInv /\ OwnInv /\ ExactInv /\ [Next]_vars => ExactInv'
<1> SUFFICES ASSUME TypeInv, OwnInv, ExactInv, [Next]_vars PROVE ExactInv'
  OBVIOUS
<1>1. ASSUME NEW m \in Medias, GetMediaData(m) PROVE ExactInv'
  <2>1. /\ prefixParameterOnce \in [Medias -> BOOLEAN] /\ buf \in [Medias -> Seq(Item)]
        /\ pc \in [Medias -> {"idle", "fetch", "parse", "copy"}]
    BY DEF TypeInv, Types
  <2>2. /\ UNCHANGED <<frameType, VideoBuffer, StartFlag, EndFlag, units, left, net, late, out,
                       faults>>
        /\ \A n \in Medias : n # m => /\ pc'[n] = pc[n] /\ buf'[n] = buf[n]
                                      /\ prefixParameterOnce'[n] = prefixParameterOnce[n]
    BY <1>1, <2>1 DEF GetMediaData
  <2>3. Sampled' BY <2>2 DEF ExactInv, Sampled
  <2>4. ASSUME NEW n \in Medias, faults'[n] = 0 PROVE Exact(n)'
    <3>1. Exact(n) BY <2>2, <2>4 DEF ExactInv
    <3>2. CASE n = m BY <1>1, <3>1, <3>2, ExactGetMediaData
    <3>3. CASE n # m BY <2>2, <3>1, <3>3, ExactFrame
    <3> QED BY <3>2, <3>3
  <2> QED BY <2>3, <2>4 DEF ExactInv
<1>2. CASE UNCHANGED vars
  <2>1. Sampled' BY <1>2 DEF vars, ExactInv, Sampled
  <2>2. ASSUME NEW n \in Medias, faults'[n] = 0 PROVE Exact(n)'
    <3>1. Exact(n) BY <1>2, <2>2 DEF vars, ExactInv
    <3> QED BY <1>2, <3>1, ExactFrame DEF vars
  <2> QED BY <2>1, <2>2 DEF ExactInv
<1> QED BY <1>1, <1>2, ExactEnvironment, ExactStep DEF Next

LEMMA ExactInit == Init => ExactInv
<1> SUFFICES ASSUME Init PROVE ExactInv
  OBVIOUS
<1>1. Sampled BY DEF Init, Sampled
<1>2. ASSUME NEW m \in Medias PROVE Exact(m)
  <2>1. /\ late[m] = {} /\ net[m] = <<>> /\ out[m] = <<>> /\ units[m] = <<>> /\ left[m] = 0
        /\ pc[m] = "idle" /\ (prefixParameterOnce[m] <=> IsNALU(frameType[m]))
    BY DEF Init, IsNALU
  <2>2. Len(<<>>) = 0 BY EmptySeq
  <2>3. ToSend(m) = <<1, 1>> BY <2>1, <2>2 DEF ToSend
  <2>4. Run(net[m], <<1, 1>>, <<1, 1>>) BY <2>1, <2>2 DEF Run
  <2>5. InPlace(m) BY <2>1, <2>2, <2>3, <2>4 DEF InPlace
  <2> QED BY <2>1, <2>2, <2>5 DEF Exact
<1> QED BY <1>1, <1>2 DEF ExactInv

\* Of a media without faults every call of GetMediaData that returns data
\* returns exactly the next unit, with the parameter sets in front of the first:
\* nothing is lost, repeated or torn by the loop over packets, whatever the
\* other medias and the network do meanwhile.
THEOREM MediaExact == ASSUME SingleThread, Framed PROVE Spec => []ExactWithoutFaults
<1>1. ExactInv => ExactWithoutFaults
  BY DEF ExactInv, Exact, ExactWithoutFaults, Front
<1> QED BY <1>1, ExactInit, ExactNext, TypeAlways, OwnAlways, PTL DEF Spec
=============================================================================
