------------------------- MODULE MediaDamageProofs -------------------------
(***************************************************************************)
(* DamageContained of MediaData, for any streams, sizes and faults.        *)
(*                                                                         *)
(* The argument is an account: a unit that will not come out whole, and a  *)
(* late packet that may still break into one, are each paid for by a fault *)
(* counted before.  What remains is to show that a unit is fine as long as *)
(* the queue, and the call that took its first packets, hold all of it.    *)
(***************************************************************************)
EXTENDS MediaDataProofs

Less(a, b) == a[1] < b[1] \/ (a[1] = b[1] /\ a[2] < b[2])

\* Packet p of media m was sent, and as its unit was framed.
Emitted(m, p) == Genuine(m, p) /\ Less(Pos(p), ToSend(m))
\* The queue is in the order of sending, and nothing in flight is invented.
Ordered(m) == \A j, k \in 1 .. Len(net[m]) : j < k => Before(net[m][j], net[m][k])
Known(m) ==
    /\ \A j \in 1 .. Len(net[m]) : Emitted(m, net[m][j])
    /\ \A p \in late[m] : Emitted(m, p)
    /\ IsFiniteSet(late[m])

\* Packet i of unit u is in the queue; those of unit u behind packet c are, as
\* far as they were sent.
At(m, u, i) == \E j \in 1 .. Len(net[m]) : Pos(net[m][j]) = <<u, i>>
Rest(m, u, c) ==
    \A i \in c + 1 .. units[m][u].n : Less(<<u, i>>, ToSend(m)) => At(m, u, i)
EndsWith(s, w) == \E k \in 0 .. Len(s) : s = SubSeq(s, 1, k) \o w

\* Unit u was returned, or is in the queue with all its packets.
Came(m, u) == \E k \in 1 .. Len(out[m]) : Contains(out[m][k], Whole(m, u))
Waiting(m, u) == Rest(m, u, 0)
\* A call has collected its packets up to c, or those before c and holds c; the
\* others are next in the queue.
Gathered(m, u, c) ==
    /\ pc[m] = "fetch"
    /\ c < units[m][u].n /\ EndsWith(buf[m], Part(frameType[m], m, u, c))
HeldAt(m, u, c) ==
    /\ pc[m] \in {"parse", "copy"}
    /\ Genuine(m, VideoBuffer) /\ Pos(VideoBuffer) = <<u, c>>
    /\ EndsWith(buf[m], Part(frameType[m], m, u, c - 1))
    /\ pc[m] = "copy" => /\ StartFlag[m] = (c = 1)
                         /\ EndFlag[m] = (c = units[m][u].n)
Opened(m, u, c) ==
    /\ Gathered(m, u, c) \/ HeldAt(m, u, c)
    /\ Less(<<u, c>>, ToSend(m)) /\ Rest(m, u, c)
    /\ \A j \in 1 .. Len(net[m]) : Less(<<u, c>>, Pos(net[m][j]))
Open(m, u) == \E c \in 1 .. units[m][u].n : Opened(m, u, c)
Fine(m, u) == Came(m, u) \/ Waiting(m, u) \/ Open(m, u)

\* The units that will not come out whole; each of them, and each packet that
\* may still break into a unit, is paid for by a fault.
Lost(m) == {u \in 1 .. Len(units[m]) : units[m][u].offset = 0 /\ ~Fine(m, u)}
Paid(m) == Cardinality(Lost(m)) + Cardinality(late[m]) <= faults[m]
Damage(m) == Ordered(m) /\ Known(m) /\ Paid(m)
DamageInv == Sampled /\ \A m \in Medias : Damage(m)

-----------------------------------------------------------------------------
(* Positions *)

\* Positions are ordered, and nothing lies between a packet and the next one.
LEMMA LessOrder ==
    ASSUME NEW a \in Nat \X Nat, NEW b \in Nat \X Nat
    PROVE  /\ ~(Less(a, b) /\ Less(b, a)) /\ ~Less(a, a)
           /\ Less(a, b) \/ Less(b, a) \/ a = b
           /\ \A c \in Nat \X Nat : Less(a, b) /\ Less(b, c) => Less(a, c)
           /\ \A u, i \in Nat : Less(<<u, i>>, a) /\ Less(a, b) => Less(<<u, i + 1>>, b)
<1>1. PICK x, y \in Nat : a = <<x, y>> OBVIOUS
<1>2. PICK v, w \in Nat : b = <<v, w>> OBVIOUS
<1>3. ASSUME NEW c \in Nat \X Nat, Less(a, b), Less(b, c) PROVE Less(a, c)
  <2>1. PICK r, s \in Nat : c = <<r, s>> OBVIOUS
  <2> QED BY <1>1, <1>2, <1>3, <2>1 DEF Less
<1>4. ASSUME NEW u \in Nat, NEW i \in Nat, Less(<<u, i>>, a), Less(a, b)
      PROVE  Less(<<u, i + 1>>, b)
  BY <1>1, <1>2, <1>4 DEF Less
<1>5. /\ ~(Less(a, b) /\ Less(b, a)) /\ ~Less(a, a)
      /\ Less(a, b) \/ Less(b, a) \/ a = b
  BY <1>1, <1>2 DEF Less
<1> QED BY <1>3, <1>4, <1>5

\* The position of a packet; Before of the code compares positions.
LEMMA PosType ==
    ASSUME NEW p \in Packet
    PROVE  /\ Pos(p) \in Nat \X Nat /\ Pos(p) = <<p.unit, p.i>>
           /\ p.unit \in Nat \ {0} /\ p.i \in Nat \ {0} /\ p.n \in Nat \ {0}
           /\ \A q \in Packet : Before(p, q) <=> Less(Pos(p), Pos(q))
<1>1. p.unit \in Nat \ {0} /\ p.i \in Nat \ {0} /\ p.n \in Nat \ {0} BY DEF Packet
<1>2. Pos(p) \in Nat \X Nat /\ Pos(p) = <<p.unit, p.i>> BY <1>1 DEF Pos
<1>3. \A q \in Packet : Before(p, q) <=> Less(Pos(p), Pos(q)) BY DEF Before, Less, Pos
<1> QED BY <1>1, <1>2, <1>3

\* The server is at a position behind every unit but its last.
LEMMA ToSendType ==
    ASSUME TypeInv, NEW m \in Medias
    PROVE  /\ ToSend(m) \in Nat \X Nat /\ Len(units[m]) \in Nat
           /\ \A u \in 1 .. Len(units[m]) :
                 units[m][u] \in Shape /\ units[m][u].n \in Nat \ {0}
           /\ \A u, i \in Nat : i # 0 /\ u > Len(units[m]) => ~Less(<<u, i>>, ToSend(m))
           /\ \A u \in 1 .. Len(units[m]) : \A i \in Nat :
                 (u < Len(units[m]) \/ Sent(m)) => Less(<<u, i>>, ToSend(m))
<1>1. units[m] \in Seq(Shape) /\ left[m] \in Nat BY DEF TypeInv, Types
<1>2. Len(units[m]) \in Nat /\ \A u \in 1 .. Len(units[m]) : units[m][u] \in Shape
  BY <1>1, LenProperties, ElementOfSeq
<1>3. \A u \in 1 .. Len(units[m]) : units[m][u].n \in Nat \ {0} BY <1>2 DEF Shape
<1>4. CASE left[m] = 0
  <2>1. ToSend(m) = <<Len(units[m]) + 1, 1>> BY <1>4 DEF ToSend
  <2> QED BY <1>2, <1>3, <2>1 DEF Less
<1>5. CASE left[m] # 0
  <2>1. /\ ToSend(m) = <<Len(units[m]), units[m][Len(units[m])].n - left[m] + 1>>
        /\ units[m] # <<>> /\ left[m] < units[m][Len(units[m])].n
    BY <1>5 DEF ToSend, TypeInv, Sending
  <2>2. Len(units[m]) \in 1 .. Len(units[m]) BY <1>1, <1>2, <2>1, EmptySeq
  <2>3. units[m][Len(units[m])].n - left[m] + 1 \in Nat
    BY <1>1, <1>3, <2>1, <2>2
  <2>4. ~Sent(m) BY <1>5 DEF Sent
  <2> QED BY <1>2, <1>3, <2>1, <2>3, <2>4 DEF Less
<1> QED BY <1>4, <1>5

\* After packet p was sent, p and what was sent before it are sent.
LEMMA LessAfter ==
    ASSUME NEW p \in Packet, p.i <= p.n
    PROVE  /\ After(p) \in Nat \X Nat /\ Less(Pos(p), After(p))
           /\ \A a \in Nat \X Nat : Less(a, Pos(p)) => Less(a, After(p))
           /\ \A u, i \in Nat :
                 i # 0 /\ (u = p.unit => i <= p.n) /\ Less(<<u, i>>, After(p))
                    => Less(<<u, i>>, Pos(p)) \/ <<u, i>> = Pos(p)
<1>1. p.unit \in Nat \ {0} /\ p.i \in Nat \ {0} /\ p.n \in Nat \ {0} BY DEF Packet
<1>2. CASE p.i < p.n
  <2>1. After(p) = <<p.unit, p.i + 1>> BY <1>2 DEF After
  <2> QED BY <1>1, <2>1 DEF Less, Pos
<1>3. CASE p.i = p.n
  <2>1. After(p) = <<p.unit + 1, 1>> BY <1>1, <1>3 DEF After
  <2> QED BY <1>1, <1>3, <2>1 DEF Less, Pos
<1>4. p.i < p.n \/ p.i = p.n BY <1>1
<1> QED BY <1>2, <1>3, <1>4

-----------------------------------------------------------------------------
(* Operators *)

\* Anything with w appended ends with w.
LEMMA EndsWithConcat ==
    ASSUME NEW S, NEW a \in Seq(S), NEW w \in Seq(S)
    PROVE  EndsWith(a \o w, w)
<1> DEFINE s == a \o w
<1>1. Len(a) \in Nat /\ Len(w) \in Nat BY LenProperties
<1>2. /\ s \in Seq(S) /\ Len(s) = Len(a) + Len(w)
      /\ \A i \in 1 .. Len(a) + Len(w) : s[i] = IF i <= Len(a) THEN a[i] ELSE w[i - Len(a)]
  BY ConcatProperties
<1>3. SubSeq(s, 1, Len(a)) = a
  <2>1. \A i \in 1 .. Len(a) : s[i] \in S
    BY <1>1, <1>2, ElementOfSeq
  <2> HIDE DEF s
  <2> DEFINE t == SubSeq(s, 1, Len(a))
  <2>2. /\ t \in Seq(S) /\ Len(t) = IF 1 <= Len(a) THEN Len(a) - 1 + 1 ELSE 0
        /\ \A i \in 1 .. Len(a) - 1 + 1 : t[i] = s[1 + i - 1]
    BY <1>1, <1>2, <2>1, SubSeqProperties
  <2> HIDE DEF t
  <2>3. Len(t) = Len(a) /\ \A i \in 1 .. Len(a) : t[i] = a[i]
    BY <1>1, <1>2, <2>2
  <2>4. t = a BY <2>2, <2>3, SeqEqual
  <2> QED BY <2>4 DEF t
<1>4. Len(a) \in 0 .. Len(s) BY <1>1, <1>2
<1>5. s = SubSeq(s, 1, Len(a)) \o w BY <1>3
<1> QED BY <1>4, <1>5 DEF EndsWith

\* What ends with w is something and w.
LEMMA EndsWithFront ==
    ASSUME NEW S, NEW s \in Seq(S), NEW w \in Seq(S), EndsWith(s, w)
    PROVE  \E a \in Seq(S) : s = a \o w
<1>1. PICK k \in 0 .. Len(s) : s = SubSeq(s, 1, k) \o w BY DEF EndsWith
<1>2. Len(s) \in Nat /\ \A i \in 1 .. Len(s) : s[i] \in S BY LenProperties, ElementOfSeq
<1>3. \A i \in 1 .. k : s[i] \in S BY <1>2
<1>4. SubSeq(s, 1, k) \in Seq(S) BY <1>2, <1>3, SubSeqProperties
<1> QED BY <1>1, <1>4

\* A sequence that ends with w contains w.
LEMMA ContainsEnd ==
    ASSUME NEW S, NEW s \in Seq(S), NEW w \in Seq(S), EndsWith(s, w)
    PROVE  Contains(s, w)
<1>1. PICK a \in Seq(S) : s = a \o w BY EndsWithFront
<1>2. Len(a) \in Nat /\ Len(w) \in Nat BY LenProperties
<1>3. /\ Len(s) = Len(a) + Len(w)
      /\ \A i \in 1 .. Len(a) + Len(w) : s[i] = IF i <= Len(a) THEN a[i] ELSE w[i - Len(a)]
  BY <1>1, ConcatProperties
<1> DEFINE x == Len(a) + 1
           y == Len(a) + Len(w)
           t == SubSeq(s, x, y)
<1>4. \A i \in x .. y : s[i] \in S BY <1>2, <1>3, ElementOfSeq
<1>5. /\ t \in Seq(S) /\ Len(t) = IF x <= y THEN y - x + 1 ELSE 0
      /\ \A i \in 1 .. y - x + 1 : t[i] = s[x + i - 1]
  <2>1. x \in Int /\ y \in Int BY <1>2
  <2> HIDE DEF x, y
  <2> QED BY <1>4, <2>1, SubSeqProperties
<1> HIDE DEF t
<1>6. Len(t) = Len(w) BY <1>2, <1>5
<1>7. ASSUME NEW i \in 1 .. Len(w) PROVE t[i] = w[i]
  <2>1. i \in 1 .. y - x + 1 /\ x + i - 1 = Len(a) + i BY <1>2
  <2>2. t[i] = s[Len(a) + i] BY <1>5, <2>1
  <2>3. Len(a) + i \in 1 .. Len(a) + Len(w) /\ ~(Len(a) + i <= Len(a))
        /\ (Len(a) + i) - Len(a) = i
    BY <1>2
  <2> QED BY <1>3, <2>2, <2>3
<1>8. t = w BY <1>5, <1>6, <1>7, SeqEqual
<1>9. Len(a) \in 0 .. Len(s) - Len(w) BY <1>2, <1>3
<1> QED BY <1>8, <1>9 DEF Contains, t, x, y

\* The order of sending is transitive.
LEMMA BeforeTransitive ==
    ASSUME NEW p \in Packet, NEW q \in Packet, NEW r \in Packet, Before(p, q), Before(q, r)
    PROVE  Before(p, r)
<1>1. /\ p.unit \in Nat /\ p.i \in Nat /\ q.unit \in Nat /\ q.i \in Nat
      /\ r.unit \in Nat /\ r.i \in Nat
  BY DEF Packet
<1> QED BY <1>1 DEF Before

\* In a queue in order, Insert finds the place: packets before p are in front.
LEMMA InsertPlace ==
    ASSUME NEW q \in Seq(Packet), NEW p \in Packet, NEW k \in 0 .. Len(q),
           k = Cardinality({j \in 1 .. Len(q) : Before(q[j], p)}),
           \A i, j \in 1 .. Len(q) : i < j => Before(q[i], q[j])
    PROVE  \A j \in 1 .. Len(q) : j <= k <=> Before(q[j], p)
<1> DEFINE B == {j \in 1 .. Len(q) : Before(q[j], p)}
<1>1. Len(q) \in Nat /\ \A j \in 1 .. Len(q) : q[j] \in Packet
  BY LenProperties, ElementOfSeq
<1>2. IsFiniteSet(B)
  <2>1. IsFiniteSet(1 .. Len(q)) BY <1>1, FS_Interval
  <2>2. B \subseteq 1 .. Len(q) OBVIOUS
  <2> QED BY <2>1, <2>2, FS_Subset
<1>3. ASSUME NEW i \in 1 .. Len(q), NEW j \in B, i <= j PROVE i \in B
  <2>1. CASE i = j BY <2>1
  <2>2. CASE i # j
    <3>1. i < j /\ j \in 1 .. Len(q) /\ Before(q[j], p) BY <1>1, <1>3, <2>2
    <3>2. Before(q[i], q[j]) BY <3>1
    <3>3. q[i] \in Packet /\ q[j] \in Packet BY <1>1, <3>1
    <3>4. Before(q[i], p) BY <3>1, <3>2, <3>3, BeforeTransitive
    <3> QED BY <3>4
  <2> QED BY <2>1, <2>2
<1>4. ASSUME NEW j \in 1 .. Len(q), j <= k PROVE j \in B
  <2> SUFFICES ASSUME j \notin B PROVE FALSE OBVIOUS
  <2>1. B \subseteq 1 .. j - 1
    <3> SUFFICES ASSUME NEW l \in B PROVE l \in 1 .. j - 1 OBVIOUS
    <3>1. ~(j <= l) BY <1>3
    <3> QED BY <1>1, <3>1
  <2>2. IsFiniteSet(1 .. j - 1) /\ Cardinality(1 .. j - 1) = j - 1
    <3>1. 1 \in Int /\ j - 1 \in Int /\ (1 > j - 1 => j - 1 = 0) /\ (j - 1) - 1 + 1 = j - 1
      BY <1>1
    <3> QED BY <3>1, FS_Interval
  <2>3. Cardinality(B) <= j - 1 BY <2>1, <2>2, FS_Subset
  <2>4. Cardinality(B) = k OBVIOUS
  <2> QED BY <1>1, <1>4, <2>3, <2>4
<1>5. ASSUME NEW j \in B PROVE j <= k
  <2>1. 1 .. j \subseteq B
    <3> SUFFICES ASSUME NEW l \in 1 .. j PROVE l \in B OBVIOUS
    <3>1. l \in 1 .. Len(q) /\ l <= j BY <1>1
    <3> QED BY <1>3, <3>1
  <2>2. Cardinality(1 .. j) = j
    <3>1. 1 \in Int /\ j \in Int /\ ~(1 > j) /\ j - 1 + 1 = j BY <1>1
    <3> QED BY <3>1, FS_Interval
  <2>3. Cardinality(1 .. j) <= Cardinality(B) BY <1>2, <2>1, FS_Subset
  <2>4. Cardinality(B) = k OBVIOUS
  <2> QED BY <2>2, <2>3, <2>4
<1> QED BY <1>4, <1>5

\* Insert keeps the queue in order, keeps what is in it and adds p.
LEMMA InsertOrdered ==
    ASSUME NEW q \in Seq(Packet), NEW p \in Packet,
           \A i, j \in 1 .. Len(q) : i < j => Before(q[i], q[j]),
           \A j \in 1 .. Len(q) : Pos(q[j]) # Pos(p)
    PROVE  \E r \in Seq(Packet) :
              /\ r = Insert(q, p)
              /\ \A i, j \in 1 .. Len(r) : i < j => Before(r[i], r[j])
              /\ \A j \in 1 .. Len(r) : r[j] = p \/ \E l \in 1 .. Len(q) : r[j] = q[l]
              /\ \A l \in 1 .. Len(q) : \E j \in 1 .. Len(r) : r[j] = q[l]
<1>1. Len(q) \in Nat /\ \A j \in 1 .. Len(q) : q[j] \in Packet
  BY LenProperties, ElementOfSeq
<1>2. ~ \E j \in 1 .. Len(q) : q[j] = p OBVIOUS
<1>3. PICK r : r = Insert(q, p) OBVIOUS
<1>4. PICK k \in 0 .. Len(q) :
         /\ k = Cardinality({j \in 1 .. Len(q) : Before(q[j], p)})
         /\ r \in Seq(Packet) /\ Len(r) = Len(q) + 1
         /\ \A i \in 1 .. k : r[i] = q[i]
         /\ r[k + 1] = p
         /\ \A i \in k + 2 .. Len(q) + 1 : r[i] = q[i - 1]
  BY <1>2, <1>3, InsertAt
<1>5. \A j \in 1 .. Len(q) : j <= k <=> Before(q[j], p)
  BY <1>4, InsertPlace
<1>6. ASSUME NEW j \in 1 .. Len(q), ~(j <= k) PROVE Before(p, q[j])
  <2>1. ~Less(Pos(q[j]), Pos(p)) BY <1>1, <1>5, <1>6, PosType
  <2>2. Less(Pos(p), Pos(q[j]))
    BY <1>1, <2>1, PosType, LessOrder
  <2> QED BY <1>1, <2>2, PosType
<1>7. ASSUME NEW i \in 1 .. Len(r), NEW j \in 1 .. Len(r), i < j PROVE Before(r[i], r[j])
  <2>1. CASE j <= k
    <3>1. i \in 1 .. k /\ j \in 1 .. k /\ i \in 1 .. Len(q) /\ j \in 1 .. Len(q)
      BY <1>1, <1>4, <1>7, <2>1
    <3> QED BY <1>4, <1>7, <3>1
  <2>2. CASE j = k + 1
    <3>1. i \in 1 .. k /\ i \in 1 .. Len(q) /\ i <= k BY <1>1, <1>4, <1>7, <2>2
    <3> QED BY <1>4, <1>5, <2>2, <3>1
  <2>3. CASE j > k + 1
    <3>1. j \in k + 2 .. Len(q) + 1 /\ j - 1 \in 1 .. Len(q) /\ ~(j - 1 <= k)
      BY <1>1, <1>4, <2>3
    <3>2. r[j] = q[j - 1] BY <1>4, <3>1
    <3>3. CASE i <= k
      <4>1. i \in 1 .. k /\ i \in 1 .. Len(q) /\ i < j - 1 BY <1>1, <1>4, <1>7, <2>3, <3>3
      <4> QED BY <1>4, <3>1, <3>2, <4>1
    <3>4. CASE i = k + 1 BY <1>4, <1>6, <3>1, <3>2, <3>4
    <3>5. CASE i > k + 1
      <4>1. i \in k + 2 .. Len(q) + 1 /\ i - 1 \in 1 .. Len(q) /\ i - 1 < j - 1
        BY <1>1, <1>4, <1>7, <3>5
      <4>2. r[i] = q[i - 1] BY <1>4, <4>1
      <4> QED BY <3>1, <3>2, <4>1, <4>2
    <3> QED BY <1>4, <3>3, <3>4, <3>5
  <2> QED BY <1>4, <2>1, <2>2, <2>3
<1>8. \A j \in 1 .. Len(r) : r[j] = p \/ \E l \in 1 .. Len(q) : r[j] = q[l]
  BY <1>3, InsertType
<1>9. ASSUME NEW l \in 1 .. Len(q) PROVE \E j \in 1 .. Len(r) : r[j] = q[l]
  <2>1. CASE l <= k
    <3>1. l \in 1 .. k /\ l \in 1 .. Len(r) BY <1>1, <1>4, <2>1
    <3> QED BY <1>4, <3>1
  <2>2. CASE ~(l <= k)
    <3>1. l + 1 \in k + 2 .. Len(q) + 1 /\ l + 1 \in 1 .. Len(r) /\ (l + 1) - 1 = l
      BY <1>1, <1>4, <2>2
    <3>2. r[l + 1] = q[(l + 1) - 1] BY <1>4, <3>1
    <3> QED BY <3>1, <3>2
  <2> QED BY <2>1, <2>2
<1> QED BY <1>3, <1>4, <1>7, <1>8, <1>9

\* What ends with the first c packets of unit u ends with the data of packet c.
LEMMA PartLast ==
    ASSUME NEW f \in FrameType, NEW m \in Medias, NEW u \in Nat, NEW c \in Nat \ {0},
           NEW s \in Seq(Item), EndsWith(s, Part(f, m, u, c))
    PROVE  Len(s) \in Nat \ {0} /\ s[Len(s)] = <<m, u, c>>
<1>1. PICK w : w = Part(f, m, u, c) OBVIOUS
<1>2. w \in Seq(Item) BY <1>1, PartType
<1>3. Len(w) \in Nat \ {0} /\ w[Len(w)] = <<m, u, c>>
  <2>1. CASE IsNALU(f)
    <3>1. w = [k \in 1 .. c + 1 |-> <<m, u, k - 1>>] BY <1>1, <2>1 DEF Part
    <3>2. c + 1 \in Nat /\ c + 1 \in 1 .. c + 1 /\ (c + 1) - 1 = c OBVIOUS
    <3>3. Len(w) = c + 1 /\ w[c + 1] = <<m, u, (c + 1) - 1>>
      BY <3>1, <3>2, NumberedItems
    <3> QED BY <3>2, <3>3
  <2>2. CASE ~IsNALU(f)
    <3>1. w = [k \in 1 .. c |-> <<m, u, k>>] BY <1>1, <2>2 DEF Part
    <3>2. DOMAIN w = 1 .. c BY <3>1
    <3>3. Len(w) = c BY <1>2, <3>2, LenProperties
    <3>4. w[c] = <<m, u, c>> BY <3>1
    <3> QED BY <3>3, <3>4
  <2> QED BY <2>1, <2>2
<1>4. PICK a \in Seq(Item) : s = a \o w BY <1>1, <1>2, EndsWithFront
<1>5. Len(a) \in Nat BY LenProperties
<1>6. /\ Len(s) = Len(a) + Len(w)
      /\ \A i \in 1 .. Len(a) + Len(w) : s[i] = IF i <= Len(a) THEN a[i] ELSE w[i - Len(a)]
  BY <1>2, <1>4, ConcatProperties
<1>7. /\ Len(s) \in 1 .. Len(a) + Len(w) /\ ~(Len(s) <= Len(a)) /\ Len(s) - Len(a) = Len(w)
      /\ Len(s) \in Nat \ {0}
  BY <1>3, <1>5, <1>6
<1>8. s[Len(s)] = w[Len(s) - Len(a)] BY <1>6, <1>7
<1> QED BY <1>3, <1>7, <1>8

\* A call collects one unit at a time.
LEMMA OneOpen ==
    ASSUME TypeInv, NEW m \in Medias, NEW u \in 1 .. Len(units[m]), Open(m, u),
           NEW v \in 1 .. Len(units[m]), Open(m, v)
    PROVE  u = v
<1>1. PICK c \in 1 .. units[m][u].n : Opened(m, u, c) BY DEF Open
<1>2. PICK d \in 1 .. units[m][v].n : Opened(m, v, d) BY DEF Open
<1>3. /\ frameType[m] \in FrameType /\ buf[m] \in Seq(Item)
      /\ u \in Nat /\ v \in Nat /\ c \in Nat \ {0} /\ d \in Nat \ {0}
  <2>1. frameType \in FrameTypes /\ buf[m] \in Seq(Item) BY DEF TypeInv, Types
  <2>2. frameType[m] \in FrameType BY <2>1, StreamsAssumption
  <2>3. /\ Len(units[m]) \in Nat /\ units[m][u].n \in Nat \ {0}
        /\ units[m][v].n \in Nat \ {0}
    BY ToSendType
  <2> QED BY <2>1, <2>2, <2>3
<1>4. CASE pc[m] = "fetch"
  <2>1. /\ EndsWith(buf[m], Part(frameType[m], m, u, c))
        /\ EndsWith(buf[m], Part(frameType[m], m, v, d))
    BY <1>1, <1>2, <1>4 DEF Opened, Gathered, HeldAt
  <2>2. <<m, u, c>> = <<m, v, d>> BY <1>3, <2>1, PartLast
  <2> QED BY <2>2
<1>5. CASE pc[m] # "fetch"
  <2>1. Pos(VideoBuffer) = <<u, c>> /\ Pos(VideoBuffer) = <<v, d>>
    BY <1>1, <1>2, <1>5 DEF Opened, Gathered, HeldAt
  <2> QED BY <2>1
<1> QED BY <1>4, <1>5

\* What one more unit lost does to the account.
LEMMA LostCount ==
    ASSUME TypeInv, TypeInv', NEW m \in Medias
    PROVE  /\ IsFiniteSet(Lost(m)) /\ Cardinality(Lost(m)) \in Nat
           /\ IsFiniteSet(Lost(m)') /\ Cardinality(Lost(m)') \in Nat
           /\ Lost(m)' \subseteq Lost(m) => Cardinality(Lost(m)') <= Cardinality(Lost(m))
           /\ \A x : Lost(m)' \subseteq Lost(m) \cup {x} =>
                 Cardinality(Lost(m)') <= Cardinality(Lost(m)) + 1
<1>1. Len(units[m]) \in Nat /\ Len(units'[m]) \in Nat
  BY LenProperties DEF TypeInv, Types
<1>2. IsFiniteSet(1 .. Len(units[m])) /\ IsFiniteSet(1 .. Len(units'[m]))
  <2>1. ASSUME NEW k \in Nat PROVE IsFiniteSet(1 .. k) BY FS_Interval
  <2> QED BY <1>1, <2>1
<1>3. Lost(m) \subseteq 1 .. Len(units[m]) /\ Lost(m)' \subseteq 1 .. Len(units'[m])
  BY DEF Lost
<1>4. PICK L : L = Lost(m) OBVIOUS
<1>5. PICK M : M = Lost(m)' OBVIOUS
<1>6. IsFiniteSet(L) /\ Cardinality(L) \in Nat /\ IsFiniteSet(M) /\ Cardinality(M) \in Nat
  <2>1. IsFiniteSet(L) /\ IsFiniteSet(M) BY <1>2, <1>3, <1>4, <1>5, FS_Subset
  <2> QED BY <2>1, FS_CardinalityType
<1>7. M \subseteq L => Cardinality(M) <= Cardinality(L) BY <1>6, FS_Subset
<1>8. ASSUME NEW x, M \subseteq L \cup {x} PROVE Cardinality(M) <= Cardinality(L) + 1
  <2>1. IsFiniteSet(L \cup {x}) /\ Cardinality(L \cup {x}) <= Cardinality(L) + 1
    <3>1. /\ IsFiniteSet(L \cup {x})
          /\ x \in L => Cardinality(L \cup {x}) = Cardinality(L)
          /\ x \notin L => Cardinality(L \cup {x}) = Cardinality(L) + 1
      BY <1>6, FS_AddElement
    <3> QED BY <1>6, <3>1
  <2>2. Cardinality(M) <= Cardinality(L \cup {x}) BY <1>8, <2>1, FS_Subset
  <2>3. Cardinality(L \cup {x}) \in Nat BY <2>1, FS_CardinalityType
  <2> QED BY <1>6, <2>1, <2>2, <2>3
<1> QED BY <1>4, <1>5, <1>6, <1>7, <1>8

-----------------------------------------------------------------------------
(* Steps *)

\* A step that leaves the queue and the units alone.
LEMMA StillFine ==
    ASSUME TypeInv, NEW m \in Medias, UNCHANGED <<frameType, units, left>>,
           net'[m] = net[m], late'[m] = late[m], NEW r \in Seq(Item),
           out'[m] \in {out[m], Append(out[m], r)}, Ordered(m), Known(m)
    PROVE  /\ Ordered(m)' /\ Known(m)'
           /\ \A u : Came(m, u) => Came(m, u)'
           /\ \A u : Waiting(m, u) => Waiting(m, u)'
           /\ \A u, c : Rest(m, u, c) => Rest(m, u, c)'
           /\ ToSend(m)' = ToSend(m)
<1>1. ToSend(m)' = ToSend(m) BY DEF ToSend
<1>2. \A p : Emitted(m, p) => Emitted(m, p)' BY <1>1 DEF Emitted, Genuine
<1>3. Ordered(m)' BY DEF Ordered
<1>4. Known(m)'
  <2>1. \A j \in 1 .. Len(net'[m]) : Emitted(m, net[m][j])'
    BY <1>1 DEF Known, Emitted, Genuine
  <2> QED BY <1>2, <2>1 DEF Known
<1>5. ASSUME NEW u, Came(m, u) PROVE Came(m, u)'
  <2>1. Whole(m, u)' = Whole(m, u) BY DEF Whole
  <2>2. PICK k \in 1 .. Len(out[m]) : Contains(out[m][k], Whole(m, u)) BY <1>5 DEF Came
  <2>3. out[m] \in Seq(Seq(Item)) /\ Len(out[m]) \in Nat BY LenProperties DEF TypeInv, Types
  <2>4. k \in 1 .. Len(out'[m]) /\ out'[m][k] = out[m][k]
    <3>1. CASE out'[m] = out[m] BY <3>1
    <3>2. CASE out'[m] = Append(out[m], r)
      <4>1. Len(out'[m]) = Len(out[m]) + 1 /\ out'[m][k] = out[m][k]
        BY <2>3, <3>2, AppendProperties
      <4> QED BY <2>3, <4>1
    <3> QED BY <3>1, <3>2
  <2> QED BY <2>1, <2>2, <2>4 DEF Came
<1>6. \A u, i : At(m, u, i)' <=> At(m, u, i) BY DEF At
<1>7. \A u, c : Rest(m, u, c) => Rest(m, u, c)' BY <1>1, <1>6 DEF Rest
<1>8. \A u : Waiting(m, u) => Waiting(m, u)' BY <1>7 DEF Waiting
<1> QED BY <1>1, <1>3, <1>4, <1>5, <1>7, <1>8

\* The account after a step that keeps fine units fine, but for one.
LEMMA LostStep ==
    ASSUME TypeInv, TypeInv', NEW m \in Medias, Paid(m), UNCHANGED <<units, late>>,
           NEW x, faults'[m] \in {faults[m], faults[m] + 1}, Known(m),
           \A u \in 1 .. Len(units[m]) :
              units[m][u].offset = 0 /\ Fine(m, u) =>
                 Fine(m, u)' \/ (u = x /\ faults'[m] = faults[m] + 1)
    PROVE  Paid(m)'
<1>1. faults[m] \in Nat BY DEF TypeInv, Types
<1>2. Cardinality(late[m]) \in Nat BY FS_CardinalityType DEF Known
<1>3. CASE faults'[m] = faults[m]
  <2>1. faults'[m] # faults[m] + 1 BY <1>1, <1>3
  <2>2. Lost(m)' \subseteq Lost(m) BY <2>1 DEF Lost
  <2>3. /\ Cardinality(Lost(m)) \in Nat /\ Cardinality(Lost(m)') \in Nat
        /\ Cardinality(Lost(m)') <= Cardinality(Lost(m))
    BY <2>2, LostCount
  <2> QED BY <1>1, <1>2, <1>3, <2>3 DEF Paid
<1>4. CASE faults'[m] = faults[m] + 1
  <2>1. Lost(m)' \subseteq Lost(m) \cup {x} BY DEF Lost
  <2>2. /\ Cardinality(Lost(m)) \in Nat /\ Cardinality(Lost(m)') \in Nat
        /\ Cardinality(Lost(m)') <= Cardinality(Lost(m)) + 1
    BY <2>1, LostCount
  <2> QED BY <1>1, <1>2, <1>4, <2>2 DEF Paid
<1> QED BY <1>3, <1>4

\* A new call of GetMediaData starts with nothing collected and costs no unit.
LEMMA DamageCall ==
    ASSUME TypeInv, TypeInv', NEW m \in Medias, Damage(m), GetMediaData(m)
    PROVE  Damage(m)'
<1>1. /\ UNCHANGED <<frameType, units, left, net, late, out, faults>>
      /\ pc[m] = "idle"
  BY DEF GetMediaData
<1>2. Ordered(m) /\ Known(m) /\ Paid(m) BY DEF Damage
<1>3. <<>> \in Seq(Item) BY EmptySeq
<1>4. /\ Ordered(m)' /\ Known(m)'
      /\ \A u : Came(m, u) => Came(m, u)'
      /\ \A u : Waiting(m, u) => Waiting(m, u)'
  BY <1>1, <1>2, <1>3, StillFine
<1>5. \A u : ~Open(m, u) BY <1>1 DEF Open, Opened, Gathered, HeldAt
<1>6. \A u : Fine(m, u) => Fine(m, u)' BY <1>4, <1>5 DEF Fine
<1>7. Paid(m)' BY <1>1, <1>2, <1>6, LostStep
<1> QED BY <1>4, <1>7 DEF Damage

\* A call that gives up costs at most the unit it was collecting, and none if
\* it had collected nothing.
LEMMA DamageNULL ==
    ASSUME TypeInv, TypeInv', NEW m \in Medias, Damage(m),
           NoData(m) \/ ParsePacketError(m) \/ CopyDataRunsOff(m)
    PROVE  Damage(m)'
<1>1. /\ UNCHANGED <<frameType, units, left, net, late, out>>
      /\ faults \in [Medias -> Nat]
  BY DEF NoData, ParsePacketError, CopyDataRunsOff, Copy, ReturnNULL, TypeInv, Types
<1>2. Ordered(m) /\ Known(m) /\ Paid(m) BY DEF Damage
<1>3. <<>> \in Seq(Item) BY EmptySeq
<1>4. /\ Ordered(m)' /\ Known(m)'
      /\ \A u : Came(m, u) => Came(m, u)'
      /\ \A u : Waiting(m, u) => Waiting(m, u)'
  BY <1>1, <1>2, <1>3, StillFine
<1>5. CASE faults'[m] = faults[m] + 1
  <2>1. PICK x : \A u \in 1 .. Len(units[m]) : Open(m, u) => u = x
    <3>1. CASE \E v \in 1 .. Len(units[m]) : Open(m, v)
      <4>1. PICK v \in 1 .. Len(units[m]) : Open(m, v) BY <3>1
      <4>2. \A u \in 1 .. Len(units[m]) : Open(m, u) => u = v BY <4>1, OneOpen
      <4> QED BY <4>2
    <3>2. CASE ~ \E v \in 1 .. Len(units[m]) : Open(m, v) BY <3>2
    <3> QED BY <3>1, <3>2
  <2>2. \A u \in 1 .. Len(units[m]) :
           units[m][u].offset = 0 /\ Fine(m, u) =>
              Fine(m, u)' \/ (u = x /\ faults'[m] = faults[m] + 1)
    BY <1>4, <1>5, <2>1 DEF Fine
  <2>3. Paid(m)'
    <3>1. faults'[m] \in {faults[m], faults[m] + 1} /\ UNCHANGED <<units, late>>
      BY <1>1, <1>5
    <3> QED BY <1>2, <2>2, <3>1, LostStep
  <2> QED BY <1>4, <2>3 DEF Damage
<1>6. CASE faults'[m] # faults[m] + 1
  <2>1. NoData(m) BY <1>1, <1>6 DEF ParsePacketError, CopyDataRunsOff
  <2>2. pc[m] = "fetch" /\ faults'[m] = faults[m] + IF buf[m] = <<>> THEN 0 ELSE 1
    BY <1>1, <2>1 DEF NoData
  <2>3. buf[m] = <<>> /\ faults'[m] = faults[m] BY <1>1, <1>6, <2>2
  <2>4. ASSUME NEW u \in 1 .. Len(units[m]), Open(m, u) PROVE FALSE
    <3>1. PICK c \in 1 .. units[m][u].n : Opened(m, u, c) BY <2>4 DEF Open
    <3>2. EndsWith(buf[m], Part(frameType[m], m, u, c))
      BY <2>2, <3>1 DEF Opened, Gathered, HeldAt
    <3>3. frameType[m] \in FrameType /\ u \in Nat /\ c \in Nat \ {0} /\ buf[m] \in Seq(Item)
      BY ToSendType, StreamsAssumption DEF TypeInv, Types
    <3>4. Len(buf[m]) \in Nat \ {0} BY <3>2, <3>3, PartLast
    <3> QED BY <2>3, <3>4, EmptySeq
  <2>5. \A u \in 1 .. Len(units[m]) : Fine(m, u) => Fine(m, u)'
    BY <1>4, <2>4 DEF Fine
  <2>6. Paid(m)' BY <1>1, <1>2, <2>3, <2>5, LostStep
  <2> QED BY <1>4, <2>6 DEF Damage
<1> QED BY <1>5, <1>6

\* What Framed says of the packet that is held.
LEMMA FramedPacket ==
    ASSUME TypeInv, Sampled, Framed, NEW m \in Medias, NEW p \in Packet, Genuine(m, p)
    PROVE  /\ frameType[m] \in FrameType /\ p.media = m /\ p.i <= p.n
           /\ p.unit \in 1 .. Len(units[m])
           /\ p.n = units[m][p.unit].n /\ p.offset = units[m][p.unit].offset
           /\ p.n > 1 => p.nt \in {"FU_A", "FUs"} /\ IsNALU(frameType[m])
           /\ p.offset = 0 => Carries(frameType[m], p)
<1> DEFINE f == frameType[m]
           s == units[m][p.unit]
<1>1. frameType \in FrameTypes /\ f \in FrameType
  BY StreamsAssumption DEF TypeInv, Types
<1>2. /\ p.unit \in 1 .. Len(units[m]) /\ p.media = m /\ p.i <= p.n
      /\ p.n = s.n /\ p.nt = s.nt /\ p.size = s.size /\ p.offset = s.offset
  BY DEF Genuine
<1>3. s \in Shapes[m] BY <1>2 DEF Sampled
<1> HIDE DEF s
<1>4. /\ s.n > 1 => s.nt \in {"FU_A", "FUs"} /\ IsNALU(f)
      /\ f.EncodeType = "MPA" /\ s.offset = 0 => s.size > 4
  BY <1>1, <1>3 DEF Framed
<1>5. p.size \in Nat /\ p.offset \in Nat BY DEF Packet
<1>6. ASSUME p.offset = 0 PROVE Carries(f, p)
  <2> SUFFICES ASSUME f.EncodeType = "MPA" PROVE p.size > SkipHeaderSize(f, p)
    BY DEF Carries
  <2>1. SkipHeaderSize(f, p) = 4 + p.offset BY DEF SkipHeaderSize, IsNALU
  <2> QED BY <1>2, <1>4, <1>5, <1>6, <2>1
<1> QED BY <1>1, <1>2, <1>4, <1>6 DEF s

\* The flags ParsePacket sets are those of the packet that is held: no unit is lost.
LEMMA DamageParse ==
    ASSUME TypeInv, TypeInv', Sampled, Framed, NEW m \in Medias, Damage(m), ParsePacket(m)
    PROVE  Damage(m)'
<1>1. /\ UNCHANGED <<frameType, VideoBuffer, buf, units, left, net, late, out, faults>>
      /\ pc[m] = "parse" /\ pc'[m] = "copy"
  BY DEF ParsePacket, TypeInv, Types
<1>2. Ordered(m) /\ Known(m) /\ Paid(m) BY DEF Damage
<1>3. <<>> \in Seq(Item) BY EmptySeq
<1>4. /\ Ordered(m)' /\ Known(m)'
      /\ \A u : Came(m, u) => Came(m, u)'
      /\ \A u : Waiting(m, u) => Waiting(m, u)'
      /\ \A u, c : Rest(m, u, c) => Rest(m, u, c)'
      /\ ToSend(m)' = ToSend(m)
  BY <1>1, <1>2, <1>3, StillFine
<1>5. ASSUME NEW u, NEW c, Opened(m, u, c) PROVE Opened(m, u, c)'
  <2>0. PICK p : p = VideoBuffer OBVIOUS
  <2>1. /\ HeldAt(m, u, c) /\ Genuine(m, p) /\ Pos(p) = <<u, c>> /\ p \in Packet
    BY <1>1, <1>5, <2>0 DEF Opened, Gathered, HeldAt, TypeInv, Held
  <2>2. PICK flags \in Parsed(m, p) \ {<<>>} :
           /\ StartFlag' = [StartFlag EXCEPT ![m] = flags[1]]
           /\ EndFlag' = [EndFlag EXCEPT ![m] = flags[2]]
    BY <2>0 DEF ParsePacket
  <2>3. /\ p.media = m /\ p.i <= p.n /\ p.n = units[m][p.unit].n
        /\ p.n > 1 => p.nt \in {"FU_A", "FUs"}
    BY <2>1, FramedPacket
  <2>4. p.i \in Nat \ {0} /\ p.n \in Nat \ {0} BY <2>1 DEF Packet
  <2>5. flags = <<IsPacketStart(p), IsPacketEnd(p)>> BY <2>3 DEF Parsed
  <2>6. IsPacketStart(p) = (p.i = 1) /\ IsPacketEnd(p) = (p.i = p.n)
    <3>1. CASE p.nt \in {"FU_A", "FUs"} BY <3>1 DEF IsPacketStart, IsPacketEnd
    <3>2. CASE p.nt \notin {"FU_A", "FUs"}
      <4>1. p.n = 1 /\ p.i = 1 BY <2>3, <2>4, <3>2
      <4> QED BY <3>2, <4>1 DEF IsPacketStart, IsPacketEnd
    <3> QED BY <3>1, <3>2
  <2>7. StartFlag'[m] = flags[1] /\ EndFlag'[m] = flags[2] BY <2>2 DEF TypeInv, Types
  <2>8. flags[1] = IsPacketStart(p) /\ flags[2] = IsPacketEnd(p) BY <2>5
  <2>9. p.unit = u /\ p.i = c BY <2>1 DEF Pos
  <2>10. StartFlag'[m] = (c = 1) /\ EndFlag'[m] = (c = units[m][u].n)
    BY <2>3, <2>6, <2>7, <2>8, <2>9
  <2>11. HeldAt(m, u, c)' BY <1>1, <2>1, <2>10 DEF HeldAt, Genuine
  <2>12. \A j \in 1 .. Len(net'[m]) : Less(<<u, c>>, Pos(net'[m][j]))
    BY <1>1, <1>5 DEF Opened
  <2> QED BY <1>4, <1>5, <2>11, <2>12 DEF Opened
<1>6. \A u : Open(m, u) => Open(m, u)' BY <1>1, <1>5 DEF Open
<1>7. \A u : Fine(m, u) => Fine(m, u)' BY <1>4, <1>6 DEF Fine
<1>8. Paid(m)' BY <1>1, <1>2, <1>7, LostStep
<1> QED BY <1>4, <1>8 DEF Damage

\* The queue without its head.
LEMMA TailOrdered ==
    ASSUME TypeInv, NEW m \in Medias, Ordered(m), Known(m), Fetch(m),
           NEW p, p = Head(net[m])
    PROVE  /\ p \in Packet /\ Emitted(m, p) /\ VideoBuffer' = p /\ ToSend(m)' = ToSend(m)
           /\ Ordered(m)' /\ Known(m)'
           /\ \A u, i : At(m, u, i) /\ <<u, i>> # Pos(p) => At(m, u, i)'
           /\ \A u, i : At(m, u, i) => <<u, i>> = Pos(p) \/ Less(Pos(p), <<u, i>>)
           /\ \A j \in 1 .. Len(net'[m]) : Less(Pos(p), Pos(net'[m][j]))
<1>1. /\ UNCHANGED <<frameType, units, left, late>> /\ net[m] # <<>>
      /\ net[m] \in Seq(Packet)
  BY DEF Fetch, TypeInv, Types
<1>2. /\ VideoBuffer' = p /\ p \in Packet /\ net'[m] = Tail(net[m])
  BY <1>1, FetchEffect
<1>3. PICK t : t = Tail(net[m]) OBVIOUS
<1>4. PICK q : q = net[m] OBVIOUS
<1>5. /\ p = q[1] /\ Len(q) \in Nat \ {0} /\ Len(t) = Len(q) - 1
      /\ \A j \in 1 .. Len(t) : t[j] = q[j + 1]
      /\ \A j \in 1 .. Len(q) : q[j] \in Packet
  BY <1>1, <1>3, <1>4, HeadTailProperties, EmptySeq, ElementOfSeq
<1>6. ToSend(m)' = ToSend(m) BY <1>1 DEF ToSend
<1>7. \A r : Emitted(m, r) => Emitted(m, r)' BY <1>1, <1>6 DEF Emitted, Genuine
<1>8. \A j, k \in 1 .. Len(q) : j < k => Before(q[j], q[k]) BY <1>4 DEF Ordered
<1>9. \A j, k \in 1 .. Len(t) : j < k => Before(t[j], t[k])
  <2> SUFFICES ASSUME NEW j \in 1 .. Len(t), NEW k \in 1 .. Len(t), j < k
               PROVE  Before(t[j], t[k])
    OBVIOUS
  <2>1. j + 1 \in 1 .. Len(q) /\ k + 1 \in 1 .. Len(q) /\ j + 1 < k + 1 BY <1>5
  <2> QED BY <1>5, <1>8, <2>1
<1>10. Ordered(m)' BY <1>2, <1>3, <1>9 DEF Ordered
<1>11. \A j \in 1 .. Len(q) : Emitted(m, q[j]) BY <1>4 DEF Known
<1>12. ASSUME NEW j \in 1 .. Len(t) PROVE Emitted(m, t[j])
  <2>1. j + 1 \in 1 .. Len(q) BY <1>5
  <2> QED BY <1>5, <1>11, <2>1
<1>13. Known(m)'
  <2>1. \A j \in 1 .. Len(net'[m]) : Emitted(m, net[m][j])'
    <3>1. ASSUME NEW j \in 1 .. Len(t), NEW r, r = t[j] PROVE Emitted(m, r)'
      BY <1>7, <1>12, <3>1
    <3> QED BY <1>1, <1>2, <1>3, <1>6, <3>1 DEF Emitted, Genuine
  <2>2. \A r \in late'[m] : Emitted(m, r)' BY <1>1, <1>7 DEF Known
  <2> QED BY <1>1, <2>1, <2>2 DEF Known
<1>14. ASSUME NEW j \in 1 .. Len(q), j # 1 PROVE Less(Pos(p), Pos(q[j]))
  <2>1. 1 \in 1 .. Len(q) /\ 1 < j BY <1>5, <1>14
  <2>2. Before(p, q[j]) BY <1>5, <1>8, <2>1
  <2> QED BY <1>2, <1>5, <2>2, PosType
<1>15. ASSUME NEW u, NEW i, At(m, u, i)
       PROVE  /\ <<u, i>> = Pos(p) \/ Less(Pos(p), <<u, i>>)
              /\ <<u, i>> # Pos(p) => At(m, u, i)'
  <2>1. PICK j \in 1 .. Len(q) : Pos(q[j]) = <<u, i>> BY <1>4, <1>15 DEF At
  <2>2. CASE j = 1 BY <1>5, <2>1, <2>2
  <2>3. CASE j # 1
    <3>1. j - 1 \in 1 .. Len(t) /\ (j - 1) + 1 = j BY <1>5, <2>3
    <3>2. t[j - 1] = q[j] BY <1>5, <3>1
    <3>3. At(m, u, i)' BY <1>2, <1>3, <2>1, <3>1, <3>2 DEF At
    <3>4. Less(Pos(p), <<u, i>>) BY <1>14, <2>1, <2>3
    <3> QED BY <3>3, <3>4
  <2> QED BY <2>2, <2>3
<1>16. ASSUME NEW j \in 1 .. Len(t) PROVE Less(Pos(p), Pos(t[j]))
  <2>1. j + 1 \in 1 .. Len(q) /\ j + 1 # 1 BY <1>5
  <2> QED BY <1>5, <1>14, <2>1
<1>17. Emitted(m, p)
  <2>1. 1 \in 1 .. Len(q) BY <1>5
  <2> QED BY <1>5, <1>11, <2>1
<1> QED BY <1>2, <1>3, <1>6, <1>10, <1>13, <1>15, <1>16, <1>17

\* The call takes the next packet of the unit it collects, or the first one of
\* a unit that waits.
LEMMA NextInLine ==
    ASSUME TypeInv, NEW m \in Medias, Ordered(m), Known(m), Fetch(m),
           NEW p, p = Head(net[m]), NEW u \in 1 .. Len(units[m])
    PROVE  /\ \A c \in 1 .. units[m][u].n : Opened(m, u, c) => Pos(p) = <<u, c + 1>>
           /\ Waiting(m, u) /\ p.unit = u => p.i = 1
<1>1. /\ p \in Packet /\ Emitted(m, p)
      /\ \A i : At(m, u, i) => <<u, i>> = Pos(p) \/ Less(Pos(p), <<u, i>>)
  BY TailOrdered
<1>2. /\ Pos(p) \in Nat \X Nat /\ Pos(p) = <<p.unit, p.i>>
      /\ p.unit \in Nat /\ p.i \in Nat \ {0}
  BY <1>1, PosType
<1>3. ToSend(m) \in Nat \X Nat /\ u \in Nat /\ units[m][u].n \in Nat \ {0} BY ToSendType
<1>4. Less(Pos(p), ToSend(m)) /\ p.i <= units[m][p.unit].n
  BY <1>1 DEF Emitted, Genuine
<1>5. ASSUME NEW c \in 1 .. units[m][u].n, Opened(m, u, c) PROVE Pos(p) = <<u, c + 1>>
  <2>1. c \in Nat /\ c + 1 \in Nat /\ <<u, c + 1>> \in Nat \X Nat BY <1>3
  <2>2. pc[m] = "fetch" /\ net[m] # <<>> BY DEF Fetch
  <2>3. c < units[m][u].n /\ Rest(m, u, c)
        /\ \A j \in 1 .. Len(net[m]) : Less(<<u, c>>, Pos(net[m][j]))
    BY <1>5, <2>2 DEF Opened, Gathered, HeldAt
  <2>4. Less(<<u, c>>, Pos(p))
    <3>1. net[m] \in Seq(Packet) BY DEF TypeInv, Types
    <3>2. 1 \in 1 .. Len(net[m]) /\ p = net[m][1] BY <2>2, <3>1, EmptySeq
    <3> QED BY <2>3, <3>2
  <2>5. Less(<<u, c + 1>>, ToSend(m)) BY <1>2, <1>3, <1>4, <2>1, <2>4, LessOrder
  <2>6. c + 1 \in c + 1 .. units[m][u].n BY <1>3, <2>1, <2>3
  <2>7. At(m, u, c + 1) BY <2>3, <2>5, <2>6 DEF Rest
  <2>8. <<u, c + 1>> = Pos(p) \/ Less(Pos(p), <<u, c + 1>>) BY <1>1, <2>7
  <2>9. ASSUME Less(Pos(p), <<u, c + 1>>) PROVE FALSE
    <3>1. Less(<<u, c + 1>>, <<u, c + 1>>) BY <1>2, <1>3, <2>1, <2>4, <2>9, LessOrder
    <3> QED BY <2>1, <3>1, LessOrder
  <2> QED BY <2>8, <2>9
<1>6. ASSUME Waiting(m, u), p.unit = u PROVE p.i = 1
  <2>1. p.i \in 0 + 1 .. units[m][u].n /\ 1 \in 0 + 1 .. units[m][u].n
    <3>1. p.i <= units[m][u].n BY <1>4, <1>6
    <3> QED BY <1>2, <1>3, <3>1
  <2>2. Less(<<u, 1>>, ToSend(m))
    <3>1. PICK x, y \in Nat : ToSend(m) = <<x, y>> BY <1>3
    <3> QED BY <1>2, <1>3, <1>4, <1>6, <3>1 DEF Less
  <2>3. At(m, u, 1) BY <1>6, <2>1, <2>2 DEF Waiting, Rest
  <2>4. <<u, 1>> = Pos(p) \/ Less(Pos(p), <<u, 1>>) BY <1>1, <2>3
  <2>5. CASE <<u, 1>> = Pos(p) BY <1>2, <2>5
  <2>6. CASE Less(Pos(p), <<u, 1>>) BY <1>2, <1>3, <1>6, <2>6 DEF Less
  <2> QED BY <2>4, <2>5, <2>6
<1> QED BY <1>5, <1>6

\* What the packet taken from the queue means for the units.
LEMMA FetchFine ==
    ASSUME TypeInv, NEW m \in Medias, Ordered(m), Known(m), Fetch(m),
           NEW p, p = Head(net[m]), NEW u \in 1 .. Len(units[m])
    PROVE  /\ Open(m, u) => p.unit = u
           /\ Waiting(m, u) /\ p.unit # u => Waiting(m, u)'
           /\ Waiting(m, u) /\ p.unit = u =>
                 p.i = 1 /\ EndsWith(buf[m], Part(frameType[m], m, u, p.i - 1))
           /\ Open(m, u) => EndsWith(buf[m], Part(frameType[m], m, u, p.i - 1))
           /\ (Waiting(m, u) /\ p.unit = u) \/ Open(m, u) => Rest(m, u, p.i)'
<1>1. /\ p \in Packet /\ Emitted(m, p) /\ ToSend(m)' = ToSend(m)
      /\ \A i : At(m, u, i) /\ <<u, i>> # Pos(p) => At(m, u, i)'
  BY TailOrdered
<1>2. Pos(p) = <<p.unit, p.i>> /\ p.i \in Nat \ {0} BY <1>1, PosType
<1>3. /\ \A c \in 1 .. units[m][u].n : Opened(m, u, c) => Pos(p) = <<u, c + 1>>
      /\ Waiting(m, u) /\ p.unit = u => p.i = 1
  BY NextInLine
<1>4. /\ UNCHANGED units /\ pc[m] = "fetch" /\ buf[m] \in Seq(Item)
      /\ frameType[m] \in FrameType /\ u \in Nat /\ units[m][u].n \in Nat \ {0}
  <2>1. UNCHANGED units /\ pc[m] = "fetch" BY DEF Fetch
  <2>2. buf[m] \in Seq(Item) /\ frameType \in FrameTypes BY DEF TypeInv, Types
  <2>3. frameType[m] \in FrameType BY <2>2, StreamsAssumption
  <2>4. Len(units[m]) \in Nat /\ units[m][u].n \in Nat \ {0} BY ToSendType
  <2> QED BY <2>1, <2>2, <2>3, <2>4
<1>5. ASSUME NEW c \in Nat, Rest(m, u, c), c < p.i \/ p.unit # u
      PROVE  /\ p.unit # u => Rest(m, u, c)'
             /\ p.i = c + 1 => Rest(m, u, p.i)'
  <2>1. ASSUME p.unit # u, NEW i \in c + 1 .. units[m][u].n, Less(<<u, i>>, ToSend(m))
        PROVE  At(m, u, i)'
    <3>1. At(m, u, i) BY <1>5, <2>1 DEF Rest
    <3>2. <<u, i>> # Pos(p) BY <1>2, <2>1
    <3> QED BY <1>1, <3>1, <3>2
  <2>2. ASSUME p.i = c + 1, NEW i \in p.i + 1 .. units[m][u].n, Less(<<u, i>>, ToSend(m))
        PROVE  At(m, u, i)'
    <3>1. i \in c + 1 .. units[m][u].n /\ i # p.i BY <1>2, <1>4, <2>2
    <3>2. At(m, u, i) BY <1>5, <2>2, <3>1 DEF Rest
    <3>3. <<u, i>> # Pos(p) BY <1>2, <3>1
    <3> QED BY <1>1, <3>2, <3>3
  <2> QED BY <1>1, <1>4, <2>1, <2>2 DEF Rest
<1>6. ASSUME Open(m, u)
      PROVE  /\ p.unit = u /\ Rest(m, u, p.i)'
             /\ EndsWith(buf[m], Part(frameType[m], m, u, p.i - 1))
  <2>1. PICK c \in 1 .. units[m][u].n : Opened(m, u, c) BY <1>6 DEF Open
  <2>2. p.unit = u /\ p.i = c + 1 BY <1>2, <1>3, <2>1
  <2>3. Rest(m, u, c) /\ EndsWith(buf[m], Part(frameType[m], m, u, c))
    <3>1. Rest(m, u, c) /\ (Gathered(m, u, c) \/ HeldAt(m, u, c)) BY <2>1 DEF Opened
    <3>2. ~HeldAt(m, u, c) BY <1>4 DEF HeldAt
    <3> QED BY <3>1, <3>2 DEF Gathered
  <2>4. c \in Nat /\ c < p.i /\ p.i - 1 = c
    <3>1. c \in Nat BY <1>4
    <3>2. c < c + 1 /\ (c + 1) - 1 = c BY <3>1
    <3> QED BY <2>2, <3>1, <3>2
  <2> QED BY <1>5, <2>2, <2>3, <2>4
<1>7. ASSUME Waiting(m, u), p.unit # u PROVE Waiting(m, u)'
  BY <1>5, <1>7, 0 \in Nat DEF Waiting
<1>8. ASSUME Waiting(m, u), p.unit = u
      PROVE  /\ p.i = 1 /\ Rest(m, u, p.i)'
             /\ EndsWith(buf[m], Part(frameType[m], m, u, p.i - 1))
  <2>1. p.i = 1 BY <1>3, <1>8
  <2>2. Rest(m, u, 0) /\ 0 \in Nat /\ 0 < p.i /\ p.i = 0 + 1 BY <1>8, <2>1 DEF Waiting
  <2>3. Rest(m, u, p.i)' BY <1>5, <2>2
  <2>4. Part(frameType[m], m, u, 0) \in Seq(Item) /\ Part(frameType[m], m, u, 0) = <<>>
    BY <1>4, PartType, 0 \in Nat
  <2>5. EndsWith(buf[m] \o <<>>, <<>>) /\ buf[m] \o <<>> = buf[m]
    BY <1>4, <2>4, EndsWithConcat, ConcatEmptySeq
  <2> QED BY <2>1, <2>3, <2>4, <2>5
<1> QED BY <1>6, <1>7, <1>8

\* Taking a packet from the queue costs no unit.
LEMMA DamageFetch ==
    ASSUME TypeInv, TypeInv', NEW m \in Medias, Damage(m), FetchFits(m)
    PROVE  Damage(m)'
<1>0. PICK p : p = Head(net[m]) OBVIOUS
<1>1. /\ UNCHANGED <<frameType, units, left, late, out, buf, faults>> /\ Fetch(m)
      /\ pc[m] = "fetch" /\ pc'[m] = "parse"
  BY DEF FetchFits, Fetch, TypeInv, Types
<1>2. Ordered(m) /\ Known(m) /\ Paid(m) BY DEF Damage
<1>3. /\ p \in Packet /\ Emitted(m, p) /\ VideoBuffer' = p /\ ToSend(m)' = ToSend(m)
      /\ Ordered(m)' /\ Known(m)'
      /\ \A j \in 1 .. Len(net'[m]) : Less(Pos(p), Pos(net'[m][j]))
  BY <1>0, <1>1, <1>2, TailOrdered
<1>4. /\ Genuine(m, p) /\ Less(Pos(p), ToSend(m)) /\ Pos(p) = <<p.unit, p.i>>
      /\ p.i \in 1 .. units[m][p.unit].n
  BY <1>3, PosType DEF Emitted, Genuine
<1>5. ASSUME NEW u \in 1 .. Len(units[m]), Fine(m, u) PROVE Fine(m, u)'
  <2>1. CASE Came(m, u)
    BY <1>1, <2>1 DEF Came, Whole, Fine
  <2>2. CASE Waiting(m, u) /\ p.unit # u
    <3>1. Waiting(m, u)' BY <1>0, <1>1, <1>2, <2>2, FetchFine
    <3> QED BY <3>1 DEF Fine
  <2>3. CASE (Waiting(m, u) /\ p.unit = u) \/ Open(m, u)
    <3>1. /\ p.unit = u /\ EndsWith(buf[m], Part(frameType[m], m, u, p.i - 1))
          /\ Rest(m, u, p.i)'
      BY <1>0, <1>1, <1>2, <2>3, FetchFine
    <3>2. Pos(p) = <<u, p.i>> BY <1>4, <3>1
    <3>3. HeldAt(m, u, p.i)'
      BY <1>1, <1>3, <1>4, <3>1, <3>2 DEF HeldAt, Genuine
    <3>4. Opened(m, u, p.i)'
      BY <1>3, <1>4, <3>1, <3>2, <3>3 DEF Opened
    <3>5. Open(m, u)' BY <1>1, <1>4, <3>1, <3>4 DEF Open
    <3> QED BY <3>5 DEF Fine
  <2> QED BY <1>5, <2>1, <2>2, <2>3 DEF Fine
<1>6. Paid(m)' BY <1>1, <1>2, <1>5, LostStep
<1> QED BY <1>3, <1>6 DEF Damage

\* A packet that is empty or fits into no buffer costs the unit it belongs to.
LEMMA DamageTruncated ==
    ASSUME TypeInv, TypeInv', NEW m \in Medias, Damage(m),
           FetchTruncated(m) \/ FetchEmpty(m) \/ FetchTooLarge(m)
    PROVE  Damage(m)'
<1>0. PICK p : p = Head(net[m]) OBVIOUS
<1>1. /\ UNCHANGED <<frameType, units, left, late>> /\ Fetch(m)
      /\ faults'[m] = faults[m] + 1 /\ out'[m] \in {out[m], Append(out[m], buf[m])}
      /\ out[m] \in Seq(Seq(Item)) /\ buf[m] \in Seq(Item)
  BY DEF FetchTruncated, FetchEmpty, FetchTooLarge, Fetch, Return, ReturnNULL, TypeInv, Types
<1>2. Ordered(m) /\ Known(m) /\ Paid(m) BY DEF Damage
<1>3. Ordered(m)' /\ Known(m)' BY <1>0, <1>1, <1>2, TailOrdered
<1>4. ASSUME NEW u \in 1 .. Len(units[m]), Fine(m, u), u # p.unit PROVE Fine(m, u)'
  <2>1. CASE Came(m, u)
    <3>1. PICK k \in 1 .. Len(out[m]) : Contains(out[m][k], Whole(m, u)) BY <2>1 DEF Came
    <3>2. Len(out[m]) \in Nat BY <1>1, LenProperties
    <3>3. /\ Len(out'[m]) \in {Len(out[m]), Len(out[m]) + 1}
          /\ out'[m][k] = out[m][k]
      <4> DEFINE S == Seq(Item)
      <4>1. out[m] \in Seq(S) /\ buf[m] \in S BY <1>1
      <4> HIDE DEF S
      <4>2. CASE out'[m] = out[m] BY <4>2
      <4>3. CASE out'[m] = Append(out[m], buf[m]) BY <4>1, <4>3, AppendProperties
      <4> QED BY <1>1, <4>2, <4>3
    <3>4. Whole(m, u)' = Whole(m, u) BY <1>1 DEF Whole
    <3>5. k \in 1 .. Len(out'[m]) BY <3>2, <3>3
    <3> QED BY <3>1, <3>3, <3>4, <3>5 DEF Came, Fine
  <2>2. CASE Waiting(m, u)
    <3>1. Waiting(m, u)' BY <1>0, <1>1, <1>2, <1>4, <2>2, FetchFine
    <3> QED BY <3>1 DEF Fine
  <2>3. ~Open(m, u) BY <1>0, <1>1, <1>2, <1>4, FetchFine
  <2> QED BY <1>4, <2>1, <2>2, <2>3 DEF Fine
<1>5. PICK x : x = p.unit OBVIOUS
<1>6. \A u \in 1 .. Len(units[m]) :
         units[m][u].offset = 0 /\ Fine(m, u) =>
            Fine(m, u)' \/ (u = x /\ faults'[m] = faults[m] + 1)
  BY <1>1, <1>4, <1>5
<1>7. Paid(m)'
  <2>1. faults'[m] \in {faults[m], faults[m] + 1} /\ UNCHANGED <<units, late>> BY <1>1
  <2> QED BY <1>2, <1>6, <2>1, LostStep
<1> QED BY <1>3, <1>7 DEF Damage

\* What was collected, with the items of two copies behind it.
LEMMA ConcatItems ==
    ASSUME NEW h \in Seq(Item), NEW a \in Seq(Item), NEW b \in Seq(Item)
    PROVE  (h \o a) \o b = h \o (a \o b)
BY ConcatAssociative

\* CopyData adds the packet to the unit it belongs to; the last one makes it
\* come out whole.
LEMMA DamageCopy ==
    ASSUME TypeInv, TypeInv', Sampled, Framed, NEW m \in Medias, Damage(m), CopyData(m)
    PROVE  Damage(m)'
<1>0. PICK p : p = VideoBuffer OBVIOUS
<1> DEFINE f == frameType[m]
<1>1. /\ UNCHANGED <<frameType, VideoBuffer, units, left, net, late, faults>>
      /\ pc[m] = "copy" /\ p \in Packet /\ f \in FrameType
      /\ buf[m] \in Seq(Item) /\ out[m] \in Seq(Seq(Item)) /\ EndFlag[m] \in BOOLEAN
  BY <1>0, StreamsAssumption DEF CopyData, Copy, TypeInv, Types, Held
<1>2. Ordered(m) /\ Known(m) /\ Paid(m) BY DEF Damage
<1>3. PICK c : c = Copied(m) OBVIOUS
<1>4. c \in Seq(Item) BY <1>1, <1>3, CopiedItems
<1>5. /\ EndFlag[m] => out'[m] = Append(out[m], c)
      /\ ~EndFlag[m] => pc'[m] = "fetch" /\ buf'[m] = c /\ out'[m] = out[m]
  BY <1>3 DEF CopyData, Return, Leave, TypeInv, Types
<1>6. out'[m] \in {out[m], Append(out[m], c)} BY <1>1, <1>5
<1>7. /\ Ordered(m)' /\ Known(m)'
      /\ \A u : Came(m, u) => Came(m, u)'
      /\ \A u : Waiting(m, u) => Waiting(m, u)'
      /\ \A u, i : Rest(m, u, i) => Rest(m, u, i)'
      /\ ToSend(m)' = ToSend(m)
  BY <1>1, <1>2, <1>4, <1>6, StillFine
<1>8. ASSUME NEW u \in 1 .. Len(units[m]), units[m][u].offset = 0, Open(m, u)
      PROVE  Fine(m, u)'
  <2>1. PICK i \in 1 .. units[m][u].n : Opened(m, u, i) BY <1>8 DEF Open
  <2>2. /\ Genuine(m, p) /\ Pos(p) = <<u, i>>
        /\ EndsWith(buf[m], Part(f, m, u, i - 1))
        /\ StartFlag[m] = (i = 1) /\ EndFlag[m] = (i = units[m][u].n)
    BY <1>0, <1>1, <2>1 DEF Opened, Gathered, HeldAt
  <2>3. p.unit = u /\ p.i = i BY <2>2 DEF Pos
  <2>4. /\ p.media = m /\ p.i <= p.n /\ p.n = units[m][u].n /\ p.offset = 0
        /\ p.n > 1 => IsNALU(f)
        /\ p.offset = 0 => Carries(f, p)
    BY <1>1, <1>8, <2>2, <2>3, FramedPacket
  <2>5. p.i \in Nat \ {0} /\ p.n \in Nat \ {0} /\ u \in Nat /\ i - 1 \in Nat
    BY <1>1, <2>3, PosType
  <2>6. IsNALU(f) \/ (p.i = 1 /\ Carries(f, p))
    BY <2>4, <2>5
  <2>7. PICK a : a = Part(f, m, u, i - 1) OBVIOUS
  <2>8. PICK b : b = CopyItems(f, p, i = 1) OBVIOUS
  <2>9. a \in Seq(Item) /\ b \in Seq(Item) /\ a \o b = Part(f, m, u, i)
    BY <1>1, <2>3, <2>4, <2>6, <2>7, <2>8, PartGrows
  <2>10. PICK h \in Seq(Item) : buf[m] = h \o a
    <3>1. EndsWith(buf[m], a) BY <2>2, <2>7
    <3>2. a \in Seq(Item) BY <2>9
    <3> QED BY <1>1, <3>1, <3>2, EndsWithFront
  <2>11. c = (h \o a) \o b
    BY <1>0, <1>3, <2>2, <2>8, <2>10 DEF Copied
  <2>12. PICK w : w = a \o b OBVIOUS
  <2>13. c = h \o w /\ w \in Seq(Item)
    <3>1. h \in Seq(Item) /\ a \in Seq(Item) /\ b \in Seq(Item) BY <2>9
    <3>2. (h \o a) \o b = h \o (a \o b) BY <3>1, ConcatItems
    <3>3. a \o b \in Seq(Item) BY <3>1, ConcatProperties
    <3> QED BY <2>11, <2>12, <3>2, <3>3
  <2>14. EndsWith(c, w) BY <2>13, EndsWithConcat
  <2>15. EndsWith(c, Part(f, m, u, i)) BY <2>9, <2>12, <2>14
  <2>16. CASE EndFlag[m]
    <3>1. i = p.n BY <2>2, <2>4, <2>16
    <3>2. w = Whole(m, u) BY <2>4, <2>5, <2>9, <2>12, <3>1, PartWhole
    <3>3. Contains(c, Whole(m, u)) BY <1>4, <2>13, <2>14, <3>2, ContainsEnd
    <3>4. Whole(m, u)' = Whole(m, u) BY <1>1 DEF Whole
    <3>5. /\ Len(out[m]) \in Nat /\ Len(out'[m]) = Len(out[m]) + 1
          /\ out'[m][Len(out[m]) + 1] = c
      BY <1>1, <1>4, <1>5, <2>16, LenProperties, AppendProperties
    <3>6. Len(out[m]) + 1 \in 1 .. Len(out'[m]) BY <3>5
    <3> QED BY <3>3, <3>4, <3>5, <3>6 DEF Came, Fine
  <2>17. CASE ~EndFlag[m]
    <3>1. i # units[m][u].n BY <2>2, <2>17
    <3>2. i < units[m][u].n BY <2>3, <2>4, <2>5, <3>1
    <3>3. Gathered(m, u, i)' BY <1>1, <1>5, <2>15, <2>17, <3>2 DEF Gathered
    <3>4. \A j \in 1 .. Len(net'[m]) : Less(<<u, i>>, Pos(net'[m][j]))
      BY <1>1, <2>1 DEF Opened
    <3>5. Opened(m, u, i)' BY <1>7, <2>1, <3>3, <3>4 DEF Opened
    <3>6. Open(m, u)' BY <1>1, <3>5 DEF Open
    <3> QED BY <3>6 DEF Fine
  <2> QED BY <2>16, <2>17
<1>9. \A u \in 1 .. Len(units[m]) : units[m][u].offset = 0 /\ Fine(m, u) => Fine(m, u)'
  BY <1>7, <1>8 DEF Fine
<1>10. Paid(m)' BY <1>1, <1>2, <1>9, LostStep
<1> QED BY <1>7, <1>10 DEF Damage

\* Sending a packet: the queue gets it at its end, or it is lost or late.
LEMMA SendKnown ==
    ASSUME TypeInv, Sampled, NEW m \in Medias, NEW s \in Shapes[m], SendPacket(m, s),
           Ordered(m), Known(m), NEW p, p = NextPacket(m, s),
           net'[m] = net[m] \/ net'[m] = Append(net[m], p)
    PROVE  /\ p \in Packet /\ Emitted(m, p)'
           /\ \A q \in Packet : Emitted(m, q) => Emitted(m, q)'
           /\ Ordered(m)' /\ \A j \in 1 .. Len(net'[m]) : Emitted(m, net[m][j])'
<1>1. p \in Packet /\ units' \in [Medias -> Seq(Shape)] BY SendEffect
<1>2. /\ Pos(p) = ToSend(m) /\ After(p) = ToSend(m)' /\ Genuine(m, p)'
      /\ \A u \in 1 .. Len(units[m]) : units'[m][u] = units[m][u]
      /\ Len(units[m]) \in Nat /\ Len(units[m]) <= Len(units'[m])
  BY SendPos
<1>3. Len(units'[m]) \in Nat /\ frameType' = frameType
  BY <1>1, LenProperties DEF SendPacket
<1>4. \A q : Genuine(m, q) => Genuine(m, q)' BY <1>2, <1>3, UnitsGrow
<1>5. p.i <= p.n BY <1>2 DEF Genuine
<1>6. /\ Less(Pos(p), After(p))
      /\ \A a \in Nat \X Nat : Less(a, Pos(p)) => Less(a, After(p))
  BY <1>1, <1>5, LessAfter
<1>7. ASSUME NEW q \in Packet, Emitted(m, q) PROVE Emitted(m, q)'
  <2>1. Genuine(m, q)' /\ Less(Pos(q), Pos(p)) BY <1>2, <1>4, <1>7 DEF Emitted
  <2>2. Less(Pos(q), After(p)) BY <1>6, <2>1, PosType
  <2> QED BY <1>2, <2>1, <2>2 DEF Emitted
<1>8. Emitted(m, p)' BY <1>2, <1>6 DEF Emitted
<1>9. PICK q : q = net[m] OBVIOUS
<1>10. PICK r : r = net'[m] OBVIOUS
<1>11. q \in Seq(Packet) BY <1>9 DEF TypeInv, Types
<1>12. /\ Len(q) \in Nat /\ \A j \in 1 .. Len(q) : q[j] \in Packet /\ Emitted(m, q[j])
  BY <1>9, <1>11, LenProperties, ElementOfSeq DEF Known
<1>13. \A j, k \in 1 .. Len(q) : j < k => Before(q[j], q[k]) BY <1>9 DEF Ordered
<1>14. ASSUME NEW j \in 1 .. Len(q) PROVE Before(q[j], p)
  <2>1. q[j] \in Packet /\ Less(Pos(q[j]), Pos(p)) BY <1>2, <1>12 DEF Emitted
  <2> QED BY <1>1, <2>1, PosType
<1>15. CASE r = q
  <2>1. Ordered(m)' BY <1>10, <1>13, <1>15 DEF Ordered
  <2>2. ASSUME NEW j \in 1 .. Len(r), NEW x, x = r[j] PROVE Emitted(m, x)'
    BY <1>7, <1>12, <1>15, <2>2
  <2>3. \A j \in 1 .. Len(net'[m]) : Emitted(m, net[m][j])'
    BY <1>10, <2>2 DEF Emitted, Genuine
  <2> QED BY <1>1, <1>7, <1>8, <2>1, <2>3
<1>16. CASE r = Append(q, p)
  <2>1. /\ Len(r) = Len(q) + 1 /\ r[Len(q) + 1] = p
        /\ \A j \in 1 .. Len(q) : r[j] = q[j]
    BY <1>1, <1>11, <1>16, AppendProperties
  <2>2. ASSUME NEW j \in 1 .. Len(r), NEW k \in 1 .. Len(r), j < k
        PROVE  Before(r[j], r[k])
    <3>1. j \in 1 .. Len(q) BY <1>12, <2>1, <2>2
    <3>2. CASE k = Len(q) + 1 BY <1>14, <2>1, <3>1, <3>2
    <3>3. CASE k # Len(q) + 1
      <4>1. k \in 1 .. Len(q) BY <1>12, <2>1, <3>3
      <4> QED BY <1>13, <2>1, <2>2, <3>1, <4>1
    <3> QED BY <3>2, <3>3
  <2>3. Ordered(m)' BY <1>10, <2>2 DEF Ordered
  <2>4. ASSUME NEW j \in 1 .. Len(r), NEW x, x = r[j] PROVE Emitted(m, x)'
    <3>1. CASE j = Len(q) + 1 BY <1>8, <2>1, <2>4, <3>1
    <3>2. CASE j # Len(q) + 1
      <4>1. j \in 1 .. Len(q) BY <1>12, <2>1, <3>2
      <4>2. x = q[j] BY <2>1, <2>4, <4>1
      <4> QED BY <1>7, <1>12, <4>1, <4>2
    <3> QED BY <3>1, <3>2
  <2>5. \A j \in 1 .. Len(net'[m]) : Emitted(m, net[m][j])'
    BY <1>10, <2>4 DEF Emitted, Genuine
  <2> QED BY <1>1, <1>7, <1>8, <2>3, <2>5
<1> QED BY <1>9, <1>10, <1>15, <1>16

\* A packet that is sent and not queued can only spoil its own unit.
LEMMA SendFine ==
    ASSUME TypeInv, Sampled, NEW m \in Medias, NEW s \in Shapes[m], SendPacket(m, s),
           Ordered(m), Known(m), NEW p, p = NextPacket(m, s),
           net'[m] = net[m] \/ net'[m] = Append(net[m], p),
           NEW u \in 1 .. Len(units'[m]), u # p.unit \/ net'[m] = Append(net[m], p)
    PROVE  \/ Fine(m, u)'
           \/ u \in 1 .. Len(units[m]) /\ ~Fine(m, u) /\ units'[m][u] = units[m][u]
<1>1. p \in Packet /\ units' \in [Medias -> Seq(Shape)] BY SendEffect
<1>2. /\ Pos(p) = ToSend(m) /\ After(p) = ToSend(m)' /\ Genuine(m, p)'
      /\ \A v \in 1 .. Len(units[m]) : units'[m][v] = units[m][v]
      /\ Len(units[m]) \in Nat /\ Len(units[m]) <= Len(units'[m])
  BY SendPos
<1>3. /\ Len(units'[m]) \in Nat
      /\ UNCHANGED <<frameType, VideoBuffer, pc, StartFlag, EndFlag, buf, out>>
  BY <1>1, LenProperties DEF SendPacket
<1>4. /\ \A q : Genuine(m, q) => Genuine(m, q)'
      /\ \A v \in 1 .. Len(units[m]) : Whole(m, v)' = Whole(m, v)
  BY <1>2, <1>3, UnitsGrow
<1>5. p.i <= p.n /\ p.n = units'[m][p.unit].n BY <1>2 DEF Genuine
<1>6. /\ \A a \in Nat \X Nat : Less(a, Pos(p)) => Less(a, After(p))
      /\ \A v, i \in Nat :
            i # 0 /\ (v = p.unit => i <= p.n) /\ Less(<<v, i>>, After(p))
               => Less(<<v, i>>, Pos(p)) \/ <<v, i>> = Pos(p)
  BY <1>1, <1>5, LessAfter
<1>7. u \in Nat /\ Pos(p) = <<p.unit, p.i>> BY <1>1, <1>3, PosType
<1>8. units'[m][u].n \in Nat
  <2>1. units'[m] \in Seq(Shape) BY <1>1
  <2>2. units'[m][u] \in Shape BY <2>1, ElementOfSeq
  <2> QED BY <2>2 DEF Shape
<1>9. net[m] \in Seq(Packet) /\ Len(net[m]) \in Nat BY LenProperties DEF TypeInv, Types
<1>10. /\ \A i : At(m, u, i) => At(m, u, i)'
       /\ net'[m] = Append(net[m], p) => At(m, p.unit, p.i)'
  <2>1. CASE net'[m] = Append(net[m], p)
    <3>1. /\ Len(net'[m]) = Len(net[m]) + 1 /\ net'[m][Len(net[m]) + 1] = p
          /\ \A j \in 1 .. Len(net[m]) : net'[m][j] = net[m][j]
      BY <1>1, <1>9, <2>1, AppendProperties
    <3>2. /\ Len(net[m]) + 1 \in 1 .. Len(net'[m])
          /\ \A j \in 1 .. Len(net[m]) : j \in 1 .. Len(net'[m])
      BY <1>9, <3>1
    <3> QED BY <1>7, <3>1, <3>2 DEF At
  <2>2. CASE net'[m] # Append(net[m], p)
    <3>1. net'[m] = net[m] BY <2>2
    <3> QED BY <2>2, <3>1 DEF At
  <2> QED BY <2>1, <2>2
<1>11. ASSUME NEW c \in Nat, NEW i \in c + 1 .. units'[m][u].n, Less(<<u, i>>, ToSend(m)'),
              Less(<<u, i>>, ToSend(m)) => At(m, u, i)
       PROVE  At(m, u, i)'
  <2>1. i \in Nat /\ i # 0 /\ i <= units'[m][u].n BY <1>8
  <2>2. Less(<<u, i>>, Pos(p)) \/ <<u, i>> = Pos(p)
    BY <1>2, <1>5, <1>6, <1>7, <1>11, <2>1
  <2>3. CASE Less(<<u, i>>, Pos(p)) BY <1>2, <1>10, <1>11, <2>3
  <2>4. CASE <<u, i>> = Pos(p)
    <3>1. u = p.unit /\ i = p.i BY <1>7, <2>4
    <3> QED BY <1>10, <3>1
  <2> QED BY <2>2, <2>3, <2>4
<1>12. CASE u \notin 1 .. Len(units[m])
  <2>1. u > Len(units[m]) BY <1>2, <1>3, <1>12
  <2>2. ASSUME NEW i \in 0 + 1 .. units'[m][u].n, Less(<<u, i>>, ToSend(m)')
        PROVE  At(m, u, i)'
    <3>1. i \in Nat /\ i # 0 BY <1>8
    <3>2. ~Less(<<u, i>>, ToSend(m)) BY <1>7, <2>1, <3>1, ToSendType
    <3>3. 0 \in Nat OBVIOUS
    <3> QED BY <1>11, <2>2, <3>2, <3>3
  <2>3. Waiting(m, u)' BY <2>2 DEF Waiting, Rest
  <2> QED BY <2>3 DEF Fine
<1>13. CASE u \in 1 .. Len(units[m])
  <2>1. units'[m][u] = units[m][u] BY <1>2, <1>13
  <2>2. ASSUME NEW c \in Nat, Rest(m, u, c) PROVE Rest(m, u, c)'
    <3>1. ASSUME NEW i \in c + 1 .. units'[m][u].n, Less(<<u, i>>, ToSend(m)')
          PROVE  At(m, u, i)'
      <4>1. Less(<<u, i>>, ToSend(m)) => At(m, u, i) BY <2>1, <2>2 DEF Rest
      <4> QED BY <1>11, <3>1, <4>1
    <3> QED BY <3>1 DEF Rest
  <2>3. CASE Came(m, u)
    <3>1. Came(m, u)' BY <1>3, <1>4, <1>13, <2>3 DEF Came
    <3> QED BY <3>1 DEF Fine
  <2>4. CASE Waiting(m, u)
    <3>1. Waiting(m, u)' BY <2>2, <2>4, 0 \in Nat DEF Waiting
    <3> QED BY <3>1 DEF Fine
  <2>5. CASE Open(m, u)
    <3>1. PICK c \in 1 .. units[m][u].n : Opened(m, u, c) BY <2>5 DEF Open
    <3>2. c \in Nat /\ <<u, c>> \in Nat \X Nat BY <1>7, <1>8, <2>1
    <3>3. Less(<<u, c>>, Pos(p)) BY <1>2, <3>1 DEF Opened
    <3>4. Less(<<u, c>>, ToSend(m)') BY <1>2, <1>6, <3>2, <3>3
    <3>5. Rest(m, u, c)' BY <2>2, <3>1, <3>2 DEF Opened
    <3>6. ASSUME NEW j \in 1 .. Len(net'[m]) PROVE Less(<<u, c>>, Pos(net'[m][j]))
      <4>1. /\ p \in Packet /\ net[m] \in Seq(Packet)
            /\ net'[m] = net[m] \/ net'[m] = Append(net[m], p)
        BY <1>1, <1>9
      <4>2. (j \in 1 .. Len(net[m]) /\ net'[m][j] = net[m][j])
            \/ (j = Len(net[m]) + 1 /\ net'[m][j] = p)
        BY <4>1, Appended, SMTT(30)
      <4> QED BY <3>1, <3>3, <4>2 DEF Opened
    <3>7. Gathered(m, u, c) => Gathered(m, u, c)' BY <1>3, <2>1 DEF Gathered
    <3>8. HeldAt(m, u, c) => HeldAt(m, u, c)'
      <4>1. Genuine(m, VideoBuffer) => Genuine(m, VideoBuffer)' BY <1>3, <1>4 DEF Genuine
      <4> QED BY <1>3, <2>1, <4>1 DEF HeldAt
    <3>9. Opened(m, u, c)' BY <3>1, <3>4, <3>5, <3>6, <3>7, <3>8 DEF Opened
    <3>10. Open(m, u)' BY <2>1, <3>9 DEF Open
    <3> QED BY <3>10 DEF Fine
  <2> QED BY <1>13, <2>1, <2>3, <2>4, <2>5 DEF Fine
<1> QED BY <1>12, <1>13

\* A lost packet costs one unit, a late one two, one that comes twice one.
LEMMA DamageSend ==
    ASSUME TypeInv, TypeInv', Sampled, NEW m \in Medias, Damage(m), NEW s \in Shapes[m],
           Arrive(m, s) \/ Lose(m, s) \/ Delay(m, s) \/ Duplicate(m, s)
    PROVE  Damage(m)'
<1>1. PICK p : p = NextPacket(m, s) OBVIOUS
<1>2. /\ SendPacket(m, s)
      /\ faults \in [Medias -> Nat] /\ net \in [Medias -> Seq(Packet)]
      /\ late \in [Medias -> SUBSET Packet]
  BY DEF Arrive, Lose, Delay, Duplicate, TypeInv, Types
<1>3. Ordered(m) /\ Known(m) /\ Paid(m) BY DEF Damage
<1>4. \/ net'[m] = Append(net[m], p) /\ late'[m] = late[m] /\ faults'[m] = faults[m]
      \/ net'[m] = net[m] /\ late'[m] = late[m] /\ faults'[m] = faults[m] + 1
      \/ net'[m] = net[m] /\ late'[m] = late[m] \cup {p} /\ faults'[m] = faults[m] + 2
      \/ /\ net'[m] = Append(net[m], p) /\ late'[m] = late[m] \cup {p}
         /\ faults'[m] = faults[m] + 1
  <2>1. CASE Arrive(m, s) BY <1>1, <1>2, <2>1 DEF Arrive
  <2>2. CASE Lose(m, s) BY <1>2, <2>2 DEF Lose
  <2>3. CASE Delay(m, s) BY <1>1, <1>2, <2>3 DEF Delay
  <2>4. CASE Duplicate(m, s) BY <1>1, <1>2, <2>4 DEF Duplicate
  <2> QED BY <2>1, <2>2, <2>3, <2>4
<1>5. net'[m] = net[m] \/ net'[m] = Append(net[m], p) BY <1>4
<1>6. /\ p \in Packet /\ Emitted(m, p)'
      /\ \A q \in Packet : Emitted(m, q) => Emitted(m, q)'
      /\ Ordered(m)' /\ \A j \in 1 .. Len(net'[m]) : Emitted(m, net[m][j])'
  BY <1>1, <1>2, <1>3, <1>5, SendKnown
<1>7. /\ IsFiniteSet(late[m]) /\ Cardinality(late[m]) \in Nat
      /\ late[m] \subseteq Packet /\ faults[m] \in Nat
  BY <1>2, <1>3, FS_CardinalityType DEF Known
<1>8. /\ IsFiniteSet(late[m] \cup {p})
      /\ Cardinality(late[m] \cup {p}) \in {Cardinality(late[m]), Cardinality(late[m]) + 1}
  BY <1>7, FS_AddElement
<1>9. Known(m)'
  <2>1. IsFiniteSet(late'[m]) BY <1>4, <1>7, <1>8
  <2>2. \A q \in late'[m] : Emitted(m, q)' BY <1>3, <1>4, <1>6, <1>7 DEF Known
  <2> QED BY <1>6, <2>1, <2>2 DEF Known
<1>10. /\ Cardinality(Lost(m)) \in Nat /\ Cardinality(Lost(m)') \in Nat
       /\ Lost(m)' \subseteq Lost(m) => Cardinality(Lost(m)') <= Cardinality(Lost(m))
       /\ \A x : Lost(m)' \subseteq Lost(m) \cup {x} =>
             Cardinality(Lost(m)') <= Cardinality(Lost(m)) + 1
  BY LostCount
<1>11. ASSUME NEW u \in Lost(m)', u # p.unit \/ net'[m] = Append(net[m], p)
       PROVE  u \in Lost(m)
  <2>1. u \in 1 .. Len(units'[m]) /\ units'[m][u].offset = 0 /\ ~Fine(m, u)' BY DEF Lost
  <2>2. u \in 1 .. Len(units[m]) /\ ~Fine(m, u) /\ units'[m][u] = units[m][u]
    BY <1>1, <1>2, <1>3, <1>5, <1>11, <2>1, SendFine
  <2> QED BY <2>1, <2>2 DEF Lost
<1>12. CASE net'[m] = Append(net[m], p)
  <2>1. Lost(m)' \subseteq Lost(m) BY <1>11, <1>12
  <2>2. Cardinality(Lost(m)') <= Cardinality(Lost(m)) BY <1>10, <2>1
  <2>3. \/ Cardinality(late'[m]) = Cardinality(late[m]) /\ faults'[m] >= faults[m]
        \/ Cardinality(late'[m]) = Cardinality(late[m]) + 1 /\ faults'[m] >= faults[m] + 1
    <3>1. net[m] # Append(net[m], p)
      BY <1>2, <1>6, AppendProperties, LenProperties
    <3>2. \/ late'[m] = late[m] /\ faults'[m] = faults[m]
          \/ late'[m] = late[m] \cup {p} /\ faults'[m] = faults[m] + 1
      BY <1>4, <1>12, <3>1
    <3>3. CASE late'[m] = late[m] /\ faults'[m] = faults[m] BY <1>7, <3>3
    <3>4. CASE late'[m] = late[m] \cup {p} /\ faults'[m] = faults[m] + 1
      <4>1. faults'[m] >= faults[m] /\ faults'[m] >= faults[m] + 1 BY <1>7, <3>4
      <4>2. Cardinality(late'[m]) \in {Cardinality(late[m]), Cardinality(late[m]) + 1}
        BY <1>8, <3>4
      <4> QED BY <4>1, <4>2
    <3> QED BY <3>2, <3>3, <3>4
  <2>4. faults'[m] \in Nat BY <1>4, <1>7
  <2>5. Paid(m)' BY <1>3, <1>7, <1>10, <2>2, <2>3, <2>4 DEF Paid
  <2> QED BY <1>6, <1>9, <2>5 DEF Damage
<1>13. CASE net'[m] # Append(net[m], p)
  <2>1. Lost(m)' \subseteq Lost(m) \cup {p.unit} BY <1>11
  <2>2. Cardinality(Lost(m)') <= Cardinality(Lost(m)) + 1 BY <1>10, <2>1
  <2>3. \/ Cardinality(late'[m]) = Cardinality(late[m]) /\ faults'[m] = faults[m] + 1
        \/ Cardinality(late'[m]) \in {Cardinality(late[m]), Cardinality(late[m]) + 1}
           /\ faults'[m] = faults[m] + 2
    BY <1>4, <1>8, <1>13
  <2>4. Paid(m)' BY <1>3, <1>7, <1>10, <2>2, <2>3 DEF Paid
  <2> QED BY <1>6, <1>9, <2>4 DEF Damage
<1> QED BY <1>12, <1>13

\* Every position has one packet.
LEMMA OnePacket ==
    ASSUME NEW m, NEW p \in Packet, NEW q \in Packet, Genuine(m, p), Genuine(m, q),
           p.unit = q.unit, p.i = q.i
    PROVE  p = q
<1>1. /\ p.media = q.media /\ p.n = q.n /\ p.nt = q.nt /\ p.size = q.size
      /\ p.offset = q.offset
  BY DEF Genuine
<1>2. ASSUME NEW r \in Packet
      PROVE  r = [media |-> r.media, unit |-> r.unit, i |-> r.i, n |-> r.n, nt |-> r.nt,
                  size |-> r.size, offset |-> r.offset]
  BY DEF Packet
<1>3. p = [media |-> p.media, unit |-> p.unit, i |-> p.i, n |-> p.n, nt |-> p.nt,
           size |-> p.size, offset |-> p.offset]
  BY <1>2
<1>4. q = [media |-> q.media, unit |-> q.unit, i |-> q.i, n |-> q.n, nt |-> q.nt,
           size |-> q.size, offset |-> q.offset]
  BY <1>2
<1> QED BY <1>1, <1>3, <1>4

\* A late packet, if it is not dropped, costs at most the unit that is being
\* collected, and is no longer late.
LEMMA DamageLate ==
    ASSUME TypeInv, TypeInv', NEW m \in Medias, Damage(m), ArriveLate(m)
    PROVE  Damage(m)'
<1>1. PICK p \in late[m] : /\ net' = [net EXCEPT ![m] = Insert(net[m], p)]
                           /\ late' = [late EXCEPT ![m] = late[m] \ {p}]
  BY DEF ArriveLate
<1>2. /\ UNCHANGED <<frameType, VideoBuffer, pc, StartFlag, EndFlag, buf, units, left, out,
                     faults>>
      /\ net[m] \in Seq(Packet) /\ late[m] \subseteq Packet /\ p \in Packet
      /\ net'[m] = Insert(net[m], p) /\ late'[m] = late[m] \ {p} /\ faults[m] \in Nat
  BY <1>1 DEF ArriveLate, TypeInv, Types
<1>3. Ordered(m) /\ Known(m) /\ Paid(m) BY DEF Damage
<1>4. ToSend(m)' = ToSend(m) BY <1>2 DEF ToSend
<1>5. \A q : Emitted(m, q) => Emitted(m, q)' BY <1>2, <1>4 DEF Emitted, Genuine
<1>6. /\ Cardinality(late[m]) \in Nat /\ IsFiniteSet(late'[m])
      /\ Cardinality(late'[m]) = Cardinality(late[m]) - 1
  BY <1>2, <1>3, FS_CardinalityType, FS_RemoveElement DEF Known
<1>7. PICK q : q = net[m] OBVIOUS
<1>8. /\ q \in Seq(Packet) /\ \A j \in 1 .. Len(q) : q[j] \in Packet /\ Emitted(m, q[j])
      /\ \A i, j \in 1 .. Len(q) : i < j => Before(q[i], q[j])
  BY <1>2, <1>3, <1>7, ElementOfSeq DEF Known, Ordered
<1>9. PICK r : /\ r = net'[m]
               /\ \A i, j \in 1 .. Len(r) : i < j => Before(r[i], r[j])
               /\ \A j \in 1 .. Len(r) : r[j] = p \/ \E l \in 1 .. Len(q) : r[j] = q[l]
               /\ \A l \in 1 .. Len(q) : \E j \in 1 .. Len(r) : r[j] = q[l]
  <2>1. CASE \E j \in 1 .. Len(q) : q[j] = p
    <3>1. net'[m] = q BY <1>2, <1>7, <2>1 DEF Insert
    <3> QED BY <1>8, <3>1
  <2>2. CASE ~ \E j \in 1 .. Len(q) : q[j] = p
    <3>1. ASSUME NEW j \in 1 .. Len(q), Pos(q[j]) = Pos(p) PROVE FALSE
      <4>1. q[j].unit = p.unit /\ q[j].i = p.i BY <3>1 DEF Pos
      <4>2. Genuine(m, q[j]) /\ Genuine(m, p) BY <1>3, <1>8 DEF Emitted, Known
      <4>3. q[j] \in Packet /\ p \in Packet BY <1>2, <1>8
      <4>4. q[j] = p BY <4>1, <4>2, <4>3, OnePacket
      <4> QED BY <2>2, <4>4
    <3>2. \A j \in 1 .. Len(q) : Pos(q[j]) # Pos(p) BY <3>1
    <3>3. PICK r \in Seq(Packet) :
             /\ r = Insert(q, p)
             /\ \A i, j \in 1 .. Len(r) : i < j => Before(r[i], r[j])
             /\ \A j \in 1 .. Len(r) : r[j] = p \/ \E l \in 1 .. Len(q) : r[j] = q[l]
             /\ \A l \in 1 .. Len(q) : \E j \in 1 .. Len(r) : r[j] = q[l]
      <4>1. q \in Seq(Packet) /\ p \in Packet BY <1>2, <1>8
      <4>2. \A i, j \in 1 .. Len(q) : i < j => Before(q[i], q[j]) BY <1>8
      <4> QED BY <3>2, <4>1, <4>2, InsertOrdered
    <3> QED BY <1>2, <1>7, <3>3
  <2> QED BY <2>1, <2>2
<1>10. Ordered(m)' BY <1>9 DEF Ordered
<1>11. Known(m)'
  <2>1. ASSUME NEW j \in 1 .. Len(r), NEW x, x = r[j] PROVE Emitted(m, x)'
    <3>1. Emitted(m, p) BY <1>3 DEF Known
    <3> QED BY <1>5, <1>8, <1>9, <2>1, <3>1
  <2>2. \A j \in 1 .. Len(net'[m]) : Emitted(m, net[m][j])'
    BY <1>9, <2>1 DEF Emitted, Genuine
  <2>3. \A x \in late'[m] : Emitted(m, x)' BY <1>2, <1>3, <1>5 DEF Known
  <2> QED BY <1>6, <2>2, <2>3 DEF Known
<1>12. \A u, i : At(m, u, i) => At(m, u, i)' BY <1>7, <1>9 DEF At
<1>13. ASSUME NEW u, Came(m, u) \/ Waiting(m, u) PROVE Fine(m, u)'
  <2>1. CASE Came(m, u) BY <1>2, <2>1 DEF Came, Whole, Fine
  <2>2. CASE Waiting(m, u)
    <3>1. Waiting(m, u)' BY <1>2, <1>4, <1>12, <2>2 DEF Waiting, Rest
    <3> QED BY <3>1 DEF Fine
  <2> QED BY <1>13, <2>1, <2>2
<1>14. PICK x : \A u \in 1 .. Len(units[m]) : Open(m, u) => u = x
  <2>1. CASE \E v \in 1 .. Len(units[m]) : Open(m, v)
    <3>1. PICK v \in 1 .. Len(units[m]) : Open(m, v) BY <2>1
    <3>2. \A u \in 1 .. Len(units[m]) : Open(m, u) => u = v BY <3>1, OneOpen
    <3> QED BY <3>2
  <2>2. CASE ~ \E v \in 1 .. Len(units[m]) : Open(m, v) BY <2>2
  <2> QED BY <2>1, <2>2
<1>15. Lost(m)' \subseteq Lost(m) \cup {x}
  BY <1>2, <1>13, <1>14 DEF Lost, Fine
<1>16. /\ Cardinality(Lost(m)) \in Nat /\ Cardinality(Lost(m)') \in Nat
       /\ Cardinality(Lost(m)') <= Cardinality(Lost(m)) + 1
  BY <1>15, LostCount
<1>17. Paid(m)' BY <1>2, <1>3, <1>6, <1>16 DEF Paid
<1> QED BY <1>10, <1>11, <1>17 DEF Damage

\* A step of another media does not touch the account of this one, unless it
\* replaces the packet this one holds.
LEMMA DamageFrame ==
    ASSUME NEW n \in Medias, Damage(n), frameType' = frameType,
           late'[n] = late[n], net'[n] = net[n], out'[n] = out[n], pc'[n] = pc[n],
           units'[n] = units[n], left'[n] = left[n], buf'[n] = buf[n],
           StartFlag'[n] = StartFlag[n], EndFlag'[n] = EndFlag[n], faults'[n] = faults[n],
           pc[n] \in {"idle", "fetch"} \/ VideoBuffer' = VideoBuffer
    PROVE  Damage(n)'
<1>1. ToSend(n)' = ToSend(n) BY DEF ToSend
<1>2. \A p : Emitted(n, p)' <=> Emitted(n, p) BY <1>1 DEF Emitted, Genuine
<1>3. Ordered(n)' BY DEF Damage, Ordered
<1>4. Known(n)'
  <2>1. \A j \in 1 .. Len(net'[n]) : Emitted(n, net[n][j])'
    BY <1>1 DEF Damage, Known, Emitted, Genuine
  <2> QED BY <1>2, <2>1 DEF Damage, Known
<1>5. \A u : Came(n, u)' <=> Came(n, u) BY DEF Came, Whole
<1>6. \A u, i : At(n, u, i)' <=> At(n, u, i) BY DEF At
<1>7. \A u, c : Rest(n, u, c)' <=> Rest(n, u, c) BY <1>1, <1>6 DEF Rest
<1>8. \A u, c : Gathered(n, u, c)' <=> Gathered(n, u, c) BY DEF Gathered
<1>9. \A u, c : HeldAt(n, u, c)' <=> HeldAt(n, u, c)
  <2>1. CASE pc[n] \in {"idle", "fetch"} BY <2>1 DEF HeldAt
  <2>2. CASE VideoBuffer' = VideoBuffer BY <2>2 DEF HeldAt, Genuine
  <2> QED BY <2>1, <2>2
<1>10. \A u, c : Opened(n, u, c)' <=> Opened(n, u, c)
  BY <1>1, <1>7, <1>8, <1>9 DEF Opened
<1>11. \A u : Open(n, u)' <=> Open(n, u) BY <1>10 DEF Open
<1>12. \A u : Fine(n, u)' <=> Fine(n, u) BY <1>5, <1>7, <1>11 DEF Fine, Waiting
<1>13. Lost(n)' = Lost(n) BY <1>12 DEF Lost
<1>14. Paid(n)' BY <1>13 DEF Damage, Paid
<1> QED BY <1>3, <1>4, <1>14 DEF Damage

\* The server and the network keep the account of every media.
LEMMA DamageEnvironment ==
    ASSUME TypeInv, TypeInv', DamageInv, NEW m \in Medias, Environment(m)
    PROVE  DamageInv'
<1>1. /\ faults \in [Medias -> Nat] /\ net \in [Medias -> Seq(Packet)]
      /\ late \in [Medias -> SUBSET Packet]
  BY DEF TypeInv, Types
<1>2. UNCHANGED <<frameType, prefixParameterOnce, VideoBuffer, pc, StartFlag, EndFlag, buf,
                  out>>
  BY DEF Environment, Arrive, Lose, Delay, Duplicate, SendPacket, ArriveLate
<1>3. /\ Sampled'
      /\ \A n \in Medias : n # m => units'[n] = units[n] /\ left'[n] = left[n]
  <2>1. ASSUME NEW s \in Shapes[m], SendPacket(m, s)
        PROVE  /\ Sampled'
               /\ \A n \in Medias : n # m => units'[n] = units[n] /\ left'[n] = left[n]
    BY <2>1, SendPos DEF DamageInv
  <2>2. CASE ArriveLate(m) BY <2>2 DEF ArriveLate, DamageInv, Sampled
  <2> QED BY <2>1, <2>2 DEF Environment, Arrive, Lose, Delay, Duplicate
<1>4. \A n \in Medias : n # m => /\ net'[n] = net[n] /\ late'[n] = late[n]
                                 /\ faults'[n] = faults[n]
  BY <1>1 DEF Environment, Arrive, Lose, Delay, Duplicate, ArriveLate
<1>5. Damage(m)'
  BY DamageSend, DamageLate DEF DamageInv, Environment
<1>6. ASSUME NEW n \in Medias, n # m PROVE Damage(n)'
  <2>1. Damage(n) BY DEF DamageInv
  <2> QED BY <1>2, <1>3, <1>4, <1>6, <2>1, DamageFrame
<1> QED BY <1>3, <1>5, <1>6 DEF DamageInv

\* So does every step of a call.
LEMMA DamageStep ==
    ASSUME Framed, TypeInv, TypeInv', OwnInv, DamageInv, NEW m \in Medias, Step(m)
    PROVE  DamageInv'
<1>1. /\ faults \in [Medias -> Nat] /\ net \in [Medias -> Seq(Packet)]
      /\ StartFlag \in [Medias -> BOOLEAN] /\ EndFlag \in [Medias -> BOOLEAN]
  BY DEF TypeInv, Types
<1>2. /\ UNCHANGED <<frameType, prefixParameterOnce, units, left>> /\ pc[m] # "idle"
      /\ \A n \in Medias : n # m => /\ buf'[n] = buf[n] /\ out'[n] = out[n]
                                    /\ pc'[n] = pc[n]
  BY StepEffect
<1>3. Sampled' BY <1>2 DEF DamageInv, Sampled
<1>4. /\ late' = late
      /\ \A n \in Medias : n # m => /\ net'[n] = net[n] /\ faults'[n] = faults[n]
                                    /\ StartFlag'[n] = StartFlag[n] /\ EndFlag'[n] = EndFlag[n]
  BY <1>1 DEF Step, NoData, FetchEmpty, FetchTooLarge, FetchTruncated, FetchFits, Fetch,
              ParsePacket, ParsePacketError, CopyData, CopyDataRunsOff, Copy, Return,
              ReturnNULL, Leave
<1>5. Damage(m)'
  <2>1. Damage(m) /\ Sampled BY DEF DamageInv
  <2> QED BY <2>1, DamageNULL, DamageFetch, DamageTruncated, DamageParse, DamageCopy DEF Step
<1>6. ASSUME NEW n \in Medias, n # m PROVE Damage(n)'
  <2>1. Damage(n) BY DEF DamageInv
  <2>2. pc[n] = "idle" BY <1>2, <1>6 DEF OwnInv, Alone
  <2> QED BY <1>2, <1>4, <1>6, <2>1, <2>2, DamageFrame
<1> QED BY <1>3, <1>5, <1>6 DEF DamageInv

\* DamageInv is inductive.
LEMMA DamageNext ==
    ASSUME SingleThread, Framed
    PROVE  TypeInv /\ TypeInv' /\ OwnInv /\ DamageInv /\ [Next]_vars => DamageInv'
<1> SUFFICES ASSUME TypeInv, TypeInv', OwnInv, DamageInv, [Next]_vars PROVE DamageInv'
  OBVIOUS
<1>1. ASSUME NEW m \in Medias, GetMediaData(m) PROVE DamageInv'
  <2>1. /\ buf \in [Medias -> Seq(Item)]
        /\ pc \in [Medias -> {"idle", "fetch", "parse", "copy"}]
    BY DEF TypeInv, Types
  <2>2. /\ UNCHANGED <<frameType, VideoBuffer, StartFlag, EndFlag, units, left, net, late, out,
                       faults>>
        /\ \A n \in Medias : n # m => pc'[n] = pc[n] /\ buf'[n] = buf[n]
    BY <1>1, <2>1 DEF GetMediaData
  <2>3. Sampled' BY <2>2 DEF DamageInv, Sampled
  <2>4. ASSUME NEW n \in Medias PROVE Damage(n)'
    <3>1. Damage(n) BY DEF DamageInv
    <3>2. CASE n = m BY <1>1, <3>1, <3>2, DamageCall
    <3>3. CASE n # m BY <2>2, <3>1, <3>3, DamageFrame
    <3> QED BY <3>2, <3>3
  <2> QED BY <2>3, <2>4 DEF DamageInv
<1>2. CASE UNCHANGED vars
  <2>1. Sampled' BY <1>2 DEF vars, DamageInv, Sampled
  <2>2. ASSUME NEW n \in Medias PROVE Damage(n)'
    <3>1. Damage(n) BY DEF DamageInv
    <3> QED BY <1>2, <3>1, DamageFrame DEF vars
  <2> QED BY <2>1, <2>2 DEF DamageInv
<1> QED BY <1>1, <1>2, DamageEnvironment, DamageStep DEF Next

\* Nothing was sent yet, and nothing is lost.
LEMMA DamageInit == Init => DamageInv
<1> SUFFICES ASSUME Init PROVE DamageInv
  OBVIOUS
<1>1. Sampled BY DEF Init, Sampled
<1>2. ASSUME NEW m \in Medias PROVE Damage(m)
  <2>1. late[m] = {} /\ net[m] = <<>> /\ units[m] = <<>> /\ faults[m] = 0 BY DEF Init
  <2>2. Len(<<>>) = 0 BY EmptySeq
  <2>3. Lost(m) = {} BY <2>1, <2>2 DEF Lost
  <2>4. IsFiniteSet({}) /\ Cardinality({}) = 0 BY FS_EmptySet
  <2>5. Ordered(m) /\ Known(m) BY <2>1, <2>2, <2>4 DEF Ordered, Known
  <2>6. Paid(m) BY <2>1, <2>3, <2>4 DEF Paid
  <2> QED BY <2>5, <2>6 DEF Damage
<1> QED BY <1>1, <1>2 DEF DamageInv

-----------------------------------------------------------------------------
(* The result *)

\* A unit that is over is fine only if it came out.
LEMMA SpoiledLost ==
    ASSUME TypeInv, NEW m \in Medias
    PROVE  Spoiled(m) \subseteq Lost(m)
<1> SUFFICES ASSUME NEW u \in Spoiled(m) PROVE u \in Lost(m) OBVIOUS
<1>1. /\ u \in 1 .. Len(units[m]) /\ (u < Len(units[m]) \/ Sent(m))
      /\ \A j \in 1 .. Len(net[m]) : net[m][j].unit # u
      /\ pc[m] = "idle" \/ (/\ \A j \in 1 .. Len(buf[m]) :
                                  buf[m][j] = XPS(m) \/ buf[m][j][2] # u
                            /\ pc[m] = "fetch" \/ VideoBuffer.unit # u)
      /\ units[m][u].offset = 0 /\ ~Came(m, u)
  BY DEF Spoiled, Settled, Came
<1>2. /\ u \in Nat \ {0} /\ units[m][u].n \in Nat \ {0}
      /\ \A i \in Nat : Less(<<u, i>>, ToSend(m))
  <2>1. u \in 1 .. Len(units[m]) BY <1>1
  <2> QED BY <1>1, <2>1, ToSendType
<1>3. ~Waiting(m, u)
  <2> SUFFICES ASSUME Waiting(m, u) PROVE FALSE OBVIOUS
  <2>1. 1 \in 0 + 1 .. units[m][u].n /\ 1 \in Nat BY <1>2
  <2>2. At(m, u, 1) BY <1>2, <2>1 DEF Waiting, Rest
  <2>3. PICK j \in 1 .. Len(net[m]) : Pos(net[m][j]) = <<u, 1>> BY <2>2 DEF At
  <2>4. net[m][j].unit = u BY <2>3 DEF Pos
  <2> QED BY <1>1, <2>4
<1>4. ~Open(m, u)
  <2> SUFFICES ASSUME Open(m, u) PROVE FALSE OBVIOUS
  <2>1. PICK c \in 1 .. units[m][u].n : Opened(m, u, c) BY DEF Open
  <2>2. CASE Gathered(m, u, c)
    <3>1. /\ pc[m] = "fetch" /\ EndsWith(buf[m], Part(frameType[m], m, u, c))
          /\ frameType[m] \in FrameType /\ buf[m] \in Seq(Item) /\ c \in Nat \ {0}
      BY <1>2, <2>2, StreamsAssumption DEF Gathered, TypeInv, Types
    <3>2. Len(buf[m]) \in Nat \ {0} /\ buf[m][Len(buf[m])] = <<m, u, c>>
      BY <1>2, <3>1, PartLast
    <3>3. Len(buf[m]) \in 1 .. Len(buf[m]) BY <3>2
    <3>4. buf[m][Len(buf[m])] = XPS(m) \/ buf[m][Len(buf[m])][2] # u
      BY <1>1, <3>1, <3>3
    <3>5. <<m, u, c>> # <<m, 0, 0>> /\ <<m, u, c>>[2] = u BY <1>2
    <3> QED BY <3>2, <3>4, <3>5 DEF XPS
  <2>3. CASE HeldAt(m, u, c)
    <3>1. pc[m] \in {"parse", "copy"} /\ Pos(VideoBuffer) = <<u, c>> BY <2>3 DEF HeldAt
    <3>2. VideoBuffer.unit = u BY <3>1 DEF Pos
    <3> QED BY <1>1, <3>1, <3>2
  <2> QED BY <2>1, <2>2, <2>3 DEF Opened
<1> QED BY <1>1, <1>3, <1>4 DEF Lost, Fine

\* Damage does not spread, for any number of medias, units and faults: of a media
\* no more units are spoiled than it had faults, whatever the network delays,
\* repeats and loses, however the calls of GetMediaData give up and resume in the
\* middle of a unit, and whatever the other medias do.
THEOREM MediaDamageContained ==
    ASSUME SingleThread, Framed PROVE Spec => []DamageContained
<1>1. TypeInv /\ DamageInv => DamageContained
  <2> SUFFICES ASSUME TypeInv, DamageInv, NEW m \in Medias
               PROVE  Cardinality(Spoiled(m)) <= faults[m]
    BY DEF DamageContained
  <2>1. Paid(m) /\ Known(m) BY DEF DamageInv, Damage
  <2>2. IsFiniteSet(Lost(m))
    <3>1. Len(units[m]) \in Nat BY ToSendType
    <3>2. IsFiniteSet(1 .. Len(units[m])) BY <3>1, FS_Interval
    <3>3. Lost(m) \subseteq 1 .. Len(units[m]) BY DEF Lost
    <3> QED BY <3>2, <3>3, FS_Subset
  <2>3. IsFiniteSet(Spoiled(m)) /\ Cardinality(Spoiled(m)) <= Cardinality(Lost(m))
    BY <2>2, SpoiledLost, FS_Subset
  <2>4. /\ Cardinality(Spoiled(m)) \in Nat /\ Cardinality(Lost(m)) \in Nat
        /\ Cardinality(late[m]) \in Nat /\ faults[m] \in Nat
    BY <2>1, <2>2, <2>3, FS_CardinalityType DEF Known, TypeInv, Types
  <2> QED BY <2>1, <2>3, <2>4 DEF Paid
<1> QED BY <1>1, DamageInit, DamageNext, TypeAlways, OwnAlways, PTL DEF Spec
=============================================================================
