------------------------- MODULE SdpSessionsProofs -------------------------
(* Proofs about SdpSessions, for any media types, payload types and lines. *)
EXTENDS SdpSessions, TLAPS, SequenceTheorems, WellFoundedInduction

-----------------------------------------------------------------------------
(* Lowest and last *)

LEMMA Lowest ==
    ASSUME NEW T, T \subseteq Nat, T # {}
    PROVE  \E x \in T : \A y \in T : x <= y
<1> DEFINE R == OpToRel(<, Nat)
<1>1. IsWellFoundedOn(R, Nat) BY NatLessThanWellFounded
<1> HIDE DEF R
<1>2. PICK x \in T : \A y \in T : <<y, x>> \notin R BY <1>1, WFMin
<1>3. \A y \in Nat, z \in Nat : y < z => <<y, z>> \in R BY DEF R, OpToRel
<1>4. ASSUME NEW y \in T PROVE x <= y
  <2>1. x \in Nat /\ y \in Nat OBVIOUS
  <2>2. ~(y < x) BY <1>2, <1>3, <2>1
  <2> QED BY <2>1, <2>2
<1> QED BY <1>4

LEMMA LastIn ==
    ASSUME NEW n \in Nat, NEW S, S \subseteq 1 .. n, S # {}
    PROVE  Last(S) \in S /\ \A j \in S : j <= Last(S)
<1> DEFINE T == {n - i : i \in S}
<1>1. T \subseteq Nat /\ T # {}
  <2>1. \A i \in S : n - i \in Nat OBVIOUS
  <2>2. PICK i \in S : TRUE OBVIOUS
  <2>3. n - i \in T BY <2>2
  <2> QED BY <2>1, <2>3
<1>2. PICK x \in T : \A y \in T : x <= y BY <1>1, Lowest
<1>3. PICK i \in S : x = n - i BY <1>2
<1>4. ASSUME NEW j \in S PROVE j <= i
  <2>1. n - i <= n - j BY <1>2, <1>3
  <2> QED BY <2>1
<1> QED BY <1>4 DEF Last

LEMMA LastNew ==
    ASSUME NEW n \in Nat, NEW S, S \subseteq 1 .. n
    PROVE  Last(S \cup {n + 1}) = n + 1
<1> DEFINE U == S \cup {n + 1}
<1>1. n + 1 \in U /\ \A j \in U : j <= n + 1 OBVIOUS
<1>2. ASSUME NEW i \in U, \A j \in U : j <= i PROVE i = n + 1
  BY <1>1, <1>2
<1> HIDE DEF U
<1>3. Last(U) = n + 1 BY <1>1, <1>2 DEF Last
<1> QED BY <1>3 DEF U

-----------------------------------------------------------------------------
(* The meaning of lines to which one is added *)

SectionKeys == {"m", "s", "t", "new"}
AttributeKeys == {"rtpmap", "fmtpH264", "fmtpH265"}
Entry == Line \cup {[key |-> "new"]}
\* a is the n lines ls with l added to them.
Longer(ls, l, n, a) ==
    ls \in Seq(Entry) /\ l \in Entry /\ n = Len(ls) /\ a = Append(ls, l)

\* The first i lines decide what stands within them.
LEMMA SameLines ==
    ASSUME NEW i \in Nat, NEW ls, NEW lt, \A j \in 1 .. i : ls[j] = lt[j],
           NEW m, NEW p
    PROVE  /\ Within(ls, i, m) <=> Within(lt, i, m)
           /\ ListedBy(ls, i, m, p) <=> ListedBy(lt, i, m, p)
<1>1. \A j \in 1 .. i : \A k \in (j + 1) .. i : k \in 1 .. i OBVIOUS
<1>2. Within(ls, i, m) => Within(lt, i, m) BY <1>1 DEF Within
<1>3. Within(lt, i, m) => Within(ls, i, m) BY <1>1 DEF Within
<1>4. ListedBy(ls, i, m, p) <=> ListedBy(lt, i, m, p) BY DEF ListedBy
<1> QED BY <1>2, <1>3, <1>4

LEMMA Added ==
    ASSUME NEW ls, NEW l, NEW n, NEW a, Longer(ls, l, n, a)
    PROVE  /\ n \in Nat /\ Len(ls) = n /\ Len(a) = n + 1 /\ a[n + 1] = l
           /\ \A j \in 1 .. n : a[j] = ls[j]
BY AppendProperties, LenProperties DEF Longer

\* Where a line stands is decided by the line before it, unless it begins a
\* section.
LEMMA WithinAdded ==
    ASSUME NEW ls, NEW l, NEW n, NEW a, Longer(ls, l, n, a), NEW m
    PROVE  /\ l.key = "m" => (Within(a, n + 1, m) <=> l.media = m)
           /\ l.key \in {"s", "t", "new"} => ~Within(a, n + 1, m)
           /\ l.key \notin SectionKeys => (Within(a, n + 1, m) <=> Within(ls, n, m))
<1>1. /\ n \in Nat /\ Len(ls) = n /\ Len(a) = n + 1 /\ a[n + 1] = l
      /\ \A j \in 1 .. n : a[j] = ls[j]
  BY Added
<1>2. Within(a, n, m) <=> Within(ls, n, m) BY <1>1, SameLines
<1>3. \A j \in 1 .. n + 1 : j \in 1 .. n \/ j = n + 1 BY <1>1
<1>4. \A j \in 1 .. n : n + 1 \in (j + 1) .. (n + 1) BY <1>1
<1>5. ASSUME l.key \in SectionKeys, Within(a, n + 1, m)
      PROVE  l.key = "m" /\ l.media = m
  <2>1. PICK j \in 1 .. n + 1 :
           /\ a[j].key = "m" /\ a[j].media = m
           /\ \A k \in (j + 1) .. (n + 1) : a[k].key \notin SectionKeys
    BY <1>5 DEF Within, SectionKeys
  <2>2. j \notin 1 .. n BY <1>1, <1>4, <1>5, <2>1
  <2>3. j = n + 1 BY <1>3, <2>2
  <2> QED BY <1>1, <2>1, <2>3
<1>6. ASSUME l.key = "m", l.media = m PROVE Within(a, n + 1, m)
  <2>1. n + 1 \in 1 .. n + 1 /\ (n + 1) + 1 .. n + 1 = {} BY <1>1
  <2> QED BY <1>1, <1>6, <2>1 DEF Within
<1>7. ASSUME l.key \notin SectionKeys, Within(a, n + 1, m) PROVE Within(a, n, m)
  <2>1. PICK j \in 1 .. n + 1 :
           /\ a[j].key = "m" /\ a[j].media = m
           /\ \A k \in (j + 1) .. (n + 1) : a[k].key \notin SectionKeys
    BY <1>7 DEF Within, SectionKeys
  <2>2. j # n + 1 BY <1>1, <1>7, <2>1 DEF SectionKeys
  <2>3. j \in 1 .. n BY <1>3, <2>2
  <2>4. \A k \in (j + 1) .. n : k \in (j + 1) .. (n + 1) BY <1>1, <2>3
  <2> QED BY <2>1, <2>3, <2>4 DEF Within, SectionKeys
<1>8. ASSUME l.key \notin SectionKeys, Within(a, n, m) PROVE Within(a, n + 1, m)
  <2>1. PICK j \in 1 .. n :
           /\ a[j].key = "m" /\ a[j].media = m
           /\ \A k \in (j + 1) .. n : a[k].key \notin SectionKeys
    BY <1>8 DEF Within, SectionKeys
  <2>2. \A k \in (j + 1) .. (n + 1) : k = n + 1 \/ k \in (j + 1) .. n BY <1>1
  <2>3. \A k \in (j + 1) .. (n + 1) : a[k].key \notin SectionKeys
    BY <1>1, <1>8, <2>1, <2>2
  <2>4. j \in 1 .. n + 1 BY <1>1
  <2> QED BY <2>1, <2>3, <2>4 DEF Within, SectionKeys
<1>9. l.key = "m" => l.key \in SectionKeys BY DEF SectionKeys
<1>10. l.key \in {"s", "t", "new"} => l.key \in SectionKeys /\ l.key # "m"
  BY DEF SectionKeys
<1> QED BY <1>2, <1>5, <1>6, <1>7, <1>8, <1>9, <1>10

LEMMA ListedAdded ==
    ASSUME NEW ls, NEW l, NEW n, NEW a, Longer(ls, l, n, a), NEW m, NEW p
    PROVE  ListedBy(a, n + 1, m, p) <=>
              ListedBy(ls, n, m, p) \/ (l.key = "m" /\ l.media = m /\ p \in l.fmts)
<1>1. /\ n \in Nat /\ Len(ls) = n /\ Len(a) = n + 1 /\ a[n + 1] = l
      /\ \A j \in 1 .. n : a[j] = ls[j]
  BY Added
<1>2. \A j \in 1 .. n + 1 : j \in 1 .. n \/ j = n + 1 BY <1>1
<1>3. n + 1 \in 1 .. n + 1 /\ \A j \in 1 .. n : j \in 1 .. n + 1 BY <1>1
<1>4. ListedBy(a, n + 1, m, p) => \/ ListedBy(ls, n, m, p)
                                  \/ (l.key = "m" /\ l.media = m /\ p \in l.fmts)
  BY <1>1, <1>2 DEF ListedBy
<1>5. ListedBy(ls, n, m, p) => ListedBy(a, n + 1, m, p)
  BY <1>1, <1>3 DEF ListedBy
<1>6. l.key = "m" /\ l.media = m /\ p \in l.fmts => ListedBy(a, n + 1, m, p)
  BY <1>1, <1>3 DEF ListedBy
<1> QED BY <1>4, <1>5, <1>6

\* A line that is added says something if it stands in a section of m, which
\* listed p before.
LEMMA SayingAdded ==
    ASSUME NEW ls, NEW l, NEW n, NEW a, Longer(ls, l, n, a), NEW m, NEW p, NEW keys \in SUBSET AttributeKeys
    PROVE  /\ Saying(ls, m, p, keys) \subseteq 1 .. n
           /\ \A i : i \in Saying(a, m, p, keys) <=>
                 \/ i \in Saying(ls, m, p, keys)
                 \/ /\ i = n + 1 /\ l.key \in keys /\ l.pt = p
                    /\ Within(ls, n, m) /\ ListedBy(ls, n, m, p)
<1>1. /\ n \in Nat /\ Len(ls) = n /\ Len(a) = n + 1 /\ a[n + 1] = l
      /\ \A j \in 1 .. n : a[j] = ls[j]
  BY Added
<1>2. ASSUME NEW i \in 1 .. n
      PROVE  (Within(a, i, m) <=> Within(ls, i, m))
             /\ (ListedBy(a, i, m, p) <=> ListedBy(ls, i, m, p))
  <2>1. i \in Nat /\ \A j \in 1 .. i : a[j] = ls[j] BY <1>1
  <2> QED BY <2>1, SameLines
<1>3. ASSUME l.key \in keys
      PROVE  (Within(a, n + 1, m) <=> Within(ls, n, m))
             /\ (ListedBy(a, n + 1, m, p) <=> ListedBy(ls, n, m, p))
  <2>1. l.key \notin SectionKeys /\ l.key # "m" BY <1>3 DEF AttributeKeys, SectionKeys
  <2> QED BY <2>1, WithinAdded, ListedAdded
<1>4. 1 .. n + 1 = (1 .. n) \cup {n + 1} /\ n + 1 \notin 1 .. n BY <1>1
<1>5. ASSUME NEW i \in 1 .. n
      PROVE  i \in Saying(a, m, p, keys) <=> i \in Saying(ls, m, p, keys)
  <2>1. a[i] = ls[i] /\ i \in 1 .. Len(a) /\ i \in 1 .. Len(ls) BY <1>1, <1>4
  <2> QED BY <1>2, <2>1 DEF Saying
<1>6. n + 1 \in Saying(a, m, p, keys) <=>
         l.key \in keys /\ l.pt = p /\ Within(ls, n, m) /\ ListedBy(ls, n, m, p)
  BY <1>1, <1>3, <1>4 DEF Saying
<1>7. Saying(ls, m, p, keys) \subseteq 1 .. n BY <1>1 DEF Saying
<1>8. Saying(a, m, p, keys) \subseteq (1 .. n) \cup {n + 1} BY <1>1, <1>4 DEF Saying
<1> QED BY <1>4, <1>5, <1>6, <1>7, <1>8

\* The last of those lines is the one that is added, if it says something, or
\* the same as before.
LEMMA LastAdded ==
    ASSUME NEW ls, NEW l, NEW n, NEW a, Longer(ls, l, n, a), NEW m, NEW p, NEW keys \in SUBSET AttributeKeys,
           NEW S, S = Saying(ls, m, p, keys), NEW U, U = Saying(a, m, p, keys)
    PROVE  /\ l.key \in keys /\ l.pt = p /\ Within(ls, n, m) /\ ListedBy(ls, n, m, p) =>
                 U # {} /\ a[Last(U)] = l
           /\ ~(l.key \in keys /\ l.pt = p /\ Within(ls, n, m) /\ ListedBy(ls, n, m, p)) =>
                 (U = {} <=> S = {}) /\ (S # {} => a[Last(U)] = ls[Last(S)])
           /\ S # {} => U # {}
<1> DEFINE said == l.key \in keys /\ l.pt = p /\ Within(ls, n, m) /\ ListedBy(ls, n, m, p)
<1>1. /\ n \in Nat /\ Len(ls) = n /\ Len(a) = n + 1 /\ a[n + 1] = l
      /\ \A j \in 1 .. n : a[j] = ls[j]
  BY Added
<1>2. S \subseteq 1 .. n /\ \A i : i \in U <=> i \in S \/ (i = n + 1 /\ said)
  BY SayingAdded
<1>3. CASE said
  <2>1. U = S \cup {n + 1} BY <1>2, <1>3
  <2>2. Last(U) = n + 1 BY <1>1, <1>2, <2>1, LastNew
  <2> QED BY <1>1, <1>3, <2>1, <2>2
<1>4. CASE ~said
  <2>1. U = S BY <1>2, <1>4
  <2>2. S # {} => Last(S) \in 1 .. n BY <1>1, <1>2, LastIn
  <2> QED BY <1>1, <1>4, <2>1, <2>2
<1> QED BY <1>3, <1>4

\* What line l makes of the description d of payload type p of media m; c: lines
\* on p count where l stands.
Updated(d, l, m, p, c) ==
    LET said(key) == c /\ l.key = key /\ l.pt = p
        video(key) == m = "video" /\ said(key)
    IN  [listed |-> d.listed \/ (l.key = "m" /\ l.media = m /\ p \in l.fmts),
         codec  |-> IF said("rtpmap") THEN l.codec ELSE d.codec,
         rate   |-> IF said("rtpmap") THEN l.rate ELSE d.rate,
         mode   |-> IF video("fmtpH264") THEN l.mode ELSE d.mode,
         sps    |-> d.sps \/ video("fmtpH264") \/ video("fmtpH265"),
         vps    |-> d.vps \/ video("fmtpH265")]

LEMMA DescribedAdded ==
    ASSUME NEW ls, NEW l, NEW n, NEW a, Longer(ls, l, n, a), NEW m, NEW p, NEW c \in BOOLEAN,
           c <=> Within(ls, n, m) /\ ListedBy(ls, n, m, p)
    PROVE  Described(a, m, p) = Updated(Described(ls, m, p), l, m, p, c)
<1> DEFINE R == Saying(ls, m, p, {"rtpmap"})
           H == Saying(ls, m, p, {"fmtpH264"})
           K == Saying(ls, m, p, {"fmtpH265"})
           Ra == Saying(a, m, p, {"rtpmap"})
           Ha == Saying(a, m, p, {"fmtpH264"})
           Ka == Saying(a, m, p, {"fmtpH265"})
<1>1. n \in Nat /\ Len(a) = n + 1 /\ Len(ls) = n BY Added
<1>3. /\ l.key = "rtpmap" /\ l.pt = p /\ Within(ls, n, m) /\ ListedBy(ls, n, m, p) =>
            Ra # {} /\ a[Last(Ra)] = l
      /\ ~(l.key = "rtpmap" /\ l.pt = p /\ Within(ls, n, m) /\ ListedBy(ls, n, m, p)) =>
            (Ra = {} <=> R = {}) /\ (R # {} => a[Last(Ra)] = ls[Last(R)])
      /\ R # {} => Ra # {}
  <2>1. PICK keys : keys = {"rtpmap"} OBVIOUS
  <2>2. keys \in SUBSET AttributeKeys /\ (l.key \in keys <=> l.key = "rtpmap")
    BY <2>1 DEF AttributeKeys
  <2>3. R = Saying(ls, m, p, keys) /\ Ra = Saying(a, m, p, keys) BY <2>1
  <2> HIDE DEF R, Ra
  <2> QED BY <2>2, <2>3, LastAdded
<1>4. /\ l.key = "fmtpH264" /\ l.pt = p /\ Within(ls, n, m) /\ ListedBy(ls, n, m, p) =>
            Ha # {} /\ a[Last(Ha)] = l
      /\ ~(l.key = "fmtpH264" /\ l.pt = p /\ Within(ls, n, m) /\ ListedBy(ls, n, m, p)) =>
            (Ha = {} <=> H = {}) /\ (H # {} => a[Last(Ha)] = ls[Last(H)])
      /\ H # {} => Ha # {}
  <2>1. PICK keys : keys = {"fmtpH264"} OBVIOUS
  <2>2. keys \in SUBSET AttributeKeys /\ (l.key \in keys <=> l.key = "fmtpH264")
    BY <2>1 DEF AttributeKeys
  <2>3. H = Saying(ls, m, p, keys) /\ Ha = Saying(a, m, p, keys) BY <2>1
  <2> HIDE DEF H, Ha
  <2> QED BY <2>2, <2>3, LastAdded
<1>5. /\ l.key = "fmtpH265" /\ l.pt = p /\ Within(ls, n, m) /\ ListedBy(ls, n, m, p) =>
            Ka # {} /\ a[Last(Ka)] = l
      /\ ~(l.key = "fmtpH265" /\ l.pt = p /\ Within(ls, n, m) /\ ListedBy(ls, n, m, p)) =>
            (Ka = {} <=> K = {}) /\ (K # {} => a[Last(Ka)] = ls[Last(K)])
      /\ K # {} => Ka # {}
  <2>1. PICK keys : keys = {"fmtpH265"} OBVIOUS
  <2>2. keys \in SUBSET AttributeKeys /\ (l.key \in keys <=> l.key = "fmtpH265")
    BY <2>1 DEF AttributeKeys
  <2>3. K = Saying(ls, m, p, keys) /\ Ka = Saying(a, m, p, keys) BY <2>1
  <2> HIDE DEF K, Ka
  <2> QED BY <2>2, <2>3, LastAdded
<1> DEFINE d == Described(ls, m, p)
           da == Described(a, m, p)
<1>9. d = [listed |-> ListedBy(ls, Len(ls), m, p),
           codec  |-> IF R = {} THEN "" ELSE ls[Last(R)].codec,
           rate   |-> IF R = {} THEN 0 ELSE ls[Last(R)].rate,
           mode   |-> IF m = "video" /\ H # {} THEN ls[Last(H)].mode ELSE 0,
           sps    |-> m = "video" /\ (H # {} \/ K # {}),
           vps    |-> m = "video" /\ K # {}]
  BY DEF Described
<1>10. da = [listed |-> ListedBy(a, Len(a), m, p),
             codec  |-> IF Ra = {} THEN "" ELSE a[Last(Ra)].codec,
             rate   |-> IF Ra = {} THEN 0 ELSE a[Last(Ra)].rate,
             mode   |-> IF m = "video" /\ Ha # {} THEN a[Last(Ha)].mode ELSE 0,
             sps    |-> m = "video" /\ (Ha # {} \/ Ka # {}),
             vps    |-> m = "video" /\ Ka # {}]
  BY DEF Described
<1> HIDE DEF R, H, K, Ra, Ha, Ka, d, da
<1> DEFINE r == c /\ l.key = "rtpmap" /\ l.pt = p
           h == c /\ l.key = "fmtpH264" /\ l.pt = p
           k == c /\ l.key = "fmtpH265" /\ l.pt = p
<1>11. /\ r => Ra # {} /\ a[Last(Ra)] = l
       /\ ~r => (Ra = {} <=> R = {}) /\ (R # {} => a[Last(Ra)] = ls[Last(R)])
  BY <1>3
<1>12. /\ h => Ha # {} /\ a[Last(Ha)] = l
       /\ ~h => (Ha = {} <=> H = {}) /\ (H # {} => a[Last(Ha)] = ls[Last(H)])
  BY <1>4
<1>13. (k => Ka # {}) /\ (~k => (Ka = {} <=> K = {})) /\ (K # {} => Ka # {})
  BY <1>5
<1>14. ListedBy(a, Len(a), m, p) <=> \/ ListedBy(ls, Len(ls), m, p)
                                     \/ (l.key = "m" /\ l.media = m /\ p \in l.fmts)
  <2>1. ListedBy(a, n + 1, m, p) <=> \/ ListedBy(ls, n, m, p)
                                     \/ (l.key = "m" /\ l.media = m /\ p \in l.fmts)
    BY ListedAdded
  <2> QED BY <1>1, <2>1
<1>15. Updated(d, l, m, p, c) =
          [listed |-> d.listed \/ (l.key = "m" /\ l.media = m /\ p \in l.fmts),
           codec  |-> IF r THEN l.codec ELSE d.codec,
           rate   |-> IF r THEN l.rate ELSE d.rate,
           mode   |-> IF m = "video" /\ h THEN l.mode ELSE d.mode,
           sps    |-> d.sps \/ (m = "video" /\ h) \/ (m = "video" /\ k),
           vps    |-> d.vps \/ (m = "video" /\ k)]
  BY DEF Updated
<1>16. da.listed = (d.listed \/ (l.key = "m" /\ l.media = m /\ p \in l.fmts))
  BY <1>9, <1>10, <1>14 DEF ListedBy
<1>17. /\ da.codec = IF r THEN l.codec ELSE d.codec
       /\ da.rate = IF r THEN l.rate ELSE d.rate
  BY <1>9, <1>10, <1>11
<1>18. da.mode = IF m = "video" /\ h THEN l.mode ELSE d.mode
  BY <1>9, <1>10, <1>12
<1>19. /\ da.sps = (d.sps \/ (m = "video" /\ h) \/ (m = "video" /\ k))
       /\ da.vps = (d.vps \/ (m = "video" /\ k))
  BY <1>9, <1>10, <1>12, <1>13
<1>20. da = [listed |-> da.listed, codec |-> da.codec, rate |-> da.rate, mode |-> da.mode,
             sps |-> da.sps, vps |-> da.vps]
  BY <1>10
<1>21. da = Updated(d, l, m, p, c)
  BY <1>15, <1>16, <1>17, <1>18, <1>19, <1>20
<1> QED BY <1>21 DEF d, da

\* The control URI of a media is that of the last control line of its sections.
LEMMA ControlAdded ==
    ASSUME NEW ls, NEW l, NEW n, NEW a, Longer(ls, l, n, a), NEW m
    PROVE  ControlOf(a, m) = IF l.key = "control" /\ Within(ls, n, m)
                             THEN l.uri ELSE ControlOf(ls, m)
<1> DEFINE S == {i \in 1 .. Len(ls) : ls[i].key = "control" /\ Within(ls, i, m)}
           U == {i \in 1 .. Len(a) : a[i].key = "control" /\ Within(a, i, m)}
           said == l.key = "control" /\ Within(ls, n, m)
<1>1. /\ n \in Nat /\ Len(ls) = n /\ Len(a) = n + 1 /\ a[n + 1] = l
      /\ \A j \in 1 .. n : a[j] = ls[j]
  BY Added
<1>2. ASSUME NEW i \in 1 .. n PROVE Within(a, i, m) <=> Within(ls, i, m)
  <2>1. i \in Nat /\ \A j \in 1 .. i : a[j] = ls[j] BY <1>1
  <2> QED BY <2>1, SameLines
<1>3. l.key = "control" => (Within(a, n + 1, m) <=> Within(ls, n, m))
  BY WithinAdded DEF SectionKeys
<1>4. 1 .. n + 1 = (1 .. n) \cup {n + 1} /\ n + 1 \notin 1 .. n BY <1>1
<1>5. S \subseteq 1 .. n BY <1>1
<1>6. said => U = S \cup {n + 1} BY <1>1, <1>2, <1>3, <1>4
<1>7. ~said => U = S BY <1>1, <1>2, <1>3, <1>4
<1>8. ControlOf(ls, m) = IF S = {} THEN "" ELSE ls[Last(S)].uri BY DEF ControlOf
<1>9. ControlOf(a, m) = IF U = {} THEN "" ELSE a[Last(U)].uri BY DEF ControlOf
<1> HIDE DEF S, U
<1>10. CASE said
  <2>1. Last(U) = n + 1 BY <1>1, <1>5, <1>6, <1>10, LastNew
  <2> QED BY <1>1, <1>6, <1>9, <1>10, <2>1
<1>11. CASE ~said
  <2>1. S # {} => Last(S) \in 1 .. n BY <1>1, <1>5, LastIn
  <2> QED BY <1>1, <1>7, <1>8, <1>9, <1>11, <2>1
<1> QED BY <1>10, <1>11

-----------------------------------------------------------------------------
(* The parser *)

Codec == {"", "H264", "H265", "PCMU", "MPA"}
URI == {"", "rtsp://", "track"}
Attr == [listed : BOOLEAN, codec : Codec, rate : Nat, mode : 0 .. 2,
         sps : BOOLEAN, vps : BOOLEAN]
Info == [known : BOOLEAN, fmtMap : [Payloads -> Attr], controlURI : URI]
Session == [PayloadType : Payloads \cup {-1}, EncodeType : Codec, TimeRate : Nat,
            Packetization : 0 .. 2, XPS : BOOLEAN,
            ControlURI : [prefixed : BOOLEAN, uri : URI]]

\* currentMediaInfo points to an entry wherever the parser uses it.
Types ==
    /\ pc \in {"idle", "parse"} /\ section \in {"session", "media", "time"}
    /\ mediaInfoMap \in [MediaTypes -> Info]
    /\ current \in MediaTypes \cup {"NULL"}
    /\ section = "media" => current \in MediaTypes
    /\ live \subseteq MediaTypes /\ session \in [MediaTypes -> Session]
    /\ lines \in Seq(Entry) /\ origin \in [MediaTypes -> Nat]
    /\ \A m \in MediaTypes : origin[m] <= Len(lines)

\* The fields of a line, by its key.
LEMMA LineFields ==
    ASSUME NEW l \in Lines
    PROVE  /\ l \in Entry
           /\ l.key = "m" => l.media \in MediaTypes /\ l.fmts \subseteq Payloads
           /\ l.key \in AttributeKeys => l.pt \in Payloads
           /\ l.key = "rtpmap" => l.codec \in Codec /\ l.rate \in Nat
           /\ l.key = "fmtpH264" => l.mode \in 0 .. 2
           /\ l.key = "control" => l.uri \in URI
<1>1. l \in Line BY LinesAssumption
<1> QED BY <1>1 DEF Line, Entry, AttributeKeys, Codec, URI

LEMMA UpdatedType ==
    ASSUME NEW l \in Lines, NEW d \in Attr, NEW m, NEW p, NEW c \in BOOLEAN
    PROVE  Updated(d, l, m, p, c) \in Attr
BY LineFields DEF Updated, Attr, AttributeKeys

\* The entry e of media m becomes f when the parser reads line l, in a section of
\* m if s.
Entered(e, f, l, m, s) ==
    /\ f \in Info
    /\ f.known = (e.known \/ (l.key = "m" /\ l.media = m))
    /\ f.controlURI = IF l.key = "control" /\ s THEN l.uri ELSE e.controlURI
    /\ \A p \in Payloads :
          f.fmtMap[p] = Updated(e.fmtMap[p], l, m, p, s /\ e.fmtMap[p].listed)

LEMMA EntryAttributes ==
    ASSUME Types, NEW l \in Lines, l.key \in AttributeKeys, NEW attrs,
           Counts(l.pt) => attrs = Updated(Attrs(l), l, current, l.pt, TRUE),
           Attributes(l, attrs), NEW m \in MediaTypes
    PROVE  /\ mediaInfoMap' \in [MediaTypes -> Info]
           /\ Entered(mediaInfoMap[m], mediaInfoMap'[m], l, m, section = "media" /\ current = m)
<1> DEFINE s == section = "media" /\ current = m
           e == mediaInfoMap[m]
<1>1. l.pt \in Payloads /\ l.key # "m" /\ l.key # "control"
  BY LineFields DEF AttributeKeys
<1>2. /\ mediaInfoMap \in [MediaTypes -> Info] /\ e \in Info
      /\ \A p \in Payloads : e.fmtMap[p] \in Attr
  BY DEF Types, Info
<1>3. CASE ~Counts(l.pt)
  <2>1. mediaInfoMap' = mediaInfoMap BY <1>3 DEF Attributes
  <2>2. ASSUME NEW p \in Payloads
        PROVE  e.fmtMap[p] = Updated(e.fmtMap[p], l, m, p, s /\ e.fmtMap[p].listed)
    <3>1. ~(s /\ e.fmtMap[p].listed /\ l.pt = p) BY <1>3 DEF Counts
    <3>2. e.fmtMap[p].listed \in BOOLEAN BY <1>2 DEF Attr
    <3> QED BY <1>1, <1>2, <3>1, <3>2 DEF Updated, Attr, AttributeKeys
  <2> QED BY <1>1, <1>2, <2>1, <2>2 DEF Entered, Info
<1>4. CASE Counts(l.pt)
  <2>1. /\ section = "media" /\ current \in MediaTypes
        /\ mediaInfoMap' = [mediaInfoMap EXCEPT ![current].fmtMap[l.pt] = attrs]
        /\ mediaInfoMap[current].fmtMap[l.pt].listed
    BY <1>4 DEF Attributes, Counts, Types
  <2>2. /\ mediaInfoMap[current] \in Info
        /\ mediaInfoMap[current].fmtMap \in [Payloads -> Attr]
        /\ mediaInfoMap[current].fmtMap[l.pt] \in Attr
    BY <1>1, <1>2, <2>1 DEF Info
  <2>3. attrs = Updated(mediaInfoMap[current].fmtMap[l.pt], l, current, l.pt, TRUE)
    BY <1>4, <2>1 DEF Attrs
  <2>4. attrs \in Attr BY <2>2, <2>3, UpdatedType
  <2>5. CASE m # current
    <3>1. mediaInfoMap'[m] = e BY <1>2, <2>1, <2>5
    <3>2. ASSUME NEW p \in Payloads
          PROVE  e.fmtMap[p] = Updated(e.fmtMap[p], l, m, p, s /\ e.fmtMap[p].listed)
      <4>1. e.fmtMap[p].listed \in BOOLEAN BY <1>2 DEF Attr
      <4> QED BY <1>1, <1>2, <2>5, <4>1 DEF Updated, Attr, AttributeKeys
    <3>3. mediaInfoMap' \in [MediaTypes -> Info]
      BY <1>1, <1>2, <2>1, <2>2, <2>4 DEF Info
    <3> QED BY <1>1, <1>2, <2>5, <3>1, <3>2, <3>3 DEF Entered, Info
  <2>6. CASE m = current
    <3>1. mediaInfoMap'[m] = [e EXCEPT !.fmtMap[l.pt] = attrs]
      BY <1>2, <2>1, <2>6
    <3>2. /\ mediaInfoMap'[m].known = e.known /\ mediaInfoMap'[m].controlURI = e.controlURI
          /\ mediaInfoMap'[m].fmtMap = [e.fmtMap EXCEPT ![l.pt] = attrs]
          /\ mediaInfoMap'[m] \in Info
      BY <1>1, <1>2, <2>2, <2>4, <2>6, <3>1 DEF Info
    <3>3. ASSUME NEW p \in Payloads
          PROVE  mediaInfoMap'[m].fmtMap[p]
                    = Updated(e.fmtMap[p], l, m, p, s /\ e.fmtMap[p].listed)
      <4>1. e.fmtMap[p].listed \in BOOLEAN BY <1>2 DEF Attr
      <4>2. CASE p = l.pt
        <5>1. (s /\ e.fmtMap[p].listed) = TRUE BY <2>1, <2>6, <4>2
        <5>2. mediaInfoMap'[m].fmtMap[p] = attrs BY <1>1, <2>2, <2>6, <3>2, <4>2
        <5> QED BY <2>3, <2>6, <4>2, <5>1, <5>2
      <4>3. CASE p # l.pt
        <5>1. mediaInfoMap'[m].fmtMap[p] = e.fmtMap[p] BY <2>2, <2>6, <3>2, <4>3
        <5> QED BY <1>1, <1>2, <4>1, <4>3, <5>1 DEF Updated, Attr, AttributeKeys
      <4> QED BY <4>2, <4>3
    <3>4. mediaInfoMap' \in [MediaTypes -> Info]
      BY <1>1, <1>2, <2>1, <2>2, <2>4 DEF Info
    <3> QED BY <1>1, <1>2, <2>5, <3>2, <3>3, <3>4 DEF Entered, Info
  <2> QED BY <2>5, <2>6
<1> QED BY <1>3, <1>4

LEMMA EntryMediaLine ==
    ASSUME Types, NEW l \in Lines, MediaLine(l), NEW m \in MediaTypes
    PROVE  /\ mediaInfoMap' \in [MediaTypes -> Info]
           /\ Entered(mediaInfoMap[m], mediaInfoMap'[m], l, m, section = "media" /\ current = m)
<1> DEFINE e == mediaInfoMap[m]
           g == [p \in Payloads |->
                   IF p \in l.fmts
                   THEN [mediaInfoMap[l.media].fmtMap[p] EXCEPT !.listed = TRUE]
                   ELSE mediaInfoMap[l.media].fmtMap[p]]
<1>1. l.key = "m" /\ l.media \in MediaTypes
  BY LineFields DEF MediaLine
<1>2. /\ mediaInfoMap \in [MediaTypes -> Info] /\ e \in Info /\ mediaInfoMap[l.media] \in Info
      /\ \A p \in Payloads : e.fmtMap[p] \in Attr
      /\ \A p \in Payloads : mediaInfoMap[l.media].fmtMap[p] \in Attr
  BY <1>1 DEF Types, Info
<1>3. mediaInfoMap' = [mediaInfoMap EXCEPT
                         ![l.media] = [@ EXCEPT !.known = TRUE, !.fmtMap = g]]
  BY <1>1, <1>2 DEF MediaLine, Info
<1>4. g \in [Payloads -> Attr] BY <1>2 DEF Attr
<1>5. mediaInfoMap' \in [MediaTypes -> Info]
  <2>1. [mediaInfoMap[l.media] EXCEPT !.known = TRUE, !.fmtMap = g] \in Info
    BY <1>2, <1>4 DEF Info
  <2> HIDE DEF g
  <2> QED BY <1>1, <1>2, <1>3, <2>1
<1>6. CASE m # l.media
  <2>1. mediaInfoMap'[m] = e BY <1>2, <1>3, <1>6
  <2>2. ASSUME NEW p \in Payloads, NEW c
        PROVE  e.fmtMap[p] = Updated(e.fmtMap[p], l, m, p, c)
    BY <1>1, <1>2, <1>6 DEF Updated, Attr
  <2> HIDE DEF g
  <2>3. e.known \in BOOLEAN /\ l.key # "control" BY <1>1, <1>2 DEF Info
  <2>4. Entered(e, e, l, m, section = "media" /\ current = m)
    BY <1>1, <1>2, <1>6, <2>2, <2>3 DEF Entered
  <2> QED BY <1>5, <2>1, <2>4
<1>7. CASE m = l.media
  <2>1. mediaInfoMap'[m] = [e EXCEPT !.known = TRUE, !.fmtMap = g]
    BY <1>1, <1>2, <1>3, <1>7
  <2>2. /\ mediaInfoMap'[m].known = TRUE /\ mediaInfoMap'[m].controlURI = e.controlURI
        /\ mediaInfoMap'[m].fmtMap = g
    BY <1>2, <2>1 DEF Info
  <2>3. ASSUME NEW p \in Payloads, NEW c PROVE g[p] = Updated(e.fmtMap[p], l, m, p, c)
    BY <1>1, <1>2, <1>7 DEF Updated, Attr
  <2> HIDE DEF g
  <2> QED BY <1>1, <1>2, <1>5, <1>7, <2>2, <2>3 DEF Entered, Info
<1> QED BY <1>6, <1>7

LEMMA EntryOther ==
    ASSUME Types, NEW l, NEW m \in MediaTypes,
           \/ l.key \in {"s", "t", "other", "new"} /\ mediaInfoMap' = mediaInfoMap
           \/ l \in Lines /\ Control(l)
    PROVE  /\ mediaInfoMap' \in [MediaTypes -> Info]
           /\ Entered(mediaInfoMap[m], mediaInfoMap'[m], l, m, section = "media" /\ current = m)
<1> DEFINE e == mediaInfoMap[m]
<1>1. /\ mediaInfoMap \in [MediaTypes -> Info] /\ e \in Info
      /\ \A p \in Payloads : e.fmtMap[p] \in Attr
  BY DEF Types, Info
<1>2. ASSUME NEW p \in Payloads, NEW c PROVE e.fmtMap[p] = Updated(e.fmtMap[p], l, m, p, c)
  BY <1>1 DEF Updated, Attr, Control
<1>3. CASE l.key \in {"s", "t", "other", "new"} /\ mediaInfoMap' = mediaInfoMap
  BY <1>1, <1>2, <1>3 DEF Entered, Info
<1>4. CASE l \in Lines /\ Control(l)
  <2>1. l.key = "control" /\ l.uri \in URI BY <1>4, LineFields DEF Control
  <2>2. CASE section = "media"
    <3>1. /\ current \in MediaTypes
          /\ mediaInfoMap' = [mediaInfoMap EXCEPT ![current].controlURI = l.uri]
      BY <1>4, <2>2 DEF Control, Types
    <3>2. mediaInfoMap' \in [MediaTypes -> Info] BY <1>1, <2>1, <3>1 DEF Info
    <3>3. mediaInfoMap'[m] = IF m = current THEN [e EXCEPT !.controlURI = l.uri] ELSE e
      BY <1>1, <3>1
    <3>4. /\ mediaInfoMap'[m].known = e.known /\ mediaInfoMap'[m].fmtMap = e.fmtMap
          /\ mediaInfoMap'[m].controlURI = IF m = current THEN l.uri ELSE e.controlURI
      BY <1>1, <3>3 DEF Info
    <3> QED BY <1>1, <1>2, <2>1, <2>2, <3>2, <3>4, ZenonT(60) DEF Entered, Info
  <2>3. CASE section # "media"
    <3>1. mediaInfoMap' = mediaInfoMap BY <1>4, <2>3 DEF Control
    <3> QED BY <1>1, <1>2, <2>1, <2>3, <3>1 DEF Entered, Info
  <2> QED BY <2>2, <2>3
<1> QED BY <1>3, <1>4

\* The section flags and currentMediaInfo say where the last line stands, and the
\* entries what the lines say.
Placed(m) == section = "media" /\ current = m <=> Within(lines, Len(lines), m)
Written(m) ==
    /\ \A p \in Payloads : mediaInfoMap[m].fmtMap[p] = Described(lines, m, p)
    /\ mediaInfoMap[m].controlURI = ControlOf(lines, m)
Known ==
    /\ section = "media" => mediaInfoMap[current].known
    /\ \A m \in live : mediaInfoMap[m].known
    /\ \A m \in MediaTypes, p \in Payloads :
          mediaInfoMap[m].fmtMap[p].listed => mediaInfoMap[m].known
ParserInv == Types /\ Known /\ \A m \in MediaTypes : Placed(m) /\ Written(m)

\* How the parser goes on at line l.
Moved(l) ==
    /\ l.key = "m" => section' = "media" /\ current' = l.media
    /\ l.key \in {"s", "t", "new"} => section' # "media"
    /\ l.key \notin SectionKeys => UNCHANGED <<section, current>>

LEMMA LineStep ==
    ASSUME ParserInv, NEW l, Longer(lines, l, Len(lines), lines'), Moved(l),
           NEW m \in MediaTypes,
           Entered(mediaInfoMap[m], mediaInfoMap'[m], l, m, section = "media" /\ current = m)
    PROVE  Placed(m)' /\ Written(m)'
<1>1. Len(lines) \in Nat /\ Len(lines') = Len(lines) + 1 BY Added
<1>2. /\ l.key = "m" => (Within(lines', Len(lines) + 1, m) <=> l.media = m)
      /\ l.key \in {"s", "t", "new"} => ~Within(lines', Len(lines) + 1, m)
      /\ l.key \notin SectionKeys =>
            (Within(lines', Len(lines) + 1, m) <=> Within(lines, Len(lines), m))
  BY WithinAdded
<1>3. section' = "media" /\ current' = m <=> Within(lines', Len(lines) + 1, m)
  <2>1. CASE l.key = "m" BY <1>2, <2>1 DEF Moved
  <2>2. CASE l.key \in {"s", "t", "new"} BY <1>2, <2>2 DEF Moved
  <2>3. CASE l.key \notin SectionKeys BY <1>2, <2>3 DEF Moved, ParserInv, Placed
  <2> QED BY <2>1, <2>2, <2>3 DEF SectionKeys
<1>4. Placed(m)' BY <1>1, <1>3 DEF Placed
<1>5. ASSUME NEW p \in Payloads
      PROVE  mediaInfoMap'[m].fmtMap[p] = Described(lines', m, p)
  <2>1. PICK c \in BOOLEAN :
           c <=> Within(lines, Len(lines), m) /\ ListedBy(lines, Len(lines), m, p)
    OBVIOUS
  <2>2. Described(lines', m, p) = Updated(Described(lines, m, p), l, m, p, c)
    BY <2>1, DescribedAdded
  <2>3. mediaInfoMap[m].fmtMap[p] = Described(lines, m, p) BY DEF ParserInv, Written
  <2>4. mediaInfoMap[m].fmtMap[p].listed <=> ListedBy(lines, Len(lines), m, p)
    <3>1. Described(lines, m, p).listed = ListedBy(lines, Len(lines), m, p)
      BY DEF Described
    <3> QED BY <2>3, <3>1
  <2>5. mediaInfoMap[m].fmtMap[p].listed \in BOOLEAN
    BY DEF ParserInv, Types, Info, Attr
  <2>6. (section = "media" /\ current = m /\ mediaInfoMap[m].fmtMap[p].listed) = c
    BY <2>1, <2>4, <2>5 DEF ParserInv, Placed
  <2>7. mediaInfoMap'[m].fmtMap[p]
           = Updated(mediaInfoMap[m].fmtMap[p], l, m, p,
                     section = "media" /\ current = m /\ mediaInfoMap[m].fmtMap[p].listed)
    BY DEF Entered
  <2> QED BY <2>2, <2>3, <2>6, <2>7
<1>6. mediaInfoMap'[m].controlURI = ControlOf(lines', m)
  <2>1. ControlOf(lines', m) = IF l.key = "control" /\ Within(lines, Len(lines), m)
                               THEN l.uri ELSE ControlOf(lines, m)
    BY ControlAdded
  <2>2. mediaInfoMap[m].controlURI = ControlOf(lines, m) BY DEF ParserInv, Written
  <2>3. section = "media" /\ current = m <=> Within(lines, Len(lines), m)
    BY DEF ParserInv, Placed
  <2> QED BY <2>1, <2>2, <2>3 DEF Entered
<1> QED BY <1>4, <1>5, <1>6 DEF Written

\* Every line the parser reads: what it enters and where it goes on.
LEMMA LineEffect ==
    ASSUME ParserInv, NEW l \in Lines, ParseLine(l)
    PROVE  /\ Longer(lines, l, Len(lines), lines') /\ Moved(l)
           /\ UNCHANGED <<pc, live, session, origin>>
           /\ mediaInfoMap' \in [MediaTypes -> Info]
           /\ \A m \in MediaTypes :
                 Entered(mediaInfoMap[m], mediaInfoMap'[m], l, m,
                         section = "media" /\ current = m)
<1>1. l \in Entry /\ lines \in Seq(Entry) /\ Types BY LineFields DEF ParserInv, Types
<1>2. Take(l)
  BY DEF ParseLine, SectionLine, MediaLine, Rtpmap, FmtpH264, FmtpH265, Attributes, Control,
         Other
<1>3. Longer(lines, l, Len(lines), lines') /\ UNCHANGED <<pc, live, session, origin>>
  BY <1>1, <1>2 DEF Take, Read, Longer
<1>4. Moved(l)
  BY DEF Moved, SectionKeys, ParseLine, SectionLine, MediaLine, Rtpmap, FmtpH264, FmtpH265,
         Attributes, Control, Other
<1>5. ASSUME NEW m \in MediaTypes
      PROVE  /\ mediaInfoMap' \in [MediaTypes -> Info]
             /\ Entered(mediaInfoMap[m], mediaInfoMap'[m], l, m,
                        section = "media" /\ current = m)
  <2>1. CASE SectionLine(l) \/ Other(l) \/ Control(l)
    <3>1. \/ l.key \in {"s", "t", "other", "new"} /\ mediaInfoMap' = mediaInfoMap
          \/ Control(l)
      BY <2>1 DEF SectionLine, Other
    <3> QED BY <1>1, <3>1, EntryOther
  <2>2. CASE MediaLine(l) BY <1>1, <2>2, EntryMediaLine
  <2>3. Counts(l.pt) => /\ current \in MediaTypes
                        /\ Attrs(l) = mediaInfoMap[current].fmtMap[l.pt]
                        /\ l.key \in AttributeKeys => Attrs(l) \in Attr
    BY <1>1, LineFields DEF Counts, Attrs, Types, Info
  <2>4. Counts(l.pt) /\ l.key \in AttributeKeys => Attrs(l).listed
    BY <2>3 DEF Counts
  <2>5. CASE Rtpmap(l)
    <3> DEFINE attrs == [Attrs(l) EXCEPT !.codec = l.codec, !.rate = l.rate]
    <3>1. l.key = "rtpmap" /\ Attributes(l, attrs) /\ l.key \in AttributeKeys
      BY <2>5 DEF Rtpmap, AttributeKeys
    <3>2. ASSUME Counts(l.pt) PROVE attrs = Updated(Attrs(l), l, current, l.pt, TRUE)
      <4>1. PICK d \in Attr : d = Attrs(l) BY <2>3, <3>1, <3>2
      <4>2. attrs = [listed |-> d.listed, codec |-> l.codec, rate |-> l.rate, mode |-> d.mode,
                     sps |-> d.sps, vps |-> d.vps]
        <5>1. d = [listed |-> d.listed, codec |-> d.codec, rate |-> d.rate, mode |-> d.mode,
                   sps |-> d.sps, vps |-> d.vps]
          BY <4>1 DEF Attr
        <5>2. PICK g : g = [d EXCEPT !.codec = l.codec] OBVIOUS
        <5>3. g = [listed |-> d.listed, codec |-> l.codec, rate |-> d.rate,
                   mode |-> d.mode, sps |-> d.sps, vps |-> d.vps]
          BY <5>1, <5>2
        <5>4. g = [listed |-> g.listed, codec |-> g.codec, rate |-> g.rate,
                   mode |-> g.mode, sps |-> g.sps, vps |-> g.vps]
          BY <5>3
        <5>5. /\ g.listed = d.listed /\ g.codec = l.codec /\ g.mode = d.mode
              /\ g.sps = d.sps /\ g.vps = d.vps
          BY <5>3
        <5>6. attrs = [g EXCEPT !.rate = l.rate] BY <4>1, <5>2
        <5> HIDE DEF attrs
        <5>7. attrs = [listed |-> g.listed, codec |-> g.codec, rate |-> l.rate,
                       mode |-> g.mode, sps |-> g.sps, vps |-> g.vps]
          BY <5>4, <5>6
        <5> QED BY <5>5, <5>7
      <4> HIDE DEF attrs
      <4>3. Updated(d, l, current, l.pt, TRUE)
              = [listed |-> d.listed, codec |-> l.codec, rate |-> l.rate, mode |-> d.mode,
                 sps |-> d.sps, vps |-> d.vps]
        BY <3>1 DEF Updated, Attr
      <4> QED BY <4>1, <4>2, <4>3
    <3> HIDE DEF attrs
    <3> QED BY <1>1, <3>1, <3>2, EntryAttributes
  <2>6. CASE FmtpH264(l)
    <3> DEFINE attrs == IF current = "video"
                        THEN [Attrs(l) EXCEPT !.sps = TRUE, !.mode = l.mode] ELSE Attrs(l)
    <3>1. l.key = "fmtpH264" /\ Attributes(l, attrs) /\ l.key \in AttributeKeys
      BY <2>6 DEF FmtpH264, AttributeKeys
    <3>2. Counts(l.pt) => attrs = Updated(Attrs(l), l, current, l.pt, TRUE)
      BY <2>3, <3>1 DEF Updated, Attr
    <3> HIDE DEF attrs
    <3> QED BY <1>1, <3>1, <3>2, EntryAttributes
  <2>7. CASE FmtpH265(l)
    <3> DEFINE attrs == IF current = "video"
                        THEN [Attrs(l) EXCEPT !.sps = TRUE, !.vps = TRUE] ELSE Attrs(l)
    <3>1. l.key = "fmtpH265" /\ Attributes(l, attrs) /\ l.key \in AttributeKeys
      BY <2>7 DEF FmtpH265, AttributeKeys
    <3>2. Counts(l.pt) => attrs = Updated(Attrs(l), l, current, l.pt, TRUE)
      BY <2>3, <3>1 DEF Updated, Attr
    <3> HIDE DEF attrs
    <3> QED BY <1>1, <3>1, <3>2, EntryAttributes
  <2> QED BY <2>1, <2>2, <2>5, <2>6, <2>7 DEF ParseLine
<1>6. mediaInfoMap' \in [MediaTypes -> Info]
  <2>1. CASE \E m \in MediaTypes : TRUE BY <1>5, <2>1
  <2>2. CASE ~\E m \in MediaTypes : TRUE
    <3>1. section # "media" /\ ~MediaLine(l)
      BY <1>1, <2>2, LineFields DEF Types, MediaLine
    <3>2. mediaInfoMap' = mediaInfoMap
      BY <3>1 DEF ParseLine, SectionLine, Rtpmap, FmtpH264, FmtpH265, Attributes, Counts,
                  Control, Other
    <3> QED BY <1>1, <3>2 DEF Types
  <2> QED BY <2>1, <2>2
<1> QED BY <1>3, <1>4, <1>5, <1>6

\* Whatever the parser reads, its state keeps saying what is written.
LEMMA ReadStep ==
    ASSUME ParserInv, NEW l, Longer(lines, l, Len(lines), lines'), Moved(l),
           UNCHANGED <<live, session, origin>>, pc' \in {"idle", "parse"},
           section' \in {"session", "media", "time"}, current' \in MediaTypes \cup {"NULL"},
           l.key = "m" => l.media \in MediaTypes,
           mediaInfoMap' \in [MediaTypes -> Info],
           \A m \in MediaTypes :
              Entered(mediaInfoMap[m], mediaInfoMap'[m], l, m, section = "media" /\ current = m)
    PROVE  ParserInv'
<1>1. Len(lines) \in Nat /\ Len(lines') = Len(lines) + 1 BY Added
<1>2. lines' \in Seq(Entry) BY AppendProperties DEF Longer
<1>3. /\ Types /\ Known
      /\ \A m \in MediaTypes, p \in Payloads : mediaInfoMap[m].fmtMap[p].listed \in BOOLEAN
  BY DEF ParserInv, Types, Info, Attr
<1>4. section' = "media" => \/ l.key = "m" /\ current' = l.media
                            \/ section = "media" /\ current' = current
  BY DEF Moved, SectionKeys
<1>5. Types'
  <2>1. section' = "media" => current' \in MediaTypes BY <1>3, <1>4 DEF Types
  <2>2. ASSUME NEW m \in MediaTypes PROVE origin[m] <= Len(lines')
    <3>1. origin[m] \in Nat /\ origin[m] <= Len(lines) BY <1>3 DEF Types
    <3> QED BY <1>1, <3>1
  <2> QED BY <1>2, <1>3, <2>1, <2>2 DEF Types
<1>6. Known'
  <2>1. ASSUME NEW m \in MediaTypes
        PROVE  /\ mediaInfoMap[m].known => mediaInfoMap'[m].known
               /\ l.key = "m" /\ l.media = m => mediaInfoMap'[m].known
    BY DEF Entered
  <2>2. section' = "media" => mediaInfoMap'[current'].known
    BY <1>3, <1>4, <2>1 DEF Types, Known
  <2>3. \A m \in live' : mediaInfoMap'[m].known BY <1>3, <2>1 DEF Types, Known
  <2>4. ASSUME NEW m \in MediaTypes, NEW p \in Payloads, mediaInfoMap'[m].fmtMap[p].listed
        PROVE  mediaInfoMap'[m].known
    <3>1. mediaInfoMap[m].fmtMap[p].listed \/ (l.key = "m" /\ l.media = m)
      <4>1. PICK c : c = (section = "media" /\ current = m /\ mediaInfoMap[m].fmtMap[p].listed)
        OBVIOUS
      <4>2. mediaInfoMap'[m].fmtMap[p] = Updated(mediaInfoMap[m].fmtMap[p], l, m, p,
                section = "media" /\ current = m /\ mediaInfoMap[m].fmtMap[p].listed)
        BY DEF Entered
      <4>3. PICK d, f : d = mediaInfoMap[m].fmtMap[p] /\ f = mediaInfoMap'[m].fmtMap[p]
        OBVIOUS
      <4>4. f = Updated(d, l, m, p, c) /\ d.listed \in BOOLEAN BY <1>3, <4>1, <4>2, <4>3
      <4>5. f.listed = (d.listed \/ (l.key = "m" /\ l.media = m /\ p \in l.fmts))
        BY <4>4 DEF Updated
      <4> QED BY <2>4, <4>3, <4>4, <4>5
    <3> QED BY <1>3, <2>1, <3>1 DEF Known
  <2> QED BY <2>2, <2>3, <2>4 DEF Known
<1>7. \A m \in MediaTypes : Placed(m)' /\ Written(m)' BY LineStep
<1> QED BY <1>5, <1>6, <1>7 DEF ParserInv

LEMMA NewSessionType == NewSession \in Session
<1>1. PICK u : u = [prefixed |-> FALSE, uri |-> ""] OBVIOUS
<1>2. u \in [prefixed : BOOLEAN, uri : URI] BY <1>1 DEF URI
<1>3. "" \in Codec /\ -1 \in Payloads \cup {-1} /\ 0 \in 0 .. 2 BY DEF Codec
<1>4. NewSession = [PayloadType |-> -1, EncodeType |-> "", TimeRate |-> 0,
                    Packetization |-> 0, XPS |-> FALSE, ControlURI |-> u]
  BY <1>1 DEF NewSession
<1> QED BY <1>2, <1>3, <1>4 DEF Session

LEMMA ParserInit == Init => ParserInv
<1> SUFFICES ASSUME Init PROVE ParserInv OBVIOUS
<1>1. NoAttrs \in Attr BY DEF NoAttrs, Attr, Codec
<1>2. NoInfo \in Info
  <2>1. [p \in Payloads |-> NoAttrs] \in [Payloads -> Attr] BY <1>1
  <2> QED BY <2>1 DEF NoInfo, Info, URI
<1>3. NewSession \in Session BY NewSessionType
<1>4. Types BY <1>2, <1>3 DEF Init, Types
<1>5. \A m \in MediaTypes : /\ ~mediaInfoMap[m].known /\ mediaInfoMap[m].controlURI = ""
                            /\ \A p \in Payloads : mediaInfoMap[m].fmtMap[p] = NoAttrs
  BY DEF Init, NoInfo
<1>6. Known
  <2>1. ~NoAttrs.listed BY DEF NoAttrs
  <2>2. section # "media" /\ live = {} BY DEF Init
  <2> QED BY <1>5, <2>1, <2>2 DEF Known
<1>7. lines = <<>> /\ Len(lines) = 0 /\ section # "media" BY DEF Init
<1>8. ASSUME NEW m PROVE ~Within(lines, Len(lines), m)
  BY <1>7 DEF Within
<1>9. ASSUME NEW m, NEW p PROVE Described(lines, m, p) = NoAttrs
  <2>1. ~ListedBy(lines, Len(lines), m, p) BY <1>7 DEF ListedBy
  <2>2. ASSUME NEW keys PROVE Saying(lines, m, p, keys) = {} BY <1>7 DEF Saying
  <2>3. ListedBy(lines, Len(lines), m, p) = FALSE BY <2>1 DEF ListedBy
  <2> QED BY <2>2, <2>3 DEF Described, NoAttrs
<1>10. ASSUME NEW m PROVE ControlOf(lines, m) = "" BY <1>7 DEF ControlOf
<1> QED BY <1>4, <1>5, <1>6, <1>7, <1>8, <1>9, <1>10 DEF ParserInv, Placed, Written

\* The session that is made of an entry, and the rates MediaInfoCheck may give it.
LEMMA BeginLowest ==
    ASSUME NEW m, Listed(m) # {}
    PROVE  Begin(m) \in Listed(m) /\ \A q \in Listed(m) : Begin(m) <= q
<1>1. Listed(m) \subseteq Nat BY PayloadsAssumption DEF Listed
<1>2. \E p \in Listed(m) : \A q \in Listed(m) : p <= q BY <1>1, Lowest
<1> QED BY <1>2 DEF Begin

LEMMA SessionType ==
    ASSUME Types, NEW m \in MediaTypes
    PROVE  SessionOf(m) \in Session
<1>1. CASE Listed(m) = {}
  BY <1>1, NewSessionType DEF SessionOf
<1>2. CASE Listed(m) # {}
  <2>1. Begin(m) \in Payloads BY <1>2, BeginLowest DEF Listed
  <2>2. PICK a : a = mediaInfoMap[m].fmtMap[Begin(m)] OBVIOUS
  <2>3. a \in Attr /\ mediaInfoMap[m].controlURI \in URI
    BY <2>1, <2>2 DEF Types, Info
  <2>4. PICK u : u = ControlURI(mediaInfoMap[m].controlURI) OBVIOUS
  <2>5. u \in [prefixed : BOOLEAN, uri : URI] BY <2>3, <2>4 DEF ControlURI
  <2>6. HasXPS(a) \in BOOLEAN BY Zenon DEF HasXPS
  <2>7. PICK x : x = HasXPS(a) OBVIOUS
  <2>8. SessionOf(m) = [PayloadType |-> Begin(m), EncodeType |-> a.codec,
                        TimeRate |-> a.rate, Packetization |-> a.mode, XPS |-> x,
                        ControlURI |-> u]
    BY <1>2, <2>2, <2>4, <2>7 DEF SessionOf
  <2>9. a.codec \in Codec /\ a.rate \in Nat /\ a.mode \in 0 .. 2 BY <2>3 DEF Attr
  <2> QED BY <2>1, <2>5, <2>6, <2>7, <2>8, <2>9 DEF Session
<1> QED BY <1>1, <1>2

LEMMA RateType ==
    ASSUME NEW s \in Session, NEW r \in MediaInfoCheck(s)
    PROVE  r \in Nat
<1>1. s.TimeRate \in Nat /\ s.PayloadType \in Payloads \cup {-1} BY DEF Session
<1>2. CASE s.PayloadType >= 0 /\ s.TimeRate <= 0
  <2>1. s.PayloadType \in Nat
    <3>1. ~(-1 >= 0) OBVIOUS
    <3>2. s.PayloadType # -1 BY <1>2, <3>1
    <3> QED BY <1>1, <3>2, PayloadsAssumption
  <2>2. r \in TableRates(s.PayloadType) BY <1>2 DEF MediaInfoCheck
  <2>3. \A k \in 1 .. 24 : PT2TimeRateMap[k] \in Nat BY DEF PT2TimeRateMap
  <2>4. s.PayloadType < 24 => s.PayloadType + 1 \in 1 .. 24 BY <2>1
  <2> QED BY <2>2, <2>3, <2>4 DEF TableRates, AnyRate
<1>3. CASE ~(s.PayloadType >= 0 /\ s.TimeRate <= 0)
  BY <1>1, <1>3 DEF MediaInfoCheck
<1> QED BY <1>2, <1>3

LEMMA ParserNext == ParserInv /\ [Next]_vars => ParserInv'
<1> SUFFICES ASSUME ParserInv, [Next]_vars PROVE ParserInv' OBVIOUS
<1>1. Types /\ Known BY DEF ParserInv
<1>2. CASE Parse
  <2>1. PICK l : l = [key |-> "new"] OBVIOUS
  <2>2. l \in Entry /\ l.key = "new" BY <2>1 DEF Entry
  <2>3. Longer(lines, l, Len(lines), lines')
    BY <1>1, <1>2, <2>1, <2>2 DEF Parse, Read, Longer, Types
  <2>4. Moved(l) BY <1>2, <2>2 DEF Parse, Moved, SectionKeys
  <2>5. mediaInfoMap' \in [MediaTypes -> Info] BY <1>1, <1>2 DEF Parse, Types
  <2>6. ASSUME NEW m \in MediaTypes
        PROVE  Entered(mediaInfoMap[m], mediaInfoMap'[m], l, m,
                       section = "media" /\ current = m)
    BY <1>1, <1>2, <2>2, EntryOther DEF Parse
  <2>7. /\ UNCHANGED <<live, session, origin>> /\ pc' \in {"idle", "parse"}
        /\ section' \in {"session", "media", "time"} /\ current' \in MediaTypes \cup {"NULL"}
        /\ l.key # "m"
    BY <1>2, <2>2 DEF Parse
  <2> QED BY <2>3, <2>4, <2>5, <2>6, <2>7, ReadStep
<1>3. ASSUME NEW l \in Lines, ParseLine(l) PROVE ParserInv'
  <2>1. /\ Longer(lines, l, Len(lines), lines') /\ Moved(l)
        /\ UNCHANGED <<pc, live, session, origin>>
        /\ mediaInfoMap' \in [MediaTypes -> Info]
        /\ \A m \in MediaTypes :
              Entered(mediaInfoMap[m], mediaInfoMap'[m], l, m,
                      section = "media" /\ current = m)
    BY <1>3, LineEffect
  <2>2. l.key = "m" => l.media \in MediaTypes BY LineFields
  <2>3. section' \in {"session", "media", "time"} /\ current' \in MediaTypes \cup {"NULL"}
    BY <1>1, <1>3, <2>2 DEF Types, ParseLine, SectionLine, MediaLine, Rtpmap, FmtpH264,
                            FmtpH265, Attributes, Control, Other
  <2>4. pc' \in {"idle", "parse"} BY <1>1, <2>1 DEF Types
  <2> QED BY <2>1, <2>2, <2>3, <2>4, ReadStep
<1>4. ASSUME UNCHANGED <<mediaInfoMap, section, current, lines>>,
             pc' \in {"idle", "parse"}, live' \subseteq MediaTypes,
             \A m \in live' : mediaInfoMap[m].known,
             session' \in [MediaTypes -> Session],
             origin' \in [MediaTypes -> Nat], \A m \in MediaTypes : origin'[m] <= Len(lines)
      PROVE  ParserInv'
  <2>1. Types' BY <1>1, <1>4 DEF Types
  <2>2. Known' BY <1>1, <1>4 DEF Known
  <2>3. \A m \in MediaTypes : Placed(m)' /\ Written(m)'
    BY <1>4 DEF ParserInv, Placed, Written
  <2> QED BY <2>1, <2>2, <2>3 DEF ParserInv
<1>5. CASE ParseSDP
  <2>1. PICK rate :
           /\ \A m \in MediaTypes : rate[m] \in MediaInfoCheck(Made(m))
           /\ session' = [m \in MediaTypes |-> [Made(m) EXCEPT !.TimeRate = rate[m]]]
    BY <1>5 DEF ParseSDP
  <2>2. ASSUME NEW m \in MediaTypes
        PROVE  [Made(m) EXCEPT !.TimeRate = rate[m]] \in Session
    <3>1. Made(m) \in Session BY <1>1, SessionType DEF Made, Types
    <3>2. rate[m] \in Nat BY <2>1, <3>1, RateType
    <3> QED BY <3>1, <3>2 DEF Session
  <2>3. session' \in [MediaTypes -> Session] BY <2>1, <2>2
  <2>4. Len(lines) \in Nat BY <1>1, LenProperties DEF Types
  <2>5. /\ live' \subseteq MediaTypes /\ (\A m \in live' : mediaInfoMap[m].known)
        /\ pc' \in {"idle", "parse"} /\ UNCHANGED <<mediaInfoMap, section, current, lines>>
    BY <1>1, <1>5 DEF ParseSDP, Missing, Types, Known
  <2>6. origin' \in [MediaTypes -> Nat] /\ \A m \in MediaTypes : origin'[m] <= Len(lines)
    BY <1>1, <1>5, <2>4 DEF ParseSDP, Types
  <2> QED BY <1>4, <2>3, <2>5, <2>6
<1>6. ASSUME NEW m \in MediaTypes, DoTEARDOWN(m) PROVE ParserInv'
  <2>1. session' \in [MediaTypes -> Session]
    BY <1>1, <1>6, NewSessionType DEF DoTEARDOWN, Types
  <2>2. Len(lines) \in Nat BY <1>1, LenProperties DEF Types
  <2>3. origin' \in [MediaTypes -> Nat] /\ \A k \in MediaTypes : origin'[k] <= Len(lines)
    BY <1>1, <1>6, <2>2 DEF DoTEARDOWN, Types
  <2>4. /\ live' \subseteq MediaTypes /\ (\A k \in live' : mediaInfoMap[k].known)
        /\ pc' \in {"idle", "parse"} /\ UNCHANGED <<mediaInfoMap, section, current, lines>>
    BY <1>1, <1>6 DEF DoTEARDOWN, Types, Known
  <2> QED BY <1>4, <2>1, <2>3, <2>4
<1>7. CASE UNCHANGED vars
  <2>1. /\ UNCHANGED <<mediaInfoMap, section, current, lines>> /\ live' = live
        /\ session' = session /\ origin' = origin /\ pc' = pc
    BY <1>7 DEF vars
  <2> QED BY <1>1, <1>4, <2>1 DEF Types, Known
<1> QED BY <1>2, <1>3, <1>5, <1>6, <1>7 DEF Next

LEMMA ParserInvariant == Spec => []ParserInv
BY ParserInit, ParserNext, PTL DEF Spec

\* Type correctness of the parser and the sessions; in particular, whenever an a=
\* line counts, currentMediaInfo, which the code dereferences before it compares it
\* with NULL, points to an entry of the map.
THEOREM SdpTypeOK == Spec => []TypeOK
<1>1. ParserInv => TypeOK
  <2> SUFFICES ASSUME ParserInv PROVE TypeOK OBVIOUS
  <2>1. Types /\ Known BY DEF ParserInv
  <2>2. \A m \in MediaTypes : session[m].PayloadType \in Payloads \cup {-1}
    BY <2>1 DEF Types, Session
  <2> QED BY <2>1, <2>2 DEF Types, Known, TypeOK
<1> QED BY <1>1, ParserInvariant, PTL

\* After every line of every SDP the parser knows of each media what a reader of
\* all lines finds in the sections of that media.
THEOREM SdpParsedAsWritten == Spec => []ParsedAsWritten
<1>1. ParserInv => ParsedAsWritten
  <2> SUFFICES ASSUME ParserInv, NEW m \in MediaTypes
               PROVE  /\ mediaInfoMap[m].fmtMap = [p \in Payloads |-> Described(lines, m, p)]
                      /\ mediaInfoMap[m].controlURI = ControlOf(lines, m)
    BY DEF ParsedAsWritten
  <2>1. PICK f : f = mediaInfoMap[m].fmtMap OBVIOUS
  <2>2. f \in [Payloads -> Attr] BY <2>1 DEF ParserInv, Types, Info
  <2>3. \A p \in Payloads : f[p] = Described(lines, m, p) BY <2>1 DEF ParserInv, Written
  <2>4. f = [p \in Payloads |-> Described(lines, m, p)] BY <2>2, <2>3
  <2> QED BY <2>1, <2>4 DEF ParserInv, Written
<1> QED BY <1>1, ParserInvariant, PTL

-----------------------------------------------------------------------------
(* The sessions *)

ListedIn(ls, m) == {p \in Payloads : ListedBy(ls, Len(ls), m, p)}
\* Session s is what the lines ls say of media m; before MediaInfoCheck its rate
\* may still be missing.
AsSaid(s, a, ls, m) ==
    /\ s.PayloadType \in ListedIn(ls, m) /\ \A p \in ListedIn(ls, m) : s.PayloadType <= p
    /\ s.EncodeType = a.codec /\ s.Packetization = a.mode
    /\ s.XPS <=> HasXPS(a)
    /\ s.ControlURI = ControlURI(ControlOf(ls, m))
    /\ a.rate # 0 => s.TimeRate = a.rate
RateSaid(s, a) ==
    a.rate = 0 /\ s.PayloadType < 24 => s.TimeRate = PT2TimeRateMap[s.PayloadType + 1]
RateMayMiss(s, a) == RateSaid(s, a) \/ s.TimeRate = 0
Describes(s, ls, m) ==
    IF ListedIn(ls, m) = {} THEN s = NewSession
    ELSE \E a : /\ a = Described(ls, m, s.PayloadType)
               /\ AsSaid(s, a, ls, m) /\ RateSaid(s, a)
Promises(s, ls, m) ==
    IF ListedIn(ls, m) = {} THEN s = NewSession
    ELSE \E a : /\ a = Described(ls, m, s.PayloadType)
               /\ AsSaid(s, a, ls, m) /\ RateMayMiss(s, a)

LEMMA SessionsDescribe == SessionAsDescribed <=>
    \A m \in live : Describes(session[m], SubSeq(lines, 1, origin[m]), m)
<1>1. ASSUME NEW m, NEW ls, NEW s
      PROVE  Describes(s, ls, m) <=>
                LET listed == {p \in Payloads : ListedBy(ls, Len(ls), m, p)}
                    a      == Described(ls, m, s.PayloadType)
                IN  IF listed = {} THEN s = NewSession
                    ELSE /\ s.PayloadType \in listed /\ \A p \in listed : s.PayloadType <= p
                         /\ s.EncodeType = a.codec /\ s.Packetization = a.mode
                         /\ s.XPS <=> HasXPS(a)
                         /\ s.ControlURI = ControlURI(ControlOf(ls, m))
                         /\ a.rate # 0 => s.TimeRate = a.rate
                         /\ a.rate = 0 /\ s.PayloadType < 24
                               => s.TimeRate = PT2TimeRateMap[s.PayloadType + 1]
  BY Zenon DEF Describes, AsSaid, RateSaid, ListedIn
<1> QED BY <1>1, Zenon DEF SessionAsDescribed

LEMMA Checked ==
    ASSUME NEW s \in Session, NEW r \in MediaInfoCheck(s), NEW ls, NEW m, Promises(s, ls, m)
    PROVE  Describes([s EXCEPT !.TimeRate = r], ls, m)
<1>1. PICK t : t = [s EXCEPT !.TimeRate = r] OBVIOUS
<1>2. /\ s.TimeRate \in Nat /\ t.TimeRate = r /\ t.PayloadType = s.PayloadType
      /\ t.EncodeType = s.EncodeType /\ t.Packetization = s.Packetization
      /\ t.XPS = s.XPS /\ t.ControlURI = s.ControlURI
  BY <1>1 DEF Session
<1>3. CASE ListedIn(ls, m) = {}
  <2>1. s = NewSession BY <1>3 DEF Promises
  <2>2. s.PayloadType = -1 /\ s.TimeRate = 0 BY <2>1 DEF NewSession
  <2>3. r = 0 BY <2>2 DEF MediaInfoCheck
  <2>4. t = s BY <1>1, <2>2, <2>3 DEF Session
  <2> QED BY <1>1, <1>3, <2>1, <2>4 DEF Describes
<1>4. CASE ListedIn(ls, m) # {}
  <2>1. PICK a : /\ a = Described(ls, m, s.PayloadType)
                 /\ AsSaid(s, a, ls, m) /\ RateMayMiss(s, a)
    BY <1>4 DEF Promises
  <2>2. s.PayloadType \in Nat BY <2>1, PayloadsAssumption DEF AsSaid, ListedIn
  <2>3. s.TimeRate # 0 => r = s.TimeRate BY <1>2, <2>2 DEF MediaInfoCheck
  <2>4. s.TimeRate = 0 => r \in TableRates(s.PayloadType) BY <2>2 DEF MediaInfoCheck
  <2>5. RateSaid(t, a)
    <3> SUFFICES ASSUME a.rate = 0, s.PayloadType < 24
                 PROVE  r = PT2TimeRateMap[s.PayloadType + 1]
      BY <1>2 DEF RateSaid
    <3>1. CASE s.TimeRate = 0 BY <2>4, <3>1 DEF TableRates
    <3>2. CASE s.TimeRate # 0 BY <2>1, <2>3, <3>2 DEF RateMayMiss, RateSaid
    <3> QED BY <3>1, <3>2
  <2>6. a.rate # 0 => r = a.rate BY <2>1, <2>3 DEF AsSaid
  <2>7. AsSaid(t, a, ls, m) BY <1>2, <2>1, <2>6 DEF AsSaid
  <2> QED BY <1>1, <1>2, <1>4, <2>1, <2>5, <2>7 DEF Describes
<1> QED BY <1>3, <1>4

LEMMA MadePromises ==
    ASSUME ParserInv, NEW m \in MediaTypes
    PROVE  Promises(SessionOf(m), lines, m)
<1>1. ASSUME NEW p \in Payloads
      PROVE  /\ mediaInfoMap[m].fmtMap[p] = Described(lines, m, p)
             /\ mediaInfoMap[m].fmtMap[p].listed <=> ListedBy(lines, Len(lines), m, p)
  <2>1. Described(lines, m, p).listed = ListedBy(lines, Len(lines), m, p) BY DEF Described
  <2> QED BY <2>1 DEF ParserInv, Written
<1>2. Listed(m) = ListedIn(lines, m) BY <1>1 DEF Listed, ListedIn
<1>3. CASE Listed(m) = {} BY <1>2, <1>3 DEF Promises, SessionOf
<1>4. CASE Listed(m) # {}
  <2>1. Begin(m) \in Payloads /\ Begin(m) \in Listed(m) /\ \A q \in Listed(m) : Begin(m) <= q
    BY <1>4, BeginLowest DEF Listed
  <2>2. PICK a, b, u, x : /\ b = Begin(m) /\ a = mediaInfoMap[m].fmtMap[b]
                          /\ u = ControlURI(mediaInfoMap[m].controlURI) /\ x = HasXPS(a)
    OBVIOUS
  <2>3. SessionOf(m) = [PayloadType |-> b, EncodeType |-> a.codec, TimeRate |-> a.rate,
                        Packetization |-> a.mode, XPS |-> x, ControlURI |-> u]
    BY <1>4, <2>2 DEF SessionOf
  <2>4. u = ControlURI(ControlOf(lines, m)) BY <2>2 DEF ParserInv, Written
  <2>5. a = Described(lines, m, b) BY <1>1, <2>1, <2>2
  <2>6. AsSaid(SessionOf(m), a, lines, m)
    BY <1>2, <2>1, <2>2, <2>3, <2>4 DEF AsSaid
  <2>7. RateMayMiss(SessionOf(m), a) BY <2>3 DEF RateMayMiss, RateSaid
  <2>8. SessionOf(m).PayloadType = b BY <2>3
  <2> QED BY <1>2, <1>4, <2>5, <2>6, <2>7, <2>8 DEF Promises
<1> QED BY <1>3, <1>4

\* A session's lines are the same after more lines have been read.
LEMMA SameOrigin ==
    ASSUME NEW ls, NEW l, NEW n, NEW a, Longer(ls, l, n, a), NEW k \in 0 .. n
    PROVE  SubSeq(a, 1, k) = SubSeq(ls, 1, k)
<1>1. ls \in Seq(Entry) /\ <<l>> \in Seq(Entry) /\ n = Len(ls) /\ a = Append(ls, l)
  BY DEF Longer
<1>2. a = ls \o <<l>> BY <1>1, AppendIsConcat DEF Longer
<1>3. n \in Nat BY <1>1, LenProperties
<1>4. CASE k = 0
  <2>1. a \in Seq(Entry) BY <1>1, AppendProperties DEF Longer
  <2> QED BY <1>1, <1>4, <2>1, SubSeqEmpty
<1>5. CASE k \in 1 .. Len(ls) BY <1>1, <1>2, <1>5, SubSeqOfConcat1
<1> QED BY <1>1, <1>3, <1>4, <1>5

LEMMA SessionsNext ==
    ParserInv /\ SessionAsDescribed /\ [Next]_vars => SessionAsDescribed'
<1> DEFINE Desc == \A m \in live : Describes(session[m], SubSeq(lines, 1, origin[m]), m)
<1> SUFFICES ASSUME ParserInv, Desc, [Next]_vars PROVE Desc'
  <2>1. SessionAsDescribed <=> Desc BY SessionsDescribe
  <2>2. SessionAsDescribed' <=> Desc' BY <2>1, PTL
  <2> QED BY <2>1, <2>2
<1>1. Types BY DEF ParserInv
<1>2. ASSUME NEW l, Longer(lines, l, Len(lines), lines'), UNCHANGED <<live, session, origin>>
      PROVE  Desc'
  <2> SUFFICES ASSUME NEW m \in live
               PROVE  Describes(session[m], SubSeq(lines', 1, origin[m]), m)
    BY <1>2
  <2>1. Len(lines) \in Nat /\ origin[m] \in Nat /\ origin[m] <= Len(lines)
    BY <1>1, LenProperties DEF Types
  <2>2. origin[m] \in 0 .. Len(lines) BY <2>1
  <2>3. SubSeq(lines', 1, origin[m]) = SubSeq(lines, 1, origin[m])
    BY <1>2, <2>2, SameOrigin
  <2> QED BY <2>3
<1>3. CASE Parse
  <2>1. PICK l : l = [key |-> "new"] OBVIOUS
  <2>2. Longer(lines, l, Len(lines), lines') /\ UNCHANGED <<live, session, origin>>
    BY <1>1, <1>3, <2>1 DEF Parse, Read, Longer, Types, Entry
  <2> QED BY <1>2, <2>2
<1>4. ASSUME NEW l \in Lines, ParseLine(l) PROVE Desc'
  BY <1>2, <1>4, LineEffect
<1>5. CASE ParseSDP
  <2>1. PICK rate :
           /\ \A m \in MediaTypes : rate[m] \in MediaInfoCheck(Made(m))
           /\ session' = [m \in MediaTypes |-> [Made(m) EXCEPT !.TimeRate = rate[m]]]
    BY <1>5 DEF ParseSDP
  <2> SUFFICES ASSUME NEW m \in live'
               PROVE  Describes(session'[m], SubSeq(lines, 1, origin'[m]), m)
    BY <1>5 DEF ParseSDP
  <2>2. m \in MediaTypes /\ (m \in Missing \/ m \in live) /\ (m \in Missing => m \notin live)
    BY <1>1, <1>5 DEF ParseSDP, Missing, Types
  <2>3. session'[m] = [Made(m) EXCEPT !.TimeRate = rate[m]] BY <2>1, <2>2
  <2>4. Made(m) \in Session BY <1>1, <2>2, SessionType DEF Made, Types
  <2>5. Promises(Made(m), SubSeq(lines, 1, origin'[m]), m)
    <3>1. CASE m \in Missing
      <4>1. Made(m) = SessionOf(m) /\ origin'[m] = Len(lines)
        BY <1>5, <2>2, <3>1 DEF Made, ParseSDP
      <4>2. SubSeq(lines, 1, Len(lines)) = lines BY <1>1, SubSeqFull DEF Types
      <4> QED BY <2>2, <4>1, <4>2, MadePromises
    <3>2. CASE m \notin Missing
      <4>1. Made(m) = session[m] /\ origin'[m] = origin[m] /\ m \in live
        BY <1>5, <2>2, <3>2 DEF Made, ParseSDP
      <4>2. Describes(session[m], SubSeq(lines, 1, origin[m]), m) BY <4>1
      <4> QED BY <4>1, <4>2 DEF Describes, Promises, RateMayMiss
    <3> QED BY <3>1, <3>2
  <2> QED BY <2>1, <2>2, <2>3, <2>4, <2>5, Checked
<1>6. ASSUME NEW k \in MediaTypes, DoTEARDOWN(k) PROVE Desc'
  BY <1>1, <1>6 DEF DoTEARDOWN, Types
<1>7. CASE UNCHANGED vars BY <1>7 DEF vars
<1> QED BY <1>3, <1>4, <1>5, <1>6, <1>7 DEF Next

\* A session keeps what the SDP said when it was made: later SDPs, and the sessions
\* of other medias that come and go, never change it.
THEOREM SdpSessionAsDescribed == Spec => []SessionAsDescribed
<1>1. Init => SessionAsDescribed BY DEF Init, SessionAsDescribed
<1> QED BY <1>1, ParserInvariant, SessionsNext, PTL DEF Spec
=============================================================================
