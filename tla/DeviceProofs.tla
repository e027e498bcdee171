----------------------------- MODULE DeviceProofs -----------------------------
(***************************************************************************)
(* Proofs about a device and those who listen to it.                       *)
(*                                                                         *)
(* Description: of any device, a control point that has read its           *)
(* description holds what the device told when it started, and the         *)
(* application is told the result of the action it called.                 *)
(*                                                                         *)
(* EventController: for any threads, any subscriptions, any timeouts and   *)
(* any greatest key, nothing is in the list twice, and unless operations   *)
(* on it overlap it agrees with the objects; the keys come in order unless *)
(* two are made at the same time, the first event tells everything, and a  *)
(* subscriber who was not passed over learns the latest value.             *)
(***************************************************************************)
EXTENDS EventController, Description, SequenceLemmas

-----------------------------------------------------------------------------
(* What a device says of itself, and what a control point reads            *)
(* (Description).  First, numbers in their order: of increasing numbers as *)
(* many are less than the kth as stand before it.                          *)
Increasing(t, n) == t \in [1..n -> Nat] /\ \A i, j \in 1..n : i < j => t[i] < t[j]
FirstOnes(t, m) == {t[i] : i \in 1..m}

LEMMA IncreasingSet ==
  ASSUME NEW n \in Nat, NEW t, Increasing(t, n), NEW m \in 0..n
  PROVE  IsFiniteSet(FirstOnes(t, m)) /\ Cardinality(FirstOnes(t, m)) = m
  <1> DEFINE R == {t[i] : i \in 1..m}
             f == [i \in 1..m |-> t[i]]
  <1>1. \A i \in 1..m : i \in 1..n
    OBVIOUS
  <1>2. f \in Surjection(1..m, R)
    BY DEF Surjection
  <1>3. f \in Injection(1..m, R)
    <2>1. ASSUME NEW i \in 1..m, NEW j \in 1..m, f[i] = f[j] PROVE i = j
      <3>1. t[i] = t[j] /\ i \in 1..n /\ j \in 1..n /\ t[i] \in Nat /\ t[j] \in Nat
        BY <1>1, <2>1 DEF Increasing
      <3>2. ~(i < j) /\ ~(j < i)
        BY <3>1 DEF Increasing
      <3>3. QED
        BY <3>2
    <2>2. f \in [1..m -> R]
      OBVIOUS
    <2>3. QED
      BY <2>1, <2>2 DEF Injection, IsInjective
  <1>4. IsFiniteSet(1..m) /\ Cardinality(1..m) = m
    BY FS_Interval
  <1> HIDE DEF f, R
  <1>5. IsFiniteSet(R) /\ Cardinality(R) = m
    BY <1>2, <1>3, <1>4, FS_Surjection
  <1>6. QED
    BY <1>5 DEF R, FirstOnes

LEMMA InOrderDef ==
  ASSUME NEW S
  PROVE  inOrder(S) = [n \in 1..Cardinality(S) |->
                            CHOOSE i \in S : Cardinality({j \in S : j < i}) = n - 1]
  BY DEF inOrder, Cardinality

LEMMA InOrderIs ==
  ASSUME NEW n \in Nat, NEW t, Increasing(t, n), NEW S, S = FirstOnes(t, n)
  PROVE  inOrder(S) = t
  <1>1. Cardinality(S) = n
    <2>1. n \in 0..n
      OBVIOUS
    <2>2. QED
      BY <2>1, IncreasingSet
  <1>2. ASSUME NEW k \in 1..n PROVE Cardinality({j \in S : j < t[k]}) = k - 1
    <2>1. PICK l \in Nat : l = k - 1 /\ l \in 0..n
      OBVIOUS
    <2>2. {j \in S : j < t[k]} = FirstOnes(t, l)
      <3>1. ASSUME NEW i \in 1..l PROVE t[i] \in S /\ t[i] < t[k]
        <4>1. i \in 1..n /\ i < k
          BY <2>1
        <4>2. QED
          BY <4>1 DEF Increasing, FirstOnes
      <3>2. ASSUME NEW i \in 1..n, t[i] < t[k] PROVE i \in 1..l
        <4>1. t[i] \in Nat /\ t[k] \in Nat /\ ~(t[k] < t[i]) /\ t[k] # t[i]
          BY <3>2 DEF Increasing
        <4>2. ~(k < i) /\ k # i
          BY <4>1 DEF Increasing
        <4>3. QED
          BY <2>1, <4>2
      <3>3. QED
        BY <3>1, <3>2 DEF FirstOnes
    <2>3. QED
      BY <2>1, <2>2, IncreasingSet
  <1>3. ASSUME NEW k \in 1..n
        PROVE  (CHOOSE i \in S : Cardinality({j \in S : j < i}) = k - 1) = t[k]
    <2> DEFINE Q(i) == Cardinality({j \in S : j < i}) = k - 1
    <2>1. t[k] \in S /\ Q(t[k])
      BY <1>2 DEF FirstOnes
    <2>2. ASSUME NEW i \in S, Q(i) PROVE i = t[k]
      <3>1. PICK l \in 1..n : i = t[l]
        BY DEF FirstOnes
      <3>2. Cardinality({j \in S : j < t[l]}) = l - 1
        BY <1>2
      <3>3. l - 1 = k - 1
        BY <2>2, <3>1, <3>2
      <3>4. l = k
        BY <3>3
      <3>5. QED
        BY <3>1, <3>4
    <2> HIDE DEF Q
    <2>3. (CHOOSE i \in S : Q(i)) = t[k]
      BY <2>1, <2>2
    <2>4. QED
      BY <2>3 DEF Q
  <1>4. t = [k \in 1..n |-> t[k]]
    BY DEF Increasing
  <1>5. QED
    BY Zenon, <1>1, <1>3, <1>4, InOrderDef

LEMMA InOrderFirst ==
  ASSUME NEW S, S \subseteq Nat, IsFiniteSet(S), NEW m \in S, \A i \in S : m <= i
  PROVE  inOrder(S) # << >> /\ inOrder(S)[1] = m
  <1>1. Cardinality(S) \in Nat /\ Cardinality(S) # 0
    BY FS_CardinalityType, FS_EmptySet
  <1>2. 1 \in 1..Cardinality(S)
    BY <1>1
  <1>3. Cardinality({j \in S : j < m}) = 0
    <2>1. {j \in S : j < m} = {}
      <3>1. ASSUME NEW j \in S, j < m PROVE FALSE
        <4>1. j \in Nat /\ m \in Nat /\ m <= j
          OBVIOUS
        <4>2. QED
          BY <3>1, <4>1
      <3>2. QED
        BY Zenon, <3>1
    <2>2. QED
      BY <2>1, FS_EmptySet
  <1>4. ASSUME NEW i \in S, Cardinality({j \in S : j < i}) = 0 PROVE i = m
    <2>1. IsFiniteSet({j \in S : j < i})
      BY FS_Subset
    <2>2. {j \in S : j < i} = {}
      BY <1>4, <2>1, FS_EmptySet
    <2>3. ~(m < i)
      BY <2>2
    <2>4. QED
      BY <2>3
  <1> DEFINE Q(i) == Cardinality({j \in S : j < i}) = 1 - 1
  <1>5. Q(m) /\ \A i \in S : Q(i) => i = m
    BY <1>3, <1>4
  <1> HIDE DEF Q
  <1>6. (CHOOSE i \in S : Q(i)) = m
    BY <1>5
  <1>7. inOrder(S)[1] = (CHOOSE i \in S : Q(i))
    BY Zenon, <1>2, InOrderDef DEF Q
  <1>8. DOMAIN inOrder(S) = 1..Cardinality(S)
    BY InOrderDef
  <1>9. inOrder(S) # << >>
    <2>1. DOMAIN << >> = {}
      OBVIOUS
    <2>2. QED
      BY Zenon, <1>2, <1>8, <2>1
  <1>10. QED
    BY <1>6, <1>7, <1>9

(* What is read of a document: the elements with a tag below another one,  *)
(* which ends where an element is no deeper than it.                       *)
ElementTags ==
  {"root", "specVersion", "major", "minor", "URLBase", "device", "iconList", "icon",
   "serviceList", "service", "deviceList", "presentationURL",
   "deviceType", "friendlyName", "manufacturer", "manufacturerURL", "modelDescription",
   "modelName", "modelNumber", "modelURL", "serialNumber", "UDN", "UPC",
   "mimetype", "width", "height", "depth", "url",
   "serviceType", "serviceId", "SCPDURL", "controlURL", "eventSubURL"}
Elements == [depth : Nat, tag : ElementTags, text : Text]
Below(doc, i, last) ==
  /\ i \in 1..Len(doc) /\ last \in i..Len(doc)
  /\ \A k \in i + 1..last : doc[k].depth > doc[i].depth

FirstWith(doc, i, p, tag) ==
  i < p /\ doc[p].tag = tag /\ \A k \in i + 1..p - 1 : doc[k].tag # tag

LEMMA FirstBelow ==
  ASSUME NEW doc \in Seq(Elements), NEW i, NEW p, Below(doc, i, p), NEW tag,
         FirstWith(doc, i, p, tag)
  PROVE  /\ elementsByTagName(doc, i, tag) # << >>
         /\ elementsByTagName(doc, i, tag)[1] = p
         /\ textAt(doc, i, tag) = doc[p].text
  <1> DEFINE B == {j \in (i + 1)..Len(doc) :
                     /\ doc[j].tag = tag
                     /\ \A k \in (i + 1)..j : doc[k].depth > doc[i].depth}
  <1>0. i < p /\ doc[p].tag = tag /\ \A k \in i + 1..p - 1 : doc[k].tag # tag
    BY DEF FirstWith
  <1>1. Len(doc) \in Nat /\ i \in Nat /\ p \in Nat /\ i \in 1..Len(doc) /\ p \in i..Len(doc)
    BY LenProperties DEF Below
  <1>2. B \subseteq Nat /\ IsFiniteSet(B)
    <2>1. B \subseteq 0..Len(doc)
      BY <1>1
    <2>2. IsFiniteSet(0..Len(doc))
      BY <1>1, FS_Interval
    <2>3. QED
      BY <2>1, <2>2, FS_Subset
  <1>3. p \in B
    BY <1>0, <1>1 DEF Below
  <1>4. ASSUME NEW j \in B PROVE p <= j
    <2>1. j \in (i + 1)..Len(doc) /\ doc[j].tag = tag
      OBVIOUS
    <2>2. j \notin i + 1..p - 1
      BY <1>0, <2>1
    <2>3. QED
      BY <1>1, <2>1, <2>2
  <1>5. elementsByTagName(doc, i, tag) = inOrder(B)
    BY DEF elementsByTagName
  <1> HIDE DEF B
  <1>6. inOrder(B) # << >> /\ inOrder(B)[1] = p
    BY Zenon, <1>2, <1>3, <1>4, InOrderFirst
  <1>7. QED
    BY <1>5, <1>6 DEF textAt

(* The places of those with the tag, up to the last one below.             *)
PlacesOf(t, n, doc, i, last, tag) ==
  /\ Increasing(t, n)
  /\ last < Len(doc) => doc[last + 1].depth <= doc[i].depth
  /\ \A q \in 1..n : t[q] \in i + 1..last /\ doc[t[q]].tag = tag
  /\ \A k \in i + 1..last : doc[k].tag = tag => \E q \in 1..n : k = t[q]

LEMMA AllBelow ==
  ASSUME NEW doc \in Seq(Elements), NEW i, NEW last, Below(doc, i, last),
         NEW n \in Nat, NEW t, NEW tag, PlacesOf(t, n, doc, i, last, tag)
  PROVE  elementsByTagName(doc, i, tag) = t
  <1> DEFINE B == {j \in (i + 1)..Len(doc) :
                     /\ doc[j].tag = tag
                     /\ \A k \in (i + 1)..j : doc[k].depth > doc[i].depth}
  <1>0. /\ Increasing(t, n)
        /\ last < Len(doc) => doc[last + 1].depth <= doc[i].depth
        /\ \A q \in 1..n : t[q] \in i + 1..last /\ doc[t[q]].tag = tag
        /\ \A k \in i + 1..last : doc[k].tag = tag => \E q \in 1..n : k = t[q]
    BY DEF PlacesOf
  <1>1. Len(doc) \in Nat /\ i \in Nat /\ last \in Nat /\ i \in 1..Len(doc) /\ last \in i..Len(doc)
    BY LenProperties DEF Below
  <1>2. \A k \in 1..Len(doc) : doc[k].depth \in Nat
    <2>1. \A k \in 1..Len(doc) : doc[k] \in Elements
      BY ElementOfSeq
    <2>2. QED
      BY <2>1 DEF Elements
  <1>3. ASSUME NEW q \in 1..n PROVE t[q] \in B
    <2>1. t[q] \in i + 1..last /\ doc[t[q]].tag = tag
      BY <1>0
    <2>2. t[q] \in (i + 1)..Len(doc)
      BY <1>1, <2>1
    <2>3. \A k \in (i + 1)..t[q] : doc[k].depth > doc[i].depth
      BY <1>1, <2>1 DEF Below
    <2>4. QED
      BY <2>1, <2>2, <2>3
  <1>4. ASSUME NEW j \in B PROVE \E q \in 1..n : j = t[q]
    <2>1. j \in (i + 1)..Len(doc) /\ doc[j].tag = tag
          /\ \A k \in (i + 1)..j : doc[k].depth > doc[i].depth
      OBVIOUS
    <2>2. j <= last
      <3>1. SUFFICES ASSUME ~(j <= last) PROVE FALSE
        OBVIOUS
      <3>2. last + 1 \in (i + 1)..j /\ last < Len(doc) /\ last + 1 \in 1..Len(doc)
        BY <1>1, <2>1, <3>1
      <3>3. doc[last + 1].depth > doc[i].depth /\ doc[last + 1].depth <= doc[i].depth
        BY <1>0, <2>1, <3>2
      <3>4. doc[last + 1].depth \in Nat /\ doc[i].depth \in Nat
        BY Zenon, <1>1, <1>2, <3>2
      <3>5. QED
        BY <3>3, <3>4
    <2>3. j \in i + 1..last
      BY <1>1, <2>1, <2>2
    <2>4. QED
      BY <1>0, <2>1, <2>3
  <1>5. B = FirstOnes(t, n)
    <2> HIDE DEF B
    <2>1. QED
      BY <1>3, <1>4 DEF FirstOnes
  <1>6. elementsByTagName(doc, i, tag) = inOrder(B)
    BY DEF elementsByTagName
  <1> HIDE DEF B
  <1>7. QED
    BY <1>0, <1>5, <1>6, InOrderIs

(* What is written (xmlGenerator), element by element.                     *)
Holds(doc, p, depth, tag, tags, values) ==
  /\ doc[p] = Element(depth, tag, << >>)
  /\ \A j \in 1..Len(tags) : doc[p + j] = Element(depth + 1, tags[j], values[tags[j]])

LEMMA RecordWritten ==
  ASSUME NEW depth \in Nat, NEW tag \in ElementTags, NEW tags \in Seq(ElementTags), NEW values,
         \A j \in 1..Len(tags) : values[tags[j]] \in Text
  PROVE  LET r == Record(depth, tag, tags, values)
         IN  /\ r \in Seq(Elements) /\ Len(r) = 1 + Len(tags)
             /\ Holds(r, 1, depth, tag, tags, values)
  <1> DEFINE r == Record(depth, tag, tags, values)
             head == << Element(depth, tag, << >>) >>
             texts == [i \in 1..Len(tags) |-> Element(depth + 1, tags[i], values[tags[i]])]
  <1>1. /\ Len(tags) \in Nat /\ DOMAIN tags = 1..Len(tags)
        /\ \A i \in 1..Len(tags) : tags[i] \in ElementTags
    BY LenProperties, ElementOfSeq
  <1>2. << >> \in Text
    BY EmptySeq DEF Text
  <1>3. Element(depth, tag, << >>) \in Elements
    BY <1>2 DEF Element, Elements
  <1>4. \A i \in 1..Len(tags) : Element(depth + 1, tags[i], values[tags[i]]) \in Elements
    BY <1>1 DEF Element, Elements
  <1>5. head \in Seq(Elements) /\ Len(head) = 1 /\ head[1] = Element(depth, tag, << >>)
    BY <1>3, OneElement
  <1>6. texts \in Seq(Elements) /\ Len(texts) = Len(tags)
    <2>1. texts \in [1..Len(tags) -> Elements]
      BY <1>4
    <2> HIDE DEF texts
    <2>2. QED
      BY <1>1, <2>1, SeqOfFunction
  <1>7. r = head \o texts
    BY <1>1 DEF Record, TextsOf
  <1>8. \A i \in 1..Len(tags) : texts[i] = Element(depth + 1, tags[i], values[tags[i]])
    OBVIOUS
  <1> HIDE DEF r, head, texts
  <1>9. r \in Seq(Elements) /\ Len(r) = 1 + Len(tags) /\ Placed(r, 0, head) /\ Placed(r, 1, texts)
    <2>1. /\ head \o texts \in Seq(Elements) /\ Len(head \o texts) = Len(head) + Len(texts)
          /\ Placed(head \o texts, 0, head) /\ Placed(head \o texts, Len(head), texts)
      BY Zenon, <1>5, <1>6, ConcatPlaces
    <2>2. QED
      BY <1>5, <1>6, <1>7, <2>1
  <1>10. r[1] = head[1]
    <2>1. 1 \in 1..Len(head)
      BY <1>5
    <2>2. r[0 + 1] = head[1]
      BY <1>9, <2>1, PlacedAt
    <2>3. QED
      BY <2>2
  <1>11. \A i \in 1..Len(tags) : r[1 + i] = texts[i]
    BY <1>6, <1>9 DEF Placed
  <1>12. Holds(r, 1, depth, tag, tags, values)
    BY <1>5, <1>8, <1>10, <1>11 DEF Holds
  <1>13. QED
    BY <1>9, <1>12 DEF r

LEMMA HoldsPlaced ==
  ASSUME NEW doc \in Seq(Elements), NEW r \in Seq(Elements), NEW o \in Nat, Placed(doc, o, r),
         NEW p \in Nat, NEW depth, NEW tag, NEW tags \in Seq(ElementTags), NEW values,
         Holds(r, p, depth, tag, tags, values), p # 0, p + Len(tags) <= Len(r)
  PROVE  Holds(doc, o + p, depth, tag, tags, values)
  <1>1. Len(tags) \in Nat /\ Len(r) \in Nat
    BY LenProperties
  <1>2. \A i \in 1..Len(r) : doc[o + i] = r[i]
    BY DEF Placed
  <1>3. doc[o + p] = r[p]
    BY <1>1, <1>2
  <1>4. ASSUME NEW j \in 1..Len(tags) PROVE doc[o + p + j] = r[p + j]
    <2>1. PICK q \in Nat : q = p + j /\ q \in 1..Len(r) /\ o + q = o + p + j
      BY <1>1
    <2>2. doc[o + q] = r[q]
      BY <1>2, <2>1
    <2>3. QED
      BY <2>1, <2>2
  <1>5. QED
    BY Zenon, <1>3, <1>4 DEF Holds

Table(depth, tag, item, tags, values) ==
  ListOf(depth, tag, [i \in DOMAIN values |-> Record(depth + 1, item, tags, values[i])])

LEMMA TableWritten ==
  ASSUME NEW depth \in Nat, NEW tag \in ElementTags, NEW item \in ElementTags,
         NEW tags \in Seq(ElementTags), Len(tags) = 5, NEW n \in Nat,
         NEW values, DOMAIN values = 1..n,
         \A k \in 1..n : \A j \in 1..5 : values[k][tags[j]] \in Text
  PROVE  LET l == Table(depth, tag, item, tags, values)
         IN  /\ l \in Seq(Elements) /\ Len(l) = 1 + 6 * n
             /\ l[1] = Element(depth, tag, << >>)
             /\ \A k \in 1..n : Holds(l, 6 * k - 4, depth + 1, item, tags, values[k])
  <1> DEFINE record(k) == Record(depth + 1, item, tags, values[k])
             ss == [i \in 1..n |-> record(i)]
             head == << Element(depth, tag, << >>) >>
             flat == FlattenSeq(ss)
             l == head \o flat
             off == [k \in 0..n |-> 6 * k]
  <1>1. ASSUME NEW k \in 1..n
        PROVE  /\ record(k) \in Seq(Elements) /\ Len(record(k)) = 6
               /\ Holds(record(k), 1, depth + 1, item, tags, values[k])
    <2>1. depth + 1 \in Nat /\ \A j \in 1..Len(tags) : values[k][tags[j]] \in Text
      OBVIOUS
    <2>2. LET r == Record(depth + 1, item, tags, values[k])
          IN  /\ r \in Seq(Elements) /\ Len(r) = 1 + Len(tags)
              /\ Holds(r, 1, depth + 1, item, tags, values[k])
      BY Zenon, <2>1, RecordWritten
    <2>3. QED
      BY <2>2
  <1>2. Element(depth, tag, << >>) \in Elements
    <2>1. << >> \in Text
      BY EmptySeq DEF Text
    <2>2. QED
      BY <2>1 DEF Element, Elements
  <1>3. head \in Seq(Elements) /\ Len(head) = 1 /\ head[1] = Element(depth, tag, << >>)
    BY <1>2, OneElement
  <1> HIDE DEF record, head
  <1>4. ss \in Seq(Seq(Elements)) /\ Len(ss) = n /\ \A k \in 1..n : ss[k] = record(k)
    <2>1. ss \in [1..n -> Seq(Elements)]
      BY <1>1
    <2>2. \A k \in 1..n : ss[k] = record(k)
      OBVIOUS
    <2> HIDE DEF ss
    <2>3. QED
      BY Zenon, <2>1, <2>2, SeqOfFunction
  <1>5. /\ off \in [0..n -> Nat] /\ off[0] = 0
        /\ \A k \in 1..n : off[k] = off[k - 1] + 6 /\ off[k - 1] = 6 * (k - 1)
    OBVIOUS
  <1>6. off[n] = 6 * n
    OBVIOUS
  <1> HIDE DEF ss, off
  <1>7. /\ flat \in Seq(Elements) /\ Len(flat) = 6 * n
        /\ \A k \in 1..n : Placed(flat, 6 * (k - 1), record(k))
    <2>1. \A k \in 1..Len(ss) : off[k] = off[k - 1] + Len(ss[k])
      BY Zenon, <1>1, <1>4, <1>5
    <2>2. off \in [0..Len(ss) -> Nat]
      BY <1>4, <1>5
    <2>3. /\ FlattenSeq(ss) \in Seq(Elements) /\ Len(FlattenSeq(ss)) = off[Len(ss)]
          /\ \A k \in 1..Len(ss) : Placed(FlattenSeq(ss), off[k - 1], ss[k])
      BY Zenon, <1>4, <1>5, <2>1, <2>2, FlattenPlaces
    <2> HIDE DEF flat
    <2>4. flat \in Seq(Elements) /\ Len(flat) = off[n]
          /\ \A k \in 1..n : Placed(flat, off[k - 1], ss[k])
      BY <1>4, <2>3 DEF flat
    <2>5. QED
      BY <1>4, <1>5, <1>6, <2>4
  <1> HIDE DEF flat
  <1>8. l \in Seq(Elements) /\ Len(l) = 1 + 6 * n /\ Placed(l, 0, head) /\ Placed(l, 1, flat)
    <2>1. /\ head \o flat \in Seq(Elements) /\ Len(head \o flat) = Len(head) + Len(flat)
          /\ Placed(head \o flat, 0, head) /\ Placed(head \o flat, Len(head), flat)
      BY Zenon, <1>3, <1>7, ConcatPlaces
    <2>2. QED
      BY <1>3, <1>7, <2>1
  <1>9. l = Table(depth, tag, item, tags, values)
    BY DEF Table, ListOf, flat, head, ss, record
  <1> HIDE DEF l
  <1>10. l[1] = head[1]
    <2>1. 1 \in 1..Len(head)
      BY <1>3
    <2>2. l[0 + 1] = head[1]
      BY <1>8, <2>1, PlacedAt
    <2>3. QED
      BY <2>2
  <1>11. ASSUME NEW k \in 1..n PROVE Holds(l, 6 * k - 4, depth + 1, item, tags, values[k])
    <2>1. PICK o \in Nat : o = 6 * (k - 1) /\ o + 1 \in Nat /\ o + 1 # 0 /\ 1 + (o + 1) = 6 * k - 4
                           /\ o + 6 <= 6 * n
      OBVIOUS
    <2>2. Placed(flat, o, record(k)) /\ flat \in Seq(Elements) /\ record(k) \in Seq(Elements)
          /\ 1 + Len(tags) <= Len(record(k))
      <3>1. Placed(flat, o, record(k))
        BY <1>7, <2>1
      <3>2. record(k) \in Seq(Elements) /\ Len(record(k)) = 6
        BY <1>1
      <3>3. 1 + Len(tags) <= Len(record(k))
        BY <3>2
      <3>4. QED
        BY <1>7, <3>1, <3>2, <3>3
    <2>3. Holds(record(k), 1, depth + 1, item, tags, values[k])
      BY <1>1
    <2>4. Holds(flat, o + 1, depth + 1, item, tags, values[k])
      <3>1. 1 \in Nat /\ 1 # 0
        OBVIOUS
      <3>2. QED
        BY Zenon, <2>1, <2>2, <2>3, <3>1, HoldsPlaced
    <2>5. PICK p \in Nat : p = o + 1 /\ p # 0 /\ 1 + p = 6 * k - 4 /\ p + Len(tags) <= Len(flat)
      BY SMTT(30), <1>7, <2>1
    <2>6. Holds(flat, p, depth + 1, item, tags, values[k])
      BY <2>4, <2>5
    <2>7. Holds(l, 1 + p, depth + 1, item, tags, values[k])
      BY Zenon, <1>7, <1>8, <2>5, <2>6, HoldsPlaced
    <2>8. QED
      BY Zenon, <2>5, <2>7
  <1>12. QED
    BY <1>3, <1>8, <1>9, <1>10, <1>11

LEMMA TagsKnown ==
  /\ DeviceTags \in Seq(ElementTags) /\ Len(DeviceTags) = 11
  /\ \A j \in 1..11 : DeviceTags[j] \in Attributes
  /\ IconTags \in Seq(ElementTags) /\ Len(IconTags) = 5
  /\ \A j \in 1..5 : IconTags[j] \in ToSet(IconTags)
  /\ ServiceTags \in Seq(ElementTags) /\ Len(ServiceTags) = 5
  /\ \A j \in 1..5 : ServiceTags[j] \in ToSet(ServiceTags)
  <1>1. DeviceTags \in Seq(ElementTags) /\ Len(DeviceTags) = 11
    <2>1. Len(DeviceTags) = 11 /\ DeviceTags = [i \in 1..11 |-> DeviceTags[i]]
      BY DEF DeviceTags
    <2>2. \A i \in 1..11 : DeviceTags[i] \in ElementTags
      BY DEF DeviceTags, ElementTags
    <2>3. QED
      BY <2>1, <2>2, SeqOfFunction
  <1>2. IconTags \in Seq(ElementTags) /\ Len(IconTags) = 5
    <2>1. Len(IconTags) = 5 /\ IconTags = [i \in 1..5 |-> IconTags[i]]
      BY DEF IconTags
    <2>2. \A i \in 1..5 : IconTags[i] \in ElementTags
      BY DEF IconTags, ElementTags
    <2>3. QED
      BY <2>1, <2>2, SeqOfFunction
  <1>3. ServiceTags \in Seq(ElementTags) /\ Len(ServiceTags) = 5
    <2>1. Len(ServiceTags) = 5 /\ ServiceTags = [i \in 1..5 |-> ServiceTags[i]]
      BY DEF ServiceTags
    <2>2. \A i \in 1..5 : ServiceTags[i] \in ElementTags
      BY DEF ServiceTags, ElementTags
    <2>3. QED
      BY <2>1, <2>2, SeqOfFunction
  <1>4. ASSUME NEW s \in Seq(ElementTags), NEW j \in 1..Len(s) PROVE s[j] \in ToSet(s)
    <2>1. DOMAIN s = 1..Len(s)
      BY LenProperties
    <2>2. QED
      BY <2>1 DEF ToSet
  <1>5. \A j \in 1..11 : DeviceTags[j] \in Attributes
    <2>1. \A j \in 1..11 : DeviceTags[j] \in ToSet(DeviceTags)
      BY Zenon, <1>1, <1>4
    <2>2. QED
      BY <2>1 DEF Attributes
  <1>6. \A j \in 1..5 : IconTags[j] \in ToSet(IconTags)
    BY Zenon, <1>2, <1>4
  <1>7. \A j \in 1..5 : ServiceTags[j] \in ToSet(ServiceTags)
    BY Zenon, <1>3, <1>4
  <1>8. QED
    BY <1>1, <1>2, <1>3, <1>5, <1>6, <1>7

(* A device as it can be written: with all its attributes.                 *)
Writable(d) ==
  /\ d.attrs \in [Attributes -> Text]
  /\ d.icons \in Seq(IconTexts)
  /\ d.services \in Seq(ServiceTexts)

DeviceHolds(doc, o, depth, d) ==
  /\ Holds(doc, o + 1, depth, "device", DeviceTags, d.attrs)
  /\ doc[o + 13] = Element(depth + 1, "iconList", << >>)
  /\ \A k \in 1..Len(d.icons) :
       Holds(doc, o + (8 + 6 * k), depth + 2, "icon", IconTags, d.icons[k])
  /\ doc[o + (14 + 6 * Len(d.icons))] = Element(depth + 1, "serviceList", << >>)
  /\ \A k \in 1..Len(d.services) :
       Holds(doc, o + (9 + 6 * Len(d.icons) + 6 * k), depth + 2, "service", ServiceTags,
             d.services[k])
  /\ doc[o + (15 + 6 * Len(d.icons) + 6 * Len(d.services))] =
       Element(depth + 1, "deviceList", << >>)
  /\ o + (15 + 6 * Len(d.icons) + 6 * Len(d.services)) <= Len(doc)

LEMMA ElementAt ==
  ASSUME NEW depth \in Nat, NEW tag \in ElementTags, NEW text \in Text
  PROVE  /\ << Element(depth, tag, text) >> \in Seq(Elements)
         /\ Len(<< Element(depth, tag, text) >>) = 1
         /\ << Element(depth, tag, text) >>[1] = Element(depth, tag, text)
  <1>1. Element(depth, tag, text) \in Elements
    BY DEF Element, Elements
  <1>2. QED
    BY <1>1, OneElement

LEMMA DeviceWritten ==
  ASSUME NEW d, Writable(d), NEW depth \in Nat, NEW embedded \in Seq(Seq(Elements))
  PROVE  LET l == deviceElements(d, depth, embedded)
         IN  l \in Seq(Elements) /\ DeviceHolds(l, 0, depth, d)
  <1> DEFINE ni == Len(d.icons)
             ns == Len(d.services)
             a == Record(depth, "device", DeviceTags, d.attrs)
             b == iconList(d, depth + 1)
             c == serviceList(d, depth + 1)
             head == << Element(depth + 1, "deviceList", << >>) >>
             flat == FlattenSeq(embedded)
             e == head \o flat
             f == << Element(depth + 1, "presentationURL", d.attrs["presentationURL"]) >>
  <1>1. ni \in Nat /\ ns \in Nat /\ depth + 1 \in Nat /\ depth + 2 = depth + 1 + 1
    BY LenProperties DEF Writable
  <1>2. /\ {"device", "iconList", "icon", "serviceList", "service", "deviceList",
            "presentationURL"} \subseteq ElementTags
        /\ << >> \in Text
    BY EmptySeq DEF ElementTags, Text
  <1>3. a \in Seq(Elements) /\ Len(a) = 12 /\ Holds(a, 1, depth, "device", DeviceTags, d.attrs)
    <2>1. \A j \in 1..Len(DeviceTags) : d.attrs[DeviceTags[j]] \in Text
      BY Zenon, TagsKnown DEF Writable
    <2>2. /\ a \in Seq(Elements) /\ Len(a) = 1 + Len(DeviceTags)
          /\ Holds(a, 1, depth, "device", DeviceTags, d.attrs)
      BY Zenon, <1>2, <2>1, TagsKnown, RecordWritten
    <2>3. QED
      BY <2>2, TagsKnown
  <1>4. /\ b \in Seq(Elements) /\ Len(b) = 1 + 6 * ni
        /\ b[1] = Element(depth + 1, "iconList", << >>)
        /\ \A k \in 1..ni : Holds(b, 6 * k - 4, depth + 2, "icon", IconTags, d.icons[k])
    <2>1. DOMAIN d.icons = 1..ni /\ \A k \in 1..ni : d.icons[k] \in IconTexts
      BY LenProperties, ElementOfSeq DEF Writable
    <2>2. \A k \in 1..ni : \A j \in 1..5 : d.icons[k][IconTags[j]] \in Text
      BY Zenon, <2>1, TagsKnown DEF IconTexts
    <2>3. LET l == ListOf(depth + 1, "iconList",
                             [i \in DOMAIN d.icons |->
                                Record(depth + 1 + 1, "icon", IconTags, d.icons[i])])
          IN  /\ l \in Seq(Elements) /\ Len(l) = 1 + 6 * ni
              /\ l[1] = Element(depth + 1, "iconList", << >>)
              /\ \A k \in 1..ni :
                   Holds(l, 6 * k - 4, depth + 1 + 1, "icon", IconTags, d.icons[k])
      <3> DEFINE values == d.icons
                 tags == IconTags
                 under == depth + 1
      <3>1. tags \in Seq(ElementTags) /\ Len(tags) = 5
        BY TagsKnown
      <3>2. "iconList" \in ElementTags /\ "icon" \in ElementTags /\ under \in Nat
        BY <1>1, <1>2
      <3>3. DOMAIN values = 1..ni /\ \A k \in 1..ni : \A j \in 1..5 : values[k][tags[j]] \in Text
        BY <2>1, <2>2
      <3> HIDE DEF ni, values, tags, under
      <3>4. LET l == Table(under, "iconList", "icon", tags, values)
            IN  /\ l \in Seq(Elements) /\ Len(l) = 1 + 6 * ni
                /\ l[1] = Element(under, "iconList", << >>)
                /\ \A k \in 1..ni :
                     Holds(l, 6 * k - 4, under + 1, "icon", tags, values[k])
        BY Zenon, <1>1, <3>1, <3>2, <3>3, TableWritten
      <3>5. QED
        BY <3>4 DEF Table, values, tags, under
    <2> HIDE DEF ni
    <2>4. QED
      BY <1>1, <2>3 DEF iconList
  <1>5. /\ c \in Seq(Elements) /\ Len(c) = 1 + 6 * ns
        /\ c[1] = Element(depth + 1, "serviceList", << >>)
        /\ \A k \in 1..ns :
             Holds(c, 6 * k - 4, depth + 2, "service", ServiceTags, d.services[k])
    <2>1. DOMAIN d.services = 1..ns /\ \A k \in 1..ns : d.services[k] \in ServiceTexts
      BY LenProperties, ElementOfSeq DEF Writable
    <2>2. \A k \in 1..ns : \A j \in 1..5 : d.services[k][ServiceTags[j]] \in Text
      BY Zenon, <2>1, TagsKnown DEF ServiceTexts
    <2>3. LET l == ListOf(depth + 1, "serviceList",
                             [i \in DOMAIN d.services |->
                                Record(depth + 1 + 1, "service", ServiceTags, d.services[i])])
          IN  /\ l \in Seq(Elements) /\ Len(l) = 1 + 6 * ns
              /\ l[1] = Element(depth + 1, "serviceList", << >>)
              /\ \A k \in 1..ns :
                   Holds(l, 6 * k - 4, depth + 1 + 1, "service", ServiceTags, d.services[k])
      <3> DEFINE values == d.services
                 tags == ServiceTags
                 under == depth + 1
      <3>1. tags \in Seq(ElementTags) /\ Len(tags) = 5
        BY TagsKnown
      <3>2. "serviceList" \in ElementTags /\ "service" \in ElementTags /\ under \in Nat
        BY <1>1, <1>2
      <3>3. DOMAIN values = 1..ns /\ \A k \in 1..ns : \A j \in 1..5 : values[k][tags[j]] \in Text
        BY <2>1, <2>2
      <3> HIDE DEF ns, values, tags, under
      <3>4. LET l == Table(under, "serviceList", "service", tags, values)
            IN  /\ l \in Seq(Elements) /\ Len(l) = 1 + 6 * ns
                /\ l[1] = Element(under, "serviceList", << >>)
                /\ \A k \in 1..ns :
                     Holds(l, 6 * k - 4, under + 1, "service", tags, values[k])
        BY Zenon, <1>1, <3>1, <3>2, <3>3, TableWritten
      <3>5. QED
        BY <3>4 DEF Table, values, tags, under
    <2> HIDE DEF ns
    <2>4. QED
      BY <1>1, <2>3 DEF serviceList
  <1>6. head \in Seq(Elements) /\ Len(head) = 1
        /\ head[1] = Element(depth + 1, "deviceList", << >>)
    BY <1>1, <1>2, ElementAt
  <1>7. f \in Seq(Elements)
    <2>1. d.attrs["presentationURL"] \in Text
      BY DEF Writable, Attributes
    <2>2. QED
      BY <1>1, <1>2, <2>1, ElementAt
  <1>8. flat \in Seq(Elements)
    BY FlattenKeeps
  <1> DEFINE ab == a \o b
             abc == ab \o c
             abce == abc \o e
             l == abce \o f
  <1>9. l = deviceElements(d, depth, embedded)
    BY Zenon DEF deviceElements, ListOf
  <1> HIDE DEF a, b, c, head, flat, f, ni, ns
  <1>10. e \in Seq(Elements) /\ Len(e) >= 1 /\ e[1] = Element(depth + 1, "deviceList", << >>)
    <2>1. /\ e \in Seq(Elements) /\ Len(e) = Len(head) + Len(flat) /\ Placed(e, 0, head)
      BY Zenon, <1>6, <1>8, ConcatPlaces
    <2>2. Len(flat) \in Nat
      BY <1>8, LenProperties
    <2>3. 1 \in 1..Len(head)
      BY <1>6
    <2>4. e[0 + 1] = head[1]
      BY <2>1, <2>3, PlacedAt
    <2> HIDE DEF e
    <2>5. QED
      BY <1>6, <2>1, <2>2, <2>4
  <1> HIDE DEF e
  <1>11. /\ ab \in Seq(Elements) /\ Len(ab) = 13 + 6 * ni
         /\ Placed(ab, 0, a) /\ Placed(ab, 12, b)
    <2>1. /\ ab \in Seq(Elements) /\ Len(ab) = Len(a) + Len(b)
          /\ Placed(ab, 0, a) /\ Placed(ab, Len(a), b)
      BY Zenon, <1>3, <1>4, ConcatPlaces
    <2> HIDE DEF ab
    <2>2. QED
      BY <1>1, <1>3, <1>4, <2>1
  <1> HIDE DEF ab
  <1>12. /\ abc \in Seq(Elements) /\ Len(abc) = 14 + 6 * ni + 6 * ns
         /\ Placed(abc, 0, ab) /\ Placed(abc, 13 + 6 * ni, c)
    <2>1. /\ abc \in Seq(Elements) /\ Len(abc) = Len(ab) + Len(c)
          /\ Placed(abc, 0, ab) /\ Placed(abc, Len(ab), c)
      BY Zenon, <1>5, <1>11, ConcatPlaces
    <2> HIDE DEF abc
    <2>2. QED
      BY <1>1, <1>5, <1>11, <2>1
  <1> HIDE DEF abc
  <1>13. /\ abce \in Seq(Elements) /\ Len(abce) = 14 + 6 * ni + 6 * ns + Len(e)
         /\ Placed(abce, 0, abc) /\ Placed(abce, 14 + 6 * ni + 6 * ns, e)
    <2>1. /\ abce \in Seq(Elements) /\ Len(abce) = Len(abc) + Len(e)
          /\ Placed(abce, 0, abc) /\ Placed(abce, Len(abc), e)
      BY Zenon, <1>10, <1>12, ConcatPlaces
    <2> HIDE DEF abce
    <2>2. QED
      BY <1>12, <2>1
  <1> HIDE DEF abce
  <1>14. /\ l \in Seq(Elements) /\ Len(l) = Len(abce) + Len(f) /\ Placed(l, 0, abce)
    BY Zenon, <1>7, <1>13, ConcatPlaces
  <1> HIDE DEF l
  <1>15. Len(f) \in Nat /\ Len(e) \in Nat /\ 0 \in Nat
    BY <1>7, <1>10, LenProperties
  <1>16. Placed(l, 0, abc) /\ Placed(l, 14 + 6 * ni + 6 * ns, e)
    <2>1. 14 + 6 * ni + 6 * ns \in Nat /\ 0 + 0 = 0
          /\ 0 + (14 + 6 * ni + 6 * ns) = 14 + 6 * ni + 6 * ns
      BY <1>1
    <2>2. Placed(l, 0 + 0, abc)
      BY Zenon, <1>12, <1>13, <1>14, <1>15, PlacedInside
    <2>3. Placed(l, 0 + (14 + 6 * ni + 6 * ns), e)
      BY Zenon, <1>10, <1>13, <1>14, <1>15, <2>1, PlacedInside
    <2>4. QED
      BY <2>1, <2>2, <2>3
  <1>17. Placed(l, 0, ab) /\ Placed(l, 13 + 6 * ni, c)
    <2>1. 13 + 6 * ni \in Nat /\ 0 + 0 = 0 /\ 0 + (13 + 6 * ni) = 13 + 6 * ni
      BY <1>1
    <2>2. Placed(l, 0 + 0, ab)
      BY Zenon, <1>11, <1>12, <1>14, <1>15, <1>16, PlacedInside
    <2>3. Placed(l, 0 + (13 + 6 * ni), c)
      BY <1>5, <1>12, <1>14, <1>15, <1>16, <2>1, PlacedInside
    <2>4. QED
      BY <2>1, <2>2, <2>3
  <1>18. Placed(l, 0, a) /\ Placed(l, 12, b)
    <2>1. 12 \in Nat /\ 0 + 0 = 0 /\ 0 + 12 = 12
      OBVIOUS
    <2>2. Placed(l, 0 + 0, a)
      BY Zenon, <1>3, <1>11, <1>14, <1>15, <1>17, PlacedInside
    <2>3. Placed(l, 0 + 12, b)
      BY Zenon, <1>4, <1>11, <1>14, <1>15, <1>17, <2>1, PlacedInside
    <2>4. QED
      BY <2>1, <2>2, <2>3
  <1>19. Holds(l, 0 + 1, depth, "device", DeviceTags, d.attrs)
    <2>1. 1 \in Nat /\ 1 # 0 /\ 1 + Len(DeviceTags) <= Len(a)
      BY <1>3, TagsKnown
    <2>2. QED
      BY Zenon, <1>3, <1>14, <1>15, <1>18, <2>1, TagsKnown, HoldsPlaced
  <1>20. l[0 + 13] = Element(depth + 1, "iconList", << >>)
    <2>1. 1 \in 1..Len(b) /\ 12 + 1 = 0 + 13
      BY <1>1, <1>4
    <2>2. l[12 + 1] = b[1]
      BY <1>18, <2>1, PlacedAt
    <2>3. QED
      BY <1>4, <2>1, <2>2
  <1>21. ASSUME NEW k \in 1..ni
         PROVE  Holds(l, 0 + (8 + 6 * k), depth + 2, "icon", IconTags, d.icons[k])
    <2>1. PICK p \in Nat : p = 6 * k - 4 /\ p # 0 /\ p + 5 <= Len(b) /\ 12 + p = 0 + (8 + 6 * k)
      BY <1>1, <1>4
    <2>2. Holds(b, p, depth + 2, "icon", IconTags, d.icons[k])
      BY <1>4, <2>1
    <2>3. p + Len(IconTags) <= Len(b) /\ 12 \in Nat
      BY <2>1, TagsKnown
    <2>4. Holds(l, 12 + p, depth + 2, "icon", IconTags, d.icons[k])
      BY Zenon, <1>4, <1>14, <1>18, <2>1, <2>2, <2>3, TagsKnown, HoldsPlaced
    <2>5. QED
      BY <2>1, <2>4
  <1>22. l[0 + (14 + 6 * ni)] = Element(depth + 1, "serviceList", << >>)
    <2>1. 1 \in 1..Len(c) /\ 13 + 6 * ni + 1 = 0 + (14 + 6 * ni)
      BY <1>1, <1>5
    <2>2. l[13 + 6 * ni + 1] = c[1]
      BY <1>17, <2>1, PlacedAt
    <2>3. QED
      BY <1>5, <2>1, <2>2
  <1>23. ASSUME NEW k \in 1..ns
         PROVE  Holds(l, 0 + (9 + 6 * ni + 6 * k), depth + 2, "service", ServiceTags,
                      d.services[k])
    <2>1. PICK p \in Nat : p = 6 * k - 4 /\ p # 0 /\ p + 5 <= Len(c)
                           /\ 13 + 6 * ni + p = 0 + (9 + 6 * ni + 6 * k)
      BY <1>1, <1>5
    <2>2. Holds(c, p, depth + 2, "service", ServiceTags, d.services[k])
      BY <1>5, <2>1
    <2>3. p + Len(ServiceTags) <= Len(c) /\ 13 + 6 * ni \in Nat
      BY <1>1, <2>1, TagsKnown
    <2>4. Holds(l, 13 + 6 * ni + p, depth + 2, "service", ServiceTags, d.services[k])
      BY Zenon, <1>5, <1>14, <1>17, <2>1, <2>2, <2>3, TagsKnown, HoldsPlaced
    <2>5. QED
      BY <2>1, <2>4
  <1>24. l[0 + (15 + 6 * ni + 6 * ns)] = Element(depth + 1, "deviceList", << >>)
    <2>1. 1 \in 1..Len(e) /\ 14 + 6 * ni + 6 * ns + 1 = 0 + (15 + 6 * ni + 6 * ns)
      BY <1>1, <1>10, <1>15
    <2>2. l[14 + 6 * ni + 6 * ns + 1] = e[1]
      BY <1>16, <2>1, PlacedAt
    <2>3. QED
      BY <1>10, <2>1, <2>2
  <1>25. 0 + (15 + 6 * ni + 6 * ns) <= Len(l)
    BY <1>1, <1>10, <1>13, <1>14, <1>15
  <1>26. DeviceHolds(l, 0, depth, d)
    BY Zenon, <1>19, <1>20, <1>21, <1>22, <1>23, <1>24, <1>25 DEF DeviceHolds, ni, ns
  <1>27. QED
    BY <1>9, <1>14, <1>26

LEMMA DevicePlaced ==
  ASSUME NEW doc \in Seq(Elements), NEW r \in Seq(Elements), NEW o \in Nat, Placed(doc, o, r),
         NEW d, Writable(d), NEW depth \in Nat, DeviceHolds(r, 0, depth, d)
  PROVE  DeviceHolds(doc, o, depth, d)
  <1> DEFINE ni == Len(d.icons)
             ns == Len(d.services)
  <1>1. ni \in Nat /\ ns \in Nat /\ Len(r) \in Nat /\ Len(doc) \in Nat
    BY LenProperties DEF Writable
  <1>2. /\ Holds(r, 0 + 1, depth, "device", DeviceTags, d.attrs)
        /\ r[0 + 13] = Element(depth + 1, "iconList", << >>)
        /\ \A k \in 1..ni : Holds(r, 0 + (8 + 6 * k), depth + 2, "icon", IconTags, d.icons[k])
        /\ r[0 + (14 + 6 * ni)] = Element(depth + 1, "serviceList", << >>)
        /\ \A k \in 1..ns :
             Holds(r, 0 + (9 + 6 * ni + 6 * k), depth + 2, "service", ServiceTags,
                   d.services[k])
        /\ r[0 + (15 + 6 * ni + 6 * ns)] = Element(depth + 1, "deviceList", << >>)
        /\ 0 + (15 + 6 * ni + 6 * ns) <= Len(r)
    BY Zenon DEF DeviceHolds
  <1>3. o + Len(r) <= Len(doc)
    BY DEF Placed
  <1> HIDE DEF ni, ns
  <1>4. Holds(doc, o + 1, depth, "device", DeviceTags, d.attrs)
    <2>1. 1 \in Nat /\ 1 # 0 /\ 1 + Len(DeviceTags) <= Len(r) /\ 0 + 1 = 1
      BY <1>1, <1>2, TagsKnown
    <2>2. Holds(r, 1, depth, "device", DeviceTags, d.attrs)
      BY <1>2, <2>1
    <2>3. QED
      BY Zenon, <2>1, <2>2, TagsKnown, HoldsPlaced
  <1>5. doc[o + 13] = Element(depth + 1, "iconList", << >>)
    <2>1. 13 \in 1..Len(r) /\ 0 + 13 = 13
      BY <1>1, <1>2
    <2>2. doc[o + 13] = r[13]
      BY <2>1, PlacedAt
    <2>3. QED
      BY <1>2, <2>1, <2>2
  <1>6. ASSUME NEW k \in 1..ni
        PROVE  Holds(doc, o + (8 + 6 * k), depth + 2, "icon", IconTags, d.icons[k])
    <2>1. PICK p \in Nat : p = 8 + 6 * k /\ p = 0 + (8 + 6 * k) /\ p # 0 /\ p + 5 <= Len(r)
      BY <1>1, <1>2
    <2>2. Holds(r, p, depth + 2, "icon", IconTags, d.icons[k]) /\ p + Len(IconTags) <= Len(r)
      BY <1>2, <2>1, TagsKnown
    <2>3. Holds(doc, o + p, depth + 2, "icon", IconTags, d.icons[k])
      BY Zenon, <2>1, <2>2, TagsKnown, HoldsPlaced
    <2>4. QED
      BY <2>1, <2>3
  <1>7. doc[o + (14 + 6 * ni)] = Element(depth + 1, "serviceList", << >>)
    <2>1. PICK p \in 1..Len(r) : p = 14 + 6 * ni /\ p = 0 + (14 + 6 * ni)
      BY SMTT(30), <1>1, <1>2
    <2>2. doc[o + p] = r[p]
      BY <2>1, PlacedAt
    <2>3. QED
      BY <1>2, <2>1, <2>2
  <1>8. ASSUME NEW k \in 1..ns
        PROVE  Holds(doc, o + (9 + 6 * ni + 6 * k), depth + 2, "service", ServiceTags,
                     d.services[k])
    <2>1. PICK p \in Nat : p = 9 + 6 * ni + 6 * k /\ p = 0 + (9 + 6 * ni + 6 * k) /\ p # 0
                           /\ p + 5 <= Len(r)
      BY <1>1, <1>2
    <2>2. Holds(r, p, depth + 2, "service", ServiceTags, d.services[k])
          /\ p + Len(ServiceTags) <= Len(r)
      BY <1>2, <2>1, TagsKnown
    <2>3. Holds(doc, o + p, depth + 2, "service", ServiceTags, d.services[k])
      BY Zenon, <2>1, <2>2, TagsKnown, HoldsPlaced
    <2>4. QED
      BY <2>1, <2>3
  <1>9. doc[o + (15 + 6 * ni + 6 * ns)] = Element(depth + 1, "deviceList", << >>)
    <2>1. PICK p \in 1..Len(r) : p = 15 + 6 * ni + 6 * ns /\ p = 0 + (15 + 6 * ni + 6 * ns)
      BY SMTT(30), <1>1, <1>2
    <2>2. doc[o + p] = r[p]
      BY <2>1, PlacedAt
    <2>3. QED
      BY <1>2, <2>1, <2>2
  <1>10. o + (15 + 6 * ni + 6 * ns) <= Len(doc)
    BY <1>1, <1>2, <1>3
  <1>11. QED
    BY Zenon, <1>4, <1>5, <1>6, <1>7, <1>8, <1>9, <1>10 DEF DeviceHolds, ni, ns

Complete(d) ==
  /\ Writable(d)
  /\ Len(d.devices) \in Nat /\ DOMAIN d.devices = 1..Len(d.devices)
  /\ \A i \in 1..Len(d.devices) : Writable(d.devices[i])

Version == << "major", "minor" >>
DocumentHolds(doc, d) ==
  /\ doc \in Seq(Elements)
  /\ doc[1] = Element(0, "root", << >>)
  /\ Holds(doc, 2, 1, "specVersion", Version, d.attrs)
  /\ doc[5] = Element(1, "URLBase", urlBase)
  /\ DeviceHolds(doc, 5, 1, d)

LEMMA VersionKnown ==
  /\ Version \in Seq(ElementTags) /\ Len(Version) = 2
  /\ Version[1] = "major" /\ Version[2] = "minor"
  <1>1. Len(Version) = 2 /\ Version = [i \in 1..2 |-> Version[i]]
        /\ Version[1] = "major" /\ Version[2] = "minor"
    BY DEF Version
  <1>2. \A i \in 1..2 : Version[i] \in ElementTags
    BY DEF Version, ElementTags
  <1>3. QED
    BY <1>1, <1>2, SeqOfFunction

LEMMA DocumentWritten ==
  ASSUME NEW d, Complete(d), urlBase \in Text
  PROVE  DocumentHolds(xmlGenerator(d), d)
  <1> DEFINE inner == [i \in DOMAIN d.devices |-> deviceElements(d.devices[i], 3, << >>)]
             a == << Element(0, "root", << >>) >>
             b == Record(1, "specVersion", Version, d.attrs)
             c == << Element(1, "URLBase", urlBase) >>
             e == writeDevice(d, 1)
  <1>1. Writable(d)
    BY DEF Complete
  <1>2. inner \in Seq(Seq(Elements))
    <2>1. ASSUME NEW i \in 1..Len(d.devices)
          PROVE  deviceElements(d.devices[i], 3, << >>) \in Seq(Elements)
      <3>1. Writable(d.devices[i])
        BY DEF Complete
      <3>2. << >> \in Seq(Seq(Elements)) /\ 3 \in Nat
        BY EmptySeq
      <3>3. QED
        BY Zenon, <3>1, <3>2, DeviceWritten
    <2>2. inner \in [1..Len(d.devices) -> Seq(Elements)] /\ Len(d.devices) \in Nat
      BY <2>1 DEF Complete
    <2> HIDE DEF inner
    <2>3. QED
      BY Zenon, <2>2, SeqOfFunction
  <1>3. e \in Seq(Elements) /\ DeviceHolds(e, 0, 1, d)
    <2>1. e = deviceElements(d, 1, inner)
      BY DEF writeDevice
    <2> HIDE DEF inner, e
    <2>2. 1 \in Nat
      OBVIOUS
    <2>3. QED
      BY <1>1, <1>2, <2>1, <2>2, DeviceWritten
  <1>4. {"root", "specVersion", "URLBase"} \subseteq ElementTags /\ << >> \in Text
        /\ 0 \in Nat /\ 1 \in Nat
    BY EmptySeq DEF ElementTags, Text
  <1>5. a \in Seq(Elements) /\ Len(a) = 1 /\ a[1] = Element(0, "root", << >>)
    BY <1>4, ElementAt
  <1>6. c \in Seq(Elements) /\ Len(c) = 1 /\ c[1] = Element(1, "URLBase", urlBase)
    BY <1>4, ElementAt
  <1>7. b \in Seq(Elements) /\ Len(b) = 3 /\ Holds(b, 1, 1, "specVersion", Version, d.attrs)
    <2>1. d.attrs["major"] \in Text /\ d.attrs["minor"] \in Text
      BY <1>1 DEF Writable, Attributes
    <2>2. \A j \in 1..Len(Version) : d.attrs[Version[j]] \in Text
      <3>1. \A j \in 1..Len(Version) : j = 1 \/ j = 2
        BY VersionKnown
      <3>2. QED
        BY <2>1, <3>1, VersionKnown
    <2>3. /\ b \in Seq(Elements) /\ Len(b) = 1 + Len(Version)
          /\ Holds(b, 1, 1, "specVersion", Version, d.attrs)
      BY Zenon, <1>4, <2>2, VersionKnown, RecordWritten
    <2>4. QED
      BY <2>3, VersionKnown
  <1> DEFINE ab == a \o b
             abc == ab \o c
             l == abc \o e
  <1>8. l = xmlGenerator(d)
    BY DEF xmlGenerator, Version
  <1> HIDE DEF a, b, c, e
  <1>9. ab \in Seq(Elements) /\ Len(ab) = 4 /\ Placed(ab, 0, a) /\ Placed(ab, 1, b)
    <2>1. /\ ab \in Seq(Elements) /\ Len(ab) = Len(a) + Len(b)
          /\ Placed(ab, 0, a) /\ Placed(ab, Len(a), b)
      BY Zenon, <1>5, <1>7, ConcatPlaces
    <2> HIDE DEF ab
    <2>2. QED
      BY <1>5, <1>7, <2>1
  <1> HIDE DEF ab
  <1>10. abc \in Seq(Elements) /\ Len(abc) = 5 /\ Placed(abc, 0, ab) /\ Placed(abc, 4, c)
    <2>1. /\ abc \in Seq(Elements) /\ Len(abc) = Len(ab) + Len(c)
          /\ Placed(abc, 0, ab) /\ Placed(abc, Len(ab), c)
      BY Zenon, <1>6, <1>9, ConcatPlaces
    <2> HIDE DEF abc
    <2>2. QED
      BY <1>6, <1>9, <2>1
  <1> HIDE DEF abc
  <1>11. l \in Seq(Elements) /\ Placed(l, 0, abc) /\ Placed(l, 5, e)
    <2>1. l \in Seq(Elements) /\ Placed(l, 0, abc) /\ Placed(l, Len(abc), e)
      BY Zenon, <1>3, <1>10, ConcatPlaces
    <2> HIDE DEF l
    <2>2. QED
      BY <1>10, <2>1
  <1> HIDE DEF l
  <1>12. Placed(l, 0, ab) /\ Placed(l, 4, c)
    <2>1. 4 \in Nat /\ 0 + 0 = 0 /\ 0 + 4 = 4
      OBVIOUS
    <2>2. Placed(l, 0 + 0, ab)
      BY <1>4, <1>9, <1>10, <1>11, PlacedInside
    <2>3. Placed(l, 0 + 4, c)
      BY <1>4, <1>6, <1>10, <1>11, <2>1, PlacedInside
    <2>4. QED
      BY <2>1, <2>2, <2>3
  <1>13. Placed(l, 0, a) /\ Placed(l, 1, b)
    <2>1. 0 + 0 = 0 /\ 0 + 1 = 1
      OBVIOUS
    <2>2. Placed(l, 0 + 0, a)
      BY <1>4, <1>5, <1>9, <1>11, <1>12, PlacedInside
    <2>3. Placed(l, 0 + 1, b)
      BY <1>4, <1>7, <1>9, <1>11, <1>12, PlacedInside
    <2>4. QED
      BY <2>1, <2>2, <2>3
  <1>14. l[1] = Element(0, "root", << >>)
    <2>1. 1 \in 1..Len(a) /\ 0 + 1 = 1
      BY <1>5
    <2>2. l[0 + 1] = a[1]
      BY <1>13, <2>1, PlacedAt
    <2>3. QED
      BY <1>5, <2>1, <2>2
  <1>15. l[5] = Element(1, "URLBase", urlBase)
    <2>1. 1 \in 1..Len(c) /\ 4 + 1 = 5
      BY <1>6
    <2>2. l[4 + 1] = c[1]
      BY <1>12, <2>1, PlacedAt
    <2>3. QED
      BY <1>6, <2>1, <2>2
  <1>16. Holds(l, 2, 1, "specVersion", Version, d.attrs)
    <2>1. 1 # 0 /\ 1 + Len(Version) <= Len(b) /\ 1 + 1 = 2
      BY <1>7, VersionKnown
    <2>2. Holds(l, 1 + 1, 1, "specVersion", Version, d.attrs)
      BY Zenon, <1>4, <1>7, <1>11, <1>13, <2>1, VersionKnown, HoldsPlaced
    <2>3. QED
      BY <2>1, <2>2
  <1>17. DeviceHolds(l, 5, 1, d)
    <2>1. 5 \in Nat
      OBVIOUS
    <2>2. QED
      BY <1>1, <1>3, <1>4, <1>11, <2>1, DevicePlaced
  <1>18. QED
    BY <1>8, <1>11, <1>14, <1>15, <1>16, <1>17 DEF DocumentHolds

(* What is read again (parseDevice).  A field is that of the record, as    *)
(* its element is the first with the tag below the record's.               *)
LEMMA ElementHas ==
  ASSUME NEW depth, NEW tag, NEW text
  PROVE  /\ Element(depth, tag, text).depth = depth
         /\ Element(depth, tag, text).tag = tag
         /\ Element(depth, tag, text).text = text
  BY DEF Element

LEMMA FieldRead ==
  ASSUME NEW doc \in Seq(Elements), NEW p \in Nat, p # 0, NEW depth \in Nat, NEW tag,
         NEW tags \in Seq(ElementTags), NEW values, Holds(doc, p, depth, tag, tags, values),
         p + Len(tags) <= Len(doc), NEW i \in 1..Len(tags)
  PROVE  textAt(doc, p, tags[i]) = values[tags[i]]
  <1> DEFINE S == {j \in 1..Len(tags) : tags[j] = tags[i]}
  <1>1. Len(tags) \in Nat /\ Len(doc) \in Nat
    BY LenProperties
  <1>2. PICK f \in S : \A j \in S : f <= j
    <2>1. S \subseteq Nat /\ i \in S
      BY <1>1
    <2> HIDE DEF S
    <2>2. QED
      BY Zenon, <2>1, LeastOfSet
  <1>3. /\ f \in 1..Len(tags) /\ tags[f] = tags[i]
        /\ \A j \in 1..Len(tags) : j < f => tags[j] # tags[i]
    BY <1>1, <1>2
  <1>4. doc[p].depth = depth
    BY ElementHas DEF Holds
  <1>5. ASSUME NEW j \in 1..Len(tags)
        PROVE  doc[p + j].depth = depth + 1 /\ doc[p + j].tag = tags[j]
               /\ doc[p + j].text = values[tags[j]]
    <2>1. doc[p + j] = Element(depth + 1, tags[j], values[tags[j]])
      BY Zenon DEF Holds
    <2>2. QED
      BY <2>1, ElementHas
  <1>6. ASSUME NEW k \in p + 1..p + f
        PROVE  doc[k].depth > doc[p].depth /\ (k # p + f => doc[k].tag # tags[i])
    <2>1. PICK j \in 1..Len(tags) : k = p + j /\ (k # p + f => j < f)
      <3>1. k - p \in 1..Len(tags) /\ k = p + (k - p) /\ (k # p + f => k - p < f)
        BY <1>1, <1>3
      <3>2. QED
        BY <3>1
    <2>2. doc[k].depth = depth + 1 /\ doc[k].tag = tags[j]
      BY <1>5, <2>1
    <2>3. QED
      BY <1>3, <1>4, <2>1, <2>2
  <1>7. PICK m \in Nat : /\ m = p + f /\ p < m /\ p \in 1..Len(doc) /\ m \in p..Len(doc)
                         /\ \A k \in p + 1..m - 1 : k \in p + 1..m /\ k # m
    BY <1>1, <1>3
  <1>8. Below(doc, p, m)
    BY <1>6, <1>7 DEF Below
  <1>9. doc[m].tag = tags[i] /\ \A k \in p + 1..m - 1 : doc[k].tag # tags[i]
    BY <1>3, <1>5, <1>6, <1>7
  <1> HIDE DEF S
  <1>10. textAt(doc, p, tags[i]) = doc[m].text
    <2>1. FirstWith(doc, p, m, tags[i])
      BY <1>7, <1>9 DEF FirstWith
    <2>2. QED
      BY <1>8, <2>1, FirstBelow
  <1>11. QED
    BY <1>3, <1>5, <1>7, <1>10

LEMMA BlockOf ==
  ASSUME NEW n \in Nat, NEW p \in 1..6 * n
  PROVE  \E k \in 1..n : \E j \in 0..5 : p = 6 * k - 5 + j
  <1> DEFINE q == (p - 1) \div 6
             r == (p - 1) % 6
  <1>1. q \in Int /\ r \in 0..5 /\ p - 1 = 6 * q + r
    OBVIOUS
  <1> HIDE DEF q, r
  <1>2. q + 1 \in 1..n /\ p = 6 * (q + 1) - 5 + r
    BY <1>1
  <1>3. QED
    BY Zenon, <1>1, <1>2

Places(o, n) == [k \in 1..n |-> o - 5 + 6 * k]

TableAt(doc, o, n, depth, item, tags, values) ==
  /\ o # 0 /\ doc[o].depth = depth
  /\ \A j \in 1..5 : tags[j] # item
  /\ \A k \in 1..n : Holds(doc, o - 5 + 6 * k, depth + 1, item, tags, values[k])
  /\ o + 6 * n + 1 <= Len(doc) /\ doc[o + 6 * n + 1].depth = depth
InTable(doc, o, n, depth, item, tags) ==
  \A p \in o + 1..o + 6 * n :
    doc[p].depth > depth /\ (doc[p].tag = item \/ \E j \in 1..5 : doc[p].tag = tags[j])

LEMMA TableRead ==
  ASSUME NEW doc \in Seq(Elements), NEW o \in Nat, NEW n \in Nat, NEW depth \in Nat,
         NEW item, NEW tags \in Seq(ElementTags), Len(tags) = 5, NEW values,
         TableAt(doc, o, n, depth, item, tags, values)
  PROVE  /\ elementsByTagName(doc, o, item) = Places(o, n)
         /\ InTable(doc, o, n, depth, item, tags)
  <1> DEFINE t == Places(o, n)
             last == o + 6 * n
  <1>0. /\ o # 0 /\ doc[o].depth = depth
        /\ \A j \in 1..5 : tags[j] # item
        /\ \A k \in 1..n : Holds(doc, o - 5 + 6 * k, depth + 1, item, tags, values[k])
        /\ o + 6 * n + 1 <= Len(doc) /\ doc[o + 6 * n + 1].depth = depth
    BY DEF TableAt
  <1>1. Len(doc) \in Nat /\ last \in Nat /\ o <= last /\ last + 1 <= Len(doc)
    BY <1>0, LenProperties
  <1>2. doc[o].depth = depth
    BY <1>0
  <1>3. ASSUME NEW k \in 1..n
        PROVE  /\ t[k] = o - 5 + 6 * k /\ t[k] \in o + 1..last
               /\ doc[t[k]].tag = item /\ doc[t[k]].depth = depth + 1
               /\ \A j \in 1..5 : doc[t[k] + j].tag = tags[j] /\ doc[t[k] + j].depth = depth + 2
    <2>1. t[k] = o - 5 + 6 * k /\ t[k] \in o + 1..last
      BY DEF Places
    <2> HIDE DEF t
    <2>2. Holds(doc, t[k], depth + 1, item, tags, values[k])
      <3>1. PICK s \in Int : s = o - 5 + 6 * k
        OBVIOUS
      <3>2. Holds(doc, s, depth + 1, item, tags, values[k])
        BY <1>0, <3>1
      <3>3. QED
        BY <2>1, <3>1, <3>2
    <2>3. doc[t[k]].tag = item /\ doc[t[k]].depth = depth + 1
      <3>1. doc[t[k]] = Element(depth + 1, item, << >>)
        BY <2>2 DEF Holds
      <3>2. QED
        BY <3>1, ElementHas
    <2>4. ASSUME NEW j \in 1..5
          PROVE  doc[t[k] + j].tag = tags[j] /\ doc[t[k] + j].depth = depth + 2
      <3>1. doc[t[k] + j] = Element(depth + 1 + 1, tags[j], values[k][tags[j]])
        BY Zenon, <2>2 DEF Holds
      <3>2. QED
        BY <3>1, ElementHas
    <2>5. QED
      BY <2>1, <2>3, <2>4
  <1>4. ASSUME NEW p \in o + 1..last
        PROVE  \E k \in 1..n : \/ p = t[k]
                               \/ \E j \in 1..5 : p = t[k] + j
    <2>1. p - o \in 1..6 * n
      BY <1>1
    <2>2. PICK k \in 1..n, j \in 0..5 : p - o = 6 * k - 5 + j
      BY Zenon, <2>1, BlockOf
    <2>3. t[k] = o - 5 + 6 * k
      BY <1>3
    <2> HIDE DEF t
    <2>4. PICK s \in Int : s = t[k] /\ s = o - 5 + 6 * k
      BY <2>3
    <2>5. p = s + j
      BY <2>2, <2>4
    <2>6. p = s \/ j \in 1..5
      BY <2>5
    <2>7. QED
      BY Zenon, <2>4, <2>5, <2>6
  <1>5. ASSUME NEW p \in o + 1..last
        PROVE  /\ doc[p].depth > depth
               /\ doc[p].tag = item \/ \E j \in 1..5 : doc[p].tag = tags[j]
               /\ doc[p].tag = item => \E k \in 1..n : p = t[k]
    <2> HIDE DEF t
    <2>1. PICK k \in 1..n : p = t[k] \/ \E j \in 1..5 : p = t[k] + j
      BY <1>4
    <2>2. CASE p = t[k]
      <3>1. doc[p].tag = item /\ doc[p].depth = depth + 1
        BY <1>3, <2>2
      <3>2. doc[p].depth > depth
        BY <3>1
      <3>3. QED
        BY <2>2, <3>1, <3>2
    <2>3. CASE \E j \in 1..5 : p = t[k] + j
      <3>1. PICK j \in 1..5 : p = t[k] + j
        BY Zenon, <2>3
      <3>2. doc[p].tag = tags[j] /\ doc[p].depth = depth + 2
        BY Zenon, <1>3, <3>1
      <3>3. doc[p].tag # item
        BY <1>0, <3>2
      <3>4. doc[p].depth > depth
        BY <1>0, <3>2
      <3>5. QED
        BY Zenon, <3>2, <3>3, <3>4
    <2>4. QED
      BY <2>1, <2>2, <2>3
  <1>6. Increasing(t, n)
    BY DEF Increasing, Places
  <1> HIDE DEF t, last
  <1>7. Below(doc, o, last)
    <2>1. o \in 1..Len(doc) /\ last \in o..Len(doc)
      BY <1>0, <1>1
    <2>2. \A k \in o + 1..last : doc[k].depth > doc[o].depth
      BY <1>2, <1>5
    <2>3. QED
      BY <2>1, <2>2 DEF Below
  <1>8. last < Len(doc) => doc[last + 1].depth <= doc[o].depth
    BY <1>0, <1>2 DEF last
  <1>9. \A q \in 1..n : t[q] \in o + 1..last /\ doc[t[q]].tag = item
    BY <1>3
  <1>10. elementsByTagName(doc, o, item) = t
    <2>1. \A k \in o + 1..last : doc[k].tag = item => \E q \in 1..n : k = t[q]
      BY Zenon, <1>5
    <2>2. PlacesOf(t, n, doc, o, last, item)
      BY <1>6, <1>8, <1>9, <2>1 DEF PlacesOf
    <2>3. QED
      BY <1>7, <2>2, AllBelow
  <1>11. QED
    BY <1>5, <1>10 DEF InTable, t, last

LEMMA HeadRead ==
  ASSUME NEW doc, NEW d, Writable(d), DocumentHolds(doc, d)
  PROVE  /\ Len(doc) \in Nat /\ 20 <= Len(doc)
         /\ textAt(doc, 1, "major") = d.attrs["major"]
         /\ textAt(doc, 1, "minor") = d.attrs["minor"]
         /\ elementsByTagName(doc, 1, "device")[1] = 6
  <1> DEFINE ni == Len(d.icons)
             ns == Len(d.services)
  <1>1. ni \in Nat /\ ns \in Nat /\ doc \in Seq(Elements) /\ Len(doc) \in Nat
    BY LenProperties DEF Writable, DocumentHolds
  <1>2. 20 <= Len(doc)
    <2>1. 5 + (15 + 6 * ni + 6 * ns) <= Len(doc)
      BY Zenon DEF DocumentHolds, DeviceHolds
    <2> HIDE DEF ni, ns
    <2>2. QED
      BY <1>1, <2>1
  <1> HIDE DEF ni, ns
  <1>3. doc[1].depth = 0
    <2>1. doc[1] = Element(0, "root", << >>)
      BY DEF DocumentHolds
    <2>2. QED
      BY <2>1, ElementHas
  <1>4. doc[2].depth = 1 /\ doc[2].tag = "specVersion"
    <2>1. doc[2] = Element(1, "specVersion", << >>)
      BY DEF DocumentHolds, Holds
    <2>2. QED
      BY <2>1, ElementHas
  <1>5. /\ doc[3].depth = 2 /\ doc[3].tag = "major" /\ doc[3].text = d.attrs["major"]
        /\ doc[4].depth = 2 /\ doc[4].tag = "minor" /\ doc[4].text = d.attrs["minor"]
    <2>1. \A j \in 1..2 : doc[2 + j] = Element(1 + 1, Version[j], d.attrs[Version[j]])
      BY VersionKnown DEF DocumentHolds, Holds
    <2>2. 1 \in 1..2 /\ 2 \in 1..2 /\ 2 + 1 = 3 /\ 2 + 2 = 4 /\ 1 + 1 = 2
      OBVIOUS
    <2>3. doc[3] = Element(2, "major", d.attrs["major"])
      BY <2>1, <2>2, VersionKnown
    <2>4. doc[4] = Element(2, "minor", d.attrs["minor"])
      BY <2>1, <2>2, VersionKnown
    <2>5. QED
      BY <2>3, <2>4, ElementHas
  <1>6. doc[5].depth = 1 /\ doc[5].tag = "URLBase"
    <2>1. doc[5] = Element(1, "URLBase", urlBase)
      BY DEF DocumentHolds
    <2>2. QED
      BY <2>1, ElementHas
  <1>7. doc[6].depth = 1 /\ doc[6].tag = "device"
    <2>1. doc[5 + 1] = Element(1, "device", << >>)
      BY DEF DocumentHolds, DeviceHolds, Holds
    <2>2. doc[6] = Element(1, "device", << >>)
      BY <2>1
    <2>3. QED
      BY <2>2, ElementHas
  <1>8. ASSUME NEW p \in {3, 4, 6} PROVE Below(doc, 1, p)
    <2>1. \A k \in 1 + 1..p : k = 2 \/ k = 3 \/ k = 4 \/ k = 5 \/ k = 6
      OBVIOUS
    <2>2. \A k \in 1 + 1..p : doc[k].depth > doc[1].depth
      BY <1>3, <1>4, <1>5, <1>6, <1>7, <2>1
    <2>3. 1 \in 1..Len(doc) /\ p \in 1..Len(doc)
      BY <1>1, <1>2
    <2>4. QED
      BY <2>2, <2>3 DEF Below
  <1>9. textAt(doc, 1, "major") = d.attrs["major"]
    <2>1. \A k \in 1 + 1..3 - 1 : k = 2
      OBVIOUS
    <2>2. \A k \in 1 + 1..3 - 1 : doc[k].tag # "major"
      BY <1>4, <2>1
    <2>3. Below(doc, 1, 3) /\ 1 < 3
      BY <1>8
    <2>4. QED
      BY <1>1, <1>5, <2>2, <2>3, FirstBelow DEF FirstWith
  <1>10. textAt(doc, 1, "minor") = d.attrs["minor"]
    <2>1. \A k \in 1 + 1..4 - 1 : k = 2 \/ k = 3
      OBVIOUS
    <2>2. \A k \in 1 + 1..4 - 1 : doc[k].tag # "minor"
      BY <1>4, <1>5, <2>1
    <2>3. Below(doc, 1, 4) /\ 1 < 4
      BY <1>8
    <2>4. QED
      BY <1>1, <1>5, <2>2, <2>3, FirstBelow DEF FirstWith
  <1>11. elementsByTagName(doc, 1, "device")[1] = 6
    <2>1. \A k \in 1 + 1..6 - 1 : k = 2 \/ k = 3 \/ k = 4 \/ k = 5
      OBVIOUS
    <2>2. \A k \in 1 + 1..6 - 1 : doc[k].tag # "device"
      BY <1>4, <1>5, <1>6, <2>1
    <2>3. Below(doc, 1, 6) /\ 1 < 6
      BY <1>8
    <2>4. QED
      BY <1>1, <1>7, <2>2, <2>3, FirstBelow DEF FirstWith
  <1>12. QED
    BY <1>1, <1>2, <1>9, <1>10, <1>11

LEMMA TagsApart ==
  /\ \A j \in 1..11 : DeviceTags[j] # "iconList" /\ DeviceTags[j] # "serviceList"
  /\ \A j \in 1..5 : IconTags[j] # "icon" /\ IconTags[j] # "serviceList"
  /\ \A j \in 1..5 : ServiceTags[j] # "service"
  <1>1. \A j \in 1..11 : DeviceTags[j] # "iconList" /\ DeviceTags[j] # "serviceList"
    BY DEF DeviceTags
  <1>2. \A j \in 1..5 : IconTags[j] # "icon" /\ IconTags[j] # "serviceList"
    BY DEF IconTags
  <1>3. \A j \in 1..5 : ServiceTags[j] # "service"
    BY DEF ServiceTags
  <1>4. QED
    BY <1>1, <1>2, <1>3

LEMMA ListsRead ==
  ASSUME NEW doc, NEW d, Writable(d), DocumentHolds(doc, d)
  PROVE  /\ itemsOf(doc, 6, "iconList", "icon") = Places(18, Len(d.icons))
         /\ itemsOf(doc, 6, "serviceList", "service") =
              Places(19 + 6 * Len(d.icons), Len(d.services))
  <1> DEFINE ni == Len(d.icons)
             ns == Len(d.services)
  <1>1. ni \in Nat /\ ns \in Nat /\ doc \in Seq(Elements) /\ Len(doc) \in Nat
    BY LenProperties DEF Writable, DocumentHolds
  <1>2. DeviceHolds(doc, 5, 1, d)
    BY DEF DocumentHolds
  <1>3. /\ doc[5 + 13] = Element(2, "iconList", << >>)
        /\ \A k \in 1..ni : Holds(doc, 5 + (8 + 6 * k), 3, "icon", IconTags, d.icons[k])
        /\ doc[5 + (14 + 6 * ni)] = Element(2, "serviceList", << >>)
        /\ \A k \in 1..ns :
             Holds(doc, 5 + (9 + 6 * ni + 6 * k), 3, "service", ServiceTags, d.services[k])
        /\ doc[5 + (15 + 6 * ni + 6 * ns)] = Element(2, "deviceList", << >>)
        /\ 5 + (15 + 6 * ni + 6 * ns) <= Len(doc)
    <2>1. /\ doc[5 + 13] = Element(1 + 1, "iconList", << >>)
          /\ \A k \in 1..ni : Holds(doc, 5 + (8 + 6 * k), 1 + 2, "icon", IconTags, d.icons[k])
          /\ doc[5 + (14 + 6 * ni)] = Element(1 + 1, "serviceList", << >>)
          /\ \A k \in 1..ns :
               Holds(doc, 5 + (9 + 6 * ni + 6 * k), 1 + 2, "service", ServiceTags,
                     d.services[k])
          /\ doc[5 + (15 + 6 * ni + 6 * ns)] = Element(1 + 1, "deviceList", << >>)
          /\ 5 + (15 + 6 * ni + 6 * ns) <= Len(doc)
      BY <1>2, Zenon DEF DeviceHolds
    <2>2. 1 + 1 = 2 /\ 1 + 2 = 3
      OBVIOUS
    <2>3. QED
      BY <2>1, <2>2, Zenon
  <1> DEFINE ic == d.icons
             se == d.services
             so == 19 + 6 * ni
  <1>4. so \in Nat /\ 6 * ns \in Nat /\ 6 * ni \in Nat
    BY <1>1
  <1> HIDE DEF ni, ns, ic, se, so
  <1>5. doc[6].depth = 1
    <2>1. doc[5 + 1] = Element(1, "device", << >>)
      BY <1>2 DEF DeviceHolds, Holds
    <2>2. doc[6] = Element(1, "device", << >>)
      BY <2>1
    <2>3. QED
      BY <2>2, ElementHas
  <1>6. ASSUME NEW p \in 7..17
        PROVE  doc[p].depth = 2 /\ doc[p].tag # "iconList" /\ doc[p].tag # "serviceList"
    <2>1. PICK j \in 1..11 : p = 5 + 1 + j
      <3>1. p - 6 \in 1..11 /\ p = 5 + 1 + (p - 6)
        OBVIOUS
      <3>2. QED
        BY <3>1
    <2>2. doc[5 + 1 + j] = Element(1 + 1, DeviceTags[j], d.attrs[DeviceTags[j]])
      BY Zenon, <1>2, TagsKnown DEF DeviceHolds, Holds
    <2>3. doc[p] = Element(1 + 1, DeviceTags[j], d.attrs[DeviceTags[j]])
      BY <2>1, <2>2
    <2>4. doc[p].depth = 1 + 1 /\ doc[p].tag = DeviceTags[j]
      BY <2>3, ElementHas
    <2>5. QED
      BY <2>4, TagsApart
  <1>7. doc[18] = Element(2, "iconList", << >>) /\ doc[18].depth = 2 /\ doc[18].tag = "iconList"
    <2>1. doc[18] = Element(2, "iconList", << >>)
      BY <1>3
    <2>2. QED
      BY <2>1, ElementHas
  <1>8. doc[so] = Element(2, "serviceList", << >>) /\ doc[so].depth = 2
        /\ doc[so].tag = "serviceList"
    <2>1. so = 5 + (14 + 6 * ni)
      BY <1>1 DEF so
    <2>2. doc[so] = Element(2, "serviceList", << >>)
      BY <1>3, <2>1
    <2>3. QED
      BY <2>2, ElementHas
  <1>9. /\ elementsByTagName(doc, 18, "icon") = Places(18, ni)
        /\ \A p \in 18 + 1..18 + 6 * ni :
             doc[p].depth > 2
             /\ (doc[p].tag = "icon" \/ \E j \in 1..5 : doc[p].tag = IconTags[j])
    <2>1. \A k \in 1..ni : Holds(doc, 18 - 5 + 6 * k, 2 + 1, "icon", IconTags, ic[k])
      <3>1. ASSUME NEW k \in 1..ni
            PROVE  Holds(doc, 18 - 5 + 6 * k, 2 + 1, "icon", IconTags, ic[k])
        <4>1. 18 - 5 + 6 * k = 5 + (8 + 6 * k) /\ 2 + 1 = 3
          OBVIOUS
        <4>2. QED
          BY <1>3, <4>1 DEF ic
      <3>2. QED
        BY <3>1
    <2>2. 18 + 6 * ni + 1 <= Len(doc) /\ doc[18 + 6 * ni + 1].depth = 2
      <3>1. 18 + 6 * ni + 1 = so /\ so <= Len(doc)
        BY <1>1, <1>3 DEF so
      <3>2. QED
        BY <1>8, <3>1
    <2>3. \A j \in 1..5 : IconTags[j] # "icon"
      BY TagsApart
    <2>4. 18 \in Nat /\ 18 # 0 /\ 2 \in Nat
      OBVIOUS
    <2>5. TableAt(doc, 18, ni, 2, "icon", IconTags, ic)
      BY <1>7, <2>1, <2>2, <2>3, <2>4 DEF TableAt
    <2>6. IconTags \in Seq(ElementTags) /\ Len(IconTags) = 5
      BY TagsKnown
    <2>7. PICK io \in Nat : io = 18
      OBVIOUS
    <2>8. TableAt(doc, io, ni, 2, "icon", IconTags, ic)
      BY <2>5, <2>7
    <2>9. /\ elementsByTagName(doc, io, "icon") = Places(io, ni)
          /\ InTable(doc, io, ni, 2, "icon", IconTags)
      BY <1>1, <2>4, <2>6, <2>8, TableRead
    <2>10. QED
      BY <2>7, <2>9 DEF InTable
  <1>10. elementsByTagName(doc, so, "service") = Places(so, ns)
    <2>1. \A k \in 1..ns : Holds(doc, so - 5 + 6 * k, 2 + 1, "service", ServiceTags, se[k])
      <3>1. ASSUME NEW k \in 1..ns
            PROVE  Holds(doc, so - 5 + 6 * k, 2 + 1, "service", ServiceTags, se[k])
        <4>1. so - 5 + 6 * k = 5 + (9 + 6 * ni + 6 * k) /\ 2 + 1 = 3
          BY <1>1 DEF so
        <4>2. QED
          BY <1>3, <4>1 DEF se
      <3>2. QED
        BY <3>1
    <2>2. so + 6 * ns + 1 <= Len(doc) /\ doc[so + 6 * ns + 1].depth = 2
      <3>1. so + 6 * ns + 1 = 5 + (15 + 6 * ni + 6 * ns)
        BY <1>1 DEF so
      <3>2. QED
        BY <1>3, <3>1, ElementHas
    <2>3. \A j \in 1..5 : ServiceTags[j] # "service"
      BY TagsApart
    <2>4. so # 0 /\ 2 \in Nat
      BY <1>1 DEF so
    <2>5. TableAt(doc, so, ns, 2, "service", ServiceTags, se)
      BY Zenon, <1>8, <2>1, <2>2, <2>3, <2>4 DEF TableAt
    <2>6. ServiceTags \in Seq(ElementTags) /\ Len(ServiceTags) = 5
      BY TagsKnown
    <2>7. PICK o \in Nat : o = so
      BY <1>4
    <2>8. TableAt(doc, o, ns, 2, "service", ServiceTags, se)
      BY <2>5, <2>7
    <2>9. /\ elementsByTagName(doc, o, "service") = Places(o, ns)
          /\ InTable(doc, o, ns, 2, "service", ServiceTags)
      BY <1>1, <2>4, <2>6, <2>8, TableRead
    <2>10. QED
      BY <2>7, <2>9
  <1>11. elementsByTagName(doc, 6, "iconList") # << >>
         /\ elementsByTagName(doc, 6, "iconList")[1] = 18
    <2>1. \A k \in 6 + 1..18 : k \in 7..17 \/ k = 18
      OBVIOUS
    <2>2. \A k \in 6 + 1..18 : doc[k].depth > doc[6].depth
      BY <1>5, <1>6, <1>7, <2>1
    <2>3. 6 \in 1..Len(doc) /\ 18 \in 6..Len(doc) /\ 6 < 18
      BY <1>1, <1>3
    <2>4. Below(doc, 6, 18)
      BY <2>2, <2>3 DEF Below
    <2>5. \A k \in 6 + 1..18 - 1 : doc[k].tag # "iconList"
      BY <1>6
    <2>6. FirstWith(doc, 6, 18, "iconList")
      BY <1>7, <2>3, <2>5 DEF FirstWith
    <2>7. QED
      BY <1>1, <2>4, <2>6, FirstBelow
  <1>12. elementsByTagName(doc, 6, "serviceList") # << >>
         /\ elementsByTagName(doc, 6, "serviceList")[1] = so
    <2>1. ASSUME NEW k \in 6 + 1..so - 1
          PROVE  doc[k].depth > 1 /\ doc[k].tag # "serviceList"
      <3>1. k \in 7..17 \/ k = 18 \/ k \in 18 + 1..18 + 6 * ni
        BY <1>1 DEF so
      <3>2. ASSUME k \in 18 + 1..18 + 6 * ni
            PROVE  doc[k].depth > 1 /\ doc[k].tag # "serviceList"
        <4>1. doc[k].depth > 2
              /\ (doc[k].tag = "icon" \/ \E j \in 1..5 : doc[k].tag = IconTags[j])
          BY <1>9, <3>2
        <4>2. doc[k].tag # "serviceList"
          BY <4>1, TagsApart
        <4>3. doc[k].depth \in Nat
          <5>1. k \in 1..Len(doc)
            BY <1>1, <1>3, <1>4 DEF so
          <5>2. doc[k] \in Elements
            BY <1>1, <5>1, ElementOfSeq
          <5>3. QED
            BY <5>2 DEF Elements
        <4>4. QED
          BY <4>1, <4>2, <4>3
      <3>3. QED
        BY SMTT(30), <1>6, <1>7, <3>1, <3>2
    <2>2. \A k \in 6 + 1..so : k \in 6 + 1..so - 1 \/ k = so
      BY <1>4
    <2>3. \A k \in 6 + 1..so : doc[k].depth > doc[6].depth
      BY <1>5, <1>8, <2>1, <2>2
    <2>4. 6 \in 1..Len(doc) /\ so \in 6..Len(doc) /\ 6 < so
      BY <1>1, <1>3 DEF so
    <2>5. Below(doc, 6, so)
      BY <2>3, <2>4 DEF Below
    <2>6. \A k \in 6 + 1..so - 1 : doc[k].tag # "serviceList"
      BY <2>1
    <2>7. FirstWith(doc, 6, so, "serviceList")
      BY <1>8, <2>4, <2>6 DEF FirstWith
    <2>8. QED
      BY <1>1, <2>5, <2>7, FirstBelow
  <1>13. QED
    BY <1>9, <1>10, <1>11, <1>12 DEF itemsOf, ni, ns, so

(* Of a document without version nothing is read.                          *)
Unread(base) ==
  [base |-> base, attrs |-> << >>, services |-> << >>, todo |-> << >>,
   icons |-> << >>, fetched |-> FALSE]
Versioned(d) == d.attrs["major"] # << >> /\ d.attrs["minor"] # << >>

(* What is read of the attributes and of the icons.                        *)
ReadAttributes(d) ==
  [t \in ToSet(ReadTags) \cup {"modelName"} |->
     d.attrs[IF t = "modelName" THEN "manufacturer" ELSE t]]
ReadIcons(d) == [k \in 1..Len(d.icons) |-> d.icons[1]]

LEMMA ReadTagsKnown == ToSet(ReadTags) \subseteq ToSet(DeviceTags)
  <1>1. DOMAIN ReadTags = 1..8
    BY DEF ReadTags
  <1>2. \A i \in 1..8 : \E j \in 1..11 : ReadTags[i] = DeviceTags[j]
    <2>1. /\ ReadTags[1] = "UDN" /\ ReadTags[2] = "friendlyName"
          /\ ReadTags[3] = "deviceType" /\ ReadTags[4] = "manufacturer"
          /\ ReadTags[5] = "manufacturerURL" /\ ReadTags[6] = "modelNumber"
          /\ ReadTags[7] = "modelURL" /\ ReadTags[8] = "serialNumber"
      BY DEF ReadTags
    <2>2. /\ DeviceTags[10] = "UDN" /\ DeviceTags[2] = "friendlyName"
          /\ DeviceTags[1] = "deviceType" /\ DeviceTags[3] = "manufacturer"
          /\ DeviceTags[4] = "manufacturerURL" /\ DeviceTags[7] = "modelNumber"
          /\ DeviceTags[8] = "modelURL" /\ DeviceTags[9] = "serialNumber"
      BY DEF DeviceTags
    <2>3. ASSUME NEW i \in 1..8 PROVE \E j \in 1..11 : ReadTags[i] = DeviceTags[j]
      <3>1. \/ i = 1 \/ i = 2 \/ i = 3 \/ i = 4 \/ i = 5 \/ i = 6 \/ i = 7 \/ i = 8
        OBVIOUS
      <3>2. {10, 2, 1, 3, 4, 7, 8, 9} \subseteq 1..11
        OBVIOUS
      <3>3. QED
        BY <2>1, <2>2, <3>1, <3>2
    <2>4. QED
      BY <2>3
  <1>3. DOMAIN DeviceTags = 1..11
    BY DEF DeviceTags
  <1>4. QED
    BY <1>1, <1>2, <1>3 DEF ToSet

LEMMA ToSetElement ==
  ASSUME NEW S, NEW s \in Seq(S), NEW t \in ToSet(s)
  PROVE  \E j \in 1..Len(s) : s[j] = t
  <1>1. DOMAIN s = 1..Len(s)
    BY LenProperties
  <1>2. QED
    BY <1>1 DEF ToSet

LEMMA AttributesRead ==
  ASSUME NEW doc, NEW d, Writable(d), DocumentHolds(doc, d), NEW t \in ToSet(DeviceTags)
  PROVE  textAt(doc, 6, t) = d.attrs[t]
  <1>1. doc \in Seq(Elements) /\ DeviceHolds(doc, 5, 1, d)
    BY DEF DocumentHolds
  <1>2. Len(doc) \in Nat /\ 20 <= Len(doc)
    BY HeadRead
  <1>3. PICK j \in 1..Len(DeviceTags) : DeviceTags[j] = t
    BY Zenon, TagsKnown, ToSetElement
  <1>4. PICK p \in Nat : p = 6 /\ p # 0 /\ p + 11 <= Len(doc)
    BY <1>2
  <1>5. Holds(doc, p, 1, "device", DeviceTags, d.attrs)
    <2>1. Holds(doc, 5 + 1, 1, "device", DeviceTags, d.attrs)
      BY <1>1 DEF DeviceHolds
    <2>2. QED
      BY <1>4, <2>1
  <1>6. p + Len(DeviceTags) <= Len(doc) /\ DeviceTags \in Seq(ElementTags) /\ 1 \in Nat
    BY <1>4, TagsKnown
  <1> DEFINE tags == DeviceTags
             values == d.attrs
  <1> HIDE DEF tags, values
  <1>7. textAt(doc, p, tags[j]) = values[tags[j]]
    <2>1. p \in Nat /\ p # 0 /\ j \in 1..Len(tags) /\ Holds(doc, p, 1, "device", tags, values)
      BY <1>3, <1>4, <1>5 DEF tags, values
    <2>2. p + Len(tags) <= Len(doc) /\ tags \in Seq(ElementTags) /\ 1 \in Nat
      BY <1>6 DEF tags
    <2>3. QED
      BY <1>1, <2>1, <2>2, FieldRead
  <1>8. QED
    BY <1>3, <1>4, <1>7 DEF tags, values

LEMMA FirstIconRead ==
  ASSUME NEW doc, NEW d, Writable(d), DocumentHolds(doc, d), 1 \in 1..Len(d.icons)
  PROVE  [t \in ToSet(IconTags) |-> textAt(doc, 19, t)] = d.icons[1]
  <1> DEFINE ni == Len(d.icons)
             ns == Len(d.services)
  <1>1. doc \in Seq(Elements) /\ DeviceHolds(doc, 5, 1, d) /\ ni \in Nat /\ ns \in Nat
        /\ Len(doc) \in Nat
    BY LenProperties DEF DocumentHolds, Writable
  <1>2. d.icons[1] \in [ToSet(IconTags) -> Text]
    BY ElementOfSeq DEF Writable, IconTexts
  <1>3. Holds(doc, 5 + (8 + 6 * 1), 1 + 2, "icon", IconTags, d.icons[1])
        /\ 5 + (15 + 6 * ni + 6 * ns) <= Len(doc)
    BY Zenon, <1>1 DEF DeviceHolds
  <1>4. 1 \in 1..ni
    OBVIOUS
  <1> HIDE DEF ni, ns
  <1>5. PICK p \in Nat : p = 19 /\ p = 5 + (8 + 6 * 1) /\ p # 0 /\ p + 5 <= Len(doc)
    <2>1. 19 \in Nat /\ 19 = 5 + (8 + 6 * 1) /\ 19 # 0 /\ 19 + 5 <= Len(doc)
      BY <1>1, <1>3, <1>4
    <2>2. QED
      BY <2>1
  <1>6. Holds(doc, p, 3, "icon", IconTags, d.icons[1])
    BY <1>3, <1>5
  <1>7. ASSUME NEW t \in ToSet(IconTags)
        PROVE  textAt(doc, p, t) = d.icons[1][t]
    <2>1. PICK j \in 1..Len(IconTags) : IconTags[j] = t
      BY Zenon, TagsKnown, ToSetElement
    <2>2. p + Len(IconTags) <= Len(doc) /\ IconTags \in Seq(ElementTags) /\ 3 \in Nat
      BY <1>5, TagsKnown
    <2> DEFINE tags == IconTags
               values == d.icons[1]
    <2>3. j \in 1..Len(tags) /\ p + Len(tags) <= Len(doc) /\ tags \in Seq(ElementTags)
          /\ 3 \in Nat /\ Holds(doc, p, 3, "icon", tags, values)
      BY <1>6, <2>1, <2>2
    <2> HIDE DEF tags, values
    <2>4. p \in Nat /\ p # 0
      BY <1>5
    <2>5. textAt(doc, p, tags[j]) = values[tags[j]]
      BY <1>1, <2>3, <2>4, FieldRead
    <2>6. QED
      BY <2>1, <2>5 DEF tags, values
  <1>8. QED
    BY <1>2, <1>5, <1>7

ServiceAt(d, k) == 14 + 6 * Len(d.icons) + 6 * k

LEMMA ServiceRead ==
  ASSUME NEW doc, NEW d, Writable(d), DocumentHolds(doc, d), NEW k \in 1..Len(d.services)
  PROVE  [t \in ToSet(ServiceTags) |-> textAt(doc, ServiceAt(d, k), t)] = d.services[k]
  <1> DEFINE ni == Len(d.icons)
             ns == Len(d.services)
  <1>1. doc \in Seq(Elements) /\ DeviceHolds(doc, 5, 1, d) /\ ni \in Nat /\ ns \in Nat
        /\ Len(doc) \in Nat
    BY LenProperties DEF DocumentHolds, Writable
  <1>2. d.services[k] \in [ToSet(ServiceTags) -> Text]
    BY ElementOfSeq DEF Writable, ServiceTexts
  <1>3. Holds(doc, 5 + (9 + 6 * ni + 6 * k), 1 + 2, "service", ServiceTags, d.services[k])
        /\ 5 + (15 + 6 * ni + 6 * ns) <= Len(doc)
    BY Zenon, <1>1 DEF DeviceHolds
  <1>4. k \in 1..ns /\ ServiceAt(d, k) = 14 + 6 * ni + 6 * k
    BY DEF ServiceAt
  <1> HIDE DEF ni, ns
  <1>5. PICK p \in Nat : p = ServiceAt(d, k) /\ p = 5 + (9 + 6 * ni + 6 * k) /\ p # 0
                         /\ p + 5 <= Len(doc)
    BY <1>1, <1>3, <1>4
  <1>6. Holds(doc, p, 3, "service", ServiceTags, d.services[k])
    BY <1>3, <1>5
  <1>7. ASSUME NEW t \in ToSet(ServiceTags)
        PROVE  textAt(doc, p, t) = d.services[k][t]
    <2>1. PICK j \in 1..Len(ServiceTags) : ServiceTags[j] = t
      BY Zenon, TagsKnown, ToSetElement
    <2>2. p + Len(ServiceTags) <= Len(doc) /\ ServiceTags \in Seq(ElementTags) /\ 3 \in Nat
      BY <1>5, TagsKnown
    <2> DEFINE tags == ServiceTags
               values == d.services[k]
    <2>3. j \in 1..Len(tags) /\ p + Len(tags) <= Len(doc) /\ tags \in Seq(ElementTags)
          /\ 3 \in Nat /\ Holds(doc, p, 3, "service", tags, values)
      BY <1>6, <2>1, <2>2
    <2> HIDE DEF tags, values
    <2>4. p \in Nat /\ p # 0
      BY <1>5
    <2>5. textAt(doc, p, tags[j]) = values[tags[j]]
      BY <1>1, <2>3, <2>4, FieldRead
    <2>6. QED
      BY <2>1, <2>5 DEF tags, values
  <1>8. QED
    BY Zenon, <1>2, <1>5, <1>7

(* The same with the places that it finds.                                 *)
ParsedAt(doc, base, top, is, ss) ==
  LET fields(i, tags) == [t \in ToSet(tags) |-> textAt(doc, i, t)]
  IN  [Unread(base) EXCEPT
         !.base = IF ss = << >> THEN base ELSE cutPort(base),
         !.attrs = [t \in ToSet(ReadTags) \cup {"modelName"} |->
                      textAt(doc, top, IF t = "modelName" THEN "manufacturer" ELSE t)],
         !.todo = [i \in DOMAIN ss |->
                     BrisaAbstractService(fields(ss[i], ServiceTags))],
         !.icons = [i \in DOMAIN is |-> fields(is[1], IconTags)]]

Filled(base, newbase, attrs, todo, icons) ==
  [Unread(base) EXCEPT !.base = newbase, !.attrs = attrs, !.todo = todo, !.icons = icons]
NewReading(base, attrs, todo, icons) ==
  [base |-> base, attrs |-> attrs, services |-> << >>, todo |-> todo, icons |-> icons,
   fetched |-> FALSE]

LEMMA ReadingFilled ==
  ASSUME NEW base, NEW newbase, NEW attrs, NEW todo, NEW icons
  PROVE  Filled(base, newbase, attrs, todo, icons) = NewReading(newbase, attrs, todo, icons)
  <1> DEFINE u == Unread(base)
             v == [u EXCEPT !.base = newbase, !.attrs = attrs, !.todo = todo, !.icons = icons]
             w == [base |-> newbase, attrs |-> attrs, services |-> << >>, todo |-> todo,
                   icons |-> icons, fetched |-> FALSE]
             D == {"base", "attrs", "services", "todo", "icons", "fetched"}
  <1>1. DOMAIN u = D /\ u["services"] = << >> /\ u["fetched"] = FALSE
    BY DEF Unread
  <1> HIDE DEF u
  <1>2. v = [x \in D |-> v[x]]
    BY Zenon, <1>1
  <1>3. w = [x \in D |-> w[x]]
    OBVIOUS
  <1>4. /\ v["base"] = newbase /\ v["attrs"] = attrs /\ v["todo"] = todo /\ v["icons"] = icons
        /\ v["services"] = << >> /\ v["fetched"] = FALSE
    BY <1>1
  <1>5. /\ w["base"] = newbase /\ w["attrs"] = attrs /\ w["todo"] = todo /\ w["icons"] = icons
        /\ w["services"] = << >> /\ w["fetched"] = FALSE
    OBVIOUS
  <1> HIDE DEF v, w
  <1>6. \A x \in D : v[x] = w[x]
    BY Zenon, <1>4, <1>5
  <1>7. v = w
    BY <1>2, <1>3, <1>6
  <1>8. QED
    BY <1>7 DEF v, w, u, Filled, NewReading

LEMMA PlacesAt ==
  ASSUME NEW o \in Nat, NEW n \in Nat, NEW k \in 1..n
  PROVE  Places(o, n)[k] = o - 5 + 6 * k
  BY DEF Places

LEMMA ParsedDef ==
  ASSUME NEW doc, NEW base, doc # << >>,
         NEW top, top = elementsByTagName(doc, 1, "device")[1],
         NEW is, is = itemsOf(doc, top, "iconList", "icon"),
         NEW ss, ss = itemsOf(doc, top, "serviceList", "service")
  PROVE  parseDevice(doc, base) =
           IF textAt(doc, 1, "major") = << >> \/ textAt(doc, 1, "minor") = << >>
           THEN Unread(base) ELSE ParsedAt(doc, base, top, is, ss)
  BY ZenonT(30) DEF parseDevice, ParsedAt, Unread

LEMMA ParseRight ==
  ASSUME NEW doc, NEW d, Writable(d), DocumentHolds(doc, d), NEW base
  PROVE  LET r == parseDevice(doc, base)
         IN  IF ~Versioned(d) THEN r = Unread(base)
             ELSE r = NewReading(IF d.services = << >> THEN base ELSE cutPort(base),
                                 ReadAttributes(d),
                                 [k \in 1..Len(d.services) |->
                                    BrisaAbstractService(d.services[k])],
                                 ReadIcons(d))
  <1> DEFINE ni == Len(d.icons)
             ns == Len(d.services)
             fields(i, tags) == [t \in ToSet(tags) |-> textAt(doc, i, t)]
             is == Places(18, ni)
             ss == Places(19 + 6 * ni, ns)
             attrs == [t \in ToSet(ReadTags) \cup {"modelName"} |->
                         textAt(doc, 6, IF t = "modelName" THEN "manufacturer" ELSE t)]
             todo == [i \in DOMAIN ss |->
                        BrisaAbstractService(fields(ss[i], ServiceTags))]
             icons == [i \in DOMAIN is |-> fields(is[1], IconTags)]
  <1>1. ni \in Nat /\ ns \in Nat /\ DOMAIN is = 1..ni /\ DOMAIN ss = 1..ns
    BY LenProperties DEF Writable, Places
  <1>2. doc # << >>
    <2>1. Len(doc) # 0
      BY HeadRead
    <2>2. QED
      BY <2>1
  <1>3. /\ textAt(doc, 1, "major") = d.attrs["major"]
        /\ textAt(doc, 1, "minor") = d.attrs["minor"]
        /\ elementsByTagName(doc, 1, "device")[1] = 6
        /\ itemsOf(doc, 6, "iconList", "icon") = is
        /\ itemsOf(doc, 6, "serviceList", "service") = ss
    BY HeadRead, ListsRead
  <1>4. ss = << >> <=> d.services = << >>
    <2>1. ss = << >> <=> ns = 0
      <3>1. ss = << >> => DOMAIN ss = {}
        OBVIOUS
      <3>2. DOMAIN ss = {} => ns = 0
        BY <1>1
      <3>3. ns = 0 => ss = << >>
        BY DEF Places
      <3>4. QED
        BY <3>1, <3>2, <3>3
    <2>2. d.services = << >> <=> ns = 0
      BY EmptySeq DEF Writable
    <2>3. QED
      BY <2>1, <2>2
  <1> DEFINE r == parseDevice(doc, base)
             newbase == IF ss = << >> THEN base ELSE cutPort(base)
  <1>5. r = IF ~Versioned(d) THEN Unread(base)
            ELSE NewReading(newbase, attrs, todo, icons)
    <2> HIDE DEF is, ss
    <2>1. r = IF d.attrs["major"] = << >> \/ d.attrs["minor"] = << >>
              THEN Unread(base) ELSE ParsedAt(doc, base, 6, is, ss)
      BY <1>2, <1>3, ParsedDef
    <2>2. ParsedAt(doc, base, 6, is, ss) = Filled(base, newbase, attrs, todo, icons)
      BY Zenon DEF ParsedAt, Filled
    <2> HIDE DEF r, newbase, attrs, todo, icons
    <2>3. Filled(base, newbase, attrs, todo, icons) = NewReading(newbase, attrs, todo, icons)
      BY ReadingFilled
    <2>4. QED
      BY <2>1, <2>2, <2>3 DEF Versioned
  <1>6. attrs = ReadAttributes(d)
    <2>1. ASSUME NEW t \in ToSet(ReadTags) \cup {"modelName"}
          PROVE  textAt(doc, 6, IF t = "modelName" THEN "manufacturer" ELSE t) =
                   d.attrs[IF t = "modelName" THEN "manufacturer" ELSE t]
      <3> DEFINE u == IF t = "modelName" THEN "manufacturer" ELSE t
      <3>1. "manufacturer" \in ToSet(DeviceTags)
        BY DEF DeviceTags, ToSet
      <3>2. u \in ToSet(DeviceTags)
        BY <3>1, ReadTagsKnown
      <3> HIDE DEF u
      <3>3. textAt(doc, 6, u) = d.attrs[u]
        BY <3>2, AttributesRead
      <3>4. QED
        BY <3>3 DEF u
    <2>2. QED
      BY <2>1 DEF ReadAttributes
  <1>7. todo = [k \in 1..ns |-> BrisaAbstractService(d.services[k])]
    <2>1. ASSUME NEW k \in 1..ns PROVE fields(ss[k], ServiceTags) = d.services[k]
      <3>1. ss[k] = ServiceAt(d, k)
        <4>1. ss[k] = 19 + 6 * ni - 5 + 6 * k
          <5>1. PICK o \in Nat : o = 19 + 6 * ni
            BY <1>1
          <5>2. ss = Places(o, ns) /\ ns \in Nat
            BY <1>1, <5>1
          <5> HIDE DEF ss, ni, ns
          <5>3. Places(o, ns)[k] = o - 5 + 6 * k
            BY Zenon, <5>2, PlacesAt
          <5>4. QED
            BY <1>1, <5>1, <5>2, <5>3
        <4>2. ServiceAt(d, k) = 14 + 6 * ni + 6 * k
          BY DEF ServiceAt
        <4> HIDE DEF ss, ni
        <4>3. QED
          BY <1>1, <4>1, <4>2
      <3>2. QED
        BY <3>1, ServiceRead
    <2> HIDE DEF ss, fields
    <2>2. QED
      BY <1>1, <2>1
  <1>8. icons = ReadIcons(d)
    <2>1. ASSUME 1 \in 1..ni PROVE fields(is[1], IconTags) = d.icons[1]
      <3>1. is[1] = 19
        <4>1. 18 \in Nat
          OBVIOUS
        <4> HIDE DEF ni, is
        <4>2. Places(18, ni)[1] = 18 - 5 + 6 * 1
          BY Zenon, <1>1, <2>1, <4>1, PlacesAt
        <4>3. is[1] = 18 - 5 + 6 * 1
          BY <4>2 DEF is
        <4>4. QED
          BY <4>3
      <3>2. QED
        BY <2>1, <3>1, FirstIconRead
    <2>2. ASSUME NEW k \in 1..ni PROVE fields(is[1], IconTags) = d.icons[1]
      <3>1. 1 \in 1..ni
        BY <1>1
      <3>2. QED
        BY <2>1, <3>1
    <2> HIDE DEF is, fields
    <2>3. QED
      BY <1>1, <2>2 DEF ReadIcons
  <1>9. newbase = IF d.services = << >> THEN base ELSE cutPort(base)
    BY <1>4
  <1> HIDE DEF attrs, todo, icons, r, newbase, ni, ns
  <1>10. QED
    BY <1>5, <1>6, <1>7, <1>8, <1>9 DEF r, ni, ns

-----------------------------------------------------------------------------
(* The addresses.  The base of the server ends in the digits of its port,  *)
(* and before the first "/" of a location.                                 *)
LEMMA CutPortKeeps == cutPort(urlBase) = urlBase
  <1>1. urlBase \in Seq(Tokens) /\ ServerAddress(urlBase) /\ ":" \notin Digits
    BY DescriptionAssumption DEF DescriptionConstants, Text
  <1>2. Len(urlBase) \in Nat /\ DOMAIN urlBase = 1..Len(urlBase)
    BY <1>1, LenProperties
  <1>3. PICK first \in 1..Len(urlBase), second \in 1..Len(urlBase) :
          /\ first < second /\ urlBase[first] = ":" /\ urlBase[second] = ":"
          /\ \A i \in 1..Len(urlBase) :
               /\ urlBase[i] # "/"
               /\ i < second => i = first \/ urlBase[i] # ":"
               /\ i > second => urlBase[i] \in Digits
    BY <1>1, <1>2 DEF ServerAddress
  <1> DEFINE S == {i \in DOMAIN urlBase : urlBase[i] = ":"}
             t == [q \in 1..2 |-> IF q = 1 THEN first ELSE second]
  <1>4. first \in Nat /\ second \in Nat
    BY <1>2
  <1>5. t[1] = first /\ t[2] = second /\ Increasing(t, 2)
    BY <1>3, <1>4 DEF Increasing
  <1>6. S = FirstOnes(t, 2)
    <2>1. \A q \in 1..2 : q = 1 \/ q = 2
      OBVIOUS
    <2>2. \A q \in 1..2 : t[q] \in S
      BY <1>2, <1>3, <1>5, <2>1
    <2>3. ASSUME NEW i \in S PROVE \E q \in 1..2 : i = t[q]
      <3>1. i \in 1..Len(urlBase) /\ urlBase[i] = ":"
        BY <1>2
      <3>2. ~(i > second)
        BY <1>1, <1>3, <3>1
      <3>3. i = first \/ i = second
        BY <1>2, <1>3, <1>4, <3>1, <3>2
      <3>4. 1 \in 1..2 /\ 2 \in 1..2
        OBVIOUS
      <3>5. QED
        BY <1>5, <3>3, <3>4
    <2> HIDE DEF S, t
    <2>4. QED
      BY <2>2, <2>3 DEF FirstOnes
  <1>7. t \in Seq(Nat) /\ Len(t) = 2
    <2>1. t \in [1..2 -> Nat]
      BY <1>4
    <2> HIDE DEF t
    <2>2. QED
      BY Zenon, <2>1, SeqOfFunction
  <1> HIDE DEF t, S
  <1>8. inOrder(S) = t
    BY <1>5, <1>6, InOrderIs
  <1> DEFINE Q(n) == /\ \A i \in (t[2] + 1)..n : urlBase[i] \in Digits
                     /\ n = Len(urlBase) \/ urlBase[n + 1] \notin Digits
             end == CHOOSE n \in t[2]..Len(urlBase) : Q(n)
             End(c) == CHOOSE n \in c[2]..Len(urlBase) :
                         /\ \A i \in (c[2] + 1)..n : urlBase[i] \in Digits
                         /\ n = Len(urlBase) \/ urlBase[n + 1] \notin Digits
  <1>9. end = Len(urlBase)
    <2>1. Len(urlBase) \in t[2]..Len(urlBase)
      BY <1>2, <1>5
    <2>2. Q(Len(urlBase))
      <3>1. ASSUME NEW i \in (t[2] + 1)..Len(urlBase) PROVE urlBase[i] \in Digits
        <4>1. i \in 1..Len(urlBase) /\ i > second
          BY <1>2, <1>4, <1>5
        <4>2. QED
          BY <1>3, <4>1
      <3>2. QED
        BY <3>1
    <2>3. ASSUME NEW n \in t[2]..Len(urlBase), Q(n) PROVE n = Len(urlBase)
      <3>1. SUFFICES ASSUME n # Len(urlBase) PROVE FALSE
        OBVIOUS
      <3>2. n + 1 \in 1..Len(urlBase) /\ n + 1 > second
        <4>1. n \in second..Len(urlBase)
          BY <1>5
        <4>2. PICK l \in Nat : l = Len(urlBase)
          BY Zenon, <1>2
        <4>3. n \in second..l /\ n # l /\ second \in Nat
          BY <1>4, <3>1, <4>1, <4>2
        <4>4. n + 1 \in 1..l /\ n + 1 > second
          BY <4>3
        <4>5. QED
          BY <4>2, <4>4
      <3>3. urlBase[n + 1] \in Digits
        BY <1>3, <3>2
      <3>4. QED
        BY <2>3, <3>1, <3>3
    <2> HIDE DEF Q
    <2>4. QED
      BY <2>1, <2>2, <2>3
  <1>10. cutPort(urlBase) = IF Len(t) < 2 THEN urlBase ELSE SubSeq(urlBase, 1, end)
    <2>1. cutPort(urlBase) = IF Len(inOrder(S)) < 2 THEN urlBase
                                ELSE SubSeq(urlBase, 1, End(inOrder(S)))
      BY Zenon DEF cutPort, S
    <2>2. End(t) = end
      OBVIOUS
    <2> HIDE DEF End, end
    <2>3. QED
      BY <1>8, <2>1, <2>2
  <1> HIDE DEF end
  <1>11. cutPort(urlBase) = SubSeq(urlBase, 1, Len(urlBase))
    BY <1>7, <1>9, <1>10
  <1>12. SubSeq(urlBase, 1, Len(urlBase)) = urlBase
    BY <1>1, SubSeqProperties
  <1>13. QED
    BY <1>11, <1>12

LEMMA BaseOfLocation ==
  ASSUME NEW location \in Text, OnServer(location)
  PROVE  RemovePath(location) = urlBase
  <1>1. urlBase \in Seq(Tokens) /\ ServerAddress(urlBase) /\ location \in Seq(Tokens)
    BY DescriptionAssumption DEF DescriptionConstants, Text
  <1>2. PICK n \in Nat : n = Len(urlBase)
    BY <1>1, LenProperties
  <1>3. DOMAIN urlBase = 1..n /\ DOMAIN location = 1..Len(location) /\ Len(location) \in Nat
    BY <1>1, <1>2, LenProperties
  <1>4. /\ n < Len(location) /\ location[n + 1] = "/"
        /\ \A i \in 1..n : location[i] = urlBase[i] /\ urlBase[i] # "/"
    BY <1>1, <1>2, <1>3 DEF OnServer, ServerAddress
  <1> DEFINE S == {i \in DOMAIN location : location[i] = "/"}
  <1>5. n + 1 \in S /\ S \subseteq Nat
    BY <1>3, <1>4
  <1>6. \A i \in S : n + 1 <= i
    BY <1>3, <1>4
  <1> HIDE DEF S
  <1>7. Min(S) = n + 1
    <2>1. Min(S) \in S /\ \A i \in S : Min(S) <= i
      BY Zenon, <1>5, LeastOfSet
    <2>2. Min(S) <= n + 1 /\ n + 1 <= Min(S) /\ Min(S) \in Nat
      BY Zenon, <1>5, <1>6, <2>1
    <2>3. QED
      BY <2>2
  <1>8. RemovePath(location) = SubSeq(location, 1, Min(S) - 1)
    <2>1. S # {}
      BY <1>5
    <2>2. QED
      BY Zenon, <2>1 DEF RemovePath, S
  <1>9. RemovePath(location) = SubSeq(location, 0 + 1, 0 + n)
    BY <1>7, <1>8
  <1>10. /\ SubSeq(location, 0 + 1, 0 + n) \in Seq(Tokens)
         /\ Len(SubSeq(location, 0 + 1, 0 + n)) = n
         /\ \A i \in 1..n : SubSeq(location, 0 + 1, 0 + n)[i] = location[0 + i]
    <2>1. 0 \in Nat /\ 0 + n <= Len(location)
      BY <1>3, <1>4
    <2>2. QED
      BY <1>1, <2>1, PartOfSeq
  <1> DEFINE part == SubSeq(location, 0 + 1, 0 + n)
  <1>11. \A i \in 1..n : part[i] = urlBase[i]
    <2>1. \A i \in 1..n : 0 + i = i
      OBVIOUS
    <2>2. QED
      BY <1>4, <1>10, <2>1
  <1>12. part = urlBase
    BY <1>1, <1>2, <1>10, <1>11, SameSeq
  <1>13. QED
    BY <1>9, <1>12

LEMMA NoPath ==
  RemovePath(<< >>) = << >> /\ PathOf(<< >>) = << >>
  <1>1. DOMAIN << >> = {} /\ Len(<< >>) = 0
    OBVIOUS
  <1>2. RemovePath(<< >>) = << >>
    BY <1>1 DEF RemovePath
  <1>3. PathOf(<< >>) = SubSeq(<< >>, 0 + 1, 0)
    BY <1>1, <1>2 DEF PathOf
  <1>4. << >> \in Seq({})
    BY EmptySeq
  <1>5. SubSeq(<< >>, 0 + 1, 0) = << >>
    BY <1>1, <1>4, SubSeqEmpty
  <1>6. QED
    BY <1>2, <1>3, <1>5

(* The device, whatever the vendor does: it has all its attributes, and    *)
(* each of its services the "/" before the address of its description.     *)
SlashedServices ==
  {s \in ServiceTexts : s["SCPDURL"] # << >> /\ Head(s["SCPDURL"]) = "/"}
Embeddables ==
  [attrs : [Attributes -> Text], fileAddress : Text, location : Text,
   icons : {<< >>}, services : Seq(ServiceTexts), devices : {<< >>}]
Describables ==
  [attrs : [Attributes -> Text], fileAddress : Text, location : Text,
   icons : Seq(IconTexts), services : Seq(SlashedServices), devices : Seq(Embeddables)]
Described(d) == d \in Describables /\ (d.location = << >> \/ OnServer(d.location))

LEMMA WithoutSpacesText ==
  ASSUME NEW name \in Text
  PROVE  withoutSpaces(name) \in Text /\ FileOf(name) \in Text
  <1> DEFINE ss == [i \in DOMAIN name |-> IF name[i] = " " THEN << >> ELSE << name[i] >>]
  <1>1. name \in Seq(Tokens) /\ DOMAIN name = 1..Len(name) /\ Len(name) \in Nat
    BY LenProperties DEF Text
  <1>2. ASSUME NEW i \in 1..Len(name)
        PROVE  (IF name[i] = " " THEN << >> ELSE << name[i] >>) \in Seq(Tokens)
    <2>1. name[i] \in Tokens
      BY <1>1, ElementOfSeq
    <2>2. << name[i] >> \in Seq(Tokens) /\ << >> \in Seq(Tokens)
      BY <2>1, OneElement, EmptySeq
    <2>3. QED
      BY Zenon, <2>2
  <1>3. ss \in Seq(Seq(Tokens))
    <2>1. ss \in [1..Len(name) -> Seq(Tokens)]
      BY Zenon, <1>1, <1>2
    <2> HIDE DEF ss
    <2>2. QED
      BY <1>1, <2>1, SeqOfFunction
  <1>4. withoutSpaces(name) = FlattenSeq(ss)
    BY Zenon DEF withoutSpaces
  <1> HIDE DEF ss
  <1>5. withoutSpaces(name) \in Seq(Tokens)
    BY <1>3, <1>4, FlattenKeeps
  <1>6. << ".xml" >> \in Seq(Tokens)
    BY DescriptionAssumption, OneElement DEF DescriptionConstants
  <1>7. withoutSpaces(name) \o << ".xml" >> \in Seq(Tokens)
    BY <1>5, <1>6, ConcatProperties
  <1>8. QED
    BY <1>5, <1>7 DEF Text, FileOf

LEMMA SlashBefore ==
  ASSUME NEW s \in ServiceTexts
  PROVE  /\ BrisaAbstractService(s) \in SlashedServices
         /\ s \in SlashedServices => BrisaAbstractService(s) = s
  <1> DEFINE url == s["SCPDURL"]
             new == IF url # << >> /\ Head(url) = "/" THEN url ELSE << "/" >> \o url
             T == ToSet(ServiceTags)
  <1>1. s \in [T -> Seq(Tokens)]
    BY DEF ServiceTexts, Text
  <1>2. "SCPDURL" \in T
    <2>1. ServiceTags[3] = "SCPDURL"
      BY DEF ServiceTags
    <2>2. ServiceTags[3] \in T
      BY TagsKnown
    <2>3. QED
      BY <2>1, <2>2
  <1> HIDE DEF T
  <1>3. url \in Seq(Tokens)
    BY <1>1, <1>2
  <1>4. "/" \in Tokens
    BY DescriptionAssumption DEF DescriptionConstants
  <1>5. << "/" >> \in Seq(Tokens) /\ Len(<< "/" >>) = 1 /\ << "/" >>[1] = "/"
    BY <1>4, OneElement
  <1>6. new \in Seq(Tokens) /\ new # << >> /\ Head(new) = "/"
    <2>1. CASE url # << >> /\ Head(url) = "/"
      BY <1>3, <2>1
    <2>2. CASE ~(url # << >> /\ Head(url) = "/")
      <3> DEFINE slash == << "/" >>
                 l == slash \o url
      <3>1. new = l
        BY <2>2
      <3> HIDE DEF slash, url, new
      <3>2. l \in Seq(Tokens) /\ Len(l) = Len(slash) + Len(url) /\ Placed(l, 0, slash)
        BY Zenon, <1>3, <1>5, ConcatPlaces DEF slash
      <3>3. 1 \in 1..Len(slash) /\ Len(url) \in Nat /\ Len(slash) = 1
        BY <1>3, <1>5, LenProperties DEF slash
      <3>4. l[0 + 1] = slash[1]
        BY <3>2, <3>3, PlacedAt
      <3> HIDE DEF l
      <3>5. l[1] = "/" /\ Len(l) # 0
        BY <1>5, <3>2, <3>3, <3>4 DEF slash
      <3>6. l # << >>
        BY <3>5
      <3>7. Head(l) = l[1]
        BY <3>2, <3>6, TailOfSeq
      <3>8. QED
        BY <3>1, <3>2, <3>5, <3>6, <3>7
    <2>3. QED
      BY <2>1, <2>2
  <1>7. BrisaAbstractService(s) = [s EXCEPT !["SCPDURL"] = new]
    BY DEF BrisaAbstractService
  <1>8. s \in SlashedServices => new = url
    BY DEF SlashedServices
  <1> HIDE DEF new
  <1> DEFINE c == [s EXCEPT !["SCPDURL"] = new]
  <1>9. c \in [T -> Seq(Tokens)] /\ c["SCPDURL"] = new
    BY <1>1, <1>2, <1>6
  <1>10. new = url => c = s
    BY <1>1
  <1>11. c \in SlashedServices
    <2> HIDE DEF c
    <2>1. QED
      BY <1>6, <1>9 DEF SlashedServices, ServiceTexts, Text, T
  <1>12. QED
    BY <1>7, <1>8, <1>10, <1>11

LEMMA Constructed ==
  ASSUME NEW attributes \in [Attributes -> Text]
  PROVE  /\ EmptyDevice \in Embeddables /\ EmptyDevice.location = << >>
         /\ BrisaDevice(attributes) \in Embeddables
         /\ EmptyDevice.services = << >> /\ BrisaDevice(attributes).services = << >>
         /\ OnServer(BrisaDevice(attributes).location)
  <1> DEFINE none == [t \in DOMAIN Built |-> << >>]
             attrs == [attributes EXCEPT !["major"] = << "1" >>, !["minor"] = << "0" >>]
             file == FileOf(attributes["friendlyName"])
             location == urlBase \o << "/" >> \o file
  <1>1. /\ Built \in [Attributes -> Text] /\ urlBase \in Text
        /\ {"1", "0", "/"} \subseteq Tokens
    BY DescriptionAssumption DEF DescriptionConstants
  <1>2. << >> \in Text /\ << "1" >> \in Text /\ << "0" >> \in Text
        /\ << "/" >> \in Text
    BY <1>1, EmptySeq, OneElement DEF Text
  <1>3. none \in [Attributes -> Text]
    BY <1>1, <1>2
  <1>4. attrs \in [Attributes -> Text]
    BY Zenon, <1>2
  <1>5. attributes["friendlyName"] \in Text
    <2>1. DeviceTags[2] = "friendlyName" /\ DeviceTags[2] \in Attributes
      <3>1. DeviceTags[2] = "friendlyName"
        BY DEF DeviceTags
      <3>2. QED
        BY <3>1, TagsKnown
    <2>2. "friendlyName" \in Attributes
      BY <2>1
    <2>3. QED
      BY <2>2
  <1>6. file \in Text
    BY <1>5, WithoutSpacesText
  <1>7. location \in Text /\ OnServer(location)
    <2> DEFINE slash == << "/" >>
               us == urlBase \o slash
    <2>1. slash \in Seq(Tokens) /\ Len(slash) = 1 /\ slash[1] = "/" /\ urlBase \in Seq(Tokens)
          /\ file \in Seq(Tokens)
      BY <1>1, <1>2, <1>6 DEF Text
    <2> HIDE DEF slash, file
    <2>2. us \in Seq(Tokens) /\ Len(us) = Len(urlBase) + Len(slash)
          /\ Placed(us, 0, urlBase) /\ Placed(us, Len(urlBase), slash)
      BY Zenon, <2>1, ConcatPlaces
    <2> HIDE DEF us
    <2> DEFINE l == us \o file
    <2>3. l \in Seq(Tokens) /\ Len(l) = Len(us) + Len(file) /\ Placed(l, 0, us)
      BY Zenon, <2>1, <2>2, ConcatPlaces
    <2> HIDE DEF l
    <2>4. Len(urlBase) \in Nat /\ Len(file) \in Nat /\ 0 \in Nat
      BY <2>1, LenProperties
    <2>5. Placed(l, 0 + 0, urlBase) /\ Placed(l, 0 + Len(urlBase), slash)
      BY <2>1, <2>2, <2>3, <2>4, PlacedInside
    <2>6. DOMAIN urlBase = 1..Len(urlBase)
      BY <2>1, LenProperties
    <2>7. \A i \in DOMAIN urlBase : l[i] = urlBase[i]
      <3>1. ASSUME NEW i \in 1..Len(urlBase) PROVE l[i] = urlBase[i]
        <4>1. l[0 + 0 + i] = urlBase[i]
          BY <2>5, PlacedAt
        <4>2. 0 + 0 + i = i
          BY <2>4
        <4>3. QED
          BY <4>1, <4>2
      <3>2. QED
        BY <2>6, <3>1
    <2>8. l[Len(urlBase) + 1] = "/"
      <3>1. 1 \in 1..Len(slash)
        BY <2>1
      <3>2. l[0 + Len(urlBase) + 1] = slash[1]
        BY <2>5, <3>1, PlacedAt
      <3>3. 0 + Len(urlBase) + 1 = Len(urlBase) + 1
        BY <2>4
      <3>4. QED
        BY <2>1, <3>2, <3>3
    <2>9. Len(l) > Len(urlBase)
      BY <2>1, <2>2, <2>3, <2>4
    <2>10. l = location
      BY DEF l, us, slash, file
    <2> HIDE DEF location
    <2>11. QED
      BY <2>3, <2>7, <2>8, <2>9, <2>10 DEF OnServer, Text
  <1> HIDE DEF none, attrs, file, location
  <1> DEFINE empty == [attrs |-> none, fileAddress |-> << >>, location |-> << >>,
                       icons |-> << >>, services |-> << >>, devices |-> << >>]
             new == [empty EXCEPT !.attrs = attrs, !.fileAddress = file, !.location = location]
  <1>8. EmptyDevice = empty /\ BrisaDevice(attributes) = new
    BY DEF EmptyDevice, BrisaDevice, none, attrs, file, location
  <1>9. empty \in Embeddables /\ empty.location = << >> /\ empty.services = << >>
    <2>1. << >> \in Seq(ServiceTexts)
      BY EmptySeq
    <2>2. QED
      BY <1>2, <1>3, <2>1 DEF Embeddables
  <1> HIDE DEF empty
  <1>10. new \in Embeddables /\ new.location = location /\ new.services = << >>
    BY Zenon, <1>4, <1>6, <1>7, <1>9 DEF Embeddables
  <1>11. QED
    BY <1>7, <1>8, <1>9, <1>10

LEMMA EmbeddableIs ==
  ASSUME NEW d \in Embeddables
  PROVE  Writable(d) /\ (d.services = << >> => d \in Describables)
  <1>1. /\ d.attrs \in [Attributes -> Text] /\ d.fileAddress \in Text
        /\ d.location \in Text /\ d.icons = << >> /\ d.services \in Seq(ServiceTexts)
        /\ d.devices = << >>
    BY DEF Embeddables
  <1>2. << >> \in Seq(IconTexts) /\ << >> \in Seq(SlashedServices) /\ << >> \in Seq(Embeddables)
    BY EmptySeq
  <1>3. Writable(d)
    BY <1>1, <1>2 DEF Writable
  <1>4. ASSUME d.services = << >> PROVE d \in Describables
    <2>1. d = [attrs |-> d.attrs, fileAddress |-> d.fileAddress, location |-> d.location,
               icons |-> d.icons, services |-> d.services, devices |-> d.devices]
      BY DEF Embeddables
    <2>2. QED
      BY Zenon, <1>1, <1>2, <1>4, <2>1 DEF Describables
  <1>5. QED
    BY <1>3, <1>4

LEMMA DescribedIs ==
  ASSUME NEW d \in Describables
  PROVE  /\ Complete(d)
         /\ d.services \in Seq(SlashedServices)
         /\ Len(d.services) \in Nat /\ DOMAIN d.services = 1..Len(d.services)
         /\ \A k \in 1..Len(d.services) :
              /\ d.services[k] \in SlashedServices /\ d.services[k] \in ServiceTexts
              /\ BrisaAbstractService(d.services[k]) = d.services[k]
  <1>1. /\ d.attrs \in [Attributes -> Text] /\ d.icons \in Seq(IconTexts)
        /\ d.services \in Seq(SlashedServices) /\ d.devices \in Seq(Embeddables)
    BY DEF Describables
  <1>2. Len(d.services) \in Nat /\ DOMAIN d.services = 1..Len(d.services)
        /\ Len(d.devices) \in Nat /\ DOMAIN d.devices = 1..Len(d.devices)
        /\ d.services \in [1..Len(d.services) -> SlashedServices]
    BY <1>1, LenProperties
  <1>3. \A k \in 1..Len(d.services) :
          d.services[k] \in SlashedServices /\ d.services[k] \in ServiceTexts
    BY <1>1, ElementOfSeq DEF SlashedServices
  <1>4. \A k \in 1..Len(d.services) : BrisaAbstractService(d.services[k]) = d.services[k]
    BY <1>3, SlashBefore
  <1>5. d.services \in Seq(ServiceTexts)
    <2>1. d.services \in [1..Len(d.services) -> ServiceTexts]
      BY <1>2, <1>3
    <2>2. QED
      BY <1>2, <2>1, SeqOfFunction
  <1>6. \A i \in 1..Len(d.devices) : Writable(d.devices[i])
    BY <1>1, ElementOfSeq, EmbeddableIs
  <1>7. QED
    BY <1>1, <1>2, <1>3, <1>4, <1>5, <1>6 DEF Complete, Writable

(* The device after each of the vendor's operations.                       *)
OperationsOn(d) ==
  {[d EXCEPT !.location = x[2]] : x \in {y \in Settings : y[1] = "location"}}
    \cup {[d EXCEPT !.attrs["friendlyName"] = withoutSpaces(x[2]),
                    !.fileAddress = FileOf(x[2])] : x \in Settings}
    \cup {[d EXCEPT !.attrs[x[1]] = x[2]] : x \in Settings}
    \cup {[d EXCEPT !.services = Append(@, BrisaAbstractService(s))] : s \in Offered}
    \cup {[d EXCEPT !.icons = Append(@, i)] : i \in Icons}
    \cup {[d EXCEPT !.devices =
             Append(@, [BrisaDevice(e.attrs) EXCEPT !.services = e.services])]
            : e \in Embedded}

LEMMA OperationsKnown ==
  ASSUME NEW d, Described(d), NEW new \in OperationsOn(d)
  PROVE  Described(new)
  <1>1. /\ d \in Describables
        /\ d.attrs \in [Attributes -> Text] /\ d.fileAddress \in Text
        /\ d.location \in Text /\ (d.location = << >> \/ OnServer(d.location))
        /\ d.icons \in Seq(IconTexts) /\ d.services \in Seq(SlashedServices)
        /\ d.devices \in Seq(Embeddables)
    BY DEF Described, Describables
  <1>2. /\ \A x \in Settings : x[2] \in Text /\ (x[1] = "location" => OnServer(x[2]))
        /\ Offered \subseteq ServiceTexts /\ Icons \subseteq IconTexts
        /\ \A e \in Embedded :
             e.attrs \in [Attributes -> Text] /\ e.services \in Seq(ServiceTexts)
    BY DescriptionAssumption DEF DescriptionConstants
  <1>3. ASSUME NEW x \in Settings, x[1] = "location", new = [d EXCEPT !.location = x[2]]
        PROVE  Described(new)
    <2>1. new \in Describables /\ new.location = x[2]
      BY Zenon, <1>1, <1>2, <1>3 DEF Describables
    <2>2. QED
      BY <1>2, <1>3, <2>1 DEF Described
  <1>4. ASSUME NEW x \in Settings,
               new = [d EXCEPT !.attrs["friendlyName"] = withoutSpaces(x[2]),
                               !.fileAddress = FileOf(x[2])]
        PROVE  Described(new)
    <2>1. withoutSpaces(x[2]) \in Text /\ FileOf(x[2]) \in Text
      BY <1>2, WithoutSpacesText
    <2>2. new \in Describables /\ new.location = d.location
      BY Zenon, <1>1, <1>4, <2>1 DEF Describables
    <2>3. QED
      BY <1>1, <2>2 DEF Described
  <1>5. ASSUME NEW x \in Settings, new = [d EXCEPT !.attrs[x[1]] = x[2]]
        PROVE  Described(new)
    <2>1. x[2] \in Text
      BY <1>2
    <2>2. new \in Describables /\ new.location = d.location
      BY Zenon, <1>1, <1>5, <2>1 DEF Describables
    <2>3. QED
      BY <1>1, <2>2 DEF Described
  <1>6. ASSUME NEW s \in Offered,
               new = [d EXCEPT !.services = Append(@, BrisaAbstractService(s))]
        PROVE  Described(new)
    <2>1. BrisaAbstractService(s) \in SlashedServices
      BY <1>2, SlashBefore
    <2>2. Append(d.services, BrisaAbstractService(s)) \in Seq(SlashedServices)
      BY <1>1, <2>1, AppendToList
    <2>3. new \in Describables /\ new.location = d.location
      BY Zenon, <1>1, <1>6, <2>2 DEF Describables
    <2>4. QED
      BY <1>1, <2>3 DEF Described
  <1>7. ASSUME NEW i \in Icons, new = [d EXCEPT !.icons = Append(@, i)]
        PROVE  Described(new)
    <2>1. Append(d.icons, i) \in Seq(IconTexts)
      BY <1>1, <1>2, AppendToList
    <2>2. new \in Describables /\ new.location = d.location
      BY Zenon, <1>1, <1>7, <2>1 DEF Describables
    <2>3. QED
      BY <1>1, <2>2 DEF Described
  <1>8. ASSUME NEW e \in Embedded,
               new = [d EXCEPT !.devices =
                        Append(@, [BrisaDevice(e.attrs) EXCEPT !.services = e.services])]
        PROVE  Described(new)
    <2> DEFINE b == BrisaDevice(e.attrs)
               inner == [b EXCEPT !.services = e.services]
    <2>1. b \in Embeddables
      BY <1>2, Constructed
    <2> HIDE DEF b
    <2>2. inner \in Embeddables
      BY <1>2, <2>1 DEF Embeddables
    <2> HIDE DEF inner
    <2>3. Append(d.devices, inner) \in Seq(Embeddables)
      BY <1>1, <2>2, AppendToList
    <2>4. new = [d EXCEPT !.devices = Append(@, inner)]
      BY <1>8 DEF inner, b
    <2>5. new \in Describables /\ new.location = d.location
      BY Zenon, <1>1, <2>3, <2>4 DEF Describables
    <2>6. QED
      BY <1>1, <2>5 DEF Described
  <1>9. QED
    BY Zenon, <1>3, <1>4, <1>5, <1>6, <1>7, <1>8 DEF OperationsOn

(* What a request is answered with: nothing, or one of the pages of the    *)
(* device that was started.                                                *)
DefaultPage == Page(<< "/" >>, "default", << >>)
DescriptionPage(d) ==
  Page(<< "/" >> \o d.fileAddress, "description", xmlGenerator(d))
ServicePages(s) == ToSet(buildWebServiceTree(s))
PagesOf(d) ==
  {DefaultPage, DescriptionPage(d)}
    \cup UNION {ServicePages(d.services[j]) : j \in 1..Len(d.services)}

LEMMA ServicePagesAre ==
  ASSUME NEW s
  PROVE  /\ buildWebServiceTree(s) \in Seq(ServicePages(s))
         /\ \A p \in ServicePages(s) :
              p.kind \in {"control", "event", "scpd"} /\ p.content = s["serviceType"]
  <1> DEFINE under(url) == << "/" >> \o s["serviceId"] \o << "/" >> \o lastSection(url)
             a == Page(under(s["controlURL"]), "control", s["serviceType"])
             b == Page(under(s["eventSubURL"]), "event", s["serviceType"])
             c == Page(under(s["SCPDURL"]), "scpd", s["serviceType"])
  <1>1. buildWebServiceTree(s) = << a, b, c >>
    BY DEF buildWebServiceTree
  <1>2. /\ a.kind = "control" /\ b.kind = "event" /\ c.kind = "scpd"
        /\ a.content = s["serviceType"] /\ b.content = s["serviceType"]
        /\ c.content = s["serviceType"]
    BY DEF Page
  <1> HIDE DEF a, b, c
  <1>3. ServicePages(s) = {a, b, c}
    BY <1>1 DEF ServicePages, ToSet
  <1>4. << a, b, c >> \in Seq({a, b, c})
    OBVIOUS
  <1>5. QED
    BY <1>1, <1>2, <1>3, <1>4

LEMMA PagesAre ==
  ASSUME NEW d \in Describables
  PROVE  buildWebServerTree(d) \in Seq(PagesOf(d))
  <1> DEFINE P == PagesOf(d)
             two == << DefaultPage, DescriptionPage(d) >>
             trees == [i \in DOMAIN d.services |-> buildWebServiceTree(d.services[i])]
  <1>1. Len(d.services) \in Nat /\ DOMAIN d.services = 1..Len(d.services)
    BY DescribedIs
  <1>2. ASSUME NEW i \in 1..Len(d.services)
        PROVE  buildWebServiceTree(d.services[i]) \in Seq(P)
    <2>1. ServicePages(d.services[i]) \subseteq P
      BY DEF PagesOf
    <2>2. buildWebServiceTree(d.services[i]) \in Seq(ServicePages(d.services[i]))
      BY ServicePagesAre
    <2> HIDE DEF P
    <2>3. QED
      BY <2>1, <2>2, SeqMonotonic
  <1>3. trees \in Seq(Seq(P))
    <2>1. trees \in [1..Len(d.services) -> Seq(P)]
      BY <1>1, <1>2
    <2> HIDE DEF trees, P
    <2>2. QED
      BY <1>1, <2>1, SeqOfFunction
  <1>4. two \in Seq(P)
    <2>1. DefaultPage \in P /\ DescriptionPage(d) \in P
      BY DEF PagesOf
    <2> HIDE DEF P
    <2>2. QED
      BY <2>1
  <1>5. buildWebServerTree(d) = two \o FlattenSeq(trees)
    <2>1. buildWebServerTree(d) = two \o FlattenSeq(trees)
      BY Zenon DEF buildWebServerTree, DefaultPage, DescriptionPage
    <2>2. QED
      BY <2>1
  <1> HIDE DEF P, two, trees
  <1>6. FlattenSeq(trees) \in Seq(P)
    BY <1>3, FlattenKeeps
  <1>7. two \o FlattenSeq(trees) \in Seq(P)
    BY <1>4, <1>6, ConcatProperties
  <1>8. QED
    BY <1>5, <1>7 DEF P

(* The pages are those of the device that was started, if any are served.  *)
PagesKnown == pages \in {<< >>, buildWebServerTree(shown)}

LEMMA PageServed ==
  ASSUME Described(shown), PagesKnown, NEW path
  PROVE  \/ served(path) = Nothing
         \/ served(path) \in PagesOf(shown) /\ served(path).path = path
  <1> DEFINE M == {k \in DOMAIN pages : pages[k].path = path}
  <1>1. pages \in Seq(PagesOf(shown))
    <2>1. << >> \in Seq(PagesOf(shown))
      BY EmptySeq
    <2>2. QED
      BY Zenon, <2>1, PagesAre DEF PagesKnown, Described
  <1>2. DOMAIN pages = 1..Len(pages) /\ Len(pages) \in Nat
    BY <1>1, LenProperties
  <1>3. served(path) = IF M = {} THEN Nothing ELSE pages[Min(M)]
    BY Zenon DEF served
  <1>4. ASSUME M # {} PROVE pages[Min(M)] \in PagesOf(shown) /\ pages[Min(M)].path = path
    <2>1. M \subseteq Nat
      BY <1>2
    <2>2. Min(M) \in M
      BY <1>4, <2>1, LeastOfSet
    <2>3. QED
      BY <1>1, <1>2, <2>2, ElementOfSeq
  <1> HIDE DEF M
  <1>5. QED
    BY <1>3, <1>4

LEMMA DescriptionServed ==
  ASSUME Described(shown), PagesKnown, NEW path, served(path).kind = "description"
  PROVE  served(path).content = xmlGenerator(shown) /\ path # << >>
  <1> DEFINE p == served(path)
  <1>1. p # Nothing
    BY DEF Nothing, Page
  <1>2. p \in PagesOf(shown) /\ p.path = path
    BY <1>1, PageServed
  <1> HIDE DEF p
  <1>3. p.kind = "description"
    BY DEF p
  <1>4. p # DefaultPage
    BY <1>3 DEF DefaultPage, Page
  <1>5. \A j \in 1..Len(shown.services) : p \notin ServicePages(shown.services[j])
    BY Zenon, <1>3, ServicePagesAre
  <1>6. p = DescriptionPage(shown)
    BY <1>2, <1>4, <1>5 DEF PagesOf
  <1>7. p.content = xmlGenerator(shown) /\ p.path = << "/" >> \o shown.fileAddress
    BY <1>6 DEF DescriptionPage, Page
  <1>8. << "/" >> \o shown.fileAddress # << >>
    <2> DEFINE slash == << "/" >>
               file == shown.fileAddress
    <2>1. slash \in Seq(Tokens) /\ Len(slash) = 1
      BY DescriptionAssumption DEF DescriptionConstants
    <2>2. file \in Seq(Tokens) /\ Len(file) \in Nat
      BY LenProperties DEF Described, Describables, Text
    <2> HIDE DEF slash, file
    <2>3. Len(slash \o file) = Len(slash) + Len(file)
      BY Zenon, <2>1, <2>2, ConcatProperties
    <2>4. Len(slash \o file) # 0
      BY <2>1, <2>2, <2>3
    <2>5. slash \o file # << >>
      BY <2>4
    <2>6. QED
      BY <2>5 DEF slash, file
  <1>9. QED
    BY <1>2, <1>7, <1>8 DEF p

(* Distinct, of a device.                                                  *)
Apart(d) ==
  \A i, j \in 1..Len(d.services) :
    i # j => \A page \in ServicePages(d.services[j]) :
               page.path \notin {d.services[i]["SCPDURL"], d.services[i]["controlURL"]}

LEMMA ApartIs ==
  ASSUME Described(shown)
  PROVE  Distinct <=> Apart(shown)
  <1>1. DOMAIN shown.services = 1..Len(shown.services)
    BY DescribedIs DEF Described
  <1>2. QED
    BY <1>1 DEF Distinct, Apart, ServicePages

LEMMA ServiceServed ==
  ASSUME Described(shown), PagesKnown, Apart(shown), NEW j \in 1..Len(shown.services),
         NEW path \in {shown.services[j]["SCPDURL"], shown.services[j]["controlURL"]},
         served(path).kind \in {"control", "scpd"}
  PROVE  served(path).content = shown.services[j]["serviceType"]
  <1> DEFINE p == served(path)
  <1>1. p # Nothing
    BY DEF Nothing, Page
  <1>2. p \in PagesOf(shown) /\ p.path = path
    BY <1>1, PageServed
  <1> HIDE DEF p
  <1>3. p.kind \in {"control", "scpd"}
    BY DEF p
  <1>4. p # DefaultPage /\ p # DescriptionPage(shown)
    BY <1>3 DEF DefaultPage, DescriptionPage, Page
  <1>5. PICK i \in 1..Len(shown.services) : p \in ServicePages(shown.services[i])
    BY <1>2, <1>4 DEF PagesOf
  <1>6. i = j
    BY <1>2, <1>5 DEF Apart
  <1>7. p.content = shown.services[j]["serviceType"]
    BY Zenon, <1>5, <1>6, ServicePagesAre
  <1>8. QED
    BY <1>7 DEF p

(* What a control point has read of a device d: n of its services have     *)
(* been fetched or dropped, in their order.                                *)
ServicesRead ==
  [s : ServiceTexts, actions : {<< >>} \cup {Scpd[t] : t \in Text},
   lastMethod : {""} \cup Methods]
OwnActions(d, i) == {<< >>, Scpd[d.services[i]["serviceType"]]}
ToldAs(services, n, d, t) ==
  /\ Increasing(t, Len(services))
  /\ \A k \in 1..Len(services) :
       /\ t[k] \in 1..n
       /\ services[k].s = d.services[t[k]]
       /\ Apart(d) => services[k].actions \in OwnActions(d, t[k])
ToldUpTo(services, n, d) == \E t : ToldAs(services, n, d, t)

LEMMA ToldFewer ==
  ASSUME NEW services, NEW d, NEW n \in Nat, NEW m \in Nat, n <= m, ToldUpTo(services, n, d)
  PROVE  ToldUpTo(services, m, d)
  <1>1. PICK t : ToldAs(services, n, d, t)
    BY DEF ToldUpTo
  <1>2. \A i \in 1..n : i \in 1..m
    OBVIOUS
  <1>3. ToldAs(services, m, d, t)
    BY <1>1, <1>2 DEF ToldAs
  <1>4. QED
    BY <1>3 DEF ToldUpTo

LEMMA ToldNone ==
  ASSUME NEW d
  PROVE  ToldUpTo(<< >>, 0, d)
  <1> DEFINE t == [q \in 1..0 |-> 0]
  <1>1. Len(<< >>) = 0 /\ 1..0 = {}
    OBVIOUS
  <1>2. ToldAs(<< >>, 0, d, t)
    BY <1>1 DEF ToldAs, Increasing
  <1>3. QED
    BY <1>2 DEF ToldUpTo

LEMMA ToldNext ==
  ASSUME NEW S, NEW services \in Seq(S), NEW d, NEW n \in Nat, ToldUpTo(services, n, d),
         NEW e \in S, e.s = d.services[n + 1],
         Apart(d) => e.actions \in OwnActions(d, n + 1)
  PROVE  ToldUpTo(Append(services, e), n + 1, d)
  <1>1. PICK t : ToldAs(services, n, d, t)
    BY DEF ToldUpTo
  <1>2. PICK m \in Nat : m = Len(services)
    BY LenProperties
  <1> DEFINE new == Append(services, e)
             u == [q \in 1..m + 1 |-> IF q = m + 1 THEN n + 1 ELSE t[q]]
  <1>3. /\ Len(new) = m + 1 /\ new[m + 1] = e
        /\ \A k \in 1..m : new[k] = services[k]
    BY <1>2, AppendToList
  <1> HIDE DEF new
  <1>4. /\ t \in [1..m -> Nat] /\ \A i, j \in 1..m : i < j => t[i] < t[j]
        /\ \A k \in 1..m : t[k] \in 1..n
    BY Zenon, <1>1, <1>2 DEF ToldAs, Increasing
  <1>5. /\ u \in [1..m + 1 -> Nat] /\ u[m + 1] = n + 1
        /\ \A k \in 1..m : u[k] = t[k]
    BY <1>2, <1>4
  <1> HIDE DEF u
  <1>6. Increasing(u, m + 1)
    <2>1. ASSUME NEW i \in 1..m + 1, NEW j \in 1..m + 1, i < j PROVE u[i] < u[j]
      <3>1. i \in 1..m
        BY <2>1
      <3>2. CASE j = m + 1
        BY <1>4, <1>5, <3>1, <3>2
      <3>3. CASE j \in 1..m
        BY <1>4, <1>5, <2>1, <3>1, <3>3
      <3>4. QED
        BY <3>2, <3>3
    <2>2. QED
      BY <1>5, <2>1 DEF Increasing
  <1>7. ASSUME NEW k \in 1..m + 1
        PROVE  /\ u[k] \in 1..n + 1
               /\ new[k].s = d.services[u[k]]
               /\ Apart(d) => new[k].actions \in OwnActions(d, u[k])
    <2>1. CASE k = m + 1
      BY <1>3, <1>5, <2>1
    <2>2. CASE k \in 1..m
      <3>1. u[k] = t[k] /\ new[k] = services[k] /\ t[k] \in 1..n + 1
        BY <1>3, <1>4, <1>5, <2>2
      <3>2. /\ services[k].s = d.services[t[k]]
            /\ Apart(d) => services[k].actions \in OwnActions(d, t[k])
        BY <1>1, <1>2, <2>2 DEF ToldAs
      <3>3. QED
        BY <3>1, <3>2
    <2>3. QED
      BY <2>1, <2>2
  <1>8. ToldAs(new, n + 1, d, u)
    BY <1>3, <1>6, <1>7 DEF ToldAs
  <1>9. QED
    BY <1>8 DEF ToldUpTo, new

LEMMA ToldSame ==
  ASSUME NEW services, NEW new, Len(new) = Len(services),
         \A k \in 1..Len(services) :
           new[k].s = services[k].s /\ new[k].actions = services[k].actions,
         NEW d, NEW n, ToldUpTo(services, n, d)
  PROVE  ToldUpTo(new, n, d)
  <1>1. PICK t : ToldAs(services, n, d, t)
    BY DEF ToldUpTo
  <1>2. ToldAs(new, n, d, t)
    BY <1>1 DEF ToldAs
  <1>3. QED
    BY <1>2 DEF ToldUpTo

LEMMA ToldRight ==
  ASSUME Described(shown), NEW S, NEW services \in Seq(S),
         ToldUpTo(services, Len(shown.services), shown)
  PROVE  ServicesTold(services)
  <1>1. PICK m \in Nat : m = Len(services)
    BY LenProperties
  <1>2. DOMAIN services = 1..m
    BY <1>1, LenProperties
  <1>3. DOMAIN shown.services = 1..Len(shown.services)
    BY DescribedIs DEF Described
  <1>4. PICK t : ToldAs(services, Len(shown.services), shown, t)
    BY DEF ToldUpTo
  <1>5. Increasing(t, m) /\ \A k \in 1..m : t[k] \in 1..Len(shown.services)
    BY <1>1, <1>4 DEF ToldAs
  <1> DEFINE kept == FirstOnes(t, m)
  <1>6. kept \in SUBSET DOMAIN shown.services
    BY <1>3, <1>5 DEF FirstOnes
  <1>7. inOrder(kept) = t
    BY <1>5, InOrderIs
  <1>8. Len(t) = m
    <2>1. t \in [1..m -> Nat]
      BY <1>5 DEF Increasing
    <2>2. QED
      BY <2>1, SeqOfFunction
  <1>9. \A k \in DOMAIN services :
          /\ services[k].s = shown.services[t[k]]
          /\ Distinct =>
               services[k].actions \in {<< >>, Scpd[shown.services[t[k]]["serviceType"]]}
    BY Zenon, <1>1, <1>2, <1>4, ApartIs DEF ToldAs, OwnActions
  <1> HIDE DEF kept
  <1>10. QED
    BY <1>1, <1>6, <1>7, <1>8, <1>9 DEF ServicesTold

(* The descriptions it is reading, and the devices it has found.           *)
Underway(d) ==
  {r \in [base : {urlBase}, attrs : {ReadAttributes(d)}, services : Seq(ServicesRead),
          todo : Seq(ServiceTexts), icons : {ReadIcons(d)}, fetched : BOOLEAN] :
     \E n \in 0..Len(d.services) :
       r.todo = Drop(d.services, n) /\ ToldUpTo(r.services, n, d)}
ReadingsOf(d) == {r \in Underway(d) : ~r.fetched => r.todo # << >>}

Devices(d) ==
  [base : Text, attrs : {<< >>, ReadAttributes(d)}, services : Seq(ServicesRead),
   icons : {<< >>, ReadIcons(d)}, connected : Nat, awaited : Seq(Nat), downloaded : Nat,
   ready : Nat]
ReadRight(f, d) ==
  /\ f.attrs = ReadAttributes(d) /\ f.base = urlBase /\ f.icons = ReadIcons(d)
  /\ ToldUpTo(f.services, Len(d.services), d)
Counted(f) ==
  /\ f.connected = 0 => f.awaited = << >> /\ f.downloaded = 0 /\ f.ready = 0
  /\ f.connected = 1 =>
       /\ Len(f.awaited) + f.downloaded = Len(f.icons)
       /\ f.icons # << >> => f.ready = IF f.awaited = << >> THEN 1 ELSE 0
DevicesOf(d) ==
  {f \in Devices(d) :
     Counted(f) /\ ((f.attrs = << >> /\ f.services = << >>) \/ ReadRight(f, d))}

(* A device that a reading has ended with.                                 *)
FoundOf(r) ==
  [base |-> r.base, attrs |-> r.attrs, services |-> r.services, icons |-> r.icons,
   connected |-> 0, awaited |-> << >>, downloaded |-> 0, ready |-> 0]

LEMMA ToldDevice ==
  ASSUME NEW d \in Describables,
         NEW r \in Underway(d) \cup {Unread(b) : b \in Text}, r.todo = << >>
  PROVE  FoundOf(r) \in DevicesOf(d)
  <1>1. << >> \in Seq(ServicesRead) /\ << >> \in Seq(Nat)
    BY EmptySeq
  <1>2. urlBase \in Text
    BY DescriptionAssumption DEF DescriptionConstants
  <1>3. CASE r \in Underway(d)
    <2>1. /\ r.base = urlBase /\ r.attrs = ReadAttributes(d) /\ r.services \in Seq(ServicesRead)
          /\ r.icons = ReadIcons(d)
      BY <1>3 DEF Underway
    <2>2. ToldUpTo(r.services, Len(d.services), d)
      <3>1. PICK n \in 0..Len(d.services) : ToldUpTo(r.services, n, d)
        BY <1>3 DEF Underway
      <3>2. Len(d.services) \in Nat
        BY DescribedIs
      <3>3. QED
        BY <3>1, <3>2, ToldFewer
    <2>3. FoundOf(r) \in Devices(d) /\ Counted(FoundOf(r))
      BY <1>1, <1>2, <2>1 DEF FoundOf, Devices, Counted
    <2>4. ReadRight(FoundOf(r), d)
      BY <2>1, <2>2 DEF FoundOf, ReadRight
    <2>5. QED
      BY <2>3, <2>4 DEF DevicesOf
  <1>4. CASE r \in {Unread(b) : b \in Text}
    <2>1. PICK b \in Text : r = Unread(b)
      BY <1>4
    <2>2. r.base = b /\ r.attrs = << >> /\ r.services = << >> /\ r.icons = << >>
      BY <2>1 DEF Unread
    <2>3. FoundOf(r) \in Devices(d) /\ Counted(FoundOf(r))
      BY <1>1, <2>2 DEF FoundOf, Devices, Counted
    <2>4. FoundOf(r).attrs = << >> /\ FoundOf(r).services = << >>
      BY <2>2 DEF FoundOf
    <2>5. QED
      BY <2>3, <2>4 DEF DevicesOf
  <1>5. QED
    BY <1>3, <1>4

(* A reading that begins holds all that is to be told of the device.       *)
LEMMA ReadingBegins ==
  ASSUME Described(shown), PagesKnown, NEW location \in Text,
         location = << >> \/ OnServer(location), NEW lost \in BOOLEAN,
         NEW page, page = served(PathOf(location)),
         NEW doc, doc = IF lost \/ page.kind # "description" THEN << >> ELSE page.content
  PROVE  parseDevice(doc, RemovePath(location)) \in
           Underway(shown) \cup {Unread(b) : b \in Text}
  <1> DEFINE base == RemovePath(location)
             r == parseDevice(doc, base)
  <1>1. base \in Text
    <2>1. CASE location = << >>
      BY <2>1, NoPath
    <2>2. CASE OnServer(location)
      BY <2>2, BaseOfLocation, DescriptionAssumption DEF DescriptionConstants
    <2>3. QED
      BY <2>1, <2>2
  <1>2. CASE doc = << >>
    <2>1. r = Unread(base)
      BY <1>2, Zenon DEF parseDevice, Unread
    <2>2. QED
      BY <1>1, <2>1
  <1>3. CASE doc # << >>
    <2>1. doc = xmlGenerator(shown) /\ PathOf(location) # << >>
      <3>1. page.kind = "description" /\ doc = page.content
        BY <1>3
      <3>2. QED
        BY <3>1, DescriptionServed
    <2>2. base = urlBase
      <3>1. location # << >>
        BY <2>1, NoPath
      <3>2. QED
        BY <3>1, BaseOfLocation
    <2>3. urlBase \in Text
      BY DescriptionAssumption DEF DescriptionConstants
    <2>4. Complete(shown) /\ Writable(shown)
      BY DescribedIs DEF Described, Complete
    <2>5. DocumentHolds(doc, shown)
      BY <2>1, <2>3, <2>4, DocumentWritten
    <2> DEFINE services == [k \in 1..Len(shown.services) |->
                              BrisaAbstractService(shown.services[k])]
               newbase == IF shown.services = << >> THEN base ELSE cutPort(base)
               new == NewReading(newbase, ReadAttributes(shown), services, ReadIcons(shown))
    <2>6. r = IF ~Versioned(shown) THEN Unread(base) ELSE new
      BY Zenon, <2>4, <2>5, ParseRight
    <2>7. newbase = urlBase
      BY <2>2, CutPortKeeps
    <2>8. services = shown.services /\ shown.services \in Seq(ServiceTexts)
          /\ Len(shown.services) \in Nat
      <3>1. /\ shown.services \in Seq(SlashedServices)
            /\ Len(shown.services) \in Nat /\ DOMAIN shown.services = 1..Len(shown.services)
            /\ \A k \in 1..Len(shown.services) :
                 BrisaAbstractService(shown.services[k]) = shown.services[k]
        BY DescribedIs DEF Described
      <3>2. shown.services = [k \in 1..Len(shown.services) |-> shown.services[k]]
        BY <3>1, LenProperties
      <3>3. shown.services \in Seq(ServiceTexts)
        BY <2>4 DEF Writable
      <3>4. QED
        BY <3>1, <3>2, <3>3
    <2> HIDE DEF r, services, newbase
    <2>9. new = NewReading(urlBase, ReadAttributes(shown), shown.services, ReadIcons(shown))
      BY <2>7, <2>8
    <2> HIDE DEF new
    <2>10. new \in Underway(shown)
      <3>1. /\ new.base = urlBase /\ new.attrs = ReadAttributes(shown)
            /\ new.services = << >> /\ new.todo = shown.services
            /\ new.icons = ReadIcons(shown) /\ new.fetched = FALSE
        BY <2>9 DEF NewReading
      <3>2. new \in [base : {urlBase}, attrs : {ReadAttributes(shown)},
                     services : Seq(ServicesRead), todo : Seq(ServiceTexts),
                     icons : {ReadIcons(shown)}, fetched : BOOLEAN]
        <4>1. << >> \in Seq(ServicesRead)
          BY EmptySeq
        <4>2. QED
          BY <2>8, <2>9, <4>1 DEF NewReading
      <3>3. new.todo = Drop(shown.services, 0) /\ ToldUpTo(new.services, 0, shown)
            /\ 0 \in 0..Len(shown.services)
        BY <2>8, <3>1, DropNothing, ToldNone
      <3>4. QED
        BY <3>2, <3>3 DEF Underway
    <2>11. QED
      BY <1>1, <2>6, <2>10 DEF r
  <1>4. QED
    BY <1>2, <1>3

(* The calls: each of a service that was found, and when no other of the   *)
(* service is outstanding, it was the last.                                *)
CallsOf(fs) ==
  {c \in [device : Nat, service : Nat, method : Methods, alone : BOOLEAN] :
     /\ c.device \in 1..Len(fs) /\ c.service \in 1..Len(fs[c.device].services)
     /\ c.alone => fs[c.device].services[c.service].lastMethod = c.method}
Bereft(fs) ==
  \E n \in 1..Len(fs) : \E k \in 1..Len(fs[n].services) : fs[n].services[k].actions = << >>
ResultRight(r, d) ==
  r.alone =>
    /\ r.reported = r.called
    /\ Apart(d) => \A a \in DOMAIN r.out : r.out[a] = << r.called, a >>
Locations == {l \in Text : l = << >> \/ OnServer(l)}

DeviceKnown == Described(device) /\ Described(shown) /\ PagesKnown
Quiet ==
  deviceState = "new" =>
    /\ gets = << >> /\ readings = << >> /\ found = << >> /\ calls = << >>
    /\ results = << >> /\ nullCall = "no" /\ pages = << >>
ReadersKnown ==
  /\ gets \in Seq(Locations) /\ readings \in Seq(ReadingsOf(shown))
  /\ found \in Seq(DevicesOf(shown))
CallsKnown == calls \in Seq(CallsOf(found))
ResultsKnown ==
  /\ results \in Seq(ToSet(results))
  /\ \A n \in 1..Len(results) : ResultRight(results[n], shown)
CrashKnown == nullCall = "alone" /\ Apart(shown) => Bereft(found)
ToldInv ==
  DeviceKnown /\ Quiet /\ ReadersKnown /\ CallsKnown /\ ResultsKnown /\ CrashKnown

LEMMA ToldInvInit ==
  ASSUME DescriptionInit
  PROVE  ToldInv
  <1>1. /\ device \in {EmptyDevice, BrisaDevice(Built)} /\ deviceState = "new"
        /\ shown = device /\ pages = << >> /\ gets = << >> /\ readings = << >>
        /\ found = << >> /\ calls = << >> /\ results = << >> /\ nullCall = "no"
    BY DEF DescriptionInit
  <1>2. Described(device)
    <2>1. Built \in [Attributes -> Text]
      BY DescriptionAssumption DEF DescriptionConstants
    <2>2. ASSUME NEW d, d \in {EmptyDevice, BrisaDevice(Built)} PROVE Described(d)
      <3>1. d \in Embeddables /\ (d.location = << >> \/ OnServer(d.location))
        BY <2>1, <2>2, Constructed
      <3>2. d.services = << >>
        BY <2>1, <2>2, Constructed
      <3>3. QED
        BY <3>1, <3>2, EmbeddableIs DEF Described
    <2>3. QED
      BY <1>1, <2>2
  <1>3. << >> \in Seq(Locations) /\ << >> \in Seq(ReadingsOf(shown))
        /\ << >> \in Seq(DevicesOf(shown)) /\ << >> \in Seq(CallsOf(found))
        /\ << >> \in Seq(ToSet(<< >>)) /\ 1..Len(<< >>) = {}
    BY EmptySeq
  <1>4. QED
    BY <1>1, <1>2, <1>3
    DEF ToldInv, DeviceKnown, Quiet, ReadersKnown, CallsKnown, ResultsKnown, CrashKnown,
        PagesKnown

(* What the vendor does before and after the device starts.                *)
LEMMA VendorStep ==
  ASSUME ToldInv, device' \in OperationsOn(device),
         UNCHANGED << deviceState, shown, pages, gets, readings, found, calls, results, nullCall >>
  PROVE  ToldInv'
  <1>1. Described(device')
    BY OperationsKnown DEF ToldInv, DeviceKnown
  <1>2. QED
    BY <1>1
    DEF ToldInv, DeviceKnown, Quiet, ReadersKnown, CallsKnown, ResultsKnown, CrashKnown,
        PagesKnown

LEMMA OperationStep ==
  ASSUME ToldInv, NEW new \in OperationsOn(device), Operation(new)
  PROVE  ToldInv'
  <1>1. /\ device' = new
        /\ UNCHANGED << deviceState, shown, pages, gets, readings, found, calls, results,
                        nullCall >>
    BY DEF Operation, call_vars
  <1>2. device' \in OperationsOn(device)
    BY <1>1
  <1>3. QED
    BY <1>1, <1>2, VendorStep

LEMMA StartStep ==
  ASSUME ToldInv, start \/ stop
  PROVE  ToldInv'
  <1>1. UNCHANGED << device, gets, readings, found, calls, results, nullCall >>
    BY DEF start, stop, call_vars
  <1>2. CASE start
    <2>1. /\ deviceState = "new" /\ deviceState' = "running" /\ shown' = device
          /\ pages' = buildWebServerTree(device)
      BY <1>2 DEF start
    <2>2. /\ gets = << >> /\ readings = << >> /\ found = << >> /\ calls = << >>
          /\ results = << >> /\ nullCall = "no"
      BY <2>1 DEF ToldInv, Quiet
    <2>3. DeviceKnown'
      BY <1>1, <2>1 DEF ToldInv, DeviceKnown, PagesKnown
    <2>4. << >> \in Seq(Locations) /\ << >> \in Seq(ReadingsOf(device))
          /\ << >> \in Seq(DevicesOf(device)) /\ << >> \in Seq(CallsOf(<< >>))
          /\ << >> \in Seq(ToSet(<< >>)) /\ 1..Len(<< >>) = {}
      BY EmptySeq
    <2>5. ReadersKnown' /\ CallsKnown' /\ ResultsKnown' /\ CrashKnown' /\ Quiet'
      BY <1>1, <2>1, <2>2, <2>4
      DEF ReadersKnown, CallsKnown, ResultsKnown, CrashKnown, Quiet
    <2>6. QED
      BY <2>3, <2>5 DEF ToldInv
  <1>3. CASE stop
    <2>1. deviceState' = "stopped" /\ pages' = << >> /\ shown' = shown
      BY <1>3 DEF stop
    <2>2. QED
      BY <1>1, <2>1
      DEF ToldInv, DeviceKnown, PagesKnown, ReadersKnown, CallsKnown, ResultsKnown, CrashKnown,
          Quiet
  <1>4. QED
    BY <1>2, <1>3

LEMMA LocationTold ==
  ASSUME ToldInv, deviceFound
  PROVE  ToldInv'
  <1>1. /\ deviceState = "running" /\ gets' = Append(gets, device.location)
        /\ UNCHANGED << device, deviceState, shown, pages, readings, found, calls, results,
                        nullCall >>
    BY DEF deviceFound, device_vars, call_vars
  <1>2. device.location \in Locations
    BY DEF ToldInv, DeviceKnown, Described, Describables, Locations
  <1>3. gets' \in Seq(Locations)
    BY <1>1, <1>2, AppendToList DEF ToldInv, ReadersKnown
  <1>4. QED
    BY <1>1, <1>3
    DEF ToldInv, DeviceKnown, PagesKnown, ReadersKnown, CallsKnown, ResultsKnown, CrashKnown,
        Quiet

(* The devices that were found keep their services.                        *)
LEMMA ServicesStay ==
  ASSUME NEW fs, NEW gs, Len(fs) \in Nat, Len(gs) \in Nat, Len(fs) <= Len(gs),
         \A n \in 1..Len(fs) : gs[n].services = fs[n].services
  PROVE  CallsOf(fs) \subseteq CallsOf(gs) /\ (Bereft(fs) => Bereft(gs))
  <1>1. \A n \in 1..Len(fs) : n \in 1..Len(gs)
    OBVIOUS
  <1>2. ASSUME NEW c \in CallsOf(fs) PROVE c \in CallsOf(gs)
    BY <1>1 DEF CallsOf
  <1>3. Bereft(fs) => Bereft(gs)
    BY <1>1 DEF Bereft
  <1>4. QED
    BY <1>2, <1>3

LEMMA FoundAppended ==
  ASSUME NEW D, found \in Seq(D), NEW f \in D, found' = Append(found, f)
  PROVE  /\ found' \in Seq(D)
         /\ CallsOf(found) \subseteq CallsOf(found') /\ (Bereft(found) => Bereft(found'))
  <1>1. /\ found' \in Seq(D) /\ Len(found') = Len(found) + 1 /\ Len(found) \in Nat
        /\ \A n \in 1..Len(found) : found'[n] = found[n]
    BY AppendToList, LenProperties
  <1> DEFINE fs == found
             gs == found'
  <1>2. Len(fs) \in Nat /\ Len(gs) \in Nat /\ Len(fs) <= Len(gs)
        /\ \A n \in 1..Len(fs) : gs[n].services = fs[n].services
    BY <1>1
  <1> HIDE DEF fs, gs
  <1>3. CallsOf(fs) \subseteq CallsOf(gs) /\ (Bereft(fs) => Bereft(gs))
    BY <1>2, ServicesStay
  <1>4. QED
    BY <1>1, <1>3 DEF fs, gs

LEMMA FoundReplaced ==
  ASSUME NEW D, found \in Seq(D), NEW n \in 1..Len(found), NEW g \in D,
         found' = [found EXCEPT ![n] = g]
  PROVE  /\ found' \in Seq(D) /\ Len(found') = Len(found) /\ found'[n] = g
         /\ \A k \in 1..Len(found) : k # n => found'[k] = found[k]
  <1>1. found \in [1..Len(found) -> D] /\ Len(found) \in Nat
    BY LenProperties
  <1>2. found' \in [1..Len(found) -> D]
    BY <1>1
  <1>3. found' \in Seq(D) /\ Len(found') = Len(found)
    BY <1>1, <1>2, SeqOfFunction
  <1>4. QED
    BY <1>1, <1>3

LEMMA ContinueKnown ==
  ASSUME Described(shown), NEW stack \in Seq(ReadingsOf(shown)), found \in Seq(DevicesOf(shown)),
         NEW r \in Underway(shown) \cup {Unread(b) : b \in Text}, Continue(stack, r)
  PROVE  /\ readings' \in Seq(ReadingsOf(shown))
         /\ found' \in Seq(DevicesOf(shown))
         /\ CallsOf(found) \subseteq CallsOf(found') /\ (Bereft(found) => Bereft(found'))
  <1>1. CASE r.todo # << >>
    <2> DEFINE new == [r EXCEPT !.fetched = FALSE]
    <2>1. readings' = Append(stack, new) /\ found' = found
      BY <1>1 DEF Continue
    <2>2. r \in Underway(shown)
      BY <1>1 DEF Unread
    <2>3. new \in ReadingsOf(shown)
      <3>1. /\ new.services = r.services /\ new.todo = r.todo
            /\ new \in [base : {urlBase}, attrs : {ReadAttributes(shown)},
                        services : Seq(ServicesRead), todo : Seq(ServiceTexts),
                        icons : {ReadIcons(shown)}, fetched : BOOLEAN]
        BY Zenon, <2>2 DEF Underway
      <3> HIDE DEF new
      <3>2. QED
        BY <1>1, <2>2, <3>1 DEF Underway, ReadingsOf
    <2> HIDE DEF new
    <2>4. QED
      BY <2>1, <2>3, AppendToList
  <1>2. CASE r.todo = << >>
    <2>1. readings' = stack /\ found' = Append(found, FoundOf(r))
      BY <1>2 DEF Continue, FoundOf
    <2>2. FoundOf(r) \in DevicesOf(shown)
      BY <1>2, ToldDevice DEF Described
    <2>3. QED
      BY <2>1, <2>2, FoundAppended
  <1>3. QED
    BY <1>1, <1>2

(* A step of the control point that tells of devices and calls nothing.    *)
LEMMA ReaderStep ==
  ASSUME ToldInv, deviceState # "new",
         UNCHANGED << device, deviceState, shown, pages, calls, results, nullCall >>,
         gets' \in Seq(Locations), readings' \in Seq(ReadingsOf(shown)),
         found' \in Seq(DevicesOf(shown)),
         CallsOf(found) \subseteq CallsOf(found'), Bereft(found) => Bereft(found')
  PROVE  ToldInv'
  <1>1. calls \in Seq(CallsOf(found'))
    BY SeqMonotonic DEF ToldInv, CallsKnown
  <1>2. QED
    BY <1>1
    DEF ToldInv, DeviceKnown, PagesKnown, ReadersKnown, CallsKnown, ResultsKnown, CrashKnown,
        Quiet

LEMMA ReplyStep ==
  ASSUME ToldInv, NEW i \in DOMAIN gets, replyFinished(i)
  PROVE  ToldInv'
  <1>1. /\ gets' = RemoveAt(gets, i)
        /\ UNCHANGED << device, deviceState, shown, pages, calls, results, nullCall >>
    BY DEF replyFinished, device_vars, call_vars
  <1>2. gets \in Seq(Locations) /\ readings \in Seq(ReadingsOf(shown))
        /\ found \in Seq(DevicesOf(shown)) /\ Described(shown) /\ PagesKnown
    BY DEF ToldInv, ReadersKnown, DeviceKnown
  <1>3. i \in 1..Len(gets)
    BY <1>2, LenProperties
  <1>4. deviceState # "new"
    BY <1>3 DEF ToldInv, Quiet
  <1>5. gets[i] \in Locations
    BY <1>2, <1>3, ElementOfSeq
  <1>6. gets' \in Seq(Locations)
    <2>1. gets' = RemoveAt(gets, i)
      BY <1>1 DEF RemoveAt
    <2>2. QED
      BY <1>2, <1>3, <2>1, RemoveFromSeq
  <1>7. CASE UNCHANGED << readings, found >>
    BY <1>1, <1>2, <1>4, <1>6, <1>7, ReaderStep
  <1>8. ASSUME NEW lost \in BOOLEAN,
               LET page == served(PathOf(gets[i]))
                   doc == IF lost \/ page.kind # "description" THEN << >> ELSE page.content
               IN  Continue(readings, parseDevice(doc, RemovePath(gets[i])))
        PROVE  ToldInv'
    <2> DEFINE page == served(PathOf(gets[i]))
               doc == IF lost \/ page.kind # "description" THEN << >> ELSE page.content
               r == parseDevice(doc, RemovePath(gets[i]))
    <2>1. Continue(readings, r)
      BY <1>8
    <2>2. r \in Underway(shown) \cup {Unread(b) : b \in Text}
      <3>1. gets[i] \in Text /\ (gets[i] = << >> \/ OnServer(gets[i]))
        BY <1>5 DEF Locations
      <3> DEFINE location == gets[i]
      <3> HIDE DEF location
      <3>2. \A l \in Text : l = << >> \/ OnServer(l) =>
              \A p, e : p = served(PathOf(l))
                        /\ e = (IF lost \/ p.kind # "description" THEN << >> ELSE p.content)
                        => parseDevice(e, RemovePath(l)) \in
                             Underway(shown) \cup {Unread(b) : b \in Text}
        BY <1>2, ReadingBegins
      <3>3. QED
        BY <3>1, <3>2
    <2> HIDE DEF r
    <2>3. /\ readings' \in Seq(ReadingsOf(shown)) /\ found' \in Seq(DevicesOf(shown))
          /\ CallsOf(found) \subseteq CallsOf(found') /\ (Bereft(found) => Bereft(found'))
      BY <1>2, <2>1, <2>2, ContinueKnown
    <2>4. QED
      BY <1>1, <1>4, <1>6, <2>3, ReaderStep
  <1>9. QED
    BY <1>7, <1>8 DEF replyFinished

(* The file of a service describes its own actions, or is not got.         *)
LEMMA DownloadStep ==
  ASSUME ToldInv, NEW i \in DOMAIN readings, downloadFinished(i)
  PROVE  ToldInv'
  <1>1. /\ readings \in Seq(ReadingsOf(shown)) /\ Described(shown) /\ PagesKnown
        /\ found \in Seq(DevicesOf(shown)) /\ gets \in Seq(Locations)
    BY DEF ToldInv, ReadersKnown, DeviceKnown
  <1>2. i \in 1..Len(readings) /\ readings \in [1..Len(readings) -> ReadingsOf(shown)]
        /\ Len(readings) \in Nat
    BY <1>1, LenProperties
  <1>3. deviceState # "new"
    BY <1>2 DEF ToldInv, Quiet
  <1> DEFINE r == readings[i]
             s == Head(r.todo)
             page == served(s["SCPDURL"])
             Following(services) == [r EXCEPT !.todo = Tail(@), !.fetched = TRUE,
                                              !.services = services]
             Kept(actions) == [s |-> s, actions |-> actions, lastMethod |-> ""]
  <1>4. /\ ~r.fetched
        /\ UNCHANGED << device, deviceState, shown, pages, calls, results, nullCall, gets, found >>
    BY Zenon DEF downloadFinished, device_vars, call_vars
  <1>5. \/ readings' = [readings EXCEPT ![i].todo = Tail(@), ![i].fetched = TRUE,
                                        ![i].services = r.services]
        \/ \E lost \in BOOLEAN :
             readings' =
               [readings EXCEPT
                  ![i].todo = Tail(@), ![i].fetched = TRUE,
                  ![i].services =
                    Append(r.services, Kept(IF lost \/ page.kind # "scpd" THEN << >>
                                            ELSE Scpd[page.content]))]
    BY Zenon DEF downloadFinished
  <1>6. /\ r \in ReadingsOf(shown) /\ r.todo # << >>
    BY <1>2, <1>4 DEF ReadingsOf
  <1>7. /\ r \in [base : {urlBase}, attrs : {ReadAttributes(shown)},
                  services : Seq(ServicesRead), todo : Seq(ServiceTexts),
                  icons : {ReadIcons(shown)}, fetched : BOOLEAN]
        /\ \E n \in 0..Len(shown.services) :
             r.todo = Drop(shown.services, n) /\ ToldUpTo(r.services, n, shown)
    BY <1>6 DEF ReadingsOf, Underway
  <1>8. PICK n \in 0..Len(shown.services) :
          r.todo = Drop(shown.services, n) /\ ToldUpTo(r.services, n, shown)
    BY <1>7
  <1>9. /\ shown.services \in Seq(SlashedServices) /\ Len(shown.services) \in Nat
        /\ \A k \in 1..Len(shown.services) : shown.services[k] \in ServiceTexts
    BY <1>1, DescribedIs DEF Described
  <1> DEFINE l == shown.services
  <1>10. /\ Drop(l, n) \in Seq(SlashedServices) /\ Len(Drop(l, n)) = Len(l) - n
         /\ \A k \in 1..Len(l) - n : Drop(l, n)[k] = l[n + k]
    BY Zenon, <1>9, DropOfSeq
  <1>11. n + 1 \in 1..Len(l) /\ s = l[n + 1] /\ n \in Nat
    <2>1. Head(Drop(l, n)) = Drop(l, n)[1] /\ 1 \in 1..Len(Drop(l, n))
      BY <1>6, <1>8, <1>10, TailOfSeq
    <2> HIDE DEF l
    <2>2. 1 \in 1..Len(l) - n
      BY <1>10, <2>1
    <2>3. Head(Drop(l, n)) = l[n + 1]
      BY <1>10, <2>1, <2>2
    <2>4. n + 1 \in 1..Len(l) /\ n \in Nat
      BY <1>9, <2>2 DEF l
    <2>5. QED
      BY <1>8, <2>3, <2>4 DEF l
  <1>12. Tail(r.todo) = Drop(l, n + 1) /\ Tail(r.todo) \in Seq(ServiceTexts)
    <2>1. r.todo \in Seq(ServiceTexts)
      BY <1>7
    <2>2. Tail(r.todo) \in Seq(ServiceTexts)
      BY <1>6, <2>1, TailOfSeq
    <2>3. Tail(Drop(l, n)) \in Seq(SlashedServices)
          /\ Len(Tail(Drop(l, n))) = Len(Drop(l, n)) - 1
          /\ \A k \in 1..Len(Drop(l, n)) - 1 : Tail(Drop(l, n))[k] = Drop(l, n)[k + 1]
      BY <1>6, <1>8, <1>10, TailOfSeq
    <2>4. n + 1 \in 0..Len(l)
      BY <1>11
    <2>5. /\ Drop(l, n + 1) \in Seq(SlashedServices) /\ Len(Drop(l, n + 1)) = Len(l) - (n + 1)
          /\ \A k \in 1..Len(l) - (n + 1) : Drop(l, n + 1)[k] = l[n + 1 + k]
      BY Zenon, <1>9, <2>4, DropOfSeq
    <2> HIDE DEF l
    <2>6. PICK m \in Nat : m = Len(l)
      BY <1>9 DEF l
    <2>7. Len(Drop(l, n)) - 1 = m - (n + 1) /\ Len(l) - (n + 1) = m - (n + 1)
          /\ m - (n + 1) \in Nat /\ Len(l) - n = m - n
      BY <1>10, <1>11, <2>4, <2>6
    <2>8. ASSUME NEW k \in 1..m - (n + 1) PROVE Tail(Drop(l, n))[k] = Drop(l, n + 1)[k]
      <3>1. k + 1 \in 1..m - n /\ n + (k + 1) = n + 1 + k
        BY <1>11, <2>6
      <3>2. Tail(Drop(l, n))[k] = l[n + (k + 1)]
        BY <1>10, <2>3, <2>7, <3>1
      <3>3. Drop(l, n + 1)[k] = l[n + 1 + k]
        BY <2>5, <2>7
      <3>4. QED
        BY Zenon, <3>1, <3>2, <3>3
    <2>9. Tail(Drop(l, n)) = Drop(l, n + 1)
      <3> DEFINE a == Tail(Drop(l, n))
                 b == Drop(l, n + 1)
      <3>1. a \in Seq(SlashedServices) /\ b \in Seq(SlashedServices) /\ Len(a) = m - (n + 1)
            /\ Len(b) = m - (n + 1) /\ \A k \in 1..m - (n + 1) : a[k] = b[k]
        BY Zenon, <2>3, <2>5, <2>7, <2>8
      <3> HIDE DEF a, b
      <3>2. a = b
        BY <3>1, SameSeq
      <3>3. QED
        BY <3>2 DEF a, b
    <2>10. QED
      <3>1. r.todo = Drop(l, n)
        BY <1>8 DEF l
      <3> HIDE DEF r
      <3>2. QED
        BY <2>2, <2>9, <3>1
  <1>13. s \in ServiceTexts
    BY <1>9, <1>11
  <1> HIDE DEF l
  <1>14. ASSUME NEW services \in Seq(ServicesRead), ToldUpTo(services, n + 1, shown)
         PROVE  Following(services) \in ReadingsOf(shown)
    <2> DEFINE new == Following(services)
    <2>1. /\ new \in [base : {urlBase}, attrs : {ReadAttributes(shown)},
                      services : Seq(ServicesRead), todo : Seq(ServiceTexts),
                      icons : {ReadIcons(shown)}, fetched : BOOLEAN]
          /\ new.fetched = TRUE /\ new.todo = Tail(r.todo) /\ new.services = services
      <3> HIDE DEF r
      <3>1. QED
        BY Zenon, <1>7, <1>12
    <2> HIDE DEF new
    <2>2. new \in Underway(shown)
      <3>1. n + 1 \in 0..Len(shown.services)
        BY <1>11 DEF l
      <3>2. new.todo = Drop(shown.services, n + 1) /\ ToldUpTo(new.services, n + 1, shown)
        BY <1>12, <1>14, <2>1 DEF l
      <3>3. QED
        BY <2>1, <3>1, <3>2 DEF Underway
    <2>3. new \in ReadingsOf(shown)
      BY <2>1, <2>2 DEF ReadingsOf
    <2>4. QED
      BY <2>3 DEF new
  <1>15. r.services \in Seq(ServicesRead)
    BY <1>7
  <1>16. ASSUME NEW new \in ReadingsOf(shown), readings' = [readings EXCEPT ![i] = new]
         PROVE  ToldInv'
    <2>1. readings' \in [1..Len(readings) -> ReadingsOf(shown)]
      BY <1>2, <1>16
    <2>2. readings' \in Seq(ReadingsOf(shown))
      BY <1>2, <2>1, SeqOfFunction
    <2>3. gets' \in Seq(Locations) /\ found' \in Seq(DevicesOf(shown)) /\ found' = found
      BY <1>1, <1>4
    <2>4. QED
      BY <1>3, <1>4, <2>2, <2>3, ReaderStep
  <1>17. \A services :
           [readings EXCEPT ![i].todo = Tail(@), ![i].fetched = TRUE, ![i].services = services]
             = [readings EXCEPT ![i] = Following(services)]
    BY Zenon, <1>2
  <1>18. ASSUME readings' = [readings EXCEPT ![i].todo = Tail(@), ![i].fetched = TRUE,
                                             ![i].services = r.services]
         PROVE  ToldInv'
    <2>1. n <= n + 1 /\ n \in Nat /\ n + 1 \in Nat
      BY <1>11
    <2>2. ToldUpTo(r.services, n + 1, shown)
      BY <1>8, <2>1, ToldFewer
    <2>3. Following(r.services) \in ReadingsOf(shown)
      BY Zenon, <1>14, <1>15, <2>2
    <2>4. readings' = [readings EXCEPT ![i] = Following(r.services)]
      BY Zenon, <1>17, <1>18
    <2> HIDE DEF Following
    <2>5. QED
      BY Zenon, <1>16, <2>3, <2>4
  <1>19. ASSUME NEW lost \in BOOLEAN, NEW actions,
                actions = (IF lost \/ page.kind # "scpd" THEN << >> ELSE Scpd[page.content]),
                readings' = [readings EXCEPT ![i].todo = Tail(@), ![i].fetched = TRUE,
                                             ![i].services = Append(r.services, Kept(actions))]
         PROVE  ToldInv'
    <2> DEFINE e == Kept(actions)
    <2>1. Kept(actions) \in ServicesRead
      <3>1. actions \in {<< >>} \cup {Scpd[t] : t \in Text}
        <4>1. page.kind = "scpd" => page.content \in Text
          <5>1. page # Nothing => page \in PagesOf(shown)
            BY <1>1, PageServed
          <5> HIDE DEF page
          <5>2. ASSUME page.kind = "scpd" PROVE page.content \in Text
            <6>1. page # Nothing /\ page # DefaultPage /\ page # DescriptionPage(shown)
              BY <5>2 DEF Nothing, DefaultPage, DescriptionPage, Page
            <6>2. PICK j \in 1..Len(shown.services) : page \in ServicePages(shown.services[j])
              BY <5>1, <6>1 DEF PagesOf
            <6>3. page.content = shown.services[j]["serviceType"]
                  /\ shown.services[j] \in ServiceTexts
              BY Zenon, <1>9, <6>2, ServicePagesAre
            <6>4. "serviceType" \in ToSet(ServiceTags)
              BY DEF ServiceTags, ToSet
            <6>5. QED
              BY <6>3, <6>4 DEF ServiceTexts
          <5>3. QED
            BY <5>2
        <4> HIDE DEF page
        <4>2. QED
          BY <1>19, <4>1
      <3> HIDE DEF s
      <3>2. QED
        BY <1>13, <3>1 DEF ServicesRead
    <2>2. Apart(shown) => actions \in OwnActions(shown, n + 1)
      <3>1. ASSUME Apart(shown), page.kind = "scpd"
            PROVE  page.content = shown.services[n + 1]["serviceType"]
        <4>1. s["SCPDURL"] = shown.services[n + 1]["SCPDURL"] /\ n + 1 \in 1..Len(shown.services)
          BY <1>11 DEF l
        <4>2. page = served(shown.services[n + 1]["SCPDURL"])
          BY <4>1
        <4> HIDE DEF page, s
        <4>3. served(shown.services[n + 1]["SCPDURL"]).kind \in {"control", "scpd"}
          BY <3>1, <4>2
        <4>4. served(shown.services[n + 1]["SCPDURL"]).content =
                shown.services[n + 1]["serviceType"]
          BY <1>1, <3>1, <4>1, <4>3, ServiceServed
        <4>5. QED
          BY <4>2, <4>4
      <3> HIDE DEF page
      <3>2. QED
        BY <1>19, <3>1 DEF OwnActions
    <2>3. Kept(actions).s = shown.services[n + 1] /\ Kept(actions).actions = actions
      BY <1>11 DEF l
    <2> HIDE DEF Kept, Following, page, r
    <2>4. ToldUpTo(Append(r.services, e), n + 1, shown)
      BY <1>8, <1>11, <1>15, <2>1, <2>2, <2>3, ToldNext
    <2>5. Append(r.services, e) \in Seq(ServicesRead)
      BY <1>15, <2>1, AppendToList
    <2>6. Following(Append(r.services, e)) \in ReadingsOf(shown)
      BY Zenon, <1>14, <2>4, <2>5
    <2>7. readings' = [readings EXCEPT ![i] = Following(Append(r.services, e))]
      BY Zenon, <1>17, <1>19
    <2>8. QED
      BY Zenon, <1>16, <2>6, <2>7
  <1>20. QED
    BY Zenon, <1>5, <1>18, <1>19

LEMMA ReturnStep ==
  ASSUME ToldInv, fetch_return
  PROVE  ToldInv'
  <1>1. /\ readings # << >> /\ gets' = gets
        /\ Continue(Front(readings), Last(readings))
        /\ UNCHANGED << device, deviceState, shown, pages, calls, results, nullCall >>
    BY DEF fetch_return, device_vars, call_vars
  <1>2. /\ readings \in Seq(ReadingsOf(shown)) /\ Described(shown)
        /\ found \in Seq(DevicesOf(shown)) /\ gets \in Seq(Locations) /\ deviceState # "new"
    BY <1>1 DEF ToldInv, ReadersKnown, DeviceKnown, Quiet
  <1>3. Front(readings) \in Seq(ReadingsOf(shown)) /\ Last(readings) \in Underway(shown)
    <2>1. Len(readings) \in Nat /\ Len(readings) # 0
      BY <1>1, <1>2, EmptySeq, LenProperties
    <2>2. readings[Len(readings)] \in ReadingsOf(shown)
      BY <1>2, <2>1, ElementOfSeq
    <2>3. PICK k \in Nat : 0 + k = Len(readings) - 1 /\ 0 + k <= Len(readings)
      <3>1. PICK m \in Nat : m = Len(readings) /\ m # 0
        BY <2>1
      <3>2. m - 1 \in Nat /\ 0 + (m - 1) = m - 1 /\ m - 1 <= m
        BY <3>1
      <3>3. QED
        BY <3>1, <3>2
    <2>4. 0 \in Nat
      OBVIOUS
    <2>5. SubSeq(readings, 0 + 1, 0 + k) \in Seq(ReadingsOf(shown))
      BY <1>2, <2>3, <2>4, PartOfSeq
    <2>6. SubSeq(readings, 1, Len(readings) - 1) \in Seq(ReadingsOf(shown))
      BY <2>3, <2>5
    <2>7. QED
      BY <2>2, <2>6 DEF Front, Last, ReadingsOf
  <1>4. /\ readings' \in Seq(ReadingsOf(shown)) /\ found' \in Seq(DevicesOf(shown))
        /\ CallsOf(found) \subseteq CallsOf(found') /\ (Bereft(found) => Bereft(found'))
    BY <1>1, <1>2, <1>3, ContinueKnown
  <1>5. QED
    BY <1>1, <1>2, <1>4, ReaderStep

(* A call is the last of its service; those before it are not alone.       *)
LEMMA CallStep ==
  ASSUME ToldInv, NEW d \in DOMAIN found, NEW k \in DOMAIN found[d].services,
         NEW method \in Methods, call(d, k, method)
  PROVE  ToldInv'
  <1>1. /\ found \in Seq(DevicesOf(shown)) /\ calls \in Seq(CallsOf(found))
        /\ gets \in Seq(Locations) /\ readings \in Seq(ReadingsOf(shown)) /\ Described(shown)
    BY DEF ToldInv, ReadersKnown, CallsKnown, DeviceKnown
  <1>2. /\ d \in 1..Len(found) /\ Len(found) \in Nat /\ found[d] \in DevicesOf(shown)
        /\ DOMAIN calls = 1..Len(calls) /\ Len(calls) \in Nat
        /\ calls \in [1..Len(calls) -> CallsOf(found)]
    BY <1>1, LenProperties, ElementOfSeq
  <1>3. deviceState # "new"
    BY <1>2 DEF ToldInv, Quiet
  <1> DEFINE f == found[d]
             services == f.services
             e == [services[k] EXCEPT !.lastMethod = method]
             new == [services EXCEPT ![k] = e]
             g == [f EXCEPT !.services = new]
             Same(i) == calls[i].device = d /\ calls[i].service = k
             c == [device |-> d, service |-> k, method |-> method,
                   alone |-> ~\E i \in DOMAIN calls : Same(i)]
             older == [i \in DOMAIN calls |-> [calls[i] EXCEPT !.alone = @ /\ ~Same(i)]]
  <1>4. /\ nullCall = "no"
        /\ found' = [found EXCEPT ![d].services[k].lastMethod = method]
        /\ calls' = Append(older, c)
        /\ UNCHANGED << device, deviceState, shown, pages, gets, readings, results, nullCall >>
    BY DEF call, device_vars
  <1>5. found' = [found EXCEPT ![d] = g]
    BY <1>2, <1>4
  <1>6. /\ f \in Devices(shown) /\ Counted(f) /\ services \in Seq(ServicesRead)
        /\ k \in 1..Len(services) /\ Len(services) \in Nat
        /\ services \in [1..Len(services) -> ServicesRead]
    <2>1. f \in Devices(shown) /\ Counted(f) /\ services \in Seq(ServicesRead)
      BY <1>2 DEF DevicesOf, Devices
    <2>2. QED
      BY <2>1, LenProperties
  <1>7. ReadRight(f, shown)
    <2>1. services # << >>
      BY <1>6
    <2>2. QED
      BY <1>2, <2>1 DEF DevicesOf
  <1>8. e \in ServicesRead /\ e.s = services[k].s /\ e.actions = services[k].actions
        /\ e.lastMethod = method
    <2>1. services[k] \in ServicesRead
      BY <1>6
    <2> HIDE DEF services
    <2>2. QED
      BY Zenon, <2>1 DEF ServicesRead
  <1> HIDE DEF e
  <1>9. /\ new \in [1..Len(services) -> ServicesRead] /\ new[k] = e
        /\ \A j \in 1..Len(services) : j # k => new[j] = services[j]
    BY <1>6, <1>8
  <1>10. new \in Seq(ServicesRead) /\ Len(new) = Len(services)
    BY <1>6, <1>9, SeqOfFunction
  <1> HIDE DEF new
  <1>11. \A j \in 1..Len(services) :
           new[j].s = services[j].s /\ new[j].actions = services[j].actions
    BY <1>8, <1>9
  <1>12. /\ g \in Devices(shown) /\ g.services = new /\ g.attrs = f.attrs /\ g.base = f.base
         /\ g.icons = f.icons /\ g.connected = f.connected /\ g.awaited = f.awaited
         /\ g.downloaded = f.downloaded /\ g.ready = f.ready
    <2> HIDE DEF f
    <2>1. QED
      BY Zenon, <1>6, <1>10 DEF Devices
  <1>13. g \in DevicesOf(shown)
    <2> HIDE DEF f, g
    <2>1. Counted(g)
      BY <1>6, <1>12 DEF Counted
    <2>2. ToldUpTo(services, Len(shown.services), shown)
      BY <1>7 DEF ReadRight
    <2> HIDE DEF services
    <2>3. ToldUpTo(new, Len(shown.services), shown)
      BY Zenon, <1>10, <1>11, <2>2, ToldSame
    <2>4. ReadRight(g, shown)
      BY <1>7, <1>12, <2>3 DEF ReadRight
    <2>5. QED
      BY <1>12, <2>1, <2>4 DEF DevicesOf
  <1> HIDE DEF g
  <1>14. /\ found' \in Seq(DevicesOf(shown)) /\ Len(found') = Len(found) /\ found'[d] = g
         /\ \A n \in 1..Len(found) : n # d => found'[n] = found[n]
    BY <1>1, <1>2, <1>5, <1>13, FoundReplaced
  <1>15. ASSUME NEW i \in 1..Len(calls)
         PROVE  [calls[i] EXCEPT !.alone = @ /\ ~Same(i)] \in CallsOf(found')
    <2> DEFINE b == calls[i]
               n == [b EXCEPT !.alone = @ /\ ~Same(i)]
               U == [device : Nat, service : Nat, method : Methods, alone : BOOLEAN]
    <2>1. /\ b \in U /\ b.device \in 1..Len(found)
          /\ b.service \in 1..Len(found[b.device].services)
          /\ b.alone => found[b.device].services[b.service].lastMethod = b.method
      BY <1>2 DEF CallsOf
    <2>2. Same(i) <=> b.device = d /\ b.service = k
      OBVIOUS
    <2> HIDE DEF b, Same
    <2>3. /\ n \in U /\ n.device = b.device /\ n.service = b.service /\ n.method = b.method
          /\ n.alone <=> (b.alone /\ ~Same(i))
      BY Zenon, <2>1
    <2> HIDE DEF n
    <2>4. n.device \in 1..Len(found')
      BY <1>14, <2>1, <2>3
    <2>5. n.service \in 1..Len(found'[n.device].services)
      <3>1. CASE b.device = d
        BY <1>10, <1>12, <1>14, <2>1, <2>3, <3>1
      <3>2. CASE b.device # d
        BY <1>14, <2>1, <2>3, <3>2
      <3>3. QED
        BY <3>1, <3>2
    <2>6. ASSUME n.alone PROVE found'[n.device].services[n.service].lastMethod = n.method
      <3>1. CASE b.device = d
        <4>1. b.service # k /\ b.service \in 1..Len(services)
          BY <2>1, <2>2, <2>3, <2>6, <3>1
        <4>2. found'[n.device].services[n.service] = services[b.service]
          BY <1>9, <1>12, <1>14, <2>3, <3>1, <4>1
        <4>3. services[b.service].lastMethod = b.method
          BY <2>1, <2>3, <2>6, <3>1
        <4>4. QED
          BY <2>3, <4>2, <4>3
      <3>2. CASE b.device # d
        <4>1. found'[n.device] = found[b.device]
          BY <1>14, <2>1, <2>3, <3>2
        <4>2. found[b.device].services[b.service].lastMethod = b.method
          BY <2>1, <2>3, <2>6
        <4>3. QED
          BY <2>3, <4>1, <4>2
      <3>3. QED
        BY <3>1, <3>2
    <2>7. n \in CallsOf(found')
      BY <2>3, <2>4, <2>5, <2>6 DEF CallsOf
    <2>8. QED
      BY <2>7 DEF n, b
  <1>16. c \in CallsOf(found')
    <2>1. c.device = d /\ c.service = k /\ c.method = method
          /\ c \in [device : Nat, service : Nat, method : Methods, alone : BOOLEAN]
      BY <1>2, <1>6
    <2> HIDE DEF c
    <2>2. found'[d].services[k].lastMethod = method /\ k \in 1..Len(found'[d].services)
          /\ d \in 1..Len(found')
      BY <1>2, <1>6, <1>8, <1>9, <1>10, <1>12, <1>14
    <2>3. QED
      BY <2>1, <2>2 DEF CallsOf
  <1>17. calls' \in Seq(CallsOf(found'))
    <2>1. older \in [1..Len(calls) -> CallsOf(found')]
      BY <1>2, <1>15
    <2> HIDE DEF older, c
    <2>2. older \in Seq(CallsOf(found'))
      BY <1>2, <2>1, SeqOfFunction
    <2>3. QED
      BY <1>4, <1>16, <2>2, AppendToList
  <1>18. nullCall' # "alone"
    BY <1>4
  <1>19. QED
    <2>1. ReadersKnown' /\ CallsKnown' /\ ResultsKnown' /\ CrashKnown'
      BY <1>1, <1>4, <1>14, <1>17, <1>18
      DEF ToldInv, ReadersKnown, CallsKnown, ResultsKnown, CrashKnown
    <2>2. DeviceKnown' /\ Quiet'
      BY <1>3, <1>4 DEF ToldInv, DeviceKnown, PagesKnown, Quiet
    <2>3. QED
      BY <2>1, <2>2 DEF ToldInv

(* What is known of a service when an answer for a call of it comes.       *)
LEMMA CalledService ==
  ASSUME ToldInv, NEW i \in DOMAIN calls
  PROVE  LET c == calls[i]
             service == found[c.device].services[c.service]
         IN  /\ i \in 1..Len(calls)
             /\ c \in CallsOf(found)
             /\ \E j \in 1..Len(shown.services) :
                  /\ service.s = shown.services[j]
                  /\ Apart(shown) => service.actions \in OwnActions(shown, j)
  <1> DEFINE c == calls[i]
             f == found[c.device]
  <1>1. /\ calls \in Seq(CallsOf(found)) /\ found \in Seq(DevicesOf(shown))
    BY DEF ToldInv, ReadersKnown, CallsKnown
  <1>2. i \in 1..Len(calls) /\ c \in CallsOf(found)
    BY <1>1, LenProperties, ElementOfSeq
  <1> HIDE DEF c
  <1>3. c.device \in 1..Len(found) /\ c.service \in 1..Len(f.services)
    BY <1>2 DEF CallsOf
  <1>4. f \in DevicesOf(shown)
    BY <1>1, <1>3, ElementOfSeq
  <1> HIDE DEF f
  <1>5. ReadRight(f, shown)
    <2>1. f.services # << >>
      BY <1>3
    <2>2. QED
      BY <1>4, <2>1 DEF DevicesOf
  <1>6. PICK t : ToldAs(f.services, Len(shown.services), shown, t)
    BY <1>5 DEF ReadRight, ToldUpTo
  <1>7. /\ t[c.service] \in 1..Len(shown.services)
        /\ f.services[c.service].s = shown.services[t[c.service]]
        /\ Apart(shown) => f.services[c.service].actions \in OwnActions(shown, t[c.service])
    BY <1>3, <1>6 DEF ToldAs
  <1>8. QED
    BY <1>2, <1>7 DEF c, f

LEMMA AnswerStep ==
  ASSUME ToldInv, NEW i \in DOMAIN calls, getResponse(i)
  PROVE  ToldInv'
  <1> DEFINE c == calls[i]
             service == found[c.device].services[c.service]
             reported == service.lastMethod
             failed == [fault |-> TRUE, method |-> c.method, out |-> {}]
             Result(answer, out) ==
               [called |-> c.method, reported |-> reported, fault |-> answer.fault,
                out |-> out, alone |-> c.alone]
             Out(answer) == [a \in service.actions[reported] |->
                               IF a \in answer.out THEN << answer.method, a >> ELSE << >>]
  <1>1. /\ i \in 1..Len(calls) /\ c \in CallsOf(found)
        /\ \E j \in 1..Len(shown.services) :
             /\ service.s = shown.services[j]
             /\ Apart(shown) => service.actions \in OwnActions(shown, j)
    BY CalledService
  <1>2. PICK j \in 1..Len(shown.services) :
             /\ service.s = shown.services[j]
             /\ Apart(shown) => service.actions \in OwnActions(shown, j)
    BY <1>1
  <1>3. /\ Described(shown) /\ PagesKnown /\ calls \in Seq(CallsOf(found))
        /\ results \in Seq(ToSet(results))
        /\ \A n \in 1..Len(results) : ResultRight(results[n], shown)
    BY DEF ToldInv, DeviceKnown, CallsKnown, ResultsKnown
  <1>4. deviceState # "new"
    BY <1>1 DEF ToldInv, Quiet
  <1>5. c.alone => reported = c.method
    BY <1>1 DEF CallsOf
  <1>6. /\ nullCall = "no" /\ calls' = RemoveAt(calls, i)
        /\ UNCHANGED << device, deviceState, shown, pages, gets, readings, found >>
    BY Zenon DEF getResponse, device_vars
  <1>7. PICK answer \in {Answer(service.s, c.method), failed} :
          \/ /\ answer.fault
             /\ results' = Append(results, Result(answer, << >>)) /\ nullCall' = nullCall
          \/ /\ ~answer.fault /\ reported \in DOMAIN service.actions
             /\ results' = Append(results, Result(answer, Out(answer)))
             /\ nullCall' = nullCall
          \/ /\ ~answer.fault /\ reported \notin DOMAIN service.actions
             /\ nullCall' = (IF c.alone THEN "alone" ELSE "overlapped") /\ results' = results
    BY Zenon DEF getResponse
  <1> HIDE DEF service, c
  <1>8. calls' \in Seq(CallsOf(found))
    <2>1. calls' = RemoveAt(calls, i)
      BY <1>6 DEF RemoveAt
    <2>2. QED
      BY <1>1, <1>3, <2>1, RemoveFromSeq
  (* an answer that is no fault is that of the service itself *)
  <1>9. ASSUME ~answer.fault, Apart(shown)
        PROVE  LET own == Scpd[shown.services[j]["serviceType"]]
               IN  /\ c.method \in DOMAIN own
                   /\ answer.method = c.method /\ answer.out = own[c.method]
                   /\ service.actions \in {<< >>, own}
    <2> DEFINE page == served(shown.services[j]["controlURL"])
    <2>1. answer = Answer(shown.services[j], c.method)
      <3>1. failed.fault
        OBVIOUS
      <3>2. answer # failed
        BY <1>9, <3>1
      <3>3. QED
        BY <1>2, <1>7, <3>2
    <2>2. page.kind = "control" /\ c.method \in DOMAIN Scpd[page.content]
          /\ answer.method = c.method /\ answer.out = Scpd[page.content][c.method]
      <3> HIDE DEF page
      <3>1. Answer(shown.services[j], c.method) =
              IF page.kind = "control" /\ c.method \in DOMAIN Scpd[page.content]
              THEN [fault |-> FALSE, method |-> c.method, out |-> Scpd[page.content][c.method]]
              ELSE [fault |-> TRUE, method |-> c.method, out |-> {}]
        BY Zenon DEF Answer, page
      <3>2. QED
        BY <1>9, <2>1, <3>1
    <2>3. page.content = shown.services[j]["serviceType"]
      <3>1. page.kind \in {"control", "scpd"}
        BY <2>2
      <3>2. QED
        BY <1>3, <1>9, <3>1, ServiceServed
    <2> HIDE DEF page
    <2>4. QED
      BY <1>2, <1>9, <2>2, <2>3 DEF OwnActions
  <1>10. ASSUME NEW r, ResultRight(r, shown), results' = Append(results, r),
                nullCall' = nullCall
         PROVE  ToldInv'
    <2>1. /\ results' \in Seq(ToSet(results')) /\ Len(results') = Len(results) + 1
          /\ Len(results) \in Nat /\ results'[Len(results) + 1] = r
          /\ \A n \in 1..Len(results) : results'[n] = results[n]
      BY <1>3, <1>10, AppendToOwn
    <2>2. \A n \in 1..Len(results') : ResultRight(results'[n], shown)
      <3>1. ASSUME NEW n \in 1..Len(results') PROVE ResultRight(results'[n], shown)
        <4>1. n \in 1..Len(results) \/ n = Len(results) + 1
          BY <2>1
        <4>2. QED
          BY <1>3, <1>10, <2>1, <4>1
      <3>2. QED
        BY <3>1
    <2>3. DeviceKnown' /\ Quiet' /\ ReadersKnown' /\ CrashKnown'
      BY <1>4, <1>6, <1>10
      DEF ToldInv, DeviceKnown, PagesKnown, Quiet, ReadersKnown, CrashKnown
    <2>4. CallsKnown' /\ ResultsKnown'
      BY <1>6, <1>8, <2>1, <2>2 DEF CallsKnown, ResultsKnown
    <2>5. QED
      BY <2>3, <2>4 DEF ToldInv
  <1>11. CASE answer.fault
    <2> DEFINE r == Result(answer, << >>)
    <2>1. r.reported = reported /\ r.called = c.method /\ r.alone = c.alone /\ r.out = << >>
      OBVIOUS
    <2>2. DOMAIN << >> = {}
      OBVIOUS
    <2> HIDE DEF r, reported
    <2>3. ResultRight(r, shown)
      BY <1>5, <2>1, <2>2 DEF ResultRight
    <2>4. results' = Append(results, r) /\ nullCall' = nullCall
      BY <1>7, <1>11 DEF r, reported
    <2>5. QED
      BY <1>10, <2>3, <2>4
  <1>12. CASE ~answer.fault /\ reported \in DOMAIN service.actions
    <2> DEFINE r == Result(answer, Out(answer))
    <2>1. r.reported = reported /\ r.called = c.method /\ r.alone = c.alone
          /\ r.out = Out(answer)
      OBVIOUS
    <2>2. ASSUME c.alone, Apart(shown), NEW a \in DOMAIN Out(answer)
          PROVE  Out(answer)[a] = << c.method, a >>
      <3>1. service.actions # << >>
        BY <1>12
      <3>2. service.actions[reported] = answer.out /\ answer.method = c.method
        BY <1>5, <1>9, <1>12, <2>2, <3>1
      <3>3. a \in service.actions[reported]
        BY <2>2
      <3>4. QED
        BY <3>2, <3>3
    <2> HIDE DEF r, reported, Out
    <2>3. ResultRight(r, shown)
      BY <1>5, <2>1, <2>2 DEF ResultRight
    <2>4. results' = Append(results, r) /\ nullCall' = nullCall
      BY <1>7, <1>12 DEF r
    <2>5. QED
      BY <1>10, <2>3, <2>4
  <1>13. CASE ~answer.fault /\ reported \notin DOMAIN service.actions
    <2> HIDE DEF reported, Out
    <2>1. nullCall' = (IF c.alone THEN "alone" ELSE "overlapped") /\ results' = results
      BY <1>7, <1>13
    <2>2. nullCall' = "alone" /\ Apart(shown) => Bereft(found)
      <3>1. SUFFICES ASSUME c.alone, Apart(shown) PROVE Bereft(found)
        BY <2>1
      <3>2. service.actions = << >>
        BY <1>5, <1>9, <1>13, <3>1
      <3>3. c.device \in 1..Len(found) /\ c.service \in 1..Len(found[c.device].services)
        BY <1>1 DEF CallsOf
      <3>4. QED
        BY <3>2, <3>3 DEF Bereft, service
    <2>3. DeviceKnown' /\ Quiet' /\ ReadersKnown' /\ CrashKnown' /\ CallsKnown' /\ ResultsKnown'
      BY <1>3, <1>4, <1>6, <1>8, <2>1, <2>2
      DEF ToldInv, DeviceKnown, PagesKnown, Quiet, ReadersKnown, CrashKnown, CallsKnown,
          ResultsKnown
    <2>4. QED
      BY <2>3 DEF ToldInv
  <1>14. QED
    BY <1>7, <1>11, <1>12, <1>13

(* The icons of a device that was found are asked for, or one has come.    *)
LEMMA IconStep ==
  ASSUME ToldInv, NEW d \in DOMAIN found,
         downloadIcons(d) \/ \E i \in DOMAIN found[d].awaited : iconDownloaded(d, i)
  PROVE  ToldInv'
  <1>1. /\ found \in Seq(DevicesOf(shown)) /\ Described(shown) /\ calls \in Seq(CallsOf(found))
        /\ gets \in Seq(Locations) /\ readings \in Seq(ReadingsOf(shown))
    BY DEF ToldInv, ReadersKnown, DeviceKnown, CallsKnown
  <1>2. d \in 1..Len(found) /\ Len(found) \in Nat /\ found[d] \in DevicesOf(shown)
    BY <1>1, LenProperties, ElementOfSeq
  <1>3. deviceState # "new"
    BY <1>2 DEF ToldInv, Quiet
  <1> DEFINE f == found[d]
  <1>4. UNCHANGED << device, deviceState, shown, pages, calls, results, nullCall, gets, readings >>
    BY Zenon DEF downloadIcons, iconDownloaded, device_vars, call_vars
  <1>5. /\ f \in Devices(shown) /\ Counted(f)
        /\ (f.attrs = << >> /\ f.services = << >>) \/ ReadRight(f, shown)
    BY <1>2 DEF DevicesOf
  <1>6. PICK n \in Nat : n = Len(f.icons) /\ DOMAIN f.icons = 1..n
                         /\ (n = 0 <=> f.icons = << >>)
    <2>1. Len(shown.icons) \in Nat
      BY <1>1, LenProperties DEF Described, Describables
    <2>2. f.icons \in {<< >>, ReadIcons(shown)}
      BY <1>5 DEF Devices
    <2>3. DOMAIN ReadIcons(shown) = 1..Len(shown.icons)
          /\ Len(ReadIcons(shown)) = Len(shown.icons)
      <3>1. ReadIcons(shown) \in [1..Len(shown.icons) -> {shown.icons[1]}]
        BY DEF ReadIcons
      <3>2. QED
        BY <2>1, <3>1, SeqOfFunction
    <2>4. ReadIcons(shown) = << >> <=> Len(shown.icons) = 0
      BY <2>1, <2>3
    <2>5. Len(<< >>) = 0 /\ DOMAIN << >> = 1..0
      OBVIOUS
    <2>6. QED
      BY <2>1, <2>2, <2>3, <2>4, <2>5
  <1>7. PICK m \in Nat : m = Len(f.awaited) /\ (m = 0 <=> f.awaited = << >>)
    <2>1. f.awaited \in Seq(Nat)
      BY <1>5 DEF Devices
    <2>2. QED
      BY <2>1, LenProperties, EmptySeq
  <1>8. /\ f.awaited \in Seq(Nat) /\ f.connected \in Nat /\ f.downloaded \in Nat
        /\ f.ready \in Nat
    BY <1>5 DEF Devices
  <1>9. ASSUME NEW g \in Devices(shown), Counted(g), found' = [found EXCEPT ![d] = g],
               g.services = f.services, g.attrs = f.attrs, g.base = f.base, g.icons = f.icons
        PROVE  ToldInv'
    <2>1. g \in DevicesOf(shown)
      BY <1>5, <1>9 DEF DevicesOf, ReadRight
    <2>2. /\ found' \in Seq(DevicesOf(shown)) /\ Len(found') = Len(found) /\ found'[d] = g
          /\ \A k \in 1..Len(found) : k # d => found'[k] = found[k]
      BY <1>1, <1>2, <1>9, <2>1, FoundReplaced
    <2>3. CallsOf(found) \subseteq CallsOf(found') /\ (Bereft(found) => Bereft(found'))
      <3> DEFINE gs == found'
      <3>1. Len(gs) \in Nat /\ Len(found) <= Len(gs)
            /\ \A k \in 1..Len(found) : gs[k].services = found[k].services
        BY <1>2, <1>9, <2>2
      <3> HIDE DEF gs
      <3>2. CallsOf(found) \subseteq CallsOf(gs) /\ (Bereft(found) => Bereft(gs))
        BY <1>2, <3>1, ServicesStay
      <3>3. QED
        BY <3>2 DEF gs
    <2>4. QED
      BY <1>1, <1>3, <1>4, <2>2, <2>3, ReaderStep
  <1>10. CASE downloadIcons(d)
    <2> DEFINE all == [i \in DOMAIN f.icons |-> i]
               awaited == f.awaited \o all
               connected == f.connected + 1
               g == [f EXCEPT !.downloaded = 0, !.connected = connected, !.awaited = awaited]
    <2>1. found' = [found EXCEPT ![d].downloaded = 0, ![d].connected = @ + 1,
                                 ![d].awaited = @ \o all]
      BY <1>10 DEF downloadIcons
    <2>2. found' = [found EXCEPT ![d] = g]
      BY Zenon, <1>2, <2>1
    <2>3. all \in Seq(Nat) /\ Len(all) = n
      <3>1. all \in [1..n -> Nat]
        BY <1>6
      <3> HIDE DEF all
      <3>2. QED
        BY <3>1, SeqOfFunction
    <2>4. f.awaited \o all \in Seq(Nat) /\ Len(f.awaited \o all) = m + n
      <3> HIDE DEF all
      <3>1. QED
        BY ZenonT(30), <1>7, <1>8, <2>3, ConcatProperties
    <2> HIDE DEF f
    <2>5. /\ g \in Devices(shown) /\ g.services = f.services /\ g.attrs = f.attrs
          /\ g.base = f.base /\ g.icons = f.icons /\ g.downloaded = 0
          /\ g.connected = connected /\ g.awaited = awaited /\ g.ready = f.ready
      <3>1. awaited \in Seq(Nat) /\ connected \in Nat
        BY <1>8, <2>4
      <3> HIDE DEF awaited, connected
      <3>2. QED
        BY Zenon, <1>5, <3>1 DEF Devices
    <2> HIDE DEF all
    <2> HIDE DEF g
    <2>6. Counted(g)
      <3>1. g.connected # 0
        BY <1>8, <2>5
      <3>2. ASSUME g.connected = 1
            PROVE  /\ Len(g.awaited) + g.downloaded = Len(g.icons)
                   /\ g.icons # << >> => g.ready = IF g.awaited = << >> THEN 1 ELSE 0
        <4>1. f.connected = 0
          BY <1>8, <2>5, <3>2
        <4>2. m = 0 /\ f.ready = 0
          BY <1>5, <1>7, <4>1 DEF Counted
        <4>3. Len(g.awaited) = n
          BY <2>4, <2>5, <4>2
        <4>4. g.icons # << >> => g.awaited # << >>
          <5>1. Len(<< >>) = 0
            OBVIOUS
          <5>2. QED
            BY <1>6, <2>5, <4>3, <5>1
        <4>5. QED
          BY <1>6, <2>5, <4>2, <4>3, <4>4
      <3>3. QED
        BY <3>1, <3>2 DEF Counted
    <2>7. QED
      BY Zenon, <1>9, <2>2, <2>5, <2>6
  <1>11. ASSUME NEW i \in DOMAIN f.awaited, iconDownloaded(d, i)
         PROVE  ToldInv'
    <2> DEFINE left == RemoveAt(f.awaited, i)
               count == f.downloaded + f.connected
               full == Len(f.icons) \in (f.downloaded + 1)..count
               ready == IF full THEN f.ready + 1 ELSE f.ready
               g == [f EXCEPT !.awaited = left, !.downloaded = count, !.ready = ready]
    <2>1. found' = [found EXCEPT ![d].awaited = RemoveAt(@, i), ![d].downloaded = count,
                                 ![d].ready = IF full THEN @ + 1 ELSE @]
      BY <1>11, Zenon DEF iconDownloaded
    <2>2. found' = [found EXCEPT ![d] = g]
      <3> HIDE DEF full, count
      <3>1. QED
        BY Zenon, <1>2, <2>1
    <2>3. i \in 1..Len(f.awaited)
      BY <1>8, LenProperties
    <2>4. left \in Seq(Nat) /\ Len(left) = m - 1 /\ m # 0
      <3>1. left = RemoveAt(f.awaited, i)
        BY DEF RemoveAt
      <3>2. RemoveAt(f.awaited, i) \in Seq(Nat)
            /\ Len(RemoveAt(f.awaited, i)) = Len(f.awaited) - 1
        BY Zenon, <1>8, <2>3, RemoveFromSeq
      <3> HIDE DEF left, f
      <3>3. m # 0
        BY <1>7, <2>3
      <3>4. QED
        BY <1>7, <3>1, <3>2, <3>3
    <2>5. count \in Nat /\ ready \in Nat
      <3> HIDE DEF full, f
      <3>1. QED
        BY <1>8
    <2> HIDE DEF left, f
    <2>6. /\ g \in Devices(shown) /\ g.services = f.services /\ g.attrs = f.attrs
          /\ g.base = f.base /\ g.icons = f.icons /\ g.downloaded = count
          /\ g.connected = f.connected /\ g.awaited = left /\ g.ready = ready
      <3> HIDE DEF count, ready
      <3>1. QED
        BY Zenon, <1>5, <2>4, <2>5 DEF Devices
    <2> HIDE DEF g
    <2>7. Counted(g)
      <3>1. f.connected # 0
        BY <1>5, <1>7, <2>4 DEF Counted
      <3>2. ASSUME f.connected = 1
            PROVE  /\ Len(g.awaited) + g.downloaded = Len(g.icons)
                   /\ g.icons # << >> => g.ready = IF g.awaited = << >> THEN 1 ELSE 0
        <4>1. /\ m + f.downloaded = n
              /\ f.icons # << >> => f.ready = IF f.awaited = << >> THEN 1 ELSE 0
          BY <1>5, <1>6, <1>7, <3>2 DEF Counted
        <4>2. f.icons # << >> => f.ready = 0
          BY <1>7, <2>4, <4>1
        <4>3. count = f.downloaded + 1
          BY <3>2
        <4>4. full <=> n = f.downloaded + 1
          BY <1>6, <1>8, <4>3
        <4>5. left = << >> <=> m = 1
          <5>1. Len(<< >>) = 0
            OBVIOUS
          <5>2. left = << >> <=> Len(left) = 0
            BY <2>4, <5>1, EmptySeq
          <5>3. QED
            BY <2>4, <5>2
        <4>6. full <=> left = << >>
          <5> HIDE DEF full
          <5>1. QED
            BY <1>8, <4>1, <4>4, <4>5
        <4>7. Len(left) + count = n
          <5> HIDE DEF count
          <5>1. QED
            BY <1>8, <2>4, <4>1, <4>3
        <4> HIDE DEF full, count
        <4>8. QED
          BY <1>6, <2>6, <4>2, <4>6, <4>7
      <3>3. QED
        BY <2>6, <3>1, <3>2 DEF Counted
    <2>8. QED
      BY Zenon, <1>9, <2>2, <2>6, <2>7
  <1>12. QED
    BY <1>10, <1>11

LEMMA ToldInvNext ==
  ASSUME ToldInv, [DescriptionNext]_description_vars
  PROVE  ToldInv'
  <1>1. CASE UNCHANGED description_vars
    BY <1>1
    DEF description_vars, device_vars, call_vars, ToldInv, DeviceKnown, PagesKnown, ReadersKnown,
        CallsKnown, ResultsKnown, CrashKnown, Quiet
  <1>2. CASE \E x \in Settings : setAttribute(x[1], x[2])
    <2>1. PICK x \in Settings : setAttribute(x[1], x[2])
      BY <1>2
    <2> DEFINE named == [device EXCEPT !.attrs["friendlyName"] = withoutSpaces(x[2]),
                                       !.fileAddress = FileOf(x[2])]
               moved == [device EXCEPT !.location = x[2]]
               other == [device EXCEPT !.attrs[x[1]] = x[2]]
    <2>2. CASE x[1] = "location"
      <3>1. Operation(moved)
        BY <2>1, <2>2 DEF setAttribute
      <3>2. moved \in OperationsOn(device)
        BY Zenon, <2>2 DEF OperationsOn
      <3> HIDE DEF moved
      <3>3. QED
        BY <3>1, <3>2, OperationStep
    <2>3. CASE x[1] = "friendlyName"
      <3>1. Operation(named)
        BY <2>1, <2>3 DEF setAttribute
      <3>2. named \in OperationsOn(device)
        BY Zenon DEF OperationsOn
      <3> HIDE DEF named
      <3>3. QED
        BY <3>1, <3>2, OperationStep
    <2>4. CASE x[1] # "location" /\ x[1] # "friendlyName"
      <3>1. Operation(other)
        BY <2>1, <2>4 DEF setAttribute
      <3>2. other \in OperationsOn(device)
        BY Zenon DEF OperationsOn
      <3> HIDE DEF other
      <3>3. QED
        BY <3>1, <3>2, OperationStep
    <2>5. QED
      BY <2>2, <2>3, <2>4
  <1>3. CASE \E s \in Offered : addService(s)
    <2>1. PICK s \in Offered : addService(s)
      BY <1>3
    <2> DEFINE new == [device EXCEPT !.services = Append(@, BrisaAbstractService(s))]
    <2>2. Operation(new) /\ new \in OperationsOn(device)
      BY Zenon, <2>1 DEF addService, OperationsOn
    <2> HIDE DEF new
    <2>3. QED
      BY <2>2, OperationStep
  <1>4. CASE \E i \in Icons : addIcon(i)
    <2>1. PICK i \in Icons : addIcon(i)
      BY <1>4
    <2> DEFINE new == [device EXCEPT !.icons = Append(@, i)]
    <2>2. Operation(new) /\ new \in OperationsOn(device)
      BY Zenon, <2>1 DEF addIcon, OperationsOn
    <2> HIDE DEF new
    <2>3. QED
      BY <2>2, OperationStep
  <1>5. CASE \E e \in Embedded : addEmbeddedDevice(e)
    <2>1. PICK e \in Embedded : addEmbeddedDevice(e)
      BY <1>5
    <2> DEFINE new == [device EXCEPT !.devices =
                         Append(@, [BrisaDevice(e.attrs) EXCEPT !.services = e.services])]
    <2>2. Operation(new) /\ new \in OperationsOn(device)
      BY Zenon, <2>1 DEF addEmbeddedDevice, OperationsOn
    <2> HIDE DEF new
    <2>3. QED
      BY <2>2, OperationStep
  <1>6. ASSUME NEW d \in DOMAIN found, NEW tag, NEW s,
               NEW k \in getServiceBy(found[d], tag, s[tag]), NEW method \in Methods,
               call(d, k, method)
        PROVE  ToldInv'
    <2>1. k \in DOMAIN found[d].services
      BY DEF getServiceBy
    <2>2. QED
      BY <1>6, <2>1, CallStep
  <1>7. CASE DescriptionNext
    <2>1. CASE start \/ stop \/ deviceFound
      BY <2>1, StartStep, LocationTold
    <2>2. CASE \E i \in DOMAIN gets : replyFinished(i)
      BY <2>2, ReplyStep
    <2>3. CASE \E i \in DOMAIN readings : downloadFinished(i)
      BY <2>3, DownloadStep
    <2>4. CASE fetch_return
      BY <2>4, ReturnStep
    <2>5. CASE \E d \in DOMAIN found, tag \in {"serviceId", "serviceType"}, s \in Offered :
                 \E k \in getServiceBy(found[d], tag, s[tag]), m \in Methods :
                   call(d, k, m)
      BY <1>6, <2>5
    <2>6. CASE \E d \in DOMAIN found :
                 downloadIcons(d)
                 \/ \E i \in DOMAIN found[d].awaited : iconDownloaded(d, i)
      BY <2>6, IconStep
    <2>7. CASE \E i \in DOMAIN calls : getResponse(i)
      BY <2>7, AnswerStep
    <2>8. QED
      BY <1>2, <1>3, <1>4, <1>5, <1>7, <2>1, <2>2, <2>3, <2>4, <2>5, <2>6, <2>7 DEF DescriptionNext
  <1>8. QED
    BY <1>1, <1>7

LEMMA ToldInvMeans ==
  ASSUME ToldInv
  PROVE  DescriptionRead /\ AnswersOwn
  <1>1. /\ found \in Seq(DevicesOf(shown)) /\ Described(shown)
        /\ results \in Seq(ToSet(results))
        /\ \A n \in 1..Len(results) : ResultRight(results[n], shown)
        /\ CrashKnown
    BY DEF ToldInv, ReadersKnown, DeviceKnown, ResultsKnown
  <1>2. ASSUME NEW n \in DOMAIN found, found[n].attrs # << >>
        PROVE  /\ \A t \in ToSet(ReadTags) :
                    getAttribute(found[n], t) = shown.attrs[t]
               /\ IconsReady(found[n])
               /\ found[n].base = urlBase
               /\ ServicesTold(found[n].services)
               /\ Len(found[n].icons) = Len(shown.icons)
    <2> DEFINE f == found[n]
    <2>1. f \in DevicesOf(shown)
      BY <1>1, LenProperties, ElementOfSeq
    <2>2. f.services \in Seq(ServicesRead) /\ Counted(f) /\ ReadRight(f, shown)
      BY <1>2, <2>1 DEF DevicesOf, Devices
    <2> HIDE DEF f
    <2>3. ASSUME NEW t \in ToSet(ReadTags) PROVE getAttribute(f, t) = shown.attrs[t]
      <3>1. f.attrs = ReadAttributes(shown)
        BY <2>2 DEF ReadRight
      <3>2. t # "modelName"
        BY DEF ReadTags, ToSet
      <3>3. t \in DOMAIN ReadAttributes(shown) /\ ReadAttributes(shown)[t] = shown.attrs[t]
        BY <3>2 DEF ReadAttributes
      <3>4. QED
        BY <3>1, <3>3 DEF getAttribute
    <2>4. IconsReady(f)
      BY <2>2 DEF Counted, IconsReady
    <2>5. ServicesTold(f.services)
      BY <1>1, <2>2, ToldRight DEF ReadRight
    <2>6. Len(f.icons) = Len(shown.icons)
      <3>1. Len(shown.icons) \in Nat
        BY <1>1, LenProperties DEF Described, Describables
      <3>2. ReadIcons(shown) \in [1..Len(shown.icons) -> {shown.icons[1]}]
        BY DEF ReadIcons
      <3>3. Len(ReadIcons(shown)) = Len(shown.icons)
        BY <3>1, <3>2, SeqOfFunction
      <3>4. QED
        BY <2>2, <3>3 DEF ReadRight
    <2>7. f.base = urlBase
      BY <2>2 DEF ReadRight
    <2>8. QED
      BY <2>3, <2>4, <2>5, <2>6, <2>7 DEF f
  <1>3. DescriptionRead
    BY <1>2, Zenon DEF DescriptionRead
  <1>4. DOMAIN results = 1..Len(results) /\ DOMAIN found = 1..Len(found)
    BY <1>1, LenProperties
  <1>5. \A n \in 1..Len(found) : DOMAIN found[n].services = 1..Len(found[n].services)
    <2>1. ASSUME NEW n \in 1..Len(found)
          PROVE  DOMAIN found[n].services = 1..Len(found[n].services)
      <3>1. found[n] \in DevicesOf(shown)
        BY <1>1, ElementOfSeq
      <3>2. found[n].services \in Seq(ServicesRead)
        BY <3>1 DEF DevicesOf, Devices
      <3>3. QED
        BY <3>2, LenProperties
    <2>2. QED
      BY <2>1
  <1>6. Distinct <=> Apart(shown)
    BY <1>1, ApartIs
  <1>7. AnswersOwn
    <2>1. \A n \in DOMAIN results :
            results[n].alone =>
              /\ results[n].reported = results[n].called
              /\ Distinct => \A a \in DOMAIN results[n].out :
                                  results[n].out[a] = << results[n].called, a >>
      BY <1>1, <1>4, <1>6 DEF ResultRight
    <2>2. Distinct /\ nullCall = "alone" =>
            \E n \in DOMAIN found : \E k \in DOMAIN found[n].services :
              found[n].services[k].actions = << >>
      BY Zenon, <1>1, <1>4, <1>5, <1>6 DEF CrashKnown, Bereft
    <2>3. QED
      BY <2>1, <2>2 DEF AnswersOwn
  <1>8. QED
    BY <1>3, <1>7

(* For any attributes, services, icons and embedded devices, and whatever  *)
(* the vendor sets, the control point is told, gets or fails to get: of a  *)
(* device whose description it has read it holds what the device told when *)
(* it started, its own attributes, its address, its services in their      *)
(* order, each with its own actions or none, and as many icons; and the    *)
(* icons are reported once (BrisaDeviceXMLHandler::xmlGenerator and        *)
(* BrisaDeviceXMLHandlerCP::parseDevice).                                  *)
THEOREM DevicesRead == DescriptionSpec => []DescriptionRead
  <1>1. DescriptionInit => ToldInv
    BY ToldInvInit
  <1>2. ToldInv /\ [DescriptionNext]_description_vars => ToldInv'
    BY ToldInvNext
  <1>3. ToldInv => DescriptionRead
    BY ToldInvMeans
  <1>4. QED
    BY <1>1, <1>2, <1>3, PTL DEF DescriptionSpec

(* For any services and any order of calls and answers: a result of a call *)
(* that no other call of its service overlapped names the action that was  *)
(* called and holds the arguments of the answer to it, and such a call     *)
(* ends at a null pointer only where a service has no actions; as long as  *)
(* no service is served at an address of another                           *)
(* (BrisaControlPointService::call and getResponse).                       *)
THEOREM AnswersReported == DescriptionSpec => []AnswersOwn
  <1>1. DescriptionInit => ToldInv
    BY ToldInvInit
  <1>2. ToldInv /\ [DescriptionNext]_description_vars => ToldInv'
    BY ToldInvNext
  <1>3. ToldInv => AnswersOwn
    BY ToldInvMeans
  <1>4. QED
    BY <1>1, <1>2, <1>3, PTL DEF DescriptionSpec

-----------------------------------------------------------------------------
(* Subscriptions and their events (EventController).                       *)
USE SidsAssumption, TimeoutAssumption, LimitAssumption

(* The key of the nth event.                                               *)
KeyOf(n) == IF n = 1 THEN 0 ELSE ((n - 2) % LastKey) + 1

Events ==
  [nth : Nat \ {0}, key : 0..LastKey, value : 0..MaxChanges, whole : BOOLEAN]

Objects ==
  [exists : {TRUE}, date : 0..MaxTime, timeout : Nat, lastSeq : 0..LastKey,
   firstMessageSent : BOOLEAN, made : Nat, newest : {NoEvent} \cup Events,
   passed : BOOLEAN, early : BOOLEAN, mixed : BOOLEAN]

(* What holds of every object: as long as no reading was outdated, its key *)
(* is the one of its newest event made, and the newest event sent has the  *)
(* key of its number; when that key is 0, the event tells everything or    *)
(* was made in the middle of the SUBSCRIBE.                                *)
Sound(x) ==
  /\ ~x.mixed => /\ x.firstMessageSent <=> x.made > 0
                 /\ x.made = 0 => x.lastSeq = 0
                 /\ x.made > 0 => x.lastSeq = KeyOf(x.made)
  /\ x.newest.nth <= x.made
  /\ x.newest # NoEvent => /\ ~x.mixed => x.newest.key = KeyOf(x.newest.nth)
                           /\ x.newest.key = 0 => x.newest.whole \/ x.early

SoundObjects == { x \in Objects : Sound(x) }

(* A reading of x is of x as it is, if no event was made for x since.      *)
Readings == [first : BOOLEAN, lastSeq : 0..LastKey, made : Nat]
ReadingOf(r, x) ==
  /\ r \in Readings
  /\ r.made <= x.made
  /\ r.made = x.made => r = Reading(x)

(* What becomes of an object that is not deleted.                          *)
Later(x, y) ==
  /\ x.made <= y.made
  /\ x.made = y.made => Reading(y) = Reading(x)
  /\ x.firstMessageSent => y.firstMessageSent
  /\ x.mixed => y.mixed
  /\ x.early => y.early

LEMMA Remainder ==
  ASSUME NEW l \in Nat \ {0}, NEW q \in Int, NEW r \in 0..l - 1
  PROVE  (l * q + r) % l = r
  <1> DEFINE k == l * q + r
             p == k \div l
             s == k % l
  <1>1. k \in Int /\ p \in Int /\ s \in 0..l - 1 /\ k = l * p + s
    OBVIOUS
  <1> HIDE DEF p, s
  <1>2. l * (q - p) = s - r
    BY <1>1
  <1>3. ~(q - p >= 1)
    <2>1. ASSUME q - p >= 1 PROVE l * (q - p) >= l
      BY <1>1, <2>1
    <2>2. QED
      BY <1>1, <1>2, <2>1
  <1>4. ~(p - q >= 1)
    <2>1. ASSUME p - q >= 1 PROVE l * (p - q) >= l
      BY <1>1, <2>1
    <2>2. l * (p - q) = r - s
      BY <1>1, <1>2
    <2>3. QED
      BY <1>1, <2>1, <2>2
  <1>5. p = q
    BY <1>1, <1>3, <1>4
  <1>6. QED
    BY <1>1, <1>2, <1>5 DEF s

LEMMA KeyOfNext ==
  ASSUME NEW n \in Nat \ {0}
  PROVE  /\ KeyOf(n) \in 0..LastKey
         /\ KeyOf(n) = 0 <=> n = 1
         /\ KeyOf(n + 1) = (IF KeyOf(n) = LastKey THEN 0 ELSE KeyOf(n)) + 1
  <1>1. CASE n = 1
    <2>1. KeyOf(1) = 0 /\ KeyOf(2) = 1
      BY DEF KeyOf
    <2>2. QED
      BY <1>1, <2>1
  <1>2. CASE n > 1
    <2> DEFINE m == n - 2
    <2>1. m \in Nat /\ n = m + 2
      BY <1>2
    <2>2. /\ m % LastKey \in 0..LastKey - 1
          /\ m = LastKey * (m \div LastKey) + (m % LastKey)
      BY <2>1
    <2>3. (m + 1) % LastKey = IF m % LastKey = LastKey - 1 THEN 0
                             ELSE (m % LastKey) + 1
      <3> DEFINE q == m \div LastKey
                 r == m % LastKey
      <3>1. q \in Int /\ r \in 0..LastKey - 1 /\ m = LastKey * q + r
        BY <2>1, <2>2
      <3> HIDE DEF q, r
      <3>2. CASE r = LastKey - 1
        <4>1. m + 1 = LastKey * (q + 1) + 0
          BY <3>1, <3>2, <2>1
        <4>2. (LastKey * (q + 1) + 0) % LastKey = 0
          BY <3>1, Remainder
        <4>3. QED
          BY <3>2, <4>1, <4>2 DEF r
      <3>3. CASE r # LastKey - 1
        <4>1. m + 1 = LastKey * q + (r + 1) /\ r + 1 \in 0..LastKey - 1
          BY <3>1, <3>3, <2>1
        <4>2. (LastKey * q + (r + 1)) % LastKey = r + 1
          BY <3>1, <4>1, Remainder
        <4>3. QED
          BY <3>3, <4>1, <4>2 DEF r
      <3>4. QED
        BY <3>2, <3>3
    <2>4. QED
      BY <2>1, <2>2, <2>3 DEF KeyOf
  <1>3. QED
    BY <1>1, <1>2

-----------------------------------------------------------------------------
(* The inductive invariant.  Types: the types, with what the objects keep  *)
(* to, and nothing twice in the list; it has nothing in it that is not     *)
(* there yet or is only being appended.                                    *)
Fresh ==
  { s \in Sids : \/ sub[s] = NoSubscription
                 \/ \E th \in Threads : at[th].step = "append" /\ at[th].sid = s }

GoodList(l, f) == l \in Seq(Sids) /\ IsInjective(l) /\ ToSet(l) \cap f = {}

Types ==
  /\ now \in 0..MaxTime /\ value \in 0..MaxChanges
  /\ sub \in [Sids -> SoundObjects \cup {NoSubscription, Ended}]
  /\ visit \in 0..Cardinality(Sids) + 1
  /\ overlapped \in BOOLEAN /\ crashed \in BOOLEAN
  /\ GoodList(subscriptions, Fresh)

(* A thread that is at a, with the objects f: has a reading, a number or a *)
(* key that fits the object; or the place of what it has deleted.          *)
ThreadOK(a, f) ==
  /\ a.step \in {"idle", "append", "read", "write", "send", "remove"}
  /\ a.step # "idle" => a.sid \in Sids /\ f[a.sid] # NoSubscription
  /\ a.step = "append" => f[a.sid].exists
  /\ a.step = "write" /\ f[a.sid].exists => ReadingOf(a.reading, f[a.sid])
  /\ a.step = "send" =>
       /\ a.nth \in Nat \ {0} /\ a.key \in 0..LastKey
       /\ f[a.sid].exists => /\ a.nth <= f[a.sid].made
                             /\ ~f[a.sid].mixed => a.key = KeyOf(a.nth)
  /\ a.step = "remove" =>
       /\ f[a.sid] = Ended
       /\ a.place \in 1..Len(a.seen) /\ a.seen[a.place] = a.sid

(* The list a thread has seen is a good one; no two append or remove the   *)
(* same subscription.                                                      *)
InList(a) == a.step \in {"append", "remove"}
Session ==
  /\ at = [th \in Threads |-> at[th]]
  /\ \A th \in Threads : ThreadOK(at[th], sub)
  /\ \A th \in Threads : InList(at[th]) => GoodList(at[th].seen, Fresh)
  /\ \A th, tk \in Threads :
       InList(at[th]) /\ at[th].step = at[tk].step /\ at[th].sid = at[tk].sid => th = tk

(* variableChanged, making an event: what it has read; and that it is the  *)
(* first one only in the middle of the SUBSCRIBE.                          *)
MakingOK(m, f) ==
  /\ m.step \in {"idle", "write"}
  /\ m # Nobody => /\ m.sid \in Sids /\ f[m.sid] # NoSubscription
                   /\ f[m.sid].exists => /\ ReadingOf(m.reading, f[m.sid])
                                         /\ ~m.reading.first => f[m.sid].early
MainThread == MakingOK(making, sub)

(* Where no event was made yet, a thread is about to make the first one.   *)
FirstOne ==
  \A s \in Sids :
    Exists(s) /\ ~sub[s].firstMessageSent =>
      \E th \in Threads : at[th].step \in {"append", "read", "write"} /\ at[th].sid = s

(* The list and the objects agree.                                         *)
Agree == ~overlapped => ToSet(subscriptions) = { s \in Sids : Listed(s) }

(* A subscriber has been sent the latest value; or the walk is still to    *)
(* come to it, or has passed over it; or its first event is still to come, *)
(* and no later one has overtaken it.                                      *)
ToldBy(x, v) == x.newest # NoEvent /\ x.newest.value = v
Coming(a, s, x) ==
  \/ a.step \in {"read", "write"} /\ a.sid = s
  \/ a.step = "send" /\ a.sid = s /\ a.nth > x.newest.nth
FirstToCome(s, f, a) == \E th \in Threads : Coming(a[th], s, f[s])
Told ==
  ~overlapped =>
    \A i \in 1..Len(subscriptions) :
      Exists(subscriptions[i]) =>
        \/ ToldBy(sub[subscriptions[i]], value)
        \/ visit # 0 /\ visit <= i
        \/ sub[subscriptions[i]].passed
        \/ FirstToCome(subscriptions[i], sub, at)

IInv == Types /\ Session /\ MainThread /\ FirstOne /\ Agree /\ Told
-----------------------------------------------------------------------------
LEMMA ExistsOrNot ==
  ASSUME NEW x \in SoundObjects \cup {NoSubscription, Ended}
  PROVE  /\ x.exists <=> x \in SoundObjects
         /\ x.exists => x # NoSubscription /\ x # Ended
         /\ NoSubscription # Ended /\ x.exists \in BOOLEAN
  <1>1. ASSUME x \in SoundObjects PROVE x.exists = TRUE
    BY <1>1 DEF SoundObjects, Objects
  <1>2. NoSubscription.exists = FALSE /\ Ended.exists = FALSE /\ NoSubscription # Ended
    <2>1. NoSubscription.used = FALSE /\ Ended.used = TRUE
      BY DEF NoSubscription, Ended
    <2>2. QED
      BY <2>1 DEF NoSubscription, Ended
  <1>3. QED
    BY <1>1, <1>2

LEMMA Numbers ==
  ASSUME NEW x \in SoundObjects
  PROVE  x.made \in Nat /\ x.newest.nth \in Nat /\ x.newest.nth <= x.made
  <1>1. x \in Objects /\ Sound(x)
    BY DEF SoundObjects
  <1>2. QED
    BY <1>1 DEF Objects, Events, NoEvent, Sound

LEMMA ReadingSound ==
  ASSUME NEW x \in SoundObjects
  PROVE  ReadingOf(Reading(x), x)
  <1>1. x \in Objects
    BY DEF SoundObjects
  <1>2. QED
    BY <1>1 DEF ReadingOf, Reading, Readings, Objects

(* What was read of an object fits what becomes of it.                     *)
LEMMA ReadingStays ==
  ASSUME NEW x \in SoundObjects, NEW y \in SoundObjects, Later(x, y),
         NEW r, ReadingOf(r, x)
  PROVE  ReadingOf(r, y)
  <1>1. x.made \in Nat /\ y.made \in Nat
    BY Numbers
  <1>2. r.made \in Nat /\ r.made <= x.made
    BY DEF ReadingOf, Readings
  <1>3. QED
    BY <1>1, <1>2 DEF ReadingOf, Later

LEMMA MadeSound ==
  ASSUME NEW x \in SoundObjects, NEW r, ReadingOf(r, x)
  PROVE  /\ Made(x, r) \in SoundObjects
         /\ Later(x, Made(x, r))
         /\ Made(x, r).made = x.made + 1
         /\ Made(x, r).newest = x.newest
         /\ Made(x, r).passed = x.passed
         /\ Made(x, r).early = x.early
         /\ Made(x, r).firstMessageSent = TRUE
         /\ getNextSeq(r) \in 0..LastKey
         /\ getNextSeq(r) = 0 <=> ~r.first
         /\ ~Made(x, r).mixed => getNextSeq(r) = KeyOf(x.made + 1)
  <1>1. x \in Objects /\ Sound(x) /\ r \in Readings
    BY DEF SoundObjects, ReadingOf
  <1>2. getNextSeq(r) \in 0..LastKey /\ (getNextSeq(r) = 0 <=> ~r.first)
    BY <1>1 DEF getNextSeq, Readings
  <1> DEFINE key == IF r.first THEN getNextSeq(r) ELSE x.lastSeq
             n == x.made + 1
             old == x.mixed \/ r.made # x.made
             y == [x EXCEPT !.firstMessageSent = TRUE]
             z == [y EXCEPT !.made = n]
             w == [z EXCEPT !.lastSeq = key]
             v == [w EXCEPT !.mixed = old]
  <1>3. key \in 0..LastKey /\ n \in Nat /\ old \in BOOLEAN
    BY <1>1, <1>2 DEF Objects
  <1>4. Made(x, r) = v
    BY Zenon DEF Made
  <1> HIDE DEF key, n, old
  <1>5. /\ y \in Objects
        /\ y.firstMessageSent = TRUE
        /\ y.newest = x.newest /\ y.passed = x.passed /\ y.early = x.early
    BY <1>1 DEF Objects
  <1> HIDE DEF y
  <1>6. /\ z \in Objects
        /\ z.firstMessageSent = TRUE /\ z.made = n
        /\ z.newest = x.newest /\ z.passed = x.passed /\ z.early = x.early
    BY <1>3, <1>5 DEF Objects
  <1> HIDE DEF z
  <1>7. /\ w \in Objects
        /\ w.firstMessageSent = TRUE /\ w.made = n /\ w.lastSeq = key
        /\ w.newest = x.newest /\ w.passed = x.passed /\ w.early = x.early
    BY <1>3, <1>6 DEF Objects
  <1> HIDE DEF w
  <1>8. /\ v \in Objects
        /\ v.firstMessageSent = TRUE /\ v.made = n /\ v.lastSeq = key /\ v.mixed = old
        /\ v.newest = x.newest /\ v.passed = x.passed /\ v.early = x.early
    BY <1>3, <1>7 DEF Objects
  <1> HIDE DEF v
  <1>9. n = x.made + 1 /\ x.made \in Nat /\ n > 0
    BY <1>1 DEF n, Objects
  <1>10. ASSUME ~old
         PROVE  getNextSeq(r) = KeyOf(n) /\ key = KeyOf(n)
    <2>1. /\ ~x.mixed /\ r = Reading(x) /\ r.first = x.firstMessageSent
          /\ r.lastSeq = x.lastSeq
      BY <1>10 DEF old, ReadingOf, Reading
    <2>2. CASE x.made = 0
      <3>1. ~r.first /\ x.lastSeq = 0 /\ KeyOf(1) = 0 /\ n = 1
        BY <1>1, <1>9, <2>1, <2>2 DEF Sound, KeyOf
      <3>2. QED
        BY <1>2, <3>1 DEF key
    <2>3. CASE x.made > 0
      <3>1. x.made \in Nat \ {0} /\ r.first /\ r.lastSeq = KeyOf(x.made)
        BY <1>1, <1>9, <2>1, <2>3 DEF Sound
      <3>2. QED
        BY <1>9, <3>1, KeyOfNext DEF getNextSeq, key
    <2>4. QED
      BY <1>9, <2>2, <2>3
  <1>11. Sound(v)
    <2> HIDE DEF NoEvent
    <2>1. x.newest.nth \in Nat
      BY Numbers
    <2>2. old \/ ~x.mixed
      BY <1>1 DEF old, Objects
    <2>3. ~old => /\ v.firstMessageSent <=> v.made > 0
                  /\ v.made = 0 => v.lastSeq = 0
                  /\ v.made > 0 => v.lastSeq = KeyOf(v.made)
      BY <1>8, <1>9, <1>10
    <2>4. QED
      BY <1>1, <1>8, <1>9, <2>1, <2>2, <2>3 DEF Sound
  <1>12. Later(x, v)
    <2>1. x.mixed => v.mixed
      BY <1>8 DEF old
    <2>2. QED
      BY <1>8, <1>9, <2>1 DEF Later
  <1>13. QED
    BY <1>2, <1>4, <1>8, <1>9, <1>10, <1>11, <1>12 DEF SoundObjects

LEMMA SentSound ==
  ASSUME NEW x \in SoundObjects, value \in 0..MaxChanges,
         NEW nth \in Nat \ {0}, nth <= x.made,
         NEW key \in 0..LastKey, ~x.mixed => key = KeyOf(nth),
         NEW whole \in BOOLEAN, key = 0 => whole \/ x.early
  PROVE  /\ Sent(x, nth, key, whole) \in SoundObjects
         /\ Later(x, Sent(x, nth, key, whole))
         /\ Sent(x, nth, key, whole).made = x.made
         /\ Sent(x, nth, key, whole).passed = x.passed
         /\ Sent(x, nth, key, whole).firstMessageSent = x.firstMessageSent
         /\ nth <= x.newest.nth => Sent(x, nth, key, whole) = x
         /\ nth > x.newest.nth => ToldBy(Sent(x, nth, key, whole), value)
  <1>1. x \in Objects /\ Sound(x)
    BY DEF SoundObjects
  <1>2. x.newest.nth \in Nat /\ x.made \in Nat
    BY Numbers
  <1>3. CASE nth <= x.newest.nth
    BY <1>2, <1>3 DEF Sent, Later
  <1>4. CASE nth > x.newest.nth
    <2> DEFINE e == getRequestMessage(nth, key, whole)
               y == [x EXCEPT !.newest = e]
    <2>1. e \in Events /\ e # NoEvent
      <3>1. e \in Events
        BY DEF getRequestMessage, Events
      <3>2. e.nth # NoEvent.nth
        BY DEF getRequestMessage, NoEvent
      <3>3. QED
        BY <3>1, <3>2
    <2>2. e.nth = nth /\ e.key = key /\ e.value = value /\ e.whole = whole
      BY DEF getRequestMessage
    <2>3. Sent(x, nth, key, whole) = y
      BY <1>4 DEF Sent
    <2> HIDE DEF e
    <2>4. /\ y \in Objects /\ y.newest = e
          /\ y.made = x.made /\ y.passed = x.passed /\ y.early = x.early
          /\ y.firstMessageSent = x.firstMessageSent /\ y.lastSeq = x.lastSeq
          /\ y.mixed = x.mixed
      BY <1>1, <2>1 DEF Objects
    <2> HIDE DEF y
    <2>5. Sound(y)
      BY <1>1, <2>1, <2>2, <2>4 DEF Sound
    <2>6. ~(nth <= x.newest.nth) /\ Later(x, y)
      BY <1>2, <1>4, <2>4 DEF Later, Reading
    <2>7. QED
      BY <1>4, <2>1, <2>2, <2>3, <2>4, <2>5, <2>6 DEF SoundObjects, ToldBy
  <1>5. QED
    BY <1>2, <1>3, <1>4

LEMMA NewSound ==
  ASSUME now \in 0..MaxTime, NEW t \in Timeouts
  PROVE  BrisaEventSubscription(t) \in SoundObjects
  <1>1. getTimeOut(t) \in Nat
    BY DEF getTimeOut
  <1>2. NoEvent \in {NoEvent} \cup Events /\ NoEvent.nth = 0
    BY DEF NoEvent
  <1> HIDE DEF NoEvent
  <1>3. QED
    BY <1>1, <1>2 DEF BrisaEventSubscription, SoundObjects, Objects, Sound

LEMMA RenewedSound ==
  ASSUME NEW x \in SoundObjects, now \in 0..MaxTime, NEW t \in Timeouts
  PROVE  /\ renewed(x, t) \in SoundObjects
         /\ Later(x, renewed(x, t))
         /\ renewed(x, t).firstMessageSent = x.firstMessageSent
         /\ renewed(x, t).newest = x.newest
         /\ renewed(x, t).passed = x.passed
  <1> DEFINE y == [x EXCEPT !.date = now]
             limit == getTimeOut(t)
             z == [y EXCEPT !.timeout = limit]
  <1>1. limit \in Nat
    BY DEF getTimeOut
  <1>2. renewed(x, t) = z
    BY DEF renewed
  <1>3. x \in Objects /\ Sound(x) /\ x.made \in Nat
    BY DEF SoundObjects, Objects
  <1> HIDE DEF limit
  <1>4. /\ y \in Objects
        /\ y.newest = x.newest /\ y.passed = x.passed /\ y.early = x.early
        /\ y.made = x.made /\ y.lastSeq = x.lastSeq /\ y.mixed = x.mixed
        /\ y.firstMessageSent = x.firstMessageSent
    BY <1>3 DEF Objects
  <1> HIDE DEF y
  <1>5. /\ z \in Objects
        /\ z.newest = x.newest /\ z.passed = x.passed /\ z.early = x.early
        /\ z.made = x.made /\ z.lastSeq = x.lastSeq /\ z.mixed = x.mixed
        /\ z.firstMessageSent = x.firstMessageSent
    BY <1>1, <1>4 DEF Objects
  <1> HIDE DEF z
  <1>6. Sound(z) /\ Later(x, z)
    BY <1>3, <1>5 DEF Sound, Later, Reading
  <1>7. QED
    BY <1>2, <1>5, <1>6 DEF SoundObjects

LEMMA MarkedSound ==
  ASSUME NEW x \in SoundObjects, NEW p \in BOOLEAN
  PROVE  LET y == [x EXCEPT !.passed = p]
         IN  /\ y \in SoundObjects /\ Later(x, y)
             /\ y.made = x.made /\ y.newest = x.newest /\ y.passed = p
             /\ y.firstMessageSent = x.firstMessageSent
             /\ y.early = x.early /\ y.mixed = x.mixed
  <1> DEFINE y == [x EXCEPT !.passed = p]
  <1>1. x \in Objects /\ Sound(x) /\ x.made \in Nat
    BY DEF SoundObjects, Objects
  <1>2. /\ y \in Objects
        /\ y.newest = x.newest /\ y.passed = p /\ y.early = x.early
        /\ y.made = x.made /\ y.lastSeq = x.lastSeq /\ y.mixed = x.mixed
        /\ y.firstMessageSent = x.firstMessageSent
    BY <1>1 DEF Objects
  <1> HIDE DEF y
  <1>3. y \in SoundObjects /\ Later(x, y)
    BY <1>1, <1>2 DEF SoundObjects, Sound, Later, Reading
  <1>4. QED
    BY <1>2, <1>3 DEF y

LEMMA EarlySound ==
  ASSUME NEW x \in SoundObjects, NEW e \in BOOLEAN, x.early => e
  PROVE  LET y == [x EXCEPT !.early = e]
         IN  /\ y \in SoundObjects /\ Later(x, y)
             /\ y.made = x.made /\ y.newest = x.newest /\ y.passed = x.passed
             /\ y.firstMessageSent = x.firstMessageSent
             /\ y.early = e /\ Reading(y) = Reading(x)
  <1> DEFINE y == [x EXCEPT !.early = e]
  <1>1. x \in Objects /\ Sound(x) /\ x.made \in Nat
    BY DEF SoundObjects, Objects
  <1>2. /\ y \in Objects
        /\ y.newest = x.newest /\ y.passed = x.passed /\ y.early = e
        /\ y.made = x.made /\ y.lastSeq = x.lastSeq /\ y.mixed = x.mixed
        /\ y.firstMessageSent = x.firstMessageSent
    BY <1>1 DEF Objects
  <1> HIDE DEF y
  <1>3. Reading(y) = Reading(x)
    BY <1>2 DEF Reading
  <1>4. y \in SoundObjects /\ Later(x, y)
    BY <1>1, <1>2, <1>3 DEF SoundObjects, Sound, Later
  <1>5. QED
    BY <1>2, <1>3, <1>4 DEF y

-----------------------------------------------------------------------------
(* What the invariant says of the elements of the list and of the objects. *)
LEMMA OfTheList ==
  ASSUME Types
  PROVE  /\ Len(subscriptions) \in Nat
         /\ Cardinality(Sids) \in Nat
         /\ Len(subscriptions) <= Cardinality(Sids)
         /\ \A i \in 1..Len(subscriptions) :
              subscriptions[i] \in Sids /\ subscriptions[i] \in ToSet(subscriptions)
         /\ \A i, j \in 1..Len(subscriptions) :
              subscriptions[i] = subscriptions[j] => i = j
         /\ \A s \in ToSet(subscriptions) :
              /\ s \in Sids /\ s \notin Fresh
              /\ \E i \in 1..Len(subscriptions) : subscriptions[i] = s
         /\ \A s \in Sids :
              /\ sub[s] \in SoundObjects \cup {NoSubscription, Ended}
              /\ Exists(s) \in BOOLEAN
              /\ Exists(s) => sub[s] \in SoundObjects /\ sub[s] # NoSubscription
                              /\ sub[s] # Ended
              /\ ~Exists(s) => sub[s] \in {NoSubscription, Ended}
  <1>1. subscriptions \in Seq(Sids) /\ IsInjective(subscriptions)
        /\ ToSet(subscriptions) \cap Fresh = {}
    BY DEF Types, GoodList
  <1>2. Len(subscriptions) \in Nat
    BY <1>1, LenProperties
  <1>3. Cardinality(Sids) \in Nat /\ Len(subscriptions) <= Cardinality(Sids)
    BY <1>1, FS_CardinalityType, ListLength
  <1>4. \A s \in Sids : sub[s] \in SoundObjects \cup {NoSubscription, Ended}
    BY DEF Types
  <1>5. \A s \in Sids : /\ Exists(s) \in BOOLEAN
                        /\ Exists(s) => sub[s] \in SoundObjects /\ sub[s] # NoSubscription
                                        /\ sub[s] # Ended
                        /\ ~Exists(s) => sub[s] \in {NoSubscription, Ended}
    BY <1>4, ExistsOrNot DEF Exists
  <1>6. /\ ToSet(subscriptions) = { subscriptions[i] : i \in 1..Len(subscriptions) }
        /\ ToSet(subscriptions) \subseteq Sids
    BY <1>1, ToSetOfSeq
  <1>7. \A i \in 1..Len(subscriptions) :
          subscriptions[i] \in Sids /\ subscriptions[i] \in ToSet(subscriptions)
    BY <1>6
  <1>8. \A i, j \in 1..Len(subscriptions) :
          subscriptions[i] = subscriptions[j] => i = j
    BY <1>1, InjectiveSeq
  <1>9. \A s \in ToSet(subscriptions) :
          /\ s \in Sids /\ s \notin Fresh
          /\ \E i \in 1..Len(subscriptions) : subscriptions[i] = s
    BY <1>1, <1>6
  <1>10. QED
    BY <1>2, <1>3, <1>4, <1>5, <1>7, <1>8, <1>9

(* What a step may do to the objects; it deletes none that is not appended *)
(* yet.                                                                    *)
Evolves ==
  \A s \in Sids :
    \/ sub'[s] = sub[s]
    \/ sub[s] \in SoundObjects /\ sub'[s] \in SoundObjects /\ Later(sub[s], sub'[s])
    \/ sub[s] \in SoundObjects /\ sub'[s] = Ended /\ s \notin Fresh
    \/ sub[s] = NoSubscription /\ sub'[s] \in SoundObjects

LEMMA ThreadStays ==
  ASSUME Types, Evolves, NEW a, ThreadOK(a, sub),
         a.step = "append" => a.sid \in Fresh
  PROVE  ThreadOK(a, sub')
  <1>1. CASE a.step = "idle"
    BY <1>1 DEF ThreadOK
  <1>2. CASE a.step # "idle"
    <2>1. a.sid \in Sids /\ sub[a.sid] # NoSubscription
      BY <1>2 DEF ThreadOK
    <2> DEFINE x == sub[a.sid]
               y == sub'[a.sid]
    <2>2. CASE y = x
      BY <2>2 DEF ThreadOK
    <2>3. CASE x \in SoundObjects /\ y \in SoundObjects /\ Later(x, y)
      <3>1. x.exists /\ y.exists /\ x # Ended /\ y # NoSubscription
        BY <2>3, ExistsOrNot
      <3>2. a.step = "write" => ReadingOf(a.reading, y)
        BY <2>3, <3>1, ReadingStays DEF ThreadOK
      <3>3. x.made \in Nat /\ y.made \in Nat /\ x.made <= y.made /\ (x.mixed => y.mixed)
        BY <2>3, Numbers DEF Later
      <3>4. a.step = "send" => /\ a.nth <= y.made
                               /\ ~y.mixed => a.key = KeyOf(a.nth)
        BY <3>1, <3>3 DEF ThreadOK
      <3> HIDE DEF x, y
      <3>5. QED
        BY <2>1, <3>1, <3>2, <3>4 DEF ThreadOK, x, y
    <2>4. CASE x \in SoundObjects /\ y = Ended /\ a.sid \notin Fresh
      <3>1. x # Ended /\ ~y.exists /\ y # NoSubscription
        BY <2>4, ExistsOrNot DEF Ended
      <3>2. QED
        BY <2>1, <2>4, <3>1 DEF ThreadOK
    <2>5. QED
      BY <2>1, <2>2, <2>3, <2>4 DEF Evolves
  <1>3. QED
    BY <1>1, <1>2

LEMMA Appending ==
  ASSUME Session
  PROVE  \A th \in Threads : at[th].step = "append" => at[th].sid \in Fresh
  BY DEF Session, ThreadOK, Fresh

LEMMA MakingStays ==
  ASSUME Types, Evolves, NEW m, MakingOK(m, sub)
  PROVE  MakingOK(m, sub')
  <1>1. CASE m = Nobody
    BY <1>1 DEF MakingOK
  <1>2. CASE m # Nobody
    <2>1. m.sid \in Sids /\ sub[m.sid] # NoSubscription
      BY <1>2 DEF MakingOK
    <2> DEFINE x == sub[m.sid]
               y == sub'[m.sid]
    <2>2. CASE y = x
      BY <2>2 DEF MakingOK
    <2>3. CASE x \in SoundObjects /\ y \in SoundObjects /\ Later(x, y)
      <3>1. x.exists /\ y.exists /\ y # NoSubscription
        BY <2>3, ExistsOrNot
      <3>2. ReadingOf(m.reading, y) /\ (~m.reading.first => y.early)
        BY <1>2, <2>3, <3>1, ReadingStays DEF MakingOK, Later
      <3>3. QED
        BY <1>2, <2>1, <3>1, <3>2 DEF MakingOK
    <2>4. CASE x \in SoundObjects /\ y = Ended
      <3>1. ~y.exists /\ y # NoSubscription
        BY <2>4, ExistsOrNot DEF Ended
      <3>2. QED
        BY <1>2, <2>1, <2>4, <3>1 DEF MakingOK
    <2>5. QED
      BY <2>1, <2>2, <2>3, <2>4 DEF Evolves
  <1>3. QED
    BY <1>1, <1>2

LEMMA GoodListStays ==
  ASSUME NEW l, NEW f, NEW g, GoodList(l, f), g \subseteq f
  PROVE  GoodList(l, g)
  BY DEF GoodList

(* One thread comes to b, or none.                                         *)
LEMMA OneMoves ==
  ASSUME Types, Session, Evolves, Fresh' \subseteq Fresh,
         NEW th \in Threads, NEW b, at' = [at EXCEPT ![th] = b],
         ThreadOK(b, sub'),
         InList(b) => /\ GoodList(b.seen, Fresh')
                      /\ \A tk \in Threads :
                           tk # th /\ at[tk].step = b.step => at[tk].sid # b.sid
  PROVE  Session'
  <1>1. /\ at'[th] = b /\ at' = [tk \in Threads |-> at'[tk]]
        /\ \A tk \in Threads : tk # th => at'[tk] = at[tk]
    BY DEF Session
  <1>2. \A tk \in Threads : tk # th => ThreadOK(at'[tk], sub')
    BY <1>1, ThreadStays, Appending DEF Session
  <1>3. \A tk \in Threads : tk # th /\ InList(at'[tk]) => GoodList(at'[tk].seen, Fresh')
    BY <1>1, GoodListStays DEF Session
  <1>4. \A tj, tk \in Threads :
          InList(at'[tj]) /\ at'[tj].step = at'[tk].step /\ at'[tj].sid = at'[tk].sid
            => tj = tk
    BY <1>1 DEF Session, InList
  <1>5. QED
    BY <1>1, <1>2, <1>3, <1>4 DEF Session

LEMMA NoneMoves ==
  ASSUME Types, Session, Evolves, Fresh' \subseteq Fresh, at' = at
  PROVE  Session'
  <1>1. \A tk \in Threads : ThreadOK(at'[tk], sub')
    BY ThreadStays, Appending DEF Session
  <1>2. \A tk \in Threads : InList(at'[tk]) => GoodList(at'[tk].seen, Fresh')
    BY GoodListStays DEF Session
  <1>3. QED
    BY <1>1, <1>2 DEF Session

(* The object of s is replaced by x, or deleted.                           *)
LEMMA Replaced ==
  ASSUME Types, NEW s \in Sids, Exists(s), NEW x,
         (x \in SoundObjects /\ Later(sub[s], x)) \/ (x = Ended /\ s \notin Fresh),
         sub' = [sub EXCEPT ![s] = x]
  PROVE  /\ sub' \in [Sids -> SoundObjects \cup {NoSubscription, Ended}]
         /\ Evolves
         /\ sub'[s] = x
         /\ \A r \in Sids : r # s => sub'[r] = sub[r] /\ Exists(r)' = Exists(r)
         /\ Exists(s)' = (x # Ended)
         /\ x # Ended => \A r \in Sids : Exists(r)' = Exists(r)
         /\ \A r \in Sids : sub'[r] = NoSubscription <=> sub[r] = NoSubscription
  <1>1. sub \in [Sids -> SoundObjects \cup {NoSubscription, Ended}]
    BY DEF Types
  <1>2. /\ sub' \in [Sids -> SoundObjects \cup {NoSubscription, Ended}]
        /\ sub'[s] = x
        /\ \A r \in Sids : r # s => sub'[r] = sub[r]
    BY <1>1
  <1>3. sub[s] \in SoundObjects /\ sub[s] # NoSubscription /\ Exists(s) \in BOOLEAN
    BY OfTheList
  <1>4. Evolves
    BY <1>2, <1>3 DEF Evolves
  <1>5. x # NoSubscription /\ x.exists = (x # Ended)
    BY ExistsOrNot DEF Ended, SoundObjects, Objects
  <1>6. QED
    BY <1>2, <1>3, <1>4, <1>5 DEF Exists

LEMMA NothingChanges ==
  ASSUME Types, sub' = sub
  PROVE  /\ sub' \in [Sids -> SoundObjects \cup {NoSubscription, Ended}]
         /\ Evolves
         /\ \A r \in Sids : Exists(r)' = Exists(r)
         /\ \A r \in Sids : sub'[r] = NoSubscription <=> sub[r] = NoSubscription
  BY DEF Types, Evolves, Exists

(* Steps that leave the list alone, and make no thread append.             *)
LEMMA TypesKept ==
  ASSUME Types, subscriptions' = subscriptions, Fresh' \subseteq Fresh,
         now' \in 0..MaxTime, value' \in 0..MaxChanges, crashed' \in BOOLEAN,
         visit' \in 0..Cardinality(Sids) + 1, overlapped' \in BOOLEAN,
         sub' \in [Sids -> SoundObjects \cup {NoSubscription, Ended}]
  PROVE  Types'
  <1>1. GoodList(subscriptions', Fresh')
    BY GoodListStays DEF Types
  <1>2. QED
    BY <1>1 DEF Types

LEMMA FirstOneKept ==
  ASSUME FirstOne,
         \A s \in Sids : Exists(s)' /\ ~sub'[s].firstMessageSent
                           => Exists(s) /\ ~sub[s].firstMessageSent,
         \A th \in Threads :
           at[th].step \in {"append", "read", "write"} =>
             at'[th].step \in {"append", "read", "write"} /\ at'[th].sid = at[th].sid
  PROVE  FirstOne'
  BY DEF FirstOne

LEMMA AgreeKept ==
  ASSUME Agree, subscriptions' = subscriptions, overlapped' = overlapped,
         \A s \in Sids : Listed(s)' <=> Listed(s)
  PROVE  Agree'
  BY DEF Agree

LEMMA ToldKept ==
  ASSUME Types, Told, subscriptions' = subscriptions, overlapped' = overlapped,
         visit' = visit,
         \A s \in ToSet(subscriptions) :
           Exists(s)' =>
             /\ Exists(s)
             /\ ToldBy(sub[s], value) => ToldBy(sub'[s], value')
             /\ sub[s].passed => sub'[s].passed
             /\ FirstToCome(s, sub, at) => FirstToCome(s, sub', at') \/ ToldBy(sub'[s], value')
  PROVE  Told'
  <1> SUFFICES ASSUME ~overlapped, NEW i \in 1..Len(subscriptions),
                      Exists(subscriptions[i])'
      PROVE  \/ ToldBy(sub'[subscriptions[i]], value')
             \/ visit # 0 /\ visit <= i
             \/ sub'[subscriptions[i]].passed
             \/ FirstToCome(subscriptions[i], sub', at')
    BY DEF Told
  <1> PICK s \in ToSet(subscriptions) : s = subscriptions[i]
    BY OfTheList
  <1>1. Exists(s)'
    OBVIOUS
  <1>2. QED
    BY <1>1 DEF Told

(* No thread begins to append, and no object is new.                       *)
LEMMA FreshKept ==
  ASSUME \A r \in Sids : sub'[r] = NoSubscription => sub[r] = NoSubscription,
         \A th \in Threads : at'[th].step = "append" => at'[th] = at[th]
  PROVE  Fresh' \subseteq Fresh
  BY DEF Fresh

LEMMA AppendGood ==
  ASSUME NEW l, NEW f, NEW g, GoodList(l, f), NEW s \in Sids, s \in f,
         g \subseteq f, s \notin g
  PROVE  GoodList(Append(l, s), g)
  BY AppendToList DEF GoodList

LEMMA RemoveGood ==
  ASSUME NEW l, NEW f, NEW g, GoodList(l, f), g \subseteq f, NEW i \in 1..Len(l)
  PROVE  GoodList(RemoveAt(l, i), g)
  BY RemoveFromSeq, RemoveFromList DEF GoodList

LEMMA CrashKeeps ==
  ASSUME IInv, Crash
  PROVE  IInv'
  <1> USE DEF IInv
  <1>1. /\ subscriptions' = subscriptions /\ sub' = sub /\ at' = at /\ crashed' = TRUE
        /\ now' = now /\ value' = value /\ visit' = visit /\ making' = making
        /\ overlapped' = overlapped
    BY DEF Crash, list
  <1>2. Fresh' = Fresh
    BY <1>1 DEF Fresh
  <1>3. Types' /\ Session' /\ MainThread' /\ FirstOne'
    BY <1>1, <1>2 DEF Types, Session, MainThread, FirstOne, Exists
  <1>4. Agree' /\ Told'
    BY <1>1 DEF Agree, Told, Listed, FirstToCome, Exists
  <1>5. QED
    BY <1>3, <1>4

LEMMA SubscribeKeeps ==
  ASSUME IInv, NEW th \in Threads, NEW s \in Sids, NEW t \in Timeouts,
         subscribe(th, s, t)
  PROVE  IInv'
  <1> USE DEF IInv
  <1> DEFINE x == BrisaEventSubscription(t)
             b == [step |-> "append", sid |-> s, seen |-> subscriptions]
  <1>1. /\ at[th].step = "idle" /\ sub[s] = NoSubscription
        /\ sub' = [sub EXCEPT ![s] = x]
        /\ at' = [at EXCEPT ![th] = b]
        /\ subscriptions' = subscriptions /\ overlapped' = overlapped
        /\ now' = now /\ value' = value /\ visit' = visit /\ making' = making
        /\ crashed' = crashed
    BY DEF subscribe, list, Nobody
  <1>2. x \in SoundObjects /\ x.exists = TRUE
    BY NewSound DEF Types, SoundObjects, Objects
  <1> HIDE DEF x
  <1>3. /\ sub' \in [Sids -> SoundObjects \cup {NoSubscription, Ended}]
        /\ sub'[s] = x
        /\ \A r \in Sids : r # s => sub'[r] = sub[r] /\ Exists(r)' = Exists(r)
        /\ ~Exists(s) /\ Exists(s)'
    BY <1>1, <1>2 DEF Types, Exists, NoSubscription
  <1>4. Evolves
    BY <1>1, <1>2, <1>3 DEF Evolves
  <1>5. /\ at'[th] = b /\ \A tk \in Threads : tk # th => at'[tk] = at[tk]
    BY <1>1 DEF Session
  <1>6. Fresh' \subseteq Fresh
    BY <1>1, <1>3, <1>5 DEF Fresh
  <1>7. \A tk \in Threads : at[tk].step # "idle" => at[tk].sid # s
    BY <1>1 DEF Session, ThreadOK
  <1>8. Types'
    BY <1>1, <1>3, <1>6, TypesKept DEF Types
  <1>9. Session'
    <2>1. ThreadOK(b, sub')
      BY <1>2, <1>3, ExistsOrNot DEF ThreadOK
    <2>2. GoodList(b.seen, Fresh')
      BY <1>6, GoodListStays DEF Types
    <2>3. \A tk \in Threads : tk # th /\ at[tk].step = b.step => at[tk].sid # b.sid
      BY <1>7
    <2> HIDE DEF b
    <2>4. QED
      BY <1>1, <1>4, <1>6, <2>1, <2>2, <2>3, OneMoves
  <1>10. MainThread'
    BY <1>1, <1>4, MakingStays DEF MainThread
  <1>11. FirstOne'
    <2> SUFFICES ASSUME NEW r \in Sids, Exists(r)', ~sub'[r].firstMessageSent
        PROVE  \E tk \in Threads :
                 at'[tk].step \in {"append", "read", "write"} /\ at'[tk].sid = r
      BY DEF FirstOne
    <2>1. CASE r = s
      BY <1>5, <2>1
    <2>2. CASE r # s
      <3>1. PICK tk \in Threads :
              at[tk].step \in {"append", "read", "write"} /\ at[tk].sid = r
        BY <1>3, <2>2 DEF FirstOne
      <3>2. at'[tk] = at[tk]
        BY <1>1, <1>5, <3>1
      <3>3. QED
        BY <3>1, <3>2
    <2>3. QED
      BY <2>1, <2>2
  <1>12. Agree'
    <2>1. ~Listed(s) /\ ~Listed(s)'
      BY <1>1, <1>3, <1>5, <1>7 DEF Listed
    <2>2. \A r \in Sids : r # s => (Listed(r)' <=> Listed(r))
      BY <1>1, <1>3, <1>5 DEF Listed
    <2>3. QED
      BY <1>1, <2>1, <2>2, AgreeKept
  <1>13. Told'
    <2>1. s \notin ToSet(subscriptions)
      BY <1>1, OfTheList DEF Fresh
    <2>2. \A r \in ToSet(subscriptions) : r \in Sids /\ r # s
      BY <2>1, OfTheList
    <2>3. \A r \in ToSet(subscriptions) : FirstToCome(r, sub, at) => FirstToCome(r, sub', at')
      BY <1>1, <1>3, <1>5, <2>2 DEF FirstToCome, Coming
    <2>4. QED
      BY <1>1, <1>3, <2>2, <2>3, ToldKept
  <1>14. QED
    BY <1>8, <1>9, <1>10, <1>11, <1>12, <1>13

LEMMA AppendKeeps ==
  ASSUME IInv, NEW th \in Threads, subscribe_append(th)
  PROVE  IInv'
  <1> USE DEF IInv
  <1>0. at[th].step = "append" /\ at[th].sid \in Sids
    BY DEF subscribe_append, Session, ThreadOK
  <1> PICK s \in Sids : s = at[th].sid
    BY <1>0
  <1> DEFINE seen == at[th].seen
             b == [step |-> "read", sid |-> s]
  <1>1. /\ at[th].step = "append" /\ at[th].sid = s
        /\ EndsWith(Append(subscriptions, s), seen, Append(seen, s))
        /\ at' = [at EXCEPT ![th] = b]
        /\ sub' = sub /\ making' = making
        /\ now' = now /\ value' = value /\ visit' = visit
    BY <1>0 DEF subscribe_append
  <1>2. /\ at'[th] = b /\ \A tk \in Threads : tk # th => at'[tk] = at[tk]
    BY <1>1 DEF Session
  <1>3. s \in Fresh /\ s \notin Fresh' /\ Fresh' \subseteq Fresh
    <2>1. sub[s] # NoSubscription
      BY <1>1 DEF Session, ThreadOK
    <2>2. \A tk \in Threads : at'[tk].step = "append" => at'[tk] = at[tk] /\ at[tk].sid # s
      BY <1>1, <1>2 DEF Session, InList
    <2>3. QED
      BY <1>1, <2>1, <2>2 DEF Fresh
  <1>4. GoodList(seen, Fresh) /\ GoodList(subscriptions, Fresh)
    BY <1>1 DEF Session, InList, Types
  <1>5. /\ GoodList(subscriptions', Fresh')
        /\ overlapped' \in BOOLEAN /\ crashed' \in BOOLEAN
        /\ ~overlapped' => ~overlapped /\ subscriptions' = Append(subscriptions, s)
    <2>1. /\ GoodList(Append(subscriptions, s), Fresh') /\ GoodList(Append(seen, s), Fresh')
          /\ GoodList(subscriptions, Fresh') /\ GoodList(seen, Fresh')
      BY <1>3, <1>4, AppendGood, GoodListStays
    <2>2. QED
      BY <1>1, <2>1 DEF EndsWith, Types
  <1>6. /\ sub' \in [Sids -> SoundObjects \cup {NoSubscription, Ended}]
        /\ Evolves /\ \A r \in Sids : Exists(r)' = Exists(r)
    BY <1>1, NothingChanges
  <1>7. Types'
    BY <1>1, <1>5, <1>6 DEF Types
  <1>8. Session'
    <2>1. ThreadOK(b, sub') /\ ~InList(b)
      BY <1>1 DEF ThreadOK, Session, InList
    <2> HIDE DEF b
    <2>2. QED
      BY <1>1, <1>3, <1>6, <2>1, OneMoves
  <1>9. MainThread'
    BY <1>1, <1>6, MakingStays DEF MainThread
  <1>10. FirstOne'
    BY <1>1, <1>2, <1>6, FirstOneKept
  <1>11. Agree'
    <2> SUFFICES ASSUME ~overlapped'
        PROVE  ToSet(subscriptions') = { r \in Sids : Listed(r)' }
      BY DEF Agree
    <2>1. ToSet(subscriptions') = ToSet(subscriptions) \cup {s}
      <3>1. subscriptions' = Append(subscriptions, s) /\ subscriptions \in Seq(Sids)
        BY <1>4, <1>5 DEF GoodList
      <3>2. ToSet(Append(subscriptions, s)) = ToSet(subscriptions) \cup {s}
        BY <3>1, AppendToList
      <3>3. QED
        BY <3>1, <3>2
    <2>2. Listed(s)'
      <3>1. Exists(s)
        BY <1>1 DEF Session, ThreadOK, Exists
      <3>2. \A tk \in Threads : at'[tk].step = "append" => at'[tk].sid # s
        BY <1>1, <1>2 DEF Session, InList
      <3>3. QED
        BY <1>6, <3>1, <3>2 DEF Listed
    <2>3. \A r \in Sids : r # s => (Listed(r)' <=> Listed(r))
      BY <1>1, <1>2, <1>6 DEF Listed
    <2>4. ToSet(subscriptions) = { r \in Sids : Listed(r) }
      BY <1>5 DEF Agree
    <2>5. QED
      BY <2>1, <2>2, <2>3, <2>4
  <1>12. Told'
    <2> SUFFICES ASSUME ~overlapped', NEW i \in 1..Len(subscriptions'),
                        Exists(subscriptions'[i])
        PROVE  \/ ToldBy(sub[subscriptions'[i]], value)
               \/ visit # 0 /\ visit <= i
               \/ sub[subscriptions'[i]].passed
               \/ FirstToCome(subscriptions'[i], sub', at')
      BY <1>1 DEF Told, Exists, FirstToCome
    <2>1. /\ Len(subscriptions') = Len(subscriptions) + 1
          /\ Len(subscriptions) \in Nat
          /\ \A j \in 1..Len(subscriptions) : subscriptions'[j] = subscriptions[j]
          /\ subscriptions'[Len(subscriptions) + 1] = s
      BY <1>4, <1>5, AppendToList, LenProperties DEF GoodList
    <2>2. CASE i = Len(subscriptions) + 1
      BY <1>1, <1>2, <2>1, <2>2 DEF FirstToCome, Coming
    <2>3. CASE i # Len(subscriptions) + 1
      <3>1. i \in 1..Len(subscriptions) /\ subscriptions'[i] = subscriptions[i]
        BY <2>1, <2>3
      <3>2. FirstToCome(subscriptions[i], sub, at) => FirstToCome(subscriptions'[i], sub', at')
        BY <1>1, <1>2, <3>1 DEF FirstToCome, Coming
      <3>3. QED
        BY <1>5, <3>1, <3>2 DEF Told
    <2>4. QED
      BY <2>2, <2>3
  <1>13. QED
    BY <1>7, <1>8, <1>9, <1>10, <1>11, <1>12

LEMMA ReadKeeps ==
  ASSUME IInv, NEW th \in Threads, subscribe_read(th)
  PROVE  IInv'
  <1> USE DEF IInv
  <1>0. at[th].step = "read" /\ at[th].sid \in Sids
    BY DEF subscribe_read, Session, ThreadOK
  <1> PICK s \in Sids : s = at[th].sid
    BY <1>0
  <1>1. CASE ~Exists(s)
    BY <1>0, <1>1, CrashKeeps DEF subscribe_read
  <1>2. CASE Exists(s)
    <2> DEFINE b == [step |-> "write", sid |-> s, reading |-> Reading(sub[s])]
    <2>1. /\ at' = [at EXCEPT ![th] = b]
          /\ sub' = sub /\ making' = making /\ crashed' = crashed
          /\ subscriptions' = subscriptions /\ overlapped' = overlapped
          /\ now' = now /\ value' = value /\ visit' = visit
      BY <1>0, <1>2 DEF subscribe_read, list
    <2>2. /\ at'[th] = b /\ \A tk \in Threads : tk # th => at'[tk] = at[tk]
      BY <2>1 DEF Session
    <2>3. /\ sub' \in [Sids -> SoundObjects \cup {NoSubscription, Ended}]
          /\ Evolves /\ \A r \in Sids : Exists(r)' = Exists(r)
      BY <2>1, NothingChanges
    <2>4. Fresh' \subseteq Fresh
      BY <2>1, <2>2, FreshKept
    <2>5. ThreadOK(b, sub') /\ ~InList(b)
      <3>1. ReadingOf(Reading(sub[s]), sub[s]) /\ sub[s] # NoSubscription
        BY <1>2, OfTheList, ReadingSound
      <3>2. QED
        BY <2>1, <3>1 DEF ThreadOK, InList
    <2>6. Types'
      BY <2>1, <2>3, <2>4, TypesKept DEF Types
    <2>7. Session'
      BY <2>1, <2>3, <2>4, <2>5, OneMoves
    <2>8. MainThread'
      BY <2>1, <2>3, MakingStays DEF MainThread
    <2>9. FirstOne'
      BY <1>0, <2>1, <2>2, <2>3, FirstOneKept
    <2>10. Agree'
      <3>1. \A r \in Sids : Listed(r)' <=> Listed(r)
        BY <1>0, <2>2, <2>3 DEF Listed
      <3>2. QED
        BY <2>1, <3>1, AgreeKept
    <2>11. Told'
      <3>1. \A r \in ToSet(subscriptions) :
              FirstToCome(r, sub, at) => FirstToCome(r, sub', at')
        BY <1>0, <2>1, <2>2 DEF FirstToCome, Coming
      <3>2. \A r \in ToSet(subscriptions) : r \in Sids
        BY OfTheList
      <3>3. QED
        BY <2>1, <2>3, <3>1, <3>2, ToldKept
    <2>12. QED
      BY <2>6, <2>7, <2>8, <2>9, <2>10, <2>11
  <1>3. QED
    BY <1>1, <1>2

LEMMA MessageKeeps ==
  ASSUME IInv, NEW th \in Threads, subscribe_message(th)
  PROVE  IInv'
  <1> USE DEF IInv
  <1>0. at[th].step = "write" /\ at[th].sid \in Sids
    BY DEF subscribe_message, Session, ThreadOK
  <1> PICK s \in Sids : s = at[th].sid
    BY <1>0
  <1>1. CASE ~Exists(s)
    BY <1>0, <1>1, CrashKeeps DEF subscribe_message
  <1>2. CASE Exists(s)
    <2> DEFINE r == at[th].reading
               x == Made(sub[s], r)
               b == [step |-> "send", sid |-> s, key |-> getNextSeq(r),
                     nth |-> sub[s].made + 1]
    <2>1. /\ at' = [at EXCEPT ![th] = b]
          /\ sub' = [sub EXCEPT ![s] = x]
          /\ making' = making /\ crashed' = crashed
          /\ subscriptions' = subscriptions /\ overlapped' = overlapped
          /\ now' = now /\ value' = value /\ visit' = visit
      BY <1>0, <1>2 DEF subscribe_message, list
    <2>2. /\ at'[th] = b /\ \A tk \in Threads : tk # th => at'[tk] = at[tk]
      BY <2>1 DEF Session
    <2>3. sub[s] \in SoundObjects /\ ReadingOf(r, sub[s])
      BY <1>0, <1>2, OfTheList DEF Session, ThreadOK, Exists
    <2>4. /\ x \in SoundObjects /\ Later(sub[s], x)
          /\ x.made = sub[s].made + 1 /\ x.newest = sub[s].newest
          /\ x.passed = sub[s].passed /\ x.firstMessageSent = TRUE
          /\ getNextSeq(r) \in 0..LastKey
          /\ ~x.mixed => getNextSeq(r) = KeyOf(sub[s].made + 1)
      BY <2>3, MadeSound
    <2>5. x.exists /\ x # Ended /\ x # NoSubscription
      BY <2>4, ExistsOrNot
    <2>6. sub[s].made \in Nat /\ sub[s].newest.nth \in Nat
          /\ sub[s].newest.nth <= sub[s].made
      BY <2>3, Numbers
    <2> HIDE DEF x
    <2>7. /\ sub' \in [Sids -> SoundObjects \cup {NoSubscription, Ended}]
          /\ Evolves /\ sub'[s] = x
          /\ \A q \in Sids : q # s => sub'[q] = sub[q]
          /\ \A q \in Sids : Exists(q)' = Exists(q)
          /\ \A q \in Sids : sub'[q] = NoSubscription <=> sub[q] = NoSubscription
      BY <1>2, <2>1, <2>4, <2>5, Replaced
    <2>8. Fresh' \subseteq Fresh
      BY <2>2, <2>7, FreshKept
    <2>9. ThreadOK(b, sub') /\ ~InList(b)
      BY <2>4, <2>5, <2>6, <2>7 DEF ThreadOK, InList
    <2>10. Types'
      BY <2>1, <2>7, <2>8, TypesKept DEF Types
    <2>11. Session'
      BY <2>1, <2>7, <2>8, <2>9, OneMoves
    <2>12. MainThread'
      BY <2>1, <2>7, MakingStays DEF MainThread
    <2>13. FirstOne'
      <3> SUFFICES ASSUME NEW q \in Sids, Exists(q)', ~sub'[q].firstMessageSent
          PROVE  \E tk \in Threads :
                   at'[tk].step \in {"append", "read", "write"} /\ at'[tk].sid = q
        BY DEF FirstOne
      <3>1. q # s /\ Exists(q) /\ ~sub[q].firstMessageSent
        BY <2>4, <2>7
      <3>2. PICK tk \in Threads :
              at[tk].step \in {"append", "read", "write"} /\ at[tk].sid = q
        BY <3>1 DEF FirstOne
      <3>3. tk # th
        BY <1>0, <3>1, <3>2
      <3>4. QED
        BY <2>2, <3>2, <3>3
    <2>14. Agree'
      <3>1. \A q \in Sids : Listed(q)' <=> Listed(q)
        BY <1>0, <2>2, <2>7 DEF Listed
      <3>2. QED
        BY <2>1, <3>1, AgreeKept
    <2>15. Told'
      <3>1. ASSUME NEW q \in ToSet(subscriptions), FirstToCome(q, sub, at)
            PROVE  FirstToCome(q, sub', at')
        <4>1. q \in Sids
          BY OfTheList
        <4>2. PICK tk \in Threads : Coming(at[tk], q, sub[q])
          BY <3>1 DEF FirstToCome
        <4>3. sub'[q].newest = sub[q].newest
          BY <2>4, <2>7, <4>1
        <4>4. CASE tk = th
          BY <1>0, <2>2, <2>4, <2>6, <2>7, <4>2, <4>4 DEF FirstToCome, Coming
        <4>5. CASE tk # th
          BY <2>2, <4>2, <4>3, <4>5 DEF FirstToCome, Coming
        <4>6. QED
          BY <4>4, <4>5
      <3>2. \A q \in ToSet(subscriptions) :
              q \in Sids /\ sub'[q].newest = sub[q].newest /\ sub'[q].passed = sub[q].passed
        BY <2>4, <2>7, OfTheList
      <3>3. QED
        BY <2>1, <2>7, <3>1, <3>2, ToldKept DEF ToldBy
    <2>16. QED
      BY <2>10, <2>11, <2>12, <2>13, <2>14, <2>15
  <1>3. QED
    BY <1>1, <1>2

LEMMA SendKeeps ==
  ASSUME IInv, NEW th \in Threads, subscribe_send(th)
  PROVE  IInv'
  <1> USE DEF IInv
  <1>0. at[th].step = "send" /\ at[th].sid \in Sids
    BY DEF subscribe_send, Session, ThreadOK
  <1> PICK s \in Sids : s = at[th].sid
    BY <1>0
  <1>1. CASE ~Exists(s)
    BY <1>0, <1>1, CrashKeeps DEF subscribe_send
  <1>2. CASE Exists(s)
    <2> DEFINE y == Sent(sub[s], at[th].nth, at[th].key, TRUE)
    <2>1. /\ at' = [at EXCEPT ![th] = Nobody]
          /\ sub' = [sub EXCEPT ![s] = y]
          /\ making' = making /\ crashed' = crashed
          /\ subscriptions' = subscriptions /\ overlapped' = overlapped
          /\ now' = now /\ value' = value /\ visit' = visit
      BY <1>0, <1>2 DEF subscribe_send, list
    <2>2. /\ at'[th] = Nobody /\ \A tk \in Threads : tk # th => at'[tk] = at[tk]
      BY <2>1 DEF Session
    <2>3. sub[s] \in SoundObjects /\ sub[s].newest.nth \in Nat
      BY <1>2, OfTheList, Numbers
    <2>4. /\ y \in SoundObjects /\ Later(sub[s], y)
          /\ y.passed = sub[s].passed /\ y.firstMessageSent = sub[s].firstMessageSent
          /\ at[th].nth <= sub[s].newest.nth => y = sub[s]
          /\ at[th].nth > sub[s].newest.nth => ToldBy(y, value)
          /\ at[th].nth \in Nat
      <3>1. value \in 0..MaxChanges
        BY DEF Types
      <3>2. PICK x \in SoundObjects : x = sub[s]
        BY <2>3
      <3>3. PICK n \in Nat \ {0} : n = at[th].nth
        BY <1>0 DEF Session, ThreadOK
      <3>4. PICK k \in 0..LastKey : k = at[th].key
        BY <1>0 DEF Session, ThreadOK
      <3>5. n <= x.made /\ (~x.mixed => k = KeyOf(n))
        BY <1>0, <1>2, <3>2, <3>3, <3>4 DEF Session, ThreadOK, Exists
      <3>6. PICK whole \in BOOLEAN : whole = TRUE
        OBVIOUS
      <3>7. k = 0 => whole \/ x.early
        BY <3>6
      <3>8. /\ Sent(x, n, k, whole) \in SoundObjects
            /\ Later(x, Sent(x, n, k, whole))
            /\ Sent(x, n, k, whole).passed = x.passed
            /\ Sent(x, n, k, whole).firstMessageSent = x.firstMessageSent
            /\ n <= x.newest.nth => Sent(x, n, k, whole) = x
            /\ n > x.newest.nth => ToldBy(Sent(x, n, k, whole), value)
        BY <3>1, <3>5, <3>7, SentSound
      <3>9. y = Sent(x, n, k, whole)
        BY <3>2, <3>3, <3>4, <3>6
      <3>10. QED
        BY <3>2, <3>3, <3>8, <3>9
    <2> HIDE DEF y
    <2>5. y # Ended
      BY <2>4, ExistsOrNot DEF Ended
    <2>6. /\ sub' \in [Sids -> SoundObjects \cup {NoSubscription, Ended}]
          /\ Evolves /\ sub'[s] = y
          /\ \A q \in Sids : q # s => sub'[q] = sub[q]
          /\ \A q \in Sids : Exists(q)' = Exists(q)
          /\ \A q \in Sids : sub'[q] = NoSubscription <=> sub[q] = NoSubscription
      BY <1>2, <2>1, <2>4, <2>5, Replaced
    <2>7. Nobody.step = "idle"
      BY DEF Nobody
    <2>8. Fresh' \subseteq Fresh
      BY <2>2, <2>6, <2>7, FreshKept
    <2>9. ThreadOK(Nobody, sub') /\ ~InList(Nobody)
      BY <2>7 DEF ThreadOK, InList
    <2>10. Types'
      BY <2>1, <2>6, <2>8, TypesKept DEF Types
    <2>11. Session'
      BY <2>1, <2>6, <2>8, <2>9, OneMoves
    <2>12. MainThread'
      BY <2>1, <2>6, MakingStays DEF MainThread
    <2>13. FirstOne'
      BY <1>0, <2>2, <2>4, <2>6, FirstOneKept
    <2>14. Agree'
      <3>1. \A q \in Sids : Listed(q)' <=> Listed(q)
        BY <1>0, <2>2, <2>6, <2>7 DEF Listed
      <3>2. QED
        BY <2>1, <3>1, AgreeKept
    <2>15. Told'
      <3>1. CASE at[th].nth > sub[s].newest.nth
        <4>1. ASSUME NEW q \in ToSet(subscriptions), q # s, FirstToCome(q, sub, at)
              PROVE  FirstToCome(q, sub', at')
          BY <1>0, <2>2, <2>6, <4>1, OfTheList DEF FirstToCome, Coming
        <4>2. \A q \in ToSet(subscriptions) : q \in Sids /\ (q = s => ToldBy(sub'[q], value))
          BY <2>4, <2>6, <3>1, OfTheList
        <4>3. QED
          BY <2>1, <2>4, <2>6, <4>1, <4>2, ToldKept
      <3>2. CASE ~(at[th].nth > sub[s].newest.nth)
        <4>1. y = sub[s]
          BY <2>3, <2>4, <3>2
        <4>2. \A q \in ToSet(subscriptions) : q \in Sids /\ sub'[q] = sub[q]
          BY <2>6, <4>1, OfTheList
        <4>3. \A q \in ToSet(subscriptions) :
                FirstToCome(q, sub, at) => FirstToCome(q, sub', at')
          BY <1>0, <2>2, <3>2, <4>2 DEF FirstToCome, Coming
        <4>4. QED
          BY <2>1, <2>6, <4>2, <4>3, ToldKept
      <3>3. QED
        BY <3>1, <3>2
    <2>16. QED
      BY <2>10, <2>11, <2>12, <2>13, <2>14, <2>15
  <1>3. QED
    BY <1>1, <1>2

LEMMA RenewKeeps ==
  ASSUME IInv, NEW th \in Threads, NEW s \in Sids, NEW t \in Timeouts, renew(th, s, t)
  PROVE  IInv'
  <1> USE DEF IInv
  <1>1. CASE Dangling
    BY <1>1, CrashKeeps DEF renew
  <1>2. CASE ~Dangling
    <2> DEFINE x == renewed(sub[s], t)
    <2>1. /\ s \in ToSet(subscriptions)
          /\ sub' = [sub EXCEPT ![s] = x]
          /\ at' = at /\ making' = making /\ crashed' \in BOOLEAN
          /\ subscriptions' = subscriptions /\ overlapped' = overlapped
          /\ now' = now /\ value' = value /\ visit' = visit
      BY <1>2 DEF renew, Known, MayCollide, list
    <2>2. Exists(s) /\ sub[s] \in SoundObjects
      BY <1>2, <2>1, OfTheList DEF Dangling
    <2>3. /\ x \in SoundObjects /\ Later(sub[s], x)
          /\ x.firstMessageSent = sub[s].firstMessageSent
          /\ x.newest = sub[s].newest /\ x.passed = sub[s].passed
      BY <2>2, RenewedSound DEF Types
    <2> HIDE DEF x
    <2>4. x # Ended
      BY <2>3, ExistsOrNot DEF Ended
    <2>5. /\ sub' \in [Sids -> SoundObjects \cup {NoSubscription, Ended}]
          /\ Evolves /\ sub'[s] = x
          /\ \A q \in Sids : q # s => sub'[q] = sub[q]
          /\ \A q \in Sids : Exists(q)' = Exists(q)
          /\ \A q \in Sids : sub'[q] = NoSubscription <=> sub[q] = NoSubscription
      BY <2>1, <2>2, <2>3, <2>4, Replaced
    <2>6. Fresh' \subseteq Fresh
      BY <2>1, <2>5, FreshKept
    <2>7. Types' /\ Session' /\ MainThread'
      BY <2>1, <2>5, <2>6, TypesKept, NoneMoves, MakingStays DEF Types, MainThread
    <2>8. FirstOne'
      BY <2>1, <2>3, <2>5, FirstOneKept
    <2>9. Agree'
      BY <2>1, <2>5, AgreeKept DEF Listed
    <2>10. Told'
      <3>1. \A q \in Sids : sub'[q].newest = sub[q].newest /\ sub'[q].passed = sub[q].passed
        BY <2>3, <2>5
      <3>2. \A q \in ToSet(subscriptions) : q \in Sids
        BY OfTheList
      <3>3. \A q \in Sids : FirstToCome(q, sub, at) => FirstToCome(q, sub', at')
        BY <2>1, <3>1 DEF FirstToCome, Coming
      <3>4. QED
        BY <2>1, <2>5, <3>1, <3>2, <3>3, ToldKept DEF ToldBy
    <2>11. QED
      BY <2>7, <2>8, <2>9, <2>10
  <1>3. QED
    BY <1>1, <1>2

LEMMA UnsubscribeKeeps ==
  ASSUME IInv, NEW th \in Threads, NEW s \in Sids, unsubscribe(th, s)
  PROVE  IInv'
  <1> USE DEF IInv
  <1>1. CASE Dangling
    BY <1>1, CrashKeeps DEF unsubscribe
  <1>2. CASE ~Dangling
    <2> DEFINE b == [step |-> "remove", sid |-> s, place |-> Place(s),
                     seen |-> subscriptions]
    <2>1. /\ s \in ToSet(subscriptions)
          /\ at[th].step = "idle"
          /\ sub' = [sub EXCEPT ![s] = Ended]
          /\ at' = [at EXCEPT ![th] = b]
          /\ making' = making /\ crashed' \in BOOLEAN
          /\ subscriptions' = subscriptions /\ overlapped' = overlapped
          /\ now' = now /\ value' = value /\ visit' = visit
      <3>1. at[th] = Nobody /\ s \in ToSet(subscriptions)
        BY DEF unsubscribe, Known
      <3>2. at[th].step = "idle"
        BY <3>1 DEF Nobody
      <3>3. /\ sub' = [sub EXCEPT ![s] = Ended]
            /\ at' = [at EXCEPT ![th] = b]
            /\ making' = making /\ MayCollide
            /\ subscriptions' = subscriptions /\ overlapped' = overlapped
            /\ now' = now /\ value' = value /\ visit' = visit
        BY <1>2 DEF unsubscribe, list
      <3>4. QED
        BY <3>1, <3>2, <3>3 DEF MayCollide
    <2>2. Exists(s) /\ sub[s] \in SoundObjects /\ s \notin Fresh /\ sub[s] # Ended
      BY <1>2, <2>1, OfTheList DEF Dangling
    <2>3. /\ at'[th] = b /\ \A tk \in Threads : tk # th => at'[tk] = at[tk]
      BY <2>1 DEF Session
    <2>4. Place(s) \in 1..Len(subscriptions) /\ subscriptions[Place(s)] = s
      BY <2>1, OfTheList DEF Place
    <2>5. /\ sub' \in [Sids -> SoundObjects \cup {NoSubscription, Ended}]
          /\ Evolves /\ sub'[s] = Ended
          /\ \A q \in Sids : q # s => sub'[q] = sub[q] /\ Exists(q)' = Exists(q)
          /\ ~Exists(s)'
          /\ \A q \in Sids : sub'[q] = NoSubscription <=> sub[q] = NoSubscription
      BY <2>1, <2>2, Replaced
    <2>6. Fresh' \subseteq Fresh
      BY <2>3, <2>5, FreshKept
    <2>7. \A tk \in Threads : at[tk].step = "remove" => at[tk].sid # s
      BY <2>2 DEF Session, ThreadOK
    <2>8. Types'
      BY <2>1, <2>5, <2>6, TypesKept DEF Types
    <2>9. Session'
      <3>1. ThreadOK(b, sub')
        BY <2>4, <2>5, ExistsOrNot DEF ThreadOK
      <3>2. GoodList(b.seen, Fresh')
        BY <2>6, GoodListStays DEF Types
      <3>3. \A tk \in Threads : tk # th /\ at[tk].step = b.step => at[tk].sid # b.sid
        BY <2>7
      <3> HIDE DEF b
      <3>4. QED
        BY <2>1, <2>5, <2>6, <3>1, <3>2, <3>3, OneMoves
    <2>10. MainThread'
      BY <2>1, <2>5, MakingStays DEF MainThread
    <2>11. FirstOne'
      <3>1. \A q \in Sids : Exists(q)' /\ ~sub'[q].firstMessageSent
                              => Exists(q) /\ ~sub[q].firstMessageSent
        BY <2>5
      <3>2. QED
        BY <2>1, <2>3, <3>1, FirstOneKept
    <2>12. Agree'
      <3>1. Listed(s) /\ Listed(s)'
        BY <2>2, <2>3 DEF Listed, Fresh
      <3>2. \A q \in Sids : q # s => (Listed(q)' <=> Listed(q))
        BY <2>1, <2>3, <2>5 DEF Listed
      <3>3. QED
        BY <2>1, <3>1, <3>2, AgreeKept
    <2>13. Told'
      <3>1. \A q \in ToSet(subscriptions) : q \in Sids /\ (Exists(q)' => q # s)
        BY <2>5, OfTheList
      <3>2. \A q \in ToSet(subscriptions) :
              q # s /\ FirstToCome(q, sub, at) => FirstToCome(q, sub', at')
        BY <2>1, <2>3, <2>5, <3>1 DEF FirstToCome, Coming
      <3>3. QED
        BY <2>1, <2>5, <3>1, <3>2, ToldKept
    <2>14. QED
      BY <2>8, <2>9, <2>10, <2>11, <2>12, <2>13
  <1>3. QED
    BY <1>1, <1>2

(* The walk passes over an element.                                        *)
LEMMA PassingMarks ==
  ASSUME Types, NEW i \in Int, sub' = Passing(i, sub)
  PROVE  /\ sub' \in [Sids -> SoundObjects \cup {NoSubscription, Ended}]
         /\ Evolves
         /\ \A q \in Sids : /\ Exists(q)' = Exists(q)
                            /\ sub'[q] = NoSubscription <=> sub[q] = NoSubscription
                            /\ sub'[q].newest = sub[q].newest
                            /\ sub'[q].firstMessageSent = sub[q].firstMessageSent
                            /\ Exists(q) /\ sub[q].passed => sub'[q].passed
         /\ i \in 1..Len(subscriptions) /\ Exists(subscriptions[i])
              => sub'[subscriptions[i]].passed
  <1>1. CASE ~(i \in 1..Len(subscriptions) /\ Exists(subscriptions[i]))
    <2>1. sub' = sub
      BY <1>1 DEF Passing
    <2>2. QED
      BY <1>1, <2>1, NothingChanges
  <1>2. CASE i \in 1..Len(subscriptions) /\ Exists(subscriptions[i])
    <2> PICK s \in Sids : s = subscriptions[i]
      BY <1>2, OfTheList
    <2>1. Exists(s) /\ sub[s] \in SoundObjects
      BY <1>2, OfTheList
    <2> DEFINE y == [sub[s] EXCEPT !.passed = TRUE]
    <2>2. /\ y \in SoundObjects /\ Later(sub[s], y)
          /\ y.newest = sub[s].newest /\ y.passed = TRUE
          /\ y.firstMessageSent = sub[s].firstMessageSent
      BY <2>1, MarkedSound
    <2>3. sub' = [sub EXCEPT ![s] = y]
      BY <1>2 DEF Passing
    <2> HIDE DEF y
    <2>4. y # Ended
      BY <2>2, ExistsOrNot DEF Ended
    <2>5. QED
      BY <2>1, <2>2, <2>3, <2>4, Replaced
  <1>3. QED
    BY <1>1, <1>2

(* The element at i is removed from the list, and its object deleted; whom *)
(* the walk had still to come to it comes to, or is marked.                *)
LEMMA RemovalTold ==
  ASSUME Types, Told, ~overlapped, NEW i \in 1..Len(subscriptions),
         subscriptions' = RemoveAt(subscriptions, i), value' = value,
         \A q \in Sids :
           q # subscriptions[i] /\ Exists(q)' =>
             /\ Exists(q)
             /\ sub'[q].newest = sub[q].newest
             /\ sub[q].passed => sub'[q].passed
             /\ FirstToCome(q, sub, at) => FirstToCome(q, sub', at'),
         \A j \in 1..Len(subscriptions) :
           j # i /\ visit # 0 /\ visit <= j /\ Exists(subscriptions[j]) =>
             \/ visit' # 0 /\ visit' <= IF j < i THEN j ELSE j - 1
             \/ sub'[subscriptions[j]].passed
  PROVE  Told'
  <1> SUFFICES ASSUME NEW k \in 1..Len(subscriptions'), Exists(subscriptions[k])'
      PROVE  \/ ToldBy(sub'[subscriptions'[k]], value)
             \/ visit' # 0 /\ visit' <= k
             \/ sub'[subscriptions'[k]].passed
             \/ FirstToCome(subscriptions'[k], sub', at')
    BY DEF Told
  <1>1. subscriptions \in Seq(Sids) /\ Len(subscriptions) \in Nat
    BY OfTheList DEF Types, GoodList
  <1>2. /\ Len(subscriptions') = Len(subscriptions) - 1
        /\ \A j \in 1..Len(subscriptions) - 1 :
             subscriptions'[j] = IF j < i THEN subscriptions[j] ELSE subscriptions[j + 1]
    BY <1>1, RemoveFromSeq
  <1>3. k \in 1..Len(subscriptions) - 1
    BY <1>2
  <1>4. PICK j \in 1..Len(subscriptions) :
          j # i /\ subscriptions'[k] = subscriptions[j]
          /\ k = IF j < i THEN j ELSE j - 1
    <2>1. CASE k < i
      <3>1. /\ k \in 1..Len(subscriptions) /\ k # i
            /\ k = IF k < i THEN k ELSE k - 1
        BY <1>1, <1>3, <2>1
      <3>2. subscriptions'[k] = subscriptions[k]
        BY <1>2, <1>3, <2>1
      <3>3. QED
        BY <3>1, <3>2, Zenon
    <2>2. CASE ~(k < i)
      <3>1. /\ k + 1 \in 1..Len(subscriptions) /\ k + 1 # i
            /\ k = IF k + 1 < i THEN k + 1 ELSE (k + 1) - 1
        BY <1>1, <1>3, <2>2
      <3>2. subscriptions'[k] = subscriptions[k + 1]
        BY <1>2, <1>3, <2>2
      <3>3. QED
        BY <3>1, <3>2, Zenon
    <2>3. QED
      BY <2>1, <2>2
  <1> PICK r \in Sids : r = subscriptions[j]
    BY <1>4, OfTheList
  <1>5. r # subscriptions[i] /\ subscriptions'[k] = r /\ sub'[r].exists
    BY <1>4, OfTheList DEF Exists
  <1>6. Exists(r)'
    BY <1>5 DEF Exists
  <1>7. /\ Exists(r) /\ sub'[r].newest = sub[r].newest
        /\ sub[r].passed => sub'[r].passed
        /\ FirstToCome(r, sub, at) => FirstToCome(r, sub', at')
    BY <1>5, <1>6
  <1>8. visit # 0 /\ visit <= j => \/ visit' # 0 /\ visit' <= k
                                   \/ sub'[r].passed
    BY <1>4, <1>7
  <1>9. \/ ToldBy(sub[r], value)
        \/ visit # 0 /\ visit <= j
        \/ sub[r].passed
        \/ FirstToCome(r, sub, at)
    BY <1>4, <1>7 DEF Told
  <1>10. ToldBy(sub[r], value) => ToldBy(sub'[r], value)
    BY <1>7 DEF ToldBy
  <1>11. QED
    BY <1>5, <1>7, <1>8, <1>9, <1>10

LEMMA RemoveAtKeeps ==
  ASSUME IInv, NEW th \in Threads, unsubscribe_removeAt(th)
  PROVE  IInv'
  <1> USE DEF IInv
  <1>0. at[th].step = "remove" /\ at[th].sid \in Sids
    BY DEF unsubscribe_removeAt, Session, ThreadOK
  <1> PICK s \in Sids : s = at[th].sid
    BY <1>0
  <1> DEFINE i == at[th].place
             seen == at[th].seen
             slips == ~ClosedFromFront(i) /\ visit > i
  <1>1. /\ at[th].step = "remove" /\ at[th].sid = s
        /\ EndsWith(RemovedAt(subscriptions, i), seen, RemoveAt(seen, i))
        /\ sub' = IF slips THEN Passing(visit, sub) ELSE sub
        /\ visit' = IF visit > 1 THEN AfterRemoval(visit, i) ELSE visit
        /\ at' = [at EXCEPT ![th] = Nobody]
        /\ now' = now /\ value' = value /\ making' = making
    BY <1>0 DEF unsubscribe_removeAt
  <1>2. /\ i \in 1..Len(seen) /\ seen[i] = s /\ sub[s] = Ended
        /\ GoodList(seen, Fresh) /\ GoodList(subscriptions, Fresh)
    BY <1>1 DEF Session, ThreadOK, InList, Types
  <1>3. /\ at'[th] = Nobody /\ \A tk \in Threads : tk # th => at'[tk] = at[tk]
    BY <1>1 DEF Session
  <1>4. Nobody.step = "idle"
    BY DEF Nobody
  <1>5. visit \in 0..Cardinality(Sids) + 1 /\ Cardinality(Sids) \in Nat
        /\ Len(subscriptions) \in Nat /\ i \in Int
    <2>1. Len(seen) \in Nat
      BY <1>2, LenProperties DEF GoodList
    <2>2. QED
      BY <1>2, <2>1, OfTheList DEF Types
  <1>6. /\ sub' \in [Sids -> SoundObjects \cup {NoSubscription, Ended}]
        /\ Evolves
        /\ \A q \in Sids : /\ Exists(q)' = Exists(q)
                           /\ sub'[q] = NoSubscription <=> sub[q] = NoSubscription
                           /\ sub'[q].newest = sub[q].newest
                           /\ sub'[q].firstMessageSent = sub[q].firstMessageSent
                           /\ Exists(q) /\ sub[q].passed => sub'[q].passed
        /\ slips /\ visit \in 1..Len(subscriptions) /\ Exists(subscriptions[visit])
             => sub'[subscriptions[visit]].passed
    <2>1. CASE slips
      BY <1>1, <1>5, <2>1, PassingMarks
    <2>2. CASE ~slips
      BY <1>1, <2>2, NothingChanges
    <2>3. QED
      BY <2>1, <2>2
  <1>7. Fresh' \subseteq Fresh
    BY <1>3, <1>4, <1>6, FreshKept
  <1>8. /\ GoodList(subscriptions', Fresh')
        /\ overlapped' \in BOOLEAN /\ crashed' \in BOOLEAN
        /\ ~overlapped' => /\ ~overlapped /\ seen = subscriptions
                           /\ subscriptions' = RemoveAt(subscriptions, i)
    <2>1. /\ GoodList(RemovedAt(subscriptions, i), Fresh') /\ GoodList(RemoveAt(seen, i), Fresh')
          /\ GoodList(subscriptions, Fresh') /\ GoodList(seen, Fresh')
      BY <1>2, <1>7, RemoveGood, GoodListStays DEF RemovedAt
    <2>2. seen = subscriptions => RemovedAt(subscriptions, i) = RemoveAt(subscriptions, i)
      BY <1>2 DEF RemovedAt
    <2>3. QED
      BY <1>1, <2>1, <2>2 DEF EndsWith, Types
  <1>9. visit' \in 0..Cardinality(Sids) + 1
    BY <1>1, <1>5 DEF AfterRemoval
  <1>10. Types'
    BY <1>1, <1>6, <1>8, <1>9 DEF Types
  <1>11. Session'
    <2>1. ThreadOK(Nobody, sub') /\ ~InList(Nobody)
      BY <1>4 DEF ThreadOK, InList
    <2>2. QED
      BY <1>1, <1>6, <1>7, <2>1, OneMoves
  <1>12. MainThread'
    BY <1>1, <1>6, MakingStays DEF MainThread
  <1>13. FirstOne'
    BY <1>1, <1>3, <1>6, FirstOneKept
  <1>14. Agree'
    <2> SUFFICES ASSUME ~overlapped'
        PROVE  ToSet(subscriptions') = { r \in Sids : Listed(r)' }
      BY DEF Agree
    <2>1. ToSet(subscriptions') = ToSet(subscriptions) \ {s}
      <3>1. subscriptions' = RemoveAt(subscriptions, i) /\ i \in 1..Len(subscriptions)
            /\ subscriptions[i] = s /\ subscriptions \in Seq(Sids)
            /\ IsInjective(subscriptions)
        BY <1>2, <1>8 DEF GoodList
      <3> HIDE DEF i
      <3>2. QED
        BY <3>1, RemoveFromList
    <2>2. ~Listed(s)'
      <3>1. ~Exists(s)
        BY <1>2 DEF Exists, Ended
      <3>2. \A tk \in Threads : at'[tk].step = "remove" => at'[tk].sid # s
        BY <1>1, <1>3, <1>4 DEF Session, InList
      <3>3. QED
        BY <1>6, <3>1, <3>2 DEF Listed
    <2>3. \A r \in Sids : r # s => (Listed(r)' <=> Listed(r))
      BY <1>1, <1>3, <1>4, <1>6 DEF Listed
    <2>4. ToSet(subscriptions) = { r \in Sids : Listed(r) }
      BY <1>8 DEF Agree
    <2>5. QED
      BY <2>1, <2>2, <2>3, <2>4
  <1>15. Told'
    <2> SUFFICES ASSUME ~overlapped' PROVE Told'
      BY DEF Told
    <2>1. ~overlapped /\ subscriptions' = RemoveAt(subscriptions, i)
          /\ i \in 1..Len(subscriptions) /\ subscriptions[i] = s
      BY <1>2, <1>8
    <2>2. \A q \in Sids : FirstToCome(q, sub, at) => FirstToCome(q, sub', at')
      BY <1>1, <1>3, <1>6 DEF FirstToCome, Coming
    <2>3. ASSUME NEW j \in 1..Len(subscriptions), j # i, visit # 0, visit <= j,
                 Exists(subscriptions[j])
          PROVE  \/ visit' # 0 /\ visit' <= IF j < i THEN j ELSE j - 1
                 \/ sub'[subscriptions[j]].passed
      <3>1. CASE slips /\ visit = j
        BY <1>6, <2>3, <3>1
      <3>2. CASE ~(slips /\ visit = j)
        <4>1. ~ClosedFromFront(i) /\ visit > i => visit # j
          BY <3>2
        <4> HIDE DEF i
        <4>2. QED
          BY <1>1, <1>5, <2>1, <2>3, <4>1 DEF AfterRemoval
      <3>3. QED
        BY <3>1, <3>2
    <2> HIDE DEF i, slips
    <2>4. QED
      BY <1>1, <1>6, <2>1, <2>2, <2>3, RemovalTold
  <1>16. QED
    BY <1>10, <1>11, <1>12, <1>13, <1>14, <1>15

LEMMA EraseKeeps ==
  ASSUME IInv, Erase
  PROVE  IInv'
  <1> USE DEF IInv
  <1>1. /\ visit \in 1..Len(subscriptions)
        /\ Exists(subscriptions[visit])
        /\ sub' = [(IF ClosedFromFront(visit) THEN sub ELSE Passing(visit + 1, sub))
                     EXCEPT ![subscriptions[visit]] = Ended]
        /\ subscriptions' = RemoveAt(subscriptions, visit)
        /\ visit' = AfterRemoval(visit, visit) + 1
        /\ now' = now /\ value' = value /\ at' = at /\ making' = making
        /\ crashed' = crashed /\ overlapped' = overlapped
    BY DEF Erase, Visiting
  <1> PICK s \in Sids : s = subscriptions[visit]
    BY <1>1, OfTheList
  <1> DEFINE next == visit + 1
             slips == ~ClosedFromFront(visit) /\ next \in 1..Len(subscriptions)
                      /\ Exists(subscriptions[next])
  <1>2. /\ Exists(s) /\ sub[s] \in SoundObjects /\ s \notin Fresh /\ sub[s] # Ended
        /\ Len(subscriptions) \in Nat /\ Cardinality(Sids) \in Nat
        /\ Len(subscriptions) <= Cardinality(Sids)
    BY <1>1, OfTheList
  <1>3. sub \in [Sids -> SoundObjects \cup {NoSubscription, Ended}]
    BY DEF Types
  <1>4. /\ sub' \in [Sids -> SoundObjects \cup {NoSubscription, Ended}]
        /\ Evolves /\ ~Exists(s)'
        /\ \A q \in Sids : sub'[q] = NoSubscription <=> sub[q] = NoSubscription
        /\ \A q \in Sids : q # s => /\ Exists(q)' = Exists(q)
                                    /\ sub'[q].newest = sub[q].newest
                                    /\ sub'[q].firstMessageSent = sub[q].firstMessageSent
                                    /\ Exists(q) /\ sub[q].passed => sub'[q].passed
        /\ slips => sub'[subscriptions[next]].passed
    <2>1. CASE ~slips
      <3>1. sub' = [sub EXCEPT ![s] = Ended]
        BY <1>1, <2>1 DEF Passing
      <3>2. QED
        BY <1>2, <2>1, <3>1, Replaced
    <2>2. CASE slips
      <3> PICK u \in Sids : u = subscriptions[next]
        BY <2>2, OfTheList
      <3>1. u # s /\ Exists(u) /\ sub[u] \in SoundObjects
        BY <1>1, <1>2, <2>2, OfTheList
      <3> DEFINE y == [sub[u] EXCEPT !.passed = TRUE]
      <3>2. /\ y \in SoundObjects /\ Later(sub[u], y)
            /\ y.newest = sub[u].newest /\ y.passed = TRUE
            /\ y.firstMessageSent = sub[u].firstMessageSent
        BY <3>1, MarkedSound
      <3>3. sub' = [[sub EXCEPT ![u] = y] EXCEPT ![s] = Ended]
        BY <1>1, <2>2 DEF Passing
      <3> HIDE DEF y
      <3>4. /\ sub' \in [Sids -> SoundObjects \cup {NoSubscription, Ended}]
            /\ sub'[u] = y /\ sub'[s] = Ended
            /\ \A q \in Sids : q # u /\ q # s => sub'[q] = sub[q]
        BY <1>3, <3>1, <3>2, <3>3
      <3>5. /\ y.exists = TRUE /\ sub[u].exists = TRUE /\ sub[s].exists = TRUE
            /\ Ended.exists = FALSE /\ NoSubscription.exists = FALSE
        BY <1>2, <3>1, <3>2 DEF SoundObjects, Objects, Ended, NoSubscription
      <3>6. Evolves
        BY <1>2, <3>1, <3>2, <3>4 DEF Evolves
      <3>7. \A q \in Sids : sub'[q] = NoSubscription <=> sub[q] = NoSubscription
        BY <3>4, <3>5, ExistsOrNot
      <3>8. QED
        BY <3>1, <3>2, <3>4, <3>5, <3>6, <3>7 DEF Exists
    <2>3. QED
      BY <2>1, <2>2
  <1>5. Fresh' \subseteq Fresh
    BY <1>1, <1>4, FreshKept
  <1>6. GoodList(subscriptions', Fresh')
    BY <1>1, <1>5, RemoveGood DEF Types
  <1>7. visit' \in 0..Cardinality(Sids) + 1
    BY <1>1, <1>2 DEF AfterRemoval
  <1>8. Types'
    BY <1>1, <1>4, <1>6, <1>7 DEF Types
  <1>9. Session' /\ MainThread'
    BY <1>1, <1>4, <1>5, NoneMoves, MakingStays DEF MainThread
  <1>10. FirstOne'
    <2>1. \A q \in Sids : Exists(q)' /\ ~sub'[q].firstMessageSent
                            => Exists(q) /\ ~sub[q].firstMessageSent
      BY <1>4
    <2>2. QED
      BY <1>1, <2>1, FirstOneKept
  <1>11. Agree'
    <2> SUFFICES ASSUME ~overlapped
        PROVE  ToSet(subscriptions') = { r \in Sids : Listed(r)' }
      BY <1>1 DEF Agree
    <2>1. ToSet(subscriptions') = ToSet(subscriptions) \ {s}
      BY <1>1, RemoveFromList DEF Types, GoodList
    <2>2. ~Listed(s)'
      <3>1. \A tk \in Threads : at[tk].step = "remove" => at[tk].sid # s
        BY <1>2 DEF Session, ThreadOK
      <3>2. QED
        BY <1>1, <1>4, <3>1 DEF Listed
    <2>3. \A r \in Sids : r # s => (Listed(r)' <=> Listed(r))
      BY <1>1, <1>4 DEF Listed
    <2>4. ToSet(subscriptions) = { r \in Sids : Listed(r) }
      BY DEF Agree
    <2>5. QED
      BY <2>1, <2>2, <2>3, <2>4
  <1>12. Told'
    <2> SUFFICES ASSUME ~overlapped PROVE Told'
      BY <1>1 DEF Told
    <2>1. \A q \in Sids : q # s => (FirstToCome(q, sub, at) => FirstToCome(q, sub', at'))
      BY <1>1, <1>4 DEF FirstToCome, Coming
    <2>2. ASSUME NEW j \in 1..Len(subscriptions), j # visit, visit <= j,
                 Exists(subscriptions[j])
          PROVE  \/ visit' # 0 /\ visit' <= IF j < visit THEN j ELSE j - 1
                 \/ sub'[subscriptions[j]].passed
      <3>1. CASE ~ClosedFromFront(visit) /\ j = next
        BY <1>4, <2>2, <3>1
      <3>2. CASE ClosedFromFront(visit) \/ j # next
        <4>1. CASE ClosedFromFront(visit)
          <5>1. visit' = visit
            BY <1>1, <1>2, <4>1 DEF AfterRemoval
          <5>2. QED
            BY <1>1, <1>2, <2>2, <5>1
        <4>2. CASE ~ClosedFromFront(visit)
          <5>1. visit' = visit + 1 /\ j # visit + 1
            BY <1>1, <3>2, <4>2 DEF AfterRemoval
          <5>2. QED
            BY <1>1, <1>2, <2>2, <5>1
        <4>3. QED
          BY <4>1, <4>2
      <3>3. QED
        BY <3>1, <3>2
    <2> HIDE DEF next, slips
    <2>3. QED
      BY <1>1, <1>4, <2>1, <2>2, RemovalTold
  <1>13. QED
    BY <1>8, <1>9, <1>10, <1>11, <1>12

LEMMA NotifyReadKeeps ==
  ASSUME IInv, Notify_read
  PROVE  IInv'
  <1> USE DEF IInv
  <1>1. visit \in 1..Len(subscriptions)
    BY DEF Notify_read, Visiting
  <1> PICK s \in Sids : s = subscriptions[visit]
    BY <1>1, OfTheList
  <1>2. CASE ~Exists(s)
    BY <1>2, CrashKeeps DEF Notify_read
  <1>3. CASE Exists(s)
    <2> DEFINE during == \E th \in Threads : at[th].step \in {"read", "write"}
                                             /\ at[th].sid = s
               e == sub[s].early \/ during
               x == [sub[s] EXCEPT !.early = e]
               m == [step |-> "write", sid |-> s, reading |-> Reading(sub[s])]
    <2>1. /\ sub' = [sub EXCEPT ![s] = x]
          /\ making' = m /\ at' = at /\ crashed' = crashed
          /\ subscriptions' = subscriptions /\ overlapped' = overlapped
          /\ now' = now /\ value' = value /\ visit' = visit
      <3>1. sub' = [sub EXCEPT ![s].early = @ \/ during]
        BY <1>3 DEF Notify_read
      <3>2. [sub EXCEPT ![s].early = @ \/ during] = [sub EXCEPT ![s] = x]
        BY Zenon
      <3>3. QED
        BY <1>3, <3>1, <3>2 DEF Notify_read, list
    <2>2. sub[s] \in SoundObjects /\ s \notin Fresh /\ sub[s] # NoSubscription
      BY <1>1, <1>3, OfTheList
    <2>3. during \in BOOLEAN /\ sub[s].early \in BOOLEAN
      BY <2>2 DEF SoundObjects, Objects
    <2>4. ~sub[s].firstMessageSent => during
      BY <1>3, <2>2 DEF FirstOne, Fresh
    <2> HIDE DEF during
    <2>5. e \in BOOLEAN /\ (sub[s].early => e) /\ (~sub[s].firstMessageSent => e)
      BY <2>3, <2>4
    <2> HIDE DEF e
    <2>6. /\ x \in SoundObjects /\ Later(sub[s], x)
          /\ x.newest = sub[s].newest /\ x.passed = sub[s].passed
          /\ x.firstMessageSent = sub[s].firstMessageSent
          /\ x.early = e /\ Reading(x) = Reading(sub[s]) /\ x.made = sub[s].made
      BY <2>2, <2>5, EarlySound
    <2> HIDE DEF x
    <2>7. x # Ended /\ x # NoSubscription
      BY <2>6, ExistsOrNot DEF Ended
    <2>8. /\ sub' \in [Sids -> SoundObjects \cup {NoSubscription, Ended}]
          /\ Evolves /\ sub'[s] = x
          /\ \A q \in Sids : q # s => sub'[q] = sub[q]
          /\ \A q \in Sids : Exists(q)' = Exists(q)
          /\ \A q \in Sids : sub'[q] = NoSubscription <=> sub[q] = NoSubscription
      BY <1>3, <2>1, <2>6, <2>7, Replaced
    <2>9. Fresh' \subseteq Fresh
      BY <2>1, <2>8, FreshKept
    <2>10. Types' /\ Session'
      BY <2>1, <2>8, <2>9, TypesKept, NoneMoves DEF Types
    <2>11. MainThread'
      <3>1. ReadingOf(Reading(sub[s]), x)
        BY <2>2, <2>6, ReadingSound, ReadingStays
      <3>2. Reading(sub[s]).first = sub[s].firstMessageSent
        BY DEF Reading
      <3>3. MakingOK(m, sub')
        BY <2>5, <2>6, <2>7, <2>8, <3>1, <3>2 DEF MakingOK
      <3>4. QED
        BY <2>1, <3>3 DEF MainThread
    <2>12. FirstOne'
      BY <2>1, <2>6, <2>8, FirstOneKept
    <2>13. Agree'
      BY <2>1, <2>8, AgreeKept DEF Listed
    <2>14. Told'
      <3>1. \A q \in Sids : sub'[q].newest = sub[q].newest /\ sub'[q].passed = sub[q].passed
        BY <2>6, <2>8
      <3>2. \A q \in ToSet(subscriptions) : q \in Sids
        BY OfTheList
      <3>3. \A q \in Sids : FirstToCome(q, sub, at) => FirstToCome(q, sub', at')
        BY <2>1, <3>1 DEF FirstToCome, Coming
      <3>4. QED
        BY <2>1, <2>8, <3>1, <3>2, <3>3, ToldKept DEF ToldBy
    <2>15. QED
      BY <2>10, <2>11, <2>12, <2>13, <2>14
  <1>4. QED
    BY <1>2, <1>3

LEMMA NotifyKeeps ==
  ASSUME IInv, Notify
  PROVE  IInv'
  <1> USE DEF IInv
  <1>0. making # Nobody /\ making.sid \in Sids
    BY DEF Notify, MainThread, MakingOK
  <1> PICK s \in Sids : s = making.sid
    BY <1>0
  <1>1. CASE ~(Exists(s) /\ visit \in 1..Len(subscriptions) /\ Exists(subscriptions[visit]))
    BY <1>1, CrashKeeps DEF Notify
  <1>2. CASE Exists(s) /\ visit \in 1..Len(subscriptions) /\ Exists(subscriptions[visit])
    <2> PICK u \in Sids : u = subscriptions[visit]
      BY <1>2, OfTheList
    <2> DEFINE r == making.reading
               x == Made(sub[s], r)
               key == getNextSeq(r)
    <2>1. /\ sub' = IF u = s
                    THEN [sub EXCEPT ![s] = Sent([x EXCEPT !.passed = FALSE],
                                                 x.made, key, FALSE)]
                    ELSE [[sub EXCEPT ![s] = [x EXCEPT !.passed = TRUE]]
                           EXCEPT ![u].passed = TRUE]
          /\ making' = Nobody /\ at' = at /\ crashed' = crashed /\ visit' = visit + 1
          /\ subscriptions' = subscriptions /\ overlapped' = overlapped
          /\ now' = now /\ value' = value
      BY <1>2 DEF Notify, list, Passing
    <2>2. /\ Exists(s) /\ Exists(u)
          /\ sub[s] \in SoundObjects /\ ReadingOf(r, sub[s])
          /\ ~r.first => sub[s].early
          /\ sub[u] \in SoundObjects
      BY <1>0, <1>2, OfTheList DEF MainThread, MakingOK, Exists
    <2>3. /\ x \in SoundObjects /\ Later(sub[s], x)
          /\ x.made = sub[s].made + 1 /\ x.newest = sub[s].newest
          /\ x.early = sub[s].early
          /\ x.firstMessageSent = TRUE
          /\ key \in 0..LastKey /\ (key = 0 => x.early)
          /\ ~x.mixed => key = KeyOf(x.made)
      <3>1. /\ x \in SoundObjects /\ Later(sub[s], x)
            /\ x.made = sub[s].made + 1 /\ x.newest = sub[s].newest
            /\ x.early = sub[s].early
            /\ x.firstMessageSent = TRUE
            /\ key \in 0..LastKey /\ (key = 0 <=> ~r.first)
            /\ ~x.mixed => key = KeyOf(sub[s].made + 1)
        BY <2>2, MadeSound
      <3> HIDE DEF x, key
      <3>2. QED
        BY <2>2, <3>1
    <2>4. sub[s].made \in Nat /\ x.made \in Nat \ {0} /\ x.newest.nth < x.made
          /\ x.newest.nth \in Nat
      BY <2>2, <2>3, Numbers
    <2> HIDE DEF x, key
    (* The objects of s and of u, and that nobody is worse off than before. *)
    <2>5. /\ sub' \in [Sids -> SoundObjects \cup {NoSubscription, Ended}]
          /\ Evolves
          /\ \A q \in Sids : Exists(q)' = Exists(q)
          /\ \A q \in Sids : sub'[q] = NoSubscription <=> sub[q] = NoSubscription
          /\ \A q \in Sids : sub[q].firstMessageSent => sub'[q].firstMessageSent
          /\ \A q \in Sids : q # s => /\ sub'[q].newest = sub[q].newest
                                      /\ Exists(q) /\ sub[q].passed => sub'[q].passed
          /\ ToldBy(sub'[s], value) \/ sub'[s].passed
          /\ ToldBy(sub'[u], value) \/ sub'[u].passed
      <3>1. CASE u = s
        <4> DEFINE y == [x EXCEPT !.passed = FALSE]
                   z == Sent(y, x.made, key, FALSE)
        <4>1. /\ y \in SoundObjects /\ Later(x, y)
              /\ y.made = x.made /\ y.newest = x.newest
              /\ y.firstMessageSent = TRUE /\ y.early = x.early /\ y.mixed = x.mixed
          BY <2>3, MarkedSound
        <4> HIDE DEF y
        <4>2. /\ z \in SoundObjects /\ Later(y, z) /\ z.made = x.made
              /\ z.firstMessageSent = TRUE /\ ToldBy(z, value)
          <5>1. value \in 0..MaxChanges
            BY DEF Types
          <5>2. PICK n \in Nat \ {0} : n = x.made
            BY <2>4
          <5>3. PICK k \in 0..LastKey : k = key
            BY <2>3
          <5>4. PICK whole \in BOOLEAN : whole = FALSE
            OBVIOUS
          <5>5. /\ n <= y.made /\ (~y.mixed => k = KeyOf(n))
                /\ (k = 0 => whole \/ y.early) /\ n > y.newest.nth
            BY <2>3, <2>4, <4>1, <5>2, <5>3
          <5>6. /\ Sent(y, n, k, whole) \in SoundObjects
                /\ Later(y, Sent(y, n, k, whole))
                /\ Sent(y, n, k, whole).made = y.made
                /\ Sent(y, n, k, whole).firstMessageSent = y.firstMessageSent
                /\ ToldBy(Sent(y, n, k, whole), value)
            BY <4>1, <5>1, <5>5, SentSound
          <5>7. z = Sent(y, n, k, whole)
            BY <5>2, <5>3, <5>4
          <5>8. QED
            BY <4>1, <5>6, <5>7
        <4>3. sub' = [sub EXCEPT ![s] = z]
          BY <2>1, <3>1 DEF y
        <4> HIDE DEF z
        <4>4. Later(sub[s], z)
          BY <2>3, <2>4, <4>1, <4>2 DEF Later
        <4>5. z # Ended
          BY <4>2, ExistsOrNot DEF Ended
        <4>6. /\ sub' \in [Sids -> SoundObjects \cup {NoSubscription, Ended}]
              /\ Evolves /\ sub'[s] = z
              /\ \A q \in Sids : q # s => sub'[q] = sub[q]
              /\ \A q \in Sids : Exists(q)' = Exists(q)
              /\ \A q \in Sids : sub'[q] = NoSubscription <=> sub[q] = NoSubscription
          BY <2>2, <4>2, <4>3, <4>4, <4>5, Replaced
        <4>7. QED
          BY <3>1, <4>2, <4>6
      <3>2. CASE u # s
        <4> DEFINE y == [x EXCEPT !.passed = TRUE]
                   w == [sub[u] EXCEPT !.passed = TRUE]
        <4>1. /\ y \in SoundObjects /\ Later(x, y)
              /\ y.made = x.made /\ y.passed = TRUE
              /\ y.firstMessageSent = TRUE
          BY <2>3, MarkedSound
        <4>2. /\ w \in SoundObjects /\ Later(sub[u], w)
              /\ w.newest = sub[u].newest /\ w.passed = TRUE
              /\ w.firstMessageSent = sub[u].firstMessageSent
          BY <2>2, MarkedSound
        <4>3. [sub EXCEPT ![s] = y][u] = sub[u]
          BY <3>2 DEF Types
        <4>4. sub' = [[sub EXCEPT ![s] = y] EXCEPT ![u] = w]
          BY <2>1, <3>2, <4>3
        <4> HIDE DEF y, w
        <4>5. Later(sub[s], y)
          BY <2>3, <2>4, <4>1 DEF Later
        <4>6. /\ sub' \in [Sids -> SoundObjects \cup {NoSubscription, Ended}]
              /\ sub'[u] = w /\ sub'[s] = y
              /\ \A q \in Sids : q # u /\ q # s => sub'[q] = sub[q]
          BY <3>2, <4>1, <4>2, <4>4 DEF Types
        <4>7. /\ y.exists = TRUE /\ w.exists = TRUE
              /\ sub[u].exists = TRUE /\ sub[s].exists = TRUE
              /\ y # NoSubscription /\ w # NoSubscription
              /\ sub[u] # NoSubscription /\ sub[s] # NoSubscription
          BY <2>2, <4>1, <4>2, ExistsOrNot DEF SoundObjects, Objects
        <4>8. Evolves
          BY <2>2, <4>1, <4>2, <4>5, <4>6 DEF Evolves
        <4>9. \A q \in Sids : /\ Exists(q)' = Exists(q)
                              /\ sub'[q] = NoSubscription <=> sub[q] = NoSubscription
          BY <4>6, <4>7 DEF Exists
        <4>10. QED
          BY <4>1, <4>2, <4>6, <4>8, <4>9
      <3>3. QED
        BY <3>1, <3>2
    <2>6. Fresh' \subseteq Fresh
      BY <2>1, <2>5, FreshKept
    <2>7. visit' \in 0..Cardinality(Sids) + 1 /\ visit \in Nat
      BY <1>2, <2>1, OfTheList
    <2>8. Types' /\ Session'
      BY <2>1, <2>5, <2>6, <2>7, TypesKept, NoneMoves DEF Types
    <2>9. MainThread'
      BY <2>1 DEF MainThread, MakingOK, Nobody
    <2>10. FirstOne'
      BY <2>1, <2>5, FirstOneKept
    <2>11. Agree'
      BY <2>1, <2>5, AgreeKept DEF Listed
    <2>12. Told'
      <3> SUFFICES ASSUME ~overlapped, NEW i \in 1..Len(subscriptions),
                          Exists(subscriptions[i])'
          PROVE  \/ ToldBy(sub'[subscriptions[i]], value)
                 \/ visit' # 0 /\ visit' <= i
                 \/ sub'[subscriptions[i]].passed
                 \/ FirstToCome(subscriptions[i], sub', at')
        BY <2>1 DEF Told
      <3> PICK q \in Sids : q = subscriptions[i]
        BY OfTheList
      <3>1. CASE q = s \/ i = visit
        BY <2>5, <3>1
      <3>2. CASE q # s /\ i # visit
        <4>1. Exists(q)'
          BY <2>1 DEF Exists
        <4>2. Exists(q) /\ sub'[q].newest = sub[q].newest
              /\ (sub[q].passed => sub'[q].passed)
          BY <2>5, <3>2, <4>1
        <4>3. FirstToCome(q, sub, at) => FirstToCome(q, sub', at')
          BY <2>1, <4>2 DEF FirstToCome, Coming
        <4>4. visit # 0 /\ visit <= i => visit' # 0 /\ visit' <= i
          BY <2>1, <2>7, <3>2
        <4>5. QED
          BY <4>2, <4>3, <4>4 DEF Told, ToldBy
      <3>3. QED
        BY <3>1, <3>2
    <2>13. QED
      BY <2>8, <2>9, <2>10, <2>11, <2>12
  <1>3. QED
    BY <1>1, <1>2

(* Steps that touch neither the list nor an object nor a thread.           *)
LEMMA OthersKeep ==
  ASSUME IInv, Change \/ EndOfList \/ Tick \/ UNCHANGED vars
  PROVE  IInv'
  <1> USE DEF IInv
  <1>1. /\ subscriptions' = subscriptions /\ sub' = sub /\ at' = at
        /\ making' = making /\ overlapped' = overlapped
    BY DEF Change, EndOfList, Tick, vars, list
  <1>2. /\ now' \in 0..MaxTime /\ value' \in 0..MaxChanges /\ crashed' \in BOOLEAN
        /\ visit' \in 0..Cardinality(Sids) + 1
    <2>1. Cardinality(Sids) \in Nat
      BY OfTheList
    <2>2. CASE Change
      BY <2>1, <2>2 DEF Change, Types
    <2>3. CASE EndOfList
      BY <2>1, <2>3 DEF EndOfList, Types
    <2>4. CASE Tick
      BY <2>1, <2>4 DEF Tick, Types
    <2>5. CASE UNCHANGED vars
      BY <2>1, <2>5 DEF vars, Types
    <2>6. QED
      BY <2>2, <2>3, <2>4, <2>5
  <1>3. Fresh' = Fresh
    BY <1>1 DEF Fresh
  <1>4. \A s \in Sids : Exists(s)' = Exists(s)
    BY <1>1 DEF Exists
  <1>5. Types' /\ Session' /\ MainThread' /\ FirstOne'
    BY <1>1, <1>2, <1>3, <1>4 DEF Types, Session, MainThread, FirstOne
  <1>6. Agree'
    BY <1>1, <1>4, AgreeKept DEF Listed
  <1>7. Told'
    <2> SUFFICES ASSUME ~overlapped, NEW i \in 1..Len(subscriptions),
                        Exists(subscriptions[i])'
        PROVE  \/ ToldBy(sub[subscriptions[i]], value')
               \/ visit' # 0 /\ visit' <= i
               \/ sub[subscriptions[i]].passed
               \/ FirstToCome(subscriptions[i], sub, at)
      BY <1>1 DEF Told
    <2>1. Exists(subscriptions[i])
      BY <1>1 DEF Exists
    <2>2. \/ ToldBy(sub[subscriptions[i]], value)
          \/ visit # 0 /\ visit <= i
          \/ sub[subscriptions[i]].passed
          \/ FirstToCome(subscriptions[i], sub, at)
      BY <2>1 DEF Told
    <2>3. Len(subscriptions) \in Nat /\ visit \in Nat
      BY OfTheList DEF Types
    <2>4. CASE Change
      BY <2>3, <2>4 DEF Change
    <2>5. CASE EndOfList
      BY <2>2, <2>3, <2>5 DEF EndOfList
    <2>6. CASE Tick \/ UNCHANGED vars
      BY <2>2, <2>6 DEF Tick, vars
    <2>7. QED
      BY <2>4, <2>5, <2>6
  <1>8. QED
    BY <1>5, <1>6, <1>7

LEMMA InvInit == Init => IInv
  <1> SUFFICES ASSUME Init PROVE IInv
    OBVIOUS
  <1>1. /\ now = 0 /\ value = 0 /\ visit = 0 /\ crashed = FALSE /\ overlapped = FALSE
        /\ at = [th \in Threads |-> Nobody] /\ making = Nobody /\ Nobody.step = "idle"
        /\ subscriptions = << >> /\ sub = [s \in Sids |-> NoSubscription]
    BY DEF Init, Nobody
  <1>2. \A s \in Sids : ~Exists(s)
    BY <1>1 DEF Exists, NoSubscription
  <1>3. subscriptions \in Seq(Sids) /\ Len(subscriptions) = 0
    BY <1>1, EmptySeq
  <1>4. ToSet(subscriptions) = { subscriptions[i] : i \in 1..Len(subscriptions) }
    <2>1. subscriptions \in Seq(Sids)
      BY <1>3
    <2>2. QED
      BY <2>1, ToSetOfSeq
  <1>5. ToSet(subscriptions) = {}
    BY <1>3, <1>4
  <1>6. IsInjective(subscriptions)
    <2>1. \A i, j \in 1..Len(subscriptions) : subscriptions[i] = subscriptions[j] => i = j
      BY <1>3
    <2>2. QED
      BY <1>3, <2>1, InjectiveSeq
  <1>7. Cardinality(Sids) \in Nat
    BY FS_CardinalityType
  <1>8. Types
    <2>1. GoodList(subscriptions, Fresh)
      BY <1>3, <1>5, <1>6 DEF GoodList
    <2>2. sub \in [Sids -> SoundObjects \cup {NoSubscription, Ended}]
      BY <1>1
    <2>3. visit \in 0..Cardinality(Sids) + 1 /\ now \in 0..MaxTime
          /\ value \in 0..MaxChanges
      BY <1>1, <1>7
    <2>4. QED
      BY <1>1, <2>1, <2>2, <2>3 DEF Types
  <1>9. Session
    BY <1>1 DEF Session, ThreadOK, InList
  <1>10. MainThread /\ FirstOne
    BY <1>1, <1>2 DEF MainThread, MakingOK, FirstOne
  <1>11. Agree
    BY <1>1, <1>2, <1>5 DEF Agree, Listed
  <1>12. Told
    BY <1>3 DEF Told
  <1>13. QED
    BY <1>8, <1>9, <1>10, <1>11, <1>12 DEF IInv

LEMMA InvNext == IInv /\ [Next]_vars => IInv'
  <1> SUFFICES ASSUME IInv, [Next]_vars PROVE IInv'
    OBVIOUS
  <1>1. ASSUME NEW th \in Threads, NEW s \in Sids, NEW t \in Timeouts,
               subscribe(th, s, t)
        PROVE  IInv'
    BY <1>1, SubscribeKeeps
  <1>2. ASSUME NEW th \in Threads, NEW s \in Sids, NEW t \in Timeouts,
               renew(th, s, t)
        PROVE  IInv'
    BY <1>2, RenewKeeps
  <1>3. ASSUME NEW th \in Threads, Subscribe(th) PROVE IInv'
    BY <1>3, AppendKeeps, ReadKeeps, MessageKeeps, SendKeeps DEF Subscribe
  <1>4. ASSUME NEW th \in Threads, Unsubscribe(th) PROVE IInv'
    BY <1>4, UnsubscribeKeeps, RemoveAtKeeps DEF Unsubscribe
  <1>5. CASE VariableChanged
    BY <1>5, NotifyReadKeeps, NotifyKeeps, EraseKeeps, OthersKeep DEF VariableChanged
  <1>6. CASE Change \/ Tick \/ UNCHANGED vars
    BY <1>6, OthersKeep
  <1>7. QED
    BY <1>1, <1>2, <1>3, <1>4, <1>5, <1>6 DEF Next, SessionThread

LEMMA Invariant == Spec => []IInv
  BY InvInit, InvNext, PTL DEF Spec

-----------------------------------------------------------------------------
(* Nothing is in the list of subscriptions twice, in whatever order the    *)
(* session threads and variableChanged work on it; and as long as no two   *)
(* of their operations overlap, it has every existing object, also through *)
(* cancellations in the middle of a walk and expiries that erase.          *)
THEOREM ListIsSound == Spec => []ListSound
  <1>1. IInv => ListSound
    <2> SUFFICES ASSUME IInv PROVE ListSound
      OBVIOUS
    <2>1. \A s \in Sids : Exists(s) => sub[s].lastSeq \in 0..LastKey
      BY OfTheList DEF IInv, SoundObjects, Objects
    <2>2. visit \in 0..Cardinality(Sids) + 2
      BY OfTheList DEF IInv, Types
    <2>3. making.step \in {"idle", "write"}
      BY DEF IInv, MainThread, MakingOK
    <2>4. \A th \in Threads :
            at[th].step \in {"idle", "append", "read", "write", "send", "remove"}
      BY DEF IInv, Session, ThreadOK
    <2>5. TypeOK
      BY <2>1, <2>2, <2>3, <2>4 DEF IInv, Types, GoodList, TypeOK
    <2>6. QED
      BY <2>5 DEF IInv, Types, GoodList, Agree, ListSound
  <1>2. QED
    BY <1>1, Invariant, PTL

(* The keys of the events of a subscription are 0, 1, ..., LastKey, 1, ... *)
(* whichever thread makes them, unless one of them was made from what      *)
(* another has changed since.                                              *)
THEOREM KeysComeInOrder == Spec => []KeysInOrder
  <1>1. IInv => KeysInOrder
    BY OfTheList DEF IInv, KeysInOrder, Announced, SoundObjects, Sound, KeyOf
  <1>2. QED
    BY <1>1, Invariant, PTL

(* An event with key 0 carries all variables, unless the variable changed  *)
(* in the middle of the SUBSCRIBE, also when two threads take the same key.*)
THEOREM FirstEventTellsAll == Spec => []FirstTellsAll
  <1>1. IInv => FirstTellsAll
    BY OfTheList DEF IInv, FirstTellsAll, Announced, SoundObjects, Sound
  <1>2. QED
    BY <1>1, Invariant, PTL

(* With all threads at rest a subscriber that was not passed over has been *)
(* sent the latest value, as long as no two operations on the list have    *)
(* overlapped.                                                             *)
THEOREM SubscribersLearn == Spec => []SubscriberLearns
  <1>1. IInv => SubscriberLearns
    <2> SUFFICES ASSUME IInv, visit = 0, at = [th \in Threads |-> Nobody], ~overlapped,
                        NEW s \in ToSet(subscriptions), ~sub[s].passed
        PROVE  sub[s].newest.value = value
      BY DEF SubscriberLearns
    <2>1. PICK i \in 1..Len(subscriptions) : s = subscriptions[i]
      BY OfTheList DEF IInv
    <2>2. ~FirstToCome(s, sub, at)
      BY DEF FirstToCome, Coming, Nobody
    <2>3. Exists(s)
      <3>1. Listed(s)
        BY DEF IInv, Agree
      <3>2. QED
        BY <3>1 DEF Listed, Nobody
    <2>4. QED
      BY <2>1, <2>2, <2>3 DEF IInv, Told, ToldBy
  <1>2. QED
    BY <1>1, Invariant, PTL
===============================================================================
