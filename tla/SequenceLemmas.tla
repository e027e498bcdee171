--------------------------- MODULE SequenceLemmas ---------------------------
(***************************************************************************)
(* Sequences as the components use them.  Lists without duplicates: what   *)
(* appending and removing an element does to the list and to its set of    *)
(* elements.  Streams: their parts, what is left of them after some tokens,*)
(* their concatenation, and the stream a sequence of pieces makes.         *)
(***************************************************************************)
EXTENDS SequencesExt, SequenceTheorems, FiniteSetTheorems, WellFoundedInduction,
        TLAPS

LEMMA ToSetOfSeq ==
  ASSUME NEW S, NEW s \in Seq(S)
  PROVE  /\ ToSet(s) = { s[i] : i \in 1..Len(s) }
         /\ ToSet(s) \subseteq S
  <1>1. DOMAIN s = 1..Len(s)
    BY LenProperties
  <1>2. \A i \in 1..Len(s) : s[i] \in S
    BY ElementOfSeq
  <1>3. QED
    BY <1>1, <1>2 DEF ToSet

LEMMA InjectiveSeq ==
  ASSUME NEW S, NEW s \in Seq(S)
  PROVE  IsInjective(s) <=> \A i, j \in 1..Len(s) : s[i] = s[j] => i = j
  BY LenProperties DEF IsInjective

LEMMA AppendToList ==
  ASSUME NEW S, NEW s \in Seq(S), NEW e \in S
  PROVE  /\ Append(s, e) \in Seq(S)
         /\ Len(Append(s, e)) = Len(s) + 1
         /\ \A i \in 1..Len(s) : Append(s, e)[i] = s[i]
         /\ Append(s, e)[Len(s) + 1] = e
         /\ ToSet(Append(s, e)) = ToSet(s) \cup {e}
         /\ IsInjective(s) /\ e \notin ToSet(s) => IsInjective(Append(s, e))
  <1>1. /\ Append(s, e) \in Seq(S)
        /\ Len(Append(s, e)) = Len(s) + 1
        /\ \A i \in 1..Len(s) : Append(s, e)[i] = s[i]
        /\ Append(s, e)[Len(s) + 1] = e
    BY AppendProperties
  <1>2. Len(s) \in Nat
    BY LenProperties
  <1>3. ToSet(Append(s, e)) = ToSet(s) \cup {e}
    <2>1. 1..Len(Append(s, e)) = 1..Len(s) \cup {Len(s) + 1}
      BY <1>1, <1>2
    <2>2. ToSet(Append(s, e)) = { Append(s, e)[i] : i \in 1..Len(Append(s, e)) }
      BY <1>1, ToSetOfSeq
    <2>3. ToSet(s) = { s[i] : i \in 1..Len(s) }
      BY ToSetOfSeq
    <2>4. QED
      BY <1>1, <2>1, <2>2, <2>3, Zenon
  <1>4. ASSUME IsInjective(s), e \notin ToSet(s) PROVE IsInjective(Append(s, e))
    <2>1. \A i, j \in 1..Len(s) : s[i] = s[j] => i = j
      BY <1>4, InjectiveSeq
    <2>2. \A i \in 1..Len(s) : s[i] # e
      BY <1>4, ToSetOfSeq
    <2>3. \A i, j \in 1..Len(Append(s, e)) :
            Append(s, e)[i] = Append(s, e)[j] => i = j
      BY <1>1, <1>2, <2>1, <2>2
    <2>4. QED
      BY <1>1, <2>3, InjectiveSeq
  <1>5. QED
    BY <1>1, <1>3, <1>4

LEMMA RemoveFromSeq ==
  ASSUME NEW S, NEW s \in Seq(S), NEW i \in 1..Len(s)
  PROVE  /\ RemoveAt(s, i) \in Seq(S)
         /\ Len(RemoveAt(s, i)) = Len(s) - 1
         /\ \A j \in 1..Len(s) - 1 :
              RemoveAt(s, i)[j] = IF j < i THEN s[j] ELSE s[j + 1]
  <1> DEFINE front == SubSeq(s, 1, i - 1)
             back == SubSeq(s, i + 1, Len(s))
  <1>1. Len(s) \in Nat /\ \A j \in 1..Len(s) : s[j] \in S
    BY LenProperties, ElementOfSeq
  <1>2. /\ front \in Seq(S)
        /\ Len(front) = i - 1
        /\ \A j \in 1..i - 1 : front[j] = s[j]
    <2>1. \A j \in 1..i - 1 : s[j] \in S
      BY <1>1
    <2>2. QED
      BY <1>1, <2>1, SubSeqProperties
  <1>3. /\ back \in Seq(S)
        /\ Len(back) = Len(s) - i
        /\ \A j \in 1..Len(s) - i : back[j] = s[j + i]
    <2>1. \A j \in i + 1..Len(s) : s[j] \in S
      BY <1>1
    <2>2. /\ back \in Seq(S)
          /\ Len(back) = IF i + 1 <= Len(s) THEN Len(s) - (i + 1) + 1 ELSE 0
          /\ \A j \in 1..Len(s) - (i + 1) + 1 : back[j] = s[(i + 1) + j - 1]
      BY <1>1, <2>1, SubSeqProperties
    <2> HIDE DEF back
    <2>3. Len(back) = Len(s) - i
      BY <1>1, <2>2
    <2>4. ASSUME NEW j \in 1..Len(s) - i PROVE back[j] = s[j + i]
      <3>1. j \in 1..Len(s) - (i + 1) + 1 /\ (i + 1) + j - 1 = j + i
        BY <1>1
      <3>2. QED
        BY <2>2, <3>1
    <2>5. QED
      BY <2>2, <2>3, <2>4
  <1>4. RemoveAt(s, i) = front \o back
    BY DEF RemoveAt
  <1> HIDE DEF front, back
  <1>5. /\ front \o back \in Seq(S)
        /\ Len(front \o back) = Len(front) + Len(back)
        /\ \A j \in 1..Len(front) + Len(back) :
             (front \o back)[j] = IF j <= Len(front) THEN front[j]
                                  ELSE back[j - Len(front)]
    BY <1>2, <1>3, ConcatProperties
  <1>6. ASSUME NEW j \in 1..Len(s) - 1
        PROVE  (front \o back)[j] = IF j < i THEN s[j] ELSE s[j + 1]
    <2>1. CASE j < i
      BY <1>1, <1>2, <1>3, <1>5, <2>1
    <2>2. CASE ~(j < i)
      <3>1. j - (i - 1) \in 1..Len(s) - i /\ (j - (i - 1)) + i = j + 1
        BY <1>1, <2>2
      <3>2. (front \o back)[j] = back[j - (i - 1)]
        BY <1>1, <1>2, <1>3, <1>5, <2>2
      <3>3. QED
        BY <1>3, <3>1, <3>2, <2>2
    <2>3. QED
      BY <2>1, <2>2
  <1>7. QED
    BY <1>1, <1>2, <1>3, <1>4, <1>5, <1>6

LEMMA RemoveFromList ==
  ASSUME NEW S, NEW s \in Seq(S), NEW i \in 1..Len(s), IsInjective(s)
  PROVE  /\ IsInjective(RemoveAt(s, i))
         /\ ToSet(RemoveAt(s, i)) = ToSet(s) \ {s[i]}
  <1> DEFINE r == RemoveAt(s, i)
  <1>1. /\ r \in Seq(S)
        /\ Len(r) = Len(s) - 1
        /\ \A j \in 1..Len(s) - 1 : r[j] = IF j < i THEN s[j] ELSE s[j + 1]
    BY RemoveFromSeq
  <1>2. Len(s) \in Nat /\ \A j, k \in 1..Len(s) : s[j] = s[k] => j = k
    BY LenProperties, InjectiveSeq
  <1> HIDE DEF r
  <1>3. \A j, k \in 1..Len(r) : r[j] = r[k] => j = k
    BY <1>1, <1>2
  <1>4. ToSet(s) = { s[j] : j \in 1..Len(s) } /\ ToSet(r) = { r[j] : j \in 1..Len(r) }
    BY <1>1, ToSetOfSeq
  <1>5. ASSUME NEW e \in ToSet(r) PROVE e \in ToSet(s) \ {s[i]}
    <2>1. PICK j \in 1..Len(r) : e = r[j]
      BY <1>4
    <2>2. CASE j < i
      BY <1>1, <1>2, <1>4, <2>1, <2>2
    <2>3. CASE ~(j < i)
      <3>1. j + 1 \in 1..Len(s) /\ j + 1 # i /\ e = s[j + 1]
        BY <1>1, <1>2, <2>1, <2>3
      <3>2. QED
        BY <1>2, <1>4, <3>1
    <2>4. QED
      BY <2>2, <2>3
  <1>6. ASSUME NEW e \in ToSet(s) \ {s[i]} PROVE e \in ToSet(r)
    <2>1. PICK j \in 1..Len(s) : e = s[j]
      BY <1>4
    <2>2. CASE j < i
      <3>1. j \in 1..Len(r) /\ r[j] = e
        BY <1>1, <1>2, <2>1, <2>2
      <3>2. QED
        BY <1>4, <3>1
    <2>3. CASE ~(j < i)
      <3>1. j - 1 \in 1..Len(r) /\ ~(j - 1 < i) /\ (j - 1) + 1 = j
        BY <1>1, <1>2, <1>6, <2>1, <2>3
      <3>2. r[j - 1] = e
        BY <1>1, <2>1, <3>1
      <3>3. QED
        BY <1>4, <3>1, <3>2
    <2>4. QED
      BY <2>2, <2>3
  <1>7. ToSet(r) = ToSet(s) \ {s[i]}
    BY <1>5, <1>6
  <1>8. IsInjective(r)
    BY <1>1, <1>3, InjectiveSeq
  <1>9. QED
    BY <1>7, <1>8 DEF r

LEMMA FrontOfList ==
  ASSUME NEW S, NEW s \in Seq(S), s # << >>, IsInjective(s)
  PROVE  /\ Last(s) \in S /\ Last(s) \in ToSet(s)
         /\ Front(s) \in Seq(S)
         /\ IsInjective(Front(s))
         /\ ToSet(Front(s)) = ToSet(s) \ {Last(s)}
  <1>1. Len(s) \in Nat \ {0}
    BY EmptySeq
  <1>2. Last(s) \in S /\ Last(s) \in ToSet(s)
    BY <1>1, ElementOfSeq, ToSetOfSeq DEF Last
  <1>3. RemoveAt(s, Len(s)) = Front(s) \o << >>
    <2>1. SubSeq(s, Len(s) + 1, Len(s)) = << >>
      BY <1>1, SubSeqEmpty
    <2>2. QED
      BY <2>1 DEF RemoveAt, Front
  <1>4. Front(s) \in Seq(S)
    <2>1. \A i \in 1..Len(s) - 1 : s[i] \in S
      BY <1>1, ElementOfSeq
    <2>2. QED
      BY <1>1, <2>1, SubSeqProperties DEF Front
  <1>5. RemoveAt(s, Len(s)) = Front(s)
    BY <1>3, <1>4, ConcatEmptySeq
  <1>6. Len(s) \in 1..Len(s)
    BY <1>1
  <1>7. QED
    BY <1>2, <1>4, <1>5, <1>6, RemoveFromList DEF Last

LEMMA ListLength ==
  ASSUME NEW S, IsFiniteSet(S), NEW s \in Seq(S), IsInjective(s)
  PROVE  Len(s) <= Cardinality(S)
  <1>1. Len(s) \in Nat /\ s \in [1..Len(s) -> S]
    BY LenProperties
  <1>2. IsFiniteSet(1..Len(s)) /\ Cardinality(1..Len(s)) = Len(s)
    BY <1>1, FS_Interval
  <1>3. \A i, j \in 1..Len(s) : s[i] = s[j] => i = j
    BY InjectiveSeq
  <1>4. Cardinality(S) \in Nat
    BY FS_CardinalityType
  <1>5. SUFFICES ASSUME Cardinality(S) < Len(s) PROVE FALSE
    BY <1>1, <1>4
  <1>6. \E i, j \in 1..Len(s) : i # j /\ s[i] = s[j]
    BY <1>1, <1>2, <1>5, FS_PigeonHole
  <1>7. QED
    BY <1>3, <1>6

LEMMA SetToSeqOfFinite ==
  ASSUME NEW T, IsFiniteSet(T)
  PROVE  /\ SetToSeq(T) \in Seq(T)
         /\ Len(SetToSeq(T)) = Cardinality(T)
  <1>1. Cardinality(T) \in Nat /\ ExistsBijection(1..Cardinality(T), T)
    BY FS_CardinalityType
  <1>2. \E f \in [1..Cardinality(T) -> T] : IsInjective(f)
    BY <1>1 DEF ExistsBijection, Bijection, Injection
  <1>3. SetToSeq(T) \in [1..Cardinality(T) -> T]
    BY <1>2 DEF SetToSeq
  <1>4. QED
    BY <1>1, <1>3, SeqDef

(* Every set of numbers that is not empty has a least one.  This is what a *)
(* proof by the least counterexample starts from.                          *)
LEMMA LeastOfSet ==
  ASSUME NEW T, T \subseteq Nat, T # {}
  PROVE  Min(T) \in T /\ \A n \in T : Min(T) <= n
  <1> DEFINE R == { p \in Nat \X Nat : p[1] < p[2] }
  <1>1. IsWellFoundedOn(R, Nat)
    BY NatLessThanWellFounded DEF OpToRel
  <1>2. PICK m \in T : \A n \in T : ~(<< n, m >> \in R)
    BY <1>1, WFMin
  <1>3. \A n \in T : m <= n
    <2>1. SUFFICES ASSUME NEW n \in T PROVE m <= n
      OBVIOUS
    <2>2. n \in Nat /\ m \in Nat /\ ~(<< n, m >> \in R)
      BY <1>2
    <2>3. QED
      BY <2>2
  <1>4. QED
    BY <1>3 DEF Min

(* Other changes of a sequence, element by element.                        *)
LEMMA TailOfSeq ==
  ASSUME NEW S, NEW s \in Seq(S), s # << >>
  PROVE  /\ Head(s) \in S /\ Head(s) = s[1] /\ 1 \in 1..Len(s)
         /\ Tail(s) \in Seq(S)
         /\ Len(Tail(s)) = Len(s) - 1
         /\ \A i \in 1..Len(s) - 1 : Tail(s)[i] = s[i + 1]
  <1>1. Len(s) \in Nat \ {0}
    BY EmptySeq
  <1>2. Head(s) = s[1]
    BY <1>1
  <1>3. QED
    BY <1>1, <1>2, HeadTailProperties

LEMMA SetOfSeqLength ==
  ASSUME NEW S, NEW s \in Seq(S)
  PROVE  IsFiniteSet(ToSet(s)) /\ Cardinality(ToSet(s)) <= Len(s)
  <1>1. Len(s) \in Nat /\ s \in [1..Len(s) -> S]
    BY LenProperties
  <1>2. s \in Surjection(1..Len(s), ToSet(s))
    BY <1>1, ToSetOfSeq DEF Surjection
  <1>3. IsFiniteSet(1..Len(s)) /\ Cardinality(1..Len(s)) = Len(s)
    BY <1>1, FS_Interval
  <1>4. QED
    BY <1>2, <1>3, FS_Surjection

-----------------------------------------------------------------------------
(* What is left of a sequence when its first n elements are taken away.    *)
Drop(s, n) == SubSeq(s, n + 1, Len(s))

LEMMA SameSeq ==
  ASSUME NEW S, NEW s \in Seq(S), NEW t \in Seq(S), Len(s) = Len(t),
         \A i \in 1..Len(s) : s[i] = t[i]
  PROVE  s = t
  BY LenProperties

(* A part of a sequence.                                                   *)
LEMMA PartOfSeq ==
  ASSUME NEW S, NEW s \in Seq(S), NEW k \in Nat, NEW n \in Nat, k + n <= Len(s)
  PROVE  /\ SubSeq(s, k + 1, k + n) \in Seq(S)
         /\ Len(SubSeq(s, k + 1, k + n)) = n
         /\ \A i \in 1..n : SubSeq(s, k + 1, k + n)[i] = s[k + i]
  <1>1. Len(s) \in Nat /\ \A i \in 1..Len(s) : s[i] \in S
    BY LenProperties, ElementOfSeq
  <1>2. \A i \in k + 1..k + n : s[i] \in S
    BY <1>1
  <1>3. /\ SubSeq(s, k + 1, k + n) \in Seq(S)
        /\ Len(SubSeq(s, k + 1, k + n))
             = IF k + 1 <= k + n THEN (k + n) - (k + 1) + 1 ELSE 0
        /\ \A i \in 1..(k + n) - (k + 1) + 1 :
             SubSeq(s, k + 1, k + n)[i] = s[(k + 1) + i - 1]
    <2>1. k + 1 \in Int /\ k + n \in Int
      OBVIOUS
    <2>2. QED
      BY <1>2, <2>1, SubSeqProperties
  <1>4. (k + n) - (k + 1) + 1 = n /\ \A i \in Nat : (k + 1) + i - 1 = k + i
    OBVIOUS
  <1>5. QED
    BY <1>3, <1>4

LEMMA DropOfSeq ==
  ASSUME NEW S, NEW s \in Seq(S), NEW n \in 0..Len(s)
  PROVE  /\ Drop(s, n) \in Seq(S)
         /\ Len(Drop(s, n)) = Len(s) - n
         /\ \A i \in 1..Len(s) - n : Drop(s, n)[i] = s[n + i]
  <1>1. Len(s) \in Nat /\ n \in Nat
    BY LenProperties
  <1>2. PICK k \in Nat : k = Len(s) - n /\ n + k = Len(s)
    BY <1>1
  <1>3. /\ SubSeq(s, n + 1, n + k) \in Seq(S)
        /\ Len(SubSeq(s, n + 1, n + k)) = k
        /\ \A i \in 1..k : SubSeq(s, n + 1, n + k)[i] = s[n + i]
    BY <1>1, <1>2, PartOfSeq
  <1>4. QED
    BY <1>2, <1>3 DEF Drop

LEMMA DropNothing ==
  ASSUME NEW S, NEW s \in Seq(S)
  PROVE  Drop(s, 0) = s /\ Drop(s, Len(s)) = << >>
  <1>1. Len(s) \in Nat
    BY LenProperties
  <1>2. QED
    BY <1>1, SubSeqFull, SubSeqEmpty DEF Drop

LEMMA DropOfDrop ==
  ASSUME NEW S, NEW s \in Seq(S), NEW n \in 0..Len(s), NEW k \in 0..Len(s) - n
  PROVE  /\ n + k \in 0..Len(s)
         /\ Drop(Drop(s, n), k) = Drop(s, n + k)
  <1>1. Len(s) \in Nat
    BY LenProperties
  <1>2. n + k \in 0..Len(s)
    BY <1>1
  <1>3. /\ Drop(s, n) \in Seq(S)
        /\ Len(Drop(s, n)) = Len(s) - n
        /\ \A i \in 1..Len(s) - n : Drop(s, n)[i] = s[n + i]
    BY DropOfSeq
  <1> DEFINE d == Drop(s, n)
             e == Drop(d, k)
             f == Drop(s, n + k)
  <1>4. /\ f \in Seq(S)
        /\ Len(f) = Len(s) - (n + k)
        /\ \A i \in 1..Len(s) - (n + k) : f[i] = s[n + k + i]
    BY <1>2, DropOfSeq
  <1>5. /\ e \in Seq(S)
        /\ Len(e) = (Len(s) - n) - k
        /\ \A i \in 1..(Len(s) - n) - k : e[i] = d[k + i]
    <2> HIDE DEF d
    <2>1. d \in Seq(S) /\ Len(d) = Len(s) - n /\ k \in 0..Len(d)
      BY <1>3 DEF d
    <2>2. QED
      BY <2>1, DropOfSeq
  <1> HIDE DEF d, e, f
  <1>6. \A i \in 1..(Len(s) - n) - k : e[i] = f[i]
    <2>1. SUFFICES ASSUME NEW i \in 1..(Len(s) - n) - k PROVE e[i] = f[i]
      OBVIOUS
    <2>2. k + i \in 1..Len(s) - n /\ i \in 1..Len(s) - (n + k) /\ n + (k + i) = n + k + i
      BY <1>1
    <2>3. d[k + i] = s[n + (k + i)]
      BY <1>3, <2>2 DEF d
    <2>4. QED
      BY <1>4, <1>5, <2>2, <2>3
  <1>7. e = f
    <2>1. Len(e) = Len(f)
      BY <1>1, <1>4, <1>5
    <2>2. \A i \in 1..Len(e) : e[i] = f[i]
      BY <1>5, <1>6
    <2>3. QED
      BY <1>4, <1>5, <2>1, <2>2, SameSeq
  <1>8. QED
    BY <1>2, <1>7 DEF d, e, f

(* Taking from the front of a buffer, and moving from the front of what is *)
(* on its way to the end of the buffer.                                    *)
LEMMA DropOfConcat ==
  ASSUME NEW S, NEW s \in Seq(S), NEW t \in Seq(S), NEW n \in 0..Len(s)
  PROVE  Drop(s, n) \o t = Drop(s \o t, n)
  <1> DEFINE d == Drop(s, n)
             c == s \o t
             e == d \o t
             f == Drop(c, n)
  <1>1. Len(s) \in Nat /\ Len(t) \in Nat
    BY LenProperties
  <1>2. /\ d \in Seq(S)
        /\ Len(d) = Len(s) - n
        /\ \A i \in 1..Len(s) - n : d[i] = s[n + i]
    BY DropOfSeq
  <1>3. /\ c \in Seq(S)
        /\ Len(c) = Len(s) + Len(t)
        /\ \A i \in 1..Len(s) + Len(t) : c[i] = IF i <= Len(s) THEN s[i] ELSE t[i - Len(s)]
    BY ConcatProperties
  <1> HIDE DEF d, c
  <1>4. /\ e \in Seq(S)
        /\ Len(e) = Len(d) + Len(t)
        /\ \A i \in 1..Len(d) + Len(t) : e[i] = IF i <= Len(d) THEN d[i] ELSE t[i - Len(d)]
    BY <1>2, ConcatProperties
  <1>5. /\ f \in Seq(S)
        /\ Len(f) = Len(c) - n
        /\ \A i \in 1..Len(c) - n : f[i] = c[n + i]
    <2>1. n \in 0..Len(c)
      BY <1>1, <1>3
    <2>2. QED
      BY <1>3, <2>1, DropOfSeq
  <1> HIDE DEF e, f
  <1>6. Len(e) = Len(f)
    BY <1>1, <1>2, <1>3, <1>4, <1>5
  <1>7. \A i \in 1..Len(e) : e[i] = f[i]
    <2>1. SUFFICES ASSUME NEW i \in 1..Len(e) PROVE e[i] = f[i]
      OBVIOUS
    <2>2. /\ i \in 1..Len(d) + Len(t) /\ i \in 1..Len(c) - n /\ n + i \in 1..Len(s) + Len(t)
          /\ i <= Len(d) <=> n + i <= Len(s)
          /\ i - Len(d) = (n + i) - Len(s)
      BY <1>1, <1>2, <1>3, <1>4, <1>6
    <2>3. i <= Len(d) => i \in 1..Len(s) - n
      BY <1>1, <1>2, <2>2
    <2>4. e[i] = IF i <= Len(d) THEN d[i] ELSE t[i - Len(d)]
      BY <1>4, <2>2
    <2>5. f[i] = IF n + i <= Len(s) THEN s[n + i] ELSE t[(n + i) - Len(s)]
      BY <1>3, <1>5, <2>2
    <2>6. QED
      BY <1>2, <2>2, <2>3, <2>4, <2>5
  <1>8. e = f
    BY <1>4, <1>5, <1>6, <1>7, SameSeq
  <1>9. QED
    BY <1>8 DEF d, c, e, f

LEMMA DropPastConcat ==
  ASSUME NEW S, NEW s \in Seq(S), NEW t \in Seq(S), NEW n \in 0..Len(t)
  PROVE  Drop(s \o t, Len(s) + n) = Drop(t, n)
  <1> DEFINE c == s \o t
             k == Len(s)
  <1>1. k \in Nat /\ Len(t) \in Nat /\ k \in 0..k
    BY LenProperties
  <1>2. c \in Seq(S) /\ Len(c) = k + Len(t)
    BY ConcatProperties
  <1>3. Drop(c, k) = t
    <2>1. Drop(s, k) \o t = Drop(c, k)
      BY <1>1, DropOfConcat
    <2>2. Drop(s, k) = << >>
      BY DropNothing
    <2>3. << >> \o t = t
      BY ConcatEmptySeq
    <2>4. QED
      BY <2>1, <2>2, <2>3
  <1> HIDE DEF c, k
  <1>4. k \in 0..Len(c) /\ n \in 0..Len(c) - k
    BY <1>1, <1>2
  <1>5. Drop(Drop(c, k), n) = Drop(c, k + n)
    BY <1>2, <1>4, DropOfDrop
  <1>6. QED
    BY <1>3, <1>5 DEF c, k

LEMMA ConcatOfParts ==
  ASSUME NEW S, NEW s \in Seq(S), NEW t \in Seq(S), NEW u \in Seq(S), NEW v \in Seq(S),
         t = u \o v
  PROVE  /\ s \o u \in Seq(S)
         /\ (s \o u) \o v = s \o t
  <1>1. (s \o u) \o v = s \o (u \o v)
    BY ConcatAssociative
  <1>2. s \o u \in Seq(S)
    BY ConcatProperties
  <1>3. QED
    BY <1>1, <1>2

LEMMA MoveToBuffer ==
  ASSUME NEW S, NEW s \in Seq(S), NEW t \in Seq(S), NEW n \in 0..Len(t)
  PROVE  /\ s \o SubSeq(t, 1, n) \in Seq(S)
         /\ Drop(t, n) \in Seq(S)
         /\ (s \o SubSeq(t, 1, n)) \o Drop(t, n) = s \o t
  <1>1. Len(t) \in Nat /\ n \in Nat /\ 0 + n <= Len(t) /\ 0 + 1 = 1 /\ 0 + n = n
    BY LenProperties
  <1>2. SubSeq(t, 0 + 1, 0 + n) \in Seq(S)
    BY <1>1, PartOfSeq
  <1>3. SubSeq(t, 1, n) \in Seq(S)
    BY <1>1, <1>2
  <1>4. Drop(t, n) \in Seq(S)
    BY DropOfSeq
  <1>5. SubSeq(t, 1, n) \o Drop(t, n) = t
    <2>1. 1 \in 1..Len(t) + 1 /\ n \in 1 - 1..Len(t) /\ Len(t) \in n..Len(t)
      BY <1>1
    <2>2. SubSeq(t, 1, n) \o SubSeq(t, n + 1, Len(t)) = SubSeq(t, 1, Len(t))
      BY <2>1, ConcatAdjacentSubSeq
    <2>3. QED
      BY <2>2, SubSeqFull DEF Drop
  <1> DEFINE u == SubSeq(t, 1, n)
             v == Drop(t, n)
  <1>6. u \in Seq(S) /\ v \in Seq(S) /\ t = u \o v
    BY <1>3, <1>4, <1>5
  <1> HIDE DEF u, v
  <1>7. s \o u \in Seq(S) /\ (s \o u) \o v = s \o t
    BY <1>6, ConcatOfParts
  <1>8. QED
    BY <1>6, <1>7 DEF u, v

(* Adding to a sequence leaves what was there.                             *)
LEMMA DropBeforeConcat ==
  ASSUME NEW S, NEW s \in Seq(S), NEW t \in Seq(S), NEW k \in Nat, NEW n \in Nat,
         k + n <= Len(s)
  PROVE  SubSeq(s \o t, k + 1, k + n) = SubSeq(s, k + 1, k + n)
  <1> DEFINE c == s \o t
             d == SubSeq(c, k + 1, k + n)
             e == SubSeq(s, k + 1, k + n)
  <1>1. Len(s) \in Nat /\ Len(t) \in Nat
    BY LenProperties
  <1>2. /\ c \in Seq(S)
        /\ Len(c) = Len(s) + Len(t)
        /\ \A i \in 1..Len(s) + Len(t) : c[i] = IF i <= Len(s) THEN s[i] ELSE t[i - Len(s)]
    BY ConcatProperties
  <1> HIDE DEF c
  <1>3. d \in Seq(S) /\ Len(d) = n /\ \A i \in 1..n : d[i] = c[k + i]
    <2>1. k + n <= Len(c)
      BY <1>1, <1>2
    <2>2. QED
      BY <1>2, <2>1, PartOfSeq
  <1>4. e \in Seq(S) /\ Len(e) = n /\ \A i \in 1..n : e[i] = s[k + i]
    BY PartOfSeq
  <1> HIDE DEF d, e
  <1>5. \A i \in 1..n : d[i] = e[i]
    <2>1. SUFFICES ASSUME NEW i \in 1..n PROVE d[i] = e[i]
      OBVIOUS
    <2>2. k + i \in 1..Len(s) + Len(t) /\ k + i <= Len(s)
      BY <1>1
    <2>3. QED
      BY <1>2, <1>3, <1>4, <2>2
  <1>6. d = e
    BY <1>3, <1>4, <1>5, SameSeq
  <1>7. QED
    BY <1>6 DEF c, d, e

LEMMA LongerSeq ==
  ASSUME NEW S, NEW s \in Seq(S), NEW t \in Seq(S), NEW i \in 1..Len(s)
  PROVE  s \o t \in Seq(S) /\ i \in 1..Len(s \o t) /\ (s \o t)[i] = s[i]
  <1>1. s \o t \in Seq(S) /\ Len(s \o t) = Len(s) + Len(t)
    BY ConcatProperties
  <1>2. \A j \in 1..Len(s) + Len(t) :
          (s \o t)[j] = IF j <= Len(s) THEN s[j] ELSE t[j - Len(s)]
    BY ConcatProperties
  <1>3. Len(s) \in Nat /\ Len(t) \in Nat
    BY LenProperties
  <1>4. i \in 1..Len(s) + Len(t) /\ i <= Len(s)
    BY <1>3
  <1>5. QED
    BY <1>1, <1>2, <1>4

LEMMA SeqOfFunction ==
  ASSUME NEW S, NEW n \in Nat, NEW f \in [1..n -> S]
  PROVE  f \in Seq(S) /\ Len(f) = n
  <1>1. f \in Seq(S)
    BY SeqDef
  <1>2. QED
    BY <1>1, LenProperties

-----------------------------------------------------------------------------
(* The function by which FlattenSeq is defined, up to n.                   *)
Flattens(f, ss, n) ==
  f = [i \in 1..n |-> IF i = 1 THEN ss[i] ELSE f[i - 1] \o ss[i]]

LEMMA FlattenSeqDef ==
  ASSUME NEW ss, Len(ss) # 0
  PROVE  FlattenSeq(ss) = (CHOOSE f : Flattens(f, ss, Len(ss)))[Len(ss)]
  BY DEF FlattenSeq, Flattens

LEMMA FlattensUpTo ==
  ASSUME NEW ss, NEW n \in Nat
  PROVE  \E f : Flattens(f, ss, n)
  <1> DEFINE T == { k \in Nat : ~ \E f : Flattens(f, ss, k) }
  <1>1. SUFFICES ASSUME T # {} PROVE FALSE
    OBVIOUS
  <1>2. PICK k \in T : \A j \in T : k <= j
    <2> HIDE DEF T
    <2>1. T \subseteq Nat
      BY DEF T
    <2>2. QED
      BY <1>1, <2>1, LeastOfSet
  <1>3. k # 0
    <2>1. Flattens([i \in 1..0 |-> 0], ss, 0)
      BY DEF Flattens
    <2>2. QED
      BY <2>1
  <1>4. k - 1 \in Nat /\ k - 1 < k
    BY <1>3
  <1>5. PICK f : Flattens(f, ss, k - 1)
    <2>1. k - 1 \notin T
      BY <1>2, <1>4
    <2>2. QED
      BY <1>4, <2>1
  <1> DEFINE last == IF k = 1 THEN ss[k] ELSE f[k - 1] \o ss[k]
             g == [i \in 1..k |-> IF i = k THEN last ELSE f[i]]
  <1>6. Flattens(g, ss, k)
    <2>1. SUFFICES ASSUME NEW i \in 1..k
                   PROVE  g[i] = IF i = 1 THEN ss[i] ELSE g[i - 1] \o ss[i]
      BY DEF Flattens
    <2>2. CASE i = k
      <3>1. (k - 1 \in 1..k /\ k - 1 # k) \/ k = 1
        BY <1>4
      <3>2. QED
        BY <2>2, <3>1
    <2>3. CASE i # k
      <3>1. i \in 1..k - 1 /\ (i = 1 \/ (i - 1 \in 1..k /\ i - 1 # k))
        BY <1>4, <2>3
      <3>2. f[i] = IF i = 1 THEN ss[i] ELSE f[i - 1] \o ss[i]
        BY <1>5, <3>1 DEF Flattens
      <3>3. QED
        BY <2>3, <3>1, <3>2
    <2>4. QED
      BY <2>2, <2>3
  <1>7. QED
    BY <1>6

LEMMA FlattensAlike ==
  ASSUME NEW ss, NEW tt, NEW m \in Nat, NEW n \in Nat, m <= n,
         \A i \in 1..m : ss[i] = tt[i],
         NEW f, Flattens(f, ss, m), NEW g, Flattens(g, tt, n)
  PROVE  \A i \in 1..m : f[i] = g[i]
  <1> DEFINE T == { k \in 1..m : f[k] # g[k] }
  <1>1. SUFFICES ASSUME T # {} PROVE FALSE
    OBVIOUS
  <1>2. PICK k \in T : \A j \in T : k <= j
    <2> HIDE DEF T
    <2>1. T \subseteq Nat
      BY DEF T
    <2>2. QED
      BY <1>1, <2>1, LeastOfSet
  <1>3. /\ f[k] = IF k = 1 THEN ss[k] ELSE f[k - 1] \o ss[k]
        /\ g[k] = IF k = 1 THEN tt[k] ELSE g[k - 1] \o tt[k]
    <2>1. k \in 1..m /\ k \in 1..n
      OBVIOUS
    <2>2. QED
      BY <2>1 DEF Flattens
  <1>4. k = 1 \/ f[k - 1] = g[k - 1]
    <2>1. SUFFICES ASSUME k # 1 PROVE f[k - 1] = g[k - 1]
      OBVIOUS
    <2>2. k - 1 \in 1..m /\ ~(k <= k - 1)
      BY <2>1
    <2>3. QED
      BY <1>2, <2>2
  <1>5. QED
    BY <1>3, <1>4

(* Flattening one sequence more appends it.                                *)
LEMMA FlattenAppend ==
  ASSUME NEW S, NEW ss \in Seq(S), NEW e \in S,
         NEW T, NEW ee \in Seq(T), ee = e
  PROVE  /\ FlattenSeq(<< >>) = << >>
         /\ FlattenSeq(Append(ss, e)) = FlattenSeq(ss) \o e
  <1> DEFINE tt == Append(ss, e)
             n == Len(ss)
  <1>1. n \in Nat /\ Len(tt) = n + 1 /\ tt[n + 1] = e /\ \A i \in 1..n : ss[i] = tt[i]
    BY LenProperties, AppendProperties
  <1>2. FlattenSeq(<< >>) = << >>
    BY DEF FlattenSeq
  <1> HIDE DEF tt
  <1>3. PICK k \in Nat : k = n + 1 /\ n = k - 1 /\ k # 0
    BY <1>1
  <1>4. PICK g : Flattens(g, tt, k) /\ FlattenSeq(tt) = g[k]
    <2>1. \E h : Flattens(h, tt, k)
      BY FlattensUpTo
    <2>2. Flattens(CHOOSE h : Flattens(h, tt, k), tt, k)
      BY <2>1
    <2>3. QED
      BY <1>1, <1>3, <2>2, FlattenSeqDef
  <1>5. g[k] = IF n = 0 THEN e ELSE g[n] \o e
    <2>1. k \in 1..k
      BY <1>3
    <2>2. g[k] = IF k = 1 THEN tt[k] ELSE g[k - 1] \o tt[k]
      BY <1>4, <2>1 DEF Flattens
    <2>3. QED
      BY <1>1, <1>3, <2>2
  <1>6. CASE n = 0
    <2>1. ss = << >>
      BY <1>6, EmptySeq
    <2>2. << >> \o e = e
      BY ConcatEmptySeq
    <2>3. QED
      BY <1>2, <1>4, <1>5, <1>6, <2>1, <2>2 DEF tt
  <1>7. CASE n # 0
    <2>1. PICK f : Flattens(f, ss, n) /\ FlattenSeq(ss) = f[n]
      <3>1. \E h : Flattens(h, ss, n)
        BY <1>1, FlattensUpTo
      <3>2. Flattens(CHOOSE h : Flattens(h, ss, n), ss, n)
        BY <3>1
      <3>3. QED
        BY <1>7, <3>2, FlattenSeqDef
    <2>2. \A i \in 1..n : f[i] = g[i]
      <3> HIDE DEF n
      <3>1. n \in Nat /\ n <= k /\ \A i \in 1..n : ss[i] = tt[i]
        BY <1>1, <1>3
      <3>2. QED
        BY SMTT(30), <1>4, <2>1, <3>1, FlattensAlike
    <2>3. f[n] = g[n]
      BY <1>1, <1>7, <2>2
    <2>4. QED
      BY <1>2, <1>4, <1>5, <1>7, <2>1, <2>3 DEF tt
  <1>8. QED
    BY <1>6, <1>7

(* Each line h followed by its end c.                                      *)
LEMMA FlattenOfPairs ==
  ASSUME NEW U, NEW c \in U, NEW hs \in Seq(U)
  PROVE  LET f == FlattenSeq([i \in 1..Len(hs) |-> << hs[i], c >>])
         IN  /\ f \in Seq(U) /\ Len(f) = 2 * Len(hs)
             /\ \A i \in 1..Len(hs) : f[2 * i - 1] = hs[i] /\ f[2 * i] = c
  <1> DEFINE pairs(k) == [i \in 1..k |-> << hs[i], c >>]
             P(k) == /\ FlattenSeq(pairs(k)) \in Seq(U)
                     /\ Len(FlattenSeq(pairs(k))) = 2 * k
                     /\ \A i \in 1..k : /\ FlattenSeq(pairs(k))[2 * i - 1] = hs[i]
                                        /\ FlattenSeq(pairs(k))[2 * i] = c
             T == { k \in 0..Len(hs) : ~P(k) }
  <1>1. Len(hs) \in Nat /\ \A i \in 1..Len(hs) : hs[i] \in U
    BY LenProperties, ElementOfSeq
  <1>2. SUFFICES P(Len(hs))
    OBVIOUS
  <1>3. SUFFICES ASSUME T # {} PROVE FALSE
    <2> HIDE DEF P
    <2>1. Len(hs) \in 0..Len(hs)
      BY <1>1
    <2>2. QED
      BY <2>1
  <1>4. PICK k \in T : \A j \in T : k <= j
    <2> HIDE DEF T
    <2>1. T \subseteq Nat
      BY <1>1 DEF T
    <2>2. QED
      BY <1>3, <2>1, LeastOfSet
  <1>5. k # 0
    <2>1. pairs(0) = << >>
      OBVIOUS
    <2>2. FlattenSeq(pairs(0)) = << >>
      BY <2>1 DEF FlattenSeq
    <2>3. << >> \in Seq(U) /\ Len(<< >>) = 2 * 0
      BY EmptySeq
    <2>4. P(0)
      <3> DEFINE f == FlattenSeq(pairs(0))
      <3>1. f = << >>
        BY <2>2
      <3> HIDE DEF f
      <3>2. f \in Seq(U) /\ Len(f) = 2 * 0 /\ \A i \in 1..0 : FALSE
        BY <2>3, <3>1
      <3> HIDE DEF pairs
      <3>3. QED
        BY <3>2 DEF f
    <2>5. QED
      BY <2>4
  <1>6. PICK j \in Nat : j = k - 1 /\ k = j + 1 /\ j \in 0..Len(hs) /\ k \in 1..Len(hs) /\ ~(k <= j)
    BY <1>1, <1>5
  <1>7. P(j)
    BY <1>4, <1>6
  <1> DEFINE ps == pairs(j)
             e == << hs[k], c >>
             f == FlattenSeq(ps)
  <1>8. e \in Seq(U) /\ Len(e) = 2 /\ e[1] = hs[k] /\ e[2] = c
    BY <1>1, <1>6
  <1>9. ps \in Seq(Seq(U)) /\ pairs(k) = Append(ps, e)
    <2>1. \A i \in 1..j : hs[i] \in U
      BY <1>1, <1>6
    <2>2. \A i \in 1..j : << hs[i], c >> \in Seq(U)
      BY <2>1
    <2>3. ps \in [1..j -> Seq(U)]
      BY <2>2
    <2>4. ps \in Seq(Seq(U)) /\ Len(ps) = j
      BY <1>6, <2>3, SeqDef
    <2>5. pairs(k) = Append(ps, e)
      BY <1>6, <2>4
    <2>6. QED
      BY <2>4, <2>5
  <1>10. f \in Seq(U) /\ Len(f) = 2 * j /\ \A i \in 1..j : f[2 * i - 1] = hs[i] /\ f[2 * i] = c
    BY <1>7
  <1>11. FlattenSeq(pairs(k)) = f \o e
    <2> HIDE DEF ps, e, f, pairs
    <2>1. FlattenSeq(Append(ps, e)) = FlattenSeq(ps) \o e
      BY <1>8, <1>9, FlattenAppend
    <2>2. QED
      BY <1>9, <2>1 DEF f
  <1> DEFINE g == f \o e
  <1> HIDE DEF f, e
  <1>12. /\ g \in Seq(U) /\ Len(g) = 2 * j + 2
         /\ \A i \in 1..2 * j + 2 : g[i] = IF i <= 2 * j THEN f[i] ELSE e[i - 2 * j]
    <2>1. /\ g \in Seq(U) /\ Len(g) = Len(f) + Len(e)
          /\ \A i \in 1..Len(f) + Len(e) : g[i] = IF i <= Len(f) THEN f[i] ELSE e[i - Len(f)]
      BY ZenonT(30), <1>8, <1>10, ConcatProperties
    <2> HIDE DEF g
    <2>2. QED
      BY <1>8, <1>10, <2>1
  <1> HIDE DEF g
  <1>13. \A i \in 1..k : g[2 * i - 1] = hs[i] /\ g[2 * i] = c
    <2>1. SUFFICES ASSUME NEW i \in 1..k PROVE g[2 * i - 1] = hs[i] /\ g[2 * i] = c
      OBVIOUS
    <2>2. CASE i = k
      <3>1. /\ 2 * i - 1 \in 1..2 * j + 2 /\ ~(2 * i - 1 <= 2 * j) /\ (2 * i - 1) - 2 * j = 1
            /\ 2 * i \in 1..2 * j + 2 /\ ~(2 * i <= 2 * j) /\ 2 * i - 2 * j = 2
        BY <1>6, <2>2
      <3>2. QED
        BY <1>8, <1>12, <2>2, <3>1
    <2>3. CASE i # k
      <3>1. /\ i \in 1..j
            /\ 2 * i - 1 \in 1..2 * j + 2 /\ 2 * i - 1 <= 2 * j
            /\ 2 * i \in 1..2 * j + 2 /\ 2 * i <= 2 * j
        BY <1>6, <2>3
      <3>2. QED
        BY <1>10, <1>12, <3>1
    <2>4. QED
      BY <2>2, <2>3
  <1>14. Len(g) = 2 * k
    BY <1>6, <1>12
  <1>15. P(k)
    <2>1. FlattenSeq(pairs(k)) = g
      BY <1>11 DEF g
    <2> HIDE DEF pairs
    <2>2. QED
      BY <1>12, <1>13, <1>14, <2>1
  <1>16. QED
    BY <1>15

(* One sequence stands in another, behind the first o elements.            *)
Placed(f, o, s) ==
  /\ o + Len(s) <= Len(f)
  /\ \A i \in 1..Len(s) : f[o + i] = s[i]

LEMMA PlacedInFront ==
  ASSUME NEW S, NEW f \in Seq(S), NEW e \in Seq(S), NEW s \in Seq(S), NEW o \in Nat,
         Placed(f, o, s)
  PROVE  Placed(f \o e, o, s)
  <1>1. /\ Len(f \o e) = Len(f) + Len(e)
        /\ \A i \in 1..Len(f) + Len(e) :
             (f \o e)[i] = IF i <= Len(f) THEN f[i] ELSE e[i - Len(f)]
    BY ConcatProperties
  <1>2. Len(f) \in Nat /\ Len(e) \in Nat /\ Len(s) \in Nat
    BY LenProperties
  <1>3. o + Len(s) <= Len(f) /\ \A i \in 1..Len(s) : f[o + i] = s[i]
    BY DEF Placed
  <1> DEFINE c == f \o e
  <1> HIDE DEF c
  <1>4. Len(c) = Len(f) + Len(e)
    BY <1>1 DEF c
  <1>5. \A i \in 1..Len(f) + Len(e) : c[i] = IF i <= Len(f) THEN f[i] ELSE e[i - Len(f)]
    BY <1>1 DEF c
  <1>6. Placed(c, o, s)
    BY SMTT(30), <1>2, <1>3, <1>4, <1>5 DEF Placed
  <1>7. QED
    BY <1>6 DEF c

LEMMA PlacedBehind ==
  ASSUME NEW S, NEW f \in Seq(S), NEW e \in Seq(S)
  PROVE  Placed(f \o e, Len(f), e)
  <1>1. /\ Len(f \o e) = Len(f) + Len(e)
        /\ \A i \in 1..Len(f) + Len(e) :
             (f \o e)[i] = IF i <= Len(f) THEN f[i] ELSE e[i - Len(f)]
    BY ConcatProperties
  <1>2. Len(f) \in Nat /\ Len(e) \in Nat
    BY LenProperties
  <1> DEFINE c == f \o e
  <1> HIDE DEF c
  <1>3. Len(c) = Len(f) + Len(e)
    BY <1>1 DEF c
  <1>4. \A i \in 1..Len(f) + Len(e) : c[i] = IF i <= Len(f) THEN f[i] ELSE e[i - Len(f)]
    BY <1>1 DEF c
  <1>5. ASSUME NEW i \in 1..Len(e) PROVE c[Len(f) + i] = e[i]
    <2>1. PICK n \in Nat : n = Len(f)
      BY <1>2
    <2>2. PICK k \in Nat : k = Len(f) + i
      BY <1>2
    <2>3. k \in 1..Len(f) + Len(e) /\ ~(k <= Len(f)) /\ k - Len(f) = i
      BY <1>2, <2>2
    <2>4. QED
      BY <1>4, <2>2, <2>3
  <1>6. Placed(c, Len(f), e)
    BY <1>2, <1>3, <1>5 DEF Placed
  <1>7. QED
    BY <1>6 DEF c

(* Every part of what is flattened is in it.                               *)
LEMMA FlattenKeeps ==
  ASSUME NEW S, NEW ss \in Seq(Seq(S))
  PROVE  /\ FlattenSeq(ss) \in Seq(S)
         /\ \A k \in 1..Len(ss) : \E o \in Nat : Placed(FlattenSeq(ss), o, ss[k])
  <1> DEFINE first(k) == [i \in 1..k |-> ss[i]]
             P(k) == /\ FlattenSeq(first(k)) \in Seq(S)
                     /\ \A i \in 1..k : \E o \in Nat : Placed(FlattenSeq(first(k)), o, ss[i])
             T == { k \in 0..Len(ss) : ~P(k) }
  <1>1. Len(ss) \in Nat /\ \A i \in 1..Len(ss) : ss[i] \in Seq(S)
    BY LenProperties, ElementOfSeq
  <1>2. SUFFICES P(Len(ss))
    <2>1. first(Len(ss)) = ss
      BY LenProperties
    <2> HIDE DEF first
    <2>2. QED
      BY <2>1
  <1>3. SUFFICES ASSUME T # {} PROVE FALSE
    <2> HIDE DEF P
    <2>1. Len(ss) \in 0..Len(ss)
      BY <1>1
    <2>2. QED
      BY <2>1
  <1>4. PICK k \in T : \A j \in T : k <= j
    <2> HIDE DEF T
    <2>1. T \subseteq Nat
      BY <1>1 DEF T
    <2>2. QED
      BY <1>3, <2>1, LeastOfSet
  <1>5. k # 0
    <2>1. first(0) = << >>
      OBVIOUS
    <2>2. FlattenSeq(<< >>) = << >>
      BY DEF FlattenSeq
    <2>3. << >> \in Seq(S)
      BY EmptySeq
    <2> HIDE DEF first
    <2>4. FlattenSeq(first(0)) \in Seq(S)
      BY <2>1, <2>2, <2>3
    <2>5. P(0)
      BY <2>4
    <2>6. QED
      BY <2>5
  <1>6. PICK j \in Nat : j = k - 1 /\ k = j + 1 /\ j \in 0..Len(ss) /\ k \in 1..Len(ss) /\ ~(k <= j)
    BY <1>1, <1>5
  <1>7. P(j)
    <2> HIDE DEF P
    <2>1. QED
      BY <1>4, <1>6
  <1> DEFINE fs == first(j)
             e == ss[k]
             f == FlattenSeq(fs)
  <1>8. e \in Seq(S)
    BY <1>1, <1>6
  <1>9. fs \in Seq(Seq(S)) /\ first(k) = Append(fs, e)
    <2>1. \A i \in 1..j : ss[i] \in Seq(S)
      BY <1>1, <1>6
    <2>2. fs \in [1..j -> Seq(S)]
      BY <2>1
    <2>3. fs \in Seq(Seq(S)) /\ Len(fs) = j
      BY <1>6, <2>2, SeqDef
    <2>4. first(k) = Append(fs, e)
      BY <1>6, <2>3
    <2>5. QED
      BY <2>3, <2>4
  <1>10. f \in Seq(S) /\ \A i \in 1..j : \E o \in Nat : Placed(f, o, ss[i])
    BY <1>7
  <1>11. FlattenSeq(first(k)) = f \o e
    <2> HIDE DEF fs, e, f, first
    <2>1. FlattenSeq(Append(fs, e)) = FlattenSeq(fs) \o e
      BY <1>8, <1>9, FlattenAppend
    <2>2. QED
      BY <1>9, <2>1 DEF f
  <1>12. ss[k] = e
    OBVIOUS
  <1> HIDE DEF f, e, P, T
  <1>13. f \o e \in Seq(S)
    BY <1>8, <1>10, ConcatProperties
  <1>14. ASSUME NEW i \in 1..k PROVE \E o \in Nat : Placed(f \o e, o, ss[i])
    <2>1. CASE i = k
      <3>1. Len(f) \in Nat
        BY <1>10, LenProperties
      <3>2. Placed(f \o e, Len(f), e)
        BY <1>8, <1>10, PlacedBehind
      <3>3. QED
        BY <1>12, <2>1, <3>1, <3>2
    <2>2. CASE i # k
      <3>1. i \in 1..j /\ ss[i] \in Seq(S)
        BY <1>1, <1>6, <2>2
      <3>2. PICK o \in Nat : Placed(f, o, ss[i])
        BY <1>10, <3>1
      <3>3. Placed(f \o e, o, ss[i])
        BY <1>8, <1>10, <3>1, <3>2, PlacedInFront
      <3>4. QED
        BY <3>3
    <2>3. QED
      BY <2>1, <2>2
  <1>15. P(k)
    <2> HIDE DEF first
    <2>1. QED
      BY <1>11, <1>13, <1>14 DEF P
  <1>16. QED
    BY <1>15 DEF T

(* Parts of constant length in what is flattened: each stands behind those *)
(* before it.                                                              *)
LEMMA ConcatPlaces ==
  ASSUME NEW S, NEW f \in Seq(S), NEW e \in Seq(S)
  PROVE  /\ f \o e \in Seq(S) /\ Len(f \o e) = Len(f) + Len(e)
         /\ Placed(f \o e, 0, f) /\ Placed(f \o e, Len(f), e)
  <1>1. f \o e \in Seq(S) /\ Len(f \o e) = Len(f) + Len(e)
        /\ \A i \in 1..Len(f) + Len(e) :
             (f \o e)[i] = IF i <= Len(f) THEN f[i] ELSE e[i - Len(f)]
    BY ConcatProperties
  <1>2. Len(f) \in Nat /\ Len(e) \in Nat
    BY LenProperties
  <1> DEFINE c == f \o e
  <1>3. Placed(c, Len(f), e)
    BY PlacedBehind
  <1>4. Len(c) = Len(f) + Len(e)
        /\ \A i \in 1..Len(f) + Len(e) : c[i] = IF i <= Len(f) THEN f[i] ELSE e[i - Len(f)]
    BY <1>1
  <1> HIDE DEF c
  <1>5. Placed(c, 0, f)
    BY <1>2, <1>4 DEF Placed
  <1>6. QED
    BY <1>1, <1>3, <1>5 DEF c

LEMMA PlacedInside ==
  ASSUME NEW S, NEW f \in Seq(S), NEW e \in Seq(S), NEW s \in Seq(S),
         NEW o \in Nat, NEW p \in Nat, Placed(f, o, e), Placed(e, p, s)
  PROVE  Placed(f, o + p, s)
  <1>1. Len(f) \in Nat /\ Len(e) \in Nat /\ Len(s) \in Nat
    BY LenProperties
  <1>2. o + Len(e) <= Len(f) /\ \A i \in 1..Len(e) : f[o + i] = e[i]
    BY DEF Placed
  <1>3. p + Len(s) <= Len(e) /\ \A i \in 1..Len(s) : e[p + i] = s[i]
    BY DEF Placed
  <1>4. ASSUME NEW i \in 1..Len(s) PROVE f[o + p + i] = s[i]
    <2>1. PICK q \in Nat : q = p + i /\ q \in 1..Len(e) /\ o + q = o + p + i
      BY <1>1, <1>3
    <2>2. f[o + q] = e[q] /\ e[q] = s[i]
      BY <1>2, <1>3, <2>1
    <2>3. QED
      BY <2>1, <2>2
  <1>5. o + p + Len(s) <= Len(f)
    BY <1>1, <1>2, <1>3
  <1>6. QED
    BY <1>4, <1>5 DEF Placed

LEMMA FlattenPlaces ==
  ASSUME NEW S, NEW ss \in Seq(Seq(S)), NEW off \in [0..Len(ss) -> Nat], off[0] = 0,
         \A k \in 1..Len(ss) : off[k] = off[k - 1] + Len(ss[k])
  PROVE  /\ FlattenSeq(ss) \in Seq(S) /\ Len(FlattenSeq(ss)) = off[Len(ss)]
         /\ \A k \in 1..Len(ss) : Placed(FlattenSeq(ss), off[k - 1], ss[k])
  <1> DEFINE first(k) == [i \in 1..k |-> ss[i]]
             P(k) == /\ FlattenSeq(first(k)) \in Seq(S)
                     /\ Len(FlattenSeq(first(k))) = off[k]
                     /\ \A i \in 1..k : Placed(FlattenSeq(first(k)), off[i - 1], ss[i])
             T == { k \in 0..Len(ss) : ~P(k) }
  <1>1. Len(ss) \in Nat /\ \A i \in 1..Len(ss) : ss[i] \in Seq(S)
    BY LenProperties, ElementOfSeq
  <1>2. SUFFICES P(Len(ss))
    <2>1. first(Len(ss)) = ss
      BY LenProperties
    <2> HIDE DEF first
    <2>2. QED
      BY <2>1
  <1>3. SUFFICES ASSUME T # {} PROVE FALSE
    <2> HIDE DEF P
    <2>1. Len(ss) \in 0..Len(ss)
      BY <1>1
    <2>2. QED
      BY Zenon, <2>1
  <1>4. PICK k \in T : \A j \in T : k <= j
    <2> HIDE DEF T
    <2>1. T \subseteq Nat
      BY <1>1 DEF T
    <2>2. QED
      BY Zenon, <1>3, <2>1, LeastOfSet
  <1>5. k # 0
    <2>1. first(0) = << >>
      OBVIOUS
    <2>2. FlattenSeq(<< >>) = << >>
      BY DEF FlattenSeq
    <2>3. << >> \in Seq(S) /\ Len(<< >>) = 0
      BY EmptySeq
    <2> HIDE DEF first
    <2>4. FlattenSeq(first(0)) \in Seq(S) /\ Len(FlattenSeq(first(0))) = off[0]
      BY Zenon, <2>1, <2>2, <2>3
    <2>5. P(0)
      BY <2>4
    <2>6. QED
      BY <2>5
  <1>6. PICK j \in Nat : j = k - 1 /\ k = j + 1 /\ j \in 0..Len(ss) /\ k \in 1..Len(ss) /\ ~(k <= j)
    BY <1>1, <1>5
  <1>7. P(j)
    <2> HIDE DEF P
    <2>1. QED
      BY <1>4, <1>6
  <1> DEFINE fs == first(j)
             e == ss[k]
             f == FlattenSeq(fs)
  <1>8. e \in Seq(S)
    BY <1>1, <1>6
  <1>9. fs \in Seq(Seq(S)) /\ first(k) = Append(fs, e)
    <2>1. \A i \in 1..j : ss[i] \in Seq(S)
      BY <1>1, <1>6
    <2>2. fs \in [1..j -> Seq(S)]
      BY <2>1
    <2>3. fs \in Seq(Seq(S)) /\ Len(fs) = j
      BY <1>6, <2>2, SeqDef
    <2>4. first(k) = Append(fs, e)
      BY <1>6, <2>3
    <2>5. QED
      BY <2>3, <2>4
  <1>10. f \in Seq(S) /\ Len(f) = off[j] /\ \A i \in 1..j : Placed(f, off[i - 1], ss[i])
    BY <1>7
  <1>11. FlattenSeq(first(k)) = f \o e
    <2> HIDE DEF fs, e, f, first
    <2>1. FlattenSeq(Append(fs, e)) = FlattenSeq(fs) \o e
      BY Zenon, <1>8, <1>9, FlattenAppend
    <2>2. QED
      BY <1>9, <2>1 DEF f
  <1>12. ss[k] = e /\ off[k] = off[j] + Len(e) /\ off[k - 1] = off[j]
    BY <1>6
  <1> HIDE DEF f, e, P, T
  <1>13. f \o e \in Seq(S) /\ Len(f \o e) = off[k]
    <2>1. f \o e \in Seq(S) /\ Len(f \o e) = Len(f) + Len(e)
      BY Zenon, <1>8, <1>10, ConcatProperties
    <2>2. QED
      BY <1>10, <1>12, <2>1
  <1>14. ASSUME NEW i \in 1..k PROVE Placed(f \o e, off[i - 1], ss[i])
    <2>1. CASE i = k
      <3>1. Placed(f \o e, Len(f), e)
        BY <1>8, <1>10, PlacedBehind
      <3>2. QED
        BY <1>10, <1>12, <2>1, <3>1
    <2>2. CASE i # k
      <3>1. i \in 1..j /\ ss[i] \in Seq(S) /\ i - 1 \in 0..Len(ss)
        BY <1>1, <1>6, <2>2
      <3>2. Placed(f, off[i - 1], ss[i]) /\ off[i - 1] \in Nat
        BY Zenon, <1>10, <3>1
      <3>3. QED
        BY <1>8, <1>10, <3>1, <3>2, PlacedInFront
    <2>3. QED
      BY <2>1, <2>2
  <1>15. P(k)
    <2> HIDE DEF first
    <2>1. QED
      BY <1>11, <1>13, <1>14 DEF P
  <1>16. QED
    BY <1>15 DEF T

LEMMA PlacedAt ==
  ASSUME NEW f, NEW o, NEW s, Placed(f, o, s), NEW i \in 1..Len(s)
  PROVE  f[o + i] = s[i]
  BY DEF Placed

LEMMA OneElement ==
  ASSUME NEW S, NEW e \in S
  PROVE  << e >> \in Seq(S) /\ Len(<< e >>) = 1 /\ << e >>[1] = e
  OBVIOUS

-----------------------------------------------------------------------------
LEMMA ListOfSet ==
  ASSUME NEW T, IsFiniteSet(T)
  PROVE  /\ SetToSeq(T) \in Seq(T)
         /\ \A i, j \in 1..Len(SetToSeq(T)) : SetToSeq(T)[i] = SetToSeq(T)[j] => i = j
         /\ T = { SetToSeq(T)[i] : i \in 1..Len(SetToSeq(T)) }
  <1>1. Cardinality(T) \in Nat /\ ExistsBijection(1..Cardinality(T), T)
    BY FS_CardinalityType
  <1>2. \E f \in [1..Cardinality(T) -> T] : IsInjective(f)
    BY <1>1 DEF ExistsBijection, Bijection, Injection
  <1> DEFINE s == SetToSeq(T)
  <1>3. s \in [1..Cardinality(T) -> T] /\ IsInjective(s)
    BY <1>2 DEF SetToSeq
  <1> HIDE DEF s
  <1>4. s \in Seq(T) /\ Len(s) = Cardinality(T)
    BY <1>1, <1>3, SeqDef
  <1>5. \A i, j \in 1..Len(s) : s[i] = s[j] => i = j
    BY <1>3, <1>4, InjectiveSeq
  <1>6. s \in Surjection(1..Cardinality(T), T)
    <2>1. s \in Injection(1..Cardinality(T), T)
      BY <1>3, <1>4, <1>5 DEF Injection, IsInjective
    <2>2. IsFiniteSet(1..Cardinality(T)) /\ Cardinality(1..Cardinality(T)) = Cardinality(T)
      BY <1>1, FS_Interval
    <2>3. QED
      BY <2>1, <2>2, FS_Injection
  <1>7. T = { s[i] : i \in 1..Len(s) }
    BY <1>3, <1>4, <1>6 DEF Surjection
  <1>8. QED
    BY <1>4, <1>5, <1>7 DEF s

(* A sequence is one over its own elements.                                *)
LEMMA SeqOfOwn ==
  ASSUME NEW S, NEW s \in Seq(S)
  PROVE  s \in Seq(ToSet(s)) /\ \A i \in 1..Len(s) : s[i] \in ToSet(s)
  <1>1. Len(s) \in Nat /\ s \in [1..Len(s) -> S] /\ ToSet(s) = { s[i] : i \in 1..Len(s) }
    BY LenProperties, ToSetOfSeq
  <1>2. s \in [1..Len(s) -> ToSet(s)]
    BY <1>1
  <1>3. QED
    BY SMTT(30), <1>1, <1>2, SeqDef

LEMMA AppendToOwn ==
  ASSUME NEW s, s \in Seq(ToSet(s)), NEW e
  PROVE  /\ Append(s, e) \in Seq(ToSet(Append(s, e)))
         /\ Len(s) \in Nat /\ Len(Append(s, e)) = Len(s) + 1
         /\ \A i \in 1..Len(s) : Append(s, e)[i] = s[i]
         /\ Append(s, e)[Len(s) + 1] = e
  <1> DEFINE S == ToSet(s) \cup {e}
  <1>1. Len(s) \in Nat /\ s \in [1..Len(s) -> ToSet(s)]
    BY LenProperties
  <1>2. s \in [1..Len(s) -> S] /\ e \in S
    BY <1>1
  <1>3. s \in Seq(S)
    BY <1>1, <1>2, SeqDef
  <1> HIDE DEF S
  <1>4. /\ Append(s, e) \in Seq(S)
        /\ Len(Append(s, e)) = Len(s) + 1
        /\ \A i \in 1..Len(s) : Append(s, e)[i] = s[i]
        /\ Append(s, e)[Len(s) + 1] = e
    BY <1>2, <1>3, AppendProperties
  <1> DEFINE a == Append(s, e)
  <1> HIDE DEF a
  <1>5. a \in Seq(S) => a \in Seq(ToSet(a))
    BY SeqOfOwn
  <1>6. QED
    BY <1>1, <1>4, <1>5 DEF a

(* Where an element first is.                                              *)
LEMMA FirstOfSeq ==
  ASSUME NEW S, NEW s \in Seq(S), NEW I, I \subseteq 1..Len(s),
         NEW k, k = IF I # {} THEN Min(I) ELSE 0
  PROVE  /\ k \in 0..Len(s)
         /\ k = 0 => I = {}
         /\ k # 0 => k \in I /\ \A i \in 1..k - 1 : i \notin I
  <1>1. Len(s) \in Nat
    BY LenProperties
  <1>2. CASE I = {}
    BY <1>1, <1>2
  <1>3. CASE I # {}
    <2>1. I \subseteq Nat
      BY <1>1
    <2>2. k \in I /\ \A n \in I : k <= n
      BY <1>3, <2>1, LeastOfSet
    <2>3. \A i \in 1..k - 1 : i \notin I
      BY <1>1, <2>2
    <2>4. QED
      BY <1>1, <2>2, <2>3
  <1>4. QED
    BY <1>2, <1>3

(* Something that starts with a, one of X, and becomes h[k] of itself at   *)
(* the k-th of n steps.                                                    *)
Iterates(f, X, a, h, n) ==
  f \in [0..n -> X] /\ f[0] = a /\ \A k \in 1..n : f[k] = h[k][f[k - 1]]

LEMMA IterationUpTo ==
  ASSUME NEW X, NEW a \in X, NEW h \in [Nat -> [X -> X]], NEW n \in Nat
  PROVE  \E f : Iterates(f, X, a, h, n)
  <1> DEFINE P(m) == \E f : Iterates(f, X, a, h, m)
             T == {m \in Nat : ~P(m)}
  <1>1. SUFFICES ASSUME T # {} PROVE FALSE
    OBVIOUS
  <1>2. PICK m \in T : \A j \in T : m <= j
    <2> HIDE DEF T
    <2>1. T \subseteq Nat
      BY DEF T
    <2>2. QED
      BY <1>1, <2>1, LeastOfSet
  <1>3. m # 0
    <2>1. PICK f : f = [j \in 0..0 |-> a]
      OBVIOUS
    <2>2. f \in [0..0 -> X] /\ f[0] = a /\ \A k \in 1..0 : FALSE
      BY <2>1
    <2>3. QED
      BY <2>2 DEF Iterates
  <1>4. PICK l \in Nat : l + 1 = m
    BY <1>3
  <1>5. PICK f \in [0..l -> X] : f[0] = a /\ \A k \in 1..l : f[k] = h[k][f[k - 1]]
    <2>1. l \in Nat /\ ~(m <= l)
      BY <1>4
    <2>2. P(l)
      <3> HIDE DEF P
      <3>1. QED
        BY <1>2, <2>1
    <2>3. QED
      BY <2>2 DEF Iterates
  <1>6. PICK last \in X : last = h[m][f[l]]
    <2>1. h[m] \in [X -> X] /\ f[l] \in X
      BY <1>4
    <2>2. QED
      BY <2>1
  <1>7. PICK g : g = [j \in 0..m |-> IF j = m THEN last ELSE f[j]]
    OBVIOUS
  <1>8. /\ g \in [0..m -> X] /\ g[m] = last
        /\ \A j \in 0..l : g[j] = f[j]
    <2>1. \A j \in 0..m : j = m \/ j \in 0..l
      BY <1>4
    <2>2. \A j \in 0..l : j \in 0..m /\ j # m
      BY <1>4
    <2>3. m \in 0..m
      OBVIOUS
    <2>4. QED
      BY <1>7, <2>1, <2>2, <2>3
  <1>9. g[0] = a
    BY <1>5, <1>8
  <1>10. ASSUME NEW k \in 1..m PROVE g[k] = h[k][g[k - 1]]
    <2>1. CASE k = m
      <3>1. k - 1 = l /\ l \in 0..l
        BY <1>4, <2>1
      <3>2. g[k - 1] = f[l]
        BY <1>8, <3>1
      <3>3. QED
        BY <1>6, <1>8, <2>1, <3>2
    <2>2. CASE k # m
      <3>1. k \in 1..l /\ k \in 0..l /\ k - 1 \in 0..l
        BY <1>4, <2>2
      <3>2. g[k] = f[k] /\ g[k - 1] = f[k - 1]
        BY <1>8, <3>1
      <3>3. QED
        BY <1>5, <3>1, <3>2
    <2>3. QED
      BY <2>1, <2>2
  <1>11. P(m)
    BY <1>8, <1>9, <1>10 DEF Iterates
  <1>12. QED
    <2> HIDE DEF P
    <2>1. QED
      BY <1>2, <1>11
=============================================================================
