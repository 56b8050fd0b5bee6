------------------------- MODULE PipeConnectorProofs -------------------------
(***************************************************************************)
(* Proofs about the connector, for any size of its buffer, any length of    *)
(* the writes and any set of services.                                      *)
(***************************************************************************)
EXTENDS PipeConnector, WellFoundedInduction, SequenceTheorems, TLAPS

\* The buffer and what was copied to it: the same until a write is refused; then it
\* has a terminator, and its name is split.
BufferIsStored ==
  service = None =>
    IF refused = 0 THEN buffer = stored /\ written = stored /\ ~Has(stored, Nul)
    ELSE Has(stored, Nul) /\ buffer = SplitInPlace(stored)

\* The inductive invariant.
ConnectorInv ==
  /\ TypeOK /\ ServiceAsInvited /\ BufferIsStored
  /\ stored \in Seq(Byte)

----------------------------------------------------------------------------
(* The first occurrence of a byte.                                          *)

\* A set of naturals that is not empty has a least element, and Min is that.
LEMMA LeastElement ==
  ASSUME NEW S, S \subseteq Nat, S # {}
  PROVE  Min(S) \in S /\ \A y \in S : Min(S) <= y
<1>1. PICK R : IsWellFoundedOn(R, Nat) /\ \A x, y \in Nat : x < y => <<x, y>> \in R
  <2>1. \A x, y \in Nat : x < y => <<x, y>> \in OpToRel(<, Nat)
    BY DEF OpToRel
  <2> QED
    BY <2>1, NatLessThanWellFounded, Zenon
<1>2. IsWellFoundedOn(R, Nat)
  BY <1>1
<1>3. PICK x \in S : \A y \in S : ~(<<y, x>> \in R)
  BY <1>2, WFMin
<1>4. ASSUME NEW y \in S PROVE x <= y
  <2>1. ~(y < x)
    BY <1>1, <1>3, Zenon
  <2> QED
    BY <2>1
<1> QED
  BY <1>4 DEF Min

\* What Has and Min(Positions) say of a string, as C's strchr does.
LEMMA FirstIs ==
  ASSUME NEW s \in Seq(Byte), NEW b, Has(s, b)
  PROVE  /\ Min(Positions(s, b)) \in 1 .. Len(s) /\ s[Min(Positions(s, b))] = b
         /\ \A i \in 1 .. Len(s) : i < Min(Positions(s, b)) => s[i] # b
<1>1. Positions(s, b) \subseteq Nat /\ Positions(s, b) # {}
  BY DEF Positions, Has
<1> DEFINE m == Min(Positions(s, b))
<1>2. m \in Positions(s, b) /\ \A y \in Positions(s, b) : m <= y
  BY <1>1, LeastElement
<1> HIDE DEF m
<1>3. m \in 1 .. Len(s) /\ s[m] = b /\ \A i \in 1 .. Len(s) : i < m => s[i] # b
  BY <1>2 DEF Positions
<1> QED
  BY <1>3 DEF m

\* There is only one such place.
LEMMA FirstUnique ==
  ASSUME NEW s \in Seq(Byte), NEW b, NEW k \in 1 .. Len(s), s[k] = b,
         \A i \in 1 .. k - 1 : s[i] # b
  PROVE  Has(s, b) /\ Min(Positions(s, b)) = k
<1>1. Has(s, b)
  BY DEF Has, Positions
<1> DEFINE m == Min(Positions(s, b))
<1>2. m \in 1 .. Len(s) /\ s[m] = b /\ \A i \in 1 .. Len(s) : i < m => s[i] # b
  BY <1>1, FirstIs
<1> HIDE DEF m
<1>3. m = k
  BY <1>2
<1> QED
  BY <1>1, <1>3 DEF m

----------------------------------------------------------------------------
(* The string in the buffer.                                                *)

\* A part of a string, as memcpy gives it.
LEMMA PartIs ==
  ASSUME NEW s \in Seq(Byte), NEW m \in Nat, NEW n \in Int, 1 <= m, m <= n + 1, n <= Len(s)
  PROVE  /\ SubSeq(s, m, n) \in Seq(Byte) /\ Len(SubSeq(s, m, n)) = n - m + 1
         /\ \A i \in 1 .. n - m + 1 : SubSeq(s, m, n)[i] = s[m + i - 1]
<1>1. \A i \in m .. n : s[i] \in Byte
  <2>1. \A i \in m .. n : i \in 1 .. Len(s)
    OBVIOUS
  <2> QED
    BY <2>1, ElementOfSeq
<1>2. m \in Int /\ (IF m <= n THEN n - m + 1 ELSE 0) = n - m + 1
  OBVIOUS
<1>3. /\ SubSeq(s, m, n) \in Seq(Byte)
      /\ Len(SubSeq(s, m, n)) = IF m <= n THEN n - m + 1 ELSE 0
      /\ \A i \in 1 .. n - m + 1 : SubSeq(s, m, n)[i] = s[m + i - 1]
  BY <1>1, <1>2, SubSeqProperties
<1> QED
  BY <1>2, <1>3, Zenon

\* The four letters and the colon that a name starts with.
LEMMA PrefixIs ==
  ASSUME NEW t \in Seq(Byte)
  PROVE  IsPrefix(Prefix, t) <=> Len(t) > 1 /\ t[1] = "p" /\ t[2] = Colon
<1>1. Prefix \in Seq(Byte) /\ Len(Prefix) = 2 /\ Prefix[1] = "p" /\ Prefix[2] = Colon
  BY DEF Prefix, Byte
<1>2. CASE Len(t) > 1
  <2>1. SubSeq(Prefix, 1, 2) = Prefix
    BY <1>1, SubSeqFull
  <2>2. /\ SubSeq(t, 1, 2) \in Seq(Byte) /\ Len(SubSeq(t, 1, 2)) = 2
        /\ SubSeq(t, 1, 2)[1] = t[1] /\ SubSeq(t, 1, 2)[2] = t[2]
    BY <1>2, SubSeqProperties
  <2>3. Prefix = SubSeq(t, 1, 2) <=> t[1] = "p" /\ t[2] = Colon
    <3>1. ASSUME t[1] = "p", t[2] = Colon PROVE Prefix = SubSeq(t, 1, 2)
      <4>1. \A i \in 1 .. 2 : Prefix[i] = SubSeq(t, 1, 2)[i]
        BY <1>1, <2>2, <3>1
      <4> QED
        BY <1>1, <2>2, <4>1, SeqEqual
    <3> QED
      BY <1>1, <2>2, <3>1
  <2> QED
    BY <1>1, <1>2, <2>1, <2>3 DEF IsPrefix
<1> QED
  BY <1>1, <1>2 DEF IsPrefix

\* First(s) is the place of the first terminator of s.
First(s) == Min(Positions(s, Nul))

\* The string ends at the first terminator; the name begins after "pipe:".
LEMMA NameIs ==
  ASSUME NEW s \in Seq(Byte), Has(s, Nul)
  PROVE  /\ First(s) \in 1 .. Len(s) /\ s[First(s)] = Nul
         /\ \A i \in 1 .. Len(s) : i < First(s) => s[i] # Nul
         /\ CString(s) = SubSeq(s, 1, First(s) - 1)
         /\ WellFormed(s) <=> First(s) > 2 /\ s[1] = "p" /\ s[2] = Colon
         /\ First(s) > 2 => Name(s) = SubSeq(s, 3, First(s) - 1)
<1> DEFINE z == First(s)
<1>1. z \in 1 .. Len(s) /\ s[z] = Nul /\ \A i \in 1 .. Len(s) : i < z => s[i] # Nul
  BY FirstIs DEF First
<1>2. CString(s) = SubSeq(s, 1, z - 1)
  BY DEF CString, Before, First
<1> HIDE DEF z
<1>3. /\ CString(s) \in Seq(Byte) /\ Len(CString(s)) = z - 1
      /\ \A i \in 1 .. z - 1 : CString(s)[i] = s[i]
  BY <1>1, <1>2, SubSeqProperties
<1>4. WellFormed(s) <=> z > 2 /\ s[1] = "p" /\ s[2] = Colon
  BY <1>1, <1>3, PrefixIs DEF WellFormed
<1>5. z > 2 => Name(s) = SubSeq(s, 3, z - 1)
  <2>1. Name(s) = SubSeq(CString(s), 3, z - 1)
    BY <1>3 DEF Name, Prefix
  <2> QED
    BY <1>1, <1>2, <1>3, <2>1
<1> QED
  BY <1>1, <1>2, <1>4, <1>5 DEF z

\* A name with arguments: the name is well formed and has a colon, at SplitAt(s).
Splits(s) == WellFormed(s) /\ Has(Name(s), Colon)
SplitAt(s) == 2 + Min(Positions(Name(s), Colon))

\* Where that colon is in the buffer, and what the split writes over.
LEMMA SplitIs ==
  ASSUME NEW s \in Seq(Byte), Has(s, Nul), Splits(s)
  PROVE  /\ First(s) > 2 /\ SplitAt(s) \in 3 .. First(s) - 1
         /\ s[SplitAt(s)] = Colon /\ \A i \in 3 .. SplitAt(s) - 1 : s[i] # Colon
         /\ SplitInPlace(s) = [s EXCEPT ![SplitAt(s)] = Nul]
<1> DEFINE z == First(s)
           n == Name(s)
           j == Min(Positions(n, Colon))
<1>1. z \in 1 .. Len(s) /\ z > 2 /\ n = SubSeq(s, 3, z - 1) /\ Has(n, Colon)
  BY NameIs DEF Splits
<1>2. SplitInPlace(s) = [s EXCEPT ![2 + j] = Nul]
  BY DEF SplitInPlace, Splits, Prefix
<1> HIDE DEF z, n
<1>3. n \in Seq(Byte) /\ Len(n) = z - 3 /\ \A i \in 1 .. z - 3 : n[i] = s[2 + i]
  BY <1>1, SubSeqProperties
<1>4. j \in 1 .. Len(n) /\ n[j] = Colon /\ \A i \in 1 .. Len(n) : i < j => n[i] # Colon
  <2>1. n \in Seq(Byte) /\ Has(n, Colon)
    BY <1>1, <1>3
  <2> QED
    BY <2>1, FirstIs
<1> HIDE DEF j
<1>5. 2 + j \in 3 .. z - 1 /\ s[2 + j] = Colon
  BY <1>1, <1>3, <1>4
<1>6. ASSUME NEW i \in 3 .. (2 + j) - 1 PROVE s[i] # Colon
  <2>1. i - 2 \in 1 .. z - 3 /\ i - 2 < j /\ 2 + (i - 2) = i
    BY <1>1, <1>3, <1>4
  <2> QED
    BY <1>3, <1>4, <2>1
<1>7. SplitAt(s) = 2 + j
  BY DEF SplitAt, n, j
<1>8. First(s) = z
  BY DEF z
<1> QED
  BY <1>1, <1>2, <1>5, <1>6, <1>7, <1>8

\* Two strings that agree on a range have the same substring there.
LEMMA SubSeqAlike ==
  ASSUME NEW s \in Seq(Byte), NEW t \in Seq(Byte), NEW m \in Nat \ {0}, NEW n \in Int,
         n <= Len(s), n <= Len(t), \A i \in m .. n : t[i] = s[i]
  PROVE  SubSeq(t, m, n) = SubSeq(s, m, n)
<1>1. /\ SubSeq(s, m, n) \in Seq(Byte) /\ Len(SubSeq(s, m, n)) = IF m <= n THEN n - m + 1 ELSE 0
      /\ \A i \in 1 .. n - m + 1 : SubSeq(s, m, n)[i] = s[m + i - 1]
  BY SubSeqProperties
<1>2. /\ SubSeq(t, m, n) \in Seq(Byte) /\ Len(SubSeq(t, m, n)) = IF m <= n THEN n - m + 1 ELSE 0
      /\ \A i \in 1 .. n - m + 1 : SubSeq(t, m, n)[i] = t[m + i - 1]
  BY SubSeqProperties
<1>3. \A i \in 1 .. Len(SubSeq(t, m, n)) : SubSeq(t, m, n)[i] = SubSeq(s, m, n)[i]
  BY <1>1, <1>2
<1> QED
  BY <1>1, <1>2, <1>3, SeqEqual

\* The split ends the string before the first colon of the name: what is left is the
\* name alone.
LEMMA SplitName ==
  ASSUME NEW s \in Seq(Byte), Has(s, Nul), Splits(s)
  PROVE  /\ SplitInPlace(s) \in Seq(Byte) /\ Len(SplitInPlace(s)) = Len(s)
         /\ Has(SplitInPlace(s), Nul)
         /\ Name(SplitInPlace(s)) = SubSeq(s, 3, SplitAt(s) - 1)
         /\ ~Has(SubSeq(s, 3, SplitAt(s) - 1), Colon)
<1> DEFINE u == SplitInPlace(s)
           k == SplitAt(s)
<1>1. /\ First(s) > 2 /\ k \in 3 .. First(s) - 1 /\ s[k] = Colon
      /\ u = [s EXCEPT ![k] = Nul] /\ \A i \in 3 .. k - 1 : s[i] # Colon
  BY SplitIs
<1>2. First(s) \in 1 .. Len(s) /\ \A i \in 1 .. Len(s) : i < First(s) => s[i] # Nul
  BY NameIs
<1> HIDE DEF u, k
<1>3. /\ k \in 1 .. Len(s) /\ u \in Seq(Byte) /\ Len(u) = Len(s) /\ u[k] = Nul
      /\ \A i \in 1 .. Len(s) : i # k => u[i] = s[i]
  <2>1. k \in 1 .. Len(s) /\ Nul \in Byte
    BY <1>1, <1>2 DEF Byte
  <2> QED
    BY <1>1, <2>1, ExceptSeq
<1>4. Has(u, Nul) /\ First(u) = k
  <2>1. \A i \in 1 .. k - 1 : u[i] # Nul
    BY <1>1, <1>2, <1>3
  <2> QED
    BY <1>3, <2>1, FirstUnique DEF First
<1>5. Name(u) = SubSeq(u, 3, k - 1)
  <2>1. First(u) > 2
    BY <1>1, <1>4
  <2> QED
    BY <1>3, <1>4, <2>1, NameIs
<1>6. SubSeq(u, 3, k - 1) = SubSeq(s, 3, k - 1)
  <2>1. k - 1 \in Int /\ k - 1 <= Len(s) /\ \A i \in 3 .. k - 1 : u[i] = s[i]
    BY <1>1, <1>3
  <2> QED
    BY <1>3, <2>1, SubSeqAlike
<1>7. ~Has(SubSeq(s, 3, k - 1), Colon)
  <2>1. /\ SubSeq(s, 3, k - 1) \in Seq(Byte) /\ Len(SubSeq(s, 3, k - 1)) = k - 3
        /\ \A i \in 1 .. k - 3 : SubSeq(s, 3, k - 1)[i] = s[2 + i]
    <3>1. k - 1 \in Int /\ 3 <= (k - 1) + 1 /\ k - 1 <= Len(s) /\ (k - 1) - 3 + 1 = k - 3
      BY <1>1, <1>3
    <3>2. /\ SubSeq(s, 3, k - 1) \in Seq(Byte) /\ Len(SubSeq(s, 3, k - 1)) = (k - 1) - 3 + 1
          /\ \A i \in 1 .. (k - 1) - 3 + 1 : SubSeq(s, 3, k - 1)[i] = s[3 + i - 1]
      <4>1. 3 \in Nat /\ 1 <= 3
        OBVIOUS
      <4> QED
        BY <3>1, <4>1, PartIs
    <3> QED
      BY <3>1, <3>2
  <2>2. \A i \in 1 .. k - 3 : 2 + i \in 3 .. k - 1
    BY <1>1
  <2>3. ASSUME NEW i \in 1 .. k - 3 PROVE SubSeq(s, 3, k - 1)[i] # Colon
    <3>1. SubSeq(s, 3, k - 1)[i] = s[2 + i] /\ 2 + i \in 3 .. k - 1
      BY <2>1, <2>2, Zenon
    <3> QED
      BY <1>1, <3>1
  <2> QED
    BY <2>1, <2>3, Zenon DEF Has, Positions
<1> QED
  BY <1>3, <1>4, <1>5, <1>6, <1>7 DEF u, k

\* After the split, the buffer still has a terminator, a second split does nothing, the
\* name invited is the same, and the arguments are the same or gone.
LEMMA SplitKeepsName ==
  ASSUME NEW s \in Seq(Byte), Has(s, Nul)
  PROVE  /\ SplitInPlace(s) \in Seq(Byte) /\ Len(SplitInPlace(s)) = Len(s)
         /\ Has(SplitInPlace(s), Nul)
         /\ SplitInPlace(SplitInPlace(s)) = SplitInPlace(s)
         /\ Invited(SplitInPlace(s)).name = Invited(s).name
         /\ Invited(SplitInPlace(s)).args \in {Invited(s).args, <<>>}
<1>1. CASE ~Splits(s)
  BY <1>1 DEF Splits, SplitInPlace
<1>2. CASE Splits(s)
  <2> DEFINE u == SplitInPlace(s)
             k == SplitAt(s)
             n == SubSeq(s, 3, k - 1)
  <2>1. u \in Seq(Byte) /\ Len(u) = Len(s) /\ Has(u, Nul) /\ Name(u) = n /\ ~Has(n, Colon)
    BY <1>2, SplitName
  <2>2. SplitInPlace(u) = u
    BY <2>1 DEF SplitInPlace
  <2>3. Invited(u).name = n /\ Invited(u).args = <<>>
    BY <2>1 DEF Invited, Before, After
  <2>4. Invited(s).name = n
    <3> DEFINE m == Name(s)
               j == Min(Positions(m, Colon))
    <3>1. /\ First(s) > 2 /\ k \in 3 .. First(s) - 1 /\ First(s) \in 1 .. Len(s)
          /\ m = SubSeq(s, 3, First(s) - 1) /\ k = 2 + j /\ Has(m, Colon)
      BY <1>2, SplitIs, NameIs DEF SplitAt, Splits
    <3>2. Invited(s).name = SubSeq(m, 1, j - 1)
      BY <3>1 DEF Invited, Before
    <3> HIDE DEF k, j, m
    <3>3. /\ m \in Seq(Byte) /\ Len(m) = First(s) - 3
          /\ \A i \in 1 .. First(s) - 3 : m[i] = s[2 + i]
      <4>1. First(s) \in Nat /\ 3 <= First(s) /\ First(s) - 1 <= Len(s)
        BY <3>1
      <4>2. /\ m \in Seq(Byte) /\ Len(m) = (First(s) - 1) - 3 + 1
            /\ \A i \in 1 .. (First(s) - 1) - 3 + 1 : m[i] = s[3 + i - 1]
        BY <3>1, <4>1, PartIs
      <4>3. ASSUME NEW i \in 1 .. First(s) - 3 PROVE m[i] = s[2 + i]
        <5>1. i \in 1 .. (First(s) - 1) - 3 + 1 /\ 3 + i - 1 = 2 + i
          BY <4>1
        <5> QED
          BY <4>2, <5>1
      <4> QED
        BY <4>1, <4>2, <4>3
    <3>4. j \in 1 .. Len(m) /\ k - 1 = j + 1 /\ j + 1 <= Len(s)
      <4>1. m \in Seq(Byte) /\ Has(m, Colon)
        BY <3>1, <3>3
      <4>2. j \in 1 .. Len(m)
        BY <4>1, FirstIs DEF j
      <4> QED
        BY <3>1, <3>3, <4>2
    <3>5. /\ SubSeq(m, 1, j - 1) \in Seq(Byte) /\ Len(SubSeq(m, 1, j - 1)) = j - 1
          /\ \A i \in 1 .. j - 1 : SubSeq(m, 1, j - 1)[i] = m[i]
      <4>1. j - 1 \in Int /\ 1 <= (j - 1) + 1 /\ j - 1 <= Len(m) /\ (j - 1) - 1 + 1 = j - 1
        BY <3>3, <3>4
      <4>2. /\ SubSeq(m, 1, j - 1) \in Seq(Byte) /\ Len(SubSeq(m, 1, j - 1)) = (j - 1) - 1 + 1
            /\ \A i \in 1 .. (j - 1) - 1 + 1 : SubSeq(m, 1, j - 1)[i] = m[1 + i - 1]
        BY <3>3, <4>1, PartIs
      <4> QED
        BY <4>1, <4>2
    <3>6. /\ SubSeq(s, 3, j + 1) \in Seq(Byte) /\ Len(SubSeq(s, 3, j + 1)) = j - 1
          /\ \A i \in 1 .. j - 1 : SubSeq(s, 3, j + 1)[i] = s[2 + i]
      <4>1. j \in Nat /\ 3 <= (j + 1) + 1 /\ (j + 1) - 3 + 1 = j - 1
        BY <3>3, <3>4
      <4>2. /\ SubSeq(s, 3, j + 1) \in Seq(Byte) /\ Len(SubSeq(s, 3, j + 1)) = (j + 1) - 3 + 1
            /\ \A i \in 1 .. (j + 1) - 3 + 1 : SubSeq(s, 3, j + 1)[i] = s[3 + i - 1]
        BY <3>4, <4>1, PartIs
      <4> QED
        BY <4>1, <4>2
    <3>7. \A i \in 1 .. j - 1 : SubSeq(m, 1, j - 1)[i] = SubSeq(s, 3, j + 1)[i]
      <4>1. \A i \in 1 .. j - 1 : i \in 1 .. First(s) - 3
        BY <3>3, <3>4
      <4> QED
        BY <3>3, <3>5, <3>6, <4>1, Zenon
    <3> QED
      BY <3>2, <3>4, <3>5, <3>6, <3>7, SeqEqual
  <2> HIDE DEF u
  <2> QED
    BY <2>1, <2>2, <2>3, <2>4 DEF u
<1> QED
  BY <1>1, <1>2

\* What comes after the terminator does not matter.
LEMMA SplitThenMore ==
  ASSUME NEW s \in Seq(Byte), NEW r \in Seq(Byte), Has(s, Nul)
  PROVE  Has(s \o r, Nul) /\ SplitInPlace(s \o r) = SplitInPlace(s) \o r
<1> DEFINE t == s \o r
           z == First(s)
<1>1. z \in 1 .. Len(s) /\ s[z] = Nul /\ \A i \in 1 .. Len(s) : i < z => s[i] # Nul
  BY NameIs
<1>2. t \in Seq(Byte) /\ Len(t) = Len(s) + Len(r) /\ \A i \in 1 .. Len(s) : t[i] = s[i]
  BY ConcatProperties
<1> HIDE DEF t, z
<1>3. Has(t, Nul) /\ First(t) = z
  <2>1. z \in 1 .. Len(t) /\ t[z] = Nul /\ \A i \in 1 .. z - 1 : t[i] # Nul
    <3>1. Len(s) \in Nat /\ Len(r) \in Nat
      BY LenProperties
    <3>2. z \in 1 .. Len(t)
      BY <1>1, <1>2, <3>1
    <3>3. t[z] = Nul
      BY <1>1, <1>2, Zenon
    <3>4. ASSUME NEW i \in 1 .. z - 1 PROVE t[i] # Nul
      <4>1. i \in 1 .. Len(s) /\ i < z
        BY <1>1, <3>1
      <4> QED
        BY <1>1, <1>2, <4>1, Zenon
    <3> QED
      BY <3>2, <3>3, <3>4
  <2> QED
    BY <1>2, <2>1, FirstUnique DEF First
<1>4. CString(t) = CString(s)
  <2>1. CString(t) = SubSeq(t, 1, z - 1) /\ CString(s) = SubSeq(s, 1, z - 1)
    BY <1>2, <1>3, NameIs DEF z
  <2>2. z - 1 \in Int /\ z - 1 <= Len(s) /\ z - 1 <= Len(t) /\ \A i \in 1 .. z - 1 : t[i] = s[i]
    BY <1>1, <1>2
  <2> QED
    BY <1>2, <2>1, <2>2, SubSeqAlike
<1>5. Name(t) = Name(s) /\ (WellFormed(t) <=> WellFormed(s))
  BY <1>4 DEF Name, WellFormed
<1>6. CASE ~Splits(s)
  BY <1>3, <1>5, <1>6 DEF Splits, SplitInPlace, t
<1>7. CASE Splits(s)
  <2> DEFINE k == SplitAt(s)
  <2>1. /\ k \in 1 .. Len(s) /\ SplitInPlace(s) = [s EXCEPT ![k] = Nul]
        /\ SplitInPlace(t) = [t EXCEPT ![k] = Nul]
    <3>1. Splits(t) /\ SplitAt(t) = k
      BY <1>5, <1>7 DEF Splits, SplitAt
    <3>2. k \in 3 .. First(s) - 1
      BY <1>7, SplitIs
    <3> HIDE DEF k
    <3>3. k \in 1 .. Len(s)
      BY <1>1, <3>2 DEF z
    <3> QED
      BY <1>2, <1>3, <1>7, <3>1, <3>3, SplitIs DEF k
  <2> HIDE DEF k
  <2>2. [t EXCEPT ![k] = Nul] = [s EXCEPT ![k] = Nul] \o r
    <3> DEFINE x == [s EXCEPT ![k] = Nul]
               y == [t EXCEPT ![k] = Nul]
    <3>1. k \in 1 .. Len(t) /\ Nul \in Byte
      BY <1>2, <2>1 DEF Byte
    <3>2. /\ x \in Seq(Byte) /\ Len(x) = Len(s)
          /\ \A i \in 1 .. Len(s) : x[i] = IF i = k THEN Nul ELSE s[i]
      BY <2>1, <3>1, ExceptSeq
    <3>3. /\ y \in Seq(Byte) /\ Len(y) = Len(t)
          /\ \A i \in 1 .. Len(t) : y[i] = IF i = k THEN Nul ELSE t[i]
      BY <1>2, <3>1, ExceptSeq
    <3> HIDE DEF x, y
    <3>4. /\ x \o r \in Seq(Byte) /\ Len(x \o r) = Len(t)
          /\ \A i \in 1 .. Len(t) : (x \o r)[i] = IF i <= Len(s) THEN x[i] ELSE r[i - Len(s)]
      <4>1. x \in Seq(Byte) /\ Len(x) = Len(s) /\ Len(t) = Len(s) + Len(r)
        BY <1>2, <3>2
      <4>2. /\ x \o r \in Seq(Byte) /\ Len(x \o r) = Len(x) + Len(r)
            /\ \A i \in 1 .. Len(x) + Len(r) :
                  (x \o r)[i] = IF i <= Len(x) THEN x[i] ELSE r[i - Len(x)]
        BY <4>1, ConcatProperties
      <4> QED
        BY <4>1, <4>2
    <3>5. \A i \in 1 .. Len(t) : t[i] = IF i <= Len(s) THEN s[i] ELSE r[i - Len(s)]
      <4>1. /\ Len(s \o r) = Len(s) + Len(r)
            /\ \A i \in 1 .. Len(s) + Len(r) :
                  (s \o r)[i] = IF i <= Len(s) THEN s[i] ELSE r[i - Len(s)]
        BY ConcatProperties
      <4> QED
        BY <4>1 DEF t
    <3>6. \A i \in 1 .. Len(t) : y[i] = (x \o r)[i]
      <4>1. ASSUME NEW i \in 1 .. Len(t), i <= Len(s) PROVE y[i] = (x \o r)[i]
        <5>1. i \in 1 .. Len(s)
          BY <1>2, <4>1
        <5> QED
          BY <3>2, <3>3, <3>4, <3>5, <4>1, <5>1
      <4>2. ASSUME NEW i \in 1 .. Len(t), ~(i <= Len(s)) PROVE y[i] = (x \o r)[i]
        <5>1. i # k
          BY <2>1, <4>2
        <5> QED
          BY <3>3, <3>4, <3>5, <4>2, <5>1, Zenon
      <4> QED
        BY <4>1, <4>2
    <3> QED
      BY <3>3, <3>4, <3>6, SeqEqual DEF x, y
  <2> QED
    BY <1>3, <2>1, <2>2 DEF t
<1> QED
  BY <1>6, <1>7

----------------------------------------------------------------------------
(* The writes.                                                              *)

\* The strings of at most n bytes.
LEMMA StringsAre ==
  ASSUME NEW n \in Nat, NEW s
  PROVE  s \in Strings(n) <=> s \in Seq(Byte) /\ Len(s) <= n
<1>1. ASSUME s \in Strings(n) PROVE s \in Seq(Byte) /\ Len(s) <= n
  <2>1. PICK k \in 0 .. n : s \in [1 .. k -> Byte]
    BY <1>1 DEF Strings
  <2> QED
    BY <2>1
<1>2. ASSUME s \in Seq(Byte), Len(s) <= n PROVE s \in Strings(n)
  <2>1. Len(s) \in 0 .. n /\ s \in [1 .. Len(s) -> Byte]
    BY <1>2
  <2> QED
    BY <2>1 DEF Strings
<1> QED
  BY <1>1, <1>2

\* The bytes copied fit the buffer.
LEMMA RoomFits ==
  ASSUME TypeOK, NEW data \in Writes
  PROVE  /\ buffer \in Seq(Byte) /\ data \in Seq(Byte) /\ Room(data) \in Seq(Byte)
         /\ buffer \o Room(data) \in Strings(Cap) /\ buffer \o Room(data) \in Seq(Byte)
<1>c. Cap \in Nat
  BY ConnectorAssumption
<1>1. buffer \in Seq(Byte) /\ Len(buffer) <= Cap
  BY <1>c, StringsAre DEF TypeOK
<1>2. data \in Seq(Byte)
  <2>1. PICK n \in 1 .. MaxWrite : data \in [1 .. n -> Byte]
    BY DEF Writes
  <2>2. n \in Nat
    BY ConnectorAssumption
  <2> QED
    BY <2>1, <2>2
<1> DEFINE m == Min({Cap - Len(buffer), Len(data)})
<1>3. m \in {Cap - Len(buffer), Len(data)} /\ m <= Cap - Len(buffer) /\ m <= Len(data)
  <2>1. {Cap - Len(buffer), Len(data)} \subseteq Nat
    BY <1>c, <1>1, <1>2
  <2> QED
    BY <2>1, LeastElement
<1>4. Room(data) = SubSeq(data, 1, m)
  BY DEF Room
<1> HIDE DEF m
<1>5. m \in Nat /\ m <= Len(data)
  BY <1>c, <1>1, <1>2, <1>3
<1>6. Room(data) \in Seq(Byte) /\ Len(Room(data)) = m
  BY <1>2, <1>4, <1>5, SubSeqProperties
<1>7. buffer \o Room(data) \in Seq(Byte) /\ Len(buffer \o Room(data)) = Len(buffer) + m
  BY <1>1, <1>6, ConcatProperties
<1>8. Len(buffer \o Room(data)) <= Cap
  BY <1>c, <1>1, <1>3, <1>5, <1>7
<1> QED
  BY <1>c, <1>1, <1>2, <1>6, <1>7, <1>8, StringsAre

\* What the connector looks at is what it has stored, with the name split if a write
\* was refused.
LEMMA LooksAt ==
  ASSUME ConnectorInv, service = None, NEW data \in Writes
  PROVE  LET s == buffer \o Room(data)
             all == stored \o Room(data)
         IN  /\ all \in Seq(Byte)
             /\ refused = 0 => s = all
             /\ refused # 0 => Has(s, Nul) /\ Has(all, Nul) /\ s = SplitInPlace(all)
<1>1. Room(data) \in Seq(Byte) /\ buffer \in Seq(Byte) /\ stored \in Seq(Byte)
  BY RoomFits DEF ConnectorInv
<1>2. stored \o Room(data) \in Seq(Byte)
  BY <1>1, ConcatProperties
<1>3. CASE refused = 0
  BY <1>2, <1>3 DEF ConnectorInv, BufferIsStored
<1>4. CASE refused # 0
  <2>1. Has(stored, Nul) /\ buffer = SplitInPlace(stored)
    BY <1>4 DEF ConnectorInv, BufferIsStored
  <2>2. Has(stored \o Room(data), Nul)
        /\ SplitInPlace(stored \o Room(data)) = buffer \o Room(data)
    BY <1>1, <2>1, SplitThenMore
  <2>3. Has(buffer \o Room(data), Nul)
    BY <1>2, <2>2, SplitKeepsName
  <2> QED
    BY <1>2, <1>4, <2>2, <2>3
<1> QED
  BY <1>3, <1>4

\* A write to the connector keeps the invariant, whatever comes of it.
LEMMA ConnectorWrite ==
  ASSUME ConnectorInv, NEW data \in Writes, Collect(data) \/ Refuse(data) \/ HandOver(data)
  PROVE  ConnectorInv'
<1> DEFINE R == Room(data)
           s == buffer \o R
           all == stored \o R
<1>n. service = None
  BY DEF Collect, Refuse, HandOver
<1>1. /\ all \in Seq(Byte)
      /\ refused = 0 => s = all
      /\ refused # 0 => Has(s, Nul) /\ Has(all, Nul) /\ s = SplitInPlace(all)
  BY <1>n, LooksAt
<1>2. s \in Strings(Cap) /\ s \in Seq(Byte)
  BY RoomFits DEF ConnectorInv
<1>t. refused \in 0 .. MaxRefused /\ MaxRefused \in Nat /\ buffer \in Strings(Cap)
  BY ConnectorAssumption DEF ConnectorInv, TypeOK
<1>k. stored' = all
  BY DEF Collect, Refuse, HandOver
<1> HIDE DEF s, all
<1>3. CASE Collect(data)
  <2>1. ~Has(s, Nul) /\ buffer' = s /\ service' = None /\ refused' = refused
    BY <1>3, <1>n DEF Collect, s
  <2>2. refused = 0 /\ s = all
    BY <1>1, <2>1
  <2>3. written' = all
    <3>1. written = stored /\ written' = written \o R
      BY <1>n, <1>3, <2>2 DEF Collect, Counted, ConnectorInv, BufferIsStored
    <3> QED
      BY <3>1 DEF all
  <2>4. TypeOK'
    BY <1>2, <1>t, <1>k, <2>1 DEF TypeOK
  <2>5. BufferIsStored' /\ ServiceAsInvited'
    BY <1>k, <2>1, <2>2, <2>3 DEF BufferIsStored, ServiceAsInvited
  <2> QED
    BY <1>1, <1>t, <1>k, <2>4, <2>5 DEF ConnectorInv
<1>4. CASE Refuse(data)
  <2>1. /\ Has(s, Nul) /\ buffer' = SplitInPlace(s) /\ service' = None
        /\ refused < MaxRefused /\ refused' = refused + 1
    BY <1>4, <1>n DEF Refuse, s
  <2>2. Has(all, Nul) /\ buffer' = SplitInPlace(all)
    BY <1>1, <2>1, SplitKeepsName
  <2>3. buffer' \in Strings(Cap)
    <3>1. buffer' \in Seq(Byte) /\ Len(buffer') = Len(s)
      BY <1>2, <2>1, SplitKeepsName
    <3>2. Cap \in Nat
      BY ConnectorAssumption
    <3> QED
      BY <1>2, <3>1, <3>2, StringsAre
  <2>4. refused' \in 0 .. MaxRefused /\ refused' # 0
    BY <1>t, <2>1
  <2>5. TypeOK'
    BY <1>t, <1>k, <2>1, <2>3, <2>4 DEF TypeOK
  <2>6. BufferIsStored' /\ ServiceAsInvited'
    BY <1>k, <2>1, <2>2, <2>4 DEF BufferIsStored, ServiceAsInvited
  <2> QED
    BY <1>1, <1>t, <1>k, <2>5, <2>6 DEF ConnectorInv
<1>5. CASE HandOver(data)
  <2>1. /\ Has(s, Nul) /\ Invited(s).name \in Known /\ service' = Invited(s)
        /\ UNCHANGED <<buffer, refused>>
    BY <1>5 DEF HandOver, s
  <2>2. service' # None
    <3>1. ASSUME NEW n, NEW a PROVE [name |-> n, args |-> a] # <<>>
      OBVIOUS
    <3> QED
      BY <2>1, <3>1, Zenon DEF Invited, None
  <2>3. /\ Invited(s).name = Invited(all).name
        /\ Invited(s).args = Invited(all).args \/ (refused > 0 /\ Invited(s).args = <<>>)
    <3>1. CASE refused = 0
      BY <1>1, <3>1
    <3>2. CASE refused # 0
      <4>1. refused > 0
        BY <1>t, <3>2
      <4>2. Invited(s).name = Invited(all).name /\ Invited(s).args \in {Invited(all).args, <<>>}
        BY <1>1, <3>2, SplitKeepsName
      <4> QED
        BY <4>1, <4>2
    <3> QED
      BY <3>1, <3>2
  <2>4. TypeOK'
    BY <1>t, <1>k, <2>1 DEF TypeOK
  <2>5. BufferIsStored' /\ ServiceAsInvited'
    BY <1>k, <2>1, <2>2, <2>3 DEF BufferIsStored, ServiceAsInvited
  <2> QED
    BY <1>1, <1>t, <1>k, <2>4, <2>5 DEF ConnectorInv
<1> QED
  BY <1>3, <1>4, <1>5

----------------------------------------------------------------------------
(* The theorems.                                                            *)

\* What the connector maintains over any split of the guest's writes.
THEOREM ConnectorInvariance == Spec => []ConnectorInv
<1>1. Init => ConnectorInv
  <2> SUFFICES ASSUME Init PROVE ConnectorInv
    OBVIOUS
  <2>1. buffer = <<>> /\ service = None /\ stored = <<>> /\ written = <<>>
        /\ refused = 0
    BY DEF Init
  <2>2. <<>> \in Seq(Byte) /\ Len(<<>>) = 0
    BY EmptySeq
  <2>3. TypeOK
    <3>1. Cap \in Nat /\ MaxRefused \in Nat /\ 0 <= Cap
      <4>1. Cap \in Nat \ {0} /\ MaxRefused \in Nat \ {0}
        BY ConnectorAssumption, Zenon
      <4> QED
        BY <4>1
    <3>2. buffer \in Strings(Cap)
      BY <2>1, <2>2, <3>1, StringsAre
    <3> QED
      BY <2>1, <2>2, <3>1, <3>2 DEF TypeOK
  <2>4. BufferIsStored /\ ServiceAsInvited
    BY <2>1 DEF BufferIsStored, ServiceAsInvited, Has, Positions
  <2> QED
    BY <2>1, <2>2, <2>3, <2>4 DEF ConnectorInv
<1>2. ConnectorInv /\ [Next]_vars => ConnectorInv'
  <2> SUFFICES ASSUME ConnectorInv, [Next]_vars PROVE ConnectorInv'
    OBVIOUS
  <2>1. CASE Next
    BY <2>1, ConnectorWrite DEF Next
  <2>2. CASE UNCHANGED vars
    BY <2>2 DEF vars, ConnectorInv, TypeOK, BufferIsStored, ServiceAsInvited
  <2> QED
    BY <2>1, <2>2
<1> QED
  BY <1>1, <1>2, PTL DEF Spec

\* The copy never overruns pcon->buffer, whatever the guest writes.
THEOREM ConnectorTypes == Spec => []TypeOK
<1>1. ConnectorInv => TypeOK
  BY DEF ConnectorInv
<1> QED
  BY <1>1, ConnectorInvariance, PTL

\* The pipe goes to the service named by all the bytes up to the first terminator; only
\* the arguments can be lost, and only after a refused write.
THEOREM InvitedIsServed == Spec => []ServiceAsInvited
<1>1. ConnectorInv => ServiceAsInvited
  BY DEF ConnectorInv
<1> QED
  BY <1>1, ConnectorInvariance, PTL

\* Until a write is refused, the guest is told of exactly the bytes that were kept.
THEOREM KeptIsAccepted == Spec => []AcceptedIsKept
<1>1. ConnectorInv => AcceptedIsKept
  BY DEF ConnectorInv, BufferIsStored, AcceptedIsKept
<1> QED
  BY <1>1, ConnectorInvariance, PTL
=============================================================================
