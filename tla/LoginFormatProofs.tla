-------------------------- MODULE LoginFormatProofs --------------------------
(***************************************************************************)
(* What module LoginFormat is proved to guarantee for fields of any size   *)
(* and for every name, address and port: a short name is found, an address *)
(* arrives of which no more than zeros are cut off, and a ROUTE is read as *)
(* a whole.                                                                *)
(***************************************************************************)
EXTENDS LoginFormat, SequenceTheorems, WellFoundedInduction, TLAPS

-----------------------------------------------------------------------------
LEMMA Sizes == NameLen \in Nat /\ AddrLen \in Nat /\ PortLen \in Nat
BY SizesAssumption

LEMMA LeastElement ==
  ASSUME NEW S \in SUBSET Nat, S # {}
  PROVE  Min(S) \in S /\ \A n \in S : Min(S) <= n
<1>1. IsWellFoundedOn(OpToRel(<, Nat), Nat)
  BY NatLessThanWellFounded, Zenon
<1>2. PICK m \in S : \A n \in S : ~ (<<n, m>> \in OpToRel(<, Nat))
  BY <1>1, WFMin, Zenon
<1>3. \A n \in S : ~(n < m)
  <2> SUFFICES ASSUME NEW n \in S PROVE ~(n < m)
    OBVIOUS
  <2>1. ~ (<<n, m>> \in {ss \in Nat \X Nat : ss[1] < ss[2]})
    BY <1>2 DEF OpToRel
  <2> QED BY <2>1
<1>4. \E k \in S : \A n \in S : k <= n
  BY <1>3
<1> QED BY <1>4 DEF Min

\* What no other element is below is the minimum.
LEMMA MinIs ==
  ASSUME NEW S \in SUBSET Nat, NEW m \in S, \A n \in S : m <= n
  PROVE  Min(S) = m
<1>1. Min(S) \in S /\ \A n \in S : Min(S) <= n
  BY LeastElement
<1>2. Min(S) \in Nat /\ Min(S) <= m /\ m <= Min(S)
  BY <1>1
<1> QED BY <1>2

-----------------------------------------------------------------------------
(***************************************************************************)
(* Sequences of bytes and the fields that are read from them.              *)
(***************************************************************************)
Bytes(len) == [1 .. len -> Byte]

LEMMA BytesAreSeq ==
  ASSUME NEW len \in Nat, NEW s \in Bytes(len)
  PROVE  s \in Seq(Byte) /\ Len(s) = len
BY DEF Bytes

LEMMA BytesConcat ==
  ASSUME NEW s \in Seq(Byte), NEW t \in Seq(Byte)
  PROVE  s \o t \in Seq(Byte) /\ Len(s \o t) = Len(s) + Len(t)
BY ConcatProperties

LEMMA BytesAssociative ==
  ASSUME NEW s \in Seq(Byte), NEW t \in Seq(Byte), NEW u \in Seq(Byte)
  PROVE  (s \o t) \o u = s \o (t \o u)
BY ConcatAssociative

LEMMA FieldAll ==
  ASSUME NEW s \in Seq(Byte)
  PROVE  Field(s, 0, Len(s)) = s
BY DEF Field

LEMMA FieldLeft ==
  ASSUME NEW s \in Seq(Byte), NEW t \in Seq(Byte), NEW at \in Nat, NEW len \in Nat,
         at + len <= Len(s)
  PROVE  Field(s \o t, at, len) = Field(s, at, len)
<1>1. \A k \in 1 .. len : /\ (at + k <= Len(s \o t)) /\ (at + k <= Len(s))
                          /\ (s \o t)[at + k] = s[at + k]
  OBVIOUS
<1> QED BY <1>1, Zenon DEF Field

LEMMA FieldRight ==
  ASSUME NEW s \in Seq(Byte), NEW t \in Seq(Byte), NEW at \in Nat, NEW len \in Nat
  PROVE  Field(s \o t, Len(s) + at, len) = Field(t, at, len)
<1>1. \A k \in 1 .. len :
        (IF Len(s) + at + k <= Len(s \o t) THEN (s \o t)[Len(s) + at + k] ELSE 0)
        = (IF at + k <= Len(t) THEN t[at + k] ELSE 0)
  <2> SUFFICES ASSUME NEW k \in 1 .. len
               PROVE  (IF Len(s) + at + k <= Len(s \o t) THEN (s \o t)[Len(s) + at + k] ELSE 0)
                      = (IF at + k <= Len(t) THEN t[at + k] ELSE 0)
    OBVIOUS
  <2>1. (Len(s) + at + k <= Len(s \o t)) <=> at + k <= Len(t)
    OBVIOUS
  <2>2. CASE at + k <= Len(t)
    <3>1. (s \o t)[Len(s) + at + k] = t[at + k]
      BY <2>2
    <3> QED BY <2>1, <2>2, <3>1
  <2> QED BY <2>1, <2>2
<1> QED BY <1>1, Zenon DEF Field

LEMMA FieldBytes ==
  ASSUME NEW s \in Seq(Byte), NEW at \in Nat, NEW len \in Nat
  PROVE  Field(s, at, len) \in Bytes(len)
<1>1. \A k \in 1 .. len : (IF at + k <= Len(s) THEN s[at + k] ELSE 0) \in Byte
  <2> SUFFICES ASSUME NEW k \in 1 .. len
               PROVE  (IF at + k <= Len(s) THEN s[at + k] ELSE 0) \in Byte
    OBVIOUS
  <2>1. CASE at + k <= Len(s)
    <3>1. at + k \in 1 .. Len(s)
      BY <2>1
    <3>2. s[at + k] \in Byte
      BY <3>1, ElementOfSeq
    <3> QED BY <2>1, <3>2
  <2>2. CASE ~ (at + k <= Len(s))
    BY <2>2 DEF Byte
  <2> QED BY <2>1, <2>2
<1> QED BY <1>1 DEF Field, Bytes

\* Of a message that has been cut off behind c bytes.
CutField(s, c, at, len) == [k \in 1 .. len |-> IF at + k <= c THEN s[at + k] ELSE 0]

LEMMA FieldCut ==
  ASSUME NEW s \in Seq(Byte), NEW c \in 0 .. Len(s), NEW at \in Nat, NEW len \in Nat
  PROVE  Field(SubSeq(s, 1, c), at, len) = CutField(s, c, at, len)
<1>1. Len(SubSeq(s, 1, c)) = c /\ \A i \in 1 .. c : SubSeq(s, 1, c)[i] = s[i]
  OBVIOUS
<1>2. \A k \in 1 .. len :
        (IF at + k <= Len(SubSeq(s, 1, c)) THEN SubSeq(s, 1, c)[at + k] ELSE 0)
        = (IF at + k <= c THEN s[at + k] ELSE 0)
  <2> SUFFICES ASSUME NEW k \in 1 .. len
               PROVE  (IF at + k <= Len(SubSeq(s, 1, c)) THEN SubSeq(s, 1, c)[at + k] ELSE 0)
                      = (IF at + k <= c THEN s[at + k] ELSE 0)
    OBVIOUS
  <2>1. CASE at + k <= c
    <3>1. at + k \in 1 .. c
      BY <2>1
    <3> QED BY <1>1, <2>1, <3>1
  <2> QED BY <1>1, <2>1
<1> QED BY <1>2, Zenon DEF Field, CutField

-----------------------------------------------------------------------------
(***************************************************************************)
(* Names: how they lie in their fields, and how they are read.             *)
(***************************************************************************)
Padded(name) == name \o Zeros(NameLen - Len(name))

LEMMA NameShape ==
  ASSUME NEW name \in Names
  PROVE  /\ name \in Seq(Byte)
         /\ Len(name) \in 1 .. NameLen
         /\ \A k \in 1 .. Len(name) : name[k] \in Byte /\ name[k] # 0 /\ name[k] # EOT
<1>1. PICK m \in 0 .. NameLen : name \in [1 .. m -> Chars]
  BY Sizes DEF Names, SeqOf
<1>2. name # <<>>
  BY DEF Names
<1>3. Chars \subseteq Byte /\ 0 \notin Chars /\ EOT \notin Chars
  BY BytesAssumption
<1>4. name \in Seq(Byte) /\ Len(name) = m
  BY <1>1, <1>3, Sizes
<1>5. m # 0
  BY <1>1, <1>2, <1>4
<1> QED BY <1>1, <1>3, <1>4, <1>5, Sizes

LEMMA ZerosShape ==
  ASSUME NEW k \in Nat
  PROVE  Zeros(k) \in Seq(Byte) /\ Len(Zeros(k)) = k /\ \A i \in 1 .. k : Zeros(k)[i] = 0
BY DEF Zeros, Byte

LEMMA PaddedShape ==
  ASSUME NEW name \in Names
  PROVE  /\ Padded(name) \in Bytes(NameLen)
         /\ Padded(name) \in Seq(Byte)
         /\ Len(Padded(name)) = NameLen
         /\ \A k \in 1 .. NameLen :
              Padded(name)[k] = IF k <= Len(name) THEN name[k] ELSE 0
<1> DEFINE z == Zeros(NameLen - Len(name))
<1>1. name \in Seq(Byte) /\ Len(name) \in 1 .. NameLen
  BY NameShape
<1>2. NameLen - Len(name) \in Nat
  BY <1>1, Sizes
<1>3. /\ z \in Seq(Byte) /\ Len(z) = NameLen - Len(name)
      /\ \A i \in 1 .. NameLen - Len(name) : z[i] = 0
  BY <1>2, ZerosShape
<1> HIDE DEF z
<1>4. name \o z \in Seq(Byte) /\ Len(name \o z) = NameLen
  BY <1>1, <1>3, Sizes
<1>5. \A k \in 1 .. NameLen : (name \o z)[k] = IF k <= Len(name) THEN name[k] ELSE 0
  <2> SUFFICES ASSUME NEW k \in 1 .. NameLen
               PROVE  (name \o z)[k] = IF k <= Len(name) THEN name[k] ELSE 0
    OBVIOUS
  <2>1. CASE k <= Len(name)
    BY <1>1, <1>3, <2>1, Sizes
  <2>2. CASE ~ (k <= Len(name))
    <3>1. (name \o z)[k] = z[k - Len(name)] /\ k - Len(name) \in 1 .. NameLen - Len(name)
      BY <1>1, <1>3, <2>2, Sizes
    <3> QED BY <1>3, <2>2, <3>1, <1>1, Sizes
  <2> QED BY <2>1, <2>2
<1>6. name \o z \in [1 .. NameLen -> Byte]
  <2>1. name \o z \in [1 .. Len(name \o z) -> Byte]
    BY <1>4, LenProperties
  <2> QED BY <1>4, <2>1
<1>7. Padded(name) = name \o z
  BY DEF Padded, z
<1> QED BY <1>4, <1>5, <1>6, <1>7 DEF Bytes

\* getName skips what is in front of the first byte that is not zero.
LEMMA GetNameFrom ==
  ASSUME NEW field \in Bytes(NameLen), NEW k \in 1 .. NameLen,
         field[k] # 0, \A j \in 1 .. k - 1 : field[j] = 0
  PROVE  GetName(field) = SubSeq(field, k, NameLen) \o Zeros(k - 1)
<1> DEFINE I == {i \in 1 .. Len(field) : field[i] # 0}
           rest == IF I # {} THEN Min(I) ELSE 0
           skip == IF rest = 0 THEN NameLen ELSE rest - 1
<1>1. Len(field) = NameLen
  BY BytesAreSeq, Sizes
<1>2. k \in I
  BY <1>1
<1>3. I \in SUBSET Nat /\ \A n \in I : k <= n
  BY <1>1, Sizes
<1>4. GetName(field) = SubSeq(field, skip + 1, NameLen) \o Zeros(skip)
  BY DEF GetName, SelectInSeq
<1> HIDE DEF I
<1>5. Min(I) = k
  BY <1>2, <1>3, MinIs
<1>6. rest = k
  BY <1>2, <1>5
<1> HIDE DEF rest
<1>7. skip = k - 1 /\ skip + 1 = k
  BY <1>6
<1> HIDE DEF skip
<1> QED BY <1>4, <1>7

\* A name has no zero in front, and getName has nothing to skip.
LEMMA GetNamePadded ==
  ASSUME NEW name \in Names
  PROVE  GetName(Padded(name)) = Padded(name)
<1> DEFINE p == Padded(name)
<1>1. name \in Seq(Byte) /\ Len(name) \in 1 .. NameLen /\ name[1] # 0
  BY NameShape
<1>2. p \in Seq(Byte) /\ Len(p) = NameLen /\ p[1] = name[1] /\ p \in Bytes(NameLen)
  BY <1>1, PaddedShape, Sizes
<1> HIDE DEF p
<1>3. 1 \in 1 .. NameLen /\ 1 .. 1 - 1 = {} /\ 1 - 1 = 0
  BY <1>1, Sizes
<1>4. GetName(p) = SubSeq(p, 1, NameLen) \o Zeros(1 - 1)
  BY <1>1, <1>2, <1>3, GetNameFrom
<1>5. Zeros(0) = <<>>
  BY DEF Zeros
<1>6. SubSeq(p, 1, NameLen) = p
  BY <1>2, Sizes
<1> QED BY <1>2, <1>3, <1>4, <1>5, <1>6 DEF p

LEMMA SetNameShape ==
  ASSUME NEW name \in Names
  PROVE  /\ SetName(name) \in Bytes(NameLen)
         /\ SetName(name) \in Seq(Byte)
         /\ Len(SetName(name)) = NameLen
         /\ \A k \in 1 .. NameLen - Len(name) : SetName(name)[k] = 0
         /\ \A k \in 1 .. Len(name) : SetName(name)[NameLen - Len(name) + k] = name[k]
<1> DEFINE z == Zeros(NameLen - Len(name))
<1>1. name \in Seq(Byte) /\ Len(name) \in 1 .. NameLen
  BY NameShape
<1>2. NameLen - Len(name) \in Nat
  BY <1>1, Sizes
<1>3. /\ z \in Seq(Byte) /\ Len(z) = NameLen - Len(name)
      /\ \A i \in 1 .. NameLen - Len(name) : z[i] = 0
  BY <1>2, ZerosShape
<1> HIDE DEF z
<1>4. z \o name \in Seq(Byte) /\ Len(z \o name) = NameLen
  BY <1>1, <1>3, Sizes
<1>5. \A k \in 1 .. NameLen - Len(name) : (z \o name)[k] = 0
  BY <1>1, <1>3
<1>6. \A k \in 1 .. Len(name) : (z \o name)[NameLen - Len(name) + k] = name[k]
  BY <1>1, <1>2, <1>3, Sizes
<1>7. z \o name \in [1 .. NameLen -> Byte]
  <2>1. z \o name \in [1 .. Len(z \o name) -> Byte]
    BY <1>4, LenProperties
  <2> QED BY <1>4, <2>1
<1>8. SetName(name) = z \o name
  BY DEF SetName, z
<1> QED BY <1>4, <1>5, <1>6, <1>7, <1>8 DEF Bytes

\* What setName puts at the end of a field, getName moves to its beginning.
LEMMA GetNameSet ==
  ASSUME NEW name \in Names
  PROVE  GetName(SetName(name)) = Padded(name)
<1> DEFINE s == SetName(name)
           d == NameLen - Len(name)
<1>1. name \in Seq(Byte) /\ Len(name) \in 1 .. NameLen /\ name[1] # 0
  BY NameShape
<1>2. /\ s \in Bytes(NameLen) /\ s \in Seq(Byte) /\ Len(s) = NameLen
      /\ \A k \in 1 .. d : s[k] = 0
      /\ \A k \in 1 .. Len(name) : s[d + k] = name[k]
  BY SetNameShape
<1> HIDE DEF s
<1>3. d \in Nat /\ d + 1 \in 1 .. NameLen /\ (d + 1) - 1 = d /\ d + Len(name) = NameLen
  BY <1>1, Sizes
<1>4. Padded(name) = name \o Zeros(d)
  BY DEF Padded
<1> HIDE DEF d
<1>5. s[d + 1] # 0
  <2>1. 1 \in 1 .. Len(name)
    BY <1>1, Sizes
  <2>2. s[d + 1] = name[1]
    BY <1>2, <2>1
  <2> QED BY <1>1, <2>2
<1>6. GetName(s) = SubSeq(s, d + 1, NameLen) \o Zeros((d + 1) - 1)
  BY <1>2, <1>3, <1>5, GetNameFrom
<1>7. SubSeq(s, d + 1, NameLen) = name
  <2>1. SubSeq(s, d + 1, NameLen) \in Seq(Byte)
        /\ Len(SubSeq(s, d + 1, NameLen)) = Len(name)
        /\ \A k \in 1 .. Len(name) : SubSeq(s, d + 1, NameLen)[k] = s[d + k]
    BY <1>1, <1>2, <1>3, Sizes
  <2>2. \A k \in 1 .. Len(name) : SubSeq(s, d + 1, NameLen)[k] = name[k]
    BY <1>2, <2>1
  <2> QED BY <1>1, <2>1, <2>2, SeqEqual
<1> QED BY <1>3, <1>4, <1>6, <1>7 DEF s

LEMMA CStringEnds ==
  ASSUME NEW s \in Seq(Byte), NEW k \in 1 .. Len(s),
         s[k] = 0, \A j \in 1 .. k - 1 : s[j] # 0
  PROVE  CString(s) = SubSeq(s, 1, k - 1)
<1> DEFINE zeros == {i \in DOMAIN s : s[i] = 0}
<1>1. DOMAIN s = 1 .. Len(s)
  OBVIOUS
<1>2. k \in zeros
  BY <1>1
<1>3. zeros \in SUBSET Nat /\ \A n \in zeros : k <= n
  BY <1>1
<1>4. CString(s) = IF zeros = {} THEN s ELSE SubSeq(s, 1, Min(zeros) - 1)
  BY DEF CString
<1> HIDE DEF zeros
<1>5. Min(zeros) = k
  BY <1>2, <1>3, MinIs
<1> QED BY <1>2, <1>4, <1>5

LEMMA CStringLong ==
  ASSUME NEW s \in Seq(Byte), NEW n \in 0 .. Len(s), \A j \in 1 .. n : s[j] # 0
  PROVE  Len(CString(s)) >= n
<1> DEFINE zeros == {i \in DOMAIN s : s[i] = 0}
<1>1. DOMAIN s = 1 .. Len(s)
  OBVIOUS
<1>2. zeros \in SUBSET Nat /\ \A i \in zeros : i \in 1 .. Len(s) /\ i > n
  BY <1>1
<1>3. CString(s) = IF zeros = {} THEN s ELSE SubSeq(s, 1, Min(zeros) - 1)
  BY DEF CString
<1> HIDE DEF zeros
<1>4. CASE zeros = {}
  BY <1>3, <1>4
<1>5. CASE zeros # {}
  <2>1. Min(zeros) \in zeros
    BY <1>2, <1>5, LeastElement
  <2>2. Min(zeros) \in 1 .. Len(s) /\ Min(zeros) > n
    BY <1>2, <2>1
  <2>3. Len(SubSeq(s, 1, Min(zeros) - 1)) = Min(zeros) - 1
    BY <2>2
  <2> QED BY <1>3, <1>5, <2>2, <2>3
<1> QED BY <1>4, <1>5

\* A short name is read up to its zero, whatever lies behind its field.
LEMMA ShortNameRead ==
  ASSUME NEW name \in Names, Len(name) < NameLen, NEW rest \in Seq(Byte)
  PROVE  CString(Padded(name) \o rest) = name
<1> DEFINE p == Padded(name)
           k == Len(name) + 1
<1>1. /\ name \in Seq(Byte) /\ Len(name) \in 1 .. NameLen
      /\ \A j \in 1 .. Len(name) : name[j] # 0
  BY NameShape
<1>2. /\ p \in Seq(Byte) /\ Len(p) = NameLen
      /\ \A j \in 1 .. NameLen : p[j] = IF j <= Len(name) THEN name[j] ELSE 0
  BY PaddedShape
<1> HIDE DEF p
<1>3. /\ p \o rest \in Seq(Byte) /\ Len(p \o rest) = NameLen + Len(rest)
      /\ \A j \in 1 .. NameLen : (p \o rest)[j] = p[j]
  BY <1>2, Sizes
<1>4. k \in 1 .. Len(p \o rest) /\ k \in 1 .. NameLen /\ k - 1 = Len(name)
  BY <1>1, <1>3, Sizes
<1>5. (p \o rest)[k] = 0
  BY <1>1, <1>2, <1>3, <1>4
<1>6. \A j \in 1 .. Len(name) : (p \o rest)[j] = name[j] /\ (p \o rest)[j] # 0
  <2> SUFFICES ASSUME NEW j \in 1 .. Len(name)
               PROVE  (p \o rest)[j] = name[j] /\ (p \o rest)[j] # 0
    OBVIOUS
  <2>1. j \in 1 .. NameLen /\ j <= Len(name)
    BY <1>1, Sizes
  <2> QED BY <1>1, <1>2, <1>3, <2>1
<1> HIDE DEF k
<1>7. CString(p \o rest) = SubSeq(p \o rest, 1, k - 1)
  <2>1. \A j \in 1 .. k - 1 : (p \o rest)[j] # 0
    BY <1>4, <1>6
  <2> QED BY <1>3, <1>4, <1>5, <2>1, CStringEnds
<1>8. SubSeq(p \o rest, 1, Len(name)) = name
  <2> DEFINE q == p \o rest
  <2>1. q \in Seq(Byte) /\ Len(name) <= Len(q)
    BY <1>1, <1>3, Sizes
  <2>2. \A j \in 1 .. Len(name) : q[j] = name[j]
    BY <1>6
  <2> HIDE DEF q
  <2>3. /\ SubSeq(q, 1, Len(name)) \in Seq(Byte) /\ Len(SubSeq(q, 1, Len(name))) = Len(name)
        /\ \A j \in 1 .. Len(name) : SubSeq(q, 1, Len(name))[j] = q[j]
    BY <1>1, <2>1, Sizes
  <2>4. \A j \in 1 .. Len(name) : SubSeq(q, 1, Len(name))[j] = name[j]
    BY <2>2, <2>3
  <2>5. SubSeq(q, 1, Len(name)) = name
    BY <1>1, <2>3, <2>4, SeqEqual
  <2> QED BY <2>5 DEF q
<1> QED BY <1>4, <1>7, <1>8 DEF p

\* A name that fills its field is read beyond its end.
LEMMA LongNameRead ==
  ASSUME NEW name \in Names, Len(name) = NameLen, NEW rest \in Seq(Byte)
  PROVE  Len(CString(Padded(name) \o rest)) >= NameLen
<1> DEFINE p == Padded(name)
<1>1. \A j \in 1 .. Len(name) : name[j] # 0
  BY NameShape
<1>2. /\ p \in Seq(Byte) /\ Len(p) = NameLen
      /\ \A j \in 1 .. NameLen : p[j] = IF j <= Len(name) THEN name[j] ELSE 0
  BY PaddedShape
<1> HIDE DEF p
<1>3. /\ p \o rest \in Seq(Byte) /\ Len(p \o rest) = NameLen + Len(rest)
      /\ \A j \in 1 .. NameLen : (p \o rest)[j] = p[j]
  BY <1>2, Sizes
<1>4. \A j \in 1 .. NameLen : (p \o rest)[j] # 0
  BY <1>1, <1>2, <1>3, Sizes
<1>5. NameLen \in 0 .. Len(p \o rest)
  BY <1>3, Sizes
<1> QED BY <1>3, <1>4, <1>5, CStringLong DEF p

\* What lies in an entry of another node is not read as the neighbour's name.
LEMMA NotNeighbour ==
  ASSUME NEW name \in Names, name # Neighbour.name, NEW rest \in Seq(Byte)
  PROVE  CString(Padded(name) \o rest) # Neighbour.name
<1>1. Len(name) \in 1 .. NameLen
  BY NameShape
<1>2. CASE Len(name) < NameLen
  BY <1>2, ShortNameRead
<1>3. CASE Len(name) = NameLen
  BY <1>1, <1>3, LongNameRead, NeighbourAssumption, NameShape, Sizes DEF Nodes
<1> QED BY <1>1, <1>2, <1>3, Sizes

\* The name of a header ends at the latest where its field ends.
LEMMA HeaderNameRead ==
  ASSUME NEW name \in Names
  PROVE  CString(Padded(name)) = name
<1>1. /\ name \in Seq(Byte) /\ Len(name) \in 1 .. NameLen
      /\ \A j \in 1 .. Len(name) : name[j] # 0
  BY NameShape
<1>2. /\ Padded(name) \in Seq(Byte) /\ Len(Padded(name)) = NameLen
      /\ \A j \in 1 .. NameLen : Padded(name)[j] = IF j <= Len(name) THEN name[j] ELSE 0
  BY PaddedShape
<1>3. CASE Len(name) < NameLen
  <2>1. Padded(name) \o <<>> = Padded(name)
    BY <1>2
  <2>2. CString(Padded(name) \o <<>>) = name
    BY <1>3, ShortNameRead, EmptySeq
  <2> QED BY <2>1, <2>2
<1>4. CASE Len(name) = NameLen
  <2>1. Padded(name) = name
    <3>1. \A j \in 1 .. Len(Padded(name)) : Padded(name)[j] = name[j]
      BY <1>2, <1>4, Sizes
    <3> QED BY <1>1, <1>2, <1>4, <3>1, SeqEqual
  <2>2. {k \in DOMAIN name : name[k] = 0} = {}
    BY <1>1
  <2> QED BY <2>1, <2>2 DEF CString
<1> QED BY <1>1, <1>3, <1>4, Sizes

-----------------------------------------------------------------------------
(***************************************************************************)
(* Messages: the header, the LOGIN, and what is left of it on the wire.    *)
(***************************************************************************)
LEMMA NodeShape ==
  ASSUME NEW n \in Nodes
  PROVE  /\ n.name \in Names
         /\ n.addr \in Bytes(AddrLen) /\ n.addr \in Seq(Byte) /\ Len(n.addr) = AddrLen
         /\ n.port \in Bytes(PortLen) /\ n.port \in Seq(Byte) /\ Len(n.port) = PortLen
<1>1. n.name \in Names /\ n.addr \in TupleOf(Octets, AddrLen) /\ n.port \in TupleOf(Octets, PortLen)
  BY DEF Nodes
<1>2. n.addr \in Bytes(AddrLen) /\ n.port \in Bytes(PortLen)
  BY <1>1, BytesAssumption DEF TupleOf, Bytes
<1> QED BY <1>1, <1>2, BytesAreSeq, Sizes

NoEot(s) == \A k \in 1 .. Len(s) : s[k] # EOT

LEMMA NoEotConcat ==
  ASSUME NEW s \in Seq(Byte), NEW t \in Seq(Byte), NoEot(s), NoEot(t)
  PROVE  NoEot(s \o t)
<1> SUFFICES ASSUME NEW k \in 1 .. Len(s \o t) PROVE (s \o t)[k] # EOT
  BY DEF NoEot
<1>1. CASE k <= Len(s)
  <2>1. k \in 1 .. Len(s) /\ (s \o t)[k] = s[k]
    BY <1>1
  <2> QED BY <2>1 DEF NoEot
<1>2. CASE ~ (k <= Len(s))
  <2>1. k - Len(s) \in 1 .. Len(t) /\ (s \o t)[k] = t[k - Len(s)]
    BY <1>2
  <2> QED BY <2>1 DEF NoEot
<1> QED BY <1>1, <1>2

LEMMA NamesHoldNoEot ==
  ASSUME NEW name \in Names
  PROVE  NoEot(Padded(name)) /\ NoEot(SetName(name))
<1>1. /\ name \in Seq(Byte) /\ Len(name) \in 1 .. NameLen
      /\ \A j \in 1 .. Len(name) : name[j] # EOT
  BY NameShape
<1>2. NoEot(name)
  BY <1>1 DEF NoEot
<1>3. NameLen - Len(name) \in Nat
  BY <1>1, Sizes
<1>4. Zeros(NameLen - Len(name)) \in Seq(Byte) /\ NoEot(Zeros(NameLen - Len(name)))
  BY <1>3, ZerosShape DEF NoEot, EOT
<1> QED BY <1>1, <1>2, <1>4, NoEotConcat DEF Padded, SetName

LEMMA HeaderShape ==
  ASSUME NEW type \in Byte, NEW name \in Names
  PROVE  /\ Header(type, name, <<>>) \in Seq(Byte)
         /\ Len(Header(type, name, <<>>)) = HeaderLen
         /\ Field(Header(type, name, <<>>), 2, NameLen) = SetName(name)
         /\ type # EOT => NoEot(Header(type, name, <<>>))
<1> DEFINE h == <<type, 1>>
           s == SetName(name)
           z == SetName(<<>>)
<1>1. h \in Seq(Byte)
  BY DEF Byte
<1>10. Len(h) = 2
  OBVIOUS
<1>2. s \in Seq(Byte) /\ Len(s) = NameLen /\ NoEot(s)
  BY SetNameShape, NamesHoldNoEot
<1>3. z \in Seq(Byte) /\ Len(z) = NameLen /\ NoEot(z)
  <2>1. z = Zeros(NameLen) \o <<>>
    BY Sizes DEF SetName
  <2>2. Zeros(NameLen) \in Seq(Byte) /\ Len(Zeros(NameLen)) = NameLen
    BY ZerosShape, Sizes
  <2>3. z = Zeros(NameLen)
    BY <2>1, <2>2
  <2>4. NoEot(Zeros(NameLen))
    BY ZerosShape, Sizes DEF NoEot, EOT
  <2> QED BY <2>2, <2>3, <2>4
<1>4. type # EOT => NoEot(h)
  BY <1>1, <1>10 DEF NoEot, EOT
<1>5. Header(type, name, <<>>) = (h \o s) \o z
  BY DEF Header
<1> HIDE DEF h, s, z
<1>6. h \o s \in Seq(Byte) /\ Len(h \o s) = 2 + NameLen
  <2>1. h \o s \in Seq(Byte) /\ Len(h \o s) = Len(h) + Len(s)
    BY <1>1, <1>2, ConcatProperties
  <2> QED BY <1>2, <1>10, <2>1
<1>7. (h \o s) \o z \in Seq(Byte) /\ Len((h \o s) \o z) = HeaderLen
  BY <1>3, <1>6, Sizes DEF HeaderLen
<1>8. Field((h \o s) \o z, 2, NameLen) = s
  <2>1. Field((h \o s) \o z, 2, NameLen) = Field(h \o s, 2, NameLen)
    <3>1. 2 \in Nat /\ 2 + NameLen <= Len(h \o s)
      BY <1>6, Sizes
    <3> QED BY <1>3, <1>6, <3>1, FieldLeft, Sizes
  <2>2. Field(h \o s, Len(h) + 0, NameLen) = Field(s, 0, NameLen)
    BY <1>1, <1>2, FieldRight, Sizes
  <2>3. Len(h) + 0 = 2
    BY <1>10
  <2>4. Field(s, 0, NameLen) = s
    BY <1>2, FieldAll
  <2> QED BY <2>1, <2>2, <2>3, <2>4
<1>9. type # EOT => NoEot((h \o s) \o z)
  BY <1>1, <1>2, <1>3, <1>4, <1>6, NoEotConcat
<1> QED BY <1>5, <1>7, <1>8, <1>9 DEF s

LoginMsg(n) ==
  Header(LOGIN, n.name, <<>>) \o Padded(n.name) \o n.addr \o n.port \o <<EOT>>

NamesLen == HeaderLen + NameLen
OctetsLen == AddrLen + PortLen

LEMMA LoginShape ==
  ASSUME NEW n \in Nodes
  PROVE  /\ LoginMsg(n) \in Seq(Byte)
         /\ Len(LoginMsg(n)) = NamesLen + OctetsLen + 1
         /\ LoginMsg(n)[NamesLen + OctetsLen + 1] = EOT
         /\ \A k \in 1 .. NamesLen : LoginMsg(n)[k] # EOT
         /\ \A k \in 1 .. OctetsLen : LoginMsg(n)[NamesLen + k] = (n.addr \o n.port)[k]
         /\ Field(LoginMsg(n), 2, NameLen) = SetName(n.name)
         /\ Field(LoginMsg(n), HeaderLen, NameLen) = Padded(n.name)
<1> DEFINE h == Header(LOGIN, n.name, <<>>)
           p == Padded(n.name)
           o == n.addr \o n.port
           e == <<EOT>>
           oe == o \o e
<1>1. n.name \in Names /\ n.addr \in Seq(Byte) /\ n.port \in Seq(Byte)
      /\ Len(n.addr) = AddrLen /\ Len(n.port) = PortLen
  BY NodeShape
<1>2. /\ h \in Seq(Byte) /\ Len(h) = HeaderLen /\ NoEot(h)
      /\ Field(h, 2, NameLen) = SetName(n.name)
  <2>1. LOGIN \in Byte /\ LOGIN # EOT
    BY DEF LOGIN, EOT, Byte
  <2> QED BY <1>1, <2>1, HeaderShape
<1>3. p \in Seq(Byte) /\ Len(p) = NameLen /\ NoEot(p)
  BY <1>1, PaddedShape, NamesHoldNoEot
<1>4. o \in Seq(Byte) /\ Len(o) = OctetsLen
  BY <1>1, ConcatProperties DEF OctetsLen
<1>5. e \in Seq(Byte)
  BY DEF EOT, Byte
<1>18. Len(e) = 1 /\ e[1] = EOT
  OBVIOUS
<1>6. HeaderLen \in Nat /\ NamesLen \in Nat /\ OctetsLen \in Nat /\ NamesLen = HeaderLen + NameLen
      /\ 2 + NameLen <= HeaderLen
  BY Sizes DEF HeaderLen, NamesLen, OctetsLen
<1> HIDE DEF h, p, e
<1>7. h \o p \in Seq(Byte) /\ Len(h \o p) = NamesLen /\ NoEot(h \o p)
  BY <1>2, <1>3, <1>6, NoEotConcat, Sizes
<1>8. LoginMsg(n) = (h \o p) \o oe
  <2>1. LoginMsg(n) = ((((h \o p) \o n.addr) \o n.port) \o e)
    BY DEF LoginMsg, h, p, e
  <2>2. ((h \o p) \o n.addr) \o n.port = (h \o p) \o o
    <3>1. h \o p \in Seq(Byte) /\ n.addr \in Seq(Byte) /\ n.port \in Seq(Byte)
      BY <1>1, <1>7
    <3> DEFINE u == h \o p
               a == n.addr
               q == n.port
    <3>2. u \in Seq(Byte) /\ a \in Seq(Byte) /\ q \in Seq(Byte)
      BY <3>1
    <3> HIDE DEF u, a, q
    <3>3. (u \o a) \o q = u \o (a \o q)
      BY <3>2, BytesAssociative
    <3> QED BY <3>3 DEF u, a, q
  <2> HIDE DEF o
  <2>3. ((h \o p) \o o) \o e = (h \o p) \o (o \o e)
    <3>1. h \o p \in Seq(Byte) /\ o \in Seq(Byte) /\ e \in Seq(Byte)
      BY <1>4, <1>5, <1>7
    <3> QED BY <3>1, BytesAssociative
  <2> QED BY <2>1, <2>2, <2>3
<1> HIDE DEF o
<1>9. /\ oe \in Seq(Byte) /\ Len(oe) = OctetsLen + 1 /\ oe[OctetsLen + 1] = EOT
      /\ \A k \in 1 .. OctetsLen : oe[k] = o[k]
  <2>1. o \in Seq(Byte) /\ e \in Seq(Byte)
    BY <1>4, <1>5
  <2>2. /\ oe \in Seq(Byte) /\ Len(oe) = Len(o) + Len(e)
        /\ \A k \in 1 .. Len(o) : oe[k] = o[k]
    BY <2>1, ConcatProperties
  <2>3. \A k \in 1 .. Len(e) : oe[Len(o) + k] = e[k]
    BY <2>1, ConcatProperties
  <2> HIDE DEF oe
  <2> QED BY <1>4, <1>6, <1>18, <2>2, <2>3
<1> HIDE DEF oe
<1> DEFINE hp == h \o p
           m == hp \o oe
<1>10. hp \in Seq(Byte) /\ Len(hp) = NamesLen /\ NoEot(hp)
  BY <1>7
<1>11. /\ Field(hp, 2, NameLen) = SetName(n.name)
       /\ Field(hp, HeaderLen, NameLen) = p
  <2>1. Field(h \o p, 2, NameLen) = Field(h, 2, NameLen)
    BY <1>2, <1>3, <1>6, FieldLeft, Sizes
  <2>2. Field(h \o p, Len(h) + 0, NameLen) = Field(p, 0, NameLen)
    BY <1>2, <1>3, FieldRight, Sizes
  <2>3. Field(p, 0, NameLen) = p
    BY <1>3, FieldAll
  <2>4. Len(h) + 0 = HeaderLen
    BY <1>2, <1>6
  <2> QED BY <1>2, <2>1, <2>2, <2>3, <2>4
<1> HIDE DEF hp
<1>12. m \in Seq(Byte) /\ Len(m) = NamesLen + OctetsLen + 1
  BY <1>6, <1>9, <1>10
<1>13. m[NamesLen + OctetsLen + 1] = EOT
  <2>1. m[NamesLen + (OctetsLen + 1)] = oe[OctetsLen + 1]
    BY <1>6, <1>9, <1>10
  <2>2. NamesLen + (OctetsLen + 1) = NamesLen + OctetsLen + 1
    BY <1>6
  <2> QED BY <1>9, <2>1, <2>2
<1>14. \A k \in 1 .. NamesLen : m[k] # EOT
  <2>1. \A k \in 1 .. NamesLen : m[k] = hp[k]
    BY <1>9, <1>10
  <2> QED BY <1>10, <2>1 DEF NoEot
<1>15. \A k \in 1 .. OctetsLen : m[NamesLen + k] = o[k]
  <2>1. \A k \in 1 .. OctetsLen : m[NamesLen + k] = oe[k]
    BY <1>6, <1>9, <1>10
  <2> QED BY <1>9, <2>1
<1>16. /\ Field(m, 2, NameLen) = Field(hp, 2, NameLen)
       /\ Field(m, HeaderLen, NameLen) = Field(hp, HeaderLen, NameLen)
  <2>1. 2 + NameLen <= Len(hp) /\ HeaderLen + NameLen <= Len(hp)
    BY <1>6, <1>10, Sizes
  <2> QED BY <1>6, <1>9, <1>10, <2>1, FieldLeft, Sizes
<1>17. LoginMsg(n) = m
  BY <1>8 DEF hp
<1> QED BY <1>11, <1>12, <1>13, <1>14, <1>15, <1>16, <1>17 DEF o, p

\* A LOGIN arrives up to its first EOT, which lies behind the names.
CutWire(n, w) ==
  \E c \in NamesLen + 1 .. NamesLen + OctetsLen + 1 :
    /\ LoginMsg(n)[c] = EOT
    /\ \A j \in 1 .. c - 1 : LoginMsg(n)[j] # EOT
    /\ w = SubSeq(LoginMsg(n), 1, c)

LEMMA LoginIsCut ==
  ASSUME NEW n \in Nodes
  PROVE  CutWire(n, SendTcp(SubSeq(LoginMsg(n), 1, MsgLen(LoginMsg(n)))))
<1> DEFINE m == LoginMsg(n)
           I == {i \in 1 .. Len(m) : m[i] = EOT}
           c == Min(I)
<1>1. /\ m \in Seq(Byte) /\ Len(m) = NamesLen + OctetsLen + 1
      /\ m[NamesLen + OctetsLen + 1] = EOT
      /\ \A k \in 1 .. NamesLen : m[k] # EOT
  BY LoginShape
<1>2. NamesLen \in Nat /\ OctetsLen \in Nat
  BY Sizes DEF NamesLen, HeaderLen, OctetsLen
<1>3. MsgLen(m) = (IF I # {} THEN Min(I) ELSE 0) - 1
  BY DEF MsgLen, SelectInSeq
<1> HIDE DEF m
<1>4. NamesLen + OctetsLen + 1 \in I
  BY <1>1, <1>2
<1>5. I \in SUBSET Nat
  OBVIOUS
<1>6. \A i \in I : i \in 1 .. Len(m) /\ m[i] = EOT
  OBVIOUS
<1>7. \A i \in 1 .. Len(m) : m[i] = EOT => i \in I
  OBVIOUS
<1> HIDE DEF I
<1>8. c \in I /\ \A i \in I : c <= i
  BY <1>4, <1>5, LeastElement
<1>9. MsgLen(m) = c - 1
  BY <1>3, <1>4
<1> HIDE DEF c
<1>10. c \in 1 .. Len(m) /\ m[c] = EOT
  BY <1>6, <1>8
<1>11. c \in NamesLen + 1 .. NamesLen + OctetsLen + 1
  <2>1. ~ (c \in 1 .. NamesLen)
    BY <1>1, <1>10
  <2> QED BY <1>1, <1>2, <1>10, <2>1
<1>12. \A j \in 1 .. c - 1 : m[j] # EOT
  <2> SUFFICES ASSUME NEW j \in 1 .. c - 1, m[j] = EOT PROVE FALSE
    OBVIOUS
  <2>1. j \in 1 .. Len(m) /\ j < c
    BY <1>1, <1>2, <1>10
  <2> QED BY <1>7, <1>8, <1>10, <2>1
<1>13. SendTcp(SubSeq(m, 1, c - 1)) = SubSeq(m, 1, c)
  <2> DEFINE s == SubSeq(m, 1, c - 1)
             t == SubSeq(m, 1, c)
  <2>1. s \in Seq(Byte) /\ Len(s) = c - 1 /\ \A j \in 1 .. c - 1 : s[j] = m[j]
    BY <1>1, <1>2, <1>10
  <2>2. t \in Seq(Byte) /\ Len(t) = c /\ \A j \in 1 .. c : t[j] = m[j]
    BY <1>1, <1>2, <1>10
  <2>3. EOT \in Byte /\ c \in Nat
    BY <1>10 DEF EOT, Byte
  <2> HIDE DEF s, t
  <2>4. /\ Append(s, EOT) \in Seq(Byte) /\ Len(Append(s, EOT)) = c
        /\ Append(s, EOT)[c] = EOT
        /\ \A j \in 1 .. c - 1 : Append(s, EOT)[j] = s[j]
    BY <2>1, <2>3, AppendProperties
  <2>5. \A j \in 1 .. c : Append(s, EOT)[j] = t[j]
    <3> SUFFICES ASSUME NEW j \in 1 .. c PROVE Append(s, EOT)[j] = t[j]
      OBVIOUS
    <3>1. CASE j = c
      BY <1>10, <2>2, <2>4, <3>1
    <3>2. CASE j \in 1 .. c - 1
      BY <2>1, <2>2, <2>4, <3>2
    <3>3. j = c \/ j \in 1 .. c - 1
      BY <2>3
    <3> QED BY <3>1, <3>2, <3>3
  <2>6. Append(s, EOT) = t
    BY <2>2, <2>4, <2>5, SeqEqual
  <2> QED BY <2>6 DEF s, t, SendTcp
<1> QED BY <1>9, <1>10, <1>11, <1>12, <1>13 DEF CutWire, m

\* Nothing but zeros behind what looks like EOT: CutHarmless of any node.
Harmless(n) ==
  LET octets == n.addr \o n.port
  IN  \A j, k \in DOMAIN octets : j < k /\ octets[j] = EOT => octets[k] = 0

LEMMA HarmlessIs == CutHarmless <=> Harmless(node)
BY DEF CutHarmless, Harmless

Arrived(n, a, p) ==
  /\ a \in Bytes(AddrLen) /\ p \in Bytes(PortLen)
  /\ Harmless(n) => a = n.addr /\ p = n.port

\* What the neighbour reads of a LOGIN.
LEMMA LoginRead ==
  ASSUME NEW n \in Nodes, NEW w, CutWire(n, w)
  PROVE  /\ Len(w) >= HeaderLen
         /\ Field(w, 2, NameLen) = SetName(n.name)
         /\ Field(w, HeaderLen, NameLen) = Padded(n.name)
         /\ Arrived(n, Field(w, HeaderLen + NameLen, AddrLen),
                       Field(w, HeaderLen + NameLen + AddrLen, PortLen))
<1> DEFINE m == LoginMsg(n)
           o == n.addr \o n.port
<1>1. PICK c \in NamesLen + 1 .. NamesLen + OctetsLen + 1 :
             /\ m[c] = EOT
             /\ \A j \in 1 .. c - 1 : m[j] # EOT
             /\ w = SubSeq(m, 1, c)
  BY DEF CutWire
<1>2. /\ m \in Seq(Byte) /\ Len(m) = NamesLen + OctetsLen + 1
      /\ \A k \in 1 .. OctetsLen : m[NamesLen + k] = o[k]
      /\ Field(m, 2, NameLen) = SetName(n.name)
      /\ Field(m, HeaderLen, NameLen) = Padded(n.name)
  BY LoginShape
<1>3. /\ n.addr \in Seq(Byte) /\ n.port \in Seq(Byte)
      /\ Len(n.addr) = AddrLen /\ Len(n.port) = PortLen
      /\ n.addr \in Bytes(AddrLen) /\ n.port \in Bytes(PortLen)
  BY NodeShape
<1>4. /\ o \in Seq(Byte) /\ Len(o) = OctetsLen
      /\ \A k \in 1 .. AddrLen : o[k] = n.addr[k]
      /\ \A k \in 1 .. PortLen : o[AddrLen + k] = n.port[k]
  <2> DEFINE a == n.addr
             q == n.port
  <2>1. a \in Seq(Byte) /\ q \in Seq(Byte) /\ Len(a) = AddrLen /\ Len(q) = PortLen
    BY <1>3
  <2> HIDE DEF a, q
  <2>2. /\ a \o q \in Seq(Byte) /\ Len(a \o q) = AddrLen + PortLen
        /\ \A k \in 1 .. AddrLen : (a \o q)[k] = a[k]
        /\ \A k \in 1 .. PortLen : (a \o q)[AddrLen + k] = q[k]
    BY <2>1, Sizes
  <2> QED BY <2>2 DEF a, q, OctetsLen
<1>5. Harmless(n) <=> \A j, k \in DOMAIN o : j < k /\ o[j] = EOT => o[k] = 0
  BY DEF Harmless
<1> HIDE DEF m, o
<1>6. /\ NamesLen \in Nat /\ OctetsLen \in Nat /\ HeaderLen \in Nat /\ NamesLen = HeaderLen + NameLen
      /\ OctetsLen = AddrLen + PortLen /\ 2 + NameLen <= NamesLen
  BY Sizes DEF NamesLen, HeaderLen, OctetsLen
<1>7. w \in Seq(Byte) /\ Len(w) = c /\ c \in 0 .. Len(m)
  BY <1>1, <1>2, <1>6
<1>8. \A at, len \in Nat : Field(w, at, len) = [k \in 1 .. len |-> IF at + k <= c THEN m[at + k] ELSE 0]
  <2> SUFFICES ASSUME NEW at \in Nat, NEW len \in Nat
               PROVE  Field(w, at, len) = [k \in 1 .. len |-> IF at + k <= c THEN m[at + k] ELSE 0]
    OBVIOUS
  <2>1. Field(SubSeq(m, 1, c), at, len) = CutField(m, c, at, len)
    BY <1>2, <1>7, FieldCut
  <2> QED BY <1>1, <2>1 DEF CutField
<1>9. \A at, len \in Nat : at + len <= NamesLen => Field(w, at, len) = Field(m, at, len)
  <2> SUFFICES ASSUME NEW at \in Nat, NEW len \in Nat, at + len <= NamesLen
               PROVE  Field(w, at, len) = Field(m, at, len)
    OBVIOUS
  <2>1. \A k \in 1 .. len : at + k <= c /\ at + k <= Len(m)
    <3> SUFFICES ASSUME NEW k \in 1 .. len PROVE at + k <= c /\ at + k <= Len(m)
      OBVIOUS
    <3>1. c > NamesLen /\ Len(m) > NamesLen /\ c \in Nat
      BY <1>1, <1>2, <1>6
    <3> QED BY <1>2, <1>6, <3>1
  <2>2. Field(w, at, len) = [k \in 1 .. len |-> m[at + k]]
    <3>1. Field(w, at, len) = [k \in 1 .. len |-> IF at + k <= c THEN m[at + k] ELSE 0]
      BY <1>8
    <3> QED BY <2>1, <3>1
  <2>3. Field(m, at, len) = [k \in 1 .. len |-> m[at + k]]
    BY <2>1 DEF Field
  <2> QED BY <2>2, <2>3
<1>10. Field(w, 2, NameLen) = SetName(n.name)
  BY <1>2, <1>6, <1>9, Sizes
<1>11. Field(w, HeaderLen, NameLen) = Padded(n.name)
  BY <1>2, <1>6, <1>9, Sizes
<1>12. Harmless(n) => \A k \in 1 .. OctetsLen : NamesLen + k > c => o[k] = 0
  <2> SUFFICES ASSUME Harmless(n), NEW k \in 1 .. OctetsLen, NamesLen + k > c
               PROVE  o[k] = 0
    OBVIOUS
  <2>1. c - NamesLen \in 1 .. OctetsLen /\ c - NamesLen < k /\ NamesLen + (c - NamesLen) = c
    <3>1. c \in NamesLen + 1 .. NamesLen + OctetsLen + 1 /\ NamesLen \in Nat /\ OctetsLen \in Nat
      BY <1>6
    <3> QED BY <3>1
  <2>2. o[c - NamesLen] = EOT
    BY <1>1, <1>2, <2>1
  <2>3. DOMAIN o = 1 .. OctetsLen
    BY <1>4
  <2> QED BY <1>5, <2>1, <2>2, <2>3
<1>13. Harmless(n) => Field(w, NamesLen, AddrLen) = n.addr
  <2> SUFFICES ASSUME Harmless(n)
               PROVE  Field(w, NamesLen, AddrLen) = n.addr
    OBVIOUS
  <2>1. \A k \in 1 .. AddrLen : (IF NamesLen + k <= c THEN m[NamesLen + k] ELSE 0) = n.addr[k]
    <3> SUFFICES ASSUME NEW k \in 1 .. AddrLen
                 PROVE  (IF NamesLen + k <= c THEN m[NamesLen + k] ELSE 0) = n.addr[k]
      OBVIOUS
    <3>1. k \in 1 .. OctetsLen /\ o[k] = n.addr[k] /\ m[NamesLen + k] = o[k]
      BY <1>2, <1>4, <1>6, Sizes
    <3>2. ~ (NamesLen + k <= c) => o[k] = 0
      <4>1. NamesLen + k > c => o[k] = 0
        BY <1>12, <3>1
      <4>2. ~ (NamesLen + k <= c) => NamesLen + k > c
        BY <1>1, <1>6, <3>1
      <4> QED BY <4>1, <4>2
    <3> QED BY <3>1, <3>2
  <2>2. Field(w, NamesLen, AddrLen)
        = [k \in 1 .. AddrLen |-> IF NamesLen + k <= c THEN m[NamesLen + k] ELSE 0]
    BY <1>6, <1>8, Sizes
  <2>3. Field(w, NamesLen, AddrLen) = [k \in 1 .. AddrLen |-> n.addr[k]]
    BY <2>1, <2>2
  <2> QED BY <1>3, <2>3 DEF Bytes
<1>14. Harmless(n) => Field(w, NamesLen + AddrLen, PortLen) = n.port
  <2> SUFFICES ASSUME Harmless(n)
               PROVE  Field(w, NamesLen + AddrLen, PortLen) = n.port
    OBVIOUS
  <2>1. \A k \in 1 .. PortLen :
          (IF NamesLen + AddrLen + k <= c THEN m[NamesLen + AddrLen + k] ELSE 0) = n.port[k]
    <3> SUFFICES ASSUME NEW k \in 1 .. PortLen
                 PROVE  (IF NamesLen + AddrLen + k <= c THEN m[NamesLen + AddrLen + k] ELSE 0)
                        = n.port[k]
      OBVIOUS
    <3>1. /\ AddrLen + k \in 1 .. OctetsLen /\ o[AddrLen + k] = n.port[k]
          /\ NamesLen + AddrLen + k = NamesLen + (AddrLen + k)
      BY <1>4, <1>6, Sizes
    <3>2. m[NamesLen + (AddrLen + k)] = o[AddrLen + k]
      BY <1>2, <3>1
    <3>3. ~ (NamesLen + (AddrLen + k) <= c) => o[AddrLen + k] = 0
      <4> DEFINE i == AddrLen + k
      <4>1. i \in 1 .. OctetsLen
        BY <3>1
      <4> HIDE DEF i
      <4>2. NamesLen + i > c => o[i] = 0
        BY <4>1, <1>12
      <4>3. ~ (NamesLen + i <= c) => NamesLen + i > c
        BY <1>1, <1>6, <4>1
      <4> QED BY <4>2, <4>3 DEF i
    <3> QED BY <3>1, <3>2, <3>3
  <2>2. Field(w, NamesLen + AddrLen, PortLen)
        = [k \in 1 .. PortLen |-> IF NamesLen + AddrLen + k <= c THEN m[NamesLen + AddrLen + k] ELSE 0]
    <3>1. NamesLen + AddrLen \in Nat
      BY <1>6, Sizes
    <3> QED BY <1>8, <3>1, Sizes
  <2>3. Field(w, NamesLen + AddrLen, PortLen) = [k \in 1 .. PortLen |-> n.port[k]]
    BY <2>1, <2>2
  <2> QED BY <1>3, <2>3 DEF Bytes
<1>15. /\ Field(w, NamesLen, AddrLen) \in Bytes(AddrLen)
       /\ Field(w, NamesLen + AddrLen, PortLen) \in Bytes(PortLen)
  BY <1>6, <1>7, FieldBytes, Sizes
<1>16. Len(w) >= HeaderLen
  BY <1>1, <1>6, <1>7, Sizes
<1> QED BY <1>6, <1>10, <1>11, <1>13, <1>14, <1>15, <1>16 DEF Arrived

-----------------------------------------------------------------------------
(***************************************************************************)
(* Entries: what is found under which name, and what is added.             *)
(***************************************************************************)
LoginEntry(n, a, p) == Entry(Padded(n.name), a, p, Padded(n.name), a, p)

\* The neighbour's table when n has logged in.
BothEntries(n, a, p) == <<OwnEntry(Neighbour), LoginEntry(n, a, p)>>

LEMMA OwnEntryIs ==
  ASSUME NEW n
  PROVE  OwnEntry(n) = LoginEntry(n, n.addr, n.port)
BY DEF OwnEntry, LoginEntry, Padded

LEMMA NeighbourIsNode ==
  /\ Neighbour \in Nodes
  /\ Neighbour.name \in Names
  /\ Len(Neighbour.name) < NameLen
BY NeighbourAssumption, NodeShape

LEMMA ReverseShape ==
  ASSUME NEW s \in Seq(Byte)
  PROVE  Reverse(s) \in Seq(Byte)
<1>1. \A i \in 1 .. Len(s) : s[(Len(s) - i) + 1] \in Byte
  <2> SUFFICES ASSUME NEW i \in 1 .. Len(s) PROVE s[(Len(s) - i) + 1] \in Byte
    OBVIOUS
  <2>1. (Len(s) - i) + 1 \in 1 .. Len(s)
    OBVIOUS
  <2> QED BY <2>1, ElementOfSeq
<1>2. Len(s) \in Nat
  OBVIOUS
<1> QED BY <1>1, <1>2 DEF Reverse

\* A short name is found in an entry whatever else the entry holds.
LEMMA NameInIs ==
  ASSUME NEW name \in Names, Len(name) < NameLen,
         NEW a \in Bytes(AddrLen), NEW p \in Bytes(PortLen),
         NEW nn \in Seq(Byte), NEW na, NEW np
  PROVE  NameIn(Entry(Padded(name), a, p, nn, na, np)) = name
<1> DEFINE c == Padded(name)
           ra == Reverse(a)
           rp == Reverse(p)
<1>1. c \in Seq(Byte) /\ ra \in Seq(Byte) /\ rp \in Seq(Byte)
  BY PaddedShape, BytesAreSeq, ReverseShape, Sizes
<1>2. NameIn(Entry(Padded(name), a, p, nn, na, np)) = CString(((c \o ra) \o rp) \o nn)
  BY DEF NameIn, Entry
<1> HIDE DEF ra, rp, c
<1>3. ((c \o ra) \o rp) \o nn = c \o ((ra \o rp) \o nn)
  <2>1. (c \o ra) \o rp = c \o (ra \o rp)
    BY <1>1, BytesAssociative
  <2> DEFINE r == ra \o rp
  <2>2. r \in Seq(Byte)
    BY <1>1
  <2> HIDE DEF r
  <2>3. (c \o r) \o nn = c \o (r \o nn)
    <3>1. c \in Seq(Byte) /\ r \in Seq(Byte) /\ nn \in Seq(Byte)
      BY <1>1, <2>2
    <3> QED BY <3>1, BytesAssociative
  <2> QED BY <2>1, <2>3 DEF r
<1>4. (ra \o rp) \o nn \in Seq(Byte)
  BY <1>1
<1> QED BY <1>2, <1>3, <1>4, ShortNameRead DEF c

Renamed(e) == [e EXCEPT !.chatName = GetName(@), !.nextChatName = GetName(@)]

LEMMA EntryRenamed ==
  ASSUME NEW c, NEW a, NEW p, NEW nn, NEW na, NEW np
  PROVE  Renamed(Entry(c, a, p, nn, na, np)) = Entry(GetName(c), a, p, GetName(nn), na, np)
<1> DEFINE e == Entry(c, a, p, nn, na, np)
           g == GetName(c)
           h == GetName(nn)
<1>1. e.chatName = c /\ e.nextChatName = nn
  BY DEF Entry
<1>2. [e EXCEPT !.chatName = g] = Entry(g, a, p, nn, na, np)
  BY DEF Entry
<1>3. [Entry(g, a, p, nn, na, np) EXCEPT !.nextChatName = h] = Entry(g, a, p, h, na, np)
  BY DEF Entry
<1> HIDE DEF e
<1>4. [e EXCEPT !.chatName = GetName(@), !.nextChatName = GetName(@)]
      = [e EXCEPT !.chatName = g, !.nextChatName = h]
  BY <1>1
<1> HIDE DEF g, h
<1>5. [e EXCEPT !.chatName = g, !.nextChatName = h]
      = [[e EXCEPT !.chatName = g] EXCEPT !.nextChatName = h]
  OBVIOUS
<1>6. Renamed(e) = [e EXCEPT !.chatName = GetName(@), !.nextChatName = GetName(@)]
  BY DEF Renamed
<1> QED BY <1>2, <1>3, <1>4, <1>5, <1>6 DEF e, g, h

LEMMA AppendSecond ==
  ASSUME NEW first, NEW e
  PROVE  Append(<<first>>, e) = <<first, e>>
<1> DEFINE S == {first, e}
           s == <<first>>
           t == <<first, e>>
           k == 1
<1>1. s \in Seq(S) /\ e \in S /\ t \in Seq(S)
  OBVIOUS
<1>2. Len(s) = k /\ Len(t) = k + 1 /\ s[k] = first /\ t[k] = first /\ t[k + 1] = e
  OBVIOUS
<1>5. 1 .. k = {k} /\ 1 .. k + 1 = {k, k + 1}
  OBVIOUS
<1> HIDE DEF S, s, t, k
<1>3. /\ Append(s, e) \in Seq(S) /\ Len(Append(s, e)) = Len(s) + 1
      /\ \A i \in 1 .. Len(s) : Append(s, e)[i] = s[i]
      /\ Append(s, e)[Len(s) + 1] = e
  BY <1>1, AppendProperties
<1>4. \A i \in 1 .. k + 1 : Append(s, e)[i] = t[i]
  BY <1>2, <1>3, <1>5
<1>6. Append(s, e) = t
  BY <1>1, <1>2, <1>3, <1>4, SeqEqual
<1> QED BY <1>6 DEF s, t

\* tableUpdate adds the entry of another node to one that holds the neighbour.
LEMMA PutOther ==
  ASSUME NEW n \in Nodes, n.name # Neighbour.name, NEW a, NEW p,
         NEW nn \in Names, NEW na, NEW np,
         NEW first, NameIn(first) = Neighbour.name
  PROVE  PutEntry(<<first>>, Entry(Padded(n.name), a, p, Padded(nn), na, np))
         = <<first, Entry(Padded(n.name), a, p, Padded(nn), na, np)>>
<1> DEFINE e == Entry(Padded(n.name), a, p, Padded(nn), na, np)
           new == Renamed(e)
<1>1. n.name \in Names
  BY NodeShape
<1>2. new = e
  <2>1. GetName(Padded(n.name)) = Padded(n.name) /\ GetName(Padded(nn)) = Padded(nn)
    BY <1>1, GetNamePadded
  <2>2. new = Entry(GetName(Padded(n.name)), a, p, GetName(Padded(nn)), na, np)
    BY EntryRenamed
  <2> QED BY <2>1, <2>2
<1>3. e.chatName = Padded(n.name) /\ e.nextChatName = Padded(nn)
  BY DEF Entry
<1>4. CString(e.chatName \o e.nextChatName) # Neighbour.name
  BY <1>1, <1>3, NotNeighbour, PaddedShape
<1>5. ~ Found(<<first>>, CString(e.chatName \o e.nextChatName))
  <2>1. \A k \in DOMAIN <<first>> : <<first>>[k] = first
    OBVIOUS
  <2> QED BY <1>4, <2>1 DEF Found
<1>6. PutEntry(<<first>>, e) = IF Found(<<first>>, CString(new.chatName \o new.nextChatName))
                               THEN <<first>> ELSE Append(<<first>>, new)
  BY DEF PutEntry, Renamed
<1> HIDE DEF new
<1>7. PutEntry(<<first>>, e) = Append(<<first>>, e)
  BY <1>2, <1>5, <1>6
<1> HIDE DEF e
<1>8. Append(<<first>>, e) = <<first, e>>
  BY AppendSecond
<1> QED BY <1>7, <1>8 DEF e

\* An empty table takes every entry.
LEMMA PutFirst ==
  ASSUME NEW cn \in Names, NEW a, NEW p, NEW nn \in Names, NEW na, NEW np
  PROVE  PutEntry(<<>>, Entry(Padded(cn), a, p, Padded(nn), na, np))
         = <<Entry(Padded(cn), a, p, Padded(nn), na, np)>>
<1> DEFINE e == Entry(Padded(cn), a, p, Padded(nn), na, np)
           new == Renamed(e)
<1>1. new = e
  <2>1. GetName(Padded(cn)) = Padded(cn) /\ GetName(Padded(nn)) = Padded(nn)
    BY GetNamePadded
  <2>2. new = Entry(GetName(Padded(cn)), a, p, GetName(Padded(nn)), na, np)
    BY EntryRenamed
  <2> QED BY <2>1, <2>2
<1>2. PutEntry(<<>>, e) = IF Found(<<>>, CString(new.chatName \o new.nextChatName))
                          THEN <<>> ELSE Append(<<>>, new)
  BY DEF PutEntry, Renamed
<1> HIDE DEF new
<1>3. ~ Found(<<>>, CString(new.chatName \o new.nextChatName))
  BY DEF Found
<1> HIDE DEF e
<1>4. PutEntry(<<>>, e) = Append(<<>>, e)
  BY <1>1, <1>2, <1>3
<1>5. Append(<<>>, e) = <<e>>
  OBVIOUS
<1> QED BY <1>4, <1>5 DEF e

LEMMA OwnEntryFound ==
  ASSUME NEW nn \in Seq(Byte), NEW na, NEW np
  PROVE  NameIn(Entry(Padded(Neighbour.name), Neighbour.addr, Neighbour.port, nn, na, np))
         = Neighbour.name
BY NeighbourIsNode, NodeShape, NameInIs

LEMMA LoginEntered ==
  ASSUME NEW n \in Nodes, n.name # Neighbour.name, NEW a, NEW p
  PROVE  PutEntry(<<OwnEntry(Neighbour)>>, LoginEntry(n, a, p)) = BothEntries(n, a, p)
<1>1. NameIn(OwnEntry(Neighbour)) = Neighbour.name
  BY OwnEntryIs, OwnEntryFound, NeighbourIsNode, PaddedShape DEF LoginEntry
<1>2. n.name \in Names
  BY NodeShape
<1> QED BY <1>1, <1>2, PutOther DEF LoginEntry, BothEntries

-----------------------------------------------------------------------------
(***************************************************************************)
(* The ROUTE: the rows of a table, and the entries read from them.         *)
(***************************************************************************)
LEMMA FieldInside ==
  ASSUME NEW x \in Seq(Byte), NEW y \in Seq(Byte), NEW z \in Seq(Byte),
         NEW at \in Nat, NEW len \in Nat, at + len <= Len(y)
  PROVE  Field((x \o y) \o z, Len(x) + at, len) = Field(y, at, len)
<1>1. x \o y \in Seq(Byte) /\ Len(x \o y) = Len(x) + Len(y)
  OBVIOUS
<1>2. (Len(x) + at) + len <= Len(x \o y) /\ Len(x) + at \in Nat
  BY <1>1
<1>3. Field((x \o y) \o z, Len(x) + at, len) = Field(x \o y, Len(x) + at, len)
  BY <1>1, <1>2, FieldLeft
<1>4. Field(x \o y, Len(x) + at, len) = Field(y, at, len)
  BY FieldRight
<1> QED BY <1>3, <1>4

HalfLen == NameLen + AddrLen + PortLen
Half(c, a, p) == (c \o a) \o p

LEMMA HalfShape ==
  ASSUME NEW c \in Bytes(NameLen), NEW a \in Bytes(AddrLen), NEW p \in Bytes(PortLen)
  PROVE  /\ Half(c, a, p) \in Seq(Byte)
         /\ Len(Half(c, a, p)) = HalfLen
         /\ Field(Half(c, a, p), 0, NameLen) = c
         /\ Field(Half(c, a, p), NameLen, AddrLen) = a
         /\ Field(Half(c, a, p), NameLen + AddrLen, PortLen) = p
<1>1. /\ c \in Seq(Byte) /\ Len(c) = NameLen
      /\ a \in Seq(Byte) /\ Len(a) = AddrLen
      /\ p \in Seq(Byte) /\ Len(p) = PortLen
  BY BytesAreSeq, Sizes
<1>2. c \o a \in Seq(Byte) /\ Len(c \o a) = NameLen + AddrLen
  <2>1. c \o a \in Seq(Byte) /\ Len(c \o a) = Len(c) + Len(a)
    BY <1>1, BytesConcat
  <2> QED BY <1>1, <2>1
<1>3. (c \o a) \o p \in Seq(Byte) /\ Len((c \o a) \o p) = HalfLen
  <2> DEFINE x == c \o a
  <2>1. x \in Seq(Byte) /\ Len(x) = NameLen + AddrLen
    BY <1>2
  <2> HIDE DEF x
  <2>2. x \o p \in Seq(Byte) /\ Len(x \o p) = Len(x) + Len(p)
    BY <1>1, <2>1, BytesConcat
  <2> QED BY <1>1, <2>1, <2>2 DEF x, HalfLen
<1>4. Field((c \o a) \o p, 0, NameLen) = c
  <2>1. Field((c \o a) \o p, 0, NameLen) = Field(c \o a, 0, NameLen)
    <3> DEFINE x == c \o a
    <3>1. x \in Seq(Byte) /\ 0 + NameLen <= Len(x)
      BY <1>2, Sizes
    <3> HIDE DEF x
    <3>2. Field(x \o p, 0, NameLen) = Field(x, 0, NameLen)
      BY <1>1, <3>1, FieldLeft, Sizes
    <3> QED BY <3>2 DEF x
  <2>2. Field(c \o a, 0, NameLen) = Field(c, 0, NameLen)
    BY <1>1, FieldLeft, Sizes
  <2> QED BY <1>1, <2>1, <2>2, FieldAll
<1>5. Field((c \o a) \o p, NameLen, AddrLen) = a
  <2>1. Field((c \o a) \o p, Len(c) + 0, AddrLen) = Field(a, 0, AddrLen)
    BY <1>1, FieldInside, Sizes
  <2>2. Len(c) + 0 = NameLen
    BY <1>1, Sizes
  <2> QED BY <1>1, <2>1, <2>2, FieldAll
<1>6. Field((c \o a) \o p, NameLen + AddrLen, PortLen) = p
  <2>1. Field((c \o a) \o p, Len(c \o a) + 0, PortLen) = Field(p, 0, PortLen)
    <3> DEFINE x == c \o a
    <3>1. x \in Seq(Byte)
      BY <1>2
    <3> HIDE DEF x
    <3>2. Field(x \o p, Len(x) + 0, PortLen) = Field(p, 0, PortLen)
      BY <1>1, <3>1, FieldRight, Sizes
    <3> QED BY <3>2 DEF x
  <2>2. Len(c \o a) + 0 = NameLen + AddrLen
    BY <1>2, Sizes
  <2> QED BY <1>1, <2>1, <2>2, FieldAll
<1> QED BY <1>3, <1>4, <1>5, <1>6 DEF Half

\* Whose fields have their lengths: IsEntry with sequences for functions.
Entries == [chatName : Bytes(NameLen), addr : Bytes(AddrLen), port : Bytes(PortLen),
            nextChatName : Bytes(NameLen), nextAddr : Bytes(AddrLen), nextPort : Bytes(PortLen)]

OwnHalf(e) == Half(e.chatName, e.addr, e.port)
NextHalf(e) == Half(e.nextChatName, e.nextAddr, e.nextPort)

LEMMA RowHalves ==
  ASSUME NEW e \in Entries, NEW f \in Entries
  PROVE  Row(e, f) = OwnHalf(e) \o NextHalf(f)
<1> DEFINE h == Half(e.chatName, e.addr, e.port)
           c == f.nextChatName
           a == f.nextAddr
           p == f.nextPort
<1>1. h \in Seq(Byte) /\ c \in Seq(Byte) /\ a \in Seq(Byte) /\ p \in Seq(Byte)
  <2>1. /\ e.chatName \in Bytes(NameLen) /\ e.addr \in Bytes(AddrLen) /\ e.port \in Bytes(PortLen)
        /\ c \in Bytes(NameLen) /\ a \in Bytes(AddrLen) /\ p \in Bytes(PortLen)
    BY DEF Entries
  <2> QED BY <2>1, HalfShape, BytesAreSeq, Sizes
<1>2. Row(e, f) = ((h \o c) \o a) \o p
  BY DEF Row, Half
<1>3. OwnHalf(e) \o NextHalf(f) = h \o ((c \o a) \o p)
  BY DEF OwnHalf, NextHalf, Half
<1> HIDE DEF h, c, a, p
<1>4. (h \o c) \o a = h \o (c \o a)
  BY <1>1, BytesAssociative
<1> DEFINE x == c \o a
<1>5. x \in Seq(Byte)
  BY <1>1
<1> HIDE DEF x
<1>6. (h \o x) \o p = h \o (x \o p)
  <2>1. h \in Seq(Byte) /\ x \in Seq(Byte) /\ p \in Seq(Byte)
    BY <1>1, <1>5
  <2> QED BY <2>1, BytesAssociative
<1> QED BY <1>2, <1>3, <1>4, <1>6 DEF x

LEMMA RowShape ==
  ASSUME NEW e \in Entries, NEW f \in Entries
  PROVE  /\ Row(e, f) \in Seq(Byte)
         /\ Len(Row(e, f)) = EntryLen
<1>1. /\ e.chatName \in Bytes(NameLen) /\ e.addr \in Bytes(AddrLen) /\ e.port \in Bytes(PortLen)
      /\ f.nextChatName \in Bytes(NameLen) /\ f.nextAddr \in Bytes(AddrLen)
      /\ f.nextPort \in Bytes(PortLen)
  BY DEF Entries
<1>2. /\ OwnHalf(e) \in Seq(Byte) /\ Len(OwnHalf(e)) = HalfLen
      /\ NextHalf(f) \in Seq(Byte) /\ Len(NextHalf(f)) = HalfLen
  BY <1>1, HalfShape DEF OwnHalf, NextHalf
<1>3. OwnHalf(e) \o NextHalf(f) \in Seq(Byte) /\ Len(OwnHalf(e) \o NextHalf(f)) = HalfLen + HalfLen
  BY <1>2
<1>4. EntryLen = HalfLen + HalfLen
  BY Sizes DEF EntryLen, HalfLen
<1> QED BY <1>3, <1>4, RowHalves

\* The six fields of a row, read at its place in a message.
LEMMA RowRead ==
  ASSUME NEW e \in Entries, NEW f \in Entries, NEW x \in Seq(Byte), NEW z \in Seq(Byte)
  PROVE  EntryAt((x \o Row(e, f)) \o z, Len(x))
         = Entry(e.chatName, e.addr, e.port, f.nextChatName, f.nextAddr, f.nextPort)
<1> DEFINE y == Row(e, f)
           h == OwnHalf(e)
           g == NextHalf(f)
           buf == (x \o y) \o z
           at == Len(x)
<1>1. /\ e.chatName \in Bytes(NameLen) /\ e.addr \in Bytes(AddrLen) /\ e.port \in Bytes(PortLen)
      /\ f.nextChatName \in Bytes(NameLen) /\ f.nextAddr \in Bytes(AddrLen)
      /\ f.nextPort \in Bytes(PortLen)
  BY DEF Entries
<1>2. /\ h \in Seq(Byte) /\ Len(h) = HalfLen
      /\ Field(h, 0, NameLen) = e.chatName
      /\ Field(h, NameLen, AddrLen) = e.addr
      /\ Field(h, NameLen + AddrLen, PortLen) = e.port
  BY <1>1, HalfShape DEF OwnHalf
<1>3. /\ g \in Seq(Byte) /\ Len(g) = HalfLen
      /\ Field(g, 0, NameLen) = f.nextChatName
      /\ Field(g, NameLen, AddrLen) = f.nextAddr
      /\ Field(g, NameLen + AddrLen, PortLen) = f.nextPort
  BY <1>1, HalfShape DEF NextHalf
<1>4. y = h \o g /\ y \in Seq(Byte) /\ Len(y) = EntryLen
  BY RowHalves, RowShape
<1>5. /\ EntryLen = HalfLen + HalfLen /\ HalfLen \in Nat /\ EntryLen \in Nat
      /\ HalfLen = NameLen + AddrLen + PortLen /\ at \in Nat
  BY Sizes DEF EntryLen, HalfLen
<1>6. EntryAt(buf, at)
      = Entry(Field(buf, at, NameLen), Field(buf, at + NameLen, AddrLen),
              Field(buf, at + NameLen + AddrLen, PortLen),
              Field(buf, at + NameLen + AddrLen + PortLen, NameLen),
              Field(buf, at + NameLen + AddrLen + PortLen + NameLen, AddrLen),
              Field(buf, at + NameLen + AddrLen + PortLen + NameLen + AddrLen, PortLen))
  BY DEF EntryAt
<1> HIDE DEF y, h, g
<1>7. \A d, len \in Nat : d + len <= EntryLen => Field(buf, at + d, len) = Field(y, d, len)
  <2> SUFFICES ASSUME NEW d \in Nat, NEW len \in Nat, d + len <= EntryLen
               PROVE  Field(buf, at + d, len) = Field(y, d, len)
    OBVIOUS
  <2>1. d + len <= Len(y) /\ y \in Seq(Byte)
    BY <1>4
  <2> QED BY <2>1, FieldInside
<1> HIDE DEF buf
<1>8. \A d, len \in Nat : d + len <= HalfLen => Field(y, d, len) = Field(h, d, len)
  BY <1>2, <1>3, <1>4, FieldLeft
<1>9. \A d, len \in Nat : Field(y, HalfLen + d, len) = Field(g, d, len)
  BY <1>2, <1>3, <1>4, FieldRight
<1>10. \A d, len \in Nat : d + len <= HalfLen =>
         /\ Field(buf, at + d, len) = Field(h, d, len)
         /\ Field(buf, at + (HalfLen + d), len) = Field(g, d, len)
  <2> SUFFICES ASSUME NEW d \in Nat, NEW len \in Nat, d + len <= HalfLen
               PROVE  /\ Field(buf, at + d, len) = Field(h, d, len)
                      /\ Field(buf, at + (HalfLen + d), len) = Field(g, d, len)
    OBVIOUS
  <2>1. Field(buf, at + d, len) = Field(h, d, len)
    BY <1>5, <1>7, <1>8
  <2>2. Field(buf, at + (HalfLen + d), len) = Field(y, HalfLen + d, len)
    <3>1. HalfLen + d \in Nat /\ (HalfLen + d) + len <= EntryLen
      BY <1>5
    <3> QED BY <1>7, <3>1
  <2> QED BY <1>9, <2>1, <2>2
<1>11. /\ at + 0 = at
       /\ at + NameLen + AddrLen = at + (NameLen + AddrLen)
       /\ at + NameLen + AddrLen + PortLen = at + (HalfLen + 0)
       /\ at + NameLen + AddrLen + PortLen + NameLen = at + (HalfLen + NameLen)
       /\ at + NameLen + AddrLen + PortLen + NameLen + AddrLen = at + (HalfLen + (NameLen + AddrLen))
  BY <1>5, Sizes
<1>12. /\ 0 \in Nat /\ NameLen \in Nat /\ AddrLen \in Nat /\ PortLen \in Nat /\ NameLen + AddrLen \in Nat
       /\ 0 + NameLen <= HalfLen /\ NameLen + AddrLen <= HalfLen
       /\ (NameLen + AddrLen) + PortLen <= HalfLen
  BY <1>5, Sizes
<1>13. /\ Field(buf, at, NameLen) = e.chatName
       /\ Field(buf, at + NameLen, AddrLen) = e.addr
       /\ Field(buf, at + NameLen + AddrLen, PortLen) = e.port
  BY <1>2, <1>10, <1>11, <1>12
<1>14. /\ Field(buf, at + NameLen + AddrLen + PortLen, NameLen) = f.nextChatName
       /\ Field(buf, at + NameLen + AddrLen + PortLen + NameLen, AddrLen) = f.nextAddr
       /\ Field(buf, at + NameLen + AddrLen + PortLen + NameLen + AddrLen, PortLen) = f.nextPort
  <2>1. Field(buf, at + (HalfLen + 0), NameLen) = Field(g, 0, NameLen)
    BY <1>10, <1>12
  <2>2. Field(buf, at + (HalfLen + NameLen), AddrLen) = Field(g, NameLen, AddrLen)
    BY <1>10, <1>12
  <2>3. Field(buf, at + (HalfLen + (NameLen + AddrLen)), PortLen) = Field(g, NameLen + AddrLen, PortLen)
    BY <1>10, <1>12
  <2> QED BY <1>3, <1>11, <2>1, <2>2, <2>3
<1>15. EntryAt(buf, at)
       = Entry(e.chatName, e.addr, e.port, f.nextChatName, f.nextAddr, f.nextPort)
  BY <1>6, <1>13, <1>14
<1> QED BY <1>15 DEF buf, y

\* The rows that tableToCharArray puts one after another.
Rows(f, t) == f = [k \in 0 .. Len(t) |-> IF k = 0 THEN <<>> ELSE f[k - 1] \o Row(t[k], t[1])]

LEMMA TwoRows ==
  ASSUME NEW x \in Entries, NEW y \in Entries
  PROVE  TableToCharArray(<<x, y>>) = Row(x, x) \o Row(y, x)
<1> DEFINE t == <<x, y>>
           r == Row(x, x)
           q == Row(y, x)
           rows == CHOOSE f : Rows(f, t)
           none == <<>>
           w == [k \in 0 .. 2 |-> IF k = 0 THEN none ELSE IF k = 1 THEN none \o r ELSE (none \o r) \o q]
<1>1. TableToCharArray(t) = rows[Len(t)]
  BY DEF TableToCharArray, Rows
<1>2. Len(t) = 2 /\ t[1] = x /\ t[2] = y
  OBVIOUS
<1>3. r \in Seq(Byte)
  BY RowShape
<1>4. r = Row(x, x) /\ q = Row(y, x)
  OBVIOUS
<1>11. none \o r = r
  BY <1>3, ConcatEmptySeq
<1>12. Rows(w, t) <=> w = [k \in 0 .. Len(t) |-> IF k = 0 THEN none ELSE w[k - 1] \o Row(t[k], t[1])]
  BY DEF Rows
<1>13. Rows(rows, t) => rows = [k \in 0 .. Len(t) |-> IF k = 0 THEN none ELSE rows[k - 1] \o Row(t[k], t[1])]
  BY DEF Rows
<1> HIDE DEF t, r, q, none
<1>5. Rows(w, t)
  <2>1. /\ w[0] = none /\ w[1] = none \o r /\ w[2] = (none \o r) \o q
        /\ w = [k \in 0 .. 2 |-> w[k]]
    OBVIOUS
  <2> HIDE DEF w
  <2>2. \A k \in 0 .. 2 : w[k] = IF k = 0 THEN none ELSE w[k - 1] \o Row(t[k], t[1])
    <3> SUFFICES ASSUME NEW k \in 0 .. 2
                 PROVE  w[k] = IF k = 0 THEN none ELSE w[k - 1] \o Row(t[k], t[1])
      OBVIOUS
    <3>1. CASE k = 0
      BY <2>1, <3>1
    <3>2. CASE k = 1
      BY <1>2, <1>4, <2>1, <3>2
    <3>3. CASE k = 2
      BY <1>2, <1>4, <2>1, <3>3
    <3> QED BY <3>1, <3>2, <3>3
  <2> QED BY <1>2, <1>12, <2>1, <2>2
<1> HIDE DEF w
<1>6. Rows(rows, t)
  BY <1>5, Zenon
<1> HIDE DEF rows
<1>7. \A k \in 0 .. 2 : rows[k] = IF k = 0 THEN none ELSE rows[k - 1] \o Row(t[k], t[1])
  BY <1>2, <1>6, <1>13
<1>8. rows[0] = none
  BY <1>7
<1>9. rows[1] = none \o r
  <2>1. 1 \in 0 .. 2 /\ 1 # 0 /\ 1 - 1 = 0
    OBVIOUS
  <2>2. rows[1] = rows[1 - 1] \o Row(t[1], t[1])
    BY <1>7, <2>1, Zenon
  <2> QED BY <1>2, <1>4, <1>8, <2>1, <2>2
<1>10. rows[2] = (none \o r) \o q
  <2>1. 2 \in 0 .. 2 /\ 2 # 0 /\ 2 - 1 = 1
    OBVIOUS
  <2>2. rows[2] = rows[2 - 1] \o Row(t[2], t[1])
    BY <1>7, <2>1, Zenon
  <2> QED BY <1>2, <1>4, <1>9, <2>1, <2>2
<1> QED BY <1>1, <1>2, <1>4, <1>10, <1>11 DEF t

\* What tableUpdate has made of the table after each entry of a message.
Afters(f, t, buf, count) ==
  f = [k \in 0 .. count |->
         IF k = 0 THEN t ELSE PutEntry(f[k - 1], EntryAt(buf, HeaderLen + (k - 1) * EntryLen))]

LEMMA TwoPuts ==
  ASSUME NEW t, NEW buf, (Len(buf) - HeaderLen - 1) \div EntryLen = 2
  PROVE  PutAll(t, buf)
         = PutEntry(PutEntry(t, EntryAt(buf, HeaderLen)), EntryAt(buf, HeaderLen + EntryLen))
<1> DEFINE count == (Len(buf) - HeaderLen - 1) \div EntryLen
           after == CHOOSE f : Afters(f, t, buf, count)
           At(k) == HeaderLen + (k - 1) * EntryLen
           one == PutEntry(t, EntryAt(buf, HeaderLen))
           two == PutEntry(one, EntryAt(buf, HeaderLen + EntryLen))
           w == [k \in 0 .. 2 |-> IF k = 0 THEN t ELSE IF k = 1 THEN one ELSE two]
<1>1. PutAll(t, buf) = after[count]
  BY DEF PutAll, Afters
<1>2. count = 2
  OBVIOUS
<1>3. HeaderLen \in Nat /\ EntryLen \in Nat
  BY Sizes DEF HeaderLen, EntryLen
<1>4. At(1) = HeaderLen /\ At(2) = HeaderLen + EntryLen
  BY <1>3
<1>5. /\ one = PutEntry(t, EntryAt(buf, At(1)))
      /\ two = PutEntry(one, EntryAt(buf, At(2)))
  BY <1>4
<1>6. \A f : Afters(f, t, buf, count) <=>
              f = [k \in 0 .. 2 |-> IF k = 0 THEN t ELSE PutEntry(f[k - 1], EntryAt(buf, At(k)))]
  BY <1>2 DEF Afters
<1>7. /\ 1 \in 0 .. 2 /\ 1 # 0 /\ 1 - 1 = 0
      /\ 2 \in 0 .. 2 /\ 2 # 0 /\ 2 - 1 = 1
      /\ \A k \in 0 .. 2 : k = 0 \/ k = 1 \/ k = 2
  OBVIOUS
<1> HIDE DEF count, At, one, two
<1>8. Afters(w, t, buf, count)
  <2>1. /\ w[0] = t /\ w[1] = one /\ w[2] = two
        /\ w = [k \in 0 .. 2 |-> w[k]]
    OBVIOUS
  <2> HIDE DEF w
  <2>2. \A k \in 0 .. 2 : w[k] = IF k = 0 THEN t ELSE PutEntry(w[k - 1], EntryAt(buf, At(k)))
    <3> SUFFICES ASSUME NEW k \in 0 .. 2
                 PROVE  w[k] = IF k = 0 THEN t ELSE PutEntry(w[k - 1], EntryAt(buf, At(k)))
      OBVIOUS
    <3>1. CASE k = 0
      BY <2>1, <3>1
    <3>2. CASE k = 1
      BY <1>5, <1>7, <2>1, <3>2
    <3>3. CASE k = 2
      BY <1>5, <1>7, <2>1, <3>3
    <3> QED BY <1>7, <3>1, <3>2, <3>3
  <2> QED BY <1>6, <2>1, <2>2
<1> HIDE DEF w
<1>9. Afters(after, t, buf, count)
  BY <1>8, Zenon
<1> HIDE DEF after
<1>10. \A k \in 0 .. 2 : after[k] = IF k = 0 THEN t ELSE PutEntry(after[k - 1], EntryAt(buf, At(k)))
  BY <1>6, <1>9
<1>11. after[0] = t
  BY <1>10
<1>12. after[1] = one
  <2>1. after[1] = PutEntry(after[1 - 1], EntryAt(buf, At(1)))
    BY <1>7, <1>10, Zenon
  <2> QED BY <1>5, <1>7, <1>11, <2>1
<1>13. after[2] = two
  <2>1. after[2] = PutEntry(after[2 - 1], EntryAt(buf, At(2)))
    BY <1>7, <1>10, Zenon
  <2> QED BY <1>5, <1>7, <1>12, <2>1
<1> QED BY <1>1, <1>2, <1>13 DEF one, two

LEMMA TwoEntries ==
  ASSUME NEW size \in Nat \ {0}, NEW head \in Nat
  PROVE  (((head + size) + size + 1) - head - 1) \div size = 2
<1>1. ((head + size) + size + 1) - head - 1 = 2 * size
  OBVIOUS
<1>2. (2 * size) \div size = 2
  OBVIOUS
<1> QED BY <1>1, <1>2

RouteHeader == Header(ROUTE, Neighbour.name, <<>>)

\* The neighbour's ROUTE on the wire.
RouteWire(n, a, p) ==
  ((RouteHeader \o Row(OwnEntry(Neighbour), OwnEntry(Neighbour)))
   \o Row(LoginEntry(n, a, p), OwnEntry(Neighbour))) \o <<EOT>>

\* The same two entries with the neighbour as next hop.
FarEntries(n, a, p) ==
  <<OwnEntry(Neighbour),
    Entry(Padded(n.name), a, p, Padded(Neighbour.name), Neighbour.addr, Neighbour.port)>>

LEMMA BothShape ==
  ASSUME NEW n \in Nodes, NEW a \in Bytes(AddrLen), NEW p \in Bytes(PortLen)
  PROVE  OwnEntry(Neighbour) \in Entries /\ LoginEntry(n, a, p) \in Entries
<1>1. /\ Padded(n.name) \in Bytes(NameLen) /\ Padded(Neighbour.name) \in Bytes(NameLen)
      /\ Neighbour.addr \in Bytes(AddrLen) /\ Neighbour.port \in Bytes(PortLen)
  BY NodeShape, NeighbourIsNode, PaddedShape
<1>2. OwnEntry(Neighbour) = LoginEntry(Neighbour, Neighbour.addr, Neighbour.port)
  BY OwnEntryIs
<1> QED BY <1>1, <1>2 DEF LoginEntry, Entry, Entries

LEMMA RouteHeaderShape ==
  RouteHeader \in Seq(Byte) /\ Len(RouteHeader) = HeaderLen /\ HeaderLen \in Nat
<1>1. ROUTE \in Byte
  BY DEF ROUTE, Byte
<1>2. HeaderLen \in Nat
  BY Sizes DEF HeaderLen
<1> QED BY <1>1, <1>2, HeaderShape, NeighbourIsNode DEF RouteHeader

LEMMA RouteSent ==
  ASSUME NEW n \in Nodes, NEW a \in Bytes(AddrLen), NEW p \in Bytes(PortLen)
  PROVE  SendAll(RouteHeader \o TableToCharArray(BothEntries(n, a, p))) = RouteWire(n, a, p)
<1> DEFINE x == OwnEntry(Neighbour)
           y == LoginEntry(n, a, p)
           h == RouteHeader
           r == Row(x, x)
           q == Row(y, x)
<1>1. x \in Entries /\ y \in Entries
  BY BothShape
<1>2. TableToCharArray(<<x, y>>) = r \o q
  BY <1>1, TwoRows
<1>3. h \in Seq(Byte) /\ r \in Seq(Byte) /\ q \in Seq(Byte)
  BY <1>1, RowShape, RouteHeaderShape
<1>4. SendAll(h \o TableToCharArray(BothEntries(n, a, p))) = Append(h \o (r \o q), EOT)
  BY <1>2 DEF SendAll, SendTcp, BothEntries
<1>5. RouteWire(n, a, p) = ((h \o r) \o q) \o <<EOT>>
  BY DEF RouteWire
<1> HIDE DEF h, r, q
<1>6. (h \o r) \o q = h \o (r \o q)
  BY <1>3, BytesAssociative
<1> DEFINE s == h \o (r \o q)
<1>7. s \in Seq(Byte) /\ EOT \in Byte
  BY <1>3 DEF EOT, Byte
<1> HIDE DEF s
<1>8. Append(s, EOT) = s \o <<EOT>>
  BY <1>7, AppendIsConcat
<1> QED BY <1>4, <1>5, <1>6, <1>8 DEF s, h

\* What the third node reads of a ROUTE.
LEMMA RouteRead ==
  ASSUME NEW n \in Nodes, n.name # Neighbour.name,
         NEW a \in Bytes(AddrLen), NEW p \in Bytes(PortLen)
  PROVE  /\ Len(RouteWire(n, a, p)) >= HeaderLen
         /\ PutAll(<<>>, RouteWire(n, a, p)) = FarEntries(n, a, p)
<1> DEFINE x == OwnEntry(Neighbour)
           y == LoginEntry(n, a, p)
           h == RouteHeader
           r == Row(x, x)
           q == Row(y, x)
           e == <<EOT>>
           buf == ((h \o r) \o q) \o e
           e1 == EntryAt(buf, HeaderLen)
           e2 == EntryAt(buf, HeaderLen + EntryLen)
<1>1. x \in Entries /\ y \in Entries
  BY BothShape
<1>2. /\ h \in Seq(Byte) /\ Len(h) = HeaderLen
      /\ r \in Seq(Byte) /\ Len(r) = EntryLen
      /\ q \in Seq(Byte) /\ Len(q) = EntryLen
  BY <1>1, RowShape, RouteHeaderShape
<1>3. e \in Seq(Byte)
  BY DEF EOT, Byte
<1>4. Len(e) = 1
  OBVIOUS
<1>5. HeaderLen \in Nat /\ EntryLen \in Nat \ {0}
  <2>1. NameLen # 0
    BY NeighbourIsNode, NameShape, Sizes
  <2> QED BY <2>1, Sizes DEF HeaderLen, EntryLen
<1>6. RouteWire(n, a, p) = buf
  BY DEF RouteWire
<1>7. /\ EntryAt((h \o r) \o (q \o e), Len(h))
         = Entry(x.chatName, x.addr, x.port, x.nextChatName, x.nextAddr, x.nextPort)
      /\ EntryAt(((h \o r) \o q) \o e, Len(h \o r))
         = Entry(y.chatName, y.addr, y.port, x.nextChatName, x.nextAddr, x.nextPort)
  <2>1. h \in Seq(Byte) /\ h \o r \in Seq(Byte) /\ q \o e \in Seq(Byte) /\ e \in Seq(Byte)
    BY <1>2, <1>3, ConcatProperties
  <2> HIDE DEF h, x, y, e
  <2>2. EntryAt((h \o Row(x, x)) \o (q \o e), Len(h))
        = Entry(x.chatName, x.addr, x.port, x.nextChatName, x.nextAddr, x.nextPort)
    BY <1>1, <2>1, RowRead
  <2>3. EntryAt(((h \o r) \o Row(y, x)) \o e, Len(h \o r))
        = Entry(y.chatName, y.addr, y.port, x.nextChatName, x.nextAddr, x.nextPort)
    <3> DEFINE u == h \o r
    <3>1. u \in Seq(Byte)
      BY <2>1
    <3> HIDE DEF u
    <3>2. EntryAt((u \o Row(y, x)) \o e, Len(u))
          = Entry(y.chatName, y.addr, y.port, x.nextChatName, x.nextAddr, x.nextPort)
      BY <1>1, <2>1, <3>1, RowRead
    <3> QED BY <3>2 DEF u
  <2> QED BY <2>2, <2>3
<1>8. x = Entry(Padded(Neighbour.name), Neighbour.addr, Neighbour.port,
                Padded(Neighbour.name), Neighbour.addr, Neighbour.port)
  BY OwnEntryIs DEF LoginEntry
<1>9. y = Entry(Padded(n.name), a, p, Padded(n.name), a, p)
  BY DEF LoginEntry
<1>10. /\ Entry(x.chatName, x.addr, x.port, x.nextChatName, x.nextAddr, x.nextPort) = x
       /\ Entry(y.chatName, y.addr, y.port, x.nextChatName, x.nextAddr, x.nextPort)
          = Entry(Padded(n.name), a, p, Padded(Neighbour.name), Neighbour.addr, Neighbour.port)
  <2> HIDE DEF x, y
  <2> QED BY <1>8, <1>9 DEF Entry
<1> HIDE DEF x, y, h, r, q, e
<1> DEFINE u == h \o r
           v == u \o q
<1>11. u \in Seq(Byte) /\ Len(u) = HeaderLen + EntryLen
  BY <1>2, <1>5
<1>12. (h \o r) \o (q \o e) = buf
  <2> HIDE DEF u
  <2>1. (u \o q) \o e = u \o (q \o e)
    <3>1. u \in Seq(Byte) /\ q \in Seq(Byte) /\ e \in Seq(Byte)
      BY <1>2, <1>3, <1>11
    <3> QED BY <3>1, BytesAssociative
  <2> QED BY <2>1 DEF u
<1>13. buf = v \o e
  OBVIOUS
<1> HIDE DEF u
<1>14. v \in Seq(Byte) /\ Len(v) = (HeaderLen + EntryLen) + EntryLen
  <2>1. v \in Seq(Byte) /\ Len(v) = Len(u) + Len(q)
    BY <1>2, <1>11, ConcatProperties
  <2> QED BY <1>2, <1>11, <2>1
<1>15. Len(buf) = (HeaderLen + EntryLen) + EntryLen + 1
  <2> HIDE DEF v, buf
  <2>1. Len(v \o e) = Len(v) + Len(e)
    BY <1>3, <1>14, ConcatProperties
  <2> QED BY <1>4, <1>13, <1>14, <2>1
<1>16. (Len(buf) - HeaderLen - 1) \div EntryLen = 2
  <2> HIDE DEF buf
  <2> QED BY <1>5, <1>15, TwoEntries
<1>17. e1 = x
  <2> HIDE DEF buf
  <2> QED BY <1>2, <1>7, <1>10, <1>12
<1>18. e2 = Entry(Padded(n.name), a, p, Padded(Neighbour.name), Neighbour.addr, Neighbour.port)
  BY <1>7, <1>10, <1>11 DEF u
<1>19. PutAll(<<>>, buf) = PutEntry(PutEntry(<<>>, e1), e2)
  <2> HIDE DEF buf
  <2> QED BY <1>16, TwoPuts
<1>20. PutEntry(<<>>, x) = <<x>>
  BY <1>8, PutFirst, NeighbourIsNode
<1>21. NameIn(x) = Neighbour.name
  BY <1>8, OwnEntryFound, NeighbourIsNode, PaddedShape
<1>22. PutEntry(<<x>>, e2) = <<x, e2>>
  <2> HIDE DEF e2, buf
  <2> DEFINE z == Entry(Padded(n.name), a, p, Padded(Neighbour.name), Neighbour.addr, Neighbour.port)
  <2>1. Neighbour.name \in Names
    BY NeighbourIsNode
  <2>2. PutEntry(<<x>>, z) = <<x, z>>
    BY <1>21, <2>1, PutOther
  <2> HIDE DEF z
  <2>3. e2 = z
    BY <1>18 DEF z
  <2> QED BY <2>2, <2>3
<1> HIDE DEF buf, e1, e2
<1>23. PutAll(<<>>, buf) = <<x, e2>>
  BY <1>17, <1>19, <1>20, <1>22
<1>24. Len(buf) >= HeaderLen
  BY <1>5, <1>15
<1> QED BY <1>6, <1>18, <1>23, <1>24 DEF FarEntries, x

-----------------------------------------------------------------------------
(***************************************************************************)
(* The invariant: what has been sent and read at each step of the exchange.*)
(***************************************************************************)
Started(n, w, t, f) == w = <<>> /\ t = <<OwnEntry(Neighbour)>> /\ f = <<>>

LoginSent(n, w, t, f) == CutWire(n, w) /\ t = <<OwnEntry(Neighbour)>> /\ f = <<>>

\* a and p are what has been read for the address and the port.
RouteOut(n, s, w, t, a, p) ==
  /\ s = n.name
  /\ Arrived(n, a, p)
  /\ t = BothEntries(n, a, p)
  /\ w = RouteWire(n, a, p)

RouteSentBy(n, s, w, t, f) == \E a, p : RouteOut(n, s, w, t, a, p) /\ f = <<>>
RouteReadOf(n, s, w, t, f) == \E a, p : RouteOut(n, s, w, t, a, p) /\ f = FarEntries(n, a, p)

Inv ==
  /\ node \in Nodes /\ node.name # Neighbour.name
  /\ step \in {"start", "login", "route", "done"}
  /\ step = "start" => Started(node, wire, table, far)
  /\ step = "login" => LoginSent(node, wire, table, far)
  /\ step = "route" => RouteSentBy(node, sender, wire, table, far)
  /\ step = "done" => RouteReadOf(node, sender, wire, table, far)

LEMMA RouteWireShape ==
  ASSUME NEW n \in Nodes, NEW a \in Bytes(AddrLen), NEW p \in Bytes(PortLen)
  PROVE  RouteWire(n, a, p) \in Seq(Byte)
<1> DEFINE h == RouteHeader
           r == Row(OwnEntry(Neighbour), OwnEntry(Neighbour))
           q == Row(LoginEntry(n, a, p), OwnEntry(Neighbour))
           e == <<EOT>>
<1>1. h \in Seq(Byte) /\ r \in Seq(Byte) /\ q \in Seq(Byte)
  BY BothShape, RowShape, RouteHeaderShape
<1>2. e \in Seq(Byte)
  BY DEF EOT, Byte
<1>3. RouteWire(n, a, p) = ((h \o r) \o q) \o e
  BY DEF RouteWire
<1> HIDE DEF h, r, q, e
<1> QED BY <1>1, <1>2, <1>3

LEMMA DoLoginKeeps == Inv /\ DoLogin => Inv'
<1> SUFFICES ASSUME Inv, DoLogin PROVE Inv'
  OBVIOUS
<1>1. /\ node \in Nodes /\ node.name # Neighbour.name
      /\ Started(node, wire, table, far)
  BY DEF Inv, DoLogin
<1>2. /\ step' = "login" /\ node' = node /\ table' = table /\ far' = far
  BY DEF DoLogin
<1>3. wire' = SendTcp(SubSeq(LoginMsg(node), 1, MsgLen(LoginMsg(node))))
  <2>1. GetName(Padded(node.name)) = Padded(node.name)
    BY <1>1, NodeShape, GetNamePadded
  <2>2. wire' = LET msg == Header(LOGIN, node.name, <<>>) \o GetName(Padded(node.name))
                           \o node.addr \o node.port \o <<EOT>>
                IN  SendTcp(SubSeq(msg, 1, MsgLen(msg)))
    BY DEF DoLogin, Padded
  <2> QED BY <2>1, <2>2 DEF LoginMsg
<1>4. CutWire(node, wire')
  BY <1>1, <1>3, LoginIsCut
<1>5. LoginSent(node, wire', table, far)
  BY <1>1, <1>4 DEF Started, LoginSent
<1> QED BY <1>1, <1>2, <1>5 DEF Inv

LEMMA MsgLoginKeeps == Inv /\ MsgLogin => Inv'
<1> SUFFICES ASSUME Inv, MsgLogin PROVE Inv'
  OBVIOUS
<1> DEFINE a == Field(wire, HeaderLen + NameLen, AddrLen)
           p == Field(wire, HeaderLen + NameLen + AddrLen, PortLen)
           name == GetName(Field(wire, HeaderLen, NameLen))
<1>1. /\ node \in Nodes /\ node.name # Neighbour.name /\ node.name \in Names
      /\ CutWire(node, wire) /\ table = <<OwnEntry(Neighbour)>> /\ far = <<>>
  BY NodeShape DEF Inv, MsgLogin, LoginSent
<1>2. step' = "route" /\ node' = node /\ far' = far
  BY DEF MsgLogin
<1>3. /\ Field(wire, 2, NameLen) = SetName(node.name)
      /\ Field(wire, HeaderLen, NameLen) = Padded(node.name)
      /\ Arrived(node, a, p)
  BY <1>1, LoginRead
<1>4. sender' = node.name
  <2>1. sender' = CString(GetName(Field(wire, 2, NameLen)))
    BY DEF MsgLogin
  <2> QED BY <1>1, <1>3, <2>1, GetNameSet, HeaderNameRead
<1>5. name = Padded(node.name)
  BY <1>1, <1>3, GetNamePadded
<1>6. table' = PutEntry(table, Entry(name, a, p, name, a, p))
  BY DEF MsgLogin
<1>7. wire' = SendAll(RouteHeader \o TableToCharArray(table'))
  BY DEF MsgLogin, RouteHeader
<1> HIDE DEF a, p, name
<1>8. table' = BothEntries(node, a, p)
  <2>1. table' = PutEntry(<<OwnEntry(Neighbour)>>, LoginEntry(node, a, p))
    BY <1>1, <1>5, <1>6 DEF LoginEntry
  <2> QED BY <1>1, <2>1, LoginEntered
<1>9. a \in Bytes(AddrLen) /\ p \in Bytes(PortLen)
  BY <1>3 DEF Arrived
<1>10. wire' = RouteWire(node, a, p)
  BY <1>1, <1>7, <1>8, <1>9, RouteSent
<1>11. RouteOut(node, sender', wire', table', a, p)
  BY <1>3, <1>4, <1>8, <1>10 DEF RouteOut
<1>12. RouteSentBy(node, sender', wire', table', far)
  BY <1>1, <1>11 DEF RouteSentBy
<1> QED BY <1>1, <1>2, <1>12 DEF Inv

LEMMA MsgRouteKeeps == Inv /\ MsgRoute => Inv'
<1> SUFFICES ASSUME Inv, MsgRoute PROVE Inv'
  OBVIOUS
<1>1. /\ node \in Nodes /\ node.name # Neighbour.name
      /\ RouteSentBy(node, sender, wire, table, far)
  BY DEF Inv, MsgRoute
<1>2. /\ step' = "done" /\ node' = node /\ wire' = wire /\ sender' = sender /\ table' = table
      /\ far' = IF Len(wire) < HeaderLen THEN far ELSE PutAll(far, wire)
  BY DEF MsgRoute
<1>3. PICK a, p : RouteOut(node, sender, wire, table, a, p) /\ far = <<>>
  BY <1>1 DEF RouteSentBy
<1>4. a \in Bytes(AddrLen) /\ p \in Bytes(PortLen) /\ wire = RouteWire(node, a, p)
  BY <1>3 DEF RouteOut, Arrived
<1>5. Len(wire) >= HeaderLen /\ PutAll(<<>>, wire) = FarEntries(node, a, p)
  BY <1>1, <1>4, RouteRead
<1>6. far' = FarEntries(node, a, p)
  <2>1. Len(wire) \in Nat /\ HeaderLen \in Nat
    <3>1. wire \in Seq(Byte)
      BY <1>1, <1>4, RouteWireShape
    <3> QED BY <3>1, RouteHeaderShape
  <2>2. ~ (Len(wire) < HeaderLen)
    BY <1>5, <2>1
  <2> QED BY <1>2, <1>3, <1>5, <2>2
<1>7. RouteReadOf(node, sender, wire, table, far')
  BY <1>3, <1>6 DEF RouteReadOf
<1> QED BY <1>1, <1>2, <1>7 DEF Inv

LEMMA InvAlways == Spec => []Inv
<1>1. Init => Inv
  BY DEF Init, Inv, Started
<1>2. Inv /\ [Next]_vars => Inv'
  <2> SUFFICES ASSUME Inv, [Next]_vars PROVE Inv'
    OBVIOUS
  <2>1. CASE DoLogin
    BY <2>1, DoLoginKeeps
  <2>2. CASE MsgLogin
    BY <2>2, MsgLoginKeeps
  <2>3. CASE MsgRoute
    BY <2>3, MsgRouteKeeps
  <2>4. CASE UNCHANGED vars
    BY <2>4 DEF vars, Inv
  <2> QED BY <2>1, <2>2, <2>3, <2>4 DEF Next
<1> QED BY <1>1, <1>2, PTL DEF Spec

-----------------------------------------------------------------------------
(***************************************************************************)
(* What follows from it.                                                   *)
(***************************************************************************)
\* Both later steps of the exchange.
LEMMA Later ==
  ASSUME Inv, step \in {"route", "done"}
  PROVE  \E a, p : /\ RouteOut(node, sender, wire, table, a, p)
                   /\ far = IF step = "route" THEN <<>> ELSE FarEntries(node, a, p)
BY DEF Inv, RouteSentBy, RouteReadOf

LEMMA LaterFacts ==
  ASSUME Inv, NEW a, NEW p, RouteOut(node, sender, wire, table, a, p)
  PROVE  /\ node \in Nodes /\ node.name \in Names /\ node.name # Neighbour.name
         /\ sender = node.name
         /\ a \in Bytes(AddrLen) /\ p \in Bytes(PortLen)
         /\ table = <<OwnEntry(Neighbour), LoginEntry(node, a, p)>>
         /\ wire = RouteWire(node, a, p)
BY NodeShape DEF Inv, RouteOut, Arrived, BothEntries

LEMMA EntriesAreTyped ==
  ASSUME NEW e \in Entries
  PROVE  IsEntry(e)
<1>1. \A len \in Nat : \A s \in Bytes(len) : IsBytes(s, len)
  BY DEF Bytes, IsBytes
<1> QED BY <1>1, Sizes DEF Entries, IsEntry

\* The variables have their types throughout the exchange, whatever the name,
\* the address and the port of who logs in (do_login, msg_login, msg_route).
THEOREM LoginTypes == Spec => []TypeOK
<1>1. Inv => TypeOK
  <2> SUFFICES ASSUME Inv PROVE TypeOK
    OBVIOUS
  <2>1. IsEntry(OwnEntry(Neighbour))
    BY NeighbourIsNode, NodeShape, BothShape, EntriesAreTyped
  <2>2. \A s \in Seq(Byte) : IsBytes(s, Len(s))
    BY DEF IsBytes
  <2>3. CASE step \in {"start", "login"}
    <3>1. table = <<OwnEntry(Neighbour)>> /\ far = <<>>
      BY <2>3 DEF Inv, Started, LoginSent
    <3>2. wire \in Seq(Byte)
      <4>1. CASE step = "start"
        BY <4>1 DEF Inv, Started
      <4>2. CASE step = "login"
        <5>1. PICK c \in NamesLen + 1 .. NamesLen + OctetsLen + 1 : wire = SubSeq(LoginMsg(node), 1, c)
          BY <4>2 DEF Inv, LoginSent, CutWire
        <5>2. LoginMsg(node) \in Seq(Byte) /\ Len(LoginMsg(node)) = NamesLen + OctetsLen + 1
          BY LoginShape DEF Inv
        <5>3. NamesLen \in Nat /\ OctetsLen \in Nat
          BY Sizes DEF NamesLen, HeaderLen, OctetsLen
        <5> QED BY <5>1, <5>2, <5>3
      <4> QED BY <2>3, <4>1, <4>2
    <3>3. \A k \in DOMAIN table : table[k] = OwnEntry(Neighbour)
      BY <3>1
    <3>4. DOMAIN far = {}
      BY <3>1
    <3> QED BY <2>1, <2>2, <2>3, <3>2, <3>3, <3>4 DEF TypeOK, Inv
  <2>4. CASE step \in {"route", "done"}
    <3>1. PICK a, p : /\ RouteOut(node, sender, wire, table, a, p)
                      /\ far = IF step = "route" THEN <<>> ELSE FarEntries(node, a, p)
      BY <2>4, Later
    <3>2. /\ node \in Nodes /\ node.name \in Names
          /\ sender = node.name
          /\ a \in Bytes(AddrLen) /\ p \in Bytes(PortLen)
          /\ table = <<OwnEntry(Neighbour), LoginEntry(node, a, p)>>
          /\ wire = RouteWire(node, a, p)
      BY <3>1, LaterFacts
    <3>3. wire \in Seq(Byte)
      BY <3>2, RouteWireShape
    <3>4. IsEntry(LoginEntry(node, a, p))
      BY <3>2, BothShape, EntriesAreTyped
    <3>5. \A k \in DOMAIN table : table[k] = OwnEntry(Neighbour) \/ table[k] = LoginEntry(node, a, p)
      BY <3>2
    <3>6. IsEntry(Entry(Padded(node.name), a, p, Padded(Neighbour.name), Neighbour.addr, Neighbour.port))
      <4>1. /\ Padded(node.name) \in Bytes(NameLen) /\ Padded(Neighbour.name) \in Bytes(NameLen)
            /\ Neighbour.addr \in Bytes(AddrLen) /\ Neighbour.port \in Bytes(PortLen)
        BY <3>2, NodeShape, NeighbourIsNode, PaddedShape
      <4>2. Entry(Padded(node.name), a, p, Padded(Neighbour.name), Neighbour.addr, Neighbour.port)
            \in Entries
        BY <3>2, <4>1 DEF Entry, Entries
      <4> QED BY <4>2, EntriesAreTyped
    <3>7. \A k \in DOMAIN far : IsEntry(far[k])
      <4>1. CASE step = "route"
        BY <3>1, <4>1
      <4>2. CASE step = "done"
        <5> DEFINE z == Entry(Padded(node.name), a, p, Padded(Neighbour.name), Neighbour.addr, Neighbour.port)
        <5>1. far = <<OwnEntry(Neighbour), z>>
          BY <3>1, <4>2 DEF FarEntries
        <5>2. IsEntry(z)
          BY <3>6
        <5> HIDE DEF z
        <5> QED BY <2>1, <5>1, <5>2
      <4> QED BY <2>4, <4>1, <4>2
    <3>8. \A k \in DOMAIN table : IsEntry(table[k])
      BY <2>1, <3>4, <3>5
    <3>9. IsBytes(wire, Len(wire))
      BY <2>2, <3>3
    <3> QED BY <2>4, <3>2, <3>7, <3>8, <3>9 DEF TypeOK
  <2> QED BY <2>3, <2>4 DEF Inv
<1> QED BY <1>1, InvAlways, PTL

\* A name shorter than its field is found by both nodes under the name that
\* getName reads from a header, though the entries are made of the content.
THEOREM ShortNamesFound == Spec => []ShortNameFound
<1>1. Inv => ShortNameFound
  <2> SUFFICES ASSUME Inv, step \in {"route", "done"}, Len(node.name) < NameLen
               PROVE  /\ sender = node.name
                      /\ Found(table, sender)
                      /\ step = "done" => Found(far, sender)
    BY DEF ShortNameFound
  <2>1. PICK a, p : /\ RouteOut(node, sender, wire, table, a, p)
                    /\ far = IF step = "route" THEN <<>> ELSE FarEntries(node, a, p)
    BY Later
  <2>2. /\ node \in Nodes /\ node.name \in Names
        /\ sender = node.name
        /\ a \in Bytes(AddrLen) /\ p \in Bytes(PortLen)
        /\ table = <<OwnEntry(Neighbour), LoginEntry(node, a, p)>>
    BY <2>1, LaterFacts
  <2>3. Padded(node.name) \in Seq(Byte) /\ Padded(Neighbour.name) \in Seq(Byte)
    BY <2>2, PaddedShape, NeighbourIsNode
  <2>4. NameIn(LoginEntry(node, a, p)) = sender
    BY <2>2, <2>3, NameInIs DEF LoginEntry
  <2>5. 2 \in DOMAIN table /\ table[2] = LoginEntry(node, a, p)
    BY <2>2
  <2>6. Found(table, sender)
    BY <2>4, <2>5, Zenon DEF Found
  <2>7. ASSUME step = "done" PROVE Found(far, sender)
    <3> DEFINE z == Entry(Padded(node.name), a, p, Padded(Neighbour.name), Neighbour.addr, Neighbour.port)
    <3>1. far = <<OwnEntry(Neighbour), z>>
      BY <2>1, <2>7 DEF FarEntries
    <3>2. NameIn(z) = sender
      BY <2>2, <2>3, NameInIs
    <3> HIDE DEF z
    <3>3. 2 \in DOMAIN far /\ far[2] = z
      BY <3>1
    <3> QED BY <3>2, <3>3, Zenon DEF Found
  <2> QED BY <2>2, <2>6, <2>7
<1> QED BY <1>1, InvAlways, PTL

\* The address and the port of who logs in arrive, unless msglen has found an
\* EOT in them with more than zeros behind it.
THEOREM AddressesArrive == Spec => []AddressArrives
<1>1. Inv => AddressArrives
  <2> SUFFICES ASSUME Inv, step \in {"route", "done"}, CutHarmless
               PROVE  table[2].addr = node.addr /\ table[2].port = node.port
    BY DEF AddressArrives, Entered
  <2>1. PICK a, p : RouteOut(node, sender, wire, table, a, p)
    BY Later
  <2>2. a = node.addr /\ p = node.port
    BY <2>1, HarmlessIs DEF RouteOut, Arrived
  <2>3. table[2] = LoginEntry(node, a, p)
    BY <2>1 DEF RouteOut, BothEntries
  <2>4. LoginEntry(node, a, p).addr = a /\ LoginEntry(node, a, p).port = p
    BY DEF LoginEntry, Entry
  <2> QED BY <2>2, <2>3, <2>4
<1> QED BY <1>1, InvAlways, PTL

\* An entry with the neighbour as next hop.
Via(e) == [e EXCEPT !.nextChatName = OwnEntry(Neighbour).nextChatName,
                    !.nextAddr = Neighbour.addr, !.nextPort = Neighbour.port]

LEMMA EntryVia ==
  ASSUME NEW c, NEW a, NEW p, NEW nn, NEW na, NEW np
  PROVE  Via(Entry(c, a, p, nn, na, np))
         = Entry(c, a, p, Padded(Neighbour.name), Neighbour.addr, Neighbour.port)
<1> DEFINE e == Entry(c, a, p, nn, na, np)
           f == Padded(Neighbour.name)
           g == Neighbour.addr
           h == Neighbour.port
<1>1. OwnEntry(Neighbour).nextChatName = f
  BY OwnEntryIs DEF LoginEntry, Entry
<1>2. Via(e) = [e EXCEPT !.nextChatName = f, !.nextAddr = g, !.nextPort = h]
  BY <1>1 DEF Via
<1> HIDE DEF f, g, h
<1>3. [e EXCEPT !.nextChatName = f] = Entry(c, a, p, f, na, np)
  BY DEF Entry
<1>4. [Entry(c, a, p, f, na, np) EXCEPT !.nextAddr = g] = Entry(c, a, p, f, g, np)
  BY DEF Entry
<1>5. [Entry(c, a, p, f, g, np) EXCEPT !.nextPort = h] = Entry(c, a, p, f, g, h)
  BY DEF Entry
<1> HIDE DEF e
<1>6. [e EXCEPT !.nextChatName = f, !.nextAddr = g, !.nextPort = h]
      = [[[e EXCEPT !.nextChatName = f] EXCEPT !.nextAddr = g] EXCEPT !.nextPort = h]
  OBVIOUS
<1> QED BY <1>2, <1>3, <1>4, <1>5, <1>6 DEF e, f, g, h

\* The third node reads the neighbour's entries from the ROUTE, in their order
\* and with the neighbour as next hop (msg_login, tableToCharArray, tableUpdate).
THEOREM RoutesReadWhole == Spec => []RouteWhole
<1>1. Inv => RouteWhole
  <2> SUFFICES ASSUME Inv, step = "done"
               PROVE  far = [k \in DOMAIN table |-> Via(table[k])]
    BY DEF RouteWhole, Via
  <2>1. PICK a, p : RouteOut(node, sender, wire, table, a, p) /\ far = FarEntries(node, a, p)
    BY DEF Inv, RouteReadOf
  <2> DEFINE x == OwnEntry(Neighbour)
             y == LoginEntry(node, a, p)
             z == Entry(Padded(node.name), a, p, Padded(Neighbour.name), Neighbour.addr, Neighbour.port)
  <2>2. table = <<x, y>> /\ far = <<x, z>>
    BY <2>1 DEF RouteOut, BothEntries, FarEntries
  <2>3. Via(x) = x /\ Via(y) = z
    BY OwnEntryIs, EntryVia DEF LoginEntry
  <2> HIDE DEF x, y, z
  <2>4. [k \in DOMAIN table |-> Via(table[k])] = <<Via(x), Via(y)>>
    BY <2>2
  <2> QED BY <2>2, <2>3, <2>4
<1> QED BY <1>1, InvAlways, PTL
=============================================================================
