----------------------------- MODULE ChatProofs -----------------------------
(***************************************************************************)
(* What module Chat is proved to guarantee for any number of nodes, any    *)
(* routes and any sizes of buffers and queues: its type invariant, that    *)
(* texts are shown in order, and that every text is accounted for.         *)
(***************************************************************************)
EXTENDS Chat, FiniteSetTheorems, WellFoundedInduction, TLAPS

-----------------------------------------------------------------------------
LEMMA LeastElement ==
  ASSUME NEW S \in SUBSET Nat, S # {}
  PROVE  Min(S) \in S /\ \A n \in S : Min(S) <= n
<1>1. IsWellFoundedOn(OpToRel(<, Nat), Nat)
  BY NatLessThanWellFounded, Zenon
<1>2. PICK m \in S : \A n \in S : ~ (<<n, m>> \in OpToRel(<, Nat))
  BY <1>1, WFMin, Zenon
<1>3. \A n \in S : ~(n < m)
  <2> SUFFICES ASSUME NEW n \in S PROVE ~(n < m)
    OBVIOUS
  <2>1. ~ (<<n, m>> \in {ss \in Nat \X Nat : ss[1] < ss[2]})
    BY <1>2 DEF OpToRel
  <2> QED BY <2>1
<1>4. \E k \in S : \A n \in S : k <= n
  BY <1>3
<1> QED BY <1>4 DEF Min

-----------------------------------------------------------------------------
(***************************************************************************)
(* Texts have ids: who has typed them, for whom, and their number.         *)
(***************************************************************************)
Ids == {id \in Node \X Names \X Nat : id[1] # id[2]}
Units == [kind : {"type", "names", "text"}, id : Ids] \cup {Pad, Eot}

\* The text of this number has been typed; T is the history of them all.
Known(id, T) == id[3] \in DOMAIN T[<<id[1], id[2]>>]
Length(id, T) == T[<<id[1], id[2]>>][id[3]]

\* A header at place p of s: the names follow the type, and up to the next
\* EOT there is no more text than was typed.
HeadOK(s, p, T) ==
  /\ Known(s[p].id, T)
  /\ p + 1 \in DOMAIN s => s[p + 1] = Unit("names", s[p].id)
  /\ \A k \in DOMAIN s :
       k > p + 1 /\ s[k].kind = "text" /\ (\A j \in p .. k : s[j] # Eot)
         => k - p - 1 <= Length(s[p].id, T)

\* A stretch of a stream: messages begin behind EOT only.
StretchOK(s, T) ==
  /\ s \in Seq(Units)
  /\ \A p \in DOMAIN s : s[p].kind = "type" => HeadOK(s, p, T) /\ (p > 1 => s[p - 1] = Eot)

\* What is in a send queue: one message without EOT.
MsgOK(m, T) ==
  /\ StretchOK(m, T)
  /\ Len(m) > 0 /\ Len(m) < BufSize
  /\ m[1].kind = "type" => Len(m) > 1
  /\ \A k \in DOMAIN m : m[k] # Eot

\* A stream ends with EOT.
StreamOK(s, T) == StretchOK(s, T) /\ (s # <<>> => s[Len(s)] = Eot)

LEMMA UnitFacts ==
  /\ Pad \in Units /\ Eot \in Units /\ Pad # Eot
  /\ Pad.kind = "zero" /\ Eot.kind = "EOT"
  /\ \A u \in Units : /\ u.kind = "type" => u.id \in Ids
                      /\ u.kind \in Kinds
                      /\ u.kind = "EOT" <=> u = Eot
  /\ \A id \in Ids, kind \in {"type", "names", "text"} :
       /\ Unit(kind, id) \in Units /\ Unit(kind, id) # Eot
       /\ Unit(kind, id).kind = kind /\ Unit(kind, id).id = id
BY DEF Pad, Eot, Unit, Units, Kinds

LEMMA IdFacts == \A id \in Ids : id[1] \in Node /\ id[2] \in Names /\ id[3] \in Nat /\ id[1] # id[2]
BY DEF Ids

\* do_chat makes one message of a text.
LEMMA MessageOK ==
  ASSUME NEW T, NEW id \in Ids, NEW len \in 1 .. BufSize - 3, Known(id, T), Length(id, T) = len
  PROVE  MsgOK(Message(id, len), T) /\ Message(id, len)[1] = Unit("type", id)
<1> DEFINE m == Message(id, len)
           text == [k \in 1 .. len |-> Unit("text", id)]
<1>1. /\ len \in Nat /\ len > 0 /\ len + 2 < BufSize
  BY SizesAssumption
<1>2. text \in Seq(Units) /\ Len(text) = len
  BY <1>1, UnitFacts
<1>3. m = <<Unit("type", id), Unit("names", id)>> \o text
  BY DEF Message
<1> HIDE DEF text, m
<1>4. /\ m \in Seq(Units) /\ Len(m) = len + 2 /\ DOMAIN m = 1 .. len + 2
      /\ m[1] = Unit("type", id) /\ m[2] = Unit("names", id)
      /\ \A k \in DOMAIN m : k > 2 => m[k] = text[k - 2]
  BY <1>1, <1>2, <1>3, UnitFacts
<1>5. \A k \in DOMAIN m : k > 2 => m[k] = Unit("text", id)
  BY <1>1, <1>4 DEF text
<1>6. \A k \in DOMAIN m : m[k] # Eot /\ (m[k].kind = "type" => k = 1)
  BY <1>4, <1>5, UnitFacts
<1>7. HeadOK(m, 1, T)
  BY <1>1, <1>4, UnitFacts DEF HeadOK
<1> QED BY <1>1, <1>4, <1>6, <1>7 DEF MsgOK, StretchOK, m

\* send_tcp writes a message and EOT behind what is in the stream.
LEMMA SentOK ==
  ASSUME NEW T, NEW s, StreamOK(s, T), NEW m, MsgOK(m, T)
  PROVE  /\ StreamOK(s \o Append(m, Eot), T)
         /\ \A k \in DOMAIN (s \o Append(m, Eot)) :
              IF k <= Len(s) THEN (s \o Append(m, Eot))[k] = s[k]
              ELSE (s \o Append(m, Eot))[k].kind = "type" =>
                     k = Len(s) + 1 /\ (s \o Append(m, Eot))[k] = m[1]
<1> DEFINE e == Append(m, Eot)
           r == s \o e
<1>1. /\ s \in Seq(Units) /\ m \in Seq(Units) /\ Len(s) \in Nat /\ Len(m) \in Nat /\ Len(m) > 0
  BY DEF StreamOK, MsgOK, StretchOK
<1>2. e \in Seq(Units) /\ Len(e) = Len(m) + 1 /\ e[Len(m) + 1] = Eot /\ \A k \in 1 .. Len(m) : e[k] = m[k]
  BY <1>1, UnitFacts
<1> HIDE DEF e
<1>3. /\ r \in Seq(Units) /\ Len(r) = Len(s) + Len(m) + 1 /\ DOMAIN r = 1 .. Len(r)
      /\ \A k \in 1 .. Len(s) : r[k] = s[k]
      /\ \A k \in 1 .. Len(m) + 1 : r[Len(s) + k] = e[k]
  BY <1>1, <1>2
<1> HIDE DEF r
<1>4. r[Len(r)] = Eot
  <2>1. Len(m) + 1 \in 1 .. Len(m) + 1 /\ Len(r) = Len(s) + (Len(m) + 1)
    BY <1>1, <1>3
  <2> QED BY <1>2, <1>3, <2>1
<1>5. \A k \in 1 .. Len(m) : r[Len(s) + k] = m[k]
  BY <1>1, <1>2, <1>3
<1>6. ASSUME NEW p \in DOMAIN r, r[p].kind = "type", p > Len(s) PROVE p = Len(s) + 1
  <2>1. PICK k \in 1 .. Len(m) + 1 : p = Len(s) + k
    <3>1. p - Len(s) \in 1 .. Len(m) + 1 /\ p = Len(s) + (p - Len(s))
      BY <1>1, <1>3, <1>6
    <3> QED BY <3>1
  <2>2. k # Len(m) + 1
    BY <1>1, <1>2, <1>3, <1>6, <2>1, UnitFacts
  <2>3. k \in 1 .. Len(m) /\ m[k].kind = "type"
    BY <1>1, <1>5, <1>6, <2>1, <2>2
  <2>4. k > 1 => m[k - 1] = Eot /\ k - 1 \in DOMAIN m
    BY <1>1, <2>3 DEF MsgOK, StretchOK
  <2> QED BY <1>1, <2>1, <2>3, <2>4 DEF MsgOK
<1>7. ASSUME NEW p \in DOMAIN r, r[p].kind = "type"
      PROVE  HeadOK(r, p, T) /\ (p > 1 => r[p - 1] = Eot)
  <2>1. CASE p <= Len(s)
    <3>1. p \in DOMAIN s /\ p \in 1 .. Len(s) /\ r[p] = s[p] /\ s # <<>>
      BY <1>1, <1>3, <2>1
    <3>2. HeadOK(s, p, T) /\ (p > 1 => s[p - 1] = Eot) /\ s[Len(s)] = Eot
      BY <1>7, <3>1 DEF StreamOK, StretchOK
    <3>3. p # Len(s)
      BY <1>7, <3>1, <3>2, UnitFacts
    <3>4. p + 1 \in DOMAIN s /\ r[p + 1] = s[p + 1]
      BY <1>1, <1>3, <3>1, <3>3
    <3>5. ASSUME NEW k \in DOMAIN r, k > p + 1, r[k].kind = "text", \A j \in p .. k : r[j] # Eot
          PROVE  k - p - 1 <= Length(s[p].id, T)
      <4>1. k \in Nat /\ p \in Nat /\ (Len(s) <= k => Len(s) \in p .. k)
        BY <1>1, <1>3, <3>1, <3>5
      <4>2. k < Len(s)
        BY <1>1, <1>3, <3>1, <3>2, <3>5, <4>1
      <4>3. k \in DOMAIN s /\ \A j \in p .. k : r[j] = s[j]
        BY <1>1, <1>3, <4>1, <4>2, <3>1, <3>5
      <4>4. k \in p .. k
        BY <4>1, <3>5
      <4> QED BY <3>2, <3>5, <4>3, <4>4 DEF HeadOK
    <3>6. p > 1 => p - 1 \in 1 .. Len(s)
      BY <1>1, <3>1
    <3> QED BY <1>3, <3>1, <3>2, <3>4, <3>5, <3>6 DEF HeadOK
  <2>2. CASE p > Len(s)
    <3>1. p = Len(s) + 1 /\ r[p] = m[1] /\ 1 \in DOMAIN m
      BY <1>1, <1>5, <1>6, <1>7, <2>2
    <3>2. HeadOK(m, 1, T) /\ Len(m) > 1
      BY <1>7, <3>1 DEF MsgOK, StretchOK
    <3>3. r[p + 1] = m[2] /\ 2 \in DOMAIN m
      BY <1>1, <1>5, <3>1, <3>2
    <3>4. ASSUME NEW k \in DOMAIN r, k > p + 1, r[k].kind = "text"
          PROVE  k - p - 1 <= Length(m[1].id, T)
      <4>1. k # Len(r)
        BY <1>4, <3>4, UnitFacts
      <4>2. k - Len(s) \in 1 .. Len(m) /\ k = Len(s) + (k - Len(s)) /\ k - Len(s) > 2
        <5>1. k \in 1 .. Len(s) + Len(m) + 1 /\ k # Len(s) + Len(m) + 1 /\ k > Len(s) + 1 + 1
          BY <1>3, <3>1, <3>4, <4>1
        <5> QED BY <1>1, <5>1
      <4>3. PICK i \in 1 .. Len(m) : k = Len(s) + i /\ i > 2
        BY <4>2
      <4>4. i \in DOMAIN m /\ i > 1 + 1 /\ m[i].kind = "text" /\ (\A j \in 1 .. i : m[j] # Eot)
        BY <1>1, <1>5, <3>4, <4>3 DEF MsgOK
      <4>5. i - 1 - 1 <= Length(m[1].id, T)
        BY <3>2, <4>4 DEF HeadOK
      <4>6. k - p - 1 = i - 1 - 1
        BY <1>1, <3>1, <4>3
      <4> QED BY <4>5, <4>6
    <3>5. p > 1 => p - 1 = Len(s) /\ Len(s) \in 1 .. Len(s) /\ s # <<>>
      BY <1>1, <3>1
    <3>6. p > 1 => r[p - 1] = Eot
      BY <1>3, <3>5 DEF StreamOK
    <3>7. /\ Known(r[p].id, T)
          /\ p + 1 \in DOMAIN r => r[p + 1] = Unit("names", r[p].id)
      BY <3>1, <3>2, <3>3 DEF HeadOK
    <3> QED BY <3>1, <3>4, <3>6, <3>7 DEF HeadOK
  <2> QED BY <1>1, <1>3, <2>1, <2>2
<1>8. StreamOK(r, T)
  BY <1>3, <1>4, <1>7 DEF StreamOK, StretchOK
<1>9. ASSUME NEW k \in DOMAIN r
      PROVE  IF k <= Len(s) THEN r[k] = s[k]
             ELSE r[k].kind = "type" => k = Len(s) + 1 /\ r[k] = m[1]
  <2>1. k <= Len(s) => k \in 1 .. Len(s)
    BY <1>1, <1>3
  <2>2. ~(k <= Len(s)) => k > Len(s)
    BY <1>1, <1>3
  <2>3. 1 \in 1 .. Len(m)
    BY <1>1
  <2> QED BY <1>3, <1>5, <1>6, <2>1, <2>2, <2>3
<1> QED BY <1>8, <1>9 DEF r, e

LEMMA Shift ==
  ASSUME NEW n \in Nat, NEW j \in 1 .. n, NEW p \in 1 .. n - j
  PROVE  /\ p \in Nat /\ p + j \in 1 .. n /\ p + j > 1
         /\ p > 1 => p - 1 \in 1 .. n - j /\ (p - 1) + j = (p + j) - 1
         /\ p + 1 \in 1 .. n - j => (p + j) + 1 \in 1 .. n /\ (p + 1) + j = (p + j) + 1
OBVIOUS

\* A read takes the beginning of a stream.
LEMMA CutOK ==
  ASSUME NEW T, NEW s, StreamOK(s, T), NEW j \in 1 .. Len(s)
  PROVE  /\ StretchOK(SubSeq(s, 1, j), T) /\ Len(SubSeq(s, 1, j)) = j
         /\ StreamOK(SubSeq(s, j + 1, Len(s)), T)
         /\ Len(SubSeq(s, j + 1, Len(s))) = Len(s) - j
         /\ \A k \in 1 .. j : SubSeq(s, 1, j)[k] = s[k]
         /\ \A k \in 1 .. Len(s) - j : SubSeq(s, j + 1, Len(s))[k] = s[k + j]
<1> DEFINE piece == SubSeq(s, 1, j)
           rest == SubSeq(s, j + 1, Len(s))
<1>1. s \in Seq(Units) /\ Len(s) \in Nat /\ j \in Nat /\ j > 0 /\ j <= Len(s) /\ DOMAIN s = 1 .. Len(s)
  BY DEF StreamOK, StretchOK
<1>2. piece \in Seq(Units) /\ Len(piece) = j /\ DOMAIN piece = 1 .. j /\ \A k \in 1 .. j : piece[k] = s[k]
  BY <1>1
<1>3. /\ rest \in Seq(Units) /\ Len(rest) = Len(s) - j /\ DOMAIN rest = 1 .. Len(s) - j
      /\ \A k \in 1 .. Len(s) - j : rest[k] = s[k + j]
  <2>1. Len(s) - j = Len(s) - (j + 1) + 1 /\ j + 1 \in Nat /\ Len(s) - j \in Nat
    BY <1>1
  <2>2. rest = [k \in 1 .. Len(s) - (j + 1) + 1 |-> s[k + (j + 1) - 1]]
    BY <1>1
  <2>3. \A k \in 1 .. Len(s) - j : k + (j + 1) - 1 = k + j /\ k + j \in 1 .. Len(s)
    BY <1>1
  <2>4. rest = [k \in 1 .. Len(s) - j |-> s[k + j]] /\ \A k \in 1 .. Len(s) - j : s[k + j] \in Units
    BY <1>1, <2>1, <2>2, <2>3
  <2> HIDE DEF rest
  <2> QED BY <2>1, <2>4
<1> HIDE DEF piece, rest
<1>4. ASSUME NEW p \in DOMAIN piece, piece[p].kind = "type"
      PROVE  HeadOK(piece, p, T) /\ (p > 1 => piece[p - 1] = Eot)
  <2>1. p \in DOMAIN s /\ p \in Nat /\ piece[p] = s[p] /\ (p > 1 => p - 1 \in 1 .. j)
    BY <1>1, <1>2
  <2>2. HeadOK(s, p, T) /\ (p > 1 => s[p - 1] = Eot)
    BY <1>4, <2>1 DEF StreamOK, StretchOK
  <2>3. p + 1 \in DOMAIN piece => p + 1 \in DOMAIN s /\ piece[p + 1] = s[p + 1]
    BY <1>1, <1>2
  <2>4. ASSUME NEW k \in DOMAIN piece, k > p + 1, piece[k].kind = "text", \A i \in p .. k : piece[i] # Eot
        PROVE  k - p - 1 <= Length(s[p].id, T)
    <3>1. k \in DOMAIN s /\ s[k].kind = "text" /\ \A i \in p .. k : i \in 1 .. j
      BY <1>1, <1>2, <2>4
    <3>2. \A i \in p .. k : s[i] # Eot
      BY <1>2, <2>4, <3>1
    <3> QED BY <2>2, <2>4, <3>1, <3>2 DEF HeadOK
  <2> QED BY <1>2, <2>1, <2>2, <2>3, <2>4 DEF HeadOK
<1>5. ASSUME NEW p \in DOMAIN rest, rest[p].kind = "type"
      PROVE  HeadOK(rest, p, T) /\ (p > 1 => rest[p - 1] = Eot)
  <2>1. /\ p + j \in DOMAIN s /\ p \in Nat /\ rest[p] = s[p + j]
        /\ p > 1 => p - 1 \in 1 .. Len(s) - j /\ (p - 1) + j = (p + j) - 1
        /\ p + j > 1
    <3>1. p \in 1 .. Len(s) - j
      BY <1>3
    <3> QED BY <1>1, <1>3, <3>1, Shift
  <2>2. HeadOK(s, p + j, T) /\ s[(p + j) - 1] = Eot
    BY <1>5, <2>1 DEF StreamOK, StretchOK
  <2>3. p + 1 \in DOMAIN rest => (p + j) + 1 \in DOMAIN s /\ rest[p + 1] = s[(p + j) + 1]
    <3>1. p + 1 \in DOMAIN rest => (p + j) + 1 \in DOMAIN s /\ (p + 1) + j = (p + j) + 1
      <4>1. p \in 1 .. Len(s) - j
        BY <1>3
      <4> QED BY <1>1, <1>3, <4>1, Shift
    <3> QED BY <1>3, <3>1
  <2>4. ASSUME NEW k \in DOMAIN rest, k > p + 1, rest[k].kind = "text", \A i \in p .. k : rest[i] # Eot
        PROVE  k - p - 1 <= Length(s[p + j].id, T)
    <3>1. k + j \in DOMAIN s /\ s[k + j].kind = "text" /\ k + j > (p + j) + 1
      BY <1>1, <1>3, <2>1, <2>4
    <3>2. ASSUME NEW i \in (p + j) .. (k + j) PROVE s[i] # Eot
      <4>1. i - j \in p .. k /\ i - j \in 1 .. Len(s) - j /\ (i - j) + j = i
        BY <1>1, <1>3, <2>1
      <4> QED BY <1>3, <2>4, <4>1
    <3>3. (k + j) - (p + j) - 1 <= Length(s[p + j].id, T)
      BY <2>2, <3>1, <3>2 DEF HeadOK
    <3>4. (k + j) - (p + j) - 1 = k - p - 1
      BY <1>1, <1>3, <2>1
    <3> QED BY <3>3, <3>4
  <2>5. p > 1 => rest[p - 1] = Eot
    BY <1>3, <2>1, <2>2
  <2>6. HeadOK(rest, p, T)
    BY <2>1, <2>2, <2>3, <2>4 DEF HeadOK
  <2> QED BY <2>5, <2>6
<1>6. rest # <<>> => rest[Len(rest)] = Eot
  <2>1. rest # <<>> => Len(rest) \in 1 .. Len(s) - j /\ Len(rest) + j = Len(s) /\ s # <<>>
    BY <1>1, <1>3
  <2> QED BY <1>3, <2>1 DEF StreamOK
<1> QED BY <1>2, <1>3, <1>4, <1>5, <1>6 DEF StreamOK, StretchOK, piece, rest

-----------------------------------------------------------------------------
LEMMA FirstEotFacts ==
  ASSUME NEW msg \in Seq(Units)
  PROVE  /\ FirstEot(msg) \in 1 .. BufSize
         /\ FirstEot(msg) < BufSize => FirstEot(msg) \in DOMAIN msg
         /\ \A k \in DOMAIN msg : k < FirstEot(msg) => msg[k] # Eot
<1> DEFINE ends == {k \in DOMAIN msg : k < BufSize /\ msg[k] = Eot}
<1>1. BufSize \in Nat /\ BufSize > 3 /\ ends \in SUBSET Nat /\ FirstEot(msg) = IF ends = {} THEN BufSize ELSE Min(ends)
  BY SizesAssumption DEF FirstEot
<1>2. CASE ends = {}
  BY <1>1, <1>2
<1>3. CASE ends # {}
  <2>1. Min(ends) \in ends /\ \A k \in ends : Min(ends) <= k
    BY <1>1, <1>3, LeastElement
  <2>2. ASSUME NEW k \in DOMAIN msg, k < Min(ends) PROVE msg[k] # Eot
    <3>1. Min(ends) \in Nat /\ Min(ends) < BufSize /\ k \in Nat /\ (msg[k] = Eot /\ k < BufSize => k \in ends)
      BY <2>1
    <3> HIDE DEF ends
    <3>2. k \notin ends
      BY <2>1, <2>2, <3>1
    <3> QED BY <1>1, <2>2, <3>1, <3>2
  <2> QED BY <1>1, <1>3, <2>1, <2>2
<1> QED BY <1>2, <1>3

LEMMA HeadedFacts ==
  ASSUME NEW T, NEW piece, StretchOK(piece, T), Headed(piece)
  PROVE  /\ piece[1].id \in Ids /\ Known(piece[1].id, T) /\ HeadOK(piece, 1, T)
         /\ piece[1] = Unit("type", piece[1].id) /\ piece[2] = Unit("names", piece[1].id)
         /\ piece[2].id = piece[1].id /\ 1 \in DOMAIN piece /\ 2 \in DOMAIN piece
<1>1. piece \in Seq(Units) /\ Len(piece) \in Nat /\ Len(piece) > 1 /\ piece[1].kind = "type"
  BY DEF StretchOK, Headed
<1>2. 1 \in DOMAIN piece /\ 2 \in DOMAIN piece /\ piece[1] \in Units
  BY <1>1
<1>3. HeadOK(piece, 1, T) /\ piece[1].id \in Ids /\ piece[1] = Unit("type", piece[1].id)
  <2>1. HeadOK(piece, 1, T)
    BY <1>1, <1>2 DEF StretchOK
  <2>2. piece[1].id \in Ids
    BY <1>1, <1>2, UnitFacts
  <2>3. piece[1] = Unit("type", piece[1].id)
    BY <1>1, <1>2 DEF Units, Unit, Pad, Eot
  <2> QED BY <2>1, <2>2, <2>3
<1>4. piece[2] = Unit("names", piece[1].id)
  BY <1>2, <1>3 DEF HeadOK
<1> QED BY <1>2, <1>3, <1>4, UnitFacts DEF HeadOK

\* What forward passes on: the message without EOT.
Forwarded(piece) == [k \in 1 .. MsgLen(piece) |-> IF k <= Len(piece) THEN piece[k] ELSE Pad]

LEMMA ForwardedOK ==
  ASSUME NEW T, NEW piece, StretchOK(piece, T), Headed(piece)
  PROVE  MsgOK(Forwarded(piece), T) /\ Forwarded(piece)[1] = piece[1]
<1> DEFINE m == Forwarded(piece)
           len == MsgLen(piece)
<1>1. piece \in Seq(Units) /\ Len(piece) \in Nat /\ Len(piece) > 1 /\ DOMAIN piece = 1 .. Len(piece)
  BY DEF StretchOK, Headed
<1>2. /\ FirstEot(piece) \in 1 .. BufSize /\ len = FirstEot(piece) - 1
      /\ \A k \in DOMAIN piece : k < FirstEot(piece) => piece[k] # Eot
      /\ BufSize \in Nat /\ BufSize > 3
      /\ FirstEot(piece) < BufSize => FirstEot(piece) \in DOMAIN piece /\ piece[FirstEot(piece)] = Eot
  <2>1. FirstEot(piece) < BufSize => piece[FirstEot(piece)] = Eot
    <3> DEFINE ends == {k \in DOMAIN piece : k < BufSize /\ piece[k] = Eot}
    <3>1. FirstEot(piece) = IF ends = {} THEN BufSize ELSE Min(ends)
      BY DEF FirstEot
    <3>2. ends \in SUBSET Nat
      BY <1>1
    <3>3. ends # {} => Min(ends) \in ends
      <4> HIDE DEF ends
      <4> QED BY <3>2, LeastElement
    <3> QED BY <3>1, <3>3, SizesAssumption
  <2> QED BY <1>1, <2>1, FirstEotFacts, SizesAssumption DEF MsgLen
<1>3. /\ piece[1].id \in Ids /\ HeadOK(piece, 1, T) /\ piece[1] # Eot /\ piece[2] # Eot
      /\ piece[1].kind = "type"
  BY HeadedFacts, UnitFacts DEF Headed
<1>4. FirstEot(piece) > 2
  <2>1. FirstEot(piece) < BufSize => FirstEot(piece) # 1 /\ FirstEot(piece) # 2
    BY <1>2, <1>3
  <2> QED BY <1>2, <2>1
<1> HIDE DEF len
<1>5. len \in Nat /\ len > 1 /\ len < BufSize /\ \A k \in 1 .. len : k \in Nat /\ k < FirstEot(piece)
  BY <1>2, <1>4
<1>6. m = [k \in 1 .. len |-> IF k <= Len(piece) THEN piece[k] ELSE Pad]
  BY DEF Forwarded, len
<1> HIDE DEF m
<1>7. /\ m \in Seq(Units) /\ Len(m) = len /\ DOMAIN m = 1 .. len
      /\ \A k \in 1 .. len : m[k] = IF k \in DOMAIN piece THEN piece[k] ELSE Pad
  BY <1>1, <1>5, <1>6, UnitFacts
<1>8. \A k \in DOMAIN m : m[k] # Eot
  BY <1>2, <1>5, <1>7, UnitFacts
<1>9. \A p \in DOMAIN m : m[p].kind = "type" => p = 1
  <2> SUFFICES ASSUME NEW p \in DOMAIN m, m[p].kind = "type", p # 1 PROVE FALSE
    OBVIOUS
  <2>1. p \in DOMAIN piece /\ piece[p].kind = "type" /\ p > 1
    BY <1>7, UnitFacts
  <2>2. piece[p - 1] = Eot
    BY <2>1 DEF StretchOK
  <2>3. p - 1 \in DOMAIN piece /\ p - 1 \in 1 .. len
    BY <1>1, <1>5, <1>7, <2>1
  <2> QED BY <1>2, <1>5, <2>2, <2>3
<1>10. HeadOK(m, 1, T)
  <2>1. m[1] = piece[1] /\ m[2] = piece[2] /\ 2 \in DOMAIN piece
    BY <1>1, <1>5, <1>7
  <2>2. ASSUME NEW k \in DOMAIN m, k > 1 + 1, m[k].kind = "text", \A i \in 1 .. k : m[i] # Eot
        PROVE  k - 1 - 1 <= Length(piece[1].id, T)
    <3>1. k \in DOMAIN piece /\ piece[k].kind = "text"
      BY <1>7, <2>2, UnitFacts
    <3>2. \A i \in 1 .. k : i \in 1 .. len /\ i \in DOMAIN piece /\ i < FirstEot(piece)
      BY <1>1, <1>5, <1>7, <3>1
    <3>3. \A i \in 1 .. k : piece[i] # Eot
      BY <1>2, <3>2
    <3> QED BY <1>3, <2>2, <3>1, <3>3 DEF HeadOK
  <2>3. Known(piece[1].id, T) /\ piece[2] = Unit("names", piece[1].id)
    BY HeadedFacts
  <2> QED BY <2>1, <2>2, <2>3 DEF HeadOK
<1>11. /\ Len(m) > 0 /\ Len(m) < BufSize /\ Len(m) > 1 /\ m[1] = piece[1]
       /\ \A p \in DOMAIN m : m[p].kind = "type" => ~(p > 1)
  BY <1>1, <1>5, <1>7, <1>9
<1>12. StretchOK(m, T)
  BY <1>7, <1>9, <1>10, <1>11 DEF StretchOK
<1> QED BY <1>8, <1>11, <1>12 DEF MsgOK, m

\* No message shows more of a text than was typed.
LEMMA PartsOK ==
  ASSUME NEW T, NEW piece, StretchOK(piece, T), Headed(piece), Length(piece[1].id, T) \in Nat
  PROVE  Parts(piece) \in Nat /\ Parts(piece) <= Length(piece[1].id, T)
<1> DEFINE len == Length(piece[1].id, T)
           S == {k \in DOMAIN piece : k <= MsgLen(piece) /\ piece[k].kind = "text"}
<1>1. piece \in Seq(Units) /\ FirstEot(piece) \in 1 .. BufSize /\ MsgLen(piece) = FirstEot(piece) - 1
  BY FirstEotFacts DEF StretchOK, MsgLen
<1>2. \A k \in DOMAIN piece : k \in Nat /\ k > 0 /\ (k <= MsgLen(piece) => k < FirstEot(piece))
  BY <1>1
<1>3. /\ HeadOK(piece, 1, T) /\ piece[1].kind = "type" /\ piece[2].kind = "names"
      /\ \A k \in DOMAIN piece : k < FirstEot(piece) => piece[k] # Eot
  BY <1>1, HeadedFacts, FirstEotFacts, UnitFacts DEF Headed
<1>4. ASSUME NEW k \in S PROVE k \in 3 .. len + 2
  <2>1. k > 1 + 1
    BY <1>2, <1>3
  <2>2. ASSUME NEW i \in 1 .. k PROVE piece[i] # Eot
    <3>1. i \in DOMAIN piece /\ i < FirstEot(piece)
      BY <1>1, <1>2
    <3> QED BY <1>3, <3>1
  <2>3. k - 1 - 1 <= len
    BY <1>3, <2>1, <2>2 DEF HeadOK
  <2> QED BY <1>2, <2>1, <2>3
<1>5. IsFiniteSet(3 .. len + 2) /\ Cardinality(3 .. len + 2) <= len
  <2> HIDE DEF len
  <2>1. len \in Nat
    BY DEF len
  <2>2. IsFiniteSet(3 .. len + 2) /\ Cardinality(3 .. len + 2) = IF 3 > len + 2 THEN 0 ELSE (len + 2) - 3 + 1
    BY <2>1, FS_Interval
  <2> QED BY <2>1, <2>2
<1>6. Cardinality(S) <= Cardinality(3 .. len + 2) /\ IsFiniteSet(S)
  BY <1>4, <1>5, FS_Subset
<1>7. Cardinality(S) \in Nat /\ Cardinality(3 .. len + 2) \in Nat
  BY <1>5, <1>6, FS_CardinalityType
<1>8. Parts(piece) = Cardinality(S)
  BY DEF Parts
<1> HIDE DEF S, len
<1>9. len \in Nat
  BY DEF len
<1> QED BY <1>5, <1>6, <1>7, <1>8, <1>9 DEF len

-----------------------------------------------------------------------------
(***************************************************************************)
(* The type invariant, and what queues and streams carry.  Pipe is what    *)
(* has been written to a connection and not yet been handled: the buffer   *)
(* of read_tcp, if it is at that connection, and the stream.               *)
(***************************************************************************)
Buf(l) == IF server[l[2]].from = l[1] THEN server[l[2]].buf ELSE <<>>
Pipe(l) == Buf(l) \o stream[l]

Users2 == Names \cup {System}
Packets == [to : Node \cup {NoName}, msg : Seq(Units)]
Texts == [id : (Node \X Users2 \X Nat) \cup {<<>>}, parts : Nat]
News == [name : Users2, text : Texts]
Tabs == [user : Users2, msgs : Seq(Texts), unread : BOOLEAN]
Servers == [from : Node \cup {NoName}, buf : Seq(Units), reads : 0 .. MaxRead - 1]

\* A text of x for n, of which not more is left than there was.
TextOK(t, x, n, T) ==
  /\ t.id \in Ids /\ t.id[1] = x /\ t.id[2] = n
  /\ Known(t.id, T) /\ t.parts <= Length(t.id, T)

Histories == [Node \X Users2 -> Seq(1 .. BufSize - 3)]

WireTypes ==
  /\ sendq \in [Node -> Seq(Packets)]
  /\ stream \in [Link -> Seq(Units)]
  /\ server \in [Node -> Servers]
  /\ series \in [Node -> SUBSET Names]
  /\ \A n \in Node : /\ Len(sendq[n]) <= MaxQueue
                     /\ Len(server[n].buf) = server[n].reads * BufSize
                     /\ server[n].from = NoName => server[n].buf = <<>>
  /\ \A n \in Node : \A k \in DOMAIN sendq[n] : MsgOK(sendq[n][k].msg, typed)
  /\ \A l \in Link : StreamOK(Pipe(l), typed)

NewsOK(q, n, T) ==
  /\ q \in Seq(News)
  /\ Len(q) <= MaxQueue
  /\ \A k \in DOMAIN q : /\ q[k].name # n
                         /\ q[k].text = Notice \/ TextOK(q[k].text, q[k].name, n, T)

TabOK(tab, n, T) ==
  /\ tab \in Tabs
  /\ tab.user # n
  /\ Len(tab.msgs) <= MaxMsgs
  /\ \A k \in DOMAIN tab.msgs :
       \/ tab.msgs[k] = Notice
       \/ TextOK(tab.msgs[k], tab.user, n, T)
       \/ tab.msgs[k].id # <<>> /\ tab.msgs[k].id[1] = n /\ tab.msgs[k].id[2] = tab.user

TabsOK(ts, n, T) ==
  /\ ts \in Seq(Tabs)
  /\ \A i \in DOMAIN ts : TabOK(ts[i], n, T)
  /\ \A i, j \in DOMAIN ts : ts[i].user = ts[j].user => i = j

ScreenTypes ==
  /\ uiq \in [Node -> Seq(News)]
  /\ tabs \in [Node -> Seq(Tabs)]
  /\ active \in [Node -> Nat]
  /\ \A n \in Node : /\ active[n] \in DOMAIN tabs[n]
                     /\ NewsOK(uiq[n], n, typed)
                     /\ TabsOK(tabs[n], n, typed)

TypeInv ==
  /\ typed \in Histories
  /\ WireTypes
  /\ ScreenTypes
  /\ faults \in 0 .. MaxFaults
  /\ intact \in BOOLEAN

\* Texts that have been typed stay what they are.
Keeps(T, U) == \A id \in Ids : Known(id, T) => Known(id, U) /\ Length(id, U) = Length(id, T)

LEMMA KeepsStretch ==
  ASSUME NEW T, NEW U, Keeps(T, U), NEW s, StretchOK(s, T)
  PROVE  StretchOK(s, U)
<1> SUFFICES ASSUME NEW p \in DOMAIN s, s[p].kind = "type" PROVE HeadOK(s, p, U)
  BY DEF StretchOK
<1>1. HeadOK(s, p, T) /\ s[p].id \in Ids
  BY UnitFacts DEF StretchOK
<1> QED BY <1>1 DEF HeadOK, Keeps

LEMMA KeepsAll ==
  ASSUME NEW T, NEW U, Keeps(T, U)
  PROVE  /\ \A s : StreamOK(s, T) => StreamOK(s, U)
         /\ \A m : MsgOK(m, T) => MsgOK(m, U)
         /\ \A q, n : NewsOK(q, n, T) => NewsOK(q, n, U)
         /\ \A t, n : TabOK(t, n, T) => TabOK(t, n, U)
         /\ \A ts, n : TabsOK(ts, n, T) => TabsOK(ts, n, U)
<1>1. \A s : StreamOK(s, T) => StreamOK(s, U)
  BY KeepsStretch DEF StreamOK
<1>2. \A m : MsgOK(m, T) => MsgOK(m, U)
  BY KeepsStretch DEF MsgOK
<1>3. \A t, x, n : TextOK(t, x, n, T) => TextOK(t, x, n, U)
  BY DEF TextOK, Keeps
<1>4. \A q, n : NewsOK(q, n, T) => NewsOK(q, n, U)
  BY <1>3 DEF NewsOK
<1>5. \A t, n : TabOK(t, n, T) => TabOK(t, n, U)
  BY <1>3 DEF TabOK
<1>6. \A ts, n : TabsOK(ts, n, T) => TabsOK(ts, n, U)
  BY <1>5 DEF TabsOK
<1> QED BY <1>1, <1>2, <1>4, <1>5, <1>6

LEMMA NameFacts ==
  /\ Node \subseteq Names /\ NoName \notin Names /\ System \notin Names /\ NoName # System
  /\ NoName \notin Node /\ System \notin Node
  /\ \A x : \A n \in Node : GetRouting(n, x) \in Node \cup {NoName} /\ GetRouting(n, x) # n
  /\ \A n \in Node : DOMAIN NextHop[n] \subseteq Names \ {n}
<1>1. Node \subseteq Names
  BY DEF Names
<1>2. \A n \in Node : DOMAIN NextHop[n] \subseteq Names
  BY DEF Names
<1> QED BY <1>1, <1>2, NamesAssumption DEF GetRouting

LEMMA NoticeFacts == Notice \in Texts /\ Notice.id = <<>>
BY DEF Notice, Text, Texts

-----------------------------------------------------------------------------
LEMMA KnownToFacts ==
  ASSUME NEW n \in Node
  PROVE  /\ KnownTo(n) \in Seq(Names \ {n}) /\ Len(KnownTo(n)) <= MaxQueue
<1> DEFINE D == DOMAIN NextHop[n]
           c == Cardinality(D)
<1>1. IsFiniteSet(D) /\ D \subseteq Names \ {n}
  <2>1. D \subseteq Names /\ D \subseteq Names \ {n}
    BY NameFacts
  <2> QED BY <2>1, TabsAssumption, FS_Subset
<1>2. c \in Nat /\ ExistsBijection(1 .. c, D)
  BY <1>1, FS_CardinalityType
<1>3. \E f \in [1 .. c -> D] : IsInjective(f)
  BY <1>2 DEF ExistsBijection, Bijection, Injection
<1>4. KnownTo(n) \in [1 .. c -> D]
  BY <1>3 DEF KnownTo, SetToSeq
<1>5. c <= MaxQueue
  BY QueueAssumption
<1> HIDE DEF D, c
<1> QED BY <1>1, <1>2, <1>4, <1>5

LEMMA InitTypes == Init => TypeInv
<1> SUFFICES ASSUME Init PROVE TypeInv
  OBVIOUS
<1> DEFINE news(n) == [k \in DOMAIN KnownTo(n) |-> [name |-> KnownTo(n)[k], text |-> Notice]]
           first == [user |-> System, msgs |-> <<Notice>>, unread |-> FALSE]
<1>1. typed \in Histories
  BY DEF Init, Histories, Users2
<1>2. /\ \A l \in Link : Pipe(l) = <<>>
      /\ StreamOK(<<>>, typed)
  BY NameFacts DEF Init, Pipe, Buf, Ready, Link, StreamOK, StretchOK
<1>3. WireTypes
  BY <1>2, SizesAssumption DEF Init, WireTypes, Ready, Servers
<1>4. ASSUME NEW n \in Node PROVE NewsOK(news(n), n, typed)
  <2>1. KnownTo(n) \in Seq(Names \ {n}) /\ Len(KnownTo(n)) <= MaxQueue
    BY KnownToFacts
  <2>2. news(n) \in Seq(News) /\ Len(news(n)) = Len(KnownTo(n))
    <3> DEFINE q == KnownTo(n)
    <3>1. Len(q) \in Nat /\ DOMAIN q = 1 .. Len(q) /\ \A k \in 1 .. Len(q) : q[k] \in Names
      BY <2>1
    <3> HIDE DEF q
    <3>2. \A k \in 1 .. Len(q) : [name |-> q[k], text |-> Notice] \in News
      BY <3>1, NoticeFacts DEF News, Users2
    <3>3. news(n) = [k \in 1 .. Len(q) |-> [name |-> q[k], text |-> Notice]]
      BY <3>1 DEF q
    <3> QED BY <3>1, <3>2, <3>3 DEF q
  <2>3. \A k \in DOMAIN news(n) : news(n)[k].name # n /\ news(n)[k].text = Notice
    BY <2>1
  <2> HIDE DEF news
  <2> QED BY <2>1, <2>2, <2>3 DEF NewsOK
<1>5. ASSUME NEW n \in Node PROVE TabsOK(<<first>>, n, typed)
  <2>1. first \in Tabs /\ first.user # n /\ Len(first.msgs) <= MaxMsgs
    BY NoticeFacts, NameFacts, SizesAssumption DEF Tabs, Users2
  <2>2. \A k \in DOMAIN first.msgs : first.msgs[k] = Notice
    OBVIOUS
  <2>3. TabOK(first, n, typed)
    BY <2>1, <2>2 DEF TabOK
  <2> HIDE DEF first
  <2> QED BY <2>1, <2>3 DEF TabsOK
<1>6. /\ uiq = [n \in Node |-> news(n)] /\ tabs = [n \in Node |-> <<first>>]
      /\ active = [n \in Node |-> 1]
  BY DEF Init
<1> HIDE DEF news, first
<1>7. ScreenTypes
  <2>1. uiq \in [Node -> Seq(News)] /\ \A n \in Node : NewsOK(uiq[n], n, typed)
    BY <1>4, <1>6 DEF NewsOK
  <2>2. tabs \in [Node -> Seq(Tabs)] /\ \A n \in Node : TabsOK(tabs[n], n, typed)
    BY <1>5, <1>6 DEF TabsOK
  <2>3. \A n \in Node : active[n] \in DOMAIN tabs[n]
    BY <1>6
  <2> QED BY <1>6, <2>1, <2>2, <2>3 DEF ScreenTypes
<1>8. faults \in 0 .. MaxFaults /\ intact \in BOOLEAN
  BY SizesAssumption DEF Init
<1> QED BY <1>1, <1>3, <1>7, <1>8 DEF TypeInv

-----------------------------------------------------------------------------
LEMMA PushFacts ==
  ASSUME NEW S, NEW q \in Seq(S), NEW x \in S, Len(q) <= MaxQueue
  PROVE  /\ Push(q, x) \in Seq(S) /\ Len(Push(q, x)) <= MaxQueue
         /\ \A k \in DOMAIN Push(q, x) :
              \/ k \in DOMAIN q /\ Push(q, x)[k] = q[k]
              \/ k = Len(q) + 1 /\ Push(q, x)[k] = x
         /\ HasRoom(q) => Push(q, x) = Append(q, x)
         /\ ~HasRoom(q) => Push(q, x) = q
<1>1. /\ HasRoom(q) => Push(q, x) = Append(q, x)
      /\ ~HasRoom(q) => Push(q, x) = q
  BY DEF Push
<1>2. /\ Append(q, x) \in Seq(S) /\ Len(Append(q, x)) = Len(q) + 1 /\ Len(q) \in Nat
      /\ \A k \in DOMAIN Append(q, x) :
           \/ k \in DOMAIN q /\ Append(q, x)[k] = q[k]
           \/ k = Len(q) + 1 /\ Append(q, x)[k] = x
  <2> DEFINE r == Append(q, x)
  <2>1. Len(q) \in Nat /\ DOMAIN q = 1 .. Len(q) /\ r \in Seq(S) /\ Len(r) = Len(q) + 1
    OBVIOUS
  <2>2. DOMAIN r = 1 .. Len(q) + 1 /\ \A k \in 1 .. Len(q) + 1 : r[k] = IF k = Len(q) + 1 THEN x ELSE q[k]
    OBVIOUS
  <2> HIDE DEF r
  <2>3. \A k \in DOMAIN r : k \in DOMAIN q \/ k = Len(q) + 1
    BY <2>1, <2>2
  <2>4. \A k \in DOMAIN q : k # Len(q) + 1
    BY <2>1
  <2>5. \A k \in DOMAIN r : (k \in DOMAIN q /\ r[k] = q[k]) \/ (k = Len(q) + 1 /\ r[k] = x)
    BY <2>2, <2>3, <2>4
  <2> QED BY <2>1, <2>5 DEF r
<1>3. HasRoom(q) => Len(q) + 1 <= MaxQueue
  BY <1>2, SizesAssumption DEF HasRoom
<1>4. CASE HasRoom(q)
  BY <1>1, <1>2, <1>3, <1>4
<1>5. CASE ~HasRoom(q)
  <2>1. Push(q, x) = q
    BY <1>1, <1>5
  <2> QED BY <1>5, <2>1
<1> QED BY <1>4, <1>5

LEMMA PushNews ==
  ASSUME NEW T, NEW n \in Node, NEW q, NewsOK(q, n, T), NEW u \in News,
         u.name # n, u.text = Notice \/ TextOK(u.text, u.name, n, T)
  PROVE  NewsOK(Push(q, u), n, T)
<1>1. q \in Seq(News) /\ Len(q) <= MaxQueue
  BY DEF NewsOK
<1> DEFINE r == Push(q, u)
<1>2. r \in Seq(News) /\ Len(r) <= MaxQueue /\ \A k \in DOMAIN r : r[k] = u \/ (k \in DOMAIN q /\ r[k] = q[k])
  BY <1>1, PushFacts
<1> HIDE DEF r
<1>3. NewsOK(r, n, T)
  BY <1>2 DEF NewsOK
<1> QED BY <1>3 DEF r

LEMMA TailNews ==
  ASSUME NEW T, NEW n \in Node, NEW q, NewsOK(q, n, T), q # <<>>
  PROVE  /\ NewsOK(Tail(q), n, T)
         /\ Head(q) \in News /\ Head(q).name # n
         /\ Head(q).text = Notice \/ TextOK(Head(q).text, Head(q).name, n, T)
<1>1. q \in Seq(News) /\ Len(q) <= MaxQueue /\ 1 \in DOMAIN q /\ Head(q) = q[1]
  BY DEF NewsOK
<1>2. /\ Tail(q) \in Seq(News) /\ Len(Tail(q)) <= MaxQueue
      /\ \A k \in DOMAIN Tail(q) : k + 1 \in DOMAIN q /\ Tail(q)[k] = q[k + 1]
  BY <1>1, SizesAssumption
<1> QED BY <1>1, <1>2 DEF NewsOK

\* What AddMessage makes of a tab.
AddedOK(tab, t, n, T) ==
  LET new == AddMessage(tab, t)
  IN  TabOK(new, n, T) /\ new.user = tab.user /\ new.msgs \in {tab.msgs, Append(tab.msgs, t)}

LEMMA AddMessageOK ==
  ASSUME NEW T, NEW n \in Node, NEW tab, TabOK(tab, n, T), NEW t \in Texts,
         \/ t = Notice
         \/ TextOK(t, tab.user, n, T)
         \/ t.id # <<>> /\ t.id[1] = n /\ t.id[2] = tab.user
  PROVE  AddedOK(tab, t, n, T)
<1>1. tab \in Tabs /\ tab.msgs \in Seq(Texts) /\ Len(tab.msgs) \in Nat
  BY DEF TabOK, Tabs
<1>2. CASE ~(Len(tab.msgs) < MaxMsgs)
  BY <1>2 DEF AddMessage, AddedOK
<1>3. CASE Len(tab.msgs) < MaxMsgs
  <2> DEFINE new == [tab EXCEPT !.msgs = Append(@, t)]
             ms == Append(tab.msgs, t)
  <2>1. /\ ms \in Seq(Texts) /\ Len(ms) = Len(tab.msgs) + 1
        /\ \A k \in DOMAIN ms : ms[k] = t \/ (k \in DOMAIN tab.msgs /\ ms[k] = tab.msgs[k])
    BY <1>1
  <2>2. new \in Tabs /\ new.user = tab.user /\ new.msgs = ms
    BY <1>1, <2>1 DEF Tabs
  <2>3. Len(ms) <= MaxMsgs
    BY <1>1, <1>3, <2>1, SizesAssumption
  <2>4. AddMessage(tab, t) = new
    BY <1>3 DEF AddMessage
  <2> HIDE DEF new, ms
  <2>5. TabOK(new, n, T)
    BY <2>1, <2>2, <2>3 DEF TabOK
  <2> QED BY <2>2, <2>4, <2>5 DEF ms, AddedOK
<1> QED BY <1>2, <1>3

LEMMA MarkOK ==
  ASSUME NEW T, NEW n \in Node, NEW tab, TabOK(tab, n, T), NEW b \in BOOLEAN
  PROVE  /\ TabOK([tab EXCEPT !.unread = b], n, T)
         /\ [tab EXCEPT !.unread = b].user = tab.user /\ [tab EXCEPT !.unread = b].msgs = tab.msgs
<1>1. tab \in Tabs
  BY DEF TabOK
<1>2. /\ [tab EXCEPT !.unread = b] \in Tabs
      /\ [tab EXCEPT !.unread = b].user = tab.user /\ [tab EXCEPT !.unread = b].msgs = tab.msgs
  BY <1>1 DEF Tabs
<1> QED BY <1>2 DEF TabOK

LEMMA ReplaceTab ==
  ASSUME NEW T, NEW n \in Node, NEW ts, TabsOK(ts, n, T), NEW i \in DOMAIN ts,
         NEW tab, TabOK(tab, n, T), tab.user = ts[i].user
  PROVE  /\ TabsOK([ts EXCEPT ![i] = tab], n, T) /\ DOMAIN [ts EXCEPT ![i] = tab] = DOMAIN ts
<1> DEFINE r == [ts EXCEPT ![i] = tab]
<1>1. /\ r \in Seq(Tabs) /\ DOMAIN r = DOMAIN ts
      /\ \A j \in DOMAIN r : r[j] = IF j = i THEN tab ELSE ts[j]
  BY DEF TabsOK, TabOK
<1> HIDE DEF r
<1>2. TabsOK(r, n, T)
  BY <1>1 DEF TabsOK
<1> QED BY <1>1, <1>2 DEF r

LEMMA NewTab ==
  ASSUME NEW T, NEW n \in Node, NEW ts, TabsOK(ts, n, T),
         NEW x \in Users2, x # n, FindTab(ts, x) = {}
  PROVE  /\ TabsOK(Append(ts, [user |-> x, msgs |-> <<>>, unread |-> FALSE]), n, T)
<1> DEFINE tab == [user |-> x, msgs |-> <<>>, unread |-> FALSE]
           r == Append(ts, tab)
<1>1. tab \in Tabs /\ tab.user = x /\ TabOK(tab, n, T)
  BY SizesAssumption DEF TabOK, Tabs
<1> HIDE DEF tab
<1>2. /\ r \in Seq(Tabs) /\ Len(r) = Len(ts) + 1 /\ Len(ts) \in Nat
      /\ \A j \in DOMAIN r : (j \in DOMAIN ts /\ r[j] = ts[j]) \/ (j = Len(ts) + 1 /\ r[j] = tab)
  BY <1>1 DEF TabsOK
<1> HIDE DEF r
<1>3. \A j \in DOMAIN ts : ts[j].user # x
  BY DEF FindTab
<1>4. TabsOK(r, n, T)
  BY <1>1, <1>2, <1>3 DEF TabsOK
<1> QED BY <1>4 DEF r, tab
-----------------------------------------------------------------------------
TabOf(ts, x) == Min(FindTab(ts, x))

\* What Opened makes of the tabs.
OpenedOK(ts, x, n, T) ==
  LET all == Opened(ts, x)
      i == TabOf(all, x)
  IN  /\ TabsOK(all, n, T) /\ i \in DOMAIN all /\ all[i].user = x
      /\ \A j \in DOMAIN all : IF j \in DOMAIN ts THEN all[j] = ts[j]
                              ELSE j = i /\ all[j].msgs = <<>>
      /\ DOMAIN ts \subseteq DOMAIN all

LEMMA OpenedFacts ==
  ASSUME NEW T, NEW n \in Node, NEW ts, TabsOK(ts, n, T), NEW x \in Users2, x # n
  PROVE  OpenedOK(ts, x, n, T)
<1> DEFINE all == Opened(ts, x)
           i == TabOf(all, x)
           tab == [user |-> x, msgs |-> <<>>, unread |-> FALSE]
<1>1. ts \in Seq(Tabs) /\ Len(ts) \in Nat
  BY DEF TabsOK
<1>2. /\ TabsOK(all, n, T) /\ FindTab(all, x) # {}
      /\ \A j \in DOMAIN all : IF j \in DOMAIN ts THEN all[j] = ts[j]
                              ELSE all[j].user = x /\ all[j].msgs = <<>>
      /\ DOMAIN ts \subseteq DOMAIN all
  <2>1. CASE FindTab(ts, x) # {}
    BY <2>1 DEF Opened
  <2>2. CASE FindTab(ts, x) = {}
    <3>1. tab \in Tabs /\ tab.user = x /\ tab.msgs = <<>>
      BY DEF Tabs
    <3>2. all = Append(ts, tab) /\ TabsOK(all, n, T)
      BY <2>2, NewTab DEF Opened
    <3> HIDE DEF tab, all
    <3>3. /\ Len(ts) + 1 \in DOMAIN all /\ all[Len(ts) + 1] = tab /\ DOMAIN ts \subseteq DOMAIN all
          /\ \A j \in DOMAIN all : IF j \in DOMAIN ts THEN all[j] = ts[j] ELSE all[j] = tab
      BY <1>1, <3>1, <3>2
    <3>4. Len(ts) + 1 \in FindTab(all, x)
      BY <3>1, <3>3 DEF FindTab
    <3> QED BY <3>1, <3>2, <3>3, <3>4
  <2> QED BY <2>1, <2>2
<1> HIDE DEF all
<1>3. FindTab(all, x) \in SUBSET Nat
  BY <1>2 DEF TabsOK, FindTab
<1>4. i \in FindTab(all, x)
  BY <1>2, <1>3, LeastElement DEF TabOf
<1>5. i \in DOMAIN all /\ all[i].user = x
  BY <1>4 DEF FindTab
<1>6. \A j \in DOMAIN all : all[j].user = x => j = i
  BY <1>2, <1>5 DEF TabsOK
<1> HIDE DEF i
<1>7. \A j \in DOMAIN all : IF j \in DOMAIN ts THEN all[j] = ts[j]
                          ELSE j = i /\ all[j].msgs = <<>>
  BY <1>2, <1>6
<1> QED BY <1>2, <1>5, <1>7 DEF all, i, OpenedOK

\* What add_foreign_message does to the tabs.
LEMMA ForeignTabs ==
  ASSUME TypeInv, NEW n \in Node, AddForeignMessage(n)
  PROVE  /\ TabsOK(tabs'[n], n, typed) /\ DOMAIN tabs[n] \subseteq DOMAIN tabs'[n]
         /\ tabs' \in [Node -> Seq(Tabs)]
         /\ \A m \in Node \ {n} : tabs'[m] = tabs[m]
         /\ \A j \in DOMAIN tabs'[n] :
              LET old == IF j \in DOMAIN tabs[n] THEN tabs[n][j].msgs ELSE <<>>
              IN  /\ \/ tabs'[n][j].msgs = old
                     \/ /\ tabs'[n][j].user = Head(uiq[n]).name
                        /\ tabs'[n][j].msgs = Append(old, Head(uiq[n]).text)
                  /\ j \in DOMAIN tabs[n] => tabs'[n][j].user = tabs[n][j].user
<1> DEFINE u == Head(uiq[n])
           who == u.name
           what == u.text
           mine == tabs[n]
           all == Opened(mine, who)
           i == TabOf(all, who)
           had == all[i]
           shown == AddMessage(had, what)
           b == shown.unread \/ i # active[n]
           new == [shown EXCEPT !.unread = b]
           r == [all EXCEPT ![i] = new]
<1>1. TabsOK(mine, n, typed) /\ NewsOK(uiq[n], n, typed) /\ uiq[n] # <<>> /\ tabs \in [Node -> Seq(Tabs)]
  BY DEF TypeInv, ScreenTypes, AddForeignMessage
<1>2. u \in News /\ who # n /\ (what = Notice \/ TextOK(what, who, n, typed))
  BY <1>1, TailNews
<1>3. who \in Users2 /\ what \in Texts
  BY <1>2 DEF News
<1>4. tabs' = [tabs EXCEPT ![n] = r]
  BY DEF AddForeignMessage, TabOf
<1> HIDE DEF u, mine, who, what
<1>5. /\ TabsOK(all, n, typed) /\ i \in DOMAIN all /\ had.user = who
      /\ \A j \in DOMAIN all : IF j \in DOMAIN mine THEN all[j] = mine[j]
                              ELSE j = i /\ all[j].msgs = <<>>
      /\ DOMAIN mine \subseteq DOMAIN all
  <2>1. OpenedOK(mine, who, n, typed)
    BY <1>1, <1>2, <1>3, OpenedFacts
  <2> QED BY <2>1, Zenon DEF OpenedOK
<1> HIDE DEF all, i
<1>6. TabOK(had, n, typed)
  BY <1>5 DEF TabsOK
<1>7. had = all[i]
  OBVIOUS
<1> HIDE DEF had
<1>8. /\ TabOK(shown, n, typed) /\ shown.user = who
      /\ shown.msgs \in {had.msgs, Append(had.msgs, what)}
  <2>1. AddedOK(had, what, n, typed)
    BY <1>2, <1>3, <1>5, <1>6, AddMessageOK
  <2> QED BY <1>5, <2>1 DEF AddedOK
<1> HIDE DEF shown
<1>9. TabOK(new, n, typed) /\ new.user = who /\ new.msgs = shown.msgs
  <2>1. b \in BOOLEAN
    BY <1>8 DEF TabOK, Tabs
  <2> HIDE DEF b
  <2> QED BY <1>8, <2>1, MarkOK
<1> HIDE DEF new
<1>10. TabsOK(r, n, typed) /\ DOMAIN r = DOMAIN all
  BY <1>5, <1>7, <1>9, ReplaceTab
<1>11. \A j \in DOMAIN all : r[j] = IF j = i THEN new ELSE all[j]
  OBVIOUS
<1> HIDE DEF r
<1>12. /\ tabs'[n] = r /\ \A m \in Node \ {n} : tabs'[m] = tabs[m]
       /\ tabs' \in [Node -> Seq(Tabs)]
  BY <1>1, <1>4, <1>10 DEF TabsOK
<1>13. ASSUME NEW j \in DOMAIN r
       PROVE  LET old == IF j \in DOMAIN mine THEN mine[j].msgs ELSE <<>>
              IN  /\ r[j].msgs = old \/ (r[j].user = who /\ r[j].msgs = Append(old, what))
                  /\ j \in DOMAIN mine => r[j].user = mine[j].user
  BY <1>5, <1>7, <1>8, <1>9, <1>10, <1>11
<1> QED BY <1>5, <1>10, <1>12, <1>13 DEF mine, u, who, what

LEMMA ForeignTypes == ASSUME TypeInv, NEW n \in Node, AddForeignMessage(n) PROVE TypeInv'
<1>1. /\ typed' = typed /\ active' = active /\ faults' = faults
      /\ UNCHANGED <<sendq, stream, server, series>>
      /\ uiq' = [uiq EXCEPT ![n] = Tail(@)] /\ uiq[n] # <<>>
  BY DEF AddForeignMessage, PopUi, wires
<1>2. /\ TabsOK(tabs'[n], n, typed) /\ DOMAIN tabs[n] \subseteq DOMAIN tabs'[n]
      /\ tabs' \in [Node -> Seq(Tabs)]
      /\ \A m \in Node \ {n} : tabs'[m] = tabs[m]
  BY ForeignTabs
<1>3. NewsOK(Tail(uiq[n]), n, typed)
  BY <1>1, TailNews DEF TypeInv, ScreenTypes
<1>4. uiq' \in [Node -> Seq(News)] /\ \A m \in Node : NewsOK(uiq'[m], m, typed)
  BY <1>1, <1>3 DEF TypeInv, ScreenTypes, NewsOK
<1>5. ScreenTypes'
  BY <1>1, <1>2, <1>4 DEF TypeInv, ScreenTypes
<1>6. WireTypes'
  BY <1>1 DEF TypeInv, WireTypes, Pipe, Buf
<1>7. intact' \in BOOLEAN
  BY DEF AddForeignMessage, TypeInv
<1> QED BY <1>1, <1>5, <1>6, <1>7 DEF TypeInv
LEMMA SwitchTypes == ASSUME TypeInv, NEW n \in Node, SwitchTab(n) PROVE TypeInv'
<1>1. PICK i \in DOMAIN tabs[n] :
        /\ active' = [active EXCEPT ![n] = i]
        /\ tabs' = [tabs EXCEPT ![n] = [tabs[n] EXCEPT ![i] = [tabs[n][i] EXCEPT !.unread = FALSE]]]
  BY DEF SwitchTab
<1> DEFINE mine == tabs[n]
           had == mine[i]
           new == [had EXCEPT !.unread = FALSE]
           r == [mine EXCEPT ![i] = new]
<1>2. TabsOK(mine, n, typed) /\ i \in DOMAIN mine
  BY DEF TypeInv, ScreenTypes
<1>3. tabs' = [tabs EXCEPT ![n] = r]
  BY <1>1
<1>4. TabOK(had, n, typed)
  BY <1>2 DEF TabsOK
<1>5. had = mine[i]
  OBVIOUS
<1> HIDE DEF had, mine
<1>6. TabOK(new, n, typed) /\ new.user = had.user
  BY <1>4, MarkOK
<1> HIDE DEF new
<1>7. TabsOK(r, n, typed) /\ DOMAIN r = DOMAIN mine
  BY <1>2, <1>5, <1>6, ReplaceTab
<1> HIDE DEF r
<1>8. i \in Nat
  BY <1>2 DEF TabsOK
<1>9. /\ tabs' \in [Node -> Seq(Tabs)] /\ active' \in [Node -> Nat]
      /\ \A m \in Node : active'[m] \in DOMAIN tabs'[m] /\ TabsOK(tabs'[m], m, typed)
  <2>1. /\ tabs \in [Node -> Seq(Tabs)] /\ active \in [Node -> Nat]
        /\ \A m \in Node : active[m] \in DOMAIN tabs[m] /\ TabsOK(tabs[m], m, typed)
    BY DEF TypeInv, ScreenTypes
  <2>2. r \in Seq(Tabs) /\ i \in DOMAIN r
    BY <1>2, <1>7 DEF TabsOK
  <2>3. active' = [active EXCEPT ![n] = i]
    BY <1>1
  <2> QED BY <1>3, <1>7, <1>8, <2>1, <2>2, <2>3
<1>10. UNCHANGED <<typed, sendq, stream, server, series, uiq, faults, intact>>
  BY DEF SwitchTab, wires
<1>11. WireTypes'
  BY <1>10 DEF TypeInv, WireTypes, Pipe, Buf
<1> QED BY <1>9, <1>10, <1>11 DEF TypeInv, ScreenTypes

\* Enter makes one text known and leaves the others as they are.
Typed(n, x, len, id) ==
  /\ typed' \in Histories /\ Keeps(typed, typed')
  /\ id[1] = n /\ id[2] = x /\ id[3] = Len(typed[<<n, x>>]) + 1
  /\ id \in Node \X Users2 \X Nat
  /\ x # System => id \in Ids /\ Known(id, typed') /\ Length(id, typed') = len
  /\ \A p \in Node \X Users2 : p # <<n, x>> => typed'[p] = typed[p]
  /\ Len(typed'[<<n, x>>]) = Len(typed[<<n, x>>]) + 1

LEMMA EnterHistory ==
  ASSUME TypeInv, NEW n \in Node, NEW len \in 1 .. BufSize - 3, NEW x \in Users2, x # n,
         typed' = [typed EXCEPT ![<<n, x>>] = Append(@, len)],
         NEW id, id = <<n, x, Len(typed[<<n, x>>]) + 1>>
  PROVE  Typed(n, x, len, id)
<1> DEFINE s == typed[<<n, x>>]
           r == Append(s, len)
<1>1. typed \in Histories /\ s \in Seq(1 .. BufSize - 3) /\ <<n, x>> \in Node \X Users2
  BY DEF TypeInv, Histories
<1>2. /\ Len(s) \in Nat /\ r \in Seq(1 .. BufSize - 3) /\ Len(r) = Len(s) + 1
      /\ DOMAIN s = 1 .. Len(s) /\ DOMAIN r = 1 .. Len(s) + 1
      /\ r[Len(s) + 1] = len /\ \A k \in 1 .. Len(s) : r[k] = s[k]
  BY <1>1
<1>3. typed' = [typed EXCEPT ![<<n, x>>] = r]
  OBVIOUS
<1>4. id = <<n, x, Len(s) + 1>>
  OBVIOUS
<1>5. id[1] = n /\ id[2] = x /\ id[3] = Len(s) + 1
  BY <1>4
<1> HIDE DEF r
<1>6. typed' \in Histories /\ \A p \in Node \X Users2 : typed'[p] = IF p = <<n, x>> THEN r ELSE typed[p]
  BY <1>1, <1>2, <1>3 DEF Histories
<1>7. Keeps(typed, typed')
  <2> SUFFICES ASSUME NEW d \in Ids, Known(d, typed)
               PROVE  Known(d, typed') /\ Length(d, typed') = Length(d, typed)
    BY DEF Keeps
  <2> DEFINE p == <<d[1], d[2]>>
             k == d[3]
  <2>1. p \in Node \X Users2
    BY IdFacts DEF Users2
  <2>2. k \in DOMAIN typed[p]
    BY DEF Known
  <2> HIDE DEF p, k
  <2>3. k \in DOMAIN typed'[p] /\ typed'[p][k] = typed[p][k]
    <3>1. CASE p = <<n, x>>
      <4>1. k \in 1 .. Len(s) /\ typed'[p] = r /\ typed[p] = s
        BY <1>2, <1>6, <2>1, <2>2, <3>1
      <4>2. k \in 1 .. Len(s) + 1
        BY <1>2, <4>1
      <4> HIDE DEF s
      <4> QED BY <1>2, <4>1, <4>2
    <3>2. CASE p # <<n, x>>
      BY <1>6, <2>1, <2>2, <3>2
    <3> QED BY <3>1, <3>2
  <2> QED BY <2>3 DEF Known, Length, p, k
<1>8. id \in Node \X Users2 \X Nat
  BY <1>2, <1>4
<1>9. ASSUME x # System
      PROVE  id \in Ids /\ Known(id, typed') /\ Length(id, typed') = len
  <2>1. id \in Ids
    BY <1>2, <1>4, <1>9 DEF Ids, Users2
  <2>2. typed'[<<n, x>>] = r
    BY <1>1, <1>6
  <2>3. id[3] \in DOMAIN r /\ r[id[3]] = len
    BY <1>2, <1>5
  <2>4. typed'[<<id[1], id[2]>>] = r
    BY <1>5, <2>2
  <2> QED BY <2>1, <2>3, <2>4 DEF Known, Length
<1>10. \A p \in Node \X Users2 : p # <<n, x>> => typed'[p] = typed[p]
  BY <1>6
<1>11. Len(typed'[<<n, x>>]) = Len(s) + 1
  BY <1>1, <1>2, <1>6
<1> HIDE DEF s
<1>12. Typed(n, x, len, id)
  BY <1>5, <1>6, <1>7, <1>8, <1>9, <1>10, <1>11 DEF Typed, s
<1> QED BY <1>12

LEMMA EnterTypes == ASSUME TypeInv, NEW n \in Node, NEW len \in 1 .. BufSize - 3, Enter(n, len) PROVE TypeInv'
<1> DEFINE mine == tabs[n]
           i == active[n]
           had == mine[i]
           x == had.user
           id == <<n, x, Len(typed[<<n, x>>]) + 1>>
           text == Text(id, len)
           shown == AddMessage(had, text)
           r == [mine EXCEPT ![i] = shown]
           news == [name |-> System, text |-> Notice]
           packet == [to |-> GetRouting(n, x), msg |-> Message(id, len)]
<1>1. TabsOK(mine, n, typed) /\ i \in DOMAIN mine
  BY DEF TypeInv, ScreenTypes
<1>2. TabOK(had, n, typed) /\ x \in Users2 /\ x # n
  BY <1>1 DEF TabsOK, TabOK, Tabs
<1>3. /\ typed' = [typed EXCEPT ![<<n, x>>] = Append(@, len)]
      /\ tabs' = [tabs EXCEPT ![n] = r]
      /\ \/ /\ x = System
            /\ uiq' \in {uiq, [uiq EXCEPT ![n] = Push(@, news)]}
            /\ UNCHANGED <<sendq, intact>>
         \/ /\ x # System
            /\ sendq' = [sendq EXCEPT ![n] = Push(@, packet)]
            /\ intact' = (intact /\ HasRoom(sendq[n]) /\ GetRouting(n, x) # NoName)
            /\ UNCHANGED uiq
      /\ UNCHANGED <<stream, server, series, active, faults>>
  BY DEF Enter
<1>4. had = mine[i] /\ x = had.user /\ text = Text(id, len)
  OBVIOUS
<1> HIDE DEF x
<1>5. id = <<n, x, Len(typed[<<n, x>>]) + 1>>
  OBVIOUS
<1> HIDE DEF id
<1>6. /\ typed' \in Histories /\ Keeps(typed, typed') /\ id[1] = n /\ id[2] = x /\ id \in Node \X Users2 \X Nat
      /\ x # System => id \in Ids /\ Known(id, typed') /\ Length(id, typed') = len
  <2>1. Typed(n, x, len, id)
    BY <1>2, <1>3, <1>5, EnterHistory
  <2> QED BY <2>1, Zenon DEF Typed
<1> HIDE DEF text, had, mine
<1>7. text \in Texts /\ text.id = id /\ id # <<>>
  <2>1. len \in Nat
    BY SizesAssumption
  <2>2. id # <<>>
    BY <1>5
  <2> QED BY <1>4, <1>6, <2>1, <2>2 DEF Text, Texts
<1>8. AddedOK(had, text, n, typed)
  BY <1>2, <1>4, <1>6, <1>7, AddMessageOK
<1>9. TabOK(shown, n, typed) /\ shown.user = had.user
  BY <1>8 DEF AddedOK
<1> HIDE DEF shown
<1>10. TabsOK(r, n, typed) /\ DOMAIN r = DOMAIN mine
  BY <1>1, <1>4, <1>9, ReplaceTab
<1> HIDE DEF r
<1>11. /\ tabs' \in [Node -> Seq(Tabs)]
       /\ \A m \in Node : TabsOK(tabs'[m], m, typed) /\ DOMAIN tabs'[m] = DOMAIN tabs[m]
  BY <1>3, <1>10 DEF TypeInv, ScreenTypes, TabsOK, mine
<1>12. /\ uiq' \in [Node -> Seq(News)] /\ \A m \in Node : NewsOK(uiq'[m], m, typed)
  <2>1. NewsOK(Push(uiq[n], news), n, typed)
    BY NoticeFacts, NameFacts, PushNews DEF TypeInv, ScreenTypes, News, Users2
  <2> HIDE DEF news
  <2>2. Push(uiq[n], news) \in Seq(News)
    BY <2>1 DEF NewsOK
  <2> QED BY <1>3, <2>1, <2>2 DEF TypeInv, ScreenTypes
<1>13. ScreenTypes'
  BY <1>3, <1>6, <1>11, <1>12, KeepsAll DEF TypeInv, ScreenTypes
<1>14. /\ sendq' \in [Node -> Seq(Packets)]
       /\ \A m \in Node : /\ Len(sendq'[m]) <= MaxQueue
                          /\ \A k \in DOMAIN sendq'[m] : MsgOK(sendq'[m][k].msg, typed')
  <2>1. \A m \in Node : /\ Len(sendq[m]) <= MaxQueue
                        /\ \A k \in DOMAIN sendq[m] : MsgOK(sendq[m][k].msg, typed')
    BY <1>6, KeepsAll DEF TypeInv, WireTypes
  <2>2. CASE x = System
    BY <1>3, <2>1, <2>2 DEF TypeInv, WireTypes
  <2>3. CASE x # System
    <3>1. MsgOK(packet.msg, typed') /\ packet \in Packets
      <4>1. MsgOK(Message(id, len), typed')
        BY <1>6, <2>3, MessageOK
      <4>2. Message(id, len) \in Seq(Units)
        BY <4>1 DEF MsgOK, StretchOK
      <4> QED BY <4>1, <4>2, NameFacts DEF Packets
    <3> HIDE DEF packet
    <3> DEFINE q == Push(sendq[n], packet)
    <3>2. /\ q \in Seq(Packets) /\ Len(q) <= MaxQueue
          /\ \A k \in DOMAIN q : q[k] = packet \/ (k \in DOMAIN sendq[n] /\ q[k] = sendq[n][k])
      BY <2>1, <3>1, PushFacts DEF TypeInv, WireTypes
    <3>3. sendq' = [sendq EXCEPT ![n] = q]
      BY <1>3, <2>3
    <3> HIDE DEF q
    <3>4. \A k \in DOMAIN q : MsgOK(q[k].msg, typed')
      BY <2>1, <3>1, <3>2
    <3> QED BY <2>1, <3>2, <3>3, <3>4 DEF TypeInv, WireTypes
  <2> QED BY <2>2, <2>3
<1>15. \A l \in Link : Pipe(l)' = Pipe(l)
  BY <1>3 DEF Pipe, Buf
<1>16. WireTypes'
  <2>1. \A l \in Link : StreamOK(Pipe(l)', typed')
    BY <1>6, <1>15, KeepsAll DEF TypeInv, WireTypes
  <2> QED BY <1>3, <1>14, <2>1 DEF TypeInv, WireTypes
<1>17. intact' \in BOOLEAN /\ faults' = faults
  BY <1>3 DEF TypeInv
<1> QED BY <1>6, <1>13, <1>16, <1>17 DEF TypeInv

-----------------------------------------------------------------------------
LEMMA SeqEqual ==
  ASSUME NEW S, NEW a \in Seq(S), NEW b \in Seq(S), Len(a) = Len(b),
         \A k \in 1 .. Len(a) : a[k] = b[k]
  PROVE  a = b
OBVIOUS

LEMMA SubFacts ==
  ASSUME NEW S, NEW s \in Seq(S), NEW i \in 1 .. Len(s) + 1, NEW j \in 0 .. Len(s), i <= j + 1
  PROVE  /\ SubSeq(s, i, j) \in Seq(S) /\ Len(SubSeq(s, i, j)) = j + 1 - i
         /\ \A k \in 1 .. j + 1 - i : SubSeq(s, i, j)[k] = s[k + i - 1] /\ k + i - 1 \in 1 .. Len(s)
<1> DEFINE len == j + 1 - i
           r == SubSeq(s, i, j)
<1>1. Len(s) \in Nat /\ i \in Nat /\ j \in Nat /\ len \in Nat /\ j - i + 1 = len
  OBVIOUS
<1>2. \A k \in 1 .. len : k + i - 1 \in 1 .. Len(s)
  BY <1>1
<1>3. r = [k \in 1 .. j - i + 1 |-> s[k + i - 1]]
  BY <1>1
<1>4. r = [k \in 1 .. len |-> s[k + i - 1]]
  BY <1>1, <1>3
<1> HIDE DEF len, r
<1>5. \A k \in 1 .. len : s[k + i - 1] \in S
  BY <1>2
<1>6. r \in [1 .. len -> S]
  BY <1>4, <1>5
<1>7. r \in Seq(S) /\ Len(r) = len
  BY <1>1, <1>6
<1>8. \A k \in 1 .. len : r[k] = s[k + i - 1]
  BY <1>4
<1> QED BY <1>2, <1>7, <1>8, Zenon DEF len, r

Joined(r, S, a, b) ==
  /\ r \in Seq(S) /\ Len(r) = Len(a) + Len(b)
  /\ \A k \in 1 .. Len(a) + Len(b) : r[k] = IF k <= Len(a) THEN a[k] ELSE b[k - Len(a)]

LEMMA ConcatFacts ==
  ASSUME NEW S, NEW a \in Seq(S), NEW b \in Seq(S)
  PROVE  Joined(a \o b, S, a, b)
BY DEF Joined

Regrouped(a, b, c) == a \o (b \o c) = (a \o b) \o c

LEMMA ConcatAssoc ==
  ASSUME NEW S, NEW a \in Seq(S), NEW b \in Seq(S), NEW c \in Seq(S)
  PROVE  Regrouped(a, b, c)
<1> DEFINE bc == b \o c
           ab == a \o b
           l == a \o bc
           r == ab \o c
<1>1. Len(a) \in Nat /\ Len(b) \in Nat /\ Len(c) \in Nat
  OBVIOUS
<1>2. /\ bc \in Seq(S) /\ Len(bc) = Len(b) + Len(c)
      /\ \A k \in 1 .. Len(b) + Len(c) : bc[k] = IF k <= Len(b) THEN b[k] ELSE c[k - Len(b)]
  BY ConcatFacts DEF Joined
<1>3. /\ ab \in Seq(S) /\ Len(ab) = Len(a) + Len(b)
      /\ \A k \in 1 .. Len(a) + Len(b) : ab[k] = IF k <= Len(a) THEN a[k] ELSE b[k - Len(a)]
  BY ConcatFacts DEF Joined
<1>4. Joined(l, S, a, bc) /\ Joined(r, S, ab, c)
  <2> HIDE DEF bc, ab
  <2> QED BY <1>2, <1>3, ConcatFacts, Zenon
<1> HIDE DEF l, r, bc, ab
<1>5. /\ l \in Seq(S) /\ Len(l) = Len(a) + (Len(b) + Len(c))
      /\ \A k \in 1 .. Len(a) + (Len(b) + Len(c)) : l[k] = IF k <= Len(a) THEN a[k] ELSE bc[k - Len(a)]
  <2>1. /\ l \in Seq(S) /\ Len(l) = Len(a) + Len(bc)
        /\ \A k \in 1 .. Len(a) + Len(bc) : l[k] = IF k <= Len(a) THEN a[k] ELSE bc[k - Len(a)]
    BY <1>4, Zenon DEF Joined
  <2> QED BY <1>2, <2>1
<1>6. /\ r \in Seq(S) /\ Len(r) = (Len(a) + Len(b)) + Len(c)
      /\ \A k \in 1 .. (Len(a) + Len(b)) + Len(c) :
           r[k] = IF k <= Len(a) + Len(b) THEN ab[k] ELSE c[k - (Len(a) + Len(b))]
  <2>1. /\ r \in Seq(S) /\ Len(r) = Len(ab) + Len(c)
        /\ \A k \in 1 .. Len(ab) + Len(c) : r[k] = IF k <= Len(ab) THEN ab[k] ELSE c[k - Len(ab)]
    BY <1>4, Zenon DEF Joined
  <2> QED BY <1>3, <2>1
<1>7. ASSUME NEW k \in 1 .. Len(l) PROVE l[k] = r[k]
  <2>1. k \in Nat /\ k > 0 /\ k <= Len(a) + Len(b) + Len(c)
    BY <1>1, <1>5
  <2>2. CASE k <= Len(a)
    BY <1>1, <1>3, <1>5, <1>6, <2>1, <2>2
  <2>3. CASE ~(k <= Len(a)) /\ k <= Len(a) + Len(b)
    <3>1. k - Len(a) \in 1 .. Len(b) + Len(c) /\ k - Len(a) <= Len(b) /\ k \in 1 .. Len(a) + Len(b)
      BY <1>1, <2>1, <2>3
    <3>2. k \in 1 .. Len(a) + (Len(b) + Len(c)) /\ k \in 1 .. (Len(a) + Len(b)) + Len(c)
      BY <1>1, <2>1
    <3> QED BY <1>2, <1>3, <1>5, <1>6, <2>3, <3>1, <3>2
  <2>4. CASE ~(k <= Len(a) + Len(b))
    <3>1. k - Len(a) \in 1 .. Len(b) + Len(c) /\ ~(k - Len(a) <= Len(b)) /\ ~(k <= Len(a))
      BY <1>1, <2>1, <2>4
    <3>2. k \in 1 .. Len(a) + (Len(b) + Len(c)) /\ k \in 1 .. (Len(a) + Len(b)) + Len(c)
          /\ (k - Len(a)) - Len(b) = k - (Len(a) + Len(b))
      BY <1>1, <2>1
    <3> QED BY <1>2, <1>5, <1>6, <2>4, <3>1, <3>2
  <2> QED BY <1>1, <2>1, <2>2, <2>3, <2>4
<1>8. Len(l) = Len(r)
  BY <1>1, <1>5, <1>6
<1>9. l = r
  BY <1>5, <1>6, <1>7, <1>8, SeqEqual
<1> QED BY <1>9, Zenon DEF Regrouped, l, r, ab, bc

\* A piece put together from a buffer and the beginning of a stream is the
\* beginning of both together.
PieceOK(S, b, s, k) ==
  LET piece == b \o SubSeq(s, 1, k)
      rest == SubSeq(s, k + 1, Len(s))
      j == Len(piece)
      both == b \o s
  IN  /\ j \in 1 .. Len(both) /\ both \in Seq(S)
      /\ piece = SubSeq(both, 1, j) /\ rest = SubSeq(both, j + 1, Len(both))
      /\ piece \o rest = both
      /\ piece \in Seq(S) /\ rest \in Seq(S) /\ Len(piece) = Len(b) + k

LEMMA PieceFacts ==
  ASSUME NEW S, NEW b \in Seq(S), NEW s \in Seq(S), NEW k \in 1 .. Len(s)
  PROVE  PieceOK(S, b, s, k)
<1> DEFINE first == SubSeq(s, 1, k)
           piece == b \o first
           rest == SubSeq(s, k + 1, Len(s))
           j == Len(piece)
           both == b \o s
           len == Len(s)
           had == Len(b)
<1>1. len \in Nat /\ had \in Nat /\ k \in Nat /\ k > 0 /\ k <= len
  OBVIOUS
<1>2. /\ first \in Seq(S) /\ Len(first) = k /\ \A i \in 1 .. k : first[i] = s[i]
      /\ rest \in Seq(S) /\ Len(rest) = len - k /\ \A i \in 1 .. len - k : rest[i] = s[i + k]
  <2>1. 1 \in 1 .. len + 1 /\ k \in 0 .. len /\ 1 <= k + 1 /\ k + 1 \in 1 .. len + 1 /\ len \in 0 .. len /\ k + 1 <= len + 1
    BY <1>1
  <2>2. /\ first \in Seq(S) /\ Len(first) = k + 1 - 1
        /\ \A i \in 1 .. k + 1 - 1 : first[i] = s[i + 1 - 1]
    BY <2>1, SubFacts
  <2>3. /\ rest \in Seq(S) /\ Len(rest) = len + 1 - (k + 1)
        /\ \A i \in 1 .. len + 1 - (k + 1) : rest[i] = s[i + (k + 1) - 1]
    BY <2>1, SubFacts
  <2>4. k + 1 - 1 = k /\ len + 1 - (k + 1) = len - k /\ \A i \in Nat : i + 1 - 1 = i /\ i + (k + 1) - 1 = i + k
    BY <1>1
  <2> HIDE DEF first, rest, len
  <2> QED BY <1>1, <2>2, <2>3, <2>4
<1>3. /\ piece \in Seq(S) /\ j = had + k
      /\ \A i \in 1 .. had + k : piece[i] = IF i <= had THEN b[i] ELSE first[i - had]
  <2> HIDE DEF first
  <2>1. Joined(b \o first, S, b, first)
    BY <1>2, ConcatFacts, Zenon
  <2> QED BY <1>2, <2>1 DEF Joined
<1>4. /\ both \in Seq(S) /\ Len(both) = had + len
      /\ \A i \in 1 .. had + len : both[i] = IF i <= had THEN b[i] ELSE s[i - had]
  BY ConcatFacts DEF Joined
<1>5. \A i \in 1 .. had + k : piece[i] = both[i]
  <2> HIDE DEF piece, first, both, had, len
  <2> SUFFICES ASSUME NEW i \in 1 .. had + k PROVE piece[i] = both[i]
    OBVIOUS
  <2>1. i \in 1 .. had + len /\ (~(i <= had) => i - had \in 1 .. k)
    BY <1>1
  <2> QED BY <1>2, <1>3, <1>4, <2>1
<1>6. \A i \in 1 .. len - k : rest[i] = both[i + (had + k)]
  <2> HIDE DEF rest, both, had, len
  <2> SUFFICES ASSUME NEW i \in 1 .. len - k PROVE rest[i] = both[i + (had + k)]
    OBVIOUS
  <2>1. i + (had + k) \in 1 .. had + len /\ ~(i + (had + k) <= had) /\ (i + (had + k)) - had = i + k
    BY <1>1
  <2> QED BY <1>2, <1>4, <2>1
<1> HIDE DEF piece, rest, both, first
<1>7. j \in 1 .. Len(both) /\ j \in Nat /\ Len(both) \in Nat
  BY <1>1, <1>3, <1>4
<1>8. piece = SubSeq(both, 1, j)
  <2>1. 1 \in 1 .. Len(both) + 1 /\ j \in 0 .. Len(both) /\ 1 <= j + 1
    BY <1>7
  <2>2. /\ SubSeq(both, 1, j) \in Seq(S) /\ Len(SubSeq(both, 1, j)) = j + 1 - 1
        /\ \A i \in 1 .. j + 1 - 1 : SubSeq(both, 1, j)[i] = both[i + 1 - 1]
    BY <1>4, <2>1, SubFacts
  <2>3. j + 1 - 1 = j /\ \A i \in 1 .. j : i + 1 - 1 = i
    BY <1>7
  <2> DEFINE r == SubSeq(both, 1, j)
  <2> HIDE DEF r
  <2>4. r \in Seq(S) /\ Len(piece) = Len(r) /\ \A i \in 1 .. Len(piece) : piece[i] = r[i]
    BY <1>3, <1>5, <2>2, <2>3 DEF r
  <2>5. piece = r
    BY <1>3, <2>4, SeqEqual
  <2> QED BY <2>5 DEF r
<1>9. rest = SubSeq(both, j + 1, Len(both))
  <2> DEFINE r == SubSeq(both, j + 1, Len(both))
  <2>1. j + 1 \in 1 .. Len(both) + 1 /\ Len(both) \in 0 .. Len(both) /\ j + 1 <= Len(both) + 1
    BY <1>7
  <2>2. /\ r \in Seq(S) /\ Len(r) = Len(both) + 1 - (j + 1)
        /\ \A i \in 1 .. Len(both) + 1 - (j + 1) : r[i] = both[i + (j + 1) - 1]
    BY <1>4, <2>1, SubFacts
  <2>3. Len(both) + 1 - (j + 1) = len - k /\ \A i \in 1 .. len - k : i + (j + 1) - 1 = i + (had + k)
    BY <1>1, <1>3, <1>4
  <2> HIDE DEF r
  <2>6. Len(rest) = len - k /\ Len(r) = len - k
    BY <1>2, <2>2, <2>3
  <2>7. ASSUME NEW i \in 1 .. len - k PROVE rest[i] = r[i]
    <3>1. r[i] = both[i + (j + 1) - 1] /\ i + (j + 1) - 1 = i + (had + k)
      BY <2>2, <2>3
    <3>2. rest[i] = both[i + (had + k)]
      BY <1>6
    <3> QED BY <3>1, <3>2, Zenon
  <2>4. Len(rest) = Len(r) /\ \A i \in 1 .. Len(rest) : rest[i] = r[i]
    BY <2>6, <2>7, Zenon
  <2>5. rest = r
    BY <1>2, <2>2, <2>4, SeqEqual
  <2> QED BY <2>5 DEF r
<1>10. piece \o rest = both
  <2> DEFINE r == piece \o rest
  <2>1. /\ r \in Seq(S) /\ Len(r) = j + (len - k)
        /\ \A i \in 1 .. j + (len - k) : r[i] = IF i <= j THEN piece[i] ELSE rest[i - j]
    <3>1. Joined(piece \o rest, S, piece, rest)
      BY <1>2, <1>3, ConcatFacts, Zenon
    <3> QED BY <1>2, <3>1 DEF Joined
  <2> HIDE DEF r
  <2>2. ASSUME NEW i \in 1 .. Len(r) PROVE r[i] = both[i]
    <3>1. i \in 1 .. j + (len - k) /\ (i <= j => i \in 1 .. had + k)
          /\ (~(i <= j) => i - j \in 1 .. len - k /\ (i - j) + (had + k) = i)
      BY <1>1, <1>3, <2>1
    <3> QED BY <1>5, <1>6, <2>1, <3>1
  <2>3. Len(r) = Len(both)
    BY <1>1, <1>3, <1>4, <2>1
  <2>4. r = both
    BY <1>4, <2>1, <2>2, <2>3, SeqEqual
  <2> QED BY <2>4 DEF r
<1>11. piece \in Seq(S) /\ rest \in Seq(S) /\ j = had + k
  BY <1>2, <1>3
<1> QED BY <1>4, <1>7, <1>8, <1>9, <1>10, <1>11, Zenon DEF PieceOK, piece, rest, both, first
-----------------------------------------------------------------------------
(***************************************************************************)
(* What the steps of sender and server do to the pipes.                    *)
(***************************************************************************)
LEMMA PipeFacts ==
  ASSUME TypeInv, NEW l \in Link
  PROVE  /\ l[1] \in Node /\ l[2] \in Node /\ l[1] # l[2] /\ l = <<l[1], l[2]>>
         /\ Buf(l) \in Seq(Units) /\ stream[l] \in Seq(Units) /\ Pipe(l) = Buf(l) \o stream[l]
         /\ StreamOK(Pipe(l), typed) /\ Pipe(l) \in Seq(Units)
         /\ server[l[2]] \in Servers /\ server[l[2]].buf \in Seq(Units)
<1>1. l[1] \in Node /\ l[2] \in Node /\ l[1] # l[2] /\ l = <<l[1], l[2]>>
  BY DEF Link
<1>2. server[l[2]] \in Servers /\ stream[l] \in Seq(Units) /\ StreamOK(Pipe(l), typed)
  BY <1>1 DEF TypeInv, WireTypes
<1>3. server[l[2]].buf \in Seq(Units)
  BY <1>2 DEF Servers
<1>4. Buf(l) \in Seq(Units)
  BY <1>3 DEF Buf
<1> QED BY <1>1, <1>2, <1>3, <1>4 DEF Pipe, StreamOK, StretchOK

\* Send moves the first message of the queue to the end of a pipe.
SendMoves(n) ==
  LET q == Head(sendq[n])
  IN  /\ q \in Packets /\ MsgOK(q.msg, typed) /\ sendq[n] # <<>>
      /\ sendq' = [sendq EXCEPT ![n] = Tail(sendq[n])]
      /\ stream' \in [Link -> Seq(Units)]
      /\ \A l \in Link : Pipe(l)' = IF l = <<n, q.to>> THEN Pipe(l) \o Append(q.msg, Eot) ELSE Pipe(l)

LEMMA SendEffect == ASSUME TypeInv, NEW n \in Node, Send(n) PROVE SendMoves(n)
<1> DEFINE q == Head(sendq[n])
           to == q.to
           msg == q.msg
           e == Append(msg, Eot)
<1>1. /\ sendq[n] # <<>> /\ sendq' = [sendq EXCEPT ![n] = Tail(sendq[n])] /\ server' = server
      /\ stream' = [l \in Link |-> IF l = <<n, to>> THEN stream[l] \o e ELSE stream[l]]
  BY DEF Send
<1>2. sendq[n] \in Seq(Packets) /\ q = sendq[n][1] /\ 1 \in DOMAIN sendq[n]
  BY <1>1 DEF TypeInv, WireTypes
<1>3. q \in Packets /\ MsgOK(msg, typed)
  BY <1>2 DEF TypeInv, WireTypes
<1>4. e \in Seq(Units)
  <2>1. msg \in Seq(Units)
    BY <1>3 DEF MsgOK, StretchOK
  <2> HIDE DEF msg
  <2> QED BY <2>1, UnitFacts
<1> HIDE DEF to, e
<1>5. \A l \in Link : stream'[l] \in Seq(Units)
  BY <1>1, <1>4, PipeFacts
<1>6. ASSUME NEW l \in Link
      PROVE  Pipe(l)' = IF l = <<n, to>> THEN Pipe(l) \o e ELSE Pipe(l)
  <2>1. Pipe(l)' = Buf(l) \o stream'[l]
    BY <1>1 DEF Pipe, Buf
  <2>2. stream'[l] = IF l = <<n, to>> THEN stream[l] \o e ELSE stream[l]
    BY <1>1
  <2>3. Buf(l) \in Seq(Units) /\ stream[l] \in Seq(Units) /\ Pipe(l) = Buf(l) \o stream[l]
    BY PipeFacts
  <2>4. Buf(l) \o (stream[l] \o e) = Pipe(l) \o e
    <3> DEFINE b == Buf(l)
               s == stream[l]
    <3>1. b \in Seq(Units) /\ s \in Seq(Units) /\ Pipe(l) = b \o s
      BY <2>3
    <3> HIDE DEF b, s
    <3>3. Regrouped(b, s, e)
      BY <1>4, <3>1, ConcatAssoc, Zenon
    <3>2. b \o (s \o e) = (b \o s) \o e
      BY <3>3, Zenon DEF Regrouped
    <3> QED BY <3>1, <3>2, Zenon DEF b, s
  <2>5. CASE l = <<n, to>>
    <3>1. stream'[l] = stream[l] \o e
      BY <2>2, <2>5
    <3>2. Pipe(l)' = Pipe(l) \o e
      BY <2>1, <2>4, <3>1, Zenon
    <3> QED BY <2>5, <3>2, Zenon
  <2>6. CASE l # <<n, to>>
    <3>1. stream'[l] = stream[l]
      BY <2>2, <2>6
    <3>2. Pipe(l)' = Pipe(l)
      BY <2>1, <2>3, <3>1, Zenon
    <3> QED BY <2>6, <3>2, Zenon
  <2> QED BY <2>5, <2>6
<1>7. stream' \in [Link -> Seq(Units)]
  <2>1. stream' = [l \in Link |-> stream'[l]]
    BY <1>1
  <2> QED BY <1>5, <2>1
<1> QED BY <1>1, <1>3, <1>6, <1>7 DEF SendMoves, to, e

LEMMA SendTypes == ASSUME TypeInv, NEW n \in Node, Send(n) PROVE TypeInv'
<1> DEFINE q == Head(sendq[n])
           to == q.to
           msg == q.msg
           rest == Tail(sendq[n])
<1>1. UNCHANGED <<typed, server, series, uiq, tabs, active, faults, intact>>
  BY DEF Send, screens
<1>2. /\ MsgOK(msg, typed) /\ sendq[n] # <<>>
      /\ sendq' = [sendq EXCEPT ![n] = rest]
      /\ stream' \in [Link -> Seq(Units)]
      /\ \A l \in Link : Pipe(l)' = IF l = <<n, to>> THEN Pipe(l) \o Append(msg, Eot) ELSE Pipe(l)
  BY SendEffect DEF SendMoves
<1>3. /\ sendq \in [Node -> Seq(Packets)] /\ Len(sendq[n]) <= MaxQueue
      /\ \A k \in DOMAIN sendq[n] : MsgOK(sendq[n][k].msg, typed)
  BY DEF TypeInv, WireTypes
<1>4. /\ rest \in Seq(Packets) /\ Len(rest) <= MaxQueue
      /\ \A k \in DOMAIN rest : k + 1 \in DOMAIN sendq[n] /\ rest[k] = sendq[n][k + 1]
  BY <1>2, <1>3, SizesAssumption
<1> HIDE DEF msg, to, rest
<1>5. ASSUME NEW l \in Link PROVE StreamOK(Pipe(l)', typed)
  <2>1. StreamOK(Pipe(l), typed)
    BY PipeFacts
  <2>2. StreamOK(Pipe(l) \o Append(msg, Eot), typed)
    BY <1>2, <2>1, SentOK, Zenon
  <2> QED BY <1>2, <2>1, <2>2
<1>6. /\ sendq' \in [Node -> Seq(Packets)]
      /\ \A m \in Node : Len(sendq'[m]) <= MaxQueue
      /\ \A m \in Node : \A k \in DOMAIN sendq'[m] : MsgOK(sendq'[m][k].msg, typed)
  BY <1>2, <1>3, <1>4 DEF TypeInv, WireTypes
<1>7. WireTypes'
  BY <1>1, <1>2, <1>5, <1>6 DEF TypeInv, WireTypes
<1> QED BY <1>1, <1>7 DEF TypeInv, ScreenTypes

\* Read leaves the pipes as they are, or handles the beginning of one.
ReadTakes(n, m, j) ==
  LET p == Pipe(<<m, n>>)
  IN  /\ j \in 1 .. Len(p)
      /\ Pipe(<<m, n>>)' = SubSeq(p, j + 1, Len(p))
      /\ \A l \in Link : l # <<m, n>> => Pipe(l)' = Pipe(l)
      /\ faults' \in {faults, faults + 1} /\ faults' <= MaxFaults
      /\ Handle(n, SubSeq(p, 1, j))

ReadWaits ==
  /\ \A l \in Link : Pipe(l)' = Pipe(l)
  /\ UNCHANGED <<sendq, series, uiq, faults, intact>>

ServersOK ==
  /\ server \in [Node -> Servers]
  /\ \A n \in Node : /\ Len(server[n].buf) = server[n].reads * BufSize
                     /\ server[n].from = NoName => server[n].buf = <<>>

LEMMA ReadEffect ==
  ASSUME TypeInv, NEW n \in Node, NEW m \in Node \ {n}, Read(n, m)
  PROVE  /\ stream' \in [Link -> Seq(Units)] /\ ServersOK'
         /\ UNCHANGED <<typed, tabs, active>>
         /\ ReadWaits \/ \E j \in Nat : ReadTakes(n, m, j)
<1> DEFINE l0 == <<m, n>>
           s == stream[l0]
           b == server[n].buf
           reads == server[n].reads + 1
<1>1. PICK k \in 1 .. Len(s) :
        LET piece == b \o SubSeq(s, 1, k)
        IN  /\ k <= BufSize
            /\ stream' = [stream EXCEPT ![l0] = SubSeq(@, k + 1, Len(@))]
            /\ IF k = BufSize /\ reads < MaxRead
               THEN /\ server' = [server EXCEPT ![n] = [from |-> m, buf |-> piece, reads |-> reads]]
                    /\ UNCHANGED <<sendq, series, uiq, faults, intact>>
               ELSE /\ server' = [server EXCEPT ![n] = Ready]
                    /\ faults' = faults + (IF Whole(piece) THEN 0 ELSE 1)
                    /\ faults' <= MaxFaults
                    /\ Handle(n, piece)
  BY DEF Read
<1> DEFINE piece == b \o SubSeq(s, 1, k)
           rest == SubSeq(s, k + 1, Len(s))
           both == b \o s
           j == Len(piece)
<1>2. /\ l0 \in Link /\ l0[1] = m /\ l0[2] = n /\ s \in Seq(Units) /\ b \in Seq(Units)
      /\ server \in [Node -> Servers] /\ stream \in [Link -> Seq(Units)]
      /\ server[n].reads \in 0 .. MaxRead - 1 /\ Len(b) = server[n].reads * BufSize
      /\ server[n].from \in {NoName, m} /\ (server[n].from = NoName => b = <<>>)
  <2>1. l0 \in Link /\ l0[1] = m /\ l0[2] = n
    BY DEF Link
  <2>2. server[n] \in Servers
    BY DEF TypeInv, WireTypes
  <2> QED BY <2>1, <2>2 DEF TypeInv, WireTypes, Read, Servers
<1>3. Pipe(l0) = both
  <2>1. Buf(l0) = b
    BY <1>2 DEF Buf
  <2> QED BY <2>1 DEF Pipe
<1>4. /\ stream' = [stream EXCEPT ![l0] = rest]
      /\ IF k = BufSize /\ reads < MaxRead
         THEN /\ server' = [server EXCEPT ![n] = [from |-> m, buf |-> piece, reads |-> reads]]
              /\ UNCHANGED <<sendq, series, uiq, faults, intact>>
         ELSE /\ server' = [server EXCEPT ![n] = Ready]
              /\ faults' = faults + (IF Whole(piece) THEN 0 ELSE 1)
              /\ faults' <= MaxFaults
              /\ Handle(n, piece)
  BY <1>1
<1>5. /\ j \in 1 .. Len(both) /\ both \in Seq(Units)
      /\ piece = SubSeq(both, 1, j) /\ rest = SubSeq(both, j + 1, Len(both))
      /\ piece \o rest = both
      /\ piece \in Seq(Units) /\ rest \in Seq(Units) /\ j = Len(b) + k
  <2>1. PieceOK(Units, b, s, k)
    <3> HIDE DEF s, b
    <3> QED BY <1>2, PieceFacts
  <2> QED BY <2>1, Zenon DEF PieceOK
<1>6. piece \in Seq(Units) /\ rest \in Seq(Units) /\ Len(piece) = Len(b) + k /\ k \in Nat
  <2>1. k \in Nat
    BY <1>2
  <2> QED BY <1>5, <2>1, Zenon
<1> HIDE DEF s, piece, rest, both
<1>7. stream' \in [Link -> Seq(Units)] /\ stream'[l0] = rest /\ \A l \in Link \ {l0} : stream'[l] = stream[l]
  BY <1>2, <1>4, <1>6
<1>8. \A l \in Link \ {l0} : l[2] = n => l[1] # m
  BY DEF Link
<1>9. UNCHANGED <<typed, tabs, active>>
  BY DEF Read
<1>10. CASE k = BufSize /\ reads < MaxRead
  <2> DEFINE new == [from |-> m, buf |-> piece, reads |-> reads]
  <2>1. server' = [server EXCEPT ![n] = new] /\ UNCHANGED <<sendq, series, uiq, faults, intact>>
    BY <1>4, <1>10
  <2> DEFINE before == server[n].reads
  <2>2. new \in Servers /\ new.from = m /\ new.buf = piece
    <3>1. before \in Nat /\ reads = before + 1 /\ reads < MaxRead /\ MaxRead \in Nat
      BY <1>2, <1>10, SizesAssumption
    <3> HIDE DEF before, reads
    <3>2. reads \in 0 .. MaxRead - 1
      BY <3>1
    <3> QED BY <1>6, <3>2 DEF Servers
  <2>3. Len(new.buf) = new.reads * BufSize
    <3>1. Len(piece) = before * BufSize + k /\ k = BufSize /\ before \in Nat /\ reads = before + 1 /\ BufSize \in Nat
      BY <1>2, <1>6, <1>10, SizesAssumption
    <3> HIDE DEF before, reads
    <3>2. Len(piece) = reads * BufSize
      BY <3>1
    <3> QED BY <3>2
  <2> HIDE DEF new
  <2>4. m # NoName
    BY NameFacts
  <2>5. /\ \A a \in Node : server'[a] = IF a = n THEN new ELSE server[a]
        /\ server' \in [Node -> Servers]
    BY <1>2, <2>1, <2>2
  <2>6. ServersOK'
    BY <2>2, <2>3, <2>4, <2>5 DEF ServersOK, TypeInv, WireTypes
  <2>7. ASSUME NEW l \in Link PROVE Pipe(l)' = Pipe(l)
    <3>1. CASE l = l0
      <4>1. Buf(l)' = piece
        BY <1>2, <2>2, <2>5, <3>1 DEF Buf
      <4>2. Pipe(l)' = piece \o rest
        BY <1>7, <3>1, <4>1 DEF Pipe
      <4> QED BY <1>3, <1>5, <3>1, <4>2
    <3>2. CASE l # l0
      <4>1. l[2] \in Node /\ stream'[l] = stream[l] /\ (l[2] = n => l[1] # m /\ l[1] # NoName)
        BY <1>7, <1>8, <3>2, PipeFacts, NameFacts
      <4>2. Buf(l)' = Buf(l)
        BY <1>2, <2>2, <2>5, <4>1 DEF Buf
      <4> QED BY <4>1, <4>2 DEF Pipe
    <3> QED BY <3>1, <3>2
  <2> QED BY <1>7, <1>9, <2>1, <2>6, <2>7 DEF ReadWaits
<1>11. CASE ~(k = BufSize /\ reads < MaxRead)
  <2>1. /\ server' = [server EXCEPT ![n] = Ready] /\ faults' <= MaxFaults /\ Handle(n, piece)
        /\ faults' = faults + (IF Whole(piece) THEN 0 ELSE 1)
    BY <1>4, <1>11
  <2>2. Ready \in Servers /\ Ready.from = NoName /\ Ready.buf = <<>> /\ Ready.reads = 0
    BY SizesAssumption DEF Ready, Servers
  <2>3. /\ \A a \in Node : server'[a] = IF a = n THEN Ready ELSE server[a]
        /\ server' \in [Node -> Servers]
    BY <1>2, <2>1, <2>2
  <2>4. ServersOK'
    <3>1. Len(Ready.buf) = Ready.reads * BufSize
      BY <2>2, SizesAssumption
    <3> QED BY <2>2, <2>3, <3>1 DEF ServersOK, TypeInv, WireTypes
  <2>5. ASSUME NEW l \in Link PROVE Pipe(l)' = IF l = l0 THEN rest ELSE Pipe(l)
    <3>1. CASE l = l0
      <4>1. Buf(l)' = <<>>
        BY <1>2, <2>2, <2>3, <3>1 DEF Buf
      <4>2. Pipe(l)' = <<>> \o rest
        BY <1>7, <3>1, <4>1 DEF Pipe
      <4> QED BY <1>6, <3>1, <4>2
    <3>2. CASE l # l0
      <4>1. l[2] \in Node /\ stream'[l] = stream[l] /\ (l[2] = n => l[1] # m /\ l[1] # NoName)
        BY <1>7, <1>8, <3>2, PipeFacts, NameFacts
      <4>2. Buf(l)' = Buf(l)
        BY <1>2, <2>2, <2>3, <4>1 DEF Buf
      <4> QED BY <3>2, <4>1, <4>2 DEF Pipe
    <3> QED BY <3>1, <3>2
  <2>6. faults' \in {faults, faults + 1}
    BY <2>1 DEF TypeInv
  <2>7. j \in Nat
    BY <1>6
  <2> HIDE DEF j, l0
  <2>8. Pipe(l0)' = SubSeq(both, j + 1, Len(both))
    BY <1>2, <1>5, <2>5
  <2>9. ReadTakes(n, m, j)
    BY <1>3, <1>5, <2>1, <2>5, <2>6, <2>8 DEF ReadTakes, l0
  <2> QED BY <1>7, <1>9, <2>4, <2>7, <2>9
<1> QED BY <1>10, <1>11

\* What a read hands to the user interface or to the send queue.
Told(n, u) == u \in News /\ u.name # n /\ (u.text = Notice \/ TextOK(u.text, u.name, n, typed))
Posted(q) == q \in Packets /\ MsgOK(q.msg, typed)

GetsNews(n, u) == uiq' = [uiq EXCEPT ![n] = Push(uiq[n], u)] /\ UNCHANGED <<sendq, series>>
GetsPost(n, q) == sendq' = [sendq EXCEPT ![n] = Push(sendq[n], q)] /\ UNCHANGED uiq

ChatArrives(n, piece, u) ==
  LET id == piece[1].id
  IN  /\ Headed(piece) /\ id \in Ids /\ id[2] = n
      /\ u = [name |-> id[1], text |-> Text(id, Parts(piece))]
      /\ Told(n, u) /\ GetsNews(n, u)

ChatGoesOn(n, piece, q) ==
  LET id == piece[1].id
  IN  /\ Headed(piece) /\ id \in Ids /\ id[2] # n
      /\ q = [to |-> GetRouting(n, id[2]), msg |-> Forwarded(piece)]
      /\ Posted(q) /\ GetsPost(n, q) /\ q.msg[1] = piece[1]
      /\ series' = [series EXCEPT ![n] = ListAfter(@, id[2], Eot \in Range(Forwarded(piece)))]

LEMMA HandleEffect ==
  ASSUME TypeInv, NEW n \in Node, NEW piece, StretchOK(piece, typed), Handle(n, piece)
  PROVE  /\ intact' \in BOOLEAN
         /\ \/ \E u \in News : ChatArrives(n, piece, u)
            \/ \E q \in Packets : ChatGoesOn(n, piece, q)
            \/ \E u \in News : u = [name |-> System, text |-> Notice] /\ Told(n, u) /\ GetsNews(n, u)
            \/ \E q \in Packets : q = [to |-> NoName, msg |-> <<Pad>>] /\ Posted(q) /\ GetsPost(n, q) /\ UNCHANGED series
<1> DEFINE id == piece[1].id
<1>1. CASE Headed(piece) /\ MsgChat(n, piece)
  <2> DEFINE u == [name |-> id[1], text |-> Text(id, Parts(piece))]
  <2>1. id \in Ids /\ Known(id, typed) /\ piece[2].id = id
    BY <1>1, HeadedFacts
  <2>2. id[1] \in Node /\ id[2] \in Names /\ id[1] # id[2] /\ id[3] \in Nat
    BY <2>1, IdFacts
  <2>3. /\ id[2] = n /\ uiq' = [uiq EXCEPT ![n] = Push(uiq[n], u)] /\ UNCHANGED <<sendq, series>>
        /\ intact' \in BOOLEAN
    BY <1>1, <2>1 DEF MsgChat, PushUi, TypeInv
  <2>4. Parts(piece) \in Nat /\ Parts(piece) <= Length(id, typed)
    <3>1. Length(id, typed) \in Nat
      <4> DEFINE p == <<id[1], id[2]>>
      <4>1. p \in Node \X Users2
        BY <2>2 DEF Users2
      <4>2. typed[p] \in Seq(1 .. BufSize - 3)
        BY <4>1 DEF TypeInv, Histories
      <4>3. id[3] \in DOMAIN typed[p]
        BY <2>1 DEF Known
      <4> HIDE DEF p
      <4> DEFINE h == typed[p]
                 i == id[3]
      <4>4. typed[p][id[3]] \in 1 .. BufSize - 3
        <5> DEFINE sizes == 1 .. BufSize - 3
        <5>1. h \in Seq(sizes) /\ i \in DOMAIN h
          BY <4>2, <4>3
        <5> HIDE DEF h, i, sizes
        <5>2. h[i] \in sizes
          BY <5>1
        <5> QED BY <5>2 DEF h, i, sizes
      <4>5. typed[p][id[3]] \in Nat
        BY <4>4, SizesAssumption
      <4> QED BY <4>5 DEF Length, p
    <3> QED BY <1>1, <3>1, PartsOK
  <2>5. id \in Node \X Users2 \X Nat
    BY <2>1 DEF Ids, Users2
  <2>6. /\ u.name = id[1] /\ u.text.id = id /\ u.text.parts = Parts(piece)
        /\ u \in News
    BY <2>2, <2>4, <2>5, NameFacts DEF Text, News, Texts, Users2
  <2>7. TextOK(u.text, id[1], n, typed)
    BY <2>1, <2>3, <2>4, <2>6 DEF TextOK
  <2>8. Told(n, u)
    BY <2>2, <2>3, <2>6, <2>7 DEF Told
  <2>9. ChatArrives(n, piece, u)
    BY <1>1, <2>1, <2>3, <2>8 DEF ChatArrives, GetsNews
  <2> QED BY <2>3, <2>6, <2>9
<1>2. CASE Headed(piece) /\ Forward(n, piece)
  <2> DEFINE q == [to |-> GetRouting(n, id[2]), msg |-> Forwarded(piece)]
  <2>1. id \in Ids /\ piece[2].id = id
    BY <1>2, HeadedFacts
  <2>2. /\ id[2] # n /\ sendq' = [sendq EXCEPT ![n] = Push(sendq[n], q)] /\ UNCHANGED uiq
        /\ series' = [series EXCEPT ![n] = ListAfter(@, id[2], Eot \in Range(Forwarded(piece)))]
        /\ intact' \in BOOLEAN
    BY <1>2, <2>1 DEF Forward, PushSend, Forwarded, TypeInv
  <2>3. MsgOK(Forwarded(piece), typed) /\ Forwarded(piece)[1] = piece[1]
    BY <1>2, ForwardedOK
  <2>4. Forwarded(piece) \in Seq(Units)
    BY <2>3 DEF MsgOK, StretchOK
  <2>5. q \in Packets /\ Posted(q) /\ q.msg[1] = piece[1]
    BY <2>3, <2>4, NameFacts DEF Posted, Packets
  <2>6. ChatGoesOn(n, piece, q)
    BY <1>2, <2>1, <2>2, <2>5 DEF ChatGoesOn, GetsPost
  <2> QED BY <2>2, <2>5, <2>6
<1>3. CASE ~Headed(piece) /\ Misread(n, piece)
  <2> DEFINE u == [name |-> System, text |-> Notice]
             q == [to |-> NoName, msg |-> <<Pad>>]
  <2>1. intact' \in BOOLEAN /\ UNCHANGED series
    BY <1>3 DEF Misread
  <2>2. u \in News /\ Told(n, u)
    BY NameFacts, NoticeFacts DEF Told, News, Users2
  <2>3. q \in Packets /\ Posted(q)
    <3>1. MsgOK(<<Pad>>, typed)
      BY UnitFacts, SizesAssumption DEF MsgOK, StretchOK
    <3> QED BY <3>1, UnitFacts DEF Posted, Packets
  <2>4. \/ uiq' = [uiq EXCEPT ![n] = Push(uiq[n], u)] /\ UNCHANGED sendq
        \/ sendq' = [sendq EXCEPT ![n] = Push(sendq[n], q)] /\ UNCHANGED uiq
    BY <1>3 DEF Misread, PushUi, PushSend
  <2> HIDE DEF u, q
  <2>5. GetsNews(n, u) \/ GetsPost(n, q)
    BY <2>1, <2>4 DEF GetsNews, GetsPost
  <2> QED BY <2>1, <2>2, <2>3, <2>5 DEF u, q
<1> QED BY <1>1, <1>2, <1>3 DEF Handle

LEMMA ReadTypes == ASSUME TypeInv, NEW n \in Node, NEW m \in Node \ {n}, Read(n, m) PROVE TypeInv'
<1>1. /\ stream' \in [Link -> Seq(Units)] /\ ServersOK' /\ UNCHANGED <<typed, tabs, active>>
      /\ ReadWaits \/ \E j \in Nat : ReadTakes(n, m, j)
  BY ReadEffect
<1>2. ASSUME /\ \A l \in Link : StreamOK(Pipe(l)', typed)
             /\ uiq' \in [Node -> Seq(News)] /\ \A a \in Node : NewsOK(uiq'[a], a, typed)
             /\ sendq' \in [Node -> Seq(Packets)] /\ \A a \in Node : Len(sendq'[a]) <= MaxQueue
             /\ \A a \in Node : \A k \in DOMAIN sendq'[a] : MsgOK(sendq'[a][k].msg, typed)
             /\ series' \in [Node -> SUBSET Names]
             /\ faults' \in 0 .. MaxFaults /\ intact' \in BOOLEAN
      PROVE  TypeInv'
  <2>1. WireTypes'
    BY <1>1, <1>2 DEF WireTypes, ServersOK
  <2>2. ScreenTypes'
    BY <1>1, <1>2 DEF ScreenTypes, TypeInv
  <2> QED BY <1>1, <1>2, <2>1, <2>2 DEF TypeInv
<1>3. CASE ReadWaits
  <2>1. \A l \in Link : StreamOK(Pipe(l)', typed)
    BY <1>3, PipeFacts DEF ReadWaits
  <2> QED BY <1>2, <1>3, <2>1 DEF ReadWaits, TypeInv, WireTypes, ScreenTypes
<1>4. ASSUME NEW j \in Nat, ReadTakes(n, m, j) PROVE TypeInv'
  <2> DEFINE l0 == <<m, n>>
             p == Pipe(l0)
             piece == SubSeq(p, 1, j)
  <2>1. l0 \in Link
    BY DEF Link
  <2>2. /\ j \in 1 .. Len(p) /\ Pipe(l0)' = SubSeq(p, j + 1, Len(p))
        /\ \A l \in Link : l # l0 => Pipe(l)' = Pipe(l)
        /\ faults' \in {faults, faults + 1} /\ faults' <= MaxFaults
        /\ Handle(n, piece)
    BY <1>4 DEF ReadTakes
  <2>3. StreamOK(p, typed)
    BY <2>1, PipeFacts
  <2>4. p = Pipe(l0)
    OBVIOUS
  <2> HIDE DEF p, l0
  <2>5. StretchOK(piece, typed) /\ StreamOK(SubSeq(p, j + 1, Len(p)), typed)
    BY <2>2, <2>3, CutOK
  <2>6. \A l \in Link : StreamOK(Pipe(l)', typed)
    BY <2>2, <2>4, <2>5, PipeFacts
  <2>7. faults' \in 0 .. MaxFaults
    BY <2>2, SizesAssumption DEF TypeInv
  <2> HIDE DEF piece
  <2>8. /\ intact' \in BOOLEAN
        /\ \/ \E u \in News : ChatArrives(n, piece, u)
           \/ \E q \in Packets : ChatGoesOn(n, piece, q)
           \/ \E u \in News : u = [name |-> System, text |-> Notice] /\ Told(n, u) /\ GetsNews(n, u)
           \/ \E q \in Packets : q = [to |-> NoName, msg |-> <<Pad>>] /\ Posted(q) /\ GetsPost(n, q) /\ UNCHANGED series
    BY <2>2, <2>5, HandleEffect
  <2>9. ASSUME NEW u \in News, Told(n, u), GetsNews(n, u) PROVE TypeInv'
    <3>1. NewsOK(Push(uiq[n], u), n, typed)
      BY <2>9, PushNews DEF Told, TypeInv, ScreenTypes
    <3> DEFINE new == Push(uiq[n], u)
    <3>2. uiq' = [uiq EXCEPT ![n] = new] /\ UNCHANGED <<sendq, series>> /\ new \in Seq(News)
      BY <2>9, <3>1 DEF GetsNews, NewsOK
    <3> HIDE DEF new
    <3>3. uiq' \in [Node -> Seq(News)] /\ \A a \in Node : NewsOK(uiq'[a], a, typed)
      BY <3>1, <3>2 DEF TypeInv, ScreenTypes, new
    <3> QED BY <1>2, <2>6, <2>7, <2>8, <3>2, <3>3 DEF TypeInv, WireTypes
  <2>10. ASSUME NEW q \in Packets, Posted(q), GetsPost(n, q), series' \in [Node -> SUBSET Names] PROVE TypeInv'
    <3> DEFINE new == Push(sendq[n], q)
    <3>1. /\ sendq \in [Node -> Seq(Packets)] /\ Len(sendq[n]) <= MaxQueue
      BY DEF TypeInv, WireTypes
    <3>2. /\ new \in Seq(Packets) /\ Len(new) <= MaxQueue
          /\ \A k \in DOMAIN new : new[k] = q \/ (k \in DOMAIN sendq[n] /\ new[k] = sendq[n][k])
      BY <3>1, PushFacts
    <3>3. sendq' = [sendq EXCEPT ![n] = new] /\ UNCHANGED uiq
      BY <2>10 DEF GetsPost
    <3> HIDE DEF new
    <3>4. \A k \in DOMAIN new : MsgOK(new[k].msg, typed)
      BY <2>10, <3>2 DEF Posted, TypeInv, WireTypes
    <3>5. /\ sendq' \in [Node -> Seq(Packets)] /\ \A a \in Node : Len(sendq'[a]) <= MaxQueue
          /\ \A a \in Node : \A k \in DOMAIN sendq'[a] : MsgOK(sendq'[a][k].msg, typed)
      BY <3>1, <3>2, <3>3, <3>4 DEF TypeInv, WireTypes
    <3> QED BY <1>2, <2>6, <2>7, <2>8, <2>10, <3>3, <3>5 DEF TypeInv, ScreenTypes
  <2>11. ASSUME NEW q \in Packets, ChatGoesOn(n, piece, q) PROVE series' \in [Node -> SUBSET Names]
    <3>1. piece[1].id[2] \in Names
      BY <2>11, IdFacts DEF ChatGoesOn
    <3>2. series \in [Node -> SUBSET Names]
      BY DEF TypeInv, WireTypes
    <3> QED BY <2>11, <3>1, <3>2 DEF ChatGoesOn, ListAfter
  <2>12. UNCHANGED series => series' \in [Node -> SUBSET Names]
    BY DEF TypeInv, WireTypes
  <2> QED BY <2>8, <2>9, <2>10, <2>11, <2>12 DEF ChatArrives, ChatGoesOn
<1> QED BY <1>1, <1>3, <1>4

LEMMA NextTypes == TypeInv /\ [Next]_vars => TypeInv'
<1> SUFFICES ASSUME TypeInv, [Next]_vars PROVE TypeInv'
  OBVIOUS
<1>1. CASE UNCHANGED vars
  BY <1>1 DEF vars, wires, screens, TypeInv, WireTypes, ScreenTypes, Pipe, Buf
<1>2. ASSUME NEW n \in Node, AddForeignMessage(n) PROVE TypeInv'
  BY <1>2, ForeignTypes
<1>3. ASSUME NEW n \in Node, SwitchTab(n) PROVE TypeInv'
  BY <1>3, SwitchTypes
<1>4. ASSUME NEW n \in Node, NEW len \in 1 .. BufSize - 3, Enter(n, len) PROVE TypeInv'
  BY <1>4, EnterTypes
<1>5. ASSUME NEW n \in Node, Send(n) PROVE TypeInv'
  BY <1>5, SendTypes
<1>6. ASSUME NEW n \in Node, NEW m \in Node \ {n}, Read(n, m) PROVE TypeInv'
  BY <1>6, ReadTypes
<1> QED BY <1>1, <1>2, <1>3, <1>4, <1>5, <1>6 DEF Next

\* No user has more tabs than there are.
LEMMA TabsFit == ASSUME TypeInv, NEW n \in Node PROVE Len(tabs[n]) <= MaxTabs
<1> DEFINE ts == tabs[n]
           len == Len(ts)
           others == Names \ {n}
           users == others \cup {System}
           f == [i \in 1 .. len |-> ts[i].user]
<1>1. ts \in Seq(Tabs) /\ len \in Nat /\ TabsOK(ts, n, typed)
  BY DEF TypeInv, ScreenTypes
<1>2. \A i \in 1 .. len : ts[i].user \in users
  BY <1>1 DEF TabsOK, TabOK, Tabs, Users2
<1>3. f \in Injection(1 .. len, users)
  <2>1. \A i, j \in 1 .. len : ts[i].user = ts[j].user => i = j
    BY <1>1 DEF TabsOK
  <2> HIDE DEF ts, len, users
  <2>2. f \in [1 .. len -> users] /\ \A i, j \in 1 .. len : f[i] = f[j] => i = j
    BY <1>2, <2>1
  <2> HIDE DEF f
  <2> QED BY <2>2 DEF Injection, IsInjective
<1>4. /\ IsFiniteSet(Names) /\ n \in Names /\ System \notin others
  BY TabsAssumption, NameFacts
<1>5. IsFiniteSet(others) /\ Cardinality(others) = Cardinality(Names) - 1 /\ Cardinality(Names) \in Nat
  BY <1>4, FS_RemoveElement, FS_CardinalityType
<1>6. IsFiniteSet(users) /\ Cardinality(users) = Cardinality(others) + 1
  <2> HIDE DEF others
  <2> QED BY <1>4, <1>5, FS_AddElement
<1>7. IsFiniteSet(1 .. len) /\ Cardinality(1 .. len) = len
  <2> HIDE DEF len
  <2>1. IsFiniteSet(1 .. len) /\ Cardinality(1 .. len) = IF 1 > len THEN 0 ELSE len - 1 + 1
    BY <1>1, FS_Interval
  <2> QED BY <1>1, <2>1
<1> HIDE DEF len, users
<1>8. Cardinality(1 .. len) <= Cardinality(users)
  BY <1>3, <1>6, FS_Injection DEF ExistsInjection
<1>9. Cardinality(Names) <= MaxTabs
  BY TabsAssumption
<1> QED BY <1>1, <1>5, <1>6, <1>7, <1>8, <1>9, SizesAssumption DEF len

LEMMA TypesHold == TypeInv => TypeOK
<1> SUFFICES ASSUME TypeInv PROVE TypeOK
  OBVIOUS
<1>1. \A s \in Seq(Units) : IsUnits(s)
  BY UnitFacts DEF IsUnits
<1>2. typed \in [Node \X (Names \cup {System}) -> Seq(1 .. BufSize - 3)]
  BY DEF TypeInv, Histories, Users2
<1>3. \A l \in Link : IsUnits(stream[l])
  BY <1>1, PipeFacts
<1>4. ASSUME NEW n \in Node
      PROVE  /\ Len(sendq[n]) <= MaxQueue
             /\ \A k \in DOMAIN sendq[n] : /\ sendq[n][k].to \in Node \cup {NoName}
                                           /\ IsUnits(sendq[n][k].msg)
                                           /\ Len(sendq[n][k].msg) < BufSize
  <2> DEFINE q == sendq[n]
  <2>1. q \in Seq(Packets) /\ Len(q) <= MaxQueue /\ \A k \in DOMAIN q : MsgOK(q[k].msg, typed)
    BY DEF TypeInv, WireTypes
  <2> HIDE DEF q
  <2>2. ASSUME NEW k \in DOMAIN q
        PROVE  q[k].to \in Node \cup {NoName} /\ IsUnits(q[k].msg) /\ Len(q[k].msg) < BufSize
    <3>1. q[k] \in Packets /\ MsgOK(q[k].msg, typed)
      BY <2>1
    <3> QED BY <1>1, <3>1 DEF Packets, MsgOK
  <2> QED BY <2>1, <2>2 DEF q
<1>5. ASSUME NEW n \in Node
      PROVE  /\ server[n].reads \in 0 .. MaxRead - 1
             /\ Len(server[n].buf) = server[n].reads * BufSize
             /\ IsUnits(server[n].buf)
             /\ series[n] \subseteq Names
  <2>1. server[n] \in Servers
    BY DEF TypeInv, WireTypes
  <2> QED BY <1>1, <2>1 DEF Servers, TypeInv, WireTypes
<1>6. ASSUME NEW n \in Node
      PROVE  /\ Len(uiq[n]) <= MaxQueue
             /\ active[n] \in DOMAIN tabs[n]
             /\ \A i \in DOMAIN tabs[n] : /\ tabs[n][i].user \in Names \cup {System}
                                          /\ Len(tabs[n][i].msgs) <= MaxMsgs
                                          /\ tabs[n][i].unread \in BOOLEAN
             /\ \A i, j \in DOMAIN tabs[n] : tabs[n][i].user = tabs[n][j].user => i = j
  <2>1. NewsOK(uiq[n], n, typed) /\ active[n] \in DOMAIN tabs[n] /\ TabsOK(tabs[n], n, typed)
    BY DEF TypeInv, ScreenTypes
  <2> QED BY <2>1 DEF NewsOK, TabsOK, TabOK, Tabs, Users2
<1>7. \A n \in Node : Len(tabs[n]) <= MaxTabs
  BY TabsFit
<1> QED BY <1>2, <1>3, <1>4, <1>5, <1>6, <1>7 DEF TypeOK, TypeInv

\* The type invariant, and that queues, buffers and tabs keep within their
\* limits however reads cut and merge messages (src/src/queue.c:30,
\* src/src/tcp_con.c:20, src/src/ui.c:103); no user ever has two tabs.
THEOREM ChatTypes == Spec => []TypeOK
<1>1. Init => TypeInv
  BY InitTypes
<1>2. TypeInv /\ [Next]_vars => TypeInv'
  BY NextTypes
<1>3. TypeInv => TypeOK
  BY TypesHold
<1> QED BY <1>1, <1>2, <1>3, PTL DEF Spec

-----------------------------------------------------------------------------
(***************************************************************************)
(* Texts are shown in order.  The texts of h[0] for h[N] stand in one line *)
(* from the tab of h[N] back to the send queue of h[0]: tab, queue of the  *)
(* user interface, then from the last hop to the first the pipe of the hop *)
(* and the send queue before it.  A step passes the head of one of these   *)
(* stations on to the end of the next, loses it, or adds the next number   *)
(* at the end of the line.                                                 *)
(***************************************************************************)
World == [tabs |-> tabs, uiq |-> uiq, pipe |-> [l \in Link |-> Pipe(l)], sendq |-> sendq]

InTab(V, id, k) ==
  \E i \in DOMAIN V.tabs[id[2]] : LET tab == V.tabs[id[2]][i]
                                 IN  tab.user = id[1] /\ k \in DOMAIN tab.msgs /\ tab.msgs[k].id = id
InUi(V, id, k) == k \in DOMAIN V.uiq[id[2]] /\ V.uiq[id[2]][k].text.id = id
InPipe(V, id, l, k) == l \in Link /\ k \in DOMAIN V.pipe[l] /\ V.pipe[l][k] = Unit("type", id)
InSend(V, id, m, k) == k \in DOMAIN V.sendq[m] /\ V.sendq[m][k].msg[1] = Unit("type", id)

\* The first hops of a text of h[0] for n.
Walk(n, h, N) ==
  /\ h \in [0 .. N -> Node]
  /\ \A i \in 0 .. N - 1 : h[i] # n /\ h[i + 1] = GetRouting(h[i], n)
OnWay(x, n, m) == \E N \in Nat : \E h \in [0 .. N -> Node] : Walk(n, h, N) /\ h[0] = x /\ h[N] = m
Way(h, N) == Walk(h[N], h, N)

\* Ids of texts for one of the nodes, and what does not move.
Places1 == Nat \ {0}
Local == {id \in Ids : id[2] \in Node}
TabsStay(V, W) == \A id \in Local, k \in Places1 : InTab(W, id, k) => InTab(V, id, k)
UisStay(V, W) == \A id \in Local, k \in Places1 : InUi(W, id, k) => InUi(V, id, k)
PipesStay(V, W) == \A id \in Ids, k \in Places1, l \in Link : InPipe(W, id, l, k) => InPipe(V, id, l, k)
SendsStay(V, W) == \A id \in Ids, k \in Places1, a \in Node :
                     InSend(W, id, a, k) => InSend(V, id, a, k) /\ W.sendq[a][k].to = V.sendq[a][k].to

\* No text leaves its way.
WaysOK(V) ==
  /\ \A id \in Ids, k \in Places1, m \in Node :
       InSend(V, id, m, k) => OnWay(id[1], id[2], m) /\ m # id[2] /\ V.sendq[m][k].to = GetRouting(m, id[2])
  /\ \A id \in Ids, k \in Places1, l \in Link :
       InPipe(V, id, l, k) => OnWay(id[1], id[2], l[1]) /\ l[1] # id[2] /\ l[2] = GetRouting(l[1], id[2])
  /\ \A id \in Local, k \in Places1 :
       InUi(V, id, k) \/ InTab(V, id, k) => OnWay(id[1], id[2], id[2])

\* Station, place there, number of the text.
Spots == Nat \X Places1 \X Nat
Stands(h, N, V, s, k, c) ==
  LET id == <<h[0], h[N], c>>
  IN  \/ s = 0 /\ InTab(V, id, k)
      \/ s = 1 /\ InUi(V, id, k)
      \/ \E i \in 0 .. N - 1 : s = 2 * (N - i) /\ InPipe(V, id, <<h[i], h[i + 1]>>, k)
      \/ \E i \in 0 .. N - 1 : s = 2 * (N - i) + 1 /\ InSend(V, id, h[i], k)
Line(h, N, V) == {t \in Spots : Stands(h, N, V, t[1], t[2], t[3])}

Before(a, b) == a[1] < b[1] \/ (a[1] = b[1] /\ a[2] < b[2])
Sorted(S) == \A a, b \in S : Before(a, b) => a[3] < b[3]
LinesOK(V) ==
  \A N \in Places1 : \A h \in [0 .. N -> Node] : Way(h, N) /\ h[0] # h[N] => Sorted(Line(h, N, V))

OrderInv == TypeInv /\ WaysOK(World) /\ LinesOK(World)

LEMMA Induction ==
  ASSUME NEW S, 0 \in S, \A n \in Nat : n \in S => n + 1 \in S
  PROVE  Nat \subseteq S
<1> SUFFICES ASSUME Nat \ S # {} PROVE FALSE
  OBVIOUS
<1> DEFINE bad == Nat \ S
           n == Min(bad)
<1>1. n \in bad /\ \A k \in bad : n <= k
  <2>1. bad \in SUBSET Nat /\ bad # {}
    OBVIOUS
  <2> HIDE DEF bad
  <2> QED BY <2>1, LeastElement
<1> HIDE DEF n
<1>2. n \in Nat /\ n \notin S /\ n # 0
  BY <1>1
<1>3. n - 1 \in Nat /\ (n - 1) + 1 = n /\ ~(n <= n - 1)
  BY <1>2
<1>4. n - 1 \in S
  BY <1>1, <1>3
<1> QED BY <1>2, <1>3, <1>4

LEMMA WayStart == ASSUME NEW x \in Node, NEW n PROVE OnWay(x, n, x)
<1> DEFINE h == [i \in 0 .. 0 |-> x]
<1>1. h \in [0 .. 0 -> Node] /\ h[0] = x /\ 0 .. 0 - 1 = {}
  OBVIOUS
<1> HIDE DEF h
<1>2. Walk(n, h, 0)
  BY <1>1 DEF Walk
<1> QED BY <1>1, <1>2 DEF OnWay

LEMMA WayNext ==
  ASSUME NEW x \in Node, NEW n, NEW m \in Node, OnWay(x, n, m), m # n, GetRouting(m, n) \in Node
  PROVE  OnWay(x, n, GetRouting(m, n))
<1>1. PICK N \in Nat : \E h \in [0 .. N -> Node] : Walk(n, h, N) /\ h[0] = x /\ h[N] = m
  BY DEF OnWay
<1>2. PICK h \in [0 .. N -> Node] : Walk(n, h, N) /\ h[0] = x /\ h[N] = m
  BY <1>1
<1> DEFINE m2 == GetRouting(m, n)
           g == [i \in 0 .. N + 1 |-> IF i = N + 1 THEN m2 ELSE h[i]]
<1> HIDE DEF m2
<1>3. \A i \in 0 .. N + 1 : i # N + 1 => i \in 0 .. N
  OBVIOUS
<1>4. /\ g \in [0 .. N + 1 -> Node] /\ g[N + 1] = m2
      /\ \A i \in 0 .. N : g[i] = h[i]
  BY <1>2, <1>3 DEF m2
<1> HIDE DEF g
<1>5. ASSUME NEW i \in 0 .. (N + 1) - 1 PROVE g[i] # n /\ g[i + 1] = GetRouting(g[i], n)
  <2>1. i \in 0 .. N /\ (i # N => i \in 0 .. N - 1 /\ i + 1 \in 0 .. N)
    OBVIOUS
  <2>2. CASE i = N
    BY <1>2, <1>4, <2>1, <2>2 DEF m2
  <2>3. CASE i # N
    <3>1. h[i] # n /\ h[i + 1] = GetRouting(h[i], n)
      BY <1>2, <2>1, <2>3 DEF Walk
    <3> QED BY <1>4, <2>1, <2>3, <3>1
  <2> QED BY <2>2, <2>3
<1>6. Walk(n, g, N + 1) /\ g[0] = x /\ N + 1 \in Nat
  BY <1>2, <1>4, <1>5 DEF Walk
<1>7. OnWay(x, n, m2)
  BY <1>4, <1>6 DEF OnWay
<1> QED BY <1>7 DEF m2

\* Who is on the way to n is one of the hops of any walk that reaches n.
LEMMA HopOfWay ==
  ASSUME NEW N \in Nat, NEW h \in [0 .. N -> Node], Way(h, N),
         NEW m \in Node, m # h[N], OnWay(h[0], h[N], m)
  PROVE  \E i \in 0 .. N - 1 : h[i] = m
<1> DEFINE n == h[N]
<1>1. PICK L \in Nat : \E w \in [0 .. L -> Node] : Walk(n, w, L) /\ w[0] = h[0] /\ w[L] = m
  BY DEF OnWay
<1>2. PICK w \in [0 .. L -> Node] : Walk(n, w, L) /\ w[0] = h[0] /\ w[L] = m
  BY <1>1
<1>3. n = h[N] /\ Walk(n, h, N)
  BY DEF Way
<1> HIDE DEF n
<1> DEFINE S == {i \in Nat : i <= L /\ i <= N => w[i] = h[i]}
<1>4. 0 \in S
  BY <1>2
<1>5. ASSUME NEW i \in Nat, i \in S PROVE i + 1 \in S
  <2> SUFFICES ASSUME i + 1 <= L, i + 1 <= N PROVE w[i + 1] = h[i + 1]
    OBVIOUS
  <2>1. i \in 0 .. L - 1 /\ i \in 0 .. N - 1 /\ i <= L /\ i <= N
    OBVIOUS
  <2>2. w[i + 1] = GetRouting(w[i], n) /\ h[i + 1] = GetRouting(h[i], n)
    BY <1>2, <1>3, <2>1 DEF Walk
  <2> QED BY <1>5, <2>1, <2>2
<1>6. Nat \subseteq S
  <2> HIDE DEF S
  <2> QED BY <1>4, <1>5, Induction
<1>7. \A i \in Nat : i <= L /\ i <= N => w[i] = h[i]
  BY <1>6
<1>8. L < N
  <2>1. CASE N < L
    <3>1. N \in 0 .. L - 1 /\ N <= N /\ N <= L
      BY <2>1
    <3>2. w[N] # n
      BY <1>2, <3>1 DEF Walk
    <3> QED BY <1>3, <1>7, <3>1, <3>2
  <2>2. CASE N = L
    BY <1>2, <1>3, <1>7, <2>2
  <2> QED BY <2>1, <2>2
<1>9. L \in 0 .. N - 1 /\ h[L] = m
  BY <1>2, <1>7, <1>8
<1> QED BY <1>9

\* Nobody is passed twice.
LEMMA HopsDiffer ==
  ASSUME NEW N \in Nat, NEW h \in [0 .. N -> Node], Way(h, N)
  PROVE  \A i, j \in 0 .. N : h[i] = h[j] => i = j
<1> DEFINE n == h[N]
<1>1. ASSUME NEW i \in 0 .. N, NEW j \in 0 .. N, h[i] = h[j], i < j PROVE FALSE
  <2>1. n = h[N] /\ Walk(n, h, N)
    BY DEF Way
  <2> HIDE DEF n
  <2> DEFINE S == {d \in Nat : j + d <= N => h[i + d] = h[j + d]}
  <2>2. 0 \in S
    BY <1>1
  <2>3. ASSUME NEW d \in Nat, d \in S PROVE d + 1 \in S
    <3> SUFFICES ASSUME j + (d + 1) <= N PROVE h[i + (d + 1)] = h[j + (d + 1)]
      OBVIOUS
    <3>1. /\ i + d \in 0 .. N - 1 /\ j + d \in 0 .. N - 1 /\ j + d <= N
          /\ (i + d) + 1 = i + (d + 1) /\ (j + d) + 1 = j + (d + 1)
      BY <1>1
    <3>2. h[i + d] = h[j + d]
      BY <2>3, <3>1
    <3>3. h[(i + d) + 1] = GetRouting(h[i + d], n) /\ h[(j + d) + 1] = GetRouting(h[j + d], n)
      BY <2>1, <3>1 DEF Walk
    <3> QED BY <3>1, <3>2, <3>3
  <2>4. Nat \subseteq S
    <3> HIDE DEF S
    <3> QED BY <2>2, <2>3, Induction
  <2>5. N - j \in Nat /\ j + (N - j) = N /\ i + (N - j) \in 0 .. N - 1
    BY <1>1
  <2>6. h[i + (N - j)] = h[N]
    BY <2>4, <2>5
  <2>7. h[i + (N - j)] # n
    BY <2>1, <2>5 DEF Walk
  <2> QED BY <2>1, <2>6, <2>7
<1> QED BY <1>1

\* What keeps a line sorted: to lose some, to pass the head of station s + 1
\* on to the end of station s, to add a greater number at the end.
Passed(S, T, s, len, d) ==
  /\ s \in Nat /\ len \in Nat /\ d \in Nat /\ d > 0
  /\ \A t \in T : \/ t \in S /\ t[1] # s + 1 /\ (t[1] = s => t[2] <= len)
                  \/ t[1] = s /\ t[2] = len + 1 /\ <<s + 1, 1, t[3]>> \in S
                  \/ t[1] = s + 1 /\ <<s + 1, t[2] + d, t[3]>> \in S

Grown(S, T, new) ==
  /\ \A t \in T : t \in S \/ t = new
  /\ \A t \in S : Before(t, new) /\ t[3] < new[3]

LEMMA SpotFacts ==
  \A t \in Spots : t = <<t[1], t[2], t[3]>> /\ t[1] \in Nat /\ t[2] \in Nat /\ t[2] > 0 /\ t[3] \in Nat
BY DEF Spots, Places1

LEMMA SortedLess == ASSUME NEW S, NEW T, T \subseteq S, Sorted(S) PROVE Sorted(T)
BY DEF Sorted

LEMMA SortedPassed ==
  ASSUME NEW S \in SUBSET Spots, NEW T \in SUBSET Spots, Sorted(S),
         NEW s, NEW len, NEW d, Passed(S, T, s, len, d)
  PROVE  Sorted(T)
<1> SUFFICES ASSUME NEW a \in T, NEW b \in T, Before(a, b) PROVE a[3] < b[3]
  BY DEF Sorted
<1> DEFINE Origin(t) == IF t[1] = s + 1 THEN <<s + 1, t[2] + d, t[3]>>
                        ELSE IF t[1] = s /\ t[2] = len + 1 THEN <<s + 1, 1, t[3]>>
                        ELSE t
<1>1. /\ s \in Nat /\ len \in Nat /\ d \in Nat /\ d > 0
      /\ \A t \in T : \/ t \in S /\ t[1] # s + 1 /\ (t[1] = s => t[2] <= len)
                      \/ t[1] = s /\ t[2] = len + 1 /\ <<s + 1, 1, t[3]>> \in S
                      \/ t[1] = s + 1 /\ <<s + 1, t[2] + d, t[3]>> \in S
  BY DEF Passed
<1>2. /\ a[1] \in Nat /\ a[2] \in Nat /\ a[2] > 0 /\ a[3] \in Nat
      /\ b[1] \in Nat /\ b[2] \in Nat /\ b[2] > 0 /\ b[3] \in Nat
  BY SpotFacts
<1>3. \A t \in {a, b} : Origin(t) \in S /\ Origin(t)[3] = t[3]
  <2> SUFFICES ASSUME NEW t \in {a, b} PROVE Origin(t) \in S /\ Origin(t)[3] = t[3]
    OBVIOUS
  <2>1. t[1] \in Nat /\ t[2] \in Nat /\ t \in T
    BY <1>2
  <2>2. CASE t[1] = s + 1
    <3>1. t[1] # s
      BY <1>1, <2>2
    <3> QED BY <1>1, <2>1, <2>2, <3>1
  <2>3. CASE t[1] = s /\ t[2] = len + 1
    <3>1. t[1] # s + 1 /\ ~(t[2] <= len)
      BY <1>1, <2>3
    <3> QED BY <1>1, <2>1, <2>3, <3>1
  <2>4. CASE t[1] # s + 1 /\ ~(t[1] = s /\ t[2] = len + 1)
    BY <1>1, <2>1, <2>4
  <2> QED BY <2>2, <2>3, <2>4
<1>4. Before(Origin(a), Origin(b))
  <2>1. a[1] < b[1] \/ (a[1] = b[1] /\ a[2] < b[2])
    BY DEF Before
  <2>2. /\ a[1] # s + 1 /\ a[1] = s /\ a[2] # len + 1 => a[2] <= len
        /\ b[1] # s + 1 /\ b[1] = s /\ b[2] # len + 1 => b[2] <= len
    BY <1>1
  <2>3. /\ Origin(a)[1] = IF a[1] = s + 1 \/ (a[1] = s /\ a[2] = len + 1) THEN s + 1 ELSE a[1]
        /\ Origin(b)[1] = IF b[1] = s + 1 \/ (b[1] = s /\ b[2] = len + 1) THEN s + 1 ELSE b[1]
        /\ Origin(a)[2] = IF a[1] = s + 1 THEN a[2] + d ELSE IF a[1] = s /\ a[2] = len + 1 THEN 1 ELSE a[2]
        /\ Origin(b)[2] = IF b[1] = s + 1 THEN b[2] + d ELSE IF b[1] = s /\ b[2] = len + 1 THEN 1 ELSE b[2]
    OBVIOUS
  <2> HIDE DEF Origin
  <2>4. Origin(a)[1] < Origin(b)[1] \/ (Origin(a)[1] = Origin(b)[1] /\ Origin(a)[2] < Origin(b)[2])
    BY <1>1, <1>2, <2>1, <2>2, <2>3
  <2> QED BY <2>4 DEF Before
<1> HIDE DEF Origin
<1> QED BY <1>3, <1>4 DEF Sorted

LEMMA SortedGrown ==
  ASSUME NEW S \in SUBSET Spots, NEW T \in SUBSET Spots, Sorted(S),
         NEW new \in Spots, Grown(S, T, new)
  PROVE  Sorted(T)
<1> SUFFICES ASSUME NEW a \in T, NEW b \in T, Before(a, b) PROVE a[3] < b[3]
  BY DEF Sorted
<1>1. /\ a[1] \in Nat /\ a[2] \in Nat /\ b[1] \in Nat /\ b[2] \in Nat /\ new[1] \in Nat /\ new[2] \in Nat
  BY SpotFacts
<1>2. a # new
  <2>1. ~Before(new, new)
    BY <1>1 DEF Before
  <2>2. ASSUME b \in S, a = new PROVE FALSE
    <3>1. Before(b, a)
      BY <2>2 DEF Grown
    <3> QED BY <1>1, <3>1 DEF Before
  <2> QED BY <2>1, <2>2 DEF Grown
<1> QED BY <1>2 DEF Grown, Sorted

-----------------------------------------------------------------------------
(***************************************************************************)
(* The ways in which the world W may follow V.                             *)
(***************************************************************************)
\* m passes the head of its send queue on to the pipe to the next node.
SendMove(V, W, m, to, len) ==
  /\ len \in [Link -> Nat]
  /\ TabsStay(V, W) /\ UisStay(V, W)
  /\ \A id \in Ids, k \in Places1, a \in Node :
       InSend(W, id, a, k) =>
         IF a = m THEN InSend(V, id, a, k + 1) /\ W.sendq[a][k].to = V.sendq[a][k + 1].to
         ELSE InSend(V, id, a, k) /\ W.sendq[a][k].to = V.sendq[a][k].to
  /\ \A id \in Ids, k \in Places1, l \in Link :
       InPipe(W, id, l, k) =>
         \/ InPipe(V, id, l, k) /\ k <= len[l]
         \/ l = <<m, to>> /\ k = len[l] + 1 /\ InSend(V, id, m, 1) /\ V.sendq[m][1].to = to

\* n takes j units from its pipe from m, and what their head is of goes to
\* the user interface or to the send queue.
ReadMove(V, W, m, n, j, ulen, slen) ==
  /\ j \in Places1 /\ ulen \in Nat /\ slen \in Nat
  /\ TabsStay(V, W)
  /\ \A id \in Ids, k \in Places1, l \in Link :
       InPipe(W, id, l, k) => IF l = <<m, n>> THEN InPipe(V, id, l, k + j) ELSE InPipe(V, id, l, k)
  /\ \A id \in Local, k \in Places1 :
       InUi(W, id, k) => \/ InUi(V, id, k) /\ (id[2] = n => k <= ulen)
                         \/ id[2] = n /\ k = ulen + 1 /\ InPipe(V, id, <<m, n>>, 1)
  /\ \A id \in Ids, k \in Places1, a \in Node :
       InSend(W, id, a, k) =>
         \/ InSend(V, id, a, k) /\ W.sendq[a][k].to = V.sendq[a][k].to /\ (a = n => k <= slen)
         \/ /\ a = n /\ id[2] # n /\ k = slen + 1 /\ InPipe(V, id, <<m, n>>, 1)
            /\ W.sendq[a][k].to = GetRouting(n, id[2])

\* The user interface of n puts the head of its queue into a tab.
TabMove(V, W, n) ==
  /\ PipesStay(V, W) /\ SendsStay(V, W)
  /\ \A id \in Local, k \in Places1 :
       InUi(W, id, k) => IF id[2] = n THEN InUi(V, id, k + 1) ELSE InUi(V, id, k)
  /\ \A x \in Node : \E len \in Nat : \A id \in Local, k \in Places1 :
       id[1] = x /\ InTab(W, id, k) => \/ InTab(V, id, k) /\ (id[2] = n => k <= len)
                                       \/ id[2] = n /\ k = len + 1 /\ InUi(V, id, 1)

Occurs(V, id) ==
  \E k \in Places1 : \/ id[2] \in Node /\ (InTab(V, id, k) \/ InUi(V, id, k))
                     \/ \E l \in Link : InPipe(V, id, l, k)
                     \/ \E a \in Node : InSend(V, id, a, k)

\* The text new is put at place k0 of the send queue of who has typed it.
TypeMove(V, W, new, k0) ==
  /\ TabsStay(V, W) /\ UisStay(V, W) /\ PipesStay(V, W)
  /\ k0 \in Places1 /\ new \in Ids
  /\ \A id \in Ids, k \in Places1, a \in Node :
       InSend(W, id, a, k) =>
         \/ InSend(V, id, a, k) /\ W.sendq[a][k].to = V.sendq[a][k].to
         \/ id = new /\ a = new[1] /\ k = k0 /\ W.sendq[a][k].to = GetRouting(a, new[2])
  /\ \A id \in Ids, k \in Places1 : InSend(V, id, new[1], k) => k < k0
  /\ \A id \in Ids : id[1] = new[1] /\ id[2] = new[2] /\ Occurs(V, id) => id[3] < new[3]

AllStay(V, W) == TabsStay(V, W) /\ UisStay(V, W) /\ PipesStay(V, W) /\ SendsStay(V, W)

LEMMA LinkFacts ==
  \A l \in Link : l[1] \in Node /\ l[2] \in Node /\ l = <<l[1], l[2]>>
BY DEF Link

LEMMA WaysStay ==
  ASSUME NEW V, NEW W, WaysOK(V), AllStay(V, W)
  PROVE  WaysOK(W)
BY DEF WaysOK, AllStay, TabsStay, UisStay, PipesStay, SendsStay

LEMMA WaysSend ==
  ASSUME NEW V, NEW W, WaysOK(V), NEW m \in Node, NEW to, NEW len, SendMove(V, W, m, to, len)
  PROVE  WaysOK(W)
<1>1. ASSUME NEW id \in Ids, NEW k \in Places1, NEW a \in Node, InSend(W, id, a, k)
      PROVE  OnWay(id[1], id[2], a) /\ a # id[2] /\ W.sendq[a][k].to = GetRouting(a, id[2])
  <2>1. k + 1 \in Places1
    BY DEF Places1
  <2>2. CASE a = m
    <3>1. InSend(V, id, a, k + 1) /\ W.sendq[a][k].to = V.sendq[a][k + 1].to
      BY <1>1, <2>2 DEF SendMove
    <3> QED BY <2>1, <3>1 DEF WaysOK
  <2>3. CASE a # m
    <3>1. InSend(V, id, a, k) /\ W.sendq[a][k].to = V.sendq[a][k].to
      BY <1>1, <2>3 DEF SendMove
    <3> QED BY <3>1 DEF WaysOK
  <2> QED BY <2>2, <2>3
<1>2. ASSUME NEW id \in Ids, NEW k \in Places1, NEW l \in Link, InPipe(W, id, l, k)
      PROVE  OnWay(id[1], id[2], l[1]) /\ l[1] # id[2] /\ l[2] = GetRouting(l[1], id[2])
  <2>1. CASE InPipe(V, id, l, k)
    BY <2>1 DEF WaysOK
  <2>2. CASE l = <<m, to>> /\ InSend(V, id, m, 1) /\ V.sendq[m][1].to = to
    <3>1. 1 \in Places1 /\ l[1] = m /\ l[2] = to
      BY <2>2 DEF Places1
    <3>2. OnWay(id[1], id[2], m) /\ m # id[2] /\ V.sendq[m][1].to = GetRouting(m, id[2])
      BY <2>2, <3>1 DEF WaysOK
    <3> QED BY <2>2, <3>1, <3>2
  <2> QED BY <1>2, <2>1, <2>2 DEF SendMove
<1>3. ASSUME NEW id \in Local, NEW k \in Places1, InUi(W, id, k) \/ InTab(W, id, k)
      PROVE  OnWay(id[1], id[2], id[2])
  BY <1>3 DEF WaysOK, SendMove, TabsStay, UisStay
<1> QED BY <1>1, <1>2, <1>3 DEF WaysOK

LEMMA WaysRead ==
  ASSUME NEW V, NEW W, WaysOK(V), NEW m \in Node, NEW n \in Node \ {m}, NEW j, NEW ulen, NEW slen,
         ReadMove(V, W, m, n, j, ulen, slen)
  PROVE  WaysOK(W)
<1>0. <<m, n>> \in Link /\ <<m, n>>[1] = m /\ <<m, n>>[2] = n /\ 1 \in Places1
  BY DEF Link, Places1
<1>1. ASSUME NEW id \in Ids, InPipe(V, id, <<m, n>>, 1) PROVE OnWay(id[1], id[2], n)
  <2>1. OnWay(id[1], id[2], m) /\ m # id[2] /\ n = GetRouting(m, id[2])
    BY <1>0, <1>1 DEF WaysOK
  <2>2. id[1] \in Node
    BY IdFacts
  <2> QED BY <2>1, <2>2, WayNext
<1>2. ASSUME NEW id \in Ids, NEW k \in Places1, NEW a \in Node, InSend(W, id, a, k)
      PROVE  OnWay(id[1], id[2], a) /\ a # id[2] /\ W.sendq[a][k].to = GetRouting(a, id[2])
  <2>1. CASE InSend(V, id, a, k) /\ W.sendq[a][k].to = V.sendq[a][k].to
    BY <2>1 DEF WaysOK
  <2>2. CASE a = n /\ id[2] # n /\ InPipe(V, id, <<m, n>>, 1) /\ W.sendq[a][k].to = GetRouting(n, id[2])
    BY <1>1, <2>2
  <2> QED BY <1>2, <2>1, <2>2 DEF ReadMove
<1>3. ASSUME NEW id \in Ids, NEW k \in Places1, NEW l \in Link, InPipe(W, id, l, k)
      PROVE  OnWay(id[1], id[2], l[1]) /\ l[1] # id[2] /\ l[2] = GetRouting(l[1], id[2])
  <2>1. \E i \in Places1 : InPipe(V, id, l, i)
    <3>1. CASE l = <<m, n>>
      <4>1. InPipe(V, id, l, k + j) /\ j \in Places1
        BY <1>3, <3>1 DEF ReadMove
      <4>2. k + j \in Places1
        BY <4>1 DEF Places1
      <4> QED BY <4>1, <4>2
    <3>2. CASE l # <<m, n>>
      BY <1>3, <3>2 DEF ReadMove
    <3> QED BY <3>1, <3>2
  <2> QED BY <2>1 DEF WaysOK
<1>4. ASSUME NEW id \in Local, NEW k \in Places1, InUi(W, id, k) \/ InTab(W, id, k)
      PROVE  OnWay(id[1], id[2], id[2])
  <2>1. id \in Ids
    BY DEF Local
  <2>2. InTab(V, id, k) \/ InUi(V, id, k) \/ (id[2] = n /\ InPipe(V, id, <<m, n>>, 1))
    BY <1>4 DEF ReadMove, TabsStay
  <2>3. CASE InTab(V, id, k) \/ InUi(V, id, k)
    BY <2>3 DEF WaysOK
  <2>4. CASE id[2] = n /\ InPipe(V, id, <<m, n>>, 1)
    BY <1>1, <2>1, <2>4
  <2> QED BY <2>2, <2>3, <2>4
<1> QED BY <1>2, <1>3, <1>4 DEF WaysOK

LEMMA WaysTab ==
  ASSUME NEW V, NEW W, WaysOK(V), NEW n \in Node, TabMove(V, W, n)
  PROVE  WaysOK(W)
<1>1. ASSUME NEW id \in Local, NEW k \in Places1, InUi(W, id, k) \/ InTab(W, id, k)
      PROVE  OnWay(id[1], id[2], id[2])
  <2>1. \E i \in Places1 : InUi(V, id, i) \/ InTab(V, id, i)
    <3>1. CASE InUi(W, id, k)
      <4>1. k + 1 \in Places1
        BY DEF Places1
      <4> QED BY <3>1, <4>1 DEF TabMove
    <3>2. CASE InTab(W, id, k)
      <4>1. id[1] \in Node /\ 1 \in Places1
        BY IdFacts DEF Local, Places1
      <4> QED BY <3>2, <4>1 DEF TabMove
    <3> QED BY <1>1, <3>1, <3>2
  <2> QED BY <2>1 DEF WaysOK
<1> QED BY <1>1 DEF WaysOK, TabMove, PipesStay, SendsStay

LEMMA WaysType ==
  ASSUME NEW V, NEW W, WaysOK(V), NEW new, NEW k0, TypeMove(V, W, new, k0)
  PROVE  WaysOK(W)
<1>1. new \in Ids /\ new[1] \in Node /\ new[1] # new[2]
  BY IdFacts DEF TypeMove
<1>2. OnWay(new[1], new[2], new[1])
  BY <1>1, WayStart
<1>3. ASSUME NEW id \in Ids, NEW k \in Places1, NEW a \in Node, InSend(W, id, a, k)
      PROVE  OnWay(id[1], id[2], a) /\ a # id[2] /\ W.sendq[a][k].to = GetRouting(a, id[2])
  <2>1. CASE InSend(V, id, a, k) /\ W.sendq[a][k].to = V.sendq[a][k].to
    BY <2>1 DEF WaysOK
  <2>2. CASE id = new /\ a = new[1] /\ W.sendq[a][k].to = GetRouting(a, new[2])
    BY <1>1, <1>2, <2>2
  <2> QED BY <1>3, <2>1, <2>2 DEF TypeMove
<1> QED BY <1>3 DEF WaysOK, TypeMove, TabsStay, UisStay, PipesStay

-----------------------------------------------------------------------------
(***************************************************************************)
(* What these moves do to a line.                                          *)
(***************************************************************************)
LEMMA Stations ==
  ASSUME NEW N \in Places1, NEW i \in 0 .. N - 1, NEW j \in 0 .. N - 1
  PROVE  /\ 2 * (N - i) \in Nat /\ 2 * (N - i) + 1 \in Nat /\ 2 * (N - i) > 1
         /\ 2 * (N - i) # 2 * (N - j) + 1
         /\ 2 * (N - i) = 2 * (N - j) => i = j
         /\ 2 * (N - i) + 1 = 2 * (N - j) + 1 => i = j
         /\ 2 * (N - i) + 1 <= 2 * N + 1
         /\ 2 * (N - i) + 1 = 2 * N + 1 => i = 0
BY DEF Places1

LEMMA StandsWhere ==
  ASSUME NEW N \in Places1, NEW h, NEW V, NEW s, NEW k, NEW c, Stands(h, N, V, s, k, c)
  PROVE  LET id == <<h[0], h[N], c>>
         IN  /\ s = 0 => InTab(V, id, k)
             /\ s = 1 => InUi(V, id, k)
             /\ s # 0 /\ s # 1 => \/ \E i \in 0 .. N - 1 : s = 2 * (N - i) /\ InPipe(V, id, <<h[i], h[i + 1]>>, k)
                                  \/ \E i \in 0 .. N - 1 : s = 2 * (N - i) + 1 /\ InSend(V, id, h[i], k)
<1> DEFINE id == <<h[0], h[N], c>>
           tab == s = 0 /\ InTab(V, id, k)
           ui == s = 1 /\ InUi(V, id, k)
           wire == \E i \in 0 .. N - 1 : s = 2 * (N - i) /\ InPipe(V, id, <<h[i], h[i + 1]>>, k)
           send == \E i \in 0 .. N - 1 : s = 2 * (N - i) + 1 /\ InSend(V, id, h[i], k)
<1>1. tab \/ ui \/ wire \/ send
  BY DEF Stands
<1>2. \A i \in 0 .. N - 1 : /\ 2 * (N - i) # 0 /\ 2 * (N - i) + 1 # 0
                            /\ 2 * (N - i) # 1 /\ 2 * (N - i) + 1 # 1
  <2> SUFFICES ASSUME NEW i \in 0 .. N - 1
               PROVE  /\ 2 * (N - i) # 0 /\ 2 * (N - i) + 1 # 0
                      /\ 2 * (N - i) # 1 /\ 2 * (N - i) + 1 # 1
    OBVIOUS
  <2>1. N - i \in Nat /\ N - i > 0
    BY DEF Places1
  <2> QED BY <2>1
<1>3. wire \/ send => s # 0 /\ s # 1
  BY <1>2
<1>4. /\ tab => InTab(V, id, k) /\ s = 0
      /\ ui => InUi(V, id, k) /\ s = 1
  OBVIOUS
<1> HIDE DEF tab, ui
<1> QED BY <1>1, <1>3, <1>4

LEMMA LinePut ==
  ASSUME NEW N, NEW h, NEW V, NEW s \in Nat, NEW k \in Places1, NEW c \in Nat
  PROVE  Stands(h, N, V, s, k, c) => <<s, k, c>> \in Line(h, N, V)
<1> DEFINE t == <<s, k, c>>
<1>1. t \in Spots /\ t[1] = s /\ t[2] = k /\ t[3] = c
  BY DEF Spots
<1> HIDE DEF t
<1>2. Stands(h, N, V, s, k, c) => Stands(h, N, V, t[1], t[2], t[3])
  BY <1>1
<1>3. Stands(h, N, V, s, k, c) => t \in Line(h, N, V)
  BY <1>1, <1>2 DEF Line
<1> QED BY <1>3 DEF t

LEMMA LineGet ==
  ASSUME NEW N, NEW h, NEW V, NEW t \in Line(h, N, V)
  PROVE  /\ t[1] \in Nat /\ t[2] \in Places1 /\ t[3] \in Nat /\ t = <<t[1], t[2], t[3]>>
         /\ Stands(h, N, V, t[1], t[2], t[3])
BY DEF Line, Spots

LEMMA LineIds ==
  ASSUME NEW N \in Places1, NEW h \in [0 .. N -> Node], h[0] # h[N], NEW c \in Nat
  PROVE  /\ <<h[0], h[N], c>> \in Local /\ <<h[0], h[N], c>> \in Ids
         /\ <<h[0], h[N], c>>[1] = h[0] /\ <<h[0], h[N], c>>[2] = h[N] /\ <<h[0], h[N], c>>[3] = c
         /\ h[0] \in Node /\ h[N] \in Node
<1>1. h[0] \in Node /\ h[N] \in Node
  BY DEF Places1
<1>2. h[N] \in Names
  BY <1>1, NameFacts
<1> QED BY <1>1, <1>2 DEF Local, Ids

LEMMA HopNext ==
  ASSUME NEW N, NEW h, Way(h, N), NEW i \in 0 .. N - 1
  PROVE  h[i] # h[N] /\ h[i + 1] = GetRouting(h[i], h[N])
BY DEF Way, Walk

LEMMA HopFacts ==
  ASSUME NEW N \in Places1, NEW h \in [0 .. N -> Node], Way(h, N), NEW i \in 0 .. N - 1
  PROVE  /\ i \in 0 .. N /\ i + 1 \in 0 .. N /\ h[i] \in Node /\ h[i + 1] \in Node
         /\ <<h[i], h[i + 1]>> \in Link
         /\ <<h[i], h[i + 1]>>[1] = h[i] /\ <<h[i], h[i + 1]>>[2] = h[i + 1]
<1>1. i \in 0 .. N /\ i + 1 \in 0 .. N /\ i # i + 1
  BY DEF Places1
<1>2. h[i] \in Node /\ h[i + 1] \in Node /\ h[i] # h[i + 1]
  BY <1>1, HopsDiffer DEF Places1
<1> QED BY <1>1, <1>2 DEF Link

\* No more stands in the line, and everything where it was.
LEMMA LineStay ==
  ASSUME NEW V, NEW W, AllStay(V, W), NEW N \in Places1, NEW h \in [0 .. N -> Node],
         Way(h, N), h[0] # h[N]
  PROVE  Line(h, N, W) \subseteq Line(h, N, V)
<1> SUFFICES ASSUME NEW t \in Line(h, N, W) PROVE t \in Line(h, N, V)
  OBVIOUS
<1> DEFINE s == t[1]
           k == t[2]
           c == t[3]
           id == <<h[0], h[N], c>>
<1>1. s \in Nat /\ k \in Places1 /\ c \in Nat /\ t = <<s, k, c>> /\ Stands(h, N, W, s, k, c)
  BY LineGet
<1>2. id \in Local /\ id \in Ids
  BY <1>1, LineIds
<1> HIDE DEF s, k, c
<1>3. Stands(h, N, V, s, k, c)
  <2>1. CASE s = 0 /\ InTab(W, id, k)
    BY <1>1, <1>2, <2>1 DEF Stands, AllStay, TabsStay
  <2>2. CASE s = 1 /\ InUi(W, id, k)
    BY <1>1, <1>2, <2>2 DEF Stands, AllStay, UisStay
  <2>3. ASSUME NEW i \in 0 .. N - 1, s = 2 * (N - i), InPipe(W, id, <<h[i], h[i + 1]>>, k)
        PROVE  Stands(h, N, V, s, k, c)
    <3>1. InPipe(V, id, <<h[i], h[i + 1]>>, k)
      BY <1>1, <1>2, <2>3, HopFacts DEF AllStay, PipesStay
    <3> QED BY <2>3, <3>1 DEF Stands
  <2>4. ASSUME NEW i \in 0 .. N - 1, s = 2 * (N - i) + 1, InSend(W, id, h[i], k)
        PROVE  Stands(h, N, V, s, k, c)
    <3>1. InSend(V, id, h[i], k)
      BY <1>1, <1>2, <2>4, HopFacts DEF AllStay, SendsStay
    <3> QED BY <2>4, <3>1 DEF Stands
  <2> QED BY <1>1, <2>1, <2>2, <2>3, <2>4 DEF Stands
<1> QED BY <1>1, <1>3, LinePut

LEMMA LineSend ==
  ASSUME NEW V, NEW W, WaysOK(V), NEW m \in Node, NEW to, NEW len, SendMove(V, W, m, to, len),
         NEW N \in Places1, NEW h \in [0 .. N -> Node], Way(h, N), h[0] # h[N],
         Sorted(Line(h, N, V))
  PROVE  Sorted(Line(h, N, W))
<1> DEFINE S == Line(h, N, V)
           T == Line(h, N, W)
           Id(c) == <<h[0], h[N], c>>
<1>1. ASSUME NEW t \in T
      PROVE  /\ t[1] \in Nat /\ t[2] \in Places1 /\ t[3] \in Nat /\ t = <<t[1], t[2], t[3]>>
             /\ Stands(h, N, W, t[1], t[2], t[3])
             /\ Id(t[3]) \in Local /\ Id(t[3]) \in Ids
  <2>1. /\ t[1] \in Nat /\ t[2] \in Places1 /\ t[3] \in Nat /\ t = <<t[1], t[2], t[3]>>
        /\ Stands(h, N, W, t[1], t[2], t[3])
    BY LineGet
  <2> QED BY <2>1, LineIds
<1>2. S \in SUBSET Spots /\ T \in SUBSET Spots
  BY DEF Line
<1> HIDE DEF S, T
\* If m is a hop of the way, its queue is one station and its pipe the next.
<1>3. ASSUME NEW a \in 0 .. N - 1, h[a] = m PROVE Passed(S, T, 2 * (N - a), len[<<h[a], h[a + 1]>>], 1)
  <2> DEFINE p == 2 * (N - a)
             end == len[<<h[a], h[a + 1]>>]
  <2>1. p \in Nat /\ p > 1 /\ end \in Nat
    BY Stations, HopFacts DEF SendMove
  <2>2. ASSUME NEW t \in T
        PROVE  \/ t \in S /\ t[1] # p + 1 /\ (t[1] = p => t[2] <= end)
               \/ t[1] = p /\ t[2] = end + 1 /\ <<p + 1, 1, t[3]>> \in S
               \/ t[1] = p + 1 /\ <<p + 1, t[2] + 1, t[3]>> \in S
    <3> DEFINE s == t[1]
               k == t[2]
               c == t[3]
               id == Id(c)
    <3>1. s \in Nat /\ k \in Places1 /\ c \in Nat /\ t = <<s, k, c>> /\ Stands(h, N, W, s, k, c) /\ id \in Local /\ id \in Ids
      BY <1>1
    <3>2. k + 1 \in Places1 /\ 1 \in Places1 /\ p + 1 \in Nat
      BY <2>1, <3>1 DEF Places1
    <3> HIDE DEF s, k, c, p, end
    <3>3. CASE s = 0 /\ InTab(W, id, k)
      <4>1. InTab(V, id, k)
        BY <3>1, <3>3 DEF SendMove, TabsStay
      <4>2. <<s, k, c>> \in S
        BY <3>1, <3>3, <4>1, LinePut DEF Stands, S
      <4> QED BY <2>1, <3>1, <3>3, <4>2
    <3>4. CASE s = 1 /\ InUi(W, id, k)
      <4>1. InUi(V, id, k)
        BY <3>1, <3>4 DEF SendMove, UisStay
      <4>2. <<s, k, c>> \in S
        BY <3>1, <3>4, <4>1, LinePut DEF Stands, S
      <4> QED BY <2>1, <3>1, <3>4, <4>2
    <3>5. ASSUME NEW i \in 0 .. N - 1, s = 2 * (N - i), InPipe(W, id, <<h[i], h[i + 1]>>, k)
          PROVE  \/ <<s, k, c>> \in S /\ s # p + 1 /\ (s = p => k <= end)
                 \/ s = p /\ k = end + 1 /\ <<p + 1, 1, c>> \in S
      <4> DEFINE l == <<h[i], h[i + 1]>>
      <4>1. l \in Link /\ l[1] = h[i] /\ l[2] = h[i + 1]
        BY HopFacts
      <4>2. s # p + 1 /\ (s = p => i = a)
        BY <3>5, Stations DEF p
      <4>4. CASE InPipe(V, id, l, k) /\ k <= len[l]
        <5>1. <<s, k, c>> \in S
          BY <3>1, <3>5, <4>4, LinePut DEF Stands, S
        <5>2. s = p => k <= end
          BY <4>2, <4>4 DEF end
        <5> QED BY <4>2, <5>1, <5>2
      <4>5. CASE l = <<m, to>> /\ k = len[l] + 1 /\ InSend(V, id, m, 1)
        <5>1. h[i] = h[a]
          BY <1>3, <4>1, <4>5
        <5>2. i = a
          <6>1. i \in 0 .. N /\ a \in 0 .. N
            BY HopFacts
          <6> QED BY <5>1, <6>1, HopsDiffer DEF Places1
        <5>3. <<p + 1, 1, c>> \in S
          BY <1>3, <3>1, <3>2, <4>5, LinePut DEF Stands, S, p
        <5> QED BY <3>5, <4>5, <5>2, <5>3 DEF p, end
      <4> QED BY <3>1, <3>5, <4>1, <4>4, <4>5 DEF SendMove
    <3>6. ASSUME NEW i \in 0 .. N - 1, s = 2 * (N - i) + 1, InSend(W, id, h[i], k)
          PROVE  \/ <<s, k, c>> \in S /\ s # p + 1 /\ s # p
                 \/ s = p + 1 /\ <<p + 1, k + 1, c>> \in S
      <4>1. h[i] \in Node
        BY HopFacts
      <4>2. CASE h[i] = m
        <5>1. i = a
          <6>1. i \in 0 .. N /\ a \in 0 .. N
            BY HopFacts
          <6> QED BY <1>3, <4>2, <6>1, HopsDiffer DEF Places1
        <5>2. InSend(V, id, m, k + 1)
          BY <3>1, <3>6, <4>2 DEF SendMove
        <5>3. <<p + 1, k + 1, c>> \in S
          BY <1>3, <3>1, <3>2, <5>2, LinePut DEF Stands, S, p
        <5> QED BY <3>6, <5>1, <5>3 DEF p
      <4>3. CASE h[i] # m
        <5>1. InSend(V, id, h[i], k)
          BY <3>1, <3>6, <4>1, <4>3 DEF SendMove
        <5>2. <<s, k, c>> \in S
          BY <3>1, <3>6, <5>1, LinePut DEF Stands, S
        <5>3. i # a
          BY <1>3, <4>3
        <5>4. s # p /\ s # p + 1
          BY <3>6, <5>3, Stations DEF p
        <5> QED BY <5>2, <5>4
      <4> QED BY <4>2, <4>3
    <3>7. \/ s = 0 /\ InTab(W, id, k)
          \/ s = 1 /\ InUi(W, id, k)
          \/ \E i \in 0 .. N - 1 : s = 2 * (N - i) /\ InPipe(W, id, <<h[i], h[i + 1]>>, k)
          \/ \E i \in 0 .. N - 1 : s = 2 * (N - i) + 1 /\ InSend(W, id, h[i], k)
      BY <3>1 DEF Stands
    <3>8. \/ <<s, k, c>> \in S /\ s # p + 1 /\ (s = p => k <= end)
          \/ s = p /\ k = end + 1 /\ <<p + 1, 1, c>> \in S
          \/ s = p + 1 /\ <<p + 1, k + 1, c>> \in S
      <4>1. CASE \E i \in 0 .. N - 1 : s = 2 * (N - i) /\ InPipe(W, id, <<h[i], h[i + 1]>>, k)
        BY <3>5, <4>1
      <4>2. CASE \E i \in 0 .. N - 1 : s = 2 * (N - i) + 1 /\ InSend(W, id, h[i], k)
        BY <3>6, <4>2
      <4>3. CASE (s = 0 /\ InTab(W, id, k)) \/ (s = 1 /\ InUi(W, id, k))
        BY <3>1, <3>3, <3>4, <4>3 DEF s, k, c
      <4> QED BY <3>7, <4>1, <4>2, <4>3
    <3> QED BY <3>1, <3>8 DEF s, k, c
  <2> QED BY <2>1, <2>2 DEF Passed

\* Nobody else of the line is touched.
<1>4. ASSUME \A i \in 0 .. N - 1 : h[i] # m PROVE T \subseteq S
  <2> SUFFICES ASSUME NEW t \in T PROVE t \in S
    OBVIOUS
  <2> DEFINE s == t[1]
             k == t[2]
             c == t[3]
             id == Id(c)
  <2>1. s \in Nat /\ k \in Places1 /\ c \in Nat /\ t = <<s, k, c>> /\ Stands(h, N, W, s, k, c) /\ id \in Local /\ id \in Ids
    BY <1>1
  <2> HIDE DEF s, k, c
  <2>2. Stands(h, N, V, s, k, c)
    <3>1. CASE s = 0 /\ InTab(W, id, k)
      BY <2>1, <3>1 DEF Stands, SendMove, TabsStay
    <3>2. CASE s = 1 /\ InUi(W, id, k)
      BY <2>1, <3>2 DEF Stands, SendMove, UisStay
    <3>3. ASSUME NEW i \in 0 .. N - 1, s = 2 * (N - i), InPipe(W, id, <<h[i], h[i + 1]>>, k)
          PROVE  Stands(h, N, V, s, k, c)
      <4> DEFINE l == <<h[i], h[i + 1]>>
      <4>1. l \in Link /\ l[1] = h[i]
        BY HopFacts
      <4>2. l # <<m, to>>
        BY <1>4, <4>1
      <4>3. InPipe(V, id, l, k)
        BY <2>1, <3>3, <4>1, <4>2 DEF SendMove
      <4> QED BY <3>3, <4>3 DEF Stands
    <3>4. ASSUME NEW i \in 0 .. N - 1, s = 2 * (N - i) + 1, InSend(W, id, h[i], k)
          PROVE  Stands(h, N, V, s, k, c)
      <4>1. h[i] # m /\ h[i] \in Node
        BY <1>4, HopFacts
      <4>2. InSend(V, id, h[i], k)
        BY <2>1, <3>4, <4>1 DEF SendMove
      <4> QED BY <3>4, <4>2 DEF Stands
    <3> QED BY <2>1, <3>1, <3>2, <3>3, <3>4 DEF Stands
  <2> QED BY <2>1, <2>2, LinePut DEF S
<1>5. Sorted(S)
  BY DEF S
<1>6. CASE \E a \in 0 .. N - 1 : h[a] = m
  <2>1. Sorted(T)
    BY <1>2, <1>3, <1>5, <1>6, SortedPassed
  <2> QED BY <2>1 DEF T
<1>7. CASE \A i \in 0 .. N - 1 : h[i] # m
  <2>1. Sorted(T)
    BY <1>4, <1>5, <1>7, SortedLess
  <2> QED BY <2>1 DEF T
<1> QED BY <1>6, <1>7

LEMMA LineRead ==
  ASSUME NEW V, NEW W, WaysOK(V), NEW m \in Node, NEW n \in Node \ {m}, NEW j, NEW ulen, NEW slen,
         ReadMove(V, W, m, n, j, ulen, slen),
         NEW N \in Places1, NEW h \in [0 .. N -> Node], Way(h, N), h[0] # h[N],
         Sorted(Line(h, N, V))
  PROVE  Sorted(Line(h, N, W))
<1> DEFINE S == Line(h, N, V)
           T == Line(h, N, W)
           Id(c) == <<h[0], h[N], c>>
           l0 == <<m, n>>
<1>0. l0 \in Link /\ l0[1] = m /\ l0[2] = n
  BY DEF Link
<1>1. ASSUME NEW t \in T
      PROVE  /\ t[1] \in Nat /\ t[2] \in Places1 /\ t[3] \in Nat /\ t = <<t[1], t[2], t[3]>>
             /\ Stands(h, N, W, t[1], t[2], t[3])
             /\ Id(t[3]) \in Local /\ Id(t[3]) \in Ids /\ Id(t[3])[2] = h[N]
  <2>1. /\ t[1] \in Nat /\ t[2] \in Places1 /\ t[3] \in Nat /\ t = <<t[1], t[2], t[3]>>
        /\ Stands(h, N, W, t[1], t[2], t[3])
    BY LineGet
  <2> QED BY <2>1, LineIds
<1>2. S \in SUBSET Spots /\ T \in SUBSET Spots
  BY DEF Line
<1>3. j \in Places1 /\ ulen \in Nat /\ slen \in Nat
  BY DEF ReadMove
<1> HIDE DEF S, T
\* If the pipe is a hop of the way, what stands before it is a station.
<1>4. ASSUME NEW a \in 0 .. N - 1, h[a] = m, h[a + 1] = n
      PROVE  Passed(S, T, 2 * (N - a) - 1, IF a + 1 = N THEN ulen ELSE slen, j)
  <2> DEFINE p == 2 * (N - a) - 1
             end == IF a + 1 = N THEN ulen ELSE slen
  <2>1. p \in Nat /\ p > 0 /\ end \in Nat /\ p + 1 = 2 * (N - a) /\ (p = 1 <=> a + 1 = N)
        /\ p + 1 \in Nat /\ j \in Nat /\ j > 0 /\ 1 \in Places1
    BY <1>3 DEF Places1
  <2>2. \A i \in 0 .. N - 1 : (h[i] = n => i = a + 1) /\ (h[i] = m => i = a)
    <3>1. \A i \in 0 .. N - 1 : i \in 0 .. N /\ i + 1 \in 0 .. N
      BY HopFacts
    <3> QED BY <1>4, <3>1, HopsDiffer DEF Places1
  <2>3. h[N] = n => a + 1 = N
    <3>1. a + 1 \in 0 .. N /\ N \in 0 .. N
      BY DEF Places1
    <3> QED BY <1>4, <3>1, HopsDiffer DEF Places1
  <2>4. a + 1 = N => h[N] = n
    BY <1>4
  <2>5. ASSUME NEW t \in T
        PROVE  \/ t \in S /\ t[1] # p + 1 /\ (t[1] = p => t[2] <= end)
               \/ t[1] = p /\ t[2] = end + 1 /\ <<p + 1, 1, t[3]>> \in S
               \/ t[1] = p + 1 /\ <<p + 1, t[2] + j, t[3]>> \in S
    <3> DEFINE s == t[1]
               k == t[2]
               c == t[3]
               id == Id(c)
               Goal == \/ <<s, k, c>> \in S /\ s # p + 1 /\ (s = p => k <= end)
                       \/ s = p /\ k = end + 1 /\ <<p + 1, 1, c>> \in S
                       \/ s = p + 1 /\ <<p + 1, k + j, c>> \in S
    <3>1. s \in Nat /\ k \in Places1 /\ c \in Nat /\ t = <<s, k, c>> /\ Stands(h, N, W, s, k, c) /\ id \in Local /\ id \in Ids /\ id[2] = h[N]
      BY <1>1
    <3>2. k + j \in Places1
      BY <1>3, <3>1 DEF Places1
    <3> HIDE DEF s, k, c, p, end
    \* The head of the pipe is what is passed.
    <3>3. InPipe(V, id, l0, 1) => <<p + 1, 1, c>> \in S
      BY <1>4, <2>1, <3>1, LinePut DEF Stands, S
    <3>4. CASE s = 0 /\ InTab(W, id, k)
      <4>1. InTab(V, id, k)
        BY <3>1, <3>4 DEF ReadMove, TabsStay
      <4>2. <<s, k, c>> \in S
        BY <3>1, <3>4, <4>1, LinePut DEF Stands, S
      <4> QED BY <2>1, <3>1, <3>4, <4>2
    <3>5. CASE s = 1 /\ InUi(W, id, k)
      <4>1. s = p => a + 1 = N
        BY <2>1, <3>5
      <4>2. s # p + 1
        BY <2>1, <3>5
      <4>3. CASE InUi(V, id, k) /\ (id[2] = n => k <= ulen)
        <5>1. <<s, k, c>> \in S
          BY <3>1, <3>5, <4>3, LinePut DEF Stands, S
        <5>2. s = p => k <= end
          BY <2>4, <3>1, <4>1, <4>3 DEF end
        <5> QED BY <3>1, <4>2, <5>1, <5>2
      <4>4. CASE id[2] = n /\ k = ulen + 1 /\ InPipe(V, id, l0, 1)
        <5>1. a + 1 = N /\ s = p
          BY <2>1, <2>3, <3>1, <3>5, <4>4
        <5> QED BY <3>1, <3>3, <4>4, <5>1 DEF end
      <4> QED BY <3>1, <3>5, <4>3, <4>4 DEF ReadMove
    <3>6. ASSUME NEW i \in 0 .. N - 1, s = 2 * (N - i), InPipe(W, id, <<h[i], h[i + 1]>>, k) PROVE Goal
      <4> DEFINE l == <<h[i], h[i + 1]>>
      <4>1. l \in Link /\ l[1] = h[i] /\ l[2] = h[i + 1]
        BY HopFacts
      <4>2. CASE l = l0
        <5>1. i = a
          BY <1>0, <2>2, <4>1, <4>2
        <5>2. InPipe(V, id, l, k + j)
          BY <3>1, <3>6, <4>1, <4>2 DEF ReadMove
        <5>3. <<p + 1, k + j, c>> \in S
          BY <2>1, <3>1, <3>2, <5>1, <5>2, LinePut DEF Stands, S
        <5> QED BY <2>1, <3>6, <5>1, <5>3
      <4>3. CASE l # l0
        <5>1. InPipe(V, id, l, k)
          BY <3>1, <3>6, <4>1, <4>3 DEF ReadMove
        <5>2. <<s, k, c>> \in S
          BY <3>1, <3>6, <5>1, LinePut DEF Stands, S
        <5>3. i # a
          BY <1>4, <4>3
        <5>4. s # p + 1 /\ s # p
          <6>1. s # 2 * (N - a)
            BY <3>6, <5>3, Stations
          <6>2. s # p
            <7>1. N \in Int /\ i \in Int /\ a \in Int
              BY DEF Places1
            <7> QED BY <3>6, <7>1 DEF p
          <6> QED BY <2>1, <6>1, <6>2
        <5> QED BY <5>2, <5>4
      <4> QED BY <4>2, <4>3
    <3>7. ASSUME NEW i \in 0 .. N - 1, s = 2 * (N - i) + 1, InSend(W, id, h[i], k) PROVE Goal
      <4>1. h[i] \in Node /\ h[i] # h[N]
        <5>1. h[i] \in Node
          BY HopFacts
        <5>2. h[i] # h[N]
          BY HopNext, Zenon
        <5> QED BY <5>1, <5>2
      <4>2. s # p + 1 /\ (s = p => i = a + 1)
        <5>1. N \in Int /\ i \in Int /\ a \in Int
          BY DEF Places1
        <5> QED BY <3>7, <5>1 DEF p
      <4>3. CASE InSend(V, id, h[i], k) /\ (h[i] = n => k <= slen)
        <5>1. <<s, k, c>> \in S
          BY <3>1, <3>7, <4>3, LinePut DEF Stands, S
        <5>2. ASSUME s = p PROVE k <= end
          <6>1. i = a + 1 /\ a + 1 # N /\ h[i] = n
            BY <1>4, <4>2, <5>2
          <6> QED BY <4>3, <6>1 DEF end
        <5> QED BY <4>2, <5>1, <5>2
      <4>4. CASE h[i] = n /\ k = slen + 1 /\ InPipe(V, id, l0, 1)
        <5>0. i = a + 1
          BY <2>2, <4>4
        <5>1. i = a + 1 /\ a + 1 # N
          BY <2>4, <4>1, <4>4, <5>0
        <5>2. s = p
          <6>1. N \in Int /\ i \in Int /\ a \in Int
            BY DEF Places1
          <6> QED BY <3>7, <5>1, <6>1 DEF p
        <5> QED BY <3>3, <4>4, <5>1, <5>2 DEF end
      <4> QED BY <3>1, <3>7, <4>1, <4>3, <4>4 DEF ReadMove
    <3>8. Goal
      <4>1. CASE \E i \in 0 .. N - 1 : s = 2 * (N - i) /\ InPipe(W, id, <<h[i], h[i + 1]>>, k)
        BY <3>6, <4>1
      <4>2. CASE \E i \in 0 .. N - 1 : s = 2 * (N - i) + 1 /\ InSend(W, id, h[i], k)
        BY <3>7, <4>2
      <4>3. CASE s = 0 /\ InTab(W, id, k)
        BY <3>4, <4>3, <3>1 DEF s, k, c
      <4>4. CASE s = 1 /\ InUi(W, id, k)
        BY <3>5, <4>4, <3>1 DEF s, k, c
      <4> QED BY <3>1, <4>1, <4>2, <4>3, <4>4 DEF Stands
    <3> QED BY <3>1, <3>8 DEF s, k, c
  <2> QED BY <2>1, <2>5 DEF Passed
\* Else no text of the line is at the head of the pipe.
<1>5. ASSUME ~ \E a \in 0 .. N - 1 : h[a] = m /\ h[a + 1] = n PROVE T \subseteq S
  <2> SUFFICES ASSUME NEW t \in T PROVE t \in S
    OBVIOUS
  <2> DEFINE s == t[1]
             k == t[2]
             c == t[3]
             id == Id(c)
  <2>1. s \in Nat /\ k \in Places1 /\ c \in Nat /\ t = <<s, k, c>> /\ Stands(h, N, W, s, k, c) /\ id \in Local /\ id \in Ids
    BY <1>1
  <2>2. id[1] = h[0] /\ id[2] = h[N] /\ 1 \in Places1
    BY <2>1, LineIds DEF Places1
  <2> HIDE DEF s, k, c
  <2>3. ~InPipe(V, id, l0, 1)
    <3> SUFFICES ASSUME InPipe(V, id, l0, 1) PROVE FALSE
      OBVIOUS
    <3>1. OnWay(h[0], h[N], m) /\ m # h[N] /\ n = GetRouting(m, h[N])
      BY <1>0, <2>1, <2>2 DEF WaysOK
    <3>2. N \in Nat
      BY DEF Places1
    <3>3. PICK i \in 0 .. N - 1 : h[i] = m
      BY <3>1, <3>2, HopOfWay
    <3>4. h[i + 1] = n
      <4>1. h[i + 1] = GetRouting(h[i], h[N])
        BY HopNext, Zenon
      <4> QED BY <3>1, <3>3, <4>1
    <3> QED BY <1>5, <3>3, <3>4
  <2>4. Stands(h, N, V, s, k, c)
    <3>1. CASE s = 0 /\ InTab(W, id, k)
      BY <2>1, <3>1 DEF Stands, ReadMove, TabsStay
    <3>2. CASE s = 1 /\ InUi(W, id, k)
      <4>1. InUi(V, id, k)
        BY <2>1, <2>3, <3>2 DEF ReadMove
      <4> QED BY <3>2, <4>1 DEF Stands
    <3>3. ASSUME NEW i \in 0 .. N - 1, s = 2 * (N - i), InPipe(W, id, <<h[i], h[i + 1]>>, k)
          PROVE  Stands(h, N, V, s, k, c)
      <4> DEFINE l == <<h[i], h[i + 1]>>
      <4>1. l \in Link /\ l[1] = h[i] /\ l[2] = h[i + 1]
        BY HopFacts
      <4>2. l # l0
        BY <1>0, <1>5, <4>1
      <4>3. InPipe(V, id, l, k)
        BY <2>1, <3>3, <4>1, <4>2 DEF ReadMove
      <4> QED BY <3>3, <4>3 DEF Stands
    <3>4. ASSUME NEW i \in 0 .. N - 1, s = 2 * (N - i) + 1, InSend(W, id, h[i], k)
          PROVE  Stands(h, N, V, s, k, c)
      <4>1. h[i] \in Node
        BY HopFacts
      <4>2. InSend(V, id, h[i], k)
        BY <2>1, <2>3, <3>4, <4>1 DEF ReadMove
      <4> QED BY <3>4, <4>2 DEF Stands
    <3> QED BY <2>1, <3>1, <3>2, <3>3, <3>4 DEF Stands
  <2> QED BY <2>1, <2>4, LinePut DEF S
<1>6. Sorted(S)
  BY DEF S
<1>7. CASE \E a \in 0 .. N - 1 : h[a] = m /\ h[a + 1] = n
  <2>1. Sorted(T)
    BY <1>2, <1>4, <1>6, <1>7, SortedPassed
  <2> QED BY <2>1 DEF T
<1>8. CASE ~ \E a \in 0 .. N - 1 : h[a] = m /\ h[a + 1] = n
  <2>1. Sorted(T)
    BY <1>5, <1>6, <1>8, SortedLess
  <2> QED BY <2>1 DEF T
<1> QED BY <1>7, <1>8

LEMMA LineTab ==
  ASSUME NEW V, NEW W, NEW n \in Node, TabMove(V, W, n),
         NEW N \in Places1, NEW h \in [0 .. N -> Node], Way(h, N), h[0] # h[N],
         Sorted(Line(h, N, V))
  PROVE  Sorted(Line(h, N, W))
<1> DEFINE S == Line(h, N, V)
           T == Line(h, N, W)
           Id(c) == <<h[0], h[N], c>>
<1>1. ASSUME NEW t \in T
      PROVE  /\ t[1] \in Nat /\ t[2] \in Places1 /\ t[3] \in Nat /\ t = <<t[1], t[2], t[3]>>
             /\ Stands(h, N, W, t[1], t[2], t[3])
             /\ Id(t[3]) \in Local /\ Id(t[3]) \in Ids /\ Id(t[3])[1] = h[0] /\ Id(t[3])[2] = h[N]
  <2>1. /\ t[1] \in Nat /\ t[2] \in Places1 /\ t[3] \in Nat /\ t = <<t[1], t[2], t[3]>>
        /\ Stands(h, N, W, t[1], t[2], t[3])
    BY LineGet
  <2> QED BY <2>1, LineIds
<1>2. S \in SUBSET Spots /\ T \in SUBSET Spots
  BY DEF Line
<1>3. h[0] \in Node /\ 1 \in Places1
  BY DEF Places1
<1>4. PICK len \in Nat : \A id \in Local, k \in Places1 :
        id[1] = h[0] /\ InTab(W, id, k) => \/ InTab(V, id, k) /\ (id[2] = n => k <= len)
                                           \/ id[2] = n /\ k = len + 1 /\ InUi(V, id, 1)
  BY <1>3 DEF TabMove
<1> HIDE DEF S, T
\* What happens in the pipes and queues of the way.
<1>5. ASSUME NEW s \in Nat, NEW k \in Places1, NEW c \in Nat, Id(c) \in Ids, Stands(h, N, W, s, k, c), s # 0, s # 1
      PROVE  <<s, k, c>> \in S /\ s > 1
  <2> DEFINE id == Id(c)
  <2>1. ASSUME NEW i \in 0 .. N - 1, s = 2 * (N - i), InPipe(W, id, <<h[i], h[i + 1]>>, k)
        PROVE  <<s, k, c>> \in S
    <3>1. <<h[i], h[i + 1]>> \in Link
      BY HopFacts
    <3>2. InPipe(V, id, <<h[i], h[i + 1]>>, k)
      BY <1>5, <2>1, <3>1 DEF TabMove, PipesStay
    <3> QED BY <2>1, <3>2, LinePut DEF Stands, S
  <2>2. ASSUME NEW i \in 0 .. N - 1, s = 2 * (N - i) + 1, InSend(W, id, h[i], k)
        PROVE  <<s, k, c>> \in S
    <3>1. h[i] \in Node
      BY HopFacts
    <3>2. InSend(V, id, h[i], k)
      BY <1>5, <2>2, <3>1 DEF TabMove, SendsStay
    <3> QED BY <2>2, <3>2, LinePut DEF Stands, S
  <2>3. <<s, k, c>> \in S
    BY <1>5, <2>1, <2>2, StandsWhere
  <2>4. s > 1
    BY <1>5
  <2> QED BY <2>3, <2>4
<1>6. CASE h[N] = n
  <2>1. ASSUME NEW t \in T
        PROVE  \/ t \in S /\ t[1] # 0 + 1 /\ (t[1] = 0 => t[2] <= len)
               \/ t[1] = 0 /\ t[2] = len + 1 /\ <<0 + 1, 1, t[3]>> \in S
               \/ t[1] = 0 + 1 /\ <<0 + 1, t[2] + 1, t[3]>> \in S
    <3> DEFINE s == t[1]
               k == t[2]
               c == t[3]
               id == Id(c)
    <3>1. s \in Nat /\ k \in Places1 /\ c \in Nat /\ t = <<s, k, c>> /\ Stands(h, N, W, s, k, c) /\ id \in Local /\ id \in Ids /\ id[1] = h[0] /\ id[2] = n
      BY <1>1, <1>6
    <3> HIDE DEF s, k, c
    <3>2. CASE s = 0
      <4>1. InTab(W, id, k)
        BY <3>1, <3>2, StandsWhere
      <4>2. CASE InTab(V, id, k) /\ k <= len
        <5>1. <<s, k, c>> \in S
          BY <3>1, <3>2, <4>2, LinePut DEF Stands, S
        <5> QED BY <3>1, <3>2, <4>2, <5>1
      <4>3. CASE k = len + 1 /\ InUi(V, id, 1)
        <5>1. <<1, 1, c>> \in S
          BY <1>3, <3>1, <4>3, LinePut DEF Stands, S
        <5> QED BY <3>1, <3>2, <4>3, <5>1
      <4> QED BY <1>4, <3>1, <4>1, <4>2, <4>3
    <3>3. CASE s = 1
      <4>1. InUi(W, id, k)
        BY <3>1, <3>3, StandsWhere
      <4>2. InUi(V, id, k + 1) /\ k + 1 \in Places1
        BY <3>1, <4>1 DEF TabMove, Places1
      <4>3. <<1, k + 1, c>> \in S
        BY <3>1, <4>2, LinePut DEF Stands, S
      <4> QED BY <3>1, <3>3, <4>3
    <3>4. CASE s # 0 /\ s # 1
      BY <1>5, <3>1, <3>4
    <3> QED BY <3>2, <3>3, <3>4
  <2>2. Passed(S, T, 0, len, 1)
    BY <2>1 DEF Passed
  <2>3. Sorted(S)
    BY DEF S
  <2>4. Sorted(T)
    BY <1>2, <2>2, <2>3, SortedPassed
  <2> QED BY <2>4 DEF T
<1>7. CASE h[N] # n
  <2>1. ASSUME NEW t \in T PROVE t \in S
    <3> DEFINE s == t[1]
               k == t[2]
               c == t[3]
               id == Id(c)
    <3>1. s \in Nat /\ k \in Places1 /\ c \in Nat /\ t = <<s, k, c>> /\ Stands(h, N, W, s, k, c) /\ id \in Local /\ id \in Ids /\ id[1] = h[0] /\ id[2] # n
      BY <1>1, <1>7
    <3> HIDE DEF s, k, c
    <3>2. CASE s = 0
      <4>1. InTab(W, id, k)
        BY <3>1, <3>2, StandsWhere
      <4>2. InTab(V, id, k)
        BY <1>4, <3>1, <4>1
      <4> QED BY <3>1, <3>2, <4>2, LinePut DEF Stands, S
    <3>3. CASE s = 1
      <4>1. InUi(W, id, k)
        BY <3>1, <3>3, StandsWhere
      <4>2. InUi(V, id, k)
        BY <3>1, <4>1 DEF TabMove
      <4> QED BY <3>1, <3>3, <4>2, LinePut DEF Stands, S
    <3>4. CASE s # 0 /\ s # 1
      BY <1>5, <3>1, <3>4
    <3> QED BY <3>2, <3>3, <3>4
  <2>2. Sorted(S)
    BY DEF S
  <2>3. Sorted(T)
    BY <2>1, <2>2, SortedLess
  <2> QED BY <2>3 DEF T
<1> QED BY <1>6, <1>7

LEMMA LineType ==
  ASSUME NEW V, NEW W, NEW new, NEW k0, TypeMove(V, W, new, k0),
         NEW N \in Places1, NEW h \in [0 .. N -> Node], Way(h, N), h[0] # h[N],
         Sorted(Line(h, N, V))
  PROVE  Sorted(Line(h, N, W))
<1> DEFINE S == Line(h, N, V)
           T == Line(h, N, W)
           Id(c) == <<h[0], h[N], c>>
           last == <<2 * N + 1, k0, new[3]>>
<1>1. ASSUME NEW t \in S \cup T
      PROVE  /\ t[1] \in Nat /\ t[2] \in Places1 /\ t[3] \in Nat /\ t = <<t[1], t[2], t[3]>>
             /\ t \in T => Stands(h, N, W, t[1], t[2], t[3])
             /\ t \in S => Stands(h, N, V, t[1], t[2], t[3])
             /\ Id(t[3]) \in Local /\ Id(t[3]) \in Ids
             /\ Id(t[3])[1] = h[0] /\ Id(t[3])[2] = h[N] /\ Id(t[3])[3] = t[3]
  <2>1. /\ t[1] \in Nat /\ t[2] \in Places1 /\ t[3] \in Nat /\ t = <<t[1], t[2], t[3]>>
        /\ t \in T => Stands(h, N, W, t[1], t[2], t[3])
        /\ t \in S => Stands(h, N, V, t[1], t[2], t[3])
    BY LineGet
  <2> QED BY <2>1, LineIds
<1>2. S \in SUBSET Spots /\ T \in SUBSET Spots
  BY DEF Line
<1>3. k0 \in Places1 /\ new \in Ids /\ new[3] \in Nat /\ new[1] \in Node
  BY IdFacts DEF TypeMove
<1>4. last \in Spots /\ last[1] = 2 * N + 1 /\ last[2] = k0 /\ last[3] = new[3]
  <2>1. 2 * N + 1 \in Nat
    BY DEF Places1
  <2> QED BY <1>3, <2>1 DEF Spots
<1> HIDE DEF S, T, last
<1>5. ASSUME NEW t \in T PROVE t \in S \/ (t = last /\ new[1] = h[0] /\ new[2] = h[N])
  <2> DEFINE s == t[1]
             k == t[2]
             c == t[3]
             id == Id(c)
  <2>1. /\ s \in Nat /\ k \in Places1 /\ c \in Nat /\ t = <<s, k, c>> /\ Stands(h, N, W, s, k, c)
        /\ id \in Local /\ id \in Ids /\ id[1] = h[0] /\ id[2] = h[N] /\ id[3] = c
    BY <1>1
  <2> HIDE DEF s, k, c
  <2>2. CASE s = 0 /\ InTab(W, id, k)
    <3>1. InTab(V, id, k)
      BY <2>1, <2>2 DEF TypeMove, TabsStay
    <3> QED BY <2>1, <2>2, <3>1, LinePut DEF Stands, S
  <2>3. CASE s = 1 /\ InUi(W, id, k)
    <3>1. InUi(V, id, k)
      BY <2>1, <2>3 DEF TypeMove, UisStay
    <3> QED BY <2>1, <2>3, <3>1, LinePut DEF Stands, S
  <2>4. ASSUME NEW i \in 0 .. N - 1, s = 2 * (N - i), InPipe(W, id, <<h[i], h[i + 1]>>, k)
        PROVE  t \in S
    <3>1. <<h[i], h[i + 1]>> \in Link
      BY HopFacts
    <3>2. InPipe(V, id, <<h[i], h[i + 1]>>, k)
      BY <2>1, <2>4, <3>1 DEF TypeMove, PipesStay
    <3> QED BY <2>1, <2>4, <3>2, LinePut DEF Stands, S
  <2>5. ASSUME NEW i \in 0 .. N - 1, s = 2 * (N - i) + 1, InSend(W, id, h[i], k)
        PROVE  t \in S \/ (t = last /\ new[1] = h[0] /\ new[2] = h[N])
    <3>1. h[i] \in Node /\ i \in 0 .. N /\ 0 \in 0 .. N
      BY HopFacts DEF Places1
    <3>2. CASE InSend(V, id, h[i], k)
      BY <2>1, <2>5, <3>2, LinePut DEF Stands, S
    <3>3. CASE id = new /\ h[i] = new[1] /\ k = k0
      <4>1. h[i] = h[0] /\ new[1] = h[0] /\ new[2] = h[N] /\ new[3] = c
        BY <2>1, <3>3
      <4>2. i = 0
        BY <3>1, <4>1, HopsDiffer DEF Places1
      <4>3. s = 2 * N + 1
        BY <2>5, <4>2 DEF Places1
      <4> QED BY <2>1, <3>3, <4>1, <4>3 DEF last
    <3> QED BY <2>1, <2>5, <3>1, <3>2, <3>3 DEF TypeMove
  <2> QED BY <2>1, <2>2, <2>3, <2>4, <2>5 DEF Stands
<1>6. ASSUME NEW t \in S, new[1] = h[0], new[2] = h[N] PROVE Before(t, last) /\ t[3] < last[3]
  <2> DEFINE s == t[1]
             k == t[2]
             c == t[3]
             id == Id(c)
  <2>1. /\ s \in Nat /\ k \in Places1 /\ c \in Nat /\ t = <<s, k, c>> /\ Stands(h, N, V, s, k, c)
        /\ id \in Local /\ id \in Ids /\ id[1] = h[0] /\ id[2] = h[N] /\ id[3] = c
    BY <1>1
  <2>2. s = t[1] /\ k = t[2] /\ c = t[3]
    OBVIOUS
  <2> HIDE DEF s, k, c
  <2>3. Occurs(V, id)
    <3>1. id[2] \in Node
      BY <2>1 DEF Local
    <3>2. \A i \in 0 .. N - 1 : <<h[i], h[i + 1]>> \in Link /\ h[i] \in Node
      BY HopFacts
    <3> QED BY <2>1, <3>1, <3>2 DEF Stands, Occurs
  <2>4. c < new[3]
    BY <1>6, <2>1, <2>3 DEF TypeMove
  <2>5. s < 2 * N + 1 \/ (s = 2 * N + 1 /\ k < k0)
    <3>1. CASE s = 0 \/ s = 1
      BY <3>1 DEF Places1
    <3>2. ASSUME NEW i \in 0 .. N - 1, s = 2 * (N - i) PROVE s < 2 * N + 1
      BY <3>2 DEF Places1
    <3>3. ASSUME NEW i \in 0 .. N - 1, s = 2 * (N - i) + 1, InSend(V, id, h[i], k)
          PROVE  s < 2 * N + 1 \/ (s = 2 * N + 1 /\ k < k0)
      <4>1. CASE i = 0
        <5>1. s = 2 * N + 1
          BY <3>3, <4>1 DEF Places1
        <5>2. k < k0
          BY <1>6, <2>1, <3>3, <4>1 DEF TypeMove
        <5> QED BY <5>1, <5>2
      <4>2. CASE i # 0
        BY <3>3, <4>2 DEF Places1
      <4> QED BY <4>1, <4>2
    <3> QED BY <2>1, <3>1, <3>2, <3>3 DEF Stands
  <2> QED BY <1>4, <2>2, <2>4, <2>5 DEF Before
<1>7. Sorted(S)
  BY DEF S
<1>8. CASE new[1] = h[0] /\ new[2] = h[N]
  <2>1. Grown(S, T, last)
    BY <1>5, <1>6, <1>8 DEF Grown
  <2>2. Sorted(T)
    BY <1>2, <1>4, <1>7, <2>1, SortedGrown
  <2> QED BY <2>2 DEF T
<1>9. CASE ~(new[1] = h[0] /\ new[2] = h[N])
  <2>1. T \subseteq S
    BY <1>5, <1>9
  <2>2. Sorted(T)
    BY <1>7, <2>1, SortedLess
  <2> QED BY <2>2 DEF T
<1> QED BY <1>8, <1>9

-----------------------------------------------------------------------------
(***************************************************************************)
(* Every step of Chat is one of these moves of the world.                  *)
(***************************************************************************)
Moves(V, W) ==
  \/ AllStay(V, W)
  \/ \E m \in Node : \E to, len : SendMove(V, W, m, to, len)
  \/ \E m \in Node : \E n \in Node \ {m} : \E j, ulen, slen : ReadMove(V, W, m, n, j, ulen, slen)
  \/ \E n \in Node : TabMove(V, W, n)
  \/ \E new, k0 : TypeMove(V, W, new, k0)

LEMMA MovesOK ==
  ASSUME NEW V, NEW W, WaysOK(V), LinesOK(V), Moves(V, W)
  PROVE  WaysOK(W) /\ LinesOK(W)
<1>1. WaysOK(W)
  BY WaysStay, WaysSend, WaysRead, WaysTab, WaysType DEF Moves
<1>2. ASSUME NEW N \in Places1, NEW h \in [0 .. N -> Node], Way(h, N), h[0] # h[N]
      PROVE  Sorted(Line(h, N, W))
  <2>1. Sorted(Line(h, N, V))
    BY <1>2 DEF LinesOK
  <2>2. CASE AllStay(V, W)
    <3>1. Line(h, N, W) \subseteq Line(h, N, V)
      BY <1>2, <2>2, LineStay
    <3> QED BY <2>1, <3>1, SortedLess
  <2>3. ASSUME NEW m \in Node, NEW to, NEW len, SendMove(V, W, m, to, len)
        PROVE  Sorted(Line(h, N, W))
    BY <1>2, <2>1, <2>3, LineSend
  <2>4. ASSUME NEW m \in Node, NEW n \in Node \ {m}, NEW j, NEW ulen, NEW slen,
               ReadMove(V, W, m, n, j, ulen, slen)
        PROVE  Sorted(Line(h, N, W))
    BY <1>2, <2>1, <2>4, LineRead
  <2>5. ASSUME NEW n \in Node, TabMove(V, W, n) PROVE Sorted(Line(h, N, W))
    BY <1>2, <2>1, <2>5, LineTab
  <2>6. ASSUME NEW new, NEW k0, TypeMove(V, W, new, k0) PROVE Sorted(Line(h, N, W))
    BY <1>2, <2>1, <2>6, LineType
  <2> QED BY <2>2, <2>3, <2>4, <2>5, <2>6 DEF Moves
<1> QED BY <1>1, <1>2 DEF LinesOK

LEMMA WorldNow ==
  /\ World.tabs = tabs /\ World.uiq = uiq /\ World.sendq = sendq
  /\ \A l \in Link : World.pipe[l] = Pipe(l)
  /\ World'.tabs = tabs' /\ World'.uiq = uiq' /\ World'.sendq = sendq'
  /\ \A l \in Link : World'.pipe[l] = Pipe(l)'
BY DEF World

LEMMA StayFacts ==
  /\ tabs' = tabs => TabsStay(World, World')
  /\ uiq' = uiq => UisStay(World, World')
  /\ (\A l \in Link : Pipe(l)' = Pipe(l)) => PipesStay(World, World')
  /\ sendq' = sendq => SendsStay(World, World')
<1>1. tabs' = tabs => TabsStay(World, World')
  BY WorldNow DEF TabsStay, InTab
<1>2. uiq' = uiq => UisStay(World, World')
  BY WorldNow DEF UisStay, InUi
<1>3. (\A l \in Link : Pipe(l)' = Pipe(l)) => PipesStay(World, World')
  BY WorldNow DEF PipesStay, InPipe
<1>4. sendq' = sendq => SendsStay(World, World')
  BY WorldNow DEF SendsStay, InSend
<1> QED BY <1>1, <1>2, <1>3, <1>4

\* What stands somewhere has been typed.
LEMMA IdNotNone == \A id \in Ids : id # <<>> /\ id = <<id[1], id[2], id[3]>>
<1> SUFFICES ASSUME NEW id \in Ids PROVE id # <<>> /\ id = <<id[1], id[2], id[3]>>
  OBVIOUS
<1>1. id \in Node \X Names \X Nat
  BY DEF Ids
<1>2. id = <<id[1], id[2], id[3]>>
  BY <1>1
<1>3. id # <<>>
  BY <1>2
<1> QED BY <1>2, <1>3

LEMMA InTabFacts ==
  ASSUME TypeInv, NEW id \in Local, NEW k, InTab(World, id, k)
  PROVE  Known(id, typed)
<1>1. PICK i \in DOMAIN tabs[id[2]] :
        tabs[id[2]][i].user = id[1] /\ k \in DOMAIN tabs[id[2]][i].msgs /\ tabs[id[2]][i].msgs[k].id = id
  BY WorldNow DEF InTab
<1>2. id \in Ids /\ id[2] \in Node /\ id[1] # id[2] /\ id # <<>>
  BY IdFacts, IdNotNone DEF Local
<1>3. TabOK(tabs[id[2]][i], id[2], typed)
  BY <1>1, <1>2 DEF TypeInv, ScreenTypes, TabsOK
<1> QED BY <1>1, <1>2, <1>3, NoticeFacts DEF TabOK, TextOK

LEMMA OccursKnown ==
  ASSUME TypeInv, NEW id \in Ids, Occurs(World, id)
  PROVE  Known(id, typed)
<1>1. id # <<>> /\ Unit("type", id).kind = "type" /\ Unit("type", id).id = id
  BY IdNotNone, UnitFacts
<1>2. PICK k \in Places1 : \/ id[2] \in Node /\ (InTab(World, id, k) \/ InUi(World, id, k))
                           \/ \E l \in Link : InPipe(World, id, l, k)
                           \/ \E a \in Node : InSend(World, id, a, k)
  BY DEF Occurs
<1>3. CASE id[2] \in Node /\ InTab(World, id, k)
  BY <1>3, InTabFacts DEF Local
<1>4. CASE id[2] \in Node /\ InUi(World, id, k)
  <2>1. k \in DOMAIN uiq[id[2]] /\ uiq[id[2]][k].text.id = id
    BY <1>4, WorldNow DEF InUi
  <2>2. NewsOK(uiq[id[2]], id[2], typed)
    BY <1>4 DEF TypeInv, ScreenTypes
  <2> QED BY <1>1, <2>1, <2>2, NoticeFacts DEF NewsOK, TextOK
<1>5. ASSUME NEW l \in Link, InPipe(World, id, l, k) PROVE Known(id, typed)
  <2>1. k \in DOMAIN Pipe(l) /\ Pipe(l)[k] = Unit("type", id)
    BY <1>5, WorldNow DEF InPipe
  <2>2. StretchOK(Pipe(l), typed)
    BY PipeFacts DEF StreamOK
  <2> HIDE DEF Pipe
  <2> QED BY <1>1, <2>1, <2>2 DEF StretchOK, HeadOK
<1>6. ASSUME NEW a \in Node, InSend(World, id, a, k) PROVE Known(id, typed)
  <2>1. k \in DOMAIN sendq[a] /\ sendq[a][k].msg[1] = Unit("type", id)
    BY <1>6, WorldNow DEF InSend
  <2> DEFINE msg == sendq[a][k].msg
  <2>2. MsgOK(msg, typed)
    BY <2>1 DEF TypeInv, WireTypes
  <2>3. msg[1] = Unit("type", id)
    BY <2>1
  <2> HIDE DEF msg
  <2>4. 1 \in DOMAIN msg
    BY <2>2 DEF MsgOK, StretchOK
  <2> QED BY <1>1, <2>2, <2>3, <2>4 DEF MsgOK, StretchOK, HeadOK
<1> QED BY <1>2, <1>3, <1>4, <1>5, <1>6

\* What Push and Send append, place by place.
Pushed(q, x, r) ==
  \A k \in DOMAIN r : (k \in DOMAIN q /\ r[k] = q[k]) \/ (k = Len(q) + 1 /\ r[k] = x)

LEMMA PushPlaces ==
  ASSUME NEW S, NEW q \in Seq(S), NEW x \in S, Len(q) <= MaxQueue
  PROVE  Pushed(q, x, Push(q, x))
<1> DEFINE r == Push(q, x)
<1>1. \A k \in DOMAIN r : (k \in DOMAIN q /\ r[k] = q[k]) \/ (k = Len(q) + 1 /\ r[k] = x)
  BY PushFacts
<1> HIDE DEF r
<1>2. Pushed(q, x, r)
  BY <1>1 DEF Pushed
<1> QED BY <1>2 DEF r

Sent(s, m, r) ==
  \A k \in DOMAIN r : IF k <= Len(s) THEN r[k] = s[k]
                     ELSE r[k].kind = "type" => k = Len(s) + 1 /\ r[k] = m[1]

LEMMA SentPlaces ==
  ASSUME NEW T, NEW s, StreamOK(s, T), NEW m, MsgOK(m, T)
  PROVE  Sent(s, m, s \o Append(m, Eot))
BY SentOK DEF Sent

LEMMA SendStep == ASSUME TypeInv, NEW n \in Node, Send(n) PROVE Moves(World, World')
<1> DEFINE q == Head(sendq[n])
           to == q.to
           msg == q.msg
           mine == sendq[n]
           len == [l \in Link |-> Len(Pipe(l))]
<1>1. /\ q \in Packets /\ MsgOK(msg, typed) /\ mine # <<>> /\ sendq' = [sendq EXCEPT ![n] = Tail(mine)]
      /\ \A l \in Link : Pipe(l)' = IF l = <<n, to>> THEN Pipe(l) \o Append(msg, Eot) ELSE Pipe(l)
  BY SendEffect DEF SendMoves
<1>2. tabs' = tabs /\ uiq' = uiq
  BY DEF Send, screens
<1>3. sendq \in [Node -> Seq(Packets)] /\ mine \in Seq(Packets)
  BY DEF TypeInv, WireTypes
<1>4. 1 \in DOMAIN mine /\ q = mine[1] /\ \A k \in DOMAIN Tail(mine) : k + 1 \in DOMAIN mine /\ Tail(mine)[k] = mine[k + 1]
  BY <1>1, <1>3
<1>5. q.msg = msg /\ q.to = to
  OBVIOUS
<1>6. \A l \in Link : StreamOK(Pipe(l), typed) /\ Pipe(l) \in Seq(Units)
  BY PipeFacts
<1>7. len \in [Link -> Nat] /\ \A l \in Link : len[l] = Len(Pipe(l))
  BY <1>6
<1> HIDE DEF msg, to, q, len
<1>8. ASSUME NEW id \in Ids, NEW k \in Places1, NEW a \in Node, InSend(World', id, a, k)
      PROVE  IF a = n THEN InSend(World, id, a, k + 1) /\ World'.sendq[a][k].to = World.sendq[a][k + 1].to
             ELSE InSend(World, id, a, k) /\ World'.sendq[a][k].to = World.sendq[a][k].to
  <2>1. k \in DOMAIN sendq'[a] /\ sendq'[a][k].msg[1] = Unit("type", id)
    BY <1>8, WorldNow DEF InSend
  <2>2. CASE a = n
    <3>1. sendq'[a] = Tail(mine)
      BY <1>1, <1>3, <2>2
    <3>2. k + 1 \in DOMAIN mine /\ sendq'[a][k] = sendq[a][k + 1]
      BY <1>4, <2>1, <2>2, <3>1
    <3> QED BY <2>1, <2>2, <3>2, WorldNow DEF InSend
  <2>3. CASE a # n
    <3>1. sendq'[a] = sendq[a]
      BY <1>1, <1>3, <2>3
    <3> QED BY <2>1, <2>3, <3>1, WorldNow DEF InSend
  <2> QED BY <2>2, <2>3
<1>9. ASSUME NEW id \in Ids, NEW k \in Places1, NEW l \in Link, InPipe(World', id, l, k)
      PROVE  \/ InPipe(World, id, l, k) /\ k <= len[l]
             \/ l = <<n, to>> /\ k = len[l] + 1 /\ InSend(World, id, n, 1) /\ World.sendq[n][1].to = to
  <2> DEFINE p == Pipe(l)
             r == Pipe(l)'
  <2>1. k \in DOMAIN r /\ r[k] = Unit("type", id) /\ r[k].kind = "type"
    BY <1>9, WorldNow, UnitFacts DEF InPipe
  <2>2. p \in Seq(Units) /\ len[l] = Len(p) /\ k \in Nat /\ k > 0 /\ StreamOK(p, typed)
    BY <1>6, <1>7 DEF Places1
  <2>3. p = World.pipe[l] /\ r = IF l = <<n, to>> THEN p \o Append(msg, Eot) ELSE p
    BY <1>1, WorldNow
  <2> HIDE DEF p, r
  <2>4. k \in DOMAIN p => k <= len[l]
    BY <2>2
  <2>5. CASE l = <<n, to>>
    <3>1. IF k <= Len(p) THEN r[k] = p[k] ELSE k = Len(p) + 1 /\ r[k] = msg[1]
      <4> DEFINE e == p \o Append(msg, Eot)
      <4>1. Sent(p, msg, e)
        BY <1>1, <2>2, SentPlaces
      <4>2. r = e
        BY <2>3, <2>5
      <4> HIDE DEF e
      <4> QED BY <2>1, <4>1, <4>2 DEF Sent
    <3>2. CASE k <= Len(p)
      <4>1. k \in DOMAIN p /\ p[k] = Unit("type", id)
        BY <2>1, <2>2, <3>1, <3>2
      <4> QED BY <2>3, <2>4, <4>1 DEF InPipe
    <3>3. CASE ~(k <= Len(p))
      <4>1. k = len[l] + 1 /\ msg[1] = Unit("type", id)
        BY <2>1, <2>2, <3>1, <3>3
      <4>2. InSend(World, id, n, 1) /\ World.sendq[n][1].to = to
        BY <1>4, <1>5, <4>1, WorldNow DEF InSend
      <4> QED BY <2>5, <4>1, <4>2
    <3> QED BY <3>2, <3>3
  <2>6. CASE l # <<n, to>>
    BY <2>1, <2>3, <2>4, <2>6 DEF InPipe
  <2> QED BY <2>5, <2>6
<1>10. SendMove(World, World', n, to, len)
  BY <1>2, <1>7, <1>8, <1>9, StayFacts DEF SendMove
<1> QED BY <1>10 DEF Moves

LEMMA ReadStep == ASSUME TypeInv, NEW n \in Node, NEW m \in Node \ {n}, Read(n, m) PROVE Moves(World, World')
<1>1. /\ UNCHANGED <<typed, tabs, active>>
      /\ ReadWaits \/ \E j \in Nat : ReadTakes(n, m, j)
  BY ReadEffect
<1>2. CASE ReadWaits
  BY <1>1, <1>2, StayFacts DEF ReadWaits, Moves, AllStay
<1>3. ASSUME NEW j \in Nat, ReadTakes(n, m, j) PROVE Moves(World, World')
  <2> DEFINE l0 == <<m, n>>
             p == Pipe(l0)
             piece == SubSeq(p, 1, j)
             ulen == Len(uiq[n])
             slen == Len(sendq[n])
  <2>1. l0 \in Link /\ l0[1] = m /\ l0[2] = n
    BY DEF Link
  <2>2. /\ j \in 1 .. Len(p) /\ Pipe(l0)' = SubSeq(p, j + 1, Len(p))
        /\ \A l \in Link : l # l0 => Pipe(l)' = Pipe(l)
        /\ Handle(n, piece)
    BY <1>3 DEF ReadTakes
  <2>3. StreamOK(p, typed) /\ p \in Seq(Units) /\ p = World.pipe[l0] /\ Len(p) \in Nat
    <3>1. p \in Seq(Units)
      BY <2>1, PipeFacts
    <3> QED BY <2>1, <3>1, PipeFacts, WorldNow
  <2>4. World'.pipe[l0] = Pipe(l0)' /\ \A l \in Link : l # l0 => World'.pipe[l] = World.pipe[l]
    BY <2>1, <2>2, WorldNow
  <2> HIDE DEF p, l0
  <2>5. /\ StretchOK(piece, typed) /\ piece[1] = p[1] /\ 1 \in DOMAIN p /\ j > 0
        /\ DOMAIN SubSeq(p, j + 1, Len(p)) = 1 .. Len(p) - j
        /\ \A k \in 1 .. Len(p) - j : k + j \in DOMAIN p /\ SubSeq(p, j + 1, Len(p))[k] = p[k + j]
    <3> DEFINE rest == SubSeq(p, j + 1, Len(p))
    <3>1. /\ StretchOK(piece, typed) /\ StreamOK(rest, typed) /\ Len(rest) = Len(p) - j
          /\ \A k \in 1 .. j : piece[k] = p[k]
          /\ \A k \in 1 .. Len(p) - j : rest[k] = p[k + j]
      BY <2>2, <2>3, CutOK
    <3> HIDE DEF rest, piece
    <3>2. rest \in Seq(Units) /\ DOMAIN rest = 1 .. Len(p) - j
      BY <3>1 DEF StreamOK, StretchOK
    <3>3. 1 \in 1 .. j /\ 1 \in DOMAIN p /\ j > 0 /\ \A k \in 1 .. Len(p) - j : k + j \in DOMAIN p
      BY <2>2, <2>3
    <3> QED BY <3>1, <3>2, <3>3 DEF rest
  <2>6. /\ \/ \E u \in News : ChatArrives(n, piece, u)
           \/ \E q \in Packets : ChatGoesOn(n, piece, q)
           \/ \E u \in News : u = [name |-> System, text |-> Notice] /\ GetsNews(n, u)
           \/ \E q \in Packets : q = [to |-> NoName, msg |-> <<Pad>>] /\ GetsPost(n, q)
    BY <2>2, <2>5, HandleEffect, Zenon
  <2> HIDE DEF piece
  <2>7. /\ uiq \in [Node -> Seq(News)] /\ Len(uiq[n]) <= MaxQueue /\ uiq[n] \in Seq(News) /\ ulen \in Nat
        /\ sendq \in [Node -> Seq(Packets)] /\ Len(sendq[n]) <= MaxQueue /\ sendq[n] \in Seq(Packets) /\ slen \in Nat
    <3>1. /\ uiq \in [Node -> Seq(News)] /\ Len(uiq[n]) <= MaxQueue
          /\ sendq \in [Node -> Seq(Packets)] /\ Len(sendq[n]) <= MaxQueue
      BY DEF TypeInv, ScreenTypes, WireTypes, NewsOK
    <3>2. uiq[n] \in Seq(News) /\ sendq[n] \in Seq(Packets)
      BY <3>1
    <3> QED BY <3>1, <3>2
  \* The pipe.
  <2>8. ASSUME NEW id \in Ids, NEW k \in Places1, NEW l \in Link, InPipe(World', id, l, k)
        PROVE  IF l = l0 THEN InPipe(World, id, l, k + j) ELSE InPipe(World, id, l, k)
    <3>1. CASE l = l0
      <4>1. k \in 1 .. Len(p) - j /\ SubSeq(p, j + 1, Len(p))[k] = Unit("type", id)
        BY <2>2, <2>4, <2>5, <2>8, <3>1 DEF InPipe
      <4>2. k + j \in DOMAIN p /\ p[k + j] = Unit("type", id)
        BY <2>5, <4>1
      <4> QED BY <2>3, <3>1, <4>2 DEF InPipe
    <3>2. CASE l # l0
      BY <2>4, <2>8, <3>2 DEF InPipe
    <3> QED BY <3>1, <3>2
  \* The head of the piece.
  <2>9. ASSUME NEW id \in Ids, piece[1] = Unit("type", id) PROVE InPipe(World, id, l0, 1)
    BY <2>1, <2>3, <2>5, <2>9 DEF InPipe
  <2>10. \A id \in Ids : id # <<>> /\ Unit("type", id).id = id
    BY IdNotNone, UnitFacts
  <2> HIDE DEF ulen, slen
  \* The queue of the user interface.
  <2>11. ASSUME NEW id \in Local, NEW k \in Places1, InUi(World', id, k)
         PROVE  \/ InUi(World, id, k) /\ (id[2] = n => k <= ulen)
                \/ id[2] = n /\ k = ulen + 1 /\ InPipe(World, id, l0, 1)
    <3>1. id \in Ids /\ id[2] \in Node /\ k \in DOMAIN uiq'[id[2]] /\ uiq'[id[2]][k].text.id = id
      BY <2>11, WorldNow DEF Local, InUi
    <3>2. CASE id[2] # n \/ uiq' = uiq
      <4>1. uiq'[id[2]] = uiq[id[2]]
        <5>1. \E u : uiq' = uiq \/ uiq' = [uiq EXCEPT ![n] = Push(uiq[n], u)]
          BY <2>6 DEF ChatArrives, ChatGoesOn, GetsNews, GetsPost
        <5> QED BY <2>7, <3>1, <3>2, <5>1
      <4>2. id[2] = n => k <= ulen
        <5>1. id[2] = n => k \in DOMAIN uiq[n]
          BY <3>1, <4>1
        <5> QED BY <2>7, <5>1 DEF ulen
      <4> QED BY <3>1, <4>1, <4>2, WorldNow DEF InUi
    <3>3. ASSUME NEW u \in News, GetsNews(n, u), id[2] = n, u.text = Notice \/ (u.text.id = piece[1].id /\ piece[1] = Unit("type", piece[1].id) /\ piece[1].id \in Ids)
          PROVE  \/ InUi(World, id, k) /\ k <= ulen
                 \/ k = ulen + 1 /\ InPipe(World, id, l0, 1)
      <4>1. uiq'[n] = Push(uiq[n], u)
        BY <2>7, <3>3 DEF GetsNews
      <4>2. \/ k \in DOMAIN uiq[n] /\ uiq'[n][k] = uiq[n][k]
            \/ k = Len(uiq[n]) + 1 /\ uiq'[n][k] = u
        <5> DEFINE r == Push(uiq[n], u)
        <5>1. Pushed(uiq[n], u, r)
          BY <2>7, PushPlaces
        <5>2. uiq'[n] = r /\ k \in DOMAIN r
          BY <3>1, <3>3, <4>1
        <5> HIDE DEF r
        <5> QED BY <5>1, <5>2 DEF Pushed
      <4>3. CASE k \in DOMAIN uiq[n] /\ uiq'[n][k] = uiq[n][k]
        <5>1. k <= ulen
          BY <2>7, <4>3 DEF ulen
        <5> QED BY <3>1, <3>3, <4>3, <5>1, WorldNow DEF InUi
      <4>4. CASE k = Len(uiq[n]) + 1 /\ uiq'[n][k] = u
        <5>1. u.text.id = id /\ id # <<>>
          BY <2>10, <3>1, <3>3, <4>4
        <5>2. piece[1] = Unit("type", id)
          BY <3>3, <5>1, NoticeFacts
        <5> QED BY <2>9, <3>1, <4>4, <5>2 DEF ulen
      <4> QED BY <4>2, <4>3, <4>4
    <3>4. ASSUME NEW u \in News, ChatArrives(n, piece, u), id[2] = n
          PROVE  \/ InUi(World, id, k) /\ k <= ulen
                 \/ k = ulen + 1 /\ InPipe(World, id, l0, 1)
      <4>1. piece[1] = Unit("type", piece[1].id) /\ piece[1].id \in Ids
        BY <2>5, <3>4, HeadedFacts DEF ChatArrives
      <4>2. u.text.id = piece[1].id /\ GetsNews(n, u)
        BY <3>4 DEF ChatArrives, Text
      <4> QED BY <3>3, <3>4, <4>1, <4>2
    <3>5. ASSUME NEW u \in News, u = [name |-> System, text |-> Notice], GetsNews(n, u), id[2] = n
          PROVE  \/ InUi(World, id, k) /\ k <= ulen
                 \/ k = ulen + 1 /\ InPipe(World, id, l0, 1)
      <4>1. u.text = Notice
        BY <3>5
      <4> QED BY <3>3, <3>5, <4>1
    <3>6. ASSUME NEW q, GetsPost(n, q) PROVE uiq' = uiq
      BY <3>6 DEF GetsPost
    <3>7. ASSUME NEW q, ChatGoesOn(n, piece, q) PROVE uiq' = uiq
      BY <3>7 DEF ChatGoesOn, GetsPost
    <3>8. CASE id[2] = n
      BY <2>6, <3>2, <3>4, <3>5, <3>6, <3>7, <3>8
    <3> QED BY <3>2, <3>8
  \* The send queue.
  <2>12. ASSUME NEW id \in Ids, NEW k \in Places1, NEW a \in Node, InSend(World', id, a, k)
         PROVE  \/ InSend(World, id, a, k) /\ World'.sendq[a][k].to = World.sendq[a][k].to /\ (a = n => k <= slen)
                \/ /\ a = n /\ id[2] # n /\ k = slen + 1 /\ InPipe(World, id, l0, 1)
                   /\ World'.sendq[a][k].to = GetRouting(n, id[2])
    <3>1. k \in DOMAIN sendq'[a] /\ sendq'[a][k].msg[1] = Unit("type", id)
      BY <2>12, WorldNow DEF InSend
    <3>2. CASE a # n \/ sendq' = sendq
      <4>1. sendq'[a] = sendq[a]
        <5>1. \E q : sendq' = sendq \/ sendq' = [sendq EXCEPT ![n] = Push(sendq[n], q)]
          BY <2>6 DEF ChatArrives, ChatGoesOn, GetsNews, GetsPost
        <5> QED BY <2>7, <3>2, <5>1
      <4>2. a = n => k <= slen
        <5>1. a = n => k \in DOMAIN sendq[n]
          BY <3>1, <4>1
        <5> QED BY <2>7, <5>1 DEF slen
      <4> QED BY <3>1, <4>1, <4>2, WorldNow DEF InSend
    <3>3. ASSUME NEW q \in Packets, GetsPost(n, q), a = n
          PROVE  \/ InSend(World, id, a, k) /\ World'.sendq[a][k].to = World.sendq[a][k].to /\ k <= slen
                 \/ k = slen + 1 /\ World'.sendq[a][k] = q /\ q.msg[1] = Unit("type", id)
      <4>1. sendq'[n] = Push(sendq[n], q)
        BY <2>7, <3>3 DEF GetsPost
      <4>2. \/ k \in DOMAIN sendq[n] /\ sendq'[n][k] = sendq[n][k]
            \/ k = Len(sendq[n]) + 1 /\ sendq'[n][k] = q
        <5> DEFINE r == Push(sendq[n], q)
        <5>1. Pushed(sendq[n], q, r)
          BY <2>7, PushPlaces
        <5>2. sendq'[n] = r /\ k \in DOMAIN r
          BY <3>1, <3>3, <4>1
        <5> HIDE DEF r
        <5> QED BY <5>1, <5>2 DEF Pushed
      <4>3. CASE k \in DOMAIN sendq[n] /\ sendq'[n][k] = sendq[n][k]
        <5>1. k <= slen
          BY <2>7, <4>3 DEF slen
        <5> QED BY <3>1, <3>3, <4>3, <5>1, WorldNow DEF InSend
      <4>4. CASE k = Len(sendq[n]) + 1 /\ sendq'[n][k] = q
        BY <3>1, <3>3, <4>4, WorldNow DEF slen
      <4> QED BY <4>2, <4>3, <4>4
    <3>4. ASSUME NEW q \in Packets, ChatGoesOn(n, piece, q), a = n
          PROVE  \/ InSend(World, id, a, k) /\ World'.sendq[a][k].to = World.sendq[a][k].to /\ k <= slen
                 \/ /\ id[2] # n /\ k = slen + 1 /\ InPipe(World, id, l0, 1)
                    /\ World'.sendq[a][k].to = GetRouting(n, id[2])
      <4>1. piece[1] = Unit("type", piece[1].id) /\ piece[1].id \in Ids
        BY <2>5, <3>4, HeadedFacts DEF ChatGoesOn
      <4>2. GetsPost(n, q) /\ q.msg[1] = piece[1] /\ piece[1].id[2] # n /\ q.to = GetRouting(n, piece[1].id[2])
        BY <3>4 DEF ChatGoesOn
      <4>3. CASE k = slen + 1 /\ World'.sendq[a][k] = q /\ q.msg[1] = Unit("type", id)
        <5>1. piece[1] = Unit("type", id)
          BY <4>2, <4>3
        <5>2. piece[1].id = id
          BY <2>10, <5>1
        <5> QED BY <2>9, <4>2, <4>3, <5>1, <5>2
      <4> QED BY <3>3, <3>4, <4>2, <4>3
    <3>5. ASSUME NEW q \in Packets, q = [to |-> NoName, msg |-> <<Pad>>], GetsPost(n, q), a = n
          PROVE  InSend(World, id, a, k) /\ World'.sendq[a][k].to = World.sendq[a][k].to /\ k <= slen
      <4>1. q.msg[1] = Pad
        BY <3>5
      <4>2. Pad # Unit("type", id)
        BY UnitFacts
      <4> QED BY <3>3, <3>5, <4>1, <4>2
    <3>6. ASSUME NEW u, GetsNews(n, u) PROVE sendq' = sendq
      BY <3>6 DEF GetsNews
    <3>7. ASSUME NEW u, ChatArrives(n, piece, u) PROVE sendq' = sendq
      BY <3>7 DEF ChatArrives, GetsNews
    <3>8. CASE a = n
      BY <2>6, <3>2, <3>4, <3>5, <3>6, <3>7, <3>8
    <3> QED BY <3>2, <3>8
  <2>13. j \in Places1 /\ TabsStay(World, World')
    BY <1>1, <2>5, StayFacts DEF Places1
  <2>14. ReadMove(World, World', m, n, j, ulen, slen)
    BY <2>7, <2>8, <2>11, <2>12, <2>13 DEF ReadMove, l0
  <2> QED BY <2>14 DEF Moves
<1> QED BY <1>1, <1>2, <1>3

LEMMA SwitchStep == ASSUME TypeInv, NEW n \in Node, SwitchTab(n) PROVE Moves(World, World')
<1>1. PICK i \in DOMAIN tabs[n] :
        tabs' = [tabs EXCEPT ![n] = [tabs[n] EXCEPT ![i] = [tabs[n][i] EXCEPT !.unread = FALSE]]]
  BY DEF SwitchTab
<1> DEFINE mine == tabs[n]
           had == mine[i]
           new == [had EXCEPT !.unread = FALSE]
           r == [mine EXCEPT ![i] = new]
<1>2. tabs \in [Node -> Seq(Tabs)] /\ mine \in Seq(Tabs) /\ TabOK(had, n, typed) /\ i \in DOMAIN mine
  BY DEF TypeInv, ScreenTypes, TabsOK
<1>3. tabs' = [tabs EXCEPT ![n] = r] /\ had = mine[i]
  BY <1>1
<1> HIDE DEF had
<1>4. new.user = had.user /\ new.msgs = had.msgs
  BY <1>2, MarkOK
<1> HIDE DEF new
<1>5. DOMAIN r = DOMAIN mine /\ \A j \in DOMAIN mine : r[j].user = mine[j].user /\ r[j].msgs = mine[j].msgs
  <2>1. DOMAIN r = DOMAIN mine /\ \A j \in DOMAIN mine : r[j] = IF j = i THEN new ELSE mine[j]
    OBVIOUS
  <2> HIDE DEF r, mine
  <2> QED BY <1>3, <1>4, <2>1
<1> HIDE DEF r
<1>6. ASSUME NEW id \in Local, NEW k \in Places1, InTab(World', id, k) PROVE InTab(World, id, k)
  <2>1. tabs'[id[2]] = IF id[2] = n THEN r ELSE tabs[id[2]]
    BY <1>2, <1>3 DEF Local
  <2>2. CASE id[2] = n
    BY <1>5, <1>6, <2>1, <2>2, WorldNow DEF InTab
  <2>3. CASE id[2] # n
    BY <1>6, <2>1, <2>3, WorldNow DEF InTab
  <2> QED BY <2>2, <2>3
<1>7. UNCHANGED <<sendq, stream, server, uiq>>
  BY DEF SwitchTab, wires
<1>8. \A l \in Link : Pipe(l)' = Pipe(l)
  BY <1>7 DEF Pipe, Buf
<1>9. AllStay(World, World')
  BY <1>6, <1>7, <1>8, StayFacts DEF AllStay, TabsStay
<1> QED BY <1>9 DEF Moves

LEMMA ForeignStep == ASSUME TypeInv, NEW n \in Node, AddForeignMessage(n) PROVE Moves(World, World')
<1> DEFINE u == Head(uiq[n])
           mine == tabs[n]
           Old(j) == IF j \in DOMAIN mine THEN mine[j].msgs ELSE <<>>
<1>1. /\ UNCHANGED <<sendq, stream, server>> /\ uiq[n] # <<>> /\ uiq' = [uiq EXCEPT ![n] = Tail(uiq[n])]
  BY DEF AddForeignMessage, PopUi, wires
<1>2. uiq \in [Node -> Seq(News)] /\ uiq[n] \in Seq(News)
  BY DEF TypeInv, ScreenTypes
<1>3. 1 \in DOMAIN uiq[n] /\ u = uiq[n][1] /\ \A k \in DOMAIN Tail(uiq[n]) : k + 1 \in DOMAIN uiq[n] /\ Tail(uiq[n])[k] = uiq[n][k + 1]
  BY <1>1, <1>2
<1>4. /\ TabsOK(tabs'[n], n, typed) /\ DOMAIN mine \subseteq DOMAIN tabs'[n]
      /\ \A m \in Node \ {n} : tabs'[m] = tabs[m]
      /\ \A j \in DOMAIN tabs'[n] :
           /\ \/ tabs'[n][j].msgs = Old(j)
              \/ tabs'[n][j].msgs = Append(Old(j), u.text)
           /\ j \in DOMAIN mine => tabs'[n][j].user = mine[j].user
  BY ForeignTabs
<1>5. mine \in Seq(Tabs) /\ \A j \in DOMAIN mine : mine[j].msgs \in Seq(Texts)
  BY DEF TypeInv, ScreenTypes, TabsOK, TabOK, Tabs
<1>6. \A j : Old(j) \in Seq(Texts) /\ Len(Old(j)) \in Nat
  <2> SUFFICES ASSUME NEW j PROVE Old(j) \in Seq(Texts)
    OBVIOUS
  <2> QED BY <1>5
<1>7. u.text \in Texts
  <2>1. u \in News
    BY <1>2, <1>3
  <2> HIDE DEF u
  <2> QED BY <2>1 DEF News
<1> HIDE DEF u, mine, Old
<1>8. ASSUME NEW id \in Local, NEW k \in Places1, InUi(World', id, k)
      PROVE  IF id[2] = n THEN InUi(World, id, k + 1) ELSE InUi(World, id, k)
  <2>1. id[2] \in Node /\ k \in DOMAIN uiq'[id[2]] /\ uiq'[id[2]][k].text.id = id
    BY <1>8, WorldNow DEF Local, InUi
  <2>2. CASE id[2] = n
    <3>1. uiq'[n] = Tail(uiq[n])
      BY <1>1, <1>2
    <3>2. k + 1 \in DOMAIN uiq[n] /\ uiq[n][k + 1].text.id = id
      BY <1>3, <2>1, <2>2, <3>1
    <3> QED BY <2>2, <3>2, WorldNow DEF InUi
  <2>3. CASE id[2] # n
    <3>1. uiq'[id[2]] = uiq[id[2]]
      BY <1>1, <1>2, <2>1, <2>3
    <3> QED BY <2>1, <2>3, <3>1, WorldNow DEF InUi
  <2> QED BY <2>2, <2>3
<1>9. ASSUME NEW x \in Node
      PROVE  \E len \in Nat : \A id \in Local, k \in Places1 :
               id[1] = x /\ InTab(World', id, k) => \/ InTab(World, id, k) /\ (id[2] = n => k <= len)
                                                    \/ id[2] = n /\ k = len + 1 /\ InUi(World, id, 1)
  <2> DEFINE len == IF \E j \in DOMAIN tabs'[n] : tabs'[n][j].user = x
                    THEN Len(Old(CHOOSE j \in DOMAIN tabs'[n] : tabs'[n][j].user = x)) ELSE 0
  <2>1. len \in Nat
    BY <1>6
  <2>2. \A j \in DOMAIN tabs'[n] : tabs'[n][j].user = x => len = Len(Old(j))
    BY <1>4 DEF TabsOK
  <2> HIDE DEF len
  <2>3. ASSUME NEW id \in Local, NEW k \in Places1, id[1] = x, InTab(World', id, k)
        PROVE  \/ InTab(World, id, k) /\ (id[2] = n => k <= len)
               \/ id[2] = n /\ k = len + 1 /\ InUi(World, id, 1)
    <3>1. id[2] \in Node
      BY DEF Local
    <3>2. CASE id[2] # n
      <4>1. tabs'[id[2]] = tabs[id[2]]
        BY <1>4, <3>1, <3>2
      <4> QED BY <2>3, <3>2, <4>1, WorldNow DEF InTab
    <3>3. CASE id[2] = n
      <4>1. PICK j \in DOMAIN tabs'[n] : tabs'[n][j].user = x /\ k \in DOMAIN tabs'[n][j].msgs /\ tabs'[n][j].msgs[k].id = id
        BY <2>3, <3>3, WorldNow DEF InTab
      <4> DEFINE old == Old(j)
                 now == tabs'[n][j].msgs
      <4>2. old \in Seq(Texts) /\ len = Len(old) /\ k \in Nat
        BY <1>6, <2>2, <4>1 DEF Places1
      <4>3. now = old \/ now = Append(old, u.text)
        BY <1>4
      <4>4. k \in DOMAIN now /\ now[k].id = id
        BY <4>1
      <4>5. old = Old(j)
        OBVIOUS
      <4> HIDE DEF old, now
      <4>6. \/ k \in DOMAIN old /\ old[k].id = id
            \/ k = len + 1 /\ u.text.id = id
        BY <1>7, <4>2, <4>3, <4>4
      <4>7. CASE k \in DOMAIN old /\ old[k].id = id
        <5>1. k <= len
          BY <4>2, <4>7
        <5>2. j \in DOMAIN mine /\ mine[j].msgs = old
          BY <4>5, <4>7 DEF Old
        <5>3. mine[j].user = x
          BY <1>4, <4>1, <5>2
        <5>4. InTab(World, id, k)
          BY <2>3, <3>3, <4>7, <5>2, <5>3, WorldNow DEF InTab, mine
        <5> QED BY <5>1, <5>4
      <4>8. CASE k = len + 1 /\ u.text.id = id
        <5>1. InUi(World, id, 1)
          BY <1>3, <3>3, <4>8, WorldNow DEF InUi
        <5> QED BY <3>3, <4>8, <5>1
      <4> QED BY <4>6, <4>7, <4>8
    <3> QED BY <3>2, <3>3
  <2> QED BY <2>1, <2>3
<1>10. \A l \in Link : Pipe(l)' = Pipe(l)
  BY <1>1 DEF Pipe, Buf
<1>11. TabMove(World, World', n)
  BY <1>1, <1>8, <1>9, <1>10, StayFacts DEF TabMove
<1> QED BY <1>11 DEF Moves

LEMMA EnterStep ==
  ASSUME TypeInv, NEW n \in Node, NEW len \in 1 .. BufSize - 3, Enter(n, len)
  PROVE  Moves(World, World')
<1> DEFINE mine == tabs[n]
           i == active[n]
           had == mine[i]
           x == had.user
           id0 == <<n, x, Len(typed[<<n, x>>]) + 1>>
           text == Text(id0, len)
           shown == AddMessage(had, text)
           r == [mine EXCEPT ![i] = shown]
           news == [name |-> System, text |-> Notice]
           packet == [to |-> GetRouting(n, x), msg |-> Message(id0, len)]
           k0 == Len(sendq[n]) + 1
<1>1. tabs \in [Node -> Seq(Tabs)] /\ TabsOK(mine, n, typed) /\ i \in DOMAIN mine
  BY DEF TypeInv, ScreenTypes
<1>2. TabOK(had, n, typed) /\ x \in Users2 /\ x # n
  BY <1>1 DEF TabsOK, TabOK, Tabs
<1>3. /\ typed' = [typed EXCEPT ![<<n, x>>] = Append(@, len)]
      /\ tabs' = [tabs EXCEPT ![n] = r]
      /\ \/ /\ x = System
            /\ uiq' \in {uiq, [uiq EXCEPT ![n] = Push(uiq[n], news)]}
            /\ sendq' = sendq
         \/ /\ x # System
            /\ sendq' = [sendq EXCEPT ![n] = Push(sendq[n], packet)]
            /\ uiq' = uiq
      /\ UNCHANGED <<stream, server>>
  BY DEF Enter
<1>4. had = mine[i] /\ x = had.user
  OBVIOUS
<1>5. text.id = id0
  BY DEF Text
<1> HIDE DEF x
<1>6. id0 = <<n, x, Len(typed[<<n, x>>]) + 1>> /\ id0[1] = n
  OBVIOUS
<1> HIDE DEF id0
<1>7. Typed(n, x, len, id0)
  BY <1>2, <1>3, <1>6, EnterHistory
<1> HIDE DEF text
\* Own texts are not among those that others have typed.
<1>8. shown.user = had.user /\ shown.msgs \in {had.msgs, Append(had.msgs, text)}
  <2>1. had \in Tabs
    BY <1>2 DEF TabOK
  <2> HIDE DEF had
  <2> QED BY <2>1 DEF AddMessage, Tabs
<1> HIDE DEF had, shown
<1>9. DOMAIN r = DOMAIN mine /\ \A j \in DOMAIN mine : r[j] = IF j = i THEN shown ELSE mine[j]
  OBVIOUS
<1> HIDE DEF r, mine, i
<1>10. TabsStay(World, World')
  <2> SUFFICES ASSUME NEW id \in Local, NEW k \in Places1, InTab(World', id, k) PROVE InTab(World, id, k)
    BY DEF TabsStay
  <2>1. tabs'[id[2]] = IF id[2] = n THEN r ELSE tabs[id[2]]
    BY <1>1, <1>3 DEF Local
  <2>2. CASE id[2] # n
    BY <2>1, <2>2, WorldNow DEF InTab
  <2>3. CASE id[2] = n
    <3>1. PICK j \in DOMAIN mine : r[j].user = id[1] /\ k \in DOMAIN r[j].msgs /\ r[j].msgs[k].id = id
      BY <1>9, <2>1, <2>3, WorldNow DEF InTab
    <3>2. mine[j].user = id[1] /\ k \in DOMAIN mine[j].msgs /\ mine[j].msgs[k].id = id
      <4>1. CASE j # i
        BY <1>9, <3>1, <4>1
      <4>2. CASE j = i
        <5> DEFINE old == had.msgs
        <5>1. r[j] = shown /\ mine[j] = had /\ old \in Seq(Texts)
          BY <1>2, <1>4, <1>9, <4>2 DEF TabOK, Tabs
        <5>2. id[1] # n
          BY <2>3, IdFacts DEF Local
        <5>3. text.id # id
          BY <1>5, <1>6, <5>2
        <5>4. shown.msgs = old \/ shown.msgs = Append(old, text)
          BY <1>8
        <5>5. k \in DOMAIN shown.msgs /\ shown.msgs[k].id = id
          BY <3>1, <5>1
        <5> HIDE DEF old
        <5>6. k \in DOMAIN old /\ old[k].id = id
          <6>1. CASE shown.msgs = old
            BY <5>5, <6>1
          <6>2. CASE shown.msgs = Append(old, text)
            <7> DEFINE e == Append(old, text)
            <7>1. \A p \in DOMAIN e : (p \in DOMAIN old /\ e[p] = old[p]) \/ e[p] = text
              BY <5>1
            <7> HIDE DEF e
            <7> QED BY <5>3, <5>5, <6>2, <7>1 DEF e
          <6> QED BY <5>4, <6>1, <6>2
        <5> QED BY <1>8, <3>1, <5>1, <5>6 DEF old
      <4> QED BY <4>1, <4>2
    <3> QED BY <2>3, <3>2, WorldNow DEF InTab, mine
  <2> QED BY <2>2, <2>3
<1>11. PipesStay(World, World')
  <2>1. \A l \in Link : Pipe(l)' = Pipe(l)
    BY <1>3 DEF Pipe, Buf
  <2> QED BY <2>1, StayFacts
<1>12. UisStay(World, World')
  <2>1. CASE uiq' = uiq
    BY <2>1, StayFacts
  <2>2. CASE uiq' = [uiq EXCEPT ![n] = Push(uiq[n], news)]
    <3> DEFINE q == Push(uiq[n], news)
    <3>1. uiq \in [Node -> Seq(News)] /\ uiq[n] \in Seq(News) /\ Len(uiq[n]) <= MaxQueue /\ news \in News
      BY NoticeFacts DEF TypeInv, ScreenTypes, NewsOK, News, Users2
    <3>2. news.text.id = <<>>
      BY NoticeFacts
    <3> HIDE DEF news
    <3>3. Pushed(uiq[n], news, q)
      BY <3>1, PushPlaces
    <3>4. uiq' = [uiq EXCEPT ![n] = q]
      BY <2>2
    <3> HIDE DEF q
    <3>5. ASSUME NEW id \in Local, NEW k \in Places1, InUi(World', id, k) PROVE InUi(World, id, k)
      <4>1. k \in DOMAIN uiq'[id[2]] /\ uiq'[id[2]][k].text.id = id /\ id[2] \in Node /\ id # <<>>
        BY <3>5, WorldNow, IdNotNone DEF InUi, Local
      <4>2. k \in DOMAIN uiq[id[2]] /\ uiq'[id[2]][k] = uiq[id[2]][k]
        <5>1. CASE id[2] # n
          BY <3>1, <3>4, <4>1, <5>1
        <5>2. CASE id[2] = n
          BY <3>1, <3>2, <3>3, <3>4, <4>1, <5>2 DEF Pushed
        <5> QED BY <5>1, <5>2
      <4> QED BY <4>1, <4>2, WorldNow DEF InUi
    <3> QED BY <3>5 DEF UisStay
  <2> QED BY <1>3, <2>1, <2>2
<1>13. CASE x = System
  BY <1>3, <1>10, <1>11, <1>12, <1>13, StayFacts DEF AllStay, Moves
<1>14. CASE x # System
  <2>1. id0 \in Ids /\ Known(id0, typed') /\ Length(id0, typed') = len /\ id0[2] = x /\ id0[3] = Len(typed[<<n, x>>]) + 1
    BY <1>7, <1>14, Zenon DEF Typed
  <2>2. Message(id0, len)[1] = Unit("type", id0) /\ Message(id0, len) \in Seq(Units)
    BY <2>1, MessageOK DEF MsgOK, StretchOK
  <2>3. packet \in Packets /\ packet.to = GetRouting(n, x) /\ packet.msg[1] = Unit("type", id0)
    BY <2>2, NameFacts DEF Packets
  <2> HIDE DEF packet
  <2>4. sendq \in [Node -> Seq(Packets)] /\ sendq[n] \in Seq(Packets) /\ Len(sendq[n]) <= MaxQueue /\ Len(sendq[n]) \in Nat
    <3>1. sendq \in [Node -> Seq(Packets)] /\ Len(sendq[n]) <= MaxQueue
      BY DEF TypeInv, WireTypes
    <3>2. sendq[n] \in Seq(Packets)
      BY <3>1
    <3> QED BY <3>1, <3>2
  <2> DEFINE q == Push(sendq[n], packet)
  <2>5. Pushed(sendq[n], packet, q)
    BY <2>3, <2>4, PushPlaces
  <2>6. sendq' = [sendq EXCEPT ![n] = q]
    BY <1>3, <1>14
  <2> HIDE DEF q
  <2>7. k0 \in Places1 /\ \A k \in DOMAIN sendq[n] : k < k0
    BY <2>4 DEF Places1
  <2>8. ASSUME NEW id \in Ids, NEW k \in Places1, NEW a \in Node, InSend(World', id, a, k)
        PROVE  \/ InSend(World, id, a, k) /\ World'.sendq[a][k].to = World.sendq[a][k].to
               \/ id = id0 /\ a = id0[1] /\ k = k0 /\ World'.sendq[a][k].to = GetRouting(a, id0[2])
    <3>1. k \in DOMAIN sendq'[a] /\ sendq'[a][k].msg[1] = Unit("type", id)
      BY <2>8, WorldNow DEF InSend
    <3>2. CASE a # n
      BY <2>4, <2>6, <3>1, <3>2, WorldNow DEF InSend
    <3>3. CASE a = n
      <4>1. sendq'[n] = q
        BY <2>4, <2>6
      <4>2. CASE k \in DOMAIN sendq[n] /\ q[k] = sendq[n][k]
        BY <3>1, <3>3, <4>1, <4>2, WorldNow DEF InSend
      <4>3. CASE k = k0 /\ q[k] = packet
        <5>1. Unit("type", id) = Unit("type", id0)
          BY <2>3, <3>1, <3>3, <4>1, <4>3
        <5>2. id = id0
          BY <2>1, <5>1, UnitFacts
        <5>3. World'.sendq[a][k].to = GetRouting(a, id0[2])
          BY <2>1, <2>3, <3>3, <4>1, <4>3, WorldNow
        <5> QED BY <1>6, <3>3, <4>3, <5>2, <5>3
      <4> QED BY <2>5, <3>1, <3>3, <4>1, <4>2, <4>3 DEF Pushed
    <3> QED BY <3>2, <3>3
  <2>9. \A id \in Ids, k \in Places1 : InSend(World, id, id0[1], k) => k < k0
    BY <1>6, <2>7, WorldNow DEF InSend
  <2>10. ASSUME NEW id \in Ids, id[1] = id0[1], id[2] = id0[2], Occurs(World, id) PROVE id[3] < id0[3]
    <3> DEFINE s == typed[<<n, x>>]
    <3>1. id[3] \in DOMAIN s
      BY <1>6, <2>1, <2>10, OccursKnown DEF Known
    <3>2. s \in Seq(1 .. BufSize - 3)
      <4>1. <<n, x>> \in Node \X Users2
        BY <1>2
      <4> QED BY <4>1 DEF TypeInv, Histories
    <3>3. id0[3] = Len(s) + 1
      BY <2>1
    <3> DEFINE sizes == 1 .. BufSize - 3
    <3>4. s \in Seq(sizes)
      BY <3>2
    <3> HIDE DEF s, sizes
    <3>5. DOMAIN s = 1 .. Len(s) /\ Len(s) \in Nat
      BY <3>4
    <3> QED BY <3>1, <3>3, <3>5
  <2> HIDE DEF k0
  <2>11. TypeMove(World, World', id0, k0)
    BY <1>10, <1>11, <1>12, <2>1, <2>7, <2>8, <2>9, <2>10 DEF TypeMove
  <2> QED BY <2>11 DEF Moves
<1> QED BY <1>13, <1>14

LEMMA InitOrder == Init => OrderInv
<1> SUFFICES ASSUME Init PROVE OrderInv
  OBVIOUS
<1>1. \A id \in Ids : id # <<>>
  BY IdNotNone
<1>2. ASSUME NEW id \in Local, NEW k PROVE ~InTab(World, id, k)
  <2>1. id[2] \in Node /\ id # <<>>
    BY <1>1 DEF Local
  <2>2. tabs[id[2]] = <<[user |-> System, msgs |-> <<Notice>>, unread |-> FALSE]>>
    BY <2>1 DEF Init
  <2>3. \A i \in DOMAIN tabs[id[2]] : \A j \in DOMAIN tabs[id[2]][i].msgs : tabs[id[2]][i].msgs[j] = Notice
    BY <2>2
  <2> QED BY <2>1, <2>3, NoticeFacts, WorldNow DEF InTab
<1>3. ASSUME NEW id \in Local, NEW k PROVE ~InUi(World, id, k)
  <2>1. id[2] \in Node /\ id # <<>>
    BY <1>1 DEF Local
  <2>2. uiq[id[2]] = [j \in DOMAIN KnownTo(id[2]) |-> [name |-> KnownTo(id[2])[j], text |-> Notice]]
    BY <2>1 DEF Init
  <2>3. \A j \in DOMAIN uiq[id[2]] : uiq[id[2]][j].text = Notice
    BY <2>2
  <2> QED BY <2>1, <2>3, NoticeFacts, WorldNow DEF InUi
<1>4. ASSUME NEW id \in Ids, NEW k, NEW l \in Link PROVE ~InPipe(World, id, l, k)
  <2>1. Pipe(l) = <<>>
    BY LinkFacts, NameFacts DEF Init, Pipe, Buf, Ready
  <2> QED BY <2>1, WorldNow DEF InPipe
<1>5. ASSUME NEW id \in Ids, NEW k, NEW a \in Node PROVE ~InSend(World, id, a, k)
  <2>1. sendq[a] = <<>>
    BY DEF Init
  <2> QED BY <2>1, WorldNow DEF InSend
<1>6. WaysOK(World)
  BY <1>2, <1>3, <1>4, <1>5 DEF WaysOK
<1>7. ASSUME NEW N \in Places1, NEW h \in [0 .. N -> Node], Way(h, N), h[0] # h[N]
      PROVE  Sorted(Line(h, N, World))
  <2>1. ASSUME NEW s \in Nat, NEW k \in Places1, NEW c \in Nat, Stands(h, N, World, s, k, c) PROVE FALSE
    <3> DEFINE id == <<h[0], h[N], c>>
    <3>1. id \in Local /\ id \in Ids
      BY <1>7, LineIds
    <3> HIDE DEF id
    <3>2. ~InTab(World, id, k) /\ ~InUi(World, id, k)
      BY <1>2, <1>3, <3>1
    <3>3. \A i \in 0 .. N - 1 : ~InPipe(World, id, <<h[i], h[i + 1]>>, k) /\ ~InSend(World, id, h[i], k)
      BY <1>4, <1>5, <1>7, <3>1, HopFacts
    <3> QED BY <2>1, <3>2, <3>3 DEF Stands, id
  <2>2. \A t : t \notin Line(h, N, World)
    BY <2>1, LineGet
  <2> QED BY <2>2 DEF Sorted
<1> QED BY <1>6, <1>7, InitTypes DEF OrderInv, LinesOK

LEMMA NextMoves == ASSUME TypeInv, [Next]_vars PROVE Moves(World, World')
<1>1. CASE UNCHANGED vars
  <2>1. UNCHANGED <<sendq, stream, server, uiq, tabs>>
    BY <1>1 DEF vars, wires, screens
  <2>2. \A l \in Link : Pipe(l)' = Pipe(l)
    BY <2>1 DEF Pipe, Buf
  <2> QED BY <2>1, <2>2, StayFacts DEF AllStay, Moves
<1>2. ASSUME NEW n \in Node, AddForeignMessage(n) PROVE Moves(World, World')
  BY <1>2, ForeignStep
<1>3. ASSUME NEW n \in Node, SwitchTab(n) PROVE Moves(World, World')
  BY <1>3, SwitchStep
<1>4. ASSUME NEW n \in Node, NEW len \in 1 .. BufSize - 3, Enter(n, len) PROVE Moves(World, World')
  BY <1>4, EnterStep
<1>5. ASSUME NEW n \in Node, Send(n) PROVE Moves(World, World')
  BY <1>5, SendStep
<1>6. ASSUME NEW n \in Node, NEW m \in Node \ {n}, Read(n, m) PROVE Moves(World, World')
  BY <1>6, ReadStep
<1> QED BY <1>1, <1>2, <1>3, <1>4, <1>5, <1>6 DEF Next

LEMMA NextOrder == OrderInv /\ [Next]_vars => OrderInv'
<1> SUFFICES ASSUME OrderInv, [Next]_vars PROVE OrderInv'
  OBVIOUS
<1>1. TypeInv /\ WaysOK(World) /\ LinesOK(World) /\ TypeInv'
  BY NextTypes DEF OrderInv
<1>2. Moves(World, World')
  BY <1>1, NextMoves
<1>3. WaysOK(World') /\ LinesOK(World')
  BY <1>1, <1>2, MovesOK
<1> QED BY <1>1, <1>3 DEF OrderInv

\* Two texts in a tab stand in one line, in station 0.
LEMMA TabSorted ==
  ASSUME OrderInv, NEW id \in Local, NEW d \in Local, id[1] = d[1], id[2] = d[2],
         NEW j \in Places1, NEW k \in Places1, InTab(World, id, j), InTab(World, d, k), j < k
  PROVE  id[3] < d[3]
<1>1. id \in Ids /\ d \in Ids
  BY DEF Local
<1>2. OnWay(id[1], id[2], id[2])
  BY DEF OrderInv, WaysOK
<1>3. PICK N \in Nat : \E h \in [0 .. N -> Node] : Walk(id[2], h, N) /\ h[0] = id[1] /\ h[N] = id[2]
  BY <1>2 DEF OnWay
<1>4. PICK h \in [0 .. N -> Node] : Walk(id[2], h, N) /\ h[0] = id[1] /\ h[N] = id[2]
  BY <1>3
<1>5. N \in Places1 /\ Way(h, N) /\ h[0] # h[N]
  BY <1>1, <1>4, IdFacts DEF Places1, Way
<1>6. Sorted(Line(h, N, World))
  BY <1>5 DEF OrderInv, LinesOK
<1>7. id[3] \in Nat /\ d[3] \in Nat /\ id = <<h[0], h[N], id[3]>> /\ d = <<h[0], h[N], d[3]>>
  BY <1>1, <1>4, IdFacts, IdNotNone
<1>8. Stands(h, N, World, 0, j, id[3]) /\ Stands(h, N, World, 0, k, d[3])
  BY <1>7 DEF Stands
<1>9. <<0, j, id[3]>> \in Line(h, N, World) /\ <<0, k, d[3]>> \in Line(h, N, World)
  BY <1>7, <1>8, LinePut
<1>10. Before(<<0, j, id[3]>>, <<0, k, d[3]>>)
  BY DEF Before
<1> QED BY <1>6, <1>9, <1>10 DEF Sorted

LEMMA OrderHolds == OrderInv => InOrder
<1> SUFFICES ASSUME OrderInv, NEW n \in Node, NEW i \in DOMAIN tabs[n]
             PROVE  LET x == tabs[n][i].user
                        s == tabs[n][i].msgs
                    IN  /\ \A k \in DOMAIN s : \/ s[k] = Notice
                                               \/ <<s[k].id[1], s[k].id[2]>> \in {<<n, x>>, <<x, n>>}
                        /\ \A k \in From(x, tabs[n][i]) :
                             /\ s[k].id[3] \in DOMAIN typed[<<x, n>>]
                             /\ s[k].parts <= typed[<<x, n>>][s[k].id[3]]
                             /\ \A j \in From(x, tabs[n][i]) : j < k => s[j].id[3] < s[k].id[3]
  BY DEF InOrder
<1> DEFINE tab == tabs[n][i]
           x == tab.user
           s == tab.msgs
<1>1. TabOK(tab, n, typed)
  BY DEF OrderInv, TypeInv, ScreenTypes, TabsOK
<1>2. tab \in Tabs /\ s \in Seq(Texts) /\ x # n
  BY <1>1 DEF TabOK, Tabs
<1>3. \A k \in DOMAIN s : \/ s[k] = Notice
                          \/ TextOK(s[k], x, n, typed)
                          \/ s[k].id[1] = n /\ s[k].id[2] = x
  BY <1>1 DEF TabOK
<1>4. tab = tabs[n][i]
  OBVIOUS
<1> HIDE DEF tab
<1>5. ASSUME NEW k \in DOMAIN s, s[k] # Notice
      PROVE  <<s[k].id[1], s[k].id[2]>> \in {<<n, x>>, <<x, n>>}
  BY <1>3, <1>5 DEF TextOK
<1>6. ASSUME NEW k \in From(x, tab)
      PROVE  /\ TextOK(s[k], x, n, typed) /\ k \in Places1
             /\ s[k].id \in Local /\ InTab(World, s[k].id, k)
  <2>1. k \in DOMAIN s /\ s[k] # Notice /\ s[k].id[1] = x
    BY DEF From
  <2>2. TextOK(s[k], x, n, typed)
    BY <1>2, <1>3, <2>1
  <2>3. s[k].id \in Local /\ s[k].id[2] = n
    BY <2>2 DEF TextOK, Local
  <2>4. k \in Places1
    BY <1>2, <2>1 DEF Places1
  <2>5. InTab(World, s[k].id, k)
    BY <1>4, <2>1, <2>3, WorldNow DEF InTab
  <2> QED BY <2>2, <2>3, <2>4, <2>5
<1>7. ASSUME NEW k \in From(x, tab)
      PROVE  s[k].id[3] \in DOMAIN typed[<<x, n>>] /\ s[k].parts <= typed[<<x, n>>][s[k].id[3]]
  BY <1>6 DEF TextOK, Known, Length
<1>8. ASSUME NEW k \in From(x, tab), NEW j \in From(x, tab), j < k PROVE s[j].id[3] < s[k].id[3]
  <2>1. s[j].id[1] = s[k].id[1] /\ s[j].id[2] = s[k].id[2]
    BY <1>6 DEF TextOK
  <2> QED BY <1>6, <1>8, <2>1, TabSorted
<1> QED BY <1>4, <1>5, <1>7, <1>8

\* However reads cut and merge what is sent, nodes find in a tab what its user
\* has typed for them, as beginnings of its texts, in their order and none of
\* them twice, and what they have typed themselves (src/src/tcp_con.c:20,
\* src/src/protocol.c:106, src/src/ui.c:219).
THEOREM TextsInOrder == Spec => []InOrder
BY InitOrder, NextOrder, OrderHolds, PTL DEF Spec

-----------------------------------------------------------------------------
(***************************************************************************)
(* Where a text is, as one value, and that no text is in two places.  Each *)
(* of the moves takes what is in one place to one place: a text that was   *)
(* nowhere twice is nowhere twice.                                         *)
(***************************************************************************)
Place(kind, where, k) == [kind |-> kind, where |-> where, k |-> k]

At(V, id, t) ==
  \E k \in Places1 :
    \/ id \in Local /\ InTab(V, id, k) /\ t = Place("tab", id[2], k)
    \/ id \in Local /\ InUi(V, id, k) /\ t = Place("ui", id[2], k)
    \/ \E l \in Link : InPipe(V, id, l, k) /\ t = Place("pipe", l, k)
    \/ \E a \in Node : InSend(V, id, a, k) /\ t = Place("send", a, k)

Once(V) == \A id \in Ids : \A s, t : At(V, id, s) /\ At(V, id, t) => s = t

LEMMA PlaceFacts ==
  \A kind, where, k :
    Place(kind, where, k).kind = kind /\ Place(kind, where, k).where = where /\ Place(kind, where, k).k = k
BY DEF Place

LEMMA OnceStay == ASSUME NEW V, NEW W, Once(V), AllStay(V, W) PROVE Once(W)
<1>1. ASSUME NEW id \in Ids, NEW t, At(W, id, t) PROVE At(V, id, t)
  <2>1. PICK k \in Places1 :
          \/ id \in Local /\ InTab(W, id, k) /\ t = Place("tab", id[2], k)
          \/ id \in Local /\ InUi(W, id, k) /\ t = Place("ui", id[2], k)
          \/ \E l \in Link : InPipe(W, id, l, k) /\ t = Place("pipe", l, k)
          \/ \E a \in Node : InSend(W, id, a, k) /\ t = Place("send", a, k)
    BY <1>1 DEF At
  <2> QED BY <2>1 DEF At, AllStay, TabsStay, UisStay, PipesStay, SendsStay
<1> QED BY <1>1 DEF Once

LEMMA OnceSend ==
  ASSUME NEW V, NEW W, Once(V), NEW m \in Node, NEW to, NEW len, SendMove(V, W, m, to, len)
  PROVE  Once(W)
<1> DEFINE to1 == <<m, to>>
           F(s) == IF s.kind = "send" /\ s.where = m
                   THEN IF s.k = 1 THEN Place("pipe", to1, len[to1] + 1) ELSE Place("send", m, s.k - 1)
                   ELSE s
<1>1. ASSUME NEW id \in Ids, NEW t, At(W, id, t) PROVE \E s : At(V, id, s) /\ t = F(s)
  <2>1. PICK k \in Places1 :
          \/ id \in Local /\ InTab(W, id, k) /\ t = Place("tab", id[2], k)
          \/ id \in Local /\ InUi(W, id, k) /\ t = Place("ui", id[2], k)
          \/ \E l \in Link : InPipe(W, id, l, k) /\ t = Place("pipe", l, k)
          \/ \E a \in Node : InSend(W, id, a, k) /\ t = Place("send", a, k)
    BY <1>1 DEF At
  <2>2. k \in Nat /\ k > 0 /\ k + 1 \in Places1 /\ 1 \in Places1 /\ k + 1 # 1 /\ (k + 1) - 1 = k
    BY DEF Places1
  <2>3. CASE id \in Local /\ InTab(W, id, k) /\ t = Place("tab", id[2], k)
    <3>1. At(V, id, t)
      BY <2>3 DEF At, SendMove, TabsStay
    <3> QED BY <2>3, <3>1, PlaceFacts
  <2>4. CASE id \in Local /\ InUi(W, id, k) /\ t = Place("ui", id[2], k)
    <3>1. At(V, id, t)
      BY <2>4 DEF At, SendMove, UisStay
    <3> QED BY <2>4, <3>1, PlaceFacts
  <2>5. ASSUME NEW l \in Link, InPipe(W, id, l, k), t = Place("pipe", l, k)
        PROVE  \E s : At(V, id, s) /\ t = F(s)
    <3>1. CASE InPipe(V, id, l, k)
      <4>1. At(V, id, t)
        BY <2>5, <3>1 DEF At
      <4> QED BY <2>5, <4>1, PlaceFacts
    <3>2. CASE l = to1 /\ k = len[l] + 1 /\ InSend(V, id, m, 1)
      <4> DEFINE s == Place("send", m, 1)
      <4>1. At(V, id, s)
        BY <2>2, <3>2 DEF At
      <4>2. s.kind = "send" /\ s.where = m /\ s.k = 1
        BY PlaceFacts
      <4> HIDE DEF s
      <4>3. t = F(s)
        BY <2>5, <3>2, <4>2
      <4> QED BY <4>1, <4>3
    <3> QED BY <2>5, <3>1, <3>2 DEF SendMove
  <2>6. ASSUME NEW a \in Node, InSend(W, id, a, k), t = Place("send", a, k)
        PROVE  \E s : At(V, id, s) /\ t = F(s)
    <3>1. CASE a = m
      <4> DEFINE s == Place("send", m, k + 1)
      <4>1. InSend(V, id, m, k + 1)
        BY <2>6, <3>1 DEF SendMove
      <4>2. At(V, id, s)
        BY <2>2, <4>1 DEF At
      <4>3. s.kind = "send" /\ s.where = m /\ s.k = k + 1
        BY PlaceFacts
      <4> HIDE DEF s
      <4>4. t = F(s)
        BY <2>2, <2>6, <3>1, <4>3
      <4> QED BY <4>2, <4>4
    <3>2. CASE a # m
      <4>1. InSend(V, id, a, k)
        BY <2>6, <3>2 DEF SendMove
      <4>2. At(V, id, t)
        BY <2>6, <4>1 DEF At
      <4> QED BY <2>6, <3>2, <4>2, PlaceFacts
    <3> QED BY <3>1, <3>2
  <2> QED BY <2>1, <2>3, <2>4, <2>5, <2>6
<1> HIDE DEF F
<1> QED BY <1>1 DEF Once

LEMMA OnceRead ==
  ASSUME NEW V, NEW W, Once(V), NEW m \in Node, NEW n \in Node \ {m}, NEW j, NEW ulen, NEW slen,
         ReadMove(V, W, m, n, j, ulen, slen)
  PROVE  Once(W)
<1> DEFINE l0 == <<m, n>>
           F(id, s) == IF s.kind = "pipe" /\ s.where = l0
                       THEN IF s.k = 1
                            THEN IF id[2] = n THEN Place("ui", n, ulen + 1) ELSE Place("send", n, slen + 1)
                            ELSE Place("pipe", l0, s.k - j)
                       ELSE s
<1>1. ASSUME NEW id \in Ids, NEW t, At(W, id, t) PROVE \E s : At(V, id, s) /\ t = F(id, s)
  <2>1. PICK k \in Places1 :
          \/ id \in Local /\ InTab(W, id, k) /\ t = Place("tab", id[2], k)
          \/ id \in Local /\ InUi(W, id, k) /\ t = Place("ui", id[2], k)
          \/ \E l \in Link : InPipe(W, id, l, k) /\ t = Place("pipe", l, k)
          \/ \E a \in Node : InSend(W, id, a, k) /\ t = Place("send", a, k)
    BY <1>1 DEF At
  <2>2. 1 \in Places1 /\ k + j \in Places1 /\ k + j # 1 /\ (k + j) - j = k
    BY DEF Places1, ReadMove
  <2>3. CASE id \in Local /\ InTab(W, id, k) /\ t = Place("tab", id[2], k)
    <3>1. At(V, id, t)
      BY <2>3 DEF At, ReadMove, TabsStay
    <3> QED BY <2>3, <3>1, PlaceFacts
  \* What the head of the pipe is of.
  <2>4. ASSUME InPipe(V, id, l0, 1) PROVE \E s : At(V, id, s) /\ s.kind = "pipe" /\ s.where = l0 /\ s.k = 1
    <3>1. l0 \in Link
      BY <2>4 DEF InPipe
    <3>2. At(V, id, Place("pipe", l0, 1))
      BY <2>2, <2>4, <3>1 DEF At
    <3> QED BY <3>2, PlaceFacts
  <2>5. CASE id \in Local /\ InUi(W, id, k) /\ t = Place("ui", id[2], k)
    <3>1. CASE InUi(V, id, k)
      <4>1. At(V, id, t)
        BY <2>5, <3>1 DEF At
      <4> QED BY <2>5, <4>1, PlaceFacts
    <3>2. CASE id[2] = n /\ k = ulen + 1 /\ InPipe(V, id, l0, 1)
      BY <2>4, <2>5, <3>2
    <3> QED BY <2>5, <3>1, <3>2 DEF ReadMove
  <2>6. ASSUME NEW l \in Link, InPipe(W, id, l, k), t = Place("pipe", l, k)
        PROVE  \E s : At(V, id, s) /\ t = F(id, s)
    <3>1. CASE l = l0
      <4> DEFINE s == Place("pipe", l0, k + j)
      <4>1. InPipe(V, id, l0, k + j)
        BY <2>6, <3>1 DEF ReadMove
      <4>2. At(V, id, s)
        BY <2>2, <2>6, <3>1, <4>1 DEF At
      <4>3. s.kind = "pipe" /\ s.where = l0 /\ s.k = k + j
        BY PlaceFacts
      <4> HIDE DEF s
      <4>4. t = F(id, s)
        BY <2>2, <2>6, <3>1, <4>3
      <4> QED BY <4>2, <4>4
    <3>2. CASE l # l0
      <4>1. InPipe(V, id, l, k)
        BY <2>6, <3>2 DEF ReadMove
      <4>2. At(V, id, t)
        BY <2>6, <4>1 DEF At
      <4> QED BY <2>6, <3>2, <4>2, PlaceFacts
    <3> QED BY <3>1, <3>2
  <2>7. ASSUME NEW a \in Node, InSend(W, id, a, k), t = Place("send", a, k)
        PROVE  \E s : At(V, id, s) /\ t = F(id, s)
    <3>1. CASE InSend(V, id, a, k)
      <4>1. At(V, id, t)
        BY <2>7, <3>1 DEF At
      <4> QED BY <2>7, <4>1, PlaceFacts
    <3>2. CASE a = n /\ id[2] # n /\ k = slen + 1 /\ InPipe(V, id, l0, 1)
      BY <2>4, <2>7, <3>2
    <3> QED BY <2>7, <3>1, <3>2 DEF ReadMove
  <2> QED BY <2>1, <2>3, <2>5, <2>6, <2>7
<1> HIDE DEF F
<1> QED BY <1>1 DEF Once

LEMMA OnceTab ==
  ASSUME NEW V, NEW W, Once(V), NEW n \in Node, TabMove(V, W, n)
  PROVE  Once(W)
<1> SUFFICES ASSUME NEW id \in Ids, NEW t0, At(W, id, t0), NEW t1, At(W, id, t1) PROVE t0 = t1
  BY DEF Once
<1>1. id[1] \in Node
  BY IdFacts
<1>2. PICK len \in Nat : \A d \in Local, k \in Places1 :
        d[1] = id[1] /\ InTab(W, d, k) => \/ InTab(V, d, k) /\ (d[2] = n => k <= len)
                                          \/ d[2] = n /\ k = len + 1 /\ InUi(V, d, 1)
  BY <1>1 DEF TabMove
<1> DEFINE F(s) == IF s.kind = "ui" /\ s.where = n
                   THEN IF s.k = 1 THEN Place("tab", n, len + 1) ELSE Place("ui", n, s.k - 1)
                   ELSE s
<1>3. ASSUME NEW t, At(W, id, t) PROVE \E s : At(V, id, s) /\ t = F(s)
  <2>1. PICK k \in Places1 :
          \/ id \in Local /\ InTab(W, id, k) /\ t = Place("tab", id[2], k)
          \/ id \in Local /\ InUi(W, id, k) /\ t = Place("ui", id[2], k)
          \/ \E l \in Link : InPipe(W, id, l, k) /\ t = Place("pipe", l, k)
          \/ \E a \in Node : InSend(W, id, a, k) /\ t = Place("send", a, k)
    BY <1>3 DEF At
  <2>2. k \in Nat /\ k > 0 /\ k + 1 \in Places1 /\ 1 \in Places1 /\ k + 1 # 1 /\ (k + 1) - 1 = k
    BY DEF Places1
  <2>3. CASE id \in Local /\ InTab(W, id, k) /\ t = Place("tab", id[2], k)
    <3>1. CASE InTab(V, id, k)
      <4>1. At(V, id, t)
        BY <2>3, <3>1 DEF At
      <4> QED BY <2>3, <4>1, PlaceFacts
    <3>2. CASE id[2] = n /\ k = len + 1 /\ InUi(V, id, 1)
      <4> DEFINE s == Place("ui", n, 1)
      <4>1. At(V, id, s)
        BY <2>2, <2>3, <3>2 DEF At
      <4>2. s.kind = "ui" /\ s.where = n /\ s.k = 1
        BY PlaceFacts
      <4> HIDE DEF s
      <4>3. t = F(s)
        BY <2>3, <3>2, <4>2
      <4> QED BY <4>1, <4>3
    <3> QED BY <1>2, <2>3, <3>1, <3>2
  <2>4. CASE id \in Local /\ InUi(W, id, k) /\ t = Place("ui", id[2], k)
    <3>1. CASE id[2] = n
      <4> DEFINE s == Place("ui", n, k + 1)
      <4>1. InUi(V, id, k + 1)
        BY <2>4, <3>1 DEF TabMove
      <4>2. At(V, id, s)
        BY <2>2, <2>4, <3>1, <4>1 DEF At
      <4>3. s.kind = "ui" /\ s.where = n /\ s.k = k + 1
        BY PlaceFacts
      <4> HIDE DEF s
      <4>4. t = F(s)
        BY <2>2, <2>4, <3>1, <4>3
      <4> QED BY <4>2, <4>4
    <3>2. CASE id[2] # n
      <4>1. InUi(V, id, k)
        BY <2>4, <3>2 DEF TabMove
      <4>2. At(V, id, t)
        BY <2>4, <4>1 DEF At
      <4> QED BY <2>4, <3>2, <4>2, PlaceFacts
    <3> QED BY <3>1, <3>2
  <2>5. ASSUME NEW l \in Link, InPipe(W, id, l, k), t = Place("pipe", l, k)
        PROVE  \E s : At(V, id, s) /\ t = F(s)
    <3>1. At(V, id, t)
      BY <2>5 DEF At, TabMove, PipesStay
    <3> QED BY <2>5, <3>1, PlaceFacts
  <2>6. ASSUME NEW a \in Node, InSend(W, id, a, k), t = Place("send", a, k)
        PROVE  \E s : At(V, id, s) /\ t = F(s)
    <3>1. At(V, id, t)
      BY <2>6 DEF At, TabMove, SendsStay
    <3> QED BY <2>6, <3>1, PlaceFacts
  <2> QED BY <2>1, <2>3, <2>4, <2>5, <2>6
<1> HIDE DEF F
<1> QED BY <1>3 DEF Once

LEMMA OnceType ==
  ASSUME NEW V, NEW W, Once(V), NEW new, NEW k0, TypeMove(V, W, new, k0)
  PROVE  Once(W)
<1>1. ASSUME NEW id \in Ids, NEW t, At(W, id, t)
      PROVE  At(V, id, t) \/ (id = new /\ t = Place("send", new[1], k0))
  <2>1. PICK k \in Places1 :
          \/ id \in Local /\ InTab(W, id, k) /\ t = Place("tab", id[2], k)
          \/ id \in Local /\ InUi(W, id, k) /\ t = Place("ui", id[2], k)
          \/ \E l \in Link : InPipe(W, id, l, k) /\ t = Place("pipe", l, k)
          \/ \E a \in Node : InSend(W, id, a, k) /\ t = Place("send", a, k)
    BY <1>1 DEF At
  <2>2. ASSUME NEW a \in Node, InSend(W, id, a, k), t = Place("send", a, k)
        PROVE  At(V, id, t) \/ (id = new /\ t = Place("send", new[1], k0))
    BY <2>2 DEF At, TypeMove
  <2> QED BY <2>1, <2>2 DEF At, TypeMove, TabsStay, UisStay, PipesStay
<1>2. ASSUME NEW t PROVE ~At(V, new, t)
  <2>1. new \in Ids /\ new[3] \in Nat
    BY IdFacts DEF TypeMove
  <2>2. At(V, new, t) => Occurs(V, new)
    BY DEF At, Occurs, Local
  <2> QED BY <2>1, <2>2 DEF TypeMove
<1> QED BY <1>1, <1>2 DEF Once

LEMMA OnceMoves == ASSUME NEW V, NEW W, Once(V), Moves(V, W) PROVE Once(W)
BY OnceStay, OnceSend, OnceRead, OnceTab, OnceType DEF Moves

-----------------------------------------------------------------------------
(***************************************************************************)
(* Whole messages: from each header to the next EOT stands all that was    *)
(* typed, and the next header stands behind it.                            *)
(***************************************************************************)
WholeAt(s, p, T) ==
  LET id == s[p].id
      len == Length(id, T)
  IN  /\ len \in Nat /\ p + 1 + len + 1 \in DOMAIN s
      /\ s[p + 1] = Unit("names", id)
      /\ \A k \in 1 .. len : s[p + 1 + k] = Unit("text", id)
      /\ s[p + 1 + len + 1] = Eot

WholeMsgs(s, T) ==
  /\ s \in Seq(Units)
  /\ \A p \in DOMAIN s : /\ s[p].kind = "type" <=> (p = 1 \/ s[p - 1] = Eot)
                         /\ s[p].kind = "type" => WholeAt(s, p, T)

LEMMA LengthFacts ==
  ASSUME NEW T \in Histories, NEW id \in Ids, Known(id, T)
  PROVE  Length(id, T) \in 1 .. BufSize - 3 /\ Length(id, T) \in Nat
<1> DEFINE p == <<id[1], id[2]>>
           sizes == 1 .. BufSize - 3
           h == T[p]
           i == id[3]
<1>1. p \in Node \X Users2
  BY IdFacts DEF Users2
<1>2. h \in Seq(sizes) /\ i \in DOMAIN h
  BY <1>1 DEF Histories, Known
<1>3. sizes \subseteq Nat
  BY SizesAssumption
<1> HIDE DEF h, i, sizes
<1>4. h[i] \in sizes
  BY <1>2
<1> QED BY <1>3, <1>4 DEF Length, h, i, p, sizes

LEMMA KeepsWhole ==
  ASSUME NEW T, NEW U, Keeps(T, U), NEW s, WholeMsgs(s, T),
         \A p \in DOMAIN s : s[p].kind = "type" => Known(s[p].id, T)
  PROVE  WholeMsgs(s, U)
<1>1. s \in Seq(Units) /\ \A p \in DOMAIN s : s[p].kind = "type" => s[p].id \in Ids
  BY UnitFacts DEF WholeMsgs
<1>2. ASSUME NEW p \in DOMAIN s, s[p].kind = "type" PROVE WholeAt(s, p, U)
  <2>1. WholeAt(s, p, T) /\ Length(s[p].id, U) = Length(s[p].id, T)
    BY <1>1, <1>2 DEF WholeMsgs, Keeps
  <2> QED BY <2>1 DEF WholeAt
<1> QED BY <1>2 DEF WholeMsgs

\* do_chat makes a whole message, and send_tcp writes EOT behind it.
LEMMA MessageWhole ==
  ASSUME NEW T, NEW id \in Ids, NEW len \in 1 .. BufSize - 3, Length(id, T) = len
  PROVE  WholeMsgs(Append(Message(id, len), Eot), T)
<1> DEFINE m == Message(id, len)
           text == [k \in 1 .. len |-> Unit("text", id)]
           e == Append(m, Eot)
<1>1. /\ len \in Nat /\ len > 0
  BY SizesAssumption
<1>2. text \in Seq(Units) /\ Len(text) = len
  BY <1>1, UnitFacts
<1>3. m = <<Unit("type", id), Unit("names", id)>> \o text
  BY DEF Message
<1> HIDE DEF text, m
<1>4. /\ m \in Seq(Units) /\ Len(m) = len + 2
      /\ m[1] = Unit("type", id) /\ m[2] = Unit("names", id)
      /\ \A k \in 1 .. len : m[k + 2] = text[k]
  BY <1>1, <1>2, <1>3, UnitFacts
<1>5. \A k \in 1 .. len : m[k + 2] = Unit("text", id)
  BY <1>1, <1>4 DEF text
<1>6. /\ e \in Seq(Units) /\ Len(e) = len + 3 /\ DOMAIN e = 1 .. len + 3 /\ e[len + 3] = Eot
      /\ \A k \in 1 .. len + 2 : e[k] = m[k]
  BY <1>1, <1>4, UnitFacts
<1> HIDE DEF e
<1>7. e[1] = Unit("type", id) /\ e[2] = Unit("names", id) /\ \A k \in 1 .. len : e[k + 2] = Unit("text", id)
  BY <1>1, <1>4, <1>5, <1>6
<1>8. WholeAt(e, 1, T)
  <2>1. e[1].id = id /\ Length(id, T) = len
    BY <1>7, UnitFacts
  <2>2. 1 + 1 = 2 /\ 1 + 1 + len + 1 = len + 3 /\ len + 3 \in DOMAIN e /\ \A k \in 1 .. len : 1 + 1 + k = k + 2
    BY <1>1, <1>6
  <2> QED BY <1>1, <1>6, <1>7, <2>1, <2>2 DEF WholeAt
<1>9. ASSUME NEW p \in DOMAIN e PROVE e[p].kind = "type" <=> (p = 1 \/ e[p - 1] = Eot)
  <2>1. CASE p = 1
    BY <1>7, <2>1, UnitFacts
  <2>2. CASE p = 2
    BY <1>7, <2>2, UnitFacts
  <2>3. CASE p = len + 3
    <3>1. p - 1 = len + 2 /\ len \in 1 .. len
      BY <1>1, <2>3
    <3> QED BY <1>1, <1>6, <1>7, <2>3, <3>1, UnitFacts
  <2>4. CASE p \in 3 .. len + 2
    <3>1. p - 2 \in 1 .. len /\ (p - 2) + 2 = p
      BY <1>1, <2>4
    <3>2. e[p] = Unit("text", id)
      BY <1>7, <3>1
    <3>3. p = 3 \/ (p - 3 \in 1 .. len /\ (p - 3) + 2 = p - 1)
      BY <1>1, <2>4
    <3>4. e[p - 1] \in {Unit("text", id), Unit("names", id)}
      BY <1>7, <3>3
    <3> QED BY <2>4, <3>2, <3>4, UnitFacts
  <2>5. p \in 1 .. len + 3
    BY <1>6
  <2> QED BY <1>1, <2>1, <2>2, <2>3, <2>4, <2>5
<1>10. ASSUME NEW p \in DOMAIN e, e[p].kind = "type" PROVE p = 1
  <2>1. CASE p = 2
    BY <1>7, <1>10, <2>1, UnitFacts
  <2>2. CASE p = len + 3
    BY <1>6, <1>10, <2>2, UnitFacts
  <2>3. CASE p \in 3 .. len + 2
    <3>1. p - 2 \in 1 .. len /\ (p - 2) + 2 = p
      BY <1>1, <2>3
    <3> QED BY <1>7, <1>10, <3>1, UnitFacts
  <2>4. p \in 1 .. len + 3
    BY <1>6
  <2> QED BY <1>1, <2>1, <2>2, <2>3, <2>4
<1>11. WholeMsgs(e, T)
  BY <1>6, <1>8, <1>9, <1>10 DEF WholeMsgs
<1> QED BY <1>11 DEF e, m

\* What was sent goes on where it was sent to.
LEMMA WholeConcat ==
  ASSUME NEW T, NEW s, WholeMsgs(s, T), s # <<>> => s[Len(s)] = Eot, NEW e, WholeMsgs(e, T)
  PROVE  WholeMsgs(s \o e, T)
<1> DEFINE r == s \o e
           n == Len(s)
<1>1. s \in Seq(Units) /\ e \in Seq(Units)
  BY DEF WholeMsgs
<1>2. n \in Nat /\ Len(e) \in Nat /\ DOMAIN s = 1 .. n /\ DOMAIN e = 1 .. Len(e)
  BY <1>1
<1>3. /\ r \in Seq(Units) /\ DOMAIN r = 1 .. n + Len(e)
      /\ \A k \in 1 .. n : r[k] = s[k]
      /\ \A k \in 1 .. Len(e) : r[n + k] = e[k]
  BY <1>1
<1>4. n > 0 => s[n] = Eot
  BY <1>1
<1> HIDE DEF r, n
<1>5. ASSUME NEW p \in 1 .. n
      PROVE  /\ r[p].kind = "type" <=> (p = 1 \/ r[p - 1] = Eot)
             /\ r[p].kind = "type" => WholeAt(r, p, T)
  <2>1. p \in DOMAIN s /\ r[p] = s[p] /\ p \in Nat
    BY <1>2, <1>3
  <2>2. p # 1 => r[p - 1] = s[p - 1]
    BY <1>2, <1>3
  <2>3. ASSUME WholeAt(s, p, T) PROVE WholeAt(r, p, T)
    <3> DEFINE id == s[p].id
               len == Length(id, T)
    <3>1. /\ len \in Nat /\ p + 1 + len + 1 \in DOMAIN s /\ s[p + 1] = Unit("names", id)
          /\ \A k \in 1 .. len : s[p + 1 + k] = Unit("text", id)
          /\ s[p + 1 + len + 1] = Eot
      BY <2>3 DEF WholeAt
    <3>2. id = r[p].id
      BY <2>1
    <3> HIDE DEF len, id
    <3>3. p + 1 \in 1 .. n /\ p + 1 + len + 1 \in 1 .. n /\ p + 1 + len + 1 \in 1 .. n + Len(e)
          /\ \A k \in 1 .. len : p + 1 + k \in 1 .. n
      BY <1>2, <2>1, <3>1
    <3>4. /\ r[p + 1] = Unit("names", id) /\ r[p + 1 + len + 1] = Eot
          /\ \A k \in 1 .. len : r[p + 1 + k] = Unit("text", id)
      BY <1>3, <3>1, <3>3
    <3> QED BY <1>3, <3>1, <3>2, <3>3, <3>4 DEF WholeAt, len
  <2> QED BY <2>1, <2>2, <2>3 DEF WholeMsgs
<1>6. ASSUME NEW q \in 1 .. Len(e)
      PROVE  /\ r[n + q].kind = "type" <=> (n + q = 1 \/ r[n + q - 1] = Eot)
             /\ r[n + q].kind = "type" => WholeAt(r, n + q, T)
  <2>1. q \in DOMAIN e /\ r[n + q] = e[q] /\ q \in Nat /\ q > 0
    BY <1>2, <1>3
  <2>2. q # 1 => r[n + q - 1] = e[q - 1] /\ n + q # 1
    <3>1. q # 1 => q - 1 \in 1 .. Len(e) /\ n + q - 1 = n + (q - 1) /\ n + q # 1
      BY <1>2
    <3> QED BY <1>3, <3>1
  <2>3. q = 1 => e[q].kind = "type"
    BY <2>1 DEF WholeMsgs
  <2>4. q = 1 => n + q = 1 \/ r[n + q - 1] = Eot
    <3>1. q = 1 /\ n # 0 => n \in 1 .. n /\ n + q - 1 = n
      BY <1>2
    <3> QED BY <1>2, <1>3, <1>4, <3>1
  <2>5. e[q].kind = "type" <=> (q = 1 \/ e[q - 1] = Eot)
    BY <2>1 DEF WholeMsgs
  <2>6. ASSUME WholeAt(e, q, T) PROVE WholeAt(r, n + q, T)
    <3> DEFINE id == e[q].id
               len == Length(id, T)
    <3>1. /\ len \in Nat /\ q + 1 + len + 1 \in DOMAIN e /\ e[q + 1] = Unit("names", id)
          /\ \A k \in 1 .. len : e[q + 1 + k] = Unit("text", id)
          /\ e[q + 1 + len + 1] = Eot
      BY <2>6 DEF WholeAt
    <3>2. id = r[n + q].id
      BY <2>1
    <3> HIDE DEF len, id
    <3>3. /\ q + 1 \in 1 .. Len(e) /\ q + 1 + len + 1 \in 1 .. Len(e)
          /\ \A k \in 1 .. len : q + 1 + k \in 1 .. Len(e)
      BY <1>2, <2>1, <3>1
    <3>4. /\ r[n + (q + 1)] = Unit("names", id) /\ r[n + (q + 1 + len + 1)] = Eot
          /\ \A k \in 1 .. len : r[n + (q + 1 + k)] = Unit("text", id)
      BY <1>3, <3>1, <3>3
    <3>5. /\ n + q + 1 = n + (q + 1) /\ n + q + 1 + len + 1 = n + (q + 1 + len + 1)
          /\ n + q + 1 + len + 1 \in 1 .. n + Len(e)
          /\ \A k \in 1 .. len : n + q + 1 + k = n + (q + 1 + k)
      <4>1. n \in Nat /\ q \in Nat /\ q > 0 /\ len \in Nat /\ Len(e) \in Nat /\ q + 1 + len + 1 <= Len(e)
        BY <1>2, <2>1, <3>1, <3>3
      <4> QED BY <4>1
    <3> QED BY <1>3, <3>1, <3>2, <3>4, <3>5 DEF WholeAt, len
  <2> QED BY <2>1, <2>2, <2>3, <2>4, <2>5, <2>6 DEF WholeMsgs
<1>7. ASSUME NEW p \in DOMAIN r
      PROVE  /\ r[p].kind = "type" <=> (p = 1 \/ r[p - 1] = Eot)
             /\ r[p].kind = "type" => WholeAt(r, p, T)
  <2>1. p \in 1 .. n \/ (p - n \in 1 .. Len(e) /\ p = n + (p - n))
    BY <1>2, <1>3
  <2>2. CASE p \in 1 .. n
    BY <1>5, <2>2
  <2>3. ASSUME NEW q \in 1 .. Len(e), p = n + q
        PROVE  /\ r[p].kind = "type" <=> (p = 1 \/ r[p - 1] = Eot)
               /\ r[p].kind = "type" => WholeAt(r, p, T)
    <3>1. n + q - 1 = p - 1
      BY <1>2, <2>3
    <3> QED BY <1>6, <2>3, <3>1, Zenon
  <2> QED BY <2>1, <2>2, <2>3
<1> QED BY <1>3, <1>7 DEF WholeMsgs, r

\* A read that ends with EOT takes whole messages and leaves whole messages.
LEMMA WholeFirst ==
  ASSUME NEW T, NEW s, WholeMsgs(s, T), NEW j \in 1 .. Len(s), s[j] = Eot
  PROVE  WholeMsgs(SubSeq(s, 1, j), T)
<1> DEFINE f == SubSeq(s, 1, j)
           n == Len(s)
<1>1. s \in Seq(Units) /\ n \in Nat /\ DOMAIN s = 1 .. n /\ j \in Nat /\ j > 0 /\ j <= n
  BY DEF WholeMsgs
<1>2. f \in Seq(Units) /\ DOMAIN f = 1 .. j /\ \A k \in 1 .. j : f[k] = s[k]
  <2>1. f \in Seq(Units) /\ Len(f) = j + 1 - 1 /\ \A k \in 1 .. j + 1 - 1 : f[k] = s[k + 1 - 1]
    <3>1. 1 \in 1 .. Len(s) + 1 /\ j \in 0 .. Len(s) /\ 1 <= j + 1
      BY <1>1
    <3> QED BY <1>1, <3>1, SubFacts
  <2> HIDE DEF f
  <2>2. j + 1 - 1 = j /\ \A k \in 1 .. j : k + 1 - 1 = k
    BY <1>1
  <2> QED BY <2>1, <2>2
<1> HIDE DEF f, n
<1>3. ASSUME NEW p \in DOMAIN f, WholeAt(s, p, T), s[p].kind = "type" PROVE WholeAt(f, p, T)
  <2> DEFINE id == s[p].id
             len == Length(id, T)
  <2>1. /\ len \in Nat /\ p + 1 + len + 1 \in DOMAIN s /\ s[p + 1] = Unit("names", id)
        /\ \A k \in 1 .. len : s[p + 1 + k] = Unit("text", id)
        /\ s[p + 1 + len + 1] = Eot
    BY <1>3 DEF WholeAt
  <2>2. id = f[p].id /\ p \in Nat /\ p > 0 /\ p <= j /\ id \in Ids
    BY <1>1, <1>2, <1>3, UnitFacts
  <2> HIDE DEF len, id
  <2>3. j # p /\ j # p + 1 /\ \A k \in 1 .. len : j # p + 1 + k
    BY <1>3, <2>1, <2>2, UnitFacts
  <2>4. p + 1 + len + 1 <= j
    <3>1. ASSUME j < p + 1 + len + 1 PROVE FALSE
      <4>1. j = p \/ j = p + 1 \/ (j - p - 1 \in 1 .. len /\ j = p + 1 + (j - p - 1))
        <5>1. j \in Nat /\ p \in Nat /\ p <= j /\ len \in Nat /\ j < p + 1 + len + 1
          BY <1>1, <2>1, <2>2, <3>1
        <5> QED BY <5>1
      <4> QED BY <2>3, <4>1
    <3> QED BY <1>1, <2>1, <2>2, <3>1
  <2>5. p + 1 \in 1 .. j /\ p + 1 + len + 1 \in 1 .. j /\ \A k \in 1 .. len : p + 1 + k \in 1 .. j
    BY <1>1, <2>1, <2>2, <2>4
  <2> QED BY <1>2, <2>1, <2>2, <2>5 DEF WholeAt, len
<1>4. ASSUME NEW p \in DOMAIN f
      PROVE  /\ f[p].kind = "type" <=> (p = 1 \/ f[p - 1] = Eot)
             /\ f[p].kind = "type" => WholeAt(f, p, T)
  <2>1. p \in DOMAIN s /\ f[p] = s[p]
    BY <1>1, <1>2
  <2>2. p # 1 => f[p - 1] = s[p - 1]
    BY <1>1, <1>2
  <2> QED BY <1>3, <2>1, <2>2 DEF WholeMsgs
<1> QED BY <1>2, <1>4 DEF WholeMsgs, f

ShiftedWhole(n, j, p, q, len) ==
  /\ p + 1 \in 1 .. n - j /\ p + 1 + len + 1 \in 1 .. n - j /\ \A k \in 1 .. len : p + 1 + k \in 1 .. n - j
  /\ (p + 1) + j = q + 1 /\ (p + 1 + len + 1) + j = q + 1 + len + 1
  /\ \A k \in 1 .. len : (p + 1 + k) + j = q + 1 + k

LEMMA ShiftWhole ==
  ASSUME NEW n \in Nat, NEW j \in Nat, NEW p \in Nat, p > 0, NEW len \in Nat, (p + j) + 1 + len + 1 <= n
  PROVE  ShiftedWhole(n, j, p, p + j, len)
BY DEF ShiftedWhole

LEMMA WholeRest ==
  ASSUME NEW T, NEW s, WholeMsgs(s, T), NEW j \in 1 .. Len(s), s[j] = Eot
  PROVE  WholeMsgs(SubSeq(s, j + 1, Len(s)), T)
<1> DEFINE g == SubSeq(s, j + 1, Len(s))
           n == Len(s)
<1>1. s \in Seq(Units) /\ n \in Nat /\ DOMAIN s = 1 .. n /\ j \in Nat /\ j > 0 /\ j <= n
  BY DEF WholeMsgs
<1>2. g \in Seq(Units) /\ DOMAIN g = 1 .. n - j /\ \A k \in 1 .. n - j : g[k] = s[k + j] /\ k + j \in 1 .. n
  <2>1. /\ g \in Seq(Units) /\ Len(g) = n + 1 - (j + 1)
        /\ \A k \in 1 .. n + 1 - (j + 1) : g[k] = s[k + (j + 1) - 1] /\ k + (j + 1) - 1 \in 1 .. n
    <3>1. j + 1 \in 1 .. Len(s) + 1 /\ n \in 0 .. Len(s) /\ j + 1 <= n + 1
      BY <1>1
    <3> QED BY <1>1, <3>1, SubFacts
  <2> HIDE DEF g, n
  <2> DEFINE d == n + 1 - (j + 1)
  <2>2. d = n - j /\ d \in Nat /\ \A k \in 1 .. d : k + (j + 1) - 1 = k + j
    BY <1>1
  <2>3. g \in Seq(Units) /\ Len(g) = d /\ \A k \in 1 .. d : g[k] = s[k + (j + 1) - 1] /\ k + (j + 1) - 1 \in 1 .. n
    BY <2>1
  <2> HIDE DEF d
  <2>4. g \in Seq(Units) /\ Len(g) = d /\ \A k \in 1 .. d : g[k] = s[k + j] /\ k + j \in 1 .. n
    BY <2>2, <2>3
  <2> QED BY <2>2, <2>4
<1> HIDE DEF g, n
<1>3. ASSUME NEW p \in DOMAIN g, WholeAt(s, p + j, T) PROVE WholeAt(g, p, T)
  <2> DEFINE q == p + j
             id == s[q].id
             len == Length(id, T)
  <2>1. /\ len \in Nat /\ q + 1 + len + 1 \in DOMAIN s /\ s[q + 1] = Unit("names", id)
        /\ \A k \in 1 .. len : s[q + 1 + k] = Unit("text", id)
        /\ s[q + 1 + len + 1] = Eot
    BY <1>3 DEF WholeAt
  <2>2. id = g[p].id /\ p \in Nat /\ p > 0 /\ q = p + j
    BY <1>1, <1>2
  <2> HIDE DEF len, id, q
  <2>3. /\ p + 1 \in 1 .. n - j /\ p + 1 + len + 1 \in 1 .. n - j /\ \A k \in 1 .. len : p + 1 + k \in 1 .. n - j
        /\ (p + 1) + j = q + 1 /\ (p + 1 + len + 1) + j = q + 1 + len + 1
        /\ \A k \in 1 .. len : (p + 1 + k) + j = q + 1 + k
    <3>1. q + 1 + len + 1 <= n /\ n \in Nat /\ j \in Nat /\ p \in Nat /\ p > 0 /\ len \in Nat /\ q = p + j /\ q \in Nat
      BY <1>1, <2>1, <2>2
    <3>2. (p + j) + 1 + len + 1 <= n
      BY <3>1
    <3>3. ShiftedWhole(n, j, p, p + j, len)
      BY <3>1, <3>2, ShiftWhole
    <3> QED BY <2>2, <3>3 DEF ShiftedWhole
  <2>4. /\ g[p + 1] = Unit("names", id) /\ g[p + 1 + len + 1] = Eot
        /\ \A k \in 1 .. len : g[p + 1 + k] = Unit("text", id)
    BY <1>2, <2>1, <2>3
  <2> QED BY <1>2, <2>1, <2>2, <2>3, <2>4 DEF WholeAt, len
<1>4. ASSUME NEW p \in DOMAIN g
      PROVE  /\ g[p].kind = "type" <=> (p = 1 \/ g[p - 1] = Eot)
             /\ g[p].kind = "type" => WholeAt(g, p, T)
  <2>1. p + j \in DOMAIN s /\ g[p] = s[p + j] /\ p + j # 1
    BY <1>1, <1>2
  <2>2. p # 1 => g[p - 1] = s[(p + j) - 1]
    <3>1. p # 1 => p - 1 \in 1 .. n - j /\ (p - 1) + j = (p + j) - 1
      BY <1>1, <1>2
    <3> QED BY <1>2, <3>1
  <2>3. p = 1 => s[(p + j) - 1] = Eot
    <3>1. p = 1 => (p + j) - 1 = j
      BY <1>1
    <3> QED BY <3>1
  <2>4. s[p + j].kind = "type" <=> (s[(p + j) - 1] = Eot)
    BY <2>1 DEF WholeMsgs
  <2>5. s[p + j].kind = "type" => WholeAt(s, p + j, T)
    BY <2>1 DEF WholeMsgs
  <2> QED BY <1>3, <2>1, <2>2, <2>3, <2>4, <2>5
<1> QED BY <1>2, <1>4 DEF WholeMsgs, g

\* A read that brings one message brings all of it: the whole text is shown
\* by who it is for, and passed on by the others.
WholeRead(piece, T) ==
  /\ Parts(piece) = Length(piece[1].id, T)
  /\ Append(Forwarded(piece), Eot) = piece
  /\ \A k \in DOMAIN piece : piece[k].kind = "type" => k = 1
  /\ piece[Len(piece)] = Eot

LEMMA WholePiece ==
  ASSUME NEW T \in Histories, NEW piece, StretchOK(piece, T), WholeMsgs(piece, T), Whole(piece)
  PROVE  WholeRead(piece, T)
<1> DEFINE id == piece[1].id
           len == Length(id, T)
           n == Len(piece)
<1>1. Headed(piece) /\ \A k \in DOMAIN piece : piece[k].kind = "EOT" <=> k = n
  BY DEF Whole
<1>2. id \in Ids /\ Known(id, T) /\ piece[1] = Unit("type", id) /\ 1 \in DOMAIN piece
  BY <1>1, HeadedFacts
<1>3. len \in 1 .. BufSize - 3 /\ len \in Nat
  BY <1>2, LengthFacts
<1>4. piece \in Seq(Units) /\ n \in Nat /\ DOMAIN piece = 1 .. n /\ n > 1
  BY <1>1 DEF WholeMsgs, Headed
<1>5. WholeAt(piece, 1, T)
  BY <1>2, UnitFacts DEF WholeMsgs
<1>6. /\ len + 3 \in DOMAIN piece /\ piece[2] = Unit("names", id)
      /\ \A k \in 1 .. len : piece[k + 2] = Unit("text", id)
      /\ piece[len + 3] = Eot
  <2>1. /\ 1 + 1 + len + 1 \in DOMAIN piece /\ piece[1 + 1] = Unit("names", id)
        /\ \A k \in 1 .. len : piece[1 + 1 + k] = Unit("text", id)
        /\ piece[1 + 1 + len + 1] = Eot
    BY <1>5 DEF WholeAt
  <2> HIDE DEF len, id
  <2>2. 1 + 1 + len + 1 = len + 3 /\ 1 + 1 = 2 /\ \A k \in 1 .. len : 1 + 1 + k = k + 2
    BY <1>3
  <2> QED BY <2>1, <2>2
<1> HIDE DEF id, len, n
<1>7. n = len + 3
  BY <1>1, <1>6, UnitFacts
<1>8. \A k \in 1 .. n : piece[k] = Eot <=> k = n
  BY <1>1, <1>4, UnitFacts
<1>9. MsgLen(piece) = len + 2
  <2>1. /\ FirstEot(piece) \in 1 .. BufSize
        /\ FirstEot(piece) < BufSize => FirstEot(piece) \in DOMAIN piece
        /\ \A k \in DOMAIN piece : k < FirstEot(piece) => piece[k] # Eot
    BY <1>4, FirstEotFacts
  <2>2. FirstEot(piece) < BufSize => piece[FirstEot(piece)] = Eot
    <3> DEFINE ends == {k \in DOMAIN piece : k < BufSize /\ piece[k] = Eot}
    <3>1. FirstEot(piece) = IF ends = {} THEN BufSize ELSE Min(ends)
      BY DEF FirstEot
    <3>2. ends \in SUBSET Nat
      BY <1>4
    <3>3. ends # {} => Min(ends) \in ends
      BY <3>2, LeastElement
    <3>4. ends = {} => ~(FirstEot(piece) < BufSize)
      BY <3>1, SizesAssumption
    <3> QED BY <3>1, <3>3, <3>4
  <2> DEFINE fe == FirstEot(piece)
  <2>3. fe \in Nat /\ fe <= BufSize /\ BufSize \in Nat
    BY <2>1, SizesAssumption
  <2>4. fe < BufSize => fe = n
    BY <1>4, <1>8, <2>1, <2>2
  <2>5. ~(n < fe)
    BY <1>4, <1>8, <2>1
  <2>6. MsgLen(piece) = fe - 1
    BY DEF MsgLen
  <2> HIDE DEF fe
  <2>7. n <= BufSize
    BY <1>3, <1>7, <2>3
  <2>8. fe = n
    BY <1>4, <2>3, <2>4, <2>5, <2>7
  <2> QED BY <1>3, <1>7, <2>6, <2>8
<1>10. Parts(piece) = len
  <2> DEFINE S == {k \in DOMAIN piece : k <= MsgLen(piece) /\ piece[k].kind = "text"}
  <2>1. Parts(piece) = Cardinality(S)
    BY DEF Parts
  <2>2. S = 3 .. len + 2
    <3>1. ASSUME NEW k \in DOMAIN piece, k <= len + 2, piece[k].kind = "text" PROVE k \in 3 .. len + 2
      <4>1. k # 1 /\ k # 2
        BY <1>2, <1>6, <3>1, UnitFacts
      <4> QED BY <1>3, <1>4, <3>1, <4>1
    <3>2. ASSUME NEW k \in 3 .. len + 2 PROVE k \in DOMAIN piece /\ k <= len + 2 /\ piece[k].kind = "text"
      <4>1. k - 2 \in 1 .. len /\ (k - 2) + 2 = k /\ k \in 1 .. n /\ k <= len + 2
        BY <1>3, <1>7
      <4>2. piece[k] = Unit("text", id)
        BY <1>6, <4>1
      <4> QED BY <1>2, <1>4, <4>1, <4>2, UnitFacts
    <3> QED BY <1>9, <3>1, <3>2
  <2>3. Cardinality(3 .. len + 2) = IF 3 > len + 2 THEN 0 ELSE (len + 2) - 3 + 1
    BY <1>3, FS_Interval
  <2> HIDE DEF S
  <2> QED BY <1>3, <2>1, <2>2, <2>3
<1>11. Append(Forwarded(piece), Eot) = piece
  <2> DEFINE f == Forwarded(piece)
             e == Append(f, Eot)
             l2 == len + 2
  <2>1. f = [k \in 1 .. l2 |-> IF k <= n THEN piece[k] ELSE Pad]
    BY <1>9 DEF Forwarded, n
  <2>2. l2 \in Nat /\ n = l2 + 1 /\ \A k \in 1 .. l2 : k <= n /\ k \in 1 .. n
    BY <1>3, <1>7
  <2> HIDE DEF l2, f
  <2>3. f = [k \in 1 .. l2 |-> piece[k]]
    BY <2>1, <2>2
  <2>4. \A k \in 1 .. l2 : piece[k] \in Units
    BY <1>4, <2>2
  <2>5. f \in Seq(Units) /\ Len(f) = l2 /\ \A k \in 1 .. l2 : f[k] = piece[k]
    BY <2>2, <2>3, <2>4
  <2>6. /\ e \in Seq(Units) /\ Len(e) = l2 + 1 /\ e[l2 + 1] = Eot
        /\ \A k \in 1 .. l2 : e[k] = f[k]
    BY <2>2, <2>5, UnitFacts
  <2> HIDE DEF e
  <2>7. \A k \in 1 .. Len(e) : e[k] = piece[k]
    <3>1. \A k \in 1 .. l2 + 1 : k \in 1 .. l2 \/ k = l2 + 1
      BY <2>2
    <3>2. piece[l2 + 1] = Eot
      BY <1>4, <1>8, <2>2
    <3> QED BY <2>5, <2>6, <3>1, <3>2
  <2>8. Len(e) = Len(piece)
    BY <2>2, <2>6 DEF n
  <2>9. e = piece
    BY <1>4, <2>6, <2>7, <2>8, SeqEqual
  <2> QED BY <2>9 DEF e, f
<1>12. ASSUME NEW k \in DOMAIN piece, piece[k].kind = "type" PROVE k = 1
  <2>1. k = 1 \/ piece[k - 1] = Eot
    BY <1>12 DEF WholeMsgs
  <2>2. k # 1 => k - 1 \in 1 .. n /\ k - 1 # n
    BY <1>4
  <2> QED BY <1>8, <2>1, <2>2
<1>13. piece[Len(piece)] = Eot
  <2>1. n \in 1 .. n
    BY <1>4
  <2>2. piece[n] = Eot
    BY <1>8, <2>1
  <2> QED BY <2>2 DEF n
<1> QED BY <1>10, <1>11, <1>12, <1>13 DEF WholeRead, len, id

-----------------------------------------------------------------------------
(***************************************************************************)
(* While no read has cut or merged, no queue or tab was full and no route  *)
(* was missing, everything on the way is whole and every text is somewhere.*)
(***************************************************************************)
FullText(t, n, T) == t = Notice \/ t.id[1] = n \/ t.parts = Length(t.id, T)

WholePipes == \A l \in Link : WholeMsgs(Pipe(l), typed)
WholePackets ==
  \A n \in Node : \A k \in DOMAIN sendq[n] :
    sendq[n][k].to \in Node \ {n} /\ WholeMsgs(Append(sendq[n][k].msg, Eot), typed)
WholeNews == \A n \in Node : \A k \in DOMAIN uiq[n] : FullText(uiq[n][k].text, n, typed)
WholeTabs ==
  \A n \in Node : \A i \in DOMAIN tabs[n] : \A k \in DOMAIN tabs[n][i].msgs :
    FullText(tabs[n][i].msgs[k], n, typed)
WholeInv == WholePipes /\ WholePackets /\ WholeNews /\ WholeTabs

Present == \A id \in Ids : Known(id, typed) => Occurs(World, id)

\* Nobody writes to himself: he has no tab of his own name.
NotSelf == \A n \in Node : typed[<<n, n>>] = <<>>

\* The server of a node reads what others have sent.
ReadsOthers == \A n \in Node : server[n].from # n

AccountInv == OrderInv /\ Once(World) /\ NotSelf /\ ReadsOthers /\ (intact => WholeInv /\ Present)

-----------------------------------------------------------------------------
\* An element more at the end of a queue.
Longer(q, x, r, S) ==
  /\ r \in Seq(S) /\ Len(q) + 1 \in DOMAIN r /\ r[Len(q) + 1] = x
  /\ \A k \in DOMAIN q : k \in DOMAIN r /\ r[k] = q[k]
  /\ \A k \in DOMAIN r : k \in DOMAIN q \/ k = Len(q) + 1

LEMMA AppendLonger == ASSUME NEW S, NEW q \in Seq(S), NEW x \in S PROVE Longer(q, x, Append(q, x), S)
<1> DEFINE r == Append(q, x)
<1>1. Len(q) \in Nat /\ DOMAIN q = 1 .. Len(q) /\ r \in Seq(S) /\ Len(r) = Len(q) + 1
  OBVIOUS
<1>2. DOMAIN r = 1 .. Len(q) + 1 /\ \A k \in 1 .. Len(q) + 1 : r[k] = IF k = Len(q) + 1 THEN x ELSE q[k]
  OBVIOUS
<1> HIDE DEF r
<1>3. \A k \in DOMAIN q : k # Len(q) + 1 /\ k \in DOMAIN r
  BY <1>1, <1>2
<1>4. \A k \in DOMAIN r : k \in DOMAIN q \/ k = Len(q) + 1
  BY <1>1, <1>2
<1>5. Len(q) + 1 \in DOMAIN r
  BY <1>1, <1>2
<1>6. Longer(q, x, r, S)
  BY <1>1, <1>2, <1>3, <1>4, <1>5 DEF Longer
<1> QED BY <1>6 DEF r

\* What stays when tabs only grow, and when pipes and queues stay.
TabsKept ==
  \A m \in Node : \A i \in DOMAIN tabs[m] :
    /\ i \in DOMAIN tabs'[m] /\ tabs'[m][i].user = tabs[m][i].user
    /\ \A k \in DOMAIN tabs[m][i].msgs :
         k \in DOMAIN tabs'[m][i].msgs /\ tabs'[m][i].msgs[k] = tabs[m][i].msgs[k]

TabsGain(n, t) ==
  \A m \in Node : \A i \in DOMAIN tabs'[m] : \A k \in DOMAIN tabs'[m][i].msgs :
    \/ m = n /\ tabs'[m][i].msgs[k] = t
    \/ i \in DOMAIN tabs[m] /\ k \in DOMAIN tabs[m][i].msgs /\ tabs'[m][i].msgs[k] = tabs[m][i].msgs[k]

LEMMA StillThere ==
  /\ TabsKept => \A id \in Local : \A k : InTab(World, id, k) => InTab(World', id, k)
  /\ uiq' = uiq => \A id, k : InUi(World, id, k) => InUi(World', id, k)
  /\ sendq' = sendq => \A id, a, k : InSend(World, id, a, k) => InSend(World', id, a, k)
  /\ (\A l \in Link : Pipe(l)' = Pipe(l)) => \A id, l, k : InPipe(World, id, l, k) => InPipe(World', id, l, k)
<1>1. ASSUME TabsKept, NEW id \in Local, NEW k, InTab(World, id, k) PROVE InTab(World', id, k)
  <2>1. id[2] \in Node
    BY DEF Local
  <2>2. PICK i \in DOMAIN tabs[id[2]] :
          tabs[id[2]][i].user = id[1] /\ k \in DOMAIN tabs[id[2]][i].msgs /\ tabs[id[2]][i].msgs[k].id = id
    BY <1>1, WorldNow DEF InTab
  <2>3. /\ i \in DOMAIN tabs'[id[2]] /\ tabs'[id[2]][i].user = id[1] /\ k \in DOMAIN tabs'[id[2]][i].msgs
        /\ tabs'[id[2]][i].msgs[k].id = id
    BY <1>1, <2>1, <2>2 DEF TabsKept
  <2> QED BY <2>3, WorldNow DEF InTab
<1>2. ASSUME uiq' = uiq, NEW id, NEW k, InUi(World, id, k) PROVE InUi(World', id, k)
  BY <1>2, WorldNow DEF InUi
<1>3. ASSUME sendq' = sendq, NEW id, NEW a, NEW k, InSend(World, id, a, k) PROVE InSend(World', id, a, k)
  BY <1>3, WorldNow DEF InSend
<1>4. ASSUME \A l \in Link : Pipe(l)' = Pipe(l), NEW id, NEW l, NEW k, InPipe(World, id, l, k)
      PROVE  InPipe(World', id, l, k)
  BY <1>4, WorldNow DEF InPipe
<1> QED BY <1>1, <1>2, <1>3, <1>4

LEMMA TabsSame == tabs' = tabs => TabsKept /\ \A n, t : TabsGain(n, t)
BY DEF TabsKept, TabsGain

LEMMA WholeTabsGain ==
  ASSUME WholeTabs, NEW n \in Node, NEW t, TabsGain(n, t), FullText(t, n, typed), typed' = typed
  PROVE  WholeTabs'
BY DEF WholeTabs, TabsGain

\* Send passes a whole message on.
LEMMA SendKeeps ==
  ASSUME TypeInv, WholeInv, Present, NEW n \in Node, Send(n)
  PROVE  WholeInv' /\ Present'
<1> DEFINE q == Head(sendq[n])
           mine == sendq[n]
           e == Append(q.msg, Eot)
           l0 == <<n, q.to>>
<1>1. /\ q \in Packets /\ MsgOK(q.msg, typed) /\ mine # <<>> /\ sendq' = [sendq EXCEPT ![n] = Tail(mine)]
      /\ \A l \in Link : Pipe(l)' = IF l = l0 THEN Pipe(l) \o e ELSE Pipe(l)
  BY SendEffect DEF SendMoves
<1>2. tabs' = tabs /\ uiq' = uiq /\ typed' = typed
  BY DEF Send, screens
<1>3. sendq \in [Node -> Seq(Packets)] /\ mine \in Seq(Packets)
  BY DEF TypeInv, WireTypes
<1>4. /\ 1 \in DOMAIN mine /\ q = mine[1]
      /\ \A k \in DOMAIN Tail(mine) : k + 1 \in DOMAIN mine /\ Tail(mine)[k] = mine[k + 1]
      /\ \A k \in DOMAIN mine : k # 1 => k - 1 \in DOMAIN Tail(mine) /\ Tail(mine)[k - 1] = mine[k] /\ k - 1 \in Places1
  <2>1. Len(mine) \in Nat /\ Len(mine) > 0 /\ DOMAIN mine = 1 .. Len(mine)
    BY <1>1, <1>3
  <2>2. Tail(mine) \in Seq(Packets) /\ Len(Tail(mine)) = Len(mine) - 1
    BY <1>1, <1>3
  <2>3. \A k \in 1 .. Len(mine) - 1 : Tail(mine)[k] = mine[k + 1]
    BY <1>1, <1>3
  <2> DEFINE c == Len(mine)
             r == Tail(mine)
  <2>4. DOMAIN r = 1 .. c - 1 /\ \A k \in 1 .. c - 1 : r[k] = mine[k + 1]
    BY <2>1, <2>2, <2>3
  <2>5. q = mine[1] /\ c \in Nat /\ c > 0 /\ DOMAIN mine = 1 .. c
    BY <1>1, <1>3, <2>1
  <2> HIDE DEF c, r, mine, q
  <2>6. \A k \in DOMAIN r : k + 1 \in DOMAIN mine /\ r[k] = mine[k + 1]
    BY <2>4, <2>5
  <2>7. ASSUME NEW k \in DOMAIN mine, k # 1 PROVE k - 1 \in DOMAIN r /\ r[k - 1] = mine[k] /\ k - 1 \in Places1
    <3>1. k - 1 \in 1 .. c - 1 /\ (k - 1) + 1 = k /\ k - 1 \in Nat \ {0}
      BY <2>5, <2>7
    <3> QED BY <2>4, <3>1 DEF Places1
  <2> QED BY <2>5, <2>6, <2>7 DEF r
<1>5. q.to \in Node \ {n} /\ WholeMsgs(e, typed)
  <2>1. mine[1].to \in Node \ {n} /\ WholeMsgs(Append(mine[1].msg, Eot), typed)
    BY <1>4 DEF WholeInv, WholePackets
  <2> QED BY <1>4, <2>1
<1>6. l0 \in Link
  BY <1>5 DEF Link
<1>7. \A l \in Link : StreamOK(Pipe(l), typed) /\ Pipe(l) \in Seq(Units)
  BY PipeFacts
<1> HIDE DEF q, e, l0
\* What is on the way stays whole.
<1>8. WholePipes'
  <2> SUFFICES ASSUME NEW l \in Link PROVE WholeMsgs(Pipe(l)', typed)
    BY <1>2 DEF WholePipes
  <2> DEFINE p == Pipe(l)
             r == Pipe(l)'
  <2>1. WholeMsgs(p, typed) /\ StreamOK(p, typed) /\ r = IF l = l0 THEN p \o e ELSE p
    BY <1>1, <1>7 DEF WholeInv, WholePipes
  <2> HIDE DEF p, r
  <2>2. WholeMsgs(p \o e, typed)
    BY <1>5, <2>1, WholeConcat DEF StreamOK
  <2>3. WholeMsgs(r, typed)
    BY <2>1, <2>2
  <2> QED BY <2>3 DEF r
<1>9. WholePackets'
  <2> SUFFICES ASSUME NEW a \in Node, NEW k \in DOMAIN sendq'[a]
               PROVE  sendq'[a][k].to \in Node \ {a} /\ WholeMsgs(Append(sendq'[a][k].msg, Eot), typed)
    BY <1>2 DEF WholePackets
  <2>1. CASE a = n
    <3>1. sendq'[n] = Tail(mine)
      BY <1>1, <1>3
    <3>2. k + 1 \in DOMAIN sendq[n] /\ sendq'[a][k] = sendq[n][k + 1]
      BY <1>4, <2>1, <3>1
    <3> QED BY <2>1, <3>2 DEF WholeInv, WholePackets
  <2>2. CASE a # n
    <3>1. sendq'[a] = sendq[a]
      BY <1>1, <1>3, <2>2
    <3> QED BY <3>1 DEF WholeInv, WholePackets
  <2> QED BY <2>1, <2>2
<1>10. WholeNews' /\ WholeTabs'
  BY <1>2 DEF WholeInv, WholeNews, WholeTabs
\* The head of the queue is in the pipe, the others are one place further.
<1>11. ASSUME NEW id \in Ids, NEW k \in Places1, NEW l \in Link, InPipe(World, id, l, k) PROVE InPipe(World', id, l, k)
  <2> DEFINE p == Pipe(l)
             r == Pipe(l)'
  <2>1. k \in DOMAIN p /\ p[k] = Unit("type", id) /\ p \in Seq(Units) /\ e \in Seq(Units)
    BY <1>5, <1>7, <1>11, WorldNow DEF InPipe, WholeMsgs
  <2>2. r = p \/ r = p \o e
    BY <1>1
  <2> HIDE DEF p, r
  <2>3. k \in DOMAIN r /\ r[k] = p[k]
    <3>1. CASE r = p
      BY <2>1, <3>1
    <3>2. CASE r = p \o e
      <4>1. Joined(p \o e, Units, p, e)
        BY <2>1, ConcatFacts
      <4>2. r \in Seq(Units) /\ Len(r) = Len(p) + Len(e) /\ \A i \in 1 .. Len(p) + Len(e) : r[i] = IF i <= Len(p) THEN p[i] ELSE e[i - Len(p)]
        BY <3>2, <4>1 DEF Joined
      <4>3. Len(p) \in Nat /\ Len(e) \in Nat /\ DOMAIN r = 1 .. Len(p) + Len(e) /\ k \in 1 .. Len(p)
        BY <2>1, <4>2
      <4>4. k \in 1 .. Len(p) + Len(e) /\ k <= Len(p)
        BY <4>3
      <4> QED BY <4>2, <4>3, <4>4
    <3> QED BY <2>2, <3>1, <3>2
  <2> QED BY <2>1, <2>3, WorldNow DEF InPipe, r
<1>12. ASSUME NEW id \in Ids, InSend(World, id, n, 1), NEW l \in Link, l = l0
       PROVE  \E k \in Places1 : InPipe(World', id, l, k)
  <2> DEFINE p == Pipe(l)
             r == Pipe(l)'
             k == Len(p) + 1
  <2>1. q.msg[1] = Unit("type", id)
    BY <1>4, <1>12, WorldNow DEF InSend
  <2>2. p \in Seq(Units) /\ r = p \o e /\ e \in Seq(Units)
    <3>1. r = p \o e
      BY <1>1, <1>12
    <3>2. p \in Seq(Units)
      BY <1>7
    <3>3. e \in Seq(Units)
      BY <1>5 DEF WholeMsgs
    <3> QED BY <3>1, <3>2, <3>3
  <2>3. Len(e) \in Nat /\ Len(e) > 0 /\ e[1] = q.msg[1]
    <3> DEFINE m == q.msg
    <3>1. m \in Seq(Units) /\ Len(m) > 0 /\ e = Append(m, Eot)
      BY <1>1 DEF MsgOK, StretchOK, e
    <3> HIDE DEF m
    <3>2. e[1] = m[1] /\ Len(e) = Len(m) + 1
      BY <3>1
    <3> QED BY <3>1, <3>2 DEF m
  <2> HIDE DEF p, r
  <2>4. Joined(r, Units, p, e)
    BY <2>2, ConcatFacts
  <2>5. Len(p) \in Nat /\ k \in 1 .. Len(p) + Len(e) /\ ~(k <= Len(p)) /\ k - Len(p) = 1 /\ k \in Places1
    BY <2>2, <2>3 DEF Places1
  <2> HIDE DEF k
  <2>6. r[k] = e[1] /\ DOMAIN r = 1 .. Len(p) + Len(e)
    BY <2>4, <2>5 DEF Joined
  <2>7. k \in DOMAIN r /\ r[k] = Unit("type", id)
    BY <2>1, <2>3, <2>5, <2>6
  <2>8. InPipe(World', id, l, k)
    BY <2>7, WorldNow DEF InPipe, r
  <2> QED BY <2>5, <2>8
<1>13. ASSUME NEW id \in Ids, NEW k \in Places1, NEW a \in Node, InSend(World, id, a, k), a # n \/ k # 1
       PROVE  \E i \in Places1 : InSend(World', id, a, i)
  <2>1. k \in DOMAIN sendq[a] /\ sendq[a][k].msg[1] = Unit("type", id)
    BY <1>13, WorldNow DEF InSend
  <2>2. CASE a = n
    <3>1. sendq'[n] = Tail(mine)
      BY <1>1, <1>3
    <3>2. k - 1 \in DOMAIN sendq'[a] /\ sendq'[a][k - 1] = sendq[a][k] /\ k - 1 \in Places1
      BY <1>4, <1>13, <2>1, <2>2, <3>1
    <3> QED BY <2>1, <3>2, WorldNow DEF InSend
  <2>3. CASE a # n
    <3>1. sendq'[a] = sendq[a]
      BY <1>1, <1>3, <2>3
    <3> QED BY <2>1, <3>1, WorldNow DEF InSend
  <2> QED BY <2>2, <2>3
<1>14. Present'
  <2> SUFFICES ASSUME NEW id \in Ids, Known(id, typed) PROVE Occurs(World', id)
    BY <1>2 DEF Present
  <2>1. PICK k \in Places1 : \/ id[2] \in Node /\ (InTab(World, id, k) \/ InUi(World, id, k))
                             \/ \E l \in Link : InPipe(World, id, l, k)
                             \/ \E a \in Node : InSend(World, id, a, k)
    BY DEF Present, Occurs
  <2>2. CASE id[2] \in Node /\ (InTab(World, id, k) \/ InUi(World, id, k))
    BY <1>2, <2>2, StillThere, TabsSame DEF Occurs, Local
  <2>3. CASE \E l \in Link : InPipe(World, id, l, k)
    BY <1>11, <2>3 DEF Occurs
  <2>4. ASSUME NEW a \in Node, InSend(World, id, a, k) PROVE Occurs(World', id)
    <3>1. CASE a = n /\ k = 1
      <4>1. \E l \in Link : l = l0
        BY <1>6
      <4> QED BY <1>12, <2>4, <3>1, <4>1 DEF Occurs
    <3>2. CASE ~(a = n /\ k = 1)
      BY <1>13, <2>4, <3>2 DEF Occurs
    <3> QED BY <3>1, <3>2
  <2> QED BY <2>1, <2>2, <2>3, <2>4
<1> QED BY <1>8, <1>9, <1>10, <1>14 DEF WholeInv

\* What a read hands on while nothing is lost.
Shows(n, piece) ==
  LET id == piece[1].id
  IN  /\ id[2] = n /\ sendq' = sendq
      /\ uiq' = [uiq EXCEPT ![n] = Append(uiq[n], [name |-> id[1], text |-> Text(id, Parts(piece))])]

PassesOn(n, piece) ==
  LET id == piece[1].id
      to == GetRouting(n, id[2])
  IN  /\ to # NoName /\ uiq' = uiq
      /\ sendq' = [sendq EXCEPT ![n] = Append(sendq[n], [to |-> to, msg |-> Forwarded(piece)])]

LEMMA HandleIntact ==
  ASSUME TypeInv, NEW n \in Node, NEW piece, StretchOK(piece, typed), Handle(n, piece), intact'
  PROVE  intact /\ Whole(piece) /\ (Shows(n, piece) \/ PassesOn(n, piece))
<1>1. CASE Headed(piece) /\ MsgChat(n, piece)
  <2>1. piece[2].id = piece[1].id
    BY <1>1, HeadedFacts
  <2> QED BY <1>1, <2>1 DEF MsgChat, PushUi, Push, Shows
<1>2. CASE Headed(piece) /\ Forward(n, piece)
  <2>1. piece[2].id = piece[1].id
    BY <1>2, HeadedFacts
  <2> QED BY <1>2, <2>1 DEF Forward, PushSend, Push, PassesOn, Forwarded
<1>3. CASE ~Headed(piece) /\ Misread(n, piece)
  BY <1>3 DEF Misread
<1> QED BY <1>1, <1>2, <1>3 DEF Handle

\* Read takes one whole message and hands it on.
LEMMA ReadKeeps ==
  ASSUME TypeInv, intact => WholeInv /\ Present, NEW n \in Node, NEW m \in Node \ {n}, Read(n, m), intact'
  PROVE  intact /\ WholeInv' /\ Present'
<1> DEFINE l0 == <<m, n>>
<1>1. /\ typed' = typed /\ tabs' = tabs
      /\ ReadWaits \/ \E j \in Nat : ReadTakes(n, m, j)
  BY ReadEffect
<1>2. l0 \in Link
  BY DEF Link
<1>3. CASE ReadWaits
  <2>1. intact /\ sendq' = sendq /\ uiq' = uiq /\ \A l \in Link : Pipe(l)' = Pipe(l)
    BY <1>3 DEF ReadWaits
  <2>2. WholeInv'
    BY <1>1, <2>1 DEF WholeInv, WholePipes, WholePackets, WholeNews, WholeTabs
  <2>3. ASSUME NEW id \in Ids, Known(id, typed) PROVE Occurs(World', id)
    <3>1. Occurs(World, id)
      BY <2>1, <2>3 DEF Present
    <3> QED BY <1>1, <2>1, <3>1, StillThere, TabsSame DEF Occurs, Local
  <2> QED BY <1>1, <2>1, <2>2, <2>3 DEF Present
<1>4. ASSUME NEW j \in Nat, ReadTakes(n, m, j) PROVE intact /\ WholeInv' /\ Present'
  <2> DEFINE p == Pipe(l0)
             piece == SubSeq(p, 1, j)
             rest == SubSeq(p, j + 1, Len(p))
             id0 == piece[1].id
             u == [name |-> id0[1], text |-> Text(id0, Parts(piece))]
             q == [to |-> GetRouting(n, id0[2]), msg |-> Forwarded(piece)]
  <2>1. /\ j \in 1 .. Len(p) /\ Pipe(l0)' = rest /\ Handle(n, piece)
        /\ \A l \in Link : l # l0 => Pipe(l)' = Pipe(l)
    BY <1>4 DEF ReadTakes
  <2>2. StreamOK(p, typed) /\ p \in Seq(Units)
    BY <1>2, PipeFacts
  <2>3. /\ StretchOK(piece, typed) /\ Len(piece) = j /\ Len(rest) = Len(p) - j
        /\ \A k \in 1 .. j : piece[k] = p[k]
        /\ \A k \in 1 .. Len(p) - j : rest[k] = p[k + j]
    BY <2>1, <2>2, CutOK
  <2>4. p = Pipe(l0) /\ piece = SubSeq(p, 1, j) /\ rest = SubSeq(p, j + 1, Len(p))
    OBVIOUS
  <2> HIDE DEF p, piece, rest
  <2>5. intact /\ Whole(piece) /\ (Shows(n, piece) \/ PassesOn(n, piece))
    BY <2>1, <2>3, HandleIntact
  <2>6. WholeInv /\ Present /\ WholeMsgs(p, typed)
    BY <1>2, <2>4, <2>5 DEF WholeInv, WholePipes
  <2>7. Headed(piece) /\ piece \in Seq(Units) /\ id0 \in Ids /\ Known(id0, typed) /\ piece[1] = Unit("type", id0)
    BY <2>3, <2>5, HeadedFacts DEF Whole, StretchOK
  <2>8. p[j] = Eot
    <3>1. j \in 1 .. j /\ j \in DOMAIN piece
      BY <2>1, <2>3, <2>7
    <3>2. piece[j].kind = "EOT" /\ piece[j] \in Units
      BY <2>3, <2>5, <2>7, <3>1 DEF Whole
    <3> QED BY <2>3, <3>1, <3>2, UnitFacts
  <2>9. WholeMsgs(piece, typed) /\ WholeMsgs(rest, typed)
    BY <2>1, <2>4, <2>6, <2>8, WholeFirst, WholeRest
  <2>10. WholeRead(piece, typed)
    BY <2>3, <2>5, <2>9, WholePiece DEF TypeInv
  <2>11. Parts(piece) = Length(id0, typed) /\ Append(Forwarded(piece), Eot) = piece
    BY <2>10 DEF WholeRead
  <2>12. MsgOK(Forwarded(piece), typed) /\ Forwarded(piece)[1] = piece[1]
    BY <2>3, <2>7, ForwardedOK
  <2>13. id0[1] \in Node /\ id0[2] \in Names /\ id0[3] \in Nat /\ id0 \in Node \X Users2 \X Nat
    BY <2>7, IdFacts DEF Ids, Users2
  <2>14. u \in News /\ u.text.id = id0 /\ u.text.parts = Parts(piece)
    <3>1. Parts(piece) \in Nat
      BY <2>7, <2>11, LengthFacts DEF TypeInv
    <3> HIDE DEF id0
    <3> QED BY <2>13, <3>1, NameFacts DEF Text, News, Texts, Users2
  <2>15. q \in Packets /\ q.to \in (Node \ {n}) \cup {NoName} /\ q.msg = Forwarded(piece)
    <3>1. Forwarded(piece) \in Seq(Units)
      BY <2>12 DEF MsgOK, StretchOK
    <3>2. GetRouting(n, id0[2]) \in (Node \ {n}) \cup {NoName}
      BY NameFacts
    <3> QED BY <3>1, <3>2 DEF Packets
  <2>16. Shows(n, piece) => id0[2] = n /\ sendq' = sendq /\ uiq' = [uiq EXCEPT ![n] = Append(uiq[n], u)]
    BY DEF Shows
  <2>17. PassesOn(n, piece) => q.to # NoName /\ uiq' = uiq /\ sendq' = [sendq EXCEPT ![n] = Append(sendq[n], q)]
    BY DEF PassesOn
  <2> HIDE DEF u, q, id0
  <2>18. uiq \in [Node -> Seq(News)] /\ sendq \in [Node -> Seq(Packets)]
    BY DEF TypeInv, WireTypes, ScreenTypes
  <2>19. Longer(uiq[n], u, Append(uiq[n], u), News) /\ Longer(sendq[n], q, Append(sendq[n], q), Packets)
    BY <2>14, <2>15, <2>18, AppendLonger
  <2>20. Shows(n, piece) => \A a \in Node : IF a = n THEN Longer(uiq[n], u, uiq'[n], News) ELSE uiq'[a] = uiq[a]
    BY <2>16, <2>18, <2>19
  <2>21. PassesOn(n, piece) => \A a \in Node : IF a = n THEN Longer(sendq[n], q, sendq'[n], Packets) ELSE sendq'[a] = sendq[a]
    BY <2>17, <2>18, <2>19
  <2>22. WholePipes'
    <3> SUFFICES ASSUME NEW l \in Link PROVE WholeMsgs(Pipe(l)', typed)
      BY <1>1 DEF WholePipes
    <3>1. CASE l = l0
      BY <2>1, <2>9, <3>1
    <3>2. CASE l # l0
      BY <2>1, <2>6, <3>2 DEF WholeInv, WholePipes
    <3> QED BY <3>1, <3>2
  <2>23. WholePackets'
    <3>1. CASE Shows(n, piece)
      BY <1>1, <2>6, <2>16, <3>1 DEF WholeInv, WholePackets
    <3>2. CASE PassesOn(n, piece)
      <4> SUFFICES ASSUME NEW a \in Node, NEW k \in DOMAIN sendq'[a]
                   PROVE  sendq'[a][k].to \in Node \ {a} /\ WholeMsgs(Append(sendq'[a][k].msg, Eot), typed)
        BY <1>1 DEF WholePackets
      <4>1. CASE k \in DOMAIN sendq[a] /\ sendq'[a][k] = sendq[a][k]
        BY <2>6, <4>1 DEF WholeInv, WholePackets
      <4>2. CASE a = n /\ sendq'[a][k] = q
        BY <2>9, <2>11, <2>15, <2>17, <3>2, <4>2
      <4> QED BY <2>21, <3>2, <4>1, <4>2 DEF Longer
    <3> QED BY <2>5, <3>1, <3>2
  <2>24. WholeNews'
    <3>1. CASE PassesOn(n, piece)
      BY <1>1, <2>6, <2>17, <3>1 DEF WholeInv, WholeNews
    <3>2. CASE Shows(n, piece)
      <4> SUFFICES ASSUME NEW a \in Node, NEW k \in DOMAIN uiq'[a] PROVE FullText(uiq'[a][k].text, a, typed)
        BY <1>1 DEF WholeNews
      <4>1. CASE k \in DOMAIN uiq[a] /\ uiq'[a][k] = uiq[a][k]
        BY <2>6, <4>1 DEF WholeInv, WholeNews
      <4>2. CASE a = n /\ uiq'[a][k] = u
        BY <2>11, <2>14, <4>2 DEF FullText
      <4> QED BY <2>20, <3>2, <4>1, <4>2 DEF Longer
    <3> QED BY <2>5, <3>1, <3>2
  <2>25. WholeTabs'
    BY <1>1, <2>6 DEF WholeInv, WholeTabs
  \* What was at the head of the pipe is in one of the queues now.
  <2>26. ASSUME NEW k \in Places1, InPipe(World, id0, l0, k), k <= j PROVE Occurs(World', id0)
    <3>1. CASE Shows(n, piece)
      <4> DEFINE i == Len(uiq[n]) + 1
      <4>1. i \in DOMAIN uiq'[n] /\ uiq'[n][i].text.id = id0
        BY <2>14, <2>20, <3>1 DEF Longer
      <4>2. i \in Places1
        <5>1. Len(uiq[n]) \in Nat
          BY <2>18
        <5> QED BY <5>1 DEF Places1
      <4>3. id0[2] = n
        BY <2>16, <3>1
      <4> QED BY <4>1, <4>2, <4>3, WorldNow DEF Occurs, InUi
    <3>2. CASE PassesOn(n, piece)
      <4> DEFINE i == Len(sendq[n]) + 1
      <4>1. i \in DOMAIN sendq'[n] /\ sendq'[n][i].msg[1] = Unit("type", id0)
        BY <2>7, <2>12, <2>15, <2>21, <3>2 DEF Longer
      <4>2. i \in Places1
        <5>1. Len(sendq[n]) \in Nat
          BY <2>18
        <5> QED BY <5>1 DEF Places1
      <4> QED BY <4>1, <4>2, WorldNow DEF Occurs, InSend
    <3> QED BY <2>5, <3>1, <3>2
  <2>27. ASSUME NEW id \in Ids, NEW k \in Places1, InPipe(World, id, l0, k) PROVE Occurs(World', id)
    <3>1. k \in DOMAIN p /\ p[k] = Unit("type", id) /\ k \in Nat /\ k > 0 /\ k <= Len(p) /\ Len(p) \in Nat
      BY <1>2, <2>2, <2>4, <2>27, WorldNow DEF InPipe, Places1
    <3>2. CASE k <= j
      <4>1. k \in 1 .. j /\ k \in DOMAIN piece
        BY <2>1, <2>3, <2>7, <3>1, <3>2
      <4>2. piece[k].kind = "type" /\ piece[k] = Unit("type", id)
        BY <2>3, <3>1, <4>1, UnitFacts
      <4>3. k = 1
        BY <2>10, <4>1, <4>2 DEF WholeRead
      <4>4. id = id0
        BY <2>7, <4>2, <4>3, UnitFacts
      <4> QED BY <2>26, <2>27, <3>2, <4>4
    <3>3. CASE ~(k <= j)
      <4>1. k - j \in 1 .. Len(p) - j /\ (k - j) + j = k /\ k - j \in Places1
        BY <2>1, <3>1, <3>3 DEF Places1
      <4>2. rest \in Seq(Units)
        BY <2>9 DEF WholeMsgs
      <4>3. k - j \in DOMAIN rest /\ rest[k - j] = Unit("type", id)
        BY <2>3, <3>1, <4>1, <4>2
      <4>4. InPipe(World', id, l0, k - j)
        BY <1>2, <2>1, <4>3, WorldNow DEF InPipe
      <4> QED BY <1>2, <4>1, <4>4 DEF Occurs
    <3> QED BY <3>2, <3>3
  <2>28. Present'
    <3> SUFFICES ASSUME NEW id \in Ids, Known(id, typed) PROVE Occurs(World', id)
      BY <1>1 DEF Present
    <3>1. PICK k \in Places1 : \/ id[2] \in Node /\ (InTab(World, id, k) \/ InUi(World, id, k))
                               \/ \E l \in Link : InPipe(World, id, l, k)
                               \/ \E a \in Node : InSend(World, id, a, k)
      BY <2>6 DEF Present, Occurs
    <3>2. CASE id[2] \in Node /\ InTab(World, id, k)
      BY <1>1, <3>2, StillThere, TabsSame DEF Occurs, Local
    <3>3. CASE id[2] \in Node /\ InUi(World, id, k)
      <4>1. InUi(World', id, k)
        BY <2>5, <2>17, <2>20, <3>3, WorldNow DEF InUi, Longer
      <4> QED BY <3>3, <4>1 DEF Occurs
    <3>4. ASSUME NEW l \in Link, InPipe(World, id, l, k) PROVE Occurs(World', id)
      <4>1. CASE l = l0
        BY <2>27, <3>4, <4>1
      <4>2. CASE l # l0
        <5>1. InPipe(World', id, l, k)
          BY <2>1, <3>4, <4>2, WorldNow DEF InPipe
        <5> QED BY <5>1 DEF Occurs
      <4> QED BY <4>1, <4>2
    <3>5. ASSUME NEW a \in Node, InSend(World, id, a, k) PROVE Occurs(World', id)
      <4>1. InSend(World', id, a, k)
        BY <2>5, <2>16, <2>21, <3>5, WorldNow DEF InSend, Longer
      <4> QED BY <4>1 DEF Occurs
    <3> QED BY <3>1, <3>2, <3>3, <3>4, <3>5
  <2> QED BY <2>5, <2>22, <2>23, <2>24, <2>25, <2>28 DEF WholeInv
<1> QED BY <1>1, <1>3, <1>4

LEMMA SwitchKeeps ==
  ASSUME TypeInv, WholeInv, Present, NEW n \in Node, SwitchTab(n)
  PROVE  WholeInv' /\ Present'
<1>1. PICK i \in DOMAIN tabs[n] :
        tabs' = [tabs EXCEPT ![n] = [tabs[n] EXCEPT ![i] = [tabs[n][i] EXCEPT !.unread = FALSE]]]
  BY DEF SwitchTab
<1> DEFINE mine == tabs[n]
           had == mine[i]
           new == [had EXCEPT !.unread = FALSE]
           r == [mine EXCEPT ![i] = new]
<1>2. tabs \in [Node -> Seq(Tabs)] /\ TabOK(had, n, typed) /\ i \in DOMAIN mine
  BY DEF TypeInv, ScreenTypes, TabsOK
<1>3. tabs' = [tabs EXCEPT ![n] = r] /\ had = mine[i]
  BY <1>1
<1> HIDE DEF had
<1>4. new.user = had.user /\ new.msgs = had.msgs
  BY <1>2, MarkOK
<1> HIDE DEF new
<1>5. DOMAIN r = DOMAIN mine /\ \A j \in DOMAIN mine : r[j].user = mine[j].user /\ r[j].msgs = mine[j].msgs
  <2>1. DOMAIN r = DOMAIN mine /\ \A j \in DOMAIN mine : r[j] = IF j = i THEN new ELSE mine[j]
    OBVIOUS
  <2> HIDE DEF r, mine
  <2> QED BY <1>3, <1>4, <2>1
<1> HIDE DEF r
<1>6. ASSUME NEW a \in Node
      PROVE  /\ DOMAIN tabs'[a] = DOMAIN tabs[a]
             /\ \A j \in DOMAIN tabs[a] : tabs'[a][j].user = tabs[a][j].user /\ tabs'[a][j].msgs = tabs[a][j].msgs
  <2>1. tabs'[a] = IF a = n THEN r ELSE tabs[a]
    BY <1>2, <1>3
  <2> QED BY <1>5, <2>1
<1>7. UNCHANGED <<typed, sendq, stream, server, uiq>>
  BY DEF SwitchTab, wires
<1>8. \A l \in Link : Pipe(l)' = Pipe(l)
  BY <1>7 DEF Pipe, Buf
<1>9. TabsKept
  BY <1>6 DEF TabsKept
<1>10. WholePipes' /\ WholePackets' /\ WholeNews'
  BY <1>7, <1>8 DEF WholeInv, WholePipes, WholePackets, WholeNews
<1>11. WholeTabs'
  BY <1>6, <1>7 DEF WholeInv, WholeTabs
<1>12. ASSUME NEW id \in Ids, Known(id, typed) PROVE Occurs(World', id)
  <2>1. Occurs(World, id)
    BY <1>12 DEF Present
  <2> QED BY <1>7, <1>8, <1>9, <2>1, StillThere DEF Occurs, Local
<1> QED BY <1>7, <1>10, <1>11, <1>12 DEF WholeInv, Present

\* While nothing is lost a text that leaves the queue is put into the tab of
\* who has sent it.
LEMMA ForeignAdds ==
  ASSUME TypeInv, NEW n \in Node, AddForeignMessage(n), intact', Head(uiq[n]).text # Notice
  PROVE  \E i \in DOMAIN tabs'[n] : /\ tabs'[n][i].user = Head(uiq[n]).name
                                    /\ \E k \in DOMAIN tabs'[n][i].msgs : tabs'[n][i].msgs[k] = Head(uiq[n]).text
<1> DEFINE u == Head(uiq[n])
           who == u.name
           what == u.text
           mine == tabs[n]
           all == Opened(mine, who)
           i == TabOf(all, who)
           had == all[i]
           shown == AddMessage(had, what)
           b == shown.unread \/ i # active[n]
           new == [shown EXCEPT !.unread = b]
           r == [all EXCEPT ![i] = new]
<1>1. TabsOK(mine, n, typed) /\ NewsOK(uiq[n], n, typed) /\ uiq[n] # <<>> /\ tabs \in [Node -> Seq(Tabs)]
  BY DEF TypeInv, ScreenTypes, AddForeignMessage
<1>2. u \in News /\ who # n /\ (what = Notice \/ TextOK(what, who, n, typed))
  BY <1>1, TailNews
<1>3. who \in Users2 /\ what \in Texts
  BY <1>2 DEF News
<1>4. tabs' = [tabs EXCEPT ![n] = r] /\ Len(had.msgs) < MaxMsgs
  BY DEF AddForeignMessage, TabOf
<1> HIDE DEF u, mine, who, what
<1>5. TabsOK(all, n, typed) /\ i \in DOMAIN all /\ had.user = who
  <2>1. OpenedOK(mine, who, n, typed)
    BY <1>1, <1>2, <1>3, OpenedFacts
  <2> QED BY <2>1, Zenon DEF OpenedOK
<1> HIDE DEF all, i
<1>6. TabOK(had, n, typed)
  BY <1>5 DEF TabsOK
<1> HIDE DEF had
<1>7. TabOK(shown, n, typed) /\ shown.user = who
  <2>1. AddedOK(had, what, n, typed)
    BY <1>2, <1>3, <1>5, <1>6, AddMessageOK
  <2> QED BY <1>5, <2>1 DEF AddedOK
<1>8. shown.msgs = Append(had.msgs, what) /\ had.msgs \in Seq(Texts)
  BY <1>4, <1>6 DEF AddMessage, TabOK, Tabs
<1> HIDE DEF shown
<1>9. new.user = who /\ new.msgs = shown.msgs
  <2>1. b \in BOOLEAN
    BY <1>7 DEF TabOK, Tabs
  <2> HIDE DEF b
  <2> QED BY <1>7, <2>1, MarkOK
<1> HIDE DEF new
<1>10. i \in DOMAIN r /\ r[i] = new
  BY <1>5
<1> HIDE DEF r
<1>11. tabs'[n] = r
  BY <1>1, <1>4
<1>12. Longer(had.msgs, what, new.msgs, Texts)
  BY <1>3, <1>8, <1>9, AppendLonger
<1> QED BY <1>9, <1>10, <1>11, <1>12 DEF Longer, who, what, u

LEMMA ForeignKeeps ==
  ASSUME TypeInv, intact => WholeInv /\ Present, NEW n \in Node, AddForeignMessage(n), intact'
  PROVE  intact /\ WholeInv' /\ Present'
<1> DEFINE u == Head(uiq[n])
           q == uiq[n]
           Old(j) == IF j \in DOMAIN tabs[n] THEN tabs[n][j].msgs ELSE <<>>
<1>1. /\ UNCHANGED <<typed, sendq, stream, server>> /\ q # <<>> /\ uiq' = [uiq EXCEPT ![n] = Tail(q)] /\ intact
  BY DEF AddForeignMessage, PopUi, wires
<1>2. WholeInv /\ Present
  BY <1>1
<1>3. uiq \in [Node -> Seq(News)] /\ q \in Seq(News) /\ NewsOK(q, n, typed)
  BY DEF TypeInv, ScreenTypes
<1>4. u \in News /\ (u.text = Notice \/ TextOK(u.text, u.name, n, typed)) /\ 1 \in DOMAIN q /\ u = q[1]
  <2>1. u \in News /\ (u.text = Notice \/ TextOK(u.text, u.name, n, typed))
    BY <1>1, <1>3, TailNews
  <2>2. 1 \in DOMAIN q /\ Head(q) = q[1]
    BY <1>1, <1>3
  <2> QED BY <2>1, <2>2
<1>5. /\ \A k \in DOMAIN Tail(q) : k + 1 \in DOMAIN q /\ Tail(q)[k] = q[k + 1]
      /\ \A k \in DOMAIN q : k # 1 => k - 1 \in DOMAIN Tail(q) /\ Tail(q)[k - 1] = q[k] /\ k - 1 \in Places1
  <2> DEFINE c == Len(q)
             r == Tail(q)
  <2>1. c \in Nat /\ c > 0 /\ DOMAIN q = 1 .. c
    BY <1>1, <1>3
  <2>2. DOMAIN r = 1 .. c - 1 /\ \A k \in 1 .. c - 1 : r[k] = q[k + 1]
    BY <1>1, <1>3
  <2> HIDE DEF c, r, q
  <2>3. \A k \in DOMAIN r : k + 1 \in DOMAIN q /\ r[k] = q[k + 1]
    BY <2>1, <2>2
  <2>4. ASSUME NEW k \in DOMAIN q, k # 1 PROVE k - 1 \in DOMAIN r /\ r[k - 1] = q[k] /\ k - 1 \in Places1
    <3>1. k - 1 \in 1 .. c - 1 /\ (k - 1) + 1 = k /\ k - 1 \in Nat \ {0}
      BY <2>1, <2>4
    <3> QED BY <2>2, <3>1 DEF Places1
  <2> QED BY <2>3, <2>4 DEF r
<1>6. /\ TabsOK(tabs'[n], n, typed) /\ DOMAIN tabs[n] \subseteq DOMAIN tabs'[n]
      /\ \A a \in Node \ {n} : tabs'[a] = tabs[a]
      /\ \A j \in DOMAIN tabs'[n] :
           /\ tabs'[n][j].msgs = Old(j) \/ tabs'[n][j].msgs = Append(Old(j), u.text)
           /\ j \in DOMAIN tabs[n] => tabs'[n][j].user = tabs[n][j].user
  BY ForeignTabs
<1>7. \A j : Old(j) \in Seq(Texts)
  BY DEF TypeInv, ScreenTypes, TabsOK, TabOK, Tabs
<1>8. u.text \in Texts
  BY <1>4 DEF News
<1>9. \A j \in DOMAIN tabs[n] : Old(j) = tabs[n][j].msgs
  OBVIOUS
<1>10. \A j : j \notin DOMAIN tabs[n] => Old(j) = <<>>
  OBVIOUS
<1> HIDE DEF u, q, Old
<1>11. ASSUME NEW j \in DOMAIN tabs'[n]
       PROVE  /\ \A k \in DOMAIN Old(j) : k \in DOMAIN tabs'[n][j].msgs /\ tabs'[n][j].msgs[k] = Old(j)[k]
              /\ \A k \in DOMAIN tabs'[n][j].msgs :
                   tabs'[n][j].msgs[k] = u.text \/ (k \in DOMAIN Old(j) /\ tabs'[n][j].msgs[k] = Old(j)[k])
  <2>1. Longer(Old(j), u.text, Append(Old(j), u.text), Texts)
    BY <1>7, <1>8, AppendLonger
  <2>2. CASE tabs'[n][j].msgs = Old(j)
    BY <2>2
  <2>3. CASE tabs'[n][j].msgs = Append(Old(j), u.text)
    BY <2>1, <2>3 DEF Longer
  <2> QED BY <1>6, <2>2, <2>3
<1>12. TabsKept
  <2> SUFFICES ASSUME NEW a \in Node, NEW i \in DOMAIN tabs[a]
               PROVE  /\ i \in DOMAIN tabs'[a] /\ tabs'[a][i].user = tabs[a][i].user
                      /\ \A k \in DOMAIN tabs[a][i].msgs :
                           k \in DOMAIN tabs'[a][i].msgs /\ tabs'[a][i].msgs[k] = tabs[a][i].msgs[k]
    BY DEF TabsKept
  <2>1. CASE a # n
    BY <1>6, <2>1
  <2>2. CASE a = n
    BY <1>6, <1>9, <1>11, <2>2
  <2> QED BY <2>1, <2>2
<1>13. TabsGain(n, u.text)
  <2> SUFFICES ASSUME NEW a \in Node, NEW i \in DOMAIN tabs'[a], NEW k \in DOMAIN tabs'[a][i].msgs
               PROVE  \/ a = n /\ tabs'[a][i].msgs[k] = u.text
                      \/ i \in DOMAIN tabs[a] /\ k \in DOMAIN tabs[a][i].msgs /\ tabs'[a][i].msgs[k] = tabs[a][i].msgs[k]
    BY DEF TabsGain
  <2>1. CASE a # n
    BY <1>6, <2>1
  <2>2. CASE a = n
    <3>1. \/ tabs'[n][i].msgs[k] = u.text
          \/ k \in DOMAIN Old(i) /\ tabs'[n][i].msgs[k] = Old(i)[k]
      BY <1>11, <2>2
    <3> QED BY <1>9, <1>10, <2>2, <3>1
  <2> QED BY <2>1, <2>2
<1>14. FullText(u.text, n, typed)
  BY <1>2, <1>4 DEF WholeInv, WholeNews, q
<1>15. \A l \in Link : Pipe(l)' = Pipe(l)
  BY <1>1 DEF Pipe, Buf
<1>16. WholePipes' /\ WholePackets'
  BY <1>1, <1>2, <1>15 DEF WholeInv, WholePipes, WholePackets
<1>17. WholeTabs'
  BY <1>1, <1>2, <1>13, <1>14, WholeTabsGain DEF WholeInv
<1>18. uiq'[n] = Tail(q) /\ \A a \in Node \ {n} : uiq'[a] = uiq[a]
  BY <1>1, <1>3
<1>19. WholeNews'
  <2> SUFFICES ASSUME NEW a \in Node, NEW k \in DOMAIN uiq'[a] PROVE FullText(uiq'[a][k].text, a, typed)
    BY <1>1 DEF WholeNews
  <2>1. CASE a # n
    BY <1>2, <1>18, <2>1 DEF WholeInv, WholeNews
  <2>2. CASE a = n
    BY <1>2, <1>5, <1>18, <2>2 DEF WholeInv, WholeNews, q
  <2> QED BY <2>1, <2>2
\* The head of the queue is in a tab, the others are one place further.
<1>20. ASSUME NEW id \in Local, InUi(World, id, 1), id[2] = n PROVE \E k \in Places1 : InTab(World', id, k)
  <2>1. u.text.id = id /\ u.text # Notice
    BY <1>4, <1>20, WorldNow, NoticeFacts, IdNotNone DEF InUi, Local, q
  <2>2. TextOK(u.text, u.name, n, typed)
    BY <1>4, <2>1
  <2>3. id[1] = u.name
    BY <2>1, <2>2 DEF TextOK
  <2>4. PICK i \in DOMAIN tabs'[n] : tabs'[n][i].user = u.name /\ \E k \in DOMAIN tabs'[n][i].msgs : tabs'[n][i].msgs[k] = u.text
    BY <2>1, ForeignAdds DEF u
  <2>5. PICK k \in DOMAIN tabs'[n][i].msgs : tabs'[n][i].msgs[k] = u.text
    BY <2>4
  <2>6. k \in Places1
    <3>1. tabs'[n][i].msgs \in Seq(Texts)
      BY <1>6 DEF TabsOK, TabOK, Tabs
    <3> DEFINE ms == tabs'[n][i].msgs
    <3>2. ms \in Seq(Texts) /\ k \in DOMAIN ms
      BY <3>1
    <3> HIDE DEF ms
    <3> QED BY <3>2 DEF Places1
  <2>7. InTab(World', id, k)
    BY <1>20, <2>1, <2>3, <2>4, <2>5, WorldNow DEF InTab
  <2> QED BY <2>6, <2>7
<1>21. ASSUME NEW id \in Local, NEW k \in Places1, InUi(World, id, k), id[2] # n \/ k # 1
       PROVE  \E i \in Places1 : InUi(World', id, i)
  <2>1. k \in DOMAIN uiq[id[2]] /\ uiq[id[2]][k].text.id = id /\ id[2] \in Node
    BY <1>21, WorldNow DEF InUi, Local
  <2>2. CASE id[2] # n
    BY <1>18, <2>1, <2>2, WorldNow DEF InUi
  <2>3. CASE id[2] = n
    <3>1. k - 1 \in DOMAIN uiq'[n] /\ uiq'[n][k - 1] = uiq[n][k] /\ k - 1 \in Places1
      BY <1>5, <1>18, <1>21, <2>1, <2>3 DEF q
    <3> QED BY <2>1, <2>3, <3>1, WorldNow DEF InUi
  <2> QED BY <2>2, <2>3
<1>22. Present'
  <2> SUFFICES ASSUME NEW id \in Ids, Known(id, typed) PROVE Occurs(World', id)
    BY <1>1 DEF Present
  <2>1. PICK k \in Places1 : \/ id[2] \in Node /\ (InTab(World, id, k) \/ InUi(World, id, k))
                             \/ \E l \in Link : InPipe(World, id, l, k)
                             \/ \E a \in Node : InSend(World, id, a, k)
    BY <1>2 DEF Present, Occurs
  <2>2. CASE id[2] \in Node /\ InTab(World, id, k)
    BY <1>12, <2>2, StillThere DEF Occurs, Local
  <2>3. CASE id[2] \in Node /\ InUi(World, id, k)
    BY <1>20, <1>21, <2>3 DEF Occurs, Local
  <2>4. CASE (\E l \in Link : InPipe(World, id, l, k)) \/ (\E a \in Node : InSend(World, id, a, k))
    BY <1>1, <1>15, <2>4, StillThere DEF Occurs
  <2> QED BY <2>1, <2>2, <2>3, <2>4
<1> QED BY <1>1, <1>16, <1>17, <1>19, <1>22 DEF WholeInv

\* Enter gives a new text a place, and leaves what is there where it is.
LEMMA EnterKeeps ==
  ASSUME TypeInv, intact => WholeInv /\ Present, NEW n \in Node, NEW len \in 1 .. BufSize - 3, Enter(n, len), intact'
  PROVE  intact /\ WholeInv' /\ Present'
<1> DEFINE mine == tabs[n]
           i == active[n]
           had == mine[i]
           x == had.user
           id0 == <<n, x, Len(typed[<<n, x>>]) + 1>>
           text == Text(id0, len)
           shown == AddMessage(had, text)
           r == [mine EXCEPT ![i] = shown]
           news == [name |-> System, text |-> Notice]
           packet == [to |-> GetRouting(n, x), msg |-> Message(id0, len)]
<1>1. tabs \in [Node -> Seq(Tabs)] /\ TabsOK(mine, n, typed) /\ i \in DOMAIN mine
  BY DEF TypeInv, ScreenTypes
<1>2. TabOK(had, n, typed) /\ x \in Users2 /\ x # n
  BY <1>1 DEF TabsOK, TabOK, Tabs
<1>3. /\ typed' = [typed EXCEPT ![<<n, x>>] = Append(@, len)]
      /\ tabs' = [tabs EXCEPT ![n] = r]
      /\ \/ /\ x = System
            /\ uiq' \in {uiq, [uiq EXCEPT ![n] = Push(uiq[n], news)]}
            /\ sendq' = sendq /\ intact
         \/ /\ x # System
            /\ sendq' = [sendq EXCEPT ![n] = Append(sendq[n], packet)]
            /\ intact /\ GetRouting(n, x) # NoName
            /\ uiq' = uiq
      /\ UNCHANGED <<stream, server>>
  BY DEF Enter, Push
<1>4. had = mine[i] /\ x = had.user /\ WholeInv /\ Present /\ intact
  BY <1>3
<1>5. text.id = id0
  BY DEF Text
<1> HIDE DEF x
<1>6. id0 = <<n, x, Len(typed[<<n, x>>]) + 1>> /\ id0[1] = n /\ id0[2] = x
  OBVIOUS
<1> HIDE DEF id0
<1>7. Typed(n, x, len, id0)
  BY <1>2, <1>3, <1>6, EnterHistory
<1>8. typed' \in Histories /\ Keeps(typed, typed')
  BY <1>7 DEF Typed
<1> HIDE DEF text
<1>9. /\ shown.user = had.user /\ had.msgs \in Seq(Texts)
      /\ shown.msgs = had.msgs \/ shown.msgs = Append(had.msgs, text)
  <2>1. had \in Tabs
    BY <1>2 DEF TabOK
  <2> HIDE DEF had
  <2> QED BY <2>1 DEF AddMessage, Tabs
<1>10. text \in Texts
  <2>1. id0 \in Node \X Users2 \X Nat
    BY <1>7 DEF Typed
  <2>2. len \in Nat
    BY SizesAssumption
  <2> QED BY <2>1, <2>2 DEF text, Text, Texts
<1> HIDE DEF had, shown
<1>11. DOMAIN r = DOMAIN mine /\ \A j \in DOMAIN mine : r[j] = IF j = i THEN shown ELSE mine[j]
  OBVIOUS
<1> HIDE DEF r, mine, i
<1>12. Longer(had.msgs, text, Append(had.msgs, text), Texts)
  BY <1>9, <1>10, AppendLonger
<1>13. tabs'[n] = r /\ \A a \in Node \ {n} : tabs'[a] = tabs[a]
  BY <1>1, <1>3
<1>14. ASSUME NEW j \in DOMAIN mine
       PROVE  /\ r[j].user = mine[j].user
              /\ \A k \in DOMAIN mine[j].msgs : k \in DOMAIN r[j].msgs /\ r[j].msgs[k] = mine[j].msgs[k]
              /\ \A k \in DOMAIN r[j].msgs : r[j].msgs[k] = text \/ (k \in DOMAIN mine[j].msgs /\ r[j].msgs[k] = mine[j].msgs[k])
  <2>1. CASE j # i
    BY <1>11, <2>1
  <2>2. CASE j = i
    <3>1. r[j] = shown /\ mine[j] = had
      BY <1>4, <1>11, <2>2
    <3>2. CASE shown.msgs = had.msgs
      BY <1>9, <3>1, <3>2
    <3>3. CASE shown.msgs = Append(had.msgs, text)
      BY <1>9, <1>12, <3>1, <3>3 DEF Longer
    <3> QED BY <1>9, <3>2, <3>3
  <2> QED BY <2>1, <2>2
<1>15. TabsKept
  <2> SUFFICES ASSUME NEW a \in Node, NEW j \in DOMAIN tabs[a]
               PROVE  /\ j \in DOMAIN tabs'[a] /\ tabs'[a][j].user = tabs[a][j].user
                      /\ \A k \in DOMAIN tabs[a][j].msgs :
                           k \in DOMAIN tabs'[a][j].msgs /\ tabs'[a][j].msgs[k] = tabs[a][j].msgs[k]
    BY DEF TabsKept
  <2>1. CASE a # n
    BY <1>13, <2>1
  <2>2. CASE a = n
    BY <1>11, <1>13, <1>14, <2>2 DEF mine
  <2> QED BY <2>1, <2>2
<1>16. TabsGain(n, text)
  <2> SUFFICES ASSUME NEW a \in Node, NEW j \in DOMAIN tabs'[a], NEW k \in DOMAIN tabs'[a][j].msgs
               PROVE  \/ a = n /\ tabs'[a][j].msgs[k] = text
                      \/ j \in DOMAIN tabs[a] /\ k \in DOMAIN tabs[a][j].msgs /\ tabs'[a][j].msgs[k] = tabs[a][j].msgs[k]
    BY DEF TabsGain
  <2>1. CASE a # n
    BY <1>13, <2>1
  <2>2. CASE a = n
    BY <1>11, <1>13, <1>14, <2>2 DEF mine
  <2> QED BY <2>1, <2>2
<1>17. \A l \in Link : Pipe(l)' = Pipe(l)
  BY <1>3 DEF Pipe, Buf
\* What has been typed before is as long as it was.
<1>18. \A id \in Ids : Known(id, typed) => Length(id, typed') = Length(id, typed)
  BY <1>8 DEF Keeps
<1>19. \A t, a, y : TextOK(t, y, a, typed) /\ FullText(t, a, typed) => FullText(t, a, typed')
  BY <1>18 DEF TextOK, FullText
<1>20. WholePipes'
  <2> SUFFICES ASSUME NEW l \in Link PROVE WholeMsgs(Pipe(l)', typed')
    BY DEF WholePipes
  <2>1. WholeMsgs(Pipe(l), typed) /\ StreamOK(Pipe(l), typed) /\ Pipe(l)' = Pipe(l)
    BY <1>4, <1>17, PipeFacts DEF WholeInv, WholePipes
  <2> DEFINE p == Pipe(l)
  <2>2. WholeMsgs(p, typed) /\ StreamOK(p, typed) /\ Pipe(l)' = p
    BY <2>1
  <2> HIDE DEF p
  <2>3. \A k \in DOMAIN p : p[k].kind = "type" => Known(p[k].id, typed)
    BY <2>2 DEF StreamOK, StretchOK, HeadOK
  <2>4. WholeMsgs(p, typed')
    BY <1>8, <2>2, <2>3, KeepsWhole
  <2> QED BY <2>2, <2>4
<1>21. ASSUME NEW a \in Node, NEW k \in DOMAIN sendq[a]
       PROVE  WholeMsgs(Append(sendq[a][k].msg, Eot), typed')
  <2> DEFINE m == sendq[a][k].msg
             e == Append(m, Eot)
  <2>1. MsgOK(m, typed)
    BY DEF TypeInv, WireTypes
  <2>2. WholeMsgs(e, typed)
    BY <1>4 DEF WholeInv, WholePackets
  <2> HIDE DEF m
  <2>3. \A j \in DOMAIN e : (j \in DOMAIN m /\ e[j] = m[j]) \/ e[j] = Eot
    <3>1. m \in Seq(Units)
      BY <2>1 DEF MsgOK, StretchOK
    <3>2. Longer(m, Eot, e, Units)
      BY <3>1, UnitFacts, AppendLonger
    <3> HIDE DEF e
    <3> QED BY <3>2 DEF Longer
  <2> HIDE DEF e
  <2>4. \A j \in DOMAIN e : e[j].kind = "type" => Known(e[j].id, typed)
    BY <2>1, <2>3, UnitFacts DEF MsgOK, StretchOK, HeadOK
  <2>5. WholeMsgs(e, typed')
    BY <1>8, <2>2, <2>4, KeepsWhole
  <2> QED BY <2>5 DEF e, m
<1>22. WholeNews'
  <2> SUFFICES ASSUME NEW a \in Node, NEW k \in DOMAIN uiq'[a] PROVE FullText(uiq'[a][k].text, a, typed')
    BY DEF WholeNews
  <2>1. ASSUME k \in DOMAIN uiq[a], uiq'[a][k] = uiq[a][k] PROVE FullText(uiq'[a][k].text, a, typed')
    <3>1. uiq[a][k].text = Notice \/ TextOK(uiq[a][k].text, uiq[a][k].name, a, typed)
      BY <2>1 DEF TypeInv, ScreenTypes, NewsOK
    <3>2. FullText(uiq[a][k].text, a, typed)
      BY <1>4, <2>1 DEF WholeInv, WholeNews
    <3>3. CASE uiq[a][k].text = Notice
      BY <2>1, <3>3 DEF FullText
    <3> QED BY <1>19, <2>1, <3>1, <3>2, <3>3
  <2>2. CASE uiq' = uiq
    BY <2>1, <2>2
  <2>3. CASE uiq' = [uiq EXCEPT ![n] = Push(uiq[n], news)]
    <3> DEFINE q == Push(uiq[n], news)
    <3>1. uiq \in [Node -> Seq(News)] /\ uiq[n] \in Seq(News) /\ Len(uiq[n]) <= MaxQueue /\ news \in News
      BY NoticeFacts DEF TypeInv, ScreenTypes, NewsOK, News, Users2
    <3>2. news.text = Notice
      OBVIOUS
    <3> HIDE DEF news
    <3>3. Pushed(uiq[n], news, q)
      BY <3>1, PushPlaces
    <3>4. uiq' = [uiq EXCEPT ![n] = q]
      BY <2>3
    <3> HIDE DEF q
    <3>5. \/ k \in DOMAIN uiq[a] /\ uiq'[a][k] = uiq[a][k]
          \/ uiq'[a][k] = news
      BY <3>1, <3>3, <3>4 DEF Pushed
    <3> QED BY <2>1, <3>2, <3>5 DEF FullText
  <2> QED BY <1>3, <2>2, <2>3
<1>23. WholeTabs'
  <2> SUFFICES ASSUME NEW a \in Node, NEW j \in DOMAIN tabs'[a], NEW k \in DOMAIN tabs'[a][j].msgs
               PROVE  FullText(tabs'[a][j].msgs[k], a, typed')
    BY DEF WholeTabs
  <2>1. CASE a = n /\ tabs'[a][j].msgs[k] = text
    BY <1>5, <1>6, <2>1 DEF FullText
  <2>2. CASE j \in DOMAIN tabs[a] /\ k \in DOMAIN tabs[a][j].msgs /\ tabs'[a][j].msgs[k] = tabs[a][j].msgs[k]
    <3> DEFINE t == tabs[a][j].msgs[k]
    <3>1. FullText(t, a, typed)
      BY <1>4, <2>2 DEF WholeInv, WholeTabs
    <3>2. t = Notice \/ TextOK(t, tabs[a][j].user, a, typed) \/ t.id[1] = a
      BY <2>2 DEF TypeInv, ScreenTypes, TabsOK, TabOK
    <3> HIDE DEF t
    <3>3. FullText(t, a, typed')
      BY <1>19, <3>1, <3>2 DEF FullText
    <3> QED BY <2>2, <3>3 DEF t
  <2> QED BY <1>16, <2>1, <2>2 DEF TabsGain
\* The news for the first tab go behind what is in the queue.
<1>24. ASSUME NEW id \in Local, NEW k \in Places1, InUi(World, id, k) PROVE InUi(World', id, k)
  <2>1. CASE uiq' = uiq
    BY <1>24, <2>1, StillThere
  <2>2. CASE uiq' = [uiq EXCEPT ![n] = Push(uiq[n], news)]
    <3>1. uiq \in [Node -> Seq(News)] /\ uiq[n] \in Seq(News) /\ news \in News
      BY NoticeFacts DEF TypeInv, ScreenTypes, News, Users2
    <3> HIDE DEF news
    <3> DEFINE q == Push(uiq[n], news)
    <3>2. \A j \in DOMAIN uiq[n] : j \in DOMAIN q /\ q[j] = uiq[n][j]
      <4>1. Longer(uiq[n], news, Append(uiq[n], news), News)
        BY <3>1, AppendLonger
      <4> QED BY <4>1 DEF Push, Longer
    <3>3. uiq' = [uiq EXCEPT ![n] = q]
      BY <2>2
    <3> HIDE DEF q
    <3>4. k \in DOMAIN uiq[id[2]] /\ uiq[id[2]][k].text.id = id /\ id[2] \in Node
      BY <1>24, WorldNow DEF InUi, Local
    <3>5. k \in DOMAIN uiq'[id[2]] /\ uiq'[id[2]][k] = uiq[id[2]][k]
      BY <3>1, <3>2, <3>3, <3>4
    <3> QED BY <3>4, <3>5, WorldNow DEF InUi
  <2> QED BY <1>3, <2>1, <2>2
<1>25. ASSUME \A id \in Ids, k \in Places1, a \in Node : InSend(World, id, a, k) => InSend(World', id, a, k)
       PROVE  \A id \in Ids : Known(id, typed) => Occurs(World', id)
  <2> SUFFICES ASSUME NEW id \in Ids, Known(id, typed) PROVE Occurs(World', id)
    OBVIOUS
  <2>1. Occurs(World, id)
    BY <1>4 DEF Present
  <2> QED BY <1>15, <1>17, <1>24, <1>25, <2>1, StillThere DEF Occurs, Local
<1>26. ASSUME NEW id \in Ids, Known(id, typed') PROVE Known(id, typed) \/ id = id0
  <2> DEFINE p == <<id[1], id[2]>>
  <2>1. p \in Node \X Users2 /\ id = <<id[1], id[2], id[3]>>
    BY IdFacts, IdNotNone DEF Users2
  <2>2. CASE p # <<n, x>>
    <3>1. typed'[p] = typed[p]
      BY <1>7, <2>1, <2>2 DEF Typed
    <3> QED BY <1>26, <3>1 DEF Known
  <2>3. CASE p = <<n, x>>
    <3> DEFINE s == typed[<<n, x>>]
               s1 == typed'[<<n, x>>]
               sizes == 1 .. BufSize - 3
    <3>1. s \in Seq(sizes) /\ s1 \in Seq(sizes) /\ Len(s1) = Len(s) + 1
      <4>1. <<n, x>> \in Node \X Users2
        BY <1>2
      <4> QED BY <1>7, <1>8, <4>1 DEF TypeInv, Histories, Typed
    <3>2. id[3] \in DOMAIN s1
      BY <1>26, <2>3 DEF Known
    <3>3. id0 = <<n, x, Len(s) + 1>> /\ id = <<n, x, id[3]>>
      BY <1>6, <2>1, <2>3
    <3>4. id[3] \in DOMAIN s => Known(id, typed)
      BY <2>3 DEF Known
    <3> HIDE DEF s, s1, sizes
    <3>5. id[3] \in DOMAIN s \/ id[3] = Len(s) + 1
      BY <3>1, <3>2
    <3> QED BY <3>3, <3>4, <3>5
  <2> QED BY <2>2, <2>3
<1>27. CASE x = System
  <2>1. sendq' = sendq
    BY <1>3, <1>27
  <2>2. WholePackets'
    BY <1>4, <1>21, <2>1 DEF WholeInv, WholePackets
  <2>3. id0 \notin Ids
    BY <1>6, <1>27, IdFacts, NameFacts
  <2>4. Present'
    BY <1>25, <1>26, <2>1, <2>3, StillThere DEF Present
  <2> QED BY <1>4, <1>20, <1>22, <1>23, <2>2, <2>4 DEF WholeInv
<1>28. CASE x # System
  <2>1. id0 \in Ids /\ Known(id0, typed') /\ Length(id0, typed') = len
    BY <1>7, <1>28, Zenon DEF Typed
  <2>2. Message(id0, len)[1] = Unit("type", id0) /\ Message(id0, len) \in Seq(Units)
    BY <2>1, MessageOK DEF MsgOK, StretchOK
  <2>3. packet \in Packets /\ packet.to \in Node \ {n} /\ packet.msg = Message(id0, len)
    BY <1>3, <1>28, <2>2, NameFacts DEF Packets
  <2> HIDE DEF packet
  <2>4. sendq \in [Node -> Seq(Packets)] /\ sendq[n] \in Seq(Packets) /\ Len(sendq[n]) \in Nat
    <3>1. sendq \in [Node -> Seq(Packets)]
      BY DEF TypeInv, WireTypes
    <3>2. sendq[n] \in Seq(Packets)
      BY <3>1
    <3> QED BY <3>1, <3>2
  <2>5. Longer(sendq[n], packet, sendq'[n], Packets) /\ \A a \in Node \ {n} : sendq'[a] = sendq[a]
    <3>1. sendq'[n] = Append(sendq[n], packet) /\ \A a \in Node \ {n} : sendq'[a] = sendq[a]
      BY <1>3, <1>28, <2>4
    <3> QED BY <2>3, <2>4, <3>1, AppendLonger
  <2>6. WholePackets'
    <3> SUFFICES ASSUME NEW a \in Node, NEW k \in DOMAIN sendq'[a]
                 PROVE  sendq'[a][k].to \in Node \ {a} /\ WholeMsgs(Append(sendq'[a][k].msg, Eot), typed')
      BY DEF WholePackets
    <3>1. CASE k \in DOMAIN sendq[a] /\ sendq'[a][k] = sendq[a][k]
      BY <1>4, <1>21, <3>1 DEF WholeInv, WholePackets
    <3>2. CASE a = n /\ sendq'[a][k] = packet
      <4>1. WholeMsgs(Append(Message(id0, len), Eot), typed')
        BY <2>1, MessageWhole
      <4> QED BY <2>3, <3>2, <4>1
    <3> QED BY <2>5, <3>1, <3>2 DEF Longer
  <2>7. \A id \in Ids, k \in Places1, a \in Node : InSend(World, id, a, k) => InSend(World', id, a, k)
    BY <2>5, WorldNow DEF InSend, Longer
  <2>8. Occurs(World', id0)
    <3> DEFINE k == Len(sendq[n]) + 1
    <3>1. k \in DOMAIN sendq'[n] /\ sendq'[n][k].msg[1] = Unit("type", id0)
      BY <2>2, <2>3, <2>5 DEF Longer
    <3>2. k \in Places1
      BY <2>4 DEF Places1
    <3> QED BY <3>1, <3>2, WorldNow DEF Occurs, InSend
  <2>9. Present'
    BY <1>25, <1>26, <2>7, <2>8 DEF Present
  <2> QED BY <1>4, <1>20, <1>22, <1>23, <2>6, <2>9 DEF WholeInv
<1> QED BY <1>27, <1>28

-----------------------------------------------------------------------------
(***************************************************************************)
(* From the places of the world to those that Accounted counts.            *)
(***************************************************************************)
Shape(t, id) ==
  LET b == Len(Buf(t.where))
  IN  CASE t.kind = "send" -> <<"sendq", t.where, t.k>>
        [] t.kind = "ui"   -> <<"uiq", t.where, t.k>>
        [] t.kind = "tab"  -> <<"tab", t.where, <<TabOf(tabs[t.where], id[1]), t.k>>>>
        [] t.kind = "pipe" -> IF t.k <= b THEN <<"server", t.where[2], t.k>>
                              ELSE <<"stream", t.where, t.k - b>>

LEMMA ShapeFacts ==
  \A id, n, k :
    /\ Shape(Place("send", n, k), id) = <<"sendq", n, k>>
    /\ Shape(Place("ui", n, k), id) = <<"uiq", n, k>>
    /\ Shape(Place("tab", n, k), id) = <<"tab", n, <<TabOf(tabs[n], id[1]), k>>>>
    /\ k <= Len(Buf(n)) => Shape(Place("pipe", n, k), id) = <<"server", n[2], k>>
    /\ ~(k <= Len(Buf(n))) => Shape(Place("pipe", n, k), id) = <<"stream", n, k - Len(Buf(n))>>
BY PlaceFacts DEF Shape

LEMMA ShownAre ==
  ASSUME NEW n, NEW x, NEW s
  PROVE  s \in Shown(n, x) <=> \E i \in FindTab(tabs[n], x) : \E k \in From(x, tabs[n][i]) : s = <<i, k>>
BY DEF Shown

LEMMA PlacesAre ==
  ASSUME NEW id, NEW q
  PROVE  q \in Places(id) <=>
           \/ \E n \in Node : \E k \in DOMAIN sendq[n] :
                sendq[n][k].msg[1] = Unit("type", id) /\ q = <<"sendq", n, k>>
           \/ \E n \in Node : \E k \in DOMAIN server[n].buf :
                server[n].buf[k] = Unit("type", id) /\ q = <<"server", n, k>>
           \/ \E n \in Node : \E k \in DOMAIN uiq[n] :
                uiq[n][k].text = Text(id, Length(id, typed)) /\ q = <<"uiq", n, k>>
           \/ \E n \in Node : \E s \in Shown(n, id[1]) :
                n # id[1] /\ tabs[n][s[1]].msgs[s[2]] = Text(id, Length(id, typed)) /\ q = <<"tab", n, s>>
           \/ \E l \in Link : \E k \in DOMAIN stream[l] :
                stream[l][k] = Unit("type", id) /\ q = <<"stream", l, k>>
<1> DEFINE head == Unit("type", id)
           text == Text(id, Length(id, typed))
           Sends(n) == {<<"sendq", n, k>> : k \in {i \in DOMAIN sendq[n] : sendq[n][i].msg[1] = head}}
           Buffers(n) == {<<"server", n, k>> : k \in {i \in DOMAIN server[n].buf : server[n].buf[i] = head}}
           Uis(n) == {<<"uiq", n, k>> : k \in {i \in DOMAIN uiq[n] : uiq[n][i].text = text}}
           Seen(n) == {<<"tab", n, s>> : s \in {r \in Shown(n, id[1]) :
                                                  n # id[1] /\ tabs[n][r[1]].msgs[r[2]] = text}}
           Streams(l) == {<<"stream", l, k>> : k \in {i \in DOMAIN stream[l] : stream[l][i] = head}}
<1>1. Places(id) = (UNION {Sends(n) \cup Buffers(n) \cup Uis(n) \cup Seen(n) : n \in Node})
                   \cup (UNION {Streams(l) : l \in Link})
  BY DEF Places, Length
<1>2. \A n \in Node : q \in Sends(n) <=> \E k \in DOMAIN sendq[n] :
        sendq[n][k].msg[1] = head /\ q = <<"sendq", n, k>>
  OBVIOUS
<1>3. \A n \in Node : q \in Buffers(n) <=> \E k \in DOMAIN server[n].buf :
        server[n].buf[k] = head /\ q = <<"server", n, k>>
  OBVIOUS
<1>4. \A n \in Node : q \in Uis(n) <=> \E k \in DOMAIN uiq[n] : uiq[n][k].text = text /\ q = <<"uiq", n, k>>
  OBVIOUS
<1>5. \A n \in Node : q \in Seen(n) <=> \E s \in Shown(n, id[1]) :
        n # id[1] /\ tabs[n][s[1]].msgs[s[2]] = text /\ q = <<"tab", n, s>>
  OBVIOUS
<1>6. \A l \in Link : q \in Streams(l) <=> \E k \in DOMAIN stream[l] :
        stream[l][k] = head /\ q = <<"stream", l, k>>
  OBVIOUS
<1> HIDE DEF Sends, Buffers, Uis, Seen, Streams, head, text
<1>7. q \in Places(id) <=>
        \/ \E n \in Node : q \in Sends(n) \/ q \in Buffers(n) \/ q \in Uis(n) \/ q \in Seen(n)
        \/ \E l \in Link : q \in Streams(l)
  <2> DEFINE Here(n) == Sends(n) \cup Buffers(n) \cup Uis(n) \cup Seen(n)
  <2>1. \A n : q \in Here(n) <=> q \in Sends(n) \/ q \in Buffers(n) \/ q \in Uis(n) \/ q \in Seen(n)
    OBVIOUS
  <2>2. Places(id) = (UNION {Here(n) : n \in Node}) \cup (UNION {Streams(l) : l \in Link})
    BY <1>1
  <2> HIDE DEF Here
  <2> DEFINE S == UNION {Here(n) : n \in Node}
             T == UNION {Streams(l) : l \in Link}
  <2>3. q \in S <=> \E n \in Node : q \in Here(n)
    OBVIOUS
  <2>4. q \in T <=> \E l \in Link : q \in Streams(l)
    OBVIOUS
  <2>5. Places(id) = S \cup T
    BY <2>2
  <2> HIDE DEF S, T
  <2>6. q \in S <=> \E n \in Node : q \in Sends(n) \/ q \in Buffers(n) \/ q \in Uis(n) \/ q \in Seen(n)
    BY <2>1, <2>3
  <2> QED BY <2>4, <2>5, <2>6
<1>8. q \in Places(id) <=>
        \/ \E n \in Node : \E k \in DOMAIN sendq[n] : sendq[n][k].msg[1] = head /\ q = <<"sendq", n, k>>
        \/ \E n \in Node : \E k \in DOMAIN server[n].buf : server[n].buf[k] = head /\ q = <<"server", n, k>>
        \/ \E n \in Node : \E k \in DOMAIN uiq[n] : uiq[n][k].text = text /\ q = <<"uiq", n, k>>
        \/ \E n \in Node : \E s \in Shown(n, id[1]) :
             n # id[1] /\ tabs[n][s[1]].msgs[s[2]] = text /\ q = <<"tab", n, s>>
        \/ \E l \in Link : \E k \in DOMAIN stream[l] : stream[l][k] = head /\ q = <<"stream", l, k>>
  BY <1>2, <1>3, <1>4, <1>5, <1>6, <1>7
<1> QED BY <1>8 DEF head, text

\* Who has a tab has it at one place.
LEMMA TabPlace ==
  ASSUME TypeInv, NEW n \in Node, NEW x, NEW i \in FindTab(tabs[n], x)
  PROVE  TabOf(tabs[n], x) = i /\ i \in DOMAIN tabs[n] /\ tabs[n][i].user = x
<1> DEFINE S == FindTab(tabs[n], x)
<1>1. TabsOK(tabs[n], n, typed)
  BY DEF TypeInv, ScreenTypes
<1>2. S \in SUBSET Nat /\ S # {}
  BY <1>1 DEF TabsOK, FindTab
<1>3. Min(S) \in S
  BY <1>2, LeastElement
<1>4. \A j \in S : j = i
  BY <1>1 DEF TabsOK, FindTab
<1> QED BY <1>3, <1>4 DEF TabOf, FindTab

\* A text that counts in a tab of n is one of those typed for n, and whole.
LEMMA ReceivedText ==
  ASSUME TypeInv, NEW id \in Ids, NEW n \in Node, NEW i \in DOMAIN tabs[n], NEW k \in DOMAIN tabs[n][i].msgs,
         tabs[n][i].msgs[k].id = id, n # id[1]
  PROVE  TextOK(tabs[n][i].msgs[k], tabs[n][i].user, n, typed) /\ tabs[n][i].msgs[k] # Notice /\ id \in Local
<1>1. TabOK(tabs[n][i], n, typed)
  BY DEF TypeInv, ScreenTypes, TabsOK
<1>2. id # <<>>
  BY IdNotNone
<1> QED BY <1>1, <1>2, NoticeFacts DEF TabOK, TextOK, Local

LEMMA TextIs == \A t \in Texts : t = Text(t.id, t.parts)
BY DEF Texts, Text

\* Where the world has a text is a place of it.
LEMMA AtPlaces ==
  ASSUME TypeInv, WholeInv, NEW id \in Ids, NEW t, At(World, id, t)
  PROVE  Shape(t, id) \in Places(id)
<1>1. PICK k \in Places1 :
        \/ id \in Local /\ InTab(World, id, k) /\ t = Place("tab", id[2], k)
        \/ id \in Local /\ InUi(World, id, k) /\ t = Place("ui", id[2], k)
        \/ \E l \in Link : InPipe(World, id, l, k) /\ t = Place("pipe", l, k)
        \/ \E a \in Node : InSend(World, id, a, k) /\ t = Place("send", a, k)
  BY DEF At
<1>2. id # <<>> /\ id[1] # id[2]
  BY IdNotNone, IdFacts
<1> DEFINE text == Text(id, Length(id, typed))
<1>3. CASE id \in Local /\ InTab(World, id, k) /\ t = Place("tab", id[2], k)
  <2> DEFINE n == id[2]
  <2>1. PICK i \in DOMAIN tabs[n] :
          tabs[n][i].user = id[1] /\ k \in DOMAIN tabs[n][i].msgs /\ tabs[n][i].msgs[k].id = id
    BY <1>3, WorldNow DEF InTab
  <2>2. n \in Node /\ n # id[1]
    BY <1>2, <1>3 DEF Local
  <2>3. tabs[n][i].msgs[k] # Notice
    BY <2>1, <2>2, ReceivedText
  <2>4. tabs[n][i].msgs[k].parts = Length(id, typed)
    BY <2>1, <2>2, <2>3 DEF WholeInv, WholeTabs, FullText
  <2>5. tabs[n][i].msgs[k] \in Texts
    <3>1. tabs[n][i] \in Tabs
      BY <2>1, <2>2 DEF TypeInv, ScreenTypes, TabsOK, TabOK
    <3> QED BY <2>1, <3>1 DEF Tabs
  <2>6. tabs[n][i].msgs[k] = text
    BY <2>1, <2>4, <2>5, TextIs
  <2>7. i \in FindTab(tabs[n], id[1]) /\ k \in From(id[1], tabs[n][i])
    BY <2>1, <2>3 DEF FindTab, From
  <2>8. <<i, k>> \in Shown(n, id[1]) /\ <<i, k>>[1] = i /\ <<i, k>>[2] = k
    BY <2>7, ShownAre
  <2>9. <<"tab", n, <<i, k>>>> \in Places(id)
    BY <2>2, <2>6, <2>8, PlacesAre
  <2>10. Shape(t, id) = <<"tab", n, <<i, k>>>>
    <3>1. TabOf(tabs[n], id[1]) = i
      BY <2>2, <2>7, TabPlace
    <3> QED BY <1>3, <3>1, ShapeFacts
  <2> QED BY <2>9, <2>10
<1>4. CASE id \in Local /\ InUi(World, id, k) /\ t = Place("ui", id[2], k)
  <2> DEFINE n == id[2]
  <2>1. n \in Node /\ k \in DOMAIN uiq[n] /\ uiq[n][k].text.id = id
    BY <1>4, WorldNow DEF InUi, Local
  <2>2. uiq[n][k].text # Notice
    BY <1>2, <2>1, NoticeFacts
  <2>3. uiq[n][k].text.parts = Length(id, typed)
    BY <1>2, <2>1, <2>2 DEF WholeInv, WholeNews, FullText
  <2>4. uiq[n][k].text \in Texts
    <3>1. uiq[n] \in Seq(News)
      BY <2>1 DEF TypeInv, ScreenTypes
    <3>2. uiq[n][k] \in News
      BY <2>1, <3>1
    <3> QED BY <3>2 DEF News
  <2>5. uiq[n][k].text = text
    BY <2>1, <2>3, <2>4, TextIs
  <2>6. <<"uiq", n, k>> \in Places(id)
    BY <2>1, <2>5, PlacesAre
  <2> QED BY <1>4, <2>6, ShapeFacts
<1>5. ASSUME NEW l \in Link, InPipe(World, id, l, k), t = Place("pipe", l, k)
      PROVE  Shape(t, id) \in Places(id)
  <2> DEFINE p == Pipe(l)
             b == Buf(l)
             s == stream[l]
  <2>1. k \in DOMAIN p /\ p[k] = Unit("type", id) /\ k \in Nat /\ k > 0
    BY <1>5, WorldNow DEF InPipe, Places1
  <2>2. b \in Seq(Units) /\ s \in Seq(Units) /\ p = b \o s /\ l[2] \in Node
    BY PipeFacts
  <2> HIDE DEF p, b, s
  <2>3. Joined(p, Units, b, s)
    BY <2>2, ConcatFacts
  <2>4. Len(b) \in Nat /\ Len(s) \in Nat /\ DOMAIN b = 1 .. Len(b) /\ DOMAIN s = 1 .. Len(s)
    BY <2>2
  <2>5. k \in 1 .. Len(b) + Len(s) /\ p[k] = IF k <= Len(b) THEN b[k] ELSE s[k - Len(b)]
    BY <2>1, <2>3 DEF Joined
  <2>6. CASE k <= Len(b)
    <3>1. k \in DOMAIN b /\ b[k] = Unit("type", id)
      BY <2>1, <2>4, <2>5, <2>6
    <3>2. b # <<>>
      BY <2>4, <3>1
    <3>3. b = server[l[2]].buf
      BY <3>2 DEF Buf, b
    <3>4. <<"server", l[2], k>> \in Places(id)
      BY <2>2, <3>1, <3>3, PlacesAre
    <3> QED BY <1>5, <2>6, <3>4, ShapeFacts DEF b
  <2>7. CASE ~(k <= Len(b))
    <3>1. k - Len(b) \in DOMAIN s /\ s[k - Len(b)] = Unit("type", id)
      BY <2>1, <2>4, <2>5, <2>7
    <3>2. <<"stream", l, k - Len(b)>> \in Places(id)
      BY <3>1, PlacesAre DEF s
    <3> QED BY <1>5, <2>7, <3>2, ShapeFacts DEF b
  <2> QED BY <2>6, <2>7
<1>6. ASSUME NEW a \in Node, InSend(World, id, a, k), t = Place("send", a, k)
      PROVE  Shape(t, id) \in Places(id)
  <2>1. k \in DOMAIN sendq[a] /\ sendq[a][k].msg[1] = Unit("type", id)
    BY <1>6, WorldNow DEF InSend
  <2>2. <<"sendq", a, k>> \in Places(id)
    BY <2>1, PlacesAre
  <2> QED BY <1>6, <2>2, ShapeFacts
<1> QED BY <1>1, <1>3, <1>4, <1>5, <1>6

\* A place of a text is where the world has it.
LEMMA PlacesAt ==
  ASSUME TypeInv, ReadsOthers, NEW id \in Ids, NEW q \in Places(id)
  PROVE  \E t : At(World, id, t) /\ q = Shape(t, id)
<1> DEFINE text == Text(id, Length(id, typed))
<1>1. text.id = id /\ id # <<>>
  BY IdNotNone DEF Text
<1>2. ASSUME NEW n \in Node, NEW k \in DOMAIN sendq[n], sendq[n][k].msg[1] = Unit("type", id),
             q = <<"sendq", n, k>>
      PROVE  \E t : At(World, id, t) /\ q = Shape(t, id)
  <2>1. k \in Places1
    <3>1. sendq[n] \in Seq(Packets)
      BY DEF TypeInv, WireTypes
    <3> QED BY <3>1 DEF Places1
  <2>2. InSend(World, id, n, k)
    BY <1>2, WorldNow DEF InSend
  <2>3. At(World, id, Place("send", n, k))
    BY <2>1, <2>2 DEF At
  <2> QED BY <1>2, <2>3, ShapeFacts
<1>3. ASSUME NEW l \in Link, NEW k \in Nat, k > 0, InPipe(World, id, l, k),
             q = IF k <= Len(Buf(l)) THEN <<"server", l[2], k>> ELSE <<"stream", l, k - Len(Buf(l))>>
      PROVE  \E t : At(World, id, t) /\ q = Shape(t, id)
  <2>1. At(World, id, Place("pipe", l, k))
    BY <1>3 DEF At, Places1
  <2>2. q = Shape(Place("pipe", l, k), id)
    BY <1>3, ShapeFacts
  <2> QED BY <2>1, <2>2
<1>4. ASSUME NEW n \in Node, NEW k \in DOMAIN server[n].buf, server[n].buf[k] = Unit("type", id),
             q = <<"server", n, k>>
      PROVE  \E t : At(World, id, t) /\ q = Shape(t, id)
  <2> DEFINE m == server[n].from
             l == <<m, n>>
             b == Buf(l)
             s == stream[l]
             p == Pipe(l)
  <2>1. server[n] \in Servers /\ server[n].from # n
    BY DEF TypeInv, WireTypes, ReadsOthers
  <2>2. server[n].buf # <<>>
    BY <2>1, <1>4
  <2>3. m \in Node /\ m # n
    BY <2>1, <2>2 DEF TypeInv, WireTypes, Servers
  <2>4. l \in Link /\ l[2] = n /\ b = server[n].buf
    BY <2>3 DEF Link, Buf
  <2>5. b \in Seq(Units) /\ s \in Seq(Units) /\ p = b \o s
    BY <2>4, PipeFacts
  <2>6. k \in DOMAIN b /\ b[k] = Unit("type", id)
    BY <1>4, <2>4
  <2>7. \A i : i \in DOMAIN p /\ p[i] = Unit("type", id) => InPipe(World, id, l, i)
    BY <2>4, WorldNow DEF InPipe
  <2> HIDE DEF b, s, p, l, m
  <2>8. Joined(p, Units, b, s)
    BY <2>5, ConcatFacts
  <2>9. Len(b) \in Nat /\ Len(s) \in Nat /\ DOMAIN b = 1 .. Len(b)
    BY <2>5
  <2>10. k \in Nat /\ k > 0 /\ k <= Len(b) /\ k \in 1 .. Len(b) + Len(s)
    BY <2>6, <2>9
  <2>11. k \in DOMAIN p /\ p[k] = b[k]
    BY <2>8, <2>9, <2>10 DEF Joined
  <2>12. InPipe(World, id, l, k)
    BY <2>6, <2>7, <2>11
  <2> QED BY <1>3, <1>4, <2>4, <2>10, <2>12 DEF b
<1>5. ASSUME NEW l \in Link, NEW i \in DOMAIN stream[l], stream[l][i] = Unit("type", id), q = <<"stream", l, i>>
      PROVE  \E t : At(World, id, t) /\ q = Shape(t, id)
  <2> DEFINE b == Buf(l)
             s == stream[l]
             p == Pipe(l)
             k == Len(b) + i
  <2>1. b \in Seq(Units) /\ s \in Seq(Units) /\ p = b \o s
    BY PipeFacts
  <2>2. i \in DOMAIN s /\ s[i] = Unit("type", id)
    BY <1>5
  <2>3. \A j : j \in DOMAIN p /\ p[j] = Unit("type", id) => InPipe(World, id, l, j)
    BY WorldNow DEF InPipe
  <2> HIDE DEF b, s, p
  <2>4. Joined(p, Units, b, s)
    BY <2>1, ConcatFacts
  <2>5. Len(b) \in Nat /\ Len(s) \in Nat /\ DOMAIN s = 1 .. Len(s)
    BY <2>1
  <2>6. k \in Nat /\ k > 0 /\ ~(k <= Len(b)) /\ k \in 1 .. Len(b) + Len(s) /\ k - Len(b) = i
    BY <2>2, <2>5
  <2> HIDE DEF k
  <2>7. k \in DOMAIN p /\ p[k] = s[i]
    BY <2>4, <2>5, <2>6 DEF Joined
  <2>8. InPipe(World, id, l, k)
    BY <2>2, <2>3, <2>7
  <2>9. q = <<"stream", l, k - Len(b)>>
    BY <1>5, <2>6
  <2> QED BY <1>3, <2>6, <2>8, <2>9 DEF b
<1>6. ASSUME NEW n \in Node, NEW k \in DOMAIN uiq[n], uiq[n][k].text = text, q = <<"uiq", n, k>>
      PROVE  \E t : At(World, id, t) /\ q = Shape(t, id)
  <2>1. NewsOK(uiq[n], n, typed)
    BY DEF TypeInv, ScreenTypes
  <2>2. text # Notice
    BY <1>1, NoticeFacts
  <2>3. id[2] = n /\ k \in Places1
    BY <1>1, <1>6, <2>1, <2>2 DEF NewsOK, TextOK, Places1
  <2>4. id \in Local /\ InUi(World, id, k)
    BY <1>1, <1>6, <2>3, WorldNow DEF InUi, Local
  <2>5. At(World, id, Place("ui", id[2], k))
    BY <2>3, <2>4 DEF At
  <2> QED BY <1>6, <2>3, <2>5, ShapeFacts
<1>7. ASSUME NEW n \in Node, n # id[1], NEW s \in Shown(n, id[1]), tabs[n][s[1]].msgs[s[2]] = text,
             q = <<"tab", n, s>>
      PROVE  \E t : At(World, id, t) /\ q = Shape(t, id)
  <2>0. PICK i \in FindTab(tabs[n], id[1]) : \E k \in From(id[1], tabs[n][i]) : s = <<i, k>>
    BY ShownAre
  <2>1. PICK k \in From(id[1], tabs[n][i]) : s = <<i, k>>
    BY <2>0
  <2>2. s[1] = i /\ s[2] = k
    BY <2>1
  <2>3. TabOf(tabs[n], id[1]) = i /\ i \in DOMAIN tabs[n] /\ tabs[n][i].user = id[1]
    BY TabPlace
  <2>4. k \in DOMAIN tabs[n][i].msgs /\ tabs[n][i].msgs[k].id = id
    BY <1>1, <1>7, <2>2 DEF From
  <2>5. id[2] = n /\ id \in Local
    <3>1. TextOK(tabs[n][i].msgs[k], tabs[n][i].user, n, typed) /\ id \in Local
      BY <1>7, <2>3, <2>4, ReceivedText
    <3> QED BY <2>4, <3>1 DEF TextOK
  <2>6. k \in Places1
    <3>1. tabs[n][i] \in Tabs
      BY <2>3 DEF TypeInv, ScreenTypes, TabsOK, TabOK
    <3>2. tabs[n][i].msgs \in Seq(Texts)
      BY <3>1 DEF Tabs
    <3> QED BY <2>4, <3>2 DEF Places1
  <2>7. InTab(World, id, k)
    BY <2>3, <2>4, <2>5, WorldNow DEF InTab
  <2>8. At(World, id, Place("tab", id[2], k))
    BY <2>5, <2>6, <2>7 DEF At
  <2> QED BY <1>7, <2>1, <2>3, <2>5, <2>8, ShapeFacts
<1> QED BY <1>2, <1>4, <1>5, <1>6, <1>7, PlacesAre

LEMMA AccountHolds == AccountInv => Accounted
<1> SUFFICES ASSUME AccountInv, intact, NEW p \in Node \X Names, NEW k \in DOMAIN typed[p]
             PROVE  Cardinality(Places(<<p[1], p[2], k>>)) = 1
  BY DEF Accounted
<1> DEFINE id == <<p[1], p[2], k>>
           P == Places(id)
<1>1. TypeInv /\ WholeInv /\ Present /\ Once(World) /\ NotSelf /\ ReadsOthers
  BY DEF AccountInv, OrderInv
<1>2. p[1] \in Node /\ p[2] \in Names /\ p = <<p[1], p[2]>> /\ p \in Node \X Users2
  BY DEF Users2
<1>3. k \in Nat
  <2> DEFINE sizes == 1 .. BufSize - 3
             s == typed[p]
  <2>1. s \in Seq(sizes)
    BY <1>1, <1>2 DEF TypeInv, Histories
  <2>2. k \in DOMAIN s
    OBVIOUS
  <2> HIDE DEF s, sizes
  <2> QED BY <2>1, <2>2
<1>4. p[1] # p[2]
  <2>1. ASSUME p[1] = p[2] PROVE FALSE
    <3>1. typed[<<p[1], p[1]>>] = <<>> /\ p = <<p[1], p[1]>>
      BY <1>1, <1>2, <2>1 DEF NotSelf
    <3>2. typed[p] = <<>>
      BY <3>1
    <3> QED BY <3>2
  <2> QED BY <2>1
<1>5. id \in Ids /\ id[1] = p[1] /\ id[2] = p[2] /\ id[3] = k
  BY <1>2, <1>3, <1>4 DEF Ids
<1>6. Known(id, typed)
  BY <1>2, <1>5 DEF Known
<1> HIDE DEF id
<1>7. \E t : At(World, id, t)
  <2>1. Occurs(World, id)
    BY <1>1, <1>5, <1>6 DEF Present
  <2> QED BY <1>5, <2>1 DEF Occurs, At, Local
<1>8. PICK t : At(World, id, t)
  BY <1>7
<1>9. Shape(t, id) \in P
  BY <1>1, <1>5, <1>8, AtPlaces
<1>10. ASSUME NEW q \in P PROVE q = Shape(t, id)
  <2>1. PICK s : At(World, id, s) /\ q = Shape(s, id)
    BY <1>1, <1>5, PlacesAt
  <2>2. s = t
    BY <1>1, <1>5, <1>8, <2>1 DEF Once
  <2> QED BY <2>1, <2>2
<1> HIDE DEF P
<1>11. P = {Shape(t, id)}
  BY <1>9, <1>10
<1>12. Cardinality(P) = 1
  BY <1>11, FS_Singleton
<1> QED BY <1>12 DEF P, id

-----------------------------------------------------------------------------
LEMMA NotSelfKept == ASSUME TypeInv, NotSelf, [Next]_vars PROVE NotSelf'
<1> SUFFICES ASSUME typed' # typed PROVE NotSelf'
  BY DEF NotSelf
<1>1. PICK n \in Node, len \in 1 .. BufSize - 3 : Enter(n, len)
  BY DEF Next, AddForeignMessage, SwitchTab, Send, Read, vars
<1> DEFINE x == tabs[n][active[n]].user
           id == <<n, x, Len(typed[<<n, x>>]) + 1>>
<1>2. x \in Users2 /\ x # n
  <2>1. TabOK(tabs[n][active[n]], n, typed)
    BY DEF TypeInv, ScreenTypes, TabsOK
  <2> QED BY <2>1 DEF TabOK, Tabs
<1>3. typed' = [typed EXCEPT ![<<n, x>>] = Append(@, len)]
  BY <1>1 DEF Enter
<1> HIDE DEF x
<1>4. Typed(n, x, len, id)
  BY <1>2, <1>3, EnterHistory
<1>5. ASSUME NEW a \in Node PROVE typed'[<<a, a>>] = <<>>
  <2>1. <<a, a>> \in Node \X Users2 /\ <<a, a>> # <<n, x>>
    BY <1>2, NameFacts DEF Users2
  <2>2. typed'[<<a, a>>] = typed[<<a, a>>]
    BY <1>4, <2>1 DEF Typed
  <2> QED BY <2>2 DEF NotSelf
<1> QED BY <1>5 DEF NotSelf

LEMMA ReadsOthersKept == ASSUME TypeInv, ReadsOthers, [Next]_vars PROVE ReadsOthers'
<1> SUFFICES ASSUME server' # server PROVE ReadsOthers'
  BY DEF ReadsOthers
<1>1. PICK n \in Node : \E m \in Node \ {n} : Read(n, m)
  BY DEF Next, AddForeignMessage, SwitchTab, Enter, Send, vars, wires
<1>2. PICK m \in Node \ {n} : Read(n, m)
  BY <1>1
<1>3. server \in [Node -> Servers]
  BY DEF TypeInv, WireTypes
<1>4. PICK v : server' = [server EXCEPT ![n] = v] /\ v.from \in {m, NoName}
  <2>1. PICK k \in 1 .. Len(stream[<<m, n>>]) :
          LET piece == server[n].buf \o SubSeq(stream[<<m, n>>], 1, k)
              reads == server[n].reads + 1
          IN  \/ server' = [server EXCEPT ![n] = [from |-> m, buf |-> piece, reads |-> reads]]
              \/ server' = [server EXCEPT ![n] = Ready]
    BY <1>2 DEF Read
  <2> DEFINE reading == [from |-> m, buf |-> server[n].buf \o SubSeq(stream[<<m, n>>], 1, k),
                         reads |-> server[n].reads + 1]
  <2>2. server' = [server EXCEPT ![n] = reading] \/ server' = [server EXCEPT ![n] = Ready]
    BY <2>1
  <2>3. reading.from = m /\ Ready.from = NoName
    BY DEF Ready
  <2> HIDE DEF reading
  <2> QED BY <2>2, <2>3
<1>5. v.from # n
  BY <1>4, NameFacts
<1> QED BY <1>3, <1>4, <1>5 DEF ReadsOthers

-----------------------------------------------------------------------------
LEMMA InitAccount == Init => AccountInv
<1> SUFFICES ASSUME Init PROVE AccountInv
  OBVIOUS
<1>1. OrderInv /\ TypeInv
  BY InitOrder DEF OrderInv
<1>2. ASSUME NEW id \in Ids PROVE ~Known(id, typed)
  <2>1. <<id[1], id[2]>> \in Node \X (Names \cup {System})
    BY IdFacts
  <2>2. typed[<<id[1], id[2]>>] = <<>>
    BY <2>1 DEF Init
  <2>3. DOMAIN typed[<<id[1], id[2]>>] = {}
    BY <2>2
  <2> QED BY <2>3 DEF Known
<1>3. \A id \in Ids : \A t : ~At(World, id, t)
  <2> SUFFICES ASSUME NEW id \in Ids, NEW t, At(World, id, t) PROVE FALSE
    OBVIOUS
  <2>1. Occurs(World, id)
    BY DEF At, Occurs, Local
  <2> QED BY <1>1, <1>2, <2>1, OccursKnown
<1>4. Once(World) /\ Present
  BY <1>2, <1>3 DEF Once, Present
<1>5. NotSelf
  BY NameFacts DEF Init, NotSelf
<1>6. ReadsOthers
  BY NameFacts DEF Init, Ready, ReadsOthers
<1>7. WholePipes
  <2>1. \A l \in Link : Pipe(l) = <<>>
    BY LinkFacts, NameFacts DEF Init, Pipe, Buf, Ready
  <2>2. WholeMsgs(<<>>, typed)
    BY DEF WholeMsgs
  <2> QED BY <2>1, <2>2 DEF WholePipes
<1>8. WholePackets
  BY DEF Init, WholePackets
<1>9. WholeNews
  BY DEF Init, WholeNews, FullText
<1>10. WholeTabs
  <2> SUFFICES ASSUME NEW n \in Node, NEW i \in DOMAIN tabs[n], NEW k \in DOMAIN tabs[n][i].msgs
               PROVE  tabs[n][i].msgs[k] = Notice
    BY DEF WholeTabs, FullText
  <2>1. tabs[n] = <<[user |-> System, msgs |-> <<Notice>>, unread |-> FALSE]>>
    BY DEF Init
  <2> QED BY <2>1
<1> QED BY <1>1, <1>4, <1>5, <1>6, <1>7, <1>8, <1>9, <1>10 DEF AccountInv, WholeInv

LEMMA NextAccount == AccountInv /\ [Next]_vars => AccountInv'
<1> SUFFICES ASSUME AccountInv, [Next]_vars PROVE AccountInv'
  OBVIOUS
<1>1. OrderInv /\ TypeInv /\ Once(World) /\ NotSelf /\ ReadsOthers /\ (intact => WholeInv /\ Present)
  BY DEF AccountInv, OrderInv
<1>2. OrderInv' /\ NotSelf' /\ ReadsOthers'
  BY <1>1, NextOrder, NotSelfKept, ReadsOthersKept
<1>3. Once(World')
  BY <1>1, NextMoves, OnceMoves
<1>4. ASSUME intact' PROVE WholeInv' /\ Present'
  <2>1. CASE UNCHANGED vars
    <3>1. intact /\ UNCHANGED <<typed, sendq, stream, server, uiq, tabs>>
      BY <1>4, <2>1 DEF vars, wires, screens
    <3>2. \A l \in Link : Pipe(l)' = Pipe(l)
      BY <3>1 DEF Pipe, Buf
    <3>3. WholeInv'
      BY <1>1, <3>1, <3>2 DEF WholeInv, WholePipes, WholePackets, WholeNews, WholeTabs
    <3>4. World' = World
      BY <3>1, <3>2 DEF World
    <3> QED BY <1>1, <3>1, <3>3, <3>4 DEF Present
  <2>2. ASSUME NEW n \in Node, AddForeignMessage(n) PROVE WholeInv' /\ Present'
    BY <1>1, <1>4, <2>2, ForeignKeeps
  <2>3. ASSUME NEW n \in Node, SwitchTab(n) PROVE WholeInv' /\ Present'
    <3>1. intact
      BY <1>4, <2>3 DEF SwitchTab
    <3> QED BY <1>1, <2>3, <3>1, SwitchKeeps
  <2>4. ASSUME NEW n \in Node, NEW len \in 1 .. BufSize - 3, Enter(n, len) PROVE WholeInv' /\ Present'
    BY <1>1, <1>4, <2>4, EnterKeeps
  <2>5. ASSUME NEW n \in Node, Send(n) PROVE WholeInv' /\ Present'
    <3>1. intact
      BY <1>4, <2>5 DEF Send
    <3> QED BY <1>1, <2>5, <3>1, SendKeeps
  <2>6. ASSUME NEW n \in Node, NEW m \in Node \ {n}, Read(n, m) PROVE WholeInv' /\ Present'
    BY <1>1, <1>4, <2>6, ReadKeeps
  <2> QED BY <2>1, <2>2, <2>3, <2>4, <2>5, <2>6 DEF Next
<1> QED BY <1>2, <1>3, <1>4 DEF AccountInv

\* While no read cuts or merges, no queue and no tab is full and no route is
\* missing, every text that was typed is in exactly one place: a send queue, a
\* stream, the buffer of read_tcp, the queue of the user interface or the tab
\* of its receiver.  No handler loses a text or has it twice
\* (src/src/sender.c:120, src/src/tcp_con.c:20, src/src/protocol.c:106,
\* src/src/ui.c:219).
THEOREM TextsAccounted == Spec => []Accounted
BY InitAccount, NextAccount, AccountHolds, PTL DEF Spec
=============================================================================
