---------------------------- MODULE WriteBack_proofs ----------------------------
(***************************************************************************)
(* Theorems about WriteBack.                                               *)
(***************************************************************************)
EXTENDS WriteBack, FiniteSetTheorems, NaturalsInduction, WellFoundedInduction, TLAPS

(* The bytes of a tag, and of what is put on one.  The bytes that the model names   *)
(* are listed, for the provers do not know that a literal is in STRING.             *)
Octet ==
  STRING \cup {"00", "03", "10", "E1", "rw", "FE", "FF", "hi"}
    \cup {"04", "U", "T", "e", "n", "vcard", "wsc", "bt", ":", "CR", "LF", "|", "_",
          "Version", "v1", "Credential", "NetworkIndex", "01", "Ssid", "AuthType", "WPA2",
          "EncrType", "AES", "NetworkKey", "MacAddress",
          "BEGIN", "VCARD", "VERSION", "4", "FN", "TEL", "EMAIL", "END",
          "sms:", "?body=", "mailto:", "?", "subject=", "&", "body=", "geo:", "tel:",
          "https://", "www.", "search?q=", "maps/"}
    \cup {HeaderByte[h] : h \in Headers} \cup {Byte[n] : n \in Nat}

LEMMA Sizes ==
  /\ MessageMax \in Nat /\ MessageMax > 0 /\ OneByteMax \in Nat /\ OneByteMax > 0
  /\ Lengths = 0..(MessageMax + 4)
BY MessageSizesAssumption DEF Lengths

(* A length is read as it is stored *)
LEMMA ByteNumber ==
  ASSUME NEW n \in Lengths
  PROVE  IsNumber(Byte[n]) /\ Number(Byte[n]) = n /\ Amount(Byte[n]) = n /\ Byte[n] \in Octet
<1>1. IsNumber(Byte[n])
  BY DEF IsNumber
<1>2. Number(Byte[n]) = n
  <2>1. \E k \in Lengths : Byte[k] = Byte[n]
    OBVIOUS
  <2>2. Number(Byte[n]) \in Lengths /\ Byte[Number(Byte[n])] = Byte[n]
    BY <2>1 DEF Number
  <2> QED BY <2>2, BytesAssumption
<1>3. Byte[n] \in Octet
  BY BytesAssumption DEF Octet
<1> QED BY <1>1, <1>2, <1>3 DEF Amount

LEMMA AmountIs == ASSUME NEW b PROVE Amount(b) \in Lengths
<1>1. CASE IsNumber(b)
  BY <1>1 DEF IsNumber, Number, Amount
<1>2. CASE ~IsNumber(b)
  BY <1>2, Sizes DEF Amount
<1> QED BY <1>1, <1>2

-----------------------------------------------------------------------------
(***************************************************************************)
(* Recursive functions over positions.  A definition f[p] == ... f[x] ...  *)
(* is a CHOOSE: it has its equation if a function with that equation       *)
(* exists, which the least number of positions for which there is none     *)
(* would contradict.                                                       *)
(***************************************************************************)
LEMMA LeastOf ==
  ASSUME NEW D, D \subseteq Nat, D # {}
  PROVE  \E n \in D : \A k \in D : n <= k
<1>1. \E x \in D : \A y \in D : ~(<<y, x>> \in OpToRel(<, Nat))
  BY NatLessThanWellFounded, WFMin
<1>2. PICK x \in D : \A y \in D : ~(<<y, x>> \in OpToRel(<, Nat))
  BY <1>1
<1>3. \A y \in D : x <= y
  <2> TAKE y \in D
  <2>1. x \in Nat /\ y \in Nat
    OBVIOUS
  <2>2. ~(y < x)
    BY <1>2, <2>1 DEF OpToRel
  <2> QED BY <2>1, <2>2
<1> QED BY <1>3

ScanFrom(N, B, A, X, f) == [p \in 1..N |-> IF p \in B THEN A[p] ELSE f[X[p]]]
CollectFrom(N, B, A, H, X, f) == [p \in 1..N |-> IF p \in B THEN A[p] ELSE H[p] \o f[X[p]]]

(* A scan that ends at some positions and goes on behind the others *)
LEMMA ScanExists ==
  ASSUME NEW N \in Nat, NEW B, NEW A, NEW X,
         \A p \in 1..N : p \notin B => X[p] \in (p + 1)..N
  PROVE  \E f : f = ScanFrom(N, B, A, X, f)
<1> DEFINE Eq(f, m) == f = [p \in (N - m + 1)..N |-> IF p \in B THEN A[p] ELSE f[X[p]]]
           D == {m \in 0..N : ~\E f : Eq(f, m)}
<1>1. ASSUME D # {}
      PROVE  FALSE
  <2>1. PICK m \in D : \A k \in D : m <= k
    <3>1. D \subseteq 0..N
      OBVIOUS
    <3> HIDE DEF D
    <3>2. D \subseteq Nat
      BY <3>1
    <3> QED BY <1>1, <3>2, LeastOf
  <2>2. m \in 0..N /\ ~\E f : Eq(f, m)
    OBVIOUS
  <2>3. m # 0
    <3>1. (N - 0 + 1)..N = {}
      OBVIOUS
    <3>2. Eq([p \in {} |-> 0], 0)
      BY <3>1
    <3> QED BY <2>2, <3>2
  <2>4. m - 1 \in 0..N /\ ~(m <= m - 1)
    BY <2>2, <2>3
  <2>5. PICK f : Eq(f, m - 1)
    BY <2>1, <2>4
  <2> DEFINE q == N - m + 1
             g == [p \in q..N |-> IF p = q THEN (IF q \in B THEN A[q] ELSE f[X[q]]) ELSE f[p]]
  <2>6. Eq(g, m)
    <3>1. ASSUME NEW p \in q..N
          PROVE  g[p] = IF p \in B THEN A[p] ELSE g[X[p]]
      <4>1. p \in 1..N
        BY <2>2, <2>3
      <4>2. CASE p = q
        BY <4>1, <4>2, <2>2, <2>3
      <4>3. CASE p # q
        BY <4>1, <4>3, <2>2, <2>3, <2>5
      <4> QED BY <4>2, <4>3
    <3> QED BY <3>1
  <2> QED BY <2>2, <2>6
<1>2. N \in 0..N
  OBVIOUS
<1>3. \E f : Eq(f, N)
  <2> HIDE DEF Eq
  <2> QED BY <1>1, <1>2
<1>4. N - N + 1 = 1
  OBVIOUS
<1> QED BY <1>3, <1>4 DEF ScanFrom

(* The same, with what the positions add *)
LEMMA CollectionExists ==
  ASSUME NEW N \in Nat, NEW B, NEW A, NEW X, NEW H,
         \A p \in 1..N : p \notin B => X[p] \in (p + 1)..N
  PROVE  \E f : f = CollectFrom(N, B, A, H, X, f)
<1> DEFINE Eq(f, m) == f = [p \in (N - m + 1)..N |-> IF p \in B THEN A[p] ELSE H[p] \o f[X[p]]]
           D == {m \in 0..N : ~\E f : Eq(f, m)}
<1>1. ASSUME D # {}
      PROVE  FALSE
  <2>1. PICK m \in D : \A k \in D : m <= k
    <3>1. D \subseteq 0..N
      OBVIOUS
    <3> HIDE DEF D
    <3>2. D \subseteq Nat
      BY <3>1
    <3> QED BY <1>1, <3>2, LeastOf
  <2>2. m \in 0..N /\ ~\E f : Eq(f, m)
    OBVIOUS
  <2>3. m # 0
    <3>1. (N - 0 + 1)..N = {}
      OBVIOUS
    <3>2. Eq([p \in {} |-> 0], 0)
      BY <3>1
    <3> QED BY <2>2, <3>2
  <2>4. m - 1 \in 0..N /\ ~(m <= m - 1)
    BY <2>2, <2>3
  <2>5. PICK f : Eq(f, m - 1)
    BY <2>1, <2>4
  <2> DEFINE q == N - m + 1
             g == [p \in q..N |-> IF p = q THEN (IF q \in B THEN A[q] ELSE H[q] \o f[X[q]]) ELSE f[p]]
  <2>6. Eq(g, m)
    <3>1. ASSUME NEW p \in q..N
          PROVE  g[p] = IF p \in B THEN A[p] ELSE H[p] \o g[X[p]]
      <4>1. p \in 1..N
        BY <2>2, <2>3
      <4>2. p \notin B => X[p] \in q..N /\ X[p] # q
        BY <4>1, <2>2, <2>3
      <4>3. p \notin B => g[X[p]] = f[X[p]]
        BY <4>2
      <4>4. CASE p = q
        BY <4>3, <4>4
      <4>5. CASE p # q
        <5>1. p \in (N - (m - 1) + 1)..N
          BY <4>5, <2>2, <2>3
        <5>2. g[p] = f[p] /\ f[p] = IF p \in B THEN A[p] ELSE H[p] \o f[X[p]]
          BY <5>1, <4>5, <2>5
        <5> QED BY <4>3, <5>2
      <4> QED BY <4>4, <4>5
    <3> QED BY <3>1
  <2> QED BY <2>2, <2>6
<1>2. N \in 0..N
  OBVIOUS
<1>3. \E f : Eq(f, N)
  <2> HIDE DEF Eq
  <2> QED BY <1>1, <1>2
<1>4. N - N + 1 = 1
  OBVIOUS
<1> QED BY <1>3, <1>4 DEF CollectFrom

-----------------------------------------------------------------------------
(***************************************************************************)
(* What the scanners of a TLV area make of it.                             *)
(***************************************************************************)
LengthAt(data, s) == IF s < Len(data) /\ data[s + 1] = "FF" THEN s + 3 ELSE s + 1
Whole(data, s) ==
  LET at == LengthAt(data, s)
  IN  at <= Len(data) /\ IsNumber(data[at]) /\ at + Number(data[at]) <= Len(data)
Tlv_(status, type, value, next) == [status |-> status, type |-> type, value |-> value, next |-> next]
TlvAt(data, s) ==
  IF data[s] = "FE" THEN Tlv_("none", "", <<>>, s + 1)
  ELSE IF ~Whole(data, s) THEN Tlv_("truncated", "", <<>>, Len(data) + 1)
  ELSE LET at == LengthAt(data, s)
       IN  Tlv_("ok", data[s], SubSeq(data, at + 1, at + Number(data[at])), at + Number(data[at]) + 1)

(* The next TLV starts at the first byte that is not the NULL TLV *)
LEMMA TlvNextIs ==
  ASSUME NEW data, Len(data) \in Nat, NEW p \in Nat
  PROVE  \/ /\ \A i \in p..Len(data) : data[i] = "00"
            /\ TlvNext(data, p) = Tlv_("none", "", <<>>, Len(data) + 1)
         \/ \E s \in p..Len(data) : /\ \A i \in p..(s - 1) : data[i] = "00"
                                    /\ data[s] # "00"
                                    /\ TlvNext(data, p) = TlvAt(data, s)
<1> DEFINE starts == {i \in p..Len(data) : data[i] # "00"}
<1>1. CASE starts = {}
  <2>1. TlvNext(data, p) = Tlv_("none", "", <<>>, Len(data) + 1)
    BY <1>1 DEF TlvNext, Tlv_
  <2> QED BY <1>1, <2>1
<1>2. CASE starts # {}
  <2> DEFINE s == CHOOSE i \in starts : \A j \in starts : i <= j
  <2>1. s \in starts /\ \A j \in starts : s <= j
    <3>1. starts \subseteq Nat
      OBVIOUS
    <3> HIDE DEF starts
    <3>2. \E i \in starts : \A j \in starts : i <= j
      BY <3>1, <1>2, LeastOf
    <3> QED BY <3>2
  <2>2. s \in p..Len(data) /\ data[s] # "00" /\ \A i \in p..(s - 1) : data[i] = "00"
    <3>1. s \in p..Len(data) /\ data[s] # "00"
      BY <2>1
    <3>2. ASSUME NEW i \in p..(s - 1), data[i] # "00" PROVE FALSE
      <4> HIDE DEF s
      <4>1. i \in p..Len(data) /\ ~(s <= i)
        BY <3>1
      <4> QED BY <4>1, <3>2, <2>1
    <3> QED BY <3>1, <3>2
  <2>3. TlvNext(data, p) = TlvAt(data, s)
    <3> DEFINE at == LengthAt(data, s)
    <3>1. TlvNext(data, p) =
            IF data[s] = "FE" THEN Tlv_("none", "", <<>>, s + 1)
            ELSE IF at > Len(data) \/ ~IsNumber(data[at]) \/ at + Number(data[at]) > Len(data)
                 THEN Tlv_("truncated", "", <<>>, Len(data) + 1)
            ELSE Tlv_("ok", data[s], SubSeq(data, at + 1, at + Number(data[at])),
                      at + Number(data[at]) + 1)
      BY <1>2, ZenonT(60) DEF TlvNext, LengthAt, Tlv_
    <3> HIDE DEF s, at
    <3>3. CASE data[s] = "FE"
      BY <3>1, <3>3 DEF TlvAt
    <3>4. CASE data[s] # "FE" /\ ~Whole(data, s)
      <4>1. at \in Nat
        BY <2>2 DEF at, LengthAt
      <4>2. at > Len(data) \/ ~IsNumber(data[at]) \/ at + Number(data[at]) > Len(data)
        BY <3>4, <4>1, Sizes DEF Whole, at, IsNumber, Number
      <4> QED BY <3>1, <3>4, <4>2 DEF TlvAt
    <3>5. CASE data[s] # "FE" /\ Whole(data, s)
      <4>1. at \in Nat
        BY <2>2 DEF at, LengthAt
      <4>2. ~(at > Len(data) \/ ~IsNumber(data[at]) \/ at + Number(data[at]) > Len(data))
        BY <3>5, <4>1, Sizes DEF Whole, at, IsNumber, Number
      <4> QED BY <3>1, <3>5, <4>2 DEF TlvAt, at
    <3> QED BY <3>3, <3>4, <3>5
  <2> QED BY <2>2, <2>3
<1> QED BY <1>1, <1>2

LEMMA TlvAtIs ==
  ASSUME NEW data, NEW s
  PROVE  /\ data[s] = "FE" => TlvAt(data, s).status = "none"
         /\ data[s] # "FE" /\ ~Whole(data, s) => TlvAt(data, s).status = "truncated"
         /\ data[s] # "FE" /\ Whole(data, s) =>
              LET at == LengthAt(data, s)
              IN  /\ TlvAt(data, s).status = "ok"
                  /\ TlvAt(data, s).type = data[s]
                  /\ TlvAt(data, s).value = SubSeq(data, at + 1, at + Number(data[at]))
                  /\ TlvAt(data, s).next = at + Number(data[at]) + 1
<1>1. CASE data[s] = "FE"
  BY <1>1 DEF TlvAt, Tlv_
<1>2. CASE data[s] # "FE" /\ ~Whole(data, s)
  BY <1>2 DEF TlvAt, Tlv_
<1>3. CASE data[s] # "FE" /\ Whole(data, s)
  BY <1>3 DEF TlvAt, Tlv_
<1> QED BY <1>1, <1>2, <1>3

(* A TLV ends behind where it starts *)
LEMMA TlvNextOk ==
  ASSUME NEW data, Len(data) \in Nat, NEW p \in Nat, TlvNext(data, p).status = "ok"
  PROVE  TlvNext(data, p).next \in (p + 1)..(Len(data) + 1)
<1>1. PICK s \in p..Len(data) : TlvNext(data, p) = TlvAt(data, s)
  <2>1. Tlv_("none", "", <<>>, Len(data) + 1).status # "ok"
    BY DEF Tlv_
  <2> QED BY <2>1, TlvNextIs
<1>2. data[s] # "FE" /\ Whole(data, s)
  BY <1>1, TlvAtIs
<1> DEFINE at == LengthAt(data, s)
<1>3. at \in Nat /\ at > s
  BY DEF LengthAt
<1>4. Number(data[at]) \in Nat /\ at + Number(data[at]) <= Len(data)
  BY <1>2, Sizes DEF Whole, IsNumber, Number
<1>5. TlvNext(data, p).next = at + Number(data[at]) + 1
  BY <1>1, <1>2, TlvAtIs
<1> HIDE DEF at
<1> QED BY <1>3, <1>4, <1>5

(* FindMessage and ParseTlvArea are what their loops compute *)
FoundFrom(data, from, p) ==
  LET t == TlvNext(data, p) IN IF t.status # "ok" \/ t.type = "03" THEN t ELSE from[t.next]
LEMMA FindMessageIs ==
  ASSUME NEW data, Len(data) \in Nat
  PROVE  \E from : /\ from = [p \in 1..(Len(data) + 1) |-> FoundFrom(data, from, p)]
                   /\ FindMessage(data) = from[1]
<1> DEFINE C == {p \in 1..(Len(data) + 1) :
                   TlvNext(data, p).status # "ok" \/ TlvNext(data, p).type = "03"}
           A == [p \in 1..(Len(data) + 1) |-> TlvNext(data, p)]
           X == [p \in 1..(Len(data) + 1) |-> TlvNext(data, p).next]
<1>1. ASSUME NEW p \in 1..(Len(data) + 1), p \notin C
      PROVE  X[p] \in (p + 1)..(Len(data) + 1)
  <2>1. p \in Nat /\ (p \in C <=> TlvNext(data, p).status # "ok" \/ TlvNext(data, p).type = "03")
    OBVIOUS
  <2> HIDE DEF C
  <2>2. TlvNext(data, p).status = "ok"
    BY <1>1, <2>1
  <2> QED BY <2>1, <2>2, TlvNextOk
<1>2. \E from : from = [p \in 1..(Len(data) + 1) |-> IF p \in C THEN A[p] ELSE from[X[p]]]
  <2> DEFINE N == Len(data) + 1
  <2>1. N \in Nat
    OBVIOUS
  <2> HIDE DEF A, C, X
  <2>2. \A p \in 1..N : p \notin C => X[p] \in (p + 1)..N
    BY <1>1
  <2> HIDE DEF N
  <2>3. \E f : f = ScanFrom(N, C, A, X, f)
    BY <2>1, <2>2, ScanExists
  <2> QED BY <2>3 DEF N, ScanFrom
<1>3. ASSUME NEW from
      PROVE  [p \in 1..(Len(data) + 1) |-> IF p \in C THEN A[p] ELSE from[X[p]]]
               = [p \in 1..(Len(data) + 1) |-> FoundFrom(data, from, p)]
  BY DEF FoundFrom
<1>4. \E from : from = [p \in 1..(Len(data) + 1) |-> FoundFrom(data, from, p)]
  <2>1. PICK from : from = [p \in 1..(Len(data) + 1) |-> IF p \in C THEN A[p] ELSE from[X[p]]]
    BY <1>2
  <2>2. from = [p \in 1..(Len(data) + 1) |-> FoundFrom(data, from, p)]
    <3> HIDE DEF A, C, X
    <3> QED BY <2>1, <1>3
  <2> QED BY <2>2
<1> QED BY <1>4 DEF FindMessage, FoundFrom

ParsedFrom(data, from, p) ==
  LET t == TlvNext(data, p)
  IN  CASE t.status = "none" -> <<>>
        [] t.status = "truncated" -> << <<"truncated">> >>
        [] OTHER -> (IF t.type = "03" THEN <<t.value>> ELSE <<>>) \o from[t.next]
LEMMA ParseTlvAreaIs ==
  ASSUME NEW data, Len(data) \in Nat
  PROVE  \E from : /\ from = [p \in 1..(Len(data) + 1) |-> ParsedFrom(data, from, p)]
                   /\ ParseTlvArea(data) = from[1]
<1> DEFINE C == {p \in 1..(Len(data) + 1) : TlvNext(data, p).status \in {"none", "truncated"}}
           A == [p \in 1..(Len(data) + 1) |->
                   IF TlvNext(data, p).status = "none" THEN <<>> ELSE << <<"truncated">> >>]
           H == [p \in 1..(Len(data) + 1) |->
                   IF TlvNext(data, p).type = "03" THEN <<TlvNext(data, p).value>> ELSE <<>>]
           X == [p \in 1..(Len(data) + 1) |-> TlvNext(data, p).next]
<1>1. ASSUME NEW p \in 1..(Len(data) + 1), p \notin C
      PROVE  X[p] \in (p + 1)..(Len(data) + 1)
  <2>1. TlvNext(data, p).status \in {"none", "truncated", "ok"}
    <3>1. Tlv_("none", "", <<>>, Len(data) + 1).status = "none"
      BY DEF Tlv_
    <3>2. ASSUME NEW s PROVE TlvAt(data, s).status \in {"none", "truncated", "ok"}
      BY TlvAtIs
    <3>3. p \in Nat
      OBVIOUS
    <3> QED BY <3>1, <3>2, <3>3, TlvNextIs, ZenonT(60)
  <2>2. p \in Nat /\ (p \in C <=> TlvNext(data, p).status \in {"none", "truncated"})
    OBVIOUS
  <2> HIDE DEF C
  <2>3. TlvNext(data, p).status = "ok"
    BY <1>1, <2>1, <2>2
  <2> QED BY <2>2, <2>3, TlvNextOk
<1>2. \E from : from = [p \in 1..(Len(data) + 1) |-> IF p \in C THEN A[p] ELSE H[p] \o from[X[p]]]
  <2> DEFINE N == Len(data) + 1
  <2>1. N \in Nat
    OBVIOUS
  <2> HIDE DEF A, C, X, H
  <2>2. \A p \in 1..N : p \notin C => X[p] \in (p + 1)..N
    BY <1>1
  <2> HIDE DEF N
  <2>3. \E f : f = CollectFrom(N, C, A, H, X, f)
    BY <2>1, <2>2, CollectionExists
  <2> QED BY <2>3 DEF N, CollectFrom
<1>3. ASSUME NEW from
      PROVE  [p \in 1..(Len(data) + 1) |-> IF p \in C THEN A[p] ELSE H[p] \o from[X[p]]]
               = [p \in 1..(Len(data) + 1) |-> ParsedFrom(data, from, p)]
  <2>1. ASSUME NEW p \in 1..(Len(data) + 1)
        PROVE  (IF p \in C THEN A[p] ELSE H[p] \o from[X[p]]) = ParsedFrom(data, from, p)
    <3>1. CASE TlvNext(data, p).status = "none"
      BY <3>1 DEF ParsedFrom
    <3>2. CASE TlvNext(data, p).status = "truncated"
      BY <3>2 DEF ParsedFrom
    <3>3. CASE TlvNext(data, p).status \notin {"none", "truncated"}
      BY <3>3 DEF ParsedFrom
    <3> QED BY <3>1, <3>2, <3>3
  <2> HIDE DEF A, C, X, H
  <2> QED BY <2>1
<1>4. \E from : from = [p \in 1..(Len(data) + 1) |-> ParsedFrom(data, from, p)]
  <2>1. PICK from : from = [p \in 1..(Len(data) + 1) |->
                              IF p \in C THEN A[p] ELSE H[p] \o from[X[p]]]
    BY <1>2
  <2>2. from = [p \in 1..(Len(data) + 1) |-> ParsedFrom(data, from, p)]
    <3> HIDE DEF A, C, X, H
    <3> QED BY <2>1, <1>3
  <2> QED BY <2>2
<1> QED BY <1>4 DEF ParseTlvArea, ParsedFrom

-----------------------------------------------------------------------------
(***************************************************************************)
(* A message in its TLV.                                                   *)
(***************************************************************************)
IsMessage(m) == m \in Seq(Octet) /\ Len(m) \in 1..MessageMax
HeaderLen(n) == IF n <= OneByteMax THEN 2 ELSE 4

LEMMA LengthFieldIs ==
  ASSUME NEW n \in 1..MessageMax
  PROVE  /\ LengthField(n) \in Seq(Octet) /\ Len(LengthField(n)) = HeaderLen(n) - 1
         /\ n <= OneByteMax => LengthField(n)[1] = Byte[n] /\ Byte[n] # "FF"
         /\ n > OneByteMax => LengthField(n)[1] = "FF" /\ LengthField(n)[3] = Byte[n]
<1>1. n \in Lengths /\ n \in Nat
  BY Sizes
<1>2. Byte[n] \in Octet /\ "FF" \in Octet /\ "hi" \in Octet
  BY <1>1, ByteNumber DEF Octet
<1>3. CASE n <= OneByteMax
  BY <1>1, <1>2, <1>3, BytesAssumption, Sizes DEF LengthField, HeaderLen
<1>4. CASE n > OneByteMax
  <2>1. LengthField(n) = <<"FF", "hi", Byte[n]>> /\ HeaderLen(n) = 4
    BY <1>1, <1>4, Sizes DEF LengthField, HeaderLen
  <2>2. LengthField(n) \in Seq(Octet)
    BY <1>2, <2>1
  <2>3. Len(LengthField(n)) = 3 /\ LengthField(n)[1] = "FF" /\ LengthField(n)[3] = Byte[n]
    BY <2>1
  <2> QED BY <1>1, <1>4, <2>1, <2>2, <2>3, Sizes
<1> QED BY <1>1, <1>3, <1>4, Sizes

LEMMA TlvIs ==
  ASSUME NEW m, IsMessage(m)
  PROVE  LET t == Tlv(m)
             h == HeaderLen(Len(m))
         IN  /\ t \in Seq(Octet) /\ Len(t) = EnvelopeLen(Len(m)) /\ Len(t) = h + Len(m) + 1
             /\ t[1] = "03" /\ t[Len(t)] = "FE"
             /\ \A i \in 1..(h - 1) : t[i + 1] = LengthField(Len(m))[i]
             /\ \A i \in 1..Len(m) : t[h + i] = m[i]
<1> DEFINE l == LengthField(Len(m))
           h == HeaderLen(Len(m))
<1>1. m \in Seq(Octet) /\ Len(m) \in Nat /\ l \in Seq(Octet) /\ Len(l) = h - 1 /\ h \in Nat /\ h > 1
  BY LengthFieldIs, Sizes DEF IsMessage, HeaderLen
<1>2. <<"03">> \in Seq(Octet) /\ <<"FE">> \in Seq(Octet)
  BY DEF Octet
<1>3. EnvelopeLen(Len(m)) = h + Len(m) + 1
  BY <1>1, Sizes DEF EnvelopeLen, HeaderLen
<1> HIDE DEF l, h
<1>4. Tlv(m) = <<"03">> \o l \o m \o <<"FE">>
  BY DEF Tlv, l
<1>5. /\ Tlv(m) \in Seq(Octet) /\ Len(Tlv(m)) = h + Len(m) + 1
      /\ Tlv(m)[1] = "03" /\ Tlv(m)[h + Len(m) + 1] = "FE"
  <2>1. <<"03">> \o l \in Seq(Octet) /\ Len(<<"03">> \o l) = h /\ (<<"03">> \o l)[1] = "03"
    BY <1>1, <1>2
  <2> DEFINE a == <<"03">> \o l
  <2> HIDE DEF a
  <2>2. a \o m \in Seq(Octet) /\ Len(a \o m) = h + Len(m) /\ (a \o m)[1] = "03"
    BY <1>1, <2>1 DEF a
  <2> DEFINE b == a \o m
  <2>3. Tlv(m) = b \o <<"FE">>
    BY <1>4 DEF a
  <2> HIDE DEF b
  <2>4. b \in Seq(Octet) /\ Len(b) = h + Len(m) /\ b[1] = "03"
    BY <2>2 DEF b
  <2>5. b \o <<"FE">> \in Seq(Octet) /\ Len(b \o <<"FE">>) = Len(b) + 1
    BY <1>2, <2>4
  <2>6. (b \o <<"FE">>)[1] = b[1] /\ (b \o <<"FE">>)[Len(b) + 1] = "FE"
    BY <1>1, <2>4
  <2> QED BY <2>3, <2>4, <2>5, <2>6
<1>6. ASSUME NEW i \in 1..(h - 1) PROVE Tlv(m)[i + 1] = l[i]
  BY <1>1, <1>2, <1>4
<1>7. ASSUME NEW i \in 1..Len(m) PROVE Tlv(m)[h + i] = m[i]
  BY <1>1, <1>2, <1>4
<1> QED BY <1>3, <1>5, <1>6, <1>7 DEF l, h

(* The bytes begin like the message's TLV, as far as they go *)
Begins(data, m) ==
  /\ data \in Seq(Octet) /\ Len(data) \in Nat
  /\ \A i \in 1..Len(data) : i <= Len(Tlv(m)) => data[i] = Tlv(m)[i]

LEMMA FirstTlv ==
  ASSUME NEW data, NEW m, IsMessage(m), Begins(data, m), Len(data) >= 1
  PROVE  /\ data[1] = "03" /\ TlvNext(data, 1) = TlvAt(data, 1)
         /\ Whole(data, 1) <=> Len(data) >= Len(Tlv(m)) - 1
         /\ Len(data) >= Len(Tlv(m)) - 1 =>
              /\ LengthAt(data, 1) = HeaderLen(Len(m))
              /\ Number(data[LengthAt(data, 1)]) = Len(m)
<1> DEFINE h == HeaderLen(Len(m))
           t == Tlv(m)
<1>1. /\ Len(t) = h + Len(m) + 1 /\ t[1] = "03" /\ Len(m) \in 1..MessageMax /\ h \in {2, 4}
      /\ \A i \in 1..(h - 1) : t[i + 1] = LengthField(Len(m))[i]
      /\ h = IF Len(m) <= OneByteMax THEN 2 ELSE 4
  BY TlvIs DEF IsMessage, HeaderLen
<1>2. Len(data) \in Nat /\ \A i \in 1..Len(data) : i <= Len(t) => data[i] = t[i]
  BY DEF Begins
<1>3. Len(m) \in Nat /\ Len(m) >= 1 /\ Len(m) \in Lengths
  BY <1>1, Sizes
<1>4. IsNumber(Byte[Len(m)]) /\ Number(Byte[Len(m)]) = Len(m)
  BY <1>3, ByteNumber
<1> HIDE DEF h, t
<1>5. data[1] = "03"
  BY <1>1, <1>2, <1>3
<1>6. TlvNext(data, 1) = TlvAt(data, 1)
  <2>1. \/ \A i \in 1..Len(data) : data[i] = "00"
        \/ \E s \in 1..Len(data) : /\ \A i \in 1..(s - 1) : data[i] = "00"
                                   /\ TlvNext(data, 1) = TlvAt(data, s)
    BY <1>2, TlvNextIs
  <2>2. 1 \in 1..Len(data)
    BY <1>2
  <2>3. PICK s \in 1..Len(data) : /\ \A i \in 1..(s - 1) : data[i] = "00"
                                  /\ TlvNext(data, 1) = TlvAt(data, s)
    BY <2>1, <2>2, <1>5
  <2>4. s = 1
    BY <2>3, <1>5, <1>2
  <2> QED BY <2>3, <2>4
<1>7. CASE Len(m) <= OneByteMax
  <2>1. h = 2 /\ t[2] = Byte[Len(m)] /\ Byte[Len(m)] # "FF"
    <3>1. h = 2 /\ t[1 + 1] = LengthField(Len(m))[1]
      BY <1>1, <1>7
    <3>2. LengthField(Len(m))[1] = Byte[Len(m)] /\ Byte[Len(m)] # "FF"
      BY <1>1, <1>7, LengthFieldIs
    <3> QED BY <3>1, <3>2
  <2>2. LengthAt(data, 1) = 2
    BY <1>1, <1>2, <1>3, <2>1 DEF LengthAt
  <2>3. Len(data) >= 2 => data[2] = Byte[Len(m)]
    BY <1>1, <1>2, <1>3, <2>1
  <2>4. Whole(data, 1) <=> Len(data) >= 2 + Len(m)
    BY <1>2, <1>3, <1>4, <2>2, <2>3 DEF Whole
  <2> QED BY <1>1, <1>2, <1>3, <1>4, <1>5, <1>6, <2>1, <2>2, <2>3, <2>4 DEF h, t
<1>8. CASE Len(m) > OneByteMax
  <2>1. h = 4 /\ t[2] = "FF" /\ t[4] = Byte[Len(m)]
    <3>1. h = 4 /\ t[1 + 1] = LengthField(Len(m))[1] /\ t[3 + 1] = LengthField(Len(m))[3]
      BY <1>1, <1>8, <1>3, Sizes
    <3>2. LengthField(Len(m))[1] = "FF" /\ LengthField(Len(m))[3] = Byte[Len(m)]
      BY <1>1, <1>8, LengthFieldIs
    <3> QED BY <3>1, <3>2
  <2>2. Len(data) >= 2 => LengthAt(data, 1) = 4
    BY <1>1, <1>2, <1>3, <2>1 DEF LengthAt
  <2>3. Len(data) >= 4 => data[4] = Byte[Len(m)]
    BY <1>1, <1>2, <1>3, <2>1
  <2>4. Len(data) < 2 => LengthAt(data, 1) = 2
    BY <1>2 DEF LengthAt
  <2>5. Whole(data, 1) <=> Len(data) >= 4 + Len(m)
    BY <1>2, <1>3, <1>4, <2>2, <2>3, <2>4 DEF Whole
  <2> QED BY <1>1, <1>2, <1>3, <1>4, <1>5, <1>6, <2>1, <2>2, <2>3, <2>5 DEF h, t
<1> QED BY <1>3, <1>7, <1>8, Sizes

(* A message whose TLV is there, with or without its terminator, is found *)
LEMMA MessageFound ==
  ASSUME NEW data, NEW m, IsMessage(m), Begins(data, m), Len(data) >= Len(Tlv(m)) - 1
  PROVE  /\ FindMessage(data).status = "ok" /\ FindMessage(data).value = m
         /\ ParseTlvArea(data) = <<m>>
<1> DEFINE h == HeaderLen(Len(m))
           n == Len(Tlv(m))
           d == Len(data)
<1>1. /\ Len(m) \in Nat /\ Len(m) >= 1 /\ h \in Nat /\ h >= 2 /\ n = h + Len(m) + 1
      /\ d \in Nat /\ d >= n - 1
  BY TlvIs, Sizes DEF IsMessage, HeaderLen, Begins
<1>2. /\ Tlv(m)[n] = "FE"
      /\ \A i \in 1..Len(m) : Tlv(m)[h + i] = m[i]
      /\ \A i \in 1..d : i <= n => data[i] = Tlv(m)[i]
      /\ data \in Seq(Octet) /\ m \in Seq(Octet)
  BY TlvIs DEF IsMessage, Begins
<1>3. /\ data[1] = "03" /\ TlvNext(data, 1) = TlvAt(data, 1) /\ Whole(data, 1)
      /\ LengthAt(data, 1) = h /\ Number(data[LengthAt(data, 1)]) = Len(m)
  <2>1. d >= 1
    BY <1>1
  <2> HIDE DEF n, h
  <2> QED BY <1>1, <2>1, FirstTlv DEF n, h
<1> HIDE DEF h, n
<1>4. n \in Nat /\ n \in 1..(d + 1) /\ 1 \in 1..(d + 1) /\ h + Len(m) + 1 = n /\ h + Len(m) <= d
  BY <1>1
<1>5. /\ TlvNext(data, 1).status = "ok" /\ TlvNext(data, 1).type = "03"
      /\ TlvNext(data, 1).value = SubSeq(data, h + 1, h + Len(m)) /\ TlvNext(data, 1).next = n
  <2>1. data[1] # "FE"
    BY <1>3
  <2>2. /\ TlvAt(data, 1).status = "ok" /\ TlvAt(data, 1).type = data[1]
        /\ TlvAt(data, 1).value = SubSeq(data, h + 1, h + Len(m))
        /\ TlvAt(data, 1).next = h + Len(m) + 1
    BY <1>3, <2>1, TlvAtIs
  <2> QED BY <1>3, <1>4, <2>2
<1>6. SubSeq(data, h + 1, h + Len(m)) = m
  <2> DEFINE s == SubSeq(data, h + 1, h + Len(m))
  <2>1. s \in Seq(Octet) /\ Len(s) = Len(m)
    BY <1>1, <1>2, <1>4
  <2>2. ASSUME NEW i \in 1..Len(m) PROVE s[i] = m[i]
    <3>1. s[i] = data[h + 1 + i - 1]
      BY <1>1, <1>2, <1>4
    <3>2. h + 1 + i - 1 = h + i /\ h + i \in 1..d /\ h + i <= n
      BY <1>1, <1>4
    <3>3. data[h + i] = m[i]
      BY <1>2, <3>2
    <3> QED BY <3>1, <3>2, <3>3
  <2> HIDE DEF s
  <2>3. s = m
    BY <1>2, <2>1, <2>2
  <2> QED BY <2>3 DEF s
<1>7. FindMessage(data).status = "ok" /\ FindMessage(data).value = m
  <2>1. PICK from : /\ from = [p \in 1..(d + 1) |-> FoundFrom(data, from, p)]
                    /\ FindMessage(data) = from[1]
    BY <1>1, FindMessageIs
  <2> HIDE DEF d
  <2>2. from[1] = FoundFrom(data, from, 1)
    BY <1>4, <2>1
  <2>3. FoundFrom(data, from, 1) = TlvNext(data, 1)
    BY <1>5 DEF FoundFrom
  <2> QED BY <1>5, <1>6, <2>1, <2>2, <2>3
<1>8. ParseTlvArea(data) = <<m>>
  <2>1. PICK from : /\ from = [p \in 1..(d + 1) |-> ParsedFrom(data, from, p)]
                    /\ ParseTlvArea(data) = from[1]
    BY <1>1, ParseTlvAreaIs
  <2>2. from[1] = ParsedFrom(data, from, 1) /\ from[n] = ParsedFrom(data, from, n)
    <3> HIDE DEF d
    <3> QED BY <1>4, <2>1
  <2>3. TlvNext(data, n).status = "none"
    <3>1. CASE d < n
      <4>1. \A s \in n..d : FALSE
        BY <1>1, <1>4, <3>1
      <4>2. TlvNext(data, n) = Tlv_("none", "", <<>>, d + 1)
        BY <1>1, <1>4, <4>1, TlvNextIs
      <4>3. Tlv_("none", "", <<>>, d + 1).status = "none"
        BY DEF Tlv_
      <4> QED BY <4>2, <4>3
    <3>2. CASE d >= n
      <4>1. n \in 1..d /\ n \in n..d
        BY <1>1, <1>4, <3>2
      <4>2. data[n] = "FE"
        BY <1>2, <1>4, <4>1
      <4>3. PICK s \in n..d : /\ \A i \in n..(s - 1) : data[i] = "00"
                              /\ TlvNext(data, n) = TlvAt(data, s)
        BY <1>1, <1>4, <4>1, <4>2, TlvNextIs
      <4>4. s = n
        <5>1. s # n => n \in n..(s - 1)
          BY <1>1, <1>4
        <5> QED BY <4>2, <4>3, <5>1
      <4> QED BY <4>2, <4>3, <4>4, TlvAtIs
    <3>3. d < n \/ d >= n
      BY <1>1, <1>4
    <3> QED BY <3>1, <3>2, <3>3
  <2>4. from[n] = <<>>
    BY <2>2, <2>3 DEF ParsedFrom
  <2>5. from[1] = <<m>> \o <<>>
    <3>1. from[1] = <<TlvNext(data, 1).value>> \o from[TlvNext(data, 1).next]
      BY <2>2, <1>5 DEF ParsedFrom
    <3> QED BY <3>1, <2>4, <1>5, <1>6
  <2>6. <<m>> \o <<>> = <<m>>
    OBVIOUS
  <2> QED BY <2>1, <2>5, <2>6
<1> QED BY <1>7, <1>8

(* A message whose TLV is cut off is not found; nor is a terminator, if no     *)
(* byte up to there is one                                                     *)
LEMMA MessageCut ==
  ASSUME NEW data, NEW m, IsMessage(m), Begins(data, m), Len(data) < Len(Tlv(m)) - 1
  PROVE  /\ FindMessage(data).status # "ok"
         /\ Len(data) >= 1 => FindMessage(data).status = "truncated"
         /\ ~Contains(LengthField(Len(m)) \o m, "FE") =>
              ~Contains(data, "FE") /\ ~TlvComplete(data)
<1> DEFINE d == Len(data)
<1>1. d \in Nat /\ Len(Tlv(m)) \in Nat /\ 1 \in 1..(d + 1)
  BY TlvIs, Sizes DEF Begins, IsMessage, HeaderLen
<1>2. /\ TlvNext(data, 1).status # "ok"
      /\ d >= 1 => data[1] = "03" /\ TlvNext(data, 1).status = "truncated"
  <2>1. CASE d >= 1
    <3>1. data[1] = "03" /\ TlvNext(data, 1) = TlvAt(data, 1) /\ ~Whole(data, 1)
      BY <1>1, <2>1, FirstTlv
    <3>2. data[1] # "FE"
      BY <3>1
    <3>3. TlvAt(data, 1).status = "truncated"
      BY <3>1, <3>2, TlvAtIs
    <3> QED BY <3>1, <3>3
  <2>2. CASE ~(d >= 1)
    <3>1. \A s \in 1..d : FALSE
      BY <1>1, <2>2
    <3>2. TlvNext(data, 1) = Tlv_("none", "", <<>>, d + 1)
      BY <1>1, <3>1, TlvNextIs
    <3>3. TlvNext(data, 1).status = "none"
      <4>1. Tlv_("none", "", <<>>, d + 1).status = "none"
        BY DEF Tlv_
      <4> QED BY <3>2, <4>1
    <3> QED BY <2>2, <3>3
  <2> QED BY <2>1, <2>2
<1>3. FindMessage(data).status = TlvNext(data, 1).status
  <2>1. PICK from : /\ from = [p \in 1..(d + 1) |-> FoundFrom(data, from, p)]
                    /\ FindMessage(data) = from[1]
    BY <1>1, FindMessageIs
  <2> HIDE DEF d
  <2>2. from[1] = FoundFrom(data, from, 1)
    BY <1>1, <2>1
  <2> QED BY <1>2, <2>1, <2>2 DEF FoundFrom
<1>4. ASSUME NEW i \in 1..d, data[i] = "FE"
      PROVE  \E j \in 1..Len(LengthField(Len(m)) \o m) : (LengthField(Len(m)) \o m)[j] = "FE"
  <2> DEFINE l == LengthField(Len(m))
             h == HeaderLen(Len(m))
             n == Len(Tlv(m))
  <2>1. /\ Len(m) \in Nat /\ h \in Nat /\ h > 1 /\ n = h + Len(m) + 1 /\ Len(l) = h - 1
        /\ d \in Nat /\ d < n - 1 /\ i \in Nat /\ i >= 1 /\ i <= d
    BY TlvIs, LengthFieldIs, Sizes DEF IsMessage, HeaderLen, Begins
  <2>2. l \in Seq(Octet) /\ m \in Seq(Octet)
    BY LengthFieldIs DEF IsMessage
  <2>3. /\ \A k \in 1..(h - 1) : Tlv(m)[k + 1] = l[k]
        /\ \A k \in 1..Len(m) : Tlv(m)[h + k] = m[k]
        /\ Tlv(m)[1] = "03"
    BY TlvIs
  <2>4. data[i] = Tlv(m)[i]
    <3>1. i <= Len(Tlv(m))
      BY <2>1
    <3> QED BY <3>1 DEF Begins
  <2> HIDE DEF l, h, n
  <2>5. i > 1
    BY <1>4, <2>1, <2>3, <2>4
  <2>6. i - 1 \in 1..Len(l \o m) /\ Len(l \o m) = Len(l) + Len(m)
    BY <2>1, <2>2, <2>5
  <2>7. (l \o m)[i - 1] = "FE"
    <3>1. CASE i <= h
      <4>1. i - 1 \in 1..(h - 1) /\ (i - 1) + 1 = i /\ i - 1 <= Len(l)
        BY <2>1, <2>5, <3>1
      <4>2. l[i - 1] = "FE"
        BY <4>1, <2>3, <2>4, <1>4
      <4>3. (l \o m)[i - 1] = l[i - 1]
        BY <2>2, <2>6, <4>1
      <4> QED BY <4>2, <4>3
    <3>2. CASE i > h
      <4>1. i - h \in 1..Len(m) /\ h + (i - h) = i /\ i - 1 > Len(l) /\ i - 1 - Len(l) = i - h
        BY <2>1, <3>2
      <4>2. m[i - h] = "FE"
        BY <4>1, <2>3, <2>4, <1>4
      <4>3. (l \o m)[i - 1] = m[i - 1 - Len(l)]
        BY <2>2, <2>6, <4>1
      <4> QED BY <4>1, <4>2, <4>3
    <3>3. i <= h \/ i > h
      BY <2>1
    <3> QED BY <3>1, <3>2, <3>3
  <2> QED BY <2>6, <2>7 DEF l
<1>5. ~Contains(LengthField(Len(m)) \o m, "FE") => ~Contains(data, "FE")
  BY <1>4 DEF Contains
<1>6. FindMessage(data).status # "ok"
  BY <1>2, <1>3
<1> QED BY <1>2, <1>3, <1>5, <1>6 DEF TlvComplete

-----------------------------------------------------------------------------
(***************************************************************************)
(* What is put on a tag, and the part of it that a reader looks at.        *)
(***************************************************************************)
LEMMA UpIs ==
  ASSUME NEW n \in Nat, NEW u \in Nat, u > 0
  PROVE  Up(n, u) \in Nat /\ n <= u * Up(n, u) /\ u * Up(n, u) < n + u
<1> DEFINE k == n + u - 1
           q == k \div u
<1>1. q \in Nat /\ u * q <= k /\ k < u * q + u
  <2>1. k \in Nat /\ u \in Nat \ {0}
    OBVIOUS
  <2> HIDE DEF k
  <2> QED BY <2>1
<1>2. u * q \in Nat
  BY <1>1
<1> DEFINE r == u * q
<1>3. n <= r /\ r < n + u
  <2> HIDE DEF q
  <2>1. r \in Nat /\ r <= n + u - 1 /\ n + u - 1 < r + u
    BY <1>1, <1>2
  <2> HIDE DEF r
  <2> QED BY <2>1
<1> QED BY <1>1, <1>3 DEF Up

LEMMA UpFour ==
  ASSUME NEW n \in Nat
  PROVE  Up(n, 4) \in Nat /\ n <= 4 * Up(n, 4) /\ 4 * Up(n, 4) < n + 4
BY DEF Up
LEMMA UpEight ==
  ASSUME NEW n \in Nat
  PROVE  Up(n, 8) \in Nat /\ n <= 8 * Up(n, 8) /\ 8 * Up(n, 8) < n + 8
BY DEF Up

LEMMA PutIs ==
  ASSUME NEW mem \in Seq(Octet), NEW at \in Nat, at > 0, NEW b \in Seq(Octet)
  PROVE  LET w == Put(mem, at, b)
         IN  /\ w.ok <=> at + Len(b) - 1 <= Len(mem)
             /\ w.mem \in Seq(Octet) /\ Len(w.mem) = Len(mem)
             /\ \A i \in 1..Len(mem) : i < at \/ i > at + Len(b) - 1 => w.mem[i] = mem[i]
             /\ at + Len(b) - 1 <= Len(mem) => \A i \in 1..Len(b) : w.mem[at + i - 1] = b[i]
<1> DEFINE end == at + Len(b) - 1
           new == [i \in DOMAIN mem |-> IF i \in at..end THEN b[i - at + 1] ELSE mem[i]]
<1>1. Put(mem, at, b).ok = (end <= Len(mem)) /\ Put(mem, at, b).mem = new
  BY DEF Put, Result
<1>2. Len(mem) \in Nat /\ Len(b) \in Nat /\ DOMAIN mem = 1..Len(mem) /\ end \in Int
  OBVIOUS
<1>3. \A i \in 1..Len(mem) : new[i] \in Octet
  <2> TAKE i \in 1..Len(mem)
  <2>1. CASE i \in at..end
    <3>1. i - at + 1 \in 1..Len(b)
      BY <1>2, <2>1
    <3> QED BY <1>2, <2>1, <3>1
  <2>2. CASE i \notin at..end
    BY <1>2, <2>2
  <2> QED BY <2>1, <2>2
<1>4. new = [i \in 1..Len(mem) |-> new[i]]
  BY <1>2
<1>5. new \in Seq(Octet) /\ Len(new) = Len(mem)
  <2> HIDE DEF new
  <2> QED BY <1>2, <1>3, <1>4
<1>6. ASSUME NEW i \in 1..Len(mem), i < at \/ i > end PROVE new[i] = mem[i]
  BY <1>2, <1>6
<1>7. ASSUME end <= Len(mem), NEW i \in 1..Len(b) PROVE new[at + i - 1] = b[i]
  <2>1. at + i - 1 \in 1..Len(mem) /\ at + i - 1 \in at..end /\ (at + i - 1) - at + 1 = i
    BY <1>2, <1>7
  <2> QED BY <1>2, <2>1
<1> HIDE DEF new
<1> QED BY <1>1, <1>5, <1>6, <1>7

LEMMA PutKeeps ==
  ASSUME NEW mem \in Seq(Octet), NEW at \in Nat, at > 0, NEW b \in Seq(Octet),
         NEW i \in 1..Len(mem), i < at \/ i > at + Len(b) - 1
  PROVE  Put(mem, at, b).mem[i] = mem[i]
BY PutIs
LEMMA PutThere ==
  ASSUME NEW mem \in Seq(Octet), NEW at \in Nat, at > 0, NEW b \in Seq(Octet),
         NEW i \in 1..Len(b), at + Len(b) - 1 <= Len(mem)
  PROVE  Put(mem, at, b).mem[at + i - 1] = b[i]
BY PutIs

(* The TLV of a message is on the tag, in units of its own *)
Holds(mem, at, m) ==
  /\ mem \in Seq(Octet)
  /\ at + PageSize * Up(Len(Tlv(m)), PageSize) - 1 <= Len(mem)
  /\ \A i \in 1..Len(Tlv(m)) : mem[at + i - 1] = Tlv(m)[i]

LEMMA TlvUnits ==
  ASSUME NEW m, IsMessage(m)
  PROVE  /\ Len(Tlv(m)) \in Nat /\ Len(Tlv(m)) >= 4 /\ Len(Tlv(m)) <= MessageMax + 5
         /\ Len(Tlv(m)) = EnvelopeLen(Len(m)) /\ Len(Tlv(m)) <= EnvelopeLen(MessageMax)
         /\ Up(Len(Tlv(m)), PageSize) \in Nat
         /\ Len(Tlv(m)) <= 4 * Up(Len(Tlv(m)), PageSize)
         /\ 4 * Up(Len(Tlv(m)), PageSize) < Len(Tlv(m)) + 4
         /\ Up(Len(Tlv(m)), AreaUnit) \in Nat
         /\ Len(Tlv(m)) <= 8 * Up(Len(Tlv(m)), AreaUnit)
         /\ 8 * Up(Len(Tlv(m)), AreaUnit) < Len(Tlv(m)) + 8
<1> DEFINE n == Len(Tlv(m))
<1>1. Len(m) \in Nat /\ Len(m) >= 1 /\ Len(m) <= MessageMax /\ n = EnvelopeLen(Len(m))
  BY TlvIs, Sizes DEF IsMessage
<1>2. /\ EnvelopeLen(Len(m)) \in Nat /\ EnvelopeLen(Len(m)) >= 4
      /\ EnvelopeLen(Len(m)) <= MessageMax + 5
      /\ EnvelopeLen(Len(m)) <= EnvelopeLen(MessageMax)
  BY <1>1, Sizes DEF EnvelopeLen
<1>3. n \in Nat
  BY <1>1, <1>2
<1> HIDE DEF n
<1>4. Up(n, 4) \in Nat /\ n <= 4 * Up(n, 4) /\ 4 * Up(n, 4) < n + 4
  BY <1>3, UpFour
<1>5. Up(n, 8) \in Nat /\ n <= 8 * Up(n, 8) /\ 8 * Up(n, 8) < n + 8
  BY <1>3, UpEight
<1> QED BY <1>1, <1>2, <1>3, <1>4, <1>5 DEF n, PageSize, AreaUnit

LEMMA Joined ==
  ASSUME NEW a \in Seq(Octet), NEW b \in Seq(Octet)
  PROVE  /\ a \o b \in Seq(Octet) /\ Len(a \o b) = Len(a) + Len(b)
         /\ \A i \in 1..Len(a) : (a \o b)[i] = a[i]
         /\ \A i \in 1..Len(b) : (a \o b)[Len(a) + i] = b[i]
OBVIOUS

LEMMA WriteUnitsIs ==
  ASSUME NEW mem \in Seq(Octet), NEW at \in Nat, at > 0, NEW m, IsMessage(m)
  PROVE  LET w == WriteUnits(mem, at, Tlv(m))
         IN  /\ w.mem \in Seq(Octet) /\ Len(w.mem) = Len(mem)
             /\ \A i \in 1..Len(mem) : i < at => w.mem[i] = mem[i]
             /\ w.ok => Holds(w.mem, at, m)
<1> DEFINE t == Tlv(m)
           n == Len(t)
           pad == [i \in 1..(PageSize * Up(n, PageSize) - n) |-> "00"]
           b == t \o pad
           w == WriteUnits(mem, at, t)
<1>1. t \in Seq(Octet) /\ n \in Nat /\ Up(n, 4) \in Nat /\ n <= 4 * Up(n, 4)
  BY TlvIs, TlvUnits DEF PageSize
<1>2. pad \in Seq(Octet) /\ Len(pad) = 4 * Up(n, 4) - n
  <2>1. 4 * Up(n, 4) - n \in Nat
    BY <1>1
  <2>2. "00" \in Octet
    BY DEF Octet
  <2> DEFINE k == 4 * Up(n, 4) - n
  <2>3. pad = [i \in 1..k |-> "00"]
    BY DEF PageSize
  <2> HIDE DEF k, pad
  <2> QED BY <2>1, <2>2, <2>3 DEF k
<1> HIDE DEF pad, n
<1>3. b \in Seq(Octet) /\ Len(b) = 4 * Up(n, 4) /\ \A i \in 1..n : b[i] = t[i]
  <2> HIDE DEF t
  <2>1. b \in Seq(Octet) /\ Len(b) = Len(t) + Len(pad) /\ \A i \in 1..Len(t) : b[i] = t[i]
    BY ONLY <1>1, <1>2, Joined
  <2> HIDE DEF b, t
  <2> QED BY <1>1, <1>2, <2>1 DEF n
<1>4. w = Put(mem, at, b)
  BY DEF WriteUnits, pad, n
<1> HIDE DEF b, w
<1>5. /\ w.ok <=> at + 4 * Up(n, 4) - 1 <= Len(mem)
      /\ w.mem \in Seq(Octet) /\ Len(w.mem) = Len(mem)
      /\ \A i \in 1..Len(mem) : i < at => w.mem[i] = mem[i]
      /\ at + 4 * Up(n, 4) - 1 <= Len(mem) => \A i \in 1..Len(b) : w.mem[at + i - 1] = b[i]
  BY <1>3, <1>4, PutIs
<1>6. w.ok => Holds(w.mem, at, m)
  <2> HAVE w.ok
  <2>1. \A i \in 1..n : w.mem[at + i - 1] = t[i]
    <3> TAKE i \in 1..n
    <3>1. i \in 1..Len(b)
      BY <1>1, <1>3
    <3>2. w.mem[at + i - 1] = b[i]
      BY <1>5, <3>1
    <3> QED BY <1>3, <3>2
  <2> QED BY <1>5, <2>1 DEF Holds, PageSize, n
<1> QED BY <1>5, <1>6 DEF w

(* A reader that looks at the area up to its byte q *)
LEMMA AreaBegins ==
  ASSUME NEW mem, NEW at \in Nat, at > 0, NEW m, IsMessage(m), Holds(mem, at, m),
         NEW q \in Nat, q + 1 >= at, q <= Len(mem)
  PROVE  Begins(SubSeq(mem, at, q), m) /\ Len(SubSeq(mem, at, q)) = q - at + 1
<1> DEFINE s == SubSeq(mem, at, q)
           t == Tlv(m)
<1>1. mem \in Seq(Octet) /\ Len(mem) \in Nat /\ q - at + 1 \in Nat
  BY DEF Holds
<1>2. s \in Seq(Octet) /\ Len(s) = q - at + 1
  BY <1>1
<1>3. \A i \in 1..(q - at + 1) : s[i] = mem[at + i - 1]
  BY <1>1
<1>4. Len(t) \in Nat
  BY TlvUnits
<1>5. ASSUME NEW i \in 1..Len(s), i <= Len(t) PROVE s[i] = t[i]
  <2> HIDE DEF s, t
  <2>1. i \in 1..(q - at + 1) /\ i \in 1..Len(t)
    BY <1>2, <1>4, <1>5
  <2>2. mem[at + i - 1] = t[i]
    BY <2>1 DEF Holds, t
  <2> QED BY <1>3, <2>1, <2>2
<1> HIDE DEF s
<1> QED BY <1>1, <1>2, <1>5 DEF Begins, s

(* A reader that looks after each of some counts stops at the first one that *)
(* is enough for it, if there is one                                         *)
LEMMA StopExists ==
  ASSUME NEW C, NEW D, C \subseteq Nat, D \subseteq C, D # {}
  PROVE  \E n \in C : n \in D /\ \A k \in C : k < n => k \notin D
<1>1. PICK n \in D : \A k \in D : n <= k
  BY LeastOf
<1>2. \A k \in C : k < n => k \notin D
  <2> TAKE k \in C
  <2>1. k \in Nat /\ n \in Nat
    BY <1>1
  <2> QED BY <1>1, <2>1
<1> QED BY <1>1, <1>2
LEMMA StopOnly ==
  ASSUME NEW C, NEW D, C \subseteq Nat, D \subseteq C, D # {}, NEW n \in C,
         n \in D \/ \A k \in C : k <= n,
         \A k \in C : k < n => k \notin D
  PROVE  n \in D /\ \A k \in D : n <= k
<1>1. ASSUME NEW k \in D PROVE n <= k
  <2>1. k \in C /\ k \in Nat /\ n \in Nat
    OBVIOUS
  <2> QED BY <2>1
<1>2. n \in D
  <2>1. SUFFICES ASSUME n \notin D PROVE FALSE
    OBVIOUS
  <2>2. PICK k \in D : TRUE
    OBVIOUS
  <2>3. k \in C /\ k <= n /\ n <= k /\ k \in Nat /\ n \in Nat
    BY <1>1, <2>1, <2>2
  <2>4. k = n
    BY <2>3
  <2> QED BY <2>1, <2>2, <2>4
<1> QED BY <1>1, <1>2

-----------------------------------------------------------------------------
(***************************************************************************)
(* Type 2 tags.                                                            *)
(***************************************************************************)
Top == Tier["216"].last

LEMMA Tiers ==
  /\ Top \in Nat
  /\ \A s \in DOMAIN Tier : Tier[s].mlen \in Lengths /\ Tier[s].last \in Nat /\ Tier[s].last <= Top
  /\ St25tnLastPage \in Nat /\ St25tnLastPage <= Top /\ St25tnFallback \in Nat /\ St25tnFallback <= Top
  /\ {"213", "215", "216"} \subseteq DOMAIN Tier
BY GeometryAssumption DEF Top

LEMMA Groups ==
  /\ GroupPages \in Nat /\ GroupPages >= 2
  /\ PageSize * GroupPages \in Nat /\ PageSize * GroupPages >= 8
<1>1. GroupPages \in Nat /\ GroupPages >= 2
  BY GeometryAssumption
<1> QED BY <1>1 DEF PageSize

(* What a writer leaves on the tag *)
Holds2(mem, m) ==
  /\ Holds(mem, PageSize + 1, m)
  /\ Cc2(mem).valid /\ Cc2(mem).access = "rw" /\ Cc2(mem).mlen \in Nat
  /\ Len(Tlv(m)) <= 8 * Cc2(mem).mlen
  /\ CcPage + Up(Len(Tlv(m)), PageSize) <= Top
  /\ Len(mem) >= PageSize * GroupPages

LEMMA Cc2Is ==
  ASSUME NEW mem
  PROVE  /\ Cc2(mem).valid <=> mem[1] = "E1"
         /\ Cc2(mem).mlen = IF mem[1] = "E1" THEN Amount(mem[3]) ELSE 0
         /\ Cc2(mem).access = mem[4] /\ Cc2(mem).mlen \in Lengths
<1>1. 0 \in Lengths
  BY Sizes
<1> QED BY <1>1, AmountIs DEF Cc2

(* The writer's first page of a Type 2 tag lies within the tag's pages *)
LEMMA MaxPageIs ==
  ASSUME NEW t, Family2(t) # "unknown"
  PROVE  MaxPage(t) \in Nat /\ MaxPage(t) <= Top
<1> DEFINE mlen == Cc2(t.mem).mlen
<1>1. mlen \in Nat
  BY Cc2Is, Sizes
<1>2. LastPageOf(mlen) \in Nat
  <2>1. mlen * 8 \in Nat
    BY <1>1
  <2> DEFINE k == mlen * 8
  <2>3. k \in Nat
    BY <2>1
  <2> HIDE DEF k
  <2>2. Up(k, 4) \in Nat
    BY <2>3, UpFour
  <2> QED BY <2>2 DEF k, LastPageOf, AreaUnit, PageSize, CcPage
<1>3. CapOfMlen(mlen) \in Nat /\ CapOfMlen(mlen) <= Top
  BY Tiers DEF CapOfMlen
<1>4. OfVersion(t).last \in Nat /\ OfVersion(t).last <= Top
  BY Tiers DEF OfVersion
<1>5. Family2(t) \in {"ntag21x", "st25tn"}
  BY DEF Family2
<1> HIDE DEF mlen
<1>6. CASE Family2(t) = "ntag21x" /\ Cc2(t.mem).valid
  <2>1. MaxPage(t) = Least(LastPageOf(mlen), CapOfMlen(mlen))
    BY <1>6 DEF MaxPage, mlen
  <2> QED BY <1>2, <1>3, <2>1, Tiers DEF Least
<1>7. CASE Family2(t) = "ntag21x" /\ ~Cc2(t.mem).valid
  <2>1. MaxPage(t) = OfVersion(t).last
    BY <1>7 DEF MaxPage
  <2> QED BY <1>4, <2>1
<1>8. CASE Family2(t) = "st25tn"
  <2>1. MaxPage(t) = IF mlen = 0 THEN St25tnFallback ELSE Least(LastPageOf(mlen), St25tnLastPage)
    BY <1>8 DEF MaxPage, mlen
  <2> QED BY <1>2, <2>1, Tiers DEF Least
<1> QED BY <1>5, <1>6, <1>7, <1>8

(* The bytes of a tag *)
LEMMA OfLarger ==
  ASSUME NEW S, NEW R, S \subseteq R, NEW s \in Seq(S)
  PROVE  s \in Seq(R)
<1>1. Len(s) \in Nat /\ s = [i \in 1..Len(s) |-> s[i]]
  OBVIOUS
<1>2. \A i \in 1..Len(s) : s[i] \in R
  OBVIOUS
<1> QED BY <1>1, <1>2
LEMMA OfStrings == ASSUME NEW s \in Seq(STRING) PROVE s \in Seq(Octet)
<1>1. STRING \subseteq Octet
  BY DEF Octet
<1> QED BY <1>1, OfLarger

(* A CC in front of what was there *)
LEMMA CcProgrammed ==
  ASSUME NEW mem \in Seq(Octet), NEW cc \in Seq(Octet), Len(cc) = 4, Len(mem) >= 4
  PROVE  LET with == cc \o SubSeq(mem, 5, Len(mem))
         IN  /\ with \in Seq(Octet) /\ Len(with) = Len(mem)
             /\ \A i \in 1..4 : with[i] = cc[i]
<1> DEFINE s == SubSeq(mem, 5, Len(mem))
<1>1. s \in Seq(Octet) /\ Len(s) = Len(mem) - 4
  <2>1. Len(mem) \in Nat
    OBVIOUS
  <2> QED BY <2>1
<1> HIDE DEF s
<1>2. cc \o s \in Seq(Octet) /\ Len(cc \o s) = Len(cc) + Len(s)
  BY <1>1, Joined
<1>4. \A i \in 1..Len(cc) : (cc \o s)[i] = cc[i]
  BY <1>1, Joined
<1>3. Len(cc \o s) = Len(mem) /\ \A i \in 1..4 : (cc \o s)[i] = cc[i]
  <2>1. Len(mem) \in Nat
    OBVIOUS
  <2> QED BY <1>1, <1>2, <1>4, <2>1
<1> QED BY <1>2, <1>3 DEF s

LEMMA Writes2 ==
  ASSUME NEW mem \in Seq(Octet), Len(mem) >= PageSize * GroupPages, NEW m, IsMessage(m),
         NEW with \in Seq(Octet), Len(with) = Len(mem),
         with[1] = "E1", with[4] = "rw", Len(Tlv(m)) <= 8 * Amount(with[3]),
         CcPage + Up(Len(Tlv(m)), PageSize) <= Top,
         WriteUnits(with, PageSize + 1, Tlv(m)).ok
  PROVE  Holds2(WriteUnits(with, PageSize + 1, Tlv(m)).mem, m)
<1> DEFINE w == WriteUnits(with, PageSize + 1, Tlv(m))
<1>1. PageSize + 1 = 5 /\ PageSize + 1 \in Nat /\ PageSize + 1 > 0
  BY DEF PageSize
<1>2. /\ w.mem \in Seq(Octet) /\ Len(w.mem) = Len(with) /\ Holds(w.mem, PageSize + 1, m)
      /\ \A i \in 1..Len(with) : i < 5 => w.mem[i] = with[i]
  BY <1>1, WriteUnitsIs
<1> HIDE DEF w
<1>3. 1 \in 1..Len(with) /\ 3 \in 1..Len(with) /\ 4 \in 1..Len(with)
  <2>1. Len(with) \in Nat
    OBVIOUS
  <2> QED BY <2>1, Groups
<1>4. w.mem[1] = with[1] /\ w.mem[3] = with[3] /\ w.mem[4] = with[4]
  BY <1>2, <1>3
<1>5. /\ Cc2(w.mem).valid /\ Cc2(w.mem).access = "rw" /\ Cc2(w.mem).mlen = Amount(with[3])
      /\ Cc2(w.mem).mlen \in Nat
  BY <1>4, Cc2Is, Sizes
<1> QED BY <1>2, <1>5 DEF Holds2, w

LEMMA WriteType2Holds ==
  ASSUME NEW t, t.mem \in Seq(Octet), Len(t.mem) >= PageSize * GroupPages,
         NEW m, IsMessage(m), WriteType2(t, m).ok
  PROVE  Holds2(WriteType2(t, m).mem, m)
<1> DEFINE mem == t.mem
           tlv == Tlv(m)
           cc == Cc2(mem)
           size == Most(Up(Len(tlv), AreaUnit), CcSize(t))
           program == ~cc.valid \/ cc.mlen < size
           head == <<"E1", "10", Byte[size], "rw">>
           new == head \o SubSeq(mem, 5, Len(mem))
           with == IF program THEN new ELSE mem
           refused == \/ m = <<>> \/ Family2(t) = "unknown" \/ (cc.valid /\ cc.access # "rw")
                      \/ CcPage + Up(Len(tlv), PageSize) > MaxPage(t)
<1>1. WriteType2(t, m) = IF refused THEN Result(FALSE, mem) ELSE WriteUnits(with, PageSize + 1, tlv)
  BY DEF WriteType2
<1>2. ~refused
  <2> SUFFICES ASSUME refused PROVE FALSE
    OBVIOUS
  <2> HIDE DEF refused
  <2>1. Result(FALSE, mem).ok = FALSE
    BY DEF Result
  <2> QED BY <1>1, <2>1
<1>3. CcSize(t) \in Lengths
  <2>1. CcSize(t) = IF Family2(t) = "ntag21x" /\ ~cc.valid THEN OfVersion(t).mlen ELSE cc.mlen
    BY DEF CcSize
  <2>2. OfVersion(t).mlen \in Lengths
    BY Tiers DEF OfVersion
  <2> QED BY <2>1, <2>2, Cc2Is
<1>4. /\ size \in Lengths /\ size \in Nat /\ Up(Len(tlv), AreaUnit) <= size
      /\ Len(tlv) <= 8 * size
  <2> DEFINE u == Up(Len(tlv), AreaUnit)
             c == CcSize(t)
  <2>1. /\ u \in Nat /\ 8 * u < Len(tlv) + 8 /\ Len(tlv) <= MessageMax + 5 /\ Len(tlv) \in Nat
        /\ Len(tlv) <= 8 * u
    BY TlvUnits
  <2>2. c \in Nat /\ c <= MessageMax + 4 /\ MessageMax \in Nat /\ MessageMax > 0
    BY <1>3, Sizes
  <2>3. size = IF u < c THEN c ELSE u
    BY DEF Most
  <2> HIDE DEF u, c, size, tlv
  <2>4. u <= MessageMax + 4
    BY <2>1, <2>2
  <2>5. size \in Nat /\ size <= MessageMax + 4 /\ u <= size /\ Len(tlv) <= 8 * size
    BY <2>1, <2>2, <2>3, <2>4
  <2> QED BY <2>5, Sizes DEF u
<1>5. mem \in Seq(Octet) /\ Len(mem) \in Nat /\ Len(mem) >= 4
  <2> QED BY Groups
<1>6. CcPage + Up(Len(tlv), PageSize) <= Top
  <2> DEFINE need == CcPage + Up(Len(tlv), PageSize)
             most == MaxPage(t)
  <2>1. Family2(t) # "unknown" /\ ~(need > most)
    BY <1>2
  <2>2. most \in Nat /\ most <= Top
    BY <2>1, MaxPageIs
  <2>3. need \in Nat
    BY TlvUnits DEF CcPage
  <2> HIDE DEF need, most
  <2> QED BY <2>1, <2>2, <2>3, Tiers DEF need
<1>7. /\ with \in Seq(Octet) /\ Len(with) = Len(mem)
      /\ with[1] = "E1" /\ with[4] = "rw" /\ Len(tlv) <= 8 * Amount(with[3])
  <2>1. CASE program
    <3>1. head \in Seq(Octet) /\ Len(head) = 4 /\ head[1] = "E1" /\ head[3] = Byte[size] /\ head[4] = "rw"
      <4>1. Byte[size] \in Octet
        BY <1>4, ByteNumber
      <4> HIDE DEF size
      <4>2. "E1" \in Octet /\ "10" \in Octet /\ "rw" \in Octet
        BY DEF Octet
      <4> QED BY <4>1, <4>2
    <3>2. with = new
      BY <2>1
    <3>3. Amount(Byte[size]) = size
      BY <1>4, ByteNumber
    <3> HIDE DEF size, head, program, with, mem
    <3>4. new \in Seq(Octet) /\ Len(new) = Len(mem) /\ \A i \in 1..4 : new[i] = head[i]
      BY <3>1, <1>5, CcProgrammed
    <3>5. 1 \in 1..4 /\ 3 \in 1..4 /\ 4 \in 1..4
      OBVIOUS
    <3> QED BY <3>1, <3>2, <3>3, <3>4, <3>5, <1>4
  <2>2. CASE ~program
    <3>1. cc.valid /\ ~(cc.mlen < size) /\ cc.access = "rw" /\ with = mem
      BY <2>2, <1>2
    <3>2. mem[1] = "E1" /\ cc.mlen = Amount(mem[3]) /\ mem[4] = "rw" /\ cc.mlen \in Nat
      BY <3>1, Cc2Is, Sizes
    <3> HIDE DEF size, program, with, mem, cc, tlv
    <3>3. Len(tlv) <= 8 * cc.mlen
      <4>1. Len(tlv) \in Nat
        BY TlvUnits DEF tlv
      <4> QED BY <4>1, <1>4, <3>1, <3>2
    <3> QED BY <3>1, <3>2, <3>3, <1>5
  <2> QED BY <2>1, <2>2
<1>8. WriteType2(t, m) = WriteUnits(with, PageSize + 1, tlv)
  <2> HIDE DEF refused, with
  <2> QED BY <1>1, <1>2
<1> HIDE DEF with, refused, size, cc, program, new, head
<1> QED BY <1>5, <1>6, <1>7, <1>8, Writes2

LEMMA ToolWriteType2Holds ==
  ASSUME NEW t, t.mem \in Seq(Octet), Len(t.mem) >= PageSize * GroupPages,
         NEW m, IsMessage(m), ToolWriteType2(t, m).ok
  PROVE  Holds2(ToolWriteType2(t, m).mem, m)
<1> DEFINE tlv == Tlv(m)
           cc == Cc2(t.mem)
           refused == \/ ~Cc2Ok(t.mem) \/ cc.access # "rw" \/ Len(tlv) > cc.mlen * AreaUnit
                      \/ CcPage + Up(Len(tlv), PageSize) > Tier["216"].last
<1>1. ToolWriteType2(t, m) = IF refused THEN Result(FALSE, t.mem) ELSE WriteUnits(t.mem, PageSize + 1, tlv)
  BY DEF ToolWriteType2
<1>2. ~refused
  <2> SUFFICES ASSUME refused PROVE FALSE
    OBVIOUS
  <2> HIDE DEF refused
  <2>1. Result(FALSE, t.mem).ok = FALSE
    BY DEF Result
  <2> QED BY <1>1, <2>1
<1>3. ToolWriteType2(t, m) = WriteUnits(t.mem, PageSize + 1, tlv)
  <2> HIDE DEF refused
  <2> QED BY <1>1, <1>2
<1>4. cc.valid /\ cc.access = "rw" /\ ~(Len(tlv) > cc.mlen * 8) /\ ~(CcPage + Up(Len(tlv), PageSize) > Top)
  BY <1>2 DEF Cc2Ok, AreaUnit, Top
<1>5. t.mem[1] = "E1" /\ cc.mlen = Amount(t.mem[3]) /\ t.mem[4] = "rw" /\ cc.mlen \in Nat
  BY <1>4, Cc2Is, Sizes
<1>6. Len(tlv) <= 8 * Amount(t.mem[3]) /\ CcPage + Up(Len(tlv), PageSize) <= Top
  <2>1. Len(tlv) \in Nat /\ Up(Len(tlv), PageSize) \in Nat
    BY TlvUnits
  <2> HIDE DEF tlv, cc
  <2> QED BY <2>1, <1>4, <1>5, Tiers DEF CcPage
<1> HIDE DEF refused, cc
<1> QED BY <1>3, <1>5, <1>6, Writes2

(* The first pages tell how many hold the message *)
NeededFrom(first, last, from, p) ==
  IF p > Len(first) THEN 0
  ELSE IF first[p] = "00" THEN from[p + 1]
  ELSE IF first[p] = "FE" THEN (p - 1 + PageSize) \div PageSize
  ELSE LET at == LengthAt(first, p)
       IN  IF at > Len(first) \/ ~IsNumber(first[at]) THEN 0
           ELSE IF first[p] = "03"
                THEN Least(Up(at + Number(first[at]), PageSize), last - CcPage + 1)
           ELSE IF at + Number(first[at]) > Len(first) THEN 0
           ELSE from[at + Number(first[at]) + 1]

LEMMA NeededPagesIs ==
  ASSUME NEW first, Len(first) \in Nat, NEW last
  PROVE  \E from : /\ from = [p \in 1..(Len(first) + 1) |-> NeededFrom(first, last, from, p)]
                   /\ NeededPages(first, last) = from[PageSize + 1]
<1> DEFINE N == Len(first) + 1
           at(p) == LengthAt(first, p)
           skips(p) == first[p] = "00"
           beyond(p) == \/ first[p] = "FE" \/ at(p) > Len(first) \/ ~IsNumber(first[at(p)])
                        \/ first[p] = "03" \/ at(p) + Number(first[at(p)]) > Len(first)
           B == {p \in 1..N : p > Len(first) \/ (~skips(p) /\ beyond(p))}
           A == [p \in 1..N |-> NeededFrom(first, last, <<>>, p)]
           X == [p \in 1..N |-> IF skips(p) THEN p + 1 ELSE at(p) + Number(first[at(p)]) + 1]
<1>1. ASSUME NEW p \in 1..N, p \notin B
      PROVE  X[p] \in (p + 1)..N
  <2>1. p \in Nat /\ ~(p > Len(first)) /\ (skips(p) \/ ~beyond(p))
    BY <1>1
  <2>2. at(p) \in Nat /\ at(p) > p
    BY <2>1 DEF LengthAt
  <2>3. CASE skips(p)
    BY <2>1, <2>3
  <2>4. CASE ~skips(p)
    <3>1. IsNumber(first[at(p)]) /\ ~(at(p) + Number(first[at(p)]) > Len(first))
      BY <2>1, <2>4
    <3>2. Number(first[at(p)]) \in Nat
      BY <3>1, Sizes DEF IsNumber, Number
    <3>3. X[p] = at(p) + Number(first[at(p)]) + 1
      BY <2>4
    <3> HIDE DEF at, X
    <3> QED BY <2>1, <2>2, <3>1, <3>2, <3>3
  <2> QED BY <2>3, <2>4
<1>2. \E from : from = ScanFrom(N, B, A, X, from)
  <2>1. N \in Nat
    OBVIOUS
  <2> HIDE DEF N, A, B, X
  <2> QED BY <1>1, <2>1, ScanExists
<1>3. ASSUME NEW from, NEW p \in 1..N
      PROVE  (IF p \in B THEN A[p] ELSE from[X[p]]) = NeededFrom(first, last, from, p)
  <2>1. CASE p > Len(first)
    BY <2>1 DEF NeededFrom
  <2>2. CASE ~(p > Len(first)) /\ skips(p)
    BY <2>2 DEF NeededFrom
  <2>3. CASE ~(p > Len(first)) /\ ~skips(p) /\ beyond(p)
    <3>1. p \in B
      BY <2>3
    <3>2. NeededFrom(first, last, from, p) = NeededFrom(first, last, <<>>, p)
      BY <2>3 DEF NeededFrom
    <3> QED BY <3>1, <3>2
  <2>4. CASE ~(p > Len(first)) /\ ~skips(p) /\ ~beyond(p)
    BY <2>4 DEF NeededFrom
  <2> QED BY <2>1, <2>2, <2>3, <2>4
<1>4. PICK from : from = ScanFrom(N, B, A, X, from)
  BY <1>2
<1>5. from = [p \in 1..N |-> NeededFrom(first, last, from, p)]
  <2> HIDE DEF N, A, B, X
  <2> QED BY <1>3, <1>4 DEF ScanFrom
<1> HIDE DEF A, B, X
<1>6. \E f : f = [p \in 1..(Len(first) + 1) |-> NeededFrom(first, last, f, p)]
  BY <1>5
<1> QED BY <1>6 DEF NeededPages, NeededFrom, LengthAt

(* For a message these are all of its pages, if the tag has them *)
LEMMA NeededPagesOf ==
  ASSUME NEW mem, NEW m, IsMessage(m), Holds2(mem, m), NEW last
  PROVE  NeededPages(SubSeq(mem, 1, GroupPages * PageSize), last)
           = Least(Up(PageSize + Len(Tlv(m)) - 1, PageSize), last - CcPage + 1)
<1> DEFINE t == Tlv(m)
           h == HeaderLen(Len(m))
           n == GroupPages * PageSize
           first == SubSeq(mem, 1, n)
<1>1. n \in Nat /\ n >= 8 /\ n <= Len(mem) /\ mem \in Seq(Octet) /\ Len(mem) \in Nat
  <2>1. n = PageSize * GroupPages
    BY Groups DEF PageSize
  <2> QED BY <2>1, Groups DEF Holds2, Holds
<1> HIDE DEF n
<1>2. first \in Seq(Octet) /\ Len(first) = n /\ \A i \in 1..n : first[i] = mem[i]
  BY <1>1
<1> HIDE DEF first
<1>3. /\ Len(t) = h + Len(m) + 1 /\ t[1] = "03" /\ Len(m) \in 1..MessageMax /\ h \in {2, 4}
      /\ \A i \in 1..(h - 1) : t[i + 1] = LengthField(Len(m))[i]
      /\ h = IF Len(m) <= OneByteMax THEN 2 ELSE 4
  BY TlvIs DEF IsMessage, HeaderLen
<1>4. Len(m) \in Nat /\ Len(m) >= 1 /\ Len(m) \in Lengths
  BY <1>3, Sizes
<1>5. IsNumber(Byte[Len(m)]) /\ Number(Byte[Len(m)]) = Len(m)
  BY <1>4, ByteNumber
<1> HIDE DEF h, t
<1>6. ASSUME NEW i \in 1..4, i <= Len(t) PROVE first[4 + i] = t[i]
  <2>1. 4 + i \in 1..n /\ i \in 1..Len(t)
    BY <1>1, <1>3, <1>4, <1>6
  <2>2. mem[PageSize + 1 + i - 1] = t[i]
    BY <2>1 DEF Holds2, Holds, t
  <2>3. PageSize + 1 + i - 1 = 4 + i
    BY DEF PageSize
  <2> QED BY <1>2, <2>1, <2>2, <2>3
<1>7. Len(t) >= 4
  BY <1>3, <1>4
<1>8. first[5] = "03" /\ first[6] = t[2] /\ first[8] = t[4]
  <2>1. first[4 + 1] = t[1] /\ first[4 + 2] = t[2] /\ first[4 + 4] = t[4]
    BY <1>6, <1>7
  <2> QED BY <1>3, <2>1
<1>9. LengthAt(first, 5) = 4 + h /\ IsNumber(first[4 + h]) /\ Number(first[4 + h]) = Len(m)
  <2>1. CASE Len(m) <= OneByteMax
    <3>1. h = 2 /\ t[1 + 1] = LengthField(Len(m))[1]
      BY <1>3, <2>1
    <3>2. LengthField(Len(m))[1] = Byte[Len(m)] /\ Byte[Len(m)] # "FF"
      BY <1>3, <2>1, LengthFieldIs
    <3>3. first[6] = Byte[Len(m)] /\ first[6] # "FF"
      BY <1>8, <3>1, <3>2
    <3>4. LengthAt(first, 5) = 6
      BY <3>3 DEF LengthAt
    <3> QED BY <1>5, <3>1, <3>3, <3>4
  <2>2. CASE ~(Len(m) <= OneByteMax)
    <3>1. h = 4 /\ t[1 + 1] = LengthField(Len(m))[1] /\ t[3 + 1] = LengthField(Len(m))[3]
      BY <1>3, <2>2
    <3>2. LengthField(Len(m))[1] = "FF" /\ LengthField(Len(m))[3] = Byte[Len(m)]
      BY <1>3, <1>4, <2>2, LengthFieldIs, Sizes
    <3>3. first[6] = "FF" /\ first[8] = Byte[Len(m)]
      BY <1>8, <3>1, <3>2
    <3>4. LengthAt(first, 5) = 8
      BY <1>1, <1>2, <3>3 DEF LengthAt
    <3> QED BY <1>5, <3>1, <3>3, <3>4
  <2> QED BY <2>1, <2>2
<1>10. PICK from : /\ from = [p \in 1..(Len(first) + 1) |-> NeededFrom(first, last, from, p)]
                   /\ NeededPages(first, last) = from[PageSize + 1]
  BY <1>1, <1>2, NeededPagesIs
<1>11. NeededPages(first, last) = NeededFrom(first, last, from, 5)
  <2>1. 5 \in 1..(Len(first) + 1) /\ PageSize + 1 = 5
    BY <1>1, <1>2 DEF PageSize
  <2> QED BY <1>10, <2>1
<1>12. NeededFrom(first, last, from, 5) = Least(Up(4 + h + Len(m), PageSize), last - CcPage + 1)
  <2>1. ~(5 > Len(first)) /\ ~(4 + h > Len(first))
    BY <1>1, <1>2, <1>3
  <2>2. first[5] # "00" /\ first[5] # "FE"
    BY <1>8
  <2> QED BY <1>8, <1>9, <2>1, <2>2 DEF NeededFrom
<1>13. 4 + h + Len(m) = PageSize + Len(t) - 1
  BY <1>3, <1>4 DEF PageSize
<1> QED BY <1>11, <1>12, <1>13 DEF first, n, t

(* The area that the reader looks at when it has read pages *)
LEMMA Area2 ==
  ASSUME NEW mem, NEW m, IsMessage(m), Holds2(mem, m), NEW pages \in Nat, pages > 0
  PROVE  LET area == SubSeq(mem, PageSize + 1, Least(PageSize * pages, Len(mem)))
         IN  /\ Begins(area, m)
             /\ Len(Tlv(m)) + 4 <= PageSize * pages + 1 => Len(area) >= Len(Tlv(m)) - 1
<1> DEFINE q == Least(PageSize * pages, Len(mem))
           n == Len(Tlv(m))
           u == Up(n, PageSize)
<1>1. /\ n \in Nat /\ u \in Nat /\ n <= 4 * u /\ mem \in Seq(Octet) /\ Len(mem) \in Nat
      /\ PageSize + 1 + PageSize * u - 1 <= Len(mem) /\ Holds(mem, PageSize + 1, m)
  BY TlvUnits DEF Holds2, Holds
<1>2. q \in Nat /\ q >= 4 /\ q <= Len(mem) /\ (q = PageSize * pages \/ q = Len(mem))
  BY <1>1 DEF Least, PageSize
<1>3. /\ Begins(SubSeq(mem, PageSize + 1, q), m)
      /\ Len(SubSeq(mem, PageSize + 1, q)) = q - (PageSize + 1) + 1
  <2>1. PageSize + 1 \in Nat /\ PageSize + 1 > 0 /\ q + 1 >= PageSize + 1
    BY <1>2 DEF PageSize
  <2> HIDE DEF q
  <2> QED BY <1>1, <1>2, <2>1, AreaBegins
<1>4. n + 4 <= PageSize * pages + 1 => q - (PageSize + 1) + 1 >= n - 1
  BY <1>1, <1>2, SMTT(30) DEF PageSize
<1> HIDE DEF q
<1> QED BY <1>3, <1>4 DEF q

(* The counts after which a reader looks that reads groups of g *)
LEMMA GroupCounts ==
  ASSUME NEW all \in Nat, all > 0, NEW g \in Nat, g > 0
  PROVE  LET C == {Least(g * k, all) : k \in 1..Up(all, g)}
         IN  C \subseteq Nat /\ 0 \notin C /\ all \in C /\ \A k \in C : k <= all
<1> DEFINE x == Up(all, g)
<1>1. x \in Nat /\ all <= g * x
  BY UpIs
<1>2. x \in 1..x
  <2>1. x # 0
    BY <1>1
  <2> HIDE DEF x
  <2> QED BY <1>1, <2>1
<1>3. Least(g * x, all) = all
  <2> DEFINE y == g * x
  <2>1. y \in Nat /\ all <= y
    BY <1>1
  <2> HIDE DEF y
  <2> QED BY <2>1 DEF Least, y
<1>4. ASSUME NEW k \in 1..x
      PROVE  Least(g * k, all) \in Nat /\ Least(g * k, all) # 0 /\ Least(g * k, all) <= all
  <2> HIDE DEF x
  <2>1. k \in Nat /\ k >= 1
    BY <1>1, <1>4
  <2> DEFINE z == g * k
  <2>2. z \in Nat /\ z >= g
    BY <2>1
  <2> HIDE DEF z
  <2> QED BY <2>2 DEF Least, z
<1> HIDE DEF x
<1> QED BY <1>2, <1>3, <1>4 DEF x

LEMMA ReadType2Finds ==
  ASSUME NEW t, NEW m, IsMessage(m), Holds2(t.mem, m),
         ~Contains(LengthField(Len(m)) \o m, "FE")
  PROVE  ReadType2(t) = <<m>>
<1> DEFINE mem == t.mem
           n == Len(Tlv(m))
           u == Up(n, PageSize)
           cc == Cc2(mem)
           last == Least(LastPageOf(cc.mlen), Tier["216"].last)
           area(pages) == SubSeq(mem, PageSize + 1, Least(PageSize * pages, Len(mem)))
           needed == NeededPages(SubSeq(mem, 1, GroupPages * PageSize), last)
           all == last - CcPage + 1
           C == {Least(GroupPages * k, all) : k \in 1..Up(all, GroupPages)}
           D == {k \in C : TlvComplete(area(k))}
           stop == CHOOSE k \in C : /\ TlvComplete(area(k)) \/ \A j \in C : j <= k
                                    /\ \A j \in C : j < k => ~TlvComplete(area(j))
           pages == IF Family2(t) = "ntag21x" THEN Most(needed, GroupPages) ELSE stop
<1>1. cc.valid /\ cc.access = "rw" /\ cc.mlen \in Nat /\ n <= 8 * cc.mlen /\ CcPage + u <= Top
  BY DEF Holds2
<1>2. n \in Nat /\ n >= 4 /\ u \in Nat /\ n <= 4 * u /\ 4 * u < n + 4
  BY TlvUnits DEF PageSize
<1> HIDE DEF mem, n, u, cc
<1>3. last \in Nat /\ last >= 3 + u
  <2> DEFINE k == cc.mlen * 8
  <2>1. k \in Nat /\ n <= k
    BY <1>1, <1>2
  <2> HIDE DEF k
  <2>6. k \in Nat
    BY <2>1
  <2>2. Up(k, 4) \in Nat /\ k <= 4 * Up(k, 4)
    BY <2>6, UpFour
  <2>3. Up(k, 4) >= u
    BY <1>2, <2>1, <2>2
  <2>4. LastPageOf(cc.mlen) = 3 + Up(k, 4)
    BY DEF LastPageOf, CcPage, AreaUnit, PageSize, k
  <2>5. last = IF 3 + Up(k, 4) < Top THEN 3 + Up(k, 4) ELSE Top
    BY <2>4 DEF Least, Top
  <2> HIDE DEF last
  <2> QED BY <1>1, <1>2, <2>2, <2>3, <2>5, Tiers, SMTT(30) DEF CcPage
<1>4. all \in Nat /\ all >= u + 1
  <2> HIDE DEF last
  <2> QED BY <1>2, <1>3 DEF CcPage
<1>5. ASSUME NEW k \in Nat, k > 0, n + 4 <= 4 * k + 1 \/ TlvComplete(area(k))
      PROVE  ParseTlvArea(area(k)) = <<m>> /\ FindMessage(area(k)).status = "ok"
  <2>1. Begins(area(k), m) /\ (n + 4 <= 4 * k + 1 => Len(area(k)) >= n - 1)
    BY <1>5, Area2 DEF n, mem, PageSize
  <2> HIDE DEF area
  <2>2. CASE Len(area(k)) >= n - 1
    BY <2>1, <2>2, MessageFound DEF n
  <2>3. CASE ~(Len(area(k)) >= n - 1)
    <3>1. Len(area(k)) < n - 1
      <4>1. Len(area(k)) \in Nat
        BY <2>1 DEF Begins
      <4> QED BY <1>2, <2>3, <4>1
    <3>2. ~TlvComplete(area(k))
      BY <2>1, <3>1, MessageCut DEF n
    <3> QED BY <1>5, <2>1, <2>3, <3>2
  <2> QED BY <2>2, <2>3
<1>6. CASE Family2(t) = "ntag21x"
  <2>1. needed = Least(Up(PageSize + n - 1, PageSize), last - CcPage + 1)
    BY NeededPagesOf DEF n, mem
  <2>2. pages \in Nat /\ pages > 0 /\ n + 4 <= 4 * pages + 1
    <3> DEFINE v == Up(4 + n - 1, 4)
    <3>1. v \in Nat /\ 4 + n - 1 <= 4 * v
      <4> DEFINE x == 4 + n - 1
      <4>1. x \in Nat
        BY <1>2
      <4> HIDE DEF x
      <4>2. Up(x, 4) \in Nat /\ x <= 4 * Up(x, 4)
        BY <4>1, UpFour
      <4> QED BY <4>2 DEF x
    <3>2. needed = IF v < all THEN v ELSE all
      <4>1. needed = Least(v, all)
        BY <2>1 DEF PageSize
      <4> HIDE DEF needed, all, v
      <4> QED BY <4>1 DEF Least
    <3>3. pages = IF needed < GroupPages THEN GroupPages ELSE needed
      BY <1>6 DEF Most
    <3> HIDE DEF needed, all, v, pages
    <3> QED BY <1>2, <1>4, <3>1, <3>2, <3>3, Groups
  <2>3. ParseTlvArea(area(pages)) = <<m>>
    <3> HIDE DEF pages, area
    <3> QED BY <1>5, <2>2
  <2>4. ReadType2(t) = IF ~cc.valid \/ cc.mlen = 0 \/ cc.access = "no" THEN <<>>
                       ELSE ParseTlvArea(area(pages))
    BY DEF ReadType2, Stop, cc, mem
  <2> HIDE DEF area, pages
  <2> QED BY <1>1, <1>2, <2>3, <2>4
<1>7. CASE Family2(t) # "ntag21x"
  <2>1. C \subseteq Nat /\ 0 \notin C /\ all \in C
    <3>1. all \in Nat /\ all > 0
      <4> HIDE DEF all
      <4> QED BY <1>2, <1>4
    <3>2. GroupPages \in Nat /\ GroupPages > 0
      BY Groups
    <3> HIDE DEF all
    <3> QED BY <3>1, <3>2, GroupCounts
  <2>2. D \subseteq C /\ all \in D
    <3>1. all > 0 /\ n + 4 <= 4 * all + 1
      <4> HIDE DEF all
      <4> QED BY <1>2, <1>4
    <3>2. FindMessage(area(all)).status = "ok"
      <4> HIDE DEF all, area
      <4> QED BY <1>4, <1>5, <3>1
    <3> HIDE DEF all, area, C
    <3> QED BY <2>1, <3>2 DEF TlvComplete
  <2>3. stop \in D
    <3>1. \E k \in C : k \in D /\ \A j \in C : j < k => j \notin D
      <4> HIDE DEF C, D, all
      <4> QED BY <2>1, <2>2, StopExists
    <3>2. \E k \in C : /\ TlvComplete(area(k)) \/ \A j \in C : j <= k
                       /\ \A j \in C : j < k => ~TlvComplete(area(j))
      <4> HIDE DEF C, area
      <4> QED BY <3>1
    <3>4. /\ stop \in C
          /\ TlvComplete(area(stop)) \/ \A j \in C : j <= stop
          /\ \A j \in C : j < stop => ~TlvComplete(area(j))
      <4> HIDE DEF C, area
      <4> QED BY <3>2
    <3>5. stop \in D \/ \A j \in C : j <= stop
      <4> HIDE DEF C, area, stop
      <4> QED BY <3>4
    <3>6. \A j \in C : j < stop => j \notin D
      <4> HIDE DEF C, area, stop
      <4> QED BY <3>4
    <3> HIDE DEF C, D, stop, all
    <3> QED BY <2>1, <2>2, <3>4, <3>5, <3>6, StopOnly
  <2>4. stop \in Nat /\ stop > 0 /\ TlvComplete(area(stop))
    <3>1. stop \in C /\ TlvComplete(area(stop))
      <4> HIDE DEF C, area, stop
      <4> QED BY <2>3
    <3> HIDE DEF C, area, stop
    <3> QED BY <2>1, <3>1
  <2>5. ParseTlvArea(area(stop)) = <<m>>
    <3> HIDE DEF stop, area
    <3> QED BY <1>5, <2>4
  <2>6. pages = stop
    BY <1>7
  <2>7. ReadType2(t) = IF ~cc.valid \/ cc.mlen = 0 \/ cc.access = "no" THEN <<>>
                       ELSE ParseTlvArea(area(pages))
    BY DEF ReadType2, Stop, cc, mem
  <2> HIDE DEF stop, area, pages
  <2> QED BY <1>1, <1>2, <2>5, <2>6, <2>7
<1> QED BY <1>6, <1>7

Enough(at, m, n) == n >= at /\ n >= at + Len(Tlv(m)) - 2
(* The host's tool looks at the area after each of its counts: one of them is *)
(* enough, and none before it settles it otherwise                            *)
LEMMA ScanFinds ==
  ASSUME NEW mem, NEW at \in Nat, at > 0, NEW m, IsMessage(m), Holds(mem, at, m),
         NEW counts \in SUBSET Nat, NEW total,
         NEW n \in counts, n <= Len(mem), Enough(at, m, n)
  PROVE  Scan(mem, at, counts, total) = <<m>>
<1> DEFINE area(k) == SubSeq(mem, at, k)
           found(k) == FindMessage(area(k))
           settled(k) ==
             /\ k >= at
             /\ \/ found(k).status = "ok"
                \/ found(k).status = "none" /\ (Contains(area(k), "FE") \/ k >= total)
           C == {k \in counts : k <= Len(mem)}
           D == {k \in C : settled(k)}
           stop == CHOOSE k \in C : /\ settled(k) \/ \A j \in C : j <= k
                                    /\ \A j \in C : j < k => ~settled(j)
<1>1. ASSUME NEW k \in C, k >= at
      PROVE  /\ k \in Nat
             /\ Len(area(k)) \in Nat /\ Len(area(k)) >= 1 /\ Len(area(k)) = k - at + 1
             /\ \/ found(k).status = "truncated"
                \/ found(k).status = "ok" /\ found(k).value = m
             /\ Enough(at, m, k) => found(k).status = "ok"
  <2>1. k \in Nat /\ k + 1 >= at /\ k <= Len(mem)
    BY <1>1
  <2>2. Begins(area(k), m) /\ Len(area(k)) = k - at + 1
    BY <2>1, AreaBegins
  <2> HIDE DEF area
  <2>3. Len(area(k)) \in Nat /\ Len(area(k)) >= 1
    BY <1>1, <2>1, <2>2
  <2>4. Len(Tlv(m)) \in Nat
    BY TlvUnits
  <2>5. CASE Len(area(k)) >= Len(Tlv(m)) - 1
    BY <2>1, <2>2, <2>3, <2>5, MessageFound
  <2>6. CASE ~(Len(area(k)) >= Len(Tlv(m)) - 1)
    <3>1. Len(area(k)) < Len(Tlv(m)) - 1
      BY <2>3, <2>4, <2>6
    <3>2. found(k).status = "truncated"
      BY <2>2, <2>3, <3>1, MessageCut
    <3>3. ~Enough(at, m, k)
      BY <2>1, <2>2, <2>4, <2>6 DEF Enough
    <3> QED BY <2>1, <2>2, <2>3, <3>2, <3>3
  <2> QED BY <2>5, <2>6
<1>2. C \subseteq Nat /\ D \subseteq C /\ n \in C
  OBVIOUS
<1>3. n \in D
  <2> HIDE DEF C, found, area
  <2>1. settled(n)
    BY <1>1, <1>2 DEF Enough
  <2> HIDE DEF settled
  <2> QED BY <1>2, <2>1
<1> HIDE DEF C
<1>4. \E k \in C : k \in D /\ \A j \in C : j < k => j \notin D
  <2> HIDE DEF D
  <2> QED BY <1>2, <1>3, StopExists, ZenonT(60)
<1>5. /\ stop \in C
      /\ settled(stop) \/ \A j \in C : j <= stop
      /\ \A j \in C : j < stop => ~settled(j)
  <2> HIDE DEF settled
  <2>1. \E k \in C : /\ settled(k) \/ \A j \in C : j <= k
                     /\ \A j \in C : j < k => ~settled(j)
    BY <1>4
  <2> QED BY <2>1
<1>6. stop \in D
  <2> HIDE DEF settled, stop
  <2>1. stop \in D \/ \A j \in C : j <= stop
    BY <1>5
  <2>2. \A j \in C : j < stop => j \notin D
    BY <1>5
  <2> HIDE DEF D
  <2> QED BY <1>2, <1>3, <1>5, <2>1, <2>2, StopOnly
<1>7. settled(stop)
  <2> HIDE DEF settled, stop
  <2> QED BY <1>6
<1>8. found(stop).status = "ok" /\ found(stop).value = m
  <2> HIDE DEF stop, found, area
  <2>1. stop >= at /\ found(stop).status # "truncated"
    BY <1>7
  <2> QED BY <1>1, <1>5, <2>1
<1>9. Scan(mem, at, counts, total)
        = IF settled(stop) /\ found(stop).status = "ok" THEN <<found(stop).value>> ELSE <<>>
  BY DEF Scan, Stop, C
<1> HIDE DEF stop, settled, found
<1> QED BY <1>7, <1>8, <1>9

LEMMA ToolReadType2Finds ==
  ASSUME NEW t, NEW m, IsMessage(m), Holds2(t.mem, m)
  PROVE  ToolReadType2(t) = <<m>>
<1> DEFINE mem == t.mem
           n == Len(Tlv(m))
           u == Up(n, PageSize)
           cc == Cc2(mem)
           area == cc.mlen * AreaUnit
           total == PageSize + area
           group == GroupPages * PageSize
           units == ReadUnits(area)
           most == Least(total, Len(mem))
           counts == {Least(PageSize + group * k, most) : k \in 0..Up(units - 1, GroupPages)}
<1>1. /\ cc.valid /\ cc.access = "rw" /\ cc.mlen \in Nat /\ n <= 8 * cc.mlen /\ CcPage + u <= Top
      /\ Holds(mem, PageSize + 1, m) /\ PageSize + 1 + PageSize * u - 1 <= Len(mem)
      /\ Len(mem) \in Nat
  <2>1. Holds2(mem, m)
    OBVIOUS
  <2> HIDE DEF mem, n, u, cc, area, total, group, units, most, counts
  <2> QED BY <2>1, SMTT(30) DEF Holds2, Holds, n, u, cc
<1>2. n \in Nat /\ n >= 4 /\ u \in Nat /\ n <= 4 * u /\ 4 * u < n + 4 /\ n <= EnvelopeLen(MessageMax)
  BY TlvUnits DEF PageSize
<1>3. ScanMax \in Nat /\ EnvelopeLen(MessageMax) <= ScanMax /\ EnvelopeLen(MessageMax) \in Nat
  <2>1. EnvelopeLen(MessageMax) \in Nat
    BY Sizes DEF EnvelopeLen
  <2> QED BY <2>1, GeometryAssumption
<1> HIDE DEF mem, n, u, cc
<1>4. area \in Nat /\ n <= area
  BY <1>1, <1>2 DEF AreaUnit
<1> HIDE DEF area
<1>5. units \in Nat /\ 4 * units >= n + 4
  <2> DEFINE x == 4 + Least(area, ScanMax)
  <2>1. x \in Nat /\ n + 4 <= x
    BY <1>2, <1>3, <1>4 DEF Least
  <2> HIDE DEF x
  <2>2. Up(x, 4) \in Nat /\ x <= 4 * Up(x, 4)
    BY <2>1, UpFour
  <2>3. units = IF Up(x, 4) < Top - 3 + 1 THEN Up(x, 4) ELSE Top - 3 + 1
    BY DEF ReadUnits, PageSize, CcPage, Least, x, Top
  <2> HIDE DEF units
  <2>4. Top - 3 + 1 \in Nat /\ 4 * (Top - 3 + 1) >= n + 4
    BY <1>1, <1>2, Tiers DEF CcPage
  <2> QED BY <1>2, <2>1, <2>2, <2>3, <2>4
<1>6. most \in Nat /\ most >= n + 4 /\ most <= Len(mem)
  BY <1>1, <1>2, <1>4 DEF Least, PageSize
<1>7. group = 4 * GroupPages /\ group \in Nat /\ group >= 8
  BY Groups DEF PageSize
<1> HIDE DEF units, most, group
<1> DEFINE x == units - 1
           k == Up(x, GroupPages)
<1>8. x \in Nat /\ 4 * x >= n
  BY <1>2, <1>5
<1>9. k \in Nat /\ x <= GroupPages * k
  <2>1. x \in Nat
    BY <1>8
  <2>2. GroupPages \in Nat /\ GroupPages > 0
    BY Groups
  <2> HIDE DEF x
  <2>3. Up(x, GroupPages) \in Nat /\ x <= GroupPages * Up(x, GroupPages)
    BY <2>1, <2>2, UpIs
  <2> QED BY <2>3
<1> HIDE DEF x, k
<1> DEFINE y == Least(PageSize + group * k, most)
<1>10. y \in counts
  <2>1. k \in 0..k /\ k = Up(units - 1, GroupPages)
    BY <1>9 DEF k, x
  <2> QED BY <2>1
<1>11. y >= n + 4 /\ y <= Len(mem)
  <2> DEFINE z == GroupPages * k
  <2>1. z \in Nat /\ 4 * z >= n
    <3>1. z \in Nat
      BY <1>9, Groups
    <3>2. x <= z
      BY <1>9
    <3> HIDE DEF z
    <3> QED BY <1>2, <1>8, <3>1, <3>2
  <2>2. group * k = 4 * z
    BY <1>7, <1>9, Groups
  <2>3. y = IF 4 + group * k < most THEN 4 + group * k ELSE most
    BY DEF Least, PageSize
  <2> HIDE DEF z, y
  <2> QED BY <1>1, <1>2, <1>6, <2>1, <2>2, <2>3
<1>12. counts \subseteq Nat
  <2>1. ASSUME NEW j \in 0..Up(units - 1, GroupPages) PROVE Least(PageSize + group * j, most) \in Nat
    <3> DEFINE v == group * j
    <3>1. v \in Nat
      BY <1>7
    <3> HIDE DEF v
    <3>2. Least(PageSize + v, most) \in Nat
      BY <1>6, <3>1 DEF Least, PageSize
    <3> QED BY <3>2 DEF v
  <2> QED BY <2>1
<1>13. Scan(mem, PageSize + 1, counts, total) = <<m>>
  <2>1. PageSize + 1 \in Nat /\ PageSize + 1 > 0 /\ y >= PageSize + 1 /\ y >= PageSize + 1 + Len(Tlv(m)) - 2
    <3>1. y \in Nat
      <4> HIDE DEF y, counts
      <4> QED BY <1>10, <1>12
    <3> HIDE DEF y
    <3> QED BY <1>2, <1>11, <3>1 DEF PageSize, n
  <2> DEFINE at == PageSize + 1
  <2>2. at \in Nat /\ at > 0 /\ y >= at /\ Enough(at, m, y) /\ Holds(mem, at, m)
    BY <1>1, <2>1 DEF Enough
  <2> HIDE DEF y, counts, total, at
  <2>3. Scan(mem, at, counts, total) = <<m>>
    <3>1. y <= Len(mem)
      BY <1>11
    <3> QED BY <1>10, <1>12, <2>2, <3>1, ScanFinds
  <2> QED BY <2>3 DEF at
<1>14. ToolReadType2(t) = IF ~Cc2Ok(mem) \/ cc.access = "no" THEN <<>>
                          ELSE Scan(mem, PageSize + 1, counts, total)
  BY DEF ToolReadType2, mem, cc, area, group, units, most
<1>15. Cc2Ok(mem) /\ cc.access # "no"
  BY <1>1, <1>2 DEF Cc2Ok, cc
<1> HIDE DEF counts, total
<1> QED BY <1>13, <1>14, <1>15

-----------------------------------------------------------------------------
(***************************************************************************)
(* Type 5 tags.                                                            *)
(***************************************************************************)
LEMMA Cc5Is ==
  ASSUME NEW mem
  PROVE  /\ Cc5(mem).len \in {0, 4, 8} /\ Cc5(mem).mlen \in Nat /\ Cc5(mem).area \in Nat
         /\ Cc5(mem).len = 4 <=> mem[1] \in {"E1", "E2"} /\ Amount(mem[3]) # 0
         /\ Cc5(mem).len = 4 => Cc5(mem).mlen = Amount(mem[3]) /\ Cc5(mem).area = 8 * Cc5(mem).mlen
         /\ Cc5(mem).len = 8 => Cc5(mem).mlen = 0
         /\ Cc5(mem).len = 0 => Cc5(mem).mlen = 0
         /\ Cc5(mem).len # 0 => mem[1] \in {"E1", "E2"} /\ Cc5(mem).access = mem[2]
<1>1. Amount(mem[3]) \in Nat /\ Amount(mem[8]) \in Nat
  BY AmountIs, Sizes
<1>2. CASE mem[1] \in {"E1", "E2"} /\ Amount(mem[3]) # 0
  BY <1>1, <1>2 DEF Cc5, AreaUnit
<1>3. CASE mem[1] \in {"E1", "E2"} /\ Amount(mem[3]) = 0 /\ Amount(mem[8]) # 0
  BY <1>1, <1>3 DEF Cc5, AreaUnit
<1>4. CASE ~(mem[1] \in {"E1", "E2"}) \/ (Amount(mem[3]) = 0 /\ Amount(mem[8]) = 0)
  BY <1>1, <1>4 DEF Cc5, AreaUnit
<1> QED BY <1>2, <1>3, <1>4

LEMMA Quarters ==
  ASSUME NEW n \in Nat, n % 4 = 0
  PROVE  n \div 4 \in Nat /\ 4 * (n \div 4) = n
OBVIOUS

LEMMA BlocksIs ==
  ASSUME NEW t, Len(t.mem) \in Nat, Len(t.mem) % PageSize = 0
  PROVE  /\ Blocks(t) \in Nat
         /\ t.sys => 4 * Blocks(t) = Len(t.mem)
         /\ ~t.sys => Blocks(t) = 0
<1> DEFINE n == Len(t.mem)
<1>1. n \in Nat /\ n % 4 = 0
  BY DEF PageSize
<1>2. Blocks(t) = IF t.sys THEN n \div 4 ELSE 0
  BY DEF Blocks, PageSize
<1> HIDE DEF n
<1>3. n \div 4 \in Nat /\ 4 * (n \div 4) = n
  BY <1>1, Quarters
<1>4. CASE t.sys
  <2>1. Blocks(t) = n \div 4
    BY <1>2, <1>4
  <2> QED BY <1>3, <1>4, <2>1 DEF n
<1>5. CASE ~t.sys
  BY <1>2, <1>5
<1> QED BY <1>4, <1>5

LEMMA Area5Is ==
  ASSUME NEW t, Len(t.mem) \in Nat, Len(t.mem) % PageSize = 0
  PROVE  /\ Area5(t) \in Nat
         /\ \/ Area5(t) = Cc5(t.mem).area
            \/ t.sys /\ Cc5(t.mem).len = 4 /\ t.mem[4] = "ovf" /\ Area5(t) = Len(t.mem) - 4
<1> DEFINE c == Cc5(t.mem)
           total == Blocks(t) * PageSize
<1>1. c.area \in Nat /\ c.len \in {0, 4, 8}
  BY Cc5Is
<1>2. total \in Nat /\ (t.sys => total = Len(t.mem)) /\ (~t.sys => total = 0)
  <2> DEFINE b == Blocks(t)
  <2>1. b \in Nat /\ (t.sys => 4 * b = Len(t.mem)) /\ (~t.sys => b = 0)
    BY BlocksIs
  <2>2. total = b * 4
    BY DEF PageSize
  <2> HIDE DEF b, total
  <2> QED BY <2>1, <2>2
<1>3. Area5(t) = IF c.len = 4 /\ c.mlen = MlenOverflow /\ t.mem[4] = "ovf" /\ total > c.len
                 THEN total - c.len ELSE c.area
  BY DEF Area5
<1> HIDE DEF c, total
<1>4. CASE c.len = 4 /\ c.mlen = MlenOverflow /\ t.mem[4] = "ovf" /\ total > c.len
  <2>1. t.sys
    BY <1>2, <1>4
  <2> QED BY <1>2, <1>3, <1>4, <2>1 DEF c
<1>5. CASE ~(c.len = 4 /\ c.mlen = MlenOverflow /\ t.mem[4] = "ovf" /\ total > c.len)
  BY <1>1, <1>3, <1>5 DEF c
<1> QED BY <1>4, <1>5

(* What a writer leaves on the tag: a CC in front of the TLV that does not      *)
(* declare more than there is, and, if its unit allows for it, all of the TLV   *)
AllCovered(t) ==
  t.sys => Blocks(t) % 2 = 1 /\ ((Blocks(t) - 1) * PageSize) \div AreaUnit <= MlenOverflow
Holds5(t, m) ==
  LET c == Cc5(t.mem)
  IN  /\ c.len \in {4, 8} /\ c.access = "rw" /\ Holds(t.mem, c.len + 1, m)
      /\ Len(t.mem) % PageSize = 0
      /\ t.sys => c.len + Area5(t) <= Len(t.mem)
      /\ c.len = 4 /\ AllCovered(t) => Area5(t) >= Len(Tlv(m))

LEMMA AreaCovers ==
  ASSUME NEW t, NEW m, IsMessage(m), Holds(t.mem, 5, m), Len(t.mem) % PageSize = 0,
         Cc5(t.mem).len = 4, 8 * Cc5(t.mem).mlen >= Len(Tlv(m))
  PROVE  Area5(t) >= Len(Tlv(m))
<1> DEFINE n == Len(Tlv(m))
           u == Up(n, PageSize)
<1>1. n \in Nat /\ u \in Nat /\ n <= 4 * u
  BY TlvUnits DEF PageSize
<1>2. Len(t.mem) \in Nat /\ 5 + 4 * u - 1 <= Len(t.mem)
  BY DEF Holds, PageSize
<1>3. Area5(t) = Cc5(t.mem).area \/ Area5(t) = Len(t.mem) - 4
  BY <1>2, Area5Is
<1>4. Cc5(t.mem).area = 8 * Cc5(t.mem).mlen
  BY Cc5Is
<1> HIDE DEF n, u
<1>5. CASE Area5(t) = Len(t.mem) - 4
  BY <1>1, <1>2, <1>5 DEF n
<1>6. CASE Area5(t) = Cc5(t.mem).area
  BY <1>4, <1>6
<1> QED BY <1>3, <1>5, <1>6

\* A tag that a message is written to, as the tags of the model are.
Fits5(t) ==
  /\ t.mem \in Seq(Octet) /\ Len(t.mem) % PageSize = 0 /\ Len(t.mem) >= 3 * PageSize
  /\ t.sys /\ Cc5(t.mem).len # 0 => Cc5(t.mem).len + Area5(t) <= Len(t.mem)

LEMMA FitsIs ==
  ASSUME NEW t, Fits5(t)
  PROVE  t.mem \in Seq(Octet) /\ Len(t.mem) \in Nat /\ Len(t.mem) >= 12 /\ Len(t.mem) % PageSize = 0
<1>1. t.mem \in Seq(Octet) /\ Len(t.mem) % PageSize = 0 /\ Len(t.mem) >= 3 * PageSize
  BY Zenon DEF Fits5
<1>2. 3 * PageSize = 12
  BY DEF PageSize
<1> QED BY <1>1, <1>2

(* The TLV behind a CC that stays as it is *)
LEMMA Kept5 ==
  ASSUME NEW t, Fits5(t), NEW m, IsMessage(m), NEW c \in {4, 8},
         Cc5(t.mem).len = c, Cc5(t.mem).access = "rw",
         c = 4 /\ AllCovered(t) => 8 * Cc5(t.mem).mlen >= Len(Tlv(m)),
         WriteUnits(t.mem, c + 1, Tlv(m)).ok,
         NEW new, new.mem = WriteUnits(t.mem, c + 1, Tlv(m)).mem, new.sys = t.sys
  PROVE  Holds5(new, m)
<1> DEFINE at == c + 1
<1>1. at \in Nat /\ at > 0 /\ (at = 5 \/ at = 9) /\ (c = 8 => at = 9)
  OBVIOUS
<1>2. t.mem \in Seq(Octet) /\ Len(t.mem) \in Nat /\ Len(t.mem) >= 12 /\ Len(t.mem) % PageSize = 0
  BY FitsIs
<1>3. /\ Len(new.mem) = Len(t.mem) /\ Holds(new.mem, at, m)
      /\ \A i \in 1..Len(t.mem) : i < at => new.mem[i] = t.mem[i]
  <2> HIDE DEF at
  <2>1. WriteUnits(t.mem, at, Tlv(m)).ok /\ new.mem = WriteUnits(t.mem, at, Tlv(m)).mem
    BY DEF at
  <2> QED BY <1>1, <1>2, <2>1, WriteUnitsIs
<1>4. /\ new.mem[1] = t.mem[1] /\ new.mem[2] = t.mem[2] /\ new.mem[3] = t.mem[3]
      /\ new.mem[4] = t.mem[4] /\ (c = 8 => new.mem[8] = t.mem[8])
  <2> HIDE DEF at
  <2>1. 1 \in 1..Len(t.mem) /\ 2 \in 1..Len(t.mem) /\ 3 \in 1..Len(t.mem) /\ 4 \in 1..Len(t.mem)
        /\ 8 \in 1..Len(t.mem)
    BY <1>2
  <2>2. 1 < at /\ 2 < at /\ 3 < at /\ 4 < at /\ (c = 8 => 8 < at)
    BY <1>1
  <2> QED BY <1>3, <2>1, <2>2
<1>5. Cc5(new.mem) = Cc5(t.mem)
  <2>1. CASE c = 8
    BY <1>4, <2>1 DEF Cc5
  <2>2. CASE c = 4
    <3>1. Amount(t.mem[3]) # 0
      BY <2>2, Cc5Is
    <3> QED BY <1>4, <3>1 DEF Cc5
  <2> QED BY <2>1, <2>2
<1>6. Blocks(new) = Blocks(t) /\ Area5(new) = Area5(t)
  BY <1>3, <1>4, <1>5 DEF Blocks, Area5
<1>7. c = 4 /\ AllCovered(new) => Area5(new) >= Len(Tlv(m))
  <2> HAVE c = 4 /\ AllCovered(new)
  <2>1. AllCovered(t)
    BY <1>6 DEF AllCovered
  <2>2. Len(new.mem) % PageSize = 0 /\ Holds(new.mem, 5, m)
    BY <1>2, <1>3
  <2>3. Cc5(new.mem).len = 4 /\ 8 * Cc5(new.mem).mlen >= Len(Tlv(m))
    BY <1>5, <2>1
  <2> QED BY <2>2, <2>3, AreaCovers
<1>8. new.sys => c + Area5(new) <= Len(new.mem)
  BY <1>3, <1>6 DEF Fits5
<1> QED BY <1>2, <1>3, <1>5, <1>7, <1>8 DEF Holds5

(* The TLV behind a new CC *)
LEMMA Programmed5 ==
  ASSUME NEW t, Fits5(t), NEW m, IsMessage(m), NEW with \in Seq(Octet), Len(with) = Len(t.mem),
         with[1] \in {"E1", "E2"}, with[2] = "rw", Amount(with[3]) # 0,
         t.sys => 4 + 8 * Amount(with[3]) <= Len(t.mem),
         AllCovered(t) => 8 * Amount(with[3]) >= Len(Tlv(m)),
         WriteUnits(with, 5, Tlv(m)).ok,
         NEW new, new.mem = WriteUnits(with, 5, Tlv(m)).mem, new.sys = t.sys
  PROVE  Holds5(new, m)
<1>1. Len(t.mem) \in Nat /\ Len(t.mem) >= 12 /\ Len(t.mem) % PageSize = 0
  BY FitsIs
<1>2. /\ Len(new.mem) = Len(with) /\ Holds(new.mem, 5, m)
      /\ \A i \in 1..Len(with) : i < 5 => new.mem[i] = with[i]
  <2>1. 5 \in Nat /\ 5 > 0
    OBVIOUS
  <2> QED BY <2>1, WriteUnitsIs
<1>3. new.mem[1] = with[1] /\ new.mem[2] = with[2] /\ new.mem[3] = with[3]
  <2>1. 1 \in 1..Len(with) /\ 2 \in 1..Len(with) /\ 3 \in 1..Len(with)
    BY <1>1
  <2> QED BY <1>2, <2>1
<1>4. /\ Cc5(new.mem).len = 4 /\ Cc5(new.mem).access = "rw" /\ Cc5(new.mem).mlen = Amount(with[3])
      /\ Cc5(new.mem).area = 8 * Amount(with[3]) /\ Amount(with[3]) \in Nat
  <2>1. Amount(with[3]) \in Nat
    BY AmountIs, Sizes
  <2>2. Cc5(new.mem).len = 4
    BY <1>3, Cc5Is
  <2> QED BY <1>3, <2>1, <2>2, Cc5Is
<1>5. Len(new.mem) = Len(t.mem) /\ Len(new.mem) \in Nat /\ Len(new.mem) % PageSize = 0
  BY <1>1, <1>2
<1>6. new.sys => 4 + Area5(new) <= Len(new.mem)
  <2>1. Area5(new) = 8 * Amount(with[3]) \/ Area5(new) = Len(new.mem) - 4
    BY <1>4, <1>5, Area5Is
  <2> QED BY <1>4, <1>5, <2>1
<1>7. Blocks(new) = Blocks(t)
  BY <1>5 DEF Blocks
<1>8. AllCovered(new) => Area5(new) >= Len(Tlv(m))
  <2> HAVE AllCovered(new)
  <2>1. AllCovered(t)
    BY <1>7 DEF AllCovered
  <2> QED BY <1>2, <1>4, <1>5, <2>1, AreaCovers
<1> QED BY <1>2, <1>4, <1>5, <1>6, <1>8 DEF Holds5

(* The MLEN that a writer wants *)
Wanted(t, x) == IF Blocks(t) > 1 THEN Least(x, ((Blocks(t) - 1) * PageSize) \div AreaUnit) ELSE x
LEMMA WantedIs ==
  ASSUME NEW t, Fits5(t), NEW n \in Nat, NEW u \in Nat, n <= 4 * u,
         t.sys => 4 + 4 * u <= Len(t.mem),
         NEW x \in Nat, x > 0, n <= 8 * x
  PROVE  /\ Wanted(t, x) \in Nat /\ Wanted(t, x) > 0 /\ Wanted(t, x) <= x
         /\ t.sys => 4 + 8 * Wanted(t, x) <= Len(t.mem)
         /\ AllCovered(t) => 8 * Wanted(t, x) >= n
<1> DEFINE b == Blocks(t)
           k == ((b - 1) * 4) \div 8
<1>1. Len(t.mem) \in Nat /\ Len(t.mem) >= 12 /\ Len(t.mem) % PageSize = 0
  BY FitsIs
<1>2. b \in Nat /\ (t.sys => 4 * b = Len(t.mem)) /\ (~t.sys => b = 0)
  BY <1>1, BlocksIs
<1>3. Wanted(t, x) = IF b > 1 THEN Least(x, k) ELSE x
  BY DEF Wanted, PageSize, AreaUnit
<1> HIDE DEF b
<1>4. CASE t.sys
  <2>1. b >= 3 /\ 4 + 4 * u <= 4 * b
    BY <1>1, <1>2, <1>4
  <2>2. k \in Nat /\ k > 0 /\ 8 * k <= 4 * b - 4
    BY <1>2, <2>1
  <2>3. b % 2 = 1 => 8 * k = 4 * b - 4
    BY <1>2, <2>1
  <2> HIDE DEF k
  <2>4. Wanted(t, x) = IF x < k THEN x ELSE k
    <3>1. b > 1
      BY <1>2, <2>1
    <3> QED BY <1>3, <3>1 DEF Least
  <2>5. AllCovered(t) => b % 2 = 1
    BY <1>4 DEF AllCovered, b
  <2> QED BY <1>1, <1>2, <1>4, <2>1, <2>2, <2>3, <2>4, <2>5
<1>5. CASE ~t.sys
  BY <1>2, <1>3, <1>5
<1> QED BY <1>4, <1>5

(* The sizes a writer starts from *)
LEMMA UnitsWanted ==
  ASSUME NEW m, IsMessage(m), NEW least \in Lengths, least > 0
  PROVE  LET x == Most(Up(Len(Tlv(m)), AreaUnit), least)
         IN  x \in Nat /\ x > 0 /\ x \in Lengths /\ Len(Tlv(m)) <= 8 * x
<1> DEFINE u == Up(Len(Tlv(m)), AreaUnit)
           n == Len(Tlv(m))
<1>1. /\ u \in Nat /\ 8 * u < n + 8 /\ n <= MessageMax + 5 /\ n \in Nat /\ n <= 8 * u
  BY TlvUnits
<1>2. least \in Nat /\ least <= MessageMax + 4 /\ MessageMax \in Nat /\ MessageMax > 0
  BY Sizes
<1> DEFINE x == Most(u, least)
<1>3. x = IF u < least THEN least ELSE u
  BY DEF Most
<1> HIDE DEF u, n, x
<1>4. u <= MessageMax + 4
  BY <1>1, <1>2
<1>5. x \in Nat /\ x > 0 /\ x <= MessageMax + 4 /\ n <= 8 * x
  BY <1>1, <1>2, <1>3, <1>4
<1> QED BY <1>5, Sizes DEF u, n, x

LEMMA UnitsFit ==
  ASSUME NEW with \in Seq(Octet), NEW at \in Nat, at > 0, NEW m, IsMessage(m),
         WriteUnits(with, at, Tlv(m)).ok
  PROVE  at + 4 * Up(Len(Tlv(m)), PageSize) - 1 <= Len(with)
<1>1. /\ Holds(WriteUnits(with, at, Tlv(m)).mem, at, m)
      /\ Len(WriteUnits(with, at, Tlv(m)).mem) = Len(with)
  BY WriteUnitsIs
<1> QED BY <1>1 DEF Holds, PageSize

LEMMA WantedBounds ==
  ASSUME NEW t, Fits5(t), NEW x \in Nat
  PROVE  Wanted(t, x) \in Nat /\ Wanted(t, x) <= x
<1> DEFINE b == Blocks(t)
           k == ((b - 1) * 4) \div 8
<1>1. b \in Nat
  BY FitsIs, BlocksIs
<1>2. Wanted(t, x) = IF b > 1 THEN Least(x, k) ELSE x
  BY DEF Wanted, PageSize, AreaUnit
<1> HIDE DEF b
<1>3. b > 1 => k \in Nat
  BY <1>1
<1> HIDE DEF k
<1> QED BY <1>1, <1>2, <1>3 DEF Least

(* A CC that a writer programs, with as much of the MLEN it wants as it counts *)
LEMMA Programs5 ==
  ASSUME NEW t, Fits5(t), NEW m, IsMessage(m), NEW least \in Lengths, least > 0,
         NEW head \in Seq(Octet), Len(head) = 4, head[1] \in {"E1", "E2"}, head[2] = "rw",
         NEW w \in Nat, w > 0, head[3] = Byte[w],
         LET most == Wanted(t, Most(Up(Len(Tlv(m)), AreaUnit), least))
         IN  w <= most /\ (AllCovered(t) => w = most),
         WriteUnits(head \o SubSeq(t.mem, 5, Len(t.mem)), 5, Tlv(m)).ok,
         NEW new, new.sys = t.sys,
         new.mem = WriteUnits(head \o SubSeq(t.mem, 5, Len(t.mem)), 5, Tlv(m)).mem
  PROVE  Holds5(new, m)
<1> DEFINE with == head \o SubSeq(t.mem, 5, Len(t.mem))
           x == Most(Up(Len(Tlv(m)), AreaUnit), least)
           most == Wanted(t, x)
           n == Len(Tlv(m))
           u == Up(n, PageSize)
<1>1. x \in Nat /\ x > 0 /\ x \in Lengths /\ n <= 8 * x
  BY UnitsWanted
<1>2. n \in Nat /\ u \in Nat /\ n <= 4 * u
  BY TlvUnits DEF PageSize
<1>3. t.mem \in Seq(Octet) /\ Len(t.mem) \in Nat /\ Len(t.mem) >= 12
  BY FitsIs
<1>4. with \in Seq(Octet) /\ Len(with) = Len(t.mem) /\ \A i \in 1..4 : with[i] = head[i]
  <2>1. Len(t.mem) >= 4
    BY <1>3
  <2> QED BY <1>3, <2>1, CcProgrammed
<1>5. with[1] = head[1] /\ with[2] = head[2] /\ with[3] = head[3]
  <2>1. 1 \in 1..4 /\ 2 \in 1..4 /\ 3 \in 1..4
    OBVIOUS
  <2> HIDE DEF with
  <2> QED BY <1>4, <2>1
<1>6. WriteUnits(with, 5, Tlv(m)).ok /\ new.mem = WriteUnits(with, 5, Tlv(m)).mem
  OBVIOUS
<1> HIDE DEF with
<1>7. 4 + 4 * u <= Len(t.mem)
  <2>1. 5 \in Nat /\ 5 > 0
    OBVIOUS
  <2>2. 5 + 4 * u - 1 <= Len(with)
    BY <1>4, <1>6, <2>1, UnitsFit
  <2> HIDE DEF u
  <2> QED BY <1>2, <1>4, <2>2
<1> HIDE DEF x, n, u
<1>8. w <= x /\ (t.sys => 4 + 8 * w <= Len(t.mem)) /\ (AllCovered(t) => 8 * w >= n)
  <2>1. w <= most /\ (AllCovered(t) => w = most)
    BY DEF x
  <2>2. most \in Nat /\ most <= x /\ (t.sys => 4 + 8 * most <= Len(t.mem)) /\ (AllCovered(t) => 8 * most >= n)
    BY <1>1, <1>2, <1>7, WantedIs
  <2> HIDE DEF most
  <2>3. w <= x
    BY <1>1, <2>1, <2>2
  <2>4. ASSUME t.sys PROVE 4 + 8 * w <= Len(t.mem)
    BY <1>3, <2>1, <2>2, <2>4
  <2>5. ASSUME AllCovered(t) PROVE 8 * w >= n
    BY <2>1, <2>2, <2>5
  <2> QED BY <2>3, <2>4, <2>5
<1>9. w \in Lengths
  BY <1>1, <1>8, Sizes
<1>10. Amount(with[3]) = w
  BY <1>5, <1>9, ByteNumber
<1>11. /\ with[1] \in {"E1", "E2"} /\ with[2] = "rw" /\ Amount(with[3]) # 0
       /\ t.sys => 4 + 8 * Amount(with[3]) <= Len(t.mem)
       /\ AllCovered(t) => 8 * Amount(with[3]) >= Len(Tlv(m))
  BY <1>5, <1>8, <1>10 DEF n
<1> QED BY <1>4, <1>6, <1>11, Programmed5

LEMMA Replaced ==
  ASSUME NEW s \in Seq(Octet), NEW i, NEW e \in Octet
  PROVE  [s EXCEPT ![i] = e] \in Seq(Octet) /\ Len([s EXCEPT ![i] = e]) = Len(s)
<1> DEFINE r == [s EXCEPT ![i] = e]
<1>1. Len(s) \in Nat /\ DOMAIN s = 1..Len(s)
  OBVIOUS
<1>2. r = [k \in 1..Len(s) |-> r[k]]
  BY <1>1
<1>3. \A k \in 1..Len(s) : r[k] \in Octet
  BY <1>1
<1> HIDE DEF r
<1>4. r \in Seq(Octet) /\ Len(r) = Len(s)
  BY <1>1, <1>2, <1>3
<1> QED BY <1>4 DEF r

LEMMA NotRefused ==
  ASSUME NEW refused, NEW mem, NEW w, NEW r,
         r = IF refused THEN Result(FALSE, mem) ELSE w, r.ok
  PROVE  ~refused /\ r = w
BY DEF Result

LEMMA WriteType5Holds ==
  ASSUME NEW t, Fits5(t), NEW m, IsMessage(m), WriteType5(t, m).ok,
         NEW new, new.mem = WriteType5(t, m).mem, new.sys = t.sys
  PROVE  Holds5(new, m)
<1> DEFINE mem == t.mem
           tlv == Tlv(m)
           cc == Cc5(mem)
           mlen == Mlen5(t, Len(tlv))
           program == cc.len # 8 /\ cc.mlen < mlen
           first == IF cc.len = 8 THEN 2 ELSE 1
           kept == [SubSeq(mem, 1, 4) EXCEPT ![3] = Byte[mlen]]
           fresh == <<"E1", "rw", Byte[mlen], "00">>
           head == IF cc.len = 4 THEN kept ELSE fresh
           with == IF program THEN head \o SubSeq(mem, 5, Len(mem)) ELSE mem
           refused == \/ m = <<>> \/ (cc.len # 0 /\ cc.access # "rw")
                      \/ (Blocks(t) # 0 /\ first + Up(Len(tlv), PageSize) > Blocks(t))
           wu == WriteUnits(with, first * PageSize + 1, tlv)
           x == Most(Up(Len(tlv), AreaUnit), MinMlen)
<1>1. WriteType5(t, m) = IF refused THEN Result(FALSE, mem) ELSE wu
  BY DEF WriteType5
<1>2. ~refused /\ WriteType5(t, m) = wu
  <2> HIDE DEF refused, wu
  <2> QED BY <1>1, NotRefused
<1>3. wu.ok /\ new.mem = wu.mem
  <2> HIDE DEF wu
  <2> QED BY <1>2
<1>4. cc.len # 0 => cc.access = "rw"
  BY <1>2
<1>5. mem \in Seq(Octet) /\ Len(mem) \in Nat /\ Len(mem) >= 12
  BY FitsIs
<1>6. MinMlen \in Lengths /\ MinMlen > 0
  BY GeometryAssumption
<1>7. cc.len # 8 => mlen = Wanted(t, x)
  BY DEF Mlen5, Wanted
<1>8. x \in Nat /\ x > 0 /\ x \in Lengths /\ Len(tlv) <= 8 * x
  BY <1>6, UnitsWanted
<1>9. cc.len \in {0, 4, 8}
  BY Cc5Is
<1> HIDE DEF refused, wu, head, mlen, x, with
<1>10. CASE cc.len = 8
  <2>1. with = mem /\ first * PageSize + 1 = 9
    BY <1>10 DEF with, PageSize
  <2>2. WriteUnits(mem, 8 + 1, tlv).ok /\ new.mem = WriteUnits(mem, 8 + 1, tlv).mem
    <3>1. 8 + 1 = 9
      OBVIOUS
    <3> QED BY <1>3, <2>1, <3>1 DEF wu
  <2>3. 8 \in {4, 8} /\ cc.access = "rw" /\ ~(8 = 4)
    BY <1>4, <1>10
  <2> QED BY <1>10, <2>2, <2>3, Kept5
<1>11. CASE cc.len # 8 /\ program
  <2>1. first * PageSize + 1 = 5 /\ with = head \o SubSeq(mem, 5, Len(mem))
    BY <1>11 DEF with, PageSize
  <2>2. /\ WriteUnits(head \o SubSeq(mem, 5, Len(mem)), 5, tlv).ok
        /\ new.mem = WriteUnits(head \o SubSeq(mem, 5, Len(mem)), 5, tlv).mem
    BY <1>3, <2>1 DEF wu
  <2>3. mlen \in Lengths
    <3>1. Wanted(t, x) \in Nat /\ Wanted(t, x) <= x
      BY <1>8, WantedBounds
    <3> QED BY <1>7, <1>8, <1>11, <3>1, Sizes
  <2>4. head \in Seq(Octet) /\ Len(head) = 4 /\ head[1] \in {"E1", "E2"} /\ head[2] = "rw" /\ head[3] = Byte[mlen]
    <3>1. Byte[mlen] \in Octet
      BY <2>3, ByteNumber
    <3>2. CASE cc.len = 4
      <4>1. head = kept /\ cc.access = "rw"
        BY <1>4, <3>2 DEF head
      <4>2. mem[1] \in {"E1", "E2"} /\ mem[2] = "rw"
        BY <3>2, <4>1, Cc5Is
      <4> DEFINE s == SubSeq(mem, 1, 4)
      <4>3. s \in Seq(Octet) /\ Len(s) = 4 /\ s[1] = mem[1] /\ s[2] = mem[2]
        BY <1>5
      <4>4. head = [s EXCEPT ![3] = Byte[mlen]]
        BY <4>1
      <4> DEFINE e == Byte[mlen]
      <4> HIDE DEF s, e
      <4>5. [s EXCEPT ![3] = e] \in Seq(Octet) /\ Len([s EXCEPT ![3] = e]) = 4
        <5>1. e \in Octet
          BY <3>1 DEF e
        <5> QED BY <4>3, <5>1, Replaced
      <4>6. DOMAIN s = 1..4
        BY <4>3
      <4>7. /\ [s EXCEPT ![3] = e][1] = s[1] /\ [s EXCEPT ![3] = e][2] = s[2]
            /\ [s EXCEPT ![3] = e][3] = e
        BY <4>6
      <4> QED BY <4>2, <4>3, <4>4, <4>5, <4>7 DEF e
    <3>3. CASE cc.len # 4
      <4>1. head = fresh
        BY <3>3 DEF head
      <4>2. "E1" \in Octet /\ "rw" \in Octet /\ "00" \in Octet
        BY DEF Octet
      <4> QED BY <3>1, <4>1, <4>2
    <3> QED BY <3>2, <3>3
  <2>5. mlen \in Nat /\ mlen > 0 /\ mlen = Wanted(t, Most(Up(Len(tlv), AreaUnit), MinMlen))
    <3>1. mlen = Wanted(t, x) /\ Wanted(t, x) \in Nat
      BY <1>7, <1>8, <1>11, WantedBounds
    <3>2. cc.mlen \in Nat /\ cc.mlen < mlen
      BY <1>11, Cc5Is
    <3> HIDE DEF cc
    <3> QED BY <3>1, <3>2 DEF x
  <2>6. mlen <= Wanted(t, Most(Up(Len(tlv), AreaUnit), MinMlen))
    BY <2>5
  <2> QED BY <1>6, <2>2, <2>4, <2>5, <2>6, Programs5
<1>12. CASE cc.len # 8 /\ ~program
  <2>1. first * PageSize + 1 = 5 /\ with = mem /\ ~(cc.mlen < mlen)
    BY <1>12 DEF with, PageSize
  <2>2. WriteUnits(mem, 4 + 1, tlv).ok /\ new.mem = WriteUnits(mem, 4 + 1, tlv).mem
    <3>1. 4 + 1 = 5
      OBVIOUS
    <3> QED BY <1>3, <2>1, <3>1 DEF wu
  <2> DEFINE n == Len(tlv)
             u == Up(n, PageSize)
  <2>3. n \in Nat /\ u \in Nat /\ n <= 4 * u
    BY TlvUnits DEF PageSize
  <2>4. t.sys => 4 + 4 * u <= Len(t.mem)
    <3>1. 4 + 1 \in Nat /\ 4 + 1 > 0
      OBVIOUS
    <3>2. 4 + 1 + 4 * u - 1 <= Len(mem)
      BY <1>5, <2>2, <3>1, UnitsFit
    <3> HIDE DEF u
    <3> QED BY <2>3, <3>2
  <2> HIDE DEF n, u
  <2>5. mlen \in Nat /\ mlen > 0 /\ (AllCovered(t) => 8 * mlen >= n)
    BY <1>7, <1>8, <1>12, <2>3, <2>4, WantedIs DEF n
  <2>6. cc.mlen \in Nat /\ (cc.len = 0 => cc.mlen = 0)
    BY Cc5Is
  <2> HIDE DEF cc
  <2>7. cc.len = 4 /\ (AllCovered(t) => 8 * cc.mlen >= n)
    BY <1>9, <1>12, <2>1, <2>3, <2>5, <2>6
  <2>8. 4 \in {4, 8} /\ cc.access = "rw"
    BY <1>4, <2>7
  <2> QED BY <2>2, <2>7, <2>8, Kept5 DEF cc, n
<1> QED BY <1>10, <1>11, <1>12

(* What is left of a number of units in the byte of an MLEN *)
LEMMA CutToByte ==
  ASSUME NEW k \in Nat, NEW most \in Nat
  PROVE  /\ k % (most + 1) \in Nat /\ k % (most + 1) <= k
         /\ k <= most => k % (most + 1) = k
<1> DEFINE d == most + 1
           q == k \div d
           r == k % d
<1>1. d \in Nat /\ d > 0 /\ most < d
  OBVIOUS
<1> HIDE DEF d
<1>2. q \in Int /\ r \in 0..d-1 /\ k = d * q + r
  BY <1>1
<1> HIDE DEF q, r
<1>3. q >= 0
  <2> SUFFICES ASSUME q <= -1 PROVE FALSE
    BY <1>2
  <2>1. d * q <= d * (-1)
    BY <1>1, <1>2
  <2> QED BY <1>1, <1>2, <2>1
<1>4. d * q >= 0
  BY <1>1, <1>2, <1>3
<1>5. k < d => q = 0
  <2> SUFFICES ASSUME k < d, q >= 1 PROVE FALSE
    BY <1>2, <1>3
  <2>1. d * q >= d
    BY <1>1, <1>2
  <2> QED BY <1>1, <1>2, <2>1
<1>6. r \in Nat /\ r <= k /\ (k <= most => r = k)
  <2>1. q = 0 => r = k
    BY <1>1, <1>2
  <2> QED BY <1>1, <1>2, <1>4, <1>5, <2>1
<1> QED BY <1>6 DEF r, d

LEMMA ToolWriteType5Holds ==
  ASSUME NEW t, Fits5(t), NEW m, IsMessage(m), ToolWriteType5(t, m).ok,
         NEW new, new.mem = ToolWriteType5(t, m).mem, new.sys = t.sys
  PROVE  Holds5(new, m)
<1> DEFINE mem == t.mem
           tlv == Tlv(m)
           cc == Cc5(mem)
           need == NeededMlen(t, Len(tlv))
           program == cc.len = 4 /\ cc.mlen < need
           fresh == <<"E1", "rw", Byte[need], "00">>
           with == IF program THEN fresh \o SubSeq(mem, 5, Len(mem)) ELSE mem
           refused == \/ cc.len = 0 \/ cc.access # "rw" \/ (t.sys /\ Len(tlv) > DataArea(t))
                      \/ Up(Len(tlv), AreaUnit) > MlenOverflow
           wu == WriteUnits(with, cc.len + 1, tlv)
           x == Most(Up(Len(tlv), AreaUnit), AreaUnit)
<1>1. ToolWriteType5(t, m) = IF refused THEN Result(FALSE, mem) ELSE wu
  BY DEF ToolWriteType5
<1>2. ~refused /\ ToolWriteType5(t, m) = wu
  <2> HIDE DEF refused, wu
  <2> QED BY <1>1, NotRefused
<1>3. wu.ok /\ new.mem = wu.mem
  <2> HIDE DEF wu
  <2> QED BY <1>2
<1>4. cc.len # 0 /\ cc.access = "rw"
  BY <1>2
<1>5. mem \in Seq(Octet) /\ Len(mem) \in Nat /\ Len(mem) >= 12
  BY FitsIs
<1>6. AreaUnit \in Lengths /\ AreaUnit > 0
  BY GeometryAssumption DEF AreaUnit
<1>7. x \in Nat /\ x > 0 /\ x \in Lengths /\ Len(tlv) <= 8 * x
  BY <1>6, UnitsWanted
<1>8. cc.len = 4 =>
        need \in Nat /\ need <= Wanted(t, x) /\ (AllCovered(t) => need = Wanted(t, x))
  <2> HAVE cc.len = 4
  <2> DEFINE b == Blocks(t)
             k == ((b - 1) * PageSize) \div AreaUnit
  <2>1. b \in Nat /\ (b > 1 => t.sys)
    BY FitsIs, BlocksIs
  <2>2. 4 \div 4 = 1
    OBVIOUS
  <2>3. BlocksLeft(t) = IF b > 1 THEN b - 1 ELSE 0
    BY <2>2 DEF BlocksLeft, PageSize
  <2>4. need = IF BlocksLeft(t) > 0
               THEN Least(x, ((BlocksLeft(t) * PageSize) \div AreaUnit) % (MlenOverflow + 1)) ELSE x
    BY DEF NeededMlen
  <2>5. Wanted(t, x) = IF b > 1 THEN Least(x, k) ELSE x
    BY DEF Wanted
  <2>6. AllCovered(t) /\ b > 1 => k <= MlenOverflow
    BY <2>1 DEF AllCovered
  <2>7. b > 1 => k \in Nat
    BY <2>1 DEF PageSize, AreaUnit
  <2> HIDE DEF b, k, need, x
  <2>8. CASE b > 1
    <3>1. need = Least(x, k % (MlenOverflow + 1)) /\ Wanted(t, x) = Least(x, k)
      BY <2>1, <2>3, <2>4, <2>5, <2>8 DEF k
    <3>2. /\ k % (MlenOverflow + 1) \in Nat /\ k % (MlenOverflow + 1) <= k
          /\ k <= MlenOverflow => k % (MlenOverflow + 1) = k
      BY <2>7, <2>8, CutToByte, GeometryAssumption
    <3>3. need \in Nat /\ need <= Wanted(t, x)
      BY <1>7, <2>7, <2>8, <3>1, <3>2 DEF Least
    <3>4. ASSUME AllCovered(t) PROVE need = Wanted(t, x)
      BY <2>6, <2>8, <3>1, <3>2, <3>4
    <3> QED BY <3>3, <3>4
  <2>9. CASE ~(b > 1)
    <3>1. ~(BlocksLeft(t) > 0)
      BY <2>3, <2>9
    <3> QED BY <1>7, <2>4, <2>5, <2>9, <3>1
  <2> QED BY <2>8, <2>9
<1>9. cc.len \in {0, 4, 8}
  BY Cc5Is
<1> HIDE DEF refused, wu, fresh, need, x, with
<1>10. CASE program
  <2>1. cc.len + 1 = 5 /\ with = fresh \o SubSeq(mem, 5, Len(mem)) /\ cc.len = 4
    BY <1>10 DEF with
  <2>2. /\ WriteUnits(fresh \o SubSeq(mem, 5, Len(mem)), 5, tlv).ok
        /\ new.mem = WriteUnits(fresh \o SubSeq(mem, 5, Len(mem)), 5, tlv).mem
    BY <1>3, <2>1 DEF wu
  <2>3. need \in Lengths
    <3>1. Wanted(t, x) \in Nat /\ Wanted(t, x) <= x
      BY <1>7, WantedBounds
    <3> QED BY <1>7, <1>8, <2>1, <3>1, Sizes
  <2>4. fresh \in Seq(Octet) /\ Len(fresh) = 4 /\ fresh[1] \in {"E1", "E2"} /\ fresh[2] = "rw"
        /\ fresh[3] = Byte[need]
    <3>1. Byte[need] \in Octet
      BY <2>3, ByteNumber
    <3>2. "E1" \in Octet /\ "rw" \in Octet /\ "00" \in Octet
      BY DEF Octet
    <3> QED BY <3>1, <3>2 DEF fresh
  <2>5. need \in Nat /\ need > 0
    <3>1. need \in Nat /\ cc.mlen \in Nat /\ cc.mlen < need
      BY <1>8, <1>10, Cc5Is
    <3> HIDE DEF cc
    <3> QED BY <3>1
  <2>6. LET most == Wanted(t, Most(Up(Len(tlv), AreaUnit), AreaUnit))
        IN  need <= most /\ (AllCovered(t) => need = most)
    BY <1>8, <2>1 DEF x
  <2> QED BY <1>6, <2>2, <2>4, <2>5, <2>6, Programs5
<1>11. CASE ~program
  <2> DEFINE c == cc.len
  <2>1. with = mem /\ ~(c = 4 /\ cc.mlen < need) /\ c \in {4, 8}
    BY <1>4, <1>9, <1>11 DEF with
  <2>2. WriteUnits(mem, c + 1, tlv).ok /\ new.mem = WriteUnits(mem, c + 1, tlv).mem
    BY <1>3, <2>1 DEF wu
  <2>3. c = 4 /\ AllCovered(t) => 8 * cc.mlen >= Len(tlv)
    <3> HAVE c = 4 /\ AllCovered(t)
    <3> DEFINE n == Len(tlv)
               u == Up(n, PageSize)
    <3>1. n \in Nat /\ u \in Nat /\ n <= 4 * u
      BY TlvUnits DEF PageSize
    <3>2. t.sys => 4 + 4 * u <= Len(t.mem)
      <4>1. 4 + 1 \in Nat /\ 4 + 1 > 0 /\ WriteUnits(mem, 4 + 1, tlv).ok
        BY <2>2
      <4>2. 4 + 1 + 4 * u - 1 <= Len(mem)
        BY <1>5, <4>1, UnitsFit
      <4> HIDE DEF u
      <4> QED BY <3>1, <4>2
    <3> HIDE DEF n, u
    <3>3. need \in Nat /\ 8 * need >= n
      BY <1>7, <1>8, <3>1, <3>2, WantedIs DEF n
    <3>4. cc.mlen \in Nat
      BY Cc5Is
    <3> HIDE DEF cc
    <3>5. 8 * cc.mlen >= n
      BY <2>1, <3>1, <3>3, <3>4
    <3> QED BY <3>5 DEF n
  <2> QED BY <1>4, <2>1, <2>2, <2>3, Kept5
<1> QED BY <1>10, <1>11

LEMMA ChunkIs == ChunkBlocks \in Nat /\ ChunkBlocks > 0
BY GeometryAssumption

LEMMA ReadType5Finds ==
  ASSUME NEW t, NEW m, IsMessage(m), Holds5(t, m), t.sys, Area5(t) >= Len(Tlv(m)),
         ~Contains(LengthField(Len(m)) \o m, "FE")
  PROVE  ReadType5(t) = <<m>>
<1> DEFINE mem == t.mem
           n == Len(Tlv(m))
           c == Cc5(mem).len
           v == Least(c + Area5(t), BufMax)
           all == Up(v, PageSize)
           area(k) == SubSeq(mem, c + 1, PageSize * k)
           done(k) == PageSize * k > Len(mem) \/ (PageSize * k > c /\ TlvComplete(area(k)))
           C == {Least(ChunkBlocks * k, all) : k \in 1..Up(all, ChunkBlocks)}
           D == {k \in C : done(k)}
           stop == CHOOSE k \in C : /\ done(k) \/ \A j \in C : j <= k
                                    /\ \A j \in C : j < k => ~done(j)
<1>1. /\ c \in {4, 8} /\ Cc5(mem).access = "rw" /\ Holds(mem, c + 1, m) /\ Len(mem) % PageSize = 0
      /\ c + Area5(t) <= Len(mem)
  BY DEF Holds5
<1>2. Len(mem) \in Nat
  BY <1>1 DEF Holds
<1>3. Area5(t) \in Nat
  BY <1>1, <1>2, Area5Is
<1>4. n \in Nat /\ n >= 4 /\ n <= EnvelopeLen(MessageMax)
  BY TlvUnits
<1>5. BufMax \in Nat /\ EnvelopeLen(MessageMax) \in Nat /\ 8 + EnvelopeLen(MessageMax) <= BufMax
  <2>1. EnvelopeLen(MessageMax) \in Nat
    BY Sizes DEF EnvelopeLen
  <2>2. BufMax \in Nat /\ 2 * PageSize + EnvelopeLen(MessageMax) <= BufMax
    BY GeometryAssumption
  <2> QED BY <2>1, <2>2 DEF PageSize
<1>6. 4 * Blocks(t) = Len(mem) /\ Blocks(t) \in Nat
  BY <1>1, <1>2, BlocksIs
<1>7. v \in Nat /\ v >= c + n /\ v <= Len(mem)
  <2>1. v = IF c + Area5(t) < BufMax THEN c + Area5(t) ELSE BufMax
    BY DEF Least
  <2> DEFINE a == Area5(t)
  <2>2. a \in Nat /\ a >= n
    BY <1>3
  <2> HIDE DEF v, c, n, mem, a
  <2> QED BY <1>1, <1>2, <1>4, <1>5, <2>1, <2>2, SMTT(30) DEF a
<1> HIDE DEF mem, n, c, v
<1>8. all \in Nat /\ 4 * all >= c + n /\ 4 * all <= Len(mem) /\ all > 0
  <2>1. Up(v, 4) \in Nat /\ v <= 4 * Up(v, 4) /\ 4 * Up(v, 4) < v + 4
    BY <1>7, UpFour
  <2>2. all = Up(v, 4)
    BY DEF PageSize
  <2> HIDE DEF all
  <2> DEFINE b == Blocks(t)
  <2>3. b \in Nat /\ 4 * b = Len(mem)
    BY <1>6
  <2> HIDE DEF b
  <2> QED BY <1>1, <1>4, <1>7, <2>1, <2>2, <2>3
<1> HIDE DEF all
<1>9. ASSUME NEW k \in Nat, 4 * k <= Len(mem), 4 * k > c,
             4 * k >= c + n \/ TlvComplete(area(k))
      PROVE  ParseTlvArea(area(k)) = <<m>> /\ FindMessage(area(k)).status = "ok"
  <2>1. Begins(area(k), m) /\ Len(area(k)) = 4 * k - c /\ Len(area(k)) \in Nat
    <3> DEFINE q == PageSize * k
               at == c + 1
    <3>1. q = 4 * k /\ q \in Nat /\ q + 1 >= at /\ q <= Len(mem) /\ at \in Nat /\ at > 0
      BY <1>1, <1>9 DEF PageSize
    <3> HIDE DEF q, at
    <3>2. Holds(mem, at, m)
      BY <1>1 DEF at
    <3>3. Begins(SubSeq(mem, at, q), m) /\ Len(SubSeq(mem, at, q)) = q - at + 1
      BY <3>1, <3>2, AreaBegins
    <3>4. q - at + 1 = 4 * k - c /\ 4 * k - c \in Nat
      BY <1>1, <1>9, <3>1 DEF at
    <3> QED BY <3>3, <3>4 DEF q, at
  <2> HIDE DEF area
  <2>2. CASE Len(area(k)) >= n - 1
    BY <2>1, <2>2, MessageFound DEF n
  <2>3. CASE ~(Len(area(k)) >= n - 1)
    <3>1. Len(area(k)) < n - 1 /\ ~(4 * k >= c + n)
      BY <1>1, <1>4, <2>1, <2>3
    <3>2. ~TlvComplete(area(k))
      BY <2>1, <3>1, MessageCut DEF n
    <3> QED BY <1>9, <3>1, <3>2
  <2> QED BY <2>2, <2>3
<1>10. C \subseteq Nat /\ all \in C /\ \A k \in C : k <= all
  <2>1. ChunkBlocks \in Nat /\ ChunkBlocks > 0
    BY ChunkIs
  <2> QED BY <1>8, <2>1, GroupCounts
<1> HIDE DEF C
<1>11. D \subseteq C /\ all \in D
  <2>1. 4 * all > c
    BY <1>1, <1>4, <1>8
  <2>2. FindMessage(area(all)).status = "ok"
    <3> HIDE DEF area
    <3> QED BY <1>8, <1>9, <2>1
  <2>3. PageSize * all > c
    BY <2>1 DEF PageSize
  <2>4. done(all)
    <3> HIDE DEF area
    <3> QED BY <2>2, <2>3 DEF TlvComplete
  <2> HIDE DEF done
  <2> QED BY <1>10, <2>4
<1>12. stop \in D
  <2>1. \E k \in C : k \in D /\ \A j \in C : j < k => j \notin D
    <3> HIDE DEF D
    <3> QED BY <1>10, <1>11, StopExists
  <2> HIDE DEF done
  <2>2. \E k \in C : /\ done(k) \/ \A j \in C : j <= k
                     /\ \A j \in C : j < k => ~done(j)
    BY <2>1
  <2>3. /\ stop \in C
        /\ done(stop) \/ \A j \in C : j <= stop
        /\ \A j \in C : j < stop => ~done(j)
    BY <2>2
  <2> HIDE DEF stop
  <2>4. stop \in D \/ \A j \in C : j <= stop
    BY <2>3
  <2>5. \A j \in C : j < stop => j \notin D
    BY <2>3
  <2> HIDE DEF D
  <2> QED BY <1>10, <1>11, <2>3, <2>4, <2>5, StopOnly
<1>13. stop \in Nat /\ done(stop) /\ stop <= all
  <2> HIDE DEF stop, done
  <2>1. stop \in C /\ done(stop)
    BY <1>12
  <2> QED BY <1>10, <2>1
<1> HIDE DEF stop
<1>14. 4 * stop <= Len(mem) /\ 4 * stop > c /\ TlvComplete(area(stop))
  <2>1. 4 * stop <= Len(mem)
    BY <1>2, <1>8, <1>13
  <2>2. PageSize * stop = 4 * stop
    BY DEF PageSize
  <2>3. ~(PageSize * stop > Len(mem))
    BY <1>2, <1>13, <2>1, <2>2
  <2>4. PageSize * stop > c /\ TlvComplete(area(stop))
    <3> HIDE DEF area
    <3> QED BY <1>13, <2>3
  <2> QED BY <2>1, <2>2, <2>4
<1>15. ParseTlvArea(area(stop)) = <<m>>
  <2> HIDE DEF area
  <2> QED BY <1>9, <1>13, <1>14
<1>16. ReadType5(t) = IF c = 0 \/ Cc5(mem).access = "no" \/ PageSize * stop > Len(mem) THEN <<>>
                      ELSE ParseTlvArea(area(stop))
  BY DEF ReadType5, Stop, c, mem, all, v, stop, C
<1>17. ~(PageSize * stop > Len(mem)) /\ c # 0
  BY <1>1, <1>2, <1>13, <1>14 DEF PageSize
<1> HIDE DEF area
<1> QED BY <1>1, <1>15, <1>16, <1>17

LEMMA ToolReadType5Finds ==
  ASSUME NEW t, NEW m, IsMessage(m), Holds5(t, m), t.sys \/ Area5(t) >= Len(Tlv(m))
  PROVE  ToolReadType5(t) = <<m>>
<1> DEFINE mem == t.mem
           n == Len(Tlv(m))
           u == Up(n, PageSize)
           c == Cc5(mem).len
           at == c + 1
           b == Blocks(t)
           first == c \div PageSize
           blocks == Up(c + DataArea(t), PageSize)
           counts == {PageSize * k : k \in 1..blocks}
           k == first + u
<1>1. /\ c \in {4, 8} /\ Cc5(mem).access = "rw" /\ Holds(mem, at, m) /\ Len(mem) % PageSize = 0
  BY DEF Holds5
<1>2. Len(mem) \in Nat /\ at + 4 * u - 1 <= Len(mem)
  BY <1>1 DEF Holds, PageSize
<1>3. Area5(t) \in Nat
  BY <1>1, <1>2, Area5Is
<1>4. n \in Nat /\ n >= 4 /\ u \in Nat /\ n <= 4 * u /\ 4 * u < n + 4
  BY TlvUnits DEF PageSize
<1>5. b \in Nat /\ (t.sys => 4 * b = Len(mem)) /\ (~t.sys => b = 0)
  BY <1>1, <1>2, BlocksIs
<1>6. first \in Nat /\ 4 * first = c
  BY <1>1 DEF PageSize
<1> HIDE DEF mem, n, u, b, first, c
<1>7. DataArea(t) \in Nat /\ DataArea(t) >= n
  <2> DEFINE a == Area5(t)
             left == BlocksLeft(t)
  <2>1. left = IF b > first THEN b - first ELSE 0
    BY DEF BlocksLeft, b, first, c, mem
  <2>2. DataArea(t) = IF a < left * 4 THEN left * 4 ELSE a
    BY DEF DataArea, Most, PageSize
  <2>3. left \in Nat
    BY <1>5, <1>6, <2>1
  <2>4. CASE t.sys
    <3>1. b > first /\ 4 * left >= 4 * u
      <4>1. 4 * b = Len(mem)
        BY <1>5, <2>4
      <4>2. b > first
        BY <1>1, <1>2, <1>4, <1>5, <1>6, <4>1
      <4>3. left = b - first
        BY <2>1, <4>2
      <4> HIDE DEF left
      <4> QED BY <1>1, <1>2, <1>4, <1>5, <1>6, <4>1, <4>2, <4>3
    <3> HIDE DEF left
    <3> QED BY <1>3, <1>4, <2>2, <2>3, <3>1
  <2>5. CASE a >= n
    <3> HIDE DEF left
    <3> QED BY <1>3, <1>4, <2>2, <2>3, <2>5
  <2> QED BY <2>4, <2>5 DEF n
<1>8. blocks \in Nat /\ k \in 1..blocks /\ 4 * k = c + 4 * u
  <2> DEFINE y == c + DataArea(t)
  <2>1. y \in Nat /\ y >= c + n
    BY <1>1, <1>4, <1>7
  <2> HIDE DEF y
  <2>2. Up(y, 4) \in Nat /\ y <= 4 * Up(y, 4)
    BY <2>1, UpFour
  <2>3. blocks = Up(y, 4)
    BY DEF PageSize, y
  <2> HIDE DEF blocks
  <2> QED BY <1>1, <1>4, <1>6, <2>1, <2>2, <2>3
<1> HIDE DEF blocks
<1> DEFINE s == PageSize * k
<1>9. s \in counts /\ counts \in SUBSET Nat
  <2>1. \A j \in 1..blocks : PageSize * j \in Nat
    BY <1>8 DEF PageSize
  <2> QED BY <1>8, <2>1
<1>10. s <= Len(mem) /\ Enough(at, m, s)
  <2>1. s = c + 4 * u
    BY <1>8 DEF PageSize
  <2> HIDE DEF s
  <2> QED BY <1>1, <1>2, <1>4, <2>1 DEF Enough, n
<1>11. at \in Nat /\ at > 0
  BY <1>1
<1>12. Scan(mem, at, counts, PageSize * blocks) = <<m>>
  <2> HIDE DEF s, counts, at
  <2> QED BY <1>1, <1>9, <1>10, <1>11, ScanFinds
<1>13. ToolReadType5(t) = IF c = 0 \/ Cc5(mem).access = "no" THEN <<>>
                          ELSE Scan(mem, at, counts, PageSize * blocks)
  BY DEF ToolReadType5, c, mem, blocks
<1> HIDE DEF counts, at
<1> QED BY <1>1, <1>12, <1>13

-----------------------------------------------------------------------------
(***************************************************************************)
(* Type 4 tags: a message in pieces.                                       *)
(***************************************************************************)
(* How much of n bytes the first p pieces hold *)
Done(n, most, p) == Least(p * most, n)

LEMMA PiecesAre ==
  ASSUME NEW n \in Nat, n > 0, NEW most \in Nat, most > 0
  PROVE  LET P == Up(n, most)
         IN  /\ P \in Nat /\ P > 0 /\ DOMAIN Pieces(n, most) = 1..P /\ Len(Pieces(n, most)) = P
             /\ Done(n, most, 0) = 0 /\ Done(n, most, P) = n
             /\ \A p \in 1..P :
                  /\ Done(n, most, p - 1) \in Nat /\ Done(n, most, p) \in Nat
                  /\ Done(n, most, p - 1) < Done(n, most, p) /\ Done(n, most, p) <= n
                  /\ Pieces(n, most)[p].at = Done(n, most, p - 1)
                  /\ Pieces(n, most)[p].len = Done(n, most, p) - Done(n, most, p - 1)
<1> DEFINE P == Up(n, most)
<1>1. P \in Nat /\ n <= most * P /\ most * P < n + most
  BY UpIs
<1> HIDE DEF P
<1>2. P # 0
  BY <1>1
<1>3. P * most = most * P
  BY <1>1
<1> DEFINE last == P * most
<1>4. last \in Nat /\ n <= last /\ last < n + most
  BY <1>1, <1>3
<1>5. Done(n, most, 0) = 0
  BY DEF Done, Least
<1>6. Done(n, most, P) = n
  <2>1. Done(n, most, P) = IF last < n THEN last ELSE n
    BY DEF Done, Least
  <2> HIDE DEF last
  <2> QED BY <1>4, <2>1
<1>7. Pieces(n, most) = [p \in 1..P |-> [at |-> (p - 1) * most, len |-> Least(most, n - (p - 1) * most)]]
  BY DEF Pieces, P
<1>8. ASSUME NEW p \in 1..P
      PROVE  /\ Done(n, most, p - 1) \in Nat /\ Done(n, most, p) \in Nat
             /\ Done(n, most, p - 1) < Done(n, most, p) /\ Done(n, most, p) <= n
             /\ Pieces(n, most)[p].at = Done(n, most, p - 1)
             /\ Pieces(n, most)[p].len = Done(n, most, p) - Done(n, most, p - 1)
  <2> DEFINE s == (p - 1) * most
             e == p * most
             d == (P - p) * most
  <2>1. p \in Nat /\ p >= 1 /\ P - p \in Nat /\ p - 1 \in Nat
    BY <1>1
  <2>2. s \in Nat /\ d \in Nat /\ e = s + most /\ last = e + d
    BY <1>1, <2>1
  <2>3. Done(n, most, p - 1) = IF s < n THEN s ELSE n
    BY DEF Done, Least
  <2>4. Done(n, most, p) = IF e < n THEN e ELSE n
    BY DEF Done, Least
  <2>5. Pieces(n, most)[p].at = s /\ Pieces(n, most)[p].len = IF most < n - s THEN most ELSE n - s
    BY <1>7 DEF Least
  <2> HIDE DEF s, e, d, last
  <2>6. s < n /\ e \in Nat
    BY <1>4, <2>2
  <2> QED BY <1>4, <2>2, <2>3, <2>4, <2>5, <2>6
<1>9. DOMAIN Pieces(n, most) = 1..P /\ Len(Pieces(n, most)) = P
  BY <1>1, <1>7
<1> HIDE DEF last
<1> QED BY <1>1, <1>2, <1>5, <1>6, <1>8, <1>9 DEF P

(* The updates of a file, one after the other *)
Updated(U, r, n) ==
  LET w == Put(r.mem, U[n].at, U[n].bytes)
  IN  IF r.ok /\ w.ok THEN w ELSE Result(FALSE, r.mem)
Updates(U, first, f, N) == [n \in 0..N |-> IF n = 0 THEN first ELSE Updated(U, f[n - 1], n)]

LEMMA UpdatesExist ==
  ASSUME NEW N \in Nat, NEW U, NEW first
  PROVE  \E f : f = Updates(U, first, f, N)
<1> DEFINE D == {m \in 0..N : ~\E f : f = Updates(U, first, f, m)}
<1>1. SUFFICES D = {}
  <2>1. N \in 0..N
    OBVIOUS
  <2> QED BY <2>1
<1>2. SUFFICES ASSUME D # {} PROVE FALSE
  OBVIOUS
<1>3. PICK m \in D : \A k \in D : m <= k
  <2>1. D \subseteq 0..N
    OBVIOUS
  <2> HIDE DEF D
  <2>2. D \subseteq Nat
    BY <2>1
  <2> QED BY <1>2, <2>2, LeastOf
<1>4. m \in 0..N /\ ~\E f : f = Updates(U, first, f, m)
  OBVIOUS
<1>5. CASE m = 0
  <2> DEFINE g == [n \in 0..0 |-> first]
  <2>1. g = Updates(U, first, g, 0)
    BY DEF Updates
  <2> QED BY <1>4, <1>5, <2>1
<1>6. CASE m # 0
  <2>1. m - 1 \in 0..N /\ ~(m <= m - 1) /\ m \in Nat /\ m > 0
    BY <1>4, <1>6
  <2>2. PICK f : f = Updates(U, first, f, m - 1)
    BY <1>3, <2>1
  <2> DEFINE g == [n \in 0..m |-> IF n = m THEN Updated(U, f[m - 1], m) ELSE f[n]]
  <2>3. ASSUME NEW n \in 0..m
        PROVE  g[n] = IF n = 0 THEN first ELSE Updated(U, g[n - 1], n)
    <3>1. n # 0 => n - 1 \in 0..m /\ n - 1 # m /\ g[n - 1] = f[n - 1]
      BY <2>1
    <3>2. CASE n = m
      BY <2>1, <3>1, <3>2
    <3>3. CASE n # m
      <4>1. n \in 0..(m - 1)
        BY <2>1, <3>3
      <4>2. f[n] = IF n = 0 THEN first ELSE Updated(U, f[n - 1], n)
        BY <2>2, <4>1 DEF Updates
      <4> QED BY <3>1, <3>3, <4>2
    <3> QED BY <3>2, <3>3
  <2>4. g = Updates(U, first, g, m)
    BY <2>3 DEF Updates
  <2> QED BY <1>4, <2>4
<1> QED BY <1>5, <1>6

(* The pieces of a message, joined *)
FlatFrom(seqs, f, N) == [i \in 1..N |-> IF i = 1 THEN seqs[i] ELSE f[i - 1] \o seqs[i]]
LEMMA FlatExists ==
  ASSUME NEW N \in Nat, NEW seqs
  PROVE  \E f : f = FlatFrom(seqs, f, N)
<1> DEFINE D == {m \in 0..N : ~\E f : f = FlatFrom(seqs, f, m)}
<1>1. SUFFICES D = {}
  <2>1. N \in 0..N
    OBVIOUS
  <2> QED BY <2>1
<1>2. SUFFICES ASSUME D # {} PROVE FALSE
  OBVIOUS
<1>3. PICK m \in D : \A k \in D : m <= k
  <2>1. D \subseteq 0..N
    OBVIOUS
  <2> HIDE DEF D
  <2>2. D \subseteq Nat
    BY <2>1
  <2> QED BY <1>2, <2>2, LeastOf
<1>4. m \in 0..N /\ ~\E f : f = FlatFrom(seqs, f, m)
  OBVIOUS
<1>5. CASE m = 0
  <2> DEFINE g == [n \in 1..0 |-> <<>>]
  <2>1. g = FlatFrom(seqs, g, 0)
    BY DEF FlatFrom
  <2> QED BY <1>4, <1>5, <2>1
<1>6. CASE m # 0
  <2>1. m - 1 \in 0..N /\ ~(m <= m - 1) /\ m \in Nat /\ m > 0
    BY <1>4, <1>6
  <2>2. PICK f : f = FlatFrom(seqs, f, m - 1)
    BY <1>3, <2>1
  <2> DEFINE g == [i \in 1..m |-> IF i = m THEN (IF m = 1 THEN seqs[m] ELSE f[m - 1] \o seqs[m]) ELSE f[i]]
  <2>3. ASSUME NEW i \in 1..m
        PROVE  g[i] = IF i = 1 THEN seqs[i] ELSE g[i - 1] \o seqs[i]
    <3>1. i # 1 => i - 1 \in 1..m /\ i - 1 # m /\ g[i - 1] = f[i - 1]
      BY <2>1
    <3>2. CASE i = m
      BY <2>1, <3>1, <3>2
    <3>3. CASE i # m
      <4>1. i \in 1..(m - 1)
        BY <2>1, <3>3
      <4>2. f[i] = IF i = 1 THEN seqs[i] ELSE f[i - 1] \o seqs[i]
        BY <2>2, <4>1 DEF FlatFrom
      <4> QED BY <3>1, <3>3, <4>2
    <3> QED BY <3>2, <3>3
  <2>4. g = FlatFrom(seqs, g, m)
    BY <2>3 DEF FlatFrom
  <2> QED BY <1>4, <2>4
<1> QED BY <1>5, <1>6

(* A Type 4 tag's file holds a message, and its CC lets one find it *)
Holds4(t, new, m) ==
  /\ new \in Seq(Octet) /\ Len(m) + 1 <= Len(new)
  /\ new[1] = Byte[Len(m)] /\ \A i \in 1..Len(m) : new[i + 1] = m[i]
  /\ Loaded4(t.cc, Cc4Max + 1) /\ Len(m) <= t.cc.size - 1 /\ t.cc.file = t.id
\* Its first n bytes are in place.
Begun4(mem, m, len, n) ==
  /\ mem \in Seq(Octet) /\ Len(mem) = len /\ n + 1 <= len
  /\ \A i \in 1..n : mem[i + 1] = m[i]

LEMMA Between ==
  ASSUME NEW S, NEW a \in S, NEW b \in Seq(S), NEW c \in S
  PROVE  LET U == <<a>> \o b \o <<c>>
         IN  /\ Len(U) = Len(b) + 2 /\ U[1] = a /\ U[Len(b) + 2] = c
             /\ \A p \in 1..Len(b) : U[p + 1] = b[p]
<1> DEFINE x == <<a>> \o b
<1>1. x \in Seq(S) /\ Len(x) = Len(b) + 1 /\ x[1] = a /\ \A p \in 1..Len(b) : x[p + 1] = b[p]
  OBVIOUS
<1>2. Len(b) \in Nat
  OBVIOUS
<1> HIDE DEF x
<1>3. Len(x \o <<c>>) = Len(x) + 1 /\ (x \o <<c>>)[Len(x) + 1] = c
      /\ \A p \in 1..Len(x) : (x \o <<c>>)[p] = x[p]
  BY <1>1
<1>4. \A p \in 1..Len(b) : p + 1 \in 1..Len(x)
  BY <1>1, <1>2
<1>5. 1 \in 1..Len(x) /\ Len(x) + 1 = Len(b) + 2
  BY <1>1, <1>2, SMTT(30)
<1> QED BY <1>1, <1>3, <1>4, <1>5 DEF x

UpdatesOf(t, m) ==
  LET pieces == Pieces(Len(m), Least(t.cc.mlc, UpdateMax))
  IN  <<[at |-> 1, bytes |-> <<Byte[0]>>]>>
        \o [p \in DOMAIN pieces |->
              [at |-> pieces[p].at + 2, bytes |-> SubSeq(m, pieces[p].at + 1, pieces[p].at + pieces[p].len)]]
        \o <<[at |-> 1, bytes |-> <<Byte[Len(m)]>>]>>
Refused4(t, m) ==
  \/ m = <<>> \/ ~Loaded4(t.cc, Cc4Max + 1) \/ t.cc.write # "open"
  \/ Len(m) > t.cc.size - 1 \/ t.cc.mlc < 2 \/ t.cc.file # t.id

LEMMA WriteType4Is ==
  ASSUME NEW t, NEW m, Len(UpdatesOf(t, m)) \in Nat
  PROVE  \E f : /\ f = Updates(UpdatesOf(t, m), Result(TRUE, t.mem), f, Len(UpdatesOf(t, m)))
                /\ WriteType4(t, m) = IF Refused4(t, m) THEN Result(FALSE, t.mem)
                                      ELSE f[Len(UpdatesOf(t, m))]
<1>1. \E f : f = Updates(UpdatesOf(t, m), Result(TRUE, t.mem), f, Len(UpdatesOf(t, m)))
  BY UpdatesExist
<1> QED BY <1>1, ZenonT(60) DEF WriteType4, Updates, Updated, UpdatesOf, Refused4

LEMMA UpdatesAre ==
  ASSUME NEW t, NEW m, IsMessage(m), t.cc.mlc \in Nat, t.cc.mlc >= 2
  PROVE  LET most == Least(t.cc.mlc, UpdateMax)
             P == Up(Len(m), most)
             U == UpdatesOf(t, m)
         IN  /\ most \in Nat /\ most > 0 /\ Len(U) = P + 2
             /\ U[1].at = 1 /\ U[1].bytes = <<Byte[0]>>
             /\ U[P + 2].at = 1 /\ U[P + 2].bytes = <<Byte[Len(m)]>>
             /\ \A p \in 1..P :
                  /\ U[p + 1].at = Done(Len(m), most, p - 1) + 2
                  /\ U[p + 1].bytes
                       = SubSeq(m, Done(Len(m), most, p - 1) + 1, Done(Len(m), most, p))
<1> DEFINE most == Least(t.cc.mlc, UpdateMax)
           n == Len(m)
           P == Up(n, most)
           pieces == Pieces(n, most)
           E(p) == [at |-> pieces[p].at + 2,
                    bytes |-> SubSeq(m, pieces[p].at + 1, pieces[p].at + pieces[p].len)]
           mid == [p \in DOMAIN pieces |-> E(p)]
           first == [at |-> 1, bytes |-> <<Byte[0]>>]
           last == [at |-> 1, bytes |-> <<Byte[n]>>]
           S == {first, last} \cup {E(p) : p \in 1..P}
<1>1. most \in Nat /\ most > 0
  <2>1. UpdateMax \in Nat /\ UpdateMax > 0
    BY GeometryAssumption
  <2> QED BY <2>1 DEF Least
<1>2. n \in Nat /\ n > 0
  BY Sizes DEF IsMessage
<1> HIDE DEF most, n
<1>3. /\ P \in Nat /\ P > 0 /\ DOMAIN pieces = 1..P
      /\ \A p \in 1..P :
           /\ Done(n, most, p - 1) \in Nat /\ Done(n, most, p) \in Nat
           /\ pieces[p].at = Done(n, most, p - 1)
           /\ pieces[p].len = Done(n, most, p) - Done(n, most, p - 1)
  <2> HIDE DEF P, pieces
  <2>1. P = Up(n, most) /\ pieces = Pieces(n, most)
    BY DEF P, pieces
  <2>2. P \in Nat /\ P > 0 /\ DOMAIN pieces = 1..P
    BY <1>1, <1>2, <2>1, PiecesAre
  <2>3. ASSUME NEW p \in 1..P
        PROVE  /\ Done(n, most, p - 1) \in Nat /\ Done(n, most, p) \in Nat
               /\ pieces[p].at = Done(n, most, p - 1)
               /\ pieces[p].len = Done(n, most, p) - Done(n, most, p - 1)
    <3>1. p \in 1..Up(n, most)
      BY <2>1
    <3>2. Pieces(n, most)[p].at = Done(n, most, p - 1)
      BY <1>1, <1>2, <3>1, PiecesAre
    <3>3. Pieces(n, most)[p].len = Done(n, most, p) - Done(n, most, p - 1)
      BY <1>1, <1>2, <3>1, PiecesAre
    <3>4. Done(n, most, p - 1) \in Nat /\ Done(n, most, p) \in Nat
      BY <1>1, <1>2, <3>1, PiecesAre
    <3> QED BY <2>1, <3>2, <3>3, <3>4
  <2> QED BY <2>2, <2>3
<1> HIDE DEF pieces, P
<1>4. mid = [p \in 1..P |-> E(p)]
  BY <1>3
<1> HIDE DEF E
<1>5. mid \in Seq(S) /\ Len(mid) = P /\ \A p \in 1..P : mid[p] = E(p)
  <2>1. \A p \in 1..P : E(p) \in S
    OBVIOUS
  <2> HIDE DEF S
  <2> QED BY <1>3, <1>4, <2>1
<1> HIDE DEF mid
<1>6. first \in S /\ last \in S
  OBVIOUS
<1> DEFINE U == <<first>> \o mid \o <<last>>
<1>7. Len(U) = Len(mid) + 2 /\ U[1] = first /\ U[Len(mid) + 2] = last
      /\ \A p \in 1..Len(mid) : U[p + 1] = mid[p]
  <2> HIDE DEF S, first, last
  <2> QED BY <1>5, <1>6, Between
<1>8. UpdatesOf(t, m) = U
  BY DEF UpdatesOf, E, mid, pieces, most, n
<1> HIDE DEF U
<1>9. ASSUME NEW p \in 1..P
      PROVE  /\ U[p + 1].at = Done(n, most, p - 1) + 2
             /\ U[p + 1].bytes = SubSeq(m, Done(n, most, p - 1) + 1, Done(n, most, p))
  <2>1. U[p + 1] = E(p)
    BY <1>5, <1>7
  <2>2. pieces[p].at = Done(n, most, p - 1) /\ pieces[p].at + pieces[p].len = Done(n, most, p)
    BY <1>3
  <2>3. E(p).at = pieces[p].at + 2
        /\ E(p).bytes = SubSeq(m, pieces[p].at + 1, pieces[p].at + pieces[p].len)
    BY DEF E
  <2> QED BY <2>1, <2>2, <2>3
<1>10. U[1].at = 1 /\ U[1].bytes = <<Byte[0]>> /\ U[P + 2].at = 1 /\ U[P + 2].bytes = <<Byte[n]>>
  BY <1>5, <1>7
<1>11. Len(U) = P + 2
  BY <1>5, <1>7
<1> QED BY <1>1, <1>8, <1>9, <1>10, <1>11 DEF P, most, n

LEMMA PiecePut ==
  ASSUME NEW mem, NEW m \in Seq(Octet), NEW len, NEW a \in Nat, NEW b \in Nat,
         a < b, b <= Len(m), Begun4(mem, m, len, a),
         Put(mem, a + 2, SubSeq(m, a + 1, b)).ok
  PROVE  Begun4(Put(mem, a + 2, SubSeq(m, a + 1, b)).mem, m, len, b)
<1> DEFINE s == SubSeq(m, a + 1, b)
           w == Put(mem, a + 2, s)
<1>1. mem \in Seq(Octet) /\ Len(mem) = len /\ len \in Nat /\ \A i \in 1..a : mem[i + 1] = m[i]
  BY DEF Begun4
<1>2. s \in Seq(Octet) /\ Len(s) = b - a /\ \A j \in 1..(b - a) : s[j] = m[a + j]
  <2>1. Len(m) \in Nat
    OBVIOUS
  <2>2. a + 1 \in 1..Len(m) /\ b \in 1..Len(m)
    BY <2>1
  <2> QED BY <2>1, <2>2
<1>3. a + 2 \in Nat /\ a + 2 > 0
  OBVIOUS
<1> HIDE DEF s
<1>4. /\ w.ok <=> (a + 2) + Len(s) - 1 <= Len(mem)
      /\ w.mem \in Seq(Octet) /\ Len(w.mem) = Len(mem)
      /\ \A i \in 1..Len(mem) : i < a + 2 \/ i > (a + 2) + Len(s) - 1 => w.mem[i] = mem[i]
      /\ (a + 2) + Len(s) - 1 <= Len(mem) => \A i \in 1..Len(s) : w.mem[(a + 2) + i - 1] = s[i]
  <2> DEFINE at == a + 2
  <2> HIDE DEF at, w
  <2>1. at \in Nat /\ at > 0
    BY <1>3 DEF at
  <2>2. w = Put(mem, at, s)
    BY DEF w, at
  <2>3. /\ w.ok <=> at + Len(s) - 1 <= Len(mem)
        /\ w.mem \in Seq(Octet) /\ Len(w.mem) = Len(mem)
        /\ \A i \in 1..Len(mem) : i < at \/ i > at + Len(s) - 1 => w.mem[i] = mem[i]
        /\ at + Len(s) - 1 <= Len(mem) => \A i \in 1..Len(s) : w.mem[at + i - 1] = s[i]
    <3>1. w.ok <=> at + Len(s) - 1 <= Len(mem)
      BY <1>1, <1>2, <2>1, <2>2, PutIs
    <3>2. w.mem \in Seq(Octet) /\ Len(w.mem) = Len(mem)
      BY <1>1, <1>2, <2>1, <2>2, PutIs
    <3>3. \A i \in 1..Len(mem) : i < at \/ i > at + Len(s) - 1 => w.mem[i] = mem[i]
      <4> SUFFICES ASSUME NEW i \in 1..Len(mem), i < at \/ i > at + Len(s) - 1
                   PROVE  w.mem[i] = mem[i]
        OBVIOUS
      <4>1. mem \in Seq(Octet) /\ s \in Seq(Octet) /\ at \in Nat /\ at > 0
            /\ i \in 1..Len(mem) /\ (i < at \/ i > at + Len(s) - 1)
        BY <1>1, <1>2, <2>1, <2>2
      <4>2. Put(mem, at, s).mem[i] = mem[i]
        BY ONLY <4>1, PutKeeps
      <4> QED BY <2>2, <4>2
    <3>4. at + Len(s) - 1 <= Len(mem) => \A i \in 1..Len(s) : w.mem[at + i - 1] = s[i]
      <4> SUFFICES ASSUME at + Len(s) - 1 <= Len(mem), NEW i \in 1..Len(s)
                   PROVE  w.mem[at + i - 1] = s[i]
        OBVIOUS
      <4>1. mem \in Seq(Octet) /\ s \in Seq(Octet) /\ at \in Nat /\ at > 0
            /\ i \in 1..Len(s) /\ at + Len(s) - 1 <= Len(mem)
        BY <1>1, <1>2, <2>1, <2>2
      <4>2. Put(mem, at, s).mem[at + i - 1] = s[i]
        BY ONLY <4>1, PutThere
      <4> QED BY <2>2, <4>2
    <3> QED BY <3>1, <3>2, <3>3, <3>4
  <2> QED BY <2>3 DEF at
<1>5. w.ok
  BY DEF s
<1>6. b + 1 <= len
  <2>1. (a + 2) + Len(s) - 1 <= Len(mem)
    BY <1>4, <1>5
  <2> QED BY <1>1, <1>2, <2>1
<1> HIDE DEF w
<1>7. ASSUME NEW i \in 1..b PROVE w.mem[i + 1] = m[i]
  <2>1. CASE i <= a
    <3>1. i \in 1..a /\ i + 1 \in 1..Len(mem) /\ i + 1 < a + 2
      BY <1>1, <1>6, <2>1
    <3> QED BY <1>1, <1>4, <3>1
  <2>2. CASE i > a
    <3>1. i - a \in 1..(b - a) /\ i - a \in 1..Len(s) /\ (a + 2) + (i - a) - 1 = i + 1 /\ a + (i - a) = i
      BY <1>2, <2>2
    <3>2. (a + 2) + Len(s) - 1 <= Len(mem)
      BY <1>4, <1>5
    <3>3. w.mem[(a + 2) + (i - a) - 1] = s[i - a]
      BY <1>4, <3>1, <3>2
    <3> QED BY <1>2, <3>1, <3>3
  <2> QED BY <2>1, <2>2
<1>8. Begun4(w.mem, m, len, b)
  BY <1>1, <1>4, <1>6, <1>7 DEF Begun4
<1> QED BY <1>8 DEF w, s

LEMMA LengthPut ==
  ASSUME NEW mem, NEW m \in Seq(Octet), NEW len \in Nat, NEW n \in Nat, n <= Len(m),
         mem \in Seq(Octet), Len(mem) = len, \A i \in 1..n : mem[i + 1] = m[i], n = 0 \/ n + 1 <= len,
         NEW k \in Lengths, Put(mem, 1, <<Byte[k]>>).ok
  PROVE  /\ Begun4(Put(mem, 1, <<Byte[k]>>).mem, m, len, n)
         /\ Put(mem, 1, <<Byte[k]>>).mem[1] = Byte[k]
<1> DEFINE s == <<Byte[k]>>
           w == Put(mem, 1, s)
<1>1. Byte[k] \in Octet
  BY ByteNumber
<1>2. s \in Seq(Octet) /\ Len(s) = 1 /\ s[1] = Byte[k]
  BY <1>1
<1> HIDE DEF s
<1>4. /\ w.ok <=> 1 + Len(s) - 1 <= Len(mem)
      /\ w.mem \in Seq(Octet) /\ Len(w.mem) = Len(mem)
      /\ \A i \in 1..Len(mem) : i < 1 \/ i > 1 + Len(s) - 1 => w.mem[i] = mem[i]
      /\ 1 + Len(s) - 1 <= Len(mem) => \A i \in 1..Len(s) : w.mem[1 + i - 1] = s[i]
  <2> DEFINE at == 1
  <2>1. at \in Nat /\ at > 0
    OBVIOUS
  <2>2. w = Put(mem, at, s)
    OBVIOUS
  <2> HIDE DEF at, w
  <2>3. /\ w.ok <=> at + Len(s) - 1 <= Len(mem)
        /\ w.mem \in Seq(Octet) /\ Len(w.mem) = Len(mem)
        /\ \A i \in 1..Len(mem) : i < at \/ i > at + Len(s) - 1 => w.mem[i] = mem[i]
        /\ at + Len(s) - 1 <= Len(mem) => \A i \in 1..Len(s) : w.mem[at + i - 1] = s[i]
    <3>1. w.ok <=> at + Len(s) - 1 <= Len(mem)
      BY <1>2, <2>1, <2>2, PutIs
    <3>2. w.mem \in Seq(Octet) /\ Len(w.mem) = Len(mem)
      BY <1>2, <2>1, <2>2, PutIs
    <3>3. \A i \in 1..Len(mem) : i < at \/ i > at + Len(s) - 1 => w.mem[i] = mem[i]
      <4> SUFFICES ASSUME NEW i \in 1..Len(mem), i < at \/ i > at + Len(s) - 1
                   PROVE  w.mem[i] = mem[i]
        OBVIOUS
      <4>1. mem \in Seq(Octet) /\ s \in Seq(Octet) /\ at \in Nat /\ at > 0
            /\ i \in 1..Len(mem) /\ (i < at \/ i > at + Len(s) - 1)
        BY <1>2, <2>1, <2>2
      <4>2. Put(mem, at, s).mem[i] = mem[i]
        BY ONLY <4>1, PutKeeps
      <4> QED BY <2>2, <4>2
    <3>4. at + Len(s) - 1 <= Len(mem) => \A i \in 1..Len(s) : w.mem[at + i - 1] = s[i]
      <4> SUFFICES ASSUME at + Len(s) - 1 <= Len(mem), NEW i \in 1..Len(s)
                   PROVE  w.mem[at + i - 1] = s[i]
        OBVIOUS
      <4>1. mem \in Seq(Octet) /\ s \in Seq(Octet) /\ at \in Nat /\ at > 0
            /\ i \in 1..Len(s) /\ at + Len(s) - 1 <= Len(mem)
        BY <1>2, <2>1, <2>2
      <4>2. Put(mem, at, s).mem[at + i - 1] = s[i]
        BY ONLY <4>1, PutThere
      <4> QED BY <2>2, <4>2
    <3> QED BY <3>1, <3>2, <3>3, <3>4
  <2> QED BY <2>3 DEF at
<1>5. w.ok
  BY DEF s
<1>6. 1 <= len
  <2>1. 1 + Len(s) - 1 <= Len(mem)
    BY <1>4, <1>5
  <2> QED BY <1>2, <2>1
<1> HIDE DEF w
<1>7. ASSUME NEW i \in 1..n PROVE w.mem[i + 1] = m[i]
  <2>1. i + 1 \in 1..Len(mem) /\ i + 1 > 1 + Len(s) - 1
    BY <1>2
  <2> QED BY <1>4, <2>1
<1>8. n + 1 <= len
  BY <1>6
<1>9. w.mem[1] = Byte[k]
  <2>1. 1 + Len(s) - 1 <= Len(mem) /\ 1 \in 1..Len(s) /\ 1 + 1 - 1 = 1
    BY <1>2, <1>6
  <2>2. w.mem[1 + 1 - 1] = s[1]
    BY <1>4, <2>1
  <2> QED BY <1>2, <2>1, <2>2
<1>10. Begun4(w.mem, m, len, n)
  BY <1>4, <1>7, <1>8 DEF Begun4
<1> QED BY <1>9, <1>10 DEF w, s

(* What the firmware's writer makes of a Type 4 tag when it reports a success. *)
LEMMA WriteType4Holds ==
  ASSUME NEW t, t.mem \in Seq(Octet), t.cc.mlc \in Nat, t.cc.size \in Nat,
         NEW m, IsMessage(m), WriteType4(t, m).ok
  PROVE  Holds4(t, WriteType4(t, m).mem, m)
<1> DEFINE n == Len(m)
           most == Least(t.cc.mlc, UpdateMax)
           P == Up(n, most)
           U == UpdatesOf(t, m)
           len == Len(t.mem)
           W == WriteType4(t, m)
<1>1. ~Refused4(t, m)
  <2>1. Refused4(t, m) => WriteType4(t, m) = Result(FALSE, t.mem)
    BY ZenonT(60) DEF WriteType4, Refused4
  <2>2. Result(FALSE, t.mem).ok = FALSE
    BY DEF Result
  <2> QED BY <2>1, <2>2, ZenonT(60)
<1>2. t.cc.mlc >= 2
  BY <1>1 DEF Refused4
<1>3. n \in Nat /\ n > 0 /\ len \in Nat /\ m \in Seq(Octet) /\ n \in Lengths /\ 0 \in Lengths
  <2> HIDE DEF most, P, U, W
  <2>1. m \in Seq(Octet) /\ n \in 1..MessageMax /\ len \in Nat
    BY DEF IsMessage
  <2> HIDE DEF n, len
  <2> QED BY <2>1, Sizes
<1>4. /\ most \in Nat /\ most > 0 /\ Len(U) = P + 2
      /\ U[1].at = 1 /\ U[1].bytes = <<Byte[0]>>
      /\ U[P + 2].at = 1 /\ U[P + 2].bytes = <<Byte[n]>>
  <2>1. IsMessage(m) /\ t.cc.mlc \in Nat
    OBVIOUS
  <2> HIDE DEF W
  <2> QED BY ONLY <1>2, <2>1, UpdatesAre
<1>5. ASSUME NEW p \in 1..P
      PROVE  /\ U[p + 1].at = Done(n, most, p - 1) + 2
             /\ U[p + 1].bytes = SubSeq(m, Done(n, most, p - 1) + 1, Done(n, most, p))
  BY <1>2, UpdatesAre
<1>6. P \in Nat /\ P > 0 /\ Done(n, most, 0) = 0 /\ Done(n, most, P) = n
  BY <1>3, <1>4, PiecesAre
<1>7. ASSUME NEW p \in 1..P
      PROVE  /\ Done(n, most, p - 1) \in Nat /\ Done(n, most, p) \in Nat
             /\ Done(n, most, p - 1) < Done(n, most, p) /\ Done(n, most, p) <= n
  <2> HIDE DEF n, most
  <2>1. P = Up(n, most)
    OBVIOUS
  <2> HIDE DEF P
  <2>2. p \in 1..Up(n, most)
    BY <2>1
  <2> QED BY <1>3, <1>4, <2>2, PiecesAre
<1>8. Len(U) \in Nat
  BY <1>4, <1>6
<1>9. PICK f : f = Updates(U, Result(TRUE, t.mem), f, Len(U)) /\ W = IF Refused4(t, m) THEN Result(FALSE, t.mem) ELSE f[Len(U)]
  BY <1>8, WriteType4Is
<1> HIDE DEF n, most, P, U, len, W
<1>10. f[0] = Result(TRUE, t.mem) /\ \A k \in 1..(P + 2) : f[k] = Updated(U, f[k - 1], k)
  <2>1. f = [k \in 0..(P + 2) |-> IF k = 0 THEN Result(TRUE, t.mem) ELSE Updated(U, f[k - 1], k)]
    BY <1>4, <1>9 DEF Updates
  <2>2. 0 \in 0..(P + 2) /\ \A k \in 1..(P + 2) : k \in 0..(P + 2) /\ k # 0
    BY <1>6
  <2> QED BY ONLY <2>1, <2>2
<1>11. ASSUME NEW k \in 1..(P + 2), f[k].ok
       PROVE  /\ f[k - 1].ok /\ Put(f[k - 1].mem, U[k].at, U[k].bytes).ok
              /\ f[k].mem = Put(f[k - 1].mem, U[k].at, U[k].bytes).mem
  <2> DEFINE r == f[k - 1]
             w == Put(r.mem, U[k].at, U[k].bytes)
  <2>1. f[k] = IF r.ok /\ w.ok THEN w ELSE Result(FALSE, r.mem)
    BY <1>10 DEF Updated
  <2>2. Result(FALSE, r.mem).ok = FALSE
    BY DEF Result
  <2> HIDE DEF r, w
  <2>3. r.ok /\ w.ok
    BY <1>11, <2>1, <2>2
  <2>4. f[k] = w
    BY <2>1, <2>3
  <2> QED BY <2>3, <2>4 DEF r, w
<1> DEFINE Good(q) == f[q + 1].ok => Begun4(f[q + 1].mem, m, len, Done(n, most, q))
           D == {q \in 0..P : ~Good(q)}
<1>12. Good(0)
  <2> SUFFICES ASSUME f[1].ok PROVE Begun4(f[1].mem, m, len, 0)
    BY <1>6
  <2>1. 1 \in 1..(P + 2) /\ 1 - 1 = 0
    BY <1>6
  <2>2. Put(f[0].mem, 1, <<Byte[0]>>).ok /\ f[1].mem = Put(f[0].mem, 1, <<Byte[0]>>).mem
    BY <1>4, <1>11, <2>1
  <2>3. f[0].mem = t.mem
    BY <1>10 DEF Result
  <2>4. Put(t.mem, 1, <<Byte[0]>>).ok /\ f[1].mem = Put(t.mem, 1, <<Byte[0]>>).mem
    BY <2>2, <2>3
  <2>5. 0 \in Nat /\ 0 <= Len(m) /\ Len(t.mem) = len /\ \A i \in 1..0 : t.mem[i + 1] = m[i]
    BY <1>3 DEF n, len
  <2> QED BY <1>3, <2>4, <2>5, LengthPut
<1>13. ASSUME NEW q \in 1..P, Good(q - 1) PROVE Good(q)
  <2> SUFFICES ASSUME f[q + 1].ok PROVE Begun4(f[q + 1].mem, m, len, Done(n, most, q))
    OBVIOUS
  <2> DEFINE a == Done(n, most, q - 1)
             b == Done(n, most, q)
  <2>1. q + 1 \in 1..(P + 2) /\ (q + 1) - 1 = q /\ (q - 1) + 1 = q
    BY <1>6
  <2>2. f[q].ok /\ Put(f[q].mem, U[q + 1].at, U[q + 1].bytes).ok
        /\ f[q + 1].mem = Put(f[q].mem, U[q + 1].at, U[q + 1].bytes).mem
    BY <1>11, <2>1
  <2>3. Begun4(f[q].mem, m, len, a)
    BY <1>13, <2>1, <2>2
  <2>4. U[q + 1].at = a + 2 /\ U[q + 1].bytes = SubSeq(m, a + 1, b)
    BY <1>5
  <2>5. a \in Nat /\ b \in Nat /\ a < b /\ b <= Len(m)
    BY <1>7 DEF n
  <2> HIDE DEF a, b
  <2>6. Put(f[q].mem, a + 2, SubSeq(m, a + 1, b)).ok
        /\ f[q + 1].mem = Put(f[q].mem, a + 2, SubSeq(m, a + 1, b)).mem
    BY <2>2, <2>4
  <2>7. Begun4(f[q + 1].mem, m, len, b)
    BY <1>3, <2>3, <2>5, <2>6, PiecePut
  <2> QED BY <2>7 DEF b
<1> HIDE DEF Good
<1>14. D = {}
  <2> SUFFICES ASSUME D # {} PROVE FALSE
    OBVIOUS
  <2>1. PICK q \in D : \A k \in D : q <= k
    <3>1. D \subseteq 0..P
      OBVIOUS
    <3> HIDE DEF D
    <3>2. D \subseteq Nat
      BY <1>6, <3>1
    <3> QED BY <3>2, LeastOf
  <2>2. q \in 0..P /\ ~Good(q)
    OBVIOUS
  <2>3. q # 0
    BY <1>12, <2>2
  <2>4. q \in 1..P /\ q - 1 \in 0..P /\ ~(q <= q - 1)
    BY <1>6, <2>2, <2>3
  <2>5. Good(q - 1)
    BY <2>1, <2>4
  <2> QED BY <1>13, <2>2, <2>4, <2>5
<1>15. Good(P)
  <2>1. P \in 0..P
    BY <1>6
  <2> QED BY <1>14, <2>1
<1>16. W = f[P + 2]
  BY <1>1, <1>4, <1>9
<1>17. f[P + 2].ok
  BY <1>16 DEF W
<1>18. P + 2 \in 1..(P + 2) /\ (P + 2) - 1 = P + 1
  BY <1>6
<1>19. f[P + 1].ok /\ Put(f[P + 1].mem, 1, <<Byte[n]>>).ok
       /\ f[P + 2].mem = Put(f[P + 1].mem, 1, <<Byte[n]>>).mem
  BY <1>4, <1>11, <1>17, <1>18
<1>20. Begun4(f[P + 1].mem, m, len, n)
  BY <1>6, <1>15, <1>19 DEF Good
<1>21. Begun4(f[P + 2].mem, m, len, n) /\ f[P + 2].mem[1] = Byte[n]
  <2>1. f[P + 1].mem \in Seq(Octet) /\ Len(f[P + 1].mem) = len /\ n + 1 <= len
        /\ \A i \in 1..n : f[P + 1].mem[i + 1] = m[i]
    BY <1>20 DEF Begun4
  <2>2. n <= Len(m)
    BY <1>3 DEF n
  <2> DEFINE g == f[P + 1].mem
  <2>3. g \in Seq(Octet) /\ Len(g) = len /\ n + 1 <= len /\ \A i \in 1..n : g[i + 1] = m[i]
    BY <2>1
  <2>4. Put(g, 1, <<Byte[n]>>).ok /\ f[P + 2].mem = Put(g, 1, <<Byte[n]>>).mem
    BY <1>19
  <2> HIDE DEF g
  <2>a. n \in Nat /\ n \in Lengths /\ len \in Nat /\ m \in Seq(Octet)
    BY <1>3
  <2>5. Begun4(Put(g, 1, <<Byte[n]>>).mem, m, len, n)
    BY ONLY <2>a, <2>2, <2>3, <2>4, LengthPut
  <2>6. Put(g, 1, <<Byte[n]>>).mem[1] = Byte[n]
    BY ONLY <2>a, <2>2, <2>3, <2>4, LengthPut
  <2> QED BY <2>4, <2>5, <2>6
<1>22. Loaded4(t.cc, Cc4Max + 1) /\ ~(n > t.cc.size - 1) /\ t.cc.file = t.id
  BY <1>1 DEF Refused4, n
<1>23. Holds4(t, W.mem, m)
  <2>1. t.cc.size \in Nat => n <= t.cc.size - 1
    BY <1>3, <1>22
  <2>2. W.mem \in Seq(Octet) /\ Len(W.mem) = len /\ n + 1 <= len
        /\ \A i \in 1..n : W.mem[i + 1] = m[i]
    BY <1>16, <1>21 DEF Begun4
  <2>3. W.mem[1] = Byte[n]
    BY <1>16, <1>21
  <2> QED BY <1>22, <2>1, <2>2, <2>3 DEF Holds4, n
<1> QED BY <1>23 DEF W

LEMMA FlattenIs ==
  ASSUME NEW seqs, Len(seqs) \in Nat, Len(seqs) > 0
  PROVE  \E f : f = FlatFrom(seqs, f, Len(seqs)) /\ FlattenSeq(seqs) = f[Len(seqs)]
<1>1. \E f : f = FlatFrom(seqs, f, Len(seqs))
  BY FlatExists
<1>2. Len(seqs) # 0
  OBVIOUS
<1> QED BY <1>1, <1>2 DEF FlattenSeq, FlatFrom

LEMMA SameSeq ==
  ASSUME NEW S, NEW a \in Seq(S), NEW b \in Seq(S), Len(a) = Len(b),
         \A i \in 1..Len(a) : a[i] = b[i]
  PROVE  a = b
OBVIOUS

(* A message read in pieces is the message. *)
PieceOf(m, s, a, b) == s \in Seq(Octet) /\ Len(s) = b - a /\ \A i \in 1..(b - a) : s[i] = m[a + i]
LEMMA PiecesJoined ==
  ASSUME NEW m \in Seq(Octet), Len(m) > 0, NEW most \in Nat, most > 0, NEW seqs, NEW P,
         P = Up(Len(m), most), Len(seqs) = P,
         \A p \in 1..P : PieceOf(m, seqs[p], Done(Len(m), most, p - 1), Done(Len(m), most, p))
  PROVE  FlattenSeq(seqs) = m
<1> DEFINE n == Len(m)
           At(p) == Done(n, most, p)
<1>1. n \in Nat /\ n > 0
  OBVIOUS
<1>2. ASSUME NEW p \in 1..P
      PROVE  /\ seqs[p] \in Seq(Octet) /\ Len(seqs[p]) = At(p) - At(p - 1)
             /\ \A i \in 1..(At(p) - At(p - 1)) : seqs[p][i] = m[At(p - 1) + i]
  BY DEF PieceOf
<1> HIDE DEF n
<1>3. P = Up(n, most)
  BY DEF n
<1>4. P \in Nat /\ P > 0 /\ At(0) = 0 /\ At(P) = n
  BY <1>1, <1>3, PiecesAre
<1>5. ASSUME NEW p \in 1..P
      PROVE  At(p - 1) \in Nat /\ At(p) \in Nat /\ At(p - 1) < At(p) /\ At(p) <= n
  <2>1. p \in 1..Up(n, most)
    BY <1>3
  <2> QED BY <1>1, <2>1, PiecesAre
<1>6. PICK f : f = FlatFrom(seqs, f, Len(seqs)) /\ FlattenSeq(seqs) = f[Len(seqs)]
  <2>1. Len(seqs) \in Nat /\ Len(seqs) > 0
    BY <1>4
  <2> QED BY <2>1, FlattenIs
<1>7. ASSUME NEW p \in 1..P
      PROVE  f[p] = IF p = 1 THEN seqs[p] ELSE f[p - 1] \o seqs[p]
  BY <1>6 DEF FlatFrom
<1> HIDE DEF At
<1> DEFINE Good(p) == f[p] \in Seq(Octet) /\ Len(f[p]) = At(p) /\ \A i \in 1..At(p) : f[p][i] = m[i]
           D == {p \in 1..P : ~Good(p)}
<1>8. Good(1)
  <2>1. 1 \in 1..P /\ 1 - 1 = 0 /\ f[1] = seqs[1]
    BY <1>4, <1>7
  <2>2. seqs[1] \in Seq(Octet) /\ Len(seqs[1]) = At(1) - At(0)
        /\ \A i \in 1..(At(1) - At(0)) : seqs[1][i] = m[At(0) + i]
    BY <1>2, <2>1
  <2>3. At(0) = 0 /\ At(1) \in Nat /\ At(1) - At(0) = At(1)
    BY <1>4, <1>5, <2>1
  <2>4. \A i \in 1..At(1) : seqs[1][i] = m[i]
    <3> TAKE i \in 1..At(1)
    <3>1. At(0) + i = i /\ i \in 1..(At(1) - At(0))
      BY <2>3
    <3> QED BY <2>2, <3>1
  <2> QED BY <2>1, <2>2, <2>3, <2>4
<1>9. ASSUME NEW p \in 1..P, p # 1, Good(p - 1) PROVE Good(p)
  <2> DEFINE a == At(p - 1)
             b == At(p)
             s == seqs[p]
             g == f[p - 1]
  <2>1. a \in Nat /\ b \in Nat /\ a < b
    BY <1>5
  <2>2. s \in Seq(Octet) /\ Len(s) = b - a /\ \A i \in 1..(b - a) : s[i] = m[a + i]
    BY <1>2
  <2>3. g \in Seq(Octet) /\ Len(g) = a /\ \A i \in 1..a : g[i] = m[i]
    BY <1>9
  <2>4. f[p] = g \o s
    BY <1>7, <1>9
  <2> HIDE DEF a, b, s, g
  <2>5. /\ g \o s \in Seq(Octet) /\ Len(g \o s) = Len(g) + Len(s)
        /\ \A i \in 1..Len(g) : (g \o s)[i] = g[i]
        /\ \A i \in 1..Len(s) : (g \o s)[Len(g) + i] = s[i]
    BY <2>2, <2>3, Joined
  <2>6. ASSUME NEW i \in 1..b PROVE (g \o s)[i] = m[i]
    <3>1. CASE i <= a
      <4>1. i \in 1..a
        BY <2>1, <3>1
      <4> QED BY <2>3, <2>5, <4>1
    <3>2. CASE i > a
      <4>1. i - a \in 1..(b - a) /\ a + (i - a) = i
        BY <2>1, <3>2
      <4>2. (g \o s)[Len(g) + (i - a)] = s[i - a]
        BY <2>2, <2>5, <4>1
      <4> QED BY <2>2, <2>3, <4>1, <4>2
    <3>3. i <= a \/ i > a
      BY <2>1
    <3> QED BY <3>1, <3>2, <3>3
  <2>7. Len(g \o s) = b
    BY <2>1, <2>2, <2>3, <2>5
  <2> QED BY <2>4, <2>5, <2>6, <2>7 DEF b
<1> HIDE DEF Good
<1>10. D = {}
  <2> SUFFICES ASSUME D # {} PROVE FALSE
    OBVIOUS
  <2>1. PICK q \in D : \A k \in D : q <= k
    <3>1. D \subseteq 1..P
      OBVIOUS
    <3> HIDE DEF D
    <3>2. D \subseteq Nat
      BY <1>4, <3>1
    <3> QED BY <3>2, LeastOf
  <2>2. q \in 1..P /\ ~Good(q)
    OBVIOUS
  <2>3. q # 1
    BY <1>8, <2>2
  <2>4. q - 1 \in 1..P /\ ~(q <= q - 1)
    BY <1>4, <2>2, <2>3
  <2>5. Good(q - 1)
    BY <2>1, <2>4
  <2> QED BY <1>9, <2>2, <2>3, <2>5
<1>11. Good(P)
  <2>1. P \in 1..P
    BY <1>4
  <2> QED BY <1>10, <2>1
<1>12. f[P] \in Seq(Octet) /\ Len(f[P]) = n /\ \A i \in 1..n : f[P][i] = m[i]
  BY <1>4, <1>11 DEF Good
<1>13. f[P] = m
  BY <1>12, SameSeq DEF n
<1> QED BY <1>6, <1>13

(* The firmware's reader finds on a Type 4 tag the message that is there. *)
LEMMA ReadType4Finds ==
  ASSUME NEW t, t.cc.len \in Nat, t.cc.mle \in Nat, t.cc.size \in Nat, NEW m, IsMessage(m),
         Holds4(t, t.mem, m), t.cc.len <= Cc4Max, t.cc.read = "open"
  PROVE  ReadType4(t) = <<m>>
<1> DEFINE cc == t.cc
           mem == t.mem
           n == Len(m)
           most == Least(cc.mle, ReadMax)
           P == Up(n, most)
           nlen == Number(mem[1])
           pieces == Pieces(n, most)
           seqs == [p \in DOMAIN pieces |-> SubSeq(mem, pieces[p].at + 2, pieces[p].at + pieces[p].len + 1)]
<1>1. /\ mem \in Seq(Octet) /\ n + 1 <= Len(mem) /\ mem[1] = Byte[n]
      /\ \A i \in 1..n : mem[i + 1] = m[i]
      /\ Loaded4(cc, Cc4Max + 1) /\ n <= cc.size - 1 /\ cc.file = t.id
  BY DEF Holds4
<1>2. n \in Nat /\ n > 0 /\ n <= MessageMax /\ n \in Lengths /\ m \in Seq(Octet) /\ MessageMax \in Nat
  BY Sizes DEF IsMessage
<1>3. BufMax \in Nat /\ Cc4Len \in Nat /\ Cc4Max \in Nat /\ MleMin \in Nat /\ MleMin > 0
      /\ ReadMax \in Nat /\ ReadMax > 0 /\ 8 + EnvelopeLen(MessageMax) <= BufMax
  BY GeometryAssumption DEF PageSize
<1>4. n <= BufMax
  <2>1. MessageMax + 3 <= EnvelopeLen(MessageMax) /\ EnvelopeLen(MessageMax) \in Nat
    BY <1>2, Sizes DEF EnvelopeLen
  <2> QED BY <1>2, <1>3, <2>1
<1>5. nlen = n
  BY <1>1, <1>2, ByteNumber
<1>6. Loaded4(cc, Cc4Max) /\ cc.mle >= MleMin
  BY <1>1, <1>3 DEF Loaded4, Cc4
<1>7. nlen \in 1..Least(cc.size - 1, BufMax)
  BY <1>1, <1>2, <1>4, <1>5 DEF Least
<1>8. most \in Nat /\ most > 0
  BY <1>3, <1>6 DEF Least
<1>9. ~(nlen + 1 > Len(mem))
  BY <1>1, <1>2, <1>5
<1>10. ReadType4(t) = << FlattenSeq(seqs) >>
  <2>1. ReadType4(t) =
          IF \/ ~Loaded4(cc, Cc4Max) \/ cc.read # "open" \/ cc.file # t.id
             \/ nlen \notin 1..Least(cc.size - 1, BufMax) \/ nlen + 1 > Len(mem)
          THEN <<>>
          ELSE << FlattenSeq([p \in DOMAIN Pieces(nlen, most) |->
                    SubSeq(mem, Pieces(nlen, most)[p].at + 2,
                           Pieces(nlen, most)[p].at + Pieces(nlen, most)[p].len + 1)]) >>
    BY DEF ReadType4
  <2> HIDE DEF most, nlen
  <2>2. ReadType4(t) = << FlattenSeq([p \in DOMAIN Pieces(nlen, most) |->
                    SubSeq(mem, Pieces(nlen, most)[p].at + 2,
                           Pieces(nlen, most)[p].at + Pieces(nlen, most)[p].len + 1)]) >>
    BY <1>1, <1>6, <1>7, <1>9, <2>1
  <2> QED BY <1>5, <2>2
<1> HIDE DEF n, most, nlen, mem
<1>11. P \in Nat /\ P > 0 /\ DOMAIN pieces = 1..P /\ Len(pieces) = P
  BY <1>2, <1>8, PiecesAre
<1>12. ASSUME NEW p \in 1..P
       PROVE  PieceOf(m, seqs[p], Done(n, most, p - 1), Done(n, most, p))
  <2> DEFINE a == Done(n, most, p - 1)
             b == Done(n, most, p)
  <2>1. p \in 1..Up(n, most)
    OBVIOUS
  <2>2. a \in Nat /\ b \in Nat /\ a < b /\ b <= n
    BY <1>2, <1>8, <2>1, PiecesAre
  <2>3. Pieces(n, most)[p].at = a
    BY <1>2, <1>8, <2>1, PiecesAre
  <2>4. Pieces(n, most)[p].len = b - a
    BY <1>2, <1>8, <2>1, PiecesAre
  <2> HIDE DEF a, b
  <2>5. seqs[p] = SubSeq(mem, a + 2, b + 1)
    <3>1. a + (b - a) + 1 = b + 1
      BY <2>2
    <3>2. seqs[p] = SubSeq(mem, pieces[p].at + 2, pieces[p].at + pieces[p].len + 1)
      BY <1>11
    <3> QED BY <2>3, <2>4, <3>1, <3>2
  <2> DEFINE s == SubSeq(mem, a + 2, b + 1)
  <2>6. a + 2 \in 1..Len(mem) /\ b + 1 \in 1..Len(mem) /\ Len(mem) \in Nat
    BY <1>1, <1>2, <2>2 DEF mem
  <2>7. s \in Seq(Octet) /\ Len(s) = b - a /\ \A i \in 1..(b - a) : s[i] = mem[a + 1 + i]
    BY <1>1, <2>2, <2>6 DEF mem
  <2>8. \A i \in 1..(b - a) : s[i] = m[a + i]
    <3> TAKE i \in 1..(b - a)
    <3>1. a + i \in 1..n /\ (a + i) + 1 = a + 1 + i
      BY <2>2, <1>2
    <3>2. mem[(a + i) + 1] = m[a + i]
      BY <1>1, <3>1 DEF mem, n
    <3> HIDE DEF s
    <3> QED BY <2>7, <3>1, <3>2
  <2> HIDE DEF s, seqs
  <2>9. seqs[p] \in Seq(Octet) /\ Len(seqs[p]) = b - a /\ \A i \in 1..(b - a) : seqs[p][i] = m[a + i]
    BY <2>5, <2>7, <2>8 DEF s
  <2> QED BY <2>9 DEF a, b, PieceOf
<1>13. Len(seqs) = P
  <2>1. seqs = [p \in 1..P |-> SubSeq(mem, pieces[p].at + 2, pieces[p].at + pieces[p].len + 1)]
    BY <1>11
  <2> HIDE DEF pieces, P
  <2> QED BY <1>11, <2>1
<1> HIDE DEF seqs, pieces
<1>14. FlattenSeq(seqs) = m
  <2>1. P = Up(Len(m), most)
    BY DEF n
  <2>2. m \in Seq(Octet) /\ Len(m) > 0
    BY <1>2 DEF n
  <2>3. \A p \in 1..P : PieceOf(m, seqs[p], Done(Len(m), most, p - 1), Done(Len(m), most, p))
    BY <1>12 DEF n
  <2> HIDE DEF P
  <2> QED BY <1>8, <1>13, <2>1, <2>2, <2>3, PiecesJoined
<1> QED BY <1>10, <1>14

-----------------------------------------------------------------------------
(***************************************************************************)
(* A tag that holds a message, and what is read from it.                   *)
(***************************************************************************)
Stored(t, m) ==
  \/ t.type = 2 /\ Holds2(t.mem, m)
  \/ t.type = 4 /\ Holds4(t, t.mem, m) /\ t.cc.len \in Nat /\ t.cc.mle \in Nat /\ t.cc.size \in Nat
  \/ t.type = 5 /\ t.sys \in BOOLEAN /\ Holds5(t, m)

LEMMA StoredIsRead ==
  ASSUME IsMessage(written), Stored(tag, written)
  PROVE  SuccessIsReadBack
<1>1. CASE tag.type = 2 /\ Holds2(tag.mem, written)
  <2>1. ReaderCanFind => ReadType2(tag) = <<written>>
    <3> SUFFICES ASSUME ReaderCanFind PROVE ReadType2(tag) = <<written>>
      OBVIOUS
    <3>1. ~Contains(LengthField(Len(written)) \o written, "FE")
      BY <1>1 DEF ReaderCanFind
    <3> QED BY <1>1, <3>1, ReadType2Finds
  <2>2. ToolReadType2(tag) = <<written>>
    BY <1>1, ToolReadType2Finds
  <2>3. Read(tag) = ReadType2(tag) /\ ToolRead(tag) = ToolReadType2(tag)
    BY <1>1 DEF Read, ToolRead
  <2> QED BY <2>1, <2>2, <2>3 DEF SuccessIsReadBack
<1>2. CASE tag.type = 4 /\ Holds4(tag, tag.mem, written)
           /\ tag.cc.len \in Nat /\ tag.cc.mle \in Nat /\ tag.cc.size \in Nat
  <2>1. ReaderCanFind => ReadType4(tag) = <<written>>
    <3> SUFFICES ASSUME ReaderCanFind PROVE ReadType4(tag) = <<written>>
      OBVIOUS
    <3>1. tag.cc.read = "open" /\ tag.cc.len <= Cc4Max
      BY <1>2 DEF ReaderCanFind
    <3> QED BY <1>2, <3>1, ReadType4Finds
  <2>2. Read(tag) = ReadType4(tag)
    BY <1>2 DEF Read
  <2>3. ~ToolCanFind
    BY <1>2 DEF ToolCanFind
  <2> QED BY <2>1, <2>2, <2>3 DEF SuccessIsReadBack
<1>3. CASE tag.type = 5 /\ tag.sys \in BOOLEAN /\ Holds5(tag, written)
  <2>1. /\ Cc5(tag.mem).len \in {4, 8}
        /\ Cc5(tag.mem).len = 4 /\ AllCovered(tag) => Area5(tag) >= Len(Tlv(written))
    BY <1>3 DEF Holds5
  <2>2. Covered => Area5(tag) >= Len(Tlv(written))
    BY TlvUnits DEF Covered
  <2>3. ReaderCanFind => ReadType5(tag) = <<written>>
    <3> SUFFICES ASSUME ReaderCanFind PROVE ReadType5(tag) = <<written>>
      OBVIOUS
    <3>1. ~Contains(LengthField(Len(written)) \o written, "FE")
      BY <1>3 DEF ReaderCanFind
    <3>2. tag.sys /\ (MlenCountsAll \/ Covered)
      BY <1>3 DEF ReaderCanFind
    <3>3. Area5(tag) >= Len(Tlv(written))
      BY <2>1, <2>2, <3>2 DEF AllCovered, MlenCountsAll
    <3> QED BY <1>3, <3>1, <3>2, <3>3, ReadType5Finds
  <2>4. ToolCanFind => ToolReadType5(tag) = <<written>>
    <3> SUFFICES ASSUME ToolCanFind PROVE ToolReadType5(tag) = <<written>>
      OBVIOUS
    <3>1. tag.sys \/ Cc5(tag.mem).len = 4 \/ Covered
      BY <1>3 DEF ToolCanFind
    <3>2. tag.sys \/ Area5(tag) >= Len(Tlv(written))
      BY <2>1, <2>2, <3>1 DEF AllCovered
    <3> QED BY <1>3, <3>2, ToolReadType5Finds
  <2>5. Read(tag) = ReadType5(tag) /\ ToolRead(tag) = ToolReadType5(tag)
    BY <1>3 DEF Read, ToolRead
  <2> QED BY <2>3, <2>4, <2>5 DEF SuccessIsReadBack
<1> QED BY <1>1, <1>2, <1>3 DEF Stored

LEMMA WriteStores ==
  ASSUME NEW t \in Tags, NEW m, IsMessage(m), Write(t, m).ok
  PROVE  Stored([t EXCEPT !.mem = Write(t, m).mem], m)
<1> DEFINE w == Write(t, m)
           new == [t EXCEPT !.mem = w.mem]
<1>1. CASE t \in Tag2s /\ Len(t.mem) >= PageSize * GroupPages
  <2>1. t.type = 2 /\ t.mem \in Seq(STRING)
    BY <1>1 DEF Tag2s
  <2>2. w = WriteType2(t, m)
    BY <2>1 DEF Write
  <2>3. new.type = 2 /\ new.mem = w.mem
    <3> HIDE DEF w
    <3> QED BY <1>1 DEF Tag2s
  <2>4. Holds2(w.mem, m)
    BY <1>1, <2>1, <2>2, OfStrings, WriteType2Holds
  <2> QED BY <2>3, <2>4 DEF Stored
<1>2. CASE t \in Tag4s
  <2>1. /\ t.type = 4 /\ t.mem \in Seq(STRING) /\ t.cc.mlc \in Nat
        /\ t.cc.len \in Nat /\ t.cc.mle \in Nat /\ t.cc.size \in Nat
    BY <1>2 DEF Tag4s
  <2>2. w = WriteType4(t, m)
    BY <2>1 DEF Write
  <2>3. new.type = 4 /\ new.mem = w.mem /\ new.cc = t.cc /\ new.id = t.id
    <3> HIDE DEF w
    <3> QED BY <1>2 DEF Tag4s
  <2>4. Holds4(t, w.mem, m)
    BY <2>1, <2>2, OfStrings, WriteType4Holds
  <2>5. Holds4(new, new.mem, m)
    <3> HIDE DEF w, new
    <3> QED BY <2>3, <2>4 DEF Holds4
  <2> QED BY <2>1, <2>3, <2>5 DEF Stored
<1>3. CASE /\ t \in Tag5s /\ Len(t.mem) % PageSize = 0 /\ Len(t.mem) >= 3 * PageSize
           /\ t.sys /\ Cc5(t.mem).len # 0 => Cc5(t.mem).len + Area5(t) <= Len(t.mem)
  <2>1. t.type = 5 /\ t.mem \in Seq(STRING) /\ t.sys \in BOOLEAN
    BY <1>3 DEF Tag5s
  <2>2. w = WriteType5(t, m)
    BY <2>1 DEF Write
  <2>3. new.type = 5 /\ new.mem = w.mem /\ new.sys = t.sys
    <3> HIDE DEF w
    <3> QED BY <1>3 DEF Tag5s
  <2>4. Fits5(t)
    <3>1. t.mem \in Seq(Octet)
      BY <2>1, OfStrings
    <3> QED BY <1>3, <3>1, Zenon DEF Fits5
  <2>5. Holds5(new, m)
    <3>1. w.ok
      OBVIOUS
    <3> HIDE DEF w, new
    <3> QED BY <2>2, <2>3, <2>4, <3>1, WriteType5Holds
  <2> QED BY <2>1, <2>3, <2>5 DEF Stored
<1> QED BY <1>1, <1>2, <1>3, WellFormedTags

LEMMA ToolWriteStores ==
  ASSUME NEW t \in Tags, t.type # 4, NEW m, IsMessage(m), ToolWrite(t, m).ok
  PROVE  Stored([t EXCEPT !.mem = ToolWrite(t, m).mem], m)
<1> DEFINE w == ToolWrite(t, m)
           new == [t EXCEPT !.mem = w.mem]
<1>1. CASE t \in Tag2s /\ Len(t.mem) >= PageSize * GroupPages
  <2>1. t.type = 2 /\ t.mem \in Seq(STRING)
    BY <1>1 DEF Tag2s
  <2>2. w = ToolWriteType2(t, m)
    BY <2>1 DEF ToolWrite
  <2>3. new.type = 2 /\ new.mem = w.mem
    <3> HIDE DEF w
    <3> QED BY <1>1 DEF Tag2s
  <2>4. Holds2(w.mem, m)
    BY <1>1, <2>1, <2>2, OfStrings, ToolWriteType2Holds
  <2> QED BY <2>3, <2>4 DEF Stored
<1>2. CASE t \in Tag4s
  BY <1>2 DEF Tag4s
<1>3. CASE /\ t \in Tag5s /\ Len(t.mem) % PageSize = 0 /\ Len(t.mem) >= 3 * PageSize
           /\ t.sys /\ Cc5(t.mem).len # 0 => Cc5(t.mem).len + Area5(t) <= Len(t.mem)
  <2>1. t.type = 5 /\ t.mem \in Seq(STRING) /\ t.sys \in BOOLEAN
    BY <1>3 DEF Tag5s
  <2>2. w = ToolWriteType5(t, m)
    BY <2>1 DEF ToolWrite
  <2>3. new.type = 5 /\ new.mem = w.mem /\ new.sys = t.sys
    <3> HIDE DEF w
    <3> QED BY <1>3 DEF Tag5s
  <2>4. Fits5(t)
    <3>1. t.mem \in Seq(Octet)
      BY <2>1, OfStrings
    <3> QED BY <1>3, <3>1, Zenon DEF Fits5
  <2>5. Holds5(new, m)
    <3>1. w.ok
      OBVIOUS
    <3> HIDE DEF w, new
    <3> QED BY <2>2, <2>3, <2>4, <3>1, ToolWriteType5Holds
  <2> QED BY <2>1, <2>3, <2>5 DEF Stored
<1> QED BY <1>1, <1>2, <1>3, WellFormedTags

-----------------------------------------------------------------------------
(***************************************************************************)
(* What the encoders make is bytes, and no more than a message may have.   *)
(***************************************************************************)
Sendable(m) == m \in Seq(Octet) /\ Len(m) <= MessageMax

LEMMA MinIn == ASSUME NEW I \in SUBSET Nat, I # {} PROVE Min(I) \in I
<1>1. \E n \in I : \A k \in I : n <= k
  BY LeastOf
<1> QED BY <1>1 DEF Min

LEMMA MaxIn == ASSUME NEW n \in Nat, NEW I \in SUBSET (1..n), I # {} PROVE Max(I) \in I
<1> DEFINE D == {n - k : k \in I}
<1>1. D \in SUBSET Nat /\ D # {}
  <2>1. \A k \in I : n - k \in Nat
    OBVIOUS
  <2>2. PICK k \in I : TRUE
    OBVIOUS
  <2>3. n - k \in D
    OBVIOUS
  <2> QED BY <2>1, <2>3
<1>2. PICK d \in D : \A e \in D : d <= e
  BY <1>1, LeastOf
<1>3. PICK k \in I : d = n - k
  OBVIOUS
<1>4. \A j \in I : k >= j
  <2> TAKE j \in I
  <2>1. n - j \in D /\ j \in Nat /\ k \in Nat
    OBVIOUS
  <2>2. n - k <= n - j
    BY <1>2, <1>3, <2>1
  <2> QED BY <2>1, <2>2
<1>5. \E x \in I : \A y \in I : x >= y
  BY <1>4
<1> QED BY <1>5 DEF Max

LEMMA CutIs ==
  ASSUME NEW S, NEW s \in Seq(S), NEW sep
  PROVE  Cut(s, sep).before \in Seq(S) /\ Cut(s, sep).after \in Seq(S)
<1> DEFINE I == {i \in 1..Len(s) : s[i] = sep}
           at == IF I # {} THEN Min(I) ELSE 0
<1>1. Cut(s, sep) = IF at = 0 THEN [found |-> FALSE, before |-> s, after |-> <<>>]
                    ELSE [found |-> TRUE, before |-> SubSeq(s, 1, at - 1), after |-> SubSeq(s, at + 1, Len(s))]
  BY DEF Cut, SelectInSeq
<1>2. at \in 0..Len(s) /\ Len(s) \in Nat
  <2>1. Len(s) \in Nat /\ I \in SUBSET Nat /\ I \in SUBSET (1..Len(s))
    OBVIOUS
  <2>2. I # {} => Min(I) \in 1..Len(s)
    <3> HIDE DEF I
    <3> QED BY <2>1, MinIn
  <2> HIDE DEF I
  <2> QED BY <2>1, <2>2
<1> HIDE DEF at
<1>3. CASE at = 0
  BY <1>1, <1>3
<1>4. CASE at # 0
  <2>1. SubSeq(s, 1, at - 1) \in Seq(S) /\ SubSeq(s, at + 1, Len(s)) \in Seq(S)
    BY <1>2, <1>4
  <2> QED BY <1>1, <1>4, <2>1
<1> QED BY <1>3, <1>4

LEMMA FitIs ==
  ASSUME NEW b \in Seq(Octet)
  PROVE  Sendable(Fit(b))
<1>1. <<>> \in Seq(Octet) /\ Len(<<>>) <= MessageMax /\ Len(b) \in Nat
  BY Sizes
<1> QED BY <1>1, Sizes DEF Fit, Sendable

LEMMA NothingSendable == Sendable(<<>>)
BY Sizes DEF Sendable

LEMMA OneRecord ==
  ASSUME NEW tnf \in {"known", "mime"}, NEW type \in Octet, NEW p \in Seq(Octet)
  PROVE  Bytes(<<Record(tnf, type, p)>>) \in Seq(Octet)
<1> DEFINE r == Record(tnf, type, p)
           h == [mb |-> TRUE, me |-> TRUE, cf |-> FALSE, il |-> FALSE, tnf |-> tnf]
           b == <<HeaderByte[h], Byte[1], Byte[Len(p)], type>> \o p
<1>1. r.tnf = tnf /\ r.type = type /\ r.payload = p
  BY DEF Record
<1>2. h \in Headers
  BY DEF Headers
<1>3. HeaderByte[h] \in Octet /\ Byte[1] \in Octet /\ Byte[Len(p)] \in Octet
  <2>1. Len(p) \in Nat /\ 1 \in Nat
    OBVIOUS
  <2> HIDE DEF h
  <2> QED BY <1>2, <2>1 DEF Octet
<1>4. b \in Seq(Octet)
  <2> HIDE DEF h
  <2> QED BY <1>3
<1> HIDE DEF b
<1> DEFINE seqs == [i \in DOMAIN <<r>> |-> RecordBytes(<<r>>[i], i = 1, i = Len(<<r>>))]
<1>5. seqs = <<b>>
  <2>1. RecordBytes(r, 1 = 1, 1 = 1) = b
    BY <1>1 DEF RecordBytes, b
  <2> HIDE DEF r
  <2>2. seqs = [i \in 1..1 |-> RecordBytes(<<r>>[i], i = 1, i = 1)]
    OBVIOUS
  <2>3. seqs = [i \in 1..1 |-> b]
    BY <2>1, <2>2
  <2> QED BY <2>3
<1>6. FlattenSeq(<<b>>) = b
  <2> DEFINE q == <<b>>
  <2>1. Len(q) = 1 /\ q[1] = b
    OBVIOUS
  <2> HIDE DEF q
  <2>2. Len(q) \in Nat /\ Len(q) > 0
    BY <2>1
  <2>3. PICK f : f = FlatFrom(q, f, Len(q)) /\ FlattenSeq(q) = f[Len(q)]
    BY <2>2, FlattenIs
  <2>4. f[1] = b
    BY <2>1, <2>3 DEF FlatFrom
  <2>5. FlattenSeq(q) = b
    BY <2>1, <2>3, <2>4
  <2> QED BY <2>5 DEF q
<1>7. Bytes(<<r>>) = FlattenSeq(seqs)
  BY DEF Bytes
<1> HIDE DEF seqs, r
<1> QED BY <1>4, <1>5, <1>6, <1>7 DEF r

LEMMA Words ==
  /\ "00" \in Octet /\ "04" \in Octet /\ "U" \in Octet /\ "T" \in Octet /\ "e" \in Octet /\ "n" \in Octet
  /\ "vcard" \in Octet /\ "wsc" \in Octet /\ "bt" \in Octet /\ ":" \in Octet /\ "CR" \in Octet
  /\ "LF" \in Octet /\ "|" \in Octet /\ "_" \in Octet /\ "Version" \in Octet /\ "v1" \in Octet
  /\ "Credential" \in Octet /\ "NetworkIndex" \in Octet /\ "01" \in Octet /\ "Ssid" \in Octet
  /\ "AuthType" \in Octet /\ "WPA2" \in Octet /\ "EncrType" \in Octet /\ "AES" \in Octet
  /\ "NetworkKey" \in Octet /\ "MacAddress" \in Octet /\ "BEGIN" \in Octet /\ "VCARD" \in Octet
  /\ "VERSION" \in Octet /\ "4" \in Octet /\ "FN" \in Octet /\ "TEL" \in Octet /\ "EMAIL" \in Octet
  /\ "END" \in Octet /\ "sms:" \in Octet /\ "?body=" \in Octet /\ "mailto:" \in Octet /\ "?" \in Octet
  /\ "subject=" \in Octet /\ "&" \in Octet /\ "body=" \in Octet /\ "geo:" \in Octet /\ "tel:" \in Octet
  /\ "https://" \in Octet /\ "www." \in Octet /\ "search?q=" \in Octet /\ "maps/" \in Octet
BY DEF Octet

LEMMA Cat == ASSUME NEW S, NEW a \in Seq(S), NEW b \in Seq(S) PROVE a \o b \in Seq(S)
OBVIOUS
LEMMA One == ASSUME NEW S, NEW a \in S PROVE <<a>> \in Seq(S)
OBVIOUS
LEMMA Two == ASSUME NEW S, NEW a \in S, NEW b \in S PROVE <<a, b>> \in Seq(S)
OBVIOUS
LEMMA Three == ASSUME NEW S, NEW a \in S, NEW b \in S, NEW c \in S PROVE <<a, b, c>> \in Seq(S)
OBVIOUS

LEMMA OfElements ==
  ASSUME NEW S, NEW n \in Nat, NEW f, f = [i \in 1..n |-> f[i]], \A i \in 1..n : f[i] \in S
  PROVE  f \in Seq(S) /\ Len(f) = n
OBVIOUS

LEMMA LengthByte == ASSUME NEW s \in Seq(Octet) PROVE Byte[Len(s)] \in Octet
<1>1. Len(s) \in Nat
  OBVIOUS
<1> QED BY <1>1 DEF Octet

LEMMA EmitUriIs ==
  ASSUME NEW code \in Octet, NEW uri \in Seq(Octet)
  PROVE  Sendable(EmitUri(code, uri))
<1>1. <<code>> \o uri \in Seq(Octet)
  BY One, Cat
<1>2. Bytes(<<Record("known", "U", <<code>> \o uri)>>) \in Seq(Octet)
  BY <1>1, Words, OneRecord
<1> QED BY <1>2, FitIs, NothingSendable DEF EmitUri

LEMMA EmitTextIs ==
  ASSUME NEW text \in Seq(Octet)
  PROVE  Sendable(EmitText(text))
<1> DEFINE p == <<Byte[2], "e", "n">> \o text
<1>1. Byte[2] \in Octet
  <2>1. 2 \in Nat
    OBVIOUS
  <2> QED BY <2>1 DEF Octet
<1>2. p \in Seq(Octet)
  BY <1>1, Words, Three, Cat
<1> HIDE DEF p
<1>3. Bytes(<<Record("known", "T", p)>>) \in Seq(Octet)
  BY <1>2, Words, OneRecord
<1> QED BY <1>3, FitIs, NothingSendable DEF EmitText, p

LEMMA EmitMimeIs ==
  ASSUME NEW type \in Octet, NEW p \in Seq(Octet)
  PROVE  Sendable(EmitMime(type, p))
<1>1. Bytes(<<Record("mime", type, p)>>) \in Seq(Octet)
  BY OneRecord
<1> QED BY <1>1, FitIs, NothingSendable DEF EmitMime

LEMMA AttributeIs ==
  ASSUME NEW name \in Octet, NEW value \in Seq(Octet)
  PROVE  Attribute(name, value) \in Seq(Octet)
BY LengthByte, Two, Cat DEF Attribute

LEMMA WifiIs ==
  ASSUME NEW ssid \in Seq(Octet), NEW psk \in Seq(Octet)
  PROVE  Sendable(Wifi(ssid, psk))
<1> DEFINE a1 == Attribute("NetworkIndex", <<"01">>)
           a2 == Attribute("Ssid", ssid)
           a3 == Attribute("AuthType", <<"WPA2">>)
           a4 == Attribute("EncrType", <<"AES">>)
           a5 == Attribute("NetworkKey", psk)
           a6 == Attribute("MacAddress", <<"00">>)
           all == a1 \o a2 \o a3 \o a4 \o a5 \o a6
           v == Attribute("Version", <<"v1">>)
           c == Attribute("Credential", all)
<1>1. <<"01">> \in Seq(Octet) /\ <<"WPA2">> \in Seq(Octet) /\ <<"AES">> \in Seq(Octet)
      /\ <<"00">> \in Seq(Octet) /\ <<"v1">> \in Seq(Octet)
  BY Words, One
<1>2. /\ a1 \in Seq(Octet) /\ a2 \in Seq(Octet) /\ a3 \in Seq(Octet)
      /\ a4 \in Seq(Octet) /\ a5 \in Seq(Octet) /\ a6 \in Seq(Octet) /\ v \in Seq(Octet)
  BY <1>1, Words, AttributeIs
<1>3. Wsc(ssid, psk) = v \o c
  BY DEF Wsc
<1> HIDE DEF a1, a2, a3, a4, a5, a6, v
<1>4. all \in Seq(Octet)
  BY <1>2, Cat
<1> HIDE DEF all
<1>5. c \in Seq(Octet)
  BY <1>4, Words, AttributeIs
<1> HIDE DEF c
<1>6. Wsc(ssid, psk) \in Seq(Octet)
  BY <1>2, <1>3, <1>5, Cat
<1>7. Sendable(EmitMime("wsc", Wsc(ssid, psk)))
  BY <1>6, Words, EmitMimeIs
<1> QED BY <1>7, NothingSendable DEF Wifi

LEMMA BluetoothIs ==
  ASSUME NEW s \in Seq(Octet)
  PROVE  Sendable(Bluetooth(s))
<1> SUFFICES ASSUME MacText(s) PROVE Sendable(Bluetooth(s))
  BY NothingSendable DEF Bluetooth
<1> DEFINE mac == [i \in 1..MacOctets |-> s[2 * i - 1]]
           n == MacOctets
<1>1. n \in Nat /\ n > 0
  BY MessageSizesAssumption, SMTT(30)
<1>2. Len(s) = 2 * n - 1
  BY DEF MacText
<1> HIDE DEF n
<1>3. mac \in Seq(Octet) /\ Len(mac) = n
  <2>1. \A i \in 1..n : 2 * i - 1 \in 1..Len(s)
    BY <1>1, <1>2
  <2>2. \A i \in 1..n : s[2 * i - 1] \in Octet
    BY <2>1
  <2>3. mac = [i \in 1..n |-> s[2 * i - 1]]
    BY DEF n
  <2> HIDE DEF mac
  <2>4. mac = [i \in 1..n |-> mac[i]] /\ \A i \in 1..n : mac[i] \in Octet
    BY <2>2, <2>3
  <2> QED BY <1>1, <2>4, OfElements
<1> HIDE DEF mac
<1>4. Reverse(mac) \in Seq(Octet)
  <2>1. Reverse(mac) = [i \in 1..n |-> mac[(n - i) + 1]]
    BY <1>3 DEF Reverse
  <2>2. \A i \in 1..n : (n - i) + 1 \in 1..Len(mac)
    BY <1>1, <1>3
  <2>3. \A i \in 1..n : mac[(n - i) + 1] \in Octet
    BY <1>3, <2>2
  <2> QED BY <1>1, <2>1, <2>3
<1>5. Byte[MacOctets + 2] \in Octet /\ Byte[0] \in Octet
  <2>1. MacOctets + 2 \in Nat /\ 0 \in Nat
    BY <1>1 DEF n
  <2> QED BY <2>1 DEF Octet
<1>6. Oob(mac) \in Seq(Octet)
  BY <1>4, <1>5, Two, Cat DEF Oob
<1>7. Sendable(EmitMime("bt", Oob(mac)))
  BY <1>6, Words, EmitMimeIs
<1> QED BY <1>7 DEF Bluetooth, mac

LEMMA LineIs ==
  ASSUME NEW name \in Octet, NEW value \in Seq(Octet)
  PROVE  Line(name, value) \in Seq(Octet)
<1>1. <<name, ":">> \in Seq(Octet) /\ <<"CR", "LF">> \in Seq(Octet)
  BY Words, Two
<1> QED BY <1>1, Cat DEF Line

LEMMA VcardIs ==
  ASSUME NEW name \in Seq(Octet), NEW tel \in Seq(Octet), NEW email \in Seq(Octet)
  PROVE  Sendable(Vcard(name, tel, email))
<1> DEFINE l1 == Line("BEGIN", <<"VCARD">>)
           l2 == Line("VERSION", <<"4">>)
           l3 == Line("FN", name)
           l4 == Line("TEL", tel)
           l5 == Line("EMAIL", email)
           l6 == Line("END", <<"VCARD">>)
           all == l1 \o l2 \o l3 \o l4 \o l5 \o l6
<1>1. <<"VCARD">> \in Seq(Octet) /\ <<"4">> \in Seq(Octet)
  BY Words, One
<1>2. /\ l1 \in Seq(Octet) /\ l2 \in Seq(Octet) /\ l3 \in Seq(Octet)
      /\ l4 \in Seq(Octet) /\ l5 \in Seq(Octet) /\ l6 \in Seq(Octet)
  BY <1>1, Words, LineIs
<1>3. Vcard(name, tel, email)
        = IF Clean(name) /\ Clean(tel) /\ Clean(email) THEN EmitMime("vcard", all) ELSE <<>>
  BY DEF Vcard
<1> HIDE DEF l1, l2, l3, l4, l5, l6
<1>4. all \in Seq(Octet)
  BY <1>2, Cat
<1> HIDE DEF all
<1>5. Sendable(EmitMime("vcard", all))
  BY <1>4, Words, EmitMimeIs
<1> QED BY <1>3, <1>5, NothingSendable

LEMMA SmsIs ==
  ASSUME NEW number \in Seq(Octet), NEW body \in Seq(Octet)
  PROVE  Sendable(Sms(number, body))
<1> DEFINE q == IF body # <<>> THEN <<"?body=">> \o body ELSE <<>>
           uri == <<"sms:">> \o number \o q
<1>1. q \in Seq(Octet)
  BY Words, One, Cat
<1>2. <<"sms:">> \in Seq(Octet)
  BY Words, One
<1>3. Sms(number, body) = EmitUri("00", uri)
  BY DEF Sms
<1> HIDE DEF q
<1>4. uri \in Seq(Octet)
  BY <1>1, <1>2, Cat
<1> HIDE DEF uri
<1> QED BY <1>3, <1>4, Words, EmitUriIs

LEMMA MailtoIs ==
  ASSUME NEW address \in Seq(Octet), NEW subject \in Seq(Octet), NEW body \in Seq(Octet)
  PROVE  Sendable(Mailto(address, subject, body))
<1> DEFINE q == IF subject # <<>> \/ body # <<>> THEN <<"?", "subject=">> \o subject ELSE <<>>
           r == IF body # <<>> THEN <<"&", "body=">> \o body ELSE <<>>
           uri == <<"mailto:">> \o address \o q \o r
<1>1. q \in Seq(Octet)
  BY Words, Two, Cat
<1>2. r \in Seq(Octet)
  BY Words, Two, Cat
<1>3. <<"mailto:">> \in Seq(Octet)
  BY Words, One
<1>4. Mailto(address, subject, body) = EmitUri("00", uri)
  BY DEF Mailto
<1> HIDE DEF q, r
<1>5. uri \in Seq(Octet)
  BY <1>1, <1>2, <1>3, Cat
<1> HIDE DEF uri
<1> QED BY <1>4, <1>5, Words, EmitUriIs

Kinds == {"none", "url", "text", "uri", "raw", "sms", "mailto", "geo", "vcard", "wifi", "bt"}
Configs == [kind : Kinds, uriId : Octet, str1 : Seq(Octet), str2 : Seq(Octet), raw : Seq(Octet)]

(* Whatever the payload configuration, the writer is given bytes, and not too many. *)
LEMMA BuildIs ==
  ASSUME NEW c \in Configs
  PROVE  Sendable(BuildNdefMessage(c))
<1> DEFINE pair == Cut(c.str2, "|")
<1>1. /\ c.kind \in Kinds /\ c.uriId \in Octet
      /\ c.str1 \in Seq(Octet) /\ c.str2 \in Seq(Octet) /\ c.raw \in Seq(Octet)
  BY DEF Configs
<1>2. pair.before \in Seq(Octet) /\ pair.after \in Seq(Octet)
  BY <1>1, CutIs
<1>3. <<"geo:">> \o c.str1 \in Seq(Octet)
  BY <1>1, Words, One, Cat
<1>4. CASE c.kind = "none"
  <2>1. BuildNdefMessage(c) = <<>>
    BY <1>4 DEF BuildNdefMessage
  <2> QED BY <2>1, NothingSendable
<1>5. CASE c.kind = "url"
  <2>1. BuildNdefMessage(c) = EmitUri("04", c.str1)
    BY <1>5 DEF BuildNdefMessage
  <2> QED BY <1>1, <2>1, Words, EmitUriIs
<1>6. CASE c.kind = "text"
  <2>1. BuildNdefMessage(c) = EmitText(c.str1)
    BY <1>6 DEF BuildNdefMessage
  <2> QED BY <1>1, <2>1, EmitTextIs
<1>7. CASE c.kind = "uri"
  <2>1. BuildNdefMessage(c) = EmitUri(c.uriId, c.str1)
    BY <1>7 DEF BuildNdefMessage
  <2> QED BY <1>1, <2>1, EmitUriIs
<1>8. CASE c.kind = "raw"
  <2>1. BuildNdefMessage(c) = Fit(c.raw)
    BY <1>8 DEF BuildNdefMessage
  <2> QED BY <1>1, <2>1, FitIs
<1>9. CASE c.kind = "sms"
  <2>1. BuildNdefMessage(c) = Sms(c.str1, c.str2)
    BY <1>9 DEF BuildNdefMessage
  <2> QED BY <1>1, <2>1, SmsIs
<1>10. CASE c.kind = "mailto"
  <2>1. BuildNdefMessage(c) = Mailto(c.str1, pair.before, pair.after)
    BY <1>10 DEF BuildNdefMessage
  <2> QED BY <1>1, <1>2, <2>1, MailtoIs
<1>11. CASE c.kind = "geo"
  <2>1. BuildNdefMessage(c) = EmitUri("00", <<"geo:">> \o c.str1)
    BY <1>11 DEF BuildNdefMessage
  <2> QED BY <1>3, <2>1, Words, EmitUriIs
<1>12. CASE c.kind = "vcard"
  <2>1. BuildNdefMessage(c) = Vcard(c.str1, pair.before, pair.after)
    BY <1>12 DEF BuildNdefMessage
  <2> QED BY <1>1, <1>2, <2>1, VcardIs
<1>13. CASE c.kind = "wifi"
  <2>1. BuildNdefMessage(c) = Wifi(c.str1, c.str2)
    BY <1>13 DEF BuildNdefMessage
  <2> QED BY <1>1, <2>1, WifiIs
<1>14. CASE c.kind = "bt"
  <2>1. BuildNdefMessage(c) = Bluetooth(c.str1)
    BY <1>14 DEF BuildNdefMessage
  <2> QED BY <1>1, <2>1, BluetoothIs
<1> QED BY <1>1, <1>4, <1>5, <1>6, <1>7, <1>8, <1>9, <1>10, <1>11, <1>12, <1>13, <1>14 DEF Kinds

-----------------------------------------------------------------------------
(***************************************************************************)
(* The console keeps a payload configuration of bytes, whatever it is      *)
(* sent.                                                                   *)
(***************************************************************************)
Outcomes == [ok : BOOLEAN, cfg : Configs]

LEMMA AppliedIs ==
  ASSUME NEW ok \in BOOLEAN, NEW c \in Configs
  PROVE  Applied(ok, c) \in Outcomes
BY DEF Applied, Outcomes

LEMMA ConfigsAre ==
  ASSUME NEW c \in Configs
  PROVE  /\ c.kind \in Kinds /\ c.uriId \in Octet
         /\ c.str1 \in Seq(Octet) /\ c.str2 \in Seq(Octet) /\ c.raw \in Seq(Octet)
         /\ \A x \in Octet : [c EXCEPT !.uriId = x] \in Configs
         /\ \A x \in Kinds : [c EXCEPT !.kind = x] \in Configs
         /\ \A x \in Seq(Octet) : /\ [c EXCEPT !.str1 = x] \in Configs
                                  /\ [c EXCEPT !.str2 = x] \in Configs
                                  /\ [c EXCEPT !.raw = x] \in Configs
BY DEF Configs

LEMMA TrimIs ==
  ASSUME NEW s \in Seq(Octet)
  PROVE  Trim(s) \in Seq(Octet)
<1> DEFINE kept == {i \in DOMAIN s : s[i] # "_"}
           a == Min(kept)
           b == Max(kept)
<1>1. Trim(s) = IF kept = {} THEN <<>> ELSE SubSeq(s, a, b)
  BY DEF Trim
<1>2. Len(s) \in Nat /\ kept \in SUBSET Nat /\ kept \in SUBSET (1..Len(s))
  <2>1. Len(s) \in Nat /\ DOMAIN s = 1..Len(s)
    OBVIOUS
  <2>2. kept \subseteq DOMAIN s
    OBVIOUS
  <2> HIDE DEF kept
  <2> QED BY <2>1, <2>2
<1>3. kept # {} => a \in 1..Len(s) /\ b \in 1..Len(s)
  <2> HIDE DEF kept
  <2>1. kept # {} => a \in kept
    BY <1>2, MinIn
  <2>2. kept # {} => b \in kept
    BY <1>2, MaxIn
  <2> HIDE DEF a, b
  <2> QED BY <1>2, <2>1, <2>2
<1> HIDE DEF kept, a, b
<1>4. kept # {} => SubSeq(s, a, b) \in Seq(Octet)
  BY <1>2, <1>3
<1> QED BY <1>1, <1>4

LEMMA FieldIs ==
  ASSUME NEW s \in Seq(Octet), NEW cap \in Nat, cap > 0
  PROVE  Field(s, cap) \in Seq(Octet)
<1> DEFINE n == IF Len(s) < cap THEN Len(s) ELSE cap - 1
<1>1. n \in 0..Len(s) /\ Len(s) \in Nat
  OBVIOUS
<1> HIDE DEF n
<1>2. SubSeq(s, 1, n) \in Seq(Octet)
  BY <1>1
<1> QED BY <1>2, TrimIs DEF Field, n

LEMMA Caps == Str1Max \in Nat /\ Str1Max > 0 /\ Str2Max \in Nat /\ Str2Max > 0
BY MessageSizesAssumption

LEMMA OneFieldIs ==
  ASSUME NEW c \in Configs, NEW id \in Octet, NEW kind \in Kinds, NEW text \in Seq(Octet)
  PROVE  OneField(c, id, kind, text) \in Outcomes
<1> DEFINE f == Field(text, Str1Max)
           d == [c EXCEPT !.uriId = id, !.str1 = f]
           e == [d EXCEPT !.str2 = <<>>, !.kind = kind]
<1>1. f \in Seq(Octet)
  BY FieldIs, Caps
<1>2. OneField(c, id, kind, text) = IF f = <<>> THEN Applied(FALSE, d) ELSE Applied(TRUE, e)
  BY DEF OneField
<1> HIDE DEF f
<1>3. d \in Configs
  BY <1>1 DEF Configs
<1> HIDE DEF d
<1>4. e \in Configs
  <2>1. <<>> \in Seq(Octet)
    OBVIOUS
  <2> QED BY <1>3, <2>1 DEF Configs
<1> HIDE DEF e
<1>5. Applied(FALSE, d) \in Outcomes /\ Applied(TRUE, e) \in Outcomes
  BY <1>3, <1>4, AppliedIs
<1> QED BY <1>2, <1>5

LEMMA PrefixedIs ==
  ASSUME NEW c \in Configs, NEW prefix \in Seq(Octet), NEW rest \in Seq(Octet)
  PROVE  Prefixed(c, prefix, rest) \in Outcomes
<1>1. prefix \o rest \in Seq(Octet)
  BY Cat
<1>2. [c EXCEPT !.uriId = "00"] \in Configs
  BY Words DEF Configs
<1>3. Applied(FALSE, [c EXCEPT !.uriId = "00"]) \in Outcomes
  BY <1>2, AppliedIs
<1>4. OneField(c, "00", "uri", prefix \o rest) \in Outcomes
  <2>1. "uri" \in Kinds
    BY DEF Kinds
  <2> QED BY <1>1, <2>1, Words, OneFieldIs
<1> QED BY <1>3, <1>4 DEF Prefixed

LEMMA TwoFieldsIs ==
  ASSUME NEW c \in Configs, NEW kind \in Kinds, NEW rest \in Seq(Octet), NEW text \in Seq(Octet), NEW needed
  PROVE  TwoFields(c, kind, rest, text, needed) \in Outcomes
<1> DEFINE one == Field(Cut(rest, "|").before, Str1Max)
           two == Field(text, Str2Max)
           d == [c EXCEPT !.uriId = "00", !.str1 = one]
           e == [d EXCEPT !.str2 = two]
           g == [d EXCEPT !.str2 = two, !.kind = kind]
<1>1. one \in Seq(Octet)
  <2>1. Cut(rest, "|").before \in Seq(Octet)
    BY CutIs
  <2> QED BY <2>1, FieldIs, Caps
<1>2. two \in Seq(Octet)
  BY FieldIs, Caps
<1>3. TwoFields(c, kind, rest, text, needed)
        = IF one = <<>> THEN Applied(FALSE, d)
          ELSE IF needed /\ two = <<>> THEN Applied(FALSE, e) ELSE Applied(TRUE, g)
  BY DEF TwoFields
<1> HIDE DEF one, two
<1>4. d \in Configs
  BY <1>1, Words DEF Configs
<1> HIDE DEF d
<1>5. e \in Configs
  BY <1>2, <1>4, ConfigsAre
<1>7. g \in Configs
  BY <1>2, <1>4 DEF Configs
<1> HIDE DEF e, g
<1>6. Applied(FALSE, d) \in Outcomes /\ Applied(FALSE, e) \in Outcomes /\ Applied(TRUE, g) \in Outcomes
  BY <1>4, <1>5, <1>7, AppliedIs
<1> QED BY <1>3, <1>6

LEMMA RawIs ==
  ASSUME NEW c \in Configs, NEW m \in Seq(Octet)
  PROVE  Raw(c, m) \in Outcomes
<1>1. [c EXCEPT !.kind = "raw", !.raw = m, !.str1 = <<>>, !.str2 = <<>>] \in Configs
  <2>1. "raw" \in Kinds
    BY DEF Kinds
  <2>2. <<>> \in Seq(Octet)
    OBVIOUS
  <2> QED BY <2>1, <2>2 DEF Configs
<1> QED BY <1>1, AppliedIs DEF Raw

LEMMA HexBytesIs ==
  ASSUME NEW rest
  PROVE  HexBytes(rest, HexMessages) \in Seq(Octet)
<1>1. CASE Len(rest) = 1 /\ rest[1] \in DOMAIN HexMessages
  <2>1. HexMessages[rest[1]] \in Seq(STRING)
    BY <1>1, HostAssumption
  <2>2. HexMessages[rest[1]] \in Seq(Octet)
    BY <2>1, OfStrings
  <2> QED BY <1>1, <2>2 DEF HexBytes
<1>2. CASE ~(Len(rest) = 1 /\ rest[1] \in DOMAIN HexMessages)
  BY <1>2 DEF HexBytes
<1> QED BY <1>1, <1>2

LEMMA PartsAre ==
  ASSUME NEW rest \in Seq(Octet)
  PROVE  Second(rest) \in Seq(Octet) /\ Third(rest) \in Seq(Octet) /\ BothOrOne(rest) \in Seq(Octet)
<1>1. Cut(rest, "|").after \in Seq(Octet)
  BY CutIs
<1>2. Second(rest) \in Seq(Octet)
  BY <1>1, CutIs DEF Second
<1>3. Third(rest) \in Seq(Octet)
  BY <1>1, CutIs DEF Third
<1>4. <<"|">> \o Third(rest) \in Seq(Octet)
  BY <1>3, Words, One, Cat
<1> DEFINE tail == IF HasThird(rest) THEN <<"|">> \o Third(rest) ELSE <<>>
<1>5. tail \in Seq(Octet)
  BY <1>4
<1> HIDE DEF tail
<1>6. Second(rest) \o tail \in Seq(Octet)
  BY <1>2, <1>5, Cat
<1>7. BothOrOne(rest) \in Seq(Octet)
  BY <1>6 DEF BothOrOne, Printed, tail
<1> QED BY <1>2, <1>3, <1>7

LEMMA UrlIs ==
  ASSUME NEW c \in Configs, NEW rest \in Seq(Octet),
         NEW r, r = OneField(c, "04", "url", rest), r.ok, IsPrefix(<<"https://">>, r.cfg.str1)
  PROVE  [r EXCEPT !.cfg.str1 = Tail(@)] \in Outcomes
<1>1. r \in Outcomes
  <2>1. "url" \in Kinds /\ "04" \in Octet
    BY Words DEF Kinds
  <2> QED BY <2>1, OneFieldIs
<1>2. r.ok \in BOOLEAN /\ r.cfg \in Configs
  BY <1>1 DEF Outcomes
<1> DEFINE s == r.cfg.str1
<1>3. s \in Seq(Octet)
  BY <1>2, ConfigsAre
<1>4. s # <<>>
  <2>1. Len(<<"https://">>) <= Len(s) /\ Len(<<"https://">>) = 1
    BY DEF IsPrefix
  <2>2. Len(<<>>) = 0
    OBVIOUS
  <2> HIDE DEF s
  <2> QED BY <2>1, <2>2
<1>5. Tail(s) \in Seq(Octet)
  <2> HIDE DEF s
  <2> QED BY <1>3, <1>4
<1>6. [r.cfg EXCEPT !.str1 = Tail(s)] \in Configs
  BY <1>2, <1>5, ConfigsAre
<1>7. [r EXCEPT !.cfg.str1 = Tail(@)] = [r EXCEPT !.cfg = [r.cfg EXCEPT !.str1 = Tail(s)]]
  BY <1>1 DEF Outcomes
<1> DEFINE d == [r.cfg EXCEPT !.str1 = Tail(s)]
<1>8. [r EXCEPT !.cfg = d] \in Outcomes
  <2>1. d \in Configs
    BY <1>6
  <2> HIDE DEF d
  <2> QED BY <1>1, <2>1 DEF Outcomes
<1> QED BY <1>7, <1>8

(* Every command leaves a payload configuration, the ones that it refuses too. *)
LEMMA CommandIs ==
  ASSUME NEW c \in Configs, NEW word, NEW rest \in Seq(Octet)
  PROVE  Command(c, word, rest) \in Outcomes
<1> USE DEF Kinds
<1>a. Second(rest) \in Seq(Octet) /\ BothOrOne(rest) \in Seq(Octet)
  BY PartsAre
<1>b. /\ <<"tel:">> \in Seq(Octet) /\ <<"https://", "www.", "search?q=">> \in Seq(Octet)
      /\ <<"https://", "www.", "maps/">> \in Seq(Octet)
  BY Words, One, Three
<1>c. "00" \in Octet /\ "04" \in Octet
  BY Words
<1>1. CASE word = "url"
  <2> DEFINE r == OneField(c, "04", "url", rest)
  <2>1. r \in Outcomes
    BY <1>c, OneFieldIs
  <2>2. r.ok /\ IsPrefix(<<"https://">>, r.cfg.str1) => [r EXCEPT !.cfg.str1 = Tail(@)] \in Outcomes
    BY UrlIs
  <2>3. Command(c, word, rest) = IF r.ok /\ IsPrefix(<<"https://">>, r.cfg.str1)
                                 THEN [r EXCEPT !.cfg.str1 = Tail(@)] ELSE r
    BY <1>1 DEF Command, UriWords
  <2> HIDE DEF r
  <2> QED BY <2>1, <2>2, <2>3
<1>2. CASE word \in {"text", "data"}
  <2>1. Command(c, word, rest) = OneField(c, "00", "text", rest)
    BY <1>2 DEF Command, UriWords
  <2> QED BY <2>1, <1>c, OneFieldIs
<1>3. CASE word \in {"phone", "phone-number"}
  <2>1. Command(c, word, rest) = Prefixed(c, <<"tel:">>, rest)
    BY <1>3 DEF Command, UriWords
  <2> QED BY <2>1, <1>b, PrefixedIs
<1>4. CASE word = "sms"
  <2>1. Command(c, word, rest) = TwoFields(c, "sms", rest, Second(rest), FALSE)
    BY <1>4 DEF Command, UriWords
  <2> QED BY <2>1, <1>a, TwoFieldsIs
<1>5. CASE word \in {"mailto", "mail"}
  <2>1. Command(c, word, rest) = TwoFields(c, "mailto", rest, BothOrOne(rest), FALSE)
    BY <1>5 DEF Command, UriWords
  <2> QED BY <2>1, <1>a, TwoFieldsIs
<1>6. CASE word \in {"geo", "location", "custom-location"}
  <2>1. Command(c, word, rest) = OneField(c, "00", "geo", rest)
    BY <1>6 DEF Command, UriWords
  <2> QED BY <2>1, <1>c, OneFieldIs
<1>7. CASE word \in {"vcard", "contact"}
  <2>1. Command(c, word, rest) = TwoFields(c, "vcard", rest, BothOrOne(rest), TRUE)
    BY <1>7 DEF Command, UriWords
  <2> QED BY <2>1, <1>a, TwoFieldsIs
<1>8. CASE word = "wifi"
  <2>1. Command(c, word, rest) = TwoFields(c, "wifi", rest, Second(rest), HasSecond(rest))
    BY <1>8 DEF Command, UriWords
  <2> QED BY <2>1, <1>a, TwoFieldsIs
<1>9. CASE word \in {"bt", "bluetooth"}
  <2>1. Command(c, word, rest) = OneField(c, "00", "bt", rest)
    BY <1>9 DEF Command, UriWords
  <2> QED BY <2>1, <1>c, OneFieldIs
<1>10. CASE word = "search"
  <2>1. Command(c, word, rest) = Prefixed(c, <<"https://", "www.", "search?q=">>, rest)
    BY <1>10 DEF Command, UriWords
  <2> QED BY <2>1, <1>b, PrefixedIs
<1>11. CASE word \in {"address", "destination-address"}
  <2>1. Command(c, word, rest) = Prefixed(c, <<"https://", "www.", "maps/">>, rest)
    BY <1>11 DEF Command, UriWords
  <2> QED BY <2>1, <1>b, PrefixedIs
<1>12. CASE word \in UriWords
  <2>1. Command(c, word, rest) = OneField(c, "00", "uri", rest)
    BY <1>12 DEF Command, UriWords
  <2> QED BY <2>1, <1>c, OneFieldIs
<1>13. CASE word = "ndef-hex"
  <2>1. Command(c, word, rest) = Raw(c, HexBytes(rest, HexMessages))
    BY <1>13 DEF Command, UriWords
  <2>2. HexBytes(rest, HexMessages) \in Seq(Octet)
    BY HexBytesIs
  <2> QED BY <2>1, <2>2, RawIs
<1>14. CASE /\ word \notin {"url", "text", "data", "phone", "phone-number", "sms", "mailto", "mail",
                            "geo", "location", "custom-location", "vcard", "contact", "wifi", "bt",
                            "bluetooth", "search", "address", "destination-address", "ndef-hex"}
            /\ word \notin UriWords
  <2>1. Command(c, word, rest) = Applied(FALSE, c)
    BY <1>14 DEF Command, UriWords
  <2> QED BY <2>1, AppliedIs
<1> QED BY <1>1, <1>2, <1>3, <1>4, <1>5, <1>6, <1>7, <1>8, <1>9, <1>10, <1>11, <1>12, <1>13, <1>14

LEMMA ConfiguredIs ==
  ASSUME NEW r \in Outcomes
  PROVE  Configured(r) \in Outcomes
<1>1. r.cfg \in Configs
  BY DEF Outcomes
<1>2. Kept(r.cfg) \in Configs
  <2>1. <<>> \in Seq(Octet)
    OBVIOUS
  <2> QED BY <1>1, <2>1, ConfigsAre DEF Kept
<1>3. Announced(Kept(r.cfg)) \in Outcomes
  <2>1. (BuildNdefMessage(Kept(r.cfg)) # <<>>) \in BOOLEAN
    OBVIOUS
  <2> QED BY <1>2, <2>1, AppliedIs DEF Announced
<1> QED BY <1>3 DEF Configured

LEMMA PlainIs ==
  ASSUME NEW t \in Seq(Octet)
  PROVE  Plain(t) \in Seq(Octet)
<1>1. CASE t = <<>> \/ Head(t) # "--"
  BY <1>1 DEF Plain
<1>2. CASE ~(t = <<>> \/ Head(t) # "--")
  <2> DEFINE eq == Cut(Tail(t), "=")
  <2>1. Tail(t) \in Seq(Octet)
    BY <1>2
  <2>2. eq.before \in Seq(Octet) /\ eq.after \in Seq(Octet)
    BY <2>1, CutIs
  <2>3. Plain(t) = IF eq.found THEN eq.before \o <<"_">> \o eq.after ELSE Tail(t)
    BY <1>2 DEF Plain
  <2> HIDE DEF eq
  <2>4. <<"_">> \in Seq(Octet)
    BY Words, One
  <2>5. eq.before \o <<"_">> \o eq.after \in Seq(Octet)
    BY <2>2, <2>4, Cat
  <2> QED BY <2>1, <2>3, <2>5
<1> QED BY <1>1, <1>2

LEMMA HandledIs ==
  ASSUME NEW c \in Configs, NEW plain \in Seq(Octet)
  PROVE  Handled(c, plain) \in Outcomes
<1> DEFINE rest == Trim(Cut(plain, "_").after)
<1>1. rest \in Seq(Octet)
  <2>1. Cut(plain, "_").after \in Seq(Octet)
    BY CutIs
  <2> QED BY <2>1, TrimIs
<1>2. Handled(c, plain) = Applied(FALSE, c) \/ Handled(c, plain) = Configured(Command(c, plain[1], rest))
  BY DEF Handled
<1> HIDE DEF rest
<1>3. Applied(FALSE, c) \in Outcomes
  BY AppliedIs
<1>4. Configured(Command(c, plain[1], rest)) \in Outcomes
  BY <1>1, CommandIs, ConfiguredIs
<1> QED BY <1>2, <1>3, <1>4

-----------------------------------------------------------------------------
(***************************************************************************)
(* The ring, the scanner and the command line: bytes, never more in the    *)
(* ring than it has room for.                                              *)
(***************************************************************************)
BothModes == {"reader", "writer"}
Shows == {ShownBy(m) : m \in Seq(Octet)}
States == [ring : Seq(Octet), scan : Seq(Octet), mode : BothModes, line : Seq(Octet), over : BOOLEAN,
           cfg : Configs, said : Seq(Shows)]

LEMMA Nothing == ASSUME NEW S PROVE <<>> \in Seq(S)
OBVIOUS

LEMMA StatesAre ==
  ASSUME NEW s \in States
  PROVE  /\ s.ring \in Seq(Octet) /\ s.scan \in Seq(Octet) /\ s.mode \in BothModes
         /\ s.line \in Seq(Octet) /\ s.over \in BOOLEAN /\ s.cfg \in Configs /\ s.said \in Seq(Shows)
         /\ \A x \in Seq(Octet) : [s EXCEPT !.ring = x] \in States /\ [s EXCEPT !.ring = x].ring = x
         /\ \A x \in Seq(Octet) : [s EXCEPT !.scan = x] \in States /\ [s EXCEPT !.scan = x].ring = s.ring
         /\ \A x \in Seq(Octet) : [s EXCEPT !.line = x] \in States /\ [s EXCEPT !.line = x].ring = s.ring
         /\ \A x \in BOOLEAN : [s EXCEPT !.over = x] \in States /\ [s EXCEPT !.over = x].ring = s.ring
BY DEF States

LEMMA FedIs ==
  ASSUME NEW held \in Seq(Octet), NEW ch \in Octet
  PROVE  /\ Fed(held, ch).scan \in Seq(Octet) /\ Fed(held, ch).back \in Seq(Octet)
         /\ Fed(held, ch).mode \in BothModes \cup {""}
<1> DEFINE keep(s) == [scan |-> s, mode |-> "", back |-> <<>>]
           all == Append(held, ch)
           found == [keep(<<>>) EXCEPT !.mode = IF held = ModeLine("writer") THEN "writer" ELSE "reader"]
           back == [keep(<<>>) EXCEPT !.back = all]
           Fine(f) == f.scan \in Seq(Octet) /\ f.back \in Seq(Octet) /\ f.mode \in BothModes \cup {""}
<1>1. all \in Seq(Octet) /\ <<>> \in Seq(Octet)
  OBVIOUS
<1> HIDE DEF all
<1>2. Fed(held, ch) \in {keep(held), found, back, keep(all)}
  <2>1. CASE ch = "CR"
    BY <2>1 DEF Fed
  <2>2. CASE ch = "LF"
    BY <2>2 DEF Fed, all
  <2>3. CASE ch # "CR" /\ ch # "LF"
    BY <2>3 DEF Fed, all
  <2> QED BY <2>1, <2>2, <2>3
<1>3. Fine(keep(held)) /\ Fine(keep(all)) /\ Fine(back)
  BY <1>1
<1>4. Fine(found)
  BY <1>1 DEF BothModes
<1> HIDE DEF found, back, keep
<1> QED BY <1>2, <1>3, <1>4

LEMMA NoPayloadIs == NoPayload \in Configs
<1>1. "none" \in Kinds /\ "00" \in Octet
  BY Words DEF Kinds
<1>2. <<>> \in Seq(Octet)
  OBVIOUS
<1> QED BY <1>1, <1>2 DEF NoPayload, Configs

LEMMA SwitchedIs ==
  ASSUME NEW s \in States, NEW new \in BothModes
  PROVE  Switched(s, new) \in States /\ Switched(s, new).ring = s.ring
<1>1. NoPayload \in Configs /\ <<>> \in Seq(Octet)
  BY NoPayloadIs, Nothing
<1>2. CASE new = s.mode
  BY <1>2 DEF Switched
<1>3. CASE new # s.mode /\ new = "writer"
  <2>1. Switched(s, new) = [s EXCEPT !.mode = new, !.scan = <<>>, !.line = <<>>, !.over = FALSE,
                                     !.cfg = NoPayload]
    BY <1>3 DEF Switched
  <2> HIDE DEF NoPayload
  <2> QED BY <1>1, <2>1 DEF States
<1>4. CASE new # s.mode /\ new # "writer"
  <2>1. Switched(s, new) = [s EXCEPT !.mode = new, !.scan = <<>>, !.line = @, !.over = @, !.cfg = @]
    BY <1>4 DEF Switched
  <2> QED BY <1>1, <2>1 DEF States
<1> QED BY <1>2, <1>3, <1>4

(* A byte of the ring in the scanner, and a whole ring *)
ScanStep(t, ch, left) ==
  IF t.done THEN [t EXCEPT !.s.ring = Append(@, ch)]
  ELSE LET f == Fed(t.s.scan, ch)
       IN  IF f.mode # "" THEN [t EXCEPT !.s = Switched([@ EXCEPT !.scan = <<>>], f.mode)]
           ELSE IF f.back = <<>> THEN [t EXCEPT !.s.scan = f.scan]
           ELSE IF t.s.mode = "writer"
                THEN [t EXCEPT !.s.scan = <<>>, !.s.ring = Fits(f.back, left), !.done = TRUE]
           ELSE [t EXCEPT !.s.scan = <<>>]
Scans(bytes, first, f, N) ==
  [n \in 0..N |-> IF n = 0 THEN first ELSE ScanStep(f[n - 1], bytes[n], Len(bytes) - n)]
ScanOk(t, left) ==
  /\ t \in [s : States, done : BOOLEAN]
  /\ Len(t.s.ring) + left < RingCap
  /\ ~t.done => t.s.ring = <<>>

LEMMA ScanIs ==
  ASSUME NEW t, NEW ch \in Octet, NEW left \in Nat, ScanOk(t, left + 1)
  PROVE  ScanOk(ScanStep(t, ch, left), left)
<1>1. t \in [s : States, done : BOOLEAN] /\ t.s \in States /\ t.done \in BOOLEAN
  BY DEF ScanOk
<1>2. /\ t.s.ring \in Seq(Octet) /\ t.s.scan \in Seq(Octet) /\ t.s.mode \in BothModes
      /\ \A x \in Seq(Octet) : [t.s EXCEPT !.ring = x] \in States /\ [t.s EXCEPT !.ring = x].ring = x
      /\ \A x \in Seq(Octet) : [t.s EXCEPT !.scan = x] \in States
                               /\ [t.s EXCEPT !.scan = x].ring = t.s.ring
  BY <1>1, StatesAre
<1>3. Len(t.s.ring) + (left + 1) < RingCap /\ RingCap \in Nat /\ Len(t.s.ring) \in Nat
  BY <1>2, ConsoleSizesAssumption DEF ScanOk
<1>a. ~t.done => t.s.ring = <<>>
  BY DEF ScanOk
<1>4. left < RingCap
  <2> DEFINE n == Len(t.s.ring)
  <2> HIDE DEF n
  <2>1. n + (left + 1) < RingCap /\ n \in Nat
    BY <1>3 DEF n
  <2> QED BY <2>1, <1>3
<1>5. CASE t.done
  <2> DEFINE r == Append(t.s.ring, ch)
  <2>1. r \in Seq(Octet) /\ Len(r) = Len(t.s.ring) + 1 /\ Len(t.s.ring) \in Nat
    BY <1>2
  <2> DEFINE u == [t.s EXCEPT !.ring = r]
  <2>2. u \in States /\ u.ring = r
    <3> HIDE DEF r
    <3> QED BY <1>2, <2>1
  <2>3. ScanStep(t, ch, left) = [t EXCEPT !.s = u]
    BY <1>1, <1>5 DEF ScanStep
  <2> HIDE DEF u, r
  <2>4. [t EXCEPT !.s = u] \in [s : States, done : BOOLEAN]
        /\ [t EXCEPT !.s = u].s = u /\ [t EXCEPT !.s = u].done = t.done
    BY <1>1, <2>2
  <2>5. Len(r) + left < RingCap
    <3> DEFINE n == Len(t.s.ring)
               k == Len(r)
    <3> HIDE DEF n, k
    <3>1. n + (left + 1) < RingCap /\ n \in Nat /\ k = n + 1
      BY <1>3, <2>1 DEF n, k
    <3>2. k + left < RingCap
      BY <3>1, <1>3
    <3> QED BY <3>2 DEF k
  <2> QED BY <1>5, <2>2, <2>3, <2>4, <2>5 DEF ScanOk
<1>6. CASE ~t.done
  <2> DEFINE f == Fed(t.s.scan, ch)
             clear == [t.s EXCEPT !.scan = <<>>]
  <2>0. t.s.ring = <<>> /\ <<>> \in Seq(Octet) /\ Len(<<>>) + left < RingCap
    BY <1>a, <1>4, <1>6
  <2>1. f.scan \in Seq(Octet) /\ f.back \in Seq(Octet) /\ f.mode \in BothModes \cup {""}
    BY <1>2, FedIs
  <2>2. clear \in States /\ clear.ring = <<>>
    BY <1>2, <2>0
  <2>3. ScanStep(t, ch, left)
          = IF f.mode # "" THEN [t EXCEPT !.s = Switched(clear, f.mode)]
            ELSE IF f.back = <<>> THEN [t EXCEPT !.s = [t.s EXCEPT !.scan = f.scan]]
            ELSE IF t.s.mode = "writer"
                 THEN [t EXCEPT !.s = [clear EXCEPT !.ring = Fits(f.back, left)], !.done = TRUE]
            ELSE [t EXCEPT !.s = clear]
    BY <1>1, <1>6 DEF ScanStep, States
  <2> HIDE DEF f, clear
  <2>4. ASSUME NEW u \in States, u.ring = <<>>
        PROVE  ScanOk([t EXCEPT !.s = u], left)
    <3>1. [t EXCEPT !.s = u] \in [s : States, done : BOOLEAN]
          /\ [t EXCEPT !.s = u].s = u
      BY <1>1
    <3> QED BY <2>0, <2>4, <3>1 DEF ScanOk
  <2>5. f.mode # "" => Switched(clear, f.mode) \in States /\ Switched(clear, f.mode).ring = <<>>
    BY <2>1, <2>2, SwitchedIs
  <2>6. [t.s EXCEPT !.scan = f.scan] \in States /\ [t.s EXCEPT !.scan = f.scan].ring = <<>>
    BY <1>2, <2>0, <2>1
  <2> DEFINE back == Fits(f.back, left)
             put == [clear EXCEPT !.ring = back]
  <2>7. back \in Seq(Octet) /\ Len(back) + left < RingCap
    BY <2>0, <2>1 DEF Fits
  <2> HIDE DEF back
  <2>8. put \in States /\ put.ring = back
    BY <2>2, <2>7, StatesAre
  <2> HIDE DEF put
  <2>9. ScanOk([t EXCEPT !.s = put, !.done = TRUE], left)
    <3>1. [t EXCEPT !.s = put, !.done = TRUE] \in [s : States, done : BOOLEAN]
          /\ [t EXCEPT !.s = put, !.done = TRUE].s = put
          /\ [t EXCEPT !.s = put, !.done = TRUE].done = TRUE
      BY <1>1, <2>8
    <3> QED BY <2>7, <2>8, <3>1 DEF ScanOk
  <2>10. CASE f.mode # ""
    BY <2>3, <2>4, <2>5, <2>10
  <2>11. CASE f.mode = "" /\ f.back = <<>>
    BY <2>3, <2>4, <2>6, <2>11
  <2>12. CASE f.mode = "" /\ f.back # <<>> /\ t.s.mode = "writer"
    BY <2>3, <2>9, <2>12 DEF put, back
  <2>13. CASE f.mode = "" /\ f.back # <<>> /\ t.s.mode # "writer"
    BY <2>2, <2>3, <2>4, <2>13
  <2> QED BY <2>10, <2>11, <2>12, <2>13
<1> QED BY <1>1, <1>5, <1>6

LEMMA ScansExist ==
  ASSUME NEW N \in Nat, NEW bytes, NEW first
  PROVE  \E f : f = Scans(bytes, first, f, N)
<1> DEFINE D == {m \in 0..N : ~\E f : f = Scans(bytes, first, f, m)}
<1>1. SUFFICES D = {}
  <2>1. N \in 0..N
    OBVIOUS
  <2> QED BY <2>1
<1>2. SUFFICES ASSUME D # {} PROVE FALSE
  OBVIOUS
<1>3. PICK m \in D : \A k \in D : m <= k
  <2>1. D \subseteq 0..N
    OBVIOUS
  <2> HIDE DEF D
  <2>2. D \subseteq Nat
    BY <2>1
  <2> QED BY <1>2, <2>2, LeastOf
<1>4. m \in 0..N /\ ~\E f : f = Scans(bytes, first, f, m)
  OBVIOUS
<1>5. CASE m = 0
  <2> DEFINE g == [n \in 0..0 |-> first]
  <2>1. g = Scans(bytes, first, g, 0)
    BY DEF Scans
  <2> QED BY <1>4, <1>5, <2>1
<1>6. CASE m # 0
  <2>1. m - 1 \in 0..N /\ ~(m <= m - 1) /\ m \in Nat /\ m > 0
    BY <1>4, <1>6
  <2>2. PICK f : f = Scans(bytes, first, f, m - 1)
    BY <1>3, <2>1
  <2> DEFINE g == [n \in 0..m |-> IF n = m THEN ScanStep(f[m - 1], bytes[m], Len(bytes) - m) ELSE f[n]]
  <2>3. ASSUME NEW n \in 0..m
        PROVE  g[n] = IF n = 0 THEN first ELSE ScanStep(g[n - 1], bytes[n], Len(bytes) - n)
    <3>1. n # 0 => n - 1 \in 0..m /\ n - 1 # m /\ g[n - 1] = f[n - 1]
      BY <2>1
    <3>2. CASE n = m
      BY <2>1, <3>1, <3>2
    <3>3. CASE n # m
      <4>1. n \in 0..(m - 1)
        BY <2>1, <3>3
      <4>2. f[n] = IF n = 0 THEN first ELSE ScanStep(f[n - 1], bytes[n], Len(bytes) - n)
        BY <2>2, <4>1 DEF Scans
      <4> QED BY <3>1, <3>3, <4>2
    <3> QED BY <3>2, <3>3
  <2>4. g = Scans(bytes, first, g, m)
    BY <2>3, SMTT(30) DEF Scans
  <2> QED BY <1>4, <2>4
<1> QED BY <1>5, <1>6

LEMMA ScannedRuns ==
  ASSUME NEW s, Len(s.ring) \in Nat
  PROVE  \E f : /\ f = Scans(s.ring, [s |-> [s EXCEPT !.ring = <<>>], done |-> FALSE], f, Len(s.ring))
                /\ Scanned(s) = f[Len(s.ring)].s
<1>1. \E f : f = Scans(s.ring, [s |-> [s EXCEPT !.ring = <<>>], done |-> FALSE], f, Len(s.ring))
  BY ScansExist
<1> QED BY <1>1, ZenonT(60) DEF Scanned, Scans, ScanStep

(* Looking for mode lines in the ring never makes it overflow: what is pushed back  *)
(* has room, or is dropped as a whole.                                              *)
LEMMA ScannedIs ==
  ASSUME NEW s \in States, Len(s.ring) < RingCap
  PROVE  Scanned(s) \in States /\ Len(Scanned(s).ring) < RingCap
<1> DEFINE N == Len(s.ring)
           first == [s |-> [s EXCEPT !.ring = <<>>], done |-> FALSE]
<1>1. s.ring \in Seq(Octet) /\ N \in Nat /\ N < RingCap
  BY StatesAre
<1>2. PICK f : f = Scans(s.ring, first, f, N) /\ Scanned(s) = f[N].s
  BY <1>1, ScannedRuns
<1>3. ScanOk(first, N)
  <2> DEFINE u == [s EXCEPT !.ring = <<>>]
  <2>1. u \in States /\ u.ring = <<>>
    BY StatesAre, Nothing
  <2> HIDE DEF u
  <2>2. first \in [s : States, done : BOOLEAN] /\ first.s = u
    BY <2>1 DEF u
  <2>3. Len(u.ring) = 0
    BY <2>1
  <2> HIDE DEF N, first
  <2> QED BY <1>1, <2>1, <2>2, <2>3 DEF ScanOk
<1>4. \A n \in 0..N : f[n] = IF n = 0 THEN first ELSE ScanStep(f[n - 1], s.ring[n], N - n)
  <2> HIDE DEF first
  <2> QED BY <1>2 DEF Scans
<1> HIDE DEF first
<1> DEFINE D == {n \in 0..N : ~ScanOk(f[n], N - n)}
<1>5. D = {}
  <2>1. SUFFICES ASSUME D # {} PROVE FALSE
    OBVIOUS
  <2>2. PICK m \in D : \A k \in D : m <= k
    <3>1. D \subseteq 0..N
      OBVIOUS
    <3> HIDE DEF D, N
    <3>2. D \subseteq Nat
      BY <3>1
    <3> QED BY <2>1, <3>2, LeastOf
  <2>3. m \in 0..N /\ ~ScanOk(f[m], N - m)
    OBVIOUS
  <2>4. m # 0
    <3>1. f[0] = first /\ N - 0 = N
      <4> HIDE DEF N
      <4> QED BY <1>1, <1>4
    <3> QED BY <1>3, <2>3, <3>1
  <2>5. m - 1 \in 0..N /\ ~(m <= m - 1) /\ N - m \in Nat /\ N - (m - 1) = (N - m) + 1 /\ m \in 1..N
    <3> HIDE DEF D, N
    <3> QED BY <1>1, <2>3, <2>4
  <2>6. ScanOk(f[m - 1], N - (m - 1))
    BY <2>2, <2>5
  <2>7. s.ring[m] \in Octet
    BY <1>1, <2>5
  <2>8. ScanOk(ScanStep(f[m - 1], s.ring[m], N - m), N - m)
    <3> HIDE DEF D, N
    <3> QED BY <2>5, <2>6, <2>7, ScanIs
  <2>9. f[m] = ScanStep(f[m - 1], s.ring[m], N - m)
    BY <1>4, <2>3, <2>4
  <2> QED BY <2>3, <2>8, <2>9
<1>6. ScanOk(f[N], 0)
  <2> HIDE DEF N
  <2>1. N \in 0..N /\ N - N = 0
    BY <1>1
  <2>2. ScanOk(f[N], N - N)
    BY <1>5, <2>1
  <2> QED BY <2>1, <2>2
<1> DEFINE k == Len(f[N].s.ring)
<1>7. f[N].s \in States /\ k + 0 < RingCap
  BY <1>6 DEF ScanOk
<1>8. k \in Nat
  BY <1>7, StatesAre
<1>9. k < RingCap
  <2>1. k + 0 < RingCap /\ k \in Nat
    BY <1>7, <1>8
  <2> HIDE DEF k
  <2> QED BY <2>1
<1> QED BY <1>2, <1>7, <1>9

LEMMA ClosedIs ==
  ASSUME NEW s \in States, NEW r \in Outcomes
  PROVE  Closed(s, r) \in States /\ Closed(s, r).ring = s.ring
<1> DEFINE m == BuildNdefMessage(r.cfg)
           now == IF r.ok THEN Append(s.said, ShownBy(m)) ELSE s.said
<1>1. r.cfg \in Configs /\ r.ok \in BOOLEAN
  BY DEF Outcomes
<1>2. ShownBy(m) \in Shows
  <2>1. m \in Seq(Octet)
    BY <1>1, BuildIs DEF Sendable
  <2> HIDE DEF m
  <2> QED BY <2>1 DEF Shows
<1>3. now \in Seq(Shows)
  <2>1. s.said \in Seq(Shows)
    BY StatesAre
  <2> DEFINE x == ShownBy(m)
  <2> HIDE DEF x
  <2>2. Append(s.said, x) \in Seq(Shows)
    BY <1>2, <2>1 DEF x
  <2> QED BY <2>1, <2>2 DEF x
<1>4. Closed(s, r) = [s EXCEPT !.line = <<>>, !.over = FALSE, !.cfg = r.cfg, !.said = now]
  BY DEF Closed, States
<1> HIDE DEF now, m
<1>5. <<>> \in Seq(Octet)
  OBVIOUS
<1> QED BY <1>1, <1>3, <1>4, <1>5 DEF States

LEMMA TypedIs ==
  ASSUME NEW s \in States, NEW ch \in Octet
  PROVE  Typed(s, ch) \in States /\ Typed(s, ch).ring = s.ring
<1> DEFINE r == IF s.over \/ s.line = <<>> THEN Applied(FALSE, s.cfg)
                ELSE Handled(s.cfg, Plain(Trim(s.line)))
           more == Append(s.line, ch)
<1>1. s.line \in Seq(Octet) /\ s.cfg \in Configs
  BY StatesAre
<1>2. r \in Outcomes
  <2>1. Trim(s.line) \in Seq(Octet)
    BY <1>1, TrimIs
  <2>2. Plain(Trim(s.line)) \in Seq(Octet)
    BY <2>1, PlainIs
  <2>3. Handled(s.cfg, Plain(Trim(s.line))) \in Outcomes /\ Applied(FALSE, s.cfg) \in Outcomes
    BY <1>1, <2>2, HandledIs, AppliedIs
  <2> QED BY <2>3
<1>3. more \in Seq(Octet)
  BY <1>1
<1>4. Typed(s, ch) \in {Closed(s, r), s, [s EXCEPT !.line = more], [s EXCEPT !.over = TRUE]}
  <2> HIDE DEF r
  <2>1. CASE ch \in {"CR", "LF"}
    BY <2>1 DEF Typed, r
  <2>2. CASE ch = "CTL"
    BY <2>2 DEF Typed
  <2>3. CASE ch \notin {"CR", "LF", "CTL"}
    BY <2>3 DEF Typed, States
  <2> QED BY <2>1, <2>2, <2>3
<1> HIDE DEF r, more
<1>5. Closed(s, r) \in States /\ Closed(s, r).ring = s.ring
  BY <1>2, ClosedIs
<1>6. /\ [s EXCEPT !.line = more] \in States /\ [s EXCEPT !.line = more].ring = s.ring
      /\ [s EXCEPT !.over = TRUE] \in States /\ [s EXCEPT !.over = TRUE].ring = s.ring
  BY <1>3, StatesAre
<1> QED BY <1>4, <1>5, <1>6

-----------------------------------------------------------------------------
(***************************************************************************)
(* The invariant: bytes in every buffer, room in the ring, a payload       *)
(* configuration that can be encoded, and on the tag of the last turn the  *)
(* message whose write was reported as a success.                          *)
(***************************************************************************)
ConsoleInv ==
  /\ out \in Seq(Octet) /\ hw \in Seq(Octet)
  /\ Here \in States
  /\ Len(ring) < RingCap
WrittenInv == written # <<>> => IsMessage(written) /\ Stored(tag, written)
IInv == ConsoleInv /\ WrittenInv

LEMMA HereIs ==
  Here \in States <=> /\ ring \in Seq(Octet) /\ scan \in Seq(Octet) /\ mode \in BothModes
                      /\ line \in Seq(Octet) /\ over \in BOOLEAN /\ cfg \in Configs
                      /\ said \in Seq(Shows)
BY DEF Here, States

LEMMA NowIs ==
  ASSUME NEW s \in States, Now(s)
  PROVE  Here' \in States /\ ring' = s.ring
<1>1. Here' = [ring |-> s.ring, scan |-> s.scan, mode |-> s.mode, line |-> s.line, over |-> s.over,
               cfg |-> s.cfg, said |-> s.said]
  BY DEF Here, Now
<1>2. [ring |-> s.ring, scan |-> s.scan, mode |-> s.mode, line |-> s.line, over |-> s.over,
       cfg |-> s.cfg, said |-> s.said] \in States
  BY DEF States
<1> QED BY <1>1, <1>2 DEF Now

LEMMA RoomIs ==
  ASSUME ConsoleInv
  PROVE  /\ Room \in 0..Len(hw) /\ Len(hw) \in Nat
         /\ Preloaded(Here, Room) \in States /\ Len(Preloaded(Here, Room).ring) < RingCap
<1> DEFINE n == Len(hw)
           k == Len(ring)
           more == SubSeq(hw, 1, Room)
<1>1. ring \in Seq(Octet) /\ hw \in Seq(Octet) /\ n \in Nat /\ k \in Nat /\ k < RingCap /\ RingCap \in Nat
  BY HereIs, ConsoleSizesAssumption DEF ConsoleInv
<1>2. Room \in 0..n /\ k + Room < RingCap
  <2>1. Room = IF n < RingCap - 1 - k THEN n ELSE RingCap - 1 - k
    BY DEF Room
  <2>2. n \in Nat /\ k \in Nat /\ k < RingCap /\ RingCap \in Nat
    BY <1>1
  <2> HIDE DEF n, k
  <2> QED BY <2>1, <2>2
<1>3. more \in Seq(Octet) /\ Len(more) = Room
  BY <1>1, <1>2
<1> DEFINE all == ring \o more
<1>4. all \in Seq(Octet) /\ Len(all) = k + Room
  <2> HIDE DEF more
  <2> QED BY <1>1, <1>3
<1>5. Preloaded(Here, Room) = [Here EXCEPT !.ring = all]
  BY DEF Preloaded, Here
<1> HIDE DEF all
<1>6. [Here EXCEPT !.ring = all] \in States /\ [Here EXCEPT !.ring = all].ring = all
  BY <1>4, StatesAre DEF ConsoleInv
<1> QED BY <1>1, <1>2, <1>4, <1>5, <1>6

LEMMA TakenIs ==
  ASSUME hw \in Seq(Octet), NEW n \in 0..Len(hw), Taken(n)
  PROVE  hw' \in Seq(Octet)
BY DEF Taken

(* The turn's use of the console *)
LEMMA HostSendsStep == ASSUME ConsoleInv, HostSends PROVE ConsoleInv'
<1>1. UNCHANGED <<hw, firmwareVars>>
  BY DEF HostSends
<1>2. out' \in Seq(Octet)
  <2>1. out' \in HostBytes
    BY DEF HostSends
  <2>2. out' \in Seq(STRING)
    BY <2>1, HostAssumption
  <2> QED BY <2>2, OfStrings
<1> QED BY <1>1, <1>2 DEF ConsoleInv, Here, firmwareVars

LEMMA ArriveStep == ASSUME ConsoleInv, Arrive PROVE ConsoleInv'
<1>1. UNCHANGED firmwareVars /\ out # <<>> /\ hw' = Append(hw, Head(out)) /\ out' = Tail(out)
  BY DEF Arrive
<1>2. out \in Seq(Octet) /\ hw \in Seq(Octet)
  BY DEF ConsoleInv
<1>3. Head(out) \in Octet /\ Tail(out) \in Seq(Octet)
  BY <1>1, <1>2
<1>4. hw' \in Seq(Octet) /\ out' \in Seq(Octet)
  BY <1>1, <1>2, <1>3
<1> QED BY <1>1, <1>4 DEF ConsoleInv, Here, firmwareVars

LEMMA PollModeSwitchStep == ASSUME ConsoleInv, PollModeSwitch PROVE ConsoleInv'
<1> DEFINE s == Scanned(Preloaded(Here, Room))
<1>1. s \in States /\ Len(s.ring) < RingCap
  BY RoomIs, ScannedIs
<1>2. Now(s) /\ Taken(Room) /\ UNCHANGED out
  BY DEF PollModeSwitch, Host
<1> HIDE DEF s
<1>3. Here' \in States /\ ring' = s.ring
  BY <1>1, <1>2, NowIs
<1>4. hw' \in Seq(Octet)
  BY <1>2, RoomIs, TakenIs DEF ConsoleInv
<1> QED BY <1>1, <1>2, <1>3, <1>4 DEF ConsoleInv

LEMMA AvailableStep == ASSUME ConsoleInv, Available PROVE ConsoleInv'
<1> DEFINE s == Preloaded(Here, Room)
<1>1. s \in States /\ Len(s.ring) < RingCap
  BY RoomIs
<1>2. Now(s) /\ Taken(Room) /\ UNCHANGED out
  BY DEF Available, Host
<1> HIDE DEF s
<1>3. Here' \in States /\ ring' = s.ring
  BY <1>1, <1>2, NowIs
<1>4. hw' \in Seq(Octet)
  BY <1>2, RoomIs, TakenIs DEF ConsoleInv
<1> QED BY <1>1, <1>2, <1>3, <1>4 DEF ConsoleInv

LEMMA ReadRingStep == ASSUME ConsoleInv, ReadRing PROVE ConsoleInv'
<1> DEFINE s == Scanned(Preloaded(Here, Room))
           rest == [s EXCEPT !.ring = Tail(s.ring)]
           t == Typed([s EXCEPT !.ring = Tail(@)], Head(s.ring))
<1>1. s \in States /\ Len(s.ring) < RingCap
  BY RoomIs, ScannedIs
<1>2. (Now(s) \/ (s.ring # <<>> /\ Now(t))) /\ Taken(Room) /\ UNCHANGED out
  BY DEF ReadRing, Host
<1> HIDE DEF s
<1>3. s.ring # <<>> => t \in States /\ Len(t.ring) < RingCap
  <2> SUFFICES ASSUME s.ring # <<>> PROVE t \in States /\ Len(t.ring) < RingCap
    OBVIOUS
  <2> DEFINE tail == Tail(s.ring)
             n == Len(s.ring)
             k == Len(tail)
  <2>1. s.ring \in Seq(Octet)
    BY <1>1, StatesAre
  <2>2. tail \in Seq(Octet) /\ k = n - 1 /\ n \in Nat /\ Head(s.ring) \in Octet
    BY <2>1
  <2>3. rest \in States /\ rest.ring = tail
    <3> HIDE DEF tail
    <3>1. [s EXCEPT !.ring = tail] \in States /\ [s EXCEPT !.ring = tail].ring = tail
      BY <1>1, <2>2, StatesAre
    <3> QED BY <3>1 DEF tail
  <2>4. t = Typed(rest, Head(s.ring))
    BY <1>1 DEF States
  <2> HIDE DEF rest, t
  <2>5. t \in States /\ t.ring = tail
    BY <2>2, <2>3, <2>4, TypedIs
  <2>6. k < RingCap
    <3>1. n < RingCap /\ k = n - 1 /\ n \in Nat /\ RingCap \in Nat
      BY <1>1, <2>2, ConsoleSizesAssumption
    <3> HIDE DEF n, k
    <3> QED BY <3>1
  <2> QED BY <2>5, <2>6
<1> HIDE DEF t
<1>4. Here' \in States /\ Len(ring') < RingCap
  <2>1. CASE Now(s)
    BY <1>1, <2>1, NowIs
  <2>2. CASE s.ring # <<>> /\ Now(t)
    BY <1>3, <2>2, NowIs
  <2> QED BY <1>2, <2>1, <2>2
<1>5. hw' \in Seq(Octet)
  BY <1>2, RoomIs, TakenIs DEF ConsoleInv
<1> QED BY <1>2, <1>4, <1>5 DEF ConsoleInv

LEMMA ReadDirectStep == ASSUME ConsoleInv, ReadDirect PROVE ConsoleInv'
<1> DEFINE t == Typed(Here, Head(hw))
<1>1. Here \in States /\ hw \in Seq(Octet) /\ Len(ring) < RingCap /\ Here.ring = ring
  BY DEF ConsoleInv, Here
<1>2. CASE hw = <<>>
  <2>1. Now(Here) /\ Taken(0) /\ UNCHANGED out
    BY <1>2 DEF ReadDirect, Host
  <2>2. Here' \in States /\ ring' = ring
    BY <1>1, <2>1, NowIs
  <2>3. hw' \in Seq(Octet)
    BY <1>1, <2>1, TakenIs
  <2> QED BY <1>1, <2>1, <2>2, <2>3 DEF ConsoleInv
<1>3. CASE hw # <<>>
  <2>1. Now(t) /\ Taken(1) /\ UNCHANGED out
    BY <1>3 DEF ReadDirect, Host
  <2>2. Head(hw) \in Octet /\ 1 \in 0..Len(hw)
    BY <1>1, <1>3
  <2>3. t \in States /\ t.ring = ring
    BY <1>1, <2>2, TypedIs
  <2> HIDE DEF t
  <2>4. Here' \in States /\ ring' = ring
    BY <2>1, <2>3, NowIs
  <2>5. hw' \in Seq(Octet)
    BY <1>1, <2>1, <2>2, TakenIs
  <2> QED BY <1>1, <2>1, <2>4, <2>5 DEF ConsoleInv
<1> QED BY <1>2, <1>3

(* A turn with a tag *)
LEMMA NotWritten == ASSUME written' = <<>> PROVE WrittenInv'
BY DEF WrittenInv

LEMMA TapWrites == ASSUME IInv, Tap PROVE WrittenInv'
<1> DEFINE m == BuildNdefMessage(cfg)
<1>1. PICK t \in Tags : /\ tag' = [t EXCEPT !.mem = Write(t, m).mem]
                        /\ written' = IF Write(t, m).ok THEN m ELSE <<>>
  BY DEF Tap
<1>2. Sendable(m)
  BY HereIs, BuildIs DEF IInv, ConsoleInv
<1> HIDE DEF m
<1>3. CASE m = <<>> \/ ~Write(t, m).ok
  BY <1>1, <1>3, NotWritten
<1>4. CASE m # <<>> /\ Write(t, m).ok
  <2>1. IsMessage(m)
    <3>1. Len(m) \in Nat /\ Len(m) # 0 /\ Len(m) <= MessageMax /\ m \in Seq(Octet)
      BY <1>2, <1>4 DEF Sendable
    <3> DEFINE n == Len(m)
    <3>2. n \in 1..MessageMax
      <4>1. n \in Nat /\ n # 0 /\ n <= MessageMax /\ MessageMax \in Nat
        BY <3>1, Sizes
      <4> HIDE DEF n
      <4> QED BY <4>1
    <3> QED BY <3>1, <3>2 DEF IsMessage
  <2>2. Stored([t EXCEPT !.mem = Write(t, m).mem], m)
    BY <1>4, <2>1, WriteStores
  <2>3. written' = m /\ Stored(tag', m)
    BY <1>1, <1>4, <2>2
  <2> QED BY <2>1, <2>3 DEF WrittenInv, IsMessage, Stored
<1> QED BY <1>3, <1>4

LEMMA BroughtWrites == ASSUME IInv, Brought PROVE WrittenInv'
<1>1. PICK t \in Tags, m \in Messages :
        \E w \in {Write(t, m)} \cup (IF t.type = 4 THEN {} ELSE {ToolWrite(t, m)}) :
           /\ tag' = [t EXCEPT !.mem = w.mem]
           /\ written' = IF w.ok THEN m ELSE <<>>
  BY DEF Brought
<1>2. IsMessage(m)
  BY MessagesAssumption, OfStrings DEF IsMessage
<1>3. CASE /\ tag' = [t EXCEPT !.mem = Write(t, m).mem]
           /\ written' = IF Write(t, m).ok THEN m ELSE <<>>
  <2>1. CASE Write(t, m).ok
    <3>1. Stored([t EXCEPT !.mem = Write(t, m).mem], m)
      BY <1>2, <2>1, WriteStores
    <3>2. written' = m /\ Stored(tag', m)
      BY <1>3, <2>1, <3>1
    <3> QED BY <1>2, <3>2 DEF WrittenInv, IsMessage, Stored
  <2>2. CASE ~Write(t, m).ok
    BY <1>3, <2>2, NotWritten
  <2> QED BY <2>1, <2>2
<1>4. CASE /\ t.type # 4
           /\ tag' = [t EXCEPT !.mem = ToolWrite(t, m).mem]
           /\ written' = IF ToolWrite(t, m).ok THEN m ELSE <<>>
  <2>1. CASE ToolWrite(t, m).ok
    <3>1. Stored([t EXCEPT !.mem = ToolWrite(t, m).mem], m)
      BY <1>2, <1>4, <2>1, ToolWriteStores
    <3>2. written' = m /\ Stored(tag', m)
      BY <1>4, <2>1, <3>1
    <3> QED BY <1>2, <3>2 DEF WrittenInv, IsMessage, Stored
  <2>2. CASE ~ToolWrite(t, m).ok
    BY <1>4, <2>2, NotWritten
  <2> QED BY <2>1, <2>2
<1> QED BY <1>1, <1>3, <1>4

LEMMA InitIInv == WriteBackInit => IInv
<1> SUFFICES ASSUME WriteBackInit PROVE IInv
  OBVIOUS
<1>1. /\ out = <<>> /\ hw = <<>> /\ ring = <<>> /\ scan = <<>> /\ mode = "reader" /\ line = <<>>
      /\ over = FALSE /\ cfg = NoPayload /\ said = <<>> /\ written = <<>>
  BY DEF WriteBackInit, Init
<1>2. Here \in States
  <2>1. "reader" \in BothModes
    BY DEF BothModes
  <2>2. <<>> \in Seq(Octet) /\ <<>> \in Seq(Shows)
    BY Nothing
  <2> QED BY <1>1, <2>1, <2>2, NoPayloadIs, HereIs
<1>3. Len(ring) < RingCap
  BY <1>1, ConsoleSizesAssumption
<1> QED BY <1>1, <1>2, <1>3, Nothing DEF IInv, ConsoleInv, WrittenInv

LEMMA NextIInv == IInv /\ [Next]_vars => IInv'
<1> SUFFICES ASSUME IInv, [Next]_vars PROVE IInv'
  OBVIOUS
<1>0. ConsoleInv /\ WrittenInv
  BY DEF IInv
<1>1. ASSUME UNCHANGED <<out, hw, ring, scan, mode, line, over, cfg, said>> PROVE ConsoleInv'
  BY <1>0, <1>1 DEF ConsoleInv, Here
<1>2. ASSUME UNCHANGED <<tag, written>> PROVE WrittenInv'
  <2>1. tag' = tag /\ written' = written
    BY <1>2
  <2> QED BY <1>0, <2>1 DEF WrittenInv, IsMessage, Stored
<1>3. CASE Idle
  <2>1. ConsoleInv'
    BY <1>1, <1>3 DEF Idle
  <2>2. WrittenInv'
    BY <1>2, <1>3 DEF Idle
  <2> QED BY <2>1, <2>2 DEF IInv
<1>4. CASE Tap
  <2>1. ConsoleInv'
    BY <1>1, <1>4 DEF Tap
  <2> QED BY <1>4, <2>1, TapWrites DEF IInv
<1>5. CASE Brought
  <2>1. ConsoleInv'
    BY <1>1, <1>5 DEF Brought
  <2> QED BY <1>5, <2>1, BroughtWrites DEF IInv
<1>6. CASE HostSends /\ Gone
  BY <1>0, <1>6, HostSendsStep, NotWritten DEF IInv, Gone
<1>7. CASE Arrive /\ Gone
  BY <1>0, <1>7, ArriveStep, NotWritten DEF IInv, Gone
<1>8. CASE PollModeSwitch /\ Gone
  BY <1>0, <1>8, PollModeSwitchStep, NotWritten DEF IInv, Gone
<1>9. CASE Available /\ Gone
  BY <1>0, <1>9, AvailableStep, NotWritten DEF IInv, Gone
<1>10. CASE ReadRing /\ Gone
  BY <1>0, <1>10, ReadRingStep, NotWritten DEF IInv, Gone
<1>11. CASE ReadDirect /\ Gone
  BY <1>0, <1>11, ReadDirectStep, NotWritten DEF IInv, Gone
<1>12. CASE UNCHANGED vars
  <2>1. ConsoleInv'
    BY <1>1, <1>12 DEF vars, consoleVars
  <2>2. WrittenInv'
    BY <1>2, <1>12 DEF vars, consoleVars
  <2> QED BY <2>1, <2>2 DEF IInv
<1> QED BY <1>3, <1>4, <1>5, <1>6, <1>7, <1>8, <1>9, <1>10, <1>11, <1>12 DEF Next

LEMMA Invariance == Spec => []IInv
BY InitIInv, NextIInv, PTL DEF Spec

(* The console never runs over: the ring has always room for its mark, whatever     *)
(* the scanner pushes back, and every buffer and field holds bytes of what was sent *)
(* or of what the encoders make (nfc_hal_preload_serial, scan_mode_switch,          *)
(* nero_nfc_app_serial_pushback_return).                                            *)
THEOREM ConsoleCorrect == Spec => []ConsoleInv
<1>1. IInv => ConsoleInv
  BY DEF IInv
<1> QED BY <1>1, Invariance, PTL

(* What a writer reports as a success is read back, whatever tags come, whatever     *)
(* payloads the host configures and whatever the limits: writer_tag_write_type2_impl,*)
(* _type4_impl and _type5_impl and the host's tool against the two readers.          *)
THEOREM SuccessReadBack == Spec => []SuccessIsReadBack
<1>1. IInv => SuccessIsReadBack
  <2> SUFFICES ASSUME IInv PROVE SuccessIsReadBack
    OBVIOUS
  <2>1. CASE written = <<>>
    BY <2>1 DEF SuccessIsReadBack
  <2>2. CASE written # <<>>
    BY <2>2, StoredIsRead DEF IInv, WrittenInv
  <2> QED BY <2>1, <2>2
<1> QED BY <1>1, Invariance, PTL

-----------------------------------------------------------------------------
(***************************************************************************)
(* The scanner on what the host sent.                                      *)
(***************************************************************************)
(* Byte k of what it has looked at since byte i is one it keeps, byte j is one with *)
(* which it returns them all, and at byte k a mode line begins.                     *)
Keeps(s, i, k) ==
  /\ s[k] \notin {"CR", "LF"} /\ k - i + 1 < ScanCap - 1
  /\ k = i => s[k] = "m"
  /\ k = i + 1 => s[k] = "_"
Spells(s, k) == s[k] = "m" /\ s[k + 1] = "_" /\ s[k + 2] \in {"R", "W"} /\ s[k + 3] = "LF"
Returns(s, i, j) ==
  IF s[j] = "LF" THEN ~(j = i + 3 /\ Spells(s, i))
  ELSE s[j] # "CR" /\ ~Keeps(s, i, j)
Back(s, i, j) ==
  /\ i \in 1..Len(s) /\ j \in i..Len(s) /\ Returns(s, i, j)
  /\ \A k \in i..(j - 1) : Keeps(s, i, k)
At(s, k) == k \in 1..Len(s) /\ k + 3 <= Len(s) /\ Spells(s, k)
ModeAt(s, k) == IF s[k + 2] = "W" THEN "writer" ELSE "reader"

(* Two byte sequences that agree from byte i on, n bytes further on in the first *)
LEMMA BackMoves ==
  ASSUME NEW s \in Seq(Octet), NEW t \in Seq(Octet), NEW n \in Int, NEW i \in Int, NEW j \in Int,
         Back(s, i, j), i - n >= 1, j - n <= Len(t), \A x \in i..j : t[x - n] = s[x]
  PROVE  Back(t, i - n, j - n)
<1>1. i <= j /\ i >= 1 /\ j <= Len(s) /\ Len(s) \in Nat /\ Len(t) \in Nat
  BY DEF Back
<1>2. i - n \in 1..Len(t) /\ j - n \in (i - n)..Len(t)
  <2> DEFINE k == Len(t)
  <2> HIDE DEF k
  <2>1. i <= j /\ k \in Nat /\ j - n <= k
    BY <1>1 DEF k
  <2> QED BY <2>1 DEF k
<1>3. ASSUME NEW x \in i..j
      PROVE  /\ x - n \in Int /\ t[x - n] = s[x]
             /\ (x - n) - (i - n) = x - i /\ (x - n = i - n <=> x = i)
             /\ (x - n = (i - n) + 1 <=> x = i + 1)
  BY <1>1, <1>3
<1>4. ASSUME NEW x \in i..j
      PROVE  Keeps(t, i - n, x - n) <=> Keeps(s, i, x)
  BY <1>3, <1>4, ConsoleSizesAssumption DEF Keeps
<1>5. ASSUME NEW y \in (i - n)..((j - n) - 1)
      PROVE  Keeps(t, i - n, y)
  <2>1. y + n \in i..(j - 1) /\ y + n \in i..j /\ (y + n) - n = y
    BY <1>1, <1>5
  <2>2. Keeps(s, i, y + n)
    BY <2>1 DEF Back
  <2> QED BY <1>4, <2>1, <2>2
<1>6. Returns(t, i - n, j - n)
  <2>1. j \in i..j /\ t[j - n] = s[j] /\ (j - n = (i - n) + 3 <=> j = i + 3) /\ Returns(s, i, j)
    BY <1>1, <1>3 DEF Back
  <2>2. Keeps(t, i - n, j - n) <=> Keeps(s, i, j)
    BY <1>4, <2>1
  <2>3. j = i + 3 => (Spells(t, i - n) <=> Spells(s, i))
    <3> SUFFICES ASSUME j = i + 3 PROVE Spells(t, i - n) <=> Spells(s, i)
      OBVIOUS
    <3>1. /\ t[i - n] = s[i] /\ t[(i + 1) - n] = s[i + 1] /\ t[(i + 2) - n] = s[i + 2]
          /\ t[(i + 3) - n] = s[i + 3]
      <4>1. i \in i..j /\ i + 1 \in i..j /\ i + 2 \in i..j /\ i + 3 \in i..j
        BY <1>1
      <4> QED BY <1>3, <4>1
    <3>2. (i + 1) - n = (i - n) + 1 /\ (i + 2) - n = (i - n) + 2 /\ (i + 3) - n = (i - n) + 3
      OBVIOUS
    <3> QED BY <3>1, <3>2 DEF Spells
  <2> QED BY <2>1, <2>2, <2>3 DEF Returns
<1> QED BY <1>2, <1>5, <1>6 DEF Back

LEMMA AtMoves ==
  ASSUME NEW s \in Seq(Octet), NEW t \in Seq(Octet), NEW n \in Int, NEW i \in Int,
         At(s, i), i - n >= 1, i - n + 3 <= Len(t), \A x \in i..(i + 3) : t[x - n] = s[x]
  PROVE  At(t, i - n) /\ ModeAt(t, i - n) = ModeAt(s, i)
<1>1. i >= 1 /\ Len(t) \in Nat
  BY DEF At
<1>2. i - n \in 1..Len(t)
  <2> DEFINE k == Len(t)
  <2> HIDE DEF k
  <2>1. k \in Nat /\ i - n + 3 <= k
    BY <1>1 DEF k
  <2> QED BY <2>1 DEF k
<1>3. /\ t[i - n] = s[i] /\ t[(i + 1) - n] = s[i + 1] /\ t[(i + 2) - n] = s[i + 2]
      /\ t[(i + 3) - n] = s[i + 3]
  <2>1. i \in i..(i + 3) /\ i + 1 \in i..(i + 3) /\ i + 2 \in i..(i + 3) /\ i + 3 \in i..(i + 3)
    OBVIOUS
  <2> QED BY <2>1
<1>4. (i + 1) - n = (i - n) + 1 /\ (i + 2) - n = (i - n) + 2 /\ (i + 3) - n = (i - n) + 3
  OBVIOUS
<1> QED BY <1>2, <1>3, <1>4 DEF At, Spells, ModeAt

(* The scanner has a use for a mode line: it keeps its bytes, returns none of them  *)
(* with the last, and no other mode line begins within it.                          *)
LEMMA LineKept ==
  ASSUME NEW s \in Seq(Octet), NEW i \in Int, At(s, i), ScanCap > 4
  PROVE  /\ \A j \in Int : ~Back(s, i, j)
         /\ \A k \in Int : At(s, k) /\ i <= k /\ k <= i + 3 => k = i
<1>1. i >= 1 /\ s[i] = "m" /\ s[i + 1] = "_" /\ s[i + 2] \in {"R", "W"} /\ s[i + 3] = "LF" /\ Spells(s, i)
  <2>1. i >= 1 /\ Spells(s, i)
    BY DEF At
  <2> QED BY <2>1 DEF Spells
<1>2. Keeps(s, i, i) /\ Keeps(s, i, i + 1) /\ Keeps(s, i, i + 2)
  <2>1. i - i + 1 = 1 /\ (i + 1) - i + 1 = 2 /\ (i + 2) - i + 1 = 3 /\ i + 1 # i /\ i + 2 # i
        /\ i + 2 # i + 1 /\ 1 < ScanCap - 1 /\ 2 < ScanCap - 1 /\ 3 < ScanCap - 1
    BY ConsoleSizesAssumption
  <2> QED BY <1>1, <2>1 DEF Keeps
<1>3. ASSUME NEW j \in Int, Back(s, i, j)
      PROVE  FALSE
  <2>1. j >= i /\ Returns(s, i, j) /\ \A k \in i..(j - 1) : Keeps(s, i, k)
    BY <1>3 DEF Back
  <2>2. CASE j \in {i, i + 1, i + 2}
    BY <1>1, <1>2, <2>1, <2>2 DEF Returns
  <2>3. CASE j = i + 3
    BY <1>1, <2>1, <2>3 DEF Returns
  <2>4. CASE j > i + 3
    <3>1. Keeps(s, i, i + 3)
      BY <2>1, <2>4
    <3> QED BY <1>1, <3>1 DEF Keeps
  <2> QED BY <2>1, <2>2, <2>3, <2>4
<1>4. ASSUME NEW k \in Int, At(s, k), i <= k, k <= i + 3, k # i
      PROVE  FALSE
  <2>1. k \in {i + 1, i + 2, i + 3} /\ s[k] = "m"
    <3>1. Spells(s, k)
      BY <1>4 DEF At
    <3>2. s[k] = "m"
      BY <3>1 DEF Spells
    <3>3. k \in {i + 1, i + 2, i + 3}
      BY <1>4
    <3> QED BY <3>2, <3>3
  <2> QED BY <1>1, <2>1
<1> QED BY <1>3, <1>4

(* Every byte is of a mode line or is returned before one begins. *)
Settled(s) ==
  \A i \in 1..Len(s) :
    \/ \E k \in Int : At(s, k) /\ k <= i /\ i <= k + 3
    \/ \E j \in Int : Back(s, i, j) /\ \A k \in i..j : ~At(s, k)

(* A console but for the bytes that are still to be taken *)
Bare(s) == [s EXCEPT !.ring = <<>>, !.scan = <<>>]
LEMMA BareIs ==
  ASSUME NEW s \in States
  PROVE  Bare(s) \in States /\ Bare(s).mode = s.mode /\ Bare(s).said = s.said
<1>1. <<>> \in Seq(Octet)
  OBVIOUS
<1> QED BY <1>1 DEF States, Bare

(* What becomes of the console when each byte of s is taken in its turn: a mode     *)
(* line switches the mode with its last, and any other byte is typed in the writer  *)
(* and dropped in the reader.                                                       *)
Took(s, k, x) ==
  IF \E i \in (k - 3)..k : At(s, i)
  THEN IF At(s, k - 3) THEN Switched(x, ModeAt(s, k - 3)) ELSE x
  ELSE IF x.mode = "writer" THEN Typed(x, s[k]) ELSE x
Runs(s, x, z, run) ==
  /\ run \in [0..Len(s) -> States] /\ run[0] = x /\ run[Len(s)] = z
  /\ \A k \in 1..Len(s) : run[k] = Took(s, k, run[k - 1])
Leads(s, x, z) == \E run : Runs(s, x, z, run)

(* Without its first n bytes, where no mode line is cut *)
Rest(s, t, n) ==
  n \in Nat /\ Len(s) = n + Len(t) /\ \A x \in 1..Len(t) : t[x] = s[x + n]
LEMMA RestSettled ==
  ASSUME NEW s \in Seq(Octet), NEW t \in Seq(Octet), NEW n, Rest(s, t, n), Settled(s),
         \A k \in Int : At(s, k) => k > n \/ k + 3 <= n
  PROVE  /\ Settled(t)
         /\ \A k \in Int : At(t, k) => At(s, k + n)
         /\ \A k \in Int : At(s, k) /\ k > n => At(t, k - n)
         /\ \A k \in Int : At(t, k) => ModeAt(t, k) = ModeAt(s, k + n)
<1>1. n \in Nat /\ Len(t) \in Nat /\ Len(s) = n + Len(t)
  BY DEF Rest
<1> DEFINE a == Len(s)
           b == Len(t)
<1>2. a \in Nat /\ b \in Nat /\ a = n + b /\ n \in Nat
  BY <1>1
<1>3. ASSUME NEW k \in Int, At(t, k)
      PROVE  At(s, k + n) /\ ModeAt(t, k) = ModeAt(s, k + n)
  <2>1. k \in 1..b /\ k + 3 <= b
    BY <1>3 DEF At
  <2>2. /\ k - (0 - n) = k + n /\ 0 - n \in Int /\ k + n >= 1 /\ k + n + 3 <= a
        /\ \A x \in k..(k + 3) : x \in 1..b /\ x - (0 - n) = x + n
    <3> HIDE DEF a, b
    <3> QED BY <1>2, <2>1
  <2>3. \A x \in k..(k + 3) : s[x - (0 - n)] = t[x]
    BY <2>2 DEF Rest
  <2> QED BY <1>3, <2>2, <2>3, AtMoves, SMTT(30)
<1>4. ASSUME NEW k \in Int, At(s, k), k > n
      PROVE  At(t, k - n)
  <2>1. k \in 1..a /\ k + 3 <= a
    BY <1>4 DEF At
  <2>2. /\ k - n >= 1 /\ k - n + 3 <= b
        /\ \A x \in k..(k + 3) : x - n \in 1..b /\ (x - n) + n = x
    <3> HIDE DEF a, b
    <3> QED BY <1>2, <1>4, <2>1
  <2>3. \A x \in k..(k + 3) : t[x - n] = s[x]
    BY <2>2 DEF Rest
  <2> QED BY <1>2, <1>4, <2>2, <2>3, AtMoves
<1>5. ASSUME NEW i \in 1..Len(t)
      PROVE  \/ \E k \in Int : At(t, k) /\ k <= i /\ i <= k + 3
             \/ \E j \in Int : Back(t, i, j) /\ \A k \in i..j : ~At(t, k)
  <2>1. i \in Int /\ i >= 1 /\ i + n \in 1..a /\ (i + n) - n = i
    <3> HIDE DEF a
    <3>1. i \in 1..b
      BY <1>5
    <3> HIDE DEF b
    <3> QED BY <1>2, <3>1
  <2>2. CASE \E k \in Int : At(s, k) /\ k <= i + n /\ i + n <= k + 3
    <3>1. PICK k \in Int : At(s, k) /\ k <= i + n /\ i + n <= k + 3
      BY <2>2
    <3>2. k > n /\ k - n \in Int /\ k - n <= i /\ i <= (k - n) + 3
      BY <1>2, <2>1, <3>1
    <3> QED BY <1>4, <3>1, <3>2
  <2>3. CASE \E j \in Int : Back(s, i + n, j) /\ \A k \in (i + n)..j : ~At(s, k)
    <3>1. PICK j \in Int : Back(s, i + n, j) /\ \A k \in (i + n)..j : ~At(s, k)
      BY <2>3
    <3>2. j \in (i + n)..a
      BY <3>1 DEF Back
    <3>3. /\ i + n \in Int /\ (i + n) - n >= 1 /\ j - n <= b /\ j - n \in Int
          /\ \A x \in (i + n)..j : x - n \in 1..b /\ (x - n) + n = x
      <4> HIDE DEF a, b
      <4> QED BY <1>2, <2>1, <3>2
    <3>4. \A x \in (i + n)..j : t[x - n] = s[x]
      BY <3>3 DEF Rest
    <3>5. Back(t, i, j - n)
      <4>1. n \in Int /\ j - n <= Len(t)
        BY <1>2, <3>3
      <4>2. Back(t, (i + n) - n, j - n)
        BY <3>1, <3>3, <3>4, <4>1, BackMoves
      <4> QED BY <2>1, <4>2
    <3>6. ASSUME NEW k \in i..(j - n), At(t, k)
          PROVE  FALSE
      <4>1. k \in Int /\ k + n \in (i + n)..j
        <5> HIDE DEF a, b
        <5> QED BY <1>2, <2>1, <3>6
      <4> QED BY <1>3, <3>1, <3>6, <4>1
    <3> QED BY <3>3, <3>5, <3>6
  <2> QED BY <2>1, <2>2, <2>3 DEF Settled
<1>6. Settled(t)
  BY <1>5 DEF Settled
<1> QED BY <1>3, <1>4, <1>6

LEMMA UpTo ==
  ASSUME NEW N \in Nat, NEW I, 0 \in I, \A n \in 0..(N - 1) : n \in I => n + 1 \in I
  PROVE  N \in I
<1> DEFINE D == {n \in 0..N : n \notin I}
<1>1. SUFFICES ASSUME D # {} PROVE FALSE
  <2>1. N \in 0..N
    OBVIOUS
  <2> QED BY <2>1
<1>2. PICK m \in D : \A k \in D : m <= k
  <2>1. D \subseteq Nat
    <3>1. D \subseteq 0..N
      OBVIOUS
    <3> HIDE DEF D
    <3> QED BY <3>1
  <2> QED BY <1>1, <2>1, LeastOf
<1>3. m \in 0..N /\ m \notin I /\ m # 0
  OBVIOUS
<1>4. m - 1 \in 0..(N - 1) /\ m - 1 \in 0..N /\ (m - 1) + 1 = m /\ ~(m <= m - 1)
  BY <1>3
<1>5. m - 1 \in I
  BY <1>2, <1>4
<1> QED BY <1>3, <1>4, <1>5

(* Sequences of steps: a function that is defined by its previous value *)
Folded(a, g, f, N) == [n \in 0..N |-> IF n = 0 THEN a ELSE g[n, f[n - 1]]]
LEMMA FoldExists ==
  ASSUME NEW N \in Nat, NEW S, NEW a \in S, NEW g \in [(1..N) \X S -> S]
  PROVE  \E f \in [0..N -> S] : f = Folded(a, g, f, N)
<1> DEFINE I == {m \in 0..N : \E f \in [0..m -> S] : f = Folded(a, g, f, m)}
<1>1. 0 \in I
  <2> DEFINE f == [n \in 0..0 |-> a]
  <2>1. f = Folded(a, g, f, 0) /\ f \in [0..0 -> S]
    BY DEF Folded
  <2> HIDE DEF f
  <2> QED BY <2>1
<1>2. \A m \in 0..(N - 1) : m \in I => m + 1 \in I
  <2> SUFFICES ASSUME NEW m \in 0..(N - 1), NEW f \in [0..m -> S], f = Folded(a, g, f, m)
               PROVE  m + 1 \in 0..N /\ \E h \in [0..(m + 1) -> S] : h = Folded(a, g, h, m + 1)
    OBVIOUS
  <2>1. /\ m + 1 \in 0..N /\ m + 1 \in 1..N /\ m \in 0..m /\ (m + 1) - 1 = m /\ m + 1 # 0
        /\ \A n \in 0..(m + 1) : n = m + 1 \/ (n \in 0..m /\ n # m + 1)
        /\ \A n \in 1..m : n - 1 \in 0..m /\ n - 1 # m + 1 /\ n - 1 \in 0..(m + 1)
        /\ \A n \in 0..m : n # 0 => n \in 1..m
        /\ m \in 0..(m + 1) /\ m # m + 1 /\ m + 1 \in 0..(m + 1)
    OBVIOUS
  <2> DEFINE h == [n \in 0..(m + 1) |-> IF n = m + 1 THEN g[m + 1, f[m]] ELSE f[n]]
  <2>2. g[m + 1, f[m]] \in S
    BY <2>1
  <2>3. h \in [0..(m + 1) -> S]
    BY <2>1, <2>2
  <2>4. ASSUME NEW n \in 0..(m + 1)
        PROVE  h[n] = IF n = 0 THEN a ELSE g[n, h[n - 1]]
    <3>1. CASE n = m + 1
      <4>1. h[m] = f[m] /\ h[m + 1] = g[m + 1, f[m]]
        BY <2>1
      <4> HIDE DEF h
      <4> QED BY <2>1, <3>1, <4>1
    <3>2. CASE n # m + 1
      <4>1. n \in 0..m /\ h[n] = f[n]
        BY <2>1, <3>2
      <4>2. f[n] = IF n = 0 THEN a ELSE g[n, f[n - 1]]
        BY <4>1 DEF Folded
      <4>3. n # 0 => h[n - 1] = f[n - 1]
        BY <2>1, <4>1
      <4> HIDE DEF h
      <4> QED BY <4>1, <4>2, <4>3
    <3> QED BY <3>1, <3>2
  <2>5. h = Folded(a, g, h, m + 1)
    <3>1. h = [n \in 0..(m + 1) |-> h[n]]
      OBVIOUS
    <3> HIDE DEF h
    <3> QED BY <2>4, <3>1 DEF Folded
  <2> HIDE DEF h
  <2> QED BY <2>1, <2>3, <2>5
<1>3. N \in I
  <2> HIDE DEF I
  <2> QED BY <1>1, <1>2, UpTo
<1> QED BY <1>3

(* What is typed byte by byte *)
Typing(s, bytes, run) ==
  /\ run \in [0..Len(bytes) -> States] /\ run[0] = s /\ run[Len(bytes)] = TypedAll(s, bytes)
  /\ \A k \in 1..Len(bytes) : run[k] = Typed(run[k - 1], bytes[k])
LEMMA TypedAllIs ==
  ASSUME NEW s \in States, NEW bytes \in Seq(Octet)
  PROVE  TypedAll(s, bytes) \in States /\ \E run : Typing(s, bytes, run)
<1> DEFINE N == Len(bytes)
           g == [p \in (1..N) \X States |-> Typed(p[2], bytes[p[1]])]
           T(f) == [n \in 0..N |-> IF n = 0 THEN s ELSE Typed(f[n - 1], bytes[n])]
<1>1. N \in Nat
  OBVIOUS
<1>2. g \in [(1..N) \X States -> States]
  <2> SUFFICES ASSUME NEW p \in (1..N) \X States PROVE Typed(p[2], bytes[p[1]]) \in States
    OBVIOUS
  <2>1. p[2] \in States /\ bytes[p[1]] \in Octet
    OBVIOUS
  <2> QED BY <2>1, TypedIs
<1>3. PICK f \in [0..N -> States] : f = Folded(s, g, f, N)
  <2> HIDE DEF g, N
  <2> QED BY <1>1, <1>2, FoldExists, ZenonT(60)
<1>4. ASSUME NEW n \in 0..N
      PROVE  f[n] = IF n = 0 THEN s ELSE Typed(f[n - 1], bytes[n])
  <2>1. f[n] = IF n = 0 THEN s ELSE g[n, f[n - 1]]
    <3> HIDE DEF g, N
    <3> QED BY <1>3 DEF Folded
  <2>2. CASE n # 0
    <3>1. n \in 1..N /\ n - 1 \in 0..N
      <4> HIDE DEF N
      <4> QED BY <1>1, <2>2
    <3>2. f[n - 1] \in States
      BY <3>1
    <3>3. g[n, f[n - 1]] = Typed(f[n - 1], bytes[n])
      BY <3>1, <3>2
    <3> HIDE DEF g
    <3> QED BY <2>1, <2>2, <3>3
  <2> QED BY <2>1, <2>2
<1>5. f = T(f)
  <2>1. f = [n \in 0..N |-> f[n]]
    OBVIOUS
  <2> QED BY <1>4, <2>1
<1> DEFINE after == CHOOSE h : h = T(h)
<1>6. after = T(after) /\ TypedAll(s, bytes) = after[N]
  BY <1>5 DEF TypedAll
<1> HIDE DEF after
<1>7. \A n \in 0..N : after[n] = IF n = 0 THEN s ELSE Typed(after[n - 1], bytes[n])
  BY <1>6
<1>8. \A n \in 0..N : after[n] \in States
  <2> DEFINE I == {n \in 0..N : after[n] \in States}
  <2>1. 0 \in I
    BY <1>1, <1>7
  <2>2. ASSUME NEW n \in 0..(N - 1), n \in I
        PROVE  n + 1 \in I
    <3>1. n + 1 \in 0..N /\ n + 1 # 0 /\ (n + 1) - 1 = n /\ n + 1 \in 1..N
      <4> HIDE DEF N
      <4> QED BY <1>1, <2>2
    <3>2. after[n] \in States /\ bytes[n + 1] \in Octet
      BY <2>2, <3>1
    <3>3. after[n + 1] = Typed(after[n], bytes[n + 1])
      BY <1>7, <3>1
    <3> QED BY <3>1, <3>2, <3>3, TypedIs
  <2> TAKE m \in 0..N
  <2> DEFINE J == {n \in 0..m : n \in I}
  <2>3. m \in J
    <3>1. m \in Nat /\ 0 \in J /\ \A n \in 0..(m - 1) : n \in 0..(N - 1) /\ n + 1 \in 0..m /\ n \in 0..m
      <4>1. m \in Nat /\ 0 \in 0..m /\ \A n \in 0..(m - 1) : n \in 0..(N - 1) /\ n + 1 \in 0..m /\ n \in 0..m
        <5> HIDE DEF N
        <5> QED BY <1>1
      <4> QED BY <2>1, <4>1
    <3>2. \A n \in 0..(m - 1) : n \in J => n + 1 \in J
      BY <2>2, <3>1
    <3> HIDE DEF J
    <3> QED BY <3>1, <3>2, UpTo
  <2> QED BY <2>3
<1>9. DOMAIN after = 0..N
  BY <1>6
<1>10. after \in [0..N -> States]
  <2>1. after = [n \in 0..N |-> after[n]]
    BY <1>6
  <2> QED BY <1>8, <2>1
<1>11. 0 \in 0..N /\ N \in 0..N /\ \A k \in 1..N : k \in 0..N /\ k # 0
  <2> HIDE DEF N
  <2> QED BY <1>1
<1>12. Typing(s, bytes, after)
  BY <1>6, <1>7, <1>10, <1>11 DEF Typing
<1> QED BY <1>6, <1>8, <1>11, <1>12

LEMMA RunRest ==
  ASSUME NEW s \in Seq(Octet), NEW t \in Seq(Octet), NEW n, Rest(s, t, n), Settled(s),
         \A k \in Int : At(s, k) => k > n \/ k + 3 <= n, NEW x, NEW z, NEW run, Runs(s, x, z, run)
  PROVE  n \in 0..Len(s) /\ Leads(t, run[n], z)
<1> DEFINE a == Len(s)
           b == Len(t)
           new == [k \in 0..b |-> run[n + k]]
<1>1. a \in Nat /\ b \in Nat /\ a = n + b /\ n \in Nat /\ \A k \in 1..b : t[k] = s[k + n]
  BY DEF Rest
<1>2. /\ \A k \in Int : At(t, k) => At(s, k + n)
      /\ \A k \in Int : At(s, k) /\ k > n => At(t, k - n)
      /\ \A k \in Int : At(t, k) => ModeAt(t, k) = ModeAt(s, k + n)
  BY RestSettled
<1>3. /\ run \in [0..a -> States] /\ run[a] = z
      /\ \A k \in 1..a : run[k] = Took(s, k, run[k - 1])
  BY DEF Runs
<1> HIDE DEF a, b
<1>4. ASSUME NEW k \in 1..b, NEW y
      PROVE  Took(t, k, y) = Took(s, n + k, y)
  <2>1. k \in Int /\ n + k \in Int /\ k - 3 \in Int /\ (n + k) - 3 \in Int /\ (k - 3) + n = (n + k) - 3
        /\ k + n = n + k /\ ((n + k) - 3) - n = k - 3
    BY <1>1, SMTT(30)
  <2>2. (\E i \in (k - 3)..k : At(t, i)) => \E i \in ((n + k) - 3)..(n + k) : At(s, i)
    <3> SUFFICES ASSUME NEW i \in (k - 3)..k, At(t, i)
                 PROVE  \E l \in ((n + k) - 3)..(n + k) : At(s, l)
      OBVIOUS
    <3>1. i \in Int /\ i + n \in ((n + k) - 3)..(n + k)
      BY <1>1, <2>1
    <3> QED BY <1>2, <3>1
  <2>3. (\E i \in ((n + k) - 3)..(n + k) : At(s, i)) => \E i \in (k - 3)..k : At(t, i)
    <3> SUFFICES ASSUME NEW i \in ((n + k) - 3)..(n + k), At(s, i)
                 PROVE  \E l \in (k - 3)..k : At(t, l)
      OBVIOUS
    <3>1. i \in Int /\ i - n \in (k - 3)..k /\ ~(i + 3 <= n)
      BY <1>1, <2>1
    <3>2. i > n
      BY <3>1
    <3> QED BY <1>2, <3>1, <3>2
  <2>4. At(t, k - 3) => At(s, (n + k) - 3) /\ ModeAt(t, k - 3) = ModeAt(s, (n + k) - 3)
    BY <1>2, <2>1
  <2>5. At(s, (n + k) - 3) => At(t, k - 3)
    <3>1. ~(((n + k) - 3) + 3 <= n)
      BY <1>1
    <3> QED BY <1>2, <2>1, <3>1
  <2>6. t[k] = s[n + k]
    BY <1>1, <2>1
  <2> QED BY <2>2, <2>3, <2>4, <2>5, <2>6 DEF Took
<1>5. n \in 0..a /\ \A k \in 0..b : n + k \in 0..a
  BY <1>1
<1>6. new \in [0..b -> States] /\ new[0] = run[n] /\ new[b] = z
  <2>1. 0 \in 0..b /\ b \in 0..b /\ n + 0 = n /\ n + b = a
    BY <1>1
  <2> QED BY <1>3, <1>5, <2>1
<1>7. ASSUME NEW k \in 1..b
      PROVE  new[k] = Took(t, k, new[k - 1])
  <2>1. k \in 0..b /\ k - 1 \in 0..b /\ n + k \in 1..a /\ (n + k) - 1 = n + (k - 1)
    BY <1>1
  <2>2. run[n + k] = Took(s, n + k, run[n + (k - 1)])
    BY <1>3, <2>1
  <2>3. new[k] = run[n + k] /\ new[k - 1] = run[n + (k - 1)]
    BY <2>1
  <2> HIDE DEF new
  <2> QED BY <1>4, <2>2, <2>3
<1> HIDE DEF new
<1>8. Runs(t, run[n], z, new)
  BY <1>6, <1>7 DEF Runs, b
<1> QED BY <1>5, <1>8 DEF Leads, a

(* The reader drops what is not of a mode line. *)
LEMMA BytesDropped ==
  ASSUME NEW s \in Seq(Octet), NEW t \in Seq(Octet), NEW n, Rest(s, t, n), Settled(s),
         \A k \in Int : At(s, k) => k > n, NEW x, x.mode # "writer", NEW z, Leads(s, x, z)
  PROVE  Settled(t) /\ Leads(t, x, z)
<1>1. n \in Nat /\ Len(s) = n + Len(t) /\ Len(t) \in Nat
  BY DEF Rest
<1>2. PICK run : Runs(s, x, z, run)
  BY DEF Leads
<1>3. Settled(t) /\ Leads(t, run[n], z)
  BY <1>2, RestSettled, RunRest
<1> DEFINE I == {k \in 0..n : run[k] = x}
<1>4. 0 \in I
  BY <1>1, <1>2 DEF Runs
<1>5. \A k \in 0..(n - 1) : k \in I => k + 1 \in I
  <2> SUFFICES ASSUME NEW k \in 0..(n - 1), run[k] = x PROVE k + 1 \in 0..n /\ run[k + 1] = x
    OBVIOUS
  <2>1. k + 1 \in 0..n /\ k + 1 \in 1..Len(s) /\ (k + 1) - 1 = k /\ \A i \in ((k + 1) - 3)..(k + 1) : i \in Int /\ ~(i > n)
    <3> DEFINE b == Len(t)
               a == Len(s)
    <3>1. b \in Nat /\ a = n + b /\ n \in Nat
      BY <1>1
    <3> HIDE DEF a, b
    <3>2. k + 1 \in 0..n /\ k + 1 \in 1..a /\ (k + 1) - 1 = k
          /\ \A i \in ((k + 1) - 3)..(k + 1) : i \in Int /\ ~(i > n)
      BY <3>1
    <3> QED BY <3>2 DEF a
  <2>2. run[k + 1] = Took(s, k + 1, x)
    BY <1>2, <2>1 DEF Runs
  <2>3. ~\E i \in ((k + 1) - 3)..(k + 1) : At(s, i)
    BY <2>1
  <2> QED BY <2>1, <2>2, <2>3 DEF Took
<1>6. n \in I
  <2> HIDE DEF I
  <2> QED BY <1>1, <1>4, <1>5, UpTo
<1> QED BY <1>3, <1>6

(* The writer types a byte that is not of a mode line. *)
LEMMA ByteTyped ==
  ASSUME NEW s \in Seq(Octet), NEW t \in Seq(Octet), Rest(s, t, 1), Settled(s),
         \A k \in Int : At(s, k) => k > 1, NEW x, x.mode = "writer", NEW z, Leads(s, x, z)
  PROVE  Settled(t) /\ Leads(t, Typed(x, s[1]), z)
<1>1. Len(s) = 1 + Len(t) /\ Len(t) \in Nat
  BY DEF Rest
<1>2. PICK run : Runs(s, x, z, run)
  BY DEF Leads
<1>3. Settled(t) /\ Leads(t, run[1], z)
  BY <1>2, RestSettled, RunRest
<1>4. run[1] = Took(s, 1, x)
  <2>1. 1 \in 1..Len(s) /\ 1 - 1 = 0
    BY <1>1
  <2> QED BY <1>2, <2>1 DEF Runs
<1>5. ~\E i \in (1 - 3)..1 : At(s, i)
  BY DEF At
<1> QED BY <1>3, <1>4, <1>5 DEF Took

LEMMA LineDropped ==
  ASSUME NEW s \in Seq(Octet), NEW t \in Seq(Octet), Rest(s, t, 4), Settled(s), At(s, 1), ScanCap > 4,
         NEW x, NEW z, Leads(s, x, z)
  PROVE  Settled(t) /\ Leads(t, Switched(x, ModeAt(s, 1)), z)
<1>1. ASSUME NEW k \in Int, At(s, k)
      PROVE  k > 4 \/ k = 1
  <2>1. k >= 1
    BY <1>1 DEF At
  <2>2. k <= 4 => k = 1
    BY <1>1, <2>1, LineKept
  <2> QED BY <2>2
<1>2. Len(s) = 4 + Len(t) /\ Len(t) \in Nat
  BY DEF Rest
<1>3. PICK run : Runs(s, x, z, run)
  BY DEF Leads
<1>4. Settled(t) /\ Leads(t, run[4], z)
  <2>1. \A k \in Int : At(s, k) => k > 4 \/ k + 3 <= 4
    BY <1>1
  <2> QED BY <1>3, <2>1, RestSettled, RunRest
<1>5. /\ 1 \in 1..Len(s) /\ 2 \in 1..Len(s) /\ 3 \in 1..Len(s) /\ 4 \in 1..Len(s)
      /\ 1 - 1 = 0 /\ 2 - 1 = 1 /\ 3 - 1 = 2 /\ 4 - 1 = 3 /\ 4 - 3 = 1
      /\ \A k \in {1, 2, 3} : 1 \in (k - 3)..k /\ ~(k - 3 >= 1)
      /\ 1 \in (4 - 3)..4
  BY <1>2
<1>6. \A k \in {1, 2, 3} : ~At(s, k - 3)
  BY <1>5 DEF At
<1>7. \A k \in {1, 2, 3} : \A y : Took(s, k, y) = y
  BY <1>5, <1>6 DEF Took
<1>8. \A y : Took(s, 4, y) = Switched(y, ModeAt(s, 1))
  BY <1>5 DEF Took
<1>9. run[0] = x /\ \A k \in 1..Len(s) : run[k] = Took(s, k, run[k - 1])
  BY <1>3 DEF Runs
<1>10. run[1] = x /\ run[2] = x /\ run[3] = x
  BY <1>5, <1>7, <1>9
<1>11. run[4] = Took(s, 4, run[3])
  BY <1>5, <1>9
<1> QED BY <1>4, <1>8, <1>10, <1>11

(* What the host sends joins what it sent before *)
Both(s, h, t) ==
  /\ Len(t) = Len(s) + Len(h)
  /\ \A x \in 1..Len(s) : t[x] = s[x]
  /\ \A x \in 1..Len(h) : t[Len(s) + x] = h[x]
LEMMA LinesOfBoth ==
  ASSUME NEW s \in Seq(Octet), NEW h \in Seq(Octet), NEW t \in Seq(Octet), Both(s, h, t), Settled(s),
         ScanCap > 4
  PROVE  /\ \A k \in Int : At(s, k) => At(t, k) /\ ModeAt(t, k) = ModeAt(s, k)
         /\ \A k \in Int : At(h, k) => At(t, Len(s) + k) /\ ModeAt(t, Len(s) + k) = ModeAt(h, k)
         /\ \A k \in Int : At(t, k) => At(s, k) \/ At(h, k - Len(s))
         /\ \A i, j \in Int : Back(s, i, j) => Back(t, i, j) /\ j <= Len(s)
         /\ \A i, j \in Int : Back(h, i, j) => Back(t, Len(s) + i, Len(s) + j)
<1> DEFINE a == Len(s)
           b == Len(h)
           c == Len(t)
<1>1. a \in Nat /\ b \in Nat /\ c \in Nat /\ c = a + b
  BY DEF Both
<1>2. \A x \in 1..a : t[x] = s[x]
  BY DEF Both
<1>3. \A x \in 1..b : t[a + x] = h[x]
  BY DEF Both
<1>4. ASSUME NEW k \in Int, At(s, k)
      PROVE  At(t, k) /\ ModeAt(t, k) = ModeAt(s, k)
  <2>1. k \in 1..a /\ k + 3 <= a
    BY <1>4 DEF At
  <2>2. k - 0 = k /\ k - 0 >= 1 /\ k - 0 + 3 <= c /\ \A x \in k..(k + 3) : x \in 1..a /\ x - 0 = x
    <3> HIDE DEF a, b, c
    <3> QED BY <1>1, <2>1
  <2>3. \A x \in k..(k + 3) : t[x - 0] = s[x]
    BY <1>2, <2>2
  <2>4. At(t, k - 0) /\ ModeAt(t, k - 0) = ModeAt(s, k)
    <3>1. 0 \in Int /\ k - 0 + 3 <= Len(t)
      BY <2>2
    <3> QED BY <1>4, <2>2, <2>3, <3>1, AtMoves
  <2> QED BY <2>2, <2>4
<1>5. ASSUME NEW k \in Int, At(h, k)
      PROVE  At(t, a + k) /\ ModeAt(t, a + k) = ModeAt(h, k)
  <2>1. k \in 1..b /\ k + 3 <= b
    BY <1>5 DEF At
  <2>2. /\ k - (0 - a) = a + k /\ k - (0 - a) >= 1 /\ k - (0 - a) + 3 <= c /\ 0 - a \in Int
        /\ \A x \in k..(k + 3) : x \in 1..b /\ x - (0 - a) = a + x
    <3> HIDE DEF a, b, c
    <3> QED BY <1>1, <2>1
  <2>3. \A x \in k..(k + 3) : t[x - (0 - a)] = h[x]
    BY <1>3, <2>2
  <2>4. At(t, k - (0 - a)) /\ ModeAt(t, k - (0 - a)) = ModeAt(h, k)
    <3>1. k - (0 - a) + 3 <= Len(t)
      BY <2>2
    <3> QED BY <1>5, <2>2, <2>3, <3>1, AtMoves
  <2> QED BY <2>2, <2>4
<1>6. ASSUME NEW k \in Int, At(t, k), k > a
      PROVE  At(h, k - a)
  <2>1. k \in 1..c /\ k + 3 <= c
    BY <1>6 DEF At
  <2>2. /\ k - a >= 1 /\ k - a + 3 <= b /\ a \in Int
        /\ \A x \in k..(k + 3) : x - a \in 1..b /\ a + (x - a) = x
    <3> HIDE DEF a, b, c
    <3> QED BY <1>1, <1>6, <2>1
  <2>3. \A x \in k..(k + 3) : h[x - a] = t[x]
    BY <1>3, <2>2
  <2>4. k - a + 3 <= Len(h)
    BY <2>2
  <2> QED BY <1>6, <2>2, <2>3, <2>4, AtMoves
<1>7. ASSUME NEW i \in Int, NEW j \in Int, Back(s, i, j)
      PROVE  Back(t, i, j) /\ j <= a
  <2>1. i \in 1..a /\ j \in i..a
    BY <1>7 DEF Back
  <2>2. /\ i - 0 = i /\ j - 0 = j /\ i - 0 >= 1 /\ j - 0 <= c /\ j <= a
        /\ \A x \in i..j : x \in 1..a /\ x - 0 = x
    <3> HIDE DEF a, b, c
    <3> QED BY <1>1, <2>1
  <2>3. \A x \in i..j : t[x - 0] = s[x]
    BY <1>2, <2>2
  <2>4. Back(t, i - 0, j - 0)
    <3>1. 0 \in Int /\ j - 0 <= Len(t)
      BY <2>2
    <3> QED BY <1>7, <2>2, <2>3, <3>1, BackMoves
  <2> QED BY <2>2, <2>4
<1>8. ASSUME NEW i \in Int, NEW j \in Int, Back(h, i, j)
      PROVE  Back(t, a + i, a + j)
  <2>1. i \in 1..b /\ j \in i..b
    BY <1>8 DEF Back
  <2>2. /\ i - (0 - a) = a + i /\ j - (0 - a) = a + j /\ i - (0 - a) >= 1 /\ j - (0 - a) <= c
        /\ 0 - a \in Int /\ \A x \in i..j : x \in 1..b /\ x - (0 - a) = a + x
    <3> HIDE DEF a, b, c
    <3> QED BY <1>1, <2>1
  <2>3. \A x \in i..j : t[x - (0 - a)] = h[x]
    BY <1>3, <2>2
  <2>4. Back(t, i - (0 - a), j - (0 - a))
    <3>1. j - (0 - a) <= Len(t)
      BY <2>2
    <3> QED BY <1>8, <2>2, <2>3, <3>1, BackMoves
  <2> QED BY <2>2, <2>4
<1>9. ASSUME NEW k \in Int, At(t, k), k <= a
      PROVE  At(s, k)
  <2>1. k \in 1..a
    <3>1. k \in 1..c
      BY <1>9 DEF At
    <3> HIDE DEF a, b, c
    <3> QED BY <1>9, <3>1
  <2>2. k + 3 <= a
    <3>1. CASE \E l \in Int : At(s, l) /\ l <= k /\ k <= l + 3
      <4>1. PICK l \in Int : At(s, l) /\ l <= k /\ k <= l + 3
        BY <3>1
      <4>2. At(t, l) /\ l + 3 <= a
        BY <1>4, <4>1 DEF At
      <4>3. k = l
        BY <1>9, <4>1, <4>2, LineKept
      <4> QED BY <4>2, <4>3
    <3>2. CASE \E j \in Int : Back(s, k, j)
      BY <1>7, <1>9, <3>2, LineKept
    <3> QED BY <2>1, <3>1, <3>2 DEF Settled
  <2>3. k - 0 = k /\ k - 0 >= 1 /\ k - 0 + 3 <= a /\ \A x \in k..(k + 3) : x \in 1..a /\ x - 0 = x
    <3> HIDE DEF a, b, c
    <3> QED BY <1>1, <2>1, <2>2
  <2>4. \A x \in k..(k + 3) : s[x - 0] = t[x]
    BY <1>2, <2>3
  <2>5. At(s, k - 0)
    <3>1. 0 \in Int /\ k - 0 + 3 <= Len(s)
      BY <2>3
    <3> QED BY <1>9, <2>3, <2>4, <3>1, AtMoves
  <2> QED BY <2>3, <2>5
<1>10. ASSUME NEW k \in Int, At(t, k)
       PROVE  At(s, k) \/ At(h, k - a)
  <2>1. k <= a \/ k > a
    <3> HIDE DEF a
    <3> QED BY <1>1
  <2> QED BY <1>6, <1>9, <1>10, <2>1
<1> QED BY <1>4, <1>5, <1>7, <1>8, <1>10

LEMMA GlitchJoins ==
  ASSUME NEW s \in Seq(Octet), NEW h \in Seq(Octet), NEW t \in Seq(Octet), Both(s, h, t), Settled(s),
         ScanCap > 4, \A i \in 1..Len(h) : \E j \in Int : Back(h, i, j)
  PROVE  Settled(t) /\ \A k \in Int : ~At(h, k)
<1> DEFINE a == Len(s)
<1>1. a \in Nat /\ Len(h) \in Nat /\ Len(t) = a + Len(h)
  BY DEF Both
<1>2. /\ \A k \in Int : At(s, k) => At(t, k) /\ ModeAt(t, k) = ModeAt(s, k)
      /\ \A k \in Int : At(t, k) => At(s, k) \/ At(h, k - a)
      /\ \A i, j \in Int : Back(s, i, j) => Back(t, i, j) /\ j <= a
      /\ \A i, j \in Int : Back(h, i, j) => Back(t, a + i, a + j)
  BY LinesOfBoth
<1>3. ASSUME NEW k \in Int, At(h, k)
      PROVE  FALSE
  <2>1. k \in 1..Len(h)
    BY <1>3 DEF At
  <2> QED BY <1>3, <2>1, LineKept
<1>4. \A k \in Int : At(t, k) => At(s, k) /\ k <= a /\ ModeAt(t, k) = ModeAt(s, k)
  <2> TAKE k \in Int
  <2> HAVE At(t, k)
  <2>1. k - a \in Int
    <3> HIDE DEF a
    <3> QED BY <1>1
  <2>2. At(s, k)
    BY <1>2, <1>3, <2>1
  <2>3. k <= a
    BY <2>2 DEF At
  <2> QED BY <1>2, <2>2, <2>3
<1>5. ASSUME NEW i \in 1..Len(t)
      PROVE  \/ \E k \in Int : At(t, k) /\ k <= i /\ i <= k + 3
             \/ \E j \in Int : Back(t, i, j) /\ \A k \in i..j : ~At(t, k)
  <2>1. i \in 1..a \/ (i - a \in 1..Len(h) /\ a + (i - a) = i /\ i > a)
    <3> DEFINE b == Len(h)
    <3>1. i \in 1..(a + b) /\ a \in Nat /\ b \in Nat
      BY <1>1
    <3> HIDE DEF a, b
    <3>2. i \in 1..a \/ (i - a \in 1..b /\ a + (i - a) = i /\ i > a)
      BY <3>1
    <3> QED BY <3>2 DEF b
  <2>2. CASE i \in 1..a
    <3>1. CASE \E k \in Int : At(s, k) /\ k <= i /\ i <= k + 3
      BY <1>2, <3>1
    <3>2. CASE \E j \in Int : Back(s, i, j) /\ \A k \in i..j : ~At(s, k)
      BY <1>2, <1>4, <3>2
    <3> QED BY <2>2, <3>1, <3>2 DEF Settled
  <2>3. CASE i - a \in 1..Len(h) /\ a + (i - a) = i /\ i > a
    <3>1. PICK j \in Int : Back(h, i - a, j)
      BY <2>3
    <3>2. Back(t, i, a + j) /\ a + j \in Int
      <4>1. i - a \in Int
        BY <2>3
      <4>2. Back(t, a + (i - a), a + j)
        BY <1>2, <3>1, <4>1
      <4>3. a + j \in Int
        <5> HIDE DEF a
        <5> QED BY <1>1
      <4> QED BY <2>3, <4>2, <4>3
    <3>3. \A k \in i..(a + j) : ~At(t, k)
      <4> TAKE k \in i..(a + j)
      <4>1. k \in Int /\ ~(k <= a)
        <5>1. i > a /\ i \in Int /\ a \in Nat
          BY <1>1, <2>3
        <5> HIDE DEF a
        <5> QED BY <5>1
      <4> QED BY <1>4, <4>1
    <3> QED BY <3>2, <3>3
  <2> QED BY <2>1, <2>2, <2>3
<1> QED BY <1>3, <1>5 DEF Settled

LEMMA LineJoins ==
  ASSUME NEW s \in Seq(Octet), NEW h \in Seq(Octet), NEW t \in Seq(Octet), Both(s, h, t), Settled(s),
         ScanCap > 4, Len(h) = 4, Spells(h, 1)
  PROVE  Settled(t)
<1> DEFINE a == Len(s)
<1>1. a \in Nat /\ Len(t) = a + 4
  BY DEF Both
<1>2. /\ \A k \in Int : At(s, k) => At(t, k)
      /\ \A k \in Int : At(h, k) => At(t, a + k) /\ ModeAt(t, a + k) = ModeAt(h, k)
      /\ \A i, j \in Int : Back(s, i, j) => Back(t, i, j) /\ j <= a
  BY LinesOfBoth
<1>3. At(t, a + 1) /\ ModeAt(t, a + 1) = ModeAt(h, 1) /\ a + 1 \in Int
  <2>1. At(h, 1)
    BY DEF At
  <2>2. a + 1 \in Int
    <3> HIDE DEF a
    <3> QED BY <1>1
  <2> QED BY <1>2, <2>1, <2>2
<1>4. ASSUME NEW i \in 1..Len(t)
      PROVE  \/ \E k \in Int : At(t, k) /\ k <= i /\ i <= k + 3
             \/ \E j \in Int : Back(t, i, j) /\ \A k \in i..j : ~At(t, k)
  <2>1. i \in 1..a \/ (a + 1 <= i /\ i <= (a + 1) + 3)
    <3>1. i \in 1..(a + 4)
      BY <1>1
    <3> HIDE DEF a
    <3> QED BY <1>1, <3>1
  <2>2. CASE i \in 1..a
    <3>1. CASE \E k \in Int : At(s, k) /\ k <= i /\ i <= k + 3
      BY <1>2, <3>1
    <3>2. CASE \E j \in Int : Back(s, i, j) /\ \A k \in i..j : ~At(s, k)
      <4>1. PICK j \in Int : Back(s, i, j) /\ \A k \in i..j : ~At(s, k)
        BY <3>2
      <4>2. Back(t, i, j) /\ j <= a /\ i \in Int
        BY <1>2, <2>2, <4>1
      <4>3. \A k \in i..j : ~At(t, k)
        <5> TAKE k \in i..j
        <5>1. k \in Int /\ k <= a /\ ~(k - a >= 1)
          <6> HIDE DEF a
          <6> QED BY <1>1, <4>2
        <5>2. ~At(h, k - a)
          BY <5>1 DEF At
        <5> QED BY <4>1, <5>1, <5>2, LinesOfBoth
      <4> QED BY <4>2, <4>3
    <3> QED BY <2>2, <3>1, <3>2 DEF Settled
  <2> QED BY <1>3, <2>1, <2>2
<1> QED BY <1>4 DEF Settled

LEMMA TypedKeeps ==
  ASSUME NEW s \in States, NEW ch \in Octet
  PROVE  /\ Typed(s, ch).scan = s.scan /\ Typed(s, ch).mode = s.mode
         /\ Bare(Typed(s, ch)) = Typed(Bare(s), ch)
<1>1. ASSUME NEW r
      PROVE  /\ Closed(s, r).scan = s.scan /\ Closed(s, r).mode = s.mode
             /\ Bare(Closed(s, r)) = Closed(Bare(s), r)
  <2>1. PICK x : x = r.cfg
    OBVIOUS
  <2>2. PICK y : y = IF r.ok THEN Append(s.said, ShownBy(BuildNdefMessage(r.cfg))) ELSE s.said
    OBVIOUS
  <2>3. Closed(s, r) = [s EXCEPT !.line = <<>>, !.over = FALSE, !.cfg = x, !.said = y]
    BY <2>1, <2>2 DEF Closed, States
  <2>4. Closed(Bare(s), r) = [Bare(s) EXCEPT !.line = <<>>, !.over = FALSE, !.cfg = x, !.said = y]
    <3>1. Bare(s) \in States /\ Bare(s).said = s.said
      BY BareIs
    <3> QED BY <2>1, <2>2, <3>1 DEF Closed, States
  <2>5. Closed(s, r).scan = s.scan /\ Closed(s, r).mode = s.mode
    BY <2>3 DEF States
  <2>6. Bare(Closed(s, r)) = Closed(Bare(s), r)
    BY <2>3, <2>4 DEF States, Bare
  <2> QED BY <2>5, <2>6
<1>2. /\ Bare(s).line = s.line /\ Bare(s).over = s.over /\ Bare(s).cfg = s.cfg
      /\ Bare(s) \in States
  BY BareIs DEF States, Bare
<1>3. CASE ch \in {"CR", "LF"}
  BY <1>1, <1>2, <1>3 DEF Typed
<1>4. CASE ch = "CTL"
  BY <1>4 DEF Typed
<1>5. CASE ch \notin {"CR", "LF", "CTL"}
  <2>1. PICK x : x = Append(s.line, ch)
    OBVIOUS
  <2>2. /\ Typed(s, ch) = IF Len(s.line) < LineCap - 1 THEN [s EXCEPT !.line = x] ELSE [s EXCEPT !.over = TRUE]
        /\ Typed(Bare(s), ch) = IF Len(s.line) < LineCap - 1 THEN [Bare(s) EXCEPT !.line = x]
                                ELSE [Bare(s) EXCEPT !.over = TRUE]
    <3>1. Typed(s, ch) = IF Len(s.line) < LineCap - 1 THEN [s EXCEPT !.line = x] ELSE [s EXCEPT !.over = TRUE]
      BY <1>5, <2>1 DEF Typed, States
    <3>2. Typed(Bare(s), ch) = IF Len(s.line) < LineCap - 1 THEN [Bare(s) EXCEPT !.line = x]
                               ELSE [Bare(s) EXCEPT !.over = TRUE]
      BY <1>2, <1>5, <2>1 DEF Typed, States
    <3> QED BY <3>1, <3>2
  <2>3. CASE Len(s.line) < LineCap - 1
    BY <2>2, <2>3 DEF States, Bare
  <2>4. CASE ~(Len(s.line) < LineCap - 1)
    BY <2>2, <2>4 DEF States, Bare
  <2> QED BY <2>3, <2>4
<1> QED BY <1>3, <1>4, <1>5

LEMMA RunJoins ==
  ASSUME NEW s \in Seq(Octet), NEW h \in Seq(Octet), NEW t \in Seq(Octet), Both(s, h, t), Settled(s),
         ScanCap > 4, NEW x, NEW y, NEW z, Leads(s, x, y), Leads(h, y, z)
  PROVE  Leads(t, x, z)
<1> DEFINE a == Len(s)
           b == Len(h)
           c == Len(t)
<1>1. a \in Nat /\ b \in Nat /\ c = a + b
  BY DEF Both
<1>2. /\ \A k \in Int : At(s, k) => At(t, k) /\ ModeAt(t, k) = ModeAt(s, k)
      /\ \A k \in Int : At(h, k) => At(t, a + k) /\ ModeAt(t, a + k) = ModeAt(h, k)
      /\ \A k \in Int : At(t, k) => At(s, k) \/ At(h, k - a)
  BY LinesOfBoth
<1>3. /\ \A k \in Int : At(s, k) => k + 3 <= a
      /\ \A k \in Int : At(h, k) => k >= 1
  BY DEF At
<1>4. PICK f : Runs(s, x, y, f)
  BY DEF Leads
<1>5. PICK g : Runs(h, y, z, g)
  BY DEF Leads
<1>6. /\ f \in [0..a -> States] /\ f[0] = x /\ f[a] = y
      /\ \A k \in 1..a : f[k] = Took(s, k, f[k - 1])
  BY <1>4 DEF Runs
<1>7. /\ g \in [0..b -> States] /\ g[0] = y /\ g[b] = z
      /\ \A k \in 1..b : g[k] = Took(h, k, g[k - 1])
  BY <1>5 DEF Runs
<1>8. (\A k \in 1..a : t[k] = s[k]) /\ (\A k \in 1..b : t[a + k] = h[k])
  BY DEF Both
<1> DEFINE new == [k \in 0..c |-> IF k <= a THEN f[k] ELSE g[k - a]]
<1> HIDE DEF a, b, c
<1>9. ASSUME NEW k \in 1..a, NEW u
      PROVE  Took(t, k, u) = Took(s, k, u)
  <2>1. ASSUME NEW i \in Int, i <= k
        PROVE  At(t, i) <=> At(s, i)
    <3>1. i - a \in Int /\ ~(i - a >= 1)
      BY <1>1, <2>1
    <3> QED BY <1>2, <1>3, <3>1
  <2>2. /\ \A i \in (k - 3)..k : i \in Int /\ i <= k
        /\ k - 3 \in Int /\ k - 3 <= k
    OBVIOUS
  <2>3. At(s, k - 3) => ModeAt(t, k - 3) = ModeAt(s, k - 3)
    BY <1>2, <2>2
  <2>4. t[k] = s[k]
    BY <1>8
  <2>5. (\E i \in (k - 3)..k : At(t, i)) <=> (\E i \in (k - 3)..k : At(s, i))
    BY <2>1, <2>2
  <2>6. At(t, k - 3) <=> At(s, k - 3)
    BY <2>1, <2>2
  <2> QED BY <2>3, <2>4, <2>5, <2>6 DEF Took
<1>10. ASSUME NEW k \in 1..b, NEW u
       PROVE  Took(t, a + k, u) = Took(h, k, u)
  <2>1. ASSUME NEW i \in Int, i >= (a + k) - 3
        PROVE  At(t, i) <=> At(h, i - a)
    <3>1. i - a \in Int /\ a + (i - a) = i /\ ~(i + 3 <= a)
      BY <1>1, <2>1
    <3>2. ~At(s, i)
      BY <1>3, <3>1
    <3>3. At(h, i - a) => At(t, i)
      BY <1>2, <3>1
    <3> QED BY <1>2, <3>2, <3>3
  <2>2. /\ \A i \in ((a + k) - 3)..(a + k) : i \in Int /\ i >= (a + k) - 3 /\ i - a \in (k - 3)..k
        /\ \A i \in (k - 3)..k : /\ i + a \in Int /\ i + a >= (a + k) - 3
                                 /\ i + a \in ((a + k) - 3)..(a + k) /\ (i + a) - a = i
        /\ (a + k) - 3 \in Int /\ (a + k) - 3 >= (a + k) - 3 /\ ((a + k) - 3) - a = k - 3
        /\ k - 3 \in Int /\ a + (k - 3) = (a + k) - 3
    BY <1>1
  <2>3. At(h, k - 3) => ModeAt(t, (a + k) - 3) = ModeAt(h, k - 3)
    BY <1>2, <2>2
  <2>4. t[a + k] = h[k]
    BY <1>8
  <2>5. (\E i \in ((a + k) - 3)..(a + k) : At(t, i)) => (\E i \in (k - 3)..k : At(h, i))
    BY <2>1, <2>2
  <2>6. (\E i \in (k - 3)..k : At(h, i)) => \E i \in ((a + k) - 3)..(a + k) : At(t, i)
    <3> SUFFICES ASSUME NEW i \in (k - 3)..k, At(h, i)
                 PROVE  \E l \in ((a + k) - 3)..(a + k) : At(t, l)
      OBVIOUS
    <3>1. /\ i + a \in Int /\ i + a >= (a + k) - 3 /\ i + a \in ((a + k) - 3)..(a + k)
          /\ (i + a) - a = i
      BY <2>2
    <3>2. At(t, i + a)
      BY <2>1, <3>1
    <3> QED BY <3>1, <3>2
  <2>7. At(t, (a + k) - 3) <=> At(h, k - 3)
    BY <2>1, <2>2
  <2> QED BY <2>3, <2>4, <2>5, <2>6, <2>7 DEF Took
<1>11. new \in [0..c -> States] /\ new[0] = x /\ new[c] = z
  <2>1. ASSUME NEW k \in 0..c
        PROVE  (k <= a => k \in 0..a) /\ (~(k <= a) => k - a \in 0..b)
    BY <1>1
  <2>2. new \in [0..c -> States]
    BY <1>6, <1>7, <2>1
  <2>3. 0 \in 0..c /\ 0 <= a /\ c \in 0..c /\ c - a = b /\ (c <= a => b = 0 /\ c = a)
    BY <1>1
  <2> QED BY <1>6, <1>7, <2>2, <2>3
<1>12. ASSUME NEW k \in 1..c
       PROVE  new[k] = Took(t, k, new[k - 1])
  <2>1. CASE k <= a
    <3>1. k \in 1..a /\ k \in 0..c /\ k - 1 \in 0..c /\ k - 1 <= a
      BY <1>1, <2>1
    <3>2. new[k] = f[k] /\ new[k - 1] = f[k - 1]
      BY <2>1, <3>1
    <3> HIDE DEF new
    <3> QED BY <1>6, <1>9, <3>1, <3>2
  <2>2. CASE ~(k <= a)
    <3>1. /\ k - a \in 1..b /\ a + (k - a) = k /\ k \in 0..c /\ k - 1 \in 0..c
          /\ (k - 1) - a = (k - a) - 1 /\ (k - 1 <= a => k - 1 = a /\ (k - a) - 1 = 0)
      BY <1>1, <2>2
    <3>2. new[k] = g[k - a]
      BY <2>2, <3>1
    <3>3. new[k - 1] = g[(k - a) - 1]
      <4>1. CASE k - 1 <= a
        BY <1>6, <1>7, <3>1, <4>1
      <4>2. CASE ~(k - 1 <= a)
        BY <3>1, <4>2
      <4> QED BY <4>1, <4>2
    <3>4. g[k - a] = Took(h, k - a, g[(k - a) - 1])
      BY <1>7, <3>1
    <3>5. Took(t, a + (k - a), new[k - 1]) = Took(h, k - a, new[k - 1])
      BY <1>10, <3>1
    <3> HIDE DEF new
    <3> QED BY <3>1, <3>2, <3>3, <3>4, <3>5
  <2> QED BY <2>1, <2>2
<1> HIDE DEF new
<1>13. Runs(t, x, z, new)
  BY <1>11, <1>12 DEF Runs, c
<1> QED BY <1>13 DEF Leads

(* Typing does not change the mode. *)
LEMMA TypingMode ==
  ASSUME NEW s \in States, NEW h \in Seq(Octet), NEW run, Typing(s, h, run)
  PROVE  \A k \in 0..Len(h) : run[k].mode = s.mode
<1> DEFINE b == Len(h)
<1>1. b \in Nat
  OBVIOUS
<1>2. /\ run \in [0..b -> States] /\ run[0] = s /\ \A k \in 1..b : run[k] = Typed(run[k - 1], h[k])
  BY DEF Typing
<1> SUFFICES ASSUME NEW m \in 0..b PROVE run[m].mode = s.mode
  OBVIOUS
<1> HIDE DEF b
<1> DEFINE J == {n \in 0..m : run[n].mode = s.mode}
<1>3. m \in Nat /\ 0 \in J
  BY <1>1, <1>2
<1>4. ASSUME NEW n \in 0..(m - 1), n \in J
      PROVE  n + 1 \in J
  <2>1. n + 1 \in 0..m /\ n + 1 \in 0..b /\ n + 1 \in 1..b /\ n \in 0..b /\ (n + 1) - 1 = n
    BY <1>1, <1>4
  <2>2. h[n + 1] \in Octet /\ run[n] \in States /\ run[n + 1] = Typed(run[n], h[n + 1])
    BY <1>2, <2>1 DEF b
  <2>3. run[n].mode = s.mode
    BY <1>4
  <2>4. run[n + 1].mode = s.mode
    BY <2>2, <2>3, TypedKeeps
  <2> QED BY <2>1, <2>4
<1>5. m \in J
  <2> HIDE DEF J
  <2> QED BY <1>3, <1>4, UpTo
<1> QED BY <1>5

LEMMA TypedAllMode ==
  ASSUME NEW s \in States, NEW h \in Seq(Octet)
  PROVE  TypedAll(s, h).mode = s.mode
<1>1. PICK run : Typing(s, h, run)
  BY TypedAllIs
<1>2. Len(h) \in 0..Len(h) /\ run[Len(h)] = TypedAll(s, h)
  BY <1>1 DEF Typing
<1> QED BY <1>1, <1>2, TypingMode

(* What the host sends at a time, by itself *)
LEMMA GlitchLeads ==
  ASSUME NEW h \in Seq(Octet), \A k \in Int : ~At(h, k), NEW z \in States
  PROVE  Leads(h, z, IF z.mode = "writer" THEN TypedAll(z, h) ELSE z)
<1> DEFINE b == Len(h)
<1>1. b \in Nat
  OBVIOUS
<1>2. ASSUME NEW k \in Int, NEW y
      PROVE  Took(h, k, y) = IF y.mode = "writer" THEN Typed(y, h[k]) ELSE y
  <2>1. ~\E i \in (k - 3)..k : At(h, i)
    OBVIOUS
  <2> QED BY <2>1 DEF Took
<1>3. CASE z.mode = "writer"
  <2>1. PICK run : Typing(z, h, run)
    BY TypedAllIs
  <2>2. /\ run \in [0..b -> States] /\ run[0] = z /\ run[b] = TypedAll(z, h)
        /\ \A k \in 1..b : run[k] = Typed(run[k - 1], h[k])
    BY <2>1 DEF Typing
  <2>3. \A k \in 0..b : run[k].mode = "writer"
    BY <1>3, <2>1, TypingMode
  <2> HIDE DEF b
  <2>4. ASSUME NEW k \in 1..b
        PROVE  run[k] = Took(h, k, run[k - 1])
    <3>1. k - 1 \in 0..b /\ k \in Int
      BY <1>1
    <3>2. run[k - 1].mode = "writer"
      BY <2>3, <3>1
    <3> QED BY <1>2, <2>2, <3>1, <3>2
  <2>5. Runs(h, z, TypedAll(z, h), run)
    BY <2>2, <2>4 DEF Runs, b
  <2> QED BY <1>3, <2>5 DEF Leads
<1>4. CASE z.mode # "writer"
  <2> DEFINE run == [k \in 0..b |-> z]
  <2>1. run \in [0..b -> States] /\ \A k \in 0..b : run[k] = z
    OBVIOUS
  <2>2. 0 \in 0..b /\ b \in 0..b /\ \A k \in 1..b : k \in 0..b /\ k - 1 \in 0..b /\ k \in Int
    <3> HIDE DEF b
    <3> QED BY <1>1
  <2> HIDE DEF run
  <2>3. \A k \in 1..b : run[k] = Took(h, k, run[k - 1])
    BY <1>2, <1>4, <2>1, <2>2
  <2>4. Runs(h, z, z, run)
    BY <2>1, <2>2, <2>3 DEF Runs
  <2> QED BY <1>4, <2>4 DEF Leads
<1> QED BY <1>3, <1>4

LEMMA LineLeads ==
  ASSUME NEW h \in Seq(Octet), Len(h) = 4, Spells(h, 1), NEW z \in States
  PROVE  Leads(h, z, Switched(z, ModeAt(h, 1)))
<1> DEFINE x == Switched(z, ModeAt(h, 1))
           run == [k \in 0..4 |-> IF k = 4 THEN x ELSE z]
<1>1. x \in States
  <2>1. ModeAt(h, 1) \in BothModes
    BY DEF ModeAt, BothModes
  <2> QED BY <2>1, SwitchedIs
<1>2. At(h, 1)
  BY DEF At
<1>3. /\ \A k \in {1, 2, 3} : 1 \in (k - 3)..k /\ ~(k - 3 >= 1)
      /\ 1 \in (4 - 3)..4 /\ 4 - 3 = 1
  OBVIOUS
<1>4. \A k \in {1, 2, 3} : ~At(h, k - 3)
  BY <1>3 DEF At
<1>5. \A k \in {1, 2, 3} : \A y : Took(h, k, y) = y
  BY <1>2, <1>3, <1>4 DEF Took
<1>6. \A y : Took(h, 4, y) = Switched(y, ModeAt(h, 1))
  BY <1>2, <1>3 DEF Took
<1> HIDE DEF x
<1>7. run \in [0..4 -> States] /\ \A k \in 0..4 : run[k] = IF k = 4 THEN x ELSE z
  BY <1>1
<1>8. 0 \in 0..4 /\ 4 \in 0..4 /\ \A k \in 1..4 : (k \in {1, 2, 3} \/ k = 4) /\ k \in 0..4 /\ k - 1 \in 0..4 /\ k - 1 # 4
  OBVIOUS
<1> HIDE DEF run
<1>9. \A k \in 1..4 : run[k] = Took(h, k, run[k - 1])
  BY <1>5, <1>6, <1>7, <1>8 DEF x
<1>10. Runs(h, z, x, run)
  BY <1>7, <1>8, <1>9 DEF Runs
<1> QED BY <1>10 DEF Leads, x

(* What the scanner does with a byte, by what it holds *)
Spelt(held) == Len(held) = 3 /\ held[1] = "m" /\ held[2] = "_" /\ held[3] \in {"R", "W"}
HeldBack(n, ch) == ch \notin {"CR", "LF"} /\ n + 1 < ScanCap - 1 /\ (n = 0 => ch = "m") /\ (n = 1 => ch = "_")
FedAs(f, held, found, back) == f.scan = held /\ f.mode = found /\ f.back = back
LEMMA KeepIs ==
  ASSUME NEW x
  PROVE  FedAs([scan |-> x, mode |-> "", back |-> <<>>], x, "", <<>>)
BY DEF FedAs
LEMMA FedSays ==
  ASSUME NEW held \in Seq(Octet), NEW ch \in Octet
  PROVE  /\ ch = "CR" => FedAs(Fed(held, ch), held, "", <<>>)
         /\ ch = "LF" /\ Spelt(held)
              => FedAs(Fed(held, ch), <<>>, IF held[3] = "W" THEN "writer" ELSE "reader", <<>>)
         /\ ch = "LF" /\ ~Spelt(held) => FedAs(Fed(held, ch), <<>>, "", Append(held, ch))
         /\ HeldBack(Len(held), ch) => FedAs(Fed(held, ch), Append(held, ch), "", <<>>)
         /\ ch \notin {"CR", "LF"} /\ ~HeldBack(Len(held), ch)
              => FedAs(Fed(held, ch), <<>>, "", Append(held, ch))
<1> DEFINE keep(x) == [scan |-> x, mode |-> "", back |-> <<>>]
           all == Append(held, ch)
           n == Len(held)
<1>1. n \in Nat /\ Len(all) = n + 1
  OBVIOUS
<1>2. /\ ModeLine("writer") = <<"m", "_", "W">> /\ ModeLine("reader") = <<"m", "_", "R">>
      /\ ModeLine("reader")[1] = "m" /\ ModeLine("reader")[2] = "_"
  BY DEF ModeLine
<1>3. /\ Spelt(held) <=> \E m \in {"reader", "writer"} : held = ModeLine(m)
      /\ Spelt(held) => (held[3] = "W" <=> held = ModeLine("writer"))
  <2> DEFINE w == <<"m", "_", "W">>
             r == <<"m", "_", "R">>
             S == Octet \cup {"m", "_", "W", "R"}
  <2>a. w \in Seq(S) /\ Len(w) = 3 /\ w[1] = "m" /\ w[2] = "_" /\ w[3] = "W"
    OBVIOUS
  <2>b. r \in Seq(S) /\ Len(r) = 3 /\ r[1] = "m" /\ r[2] = "_" /\ r[3] = "R"
    OBVIOUS
  <2>c. held \in Seq(S)
    <3>1. Octet \subseteq S
      OBVIOUS
    <3> HIDE DEF S
    <3> QED BY <3>1
  <2>d. \A x \in 1..3 : x = 1 \/ x = 2 \/ x = 3
    OBVIOUS
  <2> HIDE DEF S, w, r
  <2>1. ASSUME Spelt(held), held[3] = "W" PROVE held = w
    <3>1. Len(held) = Len(w) /\ \A x \in 1..Len(held) : held[x] = w[x]
      BY <2>1, <2>a, <2>d DEF Spelt
    <3> QED BY <2>a, <2>c, <3>1, SameSeq
  <2>2. ASSUME Spelt(held), held[3] = "R" PROVE held = r
    <3>1. Len(held) = Len(r) /\ \A x \in 1..Len(held) : held[x] = r[x]
      BY <2>2, <2>b, <2>d DEF Spelt
    <3> QED BY <2>b, <2>c, <3>1, SameSeq
  <2>3. held = w => Spelt(held) /\ held[3] = "W"
    BY <2>a DEF Spelt
  <2>4. held = r => Spelt(held) /\ held[3] = "R"
    BY <2>b DEF Spelt
  <2>5. Spelt(held) => held[3] = "R" \/ held[3] = "W"
    BY DEF Spelt
  <2>6. ModeLine("writer") = w /\ ModeLine("reader") = r
    BY <1>2 DEF w, r
  <2>7. "W" # "R"
    OBVIOUS
  <2> QED BY <2>1, <2>2, <2>3, <2>4, <2>5, <2>6, <2>7
<1>4. CASE ch = "CR"
  <2>1. Fed(held, ch) = keep(held)
    BY <1>4 DEF Fed
  <2>2. FedAs(Fed(held, ch), held, "", <<>>)
    BY <2>1, KeepIs
  <2>3. ~HeldBack(Len(held), ch) /\ ch # "LF" /\ ~(ch \notin {"CR", "LF"})
    BY <1>4 DEF HeldBack
  <2> QED BY <2>2, <2>3
<1>5. CASE ch = "LF"
  <2>1. ~HeldBack(n, ch) /\ ch # "CR"
    BY <1>5 DEF HeldBack
  <2>2. CASE Spelt(held)
    <3>1. Fed(held, ch) = [keep(<<>>) EXCEPT !.mode = IF held = ModeLine("writer") THEN "writer" ELSE "reader"]
      BY <1>3, <1>5, <2>2 DEF Fed
    <3>2. FedAs(Fed(held, ch), <<>>, IF held[3] = "W" THEN "writer" ELSE "reader", <<>>)
      BY <1>3, <2>2, <3>1 DEF FedAs
    <3> QED BY <1>5, <2>1, <2>2, <3>2
  <2>3. CASE ~Spelt(held)
    <3>1. Fed(held, ch) = [keep(<<>>) EXCEPT !.back = all]
      BY <1>3, <1>5, <2>3 DEF Fed
    <3>2. FedAs(Fed(held, ch), <<>>, "", all)
      BY <3>1 DEF FedAs
    <3> QED BY <1>5, <2>1, <2>3, <3>2
  <2> QED BY <2>2, <2>3
<1>6. CASE ch \notin {"CR", "LF"}
  <2>1. (n < 2 /\ ch # ModeLine("reader")[Len(all)]) \/ Len(all) >= ScanCap - 1 <=> ~HeldBack(n, ch)
    <3>1. n = 0 => Len(all) = 1
      BY <1>1
    <3>2. n = 1 => Len(all) = 2
      BY <1>1
    <3>3. n < 2 <=> n = 0 \/ n = 1
      <4> HIDE DEF n
      <4> QED BY <1>1
    <3>4. Len(all) >= ScanCap - 1 <=> ~(n + 1 < ScanCap - 1)
      BY <1>1, ConsoleSizesAssumption
    <3> HIDE DEF all, n
    <3> QED BY <1>2, <1>6, <3>1, <3>2, <3>3, <3>4 DEF HeldBack
  <2>2. CASE HeldBack(Len(held), ch)
    <3>1. Fed(held, ch) = keep(all)
      BY <1>6, <2>1, <2>2 DEF Fed
    <3>2. FedAs(Fed(held, ch), Append(held, ch), "", <<>>)
      BY <3>1, KeepIs
    <3> QED BY <1>6, <2>2, <3>2
  <2>3. CASE ~HeldBack(Len(held), ch)
    <3>1. Fed(held, ch) = [keep(<<>>) EXCEPT !.back = all]
      BY <1>6, <2>1, <2>3 DEF Fed
    <3>2. FedAs(Fed(held, ch), <<>>, "", Append(held, ch))
      BY <3>1 DEF FedAs
    <3> QED BY <1>6, <2>3, <3>2
  <2> QED BY <2>2, <2>3
<1> QED BY <1>4, <1>5, <1>6

(* What the host may send, on the index of its bytes *)
LEMMA JoinIs ==
  ASSUME NEW S, NEW a \in Seq(S), NEW b \in Seq(S)
  PROVE  /\ a \o b \in Seq(S) /\ Len(a \o b) = Len(a) + Len(b)
         /\ \A x \in 1..Len(a) : (a \o b)[x] = a[x]
         /\ \A x \in 1..Len(b) : (a \o b)[Len(a) + x] = b[x]
OBVIOUS

LEMMA Longer ==
  ASSUME NEW S, NEW w \in Seq(S), NEW e \in Seq(S), Len(w) = 3, Len(e) = 1
  PROVE  /\ Len(w \o e) = 4 /\ (w \o e)[1] = w[1] /\ (w \o e)[2] = w[2] /\ (w \o e)[3] = w[3]
         /\ (w \o e)[4] = e[1]
<1>1. /\ Len(w \o e) = Len(w) + Len(e)
      /\ \A x \in 1..Len(w) : (w \o e)[x] = w[x]
      /\ \A x \in 1..Len(e) : (w \o e)[Len(w) + x] = e[x]
  BY JoinIs, SMTT(30)
<1>2. 1 \in 1..3 /\ 2 \in 1..3 /\ 3 \in 1..3 /\ 1 \in 1..1 /\ 3 + 1 = 4
  OBVIOUS
<1> QED BY <1>1, <1>2

LEMMA ModeLineIs ==
  ASSUME NEW h \in ModeLines
  PROVE  /\ Len(h) = 4 /\ Spells(h, 1)
         /\ ModeAt(h, 1) = IF h = ModeLine("writer") \o <<"LF">> THEN "writer" ELSE "reader"
<1> DEFINE S == {"m", "_", "W", "R", "LF"}
           w == ModeLine("writer")
           r == ModeLine("reader")
           e == <<"LF">>
<1>1. w \in Seq(S) /\ Len(w) = 3 /\ w[1] = "m" /\ w[2] = "_" /\ w[3] = "W"
  BY DEF ModeLine
<1>2. r \in Seq(S) /\ Len(r) = 3 /\ r[1] = "m" /\ r[2] = "_" /\ r[3] = "R"
  BY DEF ModeLine
<1>3. e \in Seq(S) /\ Len(e) = 1 /\ e[1] = "LF"
  OBVIOUS
<1>4. h = w \o e \/ h = r \o e
  BY DEF ModeLines
<1> HIDE DEF S, w, r, e
<1>5. /\ Len(w \o e) = 4 /\ (w \o e)[1] = "m" /\ (w \o e)[2] = "_" /\ (w \o e)[3] = "W"
      /\ (w \o e)[4] = "LF"
  BY <1>1, <1>3, Longer, ZenonT(60)
<1>6. /\ Len(r \o e) = 4 /\ (r \o e)[1] = "m" /\ (r \o e)[2] = "_" /\ (r \o e)[3] = "R"
      /\ (r \o e)[4] = "LF"
  BY <1>2, <1>3, Longer, ZenonT(60)
<1>0. 1 + 1 = 2 /\ 1 + 2 = 3 /\ 1 + 3 = 4
  OBVIOUS
<1>7. CASE h = w \o e
  <2>1. h[1] = "m" /\ h[1 + 1] = "_" /\ h[1 + 2] = "W" /\ h[1 + 3] = "LF" /\ Len(h) = 4
    BY <1>0, <1>5, <1>7
  <2> QED BY <1>7, <2>1 DEF Spells, ModeAt, w, e
<1>8. CASE h = r \o e
  <2>1. h[3] # "W" /\ h # w \o e
    BY <1>5, <1>6, <1>8
  <2>2. h[1] = "m" /\ h[1 + 1] = "_" /\ h[1 + 2] = "R" /\ h[1 + 3] = "LF" /\ Len(h) = 4
    BY <1>0, <1>6, <1>8
  <2> QED BY <2>1, <2>2 DEF Spells, ModeAt, w, e
<1> QED BY <1>4, <1>7, <1>8

LEMMA ReturnedIs ==
  ASSUME NEW h \in Seq(Octet), NEW i \in 1..Len(h), NEW j \in i..Len(h), Returned(h, i, j)
  PROVE  Back(h, i, j)
<1> DEFINE held(k) == SubSeq(h, i, k - 1)
<1>1. ASSUME NEW k \in i..Len(h)
      PROVE  /\ held(k) \in Seq(Octet) /\ Len(held(k)) = k - i /\ h[k] \in Octet
             /\ \A x \in 1..(k - i) : held(k)[x] = h[i + x - 1]
  OBVIOUS
<1>2. ASSUME NEW k \in i..Len(h)
      PROVE  HeldBack(k - i, h[k]) <=> Keeps(h, i, k)
  <2>1. k \in Int /\ i \in Int /\ (k - i = 0 <=> k = i) /\ (k - i = 1 <=> k = i + 1)
    OBVIOUS
  <2> QED BY <2>1 DEF HeldBack, Keeps
<1>3. ASSUME NEW k \in i..(j - 1)
      PROVE  Keeps(h, i, k)
  <2> DEFINE f == Fed(held(k), h[k])
  <2>1. k \in i..Len(h)
    OBVIOUS
  <2>2. f.scan = SubSeq(h, i, k) /\ Len(SubSeq(h, i, k)) = k - i + 1 /\ Len(held(k)) = k - i
    <3>1. f.scan = SubSeq(h, i, k)
      BY DEF Returned
    <3>2. Len(SubSeq(h, i, k)) = k - i + 1
      BY <2>1
    <3> HIDE DEF held
    <3> QED BY <1>1, <2>1, <3>1, <3>2
  <2>3. f.scan # held(k) /\ f.scan # <<>>
    BY <2>2
  <2>4. HeldBack(Len(held(k)), h[k])
    <3> HIDE DEF held
    <3> QED BY <1>1, <2>1, <2>3, FedSays DEF FedAs
  <2> QED BY <1>2, <2>1, <2>2, <2>4
<1>4. Returns(h, i, j)
  <2> DEFINE f == Fed(held(j), h[j])
  <2>1. f.back # <<>>
    BY DEF Returned
  <2>2. held(j) \in Seq(Octet) /\ Len(held(j)) = j - i /\ h[j] \in Octet
        /\ \A x \in 1..(j - i) : held(j)[x] = h[i + x - 1]
    BY <1>1
  <2>3. h[j] # "CR" /\ (h[j] = "LF" => ~Spelt(held(j))) /\ ~HeldBack(j - i, h[j])
    <3> HIDE DEF held
    <3> QED BY <2>1, <2>2, FedSays DEF FedAs
  <2>4. ASSUME h[j] = "LF", j = i + 3, Spells(h, i)
        PROVE  FALSE
    <3>1. Len(held(j)) = 3 /\ held(j)[1] = h[i] /\ held(j)[2] = h[i + 1] /\ held(j)[3] = h[i + 2]
      <4>1. j - i = 3 /\ i + 1 - 1 = i /\ i + 2 - 1 = i + 1 /\ i + 3 - 1 = i + 2
        BY <2>4
      <4> HIDE DEF held
      <4>2. 1 \in 1..3 /\ 2 \in 1..3 /\ 3 \in 1..3
        OBVIOUS
      <4> QED BY <2>2, <4>1, <4>2
    <3>2. Spelt(held(j))
      BY <2>4, <3>1 DEF Spelt, Spells
    <3> QED BY <2>3, <2>4, <3>2
  <2>5. ~Keeps(h, i, j)
    BY <1>2, <2>3
  <2> QED BY <2>3, <2>4, <2>5 DEF Returns
<1> QED BY <1>3, <1>4 DEF Back

-----------------------------------------------------------------------------
(* A byte in the scanner, with those that come behind it *)
Holding(h) == \A k \in 1..Len(h) : Keeps(h, 1, k)
Stuck(r) == \E j \in Int : Back(r, 1, j)
Followed(held, ch, tail, s) ==
  /\ s \in Seq(Octet) /\ Len(s) = Len(held) + 1 + Len(tail)
  /\ \A x \in 1..Len(held) : s[x] = held[x]
  /\ s[Len(held) + 1] = ch
  /\ \A x \in 1..Len(tail) : s[x + (Len(held) + 1)] = tail[x]

LEMMA BackOnce ==
  ASSUME NEW s, NEW i \in Int, NEW j \in Int, NEW k \in Int, Back(s, i, j), Back(s, i, k)
  PROVE  j = k
<1>1. \A x \in Int : ~(Keeps(s, i, x) /\ Returns(s, i, x))
  BY DEF Keeps, Returns
<1>2. i <= j /\ i <= k
  BY DEF Back
<1>3. ASSUME j < k PROVE FALSE
  <2>1. j \in i..(k - 1)
    BY <1>2, <1>3
  <2> QED BY <1>1, <2>1 DEF Back
<1>4. ASSUME k < j PROVE FALSE
  <2>1. k \in i..(j - 1)
    BY <1>2, <1>4
  <2> QED BY <1>1, <2>1 DEF Back
<1> QED BY <1>3, <1>4

LEMMA NeverCr ==
  ASSUME NEW s \in Seq(Octet), Settled(s), NEW i \in 1..Len(s)
  PROVE  s[i] # "CR"
<1> SUFFICES ASSUME s[i] = "CR" PROVE FALSE
  OBVIOUS
<1>1. CASE \E k \in Int : At(s, k) /\ k <= i /\ i <= k + 3
  <2>1. PICK k \in Int : At(s, k) /\ k <= i /\ i <= k + 3
    BY <1>1
  <2>2. i = k \/ i = k + 1 \/ i = k + 2 \/ i = k + 3
    BY <2>1
  <2>3. Spells(s, k)
    BY <2>1 DEF At
  <2>4. s[k] = "m" /\ s[k + 1] = "_" /\ (s[k + 2] = "R" \/ s[k + 2] = "W") /\ s[k + 3] = "LF"
    BY <2>3 DEF Spells
  <2> QED BY <2>2, <2>4
<1>2. CASE \E j \in Int : Back(s, i, j)
  <2>1. PICK j \in Int : Back(s, i, j)
    BY <1>2
  <2>2. CASE j = i
    <3>1. Returns(s, i, i)
      BY <2>1, <2>2 DEF Back
    <3> QED BY <3>1 DEF Returns
  <2>3. CASE j # i
    <3>1. i \in i..(j - 1)
      BY <2>1, <2>3 DEF Back
    <3>2. Keeps(s, i, i)
      BY <2>1, <3>1 DEF Back
    <3> QED BY <3>2 DEF Keeps
  <2> QED BY <2>2, <2>3
<1> QED BY <1>1, <1>2 DEF Settled

LEMMA FedMeans ==
  ASSUME NEW held \in Seq(Octet), NEW ch \in Octet, NEW tail \in Seq(Octet), NEW s,
         Followed(held, ch, tail, s), Holding(held), ch # "CR"
  PROVE  LET n == Len(held)
         IN  \/ Keeps(s, 1, n + 1) /\ FedAs(Fed(held, ch), Append(held, ch), "", <<>>)
             \/ Back(s, 1, n + 1) /\ FedAs(Fed(held, ch), <<>>, "", Append(held, ch))
             \/ n = 3 /\ At(s, 1) /\ FedAs(Fed(held, ch), <<>>, ModeAt(s, 1), <<>>)
<1> DEFINE n == Len(held)
           k == Len(tail)
           f == Fed(held, ch)
<1>1. n \in Nat /\ k \in Nat /\ Len(s) = n + 1 + k /\ s[n + 1] = ch
      /\ \A x \in 1..n : s[x] = held[x]
  BY DEF Followed
<1>2. \A x \in 1..n : Keeps(s, 1, x)
  <2> TAKE x \in 1..n
  <2>1. Keeps(held, 1, x) /\ s[x] = held[x]
    BY <1>1 DEF Holding
  <2> QED BY <2>1 DEF Keeps
<1>3. HeldBack(n, ch) <=> Keeps(s, 1, n + 1)
  <2>1. (n + 1) - 1 + 1 = n + 1 /\ (n + 1 = 1 <=> n = 0) /\ (n + 1 = 1 + 1 <=> n = 1)
    <3> HIDE DEF n
    <3> QED BY <1>1
  <2> QED BY <1>1, <2>1 DEF HeldBack, Keeps
<1>4. Returns(s, 1, n + 1) => Back(s, 1, n + 1)
  <2>1. 1 \in 1..Len(s) /\ n + 1 \in 1..Len(s) /\ (n + 1) - 1 = n
    <3> DEFINE l == Len(s)
    <3>1. l = n + 1 + k /\ n \in Nat /\ k \in Nat
      BY <1>1
    <3> HIDE DEF n, k, l
    <3>2. 1 \in 1..l /\ n + 1 \in 1..l /\ (n + 1) - 1 = n
      BY <3>1
    <3> QED BY <3>2 DEF l
  <2> QED BY <1>2, <2>1 DEF Back
<1>5. Spelt(held) => n = 3 /\ s[1] = "m" /\ s[2] = "_" /\ s[3] = held[3] /\ s[3] \in {"R", "W"}
  <2> SUFFICES ASSUME Spelt(held) PROVE n = 3 /\ s[1] = "m" /\ s[2] = "_" /\ s[3] = held[3] /\ s[3] \in {"R", "W"}
    OBVIOUS
  <2>1. n = 3 /\ held[1] = "m" /\ held[2] = "_" /\ held[3] \in {"R", "W"}
    BY DEF Spelt
  <2>2. s[1] = held[1] /\ s[2] = held[2] /\ s[3] = held[3]
    <3>1. 1 \in 1..3 /\ 2 \in 1..3 /\ 3 \in 1..3
      OBVIOUS
    <3> QED BY <1>1, <2>1, <3>1
  <2> QED BY <2>1, <2>2
<1>6. CASE HeldBack(n, ch)
  BY <1>3, <1>6, FedSays
<1>7. CASE ch = "LF" /\ Spelt(held)
  <2>1. f.scan = <<>> /\ f.back = <<>> /\ f.mode = IF held[3] = "W" THEN "writer" ELSE "reader"
    BY <1>7, FedSays DEF FedAs
  <2>0. 1 + 1 = 2 /\ 1 + 2 = 3 /\ 1 + 3 = 4 /\ 3 + 1 = 4
    OBVIOUS
  <2>2. s[1] = "m" /\ s[2] = "_" /\ s[3] = held[3] /\ s[3] \in {"R", "W"} /\ s[4] = "LF" /\ n = 3
    BY <1>1, <1>5, <1>7, <2>0
  <2>3. Spells(s, 1)
    BY <2>0, <2>2 DEF Spells
  <2>4. 1 \in 1..Len(s) /\ 1 + 3 <= Len(s)
    <3> DEFINE l == Len(s)
    <3>1. l = n + 1 + k /\ n = 3 /\ k \in Nat
      BY <1>1, <2>2
    <3> HIDE DEF n, k, l
    <3>2. 1 \in 1..l /\ 1 + 3 <= l
      BY <3>1
    <3> QED BY <3>2 DEF l
  <2>5. At(s, 1)
    BY <2>3, <2>4 DEF At
  <2>6. ModeAt(s, 1) = IF held[3] = "W" THEN "writer" ELSE "reader"
    BY <2>0, <2>2 DEF ModeAt
  <2>7. FedAs(f, <<>>, ModeAt(s, 1), <<>>)
    BY <2>1, <2>6 DEF FedAs
  <2> QED BY <2>2, <2>5, <2>7
<1>8. CASE ~HeldBack(n, ch) /\ ~(ch = "LF" /\ Spelt(held))
  <2>1. FedAs(f, <<>>, "", Append(held, ch))
    BY <1>8, FedSays
  <2>2. ASSUME ch = "LF", n + 1 = 1 + 3, Spells(s, 1)
        PROVE  FALSE
    <3>1. n = 3
      <4> HIDE DEF n
      <4> QED BY <1>1, <2>2
    <3>2. held[1] = s[1] /\ held[2] = s[2] /\ held[3] = s[3]
      <4>1. 1 \in 1..3 /\ 2 \in 1..3 /\ 3 \in 1..3
        OBVIOUS
      <4> QED BY <1>1, <3>1, <4>1
    <3>0. 1 + 1 = 2 /\ 1 + 2 = 3
      OBVIOUS
    <3>3. Spelt(held)
      BY <2>2, <3>0, <3>1, <3>2 DEF Spelt, Spells
    <3> QED BY <1>8, <2>2, <3>3
  <2>3. Returns(s, 1, n + 1)
    BY <1>1, <1>3, <1>8, <2>2 DEF Returns
  <2> QED BY <1>4, <2>1, <2>3
<1> QED BY <1>6, <1>7, <1>8

LEMMA FollowedIs ==
  ASSUME NEW a \in Seq(Octet), NEW c \in Octet, NEW b \in Seq(Octet)
  PROVE  /\ Followed(a, c, b, a \o (<<c>> \o b))
         /\ Followed(a, c, b, Append(a, c) \o b)
         /\ Append(a, c) \o b = a \o (<<c>> \o b)
<1>a. PICK one : one = <<c>>
  OBVIOUS
<1>b. PICK m : m = one \o b
  OBVIOUS
<1>c. PICK l : l = a \o m
  OBVIOUS
<1>d. PICK p : p = Append(a, c)
  OBVIOUS
<1>e. PICK r : r = p \o b
  OBVIOUS
<1>f. PICK n : n = Len(a)
  OBVIOUS
<1>g. PICK k : k = Len(b)
  OBVIOUS
<1>1. n \in Nat /\ k \in Nat
  BY <1>f, <1>g
<1>2. one \in Seq(Octet) /\ Len(one) = 1 /\ one[1] = c
  BY <1>a
<1>3. p \in Seq(Octet) /\ Len(p) = n + 1 /\ p[n + 1] = c /\ \A x \in 1..n : p[x] = a[x]
  BY <1>d, <1>f
<1>4. m \in Seq(Octet) /\ Len(m) = 1 + k /\ m[1] = c /\ \A x \in 1..k : m[1 + x] = b[x]
  <2>1. /\ m \in Seq(Octet) /\ Len(m) = Len(one) + Len(b) /\ \A x \in 1..Len(one) : m[x] = one[x]
        /\ \A x \in 1..Len(b) : m[Len(one) + x] = b[x]
    <3>1. one \in Seq(Octet)
      BY <1>2
    <3> QED BY <3>1, <1>b, Joined
  <2>2. 1 \in 1..1
    OBVIOUS
  <2> QED BY <1>2, <1>g, <2>1, <2>2
<1>5. l \in Seq(Octet) /\ Len(l) = n + (1 + k) /\ (\A x \in 1..n : l[x] = a[x]) /\ l[n + 1] = c
      /\ \A x \in 1..k : l[x + (n + 1)] = b[x]
  <2>1. /\ l \in Seq(Octet) /\ Len(l) = Len(a) + Len(m) /\ \A x \in 1..Len(a) : l[x] = a[x]
        /\ \A x \in 1..Len(m) : l[Len(a) + x] = m[x]
    <3>1. m \in Seq(Octet)
      BY <1>4
    <3> QED BY <3>1, <1>c, Joined
  <2>2. 1 \in 1..(1 + k) /\ \A x \in 1..k : 1 + x \in 1..(1 + k) /\ n + (1 + x) = x + (n + 1)
    BY <1>1
  <2>3. Len(l) = n + (1 + k) /\ Len(a) = n /\ Len(m) = 1 + k
    BY <1>4, <1>f, <2>1
  <2> QED BY <1>4, <2>1, <2>2, <2>3
<1>6. r \in Seq(Octet) /\ Len(r) = n + 1 + k /\ (\A x \in 1..n : r[x] = a[x]) /\ r[n + 1] = c
      /\ \A x \in 1..k : r[x + (n + 1)] = b[x]
  <2>1. /\ r \in Seq(Octet) /\ Len(r) = Len(p) + Len(b) /\ \A x \in 1..Len(p) : r[x] = p[x]
        /\ \A x \in 1..Len(b) : r[Len(p) + x] = b[x]
    <3>1. p \in Seq(Octet)
      BY <1>3
    <3> QED BY <3>1, <1>e, Joined
  <2>2. /\ n + 1 \in 1..(n + 1) /\ \A x \in 1..n : x \in 1..(n + 1)
        /\ \A x \in 1..k : (n + 1) + x = x + (n + 1)
    BY <1>1
  <2>3. Len(r) = n + 1 + k /\ Len(p) = n + 1 /\ Len(b) = k
    BY <1>3, <1>g, <2>1
  <2> QED BY <1>3, <2>1, <2>2, <2>3
<1>7. Len(l) = n + 1 + k /\ Len(r) = Len(l)
  <2> QED BY <1>1, <1>5, <1>6
<1>8. \A x \in 1..Len(r) : r[x] = l[x]
  <2> TAKE x \in 1..Len(r)
  <2>1. x \in 1..n \/ x = n + 1 \/ (x - (n + 1) \in 1..k /\ x = (x - (n + 1)) + (n + 1))
    BY <1>1, <1>6, SMTT(30)
  <2> QED BY <1>5, <1>6, <2>1
<1>9. r = l
  BY <1>5, <1>6, <1>7, <1>8, SameSeq
<1> QED BY <1>a, <1>b, <1>c, <1>d, <1>e, <1>f, <1>g, <1>5, <1>6, <1>7, <1>9 DEF Followed

LEMMA Unit == ASSUME NEW b \in Seq(Octet) PROVE <<>> \o b = b /\ b \o <<>> = b
OBVIOUS

(* A console, with what is still to come behind the ring: what becomes of it when   *)
(* every byte is taken in its turn is fixed, whatever the scanner holds or returns. *)
Ahead(s, tail) == s.scan \o (s.ring \o tail)
Hears(s, tail, z) ==
  Settled(Ahead(s, tail)) /\ Leads(Ahead(s, tail), Bare(s), z) /\ Holding(s.scan)
Walks(t, tail, left, z) ==
  /\ t \in [s : States, done : BOOLEAN]
  /\ Hears(t.s, tail, z)
  /\ Len(t.s.scan) + Len(t.s.ring) + left < RingCap
  /\ IF t.done THEN t.s.scan = <<>> /\ t.s.mode = "writer" /\ Stuck(t.s.ring) ELSE t.s.ring = <<>>

LEMMA SettingIs ==
  ASSUME NEW s \in States, NEW x \in Seq(Octet)
  PROVE  /\ [s EXCEPT !.ring = x] \in States /\ [s EXCEPT !.ring = x].ring = x
         /\ [s EXCEPT !.ring = x].scan = s.scan /\ [s EXCEPT !.ring = x].mode = s.mode
         /\ [s EXCEPT !.scan = x] \in States /\ [s EXCEPT !.scan = x].scan = x
         /\ [s EXCEPT !.scan = x].ring = s.ring /\ [s EXCEPT !.scan = x].mode = s.mode
         /\ Bare([s EXCEPT !.ring = x]) = Bare(s) /\ Bare([s EXCEPT !.scan = x]) = Bare(s)
BY DEF States, Bare

LEMMA SwitchedTo ==
  ASSUME NEW s \in States, NEW new \in BothModes, s.scan = <<>>
  PROVE  /\ Switched(s, new) \in States /\ Switched(s, new).ring = s.ring
         /\ Switched(s, new).scan = <<>> /\ Switched(s, new).mode = new
         /\ Bare(Switched(s, new)) = Switched(Bare(s), new)
<1>a. Bare(s).mode = s.mode /\ Bare(s) \in States
  BY BareIs
<1>1. CASE new = s.mode
  BY <1>a, <1>1, SwitchedIs DEF Switched
<1>2. CASE new # s.mode /\ new = "writer"
  <2>1. Switched(s, new) = [s EXCEPT !.mode = new, !.scan = <<>>, !.line = <<>>, !.over = FALSE,
                                     !.cfg = NoPayload]
    BY <1>2 DEF Switched
  <2>2. Switched(Bare(s), new) = [Bare(s) EXCEPT !.mode = new, !.scan = <<>>, !.line = <<>>,
                                                 !.over = FALSE, !.cfg = NoPayload]
    BY <1>a, <1>2 DEF Switched
  <2> HIDE DEF NoPayload
  <2>3. Switched(s, new).scan = <<>> /\ Switched(s, new).mode = new
    BY <2>1 DEF States
  <2>4. Bare(Switched(s, new)) = Switched(Bare(s), new)
    BY <2>1, <2>2 DEF Bare, States
  <2> QED BY <2>3, <2>4, SwitchedIs
<1>3. CASE new # s.mode /\ new # "writer"
  <2>1. Switched(s, new) = [s EXCEPT !.mode = new, !.scan = <<>>, !.line = @, !.over = @, !.cfg = @]
    BY <1>3 DEF Switched
  <2>2. Switched(Bare(s), new) = [Bare(s) EXCEPT !.mode = new, !.scan = <<>>, !.line = @, !.over = @,
                                                 !.cfg = @]
    BY <1>a, <1>3 DEF Switched
  <2>3. Switched(s, new).scan = <<>> /\ Switched(s, new).mode = new
    BY <2>1 DEF States
  <2>4. Bare(Switched(s, new)) = Switched(Bare(s), new)
    BY <2>1, <2>2, ZenonT(60) DEF Bare, States
  <2> QED BY <2>3, <2>4, SwitchedIs
<1> QED BY <1>1, <1>2, <1>3

LEMMA StuckStays ==
  ASSUME NEW r \in Seq(Octet), NEW t \in Seq(Octet), Stuck(r), Len(r) <= Len(t),
         \A x \in 1..Len(r) : t[x] = r[x]
  PROVE  Stuck(t)
<1>1. PICK j \in Int : Back(r, 1, j)
  BY DEF Stuck
<1>2. j \in 1..Len(r) /\ Len(r) \in Nat /\ Len(t) \in Nat
  BY <1>1 DEF Back
<1> DEFINE n == Len(r)
           k == Len(t)
<1>3. /\ 1 - 0 = 1 /\ 1 - 0 >= 1 /\ j - 0 = j /\ j - 0 <= k
      /\ \A x \in 1..j : x - 0 = x /\ x \in 1..n
  <2>1. n <= k /\ n \in Nat /\ k \in Nat /\ j \in 1..n
    BY <1>2
  <2> HIDE DEF n, k
  <2> QED BY <2>1
<1>4. \A x \in 1..j : t[x - 0] = r[x]
  BY <1>3
<1>5. Back(t, 1 - 0, j - 0)
  <2>1. 0 \in Int /\ 1 \in Int /\ j - 0 <= Len(t)
    BY <1>3
  <2> QED BY <1>1, <1>3, <1>4, <2>1, BackMoves
<1> QED BY <1>3, <1>5 DEF Stuck

LEMMA StuckFirst ==
  ASSUME NEW s \in Seq(Octet), NEW j \in Int, Back(s, 1, j), Settled(s), ScanCap > 4
  PROVE  \A k \in Int : At(s, k) => k > j
<1> SUFFICES ASSUME NEW k \in Int, At(s, k), k <= j PROVE FALSE
  OBVIOUS
<1>1. k >= 1 /\ 1 \in 1..Len(s)
  BY DEF At, Back
<1>2. CASE \E l \in Int : At(s, l) /\ l <= 1 /\ 1 <= l + 3
  <2>1. PICK l \in Int : At(s, l) /\ l <= 1
    BY <1>2
  <2>2. l = 1
    BY <2>1 DEF At
  <2> QED BY <2>1, <2>2, LineKept
<1>3. CASE \E i \in Int : Back(s, 1, i) /\ \A l \in 1..i : ~At(s, l)
  <2>1. PICK i \in Int : Back(s, 1, i) /\ \A l \in 1..i : ~At(s, l)
    BY <1>3
  <2>2. i = j
    BY <2>1, BackOnce
  <2> QED BY <1>1, <2>1, <2>2
<1> QED BY <1>1, <1>2, <1>3 DEF Settled

LEMMA StepWalks ==
  ASSUME NEW t, NEW ch \in Octet, NEW tail \in Seq(Octet), NEW left \in Nat, NEW z, ScanCap > 4,
         Walks(t, <<ch>> \o tail, left + 1, z)
  PROVE  Walks(ScanStep(t, ch, left), tail, left, z)
<1>1. t \in [s : States, done : BOOLEAN] /\ t.s \in States /\ t.done \in BOOLEAN
  BY DEF Walks
<1>2. t.s.ring \in Seq(Octet) /\ t.s.scan \in Seq(Octet) /\ t.s.mode \in BothModes
  BY <1>1, StatesAre
<1> DEFINE s == t.s
           a == Ahead(s, <<ch>> \o tail)
           n == Len(s.scan)
           k == Len(s.ring)
<1>3. Settled(a) /\ Leads(a, Bare(s), z) /\ Holding(s.scan)
  BY DEF Walks, Hears
<1>4. n \in Nat /\ k \in Nat /\ n + k + (left + 1) < RingCap /\ RingCap \in Nat
  <2>1. n \in Nat /\ k \in Nat
    BY <1>2
  <2>2. n + k + (left + 1) < RingCap
    BY DEF Walks
  <2>3. RingCap \in Nat
    BY ConsoleSizesAssumption
  <2> QED BY <2>1, <2>2, <2>3
<1>5. /\ t.done => s.scan = <<>> /\ s.mode = "writer" /\ Stuck(s.ring)
      /\ ~t.done => s.ring = <<>>
  BY DEF Walks
<1>6. ASSUME NEW u \in States, NEW d \in BOOLEAN, Hears(u, tail, z),
             Len(u.scan) + Len(u.ring) + left < RingCap,
             d => u.scan = <<>> /\ u.mode = "writer" /\ Stuck(u.ring), ~d => u.ring = <<>>
      PROVE  Walks([t EXCEPT !.s = u, !.done = d], tail, left, z)
  <2>1. [t EXCEPT !.s = u, !.done = d] \in [s : States, done : BOOLEAN]
        /\ [t EXCEPT !.s = u, !.done = d].s = u /\ [t EXCEPT !.s = u, !.done = d].done = d
    BY <1>1
  <2> QED BY <1>6, <2>1 DEF Walks
<1> HIDE DEF s, a, n, k
<1>7. ASSUME NEW u \in States
      PROVE  [t EXCEPT !.s = u] = [t EXCEPT !.s = u, !.done = t.done]
  BY <1>1
<1>8. CASE t.done
  <2> DEFINE r == Append(s.ring, ch)
             u == [s EXCEPT !.ring = r]
  <2>1. r \in Seq(Octet) /\ Len(r) = k + 1 /\ \A x \in 1..k : r[x] = s.ring[x]
    BY <1>2 DEF s, k
  <2>2. s \in States
    BY <1>1 DEF s
  <2> HIDE DEF r
  <2>3. u \in States /\ u.ring = r /\ u.scan = s.scan /\ u.mode = s.mode /\ Bare(u) = Bare(s)
    BY <2>1, <2>2, SettingIs
  <2>4. ScanStep(t, ch, left) = [t EXCEPT !.s = u, !.done = t.done]
    <3>1. ScanStep(t, ch, left) = [t EXCEPT !.s = u]
      BY <1>1, <1>8 DEF ScanStep, s, r
    <3> QED BY <1>7, <2>3, <3>1
  <2>5. Ahead(u, tail) = a
    <3>1. r \o tail = s.ring \o (<<ch>> \o tail)
      BY <1>2, FollowedIs DEF r, s
    <3> QED BY <2>3, <3>1 DEF Ahead, a
  <2>6. Hears(u, tail, z)
    BY <1>3, <2>3, <2>5 DEF Hears
  <2>7. Stuck(r)
    <3>1. k <= k + 1 /\ Len(r) = k + 1 /\ s.ring \in Seq(Octet) /\ k = Len(s.ring)
      <4>1. k <= k + 1
        BY <1>4
      <4> QED BY <1>2, <2>1, <4>1 DEF s, k
    <3> QED BY <1>5, <1>8, <2>1, <3>1, StuckStays
  <2>8. Len(u.scan) + Len(u.ring) + left < RingCap
    <3>1. Len(u.scan) = n /\ Len(u.ring) = k + 1
      BY <2>1, <2>3 DEF n
    <3>2. n + (k + 1) + left < RingCap
      BY <1>4
    <3> QED BY <3>1, <3>2
  <2> HIDE DEF u
  <2>9. Walks([t EXCEPT !.s = u, !.done = t.done], tail, left, z)
    BY <1>1, <1>5, <1>6, <1>8, <2>3, <2>6, <2>7, <2>8
  <2> QED BY <2>4, <2>9
<1>9. CASE ~t.done
  <2> DEFINE f == Fed(s.scan, ch)
             clear == [s EXCEPT !.scan = <<>>]
  <2>1. s \in States /\ s.ring = <<>> /\ k = 0 /\ s.scan \in Seq(Octet) /\ s.ring \in Seq(Octet)
    BY <1>1, <1>2, <1>5, <1>9 DEF s, k
  <2>2. clear \in States /\ clear.ring = <<>> /\ clear.scan = <<>> /\ clear.mode = s.mode
        /\ Bare(clear) = Bare(s)
    BY <2>1, SettingIs, Nothing
  <2>3. /\ a = s.scan \o (<<ch>> \o tail) /\ a = Append(s.scan, ch) \o tail
        /\ Followed(s.scan, ch, tail, a) /\ a \in Seq(Octet)
    <3>1. <<ch>> \o tail \in Seq(Octet)
      OBVIOUS
    <3>2. a = s.scan \o (<<ch>> \o tail)
      BY <2>1, <3>1, Unit DEF a, Ahead
    <3>3. Followed(s.scan, ch, tail, a) /\ Append(s.scan, ch) \o tail = a
      <4>1. /\ Followed(s.scan, ch, tail, s.scan \o (<<ch>> \o tail))
            /\ Append(s.scan, ch) \o tail = s.scan \o (<<ch>> \o tail)
        BY <2>1, FollowedIs
      <4> QED BY <3>2, <4>1
    <3>4. a \in Seq(Octet)
      BY <3>3 DEF Followed
    <3> QED BY <3>2, <3>3, <3>4
  <2>4. ch # "CR"
    <3>1. n + 1 \in 1..Len(a) /\ a[n + 1] = ch
      <4>1. Len(a) = n + 1 + Len(tail) /\ a[n + 1] = ch
        BY <2>3 DEF Followed, n
      <4>2. n + 1 \in 1..(n + 1 + Len(tail))
        <5> DEFINE l == Len(tail)
        <5>1. l \in Nat
          OBVIOUS
        <5> HIDE DEF l
        <5>2. n + 1 \in 1..(n + 1 + l)
          BY <1>4, <5>1
        <5> QED BY <5>2 DEF l
      <4> QED BY <4>1, <4>2
    <3> QED BY <1>3, <2>3, <3>1, NeverCr
  <2>5. ScanStep(t, ch, left)
          = IF f.mode # "" THEN [t EXCEPT !.s = Switched(clear, f.mode)]
            ELSE IF f.back = <<>> THEN [t EXCEPT !.s = [s EXCEPT !.scan = f.scan]]
            ELSE IF s.mode = "writer"
                 THEN [t EXCEPT !.s = [clear EXCEPT !.ring = Fits(f.back, left)], !.done = TRUE]
            ELSE [t EXCEPT !.s = clear]
    BY <1>1, <1>9 DEF ScanStep, States, s
  <2>6. \/ Keeps(a, 1, n + 1) /\ FedAs(f, Append(s.scan, ch), "", <<>>)
        \/ Back(a, 1, n + 1) /\ FedAs(f, <<>>, "", Append(s.scan, ch))
        \/ n = 3 /\ At(a, 1) /\ FedAs(f, <<>>, ModeAt(a, 1), <<>>)
    BY <1>3, <2>1, <2>3, <2>4, FedMeans DEF n
  <2> HIDE DEF f, clear
  <2>7. Append(s.scan, ch) \in Seq(Octet) /\ Len(Append(s.scan, ch)) = n + 1
        /\ Append(s.scan, ch) # <<>> /\ Append(s.scan, ch)[n + 1] = ch
        /\ \A x \in 1..n : Append(s.scan, ch)[x] = s.scan[x]
    BY <2>1, SMTT(30) DEF n
  <2> DEFINE all == Append(s.scan, ch)
  <2> HIDE DEF all
  <2>8. Rest(a, tail, n + 1)
    <3>1. n + 1 \in Nat
      BY <1>4
    <3>2. Len(a) = (n + 1) + Len(tail) /\ \A x \in 1..Len(tail) : a[x + (n + 1)] = tail[x]
      BY <2>3 DEF Followed, n
    <3> QED BY <3>1, <3>2 DEF Rest
  <2>9. ASSUME NEW u \in States, u.scan = <<>>, u.ring = <<>>, Settled(tail), Leads(tail, Bare(u), z)
        PROVE  Walks([t EXCEPT !.s = u], tail, left, z)
    <3>1. Ahead(u, tail) = tail
      BY <2>9, Unit DEF Ahead
    <3>2. Holding(<<>>)
      BY DEF Holding
    <3>3. Hears(u, tail, z)
      BY <2>9, <3>1, <3>2 DEF Hears
    <3>4. Len(u.scan) + Len(u.ring) + left < RingCap
      <4>1. Len(u.scan) = 0 /\ Len(u.ring) = 0
        BY <2>9
      <4>2. 0 + 0 + left < RingCap
        BY <1>4
      <4> QED BY <4>1, <4>2
    <3> QED BY <1>1, <1>6, <1>7, <1>9, <2>9, <3>3, <3>4
  <2>10. CASE Keeps(a, 1, n + 1) /\ FedAs(f, all, "", <<>>)
    <3> DEFINE u == [s EXCEPT !.scan = all]
    <3>1. u \in States /\ u.ring = <<>> /\ u.scan = all /\ u.mode = s.mode /\ Bare(u) = Bare(s)
      BY <2>1, <2>7, SettingIs DEF all
    <3>2. ScanStep(t, ch, left) = [t EXCEPT !.s = u]
      BY <2>5, <2>10 DEF FedAs
    <3> HIDE DEF u
    <3>3. Ahead(u, tail) = a
      BY <2>3, <3>1, Unit DEF Ahead, all
    <3>4. Holding(all)
      <4> SUFFICES ASSUME NEW x \in 1..Len(all) PROVE Keeps(all, 1, x)
        BY DEF Holding
      <4>1. x \in 1..n \/ x = n + 1
        <5>1. x \in 1..(n + 1)
          BY <2>7 DEF all
        <5> QED BY <1>4, <5>1
      <4>2. CASE x \in 1..n
        <5>1. Keeps(s.scan, 1, x) /\ all[x] = s.scan[x]
          BY <1>3, <2>7, <4>2 DEF Holding, n, all
        <5> QED BY <5>1 DEF Keeps
      <4>3. CASE x = n + 1
        <5>1. all[x] = a[x]
          BY <2>3, <2>7, <4>3 DEF Followed, n, all
        <5> QED BY <2>10, <4>3, <5>1 DEF Keeps
      <4> QED BY <4>1, <4>2, <4>3
    <3>5. Hears(u, tail, z)
      BY <1>3, <3>1, <3>3, <3>4 DEF Hears
    <3>6. Len(u.scan) + Len(u.ring) + left < RingCap
      <4>1. Len(u.scan) = n + 1 /\ Len(u.ring) = 0
        BY <2>7, <3>1 DEF all
      <4>2. n + 1 + 0 + left < RingCap
        BY <1>4, <2>1
      <4> QED BY <4>1, <4>2
    <3>7. Walks([t EXCEPT !.s = u, !.done = t.done], tail, left, z)
      BY <1>1, <1>6, <1>9, <3>1, <3>5, <3>6
    <3> QED BY <1>7, <3>1, <3>2, <3>7
  <2>11. CASE Back(a, 1, n + 1) /\ FedAs(f, <<>>, "", all) /\ s.mode = "writer"
    <3> DEFINE u == [clear EXCEPT !.ring = all]
    <3>1. u \in States /\ u.ring = all /\ u.scan = <<>> /\ u.mode = "writer" /\ Bare(u) = Bare(s)
      BY <2>2, <2>7, <2>11, SettingIs DEF all
    <3>2. Len(all) + left < RingCap
      <4>1. n + 1 + left < RingCap
        BY <1>4, <2>1
      <4> QED BY <2>7, <4>1 DEF all
    <3>3. ScanStep(t, ch, left) = [t EXCEPT !.s = u, !.done = TRUE]
      <4>1. Fits(all, left) = all
        BY <3>2 DEF Fits
      <4>2. f.mode = "" /\ f.back = all /\ all # <<>>
        BY <2>7, <2>11 DEF FedAs, all
      <4> QED BY <2>5, <2>11, <4>1, <4>2
    <3> HIDE DEF u
    <3>4. Ahead(u, tail) = a
      <4>1. all \o tail = a
        BY <2>3 DEF all
      <4> QED BY <2>3, <3>1, <4>1, Unit DEF Ahead
    <3>5. Hears(u, tail, z)
      <4>1. Holding(<<>>)
        BY DEF Holding
      <4> QED BY <1>3, <2>11, <3>1, <3>4, <4>1 DEF Hears
    <3>6. Stuck(all)
      <4>1. /\ n + 1 \in Int /\ 1 \in Int /\ 0 \in Int /\ 1 - 0 = 1 /\ (n + 1) - 0 = n + 1
            /\ 1 - 0 >= 1 /\ (n + 1) - 0 <= n + 1
            /\ \A x \in 1..(n + 1) : x - 0 = x /\ (x \in 1..n \/ x = n + 1)
        BY <1>4
      <4>2. \A x \in 1..(n + 1) : all[x - 0] = a[x]
        BY <2>3, <2>7, <4>1 DEF Followed, n, all
      <4>3. (n + 1) - 0 <= Len(all) /\ all \in Seq(Octet)
        BY <2>7, <4>1 DEF all
      <4>4. Back(all, 1 - 0, (n + 1) - 0)
        BY <2>3, <2>11, <4>1, <4>2, <4>3, BackMoves
      <4> QED BY <4>1, <4>4 DEF Stuck
    <3>7. Len(u.scan) + Len(u.ring) + left < RingCap
      <4>1. Len(u.scan) = 0 /\ Len(u.ring) = n + 1
        BY <2>7, <3>1 DEF all
      <4>2. 0 + (n + 1) + left < RingCap
        BY <1>4, <2>1
      <4> QED BY <4>1, <4>2
    <3> QED BY <1>6, <3>1, <3>3, <3>5, <3>6, <3>7
  <2>12. CASE Back(a, 1, n + 1) /\ FedAs(f, <<>>, "", all) /\ s.mode # "writer"
    <3>1. ScanStep(t, ch, left) = [t EXCEPT !.s = clear]
      <4>1. f.mode = "" /\ f.back = all /\ all # <<>>
        BY <2>7, <2>12 DEF FedAs, all
      <4> QED BY <2>5, <2>12, <4>1
    <3>2. n + 1 \in Int
      BY <1>4
    <3>3. \A l \in Int : At(a, l) => l > n + 1
      BY <1>3, <2>3, <2>12, <3>2, StuckFirst
    <3>4. Bare(s).mode # "writer"
      BY <2>1, <2>12, BareIs
    <3>5. Settled(tail) /\ Leads(tail, Bare(s), z)
      BY <1>3, <2>3, <2>8, <3>3, <3>4, BytesDropped
    <3> QED BY <2>2, <2>9, <3>1, <3>5
  <2>13. CASE n = 3 /\ At(a, 1) /\ FedAs(f, <<>>, ModeAt(a, 1), <<>>)
    <3>1. ModeAt(a, 1) \in BothModes /\ ModeAt(a, 1) # ""
      BY DEF ModeAt, BothModes
    <3> DEFINE u == Switched(clear, ModeAt(a, 1))
    <3>2. u \in States /\ u.ring = <<>> /\ u.scan = <<>> /\ Bare(u) = Switched(Bare(s), ModeAt(a, 1))
      BY <2>2, <3>1, SwitchedTo
    <3>3. ScanStep(t, ch, left) = [t EXCEPT !.s = u]
      BY <2>5, <2>13, <3>1 DEF FedAs
    <3> HIDE DEF u
    <3>4. Rest(a, tail, 4)
      <4>1. n + 1 = 4
        BY <2>13
      <4> QED BY <2>8, <4>1
    <3>5. Settled(tail) /\ Leads(tail, Switched(Bare(s), ModeAt(a, 1)), z)
      BY <1>3, <2>3, <2>13, <3>4, LineDropped
    <3> QED BY <2>9, <3>2, <3>3, <3>5
  <2> QED BY <2>6, <2>10, <2>11, <2>12, <2>13 DEF all
<1> QED BY <1>1, <1>8, <1>9

(* A whole ring *)
LEMMA TailSplits ==
  ASSUME NEW r \in Seq(Octet), NEW tail \in Seq(Octet), NEW m \in 1..Len(r)
  PROVE  /\ SubSeq(r, m, Len(r)) \o tail = <<r[m]>> \o (SubSeq(r, m + 1, Len(r)) \o tail)
         /\ SubSeq(r, m + 1, Len(r)) \o tail \in Seq(Octet)
<1>1. PICK a : a = SubSeq(r, m, Len(r))
  OBVIOUS
<1>2. PICK b : b = SubSeq(r, m + 1, Len(r))
  OBVIOUS
<1>3. PICK n : n = Len(r)
  OBVIOUS
<1>4. n \in Nat /\ m \in 1..n /\ r[m] \in Octet
  BY <1>3
<1>5. a \in Seq(Octet) /\ Len(a) = n - m + 1 /\ \A x \in 1..(n - m + 1) : a[x] = r[m + x - 1]
  BY <1>1, <1>3
<1>6. b \in Seq(Octet) /\ Len(b) = n - m /\ \A x \in 1..(n - m) : b[x] = r[m + x]
  BY <1>2, <1>3
<1>7. a = <<r[m]>> \o b
  <2>1. <<>> \in Seq(Octet) /\ Len(<<>>) = 0
    OBVIOUS
  <2>2. <<>> \o (<<r[m]>> \o b) = <<r[m]>> \o b
    <3>1. <<r[m]>> \o b \in Seq(Octet)
      BY <1>4, <1>6
    <3> QED BY <3>1, Unit
  <2>3. Followed(<<>>, r[m], b, <<r[m]>> \o b)
    BY <1>4, <1>6, <2>1, <2>2, FollowedIs
  <2>4. PICK c : c = <<r[m]>> \o b
    OBVIOUS
  <2>5. c \in Seq(Octet) /\ Len(c) = 0 + 1 + Len(b) /\ c[0 + 1] = r[m] /\ \A x \in 1..Len(b) : c[x + (0 + 1)] = b[x]
    BY <2>1, <2>3, <2>4 DEF Followed
  <2>6. Len(c) = Len(a)
    BY <1>4, <1>5, <1>6, <2>5
  <2>7. ASSUME NEW x \in 1..Len(a)
        PROVE  a[x] = c[x]
    <3>1. x \in 1..(n - m + 1)
      BY <1>5
    <3>2. CASE x = 1
      <4>1. 0 + 1 = 1 /\ m + 1 - 1 = m
        BY <1>4
      <4> QED BY <1>5, <2>5, <3>1, <3>2, <4>1
    <3>3. CASE x # 1
      <4>1. x - 1 \in 1..(n - m) /\ (x - 1) + (0 + 1) = x /\ m + (x - 1) = m + x - 1
        BY <1>4, <3>1, <3>3
      <4> QED BY <1>5, <1>6, <2>5, <3>1, <4>1
    <3> QED BY <3>2, <3>3
  <2>8. a = c
    BY <1>5, <2>5, <2>6, <2>7, SameSeq
  <2> QED BY <2>4, <2>8
<1>8. b \o tail \in Seq(Octet)
  BY <1>6, Joined
<1>9. a \o tail = <<r[m]>> \o (b \o tail)
  <2>1. PICK e : e = <<r[m]>>
    OBVIOUS
  <2>2. e \in Seq(Octet) /\ b \in Seq(Octet)
    BY <1>4, <1>6, <2>1
  <2>3. (e \o b) \o tail = e \o (b \o tail)
    BY <2>2, SMTT(30)
  <2> QED BY <1>7, <2>1, <2>3
<1> QED BY <1>1, <1>2, <1>8, <1>9

(* In the writer, a ring that begins with what is to be returned *)
Nears(t, ring0, n, j) ==
  /\ t \in [s : States, done : BOOLEAN] /\ t.s.mode = "writer"
  /\ IF t.done THEN t.s.ring # <<>>
     ELSE n < j /\ t.s.ring = <<>> /\ t.s.scan = SubSeq(ring0, 1, n)
LEMMA Appended ==
  ASSUME NEW a \in Seq(Octet), NEW c \in Octet
  PROVE  Append(a, c) \in Seq(Octet) /\ Append(a, c) # <<>>
<1>1. Len(Append(a, c)) = Len(a) + 1 /\ Len(a) \in Nat
  OBVIOUS
<1> QED BY <1>1

LEMMA StepNears ==
  ASSUME NEW t, NEW r \in Seq(Octet), NEW j \in Int, Back(r, 1, j), ScanCap > 4,
         NEW n \in 0..(Len(r) - 1), Len(r) < RingCap, Nears(t, r, n, j)
  PROVE  Nears(ScanStep(t, r[n + 1], Len(r) - (n + 1)), r, n + 1, j)
<1>1. t \in [s : States, done : BOOLEAN] /\ t.s \in States /\ t.done \in BOOLEAN /\ t.s.mode = "writer"
  BY DEF Nears
<1>2. t.s.ring \in Seq(Octet) /\ t.s.scan \in Seq(Octet)
  BY <1>1, StatesAre
<1> DEFINE ch == r[n + 1]
           N == Len(r)
           left == N - (n + 1)
<1>3. N \in Nat /\ n \in 0..(N - 1) /\ n \in Nat /\ n + 1 \in 1..N /\ left \in Nat
  OBVIOUS
<1>4. ch \in Octet
  BY <1>3
<1>5. ASSUME NEW u \in States, NEW d \in BOOLEAN
      PROVE  /\ [t EXCEPT !.s = u, !.done = d] \in [s : States, done : BOOLEAN]
             /\ [t EXCEPT !.s = u, !.done = d].s = u /\ [t EXCEPT !.s = u, !.done = d].done = d
             /\ [t EXCEPT !.s = u] = [t EXCEPT !.s = u, !.done = t.done]
  BY <1>1
<1> HIDE DEF ch, left
<1>6. CASE t.done
  <2> DEFINE u == [t.s EXCEPT !.ring = Append(t.s.ring, ch)]
  <2>1. Append(t.s.ring, ch) \in Seq(Octet) /\ Append(t.s.ring, ch) # <<>>
    BY <1>2, <1>4, Appended
  <2>2. u \in States /\ u.ring # <<>> /\ u.mode = "writer"
    <3> DEFINE x == Append(t.s.ring, ch)
    <3> HIDE DEF x
    <3>1. /\ [t.s EXCEPT !.ring = x] \in States /\ [t.s EXCEPT !.ring = x].ring = x
          /\ [t.s EXCEPT !.ring = x].mode = t.s.mode
      BY <1>1, <2>1, SettingIs DEF x
    <3> QED BY <1>1, <2>1, <3>1 DEF x
  <2>3. ScanStep(t, ch, left) = [t EXCEPT !.s = u]
    BY <1>1, <1>6 DEF ScanStep
  <2> HIDE DEF u
  <2>4. ScanStep(t, ch, left) = [t EXCEPT !.s = u, !.done = t.done]
    BY <1>5, <1>1, <2>2, <2>3
  <2>5. Nears(ScanStep(t, ch, left), r, n + 1, j)
    BY <1>1, <1>5, <1>6, <2>2, <2>4 DEF Nears
  <2> QED BY <2>5 DEF ch, left
<1>7. CASE ~t.done
  <2>1. n < j /\ t.s.ring = <<>> /\ t.s.scan = SubSeq(r, 1, n)
    BY <1>7 DEF Nears
  <2> DEFINE held == SubSeq(r, 1, n)
             tail == SubSeq(r, n + 2, N)
             f == Fed(t.s.scan, ch)
             clear == [t.s EXCEPT !.scan = <<>>]
             all == Append(held, ch)
  <2>2. held \in Seq(Octet) /\ Len(held) = n /\ \A x \in 1..n : held[x] = r[x]
    BY <1>3
  <2>3. tail \in Seq(Octet) /\ Len(tail) = N - n - 1 /\ \A x \in 1..(N - n - 1) : tail[x] = r[x + (n + 1)]
    <3>1. Len(tail) = N - n - 1 /\ tail \in Seq(Octet)
      BY <1>3
    <3>2. ASSUME NEW x \in 1..(N - n - 1) PROVE tail[x] = r[x + (n + 1)]
      <4>1. x \in 1..(N - (n + 2) + 1) /\ n + 2 + x - 1 = x + (n + 1)
        <5> HIDE DEF N
        <5> QED BY <1>3, <3>2
      <4> QED BY <1>3, <4>1
    <3> QED BY <3>1, <3>2
  <2>4. /\ all \in Seq(Octet) /\ Len(all) = n + 1 /\ all # <<>> /\ all = SubSeq(r, 1, n + 1)
    <3>1. all \in Seq(Octet) /\ Len(all) = n + 1 /\ all[n + 1] = ch /\ \A x \in 1..n : all[x] = r[x]
      <4> HIDE DEF held
      <4> QED BY <1>4, <2>2
    <3>2. PICK q : q = SubSeq(r, 1, n + 1)
      OBVIOUS
    <3>3. q \in Seq(Octet) /\ Len(q) = n + 1 /\ \A x \in 1..(n + 1) : q[x] = r[x]
      BY <1>3, <3>2
    <3>4. \A x \in 1..Len(all) : all[x] = q[x]
      <4> HIDE DEF all
      <4> TAKE x \in 1..Len(all)
      <4>1. x \in 1..n \/ x = n + 1
        BY <1>3, <3>1
      <4> QED BY <1>3, <3>1, <3>3, <4>1 DEF ch
    <3> HIDE DEF all
    <3>5. all = q
      BY <3>1, <3>3, <3>4, SameSeq
    <3>6. all # <<>>
      BY <1>3, <3>1
    <3> QED BY <3>1, <3>2, <3>5, <3>6
  <2> HIDE DEF held, tail, all
  <2>5. Followed(held, ch, tail, r)
    <3>1. N = n + 1 + (N - n - 1)
      <4> HIDE DEF N
      <4> QED BY <1>3
    <3> QED BY <2>2, <2>3, <3>1 DEF Followed, ch
  <2>6. j \in 1..N /\ Returns(r, 1, j) /\ \A x \in 1..(j - 1) : Keeps(r, 1, x)
    BY DEF Back
  <2>7. Holding(held)
    <3> SUFFICES ASSUME NEW x \in 1..Len(held) PROVE Keeps(held, 1, x)
      BY DEF Holding
    <3>1. x \in 1..(j - 1) /\ held[x] = r[x]
      <4>1. x \in 1..n
        BY <2>2
      <4>2. x \in 1..(j - 1)
        BY <1>3, <2>1, <4>1
      <4> QED BY <2>2, <4>1, <4>2
    <3>2. Keeps(r, 1, x)
      BY <2>6, <3>1
    <3> QED BY <3>1, <3>2 DEF Keeps
  <2>8. /\ Keeps(r, 1, n + 1) <=> n + 1 < j
        /\ ch # "CR"
    <3>1. n + 1 < j => Keeps(r, 1, n + 1) /\ n + 1 # j
      <4> HIDE DEF N
      <4>1. n + 1 < j => n + 1 \in 1..(j - 1)
        BY <1>3, <2>6
      <4> QED BY <2>6, <4>1
    <3>2. n + 1 = j \/ n + 1 < j
      BY <1>3, <2>1
    <3>3. ~(Keeps(r, 1, j) /\ Returns(r, 1, j)) /\ r[j] # "CR"
      BY <2>6 DEF Keeps, Returns
    <3>4. Keeps(r, 1, n + 1) => r[n + 1] # "CR"
      BY DEF Keeps
    <3>5. Keeps(r, 1, n + 1) <=> n + 1 < j
      BY <2>6, <3>1, <3>2, <3>3
    <3>6. r[n + 1] # "CR"
      BY <3>1, <3>2, <3>3, <3>4
    <3> QED BY <3>5, <3>6 DEF ch
  <2>9. \/ Keeps(r, 1, n + 1) /\ FedAs(f, all, "", <<>>)
        \/ Back(r, 1, n + 1) /\ FedAs(f, <<>>, "", all)
    <3>1. ~At(r, 1)
      BY LineKept
    <3>2. f = Fed(held, ch)
      BY <2>1 DEF held
    <3> QED BY <1>4, <2>2, <2>3, <2>5, <2>7, <2>8, <3>1, <3>2, FedMeans DEF all
  <2>10. clear \in States /\ clear.mode = "writer"
    BY <1>1, Nothing, SettingIs, ZenonT(60)
  <2>11. ScanStep(t, ch, left)
           = IF f.mode # "" THEN [t EXCEPT !.s = Switched(clear, f.mode)]
             ELSE IF f.back = <<>> THEN [t EXCEPT !.s = [t.s EXCEPT !.scan = f.scan]]
             ELSE [t EXCEPT !.s = [clear EXCEPT !.ring = Fits(f.back, left)], !.done = TRUE]
    BY <1>1, <1>7 DEF ScanStep, States
  <2> HIDE DEF f, clear
  <2>12. CASE Keeps(r, 1, n + 1) /\ FedAs(f, all, "", <<>>)
    <3> DEFINE u == [t.s EXCEPT !.scan = all]
    <3>1. u \in States /\ u.ring = <<>> /\ u.scan = all /\ u.mode = "writer"
      BY <1>1, <2>1, <2>4, SettingIs, ZenonT(60)
    <3>2. ScanStep(t, ch, left) = [t EXCEPT !.s = u]
      BY <2>11, <2>12 DEF FedAs
    <3> HIDE DEF u
    <3>3. ScanStep(t, ch, left) = [t EXCEPT !.s = u, !.done = t.done]
      BY <1>5, <1>1, <3>1, <3>2
    <3>4. Nears(ScanStep(t, ch, left), r, n + 1, j)
      BY <1>1, <1>5, <1>7, <2>4, <2>8, <2>12, <3>1, <3>3 DEF Nears
    <3> QED BY <3>4 DEF ch, left
  <2>13. CASE Back(r, 1, n + 1) /\ FedAs(f, <<>>, "", all)
    <3>1. Fits(all, left) = all
      <4>1. n + 1 + left < RingCap
        <5>1. N < RingCap /\ RingCap \in Nat
          BY ConsoleSizesAssumption
        <5>2. n + 1 + left = N
          <6> HIDE DEF N
          <6> QED BY <1>3 DEF left
        <5> QED BY <5>1, <5>2
      <4> QED BY <2>4, <4>1 DEF Fits
    <3> DEFINE u == [clear EXCEPT !.ring = all]
    <3>2. u \in States /\ u.ring = all /\ u.mode = "writer"
      BY <2>4, <2>10, SettingIs
    <3>3. ScanStep(t, ch, left) = [t EXCEPT !.s = u, !.done = TRUE]
      <4>1. f.mode = "" /\ f.back = all
        BY <2>13, ZenonT(60) DEF FedAs
      <4> QED BY <2>4, <2>11, <3>1, <4>1
    <3> HIDE DEF u
    <3>4. Nears(ScanStep(t, ch, left), r, n + 1, j)
      BY <1>5, <2>4, <3>2, <3>3 DEF Nears
    <3> QED BY <3>4 DEF ch, left
  <2> QED BY <2>9, <2>12, <2>13
<1> QED BY <1>1, <1>6, <1>7

(* Looking for mode lines in the ring loses none of them: in reader mode all of it   *)
(* is looked at, in writer mode what is returned is at the head of the ring.         *)
LEMMA ScannedHears ==
  ASSUME NEW s \in States, NEW tail \in Seq(Octet), NEW z, ScanCap > 4, Hears(s, tail, z),
         Len(s.scan) + Len(s.ring) < RingCap
  PROVE  /\ Scanned(s) \in States /\ Hears(Scanned(s), tail, z)
         /\ \/ Scanned(s).ring = <<>>
            \/ Scanned(s).scan = <<>> /\ Scanned(s).mode = "writer" /\ Stuck(Scanned(s).ring)
         /\ s.scan = <<>> /\ s.mode = "writer" /\ Stuck(s.ring)
              => Scanned(s).ring # <<>> /\ Scanned(s).mode = "writer"
<1> DEFINE r == s.ring
           N == Len(s.ring)
           first == [s |-> [s EXCEPT !.ring = <<>>], done |-> FALSE]
           rest(n) == SubSeq(r, n + 1, N) \o tail
<1>1. r \in Seq(Octet) /\ s.scan \in Seq(Octet) /\ N \in Nat
  BY StatesAre
<1>a. Len(s.scan) \in Nat
  BY <1>1
<1>b. Len(s.scan) + N < RingCap
  OBVIOUS
<1>2. PICK f : f = Scans(r, first, f, N) /\ Scanned(s) = f[N].s
  BY <1>1, ScannedRuns
<1>3. \A n \in 0..N : f[n] = IF n = 0 THEN first ELSE ScanStep(f[n - 1], r[n], N - n)
  <2> HIDE DEF first
  <2> QED BY <1>2 DEF Scans
<1>4. /\ first \in [s : States, done : BOOLEAN] /\ first.s \in States /\ first.done = FALSE
      /\ first.s.ring = <<>> /\ first.s.scan = s.scan /\ first.s.mode = s.mode
      /\ Bare(first.s) = Bare(s)
  <2> DEFINE u == [s EXCEPT !.ring = <<>>]
  <2>1. u \in States /\ u.ring = <<>> /\ u.scan = s.scan /\ u.mode = s.mode /\ Bare(u) = Bare(s)
    BY Nothing, SettingIs, ZenonT(60)
  <2> HIDE DEF u
  <2>2. first = [s |-> u, done |-> FALSE]
    BY DEF u
  <2> QED BY <2>1, <2>2
<1> HIDE DEF first
<1>5. \A m \in 1..N : rest(m - 1) = <<r[m]>> \o rest(m) /\ rest(m) \in Seq(Octet)
  <2> TAKE m \in 1..N
  <2>1. (m - 1) + 1 = m
    OBVIOUS
  <2>2. SubSeq(r, m, N) \o tail = <<r[m]>> \o (SubSeq(r, m + 1, N) \o tail)
        /\ SubSeq(r, m + 1, N) \o tail \in Seq(Octet)
    <3> HIDE DEF r
    <3>1. r \in Seq(Octet) /\ N = Len(r)
      BY <1>1 DEF r
    <3> HIDE DEF N
    <3> QED BY <3>1, TailSplits
  <2> QED BY <2>1, <2>2
<1>6. rest(0) = r \o tail /\ rest(N) = tail
  <2>1. SubSeq(r, 1, N) = r /\ SubSeq(r, N + 1, N) = <<>> /\ 0 + 1 = 1
    BY <1>1
  <2>2. <<>> \o tail = tail
    BY Unit
  <2> QED BY <2>1, <2>2
<1> DEFINE I == {n \in 0..N : Walks(f[n], rest(n), N - n, z)}
<1>7. 0 \in I
  <2>1. Ahead(first.s, r \o tail) = Ahead(s, tail)
    <3>1. r \o tail \in Seq(Octet)
      BY <1>1, Joined
    <3> QED BY <1>4, <3>1, Unit DEF Ahead
  <2>2. Hears(first.s, r \o tail, z)
    BY <1>4, <2>1 DEF Hears
  <2>3. Len(first.s.scan) + Len(first.s.ring) + (N - 0) < RingCap
    <3>1. Len(first.s.scan) = Len(s.scan) /\ Len(first.s.ring) = 0
      BY <1>4
    <3>2. Len(s.scan) + N < RingCap /\ Len(s.scan) \in Nat /\ N \in Nat
      BY <1>1, <1>a, <1>b
    <3>3. Len(s.scan) + 0 + (N - 0) < RingCap
      <4> DEFINE q == Len(s.scan)
      <4> HIDE DEF q, N
      <4>1. q + N < RingCap /\ q \in Nat /\ N \in Nat
        BY <3>2 DEF q
      <4>2. q + 0 + (N - 0) < RingCap
        BY <4>1
      <4> QED BY <4>2 DEF q
    <3> QED BY <3>1, <3>3
  <2>4. Walks(first, r \o tail, N - 0, z)
    BY <1>4, <2>2, <2>3 DEF Walks
  <2>5. 0 \in 0..N /\ f[0] = first
    <3> HIDE DEF N
    <3> QED BY <1>1, <1>3
  <2> QED BY <1>6, <2>4, <2>5
<1>8. ASSUME NEW n \in 0..(N - 1)
      PROVE  /\ n + 1 \in 1..N /\ n + 1 \in 0..N /\ n \in 0..N /\ (n + 1) - 1 = n
             /\ N - n = (N - (n + 1)) + 1 /\ N - (n + 1) \in Nat /\ r[n + 1] \in Octet
             /\ f[n + 1] = ScanStep(f[n], r[n + 1], N - (n + 1))
  <2>1. /\ n + 1 \in 1..N /\ n + 1 \in 0..N /\ n \in 0..N /\ (n + 1) - 1 = n /\ n + 1 # 0
        /\ N - n = (N - (n + 1)) + 1 /\ N - (n + 1) \in Nat
    <3> HIDE DEF N
    <3> QED BY <1>1, <1>8
  <2>2. r[n + 1] \in Octet
    BY <1>1, <2>1
  <2> QED BY <1>3, <2>1, <2>2
<1>9. \A n \in 0..(N - 1) : n \in I => n + 1 \in I
  <2> TAKE n \in 0..(N - 1)
  <2> HAVE n \in I
  <2>1. Walks(f[n], <<r[n + 1]>> \o rest(n + 1), (N - (n + 1)) + 1, z)
    <3>1. rest(n) = <<r[n + 1]>> \o rest(n + 1)
      BY <1>5, <1>8
    <3>2. Walks(f[n], rest(n), N - n, z)
      OBVIOUS
    <3> HIDE DEF N, rest, I
    <3> QED BY <1>8, <3>1, <3>2
  <2>2. rest(n + 1) \in Seq(Octet)
    BY <1>5, <1>8
  <2>3. Walks(f[n + 1], rest(n + 1), N - (n + 1), z)
    <3> HIDE DEF N, rest, I, r
    <3> QED BY <1>8, <2>1, <2>2, StepWalks
  <2> QED BY <1>8, <2>3
<1>10. Walks(f[N], tail, 0, z)
  <2>1. N \in I
    <3> HIDE DEF I, N
    <3> QED BY <1>1, <1>7, <1>9, UpTo
  <2>2. Walks(f[N], rest(N), N - N, z) /\ N - N = 0
    BY <1>1, <2>1
  <2> HIDE DEF rest, N
  <2> QED BY <1>6, <2>2
<1>11. ASSUME s.scan = <<>>, s.mode = "writer", Stuck(r)
       PROVE  Scanned(s).ring # <<>> /\ Scanned(s).mode = "writer"
  <2>1. PICK j \in Int : Back(r, 1, j)
    BY <1>11 DEF Stuck
  <2>2. j \in 1..N
    BY <2>1 DEF Back
  <2> DEFINE J == {n \in 0..N : Nears(f[n], r, n, j)}
  <2>3. 0 \in J
    <3>1. SubSeq(r, 1, 0) = <<>>
      BY <1>1
    <3>2. Nears(first, r, 0, j)
      BY <1>4, <1>11, <2>2, <3>1 DEF Nears
    <3>3. 0 \in 0..N /\ f[0] = first
      <4> HIDE DEF N
      <4> QED BY <1>1, <1>3
    <3> QED BY <3>2, <3>3
  <2>4. N < RingCap
    <3> DEFINE q == Len(s.scan)
    <3>1. q + N < RingCap /\ q \in Nat /\ N \in Nat
      BY <1>1, <1>a, <1>b
    <3>2. RingCap \in Nat
      BY ConsoleSizesAssumption
    <3> HIDE DEF q, N
    <3> QED BY <3>1, <3>2
  <2>5. \A n \in 0..(N - 1) : n \in J => n + 1 \in J
    <3> TAKE n \in 0..(N - 1)
    <3> HAVE n \in J
    <3>1. Nears(f[n], r, n, j)
      OBVIOUS
    <3>2. Nears(ScanStep(f[n], r[n + 1], N - (n + 1)), r, n + 1, j)
      <4> HIDE DEF J, r
      <4>1. r \in Seq(Octet) /\ N = Len(r)
        BY <1>1 DEF r
      <4> HIDE DEF N
      <4> QED BY <2>1, <2>4, <3>1, <4>1, StepNears
    <3> QED BY <1>8, <3>2
  <2>6. N \in J
    <3> HIDE DEF J, N
    <3> QED BY <1>1, <2>3, <2>5, UpTo
  <2>7. Nears(f[N], r, N, j)
    BY <2>6
  <2>8. ~(N < j)
    <3> HIDE DEF N
    <3> QED BY <1>1, <2>2
  <2> QED BY <1>2, <2>7, <2>8 DEF Nears
<1>12. f[N].s \in States
  BY <1>10 DEF Walks
<1> HIDE DEF N
<1> QED BY <1>2, <1>10, <1>11, <1>12 DEF Walks

-----------------------------------------------------------------------------
(***************************************************************************)
(* The mode is that of the last mode line.                                 *)
(***************************************************************************)
AskedOf(lines) ==
  LET modes == {i \in DOMAIN lines : lines[i] \in ModeLines}
  IN  IF modes = {} THEN "reader" ELSE ModeAt(lines[Max(modes)], 1)

LEMMA MaxOf ==
  ASSUME NEW I \in SUBSET Int, NEW m \in I, \A i \in I : i <= m
  PROVE  Max(I) = m
<1>1. \A i \in I : m >= i /\ (i >= m => i = m)
  OBVIOUS
<1>2. Max(I) \in I /\ \A i \in I : Max(I) >= i
  <2>1. \E x \in I : \A i \in I : x >= i
    BY <1>1
  <2> QED BY <2>1 DEF Max
<1> QED BY <1>1, <1>2

LEMMA AskedNext ==
  ASSUME NEW q \in Seq(Seq(Octet)), NEW h \in Seq(Octet)
  PROVE  AskedOf(Append(q, h)) = IF h \in ModeLines THEN ModeAt(h, 1) ELSE AskedOf(q)
<1> DEFINE p == Append(q, h)
           n == Len(q)
           I == {i \in DOMAIN q : q[i] \in ModeLines}
           J == {i \in DOMAIN p : p[i] \in ModeLines}
<1>1. n \in Nat /\ DOMAIN q = 1..n
  OBVIOUS
<1>2. DOMAIN p = 1..(n + 1) /\ p[n + 1] = h /\ \A i \in 1..n : p[i] = q[i]
  OBVIOUS
<1> HIDE DEF n, p
<1>3. 1..(n + 1) = 1..n \cup {n + 1}
  BY <1>1
<1>4. CASE h \in ModeLines
  <2>1. n + 1 \in J /\ J \in SUBSET Int /\ \A i \in J : i <= n + 1
    BY <1>1, <1>2, <1>3, <1>4
  <2>2. Max(J) = n + 1
    <3> HIDE DEF J
    <3> QED BY <2>1, MaxOf
  <2> QED BY <1>2, <1>4, <2>1, <2>2 DEF AskedOf, p
<1>5. CASE h \notin ModeLines
  <2>1. J = I
    BY <1>1, <1>2, <1>3, <1>5
  <2>2. I # {} => Max(I) \in I
    <3>1. I \in SUBSET (1..n)
      BY <1>1
    <3> HIDE DEF I
    <3> QED BY <1>1, <3>1, MaxIn
  <2>3. I # {} => p[Max(I)] = q[Max(I)]
    <3>1. \A i \in I : p[i] = q[i]
      BY <1>1, <1>2
    <3> HIDE DEF I
    <3> QED BY <2>2, <3>1
  <2>4. AskedOf(q) = IF I = {} THEN "reader" ELSE ModeAt(q[Max(I)], 1)
    BY DEF AskedOf
  <2>5. AskedOf(p) = IF J = {} THEN "reader" ELSE ModeAt(p[Max(J)], 1)
    BY DEF AskedOf
  <2> HIDE DEF I, J
  <2> QED BY <1>5, <2>1, <2>3, <2>4, <2>5 DEF p
<1> QED BY <1>4, <1>5

(* The scanner's buffer holds more than a mode line, the ring what may come between *)
(* two looks at it and what the scanner holds, no byte comes between a look at the   *)
(* ring and a direct read, and a glitch is not the beginning of a mode line.         *)
Hearing ==
  /\ ScanCap > 4 /\ HwMax + HwMax + ScanCap <= RingCap + 1 /\ ~Late
  /\ \A bytes \in HostBytes : bytes \in ModeLines \/ Unmistaken(bytes)
EndsIn(z) ==
  /\ Hears(Here, hw \o out, z)
  /\ Len(hw) <= HwMax
  /\ mode = "reader" => ring = <<>> /\ pc \in {"poll", "rf"}
  /\ pc \in {"poll", "rf", "cli"} => ring = <<>> \/ scan = <<>>
  /\ pc = "avail" => ring = <<>> \/ (scan = <<>> /\ Stuck(ring))
  /\ pc = "read" => Len(ring) <= HwMax \/ (scan = <<>> /\ Stuck(ring))
  /\ pc = "direct" => ring = <<>> /\ hw = <<>>

LEMMA NowHere == ASSUME NEW s \in States, Now(s) PROVE Here' = s
BY DEF Now, Here, States
LEMMA HereEnds ==
  ASSUME NEW s, NEW tail, NEW z, Hears(s, tail, z), Here' = s, (hw \o out)' = tail
  PROVE  Hears(Here, hw \o out, z)'
<1>1. Settled(Ahead(s, tail)) /\ Leads(Ahead(s, tail), Bare(s), z) /\ Holding(s.scan)
  BY DEF Hears
<1> QED BY <1>1 DEF Hears, Ahead, Bare

LEMMA HoldsLittle ==
  ASSUME NEW h \in Seq(Octet), Holding(h), ScanCap > 4
  PROVE  Len(h) \in Nat /\ Len(h) <= ScanCap - 2
<1> DEFINE n == Len(h)
<1>1. n \in Nat /\ ScanCap \in Nat
  BY ConsoleSizesAssumption
<1>2. CASE n = 0
  BY <1>1, <1>2
<1>3. CASE n # 0
  <2>1. n \in 1..Len(h)
    BY <1>1, <1>3
  <2>2. Keeps(h, 1, n)
    BY <2>1 DEF Holding
  <2>3. n - 1 + 1 < ScanCap - 1
    BY <2>2 DEF Keeps
  <2> HIDE DEF n
  <2>4. n <= ScanCap - 2
    BY <1>1, <2>3
  <2> QED BY <1>1, <2>4 DEF n
<1> QED BY <1>2, <1>3

LEMMA Assoc ==
  ASSUME NEW a \in Seq(Octet), NEW b \in Seq(Octet), NEW c \in Seq(Octet)
  PROVE  (a \o b) \o c = a \o (b \o c)
OBVIOUS

LEMMA CutJoins ==
  ASSUME NEW h \in Seq(Octet), NEW n \in 0..Len(h)
  PROVE  /\ SubSeq(h, 1, n) \in Seq(Octet) /\ Len(SubSeq(h, 1, n)) = n
         /\ SubSeq(h, n + 1, Len(h)) \in Seq(Octet)
         /\ SubSeq(h, 1, n) \o SubSeq(h, n + 1, Len(h)) = h
<1>1. PICK a : a = SubSeq(h, 1, n)
  OBVIOUS
<1>2. PICK b : b = SubSeq(h, n + 1, Len(h))
  OBVIOUS
<1>3. PICK l : l = Len(h)
  OBVIOUS
<1>4. l \in Nat /\ n \in 0..l
  BY <1>3
<1>5. a \in Seq(Octet) /\ Len(a) = n /\ \A x \in 1..n : a[x] = h[x]
  BY <1>1
<1>6. b \in Seq(Octet) /\ Len(b) = l - n /\ \A x \in 1..(l - n) : b[x] = h[n + x]
  BY <1>2, <1>3
<1>7. PICK c : c = a \o b
  OBVIOUS
<1>8. /\ c \in Seq(Octet) /\ Len(c) = n + (l - n) /\ \A x \in 1..n : c[x] = a[x]
      /\ \A x \in 1..(l - n) : c[n + x] = b[x]
  <2>1. /\ c \in Seq(Octet) /\ Len(c) = Len(a) + Len(b) /\ \A x \in 1..Len(a) : c[x] = a[x]
        /\ \A x \in 1..Len(b) : c[Len(a) + x] = b[x]
    <3>1. a \in Seq(Octet) /\ b \in Seq(Octet)
      BY <1>5, <1>6
    <3> QED BY <1>7, <3>1, Joined
  <2> QED BY <1>5, <1>6, <2>1
<1>9. Len(c) = Len(h)
  BY <1>3, <1>4, <1>8
<1>10. \A x \in 1..Len(c) : c[x] = h[x]
  <2> TAKE x \in 1..Len(c)
  <2>1. x \in 1..n \/ (x - n \in 1..(l - n) /\ n + (x - n) = x)
    BY <1>4, <1>8
  <2> QED BY <1>5, <1>6, <1>8, <2>1
<1>11. c = h
  BY <1>8, <1>9, <1>10, SameSeq
<1> QED BY <1>1, <1>2, <1>5, <1>6, <1>7, <1>11

(* What the ring is preloaded with *)
LEMMA PreloadHears ==
  ASSUME ConsoleInv, NEW z, Hears(Here, hw \o out, z)
  PROVE  LET p == Preloaded(Here, Room)
             rest == SubSeq(hw, Room + 1, Len(hw))
         IN  /\ p \in States /\ Len(p.ring) < RingCap
             /\ p.scan = scan /\ p.mode = mode /\ rest \in Seq(Octet) /\ out \in Seq(Octet)
             /\ Hears(p, rest \o out, z)
             /\ p.ring \in Seq(Octet) /\ Len(p.ring) = Len(ring) + Room
             /\ Stuck(ring) => Stuck(p.ring)
             /\ Room \in 0..Len(hw) /\ Len(hw) \in Nat /\ Len(ring) \in Nat
<1> DEFINE p == Preloaded(Here, Room)
           a == SubSeq(hw, 1, Room)
           rest == SubSeq(hw, Room + 1, Len(hw))
<1>1. ring \in Seq(Octet) /\ scan \in Seq(Octet) /\ hw \in Seq(Octet) /\ out \in Seq(Octet)
  BY HereIs DEF ConsoleInv
<1>2. Room \in 0..Len(hw) /\ Len(hw) \in Nat /\ p \in States /\ Len(p.ring) < RingCap
  BY RoomIs
<1>3. a \in Seq(Octet) /\ Len(a) = Room /\ rest \in Seq(Octet) /\ a \o rest = hw
  BY <1>1, <1>2, CutJoins
<1>4. p.ring = ring \o a /\ p.scan = scan /\ p.mode = mode
  BY DEF Preloaded, Here
<1>10. Bare(p) = Bare(Here)
  BY DEF Preloaded, Here, Bare
<1> HIDE DEF p, a, rest
<1>5. p.ring \in Seq(Octet) /\ Len(p.ring) = Len(ring) + Room /\ \A x \in 1..Len(ring) : p.ring[x] = ring[x]
  <2>1. /\ ring \o a \in Seq(Octet) /\ Len(ring \o a) = Len(ring) + Len(a)
        /\ \A x \in 1..Len(ring) : (ring \o a)[x] = ring[x]
    BY <1>1, <1>3, Joined
  <2> QED BY <1>3, <1>4, <2>1
<1>6. Stuck(ring) => Stuck(p.ring)
  <2>1. Len(ring) <= Len(p.ring)
    <3> DEFINE k == Len(ring)
    <3>1. k \in Nat /\ Room \in Nat /\ Len(p.ring) = k + Room
      BY <1>1, <1>2, <1>5
    <3> HIDE DEF k
    <3>2. k <= Len(p.ring)
      BY <3>1
    <3> QED BY <3>2 DEF k
  <2> QED BY <1>1, <1>5, <2>1, StuckStays
<1>7. Ahead(p, rest \o out) = Ahead(Here, hw \o out)
  <2>1. (ring \o a) \o (rest \o out) = ring \o (hw \o out)
    <3>1. (ring \o a) \o (rest \o out) = ring \o (a \o (rest \o out))
      <4>1. rest \o out \in Seq(Octet)
        BY <1>1, <1>3, Joined
      <4>2. ring \in Seq(Octet) /\ a \in Seq(Octet)
        BY <1>1, <1>3
      <4> QED BY <4>1, <4>2, Assoc
    <3>2. a \o (rest \o out) = (a \o rest) \o out
      <4>1. rest \in Seq(Octet) /\ a \in Seq(Octet) /\ out \in Seq(Octet)
        BY <1>1, <1>3
      <4> QED BY <4>1, Assoc
    <3> QED BY <1>3, <3>1, <3>2
  <2>2. Here.scan = scan /\ Here.ring = ring
    BY DEF Here
  <2> QED BY <1>4, <2>1, <2>2 DEF Ahead
<1>8. Hears(p, rest \o out, z)
  <2>1. Here.scan = scan /\ Here.mode = mode
    BY DEF Here
  <2> QED BY <1>4, <1>7, <1>10, <2>1 DEF Hears
<1>9. Len(ring) \in Nat
  BY <1>1
<1> QED BY <1>1, <1>2, <1>3, <1>4, <1>5, <1>6, <1>8, <1>9 DEF p, rest

LEMMA ScanFits ==
  ASSUME ConsoleInv, Hearing, NEW z, Hears(Here, hw \o out, z), Len(hw) <= HwMax,
         scan = <<>> \/ Len(ring) <= HwMax
  PROVE  Len(scan) + Len(Preloaded(Here, Room).ring) < RingCap
<1> DEFINE k == Len(scan)
           r == Len(ring)
           w == Len(hw)
           n == Len(Preloaded(Here, Room).ring)
<1>1. n < RingCap /\ n = r + Room /\ Room \in 0..w /\ w \in Nat /\ r \in Nat
  BY PreloadHears
<1>2. k \in Nat /\ k <= ScanCap - 2 /\ (scan = <<>> => k = 0)
  <2>1. scan \in Seq(Octet) /\ Holding(scan)
    BY HereIs DEF ConsoleInv, Hears, Here
  <2> QED BY <2>1, HoldsLittle DEF Hearing
<1>3. HwMax \in Nat /\ RingCap \in Nat /\ ScanCap \in Nat /\ HwMax + HwMax + ScanCap <= RingCap + 1 /\ w <= HwMax
  BY ConsoleSizesAssumption DEF Hearing
<1>4. k = 0 \/ r <= HwMax
  BY <1>2
<1> HIDE DEF k, r, w, n
<1>5. k + n < RingCap
  <2>1. CASE k = 0
    BY <1>1, <1>3, <2>1
  <2>2. CASE r <= HwMax
    BY <1>1, <1>2, <1>3, <2>2
  <2> QED BY <1>4, <2>1, <2>2
<1> QED BY <1>5 DEF k, n

LEMMA PollHears == ASSUME ConsoleInv, NEW z, EndsIn(z), Hearing, PollModeSwitch PROVE EndsIn(z)'
<1> DEFINE p == Preloaded(Here, Room)
           s == Scanned(p)
           rest == SubSeq(hw, Room + 1, Len(hw))
<1>1. /\ pc \in {"poll", "cli"} /\ Now(s) /\ Taken(Room) /\ UNCHANGED <<out, sent>>
      /\ pc' = CASE s.mode # mode -> "poll"
                 [] s.mode = mode /\ pc = "cli" -> "avail"
                 [] s.mode = mode /\ pc = "poll" -> IF mode = "reader" THEN "rf" ELSE "cli"
  BY DEF PollModeSwitch, Host
<1>2. Hears(Here, hw \o out, z) /\ Len(hw) <= HwMax /\ (ring = <<>> \/ scan = <<>>)
      /\ (mode = "reader" => pc = "poll")
  BY <1>1 DEF EndsIn
<1>3. /\ p \in States /\ rest \in Seq(Octet) /\ rest \o out \in Seq(Octet) /\ Hears(p, rest \o out, z)
      /\ p.scan = scan /\ p.mode = mode /\ Room \in 0..Len(hw) /\ Len(hw) \in Nat
  <2>1. /\ p \in States /\ rest \in Seq(Octet) /\ out \in Seq(Octet) /\ Hears(p, rest \o out, z)
        /\ p.scan = scan /\ p.mode = mode /\ Room \in 0..Len(hw) /\ Len(hw) \in Nat
    BY <1>2, PreloadHears
  <2>2. rest \o out \in Seq(Octet)
    <3> HIDE DEF rest
    <3> QED BY <2>1, Joined
  <2> QED BY <2>1, <2>2
<1>4. Len(p.scan) + Len(p.ring) < RingCap
  <2>1. scan = <<>> \/ Len(ring) <= HwMax
    BY <1>2, ConsoleSizesAssumption
  <2>2. Len(scan) + Len(p.ring) < RingCap
    BY <1>2, <2>1, ScanFits
  <2> QED BY <1>3, <2>2
<1> HIDE DEF p, rest
<1>5. /\ s \in States /\ Hears(s, rest \o out, z)
      /\ s.ring = <<>> \/ (s.scan = <<>> /\ s.mode = "writer" /\ Stuck(s.ring))
  BY <1>3, <1>4, ScannedHears DEF Hearing
<1>6. hw' = rest /\ Len(rest) <= HwMax
  <2>1. hw' = rest
    BY <1>1 DEF Taken, rest
  <2>2. hw \in Seq(Octet)
    BY DEF ConsoleInv
  <2>3. Len(rest) = Len(hw) - Room
    BY <1>3, <2>2 DEF rest
  <2> DEFINE w == Len(hw)
  <2>4. w - Room <= HwMax
    <3>1. w <= HwMax /\ Room \in 0..w /\ w \in Nat /\ HwMax \in Nat
      BY <1>2, <1>3, ConsoleSizesAssumption
    <3> HIDE DEF w
    <3> QED BY <3>1
  <2> QED BY <2>1, <2>3, <2>4
<1> HIDE DEF s
<1>8. Hears(Here, hw \o out, z)'
  <2>1. (hw \o out)' = rest \o out
    BY <1>1, <1>6
  <2>2. Here' = s
    BY <1>1, <1>5, NowHere
  <2> QED BY <1>5, <2>1, <2>2, HereEnds
<1>9. ring' = s.ring /\ scan' = s.scan /\ mode' = s.mode
  BY <1>1 DEF Now
<1>10. s.mode = "reader" => s.ring = <<>>
  BY <1>5
<1>11. /\ pc' \in {"poll", "avail", "rf", "cli"}
       /\ mode' = "reader" => pc' \in {"poll", "rf"}
  <2>1. CASE s.mode # mode
    BY <1>1, <2>1
  <2>2. CASE s.mode = mode /\ pc = "cli"
    BY <1>1, <1>2, <1>9, <2>2
  <2>3. CASE s.mode = mode /\ pc = "poll"
    BY <1>1, <1>9, <2>3
  <2> QED BY <1>1, <2>1, <2>2, <2>3
<1>12. Len(hw') <= HwMax
  BY <1>1, <1>6 DEF EndsIn
<1>13. /\ pc' \in {"poll", "rf", "cli"} => ring' = <<>> \/ scan' = <<>>
       /\ pc' = "avail" => ring' = <<>> \/ (scan' = <<>> /\ Stuck(ring'))
       /\ pc' # "read" /\ pc' # "direct"
       /\ mode' = "reader" => ring' = <<>>
  BY <1>5, <1>9, <1>10, <1>11
<1> QED BY <1>8, <1>11, <1>12, <1>13 DEF EndsIn

LEMMA AvailableHears == ASSUME ConsoleInv, NEW z, EndsIn(z), Hearing, Available PROVE EndsIn(z)'
<1> DEFINE p == Preloaded(Here, Room)
           rest == SubSeq(hw, Room + 1, Len(hw))
<1>1. /\ pc = "avail" /\ Now(p) /\ Taken(Room) /\ UNCHANGED <<out, sent>>
      /\ pc' = IF ring = <<>> /\ hw = <<>> THEN "rf" ELSE "read"
  BY DEF Available, Host
<1>2. Hears(Here, hw \o out, z) /\ Len(hw) <= HwMax /\ (ring = <<>> \/ (scan = <<>> /\ Stuck(ring)))
      /\ mode # "reader"
  BY <1>1 DEF EndsIn
<1>3. /\ Hears(p, rest \o out, z) /\ p.scan = scan /\ p.mode = mode /\ Room \in 0..Len(hw)
      /\ Len(hw) \in Nat /\ Len(p.ring) = Len(ring) + Room /\ (Stuck(ring) => Stuck(p.ring))
      /\ Len(ring) \in Nat
  BY <1>2, PreloadHears
<1> HIDE DEF p
<1> DEFINE w == Len(hw)
<1>4. w <= HwMax /\ Room \in 0..w /\ w \in Nat /\ HwMax \in Nat
  BY <1>2, <1>3, ConsoleSizesAssumption
<1>5. hw' = rest /\ Len(rest) <= HwMax
  <2>1. hw' = rest
    BY <1>1 DEF Taken
  <2>2. hw \in Seq(Octet)
    BY DEF ConsoleInv
  <2>3. Len(rest) = w - Room
    BY <1>3, <2>2
  <2>4. w - Room <= HwMax
    <3> HIDE DEF w
    <3> QED BY <1>4
  <2> HIDE DEF rest, w
  <2> QED BY <2>1, <2>3, <2>4
<1> HIDE DEF rest
<1>6. ring' = p.ring /\ scan' = scan /\ mode' = mode
  BY <1>1, <1>3 DEF Now
<1>7. Hears(Here, hw \o out, z)'
  <2>1. (hw \o out)' = rest \o out
    BY <1>1, <1>5
  <2>2. Here' = p
    <3>1. p \in States
      BY <1>2, PreloadHears DEF p
    <3> QED BY <1>1, <3>1, NowHere
  <2> QED BY <1>3, <2>1, <2>2, HereEnds
<1>8. CASE ring = <<>> /\ hw = <<>>
  <2>1. Len(p.ring) = 0
    <3>1. Len(ring) = 0 /\ Len(hw) = 0
      BY <1>8
    <3> QED BY <1>3, <3>1
  <2>2. ring' = <<>>
    <3>1. p.ring \in Seq(Octet)
      BY <1>2, PreloadHears DEF p
    <3> QED BY <1>6, <2>1, <3>1
  <2>3. Len(hw') <= HwMax /\ pc' = "rf"
    BY <1>1, <1>5, <1>8 DEF EndsIn
  <2> QED BY <1>2, <1>6, <1>7, <2>2, <2>3 DEF EndsIn
<1>9. CASE ~(ring = <<>> /\ hw = <<>>)
  <2>1. Len(ring') <= HwMax \/ (scan' = <<>> /\ Stuck(ring'))
    <3>1. CASE ring = <<>>
      <4>1. Len(p.ring) = 0 + Room
        <5>1. Len(ring) = 0
          BY <3>1
        <5> QED BY <1>3, <5>1
      <4>2. 0 + Room <= HwMax
        <5> HIDE DEF w
        <5> QED BY <1>4
      <4> QED BY <1>6, <4>1, <4>2
    <3>2. CASE scan = <<>> /\ Stuck(ring)
      BY <1>3, <1>6, <3>2
    <3> QED BY <1>2, <3>1, <3>2
  <2>2. Len(hw') <= HwMax /\ pc' = "read"
    BY <1>1, <1>5, <1>9 DEF EndsIn
  <2> QED BY <1>2, <1>6, <1>7, <2>1, <2>2 DEF EndsIn
<1> QED BY <1>8, <1>9

LEMMA HeadThen ==
  ASSUME NEW r \in Seq(Octet), r # <<>>, NEW tail \in Seq(Octet)
  PROVE  /\ Head(r) \in Octet /\ Tail(r) \in Seq(Octet) /\ Tail(r) \o tail \in Seq(Octet)
         /\ r \o tail = <<Head(r)>> \o (Tail(r) \o tail)
<1> DEFINE n == Len(r)
<1>1. n \in Nat /\ n # 0
  OBVIOUS
<1>2. 1 \in 1..n
  BY <1>1
<1>3. SubSeq(r, 1, Len(r)) = r /\ SubSeq(r, 1 + 1, Len(r)) = Tail(r) /\ r[1] = Head(r)
  OBVIOUS
<1>4. /\ SubSeq(r, 1, Len(r)) \o tail = <<r[1]>> \o (SubSeq(r, 1 + 1, Len(r)) \o tail)
      /\ SubSeq(r, 1 + 1, Len(r)) \o tail \in Seq(Octet)
  BY <1>2, TailSplits
<1>5. Head(r) \in Octet /\ Tail(r) \in Seq(Octet)
  BY <1>1
<1> QED BY <1>3, <1>4, <1>5

(* The first byte of what is to be returned is not of a mode line. *)
LEMMA ByteTaken ==
  ASSUME NEW r \in Seq(Octet), Stuck(r), NEW tail \in Seq(Octet), NEW c, c.mode = "writer", NEW z,
         ScanCap > 4,
         Settled(r \o tail), Leads(r \o tail, c, z), r # <<>>
  PROVE  Settled(Tail(r) \o tail) /\ Leads(Tail(r) \o tail, Typed(c, Head(r)), z)
<1>1. PICK s : s = r \o tail
  OBVIOUS
<1>2. PICK t : t = Tail(r) \o tail
  OBVIOUS
<1>3. Head(r) \in Octet /\ t \in Seq(Octet) /\ s = <<Head(r)>> \o t
  BY <1>1, <1>2, HeadThen
<1>4. s \in Seq(Octet) /\ Rest(s, t, 1)
  <2>1. <<>> \in Seq(Octet) /\ Len(<<>>) = 0
    OBVIOUS
  <2>2. <<>> \o s = s /\ s \in Seq(Octet)
    <3>1. s \in Seq(Octet)
      BY <1>1, Joined
    <3> QED BY <3>1, Unit
  <2>3. Followed(<<>>, Head(r), t, s)
    BY <1>3, <2>1, <2>2, FollowedIs
  <2>4. Len(s) = 0 + 1 + Len(t) /\ \A x \in 1..Len(t) : s[x + (0 + 1)] = t[x]
    BY <2>1, <2>3 DEF Followed
  <2> QED BY <2>2, <2>4 DEF Rest
<1>5. PICK j \in Int : Back(s, 1, j)
  <2>1. /\ Len(s) = Len(r) + Len(tail) /\ \A x \in 1..Len(r) : s[x] = r[x]
    BY <1>1, Joined
  <2>2. Len(r) <= Len(s)
    <3> DEFINE a == Len(r)
               b == Len(tail)
    <3>1. a \in Nat /\ b \in Nat /\ Len(s) = a + b
      BY <2>1
    <3> HIDE DEF a, b
    <3>2. a <= Len(s)
      BY <3>1
    <3> QED BY <3>2 DEF a
  <2>3. Stuck(s)
    BY <1>4, <2>1, <2>2, StuckStays
  <2> QED BY <2>3 DEF Stuck
<1>6. \A k \in Int : At(s, k) => k > 1
  <2>1. \A k \in Int : At(s, k) => k > j
    BY <1>1, <1>4, <1>5, StuckFirst
  <2>2. j >= 1
    BY <1>5 DEF Back
  <2> QED BY <2>1, <2>2
<1>7. Settled(s) /\ Leads(s, c, z)
  BY <1>1
<1>8. Settled(t) /\ Leads(t, Typed(c, s[1]), z)
  <2>1. t \in Seq(Octet)
    BY <1>3
  <2> QED BY <1>4, <1>6, <1>7, <2>1, ByteTyped
<1>9. s[1] = Head(r)
  <2>1. /\ Followed(<<>>, Head(r), t, <<>> \o (<<Head(r)>> \o t)) /\ <<>> \in Seq(Octet)
    BY <1>3, Nothing, FollowedIs
  <2>2. <<>> \o (<<Head(r)>> \o t) = s
    BY <1>3, <1>4, Unit
  <2>3. Len(<<>>) + 1 = 1
    OBVIOUS
  <2> QED BY <2>1, <2>2, <2>3 DEF Followed
<1> QED BY <1>2, <1>8, <1>9

LEMMA LeftOver ==
  ASSUME ConsoleInv, Len(hw) <= HwMax
  PROVE  Len(SubSeq(hw, Room + 1, Len(hw))) = Len(hw) - Room /\ Len(hw) - Room <= HwMax
<1> DEFINE w == Len(hw)
<1>1. Room \in 0..w /\ w \in Nat /\ hw \in Seq(Octet)
  BY RoomIs DEF ConsoleInv
<1>2. Len(SubSeq(hw, Room + 1, w)) = w - Room
  BY <1>1
<1>3. w <= HwMax /\ Room \in 0..w /\ w \in Nat /\ HwMax \in Nat
  BY <1>1, ConsoleSizesAssumption
<1> HIDE DEF w
<1>4. w - Room <= HwMax
  BY <1>3
<1> QED BY <1>2, <1>4 DEF w

LEMMA ReadRingHears == ASSUME ConsoleInv, NEW z, EndsIn(z), Hearing, ReadRing PROVE EndsIn(z)'
<1> DEFINE p == Preloaded(Here, Room)
           s == Scanned(p)
           rest == SubSeq(hw, Room + 1, Len(hw))
           left == [s EXCEPT !.ring = Tail(s.ring)]
<1>1. /\ pc = "read" /\ Taken(Room) /\ UNCHANGED <<out, sent>>
      /\ IF s.mode = mode /\ s.ring # <<>>
         THEN Now(Typed([s EXCEPT !.ring = Tail(@)], Head(s.ring))) ELSE Now(s)
      /\ pc' = CASE s.mode # mode -> "poll" [] s.mode = mode /\ s.ring # <<>> -> "rf" [] OTHER -> "direct"
  BY DEF ReadRing, Host
<1>2. /\ Hears(Here, hw \o out, z) /\ Len(hw) <= HwMax /\ mode # "reader"
      /\ Len(ring) <= HwMax \/ (scan = <<>> /\ Stuck(ring))
  BY <1>1 DEF EndsIn
<1>3. mode = "writer"
  <2>1. mode \in BothModes
    BY HereIs DEF ConsoleInv
  <2> QED BY <1>2, <2>1 DEF BothModes
<1>4. /\ p \in States /\ rest \in Seq(Octet) /\ out \in Seq(Octet) /\ Hears(p, rest \o out, z)
      /\ p.scan = scan /\ p.mode = mode /\ Room \in 0..Len(hw) /\ Len(hw) \in Nat
      /\ Stuck(ring) => Stuck(p.ring)
  BY <1>2, PreloadHears
<1>5. hw' = rest /\ Len(rest) = Len(hw) - Room /\ Len(rest) <= HwMax
  <2>1. Len(rest) = Len(hw) - Room /\ Len(hw) - Room <= HwMax
    BY <1>2, LeftOver
  <2> QED BY <1>1, <2>1 DEF Taken
<1>6. Len(p.scan) + Len(p.ring) < RingCap
  BY <1>2, <1>4, ScanFits
<1> HIDE DEF p
<1>7. rest \o out \in Seq(Octet)
  <2> HIDE DEF rest
  <2> QED BY <1>4, Joined
<1> HIDE DEF rest
<1>8. /\ s \in States /\ Hears(s, rest \o out, z)
      /\ s.ring = <<>> \/ (s.scan = <<>> /\ s.mode = "writer" /\ Stuck(s.ring))
      /\ p.scan = <<>> /\ p.mode = "writer" /\ Stuck(p.ring) => s.ring # <<>> /\ s.mode = "writer"
  BY <1>4, <1>6, <1>7, ScannedHears DEF Hearing
<1>9. s.ring \in Seq(Octet) /\ s.mode \in BothModes
  BY <1>8, StatesAre
<1> HIDE DEF s
<1>10. (hw \o out)' = rest \o out
  BY <1>1, <1>5
<1>11. Len(hw') <= HwMax
  BY <1>1, <1>5 DEF EndsIn
<1>12. CASE s.mode = mode /\ s.ring # <<>>
  <2> DEFINE t == Typed(left, Head(s.ring))
  <2>1. s.scan = <<>> /\ s.mode = "writer" /\ Stuck(s.ring)
    BY <1>8, <1>12
  <2>2. Head(s.ring) \in Octet /\ Tail(s.ring) \in Seq(Octet)
    BY <1>7, <1>9, <1>12, HeadThen
  <2>3. left \in States /\ left.ring = Tail(s.ring) /\ left.scan = s.scan /\ left.mode = s.mode
    BY <1>8, <2>2, SettingIs
  <2>4. [s EXCEPT !.ring = Tail(@)] = left
    BY <1>8 DEF States
  <2> HIDE DEF left
  <2>a. Bare(left) = Bare(s)
    BY <1>8, <2>2, SettingIs DEF left
  <2>5. /\ t.ring = Tail(s.ring) /\ t.scan = <<>> /\ t.mode = "writer" /\ t \in States
        /\ Bare(t) = Typed(Bare(s), Head(s.ring))
    BY <2>1, <2>2, <2>3, <2>a, TypedIs, TypedKeeps
  <2>6. Now(t) /\ pc' = "rf"
    BY <1>1, <1>12, <2>4
  <2> HIDE DEF t
  <2>7. ring' = Tail(s.ring) /\ scan' = <<>> /\ mode' = "writer"
    BY <2>5, <2>6 DEF Now
  <2>8. Settled(s.ring \o (rest \o out)) /\ Leads(s.ring \o (rest \o out), Bare(s), z)
    <3>1. Ahead(s, rest \o out) = s.ring \o (rest \o out)
      <4>1. s.ring \o (rest \o out) \in Seq(Octet)
        BY <1>7, <1>9, Joined
      <4> QED BY <2>1, <4>1, Unit DEF Ahead
    <3> QED BY <1>8, <2>1, <3>1 DEF Hears
  <2>9. /\ Settled(Tail(s.ring) \o (rest \o out)) /\ Leads(Tail(s.ring) \o (rest \o out), Bare(t), z)
        /\ Tail(s.ring) \o (rest \o out) \in Seq(Octet)
    <3>1. Tail(s.ring) \o (rest \o out) \in Seq(Octet)
      BY <1>7, <1>9, <1>12, HeadThen
    <3>2. ScanCap > 4 /\ Bare(s).mode = "writer"
      BY <1>8, <2>1, BareIs DEF Hearing
    <3> QED BY <1>7, <1>9, <1>12, <2>1, <2>5, <2>8, <3>1, <3>2, ByteTaken
  <2>10. Hears(Here, hw \o out, z)'
    <3>1. Here' = t
      BY <2>5, <2>6, NowHere
    <3>2. Ahead(t, rest \o out) = Tail(s.ring) \o (rest \o out)
      BY <2>5, <2>9, Unit DEF Ahead
    <3>3. Holding(t.scan)
      BY <2>5 DEF Holding
    <3>4. Hears(t, rest \o out, z)
      BY <2>9, <3>2, <3>3 DEF Hears
    <3> QED BY <1>10, <3>1, <3>4, HereEnds
  <2> QED BY <1>11, <2>6, <2>7, <2>10 DEF EndsIn
<1>13. CASE ~(s.mode = mode /\ s.ring # <<>>)
  <2>1. ring' = s.ring /\ scan' = s.scan /\ mode' = s.mode
    BY <1>1, <1>13 DEF Now
  <2>2. Hears(Here, hw \o out, z)'
    <3>1. Here' = s
      BY <1>1, <1>8, <1>13, NowHere
    <3> QED BY <1>8, <1>10, <3>1, HereEnds
  <2>3. CASE s.mode # mode
    <3>1. s.mode = "reader" /\ s.ring = <<>>
      BY <1>3, <1>8, <1>9, <2>3 DEF BothModes
    <3>2. pc' = "poll"
      BY <1>1, <2>3
    <3> QED BY <1>11, <2>1, <2>2, <3>1, <3>2 DEF EndsIn
  <2>4. CASE s.mode = mode
    <3>1. s.ring = <<>> /\ pc' = "direct"
      BY <1>1, <1>13, <2>4
    <3>2. Len(ring) <= HwMax
      BY <1>2, <1>3, <1>4, <1>8, <3>1
    <3>3. rest = <<>>
      <4> DEFINE w == Len(hw)
                 r == Len(ring)
      <4>1. Room = IF w < RingCap - 1 - r THEN w ELSE RingCap - 1 - r
        BY DEF Room
      <4>2. w \in Nat /\ r \in Nat /\ w <= HwMax /\ r <= HwMax
        BY <1>2, <1>4, <3>2, PreloadHears
      <4>3. /\ HwMax \in Nat /\ RingCap \in Nat /\ ScanCap \in Nat /\ ScanCap > 4
            /\ HwMax + HwMax + ScanCap <= RingCap + 1
        BY ConsoleSizesAssumption DEF Hearing
      <4> HIDE DEF w, r
      <4>4. Room = w
        BY <4>1, <4>2, <4>3
      <4>5. Len(rest) = 0
        BY <1>5, <4>2, <4>4 DEF w
      <4> QED BY <1>4, <4>5
    <3> QED BY <1>3, <1>5, <1>11, <2>1, <2>2, <2>4, <3>1, <3>3 DEF EndsIn
  <2> QED BY <2>3, <2>4
<1> QED BY <1>12, <1>13

LEMMA ReadDirectHears == ASSUME ConsoleInv, NEW z, EndsIn(z), Hearing, ReadDirect PROVE EndsIn(z)'
<1>1. pc = "direct" /\ pc' = "rf" /\ UNCHANGED <<out, sent>>
  BY DEF ReadDirect, Host
<1>2. ring = <<>> /\ hw = <<>> /\ mode # "reader" /\ Hears(Here, hw \o out, z)
  BY <1>1 DEF EndsIn
<1>3. Now(Here) /\ Taken(0)
  BY <1>2 DEF ReadDirect
<1>4. UNCHANGED <<ring, scan, mode>> /\ Here' = Here
  BY <1>3 DEF Now, Here
<1>5. hw' = hw
  <2>1. SubSeq(hw, 0 + 1, Len(hw)) = <<>>
    BY <1>2
  <2> QED BY <1>2, <1>3, <2>1 DEF Taken
<1>6. Hears(Here, hw \o out, z)'
  <2>1. (hw \o out)' = hw \o out
    BY <1>1, <1>5
  <2> QED BY <1>2, <1>4, <2>1, HereEnds
<1>7. Len(hw') <= HwMax
  BY <1>1, <1>5 DEF EndsIn
<1> QED BY <1>1, <1>2, <1>4, <1>6, <1>7 DEF EndsIn

LEMMA ArriveHears == ASSUME ConsoleInv, NEW z, EndsIn(z), Hearing, Arrive PROVE EndsIn(z)'
<1>1. /\ out # <<>> /\ hw' = Append(hw, Head(out)) /\ out' = Tail(out) /\ Len(hw) < HwMax /\ pc # "direct"
      /\ UNCHANGED <<ring, scan, mode, pc>> /\ Here' = Here
  BY DEF Arrive, firmwareVars, Hearing, Here
<1>2. out \in Seq(Octet) /\ hw \in Seq(Octet)
  BY DEF ConsoleInv
<1>3. Head(out) \in Octet /\ Tail(out) \in Seq(Octet) /\ out = <<Head(out)>> \o Tail(out)
  <2>1. <<>> \in Seq(Octet)
    OBVIOUS
  <2>2. /\ Head(out) \in Octet /\ Tail(out) \in Seq(Octet)
        /\ out \o <<>> = <<Head(out)>> \o (Tail(out) \o <<>>)
    BY <1>1, <1>2, <2>1, HeadThen
  <2>3. out \o <<>> = out /\ Tail(out) \o <<>> = Tail(out)
    BY <1>2, <2>2, Unit
  <2> QED BY <2>2, <2>3
<1>4. hw' \o out' = hw \o out
  <2>1. Append(hw, Head(out)) \o Tail(out) = hw \o (<<Head(out)>> \o Tail(out))
    BY <1>2, <1>3, FollowedIs
  <2> QED BY <1>1, <1>3, <2>1
<1>5. Len(hw') <= HwMax
  <2> DEFINE w == Len(hw)
  <2>1. w \in Nat /\ HwMax \in Nat /\ w < HwMax
    BY <1>1, <1>2, ConsoleSizesAssumption
  <2>2. Len(hw') = w + 1
    BY <1>1, <1>2, <1>3
  <2> HIDE DEF w
  <2>3. w + 1 <= HwMax
    BY <2>1
  <2> QED BY <2>2, <2>3
<1>6. Hears(Here, hw \o out, z)'
  <2>1. (hw \o out)' = hw \o out
    BY <1>4
  <2>2. Hears(Here, hw \o out, z)
    BY DEF EndsIn
  <2> QED BY <1>1, <2>1, <2>2, HereEnds
<1> QED BY <1>1, <1>5, <1>6 DEF EndsIn

(* What the host sends is taken as a whole: a mode line switches the mode, anything *)
(* else is typed in the writer and dropped in the reader.                           *)
Follows(z, h) ==
  IF h \in ModeLines THEN Switched(z, ModeAt(h, 1)) ELSE IF z.mode = "writer" THEN TypedAll(z, h) ELSE z

LEMMA ModeOfLine == ASSUME NEW h PROVE ModeAt(h, 1) \in BothModes
BY DEF ModeAt, BothModes

LEMMA FollowsIs ==
  ASSUME NEW z \in States, NEW h \in Seq(Octet)
  PROVE  /\ Follows(z, h) \in States
         /\ Follows(z, h).mode = IF h \in ModeLines THEN ModeAt(h, 1) ELSE z.mode
<1>1. CASE h \in ModeLines
  <2>1. PICK m \in BothModes : m = ModeAt(h, 1)
    BY ModeOfLine
  <2>2. Switched(z, m) \in States
    BY SwitchedIs
  <2>3. Switched(z, m).mode = m
    BY <2>2 DEF Switched, States
  <2> QED BY <1>1, <2>1, <2>2, <2>3 DEF Follows
<1>2. CASE h \notin ModeLines /\ z.mode = "writer"
  BY <1>2, TypedAllIs, TypedAllMode DEF Follows
<1>3. CASE h \notin ModeLines /\ z.mode # "writer"
  BY <1>3 DEF Follows
<1> QED BY <1>1, <1>2, <1>3

LEMMA HostSendsHears ==
  ASSUME ConsoleInv, NEW z \in States, EndsIn(z), Hearing, HostSends, NEW h \in HostBytes, out' = h
  PROVE  EndsIn(Follows(z, h))'
<1>2. out = <<>> /\ UNCHANGED <<hw, ring, scan, mode, pc>> /\ Here' = Here
  BY DEF HostSends, firmwareVars, Here
<1>3. h \in Seq(Octet)
  BY HostAssumption, OfStrings
<1>4. hw \in Seq(Octet) /\ ring \in Seq(Octet) /\ scan \in Seq(Octet)
  BY HereIs DEF ConsoleInv
<1>5. PICK s : s = scan \o (ring \o hw)
  OBVIOUS
<1>6. PICK t : t = s \o h
  OBVIOUS
<1>7. s \in Seq(Octet) /\ t = scan \o (ring \o (hw \o h))
  <2>1. PICK b : b = ring \o hw
    OBVIOUS
  <2>2. b \in Seq(Octet)
    BY <1>4, <2>1, Joined
  <2>3. s = scan \o b
    BY <1>5, <2>1
  <2>4. s \in Seq(Octet)
    BY <1>4, <2>2, <2>3, Joined
  <2>5. (scan \o b) \o h = scan \o (b \o h)
    BY <1>3, <1>4, <2>2, Assoc, SMTT(30)
  <2>6. (ring \o hw) \o h = ring \o (hw \o h)
    BY <1>3, <1>4, Assoc, ZenonT(60)
  <2> QED BY <1>6, <2>1, <2>3, <2>4, <2>5, <2>6
<1>8. t \in Seq(Octet) /\ Both(s, h, t)
  <2>0. s \in Seq(Octet)
    BY <1>7
  <2>1. /\ t \in Seq(Octet) /\ Len(t) = Len(s) + Len(h)
        /\ \A x \in 1..Len(s) : t[x] = s[x]
        /\ \A x \in 1..Len(h) : t[Len(s) + x] = h[x]
    BY <1>3, <1>6, <2>0, Joined
  <2> QED BY <2>1 DEF Both
<1>9. Settled(s) /\ Leads(s, Bare(Here), z) /\ Holding(scan)
  <2>1. Here.scan = scan /\ Here.ring = ring
    BY DEF Here
  <2>2. hw \o out = hw
    BY <1>2, <1>4, Unit
  <2>3. Ahead(Here, hw \o out) = s
    BY <1>5, <2>1, <2>2 DEF Ahead
  <2> QED BY <2>1, <2>3 DEF EndsIn, Hears
<1>10. ScanCap > 4 /\ s \in Seq(Octet) /\ t \in Seq(Octet)
  BY <1>7, <1>8 DEF Hearing
<1>11. Settled(t) /\ Leads(h, z, Follows(z, h))
  <2>1. CASE h \in ModeLines
    <3>1. Len(h) = 4 /\ Spells(h, 1)
      BY <2>1, ModeLineIs
    <3>2. Settled(t) /\ Leads(h, z, Switched(z, ModeAt(h, 1)))
      BY <1>3, <1>8, <1>9, <1>10, <3>1, LineJoins, LineLeads
    <3> QED BY <2>1, <3>2 DEF Follows
  <2>2. CASE h \notin ModeLines
    <3>1. Unmistaken(h)
      BY <2>2 DEF Hearing
    <3>2. ASSUME NEW i \in 1..Len(h)
          PROVE  \E j \in Int : Back(h, i, j)
      <4>1. i \in DOMAIN h
        BY <1>3, <3>2
      <4>2. PICK j \in i..Len(h) : Returned(h, i, j)
        BY <3>1, <4>1 DEF Unmistaken
      <4>3. Back(h, i, j)
        BY <1>3, <3>2, <4>2, ReturnedIs
      <4> QED BY <4>2, <4>3
    <3>3. Settled(t) /\ \A k \in Int : ~At(h, k)
      BY <1>3, <1>8, <1>9, <1>10, <3>2, GlitchJoins
    <3>4. Leads(h, z, IF z.mode = "writer" THEN TypedAll(z, h) ELSE z)
      BY <1>3, <3>3, GlitchLeads
    <3> QED BY <2>2, <3>3, <3>4 DEF Follows
  <2> QED BY <2>1, <2>2
<1>12. Leads(t, Bare(Here), Follows(z, h))
  BY <1>3, <1>8, <1>9, <1>10, <1>11, RunJoins
<1>13. Hears(Here, hw \o h, Follows(z, h))
  <2>1. Here.scan = scan /\ Here.ring = ring
    BY DEF Here
  <2>2. hw \o h \in Seq(Octet) /\ Ahead(Here, hw \o h) = t
    BY <1>7, <2>1, <1>3, <1>4, Joined DEF Ahead
  <2> QED BY <1>9, <1>11, <1>12, <2>1, <2>2 DEF Hears
<1>14. Hears(Here, hw \o out, Follows(z, h))'
  <2>1. Here' = Here /\ (hw \o out)' = hw \o h
    BY <1>2 DEF Here
  <2> QED BY <1>13, <2>1, HereEnds
<1> QED BY <1>2, <1>14 DEF EndsIn

LEMMA AntennaHears ==
  ASSUME NEW z, EndsIn(z), UNCHANGED <<out, hw, ring, scan, mode, line, over, cfg, said>>,
         pc' = pc \/ (pc = "rf" /\ pc' = "poll")
  PROVE  EndsIn(z)'
<1>1. Hears(Here, hw \o out, z)'
  <2>1. Here' = Here /\ (hw \o out)' = hw \o out
    BY DEF Here
  <2>2. Hears(Here, hw \o out, z)
    BY DEF EndsIn
  <2> QED BY <2>1, <2>2, HereEnds
<1> QED BY <1>1 DEF EndsIn

Start == [Fresh EXCEPT !.mode = "reader"]
LEMMA StartIs ==
  /\ Fresh \in States /\ Fresh.line = <<>> /\ Fresh.over = FALSE /\ Fresh.said = <<>>
  /\ Fresh.ring = <<>> /\ Fresh.scan = <<>> /\ Fresh.cfg = NoPayload
  /\ Start \in States /\ Start.mode = "reader" /\ Start.line = <<>> /\ Start.over = FALSE
  /\ Start.said = <<>> /\ Start.ring = <<>> /\ Start.scan = <<>> /\ Start.cfg = NoPayload
  /\ Bare(Start) = Start
<1>1. NoPayload \in Configs /\ <<>> \in Seq(Octet) /\ <<>> \in Seq(Shows)
  BY NoPayloadIs, Nothing
<1>2. "reader" \in BothModes /\ "writer" \in BothModes
  BY DEF BothModes
<1> HIDE DEF NoPayload
<1>3. /\ Fresh \in States /\ Fresh.line = <<>> /\ Fresh.over = FALSE /\ Fresh.said = <<>>
      /\ Fresh.ring = <<>> /\ Fresh.scan = <<>> /\ Fresh.cfg = NoPayload
  BY <1>1, <1>2 DEF Fresh, States
<1> HIDE DEF Fresh
<1>4. Start \in States /\ Start.mode = "reader" /\ Start.line = <<>> /\ Start.over = FALSE
      /\ Start.said = <<>> /\ Start.ring = <<>> /\ Start.scan = <<>> /\ Start.cfg = NoPayload
  BY <1>2, <1>3 DEF Start, States
<1> HIDE DEF Start
<1>5. Bare(Start) = Start
  BY <1>4 DEF Bare, States
<1> QED BY <1>3, <1>4, <1>5

LEMMA InitHears == WriteBackInit => EndsIn(Start)
<1> SUFFICES ASSUME WriteBackInit PROVE EndsIn(Start)
  OBVIOUS
<1>1. /\ out = <<>> /\ hw = <<>> /\ ring = <<>> /\ scan = <<>> /\ mode = "reader" /\ pc = "poll"
      /\ Here = Start
  <2> HIDE DEF NoPayload
  <2>1. Start = [ring |-> <<>>, scan |-> <<>>, mode |-> "reader", line |-> <<>>, over |-> FALSE,
                 cfg |-> NoPayload, said |-> <<>>]
    <3>1. Start = [ring |-> Start.ring, scan |-> Start.scan, mode |-> Start.mode, line |-> Start.line,
                   over |-> Start.over, cfg |-> Start.cfg, said |-> Start.said]
      BY StartIs DEF States
    <3> QED BY <3>1, StartIs
  <2>2. /\ out = <<>> /\ hw = <<>> /\ ring = <<>> /\ scan = <<>> /\ mode = "reader" /\ pc = "poll"
        /\ line = <<>> /\ over = FALSE /\ cfg = NoPayload /\ said = <<>>
    BY DEF WriteBackInit, Init
  <2> QED BY <2>1, <2>2 DEF Here
<1>2. Ahead(Here, hw \o out) = <<>>
  <2>1. <<>> \in Seq(Octet)
    OBVIOUS
  <2>2. <<>> \o (<<>> \o (<<>> \o <<>>)) = <<>>
    BY <2>1, Unit
  <2> QED BY <1>1, <2>2 DEF Ahead, Here
<1>3. Settled(<<>>) /\ Holding(<<>>)
  BY DEF Settled, Holding
<1>4. Leads(<<>>, Start, Start)
  <2> DEFINE run == [k \in 0..0 |-> Start]
  <2>1. run \in [0..0 -> States] /\ run[0] = Start
    BY StartIs
  <2> HIDE DEF run
  <2>2. Runs(<<>>, Start, Start, run)
    BY <2>1 DEF Runs
  <2> QED BY <2>2 DEF Leads
<1>5. Hears(Here, hw \o out, Start)
  <2>1. Here.scan = <<>>
    BY <1>1 DEF Here
  <2> QED BY <1>1, <1>2, <1>3, <1>4, <2>1, StartIs DEF Hears
<1>6. Len(hw) <= HwMax
  BY <1>1, ConsoleSizesAssumption
<1> QED BY <1>1, <1>5, <1>6 DEF EndsIn

(* What is to come is what the host's lines make of it one by one: a step takes     *)
(* part of it or the host adds to it.                                               *)
LEMMA NextHears ==
  ASSUME ConsoleInv, NEW z \in States, EndsIn(z), Hearing, [Next]_vars
  PROVE  \/ sent' = sent /\ EndsIn(z)'
         \/ \E h \in HostBytes : /\ Len(sent) < SentMax /\ sent' = Append(sent, h)
                                /\ EndsIn(Follows(z, h))'
<1>1. CASE Idle \/ Tap \/ Brought \/ UNCHANGED vars
  <2>1. /\ UNCHANGED <<out, hw, ring, scan, mode, line, over, cfg, said, sent>>
        /\ pc' = pc \/ (pc = "rf" /\ pc' = "poll")
    BY <1>1 DEF Idle, Tap, Brought, vars, consoleVars
  <2> QED BY <2>1, AntennaHears
<1>2. CASE HostSends
  <2>1. PICK h \in HostBytes : out' = h /\ sent' = Append(sent, h)
    BY <1>2 DEF HostSends
  <2>2. Len(sent) < SentMax
    BY <1>2 DEF HostSends
  <2>3. EndsIn(Follows(z, h))'
    BY <1>2, <2>1, HostSendsHears
  <2> QED BY <2>1, <2>2, <2>3
<1>3. CASE Arrive
  <2>1. sent' = sent
    BY <1>3 DEF Arrive
  <2> QED BY <1>3, <2>1, ArriveHears
<1>4. CASE PollModeSwitch
  <2>1. sent' = sent
    BY <1>4 DEF PollModeSwitch, Host
  <2> QED BY <1>4, <2>1, PollHears
<1>5. CASE Available
  <2>1. sent' = sent
    BY <1>5 DEF Available, Host
  <2> QED BY <1>5, <2>1, AvailableHears
<1>6. CASE ReadRing
  <2>1. sent' = sent
    BY <1>6 DEF ReadRing, Host
  <2> QED BY <1>6, <2>1, ReadRingHears
<1>7. CASE ReadDirect
  <2>1. sent' = sent
    BY <1>7 DEF ReadDirect, Host
  <2> QED BY <1>7, <2>1, ReadDirectHears
<1> QED BY <1>1, <1>2, <1>3, <1>4, <1>5, <1>6, <1>7 DEF Next

(* When there is nothing more to come *)
LEMMA NothingLeft ==
  ASSUME NEW z, EndsIn(z), ConsoleInv, out = <<>>, hw = <<>>, scan = <<>>, ring = <<>>
  PROVE  z = Bare(Here)
<1>1. Ahead(Here, hw \o out) = <<>>
  <2>1. <<>> \in Seq(Octet)
    OBVIOUS
  <2>2. <<>> \o (<<>> \o (<<>> \o <<>>)) = <<>>
    BY <2>1, Unit
  <2> QED BY <2>2 DEF Ahead, Here
<1>2. Leads(<<>>, Bare(Here), z)
  BY <1>1 DEF EndsIn, Hears
<1>3. PICK run : Runs(<<>>, Bare(Here), z, run)
  BY <1>2 DEF Leads
<1>4. Len(<<>>) = 0
  OBVIOUS
<1> QED BY <1>3, <1>4 DEF Runs

ModeInv == sent \in Seq(Seq(Octet)) /\ \E z \in States : EndsIn(z) /\ z.mode = AskedOf(sent)

(* In the writer and in the reader, a mode line is heard: when all that the host    *)
(* sent has been looked at, the mode is that of its last mode line, however the     *)
(* bytes arrive between the steps of the main loop and whatever the scanner holds   *)
(* back, returns to the ring's head or drops (scan_mode_switch, nfc_mode_scan_feed, *)
(* nfc_hal_preload_serial, writer_hal_serial_read_byte).  The ring has room for     *)
(* what comes between two looks and what the scanner holds, no byte comes between a *)
(* look and a direct read, and whatever else the host sends is nothing that reads   *)
(* like the beginning of a mode line.                                               *)
THEOREM HearsModeLine == Hearing => (Spec => []ReaderHearsModeLine)
<1>1. SUFFICES ASSUME Hearing PROVE Spec => []ReaderHearsModeLine
  OBVIOUS
<1>2. WriteBackInit => ModeInv
  <2> SUFFICES ASSUME WriteBackInit PROVE ModeInv
    OBVIOUS
  <2>1. sent = <<>>
    BY DEF WriteBackInit, Init
  <2>2. AskedOf(<<>>) = "reader"
    <3>1. {i \in DOMAIN <<>> : <<>>[i] \in ModeLines} = {}
      OBVIOUS
    <3> QED BY <3>1 DEF AskedOf
  <2>3. EndsIn(Start) /\ Start \in States /\ Start.mode = "reader"
    BY InitHears, StartIs
  <2> QED BY <2>1, <2>2, <2>3 DEF ModeInv
<1>3. IInv /\ ModeInv /\ [Next]_vars => ModeInv'
  <2> SUFFICES ASSUME ConsoleInv, ModeInv, [Next]_vars PROVE ModeInv'
    BY DEF IInv
  <2>1. PICK z \in States : EndsIn(z) /\ z.mode = AskedOf(sent)
    BY DEF ModeInv
  <2>2. sent \in Seq(Seq(Octet))
    BY DEF ModeInv
  <2>3. CASE sent' = sent /\ EndsIn(z)'
    BY <2>1, <2>2, <2>3 DEF ModeInv
  <2>4. CASE \E h \in HostBytes : sent' = Append(sent, h) /\ EndsIn(Follows(z, h))'
    <3>1. PICK h \in HostBytes : sent' = Append(sent, h) /\ EndsIn(Follows(z, h))'
      BY <2>4
    <3>2. h \in Seq(Octet)
      BY HostAssumption, OfStrings
    <3>3. AskedOf(sent') = IF h \in ModeLines THEN ModeAt(h, 1) ELSE AskedOf(sent)
      BY <2>2, <3>1, <3>2, AskedNext
    <3>4. Follows(z, h) \in States /\ Follows(z, h).mode = AskedOf(sent')
      BY <2>1, <3>2, <3>3, FollowsIs
    <3>5. sent' \in Seq(Seq(Octet))
      BY <2>2, <3>1, <3>2
    <3> QED BY <3>1, <3>4, <3>5 DEF ModeInv
  <2> QED BY <1>1, <2>1, <2>3, <2>4, NextHears
<1>4. IInv /\ ModeInv => ReaderHearsModeLine
  <2> SUFFICES ASSUME ConsoleInv, ModeInv, out = <<>>, hw = <<>>, scan = <<>>,
                      ring = <<>> \/ (mode = "reader" /\ pc = "rf")
               PROVE  LET modes == {i \in DOMAIN sent : sent[i] \in ModeLines}
                      IN  mode = IF modes = {} THEN "reader"
                                 ELSE IF sent[Max(modes)] = ModeLine("writer") \o <<"LF">> THEN "writer"
                                 ELSE "reader"
    BY DEF ReaderHearsModeLine, IInv
  <2>1. PICK z \in States : EndsIn(z) /\ z.mode = AskedOf(sent)
    BY DEF ModeInv
  <2>2. ring = <<>>
    BY <2>1 DEF EndsIn
  <2>3. mode = AskedOf(sent)
    <3>1. z = Bare(Here)
      BY <2>1, <2>2, NothingLeft
    <3> QED BY <2>1, <3>1 DEF Bare, Here
  <2> DEFINE modes == {i \in DOMAIN sent : sent[i] \in ModeLines}
  <2>4. modes # {} => sent[Max(modes)] \in ModeLines
    <3>1. DOMAIN sent = 1..Len(sent) /\ Len(sent) \in Nat
      BY DEF ModeInv
    <3>2. modes \in SUBSET (1..Len(sent))
      BY <3>1
    <3>3. modes # {} => Max(modes) \in modes
      <4> HIDE DEF modes
      <4> QED BY <3>1, <3>2, MaxIn
    <3> QED BY <3>3
  <2>5. AskedOf(sent) = IF modes = {} THEN "reader" ELSE ModeAt(sent[Max(modes)], 1)
    BY DEF AskedOf
  <2> HIDE DEF modes
  <2>6. modes # {} => ModeAt(sent[Max(modes)], 1)
                       = IF sent[Max(modes)] = ModeLine("writer") \o <<"LF">> THEN "writer" ELSE "reader"
    BY <2>4, ModeLineIs
  <2>7. mode = IF modes = {} THEN "reader"
               ELSE IF sent[Max(modes)] = ModeLine("writer") \o <<"LF">> THEN "writer" ELSE "reader"
    BY <2>3, <2>5, <2>6
  <2> QED BY <2>7 DEF modes
<1> QED BY <1>2, <1>3, <1>4, Invariance, PTL DEF Spec

-----------------------------------------------------------------------------
(***************************************************************************)
(* What is announced.  The command line takes one byte at a time, whenever *)
(* the main loop comes to it, and a command leaves fields for the next one:*)
(* neither has any bearing on what a line announces.                       *)
(***************************************************************************)

(* What a command line, or the end of one, does *)
Outcome(s) == IF s.over \/ s.line = <<>> THEN Applied(FALSE, s.cfg) ELSE Handled(s.cfg, Plain(Trim(s.line)))
Told(s) == IF Outcome(s).ok THEN <<ShownBy(BuildNdefMessage(Outcome(s).cfg))>> ELSE <<>>

(* A line that is handled leaves a configuration and announces it once at most. *)
LEMMA OutcomeIs ==
  ASSUME NEW s \in States
  PROVE  Outcome(s) \in Outcomes
<1>1. s.line \in Seq(Octet) /\ s.cfg \in Configs
  BY StatesAre
<1>2. Trim(s.line) \in Seq(Octet)
  BY <1>1, TrimIs
<1>3. Plain(Trim(s.line)) \in Seq(Octet)
  BY <1>2, PlainIs
<1>4. Handled(s.cfg, Plain(Trim(s.line))) \in Outcomes /\ Applied(FALSE, s.cfg) \in Outcomes
  BY <1>1, <1>3, HandledIs, AppliedIs
<1> QED BY <1>4 DEF Outcome

LEMMA ToldIs ==
  ASSUME NEW s \in States
  PROVE  Told(s) \in Seq(Shows) /\ Len(Told(s)) \in {0, 1}
<1>1. PICK r : r = Outcome(s)
  OBVIOUS
<1>2. r.cfg \in Configs /\ r.ok \in BOOLEAN
  BY <1>1, OutcomeIs DEF Outcomes
<1>3. PICK m : m = BuildNdefMessage(r.cfg)
  OBVIOUS
<1>4. m \in Seq(Octet)
  BY <1>2, <1>3, BuildIs DEF Sendable
<1>5. PICK x : x = ShownBy(m)
  OBVIOUS
<1>6. x \in Shows
  BY <1>4, <1>5 DEF Shows
<1>7. Told(s) = IF r.ok THEN <<x>> ELSE <<>>
  BY <1>1, <1>3, <1>5 DEF Told
<1> QED BY <1>6, <1>7

LEMMA ToldJoins ==
  ASSUME NEW s \in States
  PROVE  (IF Outcome(s).ok THEN Append(s.said, ShownBy(BuildNdefMessage(Outcome(s).cfg))) ELSE s.said)
            = s.said \o Told(s)
<1>1. PICK r : r = Outcome(s)
  OBVIOUS
<1>2. PICK x : x = ShownBy(BuildNdefMessage(r.cfg))
  OBVIOUS
<1>3. PICK a : a = s.said
  OBVIOUS
<1>4. a \in Seq(Shows)
  BY <1>3, StatesAre
<1>5. Told(s) = IF r.ok THEN <<x>> ELSE <<>>
  BY <1>1, <1>2 DEF Told
<1>6. x \in Shows \/ ~r.ok
  <2>1. r.ok => Told(s) = <<x>> /\ Told(s) \in Seq(Shows)
    BY <1>5, ToldIs
  <2>2. r.ok => <<x>> \in Seq(Shows) /\ <<x>>[1] = x /\ 1 \in DOMAIN <<x>>
    BY <2>1, SMTT(30)
  <2> QED BY <2>2
<1>7. a \o <<>> = a
  BY <1>4
<1>8. r.ok => Append(a, x) = a \o <<x>>
  BY <1>4, <1>6
<1> QED BY <1>1, <1>2, <1>3, <1>5, <1>7, <1>8

LEMMA TypedDoes ==
  ASSUME NEW s \in States, NEW ch \in Octet
  PROVE  /\ ch \in {"CR", "LF"} => /\ Typed(s, ch).line = <<>> /\ Typed(s, ch).over = FALSE
                                   /\ Typed(s, ch).said = s.said \o Told(s)
         /\ ch = "CTL" => Typed(s, ch) = s
         /\ ch \notin {"CR", "LF", "CTL"} =>
              /\ Typed(s, ch).said = s.said
              /\ Typed(s, ch).line = IF Len(s.line) < LineCap - 1 THEN Append(s.line, ch) ELSE s.line
              /\ Typed(s, ch).over = IF Len(s.line) < LineCap - 1 THEN s.over ELSE TRUE
<1>1. CASE ch \in {"CR", "LF"}
  <2>1. PICK r : r = Outcome(s)
    OBVIOUS
  <2>2. Typed(s, ch) = Closed(s, r)
    BY <1>1, <2>1 DEF Typed, Outcome
  <2>3. PICK now : now = IF r.ok THEN Append(s.said, ShownBy(BuildNdefMessage(r.cfg))) ELSE s.said
    OBVIOUS
  <2>4. Closed(s, r) = [s EXCEPT !.line = <<>>, !.over = FALSE, !.cfg = r.cfg, !.said = now]
    BY <2>3 DEF Closed, States
  <2>5. /\ Closed(s, r).line = <<>> /\ Closed(s, r).over = FALSE /\ Closed(s, r).said = now
    BY <2>4 DEF States
  <2>6. now = s.said \o Told(s)
    BY <2>1, <2>3, ToldJoins
  <2> QED BY <1>1, <2>2, <2>5, <2>6
<1>2. CASE ch = "CTL"
  BY <1>2 DEF Typed
<1>3. CASE ch \notin {"CR", "LF", "CTL"}
  <2>1. Typed(s, ch) = IF Len(s.line) < LineCap - 1 THEN [s EXCEPT !.line = Append(@, ch)]
                       ELSE [s EXCEPT !.over = TRUE]
    BY <1>3 DEF Typed
  <2>2. PICK more : more = Append(s.line, ch)
    OBVIOUS
  <2>3. [s EXCEPT !.line = Append(@, ch)] = [s EXCEPT !.line = more]
    BY <2>2 DEF States
  <2>4. /\ [s EXCEPT !.line = more].said = s.said /\ [s EXCEPT !.line = more].line = more
        /\ [s EXCEPT !.line = more].over = s.over
        /\ [s EXCEPT !.over = TRUE].said = s.said /\ [s EXCEPT !.over = TRUE].line = s.line
        /\ [s EXCEPT !.over = TRUE].over = TRUE
    BY DEF States
  <2> QED BY <1>3, <2>1, <2>2, <2>3, <2>4
<1> QED BY <1>1, <1>2, <1>3

(* Payload configurations that are encoded alike: a field that the payload has no   *)
(* use for may be left from another.                                                *)
Same(c, d) ==
  /\ c.kind = d.kind /\ c.str1 = d.str1 /\ c.str2 = d.str2
  /\ c.kind = "uri" => c.uriId = d.uriId
  /\ c.kind = "raw" => c.raw = d.raw
SameOutcome(r, q) == r.ok = q.ok /\ (r.ok => Same(r.cfg, q.cfg))

LEMMA BuildSame ==
  ASSUME NEW c \in Configs, NEW d \in Configs, Same(c, d)
  PROVE  BuildNdefMessage(c) = BuildNdefMessage(d)
<1> DEFINE p == Cut(c.str2, "|")
<1>1. /\ c.kind \in Kinds /\ d.kind = c.kind /\ d.str1 = c.str1 /\ d.str2 = c.str2
      /\ c.kind = "uri" => d.uriId = c.uriId
      /\ c.kind = "raw" => d.raw = c.raw
      /\ Cut(d.str2, "|") = p
  BY DEF Configs, Same
<1>2. CASE c.kind = "none"
  BY <1>1, <1>2 DEF BuildNdefMessage
<1>3. CASE c.kind = "url"
  BY <1>1, <1>3 DEF BuildNdefMessage
<1>4. CASE c.kind = "text"
  BY <1>1, <1>4 DEF BuildNdefMessage
<1>5. CASE c.kind = "uri"
  BY <1>1, <1>5 DEF BuildNdefMessage
<1>6. CASE c.kind = "raw"
  BY <1>1, <1>6 DEF BuildNdefMessage
<1>7. CASE c.kind = "sms"
  BY <1>1, <1>7 DEF BuildNdefMessage
<1>8. CASE c.kind = "mailto"
  <2>1. BuildNdefMessage(c) = Mailto(c.str1, p.before, p.after)
    BY <1>8 DEF BuildNdefMessage
  <2>2. BuildNdefMessage(d) = Mailto(d.str1, Cut(d.str2, "|").before, Cut(d.str2, "|").after)
    BY <1>1, <1>8 DEF BuildNdefMessage
  <2> HIDE DEF p
  <2> QED BY <1>1, <2>1, <2>2
<1>9. CASE c.kind = "geo"
  BY <1>1, <1>9 DEF BuildNdefMessage
<1>10. CASE c.kind = "vcard"
  <2>1. BuildNdefMessage(c) = Vcard(c.str1, p.before, p.after)
    BY <1>10 DEF BuildNdefMessage
  <2>2. BuildNdefMessage(d) = Vcard(d.str1, Cut(d.str2, "|").before, Cut(d.str2, "|").after)
    BY <1>1, <1>10 DEF BuildNdefMessage
  <2> HIDE DEF p
  <2> QED BY <1>1, <2>1, <2>2
<1>11. CASE c.kind = "wifi"
  BY <1>1, <1>11 DEF BuildNdefMessage
<1>12. CASE c.kind = "bt"
  BY <1>1, <1>12 DEF BuildNdefMessage
<1> QED BY <1>1, <1>2, <1>3, <1>4, <1>5, <1>6, <1>7, <1>8, <1>9, <1>10, <1>11, <1>12 DEF Kinds

LEMMA OneFieldDoes ==
  ASSUME NEW c \in Configs, NEW id \in Octet, NEW kind \in Kinds, NEW text \in Seq(Octet)
  PROVE  LET r == OneField(c, id, kind, text)
             f == Field(text, Str1Max)
         IN  /\ r.ok = (f # <<>>)
             /\ r.ok => r.cfg.kind = kind /\ r.cfg.uriId = id /\ r.cfg.str1 = f /\ r.cfg.str2 = <<>>
<1> DEFINE f == Field(text, Str1Max)
           d == [c EXCEPT !.uriId = id, !.str1 = f]
           e == [d EXCEPT !.str2 = <<>>, !.kind = kind]
<1>2. OneField(c, id, kind, text) = IF f = <<>> THEN Applied(FALSE, d) ELSE Applied(TRUE, e)
  BY DEF OneField
<1>0. f \in Seq(Octet) /\ <<>> \in Seq(Octet)
  BY FieldIs, Caps
<1> HIDE DEF f
<1>3. d \in Configs /\ d.uriId = id /\ d.str1 = f
  BY <1>0 DEF Configs
<1> HIDE DEF d
<1>4. e.kind = kind /\ e.uriId = id /\ e.str1 = f /\ e.str2 = <<>>
  BY <1>0, <1>3 DEF Configs
<1> HIDE DEF e
<1>5. /\ Applied(FALSE, d).ok = FALSE
      /\ Applied(TRUE, e).ok = TRUE /\ Applied(TRUE, e).cfg = e
  BY DEF Applied
<1> QED BY <1>2, <1>4, <1>5 DEF f

LEMMA OneFieldSame ==
  ASSUME NEW c \in Configs, NEW d \in Configs, NEW id \in Octet, NEW kind \in Kinds, kind # "raw",
         NEW text \in Seq(Octet)
  PROVE  SameOutcome(OneField(c, id, kind, text), OneField(d, id, kind, text))
<1>1. PICK r : r = OneField(c, id, kind, text)
  OBVIOUS
<1>2. PICK q : q = OneField(d, id, kind, text)
  OBVIOUS
<1>3. PICK f : f = Field(text, Str1Max)
  OBVIOUS
<1>4. /\ r.ok = (f # <<>>)
      /\ r.ok => r.cfg.kind = kind /\ r.cfg.uriId = id /\ r.cfg.str1 = f /\ r.cfg.str2 = <<>>
  BY <1>1, <1>3, OneFieldDoes
<1>5. /\ q.ok = (f # <<>>)
      /\ q.ok => q.cfg.kind = kind /\ q.cfg.uriId = id /\ q.cfg.str1 = f /\ q.cfg.str2 = <<>>
  BY <1>2, <1>3, OneFieldDoes
<1>6. SameOutcome(r, q)
  BY <1>4, <1>5 DEF SameOutcome, Same
<1> QED BY <1>1, <1>2, <1>6

LEMMA PrefixedSame ==
  ASSUME NEW c \in Configs, NEW d \in Configs, NEW prefix \in Seq(Octet), NEW rest \in Seq(Octet)
  PROVE  SameOutcome(Prefixed(c, prefix, rest), Prefixed(d, prefix, rest))
<1>1. PICK all : all = prefix \o rest
  OBVIOUS
<1>2. all \in Seq(Octet) /\ "uri" \in Kinds /\ "00" \in Octet
  BY <1>1, Cat, Words DEF Kinds
<1>3. CASE rest = <<>> \/ Len(all) >= Str1Max
  BY <1>1, <1>3 DEF Prefixed, SameOutcome, Applied
<1>4. CASE ~(rest = <<>> \/ Len(all) >= Str1Max)
  <2>1. /\ Prefixed(c, prefix, rest) = OneField(c, "00", "uri", all)
        /\ Prefixed(d, prefix, rest) = OneField(d, "00", "uri", all)
    BY <1>1, <1>4 DEF Prefixed
  <2> QED BY <1>2, <2>1, OneFieldSame
<1> QED BY <1>3, <1>4

LEMMA TwoFieldsDoes ==
  ASSUME NEW c \in Configs, NEW kind \in Kinds, NEW rest \in Seq(Octet), NEW text \in Seq(Octet), NEW needed
  PROVE  LET r == TwoFields(c, kind, rest, text, needed)
             one == Field(Cut(rest, "|").before, Str1Max)
             two == Field(text, Str2Max)
         IN  /\ r.ok = ~(one = <<>> \/ (needed /\ two = <<>>))
             /\ r.ok => r.cfg.kind = kind /\ r.cfg.uriId = "00" /\ r.cfg.str1 = one /\ r.cfg.str2 = two
<1> DEFINE one == Field(Cut(rest, "|").before, Str1Max)
           two == Field(text, Str2Max)
           d == [c EXCEPT !.uriId = "00", !.str1 = one]
           e == [d EXCEPT !.str2 = two]
           g == [d EXCEPT !.str2 = two, !.kind = kind]
<1>1. one \in Seq(Octet)
  <2>1. Cut(rest, "|").before \in Seq(Octet)
    BY CutIs
  <2> QED BY <2>1, FieldIs, Caps
<1>2. two \in Seq(Octet)
  BY FieldIs, Caps
<1>3. TwoFields(c, kind, rest, text, needed)
        = IF one = <<>> THEN Applied(FALSE, d)
          ELSE IF needed /\ two = <<>> THEN Applied(FALSE, e) ELSE Applied(TRUE, g)
  BY DEF TwoFields
<1> HIDE DEF one, two
<1>4. d \in Configs /\ d.uriId = "00" /\ d.str1 = one
  BY <1>1, Words DEF Configs
<1> HIDE DEF d
<1>5. g.kind = kind /\ g.uriId = "00" /\ g.str1 = one /\ g.str2 = two
  BY <1>2, <1>4 DEF Configs
<1> HIDE DEF e, g
<1>6. /\ Applied(FALSE, d).ok = FALSE /\ Applied(FALSE, e).ok = FALSE
      /\ Applied(TRUE, g).ok = TRUE /\ Applied(TRUE, g).cfg = g
  BY DEF Applied
<1>7. PICK r : r = TwoFields(c, kind, rest, text, needed)
  OBVIOUS
<1>8. /\ r.ok = ~(one = <<>> \/ (needed /\ two = <<>>))
      /\ r.ok => r.cfg = g
  BY <1>3, <1>6, <1>7
<1> QED BY <1>5, <1>7, <1>8 DEF one, two

LEMMA TwoFieldsSame ==
  ASSUME NEW c \in Configs, NEW d \in Configs, NEW kind \in Kinds, kind \notin {"raw", "uri"},
         NEW rest \in Seq(Octet), NEW text \in Seq(Octet), NEW needed
  PROVE  SameOutcome(TwoFields(c, kind, rest, text, needed), TwoFields(d, kind, rest, text, needed))
<1>1. PICK r : r = TwoFields(c, kind, rest, text, needed)
  OBVIOUS
<1>2. PICK q : q = TwoFields(d, kind, rest, text, needed)
  OBVIOUS
<1>3. PICK one : one = Field(Cut(rest, "|").before, Str1Max)
  OBVIOUS
<1>4. PICK two : two = Field(text, Str2Max)
  OBVIOUS
<1>5. /\ r.ok = ~(one = <<>> \/ (needed /\ two = <<>>))
      /\ r.ok => r.cfg.kind = kind /\ r.cfg.uriId = "00" /\ r.cfg.str1 = one /\ r.cfg.str2 = two
  BY <1>1, <1>3, <1>4, TwoFieldsDoes
<1>6. /\ q.ok = ~(one = <<>> \/ (needed /\ two = <<>>))
      /\ q.ok => q.cfg.kind = kind /\ q.cfg.uriId = "00" /\ q.cfg.str1 = one /\ q.cfg.str2 = two
  BY <1>2, <1>3, <1>4, TwoFieldsDoes
<1>7. SameOutcome(r, q)
  BY <1>5, <1>6 DEF SameOutcome, Same
<1> QED BY <1>1, <1>2, <1>7

LEMMA RawSame ==
  ASSUME NEW c \in Configs, NEW d \in Configs, NEW m \in Seq(Octet)
  PROVE  SameOutcome(Raw(c, m), Raw(d, m))
<1> DEFINE x(a) == [a EXCEPT !.kind = "raw", !.raw = m, !.str1 = <<>>, !.str2 = <<>>]
<1>1. CASE Len(m) \in 1..MessageMax
  <2>1. Raw(c, m) = Applied(TRUE, x(c)) /\ Raw(d, m) = Applied(TRUE, x(d))
    BY <1>1 DEF Raw
  <2>2. "raw" \in Kinds /\ <<>> \in Seq(Octet)
    BY DEF Kinds
  <2>3. /\ x(c).kind = "raw" /\ x(c).raw = m /\ x(c).str1 = <<>> /\ x(c).str2 = <<>>
        /\ x(d).kind = "raw" /\ x(d).raw = m /\ x(d).str1 = <<>> /\ x(d).str2 = <<>>
    BY <2>2 DEF Configs
  <2> HIDE DEF x
  <2>4. Same(x(c), x(d))
    BY <2>3 DEF Same
  <2> QED BY <2>1, <2>4 DEF SameOutcome, Applied
<1>2. CASE Len(m) \notin 1..MessageMax
  <2>1. Raw(c, m) = Applied(FALSE, c) /\ Raw(d, m) = Applied(FALSE, d)
    BY <1>2 DEF Raw
  <2> QED BY <2>1 DEF SameOutcome, Applied
<1> QED BY <1>1, <1>2

LEMMA UrlSame ==
  ASSUME NEW c \in Configs, NEW d \in Configs, NEW rest \in Seq(Octet)
  PROVE  SameOutcome(Command(c, "url", rest), Command(d, "url", rest))
<1> DEFINE web(r) == r.ok /\ IsPrefix(<<"https://">>, r.cfg.str1)
           cut(r) == [r EXCEPT !.cfg.str1 = Tail(@)]
<1>1. PICK r : r = OneField(c, "04", "url", rest)
  OBVIOUS
<1>2. PICK q : q = OneField(d, "04", "url", rest)
  OBVIOUS
<1>3. /\ Command(c, "url", rest) = IF web(r) THEN cut(r) ELSE r
      /\ Command(d, "url", rest) = IF web(q) THEN cut(q) ELSE q
  BY <1>1, <1>2 DEF Command, UriWords
<1>4. "url" \in Kinds /\ "04" \in Octet
  BY Words DEF Kinds
<1>5. r \in Outcomes /\ q \in Outcomes /\ SameOutcome(r, q)
  BY <1>1, <1>2, <1>4, OneFieldIs, OneFieldSame
<1>6. web(r) <=> web(q)
  BY <1>5 DEF SameOutcome, Same
<1>7. ASSUME NEW x, x \in Outcomes
      PROVE  /\ cut(x).ok = x.ok /\ cut(x).cfg.str1 = Tail(x.cfg.str1)
             /\ cut(x).cfg.kind = x.cfg.kind /\ cut(x).cfg.str2 = x.cfg.str2
             /\ cut(x).cfg.uriId = x.cfg.uriId /\ cut(x).cfg.raw = x.cfg.raw
  BY <1>7 DEF Outcomes, Configs
<1>8. SameOutcome(cut(r), cut(q))
  <2> HIDE DEF cut
  <2> QED BY <1>5, <1>7 DEF SameOutcome, Same
<1> HIDE DEF web, cut
<1> QED BY <1>3, <1>5, <1>6, <1>8

(* Nothing of what a command configures is left from the configuration before.      *)
LEMMA CommandSame ==
  ASSUME NEW c \in Configs, NEW d \in Configs, NEW word, NEW rest \in Seq(Octet)
  PROVE  SameOutcome(Command(c, word, rest), Command(d, word, rest))
<1>a. /\ Second(rest) \in Seq(Octet) /\ BothOrOne(rest) \in Seq(Octet)
      /\ "sms" \in Kinds /\ "mailto" \in Kinds /\ "vcard" \in Kinds /\ "wifi" \in Kinds
  BY PartsAre DEF Kinds
<1>b. /\ <<"tel:">> \in Seq(Octet) /\ <<"https://", "www.", "search?q=">> \in Seq(Octet)
      /\ <<"https://", "www.", "maps/">> \in Seq(Octet)
  BY Words, One, Three
<1>c. /\ "00" \in Octet
      /\ "text" \in Kinds /\ "geo" \in Kinds /\ "bt" \in Kinds /\ "uri" \in Kinds
  BY Words DEF Kinds
<1>1. CASE word = "url"
  BY <1>1, UrlSame
<1>2. CASE word \in {"text", "data"}
  <2>1. /\ Command(c, word, rest) = OneField(c, "00", "text", rest)
        /\ Command(d, word, rest) = OneField(d, "00", "text", rest)
    BY <1>2 DEF Command, UriWords
  <2> QED BY <2>1, <1>c, OneFieldSame
<1>3. CASE word \in {"phone", "phone-number"}
  <2>1. /\ Command(c, word, rest) = Prefixed(c, <<"tel:">>, rest)
        /\ Command(d, word, rest) = Prefixed(d, <<"tel:">>, rest)
    BY <1>3 DEF Command, UriWords
  <2> QED BY <2>1, <1>b, PrefixedSame
<1>4. CASE word = "sms"
  <2>1. /\ Command(c, word, rest) = TwoFields(c, "sms", rest, Second(rest), FALSE)
        /\ Command(d, word, rest) = TwoFields(d, "sms", rest, Second(rest), FALSE)
    BY <1>4 DEF Command, UriWords
  <2> QED BY <2>1, <1>a, TwoFieldsSame
<1>5. CASE word \in {"mailto", "mail"}
  <2>1. /\ Command(c, word, rest) = TwoFields(c, "mailto", rest, BothOrOne(rest), FALSE)
        /\ Command(d, word, rest) = TwoFields(d, "mailto", rest, BothOrOne(rest), FALSE)
    BY <1>5 DEF Command, UriWords
  <2> QED BY <2>1, <1>a, TwoFieldsSame
<1>6. CASE word \in {"geo", "location", "custom-location"}
  <2>1. /\ Command(c, word, rest) = OneField(c, "00", "geo", rest)
        /\ Command(d, word, rest) = OneField(d, "00", "geo", rest)
    BY <1>6 DEF Command, UriWords
  <2> QED BY <2>1, <1>c, OneFieldSame
<1>7. CASE word \in {"vcard", "contact"}
  <2>1. /\ Command(c, word, rest) = TwoFields(c, "vcard", rest, BothOrOne(rest), TRUE)
        /\ Command(d, word, rest) = TwoFields(d, "vcard", rest, BothOrOne(rest), TRUE)
    BY <1>7 DEF Command, UriWords
  <2> QED BY <2>1, <1>a, TwoFieldsSame
<1>8. CASE word = "wifi"
  <2>1. /\ Command(c, word, rest) = TwoFields(c, "wifi", rest, Second(rest), HasSecond(rest))
        /\ Command(d, word, rest) = TwoFields(d, "wifi", rest, Second(rest), HasSecond(rest))
    BY <1>8 DEF Command, UriWords
  <2> QED BY <2>1, <1>a, TwoFieldsSame
<1>9. CASE word \in {"bt", "bluetooth"}
  <2>1. /\ Command(c, word, rest) = OneField(c, "00", "bt", rest)
        /\ Command(d, word, rest) = OneField(d, "00", "bt", rest)
    BY <1>9 DEF Command, UriWords
  <2> QED BY <2>1, <1>c, OneFieldSame
<1>10. CASE word = "search"
  <2>1. /\ Command(c, word, rest) = Prefixed(c, <<"https://", "www.", "search?q=">>, rest)
        /\ Command(d, word, rest) = Prefixed(d, <<"https://", "www.", "search?q=">>, rest)
    BY <1>10 DEF Command, UriWords
  <2> QED BY <2>1, <1>b, PrefixedSame
<1>11. CASE word \in {"address", "destination-address"}
  <2>1. /\ Command(c, word, rest) = Prefixed(c, <<"https://", "www.", "maps/">>, rest)
        /\ Command(d, word, rest) = Prefixed(d, <<"https://", "www.", "maps/">>, rest)
    BY <1>11 DEF Command, UriWords
  <2> QED BY <2>1, <1>b, PrefixedSame
<1>12. CASE word \in UriWords
  <2>1. /\ Command(c, word, rest) = OneField(c, "00", "uri", rest)
        /\ Command(d, word, rest) = OneField(d, "00", "uri", rest)
    BY <1>12 DEF Command, UriWords
  <2> QED BY <2>1, <1>c, OneFieldSame
<1>13. CASE word = "ndef-hex"
  <2>1. /\ Command(c, word, rest) = Raw(c, HexBytes(rest, HexMessages))
        /\ Command(d, word, rest) = Raw(d, HexBytes(rest, HexMessages))
    BY <1>13 DEF Command, UriWords
  <2> QED BY <2>1, HexBytesIs, RawSame
<1>14. CASE /\ word \notin {"url", "text", "data", "phone", "phone-number", "sms", "mailto", "mail",
                            "geo", "location", "custom-location", "vcard", "contact", "wifi", "bt",
                            "bluetooth", "search", "address", "destination-address", "ndef-hex"}
            /\ word \notin UriWords
  <2>1. Command(c, word, rest) = Applied(FALSE, c) /\ Command(d, word, rest) = Applied(FALSE, d)
    BY <1>14 DEF Command, UriWords
  <2> QED BY <2>1 DEF SameOutcome, Applied
<1> QED BY <1>1, <1>2, <1>3, <1>4, <1>5, <1>6, <1>7, <1>8, <1>9, <1>10, <1>11, <1>12, <1>13, <1>14

LEMMA ConfiguredSame ==
  ASSUME NEW r \in Outcomes, NEW q \in Outcomes, SameOutcome(r, q)
  PROVE  SameOutcome(Configured(r), Configured(q))
<1>1. r.cfg \in Configs /\ q.cfg \in Configs /\ r.ok \in BOOLEAN /\ q.ok = r.ok
  BY DEF Outcomes, SameOutcome
<1>2. CASE ~r.ok
  BY <1>1, <1>2 DEF Configured
<1>3. CASE r.ok
  <2>1. PICK x : x = Kept(r.cfg)
    OBVIOUS
  <2>2. PICK y : y = Kept(q.cfg)
    OBVIOUS
  <2>3. <<>> \in Seq(Octet) /\ Same(r.cfg, q.cfg)
    BY <1>3 DEF SameOutcome
  <2>4. x \in Configs /\ y \in Configs
    BY <1>1, <2>1, <2>2, <2>3, ConfigsAre DEF Kept
  <2>5. Same(x, y)
    <3>1. CASE r.cfg.kind = "raw"
      BY <2>1, <2>2, <2>3, <3>1 DEF Kept, Same
    <3>2. CASE r.cfg.kind # "raw"
      <4>1. x = [r.cfg EXCEPT !.raw = <<>>] /\ y = [q.cfg EXCEPT !.raw = <<>>]
        BY <2>1, <2>2, <2>3, <3>2 DEF Kept, Same
      <4>2. /\ x.kind = r.cfg.kind /\ x.uriId = r.cfg.uriId /\ x.str1 = r.cfg.str1 /\ x.str2 = r.cfg.str2
            /\ y.kind = q.cfg.kind /\ y.uriId = q.cfg.uriId /\ y.str1 = q.cfg.str1 /\ y.str2 = q.cfg.str2
        BY <1>1, <4>1 DEF Configs
      <4> QED BY <2>3, <3>2, <4>2 DEF Same
    <3> QED BY <3>1, <3>2
  <2>6. BuildNdefMessage(x) = BuildNdefMessage(y)
    BY <2>4, <2>5, BuildSame
  <2>7. Configured(r) = Announced(x) /\ Configured(q) = Announced(y)
    BY <1>1, <1>3, <2>1, <2>2 DEF Configured
  <2> QED BY <2>5, <2>6, <2>7 DEF SameOutcome, Announced, Applied
<1> QED BY <1>1, <1>2, <1>3

LEMMA HandledSame ==
  ASSUME NEW c \in Configs, NEW d \in Configs, NEW plain \in Seq(Octet)
  PROVE  SameOutcome(Handled(c, plain), Handled(d, plain))
<1> DEFINE none == \/ plain = <<>> \/ plain \in {ModeLine("reader"), ModeLine("writer")}
                   \/ plain[1] \in {"help", "?", "show"}
<1>1. PICK rest : rest = Trim(Cut(plain, "_").after)
  OBVIOUS
<1>2. PICK w : w = plain[1]
  OBVIOUS
<1>3. CASE none
  <2>1. Handled(c, plain) = Applied(FALSE, c) /\ Handled(d, plain) = Applied(FALSE, d)
    BY <1>3 DEF Handled
  <2> QED BY <2>1 DEF SameOutcome, Applied
<1>4. CASE ~none
  <2>1. /\ Handled(c, plain) = Configured(Command(c, w, rest))
        /\ Handled(d, plain) = Configured(Command(d, w, rest))
    BY <1>1, <1>2, <1>4 DEF Handled
  <2>2. rest \in Seq(Octet)
    <3>1. Cut(plain, "_").after \in Seq(Octet)
      BY CutIs
    <3> QED BY <1>1, <3>1, TrimIs
  <2>3. PICK r : r = Command(c, w, rest)
    OBVIOUS
  <2>4. PICK q : q = Command(d, w, rest)
    OBVIOUS
  <2>5. r \in Outcomes /\ q \in Outcomes /\ SameOutcome(r, q)
    BY <2>2, <2>3, <2>4, CommandIs, CommandSame
  <2> QED BY <2>1, <2>3, <2>4, <2>5, ConfiguredSame
<1> QED BY <1>3, <1>4

(* Command lines that hold the same *)
Alike(s, o) == s.line = o.line /\ s.over = o.over

(* What is announced does not depend on what was configured before. *)
LEMMA ToldSame ==
  ASSUME NEW s \in States, NEW o \in States, Alike(s, o)
  PROVE  Told(s) = Told(o)
<1>1. PICK r : r = Outcome(s)
  OBVIOUS
<1>2. PICK q : q = Outcome(o)
  OBVIOUS
<1>3. r \in Outcomes /\ q \in Outcomes
  BY <1>1, <1>2, OutcomeIs
<1>4. SameOutcome(r, q)
  <2>1. CASE s.over \/ s.line = <<>>
    BY <1>1, <1>2, <2>1 DEF Alike, Outcome, Applied, SameOutcome
  <2>2. CASE ~(s.over \/ s.line = <<>>)
    <3>1. PICK p : p = Plain(Trim(s.line))
      OBVIOUS
    <3>2. r = Handled(s.cfg, p) /\ q = Handled(o.cfg, p)
      BY <1>1, <1>2, <2>2, <3>1 DEF Alike, Outcome
    <3>3. s.line \in Seq(Octet) /\ s.cfg \in Configs /\ o.cfg \in Configs
      BY StatesAre
    <3>4. Trim(s.line) \in Seq(Octet)
      BY <3>3, TrimIs
    <3>5. p \in Seq(Octet)
      BY <3>1, <3>4, PlainIs
    <3> QED BY <3>2, <3>3, <3>5, HandledSame
  <2> QED BY <2>1, <2>2
<1>5. r.cfg \in Configs /\ q.cfg \in Configs
  BY <1>3 DEF Outcomes
<1>6. r.ok = q.ok /\ (r.ok => BuildNdefMessage(r.cfg) = BuildNdefMessage(q.cfg))
  BY <1>4, <1>5, BuildSame DEF SameOutcome
<1>7. /\ Told(s) = IF r.ok THEN <<ShownBy(BuildNdefMessage(r.cfg))>> ELSE <<>>
      /\ Told(o) = IF q.ok THEN <<ShownBy(BuildNdefMessage(q.cfg))>> ELSE <<>>
  BY <1>1, <1>2 DEF Told
<1> QED BY <1>6, <1>7

(* What is announced stays announced. *)
Before(p, q) == Len(p) <= Len(q) /\ \A i \in 1..Len(p) : q[i] = p[i]
LEMMA BeforeThat ==
  ASSUME NEW p \in Seq(Shows), NEW q \in Seq(Shows), NEW r \in Seq(Shows), Before(p, q), Before(q, r)
  PROVE  Before(p, r)
<1> DEFINE a == Len(p)
           b == Len(q)
           c == Len(r)
<1>1. /\ a <= b /\ \A i \in 1..a : q[i] = p[i]
      /\ b <= c /\ \A i \in 1..b : r[i] = q[i]
  BY DEF Before
<1>2. a \in Nat /\ b \in Nat /\ c \in Nat
  OBVIOUS
<1>3. Before(p, r) <=> a <= c /\ \A i \in 1..a : r[i] = p[i]
  BY DEF Before
<1> HIDE DEF a, b, c
<1>4. a <= c /\ \A i \in 1..a : i \in 1..b
  BY <1>1, <1>2
<1> QED BY <1>1, <1>3, <1>4

LEMMA SwitchedDoes ==
  ASSUME NEW s \in States, NEW new \in BothModes
  PROVE  /\ Switched(s, new).said = s.said
         /\ IF new # s.mode /\ new = "writer"
            THEN Switched(s, new).line = <<>> /\ Switched(s, new).over = FALSE
            ELSE Switched(s, new).line = s.line /\ Switched(s, new).over = s.over
<1>1. CASE new = s.mode
  BY <1>1 DEF Switched
<1>2. CASE new # s.mode /\ new = "writer"
  <2>1. Switched(s, new) = [s EXCEPT !.mode = new, !.scan = <<>>, !.line = <<>>, !.over = FALSE,
                                     !.cfg = NoPayload]
    BY <1>2 DEF Switched
  <2> HIDE DEF NoPayload
  <2> QED BY <1>2, <2>1 DEF States
<1>3. CASE new # s.mode /\ new # "writer"
  <2>1. Switched(s, new) = [s EXCEPT !.mode = new, !.scan = <<>>, !.line = @, !.over = @, !.cfg = @]
    BY <1>3 DEF Switched
  <2> QED BY <1>3, <2>1 DEF States
<1> QED BY <1>1, <1>2, <1>3

LEMMA TypedBefore ==
  ASSUME NEW s \in States, NEW ch \in Octet
  PROVE  Before(s.said, Typed(s, ch).said)
<1>1. PICK a : a = s.said
  OBVIOUS
<1>2. PICK b : b = Told(s)
  OBVIOUS
<1>3. a \in Seq(Shows) /\ b \in Seq(Shows)
  BY <1>1, <1>2, StatesAre, ToldIs
<1>4. Before(a, a) /\ Before(a, a \o b)
  <2>1. /\ Len(a) \in Nat /\ Len(b) \in Nat /\ Len(a \o b) = Len(a) + Len(b)
        /\ \A i \in 1..Len(a) : (a \o b)[i] = a[i]
    BY <1>3
  <2> QED BY <2>1 DEF Before
<1>5. Typed(s, ch).said = a \/ Typed(s, ch).said = a \o b
  BY <1>1, <1>2, TypedDoes
<1> QED BY <1>1, <1>4, <1>5

LEMMA TookBefore ==
  ASSUME NEW b \in Seq(Octet), NEW k \in 1..Len(b), NEW x \in States
  PROVE  Before(x.said, Took(b, k, x).said)
<1>1. Before(x.said, x.said)
  <2>1. PICK a : a = x.said
    OBVIOUS
  <2>2. Len(a) \in Nat
    BY <2>1, StatesAre
  <2> QED BY <2>1, <2>2 DEF Before
<1>2. b[k] \in Octet
  OBVIOUS
<1>3. Before(x.said, Typed(x, b[k]).said)
  BY <1>2, TypedBefore
<1>4. Switched(x, ModeAt(b, k - 3)).said = x.said
  <2>1. PICK m \in BothModes : m = ModeAt(b, k - 3)
    BY DEF ModeAt, BothModes
  <2> QED BY <2>1, SwitchedDoes
<1>5. Took(b, k, x) \in {x, Typed(x, b[k]), Switched(x, ModeAt(b, k - 3))}
  BY DEF Took
<1> QED BY <1>1, <1>3, <1>4, <1>5

LEMMA LeadsBefore ==
  ASSUME NEW b \in Seq(Octet), NEW x, NEW z, Leads(b, x, z)
  PROVE  Before(x.said, z.said)
<1> DEFINE N == Len(b)
<1>1. PICK run : Runs(b, x, z, run)
  BY DEF Leads
<1>2. /\ run \in [0..N -> States] /\ run[0] = x /\ run[N] = z
      /\ \A k \in 1..N : run[k] = Took(b, k, run[k - 1])
  BY <1>1 DEF Runs
<1>3. \A k \in 1..N : \A y \in States : Before(y.said, Took(b, k, y).said)
  BY TookBefore
<1>4. N \in Nat
  OBVIOUS
<1> HIDE DEF N
<1> DEFINE I == {n \in 0..N : Before(x.said, run[n].said)}
<1>5. 0 \in I
  <2>1. x \in States /\ 0 \in 0..N
    BY <1>2, <1>4
  <2>2. PICK a : a = x.said
    OBVIOUS
  <2>3. Len(a) \in Nat
    BY <2>1, <2>2, StatesAre
  <2>4. Before(x.said, x.said)
    BY <2>2, <2>3 DEF Before
  <2> QED BY <1>2, <2>1, <2>4
<1>6. \A n \in 0..(N - 1) : n \in I => n + 1 \in I
  <2> SUFFICES ASSUME NEW n \in 0..(N - 1), n \in I PROVE n + 1 \in I
    OBVIOUS
  <2>1. n \in 0..N /\ n + 1 \in 0..N /\ n + 1 \in 1..N /\ (n + 1) - 1 = n /\ 0 \in 0..N
    BY <1>4
  <2>2. x \in States /\ run[n] \in States /\ run[n + 1] \in States /\ run[n + 1] = Took(b, n + 1, run[n])
    BY <1>2, <2>1
  <2>3. Before(x.said, run[n].said)
    OBVIOUS
  <2>4. Before(run[n].said, run[n + 1].said)
    BY <1>3, <2>1, <2>2
  <2>5. x.said \in Seq(Shows) /\ run[n].said \in Seq(Shows) /\ run[n + 1].said \in Seq(Shows)
    BY <2>2, StatesAre
  <2>6. Before(x.said, run[n + 1].said)
    BY <2>3, <2>4, <2>5, BeforeThat
  <2> QED BY <2>1, <2>6
<1>7. N \in I
  <2> HIDE DEF I
  <2> QED BY <1>4, <1>5, <1>6, UpTo
<1> QED BY <1>2, <1>7

(* Bytes without the end of a line, typed into command lines that hold the same *)
LEMMA TypedAlike ==
  ASSUME NEW s \in States, NEW o \in States, Alike(s, o), NEW ch \in Octet
  PROVE  Alike(Typed(s, ch), Typed(o, ch))
<1>1. s.line = o.line /\ s.over = o.over
  BY DEF Alike
<1>2. CASE ch \in {"CR", "LF"}
  <2>1. Typed(s, ch).line = <<>> /\ Typed(s, ch).over = FALSE
    BY <1>2, TypedDoes
  <2>2. Typed(o, ch).line = <<>> /\ Typed(o, ch).over = FALSE
    BY <1>2, TypedDoes
  <2> QED BY <2>1, <2>2 DEF Alike
<1>3. CASE ch = "CTL"
  <2>1. Typed(s, ch) = s /\ Typed(o, ch) = o
    BY <1>3, TypedDoes
  <2> QED BY <2>1
<1>4. CASE ch \notin {"CR", "LF", "CTL"}
  <2>1. /\ Typed(s, ch).line = IF Len(s.line) < LineCap - 1 THEN Append(s.line, ch) ELSE s.line
        /\ Typed(s, ch).over = IF Len(s.line) < LineCap - 1 THEN s.over ELSE TRUE
    BY <1>4, TypedDoes
  <2>2. /\ Typed(o, ch).line = IF Len(o.line) < LineCap - 1 THEN Append(o.line, ch) ELSE o.line
        /\ Typed(o, ch).over = IF Len(o.line) < LineCap - 1 THEN o.over ELSE TRUE
    BY <1>4, TypedDoes
  <2> QED BY <1>1, <2>1, <2>2 DEF Alike
<1> QED BY <1>2, <1>3, <1>4

LEMMA TypingAlike ==
  ASSUME NEW h \in Seq(Octet), NEW n \in 0..Len(h), \A i \in 1..n : h[i] \notin {"CR", "LF"},
         NEW s \in States, NEW o \in States, Alike(s, o), NEW rs, Typing(s, h, rs), NEW ro, Typing(o, h, ro)
  PROVE  Alike(rs[n], ro[n]) /\ rs[n].said = s.said /\ ro[n].said = o.said
<1> DEFINE N == Len(h)
<1>1. /\ rs \in [0..N -> States] /\ rs[0] = s /\ \A k \in 1..N : rs[k] = Typed(rs[k - 1], h[k])
      /\ ro \in [0..N -> States] /\ ro[0] = o /\ \A k \in 1..N : ro[k] = Typed(ro[k - 1], h[k])
  BY DEF Typing
<1>2. \A k \in 1..N : h[k] \in Octet
  OBVIOUS
<1>3. N \in Nat /\ n \in 0..N
  OBVIOUS
<1> HIDE DEF N
<1>4. n \in Nat
  BY <1>3
<1> DEFINE P(k) == Alike(rs[k], ro[k]) /\ rs[k].said = s.said /\ ro[k].said = o.said
           I == {k \in 0..n : P(k)}
<1>5. 0 \in I
  BY <1>1, <1>4
<1>6. \A k \in 0..(n - 1) : k \in I => k + 1 \in I
  <2> SUFFICES ASSUME NEW k \in 0..(n - 1), k \in I PROVE k + 1 \in I
    OBVIOUS
  <2>1. /\ k \in 0..N /\ k + 1 \in 0..n /\ k + 1 \in 1..N /\ (k + 1) - 1 = k /\ k + 1 \in 1..n
    BY <1>3, <1>4
  <2>2. P(k)
    OBVIOUS
  <2>3. PICK ch \in Octet : ch = h[k + 1] /\ ch \notin {"CR", "LF"}
    BY <1>2, <2>1
  <2>4. PICK a \in States : a = rs[k]
    BY <1>1, <2>1
  <2>5. PICK b \in States : b = ro[k]
    BY <1>1, <2>1
  <2>6. rs[k + 1] = Typed(a, ch) /\ ro[k + 1] = Typed(b, ch)
    BY <1>1, <2>1, <2>3, <2>4, <2>5
  <2>7. Alike(Typed(a, ch), Typed(b, ch))
    BY <2>2, <2>4, <2>5, TypedAlike
  <2>8. Typed(a, ch).said = a.said /\ Typed(b, ch).said = b.said
    BY <2>3, TypedDoes
  <2>9. P(k + 1)
    BY <2>2, <2>4, <2>5, <2>6, <2>7, <2>8
  <2> HIDE DEF P
  <2> QED BY <2>1, <2>9
<1>7. n \in I
  <2> HIDE DEF I
  <2> QED BY <1>4, <1>5, <1>6, UpTo
<1> QED BY <1>7

(* A glitch, and a line, typed as a whole *)
LEMMA GlitchAlike ==
  ASSUME NEW h \in Seq(Octet), \A i \in 1..Len(h) : h[i] \notin {"CR", "LF"},
         NEW s \in States, NEW o \in States, Alike(s, o)
  PROVE  /\ Alike(TypedAll(s, h), TypedAll(o, h))
         /\ TypedAll(s, h).said = s.said /\ TypedAll(o, h).said = o.said
<1>1. PICK rs : Typing(s, h, rs)
  BY TypedAllIs
<1>2. PICK ro : Typing(o, h, ro)
  BY TypedAllIs
<1>3. Len(h) \in 0..Len(h)
  OBVIOUS
<1>4. rs[Len(h)] = TypedAll(s, h) /\ ro[Len(h)] = TypedAll(o, h)
  BY <1>1, <1>2 DEF Typing
<1> QED BY <1>1, <1>2, <1>3, <1>4, TypingAlike

LEMMA LineAlike ==
  ASSUME NEW h \in Seq(Octet), Len(h) > 0, \A i \in 1..Len(h) : h[i] # "CR" /\ (h[i] = "LF" <=> i = Len(h)),
         NEW s \in States, NEW o \in States, Alike(s, o)
  PROVE  /\ TypedAll(s, h).line = <<>> /\ TypedAll(s, h).over = FALSE
         /\ \E t \in Seq(Shows) : /\ Len(t) \in {0, 1}
                                  /\ TypedAll(s, h).said = s.said \o t /\ TypedAll(o, h).said = o.said \o t
<1> DEFINE N == Len(h)
<1>1. PICK rs : Typing(s, h, rs)
  BY TypedAllIs
<1>2. PICK ro : Typing(o, h, ro)
  BY TypedAllIs
<1>3. /\ rs \in [0..N -> States] /\ rs[N] = TypedAll(s, h) /\ \A k \in 1..N : rs[k] = Typed(rs[k - 1], h[k])
      /\ ro \in [0..N -> States] /\ ro[N] = TypedAll(o, h) /\ \A k \in 1..N : ro[k] = Typed(ro[k - 1], h[k])
  BY <1>1, <1>2 DEF Typing
<1>4. /\ N \in Nat /\ N > 0 /\ h[N] = "LF" /\ h[N] \in Octet
      /\ \A i \in 1..N : i # N => h[i] \notin {"CR", "LF"}
  <2>1. N \in 1..N
    OBVIOUS
  <2> QED BY <2>1
<1>5. Alike(rs[N - 1], ro[N - 1]) /\ rs[N - 1].said = s.said /\ ro[N - 1].said = o.said
  <2>1. N - 1 \in 0..N /\ \A i \in 1..(N - 1) : i \in 1..N /\ i # N
    <3> HIDE DEF N
    <3> QED BY <1>4
  <2>2. \A i \in 1..(N - 1) : h[i] \notin {"CR", "LF"}
    BY <1>4, <2>1
  <2>3. PICK n \in 0..Len(h) : n = N - 1
    BY <2>1
  <2>4. \A i \in 1..n : h[i] \notin {"CR", "LF"}
    BY <2>2, <2>3
  <2>5. Alike(rs[n], ro[n]) /\ rs[n].said = s.said /\ ro[n].said = o.said
    BY <1>1, <1>2, <2>4, TypingAlike
  <2> HIDE DEF N
  <2> QED BY <2>3, <2>5
<1> HIDE DEF N
<1>6. N - 1 \in 0..N /\ N \in 1..N
  BY <1>4
<1>7. PICK a \in States : a = rs[N - 1]
  BY <1>3, <1>6
<1>8. PICK b \in States : b = ro[N - 1]
  BY <1>3, <1>6
<1>9. TypedAll(s, h) = Typed(a, "LF") /\ TypedAll(o, h) = Typed(b, "LF")
  BY <1>3, <1>4, <1>6, <1>7, <1>8
<1>10. "LF" \in Octet
  BY <1>4
<1>11. /\ Typed(a, "LF").line = <<>> /\ Typed(a, "LF").over = FALSE
       /\ Typed(a, "LF").said = a.said \o Told(a) /\ Typed(b, "LF").said = b.said \o Told(b)
  BY <1>10, TypedDoes
<1>12. Told(a) = Told(b)
  BY <1>5, <1>7, <1>8, ToldSame
<1>13. PICK t \in Seq(Shows) : t = Told(a) /\ Len(t) \in {0, 1}
  BY ToldIs
<1>14. TypedAll(s, h).said = s.said \o t /\ TypedAll(o, h).said = o.said \o t
  BY <1>5, <1>7, <1>8, <1>9, <1>11, <1>12, <1>13
<1> QED BY <1>9, <1>11, <1>13, <1>14

LEMMA GlitchIs ==
  ASSUME NEW h \in Glitches
  PROVE  h \in HostBytes /\ h \in Seq(Octet) /\ \A i \in 1..Len(h) : h[i] \notin {"CR", "LF"}
<1>1. h \in HostBytes /\ \A i \in DOMAIN h : h[i] \notin {"CR", "LF"}
  BY DEF Glitches
<1>2. h \in Seq(Octet)
  BY <1>1, HostAssumption, OfStrings
<1> QED BY <1>1, <1>2

(* What may be in a command line into which only glitches have been typed *)
LEMMA OpenedIs ==
  /\ Opened \in [0..SentMax -> SUBSET States] /\ Opened[0] = {Fresh}
  /\ \A n \in 1..SentMax :
       Opened[n] = Opened[n - 1] \cup {TypedAll(s, bytes) : s \in Opened[n - 1], bytes \in Glitches}
<1> DEFINE N == SentMax
           S == SUBSET States
           more(x) == x \cup {TypedAll(s, bytes) : s \in x, bytes \in Glitches}
           g == [p \in (1..N) \X S |-> more(p[2])]
           T(f) == [n \in 0..N |-> IF n = 0 THEN {Fresh} ELSE more(f[n - 1])]
<1>1. N \in Nat /\ {Fresh} \in S
  <2>1. Fresh \in States
    BY StartIs
  <2> QED BY <2>1, ConsoleSizesAssumption
<1>2. ASSUME NEW x \in S
      PROVE  more(x) \in S
  <2> SUFFICES ASSUME NEW s \in x, NEW bytes \in Glitches PROVE TypedAll(s, bytes) \in States
    OBVIOUS
  <2> QED BY GlitchIs, TypedAllIs
<1>3. g \in [(1..N) \X S -> S]
  <2> SUFFICES ASSUME NEW p \in (1..N) \X S PROVE more(p[2]) \in S
    <3> HIDE DEF more, S
    <3> QED OBVIOUS
  <2>1. p[2] \in S
    <3> HIDE DEF S
    <3> QED OBVIOUS
  <2> HIDE DEF more, S
  <2> QED BY <1>2, <2>1
<1>4. PICK f \in [0..N -> S] : f = Folded({Fresh}, g, f, N)
  <2> HIDE DEF g, N, S
  <2> QED BY <1>1, <1>3, FoldExists, ZenonT(60)
<1>5. ASSUME NEW n \in 0..N
      PROVE  f[n] = IF n = 0 THEN {Fresh} ELSE more(f[n - 1])
  <2>1. f[n] = IF n = 0 THEN {Fresh} ELSE g[n, f[n - 1]]
    <3> HIDE DEF g, N, S, more
    <3> QED BY <1>4 DEF Folded
  <2>2. CASE n # 0
    <3>1. n \in 1..N /\ n - 1 \in 0..N
      <4> HIDE DEF N
      <4> QED BY <1>1, <2>2
    <3>2. f[n - 1] \in S
      <4> HIDE DEF S, N
      <4> QED BY <3>1
    <3>3. g[n, f[n - 1]] = more(f[n - 1])
      <4> HIDE DEF more, S, N
      <4> QED BY <3>1, <3>2 DEF g
    <3> HIDE DEF g, more
    <3> QED BY <2>1, <2>2, <3>3
  <2> HIDE DEF more
  <2> QED BY <2>1, <2>2
<1>6. f = T(f)
  <2>1. f = [n \in 0..N |-> f[n]]
    <3> HIDE DEF S
    <3> QED OBVIOUS
  <2> HIDE DEF more, S, g
  <2> QED BY <1>5, <2>1
<1> DEFINE after == CHOOSE h : h = T(h)
<1>7. after = T(after)
  <2> HIDE DEF T
  <2> QED BY <1>6
<1>8. after = [n \in 0..N |-> IF n = 0 THEN {Fresh} ELSE more(after[n - 1])]
  <2> HIDE DEF after, more
  <2> QED BY <1>7
<1>14. Opened = after
  BY DEF Opened
<1> HIDE DEF after, T, more, S, g, N
<1>9. \A n \in 0..N : after[n] = IF n = 0 THEN {Fresh} ELSE more(after[n - 1])
  BY <1>8
<1>10. \A m \in 0..N : after[m] \in S
  <2> TAKE m \in 0..N
  <2> DEFINE J == {n \in 0..m : after[n] \in S}
  <2>1. m \in Nat /\ 0 \in 0..m /\ 0 \in 0..N
    BY <1>1
  <2>2. 0 \in J
    BY <1>1, <1>9, <2>1
  <2>3. \A n \in 0..(m - 1) : n \in J => n + 1 \in J
    <3> SUFFICES ASSUME NEW n \in 0..(m - 1), n \in J PROVE n + 1 \in J
      OBVIOUS
    <3>1. n + 1 \in 0..N /\ n + 1 # 0 /\ (n + 1) - 1 = n /\ n + 1 \in 0..m
      BY <1>1, <2>1
    <3>2. after[n] \in S
      OBVIOUS
    <3>3. after[n + 1] = more(after[n])
      BY <1>9, <3>1
    <3> QED BY <1>2, <3>1, <3>2, <3>3
  <2>4. m \in J
    <3> HIDE DEF J
    <3> QED BY <2>1, <2>2, <2>3, UpTo
  <2> QED BY <2>4
<1>11. after \in [0..N -> S]
  <2>1. after = [n \in 0..N |-> after[n]]
    <3>1. DOMAIN after = 0..N
      BY <1>8
    <3> QED BY <1>8, <3>1
  <2> QED BY <1>10, <2>1
<1>12. 0 \in 0..N /\ \A n \in 1..N : n \in 0..N /\ n # 0
  BY <1>1
<1>13. after[0] = {Fresh} /\ \A n \in 1..N : after[n] = more(after[n - 1])
  BY <1>9, <1>12
<1> QED BY <1>11, <1>13, <1>14 DEF N, S, more

LEMMA OpenedGrows ==
  ASSUME NEW m \in 0..SentMax, NEW n \in 0..m
  PROVE  Opened[n] \subseteq Opened[m]
<1> DEFINE J == {k \in 0..(m - n) : Opened[n] \subseteq Opened[n + k]}
<1>1. m \in Nat /\ n \in Nat /\ m - n \in Nat /\ n + (m - n) = m /\ 0 \in 0..(m - n) /\ n + 0 = n /\ SentMax \in Nat
  BY ConsoleSizesAssumption
<1>2. 0 \in J
  BY <1>1
<1>3. \A k \in 0..((m - n) - 1) : k \in J => k + 1 \in J
  <2> SUFFICES ASSUME NEW k \in 0..((m - n) - 1), k \in J PROVE k + 1 \in J
    OBVIOUS
  <2>1. n + (k + 1) \in 1..SentMax /\ (n + (k + 1)) - 1 = n + k /\ k + 1 \in 0..(m - n)
    BY <1>1
  <2>2. Opened[n + k] \subseteq Opened[n + (k + 1)]
    BY <2>1, OpenedIs
  <2>3. Opened[n] \subseteq Opened[n + k]
    OBVIOUS
  <2> QED BY <2>1, <2>2, <2>3
<1>4. m - n \in J
  <2> HIDE DEF J
  <2> QED BY <1>1, <1>2, <1>3, UpTo
<1> QED BY <1>1, <1>4

LEMMA OpenedSays ==
  ASSUME NEW m \in 0..SentMax, NEW o \in Opened[m]
  PROVE  o \in States /\ o.said = <<>>
<1> DEFINE J == {n \in 0..m : \A x \in Opened[n] : x \in States /\ x.said = <<>>}
<1>1. m \in Nat /\ SentMax \in Nat /\ 0 \in 0..m
  BY ConsoleSizesAssumption
<1>2. 0 \in J
  BY <1>1, OpenedIs, StartIs
<1>3. \A n \in 0..(m - 1) : n \in J => n + 1 \in J
  <2> SUFFICES ASSUME NEW n \in 0..(m - 1), n \in J, NEW x \in Opened[n + 1]
               PROVE  n + 1 \in 0..m /\ x \in States /\ x.said = <<>>
    OBVIOUS
  <2>1. n + 1 \in 1..SentMax /\ (n + 1) - 1 = n /\ n + 1 \in 0..m
    BY <1>1
  <2>2. x \in Opened[n] \cup {TypedAll(s, bytes) : s \in Opened[n], bytes \in Glitches}
    BY <2>1, OpenedIs
  <2>3. \A y \in Opened[n] : y \in States /\ y.said = <<>>
    OBVIOUS
  <2>4. CASE x \in Opened[n]
    BY <2>1, <2>3, <2>4
  <2>5. CASE x \in {TypedAll(s, bytes) : s \in Opened[n], bytes \in Glitches}
    <3>1. PICK s \in Opened[n], bytes \in Glitches : x = TypedAll(s, bytes)
      BY <2>5
    <3>2. bytes \in Seq(Octet) /\ \A i \in 1..Len(bytes) : bytes[i] \notin {"CR", "LF"}
      BY GlitchIs
    <3>3. s \in States /\ s.said = <<>> /\ Alike(s, s)
      BY <2>3 DEF Alike
    <3>4. TypedAll(s, bytes) \in States
      BY <3>2, <3>3, TypedAllIs
    <3>5. TypedAll(s, bytes).said = s.said
      BY <3>2, <3>3, GlitchAlike
    <3> QED BY <2>1, <3>1, <3>3, <3>4, <3>5
  <2> QED BY <2>2, <2>4, <2>5
<1>4. m \in J
  <2> HIDE DEF J
  <2> QED BY <1>1, <1>2, <1>3, UpTo
<1> QED BY <1>4

(* What is announced, and the lines that it answers, each later than the one before *)
Asked(shown, h) == h \in DOMAIN Lines /\ AsAsked(shown.reader) = Lines[h] /\ AsAsked(shown.tool) = Lines[h]
Rising(f, n, m) == f \in [1..n -> 1..m] /\ \A i, j \in 1..n : i < j => f[i] < f[j]
Answers(p, q, f) == Rising(f, Len(p), Len(q)) /\ \A i \in 1..Len(p) : Asked(p[i], q[f[i]])
Right(z, q) == (\E o \in Opened[Len(q)] : Alike(z, o)) /\ \E f : Answers(z.said, q, f)

LEMMA AnswersLonger ==
  ASSUME NEW p \in Seq(Shows), NEW q \in Seq(HostBytes), NEW h \in HostBytes, NEW f, Answers(p, q, f)
  PROVE  Answers(p, Append(q, h), f)
<1> DEFINE n == Len(p)
           m == Len(q)
           r == Append(q, h)
<1>1. n \in Nat /\ m \in Nat /\ Len(r) = m + 1 /\ \A j \in 1..m : r[j] = q[j]
  OBVIOUS
<1>2. Rising(f, n, m) /\ \A i \in 1..n : Asked(p[i], q[f[i]])
  BY DEF Answers
<1> HIDE DEF n, m, r
<1>3. \A j \in 1..m : j \in 1..(m + 1)
  BY <1>1
<1>4. f \in [1..n -> 1..m] /\ \A i, j \in 1..n : i < j => f[i] < f[j]
  BY <1>2 DEF Rising
<1>5. Rising(f, n, m + 1)
  <2>1. f \in [1..n -> 1..(m + 1)]
    BY <1>3, <1>4
  <2> QED BY <1>4, <2>1 DEF Rising
<1>6. \A i \in 1..n : Asked(p[i], r[f[i]])
  BY <1>1, <1>2, <1>4
<1> QED BY <1>1, <1>5, <1>6 DEF Answers, n, r

LEMMA AnswersMore ==
  ASSUME NEW p \in Seq(Shows), NEW x \in Shows, NEW q \in Seq(HostBytes), NEW h \in HostBytes,
         NEW f, Answers(p, q, f), Asked(x, h)
  PROVE  \E g : Answers(p \o <<x>>, Append(q, h), g)
<1> DEFINE n == Len(p)
           m == Len(q)
           r == Append(q, h)
           u == p \o <<x>>
<1>1. n \in Nat /\ m \in Nat /\ Len(r) = m + 1 /\ r[m + 1] = h /\ \A j \in 1..m : r[j] = q[j]
  OBVIOUS
<1>2. Len(u) = n + 1 /\ u[n + 1] = x /\ \A j \in 1..n : u[j] = p[j]
  OBVIOUS
<1>3. Rising(f, n, m) /\ \A i \in 1..n : Asked(p[i], q[f[i]])
  BY DEF Answers
<1> HIDE DEF n, m, r, u
<1>4. f \in [1..n -> 1..m] /\ \A i, j \in 1..n : i < j => f[i] < f[j]
  BY <1>3 DEF Rising
<1> DEFINE g == [i \in 1..(n + 1) |-> IF i = n + 1 THEN m + 1 ELSE f[i]]
<1>5. /\ \A i \in 1..(n + 1) : i = n + 1 \/ (i \in 1..n /\ i # n + 1)
      /\ \A i \in 1..n : i \in 1..(n + 1) /\ i # n + 1
      /\ n + 1 \in 1..(n + 1) /\ m + 1 \in 1..(m + 1)
      /\ \A j \in 1..m : j \in 1..(m + 1) /\ j < m + 1 /\ j # m + 1
  BY <1>1
<1>6. g[n + 1] = m + 1 /\ \A i \in 1..n : g[i] = f[i]
  BY <1>5
<1>7. g \in [1..(n + 1) -> 1..(m + 1)]
  <2> SUFFICES ASSUME NEW i \in 1..(n + 1) PROVE (IF i = n + 1 THEN m + 1 ELSE f[i]) \in 1..(m + 1)
    OBVIOUS
  <2> QED BY <1>4, <1>5
<1> HIDE DEF g
<1>8. ASSUME NEW i \in 1..(n + 1), NEW j \in 1..(n + 1), i < j
      PROVE  g[i] < g[j]
  <2>1. i \in 1..n
    BY <1>1, <1>8
  <2>2. CASE j = n + 1
    BY <1>4, <1>5, <1>6, <2>1, <2>2
  <2>3. CASE j # n + 1
    BY <1>4, <1>5, <1>6, <1>8, <2>1, <2>3
  <2> QED BY <2>2, <2>3
<1>9. Rising(g, n + 1, m + 1)
  BY <1>7, <1>8 DEF Rising
<1>10. ASSUME NEW i \in 1..(n + 1)
       PROVE  Asked(u[i], r[g[i]])
  <2>1. CASE i = n + 1
    BY <1>1, <1>2, <1>6, <2>1
  <2>2. CASE i # n + 1
    <3>1. i \in 1..n /\ f[i] \in 1..m
      BY <1>4, <1>5, <2>2
    <3> QED BY <1>1, <1>2, <1>3, <1>6, <3>1
  <2> QED BY <2>1, <2>2
<1>11. Answers(u, r, g)
  BY <1>1, <1>2, <1>9, <1>10 DEF Answers
<1> QED BY <1>11 DEF u, r

LEMMA AnswersFewer ==
  ASSUME NEW p \in Seq(Shows), NEW u \in Seq(Shows), Before(u, p), NEW q \in Seq(HostBytes), NEW f,
         Answers(p, q, f)
  PROVE  \E g : Answers(u, q, g)
<1> DEFINE n == Len(p)
           k == Len(u)
           m == Len(q)
           g == [i \in 1..k |-> f[i]]
<1>1. n \in Nat /\ k \in Nat /\ k <= n /\ \A i \in 1..k : p[i] = u[i]
  BY DEF Before
<1>2. Rising(f, n, m) /\ \A i \in 1..n : Asked(p[i], q[f[i]])
  BY DEF Answers
<1> HIDE DEF n, k, m
<1>3. \A i \in 1..k : i \in 1..n
  BY <1>1
<1>4. f \in [1..n -> 1..m] /\ \A i, j \in 1..n : i < j => f[i] < f[j]
  BY <1>2 DEF Rising
<1>5. \A i \in 1..k : g[i] = f[i]
  OBVIOUS
<1>6. g \in [1..k -> 1..m]
  BY <1>3, <1>4
<1> HIDE DEF g
<1>7. Rising(g, k, m)
  BY <1>3, <1>4, <1>5, <1>6 DEF Rising
<1>8. \A i \in 1..k : Asked(u[i], q[g[i]])
  BY <1>1, <1>2, <1>3, <1>5
<1>9. Answers(u, q, g)
  BY <1>7, <1>8 DEF Answers, k, m
<1> QED BY <1>9

(* As many lines as announcements, each at its place *)
Firsts(f, k) == {f[i] : i \in 1..k}
LEMMA Counted ==
  ASSUME NEW n \in Nat, NEW m \in Nat, NEW f, Rising(f, n, m), NEW k \in 0..n
  PROVE  Cardinality(Firsts(f, k)) = k
<1> DEFINE L(x) == {f[i] : i \in 1..x}
           J == {x \in 0..k : IsFiniteSet(L(x)) /\ Cardinality(L(x)) = x}
<1>1. f \in [1..n -> 1..m] /\ \A i, j \in 1..n : i < j => f[i] < f[j]
  BY DEF Rising
<1>2. k \in Nat /\ 0 \in 0..k
  OBVIOUS
<1>3. 0 \in J
  <2>1. L(0) = {}
    OBVIOUS
  <2>2. IsFiniteSet(L(0)) /\ Cardinality(L(0)) = 0
    BY <2>1, FS_EmptySet
  <2> HIDE DEF L
  <2> QED BY <1>2, <2>2
<1>4. \A x \in 0..(k - 1) : x \in J => x + 1 \in J
  <2> SUFFICES ASSUME NEW x \in 0..(k - 1), x \in J PROVE x + 1 \in J
    OBVIOUS
  <2>1. /\ x + 1 \in 0..k /\ x + 1 \in 1..n /\ x \in Nat
        /\ \A i \in 1..(x + 1) : i \in 1..x \/ i = x + 1
        /\ \A i \in 1..x : i \in 1..(x + 1) /\ i \in 1..n /\ i < x + 1
        /\ x + 1 \in 1..(x + 1)
    OBVIOUS
  <2>2. L(x + 1) = L(x) \cup {f[x + 1]}
    BY <2>1
  <2>3. f[x + 1] \notin L(x)
    <3> SUFFICES ASSUME NEW i \in 1..x PROVE f[i] # f[x + 1]
      OBVIOUS
    <3>1. f[i] < f[x + 1] /\ f[i] \in 1..m /\ f[x + 1] \in 1..m
      BY <1>1, <2>1
    <3> QED BY <3>1
  <2>4. IsFiniteSet(L(x)) /\ Cardinality(L(x)) = x
    OBVIOUS
  <2> HIDE DEF L
  <2>5. IsFiniteSet(L(x + 1)) /\ Cardinality(L(x + 1)) = x + 1
    BY <2>2, <2>3, <2>4, FS_AddElement
  <2> QED BY <2>1, <2>5
<1>5. k \in J
  <2> HIDE DEF J
  <2> QED BY <1>2, <1>3, <1>4, UpTo
<1> QED BY <1>5 DEF Firsts

LEMMA StaysOpened ==
  ASSUME NEW n \in Nat, n < SentMax
  PROVE  /\ n \in 0..SentMax /\ n + 1 \in 0..SentMax /\ n + 1 \in 1..SentMax /\ SentMax - 1 \in 0..SentMax
         /\ Opened[n] \subseteq Opened[n + 1] /\ Opened[n] \subseteq Opened[SentMax - 1]
         /\ Fresh \in Opened[n + 1] /\ Opened[n] \subseteq States
<1>1. SentMax \in Nat
  BY ConsoleSizesAssumption
<1>2. /\ n \in 0..SentMax /\ n + 1 \in 0..SentMax /\ n + 1 \in 1..SentMax /\ SentMax - 1 \in 0..SentMax
      /\ n \in 0..(n + 1) /\ n \in 0..(SentMax - 1) /\ 0 \in 0..(n + 1) /\ 0 \in 0..SentMax
  BY <1>1
<1>3. Opened[n] \subseteq Opened[n + 1] /\ Opened[n] \subseteq Opened[SentMax - 1]
  BY <1>2, OpenedGrows
<1>4. Fresh \in Opened[n + 1]
  <2>1. Opened[0] \subseteq Opened[n + 1]
    BY <1>2, OpenedGrows
  <2> QED BY <2>1, OpenedIs
<1>5. Opened[n] \subseteq States
  BY <1>2, OpenedIs
<1> QED BY <1>2, <1>3, <1>4, <1>5

(* What the host sends next is announced, if it is, as what it asks for. *)
LEMMA FollowsRight ==
  ASSUME Asking, NEW z \in States, NEW q \in Seq(HostBytes), Len(q) < SentMax, NEW h \in HostBytes, Right(z, q)
  PROVE  Right(Follows(z, h), Append(q, h))
<1> DEFINE n == Len(q)
           y == Follows(z, h)
           r == Append(q, h)
<1>1. PICK o \in Opened[n] : Alike(z, o)
  BY DEF Right
<1>2. PICK f : Answers(z.said, q, f)
  BY DEF Right
<1>3. n \in Nat /\ n < SentMax /\ Len(r) = n + 1 /\ h \in Seq(Octet)
  BY HostAssumption, OfStrings
<1> HIDE DEF n
<1>4. /\ o \in Opened[n + 1] /\ o \in Opened[SentMax - 1] /\ Fresh \in Opened[n + 1] /\ o \in States
      /\ n \in 0..SentMax /\ n + 1 \in 1..SentMax /\ (n + 1) - 1 = n
  BY <1>1, <1>3, StaysOpened
<1>5. Answers(z.said, r, f)
  <2>1. PICK p : p = z.said
    OBVIOUS
  <2>2. p \in Seq(Shows)
    BY <2>1, StatesAre
  <2> QED BY <1>2, <2>1, <2>2, AnswersLonger
<1>6. y.said = z.said => \E g : Answers(y.said, r, g)
  BY <1>5
<1> HIDE DEF r, y
<1>7. Alike(Fresh, Fresh) /\ Fresh.line = <<>> /\ Fresh.over = FALSE
  BY StartIs DEF Alike
<1>8. (\E x \in Opened[n + 1] : Alike(y, x)) /\ \E g : Answers(y.said, r, g)
  <2>1. CASE h \in ModeLines
    <3>1. PICK m \in BothModes : m = ModeAt(h, 1)
      BY ModeOfLine
    <3>2. y = Switched(z, m)
      BY <2>1, <3>1 DEF y, Follows
    <3>3. y.said = z.said
      BY <3>2, SwitchedDoes
    <3>4. Alike(y, Fresh) \/ Alike(y, o)
      BY <1>1, <1>7, <3>2, SwitchedDoes DEF Alike
    <3> QED BY <1>4, <1>6, <3>3, <3>4
  <2>2. CASE h \notin ModeLines /\ z.mode # "writer"
    <3>1. y = z
      BY <2>2 DEF y, Follows
    <3> QED BY <1>1, <1>4, <1>6, <3>1
  <2>3. CASE z.mode = "writer" /\ h \in Glitches /\ h \notin ModeLines
    <3>1. y = TypedAll(z, h)
      BY <2>3 DEF y, Follows
    <3>2. \A i \in 1..Len(h) : h[i] \notin {"CR", "LF"}
      BY <2>3, GlitchIs
    <3>3. Alike(y, TypedAll(o, h)) /\ y.said = z.said
      BY <1>1, <1>3, <1>4, <3>1, <3>2, GlitchAlike
    <3>4. TypedAll(o, h) \in Opened[n + 1]
      <4>1. Opened[n + 1] = Opened[n] \cup {TypedAll(s, bytes) : s \in Opened[n], bytes \in Glitches}
        BY <1>4, OpenedIs
      <4> QED BY <1>1, <2>3, <4>1
    <3> QED BY <1>6, <3>3, <3>4
  <2>4. CASE z.mode = "writer" /\ h \notin Glitches /\ h \notin ModeLines
    <3>1. y = TypedAll(z, h)
      BY <2>4 DEF y, Follows
    <3>2. /\ \A i \in DOMAIN h : h[i] # "CR" /\ (h[i] = "LF" <=> i = Len(h))
          /\ \A s \in Opened[SentMax - 1] :
               \A i \in DOMAIN TypedAll(s, h).said : Asked(TypedAll(s, h).said[i], h)
      <4>1. h \in HostBytes \ (ModeLines \cup Glitches)
        BY <2>4
      <4> QED BY <4>1 DEF Asking, Asked
    <3>3. DOMAIN h = 1..Len(h) /\ Len(h) > 0
      <4>1. \E i \in DOMAIN h : h[i] \in {"CR", "LF"}
        BY <2>4 DEF Glitches
      <4> QED BY <1>3, <4>1
    <3>4. /\ y.line = <<>> /\ y.over = FALSE
          /\ \E t \in Seq(Shows) : /\ Len(t) \in {0, 1}
                                   /\ y.said = z.said \o t /\ TypedAll(o, h).said = o.said \o t
      BY <1>1, <1>3, <1>4, <3>1, <3>2, <3>3, LineAlike
    <3>5. PICK t \in Seq(Shows) : Len(t) \in {0, 1} /\ y.said = z.said \o t /\ TypedAll(o, h).said = o.said \o t
      BY <3>4
    <3>6. o.said = <<>>
      BY <1>1, <1>4, OpenedSays
    <3>7. PICK p \in Seq(Shows) : p = z.said
      BY StatesAre
    <3>8. TypedAll(o, h).said = t
      <4>1. <<>> \o t = t
        OBVIOUS
      <4> QED BY <3>5, <3>6, <4>1
    <3>9. Alike(y, Fresh)
      BY <1>7, <3>4 DEF Alike
    <3>10. CASE Len(t) = 0
      <4>1. p \o t = p
        BY <3>10
      <4> QED BY <1>4, <1>6, <3>5, <3>7, <3>9, <4>1
    <3>11. CASE Len(t) = 1
      <4>1. PICK x \in Shows : t = <<x>> /\ x = t[1] /\ 1 \in DOMAIN t
        BY <3>11
      <4>2. Asked(x, h)
        BY <1>4, <3>2, <3>8, <4>1
      <4>3. Answers(p, q, f)
        BY <1>2, <3>7
      <4>4. \E g : Answers(p \o <<x>>, r, g)
        BY <4>2, <4>3, AnswersMore DEF r
      <4> QED BY <1>4, <3>5, <3>7, <3>9, <4>1, <4>4
    <3> QED BY <3>5, <3>10, <3>11
  <2> QED BY <2>1, <2>2, <2>3, <2>4
<1> QED BY <1>3, <1>8 DEF Right, r, y

(* From the announcements and the lines that they answer to the property *)
LEMMA AskedInOrder ==
  ASSUME said \in Seq(Shows), sent \in Seq(HostBytes), NEW f, Answers(said, sent, f)
  PROVE  AnnouncedIsAsked
<1> DEFINE n == Len(said)
           m == Len(sent)
           L(k) == Firsts(f, k)
           upto(x) == {j \in L(n) : j <= x}
<1>1. n \in Nat /\ m \in Nat /\ DOMAIN sent = 1..m
  OBVIOUS
<1>2. Rising(f, n, m) /\ \A i \in 1..n : Asked(said[i], sent[f[i]])
  BY DEF Answers
<1> HIDE DEF n, m
<1>3. f \in [1..n -> 1..m] /\ \A i, j \in 1..n : i < j => f[i] < f[j]
  BY <1>2 DEF Rising
<1>4. n \in 0..n /\ \A k \in 1..n : k \in 0..n
  BY <1>1
<1>5. \A k \in 0..n : Cardinality(L(k)) = k
  BY <1>1, <1>2, Counted
<1>6. L(n) \in SUBSET (1..m)
  BY <1>3 DEF Firsts
<1>7. ASSUME NEW k \in 1..n
      PROVE  upto(f[k]) = L(k)
  <2>1. ASSUME NEW i \in 1..n
        PROVE  f[i] <= f[k] <=> i \in 1..k
    <3>1. f[i] \in 1..m /\ f[k] \in 1..m
      BY <1>3
    <3>2. CASE i < k
      <4>1. f[i] < f[k]
        BY <1>3, <3>2
      <4> QED BY <1>1, <3>1, <3>2, <4>1
    <3>3. CASE k < i
      <4>1. f[k] < f[i]
        BY <1>3, <3>3
      <4> QED BY <1>1, <3>1, <3>3, <4>1
    <3>4. CASE i = k
      BY <1>1, <3>1, <3>4
    <3> QED BY <1>1, <3>2, <3>3, <3>4
  <2>2. \A i \in 1..k : i \in 1..n
    BY <1>1
  <2> QED BY <2>1, <2>2 DEF Firsts
<1>8. \A x \in L(n) : \E k \in 1..n : x = f[k]
  BY DEF Firsts
<1>9. ASSUME NEW x \in L(n)
      PROVE  sent[x] \in DOMAIN Lines /\ Asked(said[Cardinality(upto(x))], sent[x])
  <2>1. PICK k \in 1..n : x = f[k]
    BY <1>8
  <2>2. Cardinality(upto(x)) = k
    <3>1. upto(x) = L(k)
      BY <1>7, <2>1
    <3> HIDE DEF L, upto
    <3> QED BY <1>4, <1>5, <3>1
  <2>3. Asked(said[k], sent[x])
    BY <1>2, <2>1
  <2> HIDE DEF upto, L
  <2> QED BY <2>2, <2>3 DEF Asked
<1> DEFINE W == L(n)
<1>10. /\ W \in SUBSET DOMAIN sent
       /\ \A x \in W : sent[x] \in DOMAIN Lines
       /\ Cardinality(W) = Len(said)
       /\ \A x \in W : Asked(said[Cardinality({j \in W : j <= x})], sent[x])
  <2>1. Cardinality(W) = Len(said)
    <3> HIDE DEF L
    <3> QED BY <1>4, <1>5 DEF n
  <2> HIDE DEF L
  <2> QED BY <1>1, <1>6, <1>9, <2>1
<1> HIDE DEF W, L, upto
<1> QED BY <1>10 DEF AnnouncedIsAsked, Asked

(* The invariant: what the console will have announced when all bytes have been     *)
(* taken are answers to lines in their order, and its command line holds glitches   *)
(* at most.                                                                         *)
SaidInv == sent \in Seq(HostBytes) /\ Len(sent) <= SentMax /\ \E z \in States : EndsIn(z) /\ Right(z, sent)

LEMMA SaidBefore ==
  ASSUME ConsoleInv, NEW z \in States, EndsIn(z)
  PROVE  Before(said, z.said) /\ said \in Seq(Shows)
<1>1. /\ out \in Seq(Octet) /\ hw \in Seq(Octet) /\ ring \in Seq(Octet) /\ scan \in Seq(Octet)
      /\ said \in Seq(Shows) /\ Here \in States
  BY HereIs DEF ConsoleInv
<1>2. PICK a : a = hw \o out
  OBVIOUS
<1>3. PICK b : b = ring \o a
  OBVIOUS
<1>4. PICK c : c = scan \o b
  OBVIOUS
<1>5. a \in Seq(Octet)
  BY <1>1, <1>2, Joined
<1>6. b \in Seq(Octet)
  BY <1>1, <1>3, <1>5, Joined
<1>7. c \in Seq(Octet)
  BY <1>1, <1>4, <1>6, Joined
<1>8. Leads(c, Bare(Here), z)
  <2>1. Here.scan = scan /\ Here.ring = ring
    BY DEF Here
  <2>2. Ahead(Here, hw \o out) = c
    BY <1>2, <1>3, <1>4, <2>1 DEF Ahead
  <2> QED BY <2>2 DEF EndsIn, Hears
<1>9. Bare(Here).said = said
  BY <1>1, BareIs DEF Here
<1>10. Before(Bare(Here).said, z.said)
  BY <1>7, <1>8, LeadsBefore
<1> QED BY <1>1, <1>9, <1>10

(* What the console announces as configured decodes, as the firmware's reader and   *)
(* the host's tool print it, to what a line of the host asks for, in the order of   *)
(* the lines (writer_serial_cli_poll, scan_mode_switch, nfc_hal_preload_serial,     *)
(* build_ndef_message).  It is enough that each line does so by itself, typed into  *)
(* a writer that has just been set up (Asking): neither the interleaving of its     *)
(* bytes with the main loop, nor what the scanner holds back, nor a mode switch,    *)
(* nor what earlier commands have left in the configuration matters.                *)
THEOREM AnnouncedAsAsked == Hearing /\ Asking => (Spec => []AnnouncedIsAsked)
<1>1. SUFFICES ASSUME Hearing, Asking PROVE Spec => []AnnouncedIsAsked
  OBVIOUS
<1>2. WriteBackInit => SaidInv
  <2> SUFFICES ASSUME WriteBackInit PROVE SaidInv
    OBVIOUS
  <2>1. sent = <<>> /\ SentMax \in Nat
    BY ConsoleSizesAssumption DEF WriteBackInit, Init
  <2>2. EndsIn(Start) /\ Start \in States /\ Start.said = <<>>
    BY InitHears, StartIs
  <2>3. Len(sent) = 0 /\ sent \in Seq(HostBytes) /\ 0 <= SentMax
    BY <2>1
  <2>4. Alike(Start, Fresh) /\ Fresh \in Opened[Len(sent)]
    BY <2>3, StartIs, OpenedIs DEF Alike
  <2>5. \E f : Answers(Start.said, sent, f)
    <3> DEFINE f == [i \in 1..0 |-> 0]
    <3>1. f \in [1..0 -> 1..0] /\ \A i, j \in 1..0 : i < j => f[i] < f[j]
      OBVIOUS
    <3>2. Len(<<>>) = 0 /\ \A i \in 1..0 : FALSE
      OBVIOUS
    <3> HIDE DEF f
    <3>3. Rising(f, 0, 0)
      BY <3>1 DEF Rising
    <3>4. Answers(Start.said, sent, f)
      BY <2>1, <2>2, <3>2, <3>3 DEF Answers
    <3> QED BY <3>4
  <2>6. Right(Start, sent)
    BY <2>4, <2>5 DEF Right
  <2> QED BY <2>2, <2>3, <2>6 DEF SaidInv
<1>3. IInv /\ SaidInv /\ [Next]_vars => SaidInv'
  <2> SUFFICES ASSUME ConsoleInv, SaidInv, [Next]_vars PROVE SaidInv'
    BY DEF IInv
  <2>1. PICK z \in States : EndsIn(z) /\ Right(z, sent)
    BY DEF SaidInv
  <2>2. sent \in Seq(HostBytes) /\ Len(sent) <= SentMax
    BY DEF SaidInv
  <2>3. CASE sent' = sent /\ EndsIn(z)'
    <3>1. Right(z, sent')
      BY <2>1, <2>3
    <3> QED BY <2>2, <2>3, <3>1 DEF SaidInv
  <2>4. CASE \E h \in HostBytes : Len(sent) < SentMax /\ sent' = Append(sent, h) /\ EndsIn(Follows(z, h))'
    <3>1. PICK h \in HostBytes : Len(sent) < SentMax /\ sent' = Append(sent, h) /\ EndsIn(Follows(z, h))'
      BY <2>4
    <3>2. h \in Seq(Octet)
      BY HostAssumption, OfStrings
    <3>3. PICK y \in States : y = Follows(z, h)
      BY <3>2, FollowsIs
    <3>4. Right(y, sent')
      BY <1>1, <2>1, <2>2, <3>1, <3>3, FollowsRight
    <3>5. sent' \in Seq(HostBytes) /\ Len(sent') <= SentMax
      <4>1. SentMax \in Nat
        BY ConsoleSizesAssumption
      <4>2. Len(sent') = Len(sent) + 1 /\ sent' \in Seq(HostBytes) /\ Len(sent) \in Nat
        BY <2>2, <3>1
      <4>3. PICK n \in Nat : n = Len(sent)
        BY <4>2
      <4> QED BY <3>1, <4>1, <4>2, <4>3
    <3>6. EndsIn(y)'
      BY <3>1, <3>3
    <3> QED BY <3>4, <3>5, <3>6 DEF SaidInv
  <2> QED BY <1>1, <2>1, <2>3, <2>4, NextHears
<1>4. IInv /\ SaidInv => AnnouncedIsAsked
  <2> SUFFICES ASSUME ConsoleInv, SaidInv PROVE AnnouncedIsAsked
    BY DEF IInv
  <2>1. PICK z \in States : EndsIn(z) /\ Right(z, sent)
    BY DEF SaidInv
  <2>2. Before(said, z.said) /\ said \in Seq(Shows) /\ sent \in Seq(HostBytes)
    BY <2>1, SaidBefore DEF SaidInv
  <2>3. PICK p \in Seq(Shows) : p = z.said
    BY StatesAre
  <2>4. PICK f : Answers(p, sent, f)
    BY <2>1, <2>3 DEF Right
  <2>5. PICK g : Answers(said, sent, g)
    BY <2>2, <2>3, <2>4, AnswersFewer
  <2> QED BY <2>2, <2>5, AskedInOrder
<1> QED BY <1>2, <1>3, <1>4, Invariance, PTL DEF Spec
=============================================================================
