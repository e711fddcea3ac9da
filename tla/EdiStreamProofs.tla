---------------------------- MODULE EdiStreamProofs ----------------------------
(***************************************************************************)
(* Proof of NoneLeftOut, for streams of any packets with any contents, cut *)
(* anywhere, and any number of connections.                                *)
(***************************************************************************)
EXTENDS MCEdi, WellFoundedInduction, TLAPS

-----------------------------------------------------------------------------
(* Induction, over a set that has 0 and with each number the next one.     *)
LEMMA SetInduction ==
    ASSUME NEW S, 0 \in S, \A n \in Nat : n \in S => n + 1 \in S
    PROVE  \A n \in Nat : n \in S
<1> DEFINE R == OpToRel(<, Nat)
           T == Nat \ S
<1>1. R = {ss \in Nat \X Nat : ss[1] < ss[2]}
  BY DEF OpToRel
<1>2. IsWellFoundedOn(R, Nat)
  BY NatLessThanWellFounded
<1> HIDE DEF R
<1> SUFFICES ASSUME T # {} PROVE FALSE
  OBVIOUS
<1>3. PICK x \in T : \A y \in T : ~(<<y, x>> \in R)
  BY <1>2, WFMin
<1>4. x # 0 /\ x \in Nat
  OBVIOUS
<1>5. x - 1 \in Nat /\ <<x - 1, x>> \in R
  BY <1>1, <1>4
<1>6. x - 1 \in S
  BY <1>3, <1>5
<1>7. (x - 1) + 1 \in S
  BY <1>5, <1>6
<1>8. QED
  BY <1>4, <1>7

-----------------------------------------------------------------------------
(* The packets of a stream and their bytes.                                *)

Byte == [packet : Nat, place : Nat, value : Nat]

Size(s, k) == 4 + Len(s[k].body)

BytesIn(s, k) ==
    LET values == <<Tcp!A, Tcp!F, Len(s[k].body)>> \o s[k].body \o <<0>>
    IN  [i \in DOMAIN values |-> [packet |-> k, place |-> i, value |-> values[i]]]

LEMMA ElementOf ==
    ASSUME NEW S, NEW seq \in Seq(S), NEW i \in DOMAIN seq
    PROVE  seq[i] \in S
  OBVIOUS

(* Every packet has a body of bytes.                                       *)
OfPackets(s) == s \in Seq([body : Seq(Nat), tags : Seq(STRING)])

LEMMA BytesOf ==
    ASSUME NEW s, OfPackets(s), NEW k \in DOMAIN s
    PROVE  /\ k \in Nat /\ Size(s, k) \in Nat /\ Size(s, k) >= 4
           /\ BytesIn(s, k) \in Seq(Byte) /\ Len(BytesIn(s, k)) = Size(s, k)
           /\ \A i \in 1 .. Size(s, k) : BytesIn(s, k)[i].packet = k /\ BytesIn(s, k)[i].place = i
           /\ BytesIn(s, k)[1].value = Tcp!A /\ BytesIn(s, k)[2].value = Tcp!F
           /\ 4 + BytesIn(s, k)[3].value = Size(s, k)
<1> DEFINE body == s[k].body
           values == <<Tcp!A, Tcp!F, Len(body)>> \o body \o <<0>>
           b == BytesIn(s, k)
<1>1. k \in Nat /\ body \in Seq(Nat) /\ Len(body) \in Nat
  <2> DEFINE R == [body : Seq(Nat), tags : Seq(STRING)]
  <2>1. s \in Seq(R)
    BY DEF OfPackets
  <2> HIDE DEF R
  <2>2. s[k] \in R
    BY <2>1, ElementOf
  <2> USE DEF R
  <2>3. body \in Seq(Nat)
    BY <2>2
  <2>4. DOMAIN s = 1 .. Len(s) /\ Len(s) \in Nat
    BY DEF OfPackets
  <2>5. QED
    BY <2>3, <2>4
<1>2. Size(s, k) = 4 + Len(body)
  BY DEF Size
<1>3. b = [i \in DOMAIN values |-> [packet |-> k, place |-> i, value |-> values[i]]]
  BY DEF BytesIn
<1> HIDE DEF body, b
<1>4. <<Tcp!A, Tcp!F, Len(body)>> \in Seq(Nat) /\ <<0>> \in Seq(Nat)
  BY <1>1 DEF Tcp!A, Tcp!F
<1>5. values \in Seq(Nat) /\ Len(values) = 4 + Len(body)
  BY <1>1, <1>4
<1>6. values[1] = Tcp!A /\ values[2] = Tcp!F /\ values[3] = Len(body)
  BY <1>1, <1>4
<1> DEFINE n == 4 + Len(body)
<1> HIDE DEF values
<1>16. n \in Nat /\ n >= 4
  BY <1>1
<1>7. DOMAIN values = 1 .. n /\ \A i \in 1 .. n : values[i] \in Nat
  BY <1>5
<1>8. \A i \in 1 .. n : b[i] = [packet |-> k, place |-> i, value |-> values[i]]
  BY <1>3, <1>7
<1>17. n = 4 + Len(body)
  OBVIOUS
<1> HIDE DEF n
<1>13. ASSUME NEW i \in 1 .. n
       PROVE  b[i].packet = k /\ b[i].place = i /\ b[i].value = values[i]
  <2>1. b[i] = [packet |-> k, place |-> i, value |-> values[i]]
    BY <1>8
  <2>2. QED
    BY <2>1
<1>9. ASSUME NEW i \in 1 .. n PROVE b[i] \in Byte
  <2>1. i \in Nat /\ values[i] \in Nat /\ k \in Nat
    BY <1>1, <1>7, <1>16
  <2>2. b[i] = [packet |-> k, place |-> i, value |-> values[i]]
    BY <1>8
  <2>3. QED
    BY <2>1, <2>2 DEF Byte
<1>10. b \in Seq(Byte) /\ Len(b) = n
  <2>1. n \in Nat
    BY <1>16
  <2>2. DOMAIN b = 1 .. n
    BY <1>3, <1>7
  <2>3. b = [i \in 1 .. n |-> b[i]]
    BY <1>3, <1>7
  <2>4. QED
    BY <1>9, <2>1, <2>2, <2>3
<1>11. 1 \in 1 .. n /\ 2 \in 1 .. n /\ 3 \in 1 .. n
  BY <1>16
<1>12. b[1].value = Tcp!A /\ b[2].value = Tcp!F /\ 4 + b[3].value = n
  BY <1>6, <1>11, <1>13, <1>17
<1>14. Size(s, k) = n
  BY <1>2, <1>17
<1>15. QED
  BY <1>1, <1>10, <1>12, <1>13, <1>14, <1>16 DEF b

-----------------------------------------------------------------------------
(* Parts and concatenations of sequences.                                  *)
LEMMA PartOf ==
    ASSUME NEW S, NEW seq \in Seq(S), NEW p \in 1 .. Len(seq) + 1, NEW q \in p - 1 .. Len(seq)
    PROVE  /\ SubSeq(seq, p, q) \in Seq(S) /\ Len(SubSeq(seq, p, q)) = q - p + 1
           /\ DOMAIN SubSeq(seq, p, q) = 1 .. q - p + 1
           /\ \A i \in 1 .. q - p + 1 : SubSeq(seq, p, q)[i] = seq[p + i - 1]
  OBVIOUS

LEMMA JoinOf ==
    ASSUME NEW S, NEW a \in Seq(S), NEW b \in Seq(S)
    PROVE  /\ a \o b \in Seq(S) /\ Len(a \o b) = Len(a) + Len(b)
           /\ DOMAIN (a \o b) = 1 .. Len(a) + Len(b)
           /\ \A i \in 1 .. Len(a) : (a \o b)[i] = a[i]
           /\ \A i \in Len(a) + 1 .. Len(a) + Len(b) : (a \o b)[i] = b[i - Len(a)]
  OBVIOUS

LEMMA SameSequence ==
    ASSUME NEW S, NEW a \in Seq(S), NEW b \in Seq(S), Len(a) = Len(b),
           \A i \in 1 .. Len(a) : a[i] = b[i]
    PROVE  a = b
  OBVIOUS

LEMMA EmptySequence == ASSUME NEW S, NEW a \in Seq(S) PROVE a = <<>> <=> Len(a) = 0
  OBVIOUS

(* What is received in pieces, joined again.                               *)
LEMMA Rejoined ==
    ASSUME NEW S, NEW a \in Seq(S), NEW b \in Seq(S), NEW n \in 0 .. Len(b)
    PROVE  (a \o SubSeq(b, 1, n)) \o SubSeq(b, n + 1, Len(b)) = a \o b
<1> DEFINE c == SubSeq(b, 1, n)
           d == SubSeq(b, n + 1, Len(b))
<1>1. c \in Seq(S) /\ Len(c) = n /\ \A i \in 1 .. n : c[i] = b[i]
  OBVIOUS
<1>2. d \in Seq(S) /\ Len(d) = Len(b) - n /\ \A i \in 1 .. Len(b) - n : d[i] = b[n + i]
  OBVIOUS
<1> HIDE DEF c, d
<1> DEFINE e == a \o c
<1>3. /\ e \in Seq(S) /\ Len(e) = Len(a) + n
      /\ \A i \in 1 .. Len(a) : e[i] = a[i]
      /\ \A i \in Len(a) + 1 .. Len(a) + n : e[i] = c[i - Len(a)]
  <2>1. /\ e \in Seq(S) /\ Len(e) = Len(a) + Len(c)
        /\ \A i \in 1 .. Len(a) : e[i] = a[i]
        /\ \A i \in Len(a) + 1 .. Len(a) + Len(c) : e[i] = c[i - Len(a)]
    <3>1. c \in Seq(S)
      BY <1>1
    <3>2. QED
      BY <3>1
  <2>2. QED
    BY <1>1, <2>1
<1> HIDE DEF e
<1> DEFINE l == e \o d
           r == a \o b
<1>4. /\ l \in Seq(S) /\ Len(l) = Len(a) + Len(b)
      /\ \A i \in 1 .. Len(a) + n : l[i] = e[i]
      /\ \A i \in Len(a) + n + 1 .. Len(a) + Len(b) : l[i] = d[i - (Len(a) + n)]
  <2>1. /\ l \in Seq(S) /\ Len(l) = Len(e) + Len(d)
        /\ \A i \in 1 .. Len(e) : l[i] = e[i]
        /\ \A i \in Len(e) + 1 .. Len(e) + Len(d) : l[i] = d[i - Len(e)]
    <3>1. e \in Seq(S) /\ d \in Seq(S)
      BY <1>2, <1>3
    <3>2. QED
      BY <3>1
  <2>2. Len(e) + Len(d) = Len(a) + Len(b)
    BY <1>2, <1>3
  <2> HIDE DEF l
  <2>3. QED
    BY <1>3, <2>1, <2>2
<1>5. /\ r \in Seq(S) /\ Len(r) = Len(a) + Len(b)
      /\ \A i \in 1 .. Len(a) : r[i] = a[i]
      /\ \A i \in Len(a) + 1 .. Len(a) + Len(b) : r[i] = b[i - Len(a)]
  BY JoinOf
<1> HIDE DEF l, r
<1>6. ASSUME NEW i \in 1 .. Len(a) + Len(b) PROVE l[i] = r[i]
  <2>1. CASE i <= Len(a)
    BY <1>3, <1>4, <1>5, <2>1
  <2>2. CASE i > Len(a) /\ i <= Len(a) + n
    <3>1. i - Len(a) \in 1 .. n /\ i \in Len(a) + 1 .. Len(a) + n /\ i \in 1 .. Len(a) + n
      BY <2>2
    <3>2. l[i] = e[i] /\ e[i] = c[i - Len(a)] /\ r[i] = b[i - Len(a)]
      BY <1>3, <1>4, <1>5, <3>1
    <3>3. QED
      BY <1>1, <3>1, <3>2
  <2>3. CASE i > Len(a) + n
    <3>1. i - (Len(a) + n) \in 1 .. Len(b) - n /\ i \in Len(a) + n + 1 .. Len(a) + Len(b)
      BY <2>3
    <3>5. l[i] = d[i - (Len(a) + n)]
      BY <1>4, <3>1
    <3>6. d[i - (Len(a) + n)] = b[n + (i - (Len(a) + n))]
      BY <1>2, <3>1
    <3>2. l[i] = b[n + (i - (Len(a) + n))] /\ r[i] = b[i - Len(a)]
      <4>1. i \in Len(a) + 1 .. Len(a) + Len(b)
        BY <2>3
      <4>2. r[i] = b[i - Len(a)]
        BY <1>5, <4>1
      <4>3. QED
        BY <3>5, <3>6, <4>2
    <3>3. n + (i - (Len(a) + n)) = i - Len(a)
      BY <3>1
    <3>4. QED
      BY <3>2, <3>3
  <2>4. QED
    BY <2>1, <2>2, <2>3
<1>7. l = r
  BY <1>4, <1>5, <1>6, SameSequence
<1>8. QED
  BY <1>7 DEF l, r, e, c, d

(* A part, and what remains after a part.                                  *)
LEMMA CutJoined ==
    ASSUME NEW S, NEW a \in Seq(S), NEW b \in Seq(S), NEW q \in 1 .. Len(a) + 1
    PROVE  SubSeq(a, q, Len(a)) \o b = SubSeq(a \o b, q, Len(a \o b))
<1> DEFINE l == SubSeq(a, q, Len(a)) \o b
           r == SubSeq(a \o b, q, Len(a \o b))
<1>1. l \in Seq(S) /\ Len(l) = Len(a) + Len(b) - q + 1
  OBVIOUS
<1>2. r \in Seq(S) /\ Len(r) = Len(a) + Len(b) - q + 1
  OBVIOUS
<1>3. ASSUME NEW i \in 1 .. Len(a) + Len(b) - q + 1 PROVE l[i] = r[i]
  <2> DEFINE c == SubSeq(a, q, Len(a))
             e == a \o b
             m == Len(a) - q + 1
  <2>1. c \in Seq(S) /\ Len(c) = m /\ m \in Nat /\ \A j \in 1 .. m : c[j] = a[q + j - 1]
    OBVIOUS
  <2>2. /\ e \in Seq(S) /\ Len(e) = Len(a) + Len(b)
        /\ \A j \in 1 .. Len(a) : e[j] = a[j]
        /\ \A j \in Len(a) + 1 .. Len(a) + Len(b) : e[j] = b[j - Len(a)]
    BY JoinOf
  <2>3. q + i - 1 \in 1 .. Len(a) + Len(b) /\ i \in Nat /\ i >= 1
    OBVIOUS
  <2> HIDE DEF c, e
  <2>4. r[i] = e[q + i - 1]
    BY <2>2, <2>3 DEF e
  <2>5. CASE i <= m
    <3>1. l[i] = c[i] /\ i \in 1 .. m /\ q + i - 1 \in 1 .. Len(a)
      BY <2>1, <2>3, <2>5 DEF c
    <3>2. QED
      BY <2>1, <2>2, <2>4, <3>1
  <2>6. CASE i > m
    <3>1. l[i] = b[i - m]
      BY <2>1, <2>3, <2>6 DEF c
    <3>2. q + i - 1 \in Len(a) + 1 .. Len(a) + Len(b) /\ (q + i - 1) - Len(a) = i - m
      BY <2>3, <2>6
    <3>3. e[q + i - 1] = b[(q + i - 1) - Len(a)]
      BY <2>2, <3>2
    <3>4. QED
      BY <2>4, <3>1, <3>2, <3>3
  <2>7. QED
    BY <2>1, <2>3, <2>5, <2>6
<1> HIDE DEF l, r
<1>4. l = r
  BY <1>1, <1>2, <1>3, SMTT(60)
<1>5. QED
  BY <1>4 DEF l, r

-----------------------------------------------------------------------------
(* Bytes as they were sent, in order, perhaps with gaps.                   *)
Before(b, c) == b.packet < c.packet \/ (b.packet = c.packet /\ b.place < c.place)

FromStream(s, b) == /\ b.packet \in DOMAIN s
                    /\ b.place \in 1 .. Size(s, b.packet)
                    /\ b = BytesIn(s, b.packet)[b.place]

Sound(s, seq) == /\ seq \in Seq(Byte)
                 /\ \A i \in 1 .. Len(seq) : FromStream(s, seq[i])
                 /\ \A i, j \in 1 .. Len(seq) : i < j => Before(seq[i], seq[j])

LEMMA SoundBytes ==
    ASSUME NEW s, OfPackets(s), NEW k \in DOMAIN s
    PROVE  Sound(s, BytesIn(s, k))
<1> DEFINE b == BytesIn(s, k)
<1>1. /\ Size(s, k) \in Nat /\ b \in Seq(Byte) /\ Len(b) = Size(s, k)
      /\ \A i \in 1 .. Size(s, k) : b[i].packet = k /\ b[i].place = i
  BY BytesOf
<1>2. ASSUME NEW i \in 1 .. Len(b) PROVE FromStream(s, b[i])
  <2>1. b[i].packet = k /\ b[i].place = i
    BY <1>1
  <2>2. QED
    BY <1>1, <2>1 DEF FromStream
<1>3. ASSUME NEW i \in 1 .. Len(b), NEW j \in 1 .. Len(b), i < j PROVE Before(b[i], b[j])
  <2>1. b[i].packet = k /\ b[i].place = i /\ b[j].packet = k /\ b[j].place = j
    BY <1>1
  <2>2. QED
    BY <1>3, <2>1 DEF Before
<1>4. QED
  BY <1>1, <1>2, <1>3 DEF Sound

LEMMA SoundPart ==
    ASSUME NEW s, NEW seq, Sound(s, seq), NEW p \in 1 .. Len(seq) + 1, NEW q \in p - 1 .. Len(seq)
    PROVE  Sound(s, SubSeq(seq, p, q))
<1> DEFINE slice == SubSeq(seq, p, q)
<1>1. seq \in Seq(Byte) /\ Len(seq) \in Nat
  BY DEF Sound
<1>2. /\ slice \in Seq(Byte) /\ Len(slice) = q - p + 1
      /\ \A i \in 1 .. q - p + 1 : slice[i] = seq[p + i - 1]
  BY <1>1, PartOf
<1> HIDE DEF slice
<1>3. ASSUME NEW i \in 1 .. Len(slice) PROVE FromStream(s, slice[i])
  <2>1. slice[i] = seq[p + i - 1] /\ p + i - 1 \in 1 .. Len(seq)
    BY <1>1, <1>2
  <2>2. QED
    BY <2>1 DEF Sound
<1>4. ASSUME NEW i \in 1 .. Len(slice), NEW j \in 1 .. Len(slice), i < j
      PROVE  Before(slice[i], slice[j])
  <2>1. slice[i] = seq[p + i - 1] /\ p + i - 1 \in 1 .. Len(seq)
    BY <1>1, <1>2
  <2>2. slice[j] = seq[p + j - 1] /\ p + j - 1 \in 1 .. Len(seq)
    BY <1>1, <1>2
  <2>3. p + i - 1 < p + j - 1
    BY <1>1, <1>2, <1>4
  <2>4. QED
    BY <2>1, <2>2, <2>3 DEF Sound
<1>5. QED
  BY <1>2, <1>3, <1>4 DEF Sound, slice

LEMMA SoundJoin ==
    ASSUME NEW s, NEW a, NEW b, Sound(s, a), Sound(s, b),
           \A i \in 1 .. Len(a), j \in 1 .. Len(b) : Before(a[i], b[j])
    PROVE  Sound(s, a \o b)
<1> DEFINE c == a \o b
<1>1. a \in Seq(Byte) /\ b \in Seq(Byte) /\ Len(a) \in Nat /\ Len(b) \in Nat
  BY DEF Sound
<1>2. /\ c \in Seq(Byte) /\ Len(c) = Len(a) + Len(b)
      /\ \A i \in 1 .. Len(a) : c[i] = a[i]
      /\ \A i \in Len(a) + 1 .. Len(a) + Len(b) : c[i] = b[i - Len(a)]
  BY <1>1, JoinOf
<1> HIDE DEF c
<1>3. ASSUME NEW i \in 1 .. Len(c) PROVE FromStream(s, c[i])
  <2>1. CASE i <= Len(a)
    <3>1. i \in 1 .. Len(a)
      BY <1>1, <1>2, <2>1
    <3>2. QED
      BY <1>2, <3>1 DEF Sound
  <2>2. CASE i > Len(a)
    <3>1. i \in Len(a) + 1 .. Len(a) + Len(b) /\ i - Len(a) \in 1 .. Len(b)
      BY <1>1, <1>2, <2>2
    <3>2. QED
      BY <1>2, <3>1 DEF Sound
  <2>3. QED
    BY <1>1, <1>2, <2>1, <2>2
<1>4. ASSUME NEW i \in 1 .. Len(c), NEW j \in 1 .. Len(c), i < j PROVE Before(c[i], c[j])
  <2>1. CASE j <= Len(a)
    <3>1. i \in 1 .. Len(a) /\ j \in 1 .. Len(a)
      BY <1>1, <1>2, <1>4, <2>1
    <3>2. QED
      BY <1>2, <1>4, <3>1 DEF Sound
  <2>2. CASE i <= Len(a) /\ j > Len(a)
    <3>1. i \in 1 .. Len(a) /\ j \in Len(a) + 1 .. Len(a) + Len(b) /\ j - Len(a) \in 1 .. Len(b)
      BY <1>1, <1>2, <2>2
    <3>2. QED
      BY <1>2, <3>1
  <2>3. CASE i > Len(a)
    <3>1. /\ i \in Len(a) + 1 .. Len(a) + Len(b) /\ i - Len(a) \in 1 .. Len(b)
          /\ j \in Len(a) + 1 .. Len(a) + Len(b) /\ j - Len(a) \in 1 .. Len(b)
          /\ i - Len(a) < j - Len(a)
      BY <1>1, <1>2, <1>4, <2>3
    <3>2. c[i] = b[i - Len(a)] /\ c[j] = b[j - Len(a)]
      BY <1>2, <3>1
    <3>3. QED
      BY <3>1, <3>2 DEF Sound
  <2>4. QED
    BY <1>1, <1>2, <1>4, <2>1, <2>2, <2>3
<1>5. QED
  BY <1>2, <1>3, <1>4 DEF Sound, c

-----------------------------------------------------------------------------
(* push_bytes() as a recursive function.                                   *)

Left(data, p) == SubSeq(data, p, Len(data))

ScanStep(data, from, p) ==
    LET n == Tcp!PacketBytes(Left(data, p))
    IN  IF Len(Left(data, p)) <= 2 THEN [rest |-> Left(data, p), packets |-> <<>>]
        ELSE IF data[p].value # Tcp!A \/ data[p + 1].value # Tcp!F THEN from[p + 1]
        ELSE IF n = 0 THEN [rest |-> Tcp!Incomplete(Left(data, p)), packets |-> <<>>]
        ELSE IF ~Tcp!CrcRight(SubSeq(data, p, p + n - 1))
        THEN [rest |-> Tcp!AfterError(Left(data, p), n), packets |-> <<>>]
        ELSE [rest |-> from[p + n].rest,
              packets |-> <<data[p].packet>> \o from[p + n].packets]

Scan(data) == CHOOSE from : from = [p \in 1 .. Len(data) + 1 |-> ScanStep(data, from, p)]

LEMMA PushBytesScans == \A data : Tcp!PushBytes(data) = Scan(data)[1]
  BY Zenon DEF Tcp!PushBytes, Scan, ScanStep, Left

LEMMA LeftOf ==
    ASSUME NEW data \in Seq(Byte), NEW p \in 1 .. Len(data) + 1
    PROVE  /\ Left(data, p) \in Seq(Byte) /\ Len(Left(data, p)) = Len(data) - p + 1
           /\ \A i \in 1 .. Len(data) - p + 1 : Left(data, p)[i] = data[p + i - 1]
  BY DEF Left

LEMMA PacketLength ==
    ASSUME NEW data \in Seq(Byte), NEW p \in 1 .. Len(data) + 1
    PROVE  LET n == Tcp!PacketBytes(Left(data, p))
           IN  \/ n = 0
               \/ /\ n \in Nat /\ n >= 4 /\ n <= Len(data) - p + 1
                  /\ n = 4 + data[p + 2].value
<1> DEFINE left == Left(data, p)
<1>1. /\ left \in Seq(Byte) /\ Len(left) = Len(data) - p + 1
      /\ \A i \in 1 .. Len(data) - p + 1 : left[i] = data[p + i - 1]
  BY LeftOf
<1> HIDE DEF left
<1>2. CASE Len(left) < 3 \/ Len(left) < 4 + left[3].value
  BY <1>2 DEF Tcp!PacketBytes, left
<1>3. CASE ~(Len(left) < 3 \/ Len(left) < 4 + left[3].value)
  <2>1. Tcp!PacketBytes(left) = 4 + left[3].value
    BY <1>3 DEF Tcp!PacketBytes
  <2>2. Len(left) \in Nat /\ Len(left) >= 3
    BY <1>1, <1>3
  <2>3. left[3] \in Byte /\ left[3] = data[p + 2]
    BY <1>1, <2>2
  <2>4. left[3].value \in Nat
    BY <2>3 DEF Byte
  <2> DEFINE v == left[3].value
  <2> HIDE DEF v
  <2>5. v \in Nat /\ ~(Len(left) < 4 + v) /\ Tcp!PacketBytes(left) = 4 + v
    BY <1>3, <2>1, <2>4 DEF v
  <2>6. v = data[p + 2].value
    BY <2>3 DEF v
  <2>7. 4 + v \in Nat /\ 4 + v >= 4 /\ 4 + v <= Len(data) - p + 1
    BY <1>1, <2>2, <2>5
  <2>8. QED
    BY <2>5, <2>6, <2>7 DEF left
<1>4. QED
  BY <1>2, <1>3

(* What happens at a place depends on later ones only.                     *)
LEMMA StepLooksAhead ==
    ASSUME NEW data \in Seq(Byte), NEW p \in 1 .. Len(data) + 1, NEW g, NEW h,
           \A q \in p + 1 .. Len(data) + 1 : g[q] = h[q]
    PROVE  ScanStep(data, g, p) = ScanStep(data, h, p)
<1> DEFINE n == Tcp!PacketBytes(Left(data, p))
<1>1. n = 0 \/ (n \in Nat /\ n >= 4 /\ n <= Len(data) - p + 1)
  BY PacketLength
<1>2. Len(Left(data, p)) = Len(data) - p + 1
  BY LeftOf
<1> HIDE DEF n
<1>3. ~(Len(Left(data, p)) <= 2) => g[p + 1] = h[p + 1]
  BY <1>2
<1>4. n # 0 => g[p + n] = h[p + n]
  <2>1. n # 0 => p + n \in p + 1 .. Len(data) + 1
    BY <1>1
  <2>2. QED
    BY <2>1
<1>5. QED
  BY <1>3, <1>4, Zenon DEF ScanStep, n

LEMMA ScanExists ==
    ASSUME NEW data \in Seq(Byte)
    PROVE  \A p \in 1 .. Len(data) + 1 : Scan(data)[p] = ScanStep(data, Scan(data), p)
<1> DEFINE L == Len(data)
           Goes(g, m) == /\ DOMAIN g = 1 .. L + 1 /\ g = [p \in 1 .. L + 1 |-> g[p]]
                         /\ \A p \in 1 .. L + 1 : p > L + 1 - m => g[p] = ScanStep(data, g, p)
           Far == {m \in Nat : \E g : Goes(g, m)}
<1>0. L \in Nat
  OBVIOUS
<1>1. 0 \in Far
  <2> DEFINE g == [p \in 1 .. L + 1 |-> 0]
  <2>1. Goes(g, 0)
    BY <1>0
  <2>2. QED
    BY <2>1
<1>2. ASSUME NEW m \in Nat, m \in Far PROVE m + 1 \in Far
  <2>1. PICK g : Goes(g, m)
    BY <1>2
  <2> DEFINE p0 == L + 1 - m
             h == [g EXCEPT ![p0] = ScanStep(data, g, p0)]
  <2>2. CASE p0 < 1
    <3>1. Goes(g, m + 1)
      BY <1>0, <2>1, <2>2
    <3>2. QED
      BY <3>1
  <2>3. CASE p0 >= 1
    <3>1. p0 \in 1 .. L + 1
      BY <1>0, <2>3
    <3> DEFINE e == ScanStep(data, g, p0)
    <3> HIDE DEF p0, e
    <3>2. DOMAIN h = 1 .. L + 1 /\ h = [p \in 1 .. L + 1 |-> h[p]]
      BY <2>1
    <3>3. h[p0] = e /\ \A q \in 1 .. L + 1 : q # p0 => h[q] = g[q]
      BY <2>1, <3>1 DEF e
    <3> HIDE DEF h
    <3>4. ASSUME NEW p \in 1 .. L + 1, p > L + 1 - (m + 1) PROVE h[p] = ScanStep(data, h, p)
      <4>1. p >= p0
        BY <1>0, <3>4 DEF p0
      <4>2. \A q \in p + 1 .. L + 1 : q \in 1 .. L + 1 /\ q # p0
        BY <1>0, <3>1, <4>1
      <4>3. \A q \in p + 1 .. L + 1 : g[q] = h[q]
        BY <3>3, <4>2
      <4>4. ScanStep(data, g, p) = ScanStep(data, h, p)
        BY <4>3, StepLooksAhead
      <4>5. CASE p = p0
        BY <3>3, <4>4, <4>5 DEF e
      <4>6. CASE p # p0
        <5>1. p > L + 1 - m
          BY <1>0, <4>1, <4>6 DEF p0
        <5>2. g[p] = ScanStep(data, g, p)
          BY <2>1, <5>1
        <5>3. QED
          BY <3>3, <4>4, <4>6, <5>2
      <4>7. QED
        BY <4>5, <4>6
    <3>5. Goes(h, m + 1)
      BY <3>2, <3>4
    <3>6. QED
      BY <3>5
  <2>4. QED
    BY <1>0, <2>2, <2>3
<1> HIDE DEF Far
<1>3. \A m \in Nat : m \in Far
  BY <1>1, <1>2, SetInduction
<1>4. PICK g : Goes(g, L + 1)
  <2>1. L + 1 \in Nat
    BY <1>0
  <2> HIDE DEF Goes, L
  <2>2. L + 1 \in Far
    BY <1>3, <2>1
  <2>3. QED
    BY <2>2 DEF Far
<1>5. \A p \in 1 .. L + 1 : g[p] = ScanStep(data, g, p)
  BY <1>0, <1>4
<1>6. g = [p \in 1 .. L + 1 |-> ScanStep(data, g, p)]
  BY <1>4, <1>5
<1>7. Scan(data) = [p \in 1 .. L + 1 |-> ScanStep(data, Scan(data), p)]
  BY <1>6, Zenon DEF Scan
<1> DEFINE scan == Scan(data)
<1> HIDE DEF scan
<1>8. scan = [p \in 1 .. L + 1 |-> ScanStep(data, scan, p)]
  BY <1>7 DEF scan
<1>9. \A p \in 1 .. L + 1 : scan[p] = ScanStep(data, scan, p)
  BY <1>8
<1>10. QED
  BY <1>9 DEF scan

-----------------------------------------------------------------------------
(* A packet with the right CRC is one that was sent, all of it.            *)
LEMMA CrcMeansSent ==
    ASSUME NEW data, OfPackets(stream), Sound(stream, data), NEW p \in 1 .. Len(data) + 1,
           NEW n, n = Tcp!PacketBytes(Left(data, p)), n # 0, Tcp!CrcRight(SubSeq(data, p, p + n - 1))
    PROVE  /\ n \in 4 .. Len(data) - p + 1
           /\ data[p].packet \in DOMAIN stream /\ n = Size(stream, data[p].packet)
           /\ data[p + n - 1].packet = data[p].packet
           /\ data[p + n - 1].place = Size(stream, data[p].packet)
<1>1. data \in Seq(Byte) /\ Len(data) \in Nat
  BY DEF Sound
<1>2. n \in Nat /\ n >= 4 /\ n <= Len(data) - p + 1
  BY <1>1, PacketLength
<1> DEFINE slice == SubSeq(data, p, p + n - 1)
           k == data[p].packet
<1>3. p + n - 1 \in p - 1 .. Len(data) /\ (p + n - 1) - p + 1 = n
  BY <1>1, <1>2
<1>4. /\ slice \in Seq(Byte) /\ Len(slice) = n
      /\ \A i \in 1 .. n : slice[i] = data[p + i - 1]
  <2> DEFINE r == p + n - 1
  <2>1. r \in p - 1 .. Len(data) /\ r - p + 1 = n
    BY <1>3
  <2> HIDE DEF r
  <2>2. /\ SubSeq(data, p, r) \in Seq(Byte) /\ Len(SubSeq(data, p, r)) = r - p + 1
        /\ \A i \in 1 .. r - p + 1 : SubSeq(data, p, r)[i] = data[p + i - 1]
    BY <1>1, <2>1, PartOf
  <2>3. QED
    BY <2>1, <2>2 DEF r
<1> HIDE DEF slice
<1>5. slice[1] = data[p] /\ slice[n] = data[p + n - 1]
  <2>1. 1 \in 1 .. n /\ n \in 1 .. n /\ p + 1 - 1 = p
    BY <1>2
  <2>2. slice[1] = data[p + 1 - 1]
    BY <1>4, <2>1
  <2>3. QED
    BY <1>4, <2>1, <2>2
<1>6. k \in DOMAIN stream
  <2>1. p \in 1 .. Len(data)
    BY <1>1, <1>2
  <2>2. QED
    BY <2>1 DEF Sound, FromStream
<1>7. slice = BytesIn(stream, k)
  <2>1. Tcp!CrcRight(slice)
    BY DEF slice
  <2>2. slice = Tcp!Bytes(slice[1].packet)
    BY <2>1 DEF Tcp!CrcRight
  <2>3. QED
    BY <1>5, <2>2, Zenon DEF Tcp!Bytes, BytesIn
<1> HIDE DEF k
<1>8. /\ Size(stream, k) \in Nat /\ Len(BytesIn(stream, k)) = Size(stream, k)
      /\ \A i \in 1 .. Size(stream, k) :
             BytesIn(stream, k)[i].packet = k /\ BytesIn(stream, k)[i].place = i
  BY <1>6, BytesOf
<1>9. n = Size(stream, k)
  BY <1>4, <1>7, <1>8
<1>10. slice[n].packet = k /\ slice[n].place = n
  <2>1. n \in 1 .. n
    BY <1>2
  <2>2. QED
    BY <1>7, <1>8, <1>9, <2>1
<1>11. QED
  BY <1>2, <1>5, <1>6, <1>9, <1>10 DEF k

(* What is decoded, and what is left behind it: from place p on, the data  *)
(* from a later place q, and if there are packets the last one of them     *)
(* ends before q.                                                          *)
Ends(data, p, q, packets) ==
    packets # <<>> =>
        \E j \in p .. q - 1 : /\ data[j].packet = packets[Len(packets)]
                              /\ data[j].place = Size(stream, data[j].packet)

Gives(data, p, result) ==
    \E q \in p .. Len(data) + 1 :
        /\ result.rest = SubSeq(data, q, Len(data))
        /\ result.packets \in Seq(Nat)
        /\ Ends(data, p, q, result.packets)

LEMMA GivesNothing ==
    ASSUME NEW data \in Seq(Byte), NEW p \in 1 .. Len(data) + 1, NEW q \in p .. Len(data) + 1,
           NEW rest, rest = SubSeq(data, q, Len(data))
    PROVE  Gives(data, p, [rest |-> rest, packets |-> <<>>])
<1>1. <<>> \in Seq(Nat)
  OBVIOUS
<1>2. Ends(data, p, q, <<>>)
  BY DEF Ends
<1>3. QED
  BY <1>1, <1>2 DEF Gives

LEMMA GivesMore ==
    ASSUME NEW data \in Seq(Byte), NEW p \in 1 .. Len(data) + 1, NEW r \in p .. Len(data) + 1,
           NEW result, Gives(data, r, result)
    PROVE  Gives(data, p, result)
<1>1. PICK q \in r .. Len(data) + 1 :
        /\ result.rest = SubSeq(data, q, Len(data))
        /\ result.packets \in Seq(Nat)
        /\ Ends(data, r, q, result.packets)
  BY DEF Gives
<1>2. q \in p .. Len(data) + 1 /\ \A j \in r .. q - 1 : j \in p .. q - 1
  OBVIOUS
<1>3. Ends(data, p, q, result.packets)
  BY <1>1, <1>2 DEF Ends
<1>4. QED
  BY <1>1, <1>2, <1>3 DEF Gives

LEMMA GivesPacket ==
    ASSUME NEW data \in Seq(Byte), NEW p \in 1 .. Len(data) + 1, NEW r \in p + 1 .. Len(data) + 1,
           NEW result, Gives(data, r, result), NEW k \in Nat,
           data[r - 1].packet = k, data[r - 1].place = Size(stream, k)
    PROVE  Gives(data, p, [rest |-> result.rest, packets |-> <<k>> \o result.packets])
<1>1. PICK q \in r .. Len(data) + 1 :
        /\ result.rest = SubSeq(data, q, Len(data))
        /\ result.packets \in Seq(Nat)
        /\ Ends(data, r, q, result.packets)
  BY DEF Gives
<1> DEFINE old == result.packets
           new == <<k>> \o old
<1>2. old \in Seq(Nat) /\ (old # <<>> => Len(old) > 0)
  BY <1>1
<1> HIDE DEF old
<1>3. new \in Seq(Nat) /\ (old = <<>> => new[Len(new)] = k)
  BY <1>2
<1>4. old # <<>> => new[Len(new)] = old[Len(old)]
  BY <1>2
<1> HIDE DEF new
<1>5. q \in p .. Len(data) + 1 /\ r - 1 \in p .. q - 1 /\ \A j \in r .. q - 1 : j \in p .. q - 1
  OBVIOUS
<1>6. Ends(data, p, q, new)
  <2>1. CASE old = <<>>
    BY <1>3, <1>5, <2>1 DEF Ends
  <2>2. CASE old # <<>>
    <3>1. PICK j \in r .. q - 1 : /\ data[j].packet = old[Len(old)]
                                  /\ data[j].place = Size(stream, data[j].packet)
      BY <1>1, <2>2 DEF Ends, old
    <3>2. j \in p .. q - 1 /\ data[j].packet = new[Len(new)]
      BY <1>4, <1>5, <2>2, <3>1
    <3>3. QED
      BY <3>1, <3>2 DEF Ends
  <2>3. QED
    BY <2>1, <2>2
<1>7. QED
  BY <1>1, <1>3, <1>5, <1>6 DEF Gives, new, old

LEMMA StepGives ==
    ASSUME NEW data, OfPackets(stream), Sound(stream, data), NEW p \in 1 .. Len(data) + 1, NEW from,
           \A r \in p + 1 .. Len(data) + 1 : Gives(data, r, from[r])
    PROVE  Gives(data, p, ScanStep(data, from, p))
<1> DEFINE n == Tcp!PacketBytes(Left(data, p))
           L == Len(data)
           step == ScanStep(data, from, p)
<1>1. data \in Seq(Byte) /\ L \in Nat
  BY DEF Sound
<1>2. /\ Left(data, p) \in Seq(Byte) /\ Len(Left(data, p)) = L - p + 1
  BY <1>1, LeftOf
<1>3. n = 0 \/ (n \in Nat /\ n >= 4 /\ n <= L - p + 1)
  BY <1>1, PacketLength
<1>4. Left(data, p) = SubSeq(data, p, L)
  BY DEF Left
<1> HIDE DEF n
<1>5. CASE Len(Left(data, p)) <= 2
  <2>1. step = [rest |-> Left(data, p), packets |-> <<>>]
    BY <1>5 DEF ScanStep
  <2>2. p \in p .. L + 1
    BY <1>1
  <2> HIDE DEF step
  <2>3. QED
    BY <1>1, <1>4, <2>1, <2>2, GivesNothing DEF step
<1>6. CASE ~(Len(Left(data, p)) <= 2) /\ (data[p].value # Tcp!A \/ data[p + 1].value # Tcp!F)
  <2>1. step = from[p + 1]
    BY <1>6 DEF ScanStep
  <2>2. p + 1 \in p + 1 .. L + 1 /\ p + 1 \in p .. L + 1
    BY <1>1, <1>2, <1>6
  <2>3. Gives(data, p + 1, from[p + 1])
    BY <2>2
  <2> DEFINE r == p + 1
  <2> HIDE DEF r, step
  <2>4. Gives(data, p, from[r])
    BY <1>1, <2>2, <2>3, GivesMore DEF r
  <2>5. QED
    BY <2>1, <2>4 DEF r, step
<1> DEFINE Marked == /\ ~(Len(Left(data, p)) <= 2)
                     /\ ~(data[p].value # Tcp!A \/ data[p + 1].value # Tcp!F)
<1>7. CASE Marked /\ n = 0
  <2>1. step = [rest |-> Left(data, p), packets |-> <<>>]
    BY <1>7 DEF ScanStep, Tcp!Incomplete, n
  <2>2. p \in p .. L + 1
    BY <1>1
  <2> HIDE DEF step
  <2>3. QED
    BY <1>1, <1>4, <2>1, <2>2, GivesNothing DEF step
<1>8. CASE Marked /\ n # 0 /\ ~Tcp!CrcRight(SubSeq(data, p, p + n - 1))
  <2>1. step = [rest |-> Tcp!AfterError(Left(data, p), n), packets |-> <<>>]
    BY <1>8, Zenon DEF ScanStep, n
  <2>2. p + n \in p .. L + 1
    BY <1>1, <1>3, <1>8
  <2>3. Tcp!AfterError(Left(data, p), n) = SubSeq(data, p + n, L)
    <3> DEFINE left == Left(data, p)
               a == SubSeq(left, n + 1, Len(left))
               b == SubSeq(data, p + n, L)
    <3>1. \A i \in 1 .. L - p + 1 : left[i] = data[p + i - 1]
      BY <1>1, LeftOf
    <3>2. left \in Seq(Byte) /\ Len(left) = L - p + 1
      BY <1>2
    <3> HIDE DEF left
    <3>9. n \in Nat /\ n >= 4 /\ n <= L - p + 1 /\ p \in Nat
      BY <1>1, <1>3, <1>8
    <3>3. n + 1 \in 1 .. Len(left) + 1 /\ Len(left) - (n + 1) + 1 = L - (p + n) + 1
      BY <1>1, <3>2, <3>9
    <3>4. /\ a \in Seq(Byte) /\ Len(a) = L - (p + n) + 1
          /\ \A i \in 1 .. L - (p + n) + 1 : a[i] = left[n + i]
      <4> DEFINE l == Len(left)
      <4>1. n + 1 \in 1 .. l + 1 /\ l \in n + 1 - 1 .. l /\ l - (n + 1) + 1 = L - (p + n) + 1
        BY <1>1, <3>2, <3>3, <3>9
      <4>2. /\ a \in Seq(Byte) /\ Len(a) = l - (n + 1) + 1
            /\ \A i \in 1 .. l - (n + 1) + 1 : a[i] = left[n + 1 + i - 1]
        BY <3>2, <4>1, PartOf, SMTT(60)
      <4> HIDE DEF a
      <4>3. \A i \in 1 .. L - (p + n) + 1 : n + 1 + i - 1 = n + i
        BY <1>1, <3>9
      <4>4. QED
        BY <4>1, <4>2, <4>3
    <3>5. /\ b \in Seq(Byte) /\ Len(b) = L - (p + n) + 1
          /\ \A i \in 1 .. L - (p + n) + 1 : b[i] = data[p + n + i - 1]
      BY <1>1, <2>2
    <3> HIDE DEF a, b
    <3>6. ASSUME NEW i \in 1 .. L - (p + n) + 1 PROVE a[i] = b[i]
      <4>1. n + i \in 1 .. L - p + 1 /\ p + (n + i) - 1 = p + n + i - 1
        BY <1>1, <3>9
      <4>2. left[n + i] = data[p + (n + i) - 1]
        BY <3>1, <4>1
      <4>3. QED
        BY <3>4, <3>5, <4>1, <4>2
    <3>7. a = b
      BY <3>4, <3>5, <3>6, SameSequence
    <3>8. QED
      BY <3>7 DEF Tcp!AfterError, a, b, left
  <2> DEFINE q == p + n
  <2> HIDE DEF step, q
  <2>4. QED
    BY <1>1, <2>1, <2>2, <2>3, GivesNothing DEF step, q
<1>9. CASE Marked /\ n # 0 /\ Tcp!CrcRight(SubSeq(data, p, p + n - 1))
  <2> DEFINE r == p + n
             k == data[p].packet
  <2>1. step = [rest |-> from[r].rest, packets |-> <<k>> \o from[r].packets]
    BY <1>9, Zenon DEF ScanStep, n
  <2>2. /\ n \in 4 .. L - p + 1
        /\ k \in DOMAIN stream /\ n = Size(stream, k)
        /\ data[p + n - 1].packet = k /\ data[p + n - 1].place = Size(stream, k)
    BY <1>9, CrcMeansSent DEF n
  <2>3. k \in Nat
    BY <2>2, BytesOf
  <2>4. r \in p + 1 .. L + 1
    BY <1>1, <2>2
  <2>5. Gives(data, r, from[r])
    BY <2>4
  <2> HIDE DEF step, k, r
  <2>6. data[r - 1].packet = k /\ data[r - 1].place = Size(stream, k)
    BY <2>2 DEF r
  <2>7. Gives(data, p, [rest |-> from[r].rest, packets |-> <<k>> \o from[r].packets])
    BY <1>1, <2>3, <2>4, <2>5, <2>6, GivesPacket
  <2>8. QED
    BY <2>1, <2>7 DEF step
<1>10. QED
  BY <1>5, <1>6, <1>7, <1>8, <1>9

LEMMA PushBytesGives ==
    ASSUME NEW data, OfPackets(stream), Sound(stream, data)
    PROVE  Gives(data, 1, Tcp!PushBytes(data))
<1> DEFINE L == Len(data)
           scan == Scan(data)
           Right == {m \in Nat : \A p \in 1 .. L + 1 : p > L + 1 - m => Gives(data, p, scan[p])}
<1>1. data \in Seq(Byte) /\ L \in Nat
  BY DEF Sound
<1>2. \A p \in 1 .. L + 1 : scan[p] = ScanStep(data, scan, p)
  BY <1>1, ScanExists
<1> HIDE DEF scan
<1>3. 0 \in Right
  BY <1>1
<1>4. ASSUME NEW m \in Nat, m \in Right PROVE m + 1 \in Right
  <2>1. ASSUME NEW p \in 1 .. L + 1, p > L + 1 - (m + 1) PROVE Gives(data, p, scan[p])
    <3>1. \A r \in p + 1 .. L + 1 : r \in 1 .. L + 1 /\ r > L + 1 - m
      BY <1>1, <2>1
    <3>2. \A r \in p + 1 .. L + 1 : Gives(data, r, scan[r])
      BY <1>4, <3>1
    <3>3. Gives(data, p, ScanStep(data, scan, p))
      BY <3>2, StepGives
    <3>4. QED
      BY <1>2, <3>3
  <2>2. QED
    BY <2>1
<1> HIDE DEF Right
<1>5. \A m \in Nat : m \in Right
  BY <1>3, <1>4, SetInduction
<1>6. L + 1 \in Right
  BY <1>1, <1>5
<1>7. 1 \in 1 .. L + 1 /\ 1 > L + 1 - (L + 1)
  BY <1>1
<1>8. Gives(data, 1, scan[1])
  BY <1>6, <1>7 DEF Right
<1>9. QED
  BY <1>8, PushBytesScans DEF scan

-----------------------------------------------------------------------------
(* The bytes from place p on are the beginning of packet k, or all of it.  *)
Begins(data, p, k, n) == \A i \in 1 .. n : data[p + i - 1] = BytesIn(stream, k)[i]

LEMMA StepOfPart ==
    ASSUME NEW data \in Seq(Byte), NEW p \in 1 .. Len(data) + 1, OfPackets(stream),
           NEW k \in DOMAIN stream, Len(data) - p + 1 < Size(stream, k),
           Begins(data, p, k, Len(data) - p + 1), NEW from
    PROVE  ScanStep(data, from, p) = [rest |-> Left(data, p), packets |-> <<>>]
<1> DEFINE left == Left(data, p)
           m == Len(data) - p + 1
<1>1. /\ left \in Seq(Byte) /\ Len(left) = m
      /\ \A i \in 1 .. m : left[i] = data[p + i - 1]
  BY LeftOf
<1>2. m \in Nat /\ p \in Nat
  OBVIOUS
<1> DEFINE b == BytesIn(stream, k)
           n == Size(stream, k)
<1>3. /\ b[1].value = Tcp!A /\ b[2].value = Tcp!F /\ 4 + b[3].value = n
  BY BytesOf
<1>4. m < n /\ \A i \in 1 .. m : data[p + i - 1] = b[i]
  BY DEF Begins
<1> HIDE DEF left, m, b, n
<1>5. CASE Len(left) <= 2
  BY <1>5 DEF ScanStep, left
<1>6. CASE ~(Len(left) <= 2)
  <2>1. 1 \in 1 .. m /\ 2 \in 1 .. m /\ 3 \in 1 .. m /\ p + 1 - 1 = p /\ p + 2 - 1 = p + 1
    BY <1>1, <1>2, <1>6
  <2>2. data[p + 1 - 1] = b[1] /\ data[p + 2 - 1] = b[2]
    BY <1>4, <2>1
  <2>3. data[p].value = Tcp!A /\ data[p + 1].value = Tcp!F
    BY <1>3, <2>1, <2>2
  <2>4. left[3] = b[3]
    <3>1. left[3] = data[p + 3 - 1]
      BY <1>1, <2>1
    <3>2. data[p + 3 - 1] = b[3]
      BY <1>4, <2>1
    <3>3. QED
      BY <3>1, <3>2
  <2>5. Len(left) < 4 + left[3].value
    BY <1>1, <1>3, <1>4, <2>4
  <2>6. Tcp!PacketBytes(left) = 0
    BY <2>5 DEF Tcp!PacketBytes
  <2>7. QED
    BY <1>6, <2>3, <2>6, Zenon DEF ScanStep, Tcp!Incomplete, left
<1>7. QED
  BY <1>5, <1>6 DEF left

Decoded(from, k, next) ==
    [rest |-> from[next].rest, packets |-> <<k>> \o from[next].packets]

LEMMA StepOfWhole ==
    ASSUME NEW data \in Seq(Byte), NEW p \in 1 .. Len(data) + 1, OfPackets(stream),
           NEW k \in DOMAIN stream, Size(stream, k) <= Len(data) - p + 1,
           Begins(data, p, k, Size(stream, k)), NEW from
    PROVE  ScanStep(data, from, p) = Decoded(from, k, p + Size(stream, k))
<1> DEFINE n == Size(stream, k)
           left == Left(data, p)
           m == Len(data) - p + 1
<1>1. /\ left \in Seq(Byte) /\ Len(left) = m
      /\ \A i \in 1 .. m : left[i] = data[p + i - 1]
  BY LeftOf
<1>2. m \in Nat /\ p \in Nat
  OBVIOUS
<1> DEFINE b == BytesIn(stream, k)
<1>3. /\ n \in Nat /\ n >= 4 /\ b \in Seq(Byte) /\ Len(b) = n
      /\ \A i \in 1 .. n : b[i].packet = k
      /\ b[1].value = Tcp!A /\ b[2].value = Tcp!F /\ 4 + b[3].value = n
  BY BytesOf
<1>4. n <= m /\ \A i \in 1 .. n : data[p + i - 1] = b[i]
  BY DEF Begins
<1> HIDE DEF left, m, b, n
<1>5. /\ 1 \in 1 .. n /\ 2 \in 1 .. n /\ 3 \in 1 .. n /\ 3 \in 1 .. m
      /\ p + 1 - 1 = p /\ p + 2 - 1 = p + 1 /\ ~(Len(left) <= 2) /\ n # 0
  BY <1>1, <1>2, <1>3, <1>4
<1>6. data[p + 1 - 1] = b[1] /\ data[p + 2 - 1] = b[2]
  BY <1>4, <1>5
<1>7. data[p] = b[1] /\ data[p].value = Tcp!A /\ data[p + 1].value = Tcp!F /\ data[p].packet = k
  BY <1>3, <1>5, <1>6
<1>8. left[3] = b[3]
  <2>1. left[3] = data[p + 3 - 1]
    BY <1>1, <1>5
  <2>2. data[p + 3 - 1] = b[3]
    BY <1>4, <1>5
  <2>3. QED
    BY <2>1, <2>2
<1>9. Tcp!PacketBytes(left) = n
  BY <1>1, <1>3, <1>4, <1>5, <1>8 DEF Tcp!PacketBytes
<1>10. Tcp!CrcRight(SubSeq(data, p, p + n - 1))
  <2> DEFINE slice == SubSeq(data, p, p + n - 1)
             r == p + n - 1
  <2>1. r \in p - 1 .. Len(data) /\ r - p + 1 = n
    BY <1>2, <1>3, <1>4 DEF m
  <2>2. /\ slice \in Seq(Byte) /\ Len(slice) = r - p + 1
        /\ \A i \in 1 .. r - p + 1 : slice[i] = data[p + i - 1]
    <3> HIDE DEF r
    <3>1. /\ SubSeq(data, p, r) \in Seq(Byte) /\ Len(SubSeq(data, p, r)) = r - p + 1
          /\ \A i \in 1 .. r - p + 1 : SubSeq(data, p, r)[i] = data[p + i - 1]
      BY <2>1, PartOf
    <3>2. QED
      BY <3>1 DEF r
  <2> HIDE DEF slice, r
  <2>3. Len(slice) = n /\ \A i \in 1 .. n : slice[i] = b[i]
    BY <1>4, <2>1, <2>2
  <2>4. slice = b
    BY <1>3, <2>2, <2>3, SameSequence
  <2>5. slice[1].packet = k
    BY <1>3, <1>5, <2>3
  <2>6. slice = Tcp!Bytes(slice[1].packet)
    BY <2>4, <2>5, Zenon DEF Tcp!Bytes, BytesIn, b
  <2>7. QED
    BY <2>6 DEF Tcp!CrcRight, slice
<1>11. QED
  BY <1>5, <1>7, <1>9, <1>10, Zenon DEF ScanStep, Decoded, left, n

-----------------------------------------------------------------------------
(* Every packet after l, up to m, is there as a whole.                     *)
StartsAt(s, seq, k, at) == /\ at + Size(s, k) <= Len(seq)
                           /\ \A i \in 1 .. Size(s, k) : seq[at + i] = BytesIn(s, k)[i]

Within(seq, l, m) == \A i \in 1 .. Len(seq) : seq[i].packet \in l + 1 .. m

AllWhole(s, seq, l, m) == \A k \in l + 1 .. m : \E at \in Nat : StartsAt(s, seq, k, at)

Aligned(s, seq, l, m) == Sound(s, seq) /\ Within(seq, l, m) /\ AllWhole(s, seq, l, m)

LEMMA FrontIsWhole ==
    ASSUME NEW s, OfPackets(s), NEW l \in Nat, NEW m \in l + 1 .. Len(s), NEW seq,
           Aligned(s, seq, l, m)
    PROVE  StartsAt(s, seq, l + 1, 0)
<1>1. Len(s) \in Nat /\ DOMAIN s = 1 .. Len(s)
  BY DEF OfPackets
<1>2. l + 1 \in l + 1 .. m /\ l + 1 \in DOMAIN s
  BY <1>1
<1>3. PICK at \in Nat : StartsAt(s, seq, l + 1, at)
  BY <1>2 DEF Aligned, AllWhole
<1> DEFINE k == l + 1
           n == Size(s, k)
<1>4. /\ n \in Nat /\ n >= 4
      /\ \A i \in 1 .. n : BytesIn(s, k)[i].packet = k /\ BytesIn(s, k)[i].place = i
  BY <1>2, BytesOf
<1> HIDE DEF k, n
<1>5. at + n <= Len(seq) /\ seq[at + 1] = BytesIn(s, k)[1] /\ 1 \in 1 .. n
  BY <1>3, <1>4 DEF StartsAt, k, n
<1>6. seq[at + 1].packet = l + 1 /\ seq[at + 1].place = 1
  BY <1>4, <1>5 DEF k
<1>7. ASSUME at # 0 PROVE FALSE
  <2>1. Len(seq) \in Nat
    BY DEF Aligned, Sound
  <2>2. 1 \in 1 .. Len(seq) /\ at + 1 \in 1 .. Len(seq) /\ 1 < at + 1
    BY <1>4, <1>5, <1>7, <2>1
  <2>3. Before(seq[1], seq[at + 1]) /\ FromStream(s, seq[1]) /\ seq[1].packet \in l + 1 .. m
    BY <2>2 DEF Aligned, Sound, Within
  <2>4. seq[1].packet \in DOMAIN s /\ seq[1].place \in 1 .. Size(s, seq[1].packet)
    BY <2>3 DEF FromStream
  <2>5. Size(s, seq[1].packet) \in Nat
    BY <2>4, BytesOf
  <2>6. seq[1].place >= 1 /\ seq[1].place \in Nat
    BY <2>4, <2>5
  <2>7. seq[1].packet >= l + 1 /\ seq[1].packet \in Nat
    BY <1>1, <2>3
  <2>8. ~(seq[1].packet < l + 1) /\ ~(seq[1].place < 1)
    BY <2>6, <2>7
  <2>9. QED
    BY <1>6, <2>3, <2>8 DEF Before
<1>8. QED
  BY <1>3, <1>7

LEMMA RestIsAligned ==
    ASSUME NEW s, OfPackets(s), NEW l \in Nat, NEW m \in l + 1 .. Len(s), NEW seq,
           Aligned(s, seq, l, m)
    PROVE  Aligned(s, SubSeq(seq, Size(s, l + 1) + 1, Len(seq)), l + 1, m)
<1> DEFINE k == l + 1
           n == Size(s, k)
           L == Len(seq)
           rest == SubSeq(seq, n + 1, L)
<1>1. Len(s) \in Nat /\ DOMAIN s = 1 .. Len(s)
  BY DEF OfPackets
<1>2. k \in Nat /\ k \in DOMAIN s
  BY <1>1
<1>3. StartsAt(s, seq, k, 0)
  BY FrontIsWhole
<1>4. /\ n \in Nat /\ n >= 4
      /\ \A i \in 1 .. n : BytesIn(s, k)[i].packet = k /\ BytesIn(s, k)[i].place = i
  BY <1>2, BytesOf
<1>5. L \in Nat /\ seq \in Seq(Byte)
  BY DEF Aligned, Sound
<1> HIDE DEF n
<1>6. n <= L /\ \A i \in 1 .. n : seq[i].packet = k /\ seq[i].place = i
  <2>1. 0 + n <= L /\ \A i \in 1 .. n : seq[0 + i] = BytesIn(s, k)[i]
    BY <1>3 DEF StartsAt, n
  <2>2. \A i \in 1 .. n : 0 + i = i
    BY <1>4
  <2>3. QED
    BY <1>4, <1>5, <2>1, <2>2
<1>7. n + 1 \in 1 .. L + 1 /\ L \in n + 1 - 1 .. L /\ L - (n + 1) + 1 = L - n
  BY <1>4, <1>5, <1>6
<1>8. Sound(s, rest)
  <2> DEFINE p == n + 1
  <2> HIDE DEF p, L
  <2>1. p \in 1 .. L + 1 /\ L \in p - 1 .. L
    BY <1>7 DEF p
  <2>2. Sound(s, seq)
    BY DEF Aligned
  <2>3. Sound(s, SubSeq(seq, p, L))
    BY <2>1, <2>2, SoundPart DEF L
  <2>4. QED
    BY <2>3 DEF p
<1>9. Len(rest) = L - n /\ \A i \in 1 .. L - n : rest[i] = seq[n + i]
  BY <1>4, <1>5, <1>6
<1> HIDE DEF rest, L, k
<1>10. Within(rest, k, m)
  <2> SUFFICES ASSUME NEW i \in 1 .. Len(rest) PROVE rest[i].packet \in k + 1 .. m
    BY DEF Within
  <2>1. n \in 1 .. L /\ n + i \in 1 .. L /\ n < n + i /\ i \in 1 .. L - n
    BY <1>4, <1>5, <1>6, <1>9
  <2>2. /\ Before(seq[n], seq[n + i]) /\ FromStream(s, seq[n + i])
        /\ seq[n + i].packet \in l + 1 .. m
    BY <2>1 DEF Aligned, Sound, Within, L
  <2>3. rest[i] = seq[n + i] /\ seq[n].packet = k /\ seq[n].place = n
    BY <1>4, <1>6, <1>9, <2>1
  <2> DEFINE b == seq[n + i]
  <2> HIDE DEF b
  <2>4. b.packet \in l + 1 .. m /\ FromStream(s, b) /\ rest[i] = b
    BY <2>2, <2>3 DEF b
  <2>5. k < b.packet \/ (k = b.packet /\ n < b.place)
    BY <2>2, <2>3 DEF Before, b
  <2>6. ASSUME k = b.packet, n < b.place PROVE FALSE
    <3>1. b.place \in 1 .. n
      BY <2>4, <2>6 DEF FromStream, n
    <3>2. QED
      BY <1>4, <2>6, <3>1
  <2>7. k < b.packet
    BY <2>5, <2>6
  <2>8. QED
    BY <1>1, <2>4, <2>7 DEF k
<1>11. AllWhole(s, rest, k, m)
  <2> SUFFICES ASSUME NEW j \in k + 1 .. m PROVE \E at \in Nat : StartsAt(s, rest, j, at)
    BY DEF AllWhole
  <2>1. j \in l + 1 .. m /\ j > k /\ j \in DOMAIN s
    BY <1>1, <1>2 DEF k
  <2>2. PICK at \in Nat : StartsAt(s, seq, j, at)
    BY <2>1 DEF Aligned, AllWhole
  <2> DEFINE z == Size(s, j)
             b == BytesIn(s, j)
  <2>3. z \in Nat /\ z >= 4 /\ \A i \in 1 .. z : b[i].packet = j
    BY <2>1, BytesOf
  <2>4. at + z <= L /\ \A i \in 1 .. z : seq[at + i] = b[i]
    BY <2>2 DEF StartsAt, L
  <2> HIDE DEF z, b
  <2>5. seq[at + 1].packet = j /\ 1 \in 1 .. z
    BY <2>3, <2>4
  <2>6. at >= n
    <3>1. ASSUME at < n PROVE FALSE
      <4>1. at + 1 \in 1 .. n
        BY <1>4, <3>1
      <4>2. seq[at + 1].packet = k
        BY <1>6, <4>1
      <4>3. QED
        BY <1>2, <2>1, <2>5, <4>2
    <3>2. QED
      BY <1>4, <3>1
  <2> DEFINE new == at - n
  <2>7. new \in Nat /\ new + z <= L - n
    BY <1>4, <1>5, <2>3, <2>4, <2>6
  <2> HIDE DEF new
  <2>8. ASSUME NEW i \in 1 .. z PROVE rest[new + i] = b[i]
    <3>1. new + i \in 1 .. L - n /\ n + (new + i) = at + i
      <4>1. /\ n \in Int /\ L \in Int /\ z \in Nat /\ i \in 1 .. z /\ new \in Nat
            /\ new + z <= L - n
        BY <1>4, <1>5, <2>3, <2>7
      <4>2. new + i \in 1 .. L - n
        BY <4>1
      <4>3. n + (new + i) = at + i
        BY <4>1 DEF new
      <4>4. QED
        BY <4>2, <4>3
    <3>2. rest[new + i] = seq[n + (new + i)]
      BY <1>9, <3>1
    <3>3. QED
      BY <2>4, <3>1, <3>2
  <2>9. StartsAt(s, rest, j, new)
    BY <1>9, <2>7, <2>8 DEF StartsAt, z, b
  <2>10. QED
    BY <2>7, <2>9
<1>12. QED
  BY <1>8, <1>10, <1>11 DEF Aligned, rest, n, L, k

LEMMA MoreIsAligned ==
    ASSUME NEW s, OfPackets(s), NEW l \in Nat, NEW m \in l .. Len(s) - 1, NEW seq,
           Sound(s, seq), Within(seq, l, m)
    PROVE  /\ Sound(s, seq \o BytesIn(s, m + 1))
           /\ Within(seq \o BytesIn(s, m + 1), l, m + 1)
           /\ AllWhole(s, seq, l, m) => AllWhole(s, seq \o BytesIn(s, m + 1), l, m + 1)
<1> DEFINE k == m + 1
           b == BytesIn(s, k)
           n == Size(s, k)
           L == Len(seq)
           more == seq \o b
<1>1. Len(s) \in Nat /\ DOMAIN s = 1 .. Len(s)
  BY DEF OfPackets
<1>2. m \in Nat /\ k \in Nat /\ k \in DOMAIN s
  BY <1>1
<1>3. /\ n \in Nat /\ n >= 4 /\ b \in Seq(Byte) /\ Len(b) = n
      /\ \A i \in 1 .. n : b[i].packet = k
  BY <1>2, BytesOf
<1>4. L \in Nat /\ seq \in Seq(Byte)
  BY DEF Sound
<1>5. Sound(s, b)
  BY <1>2, SoundBytes
<1> HIDE DEF n, b
<1>6. /\ Len(more) = L + n
      /\ \A i \in 1 .. L : more[i] = seq[i]
      /\ \A i \in L + 1 .. L + n : more[i] = b[i - L]
  <2>1. /\ Len(more) = Len(seq) + Len(b)
        /\ \A i \in 1 .. Len(seq) : more[i] = seq[i]
        /\ \A i \in Len(seq) + 1 .. Len(seq) + Len(b) : more[i] = b[i - Len(seq)]
    BY <1>3, <1>4, JoinOf
  <2> HIDE DEF more
  <2>2. QED
    BY <1>3, <2>1
<1>7. Sound(s, more)
  <2>1. ASSUME NEW i \in 1 .. L, NEW j \in 1 .. Len(b) PROVE Before(seq[i], b[j])
    <3>1. seq[i].packet \in l + 1 .. m
      BY DEF Within
    <3>2. b[j].packet = m + 1
      BY <1>3
    <3>3. seq[i].packet < m + 1
      BY <1>2, <3>1
    <3>4. QED
      BY <3>2, <3>3 DEF Before
  <2>2. QED
    BY <1>5, <2>1, SoundJoin
<1> HIDE DEF more, L, k
<1>8. Within(more, l, k)
  <2> SUFFICES ASSUME NEW i \in 1 .. L + n PROVE more[i].packet \in l + 1 .. k
    BY <1>6 DEF Within
  <2>1. CASE i <= L
    <3>1. i \in 1 .. L
      BY <1>3, <1>4, <2>1
    <3>2. more[i] = seq[i] /\ seq[i].packet \in l + 1 .. m
      BY <1>6, <3>1 DEF Within, L
    <3>3. QED
      BY <1>2, <3>2 DEF k
  <2>2. CASE i > L
    <3>1. i \in L + 1 .. L + n /\ i - L \in 1 .. n
      BY <1>3, <1>4, <2>2
    <3>2. more[i].packet = k
      BY <1>3, <1>6, <3>1
    <3>3. QED
      BY <1>2, <3>2 DEF k
  <2>3. QED
    BY <1>3, <1>4, <2>1, <2>2
<1>9. ASSUME AllWhole(s, seq, l, m) PROVE AllWhole(s, more, l, k)
  <2> SUFFICES ASSUME NEW j \in l + 1 .. k PROVE \E at \in Nat : StartsAt(s, more, j, at)
    BY DEF AllWhole
  <2>1. CASE j = k
    <3>1. ASSUME NEW i \in 1 .. n PROVE more[L + i] = b[i]
      <4>1. L + i \in L + 1 .. L + n /\ (L + i) - L = i
        BY <1>3, <1>4
      <4>2. QED
        BY <1>6, <4>1
    <3>2. L + n <= Len(more)
      BY <1>3, <1>4, <1>6
    <3>3. StartsAt(s, more, k, L)
      BY <3>1, <3>2 DEF StartsAt, n, b
    <3>4. QED
      BY <1>4, <2>1, <3>3
  <2>2. CASE j # k
    <3>1. j \in l + 1 .. m /\ j \in DOMAIN s
      BY <1>1, <1>2, <2>2 DEF k
    <3>2. PICK at \in Nat : StartsAt(s, seq, j, at)
      BY <1>9, <3>1 DEF AllWhole
    <3> DEFINE z == Size(s, j)
    <3>3. z \in Nat
      BY <3>1, BytesOf
    <3>4. at + z <= L /\ \A i \in 1 .. z : seq[at + i] = BytesIn(s, j)[i]
      BY <3>2 DEF StartsAt, L
    <3> HIDE DEF z
    <3>5. at + z <= Len(more)
      BY <1>3, <1>4, <1>6, <3>3, <3>4
    <3>6. ASSUME NEW i \in 1 .. z PROVE more[at + i] = BytesIn(s, j)[i]
      <4>1. at + i \in 1 .. L
        BY <1>4, <3>3, <3>4
      <4>2. QED
        BY <1>6, <3>4, <4>1
    <3>7. StartsAt(s, more, j, at)
      BY <3>5, <3>6 DEF StartsAt, z
    <3>8. QED
      BY <3>7
  <2>3. QED
    BY <2>1, <2>2
<1>10. QED
  BY <1>7, <1>8, <1>9 DEF more, b, k

-----------------------------------------------------------------------------
(* A piece of what is on the way.  Before any connection has ended, what   *)
(* has been received of the next packet is not all of it.                  *)
Unfinished(s, data, k) == data # <<>> => Len(data) < Size(s, k)

Fit(s) == OfPackets(s) /\ \A k \in DOMAIN s : TcpBuffer <= Size(s, k)

LEMMA PieceOfWhole ==
    ASSUME NEW l \in Nat, NEW m \in l .. Len(stream), NEW old \in Seq(Byte), NEW way \in Seq(Byte),
           Fit(stream), TcpBuffer \in Nat,
           Aligned(stream, old \o way, l, m), Unfinished(stream, old, l + 1),
           NEW n \in 1 .. Len(way), n <= TcpBuffer,
           NEW done, done = Tcp!PushBytes(old \o SubSeq(way, 1, n))
    PROVE  LET after == done.rest \o SubSeq(way, n + 1, Len(way))
           IN  \/ /\ done.packets = <<>>
                  /\ Aligned(stream, after, l, m) /\ Unfinished(stream, done.rest, l + 1)
               \/ /\ done.packets = <<l + 1>> /\ l + 1 <= m
                  /\ Aligned(stream, after, l + 1, m) /\ Unfinished(stream, done.rest, l + 2)
<1> DEFINE piece == SubSeq(way, 1, n)
           data == old \o piece
           behind == SubSeq(way, n + 1, Len(way))
           all == old \o way
           D == Len(data)
           scan == Scan(data)
           k == l + 1
           z == Size(stream, k)
<1>1. OfPackets(stream) /\ Len(stream) \in Nat /\ DOMAIN stream = 1 .. Len(stream)
  BY DEF Fit, OfPackets
<1>2. piece \in Seq(Byte) /\ Len(piece) = n /\ behind \in Seq(Byte) /\ n \in 0 .. Len(way)
  OBVIOUS
<1>3. data \in Seq(Byte) /\ D = Len(old) + n /\ D \in Nat /\ D >= 1 /\ Len(old) \in Nat
  <2> HIDE DEF piece
  <2>1. QED
    BY <1>2
<1>4. all \in Seq(Byte) /\ Len(all) = Len(old) + Len(way) /\ D <= Len(all)
  <2> HIDE DEF data
  <2>1. QED
    BY <1>3
<1>5. data \o behind = all
  BY <1>2, Rejoined
<1>6. \A i \in 1 .. D : data[i] = all[i]
  <2> HIDE DEF data, behind, all
  <2>1. \A i \in 1 .. D : (data \o behind)[i] = data[i]
    BY <1>2, <1>3
  <2>2. QED
    BY <1>5, <2>1
<1> HIDE DEF piece, behind
<1>7. \A p \in 1 .. D + 1 : scan[p] = ScanStep(data, scan, p)
  BY <1>3, ScanExists
<1>8. done = scan[1]
  BY PushBytesScans DEF piece
<1> HIDE DEF data, all, scan
<1>9. l + 1 <= m
  <2>1. 1 \in 1 .. Len(all)
    BY <1>3, <1>4
  <2>2. all[1].packet \in l + 1 .. m
    BY <2>1 DEF Aligned, Within, all
  <2>3. QED
    BY <1>1, <2>2
<1>10. m \in l + 1 .. Len(stream) /\ k \in DOMAIN stream
  BY <1>1, <1>9
<1>11. StartsAt(stream, all, k, 0)
  BY <1>1, <1>10, FrontIsWhole DEF all
<1>12. z \in Nat /\ z >= 4 /\ TcpBuffer <= z
  BY <1>1, <1>10, BytesOf DEF Fit
<1> HIDE DEF z
<1>13. z <= Len(all) /\ \A i \in 1 .. z : all[i] = BytesIn(stream, k)[i]
  <2>1. 0 + z <= Len(all) /\ \A i \in 1 .. z : all[0 + i] = BytesIn(stream, k)[i]
    BY <1>11 DEF StartsAt, z
  <2>2. QED
    BY <1>4, <1>12, <2>1
<1> HIDE DEF D
<1>14. CASE D < z
  <2>1. Begins(data, 1, k, D)
    <3>1. \A i \in 1 .. D : 1 + i - 1 = i /\ data[i] = BytesIn(stream, k)[i]
      BY <1>3, <1>6, <1>12, <1>13, <1>14
    <3>2. QED
      BY <3>1 DEF Begins
  <2>2. 1 \in 1 .. D + 1 /\ D - 1 + 1 = D
    BY <1>3
  <2>3. scan[1] = [rest |-> Left(data, 1), packets |-> <<>>]
    BY <1>1, <1>3, <1>7, <1>10, <1>14, <2>1, <2>2, StepOfPart DEF D, z
  <2>4. Left(data, 1) = data
    BY <1>3 DEF Left
  <2>5. done.rest = data /\ done.packets = <<>>
    BY <1>8, <2>3, <2>4
  <2>6. Aligned(stream, done.rest \o behind, l, m)
    BY <1>5, <2>5 DEF all
  <2>7. Unfinished(stream, done.rest, l + 1)
    BY <1>14, <2>5 DEF Unfinished, D, z, k
  <2>8. QED
    BY <2>5, <2>6, <2>7 DEF behind
<1>15. CASE D >= z
  <2> DEFINE r == 1 + z
             left == Left(data, r)
             size == D - r + 1
  <2>1. r \in 1 .. D + 1 /\ r \in Nat /\ size \in Nat /\ 1 \in 1 .. D + 1 /\ z <= D - 1 + 1
    BY <1>3, <1>12, <1>15
  <2>2. size < TcpBuffer \/ size = 0
    <3>1. CASE old = <<>>
      BY <1>3, <1>12, <1>15, <2>1, <3>1
    <3>2. CASE old # <<>>
      <4>1. Len(old) < z
        BY <3>2 DEF Unfinished, z
      <4>2. QED
        BY <1>3, <1>12, <1>15, <4>1
    <3>3. QED
      BY <3>1, <3>2
  <2>3. Begins(data, 1, k, z)
    <3>1. \A i \in 1 .. z : 1 + i - 1 = i /\ data[i] = BytesIn(stream, k)[i]
      BY <1>3, <1>6, <1>12, <1>13, <1>15
    <3>2. QED
      BY <3>1 DEF Begins
  <2>4. scan[1] = [rest |-> scan[r].rest, packets |-> <<k>> \o scan[r].packets]
    <3>1. z <= Len(data) - 1 + 1 /\ 1 \in 1 .. Len(data) + 1
      BY <2>1 DEF D
    <3>2. z = Size(stream, k)
      BY DEF z
    <3> HIDE DEF k
    <3>3. ScanStep(data, scan, 1) = Decoded(scan, k, r)
      <4>1. data \in Seq(Byte) /\ OfPackets(stream) /\ k \in DOMAIN stream
        BY <1>1, <1>3, <1>10
      <4> HIDE DEF left
      <4>2. QED
        BY <2>3, <3>1, <3>2, <4>1, StepOfWhole, Zenon
    <3>4. QED
      BY <1>7, <2>1, <3>3 DEF Decoded
  <2> DEFINE others == SubSeq(all, r, Len(all))
  <2>5. Aligned(stream, others, k, m)
    <3> DEFINE q == z + 1
    <3>1. Aligned(stream, SubSeq(all, q, Len(all)), k, m)
      BY <1>1, <1>10, RestIsAligned DEF all, z
    <3>2. q = r
      BY <1>12
    <3> HIDE DEF q, r
    <3>3. QED
      BY <3>1, <3>2
  <2>6. left \o behind = others
    <3>1. SubSeq(data, r, Len(data)) \o behind = SubSeq(data \o behind, r, Len(data \o behind))
      BY <1>2, <1>3, <2>1, CutJoined DEF D
    <3>2. QED
      BY <1>5, <3>1 DEF Left
  <2>7. left \in Seq(Byte) /\ Len(left) = size
    BY <1>3, <2>1, LeftOf DEF D
  <2> DEFINE k2 == k + 1
  <2>8. size > 0 => /\ k2 <= m /\ k2 \in DOMAIN stream /\ size < Size(stream, k2)
                    /\ Begins(data, r, k2, size)
    <3> SUFFICES ASSUME size > 0
                 PROVE  /\ k2 <= m /\ k2 \in DOMAIN stream /\ size < Size(stream, k2)
                        /\ Begins(data, r, k2, size)
      OBVIOUS
    <3>1. others \in Seq(Byte) /\ Len(others) = Len(all) - r + 1
          /\ \A i \in 1 .. Len(all) - r + 1 : others[i] = all[r + i - 1]
      <4>1. r \in 1 .. Len(all) + 1
        BY <1>3, <1>4, <2>1 DEF D
      <4> HIDE DEF r
      <4>2. QED
        BY <1>4, <4>1, LeftOf DEF Left
    <3> HIDE DEF others
    <3>2. 1 \in 1 .. Len(others)
      BY <1>4, <2>1, <3>1, SMTT(30) DEF D
    <3>3. others[1].packet \in k + 1 .. m
      BY <2>5, <3>2 DEF Aligned, Within
    <3>4. k2 <= m /\ k2 \in DOMAIN stream /\ m \in k + 1 .. Len(stream) /\ k \in Nat
      BY <1>1, <1>10, <3>3
    <3>5. StartsAt(stream, others, k2, 0)
      BY <1>1, <2>5, <3>4, FrontIsWhole
    <3> DEFINE y == Size(stream, k2)
    <3>6. y \in Nat /\ TcpBuffer <= y
      BY <1>1, <3>4, BytesOf DEF Fit
    <3>7. 0 + y <= Len(others) /\ \A i \in 1 .. y : others[0 + i] = BytesIn(stream, k2)[i]
      BY <3>5 DEF StartsAt
    <3> HIDE DEF y, k2
    <3>8. size < y
      BY <2>1, <2>2, <3>6
    <3>9. ASSUME NEW i \in 1 .. size PROVE data[r + i - 1] = BytesIn(stream, k2)[i]
      <4>1. i \in 1 .. y /\ 0 + i = i /\ r + i - 1 \in 1 .. D /\ i \in 1 .. Len(all) - r + 1
        <5>1. i \in Nat /\ i >= 1 /\ i <= size /\ D <= Len(all) /\ Len(all) \in Nat
          BY <1>3, <1>4, <2>1 DEF D
        <5>2. i \in 1 .. y
          BY <2>1, <3>6, <3>8, <5>1
        <5>3. r + i - 1 \in 1 .. D /\ i \in 1 .. Len(all) - r + 1
          <6>1. D \in Nat /\ r \in Nat /\ r >= 1
            BY <1>3, <1>12
          <6>2. size = D - r + 1
            OBVIOUS
          <6> HIDE DEF r, size
          <6>3. QED
            BY <5>1, <6>1, <6>2
        <5>4. QED
          BY <5>1, <5>2, <5>3
      <4>2. others[i] = BytesIn(stream, k2)[i]
        BY <3>7, <4>1
      <4>3. data[r + i - 1] = all[r + i - 1]
        BY <1>6, <4>1
      <4>4. QED
        BY <3>1, <4>1, <4>2, <4>3
    <3>10. QED
      BY <3>4, <3>8, <3>9 DEF Begins, y
  <2>9. ScanStep(data, scan, r) = [rest |-> left, packets |-> <<>>]
    <3>1. CASE size = 0
      <4>1. Len(left) <= 2
        BY <2>7, <3>1
      <4>2. QED
        BY <4>1, Zenon DEF ScanStep
    <3>2. CASE size > 0
      <4> HIDE DEF r, k2
      <4>1. QED
        BY <1>1, <1>3, <2>1, <2>8, <3>2, StepOfPart DEF D
    <3>3. QED
      BY <2>1, <3>1, <3>2
  <2>10. done.rest = left /\ done.packets = <<k>>
    <3>1. scan[r] = [rest |-> left, packets |-> <<>>]
      BY <1>7, <2>1, <2>9
    <3> HIDE DEF left, r
    <3>2. <<k>> \o <<>> = <<k>>
      OBVIOUS
    <3>3. QED
      BY <1>8, <2>4, <3>1, <3>2
  <2>11. Unfinished(stream, done.rest, l + 2)
    <3>1. left # <<>> => size > 0
      BY <2>1, <2>7
    <3>2. k2 = l + 2
      OBVIOUS
    <3> HIDE DEF left, size, k2, r
    <3>3. QED
      BY <2>7, <2>8, <2>10, <3>1, <3>2 DEF Unfinished
  <2>12. Aligned(stream, done.rest \o behind, l + 1, m)
    BY <2>5, <2>6, <2>10
  <2>13. QED
    BY <1>9, <2>10, <2>11, <2>12 DEF behind
<1>16. QED
  BY <1>3, <1>12, <1>14, <1>15

-----------------------------------------------------------------------------
(* The inductive invariant: what is in the decoder and on the way are      *)
(* bytes of packets that were sent and are newer than what was decoded;    *)
(* and before any connection has ended all of these packets, as a whole.   *)
All == m_input_data \o pipe

StreamTypes == /\ stream \in Streams /\ breaks \in 0 .. MaxBreaks
               /\ last \in Nat /\ streamSent \in last .. Len(stream)
               /\ m_input_data \in Seq(Byte) /\ pipe \in Seq(Byte)

InOrderOfSending == Sound(stream, All) /\ Within(All, last, streamSent)

NothingMissing == breaks = 0 /\ program = "runs" =>
                      /\ AllWhole(stream, All, last, streamSent)
                      /\ Unfinished(stream, m_input_data, last + 1)

StreamInv == StreamTypes /\ InOrderOfSending /\ NothingMissing

LEMMA MinOfTwo ==
    ASSUME NEW a \in Int, NEW b \in Int
    PROVE  Tcp!Min({a, b}) \in {a, b} /\ Tcp!Min({a, b}) <= a /\ Tcp!Min({a, b}) <= b
<1>1. \E x \in {a, b} : \A y \in {a, b} : x <= y
  OBVIOUS
<1>2. Tcp!Min({a, b}) = CHOOSE x \in {a, b} : \A y \in {a, b} : x <= y
  BY DEF Tcp!Min
<1>3. QED
  BY <1>1, <1>2

LEMMA StreamFacts ==
    ASSUME Tcp!StreamSettings, StreamTypes
    PROVE  Fit(stream) /\ OfPackets(stream) /\ Len(stream) \in Nat /\ TcpBuffer \in Nat
<1>1. OfPackets(stream) /\ \A k \in DOMAIN stream : TcpBuffer <= Size(stream, k)
  BY Zenon DEF Tcp!StreamSettings, StreamTypes, OfPackets, Size
<1>2. TcpBuffer \in Nat
  BY DEF Tcp!StreamSettings
<1>3. QED
  BY <1>1, <1>2 DEF Fit, OfPackets

LEMMA StreamInitially == ASSUME Tcp!StreamSettings, Tcp!Init PROVE StreamInv
<1>1. <<>> \in Seq(Byte) /\ Len(<<>>) = 0 /\ <<>> \o <<>> = <<>>
  OBVIOUS
<1>2. All = <<>>
  BY <1>1 DEF Tcp!Init, All
<1>3. StreamTypes
  <2>1. stream \in Streams /\ OfPackets(stream)
    BY Zenon DEF Tcp!StreamSettings, Tcp!Init, OfPackets
  <2>2. Len(stream) \in Nat
    BY <2>1 DEF OfPackets
  <2>3. QED
    BY <1>1, <2>1, <2>2 DEF StreamTypes, Tcp!Init, Tcp!StreamSettings
<1>4. InOrderOfSending
  BY <1>1, <1>2 DEF InOrderOfSending, Sound, Within
<1>5. NothingMissing
  <2>1. \A k \in last + 1 .. streamSent : FALSE
    BY DEF Tcp!Init
  <2>2. Unfinished(stream, m_input_data, last + 1)
    BY DEF Tcp!Init, Unfinished
  <2>3. QED
    BY <1>2, <2>1, <2>2 DEF NothingMissing, AllWhole
<1>6. QED
  BY <1>3, <1>4, <1>5 DEF StreamInv

(* A step that decodes nothing.                                            *)
LEMMA NothingDecoded ==
    ASSUME StreamInv, UNCHANGED <<stream, streamSent, pipe, m_input_data, last>>,
           breaks' \in 0 .. MaxBreaks, breaks' = 0 => breaks = 0, program' = "runs" => program = "runs"
    PROVE  StreamInv'
<1>1. StreamTypes'
  BY DEF StreamInv, StreamTypes
<1>2. InOrderOfSending'
  BY DEF StreamInv, InOrderOfSending, All
<1>3. NothingMissing'
  BY DEF StreamInv, NothingMissing, All
<1>4. QED
  BY <1>1, <1>2, <1>3 DEF StreamInv

OnePacket == last' # last => IF breaks = 0 THEN last' = last + 1 ELSE last' > last

(* TCPClient::recv and push_bytes().                                       *)
LEMMA ReceiveKeepsInv ==
    ASSUME Tcp!StreamSettings, StreamInv, Tcp!Receive
    PROVE  StreamInv' /\ OnePacket
<1>1. Fit(stream) /\ OfPackets(stream) /\ Len(stream) \in Nat /\ TcpBuffer \in Nat
  BY StreamFacts DEF StreamInv
<1>2. /\ stream \in Streams /\ breaks \in 0 .. MaxBreaks /\ last \in Nat
      /\ streamSent \in last .. Len(stream)
      /\ m_input_data \in Seq(Byte) /\ pipe \in Seq(Byte)
  BY DEF StreamInv, StreamTypes
<1>3. program = "runs" /\ pipe # <<>> /\ UNCHANGED <<stream, streamSent, breaks>>
  BY DEF Tcp!Receive, Tcp!Receiving, Tcp!network
<1>4. PICK n \in 1 .. Tcp!Min({TcpBuffer, Len(pipe)}) :
        LET done == Tcp!PushBytes(m_input_data \o SubSeq(pipe, 1, n))
        IN  /\ pipe' = SubSeq(pipe, n + 1, Len(pipe))
            /\ m_input_data' = done.rest
            /\ reader' = Tcp!Read(done.packets)
            /\ \/ /\ done.packets = <<>> /\ UNCHANGED <<frame, last, program>>
               \/ /\ done.packets # <<>> /\ Tcp!Throws(done.packets)
                  /\ program' = "stopped" /\ UNCHANGED <<frame, last>>
               \/ /\ done.packets # <<>> /\ ~Tcp!Throws(done.packets)
                  /\ frame' = done.packets[Len(done.packets)] /\ last' = frame' /\ UNCHANGED program
  BY Zenon DEF Tcp!Receive
<1> DEFINE data == m_input_data \o SubSeq(pipe, 1, n)
           done == Tcp!PushBytes(data)
           behind == SubSeq(pipe, n + 1, Len(pipe))
<1>5. pipe' = behind /\ m_input_data' = done.rest
  BY <1>4
<1>6. \/ done.packets = <<>> /\ UNCHANGED <<last, program>>
      \/ done.packets # <<>> /\ program' = "stopped" /\ UNCHANGED last
      \/ done.packets # <<>> /\ last' = done.packets[Len(done.packets)] /\ UNCHANGED program
  BY <1>4
<1>7. n \in 1 .. Len(pipe) /\ n <= TcpBuffer /\ n \in 0 .. Len(pipe)
  <2>1. Len(pipe) \in Nat
    BY <1>2
  <2>2. Tcp!Min({TcpBuffer, Len(pipe)}) <= TcpBuffer /\ Tcp!Min({TcpBuffer, Len(pipe)}) <= Len(pipe)
        /\ Tcp!Min({TcpBuffer, Len(pipe)}) \in Int
    <3>1. TcpBuffer \in Int /\ Len(pipe) \in Int
      BY <1>1, <2>1
    <3> DEFINE x == TcpBuffer
               y == Len(pipe)
    <3> HIDE DEF x, y
    <3>2. x \in Int /\ y \in Int
      BY <3>1 DEF x, y
    <3>3. Tcp!Min({x, y}) \in {x, y} /\ Tcp!Min({x, y}) <= x /\ Tcp!Min({x, y}) <= y
      BY <3>2, MinOfTwo
    <3>4. Tcp!Min({x, y}) \in Int
      BY <3>2, <3>3
    <3>5. QED
      BY <3>3, <3>4 DEF x, y
  <2> DEFINE min == Tcp!Min({TcpBuffer, Len(pipe)})
  <2> HIDE DEF min
  <2>3. n \in 1 .. min /\ min <= TcpBuffer /\ min <= Len(pipe) /\ min \in Int
    BY <2>2 DEF min
  <2>4. QED
    BY <1>1, <2>1, <2>3
<1>8. data \o behind = All
  BY <1>2, <1>7, Rejoined DEF All
<1>9. Sound(stream, All) /\ Within(All, last, streamSent)
  BY DEF StreamInv, InOrderOfSending
<1>10. /\ All \in Seq(Byte) /\ data \in Seq(Byte) /\ behind \in Seq(Byte) /\ Len(data) \in Nat
       /\ Len(data) <= Len(All) /\ Len(All) \in Nat
       /\ \A i \in 1 .. Len(data) : data[i] = All[i]
  <2>1. data \in Seq(Byte) /\ behind \in Seq(Byte)
    BY <1>2, <1>7
  <2> HIDE DEF data, behind
  <2>2. /\ data \o behind \in Seq(Byte) /\ Len(data) \in Nat
        /\ Len(data \o behind) = Len(data) + Len(behind) /\ Len(behind) \in Nat
        /\ \A i \in 1 .. Len(data) : (data \o behind)[i] = data[i]
    BY <2>1
  <2>3. QED
    BY <1>8, <2>1, <2>2
<1> HIDE DEF data, behind, done
<1>11. Sound(stream, data)
  <2>1. ASSUME NEW i \in 1 .. Len(data) PROVE FromStream(stream, data[i])
    <3>1. i \in 1 .. Len(All) /\ data[i] = All[i]
      BY <1>10
    <3>2. QED
      BY <1>9, <3>1 DEF Sound
  <2>2. ASSUME NEW i \in 1 .. Len(data), NEW j \in 1 .. Len(data), i < j
        PROVE  Before(data[i], data[j])
    <3>1. i \in 1 .. Len(All) /\ data[i] = All[i] /\ j \in 1 .. Len(All) /\ data[j] = All[j]
      BY <1>10
    <3>2. QED
      BY <1>9, <2>2, <3>1 DEF Sound
  <2>3. QED
    BY <1>10, <2>1, <2>2 DEF Sound
<1>12. PICK q \in 1 .. Len(data) + 1 :
         /\ done.rest = SubSeq(data, q, Len(data))
         /\ done.packets \in Seq(Nat)
         /\ Ends(data, 1, q, done.packets)
  BY <1>1, <1>11, PushBytesGives DEF Gives, done
<1>13. All' = SubSeq(All, q, Len(All)) /\ q \in 1 .. Len(All) + 1 /\ m_input_data' \in Seq(Byte)
  <2>1. SubSeq(data, q, Len(data)) \o behind
            = SubSeq(data \o behind, q, Len(data \o behind))
    BY <1>10, CutJoined
  <2>2. m_input_data' \o pipe' = SubSeq(data, q, Len(data)) \o behind
    BY <1>5, <1>12
  <2>3. q \in 1 .. Len(All) + 1
    BY <1>10
  <2>4. m_input_data' \in Seq(Byte)
    BY <1>5, <1>10, <1>12
  <2>5. QED
    BY <1>8, <2>1, <2>2, <2>3, <2>4 DEF All
<1> DEFINE rest == SubSeq(All, q, Len(All))
<1>14. Sound(stream, rest)
  BY <1>9, <1>10, <1>13, SoundPart
<1>15. Len(rest) = Len(All) - q + 1 /\ \A i \in 1 .. Len(All) - q + 1 : rest[i] = All[q + i - 1]
  BY <1>10, <1>13
<1> HIDE DEF rest
<1>16. last' = last \/ (/\ done.packets # <<>> /\ last' \in last + 1 .. streamSent
                        /\ Within(rest, last', streamSent))
  <2> SUFFICES ASSUME last' # last
               PROVE  /\ done.packets # <<>> /\ last' \in last + 1 .. streamSent
                      /\ Within(rest, last', streamSent)
    OBVIOUS
  <2>1. done.packets # <<>> /\ last' = done.packets[Len(done.packets)]
    BY <1>6
  <2>2. PICK j \in 1 .. q - 1 : /\ data[j].packet = done.packets[Len(done.packets)]
                                /\ data[j].place = Size(stream, data[j].packet)
    BY <1>12, <2>1 DEF Ends
  <2>3. j \in 1 .. Len(data) /\ j \in 1 .. Len(All) /\ data[j] = All[j]
    BY <1>10
  <2>4. All[j].packet = last' /\ All[j].place = Size(stream, last')
    BY <2>1, <2>2, <2>3
  <2>5. last' \in last + 1 .. streamSent
    BY <1>9, <2>3, <2>4 DEF Within
  <2>6. ASSUME NEW i \in 1 .. Len(rest) PROVE rest[i].packet \in last' + 1 .. streamSent
    <3> DEFINE h == q + i - 1
    <3>1. h \in 1 .. Len(All) /\ j < h /\ rest[i] = All[h]
      BY <1>10, <1>15
    <3> HIDE DEF h
    <3>2. /\ Before(All[j], All[h]) /\ FromStream(stream, All[h])
          /\ All[h].packet \in last + 1 .. streamSent
      BY <1>9, <2>3, <3>1 DEF Sound, Within
    <3>3. \/ last' < All[h].packet
          \/ last' = All[h].packet /\ Size(stream, last') < All[h].place
      BY <2>4, <3>2 DEF Before
    <3>4. ASSUME last' = All[h].packet, Size(stream, last') < All[h].place PROVE FALSE
      <4>1. All[h].packet \in DOMAIN stream /\ All[h].place \in 1 .. Size(stream, last')
        BY <3>2, <3>4 DEF FromStream
      <4>2. Size(stream, last') \in Nat
        BY <1>1, <3>4, <4>1, BytesOf
      <4>3. QED
        BY <3>4, <4>1, <4>2
    <3>5. last' < All[h].packet
      BY <3>3, <3>4
    <3>6. All[h].packet \in last' + 1 .. streamSent
      <4>1. last' \in Nat /\ last \in Nat /\ streamSent \in Nat
        BY <1>2, <2>5
      <4>2. QED
        BY <3>2, <3>5, <4>1
    <3>7. QED
      BY <3>1, <3>6
  <2>7. QED
    BY <2>1, <2>5, <2>6 DEF Within
<1>17. StreamTypes'
  <2>1. pipe' \in Seq(Byte)
    BY <1>5, <1>10
  <2>2. last' \in Nat /\ streamSent' \in last' .. Len(stream')
    BY <1>1, <1>2, <1>3, <1>16
  <2>3. QED
    BY <1>2, <1>3, <1>13, <2>1, <2>2 DEF StreamTypes
<1>18. InOrderOfSending'
  <2>1. Within(rest, last', streamSent)
    <3>1. CASE last' = last
      <4>1. ASSUME NEW i \in 1 .. Len(rest) PROVE rest[i].packet \in last + 1 .. streamSent
        <5>1. rest[i] = All[q + i - 1] /\ q + i - 1 \in 1 .. Len(All)
          BY <1>10, <1>15
        <5>2. QED
          BY <1>9, <5>1 DEF Within
      <4>2. QED
        BY <3>1, <4>1 DEF Within
    <3>2. QED
      BY <1>16, <3>1
  <2>2. All' = rest
    BY <1>13 DEF rest
  <2>3. QED
    BY <1>3, <1>14, <2>1, <2>2 DEF InOrderOfSending
<1>19. CASE breaks # 0
  <2>1. NothingMissing'
    BY <1>3, <1>19 DEF NothingMissing
  <2>2. OnePacket
    BY <1>2, <1>16, <1>19 DEF OnePacket
  <2>3. QED
    BY <1>17, <1>18, <2>1, <2>2 DEF StreamInv
<1>20. CASE breaks = 0
  <2>1. Aligned(stream, All, last, streamSent) /\ Unfinished(stream, m_input_data, last + 1)
    BY <1>3, <1>9, <1>20 DEF StreamInv, NothingMissing, Aligned
  <2>2. \/ /\ done.packets = <<>>
           /\ Aligned(stream, done.rest \o behind, last, streamSent)
           /\ Unfinished(stream, done.rest, last + 1)
        \/ /\ done.packets = <<last + 1>> /\ last + 1 <= streamSent
           /\ Aligned(stream, done.rest \o behind, last + 1, streamSent)
           /\ Unfinished(stream, done.rest, last + 2)
    BY <1>1, <1>2, <1>7, <2>1, PieceOfWhole DEF All, done, data, behind
  <2>3. All' = done.rest \o behind
    BY <1>5 DEF All
  <2>4. last' = last \/ last' = last + 1
    BY <1>6, <2>2
  <2>5. OnePacket
    BY <1>20, <2>4 DEF OnePacket
  <2>6. NothingMissing'
    <3> SUFFICES ASSUME program' = "runs"
                 PROVE  AllWhole(stream, All', last', streamSent)
                        /\ Unfinished(stream, m_input_data', last' + 1)
      BY <1>3 DEF NothingMissing
    <3>1. CASE done.packets = <<>>
      <4>1. last' = last
        BY <1>6, <3>1
      <4>2. QED
        BY <1>5, <2>2, <2>3, <3>1, <4>1 DEF Aligned
    <3>2. CASE done.packets # <<>>
      <4>1. last' = last + 1 /\ last' + 1 = last + 2
        BY <1>2, <1>6, <2>2, <3>2
      <4>2. QED
        BY <1>5, <2>2, <2>3, <3>2, <4>1 DEF Aligned
    <3>3. QED
      BY <3>1, <3>2
  <2>7. QED
    BY <1>17, <1>18, <2>5, <2>6 DEF StreamInv
<1>21. QED
  BY <1>19, <1>20

LEMMA SendKeepsInv ==
    ASSUME Tcp!StreamSettings, StreamInv, Tcp!SendPacket
    PROVE  StreamInv'
<1>1. OfPackets(stream) /\ Len(stream) \in Nat /\ DOMAIN stream = 1 .. Len(stream)
  BY StreamFacts DEF StreamInv, OfPackets
<1>2. /\ stream \in Streams /\ breaks \in 0 .. MaxBreaks /\ last \in Nat
      /\ streamSent \in last .. Len(stream)
      /\ m_input_data \in Seq(Byte) /\ pipe \in Seq(Byte)
  BY DEF StreamInv, StreamTypes
<1> DEFINE b == BytesIn(stream, streamSent + 1)
<1>3. /\ streamSent < Len(stream) /\ streamSent' = streamSent + 1 /\ pipe' = pipe \o b
      /\ UNCHANGED <<stream, breaks, m_input_data, last, program>>
  BY Zenon DEF Tcp!SendPacket, Tcp!receiver, Tcp!Bytes, BytesIn
<1>4. streamSent \in last .. Len(stream) - 1 /\ streamSent + 1 \in DOMAIN stream
  BY <1>1, <1>2, <1>3
<1>5. b \in Seq(Byte)
  BY <1>1, <1>4, BytesOf
<1> HIDE DEF b
<1>6. All' = All \o b
  <2>1. m_input_data \o (pipe \o b) = (m_input_data \o pipe) \o b
    BY <1>2, <1>5
  <2>2. QED
    BY <1>3, <2>1 DEF All
<1>7. Sound(stream, All) /\ Within(All, last, streamSent)
  BY DEF StreamInv, InOrderOfSending
<1>8. /\ Sound(stream, All \o b) /\ Within(All \o b, last, streamSent + 1)
      /\ AllWhole(stream, All, last, streamSent) => AllWhole(stream, All \o b, last, streamSent + 1)
  BY <1>1, <1>2, <1>4, <1>7, MoreIsAligned DEF b
<1>9. StreamTypes'
  <2>1. pipe' \in Seq(Byte)
    BY <1>2, <1>3, <1>5
  <2>2. streamSent' \in last' .. Len(stream')
    BY <1>1, <1>2, <1>3
  <2>3. QED
    BY <1>2, <1>3, <2>1, <2>2 DEF StreamTypes
<1>10. InOrderOfSending'
  BY <1>3, <1>6, <1>8 DEF InOrderOfSending
<1>11. NothingMissing'
  BY <1>3, <1>6, <1>8 DEF StreamInv, NothingMissing
<1>12. QED
  BY <1>9, <1>10, <1>11 DEF StreamInv

(* A connection that ends takes some of what is on the way with it.        *)
LEMMA BreakKeepsInv ==
    ASSUME Tcp!StreamSettings, StreamInv, Tcp!Break
    PROVE  StreamInv'
<1>1. /\ stream \in Streams /\ breaks \in 0 .. MaxBreaks /\ last \in Nat
      /\ streamSent \in last .. Len(stream)
      /\ m_input_data \in Seq(Byte) /\ pipe \in Seq(Byte)
  BY DEF StreamInv, StreamTypes
<1>2. /\ breaks < MaxBreaks /\ breaks' = breaks + 1
      /\ UNCHANGED <<stream, streamSent, m_input_data, last, program>>
  BY DEF Tcp!Break, Tcp!receiver
<1>3. PICK n \in 0 .. Len(pipe) : pipe' = SubSeq(pipe, 1, n)
  BY DEF Tcp!Break
<1>4. pipe' \in Seq(Byte) /\ Len(pipe') = n /\ \A i \in 1 .. n : pipe'[i] = pipe[i]
  BY <1>1, <1>3
<1> DEFINE m == Len(m_input_data) + n
<1>5. m \in 0 .. Len(All) /\ All \in Seq(Byte) /\ Len(All) = Len(m_input_data) + Len(pipe)
  BY <1>1 DEF All
<1>6. All' \in Seq(Byte) /\ Len(All') = m /\ \A i \in 1 .. m : All'[i] = All[i]
  <2> DEFINE p == SubSeq(pipe, 1, n)
             new == m_input_data \o p
  <2>1. p \in Seq(Byte) /\ Len(p) = n /\ \A i \in 1 .. n : p[i] = pipe[i]
    BY <1>1
  <2>2. All' = new
    BY <1>2, <1>3 DEF All
  <2> HIDE DEF p
  <2>3. /\ new \in Seq(Byte) /\ Len(new) = m /\ Len(m_input_data) \in Nat
        /\ \A i \in 1 .. Len(m_input_data) : new[i] = m_input_data[i]
        /\ \A i \in Len(m_input_data) + 1 .. m : new[i] = p[i - Len(m_input_data)]
    BY <1>1, <2>1
  <2>4. /\ \A i \in 1 .. Len(m_input_data) : All[i] = m_input_data[i]
        /\ \A i \in Len(m_input_data) + 1 .. Len(m_input_data) + Len(pipe) :
               All[i] = pipe[i - Len(m_input_data)]
    BY <1>1 DEF All
  <2> HIDE DEF new
  <2>5. ASSUME NEW i \in 1 .. m PROVE new[i] = All[i]
    <3>1. CASE i <= Len(m_input_data)
      BY <2>3, <2>4, <3>1
    <3>2. CASE i > Len(m_input_data)
      <4>1. /\ i - Len(m_input_data) \in 1 .. n /\ i \in Len(m_input_data) + 1 .. m
            /\ i \in Len(m_input_data) + 1 .. Len(m_input_data) + Len(pipe)
        BY <2>3, <3>2
      <4>2. new[i] = p[i - Len(m_input_data)] /\ All[i] = pipe[i - Len(m_input_data)]
        BY <2>3, <2>4, <4>1
      <4>3. QED
        BY <2>1, <4>1, <4>2
    <3>3. QED
      BY <2>3, <3>1, <3>2
  <2>6. QED
    BY <2>2, <2>3, <2>5
<1> HIDE DEF m
<1>7. Sound(stream, All) /\ Within(All, last, streamSent)
  BY DEF StreamInv, InOrderOfSending
<1> DEFINE new == All'
<1>8. new \in Seq(Byte) /\ Len(new) = m /\ \A i \in 1 .. m : i \in 1 .. Len(All) /\ new[i] = All[i]
  <2>1. \A i \in 1 .. m : i \in 1 .. Len(All)
    BY <1>5
  <2>2. QED
    BY <1>6, <2>1
<1> HIDE DEF new
<1>9. Sound(stream, new)
  <2>1. ASSUME NEW i \in 1 .. m PROVE FromStream(stream, new[i])
    BY <1>7, <1>8 DEF Sound
  <2>2. ASSUME NEW i \in 1 .. m, NEW j \in 1 .. m, i < j PROVE Before(new[i], new[j])
    <3>1. i \in 1 .. Len(All) /\ new[i] = All[i] /\ j \in 1 .. Len(All) /\ new[j] = All[j]
      BY <1>8
    <3>2. QED
      BY <1>7, <2>2, <3>1 DEF Sound
  <2>3. QED
    BY <1>8, <2>1, <2>2 DEF Sound
<1>10. Within(new, last, streamSent)
  BY <1>7, <1>8 DEF Within
<1>11. InOrderOfSending'
  BY <1>2, <1>9, <1>10 DEF InOrderOfSending, new
<1>12. StreamTypes'
  <2>1. breaks' \in 0 .. MaxBreaks
    BY <1>1, <1>2 DEF Tcp!StreamSettings
  <2>2. QED
    BY <1>1, <1>2, <1>4, <2>1 DEF StreamTypes
<1>13. NothingMissing'
  <2>1. breaks' # 0
    BY <1>1, <1>2
  <2>2. QED
    BY <2>1 DEF NothingMissing
<1>14. QED
  BY <1>11, <1>12, <1>13 DEF StreamInv

LEMMA StreamStep ==
    ASSUME Tcp!StreamSettings, StreamInv, [Tcp!Next]_ediStreamVars
    PROVE  StreamInv' /\ OnePacket
<1>1. /\ breaks \in 0 .. MaxBreaks /\ breaks \in Nat /\ MaxBreaks \in Nat
      /\ last \in Nat /\ Len(stream) \in Nat /\ streamSent \in last .. Len(stream)
  BY StreamFacts DEF StreamInv, StreamTypes, Tcp!StreamSettings
<1>2. CASE Tcp!Receive
  BY <1>2, ReceiveKeepsInv
<1>3. CASE Tcp!Closed
  <2>1. UNCHANGED <<stream, streamSent, pipe, m_input_data, last, breaks>> /\ program = "runs"
    BY <1>3 DEF Tcp!Closed, Tcp!Receiving, Tcp!Reconnect, Tcp!network
  <2>2. StreamInv'
    BY <1>1, <2>1, NothingDecoded
  <2>3. QED
    BY <2>1, <2>2 DEF OnePacket
<1>4. CASE Tcp!Timeout
  <2>1. UNCHANGED <<stream, streamSent, pipe, m_input_data, last>> /\ program = "runs"
    BY <1>4 DEF Tcp!Timeout, Tcp!Receiving, Tcp!Reconnect, Tcp!network
  <2>2. breaks' = breaks \/ breaks' = Tcp!Min({breaks + 1, MaxBreaks})
    BY <1>4 DEF Tcp!Timeout
  <2>3. breaks' \in 0 .. MaxBreaks /\ (breaks' = 0 => breaks = 0)
    <3> DEFINE min == Tcp!Min({breaks + 1, MaxBreaks})
    <3>1. min \in {breaks + 1, MaxBreaks} /\ min <= MaxBreaks
      BY <1>1, MinOfTwo
    <3> HIDE DEF min
    <3>2. min \in 0 .. MaxBreaks /\ (min = 0 => breaks = 0)
      BY <1>1, <3>1
    <3>3. breaks' = breaks \/ breaks' = min
      BY <2>2 DEF min
    <3>4. QED
      BY <1>1, <3>2, <3>3
  <2>4. StreamInv'
    BY <2>1, <2>3, NothingDecoded
  <2>5. QED
    BY <2>1, <2>4 DEF OnePacket
<1>5. CASE Tcp!Fails
  <2>1. UNCHANGED <<stream, streamSent, pipe, m_input_data, last, breaks>> /\ program' = "stopped"
    BY <1>5 DEF Tcp!Fails, Tcp!network
  <2>2. StreamInv'
    BY <1>1, <2>1, NothingDecoded
  <2>3. QED
    BY <2>1, <2>2 DEF OnePacket
<1>6. CASE Tcp!TakeFrame
  <2>1. UNCHANGED <<stream, streamSent, pipe, m_input_data, last, breaks, program>>
    BY <1>6 DEF Tcp!TakeFrame, Tcp!network
  <2>2. StreamInv'
    BY <1>1, <2>1, NothingDecoded
  <2>3. QED
    BY <2>1, <2>2 DEF OnePacket
<1>7. CASE Tcp!Accept
  <2>1. UNCHANGED <<stream, pipe, m_input_data, last, breaks, program>>
    BY <1>7 DEF Tcp!Accept, Tcp!receiver
  <2>2. streamSent' \in streamSent .. Len(stream) /\ (breaks = 0 => streamSent' = streamSent)
    <3>1. streamSent' \in IF breaks = 0 THEN {streamSent} ELSE streamSent .. Len(stream)
      BY <1>7 DEF Tcp!Accept
    <3>2. QED
      BY <1>1, <3>1
  <2>3. CASE streamSent' = streamSent
    <3>1. StreamInv'
      BY <1>1, <2>1, <2>3, NothingDecoded
    <3>2. QED
      BY <2>1, <3>1 DEF OnePacket
  <2>4. CASE streamSent' # streamSent
    <3>1. All' = All
      BY <2>1 DEF All
    <3>2. StreamTypes'
      <4>1. streamSent' \in last .. Len(stream)
        BY <1>1, <2>2
      <4>2. QED
        BY <2>1, <4>1 DEF StreamInv, StreamTypes
    <3>3. Within(All, last, streamSent')
      <4>1. ASSUME NEW i \in 1 .. Len(All) PROVE All[i].packet \in last + 1 .. streamSent'
        <5>1. All[i].packet \in last + 1 .. streamSent
          BY DEF StreamInv, InOrderOfSending, Within
        <5>2. QED
          BY <1>1, <2>2, <5>1
      <4>2. QED
        BY <4>1 DEF Within
    <3>4. InOrderOfSending'
      BY <2>1, <3>1, <3>3 DEF StreamInv, InOrderOfSending
    <3>5. NothingMissing'
      BY <2>1, <2>2, <2>4 DEF NothingMissing
    <3>6. QED
      BY <2>1, <3>2, <3>4, <3>5 DEF StreamInv, OnePacket
  <2>5. QED
    BY <2>3, <2>4
<1>8. CASE Tcp!Refuse
  <2>1. /\ UNCHANGED <<stream, streamSent, pipe, m_input_data, last, program>>
        /\ breaks < MaxBreaks /\ breaks' = breaks + 1
    BY <1>8 DEF Tcp!Refuse, Tcp!receiver
  <2>2. breaks' \in 0 .. MaxBreaks /\ (breaks' = 0 => breaks = 0)
    BY <1>1, <2>1
  <2>3. StreamInv'
    BY <2>1, <2>2, NothingDecoded
  <2>4. QED
    BY <2>1, <2>3 DEF OnePacket
<1>9. CASE Tcp!SendPacket
  <2>1. last' = last
    BY <1>9 DEF Tcp!SendPacket, Tcp!receiver
  <2>2. QED
    BY <1>9, <2>1, SendKeepsInv DEF OnePacket
<1>10. CASE Tcp!Break
  <2>1. last' = last
    BY <1>10 DEF Tcp!Break, Tcp!receiver
  <2>2. QED
    BY <1>10, <2>1, BreakKeepsInv DEF OnePacket
<1>11. CASE UNCHANGED ediStreamVars
  <2>1. UNCHANGED <<stream, streamSent, pipe, m_input_data, last, breaks, program>>
    BY <1>11 DEF ediStreamVars
  <2>2. StreamInv'
    BY <1>1, <2>1, NothingDecoded
  <2>3. QED
    BY <2>1, <2>2 DEF OnePacket
<1>12. QED
  BY <1>2, <1>3, <1>4, <1>5, <1>6, <1>7, <1>8, <1>9, <1>10, <1>11 DEF Tcp!Next

(* What arrives over TCP is decoded as if nothing else arrived.            *)
LEMMA StreamIsAlone == EdiSpec => Tcp!Init /\ [][Tcp!Next]_ediStreamVars
<1>1. EdiInit => Tcp!Init
  BY DEF EdiInit
<1>2. [EdiNext]_<<part, vars, ediStreamVars>> => [Tcp!Next]_ediStreamVars
  BY DEF EdiNext
<1>3. QED
  BY <1>1, <1>2, PTL DEF EdiSpec

(* Wherever the stream is cut, every packet of the first connection is     *)
(* decoded, once and in order, and over several connections the packets    *)
(* that are decoded remain in order (EdiTransport::rxPacket, push_bytes),  *)
(* whatever is in them, for any lengths not below that of the buffer.      *)
THEOREM NoPacketLeftOut == EdiSpec => NoneLeftOut
<1>1. Tcp!Init => StreamInv
  BY TcpSettings, StreamInitially
<1>2. StreamInv /\ [Tcp!Next]_ediStreamVars
      => StreamInv' /\ [last' # last => IF breaks = 0 THEN last' = last + 1 ELSE last' > last
                       ]_(Tcp!streamVars)
  BY TcpSettings, StreamStep DEF OnePacket, ediStreamVars, Tcp!streamVars
<1>3. QED
  BY <1>1, <1>2, StreamIsAlone, PTL DEF NoneLeftOut, Tcp!NoneLeftOut
=============================================================================
