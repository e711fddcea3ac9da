------------------------------ MODULE PftProofs ------------------------------
(***************************************************************************)
(* Proof of InOrder, for packets of any number of fragments, any numbers   *)
(* of packets, of losses and of repeated fragments, and any modulus of the *)
(* sequence number.                                                        *)
(***************************************************************************)
EXTENDS Pft, FiniteSetTheorems, TLAPS

-----------------------------------------------------------------------------
(* What is assumed of the network and the settings, beside the ASSUME.     *)

(* A fragment is not so late that the builder of its packet is erased, and *)
(* when all builders are cleared because a packet is missing               *)
(* (getNextAFPacket), what is in flight is not older than that packet.     *)
Timely == /\ network.maxReorder < KeepBuilders /\ KeepBuilders < PseqModulus
          /\ KeepBuilders <= network.maxDelay
          /\ KeepBuilders + network.maxReorder <= network.maxDelay + 1

(* The fragments of three packets and all repeated ones do not use up the  *)
(* lifetime of a builder, which counts calls.                              *)
Patient == /\ KeepBuilders + network.maxReorder + 2 <= PseqModulus
           /\ 3 * Fcount + network.maxDuplicates < Fcount * network.maxDelay

(* The decoder is not more than a round of the sequence numbers (65536     *)
(* packets, 26 minutes) behind.                                            *)
WithinRound ==
    \A q \in DOMAIN m_afbuilders : \A i \in Findex :
        LET k == m_afbuilders[q].frags[i] IN k # None => sent - k <= PseqModulus

-----------------------------------------------------------------------------
(* The inductive invariant.                                                *)

Number(k) == k % PseqModulus

(* The builder has fragments of packet k and of no other.                  *)
Holds(builder, k) == /\ \A i \in Findex : builder.frags[i] \in {k, None}
                     /\ \E i \in Findex : builder.frags[i] = k

Has(b, k) == Number(k) \in DOMAIN b /\ Holds(b[Number(k)], k)

(* Packet n is due and s were sent.                                        *)
Built(b, n, s) ==
    \A q \in DOMAIN b : \E k \in Packets :
        Number(k) = q /\ Holds(b[q], k) /\ n - KeepBuilders <= k /\ k < s

DueIn(b, n, s) == n <= s /\ (Has(b, n - 1) \/ Has(b, n)) /\ Built(b, n, s)

InFlight(flight, s) == \A f \in flight : f.packet < s /\ s - 1 - network.maxReorder <= f.packet

Cleared == delivered < sent /\ \A f \in net : delivered < f.packet

(* Undisturbed, whatever was sent and is not in flight is in a builder, if *)
(* it is due or newer.                                                     *)
NoneMissing(b, n, flight, s) ==
    \A k \in Packets, i \in Findex :
        n <= k /\ k < s /\ [packet |-> k, findex |-> i] \notin flight =>
            Has(b, k) /\ b[Number(k)].frags[i] = k

Ready(b, n) == Number(n) \in DOMAIN b /\ Complete(b[Number(n)])

(* A packet that is complete is handed on before a newer one comes.        *)
NothingNewer(b, n) == Ready(b, n) => \A k \in Packets : n < k => ~Has(b, k)

(* The fragments that may come while n is due.                             *)
Around(n) == [packet : {n - 1, n, n + 1}, findex : Findex]
Coming(n, flight, s) == {f \in Around(n) : f \in flight \/ s <= f.packet}

FullLife(b, n) == \A k \in Packets : n < k /\ Has(b, k) =>
                      b[Number(k)].lifeTime = Fcount * network.maxDelay

(* The lifetime lasts for them and for all that are repeated.              *)
TimeLeft(b, n, flight, s, copies) ==
    /\ FullLife(b, n)
    /\ Has(b, n) /\ ~Ready(b, n) =>
          Cardinality(Coming(n, flight, s)) + copies < b[Number(n)].lifeTime

Continues(n) ==
    /\ delivered # None => n = delivered + 1
    /\ NoneMissing(m_afbuilders, n, net, sent)
    /\ NothingNewer(m_afbuilders, n)
    /\ TimeLeft(m_afbuilders, n, net, sent, network.maxDuplicates - duplicates)

NotBegun ==
    /\ delivered = None
    /\ \A k \in Packets, i \in Findex : k < sent => [packet |-> k, findex |-> i] \in net

Due(n) == /\ m_next_pseq = Number(n) /\ delivered < n /\ DueIn(m_afbuilders, n, sent)
          /\ Undisturbed => Continues(n)

Assumed == Timely /\ (Undisturbed => Patient)

PftInv == /\ Assumed /\ InFlight(net, sent)
          /\ IF DOMAIN m_afbuilders = {} THEN Cleared /\ (Undisturbed => NotBegun)
             ELSE \E n \in Nat : Due(n)

-----------------------------------------------------------------------------
(* Arithmetic.                                                             *)

(* Division with remainder, for a divisor of any size.                     *)
LEMMA DivMod ==
    ASSUME NEW x \in Int, NEW m \in Nat, m > 0
    PROVE  /\ x \div m \in Int /\ x % m \in 0 .. m - 1
           /\ x = (x \div m) * m + (x % m)
  OBVIOUS

(* Less than the divisor apart, two numbers have different remainders.     *)
LEMMA Apart ==
    ASSUME NEW m \in Nat, m > 0, NEW x \in Int, NEW y \in Int, x % m = y % m, x - y < m, y - x < m
    PROVE  x = y
<1>x. x \div m \in Int /\ x % m \in 0 .. m - 1 /\ x = (x \div m) * m + (x % m)
  BY DivMod
<1>y. y \div m \in Int /\ y = (y \div m) * m + (y % m)
  BY DivMod
<1> DEFINE p == x \div m
           q == y \div m
           r == x % m
<1>1. p \in Int /\ r \in Int /\ x = p * m + r
  BY <1>x
<1>2. q \in Int /\ y = q * m + r
  BY <1>y
<1> HIDE DEF p, q, r
<1>3. p - q \in Int /\ x - y = (p - q) * m
  BY <1>1, <1>2
<1>4. p - q < 1
  <2>1. ASSUME p - q >= 1 PROVE FALSE
    <3>1. (p - q) * m >= m  BY <1>3, <2>1
    <3>2. QED  BY <1>3, <3>1
  <2>2. QED  BY <1>3, <2>1
<1>5. p - q > -1
  <2>1. ASSUME p - q <= -1 PROVE FALSE
    <3>1. (p - q) * m <= -m  BY <1>3, <2>1
    <3>2. QED  BY <1>3, <3>1
  <2>2. QED  BY <1>3, <2>1
<1>6. p = q
  BY <1>1, <1>2, <1>3, <1>4, <1>5
<1>7. QED
  BY <1>1, <1>2, <1>6

(* Counting on from a remainder.                                           *)
LEMMA CountOn ==
    ASSUME NEW m \in Nat, m > 0, NEW x \in Int, NEW c \in Int
    PROVE  ((x % m) + c) % m = (x + c) % m
<1>x. x \div m \in Int /\ x % m \in 0 .. m - 1 /\ x = (x \div m) * m + (x % m)
  BY DivMod
<1> DEFINE p == x \div m
           r == x % m
<1>1. p \in Int /\ r \in Int /\ r = x % m /\ x = p * m + r
  BY <1>x
<1> HIDE DEF p, r
<1>r. r + c \in Int /\ x + c \in Int
  BY <1>1
<1>y. /\ (r + c) \div m \in Int /\ (r + c) % m \in 0 .. m - 1
      /\ r + c = ((r + c) \div m) * m + ((r + c) % m)
  BY <1>r, DivMod
<1>2. PICK q \in Int, s \in 0 .. m - 1 : s = (r + c) % m /\ r + c = q * m + s
  BY <1>y
<1>z. /\ (x + c) \div m \in Int /\ (x + c) % m \in 0 .. m - 1
      /\ x + c = ((x + c) \div m) * m + ((x + c) % m)
  BY <1>r, DivMod
<1>3. PICK t \in Int, u \in 0 .. m - 1 : u = (x + c) % m /\ x + c = t * m + u
  BY <1>z
<1>4. p + q - t \in Int /\ u - s = (p + q - t) * m
  <2>1. (p + q - t) * m = p * m + q * m - t * m
    BY <1>1, <1>2, <1>3
  <2>2. p * m \in Int /\ q * m \in Int /\ t * m \in Int
    BY <1>1, <1>2, <1>3
  <2>3. QED
    BY <1>1, <1>2, <1>3, <2>1, <2>2
<1>5. p + q - t < 1
  <2>1. ASSUME p + q - t >= 1 PROVE FALSE
    <3>1. (p + q - t) * m >= m  BY <1>4, <2>1
    <3>2. QED  BY <1>2, <1>3, <1>4, <3>1
  <2>2. QED  BY <1>4, <2>1
<1>6. p + q - t > -1
  <2>1. ASSUME p + q - t <= -1 PROVE FALSE
    <3>1. (p + q - t) * m <= -m  BY <1>4, <2>1
    <3>2. QED  BY <1>2, <1>3, <1>4, <3>1
  <2>2. QED  BY <1>4, <2>1
<1>7. p + q - t = 0
  BY <1>4, <1>5, <1>6
<1>8. QED
  BY <1>1, <1>2, <1>3, <1>4, <1>7

(* The sequence numbers.                                                   *)
LEMMA Numbers ==
    /\ \A k \in Int : Number(k) \in Pseqs /\ Number(Number(k) + 1) = Number(k + 1)
    /\ \A k \in Int, c \in Int : Number(Number(k) - c) = Number(k - c)
    /\ \A j, k \in Int : Number(j) = Number(k) /\ j - k < PseqModulus /\ k - j < PseqModulus => j = k
<1>1. PseqModulus \in Nat /\ PseqModulus > 0
  BY PftAssumption
<1>2. ASSUME NEW k \in Int PROVE Number(k) \in Pseqs /\ Number(Number(k) + 1) = Number(k + 1)
  <2>1. k % PseqModulus \in 0 .. PseqModulus - 1
    BY <1>1, DivMod
  <2>2. ((k % PseqModulus) + 1) % PseqModulus = (k + 1) % PseqModulus
    <3>1. 1 \in Int
      OBVIOUS
    <3>2. QED
      BY <1>1, <3>1, CountOn
  <2>3. QED
    BY <2>1, <2>2 DEF Number, Pseqs
<1>3. ASSUME NEW k \in Int, NEW c \in Int PROVE Number(Number(k) - c) = Number(k - c)
  <2>1. -c \in Int /\ k + (-c) = k - c
    OBVIOUS
  <2>2. Number(k) \in Int /\ Number(k) + (-c) = Number(k) - c
    BY <1>2 DEF Pseqs
  <2>3. (Number(k) + (-c)) % PseqModulus = (k + (-c)) % PseqModulus
    BY <1>1, <2>1, CountOn DEF Number
  <2>4. QED
    BY <2>1, <2>2, <2>3 DEF Number
<1>4. ASSUME NEW j \in Int, NEW k \in Int, Number(j) = Number(k), j - k < PseqModulus,
             k - j < PseqModulus
      PROVE  j = k
  BY <1>1, <1>4, Apart DEF Number
<1>5. QED
  BY <1>2, <1>3, <1>4

-----------------------------------------------------------------------------
(* Types.                                                                  *)

AnyBuilder == [frags : [Findex -> Packets \cup {None}], lifeTime : 0 .. Fcount * network.maxDelay]
AnyBuilders(b) == DOMAIN b \subseteq Pseqs /\ \A q \in DOMAIN b : b[q] \in AnyBuilder

LEMMA Constants ==
    /\ PseqModulus \in Nat /\ PseqModulus > 0 /\ Fcount \in Nat /\ Fcount > 0
    /\ KeepBuilders \in Nat /\ MaxPackets \in Nat /\ 0 \in Findex
    /\ None \notin Packets /\ Packets \subseteq Nat /\ \A k \in Packets : k < MaxPackets
  BY PftAssumption DEF Findex, None, Packets

LEMMA PacketNumbers == \A k \in Packets : k \in Nat /\ k \in Int /\ k < MaxPackets /\ k # None
  BY PftAssumption DEF Packets, None

LEMMA NetworkType ==
    ASSUME network \in Networks
    PROVE  /\ network.rxMin \in 1 .. Fcount /\ network.maxLost \in Nat
           /\ network.maxDuplicates \in Nat /\ network.maxReorder \in Nat
           /\ network.maxDelay \in Nat /\ network.maxDelay > 0
           /\ Fcount * network.maxDelay \in Nat /\ Fcount * network.maxDelay > 0
<1>1. network \in Network
  BY PftAssumption
<1>2. /\ network.rxMin \in 1 .. Fcount /\ network.maxLost \in Nat
      /\ network.maxDuplicates \in Nat /\ network.maxReorder \in Nat
      /\ network.maxDelay \in Nat /\ network.maxDelay > 0
  BY <1>1 DEF Network
<1>3. Fcount * network.maxDelay \in Nat /\ Fcount * network.maxDelay > 0
  <2> DEFINE d == network.maxDelay
  <2>1. d \in Nat /\ d > 0
    BY <1>2
  <2> HIDE DEF d
  <2>2. Fcount * d \in Nat /\ Fcount * d > 0
    BY <2>1, Constants
  <2>3. QED
    BY <2>2 DEF d
<1>4. QED
  BY <1>2, <1>3

(* A fragment goes to its place in the builder of its packet.              *)
Into(b, f) == IF Number(f.packet) \in DOMAIN b THEN b[Number(f.packet)] ELSE NewBuilder

LEMMA IntoType ==
    ASSUME network \in Networks, NEW b, AnyBuilders(b), NEW f
    PROVE  Into(b, f) \in AnyBuilder
<1>1. NewBuilder \in AnyBuilder
  <2>1. Fcount * network.maxDelay \in 0 .. Fcount * network.maxDelay
    BY NetworkType
  <2>2. QED
    BY <2>1 DEF NewBuilder, AnyBuilder
<1>2. QED
  BY <1>1 DEF AnyBuilders, Into

LEMMA AddedFragment ==
    ASSUME NEW into \in AnyBuilder, NEW f \in Fragment
    PROVE  /\ AddFragment(into, f) \in AnyBuilder /\ AddFragment(into, f).lifeTime = into.lifeTime
           /\ \A i \in Findex : AddFragment(into, f).frags[i] =
                 IF i = f.findex /\ into.frags[i] = None THEN f.packet ELSE into.frags[i]
<1>1. f.packet \in Packets /\ f.findex \in Findex
  BY DEF Fragment
<1>2. CASE into.frags[f.findex] # None
  BY <1>1, <1>2 DEF AddFragment
<1>3. CASE into.frags[f.findex] = None
  <2>1. AddFragment(into, f) = [into EXCEPT !.frags[f.findex] = f.packet]
    BY <1>3 DEF AddFragment
  <2>2. into.frags \in [Findex -> Packets \cup {None}]
    BY DEF AnyBuilder
  <2>3. /\ AddFragment(into, f).frags = [into.frags EXCEPT ![f.findex] = f.packet]
        /\ AddFragment(into, f).lifeTime = into.lifeTime
    BY <2>1 DEF AnyBuilder
  <2>4. AddFragment(into, f) \in AnyBuilder
    BY <1>1, <2>1, <2>2 DEF AnyBuilder
  <2>5. QED
    BY <1>1, <1>3, <2>2, <2>3, <2>4
<1>4. QED
  BY <1>2, <1>3

LEMMA PushedDomain ==
    ASSUME NEW b, NEW f
    PROVE  /\ DOMAIN Pushed(b, f) = DOMAIN b \cup {Number(f.packet)}
           /\ \A q \in DOMAIN b : q # Number(f.packet) => Pushed(b, f)[q] = b[q]
           /\ Pushed(b, f)[Number(f.packet)] = AddFragment(Into(b, f), f)
<1> DEFINE p == Number(f.packet)
           new == AddFragment(Into(b, f), f)
<1>1. Pushed(b, f) = [q \in DOMAIN b \cup {p} |-> IF q # p THEN b[q] ELSE new]
  BY DEF Pushed, Into, Pseq, Number
<1> HIDE DEF new, p
<1>2. /\ DOMAIN Pushed(b, f) = DOMAIN b \cup {p}
      /\ \A q \in DOMAIN b : q # p => Pushed(b, f)[q] = b[q]
      /\ Pushed(b, f)[p] = new
  BY <1>1
<1>3. QED
  BY <1>2 DEF p, new

LEMMA PushedFragment ==
    ASSUME network \in Networks, NEW b, AnyBuilders(b), NEW f \in Fragment
    PROVE  \A i \in Findex : Pushed(b, f)[Number(f.packet)].frags[i] =
              IF i = f.findex /\ Into(b, f).frags[i] = None THEN f.packet ELSE Into(b, f).frags[i]
<1>1. Into(b, f) \in AnyBuilder
  BY IntoType, Zenon
<1>2. \A i \in Findex : AddFragment(Into(b, f), f).frags[i] =
         IF i = f.findex /\ Into(b, f).frags[i] = None THEN f.packet ELSE Into(b, f).frags[i]
  <2> DEFINE into == Into(b, f)
  <2>1. into \in AnyBuilder
    BY <1>1, Zenon
  <2> HIDE DEF into
  <2>2. \A i \in Findex : AddFragment(into, f).frags[i] =
           IF i = f.findex /\ into.frags[i] = None THEN f.packet ELSE into.frags[i]
    BY <2>1, AddedFragment
  <2>3. QED
    BY <2>2 DEF into
<1>3. Pushed(b, f)[Number(f.packet)] = AddFragment(Into(b, f), f)
  BY PushedDomain, Zenon
<1>4. QED
  BY <1>2, <1>3, Zenon

LEMMA PushedBuilders ==
    ASSUME network \in Networks, NEW b, AnyBuilders(b), NEW f \in Fragment
    PROVE  /\ AnyBuilders(Pushed(b, f)) /\ Number(f.packet) \in Pseqs
           /\ Pushed(b, f)[Number(f.packet)].lifeTime = Into(b, f).lifeTime
<1> DEFINE p == Number(f.packet)
           into == Into(b, f)
           new == AddFragment(into, f)
<1>1. p \in Pseqs
  <2>1. f.packet \in Packets
    BY DEF Fragment
  <2>2. f.packet \in Int
    BY <2>1, PacketNumbers
  <2>3. QED
    BY <2>2, Numbers
<1>2. into \in AnyBuilder
  BY IntoType, Zenon
<1>3. /\ DOMAIN Pushed(b, f) = DOMAIN b \cup {p}
      /\ \A q \in DOMAIN b : q # p => Pushed(b, f)[q] = b[q]
      /\ Pushed(b, f)[p] = new
  BY PushedDomain, Zenon
<1> HIDE DEF into
<1>4. new \in AnyBuilder /\ new.lifeTime = into.lifeTime
  BY <1>2, AddedFragment
<1> HIDE DEF new, p
<1>5. AnyBuilders(Pushed(b, f))
  BY <1>1, <1>3, <1>4 DEF AnyBuilders
<1>6. Pushed(b, f)[p].lifeTime = into.lifeTime
  BY <1>3, <1>4
<1>7. QED
  BY <1>1, <1>5, <1>6 DEF p, into

(* What getNextAFPacket() does to the builders: they are cleared, a        *)
(* lifetime is counted, or an old one is erased.                           *)
Aged(b, b2, next, life) ==
    /\ DOMAIN b2 = DOMAIN b /\ \A q \in DOMAIN b : q # next => b2[q] = b[q]
    /\ b2[next].frags = b[next].frags /\ b2[next].lifeTime = life

LEMMA AgedBuilders ==
    ASSUME network \in Networks, NEW b, AnyBuilders(b), NEW next \in DOMAIN b,
           NEW life \in 0 .. Fcount * network.maxDelay
    PROVE  LET b2 == [b EXCEPT ![next].lifeTime = life]
           IN  AnyBuilders(b2) /\ Aged(b, b2, next, life)
<1> DEFINE b2 == [b EXCEPT ![next].lifeTime = life]
<1>1. b[next] \in AnyBuilder
  BY DEF AnyBuilders
<1>2. /\ [b[next] EXCEPT !.lifeTime = life] \in AnyBuilder
      /\ [b[next] EXCEPT !.lifeTime = life].frags = b[next].frags
      /\ [b[next] EXCEPT !.lifeTime = life].lifeTime = life
  BY <1>1 DEF AnyBuilder
<1>3. /\ DOMAIN b2 = DOMAIN b /\ \A q \in DOMAIN b : q # next => b2[q] = b[q]
      /\ b2[next] = [b[next] EXCEPT !.lifeTime = life]
  OBVIOUS
<1> HIDE DEF b2
<1>4. AnyBuilders(b2) /\ Aged(b, b2, next, life)
  BY <1>2, <1>3 DEF AnyBuilders, Aged
<1>5. QED
  BY <1>4 DEF b2

LEMMA KeptBuilders ==
    ASSUME NEW b, NEW n \in Int
    PROVE  /\ DOMAIN Kept(b, Number(n)) = DOMAIN b \ {Number(n - KeepBuilders)}
           /\ \A q \in DOMAIN Kept(b, Number(n)) : Kept(b, Number(n))[q] = b[q]
           /\ AnyBuilders(b) => AnyBuilders(Kept(b, Number(n)))
<1>1. (Number(n) - KeepBuilders) % PseqModulus = Number(n - KeepBuilders)
  <2>1. Number(Number(n) - KeepBuilders) = Number(n - KeepBuilders)
    <3>1. KeepBuilders \in Int
      BY Constants
    <3>2. QED
      BY <3>1, Numbers
  <2>2. QED
    BY <2>1 DEF Number
<1>2. Kept(b, Number(n)) = [q \in DOMAIN b \ {Number(n - KeepBuilders)} |-> b[q]]
  BY <1>1 DEF Kept
<1>3. QED
  BY <1>2 DEF AnyBuilders

(* What is put together from a builder.                                    *)
LEMMA AssembledType ==
    ASSUME NEW builder \in AnyBuilder
    PROVE  Assembled(builder) \in Packets \cup {None}
<1> DEFINE from == {builder.frags[i] : i \in Received(builder)}
<1>1. from \subseteq Packets
  BY DEF Received, AnyBuilder
<1> HIDE DEF from
<1>2. CASE Cardinality(from) = 1
  <2>1. from # {}
    <3>1. CASE from = {}
      <4>1. Cardinality(from) = 0
        BY <3>1, FS_EmptySet
      <4>2. QED
        BY <1>2, <4>1
    <3>2. QED
      BY <3>1
  <2>2. Assembled(builder) = CHOOSE k \in from : TRUE
    BY <1>2 DEF Assembled, from
  <2>3. (CHOOSE k \in from : TRUE) \in from
    BY <2>1
  <2>4. QED
    BY <1>1, <2>2, <2>3
<1>3. CASE Cardinality(from) # 1
  BY <1>3 DEF Assembled, from
<1>4. QED
  BY <1>2, <1>3

LEMMA AssembledPacket ==
    ASSUME NEW builder, NEW k \in Packets, Holds(builder, k)
    PROVE  Assembled(builder) = k
<1> DEFINE from == {builder.frags[i] : i \in Received(builder)}
<1>1. None \notin Packets
  BY Constants
<1>2. from = {k}
  BY <1>1 DEF Received, Holds
<1>3. Cardinality(from) = 1
  BY <1>2, FS_Singleton
<1>4. (CHOOSE j \in from : TRUE) = k
  BY <1>2
<1>5. QED
  BY <1>3, <1>4 DEF Assembled

-----------------------------------------------------------------------------
(* push_packet() by its outcomes: the packet that is due, n, is missing,   *)
(* handed on, waited for or given up.                                      *)
ToldNext(f) == IF DOMAIN m_afbuilders = {} THEN Pseq(f) ELSE m_next_pseq

Missing(b, n) ==
    /\ Number(n) \notin DOMAIN b
    /\ m_afbuilders' = IF Cardinality(DOMAIN b) > network.maxDelay THEN NoBuilders ELSE b
    /\ m_next_pseq' = Number(n) /\ handed' = None /\ delivered' = delivered

Passed(n) == /\ m_next_pseq' = Number(n + 1)
             /\ delivered' = IF handed' = None THEN delivered ELSE handed'

Handed(b, n) ==
    /\ Ready(b, n) /\ m_afbuilders' = Kept(b, Number(n))
    /\ handed' = Assembled(b[Number(n)]) /\ Passed(n)

Waits(b, n) ==
    /\ Number(n) \in DOMAIN b /\ ~Ready(b, n) /\ b[Number(n)].lifeTime > 1
    /\ AnyBuilders(m_afbuilders') /\ Aged(b, m_afbuilders', Number(n), b[Number(n)].lifeTime - 1)
    /\ m_next_pseq' = Number(n) /\ handed' = None /\ delivered' = delivered

GivenUp(b, n) ==
    /\ Number(n) \in DOMAIN b /\ ~Ready(b, n) /\ b[Number(n)].lifeTime <= 1
    /\ \E b2 : /\ AnyBuilders(b2) /\ Aged(b, b2, Number(n), 0)
               /\ m_afbuilders' = Kept(b2, Number(n))
    /\ handed' \in {None, Assembled(b[Number(n)])} /\ Passed(n)

Outcome(b, n) == Missing(b, n) \/ Handed(b, n) \/ Waits(b, n) \/ GivenUp(b, n)

LEMMA Outcomes ==
    ASSUME TypeOK, NEW f \in net, PushPacket(f), NEW n \in Nat, ToldNext(f) = Number(n)
    PROVE  Outcome(Pushed(m_afbuilders, f), n)
<1> DEFINE b == Pushed(m_afbuilders, f)
<1>1. network \in Networks /\ f \in Fragment /\ AnyBuilders(m_afbuilders)
  BY DEF TypeOK, AnyBuilders, AnyBuilder, Builder
<1>2. AnyBuilders(b)
  BY <1>1, PushedBuilders
<1>3. NextMissing(b, Number(n)) \/ NextComplete(b, Number(n)) \/ NextIncomplete(b, Number(n))
  BY DEF PushPacket, ToldNext
<1>4. (Number(n) + 1) % PseqModulus = Number(n + 1)
  <2>1. Number(Number(n) + 1) = Number(n + 1)
    BY Numbers
  <2>2. QED
    BY <2>1 DEF Number
<1> SUFFICES Outcome(b, n)
  OBVIOUS
<1> HIDE DEF b
<1>5. CASE NextMissing(b, Number(n))
  BY <1>5 DEF NextMissing, HandOn, Outcome, Missing
<1>6. CASE NextComplete(b, Number(n))
  BY <1>4, <1>6 DEF NextComplete, Advance, HandOn, Outcome, Handed, Passed, Ready
<1>7. CASE NextIncomplete(b, Number(n))
  <2> DEFINE was == b[Number(n)].lifeTime
             life == IF was > 0 THEN was - 1 ELSE 0
             aged == [b EXCEPT ![Number(n)].lifeTime = life]
  <2>1. Number(n) \in DOMAIN b /\ ~Ready(b, n)
    BY <1>7 DEF NextIncomplete, Ready
  <2>2. was \in 0 .. Fcount * network.maxDelay
    BY <1>2, <2>1 DEF AnyBuilders, AnyBuilder
  <2>3. life \in 0 .. Fcount * network.maxDelay
    <3> DEFINE m == Fcount * network.maxDelay
    <3>1. m \in Nat /\ was \in 0 .. m
      BY <1>1, <2>2, NetworkType
    <3> HIDE DEF m, was
    <3>2. life \in 0 .. m
      BY <3>1
    <3>3. QED
      BY <3>2 DEF m
  <2>4. AnyBuilders(aged) /\ Aged(b, aged, Number(n), life)
    <3> HIDE DEF life
    <3>1. QED
      BY <1>1, <1>2, <2>1, <2>3, AgedBuilders
  <2>5. was \in Nat
    BY <1>1, <2>2, NetworkType
  <2>6. \/ life > 0 /\ m_afbuilders' = aged /\ m_next_pseq' = Number(n) /\ HandOn(None)
        \/ /\ ~(life > 0) /\ Advance(aged, Number(n))
           /\ \/ MaybeComplete(b[Number(n)]) /\ HandOn(Assembled(b[Number(n)]))
              \/ HandOn(None)
    BY <1>7 DEF NextIncomplete
  <2> HIDE DEF aged
  <2>7. CASE life > 0 /\ m_afbuilders' = aged /\ m_next_pseq' = Number(n) /\ HandOn(None)
    <3>1. was > 1 /\ life = was - 1
      BY <2>5, <2>7
    <3>2. Waits(b, n)
      BY <2>1, <2>4, <2>7, <3>1 DEF Waits, HandOn
    <3>3. QED
      BY <3>2 DEF Outcome
  <2>8. CASE /\ ~(life > 0) /\ Advance(aged, Number(n))
             /\ \/ MaybeComplete(b[Number(n)]) /\ HandOn(Assembled(b[Number(n)]))
                \/ HandOn(None)
    <3>1. was <= 1 /\ life = 0
      BY <2>5, <2>8
    <3>2. m_afbuilders' = Kept(aged, Number(n)) /\ m_next_pseq' = Number(n + 1)
      BY <1>4, <2>8 DEF Advance
    <3>3. /\ handed' \in {None, Assembled(b[Number(n)])}
          /\ delivered' = IF handed' = None THEN delivered ELSE handed'
      BY <2>8 DEF HandOn
    <3>4. GivenUp(b, n)
      BY <2>1, <2>4, <3>1, <3>2, <3>3 DEF GivenUp, Passed
    <3>5. QED
      BY <3>4 DEF Outcome
  <2>9. QED
    BY <2>6, <2>7, <2>8
<1>8. QED
  BY <1>3, <1>5, <1>6, <1>7

(* Whatever comes, the numbers are in their range.                         *)
LEMMA PushKeepsTypes ==
    ASSUME TypeOK, NEW f \in net, PushPacket(f), network' = network
    PROVE  /\ AnyBuilders(m_afbuilders') /\ m_next_pseq' \in Pseqs
           /\ delivered' \in Packets \cup {None} /\ handed' \in Packets \cup {None}
<1> DEFINE b == Pushed(m_afbuilders, f)
<1>1. /\ network \in Networks /\ f \in Fragment /\ AnyBuilders(m_afbuilders)
      /\ m_next_pseq \in Pseqs /\ delivered \in Packets \cup {None}
  BY DEF TypeOK, AnyBuilders, AnyBuilder, Builder
<1>2. AnyBuilders(b)
  BY <1>1, PushedBuilders
<1>3. \A k \in Pseqs : k \in Nat /\ Number(k) = k
  <2>1. ASSUME NEW k \in Pseqs PROVE k \in Nat /\ Number(k) = k
    <3>1. /\ k \in Int /\ k >= 0 /\ k < PseqModulus /\ PseqModulus \in Nat
      BY Constants DEF Pseqs
    <3>2. Number(k) \in Pseqs /\ Number(Number(k) - 0) = Number(k - 0)
      BY <3>1, Numbers
    <3>3. Number(k) \in Int /\ Number(k) >= 0 /\ Number(k) < PseqModulus
      BY <3>1, <3>2 DEF Pseqs
    <3>4. Number(k) - 0 = Number(k) /\ k - 0 = k
      BY <3>1, <3>3
    <3>5. Number(Number(k)) = Number(k)
      BY <3>2, <3>4
    <3>6. Number(k) - k < PseqModulus /\ k - Number(k) < PseqModulus
      BY <3>1, <3>3
    <3>7. Number(k) = k
      BY <3>1, <3>3, <3>5, <3>6, Numbers
    <3>8. QED
      BY <3>1, <3>7
  <2>2. QED
    BY <2>1
<1>4. Pseq(f) \in Pseqs
  <2>1. f.packet \in Packets
    BY <1>1 DEF Fragment
  <2>2. f.packet \in Int
    BY <2>1, PacketNumbers
  <2>3. QED
    BY <2>2, Numbers DEF Pseq, Number
<1>5. PICK n \in Nat : ToldNext(f) = Number(n)
  BY <1>1, <1>3, <1>4 DEF ToldNext
<1>6. Outcome(b, n)
  BY <1>5, Outcomes
<1>7. n \in Int /\ n + 1 \in Int /\ Number(n) \in Pseqs /\ Number(n + 1) \in Pseqs
  BY Numbers
<1> HIDE DEF b
<1>8. Number(n) \in DOMAIN b => Assembled(b[Number(n)]) \in Packets \cup {None}
  BY <1>2, AssembledType DEF AnyBuilders
<1>9. AnyBuilders(NoBuilders)
  BY DEF AnyBuilders, NoBuilders
<1>10. CASE Missing(b, n)
  BY <1>1, <1>2, <1>7, <1>9, <1>10 DEF Missing
<1>11. CASE Handed(b, n)
  BY <1>1, <1>2, <1>7, <1>8, <1>11, KeptBuilders DEF Handed, Passed, Ready
<1>12. CASE Waits(b, n)
  BY <1>1, <1>7, <1>12 DEF Waits
<1>13. CASE GivenUp(b, n)
  BY <1>1, <1>7, <1>8, <1>13, KeptBuilders DEF GivenUp, Passed
<1>14. QED
  BY <1>6, <1>10, <1>11, <1>12, <1>13 DEF Outcome

LEMMA TypeInitially == Init => TypeOK
<1>1. ASSUME Init PROVE TypeOK
  <2>1. network.maxLost \in Nat /\ network.maxDuplicates \in Nat
    BY <1>1, NetworkType DEF Init
  <2>2. DOMAIN m_afbuilders = {}
    BY <1>1 DEF Init, NoBuilders
  <2>3. 0 \in Pseqs /\ 0 \in 0 .. MaxPackets /\ 0 \in 0 .. network.maxLost
        /\ 0 \in 0 .. network.maxDuplicates
    BY <2>1, Constants DEF Pseqs
  <2>4. QED
    BY <1>1, <2>2, <2>3 DEF Init, TypeOK
<1>2. QED
  BY <1>1

LEMMA TypeStep == TypeOK /\ [Next]_vars => TypeOK'
<1> SUFFICES ASSUME TypeOK, [Next]_vars PROVE TypeOK'
  OBVIOUS
<1>1. /\ network \in Networks /\ AnyBuilders(m_afbuilders)
      /\ m_next_pseq \in Pseqs /\ delivered \in Packets \cup {None}
      /\ handed \in Packets \cup {None} /\ sent \in 0 .. MaxPackets
      /\ net \subseteq Fragment /\ lost \in 0 .. network.maxLost
      /\ duplicates \in 0 .. network.maxDuplicates
  BY DEF TypeOK, AnyBuilders, AnyBuilder, Builder
<1>2. network.maxLost \in Nat /\ network.maxDuplicates \in Nat /\ MaxPackets \in Nat
  BY <1>1, NetworkType, Constants
<1>3. SUFFICES /\ network' \in Networks /\ network' = network /\ AnyBuilders(m_afbuilders')
               /\ m_next_pseq' \in Pseqs /\ delivered' \in Packets \cup {None}
               /\ handed' \in Packets \cup {None} /\ sent' \in 0 .. MaxPackets
               /\ net' \subseteq Fragment /\ lost' \in 0 .. network.maxLost
               /\ duplicates' \in 0 .. network.maxDuplicates
  BY DEF TypeOK, AnyBuilders, AnyBuilder, Builder
<1>4. CASE SendPacket
  <2>1. sent \in Packets /\ sent' \in 0 .. MaxPackets
    BY <1>1, <1>2, <1>4 DEF SendPacket, Packets
  <2>2. [packet : {sent}, findex : Findex] \subseteq Fragment
    BY <2>1 DEF Fragment
  <2>3. QED
    BY <1>1, <1>4, <2>1, <2>2 DEF SendPacket, NoCall
<1>5. CASE Receive
  BY <1>1, <1>5, PushKeepsTypes DEF Receive
<1>6. CASE ReceiveCopy
  <2>1. duplicates' \in 0 .. network.maxDuplicates
    BY <1>1, <1>2, <1>6 DEF ReceiveCopy
  <2>2. QED
    BY <1>1, <1>6, <2>1, PushKeepsTypes DEF ReceiveCopy
<1>7. CASE Lose
  <2>1. lost' \in 0 .. network.maxLost
    BY <1>1, <1>2, <1>7 DEF Lose
  <2>2. QED
    BY <1>1, <1>7, <2>1 DEF Lose, NoCall
<1>8. CASE Done
  BY <1>1, <1>8 DEF Done, vars
<1>9. CASE UNCHANGED vars
  BY <1>1, <1>9 DEF vars
<1>10. QED
  BY <1>4, <1>5, <1>6, <1>7, <1>8, <1>9 DEF Next

(* The types of the decoder and of the network, whatever is lost, repeated *)
(* or late (lib/edi/PFT.cpp).                                              *)
THEOREM PftTypeCorrect == Spec => []TypeOK
<1>1. QED
  BY TypeInitially, TypeStep, PTL DEF Spec

-----------------------------------------------------------------------------
(* Every builder has the fragments of one packet, which its number tells.  *)
InRound(b, s) == \A k \in Packets : Has(b, k) => s - k <= PseqModulus

LEMMA TimelyFacts ==
    ASSUME network \in Networks, Timely
    PROVE  /\ network.maxReorder \in Nat /\ network.maxDelay \in Nat
           /\ KeepBuilders \in Nat /\ PseqModulus \in Nat
           /\ network.maxReorder < KeepBuilders /\ KeepBuilders < PseqModulus
           /\ KeepBuilders <= network.maxDelay
           /\ KeepBuilders + network.maxReorder <= network.maxDelay + 1
  BY NetworkType, Constants DEF Timely

LEMMA HasBuilt ==
    ASSUME NEW b, NEW n, NEW s, Built(b, n, s), NEW k \in Int, Has(b, k)
    PROVE  k \in Packets /\ n - KeepBuilders <= k /\ k < s
<1>1. PICK j \in Packets : Holds(b[Number(k)], j) /\ n - KeepBuilders <= j /\ j < s
  BY DEF Built, Has
<1>2. PICK i \in Findex : b[Number(k)].frags[i] = j
  BY <1>1 DEF Holds
<1>3. j \in {k, None} /\ j # None
  BY <1>1, <1>2, PacketNumbers DEF Has, Holds
<1>4. QED
  BY <1>1, <1>3

(* What is held is one packet.                                             *)
LEMMA HoldsOne ==
    ASSUME NEW builder, NEW j \in Packets, NEW k \in Packets, Holds(builder, j), Holds(builder, k)
    PROVE  j = k
<1>1. PICK i \in Findex : builder.frags[i] = j
  BY DEF Holds
<1>2. QED
  BY <1>1, PacketNumbers DEF Holds

LEMMA HoldsPushed ==
    ASSUME network \in Networks, NEW b, AnyBuilders(b), NEW f \in Fragment,
           Number(f.packet) \in DOMAIN b => Holds(b[Number(f.packet)], f.packet)
    PROVE  Has(Pushed(b, f), f.packet)
<1> DEFINE p == Number(f.packet)
           into == Into(b, f)
<1>1. f.packet \in Packets /\ f.findex \in Findex
  BY DEF Fragment
<1>2. \A i \in Findex : into.frags[i] \in {f.packet, None}
  BY DEF Holds, NewBuilder, Into
<1>3. /\ p \in DOMAIN Pushed(b, f)
      /\ \A i \in Findex : Pushed(b, f)[p].frags[i] =
            IF i = f.findex /\ into.frags[i] = None THEN f.packet ELSE into.frags[i]
  <2>1. p \in DOMAIN Pushed(b, f)
    <3>1. DOMAIN Pushed(b, f) = DOMAIN b \cup {p}
      BY PushedDomain, Zenon
    <3>2. QED
      BY <3>1
  <2>2. \A i \in Findex : Pushed(b, f)[p].frags[i] =
            IF i = f.findex /\ into.frags[i] = None THEN f.packet ELSE into.frags[i]
    BY PushedFragment, Zenon
  <2>3. QED
    BY <2>1, <2>2, Zenon
<1> HIDE DEF into
<1>4. \A i \in Findex : Pushed(b, f)[p].frags[i] \in {f.packet, None}
  BY <1>2, <1>3
<1>5. Pushed(b, f)[p].frags[f.findex] = f.packet
  BY <1>1, <1>2, <1>3, PacketNumbers
<1>6. QED
  BY <1>1, <1>3, <1>4, <1>5 DEF Has, Holds

(* The first fragment of all.                                              *)
LEMMA PushFirst ==
    ASSUME network \in Networks, NEW b, AnyBuilders(b), DOMAIN b = {}, NEW f \in Fragment,
           NEW s \in Nat, f.packet < s
    PROVE  /\ DueIn(Pushed(b, f), f.packet, s) /\ Has(Pushed(b, f), f.packet)
           /\ \A k \in Packets : Has(Pushed(b, f), k) => k = f.packet
           /\ DOMAIN Pushed(b, f) = {Number(f.packet)}
<1>1. f.packet \in Packets /\ f.packet \in Int
  BY PacketNumbers DEF Fragment
<1>2. Has(Pushed(b, f), f.packet)
  BY HoldsPushed
<1>3. DOMAIN Pushed(b, f) = {Number(f.packet)}
  <2>1. DOMAIN Pushed(b, f) = DOMAIN b \cup {Number(f.packet)}
    BY PushedDomain, Zenon
  <2>2. QED
    BY <2>1
<1>4. Built(Pushed(b, f), f.packet, s)
  <2>1. f.packet - KeepBuilders <= f.packet
    BY <1>1, Constants
  <2>2. QED
    BY <1>1, <1>2, <1>3, <2>1 DEF Built, Has
<1>5. ASSUME NEW k \in Packets, Has(Pushed(b, f), k) PROVE k = f.packet
  BY <1>1, <1>2, <1>3, <1>5, HoldsOne DEF Has
<1>6. QED
  BY <1>1, <1>2, <1>3, <1>4, <1>5 DEF DueIn

(* A later one finds the builder of its own packet, or none.               *)
LEMMA PushLater ==
    ASSUME network \in Networks, Timely, NEW b, AnyBuilders(b), NEW n \in Nat, NEW s \in Nat,
           DueIn(b, n, s), InRound(b, s), NEW f \in Fragment,
           f.packet < s, s - 1 - network.maxReorder <= f.packet
    PROVE  /\ Number(f.packet) \in DOMAIN b => Holds(b[Number(f.packet)], f.packet)
           /\ DueIn(Pushed(b, f), n, s) /\ InRound(Pushed(b, f), s)
           /\ \A k \in Packets : Has(Pushed(b, f), k) <=> Has(b, k) \/ k = f.packet
<1> DEFINE p == Number(f.packet)
           b2 == Pushed(b, f)
<1>1. f.packet \in Packets /\ f.packet \in Int /\ f.packet \in Nat
  BY PacketNumbers DEF Fragment
<1>2. /\ network.maxReorder \in Nat /\ KeepBuilders \in Nat /\ PseqModulus \in Nat
      /\ network.maxReorder < KeepBuilders /\ KeepBuilders < PseqModulus
  BY TimelyFacts
<1>3. n <= s /\ (Has(b, n - 1) \/ Has(b, n)) /\ Built(b, n, s)
  BY DEF DueIn
<1>4. ASSUME p \in DOMAIN b PROVE Holds(b[p], f.packet)
  <2>1. PICK k \in Packets : Number(k) = p /\ Holds(b[p], k) /\ n - KeepBuilders <= k /\ k < s
    BY <1>3, <1>4 DEF Built
  <2>2. s - k <= PseqModulus
    BY <1>4, <2>1 DEF InRound, Has
  <2>3. k \in Int /\ f.packet - k < PseqModulus /\ k - f.packet < PseqModulus
    BY <1>1, <1>2, <2>1, <2>2, PacketNumbers
  <2>4. k = f.packet
    BY <1>1, <2>1, <2>3, Numbers
  <2>5. QED
    BY <2>1, <2>4
<1>5. Has(b2, f.packet)
  BY <1>4, HoldsPushed
<1>6. DOMAIN b2 = DOMAIN b \cup {p} /\ \A q \in DOMAIN b : q # p => b2[q] = b[q]
  BY PushedDomain, Zenon
<1> HIDE DEF b2
<1>7. n - KeepBuilders <= f.packet
  BY <1>1, <1>2, <1>3
<1>8. Built(b2, n, s)
  <2>1. ASSUME NEW q \in DOMAIN b2
        PROVE  \E k \in Packets :
                  Number(k) = q /\ Holds(b2[q], k) /\ n - KeepBuilders <= k /\ k < s
    <3>1. CASE q = p
      BY <1>1, <1>5, <1>7, <3>1 DEF Has
    <3>2. CASE q # p
      <4>1. q \in DOMAIN b /\ b2[q] = b[q]
        BY <1>6, <3>2
      <4>2. QED
        BY <1>3, <4>1 DEF Built
    <3>3. QED
      BY <3>1, <3>2
  <2>2. QED
    BY <2>1 DEF Built
<1>9. ASSUME NEW k \in Packets PROVE Has(b2, k) <=> Has(b, k) \/ k = f.packet
  <2>1. CASE Number(k) = p
    <3>1. Has(b2, k) => k = f.packet
      BY <1>1, <1>5, <2>1, HoldsOne DEF Has
    <3>2. Has(b, k) => k = f.packet
      BY <1>1, <1>4, <2>1, HoldsOne DEF Has
    <3>3. QED
      BY <1>5, <3>1, <3>2
  <2>2. CASE Number(k) # p
    <3>1. k # f.packet
      BY <2>2
    <3>2. Number(k) \in DOMAIN b2 <=> Number(k) \in DOMAIN b
      BY <1>6, <2>2
    <3>3. Number(k) \in DOMAIN b => b2[Number(k)] = b[Number(k)]
      BY <1>6, <2>2
    <3>4. QED
      BY <3>1, <3>2, <3>3 DEF Has
  <2>3. QED
    BY <2>1, <2>2
<1>10. Has(b2, n - 1) \/ Has(b2, n)
  <2>1. n \in Int /\ n - 1 \in Int
    OBVIOUS
  <2>2. (Has(b, n - 1) /\ n - 1 \in Packets) \/ (Has(b, n) /\ n \in Packets)
    BY <1>3, <2>1, HasBuilt
  <2>3. QED
    BY <1>9, <2>2
<1>11. InRound(b2, s)
  <2>1. s - f.packet <= PseqModulus
    BY <1>1, <1>2
  <2>2. QED
    BY <1>9, <2>1 DEF InRound
<1>12. QED
  BY <1>3, <1>4, <1>8, <1>9, <1>10, <1>11 DEF DueIn, b2

(* What is found under the number that is due is the packet that is due.   *)
LEMMA DueIsThere ==
    ASSUME network \in Networks, Timely, NEW b, NEW n \in Nat, NEW s \in Nat,
           DueIn(b, n, s), InRound(b, s), Number(n) \in DOMAIN b
    PROVE  Has(b, n) /\ n \in Packets /\ n < s
<1>1. KeepBuilders \in Nat /\ PseqModulus \in Nat /\ KeepBuilders < PseqModulus
  BY TimelyFacts
<1>2. n <= s /\ (Has(b, n - 1) \/ Has(b, n)) /\ Built(b, n, s)
  BY DEF DueIn
<1>3. n \in Int /\ n - 1 \in Int
  OBVIOUS
<1>4. CASE Has(b, n)
  BY <1>2, <1>3, <1>4, HasBuilt
<1>5. CASE Has(b, n - 1)
  <2>1. n - 1 \in Packets
    BY <1>2, <1>3, <1>5, HasBuilt
  <2>2. s - (n - 1) <= PseqModulus
    BY <1>5, <2>1 DEF InRound
  <2>3. PICK k \in Packets :
           Number(k) = Number(n) /\ Holds(b[Number(n)], k) /\ n - KeepBuilders <= k /\ k < s
    BY <1>2 DEF Built
  <2>4. k \in Int /\ k - n < PseqModulus /\ n - k < PseqModulus
    BY <1>1, <2>2, <2>3, PacketNumbers
  <2>5. k = n
    BY <1>3, <2>3, <2>4, Numbers
  <2>6. QED
    BY <2>3, <2>5 DEF Has
<1>6. QED
  BY <1>2, <1>4, <1>5

(* The builders of the packets before n that are kept, and newer ones.     *)
LEMMA HowManyBuilders ==
    ASSUME network \in Networks, Timely, NEW b, NEW n \in Nat, NEW s \in Nat,
           Built(b, n, s), Number(n) \notin DOMAIN b, n <= s
    PROVE  /\ Cardinality(DOMAIN b) \in Nat
           /\ Cardinality(DOMAIN b) <= KeepBuilders + (IF n < s THEN s - 1 - n ELSE 0)
<1> DEFINE all == (n - KeepBuilders) .. (s - 1)
           others == all \ {n}
           image == {Number(k) : k \in others}
           num == [k \in others |-> Number(k)]
<1>1. KeepBuilders \in Nat /\ KeepBuilders > 0
  BY TimelyFacts
<1>2. n - KeepBuilders \in Int /\ s - 1 \in Int
  BY <1>1
<1>3. /\ IsFiniteSet(all)
      /\ Cardinality(all) = IF n - KeepBuilders > s - 1 THEN 0 ELSE s - 1 - (n - KeepBuilders) + 1
  BY <1>2, FS_Interval
<1>4. Cardinality(all) = s - n + KeepBuilders
  BY <1>1, <1>2, <1>3
<1>5. n < s <=> n \in all
  BY <1>1, <1>2
<1>6. /\ IsFiniteSet(others)
      /\ Cardinality(others) = IF n \in all THEN Cardinality(all) - 1 ELSE Cardinality(all)
  BY <1>3, FS_RemoveElement
<1>7. Cardinality(others) <= KeepBuilders + (IF n < s THEN s - 1 - n ELSE 0)
  <2>1. CASE n < s
    BY <1>1, <1>4, <1>5, <1>6, <2>1
  <2>2. CASE ~(n < s)
    BY <1>1, <1>4, <1>5, <1>6, <2>2
  <2>3. QED
    BY <2>1, <2>2
<1> HIDE DEF others
<1>8. num \in Surjection(others, image)
  BY DEF Surjection
<1>9. IsFiniteSet(image) /\ Cardinality(image) <= Cardinality(others)
  <2> HIDE DEF num, image
  <2>1. QED
    BY <1>6, <1>8, FS_Surjection
<1>10. DOMAIN b \subseteq image
  <2>1. ASSUME NEW q \in DOMAIN b PROVE q \in image
    <3>1. PICK k \in Packets : Number(k) = q /\ n - KeepBuilders <= k /\ k < s
      BY DEF Built
    <3>2. k # n /\ k \in Int
      BY <3>1, PacketNumbers
    <3>3. k \in others
      BY <1>1, <3>1, <3>2 DEF others
    <3>4. QED
      BY <3>1, <3>3
  <2>2. QED
    BY <2>1
<1> HIDE DEF image
<1>11. IsFiniteSet(DOMAIN b) /\ Cardinality(DOMAIN b) <= Cardinality(image)
  BY <1>9, <1>10, FS_Subset
<1>12. /\ Cardinality(DOMAIN b) \in Nat /\ Cardinality(image) \in Nat
       /\ Cardinality(others) \in Nat
  BY <1>6, <1>9, <1>11, FS_CardinalityType
<1>13. QED
  BY <1>1, <1>7, <1>9, <1>11, <1>12

(* When so many are there that they are cleared, nothing is in flight that *)
(* is older than the packet that is missing.                               *)
LEMMA ClearedInTime ==
    ASSUME network \in Networks, Timely, NEW b, NEW n \in Nat, NEW s \in Nat,
           Built(b, n, s), Number(n) \notin DOMAIN b, n <= s,
           Cardinality(DOMAIN b) > network.maxDelay, NEW k \in Int, s - 1 - network.maxReorder <= k
    PROVE  n < s /\ n <= k
<1> DEFINE c == Cardinality(DOMAIN b)
<1>1. c \in Nat /\ c <= KeepBuilders + (IF n < s THEN s - 1 - n ELSE 0)
  BY HowManyBuilders
<1>2. /\ network.maxReorder \in Nat /\ network.maxDelay \in Nat /\ KeepBuilders \in Nat
      /\ KeepBuilders <= network.maxDelay
      /\ KeepBuilders + network.maxReorder <= network.maxDelay + 1
  BY TimelyFacts
<1> HIDE DEF c
<1>3. c > network.maxDelay
  BY DEF c
<1>4. n < s
  BY <1>1, <1>2, <1>3
<1>5. QED
  BY <1>1, <1>2, <1>3, <1>4

(* After packet n its builder stays, and one of a packet that is           *)
(* KeepBuilders older is erased.                                           *)
LEMMA NextDue ==
    ASSUME network \in Networks, Timely, NEW b, NEW n \in Nat, NEW s \in Nat,
           DueIn(b, n, s), Has(b, n), n < s, NEW b2,
           DOMAIN b2 = DOMAIN b \ {Number(n - KeepBuilders)},
           \A q \in DOMAIN b2 : b2[q].frags = b[q].frags
    PROVE  DueIn(b2, n + 1, s)
<1>1. KeepBuilders \in Nat /\ PseqModulus \in Nat /\ KeepBuilders < PseqModulus /\ KeepBuilders > 0
  BY TimelyFacts
<1>2. Number(n - KeepBuilders) # Number(n)
  <2>1. n \in Int /\ n - KeepBuilders \in Int
    BY <1>1
  <2>2. n - (n - KeepBuilders) < PseqModulus /\ (n - KeepBuilders) - n < PseqModulus
        /\ n # n - KeepBuilders
    BY <1>1
  <2>3. QED
    BY <2>1, <2>2, Numbers
<1>3. Has(b2, n)
  BY <1>2 DEF Has, Holds
<1> DEFINE m == n + 1
<1>4. Built(b2, m, s)
  <2>1. ASSUME NEW q \in DOMAIN b2
        PROVE  \E k \in Packets :
                  Number(k) = q /\ Holds(b2[q], k) /\ m - KeepBuilders <= k /\ k < s
    <3>1. PICK k \in Packets : Number(k) = q /\ Holds(b[q], k) /\ n - KeepBuilders <= k /\ k < s
      BY <2>1 DEF DueIn, Built
    <3>2. k # n - KeepBuilders /\ k \in Int
      BY <2>1, <3>1, PacketNumbers
    <3>3. m - KeepBuilders <= k
      BY <1>1, <3>1, <3>2
    <3>4. Holds(b2[q], k)
      BY <2>1, <3>1 DEF Holds
    <3>5. QED
      BY <3>1, <3>3, <3>4
  <2> HIDE DEF m
  <2>2. QED
    BY <2>1 DEF Built
<1>5. n + 1 <= s /\ (n + 1) - 1 = n
  OBVIOUS
<1>6. QED
  BY <1>3, <1>4, <1>5 DEF DueIn

(* Nothing but a lifetime changes.                                         *)
LEMMA AgedIsDue ==
    ASSUME NEW b, NEW n, NEW s, DueIn(b, n, s), NEW b2, NEW q, NEW life, Aged(b, b2, q, life)
    PROVE  DueIn(b2, n, s) /\ \A k : Has(b2, k) <=> Has(b, k)
<1>1. DOMAIN b2 = DOMAIN b /\ \A r \in DOMAIN b : b2[r].frags = b[r].frags
  BY DEF Aged
<1>2. \A k : Has(b2, k) <=> Has(b, k)
  BY <1>1 DEF Has, Holds
<1>3. Built(b2, n, s)
  BY <1>1 DEF DueIn, Built, Holds
<1>4. QED
  BY <1>2, <1>3 DEF DueIn

-----------------------------------------------------------------------------
(* How many fragments may come.                                            *)
LEMMA FragmentsAround ==
    ASSUME NEW n \in Nat
    PROVE  IsFiniteSet(Around(n)) /\ Cardinality(Around(n)) <= 3 * Fcount
<1> DEFINE pairs == (n - 1 .. n + 1) \X Findex
           pair == [f \in Around(n) |-> <<f.packet, f.findex>>]
<1>1. Fcount \in Nat /\ Fcount > 0
  BY Constants
<1>2. IsFiniteSet(Findex) /\ Cardinality(Findex) = Fcount
  <2>1. 0 \in Int /\ Fcount - 1 \in Int
    BY <1>1
  <2>2. /\ IsFiniteSet(0 .. Fcount - 1)
        /\ Cardinality(0 .. Fcount - 1) = IF 0 > Fcount - 1 THEN 0 ELSE Fcount - 1 - 0 + 1
    BY <2>1, FS_Interval
  <2>3. QED
    BY <1>1, <2>2 DEF Findex
<1>3. IsFiniteSet(n - 1 .. n + 1) /\ Cardinality(n - 1 .. n + 1) = 3
  <2>1. n - 1 \in Int /\ n + 1 \in Int
    OBVIOUS
  <2>2. /\ IsFiniteSet(n - 1 .. n + 1)
        /\ Cardinality(n - 1 .. n + 1) = IF n - 1 > n + 1 THEN 0 ELSE (n + 1) - (n - 1) + 1
    BY <2>1, FS_Interval
  <2>3. QED
    BY <2>2
<1>4. IsFiniteSet(pairs) /\ Cardinality(pairs) = 3 * Fcount
  BY <1>2, <1>3, FS_Product
<1>5. {n - 1, n, n + 1} \subseteq n - 1 .. n + 1
  OBVIOUS
<1>6. pair \in Injection(Around(n), pairs)
  <2>1. \A f \in Around(n) : pair[f] \in pairs
    BY <1>5 DEF Around
  <2>2. \A f, g \in Around(n) : pair[f] = pair[g] => f = g
    BY DEF Around
  <2>3. QED
    BY <2>1, <2>2 DEF Injection, IsInjective
<1>7. QED
  <2> HIDE DEF pair, pairs
  <2>1. QED
    BY <1>4, <1>6, FS_Injection

LEMMA ComingFinite ==
    ASSUME NEW n \in Nat, NEW flight, NEW s \in Nat
    PROVE  /\ IsFiniteSet(Coming(n, flight, s)) /\ Cardinality(Coming(n, flight, s)) \in Nat
           /\ Cardinality(Coming(n, flight, s)) <= 3 * Fcount
           /\ \A f \in Around(n) : f \notin Coming(n, flight, s) =>
                 Cardinality(Coming(n, flight, s)) + 1 <= 3 * Fcount
<1> DEFINE coming == Coming(n, flight, s)
           all == Around(n)
<1>1. IsFiniteSet(all) /\ Cardinality(all) \in Nat /\ Cardinality(all) <= 3 * Fcount
  BY FragmentsAround, FS_CardinalityType
<1>2. coming \subseteq all
  BY DEF Coming
<1>3. 3 * Fcount \in Nat
  BY Constants
<1> HIDE DEF coming, all
<1>4. IsFiniteSet(coming) /\ Cardinality(coming) <= Cardinality(all)
  BY <1>1, <1>2, FS_Subset
<1>5. Cardinality(coming) \in Nat
  BY <1>4, FS_CardinalityType
<1>6. ASSUME NEW f \in all, f \notin coming PROVE Cardinality(coming) + 1 <= 3 * Fcount
  <2>1. Cardinality(coming) # Cardinality(all)
    BY <1>1, <1>2, <1>6, FS_Subset
  <2>2. QED
    BY <1>1, <1>3, <1>4, <1>5, <2>1
<1>7. QED
  BY <1>1, <1>3, <1>4, <1>5, <1>6 DEF coming, all

(* A fragment that has come does not come again.                           *)
LEMMA OneLessComing ==
    ASSUME NEW n \in Nat, NEW s \in Nat, NEW flight, NEW f \in Around(n), f \in flight,
           f.packet \in Nat, f.packet < s
    PROVE  Cardinality(Coming(n, flight \ {f}, s)) + 1 = Cardinality(Coming(n, flight, s))
<1> DEFINE coming == Coming(n, flight, s)
           left == Coming(n, flight \ {f}, s)
<1>1. f \in coming
  BY DEF Coming
<1>2. left = coming \ {f}
  BY DEF Coming
<1>3. IsFiniteSet(coming) /\ Cardinality(coming) \in Nat
  BY ComingFinite
<1> HIDE DEF coming, left
<1>4. Cardinality(left) = Cardinality(coming) - 1
  BY <1>1, <1>2, <1>3, FS_RemoveElement
<1>5. QED
  BY <1>3, <1>4 DEF coming, left

-----------------------------------------------------------------------------
(* Undisturbed, a packet that is not complete has fragments in flight, so  *)
(* that few newer ones were sent.                                          *)
LEMMA AllReceived ==
    ASSUME NEW builder, \A i \in Findex : builder.frags[i] # None
    PROVE  Complete(builder)
<1>1. Received(builder) = 0 .. Fcount - 1
  BY DEF Received, Findex
<1>2. Cardinality(0 .. Fcount - 1) = Fcount
  <2>1. Fcount \in Nat /\ Fcount > 0 /\ 0 \in Int /\ Fcount - 1 \in Int
    BY Constants
  <2>2. Cardinality(0 .. Fcount - 1) = IF 0 > Fcount - 1 THEN 0 ELSE Fcount - 1 - 0 + 1
    BY <2>1, FS_Interval
  <2>3. QED
    BY <2>1, <2>2
<1>3. QED
  BY <1>1, <1>2 DEF Complete

LEMMA CompleteHasAll ==
    ASSUME NEW builder, Complete(builder)
    PROVE  \A i \in Findex : builder.frags[i] # None
<1> DEFINE all == 0 .. Fcount - 1
<1>1. IsFiniteSet(all) /\ Cardinality(all) = Fcount
  <2>1. Fcount \in Nat /\ Fcount > 0 /\ 0 \in Int /\ Fcount - 1 \in Int
    BY Constants
  <2>2. /\ IsFiniteSet(0 .. Fcount - 1)
        /\ Cardinality(0 .. Fcount - 1) = IF 0 > Fcount - 1 THEN 0 ELSE Fcount - 1 - 0 + 1
    BY <2>1, FS_Interval
  <2>3. QED
    BY <2>1, <2>2
<1>2. Received(builder) \subseteq all /\ Cardinality(Received(builder)) = Fcount
  BY DEF Complete, Received, Findex
<1> HIDE DEF all
<1>3. Received(builder) = all
  BY <1>1, <1>2, FS_Subset
<1>4. QED
  BY <1>3 DEF all, Received, Findex

LEMMA SomeInFlight ==
    ASSUME NEW b, NEW n \in Packets, NEW s, n < s, NEW flight, NoneMissing(b, n, flight, s),
           ~Ready(b, n)
    PROVE  \E f \in flight : f.packet = n
<1>1. n <= n
  BY PacketNumbers
<1>2. CASE \E i \in Findex : [packet |-> n, findex |-> i] \in flight
  BY <1>2
<1>3. CASE \A i \in Findex : [packet |-> n, findex |-> i] \notin flight
  <2>1. \A i \in Findex : Has(b, n) /\ b[Number(n)].frags[i] = n
    BY <1>1, <1>3 DEF NoneMissing
  <2>2. Number(n) \in DOMAIN b /\ \A i \in Findex : b[Number(n)].frags[i] # None
    BY <2>1, Constants, PacketNumbers DEF Has
  <2>3. Ready(b, n)
    BY <2>2, AllReceived DEF Ready
  <2>4. QED
    BY <2>3
<1>4. QED
  BY <1>2, <1>3

LEMMA FewAhead ==
    ASSUME network \in Networks, NEW b, NEW n \in Nat, NEW s \in 0 .. MaxPackets, NEW flight,
           InFlight(flight, s), NoneMissing(b, n, flight, s), ~Ready(b, n), n < s
    PROVE  s <= n + network.maxReorder + 1
<1>1. MaxPackets \in Nat /\ network.maxReorder \in Nat
  BY Constants, NetworkType
<1>2. n \in Packets
  BY <1>1 DEF Packets
<1>3. PICK f \in flight : f.packet = n
  BY <1>2, SomeInFlight
<1>4. s - 1 - network.maxReorder <= n
  BY <1>3 DEF InFlight
<1>5. QED
  BY <1>1, <1>4

LEMMA NotFarAhead ==
    ASSUME network \in Networks, NEW b, NEW n \in Nat, NEW s \in 0 .. MaxPackets, NEW flight,
           InFlight(flight, s), NoneMissing(b, n, flight, s), NothingNewer(b, n)
    PROVE  s <= n + network.maxReorder + 2
<1>1. MaxPackets \in Nat /\ network.maxReorder \in Nat /\ s \in Nat
  BY Constants, NetworkType
<1>2. CASE s <= n + 1
  BY <1>1, <1>2
<1>3. CASE n + 1 < s /\ ~Ready(b, n)
  BY <1>1, <1>3, FewAhead
<1>4. CASE n + 1 < s /\ Ready(b, n)
  <2>1. n + 1 \in Packets /\ n < n + 1 /\ n <= n + 1 /\ n + 1 < s
    BY <1>1, <1>4 DEF Packets
  <2>2. ~Has(b, n + 1)
    BY <1>4, <2>1 DEF NothingNewer
  <2>3. 0 \in Findex
    BY Constants
  <2>4. [packet |-> n + 1, findex |-> 0] \in flight
    BY <2>1, <2>2, <2>3 DEF NoneMissing
  <2>5. s - 1 - network.maxReorder <= n + 1
    BY <2>4 DEF InFlight
  <2>6. QED
    BY <1>1, <2>5
<1>5. QED
  BY <1>1, <1>2, <1>3, <1>4

-----------------------------------------------------------------------------
(* One call of push_packet() in order: the packet that is due is handed    *)
(* on, or none, and the numbers go on from there.                          *)
LEMMA RoundTold ==
    ASSUME TypeOK, WithinRound
    PROVE  InRound(m_afbuilders, sent)
<1>1. ASSUME NEW k \in Packets, Has(m_afbuilders, k) PROVE sent - k <= PseqModulus
  <2>1. PICK i \in Findex : m_afbuilders[Number(k)].frags[i] = k
    BY <1>1 DEF Has, Holds
  <2>2. Number(k) \in DOMAIN m_afbuilders /\ k # None
    BY <1>1, PacketNumbers DEF Has
  <2>3. QED
    BY <2>1, <2>2 DEF WithinRound
<1>2. QED
  BY <1>1 DEF InRound

LEMMA RoundOfFew ==
    ASSUME network \in Networks, Timely, Patient, NEW b, NEW n \in Nat, NEW s \in Nat,
           Built(b, n, s), s <= n + network.maxReorder + 2
    PROVE  InRound(b, s)
<1>1. /\ network.maxReorder \in Nat /\ KeepBuilders \in Nat /\ PseqModulus \in Nat
      /\ KeepBuilders + network.maxReorder + 2 <= PseqModulus
  BY TimelyFacts DEF Patient
<1>2. ASSUME NEW k \in Packets, Has(b, k) PROVE s - k <= PseqModulus
  <2>1. k \in Int
    BY PacketNumbers
  <2>2. n - KeepBuilders <= k
    BY <1>2, <2>1, HasBuilt
  <2>3. QED
    BY <1>1, <2>1, <2>2
<1>3. QED
  BY <1>2 DEF InRound

LEMMA HandedIsDue ==
    ASSUME network \in Networks, Timely, NEW b, NEW n \in Nat, NEW s \in Nat,
           DueIn(b, n, s), InRound(b, s), Number(n) \in DOMAIN b
    PROVE  Assembled(b[Number(n)]) = n /\ n \in Packets /\ n # None /\ Has(b, n) /\ n < s
<1>1. Has(b, n) /\ n \in Packets /\ n < s
  BY DueIsThere
<1>2. QED
  BY <1>1, AssembledPacket, PacketNumbers DEF Has

LEMMA DueNotEmpty ==
    ASSUME NEW b, NEW n, NEW s, DueIn(b, n, s)
    PROVE  DOMAIN b # {}
  BY DEF DueIn, Has

(* What a call may do to the builders, by the packet that is due then.     *)
Emptied(n, s) ==
    /\ DOMAIN m_afbuilders' = {} /\ delivered' = delivered /\ handed' = None
    /\ n < s /\ \A k \in Int : s - 1 - network.maxReorder <= k => n <= k

Same(n, s) ==
    /\ m_next_pseq' = Number(n) /\ delivered' = delivered /\ handed' = None
    /\ DueIn(m_afbuilders', n, s)

Gone(n, s) ==
    /\ m_next_pseq' = Number(n + 1) /\ DueIn(m_afbuilders', n + 1, s)
    /\ \/ handed' = None /\ delivered' = delivered
       \/ handed' = n /\ delivered' = n /\ n # None

LEMMA Ordered ==
    ASSUME network \in Networks, Timely, NEW b, NEW n \in Nat, NEW s \in Nat,
           DueIn(b, n, s), InRound(b, s), Outcome(b, n)
    PROVE  Emptied(n, s) \/ Same(n, s) \/ Gone(n, s)
<1>1. CASE Missing(b, n)
  <2>1. Number(n) \notin DOMAIN b /\ Built(b, n, s) /\ n <= s
    BY <1>1 DEF Missing, DueIn
  <2>2. CASE Cardinality(DOMAIN b) > network.maxDelay
    <3>1. DOMAIN m_afbuilders' = {} /\ delivered' = delivered /\ handed' = None
      BY <1>1, <2>2 DEF Missing, NoBuilders
    <3>2. \A k \in Int : s - 1 - network.maxReorder <= k => n < s /\ n <= k
      BY <2>1, <2>2, ClearedInTime
    <3>3. s - 1 - network.maxReorder \in Int /\ s - 1 - network.maxReorder <= s - 1 - network.maxReorder
      BY TimelyFacts
    <3>4. n < s
      BY <3>2, <3>3
    <3>5. QED
      BY <3>1, <3>2, <3>4 DEF Emptied
  <2>3. CASE ~(Cardinality(DOMAIN b) > network.maxDelay)
    BY <1>1, <2>3 DEF Missing, Same
  <2>4. QED
    BY <2>2, <2>3
<1>2. CASE Waits(b, n)
  <2>1. DueIn(m_afbuilders', n, s)
    BY <1>2, AgedIsDue DEF Waits
  <2>2. QED
    BY <1>2, <2>1 DEF Waits, Same
<1>3. CASE Handed(b, n)
  <2>1. Number(n) \in DOMAIN b
    BY <1>3 DEF Handed, Ready
  <2>2. /\ Assembled(b[Number(n)]) = n /\ n \in Packets /\ n # None /\ Has(b, n) /\ n < s
    BY <2>1, HandedIsDue
  <2>3. /\ DOMAIN m_afbuilders' = DOMAIN b \ {Number(n - KeepBuilders)}
        /\ \A q \in DOMAIN m_afbuilders' : m_afbuilders'[q].frags = b[q].frags
    <3>1. /\ DOMAIN Kept(b, Number(n)) = DOMAIN b \ {Number(n - KeepBuilders)}
          /\ \A q \in DOMAIN Kept(b, Number(n)) : Kept(b, Number(n))[q] = b[q]
      <4>1. n \in Int
        OBVIOUS
      <4>2. QED
        BY <4>1, KeptBuilders
    <3>2. m_afbuilders' = Kept(b, Number(n))
      BY <1>3 DEF Handed
    <3>3. QED
      BY <3>1, <3>2
  <2>4. DueIn(m_afbuilders', n + 1, s)
    BY <2>2, <2>3, NextDue
  <2>5. QED
    BY <1>3, <2>2, <2>4 DEF Handed, Passed, Gone
<1>4. CASE GivenUp(b, n)
  <2>1. Number(n) \in DOMAIN b
    BY <1>4 DEF GivenUp
  <2>2. /\ Assembled(b[Number(n)]) = n /\ n \in Packets /\ n # None /\ Has(b, n) /\ n < s
    BY <2>1, HandedIsDue
  <2>3. PICK b2 : Aged(b, b2, Number(n), 0) /\ m_afbuilders' = Kept(b2, Number(n))
    BY <1>4 DEF GivenUp
  <2>4. DueIn(b2, n, s) /\ Has(b2, n)
    BY <2>2, <2>3, AgedIsDue
  <2>5. /\ DOMAIN m_afbuilders' = DOMAIN b2 \ {Number(n - KeepBuilders)}
        /\ \A q \in DOMAIN m_afbuilders' : m_afbuilders'[q].frags = b2[q].frags
    <3>1. /\ DOMAIN Kept(b2, Number(n)) = DOMAIN b2 \ {Number(n - KeepBuilders)}
          /\ \A q \in DOMAIN Kept(b2, Number(n)) : Kept(b2, Number(n))[q] = b2[q]
      <4>1. n \in Int
        OBVIOUS
      <4>2. QED
        BY <4>1, KeptBuilders
    <3>2. m_afbuilders' = Kept(b2, Number(n))
      BY <2>3
    <3>3. QED
      BY <3>1, <3>2
  <2>6. DueIn(m_afbuilders', n + 1, s)
    BY <2>2, <2>4, <2>5, NextDue
  <2>7. QED
    BY <1>4, <2>2, <2>6 DEF GivenUp, Passed, Gone
<1>5. QED
  BY <1>1, <1>2, <1>3, <1>4 DEF Outcome

-----------------------------------------------------------------------------
(* Undisturbed: what a fragment that arrives adds.                         *)
LEMMA PushedFrags ==
    ASSUME network \in Networks, NEW b, AnyBuilders(b), NEW f \in Fragment,
           NEW q \in DOMAIN b, NEW i \in Findex, b[q].frags[i] # None
    PROVE  q \in DOMAIN Pushed(b, f) /\ Pushed(b, f)[q].frags[i] = b[q].frags[i]
<1> DEFINE p == Number(f.packet)
           b2 == Pushed(b, f)
<1>1. /\ DOMAIN b2 = DOMAIN b \cup {p} /\ \A r \in DOMAIN b : r # p => b2[r] = b[r]
      /\ b2[p].frags[i] = IF i = f.findex /\ Into(b, f).frags[i] = None THEN f.packet
                          ELSE Into(b, f).frags[i]
  BY PushedDomain, PushedFragment, Zenon
<1>2. q = p => Into(b, f) = b[q]
  BY DEF Into
<1> HIDE DEF b2, p
<1>3. QED
  BY <1>1, <1>2 DEF b2

LEMMA ReadyStays ==
    ASSUME network \in Networks, NEW b, AnyBuilders(b), NEW f \in Fragment, NEW n, Ready(b, n)
    PROVE  Ready(Pushed(b, f), n)
<1>1. Number(n) \in DOMAIN b /\ \A i \in Findex : b[Number(n)].frags[i] # None
  BY CompleteHasAll DEF Ready
<1>2. 0 \in Findex
  BY Constants
<1>3. /\ Number(n) \in DOMAIN Pushed(b, f)
      /\ \A i \in Findex : Pushed(b, f)[Number(n)].frags[i] # None
  BY <1>1, <1>2, PushedFrags
<1>4. QED
  BY <1>3, AllReceived DEF Ready

LEMMA PushedNoneMissing ==
    ASSUME network \in Networks, NEW b, AnyBuilders(b), NEW f \in Fragment, NEW n, NEW s, NEW flight,
           Number(f.packet) \in DOMAIN b => Holds(b[Number(f.packet)], f.packet),
           \A k \in Packets : Has(Pushed(b, f), k) <=> Has(b, k) \/ k = f.packet,
           NoneMissing(b, n, flight, s)
    PROVE  NoneMissing(Pushed(b, f), n, flight \ {f}, s) /\ NoneMissing(Pushed(b, f), n, flight, s)
<1> DEFINE b2 == Pushed(b, f)
<1>1. f.packet \in Packets /\ f.findex \in Findex
  BY DEF Fragment
<1>2. Into(b, f).frags[f.findex] \in {f.packet, None}
  BY <1>1 DEF Holds, NewBuilder, Into
<1>3. b2[Number(f.packet)].frags[f.findex] = f.packet
  <2>1. \A i \in Findex : b2[Number(f.packet)].frags[i] =
           IF i = f.findex /\ Into(b, f).frags[i] = None THEN f.packet ELSE Into(b, f).frags[i]
    BY PushedFragment, Zenon
  <2> HIDE DEF b2
  <2>2. QED
    BY <1>1, <1>2, <2>1
<1>4. ASSUME NEW k \in Packets, NEW i \in Findex, n <= k, k < s,
             [packet |-> k, findex |-> i] \notin flight \ {f}
      PROVE  Has(b2, k) /\ b2[Number(k)].frags[i] = k
  <2>1. CASE [packet |-> k, findex |-> i] = f
    <3>1. k = f.packet /\ i = f.findex
      BY <2>1
    <3>2. QED
      BY <1>3, <3>1
  <2>2. CASE [packet |-> k, findex |-> i] # f
    <3>1. Has(b, k) /\ b[Number(k)].frags[i] = k
      BY <1>4, <2>2 DEF NoneMissing
    <3>2. k # None /\ Number(k) \in DOMAIN b
      BY <3>1, PacketNumbers DEF Has
    <3>3. b2[Number(k)].frags[i] = k
      BY <3>1, <3>2, PushedFrags
    <3>4. QED
      BY <3>1, <3>3
  <2>3. QED
    BY <2>1, <2>2
<1> HIDE DEF b2
<1>5. QED
  BY <1>4 DEF NoneMissing, b2

-----------------------------------------------------------------------------
(* A fragment arrives and is in flight no more, or it is repeated.         *)
Arrives(f, before, spare, flight, copies) ==
    \/ flight = before \ {f} /\ copies = spare
    \/ flight = before /\ copies + 1 = spare

LEMMA LifeIsLong ==
    ASSUME network \in Networks, Undisturbed, Patient
    PROVE  /\ Fcount * network.maxDelay \in Nat /\ 3 * Fcount \in Nat
           /\ network.maxDuplicates \in Nat
           /\ 3 * Fcount + network.maxDuplicates < Fcount * network.maxDelay
  BY NetworkType, Constants DEF Patient

LEMMA LongEnough ==
    ASSUME network \in Networks, Undisturbed, Patient, NEW n \in Nat, NEW s \in Nat, NEW before,
           NEW f \in Around(n), f.packet \in Nat, f.packet < s, NEW spare \in Nat,
           spare <= network.maxDuplicates, NEW flight, NEW copies \in Nat,
           Arrives(f, before, spare, flight, copies)
    PROVE  Cardinality(Coming(n, flight, s)) + copies + 1 < Fcount * network.maxDelay
<1> DEFINE c == Cardinality(Coming(n, flight, s))
           life == Fcount * network.maxDelay
           three == 3 * Fcount
<1>1. life \in Nat /\ three \in Nat /\ network.maxDuplicates \in Nat
      /\ three + network.maxDuplicates < life
  BY LifeIsLong
<1>2. c \in Nat /\ c <= three /\ (f \notin Coming(n, flight, s) => c + 1 <= three)
  BY ComingFinite
<1>3. f \notin flight => f \notin Coming(n, flight, s)
  BY DEF Coming
<1> HIDE DEF c, life, three
<1>4. CASE flight = before \ {f} /\ copies = spare
  <2>1. c + 1 <= three
    BY <1>2, <1>3, <1>4
  <2>2. c + copies + 1 < life
    BY <1>1, <1>2, <1>4, <2>1
  <2>3. QED
    BY <2>2 DEF c, life
<1>5. CASE flight = before /\ copies + 1 = spare
  <2>1. c + copies + 1 < life
    BY <1>1, <1>2, <1>5
  <2>2. QED
    BY <2>1 DEF c, life
<1>6. QED
  BY <1>4, <1>5 DEF Arrives

LEMMA OneLess ==
    ASSUME NEW n \in Nat, NEW s \in Nat, NEW before, NEW f \in Around(n), f \in before,
           f.packet \in Nat, f.packet < s, NEW spare \in Nat, NEW flight, NEW copies \in Nat,
           Arrives(f, before, spare, flight, copies)
    PROVE  /\ Cardinality(Coming(n, flight, s)) \in Nat /\ Cardinality(Coming(n, before, s)) \in Nat
           /\ Cardinality(Coming(n, flight, s)) + copies + 1 =
                 Cardinality(Coming(n, before, s)) + spare
<1> DEFINE c == Cardinality(Coming(n, flight, s))
           d == Cardinality(Coming(n, before, s))
<1>1. c \in Nat /\ d \in Nat
  BY ComingFinite
<1>2. CASE flight = before \ {f} /\ copies = spare
  <2>1. c + 1 = d
    BY <1>2, OneLessComing
  <2> HIDE DEF c, d
  <2>2. c + copies + 1 = d + spare
    BY <1>1, <1>2, <2>1
  <2>3. QED
    BY <1>1, <2>2 DEF c, d
<1>3. CASE flight = before /\ copies + 1 = spare
  <2>1. c = d
    BY <1>3
  <2> HIDE DEF c, d
  <2>2. c + copies + 1 = d + spare
    BY <1>1, <1>3, <2>1
  <2>3. QED
    BY <1>1, <2>2 DEF c, d
<1>4. QED
  BY <1>2, <1>3 DEF Arrives

(* What holds once the fragment is in its builder, before getNextAFPacket. *)
Prepared(b, n, flight, s, copies, f) ==
    /\ NoneMissing(b, n, flight, s) /\ FullLife(b, n)
    /\ Has(b, n) /\ ~Ready(b, n) =>
          Cardinality(Coming(n, flight, s)) + copies + 1 < b[Number(n)].lifeTime
    /\ Ready(b, n) => s <= n + 2 \/ \A k \in Packets : n < k /\ Has(b, k) => k = f.packet
    /\ s <= n + network.maxReorder + 2

LEMMA CalmFacts ==
    ASSUME network \in Networks, Timely, Undisturbed
    PROVE  /\ network.maxReorder \in Nat /\ network.maxReorder <= 1 /\ network.maxLost = 0
           /\ KeepBuilders \in Nat /\ network.maxDelay \in Nat /\ network.maxDelay > KeepBuilders
  BY TimelyFacts DEF Undisturbed

LEMMA PreparedFirst ==
    ASSUME network \in Networks, Timely, Undisturbed, Patient,
           NEW b, AnyBuilders(b), DOMAIN b = {}, NEW s \in Nat, NEW before, InFlight(before, s),
           \A k \in Packets, i \in Findex : k < s => [packet |-> k, findex |-> i] \in before,
           NEW f \in Fragment, f \in before, NEW spare \in Nat, spare <= network.maxDuplicates,
           NEW flight, NEW copies \in Nat, Arrives(f, before, spare, flight, copies)
    PROVE  Prepared(Pushed(b, f), f.packet, flight, s, copies, f)
<1> DEFINE n == f.packet
           b2 == Pushed(b, f)
<1>1. n \in Packets /\ n \in Nat /\ f.findex \in Findex
  BY PacketNumbers DEF Fragment
<1>2. n < s /\ s - 1 - network.maxReorder <= n
  BY DEF InFlight
<1>3. network.maxReorder \in Nat
  BY CalmFacts
<1>4. /\ Has(b2, n) /\ \A k \in Packets : Has(b2, k) => k = n
  BY <1>2, PushFirst
<1>5. NoneMissing(b, n, before, s)
  BY DEF NoneMissing
<1>6. \A k \in Packets : Has(b2, k) <=> Has(b, k) \/ k = f.packet
  BY <1>4 DEF Has
<1>7. NoneMissing(b2, n, before \ {f}, s) /\ NoneMissing(b2, n, before, s)
  BY <1>5, <1>6, PushedNoneMissing
<1>8. NoneMissing(b2, n, flight, s)
  BY <1>7 DEF Arrives
<1>9. \A k \in Packets : n < k => ~Has(b2, k)
  BY <1>1, <1>4, PacketNumbers
<1>10. FullLife(b2, n)
  BY <1>9 DEF FullLife
<1>11. b2[Number(n)].lifeTime = Fcount * network.maxDelay
  <2>1. Into(b, f).lifeTime = Fcount * network.maxDelay
    BY DEF Into, NewBuilder
  <2>2. b2[Number(f.packet)].lifeTime = Into(b, f).lifeTime
    BY PushedBuilders
  <2>3. QED
    BY <2>1, <2>2
<1>12. f \in Around(n)
  BY <1>1 DEF Around, Fragment
<1>13. Cardinality(Coming(n, flight, s)) + copies + 1 < Fcount * network.maxDelay
  BY <1>1, <1>2, <1>12, LongEnough
<1>14. s <= n + network.maxReorder + 2
  BY <1>1, <1>2, <1>3
<1> HIDE DEF b2, n
<1>15. Prepared(b2, n, flight, s, copies, f)
  BY <1>8, <1>9, <1>10, <1>11, <1>13, <1>14 DEF Prepared
<1>16. QED
  BY <1>15 DEF b2, n

LEMMA PreparedLater ==
    ASSUME network \in Networks, Timely, Undisturbed, Patient,
           NEW b, AnyBuilders(b), NEW n \in Nat, NEW s \in 0 .. MaxPackets, DueIn(b, n, s),
           NEW before, InFlight(before, s), NEW spare \in Nat, spare <= network.maxDuplicates,
           NoneMissing(b, n, before, s), NothingNewer(b, n), TimeLeft(b, n, before, s, spare),
           NEW f \in Fragment, f \in before,
           NEW flight, NEW copies \in Nat, Arrives(f, before, spare, flight, copies)
    PROVE  /\ Prepared(Pushed(b, f), n, flight, s, copies, f)
           /\ DueIn(Pushed(b, f), n, s) /\ InRound(Pushed(b, f), s)
<1> DEFINE b2 == Pushed(b, f)
           p == Number(f.packet)
<1>1. f.packet \in Packets /\ f.packet \in Nat /\ f.findex \in Findex /\ s \in Nat /\ n \in Int
  <2>1. f.packet \in Packets /\ f.findex \in Findex
    BY DEF Fragment
  <2>2. MaxPackets \in Nat
    BY Constants
  <2>3. QED
    BY <2>1, <2>2, PacketNumbers
<1>2. f.packet < s /\ s - 1 - network.maxReorder <= f.packet
  BY DEF InFlight
<1>3. network.maxReorder \in Nat /\ network.maxReorder <= 1
  BY CalmFacts
<1>4. s <= n + network.maxReorder + 2
  BY NotFarAhead
<1>5. Built(b, n, s) /\ n <= s
  BY DEF DueIn
<1>6. InRound(b, s)
  BY <1>1, <1>4, <1>5, RoundOfFew
<1>7. /\ p \in DOMAIN b => Holds(b[p], f.packet)
      /\ DueIn(b2, n, s) /\ InRound(b2, s)
      /\ \A k \in Packets : Has(b2, k) <=> Has(b, k) \/ k = f.packet
  BY <1>1, <1>2, <1>6, PushLater
<1>8. /\ DOMAIN b2 = DOMAIN b \cup {p} /\ \A q \in DOMAIN b : q # p => b2[q] = b[q]
      /\ b2[p].lifeTime = IF p \in DOMAIN b THEN b[p].lifeTime ELSE Fcount * network.maxDelay
  <2>1. b2[p].lifeTime = Into(b, f).lifeTime
    BY PushedBuilders
  <2>2. Into(b, f).lifeTime = IF p \in DOMAIN b THEN b[p].lifeTime ELSE Fcount * network.maxDelay
    BY DEF Into, NewBuilder
  <2>3. DOMAIN b2 = DOMAIN b \cup {p} /\ \A q \in DOMAIN b : q # p => b2[q] = b[q]
    BY PushedDomain, Zenon
  <2> HIDE DEF b2
  <2>4. QED
    BY <2>1, <2>2, <2>3
<1>9. NoneMissing(b2, n, flight, s)
  <2>1. NoneMissing(b2, n, before \ {f}, s) /\ NoneMissing(b2, n, before, s)
    BY <1>7, PushedNoneMissing
  <2>2. QED
    BY <2>1 DEF Arrives
<1>10. Ready(b, n) => Ready(b2, n)
  BY ReadyStays
<1> HIDE DEF b2
<1>11. ASSUME NEW k \in Packets, k # f.packet, Has(b2, k) PROVE Has(b, k) /\ b2[Number(k)] = b[Number(k)]
  <2>1. Has(b, k)
    BY <1>7, <1>11
  <2>2. Number(k) # p
    <3>1. CASE Number(k) = p
      <4>1. Holds(b[p], k) /\ Holds(b[p], f.packet)
        BY <1>7, <2>1, <3>1 DEF Has
      <4>2. QED
        BY <1>1, <1>11, <4>1, HoldsOne
    <3>2. QED
      BY <3>1
  <2>3. QED
    BY <1>8, <2>1, <2>2 DEF Has
<1>12. ASSUME p \in DOMAIN b PROVE Has(b, f.packet) /\ b2[p].lifeTime = b[p].lifeTime
  BY <1>7, <1>8, <1>12 DEF Has
<1>13. FullLife(b2, n)
  <2>1. ASSUME NEW k \in Packets, n < k, Has(b2, k)
        PROVE  b2[Number(k)].lifeTime = Fcount * network.maxDelay
    <3>1. CASE k # f.packet
      BY <1>11, <2>1, <3>1 DEF TimeLeft, FullLife
    <3>2. CASE k = f.packet /\ p \in DOMAIN b
      BY <1>12, <2>1, <3>2 DEF TimeLeft, FullLife
    <3>3. CASE k = f.packet /\ p \notin DOMAIN b
      BY <1>8, <3>3
    <3>4. QED
      BY <3>1, <3>2, <3>3
  <2>2. QED
    BY <2>1 DEF FullLife
<1>14. ~Ready(b, n) => s <= n + 2
  <2>1. CASE n < s
    BY <1>1, <1>3, <2>1, FewAhead
  <2>2. CASE ~(n < s)
    BY <1>1, <2>2
  <2>3. QED
    BY <2>1, <2>2
<1>15. ASSUME Ready(b, n), NEW k \in Packets, n < k, Has(b2, k) PROVE k = f.packet
  BY <1>7, <1>15 DEF NothingNewer
<1>16. ASSUME Has(b2, n), ~Ready(b2, n)
       PROVE  Cardinality(Coming(n, flight, s)) + copies + 1 < b2[Number(n)].lifeTime
  <2>1. ~Ready(b, n) /\ n \in Packets /\ n < s
    <3>1. Built(b2, n, s)
      BY <1>7 DEF DueIn
    <3>2. QED
      BY <1>1, <1>10, <1>16, <3>1, HasBuilt
  <2>2. f \in Around(n)
    <3>1. s <= n + 2
      BY <1>14, <2>1
    <3>2. f.packet <= n + 1 /\ n - 1 <= f.packet
      BY <1>1, <1>2, <1>3, <2>1, <3>1
    <3>3. f.packet \in {n - 1, n, n + 1}
      BY <1>1, <3>2
    <3>4. QED
      BY <1>1, <3>3 DEF Around, Fragment
  <2>3. CASE Has(b, n)
    <3>1. Cardinality(Coming(n, before, s)) + spare < b[Number(n)].lifeTime
      BY <2>1, <2>3 DEF TimeLeft
    <3>2. b2[Number(n)].lifeTime = b[Number(n)].lifeTime
      <4>1. CASE n = f.packet
        BY <1>12, <2>3, <4>1 DEF Has
      <4>2. CASE n # f.packet
        BY <1>11, <1>16, <2>1, <4>2
      <4>3. QED
        BY <4>1, <4>2
    <3>3. Cardinality(Coming(n, flight, s)) + copies + 1 = Cardinality(Coming(n, before, s)) + spare
      BY <1>1, <1>2, <2>2, OneLess
    <3>4. QED
      BY <3>1, <3>2, <3>3
  <2>4. CASE ~Has(b, n)
    <3>1. n = f.packet
      BY <1>7, <1>16, <2>1, <2>4
    <3>2. p \notin DOMAIN b
      BY <1>12, <2>4, <3>1
    <3>3. b2[Number(n)].lifeTime = Fcount * network.maxDelay
      BY <1>8, <3>1, <3>2
    <3>4. Cardinality(Coming(n, flight, s)) + copies + 1 < Fcount * network.maxDelay
      BY <1>1, <1>2, <2>2, LongEnough
    <3>5. QED
      BY <3>3, <3>4
  <2>5. QED
    BY <2>3, <2>4
<1>17. Prepared(b2, n, flight, s, copies, f)
  BY <1>4, <1>9, <1>13, <1>14, <1>15, <1>16 DEF Prepared
<1>18. QED
  BY <1>7, <1>17 DEF b2

(* Nothing is missing, and there is time.                                  *)
Ongoing(b, n, flight, s, copies) ==
    /\ NoneMissing(b, n, flight, s) /\ NothingNewer(b, n) /\ TimeLeft(b, n, flight, s, copies)

(* The packet that is due has not come: the builders are not cleared.      *)
LEMMA OngoingMissing ==
    ASSUME network \in Networks, Timely, Undisturbed, NEW b, NEW n \in Nat, NEW s \in 0 .. MaxPackets,
           NEW flight, InFlight(flight, s), NEW copies, NEW f, Prepared(b, n, flight, s, copies, f),
           DueIn(b, n, s), Missing(b, n)
    PROVE  m_afbuilders' = b /\ Ongoing(b, n, flight, s, copies)
<1> DEFINE c == Cardinality(DOMAIN b)
<1>1. s \in Nat
  BY Constants
<1>2. ~Ready(b, n) /\ ~Has(b, n) /\ Number(n) \notin DOMAIN b
  BY DEF Missing, Ready, Has
<1>3. /\ network.maxReorder \in Nat /\ network.maxReorder <= 1
      /\ KeepBuilders \in Nat /\ network.maxDelay \in Nat /\ network.maxDelay > KeepBuilders
  BY CalmFacts
<1>4. n < s => s <= n + network.maxReorder + 1
  BY <1>2, FewAhead DEF Prepared
<1>5. c \in Nat /\ c <= KeepBuilders + (IF n < s THEN s - 1 - n ELSE 0)
  BY <1>1, <1>2, HowManyBuilders DEF DueIn
<1> HIDE DEF c
<1>6. c <= network.maxDelay
  BY <1>1, <1>3, <1>4, <1>5
<1>7. ~(c > network.maxDelay)
  BY <1>3, <1>5, <1>6
<1>8. m_afbuilders' = b
  BY <1>7 DEF Missing, c
<1>9. Ongoing(b, n, flight, s, copies)
  BY <1>2 DEF Prepared, Ongoing, NothingNewer, TimeLeft
<1>10. QED
  BY <1>8, <1>9

(* It is not complete: its lifetime lasts.                                 *)
LEMMA OngoingWaits ==
    ASSUME network \in Networks, NEW b, AnyBuilders(b), NEW n \in Nat, NEW s \in Nat, NEW flight,
           NEW copies \in Nat, NEW f, Prepared(b, n, flight, s, copies, f), Has(b, n), n \in Packets,
           Waits(b, n)
    PROVE  Ongoing(m_afbuilders', n, flight, s, copies)
<1> DEFINE b2 == m_afbuilders'
           life == b[Number(n)].lifeTime
           c == Cardinality(Coming(n, flight, s))
<1>1. /\ Number(n) \in DOMAIN b /\ ~Ready(b, n)
      /\ Aged(b, b2, Number(n), life - 1)
  BY DEF Waits
<1>2. /\ DOMAIN b2 = DOMAIN b /\ \A q \in DOMAIN b : q # Number(n) => b2[q] = b[q]
      /\ b2[Number(n)].frags = b[Number(n)].frags /\ b2[Number(n)].lifeTime = life - 1
  BY <1>1 DEF Aged
<1> HIDE DEF b2
<1>3. /\ \A q \in DOMAIN b : b2[q].frags = b[q].frags
      /\ \A k \in Packets : Has(b2, k) <=> Has(b, k)
  BY <1>2 DEF Has, Holds
<1>4. ~Ready(b2, n)
  BY <1>1, <1>2 DEF Ready, Complete, Received
<1>5. NoneMissing(b2, n, flight, s)
  BY <1>3 DEF Prepared, NoneMissing, Has
<1>6. FullLife(b2, n)
  <2>1. ASSUME NEW k \in Packets, n < k, Has(b2, k)
        PROVE  b2[Number(k)].lifeTime = Fcount * network.maxDelay
    <3>1. Has(b, k) /\ Number(k) \in DOMAIN b
      BY <1>3, <2>1 DEF Has
    <3>2. Number(k) # Number(n)
      <4>1. CASE Number(k) = Number(n)
        <5>1. k = n
          BY <3>1, <4>1, HoldsOne DEF Has
        <5>2. QED
          BY <2>1, <5>1
      <4>2. QED
        BY <4>1
    <3>3. b[Number(k)].lifeTime = Fcount * network.maxDelay
      BY <2>1, <3>1 DEF Prepared, FullLife
    <3>4. QED
      BY <1>2, <3>1, <3>2, <3>3
  <2>2. QED
    BY <2>1 DEF FullLife
<1>7. c + copies < b2[Number(n)].lifeTime
  <2>1. c \in Nat
    BY ComingFinite
  <2>2. c + copies + 1 < life
    BY <1>1 DEF Prepared
  <2>3. life \in Nat
    <3>1. life \in 0 .. Fcount * network.maxDelay
      BY <1>1 DEF AnyBuilders, AnyBuilder
    <3> DEFINE long == Fcount * network.maxDelay
    <3>2. long \in Nat
      BY NetworkType
    <3> HIDE DEF long, life
    <3>3. life \in 0 .. long
      BY <3>1 DEF long
    <3>4. QED
      BY <3>2, <3>3
  <2> HIDE DEF c, life
  <2>4. c + copies < life - 1
    BY <2>1, <2>2, <2>3
  <2>5. QED
    BY <1>2, <2>4
<1>8. Ongoing(b2, n, flight, s, copies)
  BY <1>4, <1>5, <1>6, <1>7 DEF Ongoing, NothingNewer, TimeLeft
<1>9. QED
  BY <1>8 DEF b2

LEMMA NotGivenUp ==
    ASSUME network \in Networks, NEW b, AnyBuilders(b), NEW n \in Nat, NEW s \in Nat, NEW flight,
           NEW copies \in Nat, NEW f, Prepared(b, n, flight, s, copies, f), Has(b, n), GivenUp(b, n)
    PROVE  FALSE
<1> DEFINE life == b[Number(n)].lifeTime
           c == Cardinality(Coming(n, flight, s))
<1>1. life <= 1 /\ ~Ready(b, n)
  BY DEF GivenUp
<1>2. c \in Nat
  BY ComingFinite
<1>3. c + copies + 1 < life
  BY <1>1 DEF Prepared
<1>4. life \in Int
  <2>1. life \in 0 .. Fcount * network.maxDelay
    BY DEF AnyBuilders, AnyBuilder, Has
  <2> DEFINE long == Fcount * network.maxDelay
  <2>2. long \in Nat
    BY NetworkType
  <2> HIDE DEF long, life
  <2>3. life \in 0 .. long
    BY <2>1 DEF long
  <2>4. QED
    BY <2>2, <2>3
<1> HIDE DEF c, life
<1>5. QED
  BY <1>1, <1>2, <1>3, <1>4

(* It is handed on: the next one is due, and has its full lifetime.        *)
LEMMA OngoingHanded ==
    ASSUME network \in Networks, Timely, Undisturbed, Patient, NEW b, AnyBuilders(b), NEW n \in Nat,
           NEW s \in Nat, NEW flight, NEW copies \in Nat, copies <= network.maxDuplicates, NEW f,
           Prepared(b, n, flight, s, copies, f), DueIn(b, n, s), InRound(b, s), Handed(b, n),
           DueIn(m_afbuilders', n + 1, s)
    PROVE  Ongoing(m_afbuilders', n + 1, flight, s, copies)
<1> DEFINE b2 == m_afbuilders'
           m == n + 1
           old == Number(n - KeepBuilders)
<1>1. /\ network.maxReorder \in Nat /\ KeepBuilders \in Nat /\ PseqModulus \in Nat
      /\ KeepBuilders + network.maxReorder + 2 <= PseqModulus
  BY TimelyFacts DEF Patient
<1>2. m \in Nat /\ m \in Int /\ n \in Int /\ n < m /\ \A k \in Int : m <= k <=> n < k
  OBVIOUS
<1>3. Ready(b, n)
  BY DEF Handed
<1>4. s <= n + network.maxReorder + 2
  BY DEF Prepared
<1>5. DOMAIN b2 = DOMAIN b \ {old} /\ \A q \in DOMAIN b2 : b2[q] = b[q]
  <2>1. /\ DOMAIN Kept(b, Number(n)) = DOMAIN b \ {old}
        /\ \A q \in DOMAIN Kept(b, Number(n)) : Kept(b, Number(n))[q] = b[q]
    BY <1>2, KeptBuilders
  <2>2. b2 = Kept(b, Number(n))
    BY DEF Handed
  <2>3. QED
    BY <2>1, <2>2
<1>6. DueIn(b2, m, s)
  OBVIOUS
<1> HIDE DEF b2, m
<1>7. ASSUME NEW k \in Packets, n < k, k < s PROVE Number(k) # old
  <2>1. k \in Int /\ n - KeepBuilders \in Int
    BY <1>1, <1>2, PacketNumbers
  <2>2. k # n - KeepBuilders /\ k - (n - KeepBuilders) < PseqModulus /\ (n - KeepBuilders) - k < PseqModulus
    BY <1>1, <1>2, <1>4, <1>7, <2>1
  <2>3. QED
    BY <2>1, <2>2, Numbers
<1>8. ASSUME NEW k \in Packets, n < k, Has(b, k), k < s
      PROVE  Has(b2, k) /\ b2[Number(k)] = b[Number(k)]
  BY <1>5, <1>7, <1>8 DEF Has
<1>9. ASSUME NEW k \in Packets, Has(b2, k) PROVE Has(b, k) /\ b2[Number(k)] = b[Number(k)] /\ k < s
  <2>1. k \in Int
    BY PacketNumbers
  <2>2. k < s
    BY <1>6, <1>9, <2>1, HasBuilt DEF DueIn
  <2>3. QED
    BY <1>5, <1>9, <2>2 DEF Has
<1>10. NoneMissing(b2, m, flight, s)
  <2>1. ASSUME NEW k \in Packets, NEW i \in Findex, m <= k, k < s,
               [packet |-> k, findex |-> i] \notin flight
        PROVE  Has(b2, k) /\ b2[Number(k)].frags[i] = k
    <3>1. n < k /\ n <= k
      BY <1>2, <2>1, PacketNumbers
    <3>2. Has(b, k) /\ b[Number(k)].frags[i] = k
      BY <2>1, <3>1 DEF Prepared, NoneMissing
    <3>3. QED
      BY <1>8, <2>1, <3>1, <3>2
  <2>2. QED
    BY <2>1 DEF NoneMissing
<1>11. InRound(b2, s)
  BY <1>9 DEF InRound
<1>12. NothingNewer(b2, m)
  <2>1. ASSUME Ready(b2, m), NEW k \in Packets, m < k, Has(b2, k) PROVE FALSE
    <3>1. Has(b2, m) /\ m \in Packets
      BY <1>2, <1>6, <1>11, <2>1, DueIsThere DEF Ready
    <3>2. Has(b, m) /\ Has(b, k) /\ k < s
      BY <1>9, <2>1, <3>1
    <3>3. k \in Int /\ n < k
      BY <1>2, <2>1, PacketNumbers
    <3>4. ~(s <= n + 2)
      BY <1>2, <2>1, <3>2, <3>3 DEF m
    <3>5. k = f.packet /\ m = f.packet
      BY <1>2, <1>3, <3>1, <3>2, <3>3, <3>4 DEF Prepared
    <3>6. QED
      BY <1>2, <2>1, <3>5
  <2>2. QED
    BY <2>1 DEF NothingNewer
<1>13. FullLife(b2, m)
  <2>1. ASSUME NEW k \in Packets, m < k, Has(b2, k)
        PROVE  b2[Number(k)].lifeTime = Fcount * network.maxDelay
    <3>1. n < k
      BY <1>2, <2>1, PacketNumbers
    <3>2. QED
      BY <1>9, <2>1, <3>1 DEF Prepared, FullLife
  <2>2. QED
    BY <2>1 DEF FullLife
<1>14. ASSUME Has(b2, m)
       PROVE  Cardinality(Coming(m, flight, s)) + copies < b2[Number(m)].lifeTime
  <2>1. m \in Packets
    BY <1>2, <1>6, <1>14, HasBuilt DEF DueIn
  <2>2. b2[Number(m)].lifeTime = Fcount * network.maxDelay
    BY <1>2, <1>9, <1>14, <2>1 DEF Prepared, FullLife
  <2> DEFINE c == Cardinality(Coming(m, flight, s))
             life == Fcount * network.maxDelay
             three == 3 * Fcount
  <2>3. life \in Nat /\ three \in Nat /\ network.maxDuplicates \in Nat
        /\ three + network.maxDuplicates < life
    BY LifeIsLong
  <2>4. c \in Nat /\ c <= three
    BY <1>2, ComingFinite
  <2> HIDE DEF c, life, three
  <2>5. c + copies < life
    BY <2>3, <2>4
  <2>6. QED
    BY <2>2, <2>5 DEF c, life
<1>15. Ongoing(b2, m, flight, s, copies)
  BY <1>10, <1>12, <1>13, <1>14 DEF Ongoing, TimeLeft
<1>16. QED
  BY <1>15 DEF b2, m

LEMMA OngoingStep ==
    ASSUME network \in Networks, Timely, Undisturbed, Patient, NEW b, AnyBuilders(b), NEW n \in Nat,
           NEW s \in 0 .. MaxPackets, NEW flight, InFlight(flight, s),
           NEW copies \in Nat, copies <= network.maxDuplicates, NEW f,
           Prepared(b, n, flight, s, copies, f), DueIn(b, n, s), InRound(b, s), Outcome(b, n)
    PROVE  \/ Same(n, s) /\ Ongoing(m_afbuilders', n, flight, s, copies)
           \/ Gone(n, s) /\ handed' = n /\ Ongoing(m_afbuilders', n + 1, flight, s, copies)
<1>1. s \in Nat
  BY Constants
<1>2. CASE Missing(b, n)
  <2>1. m_afbuilders' = b /\ Ongoing(b, n, flight, s, copies)
    BY <1>2, OngoingMissing
  <2>2. Same(n, s)
    BY <1>2, <2>1 DEF Missing, Same
  <2>3. QED
    BY <2>1, <2>2
<1>3. CASE Waits(b, n)
  <2>1. Has(b, n) /\ n \in Packets
    BY <1>1, <1>3, DueIsThere DEF Waits
  <2>2. Ongoing(m_afbuilders', n, flight, s, copies)
    BY <1>1, <1>3, <2>1, OngoingWaits
  <2>3. Same(n, s)
    BY <1>3, AgedIsDue DEF Waits, Same
  <2>4. QED
    BY <2>2, <2>3
<1>4. CASE GivenUp(b, n)
  <2>1. Has(b, n)
    BY <1>1, <1>4, DueIsThere DEF GivenUp
  <2>2. QED
    BY <1>1, <1>4, <2>1, NotGivenUp
<1>5. CASE Handed(b, n)
  <2>1. Number(n) \in DOMAIN b
    BY <1>5 DEF Handed, Ready
  <2>2. Assembled(b[Number(n)]) = n /\ n # None /\ Has(b, n) /\ n < s
    BY <1>1, <2>1, HandedIsDue
  <2>3. DueIn(m_afbuilders', n + 1, s)
    <3>1. /\ DOMAIN Kept(b, Number(n)) = DOMAIN b \ {Number(n - KeepBuilders)}
          /\ \A q \in DOMAIN Kept(b, Number(n)) : Kept(b, Number(n))[q] = b[q]
      <4>1. n \in Int
        OBVIOUS
      <4>2. QED
        BY <4>1, KeptBuilders
    <3>2. m_afbuilders' = Kept(b, Number(n))
      BY <1>5 DEF Handed
    <3>3. /\ DOMAIN m_afbuilders' = DOMAIN b \ {Number(n - KeepBuilders)}
          /\ \A q \in DOMAIN m_afbuilders' : m_afbuilders'[q].frags = b[q].frags
      BY <3>1, <3>2
    <3>4. QED
      BY <1>1, <2>2, <3>3, NextDue
  <2>4. Gone(n, s) /\ handed' = n
    BY <1>5, <2>2, <2>3 DEF Handed, Passed, Gone
  <2>5. Ongoing(m_afbuilders', n + 1, flight, s, copies)
    BY <1>1, <1>5, <2>3, OngoingHanded
  <2>6. QED
    BY <2>4, <2>5
<1>6. QED
  BY <1>2, <1>3, <1>4, <1>5 DEF Outcome

-----------------------------------------------------------------------------
(* The invariant, step by step.                                            *)
OrderKept == handed' # None => IF Undisturbed /\ delivered # None THEN handed' = delivered + 1
                               ELSE handed' > delivered

LEMMA TypeFacts ==
    ASSUME TypeOK
    PROVE  /\ network \in Networks /\ AnyBuilders(m_afbuilders)
           /\ delivered \in Int /\ sent \in 0 .. MaxPackets /\ sent \in Nat
           /\ \A f \in net : f \in Fragment /\ f.packet \in Packets /\ f.packet \in Nat /\ f.findex \in Findex
           /\ network.maxDuplicates \in Nat /\ duplicates \in Nat /\ duplicates <= network.maxDuplicates
<1>1. /\ network \in Networks /\ AnyBuilders(m_afbuilders)
      /\ delivered \in Packets \cup {None} /\ sent \in 0 .. MaxPackets /\ net \subseteq Fragment
      /\ duplicates \in 0 .. network.maxDuplicates
  BY DEF TypeOK, AnyBuilders, AnyBuilder, Builder
<1>2. network.maxDuplicates \in Nat
  BY <1>1, NetworkType
<1>3. MaxPackets \in Nat
  BY Constants
<1>4. delivered \in Int
  BY <1>1, PacketNumbers DEF None
<1>5. \A f \in net : f \in Fragment /\ f.packet \in Packets /\ f.packet \in Nat /\ f.findex \in Findex
  BY <1>1, PacketNumbers DEF Fragment
<1>6. QED
  BY <1>1, <1>2, <1>3, <1>4, <1>5

LEMMA SameNetwork ==
    ASSUME network' = network
    PROVE  (Assumed' <=> Assumed) /\ (Undisturbed' <=> Undisturbed)
  BY DEF Assumed, Timely, Patient, Undisturbed

LEMMA DueNext ==
    ASSUME network' = network, NEW n, m_next_pseq' = Number(n), delivered' < n,
           DueIn(m_afbuilders', n, sent'),
           Undisturbed => /\ delivered' # None => n = delivered' + 1
                          /\ Ongoing(m_afbuilders', n, net', sent',
                                     network.maxDuplicates - duplicates')
    PROVE  Due(n)'
<1>1. DueIn(m_afbuilders, n, sent)'
  BY DEF DueIn, Has, Holds, Built, Number
<1>2. (m_next_pseq = Number(n))' /\ (delivered < n)'
  BY DEF Number
<1>3. Undisturbed' <=> Undisturbed
  BY SameNetwork
<1>4. ASSUME Undisturbed PROVE Continues(n)'
  <2>1. Ongoing(m_afbuilders', n, net', sent', network.maxDuplicates - duplicates')
    BY <1>4
  <2>2. Ongoing(m_afbuilders, n, net, sent, network.maxDuplicates - duplicates)'
    BY <2>1 DEF Ongoing, NoneMissing, NothingNewer, TimeLeft, FullLife, Ready, Complete, Received,
                Has, Holds, Number, Coming, Around
  <2>3. QED
    BY <1>4, <2>2 DEF Continues, Ongoing
<1>5. QED
  BY <1>1, <1>2, <1>3, <1>4 DEF Due

(* What is due when a fragment has been put in its builder.                *)
LEMMA Pushing ==
    ASSUME TypeOK, PftInv, Undisturbed \/ WithinRound, NEW f \in net,
           NEW flight, NEW copies \in Nat,
           Arrives(f, net, network.maxDuplicates - duplicates, flight, copies)
    PROVE  \E n \in Nat :
              LET b == Pushed(m_afbuilders, f)
              IN  /\ ToldNext(f) = Number(n) /\ delivered < n
                  /\ DueIn(b, n, sent) /\ InRound(b, sent)
                  /\ Undisturbed => /\ delivered # None => n = delivered + 1
                                    /\ Prepared(b, n, flight, sent, copies, f)
<1> DEFINE b == Pushed(m_afbuilders, f)
           spare == network.maxDuplicates - duplicates
<1>1. /\ network \in Networks /\ AnyBuilders(m_afbuilders) /\ delivered \in Int
      /\ sent \in 0 .. MaxPackets /\ sent \in Nat /\ f \in Fragment /\ f.packet \in Nat
      /\ f.packet \in Packets
  BY TypeFacts
<1>2. spare \in Nat /\ spare <= network.maxDuplicates
  BY TypeFacts
<1>3. Assumed /\ Timely /\ InFlight(net, sent) /\ (Undisturbed => Patient)
  BY DEF PftInv, Assumed
<1>4. f.packet < sent /\ sent - 1 - network.maxReorder <= f.packet
  BY <1>3 DEF InFlight
<1>5. Arrives(f, net, spare, flight, copies)
  OBVIOUS
<1> SUFFICES \E n \in Nat :
                /\ ToldNext(f) = Number(n) /\ delivered < n /\ DueIn(b, n, sent) /\ InRound(b, sent)
                /\ Undisturbed => /\ delivered # None => n = delivered + 1
                                  /\ Prepared(b, n, flight, sent, copies, f)
  OBVIOUS
<1> HIDE DEF spare
<1>6. CASE DOMAIN m_afbuilders = {}
  <2>1. Cleared /\ (Undisturbed => NotBegun)
    BY <1>6 DEF PftInv
  <2>2. ToldNext(f) = Number(f.packet)
    BY <1>6 DEF ToldNext, Pseq, Number
  <2>3. delivered < f.packet
    BY <2>1 DEF Cleared
  <2>4. DueIn(b, f.packet, sent) /\ \A k \in Packets : Has(b, k) => k = f.packet
    BY <1>1, <1>4, <1>6, PushFirst
  <2>5. InRound(b, sent)
    <3>1. sent - f.packet <= PseqModulus
      BY <1>1, <1>3, <1>4, TimelyFacts
    <3>2. QED
      BY <2>4, <3>1 DEF InRound
  <2>6. ASSUME Undisturbed
        PROVE  delivered = None /\ Prepared(b, f.packet, flight, sent, copies, f)
    <3>1. /\ delivered = None
          /\ \A k \in Packets, i \in Findex : k < sent => [packet |-> k, findex |-> i] \in net
      BY <2>1, <2>6 DEF NotBegun
    <3>2. Prepared(b, f.packet, flight, sent, copies, f)
      BY <1>1, <1>2, <1>3, <1>5, <1>6, <2>6, <3>1, PreparedFirst
    <3>3. QED
      BY <3>1, <3>2
  <2>7. QED
    BY <1>1, <2>2, <2>3, <2>4, <2>5, <2>6
<1>7. CASE DOMAIN m_afbuilders # {}
  <2>1. PICK n \in Nat : Due(n)
    BY <1>7 DEF PftInv
  <2>2. /\ ToldNext(f) = Number(n) /\ delivered < n /\ DueIn(m_afbuilders, n, sent)
        /\ Undisturbed => Continues(n)
    BY <1>7, <2>1 DEF Due, ToldNext
  <2>3. CASE Undisturbed
    <3>1. /\ delivered # None => n = delivered + 1
          /\ NoneMissing(m_afbuilders, n, net, sent) /\ NothingNewer(m_afbuilders, n)
          /\ TimeLeft(m_afbuilders, n, net, sent, spare)
      BY <2>2, <2>3 DEF Continues, spare
    <3>2. Prepared(b, n, flight, sent, copies, f) /\ DueIn(b, n, sent) /\ InRound(b, sent)
      BY <1>1, <1>2, <1>3, <1>5, <2>2, <2>3, <3>1, PreparedLater
    <3>3. QED
      BY <2>2, <3>1, <3>2
  <2>4. CASE ~Undisturbed
    <3>1. InRound(m_afbuilders, sent)
      BY <2>4, RoundTold
    <3>2. DueIn(b, n, sent) /\ InRound(b, sent)
      BY <1>1, <1>3, <1>4, <2>2, <3>1, PushLater
    <3>3. QED
      BY <2>2, <2>4, <3>2
  <2>5. QED
    BY <2>3, <2>4
<1>8. QED
  BY <1>6, <1>7

LEMMA PushStep ==
    ASSUME TypeOK, PftInv, Undisturbed \/ WithinRound, NEW f \in net, PushPacket(f),
           network' = network, sent' = sent, network.maxDuplicates - duplicates' \in Nat,
           Arrives(f, net, network.maxDuplicates - duplicates,
                   net', network.maxDuplicates - duplicates')
    PROVE  PftInv' /\ OrderKept
<1> DEFINE b == Pushed(m_afbuilders, f)
           copies == network.maxDuplicates - duplicates'
<1>1. /\ network \in Networks /\ AnyBuilders(m_afbuilders) /\ delivered \in Int
      /\ sent \in 0 .. MaxPackets /\ sent \in Nat /\ f \in Fragment
  BY TypeFacts
<1>2. copies \in Nat /\ copies <= network.maxDuplicates
  <2> DEFINE all == network.maxDuplicates
             before == all - duplicates
  <2>1. all \in Nat /\ before \in Nat /\ before <= all
    BY TypeFacts
  <2>2. copies \in Nat
    OBVIOUS
  <2>3. copies = before \/ copies + 1 = before
    BY DEF Arrives
  <2> HIDE DEF copies, all, before
  <2>4. copies <= all
    BY <2>1, <2>2, <2>3
  <2>5. QED
    BY <2>2, <2>4 DEF all
<1>3. PICK n \in Nat :
         /\ ToldNext(f) = Number(n) /\ delivered < n /\ DueIn(b, n, sent) /\ InRound(b, sent)
         /\ Undisturbed => /\ delivered # None => n = delivered + 1
                           /\ Prepared(b, n, net', sent, copies, f)
  BY Pushing
<1>4. Outcome(b, n)
  BY <1>3, Outcomes
<1>5. Assumed /\ Timely /\ InFlight(net, sent) /\ (Undisturbed => Patient)
  BY DEF PftInv, Assumed
<1>6. InFlight(net', sent)
  BY <1>5 DEF Arrives, InFlight
<1>7. AnyBuilders(b)
  BY <1>1, PushedBuilders
<1> HIDE DEF b
<1>8. Emptied(n, sent) \/ Same(n, sent) \/ Gone(n, sent)
  BY <1>1, <1>3, <1>4, <1>5, Ordered
<1>9. Assumed' /\ InFlight(net, sent)' /\ (Undisturbed' <=> Undisturbed)
  BY <1>5, <1>6, SameNetwork DEF InFlight
<1>10. Undisturbed =>
          \/ Same(n, sent) /\ Ongoing(m_afbuilders', n, net', sent, copies)
          \/ Gone(n, sent) /\ handed' = n /\ Ongoing(m_afbuilders', n + 1, net', sent, copies)
  BY <1>1, <1>2, <1>3, <1>4, <1>5, <1>6, <1>7, OngoingStep
<1>11. ASSUME NEW m \in Nat, Due(m)' PROVE PftInv'
  <2>1. DueIn(m_afbuilders', m, sent')
    BY <1>11 DEF Due, DueIn, Has, Holds, Built, Number
  <2>2. DOMAIN m_afbuilders' # {}
    BY <2>1, DueNotEmpty
  <2>3. QED
    BY <1>9, <1>11, <2>2 DEF PftInv
<1>12. ASSUME Same(n, sent), Undisturbed => Ongoing(m_afbuilders', n, net', sent, copies)
       PROVE  PftInv' /\ OrderKept
  <2>1. Due(n)'
    BY <1>3, <1>12, DueNext DEF Same
  <2>2. QED
    BY <1>11, <1>12, <2>1 DEF Same, OrderKept
<1>13. ASSUME Gone(n, sent),
              Undisturbed => handed' = n /\ Ongoing(m_afbuilders', n + 1, net', sent, copies)
       PROVE  PftInv' /\ OrderKept
  <2>1. n + 1 \in Nat /\ delivered' < n + 1
    BY <1>1, <1>3, <1>13 DEF Gone
  <2>2. Undisturbed => (delivered' # None => n + 1 = delivered' + 1)
    BY <1>3, <1>13 DEF Gone, None
  <2>3. Due(n + 1)'
    BY <1>13, <2>1, <2>2, DueNext DEF Gone
  <2>4. OrderKept
    BY <1>1, <1>3, <1>13 DEF Gone, OrderKept
  <2>5. QED
    BY <1>11, <2>1, <2>3, <2>4
<1>14. CASE Undisturbed
  BY <1>10, <1>12, <1>13, <1>14
<1>15. CASE ~Undisturbed
  <2>1. CASE Emptied(n, sent)
    <3>1. DOMAIN m_afbuilders' = {} /\ delivered' = delivered /\ handed' = None /\ n < sent
      BY <2>1 DEF Emptied
    <3>2. ASSUME NEW g \in net' PROVE delivered' < g.packet
      <4>1. g \in net /\ sent - 1 - network.maxReorder <= g.packet
        BY <1>6 DEF Arrives, InFlight
      <4>2. g.packet \in Int
        BY <4>1, TypeFacts
      <4>3. n <= g.packet
        BY <2>1, <4>1, <4>2 DEF Emptied
      <4>4. QED
        BY <1>1, <1>3, <3>1, <4>2, <4>3
    <3>3. delivered' < sent'
      BY <1>1, <1>3, <3>1
    <3>4. Cleared'
      BY <3>2, <3>3 DEF Cleared
    <3>5. QED
      BY <1>9, <1>15, <3>1, <3>4 DEF PftInv, OrderKept
  <2>2. QED
    BY <1>8, <1>12, <1>13, <1>15, <2>1
<1>16. QED
  BY <1>14, <1>15

LEMMA SendStep ==
    ASSUME TypeOK, PftInv, SendPacket
    PROVE  PftInv' /\ OrderKept
<1> DEFINE new == [packet : {sent}, findex : Findex]
<1>1. /\ network \in Networks /\ delivered \in Int /\ sent \in Nat
      /\ network.maxReorder \in Nat
      /\ \A f \in net : f \in Fragment /\ f.packet \in Nat
  BY TypeFacts, NetworkType
<1>2. /\ net' = net \cup new /\ sent' = sent + 1 /\ network' = network
      /\ m_afbuilders' = m_afbuilders /\ m_next_pseq' = m_next_pseq /\ delivered' = delivered
      /\ handed' = None /\ duplicates' = duplicates
      /\ \A f \in net : sent - f.packet <= network.maxReorder
  BY DEF SendPacket, NoCall
<1>3. Assumed /\ InFlight(net, sent)
  BY DEF PftInv
<1>4. Assumed' /\ (Undisturbed' <=> Undisturbed)
  BY <1>2, <1>3, SameNetwork
<1>5. \A f \in new : f.packet = sent
  OBVIOUS
<1>6. \A k, i : i \in Findex => ([packet |-> k, findex |-> i] \in new <=> k = sent)
  OBVIOUS
<1> HIDE DEF new
<1>7. InFlight(net, sent)'
  <2>1. ASSUME NEW f \in net'
        PROVE  f.packet < sent' /\ sent' - 1 - network'.maxReorder <= f.packet
    <3>1. CASE f \in new
      BY <1>1, <1>2, <1>5, <3>1
    <3>2. CASE f \in net
      BY <1>1, <1>2, <1>3, <3>2 DEF InFlight
    <3>3. QED
      BY <1>2, <2>1, <3>1, <3>2
  <2>2. QED
    BY <2>1 DEF InFlight
<1>8. CASE DOMAIN m_afbuilders = {}
  <2>1. Cleared /\ (Undisturbed => NotBegun)
    BY <1>8 DEF PftInv
  <2>2. Cleared'
    <3>1. delivered < sent + 1
      BY <1>1, <2>1 DEF Cleared
    <3>2. \A f \in net' : delivered < f.packet
      BY <1>2, <1>5, <2>1 DEF Cleared
    <3>3. QED
      BY <1>2, <3>1, <3>2 DEF Cleared
  <2>3. ASSUME Undisturbed PROVE NotBegun'
    <3>1. ASSUME NEW k \in Packets, NEW i \in Findex, k < sent + 1
          PROVE  [packet |-> k, findex |-> i] \in net'
      <4>1. k < sent \/ k = sent
        BY <1>1, <3>1, PacketNumbers
      <4>2. QED
        BY <1>2, <1>6, <2>1, <2>3, <4>1 DEF NotBegun
    <3>2. QED
      BY <1>2, <2>1, <2>3, <3>1 DEF NotBegun
  <2>4. QED
    BY <1>2, <1>4, <1>7, <1>8, <2>2, <2>3 DEF PftInv, OrderKept
<1>9. CASE DOMAIN m_afbuilders # {}
  <2> DEFINE b == m_afbuilders
             copies == network.maxDuplicates - duplicates
  <2>1. PICK n \in Nat : Due(n)
    BY <1>9 DEF PftInv
  <2>2. /\ m_next_pseq = Number(n) /\ delivered < n /\ DueIn(b, n, sent)
        /\ Undisturbed => (delivered # None => n = delivered + 1) /\ Ongoing(b, n, net, sent, copies)
    BY <2>1 DEF Due, Continues, Ongoing
  <2> HIDE DEF b, copies
  <2>3. DueIn(b, n, sent + 1)
    <3>1. \A k \in Packets : k < sent => k < sent + 1
      BY <1>1, PacketNumbers
    <3>2. n <= sent + 1
      BY <1>1, <2>2 DEF DueIn
    <3>3. QED
      BY <2>2, <3>1, <3>2 DEF DueIn, Built
  <2>4. ASSUME Undisturbed PROVE Ongoing(b, n, net', sent + 1, copies)
    <3>1. NoneMissing(b, n, net', sent + 1)
      <4>1. ASSUME NEW k \in Packets, NEW i \in Findex, n <= k, k < sent + 1,
                   [packet |-> k, findex |-> i] \notin net'
            PROVE  Has(b, k) /\ b[Number(k)].frags[i] = k
        <5>1. k # sent /\ [packet |-> k, findex |-> i] \notin net
          BY <1>2, <1>6, <4>1
        <5>2. k < sent
          BY <1>1, <4>1, <5>1, PacketNumbers
        <5>3. QED
          BY <2>2, <2>4, <4>1, <5>1, <5>2 DEF Ongoing, NoneMissing
      <4>2. QED
        BY <4>1 DEF NoneMissing
    <3>2. Coming(n, net', sent + 1) = Coming(n, net, sent)
      <4>1. ASSUME NEW f \in Around(n)
            PROVE  f \in net' \/ sent + 1 <= f.packet <=> f \in net \/ sent <= f.packet
        <5>1. f.packet \in Int /\ f.findex \in Findex /\ f = [packet |-> f.packet, findex |-> f.findex]
          BY DEF Around
        <5>2. f \in new <=> f.packet = sent
          BY <1>6, <5>1
        <5>3. sent <= f.packet <=> sent + 1 <= f.packet \/ f.packet = sent
          BY <1>1, <5>1
        <5>4. QED
          BY <1>2, <5>2, <5>3
      <4>2. QED
        BY <4>1 DEF Coming
    <3>3. QED
      BY <2>2, <2>4, <3>1, <3>2 DEF Ongoing, TimeLeft
  <2>5. Due(n)'
    <3>1. DueIn(m_afbuilders', n, sent') /\ m_next_pseq' = Number(n) /\ delivered' < n
      BY <1>2, <2>2, <2>3 DEF b
    <3>2. Undisturbed => /\ delivered' # None => n = delivered' + 1
                         /\ Ongoing(m_afbuilders', n, net', sent', network.maxDuplicates - duplicates')
      BY <1>2, <2>2, <2>4 DEF b, copies
    <3>3. QED
      BY <1>2, <3>1, <3>2, DueNext
  <2>6. QED
    BY <1>2, <1>4, <1>7, <1>9, <2>5 DEF PftInv, OrderKept
<1>10. QED
  BY <1>8, <1>9

LEMMA LoseStep ==
    ASSUME TypeOK, PftInv, Lose
    PROVE  PftInv' /\ OrderKept
<1>1. /\ net' \subseteq net /\ sent' = sent /\ network' = network
      /\ m_afbuilders' = m_afbuilders /\ m_next_pseq' = m_next_pseq /\ delivered' = delivered
      /\ handed' = None /\ duplicates' = duplicates
  BY DEF Lose, NoCall
<1>2. Assumed' /\ (Undisturbed' <=> Undisturbed)
  BY <1>1, SameNetwork DEF PftInv
<1>3. ~Undisturbed
  <2>1. lost \in 0 .. network.maxLost /\ lost < network.maxLost /\ network.maxLost \in Nat
    BY NetworkType DEF TypeOK, Lose
  <2>2. network.maxLost # 0
    BY <2>1
  <2>3. QED
    BY <2>2 DEF Undisturbed
<1>4. InFlight(net, sent)'
  BY <1>1 DEF PftInv, InFlight
<1>5. CASE DOMAIN m_afbuilders = {}
  <2>1. Cleared'
    BY <1>1, <1>5 DEF PftInv, Cleared
  <2>2. QED
    BY <1>1, <1>2, <1>3, <1>4, <1>5, <2>1 DEF PftInv, OrderKept
<1>6. CASE DOMAIN m_afbuilders # {}
  <2>1. PICK n \in Nat : Due(n)
    BY <1>6 DEF PftInv
  <2>2. Due(n)'
    BY <1>1, <1>3, <2>1, DueNext DEF Due
  <2>3. QED
    BY <1>1, <1>2, <1>4, <1>6, <2>2 DEF PftInv, OrderKept
<1>7. QED
  BY <1>5, <1>6

LEMMA PftStep ==
    ASSUME TypeOK, TypeOK', PftInv, Undisturbed \/ WithinRound, [Next]_vars
    PROVE  PftInv' /\ (UNCHANGED vars \/ OrderKept)
<1> DEFINE spare == network.maxDuplicates - duplicates
<1>1. /\ network.maxDuplicates \in Nat /\ duplicates \in Nat /\ spare \in Nat
  BY TypeFacts
<1>2. ASSUME UNCHANGED vars PROVE PftInv'
  <2>1. /\ net' = net /\ sent' = sent /\ network' = network
        /\ m_afbuilders' = m_afbuilders /\ m_next_pseq' = m_next_pseq /\ delivered' = delivered
        /\ duplicates' = duplicates
    BY <1>2 DEF vars
  <2>2. Assumed' /\ (Undisturbed' <=> Undisturbed)
    BY <2>1, SameNetwork DEF PftInv
  <2>3. InFlight(net, sent)'
    BY <2>1 DEF PftInv, InFlight
  <2>4. CASE DOMAIN m_afbuilders = {}
    BY <2>1, <2>2, <2>3, <2>4 DEF PftInv, Cleared, NotBegun
  <2>5. CASE DOMAIN m_afbuilders # {}
    <3>1. PICK n \in Nat : Due(n)
      BY <2>5 DEF PftInv
    <3>2. Due(n)'
      BY <2>1, <3>1, DueNext DEF Due, Continues, Ongoing
    <3>3. QED
      BY <2>1, <2>2, <2>3, <2>5, <3>2 DEF PftInv
  <2>6. QED
    BY <2>4, <2>5
<1>3. CASE SendPacket
  BY <1>3, SendStep
<1>4. CASE Receive
  <2>1. PICK f \in net : PushPacket(f) /\ net' = net \ {f}
    BY <1>4 DEF Receive
  <2>2. network' = network /\ sent' = sent /\ duplicates' = duplicates
    BY <1>4 DEF Receive
  <2>3. /\ network.maxDuplicates - duplicates' \in Nat
        /\ Arrives(f, net, spare, net', network.maxDuplicates - duplicates')
    BY <1>1, <2>1, <2>2 DEF Arrives
  <2>4. QED
    BY <2>1, <2>2, <2>3, PushStep
<1>5. CASE ReceiveCopy
  <2>1. PICK f \in net : PushPacket(f)
    BY <1>5 DEF ReceiveCopy
  <2>2. /\ network' = network /\ sent' = sent /\ net' = net
        /\ duplicates < network.maxDuplicates /\ duplicates' = duplicates + 1
    BY <1>5 DEF ReceiveCopy
  <2>3. /\ network.maxDuplicates - duplicates' \in Nat
        /\ (network.maxDuplicates - duplicates') + 1 = spare
    <3> DEFINE all == network.maxDuplicates
    <3>1. all \in Nat /\ duplicates \in Nat /\ duplicates < all /\ duplicates' = duplicates + 1
      BY <1>1, <2>2
    <3> HIDE DEF all
    <3>2. all - (duplicates + 1) \in Nat /\ (all - (duplicates + 1)) + 1 = all - duplicates
      BY <3>1
    <3>3. QED
      BY <3>1, <3>2 DEF all
  <2>4. Arrives(f, net, spare, net', network.maxDuplicates - duplicates')
    BY <2>2, <2>3 DEF Arrives
  <2>5. QED
    BY <2>1, <2>2, <2>3, <2>4, PushStep
<1>6. CASE Lose
  BY <1>6, LoseStep
<1>7. CASE Done
  BY <1>2, <1>7 DEF Done
<1>8. CASE UNCHANGED vars
  BY <1>2, <1>8
<1>9. QED
  BY <1>3, <1>4, <1>5, <1>6, <1>7, <1>8 DEF Next

LEMMA PftInitially == Init /\ Assumed => PftInv
<1> SUFFICES ASSUME Init, Assumed PROVE PftInv
  OBVIOUS
<1>1. /\ DOMAIN m_afbuilders = {} /\ delivered = -1 /\ sent = 0 /\ net = {}
  BY DEF Init, NoBuilders, None
<1>2. InFlight(net, sent) /\ Cleared
  BY <1>1 DEF InFlight, Cleared
<1>3. NotBegun
  <2>1. \A k \in Packets : ~(k < 0)
    BY PacketNumbers
  <2>2. QED
    BY <1>1, <2>1 DEF NotBegun, None
<1>4. QED
  BY <1>1, <1>2, <1>3 DEF PftInv

(* Packets are handed on in the order they were sent, each once, with any  *)
(* number of lost and repeated fragments, when the sequence number wraps   *)
(* and when the builders are cleared; undisturbed, none is left out        *)
(* (push_packet() of lib/edi/common.cpp, getNextAFPacket() of PFT.cpp).    *)
(* The settings are as Assumed says, and a decoder that loses packets does *)
(* not fall a round behind.                                                *)
THEOREM PftInOrder == Spec /\ Assumed /\ [](Undisturbed \/ WithinRound) => InOrder
<1>1. Init /\ Assumed => TypeOK /\ PftInv
  BY TypeInitially, PftInitially
<1>2. /\ TypeOK /\ PftInv /\ (Undisturbed \/ WithinRound) /\ [Next]_vars
         => (TypeOK /\ PftInv)' /\ [OrderKept]_vars
  <2>1. ASSUME TypeOK, PftInv, Undisturbed \/ WithinRound, [Next]_vars
        PROVE  TypeOK' /\ PftInv' /\ [OrderKept]_vars
    <3>1. TypeOK'
      BY <2>1, TypeStep
    <3>2. PftInv' /\ (UNCHANGED vars \/ OrderKept)
      BY <2>1, <3>1, PftStep
    <3>3. QED
      BY <3>1, <3>2
  <2>2. QED
    BY <2>1
<1>3. Spec /\ Assumed /\ [](Undisturbed \/ WithinRound) => [][OrderKept]_vars
  BY <1>1, <1>2, PTL DEF Spec
<1>4. QED
  BY <1>3 DEF InOrder, OrderKept
=============================================================================
