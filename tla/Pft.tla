--------------------------------- MODULE Pft ---------------------------------
(***************************************************************************)
(* lib/edi/PFT.cpp, called from TagDispatcher::push_packet of              *)
(* lib/edi/common.cpp: AF packets arrive over UDP cut into fragments, from *)
(* one or several ports, lost, duplicated and out of order, and are put    *)
(* together again and handed on in the order of their sequence number.     *)
(*                                                                         *)
(* Packets are numbered as they are sent; a packet's sequence number is    *)
(* its number modulo PseqModulus, and a fragment is a record of the packet *)
(* it belongs to and its index.  All packets have Fcount fragments, with   *)
(* the same header fields, so that the consistency checks pass.            *)
(***************************************************************************)
EXTENDS Integers, FiniteSets

CONSTANTS PseqModulus,   \* 2^16 in the code
          Fcount,        \* fragments per packet
          KeepBuilders,  \* NUM_AFBUILDERS_TO_KEEP, 10 in the code
          MaxPackets,    \* bound: packets sent
          Window,        \* bound: fragments in flight
          Networks       \* what the multiplexer and the network do, one of these

(* rxMin: fragments Reed-Solomon decoding needs, Fcount without FEC.       *)
(* maxLost, maxDuplicates: bounds on lost and repeated fragments.          *)
(* maxReorder: newer packets sent while a fragment is in flight.           *)
(* maxDelay: m_max_delay, 10 by default, set from edi_max_delay.           *)
Network == [rxMin : 1 .. Fcount, maxLost : Nat, maxDuplicates : Nat, maxReorder : Nat,
            maxDelay : Nat \ {0}]

ASSUME PftAssumption ==
    /\ PseqModulus \in Nat \ {0} /\ Fcount \in Nat \ {0}
    /\ KeepBuilders \in Nat
    /\ MaxPackets \in Nat /\ Window \in Nat
    /\ Networks \subseteq Network

Findex == 0 .. Fcount - 1
Pseqs == 0 .. PseqModulus - 1
None == -1
Packets == 0 .. MaxPackets - 1
Fragment == [packet : Packets, findex : Findex]

VARIABLES network,
          m_afbuilders,  \* pseq |-> fragments received and lifeTime
          m_next_pseq,
          delivered,     \* packet handed to decode_afpacket last
          handed,        \* packet handed on in the step just made, None if none was
          sent, net,     \* packets sent, fragments in flight
          lost, duplicates

vars == <<network, m_afbuilders, m_next_pseq, delivered, handed, sent, net, lost, duplicates>>

NoBuilders == [q \in {} |-> None]

Init == /\ network \in Networks
        /\ m_afbuilders = NoBuilders /\ m_next_pseq = 0
        /\ delivered = None /\ handed = None
        /\ sent = 0 /\ net = {} /\ lost = 0 /\ duplicates = 0

Pseq(fragment) == fragment.packet % PseqModulus

-----------------------------------------------------------------------------
(* pushPFTFrag: of a fragment that is there already the first copy stays.  *)

(* (slip: the lifetime is counted in packets, not in fragments) *)
NewBuilderShortLived == [frags |-> [i \in Findex |-> None], lifeTime |-> network.maxDelay]

NewBuilder == [frags |-> [i \in Findex |-> None], lifeTime |-> Fcount * network.maxDelay]

AddFragment(builder, fragment) ==
    IF builder.frags[fragment.findex] # None THEN builder
    ELSE [builder EXCEPT !.frags[fragment.findex] = fragment.packet]

Pushed(builders, fragment) ==
    LET p == Pseq(fragment)
    IN  [q \in DOMAIN builders \cup {p} |->
            IF q # p THEN builders[q]
            ELSE AddFragment(IF p \in DOMAIN builders THEN builders[p] ELSE NewBuilder, fragment)]

-----------------------------------------------------------------------------
(* getNextAFPacket.                                                        *)

Received(builder) == {i \in Findex : builder.frags[i] # None}

(* canAttemptToDecode(): yes, maybe or no.                                 *)
Complete(builder) == Cardinality(Received(builder)) = Fcount
MaybeComplete(builder) == ~Complete(builder) /\ Cardinality(Received(builder)) >= network.rxMin

(* extractAF(): fragments of different packets make no valid packet (CRC). *)
Assembled(builder) ==
    LET sources == {builder.frags[i] : i \in Received(builder)}
    IN  IF Cardinality(sources) = 1 THEN CHOOSE k \in sources : TRUE ELSE None

(* incrementNextPseq(): builders are kept for a while, so that late        *)
(* fragments of a packet handed on already do no harm.                     *)
(* (slip: no builder is erased) *)
KeptForever(builders, next) == builders

Kept(builders, next) ==
    LET old == (next - KeepBuilders) % PseqModulus
    IN  [q \in DOMAIN builders \ {old} |-> builders[q]]

HandOn(packet) == /\ handed' = packet
                  /\ delivered' = IF packet = None THEN delivered ELSE packet

(* The packet that is due has not begun to arrive.                         *)
NextMissing(builders, next) ==
    /\ next \notin DOMAIN builders
    /\ IF Cardinality(DOMAIN builders) > network.maxDelay
       THEN m_afbuilders' = NoBuilders
       ELSE m_afbuilders' = builders
    /\ m_next_pseq' = next /\ HandOn(None)

Advance(builders, next) ==
    /\ m_next_pseq' = (next + 1) % PseqModulus
    /\ m_afbuilders' = Kept(builders, next)

NextComplete(builders, next) ==
    /\ next \in DOMAIN builders /\ Complete(builders[next])
    /\ HandOn(Assembled(builders[next]))
    /\ Advance(builders, next)

(* lifeTime counts calls; when it has run out Reed-Solomon decoding is     *)
(* tried if enough fragments are there, which may fail, and the packet is  *)
(* given up or handed on.                                                  *)
NextIncomplete(builders, next) ==
    /\ next \in DOMAIN builders /\ ~Complete(builders[next])
    /\ LET life == IF builders[next].lifeTime > 0 THEN builders[next].lifeTime - 1 ELSE 0
           aged == [builders EXCEPT ![next].lifeTime = life]
       IN  IF life > 0
           THEN m_afbuilders' = aged /\ m_next_pseq' = next /\ HandOn(None)
           ELSE /\ \/ MaybeComplete(builders[next]) /\ HandOn(Assembled(builders[next]))
                   \/ HandOn(None)
                /\ Advance(aged, next)

(* push_packet: a fragment is added, then one packet at most is handed on. *)
PushPacket(fragment) ==
    LET next == IF DOMAIN m_afbuilders = {} THEN Pseq(fragment) ELSE m_next_pseq
        builders == Pushed(m_afbuilders, fragment)
    IN  \/ NextMissing(builders, next)
        \/ NextComplete(builders, next)
        \/ NextIncomplete(builders, next)

-----------------------------------------------------------------------------
(* The multiplexer and the network.                                        *)

NoCall == /\ handed' = None
          /\ UNCHANGED <<m_afbuilders, m_next_pseq, delivered>>

SendPacket == /\ sent < MaxPackets /\ Cardinality(net) + Fcount <= Window
              /\ \A fragment \in net : sent - fragment.packet <= network.maxReorder
              /\ net' = net \cup [packet : {sent}, findex : Findex]
              /\ sent' = sent + 1
              /\ NoCall /\ UNCHANGED <<network, lost, duplicates>>

Receive == \E fragment \in net : /\ PushPacket(fragment)
                                 /\ net' = net \ {fragment}
                                 /\ UNCHANGED <<network, sent, lost, duplicates>>

(* The same fragment arrives again later, for example from another port.   *)
ReceiveCopy == /\ duplicates < network.maxDuplicates /\ duplicates' = duplicates + 1
               /\ \E fragment \in net : PushPacket(fragment)
               /\ UNCHANGED <<network, sent, net, lost>>

Lose == /\ lost < network.maxLost /\ lost' = lost + 1
        /\ \E fragment \in net : net' = net \ {fragment}
        /\ NoCall /\ UNCHANGED <<network, sent, duplicates>>

Done == sent = MaxPackets /\ net = {} /\ UNCHANGED vars

Next == SendPacket \/ Receive \/ ReceiveCopy \/ Lose \/ Done

Spec == Init /\ [][Next]_vars

-----------------------------------------------------------------------------
Builder == [frags : [Findex -> Packets \cup {None}], lifeTime : 0 .. Fcount * network.maxDelay]

TypeOK == /\ network \in Networks
          /\ DOMAIN m_afbuilders \subseteq Pseqs
          /\ \A q \in DOMAIN m_afbuilders : m_afbuilders[q] \in Builder
          /\ m_next_pseq \in Pseqs /\ delivered \in Packets \cup {None}
          /\ handed \in Packets \cup {None}
          /\ sent \in 0 .. MaxPackets
          /\ net \subseteq Fragment /\ lost \in 0 .. network.maxLost
          /\ duplicates \in 0 .. network.maxDuplicates

(* Packets are handed on in the order they were sent, each once, whatever  *)
(* is lost, repeated or completed by Reed-Solomon decoding, also when the  *)
(* sequence number wraps and when the builders are cleared.  It needs      *)
(* fragments that are less than KeepBuilders packets late: a builder made  *)
(* for a later one stays until its number comes round again.               *)
(*                                                                         *)
(* While nothing is lost, whatever is repeated, and a packet is overtaken  *)
(* by the next one at most, nothing is left out once the first packet has  *)
(* been handed on: if the delay is more than the number of builders kept,  *)
(* which getNextAFPacket counts as packets waiting.                        *)
Undisturbed == /\ network.maxLost = 0 /\ network.maxReorder <= 1
               /\ network.maxDelay > KeepBuilders

InOrder == [][handed' # None =>
                 IF Undisturbed /\ delivered # None THEN handed' = delivered + 1
                 ELSE handed' > delivered]_vars
=============================================================================
