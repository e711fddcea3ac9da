-------------------------------- MODULE Coding --------------------------------
(***************************************************************************)
(* What elements of the flowgraph do to bits and carriers, with their      *)
(* tables, masks and loops, against what ETSI EN 300 401 says of it: the   *)
(* time and the frequency interleaver, the energy dispersal, the           *)
(* convolutional encoder and the transmitter identification (TII).  A      *)
(* behaviour is one of one element.                                        *)
(***************************************************************************)
EXTENDS Integers, Sequences, FiniteSets

CONSTANTS Elements,       \* those to look at, and in which transmission mode
          MaxFrames,      \* bound: frames interleaved in time
          FrameBytes,      \* bytes dispersed, and encoded
          Combs, Patterns \* what the remote control sets, valid or not

VARIABLES element, mode,
          count,     \* frames, bytes, bits or rounds of a loop processed
          register,  \* what the element remembers
          made       \* what it has made

vars == <<element, mode, count, register, made>>

Bit(n, k) == (n \div 2^k) % 2
Parity(bits) == Cardinality({k \in DOMAIN bits : bits[k] = 1}) % 2

-----------------------------------------------------------------------------
(* TimeInterleaver::process(): d_history is turned by one frame, of which  *)
(* every 16 bits, from the most significant one on, come from frames at    *)
(* these places.  A frame is its number, that of silence is 0.             *)
Places == <<0, 8, 4, 12, 2, 10, 6, 14, 1, 9, 5, 13, 3, 11, 7, 15>>
NoHistory == [i \in 1 .. 16 |-> 0]

(* (slip: the oldest frame is dropped first, and the newest is at its place) *)
TurnedBack(history) == Append(Tail(history), count + 1)

Turned(history) == <<count + 1>> \o SubSeq(history, 1, 15)

Interleave == /\ element = "TimeInterleaver" /\ count < MaxFrames
              /\ register' = Turned(register)
              /\ made' = [i \in 0 .. 15 |-> register'[Places[i + 1] + 1]]
              /\ count' = count + 1

-----------------------------------------------------------------------------
(* FrequencyInterleaver's constructor, which makes the permutation.        *)
Carriers == CASE mode = 1 -> 1536 [] mode = 2 -> 384 [] mode = 3 -> 192 [] OTHER -> 768
Num == CASE mode = 1 -> 2048 [] mode = 2 -> 512 [] mode = 3 -> 256 [] OTHER -> 1024
Alpha == 13
Beta == Num \div 4 - 1

(* (slip: the middle, DC, is used) *)
InBandWithDc(perm) == perm \in (Num - Carriers) \div 2 .. Num - (Num - Carriers) \div 2

InBand(perm) == /\ perm >= (Num - Carriers) \div 2 /\ perm <= Num - (Num - Carriers) \div 2
                /\ perm # Num \div 2

IndexOf(perm) == IF perm > Num \div 2 THEN perm - (1 + Num \div 2)
                 ELSE perm + Carriers - Num \div 2

Permute == /\ element = "FrequencyInterleaver" /\ count < Num - 1
           /\ register' = (Alpha * register + Beta) % Num
           /\ made' = IF InBand(register') THEN Append(made, IndexOf(register')) ELSE made
           /\ count' = count + 1

(* What OfdmGenerator makes of an index: positive frequencies come first,  *)
(* in the bins from 1 on, then the negative ones, in the last bins.        *)
Bin(index) == IF index < Carriers \div 2 THEN index + 1
              ELSE Num - Carriers \div 2 + (index - Carriers \div 2)

Frequency(index) == IF Bin(index) <= Num \div 2 THEN Bin(index) ELSE Bin(index) - Num

-----------------------------------------------------------------------------
(* PrbsGenerator for the polynomial 0x110, eight bits at a time: a table   *)
(* for each byte of the register tells what eight shifts of it would put   *)
(* into the last byte.  Bits are numbered from the least significant one.  *)
Feedback == {4, 8}
Register == 0 .. 31

Shift(accum) == [k \in Register |-> IF k = 0 THEN Parity([t \in Feedback |-> accum[t]])
                                    ELSE accum[k - 1]]

Shift2(accum) == Shift(Shift(accum))
Shift8(accum) == Shift2(Shift2(Shift2(Shift2(accum))))

TableEntry(i, accum) ==
    Shift8([k \in Register |-> IF k \div 8 = i THEN accum[k] ELSE 0])

(* (slip: the last byte alone) *)
UpdatedByte(accum) ==
    [k \in Register |-> IF k >= 8 THEN accum[k - 8] ELSE TableEntry(0, accum)[k]]

Updated(accum) == [k \in Register |-> IF k >= 8 THEN accum[k - 8]
                                      ELSE Parity([i \in 0 .. 3 |-> TableEntry(i, accum)[k]])]

(* As many ones as it takes to reach the polynomial.                       *)
Seed == [k \in Register |-> IF 2^(IF k > 9 THEN 9 ELSE k) - 1 < 272 THEN 1 ELSE 0]

LastByte(accum) == [i \in 1 .. 8 |-> accum[8 - i]]

(* (slip: the register is kept from one frame to the next) *)
StartKept == register

Start == IF count = FrameBytes THEN Seed ELSE register

Disperse == /\ element = "PrbsGenerator"
            /\ register' = Updated(Start)
            /\ made' = (IF count = FrameBytes THEN <<>> ELSE made) \o LastByte(register')
            /\ count' = IF count = FrameBytes THEN 1 ELSE count + 1

-----------------------------------------------------------------------------
(* ConvEncoder::process(): the newest of seven bits of memory is the most  *)
(* significant one; six zeros end the frame.  The bits encoded are kept,   *)
(* newest first, beside the word made of them.                             *)
Masks == <<91, 121, 101, 91>>
EncodedBits == 8 * FrameBytes + 6

(* (slip: the other way round) *)
RememberLow(memory, bit) == ((memory * 2) % 128) + bit

Remember(memory, bit) == memory \div 2 + 64 * bit

Encode == /\ element = "ConvEncoder" /\ count < EncodedBits
          /\ \E bit \in IF count < 8 * FrameBytes THEN {0, 1} ELSE {0} :
                /\ register' = Remember(register, bit)
                /\ made' = [past |-> SubSeq(<<bit>> \o made.past, 1,
                                            IF Len(made.past) < 6 THEN Len(made.past) + 1 ELSE 7),
                            word |-> [k \in 1 .. 4 |->
                                Parity([b \in 0 .. 6 |-> Bit(register', b) * Bit(Masks[k], b)])]]
          /\ count' = count + 1

NoWord == [past |-> <<>>, word |-> <<0, 0, 0, 0>>]

EncodeNext == /\ element = "ConvEncoder" /\ count = EncodedBits
              /\ count' = 0 /\ register' = 0 /\ made' = NoWord

-----------------------------------------------------------------------------
(* TII: the patterns are all the ways to choose four of eight, in order.   *)
FourOfEight == {n \in 0 .. 255 : Cardinality({k \in 0 .. 7 : Bit(n, k) = 1}) = 4}
Rows == [p \in 0 .. 69 |->
            CHOOSE n \in FourOfEight : Cardinality({m \in FourOfEight : m < n}) = p]
InPattern(conf, b) == Bit(Rows[conf.pattern], 7 - b) = 1

(* The k of the loops of prepare_pattern().                                *)
Specified(conf) ==
    IF mode = 1
    THEN {k + 2 * conf.comb + 48 * b : k \in {-768, -384, 1, 385},
                                       b \in {c \in 0 .. 7 : InPattern(conf, c)}}
    ELSE {(IF b < 4 THEN -192 ELSE -191) + 2 * conf.comb + 48 * b :
              b \in {c \in 0 .. 7 : InPattern(conf, c)}}

CarrierIndex(k) == Carriers \div 2 + k + (IF k >= 0 THEN -1 ELSE 0)

(* (slip: the previous pattern is not cleared) *)
PreparePatternKept(conf) == made' = made \cup {CarrierIndex(k) : k \in Specified(conf)}

PreparePattern(conf) == made' = {CarrierIndex(k) : k \in Specified(conf)}

SetParameter ==
    /\ element = "TII" /\ UNCHANGED count
    /\ \/ \E pattern \in Patterns :
             \/ /\ pattern \in 0 .. 69
                /\ register' = [register EXCEPT !.pattern = pattern]
                /\ PreparePattern(register')
             \/ pattern \notin 0 .. 69 /\ UNCHANGED <<register, made>>
       \/ \E comb \in Combs :
             \/ /\ comb \in 0 .. 23
                /\ register' = [register EXCEPT !.comb = comb]
                /\ PreparePattern(register')
             \/ comb \notin 0 .. 23 /\ UNCHANGED <<register, made>>

-----------------------------------------------------------------------------
DefaultTii == [comb |-> 0, pattern |-> 0]

Init ==
    /\ \E e \in Elements : element = e.name /\ mode = e.mode
    /\ count = 0
    /\ \/ element = "TimeInterleaver" /\ register = NoHistory /\ made = [i \in 0 .. 15 |-> 0]
       \/ element = "FrequencyInterleaver" /\ register = 0 /\ made = <<>>
       \/ element = "PrbsGenerator" /\ register = Seed /\ made = <<>>
       \/ element = "ConvEncoder" /\ register = 0 /\ made = NoWord
       \/ /\ element = "TII" /\ register = DefaultTii
          /\ made = {CarrierIndex(k) : k \in Specified(DefaultTii)}

Ready == /\ \/ element = "TimeInterleaver" /\ count = MaxFrames
            \/ element = "FrequencyInterleaver" /\ count = Num - 1
         /\ UNCHANGED vars

Next == \/ (Interleave \/ Permute \/ Disperse \/ Encode \/ EncodeNext \/ SetParameter)
           /\ UNCHANGED <<element, mode>>
        \/ Ready

Spec == Init /\ [][Next]_vars

-----------------------------------------------------------------------------
(* Bit i of 16 is late by i with its four digits reversed.                 *)
Reversed(i) == 8 * Bit(i, 0) + 4 * Bit(i, 1) + 2 * Bit(i, 2) + Bit(i, 3)

EachBitItsDelay ==
    element = "TimeInterleaver" =>
        \A i \in 0 .. 15 : made[i] = (IF count > Reversed(i) THEN count - Reversed(i) ELSE 0)

(* Every carrier is used once, but not DC, and the element after next puts *)
(* it where the permutation says.                                          *)
EachCarrierOnce ==
    element = "FrequencyInterleaver" =>
        /\ count > 0 /\ InBand(register) => Frequency(made[Len(made)]) = register - Num \div 2
        /\ count = Num - 1 => /\ Len(made) = Carriers
                              /\ {made[i] : i \in DOMAIN made} = 0 .. Carriers - 1

(* x^9 + x^5 + 1, from nine ones before the first bit, in every frame.     *)
Dispersed(n) == IF n < 1 THEN 1 ELSE made[n]

Recurrence ==
    element = "PrbsGenerator" =>
        /\ Len(made) = 8 * count
        /\ \A n \in Len(made) - 7 .. Len(made) :
              n > 0 => made[n] = (Dispersed(n - 5) + Dispersed(n - 9)) % 2

(* The four polynomials, 133, 171, 145 and 133 in octal.                   *)
Delays == <<{0, 2, 3, 5, 6}, {0, 1, 2, 3, 6}, {0, 1, 4, 6}, {0, 2, 3, 5, 6}>>
Encoded(d) == IF d < Len(made.past) THEN made.past[d + 1] ELSE 0

Polynomials ==
    element = "ConvEncoder" =>
        \A k \in 1 .. 4 : made.word[k] = Parity([d \in Delays[k] |-> Encoded(d)])

(* The pairs of carriers of the comb and pattern set last, and no others.  *)
TiiCarriers == {Frequency(i) : i \in made} \cup {Frequency(i + 1) : i \in made}

TiiIsSpecified ==
    element = "TII" => TiiCarriers = Specified(register) \cup {k + 1 : k \in Specified(register)}

(* The elements do what the standard says, TII in mode 1 only.             *)
AsTheStandard == /\ EachBitItsDelay /\ EachCarrierOnce /\ Recurrence /\ Polynomials
                 /\ mode = 1 => TiiIsSpecified
=============================================================================
