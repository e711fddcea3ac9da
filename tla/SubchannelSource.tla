--------------------------- MODULE SubchannelSource ---------------------------
(***************************************************************************)
(* src/SubchannelSource.cpp and src/PuncturingEncoder.cpp: the protection  *)
(* profile of a subchannel.  An ETI or EDI frame gives a subchannel its    *)
(* length STL (in 8 bytes) and its protection TPL; from the two follow     *)
(* the puncturing rules the encoder is built with and the capacity units   *)
(* the subchannel is given in the multiplex.  Rules and capacity come from *)
(* two tables that nothing ties together but the length the puncturing     *)
(* encoder finds when it runs.                                             *)
(***************************************************************************)
EXTENDS Integers, Sequences, FiniteSets, SequencesExt

(* d_protection, d_framesize and bitrate(). *)
ProtectionForm(tpl)   == (tpl \div 32) % 2
ProtectionLevel(tpl)  == (IF ProtectionForm(tpl) = 1 THEN tpl % 4 ELSE tpl % 8) + 1
ProtectionOption(tpl) == IF ProtectionForm(tpl) = 1 THEN (tpl \div 4) % 8 ELSE 0
Framesize(stl) == 8 * stl
Bitrate(stl)   == Framesize(stl) \div 3

-----------------------------------------------------------------------------
(* The constructor: puncturing rules, each a number of 16-byte blocks and  *)
(* a pattern P1 .. P24.                                                    *)

(* Equal error protection, option A and B. *)
EepRulesA(b, level) ==
    CASE level = 1 -> << <<(6 * b) \div 8 - 3, 24>>, <<3, 23>> >>
      [] level = 2 -> IF b = 8 THEN << <<5, 13>>, <<1, 12>> >>
                      ELSE << <<(2 * b) \div 8 - 3, 14>>, <<(4 * b) \div 8 + 3, 13>> >>
      [] level = 3 -> << <<(6 * b) \div 8 - 3, 8>>, <<3, 7>> >>
      [] level = 4 -> << <<(4 * b) \div 8 - 3, 3>>, <<(2 * b) \div 8 + 3, 2>> >>

(* (slip: option B takes the block length of option A) *)
EepRulesBLong(b, level) ==
    LET p == <<10, 6, 4, 2>>[level] IN << <<(6 * b) \div 8, p>>, <<3, p - 1>> >>

EepRulesB(b, level) ==
    LET p == <<10, 6, 4, 2>>[level] IN << <<(24 * b) \div 32 - 3, p>>, <<3, p - 1>> >>

(* Unequal error protection: bit rate, level and rules of every profile.   *)
UepRulesLow == {
    <<32, 1, << <<3, 24>>, <<5, 17>>, <<13, 12>>, <<3, 17>> >> >>,
    <<32, 2, << <<3, 22>>, <<4, 13>>, <<14, 8>>, <<3, 13>> >> >>,
    <<32, 3, << <<3, 15>>, <<4, 9>>, <<14, 6>>, <<3, 8>> >> >>,
    <<32, 4, << <<3, 11>>, <<3, 6>>, <<18, 5>> >> >>,
    <<32, 5, << <<3, 5>>, <<4, 3>>, <<17, 2>> >> >>,
    <<48, 1, << <<3, 24>>, <<5, 18>>, <<25, 13>>, <<3, 18>> >> >>,
    <<48, 2, << <<3, 24>>, <<4, 14>>, <<26, 8>>, <<3, 15>> >> >>,
    <<48, 3, << <<3, 15>>, <<4, 10>>, <<26, 6>>, <<3, 9>> >> >>,
    <<48, 4, << <<3, 9>>, <<4, 6>>, <<26, 4>>, <<3, 6>> >> >>,
    <<48, 5, << <<4, 5>>, <<3, 4>>, <<26, 2>>, <<3, 3>> >> >>,
    <<56, 2, << <<6, 23>>, <<10, 13>>, <<23, 8>>, <<3, 13>> >> >>,
    <<56, 3, << <<6, 16>>, <<12, 7>>, <<21, 6>>, <<3, 9>> >> >>,
    <<56, 4, << <<6, 9>>, <<10, 6>>, <<23, 4>>, <<3, 5>> >> >>,
    <<56, 5, << <<6, 5>>, <<10, 4>>, <<23, 2>>, <<3, 3>> >> >>,
    <<64, 1, << <<6, 24>>, <<11, 18>>, <<28, 12>>, <<3, 18>> >> >>,
    <<64, 2, << <<6, 23>>, <<10, 13>>, <<29, 8>>, <<3, 13>> >> >>,
    <<64, 3, << <<6, 16>>, <<12, 8>>, <<27, 6>>, <<3, 9>> >> >>,
    <<64, 4, << <<6, 11>>, <<9, 6>>, <<33, 5>> >> >>,
    <<64, 5, << <<6, 5>>, <<9, 3>>, <<31, 2>>, <<2, 3>> >> >> }

UepRulesMedium == {
    <<80, 1, << <<6, 24>>, <<10, 17>>, <<41, 12>>, <<3, 18>> >> >>,
    <<80, 2, << <<6, 23>>, <<10, 13>>, <<41, 8>>, <<3, 13>> >> >>,
    <<80, 3, << <<6, 16>>, <<11, 8>>, <<40, 6>>, <<3, 7>> >> >>,
    <<80, 4, << <<6, 11>>, <<10, 6>>, <<41, 5>>, <<3, 6>> >> >>,
    <<80, 5, << <<6, 6>>, <<10, 3>>, <<41, 2>>, <<3, 3>> >> >>,
    <<96, 1, << <<6, 24>>, <<13, 18>>, <<50, 13>>, <<3, 19>> >> >>,
    <<96, 2, << <<6, 22>>, <<10, 12>>, <<53, 9>>, <<3, 12>> >> >>,
    <<96, 3, << <<6, 16>>, <<12, 9>>, <<51, 6>>, <<3, 10>> >> >>,
    <<96, 4, << <<7, 9>>, <<10, 6>>, <<52, 4>>, <<3, 6>> >> >>,
    <<96, 5, << <<7, 5>>, <<9, 4>>, <<53, 2>>, <<3, 4>> >> >>,
    <<112, 2, << <<11, 23>>, <<21, 12>>, <<49, 9>>, <<3, 14>> >> >>,
    <<112, 3, << <<11, 16>>, <<23, 8>>, <<47, 6>>, <<3, 9>> >> >>,
    <<112, 4, << <<11, 9>>, <<21, 6>>, <<49, 4>>, <<3, 8>> >> >>,
    <<112, 5, << <<14, 5>>, <<17, 4>>, <<50, 2>>, <<3, 5>> >> >>,
    <<128, 1, << <<11, 24>>, <<20, 17>>, <<62, 13>>, <<3, 19>> >> >>,
    <<128, 2, << <<11, 22>>, <<21, 12>>, <<61, 9>>, <<3, 14>> >> >>,
    <<128, 3, << <<11, 16>>, <<22, 9>>, <<60, 6>>, <<3, 10>> >> >>,
    <<128, 4, << <<11, 11>>, <<21, 6>>, <<61, 5>>, <<3, 7>> >> >>,
    <<128, 5, << <<12, 5>>, <<19, 3>>, <<62, 2>>, <<3, 4>> >> >> }

UepRulesHigh == {
    <<160, 1, << <<11, 24>>, <<22, 18>>, <<84, 12>>, <<3, 19>> >> >>,
    <<160, 2, << <<11, 22>>, <<21, 11>>, <<85, 9>>, <<3, 13>> >> >>,
    <<160, 3, << <<11, 16>>, <<24, 8>>, <<82, 6>>, <<3, 11>> >> >>,
    <<160, 4, << <<11, 11>>, <<23, 6>>, <<83, 5>>, <<3, 9>> >> >>,
    <<160, 5, << <<11, 5>>, <<19, 4>>, <<87, 2>>, <<3, 4>> >> >>,
    <<192, 1, << <<11, 24>>, <<21, 20>>, <<109, 13>>, <<3, 24>> >> >>,
    <<192, 2, << <<11, 22>>, <<20, 13>>, <<110, 9>>, <<3, 13>> >> >>,
    <<192, 3, << <<11, 16>>, <<24, 10>>, <<106, 6>>, <<3, 11>> >> >>,
    <<192, 4, << <<11, 10>>, <<22, 6>>, <<108, 4>>, <<3, 9>> >> >>,
    <<192, 5, << <<11, 6>>, <<20, 4>>, <<110, 2>>, <<3, 5>> >> >>,
    <<224, 1, << <<11, 24>>, <<24, 20>>, <<130, 12>>, <<3, 20>> >> >>,
    <<224, 2, << <<11, 24>>, <<22, 16>>, <<132, 10>>, <<3, 15>> >> >>,
    <<224, 3, << <<11, 16>>, <<20, 10>>, <<134, 7>>, <<3, 9>> >> >>,
    <<224, 4, << <<12, 12>>, <<26, 8>>, <<127, 4>>, <<3, 11>> >> >>,
    <<224, 5, << <<12, 8>>, <<22, 6>>, <<131, 2>>, <<3, 6>> >> >> }

UepRulesHighest == {
    <<256, 1, << <<11, 24>>, <<26, 19>>, <<152, 14>>, <<3, 18>> >> >>,
    <<256, 2, << <<11, 24>>, <<22, 14>>, <<156, 10>>, <<3, 13>> >> >>,
    <<256, 3, << <<11, 16>>, <<27, 10>>, <<151, 7>>, <<3, 10>> >> >>,
    <<256, 4, << <<11, 12>>, <<24, 9>>, <<154, 5>>, <<3, 10>> >> >>,
    <<256, 5, << <<11, 6>>, <<24, 5>>, <<154, 2>>, <<3, 5>> >> >>,
    <<320, 2, << <<11, 24>>, <<26, 17>>, <<200, 9>>, <<3, 17>> >> >>,
    <<320, 4, << <<11, 13>>, <<25, 9>>, <<201, 5>>, <<3, 10>> >> >>,
    <<320, 5, << <<11, 8>>, <<26, 5>>, <<200, 2>>, <<3, 6>> >> >>,
    <<384, 1, << <<12, 24>>, <<28, 20>>, <<245, 14>>, <<3, 23>> >> >>,
    <<384, 3, << <<11, 16>>, <<24, 9>>, <<250, 7>>, <<3, 10>> >> >>,
    <<384, 5, << <<11, 8>>, <<27, 6>>, <<247, 2>>, <<3, 7>> >> >> }

UepRules == UepRulesLow \cup UepRulesMedium \cup UepRulesHigh \cup UepRulesHighest

(* The rules, or none when the constructor throws. *)
GetRules(stl, tpl) ==
    LET b == Bitrate(stl)
        level == ProtectionLevel(tpl)
    IN  CASE ProtectionForm(tpl) = 1 /\ ProtectionOption(tpl) = 0 -> EepRulesA(b, level)
          [] ProtectionForm(tpl) = 1 /\ ProtectionOption(tpl) = 1 -> EepRulesB(b, level)
          [] ProtectionForm(tpl) = 1 /\ ProtectionOption(tpl) > 1 -> <<>>
          [] OTHER -> LET rows == {r \in UepRules : r[1] = b /\ r[2] = level}
                      IN  IF rows = {} THEN <<>> ELSE (CHOOSE r \in rows : TRUE)[3]

-----------------------------------------------------------------------------
(* framesizeCu(): bit rate, level and capacity units of every profile with *)
(* unequal error protection.                                               *)
UepCuLow == {
    <<32, 1, 35>>, <<32, 2, 29>>, <<32, 3, 24>>, <<32, 4, 21>>, <<32, 5, 16>>,
    <<48, 1, 52>>, <<48, 2, 42>>, <<48, 3, 35>>, <<48, 4, 29>>, <<48, 5, 24>>,
    <<56, 2, 52>>, <<56, 3, 42>>, <<56, 4, 35>>, <<56, 5, 29>>,
    <<64, 1, 70>>, <<64, 2, 58>>, <<64, 3, 48>>, <<64, 4, 42>>, <<64, 5, 32>>,
    <<80, 1, 84>>, <<80, 2, 70>>, <<80, 3, 58>>, <<80, 4, 52>>, <<80, 5, 40>>,
    <<96, 1, 104>>, <<96, 2, 84>>, <<96, 3, 70>>, <<96, 4, 58>>, <<96, 5, 48>> }

UepCuHigh == {
    <<112, 2, 104>>, <<112, 3, 84>>, <<112, 4, 70>>, <<112, 5, 58>>,
    <<128, 1, 140>>, <<128, 2, 116>>, <<128, 3, 96>>, <<128, 4, 84>>, <<128, 5, 64>>,
    <<160, 1, 168>>, <<160, 2, 140>>, <<160, 3, 116>>, <<160, 4, 104>>, <<160, 5, 80>>,
    <<192, 1, 208>>, <<192, 2, 168>>, <<192, 3, 140>>, <<192, 4, 116>>, <<192, 5, 96>>,
    <<224, 1, 232>>, <<224, 2, 208>>, <<224, 3, 168>>, <<224, 4, 140>>, <<224, 5, 116>>,
    <<256, 1, 280>>, <<256, 2, 232>>, <<256, 3, 192>>, <<256, 4, 168>>, <<256, 5, 128>>,
    <<320, 2, 280>>, <<320, 4, 208>>, <<320, 5, 160>>,
    <<384, 1, 416>>, <<384, 3, 280>>, <<384, 5, 192>> }

UepCu == UepCuLow \cup UepCuHigh

(* framesizeCu() throws for 0 capacity units and for a profile without an  *)
(* entry; both are 0 here.                                                 *)
FramesizeCu(stl, tpl) ==
    LET b == Bitrate(stl)
        i == (tpl % 4) + 1
    IN  IF ProtectionForm(tpl) = 1
        THEN IF ProtectionOption(tpl) # 0
             THEN (b \div 32) * <<27, 21, 18, 15>>[i]
             ELSE (b \div 8) * <<12, 8, 6, 4>>[i]
        ELSE LET rows == {r \in UepCu : r[1] = b /\ r[2] = ProtectionLevel(tpl)}
             IN  IF rows = {} THEN 0 ELSE (CHOOSE r \in rows : TRUE)[3]

-----------------------------------------------------------------------------
(* PuncturingEncoder::adjust_item_size(): a pattern Pi keeps 8 + i bits of *)
(* 4 bytes; a rule with a negative length is never entered.  The tail      *)
(* takes 3 bytes and keeps 12 bits.                                        *)

Blocks(rule) == IF rule[1] > 0 THEN rule[1] ELSE 0

(* (slip: the tail is not counted) *)
InBlockSizeNoTail(rules) == FoldLeft(LAMBDA n, r : n + 16 * Blocks(r), 0, rules)

InBlockSize(rules) == FoldLeft(LAMBDA n, r : n + 16 * Blocks(r), 3, rules)

OutBits(rules) == FoldLeft(LAMBDA n, r : n + 4 * (8 + r[2]) * Blocks(r), 12, rules)

OutBlockSize(rules) == (OutBits(rules) + 7) \div 8

(* process(): d_num_cu = 0 stands for an encoder without capacity units    *)
(* (the FIC).  One byte of padding is allowed.                             *)
PuncturedSize(num_cu, rules, sizeIn) ==
    LET out == IF num_cu > 0 /\ 8 * num_cu = OutBlockSize(rules) + 1
               THEN 8 * num_cu ELSE OutBlockSize(rules)
    IN  IF (num_cu > 0 /\ 8 * num_cu # out) \/ sizeIn # InBlockSize(rules) THEN 0 ELSE out

(* ConvEncoder::process() makes 4 bytes of each, and 3 of the registers. *)
EncodedSize(framesize) == 4 * framesize + 3
=============================================================================
