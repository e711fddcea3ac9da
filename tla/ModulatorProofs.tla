---------------------------- MODULE ModulatorProofs ----------------------------
(***************************************************************************)
(* Proofs of safety properties that the run MCDabModulator checks.  Each   *)
(* part is treated alone, as in DeviceProofs.                              *)
(***************************************************************************)
EXTENDS MCDabModulator, FiniteSetTheorems, SequenceTheorems, WellFoundedInduction, TLAPS

-----------------------------------------------------------------------------
(* src/ConfigParser.cpp, src/DabMod.cpp: the configuration.                *)

LEMMA ConfigIsAlone == ModulatorSpec => Config!Init /\ [][Config!Next]_configVars
<1>1. ModulatorInit => Config!Init
  BY DEF ModulatorInit
<1>2. [ModulatorNext]_<<part, vars, configVars, modulatorVars, codeVars>> => [Config!Next]_configVars
  BY DEF ModulatorNext
<1>3. QED
  BY <1>1, <1>2, PTL DEF ModulatorSpec

AnyOutput == {"file", "uhd", "soapysdr", "dexter", "limesdr", "bladerf", "zmq"}

(* The outputs are some of those there are, and what was made is what the  *)
(* settings, which nothing changes any more, call for.                     *)
Prepared ==
    /\ output_format = Config!Format /\ range = Config!RangeOf(Config!Selected)
    /\ ~Config!OutputRefused(Config!Selected)

ConfigInv ==
    /\ outputs \subseteq AnyOutput /\ IsFiniteSet(outputs)
    /\ step \in {"input", "runs"} => Prepared

(* The first of the outputs, if there is only one.                         *)
LEMMA SelectedAlone ==
    ASSUME NEW x \in AnyOutput, outputs = {x}
    PROVE  Config!Selected = x
<1>1. \A i \in DOMAIN Config!Order : i \in 1 .. 7
  BY DEF Config!Order
<1>2. PICK n \in DOMAIN Config!Order : Config!Order[n] = x
  BY DEF AnyOutput, Config!Order
<1>3. \A i, j \in DOMAIN Config!Order : Config!Order[i] = Config!Order[j] => i = j
  BY DEF Config!Order
<1>4. n - 1 < n /\ \A j \in 1 .. n - 1 : j \in DOMAIN Config!Order /\ j # n
  BY <1>1, <1>2 DEF Config!Order
<1>5. /\ Config!Order[n] \in outputs
      /\ \A j \in 1 .. n - 1 : Config!Order[j] \notin outputs
  BY <1>2, <1>3, <1>4
<1>6. \A i \in DOMAIN Config!Order : Config!Order[i] \in outputs => i = n
  BY <1>2, <1>3
<1>7. QED
  BY <1>2, <1>5, <1>6 DEF Config!Selected

(* The two decisions agree.                                                *)
LEMMA PreparedFits ==
    ASSUME ConfigInv
    PROVE  FormatFits
<1> SUFFICES ASSUME step = "runs", Config!Cardinality(outputs) = 1, fftEngine = "fftw"
             PROVE  Config!Fits(range, output_format)
  BY DEF FormatFits, Config!FormatFits
<1>0. Cardinality(outputs) = 1
  BY DEF Config!Cardinality, Cardinality
<1>1. PICK x : outputs = {x}
  BY <1>0, FS_Singleton DEF ConfigInv
<1>2. x \in AnyOutput
  BY <1>1 DEF ConfigInv
<1>3. Config!Selected = x
  BY <1>1, <1>2, SelectedAlone
<1>4. Prepared
  BY DEF ConfigInv
<1>5. /\ output_format = Config!FormatOfFloat /\ range = Config!RangeOf(x)
      /\ ~Config!OutputRefused(x)
  BY <1>3, <1>4 DEF Prepared, Config!Format
<1>6. CASE x = "file"
  <2>1. fileOutputFormat \in {"complexf", "complexf_normalised", "s16", "s8", "u8"}
    BY <1>5, <1>6 DEF Config!OutputRefused
  <2>2. range = Config!RangeOfFile
    BY <1>5, <1>6 DEF Config!RangeOf
  <2>3. output_format = IF fileOutputFormat \in {"s8", "u8", "s16"} THEN fileOutputFormat ELSE ""
    BY <1>1, <1>5, <1>6 DEF Config!FormatOfFloat
  <2>4. QED
    BY <2>1, <2>2, <2>3 DEF Config!RangeOfFile, Config!Fits
<1>7. CASE x \in {"bladerf", "dexter"}
  <2>1. output_format = "s16"
    BY <1>1, <1>5, <1>7 DEF Config!FormatOfFloat
  <2>2. range \in {"2047", "32767"}
    BY <1>5, <1>7 DEF Config!RangeOf
  <2>3. QED
    BY <2>1, <2>2 DEF Config!Fits
<1>8. CASE x \notin {"file", "bladerf", "dexter"}
  <2>1. output_format = ""
    BY <1>1, <1>5, <1>8 DEF Config!FormatOfFloat
  <2>2. range = "1"
    BY <1>5, <1>8 DEF Config!RangeOf
  <2>3. QED
    BY <2>1, <2>2 DEF Config!Fits
<1>9. QED
  BY <1>6, <1>7, <1>8

(* Outputs are added one at a time.                                        *)
LEMMA OutputAdded ==
    ASSUME outputs \subseteq AnyOutput, IsFiniteSet(outputs), NEW x \in AnyOutput,
           outputs' = outputs \cup {x}
    PROVE  outputs' \subseteq AnyOutput /\ IsFiniteSet(outputs')
  BY FS_AddElement

(* Before the output is made nothing is said of it.                        *)
LEMMA ConfigStep ==
    ASSUME ConfigInv, [Config!Next]_configVars
    PROVE  ConfigInv'
<1>1. outputs \subseteq AnyOutput /\ IsFiniteSet(outputs)
  BY DEF ConfigInv
<1>2. CASE Config!Refuse
  BY <1>1, <1>2 DEF Config!Refuse, ConfigInv
<1>3. CASE Config!ParseOption
  <2> DEFINE option == Head(line.options)
  <2>1. CASE Config!TakeOption(option)
    <3>1. step' = "options"
      BY <1>3, <2>1 DEF Config!ParseOption, Config!TakeOption
    <3>2. outputs' = outputs \/ outputs' = outputs \cup {"file"} \/ outputs' = outputs \cup {"uhd"}
      BY <2>1 DEF Config!TakeOption
    <3>3. outputs' \subseteq AnyOutput /\ IsFiniteSet(outputs')
      BY <1>1, <3>2, OutputAdded DEF AnyOutput
    <3>4. QED
      BY <3>1, <3>3 DEF ConfigInv
  <2>2. QED
    BY <1>2, <1>3, <2>1 DEF Config!ParseOption
<1>4. CASE Config!ParseArguments
  <2>1. step' \in {"file", "output", "refused"} /\ outputs' = outputs
    BY <1>4 DEF Config!ParseArguments
  <2>2. QED
    BY <1>1, <2>1 DEF ConfigInv
<1>5. CASE Config!ParseConfigFile
  <2>1. CASE ~Config!FileRefused(file) /\ ~Config!Refuse
    <3>1. file.output \in AnyOutput
      BY <2>1 DEF Config!FileRefused, Config!Radios, AnyOutput
    <3>2. step' = "output" /\ outputs' = outputs \cup {file.output}
      BY <1>5, <2>1 DEF Config!ParseConfigFile
    <3>3. QED
      BY <1>1, <3>1, <3>2, OutputAdded DEF ConfigInv
  <2>2. QED
    BY <1>2, <1>5, <2>1 DEF Config!ParseConfigFile
<1>6. CASE Config!PrepareOutput
  <2>1. CASE outputs # {} /\ ~Config!OutputRefused(Config!Selected) /\ ~Config!Refuse
    <3>1. /\ outputs' = outputs /\ fftEngine' = fftEngine /\ fileOutputFormat' = fileOutputFormat
          /\ output_format' = Config!Format /\ range' = Config!RangeOf(Config!Selected)
      BY <1>6, <2>1 DEF Config!PrepareOutput, Config!chosen
    <3>2. /\ Config!Format' = Config!Format /\ Config!Selected' = Config!Selected
      BY <3>1 DEF Config!Format, Config!FormatOfFloat, Config!Selected
    <3>3. /\ Config!RangeOf(Config!Selected)' = Config!RangeOf(Config!Selected)
          /\ Config!OutputRefused(Config!Selected)' = Config!OutputRefused(Config!Selected)
      BY <3>1, <3>2 DEF Config!RangeOf, Config!RangeOfFile, Config!OutputRefused
    <3>4. QED
      BY <1>1, <2>1, <3>1, <3>2, <3>3 DEF ConfigInv, Prepared
  <2>2. QED
    BY <1>2, <1>6, <2>1 DEF Config!PrepareOutput
<1>7. CASE Config!OpenInput \/ Config!Done \/ UNCHANGED configVars
  <2>1. CASE ~Config!Refuse
    <3>1. /\ outputs' = outputs /\ fftEngine' = fftEngine /\ fileOutputFormat' = fileOutputFormat
          /\ output_format' = output_format /\ range' = range
          /\ step' \in {"input", "runs"} => step \in {"input", "runs"}
      BY <1>7, <2>1 DEF Config!OpenInput, Config!Done, Config!vars, Config!chosen, Config!made, configVars
    <3>2. /\ Config!Format' = Config!Format /\ Config!Selected' = Config!Selected
      BY <3>1 DEF Config!Format, Config!FormatOfFloat, Config!Selected
    <3>3. /\ Config!RangeOf(Config!Selected)' = Config!RangeOf(Config!Selected)
          /\ Config!OutputRefused(Config!Selected)' = Config!OutputRefused(Config!Selected)
      BY <3>1, <3>2 DEF Config!RangeOf, Config!RangeOfFile, Config!OutputRefused
    <3>4. QED
      BY <3>1, <3>2, <3>3 DEF ConfigInv, Prepared
  <2>2. QED
    BY <1>2, <2>1
<1>8. QED
  BY <1>3, <1>4, <1>5, <1>6, <1>7 DEF Config!Next

(* src/DabMod.cpp: with any command line and any configuration file, if    *)
(* they choose one output together and the engine is not a fixed-point     *)
(* one, that output gets samples of the format and in the range it         *)
(* expects.                                                                *)
THEOREM FormatAlwaysFits == ModulatorSpec => []FormatFits
<1>1. Config!Init => ConfigInv
  BY FS_EmptySet DEF Config!Init, ConfigInv
<1>2. ConfigInv /\ [Config!Next]_configVars => ConfigInv'
  BY ConfigStep
<1>3. ConfigInv => FormatFits
  BY PreparedFits
<1>4. QED
  BY <1>1, <1>2, <1>3, ConfigIsAlone, PTL

-----------------------------------------------------------------------------
(* src/Flowgraph.cpp: the order of the elements.                           *)

Has(seq, n) == \E i \in DOMAIN seq : seq[i] = n

(* No element is twice in it.                                              *)
Once(seq) == \A i, j \in DOMAIN seq : seq[i] = seq[j] => i = j

(* Where both are, a comes first.                                          *)
Before(seq, a, b) == \A i, j \in DOMAIN seq : seq[i] = a /\ seq[j] = b => i < j

LEMMA PositionOf ==
    ASSUME NEW seq, NEW n, Has(seq, n)
    PROVE  Modulator!Position(seq, n) \in DOMAIN seq /\ seq[Modulator!Position(seq, n)] = n
  BY DEF Has, Modulator!Position

(* Once an element that feeds another is there, appending keeps the order. *)
LEMMA AppendedNew ==
    ASSUME NEW S, NEW seq \in Seq(S), Once(seq), NEW n \in S
    PROVE  LET r == Modulator!AppendNew(seq, n)
           IN  /\ r \in Seq(S) /\ Once(r)
               /\ \A x : Has(r, x) <=> Has(seq, x) \/ x = n
               /\ \A a, b : Before(seq, a, b) /\ a # b /\ (Has(seq, b) => Has(seq, a)) => Before(r, a, b)
<1> DEFINE r == Modulator!AppendNew(seq, n)
<1>1. Has(seq, n) <=> n \in Modulator!Range(seq)
  BY DEF Has, Modulator!Range
<1>2. CASE Has(seq, n)
  <2>1. r = seq
    BY <1>1, <1>2 DEF Modulator!AppendNew
  <2>2. QED
    BY <1>2, <2>1
<1>3. CASE ~Has(seq, n)
  <2>1. r = Append(seq, n)
    BY <1>1, <1>3 DEF Modulator!AppendNew
  <2> HIDE DEF r
  <2>2. /\ Len(seq) \in Nat /\ DOMAIN seq = 1 .. Len(seq) /\ DOMAIN r = 1 .. Len(seq) + 1
        /\ r \in Seq(S) /\ r[Len(seq) + 1] = n /\ \A i \in 1 .. Len(seq) : r[i] = seq[i]
    BY <2>1
  <2>3. \A i \in DOMAIN r : i \in DOMAIN seq \/ i = Len(seq) + 1
    BY <2>2
  <2>4. \A i \in DOMAIN seq : seq[i] # n /\ r[i] = seq[i] /\ i \in DOMAIN r /\ i < Len(seq) + 1
    BY <1>3, <2>2 DEF Has
  <2>5. Once(r)
    BY <2>2, <2>3, <2>4 DEF Once
  <2>6. ASSUME NEW x PROVE Has(r, x) <=> Has(seq, x) \/ x = n
    BY <2>2, <2>3, <2>4 DEF Has
  <2>7. ASSUME NEW a, NEW b, Before(seq, a, b), a # b, Has(seq, b) => Has(seq, a)
        PROVE  Before(r, a, b)
    <3> SUFFICES ASSUME NEW i \in DOMAIN r, NEW j \in DOMAIN r, r[i] = a, r[j] = b
                 PROVE  i < j
      BY DEF Before
    <3>1. CASE i = Len(seq) + 1
      <4>1. a = n /\ ~Has(seq, a)
        BY <1>3, <2>2, <3>1
      <4>2. j \in DOMAIN seq
        BY <2>2, <2>3, <2>7, <4>1
      <4>3. Has(seq, b)
        BY <2>4, <4>2 DEF Has
      <4>4. QED
        BY <2>7, <4>1, <4>3
    <3>2. CASE i \in DOMAIN seq
      <4>1. CASE j \in DOMAIN seq
        BY <2>4, <2>7, <3>2, <4>1 DEF Before
      <4>2. CASE j = Len(seq) + 1
        BY <2>4, <3>2, <4>2
      <4>3. QED
        BY <2>3, <4>1, <4>2
    <3>3. QED
      BY <2>3, <3>1, <3>2
  <2>8. QED
    BY <2>2, <2>5, <2>6, <2>7 DEF r
<1>4. QED
  BY <1>2, <1>3

LEMMA JoinOf ==
    ASSUME NEW S, NEW a \in Seq(S), NEW b \in Seq(S)
    PROVE  /\ a \o b \in Seq(S) /\ Len(a \o b) = Len(a) + Len(b)
           /\ \A i \in 1 .. Len(a) : (a \o b)[i] = a[i]
           /\ \A i \in Len(a) + 1 .. Len(a) + Len(b) : (a \o b)[i] = b[i - Len(a)]
  OBVIOUS

(* An element is erased and inserted at the end.                           *)
LEMMA MovedLast ==
    ASSUME NEW S, NEW seq \in Seq(S), NEW k \in DOMAIN seq
    PROVE  LET r == Append(Modulator!RemoveAt(seq, k), seq[k])
           IN  /\ r \in Seq(S) /\ DOMAIN r = DOMAIN seq /\ r[Len(seq)] = seq[k]
               /\ \A i \in 1 .. k - 1 : r[i] = seq[i]
               /\ \A i \in k .. Len(seq) - 1 : r[i] = seq[i + 1]
<1> DEFINE head == SubSeq(seq, 1, k - 1)
           tail == SubSeq(seq, k + 1, Len(seq))
           cut == head \o tail
           r == Append(cut, seq[k])
<1>1. Len(seq) \in Nat /\ DOMAIN seq = 1 .. Len(seq) /\ k \in 1 .. Len(seq) /\ seq[k] \in S
  OBVIOUS
<1>2. /\ head \in Seq(S) /\ Len(head) = k - 1
      /\ \A i \in 1 .. k - 1 : head[i] = seq[i]
  BY <1>1
<1>3. /\ tail \in Seq(S) /\ Len(tail) = Len(seq) - k
      /\ \A i \in 1 .. Len(seq) - k : tail[i] = seq[k + i]
  BY <1>1
<1> HIDE DEF head, tail
<1>4. /\ cut \in Seq(S) /\ Len(cut) = Len(seq) - 1
      /\ \A i \in 1 .. k - 1 : cut[i] = head[i]
      /\ \A i \in k .. Len(seq) - 1 : cut[i] = tail[i - (k - 1)]
  <2>1. /\ cut \in Seq(S) /\ Len(cut) = Len(head) + Len(tail)
        /\ \A i \in 1 .. Len(head) : cut[i] = head[i]
        /\ \A i \in Len(head) + 1 .. Len(head) + Len(tail) : cut[i] = tail[i - Len(head)]
    BY <1>2, <1>3, JoinOf
  <2> HIDE DEF cut
  <2>2. Len(head) + Len(tail) = Len(seq) - 1 /\ Len(head) + 1 = k
    BY <1>1, <1>2, <1>3
  <2>3. QED
    BY <1>2, <2>1, <2>2
<1> HIDE DEF cut
<1>5. /\ r \in Seq(S) /\ DOMAIN r = 1 .. Len(seq) /\ r[Len(seq)] = seq[k]
      /\ \A i \in 1 .. Len(seq) - 1 : r[i] = cut[i]
  <2>1. /\ r \in Seq(S) /\ DOMAIN r = 1 .. Len(cut) + 1 /\ r[Len(cut) + 1] = seq[k]
        /\ \A i \in 1 .. Len(cut) : r[i] = cut[i]
    <3>1. cut \in Seq(S) /\ seq[k] \in S
      BY <1>1, <1>4
    <3>2. QED
      BY <3>1
  <2>2. Len(cut) + 1 = Len(seq)
    BY <1>1, <1>4
  <2>3. QED
    BY <1>4, <2>1, <2>2
<1> HIDE DEF r
<1>6. ASSUME NEW i \in 1 .. k - 1 PROVE r[i] = seq[i]
  <2>1. i \in 1 .. Len(seq) - 1
    BY <1>1
  <2>2. QED
    BY <1>2, <1>4, <1>5, <2>1
<1>7. ASSUME NEW i \in k .. Len(seq) - 1 PROVE r[i] = seq[i + 1]
  <2>1. i \in 1 .. Len(seq) - 1 /\ i - (k - 1) \in 1 .. Len(seq) - k /\ k + (i - (k - 1)) = i + 1
    BY <1>1
  <2>2. r[i] = tail[i - (k - 1)]
    BY <1>4, <1>5, <2>1
  <2>3. QED
    BY <1>3, <2>1, <2>2
<1>8. QED
  BY <1>1, <1>5, <1>6, <1>7 DEF r, cut, head, tail, Modulator!RemoveAt

(* What was at a place is at that place, at the one before, or the last.   *)
LEMMA MovedFrom ==
    ASSUME NEW S, NEW seq \in Seq(S), NEW k \in DOMAIN seq, Once(seq)
    PROVE  LET r == Append(Modulator!RemoveAt(seq, k), seq[k])
           IN  /\ r \in Seq(S) /\ Once(r)
               /\ \A x : Has(r, x) <=> Has(seq, x)
               /\ \A a, b : Before(seq, a, b) /\ a # b /\ a # seq[k] => Before(r, a, b)
<1> DEFINE r == Append(Modulator!RemoveAt(seq, k), seq[k])
           From(i) == IF i < k THEN i ELSE IF i = Len(seq) THEN k ELSE i + 1
<1>1. /\ r \in Seq(S) /\ DOMAIN r = DOMAIN seq /\ r[Len(seq)] = seq[k]
      /\ \A i \in 1 .. k - 1 : r[i] = seq[i]
      /\ \A i \in k .. Len(seq) - 1 : r[i] = seq[i + 1]
  BY MovedLast
<1> HIDE DEF r
<1>2. Len(seq) \in Nat /\ DOMAIN seq = 1 .. Len(seq) /\ k \in 1 .. Len(seq)
  OBVIOUS
<1>3. ASSUME NEW i \in DOMAIN seq PROVE From(i) \in DOMAIN seq /\ r[i] = seq[From(i)]
  <2>1. CASE i < k
    <3>1. i \in 1 .. k - 1
      BY <1>2, <2>1
    <3>2. QED
      BY <1>1, <2>1, <3>1
  <2>2. CASE ~(i < k) /\ i = Len(seq)
    BY <1>1, <1>2, <2>2
  <2>3. CASE ~(i < k) /\ i # Len(seq)
    <3>1. i \in k .. Len(seq) - 1 /\ i + 1 \in DOMAIN seq
      BY <1>2, <2>3
    <3>2. QED
      BY <1>1, <2>3, <3>1
  <2>4. QED
    BY <2>1, <2>2, <2>3
<1>4. ASSUME NEW i \in DOMAIN seq, NEW j \in DOMAIN seq
      PROVE  /\ From(i) = From(j) => i = j
             /\ From(i) < From(j) /\ From(i) # k => i < j
  BY <1>2
<1>5. ASSUME NEW i \in DOMAIN seq PROVE \E j \in DOMAIN seq : From(j) = i
  <2>1. CASE i < k
    BY <1>2, <2>1
  <2>2. CASE i = k
    <3>1. Len(seq) \in DOMAIN seq /\ From(Len(seq)) = k
      BY <1>2
    <3>2. QED
      BY <2>2, <3>1
  <2>3. CASE i > k
    <3>1. i - 1 \in DOMAIN seq /\ From(i - 1) = i
      BY <1>2, <2>3
    <3>2. QED
      BY <3>1
  <2>4. QED
    BY <1>2, <2>1, <2>2, <2>3
<1> HIDE DEF From
<1>6. Once(r)
  BY <1>1, <1>3, <1>4 DEF Once
<1>7. ASSUME NEW x PROVE Has(r, x) <=> Has(seq, x)
  <2>1. ASSUME NEW i \in DOMAIN r, r[i] = x PROVE Has(seq, x)
    BY <1>1, <1>3, <2>1 DEF Has
  <2>2. ASSUME NEW i \in DOMAIN seq, seq[i] = x PROVE Has(r, x)
    <3>1. PICK j \in DOMAIN seq : From(j) = i
      BY <1>5
    <3>2. j \in DOMAIN r /\ r[j] = x
      BY <1>1, <1>3, <2>2, <3>1
    <3>3. QED
      BY <3>2 DEF Has
  <2>3. QED
    BY <2>1, <2>2 DEF Has
<1>8. ASSUME NEW a, NEW b, Before(seq, a, b), a # seq[k]
      PROVE  Before(r, a, b)
  <2> SUFFICES ASSUME NEW i \in DOMAIN r, NEW j \in DOMAIN r, r[i] = a, r[j] = b
               PROVE  i < j
    BY DEF Before
  <2>1. i \in DOMAIN seq /\ j \in DOMAIN seq
    BY <1>1
  <2>2. From(i) < From(j) /\ From(i) # k
    BY <1>3, <1>8, <2>1 DEF Before
  <2>3. QED
    BY <1>4, <2>1, <2>2
<1>9. QED
  BY <1>1, <1>6, <1>7, <1>8 DEF r

Touches(e, n) == e[1] = n \/ e[2] = n

(* What is connected is there, each element once; an element stays before  *)
(* one that it feeds unless something is connected to it later.            *)
LEMMA Connected ==
    ASSUME NEW S, NEW seq \in Seq(S), Once(seq), NEW e \in S \X S
    PROVE  LET r == Modulator!Connect(seq, e)
           IN  /\ r \in Seq(S) /\ Once(r)
               /\ \A x : Has(r, x) <=> Has(seq, x) \/ Touches(e, x)
               /\ \A a, b : /\ Before(seq, a, b) /\ a # b
                            /\ Has(seq, b) => Has(seq, a)
                            /\ e[1] = b => Has(seq, a)
                            /\ e[2] = b => Has(seq, a) \/ e[1] = a
                            /\ e[2] = a => ~Has(seq, b) /\ e[1] # b
                            => Before(r, a, b)
<1> DEFINE one == Modulator!AppendNew(seq, e[1])
           both == Modulator!AppendNew(one, e[2])
           k == Modulator!Position(both, e[2])
           moved == Append(Modulator!RemoveAt(both, k), both[k])
           r == Modulator!Connect(seq, e)
<1>1. e[1] \in S /\ e[2] \in S
  OBVIOUS
<1>2. /\ one \in Seq(S) /\ Once(one)
      /\ \A x : Has(one, x) <=> Has(seq, x) \/ x = e[1]
      /\ \A a, b : Before(seq, a, b) /\ a # b /\ (Has(seq, b) => Has(seq, a)) => Before(one, a, b)
  BY <1>1, AppendedNew
<1> HIDE DEF one
<1>3. /\ both \in Seq(S) /\ Once(both)
      /\ \A x : Has(both, x) <=> Has(one, x) \/ x = e[2]
      /\ \A a, b : Before(one, a, b) /\ a # b /\ (Has(one, b) => Has(one, a)) => Before(both, a, b)
  <2> DEFINE n == e[2]
  <2>1. one \in Seq(S) /\ Once(one) /\ n \in S
    BY <1>1, <1>2
  <2> HIDE DEF n
  <2>2. LET w == Modulator!AppendNew(one, n)
        IN  /\ w \in Seq(S) /\ Once(w)
            /\ \A x : Has(w, x) <=> Has(one, x) \/ x = n
            /\ \A a, b : Before(one, a, b) /\ a # b /\ (Has(one, b) => Has(one, a)) => Before(w, a, b)
    BY <2>1, AppendedNew
  <2>3. QED
    BY <2>2 DEF n
<1> HIDE DEF both
<1>4. k \in DOMAIN both /\ both[k] = e[2]
  <2>1. Has(both, e[2])
    BY <1>3
  <2>2. QED
    BY <2>1, PositionOf
<1> HIDE DEF k
<1>5. /\ moved \in Seq(S) /\ Once(moved)
      /\ \A x : Has(moved, x) <=> Has(both, x)
      /\ \A a, b : Before(both, a, b) /\ a # b /\ a # e[2] => Before(moved, a, b)
  BY <1>3, <1>4, MovedFrom
<1> HIDE DEF moved
<1>6. r = moved \/ r = both
  BY <1>4 DEF Modulator!Connect, one, both, k, moved
<1> HIDE DEF r
<1>7. ASSUME NEW x PROVE Has(r, x) <=> Has(seq, x) \/ Touches(e, x)
  BY <1>2, <1>3, <1>5, <1>6 DEF Touches
<1>8. ASSUME NEW a, NEW b, Before(seq, a, b), a # b,
             Has(seq, b) => Has(seq, a), e[1] = b => Has(seq, a),
             e[2] = b => Has(seq, a) \/ e[1] = a, e[2] = a => ~Has(seq, b) /\ e[1] # b
      PROVE  Before(r, a, b)
  <2>1. Before(one, a, b) /\ (Has(one, b) => Has(one, a))
    BY <1>2, <1>8
  <2>2. Before(both, a, b)
    BY <1>3, <1>8, <2>1
  <2>3. CASE a = e[2]
    <3>1. ~Has(r, b)
      BY <1>7, <1>8, <2>3 DEF Touches
    <3>2. QED
      BY <3>1 DEF Before, Has
  <2>4. CASE a # e[2]
    BY <1>5, <1>6, <1>8, <2>2, <2>4
  <2>5. QED
    BY <2>3, <2>4
<1>9. QED
  BY <1>2, <1>3, <1>5, <1>6, <1>7, <1>8 DEF r

(* In the order of the calls of connect(): a is there before b is, and     *)
(* nothing is connected to a any more once b is there.                     *)
Follows(list, a, b) ==
    \A j \in DOMAIN list :
        /\ list[j][1] = b => \E i \in 1 .. j - 1 : Touches(list[i], a)
        /\ list[j][2] = b => list[j][1] = a \/ \E i \in 1 .. j - 1 : Touches(list[i], a)
        /\ list[j][2] = a => list[j][1] # b /\ \A i \in 1 .. j - 1 : ~Touches(list[i], b)

(* The elements of the calls so far, in the order they are run in.         *)
Laid(seq, list, k) ==
    /\ Once(seq)
    /\ \A x : Has(seq, x) <=> \E i \in 1 .. k : Touches(list[i], x)

LEMMA ThereFirst ==
    ASSUME NEW S, NEW list \in Seq(S \X S), NEW a, NEW b, Follows(list, a, b),
           NEW k \in 0 .. Len(list), NEW seq, Laid(seq, list, k), Has(seq, b)
    PROVE  Has(seq, a)
<1>1. PICK i \in 1 .. k : Touches(list[i], b)
  BY DEF Laid
<1>2. i \in DOMAIN list /\ i \in 1 .. k /\ \A j \in 1 .. i - 1 : j \in 1 .. k
  OBVIOUS
<1>3. \E j \in 1 .. k : Touches(list[j], a)
  BY <1>1, <1>2 DEF Follows, Touches
<1>4. QED
  BY <1>3 DEF Laid

LEMMA LaidOneMore ==
    ASSUME NEW S, NEW list \in Seq(S \X S), NEW k \in 1 .. Len(list), NEW seq \in Seq(S),
           Laid(seq, list, k - 1)
    PROVE  LET r == Modulator!Connect(seq, list[k])
           IN  /\ r \in Seq(S) /\ Laid(r, list, k)
               /\ \A a, b : a # b /\ Follows(list, a, b) /\ Before(seq, a, b) => Before(r, a, b)
<1> DEFINE r == Modulator!Connect(seq, list[k])
<1>1. /\ list[k] \in S \X S /\ k \in DOMAIN list /\ k - 1 \in 0 .. Len(list)
      /\ \A i \in 1 .. k : i \in 1 .. k - 1 \/ i = k
      /\ \A i \in 1 .. k - 1 : i \in 1 .. k
      /\ k \in 1 .. k
  OBVIOUS
<1>2. Once(seq) /\ \A x : Has(seq, x) <=> \E i \in 1 .. k - 1 : Touches(list[i], x)
  BY DEF Laid
<1>3. /\ r \in Seq(S) /\ Once(r)
      /\ \A x : Has(r, x) <=> Has(seq, x) \/ Touches(list[k], x)
      /\ \A a, b : /\ Before(seq, a, b) /\ a # b
                   /\ Has(seq, b) => Has(seq, a)
                   /\ list[k][1] = b => Has(seq, a)
                   /\ list[k][2] = b => Has(seq, a) \/ list[k][1] = a
                   /\ list[k][2] = a => ~Has(seq, b) /\ list[k][1] # b
                   => Before(r, a, b)
  BY <1>1, <1>2, Connected
<1> HIDE DEF r
<1>4. ASSUME NEW x PROVE Has(r, x) <=> \E i \in 1 .. k : Touches(list[i], x)
  BY <1>1, <1>2, <1>3
<1>5. ASSUME NEW a, NEW b, a # b, Follows(list, a, b), Before(seq, a, b) PROVE Before(r, a, b)
  <2>1. Has(seq, b) => Has(seq, a)
    BY <1>1, <1>5, ThereFirst
  <2>2. /\ list[k][1] = b => Has(seq, a)
        /\ list[k][2] = b => Has(seq, a) \/ list[k][1] = a
        /\ list[k][2] = a => ~Has(seq, b) /\ list[k][1] # b
    BY <1>1, <1>2, <1>5 DEF Follows
  <2>3. QED
    BY <1>3, <1>5, <2>1, <2>2
<1>6. QED
  BY <1>3, <1>4, <1>5 DEF r, Laid

(* It is so if a comes in the first calls, and b only after them.          *)
LEMMA SplitFollows ==
    ASSUME NEW S, NEW front \in Seq(S \X S), NEW back \in Seq(S \X S), NEW a, NEW b,
           \E i \in DOMAIN front : Touches(front[i], a),
           \A i \in DOMAIN front : ~Touches(front[i], b),
           \A i \in DOMAIN back : back[i][2] # a
    PROVE  Follows(front \o back, a, b)
<1> DEFINE list == front \o back
<1>1. /\ list \in Seq(S \X S) /\ Len(list) = Len(front) + Len(back)
      /\ \A i \in 1 .. Len(front) : list[i] = front[i]
      /\ \A i \in Len(front) + 1 .. Len(front) + Len(back) : list[i] = back[i - Len(front)]
  BY JoinOf
<1> HIDE DEF list
<1>2. /\ Len(front) \in Nat /\ Len(back) \in Nat
      /\ DOMAIN front = 1 .. Len(front) /\ DOMAIN back = 1 .. Len(back)
      /\ DOMAIN list = 1 .. Len(front) + Len(back)
  BY <1>1
<1>3. PICK f \in DOMAIN front : Touches(front[f], a)
  OBVIOUS
<1> SUFFICES ASSUME NEW j \in DOMAIN list
             PROVE  /\ list[j][1] = b => \E i \in 1 .. j - 1 : Touches(list[i], a)
                    /\ list[j][2] = b => list[j][1] = a \/ \E i \in 1 .. j - 1 : Touches(list[i], a)
                    /\ list[j][2] = a => list[j][1] # b /\ \A i \in 1 .. j - 1 : ~Touches(list[i], b)
  BY DEF Follows, list
<1>4. CASE j <= Len(front)
  <2>1. j \in DOMAIN front /\ list[j] = front[j] /\ ~Touches(front[j], b)
    BY <1>1, <1>2, <1>4
  <2>2. ASSUME NEW i \in 1 .. j - 1 PROVE ~Touches(list[i], b)
    <3>1. i \in DOMAIN front /\ i \in 1 .. Len(front)
      BY <1>2, <1>4
    <3>2. QED
      BY <1>1, <3>1
  <2>3. QED
    BY <2>1, <2>2 DEF Touches
<1>5. CASE ~(j <= Len(front))
  <2>1. j - Len(front) \in DOMAIN back /\ list[j] = back[j - Len(front)]
    <3>1. j \in Len(front) + 1 .. Len(front) + Len(back) /\ j - Len(front) \in 1 .. Len(back)
      BY <1>2, <1>5
    <3>2. QED
      BY <1>1, <1>2, <3>1
  <2>2. list[j][2] # a
    BY <2>1
  <2>3. f \in 1 .. j - 1 /\ list[f] = front[f]
    BY <1>1, <1>2, <1>5
  <2>4. QED
    BY <1>3, <2>2, <2>3
<1>6. QED
  BY <1>4, <1>5

-----------------------------------------------------------------------------
(* src/DabModulator.cpp: the calls of connect().                           *)

LEMMA SetInduction ==
    ASSUME NEW S, 0 \in S, \A n \in Nat : n \in S => n + 1 \in S
    PROVE  \A n \in Nat : n \in S
<1> DEFINE R == OpToRel(<, Nat)
           T == Nat \ S
<1>1. R = {ss \in Nat \X Nat : ss[1] < ss[2]}
  BY DEF OpToRel
<1>2. IsWellFoundedOn(R, Nat)
  BY NatLessThanWellFounded, Zenon
<1> HIDE DEF R
<1> SUFFICES ASSUME T # {} PROVE FALSE
  OBVIOUS
<1>3. PICK x \in T : \A y \in T : ~(<<y, x>> \in R)
  BY <1>2, WFMin
<1>4. x # 0 /\ x \in Nat
  OBVIOUS
<1>5. x - 1 \in Nat /\ <<x - 1, x>> \in R
  BY <1>1, <1>4
<1>6. x - 1 \in S
  BY <1>3, <1>5
<1>7. (x - 1) + 1 \in S
  BY <1>5, <1>6
<1>8. QED
  BY <1>4, <1>7

(* FlattenSeq is a recursive function.                                     *)
FlatStep(seqs, g, i) == IF i = 1 THEN seqs[i] ELSE g[i - 1] \o seqs[i]

Flat(seqs) == CHOOSE g : g = [i \in 1 .. Len(seqs) |-> FlatStep(seqs, g, i)]

LEMMA FlattenIsFlat ==
    ASSUME NEW seqs, Len(seqs) # 0
    PROVE  Modulator!FlattenSeq(seqs) = Flat(seqs)[Len(seqs)]
  BY Zenon DEF Modulator!FlattenSeq, Flat, FlatStep

LEMMA FlatExists ==
    ASSUME NEW seqs, Len(seqs) \in Nat
    PROVE  Flat(seqs) = [i \in 1 .. Len(seqs) |-> FlatStep(seqs, Flat(seqs), i)]
<1> DEFINE L == Len(seqs)
           Goes(g, m) == \A i \in 1 .. L : i <= m => g[i] = FlatStep(seqs, g, i)
           Far == {m \in Nat : \E g : g = [i \in 1 .. L |-> g[i]] /\ Goes(g, m)}
<1>1. 0 \in Far
  <2> DEFINE g == [i \in 1 .. L |-> 0]
  <2>1. g = [i \in 1 .. L |-> g[i]] /\ Goes(g, 0)
    OBVIOUS
  <2> HIDE DEF g
  <2>2. QED
    BY <2>1
<1>2. ASSUME NEW m \in Nat, m \in Far PROVE m + 1 \in Far
  <2>1. PICK g : g = [i \in 1 .. L |-> g[i]] /\ Goes(g, m)
    BY <1>2
  <2> DEFINE added == FlatStep(seqs, g, m + 1)
             h == [i \in 1 .. L |-> IF i = m + 1 THEN added ELSE g[i]]
  <2> HIDE DEF added
  <2>2. h = [i \in 1 .. L |-> h[i]]
    OBVIOUS
  <2>3. \A i \in 1 .. L : h[i] = IF i = m + 1 THEN added ELSE g[i]
    OBVIOUS
  <2> HIDE DEF h
  <2>4. ASSUME NEW i \in 1 .. L, i <= m + 1 PROVE h[i] = FlatStep(seqs, h, i)
    <3>1. i # 1 => i - 1 \in 1 .. L /\ i - 1 # m + 1
      BY <2>4
    <3>2. i # 1 => h[i - 1] = g[i - 1]
      BY <2>3, <3>1
    <3>3. FlatStep(seqs, h, i) = FlatStep(seqs, g, i)
      BY <3>2 DEF FlatStep
    <3>4. CASE i = m + 1
      BY <2>3, <3>3, <3>4 DEF added
    <3>5. CASE i # m + 1
      <4>1. i <= m
        BY <2>4, <3>5
      <4>2. g[i] = FlatStep(seqs, g, i)
        BY <2>1, <4>1
      <4>3. QED
        BY <2>3, <3>3, <3>5, <4>2
    <3>6. QED
      BY <3>4, <3>5
  <2>5. QED
    BY <2>2, <2>4
<1>3. \A m \in Nat : m \in Far
  <2> HIDE DEF Far
  <2>1. QED
    BY <1>1, <1>2, SetInduction
<1>4. PICK g : g = [i \in 1 .. L |-> g[i]] /\ Goes(g, L)
  BY <1>3
<1>5. \A i \in 1 .. L : g[i] = FlatStep(seqs, g, i)
  BY <1>4
<1>6. g = [i \in 1 .. L |-> FlatStep(seqs, g, i)]
  BY <1>4, <1>5
<1>7. QED
  BY <1>6, Zenon DEF Flat, L

LEMMA FlattenIn ==
    ASSUME NEW S, NEW seqs \in Seq(Seq(S))
    PROVE  Modulator!FlattenSeq(seqs) \in Seq(S)
<1>1. Len(seqs) \in Nat
  OBVIOUS
<1>2. CASE Len(seqs) = 0
  <2>1. Modulator!FlattenSeq(seqs) = seqs
    BY <1>2 DEF Modulator!FlattenSeq
  <2>2. seqs = << >>
    BY <1>2
  <2>3. QED
    BY <2>1, <2>2
<1>3. CASE Len(seqs) # 0
  <2> DEFINE g == Flat(seqs)
             Good == {m \in Nat : m + 1 <= Len(seqs) => g[m + 1] \in Seq(S)}
  <2>1. g = [i \in 1 .. Len(seqs) |-> FlatStep(seqs, g, i)]
    BY <1>1, FlatExists
  <2> HIDE DEF g
  <2>2. \A i \in 1 .. Len(seqs) : g[i] = FlatStep(seqs, g, i)
    BY <2>1, Zenon
  <2>3. \A i \in 1 .. Len(seqs) : seqs[i] \in Seq(S)
    OBVIOUS
  <2>4. 0 \in Good
    <3>1. 1 \in 1 .. Len(seqs)
      BY <1>1, <1>3
    <3>2. g[1] \in Seq(S)
      BY <2>2, <2>3, <3>1 DEF FlatStep
    <3>3. QED
      BY <3>2
  <2>5. ASSUME NEW m \in Nat, m \in Good PROVE m + 1 \in Good
    <3>1. CASE ~(m + 2 <= Len(seqs))
      BY <1>1, <3>1
    <3>2. CASE m + 2 <= Len(seqs)
      <4>1. m + 2 \in 1 .. Len(seqs) /\ m + 2 # 1 /\ (m + 2) - 1 = m + 1
        BY <1>1, <3>2
      <4>2. g[m + 1] \in Seq(S)
        BY <1>1, <2>5, <3>2
      <4>3. g[m + 2] = g[m + 1] \o seqs[m + 2]
        BY <2>2, <4>1 DEF FlatStep
      <4>4. g[m + 2] \in Seq(S)
        BY <2>3, <4>1, <4>2, <4>3
      <4>5. QED
        BY <4>4
    <3>3. QED
      BY <3>1, <3>2
  <2>6. \A m \in Nat : m \in Good
    <3> HIDE DEF Good
    <3>1. QED
      BY <2>4, <2>5, SetInduction
  <2>7. g[Len(seqs)] \in Seq(S)
    <3>1. /\ Len(seqs) - 1 \in Nat /\ (Len(seqs) - 1) + 1 = Len(seqs)
          /\ Len(seqs) <= Len(seqs)
      BY <1>1, <1>3
    <3>2. Len(seqs) - 1 \in Good
      BY <2>6, <3>1
    <3>3. QED
      BY <3>1, <3>2
  <2>8. QED
    BY <1>3, <2>7, FlattenIsFlat DEF g
<1>4. QED
  BY <1>2, <1>3

(* The elements there may be: those of the subchannels, and one of each    *)
(* of the others.                                                          *)
OfSubchannels == {"subchannel", "subchPrbs", "subchConv", "subchPunc", "subchInterleaver"}
OfSymbols == {"cifPrbs", "cifMux", "fic", "ficPrbs", "ficConv", "ficPunc", "cifPart", "cifMap",
              "cifFreq", "cifRef", "cifDiff", "cifNull", "cifSig"}
OfSamples == {"cifSig", "cifCicEq", "cifOfdm", "cifGain", "cifGuard", "cifFilter", "cifRes",
              "cifPoly", "formatConverter", "output"}
OfTii == {"tiiRef", "tii", "cifSig"}

Early == (OfSubchannels \X Nat) \cup (OfSymbols \X {0})
Behind == OfSamples \X {0}
AnyNode == Early \cup Behind \cup (OfTii \X {0})

LEMMA ChainOf ==
    ASSUME NEW S, NEW seq \in Seq(S), Len(seq) >= 1
    PROVE  Modulator!Chain(seq) \in Seq(S \X S)
<1>1. Len(seq) - 1 \in Nat
  OBVIOUS
<1>2. \A i \in 1 .. Len(seq) - 1 : seq[i] \in S /\ seq[i + 1] \in S
  BY <1>1
<1>3. QED
  BY <1>1, <1>2 DEF Modulator!Chain

LEMMA JoinHas ==
    ASSUME NEW S, NEW a \in Seq(S), NEW b \in Seq(S), NEW x, Has(a, x) \/ Has(b, x)
    PROVE  Has(a \o b, x)
<1>1. CASE Has(a, x)
  <2>1. PICK i \in DOMAIN a : a[i] = x
    BY <1>1 DEF Has
  <2>2. i \in DOMAIN (a \o b) /\ (a \o b)[i] = x
    BY <2>1
  <2>3. QED
    BY <2>2 DEF Has
<1>2. CASE Has(b, x)
  <2>1. PICK i \in DOMAIN b : b[i] = x
    BY <1>2 DEF Has
  <2>2. i \in 1 .. Len(b) /\ Len(a) + i \in Len(a) + 1 .. Len(a) + Len(b)
    BY <2>1
  <2>3. Len(a) + i \in DOMAIN (a \o b) /\ (a \o b)[Len(a) + i] = b[(Len(a) + i) - Len(a)]
    BY <2>2, JoinOf
  <2>4. (a \o b)[Len(a) + i] = x
    BY <2>1, <2>2, <2>3
  <2>5. QED
    BY <2>3, <2>4 DEF Has
<1>3. QED
  BY <1>1, <1>2

LEMMA ElementOf ==
    ASSUME NEW S, NEW seq \in Seq(S), NEW i \in DOMAIN seq
    PROVE  seq[i] \in S
  OBVIOUS

LEMMA JoinEach ==
    ASSUME NEW S, NEW a \in Seq(S), NEW b \in Seq(S), NEW U, NEW V,
           \A i \in DOMAIN a : a[i] \in U, \A i \in DOMAIN b : b[i] \in V
    PROVE  \A i \in DOMAIN (a \o b) : (a \o b)[i] \in U \/ (a \o b)[i] \in V
<1> SUFFICES ASSUME NEW i \in DOMAIN (a \o b) PROVE (a \o b)[i] \in U \/ (a \o b)[i] \in V
  OBVIOUS
<1>1. i \in 1 .. Len(a) + Len(b) /\ DOMAIN a = 1 .. Len(a) /\ DOMAIN b = 1 .. Len(b)
  BY JoinOf
<1>2. CASE i <= Len(a)
  <2>1. i \in 1 .. Len(a)
    BY <1>1, <1>2
  <2>2. QED
    BY <1>1, <2>1, JoinOf
<1>3. CASE ~(i <= Len(a))
  <2>1. i \in Len(a) + 1 .. Len(a) + Len(b) /\ i - Len(a) \in 1 .. Len(b)
    BY <1>1, <1>3
  <2>2. QED
    BY <1>1, <2>1, JoinOf
<1>4. QED
  BY <1>2, <1>3

(* The connections of the subchannels, the FIC and the symbols.            *)
FicCalls == Modulator!Chain(<< <<"fic", 0>>, <<"ficPrbs", 0>>, <<"ficConv", 0>>, <<"ficPunc", 0>>,
                               <<"cifPart", 0>> >>)
SubchannelCalls == Modulator!FlattenSeq([i \in 1 .. Len(stc) |-> Modulator!SubchannelChain(i)])
CifCalls ==
    Modulator!Chain(<< <<"cifMux", 0>>, <<"cifPart", 0>>, <<"cifMap", 0>>, <<"cifFreq", 0>> >>)
SymbolCalls == << << <<"cifRef", 0>>, <<"cifDiff", 0>> >>, << <<"cifFreq", 0>>, <<"cifDiff", 0>> >>,
                  << <<"cifNull", 0>>, <<"cifSig", 0>> >>, << <<"cifDiff", 0>>, <<"cifSig", 0>> >> >>
FrontCalls == << << <<"cifPrbs", 0>>, <<"cifMux", 0>> >> >> \o FicCalls \o SubchannelCalls
                  \o CifCalls \o SymbolCalls
TiiCalls == Modulator!Chain(<< <<"tiiRef", 0>>, <<"tii", 0>>, <<"cifSig", 0>> >>)
BackCalls == Modulator!Chain(Modulator!Plugins)

LEMMA CallsInOrder ==
    ASSUME Modulator!Tii
    PROVE  Modulator!Connections = (FrontCalls \o TiiCalls) \o BackCalls
  BY Zenon DEF Modulator!Connections, Modulator!Node, FrontCalls, FicCalls, SubchannelCalls, CifCalls,
               SymbolCalls, TiiCalls, BackCalls

LEMMA SubchannelsEarly ==
    ASSUME stc \in Seq((0 .. 1023) \X (0 .. 63))
    PROVE  SubchannelCalls \in Seq(Early \X Early)
<1> DEFINE chains == [i \in 1 .. Len(stc) |-> Modulator!SubchannelChain(i)]
<1>1. ASSUME NEW i \in 1 .. Len(stc) PROVE Modulator!SubchannelChain(i) \in Seq(Early \X Early)
  <2> DEFINE elements == << <<"subchannel", i>>, <<"subchPrbs", i>>, <<"subchConv", i>>,
                            <<"subchPunc", i>>, <<"subchInterleaver", i>>, <<"cifMux", 0>> >>
  <2>1. i \in Nat
    OBVIOUS
  <2>2. /\ <<"subchannel", i>> \in Early /\ <<"subchPrbs", i>> \in Early
        /\ <<"subchConv", i>> \in Early /\ <<"subchPunc", i>> \in Early
        /\ <<"subchInterleaver", i>> \in Early /\ <<"cifMux", 0>> \in Early
    BY <2>1 DEF Early, OfSubchannels, OfSymbols
  <2>3. elements \in Seq(Early) /\ Len(elements) >= 1
    BY <2>2
  <2>4. Modulator!SubchannelChain(i) = Modulator!Chain(elements)
    BY DEF Modulator!SubchannelChain, Modulator!Node
  <2> HIDE DEF elements
  <2>5. QED
    BY <2>3, <2>4, ChainOf
<1>2. Len(stc) \in Nat
  OBVIOUS
<1>3. chains \in Seq(Seq(Early \X Early))
  BY <1>1, <1>2
<1> HIDE DEF chains
<1>4. Modulator!FlattenSeq(chains) \in Seq(Early \X Early)
  BY <1>3, FlattenIn
<1>5. QED
  BY <1>4 DEF SubchannelCalls, chains

LEMMA FrontEarly ==
    ASSUME stc \in Seq((0 .. 1023) \X (0 .. 63))
    PROVE  /\ FrontCalls \in Seq(Early \X Early)
           /\ Has(FrontCalls, << <<"ficPunc", 0>>, <<"cifPart", 0>> >>)
<1> DEFINE E == Early \X Early
           first == << << <<"cifPrbs", 0>>, <<"cifMux", 0>> >> >>
           edge == << <<"ficPunc", 0>>, <<"cifPart", 0>> >>
<1>1. \A n \in OfSymbols : <<n, 0>> \in Early
  BY DEF Early
<1>2. first \in Seq(E)
  <2>1. <<"cifPrbs", 0>> \in Early /\ <<"cifMux", 0>> \in Early
    BY <1>1 DEF OfSymbols
  <2>2. QED
    BY <2>1
<1>3. FicCalls \in Seq(E) /\ Has(FicCalls, edge)
  <2> DEFINE elements == << <<"fic", 0>>, <<"ficPrbs", 0>>, <<"ficConv", 0>>, <<"ficPunc", 0>>,
                            <<"cifPart", 0>> >>
  <2>1. /\ <<"fic", 0>> \in Early /\ <<"ficPrbs", 0>> \in Early /\ <<"ficConv", 0>> \in Early
        /\ <<"ficPunc", 0>> \in Early /\ <<"cifPart", 0>> \in Early
    BY <1>1 DEF OfSymbols
  <2>2. /\ elements \in Seq(Early) /\ Len(elements) = 5
        /\ elements[4] = <<"ficPunc", 0>> /\ elements[5] = <<"cifPart", 0>>
    BY <2>1
  <2> HIDE DEF elements
  <2> DEFINE chain == Modulator!Chain(elements)
  <2>3. chain \in Seq(Early \X Early)
    BY <2>2, ChainOf
  <2>4. chain = [i \in 1 .. 4 |-> <<elements[i], elements[i + 1]>>]
    BY <2>2 DEF Modulator!Chain
  <2> HIDE DEF chain
  <2>5. 4 \in DOMAIN chain /\ chain[4] = <<elements[4], elements[5]>>
    BY <2>4
  <2>6. FicCalls = chain
    BY DEF FicCalls, elements, chain
  <2>7. QED
    BY <2>2, <2>3, <2>5, <2>6 DEF Has
<1>4. SubchannelCalls \in Seq(E)
  BY SubchannelsEarly
<1>5. CifCalls \in Seq(E)
  <2> DEFINE elements == << <<"cifMux", 0>>, <<"cifPart", 0>>, <<"cifMap", 0>>, <<"cifFreq", 0>> >>
  <2>1. /\ <<"cifMux", 0>> \in Early /\ <<"cifPart", 0>> \in Early
        /\ <<"cifMap", 0>> \in Early /\ <<"cifFreq", 0>> \in Early
    BY <1>1 DEF OfSymbols
  <2>2. elements \in Seq(Early) /\ Len(elements) >= 1
    BY <2>1
  <2> HIDE DEF elements
  <2>3. Modulator!Chain(elements) \in Seq(Early \X Early)
    BY <2>2, ChainOf
  <2>4. QED
    BY <2>3 DEF CifCalls, elements
<1>6. SymbolCalls \in Seq(E)
  <2>1. \A m, n \in OfSymbols : << <<m, 0>>, <<n, 0>> >> \in E
    BY <1>1
  <2> HIDE DEF E
  <2>2. /\ << <<"cifRef", 0>>, <<"cifDiff", 0>> >> \in E
        /\ << <<"cifFreq", 0>>, <<"cifDiff", 0>> >> \in E
        /\ << <<"cifNull", 0>>, <<"cifSig", 0>> >> \in E
        /\ << <<"cifDiff", 0>>, <<"cifSig", 0>> >> \in E
    BY <2>1 DEF OfSymbols
  <2>3. \A a, b, c, d \in E : <<a, b, c, d>> \in Seq(E)
    OBVIOUS
  <2>4. QED
    BY <2>2, <2>3, Zenon DEF SymbolCalls
<1> HIDE DEF first, E, edge
<1>7. ASSUME NEW a \in Seq(E), NEW b \in Seq(E), Has(a, edge) \/ Has(b, edge)
      PROVE  a \o b \in Seq(E) /\ Has(a \o b, edge)
  BY <1>7, JoinOf, JoinHas
<1> DEFINE c1 == first \o FicCalls
           c2 == c1 \o SubchannelCalls
           c3 == c2 \o CifCalls
           c4 == c3 \o SymbolCalls
<1>8. c1 \in Seq(E) /\ Has(c1, edge)
  BY <1>2, <1>3, <1>7
<1> HIDE DEF c1
<1>9. c2 \in Seq(E) /\ Has(c2, edge)
  BY <1>4, <1>7, <1>8
<1> HIDE DEF c2
<1>10. c3 \in Seq(E) /\ Has(c3, edge)
  BY <1>5, <1>7, <1>9
<1> HIDE DEF c3
<1>11. c4 \in Seq(E) /\ Has(c4, edge)
  BY <1>6, <1>7, <1>10
<1>12. QED
  BY <1>11, Zenon DEF FrontCalls, first, E, edge, c1, c2, c3

LEMMA TiiCallsAre ==
    TiiCalls = << << <<"tiiRef", 0>>, <<"tii", 0>> >>, << <<"tii", 0>>, <<"cifSig", 0>> >> >>
<1> DEFINE elements == << <<"tiiRef", 0>>, <<"tii", 0>>, <<"cifSig", 0>> >>
<1>1. Len(elements) = 3
  OBVIOUS
<1>2. Modulator!Chain(elements) = [i \in 1 .. 2 |-> <<elements[i], elements[i + 1]>>]
  BY <1>1 DEF Modulator!Chain
<1>3. QED
  BY <1>2 DEF TiiCalls

LEMMA PluginsBehind == Modulator!Plugins \in Seq(Behind) /\ Len(Modulator!Plugins) >= 1
<1> DEFINE Maybe(condition, name) == IF condition THEN << <<name, 0>> >> ELSE << >>
           p0 == << <<"cifSig", 0>> >>
           p1 == Maybe(settings.cicEq, "cifCicEq")
           p2 == << <<"cifOfdm", 0>> >>
           p3 == IF Modulator!FixedPoint THEN << >> ELSE << <<"cifGain", 0>> >>
           p4 == << <<"cifGuard", 0>> >>
           p5 == Maybe(settings.filter, "cifFilter")
           p6 == Maybe(settings.rate # <<1, 1>>, "cifRes")
           p7 == Maybe(settings.poly, "cifPoly")
           p8 == Maybe(Modulator!Format(settings) # "", "formatConverter")
           p9 == << <<"output", 0>> >>
           B == Seq(Behind)
<1>1. ASSUME NEW n \in OfSamples PROVE << <<n, 0>> >> \in B
  BY DEF Behind
<1>2. << >> \in B
  OBVIOUS
<1>3. p0 \in B /\ p2 \in B /\ p4 \in B /\ p9 \in B
  BY <1>1 DEF OfSamples
<1>4. p1 \in B /\ p3 \in B /\ p5 \in B /\ p6 \in B /\ p7 \in B /\ p8 \in B
  <2>1. /\ << <<"cifCicEq", 0>> >> \in B /\ << <<"cifGain", 0>> >> \in B
        /\ << <<"cifFilter", 0>> >> \in B /\ << <<"cifRes", 0>> >> \in B
        /\ << <<"cifPoly", 0>> >> \in B /\ << <<"formatConverter", 0>> >> \in B
    BY <1>1 DEF OfSamples
  <2> HIDE DEF B
  <2>2. QED
    BY <1>2, <2>1, Zenon
<1>5. Len(p0) = 1
  OBVIOUS
<1>6. Modulator!Plugins = p0 \o p1 \o p2 \o p3 \o p4 \o p5 \o p6 \o p7 \o p8 \o p9
  BY Zenon DEF Modulator!Plugins, Modulator!Node
<1> HIDE DEF p0, p1, p2, p3, p4, p5, p6, p7, p8, p9
<1>7. ASSUME NEW a \in B, NEW b \in B, Len(a) >= 1 PROVE a \o b \in B /\ Len(a \o b) >= 1
  BY <1>7, JoinOf
<1> HIDE DEF B
<1> DEFINE q1 == p0 \o p1
           q3 == q1 \o p2 \o p3
           q5 == q3 \o p4 \o p5
           q7 == q5 \o p6 \o p7
           q9 == q7 \o p8 \o p9
<1>8. q1 \in B /\ Len(q1) >= 1
  <2>1. Len(p0) >= 1
    BY <1>5
  <2>2. QED
    BY <1>3, <1>4, <1>7, <2>1
<1> HIDE DEF q1
<1>9. q3 \in B /\ Len(q3) >= 1
  BY <1>3, <1>4, <1>7, <1>8
<1> HIDE DEF q3
<1>10. q5 \in B /\ Len(q5) >= 1
  BY <1>3, <1>4, <1>7, <1>9
<1> HIDE DEF q5
<1>11. q7 \in B /\ Len(q7) >= 1
  BY <1>4, <1>7, <1>10
<1> HIDE DEF q7
<1>12. q9 \in B /\ Len(q9) >= 1
  BY <1>3, <1>4, <1>7, <1>11
<1>13. QED
  BY <1>6, <1>12 DEF q1, q3, q5, q7, B

(* The calls are of elements there may be; the block partitioner is        *)
(* connected before the TII is, and that before what comes behind it.      *)
LEMMA OrderOfCalls ==
    ASSUME stc \in Seq((0 .. 1023) \X (0 .. 63)), Modulator!Tii
    PROVE  /\ Modulator!Connections \in Seq(AnyNode \X AnyNode)
           /\ Len(Modulator!Connections) >= 1
           /\ Follows(Modulator!Connections, <<"cifPart", 0>>, <<"tii", 0>>)
           /\ \A q \in Modulator!Pipelined : Follows(Modulator!Connections, <<"tii", 0>>, <<q, 0>>)
           /\ \E i \in DOMAIN Modulator!Connections : Touches(Modulator!Connections[i], <<"tii", 0>>)
<1> DEFINE A == AnyNode \X AnyNode
           cifPart == <<"cifPart", 0>>
           tii == <<"tii", 0>>
<1>1. /\ FrontCalls \in Seq(Early \X Early)
      /\ Has(FrontCalls, << <<"ficPunc", 0>>, cifPart >>)
  BY FrontEarly
<1>2. /\ TiiCalls \in Seq(A) /\ Has(TiiCalls, << <<"tiiRef", 0>>, tii >>)
      /\ \A i \in DOMAIN TiiCalls : TiiCalls[i] \in (OfTii \X {0}) \X (OfTii \X {0})
  <2> DEFINE O == OfTii \X {0}
  <2>1. <<"tiiRef", 0>> \in O /\ tii \in O /\ <<"cifSig", 0>> \in O
    BY DEF OfTii
  <2>2. /\ << <<"tiiRef", 0>>, tii >> \in O \X O
        /\ << tii, <<"cifSig", 0>> >> \in O \X O
    BY <2>1
  <2>3. TiiCalls \in Seq(O \X O) /\ 1 \in DOMAIN TiiCalls /\ TiiCalls[1] = << <<"tiiRef", 0>>, tii >>
    <3> HIDE DEF O
    <3>1. QED
      BY <2>2, TiiCallsAre
  <2>4. O \subseteq AnyNode
    BY DEF AnyNode
  <2> HIDE DEF O
  <2>5. TiiCalls \in Seq(A)
    BY <2>3, <2>4
  <2>6. \A i \in DOMAIN TiiCalls : TiiCalls[i] \in O \X O
    BY <2>3, ElementOf
  <2>7. QED
    BY <2>3, <2>5, <2>6 DEF Has, O
<1>3. BackCalls \in Seq(Behind \X Behind)
  BY PluginsBehind, ChainOf DEF BackCalls
<1>4. FrontCalls \in Seq(A) /\ BackCalls \in Seq(A)
  <2>1. Early \subseteq AnyNode /\ Behind \subseteq AnyNode
    BY DEF AnyNode
  <2>2. QED
    BY <1>1, <1>3, <2>1
<1>5. \A i \in DOMAIN FrontCalls : FrontCalls[i] \in Early \X Early
  BY <1>1, ElementOf
<1>6. \A i \in DOMAIN BackCalls : BackCalls[i] \in Behind \X Behind
  BY <1>3, ElementOf
<1> DEFINE x == FrontCalls \o TiiCalls
           y == TiiCalls \o BackCalls
<1>7. /\ x \in Seq(A) /\ Has(x, << <<"tiiRef", 0>>, tii >>)
      /\ \A i \in DOMAIN x : \/ x[i] \in Early \X Early
                             \/ x[i] \in (OfTii \X {0}) \X (OfTii \X {0})
  BY <1>2, <1>4, <1>5, JoinOf, JoinHas, JoinEach
<1>8. /\ y \in Seq(A)
      /\ \A i \in DOMAIN y : \/ y[i] \in (OfTii \X {0}) \X (OfTii \X {0})
                             \/ y[i] \in Behind \X Behind
  BY <1>2, <1>4, <1>6, JoinOf, JoinEach
<1>9. Modulator!Connections = x \o BackCalls /\ Modulator!Connections = FrontCalls \o y
  <2>1. Modulator!Connections = x \o BackCalls
    BY CallsInOrder
  <2>2. x \o BackCalls = FrontCalls \o y
    <3> HIDE DEF A
    <3>1. FrontCalls \in Seq(A) /\ TiiCalls \in Seq(A) /\ BackCalls \in Seq(A)
      BY <1>2, <1>4
    <3>2. QED
      BY <3>1, ConcatAssociative
  <2>3. QED
    BY <2>1, <2>2
<1> HIDE DEF x, y, A
<1>10. Modulator!Connections \in Seq(A) /\ Has(Modulator!Connections, << <<"tiiRef", 0>>, tii >>)
  <2> DEFINE edge == << <<"tiiRef", 0>>, tii >>
  <2> HIDE DEF edge
  <2>1. x \in Seq(A) /\ BackCalls \in Seq(A) /\ Has(x, edge)
    BY <1>4, <1>7 DEF edge
  <2>2. x \o BackCalls \in Seq(A) /\ Has(x \o BackCalls, edge)
    BY <2>1, JoinOf, JoinHas
  <2>3. QED
    BY <1>9, <2>2 DEF edge
<1>11. Follows(FrontCalls \o y, cifPart, tii)
  <2>1. \E i \in DOMAIN FrontCalls : Touches(FrontCalls[i], cifPart)
    <3>1. PICK i \in DOMAIN FrontCalls : FrontCalls[i] = << <<"ficPunc", 0>>, cifPart >>
      BY <1>1 DEF Has
    <3> HIDE DEF cifPart
    <3>2. Touches(FrontCalls[i], cifPart)
      BY <3>1 DEF Touches
    <3>3. QED
      BY <3>2
  <2>2. tii \notin Early
    BY DEF Early, OfSubchannels, OfSymbols
  <2>3. \A i \in DOMAIN FrontCalls : ~Touches(FrontCalls[i], tii)
    <3> HIDE DEF tii
    <3>1. QED
      BY <1>5, <2>2 DEF Touches
  <2>4. cifPart \notin OfTii \X {0} /\ cifPart \notin Behind
    BY DEF OfTii, Behind, OfSamples
  <2> HIDE DEF cifPart, tii
  <2>5. \A i \in DOMAIN y : y[i][2] # cifPart
    BY <1>8, <2>4
  <2>6. FrontCalls \in Seq(AnyNode \X AnyNode) /\ y \in Seq(AnyNode \X AnyNode)
    BY <1>4, <1>8 DEF A
  <2>7. QED
    BY <2>1, <2>3, <2>5, <2>6, SplitFollows, Zenon
<1>12. ASSUME NEW q \in Modulator!Pipelined PROVE Follows(x \o BackCalls, tii, <<q, 0>>)
  <2> DEFINE n == <<q, 0>>
  <2>1. \E i \in DOMAIN x : Touches(x[i], tii)
    BY <1>7 DEF Has, Touches
  <2>2. n \notin Early /\ n \notin OfTii \X {0}
    BY DEF Early, OfSubchannels, OfSymbols, OfTii, Modulator!Pipelined
  <2>3. \A i \in DOMAIN x : ~Touches(x[i], n)
    <3> HIDE DEF n
    <3>1. QED
      BY <1>7, <2>2 DEF Touches
  <2>4. tii \notin Behind
    BY DEF Behind, OfSamples
  <2>5. \A i \in DOMAIN BackCalls : BackCalls[i][2] # tii
    BY <1>6, <2>4
  <2>6. x \in Seq(AnyNode \X AnyNode) /\ BackCalls \in Seq(AnyNode \X AnyNode)
    BY <1>4, <1>7 DEF A
  <2> HIDE DEF n, tii
  <2>7. Follows(x \o BackCalls, tii, n)
    BY <2>1, <2>3, <2>5, <2>6, SplitFollows, Zenon
  <2>8. QED
    BY <2>7 DEF n
<1>13. /\ Len(Modulator!Connections) >= 1
       /\ \E i \in DOMAIN Modulator!Connections : Touches(Modulator!Connections[i], tii)
  <2> DEFINE c == Modulator!Connections
  <2>1. c \in Seq(A)
    BY <1>10
  <2>2. PICK i \in DOMAIN c : c[i] = << <<"tiiRef", 0>>, tii >>
    BY <1>10 DEF Has
  <2> HIDE DEF c
  <2>3. Len(c) >= 1 /\ Touches(c[i], tii)
    BY <2>1, <2>2 DEF Touches
  <2>4. QED
    BY <2>3 DEF c
<1>14. QED
  BY <1>9, <1>10, <1>11, <1>12, <1>13 DEF A

-----------------------------------------------------------------------------
(* src/DabModulator.cpp, src/BlockPartitioner.cpp, src/TII.cpp: which      *)
(* transmission frame it is.                                               *)

LEMMA ModulatorIsAlone == ModulatorSpec => Modulator!Init /\ [][Modulator!Next]_modulatorVars
<1>1. ModulatorInit => Modulator!Init
  BY DEF ModulatorInit
<1>2. [ModulatorNext]_<<part, vars, configVars, modulatorVars, codeVars>> => [Modulator!Next]_modulatorVars
  BY DEF ModulatorNext
<1>3. QED
  BY <1>1, <1>2, PTL DEF ModulatorSpec

CifPart == <<"cifPart", 0>>
TiiNode == <<"tii", 0>>

PlaceOfPart == Modulator!Position(nodes, CifPart)
PlaceOfTii == Modulator!Position(nodes, TiiNode)

(* CIFs in a transmission frame.                                           *)
Cifs == Modulator!T.cifCount

(* What was connected so far is in an order that suits TII.                *)
LaidOut ==
    /\ edges \in Seq(AnyNode \X AnyNode) /\ nodes \in Seq(AnyNode) /\ Len(edges) >= 1
    /\ Follows(edges, CifPart, TiiNode) /\ Before(nodes, CifPart, TiiNode)
    /\ \A q \in Modulator!Pipelined :
          Follows(edges, TiiNode, <<q, 0>>) /\ Before(nodes, TiiNode, <<q, 0>>)
    /\ \E i \in DOMAIN edges : Touches(edges[i], TiiNode)
    /\ stage = "connect" => position \in 1 .. Len(edges) /\ Laid(nodes, edges, position - 1)
    /\ stage # "connect" => Laid(nodes, edges, Len(edges))

(* The partitioner has the CIFs of the rounds so far of this transmission  *)
(* frame, and TII comes with the frames of the first half of the rounds.   *)
Waits == d_cifNb = round % Cifs /\ (m_insert <=> round < Cifs)

(* The last CIF of a transmission frame is there.                          *)
FrameComplete == d_cifNb = 0 /\ round % Cifs = Cifs - 1

Counted ==
    /\ position \in 1 .. Len(nodes)
    /\ position <= PlaceOfPart => Waits
    /\ position > PlaceOfPart => FrameComplete
    /\ position > PlaceOfPart /\ position <= PlaceOfTii => (m_insert <=> round < Cifs)
    /\ position > PlaceOfTii => /\ m_insert <=> ~(round < Cifs)
                                /\ inserted <=> round < Cifs

AlignedInv ==
    /\ stc \in Seq((0 .. 1023) \X (0 .. 63))
    /\ stage \in {"prepare", "setup", "connect", "idle", "run", "failed"}
    /\ Modulator!Tii =>
          /\ round \in 0 .. 2 * Cifs - 1
          /\ stage \in {"prepare", "setup"} => nodes = << >>
          /\ stage \in {"connect", "idle", "run"} => LaidOut
          /\ stage \in {"prepare", "setup", "connect", "idle"} => Waits
          /\ stage = "run" => Counted

LEMMA CifsOfTii == ASSUME Modulator!Tii PROVE Cifs \in {1, 4}
<1>1. settings.dabMode = 1 \/ settings.dabMode = 2
  BY DEF Modulator!Tii
<1>2. Modulator!Mode(1).cifCount = 4 /\ Modulator!Mode(2).cifCount = 1
  BY DEF Modulator!Mode
<1>3. QED
  BY <1>1, <1>2 DEF Cifs, Modulator!T

LEMMA RoundGoesOn ==
    ASSUME NEW c \in {1, 4}, NEW r \in 0 .. 2 * c - 1
    PROVE  LET s == (r + 1) % (2 * c)
           IN  /\ s \in 0 .. 2 * c - 1 /\ s % c = ((r % c) + 1) % c
               /\ r % c # c - 1 => (s < c <=> r < c)
               /\ r % c = c - 1 => s % c = 0 /\ (s < c <=> ~(r < c))
<1>1. CASE c = 1
  <2>1. r = 0 \/ r = 1
    BY <1>1
  <2>2. QED
    BY <1>1, <2>1
<1>2. CASE c = 4
  <2>1. r \in 0 .. 7
    BY <1>2
  <2>2. CASE r \in {0, 1, 2}
    BY <1>2, <2>2
  <2>3. CASE r \in {4, 5, 6}
    BY <1>2, <2>3
  <2>4. CASE r = 3
    BY <1>2, <2>4
  <2>5. CASE r = 7
    BY <1>2, <2>5
  <2>6. QED
    BY <2>1, <2>2, <2>3, <2>4, <2>5
<1>3. QED
  BY <1>1, <1>2

(* Where the elements are that count.                                      *)
LEMMA Places ==
    ASSUME LaidOut, stage \in {"idle", "run"}
    PROVE  /\ PlaceOfPart \in DOMAIN nodes /\ PlaceOfTii \in DOMAIN nodes
           /\ PlaceOfPart < PlaceOfTii
           /\ nodes[PlaceOfPart][1] = "cifPart" /\ nodes[PlaceOfTii][1] = "tii"
           /\ \A i \in DOMAIN nodes : /\ nodes[i][1] = "cifPart" => i = PlaceOfPart
                                      /\ nodes[i][1] = "tii" => i = PlaceOfTii
                                      /\ nodes[i][1] \in Modulator!Pipelined => i > PlaceOfTii
<1>1. Laid(nodes, edges, Len(edges)) /\ Once(nodes) /\ nodes \in Seq(AnyNode)
  BY DEF LaidOut, Laid
<1>2. Has(nodes, TiiNode)
  <2>1. PICK i \in DOMAIN edges : Touches(edges[i], TiiNode)
    BY DEF LaidOut
  <2>2. i \in 1 .. Len(edges)
    BY DEF LaidOut
  <2>3. QED
    BY <1>1, <2>1, <2>2 DEF Laid
<1>3. Has(nodes, CifPart)
  <2>1. Len(edges) \in 0 .. Len(edges) /\ edges \in Seq(AnyNode \X AnyNode)
    BY DEF LaidOut
  <2>2. Follows(edges, CifPart, TiiNode)
    BY DEF LaidOut
  <2>3. QED
    BY <1>1, <1>2, <2>1, <2>2, ThereFirst
<1>4. /\ PlaceOfPart \in DOMAIN nodes /\ nodes[PlaceOfPart] = CifPart
      /\ PlaceOfTii \in DOMAIN nodes /\ nodes[PlaceOfTii] = TiiNode
  BY <1>2, <1>3, PositionOf DEF PlaceOfPart, PlaceOfTii
<1>5. PlaceOfPart < PlaceOfTii
  BY <1>4 DEF LaidOut, Before
<1>6. ASSUME NEW i \in DOMAIN nodes
      PROVE  /\ nodes[i][1] = "cifPart" => nodes[i] = CifPart
             /\ nodes[i][1] = "tii" => nodes[i] = TiiNode
             /\ nodes[i][1] \in Modulator!Pipelined => nodes[i] = <<nodes[i][1], 0>>
  <2>1. nodes[i] \in AnyNode
    BY <1>1, ElementOf
  <2>2. \A n \in AnyNode : n[1] \notin OfSubchannels => n = <<n[1], 0>>
    BY DEF AnyNode, Early, Behind
  <2>3. /\ "cifPart" \notin OfSubchannels /\ "tii" \notin OfSubchannels
        /\ \A q \in Modulator!Pipelined : q \notin OfSubchannels
    BY DEF OfSubchannels, Modulator!Pipelined
  <2>4. QED
    BY <2>1, <2>2, <2>3 DEF CifPart, TiiNode
<1>7. ASSUME NEW i \in DOMAIN nodes
      PROVE  /\ nodes[i][1] = "cifPart" => i = PlaceOfPart
             /\ nodes[i][1] = "tii" => i = PlaceOfTii
             /\ nodes[i][1] \in Modulator!Pipelined => PlaceOfTii < i
  <2>1. nodes[i][1] = "cifPart" => i = PlaceOfPart
    BY <1>1, <1>4, <1>6 DEF Once
  <2>2. nodes[i][1] = "tii" => i = PlaceOfTii
    BY <1>1, <1>4, <1>6 DEF Once
  <2>3. ASSUME nodes[i][1] \in Modulator!Pipelined PROVE PlaceOfTii < i
    <3>1. nodes[i] = <<nodes[i][1], 0>>
      BY <1>6, <2>3
    <3>2. Before(nodes, TiiNode, <<nodes[i][1], 0>>)
      BY <2>3 DEF LaidOut
    <3>3. QED
      BY <1>4, <3>1, <3>2 DEF Before
  <2>4. QED
    BY <2>1, <2>2, <2>3
<1>8. nodes[PlaceOfPart][1] = "cifPart" /\ nodes[PlaceOfTii][1] = "tii"
  BY <1>4 DEF CifPart, TiiNode
<1>9. DOMAIN nodes \subseteq Nat
  BY <1>1
<1>10. QED
  BY <1>4, <1>5, <1>7, <1>8, <1>9

(* Every other transmission frame, from the first on.                      *)
LEMMA CountedIsAligned ==
    ASSUME AlignedInv
    PROVE  TiiAligned
<1> SUFFICES ASSUME stage = "run", Modulator!Tii, position > PlaceOfTii
             PROVE  inserted <=> ((round + 1 - Cifs) \div Cifs) % 2 = 0
  BY DEF TiiAligned, Modulator!TiiAligned, PlaceOfTii, TiiNode, Modulator!Node, Cifs
<1>1. Cifs \in {1, 4} /\ round \in 0 .. 2 * Cifs - 1 /\ LaidOut /\ Counted
  BY CifsOfTii DEF AlignedInv
<1>2. PlaceOfPart < PlaceOfTii /\ PlaceOfPart \in Nat /\ PlaceOfTii \in Nat
  <2>1. nodes \in Seq(AnyNode)
    BY <1>1 DEF LaidOut
  <2>2. QED
    BY <1>1, <2>1, Places
<1>3. position > PlaceOfPart
  BY <1>1, <1>2 DEF Counted
<1>4. round % Cifs = Cifs - 1 /\ (inserted <=> round < Cifs)
  BY <1>1, <1>3 DEF Counted, FrameComplete
<1>5. CASE Cifs = 1
  <2>1. round = 0 \/ round = 1
    BY <1>1, <1>5
  <2>2. QED
    BY <1>4, <1>5, <2>1
<1>6. CASE Cifs = 4
  <2>1. round = 3 \/ round = 7
    BY <1>1, <1>4, <1>6
  <2>2. QED
    BY <1>4, <1>6, <2>1
<1>7. QED
  BY <1>1, <1>5, <1>6

(* A run ends, at the last element or at one without output.               *)
LEMMA RunEnds ==
    ASSUME Modulator!Tii, round \in 0 .. 2 * Cifs - 1, Modulator!EndRun, settings' = settings,
           \/ FrameComplete /\ d_cifNb' = d_cifNb /\ (m_insert' <=> ~(round < Cifs))
           \/ Waits /\ d_cifNb' = (d_cifNb + 1) % Cifs /\ d_cifNb' # 0 /\ m_insert' = m_insert
    PROVE  round' \in 0 .. 2 * Cifs - 1 /\ stage' = "idle" /\ Waits'
<1> DEFINE c == Cifs
<1>1. c \in {1, 4} /\ Cifs' = c
  BY CifsOfTii DEF Cifs, Modulator!T
<1>2. round' = (round + 1) % (2 * c) /\ stage' = "idle"
  BY DEF Modulator!EndRun, Cifs
<1> HIDE DEF c
<1>3. /\ round' \in 0 .. 2 * c - 1 /\ round' % c = ((round % c) + 1) % c
      /\ round % c # c - 1 => (round' < c <=> round < c)
      /\ round % c = c - 1 => round' % c = 0 /\ (round' < c <=> ~(round < c))
  BY <1>1, <1>2, RoundGoesOn DEF c
<1>4. CASE FrameComplete /\ d_cifNb' = d_cifNb /\ (m_insert' <=> ~(round < Cifs))
  <2>1. d_cifNb' = round' % c
    BY <1>3, <1>4 DEF FrameComplete, c
  <2>2. m_insert' <=> round' < c
    BY <1>3, <1>4 DEF FrameComplete, c
  <2>3. QED
    BY <1>1, <1>2, <1>3, <2>1, <2>2 DEF Waits, c
<1>5. CASE Waits /\ d_cifNb' = (d_cifNb + 1) % Cifs /\ d_cifNb' # 0 /\ m_insert' = m_insert
  <2>1. d_cifNb' = round' % c
    BY <1>3, <1>5 DEF Waits, c
  <2>2. round % c # c - 1
    BY <1>1, <1>5 DEF Waits, c
  <2>3. m_insert' <=> round' < c
    BY <1>3, <1>5, <2>2 DEF Waits, c
  <2>4. QED
    BY <1>1, <1>2, <1>3, <2>1, <2>3 DEF Waits, c
<1>6. QED
  BY <1>4, <1>5

(* One more connection.                                                    *)
LEMMA LaidOutConnect ==
    ASSUME Modulator!Tii, LaidOut, Modulator!ConnectNodes
    PROVE  LaidOut' /\ stage' \in {"connect", "idle"}
<1>1. /\ position \in 1 .. Len(edges) /\ Laid(nodes, edges, position - 1)
      /\ edges \in Seq(AnyNode \X AnyNode) /\ nodes \in Seq(AnyNode)
      /\ nodes' = Modulator!Connect(nodes, edges[position]) /\ edges' = edges
  BY DEF LaidOut, Modulator!ConnectNodes
<1>2. /\ nodes' \in Seq(AnyNode) /\ Laid(nodes', edges, position)
      /\ \A a, b : a # b /\ Follows(edges, a, b) /\ Before(nodes, a, b) => Before(nodes', a, b)
  BY <1>1, LaidOneMore
<1>3. Before(nodes', CifPart, TiiNode)
  BY <1>2 DEF LaidOut, CifPart, TiiNode
<1>4. ASSUME NEW q \in Modulator!Pipelined PROVE Before(nodes', TiiNode, <<q, 0>>)
  <2>1. TiiNode # <<q, 0>>
    BY DEF TiiNode, Modulator!Pipelined
  <2>2. Follows(edges, TiiNode, <<q, 0>>) /\ Before(nodes, TiiNode, <<q, 0>>)
    BY DEF LaidOut
  <2>3. QED
    BY <1>2, <2>1, <2>2
<1>5. CASE position = Len(edges)
  <2>1. stage' = "idle"
    BY <1>5 DEF Modulator!ConnectNodes
  <2>2. Laid(nodes', edges, Len(edges))
    BY <1>2, <1>5
  <2>3. QED
    BY <1>1, <1>2, <1>3, <1>4, <2>1, <2>2 DEF LaidOut
<1>6. CASE position # Len(edges)
  <2>1. stage' = "connect" /\ position' = position + 1
    BY <1>6 DEF Modulator!ConnectNodes
  <2>2. position' \in 1 .. Len(edges) /\ position' - 1 = position
    BY <1>1, <1>6, <2>1
  <2>3. QED
    BY <1>1, <1>2, <1>3, <1>4, <2>1, <2>2 DEF LaidOut
<1>7. QED
  BY <1>5, <1>6

(* An element is processed.                                                *)
LEMMA CountedStep ==
    ASSUME Modulator!Tii, stage = "run", round \in 0 .. 2 * Cifs - 1, LaidOut, Counted,
           settings' = settings, nodes' = nodes,
           Modulator!Partition \/ Modulator!Pipeline \/ Modulator!InsertTii \/ Modulator!Process
    PROVE  /\ round' \in 0 .. 2 * Cifs - 1
           /\ \/ stage' = "idle" /\ Waits'
              \/ stage' = "run" /\ Counted'
<1> DEFINE p == PlaceOfPart
           t == PlaceOfTii
           c == Cifs
           Name == nodes[position][1]
           Next1 == stage' = stage /\ round' = round /\ position' = position + 1
<1>1. c \in {1, 4} /\ c' = c /\ p' = p /\ t' = t
  BY CifsOfTii DEF Cifs, Modulator!T, PlaceOfPart, PlaceOfTii
<1>2. /\ p \in DOMAIN nodes /\ t \in DOMAIN nodes /\ p < t /\ Len(nodes) \in Nat
      /\ DOMAIN nodes = 1 .. Len(nodes)
      /\ nodes[p][1] = "cifPart" /\ nodes[t][1] = "tii"
      /\ \A i \in DOMAIN nodes : /\ nodes[i][1] = "cifPart" => i = p
                                 /\ nodes[i][1] = "tii" => i = t
                                 /\ nodes[i][1] \in Modulator!Pipelined => i > t
  <2>1. nodes \in Seq(AnyNode)
    BY DEF LaidOut
  <2>2. QED
    BY <2>1, Places
<1>3. /\ position \in 1 .. Len(nodes)
      /\ position <= p => Waits
      /\ position > p => FrameComplete
      /\ position > p /\ position <= t => (m_insert <=> round < c)
      /\ position > t => (m_insert <=> ~(round < c)) /\ (inserted <=> round < c)
  BY DEF Counted
<1> HIDE DEF p, t, c
<1>4. /\ position = p <=> Name = "cifPart"
      /\ position = t <=> Name = "tii"
      /\ Name \in Modulator!Pipelined => position > t
  BY <1>2, <1>3
<1>5. /\ p \in Nat /\ t \in Nat /\ position \in Nat /\ Len(nodes) \in Nat
       /\ 1 <= position /\ position <= Len(nodes) /\ p < t /\ t <= Len(nodes)
  BY <1>2, <1>3
<1>6. /\ Modulator!GoOn /\ position # Len(nodes) => Next1
      /\ Modulator!GoOn /\ position = Len(nodes) => Modulator!EndRun
  BY DEF Modulator!GoOn
<1>7. CASE Modulator!Partition
  <2>1. position = p /\ d_cifNb' = (d_cifNb + 1) % c /\ m_insert' = m_insert /\ Waits
    <3>1. Name = "cifPart"
      BY <1>7 DEF Modulator!Partition, Modulator!Current
    <3>2. position = p
      BY <1>4, <3>1
    <3>3. d_cifNb' = (d_cifNb + 1) % c /\ m_insert' = m_insert
      BY <1>7 DEF Modulator!Partition, Cifs, c
    <3>4. QED
      BY <1>2, <1>3, <3>2, <3>3
  <2>2. CASE d_cifNb' = 0
    <3>1. position # Len(nodes)
      BY <1>2, <2>1
    <3>2. Next1
      BY <1>6, <1>7, <2>2, <3>1 DEF Modulator!Partition
    <3>3. round % c = c - 1
      BY <1>1, <2>1, <2>2 DEF Waits, c
    <3>4. m_insert' <=> round' < c
      BY <2>1, <3>2 DEF Waits, c
    <3>5. position' \in 1 .. Len(nodes) /\ position' > p /\ position' <= t
      BY <1>2, <1>3, <2>1, <3>1, <3>2
    <3>6. Counted'
      BY <1>1, <1>2, <2>2, <3>2, <3>3, <3>4, <3>5 DEF Counted, FrameComplete, p, t, c
    <3>7. QED
      BY <3>2, <3>6
  <2>3. CASE d_cifNb' # 0
    <3>1. Modulator!EndRun
      BY <1>7, <2>3 DEF Modulator!Partition
    <3>2. QED
      BY <2>1, <2>3, <3>1, RunEnds DEF c
  <2>4. QED
    BY <2>2, <2>3
<1>8. CASE Modulator!InsertTii
  <2>1. /\ position = t /\ inserted' = m_insert /\ m_insert' = ~m_insert /\ d_cifNb' = d_cifNb
        /\ Modulator!GoOn
    <3>1. Name = "tii"
      BY <1>8 DEF Modulator!InsertTii, Modulator!Current
    <3>2. QED
      BY <1>4, <1>8, <3>1 DEF Modulator!InsertTii
  <2>2. FrameComplete /\ (m_insert <=> round < c)
    BY <1>2, <1>3, <2>1
  <2>3. CASE position # Len(nodes)
    <3>1. Next1
      BY <1>6, <2>1, <2>3
    <3>2. position' \in 1 .. Len(nodes) /\ position' > t /\ position' > p
      BY <1>2, <1>3, <2>1, <2>3, <3>1
    <3>3. FrameComplete'
      BY <1>1, <2>1, <2>2, <3>1 DEF FrameComplete, c
    <3>4. (m_insert' <=> ~(round' < c)) /\ (inserted' <=> round' < c)
      BY <2>1, <2>2, <3>1
    <3>5. Counted'
      BY <1>1, <1>2, <3>2, <3>3, <3>4 DEF Counted, p, t, c
    <3>6. QED
      BY <3>1, <3>5
  <2>4. CASE position = Len(nodes)
    <3>1. Modulator!EndRun
      BY <1>6, <2>1, <2>4
    <3>2. m_insert' <=> ~(round < Cifs)
      BY <2>1, <2>2 DEF c
    <3>3. QED
      BY <2>1, <2>2, <3>1, <3>2, RunEnds
  <2>5. QED
    BY <2>3, <2>4
<1>9. ASSUME position > t, Modulator!GoOn \/ Modulator!EndRun,
             d_cifNb' = d_cifNb, m_insert' = m_insert, inserted' = inserted
      PROVE  /\ round' \in 0 .. 2 * Cifs - 1
             /\ (stage' = "idle" /\ Waits') \/ (stage' = "run" /\ Counted')
  <2>1. FrameComplete /\ (m_insert <=> ~(round < c)) /\ (inserted <=> round < c)
    BY <1>2, <1>3, <1>9
  <2>2. CASE Modulator!EndRun
    <3>1. m_insert' <=> ~(round < Cifs)
      BY <1>9, <2>1 DEF c
    <3>2. QED
      BY <1>9, <2>1, <2>2, <3>1, RunEnds
  <2>3. CASE Next1 /\ position # Len(nodes)
    <3>1. position' \in 1 .. Len(nodes) /\ position' > t /\ position' > p
      <4>1. position > t /\ position # Len(nodes) /\ position' = position + 1
        BY <1>9, <2>3
      <4>2. QED
        BY <1>5, <4>1
    <3>2. FrameComplete'
      BY <1>1, <1>9, <2>1, <2>3 DEF FrameComplete, c
    <3>3. (m_insert' <=> ~(round' < c)) /\ (inserted' <=> round' < c)
      BY <1>9, <2>1, <2>3
    <3>4. Counted'
      BY <1>1, <1>2, <3>1, <3>2, <3>3 DEF Counted, p, t, c
    <3>5. QED
      BY <2>3, <3>4
  <2>4. QED
    BY <1>6, <1>9, <2>2, <2>3
<1>10. CASE Modulator!Pipeline
  <2>1. /\ Name \in Modulator!Pipelined /\ (Modulator!GoOn \/ Modulator!EndRun)
        /\ d_cifNb' = d_cifNb /\ m_insert' = m_insert /\ inserted' = inserted
    BY <1>10 DEF Modulator!Pipeline, Modulator!Current
  <2>2. QED
    BY <1>4, <1>9, <2>1
<1>11. CASE Modulator!Process
  <2>1. /\ Name \notin {"cifPart", "tii"} /\ Modulator!GoOn
        /\ d_cifNb' = d_cifNb /\ m_insert' = m_insert /\ inserted' = inserted
    BY <1>11 DEF Modulator!Process, Modulator!Current
  <2>2. position # p /\ position # t
    BY <1>4, <2>1
  <2>3. CASE position > t
    BY <1>9, <2>1, <2>3
  <2>4. CASE position < p
    <3>1. Next1
      <4>1. position # Len(nodes)
        BY <1>5, <2>4
      <4>2. QED
        BY <1>6, <2>1, <4>1
    <3>2. position' \in 1 .. Len(nodes) /\ position' <= p /\ ~(position' > p) /\ ~(position' > t)
      BY <1>2, <1>3, <2>4, <3>1
    <3>3. Waits
      BY <1>2, <1>3, <2>4
    <3>4. Waits'
      BY <1>1, <2>1, <3>1, <3>3 DEF Waits, c
    <3>5. Counted'
      BY <1>1, <1>2, <3>2, <3>4 DEF Counted, p, t
    <3>6. QED
      BY <3>1, <3>5
  <2>5. CASE p < position /\ position < t
    <3>1. Next1
      <4>1. position # Len(nodes)
        BY <1>5, <2>5
      <4>2. QED
        BY <1>6, <2>1, <4>1
    <3>2. position' \in 1 .. Len(nodes) /\ position' <= t /\ position' > p /\ ~(position' > t)
      BY <1>2, <1>3, <2>5, <3>1
    <3>3. FrameComplete /\ (m_insert <=> round < c)
      BY <1>2, <1>3, <2>5
    <3>4. FrameComplete' /\ (m_insert' <=> round' < c)
      BY <1>1, <2>1, <3>1, <3>3 DEF FrameComplete, c
    <3>5. Counted'
      BY <1>1, <1>2, <3>2, <3>4 DEF Counted, p, t, c
    <3>6. QED
      BY <3>1, <3>5
  <2>6. QED
    BY <1>2, <1>3, <2>2, <2>3, <2>4, <2>5
<1>12. QED
  BY <1>7, <1>8, <1>10, <1>11

LEMMA AlignedStep ==
    ASSUME AlignedInv, [Modulator!Next]_modulatorVars
    PROVE  AlignedInv'
<1> DEFINE c == Cifs
<1>1. settings' = settings /\ stc' = stc
  BY DEF Modulator!Next, Modulator!Prepare, Modulator!SetUp, Modulator!ConnectNodes, Modulator!Run,
         Modulator!Throws, Modulator!Partition, Modulator!Pipeline, Modulator!InsertTii,
         Modulator!Process, Modulator!Ended, Modulator!Fail, Modulator!vars, modulatorVars
<1>2. Modulator!Tii' = Modulator!Tii /\ Cifs' = Cifs
  BY <1>1 DEF Modulator!Tii, Cifs, Modulator!T
<1>3. stage' \in {"prepare", "setup", "connect", "idle", "run", "failed"}
  BY DEF AlignedInv, Modulator!Next, Modulator!Prepare, Modulator!SetUp, Modulator!ConnectNodes,
         Modulator!Run, Modulator!Throws, Modulator!Partition, Modulator!Pipeline, Modulator!InsertTii,
         Modulator!Process, Modulator!Ended, Modulator!Fail, Modulator!vars, modulatorVars,
         Modulator!EndRun, Modulator!GoOn
<1>4. stc' \in Seq((0 .. 1023) \X (0 .. 63))
  BY <1>1 DEF AlignedInv
<1> SUFFICES ASSUME Modulator!Tii
             PROVE  /\ round' \in 0 .. 2 * Cifs - 1
                    /\ stage' \in {"prepare", "setup"} => nodes' = << >>
                    /\ stage' \in {"connect", "idle", "run"} => LaidOut'
                    /\ stage' \in {"prepare", "setup", "connect", "idle"} => Waits'
                    /\ stage' = "run" => Counted'
  BY <1>2, <1>3, <1>4 DEF AlignedInv
<1>5. /\ round \in 0 .. 2 * Cifs - 1
      /\ stage \in {"prepare", "setup"} => nodes = << >>
      /\ stage \in {"connect", "idle", "run"} => LaidOut
      /\ stage \in {"prepare", "setup", "connect", "idle"} => Waits
      /\ stage = "run" => Counted
  BY DEF AlignedInv
<1>6. ASSUME d_cifNb' = d_cifNb, m_insert' = m_insert, round' = round PROVE Waits' <=> Waits
  BY <1>2, <1>6 DEF Waits
<1>7. ASSUME nodes' = nodes, edges' = edges, stage' # "connect", stage # "connect", LaidOut
      PROVE  LaidOut'
  BY <1>7 DEF LaidOut
<1>8. CASE Modulator!Fail
  BY <1>5, <1>8 DEF Modulator!Fail
<1>9. CASE Modulator!Prepare
  <2>1. CASE ~Modulator!Fail
    <3>1. /\ stage = "prepare" /\ stage' = "setup" /\ nodes' = nodes
          /\ d_cifNb' = d_cifNb /\ m_insert' = m_insert /\ round' = round
      BY <1>9, <2>1 DEF Modulator!Prepare
    <3>2. QED
      BY <1>5, <1>6, <3>1
  <2>2. QED
    BY <1>8, <2>1
<1>10. CASE Modulator!SetUp
  <2>1. CASE ~Modulator!Fail
    <3>1. /\ stage = "setup" /\ stage' = "connect" /\ nodes' = nodes /\ position' = 1
          /\ edges' = Modulator!Connections
          /\ d_cifNb' = d_cifNb /\ m_insert' = m_insert /\ round' = round
      BY <1>10, <2>1 DEF Modulator!SetUp
    <3>2. nodes' = << >>
      BY <1>5, <3>1
    <3>3. /\ edges' \in Seq(AnyNode \X AnyNode) /\ Len(edges') >= 1
          /\ Follows(edges', CifPart, TiiNode)
          /\ \A q \in Modulator!Pipelined : Follows(edges', TiiNode, <<q, 0>>)
          /\ \E i \in DOMAIN edges' : Touches(edges'[i], TiiNode)
      BY <3>1, OrderOfCalls DEF AlignedInv, CifPart, TiiNode
    <3>4. /\ \A x : ~Has(nodes', x)
          /\ Once(nodes') /\ nodes' \in Seq(AnyNode)
          /\ \A a, b : Before(nodes', a, b)
      BY <3>2 DEF Has, Once, Before
    <3>5. Laid(nodes', edges', 0)
      BY <3>4 DEF Laid
    <3>6. position' \in 1 .. Len(edges') /\ position' - 1 = 0
      BY <3>1, <3>3
    <3>7. LaidOut'
      BY <3>1, <3>3, <3>4, <3>5, <3>6 DEF LaidOut
    <3>8. QED
      BY <1>5, <1>6, <3>1, <3>7
  <2>2. QED
    BY <1>8, <2>1
<1>11. CASE Modulator!ConnectNodes
  <2>1. /\ stage = "connect"
        /\ d_cifNb' = d_cifNb /\ m_insert' = m_insert /\ round' = round
    BY <1>11 DEF Modulator!ConnectNodes
  <2>2. LaidOut' /\ stage' \in {"connect", "idle"}
    BY <1>5, <1>11, <2>1, LaidOutConnect
  <2>3. QED
    BY <1>5, <1>6, <2>1, <2>2
<1>12. CASE Modulator!Run
  <2>1. /\ stage = "idle" /\ stage' = "run" /\ position' = 1 /\ nodes' = nodes /\ edges' = edges
        /\ d_cifNb' = d_cifNb /\ m_insert' = m_insert /\ round' = round
    BY <1>12 DEF Modulator!Run
  <2>2. LaidOut /\ LaidOut' /\ Waits /\ Waits'
    BY <1>5, <1>6, <1>7, <2>1
  <2>3. /\ PlaceOfPart \in DOMAIN nodes /\ PlaceOfPart < PlaceOfTii /\ PlaceOfTii \in DOMAIN nodes
    BY <2>1, <2>2, Places
  <2>4. /\ PlaceOfPart' = PlaceOfPart /\ PlaceOfTii' = PlaceOfTii
    BY <2>1 DEF PlaceOfPart, PlaceOfTii
  <2>5. nodes \in Seq(AnyNode)
    BY <2>2 DEF LaidOut
  <2>6. /\ position' \in 1 .. Len(nodes') /\ ~(position' > PlaceOfPart')
        /\ ~(position' > PlaceOfTii')
    BY <2>1, <2>3, <2>4, <2>5
  <2>7. Counted'
    BY <2>2, <2>6 DEF Counted
  <2>8. QED
    BY <1>5, <2>1, <2>2, <2>7
<1>13. CASE Modulator!Partition \/ Modulator!Pipeline \/ Modulator!InsertTii \/ Modulator!Process
  <2>1. stage = "run" /\ nodes' = nodes /\ edges' = edges
    BY <1>13 DEF Modulator!Partition, Modulator!Pipeline, Modulator!InsertTii, Modulator!Process,
                 Modulator!Current
  <2>2. /\ round' \in 0 .. 2 * Cifs - 1
        /\ (stage' = "idle" /\ Waits') \/ (stage' = "run" /\ Counted')
    BY <1>1, <1>5, <1>13, <2>1, CountedStep
  <2>3. LaidOut'
    BY <1>5, <1>7, <2>1, <2>2
  <2>4. QED
    BY <2>2, <2>3
<1>14. CASE UNCHANGED modulatorVars
  <2>1. /\ stage' = stage /\ position' = position /\ nodes' = nodes /\ edges' = edges
        /\ d_cifNb' = d_cifNb /\ m_insert' = m_insert /\ inserted' = inserted /\ round' = round
    BY <1>14 DEF modulatorVars
  <2>2. LaidOut => LaidOut'
    BY <2>1 DEF LaidOut
  <2>3. PlaceOfPart' = PlaceOfPart /\ PlaceOfTii' = PlaceOfTii
    BY <2>1 DEF PlaceOfPart, PlaceOfTii
  <2>4. Waits' <=> Waits
    BY <1>6, <2>1
  <2>5. Counted => Counted'
    BY <1>2, <2>1, <2>3, <2>4 DEF Counted, FrameComplete
  <2>6. QED
    BY <1>5, <2>1, <2>2, <2>4, <2>5
<1>15. Modulator!Throws => Modulator!Fail
  BY DEF Modulator!Throws
<1>16. Modulator!Ended => UNCHANGED modulatorVars
  BY DEF Modulator!Ended, Modulator!vars, modulatorVars
<1>17. QED
  BY <1>8, <1>9, <1>10, <1>11, <1>12, <1>13, <1>14, <1>15, <1>16 DEF Modulator!Next

(* src/TII.cpp, "Align with frames containing the right data": with any    *)
(* ensemble and any settings, TII is in every other transmission frame     *)
(* from the first on, whatever the elements before and after it, and       *)
(* though they do not all run as often.                                    *)
THEOREM TiiAlwaysAligned == ModulatorSpec => []TiiAligned
<1>1. Modulator!Init => AlignedInv
  <2> SUFFICES ASSUME Modulator!Init PROVE AlignedInv
    OBVIOUS
  <2>1. /\ stc \in Seq((0 .. 1023) \X (0 .. 63))
        /\ stage = "prepare" /\ nodes = << >> /\ d_cifNb = 0 /\ m_insert = TRUE /\ round = 0
    BY Ensembles DEF Modulator!Init
  <2>2. ASSUME Modulator!Tii PROVE round \in 0 .. 2 * Cifs - 1 /\ Waits
    <3>1. Cifs = 1 \/ Cifs = 4
      BY <2>2, CifsOfTii
    <3>2. QED
      BY <2>1, <3>1 DEF Waits
  <2>3. QED
    BY <2>1, <2>2 DEF AlignedInv
<1>2. AlignedInv /\ [Modulator!Next]_modulatorVars => AlignedInv'
  BY AlignedStep
<1>3. AlignedInv => TiiAligned
  BY CountedIsAligned
<1>4. QED
  BY <1>1, <1>2, <1>3, ModulatorIsAlone, PTL

-----------------------------------------------------------------------------
(* src/TimeInterleaver.cpp, src/PrbsGenerator.cpp, src/ConvEncoder.cpp.    *)

LEMMA CodeIsAlone == ModulatorSpec => Code!Init /\ [][Code!Next]_codeVars
<1>1. ModulatorInit => Code!Init
  BY DEF ModulatorInit
<1>2. [ModulatorNext]_<<part, vars, configVars, modulatorVars, codeVars>> => [Code!Next]_codeVars
  BY DEF ModulatorNext
<1>3. QED
  BY <1>1, <1>2, PTL DEF ModulatorSpec

(* The element at a place is the one of as many frames ago.                *)
DelayInv ==
    element = "TimeInterleaver" =>
        /\ count \in Nat
        /\ register \in Seq(Nat) /\ Len(register) = 16
        /\ \A i \in 1 .. 16 : register[i] = IF count >= i THEN count - i + 1 ELSE 0
        /\ \A i \in 0 .. 15 : made[i] = register[Code!Places[i + 1] + 1]

LEMMA PlacesAreReversed ==
    ASSUME NEW i \in 0 .. 15
    PROVE  Code!Places[i + 1] = Code!Reversed(i) /\ Code!Places[i + 1] \in 0 .. 15
<1>1. 2^0 = 1 /\ 2^1 = 2 /\ 2^2 = 4 /\ 2^3 = 8
  OBVIOUS
<1>2. Code!Reversed(i) = 8 * (i % 2) + 4 * ((i \div 2) % 2) + 2 * ((i \div 4) % 2) + ((i \div 8) % 2)
  <2>1. /\ Code!Bit(i, 0) = i % 2 /\ Code!Bit(i, 1) = (i \div 2) % 2
        /\ Code!Bit(i, 2) = (i \div 4) % 2 /\ Code!Bit(i, 3) = (i \div 8) % 2
    BY <1>1 DEF Code!Bit
  <2>2. QED
    BY <2>1 DEF Code!Reversed
<1>3. CASE i \in {0, 1, 2, 3}
  BY <1>2, <1>3 DEF Code!Places
<1>4. CASE i \in {4, 5, 6, 7}
  BY <1>2, <1>4 DEF Code!Places
<1>5. CASE i \in {8, 9, 10, 11}
  BY <1>2, <1>5 DEF Code!Places
<1>6. CASE i \in {12, 13, 14, 15}
  BY <1>2, <1>6 DEF Code!Places
<1>7. QED
  BY <1>3, <1>4, <1>5, <1>6

LEMMA TurnedBy ==
    ASSUME NEW h \in Seq(Nat), Len(h) = 16, count \in Nat
    PROVE  /\ Code!Turned(h) \in Seq(Nat) /\ Len(Code!Turned(h)) = 16
           /\ Code!Turned(h)[1] = count + 1
           /\ \A i \in 2 .. 16 : Code!Turned(h)[i] = h[i - 1]
<1> DEFINE one == <<count + 1>>
           rest == SubSeq(h, 1, 15)
<1>1. one \in Seq(Nat) /\ Len(one) = 1 /\ one[1] = count + 1
  OBVIOUS
<1>2. rest \in Seq(Nat) /\ Len(rest) = 15 /\ \A i \in 1 .. 15 : rest[i] = h[i]
  <2>1. ASSUME NEW i \in 1 .. 15 PROVE h[i] \in Nat /\ 1 + i - 1 = i
    <3>1. DOMAIN h = 1 .. 16
      OBVIOUS
    <3>2. i \in DOMAIN h /\ 1 + i - 1 = i
      BY <3>1
    <3>3. QED
      BY <3>2, ElementOf
  <2>2. /\ rest \in Seq(Nat) /\ Len(rest) = IF 1 <= 15 THEN 15 - 1 + 1 ELSE 0
        /\ \A i \in 1 .. 15 - 1 + 1 : rest[i] = h[1 + i - 1]
    BY <2>1, SubSeqProperties
  <2> HIDE DEF rest
  <2>3. QED
    BY <2>1, <2>2
<1> HIDE DEF one, rest
<1>3. /\ one \o rest \in Seq(Nat) /\ Len(one \o rest) = 1 + 15
      /\ \A i \in 1 .. 1 : (one \o rest)[i] = one[i]
      /\ \A i \in 1 + 1 .. 1 + 15 : (one \o rest)[i] = rest[i - 1]
  <2>1. /\ one \o rest \in Seq(Nat) /\ Len(one \o rest) = Len(one) + Len(rest)
        /\ \A i \in 1 .. Len(one) : (one \o rest)[i] = one[i]
        /\ \A i \in Len(one) + 1 .. Len(one) + Len(rest) : (one \o rest)[i] = rest[i - Len(one)]
    <3>1. one \in Seq(Nat) /\ rest \in Seq(Nat)
      BY <1>1, <1>2
    <3>2. QED
      BY <3>1, JoinOf
  <2>2. QED
    BY <1>1, <1>2, <2>1
<1>4. ASSUME NEW i \in 2 .. 16 PROVE (one \o rest)[i] = h[i - 1]
  <2>1. i \in 1 + 1 .. 1 + 15 /\ i - 1 \in 1 .. 15
    OBVIOUS
  <2>2. QED
    BY <1>2, <1>3, <2>1
<1>5. (one \o rest)[1] = count + 1
  <2>1. 1 \in 1 .. 1
    OBVIOUS
  <2>2. (one \o rest)[1] = one[1]
    BY <1>3, <2>1
  <2>3. QED
    BY <1>1, <2>2
<1>6. QED
  BY <1>3, <1>4, <1>5 DEF Code!Turned, one, rest

LEMMA DelayStep ==
    ASSUME DelayInv, [Code!Next]_codeVars
    PROVE  DelayInv'
<1>1. element' = element
  BY DEF Code!Next, Code!Ready, Code!vars, codeVars
<1> SUFFICES ASSUME element = "TimeInterleaver"
             PROVE  DelayInv'
  BY <1>1 DEF DelayInv
<1>2. CASE Code!Interleave
  <2>1. /\ count' = count + 1 /\ register' = Code!Turned(register)
        /\ made' = [i \in 0 .. 15 |-> register'[Code!Places[i + 1] + 1]]
    BY <1>2 DEF Code!Interleave
  <2>2. /\ count \in Nat /\ register \in Seq(Nat) /\ Len(register) = 16
        /\ \A i \in 1 .. 16 : register[i] = IF count >= i THEN count - i + 1 ELSE 0
    BY DEF DelayInv
  <2>3. /\ register' \in Seq(Nat) /\ Len(register') = 16 /\ register'[1] = count + 1
        /\ \A i \in 2 .. 16 : register'[i] = register[i - 1]
    BY <2>1, <2>2, TurnedBy
  <2>4. ASSUME NEW i \in 1 .. 16 PROVE register'[i] = IF count' >= i THEN count' - i + 1 ELSE 0
    <3>1. CASE i = 1
      BY <2>1, <2>2, <2>3, <3>1
    <3>2. CASE i \in 2 .. 16
      <4>1. i - 1 \in 1 .. 16
        BY <3>2
      <4>2. register'[i] = IF count >= i - 1 THEN count - (i - 1) + 1 ELSE 0
        BY <2>2, <2>3, <3>2, <4>1
      <4>3. QED
        BY <2>1, <2>2, <3>2, <4>2
    <3>3. QED
      BY <3>1, <3>2
  <2>5. \A i \in 0 .. 15 : made'[i] = register'[Code!Places[i + 1] + 1]
    BY <2>1
  <2>6. QED
    BY <2>1, <2>2, <2>3, <2>4, <2>5 DEF DelayInv
<1>3. CASE UNCHANGED codeVars
  BY <1>3 DEF DelayInv, codeVars
<1>4. Code!Next => Code!Interleave \/ UNCHANGED codeVars
  BY DEF Code!Next, Code!Permute, Code!Disperse, Code!Encode, Code!EncodeNext, Code!SetParameter,
         Code!Ready, Code!vars, codeVars
<1>5. QED
  BY <1>2, <1>3, <1>4

(* Each bit of 16 is late by its own number of frames, with its digits     *)
(* reversed, however many frames there were.                               *)
THEOREM InterleavesInTime == ModulatorSpec => []Code!EachBitItsDelay
<1>1. Code!Init => DelayInv
  <2> SUFFICES ASSUME Code!Init, element = "TimeInterleaver" PROVE DelayInv
    BY DEF DelayInv
  <2>1. count = 0 /\ register = [i \in 1 .. 16 |-> 0] /\ made = [i \in 0 .. 15 |-> 0]
    BY DEF Code!Init, Code!NoHistory
  <2>2. register \in Seq(Nat) /\ Len(register) = 16 /\ \A i \in 1 .. 16 : register[i] = 0
    BY <2>1
  <2>3. ASSUME NEW i \in 0 .. 15 PROVE made[i] = register[Code!Places[i + 1] + 1]
    <3>1. Code!Places[i + 1] + 1 \in 1 .. 16
      BY PlacesAreReversed
    <3>2. QED
      BY <2>1, <2>2, <3>1
  <2>4. QED
    BY <2>1, <2>2, <2>3 DEF DelayInv
<1>2. DelayInv /\ [Code!Next]_codeVars => DelayInv'
  BY DelayStep
<1>3. DelayInv => Code!EachBitItsDelay
  <2> SUFFICES ASSUME DelayInv, element = "TimeInterleaver", NEW i \in 0 .. 15
               PROVE  made[i] = (IF count > Code!Reversed(i) THEN count - Code!Reversed(i) ELSE 0)
    BY DEF Code!EachBitItsDelay
  <2> DEFINE r == Code!Reversed(i)
  <2>1. Code!Places[i + 1] = r /\ r \in 0 .. 15
    BY PlacesAreReversed
  <2> HIDE DEF r
  <2>2. made[i] = register[r + 1] /\ r + 1 \in 1 .. 16 /\ count \in Nat
    <3>1. made[i] = register[Code!Places[i + 1] + 1] /\ count \in Nat
      BY DEF DelayInv
    <3>2. QED
      BY <2>1, <3>1
  <2>3. register[r + 1] = IF count >= r + 1 THEN count - (r + 1) + 1 ELSE 0
    BY <2>2 DEF DelayInv
  <2>4. QED
    BY <2>1, <2>2, <2>3 DEF r
<1>4. QED
  BY <1>1, <1>2, <1>3, CodeIsAlone, PTL

-----------------------------------------------------------------------------
(* src/PrbsGenerator.cpp: a byte at a time.                                *)

Digit == {0, 1}
Bits == [Code!Register -> Digit]

LEMMA ParityOfTwo ==
    ASSUME NEW a, NEW b, a # b, NEW f, DOMAIN f = {a, b}, f[a] \in Digit, f[b] \in Digit
    PROVE  Code!Parity(f) = (f[a] + f[b]) % 2
<1> DEFINE ones == {k \in DOMAIN f : f[k] = 1}
<1>1. Code!Parity(f) = Cardinality(ones) % 2
  BY DEF Code!Parity, Code!Cardinality, Cardinality
<1>2. /\ f[a] = 0 \/ f[a] = 1
      /\ f[b] = 0 \/ f[b] = 1
  BY DEF Digit
<1>3. CASE f[a] = 0 /\ f[b] = 0
  <2>1. ones = {}
    BY <1>3
  <2>2. QED
    BY <1>1, <1>3, <2>1, FS_EmptySet
<1>4. CASE f[a] = 1 /\ f[b] = 0
  <2>1. ones = {a}
    BY <1>4
  <2>2. Cardinality({a}) = 1
    BY FS_Singleton
  <2>3. QED
    BY <1>1, <1>4, <2>1, <2>2
<1>5. CASE f[a] = 0 /\ f[b] = 1
  <2>1. ones = {b}
    BY <1>5
  <2>2. Cardinality({b}) = 1
    BY FS_Singleton
  <2>3. QED
    BY <1>1, <1>5, <2>1, <2>2
<1>6. CASE f[a] = 1 /\ f[b] = 1
  <2>1. ones = {a} \cup {b} /\ b \notin {a}
    BY <1>6
  <2>2. IsFiniteSet({a}) /\ Cardinality({a}) = 1
    BY FS_Singleton
  <2>3. Cardinality(ones) = 2
    BY <2>1, <2>2, FS_AddElement
  <2>4. QED
    BY <1>1, <1>6, <2>3
<1>7. QED
  BY <1>2, <1>3, <1>4, <1>5, <1>6

(* Only the first two of the four bytes have bits that come back.          *)
LEMMA ParityOfFour ==
    ASSUME NEW f, DOMAIN f = 0 .. 3, f[0] \in Digit, f[1] \in Digit, f[2] = 0, f[3] = 0
    PROVE  Code!Parity(f) = (f[0] + f[1]) % 2
<1> DEFINE g == [k \in {0, 1} |-> f[k]]
<1>1. {k \in DOMAIN f : f[k] = 1} = {k \in DOMAIN g : g[k] = 1}
  OBVIOUS
<1>2. Code!Parity(f) = Code!Parity(g)
  BY <1>1 DEF Code!Parity
<1>3. DOMAIN g = {0, 1} /\ g[0] = f[0] /\ g[1] = f[1]
  OBVIOUS
<1> HIDE DEF g
<1>4. Code!Parity(g) = (g[0] + g[1]) % 2
  <2>1. 0 # 1 /\ g[0] \in Digit /\ g[1] \in Digit
    BY <1>3
  <2>2. QED
    BY <1>3, <2>1, ParityOfTwo, Zenon
<1>5. QED
  BY <1>2, <1>3, <1>4

LEMMA ShiftOf ==
    ASSUME NEW a \in Bits
    PROVE  /\ Code!Shift(a) \in Bits
           /\ Code!Shift(a)[0] = (a[4] + a[8]) % 2
           /\ \A k \in 1 .. 31 : Code!Shift(a)[k] = a[k - 1]
<1> DEFINE f == [t \in Code!Feedback |-> a[t]]
<1>1. \A k \in 0 .. 31 : a[k] \in Digit
  BY DEF Bits, Code!Register
<1>2. DOMAIN f = {4, 8} /\ f[4] = a[4] /\ f[8] = a[8]
  BY DEF Code!Feedback
<1> HIDE DEF f
<1>3. Code!Parity(f) = (a[4] + a[8]) % 2
  <2>1. 4 # 8 /\ f[4] \in Digit /\ f[8] \in Digit
    BY <1>1, <1>2
  <2>2. Code!Parity(f) = (f[4] + f[8]) % 2
    BY <1>2, <2>1, ParityOfTwo, Zenon
  <2>3. QED
    BY <1>2, <2>2
<1>4. Code!Parity(f) \in Digit
  <2>1. a[4] \in Digit /\ a[8] \in Digit
    BY <1>1
  <2>2. QED
    BY <1>3, <2>1 DEF Digit
<1>5. Code!Shift(a) = [k \in 0 .. 31 |-> IF k = 0 THEN Code!Parity(f) ELSE a[k - 1]]
  BY DEF Code!Shift, Code!Register, f
<1>6. \A k \in 1 .. 31 : k - 1 \in 0 .. 31 /\ k # 0
  OBVIOUS
<1>7. Code!Shift(a) \in Bits
  BY <1>1, <1>4, <1>5, <1>6 DEF Bits, Code!Register
<1>8. QED
  BY <1>3, <1>5, <1>6, <1>7

(* Eight shifts.                                                           *)
Shifted(a, e) ==
    /\ e \in Bits
    /\ e[7] = (a[4] + a[8]) % 2 /\ e[6] = (a[3] + a[7]) % 2
    /\ e[5] = (a[2] + a[6]) % 2 /\ e[4] = (a[1] + a[5]) % 2
    /\ e[3] = (a[0] + a[4]) % 2 /\ e[2] = (e[7] + a[3]) % 2
    /\ e[1] = (e[6] + a[2]) % 2 /\ e[0] = (e[5] + a[1]) % 2

LEMMA Shift8Of ==
    ASSUME NEW a \in Bits
    PROVE  Shifted(a, Code!Shift8(a))
<1> DEFINE s1 == Code!Shift(a)
           s2 == Code!Shift(s1)
           s3 == Code!Shift(s2)
           s4 == Code!Shift(s3)
           s5 == Code!Shift(s4)
           s6 == Code!Shift(s5)
           s7 == Code!Shift(s6)
           s8 == Code!Shift(s7)
<1>1. s1 \in Bits /\ s1[0] = (a[4] + a[8]) % 2 /\ \A k \in 1 .. 31 : s1[k] = a[k - 1]
  BY ShiftOf
<1> HIDE DEF s1
<1>2. s2 \in Bits /\ s2[0] = (s1[4] + s1[8]) % 2 /\ \A k \in 1 .. 31 : s2[k] = s1[k - 1]
  BY <1>1, ShiftOf
<1> HIDE DEF s2
<1>3. s3 \in Bits /\ s3[0] = (s2[4] + s2[8]) % 2 /\ \A k \in 1 .. 31 : s3[k] = s2[k - 1]
  BY <1>2, ShiftOf
<1> HIDE DEF s3
<1>4. s4 \in Bits /\ s4[0] = (s3[4] + s3[8]) % 2 /\ \A k \in 1 .. 31 : s4[k] = s3[k - 1]
  BY <1>3, ShiftOf
<1> HIDE DEF s4
<1>5. s5 \in Bits /\ s5[0] = (s4[4] + s4[8]) % 2 /\ \A k \in 1 .. 31 : s5[k] = s4[k - 1]
  BY <1>4, ShiftOf
<1> HIDE DEF s5
<1>6. s6 \in Bits /\ s6[0] = (s5[4] + s5[8]) % 2 /\ \A k \in 1 .. 31 : s6[k] = s5[k - 1]
  BY <1>5, ShiftOf
<1> HIDE DEF s6
<1>7. s7 \in Bits /\ s7[0] = (s6[4] + s6[8]) % 2 /\ \A k \in 1 .. 31 : s7[k] = s6[k - 1]
  BY <1>6, ShiftOf
<1> HIDE DEF s7
<1>8. s8 \in Bits /\ s8[0] = (s7[4] + s7[8]) % 2 /\ \A k \in 1 .. 31 : s8[k] = s7[k - 1]
  BY <1>7, ShiftOf
<1> HIDE DEF s8
<1>9. s2[4] = a[2] /\ s2[8] = a[6] /\ s1[4] = a[3] /\ s1[8] = a[7]
  BY <1>1, <1>2
<1>10. s3[4] = a[1] /\ s3[8] = a[5] /\ s4[4] = a[0] /\ s4[8] = a[4]
  <2>1. /\ s3[4] = s2[3] /\ s2[3] = s1[2] /\ s1[2] = a[1]
        /\ s3[8] = s2[7] /\ s2[7] = s1[6] /\ s1[6] = a[5]
    BY <1>1, <1>2, <1>3
  <2>2. /\ s4[4] = s3[3] /\ s3[3] = s2[2] /\ s2[2] = s1[1] /\ s1[1] = a[0]
        /\ s4[8] = s3[7] /\ s3[7] = s2[6] /\ s2[6] = s1[5] /\ s1[5] = a[4]
    BY <1>1, <1>2, <1>3, <1>4
  <2>3. QED
    BY <2>1, <2>2
<1>11. s5[4] = s1[0] /\ s5[8] = a[3] /\ s6[4] = s2[0] /\ s6[8] = a[2] /\ s7[4] = s3[0] /\ s7[8] = a[1]
  <2>1. /\ s5[4] = s4[3] /\ s4[3] = s3[2] /\ s3[2] = s2[1] /\ s2[1] = s1[0]
        /\ s5[8] = s4[7] /\ s4[7] = s3[6] /\ s3[6] = s2[5] /\ s2[5] = s1[4]
    BY <1>2, <1>3, <1>4, <1>5
  <2>2. /\ s6[4] = s5[3] /\ s5[3] = s4[2] /\ s4[2] = s3[1] /\ s3[1] = s2[0]
        /\ s6[8] = s5[7] /\ s5[7] = s4[6] /\ s4[6] = s3[5] /\ s3[5] = s2[4]
    BY <1>3, <1>4, <1>5, <1>6
  <2>3. /\ s7[4] = s6[3] /\ s6[3] = s5[2] /\ s5[2] = s4[1] /\ s4[1] = s3[0]
        /\ s7[8] = s6[7] /\ s6[7] = s5[6] /\ s5[6] = s4[5] /\ s4[5] = s3[4]
    BY <1>4, <1>5, <1>6, <1>7
  <2>4. QED
    BY <1>9, <1>10, <2>1, <2>2, <2>3
<1>12. s8[7] = s1[0] /\ s8[6] = s2[0] /\ s8[5] = s3[0] /\ s8[4] = s4[0]
  <2>1. /\ s8[7] = s7[6] /\ s7[6] = s6[5] /\ s6[5] = s5[4]
        /\ s8[6] = s7[5] /\ s7[5] = s6[4]
        /\ s8[5] = s7[4]
    BY <1>6, <1>7, <1>8
  <2>2. s8[4] = s7[3] /\ s7[3] = s6[2] /\ s6[2] = s5[1] /\ s5[1] = s4[0]
    BY <1>5, <1>6, <1>7, <1>8
  <2>3. QED
    BY <1>11, <2>1, <2>2
<1>13. s8[3] = s5[0] /\ s8[2] = s6[0] /\ s8[1] = s7[0]
  BY <1>6, <1>7, <1>8
<1>14. Code!Shift8(a) = s8
  BY DEF Code!Shift8, Code!Shift2, s1, s2, s3, s4, s5, s6, s7, s8
<1>15. s8 \in Bits
  BY <1>8
<1>16. /\ s1[0] = (a[4] + a[8]) % 2 /\ s2[0] = (a[3] + a[7]) % 2 /\ s3[0] = (a[2] + a[6]) % 2
       /\ s4[0] = (a[1] + a[5]) % 2 /\ s5[0] = (a[0] + a[4]) % 2 /\ s6[0] = (s1[0] + a[3]) % 2
       /\ s7[0] = (s2[0] + a[2]) % 2 /\ s8[0] = (s3[0] + a[1]) % 2
  BY <1>1, <1>2, <1>3, <1>4, <1>5, <1>6, <1>7, <1>8, <1>9, <1>10, <1>11
<1>17. QED
  BY <1>12, <1>13, <1>14, <1>15, <1>16 DEF Shifted

(* With the tables: the same of the whole register, and the rest moves on. *)
LEMMA UpdatedOf ==
    ASSUME NEW a \in Bits
    PROVE  Shifted(a, Code!Updated(a)) /\ Code!Updated(a)[8] = a[0]
<1> DEFINE m(i) == [k \in Code!Register |-> IF k \div 8 = i THEN a[k] ELSE 0]
           t(i) == Code!TableEntry(i, a)
           u == Code!Updated(a)
<1>1. \A k \in 0 .. 31 : a[k] \in Digit
  BY DEF Bits, Code!Register
<1>2. ASSUME NEW i \in 0 .. 3
      PROVE  /\ Shifted(m(i), t(i))
             /\ \A k \in 0 .. 31 : m(i)[k] = IF k \div 8 = i THEN a[k] ELSE 0
  <2>1. m(i) \in Bits
    BY <1>1 DEF Bits, Code!Register, Digit
  <2>2. t(i) = Code!Shift8(m(i))
    BY DEF Code!TableEntry
  <2>3. \A k \in 0 .. 31 : m(i)[k] = IF k \div 8 = i THEN a[k] ELSE 0
    BY DEF Code!Register
  <2> HIDE DEF m, t
  <2>4. QED
    BY <2>1, <2>2, <2>3, Shift8Of
<1> HIDE DEF m, t
<1>3. \A i \in 0 .. 3 : Shifted(m(i), t(i)) /\ t(i) \in Bits
  BY <1>2 DEF Shifted
<1>4. /\ m(0)[0] = a[0] /\ m(0)[1] = a[1] /\ m(0)[2] = a[2] /\ m(0)[3] = a[3]
      /\ m(0)[4] = a[4] /\ m(0)[5] = a[5] /\ m(0)[6] = a[6] /\ m(0)[7] = a[7] /\ m(0)[8] = 0
  BY <1>2
<1>5. /\ m(1)[0] = 0 /\ m(1)[1] = 0 /\ m(1)[2] = 0 /\ m(1)[3] = 0
      /\ m(1)[4] = 0 /\ m(1)[5] = 0 /\ m(1)[6] = 0 /\ m(1)[7] = 0 /\ m(1)[8] = a[8]
  BY <1>2
<1>6. ASSUME NEW i \in {2, 3} PROVE \A k \in 0 .. 8 : m(i)[k] = 0
  BY <1>2
<1>7. ASSUME NEW i \in {2, 3} PROVE \A k \in 0 .. 7 : t(i)[k] = 0
  <2>1. Shifted(m(i), t(i))
    BY <1>3
  <2>2. /\ m(i)[0] = 0 /\ m(i)[1] = 0 /\ m(i)[2] = 0 /\ m(i)[3] = 0 /\ m(i)[4] = 0
        /\ m(i)[5] = 0 /\ m(i)[6] = 0 /\ m(i)[7] = 0 /\ m(i)[8] = 0
    BY <1>6
  <2>3. t(i)[7] = 0 /\ t(i)[6] = 0 /\ t(i)[5] = 0 /\ t(i)[4] = 0 /\ t(i)[3] = 0
    BY <2>1, <2>2 DEF Shifted
  <2>4. t(i)[2] = 0 /\ t(i)[1] = 0 /\ t(i)[0] = 0
    BY <2>1, <2>2, <2>3 DEF Shifted
  <2>5. QED
    BY <2>3, <2>4
<1>8. ASSUME NEW k \in 0 .. 7 PROVE u[k] = (t(0)[k] + t(1)[k]) % 2
  <2> DEFINE f == [i \in 0 .. 3 |-> t(i)[k]]
  <2>1. /\ DOMAIN f = 0 .. 3 /\ f[0] = t(0)[k] /\ f[1] = t(1)[k] /\ f[2] = 0 /\ f[3] = 0
    BY <1>7
  <2>2. f[0] \in Digit /\ f[1] \in Digit
    BY <1>3, <2>1 DEF Bits, Code!Register
  <2>3. u[k] = Code!Parity(f)
    BY DEF Code!Updated, Code!Register, t
  <2> HIDE DEF f
  <2>4. Code!Parity(f) = (f[0] + f[1]) % 2
    BY <2>1, <2>2, ParityOfFour
  <2>5. QED
    BY <2>1, <2>3, <2>4
<1>9. \A k \in 8 .. 31 : u[k] = a[k - 8]
  BY DEF Code!Updated, Code!Register
<1>10. u \in Bits
  <2>1. ASSUME NEW k \in 0 .. 31 PROVE u[k] \in Digit
    <3>1. CASE k \in 0 .. 7
      <4>1. t(0)[k] \in Digit /\ t(1)[k] \in Digit
        BY <1>3, <3>1 DEF Bits, Code!Register
      <4>2. QED
        BY <1>8, <3>1, <4>1 DEF Digit
    <3>2. CASE k \in 8 .. 31
      <4>1. k - 8 \in 0 .. 31
        BY <3>2
      <4>2. QED
        BY <1>1, <1>9, <3>2, <4>1
    <3>3. QED
      BY <3>1, <3>2
  <2>2. u = [k \in 0 .. 31 |-> u[k]]
    BY DEF Code!Updated, Code!Register
  <2> HIDE DEF u
  <2>3. QED
    BY <2>1, <2>2 DEF Bits, Code!Register
<1> DEFINE x(k) == t(0)[k]
           y(k) == t(1)[k]
<1>11. /\ x(7) = a[4] % 2 /\ x(6) = (a[3] + a[7]) % 2
       /\ x(5) = (a[2] + a[6]) % 2 /\ x(4) = (a[1] + a[5]) % 2
       /\ x(3) = (a[0] + a[4]) % 2 /\ x(2) = (x(7) + a[3]) % 2
       /\ x(1) = (x(6) + a[2]) % 2 /\ x(0) = (x(5) + a[1]) % 2
  <2>1. Shifted(m(0), t(0))
    BY <1>3
  <2>2. \A k \in 0 .. 8 : a[k] \in Int
    BY <1>1 DEF Digit
  <2>3. a[4] + 0 = a[4]
    BY <2>2
  <2>4. QED
    BY <1>4, <2>1, <2>3 DEF Shifted
<1>12. /\ y(7) = a[8] % 2 /\ y(6) = 0 /\ y(5) = 0 /\ y(4) = 0 /\ y(3) = 0
       /\ y(2) = y(7) % 2 /\ y(1) = 0 /\ y(0) = 0
  <2>1. Shifted(m(1), t(1))
    BY <1>3
  <2>2. a[8] \in Int /\ 0 + a[8] = a[8]
    BY <1>1 DEF Digit
  <2>3. y(7) = a[8] % 2 /\ y(6) = 0 /\ y(5) = 0 /\ y(4) = 0 /\ y(3) = 0
    BY <1>5, <2>1, <2>2 DEF Shifted
  <2>4. y(2) = (y(7) + 0) % 2 /\ y(1) = (y(6) + 0) % 2 /\ y(0) = (y(5) + 0) % 2
    BY <1>5, <2>1 DEF Shifted
  <2>5. y(7) + 0 = y(7)
    BY <2>2, <2>3
  <2>6. QED
    BY <2>3, <2>4, <2>5
<1>13. \A k \in 0 .. 7 : u[k] = (x(k) + y(k)) % 2
  BY <1>8
<1> HIDE DEF u, x, y
<1>14. Shifted(a, u)
  <2>1. \A k \in 0 .. 8 : a[k] = 0 \/ a[k] = 1
    BY <1>1 DEF Digit
  <2>2. /\ u[7] = (a[4] + a[8]) % 2 /\ u[6] = (a[3] + a[7]) % 2
        /\ u[5] = (a[2] + a[6]) % 2 /\ u[4] = (a[1] + a[5]) % 2
        /\ u[3] = (a[0] + a[4]) % 2
    BY <1>11, <1>12, <1>13, <2>1
  <2>3. /\ u[2] = (u[7] + a[3]) % 2
        /\ u[1] = (u[6] + a[2]) % 2 /\ u[0] = (u[5] + a[1]) % 2
    BY <1>11, <1>12, <1>13, <2>1, <2>2
  <2>4. QED
    BY <1>10, <2>2, <2>3 DEF Shifted
<1>15. u[8] = a[0]
  BY <1>9
<1>16. QED
  BY <1>14, <1>15 DEF u

(* What a frame has at n, where ones come before it.                       *)
At(s, n) == IF n < 1 THEN 1 ELSE s[n]
Tells(e, s, l) == \A k \in 0 .. 8 : e[k] = At(s, l - k)
Extends(t, l, e) ==
    /\ t \in Seq(Digit) /\ Len(t) = l + 8
    /\ Tells(e, t, l + 8)
    /\ \A n \in l + 1 .. l + 8 : t[n] = (At(t, n - 5) + At(t, n - 9)) % 2

LEMMA TellsAll ==
    ASSUME NEW e, NEW s, NEW l, \A k \in 0 .. 8 : e[k] = At(s, l - k)
    PROVE  Tells(e, s, l)
  BY Zenon DEF Tells

LEMMA BitsOfByte == \A i \in 1 .. 8 : 8 - i \in 0 .. 31
  OBVIOUS

LEMMA PlaceInByte ==
    ASSUME NEW l \in Nat, NEW k \in 0 .. 7
    PROVE  /\ l + 8 - k \in l + 1 .. l + 8 /\ (l + 8 - k) - l = 8 - k /\ 8 - k \in 1 .. 8
           /\ 8 - (8 - k) = k /\ ~ (l + 8 - k < 1)
<1>1. l + 8 - k \in l + 1 .. l + 8
  OBVIOUS
<1>2. (l + 8 - k) - l = 8 - k /\ 8 - k \in 1 .. 8
  OBVIOUS
<1>3. 8 - (8 - k) = k /\ ~ (l + 8 - k < 1)
  OBVIOUS
<1>4. QED
  BY <1>1, <1>2, <1>3

LEMMA ByteAppended ==
    ASSUME NEW s \in Seq(Digit), NEW l \in Nat, Len(s) = l,
           NEW a \in Bits, Tells(a, s, l),
           NEW e, Shifted(a, e), e[8] = a[0]
    PROVE  Extends(s \o Code!LastByte(e), l, e)
<1> DEFINE b == Code!LastByte(e)
           t == s \o b
<1>1. e \in Bits /\ \A k \in 0 .. 31 : e[k] \in Digit
  BY DEF Shifted, Bits, Code!Register
<1>2. b \in Seq(Digit) /\ Len(b) = 8 /\ \A i \in 1 .. 8 : b[i] = e[8 - i]
  <2>1. b = [i \in 1 .. 8 |-> e[8 - i]]
    BY DEF Code!LastByte
  <2>2. \A i \in 1 .. 8 : e[8 - i] \in Digit
    BY <1>1, BitsOfByte
  <2> HIDE DEF b
  <2>3. QED
    BY <2>1, <2>2
<1> HIDE DEF b
<1>3. /\ t \in Seq(Digit) /\ Len(t) = l + 8
      /\ \A i \in 1 .. l : t[i] = s[i]
      /\ \A i \in l + 1 .. l + 8 : t[i] = b[i - l]
  <2>1. /\ s \o b \in Seq(Digit) /\ Len(s \o b) = Len(s) + Len(b)
        /\ \A i \in 1 .. Len(s) : (s \o b)[i] = s[i]
        /\ \A i \in Len(s) + 1 .. Len(s) + Len(b) : (s \o b)[i] = b[i - Len(s)]
    <3>1. s \in Seq(Digit) /\ b \in Seq(Digit)
      BY <1>2
    <3>2. QED
      BY ONLY <3>1, JoinOf, Zenon
  <2>2. Len(s) = l /\ Len(b) = 8
    BY <1>2
  <2>3. Len(t) = l + 8 /\ \A i \in l + 1 .. l + 8 : t[i] = b[i - l]
    BY ONLY <2>1, <2>2
  <2>4. t \in Seq(Digit) /\ \A i \in 1 .. l : t[i] = s[i]
    BY ONLY <2>1, <2>2
  <2>5. QED
    BY ONLY <2>3, <2>4
<1> HIDE DEF t
<1>4. ASSUME NEW k \in 0 .. 7 PROVE e[k] = At(t, l + 8 - k) /\ t[l + 8 - k] = e[k]
  <2>1. l + 8 - k \in l + 1 .. l + 8 /\ (l + 8 - k) - l = 8 - k /\ 8 - k \in 1 .. 8
        /\ 8 - (8 - k) = k /\ ~ (l + 8 - k < 1)
    BY PlaceInByte
  <2>2. t[l + 8 - k] = b[8 - k]
    BY <1>3, <2>1
  <2>3. b[8 - k] = e[k]
    BY <1>2, <2>1
  <2>4. QED
    BY <2>1, <2>2, <2>3 DEF At
<1>5. ASSUME NEW k \in 0 .. 8 PROVE a[k] = At(t, l - k)
  <2>1. a[k] = At(s, l - k)
    BY DEF Tells
  <2>2. CASE l - k < 1
    BY <2>1, <2>2 DEF At
  <2>3. CASE ~ (l - k < 1)
    <3>1. l - k \in 1 .. l
      BY <2>3
    <3>2. t[l - k] = s[l - k]
      BY <1>3, <3>1
    <3>3. QED
      BY <2>1, <2>3, <3>2 DEF At
  <2>4. QED
    BY <2>2, <2>3
<1>6. e[8] = At(t, l + 8 - 8)
  <2>1. a[0] = At(t, l - 0)
    BY <1>5
  <2>2. l - 0 = l + 8 - 8
    OBVIOUS
  <2>3. QED
    BY <2>1, <2>2
<1>7. \A k \in 0 .. 8 : e[k] = At(t, l + 8 - k)
  <2>1. ASSUME NEW k \in 0 .. 8 PROVE e[k] = At(t, l + 8 - k)
    <3>1. CASE k = 8
      BY <1>6, <3>1
    <3>2. CASE k # 8
      <4>1. k \in 0 .. 7
        BY <3>2
      <4>2. QED
        BY <1>4, <4>1
    <3>3. QED
      BY <3>1, <3>2
  <2>2. QED
    BY <2>1
<1>8. ASSUME NEW k \in 0 .. 7
      PROVE  t[l + 8 - k] = (At(t, (l + 8 - k) - 5) + At(t, (l + 8 - k) - 9)) % 2
  <2>1. t[l + 8 - k] = e[k]
    BY <1>4
  <2>2. At(t, (l + 8 - k) - 9) = a[k + 1]
    <3>1. k + 1 \in 0 .. 8 /\ l - (k + 1) = (l + 8 - k) - 9
      OBVIOUS
    <3>2. QED
      BY <1>5, <3>1
  <2>3. CASE k \in 3 .. 7
    <3>1. k - 3 \in 0 .. 8 /\ l - (k - 3) = (l + 8 - k) - 5
      BY <2>3
    <3>2. At(t, (l + 8 - k) - 5) = a[k - 3]
      BY <1>5, <3>1
    <3>3. e[k] = (a[k - 3] + a[k + 1]) % 2
      BY <2>3 DEF Shifted
    <3>4. QED
      BY <2>1, <2>2, <3>2, <3>3
  <2>4. CASE k \in 0 .. 2
    <3>1. k + 5 \in 0 .. 7 /\ l + 8 - (k + 5) = (l + 8 - k) - 5
      BY <2>4
    <3>2. At(t, (l + 8 - k) - 5) = e[k + 5]
      BY <1>4, <3>1
    <3>3. e[k] = (e[k + 5] + a[k + 1]) % 2
      BY <2>4 DEF Shifted
    <3>4. QED
      BY <2>1, <2>2, <3>2, <3>3
  <2>5. k \in 0 .. 2 \/ k \in 3 .. 7
    OBVIOUS
  <2>6. QED
    BY <2>3, <2>4, <2>5
<1>9. ASSUME NEW n \in l + 1 .. l + 8 PROVE t[n] = (At(t, n - 5) + At(t, n - 9)) % 2
  <2> DEFINE k == l + 8 - n
  <2>1. k \in 0 .. 7 /\ l + 8 - k = n
    OBVIOUS
  <2> HIDE DEF k
  <2>2. QED
    BY <1>8, <2>1
<1>10. QED
  <2>1. Tells(e, t, l + 8)
    <3> DEFINE h == l + 8
    <3>1. \A k \in 0 .. 8 : e[k] = At(t, h - k)
      BY <1>7
    <3> HIDE DEF h
    <3>2. Tells(e, t, h)
      BY <3>1, TellsAll, Zenon
    <3>3. QED
      BY <3>2 DEF h
  <2>2. Extends(t, l, e)
    BY <1>3, <1>9, <2>1 DEF Extends
  <2>3. QED
    BY <2>2 DEF t, b

(* The register has the last nine bits of the frame, ones before it.       *)
DispersalInv ==
    element = "PrbsGenerator" =>
        /\ count \in Nat /\ register \in Bits
        /\ made \in Seq(Digit) /\ Len(made) = 8 * count
        /\ Tells(register, made, 8 * count)
        /\ Code!Recurrence

LEMMA SeedIsOnes == Code!Seed \in Bits /\ \A k \in 0 .. 8 : Code!Seed[k] = 1
<1>1. Code!Seed \in Bits
  BY DEF Code!Seed, Bits, Code!Register, Digit
<1>2. /\ 2^0 = 1 /\ 2^1 = 2 /\ 2^2 = 4 /\ 2^3 = 8 /\ 2^4 = 16
      /\ 2^5 = 32 /\ 2^6 = 64 /\ 2^7 = 128 /\ 2^8 = 256
  OBVIOUS
<1>3. ASSUME NEW k \in 0 .. 8 PROVE 2^k - 1 < 272
  <2>1. CASE k = 0
    BY <1>2, <2>1
  <2>2. CASE k = 1
    BY <1>2, <2>2
  <2>3. CASE k = 2
    BY <1>2, <2>3
  <2>4. CASE k = 3
    BY <1>2, <2>4
  <2>5. CASE k = 4
    BY <1>2, <2>5
  <2>6. CASE k = 5
    BY <1>2, <2>6
  <2>7. CASE k = 6
    BY <1>2, <2>7
  <2>8. CASE k = 7
    BY <1>2, <2>8
  <2>9. CASE k = 8
    BY <1>2, <2>9
  <2>10. QED
    BY <2>1, <2>2, <2>3, <2>4, <2>5, <2>6, <2>7, <2>8, <2>9
<1>4. \A k \in 0 .. 8 : Code!Seed[k] = IF 2^(IF k > 9 THEN 9 ELSE k) - 1 < 272 THEN 1 ELSE 0
  BY DEF Code!Seed, Code!Register
<1>5. \A k \in 0 .. 8 : (IF k > 9 THEN 9 ELSE k) = k
  OBVIOUS
<1>6. QED
  BY <1>1, <1>3, <1>4, <1>5

LEMMA NothingDispersed ==
    Tells(Code!Seed, <<>>, 0)
<1>1. \A k \in 0 .. 8 : 0 - k < 1
  OBVIOUS
<1>2. QED
  BY <1>1, SeedIsOnes DEF At, Tells

LEMMA DispersalStep ==
    ASSUME DispersalInv, [Code!Next]_codeVars
    PROVE  DispersalInv'
<1>1. element' = element
  BY DEF Code!Next, Code!Ready, Code!vars, codeVars
<1> SUFFICES ASSUME element = "PrbsGenerator"
             PROVE  DispersalInv'
  BY <1>1 DEF DispersalInv
<1>2. CASE Code!Disperse
  <2> DEFINE c == IF count = FrameBytes THEN 0 ELSE count
             s == IF count = FrameBytes THEN <<>> ELSE made
             a == Code!Start
             e == Code!Updated(a)
             l == 8 * c
  <2>1. register' = e /\ made' = s \o Code!LastByte(e) /\ count' = c + 1
    <3>1. /\ register' = Code!Updated(Code!Start)
          /\ made' = (IF count = FrameBytes THEN <<>> ELSE made) \o Code!LastByte(register')
          /\ count' = IF count = FrameBytes THEN 1 ELSE count + 1
      BY <1>2 DEF Code!Disperse
    <3>2. count' = c + 1
      BY <3>1
    <3>3. QED
      BY <3>1, <3>2
  <2>2. /\ c \in Nat /\ a \in Bits /\ s \in Seq(Digit) /\ Len(s) = l
        /\ Tells(a, s, l)
    <3>1. CASE count = FrameBytes
      <4>1. a = Code!Seed /\ s = <<>> /\ c = 0 /\ l = 0
        BY <3>1 DEF Code!Start
      <4> HIDE DEF a, s, c, l
      <4>2. <<>> \in Seq(Digit) /\ Len(<<>>) = 0
        OBVIOUS
      <4>3. QED
        BY <4>1, <4>2, SeedIsOnes, NothingDispersed
    <3>2. CASE count # FrameBytes
      <4>1. a = register /\ s = made /\ c = count
        BY <3>2 DEF Code!Start
      <4> HIDE DEF a, s, c
      <4>2. QED
        BY <4>1 DEF DispersalInv
    <3>3. QED
      BY <3>1, <3>2
  <2> HIDE DEF a, c, s
  <2>3. Shifted(a, e) /\ e[8] = a[0]
    BY <2>2, UpdatedOf
  <2> HIDE DEF e
  <2>4. l \in Nat /\ 8 * count' = l + 8 /\ count' \in Nat
    <3>1. c \in Nat /\ count' = c + 1
      BY <2>1, <2>2
    <3>2. QED
      BY <3>1
  <2> HIDE DEF l
  <2> DEFINE t == s \o Code!LastByte(e)
  <2>5. made' = t /\ register' = e
    BY <2>1
  <2>6. Extends(t, l, e)
    <3>1. Len(s) = l /\ Tells(a, s, l)
      BY <2>2
    <3>2. s \in Seq(Digit) /\ a \in Bits
      BY <2>2
    <3>3. l \in Nat
      BY <2>4
    <3>4. Shifted(a, e) /\ e[8] = a[0]
      BY <2>3
    <3>5. QED
      BY <3>1, <3>2, <3>3, <3>4, ByteAppended
  <2> HIDE DEF t
  <2>7. /\ t \in Seq(Digit) /\ Len(t) = l + 8
        /\ Tells(e, t, l + 8)
        /\ \A n \in l + 1 .. l + 8 : t[n] = (At(t, n - 5) + At(t, n - 9)) % 2
    BY <2>6 DEF Extends
  <2>8. /\ count' \in Nat /\ made' \in Seq(Digit) /\ Len(made') = 8 * count'
        /\ Tells(register', made', 8 * count')
    <3>1. Tells(register', made', l + 8)
      BY <2>5, <2>7, Zenon
    <3>2. Tells(register', made', 8 * count')
      BY <2>4, <3>1
    <3>3. count' \in Nat /\ made' \in Seq(Digit) /\ Len(made') = 8 * count'
      BY <2>4, <2>7, <2>5, Zenon
    <3>4. QED
      BY <3>2, <3>3
  <2>9. register' \in Bits
    BY <2>3, <2>5 DEF Shifted
  <2>10. Code!Recurrence'
    <3>1. ASSUME NEW n \in Len(made') - 7 .. Len(made'), n > 0
          PROVE  made'[n] = (Code!Dispersed(n - 5)' + Code!Dispersed(n - 9)') % 2
      <4>1. n \in l + 1 .. l + 8
        <5>1. l \in Nat /\ Len(made') = l + 8
          BY <2>4, <2>7, <2>5
        <5>2. (l + 8) - 7 = l + 1
          BY <5>1
        <5>3. QED
          BY <3>1, <5>1, <5>2
      <4>2. t[n] = (At(t, n - 5) + At(t, n - 9)) % 2
        BY <2>7, <4>1
      <4>3. Code!Dispersed(n - 5)' = At(t, n - 5) /\ Code!Dispersed(n - 9)' = At(t, n - 9)
        BY <2>5 DEF Code!Dispersed, At
      <4>4. QED
        BY <2>5, <4>2, <4>3
    <3>2. QED
      BY <2>8, <3>1 DEF Code!Recurrence
  <2>11. QED
    BY <2>8, <2>9, <2>10 DEF DispersalInv, Tells, At
<1>3. CASE UNCHANGED codeVars
  BY <1>3 DEF DispersalInv, codeVars, Code!Recurrence, Code!Dispersed, Tells, At
<1>4. Code!Next => Code!Disperse \/ UNCHANGED codeVars
  BY DEF Code!Next, Code!Permute, Code!Interleave, Code!Encode, Code!EncodeNext, Code!SetParameter,
         Code!Ready, Code!vars, codeVars
<1>5. QED
  BY <1>2, <1>3, <1>4

(* The bits that disperse a frame of any length, made a byte at a time with *)
(* tables, follow the polynomial of the standard from nine ones on, in     *)
(* every frame anew.                                                       *)
THEOREM DispersesByPolynomial == ModulatorSpec => []Code!Recurrence
<1>1. Code!Init => DispersalInv
  <2> SUFFICES ASSUME Code!Init, element = "PrbsGenerator" PROVE DispersalInv
    BY DEF DispersalInv
  <2>1. count = 0 /\ register = Code!Seed /\ made = <<>>
    BY DEF Code!Init
  <2>2. <<>> \in Seq(Digit) /\ Len(<<>>) = 0 /\ 8 * 0 = 0
    OBVIOUS
  <2>3. Code!Recurrence
    BY <2>1, <2>2 DEF Code!Recurrence
  <2>4. Tells(register, made, 8 * count)
    BY <2>1, <2>2, NothingDispersed
  <2>5. QED
    BY <2>1, <2>2, <2>3, <2>4, SeedIsOnes DEF DispersalInv
<1>2. DispersalInv /\ [Code!Next]_codeVars => DispersalInv'
  BY DispersalStep
<1>3. DispersalInv => Code!Recurrence
  BY DEF DispersalInv, Code!Recurrence
<1>4. QED
  BY <1>1, <1>2, <1>3, CodeIsAlone, PTL

-----------------------------------------------------------------------------
(* src/ConvEncoder.cpp.                                                    *)

LEMMA BitsOf ==
    ASSUME NEW r \in Nat
    PROVE  /\ Code!Bit(r, 0) = r % 2
           /\ Code!Bit(r, 1) = (r \div 2) % 2 /\ Code!Bit(r, 2) = (r \div 4) % 2
           /\ Code!Bit(r, 3) = (r \div 8) % 2 /\ Code!Bit(r, 4) = (r \div 16) % 2
           /\ Code!Bit(r, 5) = (r \div 32) % 2 /\ Code!Bit(r, 6) = (r \div 64) % 2
<1>1. /\ 2^0 = 1 /\ 2^1 = 2 /\ 2^2 = 4 /\ 2^3 = 8 /\ 2^4 = 16 /\ 2^5 = 32 /\ 2^6 = 64
  OBVIOUS
<1>2. r \div 1 = r
  OBVIOUS
<1>3. QED
  BY <1>1, <1>2 DEF Code!Bit

(* The memory moves on by one bit.                                         *)
LEMMA RememberOf ==
    ASSUME NEW m \in 0 .. 127, NEW bit \in Digit
    PROVE  LET r == Code!Remember(m, bit)
           IN  /\ r \in 0 .. 127 /\ Code!Bit(r, 6) = bit
               /\ Code!Bit(r, 0) = Code!Bit(m, 1) /\ Code!Bit(r, 1) = Code!Bit(m, 2)
               /\ Code!Bit(r, 2) = Code!Bit(m, 3) /\ Code!Bit(r, 3) = Code!Bit(m, 4)
               /\ Code!Bit(r, 4) = Code!Bit(m, 5) /\ Code!Bit(r, 5) = Code!Bit(m, 6)
<1> DEFINE r == Code!Remember(m, bit)
<1>1. r = (m \div 2) + 64 * bit /\ bit \in {0, 1} /\ m \in Nat /\ m < 128
  BY DEF Code!Remember, Digit
<1> HIDE DEF r
<1>2. r \in 0 .. 127 /\ r \in Nat
  BY <1>1
<1>3. (r \div 64) % 2 = bit
  BY <1>1
<1>4. r % 2 = (m \div 2) % 2
  BY <1>1
<1>5. (r \div 2) % 2 = (m \div 4) % 2
  BY <1>1
<1>6. (r \div 4) % 2 = (m \div 8) % 2
  BY <1>1
<1>7. (r \div 8) % 2 = (m \div 16) % 2
  BY <1>1
<1>8. (r \div 16) % 2 = (m \div 32) % 2
  BY <1>1
<1>9. (r \div 32) % 2 = (m \div 64) % 2
  BY <1>1
<1>10. /\ Code!Bit(r, 0) = r % 2
       /\ Code!Bit(r, 1) = (r \div 2) % 2 /\ Code!Bit(r, 2) = (r \div 4) % 2
       /\ Code!Bit(r, 3) = (r \div 8) % 2 /\ Code!Bit(r, 4) = (r \div 16) % 2
       /\ Code!Bit(r, 5) = (r \div 32) % 2 /\ Code!Bit(r, 6) = (r \div 64) % 2
  BY <1>2, BitsOf
<1>11. /\ Code!Bit(m, 1) = (m \div 2) % 2 /\ Code!Bit(m, 2) = (m \div 4) % 2
       /\ Code!Bit(m, 3) = (m \div 8) % 2 /\ Code!Bit(m, 4) = (m \div 16) % 2
       /\ Code!Bit(m, 5) = (m \div 32) % 2 /\ Code!Bit(m, 6) = (m \div 64) % 2
  BY <1>1, BitsOf
<1>12. r \in 0 .. 127 /\ Code!Bit(r, 6) = bit
  BY <1>2, <1>3, <1>10, Zenon
<1>13. Code!Bit(r, 0) = Code!Bit(m, 1) /\ Code!Bit(r, 1) = Code!Bit(m, 2)
  BY <1>4, <1>5, <1>10, <1>11, Zenon
<1>14. Code!Bit(r, 2) = Code!Bit(m, 3) /\ Code!Bit(r, 3) = Code!Bit(m, 4)
  BY <1>6, <1>7, <1>10, <1>11, Zenon
<1>15. Code!Bit(r, 4) = Code!Bit(m, 5) /\ Code!Bit(r, 5) = Code!Bit(m, 6)
  BY <1>8, <1>9, <1>10, <1>11, Zenon
<1>16. QED
  BY <1>12, <1>13, <1>14, <1>15 DEF r

LEMMA ZeroMemory == \A b \in 0 .. 6 : Code!Bit(0, b) = 0
<1>1. \A b \in 0 .. 6 : b = 0 \/ b = 1 \/ b = 2 \/ b = 3 \/ b = 4 \/ b = 5 \/ b = 6
  OBVIOUS
<1>2. 0 \in Nat /\ 0 % 2 = 0 /\ (0 \div 2) % 2 = 0 /\ (0 \div 4) % 2 = 0 /\ (0 \div 8) % 2 = 0
      /\ (0 \div 16) % 2 = 0 /\ (0 \div 32) % 2 = 0 /\ (0 \div 64) % 2 = 0
  OBVIOUS
<1>3. /\ Code!Bit(0, 0) = 0 /\ Code!Bit(0, 1) = 0 /\ Code!Bit(0, 2) = 0 /\ Code!Bit(0, 3) = 0
      /\ Code!Bit(0, 4) = 0 /\ Code!Bit(0, 5) = 0 /\ Code!Bit(0, 6) = 0
  BY <1>2, BitsOf
<1>4. QED
  BY <1>1, <1>3, Zenon

(* A mask has the delays in it the other way round.                        *)
Reads(mask, delays) ==
    /\ delays \subseteq 0 .. 6
    /\ \A b \in 0 .. 6 : /\ Code!Bit(mask, b) \in Digit
                         /\ Code!Bit(mask, b) = 1 <=> 6 - b \in delays

LEMMA MasksRead ==
    ASSUME NEW k \in 1 .. 4
    PROVE  Reads(Code!Masks[k], Code!Delays[k])
<1>1. \A b \in 0 .. 6 : b = 0 \/ b = 1 \/ b = 2 \/ b = 3 \/ b = 4 \/ b = 5 \/ b = 6
  OBVIOUS
<1>2. Reads(91, {0, 2, 3, 5, 6})
  <2>1. /\ Code!Bit(91, 0) = 1 /\ Code!Bit(91, 1) = 1 /\ Code!Bit(91, 2) = 0 /\ Code!Bit(91, 3) = 1
        /\ Code!Bit(91, 4) = 1 /\ Code!Bit(91, 5) = 0 /\ Code!Bit(91, 6) = 1
    BY BitsOf
  <2>2. QED
    BY <1>1, <2>1 DEF Reads, Digit
<1>3. Reads(121, {0, 1, 2, 3, 6})
  <2>1. /\ Code!Bit(121, 0) = 1 /\ Code!Bit(121, 1) = 0 /\ Code!Bit(121, 2) = 0 /\ Code!Bit(121, 3) = 1
        /\ Code!Bit(121, 4) = 1 /\ Code!Bit(121, 5) = 1 /\ Code!Bit(121, 6) = 1
    BY BitsOf
  <2>2. QED
    BY <1>1, <2>1 DEF Reads, Digit
<1>4. Reads(101, {0, 1, 4, 6})
  <2>1. /\ Code!Bit(101, 0) = 1 /\ Code!Bit(101, 1) = 0 /\ Code!Bit(101, 2) = 1 /\ Code!Bit(101, 3) = 0
        /\ Code!Bit(101, 4) = 0 /\ Code!Bit(101, 5) = 1 /\ Code!Bit(101, 6) = 1
    BY BitsOf
  <2>2. QED
    BY <1>1, <2>1 DEF Reads, Digit
<1>5. k = 1 \/ k = 2 \/ k = 3 \/ k = 4
  OBVIOUS
<1>6. QED
  BY <1>2, <1>3, <1>4, <1>5 DEF Code!Masks, Code!Delays

LEMMA MirroredCount ==
    ASSUME NEW ones \in SUBSET (0 .. 6), NEW delays, delays = {6 - b : b \in ones}
    PROVE  Cardinality(delays) = Cardinality(ones)
<1> DEFINE f == [b \in ones |-> 6 - b]
<1>1. f \in Bijection(ones, delays)
  <2>1. \A b \in ones : b \in Int
    OBVIOUS
  <2>2. f \in [ones -> delays]
    OBVIOUS
  <2>3. \A a, b \in ones : f[a] = f[b] => a = b
    BY <2>1
  <2>4. \A d \in delays : \E b \in ones : f[b] = d
    OBVIOUS
  <2>5. QED
    BY <2>2, <2>3, <2>4 DEF Bijection, Injection, Surjection, IsInjective
<1>2. IsFiniteSet(ones)
  <2>1. 0 \in Int /\ 6 \in Int
    OBVIOUS
  <2>2. IsFiniteSet(0 .. 6)
    BY <2>1, FS_Interval
  <2>3. QED
    BY <2>2, FS_Subset
<1>3. ExistsBijection(ones, delays)
  BY <1>1 DEF ExistsBijection
<1>4. QED
  BY <1>2, <1>3, FS_Bijection

(* The word made with the mask is the one of the polynomial.               *)
LEMMA WordOf ==
    ASSUME NEW r \in Nat, NEW mask, NEW delays, Reads(mask, delays),
           NEW past \in [0 .. 6 -> Digit], \A b \in 0 .. 6 : Code!Bit(r, b) = past[6 - b]
    PROVE  Code!Parity([b \in 0 .. 6 |-> Code!Bit(r, b) * Code!Bit(mask, b)])
         = Code!Parity([d \in delays |-> past[d]])
<1> DEFINE f == [b \in 0 .. 6 |-> Code!Bit(r, b) * Code!Bit(mask, b)]
           g == [d \in delays |-> past[d]]
           ones == {b \in DOMAIN f : f[b] = 1}
           late == {d \in DOMAIN g : g[d] = 1}
<1>1. ASSUME NEW b \in 0 .. 6
      PROVE  f[b] = 1 <=> 6 - b \in delays /\ past[6 - b] = 1
  <2>1. 6 - b \in 0 .. 6
    OBVIOUS
  <2>2. f[b] = past[6 - b] * Code!Bit(mask, b)
    OBVIOUS
  <2>3. past[6 - b] \in {0, 1} /\ Code!Bit(mask, b) \in {0, 1}
    BY <2>1 DEF Reads, Digit
  <2>4. f[b] = 1 <=> past[6 - b] = 1 /\ Code!Bit(mask, b) = 1
    BY <2>2, <2>3
  <2>5. QED
    BY <2>4 DEF Reads
<1>2. ones \in SUBSET (0 .. 6) /\ late \in SUBSET (0 .. 6)
  BY DEF Reads
<1>3. late = {6 - b : b \in ones}
  <2>1. ASSUME NEW d \in late PROVE \E b \in ones : d = 6 - b
    <3>1. d \in 0 .. 6 /\ d \in delays /\ past[d] = 1
      BY <1>2
    <3>2. 6 - d \in 0 .. 6 /\ 6 - (6 - d) = d
      BY <3>1
    <3>3. f[6 - d] = 1
      BY <1>1, <3>1, <3>2
    <3>4. QED
      BY <3>2, <3>3
  <2>2. ASSUME NEW b \in ones PROVE 6 - b \in late
    BY <1>1
  <2> HIDE DEF ones, late
  <2>3. QED
    BY <2>1, <2>2
<1>4. Cardinality(late) = Cardinality(ones)
  BY <1>2, <1>3, MirroredCount
<1>5. QED
  BY <1>4 DEF Code!Parity, Code!Cardinality, Cardinality

(* A bit of the past, of the frame or before it.                           *)
Late(p, d) == IF d < Len(p) THEN p[d + 1] ELSE 0

LEMMA PastOf ==
    ASSUME NEW p \in Seq(Digit), Len(p) <= 7, NEW bit \in Digit
    PROVE  LET q == SubSeq(<<bit>> \o p, 1, IF Len(p) < 6 THEN Len(p) + 1 ELSE 7)
           IN  /\ q \in Seq(Digit) /\ Len(q) <= 7
               /\ Late(q, 0) = bit
               /\ \A d \in 0 .. 5 : Late(q, d + 1) = Late(p, d)
<1> DEFINE one == <<bit>>
           all == one \o p
           n == IF Len(p) < 6 THEN Len(p) + 1 ELSE 7
           q == SubSeq(all, 1, n)
<1>1. one \in Seq(Digit) /\ Len(one) = 1 /\ one[1] = bit
  OBVIOUS
<1> HIDE DEF one
<1>2. /\ all \in Seq(Digit) /\ Len(all) = 1 + Len(p)
      /\ \A i \in 1 .. 1 : all[i] = one[i]
      /\ \A i \in 1 + 1 .. 1 + Len(p) : all[i] = p[i - 1]
  <2>1. /\ all \in Seq(Digit) /\ Len(all) = Len(one) + Len(p)
        /\ \A i \in 1 .. Len(one) : all[i] = one[i]
        /\ \A i \in Len(one) + 1 .. Len(one) + Len(p) : all[i] = p[i - Len(one)]
    BY <1>1, JoinOf
  <2> HIDE DEF all
  <2>2. QED
    BY <1>1, <2>1
<1> HIDE DEF all
<1>3. Len(p) \in Nat /\ n \in 1 .. 7 /\ n <= Len(p) + 1 /\ (n # 7 => n = Len(p) + 1)
  <2>1. Len(p) \in Nat
    OBVIOUS
  <2>2. QED
    BY <2>1
<1> HIDE DEF n
<1>4. q \in Seq(Digit) /\ Len(q) = n /\ \A i \in 1 .. n : q[i] = all[i]
  <2>1. \A i \in 1 .. n : all[i] \in Digit
    <3>1. \A i \in 1 .. n : i \in DOMAIN all
      BY <1>2, <1>3
    <3>2. QED
      BY <1>2, <3>1, ElementOf
  <2>2. 1 \in Int /\ n \in Int /\ 1 <= n /\ n - 1 + 1 = n
    BY <1>3
  <2>3. /\ q \in Seq(Digit) /\ Len(q) = (IF 1 <= n THEN n - 1 + 1 ELSE 0)
        /\ \A i \in 1 .. n - 1 + 1 : q[i] = all[1 + i - 1]
    BY <2>1, <2>2, SubSeqProperties
  <2> HIDE DEF q
  <2>4. QED
    BY <2>2, <2>3
<1> HIDE DEF q
<1>5. Late(q, 0) = bit
  <2>1. 0 < n /\ 0 + 1 = 1 /\ 1 \in 1 .. n /\ 1 \in 1 .. 1
    BY <1>3
  <2>2. q[1] = bit
    BY <1>1, <1>2, <1>4, <2>1
  <2>3. QED
    BY <1>4, <2>1, <2>2 DEF Late
<1>6. ASSUME NEW d \in 0 .. 5 PROVE Late(q, d + 1) = Late(p, d)
  <2>1. CASE d + 1 < n
    <3>1. (d + 1) + 1 \in 1 .. n /\ (d + 1) + 1 \in 1 + 1 .. 1 + Len(p) /\ d < Len(p)
          /\ ((d + 1) + 1) - 1 = d + 1
      BY <1>3, <2>1
    <3>2. q[(d + 1) + 1] = all[(d + 1) + 1]
      BY <1>4, <3>1
    <3>3. all[(d + 1) + 1] = p[d + 1]
      BY <1>2, <3>1
    <3>4. QED
      BY <1>4, <2>1, <3>1, <3>2, <3>3 DEF Late
  <2>2. CASE ~ (d + 1 < n)
    <3>1. ~ (d < Len(p))
      BY <1>3, <2>2
    <3>2. QED
      BY <1>4, <2>2, <3>1 DEF Late
  <2>3. QED
    BY <2>1, <2>2
<1>7. Len(q) <= 7
  BY <1>3, <1>4
<1>8. QED
  BY <1>4, <1>5, <1>6, <1>7 DEF q, all, one, n

(* The memory has the last seven bits.                                     *)
Remembers(memory, p) == \A d \in 0 .. 6 : Code!Bit(memory, 6 - d) = Late(p, d)

EncoderInv ==
    element = "ConvEncoder" =>
        /\ register \in 0 .. 127
        /\ made.past \in Seq(Digit) /\ Len(made.past) <= 7
        /\ Remembers(register, made.past)
        /\ Code!Polynomials

LEMMA RemembersNext ==
    ASSUME NEW m \in 0 .. 127, NEW bit \in Digit, NEW p, NEW q, Remembers(m, p),
           Late(q, 0) = bit, \A d \in 0 .. 5 : Late(q, d + 1) = Late(p, d)
    PROVE  Remembers(Code!Remember(m, bit), q)
<1> DEFINE r == Code!Remember(m, bit)
<1>1. /\ Code!Bit(r, 6) = bit
      /\ Code!Bit(r, 0) = Code!Bit(m, 1) /\ Code!Bit(r, 1) = Code!Bit(m, 2)
      /\ Code!Bit(r, 2) = Code!Bit(m, 3) /\ Code!Bit(r, 3) = Code!Bit(m, 4)
      /\ Code!Bit(r, 4) = Code!Bit(m, 5) /\ Code!Bit(r, 5) = Code!Bit(m, 6)
  BY RememberOf
<1> HIDE DEF r
<1>2. \A d \in 0 .. 5 : d = 0 \/ d = 1 \/ d = 2 \/ d = 3 \/ d = 4 \/ d = 5
  OBVIOUS
<1>3. ASSUME NEW d \in 0 .. 5 PROVE Code!Bit(r, 6 - (d + 1)) = Code!Bit(m, 6 - d)
  BY <1>1, <1>2
<1>4. ASSUME NEW d \in 0 .. 6 PROVE Code!Bit(r, 6 - d) = Late(q, d)
  <2>1. CASE d = 0
    BY <1>1, <2>1
  <2>2. CASE d \in 1 .. 6
    <3> DEFINE c == d - 1
    <3>1. c \in 0 .. 5 /\ c \in 0 .. 6 /\ d = c + 1
      BY <2>2
    <3> HIDE DEF c
    <3>2. Code!Bit(r, 6 - (c + 1)) = Code!Bit(m, 6 - c)
      BY <1>3, <3>1
    <3>3. Code!Bit(m, 6 - c) = Late(p, c)
      BY <3>1 DEF Remembers
    <3>4. Late(q, c + 1) = Late(p, c)
      BY <3>1
    <3>5. QED
      BY <3>1, <3>2, <3>3, <3>4
  <2>3. d = 0 \/ d \in 1 .. 6
    OBVIOUS
  <2>4. QED
    BY <2>1, <2>2, <2>3
<1>5. QED
  BY <1>4 DEF Remembers, r

(* The word the code makes of its memory.                                  *)
WordMade(r, k) == Code!Parity([b \in 0 .. 6 |-> Code!Bit(r, b) * Code!Bit(Code!Masks[k], b)])

LEMMA WordOfPast ==
    ASSUME NEW r \in 0 .. 127, NEW p \in Seq(Digit), Remembers(r, p), NEW k \in 1 .. 4
    PROVE  WordMade(r, k) = Code!Parity([d \in Code!Delays[k] |-> Late(p, d)])
<1> DEFINE past == [d \in 0 .. 6 |-> Late(p, d)]
           delays == Code!Delays[k]
           mask == Code!Masks[k]
<1>1. \A d \in 0 .. 6 : Late(p, d) \in Digit
  <2>1. ASSUME NEW d \in 0 .. 6, d < Len(p) PROVE p[d + 1] \in Digit
    <3>1. d + 1 \in DOMAIN p
      BY <2>1
    <3>2. QED
      BY <3>1, ElementOf
  <2>2. 0 \in Digit
    BY DEF Digit
  <2>3. QED
    BY <2>1, <2>2 DEF Late
<1>2. past \in [0 .. 6 -> Digit] /\ \A d \in 0 .. 6 : past[d] = Late(p, d)
  BY <1>1
<1>3. Reads(mask, delays)
  BY MasksRead
<1> HIDE DEF past, delays, mask
<1>4. \A b \in 0 .. 6 : Code!Bit(r, b) = past[6 - b]
  <2>1. ASSUME NEW b \in 0 .. 6 PROVE Code!Bit(r, b) = past[6 - b]
    <3>1. 6 - b \in 0 .. 6 /\ 6 - (6 - b) = b
      OBVIOUS
    <3>2. Code!Bit(r, 6 - (6 - b)) = Late(p, 6 - b)
      BY <3>1 DEF Remembers
    <3>3. QED
      BY <1>2, <3>1, <3>2
  <2>2. QED
    BY <2>1
<1>5. Code!Parity([b \in 0 .. 6 |-> Code!Bit(r, b) * Code!Bit(mask, b)])
    = Code!Parity([d \in delays |-> past[d]])
  <2>1. r \in Nat
    OBVIOUS
  <2>2. QED
    BY <1>2, <1>3, <1>4, <2>1, WordOf
<1>6. [d \in delays |-> past[d]] = [d \in delays |-> Late(p, d)]
  BY <1>2, <1>3 DEF Reads
<1>7. QED
  BY <1>5, <1>6 DEF WordMade, delays, mask

LEMMA NothingRemembered == Remembers(0, <<>>) /\ \A k \in 1 .. 4 : Code!NoWord.word[k] = 0
<1>1. ASSUME NEW d \in 0 .. 6 PROVE Code!Bit(0, 6 - d) = Late(<<>>, d)
  <2>1. 6 - d \in 0 .. 6 /\ Len(<<>>) = 0 /\ ~ (d < 0)
    OBVIOUS
  <2>2. QED
    BY <2>1, ZeroMemory DEF Late
<1>2. \A k \in 1 .. 4 : <<0, 0, 0, 0>>[k] = 0
  OBVIOUS
<1>3. Code!NoWord.word = <<0, 0, 0, 0>>
  BY DEF Code!NoWord
<1>4. QED
  BY <1>1, <1>2, <1>3 DEF Remembers

LEMMA EncoderStarts ==
    ASSUME register = 0, made = Code!NoWord
    PROVE  /\ register \in 0 .. 127
           /\ made.past \in Seq(Digit) /\ Len(made.past) <= 7
           /\ Remembers(register, made.past)
           /\ Code!Polynomials
<1>1. made.past = <<>>
  BY DEF Code!NoWord
<1>2. <<>> \in Seq(Digit) /\ Len(<<>>) = 0 /\ 0 <= 7 /\ 0 \in 0 .. 127
  OBVIOUS
<1>3. ASSUME NEW k \in 1 .. 4
      PROVE  made.word[k] = Code!Parity([d \in Code!Delays[k] |-> Code!Encoded(d)])
  <2> DEFINE f == [d \in Code!Delays[k] |-> Code!Encoded(d)]
  <2>1. Code!Delays[k] \subseteq 0 .. 6
    BY MasksRead DEF Reads
  <2>2. \A d \in 0 .. 6 : ~ (d < 0)
    OBVIOUS
  <2>3. \A d \in 0 .. 6 : Code!Encoded(d) = 0
    BY <1>1, <1>2, <2>2 DEF Code!Encoded
  <2>4. {d \in DOMAIN f : f[d] = 1} = {}
    BY <2>1, <2>3
  <2>5. Cardinality({}) = 0 /\ 0 % 2 = 0
    BY FS_EmptySet
  <2>6. Code!Parity(f) = 0
    BY <2>4, <2>5 DEF Code!Parity, Code!Cardinality, Cardinality
  <2>7. made.word[k] = 0
    BY NothingRemembered
  <2>8. QED
    BY <2>6, <2>7
<1>4. QED
  BY <1>1, <1>2, <1>3, NothingRemembered DEF Code!Polynomials

LEMMA EncoderStep ==
    ASSUME EncoderInv, [Code!Next]_codeVars
    PROVE  EncoderInv'
<1>1. element' = element
  BY DEF Code!Next, Code!Ready, Code!vars, codeVars
<1> SUFFICES ASSUME element = "ConvEncoder"
             PROVE  EncoderInv'
  BY <1>1 DEF EncoderInv
<1>2. CASE Code!Encode
  <2> DEFINE p == made.past
             n == IF Len(p) < 6 THEN Len(p) + 1 ELSE 7
             r == register'
  <2>1. PICK bit \in Digit :
            /\ register' = Code!Remember(register, bit)
            /\ made' = [past |-> SubSeq(<<bit>> \o p, 1, n),
                        word |-> [k \in 1 .. 4 |-> WordMade(register', k)]]
    <3>1. (IF count < 8 * FrameBytes THEN {0, 1} ELSE {0}) \subseteq Digit
      BY DEF Digit
    <3>2. PICK bit \in IF count < 8 * FrameBytes THEN {0, 1} ELSE {0} :
            /\ register' = Code!Remember(register, bit)
            /\ made' = [past |-> SubSeq(<<bit>> \o made.past, 1,
                                        IF Len(made.past) < 6 THEN Len(made.past) + 1 ELSE 7),
                        word |-> [k \in 1 .. 4 |->
                            Code!Parity([b \in 0 .. 6 |-> Code!Bit(register', b)
                                                          * Code!Bit(Code!Masks[k], b)])]]
      BY <1>2 DEF Code!Encode
    <3>3. QED
      BY <3>1, <3>2 DEF WordMade
  <2> DEFINE q == SubSeq(<<bit>> \o p, 1, n)
  <2>2. register \in 0 .. 127 /\ p \in Seq(Digit) /\ Len(p) <= 7 /\ Remembers(register, p)
    BY DEF EncoderInv
  <2>3. /\ q \in Seq(Digit) /\ Len(q) <= 7
        /\ Late(q, 0) = bit
        /\ \A d \in 0 .. 5 : Late(q, d + 1) = Late(p, d)
    <3> HIDE DEF p
    <3>1. QED
      BY <2>2, PastOf
  <2>4. /\ made'.past = q
        /\ \A k \in 1 .. 4 : made'.word[k] = WordMade(r, k)
    BY <2>1
  <2> HIDE DEF p, q
  <2>5. r \in 0 .. 127
    BY <2>1, <2>2, RememberOf
  <2>6. Remembers(r, q)
    BY <2>1, <2>2, <2>3, RemembersNext
  <2>7. ASSUME NEW k \in 1 .. 4
        PROVE  made'.word[k] = Code!Parity([d \in Code!Delays[k] |-> Code!Encoded(d)'])
    <3>1. WordMade(r, k) = Code!Parity([d \in Code!Delays[k] |-> Late(q, d)])
      BY <2>3, <2>5, <2>6, WordOfPast
    <3>2. \A d : Code!Encoded(d)' = Late(q, d)
      BY <2>4 DEF Code!Encoded, Late
    <3>3. [d \in Code!Delays[k] |-> Code!Encoded(d)'] = [d \in Code!Delays[k] |-> Late(q, d)]
      BY <3>2
    <3>4. QED
      BY <2>4, <3>1, <3>3
  <2>8. Code!Polynomials'
    BY <2>7 DEF Code!Polynomials, Code!Delays
  <2>9. Remembers(register, made.past)'
    BY <2>4, <2>6 DEF Remembers, Code!Bit, Late
  <2>10. QED
    BY <2>3, <2>4, <2>5, <2>8, <2>9 DEF EncoderInv
<1>3. CASE Code!EncodeNext
  <2>1. register' = 0 /\ made' = Code!NoWord
    BY <1>3 DEF Code!EncodeNext
  <2>2. (register = 0 /\ made = Code!NoWord)' =>
           (/\ register \in 0 .. 127
            /\ made.past \in Seq(Digit) /\ Len(made.past) <= 7
            /\ Remembers(register, made.past)
            /\ Code!Polynomials)'
    BY EncoderStarts, PTL
  <2>3. QED
    BY <2>1, <2>2 DEF EncoderInv, Code!NoWord
<1>4. CASE UNCHANGED codeVars
  BY <1>4 DEF EncoderInv, codeVars, Code!Polynomials, Code!Encoded, Remembers, Code!Bit, Late
<1>5. Code!Next => Code!Encode \/ Code!EncodeNext \/ UNCHANGED codeVars
  BY DEF Code!Next, Code!Permute, Code!Interleave, Code!Disperse, Code!SetParameter,
         Code!Ready, Code!vars, codeVars
<1>6. QED
  BY <1>2, <1>3, <1>4, <1>5

(* The encoder's words are those of the standard's four polynomials, over  *)
(* the bits of the frame and zeros before it, for frames of any length.    *)
THEOREM EncodesByPolynomials == ModulatorSpec => []Code!Polynomials
<1>1. Code!Init => EncoderInv
  <2> SUFFICES ASSUME Code!Init, element = "ConvEncoder" PROVE EncoderInv
    BY DEF EncoderInv
  <2>1. register = 0 /\ made = Code!NoWord
    BY DEF Code!Init
  <2>2. QED
    BY <2>1, EncoderStarts DEF EncoderInv
<1>2. EncoderInv /\ [Code!Next]_codeVars => EncoderInv'
  BY EncoderStep
<1>3. EncoderInv => Code!Polynomials
  BY DEF EncoderInv, Code!Polynomials
<1>4. QED
  BY <1>1, <1>2, <1>3, CodeIsAlone, PTL

-----------------------------------------------------------------------------
(* src/TII.cpp.                                                            *)

Blocks == {-768, -384, 1, 385}

(* The index of a carrier is that of the other half of the spectrum.       *)
OtherHalf(k) == CASE k = -768 -> 1 [] k = -384 -> 385 [] k = 1 -> -768 [] k = 385 -> -384

LEMMA BlocksSwap == \A k \in Blocks : OtherHalf(k) \in Blocks /\ OtherHalf(OtherHalf(k)) = k
  BY DEF Blocks, OtherHalf

LEMMA FrequencyOf ==
    ASSUME mode = 1, NEW k \in Blocks, NEW x \in 0 .. 382
    PROVE  /\ Code!Frequency(Code!CarrierIndex(k + x)) = OtherHalf(k) + x
           /\ Code!Frequency(Code!CarrierIndex(k + x) + 1) = OtherHalf(k) + x + 1
<1>1. Code!Carriers = 1536 /\ Code!Num = 2048 /\ Code!Carriers \div 2 = 768 /\ Code!Num \div 2 = 1024
  <2>1. Code!Carriers = 1536 /\ Code!Num = 2048
    BY DEF Code!Carriers, Code!Num
  <2>2. 1536 \div 2 = 768 /\ 2048 \div 2 = 1024
    OBVIOUS
  <2>3. QED
    BY <2>1, <2>2
<1>2. \A v \in Int : Code!CarrierIndex(v) = 768 + v + (IF v >= 0 THEN -1 ELSE 0)
  BY <1>1 DEF Code!CarrierIndex
<1>3. \A i \in Int : Code!Bin(i) = IF i < 768 THEN i + 1 ELSE 2048 - 768 + (i - 768)
  BY <1>1 DEF Code!Bin
<1>4. \A i \in Int : Code!Frequency(i) = IF Code!Bin(i) <= 1024 THEN Code!Bin(i) ELSE Code!Bin(i) - 2048
  BY <1>1 DEF Code!Frequency
<1>5. \A i \in 0 .. 767 : Code!Frequency(i) = i + 1
  BY <1>3, <1>4
<1>6. \A i \in 768 .. 1535 : Code!Frequency(i) = i - 1536
  BY <1>3, <1>4
<1>7. CASE k = -768
  <2>1. k + x \in Int /\ ~ (k + x >= 0) /\ 768 + (k + x) + 0 = x /\ x \in 0 .. 767 /\ x + 1 \in 0 .. 767
    BY <1>7
  <2>2. Code!CarrierIndex(k + x) = x
    BY <1>2, <2>1
  <2>3. OtherHalf(k) = 1
    BY <1>7 DEF OtherHalf
  <2>4. QED
    BY <1>5, <2>1, <2>2, <2>3
<1>8. CASE k = -384
  <2>1. k + x \in Int /\ ~ (k + x >= 0) /\ 768 + (k + x) + 0 = 384 + x
        /\ 384 + x \in 0 .. 767 /\ 384 + x + 1 \in 0 .. 767
    BY <1>8
  <2>2. Code!CarrierIndex(k + x) = 384 + x
    BY <1>2, <2>1
  <2>3. OtherHalf(k) = 385
    BY <1>8 DEF OtherHalf
  <2>4. QED
    BY <1>5, <2>1, <2>2, <2>3
<1>9. CASE k = 1
  <2>1. k + x \in Int /\ k + x >= 0 /\ 768 + (k + x) + (-1) = 768 + x
        /\ 768 + x \in 768 .. 1535 /\ 768 + x + 1 \in 768 .. 1535
    BY <1>9
  <2>2. Code!CarrierIndex(k + x) = 768 + x
    BY <1>2, <2>1
  <2>3. OtherHalf(k) = -768
    BY <1>9 DEF OtherHalf
  <2>4. QED
    BY <1>6, <2>1, <2>2, <2>3
<1>10. CASE k = 385
  <2>1. k + x \in Int /\ k + x >= 0 /\ 768 + (k + x) + (-1) = 1152 + x
        /\ 1152 + x \in 768 .. 1535 /\ 1152 + x + 1 \in 768 .. 1535
    BY <1>10
  <2>2. Code!CarrierIndex(k + x) = 1152 + x
    BY <1>2, <2>1
  <2>3. OtherHalf(k) = -384
    BY <1>10 DEF OtherHalf
  <2>4. QED
    BY <1>6, <2>1, <2>2, <2>3
<1>11. QED
  BY <1>7, <1>8, <1>9, <1>10 DEF Blocks

(* What is set is valid, and the carriers are of what is set.              *)
TiiInv ==
    mode = 1 /\ element = "TII" =>
        /\ register \in [comb : 0 .. 23, pattern : 0 .. 69]
        /\ made = {Code!CarrierIndex(k) : k \in Code!Specified(register)}

Offset(conf, b) == 2 * conf.comb + 48 * b
InUseBy(conf) == {c \in 0 .. 7 : Code!InPattern(conf, c)}

LEMMA SpecifiedIs ==
    ASSUME mode = 1, NEW conf \in [comb : 0 .. 23, pattern : 0 .. 69]
    PROVE  /\ Code!Specified(conf) = {k + Offset(conf, b) : k \in Blocks, b \in InUseBy(conf)}
           /\ \A b \in InUseBy(conf) : Offset(conf, b) \in 0 .. 382
<1>1. \A k \in Blocks, b \in InUseBy(conf) : k + 2 * conf.comb + 48 * b = k + Offset(conf, b)
  <2>1. ASSUME NEW k \in Blocks, NEW b \in 0 .. 7
        PROVE  k + 2 * conf.comb + 48 * b = k + (2 * conf.comb + 48 * b)
    <3>1. k \in Int /\ conf.comb \in Int
      BY DEF Blocks
    <3>2. QED
      BY <3>1
  <2>2. QED
    BY <2>1 DEF Offset, InUseBy
<1>2. Code!Specified(conf) = {k + 2 * conf.comb + 48 * b : k \in Blocks, b \in InUseBy(conf)}
  BY DEF Code!Specified, Blocks, InUseBy
<1>3. ASSUME NEW b \in InUseBy(conf) PROVE Offset(conf, b) \in 0 .. 382
  <2>1. conf.comb \in 0 .. 23 /\ b \in 0 .. 7
    BY DEF InUseBy
  <2>2. QED
    BY <2>1 DEF Offset
<1>4. QED
  BY <1>1, <1>2, <1>3

LEMMA TiiOfInv ==
    ASSUME TiiInv, mode = 1
    PROVE  Code!TiiIsSpecified
<1> SUFFICES ASSUME element = "TII"
             PROVE  Code!TiiCarriers = Code!Specified(register)
                                       \cup {k + 1 : k \in Code!Specified(register)}
  BY DEF Code!TiiIsSpecified
<1> DEFINE S == Code!Specified(register)
           B == InUseBy(register)
           x(b) == Offset(register, b)
<1>1. register \in [comb : 0 .. 23, pattern : 0 .. 69] /\ made = {Code!CarrierIndex(k) : k \in S}
  BY DEF TiiInv
<1>2. S = {k + x(b) : k \in Blocks, b \in B} /\ \A b \in B : x(b) \in 0 .. 382
  BY <1>1, SpecifiedIs
<1> HIDE DEF S, B, x
<1>3. made = {Code!CarrierIndex(k + x(b)) : k \in Blocks, b \in B}
  BY <1>1, <1>2
<1>4. \A k \in Blocks, b \in B :
          /\ Code!Frequency(Code!CarrierIndex(k + x(b))) = OtherHalf(k) + x(b)
          /\ Code!Frequency(Code!CarrierIndex(k + x(b)) + 1) = OtherHalf(k) + x(b) + 1
  BY <1>2, FrequencyOf
<1>5. {Code!Frequency(i) : i \in made} = S
  <2>1. {Code!Frequency(i) : i \in made} = {OtherHalf(k) + x(b) : k \in Blocks, b \in B}
    BY <1>3, <1>4
  <2> DEFINE there == {OtherHalf(k) + x(b) : k \in Blocks, b \in B}
             here == {k + x(b) : k \in Blocks, b \in B}
  <2>2. ASSUME NEW k \in Blocks, NEW b \in B PROVE OtherHalf(k) + x(b) \in here
    BY BlocksSwap
  <2>3. ASSUME NEW k \in Blocks, NEW b \in B PROVE k + x(b) \in there
    <3>1. OtherHalf(k) \in Blocks /\ OtherHalf(OtherHalf(k)) = k
      BY BlocksSwap
    <3>2. OtherHalf(OtherHalf(k)) + x(b) \in there
      BY <3>1
    <3>3. QED
      BY <3>1, <3>2
  <2>4. ASSUME NEW v \in there PROVE v \in here
    BY <2>2
  <2>5. ASSUME NEW v \in here PROVE v \in there
    BY <2>3
  <2>6. S = here
    BY <1>2, SMT
  <2>7. {Code!Frequency(i) : i \in made} = there
    BY <2>1
  <2> HIDE DEF there, here
  <2>8. QED
    BY <2>4, <2>5, <2>6, <2>7
<1>6. {Code!Frequency(i + 1) : i \in made} = {k + 1 : k \in S}
  <2>1. {Code!Frequency(i + 1) : i \in made} = {OtherHalf(k) + x(b) + 1 : k \in Blocks, b \in B}
    BY <1>3, <1>4
  <2>2. {k + 1 : k \in S} = {k + x(b) + 1 : k \in Blocks, b \in B}
    BY <1>2
  <2> DEFINE there == {OtherHalf(k) + x(b) + 1 : k \in Blocks, b \in B}
             here == {k + x(b) + 1 : k \in Blocks, b \in B}
  <2>3. ASSUME NEW k \in Blocks, NEW b \in B PROVE OtherHalf(k) + x(b) + 1 \in here
    BY BlocksSwap
  <2>4. ASSUME NEW k \in Blocks, NEW b \in B PROVE k + x(b) + 1 \in there
    <3>1. OtherHalf(k) \in Blocks /\ OtherHalf(OtherHalf(k)) = k
      BY BlocksSwap
    <3>2. OtherHalf(OtherHalf(k)) + x(b) + 1 \in there
      BY <3>1
    <3>3. QED
      BY <3>1, <3>2
  <2>5. ASSUME NEW v \in there PROVE v \in here
    BY <2>3
  <2>6. ASSUME NEW v \in here PROVE v \in there
    BY <2>4
  <2>7. {k + 1 : k \in S} = here
    BY <2>2
  <2>8. {Code!Frequency(i + 1) : i \in made} = there
    BY <2>1
  <2> HIDE DEF there, here
  <2>9. QED
    BY <2>5, <2>6, <2>7, <2>8
<1>7. QED
  BY <1>5, <1>6 DEF Code!TiiCarriers, S

LEMMA TiiStep ==
    ASSUME TiiInv, [Code!Next]_codeVars
    PROVE  TiiInv'
<1>1. element' = element /\ mode' = mode
  BY DEF Code!Next, Code!Ready, Code!vars, codeVars
<1> SUFFICES ASSUME mode = 1, element = "TII"
             PROVE  TiiInv'
  BY <1>1 DEF TiiInv
<1>2. Code!Next => Code!SetParameter \/ UNCHANGED codeVars
  BY DEF Code!Next, Code!Permute, Code!Interleave, Code!Disperse, Code!Encode, Code!EncodeNext,
         Code!Ready, Code!vars, codeVars
<1>3. register \in [comb : 0 .. 23, pattern : 0 .. 69]
      /\ made = {Code!CarrierIndex(k) : k \in Code!Specified(register)}
  BY DEF TiiInv
<1>4. CASE Code!SetParameter
  <2>1. CASE UNCHANGED <<register, made>>
    BY <1>1, <1>3, <2>1 DEF TiiInv, Code!Specified, Code!CarrierIndex, Code!Carriers, Code!InPattern
  <2>2. ASSUME register' \in [comb : 0 .. 23, pattern : 0 .. 69], Code!PreparePattern(register')
        PROVE  TiiInv'
    BY <1>1, <2>2 DEF TiiInv, Code!PreparePattern, Code!Specified, Code!CarrierIndex, Code!Carriers,
                      Code!InPattern
  <2>3. ASSUME NEW pattern \in 0 .. 69, register' = [register EXCEPT !.pattern = pattern],
               Code!PreparePattern(register')
        PROVE  TiiInv'
    BY <1>3, <2>2, <2>3
  <2>4. ASSUME NEW comb \in 0 .. 23, register' = [register EXCEPT !.comb = comb],
               Code!PreparePattern(register')
        PROVE  TiiInv'
    BY <1>3, <2>2, <2>4
  <2>5. QED
    BY <1>4, <2>1, <2>3, <2>4 DEF Code!SetParameter
<1>5. CASE UNCHANGED codeVars
  BY <1>1, <1>3, <1>5 DEF codeVars, TiiInv, Code!Specified, Code!CarrierIndex, Code!Carriers,
                          Code!InPattern
<1>6. QED
  BY <1>2, <1>4, <1>5

(* In mode I the transmitter is identified by the pairs of carriers of the *)
(* comb and pattern that were set last, whichever these are, and no other. *)
THEOREM IdentifiesAsSet == ModulatorSpec => [](mode = 1 => Code!TiiIsSpecified)
<1>1. Code!Init => TiiInv
  <2> SUFFICES ASSUME Code!Init, mode = 1, element = "TII" PROVE TiiInv
    BY DEF TiiInv
  <2>1. register = Code!DefaultTii
        /\ made = {Code!CarrierIndex(k) : k \in Code!Specified(Code!DefaultTii)}
    BY DEF Code!Init
  <2>2. Code!DefaultTii \in [comb : 0 .. 23, pattern : 0 .. 69]
    BY DEF Code!DefaultTii
  <2>3. QED
    BY <2>1, <2>2 DEF TiiInv
<1>2. TiiInv /\ [Code!Next]_codeVars => TiiInv'
  BY TiiStep
<1>3. TiiInv => (mode = 1 => Code!TiiIsSpecified)
  BY TiiOfInv
<1>4. QED
  BY <1>1, <1>2, <1>3, CodeIsAlone, PTL

-----------------------------------------------------------------------------
(* src/FrequencyInterleaver.cpp: the generator of the permutation has its  *)
(* full period.  The numbers without the modulus: those p apart.           *)

Affine(y, n, p) ==
    \E u, v \in Nat : \A i \in Nat : i + p <= n => y[i + p] = (1 + 4 * p * u) * y[i] + p * (2 * v + 1)

Differ(y, n, m) ==
    \A i \in Nat, d \in 1 .. m - 1 : i + d <= n => ~ \E q \in Int : y[i + d] - y[i] = m * q

AffineOf(p, u, v, a, b) == b = (1 + 4 * p * u) * a + p * (2 * v + 1)

LEMMA TwiceApart ==
    ASSUME NEW p \in Nat, NEW u \in Nat, NEW v \in Nat, NEW a \in Int, NEW b \in Int, NEW c \in Int,
           AffineOf(p, u, v, a, b), AffineOf(p, u, v, b, c)
    PROVE  AffineOf(2 * p, u + 2 * p * u * u, v + p * u * (2 * v + 1), a, c)
<1> DEFINE w == p * u
           o == 2 * v + 1
<1>1. w \in Nat /\ o \in Nat /\ p * o \in Nat /\ 4 * p * u = 4 * w
  OBVIOUS
<1>2. b = a + 4 * (w * a) + p * o /\ c = b + 4 * (w * b) + p * o
  BY <1>1 DEF AffineOf
<1>3. w * b = w * a + 4 * (w * (w * a)) + w * (p * o)
  BY <1>1, <1>2
<1>4. c = a + 8 * (w * a) + 16 * (w * (w * a)) + 2 * (p * o) + 4 * (w * (p * o))
  BY <1>1, <1>2, <1>3
<1>5. (2 * p) * (u + 2 * p * u * u) = 2 * w + 4 * (w * w)
  OBVIOUS
<1>6. 4 * (2 * p) * (u + 2 * p * u * u) = 8 * w + 16 * (w * w)
  BY <1>1, <1>5
<1>7. (1 + 4 * (2 * p) * (u + 2 * p * u * u)) * a = a + 8 * (w * a) + 16 * (w * (w * a))
  BY <1>1, <1>6
<1>8. (2 * p) * (2 * (v + p * u * (2 * v + 1)) + 1) = 2 * (p * o) + 4 * (w * (p * o))
  OBVIOUS
<1>9. QED
  BY <1>4, <1>7, <1>8 DEF AffineOf

LEMMA Doubling ==
    ASSUME NEW n \in Nat, NEW y \in [0 .. n -> Nat], NEW p \in Nat, Affine(y, n, p)
    PROVE  Affine(y, n, 2 * p)
<1>1. PICK u \in Nat, v \in Nat :
        \A i \in Nat : i + p <= n => y[i + p] = (1 + 4 * p * u) * y[i] + p * (2 * v + 1)
  BY DEF Affine
<1> DEFINE u2 == u + 2 * p * u * u
           v2 == v + p * u * (2 * v + 1)
<1>2. u2 \in Nat /\ v2 \in Nat
  OBVIOUS
<1>3. ASSUME NEW i \in Nat, i + 2 * p <= n
      PROVE  y[i + 2 * p] = (1 + 4 * (2 * p) * u2) * y[i] + (2 * p) * (2 * v2 + 1)
  <2>1. i + p \in Nat /\ i + p <= n /\ (i + p) + p = i + 2 * p
    BY <1>3
  <2>2. y[i] \in Int /\ y[i + p] \in Int /\ y[i + 2 * p] \in Int
    <3>1. i \in 0 .. n /\ i + p \in 0 .. n /\ i + 2 * p \in 0 .. n
      BY <1>3, <2>1
    <3>2. QED
      BY <3>1
  <2>3. y[i + p] = (1 + 4 * p * u) * y[i] + p * (2 * v + 1)
    BY <1>1, <2>1
  <2>4. y[i + 2 * p] = (1 + 4 * p * u) * y[i + p] + p * (2 * v + 1)
    BY <1>1, <1>3, <2>1
  <2>5. AffineOf(p, u, v, y[i], y[i + p]) /\ AffineOf(p, u, v, y[i + p], y[i + 2 * p])
    BY <2>3, <2>4 DEF AffineOf
  <2>6. AffineOf(2 * p, u2, v2, y[i], y[i + 2 * p])
    BY ONLY <2>2, <2>5, TwiceApart, u \in Nat, v \in Nat, p \in Nat, Zenon DEF u2, v2
  <2>7. QED
    BY ONLY <2>6 DEF AffineOf
<1> HIDE DEF u2, v2
<1>4. QED
  BY <1>2, <1>3 DEF Affine

OddMultiple(p, z) == \E o \in Int : z = p * (2 * o + 1)

LEMMA OddApart ==
    ASSUME NEW p \in Nat, NEW u \in Nat, NEW v \in Nat, NEW a \in Int, NEW b \in Int,
           AffineOf(p, u, v, a, b)
    PROVE  OddMultiple(p, b - a)
<1> DEFINE o == 2 * (u * a) + v
<1>1. u * a \in Int
  OBVIOUS
<1>2. o \in Int
  BY <1>1
<1>3. p * (2 * o + 1) = 4 * (p * (u * a)) + p * (2 * v + 1)
  BY <1>1
<1>4. (1 + 4 * p * u) * a = a + 4 * (p * (u * a))
  OBVIOUS
<1>5. b = (1 + 4 * p * u) * a + p * (2 * v + 1)
  BY DEF AffineOf
<1>6. b - a = p * (2 * o + 1)
  BY <1>3, <1>4, <1>5
<1> HIDE DEF o
<1>7. QED
  BY <1>2, <1>6 DEF OddMultiple

LEMMA Between ==
    ASSUME NEW p \in Nat, NEW q \in Int, NEW o \in Int, NEW a \in Int, NEW b \in Int, NEW c \in Int,
           c - a = (2 * p) * q, c - b = p * (2 * o + 1)
    PROVE  b - a = p * (2 * q - (2 * o + 1))
<1>1. p * (2 * q - (2 * o + 1)) = (2 * p) * q - p * (2 * o + 1)
  OBVIOUS
<1>2. b - a = (c - a) - (c - b)
  OBVIOUS
<1>3. QED
  BY <1>1, <1>2

LEMMA Differing ==
    ASSUME NEW n \in Nat, NEW y \in [0 .. n -> Nat], NEW p \in Nat \ {0}, Affine(y, n, p), Differ(y, n, p)
    PROVE  Differ(y, n, 2 * p)
<1> SUFFICES ASSUME NEW i \in Nat, NEW d \in 1 .. 2 * p - 1, i + d <= n, NEW q \in Int,
                    y[i + d] - y[i] = (2 * p) * q
             PROVE  FALSE
  BY DEF Differ
<1>1. PICK u \in Nat, v \in Nat :
        \A k \in Nat : k + p <= n => y[k + p] = (1 + 4 * p * u) * y[k] + p * (2 * v + 1)
  BY DEF Affine
<1>2. \A k \in 0 .. n : y[k] \in Int
  OBVIOUS
<1>3. \A k \in Nat : k + p <= n => OddMultiple(p, y[k + p] - y[k])
  <2> SUFFICES ASSUME NEW k \in Nat, k + p <= n
               PROVE  OddMultiple(p, y[k + p] - y[k])
    OBVIOUS
  <2>1. y[k] \in Int /\ y[k + p] \in Int
    <3>1. k \in 0 .. n /\ k + p \in 0 .. n
      OBVIOUS
    <3>2. QED
      BY <1>2, <3>1
  <2>2. y[k + p] = (1 + 4 * p * u) * y[k] + p * (2 * v + 1)
    BY <1>1
  <2>3. AffineOf(p, u, v, y[k], y[k + p])
    BY <2>2 DEF AffineOf
  <2>4. QED
    BY <2>1, <2>3, OddApart
<1>4. CASE d < p
  <2>1. d \in 1 .. p - 1 /\ 2 * q \in Int /\ y[i + d] - y[i] = p * (2 * q)
    BY <1>4
  <2>2. QED
    BY <2>1 DEF Differ
<1>5. CASE d = p
  <2>1. PICK o \in Int : y[i + p] - y[i] = p * (2 * o + 1)
    BY <1>3, <1>5 DEF OddMultiple
  <2>2. p * (2 * o + 1) = p * (2 * q)
    <3>1. y[i + p] - y[i] = (2 * p) * q
      BY <1>5
    <3>2. (2 * p) * q = p * (2 * q)
      OBVIOUS
    <3>3. QED
      BY <2>1, <3>1, <3>2
  <2>3. 2 * o + 1 = 2 * q
    BY <2>2
  <2>4. QED
    BY <2>3
<1>6. CASE d > p
  <2> DEFINE e == d - p
  <2>1. e \in 1 .. p - 1 /\ i + e \in Nat /\ (i + e) + p = i + d /\ i + e <= n /\ i \in 0 .. n
        /\ i + e \in 0 .. n /\ i + d \in 0 .. n
    BY <1>6
  <2> HIDE DEF e
  <2>2. PICK o \in Int : y[i + d] - y[i + e] = p * (2 * o + 1)
    BY <1>3, <2>1 DEF OddMultiple
  <2>3. y[i] \in Int /\ y[i + e] \in Int /\ y[i + d] \in Int
    BY <1>2, <2>1
  <2>4. y[i + e] - y[i] = p * (2 * q - (2 * o + 1))
    BY <2>2, <2>3, Between, SMTT(60)
  <2>5. 2 * q - (2 * o + 1) \in Int
    OBVIOUS
  <2>6. QED
    BY <2>1, <2>4, <2>5 DEF Differ
<1>7. d < p \/ d = p \/ d > p
  OBVIOUS
<1>8. QED
  BY <1>4, <1>5, <1>6, <1>7

Sizes == {<<2048, 1536, 511>>, <<512, 384, 127>>, <<256, 192, 63>>, <<1024, 768, 255>>}

LEMMA SizesOfMode == <<Code!Num, Code!Carriers, Code!Beta>> \in Sizes
<1>1. /\ mode = 1 => Code!Num = 2048 /\ Code!Carriers = 1536
      /\ mode # 1 /\ mode = 2 => Code!Num = 512 /\ Code!Carriers = 384
      /\ mode # 1 /\ mode # 2 /\ mode = 3 => Code!Num = 256 /\ Code!Carriers = 192
      /\ mode # 1 /\ mode # 2 /\ mode # 3 => Code!Num = 1024 /\ Code!Carriers = 768
  BY DEF Code!Num, Code!Carriers
<1>2. (2048 \div 4) - 1 = 511 /\ (512 \div 4) - 1 = 127 /\ (256 \div 4) - 1 = 63 /\ (1024 \div 4) - 1 = 255
  OBVIOUS
<1>3. Code!Beta = (Code!Num \div 4) - 1
  BY DEF Code!Beta
<1>4. QED
  BY <1>1, <1>2, <1>3 DEF Sizes

Orbit(y, n) == y[0] = 0 /\ \A i \in Nat : i + 1 <= n => y[i + 1] = 13 * y[i] + Code!Beta

LEMMA FullPeriod ==
    ASSUME NEW n \in Nat, NEW y \in [0 .. n -> Nat], Orbit(y, n)
    PROVE  Differ(y, n, Code!Num)
<1>1. PICK v \in Nat : Code!Beta = 2 * v + 1
  <2>1. 511 = 2 * 255 + 1 /\ 127 = 2 * 63 + 1 /\ 63 = 2 * 31 + 1 /\ 255 = 2 * 127 + 1
    OBVIOUS
  <2>2. Code!Beta \in {511, 127, 63, 255}
    BY SizesOfMode DEF Sizes
  <2>3. PICK v \in {255, 63, 31, 127} : Code!Beta = 2 * v + 1
    BY <2>1, <2>2
  <2>4. v \in Nat
    OBVIOUS
  <2>5. QED
    BY <2>3, <2>4
<1>2. Affine(y, n, 1)
  <2>1. 3 \in Nat /\ v \in Nat /\ 1 + 4 * 1 * 3 = 13 /\ 1 * (2 * v + 1) = 2 * v + 1
    OBVIOUS
  <2>2. \A i \in Nat : i + 1 <= n => y[i + 1] = (1 + 4 * 1 * 3) * y[i] + 1 * (2 * v + 1)
    BY <1>1, <2>1 DEF Orbit
  <2>3. QED
    BY <2>2 DEF Affine
<1>3. Differ(y, n, 1)
  BY DEF Differ
<1>4. Affine(y, n, 2) /\ Differ(y, n, 2)
  <2>1. 1 \in Nat \ {0} /\ 2 * 1 = 2
    OBVIOUS
  <2>2. QED
    BY <1>2, <1>3, <2>1, Doubling, Differing
<1>5. Affine(y, n, 4) /\ Differ(y, n, 4)
  <2>1. 2 \in Nat \ {0} /\ 2 * 2 = 4
    OBVIOUS
  <2>2. QED
    BY <1>4, <2>1, Doubling, Differing
<1>6. Affine(y, n, 8) /\ Differ(y, n, 8)
  <2>1. 4 \in Nat \ {0} /\ 2 * 4 = 8
    OBVIOUS
  <2>2. QED
    BY <1>5, <2>1, Doubling, Differing
<1>7. Affine(y, n, 16) /\ Differ(y, n, 16)
  <2>1. 8 \in Nat \ {0} /\ 2 * 8 = 16
    OBVIOUS
  <2>2. QED
    BY <1>6, <2>1, Doubling, Differing
<1>8. Affine(y, n, 32) /\ Differ(y, n, 32)
  <2>1. 16 \in Nat \ {0} /\ 2 * 16 = 32
    OBVIOUS
  <2>2. QED
    BY <1>7, <2>1, Doubling, Differing
<1>9. Affine(y, n, 64) /\ Differ(y, n, 64)
  <2>1. 32 \in Nat \ {0} /\ 2 * 32 = 64
    OBVIOUS
  <2>2. QED
    BY <1>8, <2>1, Doubling, Differing
<1>10. Affine(y, n, 128) /\ Differ(y, n, 128)
  <2>1. 64 \in Nat \ {0} /\ 2 * 64 = 128
    OBVIOUS
  <2>2. QED
    BY <1>9, <2>1, Doubling, Differing
<1>11. Affine(y, n, 256) /\ Differ(y, n, 256)
  <2>1. 128 \in Nat \ {0} /\ 2 * 128 = 256
    OBVIOUS
  <2>2. QED
    BY <1>10, <2>1, Doubling, Differing
<1>12. Affine(y, n, 512) /\ Differ(y, n, 512)
  <2>1. 256 \in Nat \ {0} /\ 2 * 256 = 512
    OBVIOUS
  <2>2. QED
    BY <1>11, <2>1, Doubling, Differing
<1>13. Affine(y, n, 1024) /\ Differ(y, n, 1024)
  <2>1. 512 \in Nat \ {0} /\ 2 * 512 = 1024
    OBVIOUS
  <2>2. QED
    BY <1>12, <2>1, Doubling, Differing
<1>14. Affine(y, n, 2048) /\ Differ(y, n, 2048)
  <2>1. 1024 \in Nat \ {0} /\ 2 * 1024 = 2048
    OBVIOUS
  <2>2. QED
    BY <1>13, <2>1, Doubling, Differing
<1>15. QED
  BY <1>11, <1>12, <1>13, <1>14, SizesOfMode DEF Sizes

(* The indices are those of the carriers of the band, each once.           *)
InTheBand == {p \in 0 .. Code!Num - 1 : Code!InBand(p)}

LEMMA BandOf ==
    /\ \A p \in InTheBand : /\ p > 0 /\ Code!IndexOf(p) \in 0 .. Code!Carriers - 1
                            /\ Code!Frequency(Code!IndexOf(p)) = p - Code!Num \div 2
    /\ \A k \in 0 .. Code!Carriers - 1 : \E p \in InTheBand : Code!IndexOf(p) = k
    /\ Code!Num \in Nat /\ Code!Carriers \in Nat /\ Code!Num > 0 /\ Code!Carriers > 0
<1>1. PICK h \in {128, 256, 512, 1024}, c \in {96, 192, 384, 768} :
        /\ c < h /\ Code!Num = 2 * h /\ Code!Carriers = 2 * c
        /\ Code!Num \div 2 = h /\ Code!Carriers \div 2 = c /\ (Code!Num - Code!Carriers) \div 2 = h - c
  <2>1. /\ 2048 = 2 * 1024 /\ 1536 = 2 * 768 /\ 2048 \div 2 = 1024 /\ 1536 \div 2 = 768
        /\ (2048 - 1536) \div 2 = 1024 - 768 /\ 768 < 1024
    OBVIOUS
  <2>2. /\ 512 = 2 * 256 /\ 384 = 2 * 192 /\ 512 \div 2 = 256 /\ 384 \div 2 = 192
        /\ (512 - 384) \div 2 = 256 - 192 /\ 192 < 256
    OBVIOUS
  <2>3. /\ 256 = 2 * 128 /\ 192 = 2 * 96 /\ 256 \div 2 = 128 /\ 192 \div 2 = 96
        /\ (256 - 192) \div 2 = 128 - 96 /\ 96 < 128
    OBVIOUS
  <2>4. /\ 1024 = 2 * 512 /\ 768 = 2 * 384 /\ 1024 \div 2 = 512 /\ 768 \div 2 = 384
        /\ (1024 - 768) \div 2 = 512 - 384 /\ 384 < 512
    OBVIOUS
  <2>5. CASE Code!Num = 2048 /\ Code!Carriers = 1536
    BY <2>1, <2>5
  <2>6. CASE Code!Num = 512 /\ Code!Carriers = 384
    BY <2>2, <2>6
  <2>7. CASE Code!Num = 256 /\ Code!Carriers = 192
    BY <2>3, <2>7
  <2>8. CASE Code!Num = 1024 /\ Code!Carriers = 768
    BY <2>4, <2>8
  <2>9. QED
    BY <2>5, <2>6, <2>7, <2>8, SizesOfMode DEF Sizes
<1>2. h \in Nat /\ c \in Nat /\ 0 < c /\ c < h
  BY <1>1
<1>3. \A p \in Int : Code!InBand(p) <=> p >= h - c /\ p <= 2 * h - (h - c) /\ p # h
  BY <1>1 DEF Code!InBand
<1>4. \A p \in Int : Code!IndexOf(p) = IF p > h THEN p - (1 + h) ELSE p + 2 * c - h
  BY <1>1 DEF Code!IndexOf
<1>5. \A i \in Int : Code!Bin(i) = IF i < c THEN i + 1 ELSE 2 * h - c + (i - c)
  BY <1>1 DEF Code!Bin
<1>6. \A i \in Int : Code!Frequency(i) = IF Code!Bin(i) <= h THEN Code!Bin(i) ELSE Code!Bin(i) - 2 * h
  BY <1>1 DEF Code!Frequency
<1>7. ASSUME NEW p \in InTheBand
      PROVE  p > 0 /\ Code!IndexOf(p) \in 0 .. 2 * c - 1 /\ Code!Frequency(Code!IndexOf(p)) = p - h
  <2>1. p \in Int /\ p >= h - c /\ p <= 2 * h - (h - c) /\ p # h
    BY <1>1, <1>2, <1>3 DEF InTheBand
  <2>2. CASE p > h
    <3>1. Code!IndexOf(p) = p - (1 + h) /\ p - (1 + h) \in Int /\ p - (1 + h) < c
          /\ p - (1 + h) >= 0
      BY <1>2, <1>4, <2>1, <2>2
    <3>2. Code!Bin(p - (1 + h)) = p - h /\ p - h <= h
      BY <1>2, <1>5, <2>1, <3>1
    <3>3. Code!Frequency(p - (1 + h)) = p - h
      BY <1>6, <3>1, <3>2
    <3>4. QED
      BY <1>2, <2>1, <3>1, <3>3
  <2>3. CASE p < h
    <3>1. Code!IndexOf(p) = p + 2 * c - h /\ p + 2 * c - h \in Int /\ p + 2 * c - h >= c
          /\ p + 2 * c - h < 2 * c
      BY <1>2, <1>4, <2>1, <2>3
    <3>2. Code!Bin(p + 2 * c - h) = h + p /\ h + p > h
      BY <1>2, <1>5, <2>1, <3>1
    <3>3. Code!Frequency(p + 2 * c - h) = p - h
      BY <1>2, <1>6, <2>1, <3>1, <3>2
    <3>4. QED
      BY <1>2, <2>1, <3>1, <3>3
  <2>4. p > h \/ p < h
    BY <1>2, <2>1
  <2>5. QED
    BY <2>2, <2>3, <2>4
<1>8. ASSUME NEW k \in 0 .. 2 * c - 1 PROVE \E p \in InTheBand : Code!IndexOf(p) = k
  <2>1. CASE k < c
    <3>1. k + 1 + h \in 0 .. 2 * h - 1 /\ k + 1 + h \in Int /\ k + 1 + h > h
          /\ k + 1 + h <= 2 * h - (h - c) /\ (k + 1 + h) - (1 + h) = k
      BY <1>2, <2>1
    <3>2. k + 1 + h \in InTheBand
      BY <1>1, <1>2, <1>3, <3>1 DEF InTheBand
    <3>3. Code!IndexOf(k + 1 + h) = k
      BY <1>4, <3>1
    <3>4. QED
      BY <3>2, <3>3
  <2>2. CASE k >= c
    <3>1. k - 2 * c + h \in 0 .. 2 * h - 1 /\ k - 2 * c + h \in Int /\ k - 2 * c + h < h
          /\ k - 2 * c + h >= h - c /\ (k - 2 * c + h) + 2 * c - h = k
      BY <1>2, <2>2
    <3>2. k - 2 * c + h \in InTheBand
      BY <1>1, <1>2, <1>3, <3>1 DEF InTheBand
    <3>3. Code!IndexOf(k - 2 * c + h) = k
      BY <1>2, <1>4, <3>1
    <3>4. QED
      BY <3>2, <3>3
  <2>3. k < c \/ k >= c
    BY <1>2
  <2>4. QED
    BY <2>1, <2>2, <2>3
<1>9. QED
  BY <1>1, <1>2, <1>7, <1>8

(* The values the generator has had, each of which is another one.         *)
Visited(x, n) ==
    /\ x \in [0 .. n -> 0 .. Code!Num - 1] /\ x[0] = 0
    /\ \E y \in [0 .. n -> Nat] : Orbit(y, n) /\ \A i \in 0 .. n : x[i] = y[i] % Code!Num

LEMMA EqualRests ==
    ASSUME NEW a \in Nat, NEW b \in Nat, a % Code!Num = b % Code!Num
    PROVE  \E q \in Int : b - a = Code!Num * q
<1> DEFINE m == Code!Num
<1>1. m = 2048 \/ m = 512 \/ m = 256 \/ m = 1024
  BY SizesOfMode DEF Sizes
<1>2. CASE m = 2048
  <2>1. (b \div 2048) - (a \div 2048) \in Int /\ b - a = 2048 * ((b \div 2048) - (a \div 2048))
    BY <1>2
  <2> DEFINE q == (b \div 2048) - (a \div 2048)
  <2>2. q \in Int /\ b - a = 2048 * q
    BY <2>1
  <2> HIDE DEF q
  <2>3. m * q = 2048 * q
    BY <1>2
  <2>4. QED
    BY <2>2, <2>3 DEF m
<1>3. CASE m = 512
  <2>1. (b \div 512) - (a \div 512) \in Int /\ b - a = 512 * ((b \div 512) - (a \div 512))
    BY <1>3
  <2> DEFINE q == (b \div 512) - (a \div 512)
  <2>2. q \in Int /\ b - a = 512 * q
    BY <2>1
  <2> HIDE DEF q
  <2>3. m * q = 512 * q
    BY <1>3
  <2>4. QED
    BY <2>2, <2>3 DEF m
<1>4. CASE m = 256
  <2>1. (b \div 256) - (a \div 256) \in Int /\ b - a = 256 * ((b \div 256) - (a \div 256))
    BY <1>4
  <2> DEFINE q == (b \div 256) - (a \div 256)
  <2>2. q \in Int /\ b - a = 256 * q
    BY <2>1
  <2> HIDE DEF q
  <2>3. m * q = 256 * q
    BY <1>4
  <2>4. QED
    BY <2>2, <2>3 DEF m
<1>5. CASE m = 1024
  <2>1. (b \div 1024) - (a \div 1024) \in Int /\ b - a = 1024 * ((b \div 1024) - (a \div 1024))
    BY <1>5
  <2> DEFINE q == (b \div 1024) - (a \div 1024)
  <2>2. q \in Int /\ b - a = 1024 * q
    BY <2>1
  <2> HIDE DEF q
  <2>3. m * q = 1024 * q
    BY <1>5
  <2>4. QED
    BY <2>2, <2>3 DEF m
<1>6. QED
  BY <1>1, <1>2, <1>3, <1>4, <1>5

LEMMA VisitedOnce ==
    ASSUME NEW n \in Nat, n < Code!Num, NEW x, Visited(x, n)
    PROVE  \A i, j \in 0 .. n : x[i] = x[j] => i = j
<1>1. PICK y \in [0 .. n -> Nat] : Orbit(y, n) /\ \A i \in 0 .. n : x[i] = y[i] % Code!Num
  BY DEF Visited
<1>2. Differ(y, n, Code!Num)
  BY <1>1, FullPeriod
<1>3. Code!Num \in Nat
  BY BandOf
<1>4. ASSUME NEW i \in 0 .. n, NEW j \in 0 .. n, i < j, x[i] = x[j] PROVE FALSE
  <2> DEFINE d == j - i
  <2>1. i \in Nat /\ d \in 1 .. Code!Num - 1 /\ i + d = j /\ i + d <= n
    BY <1>3, <1>4
  <2> HIDE DEF d
  <2>2. ~ \E q \in Int : y[i + d] - y[i] = Code!Num * q
    BY <1>2, <2>1 DEF Differ
  <2>3. y[i] \in Nat /\ y[j] \in Nat /\ y[i] % Code!Num = y[j] % Code!Num
    BY <1>1, <1>4
  <2>4. \E q \in Int : y[j] - y[i] = Code!Num * q
    BY <2>3, EqualRests
  <2>5. QED
    BY <2>1, <2>2, <2>4
<1>5. \A i, j \in 0 .. n : i < j \/ j < i \/ i = j
  OBVIOUS
<1>6. QED
  BY <1>4, <1>5

LEMMA RestOfNext ==
    ASSUME NEW a \in Nat
    PROVE  (13 * (a % Code!Num) + Code!Beta) % Code!Num = (13 * a + Code!Beta) % Code!Num
<1>1. CASE Code!Num = 2048 /\ Code!Beta = 511
  <2>1. (13 * (a % 2048) + 511) % 2048 = (13 * a + 511) % 2048
    OBVIOUS
  <2>2. QED
    BY <1>1, <2>1
<1>2. CASE Code!Num = 512 /\ Code!Beta = 127
  <2>1. (13 * (a % 512) + 127) % 512 = (13 * a + 127) % 512
    OBVIOUS
  <2>2. QED
    BY <1>2, <2>1
<1>3. CASE Code!Num = 256 /\ Code!Beta = 63
  <2>1. (13 * (a % 256) + 63) % 256 = (13 * a + 63) % 256
    OBVIOUS
  <2>2. QED
    BY <1>3, <2>1
<1>4. CASE Code!Num = 1024 /\ Code!Beta = 255
  <2>1. (13 * (a % 1024) + 255) % 1024 = (13 * a + 255) % 1024
    OBVIOUS
  <2>2. QED
    BY <1>4, <2>1
<1>5. QED
  BY <1>1, <1>2, <1>3, <1>4, SizesOfMode DEF Sizes

NextValue(r) == (Code!Alpha * r + Code!Beta) % Code!Num

LEMMA NextIsValue ==
    ASSUME NEW a \in Nat
    PROVE  /\ 13 * a + Code!Beta \in Nat
           /\ (13 * a + Code!Beta) % Code!Num \in 0 .. Code!Num - 1
           /\ NextValue(a % Code!Num) = (13 * a + Code!Beta) % Code!Num
<1>1. Code!Beta \in Nat /\ Code!Num \in Nat /\ Code!Num > 0
  BY SizesOfMode DEF Sizes
<1>2. 13 * a + Code!Beta \in Nat
  BY <1>1
<1>3. \A z \in Nat : z % Code!Num \in 0 .. Code!Num - 1
  BY <1>1
<1>4. QED
  BY <1>2, <1>3, RestOfNext DEF NextValue, Code!Alpha

LEMMA VisitedNext ==
    ASSUME NEW n \in Nat, NEW x, Visited(x, n), NEW z,
           z = [i \in 0 .. n + 1 |-> IF i = n + 1 THEN NextValue(x[n]) ELSE x[i]]
    PROVE  Visited(z, n + 1)
<1>1. PICK y \in [0 .. n -> Nat] : Orbit(y, n) /\ \A i \in 0 .. n : x[i] = y[i] % Code!Num
  BY DEF Visited
<1> DEFINE w == [i \in 0 .. n + 1 |-> IF i = n + 1 THEN 13 * y[n] + Code!Beta ELSE y[i]]
<1>2. /\ n + 1 \in 0 .. n + 1 /\ n \in 0 .. n /\ ~ (0 = n + 1) /\ 0 \in 0 .. n + 1
      /\ \A i \in 0 .. n + 1 : i = n + 1 \/ i \in 0 .. n
      /\ \A i \in 0 .. n : i # n + 1 /\ i \in 0 .. n + 1
  OBVIOUS
<1>3. y[n] \in Nat /\ x[n] = y[n] % Code!Num
  BY <1>1, <1>2
<1>4. /\ 13 * y[n] + Code!Beta \in Nat
      /\ NextValue(x[n]) = (13 * y[n] + Code!Beta) % Code!Num /\ NextValue(x[n]) \in 0 .. Code!Num - 1
  BY <1>3, NextIsValue
<1>5. w \in [0 .. n + 1 -> Nat]
  BY <1>2, <1>4
<1>6. /\ w[n + 1] = 13 * y[n] + Code!Beta /\ \A i \in 0 .. n : w[i] = y[i]
      /\ z[n + 1] = NextValue(x[n]) /\ \A i \in 0 .. n : z[i] = x[i]
  BY <1>2
<1> HIDE DEF w
<1>7. Orbit(w, n + 1)
  <2>1. w[0] = 0
    <3>1. 0 \in 0 .. n
      OBVIOUS
    <3>2. QED
      BY <1>1, <1>6, <3>1 DEF Orbit
  <2>2. ASSUME NEW i \in Nat, i + 1 <= n + 1 PROVE w[i + 1] = 13 * w[i] + Code!Beta
    <3>1. CASE i = n
      BY <1>2, <1>6, <3>1
    <3>2. CASE i # n
      <4>1. i \in 0 .. n /\ i + 1 \in 0 .. n /\ i + 1 <= n
        BY <2>2, <3>2
      <4>2. y[i + 1] = 13 * y[i] + Code!Beta
        BY <1>1, <4>1 DEF Orbit
      <4>3. QED
        BY <1>6, <4>1, <4>2
    <3>3. QED
      BY <3>1, <3>2
  <2>3. QED
    BY <2>1, <2>2 DEF Orbit
<1>8. \A i \in 0 .. n + 1 : z[i] = w[i] % Code!Num
  BY <1>1, <1>2, <1>4, <1>6
<1>9. z \in [0 .. n + 1 -> 0 .. Code!Num - 1] /\ z[0] = 0
  <2>1. x \in [0 .. n -> 0 .. Code!Num - 1] /\ x[0] = 0 /\ 0 \in 0 .. n
    BY DEF Visited
  <2>2. \A i \in 0 .. n + 1 : z[i] \in 0 .. Code!Num - 1
    BY <1>2, <1>4, <1>6, <2>1
  <2>3. QED
    BY <1>6, <2>1, <2>2
<1>10. QED
  BY <1>5, <1>7, <1>8, <1>9 DEF Visited

LEMMA VisitedFirst == Visited([i \in 0 .. 0 |-> 0], 0)
<1> DEFINE o == [i \in 0 .. 0 |-> 0]
<1>1. Code!Num \in Nat /\ Code!Num > 0 /\ 0 \in 0 .. Code!Num - 1
  BY BandOf
<1>2. 0 .. 0 = {0}
  OBVIOUS
<1>3. 0 % Code!Num = 0
  <2>1. 0 % 2048 = 0 /\ 0 % 512 = 0 /\ 0 % 256 = 0 /\ 0 % 1024 = 0
    OBVIOUS
  <2>2. Code!Num \in {2048, 512, 256, 1024}
    BY SizesOfMode DEF Sizes
  <2>3. QED
    BY <2>1, <2>2
<1>4. o \in [0 .. 0 -> Nat] /\ o \in [0 .. 0 -> 0 .. Code!Num - 1] /\ o[0] = 0
  BY <1>1, <1>2
<1>5. Orbit(o, 0)
  BY <1>4 DEF Orbit
<1>6. \A i \in 0 .. 0 : o[i] = o[i] % Code!Num
  BY <1>2, <1>3, <1>4
<1>7. QED
  BY <1>4, <1>5, <1>6 DEF Visited

(* The indices made of them: each once.                                    *)
Carried(x, n, s) ==
    /\ s \in Seq(0 .. Code!Carriers - 1)
    /\ \A k \in DOMAIN s : \E i \in 0 .. n : x[i] \in InTheBand /\ s[k] = Code!IndexOf(x[i])
    /\ \A i \in 0 .. n : x[i] \in InTheBand => \E k \in DOMAIN s : s[k] = Code!IndexOf(x[i])
    /\ \A j, k \in DOMAIN s : s[j] = s[k] => j = k
    /\ n > 0 /\ x[n] \in InTheBand => Len(s) > 0 /\ s[Len(s)] = Code!IndexOf(x[n])

LEMMA IndexOnce ==
    ASSUME NEW p \in InTheBand, NEW q \in InTheBand, Code!IndexOf(p) = Code!IndexOf(q)
    PROVE  p = q
<1>1. p - Code!Num \div 2 = q - Code!Num \div 2
  BY BandOf
<1>2. Code!Num \div 2 \in Int /\ p \in Int /\ q \in Int
  <2>1. Code!Num \div 2 \in Int
    <3>1. Code!Num \in Nat
      BY BandOf
    <3>2. QED
      BY <3>1
  <2>2. QED
    BY <2>1, BandOf DEF InTheBand
<1>3. QED
  BY <1>1, <1>2

LEMMA AppendOf ==
    ASSUME NEW S, NEW s \in Seq(S), NEW e \in S
    PROVE  /\ Append(s, e) \in Seq(S) /\ Len(Append(s, e)) = Len(s) + 1 /\ Len(s) \in Nat
           /\ DOMAIN s = 1 .. Len(s) /\ DOMAIN Append(s, e) = 1 .. Len(s) + 1
           /\ Append(s, e)[Len(s) + 1] = e
           /\ \A k \in 1 .. Len(s) : Append(s, e)[k] = s[k]
<1>1. Append(s, e) \in Seq(S) /\ Len(Append(s, e)) = Len(s) + 1 /\ Len(s) \in Nat
  OBVIOUS
<1>2. DOMAIN s = 1 .. Len(s)
  OBVIOUS
<1>3. DOMAIN Append(s, e) = 1 .. Len(s) + 1
  BY <1>1
<1>4. Append(s, e)[Len(s) + 1] = e
  OBVIOUS
<1>5. \A k \in 1 .. Len(s) : Append(s, e)[k] = s[k]
  OBVIOUS
<1>6. QED
  BY <1>1, <1>2, <1>3, <1>4, <1>5

LEMMA CarriedNext ==
    ASSUME NEW n \in Nat, n + 1 < Code!Num, NEW x, NEW z, Visited(z, n + 1),
           \A i \in 0 .. n : z[i] = x[i], NEW s, Carried(x, n, s), NEW t,
           t = IF z[n + 1] \in InTheBand THEN Append(s, Code!IndexOf(z[n + 1])) ELSE s
    PROVE  Carried(z, n + 1, t)
<1>1. /\ \A i \in 0 .. n + 1 : i = n + 1 \/ i \in 0 .. n
      /\ \A i \in 0 .. n : i # n + 1 /\ i \in 0 .. n + 1
      /\ n + 1 \in 0 .. n + 1 /\ n + 1 > 0 /\ n + 1 \in Nat
  OBVIOUS
<1>2. /\ s \in Seq(0 .. Code!Carriers - 1)
      /\ \A k \in DOMAIN s : \E i \in 0 .. n : z[i] \in InTheBand /\ s[k] = Code!IndexOf(z[i])
      /\ \A i \in 0 .. n : z[i] \in InTheBand => \E k \in DOMAIN s : s[k] = Code!IndexOf(z[i])
      /\ \A j, k \in DOMAIN s : s[j] = s[k] => j = k
  BY ONLY Carried(x, n, s), \A i \in 0 .. n : z[i] = x[i], SMTT(30) DEF Carried
<1>3. CASE z[n + 1] \notin InTheBand
  <2>1. t = s
    BY <1>3
  <2>2. \A k \in DOMAIN s : \E i \in 0 .. n + 1 : z[i] \in InTheBand /\ s[k] = Code!IndexOf(z[i])
    BY <1>1, <1>2
  <2>3. \A i \in 0 .. n + 1 : z[i] \in InTheBand => \E k \in DOMAIN s : s[k] = Code!IndexOf(z[i])
    BY <1>1, <1>2, <1>3
  <2>4. QED
    BY <1>2, <1>3, <2>1, <2>2, <2>3 DEF Carried
<1>4. CASE z[n + 1] \in InTheBand
  <2> DEFINE e == Code!IndexOf(z[n + 1])
             l == Len(s)
  <2>1. e \in 0 .. Code!Carriers - 1
    BY <1>4, BandOf
  <2>2. /\ t \in Seq(0 .. Code!Carriers - 1) /\ Len(t) = l + 1 /\ l \in Nat
        /\ DOMAIN s = 1 .. l /\ DOMAIN t = 1 .. l + 1 /\ t[l + 1] = e
        /\ \A k \in 1 .. l : t[k] = s[k]
    <3>1. t = Append(s, e)
      BY <1>4
    <3> HIDE DEF e
    <3> DEFINE S == 0 .. Code!Carriers - 1
    <3>2. s \in Seq(S) /\ e \in S
      BY <1>2, <2>1
    <3> HIDE DEF S
    <3>3. /\ Append(s, e) \in Seq(S) /\ Len(Append(s, e)) = Len(s) + 1 /\ Len(s) \in Nat
          /\ DOMAIN s = 1 .. Len(s) /\ DOMAIN Append(s, e) = 1 .. Len(s) + 1
          /\ Append(s, e)[Len(s) + 1] = e
          /\ \A k \in 1 .. Len(s) : Append(s, e)[k] = s[k]
      BY <3>2, AppendOf
    <3>4. QED
      BY <3>1, <3>3, Zenon DEF S, l
  <2> HIDE DEF l
  <2>3. /\ \A k \in 1 .. l + 1 : k = l + 1 \/ k \in 1 .. l
        /\ \A k \in 1 .. l : k \in 1 .. l + 1
        /\ l + 1 \in 1 .. l + 1 /\ l + 1 > 0
    BY <2>2
  <2>4. ASSUME NEW k \in 1 .. l PROVE s[k] # e
    <3>1. PICK i \in 0 .. n : z[i] \in InTheBand /\ s[k] = Code!IndexOf(z[i])
      BY <1>2, <2>2
    <3>2. z[i] # z[n + 1]
      BY <1>1, VisitedOnce
    <3>3. QED
      BY <1>4, <3>1, <3>2, IndexOnce
  <2>5. \A k \in DOMAIN t : \E i \in 0 .. n + 1 : z[i] \in InTheBand /\ t[k] = Code!IndexOf(z[i])
    <3>1. ASSUME NEW k \in 1 .. l
          PROVE  \E i \in 0 .. n + 1 : z[i] \in InTheBand /\ t[k] = Code!IndexOf(z[i])
      <4>1. PICK i \in 0 .. n : z[i] \in InTheBand /\ s[k] = Code!IndexOf(z[i])
        BY <1>2, <2>2
      <4>2. i \in 0 .. n + 1 /\ t[k] = s[k]
        BY <1>1, <2>2
      <4>3. QED
        BY <4>1, <4>2
    <3>2. \E i \in 0 .. n + 1 : z[i] \in InTheBand /\ t[l + 1] = Code!IndexOf(z[i])
      BY <1>1, <1>4, <2>2
    <3>3. QED
      BY <2>2, <2>3, <3>1, <3>2
  <2>6. \A i \in 0 .. n + 1 : z[i] \in InTheBand => \E k \in DOMAIN t : t[k] = Code!IndexOf(z[i])
    <3>1. ASSUME NEW i \in 0 .. n, z[i] \in InTheBand PROVE \E k \in DOMAIN t : t[k] = Code!IndexOf(z[i])
      <4>1. PICK k \in DOMAIN s : s[k] = Code!IndexOf(z[i])
        BY <1>2, <3>1
      <4>2. k \in DOMAIN t /\ t[k] = s[k]
        BY <2>2, <2>3
      <4>3. QED
        BY <4>1, <4>2
    <3>2. \E k \in DOMAIN t : t[k] = Code!IndexOf(z[n + 1])
      BY <2>2, <2>3
    <3>3. QED
      BY <1>1, <3>1, <3>2
  <2>7. ASSUME NEW j \in DOMAIN t, NEW k \in DOMAIN t, t[j] = t[k] PROVE j = k
    <3>1. CASE j \in 1 .. l /\ k \in 1 .. l
      BY <1>2, <2>2, <2>7, <3>1
    <3>2. CASE j \in 1 .. l /\ k = l + 1
      BY <2>2, <2>4, <2>7, <3>2
    <3>3. CASE j = l + 1 /\ k \in 1 .. l
      BY <2>2, <2>4, <2>7, <3>3
    <3>4. QED
      BY <2>2, <2>3, <3>1, <3>2, <3>3
  <2>8. QED
    BY <2>2, <2>3, <2>5, <2>6, <2>7 DEF Carried
<1>5. QED
  BY <1>3, <1>4

LEMMA AllCarried ==
    ASSUME NEW n, n = Code!Num - 1, NEW x, Visited(x, n), NEW s, Carried(x, n, s)
    PROVE  Len(s) = Code!Carriers /\ {s[k] : k \in DOMAIN s} = 0 .. Code!Carriers - 1
<1> DEFINE V == 0 .. n
           C == 0 .. Code!Carriers - 1
<1>1. Code!Num \in Nat /\ Code!Num > 0 /\ Code!Carriers \in Nat /\ Code!Carriers > 0
      /\ n \in Nat /\ n < Code!Num /\ Code!Num - 1 = n
  BY BandOf
<1>2. x \in [V -> V]
  BY <1>1 DEF Visited
<1>3. \A i, j \in V : x[i] = x[j] => i = j
  BY <1>1, VisitedOnce
<1>4. x \in Surjection(V, V)
  <2>1. IsFiniteSet(V)
    BY <1>1, FS_Interval
  <2>2. x \in Injection(V, V)
    BY <1>2, <1>3 DEF Injection, IsInjective
  <2> HIDE DEF V
  <2>3. QED
    BY <2>1, <2>2, FS_Injection
<1>5. \A v \in V : \E i \in V : x[i] = v
  BY <1>4 DEF Surjection
<1>6. s \in Seq(C) /\ DOMAIN s = 1 .. Len(s) /\ Len(s) \in Nat
  BY DEF Carried
<1>7. ASSUME NEW c \in C PROVE \E k \in DOMAIN s : s[k] = c
  <2>1. PICK p \in InTheBand : Code!IndexOf(p) = c
    BY BandOf
  <2>2. p \in V
    BY <1>1 DEF InTheBand
  <2>3. PICK i \in V : x[i] = p
    BY <1>5, <2>2
  <2>4. QED
    BY <2>1, <2>3 DEF Carried
<1>8. \A k \in DOMAIN s : s[k] \in C
  BY <1>6, ElementOf
<1>9. {s[k] : k \in DOMAIN s} = C
  BY <1>7, <1>8
<1>10. s \in Bijection(1 .. Len(s), C)
  <2>1. s \in [1 .. Len(s) -> C]
    <3> HIDE DEF C
    <3>1. QED
      BY <1>6, LenProperties
  <2>2. \A j, k \in DOMAIN s : s[j] = s[k] => j = k
    BY DEF Carried
  <2>3. QED
    BY <1>6, <1>7, <2>1, <2>2 DEF Bijection, Injection, Surjection, IsInjective
<1>11. Cardinality(C) = Len(s)
  <2>1. ExistsBijection(1 .. Len(s), C)
    BY <1>10 DEF ExistsBijection
  <2> HIDE DEF C
  <2>2. QED
    BY <1>6, <2>1, FS_CountingElements
<1>12. Cardinality(C) = Code!Carriers
  <2>1. 0 \in Int /\ Code!Carriers - 1 \in Int /\ ~ (0 > Code!Carriers - 1)
        /\ (Code!Carriers - 1) - 0 + 1 = Code!Carriers
    BY <1>1
  <2>2. QED
    BY <2>1, FS_Interval
<1>13. QED
  BY <1>9, <1>11, <1>12

PermutationInv ==
    element = "FrequencyInterleaver" =>
        /\ count \in Nat /\ count < Code!Num
        /\ \E x : Visited(x, count) /\ register = x[count] /\ Carried(x, count, made)

LEMMA InBandIs == \A p \in 0 .. Code!Num - 1 : Code!InBand(p) <=> p \in InTheBand
  BY DEF InTheBand

LEMMA CarriedFirst == Carried([i \in 0 .. 0 |-> 0], 0, <<>>)
<1> DEFINE o == [i \in 0 .. 0 |-> 0]
<1>1. 0 .. 0 = {0} /\ DOMAIN <<>> = {} /\ <<>> \in Seq(0 .. Code!Carriers - 1) /\ ~ (0 > 0)
  OBVIOUS
<1>2. 0 \notin InTheBand
  BY BandOf
<1>3. \A i \in 0 .. 0 : o[i] \notin InTheBand
  BY <1>1, <1>2
<1>4. QED
  BY <1>1, <1>3 DEF Carried

LEMMA PermutationStep ==
    ASSUME PermutationInv, [Code!Next]_codeVars
    PROVE  PermutationInv'
<1>1. element' = element /\ mode' = mode
  BY DEF Code!Next, Code!Ready, Code!vars, codeVars
<1>2. /\ Code!Num' = Code!Num /\ Code!Carriers' = Code!Carriers /\ Code!Beta' = Code!Beta
      /\ InTheBand' = InTheBand
  BY <1>1 DEF Code!Num, Code!Carriers, Code!Beta, InTheBand, Code!InBand
<1>3. \A p : Code!IndexOf(p)' = Code!IndexOf(p)
  BY <1>1 DEF Code!IndexOf, Code!Num, Code!Carriers
<1> SUFFICES ASSUME element = "FrequencyInterleaver"
             PROVE  PermutationInv'
  BY <1>1 DEF PermutationInv
<1>4. PICK x : Visited(x, count) /\ register = x[count] /\ Carried(x, count, made)
  BY DEF PermutationInv
<1>5. count \in Nat /\ count < Code!Num /\ Code!Num \in Nat
  BY BandOf DEF PermutationInv
<1>6. CASE Code!Permute
  <2>1. /\ count < Code!Num - 1 /\ count' = count + 1
        /\ register' = NextValue(register)
        /\ made' = IF Code!InBand(register') THEN Append(made, Code!IndexOf(register')) ELSE made
    BY <1>6 DEF Code!Permute, NextValue
  <2>2. PICK z : z = [i \in 0 .. count + 1 |-> IF i = count + 1 THEN NextValue(x[count]) ELSE x[i]]
    OBVIOUS
  <2>3. Visited(z, count + 1)
    BY <1>4, <1>5, <2>2, VisitedNext
  <2>4. z[count + 1] = NextValue(x[count]) /\ \A i \in 0 .. count : z[i] = x[i]
    BY <1>5, <2>2
  <2>5. register' = z[count + 1]
    BY <1>4, <2>1, <2>4
  <2>6. z[count + 1] \in 0 .. Code!Num - 1
    <3>1. count + 1 \in 0 .. count + 1
      BY <1>5
    <3>2. QED
      BY <2>3, <3>1 DEF Visited
  <2>7. made' = IF z[count + 1] \in InTheBand THEN Append(made, Code!IndexOf(z[count + 1])) ELSE made
    BY <2>1, <2>5, <2>6, InBandIs
  <2>8. count + 1 < Code!Num /\ count + 1 \in Nat
    BY <1>5, <2>1
  <2>9. Carried(z, count + 1, made')
    BY <1>4, <1>5, <2>3, <2>4, <2>7, <2>8, CarriedNext
  <2>10. (Visited(z, count))' <=> Visited(z, count')
    BY <1>2 DEF Visited, Orbit
  <2>11. (Carried(z, count, made))' <=> Carried(z, count', made')
    BY <1>2, <1>3 DEF Carried
  <2>12. QED
    BY <1>2, <2>1, <2>3, <2>5, <2>8, <2>9, <2>10, <2>11 DEF PermutationInv
<1>7. CASE UNCHANGED codeVars
  <2>1. count' = count /\ register' = register /\ made' = made
    BY <1>7 DEF codeVars
  <2>2. (Visited(x, count))' <=> Visited(x, count)
    BY <1>2, <2>1 DEF Visited, Orbit
  <2>3. (Carried(x, count, made))' <=> Carried(x, count, made)
    BY <1>2, <1>3, <2>1 DEF Carried
  <2>4. QED
    BY <1>2, <1>4, <1>5, <2>1, <2>2, <2>3 DEF PermutationInv
<1>8. Code!Next => Code!Permute \/ UNCHANGED codeVars
  BY DEF Code!Next, Code!SetParameter, Code!Interleave, Code!Disperse, Code!Encode, Code!EncodeNext,
         Code!Ready, Code!vars, codeVars
<1>9. QED
  BY <1>6, <1>7, <1>8

LEMMA CarriersOfInv ==
    ASSUME PermutationInv
    PROVE  Code!EachCarrierOnce
<1> SUFFICES ASSUME element = "FrequencyInterleaver"
             PROVE  Code!EachCarrierOnce
  BY DEF Code!EachCarrierOnce
<1>1. PICK x : Visited(x, count) /\ register = x[count] /\ Carried(x, count, made)
  BY DEF PermutationInv
<1>2. count \in Nat /\ count < Code!Num
  BY DEF PermutationInv
<1>3. register \in 0 .. Code!Num - 1
  BY <1>1, <1>2 DEF Visited
<1>4. ASSUME count > 0, Code!InBand(register)
      PROVE  Code!Frequency(made[Len(made)]) = register - Code!Num \div 2
  <2>1. register \in InTheBand
    BY <1>3, <1>4, InBandIs
  <2>2. made[Len(made)] = Code!IndexOf(register)
    BY <1>1, <1>4, <2>1 DEF Carried
  <2>3. QED
    BY <2>1, <2>2, BandOf
<1>5. ASSUME count = Code!Num - 1
      PROVE  Len(made) = Code!Carriers /\ {made[i] : i \in DOMAIN made} = 0 .. Code!Carriers - 1
  BY <1>1, <1>5, AllCarried
<1>6. QED
  BY <1>4, <1>5 DEF Code!EachCarrierOnce

LEMMA EachOnceAlways == ModulatorSpec => []Code!EachCarrierOnce
<1>1. Code!Init => PermutationInv
  <2> SUFFICES ASSUME Code!Init, element = "FrequencyInterleaver" PROVE PermutationInv
    BY DEF PermutationInv
  <2>1. count = 0 /\ register = 0 /\ made = <<>>
    BY DEF Code!Init
  <2> DEFINE o == [i \in 0 .. 0 |-> 0]
  <2>2. Visited(o, 0) /\ Carried(o, 0, <<>>) /\ o[0] = 0
    BY VisitedFirst, CarriedFirst
  <2>3. 0 \in Nat /\ 0 < Code!Num
    BY BandOf
  <2> HIDE DEF o
  <2>4. QED
    BY <2>1, <2>2, <2>3 DEF PermutationInv
<1>2. PermutationInv /\ [Code!Next]_codeVars => PermutationInv'
  BY PermutationStep
<1>3. PermutationInv => Code!EachCarrierOnce
  BY CarriersOfInv
<1>4. QED
  BY <1>1, <1>2, <1>3, CodeIsAlone, PTL

(* The elements do to bits and carriers what the standard says: to frames  *)
(* of any length, any number of them, and with any setting of the TII.     *)
THEOREM AlwaysAsTheStandard == ModulatorSpec => []AsTheStandard
<1>1. Code!EachBitItsDelay /\ Code!EachCarrierOnce /\ Code!Recurrence /\ Code!Polynomials
      /\ (mode = 1 => Code!TiiIsSpecified) => AsTheStandard
  BY DEF AsTheStandard, Code!AsTheStandard
<1>2. QED
  BY <1>1, InterleavesInTime, EachOnceAlways, DispersesByPolynomial, EncodesByPolynomials,
     IdentifiesAsSet, PTL

-----------------------------------------------------------------------------
(* src/DabModulator.cpp: how long a frame is from the guard intervals on.  *)

(* In bytes: with its guard intervals, at the rate and in the format of    *)
(* the output.                                                             *)
Guarded == (Modulator!T.nullSize + Modulator!T.nbSymbols * Modulator!T.symSize) * Modulator!OfdmSize
Resampled == (Guarded * settings.rate[1]) \div settings.rate[2]
Unconverted == Modulator!Format(settings) = ""
Reformatted == (Resampled \div 8) * Modulator!FormatSize(Modulator!Format(settings))
Converted == IF Unconverted THEN Resampled ELSE Reformatted

(* What the elements get and make.                                         *)
BehindGuard == {"cifFilter", "cifRes", "cifPoly", "formatConverter", "output"}
FromGuard == BehindGuard \cup {"cifGuard"}

Gets(name) == IF name \in {"cifFilter", "cifRes"} THEN Guarded
              ELSE IF name \in {"cifPoly", "formatConverter"} THEN Resampled ELSE Converted
Makes(name) == IF name \in {"cifGuard", "cifFilter"} THEN Guarded
               ELSE IF name \in {"cifRes", "cifPoly"} THEN Resampled
               ELSE IF name = "formatConverter" THEN Reformatted
               ELSE IF name = "output" THEN Converted ELSE -1

(* The settings of a flowgraph that is built.                              *)
Sized == /\ settings.dabMode \in 1 .. 4
         /\ settings.rate \in (Nat \ {0}) \X (Nat \ {0})
         /\ (49152 * settings.rate[1]) % settings.rate[2] = 0
         /\ Modulator!FixedPoint => settings.rate = <<1, 1>>

LEMMA ExactQuotient ==
    ASSUME NEW a \in Nat, NEW b \in Nat, b # 0
    PROVE  (a * b) \div b = a
<1> DEFINE d == (a * b) \div b
           m == (a * b) % b
<1>1. a * b \in Nat
  OBVIOUS
<1>2. d \in Int /\ m \in 0 .. b - 1 /\ a * b = b * d + m
  BY <1>1
<1> HIDE DEF d, m
<1>3. b * (a - d) = m
  BY <1>2
<1>4. CASE a - d >= 1
  <2>1. b * (a - d) >= b
    BY <1>2, <1>4
  <2>2. QED
    BY <1>2, <1>3, <2>1
<1>5. CASE a - d <= -1
  <2>1. b * (a - d) < 0
    BY <1>2, <1>5
  <2>2. QED
    BY <1>2, <1>3, <2>1
<1>6. QED
  BY <1>2, <1>4, <1>5 DEF d

(* 24 ms of 2048000 Hz are 49152 samples.                                  *)
LEMMA GuardedLasts ==
    ASSUME Sized
    PROVE  /\ Cifs \in {1, 2, 4} /\ Modulator!OfdmSize \in {4, 8}
           /\ Guarded = (Cifs * 49152) * Modulator!OfdmSize
<1>1. Modulator!OfdmSize \in {4, 8}
  BY DEF Modulator!OfdmSize
<1> DEFINE t == Modulator!T
<1>2. t.cifCount \in {1, 2, 4} /\ t.nullSize + t.nbSymbols * t.symSize = t.cifCount * 49152
  <2>1. settings.dabMode = 1 \/ settings.dabMode = 2 \/ settings.dabMode = 3 \/ settings.dabMode = 4
    BY DEF Sized
  <2>2. CASE settings.dabMode = 1
    <3>1. t.cifCount = 4 /\ t.nullSize = 2656 /\ t.nbSymbols = 76 /\ t.symSize = 2552
      BY <2>2 DEF Modulator!T, Modulator!Mode
    <3>2. QED
      BY <3>1
  <2>3. CASE settings.dabMode = 2
    <3>1. t.cifCount = 1 /\ t.nullSize = 664 /\ t.nbSymbols = 76 /\ t.symSize = 638
      BY <2>3 DEF Modulator!T, Modulator!Mode
    <3>2. QED
      BY <3>1
  <2>4. CASE settings.dabMode = 3
    <3>1. t.cifCount = 1 /\ t.nullSize = 345 /\ t.nbSymbols = 153 /\ t.symSize = 319
      BY <2>4 DEF Modulator!T, Modulator!Mode
    <3>2. QED
      BY <3>1
  <2>5. CASE settings.dabMode = 4
    <3>1. t.cifCount = 2 /\ t.nullSize = 1328 /\ t.nbSymbols = 76 /\ t.symSize = 1276
      BY <2>5 DEF Modulator!T, Modulator!Mode
    <3>2. QED
      BY <3>1
  <2>6. QED
    BY <2>1, <2>2, <2>3, <2>4, <2>5
<1>3. QED
  BY <1>1, <1>2 DEF Guarded, Cifs

(* The size of the samples that reach the output.                          *)
SizeSent == IF Unconverted THEN Modulator!OfdmSize
            ELSE Modulator!FormatSize(Modulator!Format(settings))

LEMMA FormatKnown ==
    /\ Modulator!FormatSize(Modulator!Format(settings)) \in {2, 4}
    /\ ~Unconverted => Modulator!OfdmSize = 8
    /\ Unconverted /\ settings.fftEngine # "kiss" => Modulator!OfdmSize = 8
  BY DEF Modulator!FormatSize, Modulator!Format, Modulator!OfdmSize, Unconverted

(* As many samples, of as many bytes: the products are linear in q * t.    *)
LEMMA Products ==
    ASSUME NEW c \in {1, 2, 4}, NEW z \in {2, 4, 8},
           NEW r \in Nat, NEW q \in Nat, NEW t \in Nat, 49152 * r = q * t
    PROVE  /\ ((c * 49152) * z) * r = ((c * z) * q) * t
           /\ t * ((c * z) * q) = r * c * 49152 * z
           /\ (c * z) * q = (c * q) * z
<1>0. r \in Nat /\ q \in Nat /\ t \in Nat /\ 49152 * r = q * t
  OBVIOUS
<1>1. CASE c = 1 /\ z = 2
  BY ONLY <1>0, <1>1
<1>2. CASE c = 1 /\ z = 4
  BY ONLY <1>0, <1>2
<1>3. CASE c = 1 /\ z = 8
  BY ONLY <1>0, <1>3
<1>4. CASE c = 2 /\ z = 2
  BY ONLY <1>0, <1>4
<1>5. CASE c = 2 /\ z = 4
  BY ONLY <1>0, <1>5
<1>6. CASE c = 2 /\ z = 8
  BY ONLY <1>0, <1>6
<1>7. CASE c = 4 /\ z = 2
  BY ONLY <1>0, <1>7
<1>8. CASE c = 4 /\ z = 4
  BY ONLY <1>0, <1>8
<1>9. CASE c = 4 /\ z = 8
  BY ONLY <1>0, <1>9
<1>10. QED
  BY <1>1, <1>2, <1>3, <1>4, <1>5, <1>6, <1>7, <1>8, <1>9

LEMMA Positive ==
    ASSUME NEW c \in {1, 2, 4}, NEW z \in {2, 4, 8}, NEW q \in Nat \ {0}
    PROVE  /\ (c * z) * q \in Nat /\ (c * z) * q # 0 /\ c * q \in Nat
           /\ (c * 49152) * z \in Nat /\ (c * 49152) * z # 0
<1>1. c * z \in {2, 4, 8, 16, 32} /\ c * 49152 \in {49152, 98304, 196608}
  OBVIOUS
<1>2. QED
  BY <1>1

LEMMA LengthsAre ==
    ASSUME Sized
    PROVE  /\ Guarded \in Nat \ {0} /\ Resampled \in Nat \ {0} /\ Converted \in Nat \ {0}
           /\ settings.rate = <<1, 1>> => Resampled = Guarded
           /\ Unconverted => Converted = Resampled
           /\ settings.rate[2] * Converted = settings.rate[1] * Cifs * 49152 * SizeSent
<1> DEFINE r1 == settings.rate[1]
           r2 == settings.rate[2]
           o == Modulator!OfdmSize
           c == Cifs
           q == (49152 * r1) \div r2
           s == Modulator!FormatSize(Modulator!Format(settings))
<1>1. /\ c \in {1, 2, 4} /\ o \in {2, 4, 8} /\ Guarded = (c * 49152) * o /\ s \in {2, 4, 8}
      /\ ~Unconverted => o = 8
  <2>1. c \in {1, 2, 4} /\ o \in {4, 8} /\ Guarded = (c * 49152) * o
    BY GuardedLasts
  <2>2. s \in {2, 4} /\ (~Unconverted => o = 8)
    BY FormatKnown
  <2> HIDE DEF o, c, s
  <2>3. QED
    BY <2>1, <2>2
<1>2. r1 \in Nat \ {0} /\ r2 \in Nat \ {0} /\ (49152 * r1) % r2 = 0
  BY DEF Sized
<1> HIDE DEF o, c, r1, r2, s
<1>3. q \in Nat \ {0} /\ 49152 * r1 = q * r2
  <2> DEFINE a == 49152 * r1
             d == a \div r2
  <2>1. a \in Nat \ {0} /\ a % r2 = 0
    BY <1>2
  <2> HIDE DEF a
  <2>2. a = (r2 * d) + (a % r2) /\ d \in Nat
    BY <1>2, <2>1
  <2> HIDE DEF d
  <2>3. a = r2 * d
    <3>1. r2 * d \in Nat
      BY ONLY <1>2, <2>2
    <3> DEFINE e == r2 * d
    <3> HIDE DEF e
    <3>2. e \in Nat /\ a = e + 0
      BY <2>1, <2>2, <3>1 DEF e
    <3>3. QED
      BY <3>2 DEF e
  <2>4. d # 0
    BY ONLY <1>2, <2>1, <2>2, <2>3
  <2>5. r2 * d = d * r2
    BY ONLY <1>2, <2>2
  <2>6. QED
    BY <2>2, <2>3, <2>4, <2>5 DEF a, d
<1> HIDE DEF q
<1>4. /\ ((c * 49152) * o) * r1 = ((c * o) * q) * r2
      /\ r2 * ((c * o) * q) = r1 * c * 49152 * o
      /\ (c * o) * q = (c * q) * o
      /\ r2 * ((c * s) * q) = r1 * c * 49152 * s
      /\ (c * s) * q = (c * q) * s
  <2>1. r1 \in Nat /\ r2 \in Nat /\ q \in Nat
    BY ONLY <1>2, <1>3
  <2>2. QED
    BY ONLY <1>1, <1>3, <2>1, Products
<1>5. /\ (c * o) * q \in Nat /\ (c * o) * q # 0 /\ (c * s) * q \in Nat /\ (c * s) * q # 0
      /\ c * q \in Nat /\ (c * 49152) * o \in Nat /\ (c * 49152) * o # 0
  BY ONLY <1>1, <1>3, Positive
<1>6. Resampled = (c * o) * q
  <2>1. r2 \in Nat /\ r2 # 0
    BY ONLY <1>2
  <2> DEFINE k == (c * o) * q
  <2>2. Guarded * r1 = k * r2 /\ k \in Nat
    BY <1>1, <1>4, <1>5
  <2> HIDE DEF k
  <2>3. (k * r2) \div r2 = k
    BY ONLY <2>1, <2>2, ExactQuotient
  <2>4. (Guarded * r1) \div r2 = k
    BY <2>2, <2>3
  <2>5. QED
    BY <2>4 DEF Resampled, r1, r2, k
<1>7. Guarded \in Nat \ {0} /\ Resampled \in Nat \ {0}
  BY <1>1, <1>5, <1>6
<1>8. settings.rate = <<1, 1>> => Resampled = Guarded
  <2>1. \A x \in Nat : (x * 1) \div 1 = x
    OBVIOUS
  <2>2. QED
    BY <1>7, <2>1 DEF Resampled
<1>9. CASE Unconverted
  <2>1. Converted = Resampled /\ SizeSent = o
    BY <1>9 DEF Converted, SizeSent, o
  <2>2. r2 * Converted = r1 * c * 49152 * SizeSent
    BY <1>4, <1>6, <2>1
  <2>3. QED
    BY <1>7, <1>8, <2>1, <2>2 DEF r1, r2, c
<1>10. CASE ~Unconverted
  <2>1. o = 8
    BY <1>1, <1>10
  <2>2. Resampled \div 8 = c * q
    <3> DEFINE k == c * q
    <3>1. Resampled = k * 8 /\ k \in Nat
      BY <1>4, <1>5, <1>6, <2>1
    <3> HIDE DEF k
    <3>2. Resampled \div 8 = k
      BY <3>1
    <3>3. QED
      BY <3>2 DEF k
  <2>3. Converted = (c * q) * s /\ SizeSent = s
    BY <1>10, <2>2 DEF Converted, Reformatted, SizeSent, s
  <2>4. Converted = (c * s) * q
    BY <1>4, <2>3
  <2>5. Converted \in Nat \ {0} /\ r2 * Converted = r1 * c * 49152 * SizeSent
    BY <1>4, <1>5, <2>3, <2>4
  <2>6. QED
    BY <1>7, <1>8, <1>10, <2>5 DEF r1, r2, c
<1>11. QED
  BY <1>9, <1>10

(* Elements one behind the other, each named once, of names in U; the last *)
(* one makes l, and behind the guard intervals each gets what is made.     *)
Line(s, U, l) ==
    /\ s \in Seq(Behind) /\ Len(s) >= 1 /\ s[1] = <<"cifSig", 0>> /\ Once(s)
    /\ \A j \in DOMAIN s : s[j] \in U \X {0}
    /\ Makes(s[Len(s)][1]) = l
    /\ \A j \in 2 .. Len(s) : s[j][1] \in BehindGuard => Makes(s[j - 1][1]) = Gets(s[j][1])

LEMMA LineGrows ==
    ASSUME NEW s, NEW U, NEW l, Line(s, U, l), NEW x \in OfSamples, x \notin U,
           x \in BehindGuard => l = Gets(x), NEW V, \A u \in U : u \in V, x \in V
    PROVE  Line(s \o << <<x, 0>> >>, V, Makes(x))
<1> DEFINE n == <<x, 0>>
           one == <<n>>
           t == s \o one
           L == Len(s)
<1>1. n \in Behind /\ n[1] = x
  BY DEF Behind
<1>2. one \in Seq(Behind) /\ Len(one) = 1 /\ one[1] = n
  BY <1>1
<1>3. /\ s \in Seq(Behind) /\ Len(s) >= 1 /\ s[1] = <<"cifSig", 0>> /\ Once(s)
      /\ \A j \in DOMAIN s : s[j] \in U \X {0}
      /\ Makes(s[Len(s)][1]) = l
      /\ \A j \in 2 .. Len(s) : s[j][1] \in BehindGuard => Makes(s[j - 1][1]) = Gets(s[j][1])
  BY DEF Line
<1>4. L \in Nat /\ L >= 1 /\ DOMAIN s = 1 .. L
  BY <1>3
<1>5. /\ t \in Seq(Behind) /\ Len(t) = L + 1
      /\ \A i \in 1 .. L : t[i] = s[i]
      /\ t[L + 1] = n
  <2>1. /\ t \in Seq(Behind) /\ Len(t) = Len(s) + Len(one)
        /\ \A i \in 1 .. Len(s) : t[i] = s[i]
        /\ \A i \in Len(s) + 1 .. Len(s) + Len(one) : t[i] = one[i - Len(s)]
    <3>1. s \in Seq(Behind) /\ one \in Seq(Behind)
      BY <1>2, <1>3
    <3> HIDE DEF one
    <3>2. QED
      BY <3>1, JoinOf
  <2> HIDE DEF one, t
  <2>2. L + 1 \in Len(s) + 1 .. Len(s) + Len(one) /\ (L + 1) - Len(s) = 1
    BY <1>2, <1>4
  <2>3. t[L + 1] = one[1]
    BY <2>1, <2>2
  <2>4. QED
    BY <1>2, <2>1, <2>3
<1> HIDE DEF one, t, n, L
<1>6. DOMAIN t = 1 .. L + 1 /\ \A j \in 1 .. L + 1 : j \in 1 .. L \/ j = L + 1
  BY <1>4, <1>5
<1>7. \A j \in 1 .. L : s[j] # n
  BY <1>3, <1>4 DEF n
<1>8. Once(t)
  BY <1>3, <1>4, <1>5, <1>6, <1>7 DEF Once
<1>9. \A j \in DOMAIN t : t[j] \in V \X {0}
  <2>1. n \in V \X {0}
    BY DEF n
  <2>2. \A j \in 1 .. L : t[j] \in V \X {0}
    BY <1>3, <1>4, <1>5
  <2>3. QED
    BY <1>5, <1>6, <2>1, <2>2
<1>10. ASSUME NEW j \in 2 .. L + 1, t[j][1] \in BehindGuard PROVE Makes(t[j - 1][1]) = Gets(t[j][1])
  <2>1. CASE j = L + 1
    <3>1. t[j] = n /\ t[j - 1] = s[L] /\ L = Len(s)
      BY <1>4, <1>5, <2>1 DEF L
    <3>2. QED
      BY <1>1, <1>3, <1>10, <3>1
  <2>2. CASE j \in 2 .. L
    <3>1. t[j] = s[j] /\ t[j - 1] = s[j - 1] /\ j \in 2 .. Len(s)
      BY <1>4, <1>5, <2>2 DEF L
    <3>2. QED
      BY <1>3, <1>10, <3>1
  <2>3. QED
    BY <1>4, <2>1, <2>2
<1>11. Len(t) >= 1 /\ t[1] = <<"cifSig", 0>> /\ t[Len(t)] = n
  BY <1>3, <1>4, <1>5
<1>12. Line(t, V, Makes(x))
  BY <1>1, <1>5, <1>8, <1>9, <1>10, <1>11 DEF Line
<1>13. QED
  BY <1>12 DEF t, one, n

(* The element may be there or not.                                        *)
LEMMA LineMayGrow ==
    ASSUME NEW s, NEW U, NEW l, Line(s, U, l), NEW x \in OfSamples, x \notin U,
           NEW V, \A u \in U : u \in V, x \in V, NEW P, NEW m,
           P => (x \in BehindGuard => l = Gets(x)) /\ m = Makes(x), ~P => m = l
    PROVE  Line(s \o (IF P THEN << <<x, 0>> >> ELSE << >>), V, m)
<1>1. CASE P
  <2>1. Line(s \o << <<x, 0>> >>, V, Makes(x))
    BY <1>1, LineGrows
  <2>2. QED
    BY <1>1, <2>1
<1>2. CASE ~P
  <2>1. s \in Seq(Behind)
    BY DEF Line
  <2>2. s \o << >> = s
    BY <2>1
  <2>3. Line(s, V, l)
    BY DEF Line
  <2>4. QED
    BY <1>2, <2>2, <2>3
<1>3. QED
  BY <1>1, <1>2

LEMMA MakesAndGets ==
    /\ Makes("cifSig") = -1 /\ Makes("cifCicEq") = -1 /\ Makes("cifOfdm") = -1 /\ Makes("cifGain") = -1
    /\ Makes("cifGuard") = Guarded /\ Makes("cifFilter") = Guarded
    /\ Makes("cifRes") = Resampled /\ Makes("cifPoly") = Resampled
    /\ Makes("formatConverter") = Reformatted /\ Makes("output") = Converted
    /\ Gets("cifFilter") = Guarded /\ Gets("cifRes") = Guarded
    /\ Gets("cifPoly") = Resampled /\ Gets("formatConverter") = Resampled
    /\ Gets("output") = Converted
    /\ {"cifCicEq", "cifOfdm", "cifGain", "cifGuard"} \cap BehindGuard = {}
  BY DEF Makes, Gets, BehindGuard

LEMMA PluginsInLine ==
    ASSUME Sized
    PROVE  /\ Line(Modulator!Plugins, OfSamples, Converted)
           /\ Modulator!Plugins[Len(Modulator!Plugins)] = <<"output", 0>>
<1> DEFINE Maybe(condition, name) == IF condition THEN << <<name, 0>> >> ELSE << >>
           U0 == {"cifSig"}
           U1 == U0 \cup {"cifCicEq"}
           U2 == U1 \cup {"cifOfdm"}
           U3 == U2 \cup {"cifGain"}
           U4 == U3 \cup {"cifGuard"}
           U5 == U4 \cup {"cifFilter"}
           U6 == U5 \cup {"cifRes"}
           U7 == U6 \cup {"cifPoly"}
           U8 == U7 \cup {"formatConverter"}
           U9 == U8 \cup {"output"}
           p0 == << <<"cifSig", 0>> >>
           p1 == p0 \o Maybe(settings.cicEq, "cifCicEq")
           p2 == p1 \o << <<"cifOfdm", 0>> >>
           p3 == p2 \o Maybe(~Modulator!FixedPoint, "cifGain")
           p4 == p3 \o << <<"cifGuard", 0>> >>
           p5 == p4 \o Maybe(settings.filter, "cifFilter")
           p6 == p5 \o Maybe(settings.rate # <<1, 1>>, "cifRes")
           p7 == p6 \o Maybe(settings.poly, "cifPoly")
           p8 == p7 \o Maybe(~Unconverted, "formatConverter")
           p9 == p8 \o << <<"output", 0>> >>
<1>1. /\ Resampled = Guarded \/ settings.rate # <<1, 1>>
      /\ Unconverted => Converted = Resampled
  BY LengthsAre
<1>2. Line(p0, U0, -1)
  <2>1. <<"cifSig", 0>> \in Behind /\ <<"cifSig", 0>> \in U0 \X {0}
    BY DEF Behind, OfSamples
  <2>2. p0 \in Seq(Behind) /\ Len(p0) = 1 /\ p0[1] = <<"cifSig", 0>> /\ DOMAIN p0 = 1 .. 1
    BY <2>1
  <2> HIDE DEF p0, U0
  <2>3. Once(p0) /\ \A j \in DOMAIN p0 : p0[j] \in U0 \X {0}
    BY <2>1, <2>2 DEF Once
  <2>4. Makes(p0[Len(p0)][1]) = -1
    BY <2>2, MakesAndGets
  <2>5. QED
    BY <2>2, <2>3, <2>4 DEF Line
<1>3. Line(p1, U1, -1)
  <2>1. "cifCicEq" \in OfSamples /\ "cifCicEq" \notin U0 /\ "cifCicEq" \in U1 /\ \A u \in U0 : u \in U1
    BY DEF OfSamples
  <2>2. settings.cicEq => ("cifCicEq" \in BehindGuard => -1 = Gets("cifCicEq")) /\ -1 = Makes("cifCicEq")
    BY MakesAndGets
  <2>3. ~(settings.cicEq) => -1 = -1
    BY <1>1
  <2> HIDE DEF p0, U0, U1
  <2>4. Line(p0 \o (IF settings.cicEq THEN << <<"cifCicEq", 0>> >> ELSE << >>), U1, -1)
    BY ONLY <1>2, <2>1, <2>2, <2>3, LineMayGrow, Zenon
  <2>5. QED
    BY <2>4, Zenon
<1>4. Line(p2, U2, -1)
  <2>1. "cifOfdm" \in OfSamples /\ "cifOfdm" \notin U1 /\ "cifOfdm" \in U2 /\ \A u \in U1 : u \in U2
    BY DEF OfSamples
  <2>2. "cifOfdm" \in BehindGuard => -1 = Gets("cifOfdm")
    BY MakesAndGets
  <2>3. Makes("cifOfdm") = -1
    BY MakesAndGets
  <2> HIDE DEF p1, U1, U2
  <2>4. Line(p1 \o << <<"cifOfdm", 0>> >>, U2, Makes("cifOfdm"))
    BY ONLY <1>3, <2>1, <2>2, LineGrows, Zenon
  <2>5. QED
    BY <2>3, <2>4, Zenon
<1>5. Line(p3, U3, -1)
  <2>1. "cifGain" \in OfSamples /\ "cifGain" \notin U2 /\ "cifGain" \in U3 /\ \A u \in U2 : u \in U3
    BY DEF OfSamples
  <2>2. ~Modulator!FixedPoint => ("cifGain" \in BehindGuard => -1 = Gets("cifGain")) /\ -1 = Makes("cifGain")
    BY MakesAndGets
  <2>3. ~(~Modulator!FixedPoint) => -1 = -1
    BY <1>1
  <2> HIDE DEF p2, U2, U3
  <2>4. Line(p2 \o (IF ~Modulator!FixedPoint THEN << <<"cifGain", 0>> >> ELSE << >>), U3, -1)
    BY ONLY <1>4, <2>1, <2>2, <2>3, LineMayGrow, Zenon
  <2>5. QED
    BY <2>4, Zenon
<1>6. Line(p4, U4, Guarded)
  <2>1. "cifGuard" \in OfSamples /\ "cifGuard" \notin U3 /\ "cifGuard" \in U4 /\ \A u \in U3 : u \in U4
    BY DEF OfSamples
  <2>2. "cifGuard" \in BehindGuard => -1 = Gets("cifGuard")
    BY MakesAndGets
  <2>3. Makes("cifGuard") = Guarded
    BY MakesAndGets
  <2> HIDE DEF p3, U3, U4
  <2>4. Line(p3 \o << <<"cifGuard", 0>> >>, U4, Makes("cifGuard"))
    BY ONLY <1>5, <2>1, <2>2, LineGrows, Zenon
  <2>5. QED
    BY <2>3, <2>4, Zenon
<1>7. Line(p5, U5, Guarded)
  <2>1. "cifFilter" \in OfSamples /\ "cifFilter" \notin U4 /\ "cifFilter" \in U5 /\ \A u \in U4 : u \in U5
    BY DEF OfSamples
  <2>2. settings.filter => ("cifFilter" \in BehindGuard => Guarded = Gets("cifFilter")) /\ Guarded = Makes("cifFilter")
    BY MakesAndGets
  <2>3. ~(settings.filter) => Guarded = Guarded
    BY <1>1
  <2> HIDE DEF p4, U4, U5
  <2>4. Line(p4 \o (IF settings.filter THEN << <<"cifFilter", 0>> >> ELSE << >>), U5, Guarded)
    BY ONLY <1>6, <2>1, <2>2, <2>3, LineMayGrow, Zenon
  <2>5. QED
    BY <2>4, Zenon
<1>8. Line(p6, U6, Resampled)
  <2>1. "cifRes" \in OfSamples /\ "cifRes" \notin U5 /\ "cifRes" \in U6 /\ \A u \in U5 : u \in U6
    BY DEF OfSamples
  <2>2. (settings.rate # <<1, 1>>) => ("cifRes" \in BehindGuard => Guarded = Gets("cifRes")) /\ Resampled = Makes("cifRes")
    BY MakesAndGets
  <2>3. ~(settings.rate # <<1, 1>>) => Resampled = Guarded
    BY <1>1
  <2> HIDE DEF p5, U5, U6
  <2>4. Line(p5 \o (IF settings.rate # <<1, 1>> THEN << <<"cifRes", 0>> >> ELSE << >>), U6, Resampled)
    BY ONLY <1>7, <2>1, <2>2, <2>3, LineMayGrow, Zenon
  <2>5. QED
    BY <2>4, Zenon
<1>9. Line(p7, U7, Resampled)
  <2>1. "cifPoly" \in OfSamples /\ "cifPoly" \notin U6 /\ "cifPoly" \in U7 /\ \A u \in U6 : u \in U7
    BY DEF OfSamples
  <2>2. settings.poly => ("cifPoly" \in BehindGuard => Resampled = Gets("cifPoly")) /\ Resampled = Makes("cifPoly")
    BY MakesAndGets
  <2>3. ~(settings.poly) => Resampled = Resampled
    BY <1>1
  <2> HIDE DEF p6, U6, U7
  <2>4. Line(p6 \o (IF settings.poly THEN << <<"cifPoly", 0>> >> ELSE << >>), U7, Resampled)
    BY ONLY <1>8, <2>1, <2>2, <2>3, LineMayGrow, Zenon
  <2>5. QED
    BY <2>4, Zenon
<1>10. Line(p8, U8, Converted)
  <2>1. "formatConverter" \in OfSamples /\ "formatConverter" \notin U7 /\ "formatConverter" \in U8 /\ \A u \in U7 : u \in U8
    BY DEF OfSamples
  <2>2. ~Unconverted => ("formatConverter" \in BehindGuard => Resampled = Gets("formatConverter")) /\ Converted = Makes("formatConverter")
    BY MakesAndGets DEF Converted
  <2>3. ~(~Unconverted) => Converted = Resampled
    BY <1>1
  <2> HIDE DEF p7, U7, U8
  <2>4. Line(p7 \o (IF ~Unconverted THEN << <<"formatConverter", 0>> >> ELSE << >>), U8, Converted)
    BY ONLY <1>9, <2>1, <2>2, <2>3, LineMayGrow, Zenon
  <2>5. QED
    BY <2>4, Zenon
<1>11. Line(p9, U9, Converted)
  <2>1. "output" \in OfSamples /\ "output" \notin U8 /\ "output" \in U9 /\ \A u \in U8 : u \in U9
    BY DEF OfSamples
  <2>2. "output" \in BehindGuard => Converted = Gets("output")
    BY MakesAndGets
  <2>3. Makes("output") = Converted
    BY MakesAndGets
  <2> HIDE DEF p8, U8, U9
  <2>4. Line(p8 \o << <<"output", 0>> >>, U9, Makes("output"))
    BY ONLY <1>10, <2>1, <2>2, LineGrows, Zenon
  <2>5. QED
    BY <2>3, <2>4, Zenon
<1>12. Modulator!Plugins = p9
  BY Zenon DEF Modulator!Plugins, Modulator!Node, Unconverted
<1>13. U9 = OfSamples
  BY DEF OfSamples
<1>14. p9[Len(p9)] = <<"output", 0>>
  <2> DEFINE one == << <<"output", 0>> >>
             n == <<"output", 0>>
  <2>1. n \in Behind
    BY DEF Behind, OfSamples
  <2> HIDE DEF n, p8
  <2>2. p8 \in Seq(Behind)
    BY <1>10 DEF Line
  <2>3. p8 \o <<n>> \in Seq(Behind) /\ Len(p8 \o <<n>>) = Len(p8) + 1 /\ (p8 \o <<n>>)[Len(p8) + 1] = n
    BY ONLY <2>1, <2>2
  <2>4. QED
    BY <2>3 DEF n
<1> HIDE DEF p9, U9
<1>15. QED
  BY ONLY <1>11, <1>12, <1>13, <1>14, Zenon

LEMMA AnyCalls ==
    Modulator!Connections = (FrontCalls \o (IF Modulator!Tii THEN TiiCalls ELSE << >>)) \o BackCalls
  BY Zenon DEF Modulator!Connections, Modulator!Node, FrontCalls, FicCalls, SubchannelCalls, CifCalls,
               SymbolCalls, TiiCalls, BackCalls

(* The one call k of those in the list that connects something to n.       *)
Feeds(list, k, n) == /\ k \in DOMAIN list /\ list[k][2] = n
                     /\ \A j \in DOMAIN list : list[j][2] = n => j = k

(* The calls of a line come last.                                          *)
LEMMA LineCalls ==
    ASSUME NEW front \in Seq(AnyNode \X AnyNode),
           \A i \in DOMAIN front, x \in BehindGuard : ~Touches(front[i], <<x, 0>>),
           NEW p, NEW l, Line(p, OfSamples, l), p[Len(p)] = <<"output", 0>>
    PROVE  LET list == front \o Modulator!Chain(p)
               m == list[Len(list)][1]
           IN  /\ list \in Seq(AnyNode \X AnyNode) /\ Len(list) >= 1
               /\ \A i \in DOMAIN list, x \in BehindGuard : Touches(list[i], <<x, 0>>) =>
                     \E k : Feeds(list, k, <<x, 0>>) /\ Makes(list[k][1][1]) = Gets(x)
               /\ list[Len(list)][2] = <<"output", 0>>
               /\ m # <<"output", 0>> /\ Follows(list, m, <<"output", 0>>)
<1> DEFINE chain == Modulator!Chain(p)
           list == front \o chain
           F == Len(front)
           N == Len(p)
           out == <<"output", 0>>
<1>1. /\ p \in Seq(Behind) /\ N >= 1 /\ p[1] = <<"cifSig", 0>> /\ Once(p) /\ p[N] = out
      /\ \A j \in 2 .. N : p[j][1] \in BehindGuard => Makes(p[j - 1][1]) = Gets(p[j][1])
  BY DEF Line
<1>2. N \in Nat /\ N >= 2 /\ F \in Nat /\ DOMAIN p = 1 .. N /\ DOMAIN front = 1 .. F
  <2>1. N \in Nat /\ DOMAIN p = 1 .. N /\ F \in Nat /\ DOMAIN front = 1 .. F
    BY <1>1
  <2>2. N # 1
    BY <1>1
  <2>3. QED
    BY <1>1, <2>1, <2>2
<1>3. /\ chain \in Seq(Behind \X Behind) /\ Len(chain) = N - 1
      /\ \A j \in 1 .. N - 1 : chain[j] = <<p[j], p[j + 1]>>
  <2>1. chain \in Seq(Behind \X Behind)
    BY <1>1, ChainOf
  <2>2. chain = [j \in 1 .. N - 1 |-> <<p[j], p[j + 1]>>]
    BY DEF Modulator!Chain
  <2> HIDE DEF chain, N
  <2>3. QED
    BY <1>2, <2>1, <2>2
<1> HIDE DEF chain, N, out
<1>4. /\ list \in Seq(AnyNode \X AnyNode) /\ Len(list) = F + (N - 1)
      /\ \A i \in 1 .. F : list[i] = front[i]
      /\ \A i \in F + 1 .. F + (N - 1) : list[i] = chain[i - F]
  <2>1. chain \in Seq(AnyNode \X AnyNode)
    <3>1. Behind \subseteq AnyNode
      BY DEF AnyNode
    <3>2. QED
      BY <1>3, <3>1
  <2>2. /\ list \in Seq(AnyNode \X AnyNode) /\ Len(list) = Len(front) + Len(chain)
        /\ \A i \in 1 .. Len(front) : list[i] = front[i]
        /\ \A i \in Len(front) + 1 .. Len(front) + Len(chain) : list[i] = chain[i - Len(front)]
    BY <2>1, JoinOf
  <2>3. QED
    BY <1>3, <2>2
<1> HIDE DEF list
<1>5. DOMAIN list = 1 .. F + (N - 1)
  BY <1>4
<1> HIDE DEF F
<1>6. \A j \in 1 .. N - 1 : /\ F + j \in DOMAIN list /\ F + j > F
                            /\ list[F + j][1] = p[j] /\ list[F + j][2] = p[j + 1]
  <2> SUFFICES ASSUME NEW j \in 1 .. N - 1
               PROVE  /\ F + j \in DOMAIN list /\ F + j > F
                      /\ list[F + j][1] = p[j] /\ list[F + j][2] = p[j + 1]
    OBVIOUS
  <2>1. F + j \in F + 1 .. F + (N - 1) /\ (F + j) - F = j /\ F + j > F /\ F + j \in DOMAIN list
    BY <1>2, <1>5
  <2>2. list[F + j] = <<p[j], p[j + 1]>>
    BY <1>3, <1>4, <2>1
  <2>3. QED
    BY <2>1, <2>2
<1>7. ASSUME NEW i \in DOMAIN list, NEW x \in BehindGuard, Touches(list[i], <<x, 0>>)
      PROVE  \E j \in 1 .. N - 1 : i = F + j
  <2>1. CASE i \in 1 .. F
    <3>1. list[i] = front[i] /\ i \in DOMAIN front
      BY <1>2, <1>4, <2>1
    <3>2. QED
      BY <1>7, <3>1
  <2>2. CASE i \notin 1 .. F
    <3>1. i - F \in 1 .. N - 1 /\ i = F + (i - F)
      BY <1>2, <1>5, <2>2
    <3>2. QED
      BY <3>1
  <2>3. QED
    BY <2>1, <2>2
<1>8. ASSUME NEW j \in 2 .. N, NEW x \in BehindGuard, p[j] = <<x, 0>>
      PROVE  Feeds(list, F + (j - 1), <<x, 0>>) /\ Makes(list[F + (j - 1)][1][1]) = Gets(x)
  <2>1. j - 1 \in 1 .. N - 1 /\ (j - 1) + 1 = j /\ j \in DOMAIN p
    BY <1>2
  <2>2. /\ F + (j - 1) \in DOMAIN list
        /\ list[F + (j - 1)][1] = p[j - 1] /\ list[F + (j - 1)][2] = p[j]
    BY <1>6, <2>1
  <2>3. p[j][1] = x
    BY <1>8
  <2>4. Makes(p[j - 1][1]) = Gets(x)
    BY <1>1, <2>3
  <2>5. ASSUME NEW i \in DOMAIN list, list[i][2] = <<x, 0>> PROVE i = F + (j - 1)
    <3>1. Touches(list[i], <<x, 0>>)
      BY <2>5 DEF Touches
    <3>2. PICK h \in 1 .. N - 1 : i = F + h
      BY <1>7, <3>1
    <3>3. p[h + 1] = p[j] /\ h + 1 \in DOMAIN p
      <4>1. list[F + h][2] = p[h + 1]
        BY <1>6
      <4>2. h + 1 \in DOMAIN p
        BY <1>2
      <4>3. QED
        BY <1>8, <2>5, <3>2, <4>1, <4>2
    <3>4. h + 1 = j
      BY <1>1, <2>1, <3>3 DEF Once
    <3>5. QED
      BY <2>1, <3>2, <3>4
  <2>6. QED
    BY <1>8, <2>2, <2>4, <2>5 DEF Feeds
<1>9. ASSUME NEW i \in DOMAIN list, NEW x \in BehindGuard, Touches(list[i], <<x, 0>>)
      PROVE  \E k : Feeds(list, k, <<x, 0>>) /\ Makes(list[k][1][1]) = Gets(x)
  <2>1. PICK h \in 1 .. N - 1 : i = F + h
    BY <1>7, <1>9
  <2>2. p[h] = <<x, 0>> \/ p[h + 1] = <<x, 0>>
    BY <1>6, <1>9, <2>1 DEF Touches
  <2>3. \E j \in 2 .. N : p[j] = <<x, 0>>
    <3>1. x # "cifSig"
      BY DEF BehindGuard
    <3>2. p[1] # <<x, 0>>
      BY <1>1, <3>1
    <3>3. CASE p[h] = <<x, 0>>
      <4>1. h # 1
        BY <3>2, <3>3
      <4>2. h \in 2 .. N
        BY <1>2, <4>1
      <4>3. QED
        BY <3>3, <4>2
    <3>4. CASE p[h + 1] = <<x, 0>>
      <4>1. h + 1 \in 2 .. N
        BY <1>2
      <4>2. QED
        BY <3>4, <4>1
    <3>5. QED
      BY <2>2, <3>3, <3>4
  <2>4. QED
    BY <1>8, <2>3
<1> DEFINE final == F + (N - 1)
           m == list[Len(list)][1]
<1>10. Len(list) = final /\ final \in DOMAIN list /\ Len(list) >= 1 /\ final \in Nat
  <2>1. N - 1 \in 1 .. N - 1
    BY <1>2
  <2>2. final \in DOMAIN list
    BY <1>6, <2>1
  <2>4. final \in Nat /\ final >= 1
    BY <1>2
  <2>3. QED
    BY <1>4, <2>2, <2>4
<1>11. list[final][2] = out /\ list[final][1] = p[N - 1] /\ p[N - 1] # out /\ m = p[N - 1]
  <2>1. N - 1 \in 1 .. N - 1 /\ (N - 1) + 1 = N /\ N - 1 \in DOMAIN p /\ N \in DOMAIN p /\ N - 1 # N
    BY <1>2
  <2>2. list[final][1] = p[N - 1] /\ list[final][2] = p[N]
    BY <1>6, <2>1
  <2>3. p[N - 1] # out
    BY <1>1, <2>1 DEF Once
  <2>4. QED
    BY <1>1, <1>10, <2>2, <2>3
<1>12. \A i \in DOMAIN list : Touches(list[i], out) => i = final /\ list[i][1] # out
  <2> SUFFICES ASSUME NEW i \in DOMAIN list, Touches(list[i], out)
               PROVE  i = final /\ list[i][1] # out
    OBVIOUS
  <2>1. "output" \in BehindGuard
    BY DEF BehindGuard
  <2>2. PICK h \in 1 .. N - 1 : i = F + h
    BY <1>7, <2>1 DEF out
  <2>3. list[i][1] = p[h] /\ list[i][2] = p[h + 1]
    BY <1>6, <2>2
  <2>4. h \in DOMAIN p /\ h + 1 \in DOMAIN p /\ N \in DOMAIN p /\ h # N
    BY <1>2
  <2>5. p[h] # out
    BY <1>1, <2>4 DEF Once
  <2>6. p[h + 1] = out
    BY <2>3, <2>5 DEF Touches
  <2>7. h + 1 = N
    BY <1>1, <2>4, <2>6 DEF Once
  <2>8. QED
    BY <1>2, <2>2, <2>3, <2>5, <2>7
<1> HIDE DEF final, m
<1>13. Follows(list, m, out)
  <2> SUFFICES ASSUME NEW j \in DOMAIN list
               PROVE  /\ list[j][1] = out => \E i \in 1 .. j - 1 : Touches(list[i], m)
                      /\ list[j][2] = out => list[j][1] = m \/ \E i \in 1 .. j - 1 : Touches(list[i], m)
                      /\ list[j][2] = m => /\ list[j][1] # out
                                           /\ \A i \in 1 .. j - 1 : ~Touches(list[i], out)
    BY DEF Follows
  <2>1. list[j][1] # out
    BY <1>12 DEF Touches
  <2>2. list[j][2] = out => list[j][1] = m
    BY <1>11, <1>12 DEF Touches
  <2>3. \A i \in 1 .. j - 1 : ~Touches(list[i], out)
    <3> SUFFICES ASSUME NEW i \in 1 .. j - 1, Touches(list[i], out) PROVE FALSE
      OBVIOUS
    <3>1. i \in DOMAIN list /\ i < j
      BY <1>2, <1>5
    <3>2. i = final
      BY <1>12, <3>1
    <3>3. j <= final
      BY <1>2, <1>5 DEF final
    <3>4. QED
      BY <1>10, <3>1, <3>2, <3>3
  <2>4. QED
    BY <2>1, <2>2, <2>3
<1>14. /\ list[Len(list)][2] = out /\ m # out
  BY <1>10, <1>11
<1>15. QED
  BY <1>4, <1>9, <1>10, <1>13, <1>14 DEF list, chain, out, m

Sent == <<"output", 0>>

(* Each element behind the guard intervals is fed by one other, with what  *)
(* it expects.                                                             *)
Wired(list) ==
    /\ list \in Seq(AnyNode \X AnyNode) /\ Len(list) >= 1
    /\ \A i \in DOMAIN list, x \in BehindGuard : Touches(list[i], <<x, 0>>) =>
          \E k : Feeds(list, k, <<x, 0>>) /\ Makes(list[k][1][1]) = Gets(x)
    /\ list[Len(list)][2] = Sent
    /\ list[Len(list)][1] # Sent /\ Follows(list, list[Len(list)][1], Sent)

LEMMA CallsAreWired ==
    ASSUME stc \in Seq((0 .. 1023) \X (0 .. 63)), Sized
    PROVE  Wired(Modulator!Connections)
<1> DEFINE A == AnyNode \X AnyNode
           tii == IF Modulator!Tii THEN TiiCalls ELSE << >>
           front == FrontCalls \o tii
           p == Modulator!Plugins
<1>1. FrontCalls \in Seq(Early \X Early)
  BY FrontEarly
<1>2. tii \in Seq((OfTii \X {0}) \X (OfTii \X {0}))
  <2> DEFINE O == OfTii \X {0}
  <2>1. <<"tiiRef", 0>> \in O /\ <<"tii", 0>> \in O /\ <<"cifSig", 0>> \in O
    BY DEF OfTii
  <2> DEFINE a == << <<"tiiRef", 0>>, <<"tii", 0>> >>
             b == << <<"tii", 0>>, <<"cifSig", 0>> >>
  <2>4. a \in O \X O /\ b \in O \X O
    BY <2>1
  <2>5. TiiCalls = <<a, b>>
    BY TiiCallsAre
  <2> HIDE DEF a, b, O
  <2>2. TiiCalls \in Seq(O \X O)
    BY ONLY <2>4, <2>5
  <2>3. QED
    BY <2>2 DEF O
<1> HIDE DEF tii
<1>3. FrontCalls \in Seq(A) /\ tii \in Seq(A)
  <2>1. Early \subseteq AnyNode /\ OfTii \X {0} \subseteq AnyNode
    BY DEF AnyNode
  <2>2. QED
    BY <1>1, <1>2, <2>1
<1>4. /\ front \in Seq(A)
      /\ \A i \in DOMAIN front : \/ front[i] \in Early \X Early
                                 \/ front[i] \in (OfTii \X {0}) \X (OfTii \X {0})
  <2>1. \A i \in DOMAIN FrontCalls : FrontCalls[i] \in Early \X Early
    BY <1>1, ElementOf
  <2>2. \A i \in DOMAIN tii : tii[i] \in (OfTii \X {0}) \X (OfTii \X {0})
    BY <1>2, ElementOf
  <2> HIDE DEF A
  <2>3. front \in Seq(A)
    BY <1>3, JoinOf
  <2>4. QED
    BY <1>3, <2>1, <2>2, <2>3, JoinEach
<1> HIDE DEF front
<1>5. ASSUME NEW i \in DOMAIN front, NEW x \in BehindGuard PROVE ~Touches(front[i], <<x, 0>>)
  <2> DEFINE n == <<x, 0>>
  <2>1. n \notin Early /\ n \notin OfTii \X {0}
    BY DEF Early, OfSubchannels, OfSymbols, OfTii, BehindGuard
  <2> HIDE DEF n
  <2>2. ~Touches(front[i], n)
    BY <1>4, <2>1 DEF Touches
  <2>3. QED
    BY <2>2 DEF n
<1>6. Line(p, OfSamples, Converted) /\ p[Len(p)] = <<"output", 0>>
  BY PluginsInLine
<1>7. Modulator!Connections = front \o Modulator!Chain(p)
  BY AnyCalls, Zenon DEF front, tii, BackCalls
<1> HIDE DEF p
<1> DEFINE list == front \o Modulator!Chain(p)
           m == list[Len(list)][1]
<1>8. /\ list \in Seq(AnyNode \X AnyNode) /\ Len(list) >= 1
      /\ \A i \in DOMAIN list, x \in BehindGuard : Touches(list[i], <<x, 0>>) =>
            \E k : Feeds(list, k, <<x, 0>>) /\ Makes(list[k][1][1]) = Gets(x)
      /\ list[Len(list)][2] = <<"output", 0>>
      /\ m # <<"output", 0>> /\ Follows(list, m, <<"output", 0>>)
  BY ONLY <1>4, <1>5, <1>6, LineCalls, Zenon
<1> HIDE DEF list
<1>9. Wired(list)
  BY ONLY <1>8, Zenon DEF Wired, Sent, m
<1>10. QED
  BY <1>7, <1>9 DEF list

(* What comes in where one edge ends.                                      *)
LEMMA OneInput ==
    ASSUME edges \in Seq(AnyNode \X AnyNode), NEW k, NEW n, Feeds(edges, k, n)
    PROVE  Modulator!Inputs(n)[1] = bytes[edges[k][1]]
<1> DEFINE to == Modulator!EdgesTo(n)
<1>1. to = {k} /\ k \in Nat
  <2>1. DOMAIN edges \subseteq Nat
    OBVIOUS
  <2>2. QED
    BY <2>1 DEF Modulator!EdgesTo, Feeds
<1>2. Modulator!Cardinality({k}) = 1
  BY FS_Singleton DEF Modulator!Cardinality, Cardinality
<1>3. Modulator!EdgeTo(n, 1) = k
  <2>1. {j \in {k} : j <= k} = {k}
    BY <1>1
  <2>2. \E h \in {k} : Modulator!Cardinality({j \in {k} : j <= h}) = 1
    BY <1>2, <2>1
  <2>3. Modulator!EdgeTo(n, 1) \in {k}
    BY <1>1, <2>2 DEF Modulator!EdgeTo
  <2>4. QED
    BY <2>3
<1>4. Modulator!Inputs(n) = [i \in 1 .. 1 |-> bytes[edges[Modulator!EdgeTo(n, i)][1]]]
  BY <1>1, <1>2 DEF Modulator!Inputs
<1>5. 1 \in 1 .. 1
  OBVIOUS
<1>6. QED
  BY <1>3, <1>4, <1>5

(* What is on the edges behind the guard intervals: nothing yet, or as     *)
(* much as is planned; in a run something from each element that was       *)
(* processed.                                                              *)
Filled ==
    /\ bytes = [n \in Modulator!Range(nodes) |-> bytes[n]]
    /\ \A i \in DOMAIN nodes :
          nodes[i][1] \in FromGuard => bytes[nodes[i]] \in {0, Makes(nodes[i][1])}
    /\ stage = "run" => /\ position \in 1 .. Len(nodes)
                        /\ \A i \in 1 .. position - 1 : bytes[nodes[i]] # 0

Assembled ==
    /\ Sized /\ Wired(edges) /\ nodes \in Seq(AnyNode)
    /\ Before(nodes, edges[Len(edges)][1], Sent)
    /\ stage = "connect" => position \in 1 .. Len(edges) /\ Laid(nodes, edges, position - 1)
    /\ stage # "connect" => Laid(nodes, edges, Len(edges)) /\ Filled

(* The element that feeds another is there.                                *)
LEMMA FedBy ==
    ASSUME Assembled, stage # "connect", NEW x \in BehindGuard, Has(nodes, <<x, 0>>)
    PROVE  \E k : /\ Feeds(edges, k, <<x, 0>>) /\ Makes(edges[k][1][1]) = Gets(x)
                  /\ bytes[edges[k][1]] \in {0, Gets(x)}
<1>1. /\ Laid(nodes, edges, Len(edges)) /\ Filled /\ edges \in Seq(AnyNode \X AnyNode)
      /\ nodes \in Seq(AnyNode) /\ Sized
      /\ \A i \in DOMAIN edges : Touches(edges[i], <<x, 0>>) =>
            \E k : Feeds(edges, k, <<x, 0>>) /\ Makes(edges[k][1][1]) = Gets(x)
  BY DEF Assembled, Wired
<1>2. PICK i \in 1 .. Len(edges) : Touches(edges[i], <<x, 0>>)
  BY <1>1 DEF Laid
<1>3. i \in DOMAIN edges
  BY <1>1
<1>4. PICK k : Feeds(edges, k, <<x, 0>>) /\ Makes(edges[k][1][1]) = Gets(x)
  BY <1>1, <1>2, <1>3
<1> DEFINE m == edges[k][1]
<1>5. k \in 1 .. Len(edges) /\ Touches(edges[k], m)
  BY <1>1, <1>4 DEF Feeds, Touches
<1>6. Has(nodes, m)
  BY <1>1, <1>5 DEF Laid
<1>7. PICK j \in DOMAIN nodes : nodes[j] = m
  BY <1>6 DEF Has
<1>8. Gets(x) # -1
  <2>1. Guarded \in Nat /\ Resampled \in Nat /\ Converted \in Nat
    BY <1>1, LengthsAre
  <2>2. QED
    BY <2>1 DEF Gets
<1>9. m[1] \in FromGuard
  BY <1>4, <1>8 DEF Makes, FromGuard, BehindGuard
<1>10. bytes[m] \in {0, Makes(m[1])}
  BY <1>1, <1>7, <1>9 DEF Filled
<1>11. QED
  BY <1>4, <1>10

LEMMA OutcomeBehind ==
    /\ Modulator!Outcome(<<"cifGuard", 0>>)
         = Modulator!GuardIntervalInserter(Modulator!Inputs(<<"cifGuard", 0>>))
    /\ Modulator!Outcome(<<"cifFilter", 0>>) = Modulator!Inputs(<<"cifFilter", 0>>)[1]
    /\ Modulator!Outcome(<<"cifRes", 0>>) = Modulator!Resampler(Modulator!Inputs(<<"cifRes", 0>>))
    /\ Modulator!Outcome(<<"cifPoly", 0>>) = Modulator!Inputs(<<"cifPoly", 0>>)[1]
    /\ Modulator!Outcome(<<"formatConverter", 0>>)
         = Modulator!FormatConverter(Modulator!Inputs(<<"formatConverter", 0>>))
    /\ Modulator!Outcome(<<"output", 0>>) = Modulator!Inputs(<<"output", 0>>)[1]
  BY DEF Modulator!Outcome, Modulator!FIRFilter, Modulator!MemlessPoly, Modulator!OutputMemory

LEMMA MadeAsPlanned ==
    ASSUME Assembled, stage # "connect", NEW x \in FromGuard, Has(nodes, <<x, 0>>),
           Modulator!Outcome(<<x, 0>>) # 0
    PROVE  Modulator!Outcome(<<x, 0>>) = Makes(x)
<1>1. CASE x = "cifGuard"
  <2>1. Modulator!Outcome(<<x, 0>>) \in {0, Guarded}
    BY <1>1, OutcomeBehind DEF Modulator!GuardIntervalInserter, Modulator!Expect, Guarded
  <2>2. QED
    BY <1>1, <2>1, MakesAndGets
<1>2. CASE x \in BehindGuard
  <2> DEFINE in == Modulator!Inputs(<<x, 0>>)
             f == Modulator!FormatSize(Modulator!Format(settings))
  <2>1. in[1] \in {0, Gets(x)}
    <3>1. PICK k : /\ Feeds(edges, k, <<x, 0>>)
                   /\ bytes[edges[k][1]] \in {0, Gets(x)}
      BY <1>2, FedBy
    <3>2. edges \in Seq(AnyNode \X AnyNode)
      BY DEF Assembled, Wired
    <3>3. in[1] = bytes[edges[k][1]]
      BY <3>1, <3>2, OneInput
    <3>4. QED
      BY <3>1, <3>3
  <2>2. /\ settings.rate[1] \in Nat \ {0} /\ settings.rate[2] \in Nat \ {0}
        /\ Guarded \in Nat /\ Resampled \in Nat /\ Converted \in Nat /\ f \in {2, 4}
    BY LengthsAre, FormatKnown DEF Assembled, Sized
  <2>3. CASE x \in {"cifFilter", "cifPoly", "output"}
    <3>1. Modulator!Outcome(<<x, 0>>) = in[1]
      BY <2>3, OutcomeBehind
    <3>2. Gets(x) = Makes(x)
      BY <2>3, MakesAndGets
    <3>3. QED
      BY <2>1, <3>1, <3>2
  <2>4. CASE x = "cifRes"
    <3>1. Modulator!Outcome(<<x, 0>>) = (in[1] * settings.rate[1]) \div settings.rate[2]
      BY <2>4, OutcomeBehind DEF Modulator!Resampler
    <3>2. \A r \in Nat \ {0}, s \in Nat \ {0} : (0 * r) \div s = 0
      OBVIOUS
    <3>3. (0 * settings.rate[1]) \div settings.rate[2] = 0
      BY <2>2, <3>2
    <3>4. in[1] = Guarded
      BY <2>1, <2>4, <3>1, <3>3, MakesAndGets
    <3>5. QED
      BY <2>4, <3>1, <3>4, MakesAndGets DEF Resampled
  <2>5. CASE x = "formatConverter"
    <3>1. Modulator!Outcome(<<x, 0>>) = (in[1] \div 8) * f
      BY <2>5, OutcomeBehind DEF Modulator!FormatConverter
    <3> HIDE DEF f, in
    <3>2. (0 \div 8) * f = 0
      BY <2>2
    <3>3. in[1] = Resampled
      BY <2>1, <2>5, <3>1, <3>2, MakesAndGets
    <3>4. QED
      BY <2>5, <3>1, <3>3, MakesAndGets DEF Reformatted, f
  <2>6. QED
    BY <1>2, <2>3, <2>4, <2>5 DEF BehindGuard
<1>3. QED
  BY <1>1, <1>2 DEF FromGuard


-----------------------------------------------------------------------------
(* What the SDR output is told a sample's size is.                         *)
Told == IF Modulator!IsSdr(settings) /\ ~Unconverted
        THEN Modulator!FormatSize(Modulator!Format(settings)) ELSE 8

(* The settings are as Rates says; the size told and the flowgraph follow  *)
(* from them.                                                              *)
LengthsInv ==
    /\ stc \in Seq((0 .. 1023) \X (0 .. 63))
    /\ settings.dabMode \in 0 .. 4
    /\ settings.rate \in (Nat \ {0}) \X (Nat \ {0})
    /\ (49152 * settings.rate[1]) % settings.rate[2] = 0
    /\ stage \in {"prepare", "setup", "connect", "idle", "run", "failed"}
    /\ stage \in {"prepare", "setup"} => nodes = << >>
    /\ stage = "prepare" => m_size = 8
    /\ stage \in {"setup", "connect", "idle", "run"} => m_size = Told
    /\ stage \in {"connect", "idle", "run"} => Assembled

(* The plan depends on the settings only.                                  *)
LEMMA SamePlan ==
    ASSUME settings' = settings
    PROVE  /\ Guarded' = Guarded /\ Resampled' = Resampled
           /\ Reformatted' = Reformatted /\ Converted' = Converted
           /\ Told' = Told /\ (Sized => Sized')
<1>1. /\ Modulator!T' = Modulator!T /\ Modulator!OfdmSize' = Modulator!OfdmSize
      /\ Modulator!FixedPoint' = Modulator!FixedPoint
  BY DEF Modulator!T, Modulator!OfdmSize, Modulator!FixedPoint
<1>2. Guarded' = Guarded
  BY <1>1 DEF Guarded
<1>3. Resampled' = Resampled
  BY <1>2 DEF Resampled
<1>4. Modulator!Format(settings)' = Modulator!Format(settings)
  OBVIOUS
<1>5. (Modulator!FormatSize(Modulator!Format(settings)))' = Modulator!FormatSize(Modulator!Format(settings))
  OBVIOUS
<1>6. Unconverted' = Unconverted
  BY <1>4, Zenon DEF Unconverted
<1>7. Reformatted' = Reformatted
  BY <1>3, <1>5 DEF Reformatted
<1>8. Converted' = Converted
  BY <1>3, <1>6, <1>7 DEF Converted
<1>9. Told' = Told
  BY <1>5, <1>6 DEF Told, Modulator!IsSdr
<1>10. Sized => Sized'
  BY <1>1 DEF Sized
<1>11. QED
  BY <1>2, <1>3, <1>7, <1>8, <1>9, <1>10

LEMMA StillWired ==
    ASSUME settings' = settings, NEW list, edges' = list, Wired(list)
    PROVE  Wired(edges)'
<1>1. /\ Guarded' = Guarded /\ Resampled' = Resampled
      /\ Reformatted' = Reformatted /\ Converted' = Converted
  BY SamePlan
<1>2. ASSUME NEW x PROVE Makes(x)' = Makes(x) /\ Gets(x)' = Gets(x)
  BY <1>1 DEF Makes, Gets
<1>3. ASSUME NEW i \in DOMAIN list, NEW x \in BehindGuard, Touches(list[i], <<x, 0>>)
      PROVE  \E k : Feeds(list, k, <<x, 0>>) /\ (Makes(list[k][1][1]))' = Gets(x)'
  <2>1. PICK k : Feeds(list, k, <<x, 0>>) /\ Makes(list[k][1][1]) = Gets(x)
    BY <1>3 DEF Wired
  <2>2. (Makes(list[k][1][1]))' = Makes(list[k][1][1])
    BY <1>1 DEF Makes
  <2>3. Gets(x)' = Gets(x)
    BY <1>2
  <2>4. QED
    BY <2>1, <2>2, <2>3
<1>4. QED
  BY <1>3 DEF Wired

(* One more connection; when all are made, all edges are empty.            *)
LEMMA AssembledConnect ==
    ASSUME Assembled, stage = "connect", Modulator!ConnectNodes, settings' = settings
    PROVE  Assembled' /\ stage' \in {"connect", "idle"}
<1> DEFINE m == edges[Len(edges)][1]
<1>1. /\ position \in 1 .. Len(edges) /\ Laid(nodes, edges, position - 1)
      /\ edges \in Seq(AnyNode \X AnyNode) /\ nodes \in Seq(AnyNode)
      /\ m # Sent /\ Follows(edges, m, Sent) /\ Before(nodes, m, Sent)
  BY DEF Assembled, Wired
<1>2. nodes' = Modulator!Connect(nodes, edges[position]) /\ edges' = edges
  BY DEF Modulator!ConnectNodes
<1>3. /\ nodes' \in Seq(AnyNode) /\ Laid(nodes', edges, position)
      /\ \A a, b : a # b /\ Follows(edges, a, b) /\ Before(nodes, a, b) => Before(nodes', a, b)
  BY <1>1, <1>2, LaidOneMore
<1>4. Before(nodes', m, Sent)
  BY <1>1, <1>3
<1>5. Sized' /\ Wired(edges)'
  BY <1>2, SamePlan, StillWired DEF Assembled
<1>6. CASE position = Len(edges)
  <2>1. stage' = "idle" /\ bytes' = [n \in Modulator!Range(nodes') |-> 0]
    BY <1>6 DEF Modulator!ConnectNodes
  <2>2. Laid(nodes', edges, Len(edges))
    BY <1>3, <1>6
  <2>3. \A i \in DOMAIN nodes' : bytes'[nodes'[i]] = 0
    BY <2>1 DEF Modulator!Range
  <2>4. bytes' = [n \in Modulator!Range(nodes') |-> bytes'[n]]
    BY <2>1
  <2>5. Filled'
    BY <2>1, <2>3, <2>4 DEF Filled
  <2>6. QED
    BY <1>2, <1>3, <1>4, <1>5, <2>1, <2>2, <2>5 DEF Assembled
<1>7. CASE position # Len(edges)
  <2>1. stage' = "connect" /\ position' = position + 1
    BY <1>7 DEF Modulator!ConnectNodes
  <2>2. position' \in 1 .. Len(edges) /\ position' - 1 = position
    BY <1>1, <1>7, <2>1
  <2>3. QED
    BY <1>2, <1>3, <1>4, <1>5, <2>1, <2>2 DEF Assembled
<1>8. QED
  BY <1>6, <1>7

(* An element is processed: it adds what is planned, or nothing.           *)
LEMMA AssembledStep ==
    ASSUME Assembled, stage = "run", settings' = settings, nodes' = nodes, edges' = edges,
           Modulator!Partition \/ Modulator!Pipeline \/ Modulator!InsertTii \/ Modulator!Process
    PROVE  Assembled' /\ stage' \in {"idle", "run"}
<1> DEFINE n == nodes[position]
           o == Modulator!Outcome(n)
           Next1 == stage' = stage /\ position' = position + 1
<1>1. /\ nodes \in Seq(AnyNode) /\ Filled /\ Laid(nodes, edges, Len(edges))
      /\ edges \in Seq(AnyNode \X AnyNode)
      /\ Before(nodes, edges[Len(edges)][1], Sent)
  BY DEF Assembled, Wired
<1>2. position \in DOMAIN nodes /\ Len(nodes) \in Nat /\ DOMAIN nodes = 1 .. Len(nodes)
  BY <1>1 DEF Filled
<1>3. Has(nodes, n)
  BY <1>2 DEF Has
<1>4. /\ o > 0
      /\ \/ Modulator!Put(n) /\ (Modulator!GoOn \/ Modulator!EndRun)
         \/ bytes' = bytes /\ Modulator!EndRun
  <2>1. CASE Modulator!Partition
    BY <2>1 DEF Modulator!Partition
  <2>2. CASE Modulator!Pipeline
    BY <2>2 DEF Modulator!Pipeline
  <2>3. CASE Modulator!InsertTii
    BY <2>3 DEF Modulator!InsertTii
  <2>4. CASE Modulator!Process
    BY <2>4 DEF Modulator!Process
  <2>5. QED
    BY <2>1, <2>2, <2>3, <2>4
<1>5. o # 0
  BY <1>4
<1>6. ASSUME n[1] \in FromGuard PROVE o = Makes(n[1])
  <2>1. n \in AnyNode
    BY <1>1, <1>2
  <2>2. n = <<n[1], 0>>
    BY <1>6, <2>1 DEF AnyNode, Early, Behind, OfSubchannels, OfSymbols, OfTii, FromGuard, BehindGuard
  <2>3. QED
    BY <1>3, <1>5, <1>6, <2>2, MadeAsPlanned
<1> HIDE DEF o, n
<1>7. Modulator!Put(n) => bytes' = [bytes EXCEPT ![n] = o]
  BY DEF Modulator!Put, o
<1>8. /\ Modulator!GoOn /\ position # Len(nodes) => Next1
      /\ Modulator!GoOn /\ position = Len(nodes) => Modulator!EndRun
      /\ Modulator!EndRun => stage' = "idle"
  BY DEF Modulator!GoOn, Modulator!EndRun
<1>9. bytes = [x \in Modulator!Range(nodes) |-> bytes[x]]
  BY <1>1 DEF Filled
<1>10. bytes' = [x \in Modulator!Range(nodes) |-> bytes'[x]]
  <2>1. CASE Modulator!Put(n)
    BY <1>7, <1>9, <2>1
  <2>2. CASE bytes' = bytes
    BY <1>9, <2>2
  <2>3. QED
    BY <1>4, <2>1, <2>2
<1>11. ASSUME NEW i \in DOMAIN nodes, nodes[i] # n PROVE bytes'[nodes[i]] = bytes[nodes[i]]
  <2>1. nodes[i] \in Modulator!Range(nodes)
    BY DEF Modulator!Range
  <2>2. Modulator!Put(n) => bytes'[nodes[i]] = bytes[nodes[i]]
    BY <1>7, <1>9, <1>11, <2>1
  <2>3. QED
    BY <1>4, <2>2
<1>12. bytes'[n] = o \/ (bytes'[n] = bytes[n] /\ Modulator!EndRun)
  <2>1. n \in Modulator!Range(nodes)
    BY <1>2 DEF n, Modulator!Range
  <2>2. Modulator!Put(n) => bytes'[n] = o
    BY <1>7, <1>9, <2>1
  <2>3. bytes' = bytes => bytes'[n] = bytes[n]
    OBVIOUS
  <2>4. QED
    BY <1>4, <2>2, <2>3
<1>13. ASSUME NEW i \in DOMAIN nodes, nodes[i][1] \in FromGuard
       PROVE  bytes'[nodes[i]] \in {0, (Makes(nodes[i][1]))'}
  <2>1. (Makes(nodes[i][1]))' = Makes(nodes[i][1])
    BY SamePlan DEF Makes
  <2>2. bytes[nodes[i]] \in {0, Makes(nodes[i][1])}
    BY <1>1, <1>13 DEF Filled
  <2>3. CASE nodes[i] = n
    BY <1>6, <1>12, <1>13, <2>1, <2>2, <2>3
  <2>4. CASE nodes[i] # n
    BY <1>11, <2>1, <2>2, <2>4
  <2>5. QED
    BY <2>3, <2>4
<1>14. ASSUME stage' = "run"
       PROVE  /\ position' \in 1 .. Len(nodes)
              /\ \A i \in 1 .. position' - 1 : bytes'[nodes[i]] # 0
  <2>1. ~Modulator!EndRun
    BY <1>8, <1>14
  <2>2. Next1 /\ position # Len(nodes) /\ bytes'[n] = o
    BY <1>4, <1>8, <1>12, <2>1
  <2>3. position' \in 1 .. Len(nodes) /\ position' - 1 = position
    BY <1>2, <2>2
  <2>4. ASSUME NEW i \in 1 .. position PROVE bytes'[nodes[i]] # 0
    <3>1. i \in DOMAIN nodes
      BY <1>2
    <3>2. CASE nodes[i] = n
      BY <1>5, <2>2, <3>2
    <3>3. CASE nodes[i] # n
      <4>1. i \in 1 .. position - 1
        BY <1>2, <3>3 DEF n
      <4>2. bytes[nodes[i]] # 0
        BY <1>1, <4>1 DEF Filled
      <4>3. QED
        BY <1>11, <3>1, <3>3, <4>2
    <3>4. QED
      BY <3>2, <3>3
  <2>5. QED
    BY <2>3, <2>4
<1>15. Filled'
  BY <1>10, <1>13, <1>14 DEF Filled
<1>16. Sized' /\ Wired(edges)'
  BY SamePlan, StillWired DEF Assembled
<1>17. stage' \in {"idle", "run"}
  BY <1>4, <1>8
<1>18. QED
  BY <1>1, <1>15, <1>16, <1>17 DEF Assembled

(* The flowgraph is laid out once the settings passed the checks of the    *)
(* first frame.                                                            *)
LEMMA AssembledSetUp ==
    ASSUME LengthsInv, stage = "setup", Modulator!SetUp, ~Modulator!Fail, settings' = settings
    PROVE  Assembled' /\ stage' = "connect"
<1> DEFINE list == Modulator!Connections
<1>1. /\ ~Modulator!SetupThrows /\ stage' = "connect" /\ nodes' = nodes /\ position' = 1
      /\ edges' = list /\ nodes = << >>
  BY DEF Modulator!SetUp, LengthsInv
<1>2. settings.dabMode # 0 /\ (Modulator!FixedPoint => settings.rate = <<1, 1>>)
  BY <1>1 DEF Modulator!SetupThrows
<1>3. Sized /\ stc \in Seq((0 .. 1023) \X (0 .. 63))
  BY <1>2 DEF Sized, LengthsInv
<1>4. Wired(list)
  BY <1>3, CallsAreWired
<1> HIDE DEF list
<1>5. Sized' /\ Wired(edges)'
  BY <1>1, <1>3, <1>4, SamePlan, StillWired
<1>6. /\ \A x : ~Has(nodes', x)
      /\ Once(nodes') /\ nodes' \in Seq(AnyNode)
      /\ \A a, b : Before(nodes', a, b)
  BY <1>1 DEF Has, Once, Before
<1>7. Laid(nodes', edges', 0)
  BY <1>6 DEF Laid
<1>8. position' \in 1 .. Len(edges') /\ position' - 1 = 0
  <2>1. Len(list) >= 1 /\ list \in Seq(AnyNode \X AnyNode)
    BY <1>4 DEF Wired
  <2>2. QED
    BY <1>1, <2>1
<1>9. QED
  BY <1>1, <1>5, <1>6, <1>7, <1>8 DEF Assembled

LEMMA LengthsStep ==
    ASSUME LengthsInv, [Modulator!Next]_modulatorVars
    PROVE  LengthsInv'
<1>1. settings' = settings /\ stc' = stc
  BY DEF Modulator!Next, Modulator!Prepare, Modulator!SetUp, Modulator!ConnectNodes, Modulator!Run,
         Modulator!Throws, Modulator!Partition, Modulator!Pipeline, Modulator!InsertTii,
         Modulator!Process, Modulator!Ended, Modulator!Fail, Modulator!vars, modulatorVars
<1>2. stage' \in {"prepare", "setup", "connect", "idle", "run", "failed"}
  BY DEF LengthsInv, Modulator!Next, Modulator!Prepare, Modulator!SetUp, Modulator!ConnectNodes,
         Modulator!Run, Modulator!Throws, Modulator!Partition, Modulator!Pipeline, Modulator!InsertTii,
         Modulator!Process, Modulator!Ended, Modulator!Fail, Modulator!vars, modulatorVars,
         Modulator!EndRun, Modulator!GoOn
<1>3. Told' = Told
  BY <1>1, SamePlan
<1> SUFFICES /\ stage' \in {"prepare", "setup"} => nodes' = << >>
             /\ stage' = "prepare" => m_size' = 8
             /\ stage' \in {"setup", "connect", "idle", "run"} => m_size' = Told
             /\ stage' \in {"connect", "idle", "run"} => Assembled'
  BY <1>1, <1>2, <1>3 DEF LengthsInv
<1>4. /\ stage \in {"prepare", "setup"} => nodes = << >>
      /\ stage = "prepare" => m_size = 8
      /\ stage \in {"setup", "connect", "idle", "run"} => m_size = Told
      /\ stage \in {"connect", "idle", "run"} => Assembled
  BY DEF LengthsInv
<1>5. CASE Modulator!Fail
  BY <1>5 DEF Modulator!Fail
<1>6. CASE Modulator!Prepare
  <2>1. CASE ~Modulator!Fail
    <3>1. /\ stage = "prepare" /\ stage' = "setup" /\ nodes' = nodes
          /\ m_size' = Modulator!SampleSizeTold
      BY <1>6, <2>1 DEF Modulator!Prepare
    <3>2. m_size = 8
      BY <1>4, <3>1
    <3>3. Modulator!SampleSizeTold = Told
      BY <3>2, Zenon DEF Modulator!SampleSizeTold, Told, Unconverted
    <3>4. QED
      BY <1>4, <3>1, <3>3
  <2>2. QED
    BY <1>5, <2>1
<1>7. CASE Modulator!SetUp
  <2>1. CASE ~Modulator!Fail
    <3>1. stage = "setup" /\ m_size' = m_size
      BY <1>7, <2>1 DEF Modulator!SetUp
    <3>2. Assembled' /\ stage' = "connect"
      BY <1>1, <1>7, <2>1, <3>1, AssembledSetUp
    <3>3. QED
      BY <1>4, <3>1, <3>2
  <2>2. QED
    BY <1>5, <2>1
<1>8. CASE Modulator!ConnectNodes
  <2>1. stage = "connect" /\ m_size' = m_size
    BY <1>8 DEF Modulator!ConnectNodes
  <2>2. Assembled' /\ stage' \in {"connect", "idle"}
    BY <1>1, <1>4, <1>8, <2>1, AssembledConnect
  <2>3. QED
    BY <1>4, <2>1, <2>2
<1>9. ASSUME stage # "connect", stage' # "connect", stage' = "run" => stage = "run" \/ position' = 1,
             stage = "run" => position' = position \/ stage' # "run",
             nodes' = nodes, edges' = edges, bytes' = bytes, Assembled
      PROVE  Assembled'
  <2>1. Sized' /\ Wired(edges)'
    BY <1>1, <1>9, SamePlan, StillWired DEF Assembled
  <2>2. Filled /\ Laid(nodes, edges, Len(edges)) /\ nodes \in Seq(AnyNode) /\ edges \in Seq(AnyNode \X AnyNode)
    BY <1>9 DEF Assembled, Wired
  <2>3. ASSUME NEW i \in DOMAIN nodes, nodes[i][1] \in FromGuard
        PROVE  bytes'[nodes[i]] \in {0, (Makes(nodes[i][1]))'}
    <3>1. (Makes(nodes[i][1]))' = Makes(nodes[i][1])
      BY <1>1, <1>9, SamePlan DEF Makes
    <3>2. QED
      BY <1>9, <2>2, <2>3, <3>1 DEF Filled
  <2>4. ASSUME stage' = "run"
        PROVE  position' \in 1 .. Len(nodes) /\ \A i \in 1 .. position' - 1 : bytes[nodes[i]] # 0
    <3>1. CASE stage = "run" /\ position' = position
      BY <2>2, <3>1 DEF Filled
    <3>2. CASE position' = 1
      <4>1. Len(nodes) # 0
        <5>1. Len(edges) \in 1 .. Len(edges) /\ Touches(edges[Len(edges)], Sent)
          BY <1>9, <2>2 DEF Assembled, Wired, Touches
        <5>2. Has(nodes, Sent)
          BY <2>2, <5>1 DEF Laid
        <5>3. QED
          BY <2>2, <5>2 DEF Has
      <4>2. position' \in 1 .. Len(nodes) /\ 1 .. position' - 1 = {}
        BY <2>2, <3>2, <4>1
      <4>3. QED
        BY <4>2
    <3>3. QED
      BY <1>9, <2>4, <3>1, <3>2
  <2>5. Filled'
    BY <1>9, <2>2, <2>3, <2>4 DEF Filled
  <2>6. QED
    BY <1>9, <2>1, <2>2, <2>5 DEF Assembled
<1>10. CASE Modulator!Run
  <2>1. /\ stage = "idle" /\ stage' = "run" /\ position' = 1 /\ nodes' = nodes /\ edges' = edges
        /\ bytes' = bytes /\ m_size' = m_size
    BY <1>10 DEF Modulator!Run
  <2>2. Assembled'
    BY <1>4, <1>9, <2>1
  <2>3. QED
    BY <1>4, <2>1, <2>2
<1>11. CASE Modulator!Partition \/ Modulator!Pipeline \/ Modulator!InsertTii \/ Modulator!Process
  <2>1. stage = "run" /\ nodes' = nodes /\ edges' = edges /\ m_size' = m_size
    BY <1>11 DEF Modulator!Partition, Modulator!Pipeline, Modulator!InsertTii, Modulator!Process,
                 Modulator!Current
  <2>2. Assembled' /\ stage' \in {"idle", "run"}
    BY <1>1, <1>4, <1>11, <2>1, AssembledStep
  <2>3. QED
    BY <1>4, <2>1, <2>2
<1>12. CASE UNCHANGED modulatorVars
  <2>1. /\ stage' = stage /\ position' = position /\ nodes' = nodes /\ edges' = edges
        /\ bytes' = bytes /\ m_size' = m_size
    BY <1>12 DEF modulatorVars
  <2>2. CASE stage = "connect"
    <3>1. Sized' /\ Wired(edges)'
      BY <1>1, <1>4, <2>1, <2>2, SamePlan, StillWired DEF Assembled
    <3>2. Assembled'
      BY <1>4, <2>1, <2>2, <3>1 DEF Assembled
    <3>3. QED
      BY <1>4, <2>1, <2>2, <3>2
  <2>3. CASE stage # "connect"
    <3>1. Assembled => Assembled'
      BY <1>9, <2>1, <2>3
    <3>2. QED
      BY <1>4, <2>1, <3>1
  <2>4. QED
    BY <2>2, <2>3
<1>13. Modulator!Throws => Modulator!Fail
  BY DEF Modulator!Throws
<1>14. Modulator!Ended => UNCHANGED modulatorVars
  BY DEF Modulator!Ended, Modulator!vars, modulatorVars
<1>15. QED
  BY <1>5, <1>6, <1>7, <1>8, <1>10, <1>11, <1>12, <1>13, <1>14 DEF Modulator!Next

(* What the output gets is as long as planned.                             *)
LEMMA SentAsPlanned ==
    ASSUME Assembled, stage = "run", nodes[position][1] = "output"
    PROVE  Modulator!Inputs(Sent)[1] = Converted
<1> DEFINE last1 == Len(edges)
           m == edges[last1][1]
<1>1. /\ nodes \in Seq(AnyNode) /\ Filled /\ Laid(nodes, edges, last1)
      /\ edges \in Seq(AnyNode \X AnyNode) /\ last1 >= 1 /\ edges[last1][2] = Sent
      /\ Before(nodes, m, Sent)
  BY DEF Assembled, Wired
<1>2. position \in DOMAIN nodes /\ last1 \in 1 .. last1 /\ last1 \in DOMAIN edges
  BY <1>1 DEF Filled
<1>3. nodes[position] = Sent
  <2>1. nodes[position] \in AnyNode
    BY <1>1, <1>2
  <2>2. QED
    BY <2>1 DEF AnyNode, Early, Behind, OfSubchannels, OfSymbols, OfTii, Sent
<1>4. "output" \in BehindGuard /\ Has(nodes, Sent)
  BY <1>2, <1>3 DEF BehindGuard, Has
<1>5. PICK k : /\ Feeds(edges, k, Sent) /\ bytes[edges[k][1]] \in {0, Gets("output")}
  BY <1>4, FedBy DEF Sent
<1>6. k = last1
  BY <1>1, <1>2, <1>5 DEF Feeds
<1>7. bytes[m] # 0
  <2>1. Touches(edges[last1], m)
    BY DEF Touches
  <2>2. Has(nodes, m)
    BY <1>1, <1>2, <2>1 DEF Laid
  <2>3. PICK i \in DOMAIN nodes : nodes[i] = m
    BY <2>2 DEF Has
  <2>4. i < position
    BY <1>1, <1>2, <1>3, <2>3 DEF Before
  <2>5. i \in 1 .. position - 1
    BY <1>1, <1>2, <2>4
  <2>6. QED
    BY <1>1, <2>3, <2>5 DEF Filled
<1>8. Modulator!Inputs(Sent)[1] = bytes[m]
  BY <1>1, <1>5, <1>6, OneInput
<1>9. QED
  BY <1>5, <1>6, <1>7, <1>8, MakesAndGets

LEMMA LengthsAsSent ==
    ASSUME LengthsInv
    PROVE  FrameLength
<1> DEFINE in == Modulator!Inputs(Modulator!Node("output"))[1]
<1>1. Modulator!SentSize = SizeSent
  BY Zenon DEF Modulator!SentSize, SizeSent, Unconverted
<1>2. ASSUME Modulator!Current({"output"})
      PROVE  /\ settings.rate[2] * in = settings.rate[1] * Modulator!T.cifCount * 49152 * SizeSent
             /\ Modulator!IsSdr(settings) /\ settings.fftEngine # "kiss" => m_size = SizeSent
  <2>1. stage = "run" /\ nodes[position][1] = "output"
    BY <1>2 DEF Modulator!Current
  <2>2. Assembled /\ m_size = Told /\ Sized
    BY <2>1 DEF LengthsInv, Assembled
  <2>3. in = Converted
    BY <2>1, <2>2, SentAsPlanned DEF Sent, Modulator!Node
  <2>4. settings.rate[2] * Converted = settings.rate[1] * Cifs * 49152 * SizeSent
    BY <2>2, LengthsAre
  <2>5. Modulator!IsSdr(settings) /\ settings.fftEngine # "kiss" => m_size = SizeSent
    BY <2>2, FormatKnown DEF Told, SizeSent
  <2>6. QED
    BY <2>3, <2>4, <2>5 DEF Cifs
<1>3. QED
  BY <1>1, <1>2 DEF FrameLength, Modulator!FrameLength

(* src/output/SDR.cpp takes the time a frame lasts from its length: with   *)
(* any settings and at any output rate that is a multiple of 125 Hz, each  *)
(* frame that reaches the output lasts 24 ms for each CIF in it, whatever  *)
(* elements are between, and the size of the samples that the output was   *)
(* told is that of the samples it gets.                                    *)
THEOREM FrameLengthAlways == ModulatorSpec => []FrameLength
<1>1. Modulator!Init => LengthsInv
  <2> SUFFICES ASSUME Modulator!Init PROVE LengthsInv
    OBVIOUS
  <2>1. PICK c \in Cases : settings = c.settings /\ stc = c.stc
    BY DEF Modulator!Init
  <2>2. /\ settings.dabMode \in 0 .. 4
        /\ settings.rate \in (Nat \ {0}) \X (Nat \ {0})
        /\ (49152 * settings.rate[1]) % settings.rate[2] = 0
    BY <2>1, Rates
  <2>3. stc \in Seq((0 .. 1023) \X (0 .. 63))
    BY <2>1, Ensembles
  <2>4. stage = "prepare" /\ m_size = 8 /\ nodes = << >>
    BY DEF Modulator!Init
  <2>5. QED
    BY <2>2, <2>3, <2>4 DEF LengthsInv
<1>2. LengthsInv /\ [Modulator!Next]_modulatorVars => LengthsInv'
  BY LengthsStep
<1>3. LengthsInv => FrameLength
  BY LengthsAsSent
<1>4. QED
  BY <1>1, <1>2, <1>3, ModulatorIsAlone, PTL
=============================================================================
