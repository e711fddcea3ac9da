----------------------------- MODULE DabModulator -----------------------------
(***************************************************************************)
(* src/DabModulator.cpp: the first call of process() builds the inner      *)
(* flowgraph from the settings and from the subchannels of the first ETI   *)
(* frame; every call then runs it once.  src/Flowgraph.cpp keeps the nodes *)
(* in the order they are processed in, and connect() rearranges them.      *)
(* Each element checks the length of what it gets against what it was      *)
(* built for, and throws.  Buffers are their lengths in bytes.             *)
(***************************************************************************)
EXTENDS SubchannelSource

CONSTANTS Cases,       \* settings together with an ensemble
          HaveDexter   \* built with the FFT accelerator of the Dexter

VARIABLES settings, mid, stc,  \* as in Cases
          stage,      \* "prepare", "setup", "connect", "idle", "run" or "failed"
          m_size,     \* bytes per sample the SDR output counts with
          nodes, edges,
          pc,         \* position of the element that is processed, or the edge connected, next
          bytes,      \* length of what each node put on its edge
          d_cifNb,    \* the BlockPartitioner's
          ready,      \* pipelined elements that have been called once
          m_insert,   \* the TII's
          inserted,   \* the null symbol made last carries TII (if TII is enabled)
          round       \* ETI frames modulated, modulo two transmission frames

vars == <<settings, mid, stc, stage, m_size, nodes, edges, pc, bytes, d_cifNb, ready, m_insert,
          inserted, round>>

-----------------------------------------------------------------------------
(* setMode() and the BlockPartitioner's constructor.                       *)
Mode(m) ==
    << [nbSymbols |-> 76,  nbCarriers |-> 1536, spacing |-> 2048, nullSize |-> 2656,
        symSize |-> 2552, ficSize |-> 288, cifCount |-> 4],
       [nbSymbols |-> 76,  nbCarriers |-> 384,  spacing |-> 512,  nullSize |-> 664,
        symSize |-> 638,  ficSize |-> 288, cifCount |-> 1],
       [nbSymbols |-> 153, nbCarriers |-> 192,  spacing |-> 256,  nullSize |-> 345,
        symSize |-> 319,  ficSize |-> 384, cifCount |-> 1],
       [nbSymbols |-> 76,  nbCarriers |-> 768,  spacing |-> 1024, nullSize |-> 1328,
        symSize |-> 1276, ficSize |-> 288, cifCount |-> 2] >>[m]

T == Mode(settings.dabMode)

FixedPoint == settings.fftEngine # "fftw"

(* sizeof of complexf, complexfix and complexfix_wide. *)
SampleSize    == IF FixedPoint THEN 4 ELSE 8
OfdmSize == IF settings.fftEngine = "kiss" THEN 4 ELSE 8

CifSize == 864 * 8

(* launch_modulator: the format the FormatConverter makes, if any. *)
Format(s) ==
    CASE s.fftEngine = "kiss" -> ""
      [] s.fftEngine = "dexter" -> "s16"
      [] OTHER -> IF s.output = "file" /\ s.fileFormat # "complexf" THEN s.fileFormat
                  ELSE IF s.output \in {"bladerf", "dexter"} THEN "s16" ELSE ""

FormatSize(format) == IF format = "s16" THEN 4 ELSE 2

IsSdr(s) == s.output \notin {"file", "zmq"}

-----------------------------------------------------------------------------
(* Flowgraph::connect(): nodes that are new come last; an output node that *)
(* precedes its input node is moved to the end.                            *)

AppendNew(seq, n) == IF n \in Range(seq) THEN seq ELSE Append(seq, n)

Position(seq, n) == CHOOSE i \in DOMAIN seq : seq[i] = n

(* (slip: the output node stays where it is) *)
ConnectInPlace(seq, edge) == AppendNew(AppendNew(seq, edge[1]), edge[2])

Connect(seq, edge) ==
    LET both == AppendNew(AppendNew(seq, edge[1]), edge[2])
    IN  IF Position(both, edge[1]) > Position(both, edge[2])
        THEN Append(RemoveAt(both, Position(both, edge[2])), edge[2])
        ELSE both

Node(name) == <<name, 0>>
Chain(seq) == [i \in 1 .. Len(seq) - 1 |-> <<seq[i], seq[i + 1]>>]

(* TII exists in two modes only; an exception for the others is caught.    *)
Tii == settings.dabMode \in {1, 2}

(* The elements behind the symbols that the settings call for. *)
Plugins ==
    << Node("cifSig") >>
    \o (IF settings.cicEq THEN << Node("cifCicEq") >> ELSE <<>>)
    \o << Node("cifOfdm") >>
    \o (IF FixedPoint THEN <<>> ELSE << Node("cifGain") >>)
    \o << Node("cifGuard") >>
    \o (IF settings.filter THEN << Node("cifFilter") >> ELSE <<>>)
    \o (IF settings.rate # <<1, 1>> THEN << Node("cifRes") >> ELSE <<>>)
    \o (IF settings.poly THEN << Node("cifPoly") >> ELSE <<>>)
    \o (IF Format(settings) # "" THEN << Node("formatConverter") >> ELSE <<>>)
    \o << Node("output") >>

SubchannelChain(i) == Chain(<< <<"subchannel", i>>, <<"subchPrbs", i>>, <<"subchConv", i>>,
                               <<"subchPunc", i>>, <<"subchInterleaver", i>>, Node("cifMux") >>)

(* The calls of connect(), in their order. *)
Connections ==
    << << Node("cifPrbs"), Node("cifMux") >> >>
    \o Chain(<< Node("fic"), Node("ficPrbs"), Node("ficConv"), Node("ficPunc"), Node("cifPart") >>)
    \o FlattenSeq([i \in 1 .. Len(stc) |-> SubchannelChain(i)])
    \o Chain(<< Node("cifMux"), Node("cifPart"), Node("cifMap"), Node("cifFreq") >>)
    \o << << Node("cifRef"), Node("cifDiff") >>, << Node("cifFreq"), Node("cifDiff") >>,
          << Node("cifNull"), Node("cifSig") >>, << Node("cifDiff"), Node("cifSig") >> >>
    \o (IF Tii THEN Chain(<< Node("tiiRef"), Node("tii"), Node("cifSig") >>) ELSE <<>>)
    \o Chain(Plugins)

-----------------------------------------------------------------------------
Init == /\ \E c \in Cases : settings = c.settings /\ mid = c.mid /\ stc = c.stc
        /\ stage = "prepare" /\ m_size = 8
        /\ nodes = <<>> /\ edges = <<>> /\ pc = 0 /\ bytes = <<>>
        /\ d_cifNb = 0 /\ ready = {} /\ m_insert = TRUE /\ inserted = FALSE /\ round = 0

Fail == /\ stage' = "failed"
        /\ UNCHANGED <<settings, mid, stc, m_size, nodes, edges, pc, bytes, d_cifNb, ready,
                       m_insert, inserted, round>>

(* prepare_output() and the DabModulator's constructor: the constructor    *)
(* takes mode 0 for mode 1.                                                *)
OutputRefuses == FixedPoint /\ settings.output \in {"soapy", "lime", "bladerf"}

(* (slip: it is told the size of a complexf whatever the format) *)
SampleSizeUntold == m_size

(* set_sample_size() is called only when there is a format to convert to.  *)
SampleSizeTold ==
    IF IsSdr(settings) /\ Format(settings) # "" THEN FormatSize(Format(settings)) ELSE m_size

Prepare ==
    /\ stage = "prepare"
    /\ \/ OutputRefuses /\ Fail
       \/ /\ ~OutputRefuses
          /\ stage' = "setup"
          /\ m_size' = SampleSizeTold
          /\ UNCHANGED <<settings, mid, stc, nodes, edges, pc, bytes, d_cifNb, ready, m_insert,
                         inserted, round>>

(* The first frame: the reader makes the SubchannelSources, process() the  *)
(* flowgraph.                                                              *)
SetupThrows ==
    \/ \E i \in DOMAIN stc : GetRules(stc[i][1], stc[i][2]) = <<>>
    \/ settings.dabMode = 0
    \/ settings.fftEngine = "dexter" /\ ~HaveDexter
    \/ FixedPoint /\ (settings.filter \/ settings.poly \/ settings.rate # <<1, 1>>)
    \/ \E i \in DOMAIN stc : FramesizeCu(stc[i][1], stc[i][2]) = 0

SetUp ==
    /\ stage = "setup"
    /\ \/ SetupThrows /\ Fail
       \/ /\ ~SetupThrows
          /\ stage' = "connect" /\ pc' = 1
          /\ edges' = Connections
          /\ UNCHANGED <<settings, mid, stc, m_size, nodes, bytes, d_cifNb, ready, m_insert,
                         inserted, round>>

ConnectNodes ==
    /\ stage = "connect"
    /\ nodes' = Connect(nodes, edges[pc])
    /\ IF pc = Len(edges)
       THEN stage' = "idle" /\ pc' = 0 /\ bytes' = [n \in Range(nodes') |-> 0]
       ELSE pc' = pc + 1 /\ UNCHANGED <<stage, bytes>>
    /\ UNCHANGED <<settings, mid, stc, m_size, edges, d_cifNb, ready, m_insert, inserted, round>>

Run == /\ stage = "idle"
       /\ stage' = "run" /\ pc' = 1
       /\ UNCHANGED <<settings, mid, stc, m_size, nodes, edges, bytes, d_cifNb, ready, m_insert,
                      inserted, round>>

-----------------------------------------------------------------------------
(* process() of the elements: the length of the output for the lengths of  *)
(* the inputs, 0 when the element throws.                                  *)

Expect(condition, length) == IF condition THEN length ELSE 0

(* The edges to an element, and what is on each, as they were connected.   *)
EdgesTo(n) == {k \in DOMAIN edges : edges[k][2] = n}

EdgeTo(n, i) == CHOOSE k \in EdgesTo(n) : Cardinality({j \in EdgesTo(n) : j <= k}) = i

Inputs(n) == [i \in 1 .. Cardinality(EdgesTo(n)) |-> bytes[edges[EdgeTo(n, i)][1]]]

(* FicSource: 96 bytes of FIBs, 128 in mode 3. *)
FicFramesize == IF mid = 3 THEN 128 ELSE 96
FicRules == IF mid = 3 THEN << <<29, 16>>, <<3, 15>> >> ELSE << <<21, 16>>, <<3, 15>> >>

(* From the subchannels to the CIFs.  The first generator of the PRBS has  *)
(* no input.                                                               *)
PrbsGenerator(framesize, in) == Expect(in = <<>> \/ in[1] = framesize, framesize)

ConvEncoder(framesize, in) == Expect(in[1] = framesize, EncodedSize(framesize))

TimeInterleaver(framesize, in) == Expect(in[1] = framesize, framesize)

Cu(i) == FramesizeCu(stc[i][1], stc[i][2])

FrameMultiplexer(in) ==
    Expect(/\ in[1] = CifSize
           /\ Len(in) = Len(stc) + 1
           /\ \A i \in DOMAIN stc : in[i + 1] = 8 * Cu(i),
           CifSize)

(* (slip: the length of the FIC is not compared with the mode's) *)
BlockPartitionerAnyFic(in) == Expect(in[2] = CifSize, T.cifCount * (T.ficSize + CifSize))

BlockPartitioner(in) ==
    Expect(in[1] = T.ficSize /\ in[2] = CifSize, T.cifCount * (T.ficSize + CifSize))

(* From the bits of a transmission frame to its OFDM symbols.              *)

Carriers == T.nbCarriers * SampleSize   \* one symbol

QpskSymbolMapper(in) == Expect(in[1] % (T.nbCarriers \div 4) = 0, 4 * in[1] * SampleSize)

FrequencyInterleaver(in) == Expect((in[1] \div SampleSize) % T.nbCarriers = 0, in[1])

PhaseReference == Carriers

DifferentialModulator(in) ==
    Expect(/\ Len(in) = 2
           /\ in[1] \div SampleSize = T.nbCarriers
           /\ (in[2] \div SampleSize) % T.nbCarriers = 0,
           in[1] + in[2])

NullSymbol == Carriers

TIISymbol(in) == Expect(in[1] = Carriers, Carriers)

SignalMultiplexer(in) == in[2] + (IF Len(in) = 3 THEN in[3] ELSE in[1])

(* From there to the output.  The CIC equalizer always counts in complexf. *)

NbSymbols == T.nbSymbols + 1   \* with the null symbol

CicEqualizer(in) == Expect((in[1] \div 8) % T.nbCarriers = 0, in[1])

OfdmGenerator(in) ==
    Expect(in[1] \div SampleSize = NbSymbols * T.nbCarriers, NbSymbols * T.spacing * OfdmSize)

GainControl(in) == Expect(in[1] % (8 * T.spacing) = 0, in[1])

(* (slip: the null symbol is as long as the others) *)
GuardIntervalInserterEqual(in) ==
    Expect(in[1] \div OfdmSize = NbSymbols * T.spacing, NbSymbols * T.symSize * OfdmSize)

GuardIntervalInserter(in) ==
    Expect(in[1] \div OfdmSize = NbSymbols * T.spacing,
           (T.nullSize + T.nbSymbols * T.symSize) * OfdmSize)

FIRFilter(in) == in[1]

Resampler(in) == (in[1] * settings.rate[1]) \div settings.rate[2]

MemlessPoly(in) == in[1]

FormatConverter(in) == (in[1] \div 8) * FormatSize(Format(settings))

OutputMemory(in) == in[1]

Outcome(n) ==
    LET in == Inputs(n)
        i == n[2]
        size == Framesize(stc[i][1])
    IN  CASE n[1] = "cifPrbs" -> PrbsGenerator(CifSize, in)
          [] n[1] = "fic" -> FicFramesize
          [] n[1] = "ficPrbs" -> PrbsGenerator(FicFramesize, in)
          [] n[1] = "ficConv" -> ConvEncoder(FicFramesize, in)
          [] n[1] = "ficPunc" -> PuncturedSize(0, FicRules, in[1])
          [] n[1] = "subchannel" -> size
          [] n[1] = "subchPrbs" -> PrbsGenerator(size, in)
          [] n[1] = "subchConv" -> ConvEncoder(size, in)
          [] n[1] = "subchPunc" -> PuncturedSize(Cu(i), GetRules(stc[i][1], stc[i][2]), in[1])
          [] n[1] = "subchInterleaver" -> TimeInterleaver(8 * Cu(i), in)
          [] n[1] = "cifMux" -> FrameMultiplexer(in)
          [] n[1] = "cifPart" -> BlockPartitioner(in)
          [] n[1] = "cifMap" -> QpskSymbolMapper(in)
          [] n[1] = "cifFreq" -> FrequencyInterleaver(in)
          [] n[1] \in {"cifRef", "tiiRef"} -> PhaseReference
          [] n[1] = "cifDiff" -> DifferentialModulator(in)
          [] n[1] = "cifNull" -> NullSymbol
          [] n[1] = "tii" -> TIISymbol(in)
          [] n[1] = "cifSig" -> SignalMultiplexer(in)
          [] n[1] = "cifCicEq" -> CicEqualizer(in)
          [] n[1] = "cifOfdm" -> OfdmGenerator(in)
          [] n[1] = "cifGain" -> GainControl(in)
          [] n[1] = "cifGuard" -> GuardIntervalInserter(in)
          [] n[1] = "cifFilter" -> FIRFilter(in)
          [] n[1] = "cifRes" -> Resampler(in)
          [] n[1] = "cifPoly" -> MemlessPoly(in)
          [] n[1] = "formatConverter" -> FormatConverter(in)
          [] n[1] = "output" -> OutputMemory(in)

Pipelined == {"cifGain", "cifFilter", "cifPoly"}

-----------------------------------------------------------------------------
(* Flowgraph::run(): node by node; a node that returns 0 ends the run.     *)

EndRun == stage' = "idle" /\ pc' = 0 /\ round' = (round + 1) % (2 * T.cifCount)
GoOn == IF pc = Len(nodes) THEN EndRun ELSE pc' = pc + 1 /\ UNCHANGED <<stage, round>>

Current(names) == stage = "run" /\ nodes[pc][1] \in names

Put(n) == bytes' = [bytes EXCEPT ![n] = Outcome(n)]

Throws == /\ stage = "run" /\ Outcome(nodes[pc]) = 0 /\ Fail

(* (slip: the count of CIFs is not reset) *)
PartitionNoReset ==
    /\ Current({"cifPart"}) /\ Outcome(nodes[pc]) > 0 /\ Put(nodes[pc])
    /\ d_cifNb' = d_cifNb + 1
    /\ IF d_cifNb' = T.cifCount THEN GoOn ELSE EndRun
    /\ UNCHANGED <<settings, mid, stc, m_size, nodes, edges, ready, m_insert, inserted>>

(* (slip: the partitioner returns the length in its every call) *)
PartitionAlways ==
    /\ Current({"cifPart"}) /\ Outcome(nodes[pc]) > 0 /\ Put(nodes[pc])
    /\ d_cifNb' = (d_cifNb + 1) % T.cifCount
    /\ GoOn
    /\ UNCHANGED <<settings, mid, stc, m_size, nodes, edges, ready, m_insert, inserted>>

Partition ==
    /\ Current({"cifPart"}) /\ Outcome(nodes[pc]) > 0 /\ Put(nodes[pc])
    /\ d_cifNb' = (d_cifNb + 1) % T.cifCount
    /\ IF d_cifNb' = 0 THEN GoOn ELSE EndRun
    /\ UNCHANGED <<settings, mid, stc, m_size, nodes, edges, ready, m_insert, inserted>>

(* A pipelined element has no output in its first round (PipelinedCodec).  *)
Pipeline ==
    LET n == nodes[pc]
    IN  /\ Current(Pipelined) /\ Outcome(n) > 0
        /\ \/ n \in ready /\ Put(n) /\ GoOn /\ UNCHANGED ready
           \/ n \notin ready /\ ready' = ready \cup {n} /\ EndRun /\ UNCHANGED bytes
        /\ UNCHANGED <<settings, mid, stc, m_size, nodes, edges, d_cifNb, m_insert, inserted>>

InsertTii ==
    /\ Current({"tii"}) /\ Outcome(nodes[pc]) > 0 /\ Put(nodes[pc])
    /\ inserted' = m_insert /\ m_insert' = ~m_insert
    /\ GoOn
    /\ UNCHANGED <<settings, mid, stc, m_size, nodes, edges, d_cifNb, ready>>

Process ==
    /\ stage = "run" /\ ~Current(Pipelined \cup {"cifPart", "tii"})
    /\ Outcome(nodes[pc]) > 0 /\ Put(nodes[pc])
    /\ GoOn
    /\ UNCHANGED <<settings, mid, stc, m_size, nodes, edges, d_cifNb, ready, m_insert, inserted>>

(* run_modulator returns failure and the program ends. *)
Ended == stage = "failed" /\ UNCHANGED vars

Next == Prepare \/ SetUp \/ ConnectNodes \/ Run \/ Throws \/ Partition \/ Pipeline \/ InsertTii \/ Process \/ Ended

Spec == Init /\ [][Next]_vars

-----------------------------------------------------------------------------
(* Properties.                                                             *)

TypeOK == /\ settings.dabMode \in 0 .. 4
          /\ settings.fftEngine \in {"fftw", "kiss", "dexter"}
          /\ settings.output \in {"file", "uhd", "zmq", "dexter", "soapy", "lime", "bladerf"}
          /\ settings.fileFormat \in {"complexf", "s16", "u8", "s8"}
          /\ {settings.cicEq, settings.filter, settings.poly} \subseteq BOOLEAN
          /\ settings.rate \in (Nat \ {0}) \X (Nat \ {0})
          /\ mid \in 0 .. 3
          /\ \A i \in DOMAIN stc : stc[i] \in (0 .. 1023) \X (0 .. 63)
          /\ stage \in {"prepare", "setup", "connect", "idle", "run", "failed"}
          /\ m_size \in {2, 4, 8}
          /\ pc \in 0 .. Len(IF stage = "connect" THEN edges ELSE nodes)
          /\ stage \in {"idle", "run"} =>
                /\ \A e \in Range(edges) : {e[1], e[2]} \subseteq Range(nodes)
                /\ DOMAIN bytes = Range(nodes) /\ \A n \in Range(nodes) : bytes[n] \in Nat
          /\ d_cifNb \in 0 .. 3 /\ ready \subseteq Range(nodes)
          /\ {m_insert, inserted} \subseteq BOOLEAN /\ round \in 0 .. 7

(* Flowgraph::connect() never looks further than the two nodes of the new  *)
(* edge, yet for every order of calls DabModulator::process() makes, each  *)
(* element runs after all elements that feed it.                           *)
InputsComeFirst == stage = "run" =>
    \A e \in Range(edges) : e[2] = nodes[pc] => Position(nodes, e[1]) < pc

(* EN 300 401, 6.2.1 and 11.3: the profiles there are. *)
Regular(stl, tpl) ==
    IF ProtectionForm(tpl) = 1
    THEN \/ ProtectionOption(tpl) = 0 /\ stl % 3 = 0 /\ stl > 0
         \/ ProtectionOption(tpl) = 1 /\ stl % 12 = 0 /\ stl > 0
    ELSE \E r \in UepCu : 3 * r[1] = 8 * stl /\ r[2] = ProtectionLevel(tpl)

(* What the program cannot modulate: a profile that does not exist, a FIC  *)
(* of another transmission mode, no mode, and what fixed point lacks (the  *)
(* CIC equalizer takes it by mistake in mode 3, where the count of bytes   *)
(* fits).                                                                  *)
Unsuitable ==
    \/ \E i \in DOMAIN stc : ~Regular(stc[i][1], stc[i][2])
    \/ settings.dabMode = 0
    \/ (mid = 3) # (settings.dabMode = 3)
    \/ settings.fftEngine = "dexter" /\ ~HaveDexter
    \/ FixedPoint /\ \/ OutputRefuses \/ settings.filter \/ settings.poly
                     \/ settings.rate # <<1, 1>>
                     \/ settings.cicEq /\ settings.dabMode # 3

(* No length check of any element fires on what can be modulated: the      *)
(* tables of rules and of capacity units, the mode's constants and the     *)
(* sample types of all elements agree.  Conversely nothing else reaches    *)
(* the output: an irregular profile is caught by one check or another      *)
(* before a frame is sent.                                                 *)
SuitableIsSent == /\ stage = "failed" => Unsuitable
                  /\ Current({"output"}) => ~Unsuitable

(* The size of the samples that reach the output.                          *)
SentSize == IF Format(settings) = "" THEN OfdmSize ELSE FormatSize(Format(settings))

(* Every frame that leaves lasts 24 ms for each CIF in it, at the rate and *)
(* in the format of the output, and src/output/SDR.cpp, which tells a gap  *)
(* from the length of the frame before, counts with the size of the        *)
(* samples that reach it, whatever element made them (not with the KISS    *)
(* engine: its samples have 4 bytes and no format to be told of).          *)
FrameLength == Current({"output"}) =>
    /\ settings.rate[2] * Inputs(Node("output"))[1]
         = settings.rate[1] * T.cifCount * 49152 * SentSize
    /\ IsSdr(settings) /\ settings.fftEngine # "kiss" => m_size = SentSize

(* "Align with frames containing the right data" (src/TII.cpp): TII is in  *)
(* every other transmission frame, in the ones EN 300 401 14.8.1 says,     *)
(* though the elements before and after it do not run as often as it does. *)
TiiAligned == (stage = "run" /\ Tii /\ pc > Position(nodes, Node("tii"))) =>
    LET firstPhase == round + 1 - T.cifCount
    IN  inserted <=> (firstPhase \div T.cifCount) % 2 = 0
=============================================================================
