---------------------------- MODULE MCDabModulator ----------------------------
(* Small instances of how the modulator is set up, of what it makes and of *)
(* when that has to leave: Configuration, DabModulator, Coding and         *)
(* TimestampDecoder.  A behaviour is one of one of them: what one needs of *)
(* the others is in its own actions.                                       *)
EXTENDS TimestampDecoder

CONSTANTS Cases, HaveDexter, CommandLines, Files,
          Elements, MaxFrames, FrameBytes, Combs, Patterns

VARIABLES part,
          settings, mid, stc, stage, m_size, nodes, edges, position, bytes, d_cifNb, ready,
          m_insert, inserted, round,
          line, file, step, useFile, from, outputs, fftEngine, fileOutputFormat, inputTransport,
          output, output_format, range, given,
          element, mode, count, register, made

(* The subchannels of an ensemble: length and protection of each.          *)
ASSUME Ensembles == \A c \in Cases : c.stc \in Seq((0 .. 1023) \X (0 .. 63))

(* The output rate is rate[1] / rate[2] of 2048000 Hz, and a multiple of   *)
(* 125 Hz: 24 ms of it are a whole number of samples.                      *)
ASSUME Rates == \A c \in Cases :
                   /\ c.settings.dabMode \in 0 .. 4
                   /\ c.settings.rate \in (Nat \ {0}) \X (Nat \ {0})
                   /\ (49152 * c.settings.rate[1]) % c.settings.rate[2] = 0

Modulator == INSTANCE DabModulator WITH pc <- position
Config == INSTANCE Configuration WITH stage <- step
Code == INSTANCE Coding

modulatorVars == <<settings, mid, stc, stage, m_size, nodes, edges, position, bytes, d_cifNb,
                   ready, m_insert, inserted, round>>
configVars == <<line, file, step, useFile, from, outputs, fftEngine, fileOutputFormat,
                inputTransport, output, output_format, range, given>>
codeVars == <<element, mode, count, register, made>>

(* What is chosen at the beginning matters in one part only.               *)
OneCase == CHOOSE c \in Cases : TRUE
OneLine == CHOOSE l \in CommandLines : TRUE
OneFile == CHOOSE f \in Files : TRUE
OneElement == CHOOSE e \in Elements : TRUE

AnyCase == [settings |-> settings, mid |-> mid, stc |-> stc] = OneCase
AnyFiles == line = OneLine /\ file = OneFile
AnyElement == [name |-> element, mode |-> mode] = OneElement

AnyTime == /\ mux = CHOOSE m \in Muxes : TRUE
           /\ pps = 0 /\ fp = 0 /\ timestamp_offset = CHOOSE o \in Offsets : TRUE

ModulatorInit ==
    \/ /\ part = "configuration"
       /\ Modulator!Init /\ AnyCase /\ Code!Init /\ AnyElement /\ Init /\ AnyTime /\ Config!Init
    \/ /\ part = "modulator"
       /\ Config!Init /\ AnyFiles /\ Code!Init /\ AnyElement /\ Init /\ AnyTime /\ Modulator!Init
    \/ /\ part = "coding"
       /\ Config!Init /\ AnyFiles /\ Modulator!Init /\ AnyCase /\ Init /\ AnyTime /\ Code!Init
    \/ /\ part = "time"
       /\ Config!Init /\ AnyFiles /\ Modulator!Init /\ AnyCase /\ Code!Init /\ AnyElement /\ Init

ModulatorNext ==
    \/ /\ part = "configuration" /\ Config!Next
       /\ UNCHANGED <<part, modulatorVars, codeVars, vars>>
    \/ /\ part = "modulator" /\ Modulator!Next
       /\ UNCHANGED <<part, configVars, codeVars, vars>>
    \/ /\ part = "coding" /\ Code!Next
       /\ UNCHANGED <<part, configVars, modulatorVars, vars>>
    \/ /\ part = "time" /\ Next
       /\ UNCHANGED <<part, configVars, modulatorVars, codeVars>>

ModulatorSpec ==
    ModulatorInit /\ [][ModulatorNext]_<<part, vars, configVars, modulatorVars, codeVars>>

-----------------------------------------------------------------------------
(* No length check of the flowgraph fires on what can be modulated, and    *)
(* nothing else is sent (DabModulator::process).                           *)
SuitableIsSent == Modulator!SuitableIsSent

(* A frame lasts 24 ms for each CIF in it, at the output's rate and format.*)
FrameLength == Modulator!FrameLength

(* TII is in the transmission frames that shall have it (src/TII.cpp).     *)
TiiAligned == Modulator!TiiAligned

(* The output gets samples of the format and in the range it expects: two  *)
(* decisions, of launch_modulator() and of prepare_output(), agree.        *)
FormatFits == Config!FormatFits

(* The warning of parse_args(): "Command line parameters override settings *)
(* in the configuration file !"                                            *)
CommandLineOverrides == Config!CommandLineOverrides

(* Interleavers, dispersal, encoder and TII do what ETSI EN 300 401 says.  *)
AsTheStandard == Code!AsTheStandard

(* TII as the comment in TII::enable_carrier() has it, in every mode.      *)
TiiIsSpecified == Code!TiiIsSpecified

-----------------------------------------------------------------------------

AllSettings ==
    {[dabMode |-> m, fftEngine |-> e, output |-> o[1], fileFormat |-> o[2], cicEq |-> cic,
      filter |-> plugins[1], poly |-> plugins[2], rate |-> r] :
        m \in 0 .. 4, e \in {"fftw", "kiss", "dexter"},
        o \in {<<"file", "complexf">>, <<"file", "u8">>, <<"bladerf", "complexf">>, <<"uhd", "complexf">>},
        cic \in BOOLEAN, plugins \in {<<FALSE, FALSE>>, <<TRUE, FALSE>>, <<TRUE, TRUE>>},
        r \in {<<1, 1>>, <<25, 16>>}}

Plain == [dabMode |-> 2, fftEngine |-> "fftw", output |-> "uhd", fileFormat |-> "complexf",
          cicEq |-> FALSE, filter |-> FALSE, poly |-> FALSE, rate |-> <<1, 1>>]

(* 64 kbit/s EEP 3-A, 32 kbit/s EEP 2-B, 64 kbit/s UEP 4 (one byte padded) *)
Mixed == << <<24, 34>>, <<12, 37>>, <<24, 3>> >>

UepLengths == {12, 18, 21, 24, 30, 36, 42, 48, 60, 72, 84, 96, 120, 144}
Lengths == (0 .. 60) \cup UepLengths \cup {n + 1 : n \in UepLengths}

MCCases == {[settings |-> s, mid |-> s.dabMode % 4, stc |-> Mixed] : s \in AllSettings}
           \cup {[settings |-> [Plain EXCEPT !.dabMode = m], mid |-> i, stc |-> <<>>] :
                   m \in 1 .. 4, i \in 0 .. 3}
           \cup {[settings |-> Plain, mid |-> 2, stc |-> << <<n, p>> >>] :
                   n \in Lengths, p \in 0 .. 63}

(* What Configuration calls Radios.                                         *)
RadioNames == {"uhd", "soapysdr", "dexter", "limesdr", "bladerf"}

(* The file alone, options alone, and both, with options that exclude each *)
(* other, come in the wrong order or end the program.                      *)
EveryLine ==
    {[options |-> o, rest |-> r] :
        o \in {<<>>, <<"C">>, <<"g bad">>, <<"F">>, <<"f", "u">>, <<"u", "f">>,
               <<"f", "F", "a", "g">>, <<"u", "F", "o", "G">>, <<"C", "m">>, <<"C", "f">>,
               <<"C", "u", "r">>, <<"C", "l", "g", "T">>, <<"C", "f", "F">>, <<"c", "C">>},
        r \in {<<>>, <<"ini">>, <<"tcp">>, <<"udp">>, <<"ini", "more">>}}

EveryFile ==
    {[output |-> o, fftEngine |-> e, format |-> f, mentions |-> m, sync |-> "offset" \in m,
      transport |-> IF "inputName" \in m THEN "edi" ELSE "file"] :
        o \in {"file", "zmq", "other"} \cup RadioNames, e \in {"fftw", "kiss", "dexter"},
        f \in {"s16", "s8", "u8", "complexf", "complexf_normalised", "other"},
        m \in {{"outputName", "format", "digitalgain"}, {"frequency", "loop", "offset"},
               {"channel", "gainMode", "inputName"}, {"frequency", "channel"}}}

(* The file output alone.                                                  *)
PlainFile == {f \in EveryFile : f.output = "file" /\ f.fftEngine = "fftw" /\ f.format = "s16"}

EveryElement ==
    {[name |-> "FrequencyInterleaver", mode |-> m] : m \in 0 .. 4}
    \cup {[name |-> n, mode |-> 1] :
             n \in {"TimeInterleaver", "PrbsGenerator", "ConvEncoder", "TII"}}

(* A second of 47 units and frames of 3, that is 15 2/3 frames in a second *)
(* (41 2/3 in the program).  TIST is always or never there in ETI; an EDI  *)
(* frame may lack it.                                                      *)
SomeMuxes == {[source |-> "eti", tist |-> TRUE], [source |-> "eti", tist |-> FALSE],
              [source |-> "edi", tist |-> FALSE]}

(* A little later, more than a second earlier.                             *)
SomeOffsets == {5, -53}

(* One frame, some, most of a second, up to nearly two.                    *)
SomeLosses == {1, 2, 12, 18, 28}

TiiInMode2 == {[name |-> "TII", mode |-> 2]}

PlainCase == {[settings |-> Plain, mid |-> 2, stc |-> Mixed]}
=============================================================================
