---------------------------- MODULE Configuration ----------------------------
(***************************************************************************)
(* From the command line to the first frame: parse_args() takes one option *)
(* after the other and then the configuration file (src/ConfigParser.cpp), *)
(* launch_modulator() and prepare_output() choose the format of the        *)
(* samples, their range, the output and the input (src/DabMod.cpp).        *)
(*                                                                         *)
(* A setting is known by where its value comes from; those that decide on  *)
(* the format have values.  All outputs are compiled in.                   *)
(***************************************************************************)
EXTENDS Integers, Sequences, FiniteSets

CONSTANTS CommandLines,  \* records: options, rest (arguments that are no options)
          Files          \* records: mentions, sync, output, fftEngine, format, transport

Radios == {"uhd", "soapysdr", "dexter", "limesdr", "bladerf"}

Settings == {"digitalgain", "clockRate", "gainMode", "dabMode", "outputRate", "filterTaps",
             "loop", "offset", "sync", "txgain", "frequency", "device", "format", "outputName",
             "inputName"}

VARIABLES line, file,    \* what the user has written; the file is read if told so
          stage,         \* "options", "file", "output", "input", "runs" or "refused"
          useFile,
          from,          \* where the value of each setting comes from
          outputs,       \* use...Output
          fftEngine, fileOutputFormat, inputTransport,
          output,        \* the one that is made
          output_format, \* what the FormatConverter makes, "" if there is none
          range,         \* largest sample after the gain: "raw", "1", "127", "2047" or "32767"
          given          \* history: settings given on the command line

vars == <<line, file, stage, useFile, from, outputs, fftEngine, fileOutputFormat, inputTransport,
          output, output_format, range, given>>

Init == /\ line \in CommandLines /\ file \in Files
        /\ stage = "options" /\ useFile = FALSE
        /\ from = [s \in Settings |-> "default"] /\ outputs = {}
        /\ fftEngine = "fftw" /\ fileOutputFormat = "complexf" /\ inputTransport = "file"
        /\ output = "none" /\ output_format = "" /\ range = "raw" /\ given = {}

written == <<line, file>>
chosen == <<fftEngine, fileOutputFormat, inputTransport>>
made == <<output, output_format, range>>

Refuse == /\ stage' = "refused"
          /\ UNCHANGED <<written, useFile, from, outputs, chosen, made, given>>

-----------------------------------------------------------------------------
(* parse_args(), the loop around getopt().                                 *)

(* What an option assigns; -F has two meanings.                            *)
Assigned(option) ==
    CASE option = "a" -> {"digitalgain"} [] option = "c" -> {"clockRate"}
      [] option = "f" -> {"outputName"}  [] option = "g" -> {"gainMode"}
      [] option = "G" -> {"txgain"}      [] option = "l" -> {"loop"}
      [] option = "o" -> {"offset", "sync"}
      [] option = "m" -> {"dabMode"}     [] option = "r" -> {"outputRate"}
      [] option = "T" -> {"filterTaps"}  [] option = "u" -> {"device"}
      [] option = "F" -> IF "file" \in outputs THEN {"format"} ELSE {"frequency"}
      [] OTHER -> {}

(* -V and -h end the program, and so do -g with another name and -F before *)
(* -f or -u, which exclude each other.                                     *)
OptionRefused(option) ==
    \/ option \in {"V", "h", "?", "g bad"}
    \/ option = "f" /\ "uhd" \in outputs
    \/ option = "u" /\ "file" \in outputs
    \/ option = "F" /\ outputs = {}

TakeOption(option) ==
    /\ useFile' = (useFile \/ option = "C")
    /\ from' = [s \in Settings |-> IF s \in Assigned(option) THEN "args" ELSE from[s]]
    /\ given' = given \cup Assigned(option)
    /\ outputs' = outputs \cup (CASE option = "f" -> {"file"} [] option = "u" -> {"uhd"}
                                  [] OTHER -> {})
    /\ fileOutputFormat' = IF option = "F" /\ "file" \in outputs THEN "s8" ELSE fileOutputFormat
    /\ line' = [line EXCEPT !.options = Tail(@)]
    /\ UNCHANGED <<file, stage, fftEngine, inputTransport, made>>

(* The only argument is taken for the name of a configuration file, also   *)
(* if it is an option and its value.                                       *)
OnlyArgument == line.rest = <<>> /\ Len(line.options) = 1 /\ given = {} /\ ~useFile

ParseOption ==
    /\ stage = "options" /\ line.options # <<>>
    /\ \/ OptionRefused(Head(line.options)) /\ Refuse
       \/ ~OptionRefused(Head(line.options)) /\ TakeOption(Head(line.options))
       \/ OnlyArgument /\ Refuse

(* What is left is the input, if any option but -C was given, or else the  *)
(* only argument is the configuration file.                                *)
InputArgument(argument) ==
    /\ from' = [from EXCEPT !["inputName"] = IF argument = "" THEN "default" ELSE "args"]
    /\ given' = IF argument = "" THEN given ELSE given \cup {"inputName"}
    /\ inputTransport' = CASE argument = "tcp" -> "tcp" [] argument = "udp" -> "edi"
                           [] OTHER -> inputTransport

ParseArguments ==
    /\ stage = "options" /\ line.options = <<>>
    /\ \/ /\ given = {} /\ line.rest = <<"ini">> /\ ~useFile
          /\ stage' = "file" /\ useFile' = TRUE
          /\ UNCHANGED <<from, given, inputTransport>>
       \/ /\ given = {} /\ useFile
          /\ stage' = "file" /\ UNCHANGED <<useFile, from, given, inputTransport>>
       \/ /\ given # {} /\ Len(line.rest) <= 1
          /\ InputArgument(IF line.rest = <<>> THEN "" ELSE line.rest[1])
          /\ stage' = IF useFile THEN "file" ELSE "output"
          /\ UNCHANGED useFile
       \/ /\ IF given = {} THEN ~useFile /\ line.rest # <<"ini">> ELSE Len(line.rest) > 1
          /\ stage' = "refused" /\ UNCHANGED <<useFile, from, given, inputTransport>>
    /\ UNCHANGED <<written, outputs, fftEngine, fileOutputFormat, made>>

-----------------------------------------------------------------------------
(* parse_configfile().                                                     *)

(* What is assigned whether or not the file mentions it; a radio's section *)
(* has all its settings, and that of the UHD output replaces them.         *)
Device(selected) == CASE selected = "uhd" -> {"txgain", "frequency", "device"}
                      [] selected = "dexter" -> {"txgain", "frequency"}
                      [] selected \in Radios -> {"txgain", "frequency", "device"}
                      [] selected \in {"file", "zmq"} -> {"outputName"}
                      [] OTHER -> {}

AlwaysAssigned(f) == {"gainMode", "clockRate", "inputName", "sync"} \cup Device(f.output)
                     \cup (IF f.sync THEN {"offset"} ELSE {})

(* What keeps its value unless the file has another one.                   *)
IfMentioned(f) == {"digitalgain", "dabMode", "outputRate", "loop", "filterTaps"}
                  \cup (IF f.output = "file" THEN {"format"} ELSE {})

FromFile(f, s) == IF s \in f.mentions /\ s \in AlwaysAssigned(f) \cup IfMentioned(f) THEN "file"
                  ELSE IF s \in AlwaysAssigned(f) THEN "default"
                  ELSE from[s]

(* A radio has a frequency or a channel.  (The file may be refused for     *)
(* other reasons: it cannot be read, or a value is none.)                  *)
FileRefused(f) ==
    \/ f.fftEngine \notin {"fftw", "kiss", "dexter"}
    \/ f.output \notin {"file", "zmq"} \cup Radios
    \/ f.output = "file" /\ "outputName" \notin f.mentions
    \/ f.output \in Radios /\ ("frequency" \in f.mentions <=> "channel" \in f.mentions)

ParseConfigFile ==
    /\ stage = "file"
    /\ \/ Refuse
       \/ /\ ~FileRefused(file)
          /\ stage' = "output"
          /\ from' = [s \in Settings |-> FromFile(file, s)]
          /\ outputs' = outputs \cup {file.output}
          /\ fftEngine' = file.fftEngine /\ inputTransport' = file.transport
          /\ fileOutputFormat' = IF file.output = "file" /\ "format" \in file.mentions
                                 THEN file.format ELSE fileOutputFormat
          /\ UNCHANGED <<written, useFile, made, given>>

-----------------------------------------------------------------------------
(* launch_modulator() and prepare_output().                                *)

(* (slip: integers are made for the file output only) *)
FormatOfFileOnly ==
    IF "file" \in outputs /\ fileOutputFormat \in {"s8", "u8", "s16"} THEN fileOutputFormat
    ELSE ""

FormatOfFloat ==
    IF "file" \in outputs /\ fileOutputFormat \in {"s8", "u8", "s16"} THEN fileOutputFormat
    ELSE IF outputs \cap {"bladerf", "dexter"} # {} THEN "s16"
    ELSE ""

Format == CASE fftEngine = "kiss" -> ""
            [] fftEngine = "dexter" -> "s16"
            [] OTHER -> FormatOfFloat

(* The first output in the order of prepare_output().                      *)
Order == <<"file", "uhd", "soapysdr", "dexter", "limesdr", "bladerf", "zmq">>
Selected == Order[CHOOSE i \in DOMAIN Order :
                      Order[i] \in outputs /\ \A j \in 1 .. i - 1 : Order[j] \notin outputs]

RangeOfFile == CASE fftEngine # "fftw" -> "raw"
                 [] fileOutputFormat = "complexf_normalised" -> "1"
                 [] fileOutputFormat = "s16" -> "32767"
                 [] fileOutputFormat \in {"s8", "u8"} -> "127"
                 [] OTHER -> "raw"

RangeOf(selected) == CASE selected = "file" -> RangeOfFile
                       [] selected = "dexter" -> "32767"
                       [] selected = "bladerf" -> "2047"
                       [] OTHER -> "1"

OutputRefused(selected) ==
    \/ /\ selected = "file" /\ fftEngine = "fftw"
       /\ fileOutputFormat \notin {"complexf", "complexf_normalised", "s16", "s8", "u8"}
    \/ selected \in {"soapysdr", "limesdr", "bladerf"} /\ fftEngine # "fftw"

PrepareOutput ==
    /\ stage = "output"
    /\ \/ Refuse                                 \* or the output cannot be opened
       \/ /\ outputs # {} /\ ~OutputRefused(Selected)
          /\ output' = Selected /\ output_format' = Format /\ range' = RangeOf(Selected)
          /\ stage' = "input"
          /\ UNCHANGED <<written, useFile, from, outputs, chosen, given>>

(* The input may fail to open.                                             *)
OpenInput ==
    /\ stage = "input"
    /\ \/ Refuse
       \/ /\ inputTransport \in {"file", "tcp", "edi"} /\ stage' = "runs"
          /\ UNCHANGED <<written, useFile, from, outputs, chosen, made, given>>

Done == stage \in {"runs", "refused"} /\ UNCHANGED vars

Next == ParseOption \/ ParseArguments \/ ParseConfigFile \/ PrepareOutput \/ OpenInput \/ Done

Spec == Init /\ [][Next]_vars

-----------------------------------------------------------------------------
(* The samples are made for what the output expects: two decisions, of     *)
(* launch_modulator() and of prepare_output(), agree, unless the command   *)
(* line and the file each choose an output.  (With a fixed-point engine    *)
(* there is no gain to set.)                                               *)
Fits(r, format) == CASE format = "" -> r \in {"raw", "1"}
                     [] format = "s16" -> r \in {"2047", "32767"}
                     [] OTHER -> r = "127"

FormatFits == stage = "runs" /\ Cardinality(outputs) = 1 /\ fftEngine = "fftw"
                  => Fits(range, output_format)

(* The warning of parse_args(): "Command line parameters override settings *)
(* in the configuration file !"                                            *)
CommandLineOverrides == stage = "runs" => \A s \in given : from[s] = "args"
=============================================================================
