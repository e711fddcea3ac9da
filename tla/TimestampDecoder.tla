--------------------------- MODULE TimestampDecoder ---------------------------
(***************************************************************************)
(* src/TimestampDecoder.cpp: the time at which an ETI frame has to leave   *)
(* the modulator.  TIST gives it within the second in every frame; the     *)
(* second comes in four parts with four frames (MNSC), and is counted on   *)
(* between.  EDI tells both in every frame.  Around it, what               *)
(* src/EtiReader.cpp makes of a frame, what src/DabMod.cpp does with one   *)
(* whose time is not known, and what src/output/SDR.cpp expects.           *)
(***************************************************************************)
EXTENDS Integers, Sequences

CONSTANTS SecondTicks,   \* TIST units in a second (16384000)
          FrameTicks,    \* in an ETI frame (393216)
          Minute,        \* seconds told by the first part of the MNSC
          Day,           \* minutes told by the second part
          Muxes,         \* what the multiplexer sends: [source, tist]
          Offsets,       \* values of the TIST offset, in TIST units
          Losses,        \* numbers of consecutive frames that get lost
          MaxSeconds,    \* bound: length of a behaviour
          MaxDisturbances \* bound: losses, skipped or undated frames, changes of the offset ...

ASSUME TimestampAssumption ==
    /\ SecondTicks \in Nat /\ FrameTicks \in Nat
    /\ 0 < FrameTicks /\ FrameTicks < SecondTicks
    /\ Minute \in Nat \ {0} /\ Day \in Nat \ {0}
    /\ Muxes \subseteq [source : {"eti", "edi"}, tist : BOOLEAN]
    /\ Offsets \subseteq Int /\ Losses \subseteq Nat \ {0}
    /\ MaxSeconds \in Nat /\ MaxDisturbances \in Nat

(* The frames of three groups take less than a second (4718592 ticks of    *)
(* 16384000).                                                              *)
ASSUME TwelveFramesInSecond == 12 * FrameTicks <= SecondTicks

VARIABLES mux,           \* the Muxes it is
          sec, pps, fp,  \* true time and phase of the frame to be sent next
          group,         \* what the MNSC of these four frames tells: kind and second
          decoder,       \* members of the TimestampDecoder
          m_seconds,     \* the EdiReader's
          timestamp_offset,
          pc,            \* "read" or "decide"
          frame,         \* the frame read last, with its timestamp
          accepted,      \* last_eti_fct is not -1
          missed,        \* a frame was lost or skipped since the last that was accepted
          pending,       \* the transmission frame in the flowgraph, if any, as a sequence
          last,          \* the one sent last, likewise
          refresh,       \* handle_frame called require_timestamp_refresh for it
          disturbances,  \* history: number of causes for a refresh
          unsure,        \* history: frames got lost that the decoder does not know of
          groups         \* history: complete groups that told the time since a loss or the
                         \* start; -1 before the first phase 0

vars == <<mux, sec, pps, fp, group, decoder, m_seconds, timestamp_offset, pc, frame, accepted,
          missed, pending, last, refresh, disturbances, unsure, groups>>

-----------------------------------------------------------------------------
(* frame_timestamp::operator+=: modf() cuts towards zero, so that both     *)
(* parts have the sign of the offset; the loops carry and borrow.          *)

Truncated(diff) == IF diff >= 0 THEN diff \div SecondTicks ELSE - ((- diff) \div SecondTicks)

(* (slip: no borrow, as if the offset could not be negative) *)
AddOnly(ts, diff) ==
    LET new_pps == ts.pps + (diff - Truncated(diff) * SecondTicks)
    IN  [ts EXCEPT !.sec = @ + Truncated(diff) + (IF new_pps >= SecondTicks THEN 1 ELSE 0),
                   !.pps = IF new_pps >= SecondTicks THEN new_pps - SecondTicks ELSE new_pps]

Add(ts, diff) ==
    LET new_pps == ts.pps + (diff - Truncated(diff) * SecondTicks)
    IN  [ts EXCEPT !.sec = @ + Truncated(diff) + (new_pps \div SecondTicks),
                   !.pps = new_pps % SecondTicks]

(* gmtime and mktime, for a calendar of minutes and days only.             *)
TmSec(s)  == s % Minute
TmHour(s) == (s \div Minute) % Day
TmMon(s)  == (s \div Minute) \div Day
Mktime(d) == (d.tm_mon * Day + d.tm_hour) * Minute + d.tm_sec

-----------------------------------------------------------------------------
(* The decoder.                                                            *)

NewDecoder == [time_secs |-> 0, time_pps |-> 0, tm_sec |-> 0, tm_hour |-> 0, tm_mon |-> 0,
               enableDecode |-> FALSE, inhibit_second_update |-> 0,
               full_timestamp_received |-> FALSE, offset_changed |-> FALSE]

(* (slip: the parts told in this group are not held back) *)
UpdateTimestampPPSNoInhibit(d, p) ==
    IF d.time_pps > p THEN [d EXCEPT !.time_secs = @ + 1, !.time_pps = p]
    ELSE [d EXCEPT !.time_pps = p]

UpdateTimestampPPS(d, p) ==
    IF d.time_pps > p
    THEN [d EXCEPT !.time_secs = @ + 1, !.time_pps = p, !.inhibit_second_update = 2]
    ELSE [d EXCEPT !.time_pps = p]

(* (slip: the inhibition is not counted down) *)
UpdateTimestampSecondsStuck(d, secs) ==
    IF d.inhibit_second_update > 0 THEN d
    ELSE [d EXCEPT !.time_secs = secs, !.full_timestamp_received = TRUE]

(* (slip: off by one, the inhibition never ends) *)
UpdateTimestampSecondsBelow(d, secs) ==
    IF d.inhibit_second_update >= 0
    THEN [d EXCEPT !.inhibit_second_update = @ - 1]
    ELSE [d EXCEPT !.time_secs = secs, !.full_timestamp_received = TRUE]

UpdateTimestampSeconds(d, secs) ==
    IF d.inhibit_second_update > 0
    THEN [d EXCEPT !.inhibit_second_update = @ - 1]
    ELSE [d EXCEPT !.time_secs = secs, !.full_timestamp_received = TRUE]

(* group.kind is "time", "other" (type or identifier differ) or "unsynced" *)
(* (the flag sync_to_frame is not set).  The three parts stand for seconds *)
(* and minutes, hours and days, months and years of temp_time.             *)
PushMNSCData(d, phase) ==
    CASE phase = 0 -> [d EXCEPT !.enableDecode = (group.kind # "other"),
                                !.tm_sec = 0, !.tm_hour = 0, !.tm_mon = 0]
      [] phase = 1 -> [d EXCEPT !.tm_sec = TmSec(group.second),
                                !.enableDecode = @ /\ group.kind # "unsynced"]
      [] phase = 2 -> [d EXCEPT !.tm_hour = TmHour(group.second)]
      [] phase = 3 ->
            LET complete == [d EXCEPT !.tm_mon = TmMon(group.second)]
            IN  IF d.enableDecode THEN UpdateTimestampSeconds(complete, Mktime(complete))
                ELSE complete

UpdateTimestampEti(d, phase, p) == PushMNSCData(UpdateTimestampPPS(d, p), phase)

UpdateTimestampEdi(d, seconds, p) ==
    [d EXCEPT !.time_secs = seconds, !.time_pps = p, !.full_timestamp_received = TRUE]

(* getTimestamp(); it also clears offset_changed.                          *)
GetTimestamp ==
    Add([valid |-> decoder'.full_timestamp_received, sec |-> decoder'.time_secs,
         pps |-> decoder'.time_pps], timestamp_offset)

-----------------------------------------------------------------------------
(* The multiplexer and the way to the modulator (external).  TIST is the   *)
(* time of its frame, the MNSC tells the second of the frame in phase 0.   *)

SecondOf(ticks) == ticks \div SecondTicks

(* n frames further.  A group that is not the time may hold anything.      *)
Advance(n) ==
    /\ pps' = (pps + n * FrameTicks) % SecondTicks
    /\ sec' = sec + SecondOf(pps + n * FrameTicks)
    /\ sec' <= MaxSeconds
    /\ fp' = (fp + n) % 4
    /\ IF fp + n < 4 THEN UNCHANGED group
       ELSE \E kind \in {"time", "other", "unsynced"} :
               group' = [kind |-> kind,
                         second |-> sec' + SecondOf(pps' - fp' * FrameTicks)
                                    + (IF kind = "time" THEN 0 ELSE 1)]

Init == /\ mux \in Muxes
        /\ sec = 1 /\ pps \in 0 .. SecondTicks - 1 /\ fp \in 0 .. 3
        /\ group = [kind |-> "time", second |-> 1 + SecondOf(pps - fp * FrameTicks)]
        /\ decoder = NewDecoder /\ m_seconds = 0 /\ timestamp_offset \in Offsets
        /\ pc = "read" /\ frame = <<>>
        /\ accepted = FALSE /\ missed = FALSE
        /\ pending = <<>> /\ last = <<>> /\ refresh = FALSE
        /\ disturbances = 0 /\ unsure = FALSE /\ groups = -1

Disturb == disturbances < MaxDisturbances /\ disturbances' = disturbances + 1

Lose ==
    /\ pc = "read"
    /\ Disturb
    /\ \E n \in Losses : Advance(n)
    /\ missed' = accepted
    /\ unsure' = (mux.source = "eti") /\ groups' = -1
    /\ UNCHANGED <<mux, decoder, m_seconds, timestamp_offset, pc, frame, accepted, pending, last,
                   refresh>>

-----------------------------------------------------------------------------
(* A frame is read: the end of EtiReader::loadEtiData() with a TIST of     *)
(* 0xFFFFFF where the multiplexer gives none, or EdiReader::assemble().    *)
(* An EDI frame without ATST leaves the seconds of the one before, and its *)
(* TIST is a number beyond the second.                                     *)

CountGroups ==
    IF fp = 3 /\ groups >= 0
    THEN IF group.kind # "time" THEN 0 ELSE IF groups < 5 THEN groups + 1 ELSE 5
    ELSE IF fp = 0 /\ groups = -1 THEN 0 ELSE groups

ReadEti ==
    /\ mux.source = "eti"
    /\ decoder' = [UpdateTimestampEti(decoder, fp, IF mux.tist THEN pps ELSE 0)
                      EXCEPT !.offset_changed = FALSE]
    /\ UNCHANGED <<m_seconds, disturbances>>

NullTist == SecondTicks + FrameTicks

ReadEdi ==
    /\ mux.source = "edi"
    /\ \E atst \in {TRUE, mux.tist} :
          /\ IF atst THEN UNCHANGED disturbances ELSE Disturb
          /\ m_seconds' = IF atst THEN sec ELSE m_seconds
          /\ decoder' = [UpdateTimestampEdi(decoder, m_seconds', IF atst THEN pps ELSE NullTist)
                            EXCEPT !.offset_changed = FALSE]

Read ==
    /\ pc = "read"
    /\ ReadEti \/ ReadEdi
    /\ frame' = [ts |-> GetTimestamp,
                 dated |-> IF mux.source = "eti" THEN mux.tist ELSE decoder'.time_pps # NullTist,
                 offset_changed |-> decoder.offset_changed, fp |-> fp,
                 exact |-> sec * SecondTicks + pps + timestamp_offset,
                 cause |-> disturbances, unsure |-> unsure]
    /\ groups' = CountGroups
    /\ Advance(1)
    /\ pc' = "decide"
    /\ UNCHANGED <<mux, timestamp_offset, accepted, missed, pending, last, refresh, unsure>>

-----------------------------------------------------------------------------
(* The remote control changes the offset: set_parameter().  A value that   *)
(* is no number makes it 0 before the exception.                           *)
SetOffset ==
    /\ Disturb
    /\ \/ /\ \E o \in Offsets \ {timestamp_offset} : timestamp_offset' = o
          /\ decoder' = [decoder EXCEPT !.offset_changed = TRUE]
       \/ timestamp_offset' = 0 /\ UNCHANGED decoder
    /\ UNCHANGED <<mux, sec, pps, fp, group, m_seconds, pc, frame, accepted, missed, pending,
                   last, refresh, unsure, groups>>

-----------------------------------------------------------------------------
(* run_modulator() with synchronous set, after a frame was read.  It takes *)
(* the timestamp once more, which clears offset_changed.                   *)

FlagCleared == decoder' = [decoder EXCEPT !.offset_changed = FALSE]

(* The timestamp is invalid, or too near (a disturbance).                  *)
Skip ==
    /\ pc = "decide"
    /\ IF frame.ts.valid THEN Disturb ELSE UNCHANGED disturbances
    /\ missed' = accepted
    /\ FlagCleared
    /\ pc' = "read"
    /\ UNCHANGED <<mux, sec, pps, fp, group, m_seconds, timestamp_offset, frame, accepted,
                   pending, last, refresh, unsure, groups>>

WaitForPhase0 ==
    /\ pc = "decide" /\ frame.ts.valid
    /\ ~accepted /\ frame.fp # 0
    /\ FlagCleared
    /\ pc' = "read"
    /\ UNCHANGED <<mux, sec, pps, fp, group, m_seconds, timestamp_offset, frame, accepted, missed,
                   pending, last, refresh, disturbances, unsure, groups>>

(* A discontinuity, or an exception of the FrameMultiplexer: the next      *)
(* flowgraph comes with a new EtiReader, but with the same EdiReader.      *)
Restart ==
    /\ pc = "decide" /\ frame.ts.valid
    /\ IF accepted /\ missed THEN UNCHANGED disturbances ELSE Disturb
    /\ IF mux.source = "eti" THEN decoder' = NewDecoder /\ unsure' = FALSE /\ groups' = -1
       ELSE FlagCleared /\ UNCHANGED <<unsure, groups>>
    /\ accepted' = FALSE /\ missed' = FALSE /\ pending' = <<>>
    /\ pc' = "read"
    /\ UNCHANGED <<mux, sec, pps, fp, group, m_seconds, timestamp_offset, frame, last, refresh>>

(* handle_frame() of the SDR output: the timestamp expected after f.       *)
(* (slip: without carry)                                                   *)
ExpectedNoCarry(f) == [sec |-> f.ts.sec, pps |-> f.ts.pps + 4 * FrameTicks]

Expected(f) ==
    LET expected_pps == f.ts.pps + ((4 * FrameTicks) % SecondTicks)
    IN  [sec |-> f.ts.sec + SecondOf(4 * FrameTicks) + SecondOf(expected_pps),
         pps |-> expected_pps % SecondTicks]

Irregular(f) == /\ last # <<>>
                /\ Expected(last[1]) # [sec |-> f.ts.sec, pps |-> f.ts.pps]

(* The transmission frame takes the timestamp of its first ETI frame and   *)
(* leaves the flowgraph with the fourth.                                   *)
Modulate ==
    /\ pc = "decide" /\ frame.ts.valid
    /\ IF accepted THEN ~missed ELSE frame.fp = 0
    /\ accepted' = TRUE
    /\ FlagCleared
    /\ CASE frame.fp = 0 -> pending' = <<frame>> /\ UNCHANGED <<last, refresh>>
         [] frame.fp \in {1, 2} -> UNCHANGED <<pending, last, refresh>>
         [] frame.fp = 3 -> /\ refresh' = (pending[1].offset_changed \/ Irregular(pending[1]))
                            /\ last' = pending /\ pending' = <<>>
    /\ pc' = "read"
    /\ UNCHANGED <<mux, sec, pps, fp, group, m_seconds, timestamp_offset, frame, missed,
                   disturbances, unsure, groups>>

(* Bound.                                                                  *)
Ended == pc = "read" /\ sec = MaxSeconds /\ UNCHANGED vars

Next == Lose \/ Read \/ SetOffset \/ Skip \/ WaitForPhase0 \/ Restart \/ Modulate \/ Ended

Spec == Init /\ [][Next]_vars

-----------------------------------------------------------------------------
(* Properties.                                                             *)

TypeOK ==
    /\ mux \in Muxes
    /\ sec \in Nat /\ pps \in 0 .. SecondTicks - 1 /\ fp \in 0 .. 3
    /\ group \in [kind : {"time", "other", "unsynced"}, second : Int]
    /\ decoder.time_secs \in Int /\ decoder.time_pps \in Nat
    /\ decoder.inhibit_second_update \in 0 .. 2
    /\ m_seconds \in Nat /\ timestamp_offset \in Offsets \cup {0}
    /\ pc \in {"read", "decide"}
    /\ Len(pending) \in 0 .. 1 /\ Len(last) \in 0 .. 1
    /\ {accepted, missed, refresh, unsure} \subseteq BOOLEAN
    /\ disturbances \in 0 .. MaxDisturbances /\ groups \in -1 .. 5

Exact(f) == /\ f.ts.pps \in 0 .. SecondTicks - 1
            /\ f.ts.sec * SecondTicks + f.ts.pps = f.exact

(* TimestampDecoder: as long as no frame is lost unnoticed, a timestamp is *)
(* the time the multiplexer meant plus the offset, for every place of the  *)
(* beginning of a second in the four frames that tell it, whatever the     *)
(* MNSC carries in other groups, and for negative offsets.                 *)
TrueTime == frame # <<>> /\ frame.dated /\ frame.ts.valid /\ ~frame.unsure => Exact(frame)

(* Frames lost before the flowgraph has started are not noticed, and parts *)
(* of two times may then be put together; five complete groups later, at   *)
(* the latest, the time is known and right.                                *)
TrueAgain == frame # <<>> /\ frame.dated /\ groups = 5 => frame.ts.valid /\ Exact(frame)

(* SDR::handle_frame() asks for a timestamp refresh (a break in the        *)
(* signal) only if there was a cause between the two transmission frames:  *)
(* the expected time follows the decoder's over every carry.  A frame      *)
(* without timestamp, which goes out with a wrong one, is a cause.         *)
NoFalseRefresh ==
    [][last' # last /\ refresh' /\ last # <<>> =>
          \/ last'[1].cause # last[1].cause
          \/ last[1].unsure \/ last'[1].unsure
          \/ ~last[1].dated \/ ~last'[1].dated]_vars
=============================================================================
