---------------------------- MODULE DexterDevice ----------------------------
(***************************************************************************)
(* src/output/Dexter.cpp: the clock of the device with its reference, and  *)
(* the channel to the DMA, which is brought up at the time of one frame    *)
(* and then takes frame after frame without looking at their timestamps.   *)
(* The tests that SDR::handle_frame() (src/output/SDR.cpp) makes before    *)
(* it calls transmit_frame() are part of the actions.                      *)
(*                                                                         *)
(* A frame is due at its number; frames may be lost before they get here.  *)
(* Time is counted in frames, in UTC; clks and m_clock_count_at_startup    *)
(* count with it, so that get_real_secs() is the time once the clock has   *)
(* been started.                                                           *)
(***************************************************************************)
EXTENDS Integers

CONSTANTS MaxHoldover,       \* m_conf.maxGPSHoldoverTime
          Margin,            \* 0.2 s in the code
          MuteNoTimestamps,  \* m_conf.muteNoTimestamps
          MaxGap, MaxLost, MaxTime, MaxAhead  \* bounds: time between frames, frames lost,
                                     \* time reached, how far ahead frames come

VARIABLES enableSync,
          clock_state,     \* m_clock_state
          holdover_since,  \* m_holdover_since, -1 for time_point::min()
          gps_seen,        \* time of the last check that found the PPS present
          time,
          channel_up,      \* m_channel_is_up
          start_clks,      \* stream0_start_clks as the time it stands for, -1 for 0
          pushed,          \* frames pushed since the channel is up
          need_refresh,    \* m_require_timestamp_refresh
          number,          \* of the frame that came last
          last_due,        \* SDR's last_tx_second and last_tx_pps
          dexter,          \* where the device thread is
          dab,             \* the frame in its hands
          onair            \* the frame pushed last, and its place in the channel

dexterVars == <<enableSync, clock_state, holdover_since, gps_seen, time, channel_up, start_clks,
                pushed, need_refresh, number, last_due, dexter, dab, onair>>

clockVars == <<clock_state, holdover_since, gps_seen>>
channelVars == <<channel_up, start_clks, pushed, onair>>

NoDab == [due |-> 0, valid |-> FALSE]
NothingOnAir == [due |-> -1, place |-> 0, start |-> -1, age |-> 0]

Init == /\ enableSync = TRUE
        /\ clock_state = "Startup" /\ holdover_since = -1 /\ gps_seen = 0 /\ time = 0
        /\ channel_up = FALSE /\ start_clks = -1 /\ pushed = 0
        /\ need_refresh = FALSE /\ number = -1 /\ last_due = -1
        /\ dexter = "closed" /\ dab = NoDab /\ onair = NothingOnAir

-----------------------------------------------------------------------------
(* The constructor: what the context, the devices, the attributes or the   *)
(* buffer refuse ends it.                                                  *)
Open == /\ dexter = "closed" /\ enableSync' \in BOOLEAN
        /\ dexter' \in {"idle", "failed"}
        /\ UNCHANGED <<clockVars, time, channelVars, need_refresh, number, last_due, dab>>

(* channel_up() and channel_down(); what the hardware does not accept is   *)
(* only logged.                                                            *)
ChannelUp(from, frames) == channel_up' = TRUE /\ start_clks' = from /\ pushed' = frames

ChannelDown == channel_up' = FALSE /\ start_clks' = -1 /\ pushed' = 0 /\ UNCHANGED onair

-----------------------------------------------------------------------------
(* handle_hw_time(), with the state of the two inputs.                     *)

(* The counter is compared with the UTC time over two seconds; a wrong     *)
(* count and an attribute that cannot be read throw.                       *)
Startup(locked, pps) ==
    /\ clock_state = "Startup" /\ UNCHANGED holdover_since
    /\ clock_state' = IF locked /\ pps THEN "Normal" ELSE "Startup"
    /\ gps_seen' = IF locked /\ pps THEN time' ELSE gps_seen

Normal(pps) ==
    /\ clock_state = "Normal"
    /\ clock_state' = IF pps THEN "Normal" ELSE "Holdover"
    /\ holdover_since' = IF pps THEN -1 ELSE time'
    /\ gps_seen' = IF pps THEN time' ELSE gps_seen

(* (slip: the holdover has no end) *)
HoldoverEndless(pps) ==
    /\ clock_state = "Holdover"
    /\ IF pps THEN clock_state' = "Startup" /\ holdover_since' = -1
              ELSE UNCHANGED <<clock_state, holdover_since>>
    /\ UNCHANGED gps_seen

(* Also when the PPS is back the clock is started over.                    *)
Holdover(pps) ==
    /\ clock_state = "Holdover"
    /\ IF pps \/ time' - holdover_since > MaxHoldover
       THEN clock_state' = "Startup" /\ holdover_since' = -1
       ELSE UNCHANGED <<clock_state, holdover_since>>
    /\ UNCHANGED gps_seen

HandleHwTime == \E locked \in BOOLEAN, pps \in BOOLEAN :
                   Startup(locked, pps) \/ Normal(pps) \/ Holdover(pps)

(* is_clk_source_ok().                                                     *)
IsClkSourceOk(ok) == IF enableSync THEN HandleHwTime /\ ok = (clock_state' # "Startup")
                                   ELSE UNCHANGED clockVars /\ ok = TRUE

-----------------------------------------------------------------------------
(* SDR::handle_frame() with a frame due at some time, some time after the  *)
(* last frame: it is dropped, or handed to transmit_frame().               *)

Dropped == dexter' = "idle" /\ UNCHANGED dab

Irregular(due) == last_due # -1 /\ due # last_due + 1

(* (slip: a late frame does not ask for a refresh) *)
LateNotNoted(due) == /\ last_due' = due
                     /\ need_refresh' = (need_refresh \/ Irregular(due))

CheckTimestamp(due) == /\ last_due' = due
                       /\ need_refresh' = (need_refresh \/ Irregular(due) \/ due < time')

HandleFrame ==
    /\ dexter = "idle"
    /\ \E dt \in 0 .. MaxGap, due \in number + 1 .. number + 1 + MaxLost,
          valid \in BOOLEAN, muting \in BOOLEAN, ok \in BOOLEAN :
          /\ time + dt <= MaxTime /\ time' = time + dt
          /\ due <= time' + MaxAhead /\ number' = due
          /\ IsClkSourceOk(ok)
          /\ \/ ~ok /\ Dropped /\ UNCHANGED <<need_refresh, last_due>>
             \/ /\ ok /\ enableSync /\ ~valid /\ MuteNoTimestamps
                /\ Dropped /\ UNCHANGED <<need_refresh, last_due>>
             \/ /\ ok /\ enableSync /\ valid /\ due < time'
                /\ CheckTimestamp(due) /\ Dropped
             \/ /\ ok /\ (enableSync /\ valid => due >= time')
                /\ enableSync /\ ~valid => ~MuteNoTimestamps
                /\ IF muting
                   THEN /\ Dropped /\ need_refresh' = TRUE
                        /\ last_due' = IF enableSync /\ valid THEN due ELSE last_due
                   ELSE /\ dexter' = "transmit" /\ dab' = [due |-> due, valid |-> valid]
                        /\ IF enableSync /\ valid THEN CheckTimestamp(due)
                                                  ELSE UNCHANGED <<need_refresh, last_due>>
    /\ UNCHANGED <<enableSync, channelVars>>

(* An attribute that cannot be read throws: the device thread ends.        *)
Throw == /\ (dexter = "idle" /\ enableSync) \/ dexter = "transmit"
         /\ dexter' = "failed" /\ dab' = NoDab
         /\ UNCHANGED <<enableSync, clockVars, time, channelVars, need_refresh, number, last_due>>

-----------------------------------------------------------------------------
(* transmit_frame().                                                       *)

Timestamped == enableSync /\ dab.valid

(* All buffers of the frame are pushed into the channel that was brought   *)
(* up for a time, or one is refused, which takes the channel down.         *)
Push(start, frames) ==
    \/ /\ ChannelUp(start, frames + 1)
       /\ onair' = [due |-> IF Timestamped THEN dab.due ELSE -1, place |-> frames,
                    start |-> start, age |-> IF enableSync THEN time - gps_seen ELSE 0]
    \/ ChannelDown

(* Not ready, not enough margin, or start_clks cannot be written.          *)
SkipFrame == ~channel_up /\ Timestamped /\ UNCHANGED <<channelVars, need_refresh>>

BringUpAtTime == /\ ~channel_up /\ Timestamped
                 /\ clock_state # "Startup" /\ dab.due - time >= Margin
                 /\ need_refresh' = FALSE /\ Push(dab.due, 0)

(* A frame without timestamp starts the channel at once.                   *)
BringUp == /\ ~channel_up /\ ~Timestamped /\ ~need_refresh
           /\ Push(-1, 0) /\ UNCHANGED need_refresh

(* (slip: the frame that asks for a refresh is pushed all the same) *)
RefreshForgotten == need_refresh /\ need_refresh' = FALSE /\ channel_up /\ Push(start_clks, pushed)

(* The channel goes down, if need be after it came up without a timestamp, *)
(* and the frame is not transmitted.                                       *)
Refresh == /\ need_refresh /\ need_refresh' = FALSE
           /\ channel_up \/ ~Timestamped
           /\ ChannelDown

GoOn == channel_up /\ ~need_refresh /\ Push(start_clks, pushed) /\ UNCHANGED need_refresh

TransmitFrame ==
    /\ dexter = "transmit" /\ dexter' = "idle" /\ dab' = NoDab
    /\ SkipFrame \/ BringUpAtTime \/ BringUp \/ Refresh \/ GoOn
    /\ UNCHANGED <<enableSync, clockVars, time, number, last_due>>

-----------------------------------------------------------------------------
Next == Open \/ HandleFrame \/ TransmitFrame \/ Throw

Spec == Init /\ [][Next]_dexterVars

-----------------------------------------------------------------------------
(* A frame with a timestamp that goes into a channel brought up for a time *)
(* is on the air at its own time, although only the first frame's time was *)
(* looked at: whatever is lost, late, muted or refused before it takes the *)
(* channel down.                                                           *)
OnAirOnTime == onair.due # -1 /\ onair.start # -1 => onair.due = onair.start + onair.place

(* In synchronous transmission the PPS was present not longer ago than the *)
(* holdover time, and the time from one frame, with its check, to the next.*)
HoldoverIsBounded == onair.age <= MaxHoldover + MaxGap
=============================================================================
