------------------------------ MODULE MCDevice ------------------------------
(***************************************************************************)
(* The output to a radio and the parts of the devices, one in each         *)
(* behaviour: they are bound to each other only by what UhdTransmit,       *)
(* SdrOutput and DexterDevice have in their own actions, so that the       *)
(* states of all of them add up and need not be multiplied.  The limits    *)
(* 250, 8 and 100 s of SDR.cpp are scaled down so that a few frames reach  *)
(* them.                                                                   *)
(***************************************************************************)
EXTENDS UhdTransmit

CONSTANTS MaxTxFrames, MaxRestarts, Clocks, CheckInterval, InitialWait, MaxGap,
          MaxHoldover, Margin, MuteNoTimestamps, MaxLost, MaxTime, MaxAhead,
          Values, Coerce(_), MaxJump,
          FramesMaxSizeSync, FramesMaxSizeUnsync, AbortFuture, SendMayFail, Offsets,
          RcParameters, MaxFrames, Instants

(* A queue has room for a frame, and no offset reaches back before the     *)
(* time that is called 0; times and counts are natural numbers.            *)
ASSUME OutputSettings ==
    /\ FramesMaxSizeSync \in Nat \ {0} /\ FramesMaxSizeUnsync \in Nat \ {0}
    /\ Offsets \subseteq Nat /\ Instants \subseteq Nat

ASSUME ClockSettings == /\ CheckInterval \in Nat \ {0} /\ MaxGap \in Nat /\ MaxHoldover \in Nat
                        /\ \A c \in Clocks : c.holdover \in Nat

ASSUME DriverSettings == Values \subseteq Nat /\ MaxJump \in Nat

VARIABLES part,
          state, tx, rx, rx_second, server_up, serve, receive, waiting, rx_ts, tx_frames,
          restarts, reply,
          clock, gps_state, num_checks, since_check, fix_future, time_set, suppress, passed,
          failed, evidence,
          enableSync, clock_state, holdover_since, gps_seen, time, channel_up, start_clks,
          pushed, need_refresh, number, last_due, dexter, dab, onair,
          driver, radio, m_config, hw, reported, stream_active, stream_time, frame_time,
          stream_refresh, packet,
          synchronous, muted, running, m_queue, wakeup, main, frames, offset, thread, frame,
          last_tx, refresh, now, sent, disturbed

Feedback == INSTANCE Feedback
UsrpTime == INSTANCE UsrpTime
Dexter == INSTANCE DexterDevice
Drivers == INSTANCE Drivers
Sdr == INSTANCE SdrOutput WITH device <- thread, enableSync <- synchronous, muting <- muted,
                               m_running <- running

feedbackVars == <<state, tx, rx, rx_second, server_up, serve, receive, waiting, rx_ts, tx_frames,
                  restarts, reply>>
clockVars == <<clock, gps_state, num_checks, since_check, fix_future, time_set, suppress, passed,
               failed, evidence>>
dexterVars == <<enableSync, clock_state, holdover_since, gps_seen, time, channel_up, start_clks,
                pushed, need_refresh, number, last_due, dexter, dab, onair>>
driverVars == <<driver, radio, m_config, hw, reported, stream_active, stream_time, frame_time,
                stream_refresh, packet>>
sdrVars == <<synchronous, muted, running, m_queue, wakeup, main, frames, offset,
             thread, frame, last_tx, refresh, now, sent, disturbed>>

deviceVars == <<part, vars, feedbackVars, clockVars, dexterVars, driverVars, sdrVars>>

DeviceInit == /\ part = "none" /\ Init /\ Feedback!Init /\ UsrpTime!Init /\ Dexter!Init
              /\ Drivers!Init /\ Sdr!Init

AnyMode == synchronous = TRUE

Choose == /\ part = "none"
          /\ \/ part' = "output"
             \/ part' \in {"packets", "feedback", "clock", "dexter", "settings"} /\ AnyMode
          /\ UNCHANGED <<vars, feedbackVars, clockVars, dexterVars, driverVars, sdrVars>>

DeviceNext ==
    \/ Choose
    \/ /\ part = "packets" /\ Next
       /\ UNCHANGED <<part, feedbackVars, clockVars, dexterVars, driverVars, sdrVars>>
    \/ /\ part = "feedback" /\ Feedback!Next
       /\ UNCHANGED <<part, vars, clockVars, dexterVars, driverVars, sdrVars>>
    \/ /\ part = "clock" /\ UsrpTime!Next
       /\ UNCHANGED <<part, vars, feedbackVars, dexterVars, driverVars, sdrVars>>
    \/ /\ part = "dexter" /\ Dexter!Next
       /\ UNCHANGED <<part, vars, feedbackVars, clockVars, driverVars, sdrVars>>
    \/ /\ part = "settings" /\ Drivers!Next
       /\ UNCHANGED <<part, vars, feedbackVars, clockVars, dexterVars, sdrVars>>
    \/ /\ part = "output" /\ Sdr!Next
       /\ UNCHANGED <<part, vars, feedbackVars, clockVars, dexterVars, driverVars>>

DeviceSpec == /\ DeviceInit /\ [][DeviceNext]_deviceVars
              /\ WF_sdrVars(part = "output" /\ Sdr!Device)
              /\ WF_sdrVars(part = "output" /\ Sdr!Destroy)
              /\ WF_sdrVars(part = "output" /\ Sdr!ProcessMetadata)

-----------------------------------------------------------------------------
(* The queue and the device thread of src/output/SDR.cpp: a gap in time    *)
(* reaches the radio with a refresh, frames keep their order, the death of *)
(* the thread is noticed, and the destructor gets it to end.               *)
NoSilentGap == Sdr!NoSilentGap

NeverBackwards == Sdr!NeverBackwards

DeadThreadIsNoticed == Sdr!DeadThreadIsNoticed

StopTerminates == Sdr!StopTerminates

(* The samples for the predistortion tool come from one and the same burst *)
(* (src/output/Feedback.cpp).                                              *)
SameBurst == Feedback!SameBurst

(* No clock is trusted for longer than its holdover: frames pass the USRP  *)
(* check only with the time set and a recent fix, and Dexter goes on       *)
(* without PPS for the holdover time only.                                 *)
ClocksAreTrusted == UsrpTime!TimeCanBeTrusted /\ Dexter!HoldoverIsBounded

(* Dexter's channel plays each frame at its own time, and Soapy's stream   *)
(* that is active goes on at the time of the next frame.                   *)
OnAirOnTime == Dexter!OnAirOnTime /\ Drivers!StreamOnTime

(* What the remote control tells of the settings is so, or its last change *)
(* was reported as failed.                                                 *)
SettingsAreTrue == Drivers!ToldIsSet

-----------------------------------------------------------------------------
EveryClock == [refclk : {"internal", "external", "gpsdo"},
               pps : {"none", "pps", "gpsdo", "external", "MIMO"},
               holdover : {0, 4, 9}, crash : BOOLEAN]

(* A radio that takes even values only.                                    *)
Even(v) == 2 * (v \div 2)
=============================================================================
