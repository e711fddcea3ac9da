----------------------------- MODULE UhdTransmit -----------------------------
(***************************************************************************)
(* How a transmission frame gets to a USRP, packet by packet:              *)
(* UHD::transmit_frame (src/output/UHD.cpp) and the muting test in front   *)
(* of it at the end of SDR::handle_frame (src/output/SDR.cpp), both in the *)
(* device thread, while the remote control thread writes m_config.muting.  *)
(* The radio plays the packets of one burst without a gap, whatever their  *)
(* time_spec says; after a packet marked end_of_burst it waits for the     *)
(* time of the next one.                                                   *)
(***************************************************************************)
EXTENDS Naturals

CONSTANT MaxPackets   \* bound: packets per frame (sizeIn / usrp_max_num_samps)

ASSUME PacketsAssumption == MaxPackets \in Nat \ {0}

VARIABLES muting,     \* m_config.muting
          m_running,  \* of the UHD object
          m_require_timestamp_refresh,
          device,     \* where the device thread is
          size, acc,  \* packets of the frame being sent, and how many of them were sent
          valid,      \* frame.ts.timestamp_valid
          skipped,    \* since the last packet sent the time has jumped
          open        \* the last packet sent left the burst open

vars == <<muting, m_running, m_require_timestamp_refresh, device, size, acc, valid, skipped, open>>

Init == /\ muting = FALSE /\ m_running = TRUE /\ m_require_timestamp_refresh = FALSE
        /\ device = "idle" /\ size = 0 /\ acc = 0 /\ valid = FALSE
        /\ skipped = FALSE /\ open = FALSE

(* The end of handle_frame(): a frame is withheld, or passed on, possibly  *)
(* after an irregular timestamp asked for a refresh.                       *)
HandleFrame ==
    /\ device = "idle" /\ acc' = 0
    /\ \E v \in BOOLEAN, irregular \in BOOLEAN :
          LET refresh == m_require_timestamp_refresh \/ (irregular /\ v)
          IN  /\ valid' = v
              /\ skipped' = (skipped \/ muting \/ (irregular /\ v))
              /\ \/ /\ muting /\ m_require_timestamp_refresh' = TRUE
                    /\ UNCHANGED <<device, size>>
                 \/ /\ ~muting /\ m_require_timestamp_refresh' = refresh
                    /\ device' = "sending" /\ size' \in 1 .. MaxPackets
    /\ UNCHANGED <<muting, m_running, open>>

(* (slip: the flag is cleared before it is looked at) *)
EndOfBurstFlagCleared(mute) == mute

EndOfBurst(mute) == mute \/ (valid /\ m_require_timestamp_refresh)

(* One round of the while loop: the radio takes the packet, and muting or  *)
(* the end of the frame ends the loop.                                     *)
SendPacket ==
    /\ device = "sending" /\ m_running
    /\ acc' = acc + 1
    /\ open' = ~EndOfBurst(muting) /\ m_require_timestamp_refresh' = FALSE
    /\ device' = IF muting \/ acc' = size THEN "idle" ELSE "sending"
    /\ skipped' = (muting /\ acc' < size)
    /\ UNCHANGED <<muting, m_running, size, valid>>

(* send() returns 0: the rest of the frame is skipped, which nothing notes. *)
RefusePacket ==
    /\ device = "sending" /\ m_running
    /\ device' = "idle" /\ m_require_timestamp_refresh' = FALSE /\ skipped' = FALSE
    /\ UNCHANGED <<muting, m_running, size, acc, valid, open>>

StoppedWhileSending == /\ device = "sending" /\ ~m_running /\ device' = "idle"
                       /\ UNCHANGED <<muting, m_running, m_require_timestamp_refresh, size, acc,
                                      valid, skipped, open>>

SetMuting == /\ muting' = ~muting
             /\ UNCHANGED <<m_running, m_require_timestamp_refresh, device, size, acc,
                            valid, skipped, open>>

Stop == /\ m_running' = FALSE
        /\ UNCHANGED <<muting, m_require_timestamp_refresh, device, size, acc,
                       valid, skipped, open>>

Next == \/ HandleFrame \/ SendPacket \/ RefusePacket \/ StoppedWhileSending
        \/ SetMuting \/ Stop

Spec == Init /\ [][Next]_vars

-----------------------------------------------------------------------------
(* Whenever the time jumps (frames withheld or cut short by muting at any  *)
(* moment, an irregular timestamp) and the next packet has a timestamp,    *)
(* the burst is over before that packet or ends with it, so that the radio *)
(* looks at the time again.  A refused packet is not counted as a jump:    *)
(* the code takes no notice of it (UHD.cpp: "skipping frame").             *)
JumpsEndTheBurst == [][SendPacket /\ skipped /\ valid => ~open \/ ~open']_vars
=============================================================================
