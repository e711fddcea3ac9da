------------------------------ MODULE SdrOutput ------------------------------
(***************************************************************************)
(* src/output/SDR.cpp: the main thread hands over one transmission frame   *)
(* with its timestamp at a time, process() then process_metadata(); the    *)
(* device thread takes frames from m_queue, decides what to do with each   *)
(* (handle_frame) and gives it to the radio; the remote control thread     *)
(* changes m_config while both run.                                        *)
(*                                                                         *)
(* m_queue is a ThreadsafeQueue, whose operations are atomic to its users  *)
(* (see ThreadsafeQueue).  Time is counted in transmission frames: a frame *)
(* is due at its number plus the configured offset.                        *)
(***************************************************************************)
EXTENDS Integers, Sequences

CONSTANTS FramesMaxSizeSync, FramesMaxSizeUnsync,  \* 250 and 8 in the code
          AbortFuture,        \* TIMESTAMP_ABORT_FUTURE, 100 s in the code
          MuteNoTimestamps,   \* m_config.muteNoTimestamps
          SendMayFail,        \* the radio may refuse a frame, or its driver throw
          Offsets,            \* offsets the operator configures
          RcParameters,       \* parameters the remote control writes
          Instants,           \* times later than 0 that the clock of the radio shows
          MaxFrames           \* bound: frames modulated

VARIABLES enableSync, muting,  \* m_config, shared by the three threads
          m_running,           \* atomic, shared by main and device thread
          m_queue, wakeup,     \* the queue and its wakeup_requested
          main,                \* where the main thread is
          frames,              \* number of frames passed to process()
          offset,              \* offset of the last frame
          device,              \* where the device thread is
          frame,               \* frame in the hands of the device thread
          last_tx,             \* last_tx_second and last_tx_pps, -1 before initialised
          refresh,             \* the radio's m_require_timestamp_refresh
          now,                 \* get_real_secs() of the radio
          sent,                \* the frame the radio got last, and how
          disturbed            \* how many of the next frames sent at their time may hide a gap

config == <<enableSync, muting>>
mainVars == <<main, frames, offset>>
radio == <<sent, disturbed>>
deviceVars == <<device, frame, last_tx, refresh, radio>>
vars == <<config, m_running, m_queue, wakeup, mainVars, deviceVars, now>>

(* A frame with its timestamp: number, time it is due, validity of the     *)
(* timestamp, and whether the offset changed with it.                      *)
Frame == [n : 1 .. MaxFrames, due : Nat, valid : BOOLEAN, offset_changed : BOOLEAN]

NoFrame == [n |-> 0, due |-> 0, valid |-> FALSE, offset_changed |-> FALSE]

Init == /\ enableSync \in BOOLEAN /\ muting = FALSE
        /\ m_running = TRUE /\ m_queue = <<>> /\ wakeup = FALSE
        /\ main = "idle" /\ frames = 0 /\ offset = 0
        /\ device = "loop" /\ frame = NoFrame /\ last_tx = -1 /\ refresh = FALSE
        /\ now = 0
        /\ sent = [n |-> 0, timed |-> FALSE, due |-> -1, before |-> -1, fresh |-> FALSE,
                   excused |-> FALSE]
        /\ disturbed = 0

-----------------------------------------------------------------------------
(* Main thread.                                                            *)

(* process(): the exception ends run_modulator, and launch_modulator with  *)
(* it, which destroys the output.                                          *)
Process ==
    /\ main = "idle" /\ frames < MaxFrames
    /\ IF m_running THEN main' = "metadata" /\ frames' = frames + 1
                    ELSE main' = "failed" /\ UNCHANGED frames
    /\ UNCHANGED <<config, m_running, m_queue, wakeup, offset, deviceVars, now>>

(* (slip: an off-by-one in the overflow test) *)
DropOldestTooFew(q, max) == IF Len(q) > max THEN SubSeq(q, Len(q) - max + 2, Len(q)) ELSE q

DropOldest(q, max) == IF Len(q) >= max THEN SubSeq(q, Len(q) - max + 2, Len(q)) ELSE q

MaxSize == IF enableSync THEN FramesMaxSizeSync ELSE FramesMaxSizeUnsync

(* (slip: the new frame is put in front) *)
EnqueueInFront(f) == m_queue' = <<f>> \o DropOldest(m_queue, MaxSize)

Enqueue(f) == m_queue' = Append(DropOldest(m_queue, MaxSize), f)

(* m_running is read a second time.  Without metadata the frame is         *)
(* dropped.                                                                *)
ProcessMetadata ==
    /\ main = "metadata" /\ main' = "idle"
    /\ \E o \in Offsets, valid \in BOOLEAN :
          /\ offset' = o
          /\ \/ m_running /\ Enqueue([n |-> frames, due |-> frames + o, valid |-> valid,
                                      offset_changed |-> o # offset])
             \/ UNCHANGED m_queue
    /\ UNCHANGED <<config, m_running, wakeup, frames, deviceVars, now>>

(* ~SDR(): clear m_running, trigger_wakeup, join.                          *)
StopRunning == /\ main \in {"idle", "failed"} /\ main' = "wakeup"
               /\ m_running' = FALSE
               /\ UNCHANGED <<config, m_queue, wakeup, frames, offset, deviceVars, now>>

(* (slip: the thread is joined without being woken) *)
WakeUpForgotten == /\ main = "wakeup" /\ main' = "joining"
                   /\ UNCHANGED <<config, m_running, m_queue, wakeup, frames, offset,
                                  deviceVars, now>>

WakeUp == /\ main = "wakeup" /\ main' = "joining" /\ wakeup' = TRUE
          /\ UNCHANGED <<config, m_running, m_queue, frames, offset, deviceVars, now>>

Join == /\ main = "joining" /\ device = "done" /\ main' = "joined"
        /\ UNCHANGED <<config, m_running, m_queue, wakeup, frames, offset, deviceVars, now>>

-----------------------------------------------------------------------------
(* Device thread: process_thread_entry().                                  *)

(* The frame is local to one round of the loop.                            *)
Goto(place) == /\ device' = place
               /\ frame' = IF place \in {"loop", "leave"} THEN NoFrame ELSE frame

TestRunning == /\ device = "loop"
               /\ Goto(IF m_running THEN "wait" ELSE "leave")
               /\ UNCHANGED <<config, m_running, m_queue, wakeup, mainVars, now,
                              last_tx, refresh, radio>>

WaitThrowsWakeup == /\ device = "wait" /\ wakeup
                    /\ wakeup' = FALSE /\ Goto("leave")
                    /\ UNCHANGED <<config, m_running, m_queue, mainVars, now,
                                   last_tx, refresh, radio>>

WaitAndPop == /\ device = "wait" /\ ~wakeup /\ m_queue # <<>>
              /\ frame' = Head(m_queue) /\ m_queue' = Tail(m_queue) /\ device' = "popped"
              /\ UNCHANGED <<config, m_running, wakeup, mainVars, now, last_tx, refresh, radio>>

TestRunningAgain == /\ device = "popped"
                    /\ Goto(IF m_running THEN "clock" ELSE "leave")
                    /\ UNCHANGED <<config, m_running, m_queue, wakeup, mainVars, now,
                                   last_tx, refresh, radio>>

(* is_clk_source_ok(): the frame goes on, is dropped, or the loss of the   *)
(* reference clock ends the thread (refclk_lock_loss_behaviour CRASH).     *)
CheckClock == /\ device = "clock"
              /\ \E next \in {"untimed", "loop", "leave"} : Goto(next)
              /\ UNCHANGED <<config, m_running, m_queue, wakeup, mainVars, now,
                             last_tx, refresh, radio>>

CheckNoTimestamp ==
    /\ device = "untimed"
    /\ Goto(IF enableSync /\ MuteNoTimestamps /\ ~frame.valid THEN "loop" ELSE "timestamp")
    /\ UNCHANGED <<config, m_running, m_queue, wakeup, mainVars, now, last_tx, refresh, radio>>

Expected == last_tx + 1

(* (slip: only a frame due too early counts) *)
IrregularWhenEarly == last_tx # -1 /\ frame.due < Expected

Irregular == last_tx # -1 /\ frame.due # Expected

Late == frame.due < now

(* (slip: a frame that is too late is dropped without a word to the radio) *)
RefreshUnlessLate == frame.offset_changed \/ Irregular

NeedsRefresh == frame.offset_changed \/ Irregular \/ Late

(* enableSync is read a second time, for the timestamp part of             *)
(* handle_frame() up to the muting test.                                   *)
CheckTimestamp ==
    /\ device = "timestamp"
    /\ IF enableSync /\ frame.valid
       THEN /\ last_tx' = frame.due /\ refresh' = (refresh \/ NeedsRefresh)
            /\ Goto(IF Late THEN "loop"
                    ELSE IF frame.due > now + AbortFuture THEN "leave"
                    ELSE "muting")
       ELSE Goto("muting") /\ UNCHANGED <<last_tx, refresh>>
    /\ UNCHANGED <<config, m_running, m_queue, wakeup, mainVars, now, radio>>

CheckMuting == /\ device = "muting"
               /\ IF muting THEN Goto("loop") /\ refresh' = TRUE
                            ELSE Goto("transmit") /\ UNCHANGED refresh
               /\ UNCHANGED <<config, m_running, m_queue, wakeup, mainVars, now, last_tx, radio>>

(* At least the next k frames that are sent at their time may hide a gap.  *)
Disturb(k) == disturbed' = IF disturbed < k THEN k ELSE disturbed

(* The frame in hand as the radio gets it, and the last two times at which *)
(* a frame was sent.                                                       *)
Sending(timed) == [n |-> frame.n, timed |-> timed,
                   due |-> IF timed THEN frame.due ELSE sent.due,
                   before |-> IF timed THEN sent.due ELSE -1,
                   fresh |-> timed /\ refresh, excused |-> timed /\ disturbed > 0]

(* UHD::transmit_frame(): the radio reads enableSync once more, uses the   *)
(* flag for a frame that has a timestamp, and clears it in any case: also  *)
(* when the frame has none, and when it is then refused (send() returns    *)
(* 0) or the driver throws.                                                *)
TransmitFrame ==
    /\ device = "transmit"
    /\ LET timed == enableSync /\ frame.valid
       IN  \/ /\ Goto("loop") /\ sent' = Sending(timed)
              /\ IF timed THEN disturbed' = IF disturbed > 0 THEN disturbed - 1 ELSE 0
                          ELSE Disturb(IF refresh THEN 1 ELSE 0)
           \/ /\ SendMayFail /\ \E next \in {"loop", "leave"} : Goto(next)
              /\ Disturb(1) /\ UNCHANGED sent
    /\ refresh' = FALSE
    /\ UNCHANGED <<config, m_running, m_queue, wakeup, mainVars, now, last_tx>>

(* (slip: m_running stays set when the thread ends) *)
LeaveThreadRunning == /\ device = "leave" /\ Goto("done")
                      /\ UNCHANGED <<config, m_running, m_queue, wakeup, mainVars, now,
                                     last_tx, refresh, radio>>

LeaveThread == /\ device = "leave" /\ Goto("done") /\ m_running' = FALSE
               /\ UNCHANGED <<config, m_queue, wakeup, mainVars, now,
                              last_tx, refresh, radio>>

-----------------------------------------------------------------------------
(* The remote control thread and the clock of the radio.                   *)

(* A change of "synchronous" behind the check of a frame concerns this     *)
(* frame, which is sent in another way than it was checked, and the next   *)
(* one, which is compared with a time that was not sent.                   *)
SetParameter == /\ \/ /\ "muting" \in RcParameters /\ muting' = ~muting
                      /\ UNCHANGED <<enableSync, disturbed>>
                   \/ /\ "synchronous" \in RcParameters /\ enableSync' = ~enableSync
                      /\ Disturb(IF device \in {"muting", "transmit"} THEN 2 ELSE 0)
                      /\ UNCHANGED muting
                /\ UNCHANGED <<m_running, m_queue, wakeup, mainVars, now,
                               device, frame, last_tx, refresh, sent>>

Tick == /\ now' \in {t \in Instants : t > now}
        /\ UNCHANGED <<config, m_running, m_queue, wakeup, mainVars, deviceVars>>

-----------------------------------------------------------------------------
Destroy == WakeUp \/ Join
Main == Process \/ ProcessMetadata \/ StopRunning \/ Destroy

Device == \/ TestRunning \/ WaitThrowsWakeup \/ WaitAndPop \/ TestRunningAgain \/ CheckClock
          \/ CheckNoTimestamp \/ CheckTimestamp \/ CheckMuting \/ TransmitFrame \/ LeaveThread

Terminated == main = "joined" /\ UNCHANGED vars

Next == Main \/ Device \/ SetParameter \/ Tick \/ Terminated

(* The device thread is scheduled (the radio's send has a timeout), and so *)
(* is the main thread inside a call; whether frames arrive is up to the    *)
(* input.                                                                  *)
Fairness == /\ WF_vars(Device) /\ WF_vars(Destroy) /\ WF_vars(ProcessMetadata)

Spec == Init /\ [][Next]_vars /\ Fairness

-----------------------------------------------------------------------------
(* Properties.                                                             *)

TypeOK ==
    /\ enableSync \in BOOLEAN /\ muting \in BOOLEAN /\ m_running \in BOOLEAN
    /\ m_queue \in Seq(Frame)
    /\ Len(m_queue) <= FramesMaxSizeSync \/ Len(m_queue) <= FramesMaxSizeUnsync
    /\ wakeup \in BOOLEAN
    /\ main \in {"idle", "metadata", "failed", "wakeup", "joining", "joined"}
    /\ frames \in 0 .. MaxFrames /\ offset \in Offsets
    /\ device \in {"loop", "wait", "popped", "clock", "untimed", "timestamp", "muting",
                   "transmit", "leave", "done"}
    /\ frame \in Frame \cup {NoFrame} /\ last_tx \in Nat \cup {-1}
    /\ refresh \in BOOLEAN /\ now \in Instants \cup {0}
    /\ sent \in [n : 0 .. MaxFrames, timed : BOOLEAN, due : Nat \cup {-1},
                 before : Nat \cup {-1}, fresh : BOOLEAN, excused : BOOLEAN]
    /\ disturbed \in 0 .. 2

(* The radio never gets a frame twice or an older one after a newer one,   *)
(* whatever overflows and whatever is dropped.                             *)
NeverBackwards == [][sent'.n # sent.n => sent'.n > sent.n]_sent

(* In synchronous transmission a frame that does not follow without a gap  *)
(* in time the last one sent at its time reaches the radio with the        *)
(* refresh flag: whatever lost the frames between (queue overflow, also by *)
(* the lower limit after "synchronous" was cleared, clock loss, muting,    *)
(* late or missing timestamps), the radio is told to look at the timestamp *)
(* again.  Except where the code itself takes the refresh away: for the    *)
(* next frame after one that the radio refused, or after one without       *)
(* timestamp that was sent while a refresh was pending, and for two after  *)
(* a change of "synchronous" between the check of a frame and its sending. *)
NoSilentGap ==
    sent.timed /\ ~sent.excused /\ sent.before # -1 /\ sent.due # sent.before + 1 => sent.fresh

(* Once the device thread is gone the flowgraph cannot go on: at most the  *)
(* frame in hand is accepted, then process() fails.                        *)
DeadThreadIsNoticed == [][device = "done" => ~Process \/ main' = "failed"]_vars

(* The destructor gets the device thread to end, wherever it is.           *)
StopTerminates == main = "wakeup" ~> main = "joined"
=============================================================================
