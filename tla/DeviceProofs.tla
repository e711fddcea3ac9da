----------------------------- MODULE DeviceProofs -----------------------------
(***************************************************************************)
(* Proofs of the safety properties that the run MCDevice checks, for any   *)
(* number of frames, packets and restarts, any queue length, and any       *)
(* settings.  Each component is treated alone: every step of DeviceNext is *)
(* a step of the component or leaves it as it is (the lemmas ...IsAlone),  *)
(* so that an invariant of the component is one of the whole.              *)
(***************************************************************************)
EXTENDS MCDevice, Integers, Sequences, TLAPS

-----------------------------------------------------------------------------
(* src/output/SDR.cpp: the queue and the device thread.                    *)

LEMMA SdrIsAlone == DeviceSpec => Sdr!Init /\ [][Sdr!Next]_sdrVars
<1>1. DeviceInit => Sdr!Init
  BY DEF DeviceInit
<1>2. [DeviceNext]_deviceVars => [Sdr!Next]_sdrVars
  BY DEF deviceVars, DeviceNext, Choose
<1>3. QED
  BY <1>1, <1>2, PTL DEF DeviceSpec

(* A frame as the main thread hands it over, numbers and times unbounded.  *)
HandedFrame == [n : Nat, due : Nat, valid : BOOLEAN, offset_changed : BOOLEAN]

SentFrame == [n : Nat, timed : BOOLEAN, due : Nat \cup {-1}, before : Nat \cup {-1},
              fresh : BOOLEAN, excused : BOOLEAN]

(* Frames whose process_metadata() has returned.                           *)
Handed == IF main = "metadata" THEN frames - 1 ELSE frames

InHand == thread \in {"popped", "clock", "untimed", "timestamp", "muting", "transmit"}

SdrTypes ==
    /\ synchronous \in BOOLEAN /\ muted \in BOOLEAN /\ running \in BOOLEAN
    /\ m_queue \in Seq(HandedFrame)
    /\ frames \in Nat /\ (main = "metadata" => frames > 0)
    /\ InHand => frame \in HandedFrame
    /\ last_tx \in Nat \cup {-1} /\ refresh \in BOOLEAN /\ now \in Nat
    /\ sent \in SentFrame /\ disturbed \in 0 .. 2

(* What is in the queue is newer than what the device thread holds, and    *)
(* that is newer than what the radio has got.                              *)
QueueInOrder ==
    /\ \A i, j \in 1 .. Len(m_queue) : i < j => m_queue[i].n < m_queue[j].n
    /\ \A i \in 1 .. Len(m_queue) : sent.n < m_queue[i].n /\ m_queue[i].n <= Handed

HandInOrder ==
    /\ InHand => /\ sent.n < frame.n /\ frame.n <= Handed
                 /\ \A i \in 1 .. Len(m_queue) : frame.n < m_queue[i].n
    /\ sent.n <= Handed

EndedIsTold == thread = "done" => ~running

SdrInv == SdrTypes /\ QueueInOrder /\ HandInOrder /\ EndedIsTold

(* The end of a sequence from which its first k elements were taken away.  *)
LEMMA SubSeqToTheEnd ==
  ASSUME NEW S, NEW q \in Seq(S), NEW k \in 0 .. Len(q)
  PROVE  /\ SubSeq(q, k + 1, Len(q)) \in Seq(S)
         /\ Len(SubSeq(q, k + 1, Len(q))) = Len(q) - k
         /\ \A i \in 1 .. Len(q) - k : SubSeq(q, k + 1, Len(q))[i] = q[i + k]
<1>1. Len(q) \in Nat /\ k \in Nat /\ k <= Len(q)
  OBVIOUS
<1>2. SubSeq(q, k + 1, Len(q)) \in Seq(S)
  BY <1>1
<1>3. Len(SubSeq(q, k + 1, Len(q))) = Len(q) - k
  BY <1>1
<1>4. ASSUME NEW i \in 1 .. Len(q) - k PROVE SubSeq(q, k + 1, Len(q))[i] = q[i + k]
  BY <1>1
<1>5. QED
  BY <1>2, <1>3, <1>4

(* What the queue keeps when it is full is its end.                        *)
LEMMA DropOldestKeepsTheEnd ==
  ASSUME NEW S, NEW q \in Seq(S), NEW max \in Nat \ {0}
  PROVE  \E k \in 0 .. Len(q) : /\ Sdr!DropOldest(q, max) \in Seq(S)
                                /\ Len(Sdr!DropOldest(q, max)) = Len(q) - k
                                /\ \A i \in 1 .. Len(q) - k : Sdr!DropOldest(q, max)[i] = q[i + k]
<1>1. CASE Len(q) >= max
  <2>1. PICK k \in 0 .. Len(q) : k = Len(q) - max + 1
    BY <1>1
  <2>2. Sdr!DropOldest(q, max) = SubSeq(q, k + 1, Len(q))
    BY <1>1, <2>1 DEF Sdr!DropOldest
  <2>3. QED
    BY <2>2, SubSeqToTheEnd
<1>2. CASE ~(Len(q) >= max)
  BY <1>2 DEF Sdr!DropOldest
<1>3. QED
  BY <1>1, <1>2

LEMMA SdrInitially == ASSUME Sdr!Init PROVE SdrInv
<1>1. SdrTypes
  <2>1. sent \in SentFrame
    BY DEF Sdr!Init, SentFrame
  <2>2. m_queue \in Seq(HandedFrame)
    BY DEF Sdr!Init
  <2>3. /\ synchronous \in BOOLEAN /\ muted = FALSE /\ running = TRUE /\ frames = 0 /\ main = "idle"
        /\ thread = "loop" /\ last_tx = -1 /\ refresh = FALSE /\ now = 0 /\ disturbed = 0
    BY DEF Sdr!Init
  <2>4. ~InHand /\ disturbed \in 0 .. 2
    BY <2>3 DEF InHand
  <2>5. QED
    BY <2>1, <2>2, <2>3, <2>4 DEF SdrTypes
<1>2. QueueInOrder
  BY DEF Sdr!Init, QueueInOrder
<1>3. HandInOrder
  BY DEF Sdr!Init, HandInOrder, InHand, Handed
<1>4. EndedIsTold
  BY DEF Sdr!Init, EndedIsTold
<1>5. QED
  BY <1>1, <1>2, <1>3, <1>4 DEF SdrInv

LEMMA SdrTypesStep == ASSUME SdrTypes, [Sdr!Next]_sdrVars PROVE SdrTypes'
<1> USE DEF SdrTypes, InHand, Handed
<1> USE DEF Sdr!config, Sdr!mainVars, Sdr!radio, Sdr!deviceVars
<1>1. CASE Sdr!Process
  BY <1>1 DEF Sdr!Process
<1>2. CASE Sdr!ProcessMetadata
  <2>1. CASE UNCHANGED m_queue
    BY <1>2, <2>1 DEF Sdr!ProcessMetadata
  <2>2. CASE ~UNCHANGED m_queue
    <3> DEFINE kept == Sdr!DropOldest(m_queue, Sdr!MaxSize)
    <3>1. PICK o \in Offsets, stamped \in BOOLEAN :
             m_queue' = Append(kept, [n |-> frames, due |-> frames + o, valid |-> stamped,
                                      offset_changed |-> o # offset])
      BY <1>2, <2>2 DEF Sdr!ProcessMetadata, Sdr!Enqueue
    <3>2. Sdr!MaxSize \in Nat \ {0}
      BY OutputSettings DEF Sdr!MaxSize
    <3>3. kept \in Seq(HandedFrame)
      BY <3>2, DropOldestKeepsTheEnd
    <3>4. frames + o \in Nat
      BY OutputSettings
    <3>5. [n |-> frames, due |-> frames + o, valid |-> stamped, offset_changed |-> o # offset]
             \in HandedFrame
      BY <3>4 DEF HandedFrame
    <3>6. m_queue' \in Seq(HandedFrame)
      BY <3>1, <3>3, <3>5
    <3>7. QED
      BY <1>2, <3>6 DEF Sdr!ProcessMetadata
  <2>3. QED
    BY <2>1, <2>2
<1>3. CASE Sdr!StopRunning
  BY <1>3 DEF Sdr!StopRunning
<1>4. CASE Sdr!Destroy
  BY <1>4 DEF Sdr!Destroy, Sdr!WakeUp, Sdr!Join
<1>5. CASE \/ Sdr!TestRunning \/ Sdr!WaitThrowsWakeup \/ Sdr!TestRunningAgain
           \/ Sdr!CheckClock \/ Sdr!CheckNoTimestamp
  BY <1>5 DEF Sdr!TestRunning, Sdr!WaitThrowsWakeup, Sdr!TestRunningAgain, Sdr!CheckClock,
              Sdr!CheckNoTimestamp, Sdr!Goto
<1>6. CASE Sdr!WaitAndPop
  BY <1>6 DEF Sdr!WaitAndPop
<1>7. CASE Sdr!CheckTimestamp
  BY <1>7 DEF Sdr!CheckTimestamp, Sdr!Goto, Sdr!NeedsRefresh, Sdr!Irregular, Sdr!Late, HandedFrame
<1>8. CASE Sdr!CheckMuting \/ Sdr!LeaveThread
  BY <1>8 DEF Sdr!CheckMuting, Sdr!LeaveThread, Sdr!Goto
<1>9. CASE Sdr!TransmitFrame
  <2> DEFINE timed == synchronous /\ frame.valid
  <2>1. sent' \in {Sdr!Sending(timed), sent} /\ refresh' = FALSE
    BY <1>9 DEF Sdr!TransmitFrame
  <2>2. frame \in HandedFrame
    BY <1>9 DEF Sdr!TransmitFrame
  <2>3. Sdr!Sending(timed) \in SentFrame
    BY <2>2 DEF HandedFrame, SentFrame, Sdr!Sending
  <2>4. disturbed' \in 0 .. 2
    BY <1>9 DEF Sdr!TransmitFrame, Sdr!Disturb
  <2>5. sent' \in SentFrame
    BY <2>1, <2>3
  <2>6. /\ UNCHANGED <<synchronous, muted, running, m_queue, frames, main, last_tx, now>>
        /\ thread' \in {"loop", "leave"}
    BY <1>9 DEF Sdr!TransmitFrame, Sdr!Goto
  <2>7. ~InHand'
    BY <2>6
  <2>8. refresh' \in BOOLEAN
    BY <2>1
  <2>9. /\ synchronous' \in BOOLEAN /\ muted' \in BOOLEAN /\ running' \in BOOLEAN
        /\ m_queue' \in Seq(HandedFrame) /\ frames' \in Nat /\ (main' = "metadata" => frames' > 0)
        /\ last_tx' \in Nat \cup {-1} /\ now' \in Nat
    BY <2>6
  <2> HIDE DEF InHand
  <2>10. QED
    BY <2>4, <2>5, <2>7, <2>8, <2>9
<1>10. CASE Sdr!SetParameter \/ Sdr!Tick
  <2>1. muted' \in BOOLEAN /\ synchronous' \in BOOLEAN /\ disturbed' \in 0 .. 2
    <3>1. \A k \in 0 .. 2 : Sdr!Disturb(k) => disturbed' \in 0 .. 2
      BY DEF Sdr!Disturb
    <3>2. (\E k \in 0 .. 2 : Sdr!Disturb(k)) \/ UNCHANGED disturbed
      BY <1>10 DEF Sdr!SetParameter, Sdr!Tick
    <3>3. muted' \in BOOLEAN /\ synchronous' \in BOOLEAN
      BY <1>10 DEF Sdr!SetParameter, Sdr!Tick
    <3>4. QED
      BY <3>1, <3>2, <3>3
  <2>2. now' \in Nat
    BY <1>10, OutputSettings DEF Sdr!SetParameter, Sdr!Tick
  <2>3. UNCHANGED <<running, m_queue, main, frames, thread, frame, last_tx, refresh, sent>>
    BY <1>10 DEF Sdr!SetParameter, Sdr!Tick
  <2>4. QED
    BY <2>1, <2>2, <2>3
<1>11. CASE UNCHANGED sdrVars
  BY <1>11 DEF sdrVars
<1>12. CASE Sdr!Terminated
  BY <1>12 DEF Sdr!Terminated, Sdr!vars
<1>13. QED
  BY <1>1, <1>2, <1>3, <1>4, <1>5, <1>6, <1>7, <1>8, <1>9, <1>10, <1>11, <1>12
     DEF Sdr!Next, Sdr!Main, Sdr!Device

(* Where nothing is handed on, the order remains.                          *)
LEMMA OrderIsKept ==
  ASSUME QueueInOrder, HandInOrder, UNCHANGED <<m_queue, sent>>, Handed' = Handed,
         InHand' => InHand /\ UNCHANGED frame
  PROVE  QueueInOrder' /\ HandInOrder'
  BY DEF QueueInOrder, HandInOrder

(* Numbers of frames can be compared.                                      *)
LEMMA FramesAreNumbered ==
  ASSUME SdrTypes
  PROVE  /\ Len(m_queue) \in Nat /\ \A i \in 1 .. Len(m_queue) : m_queue[i].n \in Nat
         /\ sent.n \in Nat /\ Handed \in Nat /\ (InHand => frame.n \in Nat)
<1>1. \A i \in 1 .. Len(m_queue) : m_queue[i] \in HandedFrame
  BY DEF SdrTypes
<1>2. QED
  BY <1>1 DEF SdrTypes, Handed, HandedFrame, SentFrame

LEMMA SdrStep == ASSUME SdrInv, [Sdr!Next]_sdrVars PROVE SdrInv'
<1> USE DEF SdrInv, EndedIsTold
<1> USE DEF Sdr!config, Sdr!mainVars, Sdr!radio, Sdr!deviceVars
<1>a. SdrTypes'
  BY SdrTypesStep
<1>b. /\ Len(m_queue) \in Nat /\ \A i \in 1 .. Len(m_queue) : m_queue[i].n \in Nat
      /\ sent.n \in Nat /\ Handed \in Nat /\ (InHand => frame.n \in Nat)
  BY FramesAreNumbered
<1>1. CASE Sdr!Process
  <2>1. Handed' = Handed /\ UNCHANGED <<m_queue, sent, thread, frame, running>>
    BY <1>1 DEF Sdr!Process, Handed, SdrTypes
  <2>2. QED
    BY <1>a, <2>1, OrderIsKept DEF InHand
<1>2. CASE Sdr!ProcessMetadata
  <2>1. Handed' = Handed + 1 /\ frames = Handed + 1 /\ UNCHANGED <<sent, thread, frame, running>>
    <3>1. UNCHANGED <<sent, thread, frame, running>>
      BY <1>2 DEF Sdr!ProcessMetadata
    <3>2. main = "metadata" /\ main' = "idle" /\ frames' = frames
      BY <1>2 DEF Sdr!ProcessMetadata
    <3>3. Handed = frames - 1 /\ Handed' = frames /\ frames \in Nat
      BY <3>2 DEF Handed, SdrTypes
    <3>4. QED
      BY <3>1, <3>3
  <2>2. CASE UNCHANGED m_queue
    BY <1>a, <1>b, <2>1, <2>2 DEF QueueInOrder, HandInOrder, InHand
  <2>3. CASE ~UNCHANGED m_queue
    <3> DEFINE kept == Sdr!DropOldest(m_queue, Sdr!MaxSize)
    <3>1. PICK f : f.n = frames /\ m_queue' = Append(kept, f)
      BY <1>2, <2>3 DEF Sdr!ProcessMetadata, Sdr!Enqueue
    <3>2. Sdr!MaxSize \in Nat \ {0}
      BY OutputSettings DEF Sdr!MaxSize
    <3>3. PICK k \in 0 .. Len(m_queue) :
             /\ kept \in Seq(HandedFrame) /\ Len(kept) = Len(m_queue) - k
             /\ \A i \in 1 .. Len(m_queue) - k : kept[i] = m_queue[i + k]
      <4>1. m_queue \in Seq(HandedFrame)
        BY DEF SdrTypes
      <4>2. QED
        BY <3>2, <4>1, DropOldestKeepsTheEnd, ZenonT(40)
    <3>4. Len(kept) \in Nat /\ Len(m_queue') = Len(kept) + 1 /\ m_queue'[Len(kept) + 1] = f
      BY <3>1, <3>3
    <3>5. \A i \in 1 .. Len(kept) : m_queue'[i] = m_queue[i + k] /\ i + k \in 1 .. Len(m_queue)
      BY <3>1, <3>3
    <3>6. QueueInOrder'
      <4>1. \A i \in 1 .. Len(kept) : sent.n < m_queue'[i].n /\ m_queue'[i].n <= Handed
        BY <3>5 DEF QueueInOrder
      <4>2. \A i, j \in 1 .. Len(kept) : i < j => m_queue'[i].n < m_queue'[j].n
        BY <3>3, <3>5 DEF QueueInOrder
      <4>3. \A i \in 1 .. Len(kept) : m_queue'[i].n \in Nat
        BY <1>b, <3>5
      <4>4. \A i \in 1 .. Len(kept) + 1 : i = Len(kept) + 1 \/ i \in 1 .. Len(kept)
        BY <3>4
      <4>5. m_queue'[Len(kept) + 1].n = Handed + 1
        BY <2>1, <3>1, <3>4
      <4>6. sent.n < Handed + 1
        BY <1>b DEF HandInOrder
      <4>7. \A i \in 1 .. Len(m_queue') : sent.n < m_queue'[i].n /\ m_queue'[i].n <= Handed + 1
        BY <1>b, <3>4, <4>1, <4>3, <4>4, <4>5, <4>6
      <4>8. \A i, j \in 1 .. Len(m_queue') : i < j => m_queue'[i].n < m_queue'[j].n
        <5> SUFFICES ASSUME NEW i \in 1 .. Len(m_queue'), NEW j \in 1 .. Len(m_queue'), i < j
                     PROVE  m_queue'[i].n < m_queue'[j].n
          OBVIOUS
        <5>1. i \in 1 .. Len(kept)
          BY <3>4
        <5>2. CASE j = Len(kept) + 1
          BY <1>b, <4>1, <4>3, <4>5, <5>1, <5>2
        <5>3. QED
          BY <3>4, <4>2, <4>4, <5>1, <5>2
      <4>9. QED
        BY <2>1, <4>7, <4>8 DEF QueueInOrder
    <3>7. HandInOrder'
      <4>1. InHand' => \A i \in 1 .. Len(kept) : frame.n < m_queue'[i].n
        BY <2>1, <3>5 DEF HandInOrder, InHand
      <4>2. InHand' => frame.n < m_queue'[Len(kept) + 1].n
        BY <1>b, <2>1, <3>1, <3>4 DEF HandInOrder, InHand
      <4>3. InHand' => \A i \in 1 .. Len(m_queue') : frame.n < m_queue'[i].n
        BY <3>3, <3>4, <4>1, <4>2
      <4>4. QED
        BY <1>b, <2>1, <4>3 DEF HandInOrder, InHand
    <3>8. QED
      BY <1>a, <2>1, <3>6, <3>7
  <2>4. QED
    BY <2>2, <2>3
<1>3. CASE Sdr!StopRunning \/ Sdr!Destroy
  <2>1. Handed' = Handed /\ UNCHANGED <<m_queue, sent, thread, frame>> /\ (running' => running)
    BY <1>3 DEF Sdr!StopRunning, Sdr!Destroy, Sdr!WakeUp, Sdr!Join, Handed
  <2>2. QED
    BY <1>a, <2>1, OrderIsKept DEF InHand
<1>4. CASE Sdr!WaitAndPop
  <2>1. Handed' = Handed /\ UNCHANGED <<sent, running>> /\ thread' = "popped"
    BY <1>4 DEF Sdr!WaitAndPop, Handed
  <2>2. /\ Len(m_queue') = Len(m_queue) - 1 /\ frame' = m_queue[1] /\ 1 \in 1 .. Len(m_queue)
        /\ \A i \in 1 .. Len(m_queue') : m_queue'[i] = m_queue[i + 1] /\ i + 1 \in 1 .. Len(m_queue)
    BY <1>4 DEF Sdr!WaitAndPop, SdrTypes
  <2>3. QueueInOrder'
    <3>1. \A i, j \in 1 .. Len(m_queue') : i < j => i + 1 < j + 1
      BY <1>b, <2>2
    <3>2. QED
      BY <2>1, <2>2, <3>1 DEF QueueInOrder
  <2>4. HandInOrder'
    BY <2>1, <2>2 DEF QueueInOrder, HandInOrder, InHand, SdrTypes
  <2>5. QED
    BY <1>a, <2>1, <2>3, <2>4
<1>5. CASE \/ Sdr!TestRunning \/ Sdr!WaitThrowsWakeup \/ Sdr!TestRunningAgain \/ Sdr!CheckClock
           \/ Sdr!CheckNoTimestamp \/ Sdr!CheckTimestamp \/ Sdr!CheckMuting
  <2>1. UNCHANGED <<m_queue, sent, main, frames, running>>
    BY <1>5 DEF Sdr!TestRunning, Sdr!WaitThrowsWakeup, Sdr!TestRunningAgain, Sdr!CheckClock,
                Sdr!CheckNoTimestamp, Sdr!CheckTimestamp, Sdr!CheckMuting
  <2>2. thread' # "done" /\ (InHand' => InHand /\ UNCHANGED frame)
    BY <1>5 DEF Sdr!TestRunning, Sdr!WaitThrowsWakeup, Sdr!TestRunningAgain, Sdr!CheckClock,
                Sdr!CheckNoTimestamp, Sdr!CheckTimestamp, Sdr!CheckMuting, Sdr!Goto, InHand
  <2>3. Handed' = Handed
    BY <2>1 DEF Handed
  <2>4. QED
    BY <1>a, <2>1, <2>2, <2>3, OrderIsKept
<1>6. CASE Sdr!TransmitFrame
  <2>1. /\ UNCHANGED <<m_queue, main, frames, running>>
        /\ thread' \in {"loop", "leave"} /\ thread = "transmit"
    BY <1>6 DEF Sdr!TransmitFrame, Sdr!Goto
  <2>2. sent'.n \in {sent.n, frame.n}
    BY <1>6 DEF Sdr!TransmitFrame, Sdr!Sending
  <2>3. QED
    BY <1>a, <2>1, <2>2 DEF QueueInOrder, HandInOrder, InHand, Handed
<1>7. CASE Sdr!LeaveThread
  <2>1. UNCHANGED <<m_queue, sent, main, frames>> /\ thread' = "done" /\ ~running'
    BY <1>7 DEF Sdr!LeaveThread, Sdr!Goto
  <2>2. QED
    BY <1>a, <2>1, OrderIsKept DEF InHand, Handed
<1>8. CASE Sdr!SetParameter \/ Sdr!Tick
  <2>1. UNCHANGED <<m_queue, sent, main, frames, running, thread, frame>>
    BY <1>8 DEF Sdr!SetParameter, Sdr!Tick
  <2>2. QED
    BY <1>a, <2>1, OrderIsKept DEF InHand, Handed
<1>9. CASE UNCHANGED sdrVars
  BY <1>a, <1>9, OrderIsKept DEF sdrVars, InHand, Handed
<1>10. CASE Sdr!Terminated
  BY <1>a, <1>10, OrderIsKept DEF Sdr!Terminated, Sdr!vars, InHand, Handed
<1>11. QED
  BY <1>1, <1>2, <1>3, <1>4, <1>5, <1>6, <1>7, <1>8, <1>9, <1>10
     DEF Sdr!Next, Sdr!Main, Sdr!Device

LEMMA SdrAlways == DeviceSpec => []SdrInv
<1>1. Sdr!Init => SdrInv
  BY SdrInitially
<1>2. SdrInv /\ [Sdr!Next]_sdrVars => SdrInv'
  BY SdrStep
<1>3. QED
  BY <1>1, <1>2, SdrIsAlone, PTL

(* However the queue overflows, the clock is lost, frames are withheld or  *)
(* the output is stopped, the radio gets the frames in their order and     *)
(* none twice.                                                             *)
THEOREM DeviceNeverBackwards == DeviceSpec => NeverBackwards
<1>1. SdrInv /\ [Sdr!Next]_sdrVars => [sent'.n # sent.n => sent'.n > sent.n]_sent
  <2> SUFFICES ASSUME SdrInv, [Sdr!Next]_sdrVars, sent'.n # sent.n PROVE sent'.n > sent.n
    OBVIOUS
  <2>1. CASE Sdr!TransmitFrame
    <3>1. sent' = sent \/ sent'.n = frame.n
      BY <2>1 DEF Sdr!TransmitFrame, Sdr!Sending
    <3>2. InHand
      BY <2>1 DEF Sdr!TransmitFrame, InHand
    <3>3. QED
      BY <3>1, <3>2, FramesAreNumbered DEF SdrInv, HandInOrder
  <2>2. CASE ~Sdr!TransmitFrame
    <3>1. sent' = sent
      BY <2>2
         DEF Sdr!Next, Sdr!Main, Sdr!Process, Sdr!ProcessMetadata, Sdr!StopRunning, Sdr!Destroy,
             Sdr!WakeUp, Sdr!Join, Sdr!Device, Sdr!TestRunning, Sdr!WaitThrowsWakeup,
             Sdr!WaitAndPop, Sdr!TestRunningAgain, Sdr!CheckClock, Sdr!CheckNoTimestamp,
             Sdr!CheckTimestamp, Sdr!CheckMuting, Sdr!LeaveThread, Sdr!SetParameter, Sdr!Tick, Sdr!Terminated, Sdr!vars,
             sdrVars, Sdr!deviceVars, Sdr!radio
    <3>2. QED
      BY <3>1
  <2>3. QED
    BY <2>1, <2>2
<1>2. QED
  BY <1>1, SdrAlways, SdrIsAlone, PTL DEF NeverBackwards, Sdr!NeverBackwards

(* The thread that ended has told so: the next process() fails, whatever   *)
(* ended the thread.                                                       *)
THEOREM DeviceDeadThreadIsNoticed ==
  DeviceSpec => DeadThreadIsNoticed
<1>1. SdrInv /\ [Sdr!Next]_sdrVars
         => [thread = "done" => ~Sdr!Process \/ main' = "failed"]_(Sdr!vars)
  BY DEF SdrInv, EndedIsTold, Sdr!Process
<1>2. QED
  BY <1>1, SdrAlways, SdrIsAlone, PTL DEF DeadThreadIsNoticed, Sdr!DeadThreadIsNoticed

-----------------------------------------------------------------------------
(* No gap in time without a refresh.  Between two frames last_tx is the    *)
(* time at which a frame was sent last, or a refresh is pending; behind    *)
(* the check it is the time of the frame in hand, which follows the time   *)
(* sent last, or a refresh is pending.  A frame that is not sent at its    *)
(* time passes and leaves this as it is.                                   *)

BetweenFrames == thread \in {"loop", "wait", "popped", "clock", "untimed", "timestamp"}

BehindTheCheck == thread \in {"muting", "transmit"}

ToBeTimed == synchronous /\ frame.valid

LastTimeKept == ~refresh /\ sent.due # -1 => last_tx = sent.due

RemembersSent == BetweenFrames /\ disturbed = 0 => LastTimeKept

FollowsSent ==
    BehindTheCheck /\ disturbed < 2 /\ ToBeTimed
       => /\ last_tx = frame.due
          /\ disturbed = 0 /\ ~refresh /\ sent.due # -1 => frame.due = sent.due + 1

PassesUntimed == BehindTheCheck /\ disturbed = 0 /\ ~ToBeTimed => LastTimeKept

GapInv == RemembersSent /\ FollowsSent /\ PassesUntimed /\ NoSilentGap

LEMMA GapInitially == Sdr!Init => GapInv
  BY DEF Sdr!Init, GapInv, RemembersSent, FollowsSent, PassesUntimed, LastTimeKept,
         BehindTheCheck, NoSilentGap, Sdr!NoSilentGap

(* Where the device thread does nothing, nothing changes for it.           *)
LEMMA GapIsKept ==
  ASSUME GapInv, UNCHANGED <<sent, synchronous, last_tx, disturbed>>,
         UNCHANGED <<thread, frame, refresh>>
  PROVE  GapInv'
  BY DEF GapInv, RemembersSent, FollowsSent, PassesUntimed, LastTimeKept, ToBeTimed,
         BetweenFrames, BehindTheCheck, NoSilentGap, Sdr!NoSilentGap

LEMMA GapStep == ASSUME SdrTypes, GapInv, [Sdr!Next]_sdrVars PROVE GapInv'
<1> USE DEF Sdr!config, Sdr!mainVars, Sdr!radio, Sdr!deviceVars
<1>t. disturbed \in 0 .. 2
  BY DEF SdrTypes
<1>1. CASE Sdr!Main \/ Sdr!Tick \/ UNCHANGED sdrVars \/ Sdr!Terminated
  <2>1. UNCHANGED <<sent, synchronous, last_tx, disturbed, thread, frame, refresh>>
    BY <1>1 DEF Sdr!Main, Sdr!Process, Sdr!ProcessMetadata, Sdr!StopRunning, Sdr!Destroy,
                Sdr!WakeUp, Sdr!Join, Sdr!Tick, sdrVars, Sdr!Terminated, Sdr!vars
  <2>2. QED
    BY <2>1, GapIsKept
<1>2. CASE Sdr!SetParameter
  <2>1. UNCHANGED <<sent, last_tx, thread, frame, refresh>>
    BY <1>2 DEF Sdr!SetParameter
  <2>2. CASE UNCHANGED synchronous
    <3>1. UNCHANGED disturbed
      BY <1>2, <1>t, <2>2 DEF Sdr!SetParameter, SdrTypes
    <3>2. QED
      BY <2>1, <2>2, <3>1, GapIsKept
  <2>3. CASE ~UNCHANGED synchronous /\ BehindTheCheck
    <3>1. disturbed' = 2
      BY <1>2, <1>t, <2>3 DEF Sdr!SetParameter, Sdr!Disturb, BehindTheCheck
    <3>2. NoSilentGap'
      BY <2>1 DEF GapInv, NoSilentGap, Sdr!NoSilentGap
    <3>3. QED
      BY <3>1, <3>2 DEF GapInv, RemembersSent, FollowsSent, PassesUntimed
  <2>4. CASE ~UNCHANGED synchronous /\ ~BehindTheCheck
    <3>1. UNCHANGED disturbed
      BY <1>2, <1>t, <2>4 DEF Sdr!SetParameter, Sdr!Disturb, BehindTheCheck
    <3>2. ~BehindTheCheck'
      BY <2>1, <2>4 DEF BehindTheCheck
    <3>3. QED
      BY <2>1, <3>1, <3>2 DEF GapInv, RemembersSent, FollowsSent, PassesUntimed, LastTimeKept,
                              BetweenFrames, NoSilentGap, Sdr!NoSilentGap
  <2>5. QED
    BY <2>2, <2>3, <2>4
<1>3. CASE \/ Sdr!TestRunning \/ Sdr!WaitThrowsWakeup \/ Sdr!WaitAndPop \/ Sdr!TestRunningAgain
           \/ Sdr!CheckClock \/ Sdr!CheckNoTimestamp \/ Sdr!LeaveThread
  <2>1. UNCHANGED <<sent, synchronous, last_tx, disturbed, refresh>>
    BY <1>3 DEF Sdr!TestRunning, Sdr!WaitThrowsWakeup, Sdr!WaitAndPop, Sdr!TestRunningAgain,
                Sdr!CheckClock, Sdr!CheckNoTimestamp, Sdr!LeaveThread
  <2>2. ~BehindTheCheck' /\ (BetweenFrames' => BetweenFrames)
    BY <1>3 DEF Sdr!TestRunning, Sdr!WaitThrowsWakeup, Sdr!WaitAndPop, Sdr!TestRunningAgain,
                Sdr!CheckClock, Sdr!CheckNoTimestamp, Sdr!LeaveThread, Sdr!Goto, BetweenFrames,
                BehindTheCheck
  <2>3. QED
    BY <2>1, <2>2 DEF GapInv, RemembersSent, FollowsSent, PassesUntimed, LastTimeKept, NoSilentGap,
                      Sdr!NoSilentGap
<1>4. CASE Sdr!CheckTimestamp
  <2>1. UNCHANGED <<sent, synchronous, disturbed>> /\ BetweenFrames
    BY <1>4 DEF Sdr!CheckTimestamp, BetweenFrames
  <2>2. NoSilentGap'
    BY <2>1 DEF GapInv, NoSilentGap, Sdr!NoSilentGap
  <2>3. CASE ~ToBeTimed
    <3>1. UNCHANGED <<last_tx, refresh, frame>> /\ thread' = "muting"
      BY <1>4, <2>3 DEF Sdr!CheckTimestamp, Sdr!Goto, ToBeTimed
    <3>2. ~BetweenFrames' /\ ~ToBeTimed'
      BY <2>1, <2>3, <3>1 DEF BetweenFrames, ToBeTimed
    <3>3. disturbed = 0 => LastTimeKept'
      BY <2>1, <3>1 DEF GapInv, RemembersSent, LastTimeKept
    <3>4. QED
      BY <2>1, <2>2, <3>2, <3>3 DEF GapInv, RemembersSent, FollowsSent, PassesUntimed
  <2>4. CASE ToBeTimed
    <3>1. last_tx' = frame.due /\ refresh' = (refresh \/ Sdr!NeedsRefresh)
      BY <1>4, <2>4 DEF Sdr!CheckTimestamp, ToBeTimed
    <3>2. thread' = IF Sdr!Late THEN "loop" ELSE IF frame.due > now + AbortFuture THEN "leave"
                                                 ELSE "muting"
      BY <1>4, <2>4 DEF Sdr!CheckTimestamp, Sdr!Goto, ToBeTimed
    <3>3. BehindTheCheck' => UNCHANGED frame
      BY <1>4, <2>4 DEF Sdr!CheckTimestamp, Sdr!Goto, BehindTheCheck, ToBeTimed
    <3>4. RemembersSent'
      <4>1. BetweenFrames' => Sdr!Late
        BY <3>2 DEF BetweenFrames
      <4>2. BetweenFrames' => refresh'
        BY <3>1, <4>1 DEF Sdr!NeedsRefresh
      <4>3. QED
        BY <4>2 DEF RemembersSent, LastTimeKept
    <3>5. FollowsSent'
      <4>1. SUFFICES ASSUME BehindTheCheck', disturbed = 0, ~refresh', sent.due # -1
                     PROVE  frame.due = sent.due + 1
        BY <2>1, <3>1, <3>3 DEF FollowsSent
      <4>2. ~refresh /\ ~Sdr!Irregular
        BY <3>1, <4>1 DEF Sdr!NeedsRefresh
      <4>3. last_tx = sent.due
        BY <2>1, <4>1, <4>2 DEF GapInv, RemembersSent, LastTimeKept
      <4>4. QED
        BY <4>1, <4>2, <4>3 DEF Sdr!Irregular, Sdr!Expected
    <3>6. PassesUntimed'
      BY <2>1, <2>4, <3>3 DEF PassesUntimed, ToBeTimed
    <3>7. QED
      BY <2>2, <3>4, <3>5, <3>6 DEF GapInv
  <2>5. QED
    BY <2>3, <2>4
<1>5. CASE Sdr!CheckMuting
  <2>1. UNCHANGED <<sent, synchronous, last_tx, disturbed>> /\ BehindTheCheck
    BY <1>5 DEF Sdr!CheckMuting, BehindTheCheck
  <2>2. CASE muted
    <3>1. thread' = "loop" /\ refresh'
      BY <1>5, <2>2 DEF Sdr!CheckMuting, Sdr!Goto
    <3>2. QED
      BY <2>1, <3>1 DEF GapInv, RemembersSent, FollowsSent, PassesUntimed, LastTimeKept,
                        BehindTheCheck, NoSilentGap, Sdr!NoSilentGap
  <2>3. CASE ~muted
    <3>1. thread' = "transmit" /\ UNCHANGED <<refresh, frame>>
      BY <1>5, <2>3 DEF Sdr!CheckMuting, Sdr!Goto
    <3>2. ~BetweenFrames'
      BY <3>1 DEF BetweenFrames
    <3>3. QED
      BY <2>1, <3>1, <3>2 DEF GapInv, RemembersSent, FollowsSent, PassesUntimed, LastTimeKept,
                              ToBeTimed, NoSilentGap, Sdr!NoSilentGap
  <2>4. QED
    BY <2>2, <2>3
<1>6. CASE Sdr!TransmitFrame
  <2>1. UNCHANGED <<synchronous, last_tx>> /\ BehindTheCheck /\ ~BehindTheCheck'
    BY <1>6 DEF Sdr!TransmitFrame, Sdr!Goto, BehindTheCheck
  <2>2. FollowsSent' /\ PassesUntimed'
    BY <2>1 DEF FollowsSent, PassesUntimed
  <2>3. CASE UNCHANGED sent /\ Sdr!Disturb(1)
    <3>1. disturbed' # 0
      BY <1>t, <2>3 DEF Sdr!Disturb
    <3>2. QED
      BY <2>2, <2>3, <3>1 DEF GapInv, RemembersSent, NoSilentGap, Sdr!NoSilentGap
  <2>4. CASE /\ ToBeTimed /\ sent' = Sdr!Sending(ToBeTimed)
             /\ disturbed' = IF disturbed > 0 THEN disturbed - 1 ELSE 0
    <3>1. /\ sent'.due = frame.due /\ sent'.before = sent.due
          /\ (sent'.fresh <=> refresh) /\ (sent'.excused <=> disturbed > 0)
      BY <2>4 DEF Sdr!Sending
    <3>2. RemembersSent'
      <4>1. disturbed' = 0 => last_tx = frame.due
        BY <1>t, <2>1, <2>4 DEF GapInv, FollowsSent
      <4>2. QED
        BY <2>1, <3>1, <4>1 DEF RemembersSent, LastTimeKept
    <3>3. NoSilentGap'
      <4>1. disturbed = 0 /\ ~refresh /\ sent.due # -1 => frame.due = sent.due + 1
        BY <2>1, <2>4 DEF GapInv, FollowsSent
      <4>2. QED
        BY <1>t, <3>1, <4>1 DEF NoSilentGap, Sdr!NoSilentGap
    <3>4. QED
      BY <2>2, <3>2, <3>3 DEF GapInv
  <2>5. CASE /\ ~ToBeTimed /\ sent' = Sdr!Sending(ToBeTimed)
             /\ Sdr!Disturb(IF refresh THEN 1 ELSE 0)
    <3>1. ~sent'.timed /\ sent'.due = sent.due
      BY <2>5 DEF Sdr!Sending
    <3>2. disturbed' = 0 => disturbed = 0 /\ ~refresh
      BY <1>t, <2>5 DEF Sdr!Disturb
    <3>3. RemembersSent'
      BY <2>1, <2>5, <3>1, <3>2 DEF GapInv, PassesUntimed, RemembersSent, LastTimeKept
    <3>4. QED
      BY <2>2, <3>1, <3>3 DEF GapInv, NoSilentGap, Sdr!NoSilentGap
  <2>6. QED
    BY <1>6, <2>3, <2>4, <2>5 DEF Sdr!TransmitFrame, ToBeTimed
<1>7. QED
  BY <1>1, <1>2, <1>3, <1>4, <1>5, <1>6 DEF Sdr!Next, Sdr!Device

(* Whatever loses frames on the way from the modulator to the radio, a     *)
(* frame whose time does not follow the one before it tells the radio to   *)
(* look at the time.                                                       *)
THEOREM DeviceNoSilentGap == DeviceSpec => []NoSilentGap
<1>1. SdrInv /\ GapInv /\ [Sdr!Next]_sdrVars => GapInv'
  BY GapStep DEF SdrInv
<1>2. GapInv => NoSilentGap
  BY DEF GapInv
<1>3. QED
  BY <1>1, <1>2, GapInitially, SdrAlways, SdrIsAlone, PTL

-----------------------------------------------------------------------------
(* src/output/Feedback.cpp: the request for samples passes from hand to    *)
(* hand.                                                                   *)

LEMMA FeedbackIsAlone == DeviceSpec => Feedback!Init /\ [][Feedback!Next]_feedbackVars
<1>1. DeviceInit => Feedback!Init
  BY DEF DeviceInit
<1>2. [DeviceNext]_deviceVars => [Feedback!Next]_feedbackVars
  BY DEF deviceVars, DeviceNext, Choose
<1>3. QED
  BY <1>1, <1>2, PTL DEF DeviceSpec

States == {"None", "SaveTransmitFrame", "SaveReceiveFrame", "Acquired"}

(* While the server runs the state tells in whose hands the request is,    *)
(* and what it holds.                                                      *)
Asked == serve = "waiting" <=> state # "None"

WhenToReceive == state = "SaveReceiveFrame" => rx_second = tx

InReceiversHands == receive = "receiving" => state = "SaveReceiveFrame" /\ rx_ts = tx

Complete == state = "Acquired" \/ serve = "sending" => rx = tx

FeedbackInv ==
    /\ state \in States /\ server_up \in BOOLEAN
    /\ server_up => Asked /\ WhenToReceive /\ InReceiversHands /\ Complete
    /\ SameBurst

(* Nobody has asked.                                                       *)
LEMMA FeedbackInit == Feedback!Init => FeedbackInv
  BY
     DEF Feedback!Init, Feedback!Server, Feedback!NoReply, FeedbackInv, States, Asked,
         WhenToReceive, InReceiversHands, Complete, SameBurst, Feedback!SameBurst

(* Step by step, for the main thread and the two of the server.            *)
LEMMA FeedbackStep == FeedbackInv /\ [Feedback!Next]_feedbackVars => FeedbackInv'
<1> SUFFICES ASSUME FeedbackInv, [Feedback!Next]_feedbackVars PROVE FeedbackInv'
  OBVIOUS
<1> USE DEF FeedbackInv, States, Asked, WhenToReceive, InReceiversHands, Complete, SameBurst,
           Feedback!SameBurst
<1>1. CASE Feedback!SetTxFrame
  <2>1. CASE state = "SaveTransmitFrame"
    BY <1>1, <2>1 DEF Feedback!SetTxFrame
  <2>2. CASE state # "SaveTransmitFrame"
    BY <1>1, <2>2 DEF Feedback!SetTxFrame
  <2>3. QED
    BY <2>1, <2>2
<1>2. CASE Feedback!Restart
  BY <1>2 DEF Feedback!Restart
<1>3. CASE Feedback!NotifyAll
  BY <1>3 DEF Feedback!NotifyAll
<1>4. CASE Feedback!ReceiveWaits \/ Feedback!ReceiveTakesRequest
  BY <1>4 DEF Feedback!ReceiveWaits, Feedback!ReceiveTakesRequest
<1>5. CASE Feedback!ReceiveStores
  BY <1>5 DEF Feedback!ReceiveStores
<1>6. CASE Feedback!ReceiveLeaves
  BY <1>6 DEF Feedback!ReceiveLeaves
<1>7. CASE Feedback!ServeAccepts \/ Feedback!ServeWaits
  BY <1>7 DEF Feedback!ServeAccepts, Feedback!ServeWaits
<1>8. CASE Feedback!ServeTakesAnswer
  BY <1>8 DEF Feedback!ServeTakesAnswer, Feedback!Answer
<1>9. CASE Feedback!ServeGivesUp
  BY <1>9 DEF Feedback!ServeGivesUp
<1>10. CASE Feedback!ServeSends
  <2>1. CASE reply' = [tx |-> tx, rx |-> rx, aborted |-> ~server_up]
    BY <1>10, <2>1 DEF Feedback!ServeSends
  <2>2. CASE reply' = reply
    BY <1>10, <2>2 DEF Feedback!ServeSends
  <2>3. QED
    BY <1>10, <2>1, <2>2 DEF Feedback!ServeSends
<1>11. CASE Feedback!ServeLeaves
  BY <1>11 DEF Feedback!ServeLeaves
<1>12. CASE UNCHANGED feedbackVars
  BY <1>12 DEF feedbackVars
<1>13. QED
  BY <1>1, <1>2, <1>3, <1>4, <1>5, <1>6, <1>7, <1>8, <1>9, <1>10, <1>11, <1>12 DEF Feedback!Next

(* However the three threads take turns and the servers fail, the samples  *)
(* of an answer were received when those beside them were transmitted.     *)
THEOREM DeviceSameBurst == DeviceSpec => []SameBurst
<1>1. FeedbackInv => SameBurst
  BY DEF FeedbackInv
<1>2. QED
  BY <1>1, FeedbackInit, FeedbackStep, FeedbackIsAlone, PTL

-----------------------------------------------------------------------------
(* src/output/USRPTime.cpp: how old the last fix may be.                   *)

LEMMA ClockIsAlone == DeviceSpec => UsrpTime!Init /\ [][UsrpTime!Next]_clockVars
<1>1. DeviceInit => UsrpTime!Init
  BY DEF DeviceInit
<1>2. [DeviceNext]_deviceVars => [UsrpTime!Next]_clockVars
  BY DEF deviceVars, DeviceNext, Choose
<1>3. QED
  BY <1>1, <1>2, PTL DEF DeviceSpec

(* Multiples of the time between two looks at the receiver.                *)
LEMMA OneMore == ASSUME NEW p \in Nat, NEW n \in Nat PROVE p * (n + 1) = p * n + p /\ p * n \in Nat
  OBVIOUS

LEMMA MultiplesGrow == ASSUME NEW p \in Nat, NEW m \in Nat, NEW n \in Nat, m <= n
                       PROVE  p * m <= p * n
<1>1. PICK d \in Nat : n = m + d
  OBVIOUS
<1>2. p * n = p * m + p * d /\ p * m \in Nat /\ p * d \in Nat
  BY <1>1
<1>3. QED
  BY <1>2

LEMMA DivMod == ASSUME NEW h \in Nat, NEW i \in Nat \ {0}
                PROVE  h \div i \in Nat /\ h < i * (h \div i) + i
<1>1. h \div i \in Int /\ h % i \in 0 .. i - 1 /\ h = (h \div i) * i + (h % i)
  OBVIOUS
<1>2. h \div i >= 0
  <2>1. SUFFICES ASSUME (h \div i) + 1 <= 0 PROVE FALSE
    BY <1>1
  <2>2. ((h \div i) + 1) * i <= 0
    BY <1>1, <2>1
  <2>3. QED
    BY <1>1, <2>2
<1>3. QED
  BY <1>1, <1>2

LEMMA WholeIntervals ==
  ASSUME NEW h \in Nat, NEW i \in Nat \ {0}, NEW n \in Nat, i * n <= h
  PROVE  h \div i \in Nat /\ n <= h \div i
<1> DEFINE k == h \div i
<1>1. k \in Nat /\ h < i * k + i
  BY DivMod
<1> HIDE DEF k
<1>2. SUFFICES ASSUME n >= k + 1 PROVE FALSE
  BY <1>1 DEF k
<1>3. i * (k + 1) <= i * n
  BY <1>1, <1>2, MultiplesGrow
<1>4. i * (k + 1) = i * k + i
  BY <1>1, OneMore
<1>5. QED
  BY <1>1, <1>3, <1>4

(* From one look at the receiver to the next: the interval, and the time   *)
(* until the next frame.                                                   *)
Period == CheckInterval + MaxGap

(* The settings that limit how old a fix may be.                           *)
Watched == UsrpTime!GpsReference(clock) /\ clock.holdover # 0

ClockTypes ==
    /\ clock \in Clocks \cup {UsrpTime!NoClock} /\ gps_state \in {"bootup", "monitor_fix"}
    /\ num_checks \in Nat /\ since_check \in Nat
    /\ fix_future \in {"none", "asked", "locked", "lost"}
    /\ time_set \in BOOLEAN /\ passed \in BOOLEAN /\ failed \in BOOLEAN /\ evidence \in Nat

NothingBefore == clock = UsrpTime!NoClock => /\ evidence = 0 /\ since_check = 0
                                             /\ fix_future = "none" /\ ~passed

(* The answer that is there was given since it was asked for; any other    *)
(* fix is as old as the failed checks, two periods each, and the periods   *)
(* of the check that goes on.                                              *)
OldestAfter(fix, checks, since) ==
    IF fix = "locked" THEN since
    ELSE IF fix = "none" THEN Period * (2 * checks + 1) + since
    ELSE Period * (2 * checks + 2) + since

Oldest == OldestAfter(fix_future, num_checks, since_check)

FixIsRecent == Watched /\ ~failed => since_check <= CheckInterval /\ evidence <= Oldest

(* The two ways to a time: the constructor, or the end of bootup.          *)
TimeWasSet ==
    /\ gps_state = "monitor_fix" => time_set
    /\ clock # UsrpTime!NoClock /\ ~failed /\ clock.pps \notin {"pps", "gpsdo"} => time_set

ClockInv == ClockTypes /\ NothingBefore /\ FixIsRecent /\ TimeWasSet /\ UsrpTime!TimeCanBeTrusted

LEMMA ClockInitially == ASSUME UsrpTime!Init PROVE ClockInv
<1>1. ClockTypes
  BY DEF UsrpTime!Init, ClockTypes
<1>2. ~Watched
  BY DEF UsrpTime!Init, UsrpTime!NoClock, Watched, UsrpTime!GpsReference
<1>3. QED
  BY <1>1, <1>2 DEF UsrpTime!Init, ClockInv, NothingBefore, FixIsRecent, TimeWasSet,
                    UsrpTime!TimeCanBeTrusted

(* A constructor that sets the clock: nothing was seen before.             *)
LEMMA ConstructKeeps == ASSUME ClockInv, UsrpTime!Construct PROVE ClockInv'
<1>1. /\ clock = UsrpTime!NoClock /\ clock' \in Clocks
      /\ UNCHANGED <<since_check, fix_future, passed, evidence>>
  BY DEF UsrpTime!Construct
<1>2. /\ num_checks' \in {num_checks, 0} /\ gps_state' \in {gps_state, "monitor_fix"}
      /\ time_set' \in BOOLEAN /\ failed' \in BOOLEAN
  BY DEF UsrpTime!Construct, UsrpTime!SetTime, ClockInv, ClockTypes
<1>3. ClockTypes'
  <2>1. ClockTypes
    BY DEF ClockInv
  <2>2. QED
    BY <1>1, <1>2, <2>1 DEF ClockTypes
<1>4. evidence = 0 /\ since_check = 0 /\ fix_future = "none" /\ ~passed
  BY <1>1 DEF ClockInv, NothingBefore
<1>5. TimeWasSet'
  BY DEF UsrpTime!Construct, UsrpTime!SetTime, ClockInv, TimeWasSet
<1>6. FixIsRecent'
  <2>1. Period * (2 * num_checks' + 1) \in Nat
    <3>1. Period \in Nat
      BY ClockSettings DEF Period
    <3>2. num_checks' \in Nat
      BY <1>3 DEF ClockTypes
    <3>3. \A n \in Nat : 2 * n + 1 \in Nat
      OBVIOUS
    <3>4. QED
      BY <3>1, <3>2, <3>3, OneMore
  <2>2. QED
    BY <1>1, <1>4, <2>1, ClockSettings DEF FixIsRecent, Oldest, OldestAfter
<1>7. QED
  BY <1>1, <1>3, <1>4, <1>5, <1>6 DEF ClockInv, NothingBefore, UsrpTime!TimeCanBeTrusted

(* The next look at the receiver, and what it makes of the fix.            *)
LEMMA CheckGpsKeeps ==
  ASSUME ClockTypes, FixIsRecent, Watched, ~failed, NEW dt \in 1 .. MaxGap, UsrpTime!CheckGps(dt),
         UsrpTime!Age(dt), UNCHANGED clock
  PROVE  /\ num_checks' \in Nat /\ since_check' \in Nat /\ evidence' \in Nat
         /\ fix_future' \in {"none", "asked", "locked", "lost"}
         /\ since_check' <= CheckInterval /\ evidence' <= Oldest'
<1>0. /\ CheckInterval \in Nat /\ MaxGap \in Nat /\ Period \in Nat /\ dt \in Nat
      /\ since_check \in Nat /\ num_checks \in Nat /\ evidence \in Nat
  BY ClockSettings DEF Period, ClockTypes
<1>1. evidence' <= evidence + dt /\ evidence' \in Nat
  <2>1. UsrpTime!Limit(clock) \in Nat
    <3>1. clock.holdover \in Nat
      BY ClockSettings DEF ClockTypes, Watched, UsrpTime!GpsReference, UsrpTime!NoClock
    <3>2. UsrpTime!Interval \in Nat \ {0}
      BY ClockSettings DEF UsrpTime!Interval
    <3>3. clock.holdover \div UsrpTime!Interval \in Nat
      BY <3>1, <3>2, DivMod
    <3>4. QED
      BY <1>0, <3>3 DEF UsrpTime!Limit
  <2>2. QED
    BY <1>0, <2>1 DEF UsrpTime!Age, UsrpTime!Older
<1>2. since_check <= CheckInterval /\ evidence <= Oldest
  BY DEF FixIsRecent
<1>3. CASE since_check + dt > CheckInterval
  <2>1. since_check' = 0 /\ since_check + dt <= Period
    BY <1>0, <1>2, <1>3 DEF UsrpTime!CheckGps, Period
  <2>2. CASE fix_future = "locked"
    <3>1. num_checks' = 0 /\ fix_future' = "none"
      BY <1>3, <2>2 DEF UsrpTime!CheckGps, UsrpTime!Collect
    <3>2. Period * (2 * 0 + 1) = Period
      BY <1>0
    <3>3. QED
      BY <1>0, <1>1, <1>2, <2>1, <2>2, <3>1, <3>2 DEF Oldest, OldestAfter
  <2>3. CASE fix_future = "lost"
    <3>1. num_checks' = num_checks + 1 /\ fix_future' = "none"
      BY <1>3, <2>3 DEF UsrpTime!CheckGps, UsrpTime!Collect
    <3>2. Period * (2 * num_checks' + 1) = Period * (2 * num_checks + 2) + Period
      BY <1>0, <3>1, OneMore
    <3>3. Period * (2 * num_checks + 2) \in Nat
      BY <1>0
    <3>4. QED
      BY <1>0, <1>1, <1>2, <2>1, <2>3, <3>1, <3>2, <3>3 DEF Oldest, OldestAfter
  <2>4. CASE fix_future = "none"
    <3>1. num_checks' = num_checks /\ fix_future' = "asked"
      BY <1>3, <2>4 DEF UsrpTime!CheckGps
    <3>2. Period * (2 * num_checks + 2) = Period * (2 * num_checks + 1) + Period
      BY <1>0, OneMore
    <3>3. Period * (2 * num_checks + 1) \in Nat
      BY <1>0
    <3>4. QED
      BY <1>0, <1>1, <1>2, <2>1, <2>4, <3>1, <3>2, <3>3 DEF Oldest, OldestAfter
  <2>5. QED
    BY <1>3, <2>2, <2>3, <2>4 DEF UsrpTime!CheckGps
<1>4. CASE ~(since_check + dt > CheckInterval)
  <2>1. since_check' = since_check + dt /\ num_checks' = num_checks /\ fix_future' = fix_future
    BY <1>4 DEF UsrpTime!CheckGps
  <2>2. Period * (2 * num_checks + 1) \in Nat /\ Period * (2 * num_checks + 2) \in Nat
    BY <1>0
  <2>3. evidence + dt <= Oldest'
    BY <1>0, <1>2, <2>1, <2>2 DEF Oldest, OldestAfter
  <2>4. Oldest' \in Nat /\ since_check' \in Nat /\ since_check' <= CheckInterval
    BY <1>0, <1>4, <2>1, <2>2 DEF Oldest, OldestAfter
  <2>5. QED
    BY <1>0, <1>1, <2>1, <2>3, <2>4 DEF ClockTypes
<1>5. QED
  BY <1>3, <1>4

(* What passes has a fix that is not too old.                              *)
LEMMA PassedIsWithinLimit ==
  ASSUME NEW c, c.holdover \in Nat, NEW age \in Nat, NEW fix, NEW checks \in Nat, NEW since \in Nat,
         since <= CheckInterval, age <= OldestAfter(fix, checks, since),
         checks = 0 \/ UsrpTime!Interval * checks <= c.holdover
  PROVE  age <= UsrpTime!Limit(c)
<1> DEFINE k == c.holdover \div UsrpTime!Interval
<1>1. /\ Period \in Nat /\ CheckInterval \in Nat /\ CheckInterval <= Period
  BY ClockSettings DEF Period
<1>2. c.holdover \in Nat
  OBVIOUS
<1>3. UsrpTime!Interval \in Nat \ {0}
  BY ClockSettings DEF UsrpTime!Interval
<1>4. k \in Nat /\ checks <= k
  <2>1. CASE checks = 0
    BY <1>2, <1>3, <2>1, DivMod
  <2>2. CASE UsrpTime!Interval * checks <= c.holdover
    BY <1>1, <1>2, <1>3, <2>2, WholeIntervals
  <2>3. QED
    BY <2>1, <2>2
<1>5. UsrpTime!Limit(c) = Period * (2 * k + 3)
  BY DEF UsrpTime!Limit, Period
<1> HIDE DEF k
<1>6. Period * (2 * k + 3) = Period * (2 * k + 2) + Period
  BY <1>1, <1>4, OneMore
<1>7. Period * (2 * checks + 2) <= Period * (2 * k + 2)
  <2>1. 2 * checks + 2 \in Nat /\ 2 * k + 2 \in Nat /\ 2 * checks + 2 <= 2 * k + 2
    BY <1>1, <1>4
  <2>2. QED
    BY <1>1, <2>1, MultiplesGrow
<1>8. Period * (2 * checks + 1) <= Period * (2 * checks + 2)
  <2>1. 2 * checks + 1 \in Nat /\ 2 * checks + 2 \in Nat
    BY <1>1
  <2>2. QED
    BY <1>1, <2>1, MultiplesGrow
<1>9. Period * (2 * checks + 1) \in Nat /\ Period * (2 * checks + 2) \in Nat
      /\ Period * (2 * k + 2) \in Nat
  <2>1. 2 * checks + 1 \in Nat /\ 2 * checks + 2 \in Nat /\ 2 * k + 2 \in Nat
    BY <1>1, <1>4
  <2>2. QED
    BY <1>1, <2>1, OneMore
<1>10. /\ OldestAfter(fix, checks, since) <= Period * (2 * k + 2) + CheckInterval
       /\ OldestAfter(fix, checks, since) \in Nat
  BY <1>1, <1>7, <1>8, <1>9 DEF OldestAfter
<1>11. QED
  BY <1>1, <1>5, <1>6, <1>9, <1>10

(* One frame.  The clock that is watched is always looked at.              *)
LEMMA IsClkSourceOkKeeps == ASSUME ClockInv, UsrpTime!IsClkSourceOk PROVE ClockInv'
<1>1. clock # UsrpTime!NoClock /\ ~failed /\ UNCHANGED clock
  BY DEF UsrpTime!IsClkSourceOk
<1>2. PICK dt \in 1 .. MaxGap, locked \in BOOLEAN, ok \in BOOLEAN :
         /\ UsrpTime!Age(dt)
         /\ \/ /\ failed' = TRUE /\ passed' = FALSE
               /\ UNCHANGED <<since_check, gps_state, num_checks, fix_future, time_set>>
            \/ UsrpTime!VerifyTime(dt, ok) /\ passed' = (locked /\ ok /\ ~failed')
  BY DEF UsrpTime!IsClkSourceOk
<1>3. ClockTypes /\ FixIsRecent /\ TimeWasSet
  BY DEF ClockInv
<1>4. evidence' \in Nat
  <2>1. evidence \in Nat /\ dt \in Nat
    BY <1>3, ClockSettings DEF ClockTypes
  <2>2. clock.holdover \in Nat /\ UsrpTime!Interval \in Nat \ {0}
    BY <1>1, <1>3, ClockSettings DEF ClockTypes, UsrpTime!Interval
  <2>3. clock.holdover \div UsrpTime!Interval \in Nat
    BY <2>2, DivMod
  <2>4. UsrpTime!Limit(clock) + 1 \in Nat
    <3>1. 2 * (clock.holdover \div UsrpTime!Interval) + 3 \in Nat
      BY <2>3
    <3>2. CheckInterval + MaxGap \in Nat
      BY ClockSettings
    <3>3. QED
      BY <3>1, <3>2, OneMore DEF UsrpTime!Limit
  <2>5. QED
    BY <1>2, <2>1, <2>4 DEF UsrpTime!Age, UsrpTime!Older
<1>5. CASE /\ failed' = TRUE /\ passed' = FALSE
           /\ UNCHANGED <<since_check, gps_state, num_checks, fix_future, time_set>>
  <2>1. ClockTypes'
    BY <1>1, <1>3, <1>4, <1>5 DEF ClockTypes
  <2>2. QED
    BY <1>1, <1>3, <1>5, <2>1 DEF ClockInv, NothingBefore, FixIsRecent, TimeWasSet,
                                  UsrpTime!TimeCanBeTrusted
<1>6. CASE /\ ~UsrpTime!NeedsCheck /\ UsrpTime!VerifyTime(dt, ok)
           /\ passed' = (locked /\ ok /\ ~failed')
  <2>1. UNCHANGED <<gps_state, num_checks, fix_future, time_set, failed>> /\ passed' \in BOOLEAN
    BY <1>6 DEF UsrpTime!VerifyTime
  <2>2. since_check' \in Nat
    BY <1>3, <1>6, ClockSettings DEF UsrpTime!VerifyTime, UsrpTime!Older, ClockTypes
  <2>3. ClockTypes'
    BY <1>1, <1>3, <1>4, <2>1, <2>2 DEF ClockTypes
  <2>4. ~Watched /\ ~Watched'
    BY <1>1, <1>6 DEF Watched, UsrpTime!NeedsCheck, UsrpTime!GpsReference
  <2>5. UsrpTime!GpsReference(clock) => gps_state = "monitor_fix" /\ clock.holdover = 0
    BY <1>6 DEF UsrpTime!NeedsCheck
  <2>6. UsrpTime!TimeCanBeTrusted'
    BY <1>1, <1>3, <2>1, <2>5 DEF UsrpTime!TimeCanBeTrusted, TimeWasSet, UsrpTime!GpsReference
  <2>7. QED
    BY <1>1, <1>3, <2>1, <2>3, <2>4, <2>6 DEF ClockInv, NothingBefore, FixIsRecent, TimeWasSet
<1>7. CASE /\ UsrpTime!NeedsCheck /\ UsrpTime!VerifyTime(dt, ok)
           /\ passed' = (locked /\ ok /\ ~failed')
  <2>1. UsrpTime!CheckGps(dt) /\ (UsrpTime!Bootup(ok) \/ UsrpTime!MonitorFix(ok))
    BY <1>7 DEF UsrpTime!VerifyTime
  <2>2. /\ gps_state' \in {"bootup", "monitor_fix"} /\ failed' \in BOOLEAN /\ time_set' \in BOOLEAN
        /\ passed' \in BOOLEAN
    BY <1>1, <1>3, <1>7, <2>1 DEF UsrpTime!Bootup, UsrpTime!MonitorFix, UsrpTime!SetTime, ClockTypes
  <2>3. /\ num_checks' \in Nat /\ since_check' \in Nat
        /\ fix_future' \in {"none", "asked", "locked", "lost"}
    BY <1>3, <2>1, ClockSettings DEF UsrpTime!CheckGps, UsrpTime!Collect, ClockTypes
  <2>4. ClockTypes'
    BY <1>1, <1>3, <1>4, <2>2, <2>3 DEF ClockTypes
  <2>5. TimeWasSet'
    BY <1>1, <1>3, <2>1 DEF UsrpTime!Bootup, UsrpTime!MonitorFix, UsrpTime!SetTime, TimeWasSet
  <2>6. Watched => since_check' <= CheckInterval /\ evidence' <= Oldest'
    BY <1>1, <1>2, <1>3, <2>1, CheckGpsKeeps
  <2>7. passed' => num_checks' = 0 \/ UsrpTime!Interval * num_checks' <= clock.holdover
    BY <1>7, <2>1 DEF UsrpTime!Bootup, UsrpTime!MonitorFix, UsrpTime!WithoutFix
  <2>8. passed' => time_set' \/ (~UsrpTime!GpsReference(clock) /\ clock.pps \in {"pps", "gpsdo"})
    BY <1>1, <1>3, <1>7, <2>1 DEF UsrpTime!Bootup, UsrpTime!MonitorFix, UsrpTime!SetTime, TimeWasSet
  <2>9. passed' /\ Watched => evidence' <= UsrpTime!Limit(clock)
    <3> SUFFICES ASSUME passed', Watched PROVE evidence' <= UsrpTime!Limit(clock)
      OBVIOUS
    <3>1. clock.holdover \in Nat
      BY <1>1, <1>3, ClockSettings DEF ClockTypes
    <3>2. evidence' <= OldestAfter(fix_future', num_checks', since_check')
      BY <2>6 DEF Oldest
    <3>3. QED
      BY <1>4, <2>3, <2>6, <2>7, <3>1, <3>2, PassedIsWithinLimit
  <2>10. QED
    BY <1>1, <2>4, <2>5, <2>6, <2>8, <2>9 DEF ClockInv, NothingBefore, FixIsRecent,
                                            UsrpTime!TimeCanBeTrusted, Watched
<1>8. QED
  BY <1>2, <1>5, <1>6, <1>7

LEMMA ClockStep == ASSUME ClockInv, [UsrpTime!Next]_clockVars PROVE ClockInv'
<1>1. CASE UsrpTime!SensorAnswers
  <2>1. /\ UNCHANGED <<clock, gps_state, num_checks, since_check, time_set, passed, failed>>
        /\ fix_future = "asked" /\ fix_future' \in {"locked", "lost"}
        /\ \/ fix_future' = "locked" /\ evidence' = 0
           \/ fix_future' = "lost" /\ evidence' = evidence
    BY <1>1 DEF UsrpTime!SensorAnswers
  <2>2. ClockTypes' /\ since_check \in Nat
    BY <2>1 DEF ClockInv, ClockTypes
  <2>3. clock # UsrpTime!NoClock
    BY <2>1 DEF ClockInv, NothingBefore
  <2>4. Watched /\ ~failed => evidence' <= Oldest'
    BY <2>1, <2>2 DEF ClockInv, FixIsRecent, Oldest, OldestAfter
  <2>5. FixIsRecent' /\ TimeWasSet' /\ NothingBefore'
    BY <2>1, <2>3, <2>4 DEF ClockInv, FixIsRecent, Watched, TimeWasSet, NothingBefore
  <2>6. evidence' <= evidence /\ evidence \in Nat /\ evidence' \in Nat
    BY <2>1, <2>2 DEF ClockInv, ClockTypes
  <2>7. UsrpTime!Limit(clock) \in Int \/ ~(Watched /\ passed)
    <3>1. SUFFICES ASSUME Watched PROVE UsrpTime!Limit(clock) \in Int
      OBVIOUS
    <3>2. clock.holdover \in Nat /\ UsrpTime!Interval \in Nat \ {0}
      BY <2>2, <2>1, <2>3, ClockSettings DEF ClockTypes, UsrpTime!Interval
    <3>3. clock.holdover \div UsrpTime!Interval \in Nat
      BY <3>2, DivMod
    <3>4. QED
      BY <3>3, ClockSettings DEF UsrpTime!Limit
  <2>8. UsrpTime!TimeCanBeTrusted'
    BY <2>1, <2>6, <2>7 DEF ClockInv, UsrpTime!TimeCanBeTrusted, Watched
  <2>9. QED
    BY <2>2, <2>5, <2>8 DEF ClockInv
<1>2. CASE UNCHANGED clockVars
  BY <1>2
     DEF clockVars, ClockInv, ClockTypes, NothingBefore, FixIsRecent, Watched, Oldest, TimeWasSet,
         UsrpTime!TimeCanBeTrusted
<1>3. QED
  BY <1>1, <1>2, ConstructKeeps, IsClkSourceOkKeeps DEF UsrpTime!Next

-----------------------------------------------------------------------------
(* src/output/Dexter.cpp: the clock and the channel.                       *)

LEMMA DexterIsAlone == DeviceSpec => Dexter!Init /\ [][Dexter!Next]_dexterVars
<1>1. DeviceInit => Dexter!Init
  BY DEF DeviceInit
<1>2. [DeviceNext]_deviceVars => [Dexter!Next]_dexterVars
  BY DEF deviceVars, DeviceNext, Choose
<1>3. QED
  BY <1>1, <1>2, PTL DEF DeviceSpec

DexterTypes ==
    /\ enableSync \in BOOLEAN /\ clock_state \in {"Startup", "Normal", "Holdover"}
    /\ holdover_since \in Int /\ gps_seen \in Nat /\ time \in Nat
    /\ channel_up \in BOOLEAN /\ start_clks \in Nat \cup {-1} /\ pushed \in Nat
    /\ need_refresh \in BOOLEAN /\ number \in Nat \cup {-1} /\ last_due \in Nat \cup {-1}
    /\ dexter \in {"closed", "idle", "transmit", "failed"}
    /\ dab \in [due : Nat, valid : BOOLEAN]
    /\ onair.age \in Int

(* The state of the clock tells when the PPS was seen last.                *)
SeenByState ==
    /\ gps_seen <= time
    /\ dexter = "closed" => clock_state = "Startup" /\ ~channel_up
    /\ enableSync /\ clock_state = "Normal" => gps_seen = time
    /\ enableSync /\ clock_state = "Holdover" =>
          /\ holdover_since - gps_seen <= MaxGap
          /\ time - holdover_since <= MaxHoldover
    /\ enableSync /\ dexter = "transmit" => clock_state # "Startup"

(* A channel that was brought up for a time has come to the frame that was *)
(* noted last, or a refresh is pending, or a frame passed unnoted, so that *)
(* the next one with a timestamp will ask for a refresh.                   *)
Unnoted == last_due < number

ChannelOnTime ==
    dexter # "failed" /\ channel_up /\ start_clks # -1 /\ ~need_refresh =>
       /\ enableSync /\ last_due # -1
       /\ \/ Unnoted
          \/ last_due = start_clks + pushed - (IF dexter = "transmit" THEN 0 ELSE 1)

(* The frame in hand is the last one, and noted if it has a timestamp.     *)
InHandIsNoted ==
    /\ last_due <= number
    /\ dexter = "transmit" => IF enableSync /\ dab.valid
                              THEN last_due = dab.due /\ number = dab.due
                              ELSE enableSync => Unnoted

DexterInv == /\ DexterTypes /\ SeenByState /\ ChannelOnTime /\ InHandIsNoted
             /\ Dexter!OnAirOnTime /\ Dexter!HoldoverIsBounded

LEMMA DexterInitially == ASSUME Dexter!Init PROVE DexterInv
<1>1. DexterTypes
  <2>1. dab \in [due : Nat, valid : BOOLEAN] /\ onair.age = 0
    BY DEF Dexter!Init, Dexter!NoDab, Dexter!NothingOnAir
  <2>2. /\ start_clks \in Nat \cup {-1} /\ number \in Nat \cup {-1} /\ last_due \in Nat \cup {-1}
        /\ holdover_since \in Int
    BY DEF Dexter!Init
  <2>3. enableSync \in BOOLEAN /\ channel_up \in BOOLEAN /\ need_refresh \in BOOLEAN
    BY DEF Dexter!Init
  <2>4. gps_seen \in Nat /\ time \in Nat /\ pushed \in Nat
    BY DEF Dexter!Init
  <2>5. /\ clock_state \in {"Startup", "Normal", "Holdover"}
        /\ dexter \in {"closed", "idle", "transmit", "failed"}
    BY DEF Dexter!Init
  <2>6. QED
    BY <2>1, <2>2, <2>3, <2>4, <2>5 DEF DexterTypes
<1>2. QED
  BY <1>1, ClockSettings DEF Dexter!Init, DexterInv, SeenByState, ChannelOnTime, InHandIsNoted,
     Dexter!OnAirOnTime, Dexter!HoldoverIsBounded, Dexter!NothingOnAir

(* The clock is looked at before every frame.                              *)
LEMMA ClockSourceKeeps ==
  ASSUME DexterTypes, SeenByState, dexter = "idle", UNCHANGED enableSync, NEW ok \in BOOLEAN,
         NEW t \in Nat, time' = t, time <= t, t <= time + MaxGap, Dexter!IsClkSourceOk(ok),
         dexter' = "transmit" => ok, dexter' # "closed"
  PROVE  /\ SeenByState'
         /\ clock_state' \in {"Startup", "Normal", "Holdover"}
         /\ holdover_since' \in Int /\ gps_seen' \in Nat
<1>1. CASE ~enableSync
  BY <1>1 DEF Dexter!IsClkSourceOk, Dexter!clockVars, SeenByState, DexterTypes
<1>2. CASE enableSync
  <2>0. /\ MaxGap \in Nat /\ MaxHoldover \in Nat /\ time \in Nat /\ gps_seen \in Nat
        /\ holdover_since \in Int
    BY ClockSettings DEF DexterTypes
  <2>1. PICK locked \in BOOLEAN, pps \in BOOLEAN :
           Dexter!Startup(locked, pps) \/ Dexter!Normal(pps) \/ Dexter!Holdover(pps)
    BY <1>2 DEF Dexter!IsClkSourceOk, Dexter!HandleHwTime
  <2>2. dexter' = "transmit" => clock_state' # "Startup"
    BY <1>2 DEF Dexter!IsClkSourceOk
  <2>3. CASE Dexter!Startup(locked, pps)
    BY <1>2, <2>2, <2>3 DEF Dexter!Startup, SeenByState, DexterTypes
  <2>4. CASE Dexter!Normal(pps)
    <3>1. gps_seen = time /\ UNCHANGED enableSync
      BY <1>2, <2>4 DEF Dexter!Normal, SeenByState
    <3>2. CASE pps
      BY <1>2, <2>2, <2>4, <3>1, <3>2, <2>0 DEF Dexter!Normal, SeenByState
    <3>3. CASE ~pps
      <4>1. clock_state' = "Holdover" /\ holdover_since' = t /\ gps_seen' = time
        BY <2>4, <3>1, <3>3 DEF Dexter!Normal
      <4>2. t - time <= MaxGap /\ t - t <= MaxHoldover
        BY <2>0
      <4>3. QED
        BY <2>0, <4>1, <4>2 DEF SeenByState
    <3>4. QED
      BY <3>2, <3>3
  <2>5. CASE Dexter!Holdover(pps)
    <3>1. /\ holdover_since - gps_seen <= MaxGap /\ gps_seen <= time
          /\ UNCHANGED gps_seen
      BY <1>2, <2>5 DEF Dexter!Holdover, SeenByState
    <3>2. CASE pps \/ t - holdover_since > MaxHoldover
      BY <1>2, <2>2, <2>5, <3>1, <3>2, <2>0 DEF Dexter!Holdover, SeenByState
    <3>3. CASE ~(pps \/ t - holdover_since > MaxHoldover)
      <4>1. UNCHANGED <<clock_state, holdover_since>> /\ clock_state = "Holdover"
        BY <2>5, <3>3 DEF Dexter!Holdover
      <4>2. t - holdover_since <= MaxHoldover
        BY <2>0, <3>3
      <4>3. gps_seen <= t
        BY <2>0, <3>1
      <4>4. QED
        BY <2>0, <3>1, <4>1, <4>2, <4>3 DEF SeenByState
    <3>4. QED
      BY <3>2, <3>3
  <2>6. QED
    BY <2>1, <2>3, <2>4, <2>5
<1>3. QED
  BY <1>1, <1>2 DEF DexterTypes

(* What CheckTimestamp and muting note of a frame that comes.              *)
LEMMA HandleFrameKeeps == ASSUME DexterInv, Dexter!HandleFrame PROVE DexterInv'
<1>1. DexterTypes /\ SeenByState /\ ChannelOnTime /\ InHandIsNoted
  BY DEF DexterInv
<1>2. dexter = "idle" /\ UNCHANGED <<enableSync, channel_up, start_clks, pushed, onair>>
  BY DEF Dexter!HandleFrame, Dexter!channelVars
<1>3. PICK dt \in 0 .. MaxGap, due \in number + 1 .. number + 1 + MaxLost,
           stamped \in BOOLEAN, muting1 \in BOOLEAN, ok \in BOOLEAN :
         /\ time' = time + dt /\ number' = due
         /\ Dexter!IsClkSourceOk(ok)
         /\ \/ ~ok /\ Dexter!Dropped /\ UNCHANGED <<need_refresh, last_due>>
            \/ /\ ok /\ enableSync /\ ~stamped
               /\ Dexter!Dropped /\ UNCHANGED <<need_refresh, last_due>>
            \/ /\ ok /\ enableSync /\ stamped /\ due < time'
               /\ Dexter!CheckTimestamp(due) /\ Dexter!Dropped
            \/ /\ ok
               /\ IF muting1
                  THEN /\ Dexter!Dropped /\ need_refresh' = TRUE
                       /\ last_due' = IF enableSync /\ stamped THEN due ELSE last_due
                  ELSE /\ dexter' = "transmit" /\ dab' = [due |-> due, valid |-> stamped]
                       /\ IF enableSync /\ stamped THEN Dexter!CheckTimestamp(due)
                                                 ELSE UNCHANGED <<need_refresh, last_due>>
  BY DEF Dexter!HandleFrame
<1>4. /\ time \in Nat /\ number \in Nat \cup {-1} /\ last_due \in Nat \cup {-1}
      /\ last_due <= number
      /\ start_clks \in Nat \cup {-1} /\ pushed \in Nat /\ MaxGap \in Nat
  BY <1>1, ClockSettings DEF DexterTypes, InHandIsNoted
<1>5. due \in Nat /\ due > number
  BY <1>3, <1>4
<1>6. PICK t \in Nat : t = time + dt /\ time <= t /\ t <= time + MaxGap
  BY <1>4
<1>7. /\ dexter' \in {"idle", "transmit"} /\ (dexter' = "transmit" => ok)
      /\ last_due' \in {last_due, due} /\ need_refresh' \in BOOLEAN
  BY <1>1, <1>3 DEF Dexter!Dropped, Dexter!CheckTimestamp, DexterTypes
<1>8. /\ SeenByState' /\ clock_state' \in {"Startup", "Normal", "Holdover"}
      /\ holdover_since' \in Int /\ gps_seen' \in Nat
  BY <1>1, <1>2, <1>3, <1>6, <1>7, ClockSourceKeeps
<1>9. dab' = dab \/ dab' = [due |-> due, valid |-> stamped]
  BY <1>3 DEF Dexter!Dropped
<1>10. DexterTypes'
  <2>1. dab' \in [due : Nat, valid : BOOLEAN]
    BY <1>1, <1>5, <1>9 DEF DexterTypes
  <2>2. last_due' \in Nat \cup {-1} /\ number' \in Nat \cup {-1} /\ time' \in Nat
    BY <1>3, <1>4, <1>5, <1>6, <1>7
  <2>3. QED
    BY <1>1, <1>2, <1>7, <1>8, <2>1, <2>2 DEF DexterTypes
<1>11. CASE UNCHANGED <<need_refresh, last_due>>
  <2>1. Unnoted'
    BY <1>3, <1>4, <1>5, <1>11 DEF Unnoted
  <2>2. dexter' = "transmit" => dab'.valid = stamped /\ ~(enableSync /\ stamped)
    <3>1. SUFFICES ASSUME dexter' = "transmit", enableSync, stamped PROVE FALSE
      BY <1>3 DEF Dexter!Dropped
    <3>2. last_due' = due
      BY <1>3, <3>1 DEF Dexter!CheckTimestamp, Dexter!Dropped
    <3>3. QED
      BY <1>4, <1>5, <1>11, <3>2
  <2>3. QED
    BY <1>1, <1>2, <1>3, <1>4, <1>5, <1>8, <1>10, <1>11, <2>1, <2>2
       DEF DexterInv, ChannelOnTime, InHandIsNoted, Dexter!OnAirOnTime, Dexter!HoldoverIsBounded
<1>12. CASE ~UNCHANGED <<need_refresh, last_due>>
  <2>1. /\ dexter' = "transmit" => /\ enableSync /\ stamped /\ last_due' = due
                                   /\ dab' = [due |-> due, valid |-> stamped]
        /\ ~need_refresh' => /\ dexter' = "transmit" /\ last_due' = due
                             /\ ~need_refresh /\ ~Dexter!Irregular(due)
    BY <1>3, <1>12 DEF Dexter!Dropped, Dexter!CheckTimestamp
  <2>2. InHandIsNoted'
    BY <1>2, <1>3, <1>4, <1>5, <1>7, <2>1 DEF InHandIsNoted
  <2>3. ChannelOnTime'
    <3> SUFFICES ASSUME channel_up, start_clks # -1, ~need_refresh'
                 PROVE  enableSync /\ last_due' # -1 /\ last_due' = start_clks + pushed
      BY <1>2, <1>4, <2>1 DEF ChannelOnTime
    <3>1. enableSync /\ last_due # -1 /\ (Unnoted \/ last_due = start_clks + pushed - 1)
      BY <1>1, <1>2, <2>1 DEF ChannelOnTime
    <3>2. due = last_due + 1
      BY <2>1, <3>1 DEF Dexter!Irregular
    <3>3. last_due = start_clks + pushed - 1
      BY <1>4, <1>5, <3>1, <3>2 DEF Unnoted
    <3>4. QED
      BY <1>4, <1>5, <2>1, <3>1, <3>2, <3>3
  <2>4. QED
    BY <1>2, <1>8, <1>10, <2>2, <2>3 DEF DexterInv, Dexter!OnAirOnTime, Dexter!HoldoverIsBounded
<1>13. QED
  BY <1>11, <1>12

(* transmit_frame(): what is pushed is on time, and the channel goes on or *)
(* is down.                                                                *)
LEMMA TransmitFrameKeeps == ASSUME DexterInv, Dexter!TransmitFrame PROVE DexterInv'
<1>1. DexterTypes /\ SeenByState /\ ChannelOnTime /\ InHandIsNoted
  BY DEF DexterInv
<1>2. /\ dexter = "transmit" /\ dexter' = "idle" /\ dab' = Dexter!NoDab
      /\ UNCHANGED <<enableSync, clock_state, holdover_since, gps_seen, time, number, last_due>>
  BY DEF Dexter!TransmitFrame, Dexter!clockVars
<1>3. /\ time \in Nat /\ gps_seen \in Nat /\ number \in Nat \cup {-1} /\ last_due \in Nat \cup {-1}
      /\ start_clks \in Nat \cup {-1} /\ pushed \in Nat /\ dab.due \in Nat
      /\ MaxGap \in Nat /\ MaxHoldover \in Nat /\ holdover_since \in Int
  BY <1>1, ClockSettings DEF DexterTypes
<1>4. SeenByState' /\ InHandIsNoted'
  BY <1>1, <1>2 DEF SeenByState, InHandIsNoted
<1>5. enableSync => time - gps_seen <= MaxHoldover + MaxGap
  <2>1. CASE clock_state = "Normal"
    BY <1>1, <1>3, <2>1 DEF SeenByState
  <2>2. CASE clock_state = "Holdover"
    BY <1>1, <1>3, <2>2 DEF SeenByState
  <2>3. QED
    BY <1>1, <1>2, <2>1, <2>2 DEF SeenByState, DexterTypes
<1>6. dab' \in [due : Nat, valid : BOOLEAN]
  BY <1>2 DEF Dexter!NoDab
<1>7. CASE UNCHANGED <<channel_up, start_clks, pushed, onair, need_refresh>> /\ ~channel_up
  <2>1. DexterTypes'
    BY <1>1, <1>2, <1>6, <1>7 DEF DexterTypes
  <2>2. QED
    BY <1>4, <1>7, <2>1 DEF DexterInv, ChannelOnTime, Dexter!OnAirOnTime, Dexter!HoldoverIsBounded
<1>8. CASE Dexter!ChannelDown /\ need_refresh' \in BOOLEAN
  <2>1. DexterTypes'
    BY <1>1, <1>2, <1>6, <1>8 DEF DexterTypes, Dexter!ChannelDown
  <2>2. QED
    BY <1>4, <1>8, <2>1 DEF DexterInv, ChannelOnTime, Dexter!OnAirOnTime, Dexter!HoldoverIsBounded,
                            Dexter!ChannelDown
<1>9. ASSUME NEW start \in Nat \cup {-1}, NEW frames1 \in Nat, need_refresh' \in BOOLEAN,
             start # -1 /\ Dexter!Timestamped => dab.due = start + frames1,
             start # -1 /\ ~need_refresh' => /\ enableSync
                                             /\ dab.valid \/ Unnoted
                                             /\ last_due # -1,
             Dexter!ChannelUp(start, frames1 + 1),
             onair' = [due |-> IF Dexter!Timestamped THEN dab.due ELSE -1, place |-> frames1,
                       start |-> start, age |-> IF enableSync THEN time - gps_seen ELSE 0]
      PROVE  DexterInv'
  <2>1. channel_up' = TRUE /\ start_clks' = start /\ pushed' = frames1 + 1
    BY <1>9 DEF Dexter!ChannelUp
  <2>2. onair'.age \in Int /\ onair'.age <= MaxHoldover + MaxGap
    BY <1>3, <1>5, <1>9
  <2>3. DexterTypes'
    BY <1>1, <1>2, <1>6, <1>9, <2>1, <2>2 DEF DexterTypes
  <2>4. Dexter!OnAirOnTime' /\ Dexter!HoldoverIsBounded'
    BY <1>9, <2>2 DEF Dexter!OnAirOnTime, Dexter!HoldoverIsBounded
  <2>5. ChannelOnTime'
    <3> SUFFICES ASSUME start # -1, ~need_refresh'
                 PROVE  enableSync /\ last_due # -1 /\ (Unnoted \/ last_due = start + frames1)
      BY <1>2, <1>3, <2>1 DEF ChannelOnTime, Unnoted
    <3>1. CASE dab.valid
      BY <1>1, <1>2, <1>9, <3>1 DEF InHandIsNoted, Dexter!Timestamped
    <3>2. CASE ~dab.valid
      BY <1>9, <3>2
    <3>3. QED
      BY <3>1, <3>2
  <2>6. QED
    BY <1>4, <2>3, <2>4, <2>5 DEF DexterInv
<1>10. CASE Dexter!SkipFrame
  BY <1>7, <1>10 DEF Dexter!SkipFrame, Dexter!channelVars
<1>11. CASE Dexter!Refresh
  BY <1>8, <1>11 DEF Dexter!Refresh
<1>12. CASE Dexter!BringUpAtTime
  <2>1. Dexter!Push(dab.due, 0) /\ Dexter!Timestamped /\ need_refresh' = FALSE
    BY <1>12 DEF Dexter!BringUpAtTime
  <2>2. dab.due = dab.due + 0 /\ enableSync /\ dab.valid /\ last_due = dab.due
    BY <1>1, <1>2, <1>3, <2>1 DEF Dexter!Timestamped, InHandIsNoted
  <2>3. QED
    BY <1>3, <1>8, <1>9, <2>1, <2>2 DEF Dexter!Push
<1>13. CASE Dexter!BringUp
  <2>1. Dexter!Push(-1, 0) /\ need_refresh' \in BOOLEAN
    BY <1>1, <1>13 DEF Dexter!BringUp, DexterTypes
  <2>2. QED
    BY <1>8, <1>9, <2>1 DEF Dexter!Push
<1>14. CASE Dexter!GoOn
  <2>1. /\ Dexter!Push(start_clks, pushed) /\ channel_up /\ ~need_refresh /\ ~need_refresh'
        /\ need_refresh' \in BOOLEAN
    BY <1>1, <1>14 DEF Dexter!GoOn, DexterTypes
  <2>2. start_clks # -1 => /\ enableSync /\ last_due # -1
                           /\ Unnoted \/ last_due = start_clks + pushed
    BY <1>1, <1>2, <1>3, <2>1 DEF ChannelOnTime
  <2>3. enableSync => IF dab.valid THEN last_due = dab.due /\ ~Unnoted ELSE Unnoted
    BY <1>1, <1>2, <1>3 DEF InHandIsNoted, Unnoted
  <2>4. start_clks # -1 /\ Dexter!Timestamped => dab.due = start_clks + pushed
    BY <2>2, <2>3 DEF Dexter!Timestamped
  <2>5. start_clks # -1 => enableSync /\ (dab.valid \/ Unnoted) /\ last_due # -1
    BY <2>2, <2>3
  <2>6. QED
    BY <1>3, <1>8, <1>9, <2>1, <2>4, <2>5 DEF Dexter!Push
<1>15. QED
  BY <1>10, <1>11, <1>12, <1>13, <1>14 DEF Dexter!TransmitFrame

LEMMA DexterStep == ASSUME DexterInv, [Dexter!Next]_dexterVars PROVE DexterInv'
<1>1. CASE Dexter!Open
  <2>1. /\ dexter = "closed" /\ dexter' \in {"idle", "failed"} /\ enableSync' \in BOOLEAN
        /\ UNCHANGED <<clock_state, holdover_since, gps_seen, time, channel_up, start_clks, pushed,
                       onair, need_refresh, number, last_due, dab>>
    BY <1>1 DEF Dexter!Open, Dexter!clockVars, Dexter!channelVars
  <2>2. ~channel_up
    BY <2>1 DEF DexterInv, SeenByState
  <2>3. QED
    BY <2>1, <2>2 DEF DexterInv, DexterTypes, SeenByState, ChannelOnTime, InHandIsNoted,
                      Unnoted, Dexter!OnAirOnTime, Dexter!HoldoverIsBounded
<1>2. CASE Dexter!Throw
  <2>1. /\ dexter' = "failed" /\ dexter # "closed" /\ dab' = Dexter!NoDab
        /\ UNCHANGED <<enableSync, clock_state, holdover_since, gps_seen, time, channel_up,
                       start_clks,
                       pushed, onair, need_refresh, number, last_due>>
    BY <1>2 DEF Dexter!Throw, Dexter!clockVars, Dexter!channelVars
  <2>2. dab' \in [due : Nat, valid : BOOLEAN]
    BY <2>1 DEF Dexter!NoDab
  <2>3. DexterTypes'
    BY <2>1, <2>2 DEF DexterInv, DexterTypes
  <2>4. QED
    BY <2>1, <2>3 DEF DexterInv, SeenByState, ChannelOnTime, InHandIsNoted, Dexter!OnAirOnTime,
                      Dexter!HoldoverIsBounded
<1>3. CASE UNCHANGED dexterVars
  BY <1>3
     DEF dexterVars, DexterInv, DexterTypes, SeenByState, ChannelOnTime, InHandIsNoted, Unnoted,
         Dexter!OnAirOnTime, Dexter!HoldoverIsBounded
<1>4. QED
  BY <1>1, <1>2, <1>3, HandleFrameKeeps, TransmitFrameKeeps DEF Dexter!Next

(* A clock without its reference is believed for a limited time only: a    *)
(* USRP for the holdover time rounded up to whole checks, Dexter for its   *)
(* holdover time and the time to the next frame.                           *)
THEOREM DeviceClocksAreTrusted == DeviceSpec => []ClocksAreTrusted
<1>1. UsrpTime!Init => ClockInv
  BY ClockInitially
<1>2. ClockInv /\ [UsrpTime!Next]_clockVars => ClockInv'
  BY ClockStep
<1>3. Dexter!Init => DexterInv
  BY DexterInitially
<1>4. DexterInv /\ [Dexter!Next]_dexterVars => DexterInv'
  BY DexterStep
<1>5. ClockInv /\ DexterInv => ClocksAreTrusted
  BY DEF ClockInv, DexterInv, ClocksAreTrusted
<1>6. QED
  BY <1>1, <1>2, <1>3, <1>4, <1>5, ClockIsAlone, DexterIsAlone, PTL

-----------------------------------------------------------------------------
(* The drivers of src/output: settings, and the stream of Soapy.           *)

LEMMA DriversAreAlone == DeviceSpec => Drivers!Init /\ [][Drivers!Next]_driverVars
<1>1. DeviceInit => Drivers!Init
  BY DEF DeviceInit
<1>2. [DeviceNext]_deviceVars => [Drivers!Next]_driverVars
  BY DEF deviceVars, DeviceNext, Choose
<1>3. QED
  BY <1>1, <1>2, PTL DEF DeviceSpec

StreamInv == /\ frame_time \in 0 .. MaxJump /\ stream_active \in BOOLEAN
             /\ stream_refresh \in BOOLEAN
             /\ Drivers!StreamOnTime

LEMMA StreamInitially == ASSUME Drivers!Init PROVE StreamInv
<1>1. stream_active = FALSE /\ stream_refresh = FALSE /\ frame_time = 0
  BY DEF Drivers!Init
<1>2. 0 \in 0 .. MaxJump
  BY DriverSettings
<1>3. QED
  BY <1>1, <1>2 DEF StreamInv, Drivers!StreamOnTime

LEMMA StreamStep == ASSUME StreamInv, [Drivers!Next]_driverVars PROVE StreamInv'
<1> USE DEF StreamInv, Drivers!StreamOnTime
<1>1. CASE Drivers!BeginFrame
  <2>1. PICK jump \in 0 .. MaxJump :
           /\ frame_time' = (frame_time + jump) % (MaxJump + 1)
           /\ stream_refresh' = (stream_refresh \/ jump > 0)
    BY <1>1 DEF Drivers!BeginFrame
  <2>2. /\ stream_active' = TRUE
        /\ stream_time' = IF stream_active THEN stream_time ELSE frame_time'
    BY <1>1 DEF Drivers!BeginFrame
  <2>3. frame_time' \in 0 .. MaxJump
    BY <2>1, DriverSettings
  <2>4. jump = 0 => frame_time' = frame_time
    BY <2>1, DriverSettings
  <2>5. QED
    BY <2>1, <2>2, <2>3, <2>4
<1>2. CASE \E mute \in BOOLEAN : Drivers!WritePacket(mute)
  <2>1. UNCHANGED <<stream_time, frame_time>>
    BY <1>2 DEF Drivers!WritePacket
  <2>2. \/ stream_active' = FALSE /\ stream_refresh' = FALSE
        \/ UNCHANGED <<stream_active, stream_refresh>>
    BY <1>2 DEF Drivers!WritePacket, Drivers!EndOfBurst
  <2>3. CASE stream_active' = FALSE /\ stream_refresh' = FALSE
    BY <2>1, <2>3
  <2>4. CASE UNCHANGED <<stream_active, stream_refresh>>
    BY <2>1, <2>4
  <2>5. QED
    BY <2>2, <2>3, <2>4
<1>3. CASE UNCHANGED <<stream_active, stream_refresh, stream_time, frame_time>>
  BY <1>3
<1>4. CASE Drivers!Open \/ Drivers!SetParameter
  BY <1>3, <1>4 DEF Drivers!Open, Drivers!SetParameter, Drivers!Malformed, Drivers!Accepted,
                    Drivers!Refused, Drivers!streamVars
<1>5. CASE Drivers!WriteAgain \/ Drivers!WriteFails \/ UNCHANGED driverVars
  BY <1>3, <1>5 DEF Drivers!WriteAgain, Drivers!WriteFails, driverVars, Drivers!driverVars
<1>6. QED
  BY <1>1, <1>2, <1>4, <1>5 DEF Drivers!Next

(* Frames are on the air at their own times, with Dexter's channel that    *)
(* looks at the first timestamp only, and with Soapy's stream.             *)
THEOREM DeviceOnAirOnTime == DeviceSpec => []OnAirOnTime
<1>1. Dexter!Init => DexterInv
  BY DexterInitially
<1>2. DexterInv /\ [Dexter!Next]_dexterVars => DexterInv'
  BY DexterStep
<1>3. Drivers!Init => StreamInv
  BY StreamInitially
<1>4. StreamInv /\ [Drivers!Next]_driverVars => StreamInv'
  BY StreamStep
<1>5. DexterInv /\ StreamInv => OnAirOnTime
  BY DEF DexterInv, StreamInv, OnAirOnTime
<1>6. QED
  BY <1>1, <1>2, <1>3, <1>4, <1>5, DexterIsAlone, DriversAreAlone, PTL

-----------------------------------------------------------------------------
(* What is told of a setting, in any of the five drivers.                  *)

DriverNames == {"uhd", "soapy", "lime", "bladerf", "dexter"}

Settings == {"freq", "txgain", "rxgain", "bandwidth"}

ToldInv == /\ radio = "closed" => hw = [p \in Settings |-> 0]
           /\ radio = "open" => driver \in DriverNames
           /\ hw = [p \in Settings |-> hw[p]] /\ m_config = [p \in Settings |-> m_config[p]]
           /\ Drivers!ToldIsSet

LEMMA ToldInitially == ASSUME Drivers!Init PROVE ToldInv
  BY DEF Drivers!Init, ToldInv, Drivers!ToldIsSet, Drivers!Parameters, Settings

(* Opening the device: what is not written is 0 on both sides.             *)
LEMMA OpenTells == ASSUME ToldInv, Drivers!Open PROVE ToldInv'
<1>1. radio = "closed" /\ driver' \in DriverNames
  BY DEF Drivers!Open, Drivers!OpenOf, DriverNames
<1>2. CASE radio' = "failed" /\ UNCHANGED <<m_config, hw, reported>>
  BY <1>2 DEF ToldInv, Drivers!ToldIsSet
<1>3. CASE radio' = "open"
  <2>1. PICK conf \in Drivers!Configured(driver'), lost \in SUBSET Drivers!OpenOf[driver'].logged :
           /\ hw' = [p \in Drivers!Parameters |->
                       IF p \in Drivers!Written(driver', conf) \ lost
                       THEN Coerce(conf[p]) ELSE hw[p]]
           /\ m_config' = [p \in Drivers!Parameters |->
                             IF p \in Drivers!OpenOf[driver'].read THEN hw'[p] ELSE conf[p]]
           /\ reported' = lost
    BY <1>3, Zenon DEF Drivers!Open
  <2>2. /\ conf \in [Settings -> Values]
        /\ driver' # "uhd" => conf["rxgain"] = 0
        /\ driver' \in {"lime", "dexter"} => conf["bandwidth"] = 0
    BY DEF Drivers!Configured, Drivers!Parameters, Settings
  <2>3. hw = [p \in Settings |-> 0]
    BY <1>1 DEF ToldInv
  <2>4. ASSUME NEW p \in Settings
        PROVE  \/ p \in reported' \/ Drivers!Untold(p)'
               \/ hw'[p] = m_config'[p]
               \/ <<driver', p>> \notin Drivers!Exact /\ hw'[p] = Coerce(m_config'[p])
    <3>1. CASE p \in lost
      BY <2>1, <3>1
    <3>2. CASE p \notin lost /\ p \in Drivers!OpenOf[driver'].read
      BY <2>1, <3>2 DEF Drivers!Parameters, Settings
    <3>3. CASE p \notin lost /\ p \notin Drivers!OpenOf[driver'].read
               /\ p \in Drivers!Written(driver', conf)
      <4>1. hw'[p] = Coerce(conf[p]) /\ m_config'[p] = conf[p]
        BY <2>1, <3>3 DEF Drivers!Parameters, Settings
      <4>2. <<driver', p>> \notin Drivers!Exact
        BY <3>3
           DEF Drivers!OpenOf, Drivers!UhdOpen, Drivers!SoapyOpen, Drivers!DexterOpen, Drivers!Exact
      <4>3. QED
        BY <4>1, <4>2
    <3>4. CASE p \notin lost /\ p \notin Drivers!OpenOf[driver'].read
               /\ p \notin Drivers!Written(driver', conf)
      <4>1. hw'[p] = 0 /\ m_config'[p] = conf[p]
        BY <2>1, <2>3, <3>4 DEF Drivers!Parameters, Settings
      <4>2. (p = "rxgain" /\ driver' # "uhd") \/ p = "bandwidth"
        BY <1>1, <3>4 DEF Settings, DriverNames, Drivers!Written, Drivers!OpenOf, Drivers!UhdOpen,
           Drivers!SoapyOpen, Drivers!LimeOpen, Drivers!BladeRFOpen, Drivers!DexterOpen
      <4>3. p = "bandwidth" => conf[p] = 0
        <5>1. SUFFICES ASSUME p = "bandwidth", driver' \in {"uhd", "soapy", "bladerf"}
                       PROVE conf[p] = 0
          BY <1>1, <2>2 DEF DriverNames
        <5>2. ~(conf[p] > 0)
          BY <3>4, <5>1 DEF Drivers!Written, Drivers!OpenOf, Drivers!UhdOpen, Drivers!SoapyOpen,
                            Drivers!BladeRFOpen
        <5>3. conf[p] \in Nat
          BY <2>2, DriverSettings
        <5>4. QED
          BY <5>2, <5>3
      <4>4. QED
        BY <2>2, <4>1, <4>2, <4>3
    <3>5. QED
      BY <3>1, <3>2, <3>3, <3>4
  <2>5. Drivers!ToldIsSet'
    BY <2>4 DEF Drivers!ToldIsSet, Drivers!Parameters, Settings
  <2>6. QED
    BY <1>1, <1>3, <2>1, <2>5 DEF ToldInv, Drivers!Parameters, Settings
<1>4. QED
  BY <1>2, <1>3 DEF Drivers!Open

(* Changing one setting: the others are as they were.                      *)
LEMMA SettingTells ==
  ASSUME ToldInv, radio = "open", UNCHANGED <<driver, radio>>, NEW p \in Settings,
         NEW told, NEW has, m_config' = [m_config EXCEPT ![p] = told],
         hw' = hw \/ hw' = [hw EXCEPT ![p] = has],
         \A q \in Settings \ {p} : q \in reported <=> q \in reported',
         \/ p \in reported' \/ Drivers!Untold(p)'
         \/ hw'[p] = told
         \/ <<driver, p>> \notin Drivers!Exact /\ hw'[p] = Coerce(told)
  PROVE  ToldInv'
<1>1. /\ hw = [q \in Settings |-> hw[q]] /\ m_config = [q \in Settings |-> m_config[q]]
      /\ driver \in DriverNames
  BY DEF ToldInv
<1>2. /\ hw' = [q \in Settings |-> hw'[q]] /\ m_config' = [q \in Settings |-> m_config'[q]]
      /\ m_config'[p] = told
      /\ \A q \in Settings \ {p} : hw'[q] = hw[q] /\ m_config'[q] = m_config[q]
  BY <1>1
<1>3. ASSUME NEW q \in Settings \ {p}
      PROVE  \/ q \in reported' \/ Drivers!Untold(q)'
             \/ hw'[q] = m_config'[q]
             \/ <<driver', q>> \notin Drivers!Exact /\ hw'[q] = Coerce(m_config'[q])
  <2>1. \/ q \in reported \/ Drivers!Untold(q)
        \/ hw[q] = m_config[q]
        \/ <<driver, q>> \notin Drivers!Exact /\ hw[q] = Coerce(m_config[q])
    BY DEF ToldInv, Drivers!ToldIsSet, Drivers!Parameters, Settings
  <2>2. Drivers!Untold(q) => Drivers!Untold(q)'
    BY <1>2 DEF Drivers!Untold, Drivers!Has
  <2>3. QED
    BY <1>2, <2>1, <2>2
<1>4. Drivers!ToldIsSet'
  BY <1>2, <1>3 DEF Drivers!ToldIsSet, Drivers!Parameters, Settings
<1>5. QED
  BY <1>1, <1>2, <1>4 DEF ToldInv

LEMMA SetParameterTells == ASSUME ToldInv, Drivers!SetParameter PROVE ToldInv'
<1>1. PICK p \in Settings : \/ Drivers!Malformed(p)
                            \/ \E v \in Values : Drivers!Accepted(p, v) \/ Drivers!Refused(p, v)
  BY DEF Drivers!SetParameter, Drivers!Parameters, Settings
<1>2. radio = "open" /\ UNCHANGED <<driver, radio>>
  BY <1>1 DEF Drivers!Malformed, Drivers!Accepted, Drivers!Refused
<1>3. driver \in DriverNames /\ hw = [q \in Settings |-> hw[q]]
  BY <1>2 DEF ToldInv
<1>4. CASE Drivers!Malformed(p)
  BY <1>2, <1>4, SettingTells DEF Drivers!Malformed
<1>5. ASSUME NEW v \in Values, Drivers!Accepted(p, v) PROVE ToldInv'
  <2>1. reported' = reported \ {p}
    BY <1>5 DEF Drivers!Accepted
  <2>2. CASE ~Drivers!Has(p)
    <3>1. hw' = hw /\ m_config' = [m_config EXCEPT ![p] = v] /\ Drivers!Untold(p)'
      BY <1>2, <1>5, <2>2 DEF Drivers!Accepted, Drivers!Untold, Drivers!Has
    <3>2. QED
      BY <1>2, <2>1, <3>1, SettingTells
  <2>3. CASE Drivers!Has(p)
    <3>1. /\ hw' = [hw EXCEPT ![p] = Coerce(v)] /\ hw'[p] = Coerce(v)
      BY <1>3, <1>5, <2>3 DEF Drivers!Accepted
    <3>2. PICK told : /\ m_config' = [m_config EXCEPT ![p] = told]
                      /\ told = IF p \in Drivers!SettingsOf[driver].readBack THEN hw'[p] ELSE v
      <4> DEFINE t == IF p \in Drivers!SettingsOf[driver].readBack THEN hw'[p] ELSE v
      <4>1. m_config' = [m_config EXCEPT ![p] = t]
        BY <1>5, <2>3, Zenon DEF Drivers!Accepted, Drivers!Told
      <4>2. QED
        BY <4>1
    <3>3. p \notin Drivers!SettingsOf[driver].readBack => <<driver, p>> \notin Drivers!Exact
      BY DEF Drivers!SettingsOf, Drivers!UhdSettings, Drivers!SoapySettings, Drivers!DexterSettings,
             Drivers!Parameters, Drivers!Exact
    <3>4. hw'[p] = told \/ (<<driver, p>> \notin Drivers!Exact /\ hw'[p] = Coerce(told))
      BY <3>1, <3>2, <3>3
    <3>5. QED
      BY <1>2, <2>1, <3>1, <3>2, <3>4, SettingTells
  <2>4. QED
    BY <2>2, <2>3
<1>6. ASSUME NEW v \in Values, Drivers!Refused(p, v) PROVE ToldInv'
  <2>1. PICK told : m_config' = [m_config EXCEPT ![p] = told]
    BY <1>6 DEF Drivers!Refused
  <2>2. hw' = hw /\ reported' = reported \cup ({p} \ Drivers!SettingsOf[driver].silent)
    BY <1>6 DEF Drivers!Refused
  <2>3. p \in reported' \/ Drivers!Untold(p)'
    BY <1>2, <2>2 DEF Drivers!Untold
  <2>4. QED
    BY <1>2, <2>1, <2>2, <2>3, SettingTells
<1>7. QED
  BY <1>1, <1>4, <1>5, <1>6

LEMMA ToldStep == ASSUME ToldInv, [Drivers!Next]_driverVars PROVE ToldInv'
<1>1. CASE UNCHANGED <<driver, m_config, hw, reported>> /\ radio' \in {radio, "failed"}
  BY <1>1 DEF ToldInv, Drivers!ToldIsSet, Drivers!Untold, Drivers!Has
<1>2. CASE \/ Drivers!BeginFrame \/ Drivers!WriteAgain \/ Drivers!WriteFails \/ UNCHANGED driverVars
           \/ \E mute \in BOOLEAN : Drivers!WritePacket(mute)
  BY <1>1, <1>2 DEF Drivers!BeginFrame, Drivers!WriteAgain, Drivers!WriteFails, Drivers!WritePacket,
                    driverVars, Drivers!driverVars
<1>3. QED
  BY <1>2, OpenTells, SetParameterTells DEF Drivers!Next

(* Whatever sequence of opening, changes, refusals and malformed values    *)
(* there was, a setting is what is told of it, or was reported.            *)
THEOREM DeviceSettingsAreTrue == DeviceSpec => []SettingsAreTrue
<1>1. Drivers!Init => ToldInv
  BY ToldInitially
<1>2. ToldInv /\ [Drivers!Next]_driverVars => ToldInv'
  BY ToldStep
<1>3. ToldInv => SettingsAreTrue
  BY DEF ToldInv, SettingsAreTrue
<1>4. QED
  BY <1>1, <1>2, <1>3, DriversAreAlone, PTL

-----------------------------------------------------------------------------
(* src/output/UHD.cpp: packets of one frame, and the bursts of the radio.  *)

LEMMA PacketsAreAlone == DeviceSpec => Init /\ [][Next]_vars
<1>1. DeviceInit => Init
  BY DEF DeviceInit
<1>2. [DeviceNext]_deviceVars => [Next]_vars
  BY DEF deviceVars, DeviceNext, Choose
<1>3. QED
  BY <1>1, <1>2, PTL DEF DeviceSpec

(* After a jump of the time, and as long as the radio plays on in an open  *)
(* burst, the refresh is still to be acted on.                             *)
RefreshPending == skipped /\ open => m_require_timestamp_refresh

BurstInv == /\ skipped \in BOOLEAN /\ open \in BOOLEAN /\ m_require_timestamp_refresh \in BOOLEAN
            /\ RefreshPending

LEMMA BurstInit == Init => BurstInv
  BY DEF Init, BurstInv, RefreshPending

LEMMA BurstStep == BurstInv /\ [Next]_vars => BurstInv'
<1> SUFFICES ASSUME BurstInv, [Next]_vars PROVE BurstInv'
  OBVIOUS
<1> USE DEF BurstInv, RefreshPending
<1>1. CASE HandleFrame
  <2>1. PICK v \in BOOLEAN, irregular \in BOOLEAN :
           /\ skipped' = (skipped \/ muting \/ (irregular /\ v))
           /\ \/ muting /\ m_require_timestamp_refresh' = TRUE
              \/ /\ ~muting
                 /\ m_require_timestamp_refresh' =
                       (m_require_timestamp_refresh \/ (irregular /\ v))
    BY <1>1 DEF HandleFrame
  <2>2. open' = open
    BY <1>1 DEF HandleFrame
  <2>3. QED
    BY <2>1, <2>2
<1>2. CASE SendPacket
  <2>1. open' = ~EndOfBurst(muting) /\ skipped' = (muting /\ acc' < size)
    BY <1>2 DEF SendPacket
  <2>2. skipped' => ~open'
    BY <2>1 DEF EndOfBurst
  <2>3. skipped' \in BOOLEAN /\ open' \in BOOLEAN /\ m_require_timestamp_refresh' \in BOOLEAN
    BY <1>2, <2>1 DEF SendPacket
  <2>4. QED
    BY <2>2, <2>3
<1>3. CASE RefusePacket
  BY <1>3 DEF RefusePacket
<1>4. CASE StoppedWhileSending \/ SetMuting \/ Stop
  BY <1>4 DEF StoppedWhileSending, SetMuting, Stop
<1>5. CASE UNCHANGED vars
  BY <1>5 DEF vars
<1>6. QED
  BY <1>1, <1>2, <1>3, <1>4, <1>5 DEF Next

(* Whatever the remote control does to muting, and wherever in a frame it  *)
(* does it, a jump of the time ends the burst before the next timestamp    *)
(* or with it: no refresh is lost, except with a refused packet.           *)
THEOREM DeviceJumpsEndTheBurst == DeviceSpec => JumpsEndTheBurst
<1>1. BurstInv /\ [Next]_vars => [SendPacket /\ skipped /\ valid => ~open \/ ~open']_vars
  <2> SUFFICES ASSUME BurstInv, SendPacket, skipped, valid, open PROVE ~open'
    OBVIOUS
  <2>1. m_require_timestamp_refresh
    BY DEF BurstInv, RefreshPending
  <2>2. EndOfBurst(muting)
    BY <2>1 DEF EndOfBurst
  <2>3. QED
    BY <2>2 DEF SendPacket
<1>2. QED
  BY <1>1, BurstInit, BurstStep, PacketsAreAlone, PTL DEF JumpsEndTheBurst
=============================================================================
