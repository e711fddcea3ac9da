------------------------ MODULE TimestampDecoderProofs ------------------------
(***************************************************************************)
(* TrueTime, NoFalseRefresh and TrueAgain for every length of a frame and  *)
(* of a second (for TrueAgain, three groups of frames have to be told      *)
(* within it), every offset, every loss and every place of the beginning   *)
(* of a second among the four frames that tell the time.                   *)
(***************************************************************************)
EXTENDS TimestampDecoder, TLAPS

(* The time of the frame read last, seen from the one to be read next.     *)
LastSec == IF decoder.time_pps + FrameTicks = pps THEN sec ELSE sec - 1

DecoderType ==
    [time_secs : Int, time_pps : Int, tm_sec : Int, tm_hour : Int, tm_mon : Int,
     enableDecode : BOOLEAN, inhibit_second_update : 0 .. 2,
     full_timestamp_received : BOOLEAN, offset_changed : BOOLEAN]

Types ==
    /\ mux \in [source : {"eti", "edi"}, tist : BOOLEAN]
    /\ sec \in Int /\ pps \in 0 .. SecondTicks - 1 /\ fp \in 0 .. 3
    /\ group \in [kind : {"time", "other", "unsynced"}, second : Int]
    /\ decoder \in DecoderType
    /\ m_seconds \in Int /\ timestamp_offset \in Int
    /\ unsure \in BOOLEAN

(* The MNSC tells the second of the frame in phase 0.                      *)
GroupToldAtPhase0 == fp = 0 /\ group.kind = "time" => group.second = sec

NothingReceived == decoder.time_pps = 0 /\ ~decoder.enableDecode /\ ~decoder.full_timestamp_received

(* The decoder has the TIST of the frame before.                           *)
Linked == /\ decoder.time_pps \in 0 .. SecondTicks - 1
          /\ decoder.time_pps + FrameTicks \in {pps, pps + SecondTicks}

(* So it has since it received anything, and with it the second once it is *)
(* known.                                                                  *)
CountsOn ==
    \/ NothingReceived
    \/ Linked /\ (decoder.full_timestamp_received => decoder.time_secs = LastSec)

(* Parts are collected from one group, and are still true unless the       *)
(* second update is inhibited.                                             *)
Collects ==
    decoder.enableDecode =>
        /\ fp \in {1, 2, 3} => group.kind # "other"
        /\ fp \in {2, 3} => group.kind = "time" /\ decoder.tm_sec = TmSec(group.second)
        /\ fp = 3 => decoder.tm_hour = TmHour(group.second)
        /\ fp \in {1, 2, 3} /\ group.kind = "time" /\ decoder.inhibit_second_update = 0 =>
              group.second = LastSec

Follows == mux.source = "eti" /\ mux.tist /\ ~unsure => CountsOn /\ Collects

TimeInv == Types /\ GroupToldAtPhase0 /\ Follows /\ TrueTime

-----------------------------------------------------------------------------
(* Arithmetic.                                                             *)

(* Division with remainder, for a divisor of any size.                     *)
LEMMA DivMod ==
    ASSUME NEW x \in Int, NEW n \in Nat, n > 0
    PROVE  /\ x \div n \in Int /\ x % n \in 0 .. n - 1
           /\ x = (x \div n) * n + (x % n)
  OBVIOUS

(* One frame is less than a second: at most one carry.                     *)
LEMMA OneCarry ==
    ASSUME NEW x \in Nat, NEW n \in Nat, n > 0, x < 2 * n
    PROVE  /\ x < n => x \div n = 0 /\ x % n = x
           /\ x >= n => x \div n = 1 /\ x % n = x - n
  <1>1. x \div n \in Int /\ x % n \in 0 .. n - 1 /\ x = (x \div n) * n + (x % n)
    BY DivMod
  <1>2. x \div n >= 0
    <2>1. ASSUME x \div n <= -1 PROVE FALSE
      <3>1. (x \div n) * n <= -n  BY <1>1, <2>1
      <3>2. QED  BY <1>1, <3>1
    <2>2. QED  BY <1>1, <2>1
  <1>3. x \div n <= 1
    <2>1. ASSUME x \div n >= 2 PROVE FALSE
      <3>1. (x \div n) * n >= 2 * n  BY <1>1, <2>1
      <3>2. QED  BY <1>1, <3>1
    <2>2. QED  BY <1>1, <2>1
  <1>4. CASE x \div n = 0  BY <1>1, <1>4
  <1>5. CASE x \div n = 1  BY <1>1, <1>5
  <1>6. QED  BY <1>1, <1>2, <1>3, <1>4, <1>5

(* mktime() inverts gmtime().                                              *)
LEMMA MktimeOfParts ==
    ASSUME NEW s \in Int
    PROVE  (TmMon(s) * Day + TmHour(s)) * Minute + TmSec(s) = s
  <1>1. Minute \in Nat /\ Minute > 0 /\ Day \in Nat /\ Day > 0  BY TimestampAssumption
  <1>2. s \div Minute \in Int /\ s = (s \div Minute) * Minute + (s % Minute)
    BY <1>1, DivMod
  <1>3. s \div Minute = ((s \div Minute) \div Day) * Day + ((s \div Minute) % Day)
    BY <1>1, <1>2, DivMod
  <1>4. QED  BY <1>2, <1>3 DEF TmMon, TmHour, TmSec

(* operator+=: the sum is exact, and its part within the second is in      *)
(* range, for offsets of either sign.                                      *)
LEMMA AddIsExact ==
    ASSUME NEW v \in BOOLEAN, NEW s \in Int, NEW p \in Int, NEW diff \in Int
    PROVE  LET ts == Add([valid |-> v, sec |-> s, pps |-> p], diff)
           IN  /\ ts.valid = v /\ ts.sec \in Int
               /\ ts.pps \in 0 .. SecondTicks - 1
               /\ ts.sec * SecondTicks + ts.pps = s * SecondTicks + p + diff
  <1>0. SecondTicks \in Nat /\ SecondTicks > 0  BY TimestampAssumption
  <1> DEFINE T == Truncated(diff)
             x == p + (diff - T * SecondTicks)
  <1>1. T \in Int
    <2>1. diff \div SecondTicks \in Int /\ (- diff) \div SecondTicks \in Int  BY <1>0, DivMod
    <2>2. QED  BY <2>1 DEF Truncated
  <1>2. T * SecondTicks \in Int /\ x \in Int  BY <1>0, <1>1
  <1>3. /\ x \div SecondTicks \in Int /\ x % SecondTicks \in 0 .. SecondTicks - 1
        /\ x = (x \div SecondTicks) * SecondTicks + (x % SecondTicks)
    BY <1>0, <1>2, DivMod
  <1>4. (s + T + (x \div SecondTicks)) * SecondTicks
          = s * SecondTicks + T * SecondTicks + (x \div SecondTicks) * SecondTicks
    BY <1>0, <1>1, <1>3
  <1> DEFINE ts == [valid |-> v, sec |-> s, pps |-> p]
             sum == Add(ts, diff)
  <1>5. sum.valid = v /\ sum.sec = s + T + (x \div SecondTicks) /\ sum.pps = x % SecondTicks
    <2>1. ts.sec = s /\ ts.pps = p /\ ts.valid = v
      OBVIOUS
    <2>2. sum = [ts EXCEPT !.sec = ts.sec + T + (x \div SecondTicks), !.pps = x % SecondTicks]
      BY <2>1 DEF Add
    <2>3. QED  BY <2>1, <2>2
  <1> HIDE DEF T, sum
  <1>6. sum.valid = v /\ sum.sec \in Int /\ sum.pps \in 0 .. SecondTicks - 1
        /\ sum.sec * SecondTicks + sum.pps = s * SecondTicks + p + diff
    BY <1>0, <1>1, <1>2, <1>3, <1>4, <1>5
  <1>7. QED  BY <1>6 DEF sum

(* getTimestamp() adds the offset to what the decoder holds.               *)
LEMMA GetTimestampIsExact ==
    ASSUME decoder' \in DecoderType, timestamp_offset \in Int
    PROVE  /\ GetTimestamp.valid = decoder'.full_timestamp_received
           /\ GetTimestamp.sec \in Int /\ GetTimestamp.pps \in 0 .. SecondTicks - 1
           /\ GetTimestamp.sec * SecondTicks + GetTimestamp.pps
                = decoder'.time_secs * SecondTicks + decoder'.time_pps + timestamp_offset
  <1> DEFINE v == decoder'.full_timestamp_received
             s == decoder'.time_secs
             t == decoder'.time_pps
             ts == Add([valid |-> v, sec |-> s, pps |-> t], timestamp_offset)
  <1>1. v \in BOOLEAN /\ s \in Int /\ t \in Int  BY DEF DecoderType
  <1>2. GetTimestamp = ts  BY DEF GetTimestamp
  <1> HIDE DEF v, s, t
  <1>3. /\ ts.valid = v /\ ts.sec \in Int /\ ts.pps \in 0 .. SecondTicks - 1
        /\ ts.sec * SecondTicks + ts.pps = s * SecondTicks + t + timestamp_offset
    BY <1>1, AddIsExact
  <1> HIDE DEF ts
  <1>4. QED  BY <1>2, <1>3 DEF v, s, t

-----------------------------------------------------------------------------
(* Steps.                                                                  *)

LEMMA InitTimeInv == Init => TimeInv
  <1> SUFFICES ASSUME Init PROVE TimeInv
    OBVIOUS
  <1>1. /\ 1 + SecondOf(pps - fp * FrameTicks) \in Int
        /\ fp = 0 => SecondOf(pps - fp * FrameTicks) = 0
    <2>1. SecondTicks \in Nat /\ SecondTicks > 0 /\ FrameTicks \in Nat  BY TimestampAssumption
    <2>2. pps \in 0 .. SecondTicks - 1 /\ fp \in 0 .. 3  BY DEF Init
    <2>3. (pps - fp * FrameTicks) \div SecondTicks \in Int  BY <2>1, <2>2, DivMod
    <2>4. pps \div SecondTicks = 0  BY <2>1, <2>2, OneCarry
    <2>5. fp = 0 => pps - fp * FrameTicks = pps  BY <2>1, <2>2
    <2>6. QED  BY <2>3, <2>4, <2>5 DEF SecondOf
  <1>2. decoder \in DecoderType  BY DEF Init, NewDecoder, DecoderType
  <1>3. Types
    <2>1. group \in [kind : {"time", "other", "unsynced"}, second : Int]  BY <1>1 DEF Init
    <2>2. mux \in [source : {"eti", "edi"}, tist : BOOLEAN] /\ timestamp_offset \in Int
      BY TimestampAssumption DEF Init
    <2>3. sec \in Int /\ pps \in 0 .. SecondTicks - 1 /\ fp \in 0 .. 3 /\ m_seconds \in Int
      BY DEF Init
    <2>4. unsure \in BOOLEAN  BY DEF Init
    <2>5. QED  BY <1>2, <2>1, <2>2, <2>3, <2>4 DEF Types
  <1>4. GroupToldAtPhase0  BY <1>1 DEF Init, GroupToldAtPhase0
  <1>5. Follows  BY DEF Init, Follows, CountsOn, NothingReceived, Collects, NewDecoder
  <1>6. TrueTime  BY DEF Init, TrueTime
  <1>7. QED  BY <1>3, <1>4, <1>5, <1>6 DEF TimeInv

(* What the stream does, for any number of frames.                         *)
LEMMA AdvanceStream ==
    ASSUME Types, NEW n \in Nat \ {0}, Advance(n)
    PROVE  /\ sec' \in Int /\ pps' \in 0 .. SecondTicks - 1 /\ fp' \in 0 .. 3
           /\ group' \in [kind : {"time", "other", "unsynced"}, second : Int]
           /\ GroupToldAtPhase0'
           /\ fp < 3 /\ n = 1 => fp' = fp + 1 /\ group' = group
           /\ fp = 3 /\ n = 1 => fp' = 0
           /\ n = 1 => \/ pps' = pps + FrameTicks /\ sec' = sec
                       \/ pps' = pps + FrameTicks - SecondTicks /\ sec' = sec + 1
  <1>1. /\ SecondTicks \in Nat /\ SecondTicks > 0 /\ FrameTicks \in Nat /\ FrameTicks > 0
        /\ FrameTicks < SecondTicks
    BY TimestampAssumption
  <1>2. sec \in Int /\ pps \in 0 .. SecondTicks - 1 /\ fp \in 0 .. 3  BY DEF Types
  <1>3. n * FrameTicks \in Nat /\ (n = 1 => n * FrameTicks = FrameTicks)  BY <1>1
  <1>4. sec' \in Int /\ pps' \in 0 .. SecondTicks - 1
    BY <1>1, <1>2, <1>3, DivMod DEF Advance, SecondOf
  <1>5. fp' \in 0 .. 3 /\ (fp + n < 4 => fp' = fp + n) /\ (fp = 3 /\ n = 1 => fp' = 0)
    BY <1>2 DEF Advance
  <1>6. /\ (pps' - fp' * FrameTicks) \div SecondTicks \in Int
        /\ fp' = 0 => (pps' - fp' * FrameTicks) \div SecondTicks = 0
    <2>1. fp' * FrameTicks \in Nat /\ (fp' = 0 => fp' * FrameTicks = 0)
      <3>1. fp' = 0 \/ fp' = 1 \/ fp' = 2 \/ fp' = 3  BY <1>5
      <3>2. 0 * FrameTicks = 0 /\ 1 * FrameTicks \in Nat /\ 2 * FrameTicks \in Nat
            /\ 3 * FrameTicks \in Nat
        BY <1>1
      <3>3. QED  BY <3>1, <3>2
    <2>2. (pps' - fp' * FrameTicks) \div SecondTicks \in Int  BY <1>1, <1>4, <2>1, DivMod
    <2>3. pps' \div SecondTicks = 0
      <3>1. pps' \in Nat /\ pps' < SecondTicks /\ pps' < 2 * SecondTicks  BY <1>1, <1>4
      <3>2. QED  BY <1>1, <3>1, OneCarry
    <2>4. fp' = 0 => pps' - fp' * FrameTicks = pps'  BY <1>4, <2>1
    <2>5. QED  BY <2>2, <2>3, <2>4
  <1>7. /\ group' \in [kind : {"time", "other", "unsynced"}, second : Int]
        /\ GroupToldAtPhase0'
    <2>1. CASE fp + n < 4
      <3>1. group' = group /\ fp' # 0  BY <1>2, <1>5, <2>1 DEF Advance
      <3>2. QED  BY <3>1 DEF Types, GroupToldAtPhase0
    <2>2. CASE ~(fp + n < 4)
      <3>1. PICK kind \in {"time", "other", "unsynced"} :
                group' = [kind |-> kind,
                          second |-> sec' + SecondOf(pps' - fp' * FrameTicks)
                                     + (IF kind = "time" THEN 0 ELSE 1)]
        BY <2>2 DEF Advance
      <3>2. SecondOf(pps' - fp' * FrameTicks) \in Int
            /\ (fp' = 0 => SecondOf(pps' - fp' * FrameTicks) = 0)
        BY <1>6 DEF SecondOf
      <3>3. QED  BY <1>4, <3>1, <3>2 DEF GroupToldAtPhase0
    <2>3. QED  BY <2>1, <2>2
  <1>8. n = 1 => \/ pps' = pps + FrameTicks /\ sec' = sec
                 \/ pps' = pps + FrameTicks - SecondTicks /\ sec' = sec + 1
    <2>1. pps + FrameTicks \in Nat /\ pps + FrameTicks < 2 * SecondTicks  BY <1>1, <1>2
    <2>2. n = 1 => /\ pps' = (pps + FrameTicks) % SecondTicks
                   /\ sec' = sec + ((pps + FrameTicks) \div SecondTicks)
      BY <1>3 DEF Advance, SecondOf
    <2>3. QED  BY <1>1, <1>2, <2>1, <2>2, OneCarry
  <1>9. fp < 3 /\ n = 1 => group' = group  BY <1>2 DEF Advance
  <1>10. QED  BY <1>2, <1>4, <1>5, <1>7, <1>8, <1>9

(* The parts of a time are numbers.                                        *)
LEMMA PartsAreNumbers ==
    ASSUME NEW s \in Int
    PROVE  TmSec(s) \in Int /\ TmHour(s) \in Int /\ TmMon(s) \in Int
  <1>1. Minute \in Nat /\ Minute > 0 /\ Day \in Nat /\ Day > 0  BY TimestampAssumption
  <1>2. s \div Minute \in Int /\ s % Minute \in Int  BY <1>1, DivMod
  <1>3. (s \div Minute) \div Day \in Int /\ (s \div Minute) % Day \in Int  BY <1>1, <1>2, DivMod
  <1>4. QED  BY <1>2, <1>3 DEF TmSec, TmHour, TmMon

(* The TIST is taken over and a passed second is counted; if the update is *)
(* not inhibited afterwards, none has passed.                              *)
LEMMA UpdatePPS ==
    ASSUME NEW d \in DecoderType, NEW p \in Int
    PROVE  LET u == UpdateTimestampPPS(d, p)
           IN  /\ u \in DecoderType
               /\ u.time_pps = p
               /\ u.time_secs = d.time_secs + (IF d.time_pps > p THEN 1 ELSE 0)
               /\ u.inhibit_second_update = (IF d.time_pps > p THEN 2 ELSE d.inhibit_second_update)
               /\ u.enableDecode = d.enableDecode
               /\ u.full_timestamp_received = d.full_timestamp_received
               /\ u.tm_sec = d.tm_sec /\ u.tm_hour = d.tm_hour
  <1>1. CASE d.time_pps > p
    <2>1. UpdateTimestampPPS(d, p)
            = [d EXCEPT !.time_secs = @ + 1, !.time_pps = p, !.inhibit_second_update = 2]
      BY <1>1 DEF UpdateTimestampPPS
    <2>2. [d EXCEPT !.time_secs = @ + 1, !.time_pps = p, !.inhibit_second_update = 2]
            \in DecoderType
      <3> DEFINE d1 == [d EXCEPT !.time_secs = @ + 1]
                 d2 == [d1 EXCEPT !.time_pps = p]
                 d3 == [d2 EXCEPT !.inhibit_second_update = 2]
      <3>1. d.time_secs + 1 \in Int  BY DEF DecoderType
      <3>2. d1 \in DecoderType  BY <3>1 DEF DecoderType
      <3> HIDE DEF d1
      <3>3. d2 \in DecoderType  BY <3>2 DEF DecoderType
      <3> HIDE DEF d2
      <3>4. d3 \in DecoderType  BY <3>3 DEF DecoderType
      <3>5. QED  BY <3>4 DEF d1, d2
    <2>3. QED  BY <1>1, <2>1, <2>2 DEF DecoderType
  <1>2. CASE ~(d.time_pps > p)
    <2>1. UpdateTimestampPPS(d, p) = [d EXCEPT !.time_pps = p]
      BY <1>2 DEF UpdateTimestampPPS
    <2>2. [d EXCEPT !.time_pps = p] \in DecoderType  BY DEF DecoderType
    <2>3. QED  BY <1>2, <2>1, <2>2 DEF DecoderType
  <1>3. QED  BY <1>1, <1>2

(* What each phase of the MNSC does to the decoder.                        *)
LEMMA PushMNSC ==
    ASSUME NEW u \in DecoderType, NEW phase \in 0 .. 3, Types
    PROVE  LET d == PushMNSCData(u, phase)
           IN  /\ d \in DecoderType
               /\ d.time_pps = u.time_pps
               /\ phase # 3 => /\ d.time_secs = u.time_secs
                               /\ d.inhibit_second_update = u.inhibit_second_update
                               /\ d.full_timestamp_received = u.full_timestamp_received
               /\ phase = 0 => d.enableDecode = (group.kind # "other")
               /\ phase = 1 => /\ d.enableDecode = (u.enableDecode /\ group.kind # "unsynced")
                               /\ d.tm_sec = TmSec(group.second)
               /\ phase = 2 => /\ d.enableDecode = u.enableDecode /\ d.tm_sec = u.tm_sec
                               /\ d.tm_hour = TmHour(group.second)
               /\ phase = 3 =>
                    \/ /\ u.enableDecode /\ u.inhibit_second_update = 0
                       /\ d.time_secs = (TmMon(group.second) * Day + u.tm_hour) * Minute + u.tm_sec
                       /\ d.full_timestamp_received = TRUE
                       /\ d.inhibit_second_update = 0
                    \/ /\ IF u.enableDecode
                          THEN /\ u.inhibit_second_update > 0
                               /\ d.inhibit_second_update = u.inhibit_second_update - 1
                          ELSE d.inhibit_second_update = u.inhibit_second_update
                       /\ d.time_secs = u.time_secs
                       /\ d.full_timestamp_received = u.full_timestamp_received
  <1>0. group.second \in Int  BY DEF Types
  <1>1. TmSec(group.second) \in Int /\ TmHour(group.second) \in Int /\ TmMon(group.second) \in Int
    BY <1>0, PartsAreNumbers
  <1>2. CASE phase = 0
    <2> DEFINE e == group.kind # "other"
               u1 == [u EXCEPT !.enableDecode = e]
               u2 == [u1 EXCEPT !.tm_sec = 0]
               u3 == [u2 EXCEPT !.tm_hour = 0]
               d == [u3 EXCEPT !.tm_mon = 0]
    <2>1. PushMNSCData(u, phase) = d  BY <1>2 DEF PushMNSCData
    <2>2. e \in BOOLEAN
      OBVIOUS
    <2>3. e = (group.kind # "other")
      OBVIOUS
    <2> HIDE DEF e
    <2>4. u1 \in DecoderType  BY <2>2 DEF DecoderType
    <2>5. /\ u1.enableDecode = e /\ u1.time_pps = u.time_pps /\ u1.time_secs = u.time_secs
          /\ u1.inhibit_second_update = u.inhibit_second_update
          /\ u1.full_timestamp_received = u.full_timestamp_received
      BY DEF DecoderType
    <2> HIDE DEF u1
    <2>6. u2 \in DecoderType  BY <2>4 DEF DecoderType
    <2> HIDE DEF u2
    <2>7. u3 \in DecoderType  BY <2>6 DEF DecoderType
    <2> HIDE DEF u3
    <2>8. d \in DecoderType  BY <2>7 DEF DecoderType
    <2>9. /\ d.enableDecode = e /\ d.time_pps = u.time_pps /\ d.time_secs = u.time_secs
          /\ d.inhibit_second_update = u.inhibit_second_update
          /\ d.full_timestamp_received = u.full_timestamp_received
      BY <2>4, <2>5, <2>6, <2>7 DEF u2, u3, DecoderType
    <2> HIDE DEF d
    <2>10. QED  BY <1>2, <2>1, <2>3, <2>8, <2>9
  <1>3. CASE phase = 1
    <2> DEFINE e == u.enableDecode /\ group.kind # "unsynced"
               u1 == [u EXCEPT !.tm_sec = TmSec(group.second)]
               d == [u1 EXCEPT !.enableDecode = e]
    <2>1. PushMNSCData(u, phase) = d  BY <1>3 DEF PushMNSCData, DecoderType
    <2>2. e \in BOOLEAN
      OBVIOUS
    <2>3. e = (u.enableDecode /\ group.kind # "unsynced")
      OBVIOUS
    <2> HIDE DEF e
    <2>4. u1 \in DecoderType  BY <1>1 DEF DecoderType
    <2>5. /\ u1.tm_sec = TmSec(group.second) /\ u1.time_pps = u.time_pps
          /\ u1.time_secs = u.time_secs
          /\ u1.inhibit_second_update = u.inhibit_second_update
          /\ u1.full_timestamp_received = u.full_timestamp_received
      BY DEF DecoderType
    <2> HIDE DEF u1
    <2>6. d \in DecoderType  BY <2>2, <2>4 DEF DecoderType
    <2>7. /\ d.enableDecode = e /\ d.tm_sec = u1.tm_sec /\ d.time_pps = u1.time_pps
          /\ d.time_secs = u1.time_secs
          /\ d.inhibit_second_update = u1.inhibit_second_update
          /\ d.full_timestamp_received = u1.full_timestamp_received
      BY <2>4 DEF DecoderType
    <2> HIDE DEF d
    <2>8. QED  BY <1>3, <2>1, <2>3, <2>5, <2>6, <2>7
  <1>4. CASE phase = 2  BY <1>1, <1>4 DEF PushMNSCData, DecoderType
  <1>5. CASE phase = 3
    <2> DEFINE c == [u EXCEPT !.tm_mon = TmMon(group.second)]
    <2>1. c \in DecoderType /\ c.tm_mon = TmMon(group.second) /\ c.tm_hour = u.tm_hour
          /\ c.tm_sec = u.tm_sec /\ c.time_pps = u.time_pps /\ c.time_secs = u.time_secs
          /\ c.inhibit_second_update = u.inhibit_second_update
          /\ c.full_timestamp_received = u.full_timestamp_received
      BY <1>1 DEF DecoderType
    <2>2. PushMNSCData(u, phase)
            = IF u.enableDecode THEN UpdateTimestampSeconds(c, Mktime(c)) ELSE c
      BY <1>5 DEF PushMNSCData
    <2> HIDE DEF c
    <2>3. Mktime(c) \in Int
          /\ Mktime(c) = (TmMon(group.second) * Day + u.tm_hour) * Minute + u.tm_sec
      <3>1. Minute \in Nat /\ Day \in Nat  BY TimestampAssumption
      <3>2. u.tm_hour \in Int /\ u.tm_sec \in Int  BY DEF DecoderType
      <3>3. TmMon(group.second) * Day \in Int  BY <1>1, <3>1
      <3>4. (TmMon(group.second) * Day + u.tm_hour) * Minute \in Int  BY <3>1, <3>2, <3>3
      <3>5. QED  BY <2>1, <3>2, <3>4 DEF Mktime
    <2>4. CASE ~u.enableDecode  BY <1>5, <2>1, <2>2, <2>4
    <2>5. CASE u.enableDecode /\ c.inhibit_second_update > 0
      <3>1. PushMNSCData(u, phase) = [c EXCEPT !.inhibit_second_update = @ - 1]
        BY <2>2, <2>5 DEF UpdateTimestampSeconds
      <3>2. [c EXCEPT !.inhibit_second_update = @ - 1] \in DecoderType
        BY <2>1, <2>5 DEF DecoderType
      <3> DEFINE d == [c EXCEPT !.inhibit_second_update = @ - 1]
      <3>3. /\ d.inhibit_second_update = u.inhibit_second_update - 1
            /\ d.time_secs = u.time_secs /\ d.time_pps = u.time_pps
            /\ d.full_timestamp_received = u.full_timestamp_received
        BY <2>1 DEF DecoderType
      <3>4. u.inhibit_second_update > 0  BY <2>1, <2>5
      <3> HIDE DEF d
      <3>5. PushMNSCData(u, phase) = d /\ d \in DecoderType  BY <3>1, <3>2 DEF d
      <3>6. QED  BY <1>5, <2>5, <3>3, <3>4, <3>5
    <2>6. CASE u.enableDecode /\ ~(c.inhibit_second_update > 0)
      <3>1. PushMNSCData(u, phase)
              = [c EXCEPT !.time_secs = Mktime(c), !.full_timestamp_received = TRUE]
        BY <2>2, <2>6 DEF UpdateTimestampSeconds
      <3>2. u.inhibit_second_update = 0  BY <2>1, <2>6 DEF DecoderType
      <3>3. [c EXCEPT !.time_secs = Mktime(c), !.full_timestamp_received = TRUE] \in DecoderType
        BY <2>1, <2>3 DEF DecoderType
      <3> DEFINE d == [c EXCEPT !.time_secs = Mktime(c), !.full_timestamp_received = TRUE]
      <3>4. /\ d.time_secs = Mktime(c) /\ d.time_pps = u.time_pps
            /\ d.full_timestamp_received = TRUE /\ d.inhibit_second_update = 0
        BY <2>1, <3>2 DEF DecoderType
      <3> HIDE DEF d
      <3>5. PushMNSCData(u, phase) = d /\ d \in DecoderType  BY <3>1, <3>3 DEF d
      <3>6. QED  BY <1>5, <2>3, <2>6, <3>2, <3>4, <3>5
    <2>7. QED  BY <2>4, <2>5, <2>6
  <1>6. phase = 0 \/ phase = 1 \/ phase = 2 \/ phase = 3
    OBVIOUS
  <1>7. QED  BY <1>2, <1>3, <1>4, <1>5, <1>6, Zenon

(* What reading an ETI frame does to the decoder.                          *)
Tist   == IF mux.tist THEN pps ELSE 0
Passed == decoder.time_pps > Tist
Secs   == decoder.time_secs + (IF Passed THEN 1 ELSE 0)
Held   == IF Passed THEN 2 ELSE decoder.inhibit_second_update

LEMMA ReadEtiDecoder ==
    ASSUME Types, ReadEti
    PROVE  /\ decoder' \in DecoderType
           /\ Tist \in Int /\ Secs \in Int /\ Held \in 0 .. 2
           /\ decoder'.time_pps = Tist /\ decoder'.offset_changed = FALSE
           /\ fp # 3 => /\ decoder'.time_secs = Secs
                        /\ decoder'.inhibit_second_update = Held
                        /\ decoder'.full_timestamp_received = decoder.full_timestamp_received
           /\ fp = 0 => decoder'.enableDecode = (group.kind # "other")
           /\ fp = 1 => /\ decoder'.enableDecode = (decoder.enableDecode /\ group.kind # "unsynced")
                        /\ decoder'.tm_sec = TmSec(group.second)
           /\ fp = 2 => /\ decoder'.enableDecode = decoder.enableDecode
                        /\ decoder'.tm_sec = decoder.tm_sec
                        /\ decoder'.tm_hour = TmHour(group.second)
           /\ fp = 3 =>
                \/ /\ decoder.enableDecode /\ Held = 0
                   /\ decoder'.time_secs
                        = (TmMon(group.second) * Day + decoder.tm_hour) * Minute + decoder.tm_sec
                   /\ decoder'.full_timestamp_received = TRUE
                   /\ decoder'.inhibit_second_update = 0
                \/ /\ IF decoder.enableDecode
                      THEN Held > 0 /\ decoder'.inhibit_second_update = Held - 1
                      ELSE decoder'.inhibit_second_update = Held
                   /\ decoder'.time_secs = Secs
                   /\ decoder'.full_timestamp_received = decoder.full_timestamp_received
  <1> DEFINE u == UpdateTimestampPPS(decoder, Tist)
             d == PushMNSCData(u, fp)
  <1>1. /\ decoder \in DecoderType /\ sec \in Int /\ pps \in 0 .. SecondTicks - 1 /\ fp \in 0 .. 3
    BY DEF Types
  <1>2. SecondTicks \in Nat /\ Tist \in Int  BY <1>1, TimestampAssumption DEF Tist
  <1>3. /\ u \in DecoderType /\ u.time_pps = Tist /\ u.time_secs = Secs
        /\ u.inhibit_second_update = Held
        /\ u.enableDecode = decoder.enableDecode
        /\ u.full_timestamp_received = decoder.full_timestamp_received
        /\ u.tm_sec = decoder.tm_sec /\ u.tm_hour = decoder.tm_hour
    BY <1>1, <1>2, UpdatePPS DEF Passed, Secs, Held
  <1>4. decoder' = [d EXCEPT !.offset_changed = FALSE]
    BY DEF ReadEti, UpdateTimestampEti, Tist
  <1>5. Secs \in Int /\ Held \in 0 .. 2  BY <1>3 DEF DecoderType
  <1> HIDE DEF u
  <1>6. d \in DecoderType  BY <1>1, <1>3, PushMNSC
  <1>7. d.time_pps = u.time_pps  BY <1>1, <1>3, PushMNSC
  <1>8. fp # 3 => /\ d.time_secs = u.time_secs
                  /\ d.inhibit_second_update = u.inhibit_second_update
                  /\ d.full_timestamp_received = u.full_timestamp_received
    BY <1>1, <1>3, PushMNSC
  <1>9. fp = 0 => d.enableDecode = (group.kind # "other")
    BY <1>1, <1>3, PushMNSC
  <1>10. fp = 1 => /\ d.enableDecode = (u.enableDecode /\ group.kind # "unsynced")
                   /\ d.tm_sec = TmSec(group.second)
    BY <1>1, <1>3, PushMNSC
  <1>11. fp = 2 => /\ d.enableDecode = u.enableDecode /\ d.tm_sec = u.tm_sec
                   /\ d.tm_hour = TmHour(group.second)
    BY <1>1, <1>3, PushMNSC
  <1>12. fp = 3 =>
           \/ /\ u.enableDecode /\ u.inhibit_second_update = 0
              /\ d.time_secs = (TmMon(group.second) * Day + u.tm_hour) * Minute + u.tm_sec
              /\ d.full_timestamp_received = TRUE
              /\ d.inhibit_second_update = 0
           \/ /\ IF u.enableDecode
                 THEN /\ u.inhibit_second_update > 0
                      /\ d.inhibit_second_update = u.inhibit_second_update - 1
                 ELSE d.inhibit_second_update = u.inhibit_second_update
              /\ d.time_secs = u.time_secs
              /\ d.full_timestamp_received = u.full_timestamp_received
    BY <1>1, <1>3, PushMNSC
  <1> HIDE DEF d
  <1>13. /\ decoder' \in DecoderType /\ decoder'.offset_changed = FALSE
         /\ decoder'.time_pps = d.time_pps /\ decoder'.time_secs = d.time_secs
         /\ decoder'.enableDecode = d.enableDecode
         /\ decoder'.inhibit_second_update = d.inhibit_second_update
         /\ decoder'.full_timestamp_received = d.full_timestamp_received
         /\ decoder'.tm_sec = d.tm_sec /\ decoder'.tm_hour = d.tm_hour
    BY <1>4, <1>6 DEF DecoderType
  <1>14. /\ decoder'.time_pps = Tist
         /\ fp # 3 => /\ decoder'.time_secs = Secs
                      /\ decoder'.inhibit_second_update = Held
                      /\ decoder'.full_timestamp_received = decoder.full_timestamp_received
    BY <1>3, <1>7, <1>8, <1>13
  <1>15. /\ fp = 0 => decoder'.enableDecode = (group.kind # "other")
         /\ fp = 1 => /\ decoder'.enableDecode = (decoder.enableDecode /\ group.kind # "unsynced")
                      /\ decoder'.tm_sec = TmSec(group.second)
         /\ fp = 2 => /\ decoder'.enableDecode = decoder.enableDecode
                      /\ decoder'.tm_sec = decoder.tm_sec
                      /\ decoder'.tm_hour = TmHour(group.second)
    BY <1>3, <1>9, <1>10, <1>11, <1>13
  <1>16. fp = 3 =>
           \/ /\ decoder.enableDecode /\ Held = 0
              /\ decoder'.time_secs
                   = (TmMon(group.second) * Day + decoder.tm_hour) * Minute + decoder.tm_sec
              /\ decoder'.full_timestamp_received = TRUE
              /\ decoder'.inhibit_second_update = 0
           \/ /\ IF decoder.enableDecode
                 THEN Held > 0 /\ decoder'.inhibit_second_update = Held - 1
                 ELSE decoder'.inhibit_second_update = Held
              /\ decoder'.time_secs = Secs
              /\ decoder'.full_timestamp_received = decoder.full_timestamp_received
    BY <1>3, <1>12, <1>13
  <1>17. QED  BY <1>2, <1>5, <1>13, <1>14, <1>15, <1>16

(* The parts collected from a group are those of one second, and that one  *)
(* is still the second of the frame unless the update is inhibited.        *)
LEMMA ReadEtiCollects ==
    ASSUME Types, GroupToldAtPhase0, ReadEti, Advance(1), mux.tist,
           fp # 0 => Collects /\ (Linked \/ ~decoder.enableDecode)
    PROVE  /\ decoder'.time_pps = pps /\ LastSec' = sec /\ Linked' /\ Collects'
           /\ fp = 3 /\ decoder.enableDecode /\ Held = 0 =>
                 (TmMon(group.second) * Day + decoder.tm_hour) * Minute + decoder.tm_sec = sec
  <1>1. /\ SecondTicks \in Nat /\ FrameTicks \in Nat /\ 0 < FrameTicks
        /\ FrameTicks < SecondTicks
    BY TimestampAssumption
  <1>2. /\ decoder \in DecoderType /\ sec \in Int /\ pps \in 0 .. SecondTicks - 1
        /\ fp \in 0 .. 3 /\ group.second \in Int
        /\ group.kind \in {"time", "other", "unsynced"}
    BY DEF Types
  <1>3. decoder'.time_pps = Tist /\ Tist = pps  BY ReadEtiDecoder DEF Tist
  (* Where the update is not inhibited, no second has begun.               *)
  <1>4. Held = 0 /\ decoder.enableDecode /\ fp \in {1, 2, 3} /\ group.kind = "time" =>
            group.second = sec
    BY <1>1, <1>2, <1>3 DEF Linked, Collects, LastSec, DecoderType, Held, Passed
  <1>5. fp = 3 /\ decoder.enableDecode /\ Held = 0 =>
            (TmMon(group.second) * Day + decoder.tm_hour) * Minute + decoder.tm_sec = sec
    <2> SUFFICES ASSUME fp = 3, decoder.enableDecode, Held = 0
                 PROVE  (TmMon(group.second) * Day + decoder.tm_hour) * Minute + decoder.tm_sec
                          = sec
      OBVIOUS
    <2>1. /\ group.second = sec
          /\ decoder.tm_sec = TmSec(group.second) /\ decoder.tm_hour = TmHour(group.second)
      BY <1>4 DEF Collects
    <2>2. (TmMon(group.second) * Day + TmHour(group.second)) * Minute + TmSec(group.second)
            = group.second
      BY <1>2, MktimeOfParts
    <2>3. QED  BY <2>1, <2>2
  <1>6. /\ fp < 3 => fp' = fp + 1 /\ group' = group
        /\ fp = 3 => fp' = 0
    BY AdvanceStream
  <1>7. /\ LastSec' = sec /\ pps' \in 0 .. SecondTicks - 1
        /\ pps + FrameTicks = pps' \/ pps + FrameTicks = pps' + SecondTicks
    <2>1. /\ \/ pps' = pps + FrameTicks /\ sec' = sec
             \/ pps' = pps + FrameTicks - SecondTicks /\ sec' = sec + 1
          /\ sec' \in Int /\ pps' \in Int /\ pps' \in 0 .. SecondTicks - 1
      BY AdvanceStream
    <2>2. LastSec' = IF pps + FrameTicks = pps' THEN sec' ELSE sec' - 1
      BY <1>3 DEF LastSec
    <2>3. pps \in Int  BY <1>1, <1>2
    <2>4. CASE pps' = pps + FrameTicks /\ sec' = sec  BY <2>1, <2>2, <2>4
    <2>5. CASE pps' = pps + FrameTicks - SecondTicks /\ sec' = sec + 1
      <3>1. pps + FrameTicks # pps' /\ pps + FrameTicks = pps' + SecondTicks
        BY <1>1, <2>3, <2>5
      <3>2. sec' - 1 = sec  BY <1>2, <2>5
      <3>3. QED  BY <2>1, <2>2, <3>1, <3>2
    <2>6. QED  BY <2>1, <2>4, <2>5
  <1>8. Linked'  BY <1>2, <1>3, <1>7 DEF Linked
  <1>9. Collects'
    <2>1. CASE fp = 0
      <3>1. group.kind = "time" => group.second = sec
        BY <2>1 DEF GroupToldAtPhase0
      <3>2. decoder'.enableDecode => group.kind # "other"  BY <2>1, ReadEtiDecoder
      <3>3. QED  BY <1>6, <1>7, <2>1, <3>1, <3>2 DEF Collects
    <2>2. CASE fp = 1
      <3>1. /\ decoder'.enableDecode = (decoder.enableDecode /\ group.kind # "unsynced")
            /\ decoder'.tm_sec = TmSec(group.second)
            /\ decoder'.inhibit_second_update = Held
        BY <2>2, ReadEtiDecoder
      <3>2. decoder'.enableDecode => decoder.enableDecode /\ group.kind = "time"
        <4>1. decoder.enableDecode => group.kind # "other"  BY <2>2 DEF Collects
        <4>2. decoder'.enableDecode => decoder.enableDecode /\ group.kind # "unsynced"
          BY <3>1
        <4>3. QED  BY <1>2, <4>1, <4>2
      <3>3. fp' = 2 /\ group' = group  BY <1>6, <2>2
      <3>4. /\ decoder'.enableDecode =>
                  group'.kind = "time" /\ decoder'.tm_sec = TmSec(group'.second)
            /\ decoder'.enableDecode /\ decoder'.inhibit_second_update = 0 =>
                  group'.second = LastSec'
        BY <1>4, <1>7, <2>2, <3>1, <3>2, <3>3
      <3>5. QED  BY <3>3, <3>4 DEF Collects, TmSec
    <2>3. CASE fp = 2
      <3>1. /\ decoder'.enableDecode = decoder.enableDecode /\ decoder'.tm_sec = decoder.tm_sec
            /\ decoder'.tm_hour = TmHour(group.second)
            /\ decoder'.inhibit_second_update = Held
        BY <2>3, ReadEtiDecoder
      <3>2. decoder'.enableDecode => group.kind = "time" /\ decoder'.tm_sec = TmSec(group.second)
        BY <2>3, <3>1 DEF Collects
      <3>3. fp' = 3 /\ group' = group  BY <1>6, <2>3
      <3>4. /\ decoder'.enableDecode =>
                  group'.kind = "time" /\ decoder'.tm_sec = TmSec(group'.second)
            /\ decoder'.tm_hour = TmHour(group'.second)
            /\ decoder'.enableDecode /\ decoder'.inhibit_second_update = 0 =>
                  group'.second = LastSec'
        BY <1>4, <1>7, <2>3, <3>1, <3>2, <3>3
      <3>5. QED  BY <3>3, <3>4 DEF Collects, TmSec, TmHour
    <2>4. CASE fp = 3  BY <1>6, <2>4 DEF Collects
    <2>5. QED  BY <1>2, <2>1, <2>2, <2>3, <2>4
  <1>10. QED  BY <1>3, <1>5, <1>7, <1>8, <1>9

(* Once the second is known it is counted on, and what the MNSC tells is   *)
(* the second counted.                                                     *)
LEMMA ReadEtiCountsOn ==
    ASSUME Types, GroupToldAtPhase0, ReadEti, Advance(1), mux.tist, Collects, Linked,
           decoder.full_timestamp_received, decoder.time_secs = LastSec
    PROVE  decoder'.full_timestamp_received /\ decoder'.time_secs = sec
  <1>1. /\ SecondTicks \in Nat /\ FrameTicks \in Nat /\ 0 < FrameTicks
        /\ FrameTicks < SecondTicks
    BY TimestampAssumption
  <1>2. /\ decoder \in DecoderType /\ sec \in Int /\ pps \in 0 .. SecondTicks - 1
        /\ fp \in 0 .. 3
    BY DEF Types
  <1>3. Secs = sec
    BY <1>1, <1>2 DEF Linked, LastSec, DecoderType, Secs, Passed, Tist
  <1>4. CASE fp # 3  BY <1>2, <1>3, <1>4, ReadEtiDecoder
  <1>5. CASE fp = 3
    <2>1. decoder.enableDecode /\ Held = 0 =>
            (TmMon(group.second) * Day + decoder.tm_hour) * Minute + decoder.tm_sec = sec
      BY <1>5, ReadEtiCollects
    <2>2. QED  BY <1>3, <1>5, <2>1, ReadEtiDecoder
  <1>6. QED  BY <1>4, <1>5

(* Reading an ETI frame: the time of the frame, if it is known, is right.  *)
LEMMA ReadEtiIsExact ==
    ASSUME TimeInv, ReadEti, Advance(1), UNCHANGED <<mux, unsure>>
    PROVE  /\ decoder' \in DecoderType
           /\ Follows'
           /\ mux.tist /\ ~unsure /\ decoder'.full_timestamp_received =>
                 decoder'.time_secs = sec /\ decoder'.time_pps = pps
  <1>1. Types /\ GroupToldAtPhase0 /\ fp \in 0 .. 3  BY DEF TimeInv, Types
  <1>2. decoder' \in DecoderType  BY <1>1, ReadEtiDecoder
  <1>3. SUFFICES ASSUME mux.tist, ~unsure
                 PROVE  /\ decoder'.full_timestamp_received =>
                              decoder'.time_secs = sec /\ decoder'.time_pps = pps
                        /\ CountsOn' /\ Collects'
    BY <1>2 DEF Follows
  <1>4. CountsOn /\ Collects  BY <1>3 DEF TimeInv, Follows, ReadEti
  <1>5. /\ decoder'.time_pps = pps /\ LastSec' = sec /\ Linked' /\ Collects'
        /\ fp = 3 /\ decoder.enableDecode /\ Held = 0 =>
              (TmMon(group.second) * Day + decoder.tm_hour) * Minute + decoder.tm_sec = sec
    BY <1>1, <1>3, <1>4, ReadEtiCollects DEF CountsOn, NothingReceived
  <1>6. decoder'.full_timestamp_received => decoder'.time_secs = sec
    <2>1. CASE decoder.full_timestamp_received
      BY <1>1, <1>3, <1>4, <2>1, ReadEtiCountsOn DEF CountsOn, NothingReceived
    <2>2. CASE ~decoder.full_timestamp_received
      BY <1>1, <1>5, <2>2, ReadEtiDecoder
    <2>3. QED  BY <2>1, <2>2
  <1>7. QED  BY <1>5, <1>6 DEF CountsOn

(* Reading an EDI frame.                                                   *)
LEMMA ReadEdiIsExact ==
    ASSUME Types, ReadEdi
    PROVE  /\ decoder' \in DecoderType /\ m_seconds' \in Int
           /\ decoder'.full_timestamp_received = TRUE /\ decoder'.offset_changed = FALSE
           /\ decoder'.time_pps # NullTist => decoder'.time_secs = sec /\ decoder'.time_pps = pps
  <1>1. PICK atst \in BOOLEAN :
            /\ m_seconds' = IF atst THEN sec ELSE m_seconds
            /\ decoder' = [UpdateTimestampEdi(decoder, m_seconds', IF atst THEN pps ELSE NullTist)
                              EXCEPT !.offset_changed = FALSE]
    BY DEF ReadEdi, Types
  <1> DEFINE p == IF atst THEN pps ELSE NullTist
             d1 == [decoder EXCEPT !.time_secs = m_seconds']
             d2 == [d1 EXCEPT !.time_pps = p]
             d3 == [d2 EXCEPT !.full_timestamp_received = TRUE]
  <1>2. decoder' = [d3 EXCEPT !.offset_changed = FALSE]  BY <1>1 DEF UpdateTimestampEdi
  <1>3. SecondTicks \in Nat /\ FrameTicks \in Nat  BY TimestampAssumption
  <1>4. m_seconds' \in Int /\ p \in Int /\ (atst => m_seconds' = sec /\ p = pps)
    BY <1>1, <1>3 DEF Types, NullTist
  <1>5. p # NullTist => atst
    OBVIOUS
  <1> HIDE DEF p
  <1>6. d1 \in DecoderType /\ d1.time_secs = m_seconds'  BY <1>4 DEF Types, DecoderType
  <1> HIDE DEF d1
  <1>7. d2 \in DecoderType /\ d2.time_secs = m_seconds' /\ d2.time_pps = p
    BY <1>4, <1>6 DEF DecoderType
  <1> HIDE DEF d2
  <1>8. d3 \in DecoderType /\ d3.time_secs = m_seconds' /\ d3.time_pps = p
        /\ d3.full_timestamp_received = TRUE
    BY <1>7 DEF DecoderType
  <1> HIDE DEF d3
  <1>9. /\ decoder' \in DecoderType /\ decoder'.time_secs = m_seconds' /\ decoder'.time_pps = p
        /\ decoder'.full_timestamp_received = TRUE /\ decoder'.offset_changed = FALSE
    BY <1>2, <1>8 DEF DecoderType
  <1>10. QED  BY <1>4, <1>5, <1>9

(* A frame that is read with the right time is handed on with the right    *)
(* time.                                                                   *)
LEMMA ReadTimeInv == TimeInv /\ Read => TimeInv'
  <1> SUFFICES ASSUME TimeInv, Read PROVE TimeInv'
    OBVIOUS
  <1>1. Types /\ Advance(1) /\ UNCHANGED <<mux, timestamp_offset, unsure>>
    BY DEF TimeInv, Read
  <1>2. /\ sec' \in Int /\ pps' \in 0 .. SecondTicks - 1 /\ fp' \in 0 .. 3
        /\ group' \in [kind : {"time", "other", "unsynced"}, second : Int]
        /\ GroupToldAtPhase0'
    BY <1>1, AdvanceStream
  <1> DEFINE dated == IF mux.source = "eti" THEN mux.tist ELSE decoder'.time_pps # NullTist
  <1>3. /\ decoder' \in DecoderType /\ m_seconds' \in Int /\ Follows'
        /\ dated /\ decoder'.full_timestamp_received /\ ~unsure =>
              decoder'.time_secs = sec /\ decoder'.time_pps = pps
    <2>1. CASE ReadEti
      <3>1. mux.source = "eti" /\ m_seconds' = m_seconds /\ m_seconds \in Int
        BY <1>1, <2>1 DEF ReadEti, Types
      <3>2. QED  BY <1>1, <2>1, <3>1, ReadEtiIsExact
    <2>2. CASE ReadEdi
      <3>1. mux.source # "eti" /\ mux'.source # "eti"  BY <1>1, <2>2 DEF ReadEdi
      <3>2. Follows'  BY <3>1 DEF Follows
      <3>3. QED  BY <1>1, <2>2, <3>1, <3>2, ReadEdiIsExact
    <2>3. QED  BY <2>1, <2>2 DEF Read
  <1>4. Types'
    <2>1. /\ mux' \in [source : {"eti", "edi"}, tist : BOOLEAN] /\ timestamp_offset' \in Int
          /\ unsure' \in BOOLEAN
      BY <1>1 DEF Types
    <2>2. QED  BY <1>2, <1>3, <2>1 DEF Types
  <1>5. TrueTime'
    <2> DEFINE v == decoder'.full_timestamp_received
               s == decoder'.time_secs
               t == decoder'.time_pps
    <2>1. v \in BOOLEAN /\ s \in Int /\ t \in Int /\ timestamp_offset \in Int
      BY <1>1, <1>3 DEF Types, DecoderType
    <2>2. /\ GetTimestamp.valid = v
          /\ GetTimestamp.pps \in 0 .. SecondTicks - 1
          /\ GetTimestamp.sec * SecondTicks + GetTimestamp.pps
               = s * SecondTicks + t + timestamp_offset
      BY <1>3, <2>1, GetTimestampIsExact
    <2>3. /\ frame'.ts = GetTimestamp /\ frame'.dated = dated /\ frame'.unsure = unsure
          /\ frame'.exact = sec * SecondTicks + pps + timestamp_offset
      BY DEF Read
    <2> HIDE DEF dated
    <2>4. frame'.dated /\ frame'.ts.valid /\ ~frame'.unsure => s = sec /\ t = pps
      BY <1>3, <2>2, <2>3
    <2>5. frame'.dated /\ frame'.ts.valid /\ ~frame'.unsure => Exact(frame')
      BY <2>2, <2>3, <2>4 DEF Exact
    <2>6. QED  BY <2>5 DEF TrueTime, Exact
  <1>6. QED  BY <1>2, <1>3, <1>4, <1>5 DEF TimeInv

(* Clearing or setting offset_changed leaves the time alone.               *)
LEMMA FlagLeavesTime ==
    ASSUME TimeInv, NEW b \in BOOLEAN, decoder' = [decoder EXCEPT !.offset_changed = b],
           UNCHANGED <<mux, sec, pps, fp, group, m_seconds, frame, unsure>>,
           timestamp_offset' \in Int
    PROVE  TimeInv'
  <1>1. decoder \in DecoderType  BY DEF TimeInv, Types
  <1>2. /\ decoder' \in DecoderType
        /\ decoder'.time_pps = decoder.time_pps /\ decoder'.time_secs = decoder.time_secs
        /\ decoder'.enableDecode = decoder.enableDecode
        /\ decoder'.inhibit_second_update = decoder.inhibit_second_update
        /\ decoder'.full_timestamp_received = decoder.full_timestamp_received
        /\ decoder'.tm_sec = decoder.tm_sec /\ decoder'.tm_hour = decoder.tm_hour
    BY <1>1 DEF DecoderType
  <1>3. UNCHANGED <<mux, sec, pps, fp, group, m_seconds, frame, unsure>>
    OBVIOUS
  <1>4. Types'  BY <1>2, <1>3 DEF TimeInv, Types
  <1>5. GroupToldAtPhase0'  BY <1>3 DEF TimeInv, GroupToldAtPhase0
  <1>6. LastSec' = LastSec  BY <1>2, <1>3 DEF LastSec
  <1>7. CountsOn => CountsOn'  BY <1>2, <1>3, <1>6 DEF CountsOn, Linked, NothingReceived
  <1>8. Collects => Collects'  BY <1>2, <1>3, <1>6 DEF Collects, TmSec, TmHour
  <1>9. Follows'  BY <1>3, <1>7, <1>8 DEF TimeInv, Follows
  <1>10. TrueTime'  BY <1>3 DEF TimeInv, TrueTime, Exact
  <1>11. QED  BY <1>4, <1>5, <1>9, <1>10 DEF TimeInv

(* A new decoder knows nothing.                                            *)
LEMMA NewDecoderTimeInv ==
    ASSUME TimeInv, decoder' = NewDecoder, unsure' = FALSE,
           UNCHANGED <<mux, sec, pps, fp, group, m_seconds, timestamp_offset, frame>>
    PROVE  TimeInv'
  <1>1. decoder' \in DecoderType  BY DEF NewDecoder, DecoderType
  <1>2. Types'
    <2>1. unsure' \in BOOLEAN
      OBVIOUS
    <2>2. QED  BY <1>1, <2>1 DEF TimeInv, Types
  <1>3. Follows'
    <2>1. NothingReceived' /\ ~decoder'.enableDecode  BY DEF NothingReceived, NewDecoder
    <2>2. QED  BY <2>1 DEF Follows, CountsOn, Collects
  <1>4. GroupToldAtPhase0' /\ TrueTime'  BY DEF TimeInv, GroupToldAtPhase0, TrueTime, Exact
  <1>5. QED  BY <1>2, <1>3, <1>4 DEF TimeInv

LEMMA LoseTimeInv == TimeInv /\ Lose => TimeInv'
  <1> SUFFICES ASSUME TimeInv, Lose PROVE TimeInv'
    OBVIOUS
  <1>1. PICK n \in Losses : Advance(n)  BY DEF Lose
  <1>2. n \in Nat \ {0} /\ Types  BY <1>1, TimestampAssumption DEF TimeInv
  <1>3. /\ sec' \in Int /\ pps' \in 0 .. SecondTicks - 1 /\ fp' \in 0 .. 3
        /\ group' \in [kind : {"time", "other", "unsynced"}, second : Int]
        /\ GroupToldAtPhase0'
    BY <1>1, <1>2, AdvanceStream
  <1>4. unsure' = (mux.source = "eti")
        /\ UNCHANGED <<mux, decoder, m_seconds, timestamp_offset, frame>>
    BY DEF Lose
  <1>5. Types'
    <2>1. unsure' \in BOOLEAN  BY <1>4
    <2>2. QED  BY <1>2, <1>3, <1>4, <2>1 DEF Types
  <1>6. Follows'  BY <1>4 DEF Follows
  <1>7. TrueTime'  BY <1>4 DEF TimeInv, TrueTime, Exact
  <1>8. QED  BY <1>3, <1>5, <1>6, <1>7 DEF TimeInv

(* A new offset is flagged, or was no number.                              *)
LEMMA OffsetIsFlaggedOrNot ==
    ASSUME TimeInv, SetOffset
    PROVE  /\ timestamp_offset' \in Int
           /\ \E b \in BOOLEAN : decoder' = [decoder EXCEPT !.offset_changed = b]
  <1>1. decoder \in DecoderType  BY DEF TimeInv, Types
  <1>2. decoder = [decoder EXCEPT !.offset_changed = decoder.offset_changed]
        /\ decoder.offset_changed \in BOOLEAN
    BY <1>1 DEF DecoderType
  <1>3. CASE timestamp_offset' \in Offsets /\ decoder' = [decoder EXCEPT !.offset_changed = TRUE]
    BY <1>3, TimestampAssumption
  <1>4. CASE timestamp_offset' = 0 /\ decoder' = decoder
    BY <1>2, <1>4
  <1>5. QED  BY <1>3, <1>4 DEF SetOffset

LEMMA TimeInvStep == TimeInv /\ [Next]_vars => TimeInv'
  <1> SUFFICES ASSUME TimeInv, [Next]_vars PROVE TimeInv'
    OBVIOUS
  <1>0. Types  BY DEF TimeInv
  <1>1. CASE Lose  BY <1>1, LoseTimeInv
  <1>2. CASE Read  BY <1>2, ReadTimeInv
  <1>3. CASE SetOffset
    <2>1. PICK b \in BOOLEAN : decoder' = [decoder EXCEPT !.offset_changed = b]
      BY <1>3, OffsetIsFlaggedOrNot
    <2>2. timestamp_offset' \in Int
      BY <1>3, OffsetIsFlaggedOrNot
    <2>3. QED  BY <1>3, <2>1, <2>2, FlagLeavesTime DEF SetOffset
  <1>4. CASE Skip  BY <1>0, <1>4, FlagLeavesTime DEF Skip, FlagCleared, Types
  <1>5. CASE WaitForPhase0  BY <1>0, <1>5, FlagLeavesTime DEF WaitForPhase0, FlagCleared, Types
  <1>6. CASE Restart
    <2>1. CASE mux.source = "eti"  BY <1>6, <2>1, NewDecoderTimeInv DEF Restart
    <2>2. CASE mux.source # "eti"
      BY <1>0, <1>6, <2>2, FlagLeavesTime DEF Restart, FlagCleared, Types
    <2>3. QED  BY <2>1, <2>2
  <1>7. CASE Modulate  BY <1>0, <1>7, FlagLeavesTime DEF Modulate, FlagCleared, Types
  <1>8. CASE Ended \/ UNCHANGED vars
    <2>1. UNCHANGED vars  BY <1>8 DEF Ended
    <2>2. UNCHANGED <<mux, sec, pps, fp, group, decoder, m_seconds, timestamp_offset, frame,
                      unsure>>
      BY <2>1 DEF vars
    <2>3. QED  BY <2>2 DEF TimeInv, Types, GroupToldAtPhase0, Follows, CountsOn,
                           Linked, NothingReceived, Collects, LastSec, TmSec, TmHour,
                           TrueTime, Exact
  <1>9. QED  BY <1>1, <1>2, <1>3, <1>4, <1>5, <1>6, <1>7, <1>8 DEF Next

LEMMA TimeAlways == Spec => []TimeInv
  <1>1. QED  BY InitTimeInv, TimeInvStep, PTL DEF Spec

(* src/TimestampDecoder.cpp: as long as no frame is lost unnoticed, the    *)
(* timestamp handed on with a frame is the time the multiplexer meant plus *)
(* the offset.                                                             *)
THEOREM TimestampsAreTrue == Spec => []TrueTime
  <1>1. TimeInv => TrueTime  BY DEF TimeInv
  <1>2. QED  BY <1>1, TimeAlways, PTL

-----------------------------------------------------------------------------
(* The refresh of the SDR output.                                          *)

(* What the timestamp of the next frame has to be, and how many frames ago *)
(* phase 0 was.                                                            *)
Now   == sec * SecondTicks + pps + timestamp_offset
Since == IF pc = "decide" THEN frame.fp + 1 ELSE fp

FrameType(f) ==
    /\ f.ts.valid \in BOOLEAN /\ f.ts.sec \in Int /\ f.ts.pps \in 0 .. SecondTicks - 1
    /\ f.dated \in BOOLEAN /\ f.unsure \in BOOLEAN /\ f.offset_changed \in BOOLEAN
    /\ f.fp \in 0 .. 3 /\ f.exact \in Int /\ f.cause \in Int

Flags == /\ pc \in {"read", "decide"} /\ disturbances \in Int
         /\ accepted \in BOOLEAN /\ missed \in BOOLEAN

(* The frame the main loop has to decide on.                               *)
AtHand ==
    pc = "decide" =>
        /\ frame # <<>> /\ FrameType(frame)
        /\ fp = (frame.fp + 1) % 4
        /\ frame.ts.valid = decoder.full_timestamp_received
        /\ frame.cause <= disturbances
        /\ frame.cause = disturbances => frame.exact = Now - FrameTicks

(* A flowgraph that got a frame has a decoder that knows the time, and a   *)
(* transmission frame until its fourth frame is in.                        *)
Started ==
    /\ accepted => decoder.full_timestamp_received
    /\ missed => accepted
    /\ accepted /\ ~missed /\ (IF pc = "decide" THEN frame.fp # 0 ELSE fp # 0) => pending # <<>>

Dated(q) ==
    q # <<>> => /\ FrameType(q[1]) /\ q[1].cause <= disturbances
                /\ q[1].dated /\ ~q[1].unsure => Exact(q[1])

(* Without a disturbance since f, the stream goes on n frames after it.    *)
GoesOn(f, n) ==
    f.cause = disturbances => /\ accepted /\ ~missed /\ ~decoder.offset_changed
                              /\ f.exact = Now - n * FrameTicks

StreamGoesOn == /\ pending # <<>> => GoesOn(pending[1], Since)
                /\ last # <<>> => GoesOn(last[1], Since + 4)

(* Without a disturbance between f and g, g is n frames after f.           *)
Regular(f, g, n) == g.cause = f.cause => g.exact = f.exact + n * FrameTicks /\ ~g.offset_changed

FrameRegular   == pc = "decide" /\ last # <<>> => Regular(last[1], frame, frame.fp + 4)
PendingRegular == pending # <<>> /\ last # <<>> => Regular(last[1], pending[1], 4)

RefreshInv == /\ Flags /\ AtHand /\ Started /\ Dated(pending) /\ Dated(last)
              /\ StreamGoesOn /\ FrameRegular /\ PendingRegular

(* Frames as ticks.                                                        *)
LEMMA FrameTimes ==
    ASSUME NEW n \in Int
    PROVE  n * FrameTicks \in Int /\ (n + 1) * FrameTicks = n * FrameTicks + FrameTicks
  <1>1. FrameTicks \in Int  BY TimestampAssumption
  <1>2. QED  BY <1>1

(* A time has one second and one part within it.                           *)
LEMMA OneTime ==
    ASSUME NEW a \in Int, NEW b \in Int, NEW p \in 0 .. SecondTicks - 1,
           NEW q \in 0 .. SecondTicks - 1, a * SecondTicks + p = b * SecondTicks + q
    PROVE  a = b /\ p = q
  <1>0. SecondTicks \in Nat /\ SecondTicks > 0  BY TimestampAssumption
  <1>1. ASSUME NEW x \in Int, NEW y \in Int, NEW u \in 0 .. SecondTicks - 1,
               NEW v \in 0 .. SecondTicks - 1, x < y
        PROVE  x * SecondTicks + u < y * SecondTicks + v
    <2>1. (x + 1) * SecondTicks <= y * SecondTicks  BY <1>0, <1>1
    <2>2. (x + 1) * SecondTicks = x * SecondTicks + SecondTicks  BY <1>0
    <2>3. x * SecondTicks \in Int /\ y * SecondTicks \in Int  BY <1>0
    <2>4. QED  BY <1>0, <2>1, <2>2, <2>3
  <1>2. a * SecondTicks \in Int /\ b * SecondTicks \in Int  BY <1>0
  <1>3. ~(a < b)
    <2> SUFFICES ASSUME a < b PROVE FALSE
      OBVIOUS
    <2>1. a * SecondTicks + p < b * SecondTicks + q  BY <1>1
    <2>2. QED  BY <1>0, <1>2, <2>1
  <1>4. ~(b < a)
    <2> SUFFICES ASSUME b < a PROVE FALSE
      OBVIOUS
    <2>1. b * SecondTicks + q < a * SecondTicks + p  BY <1>1
    <2>2. QED  BY <1>0, <1>2, <2>1
  <1>5. a = b  BY <1>3, <1>4
  <1>6. QED  BY <1>0, <1>2, <1>5

(* SDR::handle_frame() carries right: four frames after f is what it       *)
(* expects after f.                                                        *)
LEMMA ExpectedIsExact ==
    ASSUME NEW f, NEW g, FrameType(f), FrameType(g), Exact(f), Exact(g),
           g.exact = f.exact + 4 * FrameTicks
    PROVE  Expected(f) = [sec |-> g.ts.sec, pps |-> g.ts.pps]
  <1>0. SecondTicks \in Nat /\ SecondTicks > 0 /\ FrameTicks \in Nat /\ 4 * FrameTicks \in Int
    BY TimestampAssumption
  <1>1. /\ f.ts.sec \in Int /\ f.ts.pps \in 0 .. SecondTicks - 1 /\ f.exact \in Int
        /\ g.ts.sec \in Int /\ g.ts.pps \in 0 .. SecondTicks - 1
    BY DEF FrameType
  <1> DEFINE s == (4 * FrameTicks) \div SecondTicks
             r == (4 * FrameTicks) % SecondTicks
             x == f.ts.pps + r
  <1>2. s \in Int /\ r \in 0 .. SecondTicks - 1 /\ 4 * FrameTicks = s * SecondTicks + r
    BY <1>0, DivMod
  <1> HIDE DEF s, r
  <1>3. x \in Int  BY <1>0, <1>1, <1>2
  <1>4. /\ x \div SecondTicks \in Int /\ x % SecondTicks \in 0 .. SecondTicks - 1
        /\ x = (x \div SecondTicks) * SecondTicks + (x % SecondTicks)
    BY <1>0, <1>3, DivMod
  <1> DEFINE a == f.ts.sec + s + (x \div SecondTicks)
  <1>5. a * SecondTicks
          = f.ts.sec * SecondTicks + s * SecondTicks + (x \div SecondTicks) * SecondTicks
    <2>1. \A u, v, w \in Int :
             (u + v + w) * SecondTicks = u * SecondTicks + v * SecondTicks + w * SecondTicks
      BY <1>0
    <2>2. f.ts.sec \in Int /\ s \in Int /\ x \div SecondTicks \in Int  BY <1>1, <1>2, <1>4
    <2> HIDE DEF x
    <2>3. QED  BY <2>1, <2>2
  <1>6. /\ f.ts.sec * SecondTicks \in Int /\ s * SecondTicks \in Int
        /\ (x \div SecondTicks) * SecondTicks \in Int /\ a \in Int /\ x = f.ts.pps + r
    <2>1. \A n \in Int : n * SecondTicks \in Int  BY <1>0
    <2>2. a \in Int  BY <1>1, <1>2, <1>4
    <2>3. x = f.ts.pps + r
      OBVIOUS
    <2> HIDE DEF a, x
    <2>4. QED  BY <1>1, <1>2, <1>4, <2>1, <2>2, <2>3
  <1>7. f.ts.sec * SecondTicks + f.ts.pps + 4 * FrameTicks
          = g.ts.sec * SecondTicks + g.ts.pps
    BY DEF Exact
  <1>8. Expected(f) = [sec |-> a, pps |-> x % SecondTicks]
    BY DEF Expected, SecondOf, a, s, r
  <1> HIDE DEF a, x
  <1>9. a * SecondTicks + (x % SecondTicks) = g.ts.sec * SecondTicks + g.ts.pps
    <2> DEFINE A == f.ts.sec * SecondTicks
               B == s * SecondTicks
               C == (x \div SecondTicks) * SecondTicks
               y == x % SecondTicks
               z == 4 * FrameTicks
               total == a * SecondTicks
               right == g.ts.sec * SecondTicks
    <2>1. A \in Int /\ B \in Int /\ C \in Int  BY <1>6
    <2>2. y \in Int /\ z \in Int /\ f.ts.pps \in Int /\ g.ts.pps \in Int /\ r \in Int /\ x \in Int
      <3>1. y \in Int
        <4>1. y \in 0 .. SecondTicks - 1  BY <1>4
        <4> HIDE DEF y
        <4>2. QED  BY <1>0, <4>1
      <3>2. z \in Int  BY <1>0
      <3>3. f.ts.pps \in Int /\ g.ts.pps \in Int  BY <1>0, <1>1
      <3>4. r \in Int  BY <1>0, <1>2
      <3> HIDE DEF y, z
      <3>5. QED  BY <1>3, <3>1, <3>2, <3>3, <3>4
    <2>3. total \in Int /\ right \in Int
      <3>1. \A n \in Int : n * SecondTicks \in Int  BY <1>0
      <3>2. QED  BY <1>1, <1>6, <3>1
    <2>4. total = A + B + C  BY <1>5
    <2>5. x = C + y /\ x = f.ts.pps + r /\ z = B + r  BY <1>2, <1>4, <1>6
    <2>6. A + f.ts.pps + z = right + g.ts.pps  BY <1>7
    <2> HIDE DEF A, B, C, y, z, total, right
    <2> DEFINE u == f.ts.pps
               v == g.ts.pps
    <2>u. u \in Int /\ v \in Int /\ x = u + r /\ A + u + z = right + v  BY <2>2, <2>5, <2>6
    <2> HIDE DEF u, v
    <2>7. total + y = right + v
      <3>1. total + y = A + B + x  BY <2>1, <2>2, <2>4, <2>5
      <3>2. A + B + x = A + u + z  BY <2>1, <2>2, <2>5, <2>u
      <3>3. QED  BY <2>u, <3>1, <3>2
    <2>8. QED  BY <2>7 DEF total, y, right, v
  <1>10. a = g.ts.sec /\ x % SecondTicks = g.ts.pps
    BY <1>1, <1>4, <1>6, <1>9, OneTime
  <1>11. QED  BY <1>8, <1>10

(* A disturbance, or a flowgraph that has missed a frame or got none: what *)
(* is under way is not continued.                                          *)
LEMMA Interrupted ==
    ASSUME RefreshInv, last' = last, pending' \in {pending, <<>>},
           \/ disturbances' = disturbances + 1
           \/ disturbances' = disturbances /\ ~(accepted /\ ~missed)
    PROVE  /\ disturbances' \in Int
           /\ Dated(pending)' /\ Dated(last)' /\ StreamGoesOn' /\ PendingRegular'
  <1>1. disturbances \in Int  BY DEF RefreshInv, Flags
  <1>2. disturbances' \in Int /\ disturbances <= disturbances'  BY <1>1
  <1>3. /\ pending # <<>> => pending[1].cause \in Int /\ pending[1].cause # disturbances'
        /\ last # <<>> => last[1].cause \in Int /\ last[1].cause # disturbances'
    <2>1. /\ pending # <<>> => pending[1].cause \in Int /\ pending[1].cause <= disturbances
          /\ last # <<>> => last[1].cause \in Int /\ last[1].cause <= disturbances
      BY DEF RefreshInv, Dated, FrameType
    <2>2. CASE disturbances' = disturbances + 1  BY <1>1, <2>1, <2>2
    <2>3. CASE disturbances' = disturbances /\ ~(accepted /\ ~missed)
      BY <2>1, <2>3 DEF RefreshInv, StreamGoesOn, GoesOn
    <2>4. QED  BY <2>2, <2>3
  <1>4. Dated(last)'
    <2>1. Dated(last)  BY DEF RefreshInv
    <2>2. QED  BY <1>1, <1>2, <2>1 DEF Dated, FrameType, Exact
  <1>5. Dated(pending)'
    <2>1. Dated(pending)  BY DEF RefreshInv
    <2>2. CASE pending' = pending  BY <1>1, <1>2, <2>1, <2>2 DEF Dated, FrameType, Exact
    <2>3. CASE pending' = <<>>  BY <2>3 DEF Dated
    <2>4. QED  BY <2>2, <2>3
  <1>6. StreamGoesOn'
    <2>1. last # <<>> => GoesOn(last[1], Since + 4)'  BY <1>3 DEF GoesOn
    <2>2. pending' # <<>> => GoesOn(pending[1], Since)'  BY <1>3 DEF GoesOn
    <2>3. QED  BY <2>1, <2>2 DEF StreamGoesOn
  <1>7. PendingRegular'
    <2>1. PendingRegular  BY DEF RefreshInv
    <2>2. QED  BY <2>1 DEF PendingRegular, Regular
  <1>8. QED  BY <1>2, <1>4, <1>5, <1>6, <1>7

(* What a decision does to the decoder, but for a restart with ETI.        *)
LEMMA OnlyTheFlag ==
    ASSUME decoder \in DecoderType, NEW b \in BOOLEAN,
           decoder' = [decoder EXCEPT !.offset_changed = b]
    PROVE  /\ decoder'.full_timestamp_received = decoder.full_timestamp_received
           /\ decoder'.offset_changed = b
  BY DEF DecoderType

LEMMA InitRefreshInv == Init => RefreshInv
  <1> SUFFICES ASSUME Init PROVE RefreshInv
    OBVIOUS
  <1>1. /\ pc = "read" /\ pending = <<>> /\ last = <<>> /\ disturbances = 0
        /\ accepted = FALSE /\ missed = FALSE
    BY DEF Init
  <1>2. Flags
    <2>1. accepted \in BOOLEAN /\ missed \in BOOLEAN  BY <1>1
    <2>2. pc \in {"read", "decide"} /\ disturbances \in Int  BY <1>1
    <2>3. QED  BY <2>1, <2>2 DEF Flags
  <1>3. AtHand /\ FrameRegular  BY <1>1 DEF AtHand, FrameRegular
  <1>4. Dated(pending) /\ Dated(last) /\ StreamGoesOn /\ PendingRegular
    BY <1>1 DEF Dated, StreamGoesOn, PendingRegular
  <1>5. Started  BY <1>1 DEF Started
  <1>6. QED  BY <1>2, <1>3, <1>4, <1>5 DEF RefreshInv

LEMMA LoseRefreshInv == TimeInv /\ RefreshInv /\ Lose => RefreshInv'
  <1> SUFFICES ASSUME TimeInv, RefreshInv, Lose PROVE RefreshInv'
    OBVIOUS
  <1>1. /\ pc = "read" /\ pc' = "read" /\ disturbances' = disturbances + 1
        /\ missed' = accepted
        /\ UNCHANGED <<decoder, accepted, pending, last>>
    BY DEF Lose, Disturb
  <1>2. /\ disturbances' \in Int
        /\ Dated(pending)' /\ Dated(last)' /\ StreamGoesOn' /\ PendingRegular'
    BY <1>1, Interrupted
  <1>3. Flags'  BY <1>1, <1>2 DEF RefreshInv, Flags
  <1>4. AtHand' /\ FrameRegular'  BY <1>1 DEF AtHand, FrameRegular
  <1>5. Started'  BY <1>1 DEF RefreshInv, Started, Flags
  <1>6. QED  BY <1>2, <1>3, <1>4, <1>5 DEF RefreshInv

LEMMA SetOffsetRefreshInv == TimeInv /\ RefreshInv /\ SetOffset => RefreshInv'
  <1> SUFFICES ASSUME TimeInv, RefreshInv, SetOffset PROVE RefreshInv'
    OBVIOUS
  <1>1. /\ disturbances' = disturbances + 1
        /\ UNCHANGED <<pc, fp, frame, accepted, missed, pending, last>>
    BY DEF SetOffset, Disturb
  <1>2. /\ disturbances' \in Int
        /\ Dated(pending)' /\ Dated(last)' /\ StreamGoesOn' /\ PendingRegular'
    BY <1>1, Interrupted
  <1>3. Flags'  BY <1>1, <1>2 DEF RefreshInv, Flags
  <1>4. decoder'.full_timestamp_received = decoder.full_timestamp_received
    <2>1. decoder \in DecoderType
      BY DEF TimeInv, Types
    <2>2. PICK b \in BOOLEAN : decoder' = [decoder EXCEPT !.offset_changed = b]
      BY OffsetIsFlaggedOrNot
    <2>3. QED  BY <2>1, <2>2, OnlyTheFlag
  <1>5. AtHand'
    <2> SUFFICES ASSUME pc = "decide" PROVE AtHand'
      BY <1>1 DEF AtHand
    <2>1. /\ frame # <<>> /\ FrameType(frame) /\ fp = (frame.fp + 1) % 4
          /\ frame.ts.valid = decoder.full_timestamp_received
          /\ frame.cause <= disturbances /\ frame.cause \in Int /\ disturbances \in Int
      BY DEF RefreshInv, AtHand, FrameType, Flags
    <2>2. frame.cause <= disturbances' /\ frame.cause # disturbances'  BY <1>1, <2>1
    <2>3. FrameType(frame)'  BY <1>1, <2>1 DEF FrameType
    <2>4. QED  BY <1>1, <1>4, <2>1, <2>2, <2>3 DEF AtHand
  <1>6. FrameRegular'  BY <1>1 DEF RefreshInv, FrameRegular, Regular
  <1>7. Started'  BY <1>1, <1>4 DEF RefreshInv, Started
  <1>8. QED  BY <1>2, <1>3, <1>5, <1>6, <1>7 DEF RefreshInv

(* A frame that is not modulated.                                          *)
LEMMA DropRefreshInv ==
    TimeInv /\ RefreshInv /\ (Skip \/ WaitForPhase0 \/ Restart) => RefreshInv'
  <1> SUFFICES ASSUME TimeInv, RefreshInv, Skip \/ WaitForPhase0 \/ Restart PROVE RefreshInv'
    OBVIOUS
  <1>1. /\ pc = "decide" /\ pc' = "read"
        /\ last' = last /\ pending' \in {pending, <<>>}
    BY DEF Skip, WaitForPhase0, Restart
  <1>2. decoder \in DecoderType  BY DEF TimeInv, Types
  <1>3. /\ \/ disturbances' = disturbances + 1
           \/ disturbances' = disturbances /\ ~(accepted /\ ~missed)
        /\ \/ accepted' = FALSE /\ missed' = FALSE
           \/ /\ accepted' = accepted /\ missed' = accepted
              /\ decoder'.full_timestamp_received = decoder.full_timestamp_received
    <2>1. CASE Skip
      <3>1. decoder'.full_timestamp_received = decoder.full_timestamp_received
        BY <1>2, <2>1, OnlyTheFlag DEF Skip, FlagCleared
      <3>2. ~frame.ts.valid => ~accepted
        BY <1>1 DEF RefreshInv, AtHand, Started
      <3>3. QED  BY <2>1, <3>1, <3>2 DEF Skip, Disturb
    <2>2. CASE WaitForPhase0
      <3>1. ~accepted /\ ~missed /\ missed \in BOOLEAN /\ accepted \in BOOLEAN
        BY <2>2 DEF WaitForPhase0, RefreshInv, Started, Flags
      <3>2. QED  BY <2>2, <3>1 DEF WaitForPhase0
    <2>3. CASE Restart
      <3>1. accepted' = FALSE /\ missed' = FALSE  BY <2>3 DEF Restart
      <3>2. QED  BY <2>3, <3>1 DEF Restart, Disturb
    <2>4. QED  BY <2>1, <2>2, <2>3
  <1>4. /\ disturbances' \in Int
        /\ Dated(pending)' /\ Dated(last)' /\ StreamGoesOn' /\ PendingRegular'
    BY <1>1, <1>3, Interrupted
  <1>5. Flags'  BY <1>1, <1>3, <1>4 DEF RefreshInv, Flags
  <1>6. AtHand' /\ FrameRegular'  BY <1>1 DEF AtHand, FrameRegular
  <1>7. Started'  BY <1>3 DEF RefreshInv, Started, Flags
  <1>8. QED  BY <1>4, <1>5, <1>6, <1>7 DEF RefreshInv

(* The next frame of the stream follows what is under way.                 *)
LEMMA ReadRefreshInv == TimeInv /\ RefreshInv /\ Read => RefreshInv'
  <1> SUFFICES ASSUME TimeInv, RefreshInv, Read PROVE RefreshInv'
    OBVIOUS
  <1>1. /\ pc = "read" /\ pc' = "decide" /\ Advance(1)
        /\ UNCHANGED <<timestamp_offset, accepted, missed, pending, last, unsure, mux>>
        /\ Types
    BY DEF Read, TimeInv
  <1>2. /\ SecondTicks \in Nat /\ FrameTicks \in Nat /\ sec \in Int
        /\ pps \in 0 .. SecondTicks - 1 /\ fp \in 0 .. 3 /\ timestamp_offset \in Int
        /\ decoder \in DecoderType /\ unsure \in BOOLEAN /\ decoder.offset_changed \in BOOLEAN
        /\ disturbances \in Int /\ mux.tist \in BOOLEAN
    BY <1>1, TimestampAssumption DEF Types, RefreshInv, Flags, DecoderType
  <1>3. /\ decoder' \in DecoderType /\ decoder'.offset_changed = FALSE
        /\ decoder.full_timestamp_received => decoder'.full_timestamp_received
        /\ disturbances' = disturbances \/ disturbances' = disturbances + 1
    <2>1. CASE ReadEti
      <3>1. decoder' \in DecoderType /\ decoder'.offset_changed = FALSE
        BY <1>1, <2>1, ReadEtiDecoder
      <3>2. decoder.full_timestamp_received => decoder'.full_timestamp_received
        BY <1>1, <1>2, <2>1, ReadEtiDecoder
      <3>3. QED  BY <2>1, <3>1, <3>2 DEF ReadEti
    <2>2. CASE ReadEdi
      <3>1. disturbances' = disturbances \/ disturbances' = disturbances + 1
        BY <2>2 DEF ReadEdi, Disturb
      <3>2. QED  BY <1>1, <2>2, <3>1, ReadEdiIsExact
    <2>3. QED  BY <2>1, <2>2 DEF Read
  (* The stream is one frame further.                                      *)
  <1>4. Now \in Int /\ Now' = Now + FrameTicks /\ fp' = (fp + 1) % 4
    <2>1. /\ \/ pps' = pps + FrameTicks /\ sec' = sec
             \/ pps' = pps + FrameTicks - SecondTicks /\ sec' = sec + 1
      BY <1>1, AdvanceStream
    <2>2. sec * SecondTicks \in Int /\ (sec + 1) * SecondTicks = sec * SecondTicks + SecondTicks
      BY <1>2
    <2>3. Now = sec * SecondTicks + pps + timestamp_offset  BY DEF Now
    <2>4. Now \in Int  BY <1>2, <2>2, <2>3
    <2>5. CASE pps' = pps + FrameTicks /\ sec' = sec
      <3>1. Now' = sec * SecondTicks + (pps + FrameTicks) + timestamp_offset
        BY <1>1, <2>5 DEF Now
      <3>2. QED  BY <1>1, <1>2, <2>2, <2>3, <2>4, <3>1 DEF Advance
    <2>6. CASE pps' = pps + FrameTicks - SecondTicks /\ sec' = sec + 1
      <3>1. Now' = (sec + 1) * SecondTicks + (pps + FrameTicks - SecondTicks) + timestamp_offset
        BY <1>1, <2>6 DEF Now
      <3>2. QED  BY <1>1, <1>2, <2>2, <2>3, <2>4, <3>1 DEF Advance
    <2>7. QED  BY <2>1, <2>5, <2>6
  <1>5. /\ frame' # <<>>
        /\ frame'.ts = GetTimestamp /\ frame'.fp = fp /\ frame'.exact = Now
        /\ frame'.cause = disturbances /\ frame'.unsure = unsure
        /\ frame'.offset_changed = decoder.offset_changed
        /\ frame'.dated \in BOOLEAN
    <2> DEFINE dated == IF mux.source = "eti" THEN mux.tist ELSE decoder'.time_pps # NullTist
               new == [ts |-> GetTimestamp, dated |-> dated,
                       offset_changed |-> decoder.offset_changed, fp |-> fp,
                       exact |-> Now, cause |-> disturbances, unsure |-> unsure]
    <2>1. dated \in BOOLEAN  BY <1>2
    <2>2. frame' = new  BY DEF Read, Now
    <2> HIDE DEF dated
    <2>3. new # <<>>
      <3>1. "ts" \in DOMAIN new
        OBVIOUS
      <3>2. "ts" \notin DOMAIN <<>>
        OBVIOUS
      <3> HIDE DEF new
      <3>3. QED  BY <3>1, <3>2
    <2>4. QED  BY <2>1, <2>2, <2>3
  <1>6. /\ GetTimestamp.valid = decoder'.full_timestamp_received
        /\ GetTimestamp.valid \in BOOLEAN
        /\ GetTimestamp.sec \in Int /\ GetTimestamp.pps \in 0 .. SecondTicks - 1
    <2>1. decoder'.full_timestamp_received \in BOOLEAN  BY <1>3 DEF DecoderType
    <2>2. QED  BY <1>2, <1>3, <2>1, GetTimestampIsExact
  <1>7. FrameType(frame)'  BY <1>2, <1>4, <1>5, <1>6 DEF FrameType
  <1>8. disturbances' \in Int /\ frame'.cause <= disturbances'  BY <1>2, <1>3, <1>5
  <1>9. Flags'  BY <1>1, <1>8 DEF RefreshInv, Flags
  <1>10. AtHand'
    <2>1. frame'.exact = Now' - FrameTicks  BY <1>2, <1>4, <1>5
    <2>2. fp' = (frame'.fp + 1) % 4  BY <1>4, <1>5
    <2>3. frame'.ts.valid = decoder'.full_timestamp_received  BY <1>5, <1>6
    <2>4. QED  BY <1>5, <1>7, <1>8, <2>1, <2>2, <2>3 DEF AtHand
  <1>11. Started'
    <2>1. Started  BY DEF RefreshInv
    <2>2. QED  BY <1>1, <1>3, <1>5, <2>1 DEF Started
  <1>12. FrameRegular'
    <2> SUFFICES ASSUME last # <<>>, last[1].cause = disturbances
                 PROVE  frame'.exact = last[1].exact + (fp + 4) * FrameTicks
                        /\ ~frame'.offset_changed
      BY <1>1, <1>5 DEF FrameRegular, Regular
    <2>1. ~decoder.offset_changed /\ last[1].exact = Now - (fp + 4) * FrameTicks
      BY <1>1 DEF RefreshInv, StreamGoesOn, GoesOn, Since
    <2>2. (fp + 4) * FrameTicks \in Int /\ fp + 4 \in Int  BY <1>2, FrameTimes
    <2> DEFINE t == (fp + 4) * FrameTicks
    <2> HIDE DEF t
    <2>3. Now = Now - t + t  BY <1>4, <2>2 DEF t
    <2>4. QED  BY <1>5, <2>1, <2>3 DEF t
  <1>13. CASE disturbances' = disturbances + 1
    <2>1. Dated(pending)' /\ Dated(last)' /\ StreamGoesOn' /\ PendingRegular'
      BY <1>1, <1>13, Interrupted
    <2>2. QED  BY <1>9, <1>10, <1>11, <1>12, <2>1 DEF RefreshInv
  <1>14. CASE disturbances' = disturbances
    <2>1. Dated(pending)' /\ Dated(last)' /\ PendingRegular'
      <3>1. Dated(pending) /\ Dated(last) /\ PendingRegular  BY DEF RefreshInv
      <3>2. QED  BY <1>1, <1>14, <3>1 DEF Dated, FrameType, Exact, PendingRegular, Regular
    <2>2. ASSUME NEW f, NEW n \in Int, GoesOn(f, n), f.cause = disturbances'
          PROVE  /\ accepted' /\ ~missed' /\ ~decoder'.offset_changed
                 /\ f.exact = Now' - (n + 1) * FrameTicks
      <3>1. accepted /\ ~missed /\ f.exact = Now - n * FrameTicks
        BY <1>14, <2>2 DEF GoesOn
      <3>2. n * FrameTicks \in Int /\ (n + 1) * FrameTicks = n * FrameTicks + FrameTicks
        BY FrameTimes
      <3> DEFINE t == n * FrameTicks
      <3>3. t \in Int /\ (n + 1) * FrameTicks = t + FrameTicks /\ f.exact = Now - t
        BY <3>1, <3>2
      <3> HIDE DEF t
      <3>4. Now - t = (Now + FrameTicks) - (t + FrameTicks)  BY <1>2, <1>4, <3>3
      <3>5. f.exact = Now' - (n + 1) * FrameTicks  BY <1>4, <3>3, <3>4
      <3>6. QED  BY <1>1, <1>3, <3>1, <3>5
    <2>3. StreamGoesOn'
      <3>1. /\ Since = fp /\ Since' = fp + 1 /\ fp \in Int /\ fp + 4 \in Int
            /\ (fp + 4) + 1 = (fp + 1) + 4
        BY <1>1, <1>2, <1>5 DEF Since
      <3>2. /\ pending # <<>> => GoesOn(pending[1], fp)
            /\ last # <<>> => GoesOn(last[1], fp + 4)
        BY <3>1 DEF RefreshInv, StreamGoesOn
      <3>3. pending # <<>> /\ pending[1].cause = disturbances' =>
                /\ accepted' /\ ~missed' /\ ~decoder'.offset_changed
                /\ pending[1].exact = Now' - (fp + 1) * FrameTicks
        BY <2>2, <3>1, <3>2
      <3>4. last # <<>> /\ last[1].cause = disturbances' =>
                /\ accepted' /\ ~missed' /\ ~decoder'.offset_changed
                /\ last[1].exact = Now' - ((fp + 1) + 4) * FrameTicks
        BY <2>2, <3>1, <3>2
      <3>5. pending' = pending /\ last' = last  BY <1>1
      <3>6. QED  BY <3>1, <3>3, <3>4, <3>5 DEF StreamGoesOn, GoesOn
    <2>4. QED  BY <1>9, <1>10, <1>11, <1>12, <2>1, <2>3 DEF RefreshInv
  <1>15. QED  BY <1>3, <1>13, <1>14

(* The frame goes into the flowgraph; with the fourth the transmission     *)
(* frame comes out.                                                        *)
LEMMA ModulateRefreshInv == TimeInv /\ RefreshInv /\ Modulate => RefreshInv'
  <1> SUFFICES ASSUME TimeInv, RefreshInv, Modulate PROVE RefreshInv'
    OBVIOUS
  <1>1. /\ pc = "decide" /\ pc' = "read" /\ accepted' = TRUE
        /\ UNCHANGED <<sec, pps, fp, timestamp_offset, frame, missed, disturbances>>
        /\ frame.ts.valid /\ (IF accepted THEN ~missed ELSE frame.fp = 0)
    BY DEF Modulate
  <1>2. /\ decoder'.full_timestamp_received = decoder.full_timestamp_received
        /\ decoder'.offset_changed = FALSE
    <2>1. decoder \in DecoderType /\ decoder' = [decoder EXCEPT !.offset_changed = FALSE]
      BY DEF TimeInv, Types, Modulate, FlagCleared
    <2>2. QED  BY <2>1, OnlyTheFlag
  <1>3. /\ frame # <<>> /\ FrameType(frame) /\ fp = (frame.fp + 1) % 4
        /\ decoder.full_timestamp_received
        /\ frame.cause <= disturbances
        /\ frame.cause = disturbances => frame.exact = Now - FrameTicks
    BY <1>1 DEF RefreshInv, AtHand
  <1>4. /\ frame.fp \in 0 .. 3 /\ FrameTicks \in Int
        /\ frame.fp < 3 => fp = frame.fp + 1
        /\ frame.fp = 3 => fp = 0
    <2>1. frame.fp \in 0 .. 3 /\ FrameTicks \in Int  BY <1>3, TimestampAssumption DEF FrameType
    <2>2. QED  BY <1>3, <2>1
  <1>5. ~missed  BY <1>1 DEF RefreshInv, Started
  <1>6. Flags'  BY <1>1 DEF RefreshInv, Flags
  <1>7. AtHand' /\ FrameRegular'  BY <1>1 DEF AtHand, FrameRegular
  <1>8. /\ frame.fp = 0 => pending' = <<frame>> /\ last' = last
        /\ frame.fp \in {1, 2} => pending' = pending /\ last' = last
        /\ frame.fp = 3 => pending' = <<>> /\ last' = pending
    <2>1. CASE frame.fp = 0  BY <2>1 DEF Modulate
    <2>2. CASE frame.fp = 1  BY <2>2 DEF Modulate
    <2>3. CASE frame.fp = 2  BY <2>3 DEF Modulate
    <2>4. CASE frame.fp = 3  BY <2>4 DEF Modulate
    <2>5. QED  BY <1>4, <2>1, <2>2, <2>3, <2>4
  <1>9. /\ Dated(pending) /\ Dated(last) /\ PendingRegular /\ FrameRegular /\ StreamGoesOn
        /\ Started
    BY DEF RefreshInv
  <1>10. Since = frame.fp + 1 /\ Since' = fp /\ Now' = Now
    BY <1>1 DEF Since, Now
  <1>11. ASSUME NEW f, NEW n, GoesOn(f, n), f.cause = disturbances'
         PROVE  /\ accepted' /\ ~missed' /\ ~decoder'.offset_changed
                /\ f.exact = Now' - n * FrameTicks
    BY <1>1, <1>2, <1>5, <1>10, <1>11 DEF GoesOn
  <1>12. CASE frame.fp = 0
    <2>1. pending' = <<frame>> /\ last' = last /\ fp = 1 /\ pending'[1] = frame
          /\ pending' # <<>>
      BY <1>4, <1>8, <1>12
    <2>2. Started'  BY <1>1, <1>2, <1>3, <1>5, <2>1 DEF Started
    <2>3. Dated(pending)'
      <3>1. frame.dated /\ ~frame.unsure => Exact(frame)
        BY <1>1, <1>3 DEF TimeInv, TrueTime
      <3>2. QED  BY <1>1, <1>3, <2>1, <3>1 DEF Dated, FrameType, Exact
    <2>4. Dated(last)'  BY <1>1, <1>9, <2>1 DEF Dated, FrameType, Exact
    <2>5. StreamGoesOn'
      <3>1. 1 * FrameTicks = FrameTicks  BY <1>4
      <3>2. GoesOn(frame, 1)' 
        BY <1>1, <1>2, <1>3, <1>5, <1>10, <3>1 DEF GoesOn
      <3>3. last # <<>> => GoesOn(last[1], 5)  BY <1>9, <1>10, <1>12 DEF StreamGoesOn
      <3>4. last # <<>> /\ last[1].cause = disturbances' =>
                /\ accepted' /\ ~missed' /\ ~decoder'.offset_changed
                /\ last[1].exact = Now' - 5 * FrameTicks
        BY <1>11, <3>3
      <3>5. Since' = 1 /\ Since' + 4 = 5  BY <1>10, <2>1
      <3>6. frame' = frame  BY <1>1
      <3>7. QED  BY <2>1, <3>2, <3>4, <3>5, <3>6 DEF StreamGoesOn, GoesOn
    <2>6. PendingRegular'
      <3>1. frame.fp + 4 = 4  BY <1>12
      <3>2. last # <<>> => Regular(last[1], frame, 4)  BY <1>1, <1>9, <3>1 DEF FrameRegular
      <3>3. QED  BY <1>1, <2>1, <3>2 DEF PendingRegular, Regular
    <2>7. QED  BY <1>6, <1>7, <2>2, <2>3, <2>4, <2>5, <2>6 DEF RefreshInv
  <1>13. CASE frame.fp \in {1, 2}
    <2>1. pending' = pending /\ last' = last /\ fp = frame.fp + 1 /\ accepted
      BY <1>1, <1>4, <1>8, <1>13
    <2>2. pending # <<>>  BY <1>1, <1>5, <1>9, <1>13, <2>1 DEF Started
    <2>3. Started'  BY <1>1, <1>2, <1>3, <1>5, <2>1, <2>2 DEF Started
    <2>4. Dated(pending)' /\ Dated(last)'  BY <1>1, <1>9, <2>1 DEF Dated, FrameType, Exact
    <2>5. StreamGoesOn'
      <3>1. pending # <<>> => GoesOn(pending[1], fp)  BY <1>9, <1>10, <2>1 DEF StreamGoesOn
      <3>2. last # <<>> => GoesOn(last[1], fp + 4)  BY <1>9, <1>10, <2>1 DEF StreamGoesOn
      <3>3. pending # <<>> /\ pending[1].cause = disturbances' =>
                /\ accepted' /\ ~missed' /\ ~decoder'.offset_changed
                /\ pending[1].exact = Now' - fp * FrameTicks
        BY <1>11, <3>1
      <3>4. last # <<>> /\ last[1].cause = disturbances' =>
                /\ accepted' /\ ~missed' /\ ~decoder'.offset_changed
                /\ last[1].exact = Now' - (fp + 4) * FrameTicks
        BY <1>11, <3>2
      <3>5. QED  BY <1>10, <2>1, <3>3, <3>4 DEF StreamGoesOn, GoesOn
    <2>6. PendingRegular'  BY <1>9, <2>1 DEF PendingRegular, Regular
    <2>7. QED  BY <1>6, <1>7, <2>3, <2>4, <2>5, <2>6 DEF RefreshInv
  <1>14. CASE frame.fp = 3
    <2>1. pending' = <<>> /\ last' = pending /\ fp = 0
      BY <1>4, <1>8, <1>14
    <2>2. Started'  BY <1>1, <1>2, <1>3, <1>5, <2>1 DEF Started
    <2>3. Dated(pending)' /\ PendingRegular'  BY <2>1 DEF Dated, PendingRegular
    <2>4. Dated(last)'  BY <1>1, <1>9, <2>1 DEF Dated, FrameType, Exact
    <2>5. StreamGoesOn'
      <3>1. Since = 4 /\ Since' + 4 = 4  BY <1>10, <1>14, <2>1
      <3>2. pending # <<>> => GoesOn(pending[1], 4)  BY <1>9, <3>1 DEF StreamGoesOn
      <3>3. pending # <<>> /\ pending[1].cause = disturbances' =>
                /\ accepted' /\ ~missed' /\ ~decoder'.offset_changed
                /\ pending[1].exact = Now' - 4 * FrameTicks
        BY <1>11, <3>2
      <3>4. QED  BY <2>1, <3>1, <3>3 DEF StreamGoesOn, GoesOn
    <2>6. QED  BY <1>6, <1>7, <2>2, <2>3, <2>4, <2>5 DEF RefreshInv
  <1>15. QED  BY <1>4, <1>12, <1>13, <1>14

LEMMA RefreshAlways == Spec => [](TimeInv /\ RefreshInv)
  <1>1. TimeInv /\ RefreshInv /\ [Next]_vars => RefreshInv'
    <2> SUFFICES ASSUME TimeInv, RefreshInv, [Next]_vars PROVE RefreshInv'
      OBVIOUS
    <2>1. CASE Lose  BY <2>1, LoseRefreshInv
    <2>2. CASE Read  BY <2>2, ReadRefreshInv
    <2>3. CASE SetOffset  BY <2>3, SetOffsetRefreshInv
    <2>4. CASE Skip \/ WaitForPhase0 \/ Restart  BY <2>4, DropRefreshInv
    <2>5. CASE Modulate  BY <2>5, ModulateRefreshInv
    <2>6. CASE Ended \/ UNCHANGED vars
      <3>1. UNCHANGED vars  BY <2>6 DEF Ended
      <3>2. UNCHANGED <<sec, pps, fp, decoder, timestamp_offset, pc, frame, accepted, missed,
                        pending, last, disturbances>>
        BY <3>1 DEF vars
      <3>3. Flags' /\ AtHand' /\ Started'
        BY <3>2 DEF RefreshInv, Flags, AtHand, Started, FrameType, Now
      <3>4. Dated(pending)' /\ Dated(last)'
        BY <3>2 DEF RefreshInv, Dated, FrameType, Exact
      <3>5. StreamGoesOn' /\ FrameRegular' /\ PendingRegular'
        BY <3>2 DEF RefreshInv, StreamGoesOn, GoesOn, Since, Now, FrameRegular, PendingRegular,
                    Regular
      <3>6. QED  BY <3>3, <3>4, <3>5 DEF RefreshInv
    <2>7. QED  BY <2>1, <2>2, <2>3, <2>4, <2>5, <2>6 DEF Next
  <1>2. QED  BY <1>1, InitRefreshInv, InitTimeInv, TimeInvStep, PTL DEF Spec

(* src/output/SDR.cpp: handle_frame() asks for a refresh only for a cause. *)
THEOREM RefreshHasACause == Spec => NoFalseRefresh
  <1>1. TimeInv /\ RefreshInv /\ [Next]_vars =>
            [last' # last /\ refresh' /\ last # <<>> =>
                \/ last'[1].cause # last[1].cause
                \/ last[1].unsure \/ last'[1].unsure
                \/ ~last[1].dated \/ ~last'[1].dated]_vars
    <2> SUFFICES ASSUME RefreshInv, Next, last' # last, refresh', last # <<>>,
                        last'[1].cause = last[1].cause,
                        ~last[1].unsure, ~last'[1].unsure, last[1].dated, last'[1].dated
                 PROVE  FALSE
      OBVIOUS
    <2>1. Modulate
      BY DEF Next, Lose, Read, SetOffset, Skip, WaitForPhase0, Restart, Ended, vars
    <2>2. frame.fp = 3
      <3>1. frame.fp \in 0 .. 3  BY <2>1 DEF Modulate, RefreshInv, AtHand, FrameType
      <3>2. frame.fp # 0 /\ frame.fp # 1 /\ frame.fp # 2
        <4>1. CASE frame.fp = 0  BY <2>1, <4>1 DEF Modulate
        <4>2. CASE frame.fp = 1  BY <2>1, <4>2 DEF Modulate
        <4>3. CASE frame.fp = 2  BY <2>1, <4>3 DEF Modulate
        <4>4. QED  BY <4>1, <4>2, <4>3
      <3>3. QED  BY <3>1, <3>2
    <2>3. last' = pending /\ (pending[1].offset_changed \/ Irregular(pending[1]))
      BY <2>1, <2>2 DEF Modulate
    <2>4. pending # <<>>
      BY <2>1, <2>2 DEF Modulate, RefreshInv, Started
    <2>5. /\ FrameType(last[1]) /\ Exact(last[1])
          /\ FrameType(pending[1]) /\ Exact(pending[1])
      BY <2>3, <2>4 DEF RefreshInv, Dated
    <2>6. /\ pending[1].exact = last[1].exact + 4 * FrameTicks
          /\ ~pending[1].offset_changed
      BY <2>3, <2>4 DEF RefreshInv, PendingRegular, Regular
    <2>7. ~Irregular(pending[1])
      BY <2>5, <2>6, ExpectedIsExact DEF Irregular
    <2>8. QED  BY <2>3, <2>6, <2>7
  <1>2. QED  BY <1>1, RefreshAlways, PTL DEF Spec, NoFalseRefresh

-----------------------------------------------------------------------------
(* A decoder that lost frames unnoticed.                                   *)

Known == decoder.full_timestamp_received /\ decoder.time_secs = LastSec

(* The decoder collects whatever tells the time.                           *)
Enabled == fp \in {1, 2, 3} /\ group.kind = "time" => decoder.enableDecode

(* After k groups the update of the second is inhibited i more times, and  *)
(* the last frame, read before phase f, is p ticks into its second: an     *)
(* inhibition is left only if a second has begun not long ago.             *)
Recovering(k, i, p, f) ==
    \/ k = 0
    \/ k = 1 /\ (i <= 1 \/ p < f * FrameTicks)
    \/ k = 2 /\ (i = 0 \/ (i = 1 /\ p < (f + 4) * FrameTicks) \/ p < f * FrameTicks)
    \/ k = 3 /\ ((i <= 1 /\ p < (f + 4) * FrameTicks) \/ (i = 0 /\ p < (f + 8) * FrameTicks))
    \/ k = 4 /\ i = 0 /\ p < (f + 8) * FrameTicks

Recovers ==
    mux.source = "eti" /\ mux.tist /\ groups >= 0 =>
        /\ Linked /\ Collects /\ Enabled
        /\ Known \/ Recovering(groups, decoder.inhibit_second_update, decoder.time_pps, fp)

AgainInv == groups \in -1 .. 5 /\ Recovers /\ TrueAgain

(* Within a group, after a frame without or with the begin of a second.    *)
LEMMA WithinGroup ==
    ASSUME NEW k \in 0 .. 5, NEW i \in 0 .. 2, NEW f \in 0 .. 2,
           NEW p \in 0 .. SecondTicks - 1, NEW q \in 0 .. SecondTicks - 1, NEW h \in 0 .. 2,
           Recovering(k, i, p, f),
           \/ q = p + FrameTicks /\ h = i
           \/ q = p + FrameTicks - SecondTicks /\ h = 2
    PROVE  Recovering(k, h, q, f + 1)
  <1>1. /\ SecondTicks \in Nat /\ FrameTicks \in Nat /\ 0 < FrameTicks
        /\ 12 * FrameTicks <= SecondTicks
    BY TimestampAssumption, TwelveFramesInSecond
  <1>2. CASE f = 0  BY <1>1, <1>2 DEF Recovering
  <1>3. CASE f = 1  BY <1>1, <1>3 DEF Recovering
  <1>4. CASE f = 2  BY <1>1, <1>4 DEF Recovering
  <1>5. QED  BY <1>2, <1>3, <1>4

(* With the last frame of a group that told the time in vain.              *)
LEMMA EndOfGroup ==
    ASSUME NEW k \in 0 .. 5, NEW i \in 0 .. 2,
           NEW p \in 0 .. SecondTicks - 1, NEW q \in 0 .. SecondTicks - 1, NEW h \in 1 .. 2,
           Recovering(k, i, p, 3),
           \/ q = p + FrameTicks /\ h = i
           \/ q = p + FrameTicks - SecondTicks /\ h = 2
    PROVE  k < 4 /\ Recovering(k + 1, h - 1, q, 0)
  <1>1. /\ SecondTicks \in Nat /\ FrameTicks \in Nat /\ 0 < FrameTicks
        /\ 12 * FrameTicks <= SecondTicks
    BY TimestampAssumption, TwelveFramesInSecond
  <1>2. CASE k = 0  BY <1>1, <1>2 DEF Recovering
  <1>3. CASE k = 1  BY <1>1, <1>3 DEF Recovering
  <1>4. CASE k = 2  BY <1>1, <1>4 DEF Recovering
  <1>5. CASE k = 3  BY <1>1, <1>5 DEF Recovering
  <1>6. CASE k = 4 \/ k = 5  BY <1>1, <1>6 DEF Recovering
  <1>7. QED  BY <1>2, <1>3, <1>4, <1>5, <1>6

(* The state of the decoder after an ETI frame with a TIST.                *)
LEMMA ReadEtiRecovers ==
    ASSUME Types, GroupToldAtPhase0, groups \in -1 .. 5, Recovers, ReadEti, Advance(1),
           mux.tist, groups' = CountGroups, groups' >= 0
    PROVE  /\ decoder'.time_pps = pps /\ LastSec' = sec
           /\ Linked' /\ Collects' /\ Enabled'
           /\ (Known \/ Recovering(groups, decoder.inhibit_second_update, decoder.time_pps, fp))'
  <1>1. /\ SecondTicks \in Nat /\ FrameTicks \in Nat /\ 0 < FrameTicks
        /\ FrameTicks < SecondTicks
    BY TimestampAssumption
  <1>2. /\ decoder \in DecoderType /\ sec \in Int /\ pps \in 0 .. SecondTicks - 1
        /\ fp \in 0 .. 3 /\ mux.source = "eti"
        /\ group.kind \in {"time", "other", "unsynced"}
    BY DEF Types, ReadEti
  <1>3. CASE groups = -1
    <2>1. fp = 0 /\ groups' = 0  BY <1>3 DEF CountGroups
    <2>2. decoder'.time_pps = pps /\ LastSec' = sec /\ Linked' /\ Collects'
      BY <2>1, ReadEtiCollects
    <2>3. Enabled'
      <3>1. decoder'.enableDecode = (group.kind # "other")  BY <2>1, ReadEtiDecoder
      <3>2. group' = group  BY <2>1, AdvanceStream
      <3>3. QED  BY <3>1, <3>2 DEF Enabled
    <2>4. QED  BY <2>1, <2>2, <2>3 DEF Recovering
  <1>4. CASE groups # -1
    <2>1. /\ Linked /\ Collects /\ Enabled /\ groups \in 0 .. 5
          /\ Known \/ Recovering(groups, decoder.inhibit_second_update, decoder.time_pps, fp)
      BY <1>2, <1>4 DEF Recovers
    <2>2. /\ decoder'.time_pps = pps /\ LastSec' = sec /\ Linked' /\ Collects'
          /\ fp = 3 /\ decoder.enableDecode /\ Held = 0 =>
                (TmMon(group.second) * Day + decoder.tm_hour) * Minute + decoder.tm_sec = sec
      BY <2>1, ReadEtiCollects
    <2>3. /\ fp < 3 => fp' = fp + 1 /\ group' = group
          /\ fp = 3 => fp' = 0
      BY AdvanceStream
    <2>4. Enabled'
      <3>1. CASE fp = 0
        <4>1. decoder'.enableDecode = (group.kind # "other")  BY <3>1, ReadEtiDecoder
        <4>2. group.kind = "time" => decoder'.enableDecode  BY <4>1
        <4>3. group' = group  BY <2>3, <3>1
        <4>4. QED  BY <4>2, <4>3 DEF Enabled
      <3>2. CASE fp = 1
        <4>1. decoder'.enableDecode = (decoder.enableDecode /\ group.kind # "unsynced")
          BY <3>2, ReadEtiDecoder
        <4>2. group.kind = "time" => decoder.enableDecode  BY <2>1, <3>2 DEF Enabled
        <4>3. group.kind = "time" => decoder'.enableDecode  BY <4>1, <4>2
        <4>4. group' = group  BY <2>3, <3>2
        <4>5. QED  BY <4>3, <4>4 DEF Enabled
      <3>3. CASE fp = 2
        <4>1. decoder'.enableDecode = decoder.enableDecode  BY <3>3, ReadEtiDecoder
        <4>2. QED  BY <2>1, <2>3, <3>3, <4>1 DEF Enabled
      <3>4. CASE fp = 3  BY <2>3, <3>4 DEF Enabled
      <3>5. QED  BY <1>2, <3>1, <3>2, <3>3, <3>4
    <2>5. CASE Known
      <3>1. decoder'.full_timestamp_received /\ decoder'.time_secs = sec
        BY <2>1, <2>5, ReadEtiCountsOn DEF Known
      <3>2. QED  BY <2>2, <2>4, <3>1 DEF Known
    <2>6. CASE ~Known
      <3> DEFINE i == decoder.inhibit_second_update
                 p == decoder.time_pps
      <3>1. /\ Recovering(groups, i, p, fp) /\ i \in 0 .. 2 /\ Held \in 0 .. 2
            /\ p \in 0 .. SecondTicks - 1
        BY <1>2, <2>1, <2>6, ReadEtiDecoder DEF DecoderType, Linked
      <3>2. \/ pps = p + FrameTicks /\ Held = i
            \/ pps = p + FrameTicks - SecondTicks /\ Held = 2
        <4>1. Passed <=> p > pps  BY DEF Passed, Tist
        <4>2. p + FrameTicks = pps \/ p + FrameTicks = pps + SecondTicks
          BY <2>1 DEF Linked
        <4>3. p \in Int /\ pps \in Int  BY <1>1, <1>2, <3>1
        <4>4. CASE p + FrameTicks = pps
          <5>1. ~(p > pps)  BY <1>1, <4>3, <4>4
          <5>2. ~Passed  BY <4>1, <5>1
          <5>3. QED  BY <4>4, <5>2 DEF Held
        <4>5. CASE p + FrameTicks = pps + SecondTicks
          <5>1. p > pps /\ pps = p + FrameTicks - SecondTicks  BY <1>1, <4>3, <4>5
          <5>2. Passed  BY <4>1, <5>1
          <5>3. QED  BY <5>1, <5>2 DEF Held
        <4>6. QED  BY <4>2, <4>4, <4>5
      <3> HIDE DEF i, p
      <3>3. CASE fp # 3
        <4>1. groups' = groups /\ fp \in 0 .. 2 /\ fp' = fp + 1
          BY <1>2, <1>4, <2>3, <3>3 DEF CountGroups
        <4>2. decoder'.inhibit_second_update = Held  BY <3>3, ReadEtiDecoder
        <4>3. Recovering(groups, Held, pps, fp + 1)
          BY <1>2, <2>1, <3>1, <3>2, <4>1, WithinGroup
        <4>4. QED  BY <2>2, <2>4, <4>1, <4>2, <4>3
      <3>4. CASE fp = 3 /\ group.kind # "time"
        <4>1. groups' = 0  BY <1>4, <2>1, <3>4 DEF CountGroups
        <4>2. QED  BY <2>2, <2>4, <4>1 DEF Recovering
      <3>5. CASE fp = 3 /\ group.kind = "time" /\ Held = 0
        <4>1. decoder.enableDecode  BY <2>1, <3>5 DEF Enabled
        <4>2. /\ decoder'.full_timestamp_received = TRUE
              /\ decoder'.time_secs
                   = (TmMon(group.second) * Day + decoder.tm_hour) * Minute + decoder.tm_sec
          <5>1. ~(Held > 0)  BY <3>5
          <5>2. \/ /\ decoder'.time_secs
                        = (TmMon(group.second) * Day + decoder.tm_hour) * Minute + decoder.tm_sec
                   /\ decoder'.full_timestamp_received = TRUE
                \/ decoder.enableDecode => Held > 0
            BY <3>5, ReadEtiDecoder
          <5>3. QED  BY <4>1, <5>1, <5>2
        <4>3. decoder'.time_secs = sec  BY <2>2, <3>5, <4>1, <4>2
        <4>4. QED  BY <2>2, <2>4, <4>2, <4>3 DEF Known
      <3>6. CASE fp = 3 /\ group.kind = "time" /\ Held # 0
        <4>1. decoder.enableDecode  BY <2>1, <3>6 DEF Enabled
        <4>2. decoder'.inhibit_second_update = Held - 1 /\ fp' = 0
          BY <2>3, <3>6, <4>1, ReadEtiDecoder
        <4>3. Held \in 1 .. 2  BY <3>1, <3>6
        <4>4. groups < 4 /\ Recovering(groups + 1, Held - 1, pps, 0)
          BY <1>2, <2>1, <3>1, <3>2, <3>6, <4>3, EndOfGroup
        <4>5. groups' = groups + 1  BY <2>1, <3>6, <4>4 DEF CountGroups
        <4>6. QED  BY <2>2, <2>4, <4>2, <4>4, <4>5
      <3>7. QED  BY <1>2, <3>3, <3>4, <3>5, <3>6
    <2>7. QED  BY <2>5, <2>6
  <1>5. QED  BY <1>3, <1>4

LEMMA ReadAgainInv == TimeInv /\ AgainInv /\ Read => AgainInv'
  <1> SUFFICES ASSUME TimeInv, AgainInv, Read PROVE AgainInv'
    OBVIOUS
  <1>1. /\ Types /\ GroupToldAtPhase0 /\ groups \in -1 .. 5 /\ Recovers
        /\ Advance(1) /\ groups' = CountGroups
        /\ UNCHANGED <<mux, timestamp_offset>>
    BY DEF TimeInv, AgainInv, Read
  <1>2. groups' \in -1 .. 5  BY <1>1 DEF CountGroups
  <1>3. mux.source = "eti" /\ mux.tist /\ groups' >= 0 =>
            /\ decoder'.time_pps = pps /\ LastSec' = sec
            /\ Linked' /\ Collects' /\ Enabled'
            /\ (Known \/ Recovering(groups, decoder.inhibit_second_update, decoder.time_pps, fp))'
    <2>1. mux.source = "eti" => ReadEti  BY DEF Read, ReadEdi
    <2>2. QED  BY <1>1, <2>1, ReadEtiRecovers
  <1>4. Recovers'  BY <1>1, <1>3 DEF Recovers
  (* The time handed on.                                                   *)
  <1>5. frame'.dated /\ groups' = 5 =>
            /\ decoder'.full_timestamp_received
            /\ decoder'.time_secs = sec /\ decoder'.time_pps = pps
    <2>0. /\ mux.source = "eti" => frame'.dated = mux.tist
          /\ mux.source # "eti" => frame'.dated = (decoder'.time_pps # NullTist)
      BY DEF Read
    <2>1. CASE mux.source = "eti"
      <3> SUFFICES ASSUME mux.tist, groups' = 5
                   PROVE  /\ decoder'.full_timestamp_received
                          /\ decoder'.time_secs = sec /\ decoder'.time_pps = pps
        BY <2>0, <2>1
      <3>1. ~Recovering(5, decoder'.inhibit_second_update, decoder'.time_pps, fp')
        BY DEF Recovering
      <3>2. decoder'.time_pps = pps /\ LastSec' = sec /\ Known'
        BY <1>3, <2>1, <3>1
      <3>3. QED  BY <3>2 DEF Known
    <2>2. CASE mux.source # "eti"
      <3>1. ReadEdi  BY <2>2 DEF Read, ReadEti
      <3>2. QED  BY <1>1, <2>0, <2>2, <3>1, ReadEdiIsExact
    <2>3. QED  BY <2>1, <2>2
  <1>6. TrueAgain'
    <2> SUFFICES ASSUME frame'.dated, groups' = 5 PROVE frame'.ts.valid /\ Exact(frame)'
      BY DEF TrueAgain
    <2>1. decoder' \in DecoderType
      <3>1. CASE ReadEti  BY <1>1, <3>1, ReadEtiDecoder
      <3>2. CASE ReadEdi  BY <1>1, <3>2, ReadEdiIsExact
      <3>3. QED  BY <3>1, <3>2 DEF Read
    <2>2. /\ GetTimestamp.valid = decoder'.full_timestamp_received
          /\ GetTimestamp.pps \in 0 .. SecondTicks - 1
          /\ GetTimestamp.sec * SecondTicks + GetTimestamp.pps
               = decoder'.time_secs * SecondTicks + decoder'.time_pps + timestamp_offset
      BY <1>1, <2>1, GetTimestampIsExact DEF Types
    <2>3. frame'.ts = GetTimestamp /\ frame'.exact = sec * SecondTicks + pps + timestamp_offset
      BY DEF Read
    <2>4. QED  BY <1>5, <2>2, <2>3 DEF Exact
  <1>7. QED  BY <1>2, <1>4, <1>6 DEF AgainInv

(* The flag does not tell the time.                                        *)
LEMMA FlagLeavesGroups ==
    ASSUME TimeInv, AgainInv, NEW b \in BOOLEAN, decoder' = [decoder EXCEPT !.offset_changed = b],
           UNCHANGED <<mux, sec, pps, fp, group, frame, groups>>
    PROVE  AgainInv'
  <1>1. decoder \in DecoderType  BY DEF TimeInv, Types
  <1>2. /\ decoder'.time_pps = decoder.time_pps /\ decoder'.time_secs = decoder.time_secs
        /\ decoder'.enableDecode = decoder.enableDecode
        /\ decoder'.inhibit_second_update = decoder.inhibit_second_update
        /\ decoder'.full_timestamp_received = decoder.full_timestamp_received
        /\ decoder'.tm_sec = decoder.tm_sec /\ decoder'.tm_hour = decoder.tm_hour
    BY <1>1 DEF DecoderType
  <1>3. UNCHANGED <<mux, sec, pps, fp, group, frame, groups>>
    OBVIOUS
  <1>4. LastSec' = LastSec  BY <1>2, <1>3 DEF LastSec
  <1>5. (Linked => Linked') /\ (Enabled => Enabled')  BY <1>2, <1>3 DEF Linked, Enabled
  <1>6. (Collects => Collects') /\ (Known => Known')
    BY <1>2, <1>3, <1>4 DEF Collects, Known, TmSec, TmHour
  <1>7. Recovers'  BY <1>2, <1>3, <1>5, <1>6 DEF AgainInv, Recovers, Recovering
  <1>8. TrueAgain'  BY <1>3 DEF AgainInv, TrueAgain, Exact
  <1>9. QED  BY <1>3, <1>7, <1>8 DEF AgainInv

(* A loss that goes unnoticed, or a new decoder: nothing is known.         *)
LEMMA NothingTold ==
    ASSUME AgainInv, frame' = frame, groups' = -1
    PROVE  AgainInv'
  <1>1. Recovers' /\ TrueAgain'  BY DEF Recovers, TrueAgain
  <1>2. QED  BY <1>1 DEF AgainInv

(* src/TimestampDecoder.cpp: frames lost unnoticed may mix two times, and  *)
(* five groups that tell the time are enough to be right again, if three   *)
(* groups take less than a second: the two groups that are held back when  *)
(* a second begins do not keep it wrong for ever.                          *)
THEOREM TimeIsTrueAgain == Spec => []TrueAgain
  <1>1. Init => AgainInv  BY DEF Init, AgainInv, Recovers, TrueAgain
  <1>2. TimeInv /\ AgainInv /\ [Next]_vars => AgainInv'
    <2> SUFFICES ASSUME TimeInv, AgainInv, [Next]_vars PROVE AgainInv'
      OBVIOUS
    <2>1. CASE Lose  BY <2>1, NothingTold DEF Lose
    <2>2. CASE Read  BY <2>2, ReadAgainInv
    <2>3. CASE SetOffset
      <3>1. PICK b \in BOOLEAN : decoder' = [decoder EXCEPT !.offset_changed = b]
        BY <2>3, OffsetIsFlaggedOrNot
      <3>2. QED  BY <2>3, <3>1, FlagLeavesGroups DEF SetOffset
    <2>4. CASE Skip  BY <2>4, FlagLeavesGroups DEF Skip, FlagCleared
    <2>5. CASE WaitForPhase0  BY <2>5, FlagLeavesGroups DEF WaitForPhase0, FlagCleared
    <2>6. CASE Restart
      <3>1. CASE mux.source = "eti"  BY <2>6, <3>1, NothingTold DEF Restart
      <3>2. CASE mux.source # "eti"
        BY <2>6, <3>2, FlagLeavesGroups DEF Restart, FlagCleared
      <3>3. QED  BY <3>1, <3>2
    <2>7. CASE Modulate  BY <2>7, FlagLeavesGroups DEF Modulate, FlagCleared
    <2>8. CASE Ended \/ UNCHANGED vars
      <3>1. UNCHANGED <<mux, sec, pps, fp, group, decoder, frame, groups>>
        BY <2>8 DEF Ended, vars
      <3>2. decoder' = [decoder EXCEPT !.offset_changed = decoder.offset_changed]
            /\ decoder.offset_changed \in BOOLEAN
        BY <3>1 DEF TimeInv, Types, DecoderType
      <3>3. QED  BY <3>1, <3>2, FlagLeavesGroups
    <2>9. QED  BY <2>1, <2>2, <2>3, <2>4, <2>5, <2>6, <2>7, <2>8 DEF Next
  <1>3. AgainInv => TrueAgain  BY DEF AgainInv
  <1>4. QED  BY <1>1, <1>2, <1>3, TimeAlways, PTL DEF Spec
=============================================================================
