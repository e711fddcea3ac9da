--------------------------- MODULE MainThreadProofs ---------------------------
(***************************************************************************)
(* Proofs of safety properties that the run MCMainThread checks: what the  *)
(* loop of the main thread gives to the flowgraph, for every modulus of    *)
(* the frame count, every number of losses below it and every file; what   *)
(* the flowgraph gives to the output, for any number of pipelined elements *)
(* and frames; one such element, for any number of calls; what the remote  *)
(* control finds, for any number of flowgraphs; and what is read from an   *)
(* input file, for any number of frames and rounds.  Each part is treated  *)
(* alone, as in DeviceProofs.  That calls return and threads end is left   *)
(* to TLC.                                                                 *)
(***************************************************************************)
EXTENDS MCMainThread, Integers, SequenceTheorems, FiniteSetTheorems, TLAPS

-----------------------------------------------------------------------------
(* Arithmetic.                                                             *)

(* Division with remainder, for a divisor of any size.                     *)
LEMMA DivMod ==
    ASSUME NEW x \in Int, NEW n \in Nat, n > 0
    PROVE  /\ x \div n \in Int /\ x % n \in 0 .. n - 1
           /\ x = (x \div n) * n + (x % n)
  OBVIOUS

(* There is no other one.                                                  *)
LEMMA DivUnique ==
    ASSUME NEW n \in Nat, n > 0, NEW x \in Int, NEW q \in Int, NEW r \in 0 .. n - 1,
           x = q * n + r
    PROVE  x % n = r
<1>1. x \div n \in Int /\ x % n \in 0 .. n - 1 /\ x = (x \div n) * n + (x % n)
  BY DivMod
<1>2. ((x \div n) - q) * n = r - (x % n)
  BY <1>1
<1>3. (x \div n) - q < 1
  <2>1. ASSUME (x \div n) - q >= 1 PROVE FALSE
    <3>1. ((x \div n) - q) * n >= n  BY <1>1, <2>1
    <3>2. QED  BY <1>1, <1>2, <3>1
  <2>2. QED  BY <1>1, <2>1
<1>4. (x \div n) - q > -1
  <2>1. ASSUME (x \div n) - q <= -1 PROVE FALSE
    <3>1. ((x \div n) - q) * n <= -n  BY <1>1, <2>1
    <3>2. QED  BY <1>1, <1>2, <3>1
  <2>2. QED  BY <1>1, <2>1
<1>5. QED
  BY <1>1, <1>2, <1>3, <1>4

(* Multiples of the divisor do not count.                                  *)
LEMMA PlusMultiple ==
    ASSUME NEW n \in Nat, n > 0, NEW x \in Int, NEW c \in Int
    PROVE  (x + c * n) % n = x % n
<1>1. x \div n \in Int /\ x % n \in 0 .. n - 1 /\ x = (x \div n) * n + (x % n)
  BY DivMod
<1>2. c * n \in Int /\ ((x \div n) + c) * n = (x \div n) * n + c * n
  BY <1>1
<1>3. x + c * n = ((x \div n) + c) * n + (x % n)
  BY <1>1, <1>2
<1>4. x + c * n \in Int /\ (x \div n) + c \in Int
  BY <1>1, <1>2
<1>5. QED
  BY <1>1, <1>3, <1>4, DivUnique

(* Counting on from a remainder.                                           *)
LEMMA CountOn ==
    ASSUME NEW n \in Nat, n > 0, NEW x \in Int, NEW k \in Int
    PROVE  ((x % n) + k) % n = (x + k) % n
<1>1. PICK q \in Int, r \in Int : r = x % n /\ x = q * n + r
  BY DivMod
<1>2. r + k \in Int /\ x + k = (r + k) + q * n
  BY <1>1
<1>3. ((r + k) + q * n) % n = (r + k) % n
  BY <1>1, <1>2, PlusMultiple
<1>4. QED
  BY <1>1, <1>2, <1>3

(* The count of a frame, whose number is taken modulo a multiple.          *)
LEMMA CountOfNumber ==
    ASSUME NEW n \in Nat, n > 0, NEW c \in Nat, c > 0, NEW x \in Int
    PROVE  (x % (c * n)) % n = x % n
<1>1. c * n \in Nat /\ c * n > 0
  OBVIOUS
<1>2. PICK q \in Int, r \in Int : r = x % (c * n) /\ x = q * (c * n) + r
  BY <1>1, DivMod
<1>3. q * c \in Int /\ x = r + (q * c) * n
  BY <1>2
<1>4. (r + (q * c) * n) % n = r % n
  BY <1>2, <1>3, PlusMultiple
<1>5. QED
  BY <1>2, <1>3, <1>4

(* Two numbers less than a modulus apart with the same count are the same. *)
LEMMA LessThanModulus ==
    ASSUME NEW n \in Nat, n > 0, NEW x \in Int, NEW k \in 0 .. n - 1, (x + k) % n = x % n
    PROVE  k = 0
<1>1. PICK p \in Int, r \in Int : r = x % n /\ x = p * n + r
  BY DivMod
<1>2. x + k \in Int
  OBVIOUS
<1>3. PICK q \in Int : x + k = q * n + r
  BY <1>1, <1>2, DivMod
<1>4. q - p \in Int /\ k = (q - p) * n
  BY <1>1, <1>3
<1>5. k = (q - p) * n + 0 /\ k = 0 * n + k /\ 0 \in 0 .. n - 1
  BY <1>4
<1>6. k % n = 0 /\ k % n = k
  BY <1>4, <1>5, DivUnique
<1>7. QED
  BY <1>6
-----------------------------------------------------------------------------
(* src/DabMod.cpp: the loop of the main thread and its input.              *)

(* The loop takes its own steps only.                                      *)
LEMMA LoopIsAlone == MainSpec => Loop!Init /\ [][Loop!Next]_loopVars
<1>1. MainInit => Loop!Init
  BY DEF MainInit
<1>2. [MainNext \/ MayStop]_<<part, vars, graphVars, loopVars, rcVars, fileVars>>
        => [Loop!Next]_loopVars
  BY DEF MainNext, MayStop, Choose
<1>3. QED
  BY <1>1, <1>2, PTL DEF MainSpec

(* There is a frame at hand, read or kept by the EdiReader.                *)
AtHand == loop = "frame" \/ frameReady

InRun == loop \in {"input", "frame"} /\ modulated # Loop!None

FromFile == settings.kind = "file"

LoopTypes == /\ settings \in Settings /\ source \in Loop!Frames
             /\ frame \in Loop!Frames \cup {Loop!None} /\ (AtHand => frame \in Loop!Frames)
             /\ frameReady \in BOOLEAN /\ (frameReady => settings.kind = "edi")
             /\ missed \in 0 .. MaxMissed /\ modulated \in Loop!Frames \cup {Loop!None}
             /\ last_eti_fct \in Int /\ pos \in 1 .. Len(FileFrames) + 1

(* The flowgraph knows the count of the frame it modulated last.           *)
CountIsKept ==
    loop \in {"input", "frame"} =>
        /\ modulated = Loop!None <=> last_eti_fct = Loop!None
        /\ modulated # Loop!None => last_eti_fct = Loop!Fct(modulated)

(* The multiplexer goes on after the frame at hand, and what comes next is *)
(* so many frames after the one modulated last as are missed.              *)
SourceFollows ==
    ~FromFile => /\ AtHand => source = (frame + 1) % Cycle
                 /\ InRun => (IF AtHand THEN frame ELSE source) = (modulated + 1 + missed) % Cycle

(* So it is in a file; its reader stands behind the frame read last.       *)
Away == IF loop = "frame" THEN missed + 1 ELSE missed

ReadFrom(i) == /\ FileFrames[i] = modulated /\ pos = LaterInFile(i, Away) + 1
               /\ settings.loop \/ i + Away <= Len(FileFrames)

FileFollows ==
    FromFile => /\ loop = "frame" => pos > 1 /\ frame = FileFrames[pos - 1]
                /\ InRun => \E i \in 1 .. Len(FileFrames) : ReadFrom(i)

LoopInv == LoopTypes /\ CountIsKept /\ SourceFollows /\ FileFollows

(* The first flowgraph has modulated nothing.                              *)
LEMMA LoopInitially == ASSUME Loop!Init PROVE LoopInv
<1>1. 0 \in 0 .. MaxMissed /\ Loop!None \in Int /\ 1 \in 1 .. Len(FileFrames) + 1
  BY LoopSettings DEF Loop!None
<1>2. ~AtHand
  BY DEF Loop!Init, AtHand
<1>3. QED
  BY <1>1, <1>2 DEF Loop!Init, LoopInv, LoopTypes, CountIsKept, SourceFollows, FileFollows, InRun

(* A frame that arrives is as far from the one modulated last as are       *)
(* missed.                                                                 *)
LEMMA ArrivalFits ==
    ASSUME LoopInv, loop = "input", ~frameReady, ~FromFile,
           NEW f \in Loop!Frames, Loop!Arrival(f)
    PROVE  /\ missed' \in 0 .. MaxMissed /\ source' \in Loop!Frames
           /\ source' = (f + 1) % Cycle
           /\ modulated # Loop!None => f = (modulated + 1 + missed') % Cycle
<1>1. PICK k \in 0 .. MaxMissed - missed : f = (source + k) % Cycle /\ Loop!Miss(k)
  BY DEF Loop!Arrival
<1>2. Cycle \in Nat /\ Cycle > 0
  BY LoopSettings
<1>3. missed' \in 0 .. MaxMissed
  BY <1>1, LoopSettings DEF Loop!Miss, LoopInv, LoopTypes
<1>4. source' \in Loop!Frames /\ source' = (f + 1) % Cycle
  <2>1. source' = (f + 1) % Cycle /\ f + 1 \in Int
    BY <1>2 DEF Loop!Arrival, Loop!Frames
  <2>2. QED
    BY <1>2, <2>1, DivMod DEF Loop!Frames
<1>5. ASSUME modulated # Loop!None PROVE f = (modulated + 1 + missed') % Cycle
  <2>1. missed' = missed + k /\ source = (modulated + 1 + missed) % Cycle
    BY <1>1, <1>5 DEF Loop!Miss, LoopInv, CountIsKept, SourceFollows, InRun, AtHand
  <2>2. modulated + 1 + missed \in Int /\ k \in Int /\ missed \in Int /\ modulated \in Int
    BY <1>1, <1>2, <1>5, LoopSettings DEF LoopInv, LoopTypes, Loop!Frames
  <2>3. f = ((modulated + 1 + missed) + k) % Cycle
    BY <1>1, <1>2, <2>1, <2>2, CountOn
  <2>4. (modulated + 1 + missed) + k = modulated + 1 + (missed + k)
    BY <2>2
  <2>5. QED
    BY <2>1, <2>3, <2>4
<1>6. QED
  BY <1>3, <1>4, <1>5

(* Places in a file, one further each time and from the end to the         *)
(* beginning.                                                              *)
LEMMA LaterPlaces ==
    ASSUME NEW i \in 1 .. Len(FileFrames), NEW k \in Nat
    PROVE  /\ LaterInFile(i, k) \in 1 .. Len(FileFrames)
           /\ LaterInFile(i, k + 1) = IF LaterInFile(i, k) < Len(FileFrames)
                                      THEN LaterInFile(i, k) + 1 ELSE 1
           /\ i + k <= Len(FileFrames) => LaterInFile(i, k) = i + k
<1> DEFINE n == Len(FileFrames)
           x == i - 1 + k
<1>1. n \in Nat /\ n > 0 /\ x \in Int /\ i \in Int
  BY LoopSettings
<1> HIDE DEF n, x
<1>2. x \div n \in Int /\ x % n \in 0 .. n - 1 /\ x = (x \div n) * n + (x % n)
  BY <1>1, DivMod
<1>3. LaterInFile(i, k) = (x % n) + 1
  BY DEF LaterInFile, n, x
<1>4. LaterInFile(i, k + 1) = ((x + 1) % n) + 1
  <2>1. i - 1 + (k + 1) = x + 1
    BY DEF x
  <2>2. QED
    BY <2>1 DEF LaterInFile, n
<1>5. (x + 1) % n = IF x % n < n - 1 THEN (x % n) + 1 ELSE 0
  <2>1. CASE x % n < n - 1
    <3>1. x + 1 = (x \div n) * n + ((x % n) + 1) /\ (x % n) + 1 \in 0 .. n - 1 /\ x + 1 \in Int
      BY <1>1, <1>2, <2>1
    <3>2. QED
      BY <1>1, <1>2, <2>1, <3>1, DivUnique
  <2>2. CASE ~(x % n < n - 1)
    <3>1. x + 1 = ((x \div n) + 1) * n + 0
      BY <1>1, <1>2, <2>2
    <3>2. (x \div n) + 1 \in Int /\ 0 \in 0 .. n - 1 /\ x + 1 \in Int
      BY <1>1, <1>2
    <3>3. QED
      BY <1>1, <2>2, <3>1, <3>2, DivUnique
  <2>3. QED
    BY <2>1, <2>2
<1>6. ASSUME i + k <= n PROVE x % n = x
  <2>1. x = 0 * n + x /\ x \in 0 .. n - 1 /\ 0 \in Int
    BY <1>1, <1>6 DEF x
  <2>2. QED
    BY <1>1, <2>1, DivUnique
<1>7. x + 1 = i + k
  BY <1>1 DEF x
<1>8. LaterInFile(i, k) \in 1 .. n
  BY <1>1, <1>2, <1>3
<1>9. LaterInFile(i, k + 1) = IF LaterInFile(i, k) < n THEN LaterInFile(i, k) + 1 ELSE 1
  BY <1>1, <1>2, <1>3, <1>4, <1>5
<1>10. i + k <= n => LaterInFile(i, k) = i + k
  BY <1>3, <1>6, <1>7
<1>11. QED
  BY <1>8, <1>9, <1>10 DEF n

(* The frame that is read from the file is one further, whether or not it  *)
(* is rewound.                                                             *)
LEMMA ReadFileKeeps == ASSUME LoopInv, Loop!ReadFile PROVE LoopInv'
<1>1. /\ loop = "input" /\ FromFile /\ LoopTypes /\ CountIsKept /\ FileFollows
      /\ UNCHANGED <<settings, last_eti_fct, frameReady, source, missed, modulated>>
  BY DEF Loop!ReadFile, Loop!Reading, LoopInv, FromFile
<1>2. FileFrames \in Seq(Loop!Frames) /\ Len(FileFrames) \in Nat /\ Len(FileFrames) > 0
  BY LoopSettings
<1>3. ~frameReady
  BY <1>1 DEF LoopTypes, FromFile
<1>4. missed \in Nat /\ pos \in Nat
  BY <1>1, LoopSettings DEF LoopTypes
<1>5. ASSUME NEW p \in 1 .. Len(FileFrames), frame' = FileFrames[p], pos' = p + 1, loop' = "frame",
             modulated # Loop!None =>
                \E i \in 1 .. Len(FileFrames) :
                   /\ FileFrames[i] = modulated /\ p = LaterInFile(i, missed + 1)
                   /\ settings.loop \/ i + (missed + 1) <= Len(FileFrames)
      PROVE  LoopInv'
  <2>1. frame' \in Loop!Frames /\ pos' \in 1 .. Len(FileFrames) + 1 /\ pos' > 1 /\ pos' - 1 = p
    BY <1>2, <1>5
  <2>2. LoopTypes'
    BY <1>1, <1>3, <1>5, <2>1 DEF LoopTypes
  <2>3. CountIsKept' /\ SourceFollows'
    BY <1>1, <1>5 DEF CountIsKept, SourceFollows, FromFile
  <2>4. Away' = missed + 1
    BY <1>1, <1>5 DEF Away
  <2>5. \A i \in 1 .. Len(FileFrames) :
           ReadFrom(i)' <=> /\ FileFrames[i] = modulated /\ p + 1 = LaterInFile(i, missed + 1) + 1
                            /\ settings.loop \/ i + (missed + 1) <= Len(FileFrames)
    BY <1>1, <1>5, <2>4 DEF ReadFrom
  <2>6. FileFollows'
    BY <1>1, <1>5, <2>1, <2>5 DEF FileFollows, InRun
  <2>7. QED
    BY <2>2, <2>3, <2>6 DEF LoopInv
<1>6. ASSUME modulated # Loop!None
      PROVE  \E i \in 1 .. Len(FileFrames) :
                /\ FileFrames[i] = modulated /\ pos = LaterInFile(i, missed) + 1
                /\ settings.loop \/ i + missed <= Len(FileFrames)
  BY <1>1, <1>6 DEF FileFollows, InRun, ReadFrom, Away
<1>7. CASE pos <= Len(FileFrames) /\ Loop!GotFrame(FileFrames[pos]) /\ pos' = pos + 1
  <2>1. ASSUME modulated # Loop!None
        PROVE  \E i \in 1 .. Len(FileFrames) :
                  /\ FileFrames[i] = modulated /\ pos = LaterInFile(i, missed + 1)
                  /\ settings.loop \/ i + (missed + 1) <= Len(FileFrames)
    <3>1. PICK i \in 1 .. Len(FileFrames) :
                  /\ FileFrames[i] = modulated /\ pos = LaterInFile(i, missed) + 1
                  /\ settings.loop \/ i + missed <= Len(FileFrames)
      BY <1>6, <2>1
    <3>2. /\ LaterInFile(i, missed) \in 1 .. Len(FileFrames)
          /\ i + missed <= Len(FileFrames) => LaterInFile(i, missed) = i + missed
      BY <1>4, LaterPlaces
    <3>3. LaterInFile(i, missed) < Len(FileFrames)
      BY <1>2, <1>7, <3>1, <3>2
    <3>4. pos = LaterInFile(i, missed + 1)
      BY <1>4, <3>1, <3>3, LaterPlaces
    <3>5. i + missed <= Len(FileFrames) => i + (missed + 1) <= Len(FileFrames)
      BY <1>2, <1>4, <3>2, <3>3
    <3>6. QED
      BY <3>1, <3>4, <3>5
  <2>2. pos \in 1 .. Len(FileFrames)
    BY <1>1, <1>2, <1>7 DEF LoopTypes
  <2>3. QED
    BY <1>5, <1>7, <2>1, <2>2 DEF Loop!GotFrame
<1>8. CASE pos > Len(FileFrames) /\ settings.loop /\ Loop!GotFrame(FileFrames[1]) /\ pos' = 2
  <2>1. ASSUME modulated # Loop!None
        PROVE  \E i \in 1 .. Len(FileFrames) :
                  /\ FileFrames[i] = modulated /\ 1 = LaterInFile(i, missed + 1)
                  /\ settings.loop \/ i + (missed + 1) <= Len(FileFrames)
    <3>1. PICK i \in 1 .. Len(FileFrames) :
                  FileFrames[i] = modulated /\ pos = LaterInFile(i, missed) + 1
      BY <1>6, <2>1
    <3>2. /\ LaterInFile(i, missed) \in 1 .. Len(FileFrames)
          /\ ~(LaterInFile(i, missed) < Len(FileFrames))
      BY <1>2, <1>4, <1>8, <3>1, LaterPlaces
    <3>3. QED
      BY <1>4, <1>8, <3>1, <3>2, LaterPlaces
  <2>2. 1 \in 1 .. Len(FileFrames) /\ 2 = 1 + 1
    BY <1>2
  <2>3. QED
    BY <1>5, <1>8, <2>1, <2>2 DEF Loop!GotFrame
<1>9. CASE loop' = "returned" /\ UNCHANGED <<frame, pos>>
  BY <1>1, <1>3, <1>9
     DEF LoopInv, LoopTypes, CountIsKept, SourceFollows, FileFollows, InRun, AtHand, FromFile
<1>10. QED
  BY <1>7, <1>8, <1>9 DEF Loop!ReadFile, Loop!Return

(* What arrives from the network, or nothing.                              *)
LEMMA ReadNetworkKeeps == ASSUME LoopInv, Loop!ReadTcp \/ Loop!ReadEdi PROVE LoopInv'
<1>1. /\ loop = "input" /\ ~FromFile /\ LoopTypes /\ CountIsKept /\ SourceFollows
      /\ UNCHANGED <<settings, last_eti_fct, pos, modulated>>
  BY DEF Loop!ReadTcp, Loop!ReadEdi, Loop!Reading, LoopInv, FromFile
<1>2. FromFile' = FromFile
  BY <1>1 DEF FromFile
<1>3. ASSUME ~frameReady, NEW f \in Loop!Frames, Loop!Arrival(f), frame' = f,
             frameReady' \in BOOLEAN,
             \/ loop' = "frame" /\ ~frameReady'
             \/ loop' = "input" /\ frameReady' /\ settings.kind = "edi"
      PROVE  LoopInv'
  <2>1. /\ missed' \in 0 .. MaxMissed /\ source' \in Loop!Frames /\ source' = (f + 1) % Cycle
        /\ modulated # Loop!None => f = (modulated + 1 + missed') % Cycle
    BY <1>1, <1>3, ArrivalFits
  <2>2. AtHand'
    BY <1>3 DEF AtHand
  <2>3. LoopTypes'
    BY <1>1, <1>3, <2>1 DEF LoopTypes
  <2>4. CountIsKept'
    BY <1>1, <1>3 DEF CountIsKept, Loop!Fct
  <2>5. SourceFollows' /\ FileFollows'
    BY <1>1, <1>2, <1>3, <2>1, <2>2 DEF SourceFollows, FileFollows, InRun
  <2>6. QED
    BY <2>3, <2>4, <2>5 DEF LoopInv
<1>4. CASE /\ UNCHANGED <<frame, source, missed>> /\ frameReady' = frameReady
           /\ loop' \in {"input", "returned"} \/ (loop' = "frame" /\ frameReady)
  BY <1>1, <1>2, <1>4
     DEF LoopInv, LoopTypes, CountIsKept, SourceFollows, FileFollows, InRun, AtHand, Loop!Fct
<1>5. CASE Loop!ReadTcp
  <2>1. ~frameReady /\ frameReady' = frameReady /\ frameReady' \in BOOLEAN
    BY <1>1, <1>5 DEF LoopTypes, Loop!ReadTcp, Loop!Reading
  <2>2. QED
    <3>1. ASSUME NEW f \in Loop!Frames, Loop!Arrival(f), Loop!GotFrame(f) PROVE LoopInv'
      BY <1>3, <2>1, <3>1 DEF Loop!GotFrame
    <3>2. QED
      BY <1>1, <1>4, <1>5, <2>1, <3>1 DEF Loop!ReadTcp, Loop!Return
<1>6. CASE Loop!ReadEdi
  <2>1. settings.kind = "edi"
    BY <1>6 DEF Loop!ReadEdi, Loop!Reading
  <2>2. CASE frameReady /\ Loop!GotFrame(frame) /\ UNCHANGED <<running, frameReady, source, missed>>
    BY <1>4, <2>2 DEF Loop!GotFrame
  <2>3. QED
    BY <1>1, <1>3, <1>4, <1>6, <2>1, <2>2 DEF Loop!ReadEdi, Loop!Return
<1>7. QED
  BY <1>5, <1>6

(* A frame is skipped: what comes next is one more away.                   *)
LEMMA SkipKeeps == ASSUME LoopInv, Loop!SkipBadTimestamp PROVE LoopInv'
<1>1. /\ loop = "frame" /\ loop' = "input" /\ frameReady' = FALSE /\ missed < MaxMissed
      /\ missed' = IF last_eti_fct = Loop!None THEN 0 ELSE missed + 1
      /\ UNCHANGED <<settings, frame, source, last_eti_fct, modulated, pos>>
  BY DEF Loop!SkipBadTimestamp, Loop!Miss, Loop!NextRound, Loop!Unchanged
<1>2. Cycle \in Nat /\ Cycle > 0 /\ MaxMissed \in Nat
  BY LoopSettings
<1>3. LoopTypes /\ CountIsKept /\ SourceFollows /\ FileFollows /\ AtHand /\ ~AtHand'
  BY <1>1 DEF LoopInv, AtHand
<1>4. missed' \in 0 .. MaxMissed /\ missed \in Int
  BY <1>1, <1>2, <1>3 DEF LoopTypes
<1>5. LoopTypes' /\ CountIsKept'
  BY <1>1, <1>3, <1>4 DEF LoopTypes, CountIsKept, Loop!Fct
<1>6. ASSUME modulated # Loop!None PROVE missed' = missed + 1
  BY <1>1, <1>3, <1>6 DEF CountIsKept
<1>7. SourceFollows'
  <2>1. SUFFICES ASSUME ~FromFile, modulated # Loop!None
                 PROVE source = (modulated + 1 + missed') % Cycle
    BY <1>1, <1>3 DEF SourceFollows, FromFile, InRun
  <2>2. frame = (modulated + 1 + missed) % Cycle /\ source = (frame + 1) % Cycle
    BY <1>1, <1>3, <2>1 DEF SourceFollows, InRun
  <2>3. modulated + 1 + missed \in Int /\ 1 \in Int
    BY <1>2, <1>3, <1>4, <2>1 DEF LoopTypes, Loop!Frames
  <2>4. source = ((modulated + 1 + missed) + 1) % Cycle
    BY <1>2, <2>2, <2>3, CountOn
  <2>5. (modulated + 1 + missed) + 1 = modulated + 1 + (missed + 1)
    BY <1>2, <1>3, <1>4, <2>1 DEF LoopTypes, Loop!Frames
  <2>6. QED
    BY <1>6, <2>1, <2>4, <2>5
<1>8. FileFollows'
  <2>1. modulated # Loop!None => Away' = Away
    BY <1>1, <1>6 DEF Away
  <2>2. modulated # Loop!None => \A i \in 1 .. Len(FileFrames) : ReadFrom(i)' = ReadFrom(i)
    BY <1>1, <2>1 DEF ReadFrom
  <2>3. QED
    BY <1>1, <1>3, <2>2 DEF FileFollows, FromFile, InRun
<1>9. QED
  BY <1>5, <1>7, <1>8 DEF LoopInv

(* The frame that is modulated is the one all is counted from.             *)
LEMMA ModulateKeeps == ASSUME LoopInv, Loop!Modulate PROVE LoopInv'
<1>1. /\ loop = "frame" /\ loop' = "input" /\ frameReady' = FALSE /\ missed' = 0
      /\ last_eti_fct' = Loop!Fct(frame) /\ modulated' = frame
      /\ UNCHANGED <<settings, frame, source, pos>>
  BY DEF Loop!Modulate, Loop!Accept, Loop!NextRound, Loop!Unchanged
<1>2. LoopTypes /\ SourceFollows /\ FileFollows /\ AtHand /\ ~AtHand'
  BY <1>1 DEF LoopInv, AtHand
<1>3. frame \in Loop!Frames /\ frame \in Int /\ frame # Loop!None /\ 0 \in 0 .. MaxMissed
  BY <1>2, LoopSettings DEF LoopTypes, Loop!Frames, Loop!None
<1>4. Loop!Fct(frame) \in Nat /\ Loop!Fct(frame) # Loop!None
  BY <1>3, DivMod, LoopSettings DEF Loop!Fct, Loop!None
<1>5. LoopTypes'
  <2>1. last_eti_fct' \in Int /\ missed' \in 0 .. MaxMissed /\ ~AtHand' /\ frameReady' = FALSE
    BY <1>1, <1>2, <1>3, <1>4
  <2>2. /\ settings' \in Settings /\ source' \in Loop!Frames /\ frame' \in Loop!Frames
        /\ modulated' \in Loop!Frames /\ pos' \in 1 .. Len(FileFrames) + 1
    BY <1>1, <1>2, <1>3 DEF LoopTypes
  <2>3. QED
    BY <2>1, <2>2 DEF LoopTypes
<1>6. CountIsKept'
  <2>1. last_eti_fct' = Loop!Fct(modulated)'
    BY <1>1 DEF Loop!Fct
  <2>2. QED
    BY <1>1, <1>3, <1>4, <2>1 DEF CountIsKept
<1>7. SourceFollows'
  <2>1. frame + 1 = frame + 1 + 0
    BY <1>3
  <2>2. ~FromFile => source = (frame + 1 + 0) % Cycle
    BY <1>2, <2>1 DEF SourceFollows
  <2>3. QED
    BY <1>1, <1>2, <2>2 DEF SourceFollows, FromFile
<1>8. FileFollows'
  <2>1. SUFFICES ASSUME FromFile PROVE \E i \in 1 .. Len(FileFrames) : ReadFrom(i)'
    BY <1>1 DEF FileFollows, FromFile
  <2>2. PICK i \in 1 .. Len(FileFrames) : pos = i + 1 /\ frame = FileFrames[i]
    BY <1>1, <1>2, <2>1 DEF FileFollows, LoopTypes
  <2>3. LaterInFile(i, 0) = i /\ i + 0 <= Len(FileFrames)
    <3>1. i + 0 = i /\ i <= Len(FileFrames) /\ 0 \in Nat
      OBVIOUS
    <3>2. QED
      BY <3>1, LaterPlaces
  <2>4. ReadFrom(i)'
    BY <1>1, <2>2, <2>3 DEF ReadFrom, Away
  <2>5. QED
    BY <2>4
<1>9. QED
  BY <1>5, <1>6, <1>7, <1>8 DEF LoopInv

(* Step by step, for each way to read, skip, refuse and start again.       *)
LEMMA LoopStep == ASSUME LoopInv, [Loop!Next]_loopVars PROVE LoopInv'
<1>0. LoopTypes /\ CountIsKept /\ SourceFollows /\ FileFollows /\ 0 \in 0 .. MaxMissed
  BY LoopSettings DEF LoopInv
<1>1. ASSUME loop' \in {"returned", "exit"}, frameReady' \in BOOLEAN, frameReady' => frameReady,
             missed' \in {missed, 0}, last_eti_fct' \in Int,
             UNCHANGED <<settings, frame, source, modulated>>, pos' \in 1 .. Len(FileFrames) + 1
      PROVE  LoopInv'
  <2>1. ~InRun' /\ (AtHand' => AtHand) /\ FromFile' = FromFile
    BY <1>1 DEF InRun, AtHand, FromFile
  <2>2. LoopTypes'
    BY <1>0, <1>1, <2>1 DEF LoopTypes
  <2>3. CountIsKept' /\ FileFollows'
    BY <1>1, <2>1 DEF CountIsKept, FileFollows
  <2>4. SourceFollows'
    BY <1>0, <1>1, <2>1 DEF SourceFollows
  <2>5. QED
    BY <2>2, <2>3, <2>4 DEF LoopInv
<1>2. CASE Loop!SkipUntilPhase0
  <2>1. /\ loop = "frame" /\ loop' = "input" /\ frameReady' = FALSE /\ last_eti_fct = Loop!None
        /\ UNCHANGED <<settings, frame, source, missed, last_eti_fct, modulated, pos>>
    BY <1>2 DEF Loop!SkipUntilPhase0, Loop!NextRound, Loop!Unchanged
  <2>2. modulated = Loop!None
    BY <1>0, <2>1 DEF CountIsKept
  <2>3. QED
    BY <1>0, <2>1, <2>2
       DEF LoopInv, LoopTypes, CountIsKept, SourceFollows, FileFollows, InRun, AtHand, FromFile
<1>3. CASE Loop!Discontinuity \/ Loop!StoppedBySignal
  BY <1>0, <1>1, <1>3
     DEF Loop!Discontinuity, Loop!StoppedBySignal, Loop!Return, Loop!Unchanged, LoopTypes
<1>4. CASE Loop!FlowgraphThrows
  <2>1. Loop!Fct(frame) \in Int /\ loop = "frame"
    BY <1>0, <1>4, DivMod, LoopSettings
       DEF Loop!FlowgraphThrows, Loop!Accept, Loop!Fct, Loop!Frames, LoopTypes, AtHand
  <2>2. QED
    BY <1>0, <1>1, <1>4, <2>1
       DEF Loop!FlowgraphThrows, Loop!Accept, Loop!Return, Loop!Unchanged, LoopTypes
<1>5. CASE Loop!Launch
  <2>1. loop = "returned" /\ UNCHANGED <<settings, frame, frameReady, source>>
    BY <1>5 DEF Loop!Launch
  <2>2. 1 \in 1 .. Len(FileFrames) + 1 /\ Loop!None \in Int
    BY LoopSettings DEF Loop!None
  <2>3. CASE Loop!NewFlowgraph /\ pos' \in {pos, 1}
    <3>1. loop' = "input" /\ last_eti_fct' = Loop!None /\ missed' = 0 /\ modulated' = Loop!None
      BY <2>3 DEF Loop!NewFlowgraph
    <3>2. QED
      BY <1>0, <2>1, <2>2, <2>3, <3>1
         DEF LoopInv, LoopTypes, CountIsKept, SourceFollows, FileFollows, InRun, AtHand, FromFile
  <2>4. CASE loop' = "exit" /\ UNCHANGED <<last_eti_fct, missed, modulated, pos>>
    BY <1>0, <1>1, <2>1, <2>4 DEF LoopTypes
  <2>5. QED
    BY <1>5, <2>3, <2>4 DEF Loop!Launch, Loop!Exit
<1>6. CASE Loop!Signal \/ Loop!BecomeCalm \/ Loop!Exited \/ UNCHANGED loopVars
  <2>1. UNCHANGED <<settings, loop, last_eti_fct, frame, frameReady, pos, source, missed,
                    modulated>>
    BY <1>6 DEF Loop!Signal, Loop!BecomeCalm, Loop!Exited, Loop!vars, loopVars
  <2>2. QED
    BY <1>0, <2>1
       DEF LoopInv, LoopTypes, CountIsKept, SourceFollows, FileFollows, InRun, AtHand, FromFile,
           Loop!Fct, ReadFrom, Away
<1>7. QED
  BY <1>2, <1>3, <1>4, <1>5, <1>6, ReadFileKeeps, ReadNetworkKeeps, SkipKeeps, ModulateKeeps
     DEF Loop!Next, Loop!Read, Loop!Decide

(* A frame that continues the count continues the number.                  *)
LEMMA ContinuesNumber ==
    ASSUME LoopInv, loop = "frame", Loop!Continues(frame), modulated # Loop!None
    PROVE  frame = (modulated + 1) % Cycle
<1>1. /\ modulated \in Int /\ modulated + 1 \in Int /\ modulated + 1 + missed \in Int
      /\ missed \in 0 .. FctModulus - 1 /\ FctModulus \in Nat /\ FctModulus > 0
      /\ missed \in 0 .. MaxMissed
  BY LoopSettings DEF LoopInv, LoopTypes, Loop!Frames
<1>2. frame % FctModulus = ((modulated % FctModulus) + 1) % FctModulus
  BY DEF LoopInv, CountIsKept, Loop!Continues, Loop!Fct
<1>3. CASE ~FromFile
  <2>1. PICK c \in Nat \ {0} : Cycle = c * FctModulus
    <3>1. Cycle \in Nat \ {0} /\ Cycle % FctModulus = 0
      BY LoopSettings
    <3>2. Cycle \div FctModulus \in Int /\ Cycle = (Cycle \div FctModulus) * FctModulus + 0
      BY <1>1, <3>1, DivMod
    <3>3. Cycle \div FctModulus > 0
      <4>1. ASSUME Cycle \div FctModulus <= 0 PROVE FALSE
        <5>1. (Cycle \div FctModulus) * FctModulus <= 0
          BY <1>1, <3>2, <4>1
        <5>2. QED
          BY <1>1, <3>1, <3>2, <5>1
      <4>2. QED
        BY <3>2, <4>1
    <3>4. QED
      BY <1>1, <3>2, <3>3
  <2>2. frame = (modulated + 1 + missed) % Cycle
    BY <1>3 DEF LoopInv, SourceFollows, AtHand, InRun
  <2>3. ((modulated % FctModulus) + 1) % FctModulus = (modulated + 1) % FctModulus
    <3>1. 1 \in Int
      OBVIOUS
    <3>2. QED
      BY <1>1, <3>1, CountOn, Zenon
  <2>4. ((modulated + 1 + missed) % (c * FctModulus)) % FctModulus
          = (modulated + 1 + missed) % FctModulus
    <3>1. c \in Nat /\ c > 0
      BY <2>1
    <3>2. QED
      BY <1>1, <3>1, CountOfNumber, Zenon
  <2>5. (modulated + 1 + missed) % FctModulus = (modulated + 1) % FctModulus
    BY <1>2, <2>1, <2>2, <2>3, <2>4
  <2>6. missed = 0
    BY <1>1, <2>5, LessThanModulus
  <2>7. QED
    BY <1>1, <2>2, <2>6
<1>4. CASE FromFile
  <2>1. PICK i \in 1 .. Len(FileFrames) : ReadFrom(i)
    BY <1>4 DEF LoopInv, FileFollows, InRun
  <2>2. /\ Away = missed + 1 /\ missed + 1 \in 1 .. MaxMissed + 1 /\ missed + 1 \in Nat
    BY <1>1, LoopSettings DEF Away
  <2>3. LaterInFile(i, missed + 1) \in 1 .. Len(FileFrames)
    BY <2>2, LaterPlaces
  <2>4. frame = FileFrames[LaterInFile(i, missed + 1)] /\ FileFrames[i] = modulated
    BY <1>4, <2>1, <2>2, <2>3 DEF LoopInv, FileFollows, ReadFrom
  <2>5. i + (missed + 1) <= Len(FileFrames) \/ \E s \in Settings : s.loop
    BY <2>1, <2>2 DEF LoopInv, LoopTypes, ReadFrom
  <2>6. /\ Loop!Fct(FileFrames[LaterInFile(i, missed + 1)])
             = (Loop!Fct(FileFrames[i]) + 1) % FctModulus
    BY <1>2, <2>4 DEF Loop!Fct
  <2>7. FileFrames[LaterInFile(i, missed + 1)] = (FileFrames[i] + 1) % Cycle
    BY <2>2, <2>5, <2>6, CountTellsGaps
  <2>8. QED
    BY <2>4, <2>7
<1>5. QED
  BY <1>3, <1>4

(* Whatever is lost, skipped, kept over a restart or read again, a         *)
(* flowgraph gets consecutive frames from phase 0 on, as long as fewer     *)
(* frames are lost in a row than the frame count can tell.                 *)
THEOREM MainConsecutiveFrames == MainSpec => ConsecutiveFrames
<1>1. Loop!Init => LoopInv
  BY LoopInitially
<1>2. LoopInv /\ [Loop!Next]_loopVars => LoopInv'
  BY LoopStep
<1>3. LoopInv /\ [Loop!Next]_loopVars
        => [Loop!Modulate => IF modulated = Loop!None THEN Loop!Phase(frame) = 0
                             ELSE frame = (modulated + 1) % Cycle]_(Loop!vars)
  <2> SUFFICES ASSUME LoopInv, Loop!Modulate
               PROVE  IF modulated = Loop!None THEN Loop!Phase(frame) = 0
                                               ELSE frame = (modulated + 1) % Cycle
    OBVIOUS
  <2>1. loop = "frame" /\ Loop!Continues(frame)
    BY DEF Loop!Modulate, Loop!Accept
  <2>2. CASE modulated = Loop!None
    BY <2>1, <2>2 DEF LoopInv, CountIsKept, Loop!Continues
  <2>3. CASE modulated # Loop!None
    BY <2>1, <2>3, ContinuesNumber
  <2>4. QED
    BY <2>2, <2>3
<1>4. QED
  BY <1>1, <1>2, <1>3, LoopIsAlone, PTL DEF ConsecutiveFrames, Loop!ConsecutiveFrames

-----------------------------------------------------------------------------
(* src/Flowgraph.cpp, src/BlockPartitioner.cpp, src/ModPlugin.cpp: what    *)
(* goes through the elements.                                              *)

(* The flowgraph takes its own steps only.                                 *)
LEMMA GraphIsAlone == MainSpec => Graph!Init /\ [][Graph!Next]_graphVars
<1>1. MainInit => Graph!Init
  BY DEF MainInit
<1>2. [MainNext \/ MayStop]_<<part, vars, graphVars, loopVars, rcVars, fileVars>>
        => [Graph!Next]_graphVars
  BY DEF MainNext, MayStop, Choose
<1>3. QED
  BY <1>1, <1>2, PTL DEF MainSpec

(* The CIFs from number s on, and a transmission frame.                    *)
Cifs(s, k) == [i \in 1 .. k |-> s + i - 1]

IsFrame(f) == f[1] \in Int /\ f[1] % d_cifCount = 0 /\ f = Cifs(f[1], d_cifCount)

Before(f, g) == f[1] + d_cifCount <= g[1]

(* The first CIF of the transmission frame that is put together.           *)
Begun == IF last_eti = -1 THEN eti + 1
         ELSE IF node \in {Graph!FicSource, Graph!Partitioner} THEN eti - d_cifNb
         ELSE eti + 1 - d_cifNb

GraphTypes ==
    /\ d_cifCount \in CifCounts /\ eti \in Nat \cup {-1} /\ last_eti \in {-1, eti}
    /\ node \in 0 .. Stages + 4 /\ d_cifNb \in 0 .. d_cifCount - 1
    /\ DOMAIN block = 1 .. d_cifCount
    /\ DOMAIN buffer = Graph!Nodes /\ DOMAIN metadata = Graph!Nodes
    /\ DOMAIN codec = Graph!Codecs

(* A flowgraph that has no frame yet is empty; what goes past the          *)
(* partitioner is complete.                                                *)
Quiet == /\ last_eti = -1 => /\ node = 0 /\ d_cifNb = 0
                             /\ \A n \in Graph!Codecs : ~codec[n].ready
         /\ node > Graph!Partitioner => d_cifNb = 0

(* The partitioner has the CIFs from Begun on, with their metadata.        *)
Partition ==
    /\ last_eti # -1 => Begun % d_cifCount = 0
    /\ \A i \in 1 .. d_cifNb : block[i] = Begun + i - 1
    /\ d_cifNb > 0 => d_meta = Cifs(Begun, d_cifNb)
    /\ node = Graph!Partitioner => /\ buffer[Graph!FicSource] = <<eti>>
                                   /\ metadata[Graph!FicSource] = <<eti>>

(* Each codec that has run keeps one frame with its metadata, later        *)
(* elements earlier frames.                                                *)
Kept(n) == codec[n].frame

CodecsInOrder ==
    /\ \A n \in Graph!Codecs :
          IF codec[n].ready
          THEN IsFrame(Kept(n)) /\ codec[n].fifo = <<Kept(n)>> /\ Kept(n)[1] + d_cifCount <= Begun
          ELSE Kept(n) = <<>> /\ codec[n].fifo = <<>>
    /\ \A m, n \in Graph!Codecs :
          m < n /\ codec[m].ready /\ codec[n].ready => Before(Kept(n), Kept(m))

(* The frame on its way through the elements has its place among them.     *)
OnItsWay ==
    node > Graph!Partitioner =>
        LET f == buffer[node - 1]
        IN  /\ IsFrame(f) /\ metadata[node - 1] = f /\ f[1] + d_cifCount <= Begun
            /\ \A n \in Graph!Codecs : codec[n].ready =>
                  IF n < node THEN Before(f, Kept(n)) ELSE Before(Kept(n), f)

(* The output got earlier ones.                                            *)
SentBefore ==
    sent.frame # <<>> =>
        /\ IsFrame(sent.frame) /\ sent.frame[1] + d_cifCount <= Begun
        /\ \A n \in Graph!Codecs : codec[n].ready => Before(sent.frame, Kept(n))
        /\ node > Graph!Partitioner => Before(sent.frame, buffer[node - 1])

GraphInv == GraphTypes /\ Quiet /\ Partition /\ CodecsInOrder /\ OnItsWay /\ SentBefore

(* Where the elements are.                                                 *)
LEMMA Places == /\ Graph!FicSource = 1 /\ Graph!Partitioner = 2 /\ Graph!Codecs = 3 .. Stages + 2
                /\ Graph!Memory = Stages + 3 /\ Graph!Output = Stages + 4
                /\ Graph!Nodes = 1 .. Stages + 4 /\ Stages \in Nat
  BY GraphSettings
     DEF Graph!FicSource, Graph!Partitioner, Graph!Codecs, Graph!Memory, Graph!Output, Graph!Nodes

(* One more CIF.                                                           *)
LEMMA NextCif ==
    ASSUME NEW s \in Int, NEW k \in Nat
    PROVE  /\ Cifs(s, k) \o <<s + k>> = Cifs(s, k + 1)
           /\ <<s>> = Cifs(s, 1)
<1>1. Cifs(s, k) \in Seq(Int) /\ Len(Cifs(s, k)) = k /\ <<s + k>> \in Seq(Int)
  BY DEF Cifs
<1>2. Cifs(s, k) \o <<s + k>> = [i \in 1 .. k + 1 |-> s + i - 1]
  BY <1>1 DEF Cifs
<1>3. <<s>> = [i \in 1 .. 1 |-> s + i - 1]
  OBVIOUS
<1>4. QED
  BY <1>2, <1>3 DEF Cifs

(* Short queues.                                                           *)
LEMMA NothingBefore == ASSUME NEW x \in Int PROVE <<>> \o <<x>> = <<x>>
  OBVIOUS

LEMMA OneInQueue ==
    ASSUME NEW S, NEW f \in S
    PROVE  Append(<<>>, f) = <<f>> /\ Len(<<f>>) = 1
  OBVIOUS

LEMMA TwoInQueue ==
    ASSUME NEW S, NEW f \in S, NEW g \in S
    PROVE  /\ Append(<<g>>, f) = <<g, f>> /\ Len(<<g, f>>) = 2
           /\ Head(<<g, f>>) = g /\ Tail(<<g, f>>) = <<f>>
<1>1. /\ <<g>> \in Seq(S) /\ <<g, f>> \in Seq(S) /\ <<f>> \in Seq(S)
      /\ Len(<<g>>) = 1 /\ Len(<<g, f>>) = 2 /\ Len(<<f>>) = 1
  OBVIOUS
<1>2. Head(<<g, f>>) = g
  BY <1>1
<1>3. Append(<<g>>, f) = <<g, f>>
  <2>1. /\ Append(<<g>>, f) \in Seq(S) /\ Len(Append(<<g>>, f)) = 2
        /\ Append(<<g>>, f)[1] = <<g>>[1] /\ Append(<<g>>, f)[2] = f
    BY <1>1, AppendProperties, SMT
  <2>2. \A i \in 1 .. 2 : Append(<<g>>, f)[i] = <<g, f>>[i]
    BY <2>1
  <2>3. QED
    BY <1>1, <2>1, <2>2, SeqEqual
<1>4. Tail(<<g, f>>) = <<f>>
  <2>1. /\ Tail(<<g, f>>) \in Seq(S) /\ Len(Tail(<<g, f>>)) = 1
        /\ Tail(<<g, f>>)[1] = f
    BY <1>1
  <2>2. QED
    BY <1>1, <2>1, SeqEqual
<1>5. QED
  BY <1>1, <1>2, <1>3, <1>4

(* A frame is not empty.                                                   *)
LEMMA FramesAreFull ==
    ASSUME d_cifCount \in CifCounts, NEW f, IsFrame(f)
    PROVE  f # <<>> /\ Graph!Aligned(f) /\ f[d_cifCount] = f[1] + d_cifCount - 1
<1>1. d_cifCount \in {2, 4}
  BY GraphSettings
<1>2. DOMAIN f = 1 .. d_cifCount /\ 1 \in DOMAIN f /\ d_cifCount \in DOMAIN f
  BY <1>1 DEF IsFrame, Cifs
<1>3. \A i \in 1 .. d_cifCount : f[i] = f[1] + i - 1
  BY <1>1 DEF IsFrame, Cifs
<1>4. DOMAIN <<>> = {}
  OBVIOUS
<1>5. QED
  BY <1>1, <1>2, <1>3, <1>4 DEF IsFrame, Graph!Aligned

(* Before the first frame.                                                 *)
LEMMA GraphInitially == ASSUME Graph!Init PROVE GraphInv
<1>1. d_cifCount \in {2, 4} /\ CifCounts \subseteq {2, 4} /\ Stages \in Nat
  BY GraphSettings DEF Graph!Init
<1>2. GraphTypes
  BY <1>1 DEF Graph!Init, GraphTypes
<1>3. Quiet /\ Partition /\ CodecsInOrder /\ OnItsWay /\ SentBefore
  BY <1>1, Places
     DEF Graph!Init, Graph!Empty, Quiet, Partition, CodecsInOrder, OnItsWay, SentBefore, Kept
<1>4. QED
  BY <1>2, <1>3 DEF GraphInv

(* A new flowgraph has no frames, and the output had earlier ones than any *)
(* that will come.                                                         *)
LEMMA NewFlowgraphKeeps ==
    ASSUME GraphInv, Graph!NewFlowgraph, UNCHANGED <<d_cifCount, sent>>,
           eti' \in Nat \cup {-1}, eti <= eti'
    PROVE  GraphInv'
<1>1. d_cifCount \in {2, 4} /\ eti \in Int /\ d_cifNb \in 0 .. d_cifCount - 1
  BY GraphSettings DEF GraphInv, GraphTypes
<1>2. GraphTypes'
  BY <1>1, Places DEF GraphInv, GraphTypes, Graph!NewFlowgraph
<1>3. Quiet' /\ Partition' /\ CodecsInOrder' /\ OnItsWay'
  BY <1>1, Places
     DEF Graph!NewFlowgraph, Graph!Empty, Quiet, Partition, CodecsInOrder, OnItsWay, Kept
<1>4. Begun <= Begun' /\ Begun \in Int /\ Begun' \in Int
  <2>1. last_eti' = -1 /\ Begun' = eti' + 1 /\ eti' \in Int
    BY DEF Begun, Graph!NewFlowgraph
  <2>2. Begun \in Int /\ Begun <= eti + 1
    BY <1>1 DEF Begun
  <2>3. \A a, b, c, x \in Int : a <= b + 1 /\ b <= c /\ x = c + 1 => a <= x /\ x \in Int
    OBVIOUS
  <2>4. Begun' \in Int
    BY <2>1, <2>3
  <2>5. QED
    BY <1>1, <2>1, <2>2, <2>3, <2>4, Zenon
<1>5. SentBefore'
  <2>1. SUFFICES ASSUME sent.frame # <<>>
                 PROVE  IsFrame(sent.frame)' /\ sent.frame[1] + d_cifCount <= Begun'
    BY <1>3, Places DEF SentBefore, Graph!NewFlowgraph
  <2>2. IsFrame(sent.frame) /\ sent.frame[1] + d_cifCount <= Begun
    BY <2>1 DEF GraphInv, SentBefore
  <2>3. QED
    BY <1>1, <1>4, <2>2 DEF IsFrame
<1>6. QED
  BY <1>2, <1>3, <1>5 DEF GraphInv

(* The next frame comes: it is the first of the flowgraph, at phase 0, or  *)
(* follows the one before; others are skipped or start a new flowgraph.    *)
LEMMA ReceiveKeeps ==
    ASSUME GraphInv, NEW e \in Nat, e > eti, Graph!Receive(e)
    PROVE  GraphInv'
<1>1. /\ node = 0 /\ eti' = e /\ UNCHANGED <<d_cifCount, sent>>
      /\ d_cifCount \in {2, 4} /\ eti \in Int /\ d_cifNb \in 0 .. d_cifCount - 1
  BY GraphSettings DEF GraphInv, GraphTypes, Graph!Receive
<1>2. GraphTypes /\ Quiet /\ Partition /\ CodecsInOrder /\ OnItsWay /\ SentBefore
  BY DEF GraphInv
<1>3. CASE Graph!NewFlowgraph
  BY <1>1, <1>3, NewFlowgraphKeeps
<1>4. ASSUME UNCHANGED <<d_cifNb, d_meta, block, buffer, metadata, codec>>,
             last_eti' \in {-1, e}, node' \in {0, 1},
             Begun <= Begun', Begun \in Int, Begun' \in Int,
             last_eti' = -1 => node' = 0 /\ last_eti = -1,
             last_eti' # -1 => Begun' % d_cifCount = 0, d_cifNb > 0 => Begun' = Begun
      PROVE  GraphInv'
  <2>1. GraphTypes'
    <3>1. node' \in 0 .. Stages + 4 /\ eti' \in Nat \cup {-1} /\ last_eti' \in {-1, eti'}
      BY <1>1, <1>4, Places
    <3>2. QED
      BY <1>1, <1>2, <1>4, <3>1 DEF GraphTypes
  <2>2. Quiet' /\ OnItsWay'
    BY <1>1, <1>2, <1>4, Places DEF Quiet, OnItsWay
  <2>3. Partition'
    <3>1. node' # Graph!Partitioner
      BY <1>4, Places
    <3>2. CASE d_cifNb = 0
      <4>1. d_cifNb' = 0 /\ 1 .. d_cifNb' = {} /\ ~(d_cifNb' > 0) /\ d_cifCount' = d_cifCount
        BY <1>1, <1>4, <3>2
      <4>2. last_eti' # -1 => Begun' % d_cifCount = 0
        BY <1>4
      <4>3. QED
        BY <3>1, <4>1, <4>2, Zenon DEF Partition
    <3>3. CASE d_cifNb > 0
      <4>1. Begun' = Begun /\ Cifs(Begun, d_cifNb)' = Cifs(Begun, d_cifNb)
        BY <1>4, <3>3 DEF Cifs
      <4>2. QED
        BY <1>1, <1>2, <1>4, <3>1, <4>1 DEF Partition
    <3>4. QED
      BY <1>1, <3>2, <3>3
  <2>4. \A f : IsFrame(f)' <=> IsFrame(f)
    BY <1>1 DEF IsFrame, Cifs
  <2>5. CodecsInOrder'
    <3>1. codec' = codec /\ d_cifCount' = d_cifCount
      BY <1>1, <1>4
    <3>2. ASSUME NEW n \in Graph!Codecs
          PROVE  (IF codec[n].ready
                  THEN /\ IsFrame(Kept(n)) /\ codec[n].fifo = <<Kept(n)>>
                       /\ Kept(n)[1] + d_cifCount <= Begun
                  ELSE Kept(n) = <<>> /\ codec[n].fifo = <<>>)'
      <4>1. CASE codec[n].ready
        <5>1. IsFrame(Kept(n)) /\ codec[n].fifo = <<Kept(n)>> /\ Kept(n)[1] + d_cifCount <= Begun
          BY <1>2, <4>1 DEF CodecsInOrder
        <5>2. IsFrame(Kept(n))'
          BY <3>1, <5>1 DEF IsFrame, Cifs, Kept
        <5>3. Kept(n)[1] \in Int
          BY <5>1 DEF IsFrame
        <5>4. Kept(n)[1] + d_cifCount <= Begun'
          BY <1>1, <1>4, <5>1, <5>3
        <5>5. QED
          BY <3>1, <4>1, <5>1, <5>2, <5>4 DEF Kept
      <4>2. CASE ~codec[n].ready
        BY <1>2, <3>1, <4>2 DEF CodecsInOrder, Kept
      <4>3. QED
        BY <4>1, <4>2
    <3>3. (\A m, n \in Graph!Codecs :
              m < n /\ codec[m].ready /\ codec[n].ready => Before(Kept(n), Kept(m)))'
      BY <1>2, <3>1 DEF CodecsInOrder, Before, Kept
    <3>4. QED
      BY <3>2, <3>3, Places DEF CodecsInOrder
  <2>6. SentBefore'
    BY <1>1, <1>2, <1>4, <2>4, Places DEF SentBefore, Before, Kept, IsFrame
  <2>7. QED
    BY <2>1, <2>2, <2>3, <2>5, <2>6 DEF GraphInv
<1>5. CASE last_eti = -1 /\ UNCHANGED <<last_eti, Graph!inner>>
  BY <1>1, <1>2, <1>4, <1>5 DEF Begun, Graph!inner, Quiet
<1>6. CASE last_eti' = e /\ node' = Graph!FicSource
           /\ UNCHANGED <<d_cifNb, d_meta, block, buffer, metadata, codec>>
  <2>1. CASE last_eti = -1 /\ e % 8 = 0
    <3>1. Begun' = e /\ Begun <= Begun' /\ Begun \in Int /\ d_cifNb = 0
      BY <1>1, <1>2, <1>6, <2>1, Places DEF Begun, Quiet
    <3>2. e % d_cifCount = 0
      BY <1>1, <2>1
    <3>3. QED
      BY <1>1, <1>4, <1>6, <3>1, <3>2, Places
  <2>2. CASE last_eti # -1 /\ e = last_eti + 1
    <3>1. Begun' = Begun /\ Begun \in Int
      BY <1>1, <1>2, <1>6, <2>2, Places DEF Begun, GraphTypes
    <3>2. Begun % d_cifCount = 0
      BY <1>2, <2>2 DEF Partition
    <3>3. QED
      BY <1>1, <1>4, <1>6, <2>2, <3>1, <3>2, Places
  <2>3. ~(last_eti = -1 /\ Graph!FramePhase(e) # 0 /\ UNCHANGED <<last_eti, Graph!inner>>)
    BY <1>1, <1>6, Places DEF Graph!inner
  <2>4. ~Graph!NewFlowgraph
    BY <1>6, Places DEF Graph!NewFlowgraph
  <2>5. IF last_eti = -1 THEN Graph!FramePhase(e) = 0 ELSE e = last_eti + 1
    BY <2>3, <2>4 DEF Graph!Receive
  <2>6. QED
    BY <2>1, <2>2, <2>5 DEF Graph!FramePhase
<1>7. QED
  BY <1>3, <1>5, <1>6 DEF Graph!Receive

(* Its number and metadata are on the edge to the partitioner.             *)
LEMMA FicSourceKeeps == ASSUME GraphInv, Graph!RunFicSource PROVE GraphInv'
<1>1. /\ node = 1 /\ node' = 2 /\ buffer'[1] = <<eti>> /\ metadata'[1] = <<eti>>
      /\ DOMAIN buffer' = Graph!Nodes /\ DOMAIN metadata' = Graph!Nodes
      /\ UNCHANGED <<d_cifCount, eti, last_eti, d_cifNb, d_meta, block, codec, sent>>
  BY Places DEF GraphInv, GraphTypes, Graph!RunFicSource
<1>2. GraphTypes /\ Quiet /\ Partition /\ CodecsInOrder /\ SentBefore
  BY DEF GraphInv
<1>3. GraphTypes' /\ Quiet'
  BY <1>1, <1>2, Places DEF GraphTypes, Quiet
<1>4. Begun' = Begun
  BY <1>1, Places DEF Begun
<1>5. Partition'
  BY <1>1, <1>2, <1>4, Places DEF Partition, Cifs
<1>6. \A f : IsFrame(f)' <=> IsFrame(f)
  BY <1>1 DEF IsFrame, Cifs
<1>7. CodecsInOrder' /\ SentBefore' /\ OnItsWay'
  BY <1>1, <1>2, <1>4, <1>6, Places DEF CodecsInOrder, SentBefore, OnItsWay, Before, Kept
<1>8. QED
  BY <1>3, <1>5, <1>7 DEF GraphInv

(* The partitioner adds a CIF to the frame; with the last one the frame    *)
(* and the metadata of all its CIFs go on.                                 *)
LEMMA PartitionerKeeps == ASSUME GraphInv, Graph!RunPartitioner PROVE GraphInv'
<1> DEFINE k == d_cifNb
           d == d_cifCount
<1>1. /\ GraphTypes /\ Quiet /\ Partition /\ CodecsInOrder /\ SentBefore
      /\ d \in {2, 4} /\ k \in 0 .. d - 1 /\ eti \in Int
  BY GraphSettings DEF GraphInv, GraphTypes
<1>2. /\ node = 2 /\ last_eti # -1 /\ Begun = eti - k /\ Begun % d = 0
      /\ buffer[1] = <<eti>> /\ metadata[1] = <<eti>>
      /\ UNCHANGED <<d_cifCount, eti, last_eti, codec, sent>>
  BY <1>1, Places DEF Graph!RunPartitioner, Quiet, Partition, Begun
<1>3. /\ block' = [block EXCEPT ![k + 1] = eti] /\ d_cifNb' = (k + 1) % d
      /\ d_meta' = (IF d_cifNb' = 1 THEN <<>> ELSE d_meta) \o <<eti>>
      /\ node' = IF d_cifNb' = 0 THEN 3 ELSE 0
      /\ buffer'[2] = block' /\ metadata'[2] = IF d_cifNb' = 0 THEN d_meta' ELSE <<>>
      /\ DOMAIN buffer' = Graph!Nodes /\ DOMAIN metadata' = Graph!Nodes
  <2>1. <<eti>>[1] = eti
    OBVIOUS
  <2>2. block' = [block EXCEPT ![k + 1] = eti] /\ d_cifNb' = (k + 1) % d
    BY <1>2, <2>1, Places DEF Graph!RunPartitioner, Graph!NextCif
  <2>3. d_meta' = (IF d_cifNb' = 1 THEN <<>> ELSE d_meta) \o <<eti>>
    BY <1>2, Places DEF Graph!RunPartitioner, Graph!CollectMetadata, Graph!Empty
  <2>4. node' = IF d_cifNb' = 0 THEN 3 ELSE 0
    BY Places DEF Graph!RunPartitioner
  <2>5. /\ buffer' = [buffer EXCEPT ![2] = block']
        /\ metadata' = [metadata EXCEPT ![1] = <<>>, ![2] = IF d_cifNb' = 0 THEN d_meta' ELSE <<>>]
    BY Places DEF Graph!RunPartitioner, Graph!Edges, Graph!Empty
  <2>6. /\ DOMAIN buffer = Graph!Nodes /\ DOMAIN metadata = Graph!Nodes
        /\ 1 \in Graph!Nodes /\ 2 \in Graph!Nodes
    BY <1>1, Places DEF GraphTypes
  <2>7. /\ buffer'[2] = block' /\ metadata'[2] = IF d_cifNb' = 0 THEN d_meta' ELSE <<>>
        /\ DOMAIN buffer' = Graph!Nodes /\ DOMAIN metadata' = Graph!Nodes
    BY <2>5, <2>6, Zenon
  <2>8. QED
    BY <2>2, <2>3, <2>4, <2>7
<1>4. d_cifNb' = IF k + 1 = d THEN 0 ELSE k + 1
  <2>1. d_cifNb' = (k + 1) % d
    BY <1>3
  <2>2. (k + 1) % d = IF k + 1 = d THEN 0 ELSE k + 1
    <3>1. CASE d = 2
      <4>1. k \in {0, 1}
        BY <1>1, <3>1
      <4>2. QED
        BY <3>1, <4>1
    <3>2. CASE d = 4
      <4>1. k \in {0, 1, 2, 3}
        BY <1>1, <3>2
      <4>2. QED
        BY <3>2, <4>1
    <3>3. QED
      BY <1>1, <3>1, <3>2
  <2>3. QED
    BY <2>1, <2>2
<1>5. GraphTypes' /\ Quiet'
  BY <1>1, <1>2, <1>3, <1>4, Places DEF GraphTypes, Quiet
<1>6. \A i \in 1 .. k + 1 : block'[i] = Begun + i - 1
  <2>1. /\ DOMAIN block = 1 .. d /\ k + 1 \in DOMAIN block
        /\ \A i \in 1 .. k : block[i] = Begun + i - 1
    BY <1>1 DEF GraphTypes, Partition
  <2>2. block'[k + 1] = eti /\ \A i \in DOMAIN block : i # k + 1 => block'[i] = block[i]
    BY <1>3, <2>1, Zenon
  <2>3. Begun \in Int /\ eti = Begun + (k + 1) - 1
    BY <1>1, <1>2
  <2>4. QED
    BY <1>1, <2>1, <2>2, <2>3
<1>7. d_meta' = Cifs(Begun, k + 1)
  <2>1. CASE k = 0
    <3>1. d_cifNb' = 1 /\ Begun = eti
      BY <1>1, <1>2, <1>4, <2>1
    <3>2. d_meta' = <<>> \o <<eti>>
      BY <1>3, <3>1
    <3>3. d_meta' = <<eti>>
      BY <1>1, <3>2, NothingBefore
    <3>4. <<eti>> = Cifs(eti, 1)
      BY <1>1, NextCif
    <3>5. QED
      BY <2>1, <3>1, <3>3, <3>4
  <2>2. CASE k > 0
    <3>1. d_cifNb' # 1 /\ Begun \in Int /\ k \in Nat /\ eti = Begun + k
      BY <1>1, <1>2, <1>4, <2>2
    <3>2. d_meta' = d_meta \o <<eti>> /\ d_meta = Cifs(Begun, k)
      BY <1>1, <1>3, <2>2, <3>1 DEF Partition
    <3>3. QED
      BY <3>1, <3>2, NextCif
  <2>3. QED
    BY <1>1, <2>1, <2>2
<1>8. \A f : IsFrame(f)' <=> IsFrame(f)
  BY <1>2 DEF IsFrame, Cifs
<1>9. CASE k + 1 < d
  <2>1. d_cifNb' = k + 1 /\ node' = 0 /\ Begun' = Begun
    <3>1. d_cifNb' = k + 1 /\ d_cifNb' # 0 /\ node' = 0
      BY <1>1, <1>3, <1>4, <1>9
    <3>2. Begun' = eti + 1 - (k + 1)
      BY <1>2, <3>1, Places DEF Begun
    <3>3. QED
      BY <1>1, <1>2, <3>1, <3>2
  <2>2. Partition'
    <3>1. Cifs(Begun, d_cifNb)' = Cifs(Begun, k + 1)
      BY <2>1 DEF Cifs
    <3>2. node' # Graph!Partitioner /\ d_cifCount' = d
      BY <1>2, <2>1, Places
    <3>3. \A i \in 1 .. d_cifNb' : block'[i] = Begun' + i - 1
      BY <1>6, <2>1
    <3>4. last_eti' # -1 => Begun' % d = 0
      BY <1>2, <2>1
    <3>5. QED
      BY <1>7, <3>1, <3>2, <3>3, <3>4, Zenon DEF Partition
  <2>3. CodecsInOrder' /\ SentBefore' /\ OnItsWay'
    BY <1>1, <1>2, <1>8, <2>1, Places DEF CodecsInOrder, SentBefore, OnItsWay, Before, Kept
  <2>4. QED
    BY <1>5, <2>2, <2>3 DEF GraphInv
<1>10. CASE k + 1 = d
  <2>1. d_cifNb' = 0 /\ node' = 3 /\ Begun' = Begun + d /\ Begun \in Int
    <3>1. d_cifNb' = 0 /\ node' = 3
      BY <1>1, <1>3, <1>4, <1>10
    <3>2. Begun' = eti + 1 - 0
      BY <1>2, <3>1, Places DEF Begun
    <3>3. QED
      BY <1>1, <1>2, <1>10, <3>1, <3>2
  <2>2. Begun' % d = 0
    BY <1>1, <1>2, <2>1
  <2>3. Partition'
    BY <1>2, <2>1, <2>2, Places DEF Partition
  <2>4. block' = Cifs(Begun, d)
    <3>1. block' = [i \in 1 .. d |-> block'[i]]
      BY <1>1, <1>3 DEF GraphTypes
    <3>2. QED
      BY <1>6, <1>10, <3>1 DEF Cifs
  <2>5. /\ buffer'[2] = Cifs(Begun, d) /\ metadata'[2] = Cifs(Begun, d)
        /\ Cifs(Begun, d)[1] = Begun
    <3>1. buffer'[2] = Cifs(Begun, d)
      BY <1>3, <2>4
    <3>2. metadata'[2] = d_meta' /\ d_meta' = Cifs(Begun, d)
      BY <1>3, <1>7, <1>10, <2>1
    <3>3. Cifs(Begun, d)[1] = Begun
      BY <1>1, <2>1 DEF Cifs
    <3>4. QED
      BY <3>1, <3>2, <3>3
  <2>6. IsFrame(Cifs(Begun, d))
    BY <1>2, <2>1, <2>5 DEF IsFrame
  <2>7. OnItsWay'
    <3>1. \A n \in Graph!Codecs : codec[n].ready => Kept(n)[1] + d <= Begun
      BY <1>1 DEF CodecsInOrder
    <3>2. \A n \in Graph!Codecs : ~(n < 3)
      BY Places
    <3>3. QED
      BY <1>2, <1>8, <2>1, <2>5, <2>6, <3>1, <3>2, Places DEF OnItsWay, Before, Kept
  <2>8. CodecsInOrder'
    BY <1>1, <1>2, <1>8, <2>1, Places, SMTT(30) DEF CodecsInOrder, Before, Kept, IsFrame
  <2>9. SentBefore'
    BY <1>1, <1>2, <1>8, <2>1, <2>5, Places DEF SentBefore, Before, Kept, IsFrame
  <2>10. QED
    BY <1>5, <2>3, <2>7, <2>8, <2>9 DEF GraphInv
<1>11. QED
  BY <1>1, <1>9, <1>10

(* A codec takes the frame and gives the one it had, if it had one.        *)
LEMMA CodecKeeps == ASSUME GraphInv, NEW n \in Graph!Codecs, Graph!RunCodec(n) PROVE GraphInv'
<1> DEFINE f == buffer[n - 1]
           g == Kept(n)
<1>1. /\ GraphTypes /\ Quiet /\ Partition /\ CodecsInOrder /\ OnItsWay /\ SentBefore
      /\ d_cifCount \in {2, 4} /\ eti \in Int
      /\ n \in 3 .. Stages + 2 /\ n \in Int /\ Stages \in Nat
  BY GraphSettings, Places DEF GraphInv, GraphTypes
<1>2. /\ node = n /\ d_cifNb = 0 /\ last_eti # -1
      /\ UNCHANGED <<d_cifCount, eti, last_eti, d_cifNb, d_meta, block, sent>>
  BY <1>1, Places DEF Graph!RunCodec, Quiet
<1>3. /\ IsFrame(f) /\ metadata[n - 1] = f /\ f[1] + d_cifCount <= Begun
      /\ \A m \in Graph!Codecs : codec[m].ready =>
            IF m < n THEN Before(f, Kept(m)) ELSE Before(Kept(m), f)
  BY <1>1, <1>2, Places DEF OnItsWay
<1>4. \A h : IsFrame(h)' <=> IsFrame(h)
  BY <1>2 DEF IsFrame, Cifs
<1>5. node' \in 0 .. Stages + 4 /\ node' \notin {1, 2} /\ Begun' = Begun /\ Begun \in Int
  BY <1>1, <1>2, Places DEF Graph!RunCodec, Graph!AfterCodec, Begun
<1>6. /\ DOMAIN codec' = Graph!Codecs
      /\ \A m \in Graph!Codecs \ {n} : codec'[m] = codec[m]
      /\ codec'[n].ready = TRUE /\ codec'[n].frame = f
  BY <1>1 DEF Graph!RunCodec, GraphTypes
<1>7. DOMAIN buffer' = Graph!Nodes /\ DOMAIN metadata' = Graph!Nodes
  BY <1>1 DEF Graph!RunCodec, GraphTypes
<1>8. GraphTypes' /\ Quiet' /\ Partition'
  <2>1. GraphTypes'
    BY <1>1, <1>2, <1>5, <1>6, <1>7 DEF GraphTypes
  <2>2. Quiet'
    BY <1>2 DEF Quiet
  <2>3. Partition'
    BY <1>1, <1>2, <1>5, Places DEF Partition
  <2>4. QED
    BY <2>1, <2>2, <2>3
<1>9. codec'[n].fifo = <<f>>
  <2> DEFINE fifo == Append(codec[n].fifo, f)
  <2>1. codec'[n].fifo = IF Len(fifo) = 2 THEN Tail(fifo) ELSE fifo
    BY <1>1, <1>3 DEF Graph!RunCodec, GraphTypes
  <2>2. CASE codec[n].ready
    <3>1. codec[n].fifo = <<g>>
      BY <1>1, <2>2 DEF CodecsInOrder
    <3>2. Append(<<g>>, f) = <<g, f>> /\ Len(<<g, f>>) = 2 /\ Tail(<<g, f>>) = <<f>>
      BY TwoInQueue, f \in {f, g}, g \in {f, g}
    <3>3. QED
      BY <2>1, <3>1, <3>2
  <2>3. CASE ~codec[n].ready
    <3>1. codec[n].fifo = <<>>
      BY <1>1, <2>3 DEF CodecsInOrder
    <3>2. Append(<<>>, f) = <<f>> /\ Len(<<f>>) = 1
      BY OneInQueue, f \in {f}
    <3>3. QED
      BY <2>1, <3>1, <3>2
  <2>4. QED
    BY <2>2, <2>3
<1>10. f[1] \in Int /\ \A m \in Graph!Codecs : codec[m].ready => Kept(m)[1] \in Int
  BY <1>1, <1>3 DEF CodecsInOrder, IsFrame
<1>11. CodecsInOrder'
  <2>1. \A m \in Graph!Codecs :
           IF codec'[m].ready
           THEN /\ IsFrame(Kept(m))' /\ codec'[m].fifo = <<Kept(m)'>>
                /\ Kept(m)'[1] + d_cifCount <= Begun
           ELSE Kept(m)' = <<>> /\ codec'[m].fifo = <<>>
    BY <1>1, <1>2, <1>3, <1>4, <1>6, <1>9 DEF CodecsInOrder, Kept
  <2>2. \A l, m \in Graph!Codecs :
           l < m /\ codec'[l].ready /\ codec'[m].ready => Before(Kept(m), Kept(l))'
    <3> SUFFICES ASSUME NEW l \in Graph!Codecs, NEW m \in Graph!Codecs, l < m,
                        codec'[l].ready, codec'[m].ready
                 PROVE  codec'[m].frame[1] + d_cifCount <= codec'[l].frame[1]
      BY <1>2 DEF Before, Kept
    <3>1. CASE l # n /\ m # n
      BY <1>1, <1>6, <3>1 DEF CodecsInOrder, Kept, Before
    <3>2. CASE m = n
      <4>1. l # n /\ l < n /\ codec[l].ready /\ codec'[l].frame = Kept(l) /\ codec'[m].frame = f
        BY <1>1, <1>6, <3>2, Places DEF Kept
      <4>2. QED
        BY <1>3, <4>1 DEF Before
    <3>3. CASE l = n
      <4>1. m # n /\ ~(m < n) /\ codec[m].ready /\ codec'[m].frame = Kept(m) /\ codec'[l].frame = f
        BY <1>1, <1>6, <3>3, Places DEF Kept
      <4>2. QED
        BY <1>3, <4>1 DEF Before
    <3>4. QED
      BY <3>1, <3>2, <3>3
  <2>3. QED
    BY <1>2, <1>5, <2>1, <2>2 DEF CodecsInOrder
<1>12. CASE codec[n].ready
  <2>1. codec[n].fifo = <<g>> /\ IsFrame(g) /\ g[1] + d_cifCount <= Begun
    BY <1>1, <1>12 DEF CodecsInOrder
  <2>2. Append(<<g>>, f) = <<g, f>> /\ Len(<<g, f>>) = 2 /\ Head(<<g, f>>) = g
    BY TwoInQueue, f \in {f, g}, g \in {f, g}
  <2>3. node' = n + 1 /\ buffer'[n] = g /\ metadata'[n] = g
    BY <1>1, <1>3, <1>12, <2>1, <2>2, Places DEF Graph!RunCodec, Graph!AfterCodec, GraphTypes, Kept
  <2>4. \A m \in Graph!Codecs : codec'[m].ready =>
           IF m < n + 1 THEN Before(g, Kept(m)') ELSE Before(Kept(m)', g)
    <3> SUFFICES ASSUME NEW m \in Graph!Codecs, codec'[m].ready
                 PROVE  IF m < n + 1 THEN g[1] + d_cifCount <= codec'[m].frame[1]
                                     ELSE codec'[m].frame[1] + d_cifCount <= g[1]
      BY <1>2 DEF Before, Kept
    <3>1. CASE m = n
      <4>1. codec'[m].frame = f /\ m < n + 1 /\ ~(m < n) /\ codec[m].ready
        BY <1>1, <1>6, <1>12, <3>1
      <4>2. QED
        BY <1>3, <3>1, <4>1 DEF Before
    <3>2. CASE m # n
      <4>1. codec[m].ready /\ codec'[m].frame = Kept(m) /\ (m < n + 1 <=> m < n) /\ (m < n \/ n < m)
        BY <1>1, <1>6, <3>2, Places DEF Kept
      <4>2. QED
        BY <1>1, <1>12, <4>1 DEF CodecsInOrder, Before, Kept
    <3>3. QED
      BY <3>1, <3>2
  <2>5. OnItsWay'
    BY <1>1, <1>2, <1>4, <1>5, <2>1, <2>3, <2>4, Places DEF OnItsWay, Before
  <2>6. SentBefore'
    BY <1>1, <1>2, <1>3, <1>4, <1>5, <1>6, <1>12, <2>3, Places
       DEF SentBefore, Before, Kept, OnItsWay
  <2>7. QED
    BY <1>8, <1>11, <2>5, <2>6 DEF GraphInv
<1>13. CASE ~codec[n].ready
  <2>1. node' = 0
    BY <1>13 DEF Graph!RunCodec, Graph!AfterCodec
  <2>2. SentBefore' /\ OnItsWay'
    BY <1>1, <1>2, <1>3, <1>4, <1>5, <1>6, <2>1, Places DEF SentBefore, Before, Kept, OnItsWay
  <2>3. QED
    BY <1>8, <1>11, <2>2 DEF GraphInv
<1>14. QED
  BY <1>12, <1>13

(* The last element and the output pass the frame on as it is.             *)
LEMMA MemoryKeeps == ASSUME GraphInv, Graph!RunMemory PROVE GraphInv'
<1>1. /\ GraphTypes /\ Quiet /\ Partition /\ CodecsInOrder /\ OnItsWay /\ SentBefore
      /\ Stages \in Nat
  BY Places DEF GraphInv
<1>2. /\ node = Stages + 3 /\ node' = Stages + 4
      /\ buffer'[Stages + 3] = buffer[Stages + 2] /\ metadata'[Stages + 3] = metadata[Stages + 2]
      /\ DOMAIN buffer' = Graph!Nodes /\ DOMAIN metadata' = Graph!Nodes
      /\ UNCHANGED <<d_cifCount, eti, last_eti, d_cifNb, d_meta, block, codec, sent>>
  BY <1>1, Places DEF Graph!RunMemory, Graph!Edges, GraphTypes
<1>3. node - 1 = Stages + 2 /\ node' - 1 = Stages + 3
  BY <1>1, <1>2
<1>4. Begun' = Begun
  BY <1>1, <1>2, Places DEF Begun
<1>5. GraphTypes' /\ Quiet' /\ Partition'
  BY <1>1, <1>2, <1>4, Places DEF GraphTypes, Quiet, Partition, Cifs
<1>6. \A f : IsFrame(f)' <=> IsFrame(f)
  BY <1>2 DEF IsFrame, Cifs
<1>7. CodecsInOrder'
  BY <1>1, <1>2, <1>4, <1>6 DEF CodecsInOrder, Before, Kept
<1>8. \A n \in Graph!Codecs : n < node /\ n < node'
  BY <1>1, <1>2, Places
<1>9. OnItsWay' /\ SentBefore'
  BY <1>1, <1>2, <1>3, <1>4, <1>6, <1>8, Places DEF OnItsWay, SentBefore, Before, Kept
<1>10. QED
  BY <1>5, <1>7, <1>9 DEF GraphInv

LEMMA OutputKeeps == ASSUME GraphInv, Graph!RunOutput PROVE GraphInv'
<1>1. /\ GraphTypes /\ Quiet /\ Partition /\ CodecsInOrder /\ OnItsWay /\ Stages \in Nat
  BY Places DEF GraphInv
<1>2. /\ node = Stages + 4 /\ node' = 0 /\ sent'.frame = buffer[Stages + 3]
      /\ DOMAIN metadata' = Graph!Nodes
      /\ UNCHANGED <<d_cifCount, eti, last_eti, d_cifNb, d_meta, block, buffer, codec>>
  BY <1>1, Places DEF Graph!RunOutput, GraphTypes
<1>3. node - 1 = Stages + 3
  BY <1>1, <1>2
<1>4. Begun' = Begun
  BY <1>1, <1>2, Places DEF Begun
<1>5. GraphTypes' /\ Quiet' /\ Partition' /\ OnItsWay'
  BY <1>1, <1>2, <1>4, Places DEF GraphTypes, Quiet, Partition, OnItsWay, Cifs
<1>6. \A f : IsFrame(f)' <=> IsFrame(f)
  BY <1>2 DEF IsFrame, Cifs
<1>7. CodecsInOrder'
  BY <1>1, <1>2, <1>4, <1>6 DEF CodecsInOrder, Before, Kept
<1>8. \A n \in Graph!Codecs : n < node
  BY <1>1, <1>2, Places
<1>9. SentBefore'
  BY <1>1, <1>2, <1>3, <1>4, <1>6, <1>8, Places DEF OnItsWay, SentBefore, Before, Kept
<1>10. QED
  BY <1>5, <1>7, <1>9 DEF GraphInv

(* Step by step.                                                           *)
LEMMA GraphStep == ASSUME GraphInv, [Graph!Next]_graphVars PROVE GraphInv'
<1>1. CASE Graph!NextFrame
  <2>1. eti \in Nat \cup {-1}
    BY DEF GraphInv, GraphTypes
  <2>2. PICK e \in {eti + 1, eti + 2} : Graph!Receive(e)
    BY <1>1 DEF Graph!NextFrame
  <2>3. e \in Nat /\ e > eti
    BY <2>1
  <2>4. QED
    BY <2>2, <2>3, ReceiveKeeps
<1>2. CASE Graph!Reconfigure
  <2>1. eti \in Nat \cup {-1} /\ eti <= eti' /\ eti' = eti
    BY <1>2 DEF GraphInv, GraphTypes, Graph!Reconfigure
  <2>2. QED
    BY <1>2, <2>1, NewFlowgraphKeeps DEF Graph!Reconfigure
<1>3. CASE Graph!Finished \/ UNCHANGED graphVars
  <2>1. UNCHANGED graphVars
    BY <1>3 DEF Graph!Finished, Graph!vars, Graph!inner, graphVars
  <2>2. QED
    BY <2>1
       DEF graphVars, GraphInv, GraphTypes, Quiet, Partition, CodecsInOrder, OnItsWay, SentBefore,
           Begun, Kept, Before, IsFrame, Cifs
<1>4. QED
  BY <1>1, <1>2, <1>3, FicSourceKeeps, PartitionerKeeps, CodecKeeps, MemoryKeeps, OutputKeeps
     DEF Graph!Next

(* The flowgraph's invariant.                                              *)
LEMMA GraphAlways == MainSpec => []GraphInv
<1>1. Graph!Init => GraphInv
  BY GraphInitially
<1>2. GraphInv /\ [Graph!Next]_graphVars => GraphInv'
  BY GraphStep
<1>3. QED
  BY <1>1, <1>2, GraphIsAlone, PTL

(* No element behind the partitioner is run without a frame, whichever of  *)
(* those before it has run how often.                                      *)
THEOREM MainNoEmptyInput == MainSpec => []NoEmptyInput
<1>1. GraphInv => NoEmptyInput
  <2> SUFFICES ASSUME GraphInv, node \in Graph!Nodes, node # Graph!FicSource
               PROVE  buffer[node - 1] # <<>>
    BY DEF NoEmptyInput, Graph!NoEmptyInput, Graph!Empty
  <2>1. CASE node = 2
    <3>1. buffer[1] = <<eti>> /\ Len(<<eti>>) = 1 /\ Len(<<>>) = 0
      BY <2>1, Places DEF GraphInv, Partition
    <3>2. QED
      BY <2>1, <3>1
  <2>2. CASE node > 2
    BY <2>2, FramesAreFull, Places DEF GraphInv, GraphTypes, OnItsWay
  <2>3. QED
    BY <2>1, <2>2, Places
<1>2. QED
  BY <1>1, GraphAlways, PTL

(* However many pipelined elements hold a frame back, and whenever the     *)
(* flowgraph is replaced, a transmission frame comes out with aligned      *)
(* consecutive CIFs, their own metadata, and after all that went before.   *)
THEOREM MainFramesInOrder == MainSpec => FramesInOrder
<1>1. GraphInv => [ Graph!RunOutput =>
         /\ Graph!Aligned(sent'.frame) /\ sent'.meta = sent'.frame
         /\ sent.frame # Graph!Empty => sent'.frame[1] > sent.frame[d_cifCount] ]_(Graph!vars)
  <2> SUFFICES ASSUME GraphInv, Graph!RunOutput
               PROVE  /\ Graph!Aligned(sent'.frame) /\ sent'.meta = sent'.frame
                      /\ sent.frame # <<>> => sent'.frame[1] > sent.frame[d_cifCount]
    BY DEF Graph!Empty
  <2>1. /\ node = Stages + 4 /\ node - 1 = Stages + 3 /\ node > 2
        /\ sent' = [frame |-> buffer[Stages + 3], meta |-> metadata[Stages + 3]]
    BY Places DEF Graph!RunOutput
  <2>2. IsFrame(buffer[Stages + 3]) /\ metadata[Stages + 3] = buffer[Stages + 3]
    BY <2>1, Places DEF GraphInv, OnItsWay
  <2>3. d_cifCount \in CifCounts /\ d_cifCount \in {2, 4}
    BY GraphSettings DEF GraphInv, GraphTypes
  <2>4. Graph!Aligned(sent'.frame) /\ sent'.meta = sent'.frame
    BY <2>1, <2>2, <2>3, FramesAreFull
  <2>5. ASSUME sent.frame # <<>> PROVE sent'.frame[1] > sent.frame[d_cifCount]
    <3>1. IsFrame(sent.frame) /\ Before(sent.frame, buffer[Stages + 3])
      BY <2>1, <2>5, Places DEF GraphInv, SentBefore
    <3>2. sent.frame[d_cifCount] = sent.frame[1] + d_cifCount - 1 /\ sent.frame[1] \in Int
      BY <2>3, <3>1, FramesAreFull DEF IsFrame
    <3>3. buffer[Stages + 3][1] \in Int
      BY <2>2 DEF IsFrame
    <3>4. QED
      BY <2>1, <2>3, <3>1, <3>2, <3>3 DEF Before
  <2>6. QED
    BY <2>4, <2>5
<1>2. QED
  BY <1>1, GraphAlways, PTL DEF FramesInOrder, Graph!FramesInOrder

-----------------------------------------------------------------------------
(* src/ModPlugin.cpp: a pipelined element, for any number of calls.        *)

(* The frames inside the element, oldest first, are those in               *)
(* m_output_queue, the one the worker holds, and those in m_input_queue,   *)
(* and their numbers follow each other up to fed.                          *)
Holding == IF worker \in {"work", "push"} THEN 1 ELSE 0

Inside == (IF m_ready_to_output_data THEN 1 ELSE 0) + (IF main = "pushed" THEN 1 ELSE 0)

Waiting == Inside - Len(m_output_queue) - Holding

OutputNumbers == \A i \in 1 .. Len(m_output_queue) : m_output_queue[i] = fed - Inside + i

HeldNumber == Holding = 1 => held = fed - Inside + Len(m_output_queue) + 1

InputNumbers ==
    /\ Waiting \in Nat
    /\ \A i \in 1 .. Waiting : m_input_queue[i] = fed - Waiting + i
    /\ \/ Len(m_input_queue) = Waiting
       \/ /\ Len(m_input_queue) = Waiting + 1 /\ main \in {"joining", "joined"}
          /\ m_input_queue[Waiting + 1] = Nothing

(* The main thread: what was pushed so far, and what the two ways out of   *)
(* process() leave in the output buffer.                                   *)
Closing == main \in {"joining", "joined"}

FedInTime ==
    /\ main = "checked" => fed = calls - 1
    /\ main = "pushed" => fed = calls
    /\ main \in {"idle", "metadata"} /\ m_running => fed = calls
    /\ ~m_ready_to_output_data => fed = Inside
    /\ Inside <= fed

FailsLater == ~Closing /\ (~m_running \/ worker \in {"leave", "done"}) => fed >= 1

OutputReady == main = "metadata" =>
    \/ fed = calls /\ dataOut = calls - 1
    \/ fed < calls /\ dataOut = Nothing /\ calls >= 2

MetadataDelayed ==
    m_metadata_fifo = IF Rounds >= 1 THEN <<Rounds>> ELSE <<>>

CallStarted == InCall => calls >= 1

NumbersInOrder == OutputNumbers /\ HeldNumber /\ InputNumbers

CodecInv == /\ TypeOK /\ NumbersInOrder /\ FedInTime /\ FailsLater
            /\ OutputReady /\ MetadataDelayed /\ CallStarted /\ MetadataMatchesFrame
-----------------------------------------------------------------------------
LEMMA CodecInit == Init => CodecInv
<1> SUFFICES ASSUME Init PROVE CodecInv
  OBVIOUS
<1>1. /\ m_input_queue \in Seq(Frames) /\ m_output_queue \in Seq(1 .. calls)
      /\ m_metadata_fifo \in Seq(Frames)
  BY EmptySeq DEF Init
<1>2. TypeOK
  <2>1. calls \in 0 .. MaxCalls /\ fed \in 0 .. calls /\ Nothing \in Frames
    BY MaxCallsAssumption DEF Init, Frames, Nothing
  <2>2. /\ held \in Frames /\ dataOut \in Frames /\ edge \in [frame : Frames, meta : Frames]
        /\ m_running \in BOOLEAN /\ m_ready_to_output_data \in BOOLEAN
        /\ main \in MainStates /\ worker \in WorkerStates
    BY <2>1 DEF Init, MainStates, WorkerStates
  <2>3. QED
    BY <1>1, <2>1, <2>2 DEF TypeOK
<1>3. Len(m_input_queue) = 0 /\ Len(m_output_queue) = 0 /\ Inside = 0 /\ Holding = 0
  BY EmptySeq DEF Init, Inside, Holding
<1>4. Waiting = 0
  BY <1>3 DEF Waiting
<1>5. NumbersInOrder
  BY <1>3, <1>4 DEF NumbersInOrder, OutputNumbers, HeldNumber, InputNumbers
<1>6. FedInTime /\ FailsLater /\ OutputReady /\ MetadataDelayed /\ CallStarted
  BY <1>3 DEF Init, FedInTime, FailsLater, OutputReady, MetadataDelayed, CallStarted,
              Rounds, InCall, Closing
<1>7. MetadataMatchesFrame
  BY DEF Init, MetadataMatchesFrame
<1>8. QED
  BY <1>2, <1>5, <1>6, <1>7 DEF CodecInv

(* The frames 0 .. calls are frames 0 .. calls + 1, too.                   *)
LEMMA FramesGrow ==
    ASSUME NEW n \in Nat
    PROVE  /\ \A q \in Seq(0 .. n) : q \in Seq(0 .. n + 1)
           /\ \A q \in Seq(1 .. n) : q \in Seq(1 .. n + 1)
<1>1. 0 .. n \subseteq 0 .. n + 1 /\ 1 .. n \subseteq 1 .. n + 1
  OBVIOUS
<1>2. QED
  BY <1>1, SeqMonotonic

(* A step that leaves the queues and the worker's frame alone.             *)
LEMMA FramesStay ==
    ASSUME NumbersInOrder, UNCHANGED <<m_input_queue, m_output_queue, fed>>,
           Inside' = Inside, Holding' = Holding, Holding = 1 => held' = held,
           Closing => Closing'
    PROVE  NumbersInOrder'
<1>1. Waiting' = Waiting
  BY DEF Waiting
<1>2. QED
  BY <1>1 DEF NumbersInOrder, OutputNumbers, HeldNumber, InputNumbers, Closing

LEMMA CallProcessInv == CodecInv /\ CallProcess => CodecInv'
<1> SUFFICES ASSUME CodecInv, CallProcess PROVE CodecInv'
  OBVIOUS
<1> USE DEF CodecInv
<1>1. calls \in Nat /\ calls' = calls + 1 /\ calls' \in 0 .. MaxCalls /\ fed \in 0 .. calls
  BY MaxCallsAssumption DEF TypeOK, CallProcess
<1>2. UNCHANGED <<m_running, m_ready_to_output_data, m_input_queue, m_output_queue,
                  m_metadata_fifo, fed, edge, worker, held>>
  BY DEF CallProcess, workerVars
<1>3. TypeOK'
  <2>1. /\ m_input_queue' \in Seq(Frames') /\ m_output_queue' \in Seq(1 .. calls')
        /\ m_metadata_fifo' \in Seq(Frames')
    BY <1>1, <1>2, FramesGrow DEF TypeOK, Frames
  <2>2. held' \in Frames' /\ edge' \in [frame : Frames', meta : Frames'] /\ dataOut' \in Frames'
    BY <1>1, <1>2 DEF TypeOK, Frames, CallProcess, Nothing
  <2>3. main' \in MainStates /\ fed' \in 0 .. calls'
    BY <1>1, <1>2 DEF CallProcess, MainStates
  <2>4. QED
    BY <1>1, <1>2, <2>1, <2>2, <2>3 DEF TypeOK
<1>4. Inside' = Inside /\ Holding' = Holding
  BY <1>2 DEF CallProcess, Inside, Holding
<1>5. NumbersInOrder'
  BY <1>2, <1>4, FramesStay DEF CallProcess, Closing
<1>6. FedInTime' /\ FailsLater' /\ OutputReady'
  <2>1. CASE m_running
    BY <1>1, <1>2, <1>4, <2>1
    DEF CallProcess, FedInTime, FailsLater, OutputReady, Closing
  <2>2. CASE ~m_running
    <3>1. fed >= 1
      BY <2>2 DEF FailsLater, CallProcess, Closing
    <3>2. QED
      BY <1>1, <1>2, <1>4, <2>2, <3>1
      DEF CallProcess, FedInTime, FailsLater, OutputReady, Closing, Nothing
  <2>3. QED
    BY <2>1, <2>2
<1>7. MetadataDelayed' /\ CallStarted' /\ MetadataMatchesFrame'
  BY <1>1, <1>2 DEF CallProcess, MetadataDelayed, CallStarted, Rounds, InCall, MetadataMatchesFrame
<1>8. QED
  BY <1>3, <1>5, <1>6, <1>7

LEMMA PushInputInv == CodecInv /\ PushInput => CodecInv'
<1> SUFFICES ASSUME CodecInv, PushInput PROVE CodecInv'
  OBVIOUS
<1> USE DEF CodecInv
<1>1. UNCHANGED <<m_running, m_ready_to_output_data, m_output_queue, m_metadata_fifo, calls,
                  dataOut, edge, worker, held>>
  BY DEF PushInput, workerVars
<1>2. fed \in Nat /\ calls \in Nat /\ fed = calls - 1 /\ fed' = calls /\ calls >= 1
  BY DEF TypeOK, PushInput, FedInTime, CallStarted, InCall
<1>3. m_input_queue \in Seq(Frames) /\ calls \in Frames /\ m_input_queue' = Append(m_input_queue, calls)
  BY <1>2 DEF TypeOK, PushInput, Frames
<1>4. TypeOK'
  <2>1. m_input_queue' \in Seq(Frames)
    BY <1>3
  <2>2. QED
    BY <1>1, <1>2, <2>1 DEF TypeOK, Frames, PushInput, MainStates
<1>5. Inside' = Inside + 1 /\ Inside \in {0, 1} /\ Holding' = Holding /\ Holding \in {0, 1}
  BY <1>1 DEF PushInput, Inside, Holding
<1>6. Len(m_output_queue) \in Nat
  BY DEF TypeOK
<1>7. NumbersInOrder'
  <2>1. Waiting' = Waiting + 1 /\ Waiting \in Nat /\ Len(m_input_queue) = Waiting
    BY <1>1, <1>5, <1>6 DEF Waiting, NumbersInOrder, InputNumbers, PushInput
  <2>2. OutputNumbers' /\ HeldNumber'
    BY <1>1, <1>2, <1>5, <1>6 DEF NumbersInOrder, OutputNumbers, HeldNumber
  <2>3. \A i \in 1 .. Waiting + 1 : m_input_queue'[i] = fed' - Waiting' + i
    BY <1>2, <1>3, <2>1 DEF NumbersInOrder, InputNumbers
  <2>4. Len(m_input_queue') = Waiting'
    BY <1>3, <2>1
  <2>5. QED
    BY <2>1, <2>2, <2>3, <2>4 DEF NumbersInOrder, InputNumbers
<1>8. FedInTime' /\ FailsLater' /\ OutputReady'
  BY <1>1, <1>2, <1>5 DEF PushInput, FedInTime, FailsLater, OutputReady, Closing, Inside
<1>9. MetadataDelayed' /\ CallStarted' /\ MetadataMatchesFrame'
  BY <1>1, <1>2 DEF PushInput, MetadataDelayed, CallStarted, Rounds, InCall, MetadataMatchesFrame
<1>10. QED
  BY <1>4, <1>7, <1>8, <1>9

LEMMA FirstRoundInv == CodecInv /\ FirstRound => CodecInv'
<1> SUFFICES ASSUME CodecInv, FirstRound PROVE CodecInv'
  OBVIOUS
<1> USE DEF CodecInv
<1>1. UNCHANGED <<m_running, m_input_queue, m_output_queue, m_metadata_fifo, calls, fed,
                  edge, worker, held>>
  BY DEF FirstRound, workerVars
<1>2. fed = 1 /\ calls = 1 /\ Inside' = Inside /\ Inside = 1 /\ Holding' = Holding
  BY <1>1 DEF FirstRound, FedInTime, Inside, Holding
<1>3. TypeOK'
  BY <1>1, <1>2 DEF TypeOK, Frames, FirstRound, MainStates, Nothing
<1>4. NumbersInOrder'
  BY <1>1, <1>2, FramesStay DEF FirstRound, Closing
<1>5. FedInTime' /\ FailsLater' /\ OutputReady'
  BY <1>1, <1>2 DEF FirstRound, FedInTime, FailsLater, OutputReady, Closing, Nothing
<1>6. MetadataDelayed' /\ CallStarted' /\ MetadataMatchesFrame'
  BY <1>1, <1>2 DEF FirstRound, MetadataDelayed, CallStarted, Rounds, InCall, MetadataMatchesFrame
<1>7. QED
  BY <1>3, <1>4, <1>5, <1>6

(* The output taken is the frame of the call before.                       *)
LEMMA WaitForOutputInv == CodecInv /\ WaitForOutput => CodecInv'
<1> SUFFICES ASSUME CodecInv, WaitForOutput PROVE CodecInv'
  OBVIOUS
<1> USE DEF CodecInv
<1>1. UNCHANGED <<m_running, m_ready_to_output_data, m_input_queue, m_metadata_fifo, calls, fed,
                  edge, worker, held>>
  BY DEF WaitForOutput, workerVars
<1>2. /\ calls \in Nat /\ fed = calls /\ Inside = 2 /\ Inside' = 1 /\ fed >= 2
      /\ Holding' = Holding /\ Holding \in {0, 1}
  BY <1>1 DEF WaitForOutput, FedInTime, Inside, Holding, TypeOK
<1>3. /\ m_output_queue \in Seq(1 .. calls) /\ m_output_queue # <<>>
      /\ m_output_queue' = Tail(m_output_queue) /\ dataOut' = m_output_queue[1]
  BY DEF TypeOK, WaitForOutput
<1>4. /\ m_output_queue' \in Seq(1 .. calls)
      /\ Len(m_output_queue) \in Nat /\ Len(m_output_queue) >= 1
      /\ Len(m_output_queue') = Len(m_output_queue) - 1
      /\ \A i \in 1 .. Len(m_output_queue') : m_output_queue'[i] = m_output_queue[i + 1]
  BY <1>3, HeadTailProperties, EmptySeq
<1>5. dataOut' = calls - 1
  BY <1>2, <1>3, <1>4 DEF NumbersInOrder, OutputNumbers
<1>6. TypeOK'
  BY <1>1, <1>2, <1>4, <1>5 DEF TypeOK, Frames, WaitForOutput, MainStates
<1>7. NumbersInOrder'
  <2>1. Waiting' = Waiting /\ Waiting \in Nat
    BY <1>1, <1>2, <1>4 DEF Waiting, NumbersInOrder, InputNumbers
  <2>2. OutputNumbers'
    BY <1>1, <1>2, <1>4 DEF NumbersInOrder, OutputNumbers
  <2>3. HeldNumber'
    BY <1>1, <1>2, <1>4 DEF NumbersInOrder, HeldNumber
  <2>4. InputNumbers'
    BY <1>1, <2>1 DEF NumbersInOrder, InputNumbers, WaitForOutput
  <2>5. QED
    BY <2>2, <2>3, <2>4 DEF NumbersInOrder
<1>8. FedInTime' /\ FailsLater' /\ OutputReady'
  BY <1>1, <1>2, <1>5 DEF WaitForOutput, FedInTime, FailsLater, OutputReady, Closing
<1>9. MetadataDelayed' /\ CallStarted' /\ MetadataMatchesFrame'
  BY <1>1, <1>2 DEF WaitForOutput, MetadataDelayed, CallStarted, Rounds, InCall, MetadataMatchesFrame
<1>10. QED
  BY <1>6, <1>7, <1>8, <1>9

(* The deque holds one entry or none before an entry is added to it.       *)
LEMMA ShortFifo ==
    ASSUME NEW a \in Nat, NEW b \in Nat
    PROVE  /\ Len(Append(<<>>, b)) = 1 /\ Append(<<>>, b) = <<b>>
           /\ Len(Append(<<a>>, b)) = 2
           /\ Head(Append(<<a>>, b)) = a /\ Tail(Append(<<a>>, b)) = <<b>>
<1>1. <<a>> \in Seq(Nat) /\ Len(<<a>>) = 1
  OBVIOUS
<1>2. Append(<<a>>, b) \in Seq(Nat) /\ Len(Append(<<a>>, b)) = 2
  BY <1>1
<1>3. Append(<<a>>, b)[1] = a /\ Append(<<a>>, b)[2] = b
  BY <1>1
<1>4. Tail(Append(<<a>>, b)) = <<b>>
  <2>1. Append(<<a>>, b) # <<>>
    BY <1>2
  <2>2. /\ Tail(Append(<<a>>, b)) \in Seq(Nat) /\ Len(Tail(Append(<<a>>, b))) = 1
        /\ Tail(Append(<<a>>, b))[1] = b
    BY <1>2, <1>3, <2>1, HeadTailProperties
  <2>3. <<b>> \in Seq(Nat) /\ Len(<<b>>) = 1 /\ <<b>>[1] = b
    OBVIOUS
  <2>4. \A i \in 1 .. 1 : Tail(Append(<<a>>, b))[i] = <<b>>[i]
    BY <2>2, <2>3
  <2>5. QED
    BY <2>2, <2>3, <2>4, SeqEqual
<1>5. QED
  BY <1>2, <1>3, <1>4

(* m_metadata_fifo holds the metadata of the call before, and so the edge  *)
(* gets it together with the frame of the call before.                     *)
LEMMA MetadataOut ==
    ASSUME CodecInv, ProcessMetadata
    PROVE  /\ edge' = [frame |-> dataOut, meta |-> calls - 1]
           /\ m_metadata_fifo' = <<calls>>
<1>1. main = "metadata" /\ calls \in Nat /\ calls >= 1 /\ Rounds = calls - 1
  BY DEF CodecInv, ProcessMetadata, CallStarted, InCall, Rounds, TypeOK
<1> DEFINE fifo == Append(m_metadata_fifo, calls)
<1>2. IF Len(fifo) = 2
      THEN edge' = [frame |-> dataOut, meta |-> Head(fifo)] /\ m_metadata_fifo' = Tail(fifo)
      ELSE edge' = [frame |-> dataOut, meta |-> Nothing] /\ m_metadata_fifo' = fifo
  BY DEF ProcessMetadata
<1>3. CASE calls = 1
  <2>1. m_metadata_fifo = <<>>
    BY <1>1, <1>3 DEF CodecInv, MetadataDelayed
  <2>2. fifo = <<calls>> /\ Len(fifo) # 2
    BY <1>1, <2>1, ShortFifo
  <2>3. QED
    BY <1>2, <1>3, <2>2 DEF Nothing
<1>4. CASE calls > 1
  <2>1. m_metadata_fifo = <<calls - 1>>
    BY <1>1, <1>4 DEF CodecInv, MetadataDelayed
  <2>2. Len(fifo) = 2 /\ Head(fifo) = calls - 1 /\ Tail(fifo) = <<calls>>
    BY <1>1, <1>4, <2>1, ShortFifo
  <2>3. QED
    BY <1>2, <2>2
<1>5. QED
  BY <1>1, <1>3, <1>4

LEMMA ProcessMetadataInv == CodecInv /\ ProcessMetadata => CodecInv'
<1> SUFFICES ASSUME CodecInv, ProcessMetadata PROVE CodecInv'
  OBVIOUS
<1> USE DEF CodecInv
<1>1. /\ UNCHANGED <<m_running, m_ready_to_output_data, m_input_queue, m_output_queue, calls, fed,
                     dataOut, worker, held>>
      /\ main = "metadata" /\ main' = "idle"
  BY DEF ProcessMetadata, workerVars
<1>2. calls \in Nat /\ calls >= 1 /\ fed \in 0 .. calls
  BY <1>1 DEF CallStarted, InCall, TypeOK
<1>3. Inside' = Inside /\ Holding' = Holding
  BY <1>1 DEF Inside, Holding
<1>4. TypeOK'
  <2>1. edge' \in [frame : Frames, meta : Frames] /\ m_metadata_fifo' \in Seq(Frames)
    <3>1. calls \in Frames /\ calls - 1 \in Frames /\ dataOut \in Frames
      BY <1>2 DEF TypeOK, Frames
    <3>2. <<calls>> \in Seq(Frames)
      BY <3>1
    <3>3. [frame |-> dataOut, meta |-> calls - 1] \in [frame : Frames, meta : Frames]
      BY <3>1
    <3>4. QED
      BY <3>2, <3>3, MetadataOut
  <2>2. QED
    BY <1>1, <2>1 DEF TypeOK, Frames, MainStates
<1>5. NumbersInOrder'
  BY <1>1, <1>3, FramesStay DEF Closing
<1>6. FedInTime' /\ FailsLater' /\ OutputReady'
  BY <1>1, <1>3 DEF FedInTime, FailsLater, OutputReady, Closing
<1>7. MetadataDelayed' /\ CallStarted'
  BY <1>1, <1>2, MetadataOut DEF MetadataDelayed, CallStarted, Rounds, InCall
<1>8. MetadataMatchesFrame'
  BY <1>1, MetadataOut DEF OutputReady, MetadataMatchesFrame, Nothing
<1>9. QED
  BY <1>4, <1>5, <1>6, <1>7, <1>8

LEMMA StopInv == CodecInv /\ StopPipelineThread => CodecInv'
<1> SUFFICES ASSUME CodecInv, StopPipelineThread PROVE CodecInv'
  OBVIOUS
<1> USE DEF CodecInv
<1>1. /\ UNCHANGED <<m_running, m_ready_to_output_data, m_output_queue, m_metadata_fifo, calls, fed,
                     dataOut, edge, worker, held>>
      /\ main = "idle" /\ main' = "joining"
  BY DEF StopPipelineThread, workerVars
<1>2. /\ m_input_queue \in Seq(Frames) /\ Nothing \in Frames
      /\ m_input_queue' = Append(m_input_queue, Nothing)
  BY DEF StopPipelineThread, TypeOK, Frames, Nothing
<1>3. Inside' = Inside /\ Holding' = Holding
  BY <1>1 DEF Inside, Holding
<1>4. TypeOK'
  <2>1. m_input_queue' \in Seq(Frames)
    BY <1>2
  <2>2. QED
    BY <1>1, <2>1 DEF TypeOK, Frames, MainStates
<1>5. NumbersInOrder'
  <2>1. Waiting' = Waiting /\ Waiting \in Nat /\ Len(m_input_queue) = Waiting
    BY <1>1, <1>3 DEF Waiting, NumbersInOrder, InputNumbers
  <2>2. \A i \in 1 .. Waiting : m_input_queue'[i] = fed - Waiting + i
    BY <1>2, <2>1 DEF NumbersInOrder, InputNumbers
  <2>3. Len(m_input_queue') = Waiting + 1 /\ m_input_queue'[Waiting + 1] = Nothing
    BY <1>2, <2>1
  <2>4. QED
    BY <1>1, <1>3, <2>1, <2>2, <2>3 DEF NumbersInOrder, OutputNumbers, HeldNumber, InputNumbers
<1>6. FedInTime' /\ FailsLater' /\ OutputReady'
  BY <1>1, <1>3 DEF FedInTime, FailsLater, OutputReady, Closing
<1>7. MetadataDelayed' /\ CallStarted' /\ MetadataMatchesFrame'
  BY <1>1 DEF MetadataDelayed, CallStarted, Rounds, InCall, MetadataMatchesFrame
<1>8. QED
  BY <1>4, <1>5, <1>6, <1>7

LEMMA JoinInv == CodecInv /\ Join => CodecInv'
<1> SUFFICES ASSUME CodecInv, Join PROVE CodecInv'
  OBVIOUS
<1> USE DEF CodecInv
<1>1. /\ UNCHANGED <<m_running, m_ready_to_output_data, m_input_queue, m_output_queue,
                     m_metadata_fifo, calls, fed, dataOut, edge, worker, held>>
      /\ main = "joining" /\ main' = "joined"
  BY DEF Join, workerVars
<1>2. Inside' = Inside /\ Holding' = Holding
  BY <1>1 DEF Inside, Holding
<1>3. TypeOK'
  BY <1>1 DEF TypeOK, Frames, MainStates
<1>4. NumbersInOrder'
  BY <1>1, <1>2, FramesStay DEF Closing
<1>5. FedInTime' /\ FailsLater' /\ OutputReady'
  BY <1>1, <1>2 DEF FedInTime, FailsLater, OutputReady, Closing
<1>6. MetadataDelayed' /\ CallStarted' /\ MetadataMatchesFrame'
  BY <1>1 DEF MetadataDelayed, CallStarted, Rounds, InCall, MetadataMatchesFrame
<1>7. QED
  BY <1>3, <1>4, <1>5, <1>6

-----------------------------------------------------------------------------
(* The worker's steps leave the main thread's variables alone.             *)
LEMMA MainStays ==
    ASSUME CodecInv, UNCHANGED mainVars
    PROVE  /\ OutputReady' /\ MetadataDelayed' /\ CallStarted' /\ MetadataMatchesFrame'
           /\ Inside' = Inside
           /\ UNCHANGED <<m_ready_to_output_data, m_metadata_fifo, main, calls, fed, dataOut, edge>>
<1>1. UNCHANGED <<m_ready_to_output_data, m_metadata_fifo, main, calls, fed, dataOut, edge>>
  BY DEF mainVars
<1>2. QED
  BY <1>1 DEF CodecInv, OutputReady, MetadataDelayed, CallStarted, MetadataMatchesFrame, Inside,
              Rounds, InCall

LEMMA TestRunningInv == CodecInv /\ TestRunning => CodecInv'
<1> SUFFICES ASSUME CodecInv, TestRunning PROVE CodecInv'
  OBVIOUS
<1>1. UNCHANGED mainVars /\ UNCHANGED <<m_running, m_input_queue, m_output_queue, held>>
  BY DEF TestRunning
<1>2. Holding' = Holding
  BY DEF TestRunning, Holding
<1>3. TypeOK'
  BY <1>1, MainStays DEF CodecInv, TypeOK, Frames, TestRunning, WorkerStates
<1>4. NumbersInOrder'
  BY <1>1, <1>2, MainStays, FramesStay DEF CodecInv, Closing
<1>5. FedInTime' /\ FailsLater'
  BY <1>1, MainStays DEF CodecInv, FedInTime, FailsLater, Closing, TestRunning
<1>6. QED
  BY <1>1, <1>3, <1>4, <1>5, MainStays DEF CodecInv

(* The empty buffer is met only after every frame was taken.               *)
LEMMA TakeInputInv == CodecInv /\ TakeInput => CodecInv'
<1> SUFFICES ASSUME CodecInv, TakeInput PROVE CodecInv'
  OBVIOUS
<1>1. /\ UNCHANGED mainVars /\ UNCHANGED <<m_running, m_output_queue>>
      /\ m_input_queue # <<>> /\ held' = m_input_queue[1]
      /\ m_input_queue' = Tail(m_input_queue)
      /\ worker = "pop" /\ worker' = IF held' = Nothing THEN "leave" ELSE "work"
  BY DEF TakeInput
<1>2. m_input_queue \in Seq(Frames) /\ fed \in Nat /\ calls \in Nat /\ Inside <= fed
  BY DEF CodecInv, TypeOK, FedInTime
<1>3. /\ held' \in Frames /\ m_input_queue' \in Seq(Frames)
      /\ Len(m_input_queue) \in Nat /\ Len(m_input_queue) >= 1
      /\ Len(m_input_queue') = Len(m_input_queue) - 1
      /\ \A j \in 1 .. Len(m_input_queue') : m_input_queue'[j] = m_input_queue[j + 1]
  BY <1>1, <1>2, HeadTailProperties, EmptySeq
<1>4. TypeOK'
  BY <1>1, <1>3, MainStays DEF CodecInv, TypeOK, Frames, WorkerStates
<1>5. /\ Len(m_output_queue) \in Nat /\ Waiting \in Nat /\ Inside \in {0, 1, 2}
      /\ Holding = 0 /\ Waiting = Inside - Len(m_output_queue) /\ Inside' = Inside
  BY <1>1, MainStays DEF CodecInv, TypeOK, NumbersInOrder, InputNumbers, Waiting, Inside, Holding
<1>6. CASE Waiting >= 1
  <2>1. held' = fed - Waiting + 1 /\ held' # Nothing
    BY <1>1, <1>2, <1>5, <1>6 DEF CodecInv, NumbersInOrder, InputNumbers, Nothing
  <2>2. Holding' = 1 /\ worker' = "work" /\ Waiting' = Waiting - 1
    BY <1>1, <1>5, <2>1 DEF Holding, Waiting
  <2>3. OutputNumbers' /\ HeldNumber'
    BY <1>1, <1>2, <1>5, <2>1, MainStays DEF CodecInv, NumbersInOrder, OutputNumbers, HeldNumber
  <2>4. \A j \in 1 .. Waiting' : m_input_queue'[j] = fed' - Waiting' + j
    <3>1. SUFFICES ASSUME NEW j \in 1 .. Waiting' PROVE m_input_queue'[j] = fed' - Waiting' + j
      OBVIOUS
    <3>2. j + 1 \in 1 .. Waiting /\ j \in 1 .. Len(m_input_queue')
      BY <1>3, <1>5, <1>6, <2>2 DEF CodecInv, NumbersInOrder, InputNumbers
    <3>3. m_input_queue[j + 1] = fed - Waiting + (j + 1)
      BY <3>2 DEF CodecInv, NumbersInOrder, InputNumbers
    <3>4. QED
      BY <1>1, <1>2, <1>3, <1>5, <2>2, <3>2, <3>3, MainStays
  <2>5. \/ Len(m_input_queue') = Waiting'
        \/ /\ Len(m_input_queue') = Waiting' + 1 /\ main' \in {"joining", "joined"}
           /\ m_input_queue'[Waiting' + 1] = Nothing
    BY <1>1, <1>3, <1>5, <1>6, <2>2, MainStays DEF CodecInv, NumbersInOrder, InputNumbers
  <2>6. NumbersInOrder'
    BY <1>5, <1>6, <2>2, <2>3, <2>4, <2>5 DEF NumbersInOrder, InputNumbers
  <2>7. FedInTime' /\ FailsLater'
    BY <1>1, <1>5, <2>2, MainStays DEF CodecInv, FedInTime, FailsLater, Closing
  <2>8. QED
    BY <1>1, <1>4, <2>6, <2>7, MainStays DEF CodecInv
<1>7. CASE Waiting = 0
  <2>1. Len(m_input_queue) = 1 /\ main \in {"joining", "joined"} /\ held' = Nothing
    BY <1>1, <1>3, <1>7 DEF CodecInv, NumbersInOrder, InputNumbers
  <2>2. Holding' = 0 /\ Waiting' = 0 /\ worker' = "leave" /\ Len(m_input_queue') = 0
    BY <1>1, <1>3, <1>5, <1>7, <2>1 DEF Holding, Waiting
  <2>3. NumbersInOrder'
    BY <1>1, <1>5, <2>2, MainStays
    DEF CodecInv, NumbersInOrder, OutputNumbers, HeldNumber, InputNumbers
  <2>4. FedInTime' /\ FailsLater'
    BY <1>1, <1>5, <2>1, MainStays DEF CodecInv, FedInTime, FailsLater, Closing
  <2>5. QED
    BY <1>1, <1>4, <2>3, <2>4, MainStays DEF CodecInv
<1>8. QED
  BY <1>5, <1>6, <1>7

LEMMA InternalProcessInv == CodecInv /\ InternalProcess => CodecInv'
<1> SUFFICES ASSUME CodecInv, InternalProcess PROVE CodecInv'
  OBVIOUS
<1>1. /\ UNCHANGED mainVars /\ UNCHANGED <<m_input_queue, m_output_queue, held>>
      /\ worker = "work" /\ worker' = "push"
  BY DEF InternalProcess
<1>2. m_running' \in BOOLEAN /\ (m_running' => m_running)
  BY DEF InternalProcess, CodecInv, TypeOK
<1>3. Holding' = Holding /\ Holding = 1
  BY <1>1 DEF Holding
<1>4. TypeOK'
  BY <1>1, <1>2, MainStays DEF CodecInv, TypeOK, Frames, WorkerStates
<1>5. NumbersInOrder'
  BY <1>1, <1>3, MainStays, FramesStay DEF CodecInv, Closing
<1>6. fed >= 1
  BY <1>3 DEF CodecInv, TypeOK, NumbersInOrder, InputNumbers, Waiting, FedInTime, Inside
<1>7. FedInTime' /\ FailsLater'
  BY <1>1, <1>2, <1>6, MainStays DEF CodecInv, FedInTime, FailsLater, Closing
<1>8. QED
  BY <1>1, <1>4, <1>5, <1>7, MainStays DEF CodecInv

LEMMA PushOutputInv == CodecInv /\ PushOutput => CodecInv'
<1> SUFFICES ASSUME CodecInv, PushOutput PROVE CodecInv'
  OBVIOUS
<1>1. /\ UNCHANGED mainVars /\ UNCHANGED <<m_running, m_input_queue, held>>
      /\ worker = "push" /\ worker' = "loop"
      /\ m_output_queue' = Append(m_output_queue, held)
  BY DEF PushOutput
<1>2. /\ m_output_queue \in Seq(1 .. calls) /\ Len(m_output_queue) \in Nat
      /\ fed \in 0 .. calls /\ calls \in Nat /\ Inside \in {0, 1, 2} /\ Inside <= fed
      /\ Waiting \in Nat
  BY DEF CodecInv, TypeOK, FedInTime, Inside, NumbersInOrder, InputNumbers
<1>3. Holding = 1 /\ Holding' = 0 /\ Inside' = Inside
  BY <1>1, MainStays DEF Holding
<1>4. held = fed - Inside + Len(m_output_queue) + 1 /\ held \in 1 .. calls
  BY <1>2, <1>3 DEF CodecInv, NumbersInOrder, HeldNumber, Waiting
<1>5. /\ m_output_queue' \in Seq(1 .. calls) /\ Len(m_output_queue') = Len(m_output_queue) + 1
      /\ \A j \in 1 .. Len(m_output_queue) : m_output_queue'[j] = m_output_queue[j]
      /\ m_output_queue'[Len(m_output_queue) + 1] = held
  BY <1>1, <1>2, <1>4
<1>6. TypeOK'
  BY <1>1, <1>5, MainStays DEF CodecInv, TypeOK, Frames, WorkerStates
<1>7. Waiting' = Waiting
  BY <1>2, <1>3, <1>5 DEF Waiting
<1>8. OutputNumbers'
  <2>1. SUFFICES ASSUME NEW j \in 1 .. Len(m_output_queue')
                 PROVE  m_output_queue'[j] = fed - Inside + j
    BY <1>1, <1>3, MainStays DEF OutputNumbers
  <2>2. CASE j = Len(m_output_queue) + 1
    BY <1>2, <1>4, <1>5, <2>2
  <2>3. CASE j \in 1 .. Len(m_output_queue)
    BY <1>5, <2>3 DEF CodecInv, NumbersInOrder, OutputNumbers
  <2>4. QED
    BY <1>2, <1>5, <2>2, <2>3
<1>9. HeldNumber' /\ InputNumbers'
  BY <1>1, <1>3, <1>7, MainStays DEF CodecInv, NumbersInOrder, HeldNumber, InputNumbers
<1>10. FedInTime' /\ FailsLater'
  BY <1>1, <1>3, MainStays DEF CodecInv, FedInTime, FailsLater, Closing
<1>11. QED
  BY <1>1, <1>6, <1>8, <1>9, <1>10, MainStays DEF CodecInv, NumbersInOrder

LEMMA LeaveThreadInv == CodecInv /\ LeaveThread => CodecInv'
<1> SUFFICES ASSUME CodecInv, LeaveThread PROVE CodecInv'
  OBVIOUS
<1>1. /\ UNCHANGED mainVars /\ UNCHANGED <<m_input_queue, m_output_queue, held>>
      /\ worker = "leave" /\ worker' = "done" /\ m_running' = FALSE
  BY DEF LeaveThread
<1>2. Holding' = Holding
  BY <1>1 DEF Holding
<1>3. TypeOK'
  BY <1>1, MainStays DEF CodecInv, TypeOK, Frames, WorkerStates
<1>4. NumbersInOrder'
  BY <1>1, <1>2, MainStays, FramesStay DEF CodecInv, Closing
<1>5. FedInTime' /\ FailsLater'
  BY <1>1, MainStays DEF CodecInv, FedInTime, FailsLater, Closing
<1>6. QED
  BY <1>1, <1>3, <1>4, <1>5, MainStays DEF CodecInv

-----------------------------------------------------------------------------
LEMMA CodecStep == CodecInv /\ [Next]_vars => CodecInv'
<1> SUFFICES ASSUME CodecInv, [Next]_vars PROVE CodecInv'
  OBVIOUS
<1>1. CASE Main
  BY <1>1, CallProcessInv, PushInputInv, FirstRoundInv, WaitForOutputInv, ProcessMetadataInv,
     StopInv, JoinInv
  DEF Main, MainInCall
<1>2. CASE Worker
  BY <1>2, TestRunningInv, TakeInputInv, InternalProcessInv, PushOutputInv, LeaveThreadInv
  DEF Worker
<1>3. CASE UNCHANGED vars
  <2>1. Holding' = Holding /\ UNCHANGED <<m_input_queue, m_output_queue, held>>
    BY <1>3 DEF vars, Holding
  <2>2. UNCHANGED mainVars /\ UNCHANGED <<worker, m_running>>
    BY <1>3 DEF vars, mainVars
  <2>3. NumbersInOrder'
    BY <2>1, <2>2, MainStays, FramesStay DEF CodecInv, Closing
  <2>4. TypeOK' /\ FedInTime' /\ FailsLater'
    BY <2>1, <2>2, MainStays DEF CodecInv, TypeOK, Frames, FedInTime, FailsLater, Closing
  <2>5. QED
    BY <2>2, <2>3, <2>4, MainStays DEF CodecInv
<1>4. QED
  BY <1>1, <1>2, <1>3 DEF Next, Destroyed

LEMMA CodecInvariant == Spec => []CodecInv
<1>1. QED
  BY CodecInit, CodecStep, PTL DEF Spec

(* The type invariant of a pipelined element; in particular no frame is    *)
(* output that was not put in.                                             *)
THEOREM CodecTypeCorrect == Spec => []TypeOK
<1>1. CodecInv => TypeOK
  BY DEF CodecInv
<1>2. QED
  BY <1>1, CodecInvariant, PTL

(* Whatever the interleaving of the two threads and whenever the worker    *)
(* fails, a frame leaves the element together with its own metadata.       *)
THEOREM CodecMetadataMatchesFrame == Spec => []MetadataMatchesFrame
<1>1. CodecInv => MetadataMatchesFrame
  BY DEF CodecInv
<1>2. QED
  BY <1>1, CodecInvariant, PTL

(* The two unbounded queues of ModPlugin stay short.                       *)
THEOREM CodecAtMostTwoInFlight == Spec => []AtMostTwoInFlight
<1>1. CodecInv => AtMostTwoInFlight
  <2> SUFFICES ASSUME CodecInv PROVE AtMostTwoInFlight
    OBVIOUS
  <2>1. Len(m_input_queue) \in Nat /\ Len(m_output_queue) \in Nat
    BY DEF CodecInv, TypeOK
  <2>2. InFlight = Inside \/ (InFlight = Inside + 1 /\ main \in {"joining", "joined"})
    BY <2>1 DEF CodecInv, NumbersInOrder, InputNumbers, Waiting, Holding, InFlight, Inside
  <2>3. QED
    BY <2>2 DEF AtMostTwoInFlight, Inside
<1>2. QED
  BY <1>1, CodecInvariant, PTL

-----------------------------------------------------------------------------
(* Every step of the two threads is a step of DelayLine, or changes        *)
(* nothing there: process_metadata() completes a call, all else is inside. *)
LEMMA RoundsStay ==
    ASSUME CodecInv, UNCHANGED <<calls, fed, edge>>, InCall' = InCall
    PROVE  UNCHANGED Delay!dvars
<1>1. Rounds' = Rounds
  BY DEF Rounds
<1>2. QED
  BY <1>1 DEF Delay!dvars

LEMMA MetadataImplements == CodecInv /\ ProcessMetadata => Delay!End
<1> SUFFICES ASSUME CodecInv, ProcessMetadata PROVE Delay!End
  OBVIOUS
<1>1. /\ main = "metadata" /\ main' = "idle" /\ calls' = calls /\ fed' = fed
      /\ edge' = [frame |-> dataOut, meta |-> calls - 1]
  BY MetadataOut DEF ProcessMetadata
<1>2. calls \in Nat /\ fed \in 0 .. calls /\ calls >= 1
  BY <1>1 DEF CodecInv, TypeOK, CallStarted, InCall
<1>3. InCall = TRUE /\ InCall' = FALSE /\ Rounds = calls - 1 /\ Rounds' = calls
  BY <1>1 DEF InCall, Rounds
<1>4. CASE fed = calls /\ dataOut = calls - 1
  <2>1. Delay!FinishWithFrame
    BY <1>1, <1>2, <1>3, <1>4 DEF Delay!FinishWithFrame, Delay!Finish
  <2>2. QED
    BY <2>1 DEF Delay!End
<1>5. CASE fed < calls /\ dataOut = Nothing /\ calls >= 2
  <2>1. Delay!FinishBroken
    BY <1>1, <1>2, <1>3, <1>5 DEF Delay!FinishBroken, Delay!Finish, Nothing
  <2>2. QED
    BY <2>1 DEF Delay!End
<1>6. QED
  BY <1>1, <1>4, <1>5 DEF CodecInv, OutputReady

LEMMA CallProcessImplements == CodecInv /\ CallProcess => Delay!Begin
<1> SUFFICES ASSUME CodecInv, CallProcess PROVE Delay!Begin
  OBVIOUS
<1>1. /\ calls \in Nat /\ calls < MaxCalls /\ calls' = calls + 1 /\ fed' = fed /\ edge' = edge
      /\ main = "idle" /\ main' \in {"checked", "metadata"}
  BY MaxCallsAssumption DEF CodecInv, TypeOK, CallProcess
<1>2. InCall = FALSE /\ InCall' = TRUE /\ Rounds = calls /\ Rounds' = calls
  BY <1>1 DEF InCall, Rounds
<1>3. QED
  BY <1>1, <1>2 DEF Delay!Begin

LEMMA PushInputImplements == CodecInv /\ PushInput => UNCHANGED Delay!dvars
<1> SUFFICES ASSUME CodecInv, PushInput PROVE UNCHANGED Delay!dvars
  OBVIOUS
<1>1. /\ calls \in Nat /\ calls' = calls /\ fed = calls - 1 /\ fed' = calls /\ edge' = edge
      /\ main = "checked" /\ main' = "pushed"
  BY DEF CodecInv, TypeOK, FedInTime, PushInput
<1>2. InCall = TRUE /\ InCall' = TRUE /\ Rounds = calls - 1 /\ Rounds' = calls - 1
  BY <1>1 DEF InCall, Rounds
<1>3. QED
  BY <1>1, <1>2 DEF Delay!dvars

LEMMA CodecStepImplements ==
    CodecInv /\ [Next]_vars => [Delay!DelayNext]_(Delay!dvars)
<1> SUFFICES ASSUME CodecInv, [Next]_vars PROVE Delay!DelayNext \/ UNCHANGED Delay!dvars
  OBVIOUS
<1>1. CASE CallProcess \/ ProcessMetadata
  BY <1>1, CallProcessImplements, MetadataImplements DEF Delay!DelayNext
<1>2. CASE PushInput
  BY <1>2, PushInputImplements
<1>3. CASE FirstRound \/ WaitForOutput \/ Join \/ StopPipelineThread
  <2>1. UNCHANGED <<calls, fed, edge>> /\ InCall' = InCall
    BY <1>3 DEF FirstRound, WaitForOutput, Join, StopPipelineThread, InCall
  <2>2. QED
    BY <2>1, RoundsStay
<1>4. CASE Worker
  <2>1. UNCHANGED <<calls, fed, edge, main>>
    BY <1>4 DEF Worker, TestRunning, TakeInput, InternalProcess, PushOutput, LeaveThread, mainVars
  <2>2. QED
    BY <2>1, RoundsStay DEF InCall
<1>5. CASE UNCHANGED vars
  BY <1>5, RoundsStay DEF vars, InCall
<1>6. QED
  BY <1>1, <1>2, <1>3, <1>4, <1>5 DEF Next, Main, MainInCall, Destroyed

(* The safety part of ImplementsDelayLine: one call of latency, in order,  *)
(* nothing skipped or repeated until the worker fails, and nothing after.  *)
THEOREM CodecImplementsDelayLine ==
    Spec => Delay!DelayInit /\ [][Delay!DelayNext]_(Delay!dvars)
<1>1. Init => Delay!DelayInit
  BY DEF Init, Delay!DelayInit, Rounds, InCall, Nothing
<1>2. QED
  BY <1>1, CodecStepImplements, CodecInvariant, PTL DEF Spec

-----------------------------------------------------------------------------
(* src/lib/RemoteControl.cpp: the list of controllable objects.            *)

(* The remote control takes its own steps only.                            *)
LEMMA RemoteIsAlone == MainSpec => Remote!Init /\ [][Remote!Next]_rcVars
<1>1. MainInit => Remote!Init
  BY DEF MainInit
<1>2. [MainNext \/ MayStop]_<<part, vars, graphVars, loopVars, rcVars, fileVars>>
        => [Remote!Next]_rcVars
  BY DEF MainNext, MayStop, Choose
<1>3. QED
  BY <1>1, <1>2, PTL DEF MainSpec

(* How many of a set of numbers come before and at a place.                *)
Rank(S, i) == Cardinality({k \in S : k <= i})

(* The places of a finite set of numbers are those from 1 on, each once.   *)
LEMMA RankCounts ==
    ASSUME NEW S, S \subseteq Nat, IsFiniteSet(S)
    PROVE  /\ Cardinality(S) \in Nat
           /\ \A i \in S : Rank(S, i) \in 1 .. Cardinality(S)
           /\ \A i, j \in S : Rank(S, i) = Rank(S, j) => i = j
           /\ \A n \in 1 .. Cardinality(S) : \E i \in S : Rank(S, i) = n
<1> DEFINE Upto(i) == {k \in S : k <= i}
           c == Cardinality(S)
           f == [i \in S |-> Rank(S, i)]
<1>1. c \in Nat
  BY FS_CardinalityType
<1>2. \A i \in S : IsFiniteSet(Upto(i)) /\ Cardinality(Upto(i)) <= c
  BY FS_Subset
<1>3. \A i \in S : Cardinality(Upto(i)) \in Nat \ {0}
  <2> SUFFICES ASSUME NEW i \in S PROVE Cardinality(Upto(i)) \in Nat \ {0}
    OBVIOUS
  <2>1. i \in Upto(i)
    OBVIOUS
  <2>2. IsFiniteSet(Upto(i))
    BY <1>2
  <2>3. Upto(i) # {} /\ Cardinality(Upto(i)) \in Nat
    BY <2>1, <2>2, FS_CardinalityType
  <2>4. Cardinality(Upto(i)) # 0
    BY <2>2, <2>3, FS_EmptySet
  <2>5. QED
    BY <2>3, <2>4
<1>4. \A i \in S : Rank(S, i) \in 1 .. c
  BY <1>1, <1>2, <1>3 DEF Rank
<1>5. \A i, j \in S : i < j => Rank(S, i) # Rank(S, j)
  <2> SUFFICES ASSUME NEW i \in S, NEW j \in S, i < j, Rank(S, i) = Rank(S, j) PROVE FALSE
    OBVIOUS
  <2>1. Upto(i) \in SUBSET Upto(j)
    <3>1. \A k \in S : k \in Nat /\ i \in Nat /\ j \in Nat
      OBVIOUS
    <3>2. \A k \in S : k <= i => k <= j
      BY <3>1
    <3>3. QED
      BY <3>2
  <2>2. Cardinality(Upto(j)) = Cardinality(Upto(i))
    BY DEF Rank
  <2>3. Upto(j) = Upto(i)
    BY <1>2, <2>1, <2>2, FS_Subset
  <2>4. j \in Upto(j) /\ j \notin Upto(i)
    OBVIOUS
  <2>5. QED
    BY <2>3, <2>4
<1>6. \A i, j \in S : Rank(S, i) = Rank(S, j) => i = j
  BY <1>5
<1>7. f \in Injection(S, 1 .. c)
  BY <1>4, <1>6 DEF Injection, IsInjective
<1>8. IsFiniteSet(1 .. c) /\ Cardinality(1 .. c) = c
  BY <1>1, FS_Interval
<1>9. f \in Surjection(S, 1 .. c)
  BY <1>7, <1>8, FS_Injection
<1>10. \A n \in 1 .. c : \E i \in S : f[i] = n
  BY <1>9 DEF Surjection
<1>11. QED
  BY <1>1, <1>4, <1>6, <1>10

(* Each object once.                                                       *)
EachOnce(list) == \A i, j \in DOMAIN list : list[i] = list[j] => i = j

Entries(list) == {list[i] : i \in DOMAIN list}

(* std::list::remove() leaves the others, each once.                       *)
LEMMA WithoutKeeps ==
    ASSUME NEW S, NEW list \in Seq(S), EachOnce(list), NEW objects
    PROVE  /\ Remote!Without(list, objects) \in Seq(S)
           /\ EachOnce(Remote!Without(list, objects))
           /\ Entries(Remote!Without(list, objects)) = Entries(list) \ objects
<1> DEFINE left == Remote!Without(list, objects)
           kept == {i \in DOMAIN list : list[i] \notin objects}
           c == Cardinality(kept)
           At(n) == CHOOSE i \in kept : Rank(kept, i) = n
<1>1. DOMAIN list = 1 .. Len(list) /\ Len(list) \in Nat /\ \A i \in DOMAIN list : list[i] \in S
  OBVIOUS
<1>2. kept \subseteq Nat /\ IsFiniteSet(kept)
  <2>1. IsFiniteSet(1 .. Len(list))
    BY <1>1, FS_Interval
  <2>2. kept \in SUBSET (1 .. Len(list))
    BY <1>1
  <2>3. QED
    BY <1>1, <2>1, <2>2, FS_Subset
<1>3. left = [n \in 1 .. c |-> list[At(n)]]
  BY Zenon DEF Remote!Without, Rank, Remote!Cardinality, Cardinality
<1> HIDE DEF left, kept
<1>4. /\ c \in Nat
      /\ \A i \in kept : Rank(kept, i) \in 1 .. c
      /\ \A i, j \in kept : Rank(kept, i) = Rank(kept, j) => i = j
      /\ \A n \in 1 .. c : \E i \in kept : Rank(kept, i) = n
  BY <1>2, RankCounts
<1>5. \A n \in 1 .. c : At(n) \in kept /\ Rank(kept, At(n)) = n
  BY <1>4
<1>6. \A i \in kept : At(Rank(kept, i)) = i
  BY <1>4, <1>5
<1> HIDE DEF At, c
<1>7. \A i : i \in kept <=> i \in DOMAIN list /\ list[i] \notin objects
  BY DEF kept
<1>8. DOMAIN left = 1 .. c /\ \A n \in 1 .. c : left[n] = list[At(n)] /\ left[n] \in S
  BY <1>1, <1>3, <1>5, <1>7
<1>9. left \in Seq(S)
  BY <1>3, <1>4, <1>8
<1>10. EachOnce(left)
  BY <1>5, <1>7, <1>8 DEF EachOnce
<1>11. Entries(left) = Entries(list) \ objects
  <2>1. \A n \in DOMAIN left : left[n] \in Entries(list) \ objects
    BY <1>5, <1>7, <1>8 DEF Entries
  <2>2. \A i \in DOMAIN list : list[i] \notin objects => list[i] \in Entries(left)
    <3> SUFFICES ASSUME NEW i \in DOMAIN list, list[i] \notin objects
                 PROVE  list[i] \in Entries(left)
      OBVIOUS
    <3>1. i \in kept
      BY <1>7
    <3>2. Rank(kept, i) \in DOMAIN left /\ left[Rank(kept, i)] = list[i]
      BY <1>4, <1>6, <1>8, <3>1 DEF c
    <3>3. QED
      BY <3>2 DEF Entries
  <2>3. QED
    BY <2>1, <2>2 DEF Entries
<1>12. QED
  BY <1>9, <1>10, <1>11 DEF left

(* So it is with objects that are new to the list.                         *)
LEMMA EnrolKeeps ==
    ASSUME NEW S, NEW list \in Seq(S), EachOnce(list), NEW more \in Seq(S), EachOnce(more),
           Entries(list) \cap Entries(more) = {}
    PROVE  /\ list \o more \in Seq(S)
           /\ EachOnce(list \o more)
           /\ Entries(list \o more) = Entries(list) \cup Entries(more)
<1> DEFINE both == list \o more
           n == Len(list)
           m == Len(more)
<1>1. /\ n \in Nat /\ m \in Nat /\ DOMAIN list = 1 .. n /\ DOMAIN more = 1 .. m
      /\ both \in Seq(S) /\ DOMAIN both = 1 .. n + m
  OBVIOUS
<1>2. /\ \A i \in 1 .. n : both[i] = list[i]
      /\ \A i \in n + 1 .. n + m : both[i] = more[i - n]
  OBVIOUS
<1> HIDE DEF both, n, m
<1>3. \A i \in 1 .. n + m : i \in 1 .. n \/ (i \in n + 1 .. n + m /\ i - n \in 1 .. m)
  BY <1>1
<1>4. \A i \in 1 .. m : i + n \in n + 1 .. n + m /\ (i + n) - n = i
  BY <1>1
<1>5. \A i \in 1 .. n : i \in 1 .. n + m
  BY <1>1
<1>6. \A i \in 1 .. n + m :
         \/ i \in 1 .. n /\ both[i] = list[i] /\ both[i] \in Entries(list)
         \/ /\ i \notin 1 .. n /\ i - n \in 1 .. m
            /\ both[i] = more[i - n] /\ both[i] \in Entries(more)
  <2> SUFFICES ASSUME NEW i \in 1 .. n + m
               PROVE  \/ i \in 1 .. n /\ both[i] = list[i] /\ both[i] \in Entries(list)
                      \/ /\ i \notin 1 .. n /\ i - n \in 1 .. m
                         /\ both[i] = more[i - n] /\ both[i] \in Entries(more)
    OBVIOUS
  <2>1. CASE i \in 1 .. n
    BY <1>1, <1>2, <2>1 DEF Entries
  <2>2. CASE i \notin 1 .. n
    <3>1. i \in n + 1 .. n + m /\ i - n \in 1 .. m
      BY <1>3, <2>2
    <3>2. both[i] = more[i - n]
      BY <1>2, <3>1
    <3>3. QED
      BY <1>1, <2>2, <3>1, <3>2 DEF Entries
  <2>3. QED
    BY <2>1, <2>2
<1>7. Entries(both) = Entries(list) \cup Entries(more)
  <2>1. Entries(both) \subseteq Entries(list) \cup Entries(more)
    BY <1>1, <1>6 DEF Entries
  <2>2. Entries(list) \subseteq Entries(both)
    BY <1>1, <1>2, <1>5 DEF Entries
  <2>3. Entries(more) \subseteq Entries(both)
    <3> SUFFICES ASSUME NEW i \in 1 .. m PROVE more[i] \in Entries(both)
      BY <1>1 DEF Entries
    <3>1. i + n \in DOMAIN both
      BY <1>1
    <3>2. both[i + n] = more[i]
      BY <1>2, <1>4
    <3>3. QED
      BY <3>1, <3>2 DEF Entries
  <2>4. QED
    BY <2>1, <2>2, <2>3
<1>8. EachOnce(both)
  <2> SUFFICES ASSUME NEW i \in 1 .. n + m, NEW j \in 1 .. n + m, both[i] = both[j]
               PROVE  i = j
    BY <1>1 DEF EachOnce
  <2>1. CASE i \in 1 .. n /\ j \in 1 .. n
    BY <1>1, <1>2, <2>1 DEF EachOnce
  <2>2. CASE i \notin 1 .. n /\ j \notin 1 .. n
    <3>1. /\ i - n \in 1 .. m /\ both[i] = more[i - n]
          /\ j - n \in 1 .. m /\ both[j] = more[j - n]
      BY <1>6, <2>2
    <3>2. i - n = j - n
      BY <1>1, <3>1 DEF EachOnce
    <3>3. QED
      BY <1>1, <3>2
  <2>3. CASE (i \in 1 .. n) # (j \in 1 .. n)
    <3>1. both[i] \in Entries(list) /\ both[i] \in Entries(more)
      BY <1>6, <2>3
    <3>2. QED
      BY <3>1
  <2>4. QED
    BY <2>1, <2>2, <2>3
<1>9. QED
  BY <1>1, <1>7, <1>8 DEF both

ObjectName == {"sdr", "mainloop", "tist", "modulator", "tii", "gain"}
Object == ObjectName \X Nat

(* No two objects have one name.                                           *)
Unique(objects) == \A o, p \in objects : o[1] = p[1] => o = p

Lasting == {"sdr", "mainloop", "tist"}
OfTheRun == {"modulator", "tii", "gain"}

Named(objects, names) == \A o \in objects : o[1] \in names

(* What lives while the main thread is at a place: the list has all of it, *)
(* and when the reader is replaced there are two of the new one's name.    *)
RemoteInv ==
    /\ controllables \in Seq(Object) /\ EachOnce(controllables)
    /\ Entries(controllables) = living
    /\ run \in Nat /\ \A o \in living : o[2] <= run
    /\ program = "config" => living = {}
    /\ program \in {"between", "build"} => Unique(living) /\ Named(living, Lasting)
    /\ program = "replace" => /\ <<"tist", run>> \in living /\ Named(living, Lasting)
                              /\ Unique({o \in living : o[1] # "tist"})
    /\ program \in {"frames", "restart"} =>
          Unique(living) /\ Named(living, Lasting \cup OfTheRun)

LEMMA NamesOnce ==
    /\ <<"sdr", "mainloop">> \in Seq(ObjectName) /\ EachOnce(<<"sdr", "mainloop">>)
    /\ <<"tist">> \in Seq(ObjectName) /\ EachOnce(<<"tist">>)
    /\ <<"modulator", "tii", "gain">> \in Seq(ObjectName) /\ EachOnce(<<"modulator", "tii", "gain">>)
<1>1. EachOnce(<<"sdr", "mainloop">>)
  <2> DEFINE names == <<"sdr", "mainloop">>
  <2>1. /\ \A i \in DOMAIN names : i = 1 \/ i = 2
        /\ names[1] = "sdr" /\ names[2] = "mainloop"
    OBVIOUS
  <2> HIDE DEF names
  <2>2. EachOnce(names)
    BY <2>1 DEF EachOnce
  <2>3. QED
    BY <2>2 DEF names
<1>2. EachOnce(<<"tist">>)
  <2>1. \A i \in DOMAIN <<"tist">> : i = 1
    OBVIOUS
  <2>2. QED
    BY <2>1 DEF EachOnce
<1>3. EachOnce(<<"modulator", "tii", "gain">>)
  <2> DEFINE names == <<"modulator", "tii", "gain">>
  <2>1. /\ \A i \in DOMAIN names : i = 1 \/ i = 2 \/ i = 3
        /\ names[1] = "modulator" /\ names[2] = "tii" /\ names[3] = "gain"
    OBVIOUS
  <2> HIDE DEF names
  <2>2. EachOnce(names)
    BY <2>1 DEF EachOnce
  <2>3. QED
    BY <2>2 DEF names
<1>4. <<"sdr", "mainloop">> \in Seq(ObjectName)
  BY DEF ObjectName
<1>5. <<"tist">> \in Seq(ObjectName)
  BY DEF ObjectName
<1>6. <<"modulator", "tii", "gain">> \in Seq(ObjectName)
  BY DEF ObjectName
<1>7. QED
  BY <1>1, <1>2, <1>3, <1>4, <1>5, <1>6, Zenon

(* Enrolling objects of new names, or of another run.                      *)
LEMMA EnrolAdds ==
    ASSUME RemoteInv, NEW names \in Seq(ObjectName), EachOnce(names), Remote!Enrol(names),
           run' \in Nat, run' >= run, \A i \in DOMAIN names : <<names[i], run'>> \notin living
    PROVE  /\ controllables' \in Seq(Object) /\ EachOnce(controllables')
           /\ living' = living \cup {<<names[i], run'>> : i \in DOMAIN names}
           /\ Entries(controllables') = living' /\ \A o \in living' : o[2] <= run'
<1> DEFINE objects == [i \in DOMAIN names |-> <<names[i], run'>>]
<1>1. /\ controllables' = controllables \o objects
      /\ living' = living \cup Remote!Range(objects)
  BY DEF Remote!Enrol
<1>2. Remote!Range(objects) = Entries(objects)
  BY DEF Remote!Range, Entries
<1>3. /\ DOMAIN names = 1 .. Len(names) /\ Len(names) \in Nat
      /\ \A i \in DOMAIN names : names[i] \in ObjectName
  OBVIOUS
<1>4. /\ DOMAIN objects = DOMAIN names
      /\ \A i \in DOMAIN names : objects[i] = <<names[i], run'>> /\ objects[i] \in Object
  BY <1>3 DEF Object
<1>5. objects \in Seq(Object)
  BY <1>3, <1>4
<1>6. EachOnce(objects)
  BY <1>4 DEF EachOnce
<1>7. Entries(objects) = {<<names[i], run'>> : i \in DOMAIN names}
  BY <1>4 DEF Entries
<1>8. Entries(controllables) \cap Entries(objects) = {}
  BY <1>7 DEF RemoteInv
<1>9. /\ controllables \o objects \in Seq(Object)
      /\ EachOnce(controllables \o objects)
      /\ Entries(controllables \o objects) = Entries(controllables) \cup Entries(objects)
  <2> HIDE DEF objects
  <2>1. QED
    BY <1>5, <1>6, <1>8, EnrolKeeps DEF RemoteInv
<1> HIDE DEF objects
<1>10. \A o \in living : o[2] \in Nat /\ o[2] <= run'
  <2>1. \A i \in DOMAIN controllables : controllables[i] \in Object
    BY DEF RemoteInv
  <2>2. \A o \in living : o \in Object
    BY <2>1 DEF RemoteInv, Entries
  <2>3. QED
    BY <2>2 DEF RemoteInv, Object
<1>11. \A o \in Entries(objects) : o[2] <= run'
  BY <1>7
<1>12. QED
  BY <1>1, <1>2, <1>7, <1>9, <1>10, <1>11 DEF RemoteInv

LEMMA DestroyRemoves ==
    ASSUME RemoteInv, NEW objects, Remote!Destroy(objects), run' = run
    PROVE  /\ controllables' \in Seq(Object) /\ EachOnce(controllables')
           /\ living' = living \ objects
           /\ Entries(controllables') = living' /\ \A o \in living' : o[2] <= run'
<1>1. /\ controllables' = Remote!Without(controllables, objects)
      /\ living' = living \ objects
  BY DEF Remote!Destroy
<1>2. /\ controllables' \in Seq(Object) /\ EachOnce(controllables')
      /\ Entries(controllables') = Entries(controllables) \ objects
  BY <1>1, WithoutKeeps DEF RemoteInv
<1>3. QED
  BY <1>1, <1>2 DEF RemoteInv

LEMMA PrepareKeeps == ASSUME RemoteInv, Remote!Prepare PROVE RemoteInv'
<1>1. CASE program' = "exit"
  <2>1. UNCHANGED <<controllables, living, run>>
    BY <1>1 DEF Remote!Prepare, Remote!objectVars
  <2>2. QED
    BY <1>1, <2>1 DEF RemoteInv
<1>2. CASE program' = "between"
  <2> DEFINE names == <<"sdr", "mainloop">>
  <2>1. program = "config" /\ run' = run /\ Remote!Enrol(names)
    BY <1>2 DEF Remote!Prepare
  <2>2. names \in Seq(ObjectName) /\ EachOnce(names)
    BY NamesOnce
  <2>3. living = {} /\ run' \in Nat /\ run' >= run
    BY <2>1 DEF RemoteInv
  <2>4. /\ controllables' \in Seq(Object) /\ EachOnce(controllables')
        /\ living' = living \cup {<<names[i], run'>> : i \in DOMAIN names}
        /\ Entries(controllables') = living' /\ \A o \in living' : o[2] <= run'
    <3> HIDE DEF names
    <3>1. QED
      BY <2>1, <2>2, <2>3, EnrolAdds
  <2>5. living' = {<<"sdr", run'>>, <<"mainloop", run'>>}
    BY <2>3, <2>4
  <2>6. Unique(living') /\ Named(living', Lasting)
    BY <2>5 DEF Unique, Named, Lasting
  <2>7. QED
    BY <1>2, <2>3, <2>4, <2>6 DEF RemoteInv
<1>3. QED
  BY <1>1, <1>2 DEF Remote!Prepare

LEMMA NewReaderKeeps == ASSUME RemoteInv, Remote!NewReader PROVE RemoteInv'
<1> DEFINE names == <<"tist">>
<1>1. /\ program = "between" /\ run' = run + 1 /\ Remote!Enrol(names)
      /\ program' = "replace"
  BY DEF Remote!NewReader
<1>2. names \in Seq(ObjectName) /\ EachOnce(names)
  BY NamesOnce
<1>3. /\ run \in Nat /\ run' \in Nat /\ run' >= run
      /\ \A i \in DOMAIN names : <<names[i], run'>> \notin living
  <2>1. run \in Nat /\ \A o \in living : o[2] <= run
    BY DEF RemoteInv
  <2>2. \A x : <<x, run'>> \in living => run' <= run
    BY <2>1
  <2>3. QED
    BY <1>1, <2>1, <2>2
<1>4. /\ controllables' \in Seq(Object) /\ EachOnce(controllables')
      /\ living' = living \cup {<<names[i], run'>> : i \in DOMAIN names}
      /\ Entries(controllables') = living' /\ \A o \in living' : o[2] <= run'
  <2> HIDE DEF names
  <2>1. QED
    BY <1>1, <1>2, <1>3, EnrolAdds
<1>5. living' = living \cup {<<"tist", run'>>}
  BY <1>4
<1>6. /\ <<"tist", run'>> \in living' /\ Named(living', Lasting)
      /\ Unique({o \in living' : o[1] # "tist"})
  BY <1>1, <1>5 DEF RemoteInv, Unique, Named, Lasting
<1>7. QED
  BY <1>1, <1>3, <1>4, <1>6 DEF RemoteInv

LEMMA ReplaceReaderKeeps == ASSUME RemoteInv, Remote!ReplaceReader PROVE RemoteInv'
<1> DEFINE objects == Remote!Objects({"tist"}) \ {<<"tist", run>>}
<1>1. program = "replace" /\ run' = run /\ Remote!Destroy(objects) /\ program' = "build"
  BY DEF Remote!ReplaceReader
<1>2. /\ controllables' \in Seq(Object) /\ EachOnce(controllables')
      /\ living' = living \ objects
      /\ Entries(controllables') = living' /\ \A o \in living' : o[2] <= run'
  <2> HIDE DEF objects
  <2>1. QED
    BY <1>1, DestroyRemoves
<1>3. \A o \in living' : o \in living /\ (o[1] = "tist" => o = <<"tist", run>>)
  BY <1>2 DEF Remote!Objects
<1>4. Unique(living') /\ Named(living', Lasting)
  BY <1>1, <1>3 DEF RemoteInv, Unique, Named
<1>5. QED
  BY <1>1, <1>2, <1>4 DEF RemoteInv

LEMMA BuildKeeps == ASSUME RemoteInv, Remote!Build PROVE RemoteInv'
<1> DEFINE names == <<"modulator", "tii", "gain">>
<1>1. program = "build" /\ run' = run /\ Remote!Enrol(names) /\ program' = "frames"
  BY DEF Remote!Build
<1>2. names \in Seq(ObjectName) /\ EachOnce(names)
  BY NamesOnce
<1>3. /\ run \in Nat /\ Unique(living) /\ \A o \in living : o[1] \in Lasting
  BY <1>1 DEF RemoteInv, Named
<1>4. \A i \in DOMAIN names : <<names[i], run'>> \notin living
  <2>1. \A x : <<x, run'>> \in living => x \in Lasting
    BY <1>3
  <2>2. \A i \in DOMAIN names : names[i] \notin Lasting
    BY DEF Lasting
  <2>3. QED
    BY <2>1, <2>2
<1>5. /\ controllables' \in Seq(Object) /\ EachOnce(controllables')
      /\ living' = living \cup {<<names[i], run'>> : i \in DOMAIN names}
      /\ Entries(controllables') = living' /\ \A o \in living' : o[2] <= run'
  <2> HIDE DEF names
  <2>1. run' \in Nat /\ run' >= run
    BY <1>1, <1>3
  <2>2. QED
    BY <1>1, <1>2, <1>4, <2>1, EnrolAdds
<1>6. living' = living \cup {<<"modulator", run'>>, <<"tii", run'>>, <<"gain", run'>>}
  BY <1>5
<1>7. Unique(living') /\ Named(living', Lasting \cup OfTheRun)
  BY <1>3, <1>6 DEF Unique, Named, Lasting, OfTheRun
<1>8. QED
  BY <1>1, <1>3, <1>5, <1>7 DEF RemoteInv

LEMMA EndRunKeeps == ASSUME RemoteInv, Remote!EndRun PROVE RemoteInv'
<1> DEFINE objects == Remote!Objects({"modulator", "tii", "gain"})
<1>1. program = "frames" /\ run' = run /\ Remote!Destroy(objects) /\ program' = "between"
  BY DEF Remote!EndRun
<1>2. /\ controllables' \in Seq(Object) /\ EachOnce(controllables')
      /\ living' = living \ objects
      /\ Entries(controllables') = living' /\ \A o \in living' : o[2] <= run'
  <2> HIDE DEF objects
  <2>1. QED
    BY <1>1, DestroyRemoves
<1>3. \A o \in living' : o \in living /\ o[1] \notin OfTheRun
  BY <1>2 DEF Remote!Objects, OfTheRun
<1>4. Unique(living') /\ Named(living', Lasting)
  BY <1>1, <1>3 DEF RemoteInv, Unique, Named
<1>5. QED
  BY <1>1, <1>2, <1>4 DEF RemoteInv

(* Everything else leaves the list alone, and the program where it is or   *)
(* where as much is said of it.                                            *)
LEMMA RemoteStep == ASSUME RemoteInv, [Remote!Next]_rcVars PROVE RemoteInv'
<1>1. CASE Remote!Prepare
  BY <1>1, PrepareKeeps
<1>2. CASE Remote!NewReader
  BY <1>2, NewReaderKeeps
<1>3. CASE Remote!ReplaceReader
  BY <1>3, ReplaceReaderKeeps
<1>4. CASE Remote!Build
  BY <1>4, BuildKeeps
<1>5. CASE Remote!EndRun
  BY <1>5, EndRunKeeps
<1>6. CASE /\ UNCHANGED <<controllables, living, run>>
           /\ \/ program' = program
              \/ program' \in {"exit", "join", "gone", "aborted"}
              \/ {program, program'} \subseteq {"frames", "restart"}
  BY <1>6 DEF RemoteInv
<1>7. CASE Remote!AddController \/ Remote!CheckFaults \/ Remote!RestartController
           \/ Remote!Exit \/ Remote!Destructor \/ Remote!Joined
  BY <1>6, <1>7
  DEF Remote!AddController, Remote!CheckFaults, Remote!RestartController, Remote!Exit,
      Remote!Destructor, Remote!Joined, Remote!objectVars
<1>8. CASE Remote!StopChild \/ Remote!StartChild \/ Remote!BeginZmq \/ Remote!BeginTelnet
           \/ Remote!Fault \/ Remote!Leave \/ Remote!Stopped
  BY <1>6, <1>8
  DEF Remote!StopChild, Remote!StartChild, Remote!BeginZmq, Remote!BeginTelnet, Remote!Fault,
      Remote!Leave, Remote!Stopped, Remote!objectVars
<1>9. CASE \/ \E name \in {"mainloop", "tist", "gain"} :
                  Remote!TelnetRequest(name) \/ Remote!ZmqRequest(name)
           \/ Remote!TelnetReply \/ Remote!ZmqReply
  BY <1>6, <1>9
  DEF Remote!TelnetRequest, Remote!ZmqRequest, Remote!TelnetReply, Remote!ZmqReply, Remote!Call,
      Remote!objectVars
<1>10. CASE UNCHANGED rcVars
  BY <1>6, <1>10 DEF rcVars
<1>11. QED
  BY <1>1, <1>2, <1>3, <1>4, <1>5, <1>7, <1>8, <1>9, <1>10
  DEF Remote!Next, Remote!Main, Remote!Controller

(* src/lib/RemoteControl.cpp, RemoteControllers::enrol() and               *)
(* remove_controllable(): over any number of flowgraphs, and whatever the  *)
(* threads of the controller do meanwhile, the list has the objects of the *)
(* present flowgraph only, each once and under a name of its own.          *)
THEOREM MainFindsTheLiving == MainSpec => []FindsTheLiving
<1>1. Remote!Init => RemoteInv
  <2> SUFFICES ASSUME Remote!Init PROVE RemoteInv
    OBVIOUS
  <2>1. program = "config" /\ controllables = <<>> /\ living = {} /\ run = 0
    BY DEF Remote!Init
  <2>2. controllables \in Seq(Object) /\ EachOnce(controllables) /\ Entries(controllables) = {}
    BY <2>1 DEF EachOnce, Entries
  <2>3. QED
    BY <2>1, <2>2 DEF RemoteInv
<1>2. RemoteInv /\ [Remote!Next]_rcVars => RemoteInv'
  BY RemoteStep
<1>3. RemoteInv => FindsTheLiving
  <2> SUFFICES ASSUME RemoteInv, program = "frames"
               PROVE  /\ Remote!Range(controllables) = living
                      /\ \A i, j \in DOMAIN controllables :
                            controllables[i][1] = controllables[j][1] => i = j
    BY DEF FindsTheLiving, Remote!FindsTheLiving
  <2>1. Remote!Range(controllables) = living
    BY DEF Remote!Range, Entries, RemoteInv
  <2>2. Unique(living) /\ \A i \in DOMAIN controllables : controllables[i] \in living
    BY DEF RemoteInv, Entries
  <2>3. QED
    BY <2>1, <2>2 DEF RemoteInv, Unique, EachOnce
<1>4. QED
  BY <1>1, <1>2, <1>3, RemoteIsAlone, PTL

-----------------------------------------------------------------------------
(* src/InputFileReader.cpp: the frames of a file.                          *)

(* The reader takes its own steps only.                                    *)
LEMMA FileIsAlone == MainSpec => Input!Init /\ [][Input!Next]_fileVars
<1>1. MainInit => Input!Init
  BY DEF MainInit
<1>2. [MainNext \/ MayStop]_<<part, vars, graphVars, loopVars, rcVars, fileVars>>
        => [Input!Next]_fileVars
  BY DEF MainNext, MayStop, Choose
<1>3. QED
  BY <1>1, <1>2, PTL DEF MainSpec

(* After the last place of a round comes the first.                        *)
LEMMA NextInRound ==
    ASSUME NEW n \in Nat \ {0}, NEW r \in Nat \ {0}
    PROVE  LET i == ((r - 1) % n) + 1
           IN  i \in 1 .. n /\ (r % n) + 1 = IF i = n THEN 1 ELSE i + 1
<1> DEFINE q == (r - 1) \div n
           c == (r - 1) % n
           m == q * n
<1>1. q \in Int /\ c \in 0 .. n - 1 /\ r - 1 = m + c
  BY DivMod
<1>2. m \in Int
  BY <1>1
<1>3. (q + 1) * n = m + n
  BY <1>1
<1> HIDE DEF m, c
<1>4. CASE c = n - 1
  <2>1. q + 1 \in Int /\ 0 \in 0 .. n - 1 /\ r = (q + 1) * n + 0
    BY <1>1, <1>2, <1>3, <1>4
  <2> DEFINE p == q + 1
  <2> HIDE DEF p
  <2>4. p \in Int /\ n \in Nat /\ n > 0 /\ r \in Int /\ 0 \in 0 .. n - 1 /\ r = p * n + 0
    BY <2>1 DEF p
  <2>2. r % n = 0
    BY <2>4, DivUnique
  <2>3. QED
    BY <1>1, <1>4, <2>2 DEF c
<1>5. CASE c # n - 1
  <2>1. c + 1 \in 0 .. n - 1 /\ r = m + (c + 1)
    BY <1>1, <1>2, <1>5
  <2>2. r % n = c + 1
    BY <1>1, <2>1, DivUnique DEF m
  <2>3. QED
    BY <1>1, <1>5, <2>2 DEF c
<1>6. QED
  BY <1>4, <1>5

(* The frames of a raw file, and of one with lengths, from those places.   *)
RawFrames(f) ==
    \A i \in DOMAIN f.frames : /\ f.at[i + 1] = f.at[i] + RawLength
                               /\ f.frames[i] = Input!Words(f, f.at[i], RawLength)

SizedFrames(f) ==
    \A i \in DOMAIN f.frames :
        LET length == Input!Word(f, f.at[i])
        IN  /\ length \in 1 .. RawLength
            /\ f.at[i + 1] = f.at[i] + 1 + length
            /\ f.frames[i] = Input!Words(f, f.at[i] + 1, length)

Type(f, type) == \/ type = "raw" /\ RawFrames(f)
                 \/ type \in {"streamed", "framed"} /\ SizedFrames(f)

(* What FilesAreWhole says of the numbers.                                 *)
LEMMA FileFacts ==
    ASSUME NEW f \in Files
    PROVE  /\ Len(f.words) \in Nat /\ Len(f.frames) \in Nat \ {0}
           /\ DOMAIN f.frames = 1 .. Len(f.frames)
           /\ \A i \in 1 .. Len(f.frames) + 1 : f.at[i] \in 0 .. Len(f.words)
           /\ f.at[Len(f.frames) + 1] = Len(f.words)
           /\ RawLength \in Nat \ {0}
<1>1. /\ f.words \in Seq(Int) /\ f.frames \in Seq(Seq(Int)) /\ f.frames # <<>>
      /\ f.at \in Seq(0 .. Len(f.words)) /\ Len(f.at) = Len(f.frames) + 1
      /\ f.at[Len(f.at)] = Len(f.words) /\ RawLength \in Nat \ {0}
  BY FilesAreWhole
<1>2. Len(f.words) \in Nat /\ Len(f.frames) \in Nat
  BY <1>1
<1>3. Len(f.frames) # 0
  BY <1>1, EmptySeq
<1>4. \A i \in 1 .. Len(f.frames) + 1 : f.at[i] \in 0 .. Len(f.words)
  <2> DEFINE at == f.at
             S == 0 .. Len(f.words)
  <2>1. at \in Seq(S) /\ Len(at) = Len(f.frames) + 1
    BY <1>1
  <2> HIDE DEF at, S
  <2>2. \A i \in 1 .. Len(at) : at[i] \in S
    BY <2>1
  <2>3. QED
    BY <2>1, <2>2 DEF at, S
<1>5. DOMAIN f.frames = 1 .. Len(f.frames)
  BY <1>1
<1>6. QED
  BY <1>1, <1>2, <1>3, <1>4, <1>5

(* A file that begins with a frame, or has a marker within the length of   *)
(* one, is read from the first place of its frames.                        *)
LEMMA FindsType ==
    ASSUME NEW f \in Files
    PROVE  LET found == Input!IdentifyType(f, 0)
           IN  Type(f, found.type) /\ found.position = f.at[1]
<1> DEFINE found == Input!IdentifyType(f, 0)
<1>1. Len(f.words) \in Nat /\ f.at[1] \in 0 .. Len(f.words) /\ RawLength \in Nat \ {0}
  <2>1. 1 \in 1 .. Len(f.frames) + 1
    BY FileFacts
  <2>2. QED
    BY <2>1, FileFacts
<1>2. ASSUME NEW type, NEW first, NEW after \in Int,
             f.at[1] = IF f.seekable THEN first ELSE after
      PROVE  Input!From(f, type, first, after) = [type |-> type, position |-> f.at[1]]
  BY <1>1, <1>2 DEF Input!From, Input!Has
<1>3. ASSUME NEW b \in {0} \cup 4 .. RawLength + 3, RawFrom(f, b)
      PROVE  Type(f, found.type) /\ found.position = f.at[1]
  <2>1. /\ Input!SyncAt(f, b)
        /\ \A q \in {0, 1, 3} \cup 4 .. b - 1 : q < b => ~Input!SyncAt(f, q)
        /\ f.at[1] = IF f.seekable THEN b ELSE b + RawLength
        /\ RawFrames(f)
    BY <1>3 DEF RawFrom, RawFrames
  <2>2. Input!From(f, "raw", b, b + RawLength) = [type |-> "raw", position |-> f.at[1]]
    BY <1>1, <1>2, <2>1
  <2>3. found = Input!From(f, "raw", b, b + RawLength)
    <3>1. CASE b = 0
      <4>1. 0 + RawLength = RawLength /\ Input!SyncAt(f, 0)
        BY <1>1, <2>1, <3>1
      <4>2. QED
        BY <3>1, <4>1 DEF Input!IdentifyType
    <3>2. CASE b # 0
      <4> DEFINE near == {q \in 4 .. RawLength + 3 : Input!SyncAt(f, 0 + q)}
                 first == Input!Min(near)
      <4>1. b \in 4 .. RawLength + 3
        BY <3>2
      <4>2. ~Input!SyncAt(f, 0) /\ ~Input!SyncAt(f, 1) /\ ~Input!SyncAt(f, 3)
        BY <2>1, <4>1
      <4>3. \A q \in 4 .. RawLength + 3 : 0 + q = q /\ q \in Int
        BY <1>1
      <4>4. b \in near /\ \A q \in near : q \in Int /\ b <= q
        <5>1. b \in near
          BY <2>1, <4>1, <4>3
        <5>2. ASSUME NEW q \in near PROVE q \in Int /\ b <= q
          <6>1. q \in 4 .. RawLength + 3 /\ Input!SyncAt(f, q)
            BY <4>3, <5>2
          <6>2. ASSUME q < b PROVE FALSE
            <7>1. q \in 4 .. b - 1
              BY <1>1, <4>1, <6>1, <6>2
            <7>2. QED
              BY <2>1, <6>1, <6>2, <7>1
          <6>3. QED
            BY <1>1, <4>1, <6>1, <6>2
        <5>3. QED
          BY <5>1, <5>2
      <4>5. first = b
        <5>1. first = CHOOSE x \in near : \A y \in near : x <= y
          BY DEF Input!Min
        <5>2. first \in near /\ \A y \in near : first <= y
          BY <4>4, <5>1
        <5>3. b <= first /\ first <= b /\ b \in Int /\ first \in Int
          BY <4>4, <5>2
        <5>4. QED
          BY <5>3
      <4>6. found = Input!From(f, "raw", 0 + first, 0 + first + RawLength)
        <5>1. 0 + 1 = 1 /\ 0 + 3 = 3
          OBVIOUS
        <5>2. near # {}
          BY <4>4
        <5>3. QED
          BY <4>2, <5>1, <5>2 DEF Input!IdentifyType
      <4>7. 0 + b = b
        BY <4>1
      <4>8. QED
        BY <4>5, <4>6, <4>7
    <3>3. QED
      BY <3>1, <3>2
  <2>4. QED
    BY <2>1, <2>2, <2>3 DEF Type
<1>4. ASSUME NEW h \in {0, 2}, SizedFrom(f, h)
      PROVE  Type(f, found.type) /\ found.position = f.at[1]
  <2> DEFINE type == IF h = 0 THEN "streamed" ELSE "framed"
             after == h + 1 + Input!Word(f, h)
  <2>1. /\ Input!SyncAt(f, h + 1)
        /\ \A q \in {0, 1} : q <= h => ~Input!SyncAt(f, q)
        /\ f.at[1] = IF f.seekable THEN h ELSE after
        /\ SizedFrames(f)
    BY <1>4, Zenon DEF SizedFrom, SizedFrames
  <2>2. after \in Int
    <3>1. f.words \in Seq(Int) /\ Len(f.words) \in Nat
      BY FilesAreWhole
    <3>2. h + 1 \in 1 .. Len(f.words)
      BY <2>1, <3>1 DEF Input!SyncAt, Input!Has
    <3>3. f.words[h + 1] \in Int
      BY <3>1, <3>2
    <3>4. QED
      BY <3>3 DEF Input!Word
  <2>3. found = Input!From(f, type, h, after)
    <3>1. CASE h = 0
      <4>1. ~Input!SyncAt(f, 0) /\ Input!SyncAt(f, 0 + 1)
        BY <2>1, <3>1
      <4>2. QED
        BY <3>1, <4>1 DEF Input!IdentifyType
    <3>2. CASE h = 2
      <4>1. ~Input!SyncAt(f, 0) /\ ~Input!SyncAt(f, 1) /\ Input!SyncAt(f, 3)
        BY <2>1, <3>2
      <4>2. 0 + 1 = 1 /\ 0 + 3 = 3 /\ 0 + 2 = 2 /\ 2 + 1 = 3
        OBVIOUS
      <4>3. QED
        BY <3>2, <4>1, <4>2 DEF Input!IdentifyType
    <3>3. QED
      BY <3>1, <3>2
  <2>4. Input!From(f, type, h, after) = [type |-> type, position |-> f.at[1]]
    BY <1>2, <2>1, <2>2
  <2>5. QED
    BY <2>1, <2>3, <2>4 DEF Type
<1>5. (\E b \in {0} \cup 4 .. RawLength + 3 : RawFrom(f, b)) \/ SizedFrom(f, 0) \/ SizedFrom(f, 2)
  BY FilesAreWhole
<1>6. QED
  BY <1>3, <1>4, <1>5

(* Nothing is found at its end, where a pipe stays.                        *)
LEMMA FindsNothing ==
    ASSUME NEW f \in Files
    PROVE  Input!IdentifyType(f, Len(f.words)) = Input!Bad(f)
<1>1. Len(f.words) \in Nat /\ RawLength \in Nat
  BY FileFacts
<1>2. \A q \in Nat : ~Input!SyncAt(f, Len(f.words) + q)
  BY <1>1 DEF Input!SyncAt, Input!Has
<1>3. /\ ~Input!SyncAt(f, Len(f.words)) /\ ~Input!SyncAt(f, Len(f.words) + 1)
      /\ ~Input!SyncAt(f, Len(f.words) + 3)
  <2>1. Len(f.words) + 0 = Len(f.words) /\ 0 \in Nat /\ 1 \in Nat /\ 3 \in Nat
    BY <1>1
  <2>2. QED
    BY <1>2, <2>1
<1>4. {q \in 4 .. RawLength + 3 : Input!SyncAt(f, Len(f.words) + q)} = {}
  <2>1. \A q \in 4 .. RawLength + 3 : q \in Nat
    BY <1>1
  <2>2. QED
    BY <1>2, <2>1
<1>5. QED
  BY <1>3, <1>4 DEF Input!IdentifyType

FrameCount == Len(file.frames)

(* It goes on after its end.                                               *)
Turns == file.loop /\ file.seekable

(* The frame read last, 0 before the first.                                *)
Current == IF reads = 0 THEN 0 ELSE ((reads - 1) % FrameCount) + 1

Reading == /\ reads <= FrameCount \/ Turns
           /\ Type(file, streamtype) /\ position = file.at[Current + 1]
           /\ reads > 0 => got = file.frames[Current]

Ended == reads > FrameCount /\ ~Turns /\ got = IF file.loop THEN Input!Failed ELSE Input!EndOfFile

FileInv == /\ reads \in Nat
           /\ \/ file = Input!NoFile /\ reads = 0
              \/ file \in Files /\ (Reading \/ Ended)

(* The frame read last is one of the file, and in the first round that of  *)
(* the number of reads.                                                    *)
LEMMA CurrentIsFrame ==
    ASSUME FileInv, file \in Files
    PROVE  /\ FrameCount \in Nat \ {0} /\ Current \in 0 .. FrameCount
           /\ reads = 0 <=> Current = 0
           /\ reads \in 1 .. FrameCount => Current = reads
<1>1. FrameCount \in Nat \ {0} /\ reads \in Nat
  BY FileFacts DEF FrameCount, FileInv
<1>2. CASE reads = 0
  BY <1>1, <1>2 DEF Current
<1>3. CASE reads # 0
  <2> DEFINE n == FrameCount
             c == (reads - 1) % n
  <2>1. n \in Nat /\ n > 0 /\ reads - 1 \in Int
    BY <1>1
  <2> HIDE DEF n
  <2>2. c \in 0 .. n - 1
    BY <2>1, DivMod
  <2>3. ASSUME reads \in 1 .. n PROVE c = reads - 1
    <3>1. reads - 1 \in 0 .. n - 1 /\ reads - 1 = 0 * n + (reads - 1)
      BY <2>1, <2>3
    <3>2. QED
      BY <2>1, <3>1, DivUnique
  <2>4. Current = c + 1
    BY <1>3 DEF Current, n
  <2> HIDE DEF c
  <2>5. QED
    BY <1>1, <1>3, <2>1, <2>2, <2>3, <2>4 DEF n
<1>4. QED
  BY <1>2, <1>3

(* FrameCount are read until the end in a round; where it turns, on to the     *)
(* next round.                                                             *)
LEMMA NextFrame ==
    ASSUME FileInv, file \in Files, reads' = reads + 1, file' = file
    PROVE  /\ Current < FrameCount => Current' = Current + 1
           /\ Current = FrameCount => Current' = 1
<1>1. /\ FrameCount \in Nat \ {0} /\ reads \in Nat /\ reads' # 0 /\ FrameCount' = FrameCount
      /\ Current \in 0 .. FrameCount
  BY CurrentIsFrame DEF FrameCount, FileInv
<1>2. Current' = (reads % FrameCount) + 1
  <2>1. reads' - 1 = reads
    BY <1>1
  <2>2. QED
    BY <1>1, <2>1 DEF Current
<1>3. CASE reads = 0
  <2> DEFINE n == FrameCount
  <2> HIDE DEF n
  <2>1. n \in Nat /\ n > 0 /\ 0 \in 0 .. n - 1 /\ 0 = 0 * n + 0
    BY <1>1 DEF n
  <2>2. 0 % n = 0
    BY <2>1, DivUnique
  <2>3. Current = 0
    BY <1>3 DEF Current
  <2>4. QED
    BY <1>1, <1>2, <1>3, <2>2, <2>3 DEF n
<1>4. CASE reads # 0
  <2>1. FrameCount \in Nat \ {0} /\ reads \in Nat \ {0}
    BY <1>1, <1>4
  <2>2. /\ ((reads - 1) % FrameCount) + 1 \in 1 .. FrameCount
        /\ (reads % FrameCount) + 1 = IF ((reads - 1) % FrameCount) + 1 = FrameCount THEN 1
                                  ELSE ((reads - 1) % FrameCount) + 1 + 1
    BY <2>1, NextInRound, Zenon
  <2>3. Current = ((reads - 1) % FrameCount) + 1
    BY <1>4 DEF Current
  <2>4. QED
    BY <1>1, <1>2, <2>2, <2>3
<1>5. QED
  BY <1>3, <1>4

(* A frame of a raw file.                                                  *)
LEMMA RawFrame ==
    ASSUME file \in Files, RawFrames(file), NEW i \in 1 .. FrameCount, NEW type,
           Input!ReadFrame(type, file.at[i], RawLength)
    PROVE  Input!Returns(type, file.at[i + 1], file.frames[i])
<1>1. /\ i \in DOMAIN file.frames /\ i + 1 \in 1 .. FrameCount + 1 /\ RawLength \in Nat
      /\ Len(file.words) \in Nat
  BY FileFacts DEF FrameCount
<1>2. /\ file.at[i + 1] = file.at[i] + RawLength /\ file.at[i + 1] <= Len(file.words)
      /\ file.frames[i] = Input!Words(file, file.at[i], RawLength)
  BY <1>1, FileFacts DEF RawFrames, FrameCount
<1>3. Input!Has(file, file.at[i], RawLength) /\ ~(RawLength > RawLength)
  BY <1>1, <1>2 DEF Input!Has
<1>4. QED
  BY <1>2, <1>3 DEF Input!ReadFrame

(* One of a file with lengths.                                             *)
LEMMA SizedFrame ==
    ASSUME file \in Files, SizedFrames(file), NEW i \in 1 .. FrameCount, NEW type,
           Input!ReadFrame(type, file.at[i] + 1, Input!Word(file, file.at[i]))
    PROVE  Input!Returns(type, file.at[i + 1], file.frames[i])
<1> DEFINE length == Input!Word(file, file.at[i])
<1>1. /\ i \in DOMAIN file.frames /\ i + 1 \in 1 .. FrameCount + 1 /\ RawLength \in Nat
      /\ Len(file.words) \in Nat
  BY FileFacts DEF FrameCount
<1>2. /\ length \in 1 .. RawLength
      /\ file.at[i + 1] = file.at[i] + 1 + length /\ file.at[i + 1] <= Len(file.words)
      /\ file.frames[i] = Input!Words(file, file.at[i] + 1, length)
  BY <1>1, FileFacts DEF SizedFrames, FrameCount
<1> HIDE DEF length
<1>3. Input!Has(file, file.at[i] + 1, length) /\ ~(length > RawLength)
  BY <1>1, <1>2 DEF Input!Has
<1>4. file.at[i + 1] = (file.at[i] + 1) + length
  BY <1>2
<1>5. Input!ReadFrame(type, file.at[i] + 1, length)
  BY DEF length
<1>6. QED
  BY <1>2, <1>3, <1>4, <1>5 DEF Input!ReadFrame

(* Before the end of a round there is a frame, at the end nothing.         *)
LEMMA AtItsEnd ==
    ASSUME file \in Files, Reading, FileInv
    PROVE  /\ Current < FrameCount => ~Input!AtEnd
           /\ Current = FrameCount => Input!AtEnd /\ position = Len(file.words)
<1>1. /\ FrameCount \in Nat \ {0} /\ Current \in 0 .. FrameCount
      /\ Len(file.words) \in Nat /\ RawLength \in Nat \ {0}
  BY CurrentIsFrame, FileFacts
<1>2. position = file.at[Current + 1] /\ Type(file, streamtype)
  BY DEF Reading
<1>3. CASE Current < FrameCount
  <2> DEFINE i == Current + 1
  <2>1. i \in DOMAIN file.frames /\ i + 1 \in 1 .. FrameCount + 1 /\ i \in 1 .. FrameCount + 1
    BY <1>1, <1>3, FileFacts DEF FrameCount
  <2> HIDE DEF i
  <2>2. file.at[i + 1] \in 0 .. Len(file.words) /\ file.at[i] \in 0 .. Len(file.words)
    BY <2>1, FileFacts DEF FrameCount
  <2>3. file.at[i + 1] >= file.at[i] + 1
    <3>1. CASE RawFrames(file)
      BY <1>1, <2>1, <2>2, <3>1 DEF RawFrames
    <3>2. CASE SizedFrames(file)
      <4> DEFINE length == Input!Word(file, file.at[i])
      <4>1. length \in 1 .. RawLength /\ file.at[i + 1] = file.at[i] + 1 + length
        BY <2>1, <3>2 DEF SizedFrames
      <4> HIDE DEF length
      <4>2. QED
        BY <1>1, <2>2, <4>1
    <3>3. QED
      BY <1>2, <3>1, <3>2 DEF Type
  <2>4. Input!Has(file, position, 1)
    <3>1. position = file.at[i]
      BY <1>2 DEF i
    <3>2. QED
      BY <1>1, <2>2, <2>3, <3>1 DEF Input!Has
  <2>5. QED
    BY <1>1, <1>3, <2>4 DEF Input!AtEnd
<1>4. CASE Current = FrameCount
  <2>1. position = Len(file.words)
    BY <1>2, <1>4, FileFacts DEF FrameCount
  <2>2. ~Input!Has(file, position, 1)
    BY <1>1, <2>1 DEF Input!Has
  <2>3. QED
    BY <1>1, <1>4, <2>1, <2>2 DEF Input!AtEnd
<1>5. QED
  BY <1>1, <1>3, <1>4

(* The next frame of the round, of either type.                            *)
LEMMA FrameKeeps ==
    ASSUME FileInv, file \in Files, Reading, Current < FrameCount, Input!GetNextFrame
    PROVE  Type(file, streamtype') /\ Input!Returns(streamtype', file.at[Current + 2],
                                                    file.frames[Current + 1])
<1> DEFINE i == Current + 1
<1>1. i \in 1 .. FrameCount /\ Current + 2 = i + 1
  BY CurrentIsFrame
<1>2. position = file.at[i] /\ Type(file, streamtype) /\ ~Input!AtEnd
  BY AtItsEnd DEF Reading
<1> HIDE DEF i
<1>3. CASE Input!NextRaw
  <2>1. streamtype = "raw" /\ RawFrames(file) /\ Input!ReadFrame("raw", file.at[i], RawLength)
    BY <1>2, <1>3 DEF Input!NextRaw, Type
  <2>2. Input!Returns("raw", file.at[i + 1], file.frames[i])
    BY <1>1, <2>1, RawFrame
  <2>3. streamtype' = "raw"
    BY <2>2 DEF Input!Returns
  <2>4. QED
    BY <1>1, <2>1, <2>2, <2>3 DEF Type, i
<1>4. CASE Input!NextWithLength
  <2>1. /\ streamtype \in {"streamed", "framed"} /\ SizedFrames(file)
        /\ Input!ReadFrame(streamtype, file.at[i] + 1, Input!Word(file, file.at[i]))
    BY <1>2, <1>4 DEF Input!NextWithLength, Type
  <2>2. Input!Returns(streamtype, file.at[i + 1], file.frames[i])
    BY <1>1, <2>1, SizedFrame
  <2>3. streamtype' = streamtype
    BY <2>2 DEF Input!Returns
  <2>4. QED
    BY <1>1, <1>2, <2>2, <2>3 DEF i
<1>5. QED
  BY <1>3, <1>4 DEF Input!GetNextFrame

(* The first one of the next round.                                        *)
LEMMA RoundKeeps ==
    ASSUME FileInv, file \in Files, Reading, Current = FrameCount, Turns, Input!GetNextFrame
    PROVE  Type(file, streamtype') /\ Input!Returns(streamtype', file.at[2], file.frames[1])
<1> DEFINE again == Input!Rewind(file)
<1>1. 1 \in 1 .. FrameCount /\ 1 + 1 = 2 /\ 1 \in DOMAIN file.frames
  BY FileFacts DEF FrameCount
<1>2. Input!AtEnd /\ file.loop /\ Type(file, streamtype)
  BY AtItsEnd DEF Reading, Turns
<1>3. Type(file, again.type) /\ again.position = file.at[1] /\ again.type # "bad"
  <2>1. again = Input!IdentifyType(file, 0)
    BY DEF Input!Rewind, Turns
  <2>2. Type(file, again.type) /\ again.position = file.at[1]
    BY <2>1, FindsType
  <2>3. QED
    BY <2>2 DEF Type
<1> HIDE DEF again
<1>4. CASE Input!NextRaw
  <2>1. RawFrames(file) /\ Input!ReadFrame(again.type, file.at[1], RawLength)
    BY <1>2, <1>3, <1>4 DEF Input!NextRaw, Type, again
  <2>2. Input!Returns(again.type, file.at[1 + 1], file.frames[1])
    BY <1>1, <2>1, RawFrame
  <2>3. streamtype' = again.type
    BY <2>2 DEF Input!Returns
  <2>4. QED
    BY <1>1, <1>3, <2>2, <2>3
<1>5. CASE Input!NextWithLength
  <2>1. SizedFrames(file)
    BY <1>2, <1>5 DEF Input!NextWithLength, Type
  <2>2. Input!Has(file, file.at[1], 1)
    <3> DEFINE length == Input!Word(file, file.at[1])
    <3>1. length \in 1 .. RawLength /\ file.at[2] = file.at[1] + 1 + length
      BY <1>1, <2>1 DEF SizedFrames
    <3>2. /\ file.at[2] \in 0 .. Len(file.words) /\ file.at[1] \in 0 .. Len(file.words)
          /\ Len(file.words) \in Nat /\ RawLength \in Nat
      <4>1. 1 \in 1 .. FrameCount + 1 /\ 2 \in 1 .. FrameCount + 1
        BY FileFacts DEF FrameCount
      <4>2. QED
        BY <4>1, FileFacts DEF FrameCount
    <3> HIDE DEF length
    <3>3. QED
      BY <3>1, <3>2 DEF Input!Has
  <2>3. Input!ReadFrame(again.type, file.at[1] + 1, Input!Word(file, file.at[1]))
    BY <1>2, <1>3, <1>5, <2>2 DEF Input!NextWithLength, again
  <2>4. Input!Returns(again.type, file.at[1 + 1], file.frames[1])
    BY <1>1, <2>1, <2>3, SizedFrame
  <2>5. streamtype' = again.type
    BY <2>4 DEF Input!Returns
  <2>6. QED
    BY <1>1, <1>3, <2>4, <2>5
<1>6. QED
  BY <1>4, <1>5 DEF Input!GetNextFrame

(* The end of a file that is not read again.                               *)
LEMMA FileEnds ==
    ASSUME FileInv, file \in Files, Reading, Current = FrameCount, ~Turns, Input!GetNextFrame
    PROVE  got' = IF file.loop THEN Input!Failed ELSE Input!EndOfFile
<1>1. Input!AtEnd /\ position = Len(file.words) /\ ~Input!Has(file, position, 1)
  BY AtItsEnd DEF Input!AtEnd
<1>2. RawLength \in Nat \ {0} /\ Len(file.words) \in Nat
  BY FileFacts
<1>3. ~Input!Has(file, position, RawLength) /\ ~(RawLength > RawLength)
  BY <1>1, <1>2 DEF Input!Has
<1>4. file.loop => Input!Rewind(file).type = "bad"
  <2>1. ASSUME file.loop PROVE Input!Rewind(file) = Input!IdentifyType(file, Len(file.words))
    BY <2>1, Zenon DEF Input!Rewind, Turns
  <2>2. Input!IdentifyType(file, Len(file.words)) = Input!Bad(file)
    BY FindsNothing
  <2>3. Input!Bad(file).type = "bad"
    BY DEF Input!Bad
  <2>4. QED
    BY <2>1, <2>2, <2>3
<1>5. CASE Input!NextRaw
  <2>1. CASE file.loop
    BY <1>1, <1>4, <1>5, <2>1 DEF Input!NextRaw, Input!Returns
  <2>2. CASE ~file.loop
    <3>1. Input!ReadFrame("raw", position, RawLength)
      BY <1>5, <2>2 DEF Input!NextRaw
    <3>2. Input!Returns("raw", Len(file.words), Input!EndOfFile)
      BY <1>1, <1>3, <3>1 DEF Input!ReadFrame
    <3>3. QED
      BY <2>2, <3>2 DEF Input!Returns
  <2>3. QED
    BY <2>1, <2>2
<1>6. CASE Input!NextWithLength
  BY <1>1, <1>4, <1>6 DEF Input!NextWithLength, Input!Returns
<1>7. QED
  BY <1>5, <1>6 DEF Input!GetNextFrame

(* The invariant of the reader.                                            *)
LEMMA FileStep == ASSUME FileInv, [Input!Next]_fileVars PROVE FileInv'
<1>1. CASE Input!Open
  <2>1. file = Input!NoFile /\ file' \in Files /\ reads' = reads
        /\ streamtype' = Input!IdentifyType(file', 0).type
        /\ position' = Input!IdentifyType(file', 0).position
    BY <1>1 DEF Input!Open
  <2>2. file \notin Files
    <3>1. Len(file.frames) = 0
      BY <2>1 DEF Input!NoFile
    <3>2. QED
      BY <3>1, FileFacts
  <2>3. reads = 0
    BY <2>2 DEF FileInv
  <2>4. Type(file', streamtype') /\ position' = file'.at[1]
    BY <2>1, FindsType
  <2>5. Len(file'.frames) \in Nat
    BY <2>1, FileFacts
  <2>6. Reading'
    BY <2>1, <2>3, <2>4, <2>5 DEF Reading, Current, FrameCount
  <2>7. QED
    BY <2>1, <2>3, <2>6 DEF FileInv
<1>2. CASE Input!GetNextFrame
  <2>1. /\ reads \in Nat /\ reads' = reads + 1 /\ file' = file
        /\ reads = 0 \/ got \notin {Input!Failed, Input!EndOfFile}
        /\ file # Input!NoFile
    BY <1>2 DEF Input!GetNextFrame, FileInv
  <2>2. file \in Files
    BY <2>1 DEF FileInv
  <2>3. /\ FrameCount \in Nat \ {0} /\ Current \in 0 .. FrameCount
        /\ reads = 0 <=> Current = 0
        /\ reads \in 1 .. FrameCount => Current = reads
    BY <2>2, CurrentIsFrame
  <2>4. Reading
    <3>1. ~Ended
      BY <2>1, <2>3 DEF Ended
    <3>2. file # Input!NoFile
      BY <2>2, FileFacts DEF Input!NoFile
    <3>3. QED
      BY <3>1, <3>2 DEF FileInv
  <2>5. FrameCount' = FrameCount /\ Turns' = Turns /\ reads' \in Nat /\ reads' > 0
    BY <2>1 DEF FrameCount, Turns
  <2>6. /\ Current < FrameCount => Current' = Current + 1
        /\ Current = FrameCount => Current' = 1
    BY <2>1, <2>2, NextFrame
  <2>7. CASE Current < FrameCount
    <3>1. Type(file, streamtype') /\ Input!Returns(streamtype', file.at[Current + 2],
                                                   file.frames[Current + 1])
      BY <1>2, <2>2, <2>4, <2>7, FrameKeeps
    <3>2. position' = file.at[Current' + 1] /\ got' = file.frames[Current']
      <4>1. Current' = Current + 1 /\ Current' + 1 = Current + 2
        BY <2>3, <2>6, <2>7
      <4>2. QED
        BY <3>1, <4>1 DEF Input!Returns
    <3>3. reads' <= FrameCount \/ Turns
      <4>1. reads <= FrameCount \/ Turns
        BY <2>4 DEF Reading
      <4>2. QED
        BY <2>1, <2>3, <2>7, <4>1
    <3>4. Reading'
      BY <2>1, <2>5, <3>1, <3>2, <3>3 DEF Reading, Type
    <3>5. QED
      BY <2>1, <2>2, <2>5, <3>4 DEF FileInv
  <2>8. CASE Current = FrameCount /\ Turns
    <3>1. Type(file, streamtype') /\ Input!Returns(streamtype', file.at[2], file.frames[1])
      BY <1>2, <2>2, <2>4, <2>8, RoundKeeps
    <3>2. position' = file.at[Current' + 1] /\ got' = file.frames[Current']
      <4>1. Current' = 1 /\ Current' + 1 = 2
        BY <2>6, <2>8
      <4>2. QED
        BY <3>1, <4>1 DEF Input!Returns
    <3>3. Reading'
      BY <2>1, <2>5, <2>8, <3>1, <3>2 DEF Reading, Type
    <3>4. QED
      BY <2>1, <2>2, <2>5, <3>3 DEF FileInv
  <2>9. CASE Current = FrameCount /\ ~Turns
    <3>1. got' = IF file.loop THEN Input!Failed ELSE Input!EndOfFile
      BY <1>2, <2>2, <2>4, <2>9, FileEnds
    <3>2. reads = FrameCount
      <4>1. reads <= FrameCount
        BY <2>4, <2>9 DEF Reading
      <4>2. QED
        BY <2>1, <2>3, <2>9, <4>1
    <3>3. Ended'
      BY <2>1, <2>3, <2>5, <2>9, <3>1, <3>2 DEF Ended
    <3>4. QED
      BY <2>1, <2>2, <2>5, <3>3 DEF FileInv
  <2>10. QED
    BY <2>3, <2>7, <2>8, <2>9
<1>3. CASE UNCHANGED fileVars
  BY <1>3 DEF fileVars, FileInv, Reading, Ended, Turns, Type, Current, FrameCount
<1>4. QED
  BY <1>1, <1>2, <1>3 DEF Input!Next

(* InputFileReader: from a file of any length and of every type, and one   *)
(* that begins within a frame, the frames come out whole, each in its      *)
(* turn, and in a loop each once per round for any number of rounds; after *)
(* the last one comes the end, or of a looped pipe an error.               *)
THEOREM MainFramesOfTheFile == MainSpec => []FramesOfTheFile
<1>1. Input!Init => FileInv
  BY DEF Input!Init, FileInv
<1>2. FileInv /\ [Input!Next]_fileVars => FileInv'
  BY FileStep
<1>3. FileInv => FramesOfTheFile
  <2> SUFFICES ASSUME FileInv, reads > 0
               PROVE  IF reads <= FrameCount \/ Turns
                      THEN got = file.frames[((reads - 1) % FrameCount) + 1]
                      ELSE got = IF file.loop THEN Input!Failed ELSE Input!EndOfFile
    BY DEF FramesOfTheFile, Input!FramesOfTheFile, FrameCount, Turns
  <2>1. file \in Files /\ FrameCount \in Nat /\ reads \in Nat /\ reads # 0
    BY FileFacts DEF FileInv, FrameCount
  <2>2. CASE Reading
    BY <2>1, <2>2 DEF Reading, Current
  <2>3. CASE Ended
    BY <2>1, <2>3 DEF Ended
  <2>4. QED
    BY <2>1, <2>2, <2>3, FileFacts DEF FileInv, Input!NoFile
<1>4. QED
  BY <1>1, <1>2, <1>3, FileIsAlone, PTL
=============================================================================
