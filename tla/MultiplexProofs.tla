---------------------------- MODULE MultiplexProofs ----------------------------
(***************************************************************************)
(* Proofs of safety properties that the run MCMultiplex checks: what the   *)
(* sources, the encoders made for them and the addresses say of a CIF, and *)
(* when the program ends, for all ensembles, any number of changes of      *)
(* them, and packets lost, refused and overtaking the main loop.           *)
(***************************************************************************)
EXTENDS Multiplex, WellFoundedInduction, TLAPS

-----------------------------------------------------------------------------
(* The inductive invariant.                                                *)

FrameType == [number : Numbers \cup {None}, ensemble : Ensembles \cup {NoFrame.ensemble}]
Source == [stream : Stream, data : Numbers]

MuxTypes ==
    /\ input \in {"eti", "udp", "tcp"}
    /\ ensemble \in Ensembles /\ number \in Numbers
    /\ pc \in {"read", "batch", "frame", "exit"}
    /\ m_fc \in FrameType
    /\ frameReady \in BOOLEAN /\ built \in BOOLEAN /\ attached \in BOOLEAN
    /\ sources \in Seq(Source) /\ inputs \in Seq(Source)
    /\ ficSource \in Seq([mid : 0 .. 3, frame : FrameType]) /\ Len(ficSource) <= 1
    /\ seen \subseteq Ensembles

(* Two ensembles that were read differ in a stream they both have.         *)
Clash ==
    \E d, e \in seen : \E i \in DOMAIN d.stc \cap DOMAIN e.stc : d.stc[i] # e.stc[i]

(* All that the sources tell was read.                                     *)
FromRead ==
    /\ \A i \in DOMAIN sources :
          \E e \in seen : i \in DOMAIN e.stc /\ sources[i].stream = e.stc[i]
    /\ ficSource # <<>> =>
          /\ ficSource[1].frame.ensemble \in seen
          /\ \E e \in seen : ficSource[1].mid = e.mid

(* The frame that can be taken is complete, unless its streams were        *)
(* refused.                                                                *)
Whole ==
    /\ ficSource # <<>> /\ ficSource[1].frame = m_fc
    /\ m_fc.ensemble \in seen /\ m_fc.number \in Numbers
    /\ Len(m_fc.ensemble.stc) <= Len(sources)
    /\ \A i \in DOMAIN m_fc.ensemble.stc : sources[i].data = m_fc.number

AtHand ==
    /\ pc = "frame" \/ frameReady => Clash \/ Whole
    /\ pc = "frame" \/ frameReady => ficSource # <<>>

(* Encoders that are attached have the reader's sources.                   *)
Attached ==
    /\ attached => /\ built /\ Len(inputs) <= Len(sources)
                   /\ \A i \in DOMAIN inputs : inputs[i] = sources[i]
    /\ input # "eti" /\ built => attached

(* The sources of an ETI reader are those of one frame; encoders made for  *)
(* others do not fit, or a stream has changed.                             *)
EtiSources ==
    input = "eti" =>
        /\ ~frameReady /\ pc # "batch"
        /\ pc = "frame" => Whole /\ Len(sources) = Len(m_fc.ensemble.stc)
                           /\ \A i \in DOMAIN sources : sources[i].stream = m_fc.ensemble.stc[i]
        /\ sources # <<>> =>
              \E e \in seen : /\ Len(e.stc) = Len(sources)
                              /\ \A i \in DOMAIN sources : sources[i].stream = e.stc[i]
        /\ built => last_eti_fct # None
        /\ attached => Len(inputs) = Len(sources)
        /\ built /\ ~attached => Clash \/ (pc # "read" /\ Len(inputs) # Len(sources))

MuxInv == MuxTypes /\ FromRead /\ AtHand /\ Attached /\ EtiSources /\ ExitsOnlyFor

-----------------------------------------------------------------------------
(* Facts about ensembles and sources.                                      *)

(* Of some numbers one is the smallest.                                    *)
LEMMA SmallestOf ==
    ASSUME NEW T, T \subseteq Nat, T # {}
    PROVE  \E m \in T : \A j \in T : m <= j
<1> DEFINE R == {p \in Nat \X Nat : p[1] < p[2]}
<1>1. \A m, j \in Nat : <<j, m>> \in R <=> j < m
  OBVIOUS
<1>2. IsWellFoundedOn(R, Nat)
  BY NatLessThanWellFounded, <1>1 DEF OpToRel
<1>3. \E m \in T : \A j \in T : ~(<<j, m>> \in R)
  BY <1>2, WFMin
<1>4. \A m, j \in T : ~(<<j, m>> \in R) => m <= j
  BY <1>1
<1>5. QED
  BY <1>3, <1>4

(* An ensemble is what the multiplexer may send.                           *)
LEMMA EnsembleTypes ==
    ASSUME NEW e \in Ensembles \cup {NoFrame.ensemble}
    PROVE  /\ e.mid \in 0 .. 3 /\ e.stc \in Seq(Stream)
           /\ Len(e.stc) \in Nat /\ DOMAIN e.stc = 1 .. Len(e.stc)
<1>1. e.mid \in 0 .. 3 /\ e.stc \in Seq(Stream)
  <2>1. CASE e \in Ensembles
    BY <2>1, MultiplexAssumption
  <2>2. CASE e = [mid |-> 0, stc |-> <<>>]
    <3>1. <<>> \in Seq(Stream)
      OBVIOUS
    <3>2. e.mid = 0 /\ e.stc = <<>>
      BY <2>2
    <3>3. QED
      BY <3>1, <3>2
  <2>3. NoFrame.ensemble = [mid |-> 0, stc |-> <<>>]
    BY DEF NoFrame
  <2>4. QED
    BY <2>1, <2>2, <2>3
<1>2. QED
  BY <1>1

LEMMA NextNumber ==
    ASSUME NEW n \in Numbers
    PROVE  (n + 1) % FctModulus \in Numbers /\ n # None
<1>1. FctModulus \in Nat /\ FctModulus > 0 /\ n \in Nat
  BY MultiplexAssumption DEF Numbers
<1>2. QED
  BY <1>1 DEF Numbers, None

(* What was read stays read.                                               *)
LEMMA ClashStays == ASSUME Clash, seen \subseteq seen' PROVE Clash'
  BY DEF Clash

(* If the ensemble was only added to, all that was read is in it.          *)
LEMMA OnlyAddedAgrees ==
    ASSUME MuxTypes, NEW now \in Ensembles \cup {NoFrame.ensemble}, OnlyAdded(now)
    PROVE  /\ ~Clash
           /\ \A e \in seen : /\ DOMAIN e.stc \subseteq DOMAIN now.stc
                              /\ \A i \in DOMAIN e.stc : e.stc[i] = now.stc[i]
<1>1. ASSUME NEW e \in seen
      PROVE  /\ DOMAIN e.stc \subseteq DOMAIN now.stc
             /\ \A i \in DOMAIN e.stc : e.stc[i] = now.stc[i]
  <2>1. e \in Ensembles
    BY DEF MuxTypes
  <2>2. /\ e.stc \in Seq(Stream) /\ now.stc \in Seq(Stream)
        /\ Len(e.stc) \in Nat /\ DOMAIN e.stc = 1 .. Len(e.stc)
        /\ Len(now.stc) \in Nat /\ DOMAIN now.stc = 1 .. Len(now.stc)
    BY <2>1, EnsembleTypes
  <2>3. /\ Len(e.stc) <= Len(now.stc)
        /\ SubSeq(e.stc, 1, Len(e.stc)) = SubSeq(now.stc, 1, Len(e.stc))
    BY DEF OnlyAdded, IsPrefix
  <2>4. ASSUME NEW i \in 1 .. Len(e.stc) PROVE e.stc[i] = now.stc[i]
    <3>1. SubSeq(e.stc, 1, Len(e.stc))[i] = e.stc[i]
      BY <2>2
    <3>2. SubSeq(now.stc, 1, Len(e.stc))[i] = now.stc[i]
      BY <2>2, <2>3
    <3>3. QED
      BY <2>3, <3>1, <3>2
  <2>5. QED
    BY <2>2, <2>3, <2>4
<1>2. ~Clash
  BY <1>1 DEF Clash
<1>3. QED
  BY <1>1, <1>2

(* What is in a sequence.                                                  *)
LEMMA Members ==
    ASSUME NEW S, NEW q \in Seq(S)
    PROVE  /\ Len(q) \in Nat /\ DOMAIN q = 1 .. Len(q) /\ (q = <<>> <=> Len(q) = 0)
           /\ \A i \in 1 .. Len(q) : q[i] \in S
  OBVIOUS

(* A sequence made element by element.                                     *)
LEMMA Made ==
    ASSUME NEW S, NEW n \in Nat, NEW f \in [1 .. n -> S]
    PROVE  f \in Seq(S) /\ Len(f) = n /\ DOMAIN f = 1 .. n
  OBVIOUS

(* The first elements of a sequence.                                       *)
LEMMA FirstOf ==
    ASSUME NEW S, NEW q \in Seq(S), NEW k \in 0 .. Len(q)
    PROVE  /\ SubSeq(q, 1, k) \in Seq(S) /\ Len(SubSeq(q, 1, k)) = k
           /\ DOMAIN SubSeq(q, 1, k) = 1 .. k
           /\ \A i \in 1 .. k : SubSeq(q, 1, k)[i] = q[i]
<1>1. Len(q) \in Nat /\ k \in Nat /\ k <= Len(q)
  OBVIOUS
<1>2. SubSeq(q, 1, k) \in Seq(S) /\ Len(SubSeq(q, 1, k)) = k
  BY <1>1
<1>3. DOMAIN SubSeq(q, 1, k) = 1 .. k
  BY <1>1, <1>2
<1>4. ASSUME NEW i \in 1 .. k PROVE SubSeq(q, 1, k)[i] = q[i]
  BY <1>1
<1>5. QED
  BY <1>2, <1>3, <1>4

(* A new source for every stream.                                          *)
LEMMA NewSources ==
    ASSUME NEW q \in Seq(Stream), NEW n \in Numbers,
           NEW new, new = [i \in DOMAIN q |-> NewSource(q[i], n)]
    PROVE  /\ new \in Seq(Source) /\ Len(new) = Len(q) /\ DOMAIN new = DOMAIN q
           /\ \A i \in DOMAIN q : new[i].stream = q[i] /\ new[i].data = n
<1>1. Len(q) \in Nat /\ DOMAIN q = 1 .. Len(q) /\ \A i \in 1 .. Len(q) : q[i] \in Stream
  BY Members
<1>2. \A i \in DOMAIN q : /\ NewSource(q[i], n) \in Source
                          /\ NewSource(q[i], n).stream = q[i] /\ NewSource(q[i], n).data = n
  BY <1>1 DEF NewSource, Source
<1>3. new \in [1 .. Len(q) -> Source]
  BY <1>1, <1>2
<1>4. new \in Seq(Source) /\ Len(new) = Len(q) /\ DOMAIN new = 1 .. Len(q)
  BY <1>1, <1>3, Made
<1>5. QED
  BY <1>1, <1>2, <1>4

(* The sources after some streams of a packet were added: those there were *)
(* keep their streams.                                                     *)
LEMMA Added ==
    ASSUME MuxTypes, NEW k \in 1 .. Len(ensemble.stc) + 1, NEW new, new = AddSubchannels(k)
    PROVE  /\ new \in Seq(Source) /\ Len(sources) <= Len(new) /\ k - 1 <= Len(new)
           /\ Len(new) <= Len(sources) \/ Len(new) <= k - 1
           /\ \A i \in DOMAIN new :
                 new[i].stream = IF i \in DOMAIN sources THEN sources[i].stream
                                 ELSE ensemble.stc[i]
           /\ \A i \in DOMAIN new : i < k => new[i].data = number
<1> DEFINE added == SubSeq(ensemble.stc, 1, k - 1)
           m == IF k - 1 > Len(sources) THEN k - 1 ELSE Len(sources)
           old(i) == IF i \in DOMAIN sources THEN sources[i].stream ELSE added[i]
           el(i) == IF i \in 1 .. k - 1 THEN NewSource(old(i), number) ELSE sources[i]
<1>1. /\ ensemble.stc \in Seq(Stream) /\ Len(ensemble.stc) \in Nat
      /\ DOMAIN ensemble.stc = 1 .. Len(ensemble.stc)
      /\ \A i \in 1 .. Len(ensemble.stc) : ensemble.stc[i] \in Stream
  <2>1. ensemble \in Ensembles
    BY DEF MuxTypes
  <2>2. QED
    BY <2>1, EnsembleTypes, Members
<1>2. k - 1 \in 0 .. Len(ensemble.stc)
  BY <1>1
<1>3. /\ Len(added) = k - 1 /\ DOMAIN added = 1 .. k - 1
      /\ \A i \in 1 .. k - 1 : added[i] = ensemble.stc[i]
  BY <1>1, <1>2, FirstOf
<1>4. /\ Len(sources) \in Nat /\ DOMAIN sources = 1 .. Len(sources)
      /\ \A i \in 1 .. Len(sources) : sources[i] \in Source
  BY Members DEF MuxTypes
<1>5. m \in Nat /\ Len(sources) <= m /\ k - 1 <= m /\ (m <= Len(sources) \/ m <= k - 1)
  BY <1>1, <1>4
<1>6. new = [i \in 1 .. m |-> el(i)]
  BY <1>3 DEF AddSubchannels
<1>7. ASSUME NEW i \in 1 .. m
      PROVE  /\ el(i) \in Source
             /\ el(i).stream = IF i \in DOMAIN sources THEN sources[i].stream
                               ELSE ensemble.stc[i]
             /\ i < k => el(i).data = number
  <2>1. CASE i \in 1 .. k - 1
    <3>1. old(i) = (IF i \in DOMAIN sources THEN sources[i].stream ELSE ensemble.stc[i])
      BY <1>3, <2>1
    <3>2. old(i) \in Stream
      BY <1>1, <1>2, <1>4, <2>1, <3>1 DEF Source
    <3>3. el(i) = [stream |-> old(i), data |-> number] /\ number \in Numbers
      BY <2>1 DEF NewSource, MuxTypes
    <3>4. QED
      BY <3>1, <3>2, <3>3 DEF Source
  <2>2. CASE i \notin 1 .. k - 1
    <3>1. i \in 1 .. Len(sources) /\ ~(i < k) /\ el(i) = sources[i]
      BY <1>1, <1>4, <1>5, <2>2
    <3>2. QED
      BY <1>4, <3>1
  <2>3. QED
    BY <2>1, <2>2
<1> HIDE DEF m, el
<1>8. new \in [1 .. m -> Source]
  BY <1>6, <1>7
<1>9. new \in Seq(Source) /\ Len(new) = m /\ DOMAIN new = 1 .. m
  BY <1>5, <1>8, Made
<1>10. \A i \in 1 .. m : new[i] = el(i)
  BY <1>6
<1>11. QED
  BY <1>5, <1>7, <1>9, <1>10

-----------------------------------------------------------------------------
(* Steps.                                                                  *)

LEMMA MuxInitially == ASSUME Init PROVE MuxInv
<1>1. /\ m_fc = NoFrame /\ NoFrame \in FrameType /\ 0 \in Numbers
      /\ input \in {"eti", "udp", "tcp"}
  BY MultiplexAssumption DEF Init, NoFrame, FrameType, Numbers
<1>2. DOMAIN sources = {} /\ Len(ficSource) = 0
  BY DEF Init
<1>3. MuxTypes
  <2>1. \A S : <<>> \in Seq(S)
    OBVIOUS
  <2>2. ficSource \in Seq([mid : 0 .. 3, frame : FrameType])
    BY <2>1 DEF Init
  <2>3. sources \in Seq(Source) /\ inputs \in Seq(Source) /\ seen = {}
    BY <2>1 DEF Init
  <2>4. /\ ensemble \in Ensembles /\ number = 0 /\ pc = "read" /\ frameReady = FALSE
        /\ built = FALSE /\ attached = FALSE
    BY DEF Init
  <2>5. m_fc \in FrameType /\ number \in Numbers /\ Len(ficSource) <= 1
    BY <1>1, <1>2, <2>4
  <2>6. seen \subseteq Ensembles /\ {frameReady, built, attached} \subseteq BOOLEAN
    BY <2>3, <2>4
  <2>7. QED
    BY <1>1, <2>2, <2>3, <2>4, <2>5, <2>6, Zenon DEF MuxTypes
<1>4. FromRead /\ AtHand /\ Attached /\ EtiSources /\ ExitsOnlyFor
  BY <1>2 DEF Init, FromRead, AtHand, Attached, EtiSources, ExitsOnlyFor
<1>5. QED
  BY <1>3, <1>4 DEF MuxInv

(* The frame that the reader has is taken, or left for later.              *)
LEMMA ReaderStays ==
    ASSUME MuxInv, ensemble' \in Ensembles, number' \in Numbers,
           UNCHANGED <<input, m_fc, frameReady, sources, ficSource, seen>>,
           UNCHANGED flowgraph,
           pc' = pc \/ (pc' = "frame" /\ frameReady)
    PROVE  MuxInv'
<1>1. UNCHANGED <<built, inputs, attached, last_eti_fct>>
  BY DEF flowgraph
<1>2. MuxTypes /\ FromRead /\ AtHand /\ Attached /\ EtiSources /\ ExitsOnlyFor
  BY DEF MuxInv
<1>3. MuxTypes'
  BY <1>1, <1>2 DEF MuxTypes
<1>4. (Clash <=> Clash') /\ (Whole <=> Whole') /\ (Resized <=> Resized')
  BY DEF Clash, Whole, Resized
<1>5. FromRead' /\ Attached'
  BY <1>1, <1>2 DEF FromRead, Attached
<1>6. AtHand'
  BY <1>2, <1>4 DEF AtHand
<1>7. EtiSources'
  BY <1>1, <1>2, <1>4 DEF EtiSources
<1>8. ExitsOnlyFor'
  BY <1>2, <1>4 DEF ExitsOnlyFor
<1>9. QED
  BY <1>3, <1>5, <1>6, <1>7, <1>8 DEF MuxInv

(* The FIC of a frame with the mode of the first one.                      *)
LEMMA NewFic ==
    ASSUME MuxInv, NEW f \in FrameType, NEW e \in Ensembles, f.ensemble = e,
           ficSource' = LoadFic(e.mid, f), seen' = seen \cup {e}
    PROVE  /\ ficSource' \in Seq([mid : 0 .. 3, frame : FrameType]) /\ Len(ficSource') <= 1
           /\ ficSource' # <<>> /\ ficSource'[1].frame = f
           /\ \E d \in seen' : ficSource'[1].mid = d.mid
<1> DEFINE Fic == [mid : 0 .. 3, frame : FrameType]
           m == IF ficSource = <<>> THEN e.mid ELSE ficSource[1].mid
           fic == [mid |-> m, frame |-> f]
<1>1. ficSource \in Seq(Fic) /\ FromRead
  BY DEF MuxInv, MuxTypes
<1>2. m \in 0 .. 3 /\ \E d \in seen' : m = d.mid
  <2>1. CASE ficSource = <<>>
    BY <2>1, EnsembleTypes
  <2>2. CASE ficSource # <<>>
    <3>1. ficSource[1] \in Fic
      <4>1. Len(ficSource) \in Nat /\ Len(ficSource) # 0
        BY <1>1, <2>2, Members
      <4>2. 1 \in 1 .. Len(ficSource)
        BY <4>1
      <4>3. QED
        BY <1>1, <4>2, Members
    <3>2. QED
      BY <1>1, <2>2, <3>1 DEF FromRead
  <2>3. QED
    BY <2>1, <2>2
<1> HIDE DEF m
<1>3. fic \in Fic /\ fic.mid = m /\ fic.frame = f
  BY <1>2
<1>4. ficSource' = <<fic>>
  BY DEF LoadFic, m
<1> HIDE DEF fic
<1>5. <<fic>> \in Seq(Fic) /\ Len(<<fic>>) = 1 /\ <<fic>>[1] = fic /\ <<fic>> # <<>>
  BY <1>3
<1>6. QED
  BY <1>2, <1>3, <1>4, <1>5

(* A frame arrives.                                                        *)
LEMMA FrameArrives ==
    ASSUME MuxTypes, Arrives
    PROVE  /\ m_fc' \in FrameType /\ m_fc'.ensemble = ensemble /\ m_fc'.number = number
           /\ number' \in Numbers /\ number \in Numbers /\ number # None
           /\ ensemble \in Ensembles /\ ensemble' = ensemble
           /\ seen' = seen \cup {ensemble} /\ seen' \subseteq Ensembles /\ input' = input
           /\ ensemble.stc \in Seq(Stream)
<1>1. ensemble \in Ensembles /\ number \in Numbers
  BY DEF MuxTypes
<1>2. m_fc' = [number |-> number, ensemble |-> ensemble]
  BY DEF Arrives
<1>3. m_fc' \in FrameType /\ m_fc'.ensemble = ensemble /\ m_fc'.number = number
  BY <1>1, <1>2 DEF FrameType
<1>4. QED
  BY <1>1, <1>3, NextNumber, EnsembleTypes DEF Arrives, MuxTypes, multiplexer

(* An ETI frame: all its streams have sources.  The encoders stay attached *)
(* if no stream has changed.                                               *)
LEMMA LoadKeeps == ASSUME MuxInv, LoadEtiData PROVE MuxInv'
<1> DEFINE stc == ensemble.stc
           same == stc = [i \in DOMAIN sources |-> sources[i].stream]
<1>1. MuxTypes /\ FromRead /\ AtHand /\ Attached /\ EtiSources /\ ExitsOnlyFor
  BY DEF MuxInv
<1>2. /\ pc = "read" /\ pc' = "frame" /\ input = "eti"
      /\ UNCHANGED <<frameReady, built, last_eti_fct>> /\ ~frameReady
  BY <1>1 DEF LoadEtiData, EtiSources
<1>3. /\ m_fc' \in FrameType /\ m_fc'.ensemble = ensemble /\ m_fc'.number = number
      /\ number' \in Numbers /\ number \in Numbers /\ number # None
      /\ ensemble \in Ensembles /\ ensemble' = ensemble
      /\ seen' = seen \cup {ensemble} /\ seen' \subseteq Ensembles /\ input' = input
      /\ stc \in Seq(Stream)
  BY <1>1, FrameArrives DEF LoadEtiData
<1>4. /\ Len(stc) \in Nat /\ DOMAIN stc = 1 .. Len(stc)
      /\ Len(sources) \in Nat /\ DOMAIN sources = 1 .. Len(sources)
      /\ (sources = <<>> <=> Len(sources) = 0)
      /\ inputs \in Seq(Source) /\ Len(inputs) \in Nat /\ DOMAIN inputs = 1 .. Len(inputs)
  BY <1>1, <1>3, Members DEF MuxTypes
<1>5. /\ sources' \in Seq(Source) /\ Len(sources') = Len(stc) /\ DOMAIN sources' = DOMAIN stc
      /\ \A i \in DOMAIN stc : sources'[i].stream = stc[i] /\ sources'[i].data = number
  BY <1>3, NewSources DEF LoadEtiData, LoadSources
<1>6. /\ attached' = (attached /\ same)
      /\ inputs' = IF same THEN Held(sources') ELSE inputs
  BY DEF LoadEtiData, LoadSources
<1>7. attached' \in BOOLEAN /\ (attached' <=> attached /\ same)
  BY <1>1, <1>6 DEF MuxTypes
<1>8. same => Len(stc) = Len(sources)
  BY <1>3, <1>4
<1>9. attached /\ same => /\ inputs' \in Seq(Source) /\ Len(inputs') = Len(sources')
                          /\ DOMAIN inputs' = 1 .. Len(sources')
                          /\ \A i \in 1 .. Len(sources') : inputs'[i] = sources'[i]
  <2>1. SUFFICES ASSUME attached, same
                 PROVE  /\ inputs' \in Seq(Source) /\ Len(inputs') = Len(sources')
                        /\ DOMAIN inputs' = 1 .. Len(sources')
                        /\ \A i \in 1 .. Len(sources') : inputs'[i] = sources'[i]
    OBVIOUS
  <2>2. Len(inputs) = Len(sources') /\ built
    BY <1>1, <1>2, <1>5, <1>8, <2>1 DEF Attached, EtiSources
  <2>3. inputs' = SubSeq(sources', 1, Len(inputs))
    BY <1>6, <2>1, <2>2 DEF Held
  <2>4. Len(inputs) \in 0 .. Len(sources')
    BY <1>4, <2>2
  <2>5. QED
    BY <1>5, <2>2, <2>3, <2>4, FirstOf
<1>10. ~(attached /\ same) => inputs' = inputs
  BY <1>1, <1>6, <1>7 DEF Held, MuxTypes
<1>11. /\ ficSource' \in Seq([mid : 0 .. 3, frame : FrameType]) /\ Len(ficSource') <= 1
       /\ ficSource' # <<>> /\ ficSource'[1].frame = m_fc'
       /\ \E d \in seen' : ficSource'[1].mid = d.mid
  BY <1>3, NewFic DEF LoadEtiData
<1>12. MuxTypes'
  <2>1. inputs' \in Seq(Source)
    BY <1>4, <1>9, <1>10
  <2>2. QED
    BY <1>1, <1>2, <1>3, <1>5, <1>7, <1>11, <2>1 DEF MuxTypes
<1>13. FromRead' /\ Whole' /\ AtHand'
  BY <1>3, <1>5, <1>11 DEF FromRead, Whole, AtHand
<1>14. Attached'
  BY <1>1, <1>2, <1>3, <1>5, <1>7, <1>9 DEF Attached
<1>15. EtiSources'
  <2>1. sources' # <<>> =>
           \E e \in seen' : /\ Len(e.stc) = Len(sources')
                            /\ \A i \in DOMAIN sources' : sources'[i].stream = e.stc[i]
    BY <1>3, <1>5
  <2>2. attached' => Len(inputs') = Len(sources')
    BY <1>7, <1>9
  <2>3. ASSUME built', ~attached', Len(inputs') = Len(sources') PROVE Clash'
    <3>1. CASE ~attached
      <4>1. Clash
        BY <1>1, <1>2, <2>3, <3>1 DEF EtiSources
      <4>2. QED
        BY <1>3, <4>1, ClashStays
    <3>2. CASE attached
      <4>1. ~same /\ inputs' = inputs /\ Len(inputs) = Len(sources)
        BY <1>1, <1>2, <1>7, <1>10, <2>3, <3>2 DEF EtiSources
      <4>2. Len(sources) = Len(stc) /\ DOMAIN sources = DOMAIN stc
        BY <1>4, <1>5, <2>3, <4>1
      <4>3. PICK i \in DOMAIN stc : stc[i] # sources[i].stream
        <5>1. stc = [i \in DOMAIN stc |-> stc[i]]
          BY <1>3
        <5>2. QED
          BY <4>1, <4>2, <5>1
      <4>4. sources # <<>>
        BY <1>4, <4>2, <4>3
      <4>5. PICK e \in seen : /\ Len(e.stc) = Len(sources)
                              /\ \A j \in DOMAIN sources : sources[j].stream = e.stc[j]
        BY <1>1, <1>2, <4>4 DEF EtiSources
      <4>6. DOMAIN e.stc = DOMAIN stc
        <5>1. e \in Ensembles
          BY <1>1 DEF MuxTypes
        <5>2. QED
          BY <1>4, <4>2, <4>5, <5>1, EnsembleTypes
      <4>7. e \in seen' /\ ensemble \in seen' /\ i \in DOMAIN e.stc /\ e.stc[i] # stc[i]
        BY <1>3, <4>2, <4>3, <4>5, <4>6
      <4>8. QED
        BY <4>3, <4>7 DEF Clash
    <3>3. QED
      BY <3>1, <3>2
  <2>4. ~frameReady' /\ pc' = "frame" /\ Len(sources') = Len(m_fc'.ensemble.stc)
        /\ \A i \in DOMAIN sources' : sources'[i].stream = m_fc'.ensemble.stc[i]
    BY <1>2, <1>3, <1>5
  <2>5. QED
    BY <1>1, <1>2, <1>13, <2>1, <2>2, <2>3, <2>4 DEF EtiSources
<1>16. ExitsOnlyFor'
  BY <1>2 DEF ExitsOnlyFor
<1>17. QED
  BY <1>12, <1>13, <1>14, <1>15, <1>16 DEF MuxInv

(* A packet: its streams are added to the sources as far as they are not   *)
(* refused; what the encoders hold are the same sources.                   *)
LEMMA PacketAdds ==
    ASSUME MuxInv, ReceivePacket, NEW k \in 1 .. Len(ensemble.stc) + 1,
           sources' = AddSubchannels(k), built' = built, attached' = attached,
           inputs' = Held(sources')
    PROVE  /\ sources' \in Seq(Source) /\ inputs' \in Seq(Source)
           /\ \A i \in DOMAIN sources' :
                 \E e \in seen' : i \in DOMAIN e.stc /\ sources'[i].stream = e.stc[i]
           /\ Attached'
<1>1. MuxTypes /\ FromRead /\ Attached
  BY DEF MuxInv
<1>2. /\ ensemble \in Ensembles /\ seen' = seen \cup {ensemble} /\ input' = input
      /\ input # "eti" /\ ensemble.stc \in Seq(Stream)
  BY <1>1, FrameArrives DEF ReceivePacket
<1>3. /\ sources' \in Seq(Source) /\ Len(sources) <= Len(sources') /\ k - 1 <= Len(sources')
      /\ Len(sources') <= Len(sources) \/ Len(sources') <= k - 1
      /\ \A i \in DOMAIN sources' :
            sources'[i].stream = IF i \in DOMAIN sources THEN sources[i].stream
                                 ELSE ensemble.stc[i]
  BY <1>1, Added
<1>4. /\ Len(sources) \in Nat /\ DOMAIN sources = 1 .. Len(sources)
      /\ Len(sources') \in Nat /\ DOMAIN sources' = 1 .. Len(sources')
      /\ Len(ensemble.stc) \in Nat /\ DOMAIN ensemble.stc = 1 .. Len(ensemble.stc)
      /\ inputs \in Seq(Source) /\ Len(inputs) \in Nat /\ DOMAIN inputs = 1 .. Len(inputs)
  BY <1>1, <1>2, <1>3, Members DEF MuxTypes
<1>5. ASSUME NEW i \in DOMAIN sources'
      PROVE  \E e \in seen' : i \in DOMAIN e.stc /\ sources'[i].stream = e.stc[i]
  <2>1. CASE i \in DOMAIN sources
    BY <1>1, <1>2, <1>3, <2>1 DEF FromRead
  <2>2. CASE i \notin DOMAIN sources
    <3>1. i \in DOMAIN ensemble.stc
      BY <1>3, <1>4, <2>2
    <3>2. QED
      BY <1>2, <1>3, <2>2, <3>1
  <2>3. QED
    BY <2>1, <2>2
<1>6. inputs' \in Seq(Source) /\ Attached'
  <2>1. CASE built
    <3>1. attached /\ Len(inputs) \in 0 .. Len(sources')
      BY <1>1, <1>2, <1>3, <1>4, <2>1 DEF Attached
    <3>2. inputs' = SubSeq(sources', 1, Len(inputs))
      BY <2>1, <3>1 DEF Held
    <3>3. /\ inputs' \in Seq(Source) /\ Len(inputs') = Len(inputs)
          /\ DOMAIN inputs' = 1 .. Len(inputs)
          /\ \A i \in 1 .. Len(inputs) : inputs'[i] = sources'[i]
      BY <1>3, <3>1, <3>2, FirstOf
    <3>4. QED
      BY <1>4, <2>1, <3>1, <3>3 DEF Attached
  <2>2. CASE ~built
    <3>1. ~attached /\ inputs' = inputs
      BY <1>1, <2>2 DEF Attached, Held
    <3>2. QED
      BY <1>1, <2>2, <3>1 DEF Attached, MuxTypes
  <2>3. QED
    BY <2>1, <2>2
<1>7. QED
  BY <1>3, <1>5, <1>6

LEMMA PacketKeeps == ASSUME MuxInv, ReceivePacket PROVE MuxInv'
<1>1. MuxTypes /\ FromRead /\ AtHand /\ Attached /\ ExitsOnlyFor
  BY DEF MuxInv
<1>2. /\ input # "eti" /\ pc # "exit" /\ pc # "frame"
      /\ UNCHANGED <<built, attached>> /\ inputs' = Held(sources')
  BY DEF ReceivePacket
<1>3. /\ m_fc' \in FrameType /\ m_fc'.ensemble = ensemble /\ m_fc'.number = number
      /\ number' \in Numbers /\ number \in Numbers /\ number # None
      /\ ensemble \in Ensembles /\ ensemble' = ensemble
      /\ seen' = seen \cup {ensemble} /\ seen' \subseteq Ensembles /\ input' = input
      /\ ensemble.stc \in Seq(Stream)
  BY <1>1, FrameArrives DEF ReceivePacket
<1>4. Len(ensemble.stc) \in Nat /\ DOMAIN ensemble.stc = 1 .. Len(ensemble.stc)
  BY <1>3, Members
<1>5. CASE Refused = {}
  <2>1. /\ sources' = AddSubchannels(Len(ensemble.stc) + 1)
        /\ ficSource' = LoadFic(ensemble.mid, m_fc')
        /\ frameReady' = TRUE /\ pc' \in {"read", "batch"}
    BY <1>5 DEF ReceivePacket
  <2>2. Len(ensemble.stc) + 1 \in 1 .. Len(ensemble.stc) + 1
    BY <1>4
  <2>3. /\ sources' \in Seq(Source) /\ inputs' \in Seq(Source)
        /\ \A i \in DOMAIN sources' :
              \E e \in seen' : i \in DOMAIN e.stc /\ sources'[i].stream = e.stc[i]
        /\ Attached'
    BY <1>2, <2>1, <2>2, PacketAdds
  <2>4. /\ ficSource' \in Seq([mid : 0 .. 3, frame : FrameType]) /\ Len(ficSource') <= 1
        /\ ficSource' # <<>> /\ ficSource'[1].frame = m_fc'
        /\ \E d \in seen' : ficSource'[1].mid = d.mid
    BY <1>3, <2>1, NewFic
  <2>5. /\ Len(ensemble.stc) <= Len(sources')
        /\ \A i \in DOMAIN ensemble.stc : sources'[i].data = number
    <3>1. /\ Len(ensemble.stc) + 1 - 1 <= Len(sources')
          /\ \A i \in DOMAIN sources' : i < Len(ensemble.stc) + 1 => sources'[i].data = number
      BY <1>1, <2>1, <2>2, Added
    <3>2. Len(sources') \in Nat /\ DOMAIN sources' = 1 .. Len(sources')
      BY <2>3, Members
    <3>3. QED
      BY <1>4, <3>1, <3>2
  <2>6. MuxTypes'
    BY <1>1, <1>2, <1>3, <2>1, <2>3, <2>4 DEF MuxTypes
  <2>7. FromRead' /\ Whole'
    BY <1>3, <2>3, <2>4, <2>5 DEF FromRead, Whole
  <2>8. AtHand' /\ EtiSources' /\ ExitsOnlyFor'
    BY <1>2, <1>3, <2>1, <2>4, <2>7 DEF AtHand, EtiSources, ExitsOnlyFor
  <2>9. QED
    BY <2>3, <2>6, <2>7, <2>8 DEF MuxInv
<1>6. CASE Refused # {}
  <2> DEFINE k == CHOOSE i \in Refused : \A j \in Refused : i <= j
  <2>1. /\ sources' = AddSubchannels(k)
        /\ pc' = IF input = "tcp" THEN "exit" ELSE "read"
        /\ UNCHANGED <<ficSource, frameReady>>
    BY <1>6 DEF ReceivePacket
  <2>2. Refused \subseteq DOMAIN ensemble.stc /\ Refused \subseteq Nat
    BY <1>4 DEF Refused
  <2>3. k \in Refused
    <3>1. \E i \in Refused : \A j \in Refused : i <= j
      BY <1>6, <2>2, SmallestOf
    <3>2. QED
      BY <3>1
  <2> HIDE DEF k
  <2>4. k \in 1 .. Len(ensemble.stc) + 1
    BY <1>4, <2>2, <2>3
  <2>5. /\ sources' \in Seq(Source) /\ inputs' \in Seq(Source)
        /\ \A i \in DOMAIN sources' :
              \E e \in seen' : i \in DOMAIN e.stc /\ sources'[i].stream = e.stc[i]
        /\ Attached'
    BY <1>2, <2>1, <2>4, PacketAdds
  (* It was refused for a stream of another length. *)
  <2>6. PICK e \in seen : k \in DOMAIN e.stc /\ e.stc[k].stl # ensemble.stc[k].stl
    <3>1. k \in DOMAIN sources /\ sources[k].stream.stl # ensemble.stc[k].stl
      BY <2>3 DEF Refused
    <3>2. QED
      BY <1>1, <3>1 DEF FromRead
  <2>7. e \in seen' /\ ensemble \in seen' /\ k \in DOMAIN ensemble.stc
    BY <1>3, <2>2, <2>3
  <2>8. Clash'
    BY <2>6, <2>7 DEF Clash
  <2>9. Resized'
    BY <1>2, <1>3, <2>6, <2>7 DEF Resized
  <2>10. MuxTypes'
    BY <1>1, <1>2, <1>3, <2>1, <2>5 DEF MuxTypes
  <2>11. FromRead'
    BY <1>1, <1>3, <2>1, <2>5 DEF FromRead
  <2>12. AtHand' /\ EtiSources'
    BY <1>1, <1>2, <1>3, <2>1, <2>8 DEF AtHand, EtiSources
  <2>13. ExitsOnlyFor'
    BY <1>3, <2>1, <2>9 DEF ExitsOnlyFor
  <2>14. QED
    BY <2>5, <2>10, <2>11, <2>12, <2>13 DEF MuxInv
<1>7. QED
  BY <1>5, <1>6

(* The main loop drops the frame or modulates it: the sources stay.        *)
LEMMA FrameIsDone ==
    ASSUME MuxInv, Frame, ClearFrame, pc' = "read",
           UNCHANGED <<sources, ficSource, seen>>,
           inputs' \in Seq(Source), built' \in BOOLEAN, attached' \in BOOLEAN,
           Attached',
           input = "eti" => /\ built' => last_eti_fct' # None
                            /\ attached' => Len(inputs') = Len(sources)
                            /\ built' /\ ~attached' => Clash
    PROVE  MuxInv'
<1>1. MuxTypes /\ FromRead /\ AtHand /\ EtiSources
  BY DEF MuxInv
<1>2. UNCHANGED <<input, number, ensemble>> /\ m_fc' = NoFrame /\ frameReady' = FALSE
  BY DEF Frame, ClearFrame, multiplexer
<1>3. NoFrame \in FrameType
  BY DEF NoFrame, FrameType
<1>4. MuxTypes'
  BY <1>1, <1>2, <1>3 DEF MuxTypes
<1>5. FromRead' /\ AtHand' /\ ExitsOnlyFor'
  BY <1>1, <1>2 DEF FromRead, AtHand, ExitsOnlyFor
<1>6. EtiSources'
  BY <1>1, <1>2 DEF EtiSources, Clash
<1>7. QED
  BY <1>4, <1>5, <1>6 DEF MuxInv

LEMMA SkipKeeps == ASSUME MuxInv, SkipUntilPhase0 PROVE MuxInv'
<1>1. MuxTypes /\ Attached /\ EtiSources
  BY DEF MuxInv
<1>2. /\ Frame /\ ClearFrame /\ pc' = "read" /\ last_eti_fct = None /\ input' = input
      /\ UNCHANGED <<sources, ficSource, seen, built, inputs, attached, last_eti_fct>>
  BY DEF SkipUntilPhase0, flowgraph, Frame
<1>3. Attached'
  BY <1>1, <1>2 DEF Attached
<1>4. input = "eti" => ~built
  BY <1>1, <1>2 DEF EtiSources
<1>5. input = "eti" /\ attached => Len(inputs) = Len(sources)
  BY <1>1 DEF EtiSources
<1>6. inputs \in Seq(Source) /\ built \in BOOLEAN /\ attached \in BOOLEAN
  BY <1>1 DEF MuxTypes
<1>7. QED
  BY <1>2, <1>3, <1>4, <1>5, <1>6, FrameIsDone

LEMMA ModulateKeeps == ASSUME MuxInv, Modulate PROVE MuxInv'
<1>1. MuxTypes /\ Attached /\ EtiSources
  BY DEF MuxInv
<1>2. /\ Frame /\ ClearFrame /\ pc' = "read" /\ pc = "frame" /\ input' = input
      /\ last_eti_fct' = m_fc.number /\ built' = TRUE /\ inputs' = Encoders
      /\ attached' = (built => attached)
      /\ UNCHANGED <<sources, ficSource, seen>>
      /\ Len(sources) = Len(Encoders)
  BY DEF Modulate, Frame, FrameMultiplexerThrows
<1>3. input = "eti" => last_eti_fct' # None
  <2>1. input = "eti" => m_fc.number \in Numbers
    BY <1>1, <1>2 DEF EtiSources, Whole
  <2>2. QED
    BY <1>2, <2>1, NextNumber
<1>4. attached' \in BOOLEAN /\ (attached' <=> (built => attached))
  BY <1>1, <1>2 DEF MuxTypes
<1>5. CASE built
  <2>1. inputs' = inputs /\ (attached' <=> attached) /\ Len(inputs) = Len(sources)
    BY <1>2, <1>4, <1>5 DEF Encoders
  <2>2. Attached'
    BY <1>1, <1>2, <1>5, <2>1 DEF Attached
  <2>3. input = "eti" /\ ~attached => Clash
    BY <1>1, <1>5, <2>1 DEF EtiSources
  <2>4. QED
    BY <1>1, <1>2, <1>3, <1>4, <2>1, <2>2, <2>3, FrameIsDone DEF MuxTypes
<1>6. CASE ~built
  <2>1. inputs' = sources /\ attached'
    BY <1>2, <1>4, <1>6 DEF Encoders
  <2>2. Len(sources) \in Nat
    BY <1>1, Members DEF MuxTypes
  <2>3. Attached'
    BY <1>2, <2>1, <2>2 DEF Attached
  <2>4. QED
    BY <1>1, <1>2, <1>3, <1>4, <2>1, <2>3, FrameIsDone DEF MuxTypes
<1>7. QED
  BY <1>5, <1>6

(* A new flowgraph; with ETI a new reader, with EDI the frame may stay.    *)
LEMMA RestartKeeps ==
    ASSUME MuxInv, Frame, Restart,
           ClearFrame \/ (input # "eti" /\ UNCHANGED <<frameReady, m_fc>>)
    PROVE  MuxInv'
<1>1. MuxTypes /\ FromRead /\ AtHand /\ Attached /\ EtiSources
  BY DEF MuxInv
<1>2. /\ pc' = "read" /\ built' = FALSE /\ inputs' = <<>> /\ attached' = FALSE
      /\ UNCHANGED <<input, number, ensemble>>
  BY DEF Restart, Frame, multiplexer
<1>3. \A S : <<>> \in Seq(S)
  OBVIOUS
<1>4. m_fc' \in FrameType /\ frameReady' \in BOOLEAN
  <2>1. NoFrame \in FrameType
    BY DEF NoFrame, FrameType
  <2>2. QED
    BY <1>1, <2>1 DEF ClearFrame, MuxTypes
<1>5. Attached' /\ ExitsOnlyFor'
  BY <1>2 DEF Attached, ExitsOnlyFor
<1>6. CASE input = "eti"
  <2>1. sources' = <<>> /\ ficSource' = <<>> /\ seen' = {} /\ ~frameReady'
    BY <1>6 DEF Restart, ClearFrame
  <2>2. DOMAIN <<>> = {} /\ Len(<<>>) = 0
    OBVIOUS
  <2>3. sources' \in Seq(Source) /\ inputs' \in Seq(Source)
        /\ ficSource' \in Seq([mid : 0 .. 3, frame : FrameType]) /\ Len(ficSource') <= 1
    BY <1>2, <1>3, <2>1, <2>2
  <2>4. MuxTypes'
    BY <1>1, <1>2, <1>4, <2>1, <2>3 DEF MuxTypes
  <2>5. FromRead' /\ AtHand' /\ EtiSources'
    BY <1>2, <2>1, <2>2 DEF FromRead, AtHand, EtiSources
  <2>6. QED
    BY <1>5, <2>4, <2>5 DEF MuxInv
<1>7. CASE input # "eti"
  <2>1. UNCHANGED <<sources, ficSource, seen>>
    BY <1>7 DEF Restart
  <2>2. inputs' \in Seq(Source)
    BY <1>2, <1>3
  <2>3. MuxTypes'
    BY <1>1, <1>2, <1>4, <2>1, <2>2 DEF MuxTypes
  <2>4. frameReady' => frameReady /\ m_fc' = m_fc
    BY DEF ClearFrame
  <2>5. FromRead' /\ EtiSources'
    BY <1>1, <1>2, <1>7, <2>1 DEF FromRead, EtiSources
  <2>6. AtHand'
    BY <1>1, <1>2, <2>1, <2>4 DEF AtHand, Clash, Whole
  <2>7. QED
    BY <1>5, <2>3, <2>5, <2>6 DEF MuxInv
<1>8. QED
  BY <1>6, <1>7

(* The FIC of another mode was read.                                       *)
LEMMA FailKeeps == ASSUME MuxInv, Fail PROVE MuxInv'
<1>1. MuxTypes /\ FromRead /\ AtHand /\ Attached /\ EtiSources
  BY DEF MuxInv
<1>2. /\ pc = "frame" /\ pc' = "exit" /\ Fails
      /\ UNCHANGED <<input, number, ensemble, frameReady, m_fc, sources, ficSource, seen,
                     built, inputs, attached, last_eti_fct>>
  BY DEF Fail, Frame, Stop, multiplexer, flowgraph
<1>3. MuxTypes' /\ FromRead' /\ Attached'
  BY <1>1, <1>2 DEF MuxTypes, FromRead, Attached
<1>4. AtHand' /\ EtiSources'
  BY <1>1, <1>2 DEF AtHand, EtiSources, Clash, Whole
<1>5. \E e \in seen : FicWords(e.mid) # FicWords(DabMode)
  <2>1. /\ ficSource[1].frame.ensemble \in seen
        /\ \E e \in seen : ficSource[1].mid = e.mid
    BY <1>1, <1>2 DEF AtHand, FromRead
  <2>2. \/ FicWords(ficSource[1].mid) # FicWords(ficSource[1].frame.ensemble.mid)
        \/ FicWords(ficSource[1].mid) # FicWords(DabMode)
    BY <1>2 DEF Fails, FicSourceThrows, BlockPartitionerThrows
  <2>3. QED
    BY <2>1, <2>2
<1>6. ExitsOnlyFor'
  BY <1>2, <1>5 DEF ExitsOnlyFor
<1>7. QED
  BY <1>3, <1>4, <1>6 DEF MuxInv

(* Step by step.                                                           *)
LEMMA MuxStep == ASSUME MuxInv, [Next]_vars PROVE MuxInv'
<1>1. MuxTypes
  BY DEF MuxInv
<1>2. CASE Change
  <2>1. ensemble' \in Ensembles /\ number' \in Numbers
    BY <1>1, <1>2 DEF Change, MuxTypes
  <2>2. QED
    BY <1>2, <2>1, ReaderStays DEF Change
<1>3. CASE Lose
  <2>1. ensemble' \in Ensembles /\ number' \in Numbers
    BY <1>1, <1>3, NextNumber DEF Lose, MuxTypes, multiplexer
  <2>2. QED
    BY <1>3, <2>1, ReaderStays DEF Lose
<1>4. CASE BecomeCalm
  <2>1. ensemble' \in Ensembles /\ number' \in Numbers
    BY <1>1, <1>4 DEF BecomeCalm, MuxTypes
  <2>2. QED
    BY <1>4, <2>1, ReaderStays DEF BecomeCalm
<1>5. CASE TakeFrame
  <2>1. ensemble' \in Ensembles /\ number' \in Numbers
    BY <1>1, <1>5 DEF TakeFrame, MuxTypes, multiplexer
  <2>2. QED
    BY <1>5, <2>1, ReaderStays DEF TakeFrame
<1>6. CASE Discontinuity
  BY <1>6, RestartKeeps DEF Discontinuity
<1>7. CASE Reconfigure
  BY <1>7, RestartKeeps DEF Reconfigure
<1>8. CASE UNCHANGED vars \/ Exited
  <2>1. /\ UNCHANGED <<input, ensemble, number, pc, m_fc, frameReady, sources, ficSource, seen>>
        /\ UNCHANGED flowgraph
    BY <1>8 DEF Exited, vars, flowgraph
  <2>2. ensemble' \in Ensembles /\ number' \in Numbers
    BY <1>1, <2>1 DEF MuxTypes
  <2>3. QED
    BY <2>1, <2>2, ReaderStays
<1>9. QED
  BY <1>2, <1>3, <1>4, <1>5, <1>6, <1>7, <1>8, LoadKeeps, PacketKeeps, SkipKeeps, ModulateKeeps,
     FailKeeps DEF Next, Read, Decide

LEMMA MuxAlways == Spec => []MuxInv
<1>1. Init => MuxInv
  BY MuxInitially
<1>2. MuxInv /\ [Next]_vars => MuxInv'
  BY MuxStep
<1>3. QED
  BY <1>1, <1>2, PTL DEF Spec

-----------------------------------------------------------------------------
(* Properties.                                                             *)

(* The program ends only for a change to or from the FIC of mode 3, or,    *)
(* with EDI over TCP, of the length of a stream.                           *)
THEOREM MuxExitsOnlyFor == Spec => []ExitsOnlyFor
<1>1. MuxInv => ExitsOnlyFor
  BY DEF MuxInv
<1>2. QED
  BY <1>1, MuxAlways, PTL

(* What goes into a CIF has a source for every encoder.                    *)
LEMMA CifParts ==
    ASSUME MuxInv, Modulate
    PROVE  /\ DOMAIN Cif.parts = DOMAIN sources /\ DOMAIN Encoders = DOMAIN sources
           /\ Cif.frame = m_fc /\ Cif.fic = ficSource[1].frame
           /\ \A i \in DOMAIN sources :
                 Cif.parts[i] = [sad |-> sources[i].stream.sad, stl |-> Encoders[i].stream.stl,
                                 tpl |-> Encoders[i].stream.tpl, data |-> Encoders[i].data]
<1>1. Encoders \in Seq(Source) /\ sources \in Seq(Source) /\ Len(Encoders) = Len(sources)
  BY DEF MuxInv, MuxTypes, Encoders, Modulate, FrameMultiplexerThrows
<1>2. DOMAIN Encoders = DOMAIN sources
  BY <1>1, Members
<1>3. QED
  BY <1>2 DEF Cif

(* With ETI each stream has the place and the size in the CIF that the FIC *)
(* of the same CIF tells.                                                  *)
THEOREM MuxLayoutIsSignalled == Spec => LayoutIsSignalled
<1>1. MuxInv => [Modulate /\ input = "eti" =>
          /\ DOMAIN Cif.parts = DOMAIN Cif.fic.ensemble.stc
          /\ \A i \in DOMAIN Cif.parts :
                LET stream == Cif.fic.ensemble.stc[i] IN
                /\ Cif.parts[i].sad = stream.sad
                /\ FramesizeCu(Cif.parts[i].stl, Cif.parts[i].tpl)
                      = FramesizeCu(stream.stl, stream.tpl)]_vars
  <2> SUFFICES ASSUME MuxInv, Modulate, input = "eti"
               PROVE  /\ DOMAIN Cif.parts = DOMAIN Cif.fic.ensemble.stc
                      /\ \A i \in DOMAIN Cif.parts :
                            /\ Cif.parts[i].sad = Cif.fic.ensemble.stc[i].sad
                            /\ FramesizeCu(Cif.parts[i].stl, Cif.parts[i].tpl)
                                 = FramesizeCu(Cif.fic.ensemble.stc[i].stl,
                                               Cif.fic.ensemble.stc[i].tpl)
    OBVIOUS
  <2>1. /\ DOMAIN Cif.parts = DOMAIN sources /\ DOMAIN Encoders = DOMAIN sources
        /\ Cif.fic = ficSource[1].frame
        /\ \A i \in DOMAIN sources :
              Cif.parts[i] = [sad |-> sources[i].stream.sad, stl |-> Encoders[i].stream.stl,
                              tpl |-> Encoders[i].stream.tpl, data |-> Encoders[i].data]
    BY CifParts
  <2>2. /\ Cif.fic = m_fc /\ Len(sources) = Len(m_fc.ensemble.stc)
        /\ \A i \in DOMAIN sources : sources[i].stream = m_fc.ensemble.stc[i]
    BY <2>1 DEF MuxInv, EtiSources, Whole, Modulate, Frame
  <2>3. DOMAIN sources = DOMAIN m_fc.ensemble.stc
    <3>1. m_fc.ensemble \in Ensembles \cup {NoFrame.ensemble} /\ sources \in Seq(Source)
      BY DEF MuxInv, MuxTypes, FrameType
    <3>2. QED
      BY <2>2, <3>1, Members, EnsembleTypes
  <2>4. \A i \in DOMAIN sources : CapacityUnits(sources[i]) = CapacityUnits(Encoders[i])
    BY <2>1 DEF Modulate, FrameMultiplexerThrows
  <2>5. ASSUME NEW i \in DOMAIN sources
        PROVE  /\ Cif.parts[i].sad = Cif.fic.ensemble.stc[i].sad
               /\ FramesizeCu(Cif.parts[i].stl, Cif.parts[i].tpl)
                    = FramesizeCu(Cif.fic.ensemble.stc[i].stl, Cif.fic.ensemble.stc[i].tpl)
    <3>1. /\ Cif.parts[i].sad = sources[i].stream.sad
          /\ Cif.parts[i].stl = Encoders[i].stream.stl
          /\ Cif.parts[i].tpl = Encoders[i].stream.tpl
      <4> DEFINE new == [sad |-> sources[i].stream.sad, stl |-> Encoders[i].stream.stl,
                         tpl |-> Encoders[i].stream.tpl, data |-> Encoders[i].data]
      <4>1. /\ new.sad = sources[i].stream.sad /\ new.stl = Encoders[i].stream.stl
            /\ new.tpl = Encoders[i].stream.tpl
        OBVIOUS
      <4>2. Cif.parts[i] = new
        BY <2>1, Zenon
      <4> HIDE DEF new
      <4>3. QED
        BY <4>1, <4>2, Zenon
    <3>2. sources[i].stream = Cif.fic.ensemble.stc[i]
      BY <2>2
    <3>3. FramesizeCu(Encoders[i].stream.stl, Encoders[i].stream.tpl)
            = FramesizeCu(sources[i].stream.stl, sources[i].stream.tpl)
      BY <2>4 DEF CapacityUnits
    <3>4. QED
      BY <3>1, <3>2, <3>3
  <2>6. QED
    BY <2>1, <2>2, <2>3, <2>5
<1>2. QED
  BY <1>1, MuxAlways, PTL DEF LayoutIsSignalled

(* As long as the ensemble was only added to, a CIF holds the FIC and all  *)
(* streams of one frame, coded as the frame says and where it says.        *)
THEOREM MuxCurrentCif == Spec => CurrentCif
<1>1. MuxInv => [Modulate /\ OnlyAdded(m_fc.ensemble) => Current(Cif)]_vars
  <2> SUFFICES ASSUME MuxInv, Modulate, OnlyAdded(m_fc.ensemble) PROVE Current(Cif)
    OBVIOUS
  <2>1. /\ DOMAIN Cif.parts = DOMAIN sources /\ DOMAIN Encoders = DOMAIN sources
        /\ Cif.frame = m_fc /\ Cif.fic = ficSource[1].frame
        /\ \A i \in DOMAIN sources :
              Cif.parts[i] = [sad |-> sources[i].stream.sad, stl |-> Encoders[i].stream.stl,
                              tpl |-> Encoders[i].stream.tpl, data |-> Encoders[i].data]
    BY CifParts
  <2>2. MuxTypes /\ FromRead /\ AtHand /\ Attached /\ EtiSources /\ pc = "frame"
    BY DEF MuxInv, Modulate, Frame
  <2>3. /\ m_fc.ensemble \in Ensembles \cup {NoFrame.ensemble}
        /\ sources \in Seq(Source) /\ Len(sources) = Len(Encoders)
    BY <2>2 DEF MuxTypes, FrameType, Modulate, FrameMultiplexerThrows
  <2>4. /\ ~Clash
        /\ \A e \in seen : /\ DOMAIN e.stc \subseteq DOMAIN m_fc.ensemble.stc
                           /\ \A i \in DOMAIN e.stc : e.stc[i] = m_fc.ensemble.stc[i]
    BY <2>2, <2>3, OnlyAddedAgrees
  <2>5. Whole
    BY <2>2, <2>4 DEF AtHand
  <2>6. /\ DOMAIN sources = DOMAIN m_fc.ensemble.stc
        /\ \A i \in DOMAIN sources : sources[i].stream = m_fc.ensemble.stc[i]
    <3>1. /\ DOMAIN sources \subseteq DOMAIN m_fc.ensemble.stc
          /\ \A i \in DOMAIN sources : sources[i].stream = m_fc.ensemble.stc[i]
      BY <2>2, <2>4 DEF FromRead
    <3>2. DOMAIN m_fc.ensemble.stc \subseteq DOMAIN sources
      <4>1. /\ DOMAIN m_fc.ensemble.stc = 1 .. Len(m_fc.ensemble.stc)
            /\ DOMAIN sources = 1 .. Len(sources)
            /\ Len(m_fc.ensemble.stc) \in Nat /\ Len(sources) \in Nat
        BY <2>3, Members, EnsembleTypes
      <4>2. QED
        BY <2>5, <4>1 DEF Whole
    <3>3. QED
      BY <3>1, <3>2
  (* Encoders made for other sources would not fit.                        *)
  <2>7. \A i \in DOMAIN sources : Encoders[i] = sources[i]
    <3>1. CASE ~built
      BY <3>1 DEF Encoders
    <3>2. CASE built
      <4>1. Encoders = inputs
        BY <3>2 DEF Encoders
      <4>2. attached
        BY <2>2, <2>3, <2>4, <3>2, <4>1 DEF Attached, EtiSources
      <4>3. QED
        BY <2>1, <2>2, <4>1, <4>2 DEF Attached
    <3>3. QED
      BY <3>1, <3>2
  <2>8. \A i \in DOMAIN sources : sources[i].data = m_fc.number
    BY <2>5, <2>6 DEF Whole
  <2>9. QED
    BY <2>1, <2>5, <2>6, <2>7, <2>8 DEF Current, Whole
<1>2. QED
  BY <1>1, MuxAlways, PTL DEF CurrentCif
=============================================================================
