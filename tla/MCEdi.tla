-------------------------------- MODULE MCEdi --------------------------------
(* Small instances of the two ways EDI arrives: Pft, over UDP in           *)
(* fragments, and EdiStream, over TCP.  A behaviour is one of the one or   *)
(* of the other.                                                           *)
EXTENDS Pft, Sequences

CONSTANTS Streams, TcpBuffer, MaxBreaks, MaxTimeouts

VARIABLES part, stream, streamSent, link, pipe, fresh, breaks, silence, m_input_data, reader,
          frame, last, program

Tcp == INSTANCE EdiStream WITH sent <- streamSent

ediStreamVars == <<stream, streamSent, link, pipe, fresh, breaks, silence, m_input_data, reader,
                   frame, last, program>>

-----------------------------------------------------------------------------
(* Without FEC two fragments may be lost (a whole packet), with FEC one,   *)
(* and a packet may be two packets late; or, as with several ports,        *)
(* nothing is lost but fragments come more than once; or the delay is      *)
(* shorter than the builders are kept.                                     *)
Lossy == [rxMin |-> Fcount, maxLost |-> 2, maxDuplicates |-> 0, maxReorder |-> 2,
          maxDelay |-> 5]
LossyWithFec == [Lossy EXCEPT !.rxMin = Fcount - 1, !.maxLost = 1]
Repeating == [Lossy EXCEPT !.maxLost = 0, !.maxDuplicates = 3, !.maxReorder = 1]
Hasty == [Lossy EXCEPT !.maxLost = 1, !.maxDelay = 2]
EveryNetwork == {Lossy, LossyWithFec, Repeating, Hasty}

(* Packets that look like nothing else; packets with the letters A (65)    *)
(* and F (70) in them; one the reader can make no frame of; and one of     *)
(* something else.                                                         *)
Detected(body) == [body |-> body, tags |-> <<"*ptr", "deti", "est", "unknown">>]
Useless(body) == [body |-> body, tags |-> <<"*ptr", "too long", "deti">>]
Foreign(body) == [body |-> body, tags |-> <<"wrong *ptr", "deti">>]
EveryStream ==
    {<<Detected(<<1, 2>>), Detected(<<9, 9, 1>>), Detected(<<1, 2>>), Detected(<<1, 1>>)>>,
     <<Detected(<<65, 70, 2>>), Detected(<<70, 65, 70>>), Useless(<<5, 5>>)>>,
     <<Detected(<<1, 2>>), Foreign(<<3, 4>>)>>}

ASSUME TcpSettings == Tcp!StreamSettings

-----------------------------------------------------------------------------
EdiInit == /\ Init /\ Tcp!Init
           /\ part \in {"udp", "tcp"}
           /\ (part = "udp" => stream = CHOOSE s \in Streams : TRUE)
           /\ (part = "tcp" => network = CHOOSE n \in Networks : TRUE)

EdiNext == \/ part = "udp" /\ Next /\ UNCHANGED <<part, ediStreamVars>>
           \/ part = "tcp" /\ Tcp!Next /\ UNCHANGED <<part, vars>>

TcpReceives == part = "tcp" /\ (Tcp!Receive \/ Tcp!Closed \/ Tcp!Timeout \/ Tcp!Fails)

EdiSpec == /\ EdiInit /\ [][EdiNext]_<<part, vars, ediStreamVars>>
           /\ WF_ediStreamVars(TcpReceives)
           /\ WF_ediStreamVars(part = "tcp" /\ Tcp!TakeFrame)

-----------------------------------------------------------------------------
(* No packet of a connection is left out or decoded twice, however the     *)
(* stream is cut, if none is shorter than the buffer (the comment in       *)
(* EdiTransport::rxPacket), and they remain in order over several.         *)
NoneLeftOut == Tcp!NoneLeftOut

(* A connection that ended in the middle of a packet costs a few packets   *)
(* of the next one, unless the header was cut (push_bytes).                *)
Realigns == Tcp!Realigns

(* A half-open connection is left (the comment in TCPClient::recv).        *)
HalfOpenIsNoticed == Tcp!HalfOpenIsNoticed
=============================================================================
