------------------------------ MODULE EdiStream ------------------------------
(***************************************************************************)
(* EDI over TCP: TCPClient of lib/Socket.cpp receives what there is of a   *)
(* stream and connects again when it must; EdiTransport::rxPacket of       *)
(* src/EtiReader.cpp gives every piece to TagDispatcher::push_bytes of     *)
(* lib/edi/common.cpp, which finds the AF packets in it; and the main loop *)
(* takes a frame when one is complete.                                     *)
(*                                                                         *)
(* A byte is a record of its value and of the packet and place it has in   *)
(* it.  An AF packet is "A", "F", its length, as many other bytes, which   *)
(* may look like anything, and the CRC.                                    *)
(***************************************************************************)
EXTENDS Integers, Sequences, FiniteSetsExt

CONSTANTS Streams,     \* sequences of packets, records: body, tags
          TcpBuffer,   \* bytes rxPacket() receives at most, 512 in the code
          MaxBreaks,   \* bound: connections that end
          MaxTimeouts  \* 5 in the code

(* Packets have bodies of bytes, and none is shorter than the buffer: two  *)
(* that are longer together, as the comment in EdiTransport::rxPacket asks *)
(* for, are not enough, since a piece may end one packet and hold another. *)
StreamSettings ==
    /\ TcpBuffer \in Nat \ {0} /\ MaxBreaks \in Nat
    /\ \A s \in Streams : /\ s \in Seq([body : Seq(Nat), tags : Seq(STRING)])
                          /\ \A k \in DOMAIN s : TcpBuffer <= 4 + Len(s[k].body)

A == 65
F == 70

VARIABLES stream,        \* what the multiplexer sends
          sent,          \* packets sent, or left out while nobody was connected
          link,          \* the connection
          pipe,          \* bytes on the way
          fresh,         \* history: packets sent over this connection
          breaks,
          silence,       \* timeouts since m_last_received_packet_ts, None if that has no value
          m_input_data,
          reader,        \* the EdiReader's m_proto_valid and m_fc_valid
          frame,         \* packet of the frame that is ready, 0 if none is
          last,          \* packet decoded last
          program        \* "runs" or "stopped"

streamVars == <<stream, sent, link, pipe, fresh, breaks, silence, m_input_data, reader, frame, last,
                program>>

None == -1
Cleared == [proto |-> FALSE, fc |-> FALSE]

Init == /\ stream \in Streams /\ sent = 0 /\ link = "connecting" /\ pipe = <<>> /\ fresh = 0
        /\ breaks = 0 /\ silence = None /\ m_input_data = <<>> /\ reader = Cleared
        /\ frame = 0 /\ last = 0 /\ program = "runs"

-----------------------------------------------------------------------------
(* TagDispatcher.                                                          *)

Bytes(k) == LET values == <<A, F, Len(stream[k].body)>> \o stream[k].body \o <<0>>
            IN  [i \in DOMAIN values |-> [packet |-> k, place |-> i, value |-> values[i]]]

(* The CRC is right if the bytes are those of one packet, all of them.     *)
CrcRight(bytes) == bytes = Bytes(bytes[1].packet)

(* decode_tagpacket(): an unknown tag, and one that is longer than what is *)
(* left, end it, and that is no error.                                     *)
Handled(tags) == LET ends == {i \in DOMAIN tags : tags[i] \in {"unknown", "too long"}}
                 IN  IF ends = {} THEN tags ELSE SubSeq(tags, 1, Min(ends) - 1)

Has(k, tag) == \E i \in DOMAIN Handled(stream[k].tags) : Handled(stream[k].tags)[i] = tag

(* ETIDecoder and EdiReader: every tag but the protocol needs the protocol *)
(* before it, perhaps that of an earlier packet; another protocol is       *)
(* refused.                                                                *)
TagThrows(proto, k) ==
    LET tags == Handled(stream[k].tags)
    IN  \E i \in DOMAIN tags :
            \/ tags[i] = "wrong *ptr"
            \/ tags[i] \in {"deti", "est"} /\ ~proto /\ \A j \in 1 .. i - 1 : tags[j] # "*ptr"

(* m_proto_valid and m_fc_valid after these packets.                       *)
Read(packets) ==
    [proto |-> reader.proto \/ \E i \in DOMAIN packets : Has(packets[i], "*ptr"),
     fc    |-> reader.fc \/ \E i \in DOMAIN packets : Has(packets[i], "deti")]

(* assemble() needs both.                                                  *)
Throws(packets) == \E i \in DOMAIN packets :
                       \/ TagThrows(Read(SubSeq(packets, 1, i - 1)).proto, packets[i])
                       \/ Read(SubSeq(packets, 1, i)) # [proto |-> TRUE, fc |-> TRUE]

(* decode_afpacket(): the bytes the packet at the front should have, or 0  *)
(* if some are missing.                                                    *)
PacketBytes(data) == IF Len(data) < 3 \/ Len(data) < 4 + data[3].value THEN 0
                     ELSE 4 + data[3].value

(* (slip: an incomplete packet is thrown away with the piece it came in) *)
IncompleteDropped(data) == <<>>

Incomplete(data) == data

(* (slip: a packet with a wrong CRC loses its marker only) *)
AfterErrorNothing(data, n) == data

AfterError(data, n) == SubSeq(data, n + 1, Len(data))

(* push_bytes(): what is left, and the packets that were decoded; from[p]  *)
(* is what happens once the bytes before p are done with.                  *)
PushBytes(data) ==
    LET Left(p) == SubSeq(data, p, Len(data))
        from[p \in 1 .. Len(data) + 1] ==
            LET n == PacketBytes(Left(p))
            IN  IF Len(Left(p)) <= 2 THEN [rest |-> Left(p), packets |-> <<>>]
                ELSE IF data[p].value # A \/ data[p + 1].value # F THEN from[p + 1]
                ELSE IF n = 0 THEN [rest |-> Incomplete(Left(p)), packets |-> <<>>]
                ELSE IF ~CrcRight(SubSeq(data, p, p + n - 1))
                THEN [rest |-> AfterError(Left(p), n), packets |-> <<>>]
                ELSE [rest |-> from[p + n].rest,
                      packets |-> <<data[p].packet>> \o from[p + n].packets]
    IN  from[1]

-----------------------------------------------------------------------------
(* TCPClient::recv, called by rxPacket until a frame is ready.             *)

network == <<stream, sent, fresh>>

Receiving == program = "runs" /\ frame = 0

(* (slip: a timeout counts as a sign of life) *)
SilenceForgotten == 0

Silence == silence + 1

Receive ==
    /\ Receiving /\ pipe # <<>>
    /\ \E n \in 1 .. Min({TcpBuffer, Len(pipe)}) :
           LET done == PushBytes(m_input_data \o SubSeq(pipe, 1, n))
           IN  /\ pipe' = SubSeq(pipe, n + 1, Len(pipe))
               /\ m_input_data' = done.rest
               /\ reader' = Read(done.packets)
               /\ \/ /\ done.packets = <<>> /\ UNCHANGED <<frame, last, program>>
                  \/ /\ done.packets # <<>> /\ Throws(done.packets)
                     /\ program' = "stopped" /\ UNCHANGED <<frame, last>>
                  \/ /\ done.packets # <<>> /\ ~Throws(done.packets)
                     /\ frame' = done.packets[Len(done.packets)] /\ last' = frame' /\ UNCHANGED program
    /\ silence' = 0
    /\ UNCHANGED <<network, link, breaks>>

(* Connecting without waiting may fail at once, which ends the input.      *)
Reconnect == /\ \/ link' = "connecting" /\ UNCHANGED program
                \/ link' = "closed" /\ program' = "stopped"
             /\ pipe' = <<>>
             /\ UNCHANGED <<network, m_input_data, reader, frame, last>>

(* recv() returns 0: the other end has closed, or it refused.              *)
Closed == /\ Receiving /\ pipe = <<>> /\ link \in {"closed", "refused"}
          /\ Reconnect /\ silence' = 0 /\ UNCHANGED breaks

(* Nothing in a second; after five of these the connection may be half     *)
(* open.  Without m_last_received_packet_ts timeouts do nothing.           *)
Timeout == /\ Receiving /\ pipe = <<>> /\ link \in {"connecting", "up", "dead"}
           /\ silence # None
           /\ IF Silence >= MaxTimeouts
              THEN Reconnect /\ silence' = None /\ breaks' = Min({breaks + 1, MaxBreaks})
              ELSE /\ silence' = Silence
                   /\ UNCHANGED <<network, link, pipe, breaks, m_input_data, reader, frame, last,
                                  program>>

(* Any other error ends the input, and the modulator.                      *)
Fails == /\ Receiving /\ pipe = <<>> /\ link = "reset" /\ program' = "stopped"
         /\ UNCHANGED <<network, link, pipe, breaks, silence, m_input_data, reader, frame, last>>

(* The main loop, which then calls clearFrame().                           *)
TakeFrame == /\ frame # 0 /\ frame' = 0 /\ reader' = Cleared
             /\ UNCHANGED <<network, link, pipe, breaks, silence, m_input_data, last, program>>

-----------------------------------------------------------------------------
(* The multiplexer and the network.                                        *)

receiver == <<stream, silence, m_input_data, reader, frame, last, program>>

(* A new connection begins with a whole packet, some later one.            *)
Accept == /\ link = "connecting" /\ link' = "up" /\ fresh' = 0
          /\ sent' \in IF breaks = 0 THEN {sent} ELSE sent .. Len(stream)
          /\ UNCHANGED <<receiver, pipe, breaks>>

Refuse == /\ link = "connecting" /\ breaks < MaxBreaks
          /\ link' = "refused" /\ breaks' = breaks + 1
          /\ UNCHANGED <<receiver, pipe, sent, fresh>>

SendPacket == /\ link = "up" /\ sent < Len(stream) /\ Len(pipe) <= TcpBuffer
              /\ sent' = sent + 1 /\ fresh' = fresh + 1 /\ pipe' = pipe \o Bytes(sent + 1)
              /\ UNCHANGED <<receiver, link, breaks>>

(* The connection is closed, or is lost with some of what is on the way.   *)
Break == /\ link = "up" /\ breaks < MaxBreaks /\ breaks' = breaks + 1
         /\ link' \in {"closed", "dead", "reset"}
         /\ \E n \in 0 .. Len(pipe) : pipe' = SubSeq(pipe, 1, n)
         /\ UNCHANGED <<receiver, sent, fresh>>

Next == \/ Receive \/ Closed \/ Timeout \/ Fails \/ TakeFrame
        \/ Accept \/ Refuse \/ SendPacket \/ Break

(* The main loop calls rxPacket() again and again.                         *)
StreamFairness == WF_streamVars(Receive \/ Closed \/ Timeout \/ Fails) /\ WF_streamVars(TakeFrame)

Spec == Init /\ [][Next]_streamVars /\ StreamFairness

-----------------------------------------------------------------------------
(* Wherever the stream is cut, and whatever the packets contain, every     *)
(* packet of a connection is decoded, once and in order, and its frame is  *)
(* taken before the next one takes its place, if no packet is shorter than *)
(* TcpBuffer; over several connections they remain in order.               *)
NoneLeftOut == [][last' # last => IF breaks = 0 THEN last' = last + 1 ELSE last' > last
                 ]_streamVars

(* A connection that ended in the middle of a packet, whose beginning is   *)
(* then completed with bytes of the next connection, costs a few packets:  *)
(* of any three that arrive in full one is decoded, if no body looks like  *)
(* a packet.  When the header itself was cut, its length is read from the  *)
(* next packet and the decoder waits for as many bytes as that says.       *)
Plain == \A k \in DOMAIN stream : \A i \in DOMAIN stream[k].body : stream[k].body[i] # A
HeaderCut == /\ Len(m_input_data) > 2
             /\ \E i \in 2 .. 3 : m_input_data[i].packet # m_input_data[1].packet

Realigns == link = "up" /\ fresh >= 3 /\ pipe = <<>> /\ frame = 0 /\ program = "runs" /\ Plain
                => last > sent - 3 \/ HeaderCut

(* Half-open connections are noticed (the comment in TCPClient::recv), if  *)
(* something was received before.                                          *)
HalfOpenIsNoticed == link = "dead" /\ silence # None ~> link # "dead" \/ program = "stopped"
=============================================================================
