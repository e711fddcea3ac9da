------------------------------ MODULE Drivers ------------------------------
(***************************************************************************)
(* The settings of the radio in the five drivers of src/output (UHD,       *)
(* Soapy, Lime, BladeRF, Dexter): opening the device, and changing them by *)
(* SDR::set_parameter() (src/output/SDR.cpp); and the stream of the Soapy  *)
(* driver, whose time is set when it is activated.                         *)
(*                                                                         *)
(* m_conf of the drivers is a reference to SDR's m_config, so that there   *)
(* is one set of told settings.  The radio takes any value, but may round  *)
(* it, or refuse it.                                                       *)
(***************************************************************************)
EXTENDS Integers

CONSTANTS Values,    \* what a setting may be: 0 is the default and what a malformed number leaves
          Coerce(_), \* what the radio makes of a value
          MaxPackets, MaxJump  \* bounds: packets per frame (MTUs), time lost between two frames

VARIABLES driver, radio,   \* the driver in use; "closed", "open" or "failed"
          m_config,        \* settings told by get_parameter()
          hw,              \* settings of the radio
          reported,        \* settings whose last write failed, with an exception or a message
          stream_active,   \* Soapy's m_tx_stream_active
          stream_time,     \* time of the stream less the frames sent since it was activated
          frame_time,      \* the same for the frame that was handed over last
          stream_refresh,  \* m_require_timestamp_refresh
          packet           \* packets of the frame that remain to be sent, 0 between two frames

driverVars == <<driver, radio, m_config, hw, reported, stream_active, stream_time, frame_time,
                stream_refresh, packet>>

streamVars == <<stream_active, stream_time, frame_time, stream_refresh, packet>>

Parameters == {"freq", "txgain", "rxgain", "bandwidth"}

Init == /\ driver = "none" /\ radio = "closed"
        /\ m_config = [p \in Parameters |-> 0] /\ hw = m_config /\ reported = {}
        /\ stream_active = FALSE /\ stream_time = 0 /\ frame_time = 0
        /\ stream_refresh = FALSE /\ packet = 0

-----------------------------------------------------------------------------
(* The constructors: settings that are written, those that are written     *)
(* only if they are not 0, those that are told as the radio has them       *)
(* afterwards, and those whose failure is only logged; others throw.       *)

UhdOpen == [written |-> {"freq", "txgain", "rxgain"}, ifAny |-> {"bandwidth"},
            read |-> {"freq", "txgain"}, logged |-> {}]

SoapyOpen == [written |-> {"freq", "txgain"}, ifAny |-> {"bandwidth"}, read |-> {"freq"},
              logged |-> {}]

(* LMS_Calibrate() is given a bandwidth of its own.                        *)
LimeOpen == [written |-> {"freq", "txgain"}, ifAny |-> {}, read |-> {}, logged |-> {"freq"}]

BladeRFOpen == [written |-> {"freq", "txgain", "bandwidth"}, ifAny |-> {}, read |-> {},
                logged |-> {"freq"}]

(* The frequency is read back, and throws if the radio has another; the    *)
(* gain is only written.                                                   *)
DexterOpen == [written |-> {"freq", "txgain"}, ifAny |-> {}, read |-> {"freq"},
               logged |-> {"txgain"}]

OpenOf == [uhd |-> UhdOpen, soapy |-> SoapyOpen, lime |-> LimeOpen, bladerf |-> BladeRFOpen,
           dexter |-> DexterOpen]

(* tune(), set_txgain(), set_rxgain() and set_bandwidth(): settings that   *)
(* have a place in the driver, those that are told as the radio has them,  *)
(* not as they were asked, and those whose failure is passed over.  UHD    *)
(* and Soapy throw the exceptions of their libraries, the others log.      *)

UhdSettings == [has |-> Parameters, readBack |-> Parameters, silent |-> {}]

SoapySettings == [has |-> Parameters, readBack |-> {"freq", "rxgain"}, silent |-> {}]

LimeSettings == [has |-> Parameters \ {"rxgain"}, readBack |-> {}, silent |-> {"bandwidth"}]

BladeRFSettings == [has |-> Parameters \ {"rxgain"}, readBack |-> {}, silent |-> {"bandwidth"}]

DexterSettings == [has |-> {"freq", "txgain"}, readBack |-> {"freq", "txgain"}, silent |-> {}]

SettingsOf == [uhd |-> UhdSettings, soapy |-> SoapySettings, lime |-> LimeSettings,
               bladerf |-> BladeRFSettings, dexter |-> DexterSettings]

Has(p) == p \in SettingsOf[driver].has

Written(d, conf) == OpenOf[d].written \cup {p \in OpenOf[d].ifAny : conf[p] > 0}

-----------------------------------------------------------------------------
(* prepare_output() makes the device with the settings of the              *)
(* configuration, of which ConfigParser reads the bandwidth for UHD, Soapy *)
(* and BladeRF, and the RX gain for UHD.                                   *)
Configured(d) == {conf \in [Parameters -> Values] :
                     /\ d # "uhd" => conf["rxgain"] = 0
                     /\ d \in {"lime", "dexter"} => conf["bandwidth"] = 0}

Open == /\ radio = "closed" /\ driver' \in DOMAIN OpenOf
        /\ \/ /\ radio' = "failed" /\ UNCHANGED <<m_config, hw, reported>>
           \/ /\ radio' = "open"
              /\ \E conf \in Configured(driver'), lost \in SUBSET OpenOf[driver'].logged :
                    /\ driver' = "dexter" => Coerce(conf["freq"]) = conf["freq"]
                    /\ hw' = [p \in Parameters |->
                                IF p \in Written(driver', conf) \ lost
                                THEN Coerce(conf[p]) ELSE hw[p]]
                    /\ m_config' = [p \in Parameters |->
                                      IF p \in OpenOf[driver'].read THEN hw'[p] ELSE conf[p]]
                    /\ reported' = lost
        /\ UNCHANGED streamVars

-----------------------------------------------------------------------------
(* SDR::set_parameter(): the value is written into m_config before the     *)
(* driver is called; a malformed one leaves 0 there and the driver is not  *)
(* called.                                                                 *)
Malformed(p) == /\ radio = "open"
                /\ m_config' = [m_config EXCEPT ![p] = 0]
                /\ reported' = reported \cup {p}
                /\ UNCHANGED <<driver, radio, hw, streamVars>>

(* (slip: a driver that reads back tells what it was asked) *)
ToldNotReadBack(p, asked) == asked

Told(p, asked) == IF p \in SettingsOf[driver].readBack THEN hw'[p] ELSE asked

(* set_txgain(), set_rxgain(), set_bandwidth() and tune() when the radio   *)
(* takes the value.  A setting the driver does not have is just noted.     *)
Accepted(p, v) == /\ radio = "open"
                  /\ hw' = IF Has(p) THEN [hw EXCEPT ![p] = Coerce(v)] ELSE hw
                  /\ m_config' = [m_config EXCEPT ![p] = IF Has(p) THEN Told(p, v) ELSE v]
                  /\ reported' = reported \ {p}
                  /\ UNCHANGED <<driver, radio, streamVars>>

(* When it does not.  Dexter goes on to read back, which may fail too: the *)
(* frequency is then told as 0, the gain as it was asked.                  *)
Refused(p, v) == /\ radio = "open" /\ Has(p) /\ UNCHANGED hw
                 /\ \/ m_config' = [m_config EXCEPT ![p] = v]
                    \/ /\ driver = "dexter"
                       /\ m_config' = [m_config EXCEPT ![p] = hw[p]]
                    \/ /\ driver = "dexter" /\ p = "freq"
                       /\ m_config' = [m_config EXCEPT ![p] = 0]
                 /\ reported' = reported \cup ({p} \ SettingsOf[driver].silent)
                 /\ UNCHANGED <<driver, radio, streamVars>>

(* The parameter channel: an unknown channel changes nothing; a known one  *)
(* is a frequency.                                                         *)
SetParameter == \E p \in Parameters : \/ Malformed(p)
                                      \/ \E v \in Values : Accepted(p, v) \/ Refused(p, v)

-----------------------------------------------------------------------------
(* Soapy::transmit_frame(), with synchronous timestamps.                   *)

(* SDR hands a frame over; where its time does not follow from the one     *)
(* before it has asked for a refresh (SdrOutput).  The stream is activated *)
(* with the time of the frame if it is not active.                         *)
BeginFrame ==
    /\ driver = "soapy" /\ radio = "open" /\ packet = 0
    /\ \E jump \in 0 .. MaxJump :
          /\ frame_time' = (frame_time + jump) % (MaxJump + 1)
          /\ stream_refresh' = (stream_refresh \/ jump > 0)
    /\ packet' \in 1 .. MaxPackets
    /\ stream_active' = TRUE
    /\ stream_time' = IF stream_active THEN stream_time ELSE frame_time'
    /\ UNCHANGED <<driver, radio, m_config, hw, reported>>

(* (slip: the flag is cleared, the stream left active) *)
EndOfBurstKept(muted) == /\ stream_refresh' = FALSE /\ UNCHANGED stream_active

EndOfBurst(muted) ==
    IF muted \/ stream_refresh
    THEN stream_active' = FALSE /\ stream_refresh' = FALSE
    ELSE UNCHANGED <<stream_active, stream_refresh>>

(* One packet is taken; muting ends the frame.  The stream is deactivated  *)
(* after the first packet of a frame that needs a refresh, since every     *)
(* packet is at most an MTU: the others go to a stream that is not active, *)
(* which the radio refuses or drops.                                       *)
WritePacket(muted) ==
    /\ packet > 0 /\ EndOfBurst(muted)
    /\ packet' = IF muted THEN 0 ELSE packet - 1
    /\ UNCHANGED <<driver, radio, m_config, hw, reported, stream_time, frame_time>>

(* A time-out, an overflow or an underflow repeats the call, without end   *)
(* and whatever happens to the program.                                    *)
WriteAgain == packet > 0 /\ UNCHANGED driverVars

(* Another error, or a stream that cannot be (de)activated, throws, which  *)
(* ends the device thread.                                                 *)
WriteFails == /\ packet > 0 /\ radio' = "failed" /\ packet' = 0
              /\ UNCHANGED <<driver, m_config, hw, reported, stream_active, stream_time,
                             frame_time, stream_refresh>>

Next == \/ Open
        \/ SetParameter
        \/ BeginFrame
        \/ \E muted \in BOOLEAN : WritePacket(muted)
        \/ WriteAgain
        \/ WriteFails

Spec == Init /\ [][Next]_driverVars

-----------------------------------------------------------------------------
(* Settings whose told value cannot be compared: the ones without a place  *)
(* in the driver, the bandwidth that Lime and BladeRF set without looking  *)
(* at the result, and a bandwidth of 0, which leaves the default.          *)
Untold(p) == \/ ~Has(p)
             \/ p \in SettingsOf[driver].silent
             \/ p = "bandwidth" /\ m_config[p] = 0

(* Settings told as they are from the start, the others at least as asked. *)
Exact == {<<"uhd", "freq">>, <<"uhd", "txgain">>, <<"soapy", "freq">>, <<"dexter", "freq">>}

(* After any sequence of opening, changes, refusals and malformed values,  *)
(* what get_parameter() tells is what the radio does (or, without reading  *)
(* back, was asked and has accepted), unless the last change of this       *)
(* setting was reported as failed to the remote control client or logged.  *)
ToldIsSet == radio = "open" =>
    \A p \in Parameters : \/ p \in reported \/ Untold(p)
                          \/ hw[p] = m_config[p]
                          \/ <<driver, p>> \notin Exact /\ hw[p] = Coerce(m_config[p])

(* The Soapy stream runs on the time of the frames, unless a refresh is    *)
(* pending that restarts it: a gap costs the frame after it, never the     *)
(* time of the frames that follow.                                         *)
StreamOnTime == stream_active /\ ~stream_refresh => stream_time = frame_time
=============================================================================
