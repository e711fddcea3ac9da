# A verification model of ODR-DabMod

ODR-DabMod turns an ETI stream (from a file, TCP, or EDI over UDP/TCP) into DAB
baseband samples and hands them, with timestamps for single-frequency networks,
to an SDR device or a file.  This directory holds TLA+ models of the parts of it
whose correctness depends on order, concurrency, loss or wrap-around, the TLC
configurations that check them on small instances, and TLAPS proofs of the
central results.

Everything is checked with plain `tlc -config X.cfg M` and `tlapm M.tla` from
this directory.  `PROJECT.json` says, definition by definition, which lines of
the source each one stands for.

## 1. Inventory

The table lists the parts of the program, the state each keeps, what changes
it, and where the difficulties are.  Paths are relative to the repository.

| Part | State | Operations | Hard because | Correct means |
|---|---|---|---|---|
| **Thread-safe queue** `lib/ThreadsafeQueue.h` | `the_queue`, `wakeup_requested`, two condition variables | `push` (unbounded, bounded), `push_overflow`, `push_wait_if_full`, `try_pop`, `wait_and_pop` with prebuffering, `trigger_wakeup` | notifications after the unlock, spurious wakeups, two conditions, a wakeup that competes with data | no lost wakeup, no mutual sleep, order kept, only a full queue drops |
| **Pipelined elements** `src/ModPlugin.*` (gain control, FIR filter, predistorter) | two queues, a worker thread, `m_running`, `m_ready_to_output_data`, `m_metadata_fifo` | `process`, `process_metadata`, `process_thread`, `stop_pipeline_thread` | data passes through the worker, metadata does not; the worker may fail while the main thread waits for it | one call of latency, data and metadata together, every call returns, bounded memory |
| **Flowgraph** `src/Flowgraph.*`, `src/BlockPartitioner.cpp`, `src/OutputMemory.cpp`, `src/FicSource.cpp`, `src/FrameMultiplexer.cpp`, `src/DabModulator.cpp` | an edge (buffer and metadata) between elements; the partitioner's CIF counter and block; the memory at the end of the inner flowgraph | `Flowgraph::run`, `Node::process`, each element's `process`/`process_metadata` | elements run at different rates and a zero ends the round, leaving things on the edges | each transmission frame is made of consecutive, aligned CIFs and has their metadata |
| **Main loop** `src/DabMod.cpp` | `running`, `last_eti_fct`, the current input and flowgraph | `run_modulator`, `launch_modulator`, `signalHandler` | frames are lost, skipped and kept across restarts; two counters (FCT mod 250, phase mod 8) | only consecutive frames enter one flowgraph, a signal ends the program, it recovers |
| **SDR output** `src/output/SDR.*`, `SDRDevice.h` | `m_queue`, `m_running`, `m_config` (shared with the remote control), `last_tx_*`, `m_require_timestamp_refresh` | `process`, `process_metadata`, `handle_frame`, `set_parameter`, destructor | three threads; many reasons to drop a frame | order, no gap without refresh, the death of the thread is noticed, destruction terminates |
| **UHD device** `src/output/UHD.*` | `m_running`, burst state in the radio | `transmit_frame`, clock check | muting changes between packets; a refused packet | a jump of time ends the burst |
| **EDI fragments** `lib/edi/PFT.*` | `m_afbuilders`, `m_next_pseq` | `pushPFTFrag`, `getNextAFPacket`, `incrementNextPseq` | loss, duplication, reordering, wrap of the 16-bit number | AF packets in order, once, none missing without loss |
| **EDI decoding** `lib/edi/common.*`, `ETIDecoder.*`, `src/EtiReader.*` | byte buffer of a TCP stream, one ETI frame being assembled, sources per subchannel | `push_bytes`, `decode_*packet`, `update_*`, `add_subchannel`, `assemble` | a stream cut anywhere, tags in any order, frames half assembled | a frame is complete and consistent when it is used |
| **Timestamps** `src/TimestampDecoder.*` | `time_secs`, `time_pps`, the MNSC time fields, `enableDecode`, `inhibit_second_update`, `full_timestamp_received`, the offset | `updateTimestampEti`, `updateTimestampEdi`, `pushMNSCData`, `getTimestamp`, `set_parameter` | carry and borrow; the second comes in four parts with four frames and is counted on between; losses nobody notices | a timestamp that counts as valid is the time the multiplexer meant, plus the offset |
| **DAB modulator** `src/DabModulator.*` (and all elements, `src/Flowgraph.cpp`) | the inner flowgraph: nodes in processing order, edges, buffers; `d_cifNb`, `m_insert` | `setMode`, `process` (builds, then runs), `Flowgraph::connect` | dozens of elements check lengths against constants from other files; the order results from the order of calls | what the standard allows is modulated with the right length and phase, nothing else is |
| **Protection profiles** `src/SubchannelSource.cpp`, `src/PuncturingEncoder.cpp` | tables | `protectionForm/Level/Option`, `framesize`, `framesizeCu`, `get_rules` | two tables per kind of profile, connected only by a check at run time | rules and capacity units agree for every profile there is |
| **Inputs** `src/InputFileReader.*`, `src/InputTcpReader.*` | position and type of the file, connection | `Open`, `GetNextFrame`, `Rewind`, `IdentifyType` | truncated files, timeouts, interrupted calls | every frame once, the end is noticed |
| **ETI parser** `src/EtiReader.cpp` | sources, state of the parse | `loadEtiData` | data arrives in pieces | as for EDI |
| **FIC decoder** `src/FigParser.*`, `src/FicSource.cpp` | FIGs seen | `FICDecoder`, `push`, `process` | display only | - |
| **Time interleaver** `src/TimeInterleaver.cpp` | 16 frames of history | `process` | index arithmetic | bit *i* is delayed by a fixed number of CIFs |
| **Channel coding** `src/PrbsGenerator.cpp`, `ConvEncoder.cpp`, `PuncturingRule.cpp`, `FrequencyInterleaver.cpp` | registers, tables | `process` | index and bit arithmetic | the standard's definitions |
| **OFDM and signal processing** `src/Ofdm*.cpp`, `GainControl.cpp`, `FIRFilter.cpp`, `MemlessPoly.cpp`, `CicEqualizer.cpp`, `Resampler.cpp`, `GuardIntervalInserter.cpp`, `TII.cpp`, ... | coefficients, the threads of the predistorter, settings of the crest factor reduction, filter state | `process`, `internal_process`, `load_coefficients`, `set_parameter` | floating point; coefficients and settings replaced in the middle of a frame | a frame is made with one set of coefficients, by all threads; lengths fit; what the values are is out of reach of TLC |
| **Sockets** `lib/Socket.*` | sockets, threads and queues per connection | TCP client, dispatcher, receive server, send client, UDP | reconnection, threads that end | data reach every live connection in order |
| **Remote control** `lib/RemoteControl.*` | list of controllables, controllers | `enrol`, `remove_controllable`, `set_param`, restart of a controller | requests while the program starts and stops | no request reaches an object that is gone |
| **DPD feedback server** `src/output/Feedback.*` | one burst request with a state, two threads and a client | `set_tx_frame`, `ReceiveBurstThread`, `ServeFeedback` | hand-over of one request between threads | TX and RX samples of the answer belong together |
| **GPS clock** `src/output/USRPTime.*`, **Dexter clock** `src/output/Dexter.cpp` | state of the lock, holdover deadline | `verify_time`, `check_gps`, `is_clk_source_ok` | timeouts, asynchronous lock checks | the output stops when holdover is over, and not before |
| **Other devices** `src/output/Soapy.cpp`, `Lime.cpp`, `BladeRF.cpp`, Dexter's channel | told settings, settings of the radio, an active stream or channel | opening, `transmit_frame`, `set_...` | rounding, refusals, a stream whose time is set once | what is told is so; frames are on the air at their time |
| **Configuration** `src/ConfigParser.*`, `src/DabMod.cpp` | `mod_settings_t` | `parse_args`, `parse_configfile`, `prepare_output` | two sources of each setting, the format chosen in two places | the command line wins; output and samples fit |
| **File, ZeroMQ outputs; logging; events; vendored code** | - | - | pure I/O, formatting | - |

How they interact: the main thread reads a frame, runs the flowgraph element
by element (calls), and the last element pushes a transmission frame into the
SDR output's queue.  Each pipelined element, the SDR output, the feedback
server, each socket and the remote control have threads of their own; what
they share is a `ThreadsafeQueue`, an atomic flag, or - for the remote control -
plain configuration fields read without a lock.  Metadata (timestamps) travels
beside the samples through the same edges but not through the same queues.

## 2. Modules

| Module | Models | Composes / implements |
|---|---|---|
| `OverflowFifo` | abstract: what a ThreadsafeQueue promises | - |
| `ThreadsafeQueue` | the queue, one step per critical section, notification or wakeup | implements `OverflowFifo` |
| `Predistorter` | the threads and coefficients of `MemlessPoly`, the taps of `FIRFilter`, under the remote control and over new flowgraphs | queues as FIFOs |
| `CrestFactor` | the settings of the crest factor reduction in `OfdmGenerator` and the statistics made with them | - |
| `DelayLine` | abstract: "one-call-to-process() latency" (`ModPlugin.h`) | - |
| `PipelinedCodec` | a `PipelinedModCodec`: main thread and worker | implements `DelayLine`; uses the queue as a FIFO |
| `Flowgraph` | `Flowgraph::run` over the elements that keep state | each codec is one complete round of `PipelinedCodec` |
| `MainLoop` | `run_modulator`, `launch_modulator`, signals, three inputs | - |
| `InputFile` | types of ETI files, frames, end and rewind | - |
| `RemoteControl` | enrolment, the two controllers with their threads, restarts and end | the program is that of `MainLoop`, reduced to what it creates and destroys |
| `SdrOutput` | main, device and remote-control thread of the SDR output | uses the queue as an overflow FIFO |
| `UhdTransmit` | `transmit_frame` packet by packet | refines the one step `TransmitFrame` of `SdrOutput` |
| `UsrpTime` | lock of the GPS, holdover, the clock check of UHD | - |
| `DexterDevice` | clock and channel of the Dexter, with the checks of `handle_frame` | - |
| `Drivers` | opening and settings of all five radios, the stream of Soapy | - |
| `Feedback` | the burst request of the predistortion server among three threads | - |
| `Pft` | fragment reassembly and the network before it | - |
| `EdiStream` | EDI over TCP: connection, timeouts, the decoder's byte stream, tags, the frame taken by the main loop | - |
| `SubchannelSource` | puncturing rules, lengths and capacity units of all profiles | - |
| `DabModulator` | building of the inner flowgraph, lengths of all elements, phase of TII | extends `SubchannelSource`; pipelined elements as `DelayLine` |
| `Coding` | interleavers, dispersal, convolutional encoder and TII as algorithms, one step per round of their loops, with the standard's definitions beside them | - |
| `Configuration` | options, file, choice of output, format, range and input | - |
| `TimestampDecoder` | the decoder with both inputs, the main loop's choice of frames, the SDR output's expectation | - |
| `Multiplex` | a change of the ensemble on its way through the readers, the flowgraph and the main loop | extends `SubchannelSource`; the main loop is that of `MainLoop`, the lengths those of `DabModulator` |
| `MCThreads` | constants for TLC | `ThreadsafeQueue`, `Predistorter`, `CrestFactor` |
| `MCMainThread` | constants for TLC | `PipelinedCodec`, `Flowgraph`, `MainLoop`, `RemoteControl`, `InputFile` |
| `MCDevice` | constants for TLC | `UhdTransmit`, `SdrOutput`, `UsrpTime`, `DexterDevice`, `Drivers`, `Feedback` |
| `MCEdi` | constants for TLC | `Pft`, `EdiStream` |
| `MCDabModulator` | constants for TLC | `TimestampDecoder`, `DabModulator`, `Coding`, `Configuration` |
| `MCMultiplex`, `MCFlowgraph` | constants for TLC | one module each |
| `*Proofs` | theorems and proofs | extend the module of that name; `ThreadsProofs`, `MainThreadProofs`, `DeviceProofs`, `EdiStreamProofs` and `ModulatorProofs` the sum `MC...` |

The MC modules of several modules are sums: a variable `part` says which of them a behaviour
belongs to, the others stay in one of their initial states, and the fairness of a module holds where it
runs.  What a module needs of another one is in its own actions (`SdrOutput`
takes the queue as the FIFO that `ThreadsafeQueue` is shown to implement, `Flowgraph` takes a
pipelined element as the `DelayLine` that `PipelinedCodec` implements, `SdrOutput` has all of
`UhdTransmit` as one step), so that a product would add states and no interaction.

Correspondence of state and actions with the code:

- Variables carry the names of the members they model (`m_running`,
  `m_queue`, `m_next_pseq`, `last_eti_fct`, ...).  What the code keeps in a
  program counter is a variable named for the thread (`main`, `worker`,
  `producer`, `consumer`, `device`).
- One action is what a thread does between two points where another thread
  could notice: a critical section, one read of a shared atomic or field, one
  blocking call.  A `(slip: ...)` definition next to an action is a plausible
  mistake in that code and is used nowhere; replacing the action by it must break
  a property, which shows that the property speaks about the code.
- Data that the properties do not look into are numbers: frames, packets and
  queue elements are numbered in the order of their creation, so that "in
  order", "twice" and "missing" can be said.

`ThreadsafeQueue`.  A thread that finds its condition false gives up the mutex
and is asleep in the same step, as with a condition variable.  `notify_one` is
a step after the unlock.  Spurious wakeups are possible at any time.  One
producer and one consumer, as everywhere in the program, and both call whatever
member they like.

`Predistorter`.  Files can be written (the code does not look whether the write-back succeeded).  A set of coefficients is a format and a number, a text (of a file, or of a request)
the set it holds and whether it is whole.  `out` says for every sample what was applied to it.  Every push to
a worker, every piece of work and every collected answer is a step, and `set_parameter` is three:
the text, the assignment under the lock (which only `m_dpd_settings_valid = false` does without),
and the file.  A new element reads the file; requests that run while their element is destroyed
are a matter of `RemoteControl`.

`CrestFactor`.  A symbol is its number.  `Refer` is all up to the transform, `Reduce` all after it, since
these are the two places where `myCfr` is read; `set_parameter` assigns and then requests that
the statistics be cleared.

`PipelinedCodec`.  `process` is three steps (test of `m_running`, push, wait for
output or first round), `process_metadata` one, the worker five.  The worker may
fail on any frame.  The destructor may come between any two rounds.  The code
never calls `process` with an empty buffer (an element that returns 0 ends the
round), and the model relies on it: an empty buffer would be taken for the order to
stop.

`Flowgraph`.  ETI frames are numbered and stand for their timestamps as well.
A gap, or a change of subchannels in the middle of a transmission frame, replaces
the flowgraph; which frame the next flowgraph begins with (with EDI the one that caused the change, with a file the first one) is a
matter of `MainLoop`, here it is one of the next two.  Elements without state are left out; there are as many codecs as
`Stages`.

`SdrOutput`.  Time is counted in transmission frames; a frame is due at its number plus the offset
of the operator, which may change with every frame, and the clock of the radio goes from 0 to any later one of `Instants`.
The configuration is read as often as the code reads it (`synchronous` for the test of a missing timestamp, for the
timestamp itself, and by the radio), so that a change by the remote control may fall between
two reads.  The clock check may drop a frame or end the thread at any time; the radio may refuse a
frame, and its driver may throw.  `sent` is the last frame the radio got, with the times of the last two
that were sent at their time, and `disturbed` counts the frames from which the code itself has taken
the refresh: the next one after a refused frame, the next one after a frame without timestamp that was sent while a refresh was
pending, and two after a change of `synchronous` between the check of a frame and its sending
(the one in hand, and the one that is compared with a time that was not sent).

`UhdTransmit`.  A frame is a number of packets; `muting` is read for each.
`open` says whether the radio plays on without looking at the time, `skipped` whether
the time has jumped since the last packet.

`MainLoop`.  Frames of the multiplexer are numbered modulo `Cycle`, a common
multiple of the two counters, so that behaviours have no end and liveness means
something.  The input (file, looped file, TCP, EDI) and its settings are chosen
at the start.  Reading a file may fail, and so may parsing what was read.

`Pft`.  A builder maps a fragment index to the packet the fragment came from;
fragments of different packets under one sequence number make no valid packet
(CRC).  One received fragment is `pushPFTFrag` followed by one
`getNextAFPacket`, as in `TagDispatcher::push_packet`.  The network (how much is
lost, repeated, how late) is chosen at the start.

`DabModulator`.  One action per `connect()`, per element that is made or processed, and
per return of `Flowgraph::run`.  A buffer is its length in bytes; an element is its
length check and the length it returns.  The settings and the ensemble (subchannels with STL
and TPL, mode identity) are chosen at the start.  `ready` holds the pipelined elements that have
been called once: as in `DelayLine` the first call returns 0, which ends the round.

`TimestampDecoder`.  The multiplexer is external: it knows the true time, puts the time of the
frame into TIST, and tells in the MNSC of four frames the second of the frame of phase 0, or
something else.  The calendar is one of minutes and days.  The second has
`SecondTicks` units and is, as in the program, no multiple of a frame.  The program runs
with `synchronous` set.  A transmission frame has the timestamp of its first ETI frame
(mode I); a restart makes a new `EtiReader`, with a new decoder, but keeps the `EdiReader`.
An EDI frame may lack ATST, which counts as a disturbance, and so do a new offset and a malformed one,
which becomes 0 without a flag.
`mux`, `sec`, `pps`, `fp` and `group` are the multiplexer, `exact` in a frame is the
time it should leave, and `disturbances`, `unsure` and `groups` are history.

`Multiplex`.  An ensemble is a mode identity and a sequence of streams; the data of a stream, and a
FIC, are the number of the frame they came with.  `sources` is `mySources` or `m_sources`.  The
flowgraph holds shared pointers: `inputs` is what its encoders read, and `attached` says whether these
objects are still the reader's, so that loading a source changes `inputs` as well.  With ETI one
action reads a frame; with EDI one action receives a packet, perhaps with another to follow in the same
call of `rxPacket()` (`pc = "batch"`), and another takes the frame.  `Fails` and `FrameMultiplexerThrows` are the
exceptions of the elements in the order the flowgraph runs them in.  `calm` is history: from then on
the network loses nothing and the ensemble stays.  `seen` is history as well.

`InputFile`.  A file is a sequence of words of two bytes with a marker at each frame; `frames` is
what should come out of it, and `at` is where each frame begins.  Pipes cannot be rewound, nor can what was read to find the type be read
again.  `MaxRounds` bounds how often a looped file is read, in runs; the proof is for any value.

`RemoteControl`.  An object is its name and the run of the flowgraph it was made in.  A request
takes what it found in the list, and then uses it.  A fault may come whenever the controller waits.
`told_early` is history: the destructor cleared `m_active` before `process()` had set it.

`Feedback`.  A frame, its samples and its timestamp are one number.  `waiting` is the set of threads asleep
on the one condition variable; a notification wakes one of them, or spuriously all.

`UsrpTime` and `DexterDevice` count time in frames; `UsrpTime` measures it backwards from now, so that
no bound is needed.  `evidence`, `gps_seen` and `onair` are history.  `Drivers` has one set of told
settings, which the drivers change through a reference; the radio rounds a value (`Coerce`) or
refuses it.  A malformed number leaves 0.

`EdiStream`.  A byte knows its packet and its place in it, and its value, which may look like a
header.  The connection may be refused, closed, reset, or die without a word, and a reconnection may fail at
once, which ends the input; `recv` returns at most
`TcpBuffer` bytes, or fewer.  `fresh` is history.

`Coding`.  One step is one round of the loop of the element, with the register or table it uses; the
reference definitions (`EachBitItsDelay`, `EachCarrierOnce`, `Recurrence`, `Polynomials`,
`TiiIsSpecified`) are those of EN 300 401, not of the code.

`Configuration`.  `from` says of each setting where its value comes from; only those that decide on
the format have values.  A command line is a sequence of options and what remains.  The file and the output may be refused for
reasons the model does not have (not readable, a bad value, not to be opened).

## 3. Runs

| Run | Instance | Shows |
|---|---|---|
| `threads` | queue: 2 bounds (2, 3), prebuffering 2, 5 elements, 2 wakeups; predistorter: 2 threads and 9 samples, ten texts; crest factor: 3 symbols, 2 values | nobody sleeps through what it waits for, the queue implements `OverflowFifo` with its liveness; a frame has one set of coefficients, the next start the same settings, the statistics one setting; frames and destructors end |
| `main` | codec: 6 calls; flowgraph: 4 and 2 CIFs per frame, 2 codecs, 37 ETI frames; loop: FCT mod 10, phase mod 4, up to 9 frames lost, three inputs; remote control: both controllers, 2 flowgraphs; files: 3 frames, raw, streamed and framed, with other data in front, as files and pipes, looped or not, three rounds | frame and metadata together, a delay of one call, destruction terminates; aligned consecutive CIFs with their own metadata; no empty input; consecutive frames from phase 0, a signal ends the program, it recovers; requests find living objects, ZeroMQ faults are repaired, the controller ends; the frames of a file, once per round |
| `device` | queue limits 2 and 1, offsets 0 and 2, 3 frames, the radio's clock at 0 and then at 3, so that frames are early, on time, late, or (due after 3 with the clock at 0) too far ahead, missing timestamps not muted; up to 3 packets; every pair of references with holdover 0, 4 and 9; Dexter up to time 5; three values of a setting of which the radio takes the even ones; 3 bursts, 1 new server | no silent gap, order, dead thread noticed, destruction terminates; a jump ends the burst; no clock trusted beyond its holdover; on air on time; told settings are set; samples of one burst |
| `edi` | fragments: numbers mod 6, 2 fragments, 7 packets, keep 3, four networks; stream: three sequences of up to four packets, pieces of up to 6 bytes, 2 broken connections, 2 timeouts | in order and once, without gap when nothing is lost; none left out however the stream is cut; realigned after a break; half-open connections noticed |
| `modulator` | every mode, engine, four outputs, plugins and two rates with a mixed ensemble; every protection byte with lengths 0 to 60 and around the UEP lengths; two transmission frames. Every sequence of options of interest, with and without a file. All elements of `Coding`, all modes. Timestamps: a second of 47 units, frames of 3, all phases, offsets 5 and -53, losses of 1, 2, 12, 18, 28, up to second 4, one disturbance | what the standard has is modulated, nothing else reaches the output, frames last 24 ms per CIF, TII is in the right frames, output and samples agree on format and range; interleavers, dispersal, encoder and TII are the standard's; valid timestamps are exact, also (five groups later) after losses nobody noticed, and refreshes have causes |
| `multiplex` | ETI, EDI over UDP and TCP; two subchannels, then up to two changes among seven other ensembles (one more, none, other length, protection, address, UEP of the same size, mode identity 3); FCT mod 4, phase mod 2, batches of two packets | a CIF holds one frame, lies where its FIC says, the program ends for two reasons only, and otherwise transmits again |
| `flowgraph_tm2`, `multiplex_same`, `remote`, `config`, `tii`, `cfr` | small instances of the same modules | **violations**, see below |

Why the bounds are enough.  `threads`: the interesting cases of the queue need a full queue, one
element below and above each threshold, and a wakeup between two elements, which
five elements and two bounds give; two threads and nine samples leave a remainder for the calling
thread, and the texts have two of each format, short ones, none, and one of an unknown format; three symbols are the
null symbol, which is not counted, and two others.  `main`: the pipeline is full
after two calls, and failures can come at any of the next ones; 37 ETI frames hold four rounds of
the frame phase and nine transmission frames, of which the codecs keep two;
the moduli are small but, as 250 and 8, the one is no multiple of the
other, and losing up to 9 of 10 frames is the greatest gap that FCT can tell; two flowgraphs are one that
goes and one that comes under the controller; three frames and two rounds have a first,
a middle and a last one.  `device` needs one frame in the queue, one in hand and one sent: three; frames due from 1 to 5 lie on both sides of
the instant 3, with the limit `AbortFuture` of 3 also beyond what is waited for; a muted frame without timestamp is dropped as one
without clock is, and the proof covers both settings;
holdover times are no, less than and more than a whole number of check intervals.  `edi`: seven packets with numbers
modulo 6 make the number wrap while old builders
are kept, and `KeepBuilders` is less than half of the modulus, as in the code; pieces of 6 bytes are shorter than a packet and longer
than a header, as 512 are.  `modulator`: all
elements are stateless but the partitioner, the pipelined ones, the TII and the loops
over bytes, which are back where they were after two transmission frames; the profiles are
covered completely up to 60 double words, which is several times the common multiple of
all steps in the tables; tables, permutations and polynomials are those of the code, in full; 20 frames
are more than the 16 of the time interleaver; a second is 15 2/3 frames (41 2/3 in the program), so
that it begins at every place in the four frames, and three seconds hold eleven
groups; losses up to nearly two seconds pass over no, one and two beginnings.  Five groups are
needed: with four in `TrueAgain` TLC finds a wrong timestamp.
`multiplex`: the two moduli make a loss and a restart possible at every phase; two changes are one away and
one back, or one on top of another; every relation between two ensembles that some part of the
code compares (number, length, capacity, address, mode) has a pair that differs in it.

Fairness: every thread is weakly fair *inside* a call, where the code only
blocks on a condition the model has, or polls with a timeout; nothing forces a caller to call again, a
packet to arrive or a signal to come, with these exceptions: in `MainLoop` and `EdiStream` every read
returns (all inputs have timeouts, or are files) and is followed by the next one, in `RemoteControl`
`check_faults` is called while frames are modulated, and in `Multiplex` the multiplexer sends on.
Liveness properties hence say "what was begun ends".  `Recovers` assumes that from some time on nothing more
is lost and no error occurs.

Deadlock is checked in `threads`, `main`, `modulator` and `multiplex`; where a behaviour ends, an explicit
step (`Destroyed`, `Terminated`, `Exited`, `Done`, `Ended`, `MayStop`) says so.  In `device` and `edi` it is not: the network
may have no more to send, the radio may be gone, and a service may wait for a client for ever.

### What the violation runs show

- `flowgraph_tm2`: `BlockPartitioner::process_metadata` clears the metadata
  of the frame before when the counter is 1 after `process()`.  With one CIF per
  transmission frame (modes II and III) the counter is always 0 there: the
  metadata grows for ever and the output takes the oldest timestamp.
- `multiplex_same`: a change of the STC that keeps the number and the sizes of the subchannels (another
  identifier or address, UEP instead of EEP with the same capacity) makes new sources in the
  `EtiReader`, but the `FrameMultiplexer` finds nothing to throw at, and the flowgraph keeps the old sources: it
  modulates their last data for ever.
- `remote`: `RemoteControl.h` says that a controller can be restarted after a fault.  The telnet controller
  listens again with the socket that listens already; the `logic_error` passes the handler of
  `runtime_error` and ends the program.
- `config`: the warning of `parse_args` promises that the command line overrides the file; the file is read last
  and overrides the command line.
- `tii`: in mode II the carriers of the transmitter identification are numbered from the negative frequencies
  on, while interleaver and transform have the positive ones first: the halves of the pattern change places.
  In mode I both halves are equal.
- `cfr`: `OfdmGenerator::process` asks twice for every symbol whether crest factor reduction is on; if
  the remote control turns it on in between, the reference is empty (a null pointer), and if it is turned off and on,
  the reference is of an earlier symbol.

Seen while modelling, and not the subject of a run:

- `set_sample_size()` is called only when there is a format to convert to: with the KISS engine,
  whose samples are already in the final format, the SDR output keeps 8 bytes per sample where there are 4,
  expects the next frame in half the time it takes and reports an irregularity, with a refresh, for
  every frame (`FrameLength` leaves this engine's sample size out);
- an EDI frame without ATST has TSTA 0xFFFFFF, the null timestamp; `updateTimestampEdi` takes it
  like any other, so that the frame counts as dated, 1.02 s after the second of the frame before; a null
  TIST in ETI becomes 0 and, once the MNSC has told a second, is valid as well (the properties of
  `TimestampDecoder` are about the other frames);
- `EdiReader` never removes a source: once the length of a stream has changed, `add_subchannel` throws for every
  packet, so that over UDP nothing is transmitted any more and over TCP, where nobody catches the
  exception, the program ends; a removed stream goes on with its last data, a new address or
  protection is ignored (`Recovers`, `ExitsOnlyFor` and `CurrentCif` say so in their conditions);
- a change of the mode identity to or from 3 ends the program, since only the `FrameMultiplexer`'s
  exception is taken for a reconfiguration;
- a timestamp that is too far ahead ends the device thread (`SDR.cpp:345`), where
  `README-SFN.md:58` says that the output waits;
- a frame without timestamp that is sent while a refresh is pending takes it with it (`UHD.cpp` clears the flag in any case), so
  that a gap before the next frame with a timestamp is not told to the radio (TLC finds it with four frames, if `NoSilentGap`
  does not except this); a packet that is refused does the same;
- continuity is tested on FCT modulo 250 only: a gap of exactly 250 frames goes unnoticed and
  changes the phase, since 250 is no multiple of 8 (the losses of run `main` stay below);
- after a discontinuity the input file is opened again from its start even with
  `loop=0`, so that a file with a gap is repeated for ever;
- builders kept for late duplicates count against the maximum delay of EDI, so that with the defaults (10
  and 10) the first lost packet empties the whole map instead of waiting for newer packets
  as `PFT.hpp:157` says;
- `offset_changed` is cleared by the first of two callers of `getTimestamp()`, and is looked at only for
  the first CIF of a transmission frame; the refresh comes all the same, as an irregularity;
- with `synchronous=1` the main loop drops frames without a valid timestamp, whatever
  `mutenotimestamps` says;
- the MNSC parts of two groups may be put together when frames are lost before the
  flowgraph has started (nobody compares FCT then), and give one wrong time;
- `CicEqualizer` counts in floating-point samples: fixed point throws, except in mode III where the
  numbers happen to fit; `Resampler` reads past its input for rates that do not divide the block;
- `Feedback`: one condition variable serves two waiting threads, and `notify_one` may wake the wrong one, so that a
  request is never answered; the receive thread ends without telling anybody; the destructor clears
  `m_running` without the lock, so that the wakeup may be lost; a server that stops sends what there is, samples
  of two bursts perhaps;
- `UsrpTime`: with an external reference and a PPS called "pps", or a "gpsdo" that is not looked at, the time of
  the device is never set; a check turned on by the remote control counts on from where the last one stopped;
- Dexter: a first frame without timestamp starts the channel at once, and it is never aligned afterwards; with
  `lo_offset` other than 0 the constructor's comparison of frequencies always throws;
- drivers: a malformed number sets 0 (the stream's exception comes after the assignment); the check of
  UHD's sample rate compares a ratio with the rate; Lime tells a gain from 0 to 1 and takes one from 0 to 100; Lime and BladeRF
  do not look at the result of setting the bandwidth; Soapy does not apply `rxgain` when it opens, ends a
  burst in the middle of a frame, and repeats a call that timed out without end;
- remote control: the list of objects is changed by the main thread while a controller walks through it, without
  a lock; "list" with an empty list sends no answer, after which a ZeroMQ REP socket cannot receive; an exception of ZeroMQ ends
  the thread without a fault; `process()` may set `m_active` after the destructor cleared it, and the program
  then never ends; faults are looked for every 250 frames only;
- `InputFile`: two or six bytes before the first marker are taken for a streamed or framed file;
- `Configuration`: an output on the command line and another in the file are both selected, and format and range
  may be of different ones; `-u` without `-F` transmits at frequency 0;
- ETI over TCP: the socket is not blocking after `connect`, so that `MSG_WAITALL` has no effect and a frame that
  arrives in segments is returned in part; `DabMod.cpp:636` compares with a length that is always 6144, so
  that nobody notices;
- TCP client: after a reconnection, or before the first packet, there is no time of the last packet, so that a connection that
  never delivers is never left; move assignment leaves the old descriptor open; refused EDI connections are
  tried again without a pause;
- EDI over TCP: a piece of 512 bytes may end one packet and hold a whole other one if packets are that short, and
  the first frame is lost; nothing tells the decoder of a new connection, so that a header cut by the end of the old one
  takes its length from the new one; an unknown tag ends the packet although the log says "Ignoring";
- `MemlessPoly`: without valid settings (a file of unknown format) `internal_process` copies as many bytes as
  there are samples, an eighth of the frame, and the rest is what the buffer had; a text whose last number is not followed
  by anything is refused; a short table is taken, with zeros; a file that is removed after it was set
  ends the program with the next flowgraph; a file that cannot be written back is not noticed;
- `OfdmGenerator`: `get_parameter("papr")` reads the statistics while `process()` changes them, and the MERs are
  appended without the lock; the clip statistics are not cleared with a change.

Further: the end-of-burst mark after a refresh is set on the *first* packet of a frame
(its condition is always true there and the flag is cleared at once), although the
comment in `UHD.cpp` speaks of the last; muting that comes
between two frames leaves the burst open until the next frame is sent; a
packet the radio refuses takes its refresh with it.  In `Pft`, fragments more
than `NUM_AFBUILDERS_TO_KEEP` packets late make a builder that lives until the
number comes round again and is then handed on as a packet 65536 too old; and with
`edi_max_delay` under 240 ms (maximum delay below the builders kept) late duplicates set
`m_next_pseq` back.

## 4. Proofs

Proved by TLAPS, for every value of the constants allowed by the `ASSUME`s of the modules, or of the
theorems where these say so:

- `ThreadsProofs`, the queue: `TypeOK`, `NoLostSignal` (of `NoLostWakeup`, `NoLostRoom` and
  `NotBothAsleep`), and the safety part of `ImplementsFifo`.  The properties on
  notifications are inductive together with the type invariant once it is known that
  a producer waits with one of the thresholds in use (`WaitsWithBound`);
  `NotBothAsleep` follows from the two and the assumption that no threshold is below
  the prebuffering level (which is needed: TLC finds both asleep without it).
- `MainThreadProofs`, one pipelined element: `TypeOK`, `MetadataMatchesFrame`, `AtMostTwoInFlight`, and the safety
  part of `ImplementsDelayLine`.  The invariant `CodecInv` says where every frame is:
  the frames in the output queue, in the worker's hands and in the input queue
  are numbered consecutively up to `fed` (`NumbersInOrder`), how many they are
  follows from where the main thread is (`Inside`), and the metadata fifo holds
  exactly the metadata of the last completed call (`MetadataDelayed`).  What leaves the
  output queue is then the frame of the call before, and so is the metadata.
  `FailsLater` says that a worker that has failed was fed before, which is what
  makes the first call safe.
- `TimestampDecoderProofs`: `TrueTime`, for any second and frame length, offset and loss.
  The invariant `TimeInv` has three parts beside the types: the MNSC of a group tells the second of its phase 0
  (`GroupToldAtPhase0`); once something was received, `time_pps` is the time of the last
  frame and, if the second is known, `time_secs` is its second (`CountsOn`); and while a time is collected,
  the parts so far are those of the group's second, which is still the second of the
  last frame unless the update is inhibited (`Collects`).  `Collects` is what makes `inhibit_second_update = 2`
  right: the first of the two groups it skips is the one the second began in.  The arithmetic
  (`OneCarry`, `MktimeOfParts`, `AddIsExact`) is proved apart from it.
  `NoFalseRefresh` adds what the SDR output knows (`RefreshInv`): a frame the decoder dated while it had
  time follows the one before by the frame's length (`StreamGoesOn`, `FrameRegular`, `PendingRegular`),
  so that the time the output expects (`ExpectedIsExact`, with `OneTime`: a time has one pair of seconds and fraction)
  is the one that comes, unless something happened in between (`Interrupted`).  `TrueAgain` adds `Recovers`
  (`AgainInv`): after the frames that were lost unnoticed, `inhibit_second_update` is left only when a second
  began not long ago, so that the five groups that follow give the time of their own second.  This needs that three groups take
  less than a second (`TwelveFramesInSecond`; 4718592 of 16384000 ticks): with frames of 3 ticks TLC finds `Recovers`
  violated for seconds of 33 ticks, and not for 36.
- `ThreadsProofs`, the signal processing: `SettingsAreWhole`, for any number of threads, samples and symbols.  For the predistorter, `PoolInOrder`
  says what each worker has in its queues while the pushes and the collection go on; `SamplesCovered`
  says that each sample is made, or in the job of a worker that has not answered, or beyond what was given out; `InUse`
  that all this happens under the lock, which only the invalidation by an unknown format ignores, and that changes
  neither type nor coefficients.  `ReadAgain` says that the file holds what the element took, which makes
  the next element start with it, except while a write is under way.  For the crest factor reduction the property is inductive with the
  type of the request (`CfrInv`).
- `MainThreadProofs`, the main loop: `ConsecutiveFrames`, for every modulus of the frame count that is greater than
  the number of frames lost in a row (`LoopSettings`; with a loss as long as the modulus it is false, see above) and every
  file in which the count tells the gaps (`CountTellsGaps`).
  The invariant `LoopInv` says that the flowgraph knows the count of the frame it modulated last (`CountIsKept`), and
  that the frame at hand, or the next one of the source when none is at hand, is that frame, plus one, plus what is missed
  (`SourceFollows`; for files, where the place in the file tells it, also from the end to the start, `FileFollows`).  A count that follows
  then excludes any miss.
  `NoEmptyInput` and `FramesInOrder`, for any number of pipelined elements, each taken as the `DelayLine` it implements.
  The invariant `GraphInv` says what the partitioner has collected (`Partition`) and what each element
  keeps (`CodecsInOrder`): a transmission frame of consecutive CIFs from the right phase on with the metadata of just these, the
  later the element the older; that what an element has given to the next is in order with it (`OnItsWay`) and after
  what was sent (`SentBefore`); and that nothing is under way before the first frame (`Quiet`).  The number of CIFs is 2 or 4
  (`GraphSettings`): with one, as in modes II and III, the metadata is not that of the frame, which is what
  `flowgraph_tm2` shows.
  `FindsTheLiving`, for any number of flowgraphs and of rebuilds.  `RemoteInv` says that the list has exactly the objects of the
  flowgraph that lives (`Entries`), each once (`EachOnce`), and that no two have one name; what is left when an object
  enrols out (`Without`) is the others, each still once.
  `FramesOfTheFile`, for files of every type, with any number of frames, read any number of rounds (the constant `MaxRounds`, of which nothing is assumed).  `FileInv` says that while the
  file is read the position is the place of the next frame and what was got is the frame before it; in which round that is, is
  counted (`NextInRound`).  Its hypothesis is that a file is what a recorder wrote (`FilesAreWhole`): frames one
  after the other from the first marker that is found, none longer than the buffer.  TLC evaluates it for the files of the run.
- `ModulatorProofs`: `FormatFits`, for any command line and any configuration file.  `ConfigInv` says what each step of the
  preparation has decided of the output and its format, one after the other (`Prepared`).
  `TiiAligned`, for any ensemble, mode and settings; its hypothesis is that an ensemble is a sequence of subchannels (`Ensembles`).
  `AlignedInv` says that the nodes of the flowgraph are those of the calls to `connect()` so far, each once (`LaidOut`, `Laid`),
  in an order in which the partitioner comes before the TII generator and this before the elements that delay, which `Connect`
  keeps when it moves a node behind its inputs since the calls come in such an order (`Follows`); and that
  the frames the partitioner and the TII generator have counted are in step with the rounds of the flowgraph (`Counted`, `Waits`, `FrameComplete`).
  `FrameLength`, for any ensemble, mode and settings; its hypothesis `Rates` is that the output rate is a multiple of 125 Hz, so that 24 ms are a
  whole number of samples (the configuration takes any rate; with another one the length is rounded down and the property is false).
  `LengthsInv` says that each element behind the guard intervals is fed by exactly one other, which makes as much as it
  expects (`Wired`, from the calls of `connect()`: `CallsAreWired`); that each of them has put nothing on its edge yet or the length
  planned for it, and the elements processed in this run have put something (`Filled`); and that the element that feeds the output comes before it (`Before`, again
  by `Follows`).  The planned lengths lose nothing in the divisions of the resampler and of the format converter (`LengthsAre`).
  `AsTheStandard`, for frames of any length, any number of them and any setting of the TII, has a theorem for each of its parts.
  `InterleavesInTime`: each slot of the history has the bits of the frame that was so many frames ago (`DelayInv`).
  `DispersesByPolynomial`: the register has the last nine bits, and a byte's table is eight shifts of it (`DispersalInv`).
  `EncodesByPolynomials`: the memory has the last seven bits, so that the masks are the delays of the polynomials
  from the other end (`EncoderInv`, `Remembers`).  `IdentifiesAsSet`: the carriers enabled are those of comb and pattern (`TiiInv`).
  `EachOnceAlways`: the frequency interleaver takes each carrier once.  What the generator gives after p steps is an affine function of where it
  began (`Affine`); by doubling p, numbers p steps apart differ by an odd multiple of p (`Doubling`), so that no two
  of one period are equal (`Differing`), and all are taken.
- `EdiStreamProofs`: `NoneLeftOut`, for streams of any packets and pieces, and any number of connections.  `StreamInv` says that the bytes in the
  decoder and those on the way are as they were sent, in the order in which they were (`InOrderOfSending`), and newer than what was decoded; and
  that, until a connection has ended, the packets that are not decoded yet are all there, whole but for the
  first, of which the rest is there (`NothingMissing`, `AllWhole`).  Its hypothesis is that no packet is shorter than a
  piece (`StreamSettings`): otherwise the property is false, as said above.  `push_bytes` is a recursive function, which
  takes one packet after the other; that it exists and what it gives is shown by induction over the set of
  the numbers of bytes (`SetInduction`, `ScanExists`), which needs no operator as parameter.
- `DeviceProofs`: all the safety properties of the run `device`.
  `NeverBackwards` and `DeadThreadIsNoticed` rest on `SdrInv`: what is in the queue is newer than what the device
  thread holds (`QueueInOrder`), that is newer than what the radio got (`HandInOrder`), and a thread that has ended is told (`EndedIsTold`).
  `NoSilentGap` on `GapInv`: between two frames, unless a refresh is pending or a frame is excused (`disturbed`), the output remembers the time of
  the frame that was sent last at its time (`RemembersSent`), also while frames without timestamp pass (`PassesUntimed`), and behind
  the check a frame that does not follow carries a refresh (`FollowsSent`).  It is for any instants of the radio's clock and any offsets,
  so that any frame may be late, in time or too early, with or without timestamp, muted or not.
  `SameBurst` on `FeedbackInv`: while the server runs, the state of the request tells which thread has it and
  which of its fields belong together.
  `ClocksAreTrusted` on `ClockInv`: how old the last good fix may be follows from the state of the check and from
  how long ago it was made (`FixIsRecent`), and the time was set from a clock that was good
  (`TimeWasSet`); and for Dexter on `DexterInv`, which relates the state of the clock to what was seen of it.  `OnAirOnTime` on
  `ChannelOnTime`, with the number of the frame in hand (`InHandIsNoted`), and on `StreamInv` for the drivers of UHD and Soapy.
  `SettingsAreTrue` on `ToldInv`, where a closed device was told nothing.
  `JumpsEndTheBurst` on `BurstInv`: after a jump of time and in an open burst the refresh is pending.
  The assumptions are that a queue holds a frame, that offsets are not negative, and that limits and values are natural
  numbers, the period of the checks not 0 (`OutputSettings`, `ClockSettings`, `DriverSettings`).
- `MultiplexProofs`: `LayoutIsSignalled`, `CurrentCif` and `ExitsOnlyFor`, for all ensembles, any number of changes and
  losses.  The invariant `MuxInv` says that the reader's sources are those of the frame it read last, or, with EDI,
  of the ensembles so far (`FromRead`, `EtiSources`); that the frame at hand is whole, each of its streams with a source that
  has its data, unless ensembles were read that differ in a stream they both have (`AtHand`, `Whole`, `Clash`); and that the
  flowgraph's sources, while they are attached, are those of the reader (`Attached`).
- `PftProofs`: `InOrder`, for any number of fragments per packet, of packets, losses and repeated fragments, and any modulus of the
  sequence number.  The invariant `PftInv` says that every builder has fragments of one packet, which its number
  tells as long as the packets kept are less than a round apart (`Built`, with `Numbers`); that the builder of the packet that is
  due or of the one before it is there (`DueIn`), so that what is found under the number that is due is that packet (`DueIsThere`);
  that nothing in flight is so late that its builder was erased (`InFlight`); and, when there are no builders, that all that is in flight is newer than
  what was handed on (`Cleared`).  Undisturbed, it adds that whatever was sent is in flight or in a builder
  (`NoneMissing`), that a complete packet is handed on before a newer one comes (`NothingNewer`), and that the
  lifetime of a builder lasts for all fragments that may still come while its packet is due (`TimeLeft`, which counts them, `Coming`).
  Its hypotheses are `Timely` (a fragment is less late than builders are kept, which is less than a round and not more than
  the maximum delay), `Patient` when undisturbed (three packets and all repeated fragments are fewer than
  the calls of a lifetime, and the builders span less than a round), and with losses `WithinRound`: the packets in the builders are
  not more than 65536 older than the newest.  With the default delay of 10 packets the first allows fragments of the packet before the newest; a
  setting of `edi_max_delay` below 240 ms (`NUM_AFBUILDERS_TO_KEEP` packets) is outside it.  Each is needed: TLC finds `InOrder` violated with a delay of 2,
  3 builders kept and 2 repeated fragments of packets that are complete with 1; with 4 numbers, 2 builders and 4 fragments lost of 9 packets,
  where the decoder falls behind more than a round; and with 5 repeated fragments where the lifetime is 8 calls.
  The run `edi` has networks inside (`Lossy`, `LossyWithFec`, `Repeating`) and one outside (`Hasty`, where TLC finds no violation
  with one loss).

The modules of several components prove an invariant of each component alone: a lemma (`SdrIsAlone`, `LoopIsAlone`, ...)
says that a step of another one leaves its variables as they are.

Only model-checked, and why:

- everything temporal under fairness, which this prover does not treat: `PoolAnswers`, `StopTerminates`,
  `SignalEnds`, `Recovers`, `RemoteLives`, `HalfOpenIsNoticed`, and the liveness halves of
  `ImplementsFifo` and `ImplementsDelayLine`;
- `Realigns`: its bound (one packet lost after a connection that was cut) is for packets of the lengths of the run; when the
  lengths differ more, what the decoder takes for a header may swallow several;
- `SuitableIsSent`: whether a profile exists is a matter of the finite tables of the protection profiles and of
  loops over them, which TLC goes through entirely.

The type invariants of the modules are proved where there are proofs; they are
not properties of runs, which have more to say.

## 5. What is left

In order of importance:

1. Proofs: that no length check fires in a flowgraph of any number of subchannels (`SuitableIsSent`), which needs the lengths on the edges
   before the guard intervals too, the order of all elements, and the tables of the protection profiles.
2. PFT over TCP, and ETI over TCP as a stream, together with the losses of the non-blocking socket.
3. The thread of UHD that logs asynchronous messages, and the one of Dexter that counts underflows.

Not modelled, and why: floating-point signal processing (its correctness is
numerical; lengths, checks, threads and settings around it are modelled), the bytes of Reed-Solomon and CRC,
the FIC decoder (it shows what it finds and changes nothing), file and ZeroMQ outputs (pure
output), logging (a queue of the same kind), the parts of `Socket.cpp` that this program does not use (dispatcher,
receive server, send client), formatting, vendored code (`kiss`, `fpm`, `lib/fec`,
`zmq.hpp`), the Python tools and the web interface.
