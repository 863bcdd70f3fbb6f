# Verification of the Wurth Metis-II gateway

TLA+ models, model-checking runs and machine-checked proofs for the gateway in
this repository: a program that reads Wireless M-Bus telegrams from a Metis-II
radio stick on a serial port and publishes them over MQTT.  There are two
implementations: the C++ one (`CPlusPlus/src`, the one that is deployed on
OpenWrt routers) and the C# one it was ported from (`Features`, `Program.cs`).
The modules model the C++ implementation; of the C# one, the two parts that differ
in their concurrency, the listener and the MQTT transport, have modules of their own,
and its option parser stands beside the C++ one.

Paths below are relative to the repository root; `metis_protocol.cpp`,
`main.cpp`, `mqtt_client.cpp`, `wmbus_parser.cpp` and `serial_port.cpp` are in
`CPlusPlus/src`.

## 1. Inventory

### Metis frame codec and receive loop (`metis_protocol.cpp`, `main.cpp:139-168`)

* **State**: `metis_buffer`, a byte vector; implicitly, the position in the
  stream of bytes the device sends.
* **Operations**: `metis_build_frame`; `read()` and append;
  `metis_try_extract_frame`, a loop that drops bytes in front of 0xFF, returns
  false if the frame is not complete, erases a complete frame, and goes on if its
  checksum is wrong.
* **Hard**: the driver cuts the stream anywhere; 0xFF is not reserved, so noise
  and payloads contain false headers, and a false header lays claim to genuine
  bytes behind it.
* **Correct if**: what is delivered depends on the bytes and not on how they were
  cut; only genuine frames are delivered, in order; a genuine frame is lost only
  behind a false header and never more than one frame length after the noise; the
  buffer does not grow; the loop ends.

### Command exchange (`metis_protocol.cpp:57-158`)

* **State**: the receive buffer of the exchange, what is under way on the line,
  the attempt number.
* **Operations**: `wait_for_frame`, `metis_send_and_get`, `metis_send_and_wait`
  (up to five attempts of 1500 ms, a drain of 250 ms between them),
  `metis_send_and_pause`, `drain_during_pause`.
* **Hard**: answers carry a command code but not which command they answer; an
  answer can come after its timeout, a telegram can come between a command and its
  answer, and either can be lost; the buffer is kept over all attempts, and a false
  header in it (the rest of a frame that was cut or damaged) holds back and erases
  the answers behind it, whichever attempt they belong to.
* **Correct if**: an acknowledged command was carried out; no attempt fails but for a
  fault or a false header, and whole telegrams and leftovers cost none.

### Activation (`activate`, `main.cpp:31-55`) and the supervisor (`CPlusPlus/deploy.sh:123-130`)

* **State**: how far the sequence OUT_ENABLE, RSSI_ENABLE, MODE_PRESELECT, RESET,
  (reopen,) SET_MODE has come; what the device has been told.
* **Hard**: an exception leaves `main`, the process aborts, and procd starts it
  again in front of a half-configured device; signals only clear `g_running`, which
  `activate` does not read.
* **Correct if**: it terminates in listening or in death; when it listens, the device
  is set up.

### Parameter dump (`dump_parameters`, `main.cpp:57-91`)

* **State**: the loop variable, the buffer, the log.
* **Hard**: 500 ms per GET, no drain after a timeout, the number of the parameter in
  the response is not compared.
* **Correct if**: each line shows the values of the parameter it names.

### Listening loop, sessions and telegram parser (`listen_loop`, `try_read_rssi_enabled`, `serial_port.cpp`, `wmbus_parser.cpp`)

* **State**: the descriptor, `next_serial_reconnect_ms`, `rssi_enabled`,
  `metis_buffer`, `g_running`.
* **Operations**: open or fail and wait 30 s; ask whether RSSI is on; read; extract
  and handle all frames; close on error; stop on a signal.
* **Hard**: the port is pulled and comes back; the driver's queue is flushed by
  `serial_open` and overflows if nobody reads, and both can cut a telegram in the
  middle; the RSSI answer decides how every telegram of the session is read.
* **Correct if**: telegrams are handed on in order, at most once and whole; those that
  reach the driver in a live session are handed on; a lost port is opened again.

### MQTT client (`mqtt_client.cpp`)

* **State**: `m_connected` and `m_next_reconnect_ms` (no lock), and what
  libmosquitto knows: a socket, a broker at the other end or not.
* **Operations**: `start`, `send`, `ensure_connected`, `mark_disconnected` and the
  destructor on the main thread; `on_disconnect` on the library's network thread.
* **Hard**: the two threads write both fields in any order; the library connects
  again without telling; `mosquitto_connect` blocks the thread that reads the serial
  port; the destructor joins a thread that ends by itself only if it was asked to.
* **Correct if**: attempts are paced, a stale flag is put right by one failed publish,
  publishing resumes after every outage, no telegram is published twice or out of turn,
  destruction ends.

### Process, options and serial port (`main.cpp:181-224`, `options.h`, `serial_port.cpp`)

* **State**: `RuntimeOptions`; the mode that is run; the descriptors of the serial port.
* **Operations**: `RuntimeOptions::parse`, `apply_mqtt_host_arg`; help, activation, dump or
  listening; `serial_open` with its four ways to fail.
* **Hard**: values are taken without being looked at and options without a value are
  passed over; a URL and an option set the same port; `serial_open` can fail between
  acquiring the descriptor and returning it, every 30 s for days.
* **Correct if**: every option has the value it was last given; no failed attempt keeps a
  descriptor; the port is open again when it can be.

### C# transport and listener (`SendToServerWithMqttService.cs`, `TelegramListenerService.cs`)

* **State**: `_nextReconnectAttemptUtc`; MQTTnet's connection state; the stream, `metisBuffer`, the
  cancellation token.
* **Operations**: `StartAsync`, `SendAsync`, the `DisconnectedAsync` handler; `ListenAsync`.
* **Hard**: the handler runs on another task, some time after the fact; every await can throw;
  cancellation turns delays into exceptions; nobody reads the port during a connection attempt.
* **Correct if**: attempts are paced, a connection that failed a publish is given up, telegrams are
  published again after every loss, Ctrl+C ends it anywhere.

### Not part of the behaviour, or not modelled

`log.*`, `hex.h` (output), the deployment scripts but for the respawn rule, and the rest of
the C# application.  See *Not modelled*.

### Interactions

`main` calls `activate`, then `listen_loop` or `dump_parameters`; all three use the
command exchange, which uses the codec, which works on what `read()` returns.
`listen_loop` gives telegrams to the parser and its result to `MqttClient::send`, in
the same thread.  The only concurrency inside the process is libmosquitto's network
thread; signal handlers only write `g_running`.

## 2. Modules

```
MetisCodec <- FrameReader <- FramedLine        FrameStream   (abstract: frames of a byte stream)
                  |  implements ----------------^
                  +- FrameReaderProofs
MetisExchange <- Activation     <- ActivationProofs
    |         <- ParameterDump  <- ParameterDumpProofs
    |         <- ListenLoop
    +- MetisExchangeProofs (lemmas for all three)
MqttClient <- MqttClientProofs
ListenLoop + MqttClient <- Gateway <- GatewayProofs   (ListenLoop by itself and composed)
    ListenLoop and Gateway -- implement --> TelegramRelay (abstract: ordered, at most once)
CommandLine <- Startup <- StartupProofs
ServerTransport <- TelegramListener <- TelegramListenerProofs   (the C# gateway, composed)
```

`MC...` modules only fix what TLC needs; each `.cfg` is one run.

### MetisCodec, FrameReader, FrameStream, FramedLine

Bytes are modelled as bytes.  Their width is a constant (`ByteBits`, 8 in the code):
a header, a length byte as wide as a payload byte, an xor checksum and a start byte
that is the largest byte exist at every width, so two bits show the same behaviour on
streams short enough to enumerate, and the proofs hold for every width.

| TLA+ | code |
|---|---|
| `buffer` | `metis_buffer` |
| `taken`, `consumed` | bytes returned by `read()`, bytes erased from the front (neither is stored by the code) |
| `Read`, `ReadNothing` | `main.cpp:139-155` |
| `DropByte`, `AwaitMore`, `Discard`, `Deliver` | one iteration of the loop in `metis_try_extract_frame`, by the way it ends |
| `phase = "reading"` | the function has returned false and `read()` is called again |

`FrameStream` is what the reader promises: walk through the stream, deliver the frame
that begins here if it is genuine, skip bytes only if no genuine frame begins in them
except behind a false header.  It knows nothing of chunks or buffers.  `FramedLine`
puts frames made by `metis_build_frame` and a burst of noise on the line.

### MetisExchange

One exchange, on frames instead of bytes: commands under way (`toDevice`), frames not
read yet (`fromDevice`), the caller's buffer (`rx`, `claim`).  `ReadOthers` and `ReadAnswer` are
the two results a `read()` in `wait_for_frame` can have.  A detail of the code that matters and is
kept: the frames behind the answer stay in the buffer and are only looked at after another
`read()`.  An answer carries the command it is about; the gateway's actions never look at it.

A frame on the line is whole, or it is **torn**: what is left of one that was damaged, cut by
`serial_open`'s `tcflush`, cut short by a full driver queue, or whose beginning went into a buffer that was given up
(`try_read_rssi_enabled`).  A torn frame is never extracted itself, but its bytes can look like a
header.  What such a header claims is held back until it is all there and is then erased, so
`Torn(claims)` takes `claims` of the frames behind it along (`Swallowed`), those that are not there yet
included: `claim` is how many are still to come, and it outlives the wait, the attempt and the
GET, as `buffer` does in the code.  Whole frames in front of a torn one come out as they went in,
however cut, and nothing else comes out: that is what is proved of the bytes
(`LineDeliversWhatWasSent`, `ReaderChunkingIrrelevant`).  How far a false header reaches is what
`LineResynchronises` is about: less than the longest frame, 259 bytes, which is up to 51 answers of
five bytes.  That bound speaks of frames with no second start byte; else the end of a claim inside a frame can be
the next false header.  Both are one number here, the bound `MaxClaim`: any value up to it is possible
wherever a torn frame is, so the model has every pattern of swallowed frames up to that length.

Not in the model: damage that leaves the checksum right (one damaged frame in 256), which the
code cannot tell from a frame.

`Reopen` flushes the input; the second half of a frame that was coming in is then the first thing
in the new session.  `serial_open` flushes the output as well, but whatever was
written was written at least a pause (120 ms, or 1200 ms after RESET) earlier and has
left the driver by then.

### Activation, ParameterDump, ListenLoop

`pc` says where the main thread is; each action is a stretch of code between two calls
that wait.  Timeouts fire when the command and its answer are gone (lost on the line),
when the answer is swallowed by a false header (`swallowed` counts those), or while they are still
under way, which is a *late answer* and counts as a fault like a loss.  In `Activation`, `device` is what the device was told: settings and mode; the
supervisor is `Respawn` (procd waits 5 s, by when the device has dealt with what it was
sent).  In `ListenLoop`, `fd` is `closed`, `open` or `hungup` (the port was pulled);
`pause` counts down to `next_serial_reconnect_ms`; telegrams are numbered as they
arrive by radio, and only their size and their RSSI byte are data: the size decides what the
parser does, and the byte is converted to dBm as C++ does it (a signed char, a division that
discards the half).

`HangupIsError` (of `ListenLoop` and of `TelegramListener`) says what `read()` does on a port that has hung up.  `TRUE`: it fails
with an errno, which is what the code is written for.  `FALSE`: it returns 0, which is
what the Linux tty layer does after a hang-up, and what a removed USB serial adapter
leads to.  Both loops take a 0 for silence.  The passing runs have `TRUE`, `listen_hangup` has `FALSE`.

`TelegramRelay` is the promise of the listening loop, and of the whole gateway: of the
telegrams that arrived, some are passed on, each at most once, in order.

### MqttClient

Every access to `m_connected` and `m_next_reconnect_ms` is a step of its own, as are the
calls into libmosquitto.  Time is a countdown (`wait`); it passes while the main thread is idle or blocks in
`mosquitto_connect`, and code between two calls takes none.  The library is modelled as the code
relies on it: `mosquitto_loop_start`'s thread notices a dead connection, closes it, calls
`on_disconnect`, and connects again by itself at any later time; a QoS 0 publish fails
without a socket and succeeds with one.  `m_mosq` is not null: `mosquitto_new` returns null only when
memory runs out, and a gateway that starts so never publishes anything (`mqtt_client.cpp:78`).

### Gateway

`ListenLoop` and `MqttClient` composed as `main` composes them.  `mpc` is the main thread inside
`MqttClient`, `"idle"` when it is not; a step of the listening loop that hands a payload on is a
call of `send`, and the loop does nothing until `mpc` is `"idle"` again.  While
`mosquitto_connect` blocks, time passes, the driver's queue fills, the port can be pulled and a
signal can come.  There is one clock (`TimePasses`) for the two countdowns.  `published` is what
has reached the broker: a publish on a socket whose other end is gone succeeds and
reaches nobody.  `Disconnect` and `LoopStop` are `~MqttClient`.

### CommandLine, Startup

An argument is a short sequence of symbols (an option's name, `mqtt://`, `:`, `/`, a run of digits, a
piece of text), so `rfind`, `find` and `std::stoi` can be modelled by what they do, trailing
rubbish and exceptions included.  `ParseValued` and `ParseOther` are one iteration of
`RuntimeOptions::parse`; `CsParse` is `ArgumentParserService.Parse` of the C# program, `CsAfter` where
it stands after each argument.  Each has its own defaults (`Defaults`, for anything but macOS, and `CsDefaults`): they
differ in the port (`options.h:42`, `ArgumentParserService.cs:9`; `README.md:69` gives the latter) and may differ in what the
system calls this machine (`gethostname`, `Environment.MachineName`).  `IsUrl` says which texts are URLs, and what host and port they name.  `Startup` goes on
from there: `stage` is the function of `main` that has the port or is to open it, `call` the next
system call of `serial_open`, `fds` the descriptors of the port.

### ServerTransport, TelegramListener

`ServerTransport` has the class's actions, `at` saying where the calling task is in it, and MQTTnet as the
code uses it: `status` is behind `IsConnected`; a connection that is lost is first noticed, then cleaned
up, during which `ConnectAsync` throws; the handler is due after every disconnection and every failed
attempt and runs at any later time (`handlers` counts those due; two stand for more).
`TelegramListener` extends it with `ListenAsync` and composes the two as the one task they are: `Handle` calls
`SendAsync` (`at` becomes `check`) and `Sent` is enabled when it has returned (`at` is `idle`), while time passes,
the port is pulled and the driver's queue fills.  `threw` is the moment between an `IOException` and the
catch clause, whose `when` reads the token.  Exceptions other than `IOException` and those of a cancelled
token end the process and are not here.  The transport measures its interval with the wall clock (`UtcNow`),
which the model takes to be steady: nobody sets the clock.  Telegrams are counted and not numbered, so
they never run out and liveness is about a gateway that goes on for ever.

## 3. Runs

All bounds are constants of the modules and are named in the `.cfg` files.

| run | configuration | what it shows |
|---|---|---|
| `framed_line` | every stream of 9 two-bit bytes over {0, 1, 3}; and 0-1 frames, up to 3 bytes of noise, 3 frames; chunks up to 6 | extraction terminates, keeps the buffer short, delivers what a single pass over the stream delivers, implements `FrameStream`; frames in front of the noise are never lost and nothing else is delivered there; the reader is in step again within one frame length |
| `activation` | 2 attempts, 3 faults, 1 telegram, 3 commands under way, a torn frame claims up to 2 frames | acknowledged commands are carried out, attempts fail only by faults and swallowed answers, the mode is right, activation and shutdown complete |
| `activation_stale_ack` | 2 attempts, 2 faults, claims up to 2 | **violation**, finding 1 |
| `dump` | 4 parameters, 2 faults, 2 telegrams, claims up to 2 | labels, order and completeness of the dump |
| `dump_mislabelled` | the same | **violation**, finding 2 |
| `startup` | every list of up to 3 of 11 arguments, and of up to 4 of 9 about the broker; 2 descriptors, 2 failures | options are as named and, the defaults that differ apart, as the C# program reads them; `serial_open` loses no descriptor; the port is opened again |
| `gateway` | telegrams of 11 bytes with RSSI byte 129, queue of 2, 2 telegrams, 2 unplugs, 1 fault, 1 break or outage, at most 2 of these troubles together; a torn frame claims up to 1 frame | relay refinement from radio to `send` and to the broker, faithfulness, publishing, reconnection, the end of the process |
| `listen_unanswered` | telegrams of 11 bytes, 1 fault, claims up to 2 | **violation**, finding 3 |
| `listen_hangup` | `HangupIsError = FALSE` | **violation**, finding 4 |
| `mqtt` | interval of 3 ticks, 3 breaks or outages; deadlock checked | pacing, recovery from a stale flag, publishing resumes |
| `listener_cs` | `HangupIsError = TRUE`; interval of 2 ticks, 2 breaks or outages, queue of 2, 1 unplug | the C# gateway end to end: pacing, publishing and sessions resume, cancellation |
| `listener_cs_silent` | no fairness of telegrams | **violation**, finding 5 |

Why the bounds are enough:

* *framed_line*: 9 bytes hold a frame of 7 (the longest at this width), or two short ones, or a false
  header with a genuine frame in what it claims, each with something before and behind; the three
  bytes are the start byte, the zero length and another value.  The theorems of
  section 5 remove the bound for all properties but `ExtractionTerminates`.  Three frames behind the noise are longer than the longest frame a
  false header can claim, so there is one left for `Resynchronises` to speak of.  The
  frames include one with a start byte in its payload and one whose checksum is a
  start byte.
* *activation*: one fault more than attempts lets a process die and its successor meet
  a fault too; three commands fit on the line, so a late answer can meet the one after
  next.  One torn frame can claim as many frames as there are attempts, so a single one can cost
  a process all of them, without a fault.
* *dump*: two faults allow an answer to come out two labels late; one torn frame can take the answers to
  two GETs.
* *startup*: three arguments hold an option, its value and an option that takes it away or
  overrides it; four hold two settings of the port in either order, with URLs with and without a port
  and a path.  The theorems of section 5 remove the bound for all but `ListensAgain`.  As many descriptors as failures: if each failure leaked one, the process would run out.
* *gateway*: 11 bytes lie on both limits of the parser, 11 without the RSSI byte and 12 with it; 129
  is a byte whose sign and whose half dB both matter (-137 dBm and a half).  A queue of two is full while
  `mosquitto_connect` blocks; two telegrams can change places; the second unplug hits the
  recovery from the first, or a connection attempt under way.  A torn frame that claims one frame can
  take the answer to the RSSI question or the telegram behind it, in the driver or not yet arrived;
  with two telegrams nothing would be left behind a longer claim.  Three troubles together would
  add states and no new meeting of two recoveries.  `ListenUnanswered.cfg` and `ListenHangup.cfg` check
  the listening loop by itself.
* *mqtt*: an interval of three ticks leaves room for a break, its discovery and an
  attempt within one interval; three breaks hit every step of a recovery already under
  way.
* *listener_cs*: two breaks let a handler for the first run after the connection that follows it has been
  made or lost; telegrams are unlimited.

### Properties

* `AcknowledgedIsDone`: until an answer is late, the gateway has gone on to a command
  only when the device has carried out those before it, through losses, refusals,
  crashes and respawns.
* `ListensInMode`: even with late answers, the device is in the mode the gateway asked
  for, because SET_MODE has a response code of its own and commands are handled in
  order.
* `RetriesSuffice`: the process dies of unanswered commands only if every attempt met
  a fault of its own or had its answer swallowed by a false header.  Whole telegrams and leftover
  answers of earlier attempts never cost one.  It is not true that only faults cost attempts: the
  rest of one telegram, cut by `tcflush`, can swallow the answers of every attempt.
* `ActivationCompletes`, `ShutdownCompletes`, `DumpEnds`: liveness.
* `LabelsMatchIfPrompt`, `MissingOnlyIfLost`, `AnswersInOrder`: the dump is right until
  an answer is late; there are no more lines without a value than commands or answers were lost or late
  and answers swallowed by false headers, so a whole telegram in between costs nothing; late answers
  shift labels in one direction only.
* `OptionsAsNamed`: every option has the value it was last given, whatever the values look like and in
  whatever order the options stand; `AgreesWithCSharp`: the two programs come to the same
  options, but for the port and the gateway id where they are not given, unless the command line has URLs or
  numbers that are none.
* `NoDescriptorLost`: whichever call fails in whichever mode, a descriptor is open exactly while it is
  used.  Excepted: a baud rate that `to_speed` rejects, after `open()` (`serial_port.cpp:42`), and a
  process that has aborted.  `ListensAgain`: with a supported rate, the port is open sooner or later.
* `FaithfulIfAnswered`: in a session whose RSSI question was answered, what is handed
  on is the telegram, with the dBm the device measured (to the half dB an integer can tell) exactly
  if the device provides them.  Telegrams of
  ten bytes are excepted: with an RSSI byte they have 11 bytes, enough to be published
  and one too few to have the RSSI byte removed (`wmbus_parser.cpp:52` and `:61`).  A
  real telegram has at least a CI field as its eleventh byte, so this is noted here
  and not as a finding.
* `TypeOK` of the frame reader says, besides types, that what is delivered is a frame a device could
  have built: its payload is no longer than a length byte can say, so the checksum is not part of it.
* `ImplementsRelay`, `PublishesInOrder`: telegrams are handed to `send`, and reach the broker, in order
  and once, whatever sessions and connections break and are replaced meanwhile.
* `OnlineIsPublished`: a telegram in the driver that is in the reach of no false header in front of it reaches
  the broker if session and connection hold from then on, whatever whole and torn frames were in front of it.
* `Reconnects`: a lost port is opened again, `mosquitto_connect` or not; `ProcessEnds`: a signal ends the
  process and its network thread, wherever both are.  `Reconnects` is checked where a hang-up is an error, of
  both implementations; where it reads as 0 it is false of both (finding 4), and so is `KeepsPublishing` of the C# one.
* `RetriesPaced`, `FailsOnce`, `KeepsPublishing`: the MQTT client under all
  interleavings of its two threads; the same three of the C# transport, where
  `KeepsPublishing` is end to end (from the radio, through lost ports as well).
* `CancellationEnds`: Ctrl+C ends the C# gateway wherever it is, by return or by exception.

Each property has a mutant of the modelled code in `PROJECT.json` (an operator marked
*Mutant* in the module) that it refutes.

### Fairness

* The main thread is always runnable when it is not in a call that waits: weak fairness of
  its actions.  Weak fairness of `Timeout`, `NoAnswer`, `Retry`, `Tick`: time passes and
  every wait of the code has a limit.
* `DeviceHandles`, `DeviceAnswers`: a device that received a command deals with it; losing it is
  an action bounded by `MaxFaults`.
* Gateway: the main thread (`MainThread`: `mosquitto_connect` returns, with success or not), the network thread,
  `Wait` (the RSSI question is given up), `TimePasses`.  Not `Reconnect`: the library may never connect again by itself.
* Startup: the process runs (`Process`); a call may fail `MaxFailures` times, and nothing makes a session break.
* `Respawn`: procd's retry limit is 0, that is, none.
* `Read` of the frame reader: the driver hands over bytes it holds.
* MQTT: both threads run, telegrams keep coming (the client does nothing without them), an outage ends;
  strong fairness of `Tick`, since time cannot stop because the client is now and then busy.
* C# gateway: the task and MQTTnet's tasks run, time passes; outages end and ports are put back
  (`Spec`); telegrams keep coming (`Spec`, not `SilentSpec`).
* Nothing is assumed of `Signal`, `Unplug`, `Replug`, faults or telegrams elsewhere: they may
  happen or not.

`CHECK_DEADLOCK FALSE` is set where the process really ends: activation (a process that
was told to stop), the dump, the listening loops.

## 4. Findings

1. **An answer to a repeated SET acknowledges the next SET** (`activation_stale_ack`).  All three SET
   commands expect 0x89 and nothing ties an answer to its command.  If the first attempt's answer
   comes after 1500 ms plus the drain, it acknowledges the repetition, and the
   answer to the repetition acknowledges the next SET, even one that was lost.  `README.md:136` says
   "Activate the Metis-II first, then start listening"; the gateway listens on a
   device that was not set up.
2. **The dump labels values with the wrong parameter** (`dump_mislabelled`).  `dump_parameters` ignores
   `response.payload[0]`; one late answer shifts all that follow.
3. **A lost RSSI answer corrupts a session's payloads** (`listen_unanswered`).  The fallback "assuming
   disabled" leaves the RSSI byte in `payloadHex`, which `README.md:24` calls the Wireless M-Bus payload.
4. **A hang-up that reads as 0 is never noticed** (`listen_hangup`).  The loop takes it for silence and
   polls the dead descriptor for ever although the port is back.  The C# listener has the same test
   (`TelegramListenerService.cs:38`): with `HangupIsError = FALSE` in `Listener.cfg`, TLC finds its `Reconnects` and `KeepsPublishing`
   violated as well, the retry announced at line 54 never being reached; `CancellationEnds` still holds.
5. **The announced MQTT retry is not made** (`listener_cs_silent`).  The C# transport logs "Retrying MQTT
   connection in 30 seconds" (`SendToServerWithMqttService.cs:117`); the attempt is made by the next
   `SendAsync` and by nothing else.

## 5. Proofs

Checked by TLAPS for every value of the constants.

**FrameReaderProofs** (`TypeCorrect`, `ReaderBufferBounded`, `ReaderImplementsFrameStream`, `ReaderChunkingIrrelevant`,
and of `FramedLine` `LineDeliversWhatWasSent`, `LineResynchronises`).
The constants are any byte width, any set of byte streams, any chunk size of at least 1
(`CodecAssumption`, `ReaderAssumption`), any number of frames of any contents around any noise
(`LineAssumption`: what a device can build, and a line that carries bytes).  The inductive invariant `IInv` is

* `TypeOK`,
* `Window`: the buffer is the part of the stream between `consumed` and `taken`; it is what relates
  the reader's local decisions (made on `buffer[1]`, `buffer[3]`) to the stream that the
  specification speaks of, and without it nothing about lengths is inductive;
* `BufferBounded`, with what is known when `read()` is called: the buffer is then empty or
  begins with a header whose frame is incomplete.

`EraseWindow` shows that erasing from the front keeps `Window`, `HeaderFacts` that a complete header
stays within the buffer, `RawInStream` that the frame in front of the buffer is the one at its place
in the stream.  The refinement maps `upTo` to `consumed`: `DropByte` and
`Discard` are `Skip`s, `Deliver` is `Deliver`, everything else stutters.  The checksum is
never opened in these: they hold for whatever function it is.

`ChunkingIrrelevant` compares the reader with a recursive pass over the stream (`Scan`).  Its invariant is
`ScanContinues`: the frames delivered, and behind them those the pass finds from `consumed` on, are all that the
pass finds in what has been read.  A chunk read later can turn a header that the pass gave up at
into a frame, so `read()` needs `Waiting`: there the pass finds nothing behind `consumed`.

For the line, `InStep` says of a run of frames that those that begin in front of `consumed` have been delivered and that
`consumed` is never inside one; `InStepLater` says that of the frames that begin a frame's length behind the noise those in front of
`consumed` have been delivered.  Any step keeps it, because a header in front of such a frame claims less than that and a byte in a frame
without a second start byte is dropped alone.  `OnlySent` says that nothing but the line's
own frames has been delivered; it is inductive because a reader in step and among the frames is where
one of them begins (`InStepAtFrame`), and in plain noise it meets no header.  `Walks` is a step of the reader seen from the stream.  What `FlattenSeq`
puts together is opened once, in `FlattenSeqIs` and `BytesCarry`.

**Recursive functions.**  The library's induction theorems cannot be instantiated, but the well-ordering of
the naturals can be cited (`LeastOf`: a set of naturals that is not empty has a least element), and a proof
by least counterexample needs no more: `ScanExists`, `FlattenExists`, `CsAfterUnfolds` and
`IsOptionUnfolds` show that way that a recursive function exists and satisfies its equation at every argument.  So what
remains out of reach is less than it looks.

**MqttClientProofs** (`TypeCorrect`, `AttemptsPaced`, `PublishFailsOnce`).  `RetriesPaced` is not inductive: the
interval is armed only after the attempt.  `Paced` says that at any time either an attempt's
result is yet to arm the interval, or what is left of it and what has passed since the
last attempt are together a whole interval at least; the callback thread can only make it longer.  `FlagDown`
says that from a failed publish to the next successful connect, `m_connected` is false or about to be
made so by the thread that failed; no step of the network thread sets it.

**TelegramListenerProofs** (`TypeCorrect`, `AttemptsPaced`, `PublishFailsOnce`, for the composed C# gateway).  The invariant has
a part about the transport (`TransportInv`: types, `Paced` as above, and `GivenUp`: after a failed publish
the connection is being given up or is down) and the listener's types.  `CallersTask` and `OtherTasks` prove
the transport's part without the listener; `ListenerIInv` needs only that the listener
touches the transport through `CallSend`.

**MetisExchangeProofs** has the lemmas about the line that the next four rest on.  `Coming` is the receive
buffer and what the driver holds, as one queue.  Every operation does one of three things to it: it takes frames off the
front (`Shifted`), adds one to the end (`Added`) or empties it, but for the rest of a frame; how `read()` cuts the queue and what is left in
the buffer are dealt with once and for all, and so are the frames a torn one claims.

**ActivationProofs** (`TypeCorrect`, `ActivationAcknowledgedIsDone`, `ActivationListensInMode`, `ActivationRetriesSuffice`), for
any number of attempts, faults, telegrams and commands under way.  None of the three properties is
inductive: each depends on what is under way.
* For `AcknowledgedIsDone`: `Genuine`, an answer that says ok is about something the device has done; and `Prompt`, until an
  answer is late there is at most one SET or answer to a SET on the whole line, the one waited for, so the
  response code is enough to tell.  A SET repeated after a loss keeps this, since the first is gone.
* For `ListensInMode`, which holds with late answers and respawns too: no reset is queued behind a SET_MODE (`ModeLast`);
  before its step there is neither a SET_MODE nor an answer to one that the process could read (`ModeUnasked`: what a
  process before it was sent is flushed by `serial_open`); an answer to SET_MODE means
  that the mode is set and that nothing under way can undo it (`ModeSet`, `Settled`).
* For `RetriesSuffice`: `Accounted` counts the failed attempts and the refusals on their way to the gateway; together they
  are never more than the faults and the swallowed answers, and a wait that no answer can end is one more.

**ParameterDumpProofs** (`TypeCorrect`, `DumpAnswersInOrder`, `DumpLabelsMatchIfPrompt`, `DumpMissingOnlyIfLost`).  `InOrder`: answers under
way and questions under way are, one behind the other, in the order of the questions; `LoggedBefore`: what has been logged is in front
of them.  That is why a late answer can only move values to later labels.  `Prompt` and `Accounted` are as above, for one
question at a time.

**GatewayProofs**, first about `ListenLoop` by itself (`TypeCorrect`, `ReadAsAnswered`, `LoopImplementsRelay`).  `AnswersTrue`: every answer
under way is the device's setting, in every session; with it `FaithfulIfAnswered` is arithmetic about the two size limits and the conversion to dBm, for
all sizes and all bytes.  `InOrder`: telegrams in the buffer and in the driver are in order, behind those handed on
and not ahead of those that arrived.  The refinement maps `passed` to the numbers of what has been handed on.

Then about the two components composed (`GatewayTypeCorrect`, `GatewayReadsAsAnswered`, `GatewayImplementsRelay`, `GatewayAttemptsPaced`,
`GatewayPublishFailsOnce`, `GatewayPublishesInOrder`).  A step of
the gateway is a step of the loop or leaves it alone, so the loop's invariant and refinement carry over.  Until the main thread is in the
destructor, from where it does not come back (`StaysGone`), it is a step of the client or none (`StepOfMqtt`); so what `MqttClientProofs` shows of
such steps carries over through an instance of that module (`MP`), and the client's properties hold of the gateway as well.  For the broker:
while `send` has a telegram (`Sends`), it is the last one handed on, and it has not been
published; what has been published is in the order of what was handed on (`PublishedInOrder`).  The bounds on
troubles are not used.

**StartupProofs** (`TypeCorrect`, `DescriptorsClosed`, `OptionsNamed`, `UnderstandsLikeCSharp`), for any set of command lines of any
length, any limit on descriptors and any number of failed calls.
* `PlaceInv` says where the parser stands, that `main` has no descriptor before it opens one, and that who uses the port
  has one; `NoDescriptorLost` is then inductive.
* For `OptionsAsNamed`: `Named(opts, at)` is what the property says, of the arguments in front of `at` instead of all of them, and
  `AtOption`: `at` is where an option can stand.  A step adds one place to those named, and it is the last one
  (`LastPlace`); so the other fields must be left alone (`Kept`).  `UrlParses` shows what `apply_mqtt_host_arg` makes of
  a URL, from what `rfind` and `find` do (`CutAtSlash`, `PartAtColon`).
* For `AgreesWithCSharp`: `InStepWithCSharp`, the C# parser has after the arguments in front of `at` the same options
  and is waiting for no value, unless there is none to come.  `Aligned` is "the same": a field is equal, or it is the
  port or the gateway id, and the option for it has not stood in front of `at`.

`CommandLineAssumption` says what a URL is (`IsUrl`: a scheme, a host without `:` or `/`, perhaps a port, perhaps a path) and
that an argument that begins with `mqtt://` is one.  Without it the property says nothing definite about such an argument: user names
and IPv6 literals are not modelled (section 6).

**Only model-checked**: liveness, and what fairness is needed for (`ExtractionTerminates`,
`ActivationCompletes`, `ShutdownCompletes`, `DumpEnds`, `OnlineIsPublished`, `Reconnects`, `ProcessEnds`, `ListensAgain`, `KeepsPublishing`,
`CancellationEnds`), which is out of the prover's reach.  Every invariant and every safety property that a passing run checks is
proved as well.

## 6. Not modelled

* **Text**: JSON, hex, log lines and their levels, the timestamp, and the manufacturer, id, version and type that
  `wmbus_parse_and_print` decodes to log them.  No decision depends on them.
* **termios flags**: `serial_open` is modelled call by call, but what it sets (raw mode, 8N1, timeouts) only shows in
  hardware.
* **Other forms of URL**: user names and IPv6 literals in `--mqtt-host`.  `apply_mqtt_host_arg` does not know them either: it
  cuts at the last colon and the first slash, which is what is modelled.
* **The rest of the C# application**: protocol, activation, dump and parser are the code the C++ was
  ported from, with exceptions in the same places; the `stty` calls and the wiring of `Program.cs` are I/O.
* **`DisposeAsync`** of the C# transport: it runs when the process ends; nothing follows it.
* **The deployment scripts** but for the respawn rule of the service they install.

## 7. Plan

Order of work, most important behaviour first; all of it is done but for the last item.

1. MetisCodec, FrameReader, FrameStream, FramedLine, and the proofs about them.
2. MetisExchange, Activation, and the proofs about it.
3. ParameterDump, and the proofs about it.
4. ListenLoop, TelegramRelay, and the proofs about them.
5. MqttClient and the proofs about it.
6. ServerTransport and TelegramListener, the C# gateway, and the proofs about it.
7. Gateway: ListenLoop composed with MqttClient, from the radio to the broker, and the proofs about it.
8. CommandLine and Startup: options, modes, `serial_open` and its descriptors, and the proofs about them.
9. To come: the C# activation and dump, where cancellation ends a wait that in C++ nothing ends; as lemmas, what the
   liveness properties rest on (steps that get closer to an end).
