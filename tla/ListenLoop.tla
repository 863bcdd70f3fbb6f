----------------------------- MODULE ListenLoop -----------------------------
(***************************************************************************)
(* The gateway's main loop (listen_loop, main.cpp): it opens the serial    *)
(* port, asks the device whether it appends RSSI to telegrams, reads until *)
(* the session breaks, and starts over 30 s later.  The port can be pulled *)
(* and put back at any time.  mqtt.send is where this module ends: it is   *)
(* given the payloads in `handed'; Gateway has what becomes of them.       *)
(***************************************************************************)
EXTENDS MetisExchange

CONSTANTS Sizes,          \* how many bytes a telegram can have
          Levels,         \* the RSSI bytes the device can append to it
          Interval,       \* serial_retry_interval_ms, in ticks
          HangupIsError,  \* TRUE: read() on a port pulled out fails with an errno;
                          \* FALSE: it returns 0, as on a Linux tty that hung up
          MaxQueue,       \* how many frames the driver holds before it drops some
          MaxTelegrams,   \* bound: telegrams in a behaviour
          MaxUnplugs,     \* bound: how often the port is pulled
          MaxFaults       \* bound: GETs or answers lost on the line, answers late

ASSUME ListenAssumption ==
    /\ Sizes \subseteq Nat /\ Levels \subseteq 0 .. 255
    /\ Interval \in Nat \ {0} /\ MaxQueue \in Nat \ {0} /\ HangupIsError \in BOOLEAN
    /\ MaxTelegrams \in Nat /\ MaxUnplugs \in Nat /\ MaxFaults \in Nat

VARIABLES pc,          \* where the main thread is
          fd,          \* the descriptor: "closed", "open" or "hungup"
          pause,       \* ticks until next_serial_reconnect_ms
          rssi,        \* rssi_enabled
          answered,    \* rssi_enabled is the device's answer, not a default
          running,     \* g_running
          handed,      \* the payloads given to mqtt.send
          plugged,     \* the port exists
          deviceRssi,  \* the device appends an RSSI byte to each telegram
          arrived,     \* how many telegrams the device has received
          unplugs, faults

rssiEnabled == <<rssi, answered>>
session == <<pc, fd, pause, rssiEnabled>>
world == <<plugged, deviceRssi, arrived, unplugs, faults>>
vars == <<line, session, running, handed, world>>

Init ==
    /\ QuietLine
    /\ pc = "head" /\ fd = "closed" /\ pause = 0 /\ rssi = FALSE /\ answered = FALSE
    /\ running = TRUE /\ handed = <<>>
    /\ plugged = TRUE /\ deviceRssi \in BOOLEAN
    /\ arrived = 0 /\ unplugs = 0 /\ faults = 0

-----------------------------------------------------------------------------
(***************************************************************************)
(* wmbus_parse_and_print, on sizes: payload.size() counts the telegram and *)
(* the RSSI byte the device appends.                                       *)
(***************************************************************************)
PayloadSize(telegram) == telegram.size + (IF deviceRssi THEN 1 ELSE 0)

\* Mutant: a telegram of the least size keeps its RSSI byte.
StrippedIfLonger(telegram) == rssi /\ PayloadSize(telegram) > 12

Stripped(telegram) == rssi /\ PayloadSize(telegram) >= 12

Published(telegram) == PayloadSize(telegram) >= 11

\* A signed byte of half dBs above -74 dBm.
Signed(byte) == IF byte >= 128 THEN byte - 256 ELSE byte

\* C++'s `/ 2' discards the half, whatever the sign.
Halved(n) == IF n < 0 THEN -((-n) \div 2) ELSE n \div 2

\* Mutant: the byte is halved as it is, unsigned.
UnsignedDbm(byte) == Halved(byte) - 74

Dbm(byte) == Halved(Signed(byte)) - 74

\* payloadHex (its length in bytes) and the rssi, if there is one.
ServerPayload(telegram) ==
    [of |-> telegram,
     size |-> PayloadSize(telegram) - (IF Stripped(telegram) THEN 1 ELSE 0),
     rssi |-> IF Stripped(telegram) THEN {Dbm(telegram.level)} ELSE {},
     answered |-> answered]

-----------------------------------------------------------------------------
\* A telegram arrives at the device.
Arrive == arrived < MaxTelegrams /\ arrived' = arrived + 1

\* serial_open; it can cut a telegram that is coming in.
OpenPort ==
    /\ pc = "head" /\ running /\ pause = 0 /\ plugged
    /\ \/ Reopen(<<>>) /\ UNCHANGED arrived
       \/ Arrive /\ \E torn \in TornFrames : Reopen(<<torn>>)
    /\ fd' = "open" /\ pc' = "ask"
    /\ UNCHANGED <<pause, rssiEnabled, running, handed, plugged, deviceRssi, unplugs, faults>>

\* serial_open throws; caught here, and tried again after the interval.
OpenFails ==
    /\ pc = "head" /\ running /\ pause = 0 /\ ~plugged
    /\ pause' = Interval
    /\ UNCHANGED <<line, pc, fd, rssiEnabled, running, handed, world>>

\* try_read_rssi_enabled: a GET, into a buffer of its own.
Ask ==
    /\ pc = "ask" /\ pc' = "wait"
    /\ IF fd = "open" THEN Write("getRssi") ELSE UNCHANGED line
    /\ UNCHANGED <<fd, pause, rssiEnabled, running, handed, world>>

\* Telegrams that come in before the answer are extracted and forgotten.
WaitOn ==
    /\ pc = "wait"
    /\ \E n \in 1 .. Len(fromDevice) : ReadOthers("getResponse", n)
    /\ UNCHANGED <<session, running, handed, world>>

\* So are those behind it: the local buffer goes out of scope, with what it has
\* of the next one.
Answered ==
    /\ pc = "wait" /\ pc' = "read"
    /\ \E n \in 1 .. Len(fromDevice) : \E k \in 1 .. Len(Received(n)) :
          /\ IsFirst(k, Received(n), "getResponse")
          /\ rssi' = Received(n)[k].enabled /\ answered' = TRUE
          /\ GiveUpBuffer(SubSeq(fromDevice, n + 1, Len(fromDevice)))
    /\ UNCHANGED <<toDevice, fd, pause, running, handed, world>>

Fault == faults < MaxFaults /\ faults' = faults + 1

\* No answer in time: "Could not read RSSI_ENABLE, assuming disabled".  It is
\* lost or swallowed, or late, which is one of the faults.  The local buffer goes
\* out of scope as above.
NoAnswer ==
    /\ pc = "wait" /\ pc' = "read"
    /\ IF toDevice = <<>> /\ fromDevice = <<>> THEN UNCHANGED faults ELSE Fault
    /\ rssi' = FALSE /\ answered' = FALSE
    /\ GiveUpBuffer(fromDevice)
    /\ UNCHANGED <<toDevice, fd, pause, running, handed,
                   plugged, deviceRssi, arrived, unplugs>>

Read ==
    /\ pc = "read" /\ pc' = "frames" /\ running
    /\ \E n \in 1 .. Len(fromDevice) : rx' = Received(n) /\ TakeOff(n)
    /\ UNCHANGED <<toDevice, claim, fd, pause, rssiEnabled, running, handed, world>>

Handed(frame) ==
    handed' = IF frame.code = "telegram" /\ Published(frame)
              THEN Append(handed, ServerPayload(frame)) ELSE handed

\* Mutant: one frame is extracted per read().
HandleOneFrame ==
    /\ pc = "frames" /\ pc' = "read"
    /\ \E k \in 1 .. Len(rx) :
          /\ IsNext(k, rx) /\ Handed(rx[k])
          /\ rx' = SubSeq(rx, k + 1, Len(rx)) /\ claim' = 0
    /\ UNCHANGED <<toDevice, fromDevice, fd, pause, rssiEnabled, running, world>>

\* Mutant: the newest frame is handled first.
HandleLastFrame ==
    /\ pc = "frames" /\ rx # <<>>
    /\ ~Swallowed(rx, Len(rx)) /\ Handed(Last(rx))
    /\ rx' = Front(rx) /\ claim' = 0
    /\ UNCHANGED <<toDevice, fromDevice, session, running, world>>

\* The next frame is extracted: a telegram is parsed and, long enough, handed to
\* mqtt.send; anything else is logged.
HandleFrame ==
    /\ pc = "frames"
    /\ \E k \in 1 .. Len(rx) :
          /\ IsNext(k, rx) /\ Handed(rx[k])
          /\ rx' = SubSeq(rx, k + 1, Len(rx)) /\ claim' = 0
    /\ UNCHANGED <<toDevice, fromDevice, session, running, world>>

\* The extraction fails: nothing is left but what a false header holds back.
FramesDone ==
    /\ pc = "frames" /\ pc' = "read"
    /\ \A k \in 1 .. Len(rx) : Swallowed(rx, k)
    /\ UseUp(rx)
    /\ UNCHANGED <<toDevice, fromDevice, fd, pause, rssiEnabled, running, handed, world>>

\* Mutant: a failed read() ends the loop as a signal does.
ReadFailsForGood ==
    /\ pc = "read" /\ running /\ fd = "hungup" /\ HangupIsError
    /\ fd' = "closed" /\ pc' = "exited"
    /\ UNCHANGED <<line, pause, rssiEnabled, running, handed, world>>

\* Mutant: the descriptor is not closed.
ReadFailsUnclosed ==
    /\ pc = "read" /\ running /\ fd = "hungup" /\ HangupIsError
    /\ pc' = "head" /\ pause' = Interval
    /\ UNCHANGED <<line, fd, rssiEnabled, running, handed, world>>

\* read() returns -1: close, and open again after the interval.
ReadFails ==
    /\ pc = "read" /\ running /\ fd = "hungup" /\ HangupIsError
    /\ fd' = "closed" /\ pc' = "head"
    /\ pause' = Interval
    /\ UNCHANGED <<line, rssiEnabled, running, handed, world>>

\* read() returns 0, nothing there: sleep 25 ms, try again.
ReadNothing ==
    /\ pc = "read" /\ running /\ fromDevice = <<>>
    /\ fd = "hungup" => ~HangupIsError
    /\ UNCHANGED vars

\* g_running is false: out of the inner loop, close, out of the outer one.
Leave ==
    /\ pc \in {"head", "read"} /\ ~running
    /\ fd' = "closed" /\ pc' = "exited"
    /\ UNCHANGED <<line, pause, rssiEnabled, running, handed, world>>

Signal ==
    /\ running /\ running' = FALSE
    /\ UNCHANGED <<line, session, handed, world>>

Tick ==
    /\ pause > 0 /\ pause' = pause - 1
    /\ UNCHANGED <<line, pc, fd, rssiEnabled, running, handed, world>>

Step ==
    \/ OpenPort \/ OpenFails \/ Ask \/ WaitOn \/ Answered \/ Read
    \/ HandleFrame \/ FramesDone \/ ReadFails \/ Leave

-----------------------------------------------------------------------------
(***************************************************************************)
(* The device, the driver and whoever pulls the plug (external).           *)
(***************************************************************************)
\* A telegram comes in by radio.  The driver has it only while the port is open
\* and its queue is not full, and what it has can be damaged, or cut short by a
\* queue with room for a part of it.
DeviceReports ==
    /\ Arrive
    /\ \E size \in Sizes, level \in Levels :
          \E frame \in {[code |-> "telegram", id |-> arrived + 1, size |-> size, level |-> level]}
                           \cup TornFrames :
             IF plugged /\ fd = "open" /\ Len(fromDevice) < MaxQueue
             THEN Report(frame) ELSE UNCHANGED line
    /\ UNCHANGED <<session, running, handed, plugged, deviceRssi, unplugs, faults>>

DeviceAnswers ==
    /\ Len(fromDevice) < MaxQueue
    /\ Handle(<<[code |-> "getResponse", enabled |-> deviceRssi]>>)
    /\ UNCHANGED <<session, running, handed, world>>

\* The GET or its answer is lost; a torn frame can remain if there is room.
Lose ==
    /\ Fault
    /\ \E reply \in Remains :
          Len(fromDevice \o reply) <= MaxQueue /\ Handle(reply)
    /\ UNCHANGED <<session, running, handed, plugged, deviceRssi, arrived, unplugs>>

Unplug ==
    /\ plugged /\ unplugs < MaxUnplugs
    /\ plugged' = FALSE /\ unplugs' = unplugs + 1
    /\ fd' = IF fd = "open" THEN "hungup" ELSE fd
    /\ toDevice' = <<>> /\ fromDevice' = <<>>
    /\ UNCHANGED <<rx, claim, pc, pause, rssiEnabled, running, handed, deviceRssi, arrived, faults>>

Replug ==
    /\ ~plugged /\ plugged' = TRUE
    /\ UNCHANGED <<line, session, running, handed, deviceRssi, arrived, unplugs, faults>>

World == DeviceReports \/ DeviceAnswers \/ Lose \/ Unplug \/ Replug

Next == Step \/ NoAnswer \/ ReadNothing \/ Signal \/ Tick \/ World

\* The thread runs, time passes, a device that is asked answers.
Fairness ==
    /\ WF_vars(Step) /\ WF_vars(NoAnswer) /\ WF_vars(Tick) /\ WF_vars(DeviceAnswers)

Spec == Init /\ [][Next]_vars /\ Fairness

-----------------------------------------------------------------------------
Telegrams == [code : {"telegram"}, id : 1 .. MaxTelegrams, size : Sizes, level : Levels]

TypeOK ==
    /\ toDevice \in Seq({"getRssi"})
    /\ \A queue \in {fromDevice, rx} :
          queue \in Seq(Telegrams \cup [code : {"getResponse"}, enabled : BOOLEAN]
                           \cup TornFrames)
    /\ claim \in 0 .. MaxClaim
    /\ Len(fromDevice) <= MaxQueue
    /\ pc \in {"head", "ask", "wait", "read", "frames", "exited"}
    /\ fd \in {"closed", "open", "hungup"}
    /\ pc \in {"head", "exited"} <=> fd = "closed"
    /\ pc # "frames" => rx = <<>>
    /\ pause \in 0 .. Interval /\ rssi \in BOOLEAN /\ answered \in BOOLEAN /\ running \in BOOLEAN
    /\ handed \in Seq([of : Telegrams, size : Nat, rssi : SUBSET (-138 .. -11), answered : BOOLEAN])
    /\ plugged \in BOOLEAN /\ deviceRssi \in BOOLEAN
    /\ arrived \in 0 .. MaxTelegrams /\ unplugs \in 0 .. MaxUnplugs
    /\ faults \in 0 .. MaxFaults

\* README.md:24-26: the message has the telegram as payloadHex, all of it and
\* nothing but it, and an rssi in dBm if the device provides one: to the half dB
\* that an integer can tell.
Faithful(message) ==
    /\ message.size = message.of.size
    /\ deviceRssi <=> message.rssi # {}
    /\ \A dbm \in message.rssi : 2 * (dbm + 74) - Signed(message.of.level) \in -1 .. 1

PayloadFaithful == \A i \in 1 .. Len(handed) : Faithful(handed[i])

\* It is so in every session in which the device answered the RSSI question,
\* whatever the sessions before were like.  The one exception is a telegram of
\* ten bytes with its RSSI byte: 11 bytes are enough to be published
\* (wmbus_parser.cpp:52) and 12 are needed to have the RSSI byte taken off.
FaithfulIfAnswered ==
    \A i \in 1 .. Len(handed) :
        handed[i].answered /\ handed[i].of.size # 10 => Faithful(handed[i])

Relay == INSTANCE TelegramRelay
             WITH passed <- [i \in 1 .. Len(handed) |-> handed[i].of.id]

\* Whatever sessions break and whatever is flushed, no telegram is handed on
\* twice or out of turn.
ImplementsRelay == Relay!Spec

\* main.cpp:175, "Retrying serial connection in 30 seconds": a gateway whose
\* port was lost is connected again some time after the port is back.
Reconnects == fd # "open" ~> fd = "open" \/ ~plugged \/ ~running
=============================================================================
