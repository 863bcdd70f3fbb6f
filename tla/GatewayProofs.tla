--------------------------- MODULE GatewayProofs ---------------------------
(***************************************************************************)
(* Proofs about ListenLoop and Gateway: for every interval, size of the    *)
(* driver's queue and number of telegrams, unplugs, faults and drops, and  *)
(* whether a port that is pulled out fails or falls silent.  First the     *)
(* loop by itself, then composed with the client.  What is shown of each   *)
(* component by itself carries over, because a step of the gateway is a    *)
(* step of the loop or none, and of the client or none until the client is *)
(* destroyed; what reaches the broker follows from the order in which it   *)
(* was handed on.                                                          *)
(***************************************************************************)
EXTENDS Gateway, MetisExchangeProofs

Frames == Telegrams \cup [code : {"getResponse"}, enabled : BOOLEAN] \cup TornFrames
Messages == [of : Telegrams, size : Nat, rssi : SUBSET (-138 .. -11), answered : BOOLEAN]

IsTelegram(frame) == frame.code = "telegram"

LEMMA FrameKinds ==
    ASSUME NEW frame \in Frames
    PROVE  /\ IsTelegram(frame) => frame \in Telegrams
           /\ frame.code = "getResponse" => frame.enabled \in BOOLEAN
BY TornIs DEF Frames, Telegrams, IsTelegram

\* A torn frame is in the queue of frames, and nothing but a torn frame.
LEMMA TornKind ==
    ASSUME NEW torn \in TornFrames
    PROVE  torn \in Frames /\ ~IsTelegram(torn) /\ torn.code # "getResponse"
BY TornIs DEF Frames, IsTelegram

-----------------------------------------------------------------------------
(***************************************************************************)
(* What the parser makes of a telegram.                                    *)
(***************************************************************************)
\* The conversion to dBm stays in its range and loses half a dB at most.
LEMMA DbmOfByte ==
    ASSUME NEW byte \in 0 .. 255
    PROVE  /\ Dbm(byte) \in -138 .. -11
           /\ 2 * (Dbm(byte) + 74) - Signed(byte) \in -1 .. 1
<1>1. CASE byte >= 128
  <2>1. Signed(byte) = byte - 256 /\ Signed(byte) < 0
    BY <1>1 DEF Signed
  <2>2. Halved(Signed(byte)) = -((256 - byte) \div 2)
    BY <2>1 DEF Halved
  <2>. QED
    BY <1>1, <2>1, <2>2 DEF Dbm
<1>2. CASE byte < 128
  <2>1. Signed(byte) = byte /\ ~(Signed(byte) < 0)
    BY <1>2 DEF Signed
  <2>2. Halved(Signed(byte)) = byte \div 2
    BY <2>1 DEF Halved
  <2>. QED
    BY <1>2, <2>1, <2>2 DEF Dbm
<1>. QED
  BY <1>1, <1>2

\* A payload is made of a telegram long enough to be published.
LEMMA PayloadType ==
    ASSUME TypeOK, NEW telegram \in Telegrams, Published(telegram)
    PROVE  ServerPayload(telegram) \in Messages
<1>1. telegram.size \in Nat /\ telegram.level \in 0 .. 255
  BY ListenAssumption DEF Telegrams
<1>2. answered \in BOOLEAN
  BY DEF TypeOK
<1>3. PayloadSize(telegram) \in Nat /\ PayloadSize(telegram) >= 11
  BY <1>1 DEF PayloadSize, Published
<1>4. PayloadSize(telegram) - (IF Stripped(telegram) THEN 1 ELSE 0) \in Nat
  BY <1>3
<1>5. (IF Stripped(telegram) THEN {Dbm(telegram.level)} ELSE {}) \in SUBSET (-138 .. -11)
  BY <1>1, DbmOfByte
<1>. QED
  BY <1>2, <1>4, <1>5 DEF ServerPayload, Messages

\* With the device's own answer at hand the payload is the telegram, all of it
\* and nothing but it.
LEMMA PayloadFaithfulIfAsked ==
    ASSUME TypeOK, NEW telegram \in Telegrams, Published(telegram),
           rssi = deviceRssi, telegram.size # 10
    PROVE  Faithful(ServerPayload(telegram))
<1>1. telegram.size \in Nat /\ telegram.level \in 0 .. 255
  BY ListenAssumption DEF Telegrams
<1>2. Stripped(telegram) <=> deviceRssi
  BY <1>1 DEF Stripped, Published, PayloadSize
<1>3. ServerPayload(telegram).size = telegram.size
  BY <1>1, <1>2 DEF ServerPayload, PayloadSize
<1>4. deviceRssi <=> ServerPayload(telegram).rssi # {}
  BY <1>2 DEF ServerPayload
<1>5. \A dbm \in ServerPayload(telegram).rssi :
          2 * (dbm + 74) - Signed(telegram.level) \in -1 .. 1
  BY <1>1, DbmOfByte DEF ServerPayload
<1>6. ServerPayload(telegram).of = telegram
  BY DEF ServerPayload
<1>. QED
  BY <1>3, <1>4, <1>5, <1>6 DEF Faithful

-----------------------------------------------------------------------------
\* Nothing is left over from an earlier read() when the next is made.
LEMMA ReceivedIsPrefix ==
    ASSUME TypeOK, rx = <<>>, NEW n \in 1 .. Len(fromDevice)
    PROVE  Received(n) = SubSeq(fromDevice, 1, n)
BY DEF TypeOK, Received

\* With the buffer goes at most the first part of the frame in front.
LEMMA GiveUpIs ==
    ASSUME NEW ahead \in Seq(Frames), GiveUpBuffer(ahead)
    PROVE  /\ rx' = <<>> /\ claim' = 0
           /\ fromDevice' \in Seq(Frames) /\ Len(fromDevice') = Len(ahead)
           /\ \A k \in 1 .. Len(ahead) :
                 fromDevice'[k] \in TornFrames \/ fromDevice'[k] = ahead[k]
<1>1. CASE fromDevice' = ahead
  BY <1>1 DEF GiveUpBuffer
<1>2. CASE fromDevice' # ahead
  <2>1. PICK torn \in TornFrames : ahead # <<>> /\ fromDevice' = <<torn>> \o Tail(ahead)
    BY <1>2 DEF GiveUpBuffer
  <2>2. torn \in Frames
    BY TornKind
  <2>3. <<torn>> \in Seq(Frames) /\ Len(<<torn>>) = 1 /\ <<torn>>[1] = torn
    BY <2>2
  <2>4. /\ Tail(ahead) \in Seq(Frames) /\ Len(Tail(ahead)) = Len(ahead) - 1
        /\ \A k \in 1 .. Len(ahead) - 1 : Tail(ahead)[k] = ahead[k + 1]
        /\ Len(ahead) \in Nat
    BY <2>1, TailOf
  <2> DEFINE rest == Tail(ahead)  front == <<torn>>
  <2> HIDE DEF rest, front
  <2>5. /\ front \o rest \in Seq(Frames) /\ Len(front \o rest) = 1 + Len(rest)
        /\ (front \o rest)[1] = torn
        /\ \A k \in 1 .. Len(rest) : (front \o rest)[1 + k] = rest[k]
    <3>1. front \in Seq(Frames) /\ rest \in Seq(Frames) /\ Len(front) = 1 /\ front[1] = torn
      BY <2>3, <2>4 DEF front, rest
    <3>2. /\ front \o rest \in Seq(Frames) /\ Len(front \o rest) = Len(front) + Len(rest)
          /\ \A k \in 1 .. Len(front) : (front \o rest)[k] = front[k]
          /\ \A k \in 1 .. Len(rest) : (front \o rest)[Len(front) + k] = rest[k]
      <4>1. front \in Seq(Frames) /\ rest \in Seq(Frames)
        BY <3>1
      <4>. QED
        BY ONLY <4>1, ConcatOf
    <3>3. 1 \in 1 .. Len(front)
      BY <3>1
    <3>. QED
      BY <3>1, <3>2, <3>3
  <2>6. fromDevice' = front \o rest
    BY <2>1 DEF front, rest
  <2>7. Len(rest) = Len(ahead) - 1 /\ \A k \in 1 .. Len(ahead) - 1 : rest[k] = ahead[k + 1]
    BY <2>4 DEF rest
  <2>8. ASSUME NEW k \in 1 .. Len(ahead)
        PROVE  fromDevice'[k] \in TornFrames \/ fromDevice'[k] = ahead[k]
    <3>1. CASE k = 1
      BY <2>5, <2>6, <3>1
    <3>2. CASE k # 1
      <4>1. k - 1 \in 1 .. Len(ahead) - 1 /\ 1 + (k - 1) = k /\ (k - 1) + 1 = k
        BY <2>4, <3>2
      <4>. QED
        BY <2>5, <2>6, <2>7, <4>1
    <3>. QED
      BY <3>1, <3>2
  <2>9. Len(fromDevice') = Len(ahead)
    <3>1. /\ Len(fromDevice') = 1 + Len(rest) /\ Len(rest) = Len(ahead) - 1
          /\ Len(ahead) \in Nat
      BY <2>4, <2>5, <2>6, <2>7
    <3>. QED
      BY ONLY <3>1
  <2>. QED
    BY <2>5, <2>6, <2>8, <2>9 DEF GiveUpBuffer
<1>. QED
  BY <1>1, <1>2

-----------------------------------------------------------------------------
(***************************************************************************)
(* Type correctness.                                                       *)
(***************************************************************************)
LEMMA InitTypeOK == Init => TypeOK
<1> SUFFICES ASSUME Init PROVE TypeOK
  OBVIOUS
<1>1. /\ toDevice \in Seq({"getRssi"}) /\ Len(fromDevice) <= MaxQueue
      /\ fromDevice \in Seq(Frames) /\ rx \in Seq(Frames) /\ handed \in Seq(Messages)
  BY ListenAssumption DEF Init, QuietLine
<1>2. pause \in 0 .. Interval /\ arrived \in 0 .. MaxTelegrams
      /\ unplugs \in 0 .. MaxUnplugs /\ faults \in 0 .. MaxFaults
  BY ListenAssumption DEF Init
<1>3. /\ rssi \in BOOLEAN /\ answered \in BOOLEAN /\ running \in BOOLEAN
      /\ plugged \in BOOLEAN /\ deviceRssi \in BOOLEAN
  BY Zenon DEF Init
<1>4. rx = <<>> /\ pc = "head" /\ fd = "closed" /\ claim \in 0 .. MaxClaim
  BY ExchangeAssumption DEF Init, QuietLine
<1>. QED
  BY <1>1, <1>2, <1>3, <1>4 DEF TypeOK, Frames, Messages

LEMMA SessionTypeOK ==
    ASSUME TypeOK, OpenPort \/ OpenFails \/ Ask \/ ReadFails \/ Leave \/ FramesDone
    PROVE  TypeOK'
<1> USE ListenAssumption DEF TypeOK, rssiEnabled, world, line
<1>1. CASE OpenPort
  <2>1. rx' = <<>> /\ claim' \in 0 .. MaxClaim /\ UNCHANGED toDevice
    BY <1>1, ExchangeAssumption DEF OpenPort, Reopen
  <2>2. fromDevice' \in Seq(Frames) /\ Len(fromDevice') <= MaxQueue
    <3>1. CASE fromDevice' = <<>>
      BY <3>1
    <3>2. CASE \E torn \in TornFrames : fromDevice' = <<torn>>
      BY <3>2, TornKind
    <3>. QED
      BY <1>1, <3>1, <3>2 DEF OpenPort, Reopen
  <2>3. arrived' \in 0 .. MaxTelegrams
    BY <1>1 DEF OpenPort, Arrive
  <2>. QED
    BY <1>1, <2>1, <2>2, <2>3 DEF OpenPort, Frames
<1>2. CASE OpenFails
  BY <1>2 DEF OpenFails
<1>3. CASE Ask
  <2>1. toDevice' \in Seq({"getRssi"}) /\ UNCHANGED <<fromDevice, rx, claim>>
    <3>1. Append(toDevice, "getRssi") \in Seq({"getRssi"})
      BY AppendOf
    <3>. QED
      BY <1>3, <3>1 DEF Ask, Write
  <2>. QED
    BY <1>3, <2>1 DEF Ask
<1>4. CASE ReadFails
  BY <1>4 DEF ReadFails
<1>5. CASE Leave
  BY <1>5 DEF Leave
<1>6. CASE FramesDone
  <2>1. rx' = <<>> /\ claim' = Outstanding(rx) /\ Len(rx) \in Nat
    BY <1>6 DEF FramesDone, UseUp
  <2>2. claim' \in 0 .. MaxClaim
    BY <2>1, OutstandingIs
  <2>. QED
    BY <1>6, <2>1, <2>2 DEF FramesDone
<1>. QED
  BY <1>1, <1>2, <1>3, <1>4, <1>5, <1>6

LEMMA ReadingTypeOK ==
    ASSUME TypeOK, WaitOn \/ Answered \/ NoAnswer \/ Read
    PROVE  TypeOK'
<1>1. fromDevice \in Seq(Frames) /\ Len(fromDevice) <= MaxQueue
  BY DEF TypeOK, Frames
<1>2. ASSUME NEW n \in 1 .. Len(fromDevice), TakeOff(n)
      PROVE  fromDevice' \in Seq(Frames) /\ Len(fromDevice') <= MaxQueue
  BY <1>1, <1>2, PartOf, ListenAssumption DEF TakeOff
<1>3. CASE WaitOn
  <2>1. PICK n \in 1 .. Len(fromDevice) : ReadOthers("getResponse", n)
    BY <1>3 DEF WaitOn
  <2>2. fromDevice' \in Seq(Frames) /\ Len(fromDevice') <= MaxQueue
    BY <1>2, <2>1 DEF ReadOthers
  <2>3. rx \in Seq(Frames)
    BY DEF TypeOK, Frames
  <2>4. rx' = <<>> /\ claim' \in 0 .. MaxClaim /\ UNCHANGED toDevice
    BY <1>1, <2>1, <2>3, ReadOthersShifts
  <2>. QED
    BY <1>3, <2>2, <2>4 DEF WaitOn, TypeOK, Frames, session, rssiEnabled, world
<1>4. CASE Answered
  <2>1. pc = "wait" /\ rx = <<>>
    BY <1>4 DEF Answered, TypeOK
  <2>2. PICK n \in 1 .. Len(fromDevice) : \E k \in 1 .. Len(Received(n)) :
            /\ IsFirst(k, Received(n), "getResponse")
            /\ rssi' = Received(n)[k].enabled /\ answered' = TRUE
            /\ GiveUpBuffer(SubSeq(fromDevice, n + 1, Len(fromDevice)))
    BY <1>4 DEF Answered
  <2>3. PICK k \in 1 .. Len(Received(n)) :
            /\ Received(n)[k].code = "getResponse"
            /\ rssi' = Received(n)[k].enabled /\ answered' = TRUE
            /\ GiveUpBuffer(SubSeq(fromDevice, n + 1, Len(fromDevice)))
    BY <2>2 DEF IsFirst
  <2>4. Received(n)[k] \in Frames
    BY <1>1, <2>1, ReceivedIsPrefix, PartOf
  <2>5. rssi' \in BOOLEAN
    BY <2>3, <2>4, FrameKinds
  <2>6. /\ fromDevice' \in Seq(Frames) /\ Len(fromDevice') <= MaxQueue
        /\ rx' = <<>> /\ claim' \in 0 .. MaxClaim
    <3> DEFINE ahead == SubSeq(fromDevice, n + 1, Len(fromDevice))
    <3>1. ahead \in Seq(Frames) /\ Len(ahead) <= MaxQueue /\ GiveUpBuffer(ahead)
      BY <1>1, <2>3, PartOf, ListenAssumption
    <3> HIDE DEF ahead
    <3>. QED
      BY <3>1, GiveUpIs, ExchangeAssumption
  <2>. QED
    BY <1>4, <2>3, <2>5, <2>6 DEF Answered, TypeOK, Frames, world
<1>5. CASE NoAnswer
  <2>1. faults' \in 0 .. MaxFaults
    BY <1>5, ListenAssumption DEF NoAnswer, Fault, TypeOK
  <2>2. /\ fromDevice' \in Seq(Frames) /\ Len(fromDevice') <= MaxQueue
        /\ rx' = <<>> /\ claim' \in 0 .. MaxClaim
    BY <1>1, <1>5, GiveUpIs, ExchangeAssumption DEF NoAnswer
  <2>. QED
    BY <1>5, <2>1, <2>2 DEF NoAnswer, TypeOK, Frames
<1>6. CASE Read
  <2>1. rx = <<>>
    BY <1>6 DEF Read, TypeOK
  <2>2. PICK n \in 1 .. Len(fromDevice) : rx' = Received(n) /\ TakeOff(n)
    BY <1>6 DEF Read
  <2>3. rx' \in Seq(Frames)
    BY <1>1, <2>1, <2>2, ReceivedIsPrefix, PartOf
  <2>4. fromDevice' \in Seq(Frames) /\ Len(fromDevice') <= MaxQueue
    BY <1>2, <2>2
  <2>. QED
    BY <1>6, <2>3, <2>4 DEF Read, TypeOK, Frames, rssiEnabled, world
<1>. QED
  BY <1>3, <1>4, <1>5, <1>6

\* The extraction of the k-th frame takes it and those in front of it away.
LEMMA ExtractedIs ==
    ASSUME rx \in Seq(Frames), NEW k \in 1 .. Len(rx), rx' = SubSeq(rx, k + 1, Len(rx))
    PROVE  /\ rx[k] \in Frames /\ rx' \in Seq(Frames)
           /\ Len(rx) \in Nat /\ Len(rx') = Len(rx) - k
           /\ \A i \in 1 .. Len(rx') : rx'[i] = rx[i + k] /\ i + k \in k + 1 .. Len(rx)
<1>1. k \in 0 .. Len(rx) /\ Len(rx) \in Nat /\ rx[k] \in Frames
  OBVIOUS
<1>2. /\ rx' \in Seq(Frames) /\ Len(rx') = Len(rx) - k
      /\ \A i \in 1 .. Len(rx) - k : rx'[i] = rx[i + k]
  BY <1>1, PartOf
<1>3. ASSUME NEW i \in 1 .. Len(rx') PROVE i + k \in k + 1 .. Len(rx)
  BY <1>1, <1>2
<1>. QED
  BY <1>1, <1>2, <1>3

LEMMA HandlingTypeOK ==
    ASSUME TypeOK, HandleFrame
    PROVE  TypeOK'
<1>1. rx \in Seq(Frames) /\ handed \in Seq(Messages)
  BY DEF TypeOK, Frames, Messages
<1>2. PICK k \in 1 .. Len(rx) :
          Handed(rx[k]) /\ rx' = SubSeq(rx, k + 1, Len(rx)) /\ claim' = 0
  BY DEF HandleFrame
<1>3. rx[k] \in Frames /\ rx' \in Seq(Frames)
  BY <1>1, <1>2, ExtractedIs
<1>4. handed' \in Seq(Messages)
  <2>1. CASE rx[k].code = "telegram" /\ Published(rx[k])
    <3>1. ServerPayload(rx[k]) \in Messages
      BY <1>3, <2>1, FrameKinds, PayloadType DEF IsTelegram
    <3>. QED
      BY <1>1, <1>2, <2>1, <3>1, AppendOf DEF Handed
  <2>2. CASE ~(rx[k].code = "telegram" /\ Published(rx[k]))
    BY <1>1, <1>2, <2>2 DEF Handed
  <2>. QED
    BY <2>1, <2>2
<1>. QED
  BY <1>2, <1>3, <1>4, ExchangeAssumption
  DEF HandleFrame, TypeOK, Frames, Messages, session, rssiEnabled, world

LEMMA WorldTypeOK ==
    ASSUME TypeOK, World \/ Signal \/ Tick
    PROVE  TypeOK'
<1>1. fromDevice \in Seq(Frames) /\ toDevice \in Seq({"getRssi"})
  BY DEF TypeOK, Frames
<1>2. CASE DeviceReports
  <2>1. arrived' \in 1 .. MaxTelegrams /\ arrived' = arrived + 1
    BY <1>2, ListenAssumption DEF DeviceReports, Arrive, TypeOK
  <2>2. PICK size \in Sizes, level \in Levels :
            \E frame \in {[code |-> "telegram", id |-> arrived + 1,
                           size |-> size, level |-> level]} \cup TornFrames :
               IF plugged /\ fd = "open" /\ Len(fromDevice) < MaxQueue
               THEN Report(frame) ELSE UNCHANGED line
    BY <1>2 DEF DeviceReports
  <2>3. [code |-> "telegram", id |-> arrived + 1, size |-> size, level |-> level] \in Frames
    BY <2>1 DEF Frames, Telegrams
  <2>4. PICK frame \in Frames :
            IF plugged /\ fd = "open" /\ Len(fromDevice) < MaxQueue
            THEN Report(frame) ELSE UNCHANGED line
    BY <2>2, <2>3, TornKind
  <2>5. /\ fromDevice' \in Seq(Frames) /\ Len(fromDevice') <= MaxQueue
        /\ UNCHANGED <<toDevice, rx, claim>>
    <3>1. CASE plugged /\ fd = "open" /\ Len(fromDevice) < MaxQueue
      <4>1. /\ fromDevice' = Append(fromDevice, frame)
            /\ UNCHANGED <<toDevice, rx, claim>> /\ Len(fromDevice) + 1 <= MaxQueue
        BY <1>1, <2>4, <3>1, ListenAssumption DEF Report
      <4>. QED
        BY <1>1, <4>1, AppendOf
    <3>2. CASE ~(plugged /\ fd = "open" /\ Len(fromDevice) < MaxQueue)
      BY <1>1, <2>4, <3>2 DEF line, TypeOK
    <3>. QED
      BY <3>1, <3>2
  <2>. QED
    BY <1>2, <2>1, <2>5 DEF DeviceReports, TypeOK, Frames, session, rssiEnabled
<1>3. CASE DeviceAnswers
  <2>1. [code |-> "getResponse", enabled |-> deviceRssi] \in Frames
    BY DEF TypeOK, Frames
  <2>2. toDevice' \in Seq({"getRssi"}) /\ UNCHANGED <<rx, claim>>
    BY <1>1, <1>3, TailOf DEF DeviceAnswers, Handle
  <2>3. fromDevice' \in Seq(Frames) /\ Len(fromDevice') <= MaxQueue
    BY <1>1, <1>3, <2>1, ListenAssumption DEF DeviceAnswers, Handle
  <2>. QED
    BY <1>3, <2>2, <2>3 DEF DeviceAnswers, TypeOK, Frames, session, rssiEnabled, world
<1>4. CASE Lose
  <2>1. PICK reply \in Remains : Len(fromDevice \o reply) <= MaxQueue /\ Handle(reply)
    BY <1>4 DEF Lose
  <2>2. /\ toDevice' \in Seq({"getRssi"}) /\ UNCHANGED <<rx, claim>>
        /\ fromDevice' \in Seq(Frames) /\ Len(fromDevice') <= MaxQueue
    <3>1. /\ toDevice # <<>> /\ toDevice' = Tail(toDevice)
          /\ fromDevice' = fromDevice \o reply /\ UNCHANGED <<rx, claim>>
      BY <2>1 DEF Handle
    <3>2. TornFrames \subseteq Frames /\ rx \in Seq(Frames)
      BY TornKind DEF TypeOK, Frames
    <3>3. fromDevice' \in Seq(Frames)
      BY <1>1, <2>1, <3>2, HandleRemains
    <3>. QED
      BY <1>1, <2>1, <3>1, <3>3, TailOf
  <2>3. faults' \in 0 .. MaxFaults
    BY <1>4, ListenAssumption DEF Lose, Fault, TypeOK
  <2>. QED
    BY <1>4, <2>2, <2>3 DEF Lose, TypeOK, Frames, session, rssiEnabled
<1>5. CASE Unplug
  <2>1. unplugs' \in 0 .. MaxUnplugs
    BY <1>5, ListenAssumption DEF Unplug, TypeOK
  <2>2. /\ toDevice' \in Seq({"getRssi"}) /\ fromDevice' \in Seq(Frames)
        /\ Len(fromDevice') <= MaxQueue /\ fd' \in {"closed", "open", "hungup"}
        /\ fd' = "closed" <=> fd = "closed"
    BY <1>5, ListenAssumption DEF Unplug, TypeOK
  <2>. QED
    BY <1>5, <2>1, <2>2 DEF Unplug, TypeOK, Frames, rssiEnabled
<1>6. CASE Replug
  BY <1>6 DEF Replug, TypeOK, line, session, rssiEnabled
<1>7. CASE Signal
  BY <1>7 DEF Signal, TypeOK, line, session, rssiEnabled, world
<1>8. CASE Tick
  <2>1. pause' \in 0 .. Interval
    BY <1>8, ListenAssumption DEF Tick, TypeOK
  <2>. QED
    BY <1>8, <2>1 DEF Tick, TypeOK, line, rssiEnabled, world
<1>. QED
  BY <1>2, <1>3, <1>4, <1>5, <1>6, <1>7, <1>8 DEF World

LEMMA NextTypeOK ==
    ASSUME TypeOK, [Next]_vars
    PROVE  TypeOK'
<1>1. CASE UNCHANGED vars
  BY <1>1 DEF TypeOK, vars, line, session, rssiEnabled, world
<1>2. CASE ReadNothing
  BY <1>1, <1>2 DEF ReadNothing
<1>. QED
  BY <1>1, <1>2, SessionTypeOK, ReadingTypeOK, HandlingTypeOK, WorldTypeOK
  DEF Next, Step

\* Type correctness of the loop: among others, the descriptor is closed exactly
\* while the loop is outside a session, and every reading in dBm is one that a
\* byte can stand for.
THEOREM TypeCorrect == Spec => []TypeOK
<1>. QED
  BY InitTypeOK, NextTypeOK, PTL DEF Spec

-----------------------------------------------------------------------------
(***************************************************************************)
(* The order of the telegrams, from the driver's queue through the receive *)
(* buffer to mqtt.send, and the truth of the answers among them.           *)
(***************************************************************************)
Rising(queue) ==
    \A j, k \in 1 .. Len(queue) :
        j < k /\ IsTelegram(queue[j]) /\ IsTelegram(queue[k]) => queue[j].id < queue[k].id

AllBefore(first, second) ==
    \A j \in 1 .. Len(first), k \in 1 .. Len(second) :
        IsTelegram(first[j]) /\ IsTelegram(second[k]) => first[j].id < second[k].id

HandedBefore(queue) ==
    \A i \in 1 .. Len(handed), k \in 1 .. Len(queue) :
        IsTelegram(queue[k]) => handed[i].of.id < queue[k].id

HaveArrived(queue) ==
    \A k \in 1 .. Len(queue) : IsTelegram(queue[k]) => queue[k].id <= arrived

HandedInOrder ==
    /\ \A i, j \in 1 .. Len(handed) : i < j => handed[i].of.id < handed[j].of.id
    /\ \A i \in 1 .. Len(handed) : handed[i].of.id <= arrived

InOrder ==
    /\ Rising(fromDevice) /\ Rising(rx) /\ AllBefore(rx, fromDevice)
    /\ HandedBefore(rx) /\ HandedBefore(fromDevice) /\ HandedInOrder
    /\ HaveArrived(rx) /\ HaveArrived(fromDevice)

\* The device answers what is so, and that stays so.
AnswersTrue ==
    /\ \A k \in 1 .. Len(fromDevice) :
          fromDevice[k].code = "getResponse" => fromDevice[k].enabled = deviceRssi
    /\ answered => rssi = deviceRssi

IInv == TypeOK /\ InOrder /\ AnswersTrue /\ FaithfulIfAnswered

LEMMA IdsAreNumbers ==
    ASSUME TypeOK
    PROVE  /\ \A k \in 1 .. Len(rx) : IsTelegram(rx[k]) => rx[k].id \in Int
           /\ \A k \in 1 .. Len(fromDevice) :
                 IsTelegram(fromDevice[k]) => fromDevice[k].id \in Int
           /\ \A i \in 1 .. Len(handed) : handed[i].of.id \in Int
<1>1. /\ rx \in Seq(Frames) /\ fromDevice \in Seq(Frames) /\ handed \in Seq(Messages)
  BY DEF TypeOK, Frames, Messages
<1>2. \A telegram \in Telegrams : telegram.id \in Int
  BY DEF Telegrams
<1>3. \A i \in 1 .. Len(handed) : handed[i].of \in Telegrams
  <2>1. \A message \in Messages : message.of \in Telegrams
    BY DEF Messages
  <2>. QED
    BY <1>1, <2>1
<1>. QED
  BY <1>1, <1>2, <1>3, FrameKinds

LEMMA InitIInv == Init => IInv
<1> SUFFICES ASSUME Init PROVE IInv
  OBVIOUS
<1>1. Len(fromDevice) = 0 /\ Len(rx) = 0 /\ Len(handed) = 0
  BY DEF Init, QuietLine
<1>2. InOrder
  BY <1>1 DEF InOrder, Rising, AllBefore, HandedBefore, HandedInOrder, HaveArrived
<1>3. AnswersTrue /\ FaithfulIfAnswered
  BY <1>1 DEF AnswersTrue, FaithfulIfAnswered, Init
<1>. QED
  BY <1>2, <1>3, InitTypeOK DEF IInv

\* What a read() takes and what it leaves.
LEMMA Split ==
    ASSUME NEW queue \in Seq(Frames), NEW n \in 0 .. Len(queue), Rising(queue)
    PROVE  /\ Rising(SubSeq(queue, 1, n)) /\ Rising(SubSeq(queue, n + 1, Len(queue)))
           /\ AllBefore(SubSeq(queue, 1, n), SubSeq(queue, n + 1, Len(queue)))
<1> DEFINE taken == SubSeq(queue, 1, n)
           left == SubSeq(queue, n + 1, Len(queue))
<1>1. /\ Len(taken) = n /\ \A k \in 1 .. n : taken[k] = queue[k]
      /\ Len(left) = Len(queue) - n
      /\ \A k \in 1 .. Len(queue) - n : left[k] = queue[k + n]
      /\ Len(queue) \in Nat
  BY PartOf
<1> HIDE DEF taken, left
<1>2. Rising(taken)
  BY <1>1 DEF Rising
<1>3. Rising(left)
  <2> SUFFICES ASSUME NEW j \in 1 .. Len(left), NEW k \in 1 .. Len(left), j < k,
                      IsTelegram(left[j]), IsTelegram(left[k])
               PROVE  left[j].id < left[k].id
    BY DEF Rising
  <2>1. j + n \in 1 .. Len(queue) /\ k + n \in 1 .. Len(queue) /\ j + n < k + n
    BY <1>1
  <2>2. left[j] = queue[j + n] /\ left[k] = queue[k + n]
    BY <1>1
  <2>. QED
    BY <2>1, <2>2 DEF Rising
<1>4. AllBefore(taken, left)
  <2> SUFFICES ASSUME NEW j \in 1 .. Len(taken), NEW k \in 1 .. Len(left),
                      IsTelegram(taken[j]), IsTelegram(left[k])
               PROVE  taken[j].id < left[k].id
    BY DEF AllBefore
  <2>1. j \in 1 .. Len(queue) /\ k + n \in 1 .. Len(queue) /\ j < k + n
    BY <1>1
  <2>2. taken[j] = queue[j] /\ left[k] = queue[k + n]
    BY <1>1
  <2>. QED
    BY <2>1, <2>2 DEF Rising
<1>. QED
  BY <1>2, <1>3, <1>4 DEF taken, left

\* An element of a part is an element of the whole.
LEMMA PartElement ==
    ASSUME NEW queue \in Seq(Frames), NEW n \in 0 .. Len(queue)
    PROVE  /\ \A k \in 1 .. Len(SubSeq(queue, 1, n)) :
                  \E i \in 1 .. Len(queue) : SubSeq(queue, 1, n)[k] = queue[i]
           /\ \A k \in 1 .. Len(SubSeq(queue, n + 1, Len(queue))) :
                  \E i \in 1 .. Len(queue) : SubSeq(queue, n + 1, Len(queue))[k] = queue[i]
<1>1. ASSUME NEW k \in 1 .. Len(SubSeq(queue, 1, n))
      PROVE  SubSeq(queue, 1, n)[k] = queue[k] /\ k \in 1 .. Len(queue)
  BY PartOf
<1>2. ASSUME NEW k \in 1 .. Len(SubSeq(queue, n + 1, Len(queue)))
      PROVE  /\ SubSeq(queue, n + 1, Len(queue))[k] = queue[k + n]
             /\ k + n \in 1 .. Len(queue)
  BY PartOf
<1>. QED
  BY <1>1, <1>2

LEMMA TakeOffInOrder ==
    ASSUME IInv, NEW n \in 1 .. Len(fromDevice), TakeOff(n)
    PROVE  /\ Rising(fromDevice') /\ Rising(SubSeq(fromDevice, 1, n))
           /\ AllBefore(SubSeq(fromDevice, 1, n), fromDevice')
           /\ HandedBefore(SubSeq(fromDevice, 1, n)) /\ HandedBefore(fromDevice')
           /\ HaveArrived(SubSeq(fromDevice, 1, n)) /\ HaveArrived(fromDevice')
           /\ \A k \in 1 .. Len(fromDevice') :
                 fromDevice'[k].code = "getResponse" => fromDevice'[k].enabled = deviceRssi
<1>1. /\ fromDevice \in Seq(Frames) /\ n \in 0 .. Len(fromDevice)
      /\ InOrder /\ AnswersTrue
  BY DEF IInv, TypeOK, Frames
<1>2. fromDevice' = SubSeq(fromDevice, n + 1, Len(fromDevice))
  BY DEF TakeOff
<1>3. /\ Rising(fromDevice') /\ Rising(SubSeq(fromDevice, 1, n))
      /\ AllBefore(SubSeq(fromDevice, 1, n), fromDevice')
  BY <1>1, <1>2, Split DEF InOrder
<1>4. /\ \A k \in 1 .. Len(SubSeq(fromDevice, 1, n)) :
            \E i \in 1 .. Len(fromDevice) : SubSeq(fromDevice, 1, n)[k] = fromDevice[i]
      /\ \A k \in 1 .. Len(fromDevice') :
            \E i \in 1 .. Len(fromDevice) : fromDevice'[k] = fromDevice[i]
  BY <1>1, <1>2, PartElement
<1>5. HandedBefore(SubSeq(fromDevice, 1, n)) /\ HandedBefore(fromDevice')
  BY <1>1, <1>4 DEF InOrder, HandedBefore
<1>6. HaveArrived(SubSeq(fromDevice, 1, n)) /\ HaveArrived(fromDevice')
  BY <1>1, <1>4 DEF InOrder, HaveArrived
<1>7. \A k \in 1 .. Len(fromDevice') :
          fromDevice'[k].code = "getResponse" => fromDevice'[k].enabled = deviceRssi
  BY <1>1, <1>4 DEF AnswersTrue
<1>. QED
  BY <1>3, <1>5, <1>6, <1>7

-----------------------------------------------------------------------------
(***************************************************************************)
(* Most steps only take frames off the front of a queue, or all, or leave  *)
(* a torn one in the place of a frame, or behind all of them.              *)
(***************************************************************************)
Rest(left, queue) ==
    \E d \in Nat : \A k \in 1 .. Len(left) :
        left[k] \in TornFrames \/ (k + d \in 1 .. Len(queue) /\ left[k] = queue[k + d])

LEMMA RestInOrder ==
    ASSUME NEW left, NEW queue, Rest(left, queue)
    PROVE  /\ Rising(queue) => Rising(left)
           /\ HandedBefore(queue) => HandedBefore(left)
           /\ HaveArrived(queue) => HaveArrived(left)
           /\ \A k \in 1 .. Len(left) :
                 IsTelegram(left[k]) \/ left[k].code = "getResponse" =>
                    \E i \in 1 .. Len(queue) : left[k] = queue[i]
<1>1. PICK d \in Nat : \A k \in 1 .. Len(left) :
          left[k] \in TornFrames \/ (k + d \in 1 .. Len(queue) /\ left[k] = queue[k + d])
  BY DEF Rest
<1>2. ASSUME NEW k \in 1 .. Len(left), IsTelegram(left[k]) \/ left[k].code = "getResponse"
      PROVE  k + d \in 1 .. Len(queue) /\ left[k] = queue[k + d]
  <2>1. left[k] \notin TornFrames
    BY <1>2, TornKind
  <2>. QED
    BY <1>1, <2>1
<1>3. Rising(queue) => Rising(left)
  <2> SUFFICES ASSUME Rising(queue), NEW j \in 1 .. Len(left), NEW k \in 1 .. Len(left),
                      j < k, IsTelegram(left[j]), IsTelegram(left[k])
               PROVE  left[j].id < left[k].id
    BY DEF Rising
  <2>1. /\ j + d \in 1 .. Len(queue) /\ left[j] = queue[j + d]
        /\ k + d \in 1 .. Len(queue) /\ left[k] = queue[k + d]
    BY <1>2
  <2>2. j + d < k + d
    OBVIOUS
  <2>. QED
    BY <2>1, <2>2 DEF Rising
<1>4. HandedBefore(queue) => HandedBefore(left)
  BY <1>2 DEF HandedBefore
<1>5. HaveArrived(queue) => HaveArrived(left)
  BY <1>2 DEF HaveArrived
<1>. QED
  BY <1>2, <1>3, <1>4, <1>5

\* What is left of what is left.
LEMMA RestOfPart ==
    ASSUME NEW queue \in Seq(Frames), NEW n \in 0 .. Len(queue), NEW left,
           Len(left) = Len(queue) - n,
           \A k \in 1 .. Len(left) :
               left[k] \in TornFrames \/ left[k] = SubSeq(queue, n + 1, Len(queue))[k]
    PROVE  Rest(left, queue)
<1>1. Len(queue) \in Nat /\ n \in Nat
  OBVIOUS
<1>2. \A k \in 1 .. Len(queue) - n : SubSeq(queue, n + 1, Len(queue))[k] = queue[k + n]
  BY PartOf
<1>3. \A k \in 1 .. Len(left) : k \in 1 .. Len(queue) - n /\ k + n \in 1 .. Len(queue)
  BY <1>1
<1>4. \A k \in 1 .. Len(left) :
          left[k] \in TornFrames \/ (k + n \in 1 .. Len(queue) /\ left[k] = queue[k + n])
  BY <1>2, <1>3
<1>. QED
  BY <1>1, <1>4 DEF Rest

LEMMA AllOrNothing ==
    ASSUME NEW left, NEW queue, left = queue \/ left = <<>>
    PROVE  Rest(left, queue)
<1>1. \A k \in 1 .. Len(left) : k + 0 \in 1 .. Len(queue) /\ left[k] = queue[k + 0]
  <2>1. CASE left = queue
    BY <2>1
  <2>2. CASE left = <<>>
    BY <2>2
  <2>. QED
    BY <2>1, <2>2
<1>. QED
  BY <1>1 DEF Rest

LEMMA QueuesRest ==
    ASSUME IInv, UNCHANGED <<handed, deviceRssi>>, arrived' \in {arrived, arrived + 1},
           answered' => rssi' = deviceRssi, Rest(rx', rx), Rest(fromDevice', fromDevice)
    PROVE  InOrder' /\ AnswersTrue' /\ FaithfulIfAnswered'
<1>1. InOrder /\ AnswersTrue /\ FaithfulIfAnswered /\ arrived \in Nat /\ arrived <= arrived'
  BY ListenAssumption DEF IInv, TypeOK
<1>2. /\ Rising(rx') /\ Rising(fromDevice') /\ HandedBefore(rx') /\ HandedBefore(fromDevice')
      /\ HaveArrived(rx') /\ HaveArrived(fromDevice')
  BY <1>1, RestInOrder DEF InOrder
<1>3. AllBefore(rx', fromDevice')
  BY <1>1, RestInOrder DEF InOrder, AllBefore
<1>4. Rising(rx)' /\ Rising(fromDevice)' /\ AllBefore(rx, fromDevice)'
  BY <1>2, <1>3 DEF Rising, AllBefore
<1>5. HandedBefore(rx)' /\ HandedBefore(fromDevice)'
  BY <1>2 DEF HandedBefore
<1>6. HaveArrived(rx)' /\ HaveArrived(fromDevice)'
  <2>1. /\ \A k \in 1 .. Len(rx') : IsTelegram(rx'[k]) => rx'[k].id \in Int
        /\ \A k \in 1 .. Len(fromDevice') :
              IsTelegram(fromDevice'[k]) => fromDevice'[k].id \in Int
    BY RestInOrder, IdsAreNumbers DEF IInv
  <2>. QED
    BY <1>1, <1>2, <2>1 DEF HaveArrived
<1>7. HandedInOrder'
  <2>1. \A i \in 1 .. Len(handed) : handed[i].of.id <= arrived /\ handed[i].of.id \in Int
    BY <1>1, IdsAreNumbers DEF InOrder, HandedInOrder, IInv
  <2>2. \A i \in 1 .. Len(handed) : handed[i].of.id <= arrived'
    BY <1>1, <2>1
  <2>. QED
    BY <1>1, <2>2 DEF InOrder, HandedInOrder
<1>8. AnswersTrue'
  BY <1>1, RestInOrder DEF AnswersTrue
<1>9. FaithfulIfAnswered'
  BY <1>1 DEF FaithfulIfAnswered, Faithful
<1>. QED
  BY <1>4, <1>5, <1>6, <1>7, <1>8, <1>9 DEF InOrder

LEMMA QuietStepIInv ==
    ASSUME IInv,
           \/ OpenPort \/ OpenFails \/ Ask \/ NoAnswer \/ ReadFails \/ Leave
           \/ FramesDone \/ Signal \/ Tick \/ Lose \/ Unplug \/ Replug
    PROVE  InOrder' /\ AnswersTrue' /\ FaithfulIfAnswered'
<1> USE DEF rssiEnabled, session, world, line
<1>1. UNCHANGED <<handed, deviceRssi>>
  BY DEF OpenPort, OpenFails, Ask, NoAnswer, ReadFails, Leave, FramesDone, Signal,
         Tick, Lose, Unplug, Replug
<1>2. arrived' \in {arrived, arrived + 1}
  BY DEF OpenPort, Arrive, OpenFails, Ask, NoAnswer, ReadFails, Leave, FramesDone, Signal,
         Tick, Lose, Unplug, Replug
<1>3. answered' => rssi' = deviceRssi
  <2>1. UNCHANGED rssiEnabled \/ answered' = FALSE
    BY DEF OpenPort, OpenFails, Ask, NoAnswer, ReadFails, Leave, FramesDone, Signal,
           Tick, Lose, Unplug, Replug
  <2>. QED
    BY <2>1 DEF IInv, AnswersTrue
<1>4. /\ fromDevice \in Seq(Frames) /\ rx \in Seq(Frames) /\ TornFrames \subseteq Frames
      /\ Len(fromDevice) \in Nat
  BY TornKind DEF IInv, TypeOK, Frames
<1>5. rx' = rx \/ rx' = <<>>
  BY DEF OpenPort, Reopen, OpenFails, Ask, Write, NoAnswer, GiveUpBuffer, ReadFails, Leave,
         FramesDone, UseUp, Signal, Tick, Lose, Handle, Unplug, Replug
<1>6. Rest(fromDevice', fromDevice)
  <2>1. CASE Lose
    <3>1. PICK reply \in Remains : Handle(reply)
      BY <2>1 DEF Lose
    <3>2. fromDevice' = fromDevice \o reply
      BY <3>1 DEF Handle
    <3>3. CASE reply = <<>>
      <4>1. fromDevice' = fromDevice
        BY <1>4, <3>2, <3>3
      <4>. QED
        BY <4>1, AllOrNothing
    <3>4. CASE \E torn \in TornFrames : reply = <<torn>>
      <4>1. PICK torn \in TornFrames : reply = <<torn>>
        BY <3>4
      <4>2. fromDevice' = Append(fromDevice, torn) /\ torn \in Frames
        BY <1>4, <3>2, <4>1
      <4>3. /\ Len(fromDevice') = Len(fromDevice) + 1
            /\ \A k \in 1 .. Len(fromDevice) : fromDevice'[k] = fromDevice[k]
            /\ fromDevice'[Len(fromDevice) + 1] = torn
        BY <1>4, <4>2, AppendOf
      <4>4. \A k \in 1 .. Len(fromDevice') :
                \/ fromDevice'[k] \in TornFrames
                \/ k + 0 \in 1 .. Len(fromDevice) /\ fromDevice'[k] = fromDevice[k + 0]
        BY <1>4, <4>1, <4>3
      <4>. QED
        BY <4>4 DEF Rest
    <3>. QED
      BY <3>1, <3>3, <3>4 DEF Remains
  <2>2. CASE NoAnswer
    <3>1. /\ Len(fromDevice') = Len(fromDevice)
          /\ \A k \in 1 .. Len(fromDevice) :
                fromDevice'[k] \in TornFrames \/ fromDevice'[k] = fromDevice[k + 0]
      BY <1>4, <2>2, GiveUpIs DEF NoAnswer
    <3>2. \A k \in 1 .. Len(fromDevice') :
                \/ fromDevice'[k] \in TornFrames
                \/ k + 0 \in 1 .. Len(fromDevice) /\ fromDevice'[k] = fromDevice[k + 0]
      BY <1>4, <3>1
    <3>. QED
      BY <3>2 DEF Rest
  <2>3. CASE OpenPort
    <3>1. CASE fromDevice' = <<>>
      BY <3>1, AllOrNothing
    <3>2. CASE \E torn \in TornFrames : fromDevice' = <<torn>>
      <4>1. \A k \in 1 .. Len(fromDevice') : fromDevice'[k] \in TornFrames
        BY <3>2
      <4>. QED
        BY <4>1 DEF Rest
    <3>. QED
      BY <2>3, <3>1, <3>2 DEF OpenPort, Reopen
  <2>4. CASE ~(Lose \/ NoAnswer \/ OpenPort)
    <3>1. fromDevice' = fromDevice \/ fromDevice' = <<>>
      BY <2>4 DEF OpenFails, Ask, Write, ReadFails, Leave, FramesDone, Signal, Tick,
                  Unplug, Replug
    <3>. QED
      BY <3>1, AllOrNothing
  <2>. QED
    BY <2>1, <2>2, <2>3, <2>4
<1>7. Rest(rx', rx)
  BY <1>5, AllOrNothing
<1>. QED
  BY <1>1, <1>2, <1>3, <1>6, <1>7, QueuesRest

\* A wait for an answer keeps nothing of what it reads; the answer is the
\* device's own.
LEMMA WaitingIInv ==
    ASSUME IInv, WaitOn \/ Answered
    PROVE  InOrder' /\ AnswersTrue' /\ FaithfulIfAnswered'
<1>1. UNCHANGED <<handed, arrived, deviceRssi>>
  BY DEF WaitOn, Answered, session, world
<1>2. /\ TypeOK /\ AnswersTrue /\ rx = <<>> /\ fromDevice \in Seq(Frames)
      /\ Len(fromDevice) \in Nat
  BY DEF IInv, TypeOK, Frames, WaitOn, Answered
<1>3. CASE WaitOn
  <2>1. PICK n \in 1 .. Len(fromDevice) : TakeOff(n) /\ rx' = <<>>
    BY <1>3 DEF WaitOn, ReadOthers, UseUp
  <2>2. n \in 0 .. Len(fromDevice) /\ fromDevice' = SubSeq(fromDevice, n + 1, Len(fromDevice))
    BY <2>1 DEF TakeOff
  <2>3. Len(fromDevice') = Len(fromDevice) - n
    BY <1>2, <2>2, PartOf
  <2>4. Rest(fromDevice', fromDevice) /\ Rest(rx', rx)
    BY <1>2, <2>1, <2>2, <2>3, RestOfPart, AllOrNothing
  <2>5. answered' => rssi' = deviceRssi
    BY <1>2, <1>3 DEF WaitOn, session, rssiEnabled, AnswersTrue
  <2>. QED
    BY <1>1, <2>4, <2>5, QueuesRest
<1>4. CASE Answered
  <2>1. PICK n \in 1 .. Len(fromDevice) : \E k \in 1 .. Len(Received(n)) :
            /\ Received(n)[k].code = "getResponse" /\ rssi' = Received(n)[k].enabled
            /\ GiveUpBuffer(SubSeq(fromDevice, n + 1, Len(fromDevice)))
    BY <1>4 DEF Answered, IsFirst
  <2>2. n \in 0 .. Len(fromDevice) /\ Received(n) = SubSeq(fromDevice, 1, n)
    BY <1>2, ReceivedIsPrefix
  <2>3. \E i \in 1 .. Len(fromDevice) :
            fromDevice[i].code = "getResponse" /\ rssi' = fromDevice[i].enabled
    <3>1. \A k \in 1 .. Len(Received(n)) :
              \E i \in 1 .. Len(fromDevice) : Received(n)[k] = fromDevice[i]
      BY <1>2, <2>2, PartElement
    <3>. QED
      BY <2>1, <3>1
  <2>4. answered' => rssi' = deviceRssi
    BY <1>2, <2>3 DEF AnswersTrue
  <2> DEFINE ahead == SubSeq(fromDevice, n + 1, Len(fromDevice))
  <2>5. ahead \in Seq(Frames) /\ Len(ahead) = Len(fromDevice) - n /\ GiveUpBuffer(ahead)
    BY <1>2, <2>1, <2>2, PartOf
  <2>6. /\ rx' = <<>> /\ Len(fromDevice') = Len(fromDevice) - n
        /\ \A k \in 1 .. Len(fromDevice') :
              fromDevice'[k] \in TornFrames \/ fromDevice'[k] = ahead[k]
    <3> HIDE DEF ahead
    <3>. QED
      BY <2>5, GiveUpIs
  <2>7. Rest(fromDevice', fromDevice) /\ Rest(rx', rx)
    BY <1>2, <2>2, <2>6, RestOfPart, AllOrNothing
  <2>. QED
    BY <1>1, <2>4, <2>7, QueuesRest
<1>. QED
  BY <1>3, <1>4

LEMMA ReadingIInv ==
    ASSUME IInv, Read
    PROVE  InOrder' /\ AnswersTrue' /\ FaithfulIfAnswered'
<1>1. UNCHANGED <<handed, arrived, deviceRssi, rssiEnabled>>
  BY DEF Read, world
<1>2. rx = <<>>
  BY DEF IInv, TypeOK, Read
<1>3. InOrder /\ AnswersTrue /\ FaithfulIfAnswered
  BY DEF IInv
<1>4. PICK n \in 1 .. Len(fromDevice) :
          TakeOff(n) /\ rx' = SubSeq(fromDevice, 1, n)
  BY <1>2, ReceivedIsPrefix DEF Read, IInv
<1>5. /\ Rising(fromDevice') /\ Rising(SubSeq(fromDevice, 1, n))
      /\ AllBefore(SubSeq(fromDevice, 1, n), fromDevice')
      /\ HandedBefore(SubSeq(fromDevice, 1, n)) /\ HandedBefore(fromDevice')
      /\ HaveArrived(SubSeq(fromDevice, 1, n)) /\ HaveArrived(fromDevice')
      /\ \A k \in 1 .. Len(fromDevice') :
            fromDevice'[k].code = "getResponse" => fromDevice'[k].enabled = deviceRssi
  BY <1>4, TakeOffInOrder
<1>6. InOrder'
  BY <1>1, <1>3, <1>4, <1>5
  DEF InOrder, Rising, AllBefore, HandedBefore, HaveArrived, HandedInOrder
<1>7. FaithfulIfAnswered'
  BY <1>1, <1>3 DEF FaithfulIfAnswered, Faithful
<1>. QED
  BY <1>1, <1>3, <1>5, <1>6, <1>7 DEF AnswersTrue, rssiEnabled

LEMMA HandlingIInv ==
    ASSUME IInv, HandleFrame
    PROVE  InOrder' /\ AnswersTrue' /\ FaithfulIfAnswered'
<1>1. /\ TypeOK /\ InOrder /\ AnswersTrue /\ FaithfulIfAnswered
      /\ rx \in Seq(Frames) /\ handed \in Seq(Messages)
  BY DEF IInv, TypeOK, Frames, Messages
<1>2. PICK n \in 1 .. Len(rx) : Handed(rx[n]) /\ rx' = SubSeq(rx, n + 1, Len(rx))
  BY DEF HandleFrame
<1>3. UNCHANGED <<toDevice, fromDevice, rssi, answered, arrived, deviceRssi>>
  BY DEF HandleFrame, session, rssiEnabled, world
<1>4. /\ rx[n] \in Frames /\ Len(rx) \in Nat /\ Len(rx') = Len(rx) - n
      /\ \A k \in 1 .. Len(rx') : rx'[k] = rx[k + n] /\ k + n \in n + 1 .. Len(rx)
  BY <1>1, <1>2, ExtractedIs
<1>5. \A k \in 1 .. Len(rx') : \E i \in n + 1 .. Len(rx) : rx'[k] = rx[i]
  BY <1>4
<1>6. \A i \in n + 1 .. Len(rx) : i \in 1 .. Len(rx) /\ n < i
  BY <1>4
<1>7. Rising(rx') /\ AllBefore(rx', fromDevice) /\ HaveArrived(rx') /\ HandedBefore(rx')
  <2>1. \A k \in 1 .. Len(rx') : k + n \in 1 .. Len(rx) /\ rx'[k] = rx[k + n]
    BY <1>4, <1>6
  <2>2. n \in Nat
    OBVIOUS
  <2>3. Rest(rx', rx)
    BY <2>1, <2>2 DEF Rest
  <2>. QED
    BY <1>1, <1>5, <1>6, <2>3, RestInOrder DEF InOrder, AllBefore
<1>8. AnswersTrue'
  BY <1>1, <1>3 DEF AnswersTrue
<1>9. CASE rx[n].code = "telegram" /\ Published(rx[n])
  <2> DEFINE message == ServerPayload(rx[n])
  <2>1. IsTelegram(rx[n]) /\ rx[n] \in Telegrams /\ message \in Messages
    BY <1>1, <1>4, <1>9, FrameKinds, PayloadType DEF IsTelegram
  <2>2. message.of = rx[n] /\ message.answered = answered
    BY DEF ServerPayload
  <2>3. /\ Len(handed') = Len(handed) + 1 /\ Len(handed) \in Nat
        /\ \A i \in 1 .. Len(handed) : handed'[i] = handed[i]
        /\ handed'[Len(handed) + 1] = message
    BY <1>1, <1>2, <1>9, <2>1, AppendOf DEF Handed
  <2>4. \A i \in 1 .. Len(handed') :
            \/ i \in 1 .. Len(handed) /\ handed'[i] = handed[i]
            \/ i = Len(handed) + 1 /\ handed'[i].of = rx[n]
    BY <2>2, <2>3
  <2>5. HandedBefore(rx)'
    <3>1. \A k \in 1 .. Len(rx') : IsTelegram(rx'[k]) => rx[n].id < rx'[k].id
      BY <1>1, <1>5, <1>6, <2>1 DEF InOrder, Rising
    <3>. QED
      BY <1>7, <2>4, <3>1 DEF HandedBefore
  <2>6. HandedBefore(fromDevice)'
    <3>1. \A k \in 1 .. Len(fromDevice) :
              IsTelegram(fromDevice[k]) => rx[n].id < fromDevice[k].id
      BY <1>1, <1>2, <2>1 DEF InOrder, AllBefore
    <3>. QED
      BY <1>1, <1>3, <2>4, <3>1 DEF InOrder, HandedBefore
  <2>7. HandedInOrder'
    <3>1. rx[n].id <= arrived
      BY <1>1, <1>2, <2>1 DEF InOrder, HaveArrived
    <3>2. \A i \in 1 .. Len(handed) : handed[i].of.id < rx[n].id
      BY <1>1, <1>2, <2>1 DEF InOrder, HandedBefore
    <3>3. \A i \in 1 .. Len(handed') : handed'[i].of.id <= arrived'
      BY <1>1, <1>3, <2>4, <3>1 DEF InOrder, HandedInOrder
    <3>4. ASSUME NEW i \in 1 .. Len(handed'), NEW j \in 1 .. Len(handed'), i < j
          PROVE  handed'[i].of.id < handed'[j].of.id
      <4>1. i \in 1 .. Len(handed) /\ handed'[i] = handed[i]
        BY <2>3, <3>4
      <4>2. CASE j \in 1 .. Len(handed) /\ handed'[j] = handed[j]
        BY <1>1, <3>4, <4>1, <4>2 DEF InOrder, HandedInOrder
      <4>3. CASE handed'[j].of = rx[n]
        BY <3>2, <4>1, <4>3
      <4>. QED
        BY <2>4, <4>2, <4>3
    <3>. QED
      BY <3>3, <3>4 DEF HandedInOrder
  <2>8. FaithfulIfAnswered'
    <3> SUFFICES ASSUME NEW i \in 1 .. Len(handed'),
                        handed'[i].answered, handed'[i].of.size # 10
                 PROVE  Faithful(handed'[i])
      BY <1>3 DEF FaithfulIfAnswered, Faithful
    <3>1. CASE i \in 1 .. Len(handed) /\ handed'[i] = handed[i]
      BY <1>1, <3>1 DEF FaithfulIfAnswered
    <3>2. CASE i = Len(handed) + 1
      <4>1. handed'[i] = message /\ answered /\ rx[n].size # 10
        BY <1>2, <2>2, <2>3, <3>2
      <4>2. rssi = deviceRssi
        BY <1>1, <4>1 DEF AnswersTrue
      <4>. QED
        BY <1>1, <1>9, <2>1, <4>1, <4>2, PayloadFaithfulIfAsked
    <3>. QED
      BY <2>4, <3>1, <3>2
  <2>. QED
    BY <1>1, <1>3, <1>7, <1>8, <2>5, <2>6, <2>7, <2>8
    DEF InOrder, Rising, AllBefore, HaveArrived
<1>10. CASE ~(rx[n].code = "telegram" /\ Published(rx[n]))
  <2>1. handed' = handed
    BY <1>2, <1>10 DEF Handed
  <2>. QED
    BY <1>1, <1>3, <1>7, <1>8, <2>1
    DEF InOrder, Rising, AllBefore, HaveArrived, HandedBefore, HandedInOrder,
        FaithfulIfAnswered, Faithful
<1>. QED
  BY <1>9, <1>10

\* The device appends to the driver's queue: an answer, which is true, or a
\* telegram, which is newer than all before it.
LEMMA DeviceIInv ==
    ASSUME IInv, DeviceReports \/ DeviceAnswers
    PROVE  InOrder' /\ AnswersTrue' /\ FaithfulIfAnswered'
<1>1. /\ InOrder /\ AnswersTrue /\ FaithfulIfAnswered
      /\ fromDevice \in Seq(Frames) /\ Len(fromDevice) \in Nat /\ arrived \in Nat
  BY ListenAssumption DEF IInv, TypeOK, Frames
<1>2. UNCHANGED <<rx, handed, deviceRssi, rssi, answered>>
  BY DEF DeviceReports, Report, DeviceAnswers, Handle, line, session, rssiEnabled, world
<1>3. /\ Rising(rx)' /\ HandedBefore(rx)' /\ FaithfulIfAnswered'
      /\ answered' => rssi' = deviceRssi'
  BY <1>1, <1>2
  DEF InOrder, AnswersTrue, FaithfulIfAnswered, Faithful, Rising, HandedBefore
<1>4. arrived <= arrived' /\ arrived' \in Nat
  BY <1>1 DEF DeviceReports, Arrive, DeviceAnswers, world
<1>5. HaveArrived(rx)' /\ HandedInOrder'
  <2>1. \A k \in 1 .. Len(rx) : IsTelegram(rx[k]) => rx[k].id <= arrived /\ rx[k].id \in Int
    BY <1>1, IdsAreNumbers DEF InOrder, HaveArrived, IInv
  <2>2. \A i \in 1 .. Len(handed) : handed[i].of.id <= arrived /\ handed[i].of.id \in Int
    BY <1>1, IdsAreNumbers DEF InOrder, HandedInOrder, IInv
  <2>3. HaveArrived(rx)'
    BY <1>1, <1>2, <1>4, <2>1 DEF HaveArrived
  <2>4. \A i \in 1 .. Len(handed) : handed[i].of.id <= arrived'
    BY <1>1, <1>4, <2>2
  <2>. QED
    BY <1>1, <1>2, <2>3, <2>4 DEF InOrder, HandedInOrder
<1>6. CASE UNCHANGED fromDevice
  <2>1. HaveArrived(fromDevice)'
    <3>1. \A k \in 1 .. Len(fromDevice) : IsTelegram(fromDevice[k]) =>
              fromDevice[k].id <= arrived /\ fromDevice[k].id \in Int
      BY <1>1, IdsAreNumbers DEF InOrder, HaveArrived, IInv
    <3>. QED
      BY <1>1, <1>4, <1>6, <3>1 DEF HaveArrived
  <2>. QED
    BY <1>1, <1>2, <1>3, <1>5, <1>6, <2>1
    DEF InOrder, AnswersTrue, Rising, AllBefore, HandedBefore
<1>7. ASSUME NEW frame \in Frames, fromDevice' = Append(fromDevice, frame),
             IsTelegram(frame) => frame.id = arrived + 1 /\ arrived' = arrived + 1,
             frame.code = "getResponse" => frame.enabled = deviceRssi
      PROVE  InOrder' /\ AnswersTrue' /\ FaithfulIfAnswered'
  <2>1. /\ Len(fromDevice') = Len(fromDevice) + 1
        /\ \A k \in 1 .. Len(fromDevice) : fromDevice'[k] = fromDevice[k]
        /\ fromDevice'[Len(fromDevice) + 1] = frame
    BY <1>1, <1>7, AppendOf
  <2>2. \A k \in 1 .. Len(fromDevice') :
            \/ k \in 1 .. Len(fromDevice) /\ fromDevice'[k] = fromDevice[k]
            \/ k = Len(fromDevice) + 1 /\ fromDevice'[k] = frame
    BY <1>1, <2>1
  <2>3. AnswersTrue'
    BY <1>1, <1>2, <1>3, <1>7, <2>2 DEF AnswersTrue
  <2>4. /\ \A k \in 1 .. Len(fromDevice) : IsTelegram(fromDevice[k]) =>
              fromDevice[k].id <= arrived /\ fromDevice[k].id \in Int
        /\ \A k \in 1 .. Len(rx) : IsTelegram(rx[k]) =>
              rx[k].id <= arrived /\ rx[k].id \in Int
        /\ \A i \in 1 .. Len(handed) :
              handed[i].of.id <= arrived /\ handed[i].of.id \in Int
    BY <1>1, IdsAreNumbers DEF InOrder, HaveArrived, HandedInOrder, IInv
  <2>5. Rising(fromDevice)'
    <3> SUFFICES ASSUME NEW j \in 1 .. Len(fromDevice'), NEW k \in 1 .. Len(fromDevice'),
                        j < k, IsTelegram(fromDevice'[j]), IsTelegram(fromDevice'[k])
                 PROVE  fromDevice'[j].id < fromDevice'[k].id
      BY DEF Rising
    <3>1. j \in 1 .. Len(fromDevice) /\ fromDevice'[j] = fromDevice[j]
      BY <1>1, <2>1
    <3>2. CASE k \in 1 .. Len(fromDevice) /\ fromDevice'[k] = fromDevice[k]
      BY <1>1, <3>1, <3>2 DEF InOrder, Rising
    <3>3. CASE fromDevice'[k] = frame
      BY <1>1, <1>7, <2>4, <3>1, <3>3
    <3>. QED
      BY <2>2, <3>2, <3>3
  <2>6. AllBefore(rx, fromDevice)'
    BY <1>1, <1>2, <1>7, <2>2, <2>4 DEF InOrder, AllBefore
  <2>7. HandedBefore(fromDevice)'
    BY <1>1, <1>2, <1>7, <2>2, <2>4 DEF InOrder, HandedBefore
  <2>8. HaveArrived(fromDevice)'
    BY <1>1, <1>4, <1>7, <2>2, <2>4 DEF HaveArrived
  <2>. QED
    BY <1>3, <1>5, <2>3, <2>5, <2>6, <2>7, <2>8 DEF InOrder
<1>8. CASE DeviceReports
  <2>1. arrived' = arrived + 1 /\ arrived' \in 1 .. MaxTelegrams
    BY <1>1, <1>8, ListenAssumption DEF DeviceReports, Arrive
  <2>2. PICK size \in Sizes, level \in Levels :
            \E frame \in {[code |-> "telegram", id |-> arrived + 1,
                           size |-> size, level |-> level]} \cup TornFrames :
               Report(frame) \/ UNCHANGED line
    BY <1>8 DEF DeviceReports
  <2> DEFINE telegram == [code |-> "telegram", id |-> arrived + 1,
                          size |-> size, level |-> level]
  <2>3. telegram \in Frames /\ telegram.id = arrived + 1 /\ telegram.code # "getResponse"
    BY <2>1 DEF Frames, Telegrams
  <2>4. PICK frame \in {telegram} \cup TornFrames : Report(frame) \/ UNCHANGED line
    BY <2>2
  <2>5. /\ frame \in Frames /\ frame.code # "getResponse"
        /\ IsTelegram(frame) => frame.id = arrived + 1
    BY <2>3, <2>4, TornKind
  <2>6. CASE UNCHANGED line
    BY <1>6, <2>6 DEF line
  <2>7. CASE Report(frame)
    BY <1>7, <2>1, <2>5, <2>7 DEF Report
  <2>. QED
    BY <2>4, <2>6, <2>7
<1>9. CASE DeviceAnswers
  <2> DEFINE frame == [code |-> "getResponse", enabled |-> deviceRssi]
  <2>1. frame \in Frames /\ ~IsTelegram(frame) /\ frame.enabled = deviceRssi
    BY DEF IInv, TypeOK, Frames, IsTelegram
  <2>2. fromDevice' = Append(fromDevice, frame)
    BY <1>1, <1>9, <2>1 DEF DeviceAnswers, Handle
  <2>. QED
    BY <1>7, <2>1, <2>2
<1>. QED
  BY <1>8, <1>9

LEMMA NextIInv ==
    ASSUME IInv, [Next]_vars
    PROVE  IInv'
<1>1. TypeOK'
  BY NextTypeOK DEF IInv
<1>2. CASE UNCHANGED vars
  <2>1. /\ UNCHANGED <<handed, arrived, deviceRssi, rssiEnabled>>
        /\ rx' = rx /\ fromDevice' = fromDevice
    BY <1>2 DEF vars, line, session, world
  <2>2. Rest(rx', rx) /\ Rest(fromDevice', fromDevice)
    BY <2>1, AllOrNothing
  <2>3. answered' => rssi' = deviceRssi
    BY <2>1 DEF IInv, AnswersTrue, rssiEnabled
  <2>. QED
    BY <1>1, <2>1, <2>2, <2>3, QueuesRest DEF IInv
<1>3. CASE ReadNothing
  BY <1>2, <1>3 DEF ReadNothing
<1>4. CASE Next /\ ~ReadNothing
  <2>1. InOrder' /\ AnswersTrue' /\ FaithfulIfAnswered'
    BY <1>4, QuietStepIInv, WaitingIInv, ReadingIInv, HandlingIInv, DeviceIInv DEF Next, Step, World
  <2>. QED
    BY <1>1, <2>1 DEF IInv
<1>. QED
  BY <1>2, <1>3, <1>4

\* No session break, flush or late answer makes the gateway misread a telegram
\* in a session in which the device has answered: payloadHex is the telegram and
\* the rssi the device's, to the half dB.
THEOREM ReadAsAnswered == Spec => []FaithfulIfAnswered
<1>1. IInv => FaithfulIfAnswered
  BY DEF IInv
<1>. QED
  BY <1>1, InitIInv, NextIInv, PTL DEF Spec

-----------------------------------------------------------------------------
(***************************************************************************)
(* Every step of the loop is a step of TelegramRelay, or none.             *)
(***************************************************************************)
PassedOn == [i \in 1 .. Len(handed) |-> handed[i].of.id]

LEMMA InitRefines == Init => Relay!Init
<1> SUFFICES ASSUME Init PROVE Relay!Init
  OBVIOUS
<1>1. Len(handed) = 0 /\ arrived = 0
  BY DEF Init
<1>2. PassedOn = <<>>
  BY <1>1 DEF PassedOn
<1>. QED
  BY <1>1, <1>2 DEF Relay!Init, PassedOn

LEMMA StepRefines ==
    ASSUME IInv, [Next]_vars
    PROVE  [Relay!Next]_(Relay!vars)
<1>1. CASE UNCHANGED <<handed, arrived>>
  <2>1. PassedOn' = PassedOn
    BY <1>1 DEF PassedOn
  <2>. QED
    BY <1>1, <2>1 DEF Relay!vars, PassedOn
<1>2. CASE HandleFrame
  <2>1. /\ TypeOK /\ InOrder /\ rx \in Seq(Frames)
        /\ handed \in Seq(Messages) /\ Len(handed) \in Nat
    BY DEF IInv, TypeOK, Frames, Messages
  <2>5. PICK n \in 1 .. Len(rx) : Handed(rx[n])
    BY <1>2 DEF HandleFrame
  <2>2. arrived' = arrived
    BY <1>2 DEF HandleFrame, world
  <2>3. CASE UNCHANGED handed
    BY <1>1, <2>2, <2>3
  <2>4. CASE rx[n].code = "telegram" /\ Published(rx[n])
    <3>1. rx[n] \in Frames
      BY <2>1
    <3>2. rx[n] \in Telegrams /\ IsTelegram(rx[n]) /\ ServerPayload(rx[n]) \in Messages
      BY <2>1, <2>4, <3>1, FrameKinds, PayloadType DEF IsTelegram
    <3>3. rx[n].id \in 1 .. arrived
      BY <2>1, <3>1, <3>2 DEF InOrder, HaveArrived, Telegrams, TypeOK
    <3>4. /\ Len(handed') = Len(handed) + 1
          /\ \A i \in 1 .. Len(handed) : handed'[i] = handed[i]
          /\ handed'[Len(handed) + 1].of = rx[n]
      BY <2>1, <2>4, <2>5, <3>2, AppendOf DEF Handed, ServerPayload
    <3>5. PassedOn \in Seq(Int) /\ Len(PassedOn) = Len(handed)
      BY <2>1, IdsAreNumbers DEF PassedOn
    <3>6. PassedOn' = Append(PassedOn, rx[n].id)
      <4>1. PassedOn' = [i \in 1 .. Len(handed) + 1 |-> handed'[i].of.id]
        BY <3>4 DEF PassedOn
      <4>2. \A i \in 1 .. Len(handed) + 1 :
                handed'[i].of.id = Append(PassedOn, rx[n].id)[i]
        BY <2>1, <3>3, <3>4, <3>5 DEF PassedOn
      <4>3. Append(PassedOn, rx[n].id)
                = [i \in 1 .. Len(handed) + 1 |-> Append(PassedOn, rx[n].id)[i]]
        BY <2>1, <3>3, <3>5
      <4>. QED
        BY <4>1, <4>2, <4>3
    <3>7. \A k \in 1 .. Len(PassedOn) : PassedOn[k] < rx[n].id
      BY <2>1, <3>1, <3>2, <3>5 DEF InOrder, HandedBefore, PassedOn
    <3>8. Relay!Pass
      BY <2>2, <3>3, <3>6, <3>7 DEF Relay!Pass, PassedOn
    <3>. QED
      BY <3>8 DEF Relay!Next
  <2>. QED
    BY <2>3, <2>4, <2>5 DEF Handed
<1>3. CASE handed' = handed /\ Arrive
  <2>1. PassedOn' = PassedOn
    BY <1>3 DEF PassedOn
  <2>. QED
    BY <1>3, <2>1 DEF Arrive, Relay!Next, Relay!Arrive, PassedOn
<1>4. CASE OpenPort \/ DeviceReports
  BY <1>1, <1>3, <1>4 DEF OpenPort, DeviceReports
<1>5. CASE ~(HandleFrame \/ OpenPort \/ DeviceReports)
  <2>1. UNCHANGED <<handed, arrived>>
    BY <1>5 DEF Next, Step, World, vars, world, session, OpenFails, Ask, WaitOn,
       Answered, NoAnswer, Read, ReadNothing, ReadFails, Leave, FramesDone, Signal, Tick,
       Lose, Unplug, Replug, DeviceAnswers
  <2>. QED
    BY <1>1, <2>1
<1>. QED
  BY <1>2, <1>4, <1>5

\* However sessions break and queues are flushed, mqtt.send is given telegrams
\* in the order of their arrival, and none of them twice.
THEOREM LoopImplementsRelay == Spec => ImplementsRelay
<1>. QED
  BY InitIInv, NextIInv, InitRefines, StepRefines, PTL DEF Spec, ImplementsRelay, Relay!Spec

-----------------------------------------------------------------------------
(***************************************************************************)
(* The loop inside the gateway.                                            *)
(***************************************************************************)
LEMMA StepOfLoop == [GatewayNext]_allVars => [Next]_vars
BY DEF GatewayNext, MainThread, Listen, Mqtt, Disconnect, LoopStop, Wait, NetworkThread,
       Reconnect, Outside, TimePasses, allVars, listenVars, Next

LEMMA LoopInvariance == GatewaySpec => []IInv
<1>1. GatewayInit => IInv
  BY InitIInv DEF GatewayInit
<1>2. IInv /\ [GatewayNext]_allVars => IInv'
  BY StepOfLoop, NextIInv
<1>. QED
  BY <1>1, <1>2, PTL DEF GatewaySpec

\* In the gateway as in the loop by itself: reading less often, because MQTT
\* blocks, makes it read nothing wrong.
THEOREM GatewayReadsAsAnswered == GatewaySpec => []FaithfulIfAnswered
<1>1. IInv => FaithfulIfAnswered
  BY DEF IInv
<1>. QED
  BY <1>1, LoopInvariance, PTL

\* Nor does it hand telegrams to mqtt.send twice or out of turn.
THEOREM GatewayImplementsRelay == GatewaySpec => ImplementsRelay
<1>1. GatewayInit => Relay!Init
  BY InitRefines DEF GatewayInit
<1>2. IInv /\ [GatewayNext]_allVars => [Relay!Next]_(Relay!vars)
  BY StepOfLoop, StepRefines
<1>. QED
  BY <1>1, <1>2, LoopInvariance, PTL DEF GatewaySpec, ImplementsRelay, Relay!Spec

-----------------------------------------------------------------------------
(***************************************************************************)
(* The client inside the gateway: until it is being destroyed, a step of   *)
(* the gateway is one of the client's, or none.                            *)
(***************************************************************************)
MP == INSTANCE MqttClientProofs WITH pc <- mpc

MInv == M!TypeOK /\ MP!Paced /\ MP!FlagDown

\* MP is the client that M is, and what it assumes is granted.
LEMMA MqttGranted == MP!MqttAssumption
BY ListenAssumption, GatewayAssumption DEF MP!MqttAssumption

LEMMA SameInv == MInv <=> MP!IInv
BY DEF MInv, MP!IInv, M!TypeOK, MP!TypeOK

LEMMA SameMain == M!Main => MP!Main
BY DEF M!Main, M!CheckConnected, M!CompareTime, M!Connect, M!ArmReconnect, M!SetConnected,
   M!Publish, M!Mark, M!MarkArm, M!AfterConnected, M!shared, M!library, M!ghosts,
   MP!Main, MP!CheckConnected, MP!CompareTime, MP!Connect, MP!ArmReconnect, MP!SetConnected,
   MP!Publish, MP!Mark, MP!MarkArm, MP!AfterConnected, MP!shared, MP!library, MP!ghosts

LEMMA SameStep == M!Next => MP!Next
BY SameMain
DEF M!Next, M!Telegram, M!Network, M!NoticeLoss, M!CallbackClears, M!CallbackArms,
    M!LibraryReconnects, M!Break, M!BrokerDown, M!BrokerUp, M!Tick,
    M!shared, M!library, M!ghosts,
    MP!Next, MP!Telegram, MP!Network, MP!NoticeLoss, MP!CallbackClears, MP!CallbackArms,
    MP!LibraryReconnects, MP!Break, MP!BrokerDown, MP!BrokerUp, MP!Tick,
    MP!shared, MP!library, MP!ghosts

LEMMA InitMInv == M!Init => MInv
<1>1. M!Init => MP!Init
  BY DEF M!Init, MP!Init
<1>. QED
  BY <1>1, SameInv, MqttGranted, MP!InitIInv

LEMMA StepMInv ==
    ASSUME MInv, M!Next \/ UNCHANGED mqttVars
    PROVE  MInv'
<1>1. MP!Next \/ UNCHANGED MP!vars
  BY SameStep DEF mqttVars, MP!vars, MP!shared, MP!library, MP!ghosts
<1>2. MP!IInv
  BY SameInv
<1>3. MP!IInv'
  BY <1>1, <1>2, MqttGranted, MP!StepIInv, Zenon
<1>. QED
  BY <1>3 DEF MInv, MP!IInv, M!TypeOK, MP!TypeOK

Gone == {"disconnected", "stop", "destroyed"}

LEMMA StepOfMqtt ==
    ASSUME [GatewayNext]_allVars
    PROVE  M!Next \/ UNCHANGED mqttVars \/ mpc' \in Gone
<1>1. CASE Disconnect \/ LoopStop
  BY <1>1 DEF Disconnect, LoopStop, Gone
<1>. QED
  BY <1>1 DEF GatewayNext, MainThread, Listen, Mqtt, Wait, NetworkThread, Reconnect,
     Outside, TimePasses, allVars, M!Next

\* The main thread does not come back from the destructor.
LEMMA StaysGone ==
    ASSUME mpc \in Gone, [GatewayNext]_allVars
    PROVE  mpc' \in Gone
<1>1. CASE M!Network \/ M!LibraryReconnects \/ M!Break \/ M!BrokerDown \/ M!BrokerUp
  BY <1>1 DEF M!Network, M!NoticeLoss, M!CallbackClears, M!CallbackArms,
     M!LibraryReconnects, M!Break, M!BrokerDown, M!BrokerUp
<1>2. CASE Disconnect \/ LoopStop
  BY <1>2 DEF Disconnect, LoopStop, Gone
<1>3. CASE UNCHANGED mqttVars
  BY <1>3 DEF mqttVars
<1>4. ~M!Main /\ ~Listen /\ ~TimePasses
  BY DEF Gone, M!Main, M!CheckConnected, M!CompareTime, M!Connect, M!ArmReconnect,
     M!SetConnected, M!Publish, M!Mark, M!MarkArm, Listen, TimePasses
<1>. QED
  BY <1>1, <1>2, <1>3, <1>4
  DEF GatewayNext, MainThread, Mqtt, Wait, NetworkThread, Reconnect, Outside, allVars

ClientInv == mpc \in Gone \/ MInv

LEMMA StepClientInv ==
    ASSUME ClientInv, [GatewayNext]_allVars
    PROVE  ClientInv'
BY StepOfMqtt, StaysGone, StepMInv DEF ClientInv

LEMMA ClientInvariance == GatewaySpec => []ClientInv
<1>1. GatewayInit => ClientInv
  BY InitMInv DEF GatewayInit, ClientInv
<1>. QED
  BY <1>1, StepClientInv, PTL DEF GatewaySpec

\* In the gateway as in the client by itself: telegrams that come in bursts,
\* sessions that end and a clock that two components share make it try a broker
\* that is away no sooner.
THEOREM GatewayAttemptsPaced == GatewaySpec => []M!RetriesPaced
<1>1. ClientInv => M!RetriesPaced
  BY DEF ClientInv, Gone, MInv, MP!Paced, M!RetriesPaced
<1>. QED
  BY <1>1, ClientInvariance, PTL

\* Nor do two telegrams in a row fail to be published for a flag that is stale.
THEOREM GatewayPublishFailsOnce == GatewaySpec => []M!FailsOnce
<1>1. ClientInv => M!FailsOnce
  BY DEF ClientInv, Gone, MInv, MP!FlagDown, M!FailsOnce
<1>. QED
  BY <1>1, ClientInvariance, PTL

-----------------------------------------------------------------------------
(***************************************************************************)
(* Both threads.                                                           *)
(***************************************************************************)
\* A send is under way: listen_loop is where it called mqtt.send.
Sends ==
    /\ mpc \in {"publish", "mark", "markArm"} => verb = "reconnected"
    /\ verb = "reconnected" => handed # <<>>
    /\ verb = "reconnected" /\ mpc \notin Gone \cup {"idle"} => pc = "frames"

\* What has reached the broker was handed on, and what is being sent has not.
BeforePublish ==
    verb = "reconnected" /\ mpc \in {"check", "compare", "connect", "armConnected",
                                     "set", "publish"}

PublishedInOrder ==
    /\ \A j, k \in 1 .. Len(published) : j < k => published[j] < published[k]
    /\ published # <<>> => handed # <<>>
    /\ BeforePublish => \A k \in 1 .. Len(published) : published[k] < Sending
    /\ ~BeforePublish => \A k \in 1 .. Len(published) : published[k] <= Sending

GInv == IInv /\ ClientInv /\ GatewayTypeOK /\ Sends /\ PublishedInOrder

LEMMA InitGInv == GatewayInit => GInv
<1> SUFFICES ASSUME GatewayInit PROVE GInv
  OBVIOUS
<1> USE DEF GatewayInit, M!Init
<1>1. IInv /\ TypeOK
  BY InitIInv DEF IInv
<1>2. ClientInv /\ M!TypeOK
  BY InitMInv DEF ClientInv, MInv
<1>3. published = <<>> /\ mpc = "check" /\ verb = "connected" /\ net = "loop"
  OBVIOUS
<1>. QED
  BY <1>1, <1>2, <1>3
  DEF GInv, GatewayTypeOK, Sends, PublishedInOrder, BeforePublish, Gone

LEMMA StepsOfLoopThread ==
    ASSUME Step \/ NoAnswer
    PROVE  /\ pc # "exited" /\ (handed' = handed \/ HandleFrame)
           /\ arrived' = arrived \/ arrived' = arrived + 1
BY DEF Step, OpenPort, Arrive, OpenFails, Ask, WaitOn, Answered, Read, HandleFrame,
   FramesDone, ReadFails, Leave, NoAnswer, world

LEMMA StepsAroundLoop ==
    ASSUME ReadNothing \/ Signal \/ World \/ Tick
    PROVE  pc' = pc /\ handed' = handed /\ (arrived' = arrived \/ arrived' = arrived + 1)
BY DEF ReadNothing, Signal, World, Tick, DeviceReports, Arrive, DeviceAnswers, Lose, Unplug,
   Replug, vars, session, world

\* The number of the telegram handed on last.
LEMMA SendingIsNumber ==
    ASSUME IInv, handed # <<>>
    PROVE  Sending \in 1 .. arrived /\ Sending \in 1 .. MaxTelegrams
<1>1. handed \in Seq(Messages) /\ Len(handed) \in 1 .. Len(handed) /\ arrived \in Nat
  BY ListenAssumption DEF IInv, TypeOK, Messages
<1>2. handed[Len(handed)].of \in Telegrams
  <2>1. \A message \in Messages : message.of \in Telegrams
    BY DEF Messages
  <2>. QED
    BY <1>1, <2>1
<1>3. Sending \in 1 .. MaxTelegrams
  BY <1>2 DEF Telegrams, Sending
<1>4. Sending <= arrived
  BY <1>1 DEF IInv, InOrder, HandedInOrder, Sending
<1>. QED
  BY <1>1, <1>3, <1>4, ListenAssumption

\* A step that is not the main thread's.
LEMMA AroundGInv ==
    ASSUME GInv, IInv', ClientInv', UNCHANGED <<pc, handed, mpc, verb, published>>,
           net' = net \/ {net, net'} \subseteq {"loop", "clear", "arm"}
    PROVE  GInv'
<1>1. PublishedInOrder'
  BY DEF GInv, PublishedInOrder, BeforePublish, Sending
<1>2. Sends'
  BY DEF GInv, Sends
<1>3. GatewayTypeOK'
  BY DEF GInv, GatewayTypeOK, IInv, ClientInv, MInv, Gone
<1>. QED
  BY <1>1, <1>2, <1>3 DEF GInv

LEMMA OthersGInv ==
    ASSUME GInv, IInv', ClientInv', NetworkThread \/ Reconnect \/ Outside \/ TimePasses
    PROVE  GInv'
<1>1. GatewayTypeOK
  BY DEF GInv
<1>2. CASE NetworkThread
  <2>1. UNCHANGED <<pc, handed, mpc, verb, published>> /\ M!Network
    BY <1>2 DEF NetworkThread, M!Network, M!NoticeLoss, M!CallbackClears, M!CallbackArms,
       M!shared, M!library, M!ghosts, listenVars, vars, session
  <2>2. net \in {"loop", "clear", "arm"} /\ net' \in {"loop", "clear", "arm"}
    BY <2>1 DEF M!Network, M!NoticeLoss, M!CallbackClears, M!CallbackArms
  <2>. QED
    BY <2>1, <2>2, AroundGInv
<1>3. CASE Reconnect
  <2>1. UNCHANGED <<pc, handed, mpc, verb, published, net>> /\ M!LibraryReconnects
    BY <1>3 DEF Reconnect, M!LibraryReconnects, listenVars, vars, session
  <2>. QED
    BY <2>1, AroundGInv
<1>4. CASE Outside
  <2>1. CASE (ReadNothing \/ Signal \/ World) /\ UNCHANGED <<mqttVars, published>>
    <3>1. UNCHANGED <<pc, handed, mpc, verb, published, net>>
      BY <2>1, StepsAroundLoop DEF mqttVars
    <3>. QED
      BY <3>1, AroundGInv
  <2>2. CASE (M!Break \/ M!BrokerDown \/ M!BrokerUp) /\ UNCHANGED <<listenVars, published>>
    <3>1. UNCHANGED <<pc, handed, mpc, verb, published, net>>
      BY <2>2 DEF M!Break, M!BrokerDown, M!BrokerUp, M!shared, M!ghosts, listenVars,
         vars, session
    <3>. QED
      BY <3>1, AroundGInv
  <2>. QED
    BY <1>4, <2>1, <2>2 DEF Outside
<1>5. CASE TimePasses
  <2>1. UNCHANGED <<pc, handed, published>>
    BY <1>5, StepsAroundLoop DEF TimePasses, listenVars, vars, session
  <2>2. M!Tick \/ UNCHANGED mqttVars
    BY <1>5 DEF TimePasses
  <2>3. UNCHANGED <<mpc, verb, net>>
    BY <2>2 DEF M!Tick, mqttVars
  <2>. QED
    BY <2>1, <2>3, AroundGInv
<1>. QED
  BY <1>2, <1>3, <1>4, <1>5

LEMMA EndGInv ==
    ASSUME GInv, IInv', ClientInv', Disconnect \/ LoopStop
    PROVE  GInv'
<1>1. UNCHANGED <<pc, handed, verb, published>> /\ pc = "exited"
  BY DEF Disconnect, LoopStop, listenVars, vars, session, GInv, GatewayTypeOK
<1>2. mpc' \in Gone /\ (mpc' = "destroyed" <=> net' = "joined")
  <2>1. CASE Disconnect
    BY <2>1 DEF Disconnect, Gone, GInv, GatewayTypeOK
  <2>2. CASE LoopStop
    BY <2>2 DEF LoopStop, Gone
  <2>. QED
    BY <2>1, <2>2
<1>3. mpc \in Gone \cup {"idle"}
  BY DEF Disconnect, LoopStop, Gone
<1>4. PublishedInOrder'
  BY <1>1, <1>2, <1>3 DEF GInv, PublishedInOrder, BeforePublish, Sending, Gone
<1>5. Sends'
  BY <1>1, <1>2 DEF GInv, Sends, Gone
<1>. QED
  BY <1>1, <1>2, <1>4, <1>5 DEF GInv, GatewayTypeOK, IInv, Gone

LEMMA ListenGInv ==
    ASSUME GInv, IInv', ClientInv', Listen \/ Wait
    PROVE  GInv'
<1>1. /\ mpc = "idle" /\ (Step \/ NoAnswer)
      /\ published' = published /\ pc # "exited" /\ (handed' = handed \/ HandleFrame)
      /\ GatewayTypeOK /\ Sends /\ PublishedInOrder
  BY StepsOfLoopThread DEF Listen, Wait, GInv
<1>2. M!TypeOK /\ net # "joined"
  BY <1>1 DEF GatewayTypeOK
<1>3. CASE UNCHANGED handed /\ UNCHANGED mqttVars
  <2>1. UNCHANGED <<mpc, verb, net>>
    BY <1>3 DEF mqttVars
  <2>2. M!TypeOK'
    BY <1>1, <2>1 DEF ClientInv, MInv, Gone
  <2>3. PublishedInOrder'
    BY <1>1, <1>3, <2>1 DEF PublishedInOrder, BeforePublish, Sending
  <2>4. Sends'
    BY <1>1, <1>3, <2>1 DEF Sends
  <2>. QED
    BY <1>1, <1>2, <2>1, <2>2, <2>3, <2>4 DEF GInv, GatewayTypeOK, IInv
<1>4. CASE HandleFrame /\ handed' # handed /\ M!Telegram
  <2>1. mpc' = "check" /\ verb' = "reconnected" /\ net' = net
    BY <1>4 DEF M!Telegram
  <2>2. M!TypeOK'
    BY <2>1 DEF ClientInv, MInv, Gone
  <2>3. pc' = "frames"
    BY <1>4 DEF HandleFrame, session
  <2>4. /\ Len(handed') = Len(handed) + 1 /\ Len(handed) \in Nat
        /\ \A i \in 1 .. Len(handed) : handed'[i] = handed[i]
        /\ handed'[Len(handed) + 1].of.id \in Int
    <3>1. rx \in Seq(Frames) /\ TypeOK /\ handed \in Seq(Messages)
      BY DEF GInv, IInv, TypeOK, Frames, Messages
    <3>2. PICK n \in 1 .. Len(rx) : Handed(rx[n])
      BY <1>4 DEF HandleFrame
    <3>3. rx[n].code = "telegram" /\ Published(rx[n]) /\ rx[n] \in Telegrams
      BY <1>4, <3>1, <3>2, FrameKinds DEF Handed, IsTelegram
    <3>4. ServerPayload(rx[n]) \in Messages /\ ServerPayload(rx[n]).of.id \in Int
      BY <3>1, <3>3, PayloadType DEF Telegrams, ServerPayload
    <3>. QED
      BY <3>1, <3>2, <3>3, <3>4, AppendOf DEF Handed
  <2>5. Sends'
    BY <2>1, <2>3, <2>4 DEF Sends
  <2>6. \A k \in 1 .. Len(published) : published[k] < Sending'
    <3> SUFFICES ASSUME NEW k \in 1 .. Len(published) PROVE published[k] < Sending'
      OBVIOUS
    <3>1. published # <<>> /\ handed # <<>>
      BY <1>1 DEF GatewayTypeOK, PublishedInOrder
    <3>2. published[k] <= Sending /\ published[k] \in Int
      <4>1. ~BeforePublish /\ published \in Seq(1 .. MaxTelegrams)
        BY <1>1 DEF BeforePublish, GatewayTypeOK
      <4>. QED
        BY <1>1, <4>1, ListenAssumption DEF PublishedInOrder
    <3>3. Len(handed) \in 1 .. Len(handed') /\ Len(handed) + 1 \in 1 .. Len(handed')
      <4>1. handed \in Seq(Messages)
        BY DEF GInv, IInv, TypeOK, Messages
      <4>. QED
        BY <2>4, <3>1, <4>1
    <3>4. handed'[Len(handed)].of.id < handed'[Len(handed) + 1].of.id
      BY <2>4, <3>3 DEF IInv, InOrder, HandedInOrder
    <3>5. Sending < Sending'
      BY <2>4, <3>3, <3>4 DEF Sending
    <3>6. Sending \in Int /\ Sending' \in Int
      <4>1. Sending \in 1 .. MaxTelegrams
        BY <3>1, SendingIsNumber DEF GInv
      <4>. QED
        BY <2>4, <4>1 DEF Sending
    <3>. QED
      BY <3>2, <3>5, <3>6
  <2>7. PublishedInOrder'
    BY <1>1, <2>1, <2>4, <2>6 DEF PublishedInOrder, BeforePublish
  <2>. QED
    BY <1>1, <1>2, <2>1, <2>2, <2>3, <2>5, <2>7 DEF GInv, GatewayTypeOK, IInv
<1>. QED
  BY <1>1, <1>3, <1>4 DEF Listen, Wait, NoAnswer

\* start and send: the one step that matters is the publish.
LEMMA MqttGInv ==
    ASSUME GInv, IInv', ClientInv', Mqtt
    PROVE  GInv'
<1>1. /\ UNCHANGED <<pc, handed, verb, net>> /\ M!Main /\ mpc \notin Gone
      /\ GatewayTypeOK /\ M!TypeOK /\ Sends /\ PublishedInOrder
  <2>1. UNCHANGED <<pc, handed>> /\ M!Main
    BY DEF Mqtt, listenVars, vars, session
  <2>2. mpc \notin Gone /\ UNCHANGED <<verb, net>>
    BY <2>1 DEF M!Main, M!CheckConnected, M!CompareTime, M!Connect, M!ArmReconnect,
       M!SetConnected, M!Publish, M!Mark, M!MarkArm, Gone
  <2>. QED
    BY <2>1, <2>2 DEF GInv, GatewayTypeOK, Gone
<1>2. mpc' \notin Gone
  BY <1>1 DEF M!Main, M!CheckConnected, M!CompareTime, M!Connect, M!ArmReconnect,
     M!SetConnected, M!Publish, M!Mark, M!MarkArm, M!AfterConnected, Gone
<1>3. M!TypeOK'
  BY <1>2 DEF ClientInv, MInv
<1>4. Sends'
  BY <1>1
  DEF Sends, M!TypeOK, M!Main, M!CheckConnected, M!CompareTime, M!Connect, M!ArmReconnect,
      M!SetConnected, M!Publish, M!Mark, M!MarkArm, M!AfterConnected, Gone
<1>5. CASE M!Publish
  <2>1. mpc = "publish" /\ BeforePublish /\ ~BeforePublish' /\ handed # <<>>
    BY <1>1, <1>5 DEF M!Publish, BeforePublish, Sends
  <2>2. /\ Sending \in 1 .. MaxTelegrams /\ Sending' = Sending
        /\ published \in Seq(1 .. MaxTelegrams)
        /\ \A k \in 1 .. Len(published) : published[k] < Sending
        /\ \A j, k \in 1 .. Len(published) : j < k => published[j] < published[k]
    BY <1>1, <2>1, SendingIsNumber
    DEF GInv, GatewayTypeOK, PublishedInOrder, Sending
  <2>3. CASE published' = Append(published, Sending)
    <3>1. /\ published' \in Seq(1 .. MaxTelegrams)
          /\ Len(published') = Len(published) + 1
          /\ \A k \in 1 .. Len(published) : published'[k] = published[k]
          /\ published'[Len(published) + 1] = Sending
      BY <2>2, <2>3, AppendOf
    <3>2. /\ \A k \in 1 .. Len(published') : published'[k] <= Sending
          /\ \A j, k \in 1 .. Len(published') : j < k => published'[j] < published'[k]
      <4>1. \A k \in 1 .. Len(published') :
                \/ k \in 1 .. Len(published) /\ published'[k] = published[k]
                \/ k = Len(published) + 1 /\ published'[k] = Sending
        BY <2>2, <3>1
      <4>2. \A k \in 1 .. Len(published') : published'[k] <= Sending
        <5>1. Sending \in Int /\ Sending <= Sending
          BY <2>2, ListenAssumption
        <5>2. \A k \in 1 .. Len(published) : published[k] <= Sending
          <6>1. \A k \in 1 .. Len(published) : published[k] \in Int
            BY <2>2, ListenAssumption
          <6>. QED
            BY <2>2, <5>1, <6>1
        <5>. QED
          BY <4>1, <5>1, <5>2
      <4>3. ASSUME NEW j \in 1 .. Len(published'), NEW k \in 1 .. Len(published'), j < k
            PROVE  published'[j] < published'[k]
        <5>1. j \in 1 .. Len(published) /\ published'[j] = published[j]
          BY <2>2, <3>1, <4>3
        <5>. QED
          BY <2>2, <4>1, <4>3, <5>1
      <4>. QED
        BY <4>2, <4>3
    <3>3. PublishedInOrder'
      BY <1>1, <2>1, <2>2, <3>2 DEF PublishedInOrder
    <3>. QED
      BY <1>1, <1>2, <1>3, <1>4, <3>1, <3>3 DEF GInv, GatewayTypeOK, IInv, Gone, Sends
  <2>4. CASE published' = published
    <3>1. \A k \in 1 .. Len(published) : published[k] <= Sending
      BY <2>2, ListenAssumption
    <3>2. PublishedInOrder'
      BY <1>1, <2>1, <2>2, <2>4, <3>1 DEF PublishedInOrder
    <3>. QED
      BY <1>1, <1>2, <1>3, <1>4, <2>4, <3>2 DEF GInv, GatewayTypeOK, IInv, Gone, Sends
  <2>. QED
    BY <2>3, <2>4 DEF Mqtt
<1>6. CASE ~M!Publish
  <2>1. published' = published /\ mpc # "publish"
    <3>1. mpc # "publish"
      BY <1>1, <1>6 DEF M!Main, M!CheckConnected, M!CompareTime, M!Connect,
         M!ArmReconnect, M!SetConnected, M!Mark, M!MarkArm
    <3>. QED
      BY <3>1 DEF Mqtt
  <2>2. BeforePublish' => BeforePublish
    BY <1>1, <1>6
    DEF BeforePublish, M!Main, M!CheckConnected, M!CompareTime, M!Connect,
        M!ArmReconnect, M!SetConnected, M!Mark, M!MarkArm, M!AfterConnected
  <2>3. published # <<>> => Sending \in 1 .. MaxTelegrams
    BY <1>1, SendingIsNumber DEF PublishedInOrder, GInv
  <2>4. /\ ~BeforePublish' => \A k \in 1 .. Len(published) : published[k] <= Sending
        /\ BeforePublish' => \A k \in 1 .. Len(published) : published[k] < Sending
    <3>1. published \in Seq(1 .. MaxTelegrams)
      BY <1>1 DEF GatewayTypeOK
    <3>2. ASSUME BeforePublish, NEW k \in 1 .. Len(published)
          PROVE  published[k] <= Sending /\ published[k] < Sending
      <4>1. published[k] < Sending /\ published # <<>>
        BY <1>1, <3>1, <3>2 DEF PublishedInOrder
      <4>2. published[k] \in Int /\ Sending \in Int
        BY <2>3, <3>1, <4>1, ListenAssumption
      <4>. QED
        BY <4>1, <4>2
    <3>. QED
      BY <1>1, <2>2, <3>2 DEF PublishedInOrder
  <2>5. PublishedInOrder'
    BY <1>1, <2>1, <2>4 DEF PublishedInOrder, Sending
  <2>. QED
    BY <1>1, <1>2, <1>3, <1>4, <2>1, <2>5 DEF GInv, GatewayTypeOK, IInv, Gone, Sends
<1>. QED
  BY <1>5, <1>6

LEMMA GatewayInvariance == GatewaySpec => []GInv
<1>1. GInv /\ [GatewayNext]_allVars => GInv'
  <2> SUFFICES ASSUME GInv, [GatewayNext]_allVars PROVE GInv'
    OBVIOUS
  <2>1. IInv'
    BY StepOfLoop, NextIInv DEF GInv
  <2>3. ClientInv'
    BY StepClientInv DEF GInv
  <2>2. CASE UNCHANGED allVars
    <3>1. /\ UNCHANGED <<pc, handed, mpc, verb, published, net>>
          /\ UNCHANGED mqttVars
      BY <2>2 DEF allVars, listenVars, vars, session, mqttVars
    <3>. QED
      BY <2>1, <2>3, <3>1, AroundGInv
  <2>. QED
    BY <2>1, <2>2, <2>3, ListenGInv, MqttGInv, EndGInv, OthersGInv DEF GatewayNext, MainThread
<1>. QED
  BY <1>1, InitGInv, PTL DEF GatewaySpec

\* The main thread is in mqtt.send only where listen_loop called it, the client
\* is destroyed only after the loop, and no callback outlives it.
THEOREM GatewayTypeCorrect == GatewaySpec => []GatewayTypeOK
<1>1. GInv => GatewayTypeOK
  BY DEF GInv
<1>. QED
  BY <1>1, GatewayInvariance, PTL

\* No telegram reaches the broker twice or out of turn, whatever connections
\* break and are replaced while it is being sent.
THEOREM GatewayPublishesInOrder == GatewaySpec => PublishesInOrder
<1>1. GatewayInit => ToBroker!Init
  BY DEF GatewayInit, Init, ToBroker!Init
<1>2. GInv /\ [GatewayNext]_allVars => [ToBroker!Next]_(ToBroker!vars)
  <2> SUFFICES ASSUME GInv, [GatewayNext]_allVars
               PROVE  [ToBroker!Next]_(ToBroker!vars)
    OBVIOUS
  <2>1. CASE published' = published /\ (arrived' = arrived \/ arrived' = arrived + 1)
    BY <2>1 DEF ToBroker!Next, ToBroker!Arrive, ToBroker!vars
  <2>2. CASE Mqtt
    <3>1. arrived' = arrived
      BY <2>2 DEF Mqtt, listenVars, vars, world
    <3>2. CASE mpc = "publish" /\ socket /\ alive
      <4>1. published' = Append(published, Sending) /\ BeforePublish /\ handed # <<>>
        BY <2>2, <3>2 DEF Mqtt, GInv, Sends, BeforePublish
      <4>2. Sending \in 1 .. arrived
        BY <4>1, SendingIsNumber DEF GInv
      <4>3. \A k \in 1 .. Len(published) : published[k] < Sending
        BY <4>1 DEF GInv, PublishedInOrder
      <4>. QED
        BY <3>1, <4>1, <4>2, <4>3 DEF ToBroker!Next, ToBroker!Pass
    <3>3. CASE ~(mpc = "publish" /\ socket /\ alive)
      BY <2>1, <2>2, <3>1, <3>3 DEF Mqtt
    <3>. QED
      BY <3>2, <3>3
  <2>3. CASE ~Mqtt
    <3>1. published' = published
      BY <2>3 DEF GatewayNext, MainThread, Listen, Wait, Disconnect, LoopStop,
         NetworkThread, Reconnect, Outside, TimePasses, allVars
    <3>2. arrived' = arrived \/ arrived' = arrived + 1
      BY <2>3, StepsOfLoopThread, StepsAroundLoop
      DEF GatewayNext, MainThread, Listen, Wait, Disconnect, LoopStop, NetworkThread,
          Reconnect, Outside, TimePasses, allVars, listenVars, vars, world
    <3>. QED
      BY <2>1, <3>1, <3>2
  <2>. QED
    BY <2>2, <2>3
<1>. QED
  BY <1>1, <1>2, GatewayInvariance, PTL DEF GatewaySpec, PublishesInOrder, ToBroker!Spec
=============================================================================
