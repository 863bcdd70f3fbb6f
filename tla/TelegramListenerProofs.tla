----------------------- MODULE TelegramListenerProofs -----------------------
(***************************************************************************)
(* Proofs about the composed C# gateway, for every interval, queue length  *)
(* and number of faults.  The part of the invariant that is about the      *)
(* transport is preserved by the transport's actions whoever calls it, and *)
(* the listener touches the transport only through CallSend and the clock. *)
(***************************************************************************)
EXTENDS TelegramListener, TLAPS

\* The time still to wait and the time waited since the last attempt make up
\* a whole interval, except just after an attempt, before Arm.
Paced ==
    /\ at \notin {"connect", "armConnected", "armFailed"} => wait + sinceTry >= Interval
    /\ at = "connect" => sinceTry = Interval

\* A failed publish is remembered only while it is being dealt with or the
\* connection is down.
GivenUp ==
    /\ failed => at \in {"armAfterFailure", "disconnect"} \/ status # "connected"
    /\ at \in {"publish", "armConnected"} => ~failed

TransportInv == TransportTypeOK /\ Paced /\ GivenUp

\* The rest of TypeOK.
ListenerTypeOK ==
    /\ pc \in {"start", "head", "ask", "read", "nap", "frames", "send", "threw",
               "backoff", "returned", "faulted"}
    /\ stream \in {"closed", "open", "hungup"} /\ pause \in 0 .. Interval
    /\ queued \in 0 .. MaxQueue /\ received \in 0 .. MaxQueue
    /\ plugged \in BOOLEAN /\ unplugs \in 0 .. MaxUnplugs
    /\ at # "idle" => pc \in {"start", "send"}
    /\ pc \in {"start", "head", "backoff", "returned", "faulted"} => stream = "closed"

IInv == TransportInv /\ ListenerTypeOK

-----------------------------------------------------------------------------
LEMMA InitIInv == Init => IInv
<1> SUFFICES ASSUME Init
             PROVE  IInv
  OBVIOUS
<1>1. /\ wait \in 0 .. Interval /\ sinceTry \in 0 .. Interval /\ drops \in 0 .. MaxDrops
      /\ handlers \in 0 .. 2 /\ wait + sinceTry >= Interval
  BY TransportAssumption DEF Init, TransportInit
<1>2. /\ pause \in 0 .. Interval /\ queued \in 0 .. MaxQueue /\ received \in 0 .. MaxQueue
      /\ unplugs \in 0 .. MaxUnplugs
  BY TransportAssumption, ListenerAssumption DEF Init
<1>3. /\ cancelled \in BOOLEAN /\ alive \in BOOLEAN /\ broker \in BOOLEAN
      /\ plugged \in BOOLEAN /\ failed \in BOOLEAN /\ ~failed
  BY Zenon DEF Init, TransportInit
<1>4. /\ at = "check" /\ verb = "connected" /\ status = "disconnected"
      /\ pc = "start" /\ stream = "closed"
  BY DEF Init, TransportInit
<1>. QED
  BY <1>1, <1>2, <1>3, <1>4
     DEF IInv, TransportInv, TransportTypeOK, Paced, GivenUp, ListenerTypeOK

LEMMA HandlerDueTyped ==
    ASSUME handlers \in 0 .. 2, HandlerDue
    PROVE  handlers' \in 0 .. 2
BY DEF HandlerDue

LEMMA CallersTask ==
    ASSUME TransportInv, Transport
    PROVE  TransportInv'
<1> USE TransportAssumption DEF TransportInv, TransportTypeOK, Paced, GivenUp
<1>1. CASE CheckConnected
  BY <1>1 DEF CheckConnected, AfterConnected, mqttnet, outside, ghosts
<1>2. CASE CompareTime
  BY <1>2 DEF CompareTime, mqttnet, outside, ghosts
<1>3. CASE Connect
  <2>1. /\ status' = "connected" /\ alive' \in BOOLEAN /\ failed' \in BOOLEAN /\ ~failed'
        /\ UNCHANGED <<verb, wait, cancelled, handlers, outside>>
    BY <1>3, Zenon DEF Connect
  <2>2. at' = "armConnected" /\ sinceTry' = 0
    BY <1>3 DEF Connect
  <2>. QED
    BY <2>1, <2>2 DEF outside
<1>4. CASE ConnectThrows
  <2>1. handlers' \in 0 .. 2
    BY <1>4, HandlerDueTyped DEF ConnectThrows
  <2>. QED
    BY <1>4, <2>1 DEF ConnectThrows, outside
<1>5. CASE Arm
  BY <1>5 DEF Arm, AfterConnected, mqttnet, outside, ghosts
<1>6. CASE Publish
  BY <1>6 DEF Publish, mqttnet, outside, ghosts
<1>7. CASE PublishThrows
  BY <1>7 DEF PublishThrows, mqttnet, outside
<1>8. CASE ArmAfterFailure
  BY <1>8 DEF ArmAfterFailure, mqttnet, outside, ghosts
<1>9. CASE Disconnect
  <2>1. handlers' \in 0 .. 2
    BY <1>9, HandlerDueTyped DEF Disconnect, mqttnet
  <2>2. status' \in {"disconnected", "disconnecting"} /\ alive' \in BOOLEAN
    BY <1>9 DEF Disconnect, mqttnet
  <2>. QED
    BY <1>9, <2>1, <2>2 DEF Disconnect, outside, ghosts
<1>. QED
  BY <1>1, <1>2, <1>3, <1>4, <1>5, <1>6, <1>7, <1>8, <1>9 DEF Transport

LEMMA OtherTasks ==
    ASSUME TransportInv, Others
    PROVE  TransportInv' /\ UNCHANGED at
<1> USE TransportAssumption DEF TransportInv, TransportTypeOK, Paced, GivenUp
<1>1. CASE NoticeLoss
  BY <1>1 DEF NoticeLoss, outside, ghosts
<1>2. CASE CleanUp
  <2>1. handlers' \in 0 .. 2
    BY <1>2, HandlerDueTyped DEF CleanUp
  <2>. QED
    BY <1>2, <2>1 DEF CleanUp, outside, ghosts
<1>3. CASE Handler
  BY <1>3 DEF Handler, outside, ghosts
<1>4. CASE Break
  <2>1. drops' \in 0 .. MaxDrops
    BY <1>4 DEF Break
  <2>2. /\ alive' \in BOOLEAN
        /\ UNCHANGED <<at, verb, wait, cancelled, status, handlers, broker, ghosts>>
    BY <1>4, Zenon DEF Break
  <2>. QED
    BY <2>1, <2>2 DEF ghosts
<1>5. CASE BrokerDown
  <2>1. drops' \in 0 .. MaxDrops
    BY <1>5 DEF BrokerDown
  <2>2. /\ alive' \in BOOLEAN /\ broker' \in BOOLEAN
        /\ UNCHANGED <<at, verb, wait, cancelled, status, handlers, ghosts>>
    BY <1>5, Zenon DEF BrokerDown
  <2>. QED
    BY <2>1, <2>2 DEF ghosts
<1>6. CASE BrokerUp
  BY <1>6 DEF BrokerUp, mqttnet, ghosts
<1>. QED
  BY <1>1, <1>2, <1>3, <1>4, <1>5, <1>6 DEF Others

LEMMA ListenerIInv ==
    ASSUME IInv, Listener
    PROVE  IInv'
<1> USE TransportAssumption, ListenerAssumption DEF IInv, ListenerTypeOK
<1>1. CASE Handle
  <2>1. TransportInv'
    BY <1>1 DEF Handle, CallSend, TransportInv, TransportTypeOK, Paced, GivenUp,
                mqttnet, outside, ghosts
  <2>. QED
    BY <1>1, <2>1 DEF Handle, CallSend, port
<1>2. ASSUME UNCHANGED transport
      PROVE  TransportInv' /\ UNCHANGED at
  BY <1>2 DEF transport, mqttnet, outside, ghosts, TransportInv, TransportTypeOK, Paced, GivenUp
<1>3. CASE Started
  BY <1>2, <1>3 DEF Started, session, port
<1>4. CASE Open
  BY <1>2, <1>4 DEF Open, port
<1>5. CASE Asked
  BY <1>2, <1>5 DEF Asked, port
<1>6. CASE Read
  BY <1>2, <1>6 DEF Read, port
<1>7. CASE ReadNothing
  BY <1>2, <1>7 DEF ReadNothing, session, port
<1>8. CASE ReadThrows
  BY <1>2, <1>8 DEF ReadThrows, session, port
<1>9. CASE Nap
  BY <1>2, <1>9 DEF Nap, port
<1>10. CASE Sent
  BY <1>2, <1>10 DEF Sent, session, port
<1>11. CASE FramesDone
  BY <1>2, <1>11 DEF FramesDone, session, port
<1>12. CASE Catch
  BY <1>2, <1>12 DEF Catch, port
<1>13. CASE Backoff
  BY <1>2, <1>13 DEF Backoff, session, port
<1>14. CASE Leave
  BY <1>2, <1>14 DEF Leave, port
<1>. QED
  BY <1>1, <1>3, <1>4, <1>5, <1>6, <1>7, <1>8, <1>9, <1>10, <1>11, <1>12, <1>13, <1>14
     DEF Listener

LEMMA EnvironmentIInv ==
    ASSUME IInv, Cancel \/ Report \/ Unplug \/ Replug \/ Tick
    PROVE  IInv'
<1> USE TransportAssumption, ListenerAssumption DEF IInv, ListenerTypeOK
<1>1. ASSUME UNCHANGED transport
      PROVE  TransportInv' /\ UNCHANGED at
  BY <1>1 DEF transport, mqttnet, outside, ghosts, TransportInv, TransportTypeOK, Paced, GivenUp
<1>2. CASE Cancel
  BY <1>2 DEF Cancel, TransportInv, TransportTypeOK, Paced, GivenUp,
              mqttnet, outside, ghosts, session, port
<1>3. CASE Report
  BY <1>1, <1>3 DEF Report, port
<1>4. CASE Unplug
  <2>1. unplugs' \in 0 .. MaxUnplugs /\ queued' \in 0 .. MaxQueue
    BY <1>4 DEF Unplug
  <2>2. plugged' \in BOOLEAN
    BY <1>4, Zenon DEF Unplug
  <2>3. /\ stream' = IF stream = "open" THEN "hungup" ELSE stream
        /\ UNCHANGED <<transport, pc, pause, received>>
    BY <1>4 DEF Unplug
  <2>. QED
    BY <1>1, <2>1, <2>2, <2>3
<1>5. CASE Replug
  BY <1>1, <1>5 DEF Replug, session
<1>6. CASE Tick
  <2>1. TransportInv' /\ UNCHANGED at
    BY <1>6 DEF Tick, TimePasses, TransportInv, TransportTypeOK, Paced, GivenUp,
                mqttnet, outside
  <2>. QED
    BY <1>6, <2>1 DEF Tick, port
<1>. QED
  BY <1>2, <1>3, <1>4, <1>5, <1>6

LEMMA Invariance == Spec => []IInv
<1>1. ASSUME IInv, [Next]_vars PROVE IInv'
  <2>1. CASE Transport /\ UNCHANGED <<pc, session, port>>
    <3>1. TransportInv' /\ at # "idle"
      BY <1>1, <2>1, CallersTask
         DEF IInv, Transport, CheckConnected, CompareTime, Connect, ConnectThrows, Arm,
             Publish, PublishThrows, ArmAfterFailure, Disconnect
    <3>. QED
      BY <1>1, <2>1, <3>1 DEF IInv, ListenerTypeOK, session, port
  <2>2. CASE Surroundings
    BY <1>1, <2>2, OtherTasks DEF IInv, ListenerTypeOK, Surroundings, session, port
  <2>3. CASE UNCHANGED vars
    BY <1>1, <2>3
       DEF vars, transport, mqttnet, outside, ghosts, session, port,
           IInv, ListenerTypeOK, TransportInv, TransportTypeOK, Paced, GivenUp
  <2>. QED
    BY <1>1, <2>1, <2>2, <2>3, ListenerIInv, EnvironmentIInv DEF Next, Task
<1>. QED
  BY <1>1, InitIInv, PTL DEF Spec

\* Wherever the gateway is, its fields and MQTTnet's keep their types; the
\* caller is in the transport only while it awaits it, and no stream outlives
\* the session it was opened in.
THEOREM TypeCorrect == Spec => []TypeOK
<1>1. IInv => TypeOK
  BY DEF IInv, TransportInv, ListenerTypeOK, TypeOK
<1>. QED
  BY <1>1, Invariance, PTL

\* However late and however often the DisconnectedAsync handler overwrites
\* _nextReconnectAttemptUtc, attempts are a whole interval apart.
THEOREM AttemptsPaced == Spec => []RetriesPaced
<1>1. IInv => RetriesPaced
  BY DEF IInv, TransportInv, Paced, RetriesPaced
<1>. QED
  BY <1>1, Invariance, PTL

\* A connection on which PublishAsync threw is not published on again, even
\* if IsConnected was still true.
THEOREM PublishFailsOnce == Spec => []FailsOnce
<1>1. IInv => FailsOnce
  BY DEF IInv, TransportInv, GivenUp, FailsOnce
<1>. QED
  BY <1>1, Invariance, PTL
=============================================================================
