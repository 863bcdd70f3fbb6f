-------------------------- MODULE MqttClientProofs --------------------------
(***************************************************************************)
(* Proofs about MqttClient, for every interval and every number of breaks. *)
(* Nothing here assumes how the steps of its two threads mix.              *)
(***************************************************************************)
EXTENDS MqttClient, TLAPS

\* The time still to wait and the time waited since the last attempt make up
\* a whole interval, except just after an attempt, before it is rearmed.
Paced ==
    /\ pc \notin {"connect", "armConnected", "armFailed"} => wait + sinceTry >= Interval
    /\ pc = "connect" => sinceTry = Interval

\* A failed publish is remembered only while it is being dealt with or the
\* flag is down.
FlagDown ==
    /\ failed => pc = "mark" \/ ~connected
    /\ pc = "publish" => ~failed

IInv == TypeOK /\ Paced /\ FlagDown

LEMMA InitIInv == Init => IInv
<1> SUFFICES ASSUME Init
             PROVE  IInv
  OBVIOUS
<1> USE MqttAssumption
<1>1. wait \in 0 .. Interval /\ sinceTry \in 0 .. Interval /\ drops \in 0 .. MaxDrops
  BY DEF Init
<1>2. /\ connected \in BOOLEAN /\ socket \in BOOLEAN /\ alive \in BOOLEAN
      /\ broker \in BOOLEAN /\ failed \in BOOLEAN /\ ~failed
  BY Zenon DEF Init
<1>3. pc = "check" /\ verb = "connected" /\ net = "loop" /\ wait + sinceTry >= Interval
  BY DEF Init
<1>. QED
  BY <1>1, <1>2, <1>3 DEF IInv, TypeOK, Paced, FlagDown

LEMMA MainIInv ==
    ASSUME IInv, Main
    PROVE  IInv'
<1> USE MqttAssumption DEF IInv, TypeOK, Paced, FlagDown
<1>1. CASE CheckConnected
  BY <1>1 DEF CheckConnected, AfterConnected, shared, library, ghosts
<1>2. CASE CompareTime
  BY <1>2 DEF CompareTime, shared, library, ghosts
<1>3. CASE Connect
  BY <1>3 DEF Connect, shared
<1>4. CASE ArmReconnect
  BY <1>4 DEF ArmReconnect, library, ghosts
<1>5. CASE SetConnected
  BY <1>5 DEF SetConnected, AfterConnected, library
<1>6. CASE Publish
  BY <1>6 DEF Publish, shared, library
<1>7. CASE Mark
  BY <1>7 DEF Mark, library, ghosts
<1>8. CASE MarkArm
  BY <1>8 DEF MarkArm, library, ghosts
<1>. QED
  BY <1>1, <1>2, <1>3, <1>4, <1>5, <1>6, <1>7, <1>8 DEF Main

LEMMA OthersIInv ==
    ASSUME IInv, Telegram \/ Network \/ LibraryReconnects
                 \/ Break \/ BrokerDown \/ BrokerUp \/ Tick
    PROVE  IInv'
<1> USE MqttAssumption DEF IInv, TypeOK, Paced, FlagDown
<1>1. CASE Telegram
  BY <1>1 DEF Telegram, shared, library, ghosts
<1>2. CASE NoticeLoss
  BY <1>2 DEF NoticeLoss, shared, ghosts
<1>3. CASE CallbackClears
  BY <1>3 DEF CallbackClears, library, ghosts
<1>4. CASE CallbackArms
  BY <1>4 DEF CallbackArms, library, ghosts
<1>5. CASE LibraryReconnects
  BY <1>5 DEF LibraryReconnects, shared, ghosts
<1>6. CASE Break \/ BrokerDown
  <2>1. drops' \in 0 .. MaxDrops
    BY <1>6 DEF Break, BrokerDown
  <2>2. /\ alive' \in BOOLEAN /\ broker' \in BOOLEAN
        /\ UNCHANGED <<pc, verb, net, connected, wait, socket, sinceTry, failed>>
    BY <1>6, Zenon DEF Break, BrokerDown, shared, ghosts
  <2>. QED
    BY <2>1, <2>2
<1>7. CASE BrokerUp
  BY <1>7 DEF BrokerUp, shared, ghosts
<1>8. CASE Tick
  BY <1>8 DEF Tick, library
<1>. QED
  BY <1>1, <1>2, <1>3, <1>4, <1>5, <1>6, <1>7, <1>8 DEF Network

LEMMA StepIInv ==
    ASSUME IInv, Next \/ UNCHANGED vars
    PROVE  IInv'
<1>1. CASE UNCHANGED vars
  BY <1>1 DEF IInv, TypeOK, Paced, FlagDown, vars, shared, library, ghosts
<1>. QED
  BY <1>1, MainIInv, OthersIInv DEF Next

LEMMA Invariance == Spec => []IInv
<1>1. IInv /\ [Next]_vars => IInv'
  BY StepIInv DEF vars, shared, library, ghosts
<1>. QED
  BY <1>1, InitIInv, PTL DEF Spec

\* The fields of MqttClient and the threads' places keep their types; the
\* time to the next attempt never exceeds one interval.
THEOREM TypeCorrect == Spec => []TypeOK
<1>1. IInv => TypeOK
  BY DEF IInv
<1>. QED
  BY <1>1, Invariance, PTL

\* However the accesses of the two threads to m_next_reconnect_ms interleave,
\* the client leaves a whole interval between connection attempts.
THEOREM AttemptsPaced == Spec => []RetriesPaced
<1>1. IInv => RetriesPaced
  BY DEF IInv, Paced, RetriesPaced
<1>. QED
  BY <1>1, Invariance, PTL

\* However stale m_connected is, no two publishes fail without a successful
\* connect between them.
THEOREM PublishFailsOnce == Spec => []FailsOnce
<1>1. IInv => FailsOnce
  BY DEF IInv, FlagDown, FailsOnce
<1>. QED
  BY <1>1, Invariance, PTL
=============================================================================
