--------------------------- MODULE ServerTransport ---------------------------
(***************************************************************************)
(* The C# MQTT transport (SendToServerWithMqttService.cs): StartAsync and  *)
(* SendAsync, one at a time, on the task that calls them, and the handler  *)
(* of DisconnectedAsync, which MQTTnet runs on a task of its own some time *)
(* after the fact. Unlike the C++ client it keeps no flag: IsConnected is  *)
(* MQTTnet's. Each await and each access to _nextReconnectAttemptUtc is a  *)
(* step. The deadline is one of the wall clock (UtcNow), which is assumed  *)
(* not to be set while the gateway runs. The caller's actions are in       *)
(* TelegramListener.                                                       *)
(***************************************************************************)
EXTENDS Integers

CONSTANTS Interval,  \* ReconnectInterval, in ticks
          MaxDrops   \* bound: broken connections and outages in a behaviour

ASSUME TransportAssumption == Interval \in Nat \ {0} /\ MaxDrops \in Nat

VARIABLES at,         \* where the caller is in this class; "idle": not in it
          verb,       \* "connected": in StartAsync; "reconnected": in SendAsync
          wait,       \* ticks until _nextReconnectAttemptUtc
          cancelled,  \* the CancellationToken
          status,     \* MQTTnet's; IsConnected is status = "connected"
          alive,      \* the connection reaches the broker
          broker,     \* the broker accepts connections
          handlers,   \* runs of the DisconnectedAsync handler that are due
          drops,      \* how many breaks and outages there have been
          sinceTry,   \* ticks since the last ConnectAsync ended, up to Interval
          failed      \* a publish has failed since the last successful connect

mqttnet == <<status, alive, handlers>>
outside == <<broker, drops>>
ghosts == <<sinceTry, failed>>
transport == <<at, verb, wait, cancelled, mqttnet, outside, ghosts>>

TransportInit ==
    /\ at = "check" /\ verb = "connected" /\ wait = 0 /\ cancelled = FALSE
    /\ status = "disconnected" /\ alive = FALSE /\ handlers = 0
    /\ broker \in BOOLEAN /\ drops = 0
    /\ sinceTry = Interval /\ failed = FALSE

\* SendAsync is called.
CallSend == at = "idle" /\ at' = "check" /\ verb' = "reconnected"

AfterConnected == IF verb = "connected" THEN "idle" ELSE "publish"

\* Two handlers that are due stand for any number: each does the same.
HandlerDue == handlers' = IF handlers < 2 THEN handlers + 1 ELSE 2

-----------------------------------------------------------------------------
\* EnsureConnectedAsync: if IsConnected, return true.
CheckConnected ==
    /\ at = "check"
    /\ at' = IF status = "connected" THEN AfterConnected ELSE "compare"
    /\ UNCHANGED <<verb, wait, cancelled, mqttnet, outside, ghosts>>

\* Mutant: no waiting.
CompareNothing ==
    /\ at = "compare" /\ at' = "connect"
    /\ UNCHANGED <<verb, wait, cancelled, mqttnet, outside, ghosts>>

\* Mutant: a telegram that comes too soon puts the next attempt off.
CompareAndPutOff ==
    /\ at = "compare"
    /\ IF wait > 0 THEN at' = "idle" /\ wait' = Interval ELSE at' = "connect" /\ UNCHANGED wait
    /\ UNCHANGED <<verb, cancelled, mqttnet, outside, ghosts>>

\* Before _nextReconnectAttemptUtc, return false: the telegram is dropped.
CompareTime ==
    /\ at = "compare"
    /\ at' = IF wait > 0 THEN "idle" ELSE "connect"
    /\ UNCHANGED <<verb, wait, cancelled, mqttnet, outside, ghosts>>

Connect ==
    /\ at = "connect" /\ status = "disconnected" /\ broker /\ ~cancelled
    /\ status' = "connected" /\ alive' = TRUE /\ failed' = FALSE /\ sinceTry' = 0
    /\ at' = "armConnected"
    /\ UNCHANGED <<verb, wait, cancelled, handlers, outside>>

\* ConnectAsync throws: no broker, a cancelled token, or MQTTnet still at work
\* on the last disconnection.  A failed attempt is reported as a disconnection.
ConnectThrows ==
    /\ at = "connect" /\ (~broker \/ cancelled \/ status # "disconnected")
    /\ sinceTry' = 0 /\ at' = "armFailed"
    /\ IF status = "disconnected" THEN HandlerDue ELSE UNCHANGED handlers
    /\ UNCHANGED <<verb, wait, cancelled, status, alive, outside, failed>>

\* Both ways, _nextReconnectAttemptUtc is an interval from now.
Arm ==
    /\ at \in {"armConnected", "armFailed"}
    /\ wait' = Interval
    /\ at' = IF at = "armConnected" THEN AfterConnected ELSE "idle"
    /\ UNCHANGED <<verb, cancelled, mqttnet, outside, ghosts>>

Publish ==
    /\ at = "publish" /\ status = "connected" /\ ~cancelled
    /\ at' = "idle"
    /\ UNCHANGED <<verb, wait, cancelled, mqttnet, outside, ghosts>>

\* PublishAsync throws; on a dead connection it may or may not.
PublishThrows ==
    /\ at = "publish" /\ (~alive \/ status # "connected" \/ cancelled)
    /\ at' = "armAfterFailure" /\ failed' = TRUE
    /\ UNCHANGED <<verb, wait, cancelled, mqttnet, outside, sinceTry>>

ArmAfterFailure ==
    /\ at = "armAfterFailure" /\ at' = "disconnect"
    /\ wait' = Interval
    /\ UNCHANGED <<verb, cancelled, mqttnet, outside, ghosts>>

\* Mutant: a connection that failed a publish is kept.
DisconnectNever ==
    /\ at = "disconnect" /\ at' = "idle"
    /\ UNCHANGED <<verb, wait, cancelled, mqttnet, outside, ghosts>>

\* if IsConnected, DisconnectAsync, whatever becomes of it.
Disconnect ==
    /\ at = "disconnect" /\ at' = "idle"
    /\ IF status = "connected"
       THEN status' = "disconnected" /\ alive' = FALSE /\ HandlerDue
       ELSE UNCHANGED mqttnet
    /\ UNCHANGED <<verb, wait, cancelled, outside, ghosts>>

\* Everything the caller's task does in this class.
Transport ==
    \/ CheckConnected \/ CompareTime \/ Connect \/ ConnectThrows \/ Arm
    \/ Publish \/ PublishThrows \/ ArmAfterFailure \/ Disconnect

-----------------------------------------------------------------------------
\* Mutant: the interval is added to what is left of the last one.
HandlerAdds ==
    /\ handlers > 0 /\ handlers' = handlers - 1
    /\ wait' = wait + Interval
    /\ UNCHANGED <<at, verb, cancelled, status, alive, outside, ghosts>>

\* The DisconnectedAsync handler.
Handler ==
    /\ handlers > 0 /\ handlers' = handlers - 1
    /\ wait' = Interval
    /\ UNCHANGED <<at, verb, cancelled, status, alive, outside, ghosts>>

\* MQTTnet (external) finds the connection gone, and cleans up after it.
NoticeLoss ==
    /\ status = "connected" /\ ~alive /\ status' = "disconnecting"
    /\ UNCHANGED <<at, verb, wait, cancelled, alive, handlers, outside, ghosts>>

CleanUp ==
    /\ status = "disconnecting" /\ status' = "disconnected" /\ HandlerDue
    /\ UNCHANGED <<at, verb, wait, cancelled, alive, outside, ghosts>>

\* The broker and the network (external).
Break ==
    /\ alive /\ drops < MaxDrops
    /\ alive' = FALSE /\ drops' = drops + 1
    /\ UNCHANGED <<at, verb, wait, cancelled, status, handlers, broker, ghosts>>

BrokerDown ==
    /\ broker /\ drops < MaxDrops
    /\ broker' = FALSE /\ alive' = FALSE /\ drops' = drops + 1
    /\ UNCHANGED <<at, verb, wait, cancelled, status, handlers, ghosts>>

BrokerUp ==
    /\ ~broker /\ broker' = TRUE
    /\ UNCHANGED <<at, verb, wait, cancelled, mqttnet, drops, ghosts>>

Others == NoticeLoss \/ CleanUp \/ Handler \/ Break \/ BrokerDown \/ BrokerUp

\* The clock, as far as this class looks at it.
TimePasses ==
    /\ at \in {"idle", "connect"}
    /\ wait' = IF wait > 0 THEN wait - 1 ELSE 0
    /\ sinceTry' = IF sinceTry < Interval THEN sinceTry + 1 ELSE Interval
    /\ UNCHANGED <<at, verb, cancelled, mqttnet, outside, failed>>

-----------------------------------------------------------------------------
TransportTypeOK ==
    /\ at \in {"idle", "check", "compare", "connect", "armConnected", "armFailed",
               "publish", "armAfterFailure", "disconnect"}
    /\ verb \in {"connected", "reconnected"}
    /\ wait \in 0 .. Interval /\ cancelled \in BOOLEAN
    /\ status \in {"disconnected", "connected", "disconnecting"}
    /\ alive \in BOOLEAN /\ broker \in BOOLEAN
    /\ handlers \in 0 .. 2 /\ drops \in 0 .. MaxDrops
    /\ sinceTry \in 0 .. Interval /\ failed \in BOOLEAN

\* However late the handler runs, and whatever it overwrites, a broker that is
\* away is not tried again before ReconnectInterval has passed.
RetriesPaced == at = "connect" => sinceTry = Interval

\* A connection on which a publish failed is not used again: the next publish
\* comes after a new connection, even if MQTTnet thinks the old one is fine.
FailsOnce == at = "publish" => ~failed
=============================================================================
