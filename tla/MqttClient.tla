----------------------------- MODULE MqttClient -----------------------------
(***************************************************************************)
(* MqttClient (mqtt_client.cpp): two threads share m_connected and         *)
(* m_next_reconnect_ms without a lock.  The main thread calls start() and  *)
(* send(); libmosquitto's network thread, started by the constructor,      *)
(* calls on_disconnect when it finds the connection gone.  Every access to *)
(* a shared field and every call into the library is a step.  Time passes  *)
(* while the main thread waits for a telegram or blocks in connect; code   *)
(* between two calls takes none.                                           *)
(***************************************************************************)
EXTENDS Integers

CONSTANTS Interval,  \* reconnect_interval_ms, in ticks
          MaxDrops   \* bound: broken connections and outages in a behaviour

ASSUME MqttAssumption == Interval \in Nat \ {0} /\ MaxDrops \in Nat

VARIABLES pc,         \* the main thread
          verb,       \* "connected": in start(); "reconnected": in send()
          net,        \* the network thread, inside on_disconnect or not
          connected,  \* m_connected
          wait,       \* ticks until m_next_reconnect_ms
          socket,     \* the library holds a connection
          alive,      \* and it reaches the broker
          broker,     \* the broker accepts connections
          drops,      \* how many breaks and outages there have been
          sinceTry,   \* ticks since the last connection attempt ended, up to Interval
          failed      \* a publish has failed since the last successful connect

library == <<socket, alive, broker, drops>>
shared == <<connected, wait>>
ghosts == <<sinceTry, failed>>
vars == <<pc, verb, net, shared, library, ghosts>>

Init ==
    /\ pc = "check" /\ verb = "connected" /\ net = "loop"
    /\ connected = FALSE /\ wait = 0
    /\ socket = FALSE /\ alive = FALSE /\ broker \in BOOLEAN /\ drops = 0
    /\ sinceTry = Interval /\ failed = FALSE

-----------------------------------------------------------------------------
(***************************************************************************)
(* The main thread.                                                        *)
(***************************************************************************)
\* A telegram arrives: send() is called.
Telegram ==
    /\ pc = "idle" /\ pc' = "check" /\ verb' = "reconnected"
    /\ UNCHANGED <<net, shared, library, ghosts>>

AfterConnected == IF verb = "connected" THEN "idle" ELSE "publish"

\* Mutant: the interval is waited for although m_connected.
CheckNothing ==
    /\ pc = "check" /\ pc' = "compare"
    /\ UNCHANGED <<verb, net, shared, library, ghosts>>

\* ensure_connected: if (m_connected) return true.  The test in front of it,
\* if (!m_mosq) return false, is for a mosquitto_new that found no memory: then
\* there is no network thread and nothing is ever published.  Init excludes it.
CheckConnected ==
    /\ pc = "check"
    /\ pc' = IF connected THEN AfterConnected ELSE "compare"
    /\ UNCHANGED <<verb, net, shared, library, ghosts>>

\* Mutant: no waiting.
CompareNothing ==
    /\ pc = "compare" /\ pc' = "connect"
    /\ UNCHANGED <<verb, net, shared, library, ghosts>>

\* Mutant: a telegram that comes too soon puts the next attempt off.
CompareAndPutOff ==
    /\ pc = "compare"
    /\ IF wait > 0 THEN pc' = "idle" /\ wait' = Interval ELSE pc' = "connect" /\ UNCHANGED wait
    /\ UNCHANGED <<verb, net, connected, library, ghosts>>

\* if (now_ms() < m_next_reconnect_ms) return false: the telegram is dropped.
CompareTime ==
    /\ pc = "compare"
    /\ pc' = IF wait > 0 THEN "idle" ELSE "connect"
    /\ UNCHANGED <<verb, net, shared, library, ghosts>>

\* mosquitto_connect, which blocks; a connection held before is given up.
Connect ==
    /\ pc = "connect"
    /\ pc' = IF broker THEN "armConnected" ELSE "armFailed"
    /\ socket' = broker /\ alive' = broker
    /\ sinceTry' = 0
    /\ UNCHANGED <<verb, net, shared, broker, drops, failed>>

\* m_next_reconnect_ms = now_ms() + reconnect_interval_ms.
ArmReconnect ==
    /\ pc \in {"armConnected", "armFailed"}
    /\ wait' = Interval
    /\ pc' = IF pc = "armConnected" THEN "set" ELSE "idle"
    /\ UNCHANGED <<verb, net, connected, library, ghosts>>

\* m_connected = true: the callback may have come and gone since Connect.
SetConnected ==
    /\ pc = "set" /\ pc' = AfterConnected
    /\ connected' = TRUE /\ failed' = FALSE
    /\ UNCHANGED <<verb, net, wait, library, sinceTry>>

\* Mutant: a publish that succeeded is tried again.
PublishAgain ==
    /\ pc = "publish"
    /\ pc' = IF socket THEN "publish" ELSE "mark"
    /\ failed' = ~socket
    /\ UNCHANGED <<verb, net, shared, library, sinceTry>>

\* mosquitto_publish, QoS 0: without a connection it returns an error; with
\* one it succeeds, whether or not the broker is still at the other end.
Publish ==
    /\ pc = "publish"
    /\ pc' = IF socket THEN "idle" ELSE "mark"
    /\ failed' = ~socket
    /\ UNCHANGED <<verb, net, shared, library, sinceTry>>

\* Mutant: only the time of the next attempt is set.
MarkNothing ==
    /\ pc = "mark" /\ pc' = "markArm"
    /\ UNCHANGED <<verb, net, shared, library, ghosts>>

\* mark_disconnected after a failed publish: the flag, then the time.
Mark ==
    /\ pc = "mark" /\ pc' = "markArm"
    /\ connected' = FALSE
    /\ UNCHANGED <<verb, net, wait, library, ghosts>>

\* Mutant: the interval is added to what is left of the last one.
MarkArmAdds ==
    /\ pc = "markArm" /\ pc' = "idle"
    /\ wait' = wait + Interval
    /\ UNCHANGED <<verb, net, connected, library, ghosts>>

MarkArm ==
    /\ pc = "markArm" /\ pc' = "idle"
    /\ wait' = Interval
    /\ UNCHANGED <<verb, net, connected, library, ghosts>>

Main ==
    \/ CheckConnected \/ CompareTime \/ Connect \/ ArmReconnect \/ SetConnected
    \/ Publish \/ Mark \/ MarkArm

-----------------------------------------------------------------------------
(***************************************************************************)
(* The network thread (mosquitto_loop_start) and on_disconnect.            *)
(***************************************************************************)
\* The library finds the connection gone, closes it and calls on_disconnect.
NoticeLoss ==
    /\ net = "loop" /\ socket /\ ~alive
    /\ socket' = FALSE /\ net' = "clear"
    /\ UNCHANGED <<pc, verb, shared, alive, broker, drops, ghosts>>

\* mark_disconnected on this thread: the flag, ...
CallbackClears ==
    /\ net = "clear" /\ net' = "arm"
    /\ connected' = FALSE
    /\ UNCHANGED <<pc, verb, wait, library, ghosts>>

\* ... then the time.
CallbackArms ==
    /\ net = "arm" /\ net' = "loop"
    /\ wait' = Interval
    /\ UNCHANGED <<pc, verb, connected, library, ghosts>>

\* Once the first mosquitto_connect has told it the host, the library connects
\* by itself whenever it has no connection, and MqttClient has set no callback
\* that would tell it.
LibraryReconnects ==
    /\ net = "loop" /\ ~socket /\ broker
    /\ verb = "reconnected" \/ pc = "idle"
    /\ socket' = TRUE /\ alive' = TRUE
    /\ UNCHANGED <<pc, verb, net, shared, broker, drops, ghosts>>

Network == NoticeLoss \/ CallbackClears \/ CallbackArms

-----------------------------------------------------------------------------
(***************************************************************************)
(* The broker, the network between, and the clock (external).              *)
(***************************************************************************)
\* A connection breaks while the broker stays up.
Break ==
    /\ alive /\ drops < MaxDrops
    /\ alive' = FALSE /\ drops' = drops + 1
    /\ UNCHANGED <<pc, verb, net, shared, socket, broker, ghosts>>

BrokerDown ==
    /\ broker /\ drops < MaxDrops
    /\ broker' = FALSE /\ alive' = FALSE /\ drops' = drops + 1
    /\ UNCHANGED <<pc, verb, net, shared, socket, ghosts>>

BrokerUp ==
    /\ ~broker /\ broker' = TRUE
    /\ UNCHANGED <<pc, verb, net, shared, socket, alive, drops, ghosts>>

Tick ==
    /\ pc \in {"idle", "connect"} /\ net = "loop"
    /\ wait > 0 \/ sinceTry < Interval
    /\ wait' = IF wait > 0 THEN wait - 1 ELSE 0
    /\ sinceTry' = IF sinceTry < Interval THEN sinceTry + 1 ELSE Interval
    /\ UNCHANGED <<pc, verb, net, connected, library, failed>>

Next ==
    \/ Telegram \/ Main \/ Network \/ LibraryReconnects
    \/ Break \/ BrokerDown \/ BrokerUp \/ Tick

\* Both threads run, time passes, telegrams keep coming, an outage ends.
Fairness ==
    /\ WF_vars(Telegram) /\ WF_vars(Main) /\ WF_vars(Network)
    /\ SF_vars(Tick) /\ WF_vars(BrokerUp)

Spec == Init /\ [][Next]_vars /\ Fairness

-----------------------------------------------------------------------------
TypeOK ==
    /\ pc \in {"idle", "check", "compare", "connect", "armConnected", "armFailed",
               "set", "publish", "mark", "markArm"}
    /\ verb \in {"connected", "reconnected"}
    /\ net \in {"loop", "clear", "arm"}
    /\ connected \in BOOLEAN /\ wait \in 0 .. Interval
    /\ socket \in BOOLEAN /\ alive \in BOOLEAN /\ broker \in BOOLEAN
    /\ drops \in 0 .. MaxDrops
    /\ sinceTry \in 0 .. Interval /\ failed \in BOOLEAN

\* Whatever the two threads do to m_next_reconnect_ms between them, a broker
\* that is away is not tried again before reconnect_interval_ms have passed.
RetriesPaced == pc = "connect" => sinceTry = Interval

\* m_connected can be true without a connection (the callback came between
\* Connect and SetConnected), but a failed publish sets that right: no second
\* one fails before the gateway has connected again.
FailsOnce == pc = "publish" => ~failed

\* Outages being finite, and telegrams coming, telegrams are published again
\* and again: no interleaving leaves the gateway for ever without MQTT.
KeepsPublishing == []<>(pc = "publish" /\ socket /\ alive)
=============================================================================
