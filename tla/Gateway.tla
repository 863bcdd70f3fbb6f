------------------------------ MODULE Gateway ------------------------------
(***************************************************************************)
(* The whole gateway, from the radio to the broker: ListenLoop and         *)
(* MqttClient, composed as main() composes them.  Both run on one thread,  *)
(* so the serial port is not read while mqtt.start or mqtt.send is under   *)
(* way, for as long as mosquitto_connect blocks; libmosquitto's network    *)
(* thread runs beside it.  At the end main() returns and the client is     *)
(* destroyed.                                                              *)
(***************************************************************************)
EXTENDS ListenLoop

CONSTANTS MaxDrops,    \* bound: broken MQTT connections and outages
          MaxTroubles  \* bound: unplugs, faults and drops together

ASSUME GatewayAssumption == MaxDrops \in Nat /\ MaxTroubles \in Nat

VARIABLES mpc, verb, net, connected, wait, socket, alive, broker, drops, sinceTry, failed,
          published  \* the telegrams that have reached the broker

\* reconnect_interval_ms is serial_retry_interval_ms.
M == INSTANCE MqttClient WITH pc <- mpc

listenVars == vars
mqttVars == <<mpc, verb, net, connected, wait, socket, alive, broker, drops, sinceTry, failed>>
allVars == <<listenVars, mqttVars, published>>

\* main: mqtt.start comes before listen_loop.
GatewayInit == Init /\ M!Init /\ published = <<>>

Bounded == unplugs' + faults' + drops' <= MaxTroubles

-----------------------------------------------------------------------------
(***************************************************************************)
(* The main thread.                                                        *)
(***************************************************************************)
\* listen_loop; a payload handed on is a call of mqtt.send.
Listen ==
    /\ mpc = "idle" /\ Step
    /\ IF handed' = handed THEN UNCHANGED mqttVars ELSE M!Telegram
    /\ UNCHANGED published

Wait ==
    /\ mpc = "idle" /\ NoAnswer
    /\ UNCHANGED <<mqttVars, published>>
    /\ Bounded

Sending == handed[Len(handed)].of.id

\* start and send; the telegram reaches the broker if there is one at the other
\* end of the socket.
Mqtt ==
    /\ M!Main
    /\ published' = IF mpc = "publish" /\ socket /\ alive
                    THEN Append(published, Sending) ELSE published
    /\ UNCHANGED listenVars

\* ~MqttClient: if (m_connected) mosquitto_disconnect.
Disconnect ==
    /\ pc = "exited" /\ mpc = "idle"
    /\ mpc' = IF connected THEN "disconnected" ELSE "stop"
    /\ alive' = (alive /\ ~connected)
    /\ UNCHANGED <<listenVars, verb, net, connected, wait, socket, broker, drops,
                   sinceTry, failed, published>>

\* Mutant: mosquitto_loop_stop without force joins the thread, which ends by
\* itself only if it was asked to disconnect.
LoopStopUnforced ==
    /\ mpc = "disconnected"
    /\ mpc' = "destroyed" /\ net' = "joined"
    /\ UNCHANGED <<listenVars, verb, connected, wait, socket, alive, broker, drops,
                   sinceTry, failed, published>>

\* ~MqttClient: mosquitto_loop_stop(force) cancels the network thread wherever
\* it is and joins it; mosquitto_destroy.
LoopStop ==
    /\ mpc \in {"disconnected", "stop"}
    /\ mpc' = "destroyed" /\ net' = "joined"
    /\ UNCHANGED <<listenVars, verb, connected, wait, socket, alive, broker, drops,
                   sinceTry, failed, published>>

MainThread == Listen \/ Mqtt \/ Disconnect \/ LoopStop

-----------------------------------------------------------------------------
NetworkThread == M!Network /\ UNCHANGED <<listenVars, published>>

\* After mosquitto_disconnect the library does not connect again.
Reconnect ==
    /\ mpc \notin {"disconnected", "destroyed"}
    /\ M!LibraryReconnects
    /\ UNCHANGED <<listenVars, published>>

\* What happens around the gateway.
Outside ==
    /\ \/ ((mpc = "idle" /\ ReadNothing) \/ Signal \/ World) /\ UNCHANGED <<mqttVars, published>>
       \/ (M!Break \/ M!BrokerDown \/ M!BrokerUp) /\ UNCHANGED <<listenVars, published>>
    /\ Bounded

\* One clock: it passes while the main thread sleeps, waits for the driver or
\* blocks in mosquitto_connect.
TimePasses ==
    /\ mpc \in {"idle", "connect"} /\ net = "loop"
    /\ \/ Tick /\ M!Tick
       \/ pause = 0 /\ UNCHANGED listenVars /\ M!Tick
       \/ Tick /\ wait = 0 /\ sinceTry = Interval /\ UNCHANGED mqttVars
    /\ UNCHANGED published

GatewayNext == MainThread \/ Wait \/ NetworkThread \/ Reconnect \/ Outside \/ TimePasses

\* Both threads run: mosquitto_connect returns, a wait for an answer ends, read()
\* hands over what the driver has.  Time passes, a device that is asked answers.
GatewayFairness ==
    /\ WF_allVars(MainThread) /\ WF_allVars(Wait) /\ WF_allVars(NetworkThread)
    /\ WF_allVars(TimePasses)
    /\ WF_allVars(DeviceAnswers /\ UNCHANGED <<mqttVars, published>>)

GatewaySpec == GatewayInit /\ [][GatewayNext]_allVars /\ GatewayFairness

-----------------------------------------------------------------------------
\* The threads and what they share: the main thread is in MqttClient only where
\* listen_loop or main called it, and no callback outlives the client.
GatewayTypeOK ==
    /\ TypeOK
    /\ mpc \in {"destroyed", "disconnected", "stop"} \/ M!TypeOK
    /\ mpc \in {"disconnected", "stop", "destroyed"} => pc = "exited"
    /\ mpc \in {"publish", "mark", "markArm"} => pc = "frames"
    /\ mpc = "destroyed" <=> net = "joined"
    /\ published \in Seq(1 .. MaxTelegrams)

\* Whatever the serial line, the library and the broker do in between, no
\* telegram reaches the broker twice or out of turn, even over a connection that
\* broke and was replaced while it was being sent.
ToBroker == INSTANCE TelegramRelay WITH passed <- published
PublishesInOrder == ToBroker!Spec

\* A telegram of sufficient size in the driver, and in the reach of no torn frame
\* before it, reaches the broker if, from then on, the session and the connection
\* hold and the process is not stopped: the whole frames before it, whatever
\* became of them, and torn ones that claim less do not take it with them.
InDriver(i) ==
    /\ pc \in {"read", "frames"}
    /\ \E k \in 1 .. Len(fromDevice) :
          /\ fromDevice[k].code = "telegram" /\ fromDevice[k].id = i /\ Published(fromDevice[k])
          /\ ~Swallowed(rx \o fromDevice, Len(rx) + k)

Online == connected /\ socket /\ alive
IsPublished(i) == \E k \in 1 .. Len(published) : published[k] = i

OnlineIsPublished ==
    \A i \in 1 .. MaxTelegrams :
        InDriver(i) /\ Online ~> IsPublished(i) \/ ~Online \/ fd # "open" \/ ~running

\* A signal ends the process, with the client destroyed, wherever it is: in a
\* session, in its pauses, blocked in mosquitto_connect, or with a network
\* thread that nobody asked to disconnect.
ProcessEnds == ~running ~> mpc = "destroyed"
=============================================================================
