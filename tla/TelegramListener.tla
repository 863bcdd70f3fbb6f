-------------------------- MODULE TelegramListener --------------------------
(***************************************************************************)
(* The C# gateway once it is set up (ApplicationService.RunAsync):         *)
(* StartAsync of the transport, then ListenAsync of                        *)
(* TelegramListenerService.cs. The loop is listen_loop's, but a session    *)
(* ends by an exception, waits are awaits that a cancelled token turns     *)
(* into exceptions, and SendAsync is awaited: nobody reads the port while  *)
(* a connection attempt lasts. The exceptions are IOException and those of *)
(* a cancelled token; any other (stty not installed, a port that may be    *)
(* configured but not opened) ends the process and is not here. Telegrams  *)
(* are alike here: TelegramRelay and ListenLoop are about which of them    *)
(* arrive and in what shape.                                               *)
(***************************************************************************)
EXTENDS ServerTransport

CONSTANTS HangupIsError,  \* TRUE: Read on a port pulled out throws IOException;
                          \* FALSE: it returns 0, as on a Linux tty that hung up
          MaxQueue,       \* how many telegrams the driver holds
          MaxUnplugs      \* bound: how often the port is pulled

ASSUME ListenerAssumption ==
    HangupIsError \in BOOLEAN /\ MaxQueue \in Nat \ {0} /\ MaxUnplugs \in Nat

VARIABLES pc,        \* where ListenAsync is; "start" before it is called
          stream,    \* serialStream: "closed", "open" or "hungup"
          pause,     \* ticks left of Task.Delay(SerialReconnectInterval)
          queued,    \* telegrams the driver holds
          received,  \* telegrams in metisBuffer
          plugged, unplugs

session == <<stream, pause, queued, received>>
port == <<plugged, unplugs>>
vars == <<transport, pc, session, port>>

Init ==
    /\ TransportInit
    /\ pc = "start" /\ stream = "closed" /\ pause = 0 /\ queued = 0 /\ received = 0
    /\ plugged \in BOOLEAN /\ unplugs = 0

-----------------------------------------------------------------------------
Started ==
    /\ pc = "start" /\ at = "idle" /\ pc' = "head"
    /\ UNCHANGED <<transport, session, port>>

\* ConfigurePort and OpenStream.
Open ==
    /\ pc = "head" /\ ~cancelled
    /\ IF plugged THEN pc' = "ask" /\ stream' = "open" ELSE pc' = "threw" /\ UNCHANGED stream
    /\ UNCHANGED <<transport, pause, queued, received, port>>

\* TryReadRssiEnabled: answered or timed out, with the telegrams that came in
\* meanwhile read into a buffer that is given up.  A Read that returns 0 is
\* silence, whether the port is there or not.
Asked ==
    /\ pc = "ask" /\ (stream = "hungup" => ~HangupIsError) /\ pc' = "read"
    /\ \E n \in 0 .. queued : queued' = queued - n
    /\ UNCHANGED <<transport, stream, pause, received, port>>

Read ==
    /\ pc = "read" /\ ~cancelled /\ stream = "open" /\ queued > 0 /\ pc' = "frames"
    /\ \E n \in 1 .. queued : queued' = queued - n /\ received' = n
    /\ UNCHANGED <<transport, stream, pause, port>>

\* Read returns 0.
ReadNothing ==
    /\ pc = "read" /\ ~cancelled /\ queued = 0 /\ pc' = "nap"
    /\ stream = "hungup" => ~HangupIsError
    /\ UNCHANGED <<transport, session, port>>

\* IOException out of Read or, from TryReadRssiEnabled, out of Write (whatever a
\* Read would do) or Read: only TimeoutException is caught there.
ReadThrows ==
    /\ pc = "ask" \/ (pc = "read" /\ ~cancelled /\ HangupIsError)
    /\ stream = "hungup" /\ pc' = "threw"
    /\ UNCHANGED <<transport, session, port>>

\* Task.Delay(25): over, or the token is cancelled, and nothing catches that.
Nap ==
    /\ pc = "nap"
    /\ IF cancelled THEN pc' = "faulted" /\ stream' = "closed" /\ queued' = 0
                    ELSE pc' = "read" /\ UNCHANGED <<stream, queued>>
    /\ UNCHANGED <<transport, pause, received, port>>

\* DumpParsedFramesAsync: one telegram after another, each SendAsync awaited.
Handle ==
    /\ pc = "frames" /\ received > 0 /\ pc' = "send"
    /\ received' = received - 1
    /\ CallSend
    /\ UNCHANGED <<wait, cancelled, mqttnet, outside, ghosts, stream, pause, queued, port>>

Sent ==
    /\ pc = "send" /\ at = "idle" /\ pc' = "frames"
    /\ UNCHANGED <<transport, session, port>>

FramesDone ==
    /\ pc = "frames" /\ received = 0 /\ pc' = "read"
    /\ UNCHANGED <<transport, session, port>>

\* Mutant: every exception ends ListenAsync.
CatchNothing ==
    /\ pc = "threw" /\ pc' = "faulted"
    /\ stream' = "closed" /\ queued' = 0 /\ UNCHANGED pause
    /\ UNCHANGED <<transport, received, port>>

\* The stream is disposed of.  IOException is caught unless the token is
\* cancelled: "Retrying serial connection in 30 seconds".
Catch ==
    /\ pc = "threw"
    /\ stream' = "closed" /\ queued' = 0
    /\ IF cancelled THEN pc' = "faulted" /\ UNCHANGED pause
                    ELSE pc' = "backoff" /\ pause' = Interval
    /\ UNCHANGED <<transport, received, port>>

\* Task.Delay(SerialReconnectInterval): over, or cancelled.
Backoff ==
    /\ pc = "backoff" /\ (cancelled \/ pause = 0)
    /\ pc' = IF cancelled THEN "faulted" ELSE "head"
    /\ UNCHANGED <<transport, session, port>>

\* Mutant: the inner loop does not look at the token.
LeaveFromHead ==
    /\ pc = "head" /\ cancelled /\ pc' = "returned"
    /\ UNCHANGED <<transport, session, port>>

\* The token is cancelled at the head of one of the loops.
Leave ==
    /\ pc \in {"head", "read"} /\ cancelled /\ pc' = "returned"
    /\ stream' = "closed" /\ queued' = 0
    /\ UNCHANGED <<transport, pause, received, port>>

Listener ==
    \/ Started \/ Open \/ Asked \/ Read \/ ReadNothing \/ ReadThrows \/ Nap
    \/ Handle \/ Sent \/ FramesDone \/ Catch \/ Backoff \/ Leave

-----------------------------------------------------------------------------
\* Ctrl+C (CancelKeyPress).
Cancel ==
    /\ ~cancelled /\ cancelled' = TRUE
    /\ UNCHANGED <<at, verb, wait, mqttnet, outside, ghosts, pc, session, port>>

\* A telegram by radio (external): lost if the driver has no room for it.
Report ==
    /\ stream = "open" /\ queued < MaxQueue /\ queued' = queued + 1
    /\ UNCHANGED <<transport, pc, stream, pause, received, port>>

Unplug ==
    /\ plugged /\ unplugs < MaxUnplugs
    /\ plugged' = FALSE /\ unplugs' = unplugs + 1 /\ queued' = 0
    /\ stream' = IF stream = "open" THEN "hungup" ELSE stream
    /\ UNCHANGED <<transport, pc, pause, received>>

Replug ==
    /\ ~plugged /\ plugged' = TRUE
    /\ UNCHANGED <<transport, pc, session, unplugs>>

Tick ==
    /\ wait > 0 \/ sinceTry < Interval \/ pause > 0
    /\ TimePasses
    /\ pause' = IF pause > 0 THEN pause - 1 ELSE 0
    /\ UNCHANGED <<pc, stream, queued, received, port>>

Task == (Transport /\ UNCHANGED <<pc, session, port>>) \/ Listener

Surroundings == Others /\ UNCHANGED <<pc, session, port>>

Next == Task \/ Surroundings \/ Cancel \/ Report \/ Unplug \/ Replug \/ Tick

\* The task and MQTTnet's tasks run, time passes; an outage ends.
BaseFairness ==
    /\ WF_vars(Task) /\ SF_vars(Tick)
    /\ WF_vars((NoticeLoss \/ CleanUp) /\ UNCHANGED <<pc, session, port>>)
    /\ WF_vars(Handler /\ UNCHANGED <<pc, session, port>>)
    /\ WF_vars(BrokerUp /\ UNCHANGED <<pc, session, port>>)

\* A port that was pulled is put back, and telegrams keep coming.
Fairness == BaseFairness /\ WF_vars(Replug) /\ WF_vars(Report)

Spec == Init /\ [][Next]_vars /\ Fairness

\* The same with a radio that may fall silent.
SilentSpec == Init /\ [][Next]_vars /\ BaseFairness

-----------------------------------------------------------------------------
TypeOK ==
    /\ TransportTypeOK
    /\ pc \in {"start", "head", "ask", "read", "nap", "frames", "send", "threw",
               "backoff", "returned", "faulted"}
    /\ stream \in {"closed", "open", "hungup"} /\ pause \in 0 .. Interval
    /\ queued \in 0 .. MaxQueue /\ received \in 0 .. MaxQueue
    /\ plugged \in BOOLEAN /\ unplugs \in 0 .. MaxUnplugs
    /\ at # "idle" => pc \in {"start", "send"}
    /\ pc \in {"start", "head", "backoff", "returned", "faulted"} => stream = "closed"

\* End to end: through lost ports, broken connections and outages, telegrams
\* are published again and again, until Ctrl+C.
KeepsPublishing == []<>(cancelled \/ (at = "publish" /\ status = "connected" /\ alive))

\* TelegramListenerService.cs:54, "Retrying serial connection in 30 seconds":
\* a session whose port hung up is followed by another.
Reconnects == stream = "hungup" ~> stream = "open" \/ cancelled

\* Ctrl+C ends ListenAsync wherever it is, in the transport included.
CancellationEnds == cancelled ~> pc \in {"returned", "faulted"}

\* SendToServerWithMqttService.cs:117, "Retrying MQTT connection in 30
\* seconds": a failed attempt is followed by another.
RetriesAsLogged == at = "armFailed" ~> at = "connect" \/ cancelled
=============================================================================
