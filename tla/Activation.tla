----------------------------- MODULE Activation -----------------------------
(***************************************************************************)
(* wmbus-gateway --activate: the commands that configure the device before *)
(* the gateway listens (activate, main.cpp), each retried until it is      *)
(* acknowledged (metis_send_and_wait), under a supervisor that starts the  *)
(* process again when it dies (the init script deploy.sh installs).        *)
(***************************************************************************)
EXTENDS MetisExchange

CONSTANTS Attempts,     \* attempts per command (5 in the code)
          MaxFaults,    \* bound: losses, refusals, late answers and failed opens
          MaxTelegrams, \* bound: telegrams, whole or torn, that come in meanwhile
          MaxInFlight   \* bound: commands under way to the device

ASSUME ActivationAssumption ==
    /\ Attempts \in Nat \ {0}
    /\ MaxFaults \in Nat /\ MaxTelegrams \in Nat
    /\ MaxInFlight \in Nat \ {0}

VARIABLES pc,        \* where the process is, dead or exited included
          step,      \* index in Steps of the command being exchanged
          attempt,   \* the `attempt' of metis_send_and_wait
          running,   \* g_running; FALSE also tells the supervisor to stand down
          device,    \* what the device has been told: settings and mode
          faults, telegrams,  \* how much of the bounds has been used
          late,     \* an answer has come after the gateway had given it up
          swallowed \* how many answers false headers have kept from a wait

budget == <<faults, telegrams, late>>
gateway == <<pc, step, attempt, running>>
vars == <<line, gateway, device, budget, swallowed>>

\* The process has aborted: a port that would not open, a command that failed
\* as often as it may.
Dead == {"noPort", "gaveUp"}

Settings == {"outEnable", "rssiEnable", "modePreselect"}

\* UART_CMD_OUT_ENABLE=1, RSSI_ENABLE=1, MODE_PRESELECT=C2_T2_other, RESET,
\* and SET_MODE C2_T2_other after the port has been closed and opened again.
Steps == <<"outEnable", "rssiEnable", "modePreselect", "reset", "setMode">>
ResetStep == 4

\* The response that tells the gateway a command was carried out: 0x89 for any
\* SET, 0x84 for SET_MODE.  (RESET is sent without waiting for one.)
Response(command) ==
    CASE command \in Settings -> "setResponse"
      [] command = "reset"    -> "resetResponse"
      [] command = "setMode"  -> "setModeResponse"

Telegram == [code |-> "telegram", status |-> "ok", about |-> "none"]

InMode(d) == d.mode = "C2_T2_other"

\* How a command changes the device (external): a reset takes up the
\* preselected mode.
Effect(d, command) ==
    CASE command \in Settings -> [d EXCEPT !.set = @ \cup {command}]
      [] command = "reset" ->
            [d EXCEPT !.mode = IF "modePreselect" \in d.set THEN "C2_T2_other" ELSE "factory"]
      [] command = "setMode" -> [d EXCEPT !.mode = "C2_T2_other"]

Init ==
    /\ QuietLine
    /\ pc = "open" /\ step = 1 /\ attempt = 1 /\ running = TRUE
    /\ device = [set |-> {}, mode |-> "factory"]
    /\ faults = 0 /\ telegrams = 0 /\ late = FALSE /\ swallowed = 0

-----------------------------------------------------------------------------
\* serial_open succeeds: at the start and between RESET and SET_MODE.  It can
\* cut a frame that is coming in.
Open ==
    /\ pc = "open" /\ pc' = "send"
    /\ \/ Reopen(<<>>) /\ UNCHANGED telegrams
       \/ /\ telegrams < MaxTelegrams /\ telegrams' = telegrams + 1
          /\ \E torn \in TornFrames : Reopen(<<torn>>)
    /\ UNCHANGED <<step, attempt, running, device, faults, late, swallowed>>

Fault == faults < MaxFaults /\ faults' = faults + 1

\* serial_open throws and nothing in activate or main catches it.
OpenFails ==
    /\ pc = "open" /\ Fault
    /\ pc' = "noPort"
    /\ UNCHANGED <<line, step, attempt, running, device, telegrams, late, swallowed>>

Send ==
    /\ pc = "send" /\ Len(toDevice) < MaxInFlight
    /\ Write(Steps[step])
    /\ pc' = IF step = ResetStep THEN "pause" ELSE "wait"
    /\ UNCHANGED <<step, attempt, running, device, budget, swallowed>>

WaitOn ==
    /\ pc = "wait"
    /\ \E n \in 1 .. Len(fromDevice) :
          /\ ReadOthers(Response(Steps[step]), n)
          /\ swallowed' = swallowed + Cardinality(Answers(Response(Steps[step]), Received(n)))
    /\ UNCHANGED <<gateway, device, budget>>

\* Mutant: the status in the answer is not looked at.
AcceptAnyStatus ==
    /\ pc = "wait"
    /\ \E n \in 1 .. Len(fromDevice) :
          \E k \in 1 .. Len(Received(n)) : ReadAnswer(Response(Steps[step]), n, k)
    /\ pc' = IF step = Len(Steps) THEN "activated" ELSE "send"
    /\ step' = IF step = Len(Steps) THEN step ELSE step + 1
    /\ attempt' = 1
    /\ UNCHANGED <<running, device, budget, swallowed>>

\* The awaited response arrives and says ok: go on to the next command.
Accept ==
    /\ pc = "wait"
    /\ \E n \in 1 .. Len(fromDevice) : \E k \in 1 .. Len(Received(n)) :
          /\ ReadAnswer(Response(Steps[step]), n, k)
          /\ Received(n)[k].status = "ok"
    /\ pc' = IF step = Len(Steps) THEN "activated" ELSE "send"
    /\ step' = IF step = Len(Steps) THEN step ELSE step + 1
    /\ attempt' = 1
    /\ UNCHANGED <<running, device, budget, swallowed>>

\* It arrives with another status: "failed with status", to be retried.
Reject ==
    /\ pc = "wait"
    /\ \E n \in 1 .. Len(fromDevice) : \E k \in 1 .. Len(Received(n)) :
          /\ ReadAnswer(Response(Steps[step]), n, k)
          /\ Received(n)[k].status # "ok"
    /\ pc' = "drain"
    /\ UNCHANGED <<step, attempt, running, device, budget, swallowed>>

\* Mutant: no time limit on the wait.
NoTimeout == FALSE /\ UNCHANGED vars

\* timeout_ms have passed: the command or its answer is lost or swallowed, or
\* the device is too late, which is one of the faults.
Timeout ==
    /\ pc = "wait"
    /\ IF toDevice = <<>> /\ fromDevice = <<>>
       THEN UNCHANGED <<faults, late>>
       ELSE Fault /\ late' = TRUE
    /\ pc' = "drain"
    /\ UNCHANGED <<line, step, attempt, running, device, telegrams, swallowed>>

DrainMore ==
    /\ pc \in {"drain", "pause"}
    /\ Drain
    /\ UNCHANGED <<gateway, device, budget, swallowed>>

\* Mutant: one attempt fewer than asked for.
RetryLess ==
    /\ pc = "drain"
    /\ IF attempt + 1 < Attempts
       THEN pc' = "send" /\ attempt' = attempt + 1
       ELSE pc' = "gaveUp" /\ UNCHANGED attempt
    /\ UNCHANGED <<line, step, running, device, budget, swallowed>>

\* Mutant: one attempt more than asked for.
RetryMore ==
    /\ pc = "drain"
    /\ IF attempt <= Attempts
       THEN pc' = "send" /\ attempt' = attempt + 1
       ELSE pc' = "gaveUp" /\ UNCHANGED attempt
    /\ UNCHANGED <<line, step, running, device, budget, swallowed>>

\* The pause after a failure is over: the next attempt, or the last error is
\* thrown out of activate and main, and the process aborts.
Retry ==
    /\ pc = "drain"
    /\ IF attempt < Attempts
       THEN pc' = "send" /\ attempt' = attempt + 1
       ELSE pc' = "gaveUp" /\ UNCHANGED attempt
    /\ UNCHANGED <<line, step, running, device, budget, swallowed>>

\* The pause after RESET is over: close the port, open it again.
AfterReset ==
    /\ pc = "pause" /\ pc' = "open"
    /\ step' = ResetStep + 1 /\ attempt' = 1
    /\ UNCHANGED <<line, running, device, budget, swallowed>>

\* listen_loop, which looks at g_running first.
Listen ==
    /\ pc = "activated"
    /\ pc' = IF running THEN "listen" ELSE "exited"
    /\ UNCHANGED <<line, step, attempt, running, device, budget, swallowed>>

Exit ==
    /\ pc = "listen" /\ ~running /\ pc' = "exited"
    /\ UNCHANGED <<line, step, attempt, running, device, budget, swallowed>>

Gateway ==
    \/ Open \/ OpenFails \/ Send \/ WaitOn \/ Accept \/ Reject \/ Timeout
    \/ DrainMore \/ Retry \/ AfterReset \/ Listen \/ Exit

\* SIGTERM or SIGINT: the handler clears g_running, and nothing in activate
\* looks at it.
Signal ==
    /\ running /\ running' = FALSE
    /\ UNCHANGED <<line, pc, step, attempt, device, budget, swallowed>>

\* The supervisor starts a dead process again, unless it was told to stop it.
\* It waits 5 s first, by when the device has dealt with what it was sent.
Respawn ==
    /\ pc \in Dead /\ running /\ toDevice = <<>>
    /\ pc' = "open" /\ step' = 1 /\ attempt' = 1
    /\ UNCHANGED <<line, running, device, budget, swallowed>>

-----------------------------------------------------------------------------
DeviceHandles ==
    /\ toDevice # <<>>
    /\ Handle(<<Ack(Response(Head(toDevice)), Head(toDevice))>>)
    /\ device' = Effect(device, Head(toDevice))
    /\ UNCHANGED <<gateway, budget, swallowed>>

\* The device refuses the command and says so.
DeviceRefuses ==
    /\ Fault
    /\ toDevice # <<>>
    /\ Handle(<<Refusal(Response(Head(toDevice)), Head(toDevice))>>)
    /\ UNCHANGED <<gateway, device, telegrams, late, swallowed>>

\* The command is damaged on the line (or was never written).
LoseCommand ==
    /\ Fault
    /\ Handle(<<>>)
    /\ UNCHANGED <<gateway, device, telegrams, late, swallowed>>

\* The command is carried out and the answer damaged on the line: nothing
\* remains of it, or a torn frame.
LoseAnswer ==
    /\ Fault
    /\ \E reply \in Remains : Handle(reply)
    /\ device' = Effect(device, Head(toDevice))
    /\ UNCHANGED <<gateway, telegrams, late, swallowed>>

\* A telegram, whole or damaged.
DeviceReports ==
    /\ telegrams < MaxTelegrams /\ telegrams' = telegrams + 1
    /\ \E frame \in {Telegram} \cup TornFrames : Report(frame)
    /\ UNCHANGED <<gateway, device, faults, late, swallowed>>

Device == DeviceHandles \/ DeviceRefuses \/ LoseCommand \/ LoseAnswer \/ DeviceReports

Next == Gateway \/ Signal \/ Respawn \/ Device

\* The gateway's thread keeps running, its time limits pass, the supervisor
\* does its work, and a device that gets a command deals with it.
Fairness ==
    /\ WF_vars(Open \/ Send \/ WaitOn \/ Accept \/ Reject \/ AfterReset \/ Listen \/ Exit)
    /\ WF_vars(Timeout) /\ WF_vars(Retry)
    /\ WF_vars(Respawn) /\ WF_vars(DeviceHandles)

Spec == Init /\ [][Next]_vars /\ Fairness

-----------------------------------------------------------------------------
Frames ==
    [code : {"setResponse", "resetResponse", "setModeResponse", "telegram"},
     status : {"ok", "failed"},
     about : {"none"} \cup Range(Steps)] \cup TornFrames

TypeOK ==
    /\ toDevice \in Seq(Range(Steps)) /\ Len(toDevice) <= MaxInFlight
    /\ fromDevice \in Seq(Frames) /\ rx \in Seq(Frames) /\ claim \in 0 .. MaxClaim
    /\ pc \in {"open", "send", "wait", "drain", "pause", "activated", "listen",
               "exited"} \cup Dead
    /\ step \in 1 .. Len(Steps) /\ attempt \in 1 .. Attempts /\ running \in BOOLEAN
    /\ device \in [set : SUBSET Settings, mode : {"factory", "C2_T2_other"}]
    /\ faults \in 0 .. MaxFaults /\ telegrams \in 0 .. MaxTelegrams /\ late \in BOOLEAN
    /\ swallowed \in Nat

\* As long as no answer is late, the gateway goes on to the next command only
\* when the device has carried out all those before it; so a gateway that
\* listens has a device that reports telegrams, with RSSI, and preselects the
\* right mode, whatever was lost, refused or cut short by a crash.
AcknowledgedIsDone ==
    \A i \in 1 .. step - 1 :
        (~late /\ pc \notin Dead /\ Steps[i] \in Settings) => Steps[i] \in device.set

\* A gateway that listens has a device in the mode it asked for: the answer to
\* SET_MODE cannot be mistaken for another, and a reset still under way cannot
\* undo it, since the device deals with commands in order.
ListensInMode == pc = "listen" => InMode(device)

\* The process dies of unanswered commands only if each attempt at one met a
\* fault or had its answer swallowed by the false header in a torn frame.  (The
\* buffer outlives the attempts, so that one header can cost them all.)  Whole
\* telegrams and leftovers never cost an attempt.
RetriesSuffice == pc = "gaveUp" => faults + swallowed >= Attempts

\* README.md:136, "Activate the Metis-II first, then start listening": when the
\* gateway listens, the device has carried out every setup command.
ActivatedBeforeListening == pc = "listen" => device.set = Settings /\ InMode(device)

\* Faults being finite, activation comes to an end and the gateway listens,
\* through however many retries, crashes and respawns.
ActivationCompletes == <>(pc = "listen" \/ ~running)

\* A signal ends the process even if it arrives during activation, which does
\* not look at g_running: no wait in it is without a limit.
ShutdownCompletes == ~running ~> pc \in Dead \cup {"exited"}
=============================================================================
