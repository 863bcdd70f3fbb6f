--------------------------- MODULE ParameterDump ----------------------------
(***************************************************************************)
(* wmbus-gateway --dump-params (dump_parameters, main.cpp): one GET after  *)
(* another, each with 500 ms to be answered, one line logged for each.     *)
(* The response repeats the number of the parameter it is about, which the *)
(* code does not look at: it labels the line with the one it asked for.    *)
(***************************************************************************)
EXTENDS MetisExchange

CONSTANTS LastParam,    \* 0x50 in the code
          MaxFaults,    \* bound: commands or answers lost, or answers late
          MaxTelegrams  \* bound: telegrams, whole or torn, that come in meanwhile

ASSUME DumpAssumption ==
    /\ LastParam \in Nat
    /\ MaxFaults \in Nat /\ MaxTelegrams \in Nat

VARIABLES pc,       \* "send", "wait", or "done": the process has returned 0
          param,    \* the loop variable
          log,      \* the lines: the label, and what the values shown are of
          running,  \* g_running
          faults, telegrams,  \* how much of the bounds has been used
          late,     \* an answer has come after the gateway had given it up
          swallowed \* how many answers false headers have kept from a wait

budget == <<faults, telegrams, late>>
vars == <<line, pc, param, log, running, budget, swallowed>>

Params == 0 .. LastParam
NoResponse == -1
Telegram == [code |-> "telegram", status |-> "ok", about |-> NoResponse]

Init ==
    /\ QuietLine
    /\ pc = "send" /\ param = 0 /\ log = <<>> /\ running = TRUE
    /\ faults = 0 /\ telegrams = 0 /\ late = FALSE /\ swallowed = 0

\* Mutant: the loop goes one parameter too far.
SendOneMore ==
    /\ pc = "send" /\ param \in 0 .. LastParam + 1 /\ running
    /\ Write(param)
    /\ pc' = "wait"
    /\ UNCHANGED <<param, log, running, budget, swallowed>>

\* The head of the loop: parameters left, and no signal so far.
Send ==
    /\ pc = "send" /\ param \in Params /\ running
    /\ Write(param)
    /\ pc' = "wait"
    /\ UNCHANGED <<param, log, running, budget, swallowed>>

Finish ==
    /\ pc = "send" /\ (param \notin Params \/ ~running)
    /\ pc' = "done"
    /\ UNCHANGED <<line, param, log, running, budget, swallowed>>

WaitOn ==
    /\ pc = "wait"
    /\ \E n \in 1 .. Len(fromDevice) :
          /\ ReadOthers("getResponse", n)
          /\ swallowed' = swallowed + Cardinality(Answers("getResponse", Received(n)))
    /\ UNCHANGED <<pc, param, log, running, budget>>

LogLine(about) ==
    /\ log' = Append(log, [label |-> param, about |-> about])
    /\ pc' = "send" /\ param' = param + 1

Answered ==
    /\ pc = "wait"
    /\ \E n \in 1 .. Len(fromDevice) : \E k \in 1 .. Len(Received(n)) :
          /\ ReadAnswer("getResponse", n, k)
          /\ LogLine(Received(n)[k].about)
    /\ UNCHANGED <<running, budget, swallowed>>

\* Mutant: the wait is over although bytes have come in.
HastyTimeout ==
    /\ pc = "wait"
    /\ LogLine(NoResponse)
    /\ UNCHANGED <<line, running, budget, swallowed>>

\* Mutant: no time limit on the wait.
NoTimeout == FALSE /\ UNCHANGED vars

Fault == faults < MaxFaults /\ faults' = faults + 1

\* The 500 ms are over: "no response", and on to the next, with no pause to
\* drain the line as metis_send_and_wait has.  The GET or its answer is lost or
\* swallowed, or the answer is late, which is one of the faults.
Timeout ==
    /\ pc = "wait"
    /\ LogLine(NoResponse)
    /\ IF toDevice = <<>> /\ fromDevice = <<>>
       THEN UNCHANGED <<faults, late>>
       ELSE Fault /\ late' = TRUE
    /\ UNCHANGED <<line, running, telegrams, swallowed>>

Signal ==
    /\ running /\ running' = FALSE
    /\ UNCHANGED <<line, pc, param, log, budget, swallowed>>

\* The device (external): answers, or a command or its answer is lost, of which
\* a torn frame can remain.
DeviceHandles ==
    /\ toDevice # <<>>
    /\ Handle(<<Ack("getResponse", Head(toDevice))>>)
    /\ UNCHANGED <<pc, param, log, running, budget, swallowed>>

Lose ==
    /\ Fault
    /\ \E reply \in Remains : Handle(reply)
    /\ UNCHANGED <<pc, param, log, running, telegrams, late, swallowed>>

\* A telegram, whole or not: cut by serial_open's flush or damaged.
DeviceReports ==
    /\ telegrams < MaxTelegrams /\ telegrams' = telegrams + 1
    /\ \E frame \in {Telegram} \cup TornFrames : Report(frame)
    /\ UNCHANGED <<pc, param, log, running, faults, late, swallowed>>

Gateway == Send \/ Finish \/ WaitOn \/ Answered \/ Timeout

Next == Gateway \/ Signal \/ DeviceHandles \/ Lose \/ DeviceReports

\* The gateway's thread runs, 500 ms pass, the device deals with commands.
Fairness ==
    /\ WF_vars(Send \/ Finish \/ WaitOn \/ Answered)
    /\ WF_vars(Timeout) /\ WF_vars(DeviceHandles)

Spec == Init /\ [][Next]_vars /\ Fairness

-----------------------------------------------------------------------------
TypeOK ==
    /\ toDevice \in Seq(Params)
    /\ \A queue \in {fromDevice, rx} :
          queue \in Seq([code : {"getResponse", "telegram"}, status : {"ok"},
                         about : Params \cup {NoResponse}] \cup TornFrames)
    /\ claim \in 0 .. MaxClaim
    /\ pc \in {"send", "wait", "done"} /\ param \in 0 .. LastParam + 1
    /\ log \in Seq([label : Params, about : Params \cup {NoResponse}])
    /\ running \in BOOLEAN
    /\ faults \in 0 .. MaxFaults /\ telegrams \in 0 .. MaxTelegrams /\ late \in BOOLEAN
    /\ swallowed \in Nat

\* main.cpp:80 logs each answer under the number of the parameter it is for.
LabelsMatch ==
    \A i \in 1 .. Len(log) : log[i].about \in {log[i].label, NoResponse}

\* "no response" is logged no more often than commands or answers were lost or
\* late, or answers swallowed by the false header in a torn frame in front of
\* them (any number by one header); a whole telegram in between costs none.
MissingOnlyIfLost ==
    Cardinality({i \in 1 .. Len(log) : log[i].about = NoResponse}) <= faults + swallowed

\* However late the answers are, they come out in the order of the questions,
\* each at most once, and never under the label of an earlier parameter: a
\* line can show the values of a parameter asked for before it, and no other.
AnswersInOrder ==
    \A i, j \in 1 .. Len(log) :
        /\ log[i].about <= log[i].label
        /\ i < j /\ log[i].about # NoResponse /\ log[j].about # NoResponse
              => log[i].about < log[j].about

\* A GET that is answered in time is answered under its own label: the labels
\* are right until the first late answer, whatever was lost.
LabelsMatchIfPrompt == ~late => LabelsMatch

\* The dump comes to an end, with a silent device too.
DumpEnds == <>(pc = "done")
=============================================================================
