------------------------------ MODULE Startup ------------------------------
(***************************************************************************)
(* main() and serial_open (main.cpp:181, serial_port.cpp): from the        *)
(* command line to the mode it asks for, and the descriptors of the serial *)
(* port on the way.  What goes on between opening a port and closing it is *)
(* in Activation, ParameterDump and ListenLoop; here it ends well or not.  *)
(***************************************************************************)
EXTENDS CommandLine

CONSTANTS MaxDescriptors,  \* how many the process can have for the port
          MaxFailures      \* bound: failed system calls and broken sessions

ASSUME StartupAssumption == MaxDescriptors \in Nat \ {0} /\ MaxFailures \in Nat

VARIABLES stage,    \* of main: the function that has the port, or is to open it
          call,     \* the next call of serial_open; "opened" when it has returned
          fds,      \* open descriptors of the serial port
          failures,
          running   \* g_running

vars == <<cli, stage, call, fds, failures, running>>

\* to_speed.
Supported == {"1200", "2400", "4800", "9600", "19200", "38400", "57600", "115200"}

Init ==
    /\ ParseInit
    /\ stage = "parse" /\ call = "none" /\ fds = 0 /\ failures = 0 /\ running = TRUE

Parse ==
    /\ stage = "parse"
    /\ ParseValued \/ ParseOther
    /\ stage' = IF threw' THEN "aborted" ELSE "parse"
    /\ UNCHANGED <<call, fds, failures, running>>

-----------------------------------------------------------------------------
(***************************************************************************)
(* main: which function comes next.  activate opens the port twice, before *)
(* and after the reset.                                                    *)
(***************************************************************************)
After(done) ==
    IF done = "parse" /\ opts.activate THEN "activate"
    ELSE IF done = "activate" THEN "setMode"
    ELSE IF done \in {"parse", "setMode"}
    THEN IF opts.dump_params THEN "dump" ELSE "listen"
    ELSE "exited"

Enter(next) ==
    /\ stage' = next
    /\ call' = IF next = "exited" THEN "none" ELSE "open"

\* if (opts.show_help): usage, and nothing is opened.
Help ==
    /\ stage = "parse" /\ Parsed /\ opts.show_help
    /\ Enter("exited")
    /\ UNCHANGED <<cli, fds, failures, running>>

Dispatch ==
    /\ stage = "parse" /\ Parsed /\ ~opts.show_help
    /\ Enter(After("parse"))
    /\ UNCHANGED <<cli, fds, failures, running>>

\* An exception out of serial_open is caught by listen_loop alone, which tries
\* again after the interval.  Anywhere else it ends the process.
Throw ==
    /\ stage' = IF stage = "listen" THEN "listen" ELSE "aborted"
    /\ call' = IF stage = "listen" THEN "open" ELSE "none"

Fails == failures < MaxFailures /\ failures' = failures + 1

-----------------------------------------------------------------------------
(***************************************************************************)
(* serial_open.                                                            *)
(***************************************************************************)
Open ==
    /\ call = "open" /\ (stage = "listen" => running)
    /\ fds < MaxDescriptors
    /\ fds' = fds + 1 /\ call' = "tcgetattr"
    /\ UNCHANGED <<cli, stage, failures, running>>

\* No such port, or too many open files.
OpenFails ==
    /\ call = "open" /\ (stage = "listen" => running)
    /\ IF fds < MaxDescriptors THEN Fails ELSE UNCHANGED failures
    /\ Throw
    /\ UNCHANGED <<cli, fds, running>>

\* Mutant: the descriptor is not closed before the exception is thrown.
AttrFailsUnclosed ==
    /\ call \in {"tcgetattr", "tcsetattr"} /\ Fails
    /\ Throw
    /\ UNCHANGED <<cli, fds, running>>

\* tcgetattr or tcsetattr fails: close, then throw.
AttrFails ==
    /\ call \in {"tcgetattr", "tcsetattr"} /\ Fails
    /\ fds' = fds - 1 /\ Throw
    /\ UNCHANGED <<cli, running>>

GetAttr ==
    /\ call = "tcgetattr" /\ call' = "to_speed"
    /\ UNCHANGED <<cli, stage, fds, failures, running>>

\* to_speed throws, and the descriptor stays open.
Unsupported ==
    /\ call = "to_speed" /\ opts.baud_rate \notin Supported
    /\ Throw
    /\ UNCHANGED <<cli, fds, failures, running>>

ToSpeed ==
    /\ call = "to_speed" /\ opts.baud_rate \in Supported
    /\ call' = "tcsetattr"
    /\ UNCHANGED <<cli, stage, fds, failures, running>>

SetAttr ==
    /\ call = "tcsetattr" /\ call' = "opened"
    /\ UNCHANGED <<cli, stage, fds, failures, running>>

-----------------------------------------------------------------------------
(***************************************************************************)
(* The functions that use the port.                                        *)
(***************************************************************************)
\* activate and dump_parameters are done with the port and close it.
Done ==
    /\ call = "opened" /\ stage # "listen"
    /\ fds' = fds - 1 /\ Enter(After(stage))
    /\ UNCHANGED <<cli, failures, running>>

\* A command of activate is not acknowledged: the exception ends the process.
CommandFails ==
    /\ call = "opened" /\ stage \in {"activate", "setMode"} /\ Fails
    /\ stage' = "aborted" /\ call' = "none"
    /\ UNCHANGED <<cli, fds, running>>

\* read() fails: listen_loop closes the port and tries again.
SessionBreaks ==
    /\ call = "opened" /\ stage = "listen" /\ Fails
    /\ fds' = fds - 1 /\ call' = "open"
    /\ UNCHANGED <<cli, stage, running>>

\* Mutant: close() without looking whether there is something to close.
LeaveClosing ==
    /\ stage = "listen" /\ ~running /\ call \in {"open", "opened"}
    /\ fds' = fds - 1
    /\ Enter("exited")
    /\ UNCHANGED <<cli, failures, running>>

\* g_running is false: if (fd >= 0) close(fd).
Leave ==
    /\ stage = "listen" /\ ~running /\ call \in {"open", "opened"}
    /\ fds' = IF call = "opened" THEN fds - 1 ELSE fds
    /\ Enter("exited")
    /\ UNCHANGED <<cli, failures, running>>

Signal ==
    /\ running /\ stage \notin {"parse", "exited", "aborted"} /\ running' = FALSE
    /\ UNCHANGED <<cli, stage, call, fds, failures>>

SerialOpen == Open \/ OpenFails \/ AttrFails \/ GetAttr \/ Unsupported \/ ToSpeed \/ SetAttr

Process == Parse \/ Help \/ Dispatch \/ SerialOpen \/ Done \/ CommandFails \/ Leave

Next == Process \/ SessionBreaks \/ Signal

\* The process runs; nothing makes a session break.
Spec == Init /\ [][Next]_vars /\ WF_vars(Process)

-----------------------------------------------------------------------------
Using == call \in {"tcgetattr", "to_speed", "tcsetattr", "opened"}

TypeOK ==
    /\ stage \in {"parse", "activate", "setMode", "dump", "listen", "exited", "aborted"}
    /\ call \in {"none", "open", "tcgetattr", "to_speed", "tcsetattr", "opened"}
    /\ call = "none" <=> stage \in {"parse", "exited", "aborted"}
    /\ fds \in 0 .. MaxDescriptors /\ failures \in 0 .. MaxFailures /\ running \in BOOLEAN
    /\ at \in 1 .. Len(args) + 2 /\ threw \in BOOLEAN
    /\ DOMAIN opts = DOMAIN Defaults

\* Whichever of its calls fails, in whichever function: serial_open leaves no
\* descriptor behind, unless the baud rate is one that to_speed rejects, after
\* open(): that costs a descriptor every 30 seconds.
NoDescriptorLost ==
    opts.baud_rate \in Supported /\ stage # "aborted" => fds = IF Using THEN 1 ELSE 0

\* "Retrying serial connection in 30 seconds" (main.cpp:131): with a baud rate
\* that is supported, a listening gateway has the port open sooner or later,
\* however often serial_open has failed before.
ListensAgain ==
    stage = "listen" /\ opts.baud_rate \in Supported ~> call = "opened" \/ ~running
=============================================================================
