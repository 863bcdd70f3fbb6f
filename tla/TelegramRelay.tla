---------------------------- MODULE TelegramRelay ----------------------------
(***************************************************************************)
(* What the gateway promises about the telegrams the device receives by    *)
(* radio, numbered as they arrive: it passes on some of them, each at most *)
(* once, in the order of their arrival, and none that never arrived.       *)
(***************************************************************************)
EXTENDS Integers, Sequences

VARIABLES arrived,  \* how many telegrams have arrived so far
          passed    \* the numbers of those passed on

vars == <<arrived, passed>>

Init == arrived = 0 /\ passed = <<>>

Arrive == arrived' = arrived + 1 /\ UNCHANGED passed

Pass ==
    /\ \E i \in 1 .. arrived :
          /\ \A k \in 1 .. Len(passed) : passed[k] < i
          /\ passed' = Append(passed, i)
    /\ UNCHANGED arrived

Next == Arrive \/ Pass

Spec == Init /\ [][Next]_vars
=============================================================================
