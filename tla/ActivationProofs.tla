-------------------------- MODULE ActivationProofs --------------------------
(***************************************************************************)
(* Proofs about Activation, for every number of attempts, faults, telegrams *)
(* and commands under way: what the gateway may conclude from an answer    *)
(* that does not say which command it is for.                              *)
(***************************************************************************)
EXTENDS Activation, MetisExchangeProofs, FiniteSetTheorems

Commands == Settings \cup {"reset", "setMode"}
Pcs == {"open", "send", "wait", "drain", "pause", "activated", "listen", "exited"} \cup Dead

IsSet(frame) == frame.code = "setResponse"
IsMode(frame) == frame.code = "setModeResponse"

Placed ==
    /\ pc = "pause" => step = ResetStep
    /\ pc = "wait" => step # ResetStep

\* An answer that says ok is about something the device has done.
Genuine ==
    \A k \in 1 .. Len(Coming) : IsSet(Coming[k]) =>
        /\ Coming[k].about \in Settings
        /\ Coming[k].status = "ok" => Coming[k].about \in device.set

\* Until an answer is late there is at most one SET or answer to it under way,
\* the one waited for.
Prompt ==
    ~late =>
        /\ \A k \in 1 .. Len(rx) : ~IsSet(rx[k])
        /\ \A k \in 1 .. Len(Coming) :
              IsSet(Coming[k]) => pc = "wait" /\ Coming[k].about = Steps[step]
        /\ \A k \in 1 .. Len(toDevice) :
              toDevice[k] \in Settings => pc = "wait" /\ toDevice[k] = Steps[step]
        /\ \A j, k \in 1 .. Len(Coming) : j < k => ~(IsSet(Coming[j]) /\ IsSet(Coming[k]))
        /\ \A j, k \in 1 .. Len(toDevice) :
              j < k => ~(toDevice[j] \in Settings /\ toDevice[k] \in Settings)
        /\ \A j \in 1 .. Len(Coming), k \in 1 .. Len(toDevice) :
              ~(IsSet(Coming[j]) /\ toDevice[k] \in Settings)

\* No reset is under way behind a SET_MODE: not from this process, which sends
\* SET_MODE last, and not from one before it.
ModeLast ==
    \A j, k \in 1 .. Len(toDevice) : j < k /\ toDevice[j] = "setMode" => toDevice[k] # "reset"

ModeUnasked ==
    step < Len(Steps) =>
        /\ \A k \in 1 .. Len(toDevice) : toDevice[k] # "setMode"
        /\ pc \notin {"open"} \cup Dead => \A k \in 1 .. Len(Coming) : ~IsMode(Coming[k])

\* Nothing that is under way can take the device out of its mode.
Settled == InMode(device) /\ \A k \in 1 .. Len(toDevice) : toDevice[k] # "reset"

ModeSet ==
    /\ step = Len(Steps) =>
          \A k \in 1 .. Len(Coming) : IsMode(Coming[k]) /\ Coming[k].status = "ok" => Settled
    /\ pc \in {"activated", "listen"} => step = Len(Steps) /\ Settled

\* Every attempt that has failed, every refusal on its way to the gateway, and
\* a wait that no answer can end stand for a fault or a swallowed answer each.
Costs == faults + swallowed
IsRefusal(frame) == frame.code # "torn" /\ frame.status = "failed"
Refused == {k \in 1 .. Len(Coming) : IsRefusal(Coming[k])}
UnderWay ==
    \/ \E k \in 1 .. Len(toDevice) : Response(toDevice[k]) = Response(Steps[step])
    \/ \E k \in 1 .. Len(fromDevice) : fromDevice[k].code = Response(Steps[step])
Accounted ==
    /\ Cardinality(Refused) + attempt - 1 <= Costs
    /\ pc = "drain" => Cardinality(Refused) + attempt <= Costs
    /\ pc = "wait" => UnderWay \/ Cardinality(Refused) + attempt <= Costs
    /\ RetriesSuffice

IInv ==
    /\ TypeOK /\ Placed /\ Genuine /\ AcknowledgedIsDone /\ Prompt
    /\ ModeLast /\ ModeUnasked /\ ModeSet /\ Accounted

-----------------------------------------------------------------------------
(***************************************************************************)
(* The commands, what they do and how they are answered.                   *)
(***************************************************************************)
LEMMA StepsAre ==
    /\ Len(Steps) = 5 /\ ResetStep = 4 /\ Range(Steps) = Commands
    /\ Steps[4] = "reset" /\ Steps[5] = "setMode"
    /\ \A i \in 1 .. 5 : Steps[i] \in Commands
    /\ \A i \in 1 .. 5 : Steps[i] \in Settings <=> i < 4
    /\ \A i \in 1 .. 5 : Steps[i] = "reset" <=> i = 4
    /\ \A i \in 1 .. 5 : Steps[i] = "setMode" <=> i = 5
<1>1. /\ Len(Steps) = 5 /\ DOMAIN Steps = 1 .. 5
      /\ Steps[1] = "outEnable" /\ Steps[2] = "rssiEnable" /\ Steps[3] = "modePreselect"
      /\ Steps[4] = "reset" /\ Steps[5] = "setMode"
  BY DEF Steps
<1>2. 1 .. 5 = {1, 2, 3, 4, 5}
  OBVIOUS
<1>3. Range(Steps) = {Steps[i] : i \in {1, 2, 3, 4, 5}}
  BY <1>1, <1>2 DEF Range
<1>4. Range(Steps) = Commands
  BY <1>1, <1>3 DEF Commands, Settings
<1>. QED
  BY <1>1, <1>2, <1>4 DEF ResetStep, Commands, Settings

LEMMA ResponseIs ==
    ASSUME NEW command \in Commands
    PROVE  /\ Response(command) \in {"setResponse", "resetResponse", "setModeResponse"}
           /\ Response(command) = "setResponse" <=> command \in Settings
           /\ Response(command) = "setModeResponse" <=> command = "setMode"
BY DEF Response, Commands, Settings

Devices == [set : SUBSET Settings, mode : {"factory", "C2_T2_other"}]

LEMMA EffectIs ==
    ASSUME NEW d \in Devices, NEW command \in Commands
    PROVE  /\ Effect(d, command) \in Devices
           /\ d.set \subseteq Effect(d, command).set
           /\ command \in Settings => command \in Effect(d, command).set
           /\ command = "setMode" => InMode(Effect(d, command))
           /\ command # "reset" /\ InMode(d) => InMode(Effect(d, command))
<1>1. CASE command \in Settings
  <2>1. Effect(d, command) = [d EXCEPT !.set = @ \cup {command}]
    BY <1>1 DEF Effect, Settings
  <2>. QED
    BY <1>1, <2>1 DEF Devices, InMode, Settings
<1>2. CASE command = "reset"
  <2>1. Effect(d, command) =
            [d EXCEPT !.mode = IF "modePreselect" \in d.set THEN "C2_T2_other" ELSE "factory"]
    BY <1>2 DEF Effect, Settings
  <2>. QED
    BY <1>2, <2>1 DEF Devices, InMode, Settings
<1>3. CASE command = "setMode"
  <2>1. Effect(d, command) = [d EXCEPT !.mode = "C2_T2_other"]
    BY <1>3 DEF Effect, Settings
  <2>. QED
    BY <1>3, <2>1 DEF Devices, InMode, Settings
<1>. QED
  BY <1>1, <1>2, <1>3 DEF Commands

LEMMA Types ==
    ASSUME TypeOK
    PROVE  /\ rx \in Seq(Frames) /\ fromDevice \in Seq(Frames) /\ toDevice \in Seq(Commands)
           /\ Coming \in Seq(Frames) /\ Len(Coming) \in Nat /\ Len(rx) \in Nat
           /\ Len(fromDevice) \in Nat /\ Len(toDevice) \in 0 .. MaxInFlight
           /\ step \in 1 .. 5 /\ attempt \in Nat \ {0}
           /\ faults \in Nat /\ swallowed \in Nat /\ device \in Devices
           /\ pc \in Pcs /\ \A k \in 1 .. Len(toDevice) : toDevice[k] \in Commands
<1>1. /\ rx \in Seq(Frames) /\ fromDevice \in Seq(Frames) /\ toDevice \in Seq(Commands)
      /\ step \in 1 .. 5 /\ device \in Devices /\ pc \in Pcs
  BY StepsAre DEF TypeOK, Devices, Pcs
<1>2. attempt \in Nat \ {0}
      /\ faults \in Nat /\ swallowed \in Nat /\ Len(toDevice) \in 0 .. MaxInFlight
  BY <1>1, ActivationAssumption DEF TypeOK
<1>3. Coming \in Seq(Frames)
  BY <1>1, ComingIs
<1>. QED
  BY <1>1, <1>2, <1>3

-----------------------------------------------------------------------------
(***************************************************************************)
(* Refusals on their way to the gateway.                                   *)
(***************************************************************************)
LEMMA RefusedFinite ==
    ASSUME TypeOK
    PROVE  IsFiniteSet(Refused) /\ Cardinality(Refused) \in Nat
<1>1. IsFiniteSet(1 .. Len(Coming)) /\ Refused \subseteq 1 .. Len(Coming)
  BY Types, FS_Interval DEF Refused
<1>2. IsFiniteSet(Refused)
  BY <1>1, FS_Subset
<1>. QED
  BY <1>2, FS_CardinalityType

\* Taking frames off the front leaves no more refusals, and one less if the
\* last frame taken is one.
LEMMA ShiftedRefused ==
    ASSUME TypeOK, NEW k \in 0 .. Len(Coming), Shifted(k)
    PROVE  /\ Cardinality(Refused') \in Nat /\ Cardinality(Refused') <= Cardinality(Refused)
           /\ k \in Refused => Cardinality(Refused') + 1 <= Cardinality(Refused)
<1>1. /\ Len(Coming) \in Nat /\ Len(Coming') = Len(Coming) - k
      /\ \A i \in 1 .. Len(Coming') : i + k \in 1 .. Len(Coming) /\ Coming'[i] = Coming[i + k]
  BY Types DEF Shifted
<1> DEFINE Left == {i \in Refused : i > k}
           Place == [j \in Refused' |-> j + k]
<1>2. IsFiniteSet(Refused) /\ Cardinality(Refused) \in Nat
  BY RefusedFinite
<1>3. IsFiniteSet(Left)
  BY <1>2, FS_Subset
<1>4. \A j \in Refused' : j \in Nat /\ j + k \in Left
  <2> SUFFICES ASSUME NEW j \in Refused' PROVE j \in Nat /\ j + k \in Left
    OBVIOUS
  <2>1. j \in 1 .. Len(Coming') /\ IsRefusal(Coming'[j])
    BY DEF Refused
  <2>. QED
    BY <1>1, <2>1 DEF Refused
<1>5. IsFiniteSet(Refused') /\ Cardinality(Refused') <= Cardinality(Left)
  <2>1. \A i, j \in Refused' : i + k = j + k => i = j
    BY <1>1, <1>4
  <2>2. Place \in Injection(Refused', Left)
    BY <1>4, <2>1 DEF Injection, IsInjective
  <2> HIDE DEF Left, Place
  <2>. QED
    BY <1>3, <2>2, FS_Injection
<1>6. Cardinality(Left) <= Cardinality(Refused)
  BY <1>2, FS_Subset
<1>7. ASSUME k \in Refused
      PROVE  Cardinality(Left) <= Cardinality(Refused) - 1
  <2>1. Left \subseteq Refused \ {k}
    BY <1>1
  <2>2. IsFiniteSet(Refused \ {k}) /\ Cardinality(Refused \ {k}) = Cardinality(Refused) - 1
    BY <1>2, <1>7, FS_RemoveElement
  <2>. QED
    BY <2>1, <2>2, FS_Subset
<1>8. Cardinality(Refused') \in Nat /\ Cardinality(Left) \in Nat
  BY <1>3, <1>5, FS_CardinalityType
<1>. QED
  <2> HIDE DEF Left
  <2>. QED
    BY <1>2, <1>5, <1>6, <1>7, <1>8

\* A frame that comes in is one refusal more at most.
LEMMA AddedRefused ==
    ASSUME TypeOK, NEW frame, Added(frame)
    PROVE  /\ Cardinality(Refused') \in Nat
           /\ Cardinality(Refused') <= Cardinality(Refused) + 1
           /\ ~IsRefusal(frame) => Refused' = Refused
<1>1. /\ Len(Coming) \in Nat /\ Len(Coming') = Len(Coming) + 1
      /\ \A i \in 1 .. Len(Coming) : Coming'[i] = Coming[i]
      /\ Coming'[Len(Coming) + 1] = frame
  BY Types DEF Added
<1>2. \A i \in 1 .. Len(Coming') : i \in 1 .. Len(Coming) \/ i = Len(Coming) + 1
  BY <1>1
<1>3. \A i \in 1 .. Len(Coming) : i \in 1 .. Len(Coming')
  BY <1>1
<1>4. ~IsRefusal(frame) => Refused' = Refused
  BY <1>1, <1>2, <1>3 DEF Refused
<1>5. Refused' \subseteq Refused \cup {Len(Coming) + 1}
  BY <1>1, <1>2 DEF Refused
<1>6. IsFiniteSet(Refused) /\ Cardinality(Refused) \in Nat
  BY RefusedFinite
<1>7. /\ IsFiniteSet(Refused \cup {Len(Coming) + 1})
      /\ Cardinality(Refused \cup {Len(Coming) + 1}) \in
            {Cardinality(Refused), Cardinality(Refused) + 1}
  BY <1>6, FS_AddElement
<1>8. IsFiniteSet(Refused') /\ Cardinality(Refused') <= Cardinality(Refused \cup {Len(Coming) + 1})
  BY <1>5, <1>7, FS_Subset
<1>9. Cardinality(Refused') \in Nat
  BY <1>8, FS_CardinalityType
<1>. QED
  BY <1>4, <1>6, <1>7, <1>8, <1>9

-----------------------------------------------------------------------------
(***************************************************************************)
(* The steps that read.                                                    *)
(***************************************************************************)
LEMMA ShiftedGenuine ==
    ASSUME IInv, NEW k \in 0 .. Len(Coming), Shifted(k), UNCHANGED device
    PROVE  Genuine'
BY DEF IInv, Genuine, Shifted, IsSet

LEMMA ShiftedMode ==
    ASSUME IInv, NEW k \in 0 .. Len(Coming), Shifted(k), UNCHANGED <<toDevice, device, step>>,
           pc' = pc \/ (pc = "wait" /\ pc' \in {"drain", "send"})
    PROVE  ModeLast' /\ ModeUnasked' /\ ModeSet'
<1>1. ModeLast /\ ModeUnasked /\ ModeSet
  BY DEF IInv
<1>2. \A i \in 1 .. Len(Coming') : i + k \in 1 .. Len(Coming) /\ Coming'[i] = Coming[i + k]
  BY DEF Shifted
<1>3. pc \in {"open"} \cup Dead => pc' = pc
  BY DEF Dead
<1>4. ModeLast'
  BY <1>1 DEF ModeLast
<1>5. ModeUnasked'
  BY <1>1, <1>2, <1>3 DEF ModeUnasked, IsMode
<1>6. Settled' <=> Settled
  BY DEF Settled, InMode
<1>7. ModeSet'
  BY <1>1, <1>2, <1>6 DEF ModeSet, IsMode
<1>. QED
  BY <1>4, <1>5, <1>7

LEMMA ShiftedPrompt ==
    ASSUME IInv, NEW k \in 0 .. Len(Coming), Shifted(k), UNCHANGED <<toDevice, step, late, pc>>,
           rx' = <<>>
    PROVE  Prompt'
<1> SUFFICES ASSUME ~late PROVE Prompt'
  BY DEF Prompt
<1>1. Prompt /\ Len(Coming) \in Nat
  BY Types DEF IInv
<1>2. \A i \in 1 .. Len(Coming') : i + k \in 1 .. Len(Coming) /\ Coming'[i] = Coming[i + k]
  BY DEF Shifted
<1>3. \A i \in 1 .. Len(rx') : ~IsSet(rx'[i])
  OBVIOUS
<1>4. \A i \in 1 .. Len(Coming') :
         IsSet(Coming'[i]) => pc = "wait" /\ Coming'[i].about = Steps[step]
  BY <1>1, <1>2 DEF Prompt
<1>5. ASSUME NEW i \in 1 .. Len(Coming'), NEW j \in 1 .. Len(Coming'), i < j
      PROVE  ~(IsSet(Coming'[i]) /\ IsSet(Coming'[j]))
  <2>1. i + k < j + k
    BY <1>5, <1>1
  <2>. QED
    BY <1>1, <1>2, <2>1 DEF Prompt
<1>6. \A i \in 1 .. Len(Coming'), j \in 1 .. Len(toDevice) :
          ~(IsSet(Coming'[i]) /\ toDevice[j] \in Settings)
  BY <1>1, <1>2 DEF Prompt
<1>7. /\ \A j \in 1 .. Len(toDevice) :
            toDevice[j] \in Settings => pc = "wait" /\ toDevice[j] = Steps[step]
      /\ \A i, j \in 1 .. Len(toDevice) :
            i < j => ~(toDevice[i] \in Settings /\ toDevice[j] \in Settings)
  BY <1>1 DEF Prompt
<1>. QED
  BY <1>3, <1>4, <1>5, <1>6, <1>7 DEF Prompt

\* A wait passes over the answer only if it is swallowed, which is counted.
LEMMA WaitOnIInv ==
    ASSUME IInv, WaitOn
    PROVE  IInv'
<1> DEFINE code == Response(Steps[step])
<1>1. /\ TypeOK /\ Placed /\ AcknowledgedIsDone /\ Accounted
      /\ rx \in Seq(Frames) /\ fromDevice \in Seq(Frames) /\ Len(Coming) \in Nat
      /\ Len(rx) \in Nat /\ Len(fromDevice) \in Nat
      /\ attempt \in Nat /\ faults \in Nat /\ swallowed \in Nat
  BY Types DEF IInv
<1>2. PICK n \in 1 .. Len(fromDevice) :
          /\ ReadOthers(code, n)
          /\ swallowed' = swallowed + Cardinality(Answers(code, Received(n)))
  BY DEF WaitOn
<1> DEFINE answers == Cardinality(Answers(code, Received(n)))
<1>3. /\ pc = "wait"
      /\ UNCHANGED <<toDevice, pc, step, attempt, running, device, faults, telegrams, late>>
  BY <1>2 DEF WaitOn, ReadOthers, gateway, budget
<1> HIDE DEF code
<1>4. /\ rx' = <<>> /\ claim' \in 0 .. MaxClaim /\ fromDevice' \in Seq(Frames)
      /\ answers \in Nat
      /\ \E k \in 1 .. Len(Coming) :
            Shifted(k) /\ ((\E i \in 1 .. k : Coming[i].code = code) => answers >= 1)
  BY <1>1, <1>2, ReadOthersShifts
<1>5. PICK k \in 1 .. Len(Coming) :
          Shifted(k) /\ ((\E i \in 1 .. k : Coming[i].code = code) => answers >= 1)
  BY <1>4
<1>6. swallowed' = swallowed + answers
  BY <1>2
<1> HIDE DEF answers
<1>7. TypeOK'
  <2>1. swallowed' \in Nat
    BY <1>1, <1>4, <1>6
  <2>. QED
    BY <1>1, <1>3, <1>4, <2>1 DEF TypeOK
<1>8. Placed' /\ AcknowledgedIsDone'
  BY <1>1, <1>3 DEF Placed, AcknowledgedIsDone
<1>9. Genuine' /\ ModeLast' /\ ModeUnasked' /\ ModeSet' /\ Prompt'
  <2>1. k \in 0 .. Len(Coming)
    BY <1>1
  <2>. QED
    BY <1>3, <1>4, <1>5, <2>1, ShiftedGenuine, ShiftedMode, ShiftedPrompt
<1>10. UnderWay => UnderWay' \/ answers >= 1
  <2>1. CASE \E i \in 1 .. Len(toDevice) : Response(toDevice[i]) = code
    BY <1>3, <2>1 DEF UnderWay, code
  <2>2. ASSUME NEW m \in 1 .. Len(fromDevice), fromDevice[m].code = code, ~(answers >= 1)
        PROVE  \E i \in 1 .. Len(fromDevice') : fromDevice'[i].code = code
    <3>1. Coming[Len(rx) + m] = fromDevice[m] /\ Len(rx) + m \in 1 .. Len(Coming)
      BY <1>1, ComingIs
    <3>2. Len(rx) + m > k
      BY <1>1, <1>5, <2>2, <3>1
    <3>3. /\ Len(Coming') = Len(Coming) - k
          /\ \A i \in 1 .. Len(Coming') : Coming'[i] = Coming[i + k]
      BY <1>5 DEF Shifted
    <3>4. Len(rx) + m - k \in 1 .. Len(Coming') /\ (Len(rx) + m - k) + k = Len(rx) + m
      BY <1>1, <3>1, <3>2, <3>3
    <3>5. Coming'[Len(rx) + m - k] = fromDevice[m]
      BY <3>1, <3>3, <3>4
    <3>6. Coming' = fromDevice'
      <4>1. <<>> \o fromDevice' = fromDevice'
        BY <1>4
      <4>. QED
        BY <1>4, <4>1 DEF Coming
    <3>. QED
      BY <2>2, <3>4, <3>5, <3>6
  <2>3. UnderWay => \/ \E i \in 1 .. Len(toDevice) : Response(toDevice[i]) = code
                    \/ \E i \in 1 .. Len(fromDevice) : fromDevice[i].code = code
    BY DEF UnderWay, code
  <2>4. (\E i \in 1 .. Len(fromDevice') : fromDevice'[i].code = code) => UnderWay'
    BY <1>3 DEF UnderWay, code
  <2>. QED
    BY <2>1, <2>2, <2>3, <2>4
<1>11. Accounted'
  <2>1. /\ Cardinality(Refused') \in Nat /\ Cardinality(Refused) \in Nat
        /\ Cardinality(Refused') <= Cardinality(Refused)
    <3>1. k \in 0 .. Len(Coming)
      BY <1>1
    <3>. QED
      BY <1>1, <1>5, <3>1, ShiftedRefused, RefusedFinite
  <2>2. Costs' = Costs + answers /\ Costs \in Nat /\ answers \in Nat
    BY <1>1, <1>3, <1>4, <1>6 DEF Costs
  <2>3. Cardinality(Refused') + attempt - 1 <= Costs'
    BY <1>1, <2>1, <2>2 DEF Accounted
  <2>4. UnderWay' \/ Cardinality(Refused') + attempt <= Costs'
    <3>1. Cardinality(Refused) + attempt - 1 <= Costs
      BY <1>1 DEF Accounted
    <3>2. answers >= 1 => Cardinality(Refused') + attempt <= Costs'
      BY <1>1, <2>1, <2>2, <3>1
    <3>3. Cardinality(Refused) + attempt <= Costs => Cardinality(Refused') + attempt <= Costs'
      BY <1>1, <2>1, <2>2
    <3>4. UnderWay \/ Cardinality(Refused) + attempt <= Costs
      BY <1>1, <1>3 DEF Accounted
    <3>. QED
      BY <1>10, <3>2, <3>3, <3>4
  <2>. QED
    BY <1>3, <2>3, <2>4 DEF Accounted, RetriesSuffice
<1>. QED
  BY <1>7, <1>8, <1>9, <1>11 DEF IInv

LEMMA DrainMoreIInv ==
    ASSUME IInv, DrainMore
    PROVE  IInv'
<1>1. /\ TypeOK /\ Placed /\ AcknowledgedIsDone /\ Accounted
      /\ rx \in Seq(Frames) /\ fromDevice \in Seq(Frames)
      /\ attempt \in Nat /\ faults \in Nat /\ swallowed \in Nat
  BY Types DEF IInv
<1>2. /\ Drain /\ pc \in {"drain", "pause"}
      /\ UNCHANGED <<toDevice, pc, step, attempt, running, device, faults, telegrams, late, swallowed>>
  BY DEF DrainMore, Drain, gateway, budget
<1>3. PICK k \in 1 .. Len(Coming) : Shifted(k)
  BY <1>1, <1>2, DrainShifts
<1>4. rx' = <<>> /\ claim' \in 0 .. MaxClaim /\ fromDevice' \in Seq(Frames)
  BY <1>1, <1>2, DrainShifts
<1>5. TypeOK'
  BY <1>1, <1>2, <1>4 DEF TypeOK
<1>6. Placed' /\ AcknowledgedIsDone'
  BY <1>1, <1>2 DEF Placed, AcknowledgedIsDone
<1>7. k \in 0 .. Len(Coming)
  BY <1>1, Types
<1>8. Genuine' /\ ModeLast' /\ ModeUnasked' /\ ModeSet' /\ Prompt'
  BY <1>2, <1>3, <1>4, <1>7, ShiftedGenuine, ShiftedMode, ShiftedPrompt
<1>9. Accounted'
  <2>1. /\ Cardinality(Refused') \in Nat /\ Cardinality(Refused) \in Nat
        /\ Cardinality(Refused') <= Cardinality(Refused)
    BY <1>1, <1>3, <1>7, ShiftedRefused, RefusedFinite
  <2>. QED
    BY <1>1, <1>2, <2>1 DEF Accounted, RetriesSuffice, Costs
<1>. QED
  BY <1>5, <1>6, <1>8, <1>9 DEF IInv

\* The answer to the one SET under way is read: nothing is left of it.
LEMMA AnswerPrompt ==
    ASSUME IInv, pc = "wait", NEW k \in 1 .. Len(Coming), Shifted(k),
           Coming[k].code = Response(Steps[step]), UNCHANGED <<toDevice, late>>,
           \A i \in 1 .. Len(rx') : \E j \in k + 1 .. Len(Coming) : rx'[i] = Coming[j]
    PROVE  Prompt'
<1> SUFFICES ASSUME ~late PROVE Prompt'
  BY DEF Prompt
<1>1. /\ Prompt /\ Len(Coming) \in Nat /\ step \in 1 .. 5 /\ Placed
      /\ \A i \in 1 .. Len(toDevice) : toDevice[i] \in Commands
  BY Types DEF IInv
<1>2. \A i \in 1 .. Len(Coming') : i + k \in k + 1 .. Len(Coming) /\ Coming'[i] = Coming[i + k]
  BY <1>1 DEF Shifted
<1>3. /\ \A i \in k + 1 .. Len(Coming) : ~IsSet(Coming[i])
      /\ \A i \in 1 .. Len(toDevice) : toDevice[i] \notin Settings
  <2>1. CASE IsSet(Coming[k])
    <3>1. \A i \in k + 1 .. Len(Coming) : i \in 1 .. Len(Coming) /\ k < i
      BY <1>1
    <3>. QED
      BY <1>1, <2>1, <3>1 DEF Prompt
  <2>2. CASE ~IsSet(Coming[k])
    <3>1. Steps[step] \in Commands \ Settings
      BY <1>1, <2>2, ResponseIs, StepsAre DEF IsSet
    <3>2. ASSUME NEW i \in 1 .. Len(Coming), IsSet(Coming[i]) PROVE FALSE
      <4>1. Coming[i].about = Steps[step] /\ Coming[i].about \in Settings
        BY <1>1, <3>2 DEF IInv, Prompt, Genuine
      <4>. QED
        BY <3>1, <4>1
    <3>3. \A i \in 1 .. Len(toDevice) : toDevice[i] \notin Settings
      BY <1>1, <3>1 DEF Prompt
    <3>4. \A i \in k + 1 .. Len(Coming) : i \in 1 .. Len(Coming)
      BY <1>1
    <3>. QED
      BY <3>2, <3>3, <3>4
  <2>. QED
    BY <2>1, <2>2
<1>4. \A i \in 1 .. Len(Coming') : ~IsSet(Coming'[i])
  BY <1>2, <1>3
<1>5. \A i \in 1 .. Len(rx') : ~IsSet(rx'[i])
  BY <1>3
<1>. QED
  BY <1>3, <1>4, <1>5 DEF Prompt

LEMMA AcceptIInv ==
    ASSUME IInv, Accept
    PROVE  IInv'
<1>1. /\ TypeOK /\ Placed /\ AcknowledgedIsDone /\ Accounted /\ Genuine /\ Prompt /\ ModeSet
      /\ ModeUnasked /\ rx \in Seq(Frames) /\ fromDevice \in Seq(Frames) /\ Len(Coming) \in Nat
      /\ step \in 1 .. 5 /\ attempt \in Nat \ {0} /\ faults \in Nat /\ swallowed \in Nat
  BY Types DEF IInv
<1>2. /\ pc = "wait" /\ attempt' = 1 /\ UNCHANGED <<running, device, faults, telegrams, late, swallowed>>
      /\ \/ step = 5 /\ step' = step /\ pc' = "activated"
         \/ step # 5 /\ step' = step + 1 /\ pc' = "send"
  BY StepsAre DEF Accept, budget
<1>3. PICK n \in 1 .. Len(fromDevice) : \E m \in 1 .. Len(Received(n)) :
          ReadAnswer(Response(Steps[step]), n, m) /\ Received(n)[m].status = "ok"
  BY DEF Accept
<1>4. PICK k \in 1 .. Len(Received(n)) :
          ReadAnswer(Response(Steps[step]), n, k) /\ Received(n)[k].status = "ok"
  BY <1>3
<1>5. /\ rx' \in Seq(Frames) /\ fromDevice' \in Seq(Frames) /\ claim' = 0 /\ UNCHANGED toDevice
      /\ k \in 1 .. Len(Coming) /\ Shifted(k) /\ Coming[k].status = "ok"
      /\ Coming[k].code = Response(Steps[step])
      /\ \A i \in 1 .. Len(rx') : \E j \in k + 1 .. Len(Coming) : rx'[i] = Coming[j]
  <2> DEFINE code == Response(Steps[step])
  <2>1. rx \in Seq(Frames) /\ fromDevice \in Seq(Frames) /\ ReadAnswer(code, n, k)
    BY <1>1, <1>4
  <2> HIDE DEF code
  <2>2. /\ rx' \in Seq(Frames) /\ fromDevice' \in Seq(Frames) /\ claim' = 0 /\ UNCHANGED toDevice
        /\ k \in 1 .. Len(Coming) /\ Shifted(k)
        /\ Received(n)[k] = Coming[k] /\ Coming[k].code = code
        /\ \A i \in 1 .. Len(rx') : \E j \in k + 1 .. Len(Coming) : rx'[i] = Coming[j]
    BY <2>1, ReadAnswerShifts
  <2>. QED
    BY <1>4, <2>2 DEF code
<1>6. k \in 0 .. Len(Coming)
  BY <1>1, <1>5
<1>7. TypeOK'
  <2>1. step' \in 1 .. Len(Steps) /\ attempt' \in 1 .. Attempts
    BY <1>1, <1>2, StepsAre, ActivationAssumption
  <2>2. claim' \in 0 .. MaxClaim
    BY <1>5, ExchangeAssumption
  <2>. QED
    BY <1>1, <1>2, <1>5, <2>1, <2>2 DEF TypeOK
<1>8. Placed'
  BY <1>2 DEF Placed
<1>9. AcknowledgedIsDone'
  <2> SUFFICES ASSUME NEW i \in 1 .. step' - 1, ~late, Steps[i] \in Settings
               PROVE  Steps[i] \in device.set
    BY <1>2 DEF AcknowledgedIsDone
  <2>1. CASE i \in 1 .. step - 1
    BY <1>1, <1>2, <2>1 DEF AcknowledgedIsDone, Dead
  <2>2. CASE i = step
    <3>1. IsSet(Coming[k])
      BY <1>1, <1>5, <2>2, StepsAre, ResponseIs DEF IsSet
    <3>2. Coming[k].about \in device.set /\ Coming[k].about = Steps[step]
      BY <1>1, <1>5, <3>1 DEF Genuine, Prompt
    <3>. QED
      BY <2>2, <3>2
  <2>. QED
    BY <1>1, <1>2, <2>1, <2>2
<1>10. Genuine' /\ Prompt'
  BY <1>2, <1>5, <1>6, ShiftedGenuine, AnswerPrompt
<1>11. ModeLast'
  BY <1>5 DEF IInv, ModeLast
<1>12. ModeUnasked'
  <2> SUFFICES ASSUME step' < 5 PROVE ModeUnasked'
    BY StepsAre DEF ModeUnasked
  <2>1. step < Len(Steps) /\ pc \notin {"open"} \cup Dead
    BY <1>1, <1>2, StepsAre DEF Dead
  <2>2. \A i \in 1 .. Len(Coming') : i + k \in 1 .. Len(Coming) /\ Coming'[i] = Coming[i + k]
    BY <1>5 DEF Shifted
  <2>3. \A i \in 1 .. Len(Coming) : ~IsMode(Coming[i])
    BY <1>1, <2>1 DEF ModeUnasked
  <2>4. \A i \in 1 .. Len(Coming') : ~IsMode(Coming'[i])
    BY <2>2, <2>3 DEF IsMode
  <2>5. \A i \in 1 .. Len(toDevice') : toDevice'[i] # "setMode"
    BY <1>1, <1>5, <2>1 DEF ModeUnasked
  <2>. QED
    BY <2>4, <2>5 DEF ModeUnasked
<1>13. ModeSet'
  <2>1. Settled' <=> Settled
    BY <1>2, <1>5 DEF Settled, InMode
  <2>2. \A i \in 1 .. Len(Coming') : i + k \in 1 .. Len(Coming) /\ Coming'[i] = Coming[i + k]
    BY <1>5 DEF Shifted
  <2>3. CASE step = 5
    <3>1. IsMode(Coming[k])
      <4>1. Response(Steps[5]) = "setModeResponse"
        BY StepsAre, ResponseIs
      <4>. QED
        BY <1>5, <2>3, <4>1 DEF IsMode
    <3>2. Settled
      BY <1>1, <1>5, <2>3, <3>1, StepsAre DEF ModeSet
    <3>. QED
      BY <1>2, <2>1, <2>3, <3>2, StepsAre DEF ModeSet
  <2>4. CASE step # 5
    <3>1. \A i \in 1 .. Len(Coming) : ~IsMode(Coming[i])
      <4>1. step < Len(Steps) /\ pc \notin {"open"} \cup Dead
        BY <1>1, <1>2, <2>4, StepsAre DEF Dead
      <4>. QED
        BY <1>1, <4>1 DEF ModeUnasked
    <3>2. \A i \in 1 .. Len(Coming') : ~IsMode(Coming'[i])
      BY <2>2, <3>1 DEF IsMode
    <3>. QED
      BY <1>2, <2>4, <3>2 DEF ModeSet
  <2>. QED
    BY <2>3, <2>4
<1>14. Accounted'
  <2>1. /\ Cardinality(Refused') \in Nat /\ Cardinality(Refused) \in Nat
        /\ Cardinality(Refused') <= Cardinality(Refused)
    BY <1>1, <1>5, <1>6, ShiftedRefused, RefusedFinite
  <2>. QED
    BY <1>1, <1>2, <2>1 DEF Accounted, RetriesSuffice, Costs
<1>. QED
  BY <1>7, <1>8, <1>9, <1>10, <1>11, <1>12, <1>13, <1>14 DEF IInv

\* A refusal read is one less on its way and an attempt that has failed.
LEMMA RejectIInv ==
    ASSUME IInv, Reject
    PROVE  IInv'
<1>1. /\ TypeOK /\ Placed /\ AcknowledgedIsDone /\ Accounted
      /\ rx \in Seq(Frames) /\ fromDevice \in Seq(Frames) /\ Coming \in Seq(Frames)
      /\ Len(Coming) \in Nat /\ attempt \in Nat \ {0} /\ faults \in Nat /\ swallowed \in Nat
  BY Types DEF IInv
<1>2. /\ pc = "wait" /\ pc' = "drain"
      /\ UNCHANGED <<step, attempt, running, device, faults, telegrams, late, swallowed>>
  BY DEF Reject, budget
<1>3. PICK n \in 1 .. Len(fromDevice) : \E m \in 1 .. Len(Received(n)) :
          ReadAnswer(Response(Steps[step]), n, m) /\ Received(n)[m].status # "ok"
  BY DEF Reject
<1>4. PICK k \in 1 .. Len(Received(n)) :
          ReadAnswer(Response(Steps[step]), n, k) /\ Received(n)[k].status # "ok"
  BY <1>3
<1> DEFINE code == Response(Steps[step])
<1> HIDE DEF code
<1>5. /\ rx' \in Seq(Frames) /\ fromDevice' \in Seq(Frames) /\ claim' = 0 /\ UNCHANGED toDevice
      /\ k \in 1 .. Len(Coming) /\ Shifted(k) /\ Received(n)[k] = Coming[k]
      /\ Coming[k].code = Response(Steps[step])
      /\ \A i \in 1 .. Len(rx') : \E j \in k + 1 .. Len(Coming) : rx'[i] = Coming[j]
  <2>1. ReadAnswer(code, n, k) /\ rx \in Seq(Frames) /\ fromDevice \in Seq(Frames)
    BY <1>1, <1>4 DEF code
  <2>2. /\ rx' \in Seq(Frames) /\ fromDevice' \in Seq(Frames) /\ claim' = 0 /\ UNCHANGED toDevice
        /\ k \in 1 .. Len(Coming) /\ Shifted(k)
        /\ Received(n)[k] = Coming[k] /\ Coming[k].code = code
        /\ \A i \in 1 .. Len(rx') : \E j \in k + 1 .. Len(Coming) : rx'[i] = Coming[j]
    BY <2>1, ReadAnswerShifts
  <2>. QED
    BY <2>2 DEF code
<1>6. k \in 0 .. Len(Coming) /\ k \in Refused
  <2>1. Coming[k] \in Frames /\ Coming[k].status # "ok"
    BY <1>1, <1>4, <1>5
  <2>2. Coming[k].code # "torn"
    BY <1>1, <1>5, Types, StepsAre, ResponseIs
  <2>3. Coming[k].status \in {"ok", "failed"}
    BY <2>1, <2>2, TornIs DEF Frames
  <2>. QED
    BY <1>1, <1>5, <2>1, <2>2, <2>3 DEF Refused, IsRefusal
<1>7. TypeOK'
  <2>1. claim' \in 0 .. MaxClaim
    BY <1>5, ExchangeAssumption
  <2>. QED
    BY <1>1, <1>2, <1>5, <2>1 DEF TypeOK
<1>8. Placed' /\ AcknowledgedIsDone'
  BY <1>1, <1>2 DEF Placed, AcknowledgedIsDone, Dead
<1>9. Genuine' /\ Prompt'
  BY <1>2, <1>5, <1>6, ShiftedGenuine, AnswerPrompt
<1>10. ModeLast' /\ ModeUnasked' /\ ModeSet'
  BY <1>2, <1>5, <1>6, ShiftedMode
<1>11. Accounted'
  <2>1. /\ Cardinality(Refused') \in Nat /\ Cardinality(Refused) \in Nat
        /\ Cardinality(Refused') + 1 <= Cardinality(Refused)
    BY <1>1, <1>5, <1>6, ShiftedRefused, RefusedFinite
  <2>. QED
    BY <1>1, <1>2, <2>1 DEF Accounted, RetriesSuffice, Costs
<1>. QED
  BY <1>7, <1>8, <1>9, <1>10, <1>11 DEF IInv

-----------------------------------------------------------------------------
(***************************************************************************)
(* The steps that leave the line alone, or flush it.                       *)
(***************************************************************************)
\* The wait is over: the answer is late, or there was none to come.
LEMMA TimeoutIInv ==
    ASSUME IInv, Timeout
    PROVE  IInv'
<1>1. /\ TypeOK /\ Placed /\ AcknowledgedIsDone /\ Accounted /\ Genuine /\ Prompt
      /\ ModeLast /\ ModeUnasked /\ ModeSet /\ rx \in Seq(Frames) /\ fromDevice \in Seq(Frames)
      /\ Len(Coming) \in Nat /\ Len(rx) \in Nat /\ attempt \in Nat \ {0}
      /\ faults \in Nat /\ swallowed \in Nat
  BY Types DEF IInv
<1>2. /\ pc = "wait" /\ pc' = "drain"
      /\ UNCHANGED <<toDevice, fromDevice, rx, claim, Coming, step, attempt, running, device>>
      /\ UNCHANGED <<telegrams, swallowed>>
      /\ \/ toDevice = <<>> /\ fromDevice = <<>> /\ UNCHANGED <<faults, late>>
         \/ Fault /\ late' = TRUE
  BY DEF Timeout, line, Coming
<1>3. /\ faults' \in 0 .. MaxFaults /\ late' \in BOOLEAN /\ faults' \in Nat
      /\ Fault => faults' = faults + 1
  <2>1. faults \in 0 .. MaxFaults /\ late \in BOOLEAN /\ MaxFaults \in Nat
    BY <1>1, ActivationAssumption DEF TypeOK
  <2>2. CASE Fault /\ late' = TRUE
    BY <2>1, <2>2 DEF Fault
  <2>3. CASE UNCHANGED <<faults, late>>
    BY <2>1, <2>3 DEF Fault
  <2>. QED
    BY <1>2, <2>2, <2>3
<1>4. TypeOK'
  BY <1>1, <1>2, <1>3 DEF TypeOK
<1>5. Placed' /\ Genuine' /\ ModeLast'
  BY <1>1, <1>2 DEF Placed, Genuine, ModeLast
<1>6. ModeUnasked' /\ ModeSet'
  BY <1>1, <1>2 DEF ModeUnasked, ModeSet, Settled, Dead
<1>7. AcknowledgedIsDone'
  BY <1>1, <1>2 DEF AcknowledgedIsDone, Dead
<1>8. Prompt'
  <2> SUFFICES ASSUME ~late' PROVE Prompt'
    BY DEF Prompt
  <2>1. ~late /\ toDevice = <<>> /\ fromDevice = <<>>
    BY <1>2
  <2>2. Len(Coming) = Len(rx) /\ \A k \in 1 .. Len(rx) : Coming[k] = rx[k]
    BY <1>1, <2>1, ComingIs
  <2>. QED
    BY <1>1, <1>2, <2>1, <2>2 DEF Prompt
<1>9. Accounted'
  <2>1. Refused' = Refused /\ Cardinality(Refused) \in Nat
    BY <1>1, <1>2, RefusedFinite DEF Refused
  <2>2. CASE Fault
    BY <1>1, <1>2, <1>3, <2>1, <2>2 DEF Accounted, RetriesSuffice, Costs
  <2>3. CASE toDevice = <<>> /\ fromDevice = <<>> /\ UNCHANGED faults
    <3>1. ~UnderWay
      BY <2>3 DEF UnderWay
    <3>. QED
      BY <1>1, <1>2, <2>1, <2>3, <3>1 DEF Accounted, RetriesSuffice, Costs
  <2>. QED
    BY <1>2, <2>2, <2>3
<1>. QED
  BY <1>4, <1>5, <1>6, <1>7, <1>8, <1>9 DEF IInv

\* The next attempt, or the end of them.
LEMMA RetryIInv ==
    ASSUME IInv, Retry
    PROVE  IInv'
<1>1. /\ TypeOK /\ AcknowledgedIsDone /\ Accounted /\ Genuine /\ Prompt
      /\ ModeLast /\ ModeUnasked /\ ModeSet /\ attempt \in Nat \ {0}
      /\ faults \in Nat /\ swallowed \in Nat
  BY Types DEF IInv
<1>2. /\ pc = "drain" /\ UNCHANGED <<toDevice, fromDevice, rx, claim, Coming, step, running, device,
                                     faults, telegrams, late, swallowed>>
      /\ \/ attempt < Attempts /\ pc' = "send" /\ attempt' = attempt + 1
         \/ ~(attempt < Attempts) /\ pc' = "gaveUp" /\ attempt' = attempt
  BY DEF Retry, line, budget, Coming
<1>3. TypeOK'
  BY <1>1, <1>2, ActivationAssumption DEF TypeOK, Dead
<1>4. Placed' /\ Genuine' /\ ModeLast'
  BY <1>1, <1>2 DEF Placed, Genuine, ModeLast
<1>5. ModeUnasked' /\ ModeSet'
  BY <1>1, <1>2 DEF ModeUnasked, ModeSet, Settled, Dead
<1>6. AcknowledgedIsDone' /\ Prompt'
  BY <1>1, <1>2 DEF AcknowledgedIsDone, Prompt, Dead
<1>7. Accounted'
  <2>1. Refused' = Refused /\ Cardinality(Refused) \in Nat
    BY <1>1, <1>2, RefusedFinite DEF Refused
  <2>. QED
    BY <1>1, <1>2, <2>1, ActivationAssumption DEF Accounted, RetriesSuffice, Costs
<1>. QED
  BY <1>3, <1>4, <1>5, <1>6, <1>7 DEF IInv

LEMMA AfterResetIInv ==
    ASSUME IInv, AfterReset
    PROVE  IInv'
<1>1. /\ TypeOK /\ Placed /\ AcknowledgedIsDone /\ Accounted /\ Genuine /\ Prompt
      /\ ModeLast /\ ModeUnasked /\ ModeSet /\ attempt \in Nat \ {0}
      /\ faults \in Nat /\ swallowed \in Nat
  BY Types DEF IInv
<1>2. /\ pc = "pause" /\ pc' = "open" /\ step = 4 /\ step' = 5 /\ attempt' = 1
      /\ UNCHANGED <<toDevice, fromDevice, rx, claim, Coming, running, device, faults, telegrams, late, swallowed>>
  BY <1>1, StepsAre DEF AfterReset, Placed, line, budget, Coming
<1>3. TypeOK'
  BY <1>1, <1>2, StepsAre, ActivationAssumption DEF TypeOK
<1>4. Placed' /\ Genuine' /\ ModeLast' /\ Prompt'
  BY <1>1, <1>2 DEF Placed, Genuine, ModeLast, Prompt
<1>5. ModeUnasked'
  BY <1>2, StepsAre DEF ModeUnasked
<1>6. ModeSet'
  <2>1. \A k \in 1 .. Len(Coming) : ~IsMode(Coming[k])
    BY <1>1, <1>2, StepsAre DEF ModeUnasked, Dead
  <2>. QED
    BY <1>2, <2>1 DEF ModeSet
<1>7. AcknowledgedIsDone'
  <2>1. \A j \in 1 .. 4 : j \in 1 .. 3 \/ Steps[j] \notin Settings
    BY StepsAre
  <2>2. ~late => \A j \in 1 .. 3 : Steps[j] \in Settings => Steps[j] \in device.set
    BY <1>1, <1>2 DEF AcknowledgedIsDone, Dead
  <2>3. step' - 1 = 4
    BY <1>2
  <2>. QED
    BY <1>2, <2>1, <2>2, <2>3 DEF AcknowledgedIsDone
<1>8. Accounted'
  <2>1. Refused' = Refused /\ Cardinality(Refused) \in Nat
    BY <1>1, <1>2, RefusedFinite DEF Refused
  <2>. QED
    BY <1>1, <1>2, <2>1 DEF Accounted, RetriesSuffice, Costs
<1>. QED
  BY <1>3, <1>4, <1>5, <1>6, <1>7, <1>8 DEF IInv

\* The next process takes over what the last one has left in the driver.
LEMMA RespawnIInv ==
    ASSUME IInv, Respawn
    PROVE  IInv'
<1>1. /\ TypeOK /\ Accounted /\ Genuine /\ Prompt /\ attempt \in Nat \ {0}
      /\ faults \in Nat /\ swallowed \in Nat
  BY Types DEF IInv
<1>2. /\ pc \in Dead /\ pc' = "open" /\ toDevice = <<>> /\ step' = 1 /\ attempt' = 1
      /\ UNCHANGED <<toDevice, fromDevice, rx, claim, Coming, running, device, faults, telegrams, late, swallowed>>
  BY DEF Respawn, line, budget, Coming
<1>3. TypeOK'
  BY <1>1, <1>2, StepsAre, ActivationAssumption DEF TypeOK
<1>4. Placed' /\ Genuine' /\ Prompt'
  BY <1>1, <1>2 DEF Placed, Genuine, Prompt, Dead
<1>5. ModeLast' /\ ModeUnasked' /\ ModeSet'
  BY <1>2, StepsAre DEF ModeLast, ModeUnasked, ModeSet
<1>6. AcknowledgedIsDone'
  BY <1>2 DEF AcknowledgedIsDone
<1>7. Accounted'
  <2>1. Refused' = Refused /\ Cardinality(Refused) \in Nat
    BY <1>1, <1>2, RefusedFinite DEF Refused
  <2>. QED
    BY <1>1, <1>2, <2>1 DEF Accounted, RetriesSuffice, Costs
<1>. QED
  BY <1>3, <1>4, <1>5, <1>6, <1>7 DEF IInv

\* The port does not open, the loop is entered or left, a signal comes.
LEMMA QuietStepIInv ==
    ASSUME IInv, OpenFails \/ Listen \/ Exit \/ Signal \/ UNCHANGED vars
    PROVE  IInv'
<1>1. /\ TypeOK /\ Placed /\ AcknowledgedIsDone /\ Accounted /\ Genuine /\ Prompt
      /\ ModeLast /\ ModeUnasked /\ ModeSet /\ attempt \in Nat \ {0}
      /\ faults \in Nat /\ swallowed \in Nat
  BY Types DEF IInv
<1>2. UNCHANGED <<toDevice, fromDevice, rx, claim, Coming, step, attempt, device, telegrams, late,
               swallowed>>
  BY DEF OpenFails, Listen, Exit, Signal, vars, line, gateway, budget, Coming
<1>3. /\ \/ pc' = pc
         \/ pc = "open" /\ pc' = "noPort"
         \/ pc = "activated" /\ pc' \in {"listen", "exited"}
         \/ pc = "listen" /\ pc' = "exited"
      /\ running' \in BOOLEAN
  BY <1>1 DEF OpenFails, Listen, Exit, Signal, vars, gateway, TypeOK
<1>4. faults' \in 0 .. MaxFaults /\ faults' \in Nat /\ faults <= faults'
  <2>1. faults \in 0 .. MaxFaults /\ MaxFaults \in Nat
    BY <1>1, ActivationAssumption DEF TypeOK
  <2>2. CASE OpenFails
    BY <2>1, <2>2 DEF OpenFails, Fault
  <2>3. CASE Listen \/ Exit \/ Signal \/ UNCHANGED vars
    <3>1. faults' = faults
      BY <2>3 DEF Listen, Exit, Signal, vars, budget
    <3>. QED
      BY <2>1, <3>1
  <2>. QED
    BY <2>2, <2>3
<1>5. TypeOK'
  BY <1>1, <1>2, <1>3, <1>4 DEF TypeOK, Dead
<1>6. Placed' /\ Genuine' /\ ModeLast'
  BY <1>1, <1>2, <1>3 DEF Placed, Genuine, ModeLast
<1>7. Prompt'
  BY <1>1, <1>2, <1>3 DEF Prompt
<1>8. ModeUnasked' /\ ModeSet'
  BY <1>1, <1>2, <1>3 DEF ModeUnasked, ModeSet, Settled, Dead
<1>9. AcknowledgedIsDone'
  BY <1>1, <1>2, <1>3 DEF AcknowledgedIsDone, Dead
<1>10. Accounted'
  <2>1. Refused' = Refused /\ Cardinality(Refused) \in Nat /\ UnderWay' = UnderWay
    BY <1>1, <1>2, RefusedFinite DEF Refused, UnderWay
  <2>. QED
    <3>1. Costs \in Nat /\ Costs' \in Nat /\ Costs <= Costs'
      <4>1. faults \in Nat /\ swallowed \in Nat /\ swallowed' = swallowed
        BY <1>1, <1>2
      <4>2. faults' \in Nat /\ faults <= faults'
        BY <1>4
      <4>3. Costs = faults + swallowed /\ Costs' = faults' + swallowed
        BY <4>1 DEF Costs
      <4>4. ASSUME NEW before \in Nat, NEW after \in Nat, NEW same \in Nat, before <= after
            PROVE  before + same \in Nat /\ after + same \in Nat /\ before + same <= after + same
        BY <4>4
      <4>. QED
        BY <4>1, <4>2, <4>3, <4>4
    <3>2. /\ Cardinality(Refused') + attempt' - 1 <= Costs'
          /\ Cardinality(Refused) + attempt <= Costs => Cardinality(Refused') + attempt' <= Costs'
      BY <1>1, <1>2, <2>1, <3>1 DEF Accounted
    <3>3. RetriesSuffice'
      <4>1. pc' = "gaveUp" => pc = "gaveUp"
        BY <1>3
      <4>2. pc = "gaveUp" => Costs >= Attempts
        BY <1>1 DEF Accounted, RetriesSuffice, Costs
      <4>3. pc' = "gaveUp" => Costs' >= Attempts
        BY <3>1, <4>1, <4>2, ActivationAssumption
      <4>. QED
        BY <4>3 DEF RetriesSuffice, Costs
    <3>. QED
      BY <1>1, <1>3, <2>1, <3>2, <3>3 DEF Accounted
<1>. QED
  BY <1>5, <1>6, <1>7, <1>8, <1>9, <1>10 DEF IInv

LEMMA OpenIInv ==
    ASSUME IInv, Open
    PROVE  IInv'
<1>1. /\ TypeOK /\ Placed /\ AcknowledgedIsDone /\ Accounted /\ Prompt
      /\ ModeLast /\ ModeUnasked /\ attempt \in Nat \ {0} /\ faults \in Nat /\ swallowed \in Nat
  BY Types DEF IInv
<1>2. /\ pc = "open" /\ pc' = "send" /\ rx' = <<>> /\ claim' = 0
      /\ telegrams' \in 0 .. MaxTelegrams
      /\ fromDevice' = <<>> \/ \E torn \in TornFrames : fromDevice' = <<torn>>
      /\ UNCHANGED <<toDevice, step, attempt, running, device, faults, late, swallowed>>
  <2>1. telegrams \in 0 .. MaxTelegrams /\ MaxTelegrams \in Nat
    BY <1>1, ActivationAssumption DEF TypeOK
  <2>2. telegrams' \in 0 .. MaxTelegrams
    BY <2>1 DEF Open
  <2>. QED
    BY <2>2 DEF Open, Reopen
<1>3. /\ fromDevice' \in Seq(Frames) /\ Coming' = fromDevice' /\ Len(rx') = 0
      /\ \A k \in 1 .. Len(Coming') : Coming'[k].code = "torn"
  <2>1. CASE fromDevice' = <<>>
    BY <1>2, <2>1 DEF Coming
  <2>2. CASE \E torn \in TornFrames : fromDevice' = <<torn>>
    <3>1. PICK torn \in TornFrames : fromDevice' = <<torn>>
      BY <2>2
    <3>2. torn \in Frames /\ torn.code = "torn"
      BY TornIs DEF Frames
    <3>3. <<>> \o <<torn>> = <<torn>> /\ <<torn>> \in Seq(Frames)
      BY <3>2
    <3>4. Coming' = <<torn>>
      BY <1>2, <3>1, <3>3 DEF Coming
    <3>. QED
      BY <1>2, <3>1, <3>2, <3>3, <3>4
  <2>. QED
    BY <1>2, <2>1, <2>2
<1>4. TypeOK'
  <2>1. rx' \in Seq(Frames) /\ claim' \in 0 .. MaxClaim
    BY <1>2, ExchangeAssumption
  <2>. QED
    BY <1>1, <1>2, <1>3, <2>1 DEF TypeOK
<1>5. Placed' /\ AcknowledgedIsDone'
  BY <1>1, <1>2 DEF Placed, AcknowledgedIsDone, Dead
<1>6. \A k \in 1 .. Len(Coming') :
          ~IsSet(Coming'[k]) /\ ~IsMode(Coming'[k]) /\ ~IsRefusal(Coming'[k])
  BY <1>3 DEF IsSet, IsMode, IsRefusal
<1>7. Genuine' /\ ModeLast' /\ ModeUnasked' /\ ModeSet'
  BY <1>1, <1>2, <1>6 DEF Genuine, ModeLast, ModeUnasked, ModeSet
<1>8. Prompt'
  BY <1>1, <1>2, <1>3, <1>6 DEF Prompt
<1>9. Accounted'
  <2>1. Refused' = {}
    BY <1>6 DEF Refused
  <2>2. Cardinality(Refused') = 0
    BY <2>1, FS_EmptySet
  <2>3. Costs' = Costs /\ attempt - 1 <= Costs
    <3>1. Cardinality(Refused) \in Nat /\ Costs \in Nat
      BY <1>1, RefusedFinite DEF Costs
    <3>. QED
      BY <1>1, <1>2, <3>1 DEF Accounted, Costs
  <2>. QED
    BY <1>1, <1>2, <2>2, <2>3 DEF Accounted, RetriesSuffice, Costs
<1>. QED
  BY <1>4, <1>5, <1>7, <1>8, <1>9 DEF IInv

LEMMA InitIInv == Init => IInv
<1> SUFFICES ASSUME Init PROVE IInv
  OBVIOUS
<1>1. /\ toDevice = <<>> /\ fromDevice = <<>> /\ rx = <<>> /\ pc = "open" /\ step = 1
      /\ claim = 0 /\ swallowed = 0
      /\ attempt = 1 /\ faults = 0 /\ telegrams = 0 /\ device = [set |-> {}, mode |-> "factory"]
  BY DEF Init, QuietLine
<1>2. Coming = <<>> /\ Len(Coming) = 0 /\ Len(rx) = 0 /\ Len(toDevice) = 0
  BY <1>1 DEF Coming
<1>3. TypeOK
  <2>1. running \in BOOLEAN /\ late \in BOOLEAN
    BY Zenon DEF Init
  <2>2. /\ toDevice \in Seq(Range(Steps)) /\ fromDevice \in Seq(Frames) /\ rx \in Seq(Frames)
        /\ device \in [set : SUBSET Settings, mode : {"factory", "C2_T2_other"}]
    BY <1>1
  <2>. QED
    BY <1>1, <1>2, <2>1, <2>2, StepsAre, ActivationAssumption, ExchangeAssumption DEF TypeOK
<1>4. Placed /\ Genuine /\ ModeLast /\ ModeUnasked /\ ModeSet /\ AcknowledgedIsDone
  BY <1>1, <1>2, StepsAre DEF Placed, Genuine, ModeLast, ModeUnasked, ModeSet, AcknowledgedIsDone
<1>5. Prompt
  BY <1>2 DEF Prompt
<1>6. Accounted
  <2>1. Refused = {}
    BY <1>2 DEF Refused
  <2>2. Cardinality(Refused) = 0
    BY <2>1, FS_EmptySet
  <2>. QED
    BY <1>1, <2>2 DEF Accounted, RetriesSuffice, Costs
<1>. QED
  BY <1>3, <1>4, <1>5, <1>6 DEF IInv

\* A command joins the queue to the device.
LEMMA SendIInv ==
    ASSUME IInv, Send
    PROVE  IInv'
<1> DEFINE command == Steps[step]
<1>1. /\ TypeOK /\ Placed /\ AcknowledgedIsDone /\ Accounted /\ Genuine /\ Prompt
      /\ ModeLast /\ ModeUnasked /\ ModeSet /\ attempt \in Nat \ {0}
      /\ faults \in Nat /\ swallowed \in Nat
      /\ toDevice \in Seq(Commands) /\ step \in 1 .. 5 /\ command \in Commands
      /\ Len(toDevice) \in Nat /\ \A k \in 1 .. Len(toDevice) : toDevice[k] \in Commands
  BY Types, StepsAre, ActivationAssumption DEF IInv
<1>2. /\ pc = "send" /\ pc' = (IF step = 4 THEN "pause" ELSE "wait")
      /\ Len(toDevice) < MaxInFlight /\ toDevice' = Append(toDevice, command)
      /\ UNCHANGED <<fromDevice, rx, claim, Coming, step, attempt, running, device,
                     faults, telegrams, late, swallowed>>
  BY StepsAre DEF Send, Write, budget, Coming
<1> HIDE DEF command
<1>3. /\ toDevice' \in Seq(Commands) /\ Len(toDevice') = Len(toDevice) + 1
      /\ \A k \in 1 .. Len(toDevice) : toDevice'[k] = toDevice[k]
      /\ toDevice'[Len(toDevice) + 1] = command
  BY <1>1, <1>2, AppendOf
<1>4. \A k \in 1 .. Len(toDevice') :
          \/ k \in 1 .. Len(toDevice) /\ toDevice'[k] = toDevice[k]
          \/ k = Len(toDevice) + 1 /\ toDevice'[k] = command
  BY <1>1, <1>3
<1>5. TypeOK'
  <2>1. Len(toDevice') <= MaxInFlight /\ toDevice' \in Seq(Range(Steps))
    BY <1>1, <1>2, <1>3, StepsAre, ActivationAssumption
  <2>. QED
    BY <1>1, <1>2, <2>1 DEF TypeOK
<1>6. Placed' /\ Genuine' /\ AcknowledgedIsDone'
  BY <1>1, <1>2, StepsAre DEF Placed, Genuine, AcknowledgedIsDone, Dead
<1>7. Prompt'
  <2> SUFFICES ASSUME ~late PROVE Prompt'
    BY <1>2 DEF Prompt
  <2>1. /\ \A k \in 1 .. Len(Coming) : ~IsSet(Coming[k])
        /\ \A k \in 1 .. Len(rx) : ~IsSet(rx[k])
        /\ \A k \in 1 .. Len(toDevice) : toDevice[k] \notin Settings
    BY <1>1, <1>2 DEF Prompt
  <2>2. \A k \in 1 .. Len(toDevice') :
            toDevice'[k] \in Settings => k = Len(toDevice) + 1 /\ toDevice'[k] = command /\ pc' = "wait"
    <3>1. command \in Settings => step # 4
      BY <1>1, StepsAre DEF command
    <3>. QED
      BY <1>2, <1>4, <2>1, <3>1
  <2>3. \A j, k \in 1 .. Len(toDevice') :
            j < k => ~(toDevice'[j] \in Settings /\ toDevice'[k] \in Settings)
    BY <1>1, <2>2
  <2>. QED
    BY <1>2, <2>1, <2>2, <2>3 DEF Prompt, command
<1>8. ModeLast'
  <2> SUFFICES ASSUME NEW j \in 1 .. Len(toDevice'), NEW k \in 1 .. Len(toDevice'), j < k,
                      toDevice'[j] = "setMode", toDevice'[k] = "reset"
               PROVE  FALSE
    BY DEF ModeLast
  <2>1. j \in 1 .. Len(toDevice) /\ toDevice[j] = "setMode"
    BY <1>1, <1>3
  <2>2. CASE k \in 1 .. Len(toDevice) /\ toDevice'[k] = toDevice[k]
    BY <1>1, <2>1, <2>2 DEF ModeLast
  <2>3. CASE toDevice'[k] = command
    <3>1. step < Len(Steps)
      BY <1>1, <2>3, StepsAre DEF command
    <3>. QED
      BY <1>1, <2>1, <3>1 DEF ModeUnasked
  <2>. QED
    BY <1>4, <2>2, <2>3
<1>9. ModeUnasked'
  <2> SUFFICES ASSUME step < Len(Steps) PROVE ModeUnasked'
    BY <1>2 DEF ModeUnasked
  <2>1. command # "setMode"
    BY <1>1, StepsAre DEF command
  <2>2. /\ \A k \in 1 .. Len(toDevice) : toDevice[k] # "setMode"
        /\ \A k \in 1 .. Len(Coming) : ~IsMode(Coming[k])
    BY <1>1, <1>2 DEF ModeUnasked, Dead
  <2>. QED
    BY <1>2, <1>4, <2>1, <2>2 DEF ModeUnasked
<1>10. ModeSet'
  <2>1. step = Len(Steps) => command # "reset"
    BY <1>1, StepsAre DEF command
  <2>2. step = Len(Steps) /\ Settled => Settled'
    BY <1>2, <1>4, <2>1 DEF Settled
  <2>. QED
    BY <1>1, <1>2, <2>2 DEF ModeSet
<1>11. Accounted'
  <2>1. Refused' = Refused
    BY <1>2 DEF Refused
  <2>2. UnderWay'
    <3>1. Len(toDevice) + 1 \in 1 .. Len(toDevice')
      BY <1>1, <1>3
    <3>. QED
      BY <1>2, <1>3, <3>1 DEF UnderWay, command
  <2>. QED
    BY <1>1, <1>2, <2>1, <2>2 DEF Accounted, RetriesSuffice, Costs
<1>. QED
  BY <1>5, <1>6, <1>7, <1>8, <1>9, <1>10, <1>11 DEF IInv

-----------------------------------------------------------------------------
(***************************************************************************)
(* The device.                                                             *)
(***************************************************************************)
asked == Head(toDevice)

\* What a command handled by the device does: it may or may not be carried out;
\* it is answered truly or lost, which is a fault as a refusal is.
Handled ==
    /\ toDevice # <<>> /\ toDevice' = Tail(toDevice)
    /\ device' \in {device, Effect(device, asked)}
    /\ UNCHANGED <<rx, claim, pc, step, attempt, running, telegrams, late, swallowed>>

Lost ==
    /\ Fault /\ fromDevice' \in Seq(Frames)
    /\ UNCHANGED Coming \/ \E torn \in TornFrames : Added(torn)

AnsweredBy(frame) ==
    /\ frame \in Frames /\ frame.code = Response(asked) /\ frame.about = asked
    /\ fromDevice' = Append(fromDevice, frame) /\ fromDevice' \in Seq(Frames) /\ Added(frame)
    /\ \/ frame.status = "ok" /\ device' = Effect(device, asked) /\ UNCHANGED faults
       \/ frame.status = "failed" /\ Fault

LEMMA TailIs ==
    ASSUME TypeOK, Handled
    PROVE  /\ toDevice' \in Seq(Commands) /\ Len(toDevice') = Len(toDevice) - 1
           /\ asked \in Commands /\ asked = toDevice[1] /\ 1 \in 1 .. Len(toDevice)
           /\ \A k \in 1 .. Len(toDevice') :
                 k + 1 \in 1 .. Len(toDevice) /\ 1 < k + 1 /\ toDevice'[k] = toDevice[k + 1]
           /\ device' \in Devices /\ device.set \subseteq device'.set
           /\ asked # "reset" /\ InMode(device) => InMode(device')
<1>1. toDevice \in Seq(Commands) /\ Len(toDevice) \in Nat /\ device \in Devices
  BY Types, ActivationAssumption
<1>2. /\ asked \in Commands /\ asked = toDevice[1]
      /\ toDevice' \in Seq(Commands) /\ Len(toDevice') = Len(toDevice) - 1
      /\ \A k \in 1 .. Len(toDevice) - 1 : toDevice'[k] = toDevice[k + 1]
  BY <1>1, TailOf DEF Handled, asked
<1>3. 1 \in 1 .. Len(toDevice)
  BY <1>1 DEF Handled
<1>4. \A k \in 1 .. Len(toDevice') :
          k + 1 \in 1 .. Len(toDevice) /\ 1 < k + 1 /\ toDevice'[k] = toDevice[k + 1]
  BY <1>1, <1>2
<1>5. /\ device' \in Devices /\ device.set \subseteq device'.set
      /\ asked # "reset" /\ InMode(device) => InMode(device')
  BY <1>1, <1>2, EffectIs DEF Handled
<1>. QED
  BY <1>2, <1>3, <1>4, <1>5

\* The parts of the invariant that hold for the commands left, answered or not.
LEMMA HandledQueue ==
    ASSUME IInv, Handled
    PROVE  /\ ModeLast' /\ Placed' /\ AcknowledgedIsDone'
           /\ Settled => Settled'
           /\ asked = "setMode" => \A k \in 1 .. Len(toDevice') : toDevice'[k] # "reset"
<1>1. /\ TypeOK /\ Placed /\ AcknowledgedIsDone /\ ModeLast
      /\ UNCHANGED <<pc, step, late>>
  BY DEF IInv, Handled
<1>2. /\ asked = toDevice[1] /\ 1 \in 1 .. Len(toDevice) /\ Len(toDevice') = Len(toDevice) - 1
      /\ \A k \in 1 .. Len(toDevice') :
            k + 1 \in 1 .. Len(toDevice) /\ 1 < k + 1 /\ toDevice'[k] = toDevice[k + 1]
      /\ device.set \subseteq device'.set
      /\ asked # "reset" /\ InMode(device) => InMode(device')
  BY <1>1, TailIs
<1>3. ModeLast'
  <2> SUFFICES ASSUME NEW j \in 1 .. Len(toDevice'), NEW k \in 1 .. Len(toDevice'), j < k,
                      toDevice'[j] = "setMode", toDevice'[k] = "reset"
               PROVE  FALSE
    BY DEF ModeLast
  <2>1. j + 1 < k + 1
    OBVIOUS
  <2>. QED
    BY <1>1, <1>2, <2>1 DEF ModeLast
<1>4. Placed' /\ AcknowledgedIsDone'
  BY <1>1, <1>2 DEF Placed, AcknowledgedIsDone
<1>5. Settled => Settled'
  BY <1>2 DEF Settled
<1>6. asked = "setMode" => \A k \in 1 .. Len(toDevice') : toDevice'[k] # "reset"
  BY <1>1, <1>2 DEF ModeLast
<1>. QED
  BY <1>3, <1>4, <1>5, <1>6

LEMMA FaultIs ==
    ASSUME TypeOK, Fault
    PROVE  faults' = faults + 1 /\ faults' \in 0 .. MaxFaults
BY ActivationAssumption DEF TypeOK, Fault

LEMMA LostIInv ==
    ASSUME IInv, Handled, Lost
    PROVE  IInv'
<1>1. /\ TypeOK /\ Accounted /\ Genuine /\ Prompt /\ ModeUnasked /\ ModeSet
      /\ attempt \in Nat \ {0}
      /\ faults \in Nat /\ swallowed \in Nat /\ Len(toDevice) \in 0 .. MaxInFlight
  BY Types DEF IInv
<1>2. /\ UNCHANGED <<rx, claim, pc, step, attempt, running, telegrams, late, swallowed>>
      /\ fromDevice' \in Seq(Frames) /\ faults' = faults + 1 /\ faults' \in 0 .. MaxFaults
  BY <1>1, FaultIs DEF Handled, Lost
<1>3. /\ toDevice' \in Seq(Commands) /\ Len(toDevice') = Len(toDevice) - 1
      /\ \A k \in 1 .. Len(toDevice') :
            k + 1 \in 1 .. Len(toDevice) /\ toDevice'[k] = toDevice[k + 1]
      /\ device' \in Devices /\ device.set \subseteq device'.set
  BY <1>1, TailIs
<1>4. ModeLast' /\ Placed' /\ AcknowledgedIsDone' /\ (Settled => Settled')
  BY HandledQueue
<1>5. /\ \A k \in 1 .. Len(Coming') :
            IsSet(Coming'[k]) \/ IsMode(Coming'[k])
                => k \in 1 .. Len(Coming) /\ Coming'[k] = Coming[k]
      /\ Refused' = Refused
  <2>1. CASE UNCHANGED Coming
    BY <2>1 DEF Refused
  <2>2. CASE \E torn \in TornFrames : Added(torn)
    <3>1. PICK torn \in TornFrames : Added(torn)
      BY <2>2
    <3>2. ~IsSet(torn) /\ ~IsMode(torn) /\ ~IsRefusal(torn)
      BY TornIs DEF IsSet, IsMode, IsRefusal
    <3>3. Refused' = Refused
      BY <1>1, <3>1, <3>2, AddedRefused
    <3>4. \A k \in 1 .. Len(Coming') :
             IsSet(Coming'[k]) \/ IsMode(Coming'[k])
                 => k \in 1 .. Len(Coming) /\ Coming'[k] = Coming[k]
      BY <1>1, <3>1, <3>2 DEF Added
    <3>. QED
      BY <3>3, <3>4
  <2>. QED
    BY <2>1, <2>2 DEF Lost
<1>6. TypeOK'
  <2>1. Len(toDevice') <= MaxInFlight
    BY <1>1, <1>3, ActivationAssumption
  <2>. QED
    BY <1>1, <1>2, <1>3, <2>1, StepsAre DEF TypeOK, Devices
<1>7. Genuine' /\ ModeUnasked' /\ ModeSet'
  BY <1>1, <1>2, <1>3, <1>4, <1>5 DEF Genuine, ModeUnasked, ModeSet
<1>8. Prompt'
  <2> SUFFICES ASSUME ~late PROVE Prompt'
    BY <1>2 DEF Prompt
  <2>1. ASSUME NEW j \in 1 .. Len(toDevice'), NEW k \in 1 .. Len(toDevice'), j < k
        PROVE  ~(toDevice'[j] \in Settings /\ toDevice'[k] \in Settings)
    <3>1. j + 1 < k + 1
      BY <2>1
    <3>. QED
      BY <1>1, <1>3, <3>1 DEF Prompt
  <2>. QED
    BY <1>1, <1>2, <1>3, <1>5, <2>1 DEF Prompt
<1>9. Accounted'
  <2>1. Refused' = Refused /\ Cardinality(Refused) \in Nat
    BY <1>1, <1>5, RefusedFinite
  <2>. QED
    BY <1>1, <1>2, <2>1, ActivationAssumption DEF Accounted, RetriesSuffice, Costs
<1>. QED
  BY <1>4, <1>6, <1>7, <1>8, <1>9 DEF IInv

LEMMA AnsweredIInv ==
    ASSUME IInv, Handled, NEW frame, AnsweredBy(frame)
    PROVE  IInv'
<1>1. /\ TypeOK /\ Accounted /\ Genuine /\ Prompt /\ ModeUnasked /\ ModeSet
      /\ attempt \in Nat \ {0}
      /\ faults \in Nat /\ swallowed \in Nat /\ Len(toDevice) \in 0 .. MaxInFlight
      /\ Len(Coming) \in Nat /\ fromDevice \in Seq(Frames) /\ device \in Devices
      /\ step \in 1 .. 5
  BY Types DEF IInv
<1>2. /\ UNCHANGED <<rx, claim, pc, step, attempt, running, telegrams, late, swallowed>>
      /\ fromDevice' \in Seq(Frames) /\ Added(frame) /\ frame.about = asked
      /\ fromDevice' = Append(fromDevice, frame) /\ frame.code = Response(asked)
      /\ frame.status \in {"ok", "failed"} /\ frame \in Frames
  BY DEF Handled, AnsweredBy
<1>3. /\ toDevice' \in Seq(Commands) /\ Len(toDevice') = Len(toDevice) - 1
      /\ asked \in Commands /\ asked = toDevice[1] /\ 1 \in 1 .. Len(toDevice)
      /\ \A k \in 1 .. Len(toDevice') :
            k + 1 \in 1 .. Len(toDevice) /\ 1 < k + 1 /\ toDevice'[k] = toDevice[k + 1]
      /\ device' \in Devices /\ device.set \subseteq device'.set
  BY <1>1, TailIs
<1>4. /\ ModeLast' /\ Placed' /\ AcknowledgedIsDone' /\ (Settled => Settled')
      /\ asked = "setMode" => \A k \in 1 .. Len(toDevice') : toDevice'[k] # "reset"
  BY HandledQueue
<1>5. /\ \/ faults' = faults /\ frame.status = "ok"
         \/ faults' = faults + 1 /\ frame.status = "failed"
      /\ faults' \in 0 .. MaxFaults
      /\ frame.status = "ok" => device' = Effect(device, asked)
  <2>1. CASE Fault /\ frame.status = "failed"
    BY <1>1, <2>1, FaultIs
  <2>2. CASE frame.status = "ok" /\ device' = Effect(device, asked) /\ UNCHANGED faults
    BY <1>1, <2>2 DEF TypeOK
  <2>. QED
    BY <2>1, <2>2 DEF AnsweredBy
<1>6. /\ IsSet(frame) <=> asked \in Settings
      /\ IsMode(frame) <=> asked = "setMode"
  BY <1>2, <1>3, ResponseIs DEF IsSet, IsMode
<1>7. \A k \in 1 .. Len(Coming') :
          \/ k \in 1 .. Len(Coming) /\ Coming'[k] = Coming[k]
          \/ k = Len(Coming) + 1 /\ Coming'[k] = frame
  BY <1>1, <1>2 DEF Added
<1>8. TypeOK'
  <2>1. Len(toDevice') <= MaxInFlight
    BY <1>1, <1>3, ActivationAssumption
  <2>. QED
    BY <1>1, <1>2, <1>3, <1>5, <2>1, StepsAre DEF TypeOK, Devices
<1>9. Genuine'
  <2>1. IsSet(frame) => /\ frame.about \in Settings
                        /\ frame.status = "ok" => frame.about \in device'.set
    BY <1>1, <1>2, <1>3, <1>5, <1>6, EffectIs
  <2>. QED
    BY <1>1, <1>3, <1>7, <2>1 DEF Genuine
<1>10. Prompt'
  <2> SUFFICES ASSUME ~late PROVE Prompt'
    BY <1>2 DEF Prompt
  <2>1. ASSUME asked \in Settings
        PROVE  /\ pc = "wait" /\ asked = Steps[step]
               /\ \A k \in 1 .. Len(Coming) : ~IsSet(Coming[k])
               /\ \A k \in 1 .. Len(toDevice') : toDevice'[k] \notin Settings
    BY <1>1, <1>3, <2>1 DEF Prompt
  <2>2. \A k \in 1 .. Len(Coming') :
            IsSet(Coming'[k]) => pc' = "wait" /\ Coming'[k].about = Steps[step]
    BY <1>1, <1>2, <1>6, <1>7, <2>1 DEF Prompt
  <2>3. ASSUME NEW j \in 1 .. Len(Coming'), NEW k \in 1 .. Len(Coming'), j < k
        PROVE  ~(IsSet(Coming'[j]) /\ IsSet(Coming'[k]))
    <3>1. j \in 1 .. Len(Coming) /\ Coming'[j] = Coming[j]
      BY <1>1, <1>2, <2>3 DEF Added
    <3>2. CASE k \in 1 .. Len(Coming) /\ Coming'[k] = Coming[k]
      BY <1>1, <2>3, <3>1, <3>2 DEF Prompt
    <3>3. CASE Coming'[k] = frame
      BY <1>6, <2>1, <3>1, <3>3
    <3>. QED
      BY <1>7, <3>2, <3>3
  <2>4. ASSUME NEW j \in 1 .. Len(toDevice'), NEW k \in 1 .. Len(toDevice'), j < k
        PROVE  ~(toDevice'[j] \in Settings /\ toDevice'[k] \in Settings)
    <3>1. j + 1 < k + 1
      BY <2>4
    <3>. QED
      BY <1>1, <1>3, <3>1 DEF Prompt
  <2>5. ASSUME NEW j \in 1 .. Len(Coming'), NEW k \in 1 .. Len(toDevice')
        PROVE  ~(IsSet(Coming'[j]) /\ toDevice'[k] \in Settings)
    <3>1. CASE j \in 1 .. Len(Coming) /\ Coming'[j] = Coming[j]
      BY <1>1, <1>3, <3>1 DEF Prompt
    <3>2. CASE Coming'[j] = frame
      BY <1>6, <2>1, <3>2
    <3>. QED
      BY <1>7, <3>1, <3>2
  <2>6. \A k \in 1 .. Len(toDevice') :
            toDevice'[k] \in Settings => pc' = "wait" /\ toDevice'[k] = Steps[step]
    BY <1>1, <1>2, <1>3 DEF Prompt
  <2>7. \A k \in 1 .. Len(rx') : ~IsSet(rx'[k])
    BY <1>1, <1>2 DEF Prompt
  <2>. QED
    BY <1>2, <2>2, <2>3, <2>4, <2>5, <2>6, <2>7 DEF Prompt
<1>11. ModeUnasked'
  <2> SUFFICES ASSUME step < Len(Steps) PROVE ModeUnasked'
    BY <1>2 DEF ModeUnasked
  <2>1. ~IsMode(frame) /\ \A k \in 1 .. Len(toDevice') : toDevice'[k] # "setMode"
    BY <1>1, <1>3, <1>6 DEF ModeUnasked
  <2>. QED
    BY <1>1, <1>2, <1>7, <2>1 DEF ModeUnasked
<1>12. ModeSet'
  <2>1. IsMode(frame) /\ frame.status = "ok" => Settled'
    <3> SUFFICES ASSUME IsMode(frame), frame.status = "ok" PROVE Settled'
      OBVIOUS
    <3>1. asked = "setMode" /\ device' = Effect(device, asked)
      BY <1>5, <1>6
    <3>2. InMode(device')
      BY <1>1, <1>3, <3>1, EffectIs
    <3>. QED
      BY <1>4, <3>1, <3>2 DEF Settled
  <2>. QED
    BY <1>1, <1>2, <1>4, <1>7, <2>1 DEF ModeSet
<1>13. UnderWay => UnderWay'
  <2>1. /\ \A k \in 1 .. Len(fromDevice) :
              k \in 1 .. Len(fromDevice') /\ fromDevice'[k] = fromDevice[k]
        /\ Len(fromDevice) + 1 \in 1 .. Len(fromDevice')
        /\ fromDevice'[Len(fromDevice) + 1] = frame
    BY <1>1, <1>2, AppendOf
  <2>2. CASE \E k \in 1 .. Len(fromDevice) : fromDevice[k].code = Response(Steps[step])
    BY <1>2, <2>1, <2>2 DEF UnderWay
  <2>3. ASSUME NEW k \in 1 .. Len(toDevice), Response(toDevice[k]) = Response(Steps[step])
        PROVE  UnderWay'
    <3>1. CASE k = 1
      <4>1. frame.code = Response(Steps[step])
        BY <1>2, <1>3, <2>3, <3>1
      <4>. QED
        BY <1>2, <2>1, <4>1 DEF UnderWay
    <3>2. CASE k # 1
      <4>1. k - 1 \in 1 .. Len(toDevice') /\ (k - 1) + 1 = k
        BY <1>1, <1>3, <3>2, ActivationAssumption
      <4>2. toDevice'[k - 1] = toDevice[k]
        BY <1>3, <4>1
      <4>. QED
        BY <1>2, <2>3, <4>1, <4>2 DEF UnderWay
    <3>. QED
      BY <3>1, <3>2
  <2>. QED
    BY <2>2, <2>3 DEF UnderWay
<1>14. Accounted'
  <2>1. /\ Cardinality(Refused') \in Nat /\ Cardinality(Refused) \in Nat
        /\ Cardinality(Refused') <= Cardinality(Refused) + 1
        /\ frame.status # "failed" => Refused' = Refused
    BY <1>1, <1>2, AddedRefused, RefusedFinite DEF IsRefusal
  <2>2. CASE faults' = faults /\ Refused' = Refused
    BY <1>1, <1>2, <1>13, <2>1, <2>2 DEF Accounted, RetriesSuffice, Costs
  <2>3. CASE faults' = faults + 1
    <3>1. Costs' = Costs + 1 /\ Costs \in Nat
      BY <1>1, <1>2, <2>3 DEF Costs
    <3>2. /\ Cardinality(Refused') + attempt - 1 <= Costs'
          /\ Cardinality(Refused) + attempt <= Costs => Cardinality(Refused') + attempt <= Costs'
      BY <1>1, <2>1, <3>1 DEF Accounted
    <3>3. RetriesSuffice'
      BY <1>1, <1>2, <2>3, ActivationAssumption DEF Accounted, RetriesSuffice, Costs
    <3>. QED
      BY <1>1, <1>2, <1>13, <3>2, <3>3 DEF Accounted
  <2>. QED
    BY <1>5, <2>1, <2>2, <2>3
<1>. QED
  BY <1>4, <1>8, <1>9, <1>10, <1>11, <1>12, <1>14 DEF IInv

LEMMA DeviceIInv ==
    ASSUME IInv, DeviceHandles \/ DeviceRefuses \/ LoseCommand \/ LoseAnswer
    PROVE  IInv'
<1>1. /\ TypeOK /\ rx \in Seq(Frames) /\ fromDevice \in Seq(Frames)
  BY Types DEF IInv
<1>2. Handled
  <2>1. toDevice # <<>> /\ toDevice' = Tail(toDevice) /\ UNCHANGED <<rx, claim>>
    BY DEF DeviceHandles, DeviceRefuses, LoseCommand, LoseAnswer, Handle
  <2>2. /\ device' \in {device, Effect(device, asked)}
        /\ UNCHANGED <<pc, step, attempt, running, telegrams, late, swallowed>>
    BY DEF DeviceHandles, DeviceRefuses, LoseCommand, LoseAnswer, gateway, budget, asked
  <2>. QED
    BY <2>1, <2>2 DEF Handled
<1>3. /\ asked \in Commands /\ asked \in Range(Steps)
      /\ Response(asked) \in {"setResponse", "resetResponse", "setModeResponse"}
  BY <1>1, <1>2, TailIs, ResponseIs, StepsAre
<1>4. CASE DeviceHandles
  <2> DEFINE frame == Ack(Response(asked), asked)
  <2>1. frame \in Frames /\ frame.code = Response(asked) /\ frame.about = asked
        /\ frame.status = "ok"
    BY <1>3 DEF Frames, Ack
  <2>2. Handle(<<frame>>) /\ device' = Effect(device, asked) /\ UNCHANGED faults
    BY <1>4 DEF DeviceHandles, asked, budget
  <2> HIDE DEF frame
  <2>3. fromDevice' \in Seq(Frames) /\ Added(frame)
    BY <1>1, <2>1, <2>2, HandleAdds
  <2>4. fromDevice' = Append(fromDevice, frame)
    BY <1>1, <2>1, <2>2 DEF Handle
  <2>. QED
    BY <1>2, <2>1, <2>2, <2>3, <2>4, AnsweredIInv DEF AnsweredBy
<1>5. CASE DeviceRefuses
  <2> DEFINE frame == Refusal(Response(asked), asked)
  <2>1. frame \in Frames /\ frame.code = Response(asked) /\ frame.about = asked
        /\ frame.status = "failed"
    BY <1>3 DEF Frames, Refusal
  <2>2. Handle(<<frame>>) /\ Fault
    BY <1>5 DEF DeviceRefuses, asked
  <2> HIDE DEF frame
  <2>3. fromDevice' \in Seq(Frames) /\ Added(frame)
    BY <1>1, <2>1, <2>2, HandleAdds
  <2>4. fromDevice' = Append(fromDevice, frame)
    BY <1>1, <2>1, <2>2 DEF Handle
  <2>. QED
    BY <1>2, <2>1, <2>2, <2>3, <2>4, AnsweredIInv DEF AnsweredBy
<1>6. CASE LoseCommand \/ LoseAnswer
  <2>1. PICK reply \in Remains : Handle(reply)
    BY <1>6 DEF LoseCommand, LoseAnswer, Remains
  <2>2. Fault /\ TornFrames \subseteq Frames
    BY <1>6 DEF LoseCommand, LoseAnswer, Frames
  <2>3. /\ fromDevice' \in Seq(Frames)
        /\ UNCHANGED <<fromDevice, Coming>> \/ \E torn \in TornFrames : Added(torn)
    BY <1>1, <2>1, <2>2, HandleRemains
  <2>. QED
    BY <1>2, <2>2, <2>3, LostIInv DEF Lost
<1>. QED
  BY <1>4, <1>5, <1>6

LEMMA DeviceReportsIInv ==
    ASSUME IInv, DeviceReports
    PROVE  IInv'
<1>1. /\ TypeOK /\ Placed /\ AcknowledgedIsDone /\ Accounted /\ Genuine /\ Prompt
      /\ ModeLast /\ ModeUnasked /\ ModeSet /\ Len(Coming) \in Nat
      /\ rx \in Seq(Frames) /\ fromDevice \in Seq(Frames)
  BY Types DEF IInv
<1>2. PICK frame \in {Telegram} \cup TornFrames :
          /\ Report(frame) /\ fromDevice' = Append(fromDevice, frame)
          /\ telegrams < MaxTelegrams /\ telegrams' = telegrams + 1
          /\ UNCHANGED <<pc, step, attempt, running, device, faults, late, swallowed>>
  BY DEF DeviceReports, Report, gateway
<1>3. frame \in Frames /\ ~IsSet(frame) /\ ~IsMode(frame) /\ ~IsRefusal(frame)
  <2>1. CASE frame = Telegram
    BY <2>1 DEF Telegram, Frames, IsSet, IsMode, IsRefusal
  <2>2. CASE frame \in TornFrames
    BY <2>2, TornIs DEF Frames, IsSet, IsMode, IsRefusal
  <2>. QED
    BY <2>1, <2>2
<1>4. fromDevice' \in Seq(Frames) /\ UNCHANGED <<toDevice, rx, claim>> /\ Added(frame)
  BY <1>1, <1>2, <1>3, ReportAdds
<1>5. telegrams' \in 0 .. MaxTelegrams
  BY <1>1, <1>2, ActivationAssumption DEF TypeOK
<1>6. TypeOK'
  BY <1>1, <1>2, <1>4, <1>5 DEF TypeOK
<1>7. \A k \in 1 .. Len(Coming') :
          IsSet(Coming'[k]) \/ IsMode(Coming'[k])
              => k \in 1 .. Len(Coming) /\ Coming'[k] = Coming[k]
  BY <1>1, <1>3, <1>4 DEF Added
<1>8. Placed' /\ AcknowledgedIsDone' /\ ModeLast'
  BY <1>1, <1>2, <1>4 DEF Placed, AcknowledgedIsDone, ModeLast
<1>9. Genuine' /\ ModeUnasked'
  BY <1>1, <1>2, <1>4, <1>7 DEF Genuine, ModeUnasked
<1>10. ModeSet'
  BY <1>1, <1>2, <1>4, <1>7 DEF ModeSet, Settled
<1>11. Prompt'
  BY <1>1, <1>2, <1>4, <1>7 DEF Prompt
<1>12. Accounted'
  <2>1. \A k \in 1 .. Len(fromDevice) :
            k \in 1 .. Len(fromDevice') /\ fromDevice'[k] = fromDevice[k]
    BY <1>1, <1>2, <1>3, AppendOf
  <2>2. UnderWay => UnderWay'
    BY <1>2, <1>4, <2>1 DEF UnderWay
  <2>3. Refused' = Refused
    BY <1>1, <1>3, <1>4, AddedRefused
  <2>. QED
    BY <1>1, <1>2, <2>2, <2>3 DEF Accounted, RetriesSuffice, Costs
<1>. QED
  BY <1>6, <1>8, <1>9, <1>10, <1>11, <1>12 DEF IInv

LEMMA NextIInv == IInv /\ [Next]_vars => IInv'
<1> SUFFICES ASSUME IInv, [Next]_vars PROVE IInv'
  OBVIOUS
<1>. QED
  BY OpenIInv, SendIInv, WaitOnIInv, AcceptIInv, RejectIInv, TimeoutIInv, DrainMoreIInv,
     RetryIInv, AfterResetIInv, RespawnIInv, QuietStepIInv, DeviceIInv, DeviceReportsIInv
     DEF Next, Gateway, Device

LEMMA Invariance == Spec => []IInv
BY InitIInv, NextIInv, PTL DEF Spec

-----------------------------------------------------------------------------
(***************************************************************************)
(* What activation promises, whatever is lost, refused, late or reported,  *)
(* and however often the process dies.                                     *)
(***************************************************************************)
\* The line, the device and the control state of activate and
\* metis_send_and_wait keep their types.
THEOREM TypeCorrect == Spec => []TypeOK
<1>1. IInv => TypeOK
  BY DEF IInv
<1>. QED
  BY <1>1, Invariance, PTL

\* Until an answer is late, activate goes on to a command only when the device
\* has carried out those before it.
THEOREM ActivationAcknowledgedIsDone == Spec => []AcknowledgedIsDone
<1>1. IInv => AcknowledgedIsDone
  BY DEF IInv
<1>. QED
  BY <1>1, Invariance, PTL

\* Late answers or not: when listen_loop is entered the device is in the mode
\* that activate has set.
THEOREM ActivationListensInMode == Spec => []ListensInMode
<1>1. IInv => ListensInMode
  BY DEF IInv, ModeSet, Settled, ListensInMode
<1>. QED
  BY <1>1, Invariance, PTL

\* metis_send_and_wait throws its last error only when as many things have gone
\* wrong as it has attempts, an answer swallowed by a false header among them:
\* what is left in the buffer can cost attempts in no other way.
THEOREM ActivationRetriesSuffice == Spec => []RetriesSuffice
<1>1. IInv => RetriesSuffice
  BY DEF IInv, Accounted
<1>. QED
  BY <1>1, Invariance, PTL
=============================================================================
