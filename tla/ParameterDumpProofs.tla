------------------------- MODULE ParameterDumpProofs -------------------------
(***************************************************************************)
(* Proofs about ParameterDump, for every number of parameters, faults and  *)
(* telegrams: its safety properties, which are about what becomes of an    *)
(* answer that comes late.                                                 *)
(***************************************************************************)
EXTENDS ParameterDump, MetisExchangeProofs, FiniteSetTheorems

Frames == [code : {"getResponse", "telegram"}, status : {"ok"},
           about : Params \cup {NoResponse}] \cup TornFrames
Lines == [label : Params, about : Params \cup {NoResponse}]

IsAnswer(frame) == frame.code = "getResponse"

\* The parameter asked for last.
LastAsked == IF pc = "wait" THEN param ELSE param - 1

\* Answers under way are to questions under way, all of them in the order of
\* the questions, and behind those that have been logged.
InOrder ==
    /\ \A k \in 1 .. Len(Coming) :
          IsAnswer(Coming[k]) => Coming[k].about \in Params /\ Coming[k].about <= LastAsked
    /\ \A j, k \in 1 .. Len(Coming) :
          j < k /\ IsAnswer(Coming[j]) /\ IsAnswer(Coming[k])
              => Coming[j].about < Coming[k].about
    /\ \A k \in 1 .. Len(toDevice) : toDevice[k] <= LastAsked
    /\ \A j, k \in 1 .. Len(toDevice) : j < k => toDevice[j] < toDevice[k]
    /\ \A j \in 1 .. Len(Coming), k \in 1 .. Len(toDevice) :
          IsAnswer(Coming[j]) => Coming[j].about < toDevice[k]

LoggedBefore ==
    /\ \A i \in 1 .. Len(log) : log[i].label < param
    /\ \A i \in 1 .. Len(log), k \in 1 .. Len(Coming) :
          IsAnswer(Coming[k]) => log[i].about < Coming[k].about
    /\ \A i \in 1 .. Len(log), k \in 1 .. Len(toDevice) : log[i].about < toDevice[k]

\* Until an answer is late there is at most one under way, the one waited for.
Prompt ==
    ~late =>
        /\ LabelsMatch
        /\ \A k \in 1 .. Len(rx) : ~IsAnswer(rx[k])
        /\ \A k \in 1 .. Len(Coming) :
              IsAnswer(Coming[k]) => pc = "wait" /\ Coming[k].about = param
        /\ \A k \in 1 .. Len(toDevice) : pc = "wait" /\ toDevice[k] = param

\* A wait that no answer can end is one whose command or answer has been lost,
\* on the line or behind a false header, since the last "no response".
Lost == faults + swallowed
Missed == {i \in 1 .. Len(log) : log[i].about = NoResponse}
UnderWay == toDevice # <<>> \/ \E k \in 1 .. Len(fromDevice) : IsAnswer(fromDevice[k])
Accounted ==
    /\ Cardinality(Missed) <= Lost
    /\ pc = "wait" => UnderWay \/ Cardinality(Missed) + 1 <= Lost

Asking == pc = "wait" => param \in Params

IInv ==
    /\ TypeOK /\ Asking /\ InOrder /\ LoggedBefore /\ AnswersInOrder
    /\ Prompt /\ Accounted

-----------------------------------------------------------------------------
LEMMA Types ==
    ASSUME TypeOK
    PROVE  /\ rx \in Seq(Frames) /\ fromDevice \in Seq(Frames) /\ toDevice \in Seq(Params)
           /\ log \in Seq(Lines) /\ param \in Nat /\ Len(rx) \in Nat
           /\ Coming \in Seq(Frames) /\ Len(Coming) \in Nat
           /\ Len(toDevice) \in Nat /\ Len(log) \in Nat
           /\ faults \in Nat /\ swallowed \in Nat
           /\ \A k \in 1 .. Len(toDevice) : toDevice[k] \in Nat
           /\ \A i \in 1 .. Len(log) : log[i].label \in Nat /\ log[i].about \in Int
<1>1. /\ rx \in Seq(Frames) /\ fromDevice \in Seq(Frames) /\ toDevice \in Seq(Params)
      /\ log \in Seq(Lines) /\ param \in Nat /\ faults \in Nat /\ swallowed \in Nat
  BY DumpAssumption DEF TypeOK, Frames, Lines
<1>2. Coming \in Seq(Frames)
  BY <1>1, ComingIs
<1>3. \A entry \in Lines : entry.label \in Nat /\ entry.about \in Int
  BY DEF Lines, Params, NoResponse
<1>4. \A k \in 1 .. Len(toDevice) : toDevice[k] \in Nat
  <2>1. \A p \in Params : p \in Nat
    BY DumpAssumption DEF Params
  <2>. QED
    BY <1>1, <2>1
<1>. QED
  BY <1>1, <1>2, <1>3, <1>4

LEMMA MissedIs ==
    ASSUME TypeOK
    PROVE  IsFiniteSet(Missed) /\ Cardinality(Missed) \in Nat /\ Lost \in Nat
<1>1. IsFiniteSet(1 .. Len(log)) /\ Missed \subseteq 1 .. Len(log)
  BY Types, FS_Interval DEF Missed
<1>2. IsFiniteSet(Missed)
  BY <1>1, FS_Subset
<1>. QED
  BY <1>2, Types, FS_CardinalityType DEF Lost

LEMMA InitIInv == Init => IInv
<1> SUFFICES ASSUME Init PROVE IInv
  OBVIOUS
<1>1. Coming = <<>>
  BY DEF Init, QuietLine, Coming
<1>2. Len(Coming) = 0 /\ Len(toDevice) = 0 /\ Len(rx) = 0 /\ Len(log) = 0
  BY <1>1 DEF Init, QuietLine
<1>3. TypeOK
  <2>1. /\ toDevice \in Seq(Params) /\ fromDevice \in Seq(Frames) /\ rx \in Seq(Frames)
        /\ log \in Seq(Lines)
    BY DEF Init, QuietLine
  <2>2. /\ param \in 0 .. LastParam + 1 /\ faults \in 0 .. MaxFaults
        /\ telegrams \in 0 .. MaxTelegrams /\ pc = "send"
        /\ swallowed \in Nat /\ claim \in 0 .. MaxClaim
    BY DumpAssumption, ExchangeAssumption DEF Init, QuietLine
  <2>3. running \in BOOLEAN /\ late \in BOOLEAN
    BY Zenon DEF Init
  <2>. QED
    BY <2>1, <2>2, <2>3 DEF TypeOK, Frames, Lines
<1>4. InOrder /\ LoggedBefore /\ AnswersInOrder
  BY <1>2 DEF InOrder, LoggedBefore, AnswersInOrder
<1>5. Prompt
  BY <1>2 DEF Prompt, LabelsMatch
<1>6. Accounted
  <2>1. Missed = {}
    BY <1>2 DEF Missed
  <2>2. Cardinality(Missed) = 0
    BY <2>1, FS_EmptySet
  <2>3. Lost = 0 /\ pc = "send"
    BY DEF Lost, Init
  <2>. QED
    BY <2>2, <2>3 DEF Accounted
<1>. QED
  BY <1>3, <1>4, <1>5, <1>6 DEF IInv, Asking, Init

\* Frames taken off the front, or none: what is left is in order.
LEMMA ShiftedInOrder ==
    ASSUME IInv, NEW k \in 0 .. Len(Coming), Shifted(k),
           UNCHANGED toDevice, LastAsked' = LastAsked
    PROVE  InOrder'
<1>1. InOrder /\ Len(Coming) \in Nat
  BY Types DEF IInv
<1>2. \A i \in 1 .. Len(Coming') : i + k \in 1 .. Len(Coming) /\ Coming'[i] = Coming[i + k]
  BY DEF Shifted
<1>3. \A i \in 1 .. Len(Coming') : IsAnswer(Coming'[i]) =>
          Coming'[i].about \in Params /\ Coming'[i].about <= LastAsked'
  BY <1>1, <1>2 DEF InOrder
<1>4. ASSUME NEW i \in 1 .. Len(Coming'), NEW j \in 1 .. Len(Coming'), i < j,
             IsAnswer(Coming'[i]), IsAnswer(Coming'[j])
      PROVE  Coming'[i].about < Coming'[j].about
  <2>1. i + k < j + k
    BY <1>4, <1>1
  <2>. QED
    BY <1>1, <1>2, <1>4, <2>1 DEF InOrder
<1>5. \A j \in 1 .. Len(Coming'), i \in 1 .. Len(toDevice') :
          IsAnswer(Coming'[j]) => Coming'[j].about < toDevice'[i]
  BY <1>1, <1>2 DEF InOrder
<1>6. /\ \A i \in 1 .. Len(toDevice') : toDevice'[i] <= LastAsked'
      /\ \A i, j \in 1 .. Len(toDevice') : i < j => toDevice'[i] < toDevice'[j]
  BY <1>1 DEF InOrder
<1>. QED
  BY <1>3, <1>4, <1>5, <1>6 DEF InOrder

LEMMA ShiftedLogged ==
    ASSUME IInv, NEW k \in 0 .. Len(Coming), Shifted(k), UNCHANGED <<toDevice, log, param>>
    PROVE  LoggedBefore'
BY DEF IInv, LoggedBefore, Shifted

LEMMA SendIInv ==
    ASSUME IInv, Send
    PROVE  IInv'
<1>1. /\ TypeOK /\ InOrder /\ LoggedBefore /\ AnswersInOrder /\ Prompt /\ Accounted
      /\ toDevice \in Seq(Params) /\ param \in Nat /\ Len(toDevice) \in Nat
      /\ \A k \in 1 .. Len(toDevice) : toDevice[k] \in Nat
      /\ \A i \in 1 .. Len(log) : log[i].label \in Nat /\ log[i].about \in Int
  BY Types DEF IInv
<1>2. /\ pc = "send" /\ pc' = "wait" /\ param \in Params /\ toDevice' = Append(toDevice, param)
      /\ UNCHANGED <<fromDevice, rx, claim, Coming, param, log, running, faults, telegrams,
                     late, swallowed>>
  BY DEF Send, Write, budget, Coming
<1>3. /\ toDevice' \in Seq(Params) /\ Len(toDevice') = Len(toDevice) + 1
      /\ \A k \in 1 .. Len(toDevice) : toDevice'[k] = toDevice[k]
      /\ toDevice'[Len(toDevice) + 1] = param
  BY <1>1, <1>2, AppendOf
<1>4. \A k \in 1 .. Len(toDevice') :
          \/ k \in 1 .. Len(toDevice) /\ toDevice'[k] = toDevice[k]
          \/ k = Len(toDevice) + 1 /\ toDevice'[k] = param
  BY <1>1, <1>3
<1>5. TypeOK'
  BY <1>1, <1>2, <1>3 DEF TypeOK
<1>6. LastAsked = param - 1 /\ LastAsked' = param
  BY <1>2 DEF LastAsked
<1>7. \A p \in Params : p \in Nat
  BY DEF Params
<1>8. InOrder'
  <2>1. \A k \in 1 .. Len(Coming) : IsAnswer(Coming[k]) =>
            Coming[k].about \in Params /\ Coming[k].about \in Nat /\ Coming[k].about < param
    BY <1>1, <1>6, <1>7 DEF InOrder
  <2>2. \A k \in 1 .. Len(toDevice) : toDevice[k] < param
    BY <1>1, <1>6 DEF InOrder
  <2>3. \A j, k \in 1 .. Len(Coming) :
            j < k /\ IsAnswer(Coming[j]) /\ IsAnswer(Coming[k])
                => Coming[j].about < Coming[k].about
    BY <1>1 DEF InOrder
  <2>4. \A k \in 1 .. Len(toDevice') : toDevice'[k] <= param
    BY <1>1, <1>4, <2>2
  <2>5. ASSUME NEW j \in 1 .. Len(toDevice'), NEW k \in 1 .. Len(toDevice'), j < k
        PROVE  toDevice'[j] < toDevice'[k]
    <3>1. j \in 1 .. Len(toDevice) /\ toDevice'[j] = toDevice[j]
      BY <1>1, <1>3, <2>5
    <3>2. CASE k \in 1 .. Len(toDevice) /\ toDevice'[k] = toDevice[k]
      BY <1>1, <2>5, <3>1, <3>2 DEF InOrder
    <3>3. CASE toDevice'[k] = param
      BY <2>2, <3>1, <3>3
    <3>. QED
      BY <1>4, <3>2, <3>3
  <2>6. \A j \in 1 .. Len(Coming), k \in 1 .. Len(toDevice') :
            IsAnswer(Coming[j]) => Coming[j].about < toDevice'[k]
    BY <1>1, <1>4, <2>1 DEF InOrder
  <2>7. \A k \in 1 .. Len(Coming) : IsAnswer(Coming[k]) =>
            Coming[k].about \in Params /\ Coming[k].about <= param
    BY <1>1, <2>1
  <2>. QED
    BY <1>2, <1>6, <2>3, <2>4, <2>5, <2>6, <2>7 DEF InOrder
<1>9. LoggedBefore'
  <2>1. \A i \in 1 .. Len(log) : log[i].about < param
    BY <1>1 DEF AnswersInOrder, LoggedBefore
  <2>. QED
    BY <1>1, <1>2, <1>4, <2>1 DEF LoggedBefore
<1>10. AnswersInOrder'
  BY <1>1, <1>2 DEF AnswersInOrder
<1>11. Prompt'
  <2> SUFFICES ASSUME ~late PROVE Prompt'
    BY <1>2 DEF Prompt
  <2>1. Len(toDevice) = 0
    BY <1>1, <1>2 DEF Prompt
  <2>. QED
    BY <1>1, <1>2, <1>4, <2>1 DEF Prompt, LabelsMatch
<1>12. Accounted'
  <2>1. toDevice' # <<>>
    BY <1>1, <1>3
  <2>. QED
    BY <1>1, <1>2, <2>1 DEF Accounted, UnderWay, Missed, Lost
<1>. QED
  BY <1>2, <1>5, <1>8, <1>9, <1>10, <1>11, <1>12 DEF IInv, Asking

LEMMA WaitOnIInv ==
    ASSUME IInv, WaitOn
    PROVE  IInv'
<1>1. /\ TypeOK /\ InOrder /\ LoggedBefore /\ AnswersInOrder /\ Prompt /\ Accounted
      /\ rx \in Seq(Frames) /\ fromDevice \in Seq(Frames)
      /\ Len(Coming) \in Nat /\ Len(rx) \in Nat
  BY Types DEF IInv
<1>2. PICK n \in 1 .. Len(fromDevice) :
          /\ ReadOthers("getResponse", n)
          /\ swallowed' = swallowed + Cardinality(Answers("getResponse", Received(n)))
  BY DEF WaitOn
<1> DEFINE answers == Cardinality(Answers("getResponse", Received(n)))
<1>3. /\ pc = "wait" /\ pc' = pc
      /\ UNCHANGED <<toDevice, param, log, running, faults, telegrams, late>>
  BY <1>2 DEF WaitOn, ReadOthers, budget
<1>4. /\ rx' = <<>> /\ claim' \in 0 .. MaxClaim /\ fromDevice' \in Seq(Frames)
      /\ answers \in Nat
      /\ \E k \in 1 .. Len(Coming) :
            Shifted(k) /\ ((\E i \in 1 .. k : IsAnswer(Coming[i])) => answers >= 1)
  BY <1>1, <1>2, ReadOthersShifts DEF IsAnswer
<1>5. PICK k \in 1 .. Len(Coming) :
          Shifted(k) /\ ((\E i \in 1 .. k : IsAnswer(Coming[i])) => answers >= 1)
  BY <1>4
<1> HIDE DEF answers
<1>6. swallowed' = swallowed + answers /\ swallowed \in Nat /\ swallowed' \in Nat
  BY <1>1, <1>2, <1>4 DEF answers, TypeOK
<1>7. TypeOK'
  BY <1>1, <1>3, <1>4, <1>6 DEF TypeOK, Frames
<1>8. InOrder' /\ LoggedBefore' /\ AnswersInOrder'
  <2>1. k \in 0 .. Len(Coming) /\ LastAsked' = LastAsked
    BY <1>1, <1>3 DEF LastAsked
  <2>. QED
    BY <1>1, <1>3, <1>5, <2>1, ShiftedInOrder, ShiftedLogged DEF AnswersInOrder
<1>9. \A i \in 1 .. Len(Coming') : i + k \in 1 .. Len(Coming) /\ Coming'[i] = Coming[i + k]
  BY <1>5 DEF Shifted
<1>10. Prompt'
  <2> SUFFICES ASSUME ~late PROVE Prompt'
    BY <1>3 DEF Prompt
  <2>1. \A i \in 1 .. Len(Coming') : IsAnswer(Coming'[i]) => pc = "wait" /\ Coming'[i].about = param
    BY <1>1, <1>9 DEF Prompt
  <2>2. \A i \in 1 .. Len(rx') : ~IsAnswer(rx'[i])
    BY <1>4
  <2>3. LabelsMatch' /\ \A i \in 1 .. Len(toDevice) : pc = "wait" /\ toDevice[i] = param
    BY <1>1, <1>3 DEF Prompt, LabelsMatch
  <2>. QED
    BY <1>3, <2>1, <2>2, <2>3 DEF Prompt
<1>11. UnderWay => UnderWay' \/ answers >= 1
  <2>1. CASE toDevice # <<>>
    BY <1>3, <2>1 DEF UnderWay
  <2>2. ASSUME NEW m \in 1 .. Len(fromDevice), IsAnswer(fromDevice[m]), ~(answers >= 1)
        PROVE  \E i \in 1 .. Len(fromDevice') : IsAnswer(fromDevice'[i])
    <3>1. /\ Coming[Len(rx) + m] = fromDevice[m] /\ Len(rx) + m \in 1 .. Len(Coming)
          /\ Len(fromDevice) \in Nat
      BY <1>1, ComingIs
    <3>2. Len(rx) + m > k
      BY <1>1, <1>5, <2>2, <3>1
    <3>3. Len(Coming') = Len(Coming) - k
      BY <1>5 DEF Shifted
    <3>4. Len(rx) + m - k \in 1 .. Len(Coming') /\ (Len(rx) + m - k) + k = Len(rx) + m
      BY <1>1, <3>1, <3>2, <3>3
    <3>5. Coming'[Len(rx) + m - k] = fromDevice[m]
      BY <1>9, <3>1, <3>4
    <3>6. Coming' = fromDevice'
      <4>1. <<>> \o fromDevice' = fromDevice'
        BY <1>4
      <4>. QED
        BY <1>4, <4>1 DEF Coming
    <3>. QED
      BY <2>2, <3>4, <3>5, <3>6
  <2>. QED
    BY <2>1, <2>2 DEF UnderWay
<1>12. Accounted'
  <2>1. Missed' = Missed /\ Cardinality(Missed) \in Nat /\ Lost \in Nat
    BY <1>1, <1>3, MissedIs DEF Missed
  <2>2. Lost' = Lost + answers /\ faults \in Nat
    BY <1>1, <1>3, <1>6, <1>4, Types DEF Lost, answers
  <2>3. Cardinality(Missed) <= Lost' /\ (answers >= 1 => Cardinality(Missed) + 1 <= Lost')
    <3>1. Cardinality(Missed) <= Lost /\ answers \in Nat
      BY <1>1, <1>4 DEF Accounted, answers
    <3>. QED
      BY <2>1, <2>2, <3>1
  <2>4. UnderWay \/ Cardinality(Missed) + 1 <= Lost'
    <3>1. UnderWay \/ Cardinality(Missed) + 1 <= Lost
      BY <1>1, <1>3 DEF Accounted
    <3>2. answers \in Nat
      BY <1>4 DEF answers
    <3>. QED
      BY <2>1, <2>2, <3>1, <3>2
  <2>. QED
    BY <1>11, <2>1, <2>3, <2>4 DEF Accounted
<1>. QED
  BY <1>1, <1>3, <1>7, <1>8, <1>10, <1>12 DEF IInv, Asking

\* A line is logged and the next parameter is up.
LEMMA LogLineIs ==
    ASSUME IInv, NEW about \in Params \cup {NoResponse}, LogLine(about), param \in Params
    PROVE  /\ log' \in Seq(Lines) /\ Len(log') = Len(log) + 1
           /\ \A i \in 1 .. Len(log) : log'[i] = log[i]
           /\ \A i \in 1 .. Len(log') :
                 \/ i \in 1 .. Len(log) /\ log'[i] = log[i]
                 \/ i = Len(log) + 1 /\ log'[i].label = param /\ log'[i].about = about
           /\ param' = param + 1 /\ param' \in 0 .. LastParam + 1
           /\ pc' = "send" /\ LastAsked' = param
<1>1. log \in Seq(Lines) /\ param \in Nat /\ [label |-> param, about |-> about] \in Lines
  BY Types DEF IInv, Lines
<1>2. log' = Append(log, [label |-> param, about |-> about])
  BY DEF LogLine
<1>3. /\ log' \in Seq(Lines) /\ Len(log') = Len(log) + 1
      /\ \A i \in 1 .. Len(log) : log'[i] = log[i]
      /\ log'[Len(log) + 1] = [label |-> param, about |-> about]
  BY <1>1, <1>2, AppendOf
<1>4. \A i \in 1 .. Len(log') : i \in 1 .. Len(log) \/ i = Len(log) + 1
  BY <1>1, <1>3
<1>5. param' = param + 1 /\ param' \in 0 .. LastParam + 1 /\ pc' = "send"
  BY <1>1, DumpAssumption DEF LogLine, Params
<1>6. LastAsked' = param
  BY <1>1, <1>5 DEF LastAsked
<1>. QED
  BY <1>3, <1>4, <1>5, <1>6

LEMMA AnsweredIInv ==
    ASSUME IInv, Answered
    PROVE  IInv'
<1>1. /\ TypeOK /\ InOrder /\ LoggedBefore /\ AnswersInOrder /\ Prompt /\ Accounted
      /\ rx \in Seq(Frames) /\ fromDevice \in Seq(Frames)
      /\ Len(Coming) \in Nat /\ Len(log) \in Nat /\ param \in Nat
      /\ \A i \in 1 .. Len(log) : log[i].label \in Nat /\ log[i].about \in Int
  BY Types DEF IInv
<1>2. /\ pc = "wait" /\ param \in Params /\ LastAsked = param
      /\ UNCHANGED <<running, faults, telegrams, late, swallowed>>
  BY DEF Answered, IInv, Asking, LastAsked, budget
<1>3. PICK n \in 1 .. Len(fromDevice) : \E m \in 1 .. Len(Received(n)) :
          ReadAnswer("getResponse", n, m) /\ LogLine(Received(n)[m].about)
  BY DEF Answered
<1>4. PICK k \in 1 .. Len(Received(n)) :
          ReadAnswer("getResponse", n, k) /\ LogLine(Received(n)[k].about)
  BY <1>3
<1> DEFINE about == Coming[k].about
<1>5. /\ rx' \in Seq(Frames) /\ fromDevice' \in Seq(Frames) /\ claim' = 0 /\ UNCHANGED toDevice
      /\ k \in 1 .. Len(Coming) /\ Shifted(k) /\ IsAnswer(Coming[k]) /\ LogLine(about)
      /\ \A i \in 1 .. Len(rx') : \E j \in k + 1 .. Len(Coming) : rx'[i] = Coming[j]
  <2>1. rx \in Seq(Frames) /\ fromDevice \in Seq(Frames) /\ ReadAnswer("getResponse", n, k)
    BY <1>1, <1>4
  <2>2. /\ rx' \in Seq(Frames) /\ fromDevice' \in Seq(Frames) /\ claim' = 0 /\ UNCHANGED toDevice
        /\ k \in 1 .. Len(Coming) /\ Shifted(k)
        /\ Received(n)[k] = Coming[k] /\ Coming[k].code = "getResponse"
        /\ \A i \in 1 .. Len(rx') : \E j \in k + 1 .. Len(Coming) : rx'[i] = Coming[j]
    BY <2>1, ReadAnswerShifts
  <2>. QED
    BY <1>4, <2>2 DEF IsAnswer
<1>6. about \in Params /\ about <= param /\ about \in Nat /\ about # NoResponse
  <2>1. \A p \in Params : p \in Nat /\ p # NoResponse
    BY DEF Params, NoResponse
  <2>. QED
    BY <1>1, <1>2, <1>5, <2>1 DEF InOrder
<1> HIDE DEF about
<1>7. /\ log' \in Seq(Lines) /\ Len(log') = Len(log) + 1
      /\ \A i \in 1 .. Len(log') :
            \/ i \in 1 .. Len(log) /\ log'[i] = log[i]
            \/ i = Len(log) + 1 /\ log'[i].label = param /\ log'[i].about = about
      /\ param' = param + 1 /\ param' \in 0 .. LastParam + 1
      /\ pc' = "send" /\ LastAsked' = param
  BY <1>2, <1>5, <1>6, LogLineIs
<1>8. TypeOK'
  <2>1. claim' \in 0 .. MaxClaim
    BY <1>5, ExchangeAssumption
  <2>. QED
    BY <1>1, <1>2, <1>5, <1>7, <2>1 DEF TypeOK, Frames, Lines
<1>9. InOrder'
  <2>1. k \in 0 .. Len(Coming)
    BY <1>1, <1>5
  <2>. QED
    BY <1>2, <1>5, <1>7, <2>1, ShiftedInOrder
<1>10. /\ \A i \in 1 .. Len(Coming') : /\ i + k \in 1 .. Len(Coming) /\ k < i + k
                                       /\ Coming'[i] = Coming[i + k]
  <2>1. Len(Coming) \in Nat /\ k \in 1 .. Len(Coming)
    BY <1>1, <1>5
  <2>2. \A i \in 1 .. Len(Coming') : i + k \in 1 .. Len(Coming) /\ Coming'[i] = Coming[i + k]
    BY <1>5 DEF Shifted
  <2>3. \A i \in 1 .. Len(Coming') : k < i + k
    BY <2>1
  <2>. QED
    BY <2>2, <2>3
<1>11. LoggedBefore'
  <2>1. \A i \in 1 .. Len(log') : log'[i].label < param'
    <3>1. \A i \in 1 .. Len(log) : log[i].label < param /\ log[i].label \in Nat
      BY <1>1 DEF LoggedBefore
    <3>2. \A i \in 1 .. Len(log) : log[i].label < param + 1
      BY <1>1, <3>1
    <3>3. param < param + 1
      BY <1>1
    <3>. QED
      BY <1>7, <3>2, <3>3
  <2>2. \A j \in 1 .. Len(Coming') : IsAnswer(Coming'[j]) => about < Coming'[j].about
    BY <1>1, <1>5, <1>10 DEF InOrder, about
  <2>3. \A i \in 1 .. Len(log), j \in 1 .. Len(Coming') :
            IsAnswer(Coming'[j]) => log[i].about < Coming'[j].about
    BY <1>1, <1>10 DEF LoggedBefore
  <2>4. \A j \in 1 .. Len(toDevice') : about < toDevice'[j]
    BY <1>1, <1>5 DEF InOrder, about
  <2>5. \A i \in 1 .. Len(log), j \in 1 .. Len(toDevice') : log[i].about < toDevice'[j]
    BY <1>1, <1>5 DEF LoggedBefore
  <2>. QED
    BY <1>7, <2>1, <2>2, <2>3, <2>4, <2>5 DEF LoggedBefore
<1>12. AnswersInOrder'
  <2>1. \A i \in 1 .. Len(log) : log[i].about < about
    BY <1>1, <1>5 DEF LoggedBefore, about
  <2>2. \A i \in 1 .. Len(log') : log'[i].about <= log'[i].label
    BY <1>1, <1>6, <1>7 DEF AnswersInOrder
  <2>3. ASSUME NEW i \in 1 .. Len(log'), NEW j \in 1 .. Len(log'), i < j,
               log'[i].about # NoResponse, log'[j].about # NoResponse
        PROVE  log'[i].about < log'[j].about
    <3>1. i \in 1 .. Len(log) /\ log'[i] = log[i]
      BY <1>1, <1>7, <2>3
    <3>2. CASE j \in 1 .. Len(log) /\ log'[j] = log[j]
      BY <1>1, <2>3, <3>1, <3>2 DEF AnswersInOrder
    <3>3. CASE log'[j].about = about
      BY <2>1, <3>1, <3>3
    <3>. QED
      BY <1>7, <3>2, <3>3
  <2>. QED
    BY <2>2, <2>3 DEF AnswersInOrder
<1>13. Prompt'
  <2> SUFFICES ASSUME ~late PROVE Prompt'
    BY <1>2 DEF Prompt
  <2>1. about = param
    BY <1>1, <1>5 DEF Prompt, about
  <2>2. LabelsMatch'
    BY <1>1, <1>7, <2>1 DEF Prompt, LabelsMatch
  <2>3. \A j \in k + 1 .. Len(Coming) : ~IsAnswer(Coming[j])
    <3> SUFFICES ASSUME NEW j \in k + 1 .. Len(Coming), IsAnswer(Coming[j]) PROVE FALSE
      OBVIOUS
    <3>1. j \in 1 .. Len(Coming) /\ k < j
      BY <1>1, <1>5
    <3>2. Coming[j].about = param /\ about < Coming[j].about
      BY <1>1, <1>5, <3>1 DEF Prompt, InOrder, about
    <3>. QED
      BY <1>1, <2>1, <3>2
  <2>4. \A j \in 1 .. Len(toDevice) : FALSE
    <3> SUFFICES ASSUME NEW j \in 1 .. Len(toDevice) PROVE FALSE
      OBVIOUS
    <3>1. toDevice[j] = param /\ about < toDevice[j]
      BY <1>1, <1>5 DEF Prompt, InOrder, about
    <3>. QED
      BY <1>1, <2>1, <3>1
  <2>5. \A i \in 1 .. Len(Coming') : ~IsAnswer(Coming'[i])
    <3> SUFFICES ASSUME NEW i \in 1 .. Len(Coming') PROVE ~IsAnswer(Coming'[i])
      OBVIOUS
    <3>1. i + k \in k + 1 .. Len(Coming) /\ Coming'[i] = Coming[i + k]
      BY <1>1, <1>5, <1>10
    <3>. QED
      BY <2>3, <3>1
  <2>6. \A i \in 1 .. Len(rx') : ~IsAnswer(rx'[i])
    BY <1>5, <2>3
  <2>. QED
    BY <1>5, <2>2, <2>4, <2>5, <2>6 DEF Prompt
<1>14. Accounted'
  <2>1. Missed' = Missed
    <3>1. \A i \in 1 .. Len(log) : i \in 1 .. Len(log') /\ log'[i] = log[i]
      BY <1>1, <1>7
    <3>. QED
      BY <1>6, <1>7, <3>1 DEF Missed
  <2>. QED
    BY <1>1, <1>2, <1>7, <2>1 DEF Accounted, Lost
<1>. QED
  BY <1>7, <1>8, <1>9, <1>11, <1>12, <1>13, <1>14 DEF IInv, Asking

LEMMA TimeoutIInv ==
    ASSUME IInv, Timeout
    PROVE  IInv'
<1>1. /\ TypeOK /\ InOrder /\ LoggedBefore /\ AnswersInOrder /\ Prompt /\ Accounted
      /\ rx \in Seq(Frames) /\ fromDevice \in Seq(Frames)
      /\ Len(Coming) \in Nat /\ Len(log) \in Nat /\ param \in Nat /\ faults \in Nat
      /\ \A i \in 1 .. Len(log) : log[i].label \in Nat /\ log[i].about \in Int
      /\ \A k \in 1 .. Len(toDevice) : toDevice[k] \in Nat
  BY Types DEF IInv
<1>2. /\ pc = "wait" /\ param \in Params /\ LastAsked = param /\ LogLine(NoResponse)
      /\ UNCHANGED <<toDevice, fromDevice, rx, claim, Coming, running, telegrams, swallowed>>
      /\ \/ toDevice = <<>> /\ fromDevice = <<>> /\ UNCHANGED <<faults, late>>
         \/ Fault /\ late' = TRUE
  BY DEF Timeout, IInv, Asking, LastAsked, line, Coming
<1>3. /\ log' \in Seq(Lines) /\ Len(log') = Len(log) + 1
      /\ \A i \in 1 .. Len(log') :
            \/ i \in 1 .. Len(log) /\ log'[i] = log[i]
            \/ i = Len(log) + 1 /\ log'[i].label = param /\ log'[i].about = NoResponse
      /\ param' = param + 1 /\ param' \in 0 .. LastParam + 1
      /\ pc' = "send" /\ LastAsked' = param
  BY <1>2, LogLineIs
<1>4. faults' \in 0 .. MaxFaults /\ late' \in BOOLEAN /\ faults' \in Nat
  <2>1. faults \in 0 .. MaxFaults /\ late \in BOOLEAN /\ MaxFaults \in Nat
    BY <1>1, DumpAssumption DEF TypeOK
  <2>2. CASE Fault /\ late' = TRUE
    BY <2>1, <2>2 DEF Fault
  <2>3. CASE UNCHANGED <<faults, late>>
    BY <2>1, <2>3
  <2>. QED
    BY <1>2, <2>2, <2>3
<1>5. TypeOK'
  BY <1>1, <1>2, <1>3, <1>4 DEF TypeOK, Frames, Lines
<1>6. InOrder'
  BY <1>1, <1>2, <1>3 DEF InOrder
<1>7. LoggedBefore'
  <2>1. \A i \in 1 .. Len(log') : log'[i].label < param'
    <3>1. \A i \in 1 .. Len(log) : log[i].label < param + 1
      BY <1>1 DEF LoggedBefore
    <3>2. param < param + 1
      BY <1>1
    <3>. QED
      BY <1>3, <3>1, <3>2
  <2>2. \A k \in 1 .. Len(Coming) : IsAnswer(Coming[k]) => NoResponse < Coming[k].about
    <3>1. \A p \in Params : NoResponse < p
      BY DEF Params, NoResponse
    <3>. QED
      BY <1>1, <3>1 DEF InOrder
  <2>3. \A k \in 1 .. Len(toDevice) : NoResponse < toDevice[k]
    BY <1>1 DEF NoResponse
  <2>. QED
    BY <1>1, <1>2, <1>3, <2>1, <2>2, <2>3 DEF LoggedBefore
<1>8. AnswersInOrder'
  <2>1. NoResponse <= param
    BY <1>1 DEF NoResponse
  <2>2. \A i \in 1 .. Len(log') : log'[i].about <= log'[i].label
    BY <1>1, <1>3, <2>1 DEF AnswersInOrder
  <2>3. \A i \in 1 .. Len(log') : log'[i].about # NoResponse =>
            i \in 1 .. Len(log) /\ log'[i] = log[i]
    BY <1>3
  <2>. QED
    BY <1>1, <2>2, <2>3 DEF AnswersInOrder
<1>9. Prompt'
  <2> SUFFICES ASSUME ~late' PROVE Prompt'
    BY DEF Prompt
  <2>1. ~late /\ toDevice = <<>> /\ fromDevice = <<>>
    BY <1>2
  <2>2. Len(Coming) = Len(rx) /\ \A k \in 1 .. Len(rx) : Coming[k] = rx[k]
    BY <1>1, <2>1, ComingIs
  <2>3. LabelsMatch'
    BY <1>1, <1>3, <2>1 DEF Prompt, LabelsMatch
  <2>. QED
    BY <1>1, <1>2, <2>1, <2>2, <2>3 DEF Prompt
<1>10. Accounted'
  <2>1. Cardinality(Missed) + 1 <= Lost'
    <3>1. Cardinality(Missed) \in Nat /\ Lost \in Nat /\ Cardinality(Missed) <= Lost
      BY <1>1, MissedIs DEF Accounted
    <3>2. CASE Fault
      <4>1. Lost' = Lost + 1
        BY <1>1, <1>2, <3>2, Types DEF Fault, Lost
      <4>. QED
        BY <3>1, <4>1
    <3>3. CASE toDevice = <<>> /\ fromDevice = <<>> /\ UNCHANGED faults
      <4>1. ~UnderWay /\ Lost' = Lost
        BY <1>2, <3>3 DEF UnderWay, Lost
      <4>. QED
        BY <1>1, <1>2, <4>1 DEF Accounted
    <3>. QED
      BY <1>2, <3>2, <3>3
  <2>2. Cardinality(Missed') <= Cardinality(Missed) + 1 /\ Cardinality(Missed') \in Nat
        /\ Cardinality(Missed) \in Nat
    <3>1. IsFiniteSet(1 .. Len(log)) /\ Missed \subseteq 1 .. Len(log)
      BY <1>1, FS_Interval DEF Missed
    <3>2. IsFiniteSet(Missed)
      BY <3>1, FS_Subset
    <3>3. Missed' \subseteq Missed \cup {Len(log) + 1}
      BY <1>3 DEF Missed
    <3>4. /\ IsFiniteSet(Missed \cup {Len(log) + 1})
          /\ Cardinality(Missed \cup {Len(log) + 1}) \in
                {Cardinality(Missed), Cardinality(Missed) + 1}
      BY <3>2, FS_AddElement
    <3>5. IsFiniteSet(Missed') /\ Cardinality(Missed') <= Cardinality(Missed \cup {Len(log) + 1})
      BY <3>3, <3>4, FS_Subset
    <3>6. Cardinality(Missed) \in Nat /\ Cardinality(Missed') \in Nat
      BY <3>2, <3>5, FS_CardinalityType
    <3>. QED
      BY <3>4, <3>5, <3>6
  <2>3. Lost' \in Nat
    BY <1>1, <1>2, <1>4, Types DEF Lost
  <2>. QED
    BY <1>3, <2>1, <2>2, <2>3 DEF Accounted
<1>. QED
  BY <1>3, <1>5, <1>6, <1>7, <1>8, <1>9, <1>10 DEF IInv, Asking

LEMMA QuietStepIInv ==
    ASSUME IInv, Finish \/ Signal \/ UNCHANGED vars
    PROVE  IInv'
<1>1. /\ TypeOK /\ Asking /\ InOrder /\ LoggedBefore /\ AnswersInOrder /\ Prompt /\ Accounted
      /\ param \in Nat
  BY Types DEF IInv
<1>2. /\ UNCHANGED <<toDevice, fromDevice, rx, claim, Coming, param, log, faults, telegrams,
                     late, swallowed>>
      /\ pc' = pc \/ (pc = "send" /\ pc' = "done")
  BY DEF Finish, Signal, vars, line, budget, Coming
<1>3. running' \in BOOLEAN
  BY <1>1 DEF Finish, Signal, vars, TypeOK
<1>4. LastAsked' = LastAsked
  BY <1>2 DEF LastAsked
<1>5. TypeOK' /\ Asking'
  BY <1>1, <1>2, <1>3 DEF TypeOK, Asking
<1>6. InOrder' /\ LoggedBefore' /\ AnswersInOrder'
  BY <1>1, <1>2, <1>4 DEF InOrder, LoggedBefore, AnswersInOrder
<1>7. Prompt'
  BY <1>1, <1>2 DEF Prompt, LabelsMatch
<1>8. Accounted'
  BY <1>1, <1>2 DEF Accounted, Missed, UnderWay, Lost
<1>. QED
  BY <1>5, <1>6, <1>7, <1>8 DEF IInv

\* A command leaves the queue to the device: what is left of it is in order.
LEMMA TailIs ==
    ASSUME IInv, toDevice # <<>>, toDevice' = Tail(toDevice)
    PROVE  /\ toDevice' \in Seq(Params) /\ Len(toDevice') = Len(toDevice) - 1
           /\ toDevice[1] \in Params /\ Head(toDevice) = toDevice[1] /\ Len(toDevice) >= 1
           /\ \A k \in 1 .. Len(toDevice') :
                 /\ k + 1 \in 1 .. Len(toDevice) /\ toDevice'[k] = toDevice[k + 1]
                 /\ toDevice[1] < toDevice'[k]
           /\ \A j, k \in 1 .. Len(toDevice') : j < k => toDevice'[j] < toDevice'[k]
<1>1. toDevice \in Seq(Params) /\ Len(toDevice) \in Nat /\ InOrder
  BY Types DEF IInv
<1>2. /\ toDevice' \in Seq(Params) /\ Len(toDevice') = Len(toDevice) - 1
      /\ Head(toDevice) \in Params /\ Head(toDevice) = toDevice[1]
      /\ \A k \in 1 .. Len(toDevice) - 1 : toDevice'[k] = toDevice[k + 1]
  BY <1>1, TailOf
<1>3. Len(toDevice) >= 1
  BY <1>1
<1>4. \A k \in 1 .. Len(toDevice') :
          k + 1 \in 1 .. Len(toDevice) /\ toDevice'[k] = toDevice[k + 1]
  BY <1>1, <1>2
<1>5. \A j, k \in 1 .. Len(toDevice) : j < k => toDevice[j] < toDevice[k]
  BY <1>1 DEF InOrder
<1>6. \A k \in 1 .. Len(toDevice') : toDevice[1] < toDevice'[k]
  <2> SUFFICES ASSUME NEW k \in 1 .. Len(toDevice') PROVE toDevice[1] < toDevice[k + 1]
    BY <1>4
  <2>1. 1 \in 1 .. Len(toDevice) /\ k + 1 \in 1 .. Len(toDevice) /\ 1 < k + 1
    BY <1>1, <1>3, <1>4
  <2>. QED
    BY <1>5, <2>1
<1>7. ASSUME NEW j \in 1 .. Len(toDevice'), NEW k \in 1 .. Len(toDevice'), j < k
      PROVE  toDevice'[j] < toDevice'[k]
  <2>1. j + 1 < k + 1
    BY <1>7
  <2>. QED
    BY <1>4, <1>5, <2>1
<1>. QED
  BY <1>2, <1>3, <1>4, <1>6, <1>7

LEMMA DeviceHandlesIInv ==
    ASSUME IInv, DeviceHandles
    PROVE  IInv'
<1> DEFINE asked == toDevice[1]  frame == Ack("getResponse", asked)
<1>1. /\ TypeOK /\ Asking /\ InOrder /\ LoggedBefore /\ AnswersInOrder /\ Prompt /\ Accounted
      /\ rx \in Seq(Frames) /\ fromDevice \in Seq(Frames)
      /\ Len(Coming) \in Nat /\ Len(toDevice) \in Nat /\ Len(fromDevice) \in Nat
  BY Types DEF IInv
<1>2. /\ toDevice # <<>> /\ toDevice' = Tail(toDevice)
      /\ Handle(<<Ack("getResponse", Head(toDevice))>>)
      /\ UNCHANGED <<pc, param, log, running, faults, telegrams, late, swallowed>>
      /\ UNCHANGED <<rx, claim>>
  BY DEF DeviceHandles, Handle, budget
<1>3. /\ toDevice' \in Seq(Params) /\ asked \in Params /\ Head(toDevice) = asked
      /\ 1 \in 1 .. Len(toDevice) /\ Len(toDevice') \in Nat
      /\ \A k \in 1 .. Len(toDevice') :
            k + 1 \in 1 .. Len(toDevice) /\ toDevice'[k] = toDevice[k + 1] /\ asked < toDevice'[k]
      /\ \A j, k \in 1 .. Len(toDevice') : j < k => toDevice'[j] < toDevice'[k]
  BY <1>1, <1>2, TailIs
<1> HIDE DEF asked
<1>4. frame \in Frames /\ IsAnswer(frame) /\ frame.about = asked
  BY <1>3 DEF Ack, Frames, IsAnswer
<1>5. fromDevice' \in Seq(Frames) /\ Added(frame)
  BY <1>1, <1>2, <1>3, <1>4, HandleAdds
<1>6. \A k \in 1 .. Len(Coming') :
          \/ k \in 1 .. Len(Coming) /\ Coming'[k] = Coming[k]
          \/ k = Len(Coming) + 1 /\ Coming'[k] = frame
  BY <1>1, <1>5 DEF Added
<1> HIDE DEF frame
<1>7. TypeOK'
  BY <1>1, <1>2, <1>3, <1>5 DEF TypeOK, Frames
<1>8. LastAsked' = LastAsked
  BY <1>2 DEF LastAsked
<1>9. InOrder'
  <2>1. /\ asked <= LastAsked
        /\ \A j \in 1 .. Len(Coming) : IsAnswer(Coming[j]) => Coming[j].about < asked
    BY <1>1, <1>3 DEF InOrder, asked
  <2>2. \A k \in 1 .. Len(Coming') :
            IsAnswer(Coming'[k]) => Coming'[k].about \in Params /\ Coming'[k].about <= LastAsked'
    BY <1>1, <1>3, <1>4, <1>6, <1>8, <2>1 DEF InOrder
  <2>3. ASSUME NEW j \in 1 .. Len(Coming'), NEW k \in 1 .. Len(Coming'), j < k,
               IsAnswer(Coming'[j]), IsAnswer(Coming'[k])
        PROVE  Coming'[j].about < Coming'[k].about
    <3>1. j \in 1 .. Len(Coming) /\ Coming'[j] = Coming[j]
      BY <1>1, <1>5, <2>3 DEF Added
    <3>2. CASE k \in 1 .. Len(Coming) /\ Coming'[k] = Coming[k]
      BY <1>1, <2>3, <3>1, <3>2 DEF InOrder
    <3>3. CASE Coming'[k] = frame
      BY <1>4, <2>1, <2>3, <3>1, <3>3
    <3>. QED
      BY <1>6, <3>2, <3>3
  <2>4. \A k \in 1 .. Len(toDevice') : toDevice'[k] <= LastAsked'
    BY <1>1, <1>3, <1>8 DEF InOrder
  <2>5. ASSUME NEW j \in 1 .. Len(Coming'), NEW k \in 1 .. Len(toDevice'), IsAnswer(Coming'[j])
        PROVE  Coming'[j].about < toDevice'[k]
    <3>1. CASE j \in 1 .. Len(Coming) /\ Coming'[j] = Coming[j]
      BY <1>1, <1>3, <2>5, <3>1 DEF InOrder
    <3>2. CASE Coming'[j] = frame
      BY <1>3, <1>4, <3>2
    <3>. QED
      BY <1>6, <3>1, <3>2
  <2>. QED
    BY <1>3, <2>2, <2>3, <2>4, <2>5 DEF InOrder
<1>10. LoggedBefore'
  <2>1. \A i \in 1 .. Len(log) : log[i].about < asked
    BY <1>1, <1>3 DEF LoggedBefore, asked
  <2>2. \A i \in 1 .. Len(log), k \in 1 .. Len(Coming') :
            IsAnswer(Coming'[k]) => log[i].about < Coming'[k].about
    BY <1>1, <1>4, <1>6, <2>1 DEF LoggedBefore
  <2>3. \A i \in 1 .. Len(log), k \in 1 .. Len(toDevice') : log[i].about < toDevice'[k]
    BY <1>1, <1>3 DEF LoggedBefore
  <2>. QED
    BY <1>1, <1>2, <2>2, <2>3 DEF LoggedBefore
<1>11. Prompt'
  <2> SUFFICES ASSUME ~late PROVE Prompt'
    BY <1>2 DEF Prompt
  <2>1. asked = param /\ pc = "wait"
    BY <1>1, <1>3 DEF Prompt, asked
  <2>2. \A k \in 1 .. Len(Coming') :
            IsAnswer(Coming'[k]) => pc = "wait" /\ Coming'[k].about = param
    BY <1>1, <1>4, <1>6, <2>1 DEF Prompt
  <2>3. \A k \in 1 .. Len(toDevice') : toDevice'[k] = param
    BY <1>1, <1>3 DEF Prompt
  <2>. QED
    BY <1>1, <1>2, <2>1, <2>2, <2>3 DEF Prompt, LabelsMatch
<1>12. UnderWay'
  <2>1. fromDevice' = fromDevice \o <<frame>>
    BY <1>2, <1>3 DEF Handle, frame
  <2>2. Len(fromDevice') = Len(fromDevice) + 1 /\ fromDevice'[Len(fromDevice) + 1] = frame
    BY <1>1, <1>4, <2>1
  <2>3. Len(fromDevice) + 1 \in 1 .. Len(fromDevice')
    BY <1>1, <2>2
  <2>. QED
    BY <1>4, <2>2, <2>3 DEF UnderWay
<1>13. Accounted'
  BY <1>1, <1>2, <1>12 DEF Accounted, Missed, Lost
<1>14. Asking' /\ AnswersInOrder'
  BY <1>1, <1>2 DEF Asking, AnswersInOrder
<1>. QED
  BY <1>7, <1>9, <1>10, <1>11, <1>13, <1>14 DEF IInv

\* A frame that is no answer comes in: nothing changes for the answers.
LEMMA AddedOther ==
    ASSUME IInv, NEW frame, Added(frame), ~IsAnswer(frame)
    PROVE  \A k \in 1 .. Len(Coming') :
               IsAnswer(Coming'[k]) => k \in 1 .. Len(Coming) /\ Coming'[k] = Coming[k]
<1>1. Len(Coming) \in Nat
  BY Types DEF IInv
<1>. QED
  BY <1>1 DEF Added

LEMMA LoseIInv ==
    ASSUME IInv, Lose
    PROVE  IInv'
<1>1. /\ TypeOK /\ Asking /\ InOrder /\ LoggedBefore /\ AnswersInOrder /\ Prompt /\ Accounted
      /\ rx \in Seq(Frames) /\ fromDevice \in Seq(Frames) /\ toDevice \in Seq(Params)
      /\ Len(Coming) \in Nat /\ Len(log) \in Nat /\ Len(toDevice) \in Nat
      /\ faults \in Nat /\ swallowed \in Nat
  BY Types DEF IInv
<1>2. PICK reply \in Remains : Handle(reply)
  BY DEF Lose
<1>3. /\ Fault /\ toDevice # <<>> /\ toDevice' = Tail(toDevice)
      /\ UNCHANGED <<pc, param, log, running, telegrams, late, swallowed>>
  BY <1>2 DEF Lose, Handle
<1>4. /\ toDevice' \in Seq(Params) /\ Len(toDevice') \in Nat
      /\ \A k \in 1 .. Len(toDevice') :
            k + 1 \in 1 .. Len(toDevice) /\ toDevice'[k] = toDevice[k + 1]
      /\ \A j, k \in 1 .. Len(toDevice') : j < k => toDevice'[j] < toDevice'[k]
  <2>1. toDevice' \in Seq(Params)
    BY <1>3, TailIs
  <2>. QED
    BY <1>3, <2>1, TailIs
<1>5. /\ fromDevice' \in Seq(Frames) /\ UNCHANGED <<rx, claim>>
      /\ \/ UNCHANGED <<fromDevice, Coming>>
         \/ \E torn \in TornFrames : Added(torn)
  <2>1. TornFrames \subseteq Frames
    BY DEF Frames
  <2>. QED
    BY <1>1, <1>2, <2>1, HandleRemains
<1>6. \A k \in 1 .. Len(Coming') :
          IsAnswer(Coming'[k]) => k \in 1 .. Len(Coming) /\ Coming'[k] = Coming[k]
  <2>1. CASE UNCHANGED Coming
    BY <2>1
  <2>2. CASE \E torn \in TornFrames : Added(torn)
    BY <2>2, TornIs, AddedOther DEF IsAnswer
  <2>. QED
    BY <1>5, <2>1, <2>2
<1>7. faults' = faults + 1 /\ faults' \in 0 .. MaxFaults
  BY <1>1, <1>3, DumpAssumption DEF Fault
<1>8. TypeOK'
  BY <1>1, <1>3, <1>4, <1>5, <1>7 DEF TypeOK, Frames
<1>9. LastAsked' = LastAsked
  BY <1>3 DEF LastAsked
<1>10. InOrder'
  <2>1. \A k \in 1 .. Len(Coming') :
            IsAnswer(Coming'[k]) => Coming'[k].about \in Params /\ Coming'[k].about <= LastAsked'
    BY <1>1, <1>6, <1>9 DEF InOrder
  <2>2. \A j, k \in 1 .. Len(Coming') :
            j < k /\ IsAnswer(Coming'[j]) /\ IsAnswer(Coming'[k])
                => Coming'[j].about < Coming'[k].about
    BY <1>1, <1>6 DEF InOrder
  <2>3. \A j \in 1 .. Len(Coming'), k \in 1 .. Len(toDevice') :
            IsAnswer(Coming'[j]) => Coming'[j].about < toDevice'[k]
    BY <1>1, <1>4, <1>6 DEF InOrder
  <2>4. \A k \in 1 .. Len(toDevice') : toDevice'[k] <= LastAsked'
    BY <1>1, <1>4, <1>9 DEF InOrder
  <2>. QED
    BY <1>4, <2>1, <2>2, <2>3, <2>4 DEF InOrder
<1>11. LoggedBefore' /\ AnswersInOrder'
  BY <1>1, <1>3, <1>4, <1>6 DEF LoggedBefore, AnswersInOrder
<1>12. Prompt'
  BY <1>1, <1>3, <1>4, <1>5, <1>6 DEF Prompt, LabelsMatch
<1>13. Accounted'
  <2>1. Missed' = Missed /\ Cardinality(Missed) <= Lost
    BY <1>1, <1>3 DEF Missed, Accounted
  <2>2. Cardinality(Missed) \in Nat /\ Lost \in Nat
    BY <1>1, MissedIs
  <2>3. Lost' = Lost + 1
    BY <1>1, <1>3, <1>7 DEF Lost
  <2>4. Cardinality(Missed) <= Lost' /\ Cardinality(Missed) + 1 <= Lost'
    BY <2>1, <2>2, <2>3
  <2>. QED
    BY <2>1, <2>4 DEF Accounted
<1>. QED
  BY <1>1, <1>3, <1>8, <1>10, <1>11, <1>12, <1>13 DEF IInv, Asking

LEMMA DeviceReportsIInv ==
    ASSUME IInv, DeviceReports
    PROVE  IInv'
<1>1. /\ TypeOK /\ Asking /\ InOrder /\ LoggedBefore /\ AnswersInOrder /\ Prompt /\ Accounted
      /\ rx \in Seq(Frames) /\ fromDevice \in Seq(Frames)
      /\ Len(Coming) \in Nat /\ Len(fromDevice) \in Nat
  BY Types DEF IInv
<1>2. PICK frame \in {Telegram} \cup TornFrames : Report(frame)
  BY DEF DeviceReports
<1>3. /\ fromDevice' = Append(fromDevice, frame)
      /\ telegrams < MaxTelegrams /\ telegrams' = telegrams + 1
      /\ UNCHANGED <<pc, param, log, running, faults, late, swallowed>>
  BY <1>2 DEF DeviceReports, Report
<1>4. frame \in Frames /\ ~IsAnswer(frame)
  <2>1. CASE frame = Telegram
    BY <2>1 DEF Telegram, Frames, IsAnswer
  <2>2. CASE frame \in TornFrames
    BY <2>2, TornIs DEF Frames, IsAnswer
  <2>. QED
    BY <2>1, <2>2
<1>5. fromDevice' \in Seq(Frames) /\ UNCHANGED <<toDevice, rx, claim>> /\ Added(frame)
  BY <1>1, <1>2, <1>4, ReportAdds
<1>6. TypeOK'
  <2>1. telegrams' \in 0 .. MaxTelegrams
    BY <1>1, <1>3, DumpAssumption DEF TypeOK
  <2>. QED
    BY <1>1, <1>3, <1>5, <2>1 DEF TypeOK, Frames
<1>7. \A k \in 1 .. Len(Coming') :
          IsAnswer(Coming'[k]) => k \in 1 .. Len(Coming) /\ Coming'[k] = Coming[k]
  BY <1>4, <1>5, AddedOther
<1>8. LastAsked' = LastAsked
  BY <1>3 DEF LastAsked
<1>9. InOrder'
  <2>1. \A k \in 1 .. Len(Coming') :
            IsAnswer(Coming'[k]) => Coming'[k].about \in Params /\ Coming'[k].about <= LastAsked'
    BY <1>1, <1>7, <1>8 DEF InOrder
  <2>2. \A j, k \in 1 .. Len(Coming') :
            j < k /\ IsAnswer(Coming'[j]) /\ IsAnswer(Coming'[k])
                => Coming'[j].about < Coming'[k].about
    BY <1>1, <1>7 DEF InOrder
  <2>3. \A j \in 1 .. Len(Coming'), k \in 1 .. Len(toDevice') :
            IsAnswer(Coming'[j]) => Coming'[j].about < toDevice'[k]
    BY <1>1, <1>5, <1>7 DEF InOrder
  <2>4. /\ \A k \in 1 .. Len(toDevice') : toDevice'[k] <= LastAsked'
        /\ \A j, k \in 1 .. Len(toDevice') : j < k => toDevice'[j] < toDevice'[k]
    BY <1>1, <1>5, <1>8 DEF InOrder
  <2>. QED
    BY <2>1, <2>2, <2>3, <2>4 DEF InOrder
<1>10. LoggedBefore' /\ AnswersInOrder'
  BY <1>1, <1>3, <1>5, <1>7 DEF LoggedBefore, AnswersInOrder
<1>11. Prompt'
  BY <1>1, <1>3, <1>5, <1>7 DEF Prompt, LabelsMatch
<1>12. Accounted'
  <2>1. \A k \in 1 .. Len(fromDevice) :
           k \in 1 .. Len(fromDevice') /\ fromDevice'[k] = fromDevice[k]
    BY <1>1, <1>3, <1>4, AppendOf
  <2>2. UnderWay => UnderWay'
    BY <1>5, <2>1 DEF UnderWay
  <2>. QED
    BY <1>1, <1>3, <2>2 DEF Accounted, Missed, Lost
<1>. QED
  BY <1>1, <1>3, <1>6, <1>9, <1>10, <1>11, <1>12 DEF IInv, Asking

LEMMA NextIInv == IInv /\ [Next]_vars => IInv'
<1> SUFFICES ASSUME IInv, [Next]_vars PROVE IInv'
  OBVIOUS
<1>. QED
  BY SendIInv, WaitOnIInv, AnsweredIInv, TimeoutIInv, QuietStepIInv,
     DeviceHandlesIInv, LoseIInv, DeviceReportsIInv DEF Next, Gateway

LEMMA Invariance == Spec => []IInv
BY InitIInv, NextIInv, PTL DEF Spec

-----------------------------------------------------------------------------
(***************************************************************************)
(* What the dump promises, whatever its size and whatever goes wrong.      *)
(***************************************************************************)
\* The state of the dump, its two queues and the lines it has logged keep
\* their types, for every number of parameters, faults and telegrams.
THEOREM TypeCorrect == Spec => []TypeOK
<1>1. IInv => TypeOK
  BY DEF IInv
<1>. QED
  BY <1>1, Invariance, PTL

\* The values that dump_parameters logs are those of the parameters in the
\* order it asked for them, each at most once and none before it was asked for.
THEOREM DumpAnswersInOrder == Spec => []AnswersInOrder
<1>1. IInv => AnswersInOrder
  BY DEF IInv
<1>. QED
  BY <1>1, Invariance, PTL

\* As long as no answer comes after its 500 ms, dump_parameters logs each
\* answer under the number of the parameter it is about.
THEOREM DumpLabelsMatchIfPrompt == Spec => []LabelsMatchIfPrompt
<1>1. IInv => LabelsMatchIfPrompt
  BY DEF IInv, Prompt, LabelsMatchIfPrompt
<1>. QED
  BY <1>1, Invariance, PTL

\* Every "no response" that dump_parameters logs is due to a command or answer
\* of its own: lost on the line, late, or swallowed by a false header in front
\* of it, of which one can swallow many.  A telegram in between is due none.
THEOREM DumpMissingOnlyIfLost == Spec => []MissingOnlyIfLost
<1>1. IInv => MissingOnlyIfLost
  BY DEF IInv, Accounted, Missed, Lost, MissingOnlyIfLost
<1>. QED
  BY <1>1, Invariance, PTL
=============================================================================
