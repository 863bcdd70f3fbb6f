------------------------ MODULE MetisExchangeProofs ------------------------
(***************************************************************************)
(* What the operations of MetisExchange do to a queue, for the proofs      *)
(* about the modules that extend it.  The receive buffer and what the      *)
(* driver holds are one queue, `Coming': a read() and the extraction that  *)
(* follows take frames off its front, the device adds to its end, and      *)
(* nothing else happens to it.  Which frames a false header swallows is    *)
(* not told apart here: they go with the others in front of them.          *)
(***************************************************************************)
EXTENDS MetisExchange, FiniteSetTheorems, TLAPS

\* A part of a queue is a queue of the same kind.
LEMMA PartOf ==
    ASSUME NEW S, NEW queue \in Seq(S), NEW n \in 0 .. Len(queue)
    PROVE  /\ SubSeq(queue, 1, n) \in Seq(S) /\ Len(SubSeq(queue, 1, n)) = n
           /\ \A k \in 1 .. n : SubSeq(queue, 1, n)[k] = queue[k]
           /\ SubSeq(queue, n + 1, Len(queue)) \in Seq(S)
           /\ Len(SubSeq(queue, n + 1, Len(queue))) = Len(queue) - n
           /\ \A k \in 1 .. Len(queue) - n :
                  SubSeq(queue, n + 1, Len(queue))[k] = queue[k + n]
OBVIOUS

LEMMA TailOf ==
    ASSUME NEW S, NEW queue \in Seq(S), queue # <<>>
    PROVE  /\ Head(queue) \in S /\ Head(queue) = queue[1]
           /\ Tail(queue) \in Seq(S) /\ Len(Tail(queue)) = Len(queue) - 1
           /\ \A k \in 1 .. Len(queue) - 1 : Tail(queue)[k] = queue[k + 1]
OBVIOUS

LEMMA ConcatOf ==
    ASSUME NEW S, NEW left \in Seq(S), NEW right \in Seq(S)
    PROVE  /\ left \o right \in Seq(S) /\ Len(left \o right) = Len(left) + Len(right)
           /\ \A k \in 1 .. Len(left) : (left \o right)[k] = left[k]
           /\ \A k \in 1 .. Len(right) : (left \o right)[Len(left) + k] = right[k]
OBVIOUS

LEMMA AppendOf ==
    ASSUME NEW S, NEW queue \in Seq(S), NEW element \in S
    PROVE  /\ Append(queue, element) \in Seq(S)
           /\ Len(Append(queue, element)) = Len(queue) + 1
           /\ \A k \in 1 .. Len(queue) : Append(queue, element)[k] = queue[k]
           /\ Append(queue, element)[Len(queue) + 1] = element
OBVIOUS

-----------------------------------------------------------------------------
Coming == rx \o fromDevice

LEMMA ComingIs ==
    ASSUME NEW S, rx \in Seq(S), fromDevice \in Seq(S)
    PROVE  /\ Coming \in Seq(S) /\ Len(Coming) = Len(rx) + Len(fromDevice)
           /\ \A k \in 1 .. Len(rx) : Coming[k] = rx[k]
           /\ \A k \in 1 .. Len(fromDevice) : Coming[Len(rx) + k] = fromDevice[k]
BY DEF Coming

LEMMA ReceivedIs ==
    ASSUME NEW S, rx \in Seq(S), fromDevice \in Seq(S), NEW n \in 1 .. Len(fromDevice)
    PROVE  /\ Received(n) \in Seq(S) /\ Len(Received(n)) = Len(rx) + n
           /\ Len(Received(n)) \in 1 .. Len(Coming)
           /\ \A k \in 1 .. Len(Received(n)) : Received(n)[k] = Coming[k]
<1> DEFINE read == SubSeq(fromDevice, 1, n)
<1>1. read \in Seq(S) /\ Len(read) = n /\ \A k \in 1 .. n : read[k] = fromDevice[k]
  BY PartOf
<1> HIDE DEF read
<1>2. /\ rx \o read \in Seq(S) /\ Len(rx \o read) = Len(rx) + n
      /\ \A k \in 1 .. Len(rx) : (rx \o read)[k] = rx[k]
      /\ \A k \in 1 .. n : (rx \o read)[Len(rx) + k] = read[k]
  <2>1. rx \in Seq(S) /\ read \in Seq(S) /\ Len(read) = n
    BY <1>1
  <2>2. rx \o read \in Seq(S)
    BY ONLY <2>1
  <2>3. Len(rx \o read) = Len(rx) + Len(read)
    BY ONLY <2>1
  <2>4. \A k \in 1 .. Len(rx) : (rx \o read)[k] = rx[k]
    BY ONLY <2>1
  <2>5. \A k \in 1 .. Len(read) : (rx \o read)[Len(rx) + k] = read[k]
    BY ONLY <2>1
  <2>. QED
    BY <2>1, <2>2, <2>3, <2>4, <2>5
<1>3. Len(rx) \in Nat /\ Len(fromDevice) \in Nat /\ n \in Nat
  OBVIOUS
<1>4. ASSUME NEW k \in 1 .. Len(rx) + n
      PROVE  (rx \o read)[k] = Coming[k]
  <2>1. CASE k <= Len(rx)
    BY <1>2, <1>3, <2>1, ComingIs
  <2>2. CASE k > Len(rx)
    <3>1. k - Len(rx) \in 1 .. n /\ k = Len(rx) + (k - Len(rx))
      BY <1>3, <2>2
    <3>2. k - Len(rx) \in 1 .. Len(fromDevice)
      BY <1>3, <3>1
    <3>3. (rx \o read)[Len(rx) + (k - Len(rx))] = fromDevice[k - Len(rx)]
      BY <1>1, <1>2, <3>1
    <3>4. Coming[Len(rx) + (k - Len(rx))] = fromDevice[k - Len(rx)]
      BY <3>2, ComingIs
    <3>. QED
      BY <3>1, <3>3, <3>4
  <2>. QED
    <3>1. k \in Int /\ Len(rx) \in Int
      BY <1>3
    <3>2. k <= Len(rx) \/ k > Len(rx)
      BY <3>1
    <3>. QED
      BY <2>1, <2>2, <3>2
<1>. QED
  BY <1>2, <1>3, <1>4, ComingIs DEF Received, read

\* The first k frames are gone.
Shifted(k) ==
    /\ Len(Coming') = Len(Coming) - k
    /\ \A i \in 1 .. Len(Coming') : i + k \in 1 .. Len(Coming) /\ Coming'[i] = Coming[i + k]

LEMMA RestIsShifted ==
    ASSUME NEW S, rx \in Seq(S), fromDevice \in Seq(S), NEW n \in 1 .. Len(fromDevice),
           NEW k \in 0 .. Len(Received(n)), TakeOff(n),
           rx' = SubSeq(Received(n), k + 1, Len(Received(n)))
    PROVE  rx' \in Seq(S) /\ fromDevice' \in Seq(S) /\ Shifted(k)
<1>1. /\ Received(n) \in Seq(S) /\ Len(Received(n)) = Len(rx) + n
      /\ \A i \in 1 .. Len(Received(n)) : Received(n)[i] = Coming[i]
      /\ Len(rx) \in Nat /\ Len(fromDevice) \in Nat
  BY ReceivedIs
<1>2. /\ rx' \in Seq(S) /\ Len(rx') = Len(rx) + n - k
      /\ \A i \in 1 .. Len(rx) + n - k : rx'[i] = Received(n)[i + k]
  <2> DEFINE all == Received(n)  last == Len(all)
  <2>1. all \in Seq(S) /\ last = Len(rx) + n /\ k \in 0 .. last
    BY <1>1
  <2>2. rx' = SubSeq(all, k + 1, last)
    OBVIOUS
  <2> HIDE DEF all
  <2>3. /\ rx' \in Seq(S) /\ Len(rx') = last - k
        /\ \A i \in 1 .. last - k : rx'[i] = all[i + k]
    <3>1. /\ SubSeq(all, k + 1, Len(all)) \in Seq(S)
          /\ Len(SubSeq(all, k + 1, Len(all))) = Len(all) - k
          /\ \A i \in 1 .. Len(all) - k : SubSeq(all, k + 1, Len(all))[i] = all[i + k]
      BY <2>1, PartOf
    <3>. QED
      BY <2>2, <3>1
  <2>. QED
    BY <2>1, <2>3 DEF all
<1>3. /\ fromDevice' \in Seq(S) /\ Len(fromDevice') = Len(fromDevice) - n
      /\ \A i \in 1 .. Len(fromDevice) - n : fromDevice'[i] = fromDevice[i + n]
  BY PartOf DEF TakeOff
<1>4. /\ Len(Coming') = Len(rx') + Len(fromDevice')
      /\ \A i \in 1 .. Len(rx') : Coming'[i] = rx'[i]
      /\ \A i \in 1 .. Len(fromDevice') : Coming'[Len(rx') + i] = fromDevice'[i]
  <2> DEFINE ahead == rx'  behind == fromDevice'
  <2>1. ahead \in Seq(S) /\ behind \in Seq(S)
    BY <1>2, <1>3
  <2>2. Coming' = ahead \o behind
    BY DEF Coming
  <2> HIDE DEF ahead, behind
  <2>3. /\ Len(ahead \o behind) = Len(ahead) + Len(behind)
        /\ \A i \in 1 .. Len(ahead) : (ahead \o behind)[i] = ahead[i]
        /\ \A i \in 1 .. Len(behind) : (ahead \o behind)[Len(ahead) + i] = behind[i]
    BY <2>1, ConcatOf
  <2>. QED
    BY <2>2, <2>3 DEF ahead, behind
<1>5. Len(Coming) = Len(rx) + Len(fromDevice)
  BY ComingIs
<1>6. ASSUME NEW i \in 1 .. Len(Coming')
      PROVE  i + k \in 1 .. Len(Coming) /\ Coming'[i] = Coming[i + k]
  <2>1. i + k \in 1 .. Len(Coming)
    BY <1>1, <1>2, <1>3, <1>4, <1>5
  <2>2. CASE i <= Len(rx')
    <3>1. i \in 1 .. Len(rx') /\ i + k \in 1 .. Len(Received(n))
      BY <1>1, <1>2, <2>2
    <3>. QED
      BY <1>1, <1>2, <1>4, <2>1, <3>1
  <2>3. CASE i > Len(rx')
    <3>1. /\ i - Len(rx') \in 1 .. Len(fromDevice') /\ i = Len(rx') + (i - Len(rx'))
          /\ i - Len(rx') + n \in 1 .. Len(fromDevice)
          /\ i + k = Len(rx) + (i - Len(rx') + n)
      <4>1. /\ Len(rx') = Len(rx) + n - k /\ Len(fromDevice') = Len(fromDevice) - n
            /\ i \in Int /\ n \in Int /\ k \in Int /\ i <= Len(rx') + Len(fromDevice')
        BY <1>1, <1>2, <1>3, <1>4
      <4>. QED
        <5> DEFINE ahead == Len(rx')  behind == Len(fromDevice')
        <5>1. /\ ahead \in Int /\ behind \in Int /\ i > ahead /\ i <= ahead + behind
              /\ Len(rx) \in Int /\ Len(fromDevice) \in Int
              /\ ahead = Len(rx) + n - k /\ behind = Len(fromDevice) - n /\ n >= 0
          BY <1>1, <2>3, <4>1
        <5> HIDE DEF ahead, behind
        <5>2. /\ i - ahead \in 1 .. behind /\ i = ahead + (i - ahead)
              /\ i - ahead + n \in 1 .. Len(fromDevice)
              /\ i + k = Len(rx) + (i - ahead + n)
          <6>1. i \in Int /\ n \in Int /\ k \in Int
            BY <4>1
          <6>. QED
            BY <5>1, <6>1
        <5>. QED
          BY <5>2 DEF ahead, behind
    <3>2. Coming'[i] = fromDevice'[i - Len(rx')]
      BY <1>4, <3>1
    <3>3. fromDevice'[i - Len(rx')] = fromDevice[i - Len(rx') + n]
      BY <1>3, <3>1
    <3>4. Coming[i + k] = fromDevice[i - Len(rx') + n]
      BY <3>1, ComingIs
    <3>. QED
      BY <2>1, <3>2, <3>3, <3>4
  <2>. QED
    BY <1>2, <2>2, <2>3
<1>7. Len(Coming') = Len(Coming) - k
  <2>1. n \in Int /\ k \in Int /\ Len(rx) \in Int /\ Len(fromDevice) \in Int
    BY <1>1
  <2>2. Len(rx') = Len(rx) + n - k
    BY <1>2
  <2>3. Len(fromDevice') = Len(fromDevice) - n
    BY <1>3
  <2>4. Len(Coming') = Len(rx') + Len(fromDevice')
    BY <1>4
  <2>. QED
    BY ONLY <1>5, <2>1, <2>2, <2>3, <2>4
<1>. QED
  BY <1>2, <1>3, <1>6, <1>7 DEF Shifted

-----------------------------------------------------------------------------
(***************************************************************************)
(* The operations.                                                         *)
(***************************************************************************)
\* What false headers claim of the frames to come stays within its bound.
LEMMA OutstandingIs ==
    ASSUME NEW received, Len(received) \in Nat
    PROVE  Outstanding(received) \in 0 .. MaxClaim
<1> DEFINE last == Len(received)  reach == last + 1 .. last + MaxClaim
           claimed == {k \in reach : Swallowed(received, k)}
<1>1. IsFiniteSet(reach) /\ Cardinality(reach) = MaxClaim
  <2>1. last + 1 \in Int /\ last + MaxClaim \in Int /\ MaxClaim \in Nat /\ last \in Nat
    BY ExchangeAssumption
  <2>2. /\ IsFiniteSet(reach)
        /\ Cardinality(reach) = IF last + 1 > last + MaxClaim THEN 0
                               ELSE (last + MaxClaim) - (last + 1) + 1
    BY <2>1, FS_Interval
  <2> HIDE DEF last, reach
  <2>. QED
    BY <2>1, <2>2
<1>2. claimed \subseteq reach
  OBVIOUS
<1> HIDE DEF claimed
<1>3. IsFiniteSet(claimed) /\ Cardinality(claimed) <= Cardinality(reach)
  BY <1>1, <1>2, FS_Subset
<1>4. Cardinality(claimed) \in Nat
  BY <1>3, FS_CardinalityType
<1>5. Cardinality(claimed) \in 0 .. MaxClaim
  BY <1>1, <1>3, <1>4, ExchangeAssumption
<1>. QED
  BY <1>5 DEF Outstanding, claimed

LEMMA AnswersAre ==
    ASSUME NEW received, NEW code, Len(received) \in Nat
    PROVE  /\ Cardinality(Answers(code, received)) \in Nat
           /\ (\E k \in 1 .. Len(received) : received[k].code = code)
                 => Cardinality(Answers(code, received)) >= 1
<1>1. IsFiniteSet(1 .. Len(received)) /\ Answers(code, received) \subseteq 1 .. Len(received)
  BY FS_Interval DEF Answers
<1>2. IsFiniteSet(Answers(code, received))
  BY <1>1, FS_Subset
<1>3. Cardinality(Answers(code, received)) \in Nat
  BY <1>2, FS_CardinalityType
<1>4. (\E k \in 1 .. Len(received) : received[k].code = code) => Answers(code, received) # {}
  BY DEF Answers
<1>5. Answers(code, received) # {} => Cardinality(Answers(code, received)) # 0
  BY <1>2, FS_EmptySet
<1>. QED
  BY <1>3, <1>4, <1>5

LEMMA UseUpShifts ==
    ASSUME NEW S, rx \in Seq(S), fromDevice \in Seq(S), NEW n \in 1 .. Len(fromDevice),
           TakeOff(n), UseUp(Received(n))
    PROVE  /\ rx' = <<>> /\ claim' \in 0 .. MaxClaim /\ fromDevice' \in Seq(S)
           /\ Len(Received(n)) \in 1 .. Len(Coming)
           /\ \A i \in 1 .. Len(Received(n)) : Received(n)[i] = Coming[i]
           /\ Shifted(Len(Received(n)))
<1>1. /\ Received(n) \in Seq(S) /\ Len(Received(n)) \in 1 .. Len(Coming)
      /\ \A i \in 1 .. Len(Received(n)) : Received(n)[i] = Coming[i]
  BY ReceivedIs
<1>2. rx' = <<>> /\ claim' = Outstanding(Received(n))
  BY DEF UseUp
<1>3. Len(Received(n)) \in 0 .. Len(Received(n)) /\ Len(Received(n)) \in Nat
  BY <1>1
<1>4. SubSeq(Received(n), Len(Received(n)) + 1, Len(Received(n))) = <<>>
  BY <1>1
<1>5. Shifted(Len(Received(n))) /\ fromDevice' \in Seq(S)
  BY <1>2, <1>3, <1>4, RestIsShifted
<1>6. claim' \in 0 .. MaxClaim
  BY <1>2, <1>3, OutstandingIs
<1>. QED
  BY <1>1, <1>2, <1>5, <1>6

\* What a read() in a wait takes off is counted if it is an answer.
LEMMA ReadOthersShifts ==
    ASSUME NEW S, rx \in Seq(S), fromDevice \in Seq(S), NEW code,
           NEW n \in 1 .. Len(fromDevice), ReadOthers(code, n)
    PROVE  /\ rx' = <<>> /\ claim' \in 0 .. MaxClaim /\ fromDevice' \in Seq(S)
           /\ UNCHANGED toDevice
           /\ Cardinality(Answers(code, Received(n))) \in Nat
           /\ \E k \in 1 .. Len(Coming) :
                 /\ Shifted(k)
                 /\ (\E i \in 1 .. k : Coming[i].code = code)
                       => Cardinality(Answers(code, Received(n))) >= 1
<1>1. TakeOff(n) /\ UseUp(Received(n)) /\ UNCHANGED toDevice
  BY DEF ReadOthers
<1>2. /\ rx' = <<>> /\ claim' \in 0 .. MaxClaim /\ fromDevice' \in Seq(S)
      /\ Len(Received(n)) \in 1 .. Len(Coming)
      /\ \A i \in 1 .. Len(Received(n)) : Received(n)[i] = Coming[i]
      /\ Shifted(Len(Received(n)))
  BY <1>1, UseUpShifts
<1>3. Len(Received(n)) \in Nat
  BY <1>2
<1>4. /\ Cardinality(Answers(code, Received(n))) \in Nat
      /\ (\E k \in 1 .. Len(Received(n)) : Received(n)[k].code = code)
            => Cardinality(Answers(code, Received(n))) >= 1
  BY <1>3, AnswersAre
<1>. QED
  BY <1>1, <1>2, <1>4

LEMMA DrainShifts ==
    ASSUME NEW S, rx \in Seq(S), fromDevice \in Seq(S), Drain
    PROVE  /\ rx' = <<>> /\ claim' \in 0 .. MaxClaim /\ fromDevice' \in Seq(S)
           /\ UNCHANGED toDevice
           /\ \E k \in 1 .. Len(Coming) : Shifted(k)
<1>1. PICK n \in 1 .. Len(fromDevice) : TakeOff(n) /\ UseUp(Received(n))
  BY DEF Drain
<1>2. UNCHANGED toDevice
  BY DEF Drain
<1>. QED
  BY <1>1, <1>2, UseUpShifts

LEMMA ReadAnswerShifts ==
    ASSUME NEW S, rx \in Seq(S), fromDevice \in Seq(S), NEW code,
           NEW n \in 1 .. Len(fromDevice), NEW k \in 1 .. Len(Received(n)),
           ReadAnswer(code, n, k)
    PROVE  /\ rx' \in Seq(S) /\ fromDevice' \in Seq(S) /\ claim' = 0 /\ UNCHANGED toDevice
           /\ k \in 1 .. Len(Coming) /\ Shifted(k)
           /\ Received(n)[k] = Coming[k] /\ Coming[k].code = code
           /\ \A i \in 1 .. Len(rx') : \E j \in k + 1 .. Len(Coming) : rx'[i] = Coming[j]
<1>1. /\ TakeOff(n) /\ Received(n)[k].code = code /\ claim' = 0 /\ UNCHANGED toDevice
      /\ rx' = SubSeq(Received(n), k + 1, Len(Received(n)))
  BY DEF ReadAnswer, IsFirst
<1>2. /\ Received(n) \in Seq(S) /\ Len(Received(n)) \in 1 .. Len(Coming)
      /\ \A i \in 1 .. Len(Received(n)) : Received(n)[i] = Coming[i]
      /\ k \in 0 .. Len(Received(n)) /\ k \in 1 .. Len(Coming)
  <2> DEFINE last == Len(Received(n))
  <2>1. /\ Received(n) \in Seq(S) /\ last \in 1 .. Len(Coming) /\ k \in 1 .. last
        /\ \A i \in 1 .. last : Received(n)[i] = Coming[i]
    BY ReceivedIs
  <2> HIDE DEF last
  <2>2. k \in 0 .. last /\ k \in 1 .. Len(Coming)
    BY <2>1
  <2>. QED
    BY <2>1, <2>2 DEF last
<1>3. rx' \in Seq(S) /\ fromDevice' \in Seq(S) /\ Shifted(k)
  BY <1>1, <1>2, RestIsShifted
<1>4. ASSUME NEW i \in 1 .. Len(rx')
      PROVE  \E j \in k + 1 .. Len(Coming) : rx'[i] = Coming[j]
  <2>1. Len(rx') = Len(Received(n)) - k /\ rx'[i] = Received(n)[i + k]
    BY <1>1, <1>2, PartOf
  <2>2. i + k \in 1 .. Len(Received(n)) /\ i + k \in k + 1 .. Len(Coming)
    BY <1>2, <2>1
  <2>. QED
    BY <1>2, <2>1, <2>2
<1>. QED
  BY <1>1, <1>2, <1>3, <1>4

\* A frame comes in at the end.
Added(frame) ==
    /\ Len(Coming') = Len(Coming) + 1
    /\ \A i \in 1 .. Len(Coming) : Coming'[i] = Coming[i]
    /\ Coming'[Len(Coming) + 1] = frame

LEMMA AppendAdds ==
    ASSUME NEW S, rx \in Seq(S), fromDevice \in Seq(S), NEW frame \in S,
           UNCHANGED rx, fromDevice' = Append(fromDevice, frame)
    PROVE  fromDevice' \in Seq(S) /\ Added(frame)
<1>1. Coming' = rx \o Append(fromDevice, frame)
  BY DEF Coming
<1>2. rx \o Append(fromDevice, frame) = Append(rx \o fromDevice, frame)
  OBVIOUS
<1>3. Coming' = Append(Coming, frame) /\ Coming \in Seq(S)
  BY <1>1, <1>2 DEF Coming
<1>. QED
  BY <1>3, AppendOf DEF Added

LEMMA HandleAdds ==
    ASSUME NEW S, rx \in Seq(S), fromDevice \in Seq(S), NEW frame \in S, Handle(<<frame>>)
    PROVE  fromDevice' \in Seq(S) /\ UNCHANGED <<rx, claim>> /\ Added(frame)
<1>1. UNCHANGED <<rx, claim>> /\ fromDevice' = fromDevice \o <<frame>>
  BY DEF Handle
<1>2. fromDevice \o <<frame>> = Append(fromDevice, frame)
  OBVIOUS
<1>. QED
  BY <1>1, <1>2, AppendAdds

\* What arrives of a lost answer is no answer.
LEMMA HandleRemains ==
    ASSUME NEW S, rx \in Seq(S), fromDevice \in Seq(S), TornFrames \subseteq S,
           NEW reply \in Remains, Handle(reply)
    PROVE  /\ fromDevice' \in Seq(S) /\ UNCHANGED <<rx, claim>>
           /\ \/ UNCHANGED <<fromDevice, Coming>>
              \/ \E torn \in TornFrames : Added(torn)
<1>1. fromDevice' = fromDevice \o reply /\ UNCHANGED <<rx, claim>>
  BY DEF Handle
<1>2. CASE reply = <<>>
  <2>1. fromDevice \o <<>> = fromDevice
    OBVIOUS
  <2>. QED
    BY <1>1, <1>2, <2>1 DEF Coming
<1>3. CASE \E torn \in TornFrames : reply = <<torn>>
  <2>1. PICK torn \in TornFrames : reply = <<torn>>
    BY <1>3
  <2>2. torn \in S /\ Handle(<<torn>>)
    BY <2>1
  <2>. QED
    BY <1>1, <2>2, HandleAdds
<1>. QED
  BY <1>2, <1>3 DEF Remains

LEMMA TornIs ==
    ASSUME NEW torn \in TornFrames
    PROVE  torn.code = "torn"
BY DEF TornFrames, Torn

LEMMA ReportAdds ==
    ASSUME NEW S, rx \in Seq(S), fromDevice \in Seq(S), NEW frame \in S, Report(frame)
    PROVE  fromDevice' \in Seq(S) /\ UNCHANGED <<toDevice, rx, claim>> /\ Added(frame)
BY AppendAdds DEF Report
=============================================================================
