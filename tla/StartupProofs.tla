---------------------------- MODULE StartupProofs ----------------------------
(***************************************************************************)
(* Proofs about Startup and CommandLine: for every list of arguments and   *)
(* any number of failed calls.                                             *)
(***************************************************************************)
EXTENDS Startup, SequenceTheorems, WellFoundedInduction, TLAPS

-----------------------------------------------------------------------------
(***************************************************************************)
(* Where the parser and the descriptors are.                               *)
(***************************************************************************)
\* The parser stands at an argument or behind the last one.
ParserPlace ==
    /\ args \in ArgLists /\ at \in 1 .. Len(args) + 1
    /\ threw \in BOOLEAN
    /\ DOMAIN opts = DOMAIN Defaults
    /\ threw => stage # "parse"

\* main() has no descriptor before it opens one; who uses the port has one.
PortPlace ==
    /\ stage \in {"parse", "activate", "setMode", "dump", "listen", "exited", "aborted"}
    /\ call \in {"none", "open", "tcgetattr", "to_speed", "tcsetattr", "opened"}
    /\ call = "none" <=> stage \in {"parse", "exited", "aborted"}
    /\ fds \in 0 .. MaxDescriptors /\ failures \in 0 .. MaxFailures /\ running \in BOOLEAN
    /\ stage = "parse" => fds = 0
    /\ Using => fds >= 1

PlaceInv == ParserPlace /\ PortPlace /\ NoDescriptorLost

LEMMA ArgsTyped ==
    ASSUME args \in ArgLists
    PROVE  args \in Seq(Seq(STRING)) /\ Len(args) \in Nat
<1>1. args \in Seq(Seq(STRING))
  BY CommandLineAssumption, Zenon
<1>. QED
  BY <1>1

LEMMA PlaceTyped ==
    ASSUME ParserPlace
    PROVE  /\ args \in Seq(Seq(STRING)) /\ Len(args) \in Nat
           /\ at \in Nat /\ at >= 1 /\ at <= Len(args) + 1
BY ArgsTyped DEF ParserPlace

LEMMA InitPlace == Init => PlaceInv
<1> SUFFICES ASSUME Init PROVE PlaceInv
  OBVIOUS
<1>1. ParserPlace
  <2>1. args \in ArgLists /\ at = 1 /\ DOMAIN opts = DOMAIN Defaults
    BY DEF Init, ParseInit
  <2>2. threw \in BOOLEAN /\ ~threw
    BY Zenon DEF Init, ParseInit
  <2>3. at \in 1 .. Len(args) + 1
    BY <2>1, ArgsTyped
  <2>. QED
    BY <2>1, <2>2, <2>3 DEF ParserPlace
<1>. QED
  BY <1>1, StartupAssumption
  DEF Init, PlaceInv, PortPlace, NoDescriptorLost, Using

\* What the two parsing steps do to the place.
LEMMA ParseMoves ==
    ASSUME ParserPlace, ParseValued \/ ParseOther
    PROVE  /\ at' \in 1 .. Len(args') + 1 /\ args' = args /\ threw' \in BOOLEAN
           /\ DOMAIN opts' = DOMAIN Defaults
<1>1. Len(args) \in Nat /\ args \in ArgLists
  BY ArgsTyped DEF ParserPlace
<1>2. CASE ParseOther
  <2>1. at' = at + 1 /\ at <= Len(args) /\ args' = args /\ threw' = threw
    BY <1>2 DEF ParseOther
  <2>2. DOMAIN opts' = DOMAIN opts
    BY <1>2 DEF ParseOther, Flagged
  <2>. QED
    BY <1>1, <2>1, <2>2 DEF ParserPlace
<1>3. CASE ParseValued
  <2>1. at' = at + 2 /\ at < Len(args) /\ args' = args /\ threw' \in BOOLEAN
    BY <1>3 DEF ParseValued, TakesValue, ParserPlace
  <2>2. DOMAIN opts' = DOMAIN opts
    <3>1. opts' = opts \/ opts' \in Assigned(opts, Name(args[at]), args[at + 1])
      BY <1>3 DEF ParseValued
    <3>2. \A o \in Assigned(opts, Name(args[at]), args[at + 1]) : DOMAIN o = DOMAIN opts
      BY DEF Assigned, ApplyMqttHostArg
    <3>. QED
      BY <3>1, <3>2
  <2>. QED
    BY <1>1, <2>1, <2>2 DEF ParserPlace
<1>. QED
  BY <1>2, <1>3

LEMMA ParsePlace ==
    ASSUME PlaceInv, Parse
    PROVE  PlaceInv'
<1>1. ParserPlace'
  BY ParseMoves DEF PlaceInv, ParserPlace, Parse
<1>2. PortPlace' /\ NoDescriptorLost'
  BY DEF PlaceInv, PortPlace, NoDescriptorLost, Using, Parse
<1>. QED
  BY <1>1, <1>2 DEF PlaceInv

\* The steps after parsing leave what was parsed alone.
LEMMA CliKept ==
    ASSUME ParserPlace, UNCHANGED cli, stage' = "parse" => stage = "parse"
    PROVE  ParserPlace'
BY DEF ParserPlace, cli

LEMMA DispatchPlace ==
    ASSUME PlaceInv, Help \/ Dispatch
    PROVE  PlaceInv'
<1>1. UNCHANGED <<cli, fds, failures, running>> /\ stage = "parse" /\ fds = 0
  BY DEF Help, Dispatch, PlaceInv, PortPlace
<1>2. \/ stage' = "exited" /\ call' = "none"
      \/ stage' \in {"activate", "setMode", "dump", "listen"} /\ call' = "open"
  BY DEF Help, Dispatch, Enter, After
<1>3. ParserPlace'
  BY <1>1, <1>2, CliKept DEF PlaceInv
<1>4. PortPlace' /\ NoDescriptorLost'
  BY <1>1, <1>2 DEF PlaceInv, PortPlace, NoDescriptorLost, Using, cli
<1>. QED
  BY <1>3, <1>4 DEF PlaceInv

LEMMA OpenPlace ==
    ASSUME PlaceInv, SerialOpen
    PROVE  PlaceInv'
<1> USE StartupAssumption DEF PlaceInv, PortPlace, NoDescriptorLost, Using, Throw, Fails
<1>1. UNCHANGED cli /\ (stage' = "parse" => stage = "parse")
  BY DEF SerialOpen, Open, OpenFails, AttrFails, GetAttr, Unsupported, ToSpeed, SetAttr
<1>2. ParserPlace' /\ opts' = opts
  BY <1>1, CliKept DEF cli
<1>3. CASE Open
  BY <1>2, <1>3 DEF Open
<1>4. CASE OpenFails
  BY <1>2, <1>4 DEF OpenFails
<1>5. CASE AttrFails
  BY <1>2, <1>5 DEF AttrFails
<1>6. CASE GetAttr
  BY <1>2, <1>6 DEF GetAttr
<1>7. CASE Unsupported
  BY <1>2, <1>7 DEF Unsupported
<1>8. CASE ToSpeed
  BY <1>2, <1>8 DEF ToSpeed
<1>9. CASE SetAttr
  BY <1>2, <1>9 DEF SetAttr
<1>. QED
  BY <1>3, <1>4, <1>5, <1>6, <1>7, <1>8, <1>9 DEF SerialOpen

LEMMA UsePlace ==
    ASSUME PlaceInv, Done \/ CommandFails \/ SessionBreaks \/ Leave \/ Signal
    PROVE  PlaceInv'
<1> USE StartupAssumption DEF PlaceInv, PortPlace, NoDescriptorLost, Using, Fails
<1>1. UNCHANGED cli /\ (stage' = "parse" => stage = "parse")
  BY DEF Done, CommandFails, SessionBreaks, Leave, Signal, Enter, After
<1>2. ParserPlace' /\ opts' = opts
  BY <1>1, CliKept DEF cli
<1>3. CASE Done
  BY <1>2, <1>3 DEF Done, Enter, After
<1>4. CASE CommandFails
  BY <1>2, <1>4 DEF CommandFails
<1>5. CASE SessionBreaks
  BY <1>2, <1>5 DEF SessionBreaks
<1>6. CASE Leave
  BY <1>2, <1>6 DEF Leave, Enter
<1>7. CASE Signal
  BY <1>2, <1>7 DEF Signal
<1>. QED
  BY <1>3, <1>4, <1>5, <1>6, <1>7

LEMMA PlaceInvariance == Spec => []PlaceInv
<1>1. PlaceInv /\ [Next]_vars => PlaceInv'
  <2>1. ASSUME PlaceInv, UNCHANGED vars PROVE PlaceInv'
    BY <2>1 DEF PlaceInv, ParserPlace, PortPlace, NoDescriptorLost, Using, vars, cli
  <2>. QED
    BY <2>1, ParsePlace, DispatchPlace, OpenPlace, UsePlace DEF Next, Process
<1>. QED
  BY <1>1, InitPlace, PTL DEF Spec

\* The parser never stands further than behind the last argument, no descriptor
\* is closed that is not open, and none is used outside the functions that do.
THEOREM TypeCorrect == Spec => []TypeOK
<1>1. PlaceInv => TypeOK
  BY ArgsTyped DEF PlaceInv, ParserPlace, PortPlace, TypeOK
<1>. QED
  BY <1>1, PlaceInvariance, PTL

\* With a baud rate that to_speed knows, no failure of any call of serial_open,
\* in any of the functions that open the port, leaves a descriptor behind.
THEOREM DescriptorsClosed == Spec => []NoDescriptorLost
<1>1. PlaceInv => NoDescriptorLost
  BY DEF PlaceInv
<1>. QED
  BY <1>1, PlaceInvariance, PTL

-----------------------------------------------------------------------------
(***************************************************************************)
(* The two recursions along a list of arguments are well founded.          *)
(***************************************************************************)
\* Every set of natural numbers has a least element: what the inductions below rest on.
LEMMA LeastOf ==
    ASSUME NEW S \in SUBSET Nat, S # {}
    PROVE  \E m \in S : \A k \in S : m <= k
<1> DEFINE R == OpToRel(<, Nat)
<1>1. IsWellFoundedOn(R, Nat)
  BY NatLessThanWellFounded
<1>2. \A i, j \in Nat : i < j => <<i, j>> \in R
  BY DEF OpToRel
<1> HIDE DEF R
<1>3. PICK m \in S : \A k \in S : ~(<<k, m>> \in R)
  BY <1>1, WFMin
<1>4. \A i \in S : i \in Nat
  OBVIOUS
<1>5. \A k \in S : ~(k < m)
  BY <1>2, <1>3, <1>4
<1>. QED
  BY <1>4, <1>5

\* What holds of 0 and of the next number whenever it holds of one, up to n,
\* holds of n.
LEMMA UpTo ==
    ASSUME NEW n \in Nat, NEW S \in SUBSET (0 .. n), 0 \in S,
           \A k \in 0 .. n - 1 : k \in S => k + 1 \in S
    PROVE  n \in S
<1> SUFFICES ASSUME n \notin S PROVE FALSE
  OBVIOUS
<1> DEFINE Out == {k \in 0 .. n : k \notin S}
<1>1. Out \in SUBSET Nat /\ n \in Out /\ 0 \notin Out
  OBVIOUS
<1>2. \A k \in Out : k \in 0 .. n /\ k # 0 /\ k \notin S
  OBVIOUS
<1>3. \A k \in 0 .. n : k \notin S => k \in Out
  OBVIOUS
<1> HIDE DEF Out
<1>4. PICK m \in Out : \A k \in Out : m <= k
  BY <1>1, LeastOf
<1>5. m \in 1 .. n /\ m - 1 \in 0 .. n - 1 /\ m - 1 \in 0 .. n /\ (m - 1) + 1 = m
  BY <1>2
<1>6. m - 1 \in S
  BY <1>3, <1>4, <1>5
<1>. QED
  BY <1>2, <1>5, <1>6

CsStart == [option |-> "", opts |-> CsDefaults]
CsStep(list, f, i) == IF i = 0 THEN CsStart ELSE CsArgument(f[i - 1], list[i])

LEMMA CsAfterUnfolds ==
    ASSUME NEW list \in Seq(Seq(STRING))
    PROVE  \A i \in 0 .. Len(list) : CsAfter(list)[i] = CsStep(list, CsAfter(list), i)
<1> DEFINE n == Len(list)
           Is(f, k) == f = [i \in 0 .. k |-> CsStep(list, f, i)]
           Some == {k \in 0 .. n : \E f : Is(f, k)}
<1>1. n \in Nat
  OBVIOUS
<1>2. 0 \in Some
  <2>1. Is([i \in 0 .. 0 |-> CsStart], 0)
    BY DEF CsStep
  <2>. QED
    BY <1>1, <2>1
<1>3. ASSUME NEW k \in 0 .. n - 1, k \in Some
      PROVE  k + 1 \in Some
  <2>1. PICK f : Is(f, k)
    BY <1>3
  <2> DEFINE g == [i \in 0 .. k + 1 |-> CsStep(list, f, i)]
  <2>2. \A i \in 0 .. k : g[i] = f[i]
    <3>1. \A i \in 0 .. k : f[i] = CsStep(list, f, i)
      BY ONLY <2>1, Zenon
    <3>2. \A i \in 0 .. k : i \in 0 .. k + 1
      OBVIOUS
    <3>. QED
      BY <3>1, <3>2
  <2>3. \A i \in 0 .. k + 1 : CsStep(list, g, i) = CsStep(list, f, i)
    <3>1. \A i \in 0 .. k + 1 : i = 0 \/ i - 1 \in 0 .. k
      OBVIOUS
    <3> HIDE DEF g
    <3>. QED
      BY <2>2, <3>1 DEF CsStep
  <2>4. Is(g, k + 1)
    BY <2>3, Zenon
  <2>5. k + 1 \in 0 .. n
    BY <1>1
  <2> HIDE DEF g, Is
  <2>. QED
    BY <2>4, <2>5
<1>4. n \in Some
  <2> HIDE DEF Some
  <2>1. Some \in SUBSET (0 .. n)
    BY DEF Some
  <2>. QED
    BY <1>1, <1>2, <1>3, <2>1, UpTo
<1>5. \E f : Is(f, n)
  BY <1>4
<1>6. CsAfter(list) = CHOOSE f : Is(f, n)
  BY DEF CsAfter, CsStep, CsStart
<1>7. Is(CsAfter(list), n)
  <2> HIDE DEF Is
  <2>. QED
    BY <1>5, <1>6
<1>. QED
  BY <1>7

OptionStep(f, i) == i = 1 \/ ~(f[i - 1] /\ Name(args[i - 1]) \in Valued)

LEMMA IsOptionUnfolds ==
    ASSUME args \in Seq(Seq(STRING))
    PROVE  \A i \in 1 .. Len(args) : IsOption[i] = OptionStep(IsOption, i)
<1> DEFINE n == Len(args)
           Is(f, k) == f = [i \in 1 .. k |-> OptionStep(f, i)]
           Some == {k \in 0 .. n : \E f : Is(f, k)}
<1>1. n \in Nat
  OBVIOUS
<1>2. 0 \in Some
  <2>1. Is([i \in 1 .. 0 |-> TRUE], 0)
    OBVIOUS
  <2>2. 0 \in 0 .. n
    BY <1>1
  <2> HIDE DEF Is
  <2>. QED
    BY <2>1, <2>2
<1>3. ASSUME NEW k \in 0 .. n - 1, k \in Some
      PROVE  k + 1 \in Some
  <2>1. PICK f : Is(f, k)
    BY <1>3
  <2> DEFINE g == [i \in 1 .. k + 1 |-> OptionStep(f, i)]
  <2>2. \A i \in 1 .. k : g[i] = f[i]
    <3>1. \A i \in 1 .. k : f[i] = OptionStep(f, i)
      BY ONLY <2>1, Zenon
    <3>2. \A i \in 1 .. k : i \in 1 .. k + 1
      OBVIOUS
    <3>. QED
      BY <3>1, <3>2
  <2>3. \A i \in 1 .. k + 1 : OptionStep(g, i) = OptionStep(f, i)
    <3>1. \A i \in 1 .. k + 1 : i = 1 \/ i - 1 \in 1 .. k
      OBVIOUS
    <3> HIDE DEF g
    <3>. QED
      BY <2>2, <3>1 DEF OptionStep
  <2>4. Is(g, k + 1)
    BY <2>3, Zenon
  <2>5. k + 1 \in 0 .. n
    BY <1>1
  <2> HIDE DEF g, Is
  <2>. QED
    BY <2>4, <2>5
<1>4. n \in Some
  <2> HIDE DEF Some
  <2>1. Some \in SUBSET (0 .. n)
    BY DEF Some
  <2>. QED
    BY <1>1, <1>2, <1>3, <2>1, UpTo
<1>5. \E f : Is(f, n)
  BY <1>4
<1>6. IsOption = CHOOSE f : Is(f, n)
  <2>1. DOMAIN args = 1 .. n
    OBVIOUS
  <2>. QED
    BY <2>1, Zenon DEF IsOption, OptionStep
<1>7. Is(IsOption, n)
  <2> HIDE DEF Is
  <2>. QED
    BY <1>5, <1>6
<1>. QED
  BY <1>7

-----------------------------------------------------------------------------
(***************************************************************************)
(* The options, and the C# parser beside this one.                         *)
(***************************************************************************)
LEMMA Tables ==
    /\ DOMAIN TextField = {"--port", "--gateway-id", "--topic"}
    /\ DOMAIN NumberField = {"--baud", "--mqtt-port"}
    /\ DOMAIN FlagField = {"--activate", "--dump-params", "--help", "-h"}
    /\ TextField["--port"] = "port_name" /\ TextField["--gateway-id"] = "gateway_id"
    /\ TextField["--topic"] = "mqtt_topic"
    /\ NumberField["--baud"] = "baud_rate" /\ NumberField["--mqtt-port"] = "mqtt_port"
    /\ FlagField["--activate"] = "activate" /\ FlagField["--dump-params"] = "dump_params"
    /\ FlagField["--help"] = "show_help" /\ FlagField["-h"] = "show_help"
    /\ Valued = {"--port", "--gateway-id", "--topic", "--baud", "--mqtt-port", "--mqtt-host"}
<1>1. /\ DOMAIN TextField = {"--port", "--gateway-id", "--topic"}
      /\ TextField["--port"] = "port_name" /\ TextField["--gateway-id"] = "gateway_id"
      /\ TextField["--topic"] = "mqtt_topic"
  BY DEF TextField
<1>2. /\ DOMAIN NumberField = {"--baud", "--mqtt-port"}
      /\ NumberField["--baud"] = "baud_rate" /\ NumberField["--mqtt-port"] = "mqtt_port"
  BY DEF NumberField
<1>3. /\ DOMAIN FlagField = {"--activate", "--dump-params", "--help", "-h"}
      /\ FlagField["--activate"] = "activate" /\ FlagField["--dump-params"] = "dump_params"
      /\ FlagField["--help"] = "show_help" /\ FlagField["-h"] = "show_help"
  BY DEF FlagField
<1>. QED
  BY <1>1, <1>2, <1>3 DEF Valued

-----------------------------------------------------------------------------
(***************************************************************************)
(* URLs: what apply_mqtt_host_arg cuts out of them.                        *)
(***************************************************************************)
LEMMA MaxIs ==
    ASSUME NEW S \in SUBSET Int, NEW m \in S, \A k \in S : k <= m
    PROVE  Max(S) = m
<1>1. \A k \in S : m >= k
  OBVIOUS
<1>2. \A x \in S : (\A k \in S : x >= k) => x = m
  OBVIOUS
<1>. QED
  BY <1>1, <1>2, Zenon DEF Max

LEMMA MinIs ==
    ASSUME NEW S \in SUBSET Int, NEW m \in S, \A k \in S : m <= k
    PROVE  Min(S) = m
<1>2. \A x \in S : (\A k \in S : x =< k) => x = m
  OBVIOUS
<1>. QED
  BY <1>2, Zenon DEF Min

\* Sequences that agree at each place are equal.
LEMMA SameSeq ==
    ASSUME NEW S, NEW s \in Seq(S), NEW t \in Seq(S), Len(s) = Len(t),
           \A k \in 1 .. Len(s) : s[k] = t[k]
    PROVE  s = t
BY SeqEqual

\* Of a text with a slash, what stands in front of the first one is left.
LEMMA CutAtSlash ==
    ASSUME NEW S, NEW text \in Seq(S), NEW front \in Seq(S), Len(front) <= Len(text),
           \A k \in 1 .. Len(front) : text[k] = front[k] /\ front[k] # "/",
           Len(front) < Len(text) => text[Len(front) + 1] = "/"
    PROVE  UntilSlash(text) = front
<1> DEFINE I == {i \in 1 .. Len(text) : text[i] = "/"}
           n == Len(front)
<1>1. n \in Nat /\ Len(text) \in Nat /\ n <= Len(text)
  OBVIOUS
<1>2. SelectInSeq(text, LAMBDA c : c = "/") = IF I # {} THEN Min(I) ELSE 0
  BY DEF SelectInSeq
<1>3. CASE n = Len(text)
  <2>1. I = {}
    BY <1>3
  <2>2. UntilSlash(text) = text
    BY <1>2, <2>1 DEF UntilSlash
  <2>3. text = front
    BY <1>3, SameSeq
  <2>. QED
    BY <2>2, <2>3
<1>4. CASE n < Len(text)
  <2>1. n + 1 \in I /\ \A i \in I : n + 1 <= i
    <3>1. n + 1 \in 1 .. Len(text)
      BY <1>1, <1>4
    <3>2. \A i \in I : ~(i \in 1 .. n) /\ i \in 1 .. Len(text)
      OBVIOUS
    <3>3. \A i \in I : n + 1 <= i
      BY ONLY <1>1, <3>2
    <3>. QED
      BY <1>4, <3>1, <3>3
  <2>2. I \in SUBSET Int
    OBVIOUS
  <2> HIDE DEF I
  <2>3. Min(I) = n + 1
    BY <2>1, <2>2, MinIs
  <2>4. UntilSlash(text) = SubSeq(text, 1, (n + 1) - 1)
    <3>1. SelectInSeq(text, LAMBDA c : c = "/") = n + 1 /\ n + 1 # 0
      BY <1>1, <1>2, <2>1, <2>3
    <3>. QED
      BY <3>1 DEF UntilSlash
  <2>5. (n + 1) - 1 = n
    BY <1>1
  <2>6. /\ SubSeq(text, 1, n) \in Seq(S) /\ Len(SubSeq(text, 1, n)) = n
        /\ \A k \in 1 .. n : SubSeq(text, 1, n)[k] = text[k]
    BY <1>1, SubSeqProperties
  <2>7. SubSeq(text, 1, n) = front
    BY <2>6, SameSeq
  <2>. QED
    BY <2>4, <2>5, <2>7
<1>. QED
  BY <1>1, <1>3, <1>4

\* The one colon of a text parts it.
LEMMA PartAtColon ==
    ASSUME NEW S, ":" \in S, NEW host \in Seq(S), NEW port \in Seq(S),
           \A k \in 1 .. Len(host) : host[k] # ":", \A k \in 1 .. Len(port) : port[k] # ":"
    PROVE  LET rest == Append(host, ":") \o port
               colon == SelectLastInSeq(rest, LAMBDA c : c = ":")
           IN /\ colon = Len(host) + 1
              /\ SubSeq(rest, 1, colon - 1) = host
              /\ SubSeq(rest, colon + 1, Len(rest)) = port
<1> DEFINE rest == Append(host, ":") \o port
           n == Len(host)
           I == {i \in 1 .. Len(rest) : rest[i] = ":"}
<1>1. n \in Nat /\ Len(port) \in Nat
  OBVIOUS
<1>2. /\ Append(host, ":") \in Seq(S) /\ Len(Append(host, ":")) = n + 1
      /\ \A k \in 1 .. n : Append(host, ":")[k] = host[k]
      /\ Append(host, ":")[n + 1] = ":"
  <2> DEFINE r == Append(host, ":")
  <2>1. r \in Seq(S) /\ Len(r) = n + 1 /\ (\A k \in 1 .. n : r[k] = host[k])
        /\ r[n + 1] = ":"
    BY AppendProperties, Z3
  <2>. QED
    BY <2>1
<1>3. /\ rest \in Seq(S) /\ Len(rest) = n + 1 + Len(port)
      /\ \A k \in 1 .. n + 1 : rest[k] = Append(host, ":")[k]
      /\ \A k \in 1 .. Len(port) : rest[n + 1 + k] = port[k]
  BY <1>1, <1>2, ConcatProperties
<1> HIDE DEF rest
<1>4. /\ \A k \in 1 .. n : rest[k] = host[k]
      /\ rest[n + 1] = ":"
  <2>1. n + 1 \in 1 .. n + 1 /\ \A k \in 1 .. n : k \in 1 .. n + 1
    BY <1>1
  <2>. QED
    BY <1>2, <1>3, <2>1
<1>5. n + 1 \in I /\ I \in SUBSET Int
  BY <1>1, <1>3, <1>4
<1>6. \A i \in I : i <= n + 1
  <2> SUFFICES ASSUME NEW i \in 1 .. Len(rest), rest[i] = ":", i > n + 1 PROVE FALSE
    BY <1>1
  <2>1. i - (n + 1) \in 1 .. Len(port) /\ n + 1 + (i - (n + 1)) = i
    BY <1>1, <1>3
  <2>2. rest[i] = port[i - (n + 1)]
    BY <1>3, <2>1
  <2>. QED
    BY <2>1, <2>2
<1>7. SelectLastInSeq(rest, LAMBDA c : c = ":") = n + 1
  <2>1. SelectLastInSeq(rest, LAMBDA c : c = ":") = IF I # {} THEN Max(I) ELSE 0
    BY DEF SelectLastInSeq
  <2> HIDE DEF I
  <2>. QED
    BY <1>5, <1>6, <2>1, MaxIs
<1>8. SubSeq(rest, 1, (n + 1) - 1) = host
  <2>1. /\ SubSeq(rest, 1, n) \in Seq(S) /\ Len(SubSeq(rest, 1, n)) = n
        /\ \A k \in 1 .. n : SubSeq(rest, 1, n)[k] = rest[k]
    BY <1>1, <1>3, SubSeqProperties
  <2>2. SubSeq(rest, 1, n) = host
    BY <1>4, <2>1, SameSeq
  <2>3. (n + 1) - 1 = n
    BY <1>1
  <2>. QED
    BY <2>2, <2>3
<1>9. SubSeq(rest, (n + 1) + 1, Len(rest)) = port
  <2> DEFINE a == (n + 1) + 1
             tail == SubSeq(rest, a, Len(rest))
  <2>1. a \in 1 .. Len(rest) + 1 /\ Len(rest) \in Nat /\ Len(rest) - a + 1 = Len(port)
    BY <1>1, <1>3
  <2>2. /\ tail \in Seq(S) /\ Len(tail) = Len(port)
        /\ \A k \in 1 .. Len(port) : tail[k] = rest[a + k - 1]
    BY <1>3, <2>1, SubSeqProperties
  <2>3. \A k \in 1 .. Len(port) : a + k - 1 = n + 1 + k
    BY <1>1
  <2> HIDE DEF tail
  <2>4. \A k \in 1 .. Len(port) : tail[k] = port[k]
    BY <1>3, <2>2, <2>3
  <2>5. tail = port
    BY <2>2, <2>4, SameSeq
  <2>. QED
    BY <2>5 DEF tail
<1>. QED
  BY <1>7, <1>8, <1>9 DEF rest

LEMMA WiderSeq ==
    ASSUME NEW S, NEW T, S \subseteq T, NEW s \in Seq(S)
    PROVE  s \in Seq(T)
OBVIOUS

PortPart(url) == IF url.port = "" THEN <<>> ELSE <<url.port>>

\* Behind "mqtt://", up to the path.
Authority(url, authority) ==
    \/ authority = url.host /\ url.port = ""
    \/ authority = Append(url.host, ":") \o PortPart(url)

\* The symbols of one URL.
SymbolsOf(url) == STRING \cup {":", url.port}

LEMMA UrlTyped ==
    ASSUME NEW url \in Urls
    PROVE  /\ url.host \in Seq(SymbolsOf(url)) /\ url.text \in Seq(SymbolsOf(url))
           /\ PortPart(url) \in Seq(SymbolsOf(url)) /\ ":" \in SymbolsOf(url)
           /\ \A k \in 1 .. Len(url.host) : url.host[k] # ":" /\ url.host[k] # "/"
           /\ \A k \in 1 .. Len(PortPart(url)) : PortPart(url)[k] # ":" /\ PortPart(url)[k] # "/"
<1>1. IsUrl(url)
  BY CommandLineAssumption, Zenon
<1>2. url.text \in Seq(STRING) /\ url.host \in Seq(STRING) /\ STRING \subseteq SymbolsOf(url)
  BY <1>1 DEF IsUrl, SymbolsOf
<1>3. url.text \in Seq(SymbolsOf(url)) /\ url.host \in Seq(SymbolsOf(url))
  BY <1>2, WiderSeq
<1>4. url.port \in SymbolsOf(url) /\ ":" \in SymbolsOf(url) /\ url.port # ":" /\ url.port # "/"
  BY <1>1 DEF IsUrl, SymbolsOf
<1>5. /\ PortPart(url) \in Seq(SymbolsOf(url))
      /\ \A k \in 1 .. Len(PortPart(url)) : PortPart(url)[k] # ":" /\ PortPart(url)[k] # "/"
  <2> DEFINE S == SymbolsOf(url)
             x == url.port
  <2>1. x \in S /\ x # ":" /\ x # "/"
    BY <1>4
  <2> HIDE DEF S, x
  <2>2. /\ <<>> \in Seq(S) /\ <<x>> \in Seq(S)
        /\ \A k \in 1 .. Len(<<x>>) : <<x>>[k] # ":" /\ <<x>>[k] # "/"
        /\ \A k \in 1 .. Len(<<>>) : <<>>[k] # ":" /\ <<>>[k] # "/"
    BY <2>1
  <2>3. PortPart(url) = <<>> \/ PortPart(url) = <<x>>
    BY DEF PortPart, x
  <2>. QED
    BY <2>2, <2>3 DEF S
<1>6. \A k \in 1 .. Len(url.host) : url.host[k] # ":" /\ url.host[k] # "/"
  <2>1. \A k \in DOMAIN url.host : url.host[k] \notin {":", "/"}
    BY <1>1 DEF IsUrl
  <2>2. DOMAIN url.host = 1 .. Len(url.host)
    BY <1>2
  <2>. QED
    BY <2>1, <2>2
<1>. QED
  BY <1>3, <1>4, <1>5, <1>6

LEMMA AuthorityTyped ==
    ASSUME NEW url \in Urls, NEW authority, Authority(url, authority)
    PROVE  /\ authority \in Seq(SymbolsOf(url))
           /\ \A k \in 1 .. Len(authority) : authority[k] # "/"
<1> DEFINE S == SymbolsOf(url)
           long == Append(url.host, ":")
           port == PortPart(url)
<1>1. /\ url.host \in Seq(S) /\ port \in Seq(S) /\ ":" \in S
      /\ \A k \in 1 .. Len(url.host) : url.host[k] # "/"
      /\ \A k \in 1 .. Len(port) : port[k] # "/"
  BY UrlTyped
<1> HIDE DEF S, port
<1>2. /\ long \in Seq(S) /\ Len(long) = Len(url.host) + 1
      /\ \A k \in 1 .. Len(url.host) : long[k] = url.host[k]
      /\ long[Len(url.host) + 1] = ":"
  BY <1>1, AppendProperties
<1> HIDE DEF long
<1>3. \A k \in 1 .. Len(long) : long[k] # "/"
  <2>1. Len(url.host) \in Nat
    BY <1>1
  <2>2. \A k \in 1 .. Len(long) : k \in 1 .. Len(url.host) \/ k = Len(url.host) + 1
    BY <1>2, <2>1
  <2>. QED
    BY <1>1, <1>2, <2>2
<1>4. /\ long \o port \in Seq(S)
      /\ \A k \in 1 .. Len(long \o port) : (long \o port)[k] # "/"
  <2>1. /\ long \o port \in Seq(S) /\ Len(long \o port) = Len(long) + Len(port)
        /\ \A k \in 1 .. Len(long) : (long \o port)[k] = long[k]
        /\ \A k \in 1 .. Len(port) : (long \o port)[Len(long) + k] = port[k]
    <3>1. long \in Seq(S) /\ port \in Seq(S)
      BY <1>1, <1>2
    <3>. QED
      BY ONLY <3>1, ConcatProperties
  <2>2. ASSUME NEW k \in 1 .. Len(long \o port) PROVE (long \o port)[k] # "/"
    <3>1. Len(long) \in Nat /\ Len(port) \in Nat
      BY <1>1, <1>2
    <3>2. CASE k <= Len(long)
      BY <1>3, <2>1, <3>1, <3>2
    <3>3. CASE k > Len(long)
      <4>1. k - Len(long) \in 1 .. Len(port) /\ Len(long) + (k - Len(long)) = k
        BY <2>1, <3>1, <3>3
      <4>. QED
        BY <1>1, <2>1, <4>1
    <3>. QED
      BY <2>1, <3>1, <3>2, <3>3
  <2>. QED
    BY <2>1, <2>2
<1>. QED
  BY <1>1, <1>4 DEF Authority, S, long, port

\* Behind "mqtt://", UntilSlash leaves what stands in front of the path.
LEMMA UrlAuthority ==
    ASSUME NEW url \in Urls
    PROVE  /\ url.text # <<>> /\ url.text[1] = "mqtt://"
           /\ Authority(url, UntilSlash(Tail(url.text)))
<1>1. IsUrl(url)
  BY CommandLineAssumption, Zenon
<1>2. Append(url.host, ":") \o <<>> = Append(url.host, ":")
  <2>1. Append(url.host, ":") \in Seq(SymbolsOf(url))
    BY UrlTyped, AppendProperties
  <2>. QED
    BY <2>1, ConcatEmptySeq
<1>3. PICK authority :
          /\ Authority(url, authority)
          /\ Len(authority) + 1 <= Len(url.text)
          /\ SubSeq(url.text, 1, Len(authority) + 1) = <<"mqtt://">> \o authority
          /\ Len(authority) + 1 < Len(url.text) => url.text[Len(authority) + 1 + 1] = "/"
  <2>1. CASE url.port = ""
    BY <1>1, <1>2, <2>1 DEF IsUrl, Authority, PortPart
  <2>2. CASE url.port # ""
    BY <1>1, <2>2 DEF IsUrl, Authority, PortPart
  <2>. QED
    BY <2>1, <2>2
<1> DEFINE S == SymbolsOf(url) \cup {"mqtt://"}
           n == Len(authority)
           t == Tail(url.text)
<1>4. authority \in Seq(SymbolsOf(url)) /\ \A k \in 1 .. n : authority[k] # "/"
  BY <1>3, AuthorityTyped
<1>5. authority \in Seq(S) /\ url.text \in Seq(S) /\ "mqtt://" \in S
  BY <1>4, UrlTyped, WiderSeq
<1>6. n \in Nat /\ Len(url.text) \in Nat /\ n + 1 <= Len(url.text)
  <2>1. n \in Nat /\ Len(url.text) \in Nat
    BY ONLY <1>5
  <2>. QED
    BY <1>3, <2>1
<1> HIDE DEF S
<1>7. \A k \in 1 .. n + 1 : url.text[k] = (<<"mqtt://">> \o authority)[k]
  <2>1. \A k \in 1 .. n + 1 : SubSeq(url.text, 1, n + 1)[k] = url.text[k]
    BY ONLY <1>5, <1>6, SubSeqProperties
  <2>. QED
    BY <1>3, <2>1
<1>8. /\ (<<"mqtt://">> \o authority)[1] = "mqtt://"
      /\ \A k \in 1 .. n : (<<"mqtt://">> \o authority)[1 + k] = authority[k]
  <2>1. <<"mqtt://">> \in Seq(S) /\ Len(<<"mqtt://">>) = 1 /\ <<"mqtt://">>[1] = "mqtt://"
    BY ONLY <1>5
  <2>2. 1 \in 1 .. 1
    OBVIOUS
  <2>. QED
    BY ONLY <1>5, <2>1, <2>2, ConcatProperties
<1>9. url.text[1] = "mqtt://" /\ url.text # <<>>
  <2>1. 1 \in 1 .. n + 1 /\ Len(url.text) # 0
    BY ONLY <1>6
  <2>. QED
    BY <1>7, <1>8, <2>1
<1>10. /\ t \in Seq(S) /\ Len(t) = Len(url.text) - 1
       /\ \A k \in 1 .. Len(t) : t[k] = url.text[k + 1]
  BY <1>5, <1>9, HeadTailProperties
<1> HIDE DEF t
<1>11. \A k \in 1 .. n : t[k] = authority[k]
  <2> SUFFICES ASSUME NEW k \in 1 .. n PROVE t[k] = authority[k]
    OBVIOUS
  <2>1. k \in 1 .. Len(t) /\ k + 1 \in 1 .. n + 1 /\ k + 1 = 1 + k
    BY ONLY <1>6, <1>10
  <2>. QED
    BY <1>7, <1>8, <1>10, <2>1
<1>12. n < Len(t) => t[n + 1] = "/"
  <2>0. SUFFICES ASSUME n < Len(t) PROVE t[n + 1] = "/"
    OBVIOUS
  <2>1. n + 1 \in 1 .. Len(t) /\ n + 1 < Len(url.text)
    BY ONLY <1>6, <1>10, <2>0
  <2>. QED
    BY <1>3, <1>10, <2>1
<1>13. UntilSlash(t) = authority
  <2>1. n <= Len(t)
    BY ONLY <1>6, <1>10
  <2>. QED
    BY <1>4, <1>5, <1>10, <1>11, <1>12, <2>1, CutAtSlash
<1>. QED
  BY <1>3, <1>9, <1>13 DEF t

LEMMA UrlParses ==
    ASSUME NEW url \in Urls, NEW o
    PROVE  ApplyMqttHostArg(url.text, o) =
              {[o EXCEPT !.mqtt_host = url.host, !.mqtt_port = n] :
                  n \in IF url.port = "" THEN {o.mqtt_port} ELSE Stoi(<<url.port>>)}
<1> DEFINE rest == UntilSlash(Tail(url.text))
           colon == SelectLastInSeq(rest, LAMBDA c : c = ":")
           host == IF colon = 0 THEN rest ELSE SubSeq(rest, 1, colon - 1)
           port == IF colon = 0 THEN <<>> ELSE SubSeq(rest, colon + 1, Len(rest))
<1>1. ApplyMqttHostArg(url.text, o) =
          {[o EXCEPT !.mqtt_host = host, !.mqtt_port = n] :
              n \in IF port = <<>> THEN {o.mqtt_port} ELSE Stoi(port)}
  BY UrlAuthority, Zenon DEF ApplyMqttHostArg
<1>2. host = url.host /\ port = PortPart(url)
  <2>1. CASE rest = url.host /\ url.port = ""
    <3>1. \A i \in 1 .. Len(rest) : rest[i] # ":"
      BY <2>1, UrlTyped
    <3>2. {i \in 1 .. Len(rest) : rest[i] = ":"} = {}
      BY <3>1
    <3>3. colon = 0
      BY <3>2 DEF SelectLastInSeq
    <3>. QED
      BY <2>1, <3>3 DEF PortPart
  <2>2. CASE rest = Append(url.host, ":") \o PortPart(url)
    <3>1. /\ colon = Len(url.host) + 1
          /\ SubSeq(rest, 1, colon - 1) = url.host
          /\ SubSeq(rest, colon + 1, Len(rest)) = PortPart(url)
      <4> DEFINE S == SymbolsOf(url)
                 p == PortPart(url)
      <4>1. /\ ":" \in S /\ url.host \in Seq(S) /\ p \in Seq(S)
            /\ \A k \in 1 .. Len(url.host) : url.host[k] # ":"
            /\ \A k \in 1 .. Len(p) : p[k] # ":"
        BY UrlTyped
      <4> HIDE DEF S, p
      <4> DEFINE q == Append(url.host, ":") \o p
                 c == SelectLastInSeq(q, LAMBDA x : x = ":")
      <4>2. c = Len(url.host) + 1 /\ SubSeq(q, 1, c - 1) = url.host /\ SubSeq(q, c + 1, Len(q)) = p
        BY <4>1, PartAtColon, ZenonT(60)
      <4>3. rest = q
        BY <2>2 DEF p
      <4> HIDE DEF rest, q
      <4>. QED
        BY <4>2, <4>3 DEF p
    <3>2. colon # 0
      <4>1. Len(url.host) \in Nat
        BY UrlTyped
      <4>. QED
        BY <3>1, <4>1
    <3>. QED
      BY <3>1, <3>2
  <2>. QED
    BY <2>1, <2>2, UrlAuthority DEF Authority
<1>3. (IF PortPart(url) = <<>> THEN {o.mqtt_port} ELSE Stoi(PortPart(url)))
      = (IF url.port = "" THEN {o.mqtt_port} ELSE Stoi(<<url.port>>))
  BY DEF PortPart
<1> HIDE DEF host, port
<1>. QED
  BY <1>1, <1>2, <1>3, Zenon

\* One text, one port.
LEMMA UrlPort ==
    ASSUME NEW url \in Urls, NEW other \in Urls, url.text = other.text, url.port = ""
    PROVE  other.port = ""
<1> SUFFICES ASSUME other.port # "" PROVE FALSE
  OBVIOUS
<1> DEFINE o == [Defaults EXCEPT !.mqtt_port = ""]
           n == other.port
<1>1. ApplyMqttHostArg(url.text, o) = {[o EXCEPT !.mqtt_host = url.host, !.mqtt_port = ""]}
  <2>1. o.mqtt_port = ""
    BY DEF Defaults
  <2> HIDE DEF o
  <2>. QED
    <3> DEFINE F(m) == [o EXCEPT !.mqtt_host = url.host, !.mqtt_port = m]
    <3>1. ApplyMqttHostArg(url.text, o) = {F(m) : m \in {o.mqtt_port}}
      BY UrlParses
    <3> HIDE DEF F
    <3>2. {F(m) : m \in {o.mqtt_port}} = {F("")}
      BY <2>1
    <3>. QED
      BY <3>1, <3>2 DEF F
<1>2. ApplyMqttHostArg(url.text, o)
      = {[o EXCEPT !.mqtt_host = other.host, !.mqtt_port = m] : m \in Stoi(<<n>>)}
  <2> HIDE DEF o
  <2>. QED
    <3>1. ApplyMqttHostArg(other.text, o) =
              {[o EXCEPT !.mqtt_host = other.host, !.mqtt_port = m] :
                  m \in IF other.port = "" THEN {o.mqtt_port} ELSE Stoi(<<other.port>>)}
      BY UrlParses, Zenon
    <3>. QED
      BY <3>1
<1>3. Stoi(<<n>>) = {n} \/ Stoi(<<n>>) = {}
  BY DEF Stoi
<1>4. [o EXCEPT !.mqtt_host = url.host, !.mqtt_port = ""].mqtt_port = ""
  BY DEF Defaults
<1>5. [o EXCEPT !.mqtt_host = other.host, !.mqtt_port = n].mqtt_port = n
  BY DEF Defaults
<1>6. CASE Stoi(<<n>>) = {n}
  <2>1. [o EXCEPT !.mqtt_host = url.host, !.mqtt_port = ""]
        = [o EXCEPT !.mqtt_host = other.host, !.mqtt_port = n]
    <3> HIDE DEF o
    <3>. QED
      BY <1>1, <1>2, <1>6, Zenon
  <2> HIDE DEF o
  <2>. QED
    BY <1>4, <1>5, <2>1, Zenon
<1>7. CASE Stoi(<<n>>) = {}
  <2> HIDE DEF o
  <2>. QED
    BY <1>1, <1>2, <1>7, Zenon
<1>. QED
  BY <1>3, <1>6, <1>7

-----------------------------------------------------------------------------
(***************************************************************************)
(* What one option with its value, or one flag, does to the options.       *)
(***************************************************************************)
Kept(r, o, fields) == \A f \in DOMAIN Defaults : f \notin fields => r[f] = o[f]

LEMMA Fields ==
    DOMAIN Defaults = {"port_name", "baud_rate", "activate", "gateway_id", "mqtt_host",
                       "mqtt_port", "mqtt_topic", "dump_params", "show_help"}
BY DEF Defaults

LEMMA TextAssigned ==
    ASSUME NEW o, DOMAIN o = DOMAIN Defaults, NEW option \in DOMAIN TextField, NEW value,
           NEW r \in Assigned(o, option, value)
    PROVE  r[TextField[option]] = value /\ Kept(r, o, {TextField[option]})
<1>1. r = [o EXCEPT ![TextField[option]] = value]
  BY DEF Assigned
<1>2. TextField[option] \in DOMAIN o
  BY Tables, Fields
<1>. QED
  BY <1>1, <1>2 DEF Kept

LEMMA NumberAssigned ==
    ASSUME NEW o, DOMAIN o = DOMAIN Defaults, NEW option \in DOMAIN NumberField, NEW value,
           NEW r \in Assigned(o, option, value)
    PROVE  r[NumberField[option]] = value[1] /\ Kept(r, o, {NumberField[option]})
<1>1. r = [o EXCEPT ![NumberField[option]] = value[1]]
  BY Tables DEF Assigned, Stoi
<1>2. NumberField[option] \in DOMAIN o
  BY Tables, Fields
<1>. QED
  BY <1>1, <1>2 DEF Kept

\* The host and the port are the URL's, or the value is the host.
HostFields(r, o, value) ==
    /\ \A url \in Urls : url.text = value =>
          /\ r.mqtt_host = url.host
          /\ r.mqtt_port = IF url.port = "" THEN o.mqtt_port ELSE url.port
    /\ value = <<>> \/ value[1] # "mqtt://" =>
          r.mqtt_host = value /\ r.mqtt_port = o.mqtt_port

LEMMA HostAssigned ==
    ASSUME NEW o, DOMAIN o = DOMAIN Defaults, NEW value,
           NEW r \in Assigned(o, "--mqtt-host", value)
    PROVE  Kept(r, o, {"mqtt_host", "mqtt_port"}) /\ HostFields(r, o, value)
<1>1. r \in ApplyMqttHostArg(value, o)
  BY Tables DEF Assigned
<1>2. "mqtt_host" \in DOMAIN o /\ "mqtt_port" \in DOMAIN o /\ "mqtt_host" # "mqtt_port"
  BY Fields
<1>3. Kept(r, o, {"mqtt_host", "mqtt_port"})
  BY <1>1 DEF ApplyMqttHostArg, Kept
<1>4. ASSUME NEW url \in Urls, url.text = value
      PROVE  /\ r.mqtt_host = url.host
             /\ r.mqtt_port = IF url.port = "" THEN o.mqtt_port ELSE url.port
  <2>1. r \in {[o EXCEPT !.mqtt_host = url.host, !.mqtt_port = n] :
                  n \in IF url.port = "" THEN {o.mqtt_port} ELSE Stoi(<<url.port>>)}
    BY <1>1, <1>4, UrlParses, Zenon
  <2>2. Stoi(<<url.port>>) \subseteq {url.port}
    BY DEF Stoi
  <2>. QED
    BY <1>2, <2>1, <2>2
<1>5. ASSUME value = <<>> \/ value[1] # "mqtt://"
      PROVE  r.mqtt_host = value /\ r.mqtt_port = o.mqtt_port
  <2>1. r = [o EXCEPT !.mqtt_host = value]
    BY <1>1, <1>5 DEF ApplyMqttHostArg
  <2>. QED
    BY <1>2, <2>1
<1>. QED
  BY <1>3, <1>4, <1>5 DEF HostFields

-----------------------------------------------------------------------------
(***************************************************************************)
(* Which arguments have been passed: of a set of places, those below n.    *)
(***************************************************************************)
Below(S, n) == {i \in S : i < n}

\* Where the flags of a field stand.
FlagsFor(field) ==
    {i \in DOMAIN args : /\ IsOption[i] /\ Name(args[i]) \in DOMAIN FlagField
                         /\ FlagField[Name(args[i])] = field}

AtOption == at <= Len(args) => IsOption[at]

LEMMA PlacesTyped ==
    ASSUME ParserPlace, NEW O
    PROVE  Naming(O) \in SUBSET (1 .. Len(args)) /\ FlagsFor(O) \in SUBSET (1 .. Len(args))
<1>1. DOMAIN args = 1 .. Len(args)
  BY PlaceTyped
<1>. QED
  BY <1>1 DEF Naming, FlagsFor

\* An argument that takes no value: the next one stands where an option can.
LEMMA OtherPassed ==
    ASSUME ParserPlace, AtOption, ParseOther
    PROVE  /\ at + 1 <= Len(args) => IsOption[at + 1]
           /\ \A O \in SUBSET Valued : Below(Naming(O), at + 1) = Below(Naming(O), at)
           /\ \A field : Below(FlagsFor(field), at + 1) =
                            IF at \in FlagsFor(field) THEN Below(FlagsFor(field), at) \cup {at}
                            ELSE Below(FlagsFor(field), at)
<1>1. at \in 1 .. Len(args) /\ Len(args) \in Nat /\ args \in Seq(Seq(STRING))
  BY PlaceTyped DEF ParseOther
<1>2. ~(Name(args[at]) \in Valued /\ at < Len(args))
  BY DEF ParseOther, TakesValue
<1>3. at + 1 <= Len(args) => IsOption[at + 1]
  <2> SUFFICES ASSUME at + 1 <= Len(args) PROVE IsOption[at + 1]
    OBVIOUS
  <2>1. at + 1 \in 1 .. Len(args) /\ (at + 1) - 1 = at /\ at < Len(args)
    BY <1>1
  <2>2. Name(args[at]) \notin Valued
    BY <1>2, <2>1
  <2>3. IsOption[at + 1] = OptionStep(IsOption, at + 1)
    BY <1>1, <2>1, IsOptionUnfolds
  <2>. QED
    BY <2>1, <2>2, <2>3 DEF OptionStep
<1>4. ASSUME NEW S \in SUBSET (1 .. Len(args))
      PROVE  Below(S, at + 1) = IF at \in S THEN Below(S, at) \cup {at} ELSE Below(S, at)
  <2>1. \A i \in S : i < at + 1 <=> i < at \/ i = at
    BY <1>1
  <2>. QED
    BY <1>1, <2>1 DEF Below
<1>5. ASSUME NEW O \in SUBSET Valued
      PROVE  Below(Naming(O), at + 1) = Below(Naming(O), at)
  <2>1. at \notin Naming(O)
    BY <1>2 DEF Naming
  <2>. QED
    BY <1>4, <2>1, PlacesTyped
<1>. QED
  BY <1>3, <1>4, <1>5, PlacesTyped

\* An option and its value: what stands behind them is an option again.
LEMMA ValuedPassed ==
    ASSUME ParserPlace, AtOption, ParseValued
    PROVE  /\ at + 2 <= Len(args) => IsOption[at + 2]
           /\ \A O : Below(Naming(O), at + 2) =
                        IF Name(args[at]) \in O THEN Below(Naming(O), at) \cup {at}
                        ELSE Below(Naming(O), at)
           /\ \A field : Below(FlagsFor(field), at + 2) = Below(FlagsFor(field), at)
<1>1. /\ at \in 1 .. Len(args) /\ at + 1 \in 1 .. Len(args) /\ at < Len(args)
      /\ Len(args) \in Nat /\ args \in Seq(Seq(STRING)) /\ (at + 1) - 1 = at
  BY PlaceTyped, SMTT(60) DEF ParseValued, TakesValue
<1>2. Name(args[at]) \in Valued
  BY DEF ParseValued, TakesValue
<1>3. IsOption[at]
  BY DEF AtOption, ParseValued
<1>4. ~IsOption[at + 1]
  <2>1. IsOption[at + 1] = OptionStep(IsOption, at + 1)
    BY <1>1, IsOptionUnfolds
  <2>2. at + 1 # 1
    BY <1>1
  <2>. QED
    BY <1>1, <1>2, <1>3, <2>1, <2>2 DEF OptionStep
<1>5. at + 2 <= Len(args) => IsOption[at + 2]
  <2> SUFFICES ASSUME at + 2 <= Len(args) PROVE IsOption[at + 2]
    OBVIOUS
  <2>1. at + 2 \in 1 .. Len(args) /\ (at + 2) - 1 = at + 1
    BY <1>1
  <2>2. IsOption[at + 2] = OptionStep(IsOption, at + 2)
    BY <1>1, <2>1, IsOptionUnfolds
  <2>. QED
    BY <1>4, <2>1, <2>2 DEF OptionStep
<1>6. ASSUME NEW S \in SUBSET (1 .. Len(args)), at + 1 \notin S
      PROVE  Below(S, at + 2) = IF at \in S THEN Below(S, at) \cup {at} ELSE Below(S, at)
  <2>1. \A i \in S : i < at + 2 <=> i < at \/ i = at \/ i = at + 1
    BY <1>1
  <2>. QED
    BY <1>1, <1>6, <2>1 DEF Below
<1>7. ASSUME NEW O
      PROVE  at + 1 \notin Naming(O) /\ (at \in Naming(O) <=> Name(args[at]) \in O)
  <2>1. DOMAIN args = 1 .. Len(args)
    BY <1>1
  <2>. QED
    BY <1>1, <1>3, <1>4, <2>1 DEF Naming
<1>8. ASSUME NEW field
      PROVE  at + 1 \notin FlagsFor(field) /\ at \notin FlagsFor(field)
  BY <1>2, <1>4, Tables DEF FlagsFor
<1>. QED
  BY <1>5, <1>6, <1>7, <1>8, PlacesTyped

-----------------------------------------------------------------------------
(***************************************************************************)
(* OptionsAsNamed, as far as the parser has come.                          *)
(***************************************************************************)
ValueOf(S, default) == IF S = {} THEN default ELSE args[Max(S) + 1]

HostAt(i) ==
    IF i = 0 THEN <<"localhost">>
    ELSE IF UrlAt(i) = {} THEN args[i + 1] ELSE (CHOOSE u \in UrlAt(i) : TRUE).host

PortAt(i) ==
    IF i = 0 THEN "1883"
    ELSE IF UrlAt(i) = {} THEN args[i + 1][1] ELSE (CHOOSE u \in UrlAt(i) : TRUE).port

TextsNamed(o, n) ==
    \A option \in DOMAIN TextField :
        o[TextField[option]]
            = ValueOf(Below(Naming({option}), n), Defaults[TextField[option]])

BaudNamed(o, n) == o.baud_rate = ValueOf(Below(Naming({"--baud"}), n), <<"9600">>)[1]

FlagsNamed(o, n) ==
    \A flag \in DOMAIN FlagField :
        o[FlagField[flag]] <=> Below(FlagsFor(FlagField[flag]), n) # {}

HostNamed(o, n) == o.mqtt_host = HostAt(Max(Below(Naming({"--mqtt-host"}), n) \cup {0}))
PortNamed(o, n) == o.mqtt_port = PortAt(Max(Below(NamingPort, n) \cup {0}))

Named(o, n) ==
    TextsNamed(o, n) /\ BaudNamed(o, n) /\ FlagsNamed(o, n) /\ HostNamed(o, n) /\ PortNamed(o, n)

\* A place behind all others is the last.
LEMMA LastPlace ==
    ASSUME ParserPlace, NEW S \in SUBSET (1 .. Len(args))
    PROVE  /\ Max(Below(S, at) \cup {at}) = at
           /\ Max(Below(S, at) \cup {at} \cup {0}) = at
<1>1. at \in Nat
  BY PlaceTyped
<1>2. \A k \in S : k \in Nat
  BY PlaceTyped
<1> DEFINE A == Below(S, at) \cup {at}
           B == A \cup {0}
<1>3. A \in SUBSET Int /\ at \in A /\ \A k \in A : k <= at
  <2>1. at \in A /\ \A k \in A : k = at \/ (k \in S /\ k < at)
    BY DEF Below
  <2> HIDE DEF A
  <2>2. \A k \in A : k \in Int /\ k <= at
    BY <1>1, <1>2, <2>1
  <2>. QED
    BY <2>1, <2>2
<1>4. B \in SUBSET Int /\ at \in B /\ \A k \in B : k <= at
  BY <1>1, <1>3
<1> HIDE DEF A, B
<1>5. Max(A) = at /\ Max(B) = at
  BY <1>3, <1>4, MaxIs
<1>. QED
  BY <1>5 DEF A, B

\* Of the places that give the port: --mqtt-port, or a URL with a port.
LEMMA PortPlaces ==
    ASSUME NEW n
    PROVE  Below(NamingPort, n) =
              Below(Naming({"--mqtt-port"}), n)
              \cup {i \in Below(Naming({"--mqtt-host"}), n) : \E u \in UrlAt(i) : u.port # ""}
BY DEF NamingPort, Below

LEMMA InitNamed ==
    ASSUME ParserPlace, ParseInit
    PROVE  AtOption /\ Named(opts, at)
<1>1. at = 1 /\ opts = Defaults
  BY DEF ParseInit
<1>2. AtOption
  <2>1. 1 <= Len(args) => IsOption[1] = OptionStep(IsOption, 1)
    BY PlaceTyped, IsOptionUnfolds
  <2>. QED
    BY <1>1, <2>1 DEF AtOption, OptionStep
<1>3. ASSUME NEW S \in SUBSET (1 .. Len(args))
      PROVE  Below(S, 1) = {}
  <2>1. \A k \in S : k \in Nat /\ ~(k < 1)
    BY PlaceTyped
  <2>. QED
    BY <2>1 DEF Below
<1>4. (\A O : Below(Naming(O), 1) = {}) /\ \A field : Below(FlagsFor(field), 1) = {}
  BY <1>3, PlacesTyped
<1>5. Below(NamingPort, 1) = {}
  BY <1>4, PortPlaces
<1>6. Max({} \cup {0}) = 0
  <2>1. {} \cup {0} \in SUBSET Int /\ 0 \in {} \cup {0} /\ \A k \in {} \cup {0} : k <= 0
    OBVIOUS
  <2>. QED
    BY <2>1, MaxIs
<1>7. TextsNamed(Defaults, 1)
  BY <1>4 DEF TextsNamed, ValueOf
<1>8. BaudNamed(Defaults, 1)
  BY <1>4 DEF BaudNamed, ValueOf, Defaults
<1>9. FlagsNamed(Defaults, 1)
  <2>1. ASSUME NEW flag \in DOMAIN FlagField PROVE ~Defaults[FlagField[flag]]
    <3>1. FlagField[flag] \in {"activate", "dump_params", "show_help"}
      BY Tables
    <3>2. /\ Defaults["activate"] = FALSE /\ Defaults["dump_params"] = FALSE
          /\ Defaults["show_help"] = FALSE
      BY DEF Defaults
    <3>. QED
      BY <3>1, <3>2
  <2>. QED
    BY <1>4, <2>1 DEF FlagsNamed
<1>10. HostNamed(Defaults, 1) /\ PortNamed(Defaults, 1)
  BY <1>4, <1>5, <1>6 DEF HostNamed, PortNamed, HostAt, PortAt, Defaults
<1>. QED
  BY <1>1, <1>2, <1>7, <1>8, <1>9, <1>10 DEF Named

\* The fields that a flag sets are no others'.
LEMMA OtherNamed ==
    ASSUME ParserPlace, AtOption, Named(opts, at), ParseOther
    PROVE  Named(opts', at + 1)
<1> DEFINE name == Name(args[at])
<1>1. /\ \A O \in SUBSET Valued : Below(Naming(O), at + 1) = Below(Naming(O), at)
      /\ \A field : Below(FlagsFor(field), at + 1) =
                       IF at \in FlagsFor(field) THEN Below(FlagsFor(field), at) \cup {at}
                       ELSE Below(FlagsFor(field), at)
  BY OtherPassed
<1>2. \A field : at \in FlagsFor(field) <=> name \in DOMAIN FlagField /\ FlagField[name] = field
  <2>1. at \in DOMAIN args /\ IsOption[at]
    BY PlaceTyped DEF ParseOther, AtOption
  <2>. QED
    BY <2>1 DEF FlagsFor
<1>3. opts' = Flagged(opts, name)
  BY DEF ParseOther
<1> HIDE DEF name
<1>4. Kept(opts', opts, {"activate", "dump_params", "show_help"})
  <2>1. name \in DOMAIN FlagField => FlagField[name] \in {"activate", "dump_params", "show_help"}
    BY Tables
  <2>. QED
    BY <1>3, <2>1 DEF Flagged, Kept, ParserPlace
<1>5. TextsNamed(opts', at + 1)
  <2> SUFFICES ASSUME NEW option \in DOMAIN TextField
               PROVE  opts'[TextField[option]]
                         = ValueOf(Below(Naming({option}), at + 1), Defaults[TextField[option]])
    BY DEF TextsNamed
  <2>1. opts'[TextField[option]] = opts[TextField[option]]
    BY <1>4, Tables, Fields DEF Kept
  <2>2. Below(Naming({option}), at + 1) = Below(Naming({option}), at)
    BY <1>1, Tables
  <2>. QED
    BY <2>1, <2>2 DEF Named, TextsNamed
<1>6. opts'.baud_rate = opts.baud_rate /\ opts'.mqtt_host = opts.mqtt_host
      /\ opts'.mqtt_port = opts.mqtt_port
  BY <1>4, Fields DEF Kept
<1>7. Below(Naming({"--baud"}), at + 1) = Below(Naming({"--baud"}), at)
      /\ Below(Naming({"--mqtt-host"}), at + 1) = Below(Naming({"--mqtt-host"}), at)
      /\ Below(Naming({"--mqtt-port"}), at + 1) = Below(Naming({"--mqtt-port"}), at)
  BY <1>1, Tables
<1>8. Below(NamingPort, at + 1) = Below(NamingPort, at)
  BY <1>7, PortPlaces
<1>9. BaudNamed(opts', at + 1) /\ HostNamed(opts', at + 1) /\ PortNamed(opts', at + 1)
  BY <1>6, <1>7, <1>8 DEF Named, BaudNamed, HostNamed, PortNamed
<1>10. FlagsNamed(opts', at + 1)
  <2> SUFFICES ASSUME NEW flag \in DOMAIN FlagField
               PROVE  opts'[FlagField[flag]] <=> Below(FlagsFor(FlagField[flag]), at + 1) # {}
    BY DEF FlagsNamed
  <2> DEFINE field == FlagField[flag]
  <2>1. opts[field] <=> Below(FlagsFor(field), at) # {}
    BY DEF Named, FlagsNamed
  <2>2. field \in DOMAIN opts
    BY Tables, Fields DEF ParserPlace
  <2> HIDE DEF field
  <2>3. CASE name \in DOMAIN FlagField /\ FlagField[name] = field
    <3>1. opts'[field] = TRUE
      BY <1>3, <2>2, <2>3 DEF Flagged
    <3>2. Below(FlagsFor(field), at + 1) # {}
      BY <1>1, <1>2, <2>3
    <3>. QED
      BY <3>1, <3>2 DEF field
  <2>4. CASE ~(name \in DOMAIN FlagField /\ FlagField[name] = field)
    <3>1. opts'[field] = opts[field]
      BY <1>3, <2>2, <2>4 DEF Flagged
    <3>2. Below(FlagsFor(field), at + 1) = Below(FlagsFor(field), at)
      BY <1>1, <1>2, <2>4
    <3>. QED
      BY <2>1, <3>1, <3>2 DEF field
  <2>. QED
    BY <2>3, <2>4
<1>. QED
  BY <1>5, <1>9, <1>10 DEF Named

\* The URL of an option is the one that stands behind it.
LEMMA UrlBehind ==
    ASSUME ParserPlace, NEW i \in 1 .. Len(args) - 1, Name(args[i]) = "--mqtt-host",
           NEW o, DOMAIN o = DOMAIN Defaults,
           NEW r \in Assigned(o, "--mqtt-host", args[i + 1])
    PROVE  /\ r.mqtt_host = HostAt(i)
           /\ r.mqtt_port = IF \E u \in UrlAt(i) : u.port # "" THEN PortAt(i) ELSE o.mqtt_port
<1> DEFINE value == args[i + 1]
           u == CHOOSE u \in UrlAt(i) : TRUE
<1>1. i # 0 /\ i + 1 \in 1 .. Len(args) /\ DOMAIN args = 1 .. Len(args)
  BY PlaceTyped
<1>2. UrlAt(i) = {url \in Urls : url.text = value}
  BY DEF UrlAt
<1>3. HostFields(r, o, value)
  <2>1. r \in Assigned(o, "--mqtt-host", value)
    OBVIOUS
  <2> HIDE DEF value
  <2>. QED
    BY <2>1, HostAssigned
<1>4. CASE UrlAt(i) = {}
  <2>1. value = <<>> \/ value[1] # "mqtt://"
    <3>1. value # <<>> /\ value[1] = "mqtt://" => \E url \in Urls : url.text = value
      BY <1>1, CommandLineAssumption, Zenon DEF ParserPlace
    <3>. QED
      BY <1>2, <1>4, <3>1
  <2>2. r.mqtt_host = value /\ r.mqtt_port = o.mqtt_port
    BY <1>3, <2>1 DEF HostFields
  <2>. QED
    BY <1>1, <1>4, <2>2 DEF HostAt
<1>5. CASE UrlAt(i) # {}
  <2>1. u \in Urls /\ u.text = value
    <3>1. u \in UrlAt(i)
      BY <1>5
    <3> HIDE DEF u
    <3>. QED
      BY <1>2, <3>1
  <2>2. HostAt(i) = u.host /\ PortAt(i) = u.port
    BY <1>1, <1>5 DEF HostAt, PortAt
  <2> HIDE DEF u
  <2>3. /\ r.mqtt_host = u.host
        /\ r.mqtt_port = IF u.port = "" THEN o.mqtt_port ELSE u.port
    BY <1>3, <2>1 DEF HostFields
  <2>4. (\E url \in UrlAt(i) : url.port # "") <=> u.port # ""
    BY <1>2, <2>1, UrlPort
  <2>. QED
    BY <2>2, <2>3, <2>4
<1>. QED
  BY <1>4, <1>5

LEMMA ValuedNamed ==
    ASSUME ParserPlace, AtOption, Named(opts, at), ParseValued, ~threw'
    PROVE  Named(opts', at + 2)
<1> DEFINE name == Name(args[at])
           value == args[at + 1]
<1>1. /\ \A O : Below(Naming(O), at + 2) =
                   IF name \in O THEN Below(Naming(O), at) \cup {at} ELSE Below(Naming(O), at)
      /\ \A field : Below(FlagsFor(field), at + 2) = Below(FlagsFor(field), at)
  BY ValuedPassed
<1>2. at \in 1 .. Len(args) - 1 /\ at # 0 /\ name \in Valued
  BY PlaceTyped DEF ParseValued, TakesValue
<1>3. opts' \in Assigned(opts, name, value) /\ DOMAIN opts = DOMAIN Defaults
  BY DEF ParseValued, ParserPlace
<1> HIDE DEF name, value
<1>4. \A O : Naming(O) \in SUBSET (1 .. Len(args))
  BY PlacesTyped
<1>5. \A O : name \in O => ValueOf(Below(Naming(O), at) \cup {at}, <<>>) = value
  BY <1>4, LastPlace DEF ValueOf, value
<1>6. ASSUME NEW O, NEW default
      PROVE  ValueOf(Below(Naming(O), at + 2), default)
                = IF name \in O THEN value ELSE ValueOf(Below(Naming(O), at), default)
  <2>1. Below(Naming(O), at) \cup {at} # {}
    OBVIOUS
  <2>. QED
    BY <1>1, <1>5, <2>1 DEF ValueOf
<1>7. /\ name \in DOMAIN TextField =>
            opts'[TextField[name]] = value /\ Kept(opts', opts, {TextField[name]})
      /\ name \in DOMAIN NumberField =>
            opts'[NumberField[name]] = value[1] /\ Kept(opts', opts, {NumberField[name]})
      /\ name = "--mqtt-host" => Kept(opts', opts, {"mqtt_host", "mqtt_port"})
  BY <1>3, TextAssigned, NumberAssigned, HostAssigned
<1>8. TextsNamed(opts', at + 2)
  <2> SUFFICES ASSUME NEW option \in DOMAIN TextField
               PROVE  opts'[TextField[option]] =
                         ValueOf(Below(Naming({option}), at + 2), Defaults[TextField[option]])
    BY DEF TextsNamed
  <2>1. CASE name = option
    BY <1>6, <1>7, <2>1
  <2>2. CASE name # option
    <3>1. opts'[TextField[option]] = opts[TextField[option]]
      BY <1>2, <1>7, <2>2, Tables, Fields DEF Kept
    <3>2. opts[TextField[option]]
             = ValueOf(Below(Naming({option}), at), Defaults[TextField[option]])
      BY DEF Named, TextsNamed
    <3>. QED
      BY <1>6, <2>2, <3>1, <3>2
  <2>. QED
    BY <2>1, <2>2
<1>9. BaudNamed(opts', at + 2)
  <2>1. CASE name = "--baud"
    BY <1>6, <1>7, <2>1, Tables DEF BaudNamed
  <2>2. CASE name # "--baud"
    <3>1. opts'.baud_rate = opts.baud_rate
      BY <1>2, <1>7, <2>2, Tables, Fields DEF Kept
    <3>. QED
      BY <1>6, <2>2, <3>1 DEF Named, BaudNamed
  <2>. QED
    BY <2>1, <2>2
<1>10. FlagsNamed(opts', at + 2)
  <2> SUFFICES ASSUME NEW flag \in DOMAIN FlagField
               PROVE  opts'[FlagField[flag]] <=> Below(FlagsFor(FlagField[flag]), at + 2) # {}
    BY DEF FlagsNamed
  <2>1. opts'[FlagField[flag]] = opts[FlagField[flag]]
    BY <1>2, <1>7, Tables, Fields DEF Kept
  <2>. QED
    BY <1>1, <2>1 DEF Named, FlagsNamed
<1>11. HostNamed(opts', at + 2)
  <2>1. CASE name = "--mqtt-host"
    <3>1. Max(Below(Naming({"--mqtt-host"}), at + 2) \cup {0}) = at
      <4>1. Below(Naming({"--mqtt-host"}), at + 2) = Below(Naming({"--mqtt-host"}), at) \cup {at}
        BY <1>1, <2>1
      <4>. QED
        BY <1>4, <4>1, LastPlace
    <3>2. opts'.mqtt_host = HostAt(at)
      BY <1>2, <1>3, <2>1, UrlBehind DEF name, value
    <3>. QED
      BY <3>1, <3>2 DEF HostNamed
  <2>2. CASE name # "--mqtt-host"
    <3>1. opts'.mqtt_host = opts.mqtt_host
      BY <1>2, <1>7, <2>2, Tables, Fields DEF Kept
    <3>2. Below(Naming({"--mqtt-host"}), at + 2) = Below(Naming({"--mqtt-host"}), at)
      BY <1>1, <2>2
    <3>. QED
      BY <3>1, <3>2 DEF Named, HostNamed
  <2>. QED
    BY <2>1, <2>2
<1>12. PortNamed(opts', at + 2)
  <2> DEFINE Ported(S) == {i \in S : \E u \in UrlAt(i) : u.port # ""}
             H == Below(Naming({"--mqtt-host"}), at)
             P == Below(Naming({"--mqtt-port"}), at)
  <2>1. Below(NamingPort, at) = P \cup Ported(H)
    BY PortPlaces
  <2>2. Below(NamingPort, at + 2) = Below(Naming({"--mqtt-port"}), at + 2)
                                       \cup Ported(Below(Naming({"--mqtt-host"}), at + 2))
    BY PortPlaces
  <2>3. opts.mqtt_port = PortAt(Max(Below(NamingPort, at) \cup {0}))
    BY DEF Named, PortNamed
  <2>4. NamingPort \in SUBSET (1 .. Len(args))
    BY <1>4 DEF NamingPort
  <2>5. CASE name = "--mqtt-port"
    <3>1. Below(NamingPort, at + 2) = Below(NamingPort, at) \cup {at}
      BY <1>1, <2>1, <2>2, <2>5
    <3>2. Max(Below(NamingPort, at + 2) \cup {0}) = at
      BY <2>4, <3>1, LastPlace
    <3>3. UrlAt(at) = {}
      BY <2>5 DEF UrlAt, name
    <3>4. opts'.mqtt_port = value[1]
      BY <1>7, <2>5, Tables
    <3>. QED
      BY <1>2, <3>2, <3>3, <3>4 DEF PortNamed, PortAt, value
  <2>6. CASE name = "--mqtt-host"
    <3>1. opts'.mqtt_port =
              IF \E u \in UrlAt(at) : u.port # "" THEN PortAt(at) ELSE opts.mqtt_port
      BY <1>2, <1>3, <2>6, UrlBehind DEF name, value
    <3>2. Below(NamingPort, at + 2) = P \cup Ported(H \cup {at})
      BY <1>1, <2>2, <2>6
    <3>3. CASE \E u \in UrlAt(at) : u.port # ""
      <4>1. Ported(H \cup {at}) = Ported(H) \cup {at}
        BY <3>3
      <4>2. Below(NamingPort, at + 2) = Below(NamingPort, at) \cup {at}
        BY <2>1, <3>2, <4>1
      <4>3. Max(Below(NamingPort, at + 2) \cup {0}) = at
        BY <2>4, <4>2, LastPlace
      <4>. QED
        BY <3>1, <3>3, <4>3 DEF PortNamed
    <3>4. CASE ~\E u \in UrlAt(at) : u.port # ""
      <4>1. Ported(H \cup {at}) = Ported(H)
        BY <3>4
      <4>. QED
        BY <2>1, <2>3, <3>1, <3>2, <3>4, <4>1 DEF PortNamed
    <3>. QED
      BY <3>3, <3>4
  <2>7. CASE name \notin {"--mqtt-host", "--mqtt-port"}
    <3>1. opts'.mqtt_port = opts.mqtt_port
      BY <1>2, <1>7, <2>7, Tables, Fields DEF Kept
    <3>2. Below(NamingPort, at + 2) = Below(NamingPort, at)
      BY <1>1, <2>1, <2>2, <2>7
    <3>. QED
      BY <2>3, <3>1, <3>2 DEF PortNamed
  <2>. QED
    BY <2>5, <2>6, <2>7
<1>. QED
  BY <1>8, <1>9, <1>10, <1>11, <1>12 DEF Named

NamedInv == AtOption /\ (~threw => Named(opts, at))

\* IsOption of any argument list.
OptionsOf(list) ==
    LET f[i \in DOMAIN list] == i = 1 \/ ~(f[i - 1] /\ Name(list[i - 1]) \in Valued) IN f

\* argv does not change, nor what stands in it.
LEMMA ArgsKept ==
    ASSUME args' = args
    PROVE  /\ AtOption' <=> (at' <= Len(args) => IsOption[at'])
           /\ Named(opts, at)' <=> Named(opts', at')
<1>1. IsOption' = IsOption
  <2>1. IsOption = OptionsOf(args)
    BY Zenon DEF IsOption, OptionsOf
  <2>2. IsOption' = OptionsOf(args')
    BY Zenon DEF IsOption, OptionsOf
  <2>. QED
    BY <2>1, <2>2
<1>2. AtOption' <=> (at' <= Len(args) => IsOption[at'])
  BY <1>1, Zenon DEF AtOption
<1>3. \A O : Naming(O)' = Naming(O)
  BY <1>1, Zenon DEF Naming
<1>4. \A field : FlagsFor(field)' = FlagsFor(field)
  BY <1>1, Zenon DEF FlagsFor
<1>5. NamingPort' = NamingPort
  BY <1>1, Zenon DEF NamingPort, Naming, UrlAt
<1>6. TextsNamed(opts, at)' <=> TextsNamed(opts', at')
  BY <1>1, ZenonT(60) DEF TextsNamed, ValueOf, Below, Naming
<1>7. BaudNamed(opts, at)' <=> BaudNamed(opts', at')
  BY <1>1, Zenon DEF BaudNamed, ValueOf, Below, Naming
<1>8. FlagsNamed(opts, at)' <=> FlagsNamed(opts', at')
  BY <1>1, Zenon DEF FlagsNamed, Below, FlagsFor
<1>9. HostNamed(opts, at)' <=> HostNamed(opts', at')
  BY <1>1, Zenon DEF HostNamed, HostAt, UrlAt, Below, Naming
<1>10. PortNamed(opts, at)' <=> PortNamed(opts', at')
  <2>1. Below(NamingPort, at)' = Below(NamingPort, at')
    BY <1>5, Zenon DEF Below
  <2>2. \A i : PortAt(i)' = PortAt(i)
    <3>1. \A i : UrlAt(i)' = UrlAt(i)
      BY Zenon DEF UrlAt
    <3>. QED
      <4> TAKE i
      <4>1. (CHOOSE u \in UrlAt(i) : TRUE)' = (CHOOSE u \in UrlAt(i) : TRUE)
        BY Zenon DEF UrlAt
      <4>2. CASE i = 0
        BY <4>2 DEF PortAt
      <4>3. CASE i # 0 /\ UrlAt(i) = {}
        BY <3>1, <4>3, Zenon DEF PortAt
      <4>4. CASE i # 0 /\ UrlAt(i) # {}
        BY <3>1, <4>1, <4>4, Zenon DEF PortAt
      <4>. QED
        BY <4>2, <4>3, <4>4
  <2>. QED
    BY <2>1, <2>2, Zenon DEF PortNamed
<1>. QED
  BY <1>2, <1>6, <1>7, <1>8, <1>9, <1>10, Zenon DEF Named

LEMMA NamedInvariance == Spec => []NamedInv
<1>1. Init => NamedInv
  BY InitPlace, InitNamed DEF Init, PlaceInv, NamedInv
<1>2. PlaceInv /\ NamedInv /\ [Next]_vars => NamedInv'
  <2> SUFFICES ASSUME PlaceInv, NamedInv, [Next]_vars PROVE NamedInv'
    OBVIOUS
  <2>1. CASE Parse
    <3>1. args' = args /\ ~threw
      BY <2>1 DEF Parse, ParseOther, ParseValued
    <3>2. AtOption /\ Named(opts, at) /\ ParserPlace
      BY <3>1 DEF NamedInv, PlaceInv
    <3>3. CASE ParseOther
      <4>1. at' = at + 1
        BY <3>3 DEF ParseOther
      <4>. QED
        BY <3>1, <3>2, <3>3, <4>1, OtherPassed, OtherNamed, ArgsKept DEF NamedInv
    <3>4. CASE ParseValued
      <4>1. at' = at + 2
        BY <3>4 DEF ParseValued
      <4>. QED
        BY <3>1, <3>2, <3>4, <4>1, ValuedPassed, ValuedNamed, ArgsKept DEF NamedInv
    <3>. QED
      BY <2>1, <3>3, <3>4 DEF Parse
  <2>2. CASE UNCHANGED cli
    <3>1. args' = args /\ at' = at /\ opts' = opts /\ threw' = threw
      BY <2>2 DEF cli
    <3>2. AtOption' <=> AtOption
      BY <3>1, ArgsKept DEF AtOption
    <3>3. Named(opts, at)' <=> Named(opts, at)
      BY <3>1, ArgsKept
    <3>. QED
      BY <3>1, <3>2, <3>3 DEF NamedInv
  <2>. QED
    BY <2>1, <2>2
    DEF Next, Process, Help, Dispatch, SerialOpen, Open, OpenFails, AttrFails, GetAttr,
        Unsupported, ToSpeed, SetAttr, Done, CommandFails, Leave, SessionBreaks, Signal, vars
<1>. QED
  BY <1>1, <1>2, PlaceInvariance, PTL DEF Spec

\* Whatever the length of the command line, the order of the options on it and
\* what their values look like: every option has the value it was last given.
THEOREM OptionsNamed == Spec => []OptionsAsNamed
<1>1. PlaceInv /\ NamedInv => OptionsAsNamed
  <2> SUFFICES ASSUME PlaceInv, NamedInv, Parsed PROVE OptionsAsNamed
    BY DEF OptionsAsNamed
  <2>1. ParserPlace /\ Named(opts, at)
    BY DEF PlaceInv, NamedInv, Parsed
  <2>2. ASSUME NEW S \in SUBSET (1 .. Len(args)) PROVE Below(S, at) = S
    <3>1. \A k \in S : k < at
      BY <2>1, PlaceTyped DEF Parsed
    <3>. QED
      BY <3>1 DEF Below
  <2>3. (\A O : Below(Naming(O), at) = Naming(O))
        /\ (\A field : Below(FlagsFor(field), at) = FlagsFor(field))
        /\ Below(NamingPort, at) = NamingPort
    <3>1. NamingPort \in SUBSET (1 .. Len(args))
      BY <2>1, PlacesTyped DEF NamingPort
    <3>. QED
      BY <2>1, <2>2, <3>1, PlacesTyped
  <2>4. \A option \in DOMAIN TextField :
            opts[TextField[option]] = LastValue({option}, Defaults[TextField[option]])
    BY <2>1, <2>3 DEF Named, TextsNamed, ValueOf, LastValue
  <2>5. opts.baud_rate = LastValue({"--baud"}, <<"9600">>)[1]
    BY <2>1, <2>3 DEF Named, BaudNamed, ValueOf, LastValue
  <2>6. \A flag \in DOMAIN FlagField :
            opts[FlagField[flag]] <=>
                \E i \in DOMAIN args :
                    IsOption[i] /\ Name(args[i]) \in DOMAIN FlagField
                    /\ FlagField[Name(args[i])] = FlagField[flag]
    BY <2>1, <2>3 DEF Named, FlagsNamed, FlagsFor
  <2>7. opts.mqtt_host = HostAt(Max(Naming({"--mqtt-host"}) \cup {0}))
    BY <2>1, <2>3 DEF Named, HostNamed
  <2>8. opts.mqtt_port = PortAt(Max(NamingPort \cup {0}))
    BY <2>1, <2>3 DEF Named, PortNamed
  <2>. QED
    BY <2>4, <2>5, <2>6, <2>7, <2>8, Zenon DEF OptionsAsNamed, HostAt, PortAt
<1>. QED
  BY <1>1, PlaceInvariance, NamedInvariance, PTL

-----------------------------------------------------------------------------
(***************************************************************************)
(* The C# parser, beside this one.                                         *)
(***************************************************************************)
\* What AgreesWithCSharp asks of the command line.
Plain ==
    /\ \A i \in 1 .. Len(args) - 1 :
          Name(args[i]) \in DOMAIN NumberField => TryParse(args[i + 1])
    /\ \A i \in DOMAIN args, u \in Urls : u.text # args[i]

\* Below place n, nothing but a default of its own tells one's options from the
\* other's.
Aligned(o, cs, n) ==
    /\ DOMAIN cs = DOMAIN Defaults
    /\ \A field \in DOMAIN Defaults :
          \/ o[field] = cs[field]
          \/ \E option \in OwnDefault :
                field = TextField[option] /\ Below(Naming({option}), n) = {}

\* Between two arguments the C# parser has come as far as this one, and waits
\* for a value only when there is none to come.
InStepWithCSharp ==
    Plain /\ ~threw =>
        /\ Aligned(opts, CsAfter(args)[at - 1].opts, at)
        /\ at <= Len(args) => CsAfter(args)[at - 1].option = ""

\* What either parser does with an option and its value: field becomes v.
BothAssign(option, value, field, v) ==
    /\ option \in OwnDefault => field = TextField[option]
    /\ \A o : Assigned(o, option, value) = {[o EXCEPT ![field] = v]}
    /\ \A cs : CsArgument([option |-> option, opts |-> cs], value)
                  = [option |-> "", opts |-> [cs EXCEPT ![field] = v]]

\* Both assign the same value to the same field.
LEMMA SameAssignment ==
    ASSUME NEW option \in Valued, NEW value \in Seq(STRING),
           option \in DOMAIN NumberField => TryParse(value),
           value # <<>> => value[1] # "mqtt://"
    PROVE  \E field \in DOMAIN Defaults : \E v : BothAssign(option, value, field, v)
<1>1. CASE option \in DOMAIN TextField
  <2>1. TextField[option] \in DOMAIN Defaults /\ option # "--mqtt-host"
    BY <1>1, Tables, Fields
  <2>2. \A o : Assigned(o, option, value) = {[o EXCEPT ![TextField[option]] = value]}
    BY <1>1 DEF Assigned
  <2>3. \A cs : CsArgument([option |-> option, opts |-> cs], value)
                   = [option |-> "", opts |-> [cs EXCEPT ![TextField[option]] = value]]
    BY <1>1, <2>1 DEF CsArgument
  <2>4. BothAssign(option, value, TextField[option], value)
    BY <2>2, <2>3 DEF BothAssign
  <2>. QED
    BY <2>1, <2>4
<1>2. CASE option \in DOMAIN NumberField
  <2>1. Stoi(value) = {value[1]} /\ TryParse(value)
    <3>1. Len(value) = 1 /\ value[1] \in Numbers
      BY <1>2 DEF TryParse
    <3>2. value # <<>>
      BY <3>1
    <3>. QED
      BY <3>1, <3>2 DEF Stoi, TryParse
  <2>2. /\ option \notin DOMAIN TextField /\ option # "--mqtt-host" /\ option \notin OwnDefault
        /\ NumberField[option] \in DOMAIN Defaults
    BY <1>2, Tables, Fields DEF OwnDefault
  <2>3. \A o : Assigned(o, option, value) = {[o EXCEPT ![NumberField[option]] = value[1]]}
    BY <1>2, <2>1, <2>2 DEF Assigned
  <2>4. \A cs : CsArgument([option |-> option, opts |-> cs], value)
                   = [option |-> "", opts |-> [cs EXCEPT ![NumberField[option]] = value[1]]]
    BY <1>2, <2>1, <2>2 DEF CsArgument
  <2>5. BothAssign(option, value, NumberField[option], value[1])
    BY <2>2, <2>3, <2>4 DEF BothAssign
  <2>. QED
    BY <2>2, <2>5
<1>3. CASE option = "--mqtt-host"
  <2>1. "mqtt_host" \in DOMAIN Defaults /\ option \notin OwnDefault
    BY <1>3, Fields DEF OwnDefault
  <2>2. \A o : Assigned(o, option, value) = {[o EXCEPT !["mqtt_host"] = value]}
    BY <1>3, Tables DEF Assigned, ApplyMqttHostArg
  <2>3. \A cs : CsArgument([option |-> option, opts |-> cs], value)
                   = [option |-> "", opts |-> [cs EXCEPT !["mqtt_host"] = value]]
    BY <1>3, Tables DEF CsArgument
  <2>4. BothAssign(option, value, "mqtt_host", value)
    BY <2>1, <2>2, <2>3 DEF BothAssign
  <2>. QED
    BY <2>1, <2>4
<1>. QED
  BY <1>1, <1>2, <1>3, Tables DEF Valued

LEMMA InitInStep == ParserPlace /\ ParseInit => InStepWithCSharp
<1> SUFFICES ASSUME ParserPlace, ParseInit PROVE InStepWithCSharp
  OBVIOUS
<1>1. CsAfter(args)[0] = CsStart
  BY ArgsTyped, CsAfterUnfolds DEF CsStep, ParserPlace
<1>2. at - 1 = 0 /\ at = 1 /\ opts = Defaults
  BY DEF ParseInit
<1>3. CsAfter(args)[at - 1] = CsStart
  BY <1>1, <1>2
<1>4. CsStart.opts = CsDefaults /\ CsStart.option = ""
  BY DEF CsStart
<1>5. /\ DOMAIN CsDefaults = DOMAIN Defaults
      /\ \A field \in DOMAIN Defaults \ {"port_name", "gateway_id"} :
            CsDefaults[field] = Defaults[field]
  BY Fields DEF CsDefaults
<1>6. ASSUME NEW O PROVE Below(Naming(O), at) = {}
  <2>1. Naming(O) \in SUBSET (1 .. Len(args))
    BY PlacesTyped
  <2>2. \A i \in 1 .. Len(args) : ~(i < 1)
    BY PlaceTyped
  <2>. QED
    BY <1>2, <2>1, <2>2 DEF Below
<1>7. ASSUME NEW field \in {"port_name", "gateway_id"}
      PROVE  \E option \in OwnDefault :
                field = TextField[option] /\ Below(Naming({option}), at) = {}
  BY <1>6, Tables DEF OwnDefault
<1>8. Aligned(opts, CsDefaults, at)
  BY <1>2, <1>5, <1>7 DEF Aligned
<1>. QED
  BY <1>3, <1>4, <1>8 DEF InStepWithCSharp

\* argv does not change, nor what stands in it.
LEMMA StillInStep ==
    ASSUME args' = args,
           Plain /\ ~threw' => /\ Aligned(opts', CsAfter(args)[at' - 1].opts, at')
                               /\ at' <= Len(args) => CsAfter(args)[at' - 1].option = ""
    PROVE  InStepWithCSharp'
<1>1. \A O : Naming(O)' = Naming(O)
  <2>1. IsOption' = IsOption
    <3>1. IsOption = OptionsOf(args)
      BY Zenon DEF IsOption, OptionsOf
    <3>2. IsOption' = OptionsOf(args')
      BY Zenon DEF IsOption, OptionsOf
    <3>. QED
      BY <3>1, <3>2
  <2>. QED
    BY <2>1, Zenon DEF Naming
<1>2. Plain' <=> Plain
  BY Zenon DEF Plain
<1>3. CsAfter(args)' = CsAfter(args')
  BY Zenon DEF CsAfter
<1>. QED
  BY <1>1, <1>2, <1>3, Zenon DEF InStepWithCSharp, Aligned, Below

LEMMA OtherInStep ==
    ASSUME ParserPlace, AtOption, InStepWithCSharp, ParseOther
    PROVE  InStepWithCSharp'
<1> DEFINE name == Name(args[at])
           s == CsAfter(args)[at - 1]
<1>0. UNCHANGED <<args, threw>> /\ at' = at + 1 /\ at' - 1 = at
  <2>1. UNCHANGED <<args, threw>> /\ at' = at + 1
    BY DEF ParseOther
  <2>2. at \in Nat
    BY PlaceTyped
  <2>. QED
    BY <2>1, <2>2
<1> SUFFICES ASSUME Plain, ~threw
             PROVE  /\ Aligned(opts', CsAfter(args)[at].opts, at + 1)
                    /\ at + 1 <= Len(args) => CsAfter(args)[at].option = ""
  BY <1>0, StillInStep
<1>1. at \in 1 .. Len(args) /\ at \in 0 .. Len(args) /\ at # 0
  BY ArgsTyped DEF ParseOther, ParserPlace
<1>2. Aligned(opts, s.opts, at) /\ s.option = ""
  <2>1. at <= Len(args)
    BY DEF ParseOther
  <2>. QED
    BY <2>1 DEF InStepWithCSharp
<1>3. CsAfter(args)[at] = CsArgument(s, args[at])
  BY <1>1, ArgsTyped, CsAfterUnfolds DEF CsStep, ParserPlace
<1>4. opts' = Flagged(opts, name) /\ (name \in Valued => ~(at < Len(args)))
  BY DEF ParseOther, TakesValue
<1>5. \A option \in OwnDefault :
          Below(Naming({option}), at + 1) = Below(Naming({option}), at)
  BY OtherPassed, Tables DEF OwnDefault
<1> HIDE DEF s, name
<1> DEFINE cs == s.opts
<1>6. CsArgument(s, args[at]) = IF name \in Valued THEN [option |-> name, opts |-> cs]
                                ELSE [option |-> "", opts |-> Flagged(cs, name)]
  BY <1>2, Tables DEF CsArgument, name
<1>7. name \in Valued => Flagged(opts, name) = opts
  BY Tables DEF Flagged
<1>8. at + 1 <= Len(args) => at < Len(args)
  BY PlaceTyped
<1>9. CASE name \in Valued
  <2>1. CsAfter(args)[at].opts = cs /\ opts' = opts /\ ~(at + 1 <= Len(args))
    BY <1>3, <1>4, <1>6, <1>7, <1>8, <1>9
  <2>. QED
    BY <1>2, <1>5, <2>1 DEF Aligned
<1>10. CASE name \notin Valued
  <2>1. CsAfter(args)[at].opts = Flagged(cs, name) /\ CsAfter(args)[at].option = ""
    <3>1. /\ [option |-> "", opts |-> Flagged(cs, name)].opts = Flagged(cs, name)
          /\ [option |-> "", opts |-> Flagged(cs, name)].option = ""
      OBVIOUS
    <3>2. CsAfter(args)[at] = [option |-> "", opts |-> Flagged(cs, name)]
      BY <1>3, <1>6, <1>10
    <3>. QED
      BY <3>1, <3>2, Zenon
  <2>2. DOMAIN opts = DOMAIN Defaults /\ DOMAIN cs = DOMAIN Defaults
    BY <1>2 DEF ParserPlace, Aligned
  <2> HIDE DEF cs
  <2>3. DOMAIN Flagged(cs, name) = DOMAIN Defaults
    BY <2>2 DEF Flagged
  <2>4. ASSUME NEW field \in DOMAIN Defaults
        PROVE  \/ Flagged(opts, name)[field] = opts[field] /\ Flagged(cs, name)[field] = cs[field]
               \/ Flagged(opts, name)[field] = Flagged(cs, name)[field]
    BY <2>2 DEF Flagged
  <2>5. Aligned(opts, cs, at)
    BY <1>2 DEF cs
  <2>6. Aligned(opts', Flagged(cs, name), at + 1)
    BY <1>4, <1>5, <2>3, <2>4, <2>5 DEF Aligned
  <2>. QED
    BY <2>1, <2>6
<1>. QED
  BY <1>9, <1>10

LEMMA ValuedInStep ==
    ASSUME ParserPlace, AtOption, InStepWithCSharp, ParseValued
    PROVE  InStepWithCSharp'
<1> DEFINE name == Name(args[at])
           value == args[at + 1]
           s == CsAfter(args)[at - 1]
           t == CsAfter(args)[at]
<1>0. at \in 1 .. Len(args) - 1 /\ args' = args /\ at' = at + 2 /\ at' - 1 = at + 1
  <2>1. at \in 1 .. Len(args) - 1 /\ args' = args /\ at' = at + 2
    BY ArgsTyped DEF ParseValued, TakesValue, ParserPlace
  <2>2. at \in Nat
    BY PlaceTyped
  <2>. QED
    BY <2>1, <2>2
<1> SUFFICES ASSUME Plain
             PROVE  /\ Aligned(opts', CsAfter(args)[at + 1].opts, at + 2)
                    /\ CsAfter(args)[at + 1].option = ""
  BY <1>0, StillInStep
<1>1. /\ at \in 0 .. Len(args) /\ at + 1 \in 0 .. Len(args) /\ at + 1 \in DOMAIN args
      /\ at <= Len(args) /\ at # 0 /\ at + 1 # 0 /\ (at + 1) - 1 = at
      /\ args \in Seq(Seq(STRING)) /\ value \in Seq(STRING)
  BY <1>0, ArgsTyped DEF ParserPlace
<1>2. Aligned(opts, s.opts, at) /\ s.option = ""
  <2>1. ~threw
    BY DEF ParseValued
  <2>. QED
    BY <1>1, <2>1 DEF InStepWithCSharp
<1>3. t = CsArgument(s, args[at]) /\ CsAfter(args)[at + 1] = CsArgument(t, value)
  BY <1>1, CsAfterUnfolds DEF CsStep
<1>4. name \in Valued
  BY DEF ParseValued, TakesValue
<1>5. name \in DOMAIN NumberField => TryParse(value)
  BY <1>0 DEF Plain
<1>6. value # <<>> => value[1] # "mqtt://"
  <2>1. value # <<>> /\ value[1] = "mqtt://" => \E u \in Urls : u.text = value
    BY <1>1, CommandLineAssumption, Zenon DEF ParserPlace
  <2>. QED
    BY <1>1, <2>1 DEF Plain
<1>7. Assigned(opts, name, value) # {} => opts' \in Assigned(opts, name, value)
  BY DEF ParseValued
<1>8. \A option : Below(Naming({option}), at + 2) = {} =>
          name # option /\ Below(Naming({option}), at) = {}
                        /\ Below(Naming({option}), at + 2) = Below(Naming({option}), at)
  BY ValuedPassed
<1>9. \A option : name # option =>
          Below(Naming({option}), at + 2) = Below(Naming({option}), at)
  BY ValuedPassed
<1> HIDE DEF s, t, name, value
<1> DEFINE cs == s.opts
<1>10. t = [option |-> name, opts |-> cs]
  BY <1>2, <1>3, <1>4, Tables DEF CsArgument, name
<1>11. value \in Seq(STRING)
  BY <1>1
<1>12. PICK field \in DOMAIN Defaults : \E v : BothAssign(name, value, field, v)
  BY <1>4, <1>5, <1>6, <1>11, SameAssignment
<1>13. PICK v : BothAssign(name, value, field, v)
  BY <1>12
<1>14. /\ opts' = [opts EXCEPT ![field] = v]
       /\ CsAfter(args)[at + 1] = [option |-> "", opts |-> [cs EXCEPT ![field] = v]]
  <2>1. opts' = [opts EXCEPT ![field] = v]
    BY <1>7, <1>13 DEF BothAssign
  <2>. QED
    BY <1>3, <1>10, <1>13, <2>1 DEF BothAssign
<1>15. DOMAIN opts = DOMAIN Defaults /\ Aligned(opts, cs, at)
  BY <1>2 DEF ParserPlace
<1> HIDE DEF cs
<1>16. Aligned(opts', [cs EXCEPT ![field] = v], at + 2)
  <2>1. DOMAIN cs = DOMAIN Defaults
    BY <1>15 DEF Aligned
  <2>2. ASSUME NEW f \in DOMAIN Defaults, f # field, opts[f] # cs[f]
        PROVE  \E option \in OwnDefault :
                  f = TextField[option] /\ Below(Naming({option}), at + 2) = {}
    <3>1. PICK option \in OwnDefault :
              f = TextField[option] /\ Below(Naming({option}), at) = {}
      BY <1>15, <2>2 DEF Aligned
    <3>2. name # option
      BY <1>13, <2>2, <3>1 DEF BothAssign
    <3>. QED
      BY <1>9, <3>1, <3>2
  <2>. QED
    BY <1>14, <1>15, <2>1, <2>2 DEF Aligned
<1>17. \A c : [option |-> "", opts |-> c].opts = c /\ [option |-> "", opts |-> c].option = ""
  OBVIOUS
<1>. QED
  BY <1>14, <1>16, <1>17, Zenon

LEMMA CSharpInvariance == Spec => []InStepWithCSharp
<1>1. Init => InStepWithCSharp
  BY InitPlace, InitInStep DEF Init, PlaceInv
<1>2. PlaceInv /\ NamedInv /\ InStepWithCSharp /\ [Next]_vars => InStepWithCSharp'
  <2> SUFFICES ASSUME PlaceInv, NamedInv, InStepWithCSharp, [Next]_vars
               PROVE  InStepWithCSharp'
    OBVIOUS
  <2>1. CASE Parse
    BY <2>1, OtherInStep, ValuedInStep DEF Parse, PlaceInv, NamedInv
  <2>2. CASE UNCHANGED cli
    <3>1. args' = args /\ at' = at /\ opts' = opts /\ threw' = threw
      BY <2>2 DEF cli
    <3>. QED
      BY <3>1, StillInStep DEF InStepWithCSharp
  <2>. QED
    BY <2>1, <2>2
    DEF Next, Process, Help, Dispatch, SerialOpen, Open, OpenFails, AttrFails, GetAttr,
        Unsupported, ToSpeed, SetAttr, Done, CommandFails, Leave, SessionBreaks, Signal, vars
<1>. QED
  BY <1>1, <1>2, PlaceInvariance, NamedInvariance, PTL DEF Spec

\* Whatever the length of the command line: where it has no URLs, and numbers
\* for numbers, the C++ gateway understands it as the C# one does, but for the
\* port and the gateway id where they are not given.
THEOREM UnderstandsLikeCSharp == Spec => []AgreesWithCSharp
<1>1. PlaceInv /\ InStepWithCSharp => AgreesWithCSharp
  <2> SUFFICES ASSUME PlaceInv, InStepWithCSharp, Parsed, Plain
               PROVE  \A field \in DOMAIN Defaults :
                         \/ opts[field] = CsParse(args)[field]
                         \/ \E option \in OwnDefault :
                               field = TextField[option] /\ Naming({option}) = {}
    BY DEF AgreesWithCSharp, Plain
  <2>1. at = Len(args) + 1 /\ at - 1 = Len(args)
    BY ArgsTyped DEF PlaceInv, ParserPlace, Parsed
  <2>2. \A option : Below(Naming({option}), at) = Naming({option})
    <3>1. ParserPlace /\ Len(args) \in Nat
      BY ArgsTyped DEF PlaceInv, ParserPlace
    <3>2. \A option : \A i \in Naming({option}) : i < at
      BY <2>1, <3>1, PlacesTyped
    <3>. QED
      BY <3>2 DEF Below
  <2>3. Aligned(opts, CsParse(args), at)
    BY <2>1 DEF InStepWithCSharp, CsParse, Parsed
  <2>. QED
    BY <2>2, <2>3 DEF Aligned
<1>. QED
  BY <1>1, PlaceInvariance, CSharpInvariance, PTL
=============================================================================
