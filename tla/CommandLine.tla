---------------------------- MODULE CommandLine ----------------------------
(***************************************************************************)
(* RuntimeOptions::parse and apply_mqtt_host_arg (options.h).  An argument *)
(* is a sequence of symbols: an option's name, "mqtt://", ":", "/", a run  *)
(* of digits, or a piece of text.  Beside it stands ArgumentParserService, *)
(* the C# parser it was ported from.                                       *)
(***************************************************************************)
EXTENDS Integers, Sequences, SequencesExt

CONSTANTS Numbers,  \* the symbols that are runs of digits
          Urls,     \* MQTT URLs: their text, the host and the port they name, "" if none
          ArgLists  \* the argument lists to parse

\* mqtt://host, mqtt://host: or mqtt://host:port, and perhaps a path.
IsUrl(url) ==
    /\ url.text \in Seq(STRING) /\ url.host \in Seq(STRING)
    /\ url.port \in STRING \ {":", "/"}
    /\ \A k \in DOMAIN url.host : url.host[k] \notin {":", "/"}
    /\ \E authority \in IF url.port = "" THEN {url.host, Append(url.host, ":")}
                         ELSE {Append(url.host, ":") \o <<url.port>>} :
          LET end == Len(authority) + 1
          IN /\ end <= Len(url.text)
             /\ SubSeq(url.text, 1, end) = <<"mqtt://">> \o authority
             /\ end < Len(url.text) => url.text[end + 1] = "/"

\* Urls has every URL that stands on a command line.
ASSUME CommandLineAssumption ==
    /\ "9600" \in Numbers /\ "1883" \in Numbers /\ "" \notin Numbers
    /\ \A url \in Urls : IsUrl(url)
    /\ \A list \in ArgLists :
          /\ list \in Seq(Seq(STRING))
          /\ \A i \in DOMAIN list :
                list[i] # <<>> /\ list[i][1] = "mqtt://" => \E url \in Urls : url.text = list[i]

VARIABLES args,   \* argv, from argv[1] on
          at,     \* i
          opts,
          threw   \* std::stoi has thrown: nobody catches it

cli == <<args, at, opts, threw>>

TextField ==
    [option \in {"--port", "--gateway-id", "--topic"} |->
        CASE option = "--port" -> "port_name"
          [] option = "--gateway-id" -> "gateway_id"
          [] option = "--topic" -> "mqtt_topic"]
NumberField ==
    [option \in {"--baud", "--mqtt-port"} |->
        IF option = "--baud" THEN "baud_rate" ELSE "mqtt_port"]
FlagField ==
    [option \in {"--activate", "--dump-params", "--help", "-h"} |->
        CASE option = "--activate" -> "activate"
          [] option = "--dump-params" -> "dump_params"
          [] option \in {"--help", "-h"} -> "show_help"]
Valued == DOMAIN TextField \cup DOMAIN NumberField \cup {"--mqtt-host"}

\* On anything but macOS.  The gateway id is what gethostname says.
Defaults ==
    [port_name |-> <<"/dev/ttyUSB0">>, baud_rate |-> "9600", activate |-> FALSE,
     gateway_id |-> <<"hostname">>, mqtt_host |-> <<"localhost">>, mqtt_port |-> "1883",
     mqtt_topic |-> <<"wmbus/raw">>, dump_params |-> FALSE, show_help |-> FALSE]

ParseInit == args \in ArgLists /\ at = 1 /\ opts = Defaults /\ threw = FALSE

-----------------------------------------------------------------------------
(***************************************************************************)
(* Results are sets: empty if std::stoi throws.                            *)
(***************************************************************************)
\* Digits, and whatever follows them is ignored; no digits is an exception.
Stoi(text) == IF text # <<>> /\ text[1] \in Numbers THEN {text[1]} ELSE {}

\* Mutant: the path is not cut off.
PathKept(text) == text

UntilSlash(text) ==
    LET slash == SelectInSeq(text, LAMBDA c : c = "/")
    IN IF slash = 0 THEN text ELSE SubSeq(text, 1, slash - 1)

ApplyMqttHostArg(value, o) ==
    IF value = <<>> \/ value[1] # "mqtt://" THEN {[o EXCEPT !.mqtt_host = value]}
    ELSE LET rest == UntilSlash(Tail(value))
             colon == SelectLastInSeq(rest, LAMBDA c : c = ":")
             host == IF colon = 0 THEN rest ELSE SubSeq(rest, 1, colon - 1)
             port == IF colon = 0 THEN <<>> ELSE SubSeq(rest, colon + 1, Len(rest))
         IN {[o EXCEPT !.mqtt_host = host, !.mqtt_port = n] :
                 n \in IF port = <<>> THEN {o.mqtt_port} ELSE Stoi(port)}

Assigned(o, option, value) ==
    IF option \in DOMAIN TextField THEN {[o EXCEPT ![TextField[option]] = value]}
    ELSE IF option \in DOMAIN NumberField
    THEN {[o EXCEPT ![NumberField[option]] = n] : n \in Stoi(value)}
    ELSE ApplyMqttHostArg(value, o)

Flagged(o, option) ==
    IF option \in DOMAIN FlagField THEN [o EXCEPT ![FlagField[option]] = TRUE] ELSE o

Name(arg) == IF Len(arg) = 1 THEN arg[1] ELSE ""

-----------------------------------------------------------------------------
\* Mutant: what looks like an option is not taken for a value.
TakesPlainValue ==
    Name(args[at]) \in Valued /\ at < Len(args) /\ Name(args[at + 1]) \notin Valued

TakesValue == Name(args[at]) \in Valued /\ at < Len(args)

\* An option with a value: argv[++i].
ParseValued ==
    /\ ~threw /\ at <= Len(args) /\ TakesValue
    /\ at' = at + 2
    /\ LET results == Assigned(opts, Name(args[at]), args[at + 1])
       IN IF results = {} THEN threw' = TRUE /\ UNCHANGED opts
                          ELSE opts' \in results /\ UNCHANGED threw
    /\ UNCHANGED args

\* A flag, or anything else, which is passed over without a word: an option
\* whose value is missing, too.
ParseOther ==
    /\ ~threw /\ at <= Len(args) /\ ~TakesValue
    /\ at' = at + 1
    /\ opts' = Flagged(opts, Name(args[at]))
    /\ UNCHANGED <<args, threw>>

Parsed == ~threw /\ at > Len(args)

-----------------------------------------------------------------------------
(***************************************************************************)
(* ArgumentParserService.Parse: a number that is none is not taken as the  *)
(* value, and parsed as an option in its turn; a URL is a host name.       *)
(***************************************************************************)
\* One default port on every platform; Environment.MachineName.
CsDefaults ==
    [Defaults EXCEPT !.port_name = <<"/dev/cu.usbserial-53002FA7">>,
                     !.gateway_id = <<"machine name">>]

TryParse(text) == Len(text) = 1 /\ text[1] \in Numbers

CsArgument(s, arg) ==
    IF s.option \in DOMAIN TextField \cup {"--mqtt-host"}
    THEN [option |-> "",
          opts |-> [s.opts EXCEPT ![IF s.option = "--mqtt-host" THEN "mqtt_host"
                                    ELSE TextField[s.option]] = arg]]
    ELSE IF s.option \in DOMAIN NumberField /\ TryParse(arg)
    THEN [option |-> "", opts |-> [s.opts EXCEPT ![NumberField[s.option]] = arg[1]]]
    ELSE IF Name(arg) \in Valued THEN [option |-> Name(arg), opts |-> s.opts]
    ELSE [option |-> "", opts |-> Flagged(s.opts, Name(arg))]

\* After each argument of list: the option that waits for its value, and opts.
CsAfter(list) ==
    LET after[i \in 0 .. Len(list)] ==
            IF i = 0 THEN [option |-> "", opts |-> CsDefaults] ELSE CsArgument(after[i - 1], list[i])
    IN after

CsParse(list) == CsAfter(list)[Len(list)].opts

-----------------------------------------------------------------------------
\* The arguments that stand where an option can: not those that are the value
\* of the option in front of them.
IsOption ==
    LET f[i \in DOMAIN args] == i = 1 \/ ~(f[i - 1] /\ Name(args[i - 1]) \in Valued) IN f

Naming(options) == {i \in DOMAIN args : IsOption[i] /\ Name(args[i]) \in options /\ i < Len(args)}

\* The values that URLs and options give to the port, by position.
UrlAt(i) == {u \in Urls : Name(args[i]) = "--mqtt-host" /\ u.text = args[i + 1]}
NamingPort ==
    Naming({"--mqtt-port"}) \cup {i \in Naming({"--mqtt-host"}) : \E u \in UrlAt(i) : u.port # ""}

LastValue(options, default) ==
    IF Naming(options) = {} THEN default ELSE args[Max(Naming(options)) + 1]

\* Every option has the value it was last given, in whatever order the options
\* stand and whatever their values look like: a value is never taken for an
\* option (--gateway-id --activate), nor an option for a value that is missing;
\* the host and the port that a URL names are those of --mqtt-host and
\* --mqtt-port, and the later one wins.
OptionsAsNamed ==
    Parsed =>
        /\ \A option \in DOMAIN TextField :
              opts[TextField[option]] = LastValue({option}, Defaults[TextField[option]])
        /\ opts.baud_rate = LastValue({"--baud"}, <<"9600">>)[1]
        /\ \A flag \in DOMAIN FlagField :
              opts[FlagField[flag]] <=>
                  \E i \in DOMAIN args :
                      IsOption[i] /\ Name(args[i]) \in DOMAIN FlagField
                      /\ FlagField[Name(args[i])] = FlagField[flag]
        /\ LET last == Max(Naming({"--mqtt-host"}) \cup {0})
           IN opts.mqtt_host = IF last = 0 THEN <<"localhost">>
                               ELSE IF UrlAt(last) = {} THEN args[last + 1]
                               ELSE (CHOOSE u \in UrlAt(last) : TRUE).host
        /\ LET last == Max(NamingPort \cup {0})
           IN opts.mqtt_port = IF last = 0 THEN "1883"
                               ELSE IF UrlAt(last) = {} THEN args[last + 1][1]
                               ELSE (CHOOSE u \in UrlAt(last) : TRUE).port

\* The options for which each of the two gateways has a default of its own.
OwnDefault == {"--port", "--gateway-id"}

\* The C++ gateway understands the command line of the C# one, which README.md
\* describes: without URLs and with numbers that are numbers, both come to the
\* same options.  Only where --port or --gateway-id is not given do they differ:
\* the default port of README.md:69 is the C# gateway's, and the C++ one's on
\* macOS only.
AgreesWithCSharp ==
    /\ Parsed
    /\ \A i \in 1 .. Len(args) - 1 : Name(args[i]) \in DOMAIN NumberField => TryParse(args[i + 1])
    /\ \A i \in DOMAIN args, u \in Urls : u.text # args[i]
    => \A field \in DOMAIN Defaults :
          \/ opts[field] = CsParse(args)[field]
          \/ \E option \in OwnDefault : field = TextField[option] /\ Naming({option}) = {}
=============================================================================
