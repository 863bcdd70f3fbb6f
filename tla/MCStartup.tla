----------------------------- MODULE MCStartup -----------------------------
(***************************************************************************)
(* Startup for TLC: every list of up to three arguments, and every list of *)
(* four that is about the broker.                                          *)
(***************************************************************************)
EXTENDS Startup

MCUrls ==
    {[text |-> <<"mqtt://", "broker">> \o port \o path, host |-> <<"broker">>,
      port |-> IF Len(port) = 2 THEN port[2] ELSE ""]
     : port \in {<<>>, <<":">>, <<":", "8883">>}, path \in {<<>>, <<"/", ":", "9600">>}}

MCBroker == {<<"--mqtt-host">>, <<"--mqtt-port">>, <<"8883">>} \cup {u.text : u \in MCUrls}

MCOther ==
    {<<"--port">>, <<"--baud">>, <<"--activate">>, <<"--dump-params">>, <<"-h">>,
     <<"--mqtt-host">>, <<"text">>, <<"9600">>, <<"1201">>, <<"9600", "text">>, <<>>}

MCArgLists == SeqOf(MCOther, 3) \cup SeqOf(MCBroker, 4)
=============================================================================
