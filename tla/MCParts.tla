------------------------------ MODULE MCParts -------------------------------
(* The parts that stand alone, side by side for TLC: a behaviour is one of   *)
(* the rate meter, of the host table, of the factory's probes, of a request  *)
(* or of a list, and the others stay where they began.                       *)
EXTENDS RateMeter, HostTable, FritzFactory, SoapText

VARIABLE part

Init ==
    /\ RateInit /\ HostInit /\ FactoryInit /\ SoapInit
    /\ part \in {"rate", "hosts", "factory", "request", "list"}
    /\ part = "rate" \/ (counter = 0 /\ clock = 0)

Next ==
    /\ UNCHANGED part
    /\ \/ part = "rate" /\ RateNext /\ UNCHANGED <<hostVars, probeVars, soapVars>>
       \/ part = "hosts" /\ HostNext /\ UNCHANGED <<rateVars, probeVars, soapVars>>
       \/ part = "factory" /\ FactoryNext /\ UNCHANGED <<rateVars, hostVars, soapVars>>
       \/ part = "request" /\ RequestNext /\ UNCHANGED <<rateVars, hostVars, probeVars>>
       \/ part = "list" /\ HostListNext /\ UNCHANGED <<rateVars, hostVars, probeVars>>

vars == <<rateVars, hostVars, probeVars, soapVars, part>>

Spec ==
    /\ Init /\ [][Next]_vars
    /\ WF_vars(part = "hosts" /\ ListingReply /\ UNCHANGED <<part, rateVars, probeVars, soapVars>>)
    /\ WF_vars(part = "factory" /\ ProbeReply /\ UNCHANGED <<part, rateVars, hostVars, soapVars>>)

-----------------------------------------------------------------------------
(* The dialogs: typed over a discovered candidate, the same with a wrong     *)
(* password, the discovered one as it is, the saved one at a port of its     *)
(* own, and an empty one.                                                    *)

Blank == [key \in {"ip", "host", "tr064Port", "flags", "user", "username", "password", "pw",
                   "token"} |-> None]
Found == [Blank EXCEPT !.ip = "boxB", !.tr064Port = 49000, !.user = "old"]
Typed(password) == [Blank EXCEPT !.host = "boxA", !.user = "admin", !.password = password]
Known == [Blank EXCEPT !.user = "admin", !.pw = "secret"]
Kept == [Blank EXCEPT !.ip = "boxA", !.tr064Port = 49443, !.username = "admin", !.token = "secret"]

MCDialog ==
    {[form |-> Typed("secret"), candidate |-> Found, meta |-> Blank],
     [form |-> Typed("wrong"), candidate |-> Found, meta |-> Kept],
     [form |-> Known, candidate |-> Found, meta |-> Kept],
     [form |-> [Blank EXCEPT !.flags = "tls"], candidate |-> Blank, meta |-> Kept],
     [form |-> Known, candidate |-> Blank, meta |-> Blank]}

MCRouter ==
    {[host |-> "boxA", port |-> 49000, tls |-> FALSE], [host |-> "boxB", port |-> 49000, tls |-> FALSE]}
MCAccount == {[at |-> r, login |-> [user |-> "admin", password |-> "secret"]] : r \in MCRouter}

-----------------------------------------------------------------------------
(* The texts: plain, with blanks, with the characters that are escaped, with *)
(* what looks like a reference or a tag, and with a reference above ASCII.   *)

MCText ==
    {<<>>, <<" ", "x">>, <<"&">>, <<"&", "amp;">>, <<"&", "lt;", "x">>, <<"&", "x", "gt;">>,
     <<"&", "#38;">>, <<"&", "#233;">>,
     <<"<", "p2", ">", "x", "<", "/", "p2", ">">>, <<"<", "/", "Item", ">">>, <<"<", "Item">>}
MCListMac == <<"mac1", "mac2">>
=============================================================================
