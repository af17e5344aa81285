------------------------------ MODULE SoapText ------------------------------
(* What is written into a SOAP document and read out of one (fritz_soap.cpp, *)
(* fritz_tr064.cpp): the envelope of a request, and the host list a router   *)
(* serves, which may arrive cut off.  The reader is a scanner for tags that  *)
(* knows no nesting: only the escaping keeps a name that looks like a tag,   *)
(* or like an entity, from being read as one.                                *)
(*                                                                           *)
(* A text is a sequence of symbols: "&", "<", ">", " ", the rest of a        *)
(* reference up to its ";" ("amp;", "#233;"), or any other run of characters.*)
EXTENDS Naturals, SequencesExt

CONSTANTS
    Text,       \* the values and names that are written
    Param,      \* the parameters of a request
    Window,     \* how far the ";" of a reference may be: 10 characters, in symbols
    ListMac     \* the addresses the listed hosts have, if any, by their place;
                \* bounds the hosts in a list

\* The shortest reference, with its ";", is well within the 10 characters; a
\* parameter is named by a name, and no address has to be escaped or trimmed.
ASSUME WindowAssumption == Window \in Nat \ {0}
ASSUME TextAssumption == Text \subseteq Seq(STRING)
ASSUME ParamAssumption == Param \subseteq STRING \ {"<", ">", "/", "action"}
ASSUME ListMacAssumption == ListMac \in Seq(STRING \ {"<", ">", "&", " "})

VARIABLES
    request,    \* the parameters given so far: their names and values
    hostList,   \* the hosts the router lists, as [mac, name]
    document    \* its list as it has arrived

soapVars == <<request, hostList, document>>

SoapInit == request = <<>> /\ hostList = <<>> /\ document = <<>>

-----------------------------------------------------------------------------
(* Writing.                                                                  *)

References == {"amp;", "lt;", "gt;", "#38;", "#233;", "nbsp;"}
\* What a reference stands for, the quotes apart; of a numeric one only ASCII.
Replaced == [r \in {"amp;", "lt;", "gt;", "#38;"} |->
    CASE r \in {"amp;", "#38;"} -> "&" [] r = "lt;" -> "<" [] r = "gt;" -> ">"]

OnlyMarkup(text) ==
    FlattenSeq([i \in DOMAIN text |->
        CASE text[i] = "<" -> <<"&", "lt;">>
          [] text[i] = ">" -> <<"&", "gt;">>
          [] OTHER -> <<text[i]>>])

\* escapeXml(), its switch; the quotes are like the others.
EscapeSymbol(c) ==
    CASE c = "&" -> <<"&", "amp;">>
      [] c = "<" -> <<"&", "lt;">>
      [] c = ">" -> <<"&", "gt;">>
      [] OTHER -> <<c>>

EscapeXml(text) == FlattenSeq([i \in DOMAIN text |-> EscapeSymbol(text[i])])

Open(key) == <<"<", key, ">">>
Close(key) == <<"<", "/", key, ">">>
Element(key, content) == Open(key) \o content \o Close(key)

\* buildSoapEnvelope(), its body.
BuildSoapEnvelope(params) ==
    Element("action", FlattenSeq([i \in DOMAIN params |->
        Element(params[i].key, EscapeXml(params[i].value))]))

-----------------------------------------------------------------------------
(* Reading.                                                                  *)

Blanks == {" "}
Trim(text) ==
    LET solid == {i \in DOMAIN text : text[i] \notin Blanks}
    IN  IF solid = {} THEN <<>> ELSE SubSeq(text, Min(solid), Max(solid))

\* Where `part` begins in `text`, at `from` or after it; 0 if nowhere.
Find(text, part, from) ==
    LET at == {i \in from .. Len(text) - Len(part) + 1 :
                  SubSeq(text, i, i + Len(part) - 1) = part}
    IN  IF at = {} THEN 0 ELSE Min(at)

\* The ";" an "&" at i belongs to, if it is near enough.
Semicolon(text, i) ==
    LET ends == {j \in i + 1 .. Len(text) : text[j] \in References}
    IN  IF ends = {} \/ Min(ends) - i > Window THEN 0 ELSE Min(ends)

\* What is taken in one step at i: a reference, or the symbol there.
StepEnd(text, i) ==
    IF text[i] = "&" /\ Semicolon(text, i) # 0 THEN Semicolon(text, i) ELSE i

\* An unknown reference is left as written, with all it contains.
Unescaped(text, i) ==
    LET end == StepEnd(text, i)
    IN  IF end = i + 1 /\ text[end] \in DOMAIN Replaced
        THEN <<Replaced[text[end]]>>
        ELSE SubSeq(text, i, end)

UnescapeXml(text) ==
    LET from[i \in 1 .. Len(text) + 1] ==
            IF i > Len(text) THEN <<>>
            ELSE Unescaped(text, i) \o from[StepEnd(text, i) + 1]
    IN  from[1]

\* soapValue(): the first element of this name, trimmed and unescaped.  Absent
\* is empty here: a field of an item that is absent stays empty (parseItem).
SoapValue(payload, key) ==
    LET start == Find(payload, Open(key), 1)
        end == IF start = 0 THEN 0 ELSE Find(payload, Close(key), start + 3)
    IN  IF end = 0 THEN <<>> ELSE UnescapeXml(Trim(SubSeq(payload, start + 3, end - 1)))

\* parseItem().
ParseItem(item) == [mac |-> SoapValue(item, "MACAddress"),
                    name |-> Trim(SoapValue(item, "HostName"))]

OpenEnded(payload, start) ==
    LET end == Find(payload, Close("Item"), start)
    IN  IF end = 0 THEN Len(payload) + 1 ELSE end
\* Where the item that starts here ends; 0 if it was cut off.
ItemEnd(payload, start) == Find(payload, Close("Item"), start)

\* The end of the first item from here on; 0 if there is none or it was cut off.
NextEnd(payload, pos) ==
    LET start == Find(payload, <<"<", "Item">>, pos)
    IN  IF start = 0 THEN 0 ELSE ItemEnd(payload, start)

\* An item without an address is no host.
Addressed(host) == IF host.mac = <<>> THEN <<>> ELSE <<host>>

NextHost(payload, pos) ==
    Addressed(ParseItem(SubSeq(payload, Find(payload, <<"<", "Item">>, pos),
                               NextEnd(payload, pos) - 1)))

\* parseHostList(): item by item, up to one that does not end.
ParseHostList(payload) ==
    LET from[pos \in 1 .. Len(payload) + 5] ==
            IF NextEnd(payload, pos) = 0 THEN <<>>
            ELSE NextHost(payload, pos) \o from[NextEnd(payload, pos) + 4]
    IN  from[1]

-----------------------------------------------------------------------------
(* A request, and a list.                                                    *)

\* A caller gives a parameter of call() its value.
Give(key, value) ==
    /\ \A i \in DOMAIN request : request[i].key # key
    /\ request' = Append(request, [key |-> key, value |-> value])
    /\ UNCHANGED <<hostList, document>>

\* The request is sent; the next one has parameters of its own.
Send == request' = <<>> /\ UNCHANGED <<hostList, document>>

\* The router escapes as the adapter does.
HostListDocument(hosts) ==
    Element("List", FlattenSeq([i \in DOMAIN hosts |->
        Element("Item", Element("MACAddress", hosts[i].mac)
                        \o Element("HostName", EscapeXml(hosts[i].name)))]))

\* The router lists one more host, and serves the whole list.
ListOneMore(addressed, name) ==
    /\ Len(hostList) < Len(ListMac)
    /\ hostList' = Append(hostList,
           [mac |-> IF addressed THEN <<ListMac[Len(hostList) + 1]>> ELSE <<>>, name |-> name])
    /\ document' = HostListDocument(hostList')
    /\ UNCHANGED request

\* The list arrives once more, whole.
Refetch == document' = HostListDocument(hostList) /\ UNCHANGED <<request, hostList>>

\* The list arrives without its end.
CutOff(n) ==
    /\ document = HostListDocument(hostList) /\ hostList # <<>>
    /\ document' = SubSeq(document, 1, n)
    /\ UNCHANGED <<request, hostList>>

RequestNext == Send \/ \E key \in Param, value \in Text : Give(key, value)

HostListNext ==
    \/ \E addressed \in BOOLEAN, name \in Text : ListOneMore(addressed, name)
    \/ Refetch
    \/ \E n \in 0 .. Len(document) - 1 : CutOff(n)

SoapSpec == SoapInit /\ [][RequestNext \/ HostListNext]_soapVars

-----------------------------------------------------------------------------
(* What must hold.                                                           *)

\* "Values are escaped" (buildSoapEnvelope): a parameter is read out of the
\* envelope as it was given, whatever it and the parameters before it contain,
\* tags and references included.  Only the blanks around it are lost.
ReadBack ==
    \A i \in DOMAIN request :
        SoapValue(BuildSoapEnvelope(request), request[i].key) = Trim(request[i].value)

\* The hosts read are the ones listed, with their own addresses and names, in
\* their order and without those that have no address; of a list that is cut
\* off they are the first ones, and no host is read in part or made up of two
\* (parseHostList, parseItem).
HostsAsListed ==
    LET hosts == FlattenSeq([i \in DOMAIN hostList |->
            Addressed([hostList[i] EXCEPT !.name = Trim(@)])])
    IN  /\ IsPrefix(ParseHostList(document), hosts)
        /\ document = HostListDocument(hostList) => ParseHostList(document) = hosts
=============================================================================
