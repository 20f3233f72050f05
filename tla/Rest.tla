-------------------------------- MODULE Rest --------------------------------
(***************************************************************************)
(* REST requests and REST WebSockets answered by both servers from the     *)
(* same google.api.http rules.  A rule's template is given here as a       *)
(* structure and written out as text for the two routers; what it means is *)
(* defined a second time, on the structure, as what the routers must do.   *)
(***************************************************************************)
EXTENDS RustHttpRule, GoHttpRule, FiniteSets

CONSTANTS
    RuleSets,   \* sequences of methods [name, input, rules], the rules in order
    Methods,    \* HTTP methods of requests
    Paths,      \* request paths a client makes up
    Values,     \* what a client fills into a template, one text per component
    Contents,   \* <<query, body>> of requests
    Queries,    \* queries of WebSocket URLs
    Bodies      \* payloads of WebSocket frames

VARIABLES
    methods,    \* the service's methods with their rules
    rust, go,   \* the routers: bindings compiled from them
    request,    \* the request in hand
    rustCall, goCall,   \* the calls it was transcoded to
    rustWs, goWs,       \* the binding of an open WebSocket
    rustMsg, goMsg      \* the message built from its last frame

vars == <<methods, rust, go, request, rustCall, goCall, rustWs, goWs, rustMsg, goMsg>>

-----------------------------------------------------------------------------
(* Writing a rule down.                                                    *)
SegmentText(seg) ==
    CASE seg.kind = "Literal" -> seg.text
      [] seg.kind = "AnyOne" -> <<"*">>
      [] OTHER -> <<"**">>
PartText(seg) ==
    IF seg.kind # "Capture" THEN SegmentText(seg)
    ELSE <<"{">> \o JoinBy(seg.field, ".")
         \o (IF Len(seg.subs) = 1 /\ seg.subs[1].kind = "AnyOne" THEN <<>>
             ELSE <<"=">> \o JoinBy(Map(SegmentText, seg.subs), "/"))
         \o <<"}">>
VerbText(t) == IF t.verb = <<>> THEN <<>> ELSE <<":">> \o t.verb
TemplateText(t) == <<"/">> \o JoinBy(Map(PartText, t.segs), "/") \o VerbText(t)

Written(m) ==
    LET rule(r) == [pattern |-> r.pattern, custom |-> r.custom, path |-> TemplateText(r.template),
                    body |-> r.body, response_body |-> r.response_body, additional_bindings |-> <<>>]
        texts == Map(rule, m.rules)
    IN  [name |-> m.name, input |-> m.input,
         rule |-> [texts[1] EXCEPT !.additional_bindings = Tail(texts)]]

(* All rules in the order in which they are declared.                      *)
Declared ==
    FlattenSeq(Map(LAMBDA m : Map(LAMBDA r : [name |-> m.name, input |-> m.input, rule |-> r], m.rules),
                   methods))
Compiles(r) == r.pattern # "custom" \/ r.custom # ""

-----------------------------------------------------------------------------
NoRequest == [kind |-> "none"]

Init ==
    /\ methods \in RuleSets
    /\ rust = from_pool(Map(Written, methods))
    /\ go = newHTTPRouter(Map(Written, methods))
    /\ request = NoRequest
    /\ rustCall = {} /\ goCall = {} /\ rustWs = {} /\ goWs = {} /\ rustMsg = {} /\ goMsg = {}

(* One REST request, as json_fetch and unaryJSON hand it to the router.    *)
Transcode(method, path, query, body) ==
    /\ request = NoRequest
    /\ rustCall' = transcode(rust, method, path, query, body)
    /\ goCall' = goTranscode(go, method, path, query, body)
    /\ UNCHANGED <<methods, rust, go, rustWs, goWs, rustMsg, goMsg>>

AnyRequest ==
    \E m \in Methods, p \in Paths, c \in Contents :
        /\ request' = [kind |-> "any", method |-> m, path |-> p, query |-> c[1], body |-> c[2]]
        /\ Transcode(m, p, c[1], c[2])

(* A client fills values into a template and escapes them.                 *)
Wild(t) == SelectSeq(FlattenSeq(Map(LAMBDA s : IF s.kind = "Capture" THEN s.subs ELSE <<s>>, t.segs)),
                     LAMBDA s : s.kind = "AnyOne")
Escape(value) == Map(LAMBDA c : CASE c = "/" -> "%2F" [] c = ":" -> "%3A" [] OTHER -> c, value)
FilledPath(t, value) ==
    LET text(s) == IF s.kind = "AnyOne" THEN Escape(value) ELSE SegmentText(s)
        part(s) == IF s.kind = "Capture" THEN JoinBy(Map(text, s.subs), "/") ELSE text(s)
    IN  <<"/">> \o JoinBy(Map(part, t.segs), "/") \o VerbText(t)
FilledVars(t, value) ==
    LET text(s) == IF s.kind = "AnyOne" THEN value ELSE SegmentText(s)
        var(s) == [field |-> s.field, value |-> JoinBy(Map(text, s.subs), "/")]
    IN  Map(var, SelectSeq(t.segs, LAMBDA s : s.kind = "Capture"))

FilledIn ==
    \E i \in DOMAIN Declared, value \in Values :
        LET t == Declared[i].rule.template
        IN  /\ Wild(t) # <<>> /\ Compiles(Declared[i].rule)
            /\ request' = [kind |-> "filled", method |-> "GET", path |-> FilledPath(t, value),
                            query |-> <<>>, body |-> [json |-> "empty"], of |-> i, value |-> value]
            /\ Transcode("GET", FilledPath(t, value), <<>>, [json |-> "empty"])

(* A WebSocket upgrade on a REST URL, and the messages its frames make.    *)
Upgrade ==
    \E p \in Paths, query \in Queries :
        /\ request = NoRequest
        /\ request' = [kind |-> "ws", path |-> p, query |-> query]
        /\ rustWs' = match_ws(rust, p, query)
        /\ goWs' = matchWS(go, p, query)
        /\ UNCHANGED <<methods, rust, go, rustCall, goCall, rustMsg, goMsg>>

Frame ==
    \E body \in Bodies :
        /\ request.kind = "ws" /\ rustWs # {}
        /\ rustMsg' = Bind(LAMBDA w : build_message(w.binding, w.vars, w.query, body), rustWs)
        /\ goMsg' = Bind(LAMBDA w : buildMessage(w.binding, w.vars, w.query, body), goWs)
        /\ UNCHANGED <<methods, rust, go, request, rustCall, goCall, rustWs, goWs>>

Next == AnyRequest \/ FilledIn \/ Upgrade \/ Frame
Spec == Init /\ [][Next]_vars

-----------------------------------------------------------------------------
(* What a template means: its segments take the components of the path one *)
(* after the other, `**` any number of them and every other segment one.   *)
Flat(t) == FlattenSeq(Map(LAMBDA s : IF s.kind = "Capture" THEN s.subs ELSE <<s>>, t.segs))
Stems(t, path) ==
    LET comps == NonEmpty(Split(path, "/"))
        n == Len(comps)
    IN  IF n = 0 THEN {c \in {comps} : t.verb = <<>>}
        ELSE {[comps EXCEPT ![n] = stem] :
                 stem \in {s \in Prefixes(comps[n]) : s # <<>> /\ ~Contains(s, ":")
                                                     /\ comps[n] = s \o VerbText(t)}}
Means(t, path) ==
    \E comps \in Stems(t, path) : \E len \in [DOMAIN Flat(t) -> 0 .. Len(comps)] :
        LET from(i) == SumFunctionOnSet(len, 1 .. (i - 1))
        IN  /\ SumFunction(len) = Len(comps)
            /\ \A i \in DOMAIN len :
                   /\ Flat(t)[i].kind # "AnyRest" => len[i] = 1
                   /\ Flat(t)[i].kind = "Literal" => comps[from(i) + 1] = Flat(t)[i].text

RuleVerb(r) == to_upper(IF r.pattern = "custom" THEN r.custom ELSE r.pattern)
Takes(r, verbs) == Compiles(r) /\ (RuleVerb(r) = "*" \/ RuleVerb(r) \in verbs)
FirstFit(verbs, path) ==
    LET i == SelectInSeq(Declared, LAMBDA d : Takes(d.rule, verbs) /\ Means(d.rule.template, path))
    IN  IF i = 0 THEN {} ELSE {Declared[i].name}

(* The types of everything, and nothing but messages of declared methods.  *)
TypeOK ==
    /\ methods \in RuleSets
    /\ \A b \in ToSet(rust) : b.body \in {"None", "Wildcard", "Field"} /\ b.input \in DOMAIN Descriptor
    /\ \A b \in ToSet(go) : b.body \in {"bodyNone", "bodyWildcard", "bodyField"}
    /\ request.kind \in {"none", "any", "filled", "ws"}
    /\ \A calls \in {rustCall, goCall, rustWs, goWs, rustMsg, goMsg} : Cardinality(calls) <= 1
    /\ \A c \in rustCall \cup goCall : Cardinality(c.message) <= 1
    /\ Len(rust) = Cardinality({i \in DOMAIN Declared : Compiles(Declared[i].rule)})

(* "Bindings resolve in declaration order - the first whose verb and       *)
(* template match wins" (spec/PROTOCOL.md): the text of the rules, split   *)
(* on braces, slashes and verbs and matched greedily, routes every request *)
(* to the first declared rule that means its path, and a WebSocket to the  *)
(* first one whatever its verb.                                            *)
FirstFitWins ==
    /\ request.kind = "any" =>
          {c.grpc_method : c \in rustCall} = FirstFit({to_upper(request.method)}, request.path)
    /\ request.kind = "ws" =>
          {w.binding.grpc_method : w \in rustWs}
              = FirstFit({"GET", "PUT", "POST", "DELETE", "PATCH", "PURGE"}, request.path)

(* "A genuine colon in path data is percent-encoded, so it survives"       *)
(* (match_segments), and so does a slash: a path made from a template by   *)
(* filling in escaped values gives back exactly these values, whether they *)
(* stand alone, inside a longer capture or before a custom verb.           *)
EscapedValuesSurvive ==
    request.kind = "filled" =>
        LET d == Declared[request.of]
            compiled == Cardinality({i \in 1 .. request.of : Compiles(Declared[i].rule)})
        IN  match_segments(rust[compiled].template, request.path)
                = {FilledVars(d.rule.template, request.value)}

-----------------------------------------------------------------------------
(* The field a (dotted) name denotes, and its path by proto names.         *)
RECURSIVE Denoted(_, _)
Denoted(type, path) ==
    LET below(f) == IF Len(path) = 1 THEN {[at |-> <<f.name>>, field |-> f]}
                    ELSE IF f.type \in DOMAIN Descriptor
                    THEN {[d EXCEPT !.at = <<f.name>> \o @] : d \in Denoted(f.type, Tail(path))} ELSE {}
    IN  Bind(below, field_by_any_name(type, Head(path)))

(* The binding and the path variables of the request in hand, and its      *)
(* query parameters.                                                       *)
Matched ==
    CASE request.kind = "none" -> {}
      [] request.kind = "ws" -> rustWs
      [] OTHER -> match_request(rust, request.method, request.path)
Params == Map(LAMBDA q : [field |-> Split(q.key, "."), value |-> q.value], parse_query(request.query))

(* The values of one field that the two libraries read differently: a plus *)
(* sign on an unsigned integer, a float out of range or in hexadecimal,    *)
(* and text that was not UTF-8.                                            *)
ReadDifferently(f, value) ==
    \/ f.kind \in {"uint32", "uint64"} /\ value # <<>> /\ Head(value) = "+"
    \/ f.kind \in {"float", "double"} /\ value # <<>> /\ Last(value) \in {"huge", "0x1p4"}
    \/ f.kind = "string" /\ Contains(value, "U+FFFD")
Excepted ==
    \E m \in Matched : \E v \in ToSet(m.vars \o Params) :
        \E d \in Denoted(m.binding.input, v.field) : ReadDifferently(d.field, v.value)

(* The two ports agree (httprule.go: "same segment/body model, same        *)
(* matching order, same coercion table"), on Fetch and on WebSockets: the  *)
(* same method, the same response_body, and the same message or refusal.   *)
(* Where the request holds a value they read differently one of them may   *)
(* refuse what the other takes; they never build two different messages.   *)
GoAgrees ==
    LET agree(g, r) == g = r \/ (Excepted /\ (g = {} \/ r = {}))
        route(calls) == {<<c.grpc_method, c.response_body>> : c \in calls}
        built(calls) == Bind(LAMBDA c : c.message, calls)
    IN  /\ route(goCall) = route(rustCall) /\ agree(built(goCall), built(rustCall))
        /\ agree(goMsg, rustMsg)
        /\ {<<w.binding.grpcMethod, hasBody(w), w.binding.responseBody>> : w \in goWs}
              = {<<w.binding.grpc_method, has_body(w), w.binding.response_body>> : w \in rustWs}

(* The values path variables have in the message of the request.           *)
Captured ==
    Bind(LAMBDA m : UNION {{<<d.at, v.value>> : d \in Denoted(m.binding.input, v.field)} : v \in ToSet(m.vars)},
         Matched)
Messages == rustMsg \cup Bind(LAMBDA c : c.message, rustCall)
Respelled ==
    \E q \in ToSet(Params), d \in ToSet(Declared) : \E s \in ToSet(d.rule.template.segs) :
        /\ s.field # <<>> /\ s.field # q.field
        /\ Denoted(d.input, q.field) = Denoted(d.input, s.field)

(* Path variables overlay what the body says and the query does not touch  *)
(* them (build_message), as long as the query does not use the other one   *)
(* of a field's two names.                                                 *)
PathVarsStand ==
    request # NoRequest /\ request.kind # "filled" =>
        \A msg \in Messages : \A c \in Captured : msg[c[1]] = c[2] \/ Respelled
=============================================================================
