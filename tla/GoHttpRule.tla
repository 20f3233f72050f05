----------------------------- MODULE GoHttpRule -----------------------------
(***************************************************************************)
(* REST transcoding in the Go server (httprule.go), which is meant to be   *)
(* the port of RustHttpRule's source and is translated here from its own.  *)
(***************************************************************************)
EXTENDS RestText

-----------------------------------------------------------------------------
(* Path templates.  pieces holds what has been cut off, the open piece last. *)
splitOutsideBraces(s, sep) ==
    LET grow(a, c) == [a EXCEPT !.pieces[Len(a.pieces)] = Append(@, c)]
        step(a, c) ==
            CASE c = "{" -> [grow(a, c) EXCEPT !.depth = @ + 1]
              [] c = "}" -> IF a.depth > 0 THEN [grow(a, c) EXCEPT !.depth = @ - 1] ELSE grow(a, c)
              [] c = sep /\ a.depth = 0 -> [a EXCEPT !.pieces = Append(@, <<>>)]
              [] OTHER -> grow(a, c)
    IN  FoldLeft(step, [pieces |-> << <<>> >>, depth |-> 0], s).pieces

segment(kind, literal, field, sub) == [kind |-> kind, literal |-> literal, field |-> field, sub |-> sub]

plainSegment(seg) ==
    CASE seg = <<"*">> -> segment("segAnyOne", <<>>, <<>>, <<>>)
      [] seg = <<"**">> -> segment("segAnyRest", <<>>, <<>>, <<>>)
      [] OTHER -> segment("segLiteral", seg, <<>>, <<>>)

parseSegment(seg) ==
    IF Len(seg) > 1 /\ Head(seg) = "{" /\ Last(seg) = "}"
    THEN LET cut == Cut(Tail(Front(seg)), "=")
             pattern == IF cut.found THEN cut.after ELSE <<"*">>
         IN  segment("segCapture", <<>>, Split(cut.before, "."),
                     Map(plainSegment, NonEmpty(Split(pattern, "/"))))
    ELSE plainSegment(seg)

parseTemplate(template) ==
    LET parts == splitOutsideBraces(template, ":")
    IN  [segments |-> Map(parseSegment, NonEmpty(splitOutsideBraces(parts[1], "/"))),
         customVerb |-> JoinBy(SubSeq(parts, 2, Len(parts)), ":")]

-----------------------------------------------------------------------------
(* Compiling the rules of the methods, in the order of the file set.       *)
verbAndPath(rule) ==
    CASE rule.pattern = "custom" -> {<<to_upper(k), rule.path>> : k \in {rule.custom} \ {""}}
      [] OTHER -> {<<to_upper(rule.pattern), t>> : t \in {rule.path} \ {<<>>}}

bodyRule(rule) ==
    CASE rule.body = <<>> -> "bodyNone" [] rule.body = <<"*">> -> "bodyWildcard" [] OTHER -> "bodyField"

push(bindings, rule, method) ==
    LET bind(vt) == [httpMethod |-> vt[1], template |-> parseTemplate(vt[2]),
                     body |-> bodyRule(rule), bodyField |-> rule.body,
                     responseBody |-> rule.response_body,
                     grpcMethod |-> method.name, input |-> method.input]
    IN  bindings \o SetToSeq({bind(vt) : vt \in verbAndPath(rule)})

collect(bindings, method) ==
    FoldLeft(LAMBDA bs, extra : push(bs, extra, method),
             push(bindings, method.rule, method), method.rule.additional_bindings)

newHTTPRouter(methods) == FoldLeft(collect, <<>>, methods)

-----------------------------------------------------------------------------
(* Matching a path.  i is the number of components consumed so far.        *)
percentDecode(s) ==
    Map(LAMBDA c : CASE c = "%2F" -> "/" [] c = "%3A" -> ":" [] c = "%2B" -> "+"
                     [] c = "%FF" -> "xFF" [] OTHER -> c, s)

RECURSIVE matchList(_, _, _, _)
matchList(segments, parts, i, vars) ==
    IF segments = <<>> THEN {[end |-> i, vars |-> vars]}
    ELSE LET seg == Head(segments)
             go(next, vs) == matchList(Tail(segments), parts, next, vs)
             captured(next) ==
                 [field |-> seg.field,
                  value |-> JoinBy(Map(percentDecode, SubSeq(parts, i + 1, next)), "/")]
         IN  CASE seg.kind = "segLiteral" ->
                      IF i >= Len(parts) \/ parts[i + 1] # seg.literal THEN {} ELSE go(i + 1, vars)
               [] seg.kind = "segAnyOne" -> IF i >= Len(parts) THEN {} ELSE go(i + 1, vars)
               [] seg.kind = "segAnyRest" -> go(Len(parts), vars)
               [] OTHER -> Bind(LAMBDA m : go(m.end, Append(m.vars, captured(m.end))),
                                matchList(seg.sub, parts, i, vars))

matchSegments(template, path) ==
    LET parts == NonEmpty(Split(path, "/"))
        cut == Cut(Last(parts), ":")
        whole(ps) == {m.vars : m \in {x \in matchList(template.segments, ps, 0, <<>>) : x.end = Len(ps)}}
    IN  IF parts = <<>> THEN IF template.customVerb # <<>> THEN {} ELSE whole(parts)
        ELSE IF cut.after # template.customVerb \/ (cut.found /\ cut.before = <<>>) THEN {}
        ELSE whole([parts EXCEPT ![Len(parts)] = cut.before])

matchWS(bindings, path, query) ==
    LET i == SelectInSeq(bindings, LAMBDA b : matchSegments(b.template, path) # {})
    IN  IF i = 0 THEN {}
        ELSE {[binding |-> bindings[i], vars |-> v, query |-> query] :
                 v \in matchSegments(bindings[i].template, path)}

hasBody(ws) == ws.binding.body # "bodyNone"

matchRequest(bindings, method, path) ==
    LET verbFits(b) == b.httpMethod = to_upper(method) \/ b.httpMethod = "*"
        i == SelectInSeq(bindings, LAMBDA b : verbFits(b) /\ matchSegments(b.template, path) # {})
    IN  IF i = 0 THEN {}
        ELSE {[binding |-> bindings[i], vars |-> v] : v \in matchSegments(bindings[i].template, path)}

-----------------------------------------------------------------------------
(* The request message.                                                    *)
fieldByAnyName(desc, name) ==
    LET byName == {fd \in Descriptor[desc] : fd.name = name}
    IN  IF byName = {} THEN {fd \in Descriptor[desc] : fd.json = name} ELSE byName

setFromJSON(msg, path, fd, json) == {Assign(msg, path, fd, v) : v \in JsonDecode(fd, json)}

wktJSONShape(type) ==
    CASE type \in {"Timestamp", "Duration", "FieldMask", "StringValue", "BytesValue",
                   "Int64Value", "UInt64Value"} -> {"string"}
      [] type \in {"BoolValue", "Int32Value", "UInt32Value", "FloatValue", "DoubleValue"} -> {"bare"}
      [] OTHER -> {}

ParseInt(raw, digits) == Number(raw, {"+", "-"}, digits)
ParseUint(raw, digits) == Number(raw, {}, digits)
ParseFloat(raw) == Number(raw, {"+", "-"}, Digits \cup {"0x1p4"})
goCoerce(fd, raw) ==
    CASE fd.kind = "string" -> {raw}
      [] fd.kind = "bool" /\ raw \in {<<"true">>, <<"1">>} -> {<<"true">>}
      [] fd.kind = "bool" /\ raw \in {<<"false">>, <<"0">>} -> {<<"false">>}
      [] fd.kind = "int32" -> ParseInt(raw, Digits32)
      [] fd.kind = "int64" -> ParseInt(raw, Digits)
      [] fd.kind = "uint32" -> ParseUint(raw, Digits32)
      [] fd.kind = "uint64" -> ParseUint(raw, Digits)
      [] fd.kind \in {"float", "double"} -> ParseFloat(raw)
      [] fd.kind = "enum" -> IF ParseInt(raw, Digits32) # {} THEN ParseInt(raw, Digits32)
                             ELSE {fd.type[v] : v \in {raw} \cap DOMAIN fd.type}
      [] OTHER -> {}

setLeaf(msg, fd, path, raw) ==
    LET append(v) == IF path \in DOMAIN msg THEN Append(msg[path], v) ELSE <<v>>
        quoted == ReplaceAll(raw, "xFF", "U+FFFD")   \* json.Marshal
        text(form) == [json |-> form, text |-> IF form = "string" THEN quoted ELSE raw]
    IN  CASE fd.kind = "bytes" -> setFromJSON(msg, path, fd, text("string"))
          [] fd.kind = "message" /\ ~fd.list ->
                 Bind(LAMBDA form : setFromJSON(msg, path, fd, text(form)), wktJSONShape(fd.type))
          [] OTHER -> {SetField(msg, path, IF fd.list THEN append(v) ELSE v) : v \in goCoerce(fd, raw)}

RECURSIVE setByPath(_, _, _, _, _)
setByPath(msg, desc, at, path, raw) ==
    LET here(fd) == Append(at, fd.name)
        set(fd) ==
            CASE Len(path) = 1 -> setLeaf(msg, fd, here(fd), raw)
              [] fd.kind = "message" /\ ~fd.list /\ fd.type \in DOMAIN Descriptor ->
                     setByPath(msg, fd.type, here(fd), Tail(path), raw)
              [] OTHER -> {}
    IN  Bind(set, fieldByAnyName(desc, Head(path)))

decodeQuery(s) == percentDecode(ReplaceAll(s, "+", " "))
parseQuery(query) ==
    LET param(pair) == LET cut == Cut(pair, "=")
                       IN  [key |-> decodeQuery(cut.before), value |-> decodeQuery(cut.after)]
    IN  Map(param, NonEmpty(Split(query, "&")))

unmarshalJSON(desc, body) ==
    CASE body.json = "empty" -> {NewMessage} [] OTHER -> JsonMessage(desc, body)

setMessageField(msg, desc, name, body) ==
    Bind(LAMBDA fd : setFromJSON(msg, <<fd.name>>, fd, body), fieldByAnyName(desc, name))

(* Mutant: only the first name of a dotted path is compared.               *)
boundByFirstName(vars, field) == \E i \in DOMAIN vars : Head(vars[i].field) = Head(field)

boundByPath(vars, field) == \E i \in DOMAIN vars : vars[i].field = field

(* proto.Marshal refuses a string that is not UTF-8.                       *)
RECURSIVE fieldAt(_, _)
fieldAt(desc, path) ==
    LET fd == CHOOSE f \in Descriptor[desc] : f.name = Head(path)
    IN  IF Len(path) = 1 THEN fd ELSE fieldAt(fd.type, Tail(path))
Marshal(desc, msg) ==
    LET texts(p) == IF fieldAt(desc, p).list THEN ToSet(msg[p]) ELSE {msg[p]}
        bad(p) == fieldAt(desc, p).kind = "string" /\ \E t \in texts(p) : Contains(t, "xFF")
    IN  {m \in {msg} : \A p \in DOMAIN msg : ~bad(p)}

buildMessage(b, vars, query, body) ==
    LET seed == CASE b.body = "bodyWildcard" -> unmarshalJSON(b.input, body)
                  [] b.body = "bodyField" /\ body.json # "empty" ->
                         setMessageField(NewMessage, b.input, b.bodyField, body)
                  [] OTHER -> {NewMessage}
        overlay(msgs, v) == Bind(LAMBDA m : setByPath(m, b.input, <<>>, v.field, v.value), msgs)
        param(kv) == [field |-> Split(kv.key, "."), value |-> kv.value]
        free == SelectSeq(Map(param, parseQuery(query)), LAMBDA p : ~boundByPath(vars, p.field))
        set == FoldLeft(overlay, seed, vars \o IF b.body = "bodyWildcard" THEN <<>> ELSE free)
    IN  Bind(LAMBDA m : Marshal(b.input, m), set)

goTranscode(bindings, method, path, query, body) ==
    {[grpc_method |-> m.binding.grpcMethod,
      message |-> buildMessage(m.binding, m.vars, query, body),
      response_body |-> m.binding.responseBody] : m \in matchRequest(bindings, method, path)}
=============================================================================
