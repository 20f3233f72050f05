---------------------------- MODULE RustHttpRule ----------------------------
(***************************************************************************)
(* REST transcoding in the Rust server (httprule.rs): google.api.http      *)
(* rules compile to bindings, a request path is matched against them in    *)
(* order, and path, query and body make the request message.               *)
(***************************************************************************)
EXTENDS RestText

-----------------------------------------------------------------------------
(* Path templates.                                                         *)
split_outside_braces(s, sep) ==
    LET keep(a, c) == [a EXCEPT !.cur = Append(@, c)]
        step(a, c) ==
            CASE c = "{" -> [keep(a, c) EXCEPT !.depth = @ + 1]
              [] c = "}" -> [keep(a, c) EXCEPT !.depth = IF @ = 0 THEN 0 ELSE @ - 1]
              [] c = sep /\ a.depth = 0 -> [a EXCEPT !.out = Append(@, a.cur), !.cur = <<>>]
              [] OTHER -> keep(a, c)
        end == FoldLeft(step, [out |-> <<>>, cur |-> <<>>, depth |-> 0], s)
    IN  Append(end.out, end.cur)

Segment(kind, text, field, subs) == [kind |-> kind, text |-> text, field |-> field, subs |-> subs]

plain_segment(seg) ==
    CASE seg = <<"*">> -> Segment("AnyOne", <<>>, <<>>, <<>>)
      [] seg = <<"**">> -> Segment("AnyRest", <<>>, <<>>, <<>>)
      [] OTHER -> Segment("Literal", seg, <<>>, <<>>)

parse_segment(seg) ==
    IF Len(seg) > 1 /\ Head(seg) = "{" /\ Last(seg) = "}"
    THEN LET eq == Cut(SubSeq(seg, 2, Len(seg) - 1), "=")
             pattern == IF eq.found THEN eq.after ELSE <<"*">>
         IN  Segment("Capture", <<>>, Split(eq.before, "."),
                     Map(plain_segment, NonEmpty(Split(pattern, "/"))))
    ELSE plain_segment(seg)

parse_template(template) ==
    LET parts == split_outside_braces(template, ":")
    IN  [segments |-> Map(parse_segment, NonEmpty(split_outside_braces(parts[1], "/"))),
         custom_verb |-> JoinBy(Tail(parts), ":")]

-----------------------------------------------------------------------------
(* Compiling the rules of the methods of a descriptor pool.                *)
verb_and_path(rule) ==
    IF rule.pattern = "custom"
    THEN IF rule.custom = "" THEN {} ELSE {<<to_upper(rule.custom), rule.path>>}
    ELSE IF rule.path = <<>> THEN {} ELSE {<<to_upper(rule.pattern), rule.path>>}

body_rule(rule) ==
    CASE rule.body = <<>> -> "None" [] rule.body = <<"*">> -> "Wildcard" [] OTHER -> "Field"

push_binding(bindings, rule, method) ==
    LET binding(vp) == [http_method |-> vp[1], template |-> parse_template(vp[2]),
                        body |-> body_rule(rule), field |-> rule.body,
                        response_body |-> rule.response_body,
                        grpc_method |-> method.name, input |-> method.input]
    IN  FoldLeft(Append, bindings, Map(binding, SetToSeq(verb_and_path(rule))))

collect_rule(bindings, method) ==
    LET rule == method.rule
    IN  FoldLeft(LAMBDA bs, r : push_binding(bs, r, method), bindings,
                 <<rule>> \o rule.additional_bindings)

from_pool(methods) == FoldLeft(collect_rule, <<>>, methods)

-----------------------------------------------------------------------------
(* Matching a path.  Positions count from 1.                               *)
Unescape == [c \in {"%2F", "%3A", "%2B", "%FF"} |->
                CASE c = "%2F" -> "/" [] c = "%3A" -> ":" [] c = "%2B" -> "+" [] OTHER -> "U+FFFD"]
(* Mutant: an escaped colon stays escaped.                                 *)
percent_decode_but_colon(s) ==
    Map(LAMBDA c : IF c \in DOMAIN Unescape \ {"%3A"} THEN Unescape[c] ELSE c, s)

percent_decode(s) == Map(LAMBDA c : IF c \in DOMAIN Unescape THEN Unescape[c] ELSE c, s)

match_plain(seg, parts, i) ==
    CASE seg.kind = "Literal" -> IF i <= Len(parts) /\ parts[i] = seg.text THEN {i + 1} ELSE {}
      [] seg.kind = "AnyOne" -> IF i <= Len(parts) THEN {i + 1} ELSE {}
      [] OTHER -> {Len(parts) + 1}

match_list(segments, parts) ==
    LET subs(seg, i) == FoldLeft(LAMBDA at, sub : Bind(LAMBDA k : match_plain(sub, parts, k), at),
                                 {i}, seg.subs)
        value(i, end) == JoinBy(Map(percent_decode, SubSeq(parts, i, end - 1)), "/")
        step(m, seg) ==
            IF seg.kind = "Capture"
            THEN {[end |-> end, vars |-> Append(m.vars, [field |-> seg.field, value |-> value(m.end, end)])] :
                     end \in subs(seg, m.end)}
            ELSE {[m EXCEPT !.end = end] : end \in match_plain(seg, parts, m.end)}
    IN  FoldLeft(LAMBDA ms, seg : Bind(LAMBDA m : step(m, seg), ms),
                 {[end |-> 1, vars |-> <<>>]}, segments)

(* Mutant: the verb is cut off the last component and not compared.        *)
match_segments_any_verb(template, path) ==
    LET parts == NonEmpty(Split(path, "/"))
        rest == IF parts = <<>> THEN <<>> ELSE [parts EXCEPT ![Len(parts)] = Cut(@, ":").before]
    IN  {m.vars : m \in {x \in match_list(template.segments, rest) : x.end = Len(rest) + 1}}

match_segments(template, path) ==
    LET parts == NonEmpty(Split(path, "/"))
        last == Cut(Last(parts), ":")
        rest == IF parts = <<>> THEN <<>> ELSE [parts EXCEPT ![Len(parts)] = last.before]
        fits == IF parts = <<>> THEN template.custom_verb = <<>>
                ELSE last.after = template.custom_verb /\ ~(last.found /\ last.before = <<>>)
    IN  IF fits THEN {m.vars : m \in {x \in match_list(template.segments, rest) : x.end = Len(rest) + 1}}
        ELSE {}

(* The first binding, in order, that takes the verb and the path.          *)
match_request(bindings, method, path) ==
    LET takes(b) == b.http_method \in {to_upper(method), "*"} /\ match_segments(b.template, path) # {}
        i == SelectInSeq(bindings, takes)
    IN  IF i = 0 THEN {}
        ELSE {[binding |-> bindings[i], vars |-> v] : v \in match_segments(bindings[i].template, path)}

(* A WebSocket upgrade is matched on its path alone.                       *)
match_ws(bindings, path, query) ==
    LET i == SelectInSeq(bindings, LAMBDA b : match_segments(b.template, path) # {})
    IN  IF i = 0 THEN {}
        ELSE {[binding |-> bindings[i], vars |-> v, query |-> query] :
                 v \in match_segments(bindings[i].template, path)}

has_body(ws) == ws.binding.body # "None"

-----------------------------------------------------------------------------
(* The request message.                                                    *)
field_by_any_name(type, name) ==
    LET named == {f \in Descriptor[type] : f.name = name}
    IN  IF named # {} THEN named ELSE {f \in Descriptor[type] : f.json = name}

set_from_json(msg, path, f, json) == {Assign(msg, path, f, v) : v \in JsonDecode(f, json)}

JsonString(raw) == [json |-> "string", text |-> raw]
wkt_json_shape(type, raw) ==
    CASE type \in {"FieldMask", "Timestamp", "Duration", "StringValue", "BytesValue",
                    "Int64Value", "UInt64Value"} -> {JsonString(raw)}
      [] type \in {"BoolValue", "Int32Value", "UInt32Value", "FloatValue", "DoubleValue"} ->
             {[json |-> "bare", text |-> raw]}
      [] OTHER -> {}

(* raw.parse for a float: past its range it is infinite.                   *)
parse_float(raw) ==
    {Map(LAMBDA c : IF c = "huge" THEN "inf" ELSE c, n) : n \in Number(raw, {"+", "-"}, Digits \cup {"huge"})}

coerce(f, raw) ==
    CASE f.kind = "string" -> {raw}
      [] f.kind = "bool" -> IF raw \in {<<"true">>, <<"1">>} THEN {<<"true">>}
                            ELSE IF raw \in {<<"false">>, <<"0">>} THEN {<<"false">>} ELSE {}
      [] f.kind = "int32" -> Number(raw, {"+", "-"}, Digits32)
      [] f.kind = "int64" -> Number(raw, {"+", "-"}, Digits)
      [] f.kind \in {"float", "double"} -> parse_float(raw)
      [] f.kind = "uint32" -> Number(raw, {"+"}, Digits32)
      [] f.kind = "uint64" -> Number(raw, {"+"}, Digits)
      [] f.kind = "enum" -> LET n == Number(raw, {"+", "-"}, Digits32)
                            IN  IF n # {} THEN n ELSE {f.type[v] : v \in {raw} \cap DOMAIN f.type}
      [] OTHER -> {}

set_leaf(msg, f, path, raw) ==
    CASE f.kind = "bytes" -> set_from_json(msg, path, f, JsonString(raw))
      [] f.kind = "message" /\ ~f.list ->
             Bind(LAMBDA json : set_from_json(msg, path, f, json), wkt_json_shape(f.type, raw))
      [] OTHER -> {SetField(msg, path, IF ~f.list THEN v
                                       ELSE IF path \in DOMAIN msg THEN Append(msg[path], v) ELSE <<v>>) :
                      v \in coerce(f, raw)}

(* The names that are left below `at`, a field of type `type`.             *)
RECURSIVE set_by_path(_, _, _, _, _)
set_by_path(msg, type, at, path, raw) ==
    LET into(f) == IF Len(path) = 1 THEN set_leaf(msg, f, Append(at, f.name), raw)
                   ELSE IF f.kind = "message" /\ ~f.list /\ f.type \in DOMAIN Descriptor
                   THEN set_by_path(msg, f.type, Append(at, f.name), Tail(path), raw)
                   ELSE {}
    IN  Bind(into, field_by_any_name(type, Head(path)))

decode_query(s) == percent_decode(Map(LAMBDA c : IF c = "+" THEN " " ELSE c, s))
parse_query(query) ==
    LET pair(p) == LET kv == Cut(p, "=") IN [key |-> decode_query(kv.before), value |-> decode_query(kv.after)]
    IN  Map(pair, NonEmpty(Split(query, "&")))

deserialize_message(type, body) ==
    IF body.json = "empty" THEN {NewMessage} ELSE JsonMessage(type, body)

set_message_field(msg, type, name, body) ==
    Bind(LAMBDA f : set_from_json(msg, <<f.name>>, f, body), field_by_any_name(type, name))

(* Mutant: nothing is taken to be bound.                                   *)
bound_never(vars, field) == FALSE

bound_by_path(vars, field) == \E i \in DOMAIN vars : vars[i].field = field

build_message(b, vars, query, body) ==
    LET seed == CASE b.body = "Wildcard" -> deserialize_message(b.input, body)
                  [] b.body = "Field" /\ body.json # "empty" ->
                         set_message_field(NewMessage, b.input, b.field, body)
                  [] OTHER -> {NewMessage}
        set(msgs, field, raw) == Bind(LAMBDA m : set_by_path(m, b.input, <<>>, field, raw), msgs)
        overlay == FoldLeft(LAMBDA ms, v : set(ms, v.field, v.value), seed, vars)
        param(ms, q) == LET field == Split(q.key, ".")
                        IN  IF bound_by_path(vars, field) THEN ms ELSE set(ms, field, q.value)
    IN  IF b.body = "Wildcard" THEN overlay ELSE FoldLeft(param, overlay, parse_query(query))

transcode(bindings, method, path, query, body) ==
    LET call(m) == LET msgs == build_message(m.binding, m.vars, query, body)
                   IN  [grpc_method |-> m.binding.grpc_method, message |-> msgs,
                        response_body |-> m.binding.response_body]
    IN  {call(m) : m \in match_request(bindings, method, path)}
=============================================================================
