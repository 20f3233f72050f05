------------------------------- MODULE MCRest -------------------------------
(* Small instances of Rest for TLC: one request type, rules of every form, *)
(* and requests that hit and miss them.                                    *)
EXTENDS Rest

Field(name, json, kind, type, list) ==
    [name |-> <<name>>, json |-> <<json>>, kind |-> kind, type |-> type, list |-> list]
Colors == [c \in {<<"RED">>} |-> <<"1">>]
DescriptorMC ==
    [Req |-> {Field("user_id", "userId", "string", "", FALSE),
              Field("content", "content", "string", "", FALSE),
              Field("nested", "nested", "message", "Nested", FALSE),
              Field("tags", "tags", "string", "", TRUE),
              Field("count", "count", "uint32", "", FALSE),
              Field("ratio", "ratio", "double", "", FALSE),
              Field("color", "color", "enum", Colors, FALSE),
              Field("mask", "mask", "message", "FieldMask", FALSE),
              Field("on", "on", "message", "BoolValue", FALSE),
              Field("blob", "blob", "bytes", "", FALSE)},
     Nested |-> {Field("id", "id", "string", "", FALSE), Field("flag", "flag", "bool", "", FALSE)}]

Lit(w) == Segment("Literal", <<w>>, <<>>, <<>>)
One == Segment("AnyOne", <<>>, <<>>, <<>>)
Rest_ == Segment("AnyRest", <<>>, <<>>, <<>>)
Cap(field, subs) == Segment("Capture", <<>>, field, subs)
UserId == << <<"user_id">> >>
NestedId == << <<"nested">>, <<"id">> >>
T(segs, verb) == [segs |-> segs, verb |-> verb]
Rule(pattern, custom, template, body) ==
    [pattern |-> pattern, custom |-> custom, template |-> template, body |-> body,
     response_body |-> IF pattern = "get" THEN <<"content">> ELSE <<>>]

(* GET /v1/{user_id}, the same with a verb, POST /v1/{nested.id=v1/*},     *)
(* PUT /v1/{user_id=**}:end, any verb on /v1/*/{nested.id} and a rule that *)
(* does not compile.                                                       *)
Rules ==
    {Rule("get", "", T(<<Lit("v1"), Cap(UserId, <<One>>)>>, <<>>), <<>>),
     Rule("get", "", T(<<Lit("v1"), Cap(UserId, <<One>>)>>, <<"end">>), <<>>),
     Rule("post", "", T(<<Lit("v1"), Cap(NestedId, <<Lit("v1"), One>>)>>, <<>>), <<"*">>),
     Rule("put", "", T(<<Lit("v1"), Cap(UserId, <<Rest_>>)>>, <<"end">>), <<"nested">>),
     Rule("custom", "*", T(<<Lit("v1"), One, Cap(NestedId, <<One>>)>>, <<>>), <<"content">>),
     Rule("custom", "", T(<<Lit("v1")>>, <<>>), <<>>)}

Method(name, rules) == [name |-> name, input |-> "Req", rules |-> rules]
RuleSetsMC ==
    {<<Method("A", <<r>>), Method("B", <<s>>)>> : r, s \in Rules}
    \cup {<<Method("A", <<r, s>>), Method("B", <<t>>)>> : r, s, t \in {x \in Rules : x.pattern = "get"}}

MethodsMC == {"GET", "PUT", "POST"}
PathsMC ==
    {<<"/">>, <<"/", "v1", "/">>, <<"/", "v1", "/", "a">>, <<"/", "v1", "/", "a", ":", "end">>,
     <<"/", "v1", "/", "/", "a", "%2F", "b">>, <<"/", "v1", "/", "v1", "/", "a">>,
     <<"/", "v1", "/", ":", "end">>, <<"/", "v1", "/", "a", "/", "a", ":", "end">>,
     <<"/", "v1", "/", "v1", "/", "a", "/", "a">>, <<"/", "v1", ":", "end">>,
     <<"/", "v1", "/", "a", "%FF">>}
ValuesMC == {<<"a">>, <<"a", "/", "b">>, <<"a", ":", "end">>}

Param(name, value) == <<name, "=">> \o value
QueriesMC == {<<>>, Param("user_id", <<"b">>) \o <<"&">> \o Param("tags", <<"a", "+", "b">>),
             Param("tags", <<"a">>) \o <<"&", "&">> \o Param("tags", <<"b">>),
             <<"nested", ".">> \o Param("flag", <<"1">>), <<"nested", ".">> \o Param("id", <<"b">>),
             Param("count", <<"big">>), Param("count", <<"7">>), Param("count", <<"%2B", "7">>),
             Param("ratio", <<"-", "huge">>), Param("ratio", <<"0x1p4">>),
             Param("nested", <<"a">>), Param("mask", <<"a", "%FF">>), Param("tags", <<"%FF">>),
             Param("color", <<"RED">>), Param("on", <<"a">>),
             Param("on", <<"true">>), Param("blob", <<"a">>), <<"none">>,
             <<"tags", ".">> \o Param("id", <<"a">>), Param("content", <<"b">>), Param("userId", <<"b">>)}

Object(fields) == [json |-> "object", fields |-> fields]
BodiesMC ==
    {[json |-> "empty"], [json |-> "malformed"], [json |-> "string", text |-> <<"c">>],
     Object([p \in {UserId, << <<"content">> >>} |-> <<"c">>]),
     Object([p \in {<< <<"id">> >>} |-> <<"c">>])}
(* Every query without a body, and every body with queries that set what   *)
(* it sets; the frames of a WebSocket combine them all.                    *)
ContentsMC ==
    (QueriesMC \X {[json |-> "empty"]})
    \cup ({<<>>, Param("user_id", <<"b">>) \o <<"&">> \o Param("tags", <<"a", "+", "b">>),
           <<"nested", ".">> \o Param("id", <<"b">>), Param("content", <<"b">>)} \X BodiesMC)
=============================================================================
