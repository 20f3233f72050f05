---------------------------- MODULE MCRustFetch ----------------------------
(* Small instances of RustFetch for TLC.  Prefix 2, limit 2: a body of one *)
(* byte is too short for +proto, one of three is too long for +json.       *)
EXTENDS RustFetch

(* The URL is annotated all along, becomes annotated, or stops existing.   *)
Tables ==
    {<<"rest", "rest", "rest">>, <<"main", "main", "rest">>, <<"main", "unknown", "main">>}
MCRoutes == {[v \in {Bundle} \cup Versions |-> t[v + 1]] : t \in Tables}

Base == [kind |-> "proto", offer |-> "blank", timed |-> TRUE, valid |-> TRUE,
         over |-> FALSE, size |-> 3, reply |-> 1]

Protos ==
    {[Base EXCEPT !.size = s, !.reply = r, !.timed = t] : s \in {1, 3}, r \in {0, 1}, t \in BOOLEAN}
    \cup {[Base EXCEPT !.over = TRUE]}
Jsons ==
    {[Base EXCEPT !.kind = k, !.size = s, !.reply = r] :
        k \in {"json", "plain"}, s \in {2, 3}, r \in {0, 1}}
    \cup {[Base EXCEPT !.kind = "json", !.size = 2, !.valid = FALSE]}
Others ==
    {[Base EXCEPT !.kind = "grpc"], [Base EXCEPT !.kind = "other"]}
    \cup {[Base EXCEPT !.kind = "ws", !.offer = o] : o \in Offers}

AllRequests == Protos \cup Jsons \cup Others

(* Every request with descriptors that do not change; and every kind that   *)
(* looks at them, as short as it can be, beside the loads of reflection.    *)
Looking ==
    {[Base EXCEPT !.size = 2, !.reply = 0],
     [Base EXCEPT !.kind = "json", !.size = 1, !.reply = 0],
     [Base EXCEPT !.kind = "ws", !.offer = "proto"]}
Scenario(sources, requests) == [source : sources, routes : MCRoutes, req : requests]
MCScenarios ==
    Scenario({"None", "Bundled"}, AllRequests)
      \cup Scenario({"Reflection", "ReflectionOrBundled"}, Looking)
=============================================================================
