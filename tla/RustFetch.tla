----------------------------- MODULE RustFetch -----------------------------
(* One request at the Rust server's Fetch surface (fetch.rs), and the       *)
(* descriptors it is transcoded with (schema.rs, reflect.rs).               *)
(*                                                                          *)
(* The request is one of the kinds `handle` tells apart; an action is what  *)
(* runs between two awaits of its handler.  Beside it run the refresh task, *)
(* the operator's forced reloads and an upstream whose schema changes.      *)
(* Bytes are counted, not kept; a set of descriptors is a version number,   *)
(* and what the request's URL is under a version is given by `routes`.  Of  *)
(* a snapshot only the files of the URL's service matter: it has their      *)
(* version, whatever the others are of, or it was built without them.       *)
EXTENDS Integers

CONSTANTS
    Scenarios,      \* a SchemaSource, what the request's URL is version by
                    \* version, and the request a client makes
    Reloads,        \* the operator's POSTs to admin_reload_path
    AllowImplicit,  \* cfg.allow_implicit_codec
    LenPrefix,      \* LEN_PREFIX, 4 in the code
    MaxMessage,     \* cfg.max_message_bytes
    MaxVersion      \* bound: how often the upstream is redeployed, plus one

Bundle == 0         \* the version of the bundled descriptors
NotLoaded == -1
Without == -2       \* a snapshot that skipped the service
Versions == 1..MaxVersion
SchemaSources == {"None", "Bundled", "Reflection", "ReflectionOrBundled"}
Kinds == {"proto", "json", "plain", "grpc", "other", "ws"}
Offers == {"h2ts", "proto", "json", "plain", "blank"}

Requests == {s.req : s \in Scenarios}

ASSUME FetchAssumption ==
    /\ \A s \in Scenarios :
        /\ s.source \in SchemaSources
        /\ s.routes \in [{Bundle} \cup Versions -> {"rest", "main", "unknown"}]
    /\ LenPrefix \in Nat \ {0} /\ MaxMessage \in Nat /\ MaxVersion \in Nat \ {0}
    /\ AllowImplicit \in BOOLEAN
    /\ "refresh" \notin Reloads
    /\ \A r \in Requests :
        /\ r.kind \in Kinds /\ r.offer \in Offers
        /\ r.timed \in BOOLEAN /\ r.valid \in BOOLEAN /\ r.over \in BOOLEAN
        /\ r.size \in Nat /\ r.reply \in Nat

VARIABLES
    source,    \* the SchemaSource
    routes,    \* the route table of this behaviour
    req,       \* the request
    up,        \* the version of the schema the upstream serves
    snap,      \* the reflection snapshot in the watch channel
    load,      \* the loads: where each is and the version it was told
    pc,        \* what the handler waits for
    tc,        \* the transcoder the handler holds
    got,       \* bytes of the request body read so far
    rpc,       \* the backend's call
    resp,      \* bytes of the response body read so far
    skip,      \* bytes still to drop from the response: the compression flag
    sent,      \* bytes of the message block sent to the caller
    block,     \* a message the handler wrote itself: the empty block, or JSON
    answer,    \* how the answer ended
    expired    \* the deadline has fired

schemaVars == <<source, up, snap, load>>
replyVars == <<rpc, resp, skip, sent, block, answer, expired>>
requestVars == <<routes, req, pc, tc, got>>
vars == <<schemaVars, replyVars, requestVars>>

Loaders == {"refresh"} \cup Reloads
Reflecting == source \in {"Reflection", "ReflectionOrBundled"}

(* The frame of the response: flag, length, message.                       *)
Total == 1 + LenPrefix + req.reply
MinOf(a, b) == IF a < b THEN a ELSE b

TypeOK ==
    /\ \E s \in Scenarios : source = s.source /\ routes = s.routes /\ req = s.req
    /\ up \in Versions /\ snap \in Versions \cup {NotLoaded, Without}
    /\ load \in [Loaders -> [at : {"new", "listing", "relisting", "fetching", "told", "rest",
                                   "ok", "failed", "conflict"},
                             got : Versions \cup {NotLoaded, Without}]]
    /\ pc \in {"route", "lead", "collect", "call", "stream", "gather", "done"}
    /\ tc \in Versions \cup {Bundle, NotLoaded, Without}
    /\ got \in 0..req.size /\ resp \in 0..Total /\ skip \in 0..1
    /\ sent \in 0..(Total - 1)
    /\ rpc \in {"none", "running", "ok", "error", "mute", "failed"}
    /\ block \in {"none", "empty", "json"}
    /\ answer \in {"open", "refused", "upgraded", "undescribed", "relayed", "ok", "error",
                   "unavailable", "internal", "deadline", "cut"}
    /\ expired \in BOOLEAN

Init ==
    /\ \E s \in Scenarios : source = s.source /\ routes = s.routes /\ req = s.req
    /\ up = 1 /\ snap = NotLoaded
    /\ load = [l \in Loaders |-> [at |-> IF l = "refresh" /\ Reflecting THEN "listing" ELSE "new",
                                  got |-> NotLoaded]]
    /\ pc = "route" /\ tc = NotLoaded /\ got = 0
    /\ rpc = "none" /\ resp = 0 /\ skip = 1 /\ sent = 0
    /\ block = "none" /\ answer = "open" /\ expired = FALSE

-----------------------------------------------------------------------------
(* The schema: schema.rs.                                                  *)

(* The upstream is redeployed with another schema.  External.              *)
Redeploy ==
    /\ up < MaxVersion
    /\ up' = up + 1
    /\ UNCHANGED <<source, snap, load, replyVars, requestVars>>

(* load_all: v1 of reflection is unimplemented, so v1alpha is asked.       *)
RetryV1alpha(l) ==
    /\ load[l].at = "listing"
    /\ load' = [load EXCEPT ![l].at = "relisting"]
    /\ UNCHANGED <<source, up, snap, replyVars, requestVars>>

ServicesListed(l) ==
    /\ load[l].at \in {"listing", "relisting"}
    /\ load' = [load EXCEPT ![l].at = "fetching"]
    /\ UNCHANGED <<source, up, snap, replyVars, requestVars>>

(* The files of the service and all they depend on, as the upstream serves *)
(* them by now.                                                            *)
ServiceFetched(l) ==
    /\ load[l].at = "fetching"
    /\ load' = [load EXCEPT ![l] = [at |-> "told", got |-> up]]
    /\ UNCHANGED <<source, up, snap, replyVars, requestVars>>

(* An error instead: the service is skipped, and the load goes on with the *)
(* others.                                                                 *)
ServiceSkipped(l) ==
    /\ load[l].at = "fetching"
    /\ load' = [load EXCEPT ![l] = [at |-> "told", got |-> Without]]
    /\ UNCHANGED <<source, up, snap, replyVars, requestVars>>

(* The refresh task rests after a load; a reload reports its result.       *)
Ended(l, result) == [at |-> IF l = "refresh" THEN "rest" ELSE result, got |-> NotLoaded]

(* Mutation: only the first load is kept.                                  *)
LoadLandsOnce(l) ==
    /\ load[l].at = "told"
    /\ snap' = IF snap = NotLoaded THEN load[l].got ELSE snap
    /\ load' = [load EXCEPT ![l] = Ended(l, "ok")]
    /\ UNCHANGED <<source, up, replyVars, requestVars>>

(* load_and_swap: the answer reaches the task and replaces the snapshot.   *)
LoadLands(l) ==
    /\ load[l].at = "told"
    /\ snap' = load[l].got
    /\ load' = [load EXCEPT ![l] = Ended(l, "ok")]
    /\ UNCHANGED <<source, up, replyVars, requestVars>>

(* load_and_swap: no list, no file at all, files that do not make a pool   *)
(* (a fetch cut short lacks some), or LOAD_TIMEOUT passed.                 *)
LoadFails(l) ==
    /\ load[l].at \in {"listing", "relisting", "fetching", "told"}
    /\ load' = [load EXCEPT ![l] = Ended(l, "failed")]
    /\ UNCHANGED <<source, up, snap, replyVars, requestVars>>

(* refresh_loop: the TTL, or the retry interval, has passed.               *)
RefreshWakes ==
    /\ load["refresh"].at = "rest"
    /\ load' = [load EXCEPT !["refresh"].at = "listing"]
    /\ UNCHANGED <<source, up, snap, replyVars, requestVars>>

(* handle_admin_reload: nothing to reload without reflection.              *)
AdminReload(l) ==
    /\ load[l].at = "new"
    /\ load' = [load EXCEPT ![l].at = IF Reflecting THEN "listing" ELSE "conflict"]
    /\ UNCHANGED <<source, up, snap, replyVars, requestVars>>

(* transcoder_any: the versions it may return, now.                        *)
transcoder_any ==
    CASE source = "None" -> {}
      [] source = "Bundled" -> {Bundle}
      [] source = "Reflection" -> {snap} \ {NotLoaded}
      [] source = "ReflectionOrBundled" -> {IF snap = NotLoaded THEN Bundle ELSE snap}

-----------------------------------------------------------------------------
(* The request, up to its dispatch: fetch.rs.                              *)

Json == {"json", "plain"}
RouteUnder(v) == IF v \in {NotLoaded, Without} THEN "unknown" ELSE routes[v]

Refuse == pc' = "done" /\ answer' = "refused" /\ UNCHANGED rpc
Dispatch == pc' = "call" /\ rpc' = "running" /\ UNCHANGED answer
Go(to) == pc' = to /\ UNCHANGED <<rpc, answer>>

(* handle_ws_upgrade's gating: annotated routes are JSON, main routes want *)
(* an explicit codec.                                                      *)
codec_reject(annotated) ==
    IF annotated THEN req.offer = "proto"
    ELSE req.offer \notin {"proto", "json"} /\ ~AllowImplicit

(* handle, for the requests that need no descriptors.                      *)
HandleAtOnce ==
    /\ pc = "route"
    /\ \/ req.kind = "other" /\ Refuse
       \/ req.kind = "grpc" /\ Dispatch
       \/ req.kind = "ws" /\ req.offer = "h2ts"
          /\ pc' = "done" /\ answer' = "upgraded" /\ UNCHANGED rpc
    /\ UNCHANGED <<schemaVars, routes, req, tc, got, resp, skip, sent, block, expired>>

(* handle, json_fetch and handle_ws_upgrade once transcoder_any returns    *)
(* version v; NotLoaded is its error.                                      *)
Described(v) ==
    /\ pc = "route"
    /\ tc' = v
    /\ \/ /\ req.kind = "proto"
          /\ IF RouteUnder(v) = "rest" THEN Refuse ELSE Go("lead")
       \/ /\ req.kind \in Json
          /\ IF v = NotLoaded
             THEN pc' = "done" /\ answer' = "undescribed" /\ UNCHANGED rpc
             ELSE Go("collect")
       \/ /\ req.kind = "ws" /\ req.offer # "h2ts"
          /\ pc' = "done" /\ UNCHANGED rpc
          /\ answer' = IF codec_reject(RouteUnder(v) = "rest") THEN "refused" ELSE "upgraded"
    /\ UNCHANGED <<schemaVars, routes, req, got, resp, skip, sent, block, expired>>

(* transcoder: the snapshot is there, or FIRST_LOAD_WAIT has passed.       *)
Describe == \E v \in transcoder_any : Described(v)
NoDescriptors == transcoder_any = {} /\ Described(NotLoaded)

(* frame_upstream_request and collect_bounded read a chunk of n bytes.     *)
ReadChunk(n) ==
    /\ pc \in {"lead", "collect"}
    /\ got + n <= req.size
    /\ got' = got + n
    /\ CASE pc = "lead" /\ got + n >= LenPrefix -> IF req.over THEN Refuse ELSE Dispatch
         [] pc = "collect" /\ got + n > MaxMessage -> Refuse
         [] OTHER -> Go(pc)
    /\ UNCHANGED <<schemaVars, routes, req, tc, resp, skip, sent, block, expired>>

(* json_fetch with the whole body: an annotated route, then a main path.   *)
Transcode ==
    IF /\ RouteUnder(tc) # "unknown"
       /\ RouteUnder(tc) = "main" => req.kind = "json" \/ AllowImplicit
       /\ req.valid
    THEN Dispatch ELSE Refuse

ReadEnd ==
    /\ pc \in {"lead", "collect"}
    /\ got = req.size
    /\ IF pc = "lead" THEN Refuse ELSE Transcode
    /\ UNCHANGED <<schemaVars, routes, req, tc, got, resp, skip, sent, block, expired>>

ReadBreaks ==
    /\ pc \in {"lead", "collect"}
    /\ Refuse
    /\ UNCHANGED <<schemaVars, routes, req, tc, got, resp, skip, sent, block, expired>>

-----------------------------------------------------------------------------
(* The response: unary_proto streams it, json_upstream gathers it.         *)

End(a) == pc' = "done" /\ answer' = a
Status(a) == End(a) /\ block' = "empty"

(* backend.call resolves; a trailers-only response has its status already. *)
Head(trailersOnly) ==
    /\ pc = "call"
    /\ IF req.kind = "grpc" THEN End("relayed")
       ELSE pc' = (IF req.kind = "proto" THEN "stream" ELSE "gather") /\ UNCHANGED answer
    /\ rpc' = IF trailersOnly THEN "error" ELSE rpc
    /\ UNCHANGED <<schemaVars, routes, req, tc, got, resp, skip, sent, block, expired>>

(* backend.call fails: a 502 for native gRPC, else UNAVAILABLE.            *)
CallFails ==
    /\ pc = "call"
    /\ IF req.kind = "grpc" THEN End("relayed") /\ UNCHANGED block ELSE Status("unavailable")
    /\ rpc' = "failed"
    /\ UNCHANGED <<schemaVars, routes, req, tc, got, resp, skip, sent, expired>>

(* A data frame of n bytes; the first byte of all is the compression flag. *)
Data(n) ==
    /\ pc \in {"stream", "gather"} /\ rpc = "running"
    /\ resp + n <= Total
    /\ resp' = resp + n
    /\ IF pc = "stream"
       THEN skip' = skip - MinOf(skip, n) /\ sent' = sent + n - MinOf(skip, n)
       ELSE UNCHANGED <<skip, sent>>
    /\ UNCHANGED <<schemaVars, requestVars, rpc, block, answer, expired>>

(* The last of the response: trailers with OK after the one message, with  *)
(* an error without it or with it, or none with a readable grpc-status,    *)
(* anywhere.                                                               *)
Trailers(s) ==
    /\ pc \in {"stream", "gather"} /\ rpc = "running"
    /\ resp = Total \/ (s = "error" /\ resp = 0) \/ s = "mute"
    /\ rpc' = s
    /\ UNCHANGED <<schemaVars, requestVars, resp, skip, sent, block, answer, expired>>

(* The response body fails: a stream can only break off.                   *)
BodyFails ==
    /\ pc \in {"stream", "gather"} /\ rpc = "running"
    /\ rpc' = "failed"
    /\ IF pc = "stream" THEN End("cut") /\ UNCHANGED block ELSE Status("unavailable")
    /\ UNCHANGED <<schemaVars, routes, req, tc, got, resp, skip, sent, expired>>

(* read_status: no status is code 0.                                       *)
read_status == IF rpc = "mute" THEN "ok" ELSE rpc

(* The response body ends: the trailer block, or the JSON answer, with a   *)
(* body if there is a whole message that has bytes.                        *)
BodyEnds ==
    /\ rpc \in {"ok", "error", "mute"}
    /\ \/ /\ pc = "stream"
          /\ End(read_status)
          /\ block' = IF sent = 0 THEN "empty" ELSE block
       \/ /\ pc = "gather"
          /\ IF read_status = "ok" /\ resp = Total /\ req.reply # 0
             THEN \/ End("ok") /\ block' = "json"
                  \/ Status("internal")
             ELSE Status(read_status)
    /\ UNCHANGED <<schemaVars, routes, req, tc, got, rpc, resp, skip, sent, expired>>

(* Mutation: the body is read without a timeout.                           *)
DeadlineOnCall ==
    /\ req.timed /\ req.kind # "grpc" /\ pc = "call"
    /\ expired' = TRUE
    /\ Status("deadline")
    /\ UNCHANGED <<schemaVars, routes, req, tc, got, rpc, resp, skip, sent>>

(* Mutation: a status follows a cut message.                               *)
DeadlineAlwaysReports ==
    /\ req.timed /\ req.kind # "grpc" /\ pc \in {"call", "stream", "gather"}
    /\ expired' = TRUE
    /\ Status("deadline")
    /\ UNCHANGED <<schemaVars, routes, req, tc, got, rpc, resp, skip, sent>>

(* tokio::time::timeout around the call, the body frames, or both.         *)
Deadline ==
    /\ req.timed /\ req.kind # "grpc" /\ pc \in {"call", "stream", "gather"}
    /\ expired' = TRUE
    /\ IF pc = "stream" /\ sent > 0 THEN End("cut") /\ UNCHANGED block ELSE Status("deadline")
    /\ UNCHANGED <<schemaVars, routes, req, tc, got, rpc, resp, skip, sent>>

-----------------------------------------------------------------------------
Schema ==
    \/ Redeploy
    \/ \E l \in Loaders : RetryV1alpha(l) \/ ServicesListed(l) \/ ServiceFetched(l) \/ ServiceSkipped(l)
    \/ \E l \in Loaders : LoadLands(l) \/ LoadFails(l)
    \/ RefreshWakes
    \/ \E l \in Reloads : AdminReload(l)

Read == ReadEnd \/ \E n \in 1..req.size : ReadChunk(n)

Backend ==
    \/ \E b \in BOOLEAN : Head(b)
    \/ CallFails
    \/ \E n \in 1..Total : Data(n)
    \/ \E s \in {"ok", "error", "mute"} : Trailers(s)
    \/ BodyFails

Next ==
    \/ Schema
    \/ HandleAtOnce \/ Describe \/ NoDescriptors
    \/ Read \/ ReadBreaks
    \/ Backend \/ BodyEnds \/ Deadline

Spec == Init /\ [][Next]_vars

(* tokio runs what is ready and fires its timers; the client goes on       *)
(* sending; an upstream that answers reflection again and again is         *)
(* listened to.  Nothing is asked of the backend.                          *)
FairSpec ==
    /\ Spec
    /\ WF_vars(HandleAtOnce \/ Describe \/ NoDescriptors)
    /\ WF_vars(Read) /\ WF_vars(BodyEnds) /\ WF_vars(Deadline)
    /\ WF_vars(RefreshWakes)
    /\ SF_vars(ServicesListed("refresh")) /\ SF_vars(ServiceFetched("refresh"))
    /\ SF_vars(LoadLands("refresh"))
    /\ \A l \in Reloads : WF_vars(LoadLands(l) \/ LoadFails(l))

-----------------------------------------------------------------------------
(* The answer as its caller sees it: decode_response_body of the bytes of  *)
(* the message block, or the block or body the handler wrote.  A JSON      *)
(* answer without a body is no JSON, whatever its status.                  *)
take_block(n) ==
    IF n = 0 THEN "none" ELSE IF n = LenPrefix + req.reply THEN "whole" ELSE "part"

CallerBody ==
    CASE block = "json" -> "whole"
      [] block = "empty" -> "empty"
      [] block = "none" -> take_block(sent)

CallerAnswer == IF answer \in {"refused", "upgraded", "undescribed"} THEN "local" ELSE answer

(* json_upstream renders a message only if it has bytes (against           *)
(* PROTOCOL.md, which wants the bare JSON message in every OK answer).     *)
Unrendered == req.kind \in Json /\ req.reply = 0

Promise == INSTANCE UnaryAnswer
           WITH body <- CallerBody, answer <- CallerAnswer, unrendered <- Unrendered

(* Whatever the backend, the client and the clock do, a Fetch answer       *)
(* implements UnaryAnswer: one status, true of the RPC, behind a whole     *)
(* block, or an answer that visibly breaks off.  The exceptions are those  *)
(* UnaryAnswer names: an OK JSON answer whose message has no bytes has no  *)
(* body, and a response without a grpc-status is answered OK.              *)
UnaryPromise == Promise!Spec

(* Loads overlap, an older answer may replace a newer one, and a redeploy  *)
(* may fall between the list and the files; with an upstream that settles, *)
(* the snapshot settles on what it serves, unless its service is skipped   *)
(* again and again.                                                        *)
FreshInTheEnd ==
    Reflecting => \/ <>[](snap = up)
                  \/ []<><<\E l \in Loaders : ServiceSkipped(l)>>_vars

(* A call with a deadline is answered though the backend never says a      *)
(* word, never finishes its body, or has no descriptors to offer.          *)
AnsweredInTheEnd ==
    (req.timed /\ req.kind # "grpc") ~> (answer # "open")
=============================================================================
