---------------------------- MODULE GrpcFraming ----------------------------
(* gRPC's message framing and the two incremental parsers of it that a call *)
(* through the h2ts tunnel meets: the server's GrpcSizeLimit (h2ts.rs) on   *)
(* the request and the Rust client's Deframer (codec.rs) on the response.   *)
(* A byte is a number; a message is a flag, a size and the byte it is       *)
(* filled with.                                                             *)
EXTENDS Integers, Sequences

CONSTANTS
    LenPrefix,  \* bytes of a length, 4 in the code
    Base        \* values of a byte, 256 in the code

ASSUME FramingAssumption == LenPrefix \in Nat \ {0} /\ Base \in Nat \ {0, 1}

HeaderLen == 1 + LenPrefix

BigEndian(n) == [i \in 1..LenPrefix |-> (n \div Base^(LenPrefix - i)) % Base]
FromBigEndian(s) ==
    LET value[i \in 0..LenPrefix] == IF i = 0 THEN 0 ELSE value[i - 1] * Base + s[i]
    IN  value[LenPrefix]

Payload(m) == [i \in 1..m.size |-> m.fill]

(* encode_message, and a whole stream of messages.                         *)
encode_message(m) == <<m.flag>> \o BigEndian(m.size) \o Payload(m)
Wire(ms) ==
    LET upto[k \in 0..Len(ms)] == IF k = 0 THEN <<>> ELSE upto[k - 1] \o encode_message(ms[k])
    IN  upto[Len(ms)]

(* The reference: where message k ends, and the messages whole in n bytes. *)
EndOf(ms, k) == Len(Wire(SubSeq(ms, 1, k)))
WholeIn(ms, n) == {k \in 1..Len(ms) : EndOf(ms, k) <= n}
HeaderIn(ms, n) == {k \in 1..Len(ms) : EndOf(ms, k - 1) + HeaderLen <= n}

-----------------------------------------------------------------------------
(* GrpcSizeLimit: its parse state, and `bad` once it has failed the body.  *)
Limiter == [header_seen |-> 0, len_buf |-> [i \in 1..LenPrefix |-> 0],
            body_remaining |-> 0, bad |-> FALSE]

(* One byte of a frame's header, of which `seen` have been seen before.    *)
HeaderByte(q, seen, byte, max) ==
    LET buf == IF seen = 0 THEN q.len_buf ELSE [q.len_buf EXCEPT ![seen] = byte]
        len == FromBigEndian(buf)
        whole == seen + 1 = HeaderLen
    IN  [header_seen |-> seen + 1, len_buf |-> buf,
         body_remaining |-> IF whole /\ len <= max THEN len ELSE 0,
         bad |-> whole /\ len > max]

(* The loop of inspect on one byte.  An empty message ends where its       *)
(* header does, and the loop comes round to the next header first.         *)
InspectByte(q, byte, max) ==
    CASE q.bad -> q
      [] ~q.bad /\ q.header_seen < HeaderLen -> HeaderByte(q, q.header_seen, byte, max)
      [] ~q.bad /\ q.header_seen = HeaderLen /\ q.body_remaining = 0 -> HeaderByte(q, 0, byte, max)
      [] OTHER -> [q EXCEPT !.body_remaining = @ - 1,
                            !.header_seen = IF q.body_remaining = 1 THEN 0 ELSE @]

inspect(q, data, max) ==
    LET after[i \in 0..Len(data)] ==
          IF i = 0 THEN q ELSE InspectByte(after[i - 1], data[i], max)
    IN  after[Len(data)]

-----------------------------------------------------------------------------
(* Deframer.push: what it returns and what it keeps buffered.  An error    *)
(* returns nothing of what the same chunk completed before it.             *)
Stop(buf, offset) ==
    [out |-> <<>>, buffer |-> SubSeq(buf, offset + 1, Len(buf)), err |-> "none"]
Fail(buf, err) == [out |-> <<>>, buffer |-> buf, err |-> err]

push(buffer, chunk, max) ==
    LET buf == buffer \o chunk
        from[offset \in 0..Len(buf)] ==
          IF Len(buf) - offset < HeaderLen THEN Stop(buf, offset)
          ELSE IF buf[offset + 1] # 0 THEN Fail(buf, "unimplemented")
          ELSE LET len == FromBigEndian(SubSeq(buf, offset + 2, offset + HeaderLen))
                   end == offset + HeaderLen + len
               IN  IF len > max THEN Fail(buf, "exhausted")
                   ELSE IF end > Len(buf) THEN Stop(buf, offset)
                   ELSE IF from[end].err # "none" THEN from[end]
                   ELSE [from[end] EXCEPT
                           !.out = <<SubSeq(buf, offset + HeaderLen + 1, end)>> \o @]
    IN  from[0]
=============================================================================
