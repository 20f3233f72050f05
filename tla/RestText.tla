------------------------------ MODULE RestText ------------------------------
(***************************************************************************)
(* What the REST transcoders of both servers (httprule.rs, httprule.go)    *)
(* take from their libraries: operations on text, message descriptors and  *)
(* the protobuf-JSON decoder.                                              *)
(*                                                                         *)
(* Text is a sequence of tokens: punctuation, "*", "**", escapes such as   *)
(* "%2F", and words.  A message is a function from the paths of the fields *)
(* that are set (sequences of proto names) to their values, and an empty   *)
(* or a one-element set is an optional result.                             *)
(***************************************************************************)
EXTENDS Integers, SequencesExt

CONSTANT Descriptor   \* message type |-> its fields: [name, json, kind, type, list]

Map(Op(_), s) == [i \in DOMAIN s |-> Op(s[i])]
Bind(Op(_), option) == UNION {Op(x) : x \in option}

-----------------------------------------------------------------------------
(* str::split and strings.Split, split_once and strings.Cut, join.         *)
Split(s, sep) ==
    LET step(ss, c) == IF c = sep THEN Append(ss, <<>>)
                       ELSE [ss EXCEPT ![Len(ss)] = Append(@, c)]
    IN  FoldLeft(step, << <<>> >>, s)

Cut(s, sep) ==
    LET i == SelectInSeq(s, LAMBDA c : c = sep)
    IN  IF i = 0 THEN [before |-> s, after |-> <<>>, found |-> FALSE]
        ELSE [before |-> SubSeq(s, 1, i - 1), after |-> SubSeq(s, i + 1, Len(s)), found |-> TRUE]

NonEmpty(ss) == SelectSeq(ss, LAMBDA s : s # <<>>)

JoinBy(ss, sep) ==
    LET step(s, t) == s \o <<sep>> \o t
    IN  IF ss = <<>> THEN <<>> ELSE FoldLeft(step, Head(ss), Tail(ss))

Upper == [get |-> "GET", put |-> "PUT", post |-> "POST", delete |-> "DELETE",
          patch |-> "PATCH", purge |-> "PURGE"]
to_upper(w) == IF w \in DOMAIN Upper THEN Upper[w] ELSE w

-----------------------------------------------------------------------------
(* Numerals: "7", "big", which does not fit 32 bits, "huge", which no      *)
(* float can hold, and "0x1p4".                                            *)
Digits32 == {"0", "1", "7"}
Digits == Digits32 \cup {"big"}
Unsign(raw) == IF Len(raw) = 2 THEN Tail(raw) ELSE raw
Signed(raw, signs) == Len(raw) = 1 \/ (Len(raw) = 2 /\ Head(raw) \in signs)
(* The number a text denotes: a leading plus is dropped.                   *)
Number(raw, signs, digits) ==
    IF raw # <<>> /\ Signed(raw, signs) /\ Unsign(raw)[1] \in digits
    THEN {IF Head(raw) = "+" THEN Tail(raw) ELSE raw} ELSE {}

(* prost-reflect's and protojson's decoding of a message, which refuses an *)
(* unknown field.                                                          *)
JsonMessage(type, j) ==
    IF j.json = "object" /\ \A p \in DOMAIN j.fields : \E f \in Descriptor[type] : f.name = Head(p)
    THEN {j.fields} ELSE {}

(* prost-reflect's and protojson's decoding of one field.  JSON is a       *)
(* string, a bare literal, an array of strings, an object or malformed,    *)
(* which a text of blanks only is to both.                                 *)
JsonDecode(f, j) ==
    CASE f.list -> IF j.json = "array" THEN {j.items} ELSE {}
      [] f.kind = "message" /\ f.type \in DOMAIN Descriptor -> JsonMessage(f.type, j)
      [] f.kind = "message" /\ f.type = "BoolValue" ->
             IF j.json = "bare" /\ j.text \in {<<"true">>, <<"false">>} THEN {j.text} ELSE {}
      [] f.kind \in {"string", "bytes", "message"} -> IF j.json = "string" THEN {j.text} ELSE {}
      [] OTHER -> IF j.json \in {"bare", "string"} THEN Number(j.text, {"-"}, Digits) ELSE {}

(* Assigning a field, and with it everything below it.                     *)
SetField(msg, path, value) ==
    LET below == {q \in DOMAIN msg : IsPrefix(path, q)}
    IN  [q \in (DOMAIN msg \ below) \cup {path} |-> IF q = path THEN value ELSE msg[q]]
SetMessage(msg, path, sub) ==
    LET below == {q \in DOMAIN msg : IsPrefix(path, q)}
        moved == {path \o q : q \in DOMAIN sub}
    IN  [q \in (DOMAIN msg \ below) \cup moved |->
            IF q \in moved THEN sub[SubSeq(q, Len(path) + 1, Len(q))] ELSE msg[q]]
Assign(msg, path, f, value) ==
    IF f.kind = "message" /\ f.type \in DOMAIN Descriptor /\ ~f.list
    THEN SetMessage(msg, path, value) ELSE SetField(msg, path, value)
NewMessage == [q \in {} |-> <<>>]
=============================================================================
