----------------------------- MODULE MCH2tsCall -----------------------------
(* Two-byte lengths of binary digits: a size of 2 or 3 reaches the high     *)
(* byte.  The limit is 1 on both sides.                                     *)
EXTENDS H2tsCall

Message(size) == [flag |-> 0, size |-> size, fill |-> 1]
Compressed == [flag |-> 1, size |-> 1, fill |-> 0]

Call(kind, timeout, asks, replies) ==
    [kind |-> kind, timeout |-> timeout, asks |-> asks, replies |-> replies, endless |-> FALSE]

In(n, unit) == [n |-> n, unit |-> unit]
Soon == In(1, "m")

One == <<Message(1)>>
Asks == {One, <<Message(2)>>, <<Message(0), Message(1)>>, <<Message(0), Message(2)>>}
Replies == {<<>>, One, <<Message(0), Message(1)>>, <<Message(1), Message(2)>>,
            <<Message(0), Compressed>>}

(* Every kind of call; every request against one reply, every reply against *)
(* one request, every timeout against one of each; and a stream that does   *)
(* not end by itself.  Client's longest timeout has too many digits of      *)
(* milliseconds, tonic's too many seconds, or a unit nobody knows.          *)
MCScripts ==
    {Call(k, Soon, a, One) : k \in Kinds, a \in Asks}
      \cup {Call(k, t, One, r) : k \in Kinds, t \in {NoTimeout, Soon}, r \in Replies}
      \cup {Call(k, t, One, One) : k \in {"unary", "stream"}, t \in {In(1, "u"), In(MaxU64, "S")}}
      \cup {Call("tonic", t, One, One) : t \in {In(MaxU64, "H"), In(MaxU64, "M"), In(1, "x")}}
      \cup {[Call(k, Soon, One, One) EXCEPT !.endless = TRUE] : k \in {"stream", "tonic"}}
=============================================================================
