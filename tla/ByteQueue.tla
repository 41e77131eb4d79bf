----------------------------- MODULE ByteQueue -----------------------------
(***************************************************************************)
(* What a ring buffer promises: a bounded queue of bytes.  A put keeps     *)
(* what fits; a forced put drops the oldest bytes instead.                 *)
(***************************************************************************)
EXTENDS Naturals, Sequences

CONSTANTS
    Byte, Capacity,
    Longest         \* the longest piece put at a time

VARIABLES
    content,        \* the bytes in the queue, the oldest first
    last            \* the last call: what it was, the size it returned, and the
                    \* bytes it was given or gave

byteVars == <<content, last>>

Piece == UNION {[1..n -> Byte] : n \in 1..Longest}

Least(a, b) == IF a < b THEN a ELSE b
Front(s, n) == SubSeq(s, 1, Least(n, Len(s)))
Back(s, n) == SubSeq(s, Len(s) - Least(n, Len(s)) + 1, Len(s))

Returned(call, n, bytes) == last' = [call |-> call, size |-> n, bytes |-> bytes]

ByteInit ==
    /\ content = << >>
    /\ last = [call |-> "none", size |-> 0, bytes |-> << >>]

Keep(p) ==
    LET kept == Front(p, Capacity - Len(content))
    IN content' = content \o kept /\ Returned("put", Len(kept), p)

Force(p) ==
    /\ content' = Back(content \o p, Capacity)
    /\ Returned("force", Least(Len(p), Capacity), p)

Fetch(n) ==
    LET bytes == Front(content, n)
    IN /\ content' = SubSeq(content, Len(bytes) + 1, Len(content))
       /\ Returned("get", Len(bytes), bytes)

Wipe == content' = << >> /\ Returned("reset", 0, << >>)

ByteNext ==
    \/ \E p \in Piece : Keep(p) \/ Force(p)
    \/ \E n \in 0..Capacity : Fetch(n)
    \/ Wipe

ByteSpec == ByteInit /\ [][ByteNext]_byteVars

=============================================================================
