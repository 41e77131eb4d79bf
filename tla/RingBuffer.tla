----------------------------- MODULE RingBuffer -----------------------------
(***************************************************************************)
(* Ring buffers (ringbuffer.c): a read and a write index, each with a      *)
(* mirror bit that turns over when the index wraps; equal indices mean     *)
(* empty when the mirrors agree and full when they differ.  The callers    *)
(* exclude each other, so an operation is one step.                        *)
(***************************************************************************)
EXTENDS Naturals, Sequences

CONSTANTS
    RbByte,         \* the bytes
    RbSize,         \* buffer_size
    RbLongest       \* bound: the longest piece put or asked for at a time

ASSUME RbConstants == RbSize \in Nat \ {0} /\ RbLongest \in Nat \ {0}

VARIABLES
    rb,             \* buffer, indices and mirrors
    rbBack          \* the last call: what it was, the size it returned, and the
                    \* bytes at ptr, which a put was given and a get has filled

rbVars == <<rb, rbBack>>

Returns(call, n, bytes) == rbBack' = [call |-> call, size |-> n, bytes |-> bytes]

RbPiece == UNION {[1..n -> RbByte] : n \in 1..RbLongest}

rt_ringbuffer_status(x) ==
    IF x.ri # x.wi THEN "halffull" ELSE IF x.rm = x.wm THEN "empty" ELSE "full"

rt_ringbuffer_data_len(x) ==
    CASE rt_ringbuffer_status(x) = "empty" -> 0
      [] rt_ringbuffer_status(x) = "full" -> RbSize
      [] OTHER -> IF x.wi > x.ri THEN x.wi - x.ri ELSE RbSize - (x.ri - x.wi)

rt_ringbuffer_space_len(x) == RbSize - rt_ringbuffer_data_len(x)

\* The one or two rt_memcpy calls of a put, and of a get.
CopyIn(x, p) ==
    [i \in 0..(RbSize - 1) |->
        IF i >= x.wi /\ i - x.wi < Len(p) THEN p[i - x.wi + 1]
        ELSE IF i < Len(p) - (RbSize - x.wi) THEN p[RbSize - x.wi + i + 1]
        ELSE x.buf[i]]

CopyOut(x, n) ==
    [j \in 1..n |-> IF j <= RbSize - x.ri THEN x.buf[x.ri + j - 1]
                    ELSE x.buf[j - 1 - (RbSize - x.ri)]]

\* An index moves on by n, into the other side of the mirror if it wraps.
MoveWrite(x, n) ==
    IF RbSize - x.wi > n THEN [x EXCEPT !.wi = @ + n]
    ELSE [x EXCEPT !.wi = n - (RbSize - @), !.wm = ~@]

MoveRead(x, n) ==
    IF RbSize - x.ri > n THEN [x EXCEPT !.ri = @ + n]
    ELSE [x EXCEPT !.ri = n - (RbSize - @), !.rm = ~@]

\* rt_ringbuffer_put of a piece that fits; also the whole of rt_ringbuffer_putchar.
Store(x, p) == MoveWrite([x EXCEPT !.buf = CopyIn(x, p)], Len(p))

-----------------------------------------------------------------------------
\* rt_ringbuffer_put and rt_ringbuffer_putchar keep what fits.
RbPut(p) ==
    LET space == rt_ringbuffer_space_len(rb)
        fits == IF space < Len(p) THEN SubSeq(p, 1, space) ELSE p
    IN /\ rb' = IF space = 0 THEN rb ELSE Store(rb, fits)
       /\ Returns("put", Len(fits), p)

\* rt_ringbuffer_put_force: the last bytes of a piece that is too long; the read
\* index follows when bytes were overwritten.
RbPutForce(p) ==
    LET last == IF Len(p) > RbSize THEN SubSeq(p, Len(p) - RbSize + 1, Len(p)) ELSE p
        x == Store(rb, last)
        wraps == RbSize - rb.wi <= Len(last)
    IN /\ rb' = IF Len(last) <= rt_ringbuffer_space_len(rb) THEN x
                ELSE [x EXCEPT !.ri = x.wi,
                               !.rm = IF wraps /\ x.wi <= rb.ri THEN ~@ ELSE @]
       /\ Returns("force", Len(last), p)

\* Mutant: the mirror of the read index does not turn over.
Mut_force_no_mirror(b) ==
    LET full == rt_ringbuffer_status(rb) = "full"
        x == Store(rb, <<b>>)
    IN /\ rb' = IF full THEN [x EXCEPT !.ri = x.wi] ELSE x
       /\ Returns("force", 1, <<b>>)

\* rt_ringbuffer_putchar_force decides by the state before the put.
RbPutCharForce(b) ==
    LET full == rt_ringbuffer_status(rb) = "full"
        x == Store(rb, <<b>>)
    IN /\ rb' = IF ~full THEN x
                ELSE [x EXCEPT !.ri = x.wi, !.rm = IF x.wi = 0 THEN ~@ ELSE @]
       /\ Returns("force", 1, <<b>>)

\* rt_ringbuffer_get and rt_ringbuffer_getchar.
RbGet(n) ==
    LET len == rt_ringbuffer_data_len(rb)
        m == IF len < n THEN len ELSE n
    IN /\ Returns("get", m, CopyOut(rb, m))
       /\ rb' = IF len = 0 THEN rb ELSE MoveRead(rb, m)

\* rt_ringbuffer_peak hands out the bytes up to the end of the buffer.
RbPeak ==
    LET len == rt_ringbuffer_data_len(rb)
        m == IF RbSize - rb.ri > len THEN len ELSE RbSize - rb.ri
    IN /\ len > 0
       /\ Returns("get", m, CopyOut(rb, m))
       /\ rb' = MoveRead(rb, m)

RbReset ==
    /\ rb' = [rb EXCEPT !.ri = 0, !.wi = 0, !.rm = FALSE, !.wm = FALSE]
    /\ Returns("reset", 0, << >>)

\* rt_ringbuffer_create and rt_ringbuffer_init.
RbInit ==
    /\ \E b \in RbByte : rb = [buf |-> [i \in 0..(RbSize - 1) |-> b],
                               ri |-> 0, wi |-> 0, rm |-> FALSE, wm |-> FALSE]
    /\ rbBack = [call |-> "none", size |-> 0, bytes |-> << >>]

RbNext ==
    \/ \E p \in RbPiece : RbPut(p) \/ RbPutForce(p)
    \/ \E b \in RbByte : RbPutCharForce(b)
    \/ \E n \in 1..RbLongest : RbGet(n)
    \/ RbPeak \/ RbReset

RbSpec == RbInit /\ [][RbNext]_rbVars

-----------------------------------------------------------------------------
\* Indices and mirrors: a write index that is not behind the read index is on the
\* same side of the mirror, one that is not before it may be on the other.
RbInductive ==
    /\ rb \in [buf : [0..(RbSize - 1) -> RbByte], ri : 0..(RbSize - 1),
               wi : 0..(RbSize - 1), rm : BOOLEAN, wm : BOOLEAN]
    /\ IF rb.rm = rb.wm THEN rb.ri <= rb.wi ELSE rb.wi <= rb.ri

RbPromise == INSTANCE ByteQueue
    WITH Byte <- RbByte, Capacity <- RbSize, Longest <- RbLongest,
         content <- CopyOut(rb, rt_ringbuffer_data_len(rb)), last <- rbBack

\* Indices and mirror bits describe a queue of bytes: nothing is lost, repeated
\* or reordered when an index wraps, when the buffer is full or when bytes are
\* overwritten (ringbuffer.c:83, 160 and 321).
ImplementsByteQueue == RbPromise!ByteSpec

=============================================================================
