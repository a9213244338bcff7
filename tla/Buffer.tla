------------------------------- MODULE Buffer -------------------------------
(***************************************************************************)
(* tt_buf_t (source/algorithm/tt_buffer.c) and the memory spring it grows   *)
(* with (source/memory/tt_memory_spring.c).                                 *)
(*                                                                          *)
(* A buffer is an array p with two positions: [rpos, wpos) can be read, the *)
(* space behind wpos be written.  The array is the buffer's own initbuf,    *)
(* allocated memory, or memory of the user (then the buffer is read-only).  *)
(* Operations are functions from buffers to sets of outcomes, as memory may *)
(* be short.                                                                *)
(***************************************************************************)
EXTENDS Naturals, Sequences

CONSTANTS Byte,       \* contents
          Dirt,       \* a byte that was not written
          InitSize,   \* TT_BUF_INIT_SIZE
          MinExtend, MaxExtend, MaxLimit,   \* 0 < min_extend < max_extend < max_limit, or
                                            \* max_limit = 0: tt_memspg_init()
          Span,       \* the values of a tt_u32_t
          MaxLen      \* bound: bytes of one call

VARIABLE buf

size(b) == Len(b.p)

TT_BUF_RLEN(b) == b.wpos - b.rpos

TT_BUF_WLEN(b) == size(b) - b.wpos

Readable(b) == SubSeq(b.p, b.rpos + 1, b.wpos)

\* What was read and can be had again with tt_buf_dec_rp().
Past(b) == SubSeq(b.p, 1, b.rpos)

Data == UNION {[1 .. n -> Byte] : n \in 0 .. MaxLen}

Unset(n) == [i \in 1 .. n |-> Dirt]

OK(b) == [ok |-> TRUE, b |-> b]

Fail(b) == [ok |-> FALSE, b |-> b]

-----------------------------------------------------------------------------
(* The memory spring.                                                       *)

\* 0 if the size would be too large.
tt_memspg_next_size(n) ==
    IF n < MinExtend THEN MinExtend
    ELSE IF n <= MaxExtend THEN 2 * n
    ELSE LET next == (n + MaxExtend) % Span
         IN  IF next < n \/ (MaxLimit # 0 /\ next > MaxLimit) THEN 0 ELSE next

\* The size tt_memspg_extend_ex() comes to, from n to at least to; or 0.
Grown(n, to) ==
    LET g[k \in 0 .. Span] == LET next == tt_memspg_next_size(k)
                              IN  IF next = 0 \/ next >= to THEN next ELSE g[next]
    IN  g[n]

\* tt_memspg_extend_ex() on the array of b.
Extended(b, to) ==
    {Fail(b)} \cup
    IF Grown(size(b), to) = 0 THEN {}
    ELSE {OK([b EXCEPT !.p = @ \o Unset(Grown(size(b), to) - size(b)), !.place = "heap"])}

\* The bytes from from to to in an array of their own; rpos and wpos are not its to set.
tt_memspg_compress_range(b, from, to) ==
    {Fail(b), OK([b EXCEPT !.p = SubSeq(@, from + 1, to), !.place = "heap"])}

-----------------------------------------------------------------------------
(* Operations.                                                              *)

ReadOnly(b) == b.place = "user"

__buf_extend(b, to) == IF ReadOnly(b) THEN {Fail(b)} ELSE Extended(b, to)

tt_buf_reserve(b, n) ==
    IF TT_BUF_WLEN(b) >= n THEN {OK(b)} ELSE __buf_extend(b, (size(b) + n) % Span)

tt_buf_extend(b) == __buf_extend(b, (size(b) + 1) % Span)

\* Writes s into the array of b, from position i on.
Written(b, i, s) ==
    [b EXCEPT !.p = [k \in DOMAIN @ |-> IF k - i \in DOMAIN s THEN s[k - i] ELSE @[k]]]

\* What comes of b if it has, or gets, room for n more bytes.
WithRoom(b, n, Then(_)) ==
    {IF o.ok THEN OK(Then(o.b)) ELSE o : o \in tt_buf_reserve(b, n)}

tt_buf_put(b, data) ==
    IF ReadOnly(b) THEN {Fail(b)}
    ELSE WithRoom(b, Len(data),
                  LAMBDA c : [Written(c, c.wpos, data) EXCEPT !.wpos = @ + Len(data)])

tt_buf_set(b, pos, data) ==
    IF b.rpos + pos + Len(data) > b.wpos THEN Fail(b) ELSE OK(Written(b, b.rpos + pos, data))

\* Wrong variant: the new bytes are there before the ones behind them are moved.
Spliced_late(b, pos, len, data) ==
    LET c == Written(b, b.rpos + pos, data)
    IN  [Written(c, c.rpos + pos + Len(data), SubSeq(Readable(c), pos + len + 1, TT_BUF_RLEN(c)))
            EXCEPT !.wpos = @ + Len(data) - len]

\* tt_memmove() of what is behind, then tt_memcpy().
Spliced(b, pos, len, data) ==
    LET tail == SubSeq(Readable(b), pos + len + 1, TT_BUF_RLEN(b))
    IN  [Written(Written(b, b.rpos + pos + Len(data), tail), b.rpos + pos, data)
            EXCEPT !.wpos = @ + Len(data) - len]

tt_buf_set_range(b, pos, len, data) ==
    IF b.rpos + pos + len > b.wpos THEN {Fail(b)}
    ELSE IF len < Len(data)
         THEN WithRoom(b, Len(data) - len, LAMBDA c : Spliced(c, pos, len, data))
         ELSE {OK(Spliced(b, pos, len, data))}

\* For more than InitSize bytes the array is replaced, and rpos and wpos stay as
\* they are.
tt_buf_compress(b) ==
    IF ReadOnly(b) THEN {Fail(b)}
    ELSE IF TT_BUF_RLEN(b) <= InitSize
    THEN {OK([p |-> Readable(b) \o Unset(InitSize - TT_BUF_RLEN(b)), place |-> "init",
              rpos |-> 0, wpos |-> TT_BUF_RLEN(b)])}
    ELSE tt_memspg_compress_range(b, b.rpos, b.wpos)

tt_buf_refine(b) ==
    IF ReadOnly(b) \/ b.rpos = 0 THEN b
    ELSE [Written(b, 0, Readable(b)) EXCEPT !.rpos = 0, !.wpos = TT_BUF_RLEN(b)]

tt_buf_try_refine(b, threshold) ==
    IF b.rpos = b.wpos \/ b.rpos >= threshold THEN tt_buf_refine(b) ELSE b

\* Also tt_buf_get(), tt_buf_get_nocopy().
tt_buf_inc_rp(b, n) ==
    IF n <= TT_BUF_RLEN(b) THEN OK([b EXCEPT !.rpos = @ + n]) ELSE Fail(b)

tt_buf_dec_rp(b, n) ==
    IF n <= b.rpos THEN OK([b EXCEPT !.rpos = @ - n]) ELSE Fail(b)

tt_buf_inc_wp(b, n) ==
    IF n <= TT_BUF_WLEN(b) THEN OK([b EXCEPT !.wpos = @ + n]) ELSE Fail(b)

tt_buf_dec_wp(b, n) ==
    IF n <= TT_BUF_RLEN(b) THEN OK([b EXCEPT !.wpos = @ - n]) ELSE Fail(b)

tt_buf_reset_rwp(b) == [b EXCEPT !.rpos = 0, !.wpos = 0]

-----------------------------------------------------------------------------
(* A buffer under any sequence of calls.                                    *)

\* tt_buf_create(), for less than InitSize bytes or for n, and tt_buf_create_nocopy().
Created ==
    LET New(p, place) == [p |-> p, place |-> place, rpos |-> 0, wpos |-> 0]
    IN  {New(Unset(InitSize), "init")}
        \cup {New(Unset(Grown(0, n)), "heap") : n \in InitSize .. InitSize + MaxLen}
        \cup {[New(d, "user") EXCEPT !.wpos = Len(d)] : d \in Data}

Init == buf \in Created

\* TT_ASSERT_ALWAYS(to_size > *size) lets nobody ask for more than a tt_u32_t can say.
Sayable(n) == size(buf) + n < Span

\* Positions and lengths up to one beyond what is there.
Beyond(n) == 0 .. n + 1

Store ==
    \/ \E d \in Data : Sayable(Len(d)) /\ \E o \in tt_buf_put(buf, d) : buf' = o.b
    \/ \E d \in Data, i \in Beyond(TT_BUF_RLEN(buf)) : buf' = tt_buf_set(buf, i, d).b
    \/ \E d \in Data, i \in 0 .. TT_BUF_RLEN(buf) : \E n \in Beyond(TT_BUF_RLEN(buf) - i) :
          Sayable(Len(d)) /\ \E o \in tt_buf_set_range(buf, i, n, d) : buf' = o.b

\* The user writes behind wpos, then moves it.
Move ==
    \/ \E n \in Beyond(buf.wpos) :
          buf' \in {tt_buf_inc_rp(buf, n).b, tt_buf_dec_rp(buf, n).b, tt_buf_dec_wp(buf, n).b}
    \/ \E d \in Data : /\ Len(d) <= TT_BUF_WLEN(buf)
                       /\ buf' = tt_buf_inc_wp(Written(buf, buf.wpos, d), Len(d)).b

\* rpos and wpos are right after tt_buf_compress() as it is: it does not move them
\* when it cuts a large array at both ends.
Compressible == buf.rpos = 0 \/ TT_BUF_RLEN(buf) <= InitSize

Arrange ==
    \/ Sayable(1) /\ \E o \in tt_buf_extend(buf) : buf' = o.b
    \/ Compressible /\ \E o \in tt_buf_compress(buf) : buf' = o.b
    \/ \E n \in Beyond(buf.rpos) : buf' = tt_buf_try_refine(buf, n)
    \/ buf' = tt_buf_reset_rwp(buf)

Next == Store \/ Move \/ Arrange

Spec == Init /\ [][Next]_buf

-----------------------------------------------------------------------------

(* TT_BUF_CHECK(), which the operations assert: whatever was called before,   *)
(* but for tt_buf_compress() where it is not Compressible,                    *)
(* 0 <= rpos <= wpos <= size.                                                 *)
Checked == 0 <= buf.rpos /\ buf.rpos <= buf.wpos /\ buf.wpos <= size(buf)

\* Outcome o of a call: the readable bytes are s and those before them are q, or it
\* failed and nothing has changed.
Has(o, s, q) == IF o.ok THEN Readable(o.b) = s /\ Past(o.b) = q ELSE o.b = buf

(* What the calls do to the bytes, in every state a buffer can get into: put   *)
(* appends, set and set_range replace, growing, refining and compressing, the  *)
(* last where it is Compressible, lose nothing that can be read; a call that   *)
(* fails changes nothing.                                                      *)
Contents ==
    LET s == Readable(buf)
        q == Past(buf)
    IN  /\ \A d \in Data : Sayable(Len(d)) =>
              /\ \A o \in tt_buf_put(buf, d) : Has(o, s \o d, q)
              /\ \A i \in 0 .. Len(s), n \in 0 .. Len(s) : i + n <= Len(s) =>
                    \A o \in tt_buf_set_range(buf, i, n, d) :
                        Has(o, SubSeq(s, 1, i) \o d \o SubSeq(s, i + n + 1, Len(s)), q)
        /\ \A d \in Data, i \in 0 .. Len(s) : i + Len(d) <= Len(s) =>
              LET o == tt_buf_set(buf, i, d)
              IN  o.ok /\ Has(o, SubSeq(s, 1, i) \o d \o SubSeq(s, i + Len(d) + 1, Len(s)), q)
        /\ Compressible => \A o \in tt_buf_compress(buf) : Has(o, s, <<>>)
        /\ ~ReadOnly(buf) => Has(OK(tt_buf_refine(buf)), s, <<>>)
        /\ Sayable(1) => \A o \in tt_buf_extend(buf) :
              Has(o, s, q) /\ (o.ok => size(o.b) > size(buf))
=============================================================================
