--------------------------- MODULE StartCodeSplit ---------------------------
(***************************************************************************)
(* How the parsers of MPEG-4, MPEG-2 and H.263 find pictures in a stream   *)
(* of bytes (their need_split mode): mpp/codec/dec/mpg4, m2v, h263.        *)
(*                                                                         *)
(* A call of prepare is an operator of the parser's context, the bytes     *)
(* left of the packet, whether that packet ends the stream, and the task;  *)
(* it gives the three of them after the call.  ctx.dst is what task_pkt    *)
(* holds, ctx.state the last four bytes read, ctx.eos the flag of          *)
(* task_pkt, which nothing ever clears.                                    *)
(***************************************************************************)
EXTENDS Integers, Sequences, SequencesExt

Prefix == <<0, 0, 1>>
NoTask == [valid |-> FALSE, eos |-> FALSE, data |-> <<>>]

The(S) == CHOOSE x \in S : TRUE
First(S, none) == IF S = {} THEN none ELSE Min(S)
LastBytes(s, n) == SubSeq(s, Len(s) - n + 1, Len(s))
After(s, n) == SubSeq(s, n + 1, Len(s))

SplitStart == [dst |-> <<>>, state |-> <<255, 255, 255, 255>>, found |-> FALSE,
               eos |-> FALSE, split |-> TRUE, start |-> -1]

(* A wrong flush: the parser is to parse a picture of no bytes.            *)
FlushedAsPicture(c, task) ==
    [ctx |-> c, left |-> <<>>, task |-> [task EXCEPT !.valid = TRUE, !.eos = TRUE]]

(* An empty last packet: flush and tell the end.                           *)
Flushed(c, task) ==
    [ctx |-> c, left |-> <<>>, task |-> [task EXCEPT !.valid = FALSE, !.eos = TRUE]]

(* A wrong start: the start code that ended the last picture is not there. *)
HeldAlone(c) == c.dst

(* The start code that ended the last picture belongs to the next one.     *)
Held(c) ==
    IF Len(c.dst) < 4 /\ Tail(c.state) = Prefix THEN Prefix ELSE c.dst

(* A wrong end: it is told with the first picture of the last packet.      *)
EndReachedEarly(eos, pos, length) == eos

(* A wrong end: each packet that is used up is taken for the last.         *)
EndReachedAnyPacket(eos, pos, length) == pos = length

EndReached(eos, pos, length) == eos /\ pos = length

(* The two loops of a split, over a packet of n bytes where a picture can  *)
(* begin or be over at the positions of begins and ends: where one begins  *)
(* (0: in an earlier packet), and where it is over; n + 1 where not at all.*)
Scan(begins, ends, found, n) ==
    The({[from |-> from, to |-> First({i \in ends : i > from}, n + 1)] :
         from \in {IF found THEN 0 ELSE First(begins, n + 1)}})

(* mpp_mpg4_parser_split and mpp_m2vd_parser_split.  The last four bytes   *)
(* read are w[i + 1] .. w[i + 4] when i bytes of the packet were; behind a *)
(* packet lie zero bytes (mpp_packet_copy_init).                           *)
Window(c, src) == c.state \o src \o <<0>>

SplitBy(begins, ends, c, src, eos) ==
    LET n     == Len(src)
        w     == Window(c, src)
        scan  == Scan(begins, ends, c.found, n)
        whole == scan.to <= n
        pos   == IF whole THEN scan.to ELSE n
        read  == (IF c.found THEN c.dst ELSE Held(c)) \o SubSeq(src, 1, pos)
    IN [ctx |-> [c EXCEPT !.dst   = SubSeq(read, 1, Len(read) - (IF whole THEN 3 ELSE 0)),
                          !.state = SubSeq(w, pos + 1, pos + 4),
                          !.found = scan.from <= n /\ ~whole,
                          !.eos   = @ \/ EndReached(eos, pos, n)],
        pos |-> pos,
        whole |-> whole \/ EndReached(eos, pos, n)]

(* mpg4d_prepare and m2vd_parser_prepare after a split: a whole picture is *)
(* in the task; the part of one stays in task_pkt.                         *)
Prepared(split, src, task) ==
    The({[ctx |-> IF r.whole THEN [r.ctx EXCEPT !.dst = <<>>] ELSE r.ctx,
          left |-> After(src, r.pos),
          task |-> [valid |-> r.whole, eos |-> r.ctx.eos,
                    data |-> IF r.whole THEN r.ctx.dst ELSE <<>>]] : r \in {split}})
-----------------------------------------------------------------------------
(* MPEG-4: a picture is over at the first start code of any kind after its *)
(* own, which is that of a VOP.                                            *)
VopBegins(w, n) == {i \in 1 .. n : SubSeq(w, i + 1, i + 4) = Prefix \o <<182>>}
CodeEnds(w, n)  == {i \in 1 .. n : SubSeq(w, i + 2, i + 4) = Prefix}

Mpg4Prepare(c, src, eos, task) ==
    IF eos /\ src = <<>> THEN Flushed(c, task)
    ELSE LET w == Window(c, src) IN
         Prepared(SplitBy(VopBegins(w, Len(src)), CodeEnds(w, Len(src)), c, src, eos),
                  src, task)

Mpg4SplitReset(c) ==
    [c EXCEPT !.dst = <<>>, !.state = SplitStart.state, !.found = FALSE]
-----------------------------------------------------------------------------
(* MPEG-2: a picture begins at a sequence header or a picture start code,  *)
(* and is over before the next of them; the byte after the prefix is       *)
(* looked at although it may lie in the next packet.                       *)
M2vBoundary == {0, 179}
M2vBegins(w, n) == {i \in 1 .. n : /\ SubSeq(w, i + 1, i + 3) = Prefix
                                  /\ w[i + 4] \in M2vBoundary}
M2vEnds(w, n)   == {i \in CodeEnds(w, n) : w[i + 5] \in M2vBoundary}

(* Copy mode: each packet is one picture.                                  *)
M2vPrepare(c, src, eos, task) ==
    IF eos /\ src = <<>> THEN Flushed(c, task)
    ELSE IF c.split
    THEN LET w == Window(c, src) IN
         Prepared(SplitBy(M2vBegins(w, Len(src)), M2vEnds(w, Len(src)), c, src, eos),
                  src, task)
    ELSE [ctx |-> c, left |-> <<>>, task |-> [valid |-> TRUE, eos |-> eos, data |-> src]]

(* m2vd_parser_reset also ends the split mode, and keeps p->state.         *)
M2vSplitReset(c) == [c EXCEPT !.dst = <<>>, !.found = FALSE, !.split = FALSE]
-----------------------------------------------------------------------------
(* H.263: the picture start code has 22 bits; the position of its last     *)
(* byte less three is taken for its first, although that is one byte       *)
(* further back.  A position before the packet means that none was found.  *)
H263Code(w, n) == {i \in 1 .. n : /\ SubSeq(w, i + 2, i + 3) = <<0, 0>>
                                 /\ w[i + 4] \in 128 .. 131}

H263Prepare(c, src, eos, task) ==
    IF eos /\ src = <<>> THEN Flushed(c, task)
    ELSE
    LET n     == Len(src)
        w     == (IF c.dst = <<>> THEN SplitStart.state ELSE LastBytes(c.dst, 4)) \o src
        scan  == Scan(H263Code(w, n), H263Code(w, n), c.start >= 0, n)
        to    == scan.to
        start == IF c.start >= 0 THEN c.start ELSE IF scan.from > n THEN -1 ELSE scan.from - 4
        end   == IF to <= n THEN to - 4 ELSE IF eos THEN n ELSE -1
        flag  == c.eos \/ (start >= 0 /\ eos /\ to > n)
    IN IF start >= 0 /\ end >= 0
       THEN [ctx  |-> [c EXCEPT !.dst = c.dst \o SubSeq(src, 1, end), !.start = -1, !.eos = flag],
             left |-> After(src, end),
             task |-> [valid |-> TRUE, eos |-> flag, data |-> c.dst \o SubSeq(src, 1, end)]]
       ELSE [ctx  |-> [c EXCEPT !.dst = @ \o src, !.start = start, !.eos = flag],
             left |-> <<>>,
             task |-> [task EXCEPT !.eos = flag]]

(* mpp_h263_parser_decode empties task_pkt; a reset does not.              *)
H263Parsed(c) == [c EXCEPT !.dst = <<>>]
H263SplitReset(c) == c
=============================================================================
