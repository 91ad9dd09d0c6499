----------------------------- MODULE Vp9Parser ------------------------------
(***************************************************************************)
(* The VP9 parser (mpp/codec/dec/vp9), one frame a packet.  The current    *)
(* frame, the one before it (for motion vectors) and Vp9RefCount reference *)
(* pointers (eight in the code) share counted frames.  A frame that is     *)
(* never shown gives back the reference to its buffer that a shown one     *)
(* takes to the user.                                                      *)
(***************************************************************************)
EXTENDS ParserWork

CONSTANT Vp9RefCount  \* how many reference pointers the parser has

Vp9Refs == 0 .. Vp9RefCount - 1

(* The VP9Frames: frames[CUR_FRAME], frames[REF_FRAME_MVPAIR], refs[r].    *)
Vp9Cur    == <<"frames", 0>>
Vp9Pair   == <<"frames", 1>>
Vp9At(r)  == <<"refs", r>>
Vp9Frames == {Vp9Cur, Vp9Pair} \union {Vp9At(r) : r \in Vp9Refs}

(* A VP9Frame: .slot is slot_index, .live that ref is not NULL, .sized     *)
(* that f has the size of a picture.  The three change apart: a frame that *)
(* was let go may still have a slot index.                                 *)
Vp9None == [slot |-> NoSlot, live |-> FALSE, sized |-> FALSE]

(* count[i] and hidden[i] are ref_count and invisible of slot i's RefInfo. *)
Vp9Init == [frame |-> [f \in Vp9Frames |-> Vp9None],
            refidx |-> <<0, 0, 0>>, intraOnly |-> FALSE,
            count |-> [i \in Slots |-> 0], hidden |-> [i \in Slots |-> FALSE]]

(* The frames: key frames refresh every pointer; another one refreshes     *)
(* some and reads three of them, or none when it is intra only (then it is *)
(* hidden); or a frame that was decoded is shown again.                    *)
Vp9Pictures ==
    [kind : {"key"}, show : {TRUE}, errorres : {FALSE}, refresh : {Vp9Refs}, refidx : {<<>>}]
    \union [kind : {"inter"}, show : BOOLEAN, errorres : BOOLEAN,
            refresh : {{}} \union {{r} : r \in Vp9Refs},
            refidx : {<<r, Vp9RefCount - 1, 0>> : r \in Vp9Refs}]
    \union [kind : {"intra"}, show : {FALSE}, errorres : {FALSE},
            refresh : {{r} : r \in Vp9Refs}, refidx : {<<>>}]
    \union [kind : {"existing"}, show : {TRUE}, ref : Vp9Refs]

(* A wrong end of a reference: a hidden frame keeps its buffer.            *)
Vp9UnrefKeeps(w, f) ==
    LET i == w.ctx.frame[f].slot
        n == w.ctx.count[i] - 1
        d == [w EXCEPT !.ctx.count[i] = n, !.ctx.frame[f].live = FALSE]
    IN IF ~w.ctx.frame[f].live THEN w
       ELSE IF n > 0 THEN d
       ELSE Release([d EXCEPT !.ctx.frame[f].slot = NoSlot, !.ctx.hidden[i] = FALSE], i)

(* vp9_unref_frame, where there is a reference.  Only the last one of a    *)
(* slot loses its index; the slot is let go, after the buffer of a hidden  *)
(* frame (if it has one) is put.                                           *)
Vp9Unref(w, f) ==
    LET i == w.ctx.frame[f].slot
        n == w.ctx.count[i] - 1
        d == [w EXCEPT !.ctx.count[i] = n, !.ctx.frame[f].live = FALSE]
        l == [d EXCEPT !.ctx.frame[f].slot = NoSlot, !.ctx.hidden[i] = FALSE,
                       !.puts = IF w.ctx.hidden[i] /\ w.slot[i].buffer # NoBuffer
                                THEN Append(@, w.slot[i].buffer) ELSE @]
    IN IF ~w.ctx.frame[f].live THEN w
       ELSE IF n > 0 THEN d
       ELSE Release(l, i)

(* vp9_ref_frame.                                                          *)
Vp9Ref(w, dst, src) ==
    LET i == w.ctx.frame[src].slot
    IN [w EXCEPT !.ctx.frame[dst] = [slot |-> i, live |-> TRUE, sized |-> TRUE],
                 !.ctx.count[i] = @ + 1]

(* The current frame becomes the previous one, unless its motion vectors   *)
(* are of no use to this picture.                                          *)
Vp9Rotate(w, pic) ==
    LET u == Vp9Unref(w, Vp9Pair)
        p == IF u.ctx.intraOnly \/ pic.kind = "key" \/ pic.errorres \/ ~u.ctx.frame[Vp9Cur].live
             THEN u ELSE Vp9Ref(u, Vp9Pair, Vp9Cur)
    IN Vp9Unref(p, Vp9Cur)

(* vp9_alloc_frame.                                                        *)
Vp9Alloc(w, id, pic) ==
    LET o == Output(w, id)
    IN Set([o EXCEPT !.ctx.frame[Vp9Cur] = [slot |-> o.out, live |-> TRUE, sized |-> TRUE],
                     !.ctx.count[o.out] = 1, !.ctx.hidden[o.out] = ~pic.show],
           o.out, "CODEC_USE")

(* The pointers that the picture refreshes move to it.                     *)
Vp9Update(w, refresh) ==
    LET Moved(v, r) == IF r \in refresh
                       THEN Vp9Ref(Vp9Unref(v, Vp9At(r)), Vp9At(r), Vp9Cur) ELSE v
    IN FoldLeft(Moved, w, [k \in 1 .. Vp9RefCount |-> k - 1])

(* vp9_parser_frame.  The reads go by refidx, which a key or an intra only *)
(* frame leaves as it was, and by slot_index: whether there is a reference *)
(* behind it is not asked.                                                 *)
Vp9Decode(w, id, pic) ==
    LET a == Vp9Alloc(Vp9Rotate(w, pic), id, pic)
        R(k) == a.ctx.frame[Vp9At(a.ctx.refidx[k])].slot
        r == Read(Read(Read(a, R(1)), R(2)), R(3))
        s == IF pic.show THEN Display(r, r.out) ELSE r
    IN Vp9Update(s, pic.refresh)

(* decode_parser_header.  It fails for an inter frame that refers to a     *)
(* pointer never set, which has size zero.                                 *)
Vp9Header(c, pic) ==
    [c EXCEPT !.intraOnly = IF pic.kind = "key" THEN @ ELSE pic.kind = "intra",
              !.refidx = IF pic.kind = "inter" THEN pic.refidx ELSE @]
Vp9Fails(c, pic) ==
    pic.kind = "inter" /\ \E k \in DOMAIN pic.refidx : ~c.frame[Vp9At(pic.refidx[k])].sized

(* vp9d_parse ignores what vp9_parser_frame returns, and the task stays    *)
(* valid.  A frame that is shown again has no task of its own.             *)
Vp9Parse(w, id, pic, last) ==
    LET e == [w EXCEPT !.valid = TRUE, !.eos = last]
    IN IF pic.kind # "existing"
       THEN LET h == [e EXCEPT !.ctx = Vp9Header(@, pic)]
            IN IF Vp9Fails(w.ctx, pic) THEN h ELSE Vp9Decode(h, id, pic)
       ELSE LET p == w.ctx.frame[Vp9At(pic.ref)]
            IN IF p.live THEN Display(e, p.slot) ELSE e

Vp9Flush(w) == w
Vp9End(w) == [w EXCEPT !.eos = TRUE]

(* vp9d_paser_reset.  Of pointers to one frame the last is unset; the      *)
(* others keep its slot index without a reference.                         *)
Vp9Reset(w) ==
    FoldLeft(Vp9Unref, w, <<Vp9Cur, Vp9Pair>> \o [k \in 1 .. Vp9RefCount |-> Vp9At(k - 1)])
=============================================================================
