----------------------------- MODULE Vp8Parser ------------------------------
(***************************************************************************)
(* The VP8 parser (mpp/codec/dec/vp8/vp8d_parser.c), one frame a packet.   *)
(* Three pointers (last, golden, alternate) share counted frames.          *)
(***************************************************************************)
EXTENDS ParserWork

(* count[i] is ref_count of the VP8Frame in slot i; keySeen is             *)
(* needKeyFrame, which is set when a key frame was found.                  *)
Vp8Init == [ref |-> NoSlot, golden |-> NoSlot, alternate |-> NoSlot,
            count |-> [i \in Slots |-> 0], keySeen |-> FALSE]

(* The frames: a key frame refreshes all three; another one may refresh    *)
(* each, or copy one pointer to another (copyBufferToGolden 1: last, 2:    *)
(* alternate; copyBufferToAlternate 1: last, 2: golden).                   *)
Vp8Pictures ==
    [key : {TRUE}, show : {TRUE}, last : {TRUE}, golden : {"out"}, alternate : {"out"}]
    \union [key : {FALSE}, show : BOOLEAN, last : BOOLEAN,
            golden : {"keep", "out", "last", "alternate"},
            alternate : {"keep", "out", "last", "golden"}]

(* vp8d_unref_frame and vp8d_ref_frame.                                    *)
Vp8Unref(w, i) ==
    IF i = NoSlot THEN w
    ELSE LET n == w.ctx.count[i] - 1
             d == [w EXCEPT !.ctx.count[i] = n]
         IN IF n = 0 THEN Release(d, i) ELSE d
Vp8Ref(w, i) == IF i = NoSlot THEN w ELSE [w EXCEPT !.ctx.count[i] = @ + 1]

(* One pointer is moved: the old frame is let go, the new one counted.     *)
Vp8Move(w, pointer, i) == Vp8Ref([Vp8Unref(w, w.ctx[pointer]) EXCEPT !.ctx[pointer] = i], i)

(* vp8d_alloc_frame.                                                       *)
Vp8Alloc(w, id, pic) ==
    LET o == Output(w, id)
        c == Set([o EXCEPT !.ctx.count[o.out] = 1], o.out, "CODEC_USE")
    IN IF pic.show THEN Display(c, o.out) ELSE c

(* vp8d_convert_to_syntx.                                                  *)
Vp8Reads(w) == Read(Read(Read(w, w.ctx.ref), w.ctx.golden), w.ctx.alternate)

(* vp8d_ref_update: the copies come before the refreshes, and the copy to  *)
(* the alternate frame before the copy to the golden one.                  *)
Vp8Update(w, pic) ==
    LET Copied(v, pointer, i) == IF i \in {"keep", "out"} THEN v ELSE
            Vp8Move(v, pointer, CASE i = "last" -> v.ctx.ref [] i = "golden" -> v.ctx.golden
                                  [] i = "alternate" -> v.ctx.alternate)
        Refreshed(v, pointer, i) == IF i = "out" THEN Vp8Move(v, pointer, w.out) ELSE v
        copied == Copied(Copied(w, "alternate", pic.alternate), "golden", pic.golden)
        fresh  == Refreshed(Refreshed(copied, "golden", pic.golden), "alternate", pic.alternate)
    IN Vp8Unref(IF pic.last THEN Vp8Move(fresh, "ref", w.out) ELSE fresh, w.out)

(* vp8d_parser_parse: the eos flag reaches the task only with a picture.   *)
Vp8Parse(w, id, pic, last) ==
    LET k == [w EXCEPT !.ctx.keySeen = @ \/ pic.key]
    IN IF ~k.ctx.keySeen THEN [w EXCEPT !.valid = TRUE]
       ELSE Vp8Update([Vp8Reads(Vp8Alloc(k, id, pic)) EXCEPT !.valid = TRUE, !.eos = last], pic)

(* vp8d_parser_flush does nothing; vp8d_parser_prepare of an empty packet. *)
Vp8Flush(w) == w
Vp8End(w) == [w EXCEPT !.eos = TRUE]

(* vp8d_parser_reset.                                                      *)
Vp8Reset(w) ==
    LET c == w.ctx
        u == Vp8Unref(Vp8Unref(Vp8Unref(w, c.ref), c.golden), c.alternate)
    IN [u EXCEPT !.ctx = [Vp8Init EXCEPT !.count = u.ctx.count]]
=============================================================================
