----------------------------- MODULE M2vParser ------------------------------
(***************************************************************************)
(* The MPEG-2 parser (mpp/codec/dec/m2v/m2vd_parser.c), one picture a      *)
(* packet.  It keeps the two latest anchors (I and P pictures); an anchor  *)
(* is displayed when the next one comes, a B picture at once.  A frame may *)
(* come as two field pictures, which share its slot.                       *)
(***************************************************************************)
EXTENDS ParserWork

(* A frame head: its slot, M2V_OUT_FLAG (not yet displayed) and the type   *)
(* of its picture.                                                         *)
NoHead == [slot |-> NoSlot, out |-> FALSE, type |-> "none"]

M2vInit == [cur |-> NoHead, ref0 |-> NoHead, ref1 |-> NoHead, count |-> 0,
            resetFlag |-> FALSE, header |-> FALSE]

(* The pictures: an I picture comes with its sequence header.  A picture   *)
(* is a frame, or the first or the second of its two fields.               *)
M2vPictures == [type : {"I", "P", "B"}, part : {"frame", "first", "second"}]

(* m2vd_alloc_frame: after a reset the first picture must be an I picture, *)
(* a B picture needs two anchors; a frame or a first field gets a slot     *)
(* unless there is one that waits for its second field.                    *)
StartsFrame(c, pic) == pic.part # "second" \/ c.cur.slot = NoSlot

M2vAlloc(w, id, pic) ==
    LET c    == w.ctx
        type == IF StartsFrame(c, pic) THEN pic.type ELSE c.cur.type
        next == [c EXCEPT !.resetFlag = FALSE, !.cur.type = type]
    IN IF c.resetFlag /\ pic.type # "I" THEN Failed(w, c)
       ELSE IF type = "B" /\ c.count < 2 THEN Failed(w, next)
       ELSE IF c.cur.slot # NoSlot THEN Done([w EXCEPT !.out = c.cur.slot], next)
       ELSE LET n == Output(w, id)
            IN Done(Set(n, n.out, "CODEC_USE"),
                    [next EXCEPT !.cur.slot = n.out, !.cur.out = TRUE])

(* m2v_update_ref_frame, when the frame is complete.  (ref_frame_cnt is    *)
(* only compared with 2.)                                                  *)
M2vUpdate(w) ==
    LET c == w.ctx
        d == IF c.ref0.slot = NoSlot THEN w ELSE Display(w, c.ref0.slot)
    IN IF c.cur.type = "B"
       THEN Release([Display(w, c.cur.slot) EXCEPT !.ctx.cur.slot = NoSlot], c.cur.slot)
       ELSE Release([d EXCEPT !.ctx =
               [c EXCEPT !.count = IF @ < 2 THEN @ + 1 ELSE @,
                         !.ref1 = [c.ref0 EXCEPT !.out = FALSE],
                         !.ref0 = c.cur,
                         !.cur = [c.ref1 EXCEPT !.slot = NoSlot]]], c.ref1.slot)

(* m2vd_parser_flush, as it is: ref0 has always its M2V_OUT_FLAG.          *)
M2vFlush(w) ==
    LET r == w.ctx.ref0
    IN IF r.slot # NoSlot /\ ~r.out THEN Display(w, r.slot) ELSE w

(* m2vd_parser_parse: both anchors are given to the hardware, whatever the *)
(* type of the picture.                                                    *)
M2vReads(w) ==
    LET c == w.ctx IN Read(Read(w, c.ref0.slot), c.ref1.slot)

M2vParse(w, id, pic, last) ==
    LET seen  == [w EXCEPT !.ctx.header = @ \/ pic.type = "I", !.eos = last]
        a     == M2vAlloc(seen, id, pic)
        ready == M2vReads(a)
        done  == IF ~seen.ctx.header THEN seen
                 ELSE IF ~a.valid THEN a
                 ELSE IF pic.part = "first" THEN ready ELSE M2vUpdate(ready)
    IN IF last THEN M2vFlush(done) ELSE done

(* m2vd_parser_prepare of an empty packet with the eos flag.               *)
M2vEnd(w) == M2vFlush([w EXCEPT !.eos = TRUE])

(* m2vd_parser_reset.                                                      *)
M2vReset(w) ==
    LET c == w.ctx
        a == Release(w, c.cur.slot)
        b == IF c.ref0.slot # NoSlot /\ c.ref0.out THEN Display(a, c.ref0.slot) ELSE a
    IN [Release(Release(b, c.ref0.slot), c.ref1.slot) EXCEPT
          !.ctx = [M2vInit EXCEPT !.resetFlag = TRUE, !.header = c.header]]
=============================================================================
