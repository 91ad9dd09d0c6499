----------------------------- MODULE AvsParser ------------------------------
(***************************************************************************)
(* The AVS parser (mpp/codec/dec/avs), one picture a packet, of sequences  *)
(* without low delay.  dpb0 is the latest anchor, dpb1 the one before.     *)
(***************************************************************************)
EXTENDS ParserWork

(* slot_idx and had_display of a frame of the parser.                      *)
NoSave == [slot |-> NoSlot, shown |-> FALSE]

AvsInit == [dpb0 |-> NoSave, dpb1 |-> NoSave, sequence |-> FALSE, key |-> FALSE,
            vec |-> 0, gotEos |-> FALSE]

(* An I picture comes with its sequence header, and edit says that the     *)
(* video edit code is before it: the stream was cut there.                 *)
AvsPictures == [type : {"I"}, edit : BOOLEAN] \union [type : {"P", "B"}, edit : {FALSE}]

(* set_frame_output and set_frame_unref.                                   *)
AvsOutput(w, f) == IF f.slot = NoSlot \/ f.shown THEN w ELSE Display(w, f.slot)

(* avsd_reset_parameters; no picture is in the making when it is called.   *)
AvsResetParameters(w) ==
    LET c == w.ctx
    IN [Release(Release(AvsOutput(AvsOutput(w, c.dpb1), c.dpb0), c.dpb1.slot), c.dpb0.slot)
          EXCEPT !.ctx = [c EXCEPT !.dpb0 = NoSave, !.dpb1 = NoSave, !.gotEos = FALSE]]

(* avsd_flush and avsd_reset.                                              *)
AvsFlush(w) == [AvsResetParameters(w) EXCEPT !.ctx.key = FALSE, !.ctx.vec = 0]
AvsReset(w) == AvsFlush(w)

(* avsd_parse_stream: the headers before the slices.  vec_flag counts the  *)
(* anchors since the cut; the code compares it with 1 and 2 only.          *)
AvsHeaders(w, pic) ==
    LET c     == [w.ctx EXCEPT !.sequence = @ \/ pic.type = "I",
                               !.vec = IF pic.edit /\ w.ctx.sequence THEN 0 ELSE @]
        fresh == AvsResetParameters([w EXCEPT !.ctx = c])
        start == IF c.key THEN [w EXCEPT !.ctx = c] ELSE fresh
    IN IF ~c.sequence THEN [w EXCEPT !.ctx = c]
       ELSE IF pic.type = "I"
       THEN [start EXCEPT !.ctx.key = TRUE, !.ctx.vec = IF @ < 2 THEN @ + 1 ELSE @]
       ELSE [start EXCEPT !.ctx.vec = IF c.key /\ @ = 1 /\ pic.type = "P" THEN 2 ELSE @]

(* What a slice needs.                                                     *)
AvsDecodable(c, pic) ==
    /\ c.sequence /\ c.key
    /\ pic.type = "P" => c.dpb0.slot # NoSlot /\ c.vec >= 1
    /\ pic.type = "B" => c.dpb0.slot # NoSlot /\ c.dpb1.slot # NoSlot /\ c.vec >= 2

(* avsd_set_dpb: refer[0] is the earlier of two anchors for a B picture,   *)
(* the latest one for the others.                                          *)
AvsSetDpb(w, id, pic) ==
    LET n == Output(w, id)
        o == Set(n, n.out, "CODEC_USE")
        c == w.ctx
    IN IF pic.type = "B" THEN Read(Read(o, c.dpb1.slot), c.dpb0.slot)
       ELSE Read(Read(o, c.dpb0.slot), c.dpb1.slot)

(* avsd_update_dpb.                                                        *)
AvsUpdate(w, pic) ==
    LET c == w.ctx
        o == AvsOutput(w, c.dpb0)
    IN IF pic.type = "B" THEN Release(Display(w, w.out), w.out)
       ELSE [Release(o, c.dpb1.slot) EXCEPT
              !.ctx.dpb1 = [c.dpb0 EXCEPT !.shown = TRUE],
              !.ctx.dpb0 = [slot |-> w.out, shown |-> FALSE]]

(* avsd_prepare and avsd_parse: after an eos flag, packets are dropped     *)
(* until something resets the parameters.  The task is never told of it.   *)
AvsParse(w, id, pic, last) ==
    LET h == AvsHeaders([w EXCEPT !.ctx.gotEos = @ \/ last], pic)
    IN IF w.ctx.gotEos THEN w
       ELSE IF ~AvsDecodable(h.ctx, pic) THEN h
       ELSE AvsUpdate([AvsSetDpb(h, id, pic) EXCEPT !.valid = TRUE], pic)

AvsEnd(w) ==
    IF w.ctx.gotEos THEN w ELSE [AvsFlush(w) EXCEPT !.ctx.gotEos = TRUE]
=============================================================================
