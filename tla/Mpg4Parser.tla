----------------------------- MODULE Mpg4Parser -----------------------------
(***************************************************************************)
(* The MPEG-4 parser (mpp/codec/dec/mpg4), in copy mode: one VOP a packet. *)
(* ref0 is the latest anchor, ref1 the one before.                         *)
(***************************************************************************)
EXTENDS ParserWork

(* slot_idx and enqueued of a header.                                      *)
NoHdr == [slot |-> NoSlot, enqueued |-> FALSE]

Mpg4Init == [ref0 |-> NoHdr, ref1 |-> NoHdr, foundVol |-> FALSE, foundI |-> FALSE]

(* An I VOP comes with the header of its layer; N is a VOP not coded.      *)
Mpg4Pictures == [type : {"I", "P", "B", "N"}]

(* mpp_mpg4_parser_decode: the headers of the packet.                      *)
Mpg4Decode(c, pic) ==
    [c EXCEPT !.foundVol = @ \/ pic.type = "I", !.foundI = @ \/ pic.type = "I"]

Mpg4Decodable(c, pic) ==
    /\ c.foundVol /\ c.foundI
    /\ pic.type # "N"
    /\ pic.type = "B" => c.ref0.slot # NoSlot /\ c.ref1.slot # NoSlot

(* mpp_mpg4_parser_flush: the latest anchor is displayed, once.            *)
Mpg4Flush(w) ==
    LET r == w.ctx.ref0
    IN IF r.slot = NoSlot \/ r.enqueued THEN w
       ELSE [Display(w, r.slot) EXCEPT !.ctx.ref0.enqueued = TRUE]

(* A wrong update: the latest anchor is displayed though it was.           *)
Mpg4UpdateAgain(w, pic) ==
    LET c == w.ctx
        d == IF c.ref0.slot = NoSlot THEN w ELSE Display(w, c.ref0.slot)
    IN IF pic.type = "B" THEN Display(w, w.out)
       ELSE [Release(Set(d, w.out, "CODEC_USE"), c.ref1.slot) EXCEPT
               !.ctx.ref1 = c.ref0, !.ctx.ref0 = [slot |-> w.out, enqueued |-> FALSE]]

(* mpp_mpg4_parser_update_dpb.                                             *)
Mpg4Update(w, pic) ==
    LET c == w.ctx
        d == IF c.ref0.slot = NoSlot \/ c.ref0.enqueued THEN w ELSE Display(w, c.ref0.slot)
    IN IF pic.type = "B" THEN Display(w, w.out)
       ELSE [Release(Set(d, w.out, "CODEC_USE"), c.ref1.slot) EXCEPT
               !.ctx.ref1 = c.ref0, !.ctx.ref0 = [slot |-> w.out, enqueued |-> FALSE]]

(* mpp_mpg4_parser_setup_hal_output, setup_refer: both anchors are read.   *)
Mpg4Setup(w, id) ==
    Read(Read(Output(w, id), w.ctx.ref0.slot), w.ctx.ref1.slot)

(* mpg4d_parse; the eos flag is that of the packet (mpg4d_prepare).        *)
Mpg4Parse(w, id, pic, last) ==
    LET c == Mpg4Decode(w.ctx, pic)
        e == [w EXCEPT !.ctx = c, !.eos = last]
    IN IF ~Mpg4Decodable(c, pic) THEN e
       ELSE Mpg4Update([Mpg4Setup(e, id) EXCEPT !.valid = TRUE], pic)

(* A wrong end: the task without picture is said to be valid.              *)
Mpg4EndValid(w) == Mpg4Flush([w EXCEPT !.eos = TRUE, !.valid = TRUE])

(* mpg4d_prepare of an empty packet with the eos flag.                     *)
Mpg4End(w) == Mpg4Flush([w EXCEPT !.eos = TRUE])

(* mpp_mpg4_parser_reset.                                                  *)
Mpg4Reset(w) ==
    LET c == Mpg4Flush(w).ctx
    IN [Release(Release(Mpg4Flush(w), c.ref0.slot), c.ref1.slot) EXCEPT
          !.ctx = [c EXCEPT !.ref0.slot = NoSlot, !.ref1.slot = NoSlot, !.foundI = FALSE]]
=============================================================================
