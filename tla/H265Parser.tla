----------------------------- MODULE H265Parser -----------------------------
(***************************************************************************)
(* The H.265 parser (mpp/codec/dec/h265), one picture a packet.  Every     *)
(* picture tells its reference picture set: what is not in it is let go,   *)
(* and what is in it and not in the decoded picture buffer is made up.     *)
(* Pictures are shown by their order counts within a sequence, of which    *)
(* the buffer may hold several, told apart by a number of 8 bits.          *)
(***************************************************************************)
EXTENDS ParserWork, FiniteSets

CONSTANTS
    H265DpbSize,  \* MAX_DPB_SIZE
    H265Reorder,  \* num_reorder_pics of the sequences
    H265MaxLsb    \* 1 << log2_max_poc_lsb

MaxInt == 2147483647
MinInt == -MaxInt - 1

H265Entries == 1 .. H265DpbSize
H265Marks   == {"short", "long"}
H265NoEntry == [slot |-> NoSlot, flags |-> {}, poc |-> MaxInt, seq |-> 0, err |-> FALSE]

(* seqDec and seqOut are seq_decode and seq_output; pocs up to maxRa are   *)
(* not decoded; miss is miss_ref_flag; sps: a parameter set is active.     *)
H265Init == [dpb |-> [i \in H265Entries |-> H265NoEntry], seqDec |-> 0, seqOut |-> 0,
             maxRa |-> MaxInt, pocTid0 |-> 0, miss |-> FALSE, sps |-> FALSE]

(* The pictures.  poc is the order count that was coded, of which the      *)
(* stream has the low bits.  rps has the differences of the short-term     *)
(* set, lt says that the long-term picture with low bits 0 is in the set;  *)
(* all are used, unless the picture is intra.  sps: with a new parameter   *)
(* set; end: with an end of sequence NAL after it; bad: the PPS is lost.   *)
H265Pictures ==
    [nal : {"idr"}, poc : {0}, rps : {<<>>}, lt : {FALSE}, sps : BOOLEAN, end : BOOLEAN,
     bad : BOOLEAN]
    \union [nal : {"cra", "bla"}, poc : {7, 14}, rps : {<<>>, <<-7>>}, lt : {FALSE},
            sps : BOOLEAN, end : BOOLEAN, bad : BOOLEAN]
    \union [nal : {"trail_r"}, poc : {7, 14, 21}, rps : {<<-7>>, <<-7, -14>>}, lt : BOOLEAN,
            sps : {FALSE}, end : BOOLEAN, bad : BOOLEAN]
    \union [nal : {"trail_n", "rasl_r"}, poc : {3, 10}, rps : {<<-3, 4>>}, lt : {FALSE},
            sps : {FALSE}, end : BOOLEAN, bad : BOOLEAN]

IRAP(pic) == pic.nal \in {"idr", "cra", "bla"}

-----------------------------------------------------------------------------
(* mpp_hevc_unref_frame, of one entry and of all of them.                  *)
H265Unref(w, i, off) ==
    LET e == w.ctx.dpb[i] IN
    IF e.slot = NoSlot THEN w
    ELSE IF e.flags \subseteq off THEN [Release(w, e.slot) EXCEPT !.ctx.dpb[i] = H265NoEntry]
    ELSE [w EXCEPT !.ctx.dpb[i].flags = @ \ off]

H265UnrefAll(w, off) ==
    LET Off(v, i) == H265Unref(v, i, off)
    IN FoldLeft(Off, w, [i \in H265Entries |-> i])

(* mpp_hevc_output_frame: at most one picture.  The sequence that is       *)
(* output moves on to the next one that has a picture to output, at most   *)
(* to the one that is decoded, where pictures wait for others.             *)
H265Waiting(c, seq) ==
    {i \in H265Entries : "out" \in c.dpb[i].flags /\ c.dpb[i].seq = seq}

(* A wrong move: to the sequence that is decoded, whatever waits before it. *)
H265NextForgets(c) == c.seqDec

H265Next(c) ==
    LET end == (c.seqDec - c.seqOut) % 256
        n   == CHOOSE d \in 0 .. end :
                   /\ d = end \/ H265Waiting(c, (c.seqOut + d) % 256) # {}
                   /\ \A k \in 0 .. d - 1 : H265Waiting(c, (c.seqOut + k) % 256) = {}
    IN (c.seqOut + n) % 256

H265OutputOne(w, flush) ==
    LET c   == w.ctx
        seq == H265Next(c)
        S   == H265Waiting(c, seq)
        i   == CHOOSE i \in S : \A j \in S : c.dpb[i].poc < c.dpb[j].poc
                                             \/ (c.dpb[i].poc = c.dpb[j].poc /\ i <= j)
        m   == [w EXCEPT !.ctx.seqOut = seq]
    IN IF S = {} \/ (~flush /\ seq = c.seqDec /\ c.sps /\ Cardinality(S) <= H265Reorder) THEN m
       ELSE Display([m EXCEPT !.ctx.dpb[i].flags = @ \ {"out"}], c.dpb[i].slot)

H265OutputAll(w) ==
    LET Out(v, k) == H265OutputOne(v, TRUE)
    IN FoldLeft(Out, w, [i \in H265Entries |-> i])

-----------------------------------------------------------------------------
(* mpp_hevc_compute_poc; the remainder is that of C.                       *)
H265Poc(c, pic) ==
    LET lsb  == pic.poc % H265MaxLsb
        t    == c.pocTid0
        prev == IF t < 0 THEN -((-t) % H265MaxLsb) ELSE t % H265MaxLsb
        msb  == CASE pic.nal = "bla" -> 0
                  [] lsb < prev /\ prev - lsb >= H265MaxLsb \div 2 -> t - prev + H265MaxLsb
                  [] lsb > prev /\ lsb - prev > H265MaxLsb \div 2  -> t - prev - H265MaxLsb
                  [] OTHER -> t - prev
    IN IF pic.nal = "idr" THEN 0 ELSE msb + lsb

(* hls_slice_header: a new sequence begins, and a picture whose references *)
(* are missing makes the next intra picture a point to start from; if the  *)
(* PPS is lost the header fails after that.                                *)
H265Begin(w) == [w EXCEPT !.ctx.seqDec = (@ + 1) % 256, !.ctx.maxRa = MaxInt]

H265Sequence(w, pic) ==
    LET b == IF pic.nal \in {"idr", "bla"} THEN H265Begin(w) ELSE w
        r == IF pic.nal = "idr" THEN H265UnrefAll(b, H265Marks) ELSE b
    IN IF IRAP(pic) /\ r.ctx.miss
       THEN [r EXCEPT !.ctx.maxRa = MaxInt, !.ctx.miss = FALSE] ELSE r

H265Header(w, pic) ==
    LET p == IF pic.sps \/ ~w.ctx.sps
             THEN [H265Begin(H265UnrefAll(w, H265Marks)) EXCEPT !.ctx.sps = TRUE] ELSE w
    IN IF pic.nal \in {"trail_n", "rasl_r"} THEN p
       ELSE [p EXCEPT !.ctx.pocTid0 = H265Poc(p.ctx, pic)]

-----------------------------------------------------------------------------
(* alloc_frame and mpp_hevc_set_new_ref: the picture in entry i.           *)
H265NewRef(w, i, id, poc) ==
    LET o == Output(w, id)
    IN Set([o EXCEPT !.ctx.miss = FALSE,
                     !.ctx.dpb[i] = [slot |-> o.out, flags |-> {"out", "short"}, poc |-> poc,
                                     seq |-> w.ctx.seqDec, err |-> FALSE]], o.out, "CODEC_USE")

(* generate_missing_ref: a slot that is ready and was never written.       *)
H265Missing(w, i, poc) ==
    LET n == NewOutput(w, NoFrame)
        s == Set(Set(n, n.out, "CODEC_READY"), n.out, "CODEC_USE")
    IN [s EXCEPT !.out = w.out,
                 !.ctx.dpb[i] = [slot |-> n.out, flags |-> {}, poc |-> poc,
                                 seq |-> w.ctx.seqDec, err |-> TRUE]]

(* find_ref_idx: by the low bits first, then by the whole order count.     *)
H265Find(c, poc) ==
    LET Now   == {i \in H265Entries : c.dpb[i].slot # NoSlot /\ c.dpb[i].seq = c.seqDec}
        ByLsb == {i \in Now : c.dpb[i].poc % H265MaxLsb = poc}
    IN IF ByLsb # {} THEN ByLsb ELSE {i \in Now : c.dpb[i].poc = poc}

(* add_candidate_ref, for the picture in entry at: a.failed when the       *)
(* candidate is the picture itself or the buffer is full.                  *)
H265FreeEntries(c) == {i \in H265Entries : c.dpb[i].slot = NoSlot}
H265Candidate(a, at, poc, mark) ==
    LET c == a.w.ctx
        F == H265Find(c, poc)
        i == IF F # {} THEN Min(F) ELSE Min(H265FreeEntries(c))
        m == IF F # {} THEN a.w ELSE H265Missing(a.w, i, poc)
        e == m.ctx.dpb[i]
    IN IF a.failed \/ (F = {} /\ H265FreeEntries(c) = {}) \/ (F # {} /\ Min(F) = at)
       THEN [a EXCEPT !.failed = TRUE]
       ELSE [a EXCEPT !.pocs = @ \union {e.poc},
                      !.w = [Set(m, e.slot, "CODEC_USE") EXCEPT
                                !.ctx.dpb[i].flags = (@ \ H265Marks) \union {mark},
                                !.ctx.miss = @ \/ e.err]]

(* mpp_hevc_frame_rps.                                                     *)
H265Rps(w, at, poc, pic) ==
    LET Unmarked == [i \in H265Entries |->
            IF i = at THEN w.ctx.dpb[i] ELSE [w.ctx.dpb[i] EXCEPT !.flags = @ \ H265Marks]]
        a0 == [w |-> [w EXCEPT !.ctx.dpb = Unmarked], pocs |-> {}, failed |-> FALSE]
        Short(a, d) == H265Candidate(a, at, poc + d, "short")
        Long(a)     == IF pic.lt THEN H265Candidate(a, at, 0, "long") ELSE a
        Clean(a)    == IF a.failed THEN a ELSE [a EXCEPT !.w = H265UnrefAll(@, {})]
    IN IF pic.nal = "idr" THEN [a0 EXCEPT !.w = w]
       ELSE Clean(Long(FoldLeft(Short, a0, pic.rps)))

(* hevc_frame_start, when an intra picture's set has missing pictures: all *)
(* the others are output before it.  The first entry with its order count  *)
(* is taken for its own.                                                   *)
H265Restart(w, poc) ==
    LET k == Min({i \in H265Entries : w.ctx.dpb[i].poc = poc})
        f == H265OutputAll([w EXCEPT !.ctx.dpb[k].flags = @ \ {"out"}])
    IN [f EXCEPT !.ctx.dpb[k].flags = @ \union {"out"}]

(* h265d_parser2_syntax: the reads, in the order of the buffer.            *)
H265Reads(w, at, pocs) ==
    LET ReadIf(v, i) ==
            LET e == v.ctx.dpb[i]
            IN IF i # at /\ e.flags \intersect H265Marks # {} /\ e.poc \in pocs
               THEN Read(v, e.slot) ELSE v
    IN FoldLeft(ReadIf, w, [i \in H265Entries |-> i])

(* h265d_parse of a picture that is decoded: hevc_frame_start, the reads,  *)
(* the end of the sequence, and one picture is output.  After an error     *)
(* the call returns at once, with what was done so far.                    *)
H265EndSequence(w, pic) == IF pic.end THEN H265Begin(w) ELSE w

(* hevc_frame_start after the reference picture set.                       *)
H265FrameStart(w, at, pic, poc) ==
    IF ~w.ctx.miss THEN w
    ELSE IF IRAP(pic) THEN H265Restart(w, poc) ELSE [w EXCEPT !.ctx.dpb[at].err = TRUE]

H265Finish(a, m, at, pic, last) ==
    LET used == IF IRAP(pic) THEN {} ELSE a.pocs
        r    == H265Reads(H265EndSequence(m, pic), at, used)
    IN IF a.failed THEN m ELSE H265OutputOne([r EXCEPT !.eos = last], FALSE)

H265Referred(a, at, pic, poc, last) ==
    H265Finish(a, H265FrameStart(a.w, at, pic, poc), at, pic, last)

H265Decode(w, id, pic, poc, last) ==
    LET c  == w.ctx
        at == Min(H265FreeEntries(c))
        Again(i) == c.dpb[i].slot # NoSlot /\ c.dpb[i].seq = c.seqDec /\ c.dpb[i].poc = poc
    IN IF H265FreeEntries(c) = {} \/ \E i \in H265Entries : Again(i) THEN w
       ELSE H265Referred(H265Rps(H265NewRef(w, at, id, poc), at, poc, pic), at, pic, poc, last)

(* One that is not: after a point to start from, pictures before it in     *)
(* output order are skipped.                                               *)
H265Skip(w, pic, last) ==
    LET e == H265EndSequence(w, pic)
    IN H265OutputOne(IF last THEN [H265OutputAll(e) EXCEPT !.eos = TRUE] ELSE e, FALSE)

(* h265d_parse with parser_nal_unit.                                       *)
H265Picture(w, ra, poc, id, pic, last) ==
    IF (pic.nal = "rasl_r" /\ poc <= ra) \/ (~IRAP(pic) /\ poc < ra)
    THEN H265Skip([w EXCEPT !.ctx.maxRa = ra], pic, last)
    ELSE H265Decode([w EXCEPT !.ctx.maxRa = IF pic.nal = "rasl_r" THEN MinInt ELSE ra],
                    id, pic, poc, last)

H265Slices(s, id, pic, last) ==
    LET poc == H265Poc(s.ctx, pic)
        h   == H265Header(s, pic)
        ra  == IF h.ctx.maxRa # MaxInt \/ ~IRAP(pic) THEN h.ctx.maxRa
               ELSE IF pic.nal = "idr" THEN MinInt ELSE poc
    IN IF pic.bad THEN s ELSE H265Picture(h, ra, poc, id, pic, last)

H265Parse(w, id, pic, last) ==
    H265Slices(H265Sequence([w EXCEPT !.valid = TRUE], pic), id, pic, last)

(* h265d_flush; h265d_prepare of an empty packet with the eos flag.        *)
H265Flush(w) == H265OutputAll(w)
H265End(w)   == [H265OutputAll(w) EXCEPT !.eos = TRUE]

(* h265d_reset.                                                            *)
H265Reset(w) ==
    [H265UnrefAll(H265OutputAll(w), {"out"} \union H265Marks) EXCEPT !.ctx.maxRa = MaxInt]
=============================================================================
