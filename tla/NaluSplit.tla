------------------------------ MODULE NaluSplit ------------------------------
(***************************************************************************)
(* How the parsers of H.264 and H.265 find pictures in a stream of bytes:  *)
(* mpp/codec/dec/h264/h264d_parse.c and h265/h265d_parser.c.  Operators as *)
(* in StartCodeSplit.                                                      *)
(***************************************************************************)
EXTENDS StartCodeSplit

(* H264dCurStream_t: strm is what store_cur_nalu stored of the picture,    *)
(* nalu is nalu_buf with its type; slices is have_slice_data.              *)
H264SplitStart == [prefix |-> <<255, 255, 255>>, inNalu |-> FALSE, nalu |-> <<>>, type |-> 0,
                   strm |-> <<>>, slices |-> FALSE, gotEos |-> FALSE]

H264Type(byte)  == byte % 32
H264Slices      == {1, 5}          \* a slice, a slice of an IDR picture
H264Headers     == {6, 7, 8, 9}    \* SEI, SPS, PPS, AUD
H264Stored      == {1, 5, 6, 7, 8, 14, 15, 20}

(* judge_is_new_frame, at the first and at the fifth byte of a NALU: a     *)
(* header after slices, or a slice with first_mb_in_slice 0 after slices.  *)
(* There are no NALUs with an extended header (types 14 and 20).           *)
StartsSlices(nalu) ==
    Len(nalu) > 1 /\ H264Type(nalu[1]) \in H264Slices /\ nalu[2] >= 128
IsHeader(nalu) == Len(nalu) = 1 /\ H264Type(nalu[1]) \in H264Headers
IsNewFrame(c, nalu) == c.slices /\ (IsHeader(nalu) \/ StartsSlices(nalu))

Judged(c, nalu) ==
    [c EXCEPT !.type = H264Type(nalu[1]),
              !.slices = (@ \/ StartsSlices(nalu)) /\ ~IsHeader(nalu)]

(* The end of a NALU: less the start code and the zero bytes before it.    *)
WithoutZeros(s) == SubSeq(s, 1, Max({0} \cup {i \in DOMAIN s : s[i] # 0}))

Stored(c, nalu) ==
    [c EXCEPT !.strm = IF c.type \in H264Stored THEN Append(@, nalu) ELSE @]

NaluEnded(c) ==
    [Stored(c, WithoutZeros(SubSeq(c.nalu, 1, Len(c.nalu) - 3))) EXCEPT !.nalu = <<>>, !.type = 0]

(* One turn of the loop in parse_prepare.  The byte that tells of a new    *)
(* picture is not looked at by find_prefix_code.                           *)
NaluByte(c, byte) ==
    LET nalu == IF c.inNalu THEN Append(c.nalu, byte) ELSE <<>>
    IN [IF Len(nalu) \in {1, 5} THEN Judged(c, nalu) ELSE c EXCEPT !.nalu = nalu]

FindPrefix(c, byte) ==
    The({IF d.prefix # Prefix THEN d
         ELSE IF d.inNalu THEN NaluEnded(d) ELSE [d EXCEPT !.inNalu = TRUE] :
         d \in {[c EXCEPT !.prefix = Append(Tail(@), byte)]}})

H264Byte(s, byte) ==
    IF s.valid THEN s
    ELSE The({IF Len(c.nalu) \in {1, 5} /\ IsNewFrame(s.ctx, c.nalu)
              THEN [ctx |-> [c EXCEPT !.strm = <<>>], pos |-> s.pos + 1, valid |-> TRUE, data |-> c.strm]
              ELSE [s EXCEPT !.pos = @ + 1, !.ctx = FindPrefix(c, byte)] :
              c \in {NaluByte(s.ctx, byte)}})

(* parse_prepare, as often as it takes to find a picture or to use up the  *)
(* packet.                                                                 *)
NothingFound(c) == [ctx |-> c, pos |-> 0, valid |-> FALSE, data |-> <<>>]

H264Split(c, src) ==
    LET after[i \in 0 .. Len(src)] ==
            IF i = 0 THEN NothingFound(c)
            ELSE The({H264Byte(s, src[i]) : s \in {after[i - 1]}})
    IN after[Len(src)]

(* h264d_prepare.  The length that is compared with 4 when a packet ends   *)
(* the stream is what was left of the packet before it: nothing.           *)
H264Prepare(c, src, eos, task) ==
    IF c.gotEos THEN [ctx |-> c, left |-> <<>>, task |-> task]
    ELSE IF eos
    THEN [ctx |-> [c EXCEPT !.gotEos = TRUE], left |-> src, task |-> [task EXCEPT !.eos = TRUE]]
    ELSE The({[ctx |-> s.ctx, left |-> After(src, s.pos),
               task |-> [valid |-> s.valid, eos |-> FALSE, data |-> s.data]] :
              s \in {H264Split(c, src)}})

(* A wrong reset: the parser still takes the stream for ended.             *)
H264SplitResetEnded(c) == [H264SplitStart EXCEPT !.type = c.type, !.gotEos = c.gotEos]

H264SplitReset(c) == [H264SplitStart EXCEPT !.type = c.type]
-----------------------------------------------------------------------------
(* SplitContext_t: state is state64, over the bytes that were read too far *)
(* into the next picture (overread); eos is that of the parser, told when  *)
(* the picture is parsed.                                                  *)
H265SplitStart == [buffer |-> <<>>, state |-> [i \in 1 .. 5 |-> 0], found |-> FALSE,
                   over |-> <<>>, eos |-> FALSE]

(* hevc_find_frame_end when i bytes of the packet were read: a header that *)
(* begins an access unit, or a slice with first_slice_segment_in_pic_flag. *)
H265Type(w, i)   == (w[i + 3] \div 2) % 64
NalAt(w, i)      == /\ SubSeq(w, i, i + 2) = Prefix
                    /\ w[i + 3] % 2 = 0 /\ w[i + 4] < 8        \* layer 0
PictureAt(w, i)  == /\ NalAt(w, i)
                    /\ H265Type(w, i) \in (0 .. 9) \cup (16 .. 21) /\ w[i + 5] >= 128
UnitAt(w, i)     == /\ NalAt(w, i)
                    /\ H265Type(w, i) \in (32 .. 35) \cup {39} \cup (41 .. 44) \cup (48 .. 55)
BoundaryAt(w, i) == UnitAt(w, i) \/ PictureAt(w, i)

(* A wrong continuation: what was read too far is forgotten.               *)
GatheredShort(c) == c.buffer

(* mpp_combine_frame puts the bytes read too far before the rest.          *)
Gathered(c) == c.buffer \o c.over

(* h265d_split_frame.  The boundary is five bytes before the byte at which *)
(* it is seen, and may lie in the packet before.                           *)
H265Split(c, src) ==
    LET n     == Len(src)
        w     == c.state \o src
        scan  == Scan({i \in 1 .. n : PictureAt(w, i)}, {i \in 1 .. n : BoundaryAt(w, i)},
                      c.found, n)
        read  == Gathered(c)
        next  == scan.to - 6
        over  == IF next < 0 THEN LastBytes(read, -next) ELSE <<>>
    IN IF scan.to > n
       THEN [ctx |-> [c EXCEPT !.buffer = read \o src, !.over = <<>>, !.found = scan.from <= n,
                               !.state = LastBytes(w, 5)],
             pos |-> n, data |-> <<>>]
       ELSE [ctx |-> [c EXCEPT !.buffer = <<>>, !.over = over, !.found = FALSE,
                               !.state = LastBytes(SubSeq(w, 1, 5 + scan.to) \o over, 5)],
             pos |-> IF next < 0 THEN 0 ELSE next,
             data |-> IF next < 0 THEN SubSeq(read, 1, Len(read) + next)
                      ELSE read \o SubSeq(src, 1, next)]

(* h265d_prepare.  Of a packet that ends the stream nothing is read: what  *)
(* was gathered is the last picture, and stays gathered.                   *)
H265Prepare(c, src, eos, task) ==
    The({[ctx |-> [r.ctx EXCEPT !.eos = eos], left |-> After(src, r.pos),
          task |-> IF r.data = <<>> THEN task ELSE [task EXCEPT !.valid = TRUE, !.data = r.data]] :
         r \in {IF eos THEN [ctx |-> c, pos |-> 0, data |-> c.buffer] ELSE H265Split(c, src)}})

H265Parsed(c, task) == [task EXCEPT !.eos = @ \/ c.eos]
H265SplitReset(c) == H265SplitStart
=============================================================================
