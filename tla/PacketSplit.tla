----------------------------- MODULE PacketSplit -----------------------------
(***************************************************************************)
(* The parsers that want whole pictures in a packet and take one picture   *)
(* of several: AVS (start codes) and VP9 (superframes).                    *)
(* Operators as in StartCodeSplit.                                         *)
(***************************************************************************)
EXTENDS StartCodeSplit

AvsSplitStart == [held |-> <<>>, gotEos |-> FALSE]

(* avsd_prepare and avsd_parse_prepare.  A picture goes up to the start    *)
(* code of the next one; a packet without a picture is kept for later.  A  *)
(* packet begins with a start code: what lies before the first is dropped. *)
(* The four bytes before each position are looked at as long as a byte is  *)
(* left, so the start code at the very end of a packet is not seen.        *)
AvsPictureAt(src, i) == SubSeq(src, i - 3, i) \in {Prefix \o <<179>>, Prefix \o <<182>>}

AvsPrepare(c, src, eos, task) ==
    IF c.gotEos THEN [ctx |-> c, left |-> <<>>, task |-> task]
    ELSE
    LET n     == Len(src)
        codes == {i \in 4 .. n - 1 : AvsPictureAt(src, i)}
        first == First(codes, n)
        pos   == First(codes \ {first}, n + 4) - 4
        data  == c.held \o SubSeq(src, 1, pos)
        valid == codes # {}
    IN [ctx  |-> [held |-> IF valid THEN <<>> ELSE data, gotEos |-> eos],
        left |-> After(src, pos),
        task |-> [task EXCEPT !.valid = valid, !.data = IF valid THEN data ELSE <<>>]]

(* avsd_reset clears has_get_eos, and keeps what is held.                  *)
AvsSplitReset(c) == [c EXCEPT !.gotEos = FALSE]
-----------------------------------------------------------------------------
(* VP9ParseContext: the sizes of the frames to come of a superframe.       *)
Vp9SplitStart == [sizes |-> <<>>]

(* The index at the end of a superframe, with one byte for a size: marker, *)
(* sizes, marker.                                                          *)
IndexFrames(src) == 1 + (Last(src) % 8)
HasIndex(src) ==
    /\ Last(src) \div 8 = 24
    /\ Len(src) >= 2 + IndexFrames(src)
    /\ src[Len(src) - 1 - IndexFrames(src)] = Last(src)
Vp9Sizes(src) ==
    SubSeq(src, Len(src) - IndexFrames(src), Len(src) - 1)

(* A wrong superframe: the index is left over as if it were a frame.       *)
Vp9ConsumedShort(c, sizes, src) == sizes[1]

(* What a call consumes: with the last frame of several, the index too.    *)
Vp9Consumed(c, sizes, src) == IF Len(c.sizes) = 1 THEN Len(src) ELSE sizes[1]

(* vp9d_prepare and vp9d_split_frame, with an index whose sizes fit.       *)
Vp9Prepare(c, src, eos, task) ==
    IF src = <<>> THEN [ctx |-> c, left |-> <<>>,
                        task |-> [task EXCEPT !.valid = FALSE, !.eos = eos]]
    ELSE
    LET sizes == IF c.sizes # <<>> THEN c.sizes
                 ELSE IF HasIndex(src) THEN Vp9Sizes(src) ELSE <<Len(src)>>
    IN [ctx  |-> [sizes |-> Tail(sizes)],
        left |-> After(src, Vp9Consumed(c, sizes, src)),
        task |-> [valid |-> TRUE, eos |-> eos, data |-> SubSeq(src, 1, sizes[1])]]

Vp9SplitReset(c) == Vp9SplitStart
=============================================================================
