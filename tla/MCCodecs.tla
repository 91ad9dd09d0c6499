------------------------------ MODULE MCCodecs ------------------------------
(* Streams of the parsers for TLC.                                         *)
EXTENDS MppCodecs

(* The second field of a B frame comes after the frame was shown, and of   *)
(* two B fields each: frames only.                                         *)
M2vFrames == {pic \in M2vPictures : pic.type = "B" => pic.part = "frame"}

Vp8Keeps(pic) == pic.golden = "keep" /\ pic.alternate = "keep"
Vp8Some == {pic \in Vp8Pictures :
    \/ pic.key \/ Vp8Keeps(pic)
    \/ pic.show /\ pic.last /\ pic.golden = "alternate"
    \/ pic.show /\ ~pic.last /\ pic.golden = "out" /\ pic.alternate = "golden"}

Vp9Chosen(pic) ==
    CASE pic.kind = "inter" -> /\ pic.refidx[1] = 0 /\ (pic.errorres => pic.show)
                               /\ \/ pic.refresh = {0} /\ ~pic.errorres
                                  \/ pic.refresh = {} /\ pic.show
      [] pic.kind = "intra" -> 0 \notin pic.refresh
      [] OTHER -> pic.kind = "key"
Vp9Some == {pic \in Vp9Pictures : Vp9Chosen(pic)}

H264Good(pic) == ~pic.bad /\ ~pic.prior
H264Frames == {pic \in H264Pictures : H264Good(pic) /\ pic.st = "frame"}
H264Orders == {pic \in H264Frames :
    CASE pic.poc = 2 -> ~pic.ref [] pic.poc = 4 -> pic.ref /\ pic.mmco \in {"slide", "long"}
      [] pic.poc = 6 -> pic.ref /\ pic.mmco # "long" [] OTHER -> pic.idr}
H264Resets == {pic \in H264Frames : pic.mmco \in {"slide", "clear"} /\ pic.poc < 6}
H264Damaged == {pic \in H264Pictures :
    ~pic.prior /\ pic.st = "frame" /\ pic.mmco \in {"slide", "clear"} /\ pic.poc < 6}
H264Pairs  == {pic \in H264Pictures :
    /\ H264Good(pic) /\ pic.mmco = "slide" /\ (pic.st = "frame" => pic.idr)
    /\ pic.st = "bottom" <=> pic.second}

H265Few(pic) ==
    /\ pic.nal \in {"cra", "bla"} => pic.poc = 7 /\ Len(pic.rps) = 1
    /\ pic.nal = "trail_r" => pic.poc < 21 /\ Len(pic.rps) = 1
    /\ pic.nal \in {"trail_n", "rasl_r"} => pic.poc = 3
    /\ ~pic.lt
H265Whole == {pic \in H265Pictures :
    H265Few(pic) /\ pic.nal # "bla" /\ ~pic.sps /\ ~pic.end /\ ~pic.bad}
H265Broken == {pic \in H265Pictures :
    /\ H265Few(pic) /\ ~pic.sps
    /\ pic.bad => pic.nal \in {"idr", "trail_r"} /\ ~pic.end
    /\ pic.end => pic.nal \in {"trail_r", "trail_n"}
    /\ pic.nal # "rasl_r"}

K(m, c, n, f, r) == [name |-> m, codec |-> c, pictures |-> n, formats |-> f, resets |-> r]
MCKinds ==
    {K("m2v",   "m2v",  4, 1, 0), K("m2vr",  "m2v",  2, 2, 1), K("mpg4",  "mpg4", 3, 1, 1),
     K("avs",   "avs",  3, 2, 0), K("avsr",  "avs",  2, 2, 1), K("vp8",   "vp8",  3, 1, 0),
     K("vp8r",  "vp8",  2, 1, 1), K("vp9",   "vp9",  3, 1, 0), K("vp9r",  "vp9",  3, 1, 1),
     K("h264",  "h264", 4, 1, 0), K("h264r", "h264", 3, 1, 1), K("h264p", "h264", 4, 1, 0),
     K("h264b", "h264", 3, 1, 0), K("h265",  "h265", 4, 1, 0), K("h265r", "h265", 2, 1, 1),
     K("h265b", "h265", 3, 1, 0)}

MCPicturesOf(k) ==
    CASE k.codec = "m2v"   -> M2vFrames
      [] k.name  = "h264"  -> H264Orders
      [] k.name  = "h264r" -> H264Resets
      [] k.name  = "h264p" -> H264Pairs
      [] k.name  = "h264b" -> H264Damaged
      [] k.name  = "h265b" -> H265Broken
      [] k.codec = "h265"  -> H265Whole
      [] k.codec = "vp8"   -> Vp8Some
      [] k.codec = "vp9"   -> Vp9Some
      [] OTHER             -> AllPictures(k.codec)

(* A stream for m2vd_parser_flush.                                         *)
M2vOnly == {K("m2v", "m2v", 3, 1, 0)}
=============================================================================
