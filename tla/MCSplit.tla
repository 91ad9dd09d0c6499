------------------------------- MODULE MCSplit -------------------------------
(* Streams of the split modes for TLC.                                     *)
EXTENDS MppSplit

Code(byte) == <<0, 0, 1, byte>>

(* Any packets that end at the given places.                               *)
EndAt(places, n) == {p \in (places \cup {0}) \X (places \cup {n}) : p[1] < p[2]}

Anywhere(bytes) == EndAt(1 .. Len(bytes) - 1, Len(bytes))

(* A packet does not end between a prefix and a code that is no boundary.  *)
NotBehindPrefix(bytes) ==
    EndAt({i \in 1 .. Len(bytes) - 1 : ~IsSuffix(Prefix, SubSeq(bytes, 1, i))}, Len(bytes))

Mpg4Pieces == <<Code(176) \o <<9>> \o Code(182) \o <<7, 0, 7>>, Code(182) \o <<0>>,
                Code(182) \o <<1, 7>>>>
M2vPieces  == <<Code(179) \o <<9>>, Code(0) \o <<7>> \o Code(2) \o <<0>>, Code(0) \o <<7>> \o Code(1) \o <<5>>>>

H263Pieces == <<<<5, 0, 0, 128, 7, 7, 7>>, <<0, 0, 129, 7, 9>>, <<0, 0, 130, 7, 8, 9>>>>

H264Nalus == <<<<<<103, 9>>, <<104>>, <<101, 128, 7, 0, 7, 7>>, <<101, 64, 7>>>>,
               <<<<65, 200, 7, 0, 0, 3, 1, 7>>>>,
               <<<<6, 9>>, <<65, 128, 7, 7, 7>>>>>>
WithCodes(nalus) == FlattenSeq([i \in DOMAIN nalus |-> (IF i = 1 THEN <<0>> ELSE <<>>) \o Prefix \o nalus[i]])
H264Bytes == FlattenSeq([i \in DOMAIN H264Nalus |-> WithCodes(H264Nalus[i])])

H265Pieces == <<Prefix \o <<64, 1, 9>> \o Prefix \o <<38, 1, 160, 7>> \o Prefix \o <<38, 1, 64>>,
                Prefix \o <<2, 1, 192>>, Prefix \o <<78, 1, 9>> \o Prefix \o <<2, 1, 130, 0>>>>

AvsPieces == <<Code(176) \o <<9>> \o Code(179) \o <<7>>, Code(182) \o <<7, 0>>, Code(182) \o <<5>>>>
Vp9Frames == <<<<130, 7>>, <<132, 7, 7>>, <<134>>, <<134, 7>>>>
Vp9Bytes  == <<130, 7>> \o <<132, 7, 7, 134, 193, 3, 1, 193>> \o <<134, 7>>

(* The places of pieces that follow each other; the two frames of the VP9  *)
(* superframe are followed by their index.                                 *)
Behind(pieces, j) == Len(FlattenSeq(SubSeq(pieces, 1, j)))
PlacesOf(pieces)  == [j \in DOMAIN pieces |-> <<Behind(pieces, j - 1), Behind(pieces, j)>>]
Vp9Places == <<<<0, 2>>, <<2, 5>>, <<5, 6>>, <<10, 12>>>>

Stream(codec, pictures, bytes, packets, again) ==
    [codec |-> codec, pictures |-> pictures, bytes |-> bytes, packets |-> packets, resets |-> again,
     places |-> IF codec = "vp9" THEN Vp9Places ELSE PlacesOf(pictures)]
Mpg4Bytes == FlattenSeq(Mpg4Pieces)
M2vBytes  == FlattenSeq(M2vPieces)
H265Bytes == FlattenSeq(H265Pieces)

(* An H.264 stream does not come all in one packet: see H264Prepare.       *)
MCStreams == {
    Stream("mpg4", Mpg4Pieces, Mpg4Bytes, Anywhere(Mpg4Bytes), 1),
    Stream("m2v", M2vPieces, M2vBytes, NotBehindPrefix(M2vBytes), 0),
    Stream("m2v", M2vPieces, M2vBytes, EndAt({5, 12, 15}, Len(M2vBytes)), 1),
    Stream("h263", H263Pieces, FlattenSeq(H263Pieces), EndAt({4, 7, 8, 12, 13, 14}, 18), 1),
    Stream("h264", H264Nalus, H264Bytes, Anywhere(H264Bytes) \ {<<0, Len(H264Bytes)>>}, 1),
    Stream("h265", H265Pieces, H265Bytes, Anywhere(H265Bytes), 1),
    Stream("avs", AvsPieces, FlattenSeq(AvsPieces), EndAt({10, 16}, 21), 1),
    Stream("vp9", Vp9Frames, Vp9Bytes, {<<0, 2>>, <<2, 10>>, <<10, 12>>}, 1)}
=============================================================================
