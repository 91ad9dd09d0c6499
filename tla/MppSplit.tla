------------------------------ MODULE MppSplit ------------------------------
(***************************************************************************)
(* From packets to pictures: the user cuts a stream of bytes into packets, *)
(* and the parser thread hands the parser one packet after the other until *)
(* it has a picture (try_proc_dec_task of mpp/codec/mpp_dec.cpp, steps 2,  *)
(* 3 and 8), for parsers whose need_split is set.                          *)
(*                                                                         *)
(* A byte is a number.  Streams of a codec: the pictures that the parser   *)
(* is to hand over, in the form in which it does; the bytes that the user  *)
(* puts; the places in them where the pictures lie; the packets in which   *)
(* he may put them, each as the number of bytes before it and up to its    *)
(* end; and how often he resets the decoder.                               *)
(***************************************************************************)
EXTENDS NaluSplit, PacketSplit

CONSTANTS Streams,   \* a set of records
          EndBound   \* after how many ends the user has seen enough

SplitCodecs == {"mpg4", "m2v", "h263", "h264", "h265", "avs", "vp9"}
Bytes       == 0 .. 255

-----------------------------------------------------------------------------
(* What a stream is.  Its pictures lie in the bytes at .places, given like *)
(* packets: one after the other, and of most codecs without a gap.         *)
Part(s, p) == SubSeq(s.bytes, p[1] + 1, p[2])

PicturesLie(s) ==
    /\ s.places \in Seq((0 .. Len(s.bytes)) \X (0 .. Len(s.bytes))) \ {<<>>}
    /\ \A j \in DOMAIN s.places : s.places[j][1] < s.places[j][2]
    /\ \A i, j \in DOMAIN s.places : i < j => s.places[i][2] <= s.places[j][1]
    /\ s.pictures = [j \in DOMAIN s.places |-> Part(s, s.places[j])]

Adjacent(s) ==
    /\ s.places[1][1] = 0 /\ s.places[Len(s.places)][2] = Len(s.bytes)
    /\ \A j \in 1 .. Len(s.places) - 1 : s.places[j][2] = s.places[j + 1][1]

(* Begins and ends are where a picture can be seen to begin and to be over *)
(* when the bytes come in one packet.  A picture goes up to the first end  *)
(* after its begin, which is seen in the start code behind it.             *)
CutAtCodes(s, begins, ends, seen) ==
    \A j \in DOMAIN s.places :
        LET from == s.places[j][1]
            to   == s.places[j][2]
        IN \E v \in begins :
              /\ from + 3 < v /\ v <= to
              /\ \A i \in begins : i <= from + 3 \/ v <= i
              /\ IF j = Len(s.places) THEN \A i \in ends : i <= v
                 ELSE to + seen \in ends /\ \A i \in ends : i <= v \/ to + seen <= i

(* MPEG-2: a packet does not end between a prefix and a code that is no    *)
(* boundary; what is left after a reset is all the bytes.                  *)
M2vCut(s, w, n) ==
    /\ CutAtCodes(s, M2vBegins(w, n), M2vEnds(w, n), 3)
    /\ \A p \in s.packets : p[2] \in CodeEnds(w, n) => p[2] \in M2vEnds(w, n)
    /\ FlattenSeq(s.pictures) = s.bytes

H265Cut(s, w, n) ==
    CutAtCodes(s, {i \in 1 .. n : PictureAt(w, i)}, {i \in 1 .. n : BoundaryAt(w, i)}, 6)

(* AVS: a picture has one start code of a picture, all but the first begin *)
(* with it, and packets hold whole pictures.                               *)
AvsCut(s) ==
    /\ \A j \in DOMAIN s.places :
          \E v \in s.places[j][1] + 4 .. s.places[j][2] - 1 :
             /\ {i \in s.places[j][1] + 4 .. s.places[j][2] : AvsPictureAt(s.bytes, i)} = {v}
             /\ j > 1 => v = s.places[j][1] + 4
    /\ \A p \in s.packets : /\ \E j \in DOMAIN s.places : p[1] = s.places[j][1]
                            /\ \E j \in DOMAIN s.places : p[2] = s.places[j][2]

(* VP9: a packet is a frame, or a superframe of several with their index.  *)
Vp9Cut(s) ==
    \A p \in s.packets : \E j, k \in DOMAIN s.places :
        /\ j <= k /\ p[1] = s.places[j][1]
        /\ p[2] = IF k = Len(s.places) THEN Len(s.bytes) ELSE s.places[k + 1][1]
        /\ IF j = k THEN p = s.places[j] /\ ~HasIndex(Part(s, p))
           ELSE /\ HasIndex(Part(s, p))
                /\ Vp9Sizes(Part(s, p)) =
                      [i \in 1 .. k - j + 1 |-> s.places[j + i - 1][2] - s.places[j + i - 1][1]]
                /\ \A i \in j .. k - 1 : s.places[i][2] = s.places[i + 1][1]

(* H.264: the pictures are those that are found byte by byte; the last one *)
(* is found only when another one begins.                                  *)
FoundWith(f, byte) ==
    The({[ctx |-> r.ctx, pictures |-> IF r.valid THEN Append(f.pictures, r.data) ELSE f.pictures] :
         r \in {H264Byte(NothingFound(f.ctx), byte)}})

H264Found(s) ==
    LET found[i \in 0 .. Len(s.bytes)] ==
            IF i = 0 THEN [ctx |-> H264SplitStart, pictures |-> <<>>]
            ELSE The({FoundWith(f, s.bytes[i]) : f \in {found[i - 1]}})
    IN found

CutWell(s) ==
    LET n == Len(s.bytes)
        w == Window(SplitStart, s.bytes)
    IN CASE s.codec = "h263" -> FlattenSeq(s.pictures) = s.bytes
         [] s.codec = "h264" -> H264Found(s)[n].pictures = Front(s.pictures)
                               /\ s.pictures \in Seq(Seq(Seq(Bytes))) \ {<<>>}
         [] s.codec = "vp9"  -> PicturesLie(s) /\ Vp9Cut(s)
         [] OTHER ->
              /\ PicturesLie(s) /\ Adjacent(s)
              /\ CASE s.codec = "mpg4" -> CutAtCodes(s, VopBegins(w, n), CodeEnds(w, n), 3)
                   [] s.codec = "m2v"  -> M2vCut(s, w, n)
                   [] s.codec = "h265" -> H265Cut(s, H265SplitStart.state \o s.bytes, n)
                   [] s.codec = "avs"  -> AvsCut(s)

ASSUME StreamsAssumption ==
    /\ \A s \in Streams :
          /\ s.codec \in SplitCodecs
          /\ s.bytes \in Seq(Bytes) \ {<<>>}
          /\ s.packets \subseteq (0 .. Len(s.bytes)) \X (0 .. Len(s.bytes))
          /\ \A p \in s.packets : p[1] < p[2]
          /\ s.resets \in Nat
          /\ CutWell(s)
    /\ EndBound \in Nat \ {0}
-----------------------------------------------------------------------------

VARIABLES
    stream,   \* the stream that is decoded
    put,      \* how many of its bytes were put
    eosPut,   \* "no", or "data" or "empty": how its end was put
    packet,   \* mpp_pkt_in, or NoPacket
    ctx,      \* the parser's context
    task,     \* of HalDecTask: valid, flags.eos, and the data of the picture
    given,    \* the pictures that were parsed
    ends,     \* how often the end was told
    resets,   \* how often the user reset the decoder
    eosBefore \* whether an end was put before a reset

vars == <<stream, put, eosPut, packet, ctx, task, given, ends, resets, eosBefore>>

NoPacket == [data |-> <<>>, eos |-> FALSE]

ContextOf(codec) ==
    CASE codec \in {"mpg4", "m2v", "h263"} -> SplitStart
      [] codec = "h264" -> H264SplitStart [] codec = "h265" -> H265SplitStart
      [] codec = "avs" -> AvsSplitStart   [] codec = "vp9" -> Vp9SplitStart

Init ==
    /\ stream \in Streams
    /\ put = 0 /\ eosPut = "no"
    /\ packet = NoPacket
    /\ ctx = ContextOf(stream.codec)
    /\ task = NoTask
    /\ given = <<>> /\ ends = 0
    /\ resets = 0 /\ eosBefore = FALSE
-----------------------------------------------------------------------------
(* The user.                                                               *)

HasPacket == packet # NoPacket

(* The next packet, which may end the stream.                              *)
PutPacket(to) ==
    /\ ~HasPacket /\ eosPut = "no" /\ <<put, to>> \in stream.packets
    /\ \E eos \in (IF to = Len(stream.bytes) THEN BOOLEAN ELSE {FALSE}) :
          /\ packet' = [data |-> SubSeq(stream.bytes, put + 1, to), eos |-> eos]
          /\ eosPut' = IF eos THEN "data" ELSE "no"
    /\ put' = to
    /\ UNCHANGED <<stream, ctx, task, given, ends, resets, eosBefore>>

(* An empty packet that ends the stream.                                   *)
PutEnd ==
    /\ ~HasPacket /\ eosPut = "no" /\ put = Len(stream.bytes)
    /\ packet' = [data |-> <<>>, eos |-> TRUE]
    /\ eosPut' = "empty"
    /\ UNCHANGED <<stream, put, ctx, task, given, ends, resets, eosBefore>>
-----------------------------------------------------------------------------
(* The parser thread.                                                      *)

PrepareOf(codec, c, src, eos, t) ==
    CASE codec = "mpg4" -> Mpg4Prepare(c, src, eos, t) [] codec = "m2v" -> M2vPrepare(c, src, eos, t)
      [] codec = "h263" -> H263Prepare(c, src, eos, t) [] codec = "h264" -> H264Prepare(c, src, eos, t)
      [] codec = "h265" -> H265Prepare(c, src, eos, t) [] codec = "avs" -> AvsPrepare(c, src, eos, t)
      [] codec = "vp9" -> Vp9Prepare(c, src, eos, t)

(* Prepare: the packet is released when nothing is left of it; an end      *)
(* without a picture is told at once, and the task keeps its flag.         *)
Prepare ==
    /\ HasPacket /\ ~task.valid /\ ends < EndBound
    /\ \E r \in {PrepareOf(stream.codec, ctx, packet.data, packet.eos, task)} :
          /\ ctx' = r.ctx
          /\ task' = r.task
          /\ packet' = IF r.left = <<>> THEN NoPacket ELSE [packet EXCEPT !.data = r.left]
          /\ ends' = ends + (IF r.task.eos /\ ~r.task.valid THEN 1 ELSE 0)
    /\ UNCHANGED <<stream, put, eosPut, given, resets, eosBefore>>

(* Parse, up to the hand-over to the HAL thread, after which the task is   *)
(* initialized.                                                            *)
Parse ==
    /\ task.valid
    /\ LET told == IF stream.codec = "h265" THEN H265Parsed(ctx, task) ELSE task
       IN ends' = ends + (IF told.eos THEN 1 ELSE 0)
    /\ given' = Append(given, task.data)
    /\ task' = NoTask
    /\ ctx' = IF stream.codec = "h263" THEN H263Parsed(ctx) ELSE ctx
    /\ UNCHANGED <<stream, put, eosPut, packet, resets, eosBefore>>
-----------------------------------------------------------------------------
ResetOf(codec, c) ==
    CASE codec = "mpg4" -> Mpg4SplitReset(c) [] codec = "m2v" -> M2vSplitReset(c)
      [] codec = "h263" -> H263SplitReset(c) [] codec = "h264" -> H264SplitReset(c)
      [] codec = "h265" -> H265SplitReset(c) [] codec = "avs" -> AvsSplitReset(c)
      [] codec = "vp9" -> Vp9SplitReset(c)

(* A reset: the packets are dropped, the parser is reset, the task is      *)
(* initialized.  The user then begins with the stream again.               *)
Reset ==
    /\ resets < stream.resets /\ put > 0
    /\ packet' = NoPacket
    /\ ctx' = ResetOf(stream.codec, ctx)
    /\ task' = NoTask
    /\ put' = 0 /\ eosPut' = "no"
    /\ given' = <<>> /\ ends' = 0
    /\ resets' = resets + 1
    /\ eosBefore' = (eosBefore \/ eosPut # "no")
    /\ UNCHANGED stream

Next ==
    \/ \E to \in 1 .. Len(stream.bytes) : PutPacket(to)
    \/ PutEnd
    \/ Prepare
    \/ Parse
    \/ Reset

Spec == Init /\ [][Next]_vars /\ WF_vars(Prepare) /\ WF_vars(Parse)
-----------------------------------------------------------------------------
(* The types of the variables; a packet that is kept, and the data of a    *)
(* picture to parse, are never empty, or parse and the copy to the         *)
(* hardware's buffer run on nothing.                                       *)
TypeOK ==
    /\ stream \in Streams
    /\ put \in 0 .. Len(stream.bytes)
    /\ eosPut \in {"no", "data", "empty"}
    /\ DOMAIN packet = {"data", "eos"} /\ packet.eos \in BOOLEAN
    /\ DOMAIN task = {"valid", "eos", "data"} /\ task.valid \in BOOLEAN /\ task.eos \in BOOLEAN
    /\ task.valid => task.data # <<>>
    /\ ends \in 0 .. EndBound + 1 /\ resets \in 0 .. stream.resets

(* What is lost of an H.264 stream, or doubled of an H.265 stream, whose   *)
(* end comes in a packet with bytes: see the README.                       *)
EndWithBytes == eosPut = "data" /\ stream.codec \in {"h264", "h265"}

(* mpp_m2vd_parser_split ends for good with the first reset.               *)
SplitEnded == stream.codec = "m2v" /\ resets > 0

(* The flag of task_pkt outlives a reset: the end is told too early then.  *)
StaleEnd == eosBefore /\ stream.codec \in {"mpg4", "h263"}

(* However the stream is cut, the parser is handed its pictures: none torn *)
(* or merged, none twice, none left out before another, also after a reset *)
(* in the middle of a picture.  H.263 takes the position of a start code a *)
(* byte off, and MPEG-2 hands over packets after a reset: there no byte is *)
(* lost or doubled.                                                        *)
PicturesIntact ==
    /\ (stream.codec = "h263" /\ resets = 0) \/ SplitEnded =>
          IsPrefix(FlattenSeq(given), FlattenSeq(stream.pictures))
    /\ stream.codec # "h263" /\ ~SplitEnded /\ ~EndWithBytes => IsPrefix(given, stream.pictures)

(* The end is told only after it was put, also when the stream before a   *)
(* reset was at its end; and when it is told the pictures have all been    *)
(* handed over.  But the last one is lost when MPEG-4, MPEG-2 and H.264    *)
(* meet an empty last packet, and VP9 tells the end with each frame of its *)
(* last superframe.                                                        *)
EndsComplete ==
    ends > 0 /\ ~StaleEnd =>
        /\ eosPut # "no"
        /\ eosPut = "data" =>
              /\ stream.codec \in {"mpg4", "m2v"} /\ ~SplitEnded => given = stream.pictures
              /\ stream.codec = "vp9" => given # <<>>
        /\ eosPut = "empty" =>
              /\ stream.codec \in {"mpg4", "m2v", "h264"} /\ ~SplitEnded => given = Front(stream.pictures)
              /\ stream.codec \in {"h265", "vp9"} => given = stream.pictures

(* An H.265 stream that comes all in the packet that ends it is never      *)
(* read: the parser is called with that packet for ever.                   *)
NeverRead == stream.codec = "h265" /\ packet.eos /\ packet.data = stream.bytes

(* An end that is put is told, unless the user resets.  AVS never tells    *)
(* it, H.263 does not when its start code was not found.                   *)
EndIsTold ==
    (eosPut # "no" /\ stream.codec \notin {"avs", "h263"} /\ ~NeverRead) ~> (ends > 0 \/ eosPut = "no")
=============================================================================
