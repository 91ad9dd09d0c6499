----------------------------- MODULE MppCodecs ------------------------------
(***************************************************************************)
(* The parsers of the repository between the parser thread and the HAL     *)
(* thread of mpp/codec/mpp_dec.cpp.  One of them is chosen at the start,   *)
(* as mpp_parser_init does from the coding type, and is given any stream   *)
(* of pictures.  Pictures go through the hardware in the order of their    *)
(* tasks: one at a time, or up to three in fast mode.                      *)
(*                                                                         *)
(* MppDec has the two threads in full detail (waits, signals, packets,     *)
(* buffers) for the simplest parser; here the threads are reduced to what  *)
(* the parsers can tell: which of their calls and which releases of slots  *)
(* come in which order.  A picture is known by its place in the stream;    *)
(* its buffer has the name of the picture it was got for.                  *)
(***************************************************************************)
EXTENDS M2vParser, Mpg4Parser, AvsParser, Vp8Parser, Vp9Parser, H264Parser, H265Parser

(* The kinds of streams: a name, .codec is the coding type, and there are  *)
(* bounds: .pictures in all, .formats of frames, .resets by the user.      *)
(* PicturesOf(k) are the pictures that a stream of kind k may have.        *)
CONSTANTS Kinds, PicturesOf(_)

VARIABLES
    kind,        \* the kind of this stream
    fast,        \* parser_fast_mode
    ctx,         \* the parser's context
    parserAt,    \* where the parser thread is: before a picture, waiting for
                 \* the user's answer to an info change, before hw_start
    cur,         \* its task, parsed and not sent
    prevReady,   \* prev_task_rdy
    prevDone,    \* a task is in TASK_PROC_DONE
    queue,       \* the tasks in TASK_PROCESSING, in order
    halAt,       \* where the HAL thread is
    halTask,     \* the task it looks at
    infoGiven,   \* the user has an info change frame to answer
    extraRef,    \* buffers whose reference from mpp_buffer_get is not returned
    overPut,     \* a buffer reference was returned that nobody had
    aborted      \* a slot_assert failed, or mpp_buf_slot_get_unused found none

VARIABLES
    stream,      \* history: the pictures parsed: [pic, format, epoch, ok]
    ended,       \* "no", or how the end of the stream came: "picture" (with
                 \* the eos flag), "packet" (empty, with the flag)
    shown,       \* history: the pictures given to the user
    eosGiven,    \* the eos frame of this epoch was given to the user
    resets,      \* the resets so far: the number of the epoch
    lateFlush    \* history: the HAL thread flushed the parser at the end of a
                 \* stream that a reset had cut off before

threadVars == <<parserAt, cur, prevReady, prevDone, queue, halAt, halTask>>
userVars   == <<stream, ended, shown, eosGiven, resets, lateFlush>>
refVars    == <<extraRef, overPut>>
vars == <<kind, fast, ctx, threadVars, infoGiven, refVars, aborted, userVars, slotVars>>

codec == kind.codec

ParserSteps == {"parse", "info", "submit"}
HalSteps    == {"get", "hw", "slots", "display", "info", "eos"}

-----------------------------------------------------------------------------
(* mpp_parser.cpp: each call goes to the chosen parser.                    *)
ParserInit(c) ==
    CASE c = "m2v" -> M2vInit [] c = "mpg4" -> Mpg4Init [] c = "avs" -> AvsInit
      [] c = "vp8" -> Vp8Init [] c = "vp9" -> Vp9Init [] c = "h264" -> H264Init
      [] c = "h265" -> H265Init

Parsed(c, w, id, pic, last) ==
    CASE c = "m2v"  -> M2vParse(w, id, pic, last)
      [] c = "mpg4" -> Mpg4Parse(w, id, pic, last)
      [] c = "avs"  -> AvsParse(w, id, pic, last)
      [] c = "vp8"  -> Vp8Parse(w, id, pic, last)
      [] c = "vp9"  -> Vp9Parse(w, id, pic, last)
      [] c = "h264" -> H264Parse(w, id, pic, last)
      [] c = "h265" -> H265Parse(w, id, pic, last)

EndPrepared(c, w) ==
    CASE c = "m2v" -> M2vEnd(w) [] c = "mpg4" -> Mpg4End(w) [] c = "avs" -> AvsEnd(w)
      [] c = "vp8" -> Vp8End(w) [] c = "vp9" -> Vp9End(w) [] c = "h264" -> H264End(w)
      [] c = "h265" -> H265End(w)

Flushed(c, w) ==
    CASE c = "m2v" -> M2vFlush(w) [] c = "mpg4" -> Mpg4Flush(w) [] c = "avs" -> AvsFlush(w)
      [] c = "vp8" -> Vp8Flush(w) [] c = "vp9" -> Vp9Flush(w) [] c = "h264" -> H264Flush(w)
      [] c = "h265" -> H265Flush(w)

ParserReset(c, w) ==
    CASE c = "m2v" -> M2vReset(w) [] c = "mpg4" -> Mpg4Reset(w) [] c = "avs" -> AvsReset(w)
      [] c = "vp8" -> Vp8Reset(w) [] c = "vp9" -> Vp9Reset(w) [] c = "h264" -> H264Reset(w)
      [] c = "h265" -> H265Reset(w)

AllPictures(c) ==
    CASE c = "m2v" -> M2vPictures [] c = "mpg4" -> Mpg4Pictures [] c = "avs" -> AvsPictures
      [] c = "vp8" -> Vp8Pictures [] c = "vp9" -> Vp9Pictures [] c = "h264" -> H264Pictures
      [] c = "h265" -> H265Pictures

ASSUME KindsAssumption ==
    \A k \in Kinds : /\ PicturesOf(k) \subseteq AllPictures(k.codec)
                     /\ {k.pictures, k.formats, k.resets} \subseteq Nat

-----------------------------------------------------------------------------
(* The streams.  A new format begins with a picture that reads no other;   *)
(* the first picture of a pair of fields is followed by the second; a B    *)
(* picture does not read across a change of format.                        *)
Intra(pic) ==
    CASE codec \in {"m2v", "mpg4", "avs"} -> pic.type = "I"
      [] codec = "vp8" -> pic.key
      [] codec = "vp9" -> pic.kind = "key"
      [] codec = "h264" -> pic.idr
      [] codec = "h265" -> pic.sps

Part(pic) ==
    CASE codec = "m2v" -> pic.part
      [] codec = "h264" -> IF pic.second THEN "second" ELSE IF pic.st = "frame" THEN "frame" ELSE "first"
      [] OTHER -> "frame"
Format    == IF stream = <<>> THEN 1 ELSE Last(stream).format
HalfFrame == /\ stream # <<>> /\ Last(stream).epoch = resets
             /\ Part(Last(stream).pic) = "first"

IsB(pic)     == codec \in {"m2v", "mpg4", "avs"} /\ pic.type = "B"
AnchorPicture(n) ==
    /\ ~IsB(stream[n].pic) /\ Part(stream[n].pic) # "second"
    /\ codec = "mpg4" => stream[n].pic.type # "N"
AnchorFrame(n) == stream[n].ok /\ AnchorPicture(n)
Before(n)    == {k \in 1 .. n - 1 : AnchorFrame(k) /\ stream[k].epoch = stream[n].epoch}

(* H.264 streams that a decoder of the declared size can decode in order   *)
(* (H.264, C.4.5): at most H264Size frames are references or have to wait  *)
(* for a picture that comes later; and no order count comes twice.         *)
StartsPeriod(pic) == pic.idr \/ pic.mmco = "clear"
H264Mark(s, pic, k) ==
    LET full == Len(s.short) + (IF s.long # 0 THEN 1 ELSE 0) >= H264RefFrames
        cut  == IF s.short # <<>> THEN Tail(s.short) ELSE s.short
    IN CASE StartsPeriod(pic)   -> [short |-> <<k>>, long |-> 0]
         [] pic.second \/ ~pic.ref -> s
         [] pic.mmco = "slide"  -> [s EXCEPT !.short = Append(IF full THEN cut ELSE @, k)]
         [] pic.mmco = "unmark" -> [s EXCEPT !.short = Append(cut, k)]
         [] pic.mmco = "long"   -> [short |-> cut, long |-> k]
         [] pic.mmco = "free"   -> [short |-> Append(s.short, k), long |-> 0]
         [] OTHER -> s
H264Marked(str, n) ==
    LET Step(s, k) == IF str[k].ok /\ str[k].epoch = resets THEN H264Mark(s, str[k].pic, k) ELSE s
    IN FoldLeft(Step, [short |-> <<>>, long |-> 0], [k \in 1 .. n |-> k])
Marked(str, n) ==
    LET s == H264Marked(str, n) IN ToSet(s.short) \union ({s.long} \ {0})

H264Conforms(pic) ==
    LET n   == Len(stream) + 1
        str == Append(stream, [pic |-> pic, format |-> 0, epoch |-> resets, ok |-> ~pic.bad])
        S   == {k \in 1 .. n : str[k].ok /\ str[k].epoch = resets}
        Begins == {k \in S : StartsPeriod(str[k].pic)}
        Period == {k \in S : \A b \in Begins : b <= k}
        Poc(k) == str[k].pic.poc
        Frames == {k \in Period : ~str[k].pic.second}
        Held(k) == Marked(str, k)
                   \union {j \in Frames : j <= k /\ \E i \in Period : Poc(i) < Poc(j) /\
                                       (IF j = k THEN i > k ELSE i >= k)}
    IN /\ pic.second =>
            LET f == Last(stream).pic
            IN pic.st # f.st /\ pic.poc = f.poc + 1 /\ (pic.ref <=> f.ref)
       /\ StartsPeriod(pic) \/ Begins # {}
       /\ \A i, j \in Period : i # j => Poc(i) # Poc(j)
       /\ \A k \in Period : /\ Cardinality(Held(k)) <= H264Size
                            /\ Cardinality(Marked(str, k)) <= H264RefFrames

(* H.265 streams.  A period of order counts begins with an IDR or a BLA    *)
(* picture and after an end of sequence; nothing is known of the stream    *)
(* before its first picture, or before a reset.                            *)
H265Begins(str, n) ==
    \/ n = 1 \/ str[n].epoch # str[n - 1].epoch
    \/ str[n].pic.nal \in {"idr", "bla"} \/ str[n - 1].pic.end
H265Start(str, n)  == Max({k \in 1 .. n : H265Begins(str, k)})
H265Set(pic)       == {pic.poc + d : d \in ToSet(pic.rps)} \union (IF pic.lt THEN {0} ELSE {})

(* The order counts that a picture may still refer to after the pictures   *)
(* from b to n: the sets take away, and each picture adds itself.          *)
H265Left(str, b, n) ==
    LET Step(S, k) == (S \intersect H265Set(str[k].pic)) \union {str[k].pic.poc}
    IN FoldLeft(Step, {}, [k \in 1 .. n - b + 1 |-> b + k - 1])

(* A new picture: the sets of the standard (8.3.2), the low bits of the    *)
(* order count tell it from the latest one that counts (8.3.1) of those    *)
(* that were parsed, and no picture waits for more than H265Reorder.       *)
H265Conforms(pic) ==
    LET n      == Len(stream) + 1
        str    == Append(stream, [pic |-> pic, format |-> 0, epoch |-> resets, ok |-> TRUE])
        b      == H265Start(str, n)
        Poc(k) == str[k].pic.poc
        Period == b .. n - 1
        Intras == {k \in Period : IRAP(str[k].pic)}
        Counts == {k \in Period : ~str[k].pic.bad /\ str[k].pic.nal \notin {"trail_n", "rasl_r"}}
        diff   == Poc(n) - Poc(Max(Counts))
    IN /\ pic.sps => b = n
       /\ \A k \in Period : Poc(k) # Poc(n)
       /\ Counts # {} => diff \in 1 - H265MaxLsb \div 2 .. H265MaxLsb \div 2 - 1
       /\ Cardinality({k \in Period : Poc(k) > Poc(n)}) <= H265Reorder
       /\ b < n /\ pic.nal = "cra" => \A k \in Period : Poc(k) < Poc(n)
       /\ IF pic.nal = "rasl_r"
          THEN /\ Intras # {} /\ str[Max(Intras)].pic.nal \in {"cra", "bla"}
               /\ Poc(n) < Poc(Max(Intras))
               /\ \A k \in Max(Intras) + 1 .. n - 1 : str[k].pic.nal = "rasl_r"
               /\ b # Max(Intras) => H265Set(pic) \subseteq H265Left(str, b, n - 1)
          ELSE ~IRAP(pic) /\ Intras # {} =>
               /\ Poc(n) > Poc(Max(Intras))
               /\ \A k \in b .. n - 1 : Poc(k) \in H265Set(pic) => k >= Max(Intras)
               /\ H265Set(pic) \subseteq H265Left(str, b, n - 1)

Possible(pic, format) ==
    /\ Part(pic) = "second" <=> HalfFrame
    /\ codec = "m2v" /\ Part(pic) = "second" =>
          \/ pic.type = Last(stream).pic.type
          \/ pic.type = "P" /\ Last(stream).pic.type = "I"
    /\ codec = "h264" => H264Conforms(pic)
    /\ codec = "h265" => H265Conforms(pic)
    /\ format # Format => Intra(pic) /\ Part(pic) # "second" /\ stream # <<>>
    /\ IsB(pic) => \A k \in DOMAIN stream : stream[k].format # format =>
          \E i, j \in k + 1 .. Len(stream) : i # j /\ AnchorPicture(i) /\ AnchorPicture(j)

-----------------------------------------------------------------------------
NoTask == [id |-> 0, epoch |-> 0, frame |-> NoFrame, out |-> NoSlot, refer |-> <<>>,
           reads |-> <<>>, valid |-> FALSE, eos |-> FALSE, info |-> FALSE]

TaskOf(w, id) ==
    [NoTask EXCEPT !.id = id, !.epoch = resets, !.out = w.out, !.refer = w.refer,
                   !.frame = IF w.out = NoSlot THEN NoFrame ELSE w.slot[w.out].frame,
                   !.reads = [k \in DOMAIN w.refer |-> w.slot[w.refer[k]].frame],
                   !.valid = w.valid, !.eos = w.eos]

Init ==
    /\ kind \in Kinds
    /\ fast \in BOOLEAN
    /\ ctx = ParserInit(codec)
    /\ SlotsInit(0)
    /\ parserAt = "parse" /\ cur = NoTask /\ prevReady = TRUE /\ prevDone = FALSE
    /\ queue = <<>> /\ halAt = "get" /\ halTask = NoTask
    /\ infoGiven = FALSE /\ extraRef = {} /\ overPut = FALSE /\ aborted = FALSE
    /\ stream = <<>> /\ ended = "no" /\ shown = <<>> /\ eosGiven = FALSE /\ resets = 0
    /\ lateFlush = FALSE

(* A task handle is idle: two tasks, or three in fast mode (mpp_dec_init). *)
HandleIdle == Len(queue) + (IF prevDone THEN 1 ELSE 0) < (IF fast THEN 3 ELSE 2)

(* Step 7.1: the task before this one is done; it becomes idle here.       *)
PreviousDone == fast \/ prevReady \/ prevDone

(* References to buffers are returned, one after the other.                *)
PutAll(bs) ==
    /\ extraRef' = extraRef \ ToSet(bs)
    /\ overPut' = (overPut \/ ~(ToSet(bs) \subseteq extraRef) \/ ~IsInjective(bs))

(* The parser's call has done w.                                           *)
Take(w) ==
    /\ ctx' = w.ctx
    /\ slot' = w.slot
    /\ display' = w.display
    /\ aborted' = (aborted \/ w.full)
    /\ PutAll(w.puts)

-----------------------------------------------------------------------------
(* The parser thread parses a picture.  A new format is announced by a     *)
(* task of its own; a task without output is dropped, or sent when it has  *)
(* the eos flag.                                                           *)
ParserParses ==
    /\ parserAt = "parse" /\ ended = "no" /\ Len(stream) < kind.pictures
    /\ HandleIdle /\ PreviousDone
    /\ \E pic \in PicturesOf(kind), format \in 1 .. kind.formats :
          /\ Possible(pic, format)
          /\ \E last \in BOOLEAN :
             \E w \in {Parsed(codec, Work(ctx), Len(stream) + 1, pic, last)} :
                LET t   == TaskOf(w, Len(stream) + 1)
                    out == w.out # NoSlot
                    new == out /\ info # format
                IN /\ Take(w)
                   /\ stream' = Append(stream, [pic |-> pic, format |-> format,
                                                epoch |-> resets, ok |-> out /\ w.valid])
                   /\ ended' = IF last THEN "picture" ELSE "no"
                   /\ IF out THEN DetectChange(format) ELSE UNCHANGED <<infoSet, infoChanged>>
                   /\ parserAt' = IF new THEN "info" ELSE IF out THEN "submit" ELSE "parse"
                   /\ queue' = CASE new -> Append(queue, [t EXCEPT !.info = TRUE])
                                 [] ~out /\ w.eos -> Append(queue, t)
                                 [] OTHER -> queue
                   /\ cur' = IF out THEN t ELSE NoTask
    /\ prevReady' = TRUE /\ prevDone' = FALSE
    /\ UNCHANGED <<kind, fast, halAt, halTask, infoGiven, shown, eosGiven, resets, lateFlush, info>>

(* An empty packet with the eos flag: prepare tells the HAL thread.        *)
ParserEnds ==
    /\ parserAt = "parse" /\ ended = "no" /\ HandleIdle
    /\ LET w == EndPrepared(codec, Work(ctx)) IN
          /\ Take(w)
          /\ queue' = IF w.eos THEN Append(queue, TaskOf(w, Len(stream))) ELSE queue
    /\ ended' = "packet"
    /\ UNCHANGED <<kind, fast, parserAt, cur, prevReady, prevDone, halAt, halTask, infoGiven,
                   stream, shown, eosGiven, resets, lateFlush, info, infoSet, infoChanged>>

(* The user answers an info change, and the parser goes on.                *)
UserReadies ==
    /\ infoGiven
    /\ infoGiven' = FALSE
    /\ SlotsReady
    /\ UNCHANGED <<kind, fast, ctx, threadVars, refVars, aborted, userVars>>

ParserResumes ==
    /\ parserAt = "info" /\ ~infoChanged /\ HandleIdle
    /\ parserAt' = "submit"
    /\ UNCHANGED <<kind, fast, ctx, cur, prevReady, prevDone, queue, halAt, halTask, infoGiven,
                   refVars, aborted, userVars, slotVars>>

(* Steps 10-12: the output has a buffer, or gets one, and the task goes to *)
(* the hardware.                                                           *)
ParserSubmits ==
    /\ parserAt = "submit"
    /\ parserAt' = "parse"
    /\ IF slot[cur.out].buffer # NoBuffer THEN UNCHANGED <<slot, extraRef>>
       ELSE /\ slot' = [slot EXCEPT ![cur.out].buffer = cur.id]
            /\ extraRef' = extraRef \union {cur.id}
    /\ queue' = Append(queue, cur)
    /\ cur' = NoTask
    /\ prevReady' = FALSE
    /\ UNCHANGED <<kind, fast, ctx, prevDone, halAt, halTask, infoGiven, overPut, aborted,
                   userVars, display, info, infoSet, infoChanged>>

(* reset_dec_task, when the hardware is done.  (A reset while an info      *)
(* change is on its way is in MppDec.)  The parser is reset, a picture     *)
(* that was parsed and not sent gives up its slots, and what can be        *)
(* displayed is dropped.                                                   *)
GivenUp(w) ==
    IF parserAt # "submit" THEN w
    ELSE LET Unread(v, i) == Clr(v, i, "HAL_INPUT")
         IN FoldLeft(Unread, Clr(w, cur.out, "HAL_OUTPUT"), cur.refer)

Undisplayed(w) ==
    LET i == Head(w.display)
    IN [w EXCEPT !.slot[i] = ClrFlag([@ EXCEPT !.queueUse = Less(@)], "QUEUE_USE"),
                 !.display = Tail(@),
                 !.puts = IF w.slot[i].buffer = NoBuffer THEN @
                          ELSE Append(@, w.slot[i].buffer)]

Drained(w) ==
    LET Drain(v, k) == IF v.display # <<>> /\ ~v.slot[Head(v.display)].notReady
                       THEN Undisplayed(v) ELSE v
    IN FoldLeft(Drain, w, w.display)

Reset ==
    /\ resets < kind.resets
    /\ parserAt \in {"parse", "submit"}
    /\ IF fast THEN queue = <<>> ELSE PreviousDone
    /\ Take(Drained(GivenUp(ParserReset(codec, Work(ctx)))))
    /\ resets' = resets + 1
    /\ parserAt' = "parse" /\ cur' = NoTask
    /\ prevReady' = TRUE /\ prevDone' = FALSE
    /\ ended' = "no" /\ eosGiven' = FALSE
    /\ UNCHANGED <<kind, fast, queue, halAt, halTask, infoGiven, stream, shown, lateFlush,
                   info, infoSet, infoChanged>>

-----------------------------------------------------------------------------
(* The HAL thread looks at the first task in processing.  For an info      *)
(* change it flushes the parser.                                           *)
HalTakes ==
    /\ halAt = "get" /\ queue # <<>>
    /\ halTask' = Head(queue)
    /\ IF Head(queue).info
       THEN Take(Flushed(codec, Work(ctx))) /\ halAt' = "info"
       ELSE /\ halAt' = IF Head(queue).eos /\ ~Head(queue).valid THEN "eos" ELSE "hw"
            /\ UNCHANGED <<ctx, slot, display, aborted, refVars>>
    /\ UNCHANGED <<kind, fast, parserAt, cur, prevReady, prevDone, queue, infoGiven, userVars,
                   info, infoSet, infoChanged>>

(* The hardware is done, and the parser is told; in fast mode the task is  *)
(* idle at once.                                                           *)
HalFinishes ==
    /\ halAt = "hw"
    /\ halAt' = "slots"
    /\ queue' = Tail(queue)
    /\ prevDone' = ~fast
    /\ UNCHANGED <<kind, fast, ctx, parserAt, cur, prevReady, halTask, infoGiven, refVars,
                   aborted, userVars, slotVars>>

(* Then the slots of the task are released, and the parser is flushed at   *)
(* the end of the stream.  A task without output fails a slot_assert.      *)
Finished(t) ==
    LET Unread(w, i) == Clr(w, i, "HAL_INPUT")
    IN FoldLeft(Unread, Clr(Work(ctx), t.out, "HAL_OUTPUT"), t.refer)

HalClears ==
    /\ halAt = "slots"
    /\ IF halTask.out = NoSlot
       THEN aborted' = TRUE /\ UNCHANGED <<ctx, slot, display, refVars>>
       ELSE Take(IF halTask.eos THEN Flushed(codec, Finished(halTask)) ELSE Finished(halTask))
    /\ halAt' = "display"
    /\ lateFlush' = (lateFlush \/ (halTask.eos /\ halTask.epoch # resets))
    /\ UNCHANGED <<kind, fast, parserAt, cur, prevReady, prevDone, queue, halTask, infoGiven,
                   stream, ended, shown, eosGiven, resets, info, infoSet, infoChanged>>

(* mpp_dec_push_display: a picture goes to the user, who gives it back at  *)
(* once.                                                                   *)
HalShows ==
    /\ halAt \in {"info", "eos", "display"}
    /\ DisplayReady
    /\ LET w == Undisplayed(Work(ctx)) IN
          /\ slot' = w.slot
          /\ display' = w.display
          /\ PutAll(w.puts)
    /\ shown' = Append(shown, slot[Head(display)].frame)
    /\ UNCHANGED <<kind, fast, ctx, threadVars, infoGiven, aborted, stream, ended, eosGiven,
                   resets, lateFlush, info, infoSet, infoChanged>>

(* No picture is left to display: the frame without picture follows, and   *)
(* the HAL thread looks for its next task.                                 *)
HalEnds ==
    /\ halAt \in {"info", "eos", "display"}
    /\ ~DisplayReady
    /\ queue' = IF halAt = "display" THEN queue ELSE Tail(queue)
    /\ infoGiven' = (infoGiven \/ halAt = "info")
    /\ eosGiven' = (eosGiven \/ (halAt # "info" /\ halTask.eos /\ halTask.epoch = resets))
    /\ halAt' = "get"
    /\ halTask' = NoTask
    /\ UNCHANGED <<kind, fast, ctx, parserAt, cur, prevReady, prevDone, refVars, aborted,
                   stream, ended, shown, resets, lateFlush, slotVars>>

Next ==
    /\ ~aborted
    /\ \/ ParserParses \/ ParserEnds \/ ParserResumes \/ ParserSubmits \/ Reset
       \/ UserReadies
       \/ HalTakes \/ HalFinishes \/ HalClears \/ HalShows \/ HalEnds

Spec == Init /\ [][Next]_vars
-----------------------------------------------------------------------------
(* Type correctness.                                                       *)
Tasks(n) ==
    [id : 0 .. n, epoch : Nat, frame : 1 .. n \union {NoFrame}, out : Slots \union {NoSlot},
     refer : Seq(Slots), reads : Seq(1 .. n \union {NoFrame}), valid : BOOLEAN, eos : BOOLEAN,
     info : BOOLEAN]

TypeOK ==
    /\ kind \in Kinds /\ fast \in BOOLEAN
    /\ parserAt \in ParserSteps /\ halAt \in HalSteps
    /\ {cur, halTask} \union ToSet(queue) \subseteq Tasks(Len(stream))
    /\ {prevReady, prevDone, infoGiven, overPut, aborted, eosGiven, lateFlush} \subseteq BOOLEAN
    /\ ended \in {"no", "picture", "packet"}
    /\ extraRef \union ToSet(shown) \subseteq DOMAIN stream
    /\ resets \in 0 .. kind.resets
    /\ SlotsTypeOK(DOMAIN stream, DOMAIN stream, 0 .. kind.formats)

(* The tasks that the hardware has or will have, in order.                 *)
ForHardware(t) == ~t.info /\ t.out # NoSlot
Hardware == SelectSeq(queue, ForHardware) \o (IF ForHardware(cur) THEN <<cur>> ELSE <<>>)

(* The pictures that the reference pointers of VP9 were last refreshed     *)
(* with before picture n, from the stream alone.                           *)
Vp9Pointers(n) ==
    LET Step(p, k) ==
            IF stream[k].ok /\ stream[k].epoch = stream[n].epoch
            THEN [r \in Vp9Refs |-> IF r \in stream[k].pic.refresh THEN k ELSE p[r]]
            ELSE p
    IN FoldLeft(Step, [r \in Vp9Refs |-> 0], [k \in 1 .. n - 1 |-> k])

(* After a reset VP9 may make the hardware read by the slot index of a     *)
(* pointer that has no reference any more (Vp9Reset), which no frame after *)
(* a reset can have meant: nothing keeps that slot.                        *)
StaleRead(t, k) ==
    codec = "vp9" /\ t.epoch > 0 /\ \A r \in Vp9Refs : Vp9Pointers(t.id)[r] # t.reads[k]

(* What the hardware reads and writes stays what the parser meant: until a *)
(* task is finished its slots are in use and have the frames they had when *)
(* it was parsed, no picture it reads waits to be decoded after it, and    *)
(* the picture it writes has not been given to the user (the second of two *)
(* fields and stale reads of VP9 apart).  mpp_buf_slot_clr_flag and the    *)
(* flags the parsers set.                                                  *)
HardwareSlotsKept ==
    \A n \in DOMAIN Hardware :
        LET t == Hardware[n] IN
        /\ Part(stream[t.id].pic) # "second" =>
              /\ slot[t.out].onUsed /\ slot[t.out].frame = t.frame
              /\ t.frame \notin ToSet(shown)
        /\ \A k \in DOMAIN t.refer : ~StaleRead(t, k) =>
              /\ slot[t.refer[k]].onUsed /\ slot[t.refer[k]].halUse > 0
              /\ slot[t.refer[k]].frame = t.reads[k]
              /\ \A m \in n .. Len(Hardware) :
                    Hardware[m].out = t.refer[k] => Hardware[m].frame = t.frame

(* The pictures that picture n needs, from the stream alone: the latest    *)
(* anchors of the epoch, or what the three or eight reference pointers     *)
(* were last refreshed with.                                               *)
Latest(n)       == CHOOSE k \in Before(n) : \A j \in Before(n) : j <= k
BeforeLatest(n) == LET S == Before(n) \ {Latest(n)} IN CHOOSE k \in S : \A j \in S : j <= k

Vp8Pointers(n) ==
    LET Step(p, k) ==
            LET pic == stream[k].pic
                alt == CASE pic.alternate = "last" -> p.last
                         [] pic.alternate = "golden" -> p.golden [] OTHER -> p.alternate
                gld == CASE pic.golden = "last" -> p.last
                         [] pic.golden = "alternate" -> alt [] OTHER -> p.golden
            IN IF ~stream[k].ok \/ stream[k].epoch # stream[n].epoch THEN p
               ELSE [last |-> IF pic.last THEN k ELSE p.last,
                     golden |-> IF pic.golden = "out" THEN k ELSE gld,
                     alternate |-> IF pic.alternate = "out" THEN k ELSE alt]
    IN FoldLeft(Step, [last |-> 0, golden |-> 0, alternate |-> 0], [k \in 1 .. n - 1 |-> k])

Needed(n) ==
    LET pic == stream[n].pic IN
    CASE Intra(pic) \/ (codec # "h264" /\ Part(pic) = "second") -> {}
      [] codec = "h265" /\ IRAP(pic) -> {}
      [] codec \in {"m2v", "mpg4", "avs"} /\ pic.type = "P" -> {Latest(n)}
      [] IsB(pic) -> {Latest(n), BeforeLatest(n)}
      [] codec = "vp8" -> LET p == Vp8Pointers(n) IN {p.last, p.golden, p.alternate} \ {0}
      [] codec = "vp9" -> IF pic.kind # "inter" THEN {}
                          ELSE {Vp9Pointers(n)[r] : r \in ToSet(pic.refidx)} \ {0}
      [] codec = "h264" -> Marked(stream, n - 1)
      [] codec = "h265" -> {k \in H265Start(stream, n) .. n - 1 :
                               stream[k].ok /\ stream[k].pic.poc \in H265Set(pic)}

(* A picture is decoded from the pictures it was coded from.               *)
ReadsAsCoded ==
    cur # NoTask => Needed(cur.id) \subseteq ToSet(cur.reads)

(* The place of a picture in display order: with B pictures, an anchor     *)
(* comes after the B pictures that follow it in the stream.                *)
Anchors(n) == Cardinality({k \in 1 .. n : AnchorFrame(k)})
Place(n) ==
    IF codec \in {"vp8", "vp9"} THEN n
    ELSE IF codec = "h264"
         THEN 10 * Cardinality({k \in 1 .. n : stream[k].ok /\ StartsPeriod(stream[k].pic)})
              + stream[n].pic.poc
    ELSE IF codec = "h265"
         THEN 100 * Cardinality({k \in 1 .. n : H265Begins(stream, k)}) + stream[n].pic.poc
    ELSE IF IsB(stream[n].pic) THEN 100 * (Anchors(n) - 1) + n ELSE 100 * Anchors(n)

(* The user gets no picture twice, and the pictures in display order.  (A  *)
(* flush that comes after a reset displays pictures of the next stream too *)
(* early: then nothing is said of the order.)                              *)
ShownInOrder ==
    LET Good(n) == stream[n].ok
        seen    == SelectSeq(shown, Good)
    IN /\ IsInjective(shown)
       /\ ~lateFlush => \A k \in 1 .. Len(seen) - 1 : Place(seen[k]) < Place(seen[k + 1])

(* Who keeps a slot: the parser, the display queue, a task.                *)
ParserKeeps ==
    CASE codec = "m2v"  -> {ctx.cur.slot, ctx.ref0.slot, ctx.ref1.slot}
      [] codec = "mpg4" -> {ctx.ref0.slot, ctx.ref1.slot}
      [] codec = "avs"  -> {ctx.dpb0.slot, ctx.dpb1.slot}
      [] codec = "vp8"  -> {ctx.ref, ctx.golden, ctx.alternate}
      [] codec = "vp9"  -> {ctx.frame[f].slot : f \in {g \in Vp9Frames : ctx.frame[g].live}}
      [] codec = "h264" -> {ctx.marks[m].slot : m \in
            {k \in Slots : \E s \in ToSet(Append(ctx.fs, ctx.direct)) : k \in {s.frame, s.top, s.bottom}}}
      [] codec = "h265" -> {ctx.dpb[i].slot : i \in H265Entries}
TaskKeeps(t)  == {t.out} \union ToSet(t.refer)
HalHas        == halAt \in {"hw", "slots"}
Kept == ParserKeeps \union ToSet(display) \union TaskKeeps(cur)
        \union UNION {TaskKeeps(queue[k]) : k \in DOMAIN queue}
        \union (IF HalHas THEN TaskKeeps(halTask) ELSE {})

(* H265Restart took picture n of an earlier sequence for picture k.        *)
TakenForCurrent(n, k) ==
    /\ IRAP(stream[k].pic) /\ H265Set(stream[k].pic) # {}
    /\ stream[k].pic.poc = stream[n].pic.poc /\ n < H265Start(stream, k)

(* Nothing is lost: a slot in use is kept by someone, a buffer whose       *)
(* reference is not returned is that of such a slot, and no reference is   *)
(* returned twice.  (Three kinds of pictures are forgotten: the hidden     *)
(* ones of VP8, a picture that H265Restart takes for another one, and a    *)
(* first field that a reset separates from its second.)                    *)
Forgotten(n) ==
    \/ codec = "vp8" /\ ~stream[n].pic.show
    \/ codec = "h265" /\ \E k \in n + 1 .. Len(stream) : TakenForCurrent(n, k)
    \/ /\ Part(stream[n].pic) = "first" /\ stream[n].epoch < resets
       /\ n < Len(stream) => Part(stream[n + 1].pic) # "second"
UsedSlots == {i \in Slots : slot[i].onUsed}
NothingLeaks ==
    /\ UsedSlots \subseteq Kept
    /\ \A b \in extraRef : (\E i \in UsedSlots : slot[i].buffer = b) \/ Forgotten(b)
    /\ ~overPut

(* Every task that the HAL thread finishes has an output slot: the parser  *)
(* says valid only of a picture (mpp_dec.cpp, the slot_assert behind       *)
(* mpp_buf_slot_clr_flag), and a slot is free for each.  Apart from the    *)
(* end of the stream in a picture that VP9 shows again or H.265 skips: the *)
(* task is said to be valid, and the process aborts.                       *)
Headless == halTask.valid /\ halTask.eos /\ halTask.out = NoSlot /\ codec \in {"vp9", "h265"}
TasksHaveOutput == aborted => Headless

(* When the user is told of the end, every picture of the epoch that was   *)
(* accepted, and is to be shown, was shown.                                *)
ToBeShown(n) ==
    /\ stream[n].ok /\ stream[n].epoch = resets /\ Part(stream[n].pic) # "second"
    /\ codec = "vp8" => stream[n].pic.show
    /\ codec = "vp9" => stream[n].pic.show

EveryPictureShown == eosGiven => {n \in DOMAIN stream : ToBeShown(n)} \subseteq ToSet(shown)

(* Apart from the last anchor of MPEG-2, which m2vd_parser_flush forgets,  *)
(* and that of MPEG-4 when the picture with the eos flag is not decoded;   *)
(* and the first field of an MPEG-2 frame that has no second.              *)
Unfinished(n) == HalfFrame /\ n = Len(stream)
LastAnchor(n) ==
    /\ AnchorFrame(n)
    /\ \A k \in n + 1 .. Len(stream) : ~AnchorFrame(k) \/ Unfinished(k)
Undelivered(n) ==
    \/ codec = "m2v" /\ (LastAnchor(n) \/ Unfinished(n))
    \/ codec = "mpg4" /\ LastAnchor(n) /\ ended = "picture" /\ ~Last(stream).ok
    \/ codec = "h265" /\ \E k \in n + 1 .. Len(stream) : TakenForCurrent(n, k)
AllShownAtEnd ==
    eosGiven => \A n \in DOMAIN stream : ToBeShown(n) => n \in ToSet(shown) \/ Undelivered(n)
=============================================================================
