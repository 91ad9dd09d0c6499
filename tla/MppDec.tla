------------------------------- MODULE MppDec -------------------------------
(***************************************************************************)
(* A decoder context: the parser thread and the HAL thread of              *)
(* mpp/codec/mpp_dec.cpp, the task group and the frame slots between them, *)
(* and a user's thread that puts packets, gets frames, commits buffers on  *)
(* an info change and resets (mpp/mpp.cpp, the flow of test/mpi_dec_test.c *)
(* with an external frame buffer group).                                   *)
(*                                                                         *)
(* The codec is H.263 in copy mode (one packet is one picture): the        *)
(* simplest parser of the repository that keeps a reference.  It asks for  *)
(* two tasks, so the decoder is not in fast mode: a picture is parsed when *)
(* the hardware is done with the one before.                               *)
(*                                                                         *)
(* A packet is known by its place in the stream; so is its picture.        *)
(***************************************************************************)
EXTENDS HalTaskGroup, BufSlots

CONSTANTS
    Scenarios,   \* what the user does: [stream, buffers, resets]; the stream
                 \* has packets [kind : {"I", "P", "eos"}, fmt, last], and
                 \* buffers are committed on an info change
    Depth        \* how many queued packets make put_packet answer BUFFER_FULL

Kinds == {"I", "P", "eos"}

ASSUME DecAssumption ==
    \A s \in Scenarios :
        /\ s.buffers \in Nat \ {0} /\ s.resets \in Nat
        /\ s.stream \in Seq([kind : Kinds, fmt : Nat, last : BOOLEAN])
        /\ \A p \in DOMAIN s.stream :
              IF s.stream[p].kind = "eos" THEN s.stream[p].last ELSE s.stream[p].fmt # 0

(* A frame is a packet's number, a buffer a commit's and one in it.        *)
ASSUME NamesAssumption == NoFrame \notin Nat \ {0} /\ NoBuffer \notin Nat \X Nat

VARIABLES
    scenario,    \* the scenario
    userAt,      \* where the user's thread is; see UserSteps
    put,         \* packets put so far
    resets,      \* resets begun so far
    sinceReset,  \* the first packet put after the last reset
    held,        \* the buffers of the frames the user holds
    packets,     \* mPackets
    flushFlag,   \* mFlushFlag of mPackets
    frames,      \* mFrames: records [kind, id, buffer]
    resetFlag,   \* reset_flag of MppDec
    group,       \* mFrameGroup: the number of the latest commit, 0 for NULL
    extraRef,    \* buffers whose reference from mpp_buffer_get is not returned
    packetSlots, \* the packet slots in use
    aborted      \* a slot_assert failed, or a NULL frame was written to

Stream      == scenario.stream
BufferCount == scenario.buffers
ResetBound  == scenario.resets  \* bound: how often the user resets
Packets     == DOMAIN Stream
Formats     == {0} \union {Stream[p].fmt : p \in Packets}

userVars == <<scenario, userAt, put, resets, sinceReset, held>>
outVars  == <<frames, extraRef>>

VARIABLES
    parserAt,    \* where the parser thread is; see ParserSteps
    hnd,         \* task->hnd
    cur,         \* task->info
    ready,       \* the status bits of the DecTask that are set
    waits,       \* its wait bits that are set
    ref0,        \* the H.263 parser's reference slot (hdr_ref0)
    foundI       \* found_i_vop

parserVars == <<hnd, cur, ready, waits, ref0, foundI>>

VARIABLES
    halAt,       \* where the HAL thread is; see HalSteps
    halTask,     \* its task
    halInfo      \* its copy of the task's information

halVars == <<halAt, halTask, halInfo>>
vars == <<userVars, packets, flushFlag, outVars, resetFlag, group, packetSlots, aborted,
          parserAt, parserVars, halVars, groupVars, slotVars>>

UserSteps   == {"app", "commit", "ready", "flush", "flag", "wait"}
ParserSteps == {"top", "check", "asleep", "try", "pull", "prev", "group", "parse", "change",
                "submit", "resetPrev", "resetClear", "resetDrain"}
HalSteps    == {"get", "asleep", "infoDisplay", "infoPut", "infoIdle", "eosDisplay", "eosPut",
                "eosIdle", "hw", "done", "slots", "display", "lastPut"}
Status      == {"curr", "copied", "prev", "parsed", "infoGen"}
Waits       == {"task_hnd", "prev_task", "info_change", "dec_pic_buf"}

NoInfo == [id |-> 0, valid |-> FALSE, eos |-> FALSE, infoChange |-> FALSE,
           output |-> NoSlot, refer |-> NoSlot, input |-> 0]

Init ==
    /\ GroupInit(NoInfo)
    /\ SlotsInit(0)
    /\ scenario \in Scenarios
    /\ userAt = "app" /\ put = 0 /\ resets = 0 /\ sinceReset = 1 /\ held = {}
    /\ packets = <<>> /\ flushFlag = FALSE /\ frames = <<>>
    /\ resetFlag = FALSE /\ group = 0 /\ extraRef = {} /\ packetSlots = {} /\ aborted = FALSE
    /\ parserAt = "top" /\ hnd = NoTask /\ cur = NoInfo /\ ready = {"prev"} /\ waits = {}
    /\ ref0 = NoSlot /\ foundI = FALSE
    /\ halAt = "get" /\ halTask = NoTask /\ halInfo = NoInfo

-----------------------------------------------------------------------------
(* Condition::signal of a thread: it is lost unless the thread waits.  The *)
(* parser goes on with try_proc_dec_task after its wait, the HAL thread    *)
(* looks for a task again.                                                 *)
ParserWoken == IF parserAt = "asleep" THEN "try" ELSE parserAt
HalNotWoken == halAt \* a wrong wake: the signal is forgotten
HalWoken    == IF halAt = "asleep" THEN "get" ELSE halAt

(* A buffer is used while a slot has it or its first reference is out.     *)
InUse(slots, refs) == refs \union ({slots[i].buffer : i \in Slots} \ {NoBuffer})
Committed(g)       == IF g = 0 THEN {} ELSE {<<g, i>> : i \in 1 .. BufferCount}
FreeBuffers        == Committed(group) \ InUse(slot, extraRef)

(* The last reference to a buffer goes: the listener of its group (set     *)
(* when the group is) is the parser thread, and is signalled.              *)
ParserAfterRelease(slots, refs) ==
    IF InUse(slot, extraRef) \subseteq InUse(slots, refs) THEN parserAt ELSE ParserWoken

Abort == aborted' = TRUE

-----------------------------------------------------------------------------
(* The user.  put_packet, when there is room.                              *)
UserPuts ==
    /\ userAt = "app"
    /\ put < Len(Stream)
    /\ Len(packets) < Depth \/ Stream[put + 1].last
    /\ packets' = Append(packets, put + 1)
    /\ put' = put + 1
    /\ flushFlag' = FALSE
    /\ UNCHANGED <<scenario, userAt, resets, sinceReset, held, outVars, resetFlag, group, packetSlots,
                   aborted, parserAt, parserVars, halVars, groupVars, slotVars>>

(* get_frame; it signals the HAL thread.                                   *)
UserGets ==
    /\ userAt = "app"
    /\ frames # <<>>
    /\ frames' = Tail(frames)
    /\ held' = held \union ({Head(frames).buffer} \ {NoBuffer})
    /\ userAt' = IF Head(frames).kind = "info" THEN "commit" ELSE "app"
    /\ halAt' = HalWoken
    /\ UNCHANGED <<scenario, put, resets, sinceReset, packets, flushFlag, extraRef, resetFlag, group,
                   packetSlots, aborted, parserAt, parserVars, halTask, halInfo, groupVars,
                   slotVars>>

(* mpp_frame_deinit of a frame the user is done with.                      *)
UserReleases ==
    /\ userAt = "app"
    /\ \E b \in held :
          /\ held' = held \ {b}
          /\ extraRef' = extraRef \ {b}
          /\ parserAt' = ParserAfterRelease(slot, extraRef \ {b})
    /\ UNCHANGED <<scenario, userAt, put, resets, sinceReset, packets, flushFlag, frames, resetFlag, group,
                   packetSlots, aborted, parserVars, halVars, groupVars, slotVars>>

(* An info change frame: the user commits a group of new buffers           *)
(* (MPP_DEC_SET_EXT_BUF_GROUP), then he says MPP_DEC_SET_INFO_CHANGE_READY.*)
(* Each call signals the parser.                                           *)
UserCommits ==
    /\ userAt = "commit"
    /\ userAt' = "ready"
    /\ group' = group + 1
    /\ parserAt' = ParserWoken
    /\ UNCHANGED <<scenario, put, resets, sinceReset, held, packets, flushFlag, outVars, resetFlag,
                   packetSlots, aborted, parserVars, halVars, groupVars, slotVars>>

UserReadies ==
    /\ userAt = "ready"
    /\ userAt' = "app"
    /\ SlotsReady
    /\ parserAt' = ParserWoken
    /\ UNCHANGED <<scenario, put, resets, sinceReset, held, packets, flushFlag, outVars, resetFlag, group,
                   packetSlots, aborted, parserVars, halVars, groupVars>>

(* Mpp::reset, in three steps up to its wait: mPackets is flushed, mFrames *)
(* is flushed, reset_flag is raised and the parser signalled.              *)
UserFlushesPackets ==
    /\ userAt = "app"
    /\ resets < ResetBound
    /\ userAt' = "flush"
    /\ resets' = resets + 1
    /\ packets' = <<>>
    /\ flushFlag' = TRUE
    /\ UNCHANGED <<scenario, put, sinceReset, held, outVars, resetFlag, group, packetSlots, aborted,
                   parserAt, parserVars, halVars, groupVars, slotVars>>

FrameBuffers == {frames[i].buffer : i \in 1 .. Len(frames)} \ {NoBuffer}

UserFlushesFrames ==
    /\ userAt = "flush"
    /\ userAt' = "flag"
    /\ frames' = <<>>
    /\ extraRef' = extraRef \ FrameBuffers
    /\ parserAt' = ParserAfterRelease(slot, extraRef \ FrameBuffers)
    /\ UNCHANGED <<scenario, put, resets, sinceReset, held, packets, flushFlag, resetFlag, group,
                   packetSlots, aborted, parserVars, halVars, groupVars, slotVars>>

(* A wrong reset: the parser is not told.                                  *)
UserRaisesSilently ==
    /\ userAt = "flag"
    /\ userAt' = "wait"
    /\ resetFlag' = TRUE
    /\ UNCHANGED <<scenario, put, resets, sinceReset, held, packets, flushFlag, outVars, group,
                   packetSlots, aborted, parserAt, parserVars, halVars, groupVars, slotVars>>

UserRaisesFlag ==
    /\ userAt = "flag"
    /\ userAt' = "wait"
    /\ resetFlag' = TRUE
    /\ parserAt' = ParserWoken
    /\ UNCHANGED <<scenario, put, resets, sinceReset, held, packets, flushFlag, outVars, group,
                   packetSlots, aborted, parserVars, halVars, groupVars, slotVars>>

-----------------------------------------------------------------------------
(* The parser thread.  At the top of its loop it looks at reset_flag; then *)
(* check_task_wait, with the mutex: it sleeps if a wait bit is set, and    *)
(* only prev_task is looked at again.                                      *)
MustWait ==
    \/ waits \intersect {"task_hnd", "info_change", "dec_pic_buf"} # {}
    \/ "prev_task" \in waits /\ NoneIn("PROC_DONE")

ParserTop ==
    /\ parserAt = "top"
    /\ parserAt' = IF resetFlag THEN "resetPrev" ELSE "check"
    /\ UNCHANGED <<userVars, packets, flushFlag, outVars, resetFlag, group, packetSlots,
                   aborted, parserVars, halVars, groupVars, slotVars>>

ParserChecks ==
    /\ parserAt = "check"
    /\ parserAt' = IF ~resetFlag /\ MustWait THEN "asleep" ELSE "try"
    /\ UNCHANGED <<userVars, packets, flushFlag, outVars, resetFlag, group, packetSlots,
                   aborted, parserVars, halVars, groupVars, slotVars>>

(* A step that changes nothing but the parser's own variables.             *)
ParserLocal ==
    UNCHANGED <<userVars, packets, flushFlag, outVars, resetFlag, group, packetSlots,
                aborted, halVars, groupVars, slotVars>>

(* 1. A task handle; a packet is needed unless one is in hand.             *)
ParserTries ==
    /\ parserAt = "try"
    /\ hnd' = IF hnd = NoTask THEN HndIn("IDLE") ELSE hnd
    /\ IF hnd' = NoTask
       THEN waits' = waits \union {"task_hnd"} /\ parserAt' = "top"
       ELSE /\ waits' = waits \ {"task_hnd"}
            /\ parserAt' = IF "curr" \in ready THEN "prev" ELSE "pull"
    /\ UNCHANGED <<cur, ready, ref0, foundI>>
    /\ ParserLocal

(* The task goes to the HAL thread with information i.                     *)
Send(i) ==
    /\ taskInfo' = [taskInfo EXCEPT ![hnd] = i]
    /\ SetStatus(hnd, "PROCESSING")
    /\ hnd' = NoTask
    /\ halAt' = HalWoken
    /\ UNCHANGED <<halTask, halInfo>>

(* 2.-6. A packet is pulled and prepared: the end of the stream goes to    *)
(* the HAL thread as a task of its own, a picture is copied into a packet  *)
(* slot.  pull answers MPP_NOK only when the queue was flushed.            *)
PullNothing ==
    /\ parserAt = "pull"
    /\ packets = <<>> /\ flushFlag
    /\ parserAt' = "top"
    /\ UNCHANGED parserVars
    /\ ParserLocal

PullEos ==
    /\ parserAt = "pull"
    /\ packets # <<>>
    /\ Stream[Head(packets)].kind = "eos"
    /\ packets' = Tail(packets)
    /\ cur' = [cur EXCEPT !.id = Head(packets), !.valid = FALSE, !.eos = TRUE]
    /\ Send(cur')
    /\ parserAt' = "top"
    /\ UNCHANGED <<userVars, flushFlag, outVars, resetFlag, group, packetSlots, aborted,
                   ready, waits, ref0, foundI, slotVars>>

FreePacketSlotsFromZero == (0 .. TaskCount - 1) \ packetSlots \* a wrong index base
FreePacketSlots == HalTasks \ packetSlots

PullPicture ==
    /\ parserAt = "pull"
    /\ packets # <<>>
    /\ Stream[Head(packets)].kind # "eos"
    /\ packets' = Tail(packets)
    /\ IF FreePacketSlots = {}
       THEN Abort /\ UNCHANGED <<cur, packetSlots>>
       ELSE \E input \in FreePacketSlots :
               /\ \A i \in FreePacketSlots : input <= i
               /\ cur' = [cur EXCEPT !.id = Head(packets), !.valid = TRUE, !.input = input,
                                     !.eos = Stream[Head(packets)].last]
               /\ packetSlots' = packetSlots \union {input}
               /\ UNCHANGED aborted
    /\ ready' = ready \union {"curr", "copied"}
    /\ parserAt' = "prev"
    /\ UNCHANGED <<userVars, flushFlag, outVars, resetFlag, group, hnd, waits, ref0, foundI,
                   halVars, groupVars, slotVars>>

(* 7.1 The task before this one must be done; it becomes idle here.        *)
ParserWaitsPrevious ==
    /\ parserAt = "prev"
    /\ LET done == HndIn("PROC_DONE") IN
       IF "prev" \in ready
       THEN UNCHANGED <<ready, waits, groupVars>> /\ parserAt' = "group"
       ELSE IF done = NoTask
       THEN /\ waits' = waits \union {"prev_task"}
            /\ parserAt' = "top"
            /\ UNCHANGED <<ready, groupVars>>
       ELSE /\ SetStatus(done, "IDLE")
            /\ ready' = ready \union {"prev"}
            /\ waits' = waits \ {"prev_task"}
            /\ parserAt' = "group"
            /\ UNCHANGED taskInfo
    /\ UNCHANGED <<userVars, packets, flushFlag, outVars, resetFlag, group, packetSlots,
                   aborted, hnd, cur, ref0, foundI, halVars, slotVars>>

(* 7.2 With a buffer group, one of its buffers must be unused.             *)
ParserChecksGroup ==
    /\ parserAt = "group"
    /\ IF group # 0 /\ FreeBuffers = {}
       THEN waits' = waits \union {"dec_pic_buf"} /\ parserAt' = "top"
       ELSE /\ waits' = IF group # 0 THEN waits \ {"dec_pic_buf"} ELSE waits
            /\ parserAt' = IF "parsed" \in ready THEN "change" ELSE "parse"
    /\ UNCHANGED <<hnd, cur, ready, ref0, foundI>>
    /\ ParserLocal

(* 8. The H.263 parser: a picture it can use gets a slot, which is the     *)
(* hardware's output, is queued for display and replaces the reference; a  *)
(* P picture reads the old one.  A P picture before the first I picture is *)
(* an error, and leaves the task without output.                           *)
Usable == Stream[cur.id].kind = "I" \/ foundI
Refer  == IF Stream[cur.id].kind = "P" THEN ref0 ELSE NoSlot

ParsedSlots(out) ==
    [i \in Slots |->
        LET used == IF i = out
                    THEN SetFlag(SetFlag(SetFlag(SetFlag([Taken(slot[i]) EXCEPT !.frame = cur.id],
                         "HAL_OUTPUT"), "CODEC_USE"), "QUEUE_USE"), "QUEUE_USE")
                    ELSE IF i = Refer THEN SetFlag(slot[i], "HAL_INPUT") ELSE slot[i]
        IN IF i = ref0 THEN ClrFlag(used, "CODEC_USE") ELSE used]

ParserParses ==
    /\ parserAt = "parse"
    /\ ready' = ready \union {"parsed"}
    /\ parserAt' = "change"
    /\ IF ~Usable
       THEN /\ cur' = [cur EXCEPT !.valid = FALSE, !.output = NoSlot]
            /\ UNCHANGED <<slotVars, ref0, foundI, aborted>>
       ELSE IF FreeSlots = {}
       THEN Abort /\ UNCHANGED <<slotVars, cur, ref0, foundI>>
       ELSE /\ slot' = ParsedSlots(FirstFree)
            /\ display' = Enqueued(display, FirstFree)
            /\ DetectChange(Stream[cur.id].fmt)
            /\ cur' = [cur EXCEPT !.output = FirstFree, !.refer = Refer]
            /\ ref0' = FirstFree
            /\ foundI' = TRUE
            /\ UNCHANGED <<info, aborted>>
    /\ UNCHANGED <<userVars, packets, flushFlag, outVars, resetFlag, group, packetSlots,
                   hnd, waits, halVars, groupVars>>

(* 9. An info change is announced by a task of its own, once; then the     *)
(* parser waits until the user has made the slots ready.                   *)
ParserAnnouncesChange ==
    /\ parserAt = "change"
    /\ infoChanged /\ "infoGen" \notin ready
    /\ cur' = [cur EXCEPT !.infoChange = TRUE]
    /\ Send(cur')
    /\ ready' = ready \union {"infoGen"}
    /\ parserAt' = "top"
    /\ UNCHANGED <<userVars, packets, flushFlag, outVars, resetFlag, group, packetSlots,
                   aborted, waits, ref0, foundI, slotVars>>

ParserWaitsChange ==
    /\ parserAt = "change"
    /\ infoChanged /\ "infoGen" \in ready
    /\ waits' = waits \union {"info_change"}
    /\ parserAt' = "top"
    /\ UNCHANGED <<hnd, cur, ready, ref0, foundI>>
    /\ ParserLocal

ParserNeedsNoChange ==
    /\ parserAt = "change"
    /\ ~infoChanged
    /\ cur.output # NoSlot
    /\ waits' = waits \ {"info_change"}
    /\ ready' = ready \ {"infoGen"}
    /\ cur' = [cur EXCEPT !.infoChange = FALSE]
    /\ parserAt' = "submit"
    /\ UNCHANGED <<hnd, ref0, foundI>>
    /\ ParserLocal

(* A task without output is dropped, or says that the stream has ended.    *)
ParserDrops ==
    /\ parserAt = "change"
    /\ ~infoChanged
    /\ cur.output = NoSlot
    /\ IF cur.eos
       THEN Send([cur EXCEPT !.infoChange = FALSE])
       ELSE /\ SetStatus(hnd, "IDLE")
            /\ hnd' = NoTask
            /\ UNCHANGED <<taskInfo, halVars>>
    /\ packetSlots' = packetSlots \ {cur.input}
    /\ cur' = NoInfo
    /\ ready' = ready \ {"infoGen", "copied", "curr", "parsed"}
    /\ waits' = waits \ {"info_change"}
    /\ parserAt' = "top"
    /\ UNCHANGED <<userVars, packets, flushFlag, outVars, resetFlag, group, aborted,
                   ref0, foundI, slotVars>>

(* 10.-12. The output slot gets a buffer, the hardware is started and the  *)
(* task goes to the HAL thread.  Which unused buffer it is does not matter.*)
ParserSubmits ==
    /\ parserAt = "submit"
    /\ parserAt' = "top"
    /\ IF FreeBuffers = {}
       THEN /\ waits' = waits \union {"dec_pic_buf"}
            /\ UNCHANGED <<hnd, cur, ready, slot, extraRef, halVars, groupVars>>
       ELSE /\ LET b == CHOOSE b \in FreeBuffers : TRUE IN
                  /\ slot' = [slot EXCEPT ![cur.output].buffer = b]
                  /\ extraRef' = extraRef \union {b}
            /\ Send(cur)
            /\ waits' = waits \ {"dec_pic_buf"}
            /\ ready' = ready \ {"copied", "curr", "parsed", "prev"}
            /\ cur' = NoInfo
    /\ UNCHANGED <<userVars, packets, flushFlag, frames, resetFlag, group, packetSlots, aborted,
                   ref0, foundI, display, info, infoSet, infoChanged>>

-----------------------------------------------------------------------------
(* reset_dec_task.  The task in the hardware is waited for (polled every   *)
(* 5 ms), unless there is none.                                            *)
ResetTakesPrevious ==
    /\ parserAt = "resetPrev"
    /\ parserAt' = "resetClear"
    /\ IF "prev" \in ready
       THEN UNCHANGED groupVars
       ELSE /\ ~NoneIn("PROC_DONE")
            /\ SetStatus(HndIn("PROC_DONE"), "IDLE")
            /\ UNCHANGED taskInfo
    /\ ready' = ready \union {"prev"}
    /\ waits' = waits \ {"prev_task"}
    /\ UNCHANGED <<userVars, packets, flushFlag, outVars, resetFlag, group, packetSlots,
                   aborted, hnd, cur, ref0, foundI, halVars, slotVars>>

(* With the mutex THREAD_RESET, which the user gives up by waiting: the    *)
(* codec lets its reference go, reset_flag is cleared, a slot that waits   *)
(* for an info change is reset, a picture that was parsed and not sent     *)
(* gives up its output and its reference.                                  *)
ResetSlots ==
    [i \in Slots |->
        LET noRef == IF i = ref0 THEN ClrFlag(slot[i], "CODEC_USE") ELSE slot[i]
            noInfo == IF "info_change" \in waits /\ i = cur.output THEN ResetEntry(noRef) ELSE noRef
            noOut == IF "parsed" \in ready /\ i = cur.output THEN ClrFlag(noInfo, "HAL_OUTPUT")
                     ELSE noInfo
        IN IF "parsed" \in ready /\ i = cur.refer THEN ClrFlag(noOut, "HAL_INPUT") ELSE noOut]

ResetClears ==
    /\ parserAt = "resetClear"
    /\ userAt = "wait"
    /\ resetFlag' = FALSE
    /\ foundI' = FALSE
    /\ ref0' = NoSlot
    /\ IF cur.output = NoSlot /\ ("parsed" \in ready \/ "info_change" \in waits)
       THEN Abort /\ UNCHANGED <<slot, display>>
       ELSE /\ slot' = ResetSlots
            /\ display' = IF "info_change" \in waits THEN Unqueued(display, cur.output) ELSE display
            /\ UNCHANGED aborted
    /\ parserAt' = "resetDrain"
    /\ UNCHANGED <<userVars, packets, flushFlag, outVars, group, packetSlots, hnd, cur, ready,
                   waits, halVars, groupVars, info, infoSet, infoChanged>>

(* mpp_buf_slot_dequeue of the head of the display queue and the end of    *)
(* its use there.                                                          *)
Undisplayed == LET e == slot[Head(display)]
               IN ClrFlag([e EXCEPT !.queueUse = Less(@)], "QUEUE_USE")

TakeDisplayed ==
    /\ DisplayReady
    /\ slot' = [slot EXCEPT ![Head(display)] = Undisplayed]
    /\ display' = Tail(display)
    /\ UNCHANGED <<info, infoSet, infoChanged>>

ResetDrains ==
    /\ parserAt = "resetDrain"
    /\ TakeDisplayed
    /\ extraRef' = extraRef \ {slot[Head(display)].buffer}
    /\ UNCHANGED <<userVars, packets, flushFlag, frames, resetFlag, group, packetSlots, aborted,
                   parserAt, parserVars, halVars, groupVars>>

(* A wrong end: the packet slot of the picture in hand is forgotten.       *)
ResetForgetsPacket ==
    /\ parserAt = "resetDrain"
    /\ ~DisplayReady
    /\ parserAt' = "check"
    /\ hnd' = NoTask /\ cur' = NoInfo /\ ready' = {"prev"} /\ waits' = {}
    /\ userAt' = "app"
    /\ sinceReset' = put + 1
    /\ UNCHANGED <<scenario, put, resets, held, packets, flushFlag, outVars, resetFlag, group,
                   packetSlots, aborted, ref0, foundI, halVars, groupVars, slotVars>>

(* The display queue has no finished picture left: the packet slot is      *)
(* given back, the DecTask starts afresh and the user is signalled.        *)
ResetEnds ==
    /\ parserAt = "resetDrain"
    /\ ~DisplayReady
    /\ parserAt' = "check"
    /\ packetSlots' = IF "copied" \in ready THEN packetSlots \ {cur.input} ELSE packetSlots
    /\ hnd' = NoTask /\ cur' = NoInfo /\ ready' = {"prev"} /\ waits' = {}
    /\ userAt' = "app"
    /\ sinceReset' = put + 1
    /\ UNCHANGED <<scenario, put, resets, held, packets, flushFlag, outVars, resetFlag, group,
                   aborted, ref0, foundI, halVars, groupVars, slotVars>>

-----------------------------------------------------------------------------
(* The HAL thread.  It looks at the first task in processing, or sleeps.   *)
HalGets ==
    /\ halAt = "get"
    /\ halTask' = HndIn("PROCESSING")
    /\ IF halTask' = NoTask
       THEN halAt' = "asleep" /\ UNCHANGED halInfo
       ELSE /\ halInfo' = taskInfo[halTask']
            /\ halAt' = IF halInfo'.infoChange THEN "infoDisplay"
                        ELSE IF halInfo'.eos /\ ~halInfo'.valid THEN "eosDisplay" ELSE "hw"
    /\ UNCHANGED <<userVars, packets, flushFlag, outVars, resetFlag, group, packetSlots,
                   aborted, parserAt, parserVars, groupVars, slotVars>>

(* mpp_dec_push_display: the pictures that are ready go to mFrames in      *)
(* display order; during a reset they are dropped instead.                 *)
HalDisplays ==
    /\ halAt \in {"infoDisplay", "eosDisplay", "display"}
    /\ TakeDisplayed
    /\ LET e == slot[Head(display)] IN
       IF resetFlag
       THEN extraRef' = extraRef \ {e.buffer} /\ UNCHANGED frames
       ELSE /\ frames' = Append(frames, [kind |-> "picture", id |-> e.frame, buffer |-> e.buffer])
            /\ UNCHANGED extraRef
    /\ parserAt' = ParserAfterRelease(slot', extraRef')
    /\ UNCHANGED <<userVars, packets, flushFlag, resetFlag, group, packetSlots, aborted,
                   parserVars, halVars, groupVars>>

HalDisplayEnds ==
    /\ \/ halAt = "infoDisplay" /\ halAt' = "infoPut"
       \/ halAt = "eosDisplay" /\ halAt' = "eosPut"
       \/ halAt = "display" /\ halAt' = IF halInfo.eos THEN "lastPut" ELSE "get"
    /\ ~DisplayReady
    /\ UNCHANGED <<userVars, packets, flushFlag, outVars, resetFlag, group, packetSlots,
                   aborted, parserAt, parserVars, halTask, halInfo, groupVars, slotVars>>

(* The info change frame is a copy of the frame of the task's output slot. *)
(* A task without output slot fails the slot_assert of the copy; when a    *)
(* reset has freed the slot the copy is NULL, and is written to.           *)
InfoFrame == [kind |-> "info", id |-> slot[halInfo.output].frame,
              buffer |-> slot[halInfo.output].buffer]

(* The frames without a picture: the info change, and the stream's end.    *)
HalPuts ==
    /\ \/ /\ halAt = "infoPut"
          /\ halAt' = "infoIdle"
          /\ IF halInfo.output = NoSlot \/ InfoFrame.id = NoFrame
             THEN Abort /\ UNCHANGED frames
             ELSE frames' = Append(frames, InfoFrame) /\ UNCHANGED aborted
       \/ /\ halAt = "eosPut" /\ halAt' = "eosIdle"
          /\ frames' = Append(frames, [kind |-> "eos", id |-> halInfo.id, buffer |-> NoBuffer])
          /\ UNCHANGED aborted
       \/ /\ halAt = "lastPut" /\ halAt' = "get"
          /\ frames' = Append(frames, [kind |-> "eos", id |-> halInfo.id, buffer |-> NoBuffer])
          /\ UNCHANGED aborted
    /\ UNCHANGED <<userVars, packets, flushFlag, extraRef, resetFlag, group, packetSlots,
                   parserAt, parserVars, halTask, halInfo, groupVars, slotVars>>

(* Such a task is idle again at once, and the parser is signalled.         *)
HalIdles ==
    /\ halAt \in {"infoIdle", "eosIdle"}
    /\ halAt' = "get"
    /\ SetStatus(halTask, "IDLE")
    /\ halTask' = NoTask
    /\ parserAt' = ParserWoken
    /\ UNCHANGED <<userVars, packets, flushFlag, outVars, resetFlag, group, packetSlots,
                   aborted, parserVars, halInfo, taskInfo, slotVars>>

(* The hardware has finished, or has timed out: the packet slot is free.   *)
HalHardwareEnds ==
    /\ halAt = "hw"
    /\ halAt' = "done"
    /\ packetSlots' = packetSlots \ {halInfo.input}
    /\ UNCHANGED <<userVars, packets, flushFlag, outVars, resetFlag, group, aborted, parserAt,
                   parserVars, halTask, halInfo, groupVars, slotVars>>

(* A wrong end: the parser is not told that the task is done.              *)
HalMarksDoneSilently ==
    /\ halAt = "done"
    /\ halAt' = "slots"
    /\ SetStatus(halTask, "PROC_DONE")
    /\ halTask' = NoTask
    /\ UNCHANGED <<userVars, packets, flushFlag, outVars, resetFlag, group, packetSlots,
                   aborted, parserAt, parserVars, halInfo, taskInfo, slotVars>>

(* With the parser's mutex: the task is done and the parser is signalled.  *)
HalMarksDone ==
    /\ halAt = "done"
    /\ halAt' = "slots"
    /\ SetStatus(halTask, "PROC_DONE")
    /\ halTask' = NoTask
    /\ parserAt' = ParserWoken
    /\ UNCHANGED <<userVars, packets, flushFlag, outVars, resetFlag, group, packetSlots,
                   aborted, parserVars, halInfo, taskInfo, slotVars>>

(* Then the output is ready and its reference is no longer read.           *)
HalClearsSlots ==
    /\ halAt = "slots"
    /\ halAt' = "display"
    /\ slot' = [i \in Slots |->
                  CASE i = halInfo.output -> ClrFlag(slot[i], "HAL_OUTPUT")
                    [] i = halInfo.refer  -> ClrFlag(slot[i], "HAL_INPUT")
                    [] OTHER              -> slot[i]]
    /\ parserAt' = ParserAfterRelease(slot', extraRef)
    /\ UNCHANGED <<userVars, packets, flushFlag, outVars, resetFlag, group, packetSlots,
                   aborted, parserVars, halTask, halInfo, groupVars,
                   display, info, infoSet, infoChanged>>

-----------------------------------------------------------------------------
User ==
    \/ UserPuts \/ UserGets \/ UserReleases \/ UserCommits \/ UserReadies
    \/ UserFlushesPackets \/ UserFlushesFrames \/ UserRaisesFlag

Parser ==
    \/ ParserTop \/ ParserChecks \/ ParserTries \/ PullNothing \/ PullEos \/ PullPicture
    \/ ParserWaitsPrevious \/ ParserChecksGroup \/ ParserParses
    \/ ParserAnnouncesChange \/ ParserWaitsChange \/ ParserNeedsNoChange \/ ParserDrops
    \/ ParserSubmits \/ ResetTakesPrevious \/ ResetClears \/ ResetDrains \/ ResetEnds

Hal ==
    \/ HalGets \/ HalDisplays \/ HalDisplayEnds \/ HalPuts \/ HalIdles
    \/ HalHardwareEnds \/ HalMarksDone \/ HalClearsSlots

Next == ~aborted /\ (User \/ Parser \/ Hal)

Spec == Init /\ [][Next]_vars

(* Both threads loop.  The user finishes the calls it has begun, takes the *)
(* frames it is given and gives them back, but need not put or reset.      *)
FairSpec ==
    /\ Spec
    /\ WF_vars(~aborted /\ Parser)
    /\ WF_vars(~aborted /\ Hal)
    /\ WF_vars(~aborted /\ (UserCommits \/ UserReadies))
    /\ WF_vars(~aborted /\ (UserFlushesFrames \/ UserRaisesFlag))
    /\ SF_vars(~aborted /\ UserGets)
    /\ SF_vars(~aborted /\ UserReleases)

-----------------------------------------------------------------------------
Buffers == UNION {Committed(g) : g \in 1 .. group}
Infos   == [id : Packets \union {0}, valid : BOOLEAN, eos : BOOLEAN, infoChange : BOOLEAN,
            output : Slots \union {NoSlot}, refer : Slots \union {NoSlot}, input : 0 .. TaskCount]

TypeOK ==
    /\ GroupTypeOK(Infos)
    /\ SlotsTypeOK(Packets, Buffers, Formats)
    /\ scenario \in Scenarios /\ userAt \in UserSteps
    /\ put \in 0 .. Len(Stream) /\ resets \in 0 .. ResetBound
    /\ sinceReset \in 1 .. Len(Stream) + 1
    /\ held \subseteq Buffers /\ extraRef \subseteq Buffers
    /\ packets \in Seq(Packets)
    /\ frames \in Seq([kind : {"picture", "info", "eos"}, id : Packets \union {NoFrame},
                       buffer : Buffers \union {NoBuffer}])
    /\ flushFlag \in BOOLEAN /\ resetFlag \in BOOLEAN /\ aborted \in BOOLEAN
    /\ packetSlots \subseteq HalTasks
    /\ parserAt \in ParserSteps /\ halAt \in HalSteps
    /\ hnd \in HalTasks \union {NoTask} /\ halTask \in HalTasks \union {NoTask}
    /\ cur \in Infos /\ halInfo \in Infos
    /\ ready \subseteq Status /\ waits \subseteq Waits
    /\ ref0 \in Slots \union {NoSlot} /\ foundI \in BOOLEAN

-----------------------------------------------------------------------------
(* What the decoder promises.                                              *)

OutBuffers == FrameBuffers \union held

(* Every frame on its way to the user, or held by him, has a reference of  *)
(* its own to its buffer; and the hardware writes to none of them, nor to  *)
(* the buffer of another slot.  (SLOT_HAL_OUTPUT and not_ready of          *)
(* mpp_buf_slot.cpp, the reference of mpp_buffer_get in step 11.  A task   *)
(* of an info change that outlives a reset takes the frame of any slot:    *)
(* SlotsAccounted.)                                                        *)
HardwareTargetPrivate ==
    resets = 0 =>
        /\ OutBuffers \subseteq extraRef
        /\ \A i \in Slots :
              slot[i].halOutput /\ slot[i].buffer # NoBuffer =>
                  /\ slot[i].buffer \notin OutBuffers
                  /\ \A j \in Slots \ {i} : slot[j].buffer # slot[i].buffer

(* The reference of a picture in the hardware is still there: an earlier   *)
(* picture, in a buffer of its own, that the hardware has finished.        *)
(* (SLOT_HAL_INPUT of h263d_parser.c, and the wait of 7.1.)                *)
InHardware(t) ==
    /\ taskStatus[t] = "PROCESSING"
    /\ taskInfo[t].valid /\ ~taskInfo[t].infoChange

ReferenceKept ==
    \A t \in HalTasks :
        InHardware(t) /\ taskInfo[t].refer # NoSlot =>
            LET r == slot[taskInfo[t].refer]
            IN /\ r.onUsed /\ r.halUse > 0
               /\ r.buffer # NoBuffer
               /\ r.frame < taskInfo[t].id
               /\ \A u \in HalTasks :
                     InHardware(u) => taskInfo[u].output # taskInfo[t].refer

(* What the hardware writes and reads is its own for as long as it does.   *)
HardwareSlotsKept == HardwareTargetPrivate /\ ReferenceKept

(* What the user will get, in the order he will get it: the frames that    *)
(* are queued, then the pictures of the display queue.                     *)
Delivery ==
    [i \in 1 .. Len(frames) |-> frames[i].id] \o
    [i \in 1 .. Len(display) |-> slot[display[i]].frame]

(* Pictures, info changes and ends of stream come in the order of their    *)
(* packets, across the task lists, the slots and the display queue.  (What *)
(* a reset leaves behind may come late: ResetDiscards.)                    *)
DeliveredInOrder ==
    resets = 0 =>
        \A i, j \in 1 .. Len(Delivery) : i < j => Delivery[i] <= Delivery[j]

(* A picture goes to the hardware only in buffers that the user committed  *)
(* for its format: the info change came first.  (Step 9.)                  *)
PictureFitsBuffers ==
    \A t \in HalTasks :
        InHardware(t) => Stream[taskInfo[t].id].fmt = info

(* Every packet slot in use has a task that will give it back: the one the *)
(* parser fills, or one on its way through the hardware.                   *)
PacketSlotsOwned ==
    \A i \in packetSlots :
        \/ "copied" \in ready /\ cur.input = i
        \/ \E t \in HalTasks : InHardware(t) /\ taskInfo[t].input = i

(* The frame slots and the packet slots suffice: mpp_buf_slot_get_unused   *)
(* always finds one, however late the hardware and the user give back what *)
(* they use, or it would abort the process.  No assert of the HAL thread   *)
(* fails either, unless there was a reset: an info change task that is on  *)
(* its way then looks up a slot that the reset gave away.  Such a task may *)
(* keep a slot in the display queue, too, so that a slot for each task is  *)
(* needed beside the two of the picture in hand and its reference.         *)
SlotsSuffice ==
    aborted => /\ resets > 0
               /\ SlotCount >= TaskCount + 2 => FreeSlots # {}

(* No slot is lost, and none is missing.                                   *)
SlotsAccounted == PacketSlotsOwned /\ SlotsSuffice

(* The parser sleeps for a reason that is gone.                            *)
Stranded ==
    /\ parserAt = "asleep"
    /\ "prev_task" \notin waits
    /\ "task_hnd" \in waits => ~NoneIn("IDLE")
    /\ "info_change" \in waits => ~infoChanged
    /\ "dec_pic_buf" \in waits => FreeBuffers # {}

(* mpp_dec.cpp says for which reasons the parser thread needs to wait: no  *)
(* task, no packet, an info change on progress, no buffer.  It does not    *)
(* sleep for ever when none of them is left.                               *)
NeverStranded == ~<>[]Stranded

(* Short of that, no packet is left in mPackets, whatever the order of the *)
(* threads and however long the user keeps his frames.                     *)
PacketsArePulled == (packets # <<>> ~> packets = <<>> \/ aborted) \/ <>[]Stranded

(* A picture the hardware was given is delivered, even then.               *)
PictureIsDelivered ==
    \A i \in Slots : slot[i].halOutput /\ slot[i].buffer # NoBuffer ~> i \notin ToSet(display)

(* Mpp::reset returns: the parser gets to the reset from wherever it is,   *)
(* through every sleep and whatever the hardware does.                     *)
ResetReturns == userAt = "wait" ~> (userAt = "app" \/ aborted)

(* rk_mpi.h says that reset discards all packets and frames: after it, the *)
(* user gets nothing of what he put before.                                *)
ResetDiscards ==
    userAt = "app" => \A i \in 1 .. Len(frames) : frames[i].id >= sinceReset

=============================================================================
