# A TLA+ model of the Rockchip media process platform (MPP)

MPP is a C and C++ library that drives the video hardware of Rockchip chips.  An application
opens a context for one codec, puts packets and gets frames (decoder) or puts frames and gets
packets (encoder).  Inside a context a few threads pass tasks, slots and buffers to each other.
This directory models those threads and what they share, checks it with TLC, and proves part of
it with TLAPS.  Paths below are relative to `src/`.

## The system

| component | state it keeps | operations | who calls it |
|---|---|---|---|
| task queue, `mpp/base/mpp_task_impl.cpp` | four lists of tasks with counters, a status per task, two conditions | setup, poll, dequeue, enqueue, awake, deinit | application and codec thread, one port each |
| packet queue, `osal/mpp_queue.cpp` | a list, a semaphore, a flush flag | push, pull, flush | application (`put_packet`, `reset`) and parser thread |
| HAL task group, `mpp/hal/hal_task.cpp` | a list of tasks per status, information per task | get_hnd, check_empty, set_status, set_info, get_info | parser thread and HAL thread |
| frame slots, `mpp/base/mpp_buf_slot.cpp` | per slot flags, counters, frame, buffer; a display queue; the format in force and the format announced | get_unused, set and clear flag, set and get property, enqueue, dequeue, ready, reset | parser, HAL thread, application on an info change |
| decoder threads, `mpp/codec/mpp_dec.cpp`, `mpp/mpp.cpp` | per thread its task, status bits and wait bits; `reset_flag`; `mFrames` | the two thread loops, `put_packet`, `get_frame`, `reset`, `control` | two threads, and the application |
| H.263 parser, `mpp/codec/dec/h263` | the reference slot, whether an I picture was met | prepare, parse, reset | parser thread |
| MPEG-2, MPEG-4, AVS parsers, `mpp/codec/dec/m2v`, `mpg4`, `avs` | the current picture and two anchors, each with its slot and whether it is to be displayed | prepare, parse, flush, reset | parser thread; flush also by the HAL thread |
| VP8, VP9 parsers, `mpp/codec/dec/vp8`, `vp9` | the reference frames, counted | as above | as above |
| H.264 parser, `mpp/codec/dec/h264` | the decoded picture buffer: frame stores, marks shared with the slots, the field that waits for its pair, the last output count | as above | as above |
| H.265 parser, `mpp/codec/dec/h265` | the decoded picture buffer by order count and sequence, the set of the current picture | as above | as above |
| stream splitting, in `prepare` of each parser but VP8 | the bytes of a picture gathered so far, the last bytes read, whether a picture has begun, whether the end was seen | prepare, reset | parser thread |
| buffer groups, `mpp/base/mpp_buffer_impl.cpp`, `mpp_buffer.cpp` | per group a used and an unused list, counters, limits; per buffer references and a discard flag; misc groups, orphans | group get, put, clear, limit; buffer get, import, commit, inc_ref, put | every thread |
| encoder control thread, `mpp/codec/mpp_enc.cpp`, `mpp/mpp.cpp` | two task queues of one task each, the frame and the packet in hand, the thread's status | the thread loop, `put_frame`, `get_packet`, `clear` | one thread, and the application |

How they interact.  The parser thread pulls a packet, takes an idle task and a packet slot,
lets the parser choose frame slots, and hands the task to the HAL thread.  The HAL thread waits
for the hardware, marks the task done, clears the flags of its slots and moves finished pictures
from the display queue to `mFrames`, where the application gets them.  Buffers come from a group
the application commits, or from one of the library's; the last reference to a buffer signals
the parser thread.  In an encoder a task carries a frame to the control thread and back; another
one carries the packet out.

What is hard in it, and so what the properties are about:

* conditions waited on once, without a loop around the wait, and signals sent without the mutex;
* a parser that sleeps on wait bits computed before it took the mutex;
* a semaphore, a flag and a list that change one after the other;
* the same slot in use by parser, hardware, display queue and application at once;
* a reset or a clear that starts while every other thread is anywhere in its loop;
* info changes (a new format) while pictures of the old format are still on their way;
* parsers that run ahead of the hardware, keep slots as references for pictures to come, and give
  pictures out in another order than they were decoded in, across errors, resets and flushes;
* streams cut into packets anywhere, so that a start code lies across packets, and a picture is known
  to be over only when bytes of the next have been read; and the end of the stream, with bytes or
  without;
* counters and lists that must agree after any sequence of calls, in particular where a group
  outlives its handle.

`PROJECT.json` lists every component (also those not modelled), and every hazard with its line.

## The modules

| module | models | composed of |
|---|---|---|
| `MppTaskQueue` | one `MppTaskQueue`: state and operations | |
| `MppTaskRing` | what it promises: a first-in-first-out channel there and one back | |
| `MppTaskPorts` | client threads that poll, dequeue and enqueue on the two ports | `MppTaskQueue`, `MppTaskRing` (as refinement) |
| `MppQueue` | one `MppQueue`, each assignment of push and flush apart | |
| `MppPackets` | `put_packet`, `reset` and the parser's `pull` on it | `MppQueue` |
| `HalTaskGroup` | the task group | |
| `BufSlots` | the frame slots; an operation on one slot is an operator on its record | |
| `MppDec` | parser thread, HAL thread, H.263 parser, application | `HalTaskGroup`, `BufSlots` |
| `ParserWork` | what a call of a parser does to the slots, as operators on a record | `BufSlots` |
| `M2vParser`, `Mpg4Parser`, `AvsParser`, `Vp8Parser`, `Vp9Parser`, `H264Parser`, `H265Parser` | one parser each: its context and its calls parse, prepare (at the end), flush, reset | `ParserWork` |
| `MppCodecs` | the chosen parser between parser thread and HAL thread, any stream, fast mode | the seven parsers |
| `StartCodeSplit`, `NaluSplit`, `PacketSplit` | how the parsers of MPEG-4, MPEG-2 and H.263, of H.264 and H.265, of AVS and VP9 find pictures in packets | |
| `MppSplit` | the application that cuts a stream into packets, and the parser thread from packet to picture | the three above |
| `MppEnc` | control thread, `put_frame`, `get_packet`, `clear` | `MppTaskQueue`, twice |
| `BufferGroups` | buffers and groups under any number of callers | |
| `MCTaskPorts`, `MCPackets`, `MCDec`, `MCCodecs`, `MCSplit`, `MCBufferGroups` | values of the constants | |
| `MppTaskPorts_proofs`, `MppPackets_proofs`, `BufferGroups_proofs`, `MppEnc_proofs` | theorems and proofs | |
| `MppDec_proofs`, `MppDecSlots_proofs`, `MppDecFrames_proofs` | theorems about the decoder's tasks and packet slots, on top of them about its frame slots, and on top of both about the frames it gives to the user and the slots a reset leaves | each extends the one before |
| `MppSplit_proofs` | theorems about the pictures found in packets | |

An operator whose comment begins with "A wrong ..." is a mutated form of the definition after
it.  No specification uses it: with it in the place of the right one, the property named in
`PROJECT.json` must fail.

### How state and actions correspond to the code

**`MppTaskQueue`.**  `list`, `count` and `blocked` are `info[s].list`, `info[s].count` and the
waiters of `info[s].cond`; `status` is the field of the task; `life` is the flag `ready`.  Every
operation holds the one mutex and is one step.  `mpp_port_poll` is two, one up to the wait and
one after it, because the wait lets go of the mutex.  A wakeup is a move from `blocked` to
`woken`, so that a thread that was signalled and has not run yet is a state of its own.

**`MppQueue`, `MppPackets`.**  push adds to the list, lowers `flush_flag` and posts; reset takes
the head, raises the flag, posts, and empties the list; pull tests the flag without the mutex,
waits for a post without the mutex, and takes the head with it.  Each of these is a step.
`Locked` names the steps of the caller inside the mutex.

**`MppDec`.**  `parserAt` and `halAt` name the places between two steps; a step is what a thread
does up to the next point where another thread can see or change what it uses.  `ready` and
`waits` are the two bit sets of `DecTask`, `resetFlag` is `reset_flag`, `frames` is `mFrames`.
The numbers in the comments are those of the comments in `try_proc_dec_task`.  The codec is
H.263 in copy mode.  A packet is its place in the stream, its picture has the same number, and
a buffer is a pair of a commit and an index.  Pulling, preparing and copying a packet is one step
(the queue's own steps are checked in `MppPackets`; here `pull` answers by the queue and the flush
flag, since `PostsCoverEntries` says that posts are never missing and a surplus post only makes
`pull` answer that there is nothing, after which the parser tries again).  The hardware is
external: a picture ends some time after it was started.  `aborted` stands for a failed
`slot_assert` and for a write through a NULL frame; nothing happens after it.

**The parsers and `MppCodecs`.**  A parser's call (`parse`, `prepare` with an end of stream, `flush`,
`reset`) makes many slot operations, each under the slots' lock, and is one step: no other thread
looks at a parser's context, except the HAL thread's flush.  It is an operator from a work record
(context, slots, display queue, the task's fields) to a work record; the field `puts` has the
buffers whose reference from `mpp_buffer_get` the call returns.  A picture is its place in the
stream; what the control of a parser reads of its header is a record: type, field, which references
it replaces, its order count, memory management, whether its header is damaged.  `Kinds` is the set
of kinds of streams, each with its codec, the records of its pictures, the number of formats and of
resets; `PicturesOf` gives the records that may come next.  `TLC` enumerates these records as the stream goes on; `Possible` restricts them to
streams an encoder may write (the second field after the first, order counts that a picture
buffer of the declared size can put in order), since nothing is promised for others.  A
picture that cannot be decoded is part of the streams.  The two threads are reduced to what the
parsers can tell: `ParserParses`, `ParserEnds`, `ParserResumes`, `ParserSubmits` and `Reset` for the
parser thread, and for the HAL thread `HalTakes`, `HalFinishes`, `HalClears`, `HalShows`,
`HalEnds`, with the display queue between them.  A reset is one step here; its interleavings are
those of `MppDec`.

**The split modules and `MppSplit`.**  A byte is a number, and a packet a sequence of bytes with a flag.
A call of `prepare` is an operator from the parser's context, what is left of the packet, the packet's
flag and the task to the three of them after the call.  The loops over bytes are first positions that
satisfy a predicate on the bytes around them (`Scan` with `VopBegins` and `CodeEnds`, `PictureAt`
and so on); only `parse_prepare` of H.264, whose state depends on every byte, is a function over
the packet.  `Prepare` is the parser thread's call with the release of an empty packet and the
end that is told at once; `Parse` takes the picture and initializes the task, and its bytes are
appended to `given`; `Reset` drops the packet and resets the parser, and the user begins the stream
again.  Slots and hardware play no part here.  A stream is a record: its codec, its bytes, its pictures,
the `places` in the bytes where these lie, the packets in which it may be put, and how often it is reset.
`CutWell` says when the pictures of such a record are those of the bytes; its conditions are under
`MppSplit_proofs`, below, and TLC evaluates them on every stream of the run.

**`MppEnc`.**  `putAt`, `getAt`, `clearAt` and `encAt` name the places of the four threads.  The
two queues are `In` and `Out`, instances of `MppTaskQueue` with one task, as `Mpp::init` sets
them up.  Whether a call blocks is chosen at each call (`MPP_SET_INPUT_BLOCK`,
`MPP_SET_OUTPUT_BLOCK`).

**`BufferGroups`.**  One record per group (`MppBufferGroupImpl`) and per buffer
(`MppBufferImpl`).  All functions of `mpp_buffer_impl.cpp` hold the service's lock and are one
step.  `mpp_buffer_get` is two, the search and the creation, and other threads run between them.
`list_used` is only ever walked as a whole, so it is a set; `list_unused` is searched from its
head and is a sequence.  `freedInUse` marks the one step after which the program writes to a
group it has freed; nothing happens after it.

## The runs

Every run gives its `.cfg` and the module it runs on in `PROJECT.json`; the passing ones explore
their whole state space.

| run | states | bounds | what it shows |
|---|---|---|---|
| `task_ports` | 3 571 | 3 tasks, one thread on the input port, two on the output port | tasks stay on one list and in one hand, a wakeup is never lost to a thread that cannot use it, a poll that answers 1 is followed by a dequeue that finds the task, every task put is worked on, and the queue implements `MppTaskRing` |
| `packets` | 1 989 | 4 packets, depth 2, 4 posts | a pull never misses an entry and keeps the order; a packet that was put leaves the queue; a reset frees a parser that waits in pull |
| `decode` | 111 022 | the seven packets of `DecodeStream` without a reset, five with more buffers, and three pictures of two formats with a reset at any moment; 4 slots, 2 or 3 buffers per commit, 2 tasks | the picture in the hardware is shared with nobody, its reference is kept, order is kept, pictures go to buffers of their format, no slot is lost, the parser finds one, packet slots survive a reset, packets are pulled, pictures delivered, and reset returns |
| `codecs` | 441 498 | the kinds of streams of `MCKinds`, with and without fast mode; 6 slots | what the hardware reads and writes is kept until it is done, a picture is decoded from the pictures it was coded from, pictures are shown in display order and all of them, no slot and no buffer reference is lost or returned twice, every task of the HAL thread has an output |
| `split` | 17 842 | one stream of three or four pictures per codec, 12 to 50 bytes, in packets of any length (coarser ones for H.263, AVS, VP9 and MPEG-2 with a reset); one reset; two ends | every picture is handed to the parser, whole, alone, once and in order, and the end is told after the last, whatever the packets |
| `encode` | 1 502 | 3 frames, one clear at any moment | `put_frame` releases only frames the encoder has sent back, one packet per frame in order, `put_frame` returns, every packet arrives, and a clear leaves nothing behind |
| `buffer_groups` | 476 415 | 2 groups, 2 buffers, 2 threads, 2 sizes, 2 types, one limit, 2 references | lists and counters agree, a group outlives its buffers and calls, a cleared buffer is never handed out again |
| `parser_stranded`, `reset_keeps_frames`, `clear_hangs`, `orphan_kept`, `flush_forgets` | | as the runs above | one disagreement between the code and its own comments each; see below |

Why these bounds are enough.

* *Task queue.*  A lost wakeup needs a signal, a thread it wakes and a second one that takes the
  task first, so two threads on one port; a third task lets a list be longer than the waiters.
  The number of tasks and threads does not matter to the proved part.
* *Packet queue.*  Depth 2 is the smallest at which the queue is neither empty nor full;
  four packets allow an end of stream, a reset that saves extra data, and packets after it.
  `PendingBound` only bounds the surplus posts that resets and end-of-stream packets make.
* *Decoder.*  The stream has what the code treats apart: a picture that cannot be used because no
  I picture came before it, pictures with a reference, an info change in the middle, a picture
  that is also the end of the stream, and an empty last packet.  `TaskCount` 2 is the task count
  of the non-fast mode.  Four slots are what `h263d_parser.c:224` sets up, and the stream has more pictures than that, so
  that a slot that is not given back is missed.  Three buffers are one more than a picture and its
  reference, so that a frame can be with the user.  With fewer buffers than the code has, the waits
  for them happen more often, not less.
* *Codecs.*  `MCKinds` gives each parser streams of three or four pictures, and two or three in those
  with a reset or a change of format, and says which header records they are made of.  VP9 has three
  pictures with a reset: a pointer that two frames set and a reset left is read by the third.  Six slots are more than
  any of them needs at once: two anchors (`H264Size` and `H264RefFrames` 2, `Vp9RefCount` 2,
  `H265DpbSize` 5 entries, `H265Reorder` 1), three tasks and a picture in the display queue; a leak
  shows as an invariant, not as a lack of slots.  `H265MaxLsb` 16 is the smallest the syntax
  allows, so that low bits wrap within three pictures.  Three pictures are needed for a B
  picture between two anchors, four for an anchor after it, for two pairs of fields, and for a
  sliding window that takes the oldest of two references while a third waits for output.
* *Splitting.*  A stream has what the splitters treat apart: headers before a first picture, pictures
  of one and of two slices, start codes that end a picture and others, zero bytes before a start
  code and in the middle of data, a superframe.  Packets end at any byte, down to packets of one, so each
  start code and each look back into an earlier packet is cut at every place.  MPEG-2 packets do not
  end right behind a slice's prefix (see below), H.263 packets have the four bytes that the code
  asserts, AVS and VP9 packets are pictures and superframes, as those parsers want, and an H.264
  stream comes in two packets at least, for `in_length` is stale otherwise.  One reset is enough: what a
  reset leaves behind is there at the next.
* *Encoder.*  Both queues have one task, as in `Mpp::init`; with three frames one can be a packet
  nobody has taken, one in the control thread and one in `put_frame`, which is as far as the
  pipeline fills.
* *Buffer groups.*  The interesting cases need two buffers: a search that frees a smaller one and
  takes the other, an orphan with a discarded and a kept buffer.  Two groups are needed for a misc
  group beside one of the application's.  Groups, buffers and threads are interchangeable, and are
  symmetry sets; there is no liveness property in that run.

`CHECK_DEADLOCK FALSE` stands in the runs in which the system may stop: a stream that is decoded, a
context that is cleared, an encoder without frames, buffers whose users call nothing.

Three invariants of `MppDec` do not survive a reset, and are stated for the time before one.
After a reset `DeliveredInOrder` fails, for a stale picture may follow newer ones
(`reset_keeps_frames`).  So does `HardwareTargetPrivate`: an info change task that was on its way copies
the frame of its slot although the slot has been taken by a picture meanwhile, buffer included.  And
when nothing has taken it, the HAL thread's assertion that there is an info change frame fails
(`mpp_dec.cpp:635`), which is why `SlotsSuffice` allows `aborted` then, and claims that a slot is
free nevertheless.  That needs more slots than before a reset.  An info change task that a reset leaves in the
list keeps its picture's slot in the display queue until the HAL thread gets to it, and when that
happens at the wrong moment three slots are not enough: an I and a P picture of one format and a P and an
I picture of another, with one reset and three buffers per commit, leave the parser without one.  With
`TaskCount + 2` slots, here the four of the source, it always finds one (`DecSlotsAccounted`).

What `codecs` leaves out of its properties, because the code does not keep it:

* `HardwareSlotsKept` excepts `StaleRead`.  A VP9 frame is shared by pointers, of which
  `vp9_unref_frame` unsets the slot index for the last one only (`vp9d_parser.c:298`); the others keep
  it without a reference.  While decoding this does not matter, since a pointer is set again at once.  A
  reset unsets them all, and the next frame, even a key frame, marks the slots of the three pointers
  it named last as read by the hardware, whether there is a reference or not (line 1628): the slot
  is free, or the next picture's own.  Key, key, reset, key is such a stream.  `ReadsAsCoded` still
  claims that a frame reads all it was coded from.  The property also says nothing of the output of a
  second field, which is the first one's.
* `ShownInOrder` says nothing of the order once the HAL thread has flushed the parser for the end of a
  stream that a reset had cut off (`lateFlush`): the flush then displays pictures of the next stream
  too early.  That no picture is shown twice is claimed all the same.
* `NothingLeaks` excepts three kinds of pictures (`Forgotten`): a hidden VP8 frame, whose buffer
  reference `vp8d_unref_frame` never returns; a picture of an earlier H.265 sequence that
  `hevc_frame_start` takes for the current one; and a first field that a reset separates from its
  second.
* `TasksHaveOutput` excepts an end of stream in a VP9 picture that is shown again or an H.265 picture
  that is skipped: the task says it is valid and has no output, and the HAL thread's assertion fails.
* `AllShownAtEnd` excepts what `m2vd_parser_flush` forgets (`flush_forgets`), the last anchor of
  MPEG-4 when the picture that carries the end of stream is not decoded, and the H.265 picture above.

What the streams of `codecs` leave out, with what happened when they were tried.  The modules have these
pictures (`M2vPictures`, `Vp9Pictures`, `H264Pictures`), so that the parsers are modelled whole;
`MCPicturesOf` does not choose them, and the properties are not claimed of them:

* *Pairs of B fields* of MPEG-2.  The frame is shown, and its slot let go, when the hardware has finished
  the first field; the second field then gets a buffer of its own in that slot, although the
  comment in `mpp_dec.cpp:496` has it reuse the first one's, and nobody returns it (`NothingLeaks`).
* *VP9 frames shown again.*  One that is still in the display queue is counted twice there and shown once,
  so that its slot is never free; and an older one is shown out of order (`NothingLeaks`,
  `ShownInOrder`).
* *H.264, a later IDR with `no_output_of_prior_pics`* (`prior`).  `idr_memory_management` frees the stores
  without their marks: such a picture keeps its slot until the end, when `flush_dpb_buf_slot` displays
  it after the new sequence (`NothingLeaks`, `ShownInOrder`).
* *H.264, damaged second fields* (`bad`).  All but `TypeOK`, `TasksHaveOutput` and `AllShownAtEnd` fail.  Damaged
  frames are in the streams (`h264b`), and all properties hold.
* *H.264, frames after field pairs.*  A second field leaves `store_picture_in_dpb` before the pictures whose
  turn it is are written (`Joined`).  A first pair therefore waits, and a frame after it is
  written before it, since nothing has been written yet (`ShownInOrder`, `NothingLeaks`).  Streams of
  frames only, or of an IDR frame and field pairs, are in the run.

What `split` leaves out of its properties, because the code does not keep it:

* *The last picture.*  MPEG-4, MPEG-2 and H.264 drop it when the stream ends in an empty packet: nothing
  flushes the bytes gathered so far.  `EndsComplete` then claims all pictures but that one.
* *An end with bytes* (`EndWithBytes`).  H.264 reads nothing of a packet that ends the stream, loses it and
  the picture before it, and tells the end.  H.265 reads nothing of it either, hands over the gathered
  picture again and again, and when nothing was gathered is called with that packet for ever
  (`NeverRead`).  VP9 tells the end with each frame of the last superframe.
* *After a reset.*  MPEG-2 leaves the split mode for good (`SplitEnded`, `m2vd_parser.c:317`).  The flag
  that `mpp_packet_set_eos` leaves on `task_pkt` of MPEG-4 and H.263 is never cleared, so that the end of
  the next stream is told with its first picture (`StaleEnd`); and `task_pkt` of H.263 keeps its bytes.
* *H.263* takes the first byte of a start code one byte too early, so that pictures are shifted
  against the stream's by a byte; that no byte is lost or doubled is claimed, before a reset.
* *MPEG-2* looks at the byte after a prefix, which is zero when the packet ends there: a slice cut
  there is taken for a picture.
* *AVS* never tells an end, and what is left of a packet with the end flag after its first picture is
  dropped.

## Fairness

* *Threads of the library* (`Parser`, `Hal` of `MppDec`, `Parser` of `MppPackets`, `Enc` of
  `MppEnc`, the polls of `MppTaskPorts`): weak fairness.  They are loops of a running thread that
  never give up the processor for good except in a wait, and a wait is a state in which no step of
  theirs is enabled.  A timed wait ends by itself, so weak fairness covers the timeout; a blocking
  one ends only by a signal.
* *Prepare and Parse* of `MppSplit`: weak fairness, being that same thread.  The user need not put anything.
* *The hardware* is a step of `Hal`, with weak fairness: a picture ends, or the kernel driver
  reports a timeout.
* *Calls the application is inside* (`put_frame`, `reset`, `clear`, a commit that answers an info
  change): weak fairness, for the same reason as a thread of the library.
* *What the application may or may not do.*  It need not put packets or frames, nor reset, nor
  clear.  It does go on asking for frames and packets and gives frames back: strong fairness for
  `UserGets` and `UserReleases`, weak for `Get`.  Strong is needed because the user's one thread also
  makes other calls in between, which disable them; a user who stops taking frames stops the decoder
  by design.
* *`MppTaskPorts`.*  A thread on the output port polls again and again, and finishes what it began;
  the one on the input port need not put a task.
* `BufferGroups` and `MppCodecs` state no fairness: all their properties are safety properties.  That
  the threads go on is the subject of `MppDec`.

No property rests on a lock being fair; the mutexes are held within a step.

## What is proved

TLAPS checks the eight `_proofs` modules.  Each has an inductive invariant (`IInv`; `SlotInv` in
`MppDecSlots_proofs`, `FrameInv` and `SupplyInv` in `MppDecFrames_proofs`, `SplitInv` in
`MppSplit_proofs`), one lemma for `Init`, one per action or group of actions, and the theorems that follow.  TLC checked each of
these invariants on bounds like those of the runs above before it was proved.

**`MppTaskPorts_proofs`** (`PortsTypeOK`, `PortsListsPartition`, `PortsHeldOnce`,
`PortsInvariant`, `PortsPollPromiseKept`, `PortsImplementRing`), for every number of tasks and every
set of threads with any ports (`TaskCountAssumption`, `PortsAssumption`).  `ListsPartition` alone is not inductive: a dequeue
takes the head of a list, so `IInv` adds the types; an enqueue moves a task that its caller holds,
so it adds `HeldOnce`; before setup there are no lists, hence `NothingBeforeSetup`; and a wakeup must
not conjure a thread that was never in a poll, hence `WaitersInPoll`.  The lemmas `UnlinkProperties`,
`UnlinkDistinct` and `MoveKeepsLists` say what `list_del_init` and `list_add_tail` of one task do
to a list without repetitions; every action cites the last.  `PollPromiseKept` says that a thread alone
on its port finds a task where its poll found one: nobody else takes from the list of that port, and
what others move only adds to it.  `PortsImplementRing` is the refinement: the initial state maps to
one of `MppTaskRing`, and under `IInv` every step is one of its steps or leaves its state alone, the
four lists read as the two channels and the tasks in hand.

**`MppPackets_proofs`** (`PacketsTypeOK`, `PacketsPostsCoverEntries`, `PacketsPulledInOrder`,
`PacketsInvariant`), for every number of packets, every depth and every choice of end-of-stream and
extra-data packets (`PacketsAssumption`).  `PostsCoverEntries` counts the semaphore's posts, those a
caller inside the mutex still owes and the one a pull has taken against the entries of the list.
Order needs `Sorted`: the entries, the saved extra data and what comes next lie in order; with it
`PulledInOrder`, an action property, follows from the invariant.

**`BufferGroups_proofs`** (`BuffersInvariant`, `GroupOutlivesBuffersHolds`,
`ClearedNotReusedHolds`, `BuffersCounted`, `BuffersTypeOK`, `BuffersListsAndCounters`), for any sets
of groups, buffers, threads, sizes and limits (`GroupsAssumption`).  `GroupOutlivesBuffers` needs to know that a group that is put has no buffer
but those on its used list, so `OnLists` ties every buffer to exactly one list of its group; that
nobody puts a misc group, `GroupsKept`; and that a buffer that is not there has no references
(`Tables`).  `ClearedNotReused` needs `ClearedDiscarded`: such a buffer has its discard flag, and no
step but the last put takes it from the used list.  The list lemmas (`ListsTakeBehind` and so on)
say what each kind of step does to one group's lists; `OnListsKept` carries the others along.  The
invariant is claimed up to the moment a group is freed under a running `mpp_buffer_ref_dec`
(`freedInUse`), after which the program has no defined behaviour.

The counters have an invariant on top of that one, `CInv`: buffers that are there and buffers asked
for have sizes above zero (`BuffersOK`, `CallsOK`), and of every group `usage` is the sum of the
sizes of its buffers, and `buffer_count`, `count_used` and `count_unused` are the numbers of its
buffers and of its lists' (`Counts`).  One lemma per action shows it kept.  `usage` is a fold over a
set (`Bytes`); what it adds up to (`BytesIsSum`, `SumWithout`, `SumApart`) takes an induction on the
number of buffers, which `AllNumbers` does by the least number that a set of naturals lacks (`WFMin`),
since the provers cannot instantiate an induction theorem whose parameter is an operator.  These
theorems hold after `freedInUse` as well: an orphan is freed when its usage is zero, and no buffer
has size zero, so it has no buffer left (`NoBytes`).

**`MppEnc_proofs`** (`EncTypeOK`, `EncFrameInUseKept`, `EncClearLeavesNothing`, `EncPacketsInOrder`,
`EncInvariant`), for any number of frames.  That `put_frame` releases only a frame the encoder has sent
back is a statement about two queues and four threads, and its invariant follows the one task of each
queue round: `QueuesHoldOne` (the task is on the list of its status), `TasksInHand` (or in the hands of
which thread), `LifeCycle` (which thread may be where once `clear` has begun), `Waiting` (a woken thread
finds its task), and `FramesAccounted` (every frame that was put is released, in the task, or in the
encoder).  Order needs `PacketsAccounted`: the packet that is made, the one in the output task and the
one that was taken follow each other without a gap.

**`MppDec_proofs`** (`DecTypeOK`, `DecPictureFitsBuffers`, `DecPacketSlotsOwned`, `DecInvariant`), for
every stream, every number of tasks, slots and buffers, and every number of resets (`DecAssumption`,
and `NamesAssumption`: the values that stand for none are none of the real ones).  The invariant has
the handshake of a reset (`ResetHandshake`), the commits of buffers (`Commits`), which task each thread
has in hand and at which places (`TasksInHand`), where the parser may be with which status bits
(`StatusBits`) and what they say of the task it fills (`PictureInHand`), that one picture at a time is
with the hardware (`OneInFlight`), what the HAL thread may find in a task (`TasksSent`), which format is
in force (`FormatsKnown`), and that a packet slot belongs to the parser or to a task
(`PacketSlotsKept`).  `PictureFitsBuffers` then says that a change of format waits for the picture
before it: a picture may be in the hardware only while no change is pending, and parsing, which may
make one pending, comes after the wait for the previous task.  A task that a reset drops, and the HAL
thread that gives back a packet slot in the same moment, are why `PacketSlotsKept` is more than
`PacketSlotsOwned`.

**`MppDecSlots_proofs`** (`DecReferenceKept`, `DecSlotsInvariant`), under the same assumptions.  The
reference of a picture in the hardware is neither freed nor taken again while it is read, resets and
info changes included: the half `ReferenceKept` of `HardwareSlotsKept`, which has its hazard in the
flags that three threads set and clear.  A slot is freed with the last of its flags and counters, so
`SlotsFlagged` says whose each of them is: of the picture in hand, of a task, of the parser's reference,
of the display queue, or of the HAL thread that is about to clear it.  `WritersApart` says that no slot
has two writers, or a writer and a reader; `References`, that what is referred to has a buffer and is an
earlier picture; and `PacketOrder`, the numbers of the packets still in the queue, makes a new picture
later than the reference.  The lemmas on one entry (`ReleasedFlagged` and so on) say what each slot
operation does to that correspondence; `SameUse`, `OrderKept` and `ReferenceFrame` carry the parts over the
steps that leave them alone.  When an assertion of the program fails (`aborted`), the parts are half
changed, and `SlotInv` keeps only `ReferenceKept` itself.

**`MppDecFrames_proofs`** (`DecHardwareSlotsKept`, `DecDeliveredInOrder`, `DecThreeSlotsSuffice`,
`DecFramesInvariant`), under the same assumptions.  Both properties are about the time before the first
reset, when the steps of a reset are not taken (`ResetHandshake`).  A picture passes through the
parser's hands, a task, the HAL thread, the display queue and the frame queue, and two may be at
different places, so order is stated with one notion: packet `n` is `Past` when it was pulled and no task that is
sent or worked on is of an earlier one.  Tasks lie in the list in the order of their packets
(`TasksInOrder`); queued frames, and shown pictures that nobody writes, are past (`FramesInOrder`,
`DisplayInOrder`); a frame the HAL thread is about to put comes before the pictures still shown
(`FramesFirst`), because it empties the display queue of finished pictures first (`AllWritten`).  That the
hardware writes to nothing the user has is `BuffersApart`, a buffer in one place, with `ShownInTime`:
what is written is still in the display queue.  `ChangeAnnounced` follows an info change from the task
to the frame to the user, who alone may end it; the parser leaves the picture and its slot alone
meanwhile (`PicturesNamed`).  `DecThreeSlotsSuffice` follows when there are three slots:
`TwoInUse` shows that a parser without a picture in hand finds in use only its reference and what
the HAL thread has not let go of, of which the output *is* the reference.  With fewer the program may abort;
then `FrameInv` keeps the two properties themselves.

The second half of **`MppDecFrames_proofs`** (`DecSlotsAccounted`, `DecSupplyInvariant`), under the same
assumptions and with any number of resets.  `SlotsAccounted` with its two halves: packet slots (`DecPacketSlotsOwned`), and
frame slots, which suffice until a reset when there are three (`DecThreeSlotsSuffice`) and through resets
when there are two more than tasks.  For the second, `SlotsFlagged` names the users of a slot, but not
how many slots they use; that is what `SupplyInv` adds.  A finished picture stays in the display queue only
while the HAL thread is at it, while a task that announces a change of format is still to be worked
on, or while a reset drains the queue (`ShownSlots`); such a task holds one slot each, and one task is
in the parser's hands or announces a picture without a slot (`ChangeBits`).  The reference is the latest
picture (`LatestReference`), so it and what the HAL thread reads and writes are two slots; a picture
still written is the last of the display queue, so that the queue is emptied before it (`NewestLast`);
and the parser goes on only with a buffer to spare, so that it has not to wait for one with a picture
parsed (`BuffersLeft`).  `FewSlots` counts: two, and one for each task but one.  Each of the three
steps that fail an assertion, in the parser, in its reset and in the HAL thread, then leaves a slot free
(`ParserParsesAborts`, `ResetClearsAborts`, `HalPutsAborts`).

**`MppSplit_proofs`** (`SplitTypeOK`, `SplitPicturesIntact`, `SplitEndsComplete`, `SplitInvariant`), for the
seven codecs that split, streams of any length with any number of pictures, any packets the stream's
`packets` allow, and any number of resets.

`StreamsAssumption` is what an encoder has to write, said of the whole stream at once and not of its
packets.  For MPEG-4, MPEG-2 and H.265 (`CutAtCodes`) the pictures lie one behind the other, and each has a
code with which a picture begins, and no end of one behind that code before its own end; what begins and ends
a picture is read in the whole stream with the operators of the split modules.  For AVS a picture has one
start code of a picture and packets hold whole pictures, for VP9 a packet is a frame or a superframe whose
index has the sizes of its frames, because these parsers keep no bytes from one packet to the next.  For
H.263 the pictures only make up the bytes, as the property does.  For H.264 the pictures are those that
`parse_prepare` finds byte by byte in the whole stream: the theorem says that packets make no difference,
that an end makes none but the one named by `EndWithBytes`, and that nothing of the stream before a reset
stays.  MPEG-2 has a condition on packets: none may end right behind a prefix whose code is not that of a
boundary, since `mpp_m2vd_parser_split` looks at the byte behind the packet, and finds there a zero, which is
the code of a picture.

`Read` is how much of the stream was read, `Handed` the pictures given to `Parse` or on the way to it.
`PacketInv` and `TaskInv` are common: what is left of the packet is the stream from `Read` to `put`.  For each
codec one conjunct of `SplitInv` says that the pictures in `Handed` are the first ones, and that the parser's
context is exactly the bytes between the last of them and `Read`: `Gathering` (MPEG-4, MPEG-2), with whether
the picture's code was read and the last four bytes; `Collecting` (H.265), with the bytes that were read past
the end of a picture and are pushed in front of the rest; `CopyInv` (MPEG-2 after a reset, which hands over
packets) and `H263Inv`, of the joined bytes; `AvsInv`; `Vp9At`, with the sizes of the frames still to come of
a superframe; and `H264Inv`, by which the context is the one after `Read` bytes of the whole stream.  Two facts
carry the step of `Prepare`.  A scan over what was kept and the new packet sees the same codes as one over the
whole stream (`SplitsAsWhole`, `WindowFacts`, `H265Window`); so the first place that it finds is
the end of the picture in hand, or there is none in the packet.  And the functions over bytes (`H264Found`,
`H264Split`, the concatenation `FlattenSeq`) take an induction on the number of bytes, by `AllNumbers`, the
least number that a set of naturals lacks, as for the sizes in `BufferGroups_proofs`.  The conditions of
`EndsComplete` per codec are the places where the code gives up a last picture or tells an end more than once.

## What is only model-checked

* Liveness (`TaskReachesWorker`, `PacketLeaves`, `ResetReleasesPull`, `PacketsArePulled`,
  `PictureIsDelivered`, `ResetReturns`, `PutReturns`, `PacketArrives`, `EndIsTold`): the prover does not handle
  fairness.
* `MppCodecs`: a call of one of its seven parsers is a chain of folds over pictures and slots, whose
  order and references go with what each standard says of a stream (`Possible`); an invariant would be
  one per parser, of the size of the whole of `MppDecSlots_proofs`.

## Where the code and its comments disagree

1. `parser_stranded`.  `check_task_wait` trusts wait bits that are older than the mutex it runs
   under, and those who end a wait signal without that mutex.  A signal between
   `try_proc_dec_task` and `parser->wait()` is lost, and the parser sleeps for ever.
   `PacketsArePulled` is therefore stated short of this state; `PictureIsDelivered` holds even in it.
2. `reset_keeps_frames`.  `rk_mpi.h` says that a reset discards all frames; one that the HAL thread is
   about to push, or that is in the display queue, is delivered after it.
3. `clear_hangs`.  `Mpp::clear` signals the control thread once, possibly before it waits.
4. `orphan_kept`.  A buffer of an orphan group that is not discarded is kept when it is released, and
   the group with it.
5. `flush_forgets`.  A parser's flush is to output all frames; that of MPEG-2 never outputs the last
   anchor picture.

`PROJECT.json` quotes the lines.  Other problems have no run, because no comment speaks of them: when
the last buffer of an orphan is discarded, the group is freed while `mpp_buffer_ref_dec` goes on to
write to it (`freedInUse`); and those that the properties of `decode`, `codecs` and `split` leave out,
above, the VP9 reads of a free slot after a reset among them.

## What is not modelled, and why

* The advanced thread of MJPEG, the growth of the slots (`mpp_buf_slot_setup` again): planned, below.
* The bits of headers and slices, the activation of parameter sets, the lists of references that
  are sent to the hardware: they are sequential computation on data, of which the properties see
  only which picture refers to which.  Of H.264, multiview coding and gaps in `frame_num`; of
  H.265, temporal layers above 0 and RADL pictures; streams with length fields in the place of
  start codes (avcC), and time stamps, whose assignment to pictures `mpp_fetch_timestamp` does.
* The H.264 encoder's headers, rate control: computation on data as well.
* Register generation, the device drivers, the operating-system layer: outside the repository's
  own state, and external to the models.
* `mpp_assert`: it logs and goes on, unless the environment's debug flags have `MPP_ABORT` (`mpp_log.h:94`), so
  that a failed one is a step like any other.  This concerns the asserts of the H.263 parser
  (`h263d_parser.c:322`), those on the status of a task at enqueue and at the end of a task group
  (`mpp_task_impl.cpp:245` and `417`).  `slot_assert` does abort, and is modelled.
* Puts from a second thread while a reset holds the saved packet: the user of `MppPackets` who resets is
  the one who puts.
* The legacy VPU interface, the argument checks of `mpi.cpp`, tests and tools: callers of what is
  modelled.
* In the encoder: `mpp_enc_control`, packets that the application attaches to an input task, and
  `mpp_enc_hal_thread`, which nothing starts work for.
* In the buffer service: its destructor at the end of the process, the log, the mapping of memory,
  and the debug mode that frees used buffers.

## What comes next

1. `MppMeta`, and the slot count growing in `BufSlots`; the MJPEG decoder's thread, by making
   `MppEnc`'s control thread one of two; the integer part of the rate control (`mpp_rc.cpp`) as
   operators checked against a reference definition.
2. Proofs: of `MppPackets`, the safety half of `ResetReleasesPull`; of `MppCodecs`, for one parser at a
   time, that a slot it keeps is in use.
