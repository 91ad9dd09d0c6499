------------------------------- MODULE MppEnc -------------------------------
(***************************************************************************)
(* An encoder context: the control thread of mpp/codec/mpp_enc.cpp between *)
(* an input and an output task queue of one task each, a thread of the     *)
(* application in Mpp::put_frame, another in Mpp::get_packet, and          *)
(* Mpp::clear, which stops it all (mpp/mpp.cpp).                           *)
(*                                                                         *)
(* put_frame sends the task to the encoder twice: with a frame, and empty, *)
(* when it has taken the encoded frame out of it.                          *)
(*                                                                         *)
(* A frame is known by its number, and so is its packet.  Whether a call   *)
(* blocks may change from call to call (MPP_SET_INPUT_BLOCK and            *)
(* MPP_SET_OUTPUT_BLOCK); a call that must not block and finds nothing     *)
(* changes nothing.                                                        *)
(***************************************************************************)
EXTENDS Integers, Sequences

CONSTANT FrameCount \* bound: how many frames the application puts

ASSUME FrameCountAssumption == FrameCount \in Nat

Frames == 1 .. FrameCount
None   == 0 \* no frame, no packet

VARIABLES
    inLife, inList, inCount, inStatus, inBlocked, inWoken,        \* mInputTaskQueue
    outLife, outList, outCount, outStatus, outBlocked, outWoken,  \* mOutputTaskQueue
    inFrame,    \* KEY_INPUT_FRAME of the input task
    outPacket   \* KEY_OUTPUT_PACKET of the output task

inVars  == <<inLife, inList, inCount, inStatus, inBlocked, inWoken, inFrame>>
outVars == <<outLife, outList, outCount, outStatus, outBlocked, outWoken, outPacket>>

VARIABLES
    putAt,      \* where put_frame is; see PutSteps
    put,        \* how many frames it has enqueued
    released,   \* the frames it, or the encoder's exit, has released
    getAt,      \* where get_packet is; see GetSteps
    got,        \* the last packet it has returned
    clearAt,    \* where Mpp::clear is; see ClearSteps
    threadStatus, \* mStatus of mThreadCodec
    encAt,      \* where the control thread is; see EncSteps
    encFrame,   \* its frame
    encPacket,  \* its packet
    live        \* the packets that exist in the context

putVars == <<putAt, put>>
getVars == <<getAt, got>>
encVars == <<encFrame, encPacket>>
vars == <<inVars, outVars, putVars, released, getVars, clearAt, threadStatus, encAt, encVars,
          live>>

PutSteps   == {"init", "idle", "wait", "take", "fill", "back", "waitBack", "takeBack", "empty"}
GetSteps   == {"idle", "wait", "take", "give"}
ClearSteps == {"no", "awake", "stop", "join", "done"}
EncSteps   == {"unborn", "loop", "dequeue", "asleep", "giveBack", "encode", "return", "poll",
               "blocked", "send", "give", "exitIn", "exitInGive", "exitOut", "exitOutGive",
               "gone"}

Users == {"put", "get", "enc"}

In  == INSTANCE MppTaskQueue WITH
          TaskCount <- 1, Threads <- Users, life <- inLife, list <- inList, count <- inCount,
          status <- inStatus, blocked <- inBlocked, woken <- inWoken
Out == INSTANCE MppTaskQueue WITH
          TaskCount <- 1, Threads <- Users, life <- outLife, list <- outList, count <- outCount,
          status <- outStatus, blocked <- outBlocked, woken <- outWoken

Init ==
    /\ In!QueueInit /\ Out!QueueInit
    /\ inFrame = None /\ outPacket = None
    /\ putAt = "init" /\ put = 0 /\ released = {}
    /\ getAt = "idle" /\ got = None
    /\ clearAt = "no" /\ threadStatus = "UNINITED"
    /\ encAt = "unborn" /\ encFrame = None /\ encPacket = None /\ live = {}

(* The second half of Mpp::init: the queues are set up with one task each, *)
(* and the thread is started.                                              *)
InitContext ==
    /\ putAt = "init"
    /\ putAt' = "idle"
    /\ In!Setup /\ Out!Setup
    /\ threadStatus' = "RUNNING"
    /\ encAt' = "loop"
    /\ UNCHANGED <<inFrame, outPacket, put, released, getVars, clearAt, encVars, live>>

(* The application's calls, in a context that is initialised and not being *)
(* cleared.                                                                *)
InUse == putAt # "init" /\ clearAt = "no"

PutGoes(from, to) == InUse /\ putAt = from /\ putAt' = to
GetGoes(from, to) == InUse /\ getAt = from /\ getAt' = to
EncGoes(from, to) == encAt = from /\ encAt' = to

(* MppThread::signal, with the thread's mutex: lost unless it waits.       *)
EncNotWoken == encAt \* a wrong signal: it is forgotten
EncWoken    == IF encAt = "asleep" THEN "loop" ELSE encAt

-----------------------------------------------------------------------------
(* Mpp::put_frame.  Poll the input port for a task.                        *)
PutFindsTask ==
    /\ PutGoes("idle", "take")
    /\ put < FrameCount
    /\ In!PollHit("input")
    /\ UNCHANGED <<inFrame, outVars, put, released, getVars, clearAt, threadStatus, encAt,
                   encVars, live>>

PutWaits ==
    /\ PutGoes("idle", "wait")
    /\ put < FrameCount
    /\ In!PollWait("put", "input")
    /\ UNCHANGED <<inFrame, outVars, put, released, getVars, clearAt, threadStatus, encAt,
                   encVars, live>>

PutWakes ==
    /\ PutGoes("wait", IF In!HasTask("input") THEN "take" ELSE "idle")
    /\ In!PollWake("put", "input")
    /\ UNCHANGED <<inFrame, outVars, put, released, getVars, clearAt, threadStatus, encAt,
                   encVars, live>>

(* Dequeue it, give it the frame and send it to the encoder.               *)
PutTakes ==
    /\ PutGoes("take", "fill")
    /\ In!Dequeue("input", 1)
    /\ UNCHANGED <<inFrame, outVars, put, released, getVars, clearAt, threadStatus, encAt,
                   encVars, live>>

PutEnqueues ==
    /\ PutGoes("fill", "back")
    /\ put' = put + 1
    /\ inFrame' = put + 1
    /\ In!Enqueue("input", 1)
    /\ encAt' = EncWoken
    /\ UNCHANGED <<outVars, released, getVars, clearAt, threadStatus, encVars, live>>

(* A wrong wait: the frame is taken for encoded as soon as it was sent.    *)
PutReleasesEarly ==
    /\ PutGoes("back", "idle")
    /\ released' = released \union {put}
    /\ UNCHANGED <<inVars, outVars, put, getVars, clearAt, threadStatus, encAt, encVars, live>>

(* Wait until the encoder has sent it back, with its frame, ...            *)
PutFindsItBack ==
    /\ PutGoes("back", "takeBack")
    /\ In!PollHit("input")
    /\ UNCHANGED <<inFrame, outVars, put, released, getVars, clearAt, threadStatus, encAt,
                   encVars, live>>

PutWaitsForIt ==
    /\ PutGoes("back", "waitBack")
    /\ In!PollWait("put", "input")
    /\ UNCHANGED <<inFrame, outVars, put, released, getVars, clearAt, threadStatus, encAt,
                   encVars, live>>

PutWakesWithIt ==
    /\ PutGoes("waitBack", IF In!HasTask("input") THEN "takeBack" ELSE "idle")
    /\ In!PollWake("put", "input")
    /\ UNCHANGED <<inFrame, outVars, put, released, getVars, clearAt, threadStatus, encAt,
                   encVars, live>>

(* ... release the frame, and send the task once more, empty.              *)
PutReleases ==
    /\ PutGoes("takeBack", "empty")
    /\ In!Dequeue("input", 1)
    /\ released' = released \union ({inFrame} \ {None})
    /\ inFrame' = None
    /\ UNCHANGED <<outVars, put, getVars, clearAt, threadStatus, encAt, encVars, live>>

PutGivesEmpty ==
    /\ PutGoes("empty", "idle")
    /\ In!Enqueue("input", 1)
    /\ encAt' = EncWoken
    /\ UNCHANGED <<inFrame, outVars, put, released, getVars, clearAt, threadStatus, encVars,
                   live>>

-----------------------------------------------------------------------------
(* Mpp::get_packet: poll the output port, dequeue, take the packet out of  *)
(* the task and send the task back.                                        *)
GetFindsTask ==
    /\ GetGoes("idle", "take")
    /\ Out!PollHit("output")
    /\ UNCHANGED <<inVars, outPacket, putVars, released, got, clearAt, threadStatus, encAt,
                   encVars, live>>

GetWaits ==
    /\ GetGoes("idle", "wait")
    /\ Out!PollWait("get", "output")
    /\ UNCHANGED <<inVars, outPacket, putVars, released, got, clearAt, threadStatus, encAt,
                   encVars, live>>

GetWakes ==
    /\ GetGoes("wait", IF Out!HasTask("output") THEN "take" ELSE "idle")
    /\ Out!PollWake("get", "output")
    /\ UNCHANGED <<inVars, outPacket, putVars, released, got, clearAt, threadStatus, encAt,
                   encVars, live>>

GetTakes ==
    /\ GetGoes("take", "give")
    /\ Out!Dequeue("output", 1)
    /\ got' = outPacket
    /\ live' = live \ {outPacket}
    /\ outPacket' = None
    /\ UNCHANGED <<inVars, putVars, released, clearAt, threadStatus, encAt, encVars>>

GetGives ==
    /\ GetGoes("give", "idle")
    /\ Out!Enqueue("output", 1)
    /\ encAt' = EncWoken
    /\ UNCHANGED <<inVars, outPacket, putVars, released, got, clearAt, threadStatus, encVars,
                   live>>

-----------------------------------------------------------------------------
(* The control thread.  At the top of its loop it looks at its status;     *)
(* then, with the thread's mutex, it takes an input task or sleeps.        *)
EncLoops ==
    /\ EncGoes("loop", IF threadStatus = "RUNNING" THEN "dequeue" ELSE "exitIn")
    /\ UNCHANGED <<inVars, outVars, putVars, released, getVars, clearAt, threadStatus, encVars,
                   live>>

EncSleeps ==
    /\ EncGoes("dequeue", "asleep")
    /\ In!DequeueNone("output")
    /\ UNCHANGED <<inFrame, outVars, putVars, released, getVars, clearAt, threadStatus, encVars,
                   live>>

(* A wrong start: an empty task is taken for a frame.                      *)
EncTakesAnything ==
    /\ EncGoes("dequeue", "encode")
    /\ In!Dequeue("output", 1)
    /\ encFrame' = inFrame
    /\ inFrame' = None
    /\ UNCHANGED <<outVars, putVars, released, getVars, clearAt, threadStatus, encPacket, live>>

EncTakes ==
    /\ EncGoes("dequeue", IF inFrame = None THEN "giveBack" ELSE "encode")
    /\ In!Dequeue("output", 1)
    /\ encFrame' = inFrame
    /\ inFrame' = None
    /\ UNCHANGED <<outVars, putVars, released, getVars, clearAt, threadStatus, encPacket, live>>

(* A wrong end of the empty round: the task is kept.                       *)
EncKeepsEmpty ==
    /\ EncGoes("giveBack", "loop")
    /\ UNCHANGED <<inVars, outVars, putVars, released, getVars, clearAt, threadStatus,
                   encVars, live>>

EncGivesEmptyBack ==
    /\ EncGoes("giveBack", "loop")
    /\ In!Enqueue("output", 1)
    /\ UNCHANGED <<inFrame, outVars, putVars, released, getVars, clearAt, threadStatus,
                   encVars, live>>

(* A frame with a buffer is encoded, one without gives an empty packet;    *)
(* a frame whose encoding fails gives its packet all the same.             *)
EncEncodes ==
    /\ EncGoes("encode", "return")
    /\ encPacket' = encFrame
    /\ live' = live \union {encFrame}
    /\ UNCHANGED <<inVars, outVars, putVars, released, getVars, clearAt, threadStatus, encFrame>>

(* The task goes back to the input port, with its frame.                   *)
EncReturns ==
    /\ EncGoes("return", "poll")
    /\ In!Enqueue("output", 1)
    /\ inFrame' = encFrame
    /\ encFrame' = None
    /\ UNCHANGED <<outVars, putVars, released, getVars, clearAt, threadStatus, encPacket, live>>

(* The output port is polled, for ever, until somebody wakes the thread;   *)
(* what poll answers is not looked at.                                     *)
EncFindsOutput ==
    /\ EncGoes("poll", "send")
    /\ Out!PollHit("input")
    /\ UNCHANGED <<inVars, outPacket, putVars, released, getVars, clearAt, threadStatus,
                   encVars, live>>

(* A wrong poll: it does not block.                                        *)
EncGoesOn ==
    /\ EncGoes("poll", "send")
    /\ ~Out!HasTask("input")
    /\ UNCHANGED <<inVars, outVars, putVars, released, getVars, clearAt, threadStatus,
                   encVars, live>>

EncBlocks ==
    /\ EncGoes("poll", "blocked")
    /\ Out!PollWait("enc", "input")
    /\ UNCHANGED <<inVars, outPacket, putVars, released, getVars, clearAt, threadStatus,
                   encVars, live>>

EncWakes ==
    /\ EncGoes("blocked", "send")
    /\ Out!PollWake("enc", "input")
    /\ UNCHANGED <<inVars, outPacket, putVars, released, getVars, clearAt, threadStatus,
                   encVars, live>>

(* With an output task the packet is sent; without one it is deleted.      *)
EncTakesOutput ==
    /\ EncGoes("send", "give")
    /\ Out!Dequeue("input", 1)
    /\ outPacket' = encPacket
    /\ encPacket' = None
    /\ UNCHANGED <<inVars, putVars, released, getVars, clearAt, threadStatus, encFrame, live>>

EncSends ==
    /\ EncGoes("give", "loop")
    /\ Out!Enqueue("input", 1)
    /\ UNCHANGED <<inVars, outPacket, putVars, released, getVars, clearAt, threadStatus,
                   encVars, live>>

(* A wrong end: the packet is forgotten, not deleted.                      *)
EncForgetsPacket ==
    /\ EncGoes("send", "loop")
    /\ Out!DequeueNone("input")
    /\ encPacket' = None
    /\ UNCHANGED <<inVars, outPacket, putVars, released, getVars, clearAt, threadStatus,
                   encFrame, live>>

EncDropsPacket ==
    /\ EncGoes("send", "loop")
    /\ Out!DequeueNone("input")
    /\ live' = live \ {encPacket}
    /\ encPacket' = None
    /\ UNCHANGED <<inVars, outPacket, putVars, released, getVars, clearAt, threadStatus,
                   encFrame>>

(* At its end the thread empties the tasks of both queues that wait on     *)
(* their output port (release_task_in_port), and sends each one back.      *)
EncReleasesFrame ==
    /\ EncGoes("exitIn", "exitInGive")
    /\ In!Dequeue("output", 1)
    /\ released' = released \union ({inFrame} \ {None})
    /\ inFrame' = None
    /\ UNCHANGED <<outVars, putVars, getVars, clearAt, threadStatus, encVars, live>>

EncReleasesPacket ==
    /\ EncGoes("exitOut", "exitOutGive")
    /\ Out!Dequeue("output", 1)
    /\ live' = live \ {outPacket}
    /\ outPacket' = None
    /\ UNCHANGED <<inVars, putVars, released, getVars, clearAt, threadStatus, encVars>>

EncGivesReleased ==
    /\ \/ EncGoes("exitInGive", "exitIn") /\ In!Enqueue("output", 1) /\ UNCHANGED outVars
       \/ EncGoes("exitOutGive", "exitOut") /\ Out!Enqueue("output", 1) /\ UNCHANGED inVars
    /\ UNCHANGED <<inFrame, outPacket, putVars, released, getVars, clearAt, threadStatus,
                   encVars, live>>

EncExits ==
    /\ \/ EncGoes("exitIn", "exitOut") /\ In!DequeueNone("output") /\ UNCHANGED outVars
       \/ EncGoes("exitOut", "gone") /\ Out!DequeueNone("output") /\ UNCHANGED inVars
    /\ UNCHANGED <<inFrame, outPacket, putVars, released, getVars, clearAt, threadStatus,
                   encVars, live>>

-----------------------------------------------------------------------------
(* Mpp::clear, which no other call overlaps; a task may be on its way (the *)
(* calls poll, dequeue and enqueue are the application's to use too).      *)
ClearStopping ==
    /\ clearAt = "no" /\ getAt = "idle" /\ putAt \in {"idle", "back"}
    /\ clearAt' = "awake"
    /\ threadStatus' = "STOPPING"
    /\ UNCHANGED <<inVars, outVars, putVars, released, getVars, encAt, encVars, live>>

ClearAwakes ==
    /\ clearAt = "awake"
    /\ clearAt' = "stop"
    /\ Out!Awake("input")
    /\ UNCHANGED <<inVars, outPacket, putVars, released, getVars, threadStatus, encAt, encVars,
                   live>>

(* MppThread::stop: with the mutex, the status and a signal; then join.    *)
ClearStops ==
    /\ clearAt = "stop"
    /\ clearAt' = "join"
    /\ threadStatus' = "STOPPING"
    /\ encAt' = EncWoken
    /\ UNCHANGED <<inVars, outVars, putVars, released, getVars, encVars, live>>

ClearEnds ==
    /\ clearAt = "join"
    /\ encAt = "gone"
    /\ clearAt' = "done"
    /\ threadStatus' = "UNINITED"
    /\ In!Deinit /\ Out!Deinit
    /\ UNCHANGED <<inFrame, outPacket, putVars, released, getVars, encAt, encVars, live>>

-----------------------------------------------------------------------------
Put ==
    \/ PutFindsTask \/ PutWaits \/ PutWakes \/ PutTakes \/ PutEnqueues
    \/ PutFindsItBack \/ PutWaitsForIt \/ PutWakesWithIt \/ PutReleases \/ PutGivesEmpty

Get == GetFindsTask \/ GetWaits \/ GetWakes \/ GetTakes \/ GetGives

Enc ==
    \/ EncLoops \/ EncSleeps \/ EncTakes \/ EncGivesEmptyBack \/ EncEncodes \/ EncReturns
    \/ EncFindsOutput \/ EncBlocks \/ EncWakes \/ EncTakesOutput \/ EncSends \/ EncDropsPacket
    \/ EncReleasesFrame \/ EncReleasesPacket \/ EncGivesReleased \/ EncExits

Clear == ClearStopping \/ ClearAwakes \/ ClearStops \/ ClearEnds

Next == InitContext \/ Put \/ Get \/ Enc \/ Clear

Spec == Init /\ [][Next]_vars

(* The control thread runs.  The application finishes a put_frame and a    *)
(* clear it has begun and goes on asking for packets; it need not put a    *)
(* frame, nor clear.                                                       *)
FairSpec ==
    /\ Spec
    /\ WF_vars(Enc)
    /\ WF_vars(putAt # "idle" /\ Put)
    /\ WF_vars(Get)
    /\ WF_vars(clearAt # "no" /\ Clear)

-----------------------------------------------------------------------------
TypeOK ==
    /\ In!QueueTypeOK /\ Out!QueueTypeOK
    /\ inFrame \in Frames \union {None} /\ outPacket \in Frames \union {None}
    /\ putAt \in PutSteps /\ put \in 0 .. FrameCount /\ released \subseteq Frames
    /\ getAt \in GetSteps /\ got \in Frames \union {None}
    /\ clearAt \in ClearSteps /\ threadStatus \in {"UNINITED", "RUNNING", "STOPPING"}
    /\ encAt \in EncSteps /\ live \subseteq Frames
    /\ encFrame \in Frames \union {None} /\ encPacket \in Frames \union {None}

(* "final user will release the mpp_frame they had input" (mpp_enc.cpp):   *)
(* put_frame releases a frame only after the encoder has sent it back, and *)
(* takes a task out of the port only when its frame is encoded.            *)
FrameInUseKept ==
    /\ encFrame \notin released
    /\ inFrame \notin released

(* The application gets one packet for each frame, in order: none is lost  *)
(* to an output port without task, none is made of an empty task.          *)
PacketsInOrder == [][got' # got => got' = got + 1]_vars

(* After Mpp::clear no packet is left without owner, and the frame of a    *)
(* task that was sent and not taken back is released or in the port for    *)
(* the application to find.                                                *)
ClearLeavesNothing ==
    clearAt = "done" =>
        /\ live = {}
        /\ \A f \in 1 .. put : f \in released \/ (f = inFrame /\ inStatus[1] = "INPUT_PORT")

(* The inductive invariant behind the safety properties: each queue has    *)
(* its one task on the list of its status ...                              *)
OneTask(life, list, count, status) ==
    /\ life = "inited" => status[1] = "INPUT_PORT"
    /\ \A s \in In!Statuses :
          /\ list[s] = IF life # "inited" /\ status[1] = s THEN <<1>> ELSE <<>>
          /\ count[s] = IF life # "inited" /\ status[1] = s THEN 1 ELSE 0

QueuesHoldOne ==
    /\ OneTask(inLife, inList, inCount, inStatus)
    /\ OneTask(outLife, outList, outCount, outStatus)

(* ... which is in the hands of the one thread that is between dequeue and *)
(* enqueue ...                                                             *)
TasksInHand ==
    /\ inStatus[1] = "INPUT_HOLD" <=> putAt \in {"fill", "empty"}
    /\ inStatus[1] = "OUTPUT_HOLD" <=> encAt \in {"giveBack", "encode", "return", "exitInGive"}
    /\ outStatus[1] = "INPUT_HOLD" <=> encAt = "give"
    /\ outStatus[1] = "OUTPUT_HOLD" <=> getAt = "give" \/ encAt = "exitOutGive"

(* ... the control thread lives from init to clear, and empties the two    *)
(* queues when nobody else calls ...                                       *)
LifeCycle ==
    /\ putAt = "init" <=> inLife = "inited"
    /\ putAt = "init" <=> outLife = "inited"
    /\ putAt = "init" <=> encAt = "unborn"
    /\ putAt = "init" => getAt = "idle"
    /\ clearAt # "no" => getAt = "idle" /\ putAt \in {"idle", "back"}
    /\ threadStatus = "RUNNING" <=> putAt # "init" /\ clearAt = "no"
    /\ encAt \in {"exitIn", "exitInGive", "exitOut", "exitOutGive", "gone"} => clearAt # "no"
    /\ encAt \in {"exitOut", "exitOutGive", "gone"} => inStatus[1] = "INPUT_PORT"
    /\ encAt = "gone" => outStatus[1] = "INPUT_PORT"
    /\ clearAt = "done" => encAt = "gone"

(* ... put_frame is woken only with its task on the port, the control      *)
(* thread with an output task, unless it is cleared ...                    *)
Waiting ==
    /\ inBlocked["OUTPUT_PORT"] = {} /\ inWoken["OUTPUT_PORT"] = {}
    /\ inBlocked["INPUT_PORT"] \intersect inWoken["INPUT_PORT"] = {}
    /\ inBlocked["INPUT_PORT"] \union inWoken["INPUT_PORT"] \subseteq
           (IF putAt \in {"wait", "waitBack"} THEN {"put"} ELSE {})
    /\ inWoken["INPUT_PORT"] # {} => inStatus[1] = "INPUT_PORT"
    /\ outBlocked["INPUT_PORT"] \intersect outWoken["INPUT_PORT"] = {}
    /\ outBlocked["INPUT_PORT"] \union outWoken["INPUT_PORT"] \subseteq
           (IF encAt = "blocked" THEN {"enc"} ELSE {})
    /\ outWoken["INPUT_PORT"] # {} /\ clearAt \in {"no", "awake"} =>
           outStatus[1] = "INPUT_PORT"
    /\ encAt = "send" /\ clearAt = "no" => outStatus[1] = "INPUT_PORT"

(* ... every frame that was put is released but the last, while that is in *)
(* the task or in the encoder ...                                          *)
FramesAccounted ==
    /\ putAt \in {"wait", "take", "fill"} => put < FrameCount
    /\ encFrame # None <=> encAt \in {"encode", "return"}
    /\ putAt \notin {"back", "waitBack", "takeBack"} => inFrame = None /\ encFrame = None
    /\ inFrame # None => inFrame = put /\ encFrame = None
    /\ encFrame # None => encFrame = put
    /\ released = (1 .. put) \ {inFrame, encFrame}

(* ... and each frame is made a packet of, once, and in turn.              *)
ToEncode == (inStatus[1] = "OUTPUT_PORT" /\ inFrame # None) \/ encAt = "encode"
Latest   == IF encPacket # None THEN encPacket ELSE IF outPacket # None THEN outPacket ELSE got

PacketsAccounted ==
    /\ encPacket # None <=> encAt \in {"return", "poll", "blocked", "send"}
    /\ encAt = "return" => encPacket = encFrame
    /\ outPacket # None <=> outStatus[1] \in {"INPUT_HOLD", "OUTPUT_PORT"}
    /\ live = {encPacket, outPacket} \ {None}
    /\ encPacket # None => outPacket < encPacket
    /\ encPacket <= (IF ToEncode THEN put - 1 ELSE put)
    /\ outPacket <= (IF ToEncode THEN put - 1 ELSE put)
    /\ clearAt = "no" =>
          /\ outPacket # None => outPacket = got + 1
          /\ encPacket # None => encPacket = (IF outPacket # None THEN outPacket ELSE got) + 1
          /\ Latest = IF ToEncode THEN put - 1 ELSE put

IInv ==
    /\ TypeOK
    /\ QueuesHoldOne
    /\ TasksInHand
    /\ LifeCycle
    /\ Waiting
    /\ FramesAccounted
    /\ PacketsAccounted

(* put_frame returns, if the application goes on taking packets: neither   *)
(* of its polls, which wait once, is woken for nothing or not at all.      *)
PutReturns == (InUse /\ putAt # "idle") ~> (putAt = "idle" \/ clearAt # "no")

(* And each frame that was put becomes a packet the application gets.      *)
PacketArrives == \A f \in Frames : put = f ~> (got >= f \/ clearAt # "no")

(* "encode thread may block in dequeue output task so send sigal to awake  *)
(* it" (Mpp::clear): once a clear has begun, the control thread does not   *)
(* stay in its wait for an output task.                                    *)
ClearUnblocks == ~<>[](clearAt # "no" /\ encAt = "blocked")
=============================================================================
