--------------------------- MODULE MppEnc_proofs ---------------------------
(***************************************************************************)
(* Proofs about the encoder context, for any number of frames.             *)
(***************************************************************************)
EXTENDS MppEnc, SequenceTheorems, TLAPS

AllStatuses == {"INPUT_PORT", "INPUT_HOLD", "OUTPUT_PORT", "OUTPUT_HOLD"}

LEMMA StatusNames == In!Statuses = AllStatuses /\ Out!Statuses = AllStatuses
BY DEF In!Statuses, Out!Statuses, AllStatuses

LEMMA TheTask == In!Tasks = {1} /\ Out!Tasks = {1}
<1>1. 1 .. 1 = {1}
  OBVIOUS
<1> QED BY <1>1 DEF In!Tasks, Out!Tasks

(* Unlinking the only entry of a list leaves none.                         *)
LEMMA UnlinkOnly == In!Unlink(<<1>>, 1) = <<>> /\ Out!Unlink(<<1>>, 1) = <<>>
<1>1. Len(<<1>>) = 1 /\ <<1>>[1] = 1
  OBVIOUS
<1>2. (CHOOSE i \in 1 .. Len(<<1>>) : <<1>>[i] = 1) = 1
  BY <1>1
<1>3. SubSeq(<<1>>, 1, 1 - 1) \o SubSeq(<<1>>, 1 + 1, Len(<<1>>)) = <<>>
  BY <1>1
<1> QED BY <1>2, <1>3 DEF In!Unlink, Out!Unlink, In!RemoveAt, Out!RemoveAt

(* A list_del_init and a list_add_tail move the one task of a queue.       *)
LEMMA MoveOne ==
    ASSUME NEW life, NEW list \in [AllStatuses -> Seq({1})],
           NEW count \in [AllStatuses -> Nat], NEW status \in [{1} -> AllStatuses],
           OneTask(life, list, count, status), life # "inited",
           NEW to \in AllStatuses, to # status[1]
    PROVE  LET from == status[1]
               list2 == [list EXCEPT ![from] = <<>>, ![to] = Append(@, 1)]
               count2 == [count EXCEPT ![from] = @ - 1, ![to] = @ + 1]
               status2 == [status EXCEPT ![1] = to]
           IN  /\ list[from] = <<1>>
               /\ list2 \in [AllStatuses -> Seq({1})]
               /\ count2 \in [AllStatuses -> Nat]
               /\ status2 \in [{1} -> AllStatuses] /\ status2[1] = to
               /\ OneTask(life, list2, count2, status2)
<1> DEFINE from == status[1]
           list2 == [list EXCEPT ![from] = <<>>, ![to] = Append(@, 1)]
           count2 == [count EXCEPT ![from] = @ - 1, ![to] = @ + 1]
           status2 == [status EXCEPT ![1] = to]
<1>1. /\ from \in AllStatuses /\ list[from] = <<1>> /\ count[from] = 1
      /\ \A s \in AllStatuses \ {from} : list[s] = <<>> /\ count[s] = 0
  BY StatusNames DEF OneTask
<1>2. Append(<<>>, 1) = <<1>> /\ <<1>> \in Seq({1}) /\ <<>> \in Seq({1})
  OBVIOUS
<1>3. status2 \in [{1} -> AllStatuses] /\ status2[1] = to
  OBVIOUS
<1>4. list2 = [s \in AllStatuses |-> IF s = to THEN <<1>> ELSE <<>>]
  BY <1>1, <1>2
<1>5. count2 = [s \in AllStatuses |-> IF s = to THEN 1 ELSE 0]
  <2>1. count[from] - 1 = 0 /\ count[to] + 1 = 1
    BY <1>1
  <2>2. count2 = [count EXCEPT ![from] = 0, ![to] = 1]
    BY <2>1
  <2> QED BY <1>1, <2>2
<1> HIDE DEF list2, count2, status2
<1>6. OneTask(life, list2, count2, status2)
  BY <1>3, <1>4, <1>5, StatusNames DEF OneTask
<1>7. list2 \in [AllStatuses -> Seq({1})] /\ count2 \in [AllStatuses -> Nat]
  BY <1>2, <1>4, <1>5
<1> QED BY <1>1, <1>3, <1>6, <1>7 DEF list2, count2, status2

-----------------------------------------------------------------------------
(***************************************************************************)
(* What the calls of the two queues do to the status of their one task.    *)
(***************************************************************************)
InLists  == In!QueueTypeOK /\ OneTask(inLife, inList, inCount, inStatus)
OutLists == Out!QueueTypeOK /\ OneTask(outLife, outList, outCount, outStatus)

LEMMA InTypes ==
    In!QueueTypeOK <=>
        /\ inLife \in {"inited", "ready", "freed"}
        /\ inList \in [AllStatuses -> Seq({1})]
        /\ inCount \in [AllStatuses -> Nat]
        /\ inStatus \in [{1} -> AllStatuses]
        /\ inBlocked \in [{"INPUT_PORT", "OUTPUT_PORT"} -> SUBSET Users]
        /\ inWoken \in [{"INPUT_PORT", "OUTPUT_PORT"} -> SUBSET Users]
BY StatusNames, TheTask DEF In!QueueTypeOK, In!PortStatuses

LEMMA OutTypes ==
    Out!QueueTypeOK <=>
        /\ outLife \in {"inited", "ready", "freed"}
        /\ outList \in [AllStatuses -> Seq({1})]
        /\ outCount \in [AllStatuses -> Nat]
        /\ outStatus \in [{1} -> AllStatuses]
        /\ outBlocked \in [{"INPUT_PORT", "OUTPUT_PORT"} -> SUBSET Users]
        /\ outWoken \in [{"INPUT_PORT", "OUTPUT_PORT"} -> SUBSET Users]
BY StatusNames, TheTask DEF Out!QueueTypeOK, Out!PortStatuses

Curr(p)    == IF p = "input" THEN "INPUT_PORT" ELSE "OUTPUT_PORT"
Hold(p)    == IF p = "input" THEN "INPUT_HOLD" ELSE "OUTPUT_HOLD"
Given(p)   == IF p = "input" THEN "OUTPUT_PORT" ELSE "INPUT_PORT"

LEMMA PortStatus ==
    ASSUME NEW p
    PROVE  /\ In!StatusCurr(p) = Curr(p) /\ Out!StatusCurr(p) = Curr(p)
           /\ In!NextOnDequeue(p) = Hold(p) /\ Out!NextOnDequeue(p) = Hold(p)
           /\ In!NextOnEnqueue(p) = Given(p) /\ Out!NextOnEnqueue(p) = Given(p)
           /\ Curr(p) \in AllStatuses /\ Hold(p) \in AllStatuses /\ Given(p) \in AllStatuses
           /\ Curr(p) # Hold(p)
BY DEF In!StatusCurr, Out!StatusCurr, In!NextOnDequeue, Out!NextOnDequeue,
   In!NextOnEnqueue, Out!NextOnEnqueue, Curr, Hold, Given, AllStatuses

(* The port has a task when the one task has its status.                   *)
LEMMA InHasTask ==
    ASSUME InLists, inLife # "inited", NEW p
    PROVE  In!HasTask(p) <=> inStatus[1] = Curr(p)
BY PortStatus, StatusNames DEF InLists, OneTask, In!HasTask

LEMMA OutHasTask ==
    ASSUME OutLists, outLife # "inited", NEW p
    PROVE  Out!HasTask(p) <=> outStatus[1] = Curr(p)
BY PortStatus, StatusNames DEF OutLists, OneTask, Out!HasTask

LEMMA InMove ==
    ASSUME InLists, inLife # "inited", inLife' = inLife,
           NEW to \in AllStatuses, to # inStatus[1], In!MoveTask(1, inStatus[1], to),
           inBlocked' \in [{"INPUT_PORT", "OUTPUT_PORT"} -> SUBSET Users],
           inWoken' \in [{"INPUT_PORT", "OUTPUT_PORT"} -> SUBSET Users]
    PROVE  InLists' /\ inStatus'[1] = to
<1>1. /\ inLife \in {"inited", "ready", "freed"}
      /\ inList \in [AllStatuses -> Seq({1})]
      /\ inCount \in [AllStatuses -> Nat]
      /\ inStatus \in [{1} -> AllStatuses]
      /\ OneTask(inLife, inList, inCount, inStatus)
  BY InTypes DEF InLists
<1> DEFINE from == inStatus[1]
           list2 == [inList EXCEPT ![from] = <<>>, ![to] = Append(@, 1)]
           count2 == [inCount EXCEPT ![from] = @ - 1, ![to] = @ + 1]
           status2 == [inStatus EXCEPT ![1] = to]
<1>2. /\ inList[from] = <<1>>
      /\ list2 \in [AllStatuses -> Seq({1})]
      /\ count2 \in [AllStatuses -> Nat]
      /\ status2 \in [{1} -> AllStatuses] /\ status2[1] = to
      /\ OneTask(inLife, list2, count2, status2)
  BY <1>1, MoveOne
<1>3. /\ inList' = [inList EXCEPT ![from] = In!Unlink(@, 1), ![to] = Append(@, 1)]
      /\ inCount' = count2 /\ inStatus' = status2
  BY DEF In!MoveTask
<1>4. inList' = list2
  <2>1. inList' = [inList EXCEPT ![from] = In!Unlink(inList[from], 1), ![to] = Append(@, 1)]
    BY <1>3
  <2> QED BY <1>2, <2>1, UnlinkOnly
<1> HIDE DEF list2, count2, status2
<1> QED BY <1>1, <1>2, <1>3, <1>4, InTypes, StatusNames, TheTask
        DEF InLists, In!QueueTypeOK, In!PortStatuses, OneTask

LEMMA OutMove ==
    ASSUME OutLists, outLife # "inited", outLife' = outLife,
           NEW to \in AllStatuses, to # outStatus[1], Out!MoveTask(1, outStatus[1], to),
           outBlocked' \in [{"INPUT_PORT", "OUTPUT_PORT"} -> SUBSET Users],
           outWoken' \in [{"INPUT_PORT", "OUTPUT_PORT"} -> SUBSET Users]
    PROVE  OutLists' /\ outStatus'[1] = to
<1>1. /\ outLife \in {"inited", "ready", "freed"}
      /\ outList \in [AllStatuses -> Seq({1})]
      /\ outCount \in [AllStatuses -> Nat]
      /\ outStatus \in [{1} -> AllStatuses]
      /\ OneTask(outLife, outList, outCount, outStatus)
  BY OutTypes DEF OutLists
<1> DEFINE from == outStatus[1]
           list2 == [outList EXCEPT ![from] = <<>>, ![to] = Append(@, 1)]
           count2 == [outCount EXCEPT ![from] = @ - 1, ![to] = @ + 1]
           status2 == [outStatus EXCEPT ![1] = to]
<1>2. /\ outList[from] = <<1>>
      /\ list2 \in [AllStatuses -> Seq({1})]
      /\ count2 \in [AllStatuses -> Nat]
      /\ status2 \in [{1} -> AllStatuses] /\ status2[1] = to
      /\ OneTask(outLife, list2, count2, status2)
  BY <1>1, MoveOne
<1>3. /\ outList' = [outList EXCEPT ![from] = Out!Unlink(@, 1), ![to] = Append(@, 1)]
      /\ outCount' = count2 /\ outStatus' = status2
  BY DEF Out!MoveTask
<1>4. outList' = list2
  <2>1. outList' = [outList EXCEPT ![from] = Out!Unlink(outList[from], 1), ![to] = Append(@, 1)]
    BY <1>3
  <2> QED BY <1>2, <2>1, UnlinkOnly
<1> HIDE DEF list2, count2, status2
<1> QED BY <1>1, <1>2, <1>3, <1>4, OutTypes, StatusNames, TheTask
        DEF OutLists, Out!QueueTypeOK, Out!PortStatuses, OneTask

(* A signal wakes one of those who wait.                                   *)
LEMMA InSignal ==
    ASSUME InLists, NEW s \in {"INPUT_PORT", "OUTPUT_PORT"}, In!Signal(s)
    PROVE  /\ inBlocked' \in [{"INPUT_PORT", "OUTPUT_PORT"} -> SUBSET Users]
           /\ inWoken' \in [{"INPUT_PORT", "OUTPUT_PORT"} -> SUBSET Users]
           /\ inBlocked'[s] \union inWoken'[s] = inBlocked[s] \union inWoken[s]
           /\ inBlocked[s] \intersect inWoken[s] = {} =>
                 inBlocked'[s] \intersect inWoken'[s] = {}
           /\ \A r \in {"INPUT_PORT", "OUTPUT_PORT"} \ {s} :
                 inBlocked'[r] = inBlocked[r] /\ inWoken'[r] = inWoken[r]
<1>1. CASE UNCHANGED <<inBlocked, inWoken>>
  BY <1>1, InTypes DEF InLists
<1>2. ASSUME NEW th \in inBlocked[s],
             inBlocked' = [inBlocked EXCEPT ![s] = @ \ {th}],
             inWoken' = [inWoken EXCEPT ![s] = @ \union {th}]
      PROVE  /\ inBlocked' \in [{"INPUT_PORT", "OUTPUT_PORT"} -> SUBSET Users]
             /\ inWoken' \in [{"INPUT_PORT", "OUTPUT_PORT"} -> SUBSET Users]
             /\ inBlocked'[s] \union inWoken'[s] = inBlocked[s] \union inWoken[s]
             /\ inBlocked[s] \intersect inWoken[s] = {} =>
                   inBlocked'[s] \intersect inWoken'[s] = {}
             /\ \A r \in {"INPUT_PORT", "OUTPUT_PORT"} \ {s} :
                   inBlocked'[r] = inBlocked[r] /\ inWoken'[r] = inWoken[r]
  <2>1. /\ inBlocked \in [{"INPUT_PORT", "OUTPUT_PORT"} -> SUBSET Users]
        /\ inWoken \in [{"INPUT_PORT", "OUTPUT_PORT"} -> SUBSET Users]
    BY InTypes DEF InLists
  <2> QED BY <1>2, <2>1
<1> QED BY <1>1, <1>2 DEF In!Signal

LEMMA OutSignal ==
    ASSUME OutLists, NEW s \in {"INPUT_PORT", "OUTPUT_PORT"}, Out!Signal(s)
    PROVE  /\ outBlocked' \in [{"INPUT_PORT", "OUTPUT_PORT"} -> SUBSET Users]
           /\ outWoken' \in [{"INPUT_PORT", "OUTPUT_PORT"} -> SUBSET Users]
           /\ outBlocked'[s] \union outWoken'[s] = outBlocked[s] \union outWoken[s]
           /\ outBlocked[s] \intersect outWoken[s] = {} =>
                 outBlocked'[s] \intersect outWoken'[s] = {}
           /\ \A r \in {"INPUT_PORT", "OUTPUT_PORT"} \ {s} :
                 outBlocked'[r] = outBlocked[r] /\ outWoken'[r] = outWoken[r]
<1>1. CASE UNCHANGED <<outBlocked, outWoken>>
  BY <1>1, OutTypes DEF OutLists
<1>2. ASSUME NEW th \in outBlocked[s],
             outBlocked' = [outBlocked EXCEPT ![s] = @ \ {th}],
             outWoken' = [outWoken EXCEPT ![s] = @ \union {th}]
      PROVE  /\ outBlocked' \in [{"INPUT_PORT", "OUTPUT_PORT"} -> SUBSET Users]
             /\ outWoken' \in [{"INPUT_PORT", "OUTPUT_PORT"} -> SUBSET Users]
             /\ outBlocked'[s] \union outWoken'[s] = outBlocked[s] \union outWoken[s]
             /\ outBlocked[s] \intersect outWoken[s] = {} =>
                   outBlocked'[s] \intersect outWoken'[s] = {}
             /\ \A r \in {"INPUT_PORT", "OUTPUT_PORT"} \ {s} :
                   outBlocked'[r] = outBlocked[r] /\ outWoken'[r] = outWoken[r]
  <2>1. /\ outBlocked \in [{"INPUT_PORT", "OUTPUT_PORT"} -> SUBSET Users]
        /\ outWoken \in [{"INPUT_PORT", "OUTPUT_PORT"} -> SUBSET Users]
    BY OutTypes DEF OutLists
  <2> QED BY <1>2, <2>1
<1> QED BY <1>1, <1>2 DEF Out!Signal

(* mpp_port_dequeue of the one task.                                       *)
LEMMA InDequeue ==
    ASSUME InLists, NEW p, In!Dequeue(p, 1)
    PROVE  /\ inLife = "ready" /\ inStatus[1] = Curr(p)
           /\ InLists' /\ inStatus'[1] = Hold(p)
           /\ UNCHANGED <<inLife, inBlocked, inWoken>>
<1>1. /\ inLife = "ready" /\ UNCHANGED <<inLife, inBlocked, inWoken>>
      /\ In!HasTask(p) /\ In!MoveTask(1, Curr(p), Hold(p))
  BY PortStatus DEF In!Dequeue
<1>2. inStatus[1] = Curr(p)
  BY <1>1, InHasTask
<1>3. /\ inBlocked' \in [{"INPUT_PORT", "OUTPUT_PORT"} -> SUBSET Users]
      /\ inWoken' \in [{"INPUT_PORT", "OUTPUT_PORT"} -> SUBSET Users]
  BY <1>1, InTypes DEF InLists
<1>4. InLists' /\ inStatus'[1] = Hold(p)
  BY <1>1, <1>2, <1>3, PortStatus, InMove
<1> QED BY <1>1, <1>2, <1>4

LEMMA OutDequeue ==
    ASSUME OutLists, NEW p, Out!Dequeue(p, 1)
    PROVE  /\ outLife = "ready" /\ outStatus[1] = Curr(p)
           /\ OutLists' /\ outStatus'[1] = Hold(p)
           /\ UNCHANGED <<outLife, outBlocked, outWoken>>
<1>1. /\ outLife = "ready" /\ UNCHANGED <<outLife, outBlocked, outWoken>>
      /\ Out!HasTask(p) /\ Out!MoveTask(1, Curr(p), Hold(p))
  BY PortStatus DEF Out!Dequeue
<1>2. outStatus[1] = Curr(p)
  BY <1>1, OutHasTask
<1>3. /\ outBlocked' \in [{"INPUT_PORT", "OUTPUT_PORT"} -> SUBSET Users]
      /\ outWoken' \in [{"INPUT_PORT", "OUTPUT_PORT"} -> SUBSET Users]
  BY <1>1, OutTypes DEF OutLists
<1>4. OutLists' /\ outStatus'[1] = Hold(p)
  BY <1>1, <1>2, <1>3, PortStatus, OutMove
<1> QED BY <1>1, <1>2, <1>4

(* mpp_port_enqueue of it, and the signal to the other port.               *)
LEMMA InEnqueue ==
    ASSUME InLists, NEW p \in {"input", "output"}, inStatus[1] = Hold(p), In!Enqueue(p, 1)
    PROVE  /\ inLife = "ready"
           /\ InLists' /\ inStatus'[1] = Given(p)
           /\ inLife' = inLife
           /\ inBlocked'[Given(p)] \union inWoken'[Given(p)] =
                  inBlocked[Given(p)] \union inWoken[Given(p)]
           /\ inBlocked[Given(p)] \intersect inWoken[Given(p)] = {} =>
                 inBlocked'[Given(p)] \intersect inWoken'[Given(p)] = {}
           /\ \A r \in {"INPUT_PORT", "OUTPUT_PORT"} \ {Given(p)} :
                 inBlocked'[r] = inBlocked[r] /\ inWoken'[r] = inWoken[r]
<1>1. /\ inLife = "ready" /\ inLife' = inLife
      /\ In!MoveTask(1, inStatus[1], Given(p)) /\ In!Signal(Given(p))
  BY PortStatus DEF In!Enqueue
<1>2. Given(p) \in {"INPUT_PORT", "OUTPUT_PORT"} /\ Given(p) # inStatus[1]
  BY DEF Given, Hold
<1>3. /\ inBlocked' \in [{"INPUT_PORT", "OUTPUT_PORT"} -> SUBSET Users]
      /\ inWoken' \in [{"INPUT_PORT", "OUTPUT_PORT"} -> SUBSET Users]
      /\ inBlocked'[Given(p)] \union inWoken'[Given(p)] =
             inBlocked[Given(p)] \union inWoken[Given(p)]
      /\ inBlocked[Given(p)] \intersect inWoken[Given(p)] = {} =>
            inBlocked'[Given(p)] \intersect inWoken'[Given(p)] = {}
      /\ \A r \in {"INPUT_PORT", "OUTPUT_PORT"} \ {Given(p)} :
            inBlocked'[r] = inBlocked[r] /\ inWoken'[r] = inWoken[r]
  BY <1>1, <1>2, InSignal
<1>4. InLists' /\ inStatus'[1] = Given(p)
  BY <1>1, <1>2, <1>3, PortStatus, InMove
<1> QED BY <1>1, <1>3, <1>4

LEMMA OutEnqueue ==
    ASSUME OutLists, NEW p \in {"input", "output"}, outStatus[1] = Hold(p), Out!Enqueue(p, 1)
    PROVE  /\ outLife = "ready"
           /\ OutLists' /\ outStatus'[1] = Given(p)
           /\ outLife' = outLife
           /\ outBlocked'[Given(p)] \union outWoken'[Given(p)] =
                  outBlocked[Given(p)] \union outWoken[Given(p)]
           /\ outBlocked[Given(p)] \intersect outWoken[Given(p)] = {} =>
                 outBlocked'[Given(p)] \intersect outWoken'[Given(p)] = {}
           /\ \A r \in {"INPUT_PORT", "OUTPUT_PORT"} \ {Given(p)} :
                 outBlocked'[r] = outBlocked[r] /\ outWoken'[r] = outWoken[r]
<1>1. /\ outLife = "ready" /\ outLife' = outLife
      /\ Out!MoveTask(1, outStatus[1], Given(p)) /\ Out!Signal(Given(p))
  BY PortStatus DEF Out!Enqueue
<1>2. Given(p) \in {"INPUT_PORT", "OUTPUT_PORT"} /\ Given(p) # outStatus[1]
  BY DEF Given, Hold
<1>3. /\ outBlocked' \in [{"INPUT_PORT", "OUTPUT_PORT"} -> SUBSET Users]
      /\ outWoken' \in [{"INPUT_PORT", "OUTPUT_PORT"} -> SUBSET Users]
      /\ outBlocked'[Given(p)] \union outWoken'[Given(p)] =
             outBlocked[Given(p)] \union outWoken[Given(p)]
      /\ outBlocked[Given(p)] \intersect outWoken[Given(p)] = {} =>
            outBlocked'[Given(p)] \intersect outWoken'[Given(p)] = {}
      /\ \A r \in {"INPUT_PORT", "OUTPUT_PORT"} \ {Given(p)} :
            outBlocked'[r] = outBlocked[r] /\ outWoken'[r] = outWoken[r]
  BY <1>1, <1>2, OutSignal
<1>4. OutLists' /\ outStatus'[1] = Given(p)
  BY <1>1, <1>2, <1>3, PortStatus, OutMove
<1> QED BY <1>1, <1>3, <1>4

(* A step that leaves a queue alone.                                       *)
LEMMA InUntouched ==
    ASSUME InLists, UNCHANGED <<inLife, inList, inCount, inStatus, inBlocked, inWoken>>
    PROVE  InLists'
BY InTypes DEF InLists, OneTask, In!QueueTypeOK

LEMMA OutUntouched ==
    ASSUME OutLists, UNCHANGED <<outLife, outList, outCount, outStatus, outBlocked, outWoken>>
    PROVE  OutLists'
BY OutTypes DEF OutLists, OneTask, Out!QueueTypeOK

(* A step that only changes who waits.                                     *)
LEMMA InWaits ==
    ASSUME InLists, UNCHANGED <<inLife, inList, inCount, inStatus>>,
           inBlocked' \in [{"INPUT_PORT", "OUTPUT_PORT"} -> SUBSET Users],
           inWoken' \in [{"INPUT_PORT", "OUTPUT_PORT"} -> SUBSET Users]
    PROVE  InLists'
BY DEF InLists, OneTask, In!QueueTypeOK, In!PortStatuses

LEMMA OutWaits ==
    ASSUME OutLists, UNCHANGED <<outLife, outList, outCount, outStatus>>,
           outBlocked' \in [{"INPUT_PORT", "OUTPUT_PORT"} -> SUBSET Users],
           outWoken' \in [{"INPUT_PORT", "OUTPUT_PORT"} -> SUBSET Users]
    PROVE  OutLists'
BY DEF OutLists, OneTask, Out!QueueTypeOK, Out!PortStatuses

-----------------------------------------------------------------------------
(* The types of everything but the two queues.                             *)
OwnTypes ==
    /\ inFrame \in Frames \union {None} /\ outPacket \in Frames \union {None}
    /\ putAt \in PutSteps /\ put \in 0 .. FrameCount /\ released \subseteq Frames
    /\ getAt \in GetSteps /\ got \in Frames \union {None}
    /\ clearAt \in ClearSteps /\ threadStatus \in {"UNINITED", "RUNNING", "STOPPING"}
    /\ encAt \in EncSteps /\ live \subseteq Frames
    /\ encFrame \in Frames \union {None} /\ encPacket \in Frames \union {None}

Control == OwnTypes /\ TasksInHand /\ LifeCycle /\ Waiting
Data    == FramesAccounted /\ PacketsAccounted

LEMMA Parts == IInv <=> InLists /\ OutLists /\ Control /\ Data
BY DEF IInv, TypeOK, QueuesHoldOne, InLists, OutLists, OwnTypes, Control, Data

LEMMA PartsNext == IInv' <=> InLists' /\ OutLists' /\ Control' /\ Data'
BY DEF IInv, TypeOK, QueuesHoldOne, InLists, OutLists, OwnTypes, Control, Data

(* mpp_task_queue_setup and mpp_task_queue_deinit.                         *)
LEMMA InSetup ==
    ASSUME InLists, In!Setup
    PROVE  /\ InLists' /\ inLife = "inited" /\ inLife' = "ready"
           /\ UNCHANGED <<inStatus, inBlocked, inWoken>>
<1>1. /\ inLife = "inited" /\ inLife' = "ready" /\ UNCHANGED <<inStatus, inBlocked, inWoken>>
      /\ inList' = [inList EXCEPT !["INPUT_PORT"] = @ \o [i \in {1} |-> i]]
      /\ inCount' = [inCount EXCEPT !["INPUT_PORT"] = @ + 1]
  BY TheTask DEF In!Setup
<1>2. /\ inList \in [AllStatuses -> Seq({1})] /\ inCount \in [AllStatuses -> Nat]
      /\ inStatus \in [{1} -> AllStatuses] /\ inStatus[1] = "INPUT_PORT"
      /\ inBlocked \in [{"INPUT_PORT", "OUTPUT_PORT"} -> SUBSET Users]
      /\ inWoken \in [{"INPUT_PORT", "OUTPUT_PORT"} -> SUBSET Users]
      /\ \A s \in AllStatuses : inList[s] = <<>> /\ inCount[s] = 0
  BY <1>1, InTypes, StatusNames DEF InLists, OneTask
<1>3. [i \in {1} |-> i] = <<1>> /\ <<>> \o <<1>> = <<1>> /\ <<1>> \in Seq({1})
  OBVIOUS
<1>4. inList' = [inList EXCEPT !["INPUT_PORT"] = <<1>>] /\ inCount' = [inCount EXCEPT !["INPUT_PORT"] = 1]
  <2>1. inList["INPUT_PORT"] = <<>> /\ inCount["INPUT_PORT"] = 0
    BY <1>2 DEF AllStatuses
  <2>2. /\ inList' = [inList EXCEPT !["INPUT_PORT"] = inList["INPUT_PORT"] \o [i \in {1} |-> i]]
        /\ inCount' = [inCount EXCEPT !["INPUT_PORT"] = inCount["INPUT_PORT"] + 1]
    BY <1>1
  <2>3. inList["INPUT_PORT"] \o [i \in {1} |-> i] = <<1>> /\ inCount["INPUT_PORT"] + 1 = 1
    BY <2>1, <1>3
  <2> QED BY <2>2, <2>3
<1>5. \A s \in AllStatuses : /\ inList'[s] = IF s = "INPUT_PORT" THEN <<1>> ELSE <<>>
                            /\ inCount'[s] = IF s = "INPUT_PORT" THEN 1 ELSE 0
  BY <1>2, <1>4
<1>6. OneTask(inLife, inList, inCount, inStatus)'
  BY <1>1, <1>2, <1>5, StatusNames DEF OneTask
<1>7. inList' \in [AllStatuses -> Seq({1})] /\ inCount' \in [AllStatuses -> Nat]
  BY <1>2, <1>3, <1>4
<1>8. In!QueueTypeOK'
  BY <1>1, <1>2, <1>7, StatusNames, TheTask DEF In!QueueTypeOK, In!PortStatuses
<1> QED BY <1>1, <1>6, <1>8 DEF InLists

LEMMA InDeinit ==
    ASSUME InLists, inLife # "inited", In!Deinit
    PROVE  InLists' /\ inLife' = "freed" /\ UNCHANGED <<inStatus, inBlocked, inWoken>>
BY DEF InLists, OneTask, In!Deinit, In!QueueTypeOK

(* mpp_task_queue_setup and mpp_task_queue_deinit.                         *)
LEMMA OutSetup ==
    ASSUME OutLists, Out!Setup
    PROVE  /\ OutLists' /\ outLife = "inited" /\ outLife' = "ready"
           /\ UNCHANGED <<outStatus, outBlocked, outWoken>>
<1>1. /\ outLife = "inited" /\ outLife' = "ready" /\ UNCHANGED <<outStatus, outBlocked, outWoken>>
      /\ outList' = [outList EXCEPT !["INPUT_PORT"] = @ \o [i \in {1} |-> i]]
      /\ outCount' = [outCount EXCEPT !["INPUT_PORT"] = @ + 1]
  BY TheTask DEF Out!Setup
<1>2. /\ outList \in [AllStatuses -> Seq({1})] /\ outCount \in [AllStatuses -> Nat]
      /\ outStatus \in [{1} -> AllStatuses] /\ outStatus[1] = "INPUT_PORT"
      /\ outBlocked \in [{"INPUT_PORT", "OUTPUT_PORT"} -> SUBSET Users]
      /\ outWoken \in [{"INPUT_PORT", "OUTPUT_PORT"} -> SUBSET Users]
      /\ \A s \in AllStatuses : outList[s] = <<>> /\ outCount[s] = 0
  BY <1>1, OutTypes, StatusNames DEF OutLists, OneTask
<1>3. [i \in {1} |-> i] = <<1>> /\ <<>> \o <<1>> = <<1>> /\ <<1>> \in Seq({1})
  OBVIOUS
<1>4. outList' = [outList EXCEPT !["INPUT_PORT"] = <<1>>] /\ outCount' = [outCount EXCEPT !["INPUT_PORT"] = 1]
  <2>1. outList["INPUT_PORT"] = <<>> /\ outCount["INPUT_PORT"] = 0
    BY <1>2 DEF AllStatuses
  <2>2. /\ outList' = [outList EXCEPT !["INPUT_PORT"] = outList["INPUT_PORT"] \o [i \in {1} |-> i]]
        /\ outCount' = [outCount EXCEPT !["INPUT_PORT"] = outCount["INPUT_PORT"] + 1]
    BY <1>1
  <2>3. outList["INPUT_PORT"] \o [i \in {1} |-> i] = <<1>> /\ outCount["INPUT_PORT"] + 1 = 1
    BY <2>1, <1>3
  <2> QED BY <2>2, <2>3
<1>5. \A s \in AllStatuses : /\ outList'[s] = IF s = "INPUT_PORT" THEN <<1>> ELSE <<>>
                            /\ outCount'[s] = IF s = "INPUT_PORT" THEN 1 ELSE 0
  BY <1>2, <1>4
<1>6. OneTask(outLife, outList, outCount, outStatus)'
  BY <1>1, <1>2, <1>5, StatusNames DEF OneTask
<1>7. outList' \in [AllStatuses -> Seq({1})] /\ outCount' \in [AllStatuses -> Nat]
  BY <1>2, <1>3, <1>4
<1>8. Out!QueueTypeOK'
  BY <1>1, <1>2, <1>7, StatusNames, TheTask DEF Out!QueueTypeOK, Out!PortStatuses
<1> QED BY <1>1, <1>6, <1>8 DEF OutLists

LEMMA OutDeinit ==
    ASSUME OutLists, outLife # "inited", Out!Deinit
    PROVE  OutLists' /\ outLife' = "freed" /\ UNCHANGED <<outStatus, outBlocked, outWoken>>
BY DEF OutLists, OneTask, Out!Deinit, Out!QueueTypeOK

-----------------------------------------------------------------------------
(***************************************************************************)
(* Each action keeps the inductive invariant.  Each lemma first says what  *)
(* the step does to the two queues, then goes through the other parts.     *)
(***************************************************************************)
USE DEF Frames, None, PutSteps, GetSteps, ClearSteps, EncSteps, PutGoes, GetGoes, EncGoes,
        InUse, EncWoken, inVars, outVars, putVars, getVars, encVars

(* Both queues get their one task and the control thread starts.           *)
LEMMA InitContextStep == ASSUME IInv, InitContext PROVE IInv'
<1> /\ InLists /\ OutLists
    /\ OwnTypes /\ TasksInHand /\ LifeCycle /\ Waiting /\ FramesAccounted /\ PacketsAccounted
  BY Parts DEF Control, Data
<1>1. /\ InLists' /\ inLife = "inited" /\ inLife' = "ready"
      /\ UNCHANGED <<inStatus, inBlocked, inWoken>>
  BY InSetup DEF InitContext
<1>2. /\ OutLists' /\ outLife = "inited" /\ outLife' = "ready"
      /\ UNCHANGED <<outStatus, outBlocked, outWoken>>
  BY OutSetup DEF InitContext
<1>3. OwnTypes'
  BY <1>1, <1>2, FrameCountAssumption DEF InitContext, OwnTypes, LifeCycle, FramesAccounted
<1>4. TasksInHand'
  BY <1>1, <1>2 DEF InitContext, TasksInHand, LifeCycle, OwnTypes
<1>5. LifeCycle'
  BY <1>1, <1>2 DEF InitContext, LifeCycle, TasksInHand, OwnTypes
<1>6. Waiting'
  BY <1>1, <1>2 DEF InitContext, Waiting, TasksInHand, LifeCycle, OwnTypes
<1>7. FramesAccounted'
  BY <1>1, <1>2 DEF InitContext, FramesAccounted, TasksInHand, LifeCycle, PacketsAccounted,
     OwnTypes
<1>8. PacketsAccounted'
  BY <1>1, <1>2, FrameCountAssumption DEF InitContext, PacketsAccounted, TasksInHand, LifeCycle, FramesAccounted,
     ToEncode, Latest, OwnTypes
<1> QED BY <1>1, <1>2, <1>3, <1>4, <1>5, <1>6, <1>7, <1>8, PartsNext DEF Control, Data

(* put_frame finds the input task.                                         *)
LEMMA PutFindsTaskStep == ASSUME IInv, PutFindsTask PROVE IInv'
<1> /\ InLists /\ OutLists
    /\ OwnTypes /\ TasksInHand /\ LifeCycle /\ Waiting /\ FramesAccounted /\ PacketsAccounted
  BY Parts DEF Control, Data
<1>1. /\ InLists' /\ inLife = "ready" /\ inStatus[1] = "INPUT_PORT"
      /\ UNCHANGED <<inLife, inList, inCount, inStatus, inBlocked, inWoken>>
  <2>1. /\ inLife = "ready" /\ In!HasTask("input") /\ UNCHANGED <<inLife, inList, inCount, inStatus, inBlocked, inWoken>>
    BY DEF PutFindsTask, In!PollHit, In!queueVars
  <2> QED BY <2>1, InUntouched, InHasTask DEF Curr
<1>2. OutLists' /\ UNCHANGED <<outLife, outList, outCount, outStatus, outBlocked, outWoken>>
  BY OutUntouched DEF PutFindsTask, outVars
<1>3. OwnTypes'
  BY <1>1, <1>2, FrameCountAssumption DEF PutFindsTask, OwnTypes, LifeCycle, FramesAccounted
<1>4. TasksInHand'
  BY <1>1, <1>2 DEF PutFindsTask, TasksInHand, LifeCycle, OwnTypes
<1>5. LifeCycle'
  BY <1>1, <1>2 DEF PutFindsTask, LifeCycle, TasksInHand, OwnTypes
<1>6. Waiting'
  BY <1>1, <1>2 DEF PutFindsTask, Waiting, TasksInHand, LifeCycle, OwnTypes
<1>7. FramesAccounted'
  BY <1>1, <1>2 DEF PutFindsTask, FramesAccounted, TasksInHand, LifeCycle, PacketsAccounted,
     OwnTypes
<1>8. PacketsAccounted'
  BY <1>1, <1>2, FrameCountAssumption DEF PutFindsTask, PacketsAccounted, TasksInHand, LifeCycle, FramesAccounted,
     ToEncode, Latest, OwnTypes
<1> QED BY <1>1, <1>2, <1>3, <1>4, <1>5, <1>6, <1>7, <1>8, PartsNext DEF Control, Data

(* put_frame waits for it.                                                 *)
LEMMA PutWaitsStep == ASSUME IInv, PutWaits PROVE IInv'
<1> /\ InLists /\ OutLists
    /\ OwnTypes /\ TasksInHand /\ LifeCycle /\ Waiting /\ FramesAccounted /\ PacketsAccounted
  BY Parts DEF Control, Data
<1>1. /\ InLists' /\ inLife = "ready" /\ inStatus[1] # "INPUT_PORT"
      /\ UNCHANGED <<inLife, inStatus, inWoken>>
      /\ inBlocked'["INPUT_PORT"] = inBlocked["INPUT_PORT"] \union {"put"}
      /\ inBlocked'["OUTPUT_PORT"] = inBlocked["OUTPUT_PORT"]
  <2>1. /\ inLife = "ready" /\ ~In!HasTask("input")
        /\ UNCHANGED <<inLife, inList, inCount, inStatus, inWoken>>
        /\ inBlocked' = [inBlocked EXCEPT !["INPUT_PORT"] = @ \union {"put"}]
    BY DEF PutWaits, In!PollWait, In!StatusCurr
  <2>2. inStatus[1] # "INPUT_PORT"
    BY <2>1, InHasTask DEF Curr
  <2> QED BY <2>1, <2>2, InTypes, InWaits DEF InLists, Users
<1>2. OutLists' /\ UNCHANGED <<outLife, outList, outCount, outStatus, outBlocked, outWoken>>
  BY OutUntouched DEF PutWaits, outVars
<1>3. OwnTypes'
  BY <1>1, <1>2, FrameCountAssumption DEF PutWaits, OwnTypes, LifeCycle, FramesAccounted
<1>4. TasksInHand'
  BY <1>1, <1>2 DEF PutWaits, TasksInHand, LifeCycle, OwnTypes
<1>5. LifeCycle'
  BY <1>1, <1>2 DEF PutWaits, LifeCycle, TasksInHand, OwnTypes
<1>6. Waiting'
  BY <1>1, <1>2 DEF PutWaits, Waiting, TasksInHand, LifeCycle, OwnTypes
<1>7. FramesAccounted'
  BY <1>1, <1>2 DEF PutWaits, FramesAccounted, TasksInHand, LifeCycle, PacketsAccounted,
     OwnTypes
<1>8. PacketsAccounted'
  BY <1>1, <1>2, FrameCountAssumption DEF PutWaits, PacketsAccounted, TasksInHand, LifeCycle, FramesAccounted,
     ToEncode, Latest, OwnTypes
<1> QED BY <1>1, <1>2, <1>3, <1>4, <1>5, <1>6, <1>7, <1>8, PartsNext DEF Control, Data

(* Its wait ends: the task is on the port, or it gives up.                 *)
LEMMA PutWakesStep == ASSUME IInv, PutWakes PROVE IInv'
<1> /\ InLists /\ OutLists
    /\ OwnTypes /\ TasksInHand /\ LifeCycle /\ Waiting /\ FramesAccounted /\ PacketsAccounted
  BY Parts DEF Control, Data
<1>1. /\ InLists' /\ "put" \in inWoken["INPUT_PORT"]
      /\ UNCHANGED <<inLife, inStatus, inBlocked>>
      /\ inWoken'["INPUT_PORT"] = inWoken["INPUT_PORT"] \ {"put"}
      /\ inWoken'["OUTPUT_PORT"] = inWoken["OUTPUT_PORT"]
  <2>1. /\ "put" \in inWoken["INPUT_PORT"]
        /\ UNCHANGED <<inLife, inList, inCount, inStatus, inBlocked>>
        /\ inWoken' = [inWoken EXCEPT !["INPUT_PORT"] = @ \ {"put"}]
    BY DEF PutWakes, In!PollWake, In!StatusCurr
  <2> QED BY <2>1, InTypes, InWaits DEF InLists
<1>2. OutLists' /\ UNCHANGED <<outLife, outList, outCount, outStatus, outBlocked, outWoken>>
  BY OutUntouched DEF PutWakes, outVars
<1>3. In!HasTask("input") <=> inStatus[1] = "INPUT_PORT"
  BY InHasTask DEF PutWakes, LifeCycle, Curr
<1>4. OwnTypes'
  BY <1>1, <1>2, <1>3, FrameCountAssumption DEF PutWakes, OwnTypes, LifeCycle, FramesAccounted
<1>5. TasksInHand'
  BY <1>1, <1>2, <1>3 DEF PutWakes, TasksInHand, LifeCycle, OwnTypes
<1>6. LifeCycle'
  BY <1>1, <1>2, <1>3 DEF PutWakes, LifeCycle, TasksInHand, OwnTypes
<1>7. Waiting'
  BY <1>1, <1>2, <1>3 DEF PutWakes, Waiting, TasksInHand, LifeCycle, OwnTypes
<1>8. FramesAccounted'
  BY <1>1, <1>2, <1>3 DEF PutWakes, FramesAccounted, TasksInHand, LifeCycle, PacketsAccounted,
     OwnTypes
<1>9. PacketsAccounted'
  BY <1>1, <1>2, <1>3, FrameCountAssumption DEF PutWakes, PacketsAccounted, TasksInHand, LifeCycle, FramesAccounted,
     ToEncode, Latest, OwnTypes
<1> QED BY <1>1, <1>2, <1>4, <1>5, <1>6, <1>7, <1>8, <1>9, PartsNext DEF Control, Data

(* It has the task in hand.                                                *)
LEMMA PutTakesStep == ASSUME IInv, PutTakes PROVE IInv'
<1> /\ InLists /\ OutLists
    /\ OwnTypes /\ TasksInHand /\ LifeCycle /\ Waiting /\ FramesAccounted /\ PacketsAccounted
  BY Parts DEF Control, Data
<1>1. /\ inLife = "ready" /\ inStatus[1] = "INPUT_PORT"
      /\ InLists' /\ inStatus'[1] = "INPUT_HOLD"
      /\ UNCHANGED <<inLife, inBlocked, inWoken>>
  BY InDequeue DEF PutTakes, Curr, Hold
<1>2. OutLists' /\ UNCHANGED <<outLife, outList, outCount, outStatus, outBlocked, outWoken>>
  BY OutUntouched DEF PutTakes, outVars
<1>3. OwnTypes'
  BY <1>1, <1>2, FrameCountAssumption DEF PutTakes, OwnTypes, LifeCycle, FramesAccounted
<1>4. TasksInHand'
  BY <1>1, <1>2 DEF PutTakes, TasksInHand, LifeCycle, OwnTypes
<1>5. LifeCycle'
  BY <1>1, <1>2 DEF PutTakes, LifeCycle, TasksInHand, OwnTypes
<1>6. Waiting'
  BY <1>1, <1>2 DEF PutTakes, Waiting, TasksInHand, LifeCycle, OwnTypes
<1>7. FramesAccounted'
  BY <1>1, <1>2 DEF PutTakes, FramesAccounted, TasksInHand, LifeCycle, PacketsAccounted,
     OwnTypes
<1>8. PacketsAccounted'
  BY <1>1, <1>2, FrameCountAssumption DEF PutTakes, PacketsAccounted, TasksInHand, LifeCycle, FramesAccounted,
     ToEncode, Latest, OwnTypes
<1> QED BY <1>1, <1>2, <1>3, <1>4, <1>5, <1>6, <1>7, <1>8, PartsNext DEF Control, Data

(* The next frame goes into the task, and all before it are released.      *)
LEMMA PutEnqueuesStep == ASSUME IInv, PutEnqueues PROVE IInv'
<1> /\ InLists /\ OutLists
    /\ OwnTypes /\ TasksInHand /\ LifeCycle /\ Waiting /\ FramesAccounted /\ PacketsAccounted
  BY Parts DEF Control, Data
<1>1. /\ inStatus[1] = "INPUT_HOLD"
      /\ InLists' /\ inStatus'[1] = "OUTPUT_PORT" /\ inLife' = inLife
      /\ inBlocked'["OUTPUT_PORT"] \union inWoken'["OUTPUT_PORT"] = inBlocked["OUTPUT_PORT"] \union inWoken["OUTPUT_PORT"]
      /\ inBlocked["OUTPUT_PORT"] \intersect inWoken["OUTPUT_PORT"] = {} =>
            inBlocked'["OUTPUT_PORT"] \intersect inWoken'["OUTPUT_PORT"] = {}
      /\ inBlocked'["INPUT_PORT"] = inBlocked["INPUT_PORT"]
      /\ inWoken'["INPUT_PORT"] = inWoken["INPUT_PORT"]
  <2>1. inStatus[1] = "INPUT_HOLD" /\ In!Enqueue("input", 1)
    BY DEF PutEnqueues, PutGoes, GetGoes, EncGoes, Control, TasksInHand
  <2> QED BY <2>1, InEnqueue DEF Given, Hold
<1>2. OutLists' /\ UNCHANGED <<outLife, outList, outCount, outStatus, outBlocked, outWoken>>
  BY OutUntouched DEF PutEnqueues, outVars
<1>3. OwnTypes'
  BY <1>1, <1>2, FrameCountAssumption DEF PutEnqueues, OwnTypes, LifeCycle, FramesAccounted
<1>4. TasksInHand'
  BY <1>1, <1>2 DEF PutEnqueues, TasksInHand, LifeCycle, OwnTypes
<1>5. LifeCycle'
  BY <1>1, <1>2 DEF PutEnqueues, LifeCycle, TasksInHand, OwnTypes
<1>6. Waiting'
  BY <1>1, <1>2 DEF PutEnqueues, Waiting, TasksInHand, LifeCycle, OwnTypes
<1>7. FramesAccounted'
  BY <1>1, <1>2 DEF PutEnqueues, FramesAccounted, TasksInHand, LifeCycle, PacketsAccounted,
     OwnTypes
<1>8. PacketsAccounted'
  BY <1>1, <1>2, FrameCountAssumption DEF PutEnqueues, PacketsAccounted, TasksInHand, LifeCycle, FramesAccounted,
     ToEncode, Latest, OwnTypes
<1> QED BY <1>1, <1>2, <1>3, <1>4, <1>5, <1>6, <1>7, <1>8, PartsNext DEF Control, Data

(* The task is back at once, so its frame is encoded.                      *)
LEMMA PutFindsItBackStep == ASSUME IInv, PutFindsItBack PROVE IInv'
<1> /\ InLists /\ OutLists
    /\ OwnTypes /\ TasksInHand /\ LifeCycle /\ Waiting /\ FramesAccounted /\ PacketsAccounted
  BY Parts DEF Control, Data
<1>1. /\ InLists' /\ inLife = "ready" /\ inStatus[1] = "INPUT_PORT"
      /\ UNCHANGED <<inLife, inList, inCount, inStatus, inBlocked, inWoken>>
  <2>1. /\ inLife = "ready" /\ In!HasTask("input") /\ UNCHANGED <<inLife, inList, inCount, inStatus, inBlocked, inWoken>>
    BY DEF PutFindsItBack, In!PollHit, In!queueVars
  <2> QED BY <2>1, InUntouched, InHasTask DEF Curr
<1>2. OutLists' /\ UNCHANGED <<outLife, outList, outCount, outStatus, outBlocked, outWoken>>
  BY OutUntouched DEF PutFindsItBack, outVars
<1>3. OwnTypes'
  BY <1>1, <1>2, FrameCountAssumption DEF PutFindsItBack, OwnTypes, LifeCycle, FramesAccounted
<1>4. TasksInHand'
  BY <1>1, <1>2 DEF PutFindsItBack, TasksInHand, LifeCycle, OwnTypes
<1>5. LifeCycle'
  BY <1>1, <1>2 DEF PutFindsItBack, LifeCycle, TasksInHand, OwnTypes
<1>6. Waiting'
  BY <1>1, <1>2 DEF PutFindsItBack, Waiting, TasksInHand, LifeCycle, OwnTypes
<1>7. FramesAccounted'
  BY <1>1, <1>2 DEF PutFindsItBack, FramesAccounted, TasksInHand, LifeCycle, PacketsAccounted,
     OwnTypes
<1>8. PacketsAccounted'
  BY <1>1, <1>2, FrameCountAssumption DEF PutFindsItBack, PacketsAccounted, TasksInHand, LifeCycle, FramesAccounted,
     ToEncode, Latest, OwnTypes
<1> QED BY <1>1, <1>2, <1>3, <1>4, <1>5, <1>6, <1>7, <1>8, PartsNext DEF Control, Data

(* It waits for the task to come back.                                     *)
LEMMA PutWaitsForItStep == ASSUME IInv, PutWaitsForIt PROVE IInv'
<1> /\ InLists /\ OutLists
    /\ OwnTypes /\ TasksInHand /\ LifeCycle /\ Waiting /\ FramesAccounted /\ PacketsAccounted
  BY Parts DEF Control, Data
<1>1. /\ InLists' /\ inLife = "ready" /\ inStatus[1] # "INPUT_PORT"
      /\ UNCHANGED <<inLife, inStatus, inWoken>>
      /\ inBlocked'["INPUT_PORT"] = inBlocked["INPUT_PORT"] \union {"put"}
      /\ inBlocked'["OUTPUT_PORT"] = inBlocked["OUTPUT_PORT"]
  <2>1. /\ inLife = "ready" /\ ~In!HasTask("input")
        /\ UNCHANGED <<inLife, inList, inCount, inStatus, inWoken>>
        /\ inBlocked' = [inBlocked EXCEPT !["INPUT_PORT"] = @ \union {"put"}]
    BY DEF PutWaitsForIt, In!PollWait, In!StatusCurr
  <2>2. inStatus[1] # "INPUT_PORT"
    BY <2>1, InHasTask DEF Curr
  <2> QED BY <2>1, <2>2, InTypes, InWaits DEF InLists, Users
<1>2. OutLists' /\ UNCHANGED <<outLife, outList, outCount, outStatus, outBlocked, outWoken>>
  BY OutUntouched DEF PutWaitsForIt, outVars
<1>3. OwnTypes'
  BY <1>1, <1>2, FrameCountAssumption DEF PutWaitsForIt, OwnTypes, LifeCycle, FramesAccounted
<1>4. TasksInHand'
  BY <1>1, <1>2 DEF PutWaitsForIt, TasksInHand, LifeCycle, OwnTypes
<1>5. LifeCycle'
  BY <1>1, <1>2 DEF PutWaitsForIt, LifeCycle, TasksInHand, OwnTypes
<1>6. Waiting'
  BY <1>1, <1>2 DEF PutWaitsForIt, Waiting, TasksInHand, LifeCycle, OwnTypes
<1>7. FramesAccounted'
  BY <1>1, <1>2 DEF PutWaitsForIt, FramesAccounted, TasksInHand, LifeCycle, PacketsAccounted,
     OwnTypes
<1>8. PacketsAccounted'
  BY <1>1, <1>2, FrameCountAssumption DEF PutWaitsForIt, PacketsAccounted, TasksInHand, LifeCycle, FramesAccounted,
     ToEncode, Latest, OwnTypes
<1> QED BY <1>1, <1>2, <1>3, <1>4, <1>5, <1>6, <1>7, <1>8, PartsNext DEF Control, Data

(* It is woken with the task on the port.                                  *)
LEMMA PutWakesWithItStep == ASSUME IInv, PutWakesWithIt PROVE IInv'
<1> /\ InLists /\ OutLists
    /\ OwnTypes /\ TasksInHand /\ LifeCycle /\ Waiting /\ FramesAccounted /\ PacketsAccounted
  BY Parts DEF Control, Data
<1>1. /\ InLists' /\ "put" \in inWoken["INPUT_PORT"]
      /\ UNCHANGED <<inLife, inStatus, inBlocked>>
      /\ inWoken'["INPUT_PORT"] = inWoken["INPUT_PORT"] \ {"put"}
      /\ inWoken'["OUTPUT_PORT"] = inWoken["OUTPUT_PORT"]
  <2>1. /\ "put" \in inWoken["INPUT_PORT"]
        /\ UNCHANGED <<inLife, inList, inCount, inStatus, inBlocked>>
        /\ inWoken' = [inWoken EXCEPT !["INPUT_PORT"] = @ \ {"put"}]
    BY DEF PutWakesWithIt, In!PollWake, In!StatusCurr
  <2> QED BY <2>1, InTypes, InWaits DEF InLists
<1>2. OutLists' /\ UNCHANGED <<outLife, outList, outCount, outStatus, outBlocked, outWoken>>
  BY OutUntouched DEF PutWakesWithIt, outVars
<1>3. In!HasTask("input") <=> inStatus[1] = "INPUT_PORT"
  BY InHasTask DEF PutWakesWithIt, LifeCycle, Curr
<1>4. inStatus[1] = "INPUT_PORT"
  BY <1>1 DEF Waiting
<1>5. OwnTypes'
  BY <1>1, <1>2, <1>3, <1>4, FrameCountAssumption DEF PutWakesWithIt, OwnTypes, LifeCycle, FramesAccounted
<1>6. TasksInHand'
  BY <1>1, <1>2, <1>3, <1>4 DEF PutWakesWithIt, TasksInHand, LifeCycle, OwnTypes
<1>7. LifeCycle'
  BY <1>1, <1>2, <1>3, <1>4 DEF PutWakesWithIt, LifeCycle, TasksInHand, OwnTypes
<1>8. Waiting'
  BY <1>1, <1>2, <1>3, <1>4 DEF PutWakesWithIt, Waiting, TasksInHand, LifeCycle, OwnTypes
<1>9. FramesAccounted'
  BY <1>1, <1>2, <1>3, <1>4 DEF PutWakesWithIt, FramesAccounted, TasksInHand, LifeCycle, PacketsAccounted,
     OwnTypes
<1>10. PacketsAccounted'
  BY <1>1, <1>2, <1>3, <1>4, FrameCountAssumption DEF PutWakesWithIt, PacketsAccounted, TasksInHand, LifeCycle, FramesAccounted,
     ToEncode, Latest, OwnTypes
<1> QED BY <1>1, <1>2, <1>5, <1>6, <1>7, <1>8, <1>9, <1>10, PartsNext DEF Control, Data

(* The frame that came back is the last one put.                           *)
LEMMA PutReleasesStep == ASSUME IInv, PutReleases PROVE IInv'
<1> /\ InLists /\ OutLists
    /\ OwnTypes /\ TasksInHand /\ LifeCycle /\ Waiting /\ FramesAccounted /\ PacketsAccounted
  BY Parts DEF Control, Data
<1>1. /\ inLife = "ready" /\ inStatus[1] = "INPUT_PORT"
      /\ InLists' /\ inStatus'[1] = "INPUT_HOLD"
      /\ UNCHANGED <<inLife, inBlocked, inWoken>>
  BY InDequeue DEF PutReleases, Curr, Hold
<1>2. OutLists' /\ UNCHANGED <<outLife, outList, outCount, outStatus, outBlocked, outWoken>>
  BY OutUntouched DEF PutReleases, outVars
<1>3. OwnTypes'
  BY <1>1, <1>2, FrameCountAssumption DEF PutReleases, OwnTypes, LifeCycle, FramesAccounted
<1>4. TasksInHand'
  BY <1>1, <1>2 DEF PutReleases, TasksInHand, LifeCycle, OwnTypes
<1>5. LifeCycle'
  BY <1>1, <1>2 DEF PutReleases, LifeCycle, TasksInHand, OwnTypes
<1>6. Waiting'
  BY <1>1, <1>2 DEF PutReleases, Waiting, TasksInHand, LifeCycle, OwnTypes
<1>7. FramesAccounted'
  BY <1>1, <1>2 DEF PutReleases, FramesAccounted, TasksInHand, LifeCycle, PacketsAccounted,
     OwnTypes
<1>8. PacketsAccounted'
  BY <1>1, <1>2, FrameCountAssumption DEF PutReleases, PacketsAccounted, TasksInHand, LifeCycle, FramesAccounted,
     ToEncode, Latest, OwnTypes
<1> QED BY <1>1, <1>2, <1>3, <1>4, <1>5, <1>6, <1>7, <1>8, PartsNext DEF Control, Data

(* The empty task holds no frame to encode.                                *)
LEMMA PutGivesEmptyStep == ASSUME IInv, PutGivesEmpty PROVE IInv'
<1> /\ InLists /\ OutLists
    /\ OwnTypes /\ TasksInHand /\ LifeCycle /\ Waiting /\ FramesAccounted /\ PacketsAccounted
  BY Parts DEF Control, Data
<1>1. /\ inStatus[1] = "INPUT_HOLD"
      /\ InLists' /\ inStatus'[1] = "OUTPUT_PORT" /\ inLife' = inLife
      /\ inBlocked'["OUTPUT_PORT"] \union inWoken'["OUTPUT_PORT"] = inBlocked["OUTPUT_PORT"] \union inWoken["OUTPUT_PORT"]
      /\ inBlocked["OUTPUT_PORT"] \intersect inWoken["OUTPUT_PORT"] = {} =>
            inBlocked'["OUTPUT_PORT"] \intersect inWoken'["OUTPUT_PORT"] = {}
      /\ inBlocked'["INPUT_PORT"] = inBlocked["INPUT_PORT"]
      /\ inWoken'["INPUT_PORT"] = inWoken["INPUT_PORT"]
  <2>1. inStatus[1] = "INPUT_HOLD" /\ In!Enqueue("input", 1)
    BY DEF PutGivesEmpty, PutGoes, GetGoes, EncGoes, Control, TasksInHand
  <2> QED BY <2>1, InEnqueue DEF Given, Hold
<1>2. OutLists' /\ UNCHANGED <<outLife, outList, outCount, outStatus, outBlocked, outWoken>>
  BY OutUntouched DEF PutGivesEmpty, outVars
<1>3. OwnTypes'
  BY <1>1, <1>2, FrameCountAssumption DEF PutGivesEmpty, OwnTypes, LifeCycle, FramesAccounted
<1>4. TasksInHand'
  BY <1>1, <1>2 DEF PutGivesEmpty, TasksInHand, LifeCycle, OwnTypes
<1>5. LifeCycle'
  BY <1>1, <1>2 DEF PutGivesEmpty, LifeCycle, TasksInHand, OwnTypes
<1>6. Waiting'
  BY <1>1, <1>2 DEF PutGivesEmpty, Waiting, TasksInHand, LifeCycle, OwnTypes
<1>7. FramesAccounted'
  BY <1>1, <1>2 DEF PutGivesEmpty, FramesAccounted, TasksInHand, LifeCycle, PacketsAccounted,
     OwnTypes
<1>8. PacketsAccounted'
  BY <1>1, <1>2, FrameCountAssumption DEF PutGivesEmpty, PacketsAccounted, TasksInHand, LifeCycle, FramesAccounted,
     ToEncode, Latest, OwnTypes
<1> QED BY <1>1, <1>2, <1>3, <1>4, <1>5, <1>6, <1>7, <1>8, PartsNext DEF Control, Data

(* get_packet finds the output task.                                       *)
LEMMA GetFindsTaskStep == ASSUME IInv, GetFindsTask PROVE IInv'
<1> /\ InLists /\ OutLists
    /\ OwnTypes /\ TasksInHand /\ LifeCycle /\ Waiting /\ FramesAccounted /\ PacketsAccounted
  BY Parts DEF Control, Data
<1>1. InLists' /\ UNCHANGED <<inLife, inList, inCount, inStatus, inBlocked, inWoken>>
  BY InUntouched DEF GetFindsTask, inVars
<1>2. /\ OutLists' /\ outLife = "ready" /\ outStatus[1] = "OUTPUT_PORT"
      /\ UNCHANGED <<outLife, outList, outCount, outStatus, outBlocked, outWoken>>
  <2>1. /\ outLife = "ready" /\ Out!HasTask("output") /\ UNCHANGED <<outLife, outList, outCount, outStatus, outBlocked, outWoken>>
    BY DEF GetFindsTask, Out!PollHit, Out!queueVars
  <2> QED BY <2>1, OutUntouched, OutHasTask DEF Curr
<1>3. OwnTypes'
  BY <1>1, <1>2, FrameCountAssumption DEF GetFindsTask, OwnTypes, LifeCycle, FramesAccounted
<1>4. TasksInHand'
  BY <1>1, <1>2 DEF GetFindsTask, TasksInHand, LifeCycle, OwnTypes
<1>5. LifeCycle'
  BY <1>1, <1>2 DEF GetFindsTask, LifeCycle, TasksInHand, OwnTypes
<1>6. Waiting'
  BY <1>1, <1>2 DEF GetFindsTask, Waiting, TasksInHand, LifeCycle, OwnTypes
<1>7. FramesAccounted'
  BY <1>1, <1>2 DEF GetFindsTask, FramesAccounted, TasksInHand, LifeCycle, PacketsAccounted,
     OwnTypes
<1>8. PacketsAccounted'
  BY <1>1, <1>2, FrameCountAssumption DEF GetFindsTask, PacketsAccounted, TasksInHand, LifeCycle, FramesAccounted,
     ToEncode, Latest, OwnTypes
<1> QED BY <1>1, <1>2, <1>3, <1>4, <1>5, <1>6, <1>7, <1>8, PartsNext DEF Control, Data

(* get_packet waits for it.                                                *)
LEMMA GetWaitsStep == ASSUME IInv, GetWaits PROVE IInv'
<1> /\ InLists /\ OutLists
    /\ OwnTypes /\ TasksInHand /\ LifeCycle /\ Waiting /\ FramesAccounted /\ PacketsAccounted
  BY Parts DEF Control, Data
<1>1. InLists' /\ UNCHANGED <<inLife, inList, inCount, inStatus, inBlocked, inWoken>>
  BY InUntouched DEF GetWaits, inVars
<1>2. /\ OutLists' /\ outLife = "ready" /\ outStatus[1] # "OUTPUT_PORT"
      /\ UNCHANGED <<outLife, outStatus, outWoken>>
      /\ outBlocked'["OUTPUT_PORT"] = outBlocked["OUTPUT_PORT"] \union {"get"}
      /\ outBlocked'["INPUT_PORT"] = outBlocked["INPUT_PORT"]
  <2>1. /\ outLife = "ready" /\ ~Out!HasTask("output")
        /\ UNCHANGED <<outLife, outList, outCount, outStatus, outWoken>>
        /\ outBlocked' = [outBlocked EXCEPT !["OUTPUT_PORT"] = @ \union {"get"}]
    BY DEF GetWaits, Out!PollWait, Out!StatusCurr
  <2>2. outStatus[1] # "OUTPUT_PORT"
    BY <2>1, OutHasTask DEF Curr
  <2> QED BY <2>1, <2>2, OutTypes, OutWaits DEF OutLists, Users
<1>3. OwnTypes'
  BY <1>1, <1>2, FrameCountAssumption DEF GetWaits, OwnTypes, LifeCycle, FramesAccounted
<1>4. TasksInHand'
  BY <1>1, <1>2 DEF GetWaits, TasksInHand, LifeCycle, OwnTypes
<1>5. LifeCycle'
  BY <1>1, <1>2 DEF GetWaits, LifeCycle, TasksInHand, OwnTypes
<1>6. Waiting'
  BY <1>1, <1>2 DEF GetWaits, Waiting, TasksInHand, LifeCycle, OwnTypes
<1>7. FramesAccounted'
  BY <1>1, <1>2 DEF GetWaits, FramesAccounted, TasksInHand, LifeCycle, PacketsAccounted,
     OwnTypes
<1>8. PacketsAccounted'
  BY <1>1, <1>2, FrameCountAssumption DEF GetWaits, PacketsAccounted, TasksInHand, LifeCycle, FramesAccounted,
     ToEncode, Latest, OwnTypes
<1> QED BY <1>1, <1>2, <1>3, <1>4, <1>5, <1>6, <1>7, <1>8, PartsNext DEF Control, Data

(* Its wait ends.                                                          *)
LEMMA GetWakesStep == ASSUME IInv, GetWakes PROVE IInv'
<1> /\ InLists /\ OutLists
    /\ OwnTypes /\ TasksInHand /\ LifeCycle /\ Waiting /\ FramesAccounted /\ PacketsAccounted
  BY Parts DEF Control, Data
<1>1. InLists' /\ UNCHANGED <<inLife, inList, inCount, inStatus, inBlocked, inWoken>>
  BY InUntouched DEF GetWakes, inVars
<1>2. /\ OutLists' /\ "get" \in outWoken["OUTPUT_PORT"]
      /\ UNCHANGED <<outLife, outStatus, outBlocked>>
      /\ outWoken'["OUTPUT_PORT"] = outWoken["OUTPUT_PORT"] \ {"get"}
      /\ outWoken'["INPUT_PORT"] = outWoken["INPUT_PORT"]
  <2>1. /\ "get" \in outWoken["OUTPUT_PORT"]
        /\ UNCHANGED <<outLife, outList, outCount, outStatus, outBlocked>>
        /\ outWoken' = [outWoken EXCEPT !["OUTPUT_PORT"] = @ \ {"get"}]
    BY DEF GetWakes, Out!PollWake, Out!StatusCurr
  <2> QED BY <2>1, OutTypes, OutWaits DEF OutLists
<1>3. Out!HasTask("output") <=> outStatus[1] = "OUTPUT_PORT"
  BY OutHasTask DEF GetWakes, LifeCycle, Curr
<1>4. OwnTypes'
  BY <1>1, <1>2, <1>3, FrameCountAssumption DEF GetWakes, OwnTypes, LifeCycle, FramesAccounted
<1>5. TasksInHand'
  BY <1>1, <1>2, <1>3 DEF GetWakes, TasksInHand, LifeCycle, OwnTypes
<1>6. LifeCycle'
  BY <1>1, <1>2, <1>3 DEF GetWakes, LifeCycle, TasksInHand, OwnTypes
<1>7. Waiting'
  BY <1>1, <1>2, <1>3 DEF GetWakes, Waiting, TasksInHand, LifeCycle, OwnTypes
<1>8. FramesAccounted'
  BY <1>1, <1>2, <1>3 DEF GetWakes, FramesAccounted, TasksInHand, LifeCycle, PacketsAccounted,
     OwnTypes
<1>9. PacketsAccounted'
  BY <1>1, <1>2, <1>3, FrameCountAssumption DEF GetWakes, PacketsAccounted, TasksInHand, LifeCycle, FramesAccounted,
     ToEncode, Latest, OwnTypes
<1> QED BY <1>1, <1>2, <1>4, <1>5, <1>6, <1>7, <1>8, <1>9, PartsNext DEF Control, Data

(* The packet it takes is the one after the last it took.                  *)
LEMMA GetTakesStep == ASSUME IInv, GetTakes PROVE IInv'
<1> /\ InLists /\ OutLists
    /\ OwnTypes /\ TasksInHand /\ LifeCycle /\ Waiting /\ FramesAccounted /\ PacketsAccounted
  BY Parts DEF Control, Data
<1>1. InLists' /\ UNCHANGED <<inLife, inList, inCount, inStatus, inBlocked, inWoken>>
  BY InUntouched DEF GetTakes, inVars
<1>2. /\ outLife = "ready" /\ outStatus[1] = "OUTPUT_PORT"
      /\ OutLists' /\ outStatus'[1] = "OUTPUT_HOLD"
      /\ UNCHANGED <<outLife, outBlocked, outWoken>>
  BY OutDequeue DEF GetTakes, Curr, Hold
<1>3. OwnTypes'
  BY <1>1, <1>2, FrameCountAssumption DEF GetTakes, OwnTypes, LifeCycle, FramesAccounted
<1>4. TasksInHand'
  BY <1>1, <1>2 DEF GetTakes, TasksInHand, LifeCycle, OwnTypes
<1>5. LifeCycle'
  BY <1>1, <1>2 DEF GetTakes, LifeCycle, TasksInHand, OwnTypes
<1>6. Waiting'
  BY <1>1, <1>2 DEF GetTakes, Waiting, TasksInHand, LifeCycle, OwnTypes
<1>7. FramesAccounted'
  BY <1>1, <1>2 DEF GetTakes, FramesAccounted, TasksInHand, LifeCycle, PacketsAccounted,
     OwnTypes
<1>8. PacketsAccounted'
  BY <1>1, <1>2, FrameCountAssumption DEF GetTakes, PacketsAccounted, TasksInHand, LifeCycle, FramesAccounted,
     ToEncode, Latest, OwnTypes
<1> QED BY <1>1, <1>2, <1>3, <1>4, <1>5, <1>6, <1>7, <1>8, PartsNext DEF Control, Data

(* The output task goes back empty.                                        *)
LEMMA GetGivesStep == ASSUME IInv, GetGives PROVE IInv'
<1> /\ InLists /\ OutLists
    /\ OwnTypes /\ TasksInHand /\ LifeCycle /\ Waiting /\ FramesAccounted /\ PacketsAccounted
  BY Parts DEF Control, Data
<1>1. InLists' /\ UNCHANGED <<inLife, inList, inCount, inStatus, inBlocked, inWoken>>
  BY InUntouched DEF GetGives, inVars
<1>2. /\ outStatus[1] = "OUTPUT_HOLD"
      /\ OutLists' /\ outStatus'[1] = "INPUT_PORT" /\ outLife' = outLife
      /\ outBlocked'["INPUT_PORT"] \union outWoken'["INPUT_PORT"] = outBlocked["INPUT_PORT"] \union outWoken["INPUT_PORT"]
      /\ outBlocked["INPUT_PORT"] \intersect outWoken["INPUT_PORT"] = {} =>
            outBlocked'["INPUT_PORT"] \intersect outWoken'["INPUT_PORT"] = {}
      /\ outBlocked'["OUTPUT_PORT"] = outBlocked["OUTPUT_PORT"]
      /\ outWoken'["OUTPUT_PORT"] = outWoken["OUTPUT_PORT"]
  <2>1. outStatus[1] = "OUTPUT_HOLD" /\ Out!Enqueue("output", 1)
    BY DEF GetGives, PutGoes, GetGoes, EncGoes, Control, TasksInHand
  <2> QED BY <2>1, OutEnqueue DEF Given, Hold
<1>3. OwnTypes'
  BY <1>1, <1>2, FrameCountAssumption DEF GetGives, OwnTypes, LifeCycle, FramesAccounted
<1>4. TasksInHand'
  BY <1>1, <1>2 DEF GetGives, TasksInHand, LifeCycle, OwnTypes
<1>5. LifeCycle'
  BY <1>1, <1>2 DEF GetGives, LifeCycle, TasksInHand, OwnTypes
<1>6. Waiting'
  BY <1>1, <1>2 DEF GetGives, Waiting, TasksInHand, LifeCycle, OwnTypes
<1>7. FramesAccounted'
  BY <1>1, <1>2 DEF GetGives, FramesAccounted, TasksInHand, LifeCycle, PacketsAccounted,
     OwnTypes
<1>8. PacketsAccounted'
  BY <1>1, <1>2, FrameCountAssumption DEF GetGives, PacketsAccounted, TasksInHand, LifeCycle, FramesAccounted,
     ToEncode, Latest, OwnTypes
<1> QED BY <1>1, <1>2, <1>3, <1>4, <1>5, <1>6, <1>7, <1>8, PartsNext DEF Control, Data

(* The control thread looks at its status.                                 *)
LEMMA EncLoopsStep == ASSUME IInv, EncLoops PROVE IInv'
<1> /\ InLists /\ OutLists
    /\ OwnTypes /\ TasksInHand /\ LifeCycle /\ Waiting /\ FramesAccounted /\ PacketsAccounted
  BY Parts DEF Control, Data
<1>1. InLists' /\ UNCHANGED <<inLife, inList, inCount, inStatus, inBlocked, inWoken>>
  BY InUntouched DEF EncLoops, inVars
<1>2. OutLists' /\ UNCHANGED <<outLife, outList, outCount, outStatus, outBlocked, outWoken>>
  BY OutUntouched DEF EncLoops, outVars
<1>3. OwnTypes'
  BY <1>1, <1>2, FrameCountAssumption DEF EncLoops, OwnTypes, LifeCycle, FramesAccounted
<1>4. TasksInHand'
  BY <1>1, <1>2 DEF EncLoops, TasksInHand, LifeCycle, OwnTypes
<1>5. LifeCycle'
  BY <1>1, <1>2 DEF EncLoops, LifeCycle, TasksInHand, OwnTypes
<1>6. Waiting'
  BY <1>1, <1>2 DEF EncLoops, Waiting, TasksInHand, LifeCycle, OwnTypes
<1>7. FramesAccounted'
  BY <1>1, <1>2 DEF EncLoops, FramesAccounted, TasksInHand, LifeCycle, PacketsAccounted,
     OwnTypes
<1>8. PacketsAccounted'
  BY <1>1, <1>2, FrameCountAssumption DEF EncLoops, PacketsAccounted, TasksInHand, LifeCycle, FramesAccounted,
     ToEncode, Latest, OwnTypes
<1> QED BY <1>1, <1>2, <1>3, <1>4, <1>5, <1>6, <1>7, <1>8, PartsNext DEF Control, Data

(* It finds no input task.                                                 *)
LEMMA EncSleepsStep == ASSUME IInv, EncSleeps PROVE IInv'
<1> /\ InLists /\ OutLists
    /\ OwnTypes /\ TasksInHand /\ LifeCycle /\ Waiting /\ FramesAccounted /\ PacketsAccounted
  BY Parts DEF Control, Data
<1>1. /\ InLists' /\ inLife = "ready" /\ inStatus[1] # "OUTPUT_PORT"
      /\ UNCHANGED <<inLife, inList, inCount, inStatus, inBlocked, inWoken>>
  <2>1. /\ inLife = "ready" /\ ~In!HasTask("output") /\ UNCHANGED <<inLife, inList, inCount, inStatus, inBlocked, inWoken>>
    BY DEF EncSleeps, In!DequeueNone, In!queueVars
  <2> QED BY <2>1, InUntouched, InHasTask DEF Curr
<1>2. OutLists' /\ UNCHANGED <<outLife, outList, outCount, outStatus, outBlocked, outWoken>>
  BY OutUntouched DEF EncSleeps, outVars
<1>3. OwnTypes'
  BY <1>1, <1>2, FrameCountAssumption DEF EncSleeps, OwnTypes, LifeCycle, FramesAccounted
<1>4. TasksInHand'
  BY <1>1, <1>2 DEF EncSleeps, TasksInHand, LifeCycle, OwnTypes
<1>5. LifeCycle'
  BY <1>1, <1>2 DEF EncSleeps, LifeCycle, TasksInHand, OwnTypes
<1>6. Waiting'
  BY <1>1, <1>2 DEF EncSleeps, Waiting, TasksInHand, LifeCycle, OwnTypes
<1>7. FramesAccounted'
  BY <1>1, <1>2 DEF EncSleeps, FramesAccounted, TasksInHand, LifeCycle, PacketsAccounted,
     OwnTypes
<1>8. PacketsAccounted'
  BY <1>1, <1>2, FrameCountAssumption DEF EncSleeps, PacketsAccounted, TasksInHand, LifeCycle, FramesAccounted,
     ToEncode, Latest, OwnTypes
<1> QED BY <1>1, <1>2, <1>3, <1>4, <1>5, <1>6, <1>7, <1>8, PartsNext DEF Control, Data

(* It takes the task, with the frame put last or none.                     *)
LEMMA EncTakesStep == ASSUME IInv, EncTakes PROVE IInv'
<1> /\ InLists /\ OutLists
    /\ OwnTypes /\ TasksInHand /\ LifeCycle /\ Waiting /\ FramesAccounted /\ PacketsAccounted
  BY Parts DEF Control, Data
<1>1. /\ inLife = "ready" /\ inStatus[1] = "OUTPUT_PORT"
      /\ InLists' /\ inStatus'[1] = "OUTPUT_HOLD"
      /\ UNCHANGED <<inLife, inBlocked, inWoken>>
  BY InDequeue DEF EncTakes, Curr, Hold
<1>2. OutLists' /\ UNCHANGED <<outLife, outList, outCount, outStatus, outBlocked, outWoken>>
  BY OutUntouched DEF EncTakes, outVars
<1>3. OwnTypes'
  BY <1>1, <1>2, FrameCountAssumption DEF EncTakes, OwnTypes, LifeCycle, FramesAccounted
<1>4. TasksInHand'
  BY <1>1, <1>2 DEF EncTakes, TasksInHand, LifeCycle, OwnTypes
<1>5. LifeCycle'
  BY <1>1, <1>2 DEF EncTakes, LifeCycle, TasksInHand, OwnTypes
<1>6. Waiting'
  BY <1>1, <1>2 DEF EncTakes, Waiting, TasksInHand, LifeCycle, OwnTypes
<1>7. FramesAccounted'
  BY <1>1, <1>2 DEF EncTakes, FramesAccounted, TasksInHand, LifeCycle, PacketsAccounted,
     OwnTypes
<1>8. PacketsAccounted'
  BY <1>1, <1>2, FrameCountAssumption DEF EncTakes, PacketsAccounted, TasksInHand, LifeCycle, FramesAccounted,
     ToEncode, Latest, OwnTypes
<1> QED BY <1>1, <1>2, <1>3, <1>4, <1>5, <1>6, <1>7, <1>8, PartsNext DEF Control, Data

(* The empty task returns.                                                 *)
LEMMA EncGivesEmptyBackStep == ASSUME IInv, EncGivesEmptyBack PROVE IInv'
<1> /\ InLists /\ OutLists
    /\ OwnTypes /\ TasksInHand /\ LifeCycle /\ Waiting /\ FramesAccounted /\ PacketsAccounted
  BY Parts DEF Control, Data
<1>1. /\ inStatus[1] = "OUTPUT_HOLD"
      /\ InLists' /\ inStatus'[1] = "INPUT_PORT" /\ inLife' = inLife
      /\ inBlocked'["INPUT_PORT"] \union inWoken'["INPUT_PORT"] = inBlocked["INPUT_PORT"] \union inWoken["INPUT_PORT"]
      /\ inBlocked["INPUT_PORT"] \intersect inWoken["INPUT_PORT"] = {} =>
            inBlocked'["INPUT_PORT"] \intersect inWoken'["INPUT_PORT"] = {}
      /\ inBlocked'["OUTPUT_PORT"] = inBlocked["OUTPUT_PORT"]
      /\ inWoken'["OUTPUT_PORT"] = inWoken["OUTPUT_PORT"]
  <2>1. inStatus[1] = "OUTPUT_HOLD" /\ In!Enqueue("output", 1)
    BY DEF EncGivesEmptyBack, PutGoes, GetGoes, EncGoes, Control, TasksInHand
  <2> QED BY <2>1, InEnqueue DEF Given, Hold
<1>2. OutLists' /\ UNCHANGED <<outLife, outList, outCount, outStatus, outBlocked, outWoken>>
  BY OutUntouched DEF EncGivesEmptyBack, outVars
<1>3. OwnTypes'
  BY <1>1, <1>2, FrameCountAssumption DEF EncGivesEmptyBack, OwnTypes, LifeCycle, FramesAccounted
<1>4. TasksInHand'
  BY <1>1, <1>2 DEF EncGivesEmptyBack, TasksInHand, LifeCycle, OwnTypes
<1>5. LifeCycle'
  BY <1>1, <1>2 DEF EncGivesEmptyBack, LifeCycle, TasksInHand, OwnTypes
<1>6. Waiting'
  BY <1>1, <1>2 DEF EncGivesEmptyBack, Waiting, TasksInHand, LifeCycle, OwnTypes
<1>7. FramesAccounted'
  BY <1>1, <1>2 DEF EncGivesEmptyBack, FramesAccounted, TasksInHand, LifeCycle, PacketsAccounted,
     OwnTypes
<1>8. PacketsAccounted'
  BY <1>1, <1>2, FrameCountAssumption DEF EncGivesEmptyBack, PacketsAccounted, TasksInHand, LifeCycle, FramesAccounted,
     ToEncode, Latest, OwnTypes
<1> QED BY <1>1, <1>2, <1>3, <1>4, <1>5, <1>6, <1>7, <1>8, PartsNext DEF Control, Data

(* The frame it encodes is one after that of the latest packet.            *)
LEMMA EncEncodesStep == ASSUME IInv, EncEncodes PROVE IInv'
<1> /\ InLists /\ OutLists
    /\ OwnTypes /\ TasksInHand /\ LifeCycle /\ Waiting /\ FramesAccounted /\ PacketsAccounted
  BY Parts DEF Control, Data
<1>1. InLists' /\ UNCHANGED <<inLife, inList, inCount, inStatus, inBlocked, inWoken>>
  BY InUntouched DEF EncEncodes, inVars
<1>2. OutLists' /\ UNCHANGED <<outLife, outList, outCount, outStatus, outBlocked, outWoken>>
  BY OutUntouched DEF EncEncodes, outVars
<1>3. OwnTypes'
  BY <1>1, <1>2, FrameCountAssumption DEF EncEncodes, OwnTypes, LifeCycle, FramesAccounted
<1>4. TasksInHand'
  BY <1>1, <1>2 DEF EncEncodes, TasksInHand, LifeCycle, OwnTypes
<1>5. LifeCycle'
  BY <1>1, <1>2 DEF EncEncodes, LifeCycle, TasksInHand, OwnTypes
<1>6. Waiting'
  BY <1>1, <1>2 DEF EncEncodes, Waiting, TasksInHand, LifeCycle, OwnTypes
<1>7. FramesAccounted'
  BY <1>1, <1>2 DEF EncEncodes, FramesAccounted, TasksInHand, LifeCycle, PacketsAccounted,
     OwnTypes
<1>8. PacketsAccounted'
  BY <1>1, <1>2, FrameCountAssumption DEF EncEncodes, PacketsAccounted, TasksInHand, LifeCycle, FramesAccounted,
     ToEncode, Latest, OwnTypes
<1> QED BY <1>1, <1>2, <1>3, <1>4, <1>5, <1>6, <1>7, <1>8, PartsNext DEF Control, Data

(* The task returns with the frame.                                        *)
LEMMA EncReturnsStep == ASSUME IInv, EncReturns PROVE IInv'
<1> /\ InLists /\ OutLists
    /\ OwnTypes /\ TasksInHand /\ LifeCycle /\ Waiting /\ FramesAccounted /\ PacketsAccounted
  BY Parts DEF Control, Data
<1>1. /\ inStatus[1] = "OUTPUT_HOLD"
      /\ InLists' /\ inStatus'[1] = "INPUT_PORT" /\ inLife' = inLife
      /\ inBlocked'["INPUT_PORT"] \union inWoken'["INPUT_PORT"] = inBlocked["INPUT_PORT"] \union inWoken["INPUT_PORT"]
      /\ inBlocked["INPUT_PORT"] \intersect inWoken["INPUT_PORT"] = {} =>
            inBlocked'["INPUT_PORT"] \intersect inWoken'["INPUT_PORT"] = {}
      /\ inBlocked'["OUTPUT_PORT"] = inBlocked["OUTPUT_PORT"]
      /\ inWoken'["OUTPUT_PORT"] = inWoken["OUTPUT_PORT"]
  <2>1. inStatus[1] = "OUTPUT_HOLD" /\ In!Enqueue("output", 1)
    BY DEF EncReturns, PutGoes, GetGoes, EncGoes, Control, TasksInHand
  <2> QED BY <2>1, InEnqueue DEF Given, Hold
<1>2. OutLists' /\ UNCHANGED <<outLife, outList, outCount, outStatus, outBlocked, outWoken>>
  BY OutUntouched DEF EncReturns, outVars
<1>3. OwnTypes'
  BY <1>1, <1>2, FrameCountAssumption DEF EncReturns, OwnTypes, LifeCycle, FramesAccounted
<1>4. TasksInHand'
  BY <1>1, <1>2 DEF EncReturns, TasksInHand, LifeCycle, OwnTypes
<1>5. LifeCycle'
  BY <1>1, <1>2 DEF EncReturns, LifeCycle, TasksInHand, OwnTypes
<1>6. Waiting'
  BY <1>1, <1>2 DEF EncReturns, Waiting, TasksInHand, LifeCycle, OwnTypes
<1>7. FramesAccounted'
  BY <1>1, <1>2 DEF EncReturns, FramesAccounted, TasksInHand, LifeCycle, PacketsAccounted,
     OwnTypes
<1>8. PacketsAccounted'
  BY <1>1, <1>2, FrameCountAssumption DEF EncReturns, PacketsAccounted, TasksInHand, LifeCycle, FramesAccounted,
     ToEncode, Latest, OwnTypes
<1> QED BY <1>1, <1>2, <1>3, <1>4, <1>5, <1>6, <1>7, <1>8, PartsNext DEF Control, Data

(* An output task is there.                                                *)
LEMMA EncFindsOutputStep == ASSUME IInv, EncFindsOutput PROVE IInv'
<1> /\ InLists /\ OutLists
    /\ OwnTypes /\ TasksInHand /\ LifeCycle /\ Waiting /\ FramesAccounted /\ PacketsAccounted
  BY Parts DEF Control, Data
<1>1. InLists' /\ UNCHANGED <<inLife, inList, inCount, inStatus, inBlocked, inWoken>>
  BY InUntouched DEF EncFindsOutput, inVars
<1>2. /\ OutLists' /\ outLife = "ready" /\ outStatus[1] = "INPUT_PORT"
      /\ UNCHANGED <<outLife, outList, outCount, outStatus, outBlocked, outWoken>>
  <2>1. /\ outLife = "ready" /\ Out!HasTask("input") /\ UNCHANGED <<outLife, outList, outCount, outStatus, outBlocked, outWoken>>
    BY DEF EncFindsOutput, Out!PollHit, Out!queueVars
  <2> QED BY <2>1, OutUntouched, OutHasTask DEF Curr
<1>3. OwnTypes'
  BY <1>1, <1>2, FrameCountAssumption DEF EncFindsOutput, OwnTypes, LifeCycle, FramesAccounted
<1>4. TasksInHand'
  BY <1>1, <1>2 DEF EncFindsOutput, TasksInHand, LifeCycle, OwnTypes
<1>5. LifeCycle'
  BY <1>1, <1>2 DEF EncFindsOutput, LifeCycle, TasksInHand, OwnTypes
<1>6. Waiting'
  BY <1>1, <1>2 DEF EncFindsOutput, Waiting, TasksInHand, LifeCycle, OwnTypes
<1>7. FramesAccounted'
  BY <1>1, <1>2 DEF EncFindsOutput, FramesAccounted, TasksInHand, LifeCycle, PacketsAccounted,
     OwnTypes
<1>8. PacketsAccounted'
  BY <1>1, <1>2, FrameCountAssumption DEF EncFindsOutput, PacketsAccounted, TasksInHand, LifeCycle, FramesAccounted,
     ToEncode, Latest, OwnTypes
<1> QED BY <1>1, <1>2, <1>3, <1>4, <1>5, <1>6, <1>7, <1>8, PartsNext DEF Control, Data

(* None is there.                                                          *)
LEMMA EncBlocksStep == ASSUME IInv, EncBlocks PROVE IInv'
<1> /\ InLists /\ OutLists
    /\ OwnTypes /\ TasksInHand /\ LifeCycle /\ Waiting /\ FramesAccounted /\ PacketsAccounted
  BY Parts DEF Control, Data
<1>1. InLists' /\ UNCHANGED <<inLife, inList, inCount, inStatus, inBlocked, inWoken>>
  BY InUntouched DEF EncBlocks, inVars
<1>2. /\ OutLists' /\ outLife = "ready" /\ outStatus[1] # "INPUT_PORT"
      /\ UNCHANGED <<outLife, outStatus, outWoken>>
      /\ outBlocked'["INPUT_PORT"] = outBlocked["INPUT_PORT"] \union {"enc"}
      /\ outBlocked'["OUTPUT_PORT"] = outBlocked["OUTPUT_PORT"]
  <2>1. /\ outLife = "ready" /\ ~Out!HasTask("input")
        /\ UNCHANGED <<outLife, outList, outCount, outStatus, outWoken>>
        /\ outBlocked' = [outBlocked EXCEPT !["INPUT_PORT"] = @ \union {"enc"}]
    BY DEF EncBlocks, Out!PollWait, Out!StatusCurr
  <2>2. outStatus[1] # "INPUT_PORT"
    BY <2>1, OutHasTask DEF Curr
  <2> QED BY <2>1, <2>2, OutTypes, OutWaits DEF OutLists, Users
<1>3. OwnTypes'
  BY <1>1, <1>2, FrameCountAssumption DEF EncBlocks, OwnTypes, LifeCycle, FramesAccounted
<1>4. TasksInHand'
  BY <1>1, <1>2 DEF EncBlocks, TasksInHand, LifeCycle, OwnTypes
<1>5. LifeCycle'
  BY <1>1, <1>2 DEF EncBlocks, LifeCycle, TasksInHand, OwnTypes
<1>6. Waiting'
  BY <1>1, <1>2 DEF EncBlocks, Waiting, TasksInHand, LifeCycle, OwnTypes
<1>7. FramesAccounted'
  BY <1>1, <1>2 DEF EncBlocks, FramesAccounted, TasksInHand, LifeCycle, PacketsAccounted,
     OwnTypes
<1>8. PacketsAccounted'
  BY <1>1, <1>2, FrameCountAssumption DEF EncBlocks, PacketsAccounted, TasksInHand, LifeCycle, FramesAccounted,
     ToEncode, Latest, OwnTypes
<1> QED BY <1>1, <1>2, <1>3, <1>4, <1>5, <1>6, <1>7, <1>8, PartsNext DEF Control, Data

(* It was woken with an output task on the port, or by a clear.            *)
LEMMA EncWakesStep == ASSUME IInv, EncWakes PROVE IInv'
<1> /\ InLists /\ OutLists
    /\ OwnTypes /\ TasksInHand /\ LifeCycle /\ Waiting /\ FramesAccounted /\ PacketsAccounted
  BY Parts DEF Control, Data
<1>1. InLists' /\ UNCHANGED <<inLife, inList, inCount, inStatus, inBlocked, inWoken>>
  BY InUntouched DEF EncWakes, inVars
<1>2. /\ OutLists' /\ "enc" \in outWoken["INPUT_PORT"]
      /\ UNCHANGED <<outLife, outStatus, outBlocked>>
      /\ outWoken'["INPUT_PORT"] = outWoken["INPUT_PORT"] \ {"enc"}
      /\ outWoken'["OUTPUT_PORT"] = outWoken["OUTPUT_PORT"]
  <2>1. /\ "enc" \in outWoken["INPUT_PORT"]
        /\ UNCHANGED <<outLife, outList, outCount, outStatus, outBlocked>>
        /\ outWoken' = [outWoken EXCEPT !["INPUT_PORT"] = @ \ {"enc"}]
    BY DEF EncWakes, Out!PollWake, Out!StatusCurr
  <2> QED BY <2>1, OutTypes, OutWaits DEF OutLists
<1>3. OwnTypes'
  BY <1>1, <1>2, FrameCountAssumption DEF EncWakes, OwnTypes, LifeCycle, FramesAccounted
<1>4. TasksInHand'
  BY <1>1, <1>2 DEF EncWakes, TasksInHand, LifeCycle, OwnTypes
<1>5. LifeCycle'
  BY <1>1, <1>2 DEF EncWakes, LifeCycle, TasksInHand, OwnTypes
<1>6. Waiting'
  BY <1>1, <1>2 DEF EncWakes, Waiting, TasksInHand, LifeCycle, OwnTypes
<1>7. FramesAccounted'
  BY <1>1, <1>2 DEF EncWakes, FramesAccounted, TasksInHand, LifeCycle, PacketsAccounted,
     OwnTypes
<1>8. PacketsAccounted'
  BY <1>1, <1>2, FrameCountAssumption DEF EncWakes, PacketsAccounted, TasksInHand, LifeCycle, FramesAccounted,
     ToEncode, Latest, OwnTypes
<1> QED BY <1>1, <1>2, <1>3, <1>4, <1>5, <1>6, <1>7, <1>8, PartsNext DEF Control, Data

(* The packet goes into the output task.                                   *)
LEMMA EncTakesOutputStep == ASSUME IInv, EncTakesOutput PROVE IInv'
<1> /\ InLists /\ OutLists
    /\ OwnTypes /\ TasksInHand /\ LifeCycle /\ Waiting /\ FramesAccounted /\ PacketsAccounted
  BY Parts DEF Control, Data
<1>1. InLists' /\ UNCHANGED <<inLife, inList, inCount, inStatus, inBlocked, inWoken>>
  BY InUntouched DEF EncTakesOutput, inVars
<1>2. /\ outLife = "ready" /\ outStatus[1] = "INPUT_PORT"
      /\ OutLists' /\ outStatus'[1] = "INPUT_HOLD"
      /\ UNCHANGED <<outLife, outBlocked, outWoken>>
  BY OutDequeue DEF EncTakesOutput, Curr, Hold
<1>3. OwnTypes'
  BY <1>1, <1>2, FrameCountAssumption DEF EncTakesOutput, OwnTypes, LifeCycle, FramesAccounted
<1>4. TasksInHand'
  BY <1>1, <1>2 DEF EncTakesOutput, TasksInHand, LifeCycle, OwnTypes
<1>5. LifeCycle'
  BY <1>1, <1>2 DEF EncTakesOutput, LifeCycle, TasksInHand, OwnTypes
<1>6. Waiting'
  BY <1>1, <1>2 DEF EncTakesOutput, Waiting, TasksInHand, LifeCycle, OwnTypes
<1>7. FramesAccounted'
  BY <1>1, <1>2 DEF EncTakesOutput, FramesAccounted, TasksInHand, LifeCycle, PacketsAccounted,
     OwnTypes
<1>8. PacketsAccounted'
  BY <1>1, <1>2, FrameCountAssumption DEF EncTakesOutput, PacketsAccounted, TasksInHand, LifeCycle, FramesAccounted,
     ToEncode, Latest, OwnTypes
<1> QED BY <1>1, <1>2, <1>3, <1>4, <1>5, <1>6, <1>7, <1>8, PartsNext DEF Control, Data

(* The output task goes to the application.                                *)
LEMMA EncSendsStep == ASSUME IInv, EncSends PROVE IInv'
<1> /\ InLists /\ OutLists
    /\ OwnTypes /\ TasksInHand /\ LifeCycle /\ Waiting /\ FramesAccounted /\ PacketsAccounted
  BY Parts DEF Control, Data
<1>1. InLists' /\ UNCHANGED <<inLife, inList, inCount, inStatus, inBlocked, inWoken>>
  BY InUntouched DEF EncSends, inVars
<1>2. /\ outStatus[1] = "INPUT_HOLD"
      /\ OutLists' /\ outStatus'[1] = "OUTPUT_PORT" /\ outLife' = outLife
      /\ outBlocked'["OUTPUT_PORT"] \union outWoken'["OUTPUT_PORT"] = outBlocked["OUTPUT_PORT"] \union outWoken["OUTPUT_PORT"]
      /\ outBlocked["OUTPUT_PORT"] \intersect outWoken["OUTPUT_PORT"] = {} =>
            outBlocked'["OUTPUT_PORT"] \intersect outWoken'["OUTPUT_PORT"] = {}
      /\ outBlocked'["INPUT_PORT"] = outBlocked["INPUT_PORT"]
      /\ outWoken'["INPUT_PORT"] = outWoken["INPUT_PORT"]
  <2>1. outStatus[1] = "INPUT_HOLD" /\ Out!Enqueue("input", 1)
    BY DEF EncSends, PutGoes, GetGoes, EncGoes, Control, TasksInHand
  <2> QED BY <2>1, OutEnqueue DEF Given, Hold
<1>3. OwnTypes'
  BY <1>1, <1>2, FrameCountAssumption DEF EncSends, OwnTypes, LifeCycle, FramesAccounted
<1>4. TasksInHand'
  BY <1>1, <1>2 DEF EncSends, TasksInHand, LifeCycle, OwnTypes
<1>5. LifeCycle'
  BY <1>1, <1>2 DEF EncSends, LifeCycle, TasksInHand, OwnTypes
<1>6. Waiting'
  BY <1>1, <1>2 DEF EncSends, Waiting, TasksInHand, LifeCycle, OwnTypes
<1>7. FramesAccounted'
  BY <1>1, <1>2 DEF EncSends, FramesAccounted, TasksInHand, LifeCycle, PacketsAccounted,
     OwnTypes
<1>8. PacketsAccounted'
  BY <1>1, <1>2, FrameCountAssumption DEF EncSends, PacketsAccounted, TasksInHand, LifeCycle, FramesAccounted,
     ToEncode, Latest, OwnTypes
<1> QED BY <1>1, <1>2, <1>3, <1>4, <1>5, <1>6, <1>7, <1>8, PartsNext DEF Control, Data

(* Without an output task, which only a clear can cause, it drops the packet.*)
LEMMA EncDropsPacketStep == ASSUME IInv, EncDropsPacket PROVE IInv'
<1> /\ InLists /\ OutLists
    /\ OwnTypes /\ TasksInHand /\ LifeCycle /\ Waiting /\ FramesAccounted /\ PacketsAccounted
  BY Parts DEF Control, Data
<1>1. InLists' /\ UNCHANGED <<inLife, inList, inCount, inStatus, inBlocked, inWoken>>
  BY InUntouched DEF EncDropsPacket, inVars
<1>2. /\ OutLists' /\ outLife = "ready" /\ outStatus[1] # "INPUT_PORT"
      /\ UNCHANGED <<outLife, outList, outCount, outStatus, outBlocked, outWoken>>
  <2>1. /\ outLife = "ready" /\ ~Out!HasTask("input") /\ UNCHANGED <<outLife, outList, outCount, outStatus, outBlocked, outWoken>>
    BY DEF EncDropsPacket, Out!DequeueNone, Out!queueVars
  <2> QED BY <2>1, OutUntouched, OutHasTask DEF Curr
<1>3. OwnTypes'
  BY <1>1, <1>2, FrameCountAssumption DEF EncDropsPacket, OwnTypes, LifeCycle, FramesAccounted
<1>4. TasksInHand'
  BY <1>1, <1>2 DEF EncDropsPacket, TasksInHand, LifeCycle, OwnTypes
<1>5. LifeCycle'
  BY <1>1, <1>2 DEF EncDropsPacket, LifeCycle, TasksInHand, OwnTypes
<1>6. Waiting'
  BY <1>1, <1>2 DEF EncDropsPacket, Waiting, TasksInHand, LifeCycle, OwnTypes
<1>7. FramesAccounted'
  BY <1>1, <1>2 DEF EncDropsPacket, FramesAccounted, TasksInHand, LifeCycle, PacketsAccounted,
     OwnTypes
<1>8. PacketsAccounted'
  BY <1>1, <1>2, FrameCountAssumption DEF EncDropsPacket, PacketsAccounted, Waiting, TasksInHand, LifeCycle, FramesAccounted,
     ToEncode, Latest, OwnTypes
<1> QED BY <1>1, <1>2, <1>3, <1>4, <1>5, <1>6, <1>7, <1>8, PartsNext DEF Control, Data

(* At its end it releases the frame of the task it never took.             *)
LEMMA EncReleasesFrameStep == ASSUME IInv, EncReleasesFrame PROVE IInv'
<1> /\ InLists /\ OutLists
    /\ OwnTypes /\ TasksInHand /\ LifeCycle /\ Waiting /\ FramesAccounted /\ PacketsAccounted
  BY Parts DEF Control, Data
<1>1. /\ inLife = "ready" /\ inStatus[1] = "OUTPUT_PORT"
      /\ InLists' /\ inStatus'[1] = "OUTPUT_HOLD"
      /\ UNCHANGED <<inLife, inBlocked, inWoken>>
  BY InDequeue DEF EncReleasesFrame, Curr, Hold
<1>2. OutLists' /\ UNCHANGED <<outLife, outList, outCount, outStatus, outBlocked, outWoken>>
  BY OutUntouched DEF EncReleasesFrame, outVars
<1>3. OwnTypes'
  BY <1>1, <1>2, FrameCountAssumption DEF EncReleasesFrame, OwnTypes, LifeCycle, FramesAccounted
<1>4. TasksInHand'
  BY <1>1, <1>2 DEF EncReleasesFrame, TasksInHand, LifeCycle, OwnTypes
<1>5. LifeCycle'
  BY <1>1, <1>2 DEF EncReleasesFrame, LifeCycle, TasksInHand, OwnTypes
<1>6. Waiting'
  BY <1>1, <1>2 DEF EncReleasesFrame, Waiting, TasksInHand, LifeCycle, OwnTypes
<1>7. FramesAccounted'
  BY <1>1, <1>2 DEF EncReleasesFrame, FramesAccounted, TasksInHand, LifeCycle, PacketsAccounted,
     OwnTypes
<1>8. PacketsAccounted'
  BY <1>1, <1>2, FrameCountAssumption DEF EncReleasesFrame, PacketsAccounted, TasksInHand, LifeCycle, FramesAccounted,
     ToEncode, Latest, OwnTypes
<1> QED BY <1>1, <1>2, <1>3, <1>4, <1>5, <1>6, <1>7, <1>8, PartsNext DEF Control, Data

(* And the packet nobody took.                                             *)
LEMMA EncReleasesPacketStep == ASSUME IInv, EncReleasesPacket PROVE IInv'
<1> /\ InLists /\ OutLists
    /\ OwnTypes /\ TasksInHand /\ LifeCycle /\ Waiting /\ FramesAccounted /\ PacketsAccounted
  BY Parts DEF Control, Data
<1>1. InLists' /\ UNCHANGED <<inLife, inList, inCount, inStatus, inBlocked, inWoken>>
  BY InUntouched DEF EncReleasesPacket, inVars
<1>2. /\ outLife = "ready" /\ outStatus[1] = "OUTPUT_PORT"
      /\ OutLists' /\ outStatus'[1] = "OUTPUT_HOLD"
      /\ UNCHANGED <<outLife, outBlocked, outWoken>>
  BY OutDequeue DEF EncReleasesPacket, Curr, Hold
<1>3. OwnTypes'
  BY <1>1, <1>2, FrameCountAssumption DEF EncReleasesPacket, OwnTypes, LifeCycle, FramesAccounted
<1>4. TasksInHand'
  BY <1>1, <1>2 DEF EncReleasesPacket, TasksInHand, LifeCycle, OwnTypes
<1>5. LifeCycle'
  BY <1>1, <1>2 DEF EncReleasesPacket, LifeCycle, TasksInHand, OwnTypes
<1>6. Waiting'
  BY <1>1, <1>2 DEF EncReleasesPacket, Waiting, TasksInHand, LifeCycle, OwnTypes
<1>7. FramesAccounted'
  BY <1>1, <1>2 DEF EncReleasesPacket, FramesAccounted, TasksInHand, LifeCycle, PacketsAccounted,
     OwnTypes
<1>8. PacketsAccounted'
  BY <1>1, <1>2, FrameCountAssumption DEF EncReleasesPacket, PacketsAccounted, TasksInHand, LifeCycle, FramesAccounted,
     ToEncode, Latest, OwnTypes
<1> QED BY <1>1, <1>2, <1>3, <1>4, <1>5, <1>6, <1>7, <1>8, PartsNext DEF Control, Data

(* The emptied input task goes back.                                       *)
LEMMA EncGivesReleasedInStep == ASSUME IInv, EncGivesReleased, encAt = "exitInGive" PROVE IInv'
<1> /\ InLists /\ OutLists
    /\ OwnTypes /\ TasksInHand /\ LifeCycle /\ Waiting /\ FramesAccounted /\ PacketsAccounted
  BY Parts DEF Control, Data
<1>1. /\ inStatus[1] = "OUTPUT_HOLD"
      /\ InLists' /\ inStatus'[1] = "INPUT_PORT" /\ inLife' = inLife
      /\ inBlocked'["INPUT_PORT"] \union inWoken'["INPUT_PORT"] = inBlocked["INPUT_PORT"] \union inWoken["INPUT_PORT"]
      /\ inBlocked["INPUT_PORT"] \intersect inWoken["INPUT_PORT"] = {} =>
            inBlocked'["INPUT_PORT"] \intersect inWoken'["INPUT_PORT"] = {}
      /\ inBlocked'["OUTPUT_PORT"] = inBlocked["OUTPUT_PORT"]
      /\ inWoken'["OUTPUT_PORT"] = inWoken["OUTPUT_PORT"]
  <2>1. inStatus[1] = "OUTPUT_HOLD" /\ In!Enqueue("output", 1)
    BY DEF EncGivesReleased, PutGoes, GetGoes, EncGoes, Control, TasksInHand
  <2> QED BY <2>1, InEnqueue DEF Given, Hold
<1>2. OutLists' /\ UNCHANGED <<outLife, outList, outCount, outStatus, outBlocked, outWoken>>
  BY OutUntouched DEF EncGivesReleased, outVars
<1>3. OwnTypes'
  BY <1>1, <1>2, FrameCountAssumption DEF EncGivesReleased, OwnTypes, LifeCycle, FramesAccounted
<1>4. TasksInHand'
  BY <1>1, <1>2 DEF EncGivesReleased, TasksInHand, LifeCycle, OwnTypes
<1>5. LifeCycle'
  BY <1>1, <1>2 DEF EncGivesReleased, LifeCycle, TasksInHand, OwnTypes
<1>6. Waiting'
  BY <1>1, <1>2 DEF EncGivesReleased, Waiting, TasksInHand, LifeCycle, OwnTypes
<1>7. FramesAccounted'
  BY <1>1, <1>2 DEF EncGivesReleased, FramesAccounted, TasksInHand, LifeCycle, PacketsAccounted,
     OwnTypes
<1>8. PacketsAccounted'
  BY <1>1, <1>2, FrameCountAssumption DEF EncGivesReleased, PacketsAccounted, TasksInHand, LifeCycle, FramesAccounted,
     ToEncode, Latest, OwnTypes
<1> QED BY <1>1, <1>2, <1>3, <1>4, <1>5, <1>6, <1>7, <1>8, PartsNext DEF Control, Data

(* The emptied output task goes back.                                      *)
LEMMA EncGivesReleasedOutStep == ASSUME IInv, EncGivesReleased, encAt = "exitOutGive" PROVE IInv'
<1> /\ InLists /\ OutLists
    /\ OwnTypes /\ TasksInHand /\ LifeCycle /\ Waiting /\ FramesAccounted /\ PacketsAccounted
  BY Parts DEF Control, Data
<1>1. InLists' /\ UNCHANGED <<inLife, inList, inCount, inStatus, inBlocked, inWoken>>
  BY InUntouched DEF EncGivesReleased, inVars
<1>2. /\ outStatus[1] = "OUTPUT_HOLD"
      /\ OutLists' /\ outStatus'[1] = "INPUT_PORT" /\ outLife' = outLife
      /\ outBlocked'["INPUT_PORT"] \union outWoken'["INPUT_PORT"] = outBlocked["INPUT_PORT"] \union outWoken["INPUT_PORT"]
      /\ outBlocked["INPUT_PORT"] \intersect outWoken["INPUT_PORT"] = {} =>
            outBlocked'["INPUT_PORT"] \intersect outWoken'["INPUT_PORT"] = {}
      /\ outBlocked'["OUTPUT_PORT"] = outBlocked["OUTPUT_PORT"]
      /\ outWoken'["OUTPUT_PORT"] = outWoken["OUTPUT_PORT"]
  <2>1. outStatus[1] = "OUTPUT_HOLD" /\ Out!Enqueue("output", 1)
    BY DEF EncGivesReleased, PutGoes, GetGoes, EncGoes, Control, TasksInHand
  <2> QED BY <2>1, OutEnqueue DEF Given, Hold
<1>3. OwnTypes'
  BY <1>1, <1>2, FrameCountAssumption DEF EncGivesReleased, OwnTypes, LifeCycle, FramesAccounted
<1>4. TasksInHand'
  BY <1>1, <1>2 DEF EncGivesReleased, TasksInHand, LifeCycle, OwnTypes
<1>5. LifeCycle'
  BY <1>1, <1>2 DEF EncGivesReleased, LifeCycle, TasksInHand, OwnTypes
<1>6. Waiting'
  BY <1>1, <1>2 DEF EncGivesReleased, Waiting, TasksInHand, LifeCycle, OwnTypes
<1>7. FramesAccounted'
  BY <1>1, <1>2 DEF EncGivesReleased, FramesAccounted, TasksInHand, LifeCycle, PacketsAccounted,
     OwnTypes
<1>8. PacketsAccounted'
  BY <1>1, <1>2, FrameCountAssumption DEF EncGivesReleased, PacketsAccounted, TasksInHand, LifeCycle, FramesAccounted,
     ToEncode, Latest, OwnTypes
<1> QED BY <1>1, <1>2, <1>3, <1>4, <1>5, <1>6, <1>7, <1>8, PartsNext DEF Control, Data

(* No input task is left on the output port.                               *)
LEMMA EncExitsInStep == ASSUME IInv, EncExits, encAt = "exitIn" PROVE IInv'
<1> /\ InLists /\ OutLists
    /\ OwnTypes /\ TasksInHand /\ LifeCycle /\ Waiting /\ FramesAccounted /\ PacketsAccounted
  BY Parts DEF Control, Data
<1>1. /\ InLists' /\ inLife = "ready" /\ inStatus[1] # "OUTPUT_PORT"
      /\ UNCHANGED <<inLife, inList, inCount, inStatus, inBlocked, inWoken>>
  <2>1. /\ inLife = "ready" /\ ~In!HasTask("output") /\ UNCHANGED <<inLife, inList, inCount, inStatus, inBlocked, inWoken>>
    BY DEF EncExits, In!DequeueNone, In!queueVars
  <2> QED BY <2>1, InUntouched, InHasTask DEF Curr
<1>2. OutLists' /\ UNCHANGED <<outLife, outList, outCount, outStatus, outBlocked, outWoken>>
  BY OutUntouched DEF EncExits, outVars
<1>3. inStatus[1] \in AllStatuses
  BY InTypes DEF InLists
<1>4. OwnTypes'
  BY <1>1, <1>2, <1>3, FrameCountAssumption DEF EncExits, OwnTypes, LifeCycle, FramesAccounted
<1>5. TasksInHand'
  BY <1>1, <1>2, <1>3 DEF EncExits, TasksInHand, LifeCycle, OwnTypes
<1>6. LifeCycle'
  BY <1>1, <1>2, <1>3 DEF EncExits, LifeCycle, TasksInHand, OwnTypes, AllStatuses
<1>7. Waiting'
  BY <1>1, <1>2, <1>3 DEF EncExits, Waiting, TasksInHand, LifeCycle, OwnTypes
<1>8. FramesAccounted'
  BY <1>1, <1>2, <1>3 DEF EncExits, FramesAccounted, TasksInHand, LifeCycle, PacketsAccounted,
     OwnTypes
<1>9. PacketsAccounted'
  BY <1>1, <1>2, <1>3, FrameCountAssumption DEF EncExits, PacketsAccounted, TasksInHand, LifeCycle, FramesAccounted,
     ToEncode, Latest, OwnTypes
<1> QED BY <1>1, <1>2, <1>4, <1>5, <1>6, <1>7, <1>8, <1>9, PartsNext DEF Control, Data

(* No output task either: both are on the input port.                      *)
LEMMA EncExitsOutStep == ASSUME IInv, EncExits, encAt = "exitOut" PROVE IInv'
<1> /\ InLists /\ OutLists
    /\ OwnTypes /\ TasksInHand /\ LifeCycle /\ Waiting /\ FramesAccounted /\ PacketsAccounted
  BY Parts DEF Control, Data
<1>1. InLists' /\ UNCHANGED <<inLife, inList, inCount, inStatus, inBlocked, inWoken>>
  BY InUntouched DEF EncExits, inVars
<1>2. /\ OutLists' /\ outLife = "ready" /\ outStatus[1] # "OUTPUT_PORT"
      /\ UNCHANGED <<outLife, outList, outCount, outStatus, outBlocked, outWoken>>
  <2>1. /\ outLife = "ready" /\ ~Out!HasTask("output") /\ UNCHANGED <<outLife, outList, outCount, outStatus, outBlocked, outWoken>>
    BY DEF EncExits, Out!DequeueNone, Out!queueVars
  <2> QED BY <2>1, OutUntouched, OutHasTask DEF Curr
<1>3. outStatus[1] \in AllStatuses
  BY OutTypes DEF OutLists
<1>4. OwnTypes'
  BY <1>1, <1>2, <1>3, FrameCountAssumption DEF EncExits, OwnTypes, LifeCycle, FramesAccounted
<1>5. TasksInHand'
  BY <1>1, <1>2, <1>3 DEF EncExits, TasksInHand, LifeCycle, OwnTypes
<1>6. LifeCycle'
  BY <1>1, <1>2, <1>3 DEF EncExits, LifeCycle, TasksInHand, OwnTypes, AllStatuses
<1>7. Waiting'
  BY <1>1, <1>2, <1>3 DEF EncExits, Waiting, TasksInHand, LifeCycle, OwnTypes
<1>8. FramesAccounted'
  BY <1>1, <1>2, <1>3 DEF EncExits, FramesAccounted, TasksInHand, LifeCycle, PacketsAccounted,
     OwnTypes
<1>9. PacketsAccounted'
  BY <1>1, <1>2, <1>3, FrameCountAssumption DEF EncExits, PacketsAccounted, TasksInHand, LifeCycle, FramesAccounted,
     ToEncode, Latest, OwnTypes
<1> QED BY <1>1, <1>2, <1>4, <1>5, <1>6, <1>7, <1>8, <1>9, PartsNext DEF Control, Data

(* The clear begins between two calls.                                     *)
LEMMA ClearStoppingStep == ASSUME IInv, ClearStopping PROVE IInv'
<1> /\ InLists /\ OutLists
    /\ OwnTypes /\ TasksInHand /\ LifeCycle /\ Waiting /\ FramesAccounted /\ PacketsAccounted
  BY Parts DEF Control, Data
<1>1. InLists' /\ UNCHANGED <<inLife, inList, inCount, inStatus, inBlocked, inWoken>>
  BY InUntouched DEF ClearStopping, inVars
<1>2. OutLists' /\ UNCHANGED <<outLife, outList, outCount, outStatus, outBlocked, outWoken>>
  BY OutUntouched DEF ClearStopping, outVars
<1>3. OwnTypes'
  BY <1>1, <1>2, FrameCountAssumption DEF ClearStopping, OwnTypes, LifeCycle, FramesAccounted
<1>4. TasksInHand'
  BY <1>1, <1>2 DEF ClearStopping, TasksInHand, LifeCycle, OwnTypes
<1>5. LifeCycle'
  BY <1>1, <1>2 DEF ClearStopping, LifeCycle, TasksInHand, OwnTypes
<1>6. Waiting'
  BY <1>1, <1>2 DEF ClearStopping, Waiting, TasksInHand, LifeCycle, OwnTypes
<1>7. FramesAccounted'
  BY <1>1, <1>2 DEF ClearStopping, FramesAccounted, TasksInHand, LifeCycle, PacketsAccounted,
     OwnTypes
<1>8. PacketsAccounted'
  BY <1>1, <1>2, FrameCountAssumption DEF ClearStopping, PacketsAccounted, TasksInHand, LifeCycle, FramesAccounted,
     ToEncode, Latest, OwnTypes
<1> QED BY <1>1, <1>2, <1>3, <1>4, <1>5, <1>6, <1>7, <1>8, PartsNext DEF Control, Data

(* Its signal may wake the control thread without an output task.          *)
LEMMA ClearAwakesStep == ASSUME IInv, ClearAwakes PROVE IInv'
<1> /\ InLists /\ OutLists
    /\ OwnTypes /\ TasksInHand /\ LifeCycle /\ Waiting /\ FramesAccounted /\ PacketsAccounted
  BY Parts DEF Control, Data
<1>1. InLists' /\ UNCHANGED <<inLife, inList, inCount, inStatus, inBlocked, inWoken>>
  BY InUntouched DEF ClearAwakes, inVars
<1>2. /\ OutLists' /\ UNCHANGED <<outLife, outStatus>>
      /\ outBlocked'["INPUT_PORT"] \union outWoken'["INPUT_PORT"] = outBlocked["INPUT_PORT"] \union outWoken["INPUT_PORT"]
      /\ outBlocked["INPUT_PORT"] \intersect outWoken["INPUT_PORT"] = {} =>
            outBlocked'["INPUT_PORT"] \intersect outWoken'["INPUT_PORT"] = {}
      /\ outBlocked'["OUTPUT_PORT"] = outBlocked["OUTPUT_PORT"]
      /\ outWoken'["OUTPUT_PORT"] = outWoken["OUTPUT_PORT"]
  <2>1. Out!Signal("INPUT_PORT") /\ UNCHANGED <<outLife, outList, outCount, outStatus>>
    BY DEF ClearAwakes, Out!Awake, Out!StatusCurr
  <2>2. /\ outBlocked' \in [{"INPUT_PORT", "OUTPUT_PORT"} -> SUBSET Users]
        /\ outWoken' \in [{"INPUT_PORT", "OUTPUT_PORT"} -> SUBSET Users]
        /\ outBlocked'["INPUT_PORT"] \union outWoken'["INPUT_PORT"] = outBlocked["INPUT_PORT"] \union outWoken["INPUT_PORT"]
        /\ outBlocked["INPUT_PORT"] \intersect outWoken["INPUT_PORT"] = {} =>
              outBlocked'["INPUT_PORT"] \intersect outWoken'["INPUT_PORT"] = {}
        /\ outBlocked'["OUTPUT_PORT"] = outBlocked["OUTPUT_PORT"]
        /\ outWoken'["OUTPUT_PORT"] = outWoken["OUTPUT_PORT"]
    BY <2>1, OutSignal
  <2> QED BY <2>1, <2>2, OutWaits
<1>3. OwnTypes'
  BY <1>1, <1>2, FrameCountAssumption DEF ClearAwakes, OwnTypes, LifeCycle, FramesAccounted
<1>4. TasksInHand'
  BY <1>1, <1>2 DEF ClearAwakes, TasksInHand, LifeCycle, OwnTypes
<1>5. LifeCycle'
  BY <1>1, <1>2 DEF ClearAwakes, LifeCycle, TasksInHand, OwnTypes
<1>6. Waiting'
  BY <1>1, <1>2 DEF ClearAwakes, Waiting, TasksInHand, LifeCycle, OwnTypes
<1>7. FramesAccounted'
  BY <1>1, <1>2 DEF ClearAwakes, FramesAccounted, TasksInHand, LifeCycle, PacketsAccounted,
     OwnTypes
<1>8. PacketsAccounted'
  BY <1>1, <1>2, FrameCountAssumption DEF ClearAwakes, PacketsAccounted, TasksInHand, LifeCycle, FramesAccounted,
     ToEncode, Latest, OwnTypes
<1> QED BY <1>1, <1>2, <1>3, <1>4, <1>5, <1>6, <1>7, <1>8, PartsNext DEF Control, Data

(* The status is set again and the thread signalled.                       *)
LEMMA ClearStopsStep == ASSUME IInv, ClearStops PROVE IInv'
<1> /\ InLists /\ OutLists
    /\ OwnTypes /\ TasksInHand /\ LifeCycle /\ Waiting /\ FramesAccounted /\ PacketsAccounted
  BY Parts DEF Control, Data
<1>1. InLists' /\ UNCHANGED <<inLife, inList, inCount, inStatus, inBlocked, inWoken>>
  BY InUntouched DEF ClearStops, inVars
<1>2. OutLists' /\ UNCHANGED <<outLife, outList, outCount, outStatus, outBlocked, outWoken>>
  BY OutUntouched DEF ClearStops, outVars
<1>3. OwnTypes'
  BY <1>1, <1>2, FrameCountAssumption DEF ClearStops, OwnTypes, LifeCycle, FramesAccounted
<1>4. TasksInHand'
  BY <1>1, <1>2 DEF ClearStops, TasksInHand, LifeCycle, OwnTypes
<1>5. LifeCycle'
  BY <1>1, <1>2 DEF ClearStops, LifeCycle, TasksInHand, OwnTypes
<1>6. Waiting'
  BY <1>1, <1>2 DEF ClearStops, Waiting, TasksInHand, LifeCycle, OwnTypes
<1>7. FramesAccounted'
  BY <1>1, <1>2 DEF ClearStops, FramesAccounted, TasksInHand, LifeCycle, PacketsAccounted,
     OwnTypes
<1>8. PacketsAccounted'
  BY <1>1, <1>2, FrameCountAssumption DEF ClearStops, PacketsAccounted, TasksInHand, LifeCycle, FramesAccounted,
     ToEncode, Latest, OwnTypes
<1> QED BY <1>1, <1>2, <1>3, <1>4, <1>5, <1>6, <1>7, <1>8, PartsNext DEF Control, Data

(* Nobody waits on the queues it frees.                                    *)
LEMMA ClearEndsStep == ASSUME IInv, ClearEnds PROVE IInv'
<1> /\ InLists /\ OutLists
    /\ OwnTypes /\ TasksInHand /\ LifeCycle /\ Waiting /\ FramesAccounted /\ PacketsAccounted
  BY Parts DEF Control, Data
<1>1. InLists' /\ inLife' = "freed" /\ UNCHANGED <<inStatus, inBlocked, inWoken>>
  BY InDeinit DEF ClearEnds, LifeCycle
<1>2. OutLists' /\ outLife' = "freed" /\ UNCHANGED <<outStatus, outBlocked, outWoken>>
  BY OutDeinit DEF ClearEnds, LifeCycle
<1>3. OwnTypes'
  BY <1>1, <1>2, FrameCountAssumption DEF ClearEnds, OwnTypes, LifeCycle, FramesAccounted
<1>4. TasksInHand'
  BY <1>1, <1>2 DEF ClearEnds, TasksInHand, LifeCycle, OwnTypes
<1>5. LifeCycle'
  BY <1>1, <1>2 DEF ClearEnds, LifeCycle, TasksInHand, OwnTypes
<1>6. Waiting'
  BY <1>1, <1>2 DEF ClearEnds, Waiting, TasksInHand, LifeCycle, OwnTypes
<1>7. FramesAccounted'
  BY <1>1, <1>2 DEF ClearEnds, FramesAccounted, TasksInHand, LifeCycle, PacketsAccounted,
     OwnTypes
<1>8. PacketsAccounted'
  BY <1>1, <1>2, FrameCountAssumption DEF ClearEnds, PacketsAccounted, TasksInHand, LifeCycle, FramesAccounted,
     ToEncode, Latest, OwnTypes
<1> QED BY <1>1, <1>2, <1>3, <1>4, <1>5, <1>6, <1>7, <1>8, PartsNext DEF Control, Data

-----------------------------------------------------------------------------
(* A step that changes nothing keeps the invariant.                        *)
LEMMA StutterStep == ASSUME IInv, UNCHANGED vars PROVE IInv'
<1> /\ InLists /\ OutLists
    /\ OwnTypes /\ TasksInHand /\ LifeCycle /\ Waiting /\ FramesAccounted /\ PacketsAccounted
  BY Parts DEF Control, Data
<1>1. InLists' /\ OutLists'
  BY InUntouched, OutUntouched DEF vars
<1>2. OwnTypes' /\ TasksInHand' /\ LifeCycle'
  BY DEF vars, OwnTypes, TasksInHand, LifeCycle
<1>3. Waiting' /\ FramesAccounted' /\ PacketsAccounted'
  BY DEF vars, Waiting, FramesAccounted, PacketsAccounted, ToEncode, Latest
<1> QED BY <1>1, <1>2, <1>3, PartsNext DEF Control, Data

(* Each of the control thread's two queues is emptied in a step of its own. *)
LEMMA EncStep == ASSUME IInv, Enc PROVE IInv'
<1>1. CASE EncGivesReleased
  <2>1. encAt \in {"exitInGive", "exitOutGive"}
    BY <1>1 DEF EncGivesReleased
  <2> QED BY <1>1, <2>1, EncGivesReleasedInStep, EncGivesReleasedOutStep
<1>2. CASE EncExits
  <2>1. encAt \in {"exitIn", "exitOut"}
    BY <1>2 DEF EncExits
  <2> QED BY <1>2, <2>1, EncExitsInStep, EncExitsOutStep
<1> QED BY <1>1, <1>2, EncLoopsStep, EncSleepsStep, EncTakesStep, EncGivesEmptyBackStep,
           EncEncodesStep, EncReturnsStep, EncFindsOutputStep, EncBlocksStep, EncWakesStep,
           EncTakesOutputStep, EncSendsStep, EncDropsPacketStep, EncReleasesFrameStep,
           EncReleasesPacketStep
        DEF Enc

LEMMA PutStep == ASSUME IInv, Put PROVE IInv'
BY PutFindsTaskStep, PutWaitsStep, PutWakesStep, PutTakesStep, PutEnqueuesStep,
   PutFindsItBackStep, PutWaitsForItStep, PutWakesWithItStep, PutReleasesStep, PutGivesEmptyStep
   DEF Put

LEMMA GetStep == ASSUME IInv, Get PROVE IInv'
BY GetFindsTaskStep, GetWaitsStep, GetWakesStep, GetTakesStep, GetGivesStep DEF Get

LEMMA ClearStep == ASSUME IInv, Clear PROVE IInv'
BY ClearStoppingStep, ClearAwakesStep, ClearStopsStep, ClearEndsStep DEF Clear

(* Before Mpp::init the queues have their tasks on no list yet.            *)
LEMMA InitQueues == Init => InLists /\ OutLists
<1> SUFFICES ASSUME Init PROVE InLists /\ OutLists
  OBVIOUS
<1>1. <<>> \in Seq({1}) /\ 0 \in Nat
  OBVIOUS
<1>2. InLists
  <2>1. /\ inLife = "inited" /\ inList = [s \in AllStatuses |-> <<>>]
        /\ inCount = [s \in AllStatuses |-> 0] /\ inStatus = [t \in {1} |-> "INPUT_PORT"]
        /\ inBlocked = [s \in {"INPUT_PORT", "OUTPUT_PORT"} |-> {}]
        /\ inWoken = [s \in {"INPUT_PORT", "OUTPUT_PORT"} |-> {}]
    BY StatusNames, TheTask DEF Init, In!QueueInit, In!PortStatuses
  <2>2. In!QueueTypeOK
    BY <1>1, <2>1, InTypes DEF AllStatuses
  <2> QED BY <2>1, <2>2, StatusNames DEF InLists, OneTask
<1>3. OutLists
  <2>1. /\ outLife = "inited" /\ outList = [s \in AllStatuses |-> <<>>]
        /\ outCount = [s \in AllStatuses |-> 0] /\ outStatus = [t \in {1} |-> "INPUT_PORT"]
        /\ outBlocked = [s \in {"INPUT_PORT", "OUTPUT_PORT"} |-> {}]
        /\ outWoken = [s \in {"INPUT_PORT", "OUTPUT_PORT"} |-> {}]
    BY StatusNames, TheTask DEF Init, Out!QueueInit, Out!PortStatuses
  <2>2. Out!QueueTypeOK
    BY <1>1, <2>1, OutTypes DEF AllStatuses
  <2> QED BY <2>1, <2>2, StatusNames DEF OutLists, OneTask
<1> QED BY <1>2, <1>3

LEMMA InitIInv == Init => IInv
<1> SUFFICES ASSUME Init PROVE IInv
  OBVIOUS
<1>1. /\ inLife = "inited" /\ inStatus[1] = "INPUT_PORT"
      /\ inBlocked["INPUT_PORT"] = {} /\ inWoken["INPUT_PORT"] = {}
      /\ inBlocked["OUTPUT_PORT"] = {} /\ inWoken["OUTPUT_PORT"] = {}
  BY TheTask DEF Init, In!QueueInit, In!PortStatuses
<1>2. /\ outLife = "inited" /\ outStatus[1] = "INPUT_PORT"
      /\ outBlocked["INPUT_PORT"] = {} /\ outWoken["INPUT_PORT"] = {}
  BY TheTask DEF Init, Out!QueueInit, Out!PortStatuses
<1>3. OwnTypes /\ TasksInHand /\ LifeCycle /\ Waiting
  BY <1>1, <1>2, FrameCountAssumption DEF Init, OwnTypes, TasksInHand, LifeCycle, Waiting
<1>4. FramesAccounted /\ PacketsAccounted
  BY <1>1, <1>2 DEF Init, FramesAccounted, PacketsAccounted, ToEncode, Latest
<1> QED BY <1>3, <1>4, InitQueues, Parts DEF Control, Data

-----------------------------------------------------------------------------
HIDE DEF Frames, None, PutSteps, GetSteps, ClearSteps, EncSteps, PutGoes, GetGoes, EncGoes,
         InUse, EncWoken, inVars, outVars, putVars, getVars, encVars

(* The inductive invariant of the encoder context: each queue's one task   *)
(* is in one place, and every frame and every packet is accounted for,     *)
(* whatever put_frame, get_packet, the control thread and Mpp::clear       *)
(* interleave.                                                             *)
THEOREM EncInvariant == Spec => []IInv
<1>1. IInv /\ [Next]_vars => IInv'
  BY InitContextStep, PutStep, GetStep, EncStep, ClearStep, StutterStep DEF Next
<1> QED BY <1>1, InitIInv, PTL DEF Spec

(* Both queues and every field of the context keep their types.            *)
THEOREM EncTypeOK == Spec => []TypeOK
<1>1. IInv => TypeOK
  BY DEF IInv
<1> QED BY <1>1, EncInvariant, PTL

(* No frame is released while it is in the input task or in the encoder's  *)
(* hands: put_frame's second poll answers only when the frame is encoded.  *)
THEOREM EncFrameInUseKept == Spec => []FrameInUseKept
<1>1. IInv => FrameInUseKept
  BY DEF IInv, FramesAccounted, FrameInUseKept
<1> QED BY <1>1, EncInvariant, PTL

(* After Mpp::clear there is no packet left in the context, and each frame *)
(* that was put is released, or in the one task, on the input port.        *)
THEOREM EncClearLeavesNothing == Spec => []ClearLeavesNothing
<1>1. ASSUME IInv, clearAt = "done"
      PROVE  /\ live = {}
             /\ \A f \in 1 .. put : f \in released \/ (f = inFrame /\ inStatus[1] = "INPUT_PORT")
  <2>1. encAt = "gone" /\ inStatus[1] = "INPUT_PORT" /\ outStatus[1] = "INPUT_PORT"
    BY <1>1 DEF IInv, LifeCycle
  <2>2. live = {}
    BY <1>1, <2>1 DEF IInv, PacketsAccounted, None
  <2>3. encFrame = 0 /\ released = (1 .. put) \ {inFrame, 0}
    BY <1>1, <2>1 DEF IInv, FramesAccounted, None
  <2> QED BY <2>1, <2>2, <2>3
<1>2. IInv => ClearLeavesNothing
  BY <1>1 DEF ClearLeavesNothing
<1> QED BY <1>2, EncInvariant, PTL

(* get_packet returns packet after packet, none skipped and none twice.    *)
THEOREM EncPacketsInOrder == Spec => PacketsInOrder
<1>1. ASSUME IInv, [Next]_vars, got' # got
      PROVE  got' = got + 1
  <2>1. GetTakes
    BY <1>1 DEF vars, getVars, Next, InitContext,
       Put, PutFindsTask, PutWaits, PutWakes, PutTakes, PutEnqueues, PutFindsItBack,
       PutWaitsForIt, PutWakesWithIt, PutReleases, PutGivesEmpty,
       Get, GetFindsTask, GetWaits, GetWakes, GetGives,
       Enc, EncLoops, EncSleeps, EncTakes, EncGivesEmptyBack, EncEncodes, EncReturns,
       EncFindsOutput, EncBlocks, EncWakes, EncTakesOutput, EncSends, EncDropsPacket,
       EncReleasesFrame, EncReleasesPacket, EncGivesReleased, EncExits,
       Clear, ClearStopping, ClearAwakes, ClearStops, ClearEnds
  <2>2. clearAt = "no" /\ got' = outPacket
    BY <2>1 DEF GetTakes, GetGoes, InUse
  <2>3. outStatus[1] = "OUTPUT_PORT"
    BY <1>1, <2>1, OutDequeue, Parts DEF GetTakes, Curr
  <2> QED BY <1>1, <2>2, <2>3 DEF IInv, PacketsAccounted
<1>2. IInv /\ [Next]_vars => (got' # got => got' = got + 1)
  BY <1>1
<1>3. IInv /\ [Next]_vars => [got' # got => got' = got + 1]_vars
  BY <1>2
<1> QED BY <1>3, EncInvariant, PTL DEF Spec, PacketsInOrder
=============================================================================
