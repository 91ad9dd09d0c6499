---------------------------- MODULE MppTaskPorts ----------------------------
(***************************************************************************)
(* Client threads on the two ports of one MppTaskQueue.  Each thread loops *)
(* the way every caller of the ports does: poll the port, dequeue a task,  *)
(* work on it, enqueue it on the same port.  A thread may skip the poll    *)
(* (the encoder's control thread dequeues its input port straight away),   *)
(* and a thread whose poll fails starts over.                              *)
(***************************************************************************)
EXTENDS MppTaskQueue, FiniteSets

CONSTANTS
    PortOf,  \* the port each thread uses
    NoTask   \* a NULL MppTask

ASSUME PortsAssumption ==
    /\ PortOf \in [Threads -> Ports]
    /\ NoTask \notin Tasks

VARIABLES
    pc,   \* "idle", "block" or "timed" (inside the wait), "polled", "hold"
    held  \* the task a thread has dequeued and not enqueued

clientVars == <<pc, held>>
vars == <<life, list, count, status, blocked, woken, pc, held>>

Goto(th, from, to) ==
    /\ pc[th] = from
    /\ pc' = [pc EXCEPT ![th] = to]

Init ==
    /\ QueueInit
    /\ pc = [th \in Threads |-> "idle"]
    /\ held = [th \in Threads |-> NoTask]

SetupQueue ==
    /\ Setup
    /\ UNCHANGED clientVars

PollFindsTask(th) ==
    /\ Goto(th, "idle", "polled")
    /\ PollHit(PortOf[th])
    /\ UNCHANGED held

PollBlocks(th) ==
    /\ \E wait \in {"block", "timed"} : Goto(th, "idle", wait)
    /\ PollWait(th, PortOf[th])
    /\ UNCHANGED held

(* A wrong poll: whoever is signalled is told that there is a task.        *)
PollAnswersUnchecked(th) ==
    /\ \E wait \in {"block", "timed"} : Goto(th, wait, "polled")
    /\ \/ PollWake(th, PortOf[th])
       \/ pc[th] = "timed" /\ PollTimeout(th, PortOf[th])
    /\ UNCHANGED held

(* The wait is over: poll looks at the counter once more and answers.      *)
PollAnswers(th) ==
    /\ \E wait \in {"block", "timed"} :
          Goto(th, wait, IF HasTask(PortOf[th]) THEN "polled" ELSE "idle")
    /\ \/ PollWake(th, PortOf[th])
       \/ pc[th] = "timed" /\ PollTimeout(th, PortOf[th])
    /\ UNCHANGED held

DequeueEmpty(th) ==
    /\ Goto(th, "polled", "idle")
    /\ DequeueNone(PortOf[th])
    /\ UNCHANGED held

DequeueTask(th) ==
    /\ \E from \in {"idle", "polled"} : Goto(th, from, "hold")
    /\ \E t \in Tasks :
          /\ Dequeue(PortOf[th], t)
          /\ held' = [held EXCEPT ![th] = t]

(* A wrong caller: it keeps its pointer to the task it has given away.     *)
EnqueueKeepsTask(th) ==
    /\ Goto(th, "hold", "idle")
    /\ Enqueue(PortOf[th], held[th])
    /\ UNCHANGED held

EnqueueTask(th) ==
    /\ Goto(th, "hold", "idle")
    /\ Enqueue(PortOf[th], held[th])
    /\ held' = [held EXCEPT ![th] = NoTask]

AwakePort(p) ==
    /\ Awake(p)
    /\ UNCHANGED clientVars

Client(th) ==
    \/ PollFindsTask(th)
    \/ PollBlocks(th)
    \/ PollAnswers(th)
    \/ DequeueEmpty(th)
    \/ DequeueTask(th)
    \/ EnqueueTask(th)

Next ==
    \/ SetupQueue
    \/ \E th \in Threads : Client(th)
    \/ \E p \in Ports : AwakePort(p)

Spec == Init /\ [][Next]_vars

(***************************************************************************)
(* A worker thread (the codec thread on the output port) is a loop that    *)
(* the scheduler keeps running; nothing obliges the user of the other port *)
(* to call again.                                                          *)
(***************************************************************************)
Workers == {th \in Threads : PortOf[th] = "output"}

FairSpec ==
    /\ Spec
    /\ \A th \in Workers :
          /\ WF_vars(PollFindsTask(th))
          /\ WF_vars(PollAnswers(th))
          /\ WF_vars(DequeueEmpty(th))
          /\ WF_vars(DequeueTask(th))
          /\ WF_vars(EnqueueTask(th))

-----------------------------------------------------------------------------
TypeOK ==
    /\ QueueTypeOK
    /\ pc \in [Threads -> {"idle", "block", "timed", "polled", "hold"}]
    /\ held \in [Threads -> Tasks \union {NoTask}]

(* Every task in a hold list is in the hands of exactly one thread, of the *)
(* port that dequeued it, so no two threads ever fill the same task.       *)
HeldOnce ==
    /\ \A th \in Threads : pc[th] = "hold" <=> held[th] # NoTask
    /\ \A th \in Threads :
          held[th] # NoTask => status[held[th]] = NextOnDequeue(PortOf[th])
    /\ \A th, ot \in Threads : held[th] # NoTask /\ held[th] = held[ot] => th = ot
    /\ \A t \in Tasks :
          status[t] \in {"INPUT_HOLD", "OUTPUT_HOLD"} => \E th \in Threads : held[th] = t

(* A thread is on the wait set of its own port's condition, or signalled   *)
(* there, exactly while it is inside the wait of mpp_port_poll.            *)
WaitersInPoll ==
    \A th \in Threads, s \in PortStatuses :
        /\ th \in blocked[s] \union woken[s] =>
              s = StatusCurr(PortOf[th]) /\ pc[th] \in {"block", "timed"}
        /\ ~(th \in blocked[s] /\ th \in woken[s])

(* Before mpp_task_queue_setup there is no task to find anywhere.          *)
NothingBeforeSetup ==
    life = "inited" =>
        /\ \A s \in Statuses : list[s] = <<>>
        /\ \A t \in Tasks : status[t] = "INPUT_PORT"

(* The inductive invariant behind the safety properties.                   *)
IInv ==
    /\ TypeOK
    /\ NothingBeforeSetup
    /\ ListsPartition
    /\ HeldOnce
    /\ WaitersInPoll

(* A thread alone on its port finds a task where poll promised one: what   *)
(* mpp_task_test.c asserts of each poll/dequeue pair.                      *)
PollPromiseKept ==
    \A th \in Threads :
        /\ pc[th] = "polled"
        /\ \A ot \in Threads \ {th} : PortOf[ot] # PortOf[th]
        => HasTask(PortOf[th])

(* Every task put on the output port is taken by a worker, in spite of     *)
(* polls that time out, are woken for nothing or lose the task to another. *)
TaskReachesWorker ==
    \A t \in Tasks : status[t] = "OUTPUT_PORT" ~> status[t] = "OUTPUT_HOLD"

(* The queue implements the first-in-first-out channel of MppTaskRing.     *)
TasksOf(s) == {list[s][i] : i \in 1 .. Len(list[s])}

Ring == INSTANCE MppTaskRing WITH
            Supply   <- [i \in Tasks |-> i],
            empty    <- list["INPUT_PORT"],
            filling  <- TasksOf("INPUT_HOLD"),
            filled   <- list["OUTPUT_PORT"],
            draining <- TasksOf("OUTPUT_HOLD")

RingSpec == Ring!Spec
=============================================================================
