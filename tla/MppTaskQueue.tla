---------------------------- MODULE MppTaskQueue ----------------------------
(***************************************************************************)
(* One MppTaskQueue (mpp/base/mpp_task_impl.cpp): a fixed set of tasks     *)
(* that circulate between an input port and an output port.  Each task is  *)
(* on exactly one of four lists, one per status:                           *)
(*                                                                         *)
(*      INPUT_PORT  --dequeue(input)-->   INPUT_HOLD                       *)
(*          ^                                 |                            *)
(*   enqueue(output)                    enqueue(input)                     *)
(*          |                                 v                            *)
(*      OUTPUT_HOLD <--dequeue(output)-- OUTPUT_PORT                       *)
(*                                                                         *)
(* Every operation runs under the queue's one mutex, so it is one step,    *)
(* except mpp_port_poll, which releases the mutex while it waits on the    *)
(* condition of its port: it is a step up to the wait and a step after it. *)
(*                                                                         *)
(* The module holds the queue's state and operations.  The threads that    *)
(* call them are in MppTaskPorts (any client) and MppEnc (the encoder).    *)
(***************************************************************************)
EXTENDS Integers, Sequences, SequencesExt

CONSTANTS
    TaskCount,  \* task_count of mpp_task_queue_setup
    Threads     \* the threads that may wait on the queue's conditions

ASSUME TaskCountAssumption == TaskCount \in Nat \ {0}

Tasks    == 1 .. TaskCount
Ports    == {"input", "output"}
Statuses == {"INPUT_PORT", "INPUT_HOLD", "OUTPUT_PORT", "OUTPUT_HOLD"}

(* The two statuses that own a Condition.                                  *)
PortStatuses == {"INPUT_PORT", "OUTPUT_PORT"}

VARIABLES
    life,     \* "inited", "ready" (the flag ready) or "freed"
    list,     \* list[s]: the tasks of info[s].list, head first
    count,    \* count[s]: info[s].count
    status,   \* status[t]: the task's own status field
    blocked,  \* blocked[s]: threads waiting on info[s].cond
    woken     \* woken[s]: threads signalled there, still to take the mutex back

queueVars == <<life, list, count, status, blocked, woken>>

(***************************************************************************)
(* The three statuses mpp_port_init writes into a port.                    *)
(***************************************************************************)
StatusCurr(p)    == IF p = "input" THEN "INPUT_PORT" ELSE "OUTPUT_PORT"
NextOnDequeue(p) == IF p = "input" THEN "INPUT_HOLD" ELSE "OUTPUT_HOLD"
NextOnEnqueue(p) == IF p = "input" THEN "OUTPUT_PORT" ELSE "INPUT_PORT"

-----------------------------------------------------------------------------
QueueInit ==
    /\ life = "inited"
    /\ list = [s \in Statuses |-> <<>>]
    /\ count = [s \in Statuses |-> 0]
    /\ status = [t \in Tasks |-> "INPUT_PORT"]
    /\ blocked = [s \in PortStatuses |-> {}]
    /\ woken = [s \in PortStatuses |-> {}]

(***************************************************************************)
(* mpp_task_queue_setup: all tasks go to the input port in index order.    *)
(***************************************************************************)
Setup ==
    /\ life = "inited"
    /\ life' = "ready"
    /\ list' = [list EXCEPT !["INPUT_PORT"] = @ \o [i \in Tasks |-> i]]
    /\ count' = [count EXCEPT !["INPUT_PORT"] = @ + TaskCount]
    /\ UNCHANGED <<status, blocked, woken>>

(* A wrong signal: it is lost although somebody waits.                     *)
SignalLost(s) == UNCHANGED <<blocked, woken>>

(* Condition::signal wakes one waiter, whichever, and is lost on nobody.   *)
Signal(s) ==
    \/ /\ blocked[s] = {}
       /\ UNCHANGED <<blocked, woken>>
    \/ \E th \in blocked[s] :
          /\ blocked' = [blocked EXCEPT ![s] = @ \ {th}]
          /\ woken' = [woken EXCEPT ![s] = @ \union {th}]

(* A wrong list_del: the first entry goes, whichever task it is.           *)
UnlinkFirst(s, t) == Tail(s)

(* The list s without task t (list_del_init).                              *)
Unlink(s, t) == RemoveAt(s, CHOOSE i \in 1 .. Len(s) : s[i] = t)

(* Two wrong moves: to the head of the next list, and without its count++. *)
MoveTaskToHead(t, from, to) ==
    /\ list' = [list EXCEPT ![from] = Unlink(@, t), ![to] = <<t>> \o @]
    /\ count' = [count EXCEPT ![from] = @ - 1, ![to] = @ + 1]
    /\ status' = [status EXCEPT ![t] = to]

MoveTaskUncounted(t, from, to) ==
    /\ list' = [list EXCEPT ![from] = Unlink(@, t), ![to] = Append(@, t)]
    /\ count' = [count EXCEPT ![from] = @ - 1]
    /\ status' = [status EXCEPT ![t] = to]

(* What dequeue and enqueue do under the mutex: the task leaves one list   *)
(* for the tail of the next one; both counters and its status follow.      *)
MoveTask(t, from, to) ==
    /\ list' = [list EXCEPT ![from] = Unlink(@, t), ![to] = Append(@, t)]
    /\ count' = [count EXCEPT ![from] = @ - 1, ![to] = @ + 1]
    /\ status' = [status EXCEPT ![t] = to]

-----------------------------------------------------------------------------
(***************************************************************************)
(* mpp_port_poll.  It answers MPP_OK at once when the port has a task; it  *)
(* answers MPP_NOK at once on a queue that is not ready, or when the call  *)
(* is non-blocking; otherwise it waits ONCE and answers by what it finds.  *)
(***************************************************************************)
HasTask(p) == count[StatusCurr(p)] > 0

PollHit(p) ==
    /\ life = "ready"
    /\ HasTask(p)
    /\ UNCHANGED queueVars

PollWait(th, p) ==
    /\ life = "ready"
    /\ ~HasTask(p)
    /\ blocked' = [blocked EXCEPT ![StatusCurr(p)] = @ \union {th}]
    /\ UNCHANGED <<life, list, count, status, woken>>

(* The wait of a signalled thread returns; the answer is HasTask(p).       *)
PollWake(th, p) ==
    /\ th \in woken[StatusCurr(p)]
    /\ woken' = [woken EXCEPT ![StatusCurr(p)] = @ \ {th}]
    /\ UNCHANGED <<life, list, count, status, blocked>>

(* A timed wait runs out before any signal reached it.                     *)
PollTimeout(th, p) ==
    /\ th \in blocked[StatusCurr(p)]
    /\ blocked' = [blocked EXCEPT ![StatusCurr(p)] = @ \ {th}]
    /\ UNCHANGED <<life, list, count, status, woken>>

(***************************************************************************)
(* mpp_port_dequeue: the head of the port's list moves to the hold list.   *)
(* DequeueNone is the call that finds the port empty (task NULL).          *)
(***************************************************************************)
DequeueNone(p) ==
    /\ life = "ready"
    /\ ~HasTask(p)
    /\ UNCHANGED queueVars

Dequeue(p, t) ==
    /\ life = "ready"
    /\ HasTask(p)
    /\ t = Head(list[StatusCurr(p)])
    /\ MoveTask(t, StatusCurr(p), NextOnDequeue(p))
    /\ UNCHANGED <<life, blocked, woken>>

(***************************************************************************)
(* mpp_port_enqueue: the task leaves the list of its own status, whatever  *)
(* that is (the assert on it does not abort by default), goes to the tail  *)
(* of the other port's list, and one waiter of that port is signalled.     *)
(***************************************************************************)
Enqueue(p, t) ==
    /\ life = "ready"
    /\ MoveTask(t, status[t], NextOnEnqueue(p))
    /\ Signal(NextOnEnqueue(p))
    /\ UNCHANGED life

(* mpp_port_awake: one waiter of the port is signalled, nothing else.      *)
Awake(p) ==
    /\ life # "freed"
    /\ Signal(StatusCurr(p))
    /\ UNCHANGED <<life, list, count, status>>

(***************************************************************************)
(* mpp_task_queue_deinit: both ports are signalled, then everything is     *)
(* freed.  Its callers have stopped every other thread that uses the       *)
(* queue, so nobody waits on a condition it deletes.                       *)
(***************************************************************************)
Deinit ==
    /\ life # "freed"
    /\ \A s \in PortStatuses : blocked[s] = {} /\ woken[s] = {}
    /\ life' = "freed"
    /\ UNCHANGED <<list, count, status, blocked, woken>>

-----------------------------------------------------------------------------
QueueTypeOK ==
    /\ life \in {"inited", "ready", "freed"}
    /\ list \in [Statuses -> Seq(Tasks)]
    /\ count \in [Statuses -> Nat]
    /\ status \in [Tasks -> Statuses]
    /\ blocked \in [PortStatuses -> SUBSET Threads]
    /\ woken \in [PortStatuses -> SUBSET Threads]

(* The list of a status holds each of its tasks once and nothing else, and *)
(* its counter is its length: what mpp_port_poll and mpp_port_dequeue      *)
(* assume when they test the counter and then take the head of the list.   *)
ListsAgree ==
    \A s \in Statuses :
        /\ count[s] = Len(list[s])
        /\ \A i, j \in 1 .. Len(list[s]) : list[s][i] = list[s][j] => i = j
        /\ \A i \in 1 .. Len(list[s]) : status[list[s][i]] = s

(* Once the queue is set up, no task is ever missing from its list.        *)
NoTaskLost ==
    life # "inited" =>
        \A t \in Tasks : \E i \in 1 .. Len(list[status[t]]) : list[status[t]][i] = t

(* The four lists of mpp_task_impl.cpp partition the tasks, in step with   *)
(* the counters and the status fields, whatever the threads on the two     *)
(* ports interleave.                                                       *)
ListsPartition == ListsAgree /\ NoTaskLost
=============================================================================
