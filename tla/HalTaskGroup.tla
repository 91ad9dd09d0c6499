---------------------------- MODULE HalTaskGroup ----------------------------
(***************************************************************************)
(* The HAL task group of a decoder (mpp/hal/hal_task.cpp): a fixed set of  *)
(* tasks, each on the list of its status.  The parser thread takes an idle *)
(* task, fills it and sends it to processing; the HAL thread takes it from *)
(* there and marks it done or idle.  Getting a handle only looks at the    *)
(* head of a list: the task stays on it until its status is set.           *)
(***************************************************************************)
EXTENDS Integers, Sequences, SequencesExt

CONSTANTS
    TaskCount,  \* task_count of hal_task_group_init
    NoTask      \* a NULL HalTaskHnd

ASSUME HalTasksAssumption == TaskCount \in Nat \ {0} /\ NoTask \notin 1 .. TaskCount

HalTasks == 1 .. TaskCount

(* TASK_PREPARE and TASK_WAIT_PROC are declared, and set by nobody.        *)
HalTaskStatuses == {"IDLE", "PROCESSING", "PROC_DONE"}

VARIABLES
    taskList,   \* taskList[s]: the list of status s, head first
    taskStatus, \* taskStatus[t]
    taskInfo    \* taskInfo[t]: the HalTaskInfo copied into the task

groupVars == <<taskList, taskStatus, taskInfo>>

GroupInit(info) ==
    /\ taskList = [s \in HalTaskStatuses |->
                      IF s = "IDLE" THEN [i \in HalTasks |-> i] ELSE <<>>]
    /\ taskStatus = [t \in HalTasks |-> "IDLE"]
    /\ taskInfo = [t \in HalTasks |-> info]

(* hal_task_check_empty, and the handle hal_task_get_hnd finds.            *)
NoneIn(s) == taskList[s] = <<>>
HndIn(s)  == IF NoneIn(s) THEN NoTask ELSE Head(taskList[s])

(* list_del_init: s without t, if it is there.                             *)
Unlisted(s, t) ==
    IF t \in ToSet(s) THEN RemoveAt(s, CHOOSE i \in 1 .. Len(s) : s[i] = t) ELSE s

(* A wrong move: the task goes to the head of its new list.                *)
MovedToHead(lists, t, from, to) ==
    LET left == [lists EXCEPT ![from] = Unlisted(@, t)]
    IN [left EXCEPT ![to] = <<t>> \o @]

(* hal_task_hnd_set_status: off its list, to the tail of the new one (the  *)
(* same list, perhaps).                                                    *)
Moved(lists, t, from, to) ==
    LET left == [lists EXCEPT ![from] = Unlisted(@, t)]
    IN [left EXCEPT ![to] = Append(@, t)]

SetStatus(t, s) ==
    /\ taskList' = Moved(taskList, t, taskStatus[t], s)
    /\ taskStatus' = [taskStatus EXCEPT ![t] = s]

(* Every task is once on the list of its status, and on no other.          *)
GroupTypeOK(Infos) ==
    /\ taskList \in [HalTaskStatuses -> Seq(HalTasks)]
    /\ taskStatus \in [HalTasks -> HalTaskStatuses]
    /\ taskInfo \in [HalTasks -> Infos]
    /\ \A s \in HalTaskStatuses :
          /\ IsInjective(taskList[s])
          /\ ToSet(taskList[s]) = {t \in HalTasks : taskStatus[t] = s}
=============================================================================
