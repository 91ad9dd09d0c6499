------------------------------ MODULE MppQueue ------------------------------
(***************************************************************************)
(* MppQueue (osal/mpp_queue.cpp): an mpp_list with a semaphore that counts *)
(* what was pushed and a flag that flush raises.  push and flush are       *)
(* called with the list's mutex held; pull looks at the flag and waits on  *)
(* the semaphore WITHOUT it.  So every write of push and flush that a pull *)
(* can see half-way is a step of its own, and pull is three steps.         *)
(***************************************************************************)
EXTENDS Integers, Sequences

VARIABLES
    entries,   \* the list, head first
    pending,   \* the value of the semaphore mQueuePending
    flushFlag  \* mFlushFlag

mppQueueVars == <<entries, pending, flushFlag>>

MppQueueInit ==
    /\ entries = <<>>
    /\ pending = 0
    /\ flushFlag = FALSE

(* A wrong list: last in, first out.                                       *)
AddAtHead(x) ==
    /\ entries' = <<x>> \o entries
    /\ UNCHANGED <<pending, flushFlag>>

(* push: add_at_tail, mFlushFlag = 0, sem_post.                            *)
AddAtTail(x) ==
    /\ entries' = Append(entries, x)
    /\ UNCHANGED <<pending, flushFlag>>

LowerFlag ==
    /\ flushFlag' = FALSE
    /\ UNCHANGED <<entries, pending>>

(* A wrong post: none is sent when one is pending already.                 *)
PostOnce ==
    /\ pending' = 1
    /\ UNCHANGED <<entries, flushFlag>>

Post ==
    /\ pending' = pending + 1
    /\ UNCHANGED <<entries, flushFlag>>

(* flush: mFlushFlag = 1, sem_post, and the list is emptied.               *)
RaiseFlag ==
    /\ flushFlag' = TRUE
    /\ UNCHANGED <<entries, pending>>

EmptyList ==
    /\ entries' = <<>>
    /\ UNCHANGED <<pending, flushFlag>>

(* del_at_head of a non-empty list.                                        *)
DelAtHead(x) ==
    /\ entries # <<>>
    /\ x = Head(entries)
    /\ entries' = Tail(entries)
    /\ UNCHANGED <<pending, flushFlag>>

(* A wrong wait: the count goes down first and is not looked at.           *)
WaitUnguarded ==
    /\ pending' = pending - 1
    /\ UNCHANGED <<entries, flushFlag>>

(* pull: sem_wait returns.                                                *)
WaitPending ==
    /\ pending > 0
    /\ pending' = pending - 1
    /\ UNCHANGED <<entries, flushFlag>>
=============================================================================
