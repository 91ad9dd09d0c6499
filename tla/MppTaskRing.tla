---------------------------- MODULE MppTaskRing -----------------------------
(***************************************************************************)
(* What a task queue promises its two sides: a bounded first-in-first-out  *)
(* channel.  The producer takes the oldest empty task, fills it and puts   *)
(* it; the consumer takes tasks in the order in which they were put and    *)
(* gives them back.  Nobody sees lists, counters or conditions.            *)
(***************************************************************************)
EXTENDS Integers, Sequences

CONSTANT Supply  \* the tasks the channel starts with, in order

VARIABLES
    empty,    \* tasks ready to be filled, oldest first
    filling,  \* tasks the producer side holds
    filled,   \* tasks put and not taken yet, oldest first
    draining  \* tasks the consumer side holds

ringVars == <<empty, filling, filled, draining>>

Init ==
    /\ empty = <<>>
    /\ filling = {}
    /\ filled = <<>>
    /\ draining = {}

Provide ==
    /\ empty = <<>> /\ filled = <<>> /\ filling = {} /\ draining = {}
    /\ empty' = Supply
    /\ UNCHANGED <<filling, filled, draining>>

TakeEmpty ==
    /\ empty # <<>>
    /\ empty' = Tail(empty)
    /\ filling' = filling \union {Head(empty)}
    /\ UNCHANGED <<filled, draining>>

PutFilled(t) ==
    /\ t \in filling
    /\ filling' = filling \ {t}
    /\ filled' = Append(filled, t)
    /\ UNCHANGED <<empty, draining>>

TakeFilled ==
    /\ filled # <<>>
    /\ filled' = Tail(filled)
    /\ draining' = draining \union {Head(filled)}
    /\ UNCHANGED <<empty, filling>>

GiveBack(t) ==
    /\ t \in draining
    /\ draining' = draining \ {t}
    /\ empty' = Append(empty, t)
    /\ UNCHANGED <<filling, filled>>

Next ==
    \/ Provide
    \/ TakeEmpty
    \/ \E t \in filling : PutFilled(t)
    \/ TakeFilled
    \/ \E t \in draining : GiveBack(t)

Spec == Init /\ [][Next]_ringVars
=============================================================================
