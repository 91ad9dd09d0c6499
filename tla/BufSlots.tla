------------------------------ MODULE BufSlots ------------------------------
(***************************************************************************)
(* The frame buffer slots of a decoder (mpp/base/mpp_buf_slot.cpp): a      *)
(* table of entries that the parser, the HAL thread and the display queue  *)
(* share.  An entry has a flag or a counter for each kind of user, and is  *)
(* free again when the last of them is gone.                               *)
(*                                                                         *)
(* An operation on one entry is an operator on its record: every caller    *)
(* makes several of them in a row, each under the lock of the slots.       *)
(***************************************************************************)
EXTENDS Integers, Sequences, SequencesExt

CONSTANTS
    SlotCount,  \* count of mpp_buf_slot_setup
    NoSlot,     \* slot index -1
    NoFrame,    \* a slot without MppFrame
    NoBuffer    \* a NULL MppBuffer

ASSUME SlotsAssumption == SlotCount \in Nat \ {0} /\ NoSlot \notin 1 .. SlotCount

Slots == 1 .. SlotCount

VARIABLES
    slot,        \* slot[i]: the MppBufSlotEntry i
    display,     \* queue[QUEUE_DISPLAY], head first
    info,        \* the frame information in force (impl->info)
    infoSet,     \* the information of the latest frame (impl->info_set)
    infoChanged  \* impl->info_changed

slotVars == <<slot, display, info, infoSet, infoChanged>>

Unused == [onUsed |-> FALSE, notReady |-> FALSE, codecUse |-> FALSE,
           halOutput |-> FALSE, halUse |-> 0, queueUse |-> 0,
           frame |-> NoFrame, buffer |-> NoBuffer]

SlotsInit(noInfo) ==
    /\ slot = [i \in Slots |-> Unused]
    /\ display = <<>>
    /\ info = noInfo
    /\ infoSet = noInfo
    /\ infoChanged = FALSE

(* slot_ops_with_log: hal_use has 8 bits, queue_use 5; neither goes below  *)
(* zero.                                                                   *)
Less(n) == IF n = 0 THEN 0 ELSE n - 1

SetFlag(e, flag) ==
    CASE flag = "CODEC_USE"   -> [e EXCEPT !.codecUse = TRUE]
      [] flag = "HAL_INPUT"   -> [e EXCEPT !.halUse = (@ + 1) % 256]
      [] flag = "HAL_OUTPUT"  -> [e EXCEPT !.halOutput = TRUE, !.notReady = TRUE]
      [] flag = "QUEUE_USE"   -> [e EXCEPT !.queueUse = (@ + 1) % 32]
      [] flag = "CODEC_READY" -> [e EXCEPT !.notReady = FALSE]

Cleared(e, flag) ==
    CASE flag = "CODEC_USE"   -> [e EXCEPT !.codecUse = FALSE]
      [] flag = "HAL_INPUT"   -> [e EXCEPT !.halUse = Less(@)]
      [] flag = "HAL_OUTPUT"  -> [e EXCEPT !.halOutput = FALSE, !.notReady = FALSE]
      [] flag = "QUEUE_USE"   -> [e EXCEPT !.queueUse = Less(@)]

(* A wrong check: it forgets that the hardware may still read the slot.    *)
ReleasedWhileRead(e) ==
    IF e.onUsed /\ ~e.notReady /\ ~e.codecUse /\ ~e.halOutput /\ e.queueUse = 0
    THEN [e EXCEPT !.onUsed = FALSE, !.frame = NoFrame, !.buffer = NoBuffer]
    ELSE e

(* Another: it forgets the display queue.                                  *)
ReleasedWhileQueued(e) ==
    IF e.onUsed /\ ~e.notReady /\ ~e.codecUse /\ ~e.halOutput /\ e.halUse = 0
    THEN [e EXCEPT !.onUsed = FALSE, !.frame = NoFrame, !.buffer = NoBuffer]
    ELSE e

(* Another: the slot is free, and its buffer is never put.                 *)
ReleasedWithBuffer(e) ==
    IF /\ e.onUsed /\ ~e.notReady /\ ~e.codecUse /\ ~e.halOutput
       /\ e.halUse = 0 /\ e.queueUse = 0
    THEN [e EXCEPT !.onUsed = FALSE, !.frame = NoFrame]
    ELSE e

(* Another: frame and buffer are let go, and the slot stays taken.         *)
ReleasedStaysUsed(e) ==
    IF /\ e.onUsed /\ ~e.notReady /\ ~e.codecUse /\ ~e.halOutput
       /\ e.halUse = 0 /\ e.queueUse = 0
    THEN [e EXCEPT !.frame = NoFrame, !.buffer = NoBuffer]
    ELSE e

(* check_entry_unused: the last user is gone, frame and buffer are let go. *)
Released(e) ==
    IF /\ e.onUsed /\ ~e.notReady /\ ~e.codecUse /\ ~e.halOutput
       /\ e.halUse = 0 /\ e.queueUse = 0
    THEN [e EXCEPT !.onUsed = FALSE, !.frame = NoFrame, !.buffer = NoBuffer]
    ELSE e

(* mpp_buf_slot_clr_flag.                                                  *)
ClrFlag(e, flag) == Released(Cleared(e, flag))

(* mpp_buf_slot_get_unused takes the first free entry.  With none it       *)
(* aborts the process.                                                     *)
FreeSlots   == {i \in Slots : ~slot[i].onUsed}
FirstFree   == CHOOSE i \in FreeSlots : \A j \in FreeSlots : i <= j
Taken(e)    == [e EXCEPT !.onUsed = TRUE, !.notReady = TRUE]

(* list_del_init: the queue without slot i, if it is there.                *)
Unqueued(q, i) ==
    IF i \in ToSet(q) THEN RemoveAt(q, CHOOSE k \in 1 .. Len(q) : q[k] = i) ELSE q

(* mpp_buf_slot_enqueue: to the tail of the display queue, once.           *)
Enqueued(q, i) == Append(Unqueued(q, i), i)

(* A wrong look at the queue: the picture may not be finished.             *)
DisplayQueued == display # <<>>

(* mpp_buf_slot_dequeue fails on an empty queue and on a head that the     *)
(* hardware has not finished.                                              *)
DisplayReady == display # <<>> /\ ~slot[Head(display)].notReady

(* A wrong check: only the first format is a change.                       *)
DetectFirst(f) ==
    /\ infoSet' = f
    /\ infoChanged' = (infoChanged \/ info = 0)

(* mpp_buf_slot_set_prop of a frame whose information is f.                *)
DetectChange(f) ==
    /\ infoSet' = f
    /\ infoChanged' = (infoChanged \/ info # f)

(* mpp_buf_slot_ready.                                                     *)
SlotsReady ==
    /\ info' = infoSet
    /\ infoChanged' = FALSE
    /\ UNCHANGED <<slot, display, infoSet>>

(* mpp_buf_slot_reset of an entry: off the display queue, and unused,      *)
(* whatever flags it still has.                                            *)
ResetEntry(e) == [e EXCEPT !.queueUse = Less(Less(@)), !.onUsed = FALSE]

SlotsTypeOK(Frames, Buffers, Infos) ==
    /\ slot \in [Slots ->
          [onUsed : BOOLEAN, notReady : BOOLEAN, codecUse : BOOLEAN, halOutput : BOOLEAN,
           halUse : 0 .. 255, queueUse : 0 .. 31,
           frame : Frames \union {NoFrame}, buffer : Buffers \union {NoBuffer}]]
    /\ display \in Seq(Slots)
    /\ info \in Infos
    /\ infoSet \in Infos
    /\ infoChanged \in BOOLEAN
=============================================================================
