----------------------------- MODULE ParserWork -----------------------------
(***************************************************************************)
(* What the parsers of mpp/codec/dec do to the frame slots.  A call of a   *)
(* parser (parse, flush, reset) makes many operations on the slots, each   *)
(* of them under their lock; it is modelled as an operator from a work     *)
(* record to a work record, built from the operators below.                *)
(***************************************************************************)
EXTENDS BufSlots

(* The work of a call on the context c: the parser's context, the slots    *)
(* and the display queue, the fields of the task that the call fills       *)
(* (output, refer, valid, flags.eos), and whether the slots ran out, which *)
(* aborts the process in mpp_buf_slot_get_unused.                          *)
Work(c) ==
    [ctx |-> c, slot |-> slot, display |-> display, out |-> NoSlot, refer |-> <<>>,
     valid |-> FALSE, eos |-> FALSE, full |-> FALSE, puts |-> <<>>]

Set(w, i, flag) == [w EXCEPT !.slot[i] = SetFlag(@, flag)]
Clr(w, i, flag) == [w EXCEPT !.slot[i] = ClrFlag(@, flag)]

(* SLOT_QUEUE_USE, and to the tail of the display queue.  Both count.      *)
Display(w, i) ==
    [w EXCEPT !.slot[i]  = SetFlag(SetFlag(@, "QUEUE_USE"), "QUEUE_USE"),
              !.display  = Enqueued(@, i)]

(* mpp_buf_slot_get_unused and SLOT_FRAME: the first free entry is the     *)
(* task's output and has the frame of picture id.                          *)
FreeIn(w) == {i \in Slots : ~w.slot[i].onUsed}
NewOutput(w, id) ==
    IF FreeIn(w) = {}
    THEN [w EXCEPT !.full = TRUE, !.out = CHOOSE i \in Slots : TRUE]
    ELSE LET i == CHOOSE i \in FreeIn(w) : \A j \in FreeIn(w) : i <= j
         IN [w EXCEPT !.slot[i] = [Taken(@) EXCEPT !.frame = id], !.out = i]

(* The picture's slot is the hardware's output.                            *)
Output(w, id) == LET n == NewOutput(w, id) IN Set(n, n.out, "HAL_OUTPUT")

(* The slot, if it is one, is read by the hardware for this task.          *)
Read(w, i) ==
    IF i = NoSlot THEN w ELSE [Set(w, i, "HAL_INPUT") EXCEPT !.refer = Append(@, i)]

(* The parser lets a slot go, if it is one.                                *)
Release(w, i) == IF i = NoSlot THEN w ELSE Clr(w, i, "CODEC_USE")

Done(w, c) == [w EXCEPT !.ctx = c, !.valid = TRUE]
Failed(w, c) == [w EXCEPT !.ctx = c]
=============================================================================
