----------------------------- MODULE H264Parser -----------------------------
(***************************************************************************)
(* The H.264 parser (mpp/codec/dec/h264), one picture a packet, base view. *)
(* The decoded picture buffer keeps frame stores in decoding order; a mark *)
(* says what a frame slot is still needed for: how many picture records    *)
(* have its top and its bottom field, and whether it waits for output.     *)
(* A picture record is not modelled apart from its store: a store has the  *)
(* marks of its frame and field records.  A picture's number stands for    *)
(* its frame_num.                                                          *)
(***************************************************************************)
EXTENDS ParserWork, FiniteSets

CONSTANTS
    H264Size,       \* size of the decoded picture buffer, in frame stores
    H264RefFrames,  \* max_num_ref_frames of the sequence
    NoPoc           \* INT_MIN as last_output_poc: nothing was output yet

Both == {"top", "bottom"}
H264Fields(st) == IF st = "frame" THEN Both ELSE {st}

NoMark == [slot |-> NoSlot, used |-> [f \in Both |-> 0], out |-> FALSE]

(* frame, top and bottom are marks (0: no such record), takes the counters *)
(* that freeing the frame record lowers, has is is_used, ref is_reference, *)
(* orig is_orig_reference, long is_long_term, out is is_output.            *)
NoStore == [id |-> 0, frame |-> 0, takes |-> {}, top |-> 0, bottom |-> 0, has |-> {},
            ref |-> {}, orig |-> {}, long |-> {}, poc |-> 0, out |-> FALSE]

(* direct is out_buffer; lastPic the store of last_picture (0: none, -1:   *)
(* out_buffer); active is active_dpb_mark; keySeen is i_slice_no > 0.      *)
H264Init == [marks |-> [m \in Slots |-> NoMark], fs |-> <<>>, direct |-> NoStore,
             lastPic |-> 0, lastPoc |-> NoPoc, interval |-> 2, active |-> 0,
             keySeen |-> FALSE]

(* The pictures: frames and fields, of interlaced sequences.  second: the  *)
(* picture completes the frame of the field before it.  mmco: the sliding  *)
(* window, or orders: unmark the oldest frame (op. 1); that, and become    *)
(* the long-term frame (op. 6); unmark the long-term frame (op. 4); unmark *)
(* all (op. 5).  bad: its slice data does not parse.                       *)
H264Pictures ==
    [st : {"frame", "top"}, second : {FALSE}, type : {"I"}, idr : {TRUE}, ref : {TRUE},
     poc : {0}, mmco : {"slide"}, prior : BOOLEAN, bad : BOOLEAN]
    \union [st : {"frame"}, second : {FALSE}, type : {"P"}, idr : {FALSE}, ref : {TRUE},
            poc : {2, 4, 6}, mmco : {"slide", "unmark", "long", "free"}, prior : {FALSE},
            bad : BOOLEAN]
    \union [st : {"frame"}, second : {FALSE}, type : {"P"}, idr : {FALSE}, ref : {TRUE},
            poc : {0}, mmco : {"clear"}, prior : {FALSE}, bad : {FALSE}]
    \union [st : {"frame", "top", "bottom"}, second : {FALSE}, type : {"P"}, idr : {FALSE},
            ref : BOOLEAN, poc : {2, 4, 6}, mmco : {"slide"}, prior : {FALSE}, bad : {FALSE}]
    \union [st : {"top", "bottom"}, second : {TRUE}, type : {"P"}, idr : {FALSE},
            ref : BOOLEAN, poc : {1, 3, 5, 7}, mmco : {"slide"}, prior : {FALSE},
            bad : BOOLEAN]

-----------------------------------------------------------------------------
(* free_storable_picture and free_dpb_mark: a mark that nothing needs lets *)
(* the slot go.                                                            *)
FreePicture(w, m, fields) ==
    IF m = 0 THEN w
    ELSE LET k == w.ctx.marks[m]
             n == [k EXCEPT !.used = [f \in Both |-> IF f \in fields THEN Less(@[f]) ELSE @[f]]]
         IN IF n.slot # NoSlot /\ ~n.out /\ \A f \in Both : n.used[f] = 0
            THEN [Release(w, n.slot) EXCEPT !.ctx.marks[m] = NoMark]
            ELSE [w EXCEPT !.ctx.marks[m] = n]

FreeFields(w, s) == FreePicture(FreePicture(w, s.top, {"top"}), s.bottom, {"bottom"})
FreeStore(w, s)  == FreeFields(FreePicture(w, s.frame, s.takes), s)

(* remove_frame_from_dpb; remove_unused_frame_from_dpb until it fails.     *)
RemoveStore(w, i) == [FreeStore(w, w.ctx.fs[i]) EXCEPT !.ctx.fs = RemoveAt(@, i)]

RemoveUnused(w) ==
    LET Freed(v, s) == IF s.out /\ s.ref = {} THEN FreeStore(v, s) ELSE v
        Stays(s)    == ~s.out \/ s.ref # {}
    IN [FoldLeft(Freed, w, w.ctx.fs) EXCEPT !.ctx.fs = SelectSeq(@, Stays)]

(* is_short_term_reference, is_long_term_reference, update_ref_list and    *)
(* update_ltref_list.                                                      *)
IsShort(s) == \E f \in s.ref \ s.long : s[f] # 0
IsLong(s)  == \E f \in s.ref \intersect s.long : s[f] # 0
H264Refs(c) == SelectSeq(c.fs, IsShort) \o SelectSeq(c.fs, IsLong)

(* unmark_for_reference, and unmark_for_long_term_reference.               *)
Unmark(s)     == [s EXCEPT !.ref = {}]
UnmarkLong(s) == [s EXCEPT !.ref = {}, !.long = {}]

-----------------------------------------------------------------------------
(* write_picture: the slot of mark m goes to the user, once.               *)
WritePicture(w, m) ==
    IF ~w.ctx.marks[m].out THEN w
    ELSE [Display(w, w.ctx.marks[m].slot) EXCEPT !.ctx.marks[m].out = FALSE]

(* write_unpaired_field: a field without its other field becomes a frame,  *)
(* whose picture order count is the smaller of the field's and zero.       *)
Completed(s) ==
    [s EXCEPT !.frame = IF "top" \in s.has THEN s.top ELSE s.bottom, !.takes = s.has,
              !.has = Both, !.poc = IF @ < 0 THEN @ ELSE 0]

(* flush_direct_output.                                                    *)
FlushDirect(w) ==
    LET u == Completed(w.ctx.direct)
    IN IF w.ctx.direct.has = {} THEN w
       ELSE [FreeStore(WritePicture(w, u.frame), u) EXCEPT !.ctx.direct = NoStore]

(* write_stored_frame.                                                     *)
WriteStored(w, i) ==
    LET d == FlushDirect(w)
        s == d.ctx.fs[i]
        u == Completed(s)
    IN IF s.has = Both
       THEN [WritePicture(d, s.frame) EXCEPT !.ctx.fs[i].out = TRUE, !.ctx.lastPoc = s.poc]
       ELSE [FreeFields(WritePicture(d, u.frame), s) EXCEPT
               !.ctx.fs[i] = [u EXCEPT !.top = 0, !.bottom = 0, !.out = TRUE],
               !.ctx.lastPoc = u.poc]

(* get_smallest_poc: the first store with the smallest picture order count *)
(* of those that wait, or of all when none waits.                          *)
Waiting(c) == {i \in DOMAIN c.fs : ~c.fs[i].out}
Smallest(c) ==
    LET S == IF Waiting(c) = {} THEN DOMAIN c.fs ELSE Waiting(c)
    IN CHOOSE i \in S : \A j \in S : \/ c.fs[i].poc < c.fs[j].poc
                                     \/ c.fs[i].poc = c.fs[j].poc /\ i <= j

(* output_one_frame_from_dpb.                                              *)
RemovedUnlessRef(w, i) == IF w.ctx.fs[i].ref = {} THEN RemoveStore(w, i) ELSE w
OutputAt(w, i) == RemovedUnlessRef(WriteStored(w, i), i)
OutputOne(w) == IF Waiting(w.ctx) = {} THEN w ELSE OutputAt(w, Smallest(w.ctx))

(* flush_dpb, then init_dpb, which leaves poc_interval and out_buffer.     *)
FlushDpb(w) ==
    LET all == [w EXCEPT !.ctx.fs = [i \in DOMAIN @ |-> Unmark(@[i])]]
        One(v, k) == OutputOne(v)
    IN [FoldLeft(One, RemoveUnused(all), [k \in 1 .. H264Size |-> k]) EXCEPT !.ctx.lastPoc = NoPoc]
InitDpb(w) == [w EXCEPT !.ctx.fs = <<>>, !.ctx.lastPic = 0, !.ctx.lastPoc = NoPoc]

(* flush_dpb_buf_slot: what still waits is displayed; every mark is new.   *)
FlushMarks(w) ==
    LET Left(v, k) == IF k.out /\ k.slot # NoSlot THEN Release(Display(v, k.slot), k.slot) ELSE v
    IN [FoldLeft(Left, w, [m \in Slots |-> w.ctx.marks[m]]) EXCEPT
          !.ctx.marks = H264Init.marks]

-----------------------------------------------------------------------------
(* direct_output.  The two fields of a frame come one after the other.     *)
DirectOutput(w, p) ==
    LET f == CHOOSE f \in p.fields : TRUE
        d == IF p.fields = Both \/ f \in w.ctx.direct.has THEN FlushDirect(w) ELSE w
        s == [d.ctx.direct EXCEPT ![f] = p.mark, !.has = @ \union {f}, !.id = p.id,
                                  !.orig = {}]
        u == [s EXCEPT !.frame = s.top, !.takes = Both]
    IN IF p.fields = Both
       THEN [FreePicture(WritePicture(d, p.mark), p.mark, Both) EXCEPT
               !.ctx.lastPic = 0, !.ctx.lastPoc = p.poc]
       ELSE IF s.has # Both THEN [d EXCEPT !.ctx.direct = s, !.ctx.lastPic = -1]
       ELSE [FreeStore(WritePicture(d, u.frame), u) EXCEPT
               !.ctx.direct = NoStore, !.ctx.lastPic = 0, !.ctx.lastPoc = p.poc]

(* insert_picture_in_dpb into store s.  A frame is split in two fields,    *)
(* which count too (dpb_split_field); the second field makes the store a   *)
(* frame (dpb_combine_field).                                              *)
InsertedStore(s, p) ==
    LET m == [f \in Both |-> IF f \in p.fields THEN p.mark ELSE s[f]]
        i == [s EXCEPT !.id = p.id, !.top = m["top"], !.bottom = m["bottom"],
                       !.has = @ \union p.fields, !.out = FALSE,
                       !.ref = IF p.ref THEN @ \union p.fields ELSE @,
                       !.orig = IF p.ref THEN @ \union p.fields ELSE @,
                       !.long = IF p.ref /\ p.long THEN @ \union p.fields ELSE @,
                       !.poc = IF s.has # {} /\ s.poc < p.poc THEN s.poc ELSE p.poc]
    IN IF i.has = Both THEN [i EXCEPT !.frame = i.top, !.takes = Both] ELSE i
Split(w, p) ==
    IF p.fields # Both THEN w
    ELSE [w EXCEPT !.ctx.marks[p.mark].used = [f \in Both |-> @[f] + 1]]

(* idr_memory_management.                                                  *)
IdrManagement(w, p) ==
    LET f == IF p.prior THEN [FoldLeft(FreeStore, w, w.ctx.fs) EXCEPT !.ctx.fs = <<>>]
             ELSE FlushDpb(w)
    IN [f EXCEPT !.ctx.lastPic = 0, !.ctx.lastPoc = NoPoc]

(* sliding_window_memory_management: when the references are as many as    *)
(* the sequence has, the first one that has no long-term field goes.       *)
SlidingWindow(w) ==
    LET c == w.ctx
        S == {i \in DOMAIN c.fs : c.fs[i].ref # {} /\ c.fs[i].long = {}}
        i == CHOOSE i \in S : \A j \in S : i <= j
        short == Len(SelectSeq(c.fs, IsShort))
        long  == Len(SelectSeq(c.fs, IsLong))
    IN IF S # {} /\ short = H264RefFrames - long
       THEN [w EXCEPT !.ctx.fs[i] = Unmark(@)] ELSE w

(* adaptive_memory_management, for frames.                                 *)
UnmarkOldest(w) ==
    LET S == {i \in DOMAIN w.ctx.fs : w.ctx.fs[i].ref = Both /\ w.ctx.fs[i].long = {}}
        i == CHOOSE i \in S : \A j \in S : i <= j
    IN IF S = {} THEN w ELSE [w EXCEPT !.ctx.fs[i] = Unmark(@)]
UnmarkLongs(w) ==
    [w EXCEPT !.ctx.fs = [i \in DOMAIN @ |-> IF IsLong(@[i]) THEN UnmarkLong(@[i]) ELSE @[i]]]
Exceeded(c) ==
    Len(SelectSeq(c.fs, IsShort)) + Len(SelectSeq(c.fs, IsLong)) > H264RefFrames

Adaptive(w, p) ==
    CASE p.mmco = "unmark" -> UnmarkOldest(w)
      [] p.mmco = "long"   -> LET u == UnmarkLongs(UnmarkOldest(w))
                              IN IF Exceeded(u.ctx) THEN SlidingWindow(u) ELSE u
      [] p.mmco = "free"   -> UnmarkLongs(w)
      [] p.mmco = "clear"  -> FlushDpb(w)

(* The loop of store_picture_in_dpb that makes room: either the picture    *)
(* is output and needs none, or a store is written and removed.  In a      *)
(* round r has no unused stores, and i is the smallest.                    *)
UnmarkedAndWritten(u, i) == IF u.ctx.fs[i].out THEN u ELSE WriteStored(u, i)
RoundAt(v, r, i, p) ==
    IF Waiting(r.ctx) # {} /\ p.poc >= r.ctx.fs[i].poc THEN [v EXCEPT !.w = OutputOne(r)]
    ELSE IF ~p.ref THEN [w |-> DirectOutput(r, p), direct |-> TRUE, long |-> FALSE]
    ELSE [v EXCEPT !.long = FALSE,
                   !.w = OutputOne(RemoveStore(
                       UnmarkedAndWritten([r EXCEPT !.ctx.fs[i] = Unmark(@)], i), i))]
RoundWith(v, r, p) == RoundAt(v, r, Smallest(r.ctx), p)

MakeRoom(w, p) ==
    LET Round(v, k) == IF v.direct \/ Len(v.w.ctx.fs) < H264Size THEN v
                       ELSE RoundWith(v, RemoveUnused(v.w), p)
    IN FoldLeft(Round, [w |-> w, direct |-> FALSE, long |-> p.long], [k \in 1 .. 2 * H264Size |-> k])

(* The end of store_picture_in_dpb: a complete frame is written at once    *)
(* when it begins a period, and then every frame whose turn it is.         *)
WriteReady(w, p) ==
    LET n    == Len(w.ctx.fs)
        s    == w.ctx.fs[n]
        odd  == w.ctx.lastPoc # NoPoc /\ (s.poc - w.ctx.lastPoc) % 2 = 1
        a    == IF odd THEN [w EXCEPT !.ctx.interval = 1] ELSE w
        b    == IF p.idr \/ p.poc = 0 \/ w.ctx.lastPoc = NoPoc THEN WriteStored(a, n) ELSE a
        Turn(v, k) ==
            IF /\ v.ctx.lastPoc # NoPoc /\ Waiting(v.ctx) # {}
               /\ v.ctx.fs[Smallest(v.ctx)].poc - v.ctx.lastPoc <= v.ctx.interval
            THEN WriteStored(v, Smallest(v.ctx)) ELSE v
    IN IF s.has # Both THEN w
       ELSE RemoveUnused(FoldLeft(Turn, b, [k \in 1 .. H264Size |-> k]))

(* get_filed_dpb_combine_flag: the other field is the latest picture.      *)
LastStore(c) ==
    IF c.lastPic = -1 THEN c.direct
    ELSE LET S == {i \in DOMAIN c.fs : c.fs[i].id = c.lastPic}
         IN IF S = {} THEN NoStore ELSE c.fs[CHOOSE i \in S : TRUE]
Combines(c, p) ==
    LET s == LastStore(c)
    IN p.second /\ s.id = p.id - 1 /\ s.has = Both \ p.fields /\ (p.ref <=> s.orig # {})

(* store_picture_in_dpb: the references are marked; the picture joins the  *)
(* other field's store, or gets one of its own.                            *)
MarkedRefs(w, p) ==
    IF p.idr THEN IdrManagement(w, p)
    ELSE IF p.ref /\ p.mmco # "slide" THEN Adaptive(w, p) ELSE w

(* A wrong store: the sliding window is forgotten.                         *)
WindowForgotten(w, p) == w

Windowed(w, p) == IF ~p.idr /\ p.ref /\ p.mmco = "slide" THEN SlidingWindow(w) ELSE w

Joined(w, p) ==
    LET Join(s) == IF s.id = w.ctx.lastPic THEN InsertedStore(s, p) ELSE s
    IN [w EXCEPT !.ctx.fs = [i \in DOMAIN @ |-> Join(@[i])], !.ctx.lastPic = 0]

Appended(w, p) ==
    [w EXCEPT !.ctx.fs = Append(@, InsertedStore(NoStore, p)),
              !.ctx.lastPic = IF p.fields = Both THEN 0 ELSE p.id]

StoreAlone(w, p) == WriteReady(Split(Appended(w, p), p), p)
StoreInRoom(room, p) ==
    IF room.direct THEN room.w ELSE StoreAlone(room.w, [p EXCEPT !.long = room.long])

StoreIn(w, p) ==
    IF ~Combines(w.ctx, p)
    THEN StoreInRoom(MakeRoom(RemoveUnused(Windowed(w, p)), [p EXCEPT !.long = p.mmco = "long"]), p)
    ELSE IF w.ctx.lastPic # -1 THEN Joined(w, p)
    ELSE [DirectOutput(w, p) EXCEPT !.ctx.lastPic = 0]

Store(w, p) == StoreIn(MarkedRefs(Set(w, w.ctx.marks[p.mark].slot, "CODEC_USE"), p), p)

-----------------------------------------------------------------------------
(* dpb_mark_malloc: the first free mark and a slot for it, or the mark of  *)
(* the other field.                                                        *)
FreeMarks(c) == {m \in Slots : ~c.marks[m].out /\ \A f \in Both : c.marks[m].used[f] = 0}
MarkMalloc(w, p) ==
    LET m == CHOOSE m \in FreeMarks(w.ctx) : \A k \in FreeMarks(w.ctx) : m <= k
        n == NewOutput(w, p.id)
        g == [n EXCEPT !.ctx.marks[m] = [@ EXCEPT !.slot = n.out, !.out = TRUE],
                       !.ctx.active = m]
        a == IF Combines(w.ctx, p) THEN [w EXCEPT !.out = w.ctx.marks[w.ctx.active].slot] ELSE g
        c == [a EXCEPT !.ctx.marks[a.ctx.active].used =
                [f \in Both |-> IF f \in p.fields THEN @[f] + 1 ELSE @[f]]]
    IN IF ~Combines(w.ctx, p) /\ FreeMarks(w.ctx) = {} THEN [w EXCEPT !.full = TRUE]
       ELSE Set(c, c.out, "HAL_OUTPUT")

(* prepare_init_dpb_info and check_refer_dpb_buf_slots: every reference is *)
(* read by the hardware, and in use by the parser.                         *)
StoreSlot(c, s) ==
    c.marks[IF s.has = Both THEN s.frame ELSE IF "top" \in s.has THEN s.top ELSE s.bottom].slot
ReadRefs(w) ==
    LET One(v, s) ==
            LET i == StoreSlot(w.ctx, s)
            IN IF i = NoSlot THEN v ELSE Set(Read(v, i), i, "CODEC_USE")
    IN FoldLeft(One, w, H264Refs(w.ctx))
Overflowed(c) == Cardinality({m \in Slots : c.marks[m].out /\ c.marks[m].slot # NoSlot}) > H264Size + 2

(* The failure path of h264d_parse: what there is of the picture is        *)
(* displayed, and its mark is new.                                         *)
GiveUp(w, m) ==
    LET k == w.ctx.marks[m]
        d == IF k.out THEN Release(Display(w, k.slot), k.slot) ELSE w
    IN [d EXCEPT !.ctx.marks[m] = NoMark]

(* h264d_reset, h264d_flush, h264d_flush_dpb_eos (h264d_prepare).          *)
H264Reset(w) == [FlushMarks(InitDpb(FlushDpb(w))) EXCEPT !.ctx.keySeen = FALSE]
H264Flush(w) == RemoveUnused(w)
H264End(w)   == FlushMarks(InitDpb(FlushDpb([w EXCEPT !.eos = TRUE])))

(* h264d_prepare and h264d_parse.  Of a packet with the eos flag nothing   *)
(* is parsed; before the first I slice nothing is decoded.                 *)
H264Decode(w, p, bad) ==
    IF Overflowed(w.ctx) THEN H264Reset(w)
    ELSE IF bad THEN GiveUp(w, w.ctx.active)
    ELSE [Store(w, [p EXCEPT !.mark = w.ctx.active]) EXCEPT !.valid = TRUE]

H264Begin(w, p, bad) == IF w.full THEN w ELSE H264Decode(ReadRefs(w), p, bad)

H264Parse(w, id, pic, last) ==
    LET seen == [w EXCEPT !.ctx.keySeen = @ \/ pic.type = "I"]
        p    == [id |-> id, fields |-> H264Fields(pic.st), second |-> pic.second, ref |-> pic.ref,
                 idr |-> pic.idr, poc |-> pic.poc, mmco |-> pic.mmco, prior |-> pic.prior,
                 long |-> FALSE, mark |-> 0]
    IN IF last THEN H264End(w)
       ELSE IF ~seen.ctx.keySeen THEN seen
       ELSE H264Begin(MarkMalloc(seen, p), p, pic.bad)
=============================================================================
