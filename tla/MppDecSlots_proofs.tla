------------------------- MODULE MppDecSlots_proofs -------------------------
(***************************************************************************)
(* Proofs about the frame slots of a decoder context: the flags and        *)
(* counters of a slot say who uses it, so that the reference of a picture  *)
(* in the hardware is there until the hardware has finished.               *)
(***************************************************************************)
EXTENDS MppDec_proofs

-----------------------------------------------------------------------------
(***************************************************************************)
(* Who uses a slot.                                                        *)
(***************************************************************************)
(* The picture in hand has a slot, and no reset has taken it back.         *)
Parsed == "parsed" \in ready /\ cur.output # NoSlot /\ parserAt # "resetDrain"

(* The hardware writes slot i, or will; it is done with it, and the slot   *)
(* does not know yet.                                                      *)
NewWriter(i) ==
    \/ Parsed /\ cur.output = i
    \/ \E t \in HalTasks : InHardware(t) /\ taskInfo[t].output = i
LateWriter(i) == halAt = "slots" /\ halInfo.output = i
Writer(i)     == NewWriter(i) \/ LateWriter(i)

(* The same of what it reads.                                              *)
NewReader(i) ==
    \/ Parsed /\ cur.refer = i
    \/ \E t \in HalTasks : InHardware(t) /\ taskInfo[t].refer = i
LateReader(i) == halAt = "slots" /\ halInfo.refer = i
Readers(i)    == (IF NewReader(i) THEN 1 ELSE 0) + (IF LateReader(i) THEN 1 ELSE 0)

Shown(i) == i \in ToSet(display)

(* The flags and counters of an entry say who uses it; with the last of    *)
(* them the entry is free, without frame or buffer.                        *)
Flagged(e, writer, kept, shown, readers) ==
    /\ e.notReady <=> writer
    /\ e.halOutput <=> writer
    /\ e.codecUse <=> kept
    /\ e.queueUse = IF shown THEN 2 ELSE 0
    /\ e.halUse = readers
    /\ e.onUsed <=> writer \/ kept \/ shown \/ readers > 0
    /\ e.onUsed => e.frame # NoFrame
    /\ ~e.onUsed => e.buffer = NoBuffer

SlotsFlagged ==
    \A i \in Slots : Flagged(slot[i], Writer(i), i = ref0, Shown(i), Readers(i))

(* A picture is not read from where one is written.                        *)
WritersApart ==
    /\ \A t \in HalTasks :
          InHardware(t) => taskInfo[t].output # NoSlot /\ taskInfo[t].output # taskInfo[t].refer
    /\ Parsed => /\ cur.output = ref0 /\ cur.output # cur.refer
                 /\ ~LateWriter(cur.output) /\ ~LateReader(cur.output)
    /\ halAt = "slots" =>
          /\ halInfo.output # NoSlot /\ halInfo.output # halInfo.refer
          /\ ~NewWriter(halInfo.output)

(* The reference is a picture with a buffer, but for the one in hand.      *)
References ==
    /\ Parsed => slot[cur.output].buffer = NoBuffer
    /\ ref0 # NoSlot /\ ~Parsed => slot[ref0].buffer # NoBuffer
    /\ \A i \in Slots : NewReader(i) => slot[i].buffer # NoBuffer
    /\ \A t \in HalTasks :
          InHardware(t) /\ taskInfo[t].refer # NoSlot =>
              slot[taskInfo[t].refer].frame < taskInfo[t].id
    /\ Parsed /\ cur.refer # NoSlot => slot[cur.refer].frame < cur.id

(* Packets are pulled in the order they are put.                           *)
Pulled == put - Len(packets)

PacketOrder ==
    /\ Len(packets) <= put
    /\ \A i \in 1 .. Len(packets) : packets[i] = Pulled + i
    /\ "curr" \in ready => cur.id <= Pulled
    /\ ref0 # NoSlot => slot[ref0].frame <= Pulled
    /\ ref0 # NoSlot /\ "curr" \in ready /\ "parsed" \notin ready => slot[ref0].frame < cur.id

SlotsKept ==
    /\ IsInjective(display)
    /\ SlotsFlagged
    /\ WritersApart
    /\ References
    /\ PacketOrder

(* When the process has aborted, what is left says only what the hardware  *)
(* was doing.                                                              *)
SlotInv == IF aborted THEN ReferenceKept ELSE SlotsKept

-----------------------------------------------------------------------------
(***************************************************************************)
(* The operations on an entry.                                             *)
(***************************************************************************)
SameContent(d, e) == d.frame = e.frame /\ d.buffer = e.buffer

(* check_entry_unused after a flag has changed: an entry without user is   *)
(* freed, any other left alone.                                            *)
LEMMA ReleasedFlagged ==
    ASSUME NEW e \in SlotEntries, NEW writer \in BOOLEAN, NEW kept \in BOOLEAN,
           NEW shown \in BOOLEAN, NEW readers \in 0 .. 2,
           e.onUsed, e.frame # NoFrame,
           e.notReady <=> writer, e.halOutput <=> writer, e.codecUse <=> kept,
           e.queueUse = IF shown THEN 2 ELSE 0, e.halUse = readers
    PROVE  /\ Flagged(Released(e), writer, kept, shown, readers)
           /\ writer \/ kept \/ shown \/ readers > 0 => SameContent(Released(e), e)
<1>1. CASE writer \/ kept \/ shown \/ readers > 0
  <2>1. Released(e) = e
    BY <1>1 DEF Released
  <2> QED BY <1>1, <2>1 DEF Flagged, SameContent
<1>2. CASE ~(writer \/ kept \/ shown \/ readers > 0)
  <2> DEFINE d == [e EXCEPT !.onUsed = FALSE, !.frame = NoFrame, !.buffer = NoBuffer]
  <2>1. Released(e) = d
    BY <1>2 DEF Released
  <2>2. /\ d.notReady = e.notReady /\ d.halOutput = e.halOutput /\ d.codecUse = e.codecUse
        /\ d.queueUse = e.queueUse /\ d.halUse = e.halUse
        /\ d.onUsed = FALSE /\ d.buffer = NoBuffer
    BY DEF SlotEntries
  <2> HIDE DEF d
  <2> QED BY <1>2, <2>1, <2>2 DEF Flagged
<1> QED BY <1>1, <1>2

(* The hardware has written the picture.                                   *)
LEMMA OutputEnds ==
    ASSUME NEW e \in SlotEntries, NEW writer \in BOOLEAN, NEW kept \in BOOLEAN,
           NEW shown \in BOOLEAN, NEW readers \in 0 .. 2,
           Flagged(e, TRUE, kept, shown, readers)
    PROVE  /\ Flagged(ClrFlag(e, "HAL_OUTPUT"), FALSE, kept, shown, readers)
           /\ kept \/ shown \/ readers > 0 => SameContent(ClrFlag(e, "HAL_OUTPUT"), e)
<1> DEFINE c == Cleared(e, "HAL_OUTPUT")
<1>1. c = [[e EXCEPT !.halOutput = FALSE] EXCEPT !.notReady = FALSE]
  BY DEF Cleared
<1>2. c \in SlotEntries
  <2> HIDE DEF c
  <2> QED BY <1>1 DEF SlotEntries
<1>3. /\ c.onUsed = e.onUsed /\ SameContent(c, e)
      /\ c.notReady = FALSE /\ c.halOutput = FALSE
      /\ c.codecUse = e.codecUse /\ c.queueUse = e.queueUse
      /\ c.halUse = e.halUse
  BY <1>1 DEF SlotEntries, SameContent
<1> HIDE DEF c
<1>4. c.onUsed /\ c.frame # NoFrame
  BY <1>3 DEF Flagged, SameContent
<1>5. /\ c.notReady <=> FALSE
      /\ c.halOutput <=> FALSE
      /\ c.codecUse <=> kept
      /\ c.queueUse = IF shown THEN 2 ELSE 0
      /\ c.halUse = readers
  BY <1>3 DEF Flagged, Less
<1>6. /\ Flagged(Released(c), FALSE, kept, shown, readers)
      /\ kept \/ shown \/ readers > 0 => SameContent(Released(c), c)
  BY <1>2, <1>4, <1>5, ReleasedFlagged
<1> QED BY <1>3, <1>6 DEF ClrFlag, SameContent, c

(* The hardware has read it.                                               *)
LEMMA ReadEnds ==
    ASSUME NEW e \in SlotEntries, NEW writer \in BOOLEAN, NEW kept \in BOOLEAN,
           NEW shown \in BOOLEAN, NEW readers \in 0 .. 2,
           Flagged(e, writer, kept, shown, readers), readers > 0
    PROVE  /\ Flagged(ClrFlag(e, "HAL_INPUT"), writer, kept, shown, readers - 1)
           /\ writer \/ kept \/ shown \/ readers > 1 => SameContent(ClrFlag(e, "HAL_INPUT"), e)
<1> DEFINE c == Cleared(e, "HAL_INPUT")
<1>1. c = [e EXCEPT !.halUse = Less(e.halUse)]
  BY DEF Cleared
<1>2. c \in SlotEntries
  <2>1. Less(e.halUse) \in HalUses
    BY DEF SlotEntries, HalUses, Less
  <2> HIDE DEF c
  <2> QED BY <1>1, <2>1 DEF SlotEntries
<1>3. /\ c.onUsed = e.onUsed /\ SameContent(c, e)
      /\ c.notReady = e.notReady /\ c.halOutput = e.halOutput
      /\ c.codecUse = e.codecUse /\ c.queueUse = e.queueUse
      /\ c.halUse = Less(e.halUse)
  BY <1>1 DEF SlotEntries, SameContent
<1> HIDE DEF c
<1>4. c.onUsed /\ c.frame # NoFrame
  BY <1>3 DEF Flagged, SameContent
<1>5. /\ c.notReady <=> writer
      /\ c.halOutput <=> writer
      /\ c.codecUse <=> kept
      /\ c.queueUse = IF shown THEN 2 ELSE 0
      /\ c.halUse = readers - 1
  BY <1>3 DEF Flagged, Less
<1>6. /\ Flagged(Released(c), writer, kept, shown, readers - 1)
      /\ writer \/ kept \/ shown \/ readers > 1 => SameContent(Released(c), c)
  BY <1>2, <1>4, <1>5, ReleasedFlagged
<1> QED BY <1>3, <1>6 DEF ClrFlag, SameContent, c

(* The codec has another reference.                                        *)
LEMMA ReferenceEnds ==
    ASSUME NEW e \in SlotEntries, NEW writer \in BOOLEAN, NEW kept \in BOOLEAN,
           NEW shown \in BOOLEAN, NEW readers \in 0 .. 2,
           Flagged(e, writer, TRUE, shown, readers)
    PROVE  /\ Flagged(ClrFlag(e, "CODEC_USE"), writer, FALSE, shown, readers)
           /\ writer \/ shown \/ readers > 0 => SameContent(ClrFlag(e, "CODEC_USE"), e)
<1> DEFINE c == Cleared(e, "CODEC_USE")
<1>1. c = [e EXCEPT !.codecUse = FALSE]
  BY DEF Cleared
<1>2. c \in SlotEntries
  <2> HIDE DEF c
  <2> QED BY <1>1 DEF SlotEntries
<1>3. /\ c.onUsed = e.onUsed /\ SameContent(c, e)
      /\ c.notReady = e.notReady /\ c.halOutput = e.halOutput
      /\ c.codecUse = FALSE /\ c.queueUse = e.queueUse
      /\ c.halUse = e.halUse
  BY <1>1 DEF SlotEntries, SameContent
<1> HIDE DEF c
<1>4. c.onUsed /\ c.frame # NoFrame
  BY <1>3 DEF Flagged, SameContent
<1>5. /\ c.notReady <=> writer
      /\ c.halOutput <=> writer
      /\ c.codecUse <=> FALSE
      /\ c.queueUse = IF shown THEN 2 ELSE 0
      /\ c.halUse = readers
  BY <1>3 DEF Flagged, Less
<1>6. /\ Flagged(Released(c), writer, FALSE, shown, readers)
      /\ writer \/ shown \/ readers > 0 => SameContent(Released(c), c)
  BY <1>2, <1>4, <1>5, ReleasedFlagged
<1> QED BY <1>3, <1>6 DEF ClrFlag, SameContent, c

(* The picture has left the display queue.                                 *)
LEMMA ShownEnds ==
    ASSUME NEW e \in SlotEntries, NEW kept \in BOOLEAN, NEW readers \in 0 .. 2,
           Flagged(e, FALSE, kept, TRUE, readers)
    PROVE  LET d == ClrFlag([e EXCEPT !.queueUse = Less(@)], "QUEUE_USE")
           IN  /\ Flagged(d, FALSE, kept, FALSE, readers)
               /\ kept \/ readers > 0 => SameContent(d, e)
<1> DEFINE u == [e EXCEPT !.queueUse = Less(@)]
           c == Cleared(u, "QUEUE_USE")
<1>1. c = [u EXCEPT !.queueUse = Less(u.queueUse)]
  BY DEF Cleared
<1>2. e.queueUse = 2 /\ Less(2) = 1 /\ Less(1) = 0 /\ 1 \in QueueUses /\ 0 \in QueueUses
  BY DEF Flagged, Less, QueueUses
<1>3. /\ u \in SlotEntries /\ u.queueUse = 1 /\ u.onUsed = e.onUsed /\ SameContent(u, e)
      /\ u.notReady = e.notReady /\ u.halOutput = e.halOutput /\ u.codecUse = e.codecUse
      /\ u.halUse = e.halUse
  BY <1>2 DEF SlotEntries, SameContent
<1> HIDE DEF u, c
<1>4. /\ c \in SlotEntries /\ c.queueUse = 0 /\ c.onUsed = e.onUsed /\ SameContent(c, e)
      /\ c.notReady = e.notReady /\ c.halOutput = e.halOutput /\ c.codecUse = e.codecUse
      /\ c.halUse = e.halUse
  BY <1>1, <1>2, <1>3 DEF SlotEntries, SameContent
<1>5. c.onUsed /\ c.frame # NoFrame
  BY <1>4 DEF Flagged, SameContent
<1>6. /\ c.notReady <=> FALSE
      /\ c.halOutput <=> FALSE
      /\ c.codecUse <=> kept
      /\ c.queueUse = IF FALSE THEN 2 ELSE 0
      /\ c.halUse = readers
  BY <1>4 DEF Flagged
<1>7. /\ Flagged(Released(c), FALSE, kept, FALSE, readers)
      /\ kept \/ readers > 0 => SameContent(Released(c), c)
  BY <1>4, <1>5, <1>6, ReleasedFlagged
<1> QED BY <1>4, <1>7 DEF ClrFlag, SameContent, c, u

(* The hardware will read it.                                              *)
LEMMA ReadBegins ==
    ASSUME NEW e \in SlotEntries, NEW writer \in BOOLEAN, NEW kept \in BOOLEAN,
           NEW shown \in BOOLEAN, NEW readers \in 0 .. 1, e.onUsed,
           Flagged(e, writer, kept, shown, readers)
    PROVE  LET d == SetFlag(e, "HAL_INPUT")
           IN  /\ d \in SlotEntries /\ SameContent(d, e) /\ d.onUsed
               /\ Flagged(d, writer, kept, shown, readers + 1)
<1> DEFINE d == SetFlag(e, "HAL_INPUT")
<1>1. d = [e EXCEPT !.halUse = (e.halUse + 1) % 256]
  BY DEF SetFlag
<1>2. e.halUse = readers /\ (readers + 1) % 256 = readers + 1 /\ readers + 1 \in HalUses
  BY DEF Flagged, HalUses
<1>3. /\ d \in SlotEntries /\ d.halUse = readers + 1 /\ d.onUsed = e.onUsed
      /\ d.notReady = e.notReady /\ d.halOutput = e.halOutput /\ d.codecUse = e.codecUse
      /\ d.queueUse = e.queueUse /\ SameContent(d, e)
  <2> HIDE DEF d
  <2>1. PICK m \in HalUses : m = readers + 1 /\ d = [e EXCEPT !.halUse = m]
    BY <1>1, <1>2
  <2>2. d \in SlotEntries /\ d.halUse = m
    BY <2>1 DEF SlotEntries
  <2>3. /\ d.onUsed = e.onUsed /\ d.notReady = e.notReady /\ d.halOutput = e.halOutput
        /\ d.codecUse = e.codecUse /\ d.queueUse = e.queueUse
        /\ d.frame = e.frame /\ d.buffer = e.buffer
    BY <2>1 DEF SlotEntries
  <2> QED BY <2>1, <2>2, <2>3 DEF SameContent
<1> HIDE DEF d
<1>4. Flagged(d, writer, kept, shown, readers + 1)
  BY <1>3 DEF Flagged, SameContent
<1> QED BY <1>3, <1>4 DEF d

(* A free entry is taken for the picture that is parsed: the hardware will *)
(* write it, it is the reference, and queued for display.                  *)
LEMMA PictureTakes ==
    ASSUME NEW e \in SlotEntries, NEW id \in Packets, NoFrame \notin Packets,
           Flagged(e, FALSE, FALSE, FALSE, 0)
    PROVE  LET d == SetFlag(SetFlag(SetFlag(SetFlag([Taken(e) EXCEPT !.frame = id],
                    "HAL_OUTPUT"), "CODEC_USE"), "QUEUE_USE"), "QUEUE_USE")
           IN  /\ Flagged(d, TRUE, TRUE, TRUE, 0)
               /\ d.frame = id /\ d.buffer = NoBuffer
<1> DEFINE a == [Taken(e) EXCEPT !.frame = id]
           b == SetFlag(a, "HAL_OUTPUT")
           c == SetFlag(b, "CODEC_USE")
           q == SetFlag(c, "QUEUE_USE")
           d == SetFlag(q, "QUEUE_USE")
<1>1. /\ ~e.onUsed /\ e.queueUse = 0 /\ e.halUse = 0 /\ e.buffer = NoBuffer
  BY DEF Flagged
<1>2. /\ a \in SlotEntries /\ a.onUsed /\ a.notReady /\ a.queueUse = 0 /\ a.halUse = 0
      /\ a.frame = id /\ a.buffer = NoBuffer
  BY <1>1 DEF Taken, SlotEntries
<1> HIDE DEF a
<1>3. /\ b \in SlotEntries /\ b.onUsed /\ b.notReady /\ b.halOutput /\ b.queueUse = 0
      /\ b.halUse = 0 /\ b.frame = id /\ b.buffer = NoBuffer
  BY <1>2 DEF SetFlag, SlotEntries
<1> HIDE DEF b
<1>4. /\ c \in SlotEntries /\ c.onUsed /\ c.notReady /\ c.halOutput /\ c.codecUse
      /\ c.queueUse = 0 /\ c.halUse = 0 /\ c.frame = id /\ c.buffer = NoBuffer
  BY <1>3 DEF SetFlag, SlotEntries
<1> HIDE DEF c
<1>5. /\ q \in SlotEntries /\ q.onUsed /\ q.notReady /\ q.halOutput /\ q.codecUse
      /\ q.queueUse = 1 /\ q.halUse = 0 /\ q.frame = id /\ q.buffer = NoBuffer
  <2>1. q = [c EXCEPT !.queueUse = 1] /\ 1 \in QueueUses
    BY <1>4 DEF SetFlag, QueueUses
  <2> HIDE DEF q
  <2> QED BY <1>4, <2>1 DEF SlotEntries
<1> HIDE DEF q
<1>6. /\ d \in SlotEntries /\ d.onUsed /\ d.notReady /\ d.halOutput /\ d.codecUse
      /\ d.queueUse = 2 /\ d.halUse = 0 /\ d.frame = id /\ d.buffer = NoBuffer
  <2>1. d = [q EXCEPT !.queueUse = 2] /\ 2 \in QueueUses
    BY <1>5 DEF SetFlag, QueueUses
  <2> HIDE DEF d
  <2> QED BY <1>5, <2>1 DEF SlotEntries
<1> HIDE DEF d
<1>7. Flagged(d, TRUE, TRUE, TRUE, 0) /\ d.frame = id /\ d.buffer = NoBuffer
  BY <1>6 DEF Flagged
<1> QED BY <1>7 DEF a, b, c, q, d

(* A reset resets the slot of a picture that waits for an info change: it  *)
(* is free, though its frame stays.                                        *)
LEMMA EntryReset ==
    ASSUME NEW e \in SlotEntries, NEW shown \in BOOLEAN, e.buffer = NoBuffer,
           Flagged(e, TRUE, FALSE, shown, 0)
    PROVE  Flagged(ClrFlag(ResetEntry(e), "HAL_OUTPUT"), FALSE, FALSE, FALSE, 0)
<1> DEFINE r == ResetEntry(e)
           c == Cleared(r, "HAL_OUTPUT")
<1>1. /\ e.queueUse = (IF shown THEN 2 ELSE 0) /\ Less(2) = 1 /\ Less(1) = 0 /\ Less(0) = 0
      /\ 0 \in QueueUses /\ ~e.codecUse /\ e.halUse = 0
  BY DEF Flagged, Less, QueueUses
<1>2. r = [[e EXCEPT !.queueUse = 0] EXCEPT !.onUsed = FALSE]
  BY <1>1 DEF ResetEntry
<1> HIDE DEF r, c
<1>3. /\ r \in SlotEntries /\ ~r.onUsed /\ r.queueUse = 0 /\ ~r.codecUse /\ r.halUse = 0
      /\ r.buffer = NoBuffer
  BY <1>1, <1>2 DEF SlotEntries
<1>4. c = [[r EXCEPT !.halOutput = FALSE] EXCEPT !.notReady = FALSE]
  BY DEF Cleared, c
<1>5. /\ c \in SlotEntries /\ ~c.onUsed /\ c.queueUse = 0 /\ ~c.codecUse /\ c.halUse = 0
      /\ c.buffer = NoBuffer /\ ~c.halOutput /\ ~c.notReady
  BY <1>3, <1>4 DEF SlotEntries
<1>6. Released(c) = c
  BY <1>5 DEF Released
<1> QED BY <1>5, <1>6 DEF ClrFlag, Flagged, c, r


-----------------------------------------------------------------------------
(***************************************************************************)
(* Steps that leave the users of the slots alone.                          *)
(***************************************************************************)
SameUse ==
    /\ slot' = slot /\ display' = display /\ ref0' = ref0
    /\ Parsed' <=> Parsed
    /\ Parsed => cur'.output = cur.output /\ cur'.refer = cur.refer /\ cur'.id = cur.id
    /\ \A t \in HalTasks : InHardware(t)' <=> InHardware(t)
    /\ \A t \in HalTasks : InHardware(t) => taskInfo'[t] = taskInfo[t]
    /\ halAt' = "slots" <=> halAt = "slots"
    /\ halAt = "slots" => halInfo' = halInfo

LEMMA SameUsers ==
    ASSUME SameUse
    PROVE  \A i : /\ NewWriter(i)' <=> NewWriter(i)
                  /\ LateWriter(i)' <=> LateWriter(i)
                  /\ Writer(i)' <=> Writer(i)
                  /\ NewReader(i)' <=> NewReader(i)
                  /\ LateReader(i)' <=> LateReader(i)
                  /\ Readers(i)' = Readers(i)
                  /\ Shown(i)' <=> Shown(i)
<1> SUFFICES ASSUME NEW i
             PROVE  /\ NewWriter(i)' <=> NewWriter(i)
                    /\ LateWriter(i)' <=> LateWriter(i)
                    /\ Writer(i)' <=> Writer(i)
                    /\ NewReader(i)' <=> NewReader(i)
                    /\ LateReader(i)' <=> LateReader(i)
                    /\ Readers(i)' = Readers(i)
                    /\ Shown(i)' <=> Shown(i)
  OBVIOUS
<1>1. (NewWriter(i)' <=> NewWriter(i)) /\ (NewReader(i)' <=> NewReader(i))
  BY DEF SameUse, NewWriter, NewReader
<1>2. (LateWriter(i)' <=> LateWriter(i)) /\ (LateReader(i)' <=> LateReader(i))
  BY DEF SameUse, LateWriter, LateReader
<1>3. Shown(i)' <=> Shown(i)
  BY DEF SameUse, Shown
<1> QED BY <1>1, <1>2, <1>3 DEF Writer, Readers

LEMMA SameUseKeeps ==
    ASSUME SlotsFlagged, WritersApart, References, ReferenceKept, SameUse
    PROVE  SlotsFlagged' /\ WritersApart' /\ References' /\ ReferenceKept'
<1>1. \A i : /\ NewWriter(i)' <=> NewWriter(i)
             /\ LateWriter(i)' <=> LateWriter(i)
             /\ Writer(i)' <=> Writer(i)
             /\ NewReader(i)' <=> NewReader(i)
             /\ LateReader(i)' <=> LateReader(i)
             /\ Readers(i)' = Readers(i)
             /\ Shown(i)' <=> Shown(i)
  BY SameUsers
<1>2. SlotsFlagged'
  <2>1. slot' = slot /\ ref0' = ref0
    BY DEF SameUse
  <2> QED BY <1>1, <2>1 DEF SlotsFlagged, Flagged
<1>3. WritersApart'
  BY <1>1 DEF WritersApart, SameUse
<1>4. References'
  BY <1>1 DEF References, SameUse
<1>5. ReferenceKept'
  BY DEF ReferenceKept, SameUse
<1> QED BY <1>2, <1>3, <1>4, <1>5

(* ... and the order of the packets, too.                                  *)
LEMMA OrderKept ==
    ASSUME PacketOrder, slot' = slot, ref0' = ref0, put' = put, packets' = packets,
           "curr" \in ready' => "curr" \in ready /\ cur'.id = cur.id,
           "curr" \in ready' /\ "parsed" \notin ready' => "parsed" \notin ready
    PROVE  PacketOrder'
BY DEF PacketOrder, Pulled

(* A task that is not in the hardware, and is not sent there, changes      *)
(* nothing of what the hardware does.                                      *)
SameHardware ==
    \A t \in HalTasks :
        /\ InHardware(t)' <=> InHardware(t)
        /\ InHardware(t) => taskInfo'[t] = taskInfo[t]

LEMMA IdledElsewhere ==
    ASSUME Lists, NEW h \in HalTasks, ~InHardware(h), SetStatus(h, "IDLE"), taskInfo' = taskInfo
    PROVE  SameHardware
<1>1. /\ ~InHardware(h)'
      /\ \A u \in HalTasks \ {h} : InHardware(u)' <=> InHardware(u)
  BY TaskIdled
<1> QED BY <1>1 DEF SameHardware

LEMMA SentElsewhere ==
    ASSUME IInv, scenario' = scenario, NEW h \in HalTasks, hnd = h, taskStatus[h] = "IDLE",
           NEW i \in Infos, Send(i), ~i.valid \/ i.infoChange
    PROVE  /\ SameHardware
           /\ halInfo' = halInfo /\ (halAt' = "slots" <=> halAt = "slots")
<1>1. Lists /\ taskInfo \in [HalTasks -> Infos] /\ Infos' = Infos
  BY TypeParts, SameScenario DEF IInv
<1>2. /\ \A t \in HalTasks \ {h} :
            /\ taskStatus'[t] = taskStatus[t] /\ taskInfo'[t] = taskInfo[t]
            /\ InHardware(t)' <=> InHardware(t)
            /\ InFlight(t)' <=> InFlight(t)
      /\ ~InFlight(h) /\ ~InHardware(h)
      /\ InHardware(h)' <=> i.valid /\ ~i.infoChange
      /\ halInfo' = halInfo
      /\ halAt' = IF halAt = "asleep" THEN "get" ELSE halAt
  BY <1>1, TaskSent, ZenonT(60)
<1> QED BY <1>2 DEF SameHardware

(* What counts packets are numbers.                                        *)
LEMMA PacketNumbers ==
    ASSUME IInv
    PROVE  /\ \A p \in Packets : p \in Nat \ {0}
           /\ NoFrame \notin Packets
           /\ put \in Nat /\ packets \in Seq(Packets) /\ Len(packets) \in Nat /\ Pulled \in Int
           /\ cur \in Infos /\ cur.id \in Nat
<1>1. UserTypes /\ ThreadTypes
  BY TypeParts DEF IInv
<1>2. Packets = 1 .. Len(Stream) /\ Len(Stream) \in Nat
  BY <1>1, StreamTypes DEF UserTypes
<1>3. put \in Nat /\ packets \in Seq(Packets) /\ Len(packets) \in Nat
  BY <1>1, <1>2, LenProperties DEF UserTypes
<1>4. cur \in Infos /\ cur.id \in Nat
  BY <1>1, <1>2 DEF ThreadTypes, Infos
<1> QED BY <1>2, <1>3, <1>4, NamesAssumption DEF Pulled

(* The reference is a picture of the stream.                               *)
LEMMA ReferenceFrame ==
    ASSUME IInv, SlotsFlagged, ref0 # NoSlot
    PROVE  /\ ref0 \in Slots /\ slot[ref0].onUsed /\ slot[ref0].frame \in Packets
           /\ slot[ref0].frame \in Nat
<1>1. /\ slot \in [Slots -> SlotEntries] /\ ref0 \in Slots
  BY TypeParts, SlotParts DEF IInv, ThreadTypes
<1>2. slot[ref0].onUsed /\ slot[ref0].frame # NoFrame
  BY <1>1 DEF SlotsFlagged, Flagged
<1> QED BY <1>1, <1>2, PacketNumbers DEF SlotEntries

(* put_packet.                                                             *)
LEMMA UserPutsUse ==
    ASSUME IInv, ~aborted, SlotsKept, ReferenceKept, UserPuts
    PROVE  ReferenceKept' /\ (~aborted' => SlotsKept')
<1>1. /\ Lists /\ SlotsFlagged /\ WritersApart /\ References /\ PacketOrder
      /\ UserTypes /\ ThreadTypes /\ TasksInHand /\ StatusBits /\ PictureInHand
  BY TypeParts DEF SlotsKept, IInv
<1>2. packets \in Seq(Packets) /\ put \in Nat /\ Len(packets) \in Nat /\ Pulled \in Int
  BY PacketNumbers
<1>3. SameUse
  BY <1>1, <1>2
     DEF UserPuts, userVars, outVars, parserVars, halVars, slotVars, groupVars, SameUse,
         Parsed, InHardware, ThreadTypes, Infos
<1>4. ~aborted' => PacketOrder'
  <2>1. /\ Len(packets') = Len(packets) + 1 /\ put' = put + 1
        /\ \A i \in 1 .. Len(packets) + 1 :
              packets'[i] = IF i <= Len(packets) THEN packets[i] ELSE put + 1
    BY <1>2, AppendProperties DEF UserPuts
  <2>2. Len(packets) \in Nat /\ Pulled' = Pulled
    BY <1>2, <2>1, LenProperties DEF Pulled
  <2>3. ref0' = ref0 /\ slot' = slot /\ ready' = ready /\ cur' = cur
    BY DEF UserPuts, parserVars, slotVars
  <2>4. \A i \in 1 .. Len(packets) + 1 : packets'[i] = Pulled + i
    BY <1>1, <1>2, <2>1 DEF PacketOrder, Pulled
  <2> QED BY <1>1, <1>2, <2>1, <2>2, <2>3, <2>4 DEF PacketOrder
<1> QED BY <1>1, <1>3, <1>4, SameUseKeeps DEF SlotsKept, SameUse

(* get_frame.                                                              *)
LEMMA UserGetsUse ==
    ASSUME IInv, ~aborted, SlotsKept, ReferenceKept, UserGets
    PROVE  ReferenceKept' /\ (~aborted' => SlotsKept')
<1>1. /\ Lists /\ SlotsFlagged /\ WritersApart /\ References /\ PacketOrder
      /\ UserTypes /\ ThreadTypes /\ TasksInHand /\ StatusBits /\ PictureInHand
  BY TypeParts DEF SlotsKept, IInv
<1>2. SameUse
  BY <1>1
     DEF UserGets, HalWoken, userVars, outVars, parserVars, halVars, slotVars,
         groupVars, SameUse, Parsed, InHardware, ThreadTypes, Infos
<1>3. PacketOrder'
  BY <1>1, OrderKept
     DEF UserGets, HalWoken, userVars, outVars, parserVars, halVars, slotVars,
         ThreadTypes, Infos
<1> QED BY <1>1, <1>2, <1>3, SameUseKeeps DEF SlotsKept, SameUse

(* A frame is given back.                                                  *)
LEMMA UserReleasesUse ==
    ASSUME IInv, ~aborted, SlotsKept, ReferenceKept, UserReleases
    PROVE  ReferenceKept' /\ (~aborted' => SlotsKept')
<1>1. /\ Lists /\ SlotsFlagged /\ WritersApart /\ References /\ PacketOrder
      /\ UserTypes /\ ThreadTypes /\ TasksInHand /\ StatusBits /\ PictureInHand
  BY TypeParts DEF SlotsKept, IInv
<1>2. SameUse
  BY <1>1
     DEF UserReleases, ParserAfterRelease, ParserWoken, userVars, outVars, parserVars,
         halVars, slotVars, groupVars, SameUse, Parsed, InHardware, ThreadTypes, Infos
<1>3. PacketOrder'
  BY <1>1, OrderKept
     DEF UserReleases, ParserAfterRelease, ParserWoken, userVars, outVars, parserVars,
         halVars, slotVars, ThreadTypes, Infos
<1> QED BY <1>1, <1>2, <1>3, SameUseKeeps DEF SlotsKept, SameUse

(* Buffers are committed.                                                  *)
LEMMA UserCommitsUse ==
    ASSUME IInv, ~aborted, SlotsKept, ReferenceKept, UserCommits
    PROVE  ReferenceKept' /\ (~aborted' => SlotsKept')
<1>1. /\ Lists /\ SlotsFlagged /\ WritersApart /\ References /\ PacketOrder
      /\ UserTypes /\ ThreadTypes /\ TasksInHand /\ StatusBits /\ PictureInHand
  BY TypeParts DEF SlotsKept, IInv
<1>2. SameUse
  BY <1>1
     DEF UserCommits, ParserWoken, userVars, outVars, parserVars, halVars, slotVars,
         groupVars, SameUse, Parsed, InHardware, ThreadTypes, Infos
<1>3. PacketOrder'
  BY <1>1, OrderKept
     DEF UserCommits, ParserWoken, userVars, outVars, parserVars, halVars, slotVars,
         ThreadTypes, Infos
<1> QED BY <1>1, <1>2, <1>3, SameUseKeeps DEF SlotsKept, SameUse

(* The slots are ready.                                                    *)
LEMMA UserReadiesUse ==
    ASSUME IInv, ~aborted, SlotsKept, ReferenceKept, UserReadies
    PROVE  ReferenceKept' /\ (~aborted' => SlotsKept')
<1>1. /\ Lists /\ SlotsFlagged /\ WritersApart /\ References /\ PacketOrder
      /\ UserTypes /\ ThreadTypes /\ TasksInHand /\ StatusBits /\ PictureInHand
  BY TypeParts DEF SlotsKept, IInv
<1>2. SameUse
  BY <1>1
     DEF UserReadies, SlotsReady, ParserWoken, userVars, outVars, parserVars, halVars,
         slotVars, groupVars, SameUse, Parsed, InHardware, ThreadTypes, Infos
<1>3. PacketOrder'
  BY <1>1, OrderKept
     DEF UserReadies, SlotsReady, ParserWoken, userVars, outVars, parserVars, halVars,
         slotVars, ThreadTypes, Infos
<1> QED BY <1>1, <1>2, <1>3, SameUseKeeps DEF SlotsKept, SameUse

(* A reset begins.                                                         *)
LEMMA UserFlushesPacketsUse ==
    ASSUME IInv, ~aborted, SlotsKept, ReferenceKept, UserFlushesPackets
    PROVE  ReferenceKept' /\ (~aborted' => SlotsKept')
<1>1. /\ Lists /\ SlotsFlagged /\ WritersApart /\ References /\ PacketOrder
      /\ UserTypes /\ ThreadTypes /\ TasksInHand /\ StatusBits /\ PictureInHand
  BY TypeParts DEF SlotsKept, IInv
<1>2. packets \in Seq(Packets) /\ put \in Nat /\ Len(packets) \in Nat /\ Pulled \in Int
  BY PacketNumbers
<1>3. SameUse
  BY <1>1, <1>2
     DEF UserFlushesPackets, userVars, outVars, parserVars, halVars, slotVars,
         groupVars, SameUse, Parsed, InHardware, ThreadTypes, Infos
<1>4. ~aborted' => PacketOrder'
  <2>1. packets' = <<>> /\ Len(packets') = 0 /\ put' = put
    BY DEF UserFlushesPackets
  <2>2. Len(packets) \in Nat /\ Pulled' = put /\ Pulled \in Int /\ Pulled <= put
    BY <1>2, <2>1, LenProperties DEF Pulled
  <2>3. ref0' = ref0 /\ slot' = slot /\ ready' = ready /\ cur' = cur
    BY DEF UserFlushesPackets, parserVars, slotVars
  <2>4. "curr" \in ready => cur.id \in Nat
    BY PacketNumbers
  <2>5. ref0 # NoSlot => slot[ref0].frame \in Nat
    BY <1>1, ReferenceFrame
  <2> QED BY <1>1, <1>2, <2>1, <2>2, <2>3, <2>4, <2>5 DEF PacketOrder
<1> QED BY <1>1, <1>3, <1>4, SameUseKeeps DEF SlotsKept, SameUse

(* The frames are flushed.                                                 *)
LEMMA UserFlushesFramesUse ==
    ASSUME IInv, ~aborted, SlotsKept, ReferenceKept, UserFlushesFrames
    PROVE  ReferenceKept' /\ (~aborted' => SlotsKept')
<1>1. /\ Lists /\ SlotsFlagged /\ WritersApart /\ References /\ PacketOrder
      /\ UserTypes /\ ThreadTypes /\ TasksInHand /\ StatusBits /\ PictureInHand
  BY TypeParts DEF SlotsKept, IInv
<1>2. SameUse
  BY <1>1
     DEF UserFlushesFrames, ParserAfterRelease, ParserWoken, userVars, outVars,
         parserVars, halVars, slotVars, groupVars, SameUse, Parsed, InHardware,
         ThreadTypes, Infos
<1>3. PacketOrder'
  BY <1>1, OrderKept
     DEF UserFlushesFrames, ParserAfterRelease, ParserWoken, userVars, outVars,
         parserVars, halVars, slotVars, ThreadTypes, Infos
<1> QED BY <1>1, <1>2, <1>3, SameUseKeeps DEF SlotsKept, SameUse

(* The parser is told to reset.                                            *)
LEMMA UserRaisesFlagUse ==
    ASSUME IInv, ~aborted, SlotsKept, ReferenceKept, UserRaisesFlag
    PROVE  ReferenceKept' /\ (~aborted' => SlotsKept')
<1>1. /\ Lists /\ SlotsFlagged /\ WritersApart /\ References /\ PacketOrder
      /\ UserTypes /\ ThreadTypes /\ TasksInHand /\ StatusBits /\ PictureInHand
  BY TypeParts DEF SlotsKept, IInv
<1>2. SameUse
  BY <1>1
     DEF UserRaisesFlag, ParserWoken, userVars, outVars, parserVars, halVars, slotVars,
         groupVars, SameUse, Parsed, InHardware, ThreadTypes, Infos
<1>3. PacketOrder'
  BY <1>1, OrderKept
     DEF UserRaisesFlag, ParserWoken, userVars, outVars, parserVars, halVars, slotVars,
         ThreadTypes, Infos
<1> QED BY <1>1, <1>2, <1>3, SameUseKeeps DEF SlotsKept, SameUse

(* The parser looks at reset_flag.                                         *)
LEMMA ParserTopUse ==
    ASSUME IInv, ~aborted, SlotsKept, ReferenceKept, ParserTop
    PROVE  ReferenceKept' /\ (~aborted' => SlotsKept')
<1>1. /\ Lists /\ SlotsFlagged /\ WritersApart /\ References /\ PacketOrder
      /\ UserTypes /\ ThreadTypes /\ TasksInHand /\ StatusBits /\ PictureInHand
  BY TypeParts DEF SlotsKept, IInv
<1>2. SameUse
  BY <1>1
     DEF ParserTop, userVars, outVars, parserVars, halVars, slotVars, groupVars,
         SameUse, Parsed, InHardware, ThreadTypes, Infos
<1>3. PacketOrder'
  BY <1>1, OrderKept
     DEF ParserTop, userVars, outVars, parserVars, halVars, slotVars, ThreadTypes, Infos
<1> QED BY <1>1, <1>2, <1>3, SameUseKeeps DEF SlotsKept, SameUse

(* It sleeps or goes on.                                                   *)
LEMMA ParserChecksUse ==
    ASSUME IInv, ~aborted, SlotsKept, ReferenceKept, ParserChecks
    PROVE  ReferenceKept' /\ (~aborted' => SlotsKept')
<1>1. /\ Lists /\ SlotsFlagged /\ WritersApart /\ References /\ PacketOrder
      /\ UserTypes /\ ThreadTypes /\ TasksInHand /\ StatusBits /\ PictureInHand
  BY TypeParts DEF SlotsKept, IInv
<1>2. SameUse
  BY <1>1
     DEF ParserChecks, userVars, outVars, parserVars, halVars, slotVars, groupVars,
         SameUse, Parsed, InHardware, ThreadTypes, Infos
<1>3. PacketOrder'
  BY <1>1, OrderKept
     DEF ParserChecks, userVars, outVars, parserVars, halVars, slotVars, ThreadTypes,
         Infos
<1> QED BY <1>1, <1>2, <1>3, SameUseKeeps DEF SlotsKept, SameUse

(* A task handle.                                                          *)
LEMMA ParserTriesUse ==
    ASSUME IInv, ~aborted, SlotsKept, ReferenceKept, ParserTries
    PROVE  ReferenceKept' /\ (~aborted' => SlotsKept')
<1>1. /\ Lists /\ SlotsFlagged /\ WritersApart /\ References /\ PacketOrder
      /\ UserTypes /\ ThreadTypes /\ TasksInHand /\ StatusBits /\ PictureInHand
  BY TypeParts DEF SlotsKept, IInv
<1>2. SameUse
  BY <1>1
     DEF ParserTries, ParserLocal, userVars, outVars, parserVars, halVars, slotVars,
         groupVars, SameUse, Parsed, InHardware, ThreadTypes, Infos
<1>3. PacketOrder'
  BY <1>1, OrderKept
     DEF ParserTries, ParserLocal, userVars, outVars, parserVars, halVars, slotVars,
         ThreadTypes, Infos
<1> QED BY <1>1, <1>2, <1>3, SameUseKeeps DEF SlotsKept, SameUse

(* There is no packet.                                                     *)
LEMMA PullNothingUse ==
    ASSUME IInv, ~aborted, SlotsKept, ReferenceKept, PullNothing
    PROVE  ReferenceKept' /\ (~aborted' => SlotsKept')
<1>1. /\ Lists /\ SlotsFlagged /\ WritersApart /\ References /\ PacketOrder
      /\ UserTypes /\ ThreadTypes /\ TasksInHand /\ StatusBits /\ PictureInHand
  BY TypeParts DEF SlotsKept, IInv
<1>2. SameUse
  BY <1>1
     DEF PullNothing, ParserLocal, userVars, outVars, parserVars, halVars, slotVars,
         groupVars, SameUse, Parsed, InHardware, ThreadTypes, Infos
<1>3. PacketOrder'
  BY <1>1, OrderKept
     DEF PullNothing, ParserLocal, userVars, outVars, parserVars, halVars, slotVars,
         ThreadTypes, Infos
<1> QED BY <1>1, <1>2, <1>3, SameUseKeeps DEF SlotsKept, SameUse

(* The end of the stream is sent.                                          *)
LEMMA PullEosUse ==
    ASSUME IInv, ~aborted, SlotsKept, ReferenceKept, PullEos
    PROVE  ReferenceKept' /\ (~aborted' => SlotsKept')
<1>1. /\ Lists /\ SlotsFlagged /\ WritersApart /\ References /\ PacketOrder
      /\ UserTypes /\ ThreadTypes /\ TasksInHand /\ StatusBits /\ PictureInHand
  BY TypeParts DEF SlotsKept, IInv
<1>2. PICK h \in HalTasks : h = hnd /\ taskStatus[h] = "IDLE"
  BY <1>1 DEF PullEos, TasksInHand, HndSteps, ThreadTypes
<1>3. /\ Len(packets) \in Nat \ {0} /\ put \in Nat
      /\ Head(packets) = Pulled + 1 /\ Len(packets') = Len(packets) - 1
      /\ \A i \in 1 .. Len(packets') : packets'[i] = packets[i + 1]
      /\ put' = put /\ Pulled' = Pulled + 1 /\ Pulled \in Int
  <2>1. packets \in Seq(Packets) /\ packets # <<>> /\ put \in Nat /\ packets' = Tail(packets)
        /\ put' = put
    BY PacketNumbers DEF PullEos, userVars
  <2>2. /\ Len(packets) \in Nat \ {0} /\ Head(packets) = packets[1]
        /\ Len(Tail(packets)) = Len(packets) - 1
        /\ \A i \in 1 .. Len(packets) - 1 : Tail(packets)[i] = packets[i + 1]
    BY <2>1, HeadTailProperties, EmptySeq, LenProperties
  <2> QED BY <1>1, <2>1, <2>2 DEF PacketOrder, Pulled
<1>4. ref0' = ref0 /\ slot' = slot /\ (ref0 # NoSlot => slot[ref0].frame \in Nat)
  <2>1. ref0' = ref0 /\ slot' = slot
    BY DEF PullEos, parserVars, slotVars
  <2> QED BY <1>1, <2>1, ReferenceFrame
<1>5. PICK i \in Infos : i = cur' /\ ~i.valid /\ i.output = cur.output /\ i.refer = cur.refer
  <2>1. Head(packets) \in Packets
    BY <1>1 DEF PullEos, UserTypes
  <2>2. cur \in Infos /\ cur' = [cur EXCEPT !.id = Head(packets), !.valid = FALSE, !.eos = TRUE]
    BY <1>1 DEF PullEos, ThreadTypes
  <2>3. cur' \in Infos /\ ~cur'.valid /\ cur'.output = cur.output /\ cur'.refer = cur.refer
    BY <2>1, <2>2 DEF Infos
  <2> QED BY <2>3
<1>6. /\ SameHardware
      /\ halInfo' = halInfo /\ (halAt' = "slots" <=> halAt = "slots")
  <2>1. Send(i) /\ scenario' = scenario
    BY <1>5 DEF PullEos, userVars
  <2> QED BY <1>2, <1>5, <2>1, SentElsewhere, Zenon
<1>7. "curr" \notin ready /\ "parsed" \notin ready /\ ready' = ready
  BY <1>1 DEF PullEos, StatusBits
<1>8. SameUse
  <2>1. ~Parsed /\ ~Parsed'
    BY <1>7 DEF Parsed
  <2>2. slot' = slot /\ display' = display /\ ref0' = ref0
    BY DEF PullEos, slotVars
  <2> QED BY <2>1, <2>2, <1>6 DEF SameUse, SameHardware
<1>9. ~aborted' => PacketOrder'
  BY <1>1, <1>3, <1>4, <1>7 DEF PacketOrder
<1> QED BY <1>1, <1>8, <1>9, SameUseKeeps DEF SlotsKept, SameUse

(* A picture is copied into a packet slot.                                 *)
LEMMA PullPictureUse ==
    ASSUME IInv, ~aborted, SlotsKept, ReferenceKept, PullPicture
    PROVE  ReferenceKept' /\ (~aborted' => SlotsKept')
<1>1. /\ Lists /\ SlotsFlagged /\ WritersApart /\ References /\ PacketOrder
      /\ UserTypes /\ ThreadTypes /\ TasksInHand /\ StatusBits /\ PictureInHand
  BY TypeParts DEF SlotsKept, IInv
<1>2. /\ Len(packets) \in Nat \ {0} /\ put \in Nat
      /\ Head(packets) = Pulled + 1 /\ Len(packets') = Len(packets) - 1
      /\ \A i \in 1 .. Len(packets') : packets'[i] = packets[i + 1]
      /\ put' = put /\ Pulled' = Pulled + 1 /\ Pulled \in Int
  <2>1. packets \in Seq(Packets) /\ packets # <<>> /\ put \in Nat /\ packets' = Tail(packets)
        /\ put' = put
    BY PacketNumbers DEF PullPicture, userVars
  <2>2. /\ Len(packets) \in Nat \ {0} /\ Head(packets) = packets[1]
        /\ Len(Tail(packets)) = Len(packets) - 1
        /\ \A i \in 1 .. Len(packets) - 1 : Tail(packets)[i] = packets[i + 1]
    BY <2>1, HeadTailProperties, EmptySeq, LenProperties
  <2> QED BY <1>1, <2>1, <2>2 DEF PacketOrder, Pulled
<1>3. ref0' = ref0 /\ slot' = slot /\ (ref0 # NoSlot => slot[ref0].frame \in Nat)
  <2>1. ref0' = ref0 /\ slot' = slot
    BY DEF PullPicture, parserVars, slotVars
  <2> QED BY <1>1, <2>1, ReferenceFrame
<1>4. "parsed" \notin ready /\ "parsed" \notin ready'
  BY <1>1 DEF PullPicture, StatusBits
<1>5. ~aborted' => cur'.id = Head(packets)
  <2>1. cur \in Infos
    BY <1>1 DEF ThreadTypes
  <2> QED BY <2>1 DEF PullPicture, Abort, Infos
<1>6. SameUse
  <2>1. ~Parsed /\ ~Parsed'
    BY <1>4 DEF Parsed
  <2> QED BY <2>1 DEF PullPicture, SameUse, slotVars, groupVars, halVars, InHardware
<1>7. ~aborted' => PacketOrder'
  BY <1>1, <1>2, <1>3, <1>4, <1>5 DEF PacketOrder
<1> QED BY <1>1, <1>6, <1>7, SameUseKeeps DEF SlotsKept, SameUse

(* The previous task is taken back.                                        *)
LEMMA ParserWaitsPreviousUse ==
    ASSUME IInv, ~aborted, SlotsKept, ReferenceKept, ParserWaitsPrevious
    PROVE  ReferenceKept' /\ (~aborted' => SlotsKept')
<1>1. /\ Lists /\ SlotsFlagged /\ WritersApart /\ References /\ PacketOrder
      /\ UserTypes /\ ThreadTypes /\ TasksInHand /\ StatusBits /\ PictureInHand
  BY TypeParts DEF SlotsKept, IInv
<1>2. SameHardware
  <2>1. CASE UNCHANGED groupVars
    BY <2>1 DEF SameHardware, groupVars, InHardware
  <2>2. CASE "prev" \notin ready /\ HndIn("PROC_DONE") # NoTask
    <3>1. PICK d \in HalTasks : d = HndIn("PROC_DONE") /\ taskStatus[d] = "PROC_DONE"
      BY <1>1, <2>2, HandleFound DEF HalTaskStatuses
    <3>2. SetStatus(d, "IDLE") /\ taskInfo' = taskInfo /\ ~InHardware(d)
      BY <2>2, <3>1 DEF ParserWaitsPrevious, InHardware
    <3> QED BY <1>1, <3>2, IdledElsewhere
  <2> QED BY <1>1, <2>1, <2>2, HandleFound DEF ParserWaitsPrevious, HalTaskStatuses
<1>3. SameUse
  BY <1>1, <1>2
     DEF ParserWaitsPrevious, SameUse, SameHardware, Parsed, userVars, outVars, parserVars,
         halVars, slotVars
<1>4. PacketOrder'
  BY <1>1, <1>2, OrderKept
     DEF ParserWaitsPrevious, userVars, outVars, parserVars, halVars, slotVars,
         ThreadTypes, Infos
<1> QED BY <1>1, <1>3, <1>4, SameUseKeeps DEF SlotsKept, SameUse

(* A buffer must be unused.                                                *)
LEMMA ParserChecksGroupUse ==
    ASSUME IInv, ~aborted, SlotsKept, ReferenceKept, ParserChecksGroup
    PROVE  ReferenceKept' /\ (~aborted' => SlotsKept')
<1>1. /\ Lists /\ SlotsFlagged /\ WritersApart /\ References /\ PacketOrder
      /\ UserTypes /\ ThreadTypes /\ TasksInHand /\ StatusBits /\ PictureInHand
  BY TypeParts DEF SlotsKept, IInv
<1>2. SameUse
  BY <1>1
     DEF ParserChecksGroup, ParserLocal, userVars, outVars, parserVars, halVars,
         slotVars, groupVars, SameUse, Parsed, InHardware, ThreadTypes, Infos
<1>3. PacketOrder'
  BY <1>1, OrderKept
     DEF ParserChecksGroup, ParserLocal, userVars, outVars, parserVars, halVars,
         slotVars, ThreadTypes, Infos
<1> QED BY <1>1, <1>2, <1>3, SameUseKeeps DEF SlotsKept, SameUse

(* An info change is sent.                                                 *)
LEMMA ParserAnnouncesChangeUse ==
    ASSUME IInv, ~aborted, SlotsKept, ReferenceKept, ParserAnnouncesChange
    PROVE  ReferenceKept' /\ (~aborted' => SlotsKept')
<1>1. /\ Lists /\ SlotsFlagged /\ WritersApart /\ References /\ PacketOrder
      /\ UserTypes /\ ThreadTypes /\ TasksInHand /\ StatusBits /\ PictureInHand
  BY TypeParts DEF SlotsKept, IInv
<1>2. PICK h \in HalTasks : h = hnd /\ taskStatus[h] = "IDLE"
  BY <1>1 DEF ParserAnnouncesChange, TasksInHand, HndSteps, ThreadTypes
<1>3. PICK i \in Infos : /\ i = cur' /\ i.infoChange /\ i.id = cur.id
                          /\ i.output = cur.output /\ i.refer = cur.refer
  <2>1. cur \in Infos /\ cur' = [cur EXCEPT !.infoChange = TRUE]
    BY <1>1 DEF ParserAnnouncesChange, ThreadTypes
  <2>2. /\ cur' \in Infos /\ cur'.infoChange /\ cur'.id = cur.id
        /\ cur'.output = cur.output /\ cur'.refer = cur.refer
    BY <2>1 DEF Infos
  <2> QED BY <2>2
<1>4. /\ SameHardware
      /\ halInfo' = halInfo /\ (halAt' = "slots" <=> halAt = "slots")
  <2>1. Send(i) /\ scenario' = scenario
    BY <1>3 DEF ParserAnnouncesChange, userVars
  <2> QED BY <1>2, <1>3, <2>1, SentElsewhere, Zenon
<1>5. SameUse
  <2>1. slot' = slot /\ display' = display /\ ref0' = ref0
    BY DEF ParserAnnouncesChange, slotVars
  <2>2. Parsed' <=> Parsed
    BY <1>3 DEF ParserAnnouncesChange, Parsed
  <2> QED BY <1>3, <1>4, <2>1, <2>2 DEF SameUse, SameHardware
<1>6. PacketOrder'
  BY <1>1, <1>2, <1>3, <1>4, OrderKept
     DEF ParserAnnouncesChange, userVars, outVars, parserVars, halVars, slotVars,
         ThreadTypes, Infos
<1> QED BY <1>1, <1>5, <1>6, SameUseKeeps DEF SlotsKept, SameUse

(* The change is waited for.                                               *)
LEMMA ParserWaitsChangeUse ==
    ASSUME IInv, ~aborted, SlotsKept, ReferenceKept, ParserWaitsChange
    PROVE  ReferenceKept' /\ (~aborted' => SlotsKept')
<1>1. /\ Lists /\ SlotsFlagged /\ WritersApart /\ References /\ PacketOrder
      /\ UserTypes /\ ThreadTypes /\ TasksInHand /\ StatusBits /\ PictureInHand
  BY TypeParts DEF SlotsKept, IInv
<1>2. SameUse
  BY <1>1
     DEF ParserWaitsChange, ParserLocal, userVars, outVars, parserVars, halVars,
         slotVars, groupVars, SameUse, Parsed, InHardware, ThreadTypes, Infos
<1>3. PacketOrder'
  BY <1>1, OrderKept
     DEF ParserWaitsChange, ParserLocal, userVars, outVars, parserVars, halVars,
         slotVars, ThreadTypes, Infos
<1> QED BY <1>1, <1>2, <1>3, SameUseKeeps DEF SlotsKept, SameUse

(* There is no change, or it is over.                                      *)
LEMMA ParserNeedsNoChangeUse ==
    ASSUME IInv, ~aborted, SlotsKept, ReferenceKept, ParserNeedsNoChange
    PROVE  ReferenceKept' /\ (~aborted' => SlotsKept')
<1>1. /\ Lists /\ SlotsFlagged /\ WritersApart /\ References /\ PacketOrder
      /\ UserTypes /\ ThreadTypes /\ TasksInHand /\ StatusBits /\ PictureInHand
  BY TypeParts DEF SlotsKept, IInv
<1>2. SameUse
  BY <1>1
     DEF ParserNeedsNoChange, ParserLocal, userVars, outVars, parserVars, halVars,
         slotVars, groupVars, SameUse, Parsed, InHardware, ThreadTypes, Infos
<1>3. PacketOrder'
  BY <1>1, OrderKept
     DEF ParserNeedsNoChange, ParserLocal, userVars, outVars, parserVars, halVars,
         slotVars, ThreadTypes, Infos
<1> QED BY <1>1, <1>2, <1>3, SameUseKeeps DEF SlotsKept, SameUse

(* A picture without slot is dropped.                                      *)
LEMMA ParserDropsUse ==
    ASSUME IInv, ~aborted, SlotsKept, ReferenceKept, ParserDrops
    PROVE  ReferenceKept' /\ (~aborted' => SlotsKept')
<1>1. /\ Lists /\ SlotsFlagged /\ WritersApart /\ References /\ PacketOrder
      /\ UserTypes /\ ThreadTypes /\ TasksInHand /\ StatusBits /\ PictureInHand
  BY TypeParts DEF SlotsKept, IInv
<1>2. PICK h \in HalTasks : h = hnd /\ taskStatus[h] = "IDLE"
  BY <1>1 DEF ParserDrops, TasksInHand, HndSteps, ThreadTypes
<1>3. PICK i \in Infos : i = [cur EXCEPT !.infoChange = FALSE] /\ ~i.valid
  <2>1. "parsed" \in ready /\ ~cur.valid /\ cur \in Infos
    BY <1>1 DEF ParserDrops, StatusBits, PictureInHand, ThreadTypes
  <2> DEFINE c == [cur EXCEPT !.infoChange = FALSE]
  <2>2. c \in Infos /\ ~c.valid
    BY <2>1 DEF Infos
  <2> QED BY <2>2
<1>4. /\ SameHardware
      /\ halInfo' = halInfo /\ (halAt' = "slots" <=> halAt = "slots")
  <2>1. CASE Send(i)
    <3>1. scenario' = scenario
      BY DEF ParserDrops, userVars
    <3> QED BY <1>2, <1>3, <2>1, <3>1, SentElsewhere, Zenon
  <2>2. CASE SetStatus(h, "IDLE") /\ UNCHANGED <<taskInfo, halVars>>
    <3>1. SameHardware
      <4>1. ~InHardware(h)
        BY <1>2 DEF InHardware
      <4> QED BY <1>1, <2>2, <4>1, IdledElsewhere
    <3> QED BY <2>2, <3>1 DEF halVars
  <2> QED BY <1>2, <1>3, <2>1, <2>2 DEF ParserDrops
<1>5. SameUse
  <2>1. ~Parsed /\ ~Parsed'
    BY DEF ParserDrops, Parsed
  <2>2. slot' = slot /\ display' = display /\ ref0' = ref0
    BY DEF ParserDrops, slotVars
  <2> QED BY <2>1, <2>2, <1>4 DEF SameUse, SameHardware
<1>6. PacketOrder'
  BY <1>1, <1>2, <1>3, <1>4, OrderKept
     DEF ParserDrops, userVars, outVars, parserVars, halVars, slotVars, ThreadTypes,
         Infos
<1> QED BY <1>1, <1>5, <1>6, SameUseKeeps DEF SlotsKept, SameUse

(* A reset takes the previous task.                                        *)
LEMMA ResetTakesPreviousUse ==
    ASSUME IInv, ~aborted, SlotsKept, ReferenceKept, ResetTakesPrevious
    PROVE  ReferenceKept' /\ (~aborted' => SlotsKept')
<1>1. /\ Lists /\ SlotsFlagged /\ WritersApart /\ References /\ PacketOrder
      /\ UserTypes /\ ThreadTypes /\ TasksInHand /\ StatusBits /\ PictureInHand
  BY TypeParts DEF SlotsKept, IInv
<1>2. SameHardware
  <2>1. CASE UNCHANGED groupVars
    BY <2>1 DEF SameHardware, groupVars, InHardware
  <2>2. CASE "prev" \notin ready /\ HndIn("PROC_DONE") # NoTask
    <3>1. PICK d \in HalTasks : d = HndIn("PROC_DONE") /\ taskStatus[d] = "PROC_DONE"
      BY <1>1, <2>2, HandleFound DEF HalTaskStatuses
    <3>2. SetStatus(d, "IDLE") /\ taskInfo' = taskInfo /\ ~InHardware(d)
      BY <2>2, <3>1 DEF ResetTakesPrevious, InHardware
    <3> QED BY <1>1, <3>2, IdledElsewhere
  <2> QED BY <1>1, <2>1, <2>2, HandleFound DEF ResetTakesPrevious, HalTaskStatuses
<1>3. SameUse
  BY <1>1, <1>2
     DEF ResetTakesPrevious, SameUse, SameHardware, Parsed, userVars, outVars, parserVars,
         halVars, slotVars
<1>4. PacketOrder'
  BY <1>1, <1>2, OrderKept
     DEF ResetTakesPrevious, userVars, outVars, parserVars, halVars, slotVars,
         ThreadTypes, Infos
<1> QED BY <1>1, <1>3, <1>4, SameUseKeeps DEF SlotsKept, SameUse

(* The reset is over.                                                      *)
LEMMA ResetEndsUse ==
    ASSUME IInv, ~aborted, SlotsKept, ReferenceKept, ResetEnds
    PROVE  ReferenceKept' /\ (~aborted' => SlotsKept')
<1>1. /\ Lists /\ SlotsFlagged /\ WritersApart /\ References /\ PacketOrder
      /\ UserTypes /\ ThreadTypes /\ TasksInHand /\ StatusBits /\ PictureInHand
  BY TypeParts DEF SlotsKept, IInv
<1>2. SameUse
  BY <1>1
     DEF ResetEnds, userVars, outVars, parserVars, halVars, slotVars, groupVars,
         SameUse, Parsed, InHardware, ThreadTypes, Infos
<1>3. PacketOrder'
  BY <1>1, OrderKept
     DEF ResetEnds, userVars, outVars, parserVars, halVars, slotVars, ThreadTypes, Infos
<1> QED BY <1>1, <1>2, <1>3, SameUseKeeps DEF SlotsKept, SameUse

(* The HAL thread looks for a task.                                        *)
LEMMA HalGetsUse ==
    ASSUME IInv, ~aborted, SlotsKept, ReferenceKept, HalGets
    PROVE  ReferenceKept' /\ (~aborted' => SlotsKept')
<1>1. /\ Lists /\ SlotsFlagged /\ WritersApart /\ References /\ PacketOrder
      /\ UserTypes /\ ThreadTypes /\ TasksInHand /\ StatusBits /\ PictureInHand
  BY TypeParts DEF SlotsKept, IInv
<1>2. SameUse
  BY <1>1
     DEF HalGets, userVars, outVars, parserVars, halVars, slotVars, groupVars, SameUse,
         Parsed, InHardware, ThreadTypes, Infos
<1>3. PacketOrder'
  BY <1>1, OrderKept
     DEF HalGets, userVars, outVars, parserVars, halVars, slotVars, ThreadTypes, Infos
<1> QED BY <1>1, <1>2, <1>3, SameUseKeeps DEF SlotsKept, SameUse

(* No finished picture is left to push.                                    *)
LEMMA HalDisplayEndsUse ==
    ASSUME IInv, ~aborted, SlotsKept, ReferenceKept, HalDisplayEnds
    PROVE  ReferenceKept' /\ (~aborted' => SlotsKept')
<1>1. /\ Lists /\ SlotsFlagged /\ WritersApart /\ References /\ PacketOrder
      /\ UserTypes /\ ThreadTypes /\ TasksInHand /\ StatusBits /\ PictureInHand
  BY TypeParts DEF SlotsKept, IInv
<1>2. SameUse
  BY <1>1
     DEF HalDisplayEnds, userVars, outVars, parserVars, halVars, slotVars, groupVars,
         SameUse, Parsed, InHardware, ThreadTypes, Infos
<1>3. PacketOrder'
  BY <1>1, OrderKept
     DEF HalDisplayEnds, userVars, outVars, parserVars, halVars, slotVars, ThreadTypes,
         Infos
<1> QED BY <1>1, <1>2, <1>3, SameUseKeeps DEF SlotsKept, SameUse

(* A frame without picture is put.                                         *)
LEMMA HalPutsUse ==
    ASSUME IInv, ~aborted, SlotsKept, ReferenceKept, HalPuts
    PROVE  ReferenceKept' /\ (~aborted' => SlotsKept')
<1>1. /\ Lists /\ SlotsFlagged /\ WritersApart /\ References /\ PacketOrder
      /\ UserTypes /\ ThreadTypes /\ TasksInHand /\ StatusBits /\ PictureInHand
  BY TypeParts DEF SlotsKept, IInv
<1>2. SameUse
  BY <1>1
     DEF HalPuts, userVars, outVars, parserVars, halVars, slotVars, groupVars, SameUse,
         Parsed, InHardware, ThreadTypes, Infos
<1>3. PacketOrder'
  BY <1>1, OrderKept
     DEF HalPuts, userVars, outVars, parserVars, halVars, slotVars, ThreadTypes, Infos
<1> QED BY <1>1, <1>2, <1>3, SameUseKeeps DEF SlotsKept, SameUse

(* Such a task is idle again.                                              *)
LEMMA HalIdlesUse ==
    ASSUME IInv, ~aborted, SlotsKept, ReferenceKept, HalIdles
    PROVE  ReferenceKept' /\ (~aborted' => SlotsKept')
<1>1. /\ Lists /\ SlotsFlagged /\ WritersApart /\ References /\ PacketOrder
      /\ UserTypes /\ ThreadTypes /\ TasksInHand /\ StatusBits /\ PictureInHand
  BY TypeParts DEF SlotsKept, IInv
<1>2. SameHardware
  <2>1. PICK h \in HalTasks : h = halTask /\ taskStatus[h] = "PROCESSING" /\ halInfo = taskInfo[h]
    BY <1>1 DEF HalIdles, TasksInHand, InfoSteps, EosSteps, ThreadTypes
  <2>2. ~InHardware(h)
    BY <1>1, <2>1 DEF HalIdles, TasksInHand, InfoSteps, EosSteps, InHardware
  <2>3. SetStatus(h, "IDLE") /\ taskInfo' = taskInfo
    BY <2>1 DEF HalIdles
  <2> QED BY <1>1, <2>2, <2>3, IdledElsewhere
<1>3. SameUse
  BY <1>1, <1>2 DEF HalIdles, ParserWoken, SameUse, SameHardware, Parsed, parserVars, slotVars
<1>4. PacketOrder'
  BY <1>1, <1>2, OrderKept
     DEF HalIdles, userVars, outVars, parserVars, halVars, slotVars, ThreadTypes, Infos
<1> QED BY <1>1, <1>3, <1>4, SameUseKeeps DEF SlotsKept, SameUse

(* The hardware has finished.                                              *)
LEMMA HalHardwareEndsUse ==
    ASSUME IInv, ~aborted, SlotsKept, ReferenceKept, HalHardwareEnds
    PROVE  ReferenceKept' /\ (~aborted' => SlotsKept')
<1>1. /\ Lists /\ SlotsFlagged /\ WritersApart /\ References /\ PacketOrder
      /\ UserTypes /\ ThreadTypes /\ TasksInHand /\ StatusBits /\ PictureInHand
  BY TypeParts DEF SlotsKept, IInv
<1>2. SameUse
  BY <1>1
     DEF HalHardwareEnds, userVars, outVars, parserVars, halVars, slotVars, groupVars,
         SameUse, Parsed, InHardware, ThreadTypes, Infos
<1>3. PacketOrder'
  BY <1>1, OrderKept
     DEF HalHardwareEnds, userVars, outVars, parserVars, halVars, slotVars, ThreadTypes,
         Infos
<1> QED BY <1>1, <1>2, <1>3, SameUseKeeps DEF SlotsKept, SameUse

-----------------------------------------------------------------------------
(***************************************************************************)
(* The display queue.                                                      *)
(***************************************************************************)
LEMMA TailDistinct ==
    ASSUME NEW S, NEW s \in Seq(S), IsInjective(s), s # <<>>
    PROVE  /\ Head(s) \in ToSet(s) /\ Head(s) \in S /\ IsInjective(Tail(s))
           /\ ToSet(Tail(s)) = ToSet(s) \ {Head(s)}
<1>1. /\ Len(s) \in Nat \ {0} /\ Head(s) = s[1] /\ Tail(s) \in Seq(S)
      /\ Len(Tail(s)) = Len(s) - 1
      /\ \A i \in 1 .. Len(s) - 1 : Tail(s)[i] = s[i + 1]
      /\ \A i \in 1 .. Len(s) : s[i] \in S
  <2>1. /\ Len(s) \in Nat /\ \A i \in 1 .. Len(s) : s[i] \in S
    BY LenProperties, ElementOfSeq
  <2>2. Len(s) # 0
    BY EmptySeq
  <2>3. /\ Head(s) = s[1] /\ Tail(s) \in Seq(S) /\ Len(Tail(s)) = Len(s) - 1
        /\ \A i \in 1 .. Len(Tail(s)) : Tail(s)[i] = s[i + 1]
    BY HeadTailProperties
  <2> QED BY <2>1, <2>2, <2>3
<1> DEFINE t == Tail(s)
<1>2. /\ \A x : x \in ToSet(s) <=> \E i \in 1 .. Len(s) : s[i] = x
      /\ \A i, j \in 1 .. Len(s) : s[i] = s[j] => i = j
  BY ToSetOfSeq
<1> HIDE DEF t
<1>3. /\ \A x : x \in ToSet(t) <=> \E i \in 1 .. Len(t) : t[i] = x
      /\ IsInjective(t) <=> \A i, j \in 1 .. Len(t) : t[i] = t[j] => i = j
  <2>1. t \in Seq(S)
    BY <1>1 DEF t
  <2> QED BY <2>1, ToSetOfSeq, Zenon
<1>4. IsInjective(t)
  BY <1>1, <1>2, <1>3 DEF t
<1>5. Head(s) \in ToSet(s)
  BY <1>1, <1>2
<1>6. ASSUME NEW x
      PROVE  x \in ToSet(t) <=> x \in ToSet(s) /\ x # Head(s)
  <2>1. ASSUME x \in ToSet(t) PROVE x \in ToSet(s) /\ x # Head(s)
    <3>1. PICK i \in 1 .. Len(t) : t[i] = x
      BY <1>3, <2>1
    <3>2. i \in 1 .. Len(s) - 1 /\ s[i + 1] = x
      BY <1>1, <3>1 DEF t
    <3> QED BY <1>1, <1>2, <3>2
  <2>2. ASSUME x \in ToSet(s), x # Head(s) PROVE x \in ToSet(t)
    <3>1. PICK i \in 1 .. Len(s) : s[i] = x
      BY <1>2, <2>2
    <3>2. i - 1 \in 1 .. Len(s) - 1
      BY <1>1, <2>2, <3>1
    <3>3. t[i - 1] = x
      BY <1>1, <3>1, <3>2 DEF t
    <3> QED BY <1>1, <1>3, <3>2, <3>3 DEF t
  <2> QED BY <2>1, <2>2
<1> QED BY <1>1, <1>4, <1>5, <1>6 DEF t

LEMMA UnqueuedSlot ==
    ASSUME NEW S, NEW s \in Seq(S), IsInjective(s), NEW i
    PROVE  /\ Unqueued(s, i) \in Seq(S) /\ IsInjective(Unqueued(s, i))
           /\ ToSet(Unqueued(s, i)) = ToSet(s) \ {i}
<1>1. Unqueued(s, i) = Unlisted(s, i)
  BY DEF Unqueued, Unlisted
<1> QED BY <1>1, UnlistedTask

LEMMA EnqueuedSlot ==
    ASSUME NEW S, NEW s \in Seq(S), IsInjective(s), NEW i \in S
    PROVE  IsInjective(Enqueued(s, i)) /\ ToSet(Enqueued(s, i)) = ToSet(s) \union {i}
<1>1. /\ Unqueued(s, i) \in Seq(S) /\ IsInjective(Unqueued(s, i))
      /\ ToSet(Unqueued(s, i)) = ToSet(s) \ {i}
  BY UnqueuedSlot
<1>2. /\ IsInjective(Append(Unqueued(s, i), i))
      /\ ToSet(Append(Unqueued(s, i), i)) = (ToSet(s) \ {i}) \union {i}
  BY <1>1, AppendedDistinct
<1> QED BY <1>2 DEF Enqueued

-----------------------------------------------------------------------------
(***************************************************************************)
(* Steps that change who uses a slot.                                      *)
(***************************************************************************)
(* What the invariants say of the slots, the display queue and the users.  *)
LEMMA UseFacts ==
    ASSUME IInv, SlotsKept
    PROVE  /\ slot \in [Slots -> SlotEntries] /\ display \in Seq(Slots) /\ IsInjective(display)
           /\ \A i : /\ Writer(i) \in BOOLEAN /\ NewWriter(i) \in BOOLEAN
                     /\ LateWriter(i) \in BOOLEAN /\ NewReader(i) \in BOOLEAN
                     /\ LateReader(i) \in BOOLEAN /\ Shown(i) \in BOOLEAN
                     /\ (i = ref0) \in BOOLEAN /\ Readers(i) \in 0 .. 2
           /\ \A i \in Slots : Flagged(slot[i], Writer(i), i = ref0, Shown(i), Readers(i))
<1>1. slot \in [Slots -> SlotEntries] /\ display \in Seq(Slots)
  BY TypeParts, SlotParts DEF IInv
<1>2. \A i : /\ Writer(i) \in BOOLEAN /\ NewWriter(i) \in BOOLEAN
             /\ LateWriter(i) \in BOOLEAN /\ NewReader(i) \in BOOLEAN
             /\ LateReader(i) \in BOOLEAN /\ Shown(i) \in BOOLEAN
             /\ (i = ref0) \in BOOLEAN
  BY DEF Writer, NewWriter, LateWriter, NewReader, LateReader, Shown
<1>3. \A i : Readers(i) \in 0 .. 2
  BY DEF Readers
<1> QED BY <1>1, <1>2, <1>3 DEF SlotsKept, SlotsFlagged

(* Users use slots.                                                        *)
LEMMA UsersTyped ==
    ASSUME IInv
    PROVE  /\ ref0 # NoSlot => ref0 \in Slots
           /\ Parsed => cur.output \in Slots
           /\ Parsed /\ cur.refer # NoSlot => cur.refer \in Slots /\ NewReader(cur.refer)
           /\ \A t \in HalTasks : taskInfo[t].refer # NoSlot /\ InHardware(t) =>
                 taskInfo[t].refer \in Slots /\ NewReader(taskInfo[t].refer)
<1>1. ThreadTypes /\ taskInfo \in [HalTasks -> Infos]
  BY TypeParts DEF IInv
<1>2. cur \in Infos /\ \A t \in HalTasks : taskInfo[t] \in Infos
  BY <1>1 DEF ThreadTypes
<1> QED BY <1>1, <1>2 DEF ThreadTypes, Infos, Parsed, NewReader

(* The hardware is done, and the slots do not know yet.                    *)
LEMMA HalMarksDoneUse ==
    ASSUME IInv, ~aborted, SlotsKept, HalMarksDone
    PROVE  ~aborted' /\ SlotsKept'
<1>1. /\ Lists /\ SlotsFlagged /\ WritersApart /\ References /\ PacketOrder
      /\ TasksInHand /\ StatusBits /\ OneInFlight /\ ThreadTypes
  BY TypeParts DEF IInv, SlotsKept
<1>2. PICK h \in HalTasks : h = halTask /\ taskStatus[h] = "PROCESSING" /\ halInfo = taskInfo[h]
  BY <1>1 DEF HalMarksDone, TasksInHand, DecodeSteps, ThreadTypes
<1>3. /\ InHardware(h) /\ ~InHardware(h)'
      /\ \A t \in HalTasks \ {h} : ~InHardware(t) /\ ~InHardware(t)'
  <2>1. InHardware(h) /\ InFlight(h)
    BY <1>1, <1>2 DEF HalMarksDone, TasksInHand, DecodeSteps, InHardware, InFlight
  <2>2. SetStatus(h, "PROC_DONE") /\ taskInfo' = taskInfo
    BY <1>2 DEF HalMarksDone
  <2>3. /\ ~InHardware(h)'
        /\ \A u \in HalTasks \ {h} : InHardware(u)' <=> InHardware(u)
    BY <1>1, <2>2, TaskDone
  <2>4. \A t \in HalTasks \ {h} : ~InHardware(t)
    BY <1>1, <2>1 DEF OneInFlight, InFlight
  <2> QED BY <2>1, <2>3, <2>4
<1>4. /\ halAt = "done" /\ halAt' = "slots" /\ halInfo' = halInfo
      /\ slot' = slot /\ display' = display /\ ref0' = ref0 /\ ready' = ready /\ cur' = cur
      /\ put' = put /\ packets' = packets /\ aborted' = aborted
  BY DEF HalMarksDone, slotVars, parserVars, userVars
<1>5. ~Parsed /\ ~Parsed'
  <2>1. "prev" \notin ready
    BY <1>1, <1>3 DEF OneInFlight, InFlight
  <2> QED BY <1>1, <1>4, <2>1 DEF StatusBits, Parsed
<1>6. \A i : /\ NewWriter(i) <=> halInfo.output = i
             /\ LateWriter(i)' <=> halInfo.output = i
             /\ NewReader(i) <=> halInfo.refer = i
             /\ LateReader(i)' <=> halInfo.refer = i
             /\ ~LateWriter(i) /\ ~NewWriter(i)' /\ ~LateReader(i) /\ ~NewReader(i)'
  BY <1>2, <1>3, <1>4, <1>5 DEF NewWriter, LateWriter, NewReader, LateReader
<1>7. \A i : /\ Writer(i)' <=> Writer(i)
             /\ Readers(i)' = Readers(i)
             /\ Shown(i)' <=> Shown(i)
  <2>1. \A i : Writer(i)' <=> Writer(i)
    BY <1>6 DEF Writer
  <2>2. \A i : Readers(i)' = Readers(i)
    BY <1>6 DEF Readers
  <2>3. \A i : Shown(i)' <=> Shown(i)
    BY <1>4 DEF Shown
  <2> QED BY <2>1, <2>2, <2>3
<1>8. SlotsFlagged'
  BY <1>1, <1>4, <1>7 DEF SlotsFlagged, Flagged
<1>9. WritersApart' /\ References'
  <2>1. halInfo.output # NoSlot /\ halInfo.output # halInfo.refer
    BY <1>1, <1>2, <1>3 DEF WritersApart
  <2> QED BY <1>1, <1>3, <1>4, <1>5, <1>6, <2>1 DEF WritersApart, References
<1>10. PacketOrder'
  BY <1>1, <1>4, OrderKept
<1> QED BY <1>4, <1>8, <1>9, <1>10 DEF SlotsKept

(* A finished picture leaves the display queue.                            *)
LEMMA TakeDisplayedUse ==
    ASSUME IInv, SlotsKept, TakeDisplayed, UNCHANGED groupVars, UNCHANGED parserVars,
           UNCHANGED halVars, put' = put, packets' = packets, Parsed' <=> Parsed
    PROVE  SlotsKept'
<1> DEFINE h == Head(display)
<1>1. /\ SlotsFlagged /\ WritersApart /\ References /\ PacketOrder
      /\ slot \in [Slots -> SlotEntries] /\ display \in Seq(Slots) /\ IsInjective(display)
  BY UseFacts DEF SlotsKept
<1>2. /\ display # <<>> /\ ~slot[h].notReady /\ display' = Tail(display)
      /\ slot' = [slot EXCEPT ![h] = Undisplayed]
  BY DEF TakeDisplayed, DisplayReady
<1>3. /\ h \in Slots /\ Shown(h) /\ IsInjective(display')
      /\ \A i : Shown(i)' <=> Shown(i) /\ i # h
  BY <1>1, <1>2, TailDistinct DEF Shown
<1>4. /\ ref0' = ref0 /\ ready' = ready /\ cur' = cur /\ halAt' = halAt /\ halInfo' = halInfo
      /\ taskInfo' = taskInfo /\ \A t : InHardware(t)' <=> InHardware(t)
  BY GroupSame DEF parserVars, halVars
<1>5. \A i : /\ NewWriter(i)' <=> NewWriter(i)
             /\ LateWriter(i)' <=> LateWriter(i)
             /\ Writer(i)' <=> Writer(i)
             /\ NewReader(i)' <=> NewReader(i)
             /\ LateReader(i)' <=> LateReader(i)
             /\ Readers(i)' = Readers(i)
  <2>1. \A i : /\ NewWriter(i)' <=> NewWriter(i)
               /\ LateWriter(i)' <=> LateWriter(i)
               /\ NewReader(i)' <=> NewReader(i)
               /\ LateReader(i)' <=> LateReader(i)
    BY <1>4 DEF NewWriter, LateWriter, NewReader, LateReader
  <2> QED BY <2>1 DEF Writer, Readers
<1>6. PICK d : /\ d = Undisplayed
               /\ Flagged(d, FALSE, h = ref0, FALSE, Readers(h))
               /\ h = ref0 \/ Readers(h) > 0 => SameContent(d, slot[h])
  <2>1. Flagged(slot[h], Writer(h), h = ref0, Shown(h), Readers(h)) /\ ~Writer(h)
    BY <1>1, <1>2, <1>3 DEF SlotsFlagged, Flagged
  <2>2. PICK e \in SlotEntries : e = slot[h]
    BY <1>1, <1>3
  <2>3. PICK kept \in BOOLEAN : kept <=> h = ref0
    OBVIOUS
  <2>4. PICK n \in 0 .. 2 : n = Readers(h)
    BY UseFacts
  <2>5. Flagged(e, FALSE, kept, TRUE, n)
    BY <1>3, <2>1, <2>2, <2>3, <2>4 DEF Flagged
  <2>6. LET u == ClrFlag([e EXCEPT !.queueUse = Less(@)], "QUEUE_USE")
        IN  /\ Flagged(u, FALSE, kept, FALSE, n)
            /\ kept \/ n > 0 => SameContent(u, e)
    BY <2>5, ShownEnds
  <2>7. Undisplayed = ClrFlag([e EXCEPT !.queueUse = Less(@)], "QUEUE_USE")
    BY <2>2 DEF Undisplayed
  <2> QED BY <2>2, <2>3, <2>4, <2>6, <2>7 DEF Flagged
<1>7. /\ slot'[h] = d /\ \A i \in Slots \ {h} : slot'[i] = slot[i]
  BY <1>1, <1>2, <1>3, <1>6
<1>8. SlotsFlagged'
  <2>1. ~Writer(h)
    BY <1>1, <1>2, <1>3 DEF SlotsFlagged, Flagged
  <2>2. \A i \in Slots : Flagged(slot'[i], Writer(i), i = ref0, Shown(i) /\ i # h, Readers(i))
    BY <1>1, <1>6, <1>7, <2>1 DEF SlotsFlagged, Flagged
  <2> QED BY <1>3, <1>4, <1>5, <2>2 DEF SlotsFlagged, Flagged
<1>9. WritersApart'
  BY <1>1, <1>4, <1>5 DEF WritersApart
<1>10. /\ \A i \in Slots : i = ref0 \/ NewReader(i) => SameContent(slot'[i], slot[i])
       /\ Parsed => slot'[cur.output] = slot[cur.output]
  <2>1. NewReader(h) => Readers(h) > 0
    BY DEF Readers
  <2>2. ~Writer(h) /\ (Parsed => NewWriter(cur.output))
    BY <1>1, <1>2, <1>3 DEF SlotsFlagged, Flagged, NewWriter
  <2>3. Parsed => cur.output \in Slots
    BY UsersTyped
  <2> QED BY <1>6, <1>7, <2>1, <2>2, <2>3 DEF SameContent, Writer
<1>11. References' /\ PacketOrder'
  BY <1>1, <1>4, <1>5, <1>10, UsersTyped DEF References, PacketOrder, Pulled, SameContent
<1> QED BY <1>3, <1>8, <1>9, <1>11 DEF SlotsKept

LEMMA ResetDrainsUse ==
    ASSUME IInv, ~aborted, SlotsKept, ResetDrains
    PROVE  ~aborted' /\ SlotsKept'
<1>1. /\ TakeDisplayed /\ UNCHANGED groupVars /\ UNCHANGED parserVars /\ UNCHANGED halVars
      /\ put' = put /\ packets' = packets /\ parserAt' = parserAt /\ aborted' = aborted
  BY DEF ResetDrains, userVars
<1>2. Parsed' <=> Parsed
  BY <1>1 DEF Parsed, parserVars
<1> QED BY <1>1, <1>2, TakeDisplayedUse

LEMMA HalDisplaysUse ==
    ASSUME IInv, ~aborted, SlotsKept, HalDisplays
    PROVE  ~aborted' /\ SlotsKept'
<1>1. /\ TakeDisplayed /\ UNCHANGED groupVars /\ UNCHANGED parserVars /\ UNCHANGED halVars
      /\ put' = put /\ packets' = packets /\ aborted' = aborted
      /\ parserAt' \in {parserAt, IF parserAt = "asleep" THEN "try" ELSE parserAt}
  BY DEF HalDisplays, userVars, ParserAfterRelease, ParserWoken
<1>2. Parsed' <=> Parsed
  BY <1>1 DEF Parsed, parserVars
<1> QED BY <1>1, <1>2, TakeDisplayedUse

(* The slots know: the picture is ready, its reference no longer read.     *)
LEMMA HalClearsSlotsUse ==
    ASSUME IInv, ~aborted, SlotsKept, HalClearsSlots
    PROVE  ~aborted' /\ SlotsKept'
<1>1. /\ SlotsFlagged /\ WritersApart /\ References /\ PacketOrder
      /\ slot \in [Slots -> SlotEntries] /\ IsInjective(display)
  BY UseFacts DEF SlotsKept
<1>2. PICK out, ref \in Slots \union {NoSlot} : out = halInfo.output /\ ref = halInfo.refer
  BY TypeParts DEF IInv, ThreadTypes, Infos
<1>3. /\ halAt = "slots" /\ halAt' = "display" /\ halInfo' = halInfo
      /\ display' = display /\ ref0' = ref0 /\ ready' = ready /\ cur' = cur
      /\ put' = put /\ packets' = packets /\ aborted' = aborted
      /\ parserAt' \in {parserAt, IF parserAt = "asleep" THEN "try" ELSE parserAt}
      /\ slot' = [i \in Slots |-> CASE i = out -> ClrFlag(slot[i], "HAL_OUTPUT")
                                    [] i = ref -> ClrFlag(slot[i], "HAL_INPUT")
                                    [] OTHER   -> slot[i]]
      /\ UNCHANGED groupVars
  BY <1>2 DEF HalClearsSlots, halVars, parserVars, userVars, ParserAfterRelease, ParserWoken
<1>4. /\ out \in Slots /\ out # ref /\ ~NewWriter(out)
  BY <1>1, <1>2, <1>3 DEF WritersApart
<1>5. /\ Parsed' <=> Parsed
      /\ taskInfo' = taskInfo
      /\ \A t : InHardware(t)' <=> InHardware(t)
  BY <1>3, GroupSame DEF Parsed
<1>6. \A i : /\ NewWriter(i)' <=> NewWriter(i)
             /\ LateWriter(i) <=> i = out
             /\ ~LateWriter(i)'
             /\ NewReader(i)' <=> NewReader(i)
             /\ LateReader(i) <=> i = ref
             /\ ~LateReader(i)'
             /\ Shown(i)' <=> Shown(i)
  BY <1>2, <1>3, <1>5 DEF NewWriter, LateWriter, NewReader, LateReader, Shown
<1>7. \A i : /\ Writer(i)' <=> Writer(i) /\ i # out
             /\ Readers(i)' = IF i = ref THEN Readers(i) - 1 ELSE Readers(i)
             /\ Readers(i)' = IF NewReader(i) THEN 1 ELSE 0
  BY <1>4, <1>6 DEF Writer, Readers
<1>8. ASSUME NEW i \in Slots
      PROVE  /\ Flagged(slot'[i], Writer(i)', i = ref0, Shown(i), Readers(i)')
             /\ i = ref0 \/ NewReader(i) => SameContent(slot'[i], slot[i])
  <2>1. PICK e \in SlotEntries : e = slot[i]
    BY <1>1
  <2>2. PICK writer \in BOOLEAN, kept \in BOOLEAN, shown \in BOOLEAN, n \in 0 .. 2 :
           /\ writer <=> Writer(i)
           /\ kept <=> i = ref0
           /\ shown <=> Shown(i)
           /\ n = Readers(i)
    <3>1. PICK n \in 0 .. 2 : n = Readers(i)
      BY UseFacts
    <3>2. PICK writer \in BOOLEAN : writer <=> Writer(i)
      OBVIOUS
    <3>3. PICK kept \in BOOLEAN : kept <=> i = ref0
      OBVIOUS
    <3>4. PICK shown \in BOOLEAN : shown <=> Shown(i)
      OBVIOUS
    <3> QED BY <3>1, <3>2, <3>3, <3>4
  <2>3. Flagged(e, writer, kept, shown, n)
    BY <1>1, <2>1, <2>2 DEF SlotsFlagged, Flagged
  <2>4. CASE i = out
    <3>1. writer
      BY <1>6, <2>2, <2>4 DEF Writer
    <3>2. Flagged(e, TRUE, kept, shown, n)
      BY <2>3, <3>1 DEF Flagged
    <3>3. /\ Flagged(ClrFlag(e, "HAL_OUTPUT"), FALSE, kept, shown, n)
          /\ kept \/ shown \/ n > 0 => SameContent(ClrFlag(e, "HAL_OUTPUT"), e)
      BY <3>2, OutputEnds
    <3>4. slot'[i] = ClrFlag(e, "HAL_OUTPUT")
      BY <1>3, <1>4, <2>1, <2>4
    <3>5. /\ ~Writer(i)' /\ Readers(i)' = n
          /\ NewReader(i) => n > 0
      BY <1>4, <1>7, <2>2, <2>4
    <3> QED BY <2>1, <2>2, <3>3, <3>4, <3>5 DEF Flagged
  <2>5. CASE i # out /\ i = ref
    <3>1. n > 0
      BY <1>6, <2>2, <2>5 DEF Readers
    <3>2. /\ Flagged(ClrFlag(e, "HAL_INPUT"), writer, kept, shown, n - 1)
          /\ writer \/ kept \/ shown \/ n > 1 => SameContent(ClrFlag(e, "HAL_INPUT"), e)
      BY <2>3, <3>1, ReadEnds
    <3>3. slot'[i] = ClrFlag(e, "HAL_INPUT")
      BY <1>3, <2>1, <2>5
    <3>4. /\ Writer(i)' <=> writer
          /\ Readers(i)' = n - 1
          /\ NewReader(i) => n > 1
      BY <1>7, <2>2, <2>5
    <3> QED BY <2>1, <2>2, <3>2, <3>3, <3>4 DEF Flagged
  <2>6. CASE i # out /\ i # ref
    <3>1. slot'[i] = e
      BY <1>3, <2>1, <2>6
    <3>2. /\ Writer(i)' <=> writer
          /\ Readers(i)' = n
      BY <1>7, <2>2, <2>6
    <3> QED BY <2>1, <2>2, <2>3, <3>1, <3>2 DEF Flagged, SameContent
  <2> QED BY <2>4, <2>5, <2>6
<1>9. SlotsFlagged'
  BY <1>3, <1>6, <1>8 DEF SlotsFlagged, Flagged
<1>10. WritersApart'
  BY <1>1, <1>3, <1>5, <1>6 DEF WritersApart
<1>11. Parsed => slot'[cur.output] = slot[cur.output]
  <2>1. Parsed => /\ cur.output \in Slots
                  /\ ~LateWriter(cur.output) /\ ~LateReader(cur.output)
    BY <1>1, UsersTyped DEF WritersApart
  <2> QED BY <1>3, <1>6, <2>1
<1>12. References' /\ PacketOrder'
  BY <1>1, <1>3, <1>5, <1>6, <1>8, <1>11, UsersTyped
     DEF References, PacketOrder, Pulled, SameContent
<1> QED BY <1>1, <1>3, <1>9, <1>10, <1>12 DEF SlotsKept

(* The slot of the picture gets a buffer, and the hardware the picture.    *)
LEMMA ParserSubmitsUse ==
    ASSUME IInv, ~aborted, SlotsKept, ReferenceKept, ParserSubmits
    PROVE  ~aborted' /\ SlotsKept'
<1>1. /\ SlotsFlagged /\ WritersApart /\ References /\ PacketOrder
      /\ slot \in [Slots -> SlotEntries] /\ IsInjective(display)
      /\ Lists /\ TasksInHand /\ StatusBits /\ PictureInHand /\ OneInFlight /\ ThreadTypes
  BY UseFacts, TypeParts DEF SlotsKept, IInv
<1>2. /\ parserAt = "submit" /\ parserAt' = "top" /\ aborted' = aborted
      /\ display' = display /\ ref0' = ref0 /\ put' = put /\ packets' = packets
      /\ scenario' = scenario
  BY DEF ParserSubmits, userVars
<1>3. CASE FreeBuffers = {}
  <2>1. UNCHANGED <<cur, ready, slot, halVars, groupVars>>
    BY <1>3 DEF ParserSubmits
  <2>2. SameUse
    BY <1>2, <2>1, GroupSame DEF SameUse, Parsed, halVars
  <2> QED BY <1>1, <1>2, <2>1, <2>2, SameUseKeeps, OrderKept DEF SlotsKept
<1>4. CASE FreeBuffers # {}
  <2>1. PICK h \in HalTasks : h = hnd /\ taskStatus[h] = "IDLE"
    BY <1>1, <1>2 DEF TasksInHand, HndSteps, ThreadTypes
  <2>2. PICK i \in Infos, out, ref \in Slots \union {NoSlot} :
           /\ i = cur /\ out = cur.output /\ ref = cur.refer
           /\ i.valid /\ ~i.infoChange /\ out \in Slots
           /\ i.output = out /\ i.refer = ref
    BY <1>1, <1>2 DEF ThreadTypes, Infos, StatusBits, PictureInHand
  <2>3. PICK b : b # NoBuffer /\ slot' = [slot EXCEPT ![out].buffer = b]
    <3>1. PICK b \in FreeBuffers : slot' = [slot EXCEPT ![out].buffer = b]
      BY <1>4, <2>2 DEF ParserSubmits
    <3>2. FreeBuffers \subseteq Nat \X Nat
      BY TypeParts, StreamTypes DEF FreeBuffers, Committed, IInv, Commits, UserTypes
    <3> QED BY <3>1, <3>2, NamesAssumption
  <2>4. Send(i) /\ ready' = ready \ {"copied", "curr", "parsed", "prev"}
    BY <1>4, <2>2 DEF ParserSubmits
  <2>5. /\ InHardware(h)' /\ ~InHardware(h) /\ taskInfo'[h] = i
        /\ \A t \in HalTasks \ {h} : ~InHardware(t) /\ ~InHardware(t)'
        /\ halInfo' = halInfo /\ (halAt' = "slots" <=> halAt = "slots")
    <3>1. taskInfo \in [HalTasks -> Infos] /\ Infos' = Infos
      BY <1>2, TypeParts, SameScenario DEF IInv
    <3>2. /\ taskInfo'[h] = i
          /\ \A t \in HalTasks \ {h} :
                /\ taskStatus'[t] = taskStatus[t] /\ taskInfo'[t] = taskInfo[t]
                /\ InHardware(t)' <=> InHardware(t)
                /\ InFlight(t)' <=> InFlight(t)
          /\ ~InFlight(h) /\ ~InHardware(h)
          /\ InHardware(h)' <=> i.valid /\ ~i.infoChange
          /\ halInfo' = halInfo
          /\ halAt' = IF halAt = "asleep" THEN "get" ELSE halAt
      BY <1>1, <2>1, <2>4, <3>1, TaskSent, ZenonT(60)
    <3>3. \A t \in HalTasks : ~InHardware(t)
      BY <1>1, <1>2 DEF StatusBits, AloneSteps, OneInFlight, InFlight
    <3> QED BY <2>2, <3>2, <3>3
  <2>6. Parsed /\ ~Parsed'
    BY <1>1, <1>2, <2>2, <2>4 DEF Parsed, StatusBits, PictureInHand
  <2>7. \A j : /\ NewWriter(j) <=> j = out
               /\ NewWriter(j)' <=> j = out
               /\ LateWriter(j)' <=> LateWriter(j)
               /\ NewReader(j) <=> j = ref
               /\ NewReader(j)' <=> j = ref
               /\ LateReader(j)' <=> LateReader(j)
               /\ Shown(j)' <=> Shown(j)
    BY <1>2, <2>2, <2>5, <2>6 DEF NewWriter, LateWriter, NewReader, LateReader, Shown
  <2>8. \A j : /\ Writer(j)' <=> Writer(j)
               /\ Readers(j)' = Readers(j)
    BY <2>7 DEF Writer, Readers
  <2>9. /\ \A j \in Slots \ {out} : slot'[j] = slot[j]
        /\ slot'[out] = [slot[out] EXCEPT !.buffer = b]
        /\ slot'[out].buffer = b /\ slot'[out].frame = slot[out].frame
    <3>1. \A j \in Slots \ {out} : slot'[j] = slot[j]
      BY <1>1, <2>2, <2>3
    <3>2. slot'[out] = [slot[out] EXCEPT !.buffer = b] /\ slot[out] \in SlotEntries
      BY <1>1, <2>2, <2>3
    <3> QED BY <3>1, <3>2 DEF SlotEntries
  <2>10. SlotsFlagged'
    <3>1. Flagged(slot[out], Writer(out), out = ref0, Shown(out), Readers(out)) /\ Writer(out)
      BY <1>1, <2>2, <2>7 DEF SlotsFlagged, Writer
    <3>2. slot[out] \in SlotEntries
      BY <1>1, <2>2
    <3>3. Flagged(slot'[out], Writer(out), out = ref0, Shown(out), Readers(out))
      BY <2>9, <3>1, <3>2 DEF Flagged, SlotEntries
    <3>4. \A j \in Slots : Flagged(slot'[j], Writer(j), j = ref0, Shown(j), Readers(j))
      BY <1>1, <2>9, <3>3 DEF SlotsFlagged
    <3> QED BY <1>2, <2>7, <2>8, <3>4 DEF SlotsFlagged, Flagged
  <2>11. out = ref0 /\ out # ref /\ ~LateWriter(out)
    BY <1>1, <2>2, <2>6 DEF WritersApart
  <2>12. WritersApart'
    <3>1. out # NoSlot
      BY <2>2, SlotsAssumption DEF Slots
    <3> QED BY <1>1, <2>2, <2>5, <2>6, <2>7, <2>11, <3>1 DEF WritersApart, LateWriter
  <2>13. References'
    <3>1. ref # NoSlot => /\ ref \in Slots /\ slot'[ref] = slot[ref] /\ slot[ref].frame < i.id
      BY <1>1, <2>2, <2>6, <2>9, <2>11 DEF References
    <3>2. \A j \in Slots : NewReader(j)' => slot'[j].buffer # NoBuffer
      BY <1>1, <2>7, <2>9, <2>11 DEF References
    <3>3. \A t \in HalTasks :
             InHardware(t)' /\ taskInfo'[t].refer # NoSlot =>
                 slot'[taskInfo'[t].refer].frame < taskInfo'[t].id
      BY <2>2, <2>5, <3>1
    <3>4. ref0' # NoSlot => slot'[ref0'].buffer # NoBuffer
      BY <1>2, <2>3, <2>9, <2>11
    <3> QED BY <2>6, <3>2, <3>3, <3>4 DEF References
  <2>14. PacketOrder'
    <3>1. slot'[ref0'].frame = slot[ref0].frame
      BY <1>2, <2>9, <2>11
    <3> QED BY <1>1, <1>2, <2>4, <3>1 DEF PacketOrder, Pulled
  <2> QED BY <1>1, <1>2, <2>10, <2>12, <2>13, <2>14 DEF SlotsKept
<1> QED BY <1>2, <1>3, <1>4


(* A picture is parsed: a free slot is taken for it, and it is the next    *)
(* reference; the old one is read by it, or let go.                        *)
LEMMA ParserParsesUse ==
    ASSUME IInv, ~aborted, SlotsKept, ReferenceKept, ParserParses
    PROVE  ReferenceKept' /\ (~aborted' => SlotsKept')
<1>1. /\ SlotsFlagged /\ WritersApart /\ References /\ PacketOrder
      /\ slot \in [Slots -> SlotEntries] /\ display \in Seq(Slots) /\ IsInjective(display)
      /\ Lists /\ StatusBits /\ PictureInHand /\ OneInFlight /\ ThreadTypes
  BY UseFacts, TypeParts DEF SlotsKept, IInv
<1>2. /\ "curr" \in ready /\ "parsed" \notin ready /\ "prev" \in ready
      /\ cur \in Infos /\ cur.id \in Packets
      /\ ready' = ready \union {"parsed"} /\ parserAt' = "change"
      /\ put' = put /\ packets' = packets /\ halAt' = halAt /\ halInfo' = halInfo
      /\ UNCHANGED groupVars
  BY <1>1 DEF ParserParses, StatusBits, PictureSteps, AloneSteps, PictureInHand, ThreadTypes,
              userVars, halVars
<1>3. /\ \A t \in HalTasks : ~InHardware(t) /\ ~InHardware(t)'
      /\ ~Parsed
  <2>1. \A t \in HalTasks : ~InHardware(t)
    BY <1>1, <1>2 DEF OneInFlight, InFlight
  <2>2. \A t : InHardware(t)' <=> InHardware(t)
    BY <1>2, GroupSame
  <2> QED BY <1>2, <2>1, <2>2 DEF Parsed
<1>4. ReferenceKept'
  BY <1>3 DEF ReferenceKept
<1>5. CASE ~Usable
  <2>1. /\ cur' = [cur EXCEPT !.valid = FALSE, !.output = NoSlot]
        /\ slot' = slot /\ display' = display /\ ref0' = ref0
    BY <1>5 DEF ParserParses, slotVars
  <2>2. cur'.output = NoSlot /\ cur'.id = cur.id
    BY <1>2, <2>1 DEF Infos
  <2>3. SameUse
    BY <1>2, <1>3, <2>1, <2>2 DEF SameUse, Parsed
  <2>4. PacketOrder'
    BY <1>1, <1>2, <2>1, <2>2, OrderKept
  <2> QED BY <1>1, <1>4, <2>1, <2>3, <2>4, SameUseKeeps DEF SlotsKept
<1>6. CASE Usable /\ FreeSlots = {}
  BY <1>4, <1>6 DEF ParserParses, Abort
<1>7. CASE Usable /\ FreeSlots # {}
  <2>1. PICK out \in Slots : out = FirstFree /\ ~slot[out].onUsed
    BY <1>7, FirstFreeFound DEF FreeSlots
  <2>2. PICK ref \in Slots \union {NoSlot} : ref = Refer /\ (ref = ref0 \/ ref = NoSlot)
    BY <1>1 DEF Refer, ThreadTypes
  <2>3. /\ slot' = ParsedSlots(out) /\ display' = Enqueued(display, out)
        /\ cur' = [cur EXCEPT !.output = out, !.refer = ref] /\ ref0' = out
    BY <1>7, <2>1, <2>2 DEF ParserParses
  <2>4. cur'.output = out /\ cur'.refer = ref /\ cur'.id = cur.id
    BY <1>2, <2>1, <2>2, <2>3 DEF Infos
  <2>5. NoSlot \notin Slots
    BY SlotsAssumption DEF Slots
  <2>6. Parsed'
    BY <1>2, <2>4, <2>5 DEF Parsed
  <2>7. /\ ~Writer(out) /\ out # ref0 /\ ~Shown(out) /\ Readers(out) = 0
        /\ Flagged(slot[out], FALSE, FALSE, FALSE, 0)
    <3>1. Flagged(slot[out], Writer(out), out = ref0, Shown(out), Readers(out))
      BY <1>1 DEF SlotsFlagged
    <3>2. Readers(out) \in 0 .. 2
      BY UseFacts
    <3>3. /\ Readers(out) = 0
          /\ ~Writer(out) /\ out # ref0 /\ ~Shown(out)
      BY <2>1, <3>1, <3>2 DEF Flagged
    <3> QED BY <3>1, <3>3 DEF Flagged
  <2>8. IsInjective(display') /\ ToSet(display') = ToSet(display) \union {out}
    BY <1>1, <2>3, EnqueuedSlot
  <2>9. \A i : /\ ~NewWriter(i) /\ ~NewReader(i)
               /\ NewWriter(i)' <=> i = out
               /\ LateWriter(i)' <=> LateWriter(i)
               /\ NewReader(i)' <=> i = ref
               /\ LateReader(i)' <=> LateReader(i)
               /\ Shown(i)' <=> Shown(i) \/ i = out
    BY <1>2, <1>3, <2>4, <2>6, <2>8
       DEF NewWriter, LateWriter, NewReader, LateReader, Shown
  <2>10. \A i : /\ Writer(i) <=> LateWriter(i)
                /\ Writer(i)' <=> i = out \/ LateWriter(i)
                /\ Readers(i) = IF LateReader(i) THEN 1 ELSE 0
                /\ Readers(i)' = IF i = ref THEN Readers(i) + 1 ELSE Readers(i)
    BY <2>9 DEF Writer, Readers
  <2>11. out # ref /\ ~LateWriter(out) /\ ~LateReader(out)
    BY <2>2, <2>5, <2>7, <2>10
  <2>12. /\ Flagged(slot'[out], TRUE, TRUE, TRUE, 0)
         /\ slot'[out].frame = cur.id /\ slot'[out].buffer = NoBuffer
    <3>1. PICK e \in SlotEntries, id \in Packets : e = slot[out] /\ id = cur.id
      BY <1>1, <1>2
    <3>2. NoFrame \notin Packets
      BY PacketNumbers
    <3>3. LET d == SetFlag(SetFlag(SetFlag(SetFlag([Taken(e) EXCEPT !.frame = id],
                    "HAL_OUTPUT"), "CODEC_USE"), "QUEUE_USE"), "QUEUE_USE")
           IN  /\ Flagged(d, TRUE, TRUE, TRUE, 0)
               /\ d.frame = id /\ d.buffer = NoBuffer
      BY <2>7, <3>1, <3>2, PictureTakes, ZenonT(60)
    <3>4. slot'[out] = SetFlag(SetFlag(SetFlag(SetFlag([Taken(e) EXCEPT !.frame = id],
                        "HAL_OUTPUT"), "CODEC_USE"), "QUEUE_USE"), "QUEUE_USE")
      BY <2>3, <2>7, <3>1 DEF ParsedSlots
    <3> QED BY <3>1, <3>3, <3>4
  <2>13. ASSUME NEW i \in Slots, i # out
         PROVE  /\ Flagged(slot'[i], LateWriter(i), FALSE, Shown(i), Readers(i)')
                /\ i = ref => SameContent(slot'[i], slot[i])
    <3>1. PICK e \in SlotEntries : e = slot[i]
      BY <1>1
    <3>2. PICK n \in 0 .. 1 : n = Readers(i)
      BY <2>10
    <3>3. PICK writer \in BOOLEAN : writer <=> LateWriter(i)
      OBVIOUS
    <3>4. PICK shown \in BOOLEAN : shown <=> Shown(i)
      OBVIOUS
    <3>5. Flagged(e, writer, i = ref0, shown, n)
      <4>1. Flagged(slot[i], Writer(i), i = ref0, Shown(i), Readers(i))
        BY <1>1 DEF SlotsFlagged
      <4> QED BY <2>10, <3>1, <3>2, <3>3, <3>4, <4>1 DEF Flagged
    <3>6. CASE i = ref0 /\ i = ref
      <4>1. Flagged(e, writer, TRUE, shown, n) /\ e.onUsed
        BY <3>5, <3>6 DEF Flagged
      <4>2. PICK d \in SlotEntries :
               /\ d = SetFlag(e, "HAL_INPUT") /\ SameContent(d, e)
               /\ Flagged(d, writer, TRUE, shown, n + 1)
        <5>1. LET d == SetFlag(e, "HAL_INPUT")
              IN  /\ d \in SlotEntries /\ SameContent(d, e) /\ d.onUsed
                  /\ Flagged(d, writer, TRUE, shown, n + 1)
          BY <4>1, ReadBegins, ZenonT(60)
        <5> QED BY <5>1, Zenon
      <4>3. n + 1 \in 0 .. 2 /\ n + 1 > 0
        OBVIOUS
      <4>4. /\ Flagged(ClrFlag(d, "CODEC_USE"), writer, FALSE, shown, n + 1)
            /\ writer \/ shown \/ n + 1 > 0 => SameContent(ClrFlag(d, "CODEC_USE"), d)
        BY <4>2, <4>3, ReferenceEnds
      <4>5. slot'[i] = ClrFlag(d, "CODEC_USE")
        BY <2>2, <2>3, <2>13, <3>1, <3>6, <4>2 DEF ParsedSlots
      <4>6. Readers(i)' = n + 1
        BY <2>10, <3>2, <3>6
      <4> QED BY <3>1, <3>3, <3>4, <4>2, <4>3, <4>4, <4>5, <4>6 DEF Flagged, SameContent
    <3>7. CASE i = ref0 /\ i # ref
      <4>1. Flagged(e, writer, TRUE, shown, n) /\ n \in 0 .. 2
        BY <3>5, <3>7 DEF Flagged
      <4>2. Flagged(ClrFlag(e, "CODEC_USE"), writer, FALSE, shown, n)
        BY <4>1, ReferenceEnds
      <4>3. slot'[i] = ClrFlag(e, "CODEC_USE")
        BY <2>2, <2>3, <2>13, <3>1, <3>7 DEF ParsedSlots
      <4>4. Readers(i)' = n
        BY <2>10, <3>2, <3>7
      <4> QED BY <3>3, <3>4, <3>7, <4>2, <4>3, <4>4 DEF Flagged
    <3>8. CASE i # ref0
      <4>1. i # ref
        BY <2>2, <2>5, <3>8
      <4>2. slot'[i] = e
        BY <2>2, <2>3, <2>13, <3>1, <3>8, <4>1 DEF ParsedSlots
      <4>3. Readers(i)' = n
        BY <2>10, <3>2, <4>1
      <4> QED BY <3>3, <3>4, <3>5, <3>8, <4>1, <4>2, <4>3 DEF Flagged
    <3> QED BY <3>6, <3>7, <3>8
  <2>14. SlotsFlagged'
    <3>1. ASSUME NEW i \in Slots
          PROVE  Flagged(slot'[i], Writer(i)', i = out, Shown(i)', Readers(i)')
      <4>1. CASE i = out
        <5>1. Readers(i)' = 0
          BY <2>7, <2>10, <2>11, <4>1
        <5> QED BY <2>9, <2>10, <2>12, <4>1, <5>1 DEF Flagged
      <4>2. CASE i # out
        BY <2>9, <2>10, <2>13, <4>2 DEF Flagged
      <4> QED BY <4>1, <4>2
    <3> QED BY <2>3, <3>1 DEF SlotsFlagged, Flagged
  <2>15. WritersApart'
    <3>1. halAt = "slots" =>
             /\ halInfo.output # NoSlot /\ halInfo.output # halInfo.refer
             /\ halInfo.output # out /\ halInfo.refer # out
      BY <1>1, <2>11 DEF WritersApart, LateWriter, LateReader
    <3> QED BY <1>2, <1>3, <2>3, <2>4, <2>6, <2>11, <3>1
            DEF WritersApart, LateWriter, LateReader, NewWriter
  <2>16. ref # NoSlot => /\ ref \in Slots /\ ref = ref0 /\ ref # out
                         /\ slot'[ref].buffer # NoBuffer /\ slot'[ref].frame < cur.id
    BY <1>1, <1>2, <1>3, <2>2, <2>11, <2>13 DEF References, PacketOrder, SameContent
  <2>17. References'
    <3>1. \A i \in Slots : NewReader(i)' => slot'[i].buffer # NoBuffer
      BY <2>5, <2>9, <2>16
    <3> QED BY <1>3, <2>3, <2>4, <2>6, <2>12, <2>16, <3>1 DEF References
  <2>18. PacketOrder'
    BY <1>1, <1>2, <2>3, <2>4, <2>12 DEF PacketOrder, Pulled
  <2> QED BY <1>4, <2>8, <2>14, <2>15, <2>17, <2>18 DEF SlotsKept
<1> QED BY <1>5, <1>6, <1>7

(* A reset takes back what the picture in hand has, and the reference.     *)
LEMMA ResetClearsUse ==
    ASSUME IInv, ~aborted, SlotsKept, ReferenceKept, ResetClears
    PROVE  ReferenceKept' /\ (~aborted' => SlotsKept')
<1>1. /\ SlotsFlagged /\ WritersApart /\ References /\ PacketOrder
      /\ slot \in [Slots -> SlotEntries] /\ display \in Seq(Slots) /\ IsInjective(display)
      /\ Lists /\ StatusBits /\ PictureInHand /\ OneInFlight /\ ThreadTypes
  BY UseFacts, TypeParts DEF SlotsKept, IInv
<1>2. /\ "prev" \in ready /\ parserAt = "resetClear" /\ parserAt' = "resetDrain"
      /\ ref0' = NoSlot /\ ready' = ready /\ cur' = cur
      /\ put' = put /\ packets' = packets /\ halAt' = halAt /\ halInfo' = halInfo
      /\ UNCHANGED groupVars
  BY <1>1 DEF ResetClears, StatusBits, AloneSteps, userVars, halVars
<1>3. /\ \A t \in HalTasks : ~InHardware(t) /\ ~InHardware(t)'
      /\ ~Parsed'
  <2>1. \A t \in HalTasks : ~InHardware(t)
    BY <1>1, <1>2 DEF OneInFlight, InFlight
  <2>2. \A t : InHardware(t)' <=> InHardware(t)
    BY <1>2, GroupSame
  <2> QED BY <1>2, <2>1, <2>2 DEF Parsed
<1>4. ReferenceKept'
  BY <1>3 DEF ReferenceKept
<1>5. CASE cur.output = NoSlot /\ ("parsed" \in ready \/ "info_change" \in waits)
  BY <1>4, <1>5 DEF ResetClears, Abort
<1>6. CASE ~(cur.output = NoSlot /\ ("parsed" \in ready \/ "info_change" \in waits))
  <2> DEFINE change == "info_change" \in waits
             end(i) == LET noRef == IF i = ref0 THEN ClrFlag(slot[i], "CODEC_USE") ELSE slot[i]
                           noInfo == IF change /\ i = cur.output THEN ResetEntry(noRef) ELSE noRef
                           noOut == IF Parsed /\ i = cur.output THEN ClrFlag(noInfo, "HAL_OUTPUT")
                                    ELSE noInfo
                       IN IF Parsed /\ i = cur.refer THEN ClrFlag(noOut, "HAL_INPUT") ELSE noOut
  <2>1. /\ slot' = ResetSlots
        /\ display' = IF change THEN Unqueued(display, cur.output) ELSE display
    BY <1>6 DEF ResetClears
  <2>2. /\ "parsed" \in ready <=> Parsed
        /\ change => Parsed
    BY <1>1, <1>2, <1>6 DEF Parsed, PictureInHand, IInv
  <2>3. /\ NoSlot \notin Slots
        /\ Parsed => /\ cur.output \in Slots /\ cur.output = ref0 /\ cur.output # cur.refer
                     /\ ~LateWriter(cur.output) /\ ~LateReader(cur.output)
                     /\ slot[cur.output].buffer = NoBuffer
    BY <1>1, UsersTyped, SlotsAssumption DEF WritersApart, References, Slots
  <2>4. \A i \in Slots : slot'[i] = end(i)
    BY <2>1, <2>2 DEF ResetSlots
  <2>5. \A i : /\ NewWriter(i) <=> Parsed /\ i = cur.output
               /\ ~NewWriter(i)' /\ ~NewReader(i)'
               /\ LateWriter(i)' <=> LateWriter(i)
               /\ NewReader(i) <=> Parsed /\ i = cur.refer
               /\ LateReader(i)' <=> LateReader(i)
    BY <1>2, <1>3 DEF NewWriter, LateWriter, NewReader, LateReader
  <2>6. \A i : /\ Writer(i)' <=> LateWriter(i)
               /\ Writer(i) <=> (Parsed /\ i = cur.output) \/ LateWriter(i)
               /\ Readers(i) \in 0 .. 2
               /\ Readers(i)' = IF Parsed /\ i = cur.refer THEN Readers(i) - 1 ELSE Readers(i)
               /\ Parsed /\ i = cur.refer => Readers(i) > 0
    BY <2>5 DEF Writer, Readers
  <2>7. /\ IsInjective(display')
        /\ \A i : Shown(i)' <=> Shown(i) /\ ~(change /\ i = cur.output)
    <3>1. CASE change
      <4>1. /\ IsInjective(display')
            /\ ToSet(display') = ToSet(display) \ {cur.output}
        BY <1>1, <2>1, <3>1, UnqueuedSlot
      <4> QED BY <3>1, <4>1 DEF Shown
    <3>2. CASE ~change
      <4>1. display' = display
        BY <2>1, <3>2
      <4> HIDE DEF change
      <4> QED BY <1>1, <3>2, <4>1 DEF Shown
    <3> QED BY <3>1, <3>2
  <2>8. ASSUME NEW i \in Slots
        PROVE  Flagged(slot'[i], Writer(i)', FALSE, Shown(i)', Readers(i)')
    <3>1. PICK e \in SlotEntries, n \in 0 .. 2 : e = slot[i] /\ n = Readers(i)
      BY <1>1, <2>6
    <3>2. PICK writer \in BOOLEAN : writer <=> Writer(i)
      OBVIOUS
    <3>3. PICK shown \in BOOLEAN : shown <=> Shown(i)
      OBVIOUS
    <3>4. Flagged(e, writer, i = ref0, shown, n)
      BY <1>1, <3>1, <3>2, <3>3 DEF SlotsFlagged, Flagged
    <3>5. CASE Parsed /\ i = cur.output
      <4>1. n = 0 /\ writer /\ ~Writer(i)' /\ Readers(i)' = 0
        BY <2>3, <2>5, <2>6, <3>1, <3>2, <3>5 DEF Readers
      <4>2. Flagged(e, TRUE, TRUE, shown, 0)
        BY <2>3, <3>4, <3>5, <4>1 DEF Flagged
      <4>3. PICK a : a = ClrFlag(e, "CODEC_USE")
        OBVIOUS
      <4>4. a \in SlotEntries /\ Flagged(a, TRUE, FALSE, shown, 0) /\ a.buffer = NoBuffer
        <5>1. a \in SlotEntries
          BY <4>3, EntryTypes
        <5>2. /\ Flagged(ClrFlag(e, "CODEC_USE"), TRUE, FALSE, shown, 0)
              /\ TRUE \/ shown \/ 0 > 0 => SameContent(ClrFlag(e, "CODEC_USE"), e)
          <6>1. TRUE \in BOOLEAN /\ 0 \in 0 .. 2
            OBVIOUS
          <6> QED BY <4>2, <6>1, ReferenceEnds
        <5> QED BY <2>3, <3>1, <3>5, <4>3, <5>1, <5>2 DEF SameContent
      <4>5. slot'[i] = ClrFlag(IF change THEN ResetEntry(a) ELSE a, "HAL_OUTPUT")
        BY <2>3, <2>4, <3>1, <3>5, <4>3
      <4>6. CASE change
        <5>1. Flagged(ClrFlag(ResetEntry(a), "HAL_OUTPUT"), FALSE, FALSE, FALSE, 0)
          BY <4>4, EntryReset
        <5>2. ~Shown(i)' /\ slot'[i] = ClrFlag(ResetEntry(a), "HAL_OUTPUT")
          BY <2>7, <3>5, <4>5, <4>6
        <5> QED BY <4>1, <5>1, <5>2 DEF Flagged
      <4>7. CASE ~change
        <5>1. Flagged(ClrFlag(a, "HAL_OUTPUT"), FALSE, FALSE, shown, 0)
          <6>1. FALSE \in BOOLEAN /\ TRUE \in BOOLEAN /\ 0 \in 0 .. 2
            OBVIOUS
          <6> QED BY <4>4, <6>1, OutputEnds
        <5>2. (Shown(i)' <=> shown) /\ slot'[i] = ClrFlag(a, "HAL_OUTPUT")
          BY <2>7, <3>3, <4>5, <4>7
        <5> QED BY <4>1, <5>1, <5>2 DEF Flagged
      <4> QED BY <4>6, <4>7
    <3>6. CASE ~(Parsed /\ i = cur.output)
      <4>1. /\ Writer(i)' <=> writer
            /\ Shown(i)' <=> shown
        BY <2>2, <2>6, <2>7, <3>2, <3>3, <3>6
      <4>2. CASE i = ref0
        <5>1. ~(Parsed /\ i = cur.refer)
          BY <2>3, <3>6, <4>2
        <5>2. Flagged(e, writer, TRUE, shown, n)
          BY <3>4, <4>2 DEF Flagged
        <5>3. Flagged(ClrFlag(e, "CODEC_USE"), writer, FALSE, shown, n)
          BY <5>2, ReferenceEnds
        <5>4. slot'[i] = ClrFlag(e, "CODEC_USE") /\ Readers(i)' = n
          BY <2>2, <2>4, <2>6, <3>1, <3>6, <4>2, <5>1
        <5> QED BY <4>1, <5>3, <5>4 DEF Flagged
      <4>3. CASE i # ref0 /\ Parsed /\ i = cur.refer
        <5>1. Flagged(e, writer, FALSE, shown, n) /\ n > 0
          BY <2>6, <3>1, <3>4, <4>3 DEF Flagged
        <5>2. Flagged(ClrFlag(e, "HAL_INPUT"), writer, FALSE, shown, n - 1)
          <6>1. FALSE \in BOOLEAN
            OBVIOUS
          <6> QED BY <5>1, <6>1, ReadEnds
        <5>3. slot'[i] = ClrFlag(e, "HAL_INPUT") /\ Readers(i)' = n - 1
          BY <2>2, <2>4, <2>6, <3>1, <3>6, <4>3
        <5> QED BY <4>1, <5>2, <5>3 DEF Flagged
      <4>4. CASE i # ref0 /\ ~(Parsed /\ i = cur.refer)
        <5>1. slot'[i] = e /\ Readers(i)' = n
          BY <2>2, <2>4, <2>6, <3>1, <3>6, <4>4
        <5> QED BY <3>4, <4>1, <4>4, <5>1 DEF Flagged
      <4> QED BY <4>2, <4>3, <4>4
    <3> QED BY <3>5, <3>6
  <2>9. SlotsFlagged'
    <3>1. \A i \in Slots : i # ref0'
      BY <1>2, <2>3
    <3>2. \A i \in Slots : Flagged(slot'[i], Writer(i)', i = ref0', Shown(i)', Readers(i)')
      BY <2>8, <3>1 DEF Flagged
    <3> QED BY <3>2 DEF SlotsFlagged
  <2>10. WritersApart' /\ References'
    <3>1. \A i : ~NewWriter(i)' /\ ~NewReader(i)'
      BY <2>5
    <3>2. halAt = "slots" => halInfo.output # NoSlot /\ halInfo.output # halInfo.refer
      BY <1>1 DEF WritersApart
    <3> QED BY <1>2, <1>3, <3>1, <3>2 DEF WritersApart, References, NewWriter
  <2>11. PacketOrder'
    BY <1>1, <1>2 DEF PacketOrder, Pulled
  <2> QED BY <1>4, <2>7, <2>9, <2>10, <2>11 DEF SlotsKept
<1> QED BY <1>5, <1>6

-----------------------------------------------------------------------------
(***************************************************************************)
(* The invariant holds at first and is kept.                               *)
(***************************************************************************)
(* A reference that is read is a picture in a slot that is not written.    *)
LEMMA ReferenceFollows ==
    ASSUME IInv, SlotsKept
    PROVE  ReferenceKept
<1>1. SlotsFlagged /\ WritersApart /\ References /\ OneInFlight
  BY DEF IInv, SlotsKept
<1> SUFFICES ASSUME NEW t \in HalTasks, InHardware(t), taskInfo[t].refer # NoSlot
             PROVE  LET r == slot[taskInfo[t].refer]
                    IN /\ r.onUsed /\ r.halUse > 0
                       /\ r.buffer # NoBuffer
                       /\ r.frame < taskInfo[t].id
                       /\ \A u \in HalTasks :
                             InHardware(u) => taskInfo[u].output # taskInfo[t].refer
  BY DEF ReferenceKept
<1>2. PICK i \in Slots : i = taskInfo[t].refer /\ NewReader(i)
  BY UsersTyped
<1>3. Readers(i) > 0
  BY <1>2 DEF Readers
<1>4. slot[i].onUsed /\ slot[i].halUse > 0
  BY <1>1, <1>3 DEF SlotsFlagged, Flagged
<1>5. slot[i].buffer # NoBuffer /\ slot[i].frame < taskInfo[t].id
  BY <1>1, <1>2 DEF References
<1>6. \A u \in HalTasks : InHardware(u) => u = t
  BY <1>1 DEF OneInFlight, InFlight
<1>7. taskInfo[t].output # taskInfo[t].refer
  BY <1>1 DEF WritersApart
<1> QED BY <1>2, <1>4, <1>5, <1>6, <1>7

LEMMA SlotsReference == IInv /\ SlotInv => ReferenceKept
BY ReferenceFollows DEF SlotInv

(* Every slot is free, and nobody uses one.                                *)
LEMMA InitSlots == Init => SlotInv
<1> SUFFICES ASSUME Init PROVE SlotInv
  OBVIOUS
<1>1. /\ slot = [i \in Slots |-> Unused] /\ display = <<>>
      /\ put = 0 /\ packets = <<>> /\ aborted = FALSE
      /\ ready = {"prev"} /\ ref0 = NoSlot /\ halAt = "get" /\ NoSlot \notin Slots
  BY SlotsAssumption DEF Init, SlotsInit, Slots
<1>2. \A t \in HalTasks : ~InHardware(t)
  BY DEF Init, GroupInit, InHardware
<1>3. \A i : ~NewWriter(i) /\ ~LateWriter(i) /\ ~NewReader(i) /\ ~LateReader(i) /\ ~Shown(i)
  BY <1>1, <1>2, EmptyList DEF NewWriter, LateWriter, NewReader, LateReader, Parsed, Shown
<1>4. \A i : ~Writer(i) /\ Readers(i) = 0
  BY <1>3 DEF Writer, Readers
<1>5. SlotsFlagged
  <2>1. ASSUME NEW i \in Slots
        PROVE  Flagged(slot[i], Writer(i), i = ref0, Shown(i), Readers(i))
    <3>1. slot[i] = Unused /\ i # ref0
      BY <1>1
    <3> QED BY <1>3, <1>4, <3>1 DEF Flagged, Unused
  <2> QED BY <2>1 DEF SlotsFlagged
<1>6. WritersApart /\ References
  BY <1>1, <1>2, <1>3 DEF WritersApart, References, Parsed
<1>7. PacketOrder
  <2>1. Len(packets) = 0
    BY <1>1
  <2> QED BY <1>1, <2>1 DEF PacketOrder
<1> QED BY <1>1, <1>5, <1>6, <1>7, EmptyList DEF SlotInv, SlotsKept

(* A step of none of the threads.                                          *)
LEMMA StutterSlots == IInv /\ SlotInv /\ UNCHANGED vars => SlotInv'
<1> SUFFICES ASSUME IInv, SlotInv, UNCHANGED vars PROVE SlotInv'
  OBVIOUS
<1>1. /\ UNCHANGED groupVars /\ UNCHANGED <<slot, display, aborted, parserAt, put, packets>>
      /\ UNCHANGED <<cur, ready, ref0, halAt, halInfo>>
  BY DEF vars, userVars, parserVars, halVars, slotVars
<1>2. SameUse
  BY <1>1, GroupSame DEF SameUse, Parsed
<1>3. ReferenceKept'
  BY <1>2, SlotsReference DEF ReferenceKept, SameUse
<1>4. ~aborted => SlotsKept'
  <2> SUFFICES ASSUME SlotsKept PROVE SlotsKept'
    BY DEF SlotInv
  <2>1. PacketOrder'
    BY <1>1, OrderKept DEF SlotsKept
  <2> QED BY <1>2, <2>1, SlotsReference, SameUseKeeps DEF SlotsKept, SameUse
<1> QED BY <1>1, <1>3, <1>4 DEF SlotInv

(* The user, the parser thread and the HAL thread keep it.                 *)
LEMMA NextSlots == IInv /\ SlotInv /\ [Next]_vars => SlotInv'
<1> SUFFICES ASSUME IInv, SlotInv, Next PROVE SlotInv'
  BY StutterSlots
<1>1. ~aborted /\ SlotsKept /\ ReferenceKept
  BY SlotsReference DEF SlotInv, Next
<1>2. ReferenceKept' /\ (~aborted' => SlotsKept') => SlotInv'
  BY DEF SlotInv
<1>3. ~aborted' /\ SlotsKept' => SlotInv'
  BY DEF SlotInv
<1>4. CASE User
  BY <1>1, <1>2, <1>4, UserPutsUse, UserGetsUse, UserReleasesUse, UserCommitsUse,
     UserReadiesUse, UserFlushesPacketsUse, UserFlushesFramesUse, UserRaisesFlagUse DEF User
<1>5. CASE Parser
  <2>1. CASE \/ ParserTop \/ ParserChecks \/ ParserTries \/ PullNothing \/ PullEos
             \/ PullPicture \/ ParserWaitsPrevious \/ ParserChecksGroup \/ ParserParses
    BY <1>1, <1>2, <2>1, ParserTopUse, ParserChecksUse, ParserTriesUse, PullNothingUse,
       PullEosUse, PullPictureUse, ParserWaitsPreviousUse, ParserChecksGroupUse,
       ParserParsesUse
  <2>2. CASE \/ ParserAnnouncesChange \/ ParserWaitsChange \/ ParserNeedsNoChange
             \/ ParserDrops \/ ResetTakesPrevious \/ ResetClears \/ ResetEnds
    BY <1>1, <1>2, <2>2, ParserAnnouncesChangeUse, ParserWaitsChangeUse,
       ParserNeedsNoChangeUse, ParserDropsUse, ResetTakesPreviousUse, ResetClearsUse,
       ResetEndsUse
  <2>3. CASE ParserSubmits \/ ResetDrains
    BY <1>1, <1>3, <2>3, ParserSubmitsUse, ResetDrainsUse
  <2> QED BY <1>5, <2>1, <2>2, <2>3 DEF Parser
<1>6. CASE Hal
  <2>1. CASE HalGets \/ HalDisplayEnds \/ HalPuts \/ HalIdles \/ HalHardwareEnds
    BY <1>1, <1>2, <2>1, HalGetsUse, HalDisplayEndsUse, HalPutsUse, HalIdlesUse,
       HalHardwareEndsUse
  <2>2. CASE HalDisplays \/ HalMarksDone \/ HalClearsSlots
    BY <1>1, <1>3, <2>2, HalDisplaysUse, HalMarksDoneUse, HalClearsSlotsUse
  <2> QED BY <1>6, <2>1, <2>2 DEF Hal
<1> QED BY <1>4, <1>5, <1>6 DEF Next

(* The flags and counters of every slot say who uses it, whichever thread  *)
(* changes them, in whatever order and through resets (mpp_buf_slot.cpp).  *)
THEOREM DecSlotsInvariant == Spec => []SlotInv
BY DecInvariant, InitSlots, NextSlots, PTL DEF Spec

(* The reference of a picture in the hardware is kept for it: an earlier   *)
(* picture, with its buffer, that is not being written                     *)
(* (SLOT_HAL_INPUT of h263d_parser.c, step 7.1 of try_proc_dec_task).      *)
THEOREM DecReferenceKept == Spec => []ReferenceKept
BY DecInvariant, DecSlotsInvariant, SlotsReference, PTL
=============================================================================
