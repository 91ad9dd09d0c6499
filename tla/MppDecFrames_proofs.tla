------------------------ MODULE MppDecFrames_proofs ------------------------
(***************************************************************************)
(* Proofs about what a decoder context gives to the user who has not reset *)
(* it: the hardware writes to no buffer he holds or will get, and he gets  *)
(* pictures, info changes and ends of stream in the order of the stream.   *)
(* And about the slots of one that is reset: what a reset leaves behind    *)
(* may keep slots in the display queue, one for each task that announces   *)
(* a change of format and outlives it.  With two more slots than tasks the *)
(* parser always finds one, and until a reset with three.                  *)
(***************************************************************************)
EXTENDS MppDecSlots_proofs, FiniteSetTheorems

-----------------------------------------------------------------------------
(***************************************************************************)
(* The invariant.                                                          *)
(***************************************************************************)
Sent(t)  == taskStatus[t] = "PROCESSING"
Working  == halAt \notin {"get", "asleep"}
PutSteps == {"infoPut", "eosPut", "lastPut"}

(* A task that says that the format changes, until its frame is queued.    *)
Announced(t) ==
    /\ Sent(t) /\ taskInfo[t].infoChange
    /\ ~(halTask = t /\ halAt = "infoIdle")

(* A change of format is pending only while the picture that brought it is *)
(* in hand; it is announced once, by a task, then a frame, then the user   *)
(* who commits buffers.                                                    *)
ChangeAnnounced ==
    /\ infoChanged => Parsed
    /\ \A t \in HalTasks :
          Announced(t) =>
              /\ "infoGen" \in ready /\ infoChanged /\ userAt = "app"
              /\ taskInfo[t].output = cur.output /\ taskInfo[t].id = cur.id
              /\ \A u \in HalTasks : Announced(u) => u = t
              /\ \A i \in 1 .. Len(frames) : frames[i].kind # "info"
    /\ \A i \in 1 .. Len(frames) :
          frames[i].kind = "info" =>
              /\ "infoGen" \in ready /\ infoChanged /\ userAt = "app"
              /\ \A j \in 1 .. Len(frames) : frames[j].kind = "info" => j = i
    /\ userAt # "app" => "infoGen" \in ready /\ infoChanged

(* A buffer is in one place: a slot, a queued frame, or the user's hands.  *)
(* Only a picture that is finished may be in a slot and with the user.     *)
BuffersApart ==
    /\ OutBuffers \subseteq extraRef
    /\ \A i, j \in Slots :
          slot[i].buffer # NoBuffer /\ i # j => slot[j].buffer # slot[i].buffer
    /\ \A i \in Slots :
          Shown(i) /\ slot[i].buffer # NoBuffer =>
              slot[i].buffer \in extraRef /\ slot[i].buffer \notin OutBuffers
    /\ \A i \in 1 .. Len(frames) :
          frames[i].buffer # NoBuffer =>
              /\ frames[i].buffer \notin held
              /\ \A j \in 1 .. Len(frames) : frames[j].buffer = frames[i].buffer => j = i

(* A slot that is written has the picture of the task that writes it.      *)
PicturesNamed ==
    /\ Parsed => slot[cur.output].frame = cur.id
    /\ \A t \in HalTasks : InHardware(t) => slot[taskInfo[t].output].frame = taskInfo[t].id
    /\ halAt = "slots" => slot[halInfo.output].frame = halInfo.id

(* What comes from packet n is done, and no earlier one is under way.      *)
Past(n) ==
    /\ n <= Pulled
    /\ \A t \in HalTasks : Sent(t) => n <= taskInfo[t].id
    /\ Working => n <= halInfo.id

(* Tasks are sent, and worked on, in the order of their packets.           *)
Ordered(q) == \A i, j \in 1 .. Len(q) : i < j => taskInfo[q[i]].id <= taskInfo[q[j]].id

TasksInOrder ==
    /\ Ordered(taskList["PROCESSING"])
    /\ \A t \in HalTasks : Sent(t) => taskInfo[t].id <= Pulled
    /\ Working => /\ halInfo.id <= Pulled
                  /\ \A t \in HalTasks : Sent(t) => halInfo.id <= taskInfo[t].id
    /\ "curr" \in ready => cur.id = Pulled

(* So are frames queued ...                                               *)
FramesInOrder ==
    /\ \A i \in 1 .. Len(frames) : frames[i].id \in Packets /\ Past(frames[i].id)
    /\ \A i, j \in 1 .. Len(frames) : i < j => frames[i].id <= frames[j].id

(* ... pictures, for display ...                                           *)
DisplayInOrder ==
    /\ \A i \in Slots : Shown(i) => slot[i].frame <= Pulled
    /\ \A i \in Slots : Shown(i) /\ ~Writer(i) => Past(slot[i].frame)
    /\ "curr" \in ready /\ "parsed" \notin ready =>
          \A i \in Slots : Shown(i) => slot[i].frame < Pulled
    /\ \A i, j \in 1 .. Len(display) :
          i < j => slot[display[i]].frame < slot[display[j]].frame

(* ... and the frames before the pictures.                                 *)
FramesFirst ==
    /\ \A i \in 1 .. Len(frames) : \A j \in Slots : Shown(j) => frames[i].id <= slot[j].frame
    /\ halAt \in PutSteps => \A j \in Slots : Shown(j) => halInfo.id <= slot[j].frame

(* Every picture is queued for display until it is finished, and leaves    *)
(* the queue before the HAL thread goes on.                                *)
ShownInTime ==
    /\ \A i \in Slots : Writer(i) => Shown(i)
    /\ \A i \in Slots : Shown(i) /\ ~Writer(i) => halAt = "display" /\ i = halInfo.output
    /\ \A t \in HalTasks : InHardware(t) => ref0 = taskInfo[t].output
    /\ halAt \in {"slots", "display"} /\ ~Parsed /\ (\A t \in HalTasks : ~InHardware(t)) =>
          ref0 = halInfo.output

FramesKept ==
    /\ ChangeAnnounced
    /\ BuffersApart
    /\ PicturesNamed
    /\ TasksInOrder
    /\ FramesInOrder
    /\ DisplayInOrder
    /\ FramesFirst
    /\ ShownInTime

(* It holds until a reset, and the slots suffice when there are three.     *)
FrameInv ==
    resets = 0 =>
        /\ IF aborted THEN HardwareTargetPrivate /\ DeliveredInOrder ELSE FramesKept
        /\ SlotCount >= 3 => ~aborted


-----------------------------------------------------------------------------
(***************************************************************************)
(* Lists of tasks in order.                                                *)
(***************************************************************************)
(* What is left of a list is in the order it was.                         *)
Thinned(cut, s) ==
    \A i, j \in 1 .. Len(cut) :
        i < j => \E m, n \in 1 .. Len(s) : m < n /\ cut[i] = s[m] /\ cut[j] = s[n]

LEMMA RemovedOrder ==
    ASSUME NEW S, NEW s \in Seq(S), NEW k \in 1 .. Len(s)
    PROVE  Thinned(RemoveAt(s, k), s)
<1> DEFINE cut == RemoveAt(s, k)
           at(i) == IF i < k THEN i ELSE i + 1
<1>1. cut \in Seq(S) /\ Len(cut) = Len(s) - 1
  BY RemovedAt, Zenon
<1>2. Len(s) \in Nat
  BY LenProperties, Zenon
<1>3. ASSUME NEW i \in 1 .. Len(cut)
      PROVE  at(i) \in 1 .. Len(s) /\ cut[i] = s[at(i)]
  <2>1. i \in 1 .. Len(s) - 1
    BY <1>1
  <2>2. cut[i] = IF i < k THEN s[i] ELSE s[i + 1]
    BY <2>1, RemovedAt, Zenon
  <2> QED BY <1>1, <1>2, <2>2
<1> HIDE DEF cut
<1>4. ASSUME NEW i \in 1 .. Len(cut), NEW j \in 1 .. Len(cut), i < j
      PROVE  \E m, n \in 1 .. Len(s) : m < n /\ cut[i] = s[m] /\ cut[j] = s[n]
  <2>1. at(i) < at(j)
    BY <1>1, <1>2, <1>4
  <2> HIDE DEF at
  <2> QED BY <1>3, <2>1
<1> QED BY <1>4 DEF cut, Thinned

LEMMA UnlistedOrder ==
    ASSUME NEW S, NEW s \in Seq(S), NEW t
    PROVE  Thinned(Unlisted(s, t), s)
<1>1. CASE t \in ToSet(s)
  <2> DEFINE k == CHOOSE i \in 1 .. Len(s) : s[i] = t
  <2>1. k \in 1 .. Len(s)
    BY <1>1, ToSetOfSeq, Zenon
  <2>2. Unlisted(s, t) = RemoveAt(s, k)
    BY <1>1 DEF Unlisted
  <2> HIDE DEF k
  <2> QED BY <2>1, <2>2, RemovedOrder, Zenon
<1>2. CASE t \notin ToSet(s)
  <2>1. Unlisted(s, t) = s
    BY <1>2 DEF Unlisted
  <2> QED BY <2>1 DEF Thinned
<1> QED BY <1>1, <1>2

(* The list of the tasks that are sent, when a task changes its status.    *)
LEMMA SentList ==
    ASSUME Lists, NEW h \in HalTasks, NEW to \in HalTaskStatuses, SetStatus(h, to)
    PROVE  taskList'["PROCESSING"] =
              CASE Sent(h) /\ to # "PROCESSING"  -> Unlisted(taskList["PROCESSING"], h)
                [] ~Sent(h) /\ to = "PROCESSING" -> Append(taskList["PROCESSING"], h)
                [] ~Sent(h) /\ to # "PROCESSING" -> taskList["PROCESSING"]
                [] OTHER -> Append(Unlisted(taskList["PROCESSING"], h), h)
<1> DEFINE from == taskStatus[h]
           left == [taskList EXCEPT ![from] = Unlisted(taskList[from], h)]
<1>1. /\ from \in HalTaskStatuses /\ "PROCESSING" \in HalTaskStatuses
      /\ taskList \in [HalTaskStatuses -> Seq(HalTasks)]
  BY DEF Lists, HalTaskStatuses
<1>2. taskList' = [left EXCEPT ![to] = Append(left[to], h)]
  <2>1. taskList' = [[taskList EXCEPT ![from] = Unlisted(taskList[from], h)]
                        EXCEPT ![to] = Append(@, h)]
    BY DEF SetStatus, Moved
  <2> QED BY <2>1
<1>3. /\ left["PROCESSING"] = IF from = "PROCESSING" THEN Unlisted(taskList["PROCESSING"], h)
                              ELSE taskList["PROCESSING"]
      /\ DOMAIN left = HalTaskStatuses
  BY <1>1
<1> HIDE DEF left
<1>4. taskList'["PROCESSING"] = IF to = "PROCESSING" THEN Append(left["PROCESSING"], h)
                                ELSE left["PROCESSING"]
  BY <1>1, <1>2, <1>3
<1> QED BY <1>3, <1>4 DEF Sent

(* The elements of the list are the tasks that are sent.                   *)
LEMMA SentListed ==
    ASSUME Lists
    PROVE  LET q == taskList["PROCESSING"]
           IN  /\ q \in Seq(HalTasks) /\ IsInjective(q) /\ Len(q) \in Nat
               /\ \A i \in 1 .. Len(q) : q[i] \in HalTasks /\ Sent(q[i])
               /\ \A t \in HalTasks : Sent(t) => \E i \in 1 .. Len(q) : q[i] = t
<1> DEFINE q == taskList["PROCESSING"]
<1>1. q \in Seq(HalTasks) /\ IsInjective(q) /\ ToSet(q) = {t \in HalTasks : Sent(t)}
  BY DEF Lists, HalTaskStatuses, Sent
<1> HIDE DEF q
<1>2. \A x : x \in ToSet(q) <=> \E i \in 1 .. Len(q) : q[i] = x
  BY <1>1, ToSetOfSeq, Zenon
<1>3. Len(q) \in Nat
  BY <1>1, LenProperties
<1>4. \A i \in 1 .. Len(q) : q[i] \in HalTasks /\ Sent(q[i])
  BY <1>1, <1>2
<1>5. \A t \in HalTasks : Sent(t) => \E i \in 1 .. Len(q) : q[i] = t
  BY <1>1, <1>2
<1> QED BY <1>1, <1>3, <1>4, <1>5 DEF q

-----------------------------------------------------------------------------
(***************************************************************************)
(* What a step does to the tasks that are sent.                            *)
(***************************************************************************)
SameSent ==
    /\ taskList'["PROCESSING"] = taskList["PROCESSING"]
    /\ \A t \in HalTasks : /\ Sent(t)' <=> Sent(t)
                           /\ Sent(t) => taskInfo'[t] = taskInfo[t]

SentMore(h, i) ==
    /\ taskList'["PROCESSING"] = Append(taskList["PROCESSING"], h)
    /\ ~Sent(h) /\ Sent(h)' /\ taskInfo'[h] = i
    /\ \A t \in HalTasks \ {h} : (Sent(t)' <=> Sent(t)) /\ taskInfo'[t] = taskInfo[t]

SentLess(h) ==
    /\ taskList'["PROCESSING"] = Unlisted(taskList["PROCESSING"], h)
    /\ ~Sent(h)' /\ taskInfo' = taskInfo
    /\ \A t \in HalTasks \ {h} : Sent(t)' <=> Sent(t)

(* What is past stays past, if the HAL thread goes on with its task.       *)
Later     == \A n \in Nat : Past(n) => Past(n)'
PulledOn  == Pulled' = Pulled \/ Pulled' = Pulled + 1
HalGoesOn == Working' => Working /\ halInfo' = halInfo
InOrder   == "curr" \in ready' => cur'.id = Pulled'

LEMMA TaskNumbers ==
    ASSUME IInv
    PROVE  /\ Lists /\ taskInfo \in [HalTasks -> Infos]
           /\ \A t \in HalTasks : taskInfo[t] \in Infos /\ taskInfo[t].id \in Nat
           /\ halInfo.id \in Nat /\ cur.id \in Nat /\ Pulled \in Int
<1>1. Lists /\ taskInfo \in [HalTasks -> Infos] /\ UserTypes /\ ThreadTypes
  BY TypeParts DEF IInv
<1>2. Packets = 1 .. Len(Stream) /\ Len(Stream) \in Nat
  BY <1>1, StreamTypes DEF UserTypes
<1>3. \A i \in Infos : i.id \in Nat
  BY <1>2 DEF Infos
<1> QED BY <1>1, <1>3, PacketNumbers DEF ThreadTypes

LEMMA FrameNumbers ==
    ASSUME IInv, SlotsFlagged
    PROVE  /\ frames \in Seq(OutFrames) /\ Len(frames) \in Nat
           /\ \A i \in 1 .. Len(frames) : frames[i] \in OutFrames
           /\ display \in Seq(Slots) /\ Len(display) \in Nat
           /\ \A i \in 1 .. Len(display) : display[i] \in Slots /\ Shown(display[i])
           /\ \A i : Shown(i) => i \in Slots /\ \E k \in 1 .. Len(display) : display[k] = i
           /\ slot \in [Slots -> SlotEntries]
           /\ \A i \in Slots : Shown(i) \/ Writer(i) =>
                 slot[i].onUsed /\ slot[i].frame \in Packets /\ slot[i].frame \in Nat
           /\ \A p \in Packets : p \in Nat
<1>1. frames \in Seq(OutFrames) /\ display \in Seq(Slots) /\ slot \in [Slots -> SlotEntries]
  BY TypeParts, SlotParts DEF IInv, BufferTypes
<1>2. Len(frames) \in Nat /\ Len(display) \in Nat
  BY <1>1, LenProperties
<1>3. \A i \in 1 .. Len(frames) : frames[i] \in OutFrames
  BY <1>1, ElementOfSeq
<1>4. /\ \A x : x \in ToSet(display) <=> \E k \in 1 .. Len(display) : display[k] = x
      /\ ToSet(display) \subseteq Slots
  BY <1>1, ToSetOfSeq, Zenon
<1>5. \A i \in Slots : Shown(i) \/ Writer(i) => slot[i].onUsed /\ slot[i].frame # NoFrame
  BY DEF SlotsFlagged, Flagged
<1>6. \A p \in Packets : p \in Nat
  BY PacketNumbers
<1>7. \A i \in Slots : slot[i].frame \in Packets \union {NoFrame}
  BY <1>1 DEF SlotEntries
<1>8. /\ \A i \in 1 .. Len(display) : display[i] \in Slots /\ Shown(display[i])
      /\ \A i : Shown(i) => i \in Slots /\ \E k \in 1 .. Len(display) : display[k] = i
  BY <1>4 DEF Shown
<1> QED BY <1>1, <1>2, <1>3, <1>5, <1>6, <1>7, <1>8

LEMMA SentSame ==
    ASSUME IInv, TasksInOrder, SameSent, PulledOn, HalGoesOn, InOrder
    PROVE  TasksInOrder' /\ Later
<1> DEFINE q == taskList["PROCESSING"]
<1>1. /\ q \in Seq(HalTasks) /\ Len(q) \in Nat
      /\ \A i \in 1 .. Len(q) : q[i] \in HalTasks /\ Sent(q[i])
  BY SentListed, TaskNumbers, Zenon
<1>2. taskList'["PROCESSING"] = q
  BY DEF SameSent
<1> HIDE DEF q
<1>3. /\ Pulled \in Int /\ Pulled' \in Int /\ Pulled <= Pulled' /\ halInfo.id \in Nat
      /\ \A t \in HalTasks : taskInfo[t].id \in Nat
  BY TaskNumbers DEF PulledOn
<1>4. Ordered(taskList["PROCESSING"])'
  <2>1. \A i, j \in 1 .. Len(q) : i < j => taskInfo[q[i]].id <= taskInfo[q[j]].id
    BY DEF TasksInOrder, Ordered, q
  <2>2. \A i \in 1 .. Len(q) : taskInfo'[q[i]] = taskInfo[q[i]]
    BY <1>1 DEF SameSent
  <2>3. \A i, j \in 1 .. Len(q) : i < j => taskInfo'[q[i]].id <= taskInfo'[q[j]].id
    BY <2>1, <2>2
  <2> QED BY <1>2, <2>3 DEF Ordered
<1>5. \A t \in HalTasks : Sent(t)' => Sent(t) /\ taskInfo'[t] = taskInfo[t]
  BY DEF SameSent
<1>6. /\ \A t \in HalTasks : Sent(t)' => taskInfo'[t].id <= Pulled'
      /\ Working' => /\ halInfo'.id <= Pulled'
                     /\ \A t \in HalTasks : Sent(t)' => halInfo'.id <= taskInfo'[t].id
  BY <1>3, <1>5 DEF TasksInOrder, HalGoesOn
<1>7. Later
  BY <1>3, <1>5 DEF Later, Past, HalGoesOn
<1> QED BY <1>4, <1>6, <1>7 DEF TasksInOrder, InOrder

LEMMA SentOneMore ==
    ASSUME IInv, TasksInOrder, NEW h \in HalTasks, NEW i, SentMore(h, i), i.id = Pulled',
           PulledOn, HalGoesOn, InOrder
    PROVE  TasksInOrder' /\ Later
<1> DEFINE q == taskList["PROCESSING"]
<1>1. /\ q \in Seq(HalTasks) /\ Len(q) \in Nat
      /\ \A k \in 1 .. Len(q) : q[k] \in HalTasks /\ Sent(q[k])
  BY SentListed, TaskNumbers, Zenon
<1>2. taskList'["PROCESSING"] = Append(q, h)
  BY DEF SentMore
<1>3. /\ Len(Append(q, h)) = Len(q) + 1 /\ Append(q, h)[Len(q) + 1] = h
      /\ \A k \in 1 .. Len(q) : Append(q, h)[k] = q[k]
  BY <1>1, AppendProperties
<1>4. /\ Pulled \in Int /\ Pulled' \in Int /\ Pulled <= Pulled' /\ halInfo.id \in Nat
      /\ \A t \in HalTasks : taskInfo[t].id \in Nat
  BY TaskNumbers DEF PulledOn
<1>5. /\ \A t \in HalTasks :
            Sent(t)' => t = h \/ (t # h /\ Sent(t) /\ taskInfo'[t] = taskInfo[t])
      /\ taskInfo'[h] = i /\ ~Sent(h)
  BY DEF SentMore
<1>6. /\ \A t \in HalTasks : Sent(t)' => taskInfo'[t].id <= Pulled' /\ taskInfo'[t].id \in Int
      /\ Working' => /\ halInfo'.id <= Pulled'
                     /\ \A t \in HalTasks : Sent(t)' => halInfo'.id <= taskInfo'[t].id
  BY <1>4, <1>5 DEF TasksInOrder, HalGoesOn
<1>7. Ordered(taskList["PROCESSING"])'
  <2>1. \A k, j \in 1 .. Len(q) : k < j => taskInfo[q[k]].id <= taskInfo[q[j]].id
    BY DEF TasksInOrder, Ordered
  <2>2. \A k \in 1 .. Len(q) : taskInfo'[q[k]] = taskInfo[q[k]] /\ taskInfo'[q[k]].id <= i.id
    <3> SUFFICES ASSUME NEW k \in 1 .. Len(q)
                 PROVE  taskInfo'[q[k]] = taskInfo[q[k]] /\ taskInfo'[q[k]].id <= i.id
      OBVIOUS
    <3>1. PICK t \in HalTasks : t = q[k] /\ Sent(t) /\ t # h
      BY <1>1, <1>5
    <3>2. Sent(t)' /\ taskInfo'[t] = taskInfo[t]
      BY <3>1 DEF SentMore
    <3> QED BY <1>6, <3>1, <3>2
  <2> DEFINE ext == Append(q, h)
  <2> HIDE DEF q, ext
  <2>3. \A k, j \in 1 .. Len(q) + 1 : k < j => taskInfo'[ext[k]].id <= taskInfo'[ext[j]].id
    <3> SUFFICES ASSUME NEW k \in 1 .. Len(q) + 1, NEW j \in 1 .. Len(q) + 1, k < j
                 PROVE  taskInfo'[ext[k]].id <= taskInfo'[ext[j]].id
      OBVIOUS
    <3>1. k \in 1 .. Len(q) /\ ext[k] = q[k]
      BY <1>1, <1>3 DEF ext
    <3>2. CASE j \in 1 .. Len(q)
      <4>1. ext[j] = q[j]
        BY <1>3, <3>2 DEF ext
      <4> QED BY <2>1, <2>2, <3>1, <3>2, <4>1
    <3>3. CASE j = Len(q) + 1
      <4>1. ext[j] = h
        BY <1>3, <3>3 DEF ext
      <4> QED BY <1>5, <2>2, <3>1, <4>1
    <3> QED BY <1>1, <3>2, <3>3
  <2> QED BY <1>2, <1>3, <2>3 DEF Ordered, ext
<1>8. Later
  BY <1>4, <1>5 DEF Later, Past, HalGoesOn
<1> QED BY <1>6, <1>7, <1>8 DEF TasksInOrder, InOrder

LEMMA SentOneLess ==
    ASSUME IInv, TasksInOrder, NEW h \in HalTasks, SentLess(h),
           Pulled' = Pulled, HalGoesOn, InOrder
    PROVE  TasksInOrder' /\ Later
<1> DEFINE q == taskList["PROCESSING"]
<1>1. /\ q \in Seq(HalTasks) /\ IsInjective(q) /\ Len(q) \in Nat
      /\ \A k \in 1 .. Len(q) : q[k] \in HalTasks /\ Sent(q[k])
  BY SentListed, TaskNumbers, Zenon
<1>2. taskList'["PROCESSING"] = Unlisted(q, h) /\ taskInfo' = taskInfo
  BY DEF SentLess
<1>3. Thinned(Unlisted(q, h), q)
  <2> HIDE DEF q
  <2> QED BY <1>1, UnlistedOrder, Zenon
<1>4. /\ Pulled \in Int /\ halInfo.id \in Nat
      /\ \A t \in HalTasks : taskInfo[t].id \in Nat
  BY TaskNumbers
<1>5. \A t \in HalTasks : Sent(t)' => Sent(t)
  BY DEF SentLess
<1>6. Ordered(taskList["PROCESSING"])'
  <2>1. \A m, n \in 1 .. Len(q) : m < n => taskInfo[q[m]].id <= taskInfo[q[n]].id
    BY DEF TasksInOrder, Ordered
  <2> HIDE DEF q
  <2>2. PICK cut : cut = Unlisted(q, h)
    OBVIOUS
  <2>3. \A i, j \in 1 .. Len(cut) : i < j => taskInfo[cut[i]].id <= taskInfo[cut[j]].id
    BY <1>3, <2>1, <2>2 DEF Thinned
  <2> QED BY <1>2, <2>2, <2>3 DEF Ordered
<1>7. /\ \A t \in HalTasks : Sent(t)' => taskInfo'[t].id <= Pulled'
      /\ Working' => /\ halInfo'.id <= Pulled'
                     /\ \A t \in HalTasks : Sent(t)' => halInfo'.id <= taskInfo'[t].id
  BY <1>2, <1>4, <1>5 DEF TasksInOrder, HalGoesOn
<1>8. Later
  BY <1>2, <1>4, <1>5 DEF Later, Past, HalGoesOn
<1> QED BY <1>6, <1>7, <1>8 DEF TasksInOrder, InOrder

(* The calls of the task group, said so.                                   *)
LEMMA SendOne ==
    ASSUME IInv, NEW h \in HalTasks, hnd = h, taskStatus[h] = "IDLE", NEW i, Send(i)
    PROVE  /\ SentMore(h, i)
           /\ halTask' = halTask /\ halInfo' = halInfo /\ halAt' = HalWoken
<1>1. Lists /\ taskInfo \in [HalTasks -> Infos] /\ taskStatus \in [HalTasks -> HalTaskStatuses]
  BY TaskNumbers DEF Lists
<1>2. /\ SetStatus(h, "PROCESSING") /\ taskInfo' = [taskInfo EXCEPT ![h] = i]
      /\ halTask' = halTask /\ halInfo' = halInfo /\ halAt' = HalWoken
  BY DEF Send
<1>3. "PROCESSING" \in HalTaskStatuses /\ ~Sent(h)
  BY DEF HalTaskStatuses, Sent
<1>4. taskList'["PROCESSING"] = Append(taskList["PROCESSING"], h)
  BY <1>1, <1>2, <1>3, SentList
<1>5. taskStatus' = [taskStatus EXCEPT ![h] = "PROCESSING"]
  BY <1>2 DEF SetStatus
<1>6. /\ Sent(h)' /\ taskInfo'[h] = i
      /\ \A t \in HalTasks \ {h} : (Sent(t)' <=> Sent(t)) /\ taskInfo'[t] = taskInfo[t]
  BY <1>1, <1>2, <1>5 DEF Sent
<1> QED BY <1>2, <1>3, <1>4, <1>6 DEF SentMore

LEMMA IdleOne ==
    ASSUME IInv, NEW h \in HalTasks, NEW to \in HalTaskStatuses, to # "PROCESSING",
           SetStatus(h, to), taskInfo' = taskInfo
    PROVE  IF Sent(h) THEN SentLess(h) ELSE SameSent
<1>1. Lists /\ taskStatus \in [HalTasks -> HalTaskStatuses]
  BY TaskNumbers DEF Lists
<1>2. taskStatus' = [taskStatus EXCEPT ![h] = to]
  BY DEF SetStatus
<1>3. /\ ~Sent(h)'
      /\ \A t \in HalTasks \ {h} : Sent(t)' <=> Sent(t)
  BY <1>1, <1>2 DEF Sent
<1>4. taskList'["PROCESSING"] = IF Sent(h) THEN Unlisted(taskList["PROCESSING"], h)
                                ELSE taskList["PROCESSING"]
  BY <1>1, SentList
<1> QED BY <1>3, <1>4 DEF SentLess, SameSent

-----------------------------------------------------------------------------
(***************************************************************************)
(* Steps that leave the slots, or the frames, or both alone.               *)
(***************************************************************************)
HalStays ==
    /\ halAt' \in PutSteps => halAt' = halAt /\ halInfo' = halInfo
    /\ halAt' = "display" => halAt = "display" /\ halInfo' = halInfo
    /\ halAt = "display" => halAt' = "display"

LEMMA CalmSlots ==
    ASSUME IInv, SlotsKept, FramesKept, SameUse, HalStays, PulledOn, Later,
           "curr" \in ready' /\ "parsed" \notin ready' =>
               ("curr" \in ready /\ "parsed" \notin ready) \/ Pulled' = Pulled + 1
    PROVE  PicturesNamed' /\ DisplayInOrder' /\ ShownInTime'
<1>1. /\ PicturesNamed /\ DisplayInOrder /\ ShownInTime /\ SlotsFlagged
      /\ slot' = slot /\ display' = display /\ ref0' = ref0
      /\ Parsed' <=> Parsed
      /\ halAt' = "slots" <=> halAt = "slots"
      /\ Parsed => cur'.output = cur.output /\ cur'.id = cur.id
      /\ \A t \in HalTasks : InHardware(t)' <=> InHardware(t)
      /\ \A t \in HalTasks : InHardware(t) => taskInfo'[t] = taskInfo[t]
      /\ halAt = "slots" => halInfo' = halInfo
  BY DEF FramesKept, SlotsKept, SameUse
<1>2. \A i : (Writer(i)' <=> Writer(i)) /\ (Shown(i)' <=> Shown(i))
  BY SameUsers
<1>3. PicturesNamed'
  BY <1>1 DEF PicturesNamed
<1>4. ShownInTime'
  <2>1. \A i \in Slots : Writer(i)' => Shown(i)'
    BY <1>1, <1>2 DEF ShownInTime
  <2>2. \A i \in Slots : Shown(i)' /\ ~Writer(i)' => halAt' = "display" /\ i = halInfo'.output
    BY <1>1, <1>2 DEF ShownInTime, HalStays
  <2>3. \A t \in HalTasks : InHardware(t)' => ref0' = taskInfo'[t].output
    BY <1>1 DEF ShownInTime
  <2>4. halAt' \in {"slots", "display"} /\ ~Parsed' /\ (\A t \in HalTasks : ~InHardware(t)') =>
           ref0' = halInfo'.output
    BY <1>1 DEF ShownInTime, HalStays
  <2> QED BY <2>1, <2>2, <2>3, <2>4 DEF ShownInTime
<1>5. DisplayInOrder'
  <2>1. /\ Pulled \in Int /\ Pulled' \in Int /\ Pulled <= Pulled'
        /\ \A i \in Slots : Shown(i) => slot[i].frame \in Nat
    BY <1>1, FrameNumbers, TaskNumbers DEF PulledOn
  <2>2. \A i \in Slots : Shown(i)' => slot'[i].frame <= Pulled'
    BY <1>1, <1>2, <2>1 DEF DisplayInOrder
  <2>3. ASSUME NEW i \in Slots, Shown(i)', ~Writer(i)'
        PROVE  \E n \in Nat : n = slot'[i].frame /\ Past(n)'
    <3>1. Past(slot[i].frame) /\ slot[i].frame \in Nat
      BY <1>1, <1>2, <2>1, <2>3 DEF DisplayInOrder
    <3>2. PICK n \in Nat : n = slot[i].frame /\ Past(n)
      BY <3>1
    <3>3. Past(n)'
      BY <3>2 DEF Later
    <3> QED BY <1>1, <3>2, <3>3
  <2>4. "curr" \in ready' /\ "parsed" \notin ready' =>
           \A i \in Slots : Shown(i)' => slot'[i].frame < Pulled'
    <3>1. \A i \in Slots : Shown(i) => slot[i].frame <= Pulled
      BY <1>1 DEF DisplayInOrder
    <3>2. ("curr" \in ready /\ "parsed" \notin ready) =>
             \A i \in Slots : Shown(i) => slot[i].frame < Pulled
      BY <1>1 DEF DisplayInOrder
    <3> QED BY <1>1, <1>2, <2>1, <3>1, <3>2 DEF PulledOn
  <2>5. \A i, j \in 1 .. Len(display') :
           i < j => slot'[display'[i]].frame < slot'[display'[j]].frame
    BY <1>1 DEF DisplayInOrder
  <2> QED BY <2>2, <2>3, <2>4, <2>5 DEF DisplayInOrder, Past
<1> QED BY <1>3, <1>4, <1>5

LEMMA CalmFrames ==
    ASSUME IInv, SlotsKept, FramesKept, SameUse, HalStays, Later,
           frames' = frames, held' = held, extraRef' = extraRef, scenario' = scenario
    PROVE  BuffersApart' /\ FramesInOrder' /\ FramesFirst'
<1>1. /\ BuffersApart /\ FramesInOrder /\ FramesFirst /\ SlotsFlagged
      /\ slot' = slot /\ display' = display /\ Packets' = Packets
  BY SameScenario DEF FramesKept, SlotsKept, SameUse
<1>2. \A i : Shown(i)' <=> Shown(i)
  BY SameUsers
<1>3. BuffersApart'
  BY <1>1, <1>2 DEF BuffersApart, OutBuffers, FrameBuffers
<1>4. FramesInOrder'
  <2>1. \A i \in 1 .. Len(frames) : frames[i].id \in Packets /\ Past(frames[i].id)
    BY <1>1 DEF FramesInOrder
  <2>2. ASSUME NEW i \in 1 .. Len(frames)
        PROVE  \E n \in Nat : n = frames[i].id /\ Past(n)'
    <3>1. PICK n \in Nat : n = frames[i].id /\ Past(n)
      BY <2>1, PacketNumbers
    <3>2. Past(n)'
      BY <3>1 DEF Later
    <3> QED BY <3>1, <3>2
  <2>3. \A i, j \in 1 .. Len(frames) : i < j => frames[i].id <= frames[j].id
    BY <1>1 DEF FramesInOrder
  <2> QED BY <1>1, <2>1, <2>2, <2>3 DEF FramesInOrder, Past
<1>5. FramesFirst'
  BY <1>1, <1>2 DEF FramesFirst, HalStays
<1> QED BY <1>3, <1>4, <1>5

(* A step that announces no change of format.                              *)
LEMMA CalmChange ==
    ASSUME ChangeAnnounced, frames' = frames, infoChanged' = infoChanged,
           infoChanged => Parsed',
           "infoGen" \in ready /\ infoChanged => "infoGen" \in ready',
           userAt' = "app" <=> userAt = "app",
           cur'.output = cur.output \/ "infoGen" \notin ready,
           cur'.id = cur.id \/ "infoGen" \notin ready,
           \A t \in HalTasks : Announced(t)' => Announced(t) /\ taskInfo'[t] = taskInfo[t]
    PROVE  ChangeAnnounced'
<1>1. \A t \in HalTasks :
         Announced(t)' =>
             /\ "infoGen" \in ready' /\ infoChanged' /\ userAt' = "app"
             /\ taskInfo'[t].output = cur'.output /\ taskInfo'[t].id = cur'.id
             /\ \A i \in 1 .. Len(frames') : frames'[i].kind # "info"
  BY DEF ChangeAnnounced
<1>2. \A t, u \in HalTasks : Announced(t)' /\ Announced(u)' => u = t
  BY DEF ChangeAnnounced
<1>3. \A i \in 1 .. Len(frames') :
         frames'[i].kind = "info" =>
             /\ "infoGen" \in ready' /\ infoChanged' /\ userAt' = "app"
             /\ \A j \in 1 .. Len(frames') : frames'[j].kind = "info" => j = i
  BY DEF ChangeAnnounced
<1>4. userAt' # "app" => "infoGen" \in ready' /\ infoChanged'
  BY DEF ChangeAnnounced
<1> QED BY <1>1, <1>2, <1>3, <1>4 DEF ChangeAnnounced

(* While no change is pending, none is announced.                          *)
LEMMA NoChange ==
    ASSUME ChangeAnnounced, ~infoChanged \/ "infoGen" \notin ready
    PROVE  /\ \A t \in HalTasks : ~Announced(t)
           /\ \A i \in 1 .. Len(frames) : frames[i].kind # "info"
           /\ userAt = "app"
BY DEF ChangeAnnounced

(* A step of a thread that looks at its own variables, or waits.           *)
HalCalm ==
    /\ halTask' = halTask /\ halInfo' = halInfo
    /\ \/ halAt' = halAt
       \/ halAt = "asleep" /\ halAt' = "get"
       \/ halAt = "hw" /\ halAt' = "done"

LEMMA CalmHal ==
    ASSUME HalCalm
    PROVE  HalStays /\ HalGoesOn
BY DEF HalCalm, HalStays, HalGoesOn, Working, PutSteps

LEMMA CalmAnnounced ==
    ASSUME HalCalm, SameSent
    PROVE  \A t \in HalTasks : Announced(t)' => Announced(t) /\ taskInfo'[t] = taskInfo[t]
BY DEF HalCalm, SameSent, Announced

LEMMA QuietStep ==
    ASSUME IInv, SlotsKept, FramesKept, SameUse, HalCalm, SameSent,
           frames' = frames, held' = held, extraRef' = extraRef, scenario' = scenario,
           Pulled' = Pulled, infoChanged' = infoChanged, userAt' = "app" <=> userAt = "app",
           "curr" \in ready' <=> "curr" \in ready,
           "infoGen" \in ready /\ infoChanged => "infoGen" \in ready',
           "parsed" \in ready => "parsed" \in ready',
           cur'.id = cur.id, cur'.output = cur.output \/ "infoGen" \notin ready
    PROVE  FramesKept'
<1>1. /\ ChangeAnnounced /\ TasksInOrder
      /\ Parsed' <=> Parsed
  BY DEF FramesKept, SameUse
<1>2. HalStays /\ HalGoesOn
  BY CalmHal
<1>3. TasksInOrder' /\ Later
  BY <1>1, <1>2, SentSame DEF TasksInOrder, InOrder, PulledOn
<1>4. PicturesNamed' /\ DisplayInOrder' /\ ShownInTime'
  BY <1>2, <1>3, CalmSlots DEF PulledOn
<1>5. BuffersApart' /\ FramesInOrder' /\ FramesFirst'
  BY <1>2, <1>3, CalmFrames
<1>6. ChangeAnnounced'
  <2>1. infoChanged => Parsed'
    BY <1>1 DEF ChangeAnnounced
  <2> QED BY <1>1, <2>1, CalmAnnounced, CalmChange
<1> QED BY <1>3, <1>4, <1>5, <1>6 DEF FramesKept

Quiet ==
    /\ UNCHANGED groupVars /\ UNCHANGED slotVars /\ ref0' = ref0 /\ HalCalm
    /\ frames' = frames /\ held' = held /\ extraRef' = extraRef /\ scenario' = scenario
    /\ Pulled' = Pulled
    /\ userAt' = "app" <=> userAt = "app"
    /\ cur'.id = cur.id /\ cur'.output = cur.output /\ cur'.refer = cur.refer
    /\ parserAt' = "resetDrain" <=> parserAt = "resetDrain"
    /\ "curr" \in ready' <=> "curr" \in ready
    /\ "parsed" \in ready' <=> "parsed" \in ready
    /\ "infoGen" \in ready /\ infoChanged => "infoGen" \in ready'

LEMMA QuietKeeps ==
    ASSUME IInv, SlotsKept, FramesKept, Quiet
    PROVE  FramesKept'
<1>1. SameUse
  <2>1. /\ slot' = slot /\ display' = display /\ taskInfo' = taskInfo
        /\ halInfo' = halInfo
        /\ halAt' = "slots" <=> halAt = "slots"
        /\ Parsed' <=> Parsed
    BY DEF Quiet, slotVars, groupVars, Parsed, HalCalm
  <2>2. \A t \in HalTasks : InHardware(t)' <=> InHardware(t)
    BY GroupSame DEF Quiet
  <2> QED BY <2>1, <2>2 DEF Quiet, SameUse
<1>2. SameSent /\ infoChanged' = infoChanged
  BY DEF Quiet, SameSent, Sent, groupVars, slotVars
<1> QED BY <1>1, <1>2, QuietStep DEF Quiet

(* Most steps are of this kind.                                            *)
LEMMA QuietSteps ==
    ASSUME IInv, ~aborted, SlotsKept, FramesKept,
           \/ UserPuts \/ UserCommits \/ ParserTop \/ ParserChecks \/ ParserTries \/ PullNothing
           \/ ParserChecksGroup \/ ParserWaitsChange \/ ParserNeedsNoChange \/ HalHardwareEnds
    PROVE  FramesKept' /\ ~aborted'
<1>1. cur \in Infos /\ (userAt = "commit" => userAt # "app")
  BY TypeParts DEF IInv, ThreadTypes
<1>2. CASE UserPuts
  <2>1. packets \in Seq(Packets) /\ put \in Nat /\ Len(packets) \in Nat
    BY PacketNumbers
  <2>2. Len(packets') = Len(packets) + 1 /\ put' = put + 1
    BY <1>2, <2>1, AppendProperties DEF UserPuts
  <2>3. Pulled' = Pulled
    BY <2>1, <2>2 DEF Pulled
  <2>4. Quiet /\ aborted' = aborted
    BY <1>2, <2>3 DEF UserPuts, Quiet, HalCalm, outVars, parserVars, halVars
  <2> QED BY <2>4, QuietKeeps
<1>3. CASE UserCommits
  <2>1. Quiet /\ aborted' = aborted
    BY <1>3 DEF UserCommits, ParserWoken, Quiet, HalCalm, outVars, parserVars, halVars, Pulled
  <2> QED BY <2>1, QuietKeeps
<1>4. CASE ParserTop
  <2>1. Quiet /\ aborted' = aborted
    BY <1>4 DEF ParserTop, Quiet, HalCalm, outVars, userVars, parserVars, halVars, Pulled
  <2> QED BY <2>1, QuietKeeps
<1>5. CASE ParserChecks
  <2>1. Quiet /\ aborted' = aborted
    BY <1>5 DEF ParserChecks, Quiet, HalCalm, outVars, userVars, parserVars, halVars, Pulled
  <2> QED BY <2>1, QuietKeeps
<1>6. CASE ParserTries
  <2>1. Quiet /\ aborted' = aborted
    BY <1>6 DEF ParserTries, ParserLocal, Quiet, HalCalm, outVars, userVars, halVars, Pulled
  <2> QED BY <2>1, QuietKeeps
<1>7. CASE PullNothing
  <2>1. Quiet /\ aborted' = aborted
    BY <1>7 DEF PullNothing, ParserLocal, Quiet, HalCalm, outVars, userVars, parserVars, halVars,
                Pulled
  <2> QED BY <2>1, QuietKeeps
<1>8. CASE ParserChecksGroup
  <2>1. Quiet /\ aborted' = aborted
    BY <1>8 DEF ParserChecksGroup, ParserLocal, Quiet, HalCalm, outVars, userVars, halVars, Pulled
  <2> QED BY <2>1, QuietKeeps
<1>9. CASE ParserWaitsChange
  <2>1. Quiet /\ aborted' = aborted
    BY <1>9 DEF ParserWaitsChange, ParserLocal, Quiet, HalCalm, outVars, userVars, halVars, Pulled
  <2> QED BY <2>1, QuietKeeps
<1>10. CASE ParserNeedsNoChange
  <2>1. cur'.id = cur.id /\ cur'.output = cur.output /\ cur'.refer = cur.refer
    BY <1>1, <1>10 DEF ParserNeedsNoChange, Infos
  <2>2. Quiet /\ aborted' = aborted
    BY <1>10, <2>1
       DEF ParserNeedsNoChange, ParserLocal, Quiet, HalCalm, outVars, userVars, halVars, Pulled
  <2> QED BY <2>2, QuietKeeps
<1>11. CASE HalHardwareEnds
  <2>1. Quiet /\ aborted' = aborted
    BY <1>11 DEF HalHardwareEnds, Quiet, HalCalm, outVars, userVars, parserVars, Pulled
  <2> QED BY <2>1, QuietKeeps
<1> QED BY <1>2, <1>3, <1>4, <1>5, <1>6, <1>7, <1>8, <1>9, <1>10, <1>11

(* The previous task is taken back.                                        *)
LEMMA ParserWaitsPreviousFrames ==
    ASSUME IInv, ~aborted, SlotsKept, FramesKept, ParserWaitsPrevious
    PROVE  FramesKept' /\ ~aborted'
<1>1. /\ slot' = slot /\ display' = display /\ ref0' = ref0 /\ infoChanged' = infoChanged
      /\ frames' = frames /\ held' = held /\ extraRef' = extraRef /\ scenario' = scenario
      /\ userAt' = userAt /\ put' = put /\ packets' = packets /\ cur' = cur /\ aborted' = aborted
      /\ halAt' = halAt /\ halTask' = halTask /\ halInfo' = halInfo
      /\ parserAt = "prev" /\ parserAt' # "resetDrain"
      /\ ready' = ready \/ ready' = ready \union {"prev"}
  BY DEF ParserWaitsPrevious, userVars, outVars, halVars, slotVars
<1>2. CASE UNCHANGED groupVars
  <2>1. Quiet
    BY <1>1, <1>2 DEF Quiet, HalCalm, slotVars, Pulled, ParserWaitsPrevious
  <2> QED BY <1>1, <2>1, QuietKeeps
<1>3. CASE "prev" \notin ready /\ HndIn("PROC_DONE") # NoTask
  <2>1. PICK d \in HalTasks : d = HndIn("PROC_DONE") /\ taskStatus[d] = "PROC_DONE"
    BY <1>3, HandleFound, TaskNumbers DEF HalTaskStatuses
  <2>2. SetStatus(d, "IDLE") /\ taskInfo' = taskInfo /\ ~InHardware(d) /\ ~Sent(d)
    BY <1>3, <2>1 DEF ParserWaitsPrevious, InHardware, Sent
  <2>3. SameSent
    BY <2>2, IdleOne DEF HalTaskStatuses
  <2>4. SameHardware
    BY <2>2, IdledElsewhere, TaskNumbers
  <2>5. Parsed' <=> Parsed
    BY <1>1 DEF Parsed
  <2>6. SameUse
    BY <1>1, <2>4, <2>5 DEF SameUse, SameHardware
  <2> QED BY <1>1, <2>3, <2>6, QuietStep DEF HalCalm, Pulled
<1> QED BY <1>2, <1>3, HandleFound, TaskNumbers DEF ParserWaitsPrevious, HalTaskStatuses

-----------------------------------------------------------------------------
(***************************************************************************)
(* The user.                                                               *)
(***************************************************************************)
(* Steps that leave the threads and the slots alone, but not the frames.   *)
LEMMA UserStep ==
    ASSUME IInv, SlotsKept, FramesKept, UNCHANGED groupVars,
           slot' = slot, display' = display, ref0' = ref0, HalCalm,
           cur' = cur, ready' = ready, put' = put, packets' = packets,
           parserAt' = "resetDrain" <=> parserAt = "resetDrain"
    PROVE  /\ PicturesNamed' /\ DisplayInOrder' /\ ShownInTime' /\ TasksInOrder' /\ Later
           /\ SameUse /\ HalStays
           /\ \A t \in HalTasks : Announced(t)' => Announced(t) /\ taskInfo'[t] = taskInfo[t]
<1>1. SameUse
  <2>1. /\ halAt' = "slots" <=> halAt = "slots"
        /\ halInfo' = halInfo /\ taskInfo' = taskInfo
        /\ Parsed' <=> Parsed
    BY DEF HalCalm, groupVars, Parsed
  <2>2. \A t \in HalTasks : InHardware(t)' <=> InHardware(t)
    BY GroupSame
  <2> QED BY <2>1, <2>2 DEF SameUse
<1>2. SameSent
  BY DEF SameSent, Sent, groupVars
<1>3. HalStays /\ HalGoesOn
  BY CalmHal
<1>4. PulledOn /\ Pulled' = Pulled
  BY DEF PulledOn, Pulled
<1>5. TasksInOrder' /\ Later
  <2>1. InOrder
    BY <1>4 DEF InOrder, FramesKept, TasksInOrder
  <2> QED BY <1>2, <1>3, <1>4, <2>1, SentSame DEF FramesKept
<1>6. PicturesNamed' /\ DisplayInOrder' /\ ShownInTime'
  BY <1>1, <1>3, <1>4, <1>5, CalmSlots
<1> QED BY <1>1, <1>2, <1>3, <1>5, <1>6, CalmAnnounced

(* The head of a list goes.                                                *)
LEMMA TailOf ==
    ASSUME NEW S, NEW s \in Seq(S), s # <<>>
    PROVE  /\ Len(s) \in Nat \ {0} /\ Head(s) = s[1] /\ Tail(s) \in Seq(S)
           /\ Len(Tail(s)) = Len(s) - 1
           /\ \A i \in 1 .. Len(s) - 1 : Tail(s)[i] = s[i + 1] /\ i + 1 \in 1 .. Len(s)
           /\ 1 \in 1 .. Len(s)
<1>1. Len(s) \in Nat \ {0}
  BY LenProperties, EmptySeq
<1> QED BY <1>1, HeadTailProperties

(* get_frame.                                                              *)
LEMMA UserGetsFrames ==
    ASSUME IInv, ~aborted, SlotsKept, FramesKept, UserGets
    PROVE  FramesKept' /\ ~aborted'
<1>1. /\ userAt = "app" /\ frames # <<>> /\ frames' = Tail(frames)
      /\ held' = held \union ({Head(frames).buffer} \ {NoBuffer})
      /\ userAt' = (IF Head(frames).kind = "info" THEN "commit" ELSE "app")
      /\ extraRef' = extraRef /\ scenario' = scenario /\ aborted' = aborted
      /\ UNCHANGED groupVars /\ UNCHANGED slotVars /\ ref0' = ref0 /\ HalCalm
      /\ cur' = cur /\ ready' = ready /\ put' = put /\ packets' = packets /\ parserAt' = parserAt
  BY DEF UserGets, HalWoken, HalCalm, parserVars
<1>2. /\ slot' = slot /\ display' = display /\ infoChanged' = infoChanged
      /\ Packets' = Packets
  BY <1>1, SameScenario DEF slotVars
<1>3. /\ PicturesNamed' /\ DisplayInOrder' /\ ShownInTime' /\ TasksInOrder' /\ Later
      /\ SameUse /\ HalStays
      /\ \A t \in HalTasks : Announced(t)' => Announced(t) /\ taskInfo'[t] = taskInfo[t]
  BY <1>1, <1>2, UserStep
<1>4. /\ ChangeAnnounced /\ BuffersApart /\ FramesInOrder /\ FramesFirst
  BY DEF FramesKept
<1> DEFINE n == Len(frames)
<1>5. /\ n \in Nat \ {0} /\ Head(frames) = frames[1] /\ Len(frames') = n - 1
      /\ \A i \in 1 .. n - 1 : frames'[i] = frames[i + 1] /\ i + 1 \in 1 .. n
      /\ 1 \in 1 .. n
  <2>1. frames \in Seq(OutFrames)
    BY FrameNumbers DEF SlotsKept
  <2> QED BY <1>1, <2>1, TailOf
<1> HIDE DEF n
<1>6. \A i : Shown(i)' <=> Shown(i)
  BY <1>3, SameUsers
<1>7. ChangeAnnounced'
  <2>1. /\ infoChanged => Parsed
        /\ Parsed' <=> Parsed
    BY <1>3, <1>4 DEF ChangeAnnounced, SameUse
  <2>2. CASE frames[1].kind = "info"
    <3>1. "infoGen" \in ready /\ infoChanged /\ userAt = "app"
      BY <1>4, <1>5, <2>2 DEF ChangeAnnounced, n
    <3>2. \A i \in 1 .. n - 1 : frames'[i].kind # "info"
      <4>1. \A j \in 1 .. n : frames[j].kind = "info" => j = 1
        BY <1>4, <1>5, <2>2 DEF ChangeAnnounced, n
      <4>2. \A i \in 1 .. n - 1 : i + 1 # 1
        BY <1>5
      <4> QED BY <1>5, <4>1, <4>2
    <3>3. \A t \in HalTasks : ~Announced(t)'
      BY <1>3, <1>4, <1>5, <2>2 DEF ChangeAnnounced, n
    <3> QED BY <1>1, <1>2, <1>5, <2>1, <3>1, <3>2, <3>3 DEF ChangeAnnounced
  <2>3. CASE frames[1].kind # "info"
    <3>1. userAt' = "app"
      BY <1>1, <1>5, <2>3
    <3>2. \A t \in HalTasks :
             Announced(t)' =>
                 /\ "infoGen" \in ready' /\ infoChanged'
                 /\ taskInfo'[t].output = cur'.output /\ taskInfo'[t].id = cur'.id
                 /\ \A u \in HalTasks : Announced(u)' => u = t
                 /\ \A i \in 1 .. n : frames[i].kind # "info"
      BY <1>1, <1>2, <1>3, <1>4 DEF ChangeAnnounced, n
    <3>3. \A i \in 1 .. n :
             frames[i].kind = "info" =>
                 /\ "infoGen" \in ready' /\ infoChanged'
                 /\ \A j \in 1 .. n : frames[j].kind = "info" => j = i
      BY <1>1, <1>2, <1>4 DEF ChangeAnnounced, n
    <3>4. \A i, j \in 1 .. n - 1 : i + 1 = j + 1 => i = j
      BY <1>5
    <3>5. \A i \in 1 .. Len(frames') :
             frames'[i].kind = "info" =>
                 /\ "infoGen" \in ready' /\ infoChanged'
                 /\ \A j \in 1 .. Len(frames') : frames'[j].kind = "info" => j = i
      BY <1>5, <3>3, <3>4
    <3>6. \A t \in HalTasks :
             Announced(t)' => \A i \in 1 .. Len(frames') : frames'[i].kind # "info"
      BY <1>5, <3>2
    <3> QED BY <2>1, <1>2, <3>1, <3>2, <3>5, <3>6 DEF ChangeAnnounced
  <2> QED BY <2>2, <2>3
<1>8. BuffersApart'
  <2>1. \A i \in 1 .. n :
           frames[i].buffer # NoBuffer =>
               /\ frames[i].buffer \notin held
               /\ \A j \in 1 .. n : frames[j].buffer = frames[i].buffer => j = i
    BY <1>4 DEF BuffersApart, n
  <2>2. OutBuffers' \subseteq OutBuffers
    <3>1. \A i \in 1 .. n : frames[i].buffer # NoBuffer => frames[i].buffer \in FrameBuffers
      BY DEF FrameBuffers, n
    <3>2. FrameBuffers' \subseteq FrameBuffers
      <4> SUFFICES ASSUME NEW b \in FrameBuffers'
                   PROVE  b \in FrameBuffers
        OBVIOUS
      <4>1. PICK i \in 1 .. n - 1 : frames'[i].buffer = b /\ b # NoBuffer
        BY <1>5 DEF FrameBuffers
      <4>2. i + 1 \in 1 .. n /\ frames[i + 1].buffer = b
        BY <1>5, <4>1
      <4> QED BY <3>1, <4>1, <4>2
    <3>3. held' \subseteq held \union FrameBuffers
      BY <1>1, <1>5, <3>1
    <3> QED BY <3>2, <3>3 DEF OutBuffers
  <2>3. \A i \in 1 .. n - 1 :
           frames'[i].buffer # NoBuffer =>
               /\ frames'[i].buffer \notin held'
               /\ \A j \in 1 .. n - 1 : frames'[j].buffer = frames'[i].buffer => j = i
    <3> SUFFICES ASSUME NEW i \in 1 .. n - 1, frames'[i].buffer # NoBuffer
                 PROVE  /\ frames'[i].buffer \notin held'
                        /\ \A j \in 1 .. n - 1 : frames'[j].buffer = frames'[i].buffer => j = i
      OBVIOUS
    <3>1. frames'[i] = frames[i + 1] /\ i + 1 \in 1 .. n /\ i + 1 # 1
      BY <1>5
    <3>2. frames[i + 1].buffer # Head(frames).buffer /\ frames[i + 1].buffer \notin held
      BY <1>5, <2>1, <3>1
    <3>3. \A j \in 1 .. n - 1 : frames'[j].buffer = frames'[i].buffer => j + 1 = i + 1
      BY <1>5, <2>1, <3>1
    <3> QED BY <1>1, <1>5, <3>1, <3>2, <3>3
  <2>4. /\ OutBuffers \subseteq extraRef
        /\ \A i, j \in Slots :
              slot[i].buffer # NoBuffer /\ i # j => slot[j].buffer # slot[i].buffer
        /\ \A i \in Slots :
              Shown(i) /\ slot[i].buffer # NoBuffer =>
                  slot[i].buffer \in extraRef /\ slot[i].buffer \notin OutBuffers
    BY <1>4 DEF BuffersApart
  <2> QED BY <1>1, <1>2, <1>5, <1>6, <2>2, <2>3, <2>4 DEF BuffersApart
<1>9. FramesInOrder'
  <2>1. \A i \in 1 .. n : frames[i].id \in Packets /\ Past(frames[i].id)
    BY <1>4 DEF FramesInOrder, n
  <2>2. ASSUME NEW i \in 1 .. n - 1
        PROVE  \E m \in Nat : m = frames'[i].id /\ m \in Packets /\ Past(m)'
    <3>1. PICK m \in Nat : m = frames'[i].id /\ m \in Packets /\ Past(m)
      BY <1>5, <2>1, PacketNumbers
    <3>2. Past(m)'
      BY <1>3, <3>1 DEF Later
    <3> QED BY <3>1, <3>2
  <2>3. \A i, j \in 1 .. n - 1 : i < j => frames'[i].id <= frames'[j].id
    <3>1. \A i, j \in 1 .. n : i < j => frames[i].id <= frames[j].id
      BY <1>4 DEF FramesInOrder, n
    <3>2. \A i, j \in 1 .. n - 1 : i < j => i + 1 < j + 1
      BY <1>5
    <3> QED BY <1>5, <3>1, <3>2
  <2> QED BY <1>2, <1>5, <2>2, <2>3 DEF FramesInOrder, Past
<1>10. FramesFirst'
  <2>1. \A i \in 1 .. n : \A j \in Slots : Shown(j) => frames[i].id <= slot[j].frame
    BY <1>4 DEF FramesFirst, n
  <2>2. halAt' \in PutSteps => \A j \in Slots : Shown(j) => halInfo'.id <= slot[j].frame
    BY <1>3, <1>4 DEF FramesFirst, HalStays
  <2> QED BY <1>2, <1>5, <1>6, <2>1, <2>2 DEF FramesFirst
<1> QED BY <1>1, <1>3, <1>7, <1>8, <1>9, <1>10 DEF FramesKept

(* A frame is given back.                                                  *)
LEMMA UserReleasesFrames ==
    ASSUME IInv, ~aborted, SlotsKept, FramesKept, UserReleases
    PROVE  FramesKept' /\ ~aborted'
<1>1. PICK b \in held : held' = held \ {b} /\ extraRef' = extraRef \ {b}
  BY DEF UserReleases
<1>2. /\ frames' = frames /\ scenario' = scenario /\ aborted' = aborted /\ userAt' = userAt
      /\ UNCHANGED groupVars /\ UNCHANGED slotVars /\ ref0' = ref0 /\ HalCalm
      /\ cur' = cur /\ ready' = ready /\ put' = put /\ packets' = packets
      /\ parserAt' = "resetDrain" <=> parserAt = "resetDrain"
  BY DEF UserReleases, ParserAfterRelease, ParserWoken, HalCalm, parserVars, halVars
<1>3. slot' = slot /\ display' = display /\ infoChanged' = infoChanged
  BY <1>2 DEF slotVars
<1>4. /\ PicturesNamed' /\ DisplayInOrder' /\ ShownInTime' /\ TasksInOrder' /\ Later
      /\ SameUse /\ HalStays
      /\ \A t \in HalTasks : Announced(t)' => Announced(t) /\ taskInfo'[t] = taskInfo[t]
  BY <1>2, <1>3, UserStep
<1>5. /\ ChangeAnnounced /\ BuffersApart /\ FramesInOrder /\ FramesFirst
  BY DEF FramesKept
<1>6. ChangeAnnounced'
  <2>1. infoChanged => Parsed'
    BY <1>4, <1>5 DEF ChangeAnnounced, SameUse
  <2> QED BY <1>2, <1>3, <1>4, <1>5, <2>1, CalmChange
<1>7. BuffersApart'
  <2>1. b \in OutBuffers /\ b \notin FrameBuffers
    BY <1>5 DEF BuffersApart, OutBuffers, FrameBuffers
  <2>2. OutBuffers' = FrameBuffers \union (held \ {b})
    BY <1>1, <1>2 DEF OutBuffers, FrameBuffers
  <2>3. OutBuffers' \subseteq OutBuffers \ {b}
    BY <2>1, <2>2 DEF OutBuffers
  <2>4. \A i : Shown(i)' <=> Shown(i)
    BY <1>4, SameUsers
  <2> QED BY <1>1, <1>2, <1>3, <1>5, <2>1, <2>3, <2>4 DEF BuffersApart
<1>8. FramesInOrder' /\ FramesFirst'
  <2>1. Packets' = Packets
    BY <1>2, SameScenario
  <2>2. ASSUME NEW i \in 1 .. Len(frames)
        PROVE  \E m \in Nat : m = frames[i].id /\ m \in Packets /\ Past(m)'
    <3>1. PICK m \in Nat : m = frames[i].id /\ m \in Packets /\ Past(m)
      BY <1>5, PacketNumbers DEF FramesInOrder
    <3>2. Past(m)'
      BY <1>4, <3>1 DEF Later
    <3> QED BY <3>1, <3>2
  <2>3. \A i, j \in 1 .. Len(frames) : i < j => frames[i].id <= frames[j].id
    BY <1>5 DEF FramesInOrder
  <2>4. FramesInOrder'
    BY <1>2, <2>1, <2>2, <2>3 DEF FramesInOrder, Past
  <2>5. \A i : Shown(i)' <=> Shown(i)
    BY <1>4, SameUsers
  <2>6. halAt' \in PutSteps => \A j \in Slots : Shown(j) => halInfo'.id <= slot[j].frame
    BY <1>4, <1>5 DEF FramesFirst, HalStays
  <2>7. FramesFirst'
    BY <1>2, <1>3, <1>5, <2>5, <2>6 DEF FramesFirst
  <2> QED BY <2>4, <2>7
<1> QED BY <1>2, <1>4, <1>6, <1>7, <1>8 DEF FramesKept

(* The slots are made ready: the change of format is over.                 *)
LEMMA UserReadiesFrames ==
    ASSUME IInv, ~aborted, SlotsKept, FramesKept, UserReadies
    PROVE  FramesKept' /\ ~aborted'
<1>1. /\ userAt = "ready" /\ userAt' = "app" /\ ~infoChanged'
      /\ frames' = frames /\ held' = held /\ extraRef' = extraRef /\ scenario' = scenario
      /\ aborted' = aborted /\ slot' = slot /\ display' = display
      /\ UNCHANGED groupVars /\ ref0' = ref0 /\ HalCalm
      /\ cur' = cur /\ ready' = ready /\ put' = put /\ packets' = packets
      /\ parserAt' = "resetDrain" <=> parserAt = "resetDrain"
  BY DEF UserReadies, SlotsReady, ParserWoken, HalCalm, outVars, parserVars, halVars
<1>2. /\ PicturesNamed' /\ DisplayInOrder' /\ ShownInTime' /\ TasksInOrder' /\ Later
      /\ SameUse /\ HalStays
      /\ \A t \in HalTasks : Announced(t)' => Announced(t) /\ taskInfo'[t] = taskInfo[t]
  BY <1>1, UserStep
<1>3. BuffersApart' /\ FramesInOrder' /\ FramesFirst'
  BY <1>1, <1>2, CalmFrames
<1>4. ChangeAnnounced'
  <2>1. /\ \A t \in HalTasks : ~Announced(t)
        /\ \A i \in 1 .. Len(frames) : frames[i].kind # "info"
    BY <1>1 DEF FramesKept, ChangeAnnounced
  <2> QED BY <1>1, <1>2, <2>1 DEF ChangeAnnounced
<1> QED BY <1>1, <1>2, <1>3, <1>4 DEF FramesKept


-----------------------------------------------------------------------------
(***************************************************************************)
(* Steps that take part of what is on its way and leave the rest alone.    *)
(***************************************************************************)
(* No change of format is pending, or it has not been announced.           *)
LEMMA NoneAnnounced ==
    ASSUME infoChanged' => Parsed', userAt' = "app",
           \A t \in HalTasks : ~Announced(t)',
           \A i \in 1 .. Len(frames') : frames'[i].kind # "info"
    PROVE  ChangeAnnounced'
BY DEF ChangeAnnounced

(* A task is sent that announces none, or none any more.                   *)
LEMMA NoneSent ==
    ASSUME NEW h \in HalTasks, NEW i, SentMore(h, i), ~i.infoChange, HalCalm
    PROVE  \A t \in HalTasks : Announced(t)' => Announced(t) /\ taskInfo'[t] = taskInfo[t]
BY DEF SentMore, Announced, HalCalm

(* The slots that are shown and their pictures.                            *)
SameFrames == \A i \in Slots : slot'[i].frame = slot[i].frame
ShownStays == \A i \in Slots : Shown(i)' => Shown(i) /\ slot'[i].frame = slot[i].frame
PutsStay   == halAt' \in PutSteps => halAt' = halAt /\ halInfo' = halInfo

LEMMA FramesStay ==
    ASSUME IInv, SlotsKept, FramesInOrder, FramesFirst, ShownStays, PutsStay, Later,
           frames' = frames, scenario' = scenario
    PROVE  FramesInOrder' /\ FramesFirst'
<1>1. FramesInOrder'
  <2>1. \A i \in 1 .. Len(frames) : frames[i].id \in Packets /\ Past(frames[i].id)
    BY DEF FramesInOrder
  <2>2. ASSUME NEW i \in 1 .. Len(frames)
        PROVE  \E n \in Nat : n = frames[i].id /\ Past(n)'
    <3>1. PICK n \in Nat : n = frames[i].id /\ Past(n)
      BY <2>1, PacketNumbers
    <3>2. Past(n)'
      BY <3>1 DEF Later
    <3> QED BY <3>1, <3>2
  <2>3. \A i, j \in 1 .. Len(frames) : i < j => frames[i].id <= frames[j].id
    BY DEF FramesInOrder
  <2>4. Packets' = Packets
    BY SameScenario
  <2> QED BY <2>1, <2>2, <2>3, <2>4 DEF FramesInOrder, Past
<1>2. FramesFirst'
  <2>1. \A i \in 1 .. Len(frames) : \A j \in Slots : Shown(j)' => frames[i].id <= slot'[j].frame
    BY DEF FramesFirst, ShownStays
  <2>2. halAt' \in PutSteps => \A j \in Slots : Shown(j)' => halInfo'.id <= slot'[j].frame
    BY DEF FramesFirst, ShownStays, PutsStay
  <2> QED BY <2>1, <2>2 DEF FramesFirst
<1> QED BY <1>1, <1>2

LEMMA DisplayStays ==
    ASSUME IInv, SlotsKept, DisplayInOrder, SameFrames, Later, PulledOn, display' = display,
           \A i \in Slots : Writer(i)' <=> Writer(i),
           "curr" \in ready' /\ "parsed" \notin ready' => "curr" \in ready /\ "parsed" \notin ready
    PROVE  DisplayInOrder'
<1>1. /\ Pulled \in Int /\ Pulled' \in Int /\ Pulled <= Pulled'
      /\ \A i \in Slots : Shown(i) => slot[i].frame \in Nat
      /\ \A i \in 1 .. Len(display) : display[i] \in Slots
  BY FrameNumbers, TaskNumbers DEF PulledOn, SlotsKept
<1>2. \A i : Shown(i)' <=> Shown(i)
  BY DEF Shown
<1>3. \A i \in Slots : Shown(i)' => slot'[i].frame <= Pulled'
  BY <1>1, <1>2 DEF DisplayInOrder, SameFrames
<1>4. ASSUME NEW i \in Slots, Shown(i)', ~Writer(i)'
      PROVE  \E n \in Nat : n = slot'[i].frame /\ Past(n)'
  <2>1. PICK n \in Nat : n = slot[i].frame /\ Past(n)
    BY <1>1, <1>2, <1>4 DEF DisplayInOrder
  <2>2. Past(n)'
    BY <2>1 DEF Later
  <2> QED BY <2>1, <2>2 DEF SameFrames
<1>5. "curr" \in ready' /\ "parsed" \notin ready' =>
         \A i \in Slots : Shown(i)' => slot'[i].frame < Pulled'
  BY <1>1, <1>2 DEF DisplayInOrder, SameFrames
<1>6. \A i, j \in 1 .. Len(display') :
         i < j => slot'[display'[i]].frame < slot'[display'[j]].frame
  BY <1>1 DEF DisplayInOrder, SameFrames
<1> QED BY <1>3, <1>4, <1>5, <1>6 DEF DisplayInOrder, Past

(* A step that sends a task and leaves the slots alone.                    *)
LEMMA SentStep ==
    ASSUME IInv, SlotsKept, FramesKept, NEW h \in HalTasks, NEW i, SentMore(h, i), HalCalm,
           SameUse, i.id = Pulled', PulledOn, InOrder,
           frames' = frames, held' = held, extraRef' = extraRef, scenario' = scenario,
           "curr" \in ready' /\ "parsed" \notin ready' => "curr" \in ready /\ "parsed" \notin ready
    PROVE  /\ BuffersApart' /\ PicturesNamed' /\ TasksInOrder' /\ FramesInOrder'
           /\ DisplayInOrder' /\ FramesFirst' /\ ShownInTime'
<1>1. HalStays /\ HalGoesOn
  BY CalmHal
<1>2. TasksInOrder' /\ Later
  BY <1>1, SentOneMore DEF FramesKept
<1>3. PicturesNamed' /\ DisplayInOrder' /\ ShownInTime'
  BY <1>1, <1>2, CalmSlots
<1>4. BuffersApart' /\ FramesInOrder' /\ FramesFirst'
  BY <1>1, <1>2, CalmFrames
<1> QED BY <1>2, <1>3, <1>4

(* The head of the packet queue is the next packet.                        *)
LEMMA NextPulled ==
    ASSUME IInv, PacketOrder, packets # <<>>, packets' = Tail(packets), put' = put
    PROVE  /\ Pulled' = Pulled + 1 /\ Head(packets) = Pulled' /\ PulledOn
           /\ Head(packets) \in Packets
<1>1. packets \in Seq(Packets) /\ put \in Nat
  BY PacketNumbers
<1>2. /\ Len(packets) \in Nat \ {0} /\ Head(packets) = packets[1]
      /\ Len(Tail(packets)) = Len(packets) - 1 /\ Head(packets) \in Packets
  BY <1>1, HeadTailProperties, EmptySeq, LenProperties, ElementOfSeq
<1>3. packets[1] = Pulled + 1
  BY <1>2 DEF PacketOrder
<1> QED BY <1>1, <1>2, <1>3 DEF Pulled, PulledOn

-----------------------------------------------------------------------------
(***************************************************************************)
(* The parser thread.                                                      *)
(***************************************************************************)
(* The end of the stream is sent.                                          *)
LEMMA PullEosFrames ==
    ASSUME IInv, ~aborted, SlotsKept, FramesKept, PullEos
    PROVE  FramesKept' /\ ~aborted'
<1>1. /\ ThreadTypes /\ TasksInHand /\ StatusBits /\ PictureInHand /\ PacketOrder
      /\ ChangeAnnounced
  BY TypeParts DEF IInv, SlotsKept, FramesKept
<1>2. PICK h \in HalTasks : h = hnd /\ taskStatus[h] = "IDLE"
  BY <1>1 DEF PullEos, TasksInHand, HndSteps, ThreadTypes
<1>3. /\ slot' = slot /\ display' = display /\ ref0' = ref0 /\ infoChanged' = infoChanged
      /\ frames' = frames /\ held' = held /\ extraRef' = extraRef /\ scenario' = scenario
      /\ userAt' = userAt /\ aborted' = aborted /\ ready' = ready
      /\ "curr" \notin ready /\ "parsed" \notin ready /\ "infoGen" \notin ready
  BY <1>1 DEF PullEos, StatusBits, userVars, outVars, slotVars
<1>4. Pulled' = Pulled + 1 /\ Head(packets) = Pulled' /\ PulledOn /\ Head(packets) \in Packets
  BY <1>1, NextPulled DEF PullEos, userVars
<1>5. PICK i \in Infos : i = cur' /\ i.id = Pulled' /\ ~i.infoChange /\ ~i.valid
  <2>1. cur \in Infos /\ cur' = [cur EXCEPT !.id = Head(packets), !.valid = FALSE, !.eos = TRUE]
    BY <1>1 DEF PullEos, ThreadTypes
  <2>2. ~cur.infoChange
    BY <1>1, <1>3 DEF PictureInHand
  <2>3. cur' \in Infos /\ cur'.id = Head(packets) /\ ~cur'.infoChange /\ ~cur'.valid
    BY <1>4, <2>1, <2>2 DEF Infos
  <2> QED BY <1>4, <2>3
<1>6. Send(i)
  BY <1>5 DEF PullEos
<1>7. SentMore(h, i) /\ HalCalm
  <2>1. /\ SentMore(h, i)
        /\ halTask' = halTask /\ halInfo' = halInfo /\ halAt' = HalWoken
    BY <1>2, <1>6, SendOne
  <2> QED BY <2>1 DEF HalCalm, HalWoken
<1>8. SameUse
  <2>1. SameHardware /\ halInfo' = halInfo /\ (halAt' = "slots" <=> halAt = "slots")
    BY <1>2, <1>3, <1>5, <1>6, SentElsewhere, Zenon
  <2>2. ~Parsed /\ ~Parsed'
    BY <1>3 DEF Parsed
  <2> QED BY <1>3, <2>1, <2>2 DEF SameUse, SameHardware
<1>9. /\ BuffersApart' /\ PicturesNamed' /\ TasksInOrder' /\ FramesInOrder'
      /\ DisplayInOrder' /\ FramesFirst' /\ ShownInTime'
  <2>1. InOrder
    BY <1>3 DEF InOrder
  <2> QED BY <1>3, <1>4, <1>5, <1>7, <1>8, <2>1, SentStep
<1>10. ChangeAnnounced'
  <2>1. /\ \A t \in HalTasks : ~Announced(t)
        /\ \A k \in 1 .. Len(frames) : frames[k].kind # "info"
        /\ userAt = "app" /\ ~infoChanged
    BY <1>1, <1>3, NoChange DEF ChangeAnnounced, Parsed
  <2>2. \A t \in HalTasks : ~Announced(t)'
    BY <1>5, <1>7, <2>1, NoneSent
  <2> QED BY <1>3, <2>1, <2>2, NoneAnnounced
<1> QED BY <1>3, <1>9, <1>10 DEF FramesKept

(* A packet slot is free: at most one picture is in the hardware, and the  *)
(* parser has the other task.                                              *)
LEMMA PacketSlotFree ==
    ASSUME IInv, NEW h \in HalTasks, taskStatus[h] = "IDLE", "copied" \notin ready
    PROVE  FreePacketSlots # {}
<1>1. PacketSlotsOwned /\ OneInFlight
  BY DEF IInv, PacketSlotsKept
<1>2. SUFFICES ASSUME HalTasks \subseteq packetSlots
               PROVE  FALSE
  BY DEF FreePacketSlots
<1>3. \A i \in HalTasks : \E t \in HalTasks : InHardware(t) /\ taskInfo[t].input = i
  BY <1>1, <1>2 DEF PacketSlotsOwned
<1>4. PICK t \in HalTasks : InHardware(t) /\ taskInfo[t].input = h
  BY <1>3
<1>5. \A u \in HalTasks : InHardware(u) => u = t
  BY <1>1, <1>4 DEF OneInFlight, InFlight
<1>6. t # h
  BY <1>4 DEF InHardware
<1> QED BY <1>3, <1>4, <1>5, <1>6

(* A picture is copied into a packet slot.                                 *)
LEMMA PullPictureFrames ==
    ASSUME IInv, ~aborted, SlotsKept, FramesKept, PullPicture
    PROVE  FramesKept' /\ ~aborted'
<1>1. /\ ThreadTypes /\ TasksInHand /\ StatusBits /\ PictureInHand /\ PacketOrder
      /\ ChangeAnnounced
  BY TypeParts DEF IInv, SlotsKept, FramesKept
<1>2. PICK h \in HalTasks : h = hnd /\ taskStatus[h] = "IDLE"
  BY <1>1 DEF PullPicture, TasksInHand, HndSteps, ThreadTypes
<1>3. /\ "curr" \notin ready /\ "parsed" \notin ready /\ "infoGen" \notin ready
      /\ "copied" \notin ready /\ ready' = ready \union {"curr", "copied"}
      /\ frames' = frames /\ held' = held /\ extraRef' = extraRef /\ scenario' = scenario
      /\ userAt' = userAt /\ UNCHANGED groupVars /\ UNCHANGED slotVars /\ HalCalm
      /\ ref0' = ref0
  BY <1>1 DEF PullPicture, StatusBits, userVars, outVars, halVars, HalCalm
<1>4. Pulled' = Pulled + 1 /\ Head(packets) = Pulled' /\ PulledOn
  BY <1>1, NextPulled DEF PullPicture, userVars
<1>5. aborted' = aborted /\ cur'.id = Pulled'
  <2>1. FreePacketSlots # {}
    BY <1>2, <1>3, PacketSlotFree
  <2>2. aborted' = aborted /\ cur' = [cur EXCEPT !.id = Head(packets), !.valid = TRUE,
                                       !.input = cur'.input, !.eos = cur'.eos]
    <3>1. cur \in Infos
      BY <1>1 DEF ThreadTypes
    <3> QED BY <2>1, <3>1 DEF PullPicture, Infos
  <2> QED BY <1>1, <1>4, <2>2 DEF ThreadTypes, Infos
<1>6. SameUse
  <2>1. ~Parsed /\ ~Parsed'
    BY <1>3 DEF Parsed
  <2>2. /\ slot' = slot /\ display' = display /\ ref0' = ref0 /\ taskInfo' = taskInfo
        /\ halInfo' = halInfo
        /\ halAt' = "slots" <=> halAt = "slots"
    BY <1>3 DEF slotVars, groupVars, HalCalm
  <2> QED BY <1>3, <2>1, <2>2, GroupSame DEF SameUse
<1>7. HalStays /\ HalGoesOn /\ SameSent /\ InOrder
  BY <1>3, <1>5, CalmHal DEF SameSent, Sent, groupVars, InOrder
<1>8. TasksInOrder' /\ Later
  BY <1>4, <1>7, SentSame DEF FramesKept
<1>9. PicturesNamed' /\ DisplayInOrder' /\ ShownInTime'
  BY <1>4, <1>6, <1>7, <1>8, CalmSlots
<1>10. BuffersApart' /\ FramesInOrder' /\ FramesFirst'
  BY <1>3, <1>6, <1>7, <1>8, CalmFrames
<1>11. ChangeAnnounced'
  <2>1. /\ \A t \in HalTasks : ~Announced(t)
        /\ \A k \in 1 .. Len(frames) : frames[k].kind # "info"
        /\ userAt = "app" /\ ~infoChanged
    BY <1>1, <1>3, NoChange DEF ChangeAnnounced, Parsed
  <2>2. \A t \in HalTasks : ~Announced(t)'
    BY <1>3, <1>7, <2>1, CalmAnnounced
  <2>3. infoChanged' = infoChanged
    BY <1>3 DEF slotVars
  <2> QED BY <1>3, <2>1, <2>2, <2>3, NoneAnnounced
<1> QED BY <1>5, <1>8, <1>9, <1>10, <1>11 DEF FramesKept

(* A change of format is announced.                                        *)
LEMMA ParserAnnouncesChangeFrames ==
    ASSUME IInv, ~aborted, SlotsKept, FramesKept, ParserAnnouncesChange
    PROVE  FramesKept' /\ ~aborted'
<1>1. /\ ThreadTypes /\ TasksInHand /\ StatusBits /\ PictureInHand /\ PacketOrder
      /\ ChangeAnnounced
  BY TypeParts DEF IInv, SlotsKept, FramesKept
<1>2. PICK h \in HalTasks : h = hnd /\ taskStatus[h] = "IDLE"
  BY <1>1 DEF ParserAnnouncesChange, TasksInHand, HndSteps, ThreadTypes
<1>3. /\ slot' = slot /\ display' = display /\ ref0' = ref0 /\ infoChanged' = infoChanged
      /\ frames' = frames /\ held' = held /\ extraRef' = extraRef /\ scenario' = scenario
      /\ userAt' = userAt /\ put' = put /\ packets' = packets /\ aborted' = aborted
      /\ infoChanged /\ "infoGen" \notin ready /\ ready' = ready \union {"infoGen"}
      /\ "curr" \in ready /\ parserAt = "change" /\ parserAt' = "top"
  BY <1>1 DEF ParserAnnouncesChange, StatusBits, PictureSteps, userVars, outVars, slotVars
<1>4. PICK i \in Infos : /\ i = cur' /\ i.infoChange /\ i.id = cur.id
                          /\ i.output = cur.output /\ i.refer = cur.refer
  <2>1. cur \in Infos /\ cur' = [cur EXCEPT !.infoChange = TRUE]
    BY <1>1 DEF ParserAnnouncesChange, ThreadTypes
  <2>2. /\ cur' \in Infos /\ cur'.infoChange /\ cur'.id = cur.id
        /\ cur'.output = cur.output /\ cur'.refer = cur.refer
    BY <2>1 DEF Infos
  <2> QED BY <2>2
<1>5. Send(i)
  BY <1>4 DEF ParserAnnouncesChange
<1>6. SentMore(h, i) /\ HalCalm
  <2>1. /\ SentMore(h, i)
        /\ halTask' = halTask /\ halInfo' = halInfo /\ halAt' = HalWoken
    BY <1>2, <1>5, SendOne
  <2> QED BY <2>1 DEF HalCalm, HalWoken
<1>7. SameUse
  <2>1. SameHardware /\ halInfo' = halInfo /\ (halAt' = "slots" <=> halAt = "slots")
    BY <1>2, <1>3, <1>4, <1>5, SentElsewhere, Zenon
  <2>2. Parsed' <=> Parsed
    BY <1>3, <1>4 DEF Parsed
  <2> QED BY <1>3, <1>4, <2>1, <2>2 DEF SameUse, SameHardware
<1>8. /\ BuffersApart' /\ PicturesNamed' /\ TasksInOrder' /\ FramesInOrder'
      /\ DisplayInOrder' /\ FramesFirst' /\ ShownInTime'
  <2>1. Pulled' = Pulled /\ PulledOn
    BY <1>3 DEF Pulled, PulledOn
  <2>2. i.id = Pulled' /\ InOrder
    BY <1>3, <1>4, <2>1 DEF InOrder, FramesKept, TasksInOrder
  <2> QED BY <1>3, <1>6, <1>7, <2>1, <2>2, SentStep
<1>9. ChangeAnnounced'
  <2>1. /\ \A t \in HalTasks : ~Announced(t)
        /\ \A k \in 1 .. Len(frames) : frames[k].kind # "info"
        /\ userAt = "app" /\ Parsed
    BY <1>1, <1>3, NoChange DEF ChangeAnnounced
  <2>2. \A t \in HalTasks : Announced(t)' => t = h /\ taskInfo'[t] = i
    BY <1>6, <2>1 DEF SentMore, Announced, HalCalm
  <2>3. infoChanged' /\ Parsed' /\ userAt' = "app" /\ "infoGen" \in ready'
    BY <1>3, <1>7, <2>1 DEF SameUse
  <2>4. \A t \in HalTasks :
           Announced(t)' =>
               /\ taskInfo'[t].output = cur'.output /\ taskInfo'[t].id = cur'.id
               /\ \A u \in HalTasks : Announced(u)' => u = t
    BY <1>4, <2>2
  <2> QED BY <1>3, <2>1, <2>3, <2>4 DEF ChangeAnnounced
<1> QED BY <1>3, <1>8, <1>9 DEF FramesKept

(* A picture without slot is dropped.                                      *)
LEMMA ParserDropsFrames ==
    ASSUME IInv, ~aborted, SlotsKept, FramesKept, ParserDrops
    PROVE  FramesKept' /\ ~aborted'
<1>1. /\ ThreadTypes /\ TasksInHand /\ StatusBits /\ PictureInHand /\ PacketOrder
      /\ ChangeAnnounced /\ TasksInOrder
  BY TypeParts DEF IInv, SlotsKept, FramesKept
<1>2. PICK h \in HalTasks : h = hnd /\ taskStatus[h] = "IDLE"
  BY <1>1 DEF ParserDrops, TasksInHand, HndSteps, ThreadTypes
<1>3. /\ slot' = slot /\ display' = display /\ ref0' = ref0 /\ infoChanged' = infoChanged
      /\ frames' = frames /\ held' = held /\ extraRef' = extraRef /\ scenario' = scenario
      /\ userAt' = userAt /\ put' = put /\ packets' = packets /\ aborted' = aborted
      /\ ~infoChanged /\ "curr" \in ready /\ "curr" \notin ready' /\ cur.output = NoSlot
      /\ "parsed" \notin ready'
  BY <1>1 DEF ParserDrops, StatusBits, PictureSteps, userVars, outVars, slotVars
<1>4. PICK i \in Infos : /\ i = [cur EXCEPT !.infoChange = FALSE]
                          /\ ~i.valid /\ ~i.infoChange /\ i.id = Pulled
  <2>1. "parsed" \in ready /\ ~cur.valid /\ cur \in Infos /\ cur.id = Pulled
    BY <1>1, <1>3 DEF ParserDrops, StatusBits, PictureInHand, ThreadTypes, TasksInOrder
  <2> DEFINE c == [cur EXCEPT !.infoChange = FALSE]
  <2>2. c \in Infos /\ ~c.valid /\ ~c.infoChange /\ c.id = Pulled
    BY <2>1 DEF Infos
  <2> QED BY <2>2
<1>5. Pulled' = Pulled /\ PulledOn /\ InOrder
  BY <1>3 DEF Pulled, PulledOn, InOrder
<1>6. ~Parsed /\ ~Parsed'
  BY <1>3 DEF Parsed
<1>7. /\ \A t \in HalTasks : ~Announced(t)
      /\ \A k \in 1 .. Len(frames) : frames[k].kind # "info"
      /\ userAt = "app"
  BY <1>1, <1>3, NoChange
<1>8. CASE Send(i)
  <2>1. SentMore(h, i) /\ HalCalm
    <3>1. /\ SentMore(h, i)
          /\ halTask' = halTask /\ halInfo' = halInfo /\ halAt' = HalWoken
      BY <1>2, <1>8, SendOne
    <3> QED BY <3>1 DEF HalCalm, HalWoken
  <2>2. SameUse
    <3>1. SameHardware /\ halInfo' = halInfo /\ (halAt' = "slots" <=> halAt = "slots")
      BY <1>2, <1>3, <1>4, <1>8, SentElsewhere, Zenon
    <3> QED BY <1>3, <1>6, <3>1 DEF SameUse, SameHardware
  <2>3. /\ BuffersApart' /\ PicturesNamed' /\ TasksInOrder' /\ FramesInOrder'
        /\ DisplayInOrder' /\ FramesFirst' /\ ShownInTime'
    BY <1>3, <1>4, <1>5, <2>1, <2>2, SentStep
  <2>4. ChangeAnnounced'
    <3>1. \A t \in HalTasks : ~Announced(t)'
      BY <1>4, <1>7, <2>1, NoneSent
    <3> QED BY <1>3, <1>7, <3>1, NoneAnnounced
  <2> QED BY <1>3, <2>3, <2>4 DEF FramesKept
<1>9. CASE SetStatus(h, "IDLE") /\ UNCHANGED <<taskInfo, halVars>>
  <2>1. SameSent /\ HalCalm
    <3>1. ~Sent(h) /\ taskInfo' = taskInfo /\ SetStatus(h, "IDLE")
      BY <1>2, <1>9 DEF Sent
    <3> QED BY <1>9, <3>1, IdleOne DEF HalTaskStatuses, HalCalm, halVars
  <2>2. SameUse
    <3>1. SameHardware
      BY <1>2, <1>9, IdledElsewhere, TaskNumbers DEF InHardware
    <3> QED BY <1>3, <1>6, <1>9, <3>1 DEF SameUse, SameHardware, halVars
  <2>3. HalStays /\ HalGoesOn
    BY <2>1, CalmHal
  <2>4. TasksInOrder' /\ Later
    BY <1>1, <1>5, <2>1, <2>3, SentSame
  <2>5. PicturesNamed' /\ DisplayInOrder' /\ ShownInTime'
    BY <1>3, <1>5, <2>2, <2>3, <2>4, CalmSlots
  <2>6. BuffersApart' /\ FramesInOrder' /\ FramesFirst'
    BY <1>3, <2>2, <2>3, <2>4, CalmFrames
  <2>7. ChangeAnnounced'
    <3>1. \A t \in HalTasks : ~Announced(t)'
      BY <1>7, <2>1, CalmAnnounced
    <3> QED BY <1>3, <1>7, <3>1, NoneAnnounced
  <2> QED BY <1>3, <2>4, <2>5, <2>6, <2>7 DEF FramesKept
<1> QED BY <1>2, <1>4, <1>8, <1>9 DEF ParserDrops

(* A picture goes to the hardware, in a buffer that is nobody's.           *)
LEMMA ParserSubmitsFrames ==
    ASSUME IInv, ~aborted, SlotsKept, FramesKept, ParserSubmits
    PROVE  FramesKept' /\ ~aborted'
<1>1. /\ SlotsFlagged /\ WritersApart /\ References /\ PacketOrder
      /\ slot \in [Slots -> SlotEntries]
      /\ Lists /\ TasksInHand /\ StatusBits /\ PictureInHand /\ OneInFlight /\ ThreadTypes
      /\ ChangeAnnounced /\ BuffersApart /\ PicturesNamed /\ TasksInOrder
  BY UseFacts, TypeParts DEF SlotsKept, IInv, FramesKept
<1>2. /\ parserAt = "submit" /\ parserAt' = "top" /\ aborted' = aborted
      /\ display' = display /\ ref0' = ref0 /\ put' = put /\ packets' = packets
      /\ scenario' = scenario /\ frames' = frames /\ held' = held /\ infoChanged' = infoChanged
      /\ userAt' = userAt /\ info' = info /\ infoSet' = infoSet
  BY DEF ParserSubmits, userVars
<1>3. CASE FreeBuffers = {}
  <2>1. /\ UNCHANGED <<cur, ready, slot, extraRef, halVars, groupVars>>
    BY <1>3 DEF ParserSubmits
  <2>2. Quiet
    BY <1>2, <2>1 DEF Quiet, HalCalm, slotVars, halVars, Pulled
  <2> QED BY <1>2, <2>2, QuietKeeps
<1>4. CASE FreeBuffers # {}
  <2>1. PICK h \in HalTasks : h = hnd /\ taskStatus[h] = "IDLE"
    BY <1>1, <1>2 DEF TasksInHand, HndSteps, ThreadTypes
  <2>2. PICK i \in Infos, out \in Slots :
           /\ i = cur /\ out = cur.output /\ i.output = out
           /\ i.valid /\ ~i.infoChange /\ i.id = Pulled
           /\ ~infoChanged /\ Parsed
    <3>1. /\ "curr" \in ready /\ "parsed" \in ready /\ "infoGen" \notin ready
          /\ ~infoChanged /\ cur.output # NoSlot /\ cur.valid /\ ~cur.infoChange
          /\ cur \in Infos /\ cur.id = Pulled
      BY <1>1, <1>2 DEF ThreadTypes, StatusBits, PictureSteps, PictureInHand, TasksInOrder
    <3>2. cur.output \in Slots /\ Parsed
      BY <1>2, <3>1 DEF Infos, Parsed
    <3> QED BY <3>1, <3>2
  <2>3. PICK b : /\ b \in FreeBuffers /\ slot' = [slot EXCEPT ![out].buffer = b]
                 /\ extraRef' = extraRef \union {b}
    BY <1>4, <2>2 DEF ParserSubmits
  <2>4. /\ b # NoBuffer /\ b \notin extraRef
        /\ \A j \in Slots : slot[j].buffer # b
    <3>1. FreeBuffers \subseteq Nat \X Nat
      BY TypeParts, StreamTypes DEF FreeBuffers, Committed, IInv, Commits, UserTypes
    <3>2. b # NoBuffer
      BY <2>3, <3>1, NamesAssumption
    <3> QED BY <2>3, <3>2 DEF FreeBuffers, InUse
  <2>5. Send(i) /\ ready' = ready \ {"copied", "curr", "parsed", "prev"}
    BY <1>4, <2>2 DEF ParserSubmits
  <2>6. SentMore(h, i) /\ HalCalm
    <3>1. /\ SentMore(h, i)
          /\ halTask' = halTask /\ halInfo' = halInfo /\ halAt' = HalWoken
      BY <2>1, <2>5, SendOne
    <3> QED BY <3>1 DEF HalCalm, HalWoken
  <2>7. /\ InHardware(h)' /\ taskInfo'[h] = i
        /\ \A t \in HalTasks : ~InHardware(t)
        /\ \A t \in HalTasks \ {h} : ~InHardware(t)'
    <3>1. \A t \in HalTasks : ~InHardware(t)
      BY <1>1, <1>2 DEF StatusBits, AloneSteps, OneInFlight, InFlight
    <3>2. /\ taskInfo'[h] = i /\ Sent(h)'
          /\ \A t \in HalTasks \ {h} : (Sent(t)' <=> Sent(t)) /\ taskInfo'[t] = taskInfo[t]
      BY <2>6 DEF SentMore
    <3> QED BY <2>2, <3>1, <3>2 DEF InHardware, Sent
  <2>8. ~Parsed'
    BY <2>5 DEF Parsed
  <2>9. \A j : (Writer(j)' <=> Writer(j)) /\ (Shown(j)' <=> Shown(j))
    <3>1. \A j : (NewWriter(j) <=> j = out) /\ (NewWriter(j)' <=> j = out)
      BY <2>2, <2>7, <2>8 DEF NewWriter
    <3>2. \A j : LateWriter(j)' <=> LateWriter(j)
      BY <2>6 DEF HalCalm, LateWriter
    <3> QED BY <1>2, <3>1, <3>2 DEF Writer, Shown
  <2>10. /\ \A j \in Slots \ {out} : slot'[j] = slot[j]
         /\ slot'[out].buffer = b /\ slot'[out].frame = slot[out].frame
         /\ SameFrames
    <3>1. \A j \in Slots \ {out} : slot'[j] = slot[j]
      BY <1>1, <2>3
    <3>2. slot'[out] = [slot[out] EXCEPT !.buffer = b] /\ slot[out] \in SlotEntries
      BY <1>1, <2>3
    <3>3. slot'[out].buffer = b /\ slot'[out].frame = slot[out].frame
      BY <3>2 DEF SlotEntries
    <3> QED BY <3>1, <3>3 DEF SameFrames
  <2>11. Pulled' = Pulled /\ PulledOn /\ InOrder
    BY <1>2, <2>5 DEF Pulled, PulledOn, InOrder
  <2>12. HalStays /\ HalGoesOn
    BY <2>6, CalmHal
  <2>13. TasksInOrder' /\ Later
    BY <1>1, <2>2, <2>6, <2>11, <2>12, SentOneMore
  <2>14. FramesInOrder' /\ FramesFirst'
    <3>1. ShownStays /\ PutsStay
      BY <2>9, <2>10, <2>12 DEF ShownStays, SameFrames, PutsStay, HalStays
    <3> QED BY <1>2, <2>13, <3>1, FramesStay DEF FramesKept
  <2>15. DisplayInOrder'
    <3>1. "curr" \notin ready'
      BY <2>5
    <3> QED BY <1>2, <2>9, <2>10, <2>11, <2>13, <3>1, DisplayStays DEF FramesKept
  <2>16. ChangeAnnounced'
    <3>1. /\ \A t \in HalTasks : ~Announced(t)
          /\ \A k \in 1 .. Len(frames) : frames[k].kind # "info"
          /\ userAt = "app"
      BY <1>1, <2>2, NoChange
    <3>2. \A t \in HalTasks : ~Announced(t)'
      BY <2>2, <2>6, <3>1, NoneSent
    <3> QED BY <1>2, <2>2, <3>1, <3>2, NoneAnnounced
  <2>17. BuffersApart'
    <3>1. OutBuffers' = OutBuffers /\ OutBuffers \subseteq extraRef
      BY <1>1, <1>2 DEF OutBuffers, FrameBuffers, BuffersApart
    <3>2. \A j, k \in Slots :
             slot'[j].buffer # NoBuffer /\ j # k => slot'[k].buffer # slot'[j].buffer
      BY <1>1, <2>4, <2>10 DEF BuffersApart
    <3>3. \A j \in Slots :
             Shown(j) /\ slot'[j].buffer # NoBuffer =>
                 slot'[j].buffer \in extraRef' /\ slot'[j].buffer \notin OutBuffers
      BY <1>1, <2>3, <2>4, <2>10, <3>1 DEF BuffersApart
    <3> QED BY <1>1, <1>2, <2>3, <2>9, <3>1, <3>2, <3>3 DEF BuffersApart
  <2>18. PicturesNamed'
    <3>1. slot[out].frame = i.id
      BY <1>1, <2>2 DEF PicturesNamed
    <3>2. halAt' = "slots" => slot'[halInfo'.output].frame = halInfo'.id
      <4>1. halAt' = "slots" => halAt = "slots" /\ halInfo' = halInfo
        BY <2>6 DEF HalCalm
      <4>2. halAt = "slots" => halInfo.output \in Slots
        BY <1>1 DEF WritersApart, ThreadTypes, Infos
      <4> QED BY <1>1, <2>10, <4>1, <4>2 DEF PicturesNamed, SameFrames
    <3> QED BY <2>2, <2>7, <2>8, <2>10, <3>1, <3>2 DEF PicturesNamed
  <2>19. ShownInTime'
    <3>1. out = ref0
      BY <1>1, <2>2 DEF WritersApart
    <3>2. \A j \in Slots : Shown(j)' /\ ~Writer(j)' => halAt' = "display" /\ j = halInfo'.output
      BY <2>6, <2>9 DEF FramesKept, ShownInTime, HalCalm
    <3>3. \A j \in Slots : Writer(j)' => Shown(j)'
      BY <2>9 DEF FramesKept, ShownInTime
    <3> QED BY <1>2, <2>2, <2>7, <3>1, <3>2, <3>3 DEF ShownInTime
  <2> QED BY <1>2, <2>13, <2>14, <2>15, <2>16, <2>17, <2>18, <2>19 DEF FramesKept
<1> QED BY <1>3, <1>4

-----------------------------------------------------------------------------
(***************************************************************************)
(* The HAL thread.                                                         *)
(***************************************************************************)
(* It takes the first task in processing: what is past is before it.       *)
LEMMA HalGetsFrames ==
    ASSUME IInv, ~aborted, SlotsKept, FramesKept, HalGets
    PROVE  FramesKept' /\ ~aborted'
<1>1. /\ halAt = "get" /\ halAt' \in {"asleep", "infoDisplay", "eosDisplay", "hw"}
      /\ frames' = frames /\ held' = held /\ extraRef' = extraRef /\ scenario' = scenario
      /\ userAt' = userAt /\ aborted' = aborted /\ UNCHANGED groupVars /\ UNCHANGED slotVars
      /\ ref0' = ref0 /\ cur' = cur /\ ready' = ready /\ put' = put /\ packets' = packets
      /\ parserAt' = parserAt
  BY DEF HalGets, userVars, outVars, parserVars
<1>2. /\ slot' = slot /\ display' = display /\ infoChanged' = infoChanged
      /\ taskList' = taskList /\ taskStatus' = taskStatus /\ taskInfo' = taskInfo
      /\ Pulled' = Pulled
  BY <1>1 DEF slotVars, groupVars, Pulled
<1>3. /\ ChangeAnnounced /\ TasksInOrder
      /\ \A t \in HalTasks : taskInfo[t].id \in Nat
      /\ Pulled \in Int
  BY TaskNumbers DEF FramesKept
<1>4. \A t \in HalTasks : Sent(t)' <=> Sent(t)
  BY <1>2 DEF Sent
<1>5. Working' =>
         \E t \in HalTasks : /\ Sent(t) /\ halInfo' = taskInfo[t]
                             /\ \A u \in HalTasks : Sent(u) => taskInfo[t].id <= taskInfo[u].id
  <2>1. SUFFICES ASSUME Working'
                 PROVE  \E t \in HalTasks :
                           /\ Sent(t) /\ halInfo' = taskInfo[t]
                           /\ \A u \in HalTasks : Sent(u) => taskInfo[t].id <= taskInfo[u].id
    OBVIOUS
  <2>2. PICK q : q = taskList["PROCESSING"]
    OBVIOUS
  <2>3. halTask' # NoTask /\ halTask' = HndIn("PROCESSING") /\ halInfo' = taskInfo[halTask']
    BY <2>1 DEF HalGets, Working
  <2>4. q # <<>> /\ halTask' = Head(q)
    BY <2>2, <2>3 DEF HndIn, NoneIn
  <2>5. /\ q \in Seq(HalTasks) /\ Len(q) \in Nat
        /\ \A k \in 1 .. Len(q) : q[k] \in HalTasks /\ Sent(q[k])
        /\ \A t \in HalTasks : Sent(t) => \E k \in 1 .. Len(q) : q[k] = t
    BY <2>2, SentListed, TaskNumbers, Zenon
  <2>6. Len(q) \in Nat \ {0} /\ Head(q) = q[1] /\ 1 \in 1 .. Len(q)
    BY <2>4, <2>5, TailOf
  <2>7. PICK t \in HalTasks : t = q[1] /\ Sent(t) /\ halInfo' = taskInfo[t]
    BY <2>3, <2>4, <2>5, <2>6
  <2>8. \A i, j \in 1 .. Len(q) : i < j => taskInfo[q[i]].id <= taskInfo[q[j]].id
    BY <1>3, <2>2 DEF TasksInOrder, Ordered
  <2>9. ASSUME NEW u \in HalTasks, Sent(u)
        PROVE  taskInfo[t].id <= taskInfo[u].id
    <3>1. PICK k \in 1 .. Len(q) : q[k] = u
      BY <2>5, <2>9
    <3>2. CASE k = 1
      BY <1>3, <2>7, <3>1, <3>2
    <3>3. CASE k # 1
      <4>1. 1 < k
        BY <2>6, <3>3
      <4> QED BY <2>6, <2>7, <2>8, <3>1, <4>1
    <3> QED BY <3>2, <3>3
  <2> QED BY <2>7, <2>9
<1>6. TasksInOrder'
  <2>1. Ordered(taskList["PROCESSING"])'
    BY <1>2, <1>3 DEF TasksInOrder, Ordered
  <2>2. \A t \in HalTasks : Sent(t) => taskInfo[t].id <= Pulled
    BY <1>3 DEF TasksInOrder
  <2>3. Working' => /\ halInfo'.id <= Pulled
                    /\ \A t \in HalTasks : Sent(t) => halInfo'.id <= taskInfo[t].id
    BY <1>5, <2>2
  <2> QED BY <1>1, <1>2, <1>3, <1>4, <2>1, <2>2, <2>3 DEF TasksInOrder
<1>7. Later
  <2> SUFFICES ASSUME NEW n \in Nat, Past(n)
               PROVE  Past(n)'
    BY DEF Later
  <2>1. n <= Pulled /\ \A t \in HalTasks : Sent(t) => n <= taskInfo[t].id
    BY DEF Past
  <2>2. Working' => n <= halInfo'.id
    BY <1>5, <2>1
  <2> QED BY <1>2, <1>4, <2>1, <2>2 DEF Past
<1>8. HalStays
  BY <1>1 DEF HalStays, PutSteps
<1>9. SameUse
  <2>1. Parsed' <=> Parsed
    BY <1>1 DEF Parsed
  <2> QED BY <1>1, <1>2, <2>1, GroupSame DEF SameUse
<1>10. PicturesNamed' /\ DisplayInOrder' /\ ShownInTime'
  BY <1>1, <1>2, <1>7, <1>8, <1>9, CalmSlots DEF PulledOn
<1>11. BuffersApart' /\ FramesInOrder' /\ FramesFirst'
  BY <1>1, <1>7, <1>8, <1>9, CalmFrames
<1>12. ChangeAnnounced'
  <2>1. infoChanged => Parsed'
    BY <1>3, <1>9 DEF ChangeAnnounced, SameUse
  <2>2. \A t \in HalTasks : Announced(t)' => Announced(t) /\ taskInfo'[t] = taskInfo[t]
    BY <1>1, <1>2, <1>4 DEF Announced
  <2> QED BY <1>1, <1>2, <1>3, <2>1, <2>2, CalmChange
<1> QED BY <1>1, <1>6, <1>10, <1>11, <1>12 DEF FramesKept

(* No finished picture is left to push: those in the queue are written, or *)
(* will be, for tasks that come after this one.                            *)
LEMMA AllWritten ==
    ASSUME IInv, SlotsKept, FramesKept, ~DisplayReady, Working, halAt # "slots"
    PROVE  \A i \in Slots : Shown(i) => NewWriter(i) /\ halInfo.id <= slot[i].frame
<1>1. /\ SlotsFlagged /\ PicturesNamed /\ TasksInOrder /\ DisplayInOrder /\ ShownInTime
      /\ StatusBits
  BY DEF SlotsKept, FramesKept, IInv
<1>2. /\ \A i \in 1 .. Len(display) : display[i] \in Slots /\ Shown(display[i])
      /\ \A i : Shown(i) => i \in Slots /\ \E k \in 1 .. Len(display) : display[k] = i
      /\ \A i \in Slots : Shown(i) => slot[i].frame \in Nat
      /\ display \in Seq(Slots)
  BY <1>1, FrameNumbers
<1>3. /\ Pulled \in Int /\ halInfo.id \in Nat /\ cur.id \in Nat
      /\ \A t \in HalTasks : taskInfo[t].id \in Nat
  BY TaskNumbers
<1>4. Parsed => slot[cur.output].frame = Pulled
  <2>1. Parsed => "curr" \in ready
    BY <1>1 DEF Parsed, StatusBits
  <2> QED BY <1>1, <2>1 DEF PicturesNamed, TasksInOrder
<1>5. \A n \in Nat : \A i \in Slots : Past(n) /\ NewWriter(i) => n <= slot[i].frame
  <2>1. \A t \in HalTasks : InHardware(t) => Sent(t) /\ slot[taskInfo[t].output].frame = taskInfo[t].id
    BY <1>1 DEF PicturesNamed, InHardware, Sent
  <2> QED BY <1>4, <2>1 DEF Past, NewWriter
<1>6. Past(halInfo.id)
  BY <1>1, <1>3 DEF TasksInOrder, Past
<1>7. ASSUME NEW i \in Slots, Shown(i)
      PROVE  NewWriter(i)
  <2>1. SUFFICES ASSUME ~NewWriter(i)
                 PROVE  FALSE
    OBVIOUS
  <2>2. ~Writer(i)
    BY <2>1 DEF Writer, LateWriter
  <2>3. PICK n \in Nat : n = slot[i].frame /\ Past(n)
    BY <1>1, <1>2, <1>7, <2>2 DEF DisplayInOrder
  <2>4. PICK k \in 1 .. Len(display) : display[k] = i
    BY <1>2, <1>7
  <2>5. PICK h \in Slots : h = display[1] /\ h = Head(display) /\ Shown(h) /\ Writer(h)
    <3>1. Len(display) \in Nat /\ display # <<>>
      BY <1>2, <2>4, LenProperties, EmptySeq
    <3>2. 1 \in 1 .. Len(display) /\ Head(display) = display[1]
      BY <1>2, <3>1, TailOf
    <3>3. PICK h \in Slots : h = display[1] /\ Shown(h)
      BY <1>2, <3>2
    <3>4. slot[h].notReady
      BY <3>1, <3>2, <3>3 DEF DisplayReady
    <3> QED BY <1>1, <3>2, <3>3, <3>4 DEF SlotsFlagged, Flagged
  <2>6. NewWriter(h)
    BY <2>5 DEF Writer, LateWriter
  <2>7. h # i /\ k # 1
    BY <2>1, <2>4, <2>5, <2>6
  <2>8. slot[h].frame < n
    <3>1. 1 < k /\ 1 \in 1 .. Len(display)
      BY <2>4, <2>7
    <3> QED BY <1>1, <2>3, <2>4, <2>5, <3>1 DEF DisplayInOrder
  <2>9. n <= slot[h].frame /\ slot[h].frame \in Nat
    BY <1>2, <1>5, <2>3, <2>5, <2>6
  <2> QED BY <2>8, <2>9
<1> QED BY <1>3, <1>5, <1>6, <1>7

LEMMA HalDisplayEndsFrames ==
    ASSUME IInv, ~aborted, SlotsKept, FramesKept, HalDisplayEnds
    PROVE  FramesKept' /\ ~aborted'
<1>1. /\ halAt \in {"infoDisplay", "eosDisplay", "display"} /\ halAt' \in PutSteps \union {"get"}
      /\ ~DisplayReady
      /\ frames' = frames /\ held' = held /\ extraRef' = extraRef /\ scenario' = scenario
      /\ userAt' = userAt /\ aborted' = aborted /\ UNCHANGED groupVars /\ UNCHANGED slotVars
      /\ ref0' = ref0 /\ cur' = cur /\ ready' = ready /\ put' = put /\ packets' = packets
      /\ parserAt' = parserAt /\ halTask' = halTask /\ halInfo' = halInfo
  BY DEF HalDisplayEnds, PutSteps, userVars, outVars, parserVars
<1>2. /\ slot' = slot /\ display' = display /\ infoChanged' = infoChanged
      /\ taskInfo' = taskInfo /\ Pulled' = Pulled /\ PulledOn
  BY <1>1 DEF slotVars, groupVars, Pulled, PulledOn
<1>3. ChangeAnnounced /\ TasksInOrder /\ ShownInTime
  BY DEF FramesKept
<1>4. SameUse
  <2>1. Parsed' <=> Parsed
    BY <1>1 DEF Parsed
  <2>2. halAt' # "slots" /\ halAt # "slots"
    BY <1>1 DEF PutSteps
  <2> QED BY <1>1, <1>2, <2>1, <2>2, GroupSame DEF SameUse
<1>5. SameSent /\ HalGoesOn /\ InOrder
  BY <1>1, <1>2, <1>3 DEF SameSent, Sent, groupVars, HalGoesOn, Working, InOrder, TasksInOrder
<1>6. TasksInOrder' /\ Later
  BY <1>2, <1>3, <1>5, SentSame
<1>7. \A i : (Writer(i)' <=> Writer(i)) /\ (Shown(i)' <=> Shown(i))
  BY <1>4, SameUsers
<1>8. \A i \in Slots : Shown(i) => NewWriter(i) /\ halInfo.id <= slot[i].frame
  BY <1>1, AllWritten DEF Working
<1>9. ShownInTime'
  <2>1. \A i \in Slots : Shown(i)' => Writer(i)'
    BY <1>7, <1>8 DEF Writer
  <2>2. \A i \in Slots : Writer(i)' => Shown(i)'
    BY <1>3, <1>7 DEF ShownInTime
  <2>3. \A t \in HalTasks : InHardware(t)' => ref0' = taskInfo'[t].output
    BY <1>1, <1>2, <1>3, <1>4 DEF ShownInTime, SameUse
  <2>4. halAt' \notin {"slots", "display"}
    BY <1>1 DEF PutSteps
  <2> QED BY <2>1, <2>2, <2>3, <2>4 DEF ShownInTime
<1>10. DisplayInOrder'
  <2>1. SameFrames
    BY <1>2 DEF SameFrames
  <2> QED BY <1>1, <1>2, <1>6, <1>7, <2>1, DisplayStays DEF FramesKept
<1>11. PicturesNamed'
  BY <1>1, <1>2, <1>4 DEF FramesKept, PicturesNamed, SameUse, PutSteps
<1>12. BuffersApart'
  BY <1>1, <1>2, <1>7 DEF FramesKept, BuffersApart, OutBuffers, FrameBuffers
<1>13. FramesInOrder'
  <2>1. \A i \in 1 .. Len(frames) : frames[i].id \in Packets /\ Past(frames[i].id)
    BY DEF FramesKept, FramesInOrder
  <2>2. ASSUME NEW i \in 1 .. Len(frames)
        PROVE  \E n \in Nat : n = frames[i].id /\ Past(n)'
    <3>1. PICK n \in Nat : n = frames[i].id /\ Past(n)
      BY <2>1, PacketNumbers
    <3>2. Past(n)'
      BY <1>6, <3>1 DEF Later
    <3> QED BY <3>1, <3>2
  <2>3. \A i, j \in 1 .. Len(frames) : i < j => frames[i].id <= frames[j].id
    BY DEF FramesKept, FramesInOrder
  <2>4. Packets' = Packets
    BY <1>1, SameScenario
  <2> QED BY <1>1, <2>1, <2>2, <2>3, <2>4 DEF FramesInOrder, Past
<1>14. FramesFirst'
  BY <1>1, <1>2, <1>7, <1>8 DEF FramesKept, FramesFirst
<1>15. ChangeAnnounced'
  <2>1. infoChanged => Parsed'
    BY <1>3, <1>4 DEF ChangeAnnounced, SameUse
  <2>2. \A t \in HalTasks : Announced(t)' => Announced(t) /\ taskInfo'[t] = taskInfo[t]
    BY <1>1, <1>5 DEF Announced, SameSent
  <2> QED BY <1>1, <1>2, <1>3, <2>1, <2>2, CalmChange
<1> QED BY <1>1, <1>6, <1>9, <1>10, <1>11, <1>12, <1>13, <1>14, <1>15 DEF FramesKept

(* Such a task is idle again.                                              *)
LEMMA HalIdlesFrames ==
    ASSUME IInv, ~aborted, SlotsKept, FramesKept, HalIdles
    PROVE  FramesKept' /\ ~aborted'
<1>1. /\ halAt \in {"infoIdle", "eosIdle"} /\ halAt' = "get" /\ SetStatus(halTask, "IDLE")
      /\ halTask' = NoTask /\ halInfo' = halInfo /\ taskInfo' = taskInfo
      /\ frames' = frames /\ held' = held /\ extraRef' = extraRef /\ scenario' = scenario
      /\ userAt' = userAt /\ aborted' = aborted /\ UNCHANGED slotVars
      /\ ref0' = ref0 /\ cur' = cur /\ ready' = ready /\ put' = put /\ packets' = packets
      /\ parserAt' = "resetDrain" <=> parserAt = "resetDrain"
  BY DEF HalIdles, ParserWoken, userVars, outVars, parserVars
<1>2. /\ slot' = slot /\ display' = display /\ infoChanged' = infoChanged
      /\ Pulled' = Pulled /\ PulledOn
  BY <1>1 DEF slotVars, Pulled, PulledOn
<1>3. ChangeAnnounced /\ TasksInOrder /\ TasksInHand /\ ThreadTypes /\ Lists
  BY TypeParts DEF FramesKept, IInv
<1>4. PICK h \in HalTasks : /\ h = halTask /\ taskStatus[h] = "PROCESSING" /\ Sent(h)
                             /\ ~InHardware(h)
  <2>1. PICK h \in HalTasks : h = halTask /\ taskStatus[h] = "PROCESSING" /\ halInfo = taskInfo[h]
    BY <1>1, <1>3 DEF TasksInHand, InfoSteps, EosSteps, ThreadTypes
  <2>2. ~InHardware(h)
    BY <1>1, <1>3, <2>1 DEF TasksInHand, InfoSteps, EosSteps, InHardware
  <2> QED BY <2>1, <2>2 DEF Sent
<1>5. SentLess(h)
  BY <1>1, <1>4, IdleOne DEF HalTaskStatuses
<1>6. SameUse
  <2>1. SameHardware
    BY <1>1, <1>3, <1>4, IdledElsewhere
  <2>2. Parsed' <=> Parsed
    BY <1>1 DEF Parsed
  <2> QED BY <1>1, <1>2, <2>1, <2>2 DEF SameUse, SameHardware
<1>7. HalGoesOn /\ HalStays /\ InOrder
  BY <1>1, <1>2, <1>3 DEF HalGoesOn, Working, HalStays, PutSteps, InOrder, TasksInOrder
<1>8. TasksInOrder' /\ Later
  BY <1>2, <1>3, <1>5, <1>7, SentOneLess
<1>9. PicturesNamed' /\ DisplayInOrder' /\ ShownInTime'
  BY <1>1, <1>2, <1>6, <1>7, <1>8, CalmSlots
<1>10. BuffersApart' /\ FramesInOrder' /\ FramesFirst'
  BY <1>1, <1>6, <1>7, <1>8, CalmFrames
<1>11. ChangeAnnounced'
  <2>1. infoChanged => Parsed'
    BY <1>3, <1>6 DEF ChangeAnnounced, SameUse
  <2>2. \A t \in HalTasks : Announced(t)' => Announced(t) /\ taskInfo'[t] = taskInfo[t]
    BY <1>1, <1>4, <1>5 DEF Announced, SentLess
  <2> QED BY <1>1, <1>2, <1>3, <2>1, <2>2, CalmChange
<1> QED BY <1>1, <1>8, <1>9, <1>10, <1>11 DEF FramesKept

(* The hardware is done, and the slots do not know yet.                    *)
LEMMA HalMarksDoneFrames ==
    ASSUME IInv, ~aborted, SlotsKept, FramesKept, HalMarksDone
    PROVE  FramesKept' /\ ~aborted'
<1>1. /\ halAt = "done" /\ halAt' = "slots" /\ SetStatus(halTask, "PROC_DONE")
      /\ halTask' = NoTask /\ halInfo' = halInfo /\ taskInfo' = taskInfo
      /\ frames' = frames /\ held' = held /\ extraRef' = extraRef /\ scenario' = scenario
      /\ userAt' = userAt /\ aborted' = aborted /\ UNCHANGED slotVars
      /\ ref0' = ref0 /\ cur' = cur /\ ready' = ready /\ put' = put /\ packets' = packets
      /\ parserAt' = "resetDrain" <=> parserAt = "resetDrain"
  BY DEF HalMarksDone, ParserWoken, userVars, outVars, parserVars
<1>2. /\ slot' = slot /\ display' = display /\ infoChanged' = infoChanged
      /\ Pulled' = Pulled /\ PulledOn
  BY <1>1 DEF slotVars, Pulled, PulledOn
<1>3. /\ ChangeAnnounced /\ TasksInOrder /\ ShownInTime /\ PicturesNamed
      /\ TasksInHand /\ StatusBits /\ OneInFlight /\ ThreadTypes /\ Lists
  BY TypeParts DEF FramesKept, IInv
<1>4. PICK h \in HalTasks : /\ h = halTask /\ taskStatus[h] = "PROCESSING" /\ Sent(h)
                             /\ InHardware(h) /\ halInfo = taskInfo[h]
  <2>1. PICK h \in HalTasks : h = halTask /\ taskStatus[h] = "PROCESSING" /\ halInfo = taskInfo[h]
    BY <1>1, <1>3 DEF TasksInHand, DecodeSteps, ThreadTypes
  <2>2. InHardware(h)
    BY <1>1, <1>3, <2>1 DEF TasksInHand, DecodeSteps, InHardware
  <2> QED BY <2>1, <2>2 DEF Sent
<1>5. SentLess(h)
  BY <1>1, <1>4, IdleOne DEF HalTaskStatuses
<1>6. \A t \in HalTasks : ~InHardware(t)' /\ (InHardware(t) => t = h)
  <2>1. /\ ~InHardware(h)'
        /\ \A u \in HalTasks \ {h} : InHardware(u)' <=> InHardware(u)
    BY <1>1, <1>3, <1>4, TaskDone
  <2>2. \A t \in HalTasks \ {h} : ~InHardware(t)
    BY <1>3, <1>4 DEF OneInFlight, InFlight
  <2> QED BY <2>1, <2>2
<1>7. ~Parsed /\ ~Parsed'
  <2>1. "prev" \notin ready
    BY <1>3, <1>4 DEF OneInFlight, InFlight
  <2> QED BY <1>1, <1>3, <2>1 DEF StatusBits, Parsed
<1>8. \A i : (Writer(i)' <=> Writer(i)) /\ (Shown(i)' <=> Shown(i))
  <2>1. \A i : Writer(i)' <=> Writer(i)
    BY <1>1, <1>4, <1>6, <1>7 DEF Writer, NewWriter, LateWriter
  <2> QED BY <1>2, <2>1 DEF Shown
<1>9. HalGoesOn /\ PutsStay /\ InOrder
  BY <1>1, <1>2, <1>3 DEF HalGoesOn, Working, PutsStay, PutSteps, InOrder, TasksInOrder
<1>10. TasksInOrder' /\ Later
  BY <1>2, <1>3, <1>5, <1>9, SentOneLess
<1>11. SameFrames /\ ShownStays
  BY <1>2, <1>8 DEF SameFrames, ShownStays
<1>12. FramesInOrder' /\ FramesFirst'
  BY <1>1, <1>9, <1>10, <1>11, FramesStay DEF FramesKept
<1>13. DisplayInOrder'
  BY <1>1, <1>2, <1>8, <1>10, <1>11, DisplayStays DEF FramesKept
<1>14. ShownInTime'
  <2>1. \A i \in Slots : Shown(i) <=> Writer(i)
    BY <1>1, <1>3 DEF ShownInTime
  <2>2. ref0' = halInfo'.output
    BY <1>1, <1>3, <1>4 DEF ShownInTime
  <2> QED BY <1>6, <1>8, <2>1, <2>2 DEF ShownInTime
<1>15. PicturesNamed'
  <2>1. slot'[halInfo'.output].frame = halInfo'.id
    BY <1>1, <1>2, <1>3, <1>4 DEF PicturesNamed
  <2> QED BY <1>6, <1>7, <2>1 DEF PicturesNamed
<1>16. BuffersApart'
  BY <1>1, <1>2, <1>8 DEF FramesKept, BuffersApart, OutBuffers, FrameBuffers
<1>17. ChangeAnnounced'
  <2>1. infoChanged => Parsed'
    BY <1>3, <1>7 DEF ChangeAnnounced
  <2>2. \A t \in HalTasks : Announced(t)' => Announced(t) /\ taskInfo'[t] = taskInfo[t]
    BY <1>1, <1>4, <1>5 DEF Announced, SentLess
  <2> QED BY <1>1, <1>2, <1>3, <2>1, <2>2, CalmChange
<1> QED BY <1>1, <1>10, <1>12, <1>13, <1>14, <1>15, <1>16, <1>17 DEF FramesKept

(* A frame without picture is put: no picture of a later packet is given   *)
(* to the user yet, and none of an earlier one is left.                    *)
LEMMA HalPutsFrames ==
    ASSUME IInv, ~aborted, SlotsKept, FramesKept, HalPuts
    PROVE  FramesKept' /\ ~aborted'
<1>1. /\ halAt \in PutSteps /\ halAt' \in {"infoIdle", "eosIdle", "get"}
      /\ held' = held /\ extraRef' = extraRef /\ scenario' = scenario
      /\ userAt' = userAt /\ UNCHANGED groupVars /\ UNCHANGED slotVars
      /\ ref0' = ref0 /\ cur' = cur /\ ready' = ready /\ put' = put /\ packets' = packets
      /\ parserAt' = parserAt /\ halTask' = halTask /\ halInfo' = halInfo
  BY DEF HalPuts, PutSteps, userVars, parserVars
<1>2. /\ slot' = slot /\ display' = display /\ infoChanged' = infoChanged
      /\ taskInfo' = taskInfo /\ Pulled' = Pulled /\ PulledOn /\ Packets' = Packets
  BY <1>1, SameScenario DEF slotVars, groupVars, Pulled, PulledOn
<1>3. /\ ChangeAnnounced /\ TasksInOrder /\ FramesInOrder /\ FramesFirst /\ BuffersApart
      /\ TasksInHand /\ TasksSent /\ ThreadTypes
      /\ frames \in Seq(OutFrames) /\ Len(frames) \in Nat
      /\ \A t \in HalTasks : taskInfo[t].id \in Nat
      /\ halInfo.id \in Nat /\ Pulled \in Int
  BY FrameNumbers, TaskNumbers, TypeParts DEF FramesKept, SlotsKept, IInv
<1>4. halInfo.id \in Packets /\ Working
  BY <1>1, <1>3 DEF TasksSent, PutSteps, Working
<1>5. SameUse
  <2>1. Parsed' <=> Parsed
    BY <1>1 DEF Parsed
  <2>2. halAt' # "slots" /\ halAt # "slots"
    BY <1>1 DEF PutSteps
  <2> QED BY <1>1, <1>2, <2>1, <2>2, GroupSame DEF SameUse
<1>6. SameSent /\ HalGoesOn /\ HalStays /\ InOrder
  BY <1>1, <1>2, <1>3, <1>4
     DEF SameSent, Sent, groupVars, HalGoesOn, HalStays, PutSteps, InOrder, TasksInOrder
<1>7. TasksInOrder' /\ Later
  BY <1>2, <1>3, <1>6, SentSame
<1>8. PicturesNamed' /\ DisplayInOrder' /\ ShownInTime'
  BY <1>1, <1>2, <1>5, <1>6, <1>7, CalmSlots
<1>9. halAt = "infoPut" =>
         \E t \in HalTasks : /\ t = halTask /\ Announced(t) /\ halInfo = taskInfo[t]
                             /\ InfoFrame.id = halInfo.id /\ InfoFrame.buffer = NoBuffer
                             /\ halInfo.output # NoSlot
  <2>1. SUFFICES ASSUME halAt = "infoPut"
                 PROVE  \E t \in HalTasks :
                           /\ t = halTask /\ Announced(t) /\ halInfo = taskInfo[t]
                           /\ InfoFrame.id = halInfo.id /\ InfoFrame.buffer = NoBuffer
                           /\ halInfo.output # NoSlot
    OBVIOUS
  <2>2. PICK t \in HalTasks : t = halTask /\ Announced(t) /\ halInfo = taskInfo[t]
    BY <1>3, <2>1 DEF TasksInHand, InfoSteps, ThreadTypes, Announced, Sent
  <2>3. infoChanged /\ Parsed /\ halInfo.output = cur.output /\ halInfo.id = cur.id
    BY <1>3, <2>2 DEF ChangeAnnounced
  <2>4. cur.output # NoSlot /\ slot[cur.output].frame = cur.id /\ slot[cur.output].buffer = NoBuffer
    BY <2>3 DEF Parsed, FramesKept, PicturesNamed, SlotsKept, References
  <2> QED BY <2>2, <2>3, <2>4 DEF InfoFrame
<1>10. PICK f : /\ frames' = Append(frames, f) /\ aborted' = aborted
                /\ f.id = halInfo.id /\ f.buffer = NoBuffer
                /\ f.kind = "info" <=> halAt = "infoPut"
                /\ halAt = "infoPut" => halAt' = "infoIdle"
  <2>1. CASE halAt = "infoPut"
    <3>1. InfoFrame.id # NoFrame /\ halInfo.output # NoSlot
      BY <1>4, <1>9, <2>1, PacketNumbers
    <3>2. frames' = Append(frames, InfoFrame) /\ aborted' = aborted /\ halAt' = "infoIdle"
      BY <2>1, <3>1 DEF HalPuts
    <3>3. InfoFrame.kind = "info"
      BY DEF InfoFrame
    <3> HIDE DEF InfoFrame
    <3> QED BY <1>9, <2>1, <3>2, <3>3
  <2>2. CASE halAt # "infoPut"
    <3> DEFINE f == [kind |-> "eos", id |-> halInfo.id, buffer |-> NoBuffer]
    <3>1. frames' = Append(frames, f) /\ aborted' = aborted
      BY <1>1, <2>2 DEF HalPuts
    <3>2. f.id = halInfo.id /\ f.buffer = NoBuffer /\ f.kind # "info"
      OBVIOUS
    <3> HIDE DEF f
    <3> QED BY <2>2, <3>1, <3>2
  <2> QED BY <2>1, <2>2
<1> DEFINE n == Len(frames)
<1>11. /\ Len(frames') = n + 1 /\ frames'[n + 1] = f
       /\ \A i \in 1 .. n : frames'[i] = frames[i]
       /\ \A i \in 1 .. n + 1 : i \in 1 .. n \/ i = n + 1
       /\ n \in Nat
  BY <1>3, <1>10, AppendProperties
<1> HIDE DEF n
<1>12. FramesInOrder'
  <2>1. \A i \in 1 .. n : frames[i].id \in Packets /\ Past(frames[i].id)
    BY <1>3 DEF FramesInOrder, n
  <2>2. Past(halInfo.id)
    BY <1>3, <1>4 DEF TasksInOrder, Past
  <2>3. ASSUME NEW i \in 1 .. n + 1
        PROVE  \E m \in Nat : /\ m = frames'[i].id /\ m \in Packets /\ m <= halInfo.id
                              /\ Past(m)'
    <3>1. PICK m \in Nat : m = frames'[i].id /\ m \in Packets /\ Past(m)
      BY <1>4, <1>10, <1>11, <2>1, <2>2, PacketNumbers
    <3>2. m <= halInfo.id
      BY <1>4, <3>1 DEF Past
    <3>3. Past(m)'
      BY <1>7, <3>1 DEF Later
    <3> QED BY <3>1, <3>2, <3>3
  <2>4. \A i, j \in 1 .. n + 1 : i < j => frames'[i].id <= frames'[j].id
    <3> SUFFICES ASSUME NEW i \in 1 .. n + 1, NEW j \in 1 .. n + 1, i < j
                 PROVE  frames'[i].id <= frames'[j].id
      OBVIOUS
    <3>1. i \in 1 .. n /\ frames'[i] = frames[i]
      BY <1>11
    <3>2. CASE j \in 1 .. n
      BY <1>3, <1>11, <3>1, <3>2 DEF FramesInOrder, n
    <3>3. CASE j = n + 1
      BY <1>10, <1>11, <2>3, <3>3
    <3> QED BY <1>11, <3>2, <3>3
  <2> QED BY <1>2, <1>11, <2>3, <2>4 DEF FramesInOrder, Past
<1>13. FramesFirst'
  <2>1. \A i \in 1 .. n : \A j \in Slots : Shown(j) => frames[i].id <= slot[j].frame
    BY <1>3 DEF FramesFirst, n
  <2>2. \A j \in Slots : Shown(j) => halInfo.id <= slot[j].frame
    BY <1>1, <1>3 DEF FramesFirst
  <2>3. halAt' \notin PutSteps
    BY <1>1 DEF PutSteps
  <2>4. \A j : Shown(j)' <=> Shown(j)
    BY <1>2 DEF Shown
  <2>5. \A i \in 1 .. n + 1 : \A j \in Slots : Shown(j)' => frames'[i].id <= slot'[j].frame
    BY <1>2, <1>10, <1>11, <2>1, <2>2, <2>4
  <2> QED BY <1>11, <2>3, <2>5 DEF FramesFirst
<1>14. BuffersApart'
  <2>1. \A i \in 1 .. n :
           frames[i].buffer # NoBuffer =>
               /\ frames[i].buffer \notin held
               /\ \A j \in 1 .. n : frames[j].buffer = frames[i].buffer => j = i
    BY <1>3 DEF BuffersApart, n
  <2>2. \A i \in 1 .. n + 1 :
           frames'[i].buffer # NoBuffer =>
               /\ frames'[i].buffer \notin held
               /\ \A j \in 1 .. n + 1 : frames'[j].buffer = frames'[i].buffer => j = i
    BY <1>10, <1>11, <2>1
  <2>3. OutBuffers' \subseteq OutBuffers
    <3>1. FrameBuffers' \subseteq FrameBuffers
      BY <1>10, <1>11 DEF FrameBuffers, n
    <3> QED BY <1>1, <3>1 DEF OutBuffers
  <2>4. \A j : Shown(j)' <=> Shown(j)
    BY <1>2 DEF Shown
  <2>5. /\ OutBuffers \subseteq extraRef
        /\ \A i, j \in Slots :
              slot[i].buffer # NoBuffer /\ i # j => slot[j].buffer # slot[i].buffer
        /\ \A i \in Slots :
              Shown(i) /\ slot[i].buffer # NoBuffer =>
                  slot[i].buffer \in extraRef /\ slot[i].buffer \notin OutBuffers
    BY <1>3 DEF BuffersApart
  <2> QED BY <1>1, <1>2, <1>11, <2>2, <2>3, <2>4, <2>5 DEF BuffersApart
<1>15. ChangeAnnounced'
  <2>1. /\ infoChanged' => Parsed'
        /\ userAt' # "app" => "infoGen" \in ready' /\ infoChanged'
    BY <1>1, <1>2, <1>3, <1>5 DEF ChangeAnnounced, SameUse
  <2>2. CASE halAt = "infoPut"
    <3>1. PICK t \in HalTasks : t = halTask /\ Announced(t)
      BY <1>9, <2>2
    <3>2. /\ "infoGen" \in ready /\ infoChanged /\ userAt = "app"
          /\ \A u \in HalTasks : Announced(u) => u = t
          /\ \A i \in 1 .. n : frames[i].kind # "info"
      BY <1>3, <3>1 DEF ChangeAnnounced, n
    <3>3. \A u \in HalTasks : ~Announced(u)'
      BY <1>1, <1>2, <1>6, <1>10, <2>2, <3>1, <3>2 DEF Announced, SameSent
    <3>4. \A i \in 1 .. n + 1 : frames'[i].kind = "info" => i = n + 1
      BY <1>11, <3>2
    <3>5. \A i \in 1 .. n + 1 :
             frames'[i].kind = "info" =>
                 \A j \in 1 .. n + 1 : frames'[j].kind = "info" => j = i
      BY <3>4
    <3> QED BY <1>1, <1>2, <1>11, <2>1, <3>2, <3>3, <3>5 DEF ChangeAnnounced
  <2>3. CASE halAt # "infoPut"
    <3>1. /\ \A i \in 1 .. n + 1 : frames'[i].kind = "info" =>
                i \in 1 .. n /\ frames[i].kind = "info"
      BY <1>10, <1>11, <2>3
    <3>2. \A t \in HalTasks : Announced(t)' => Announced(t) /\ taskInfo'[t] = taskInfo[t]
      BY <1>1, <1>2, <1>6, <2>3 DEF Announced, SameSent, PutSteps
    <3>3. \A i \in 1 .. n :
             frames[i].kind = "info" =>
                 /\ "infoGen" \in ready /\ infoChanged /\ userAt = "app"
                 /\ \A j \in 1 .. n : frames[j].kind = "info" => j = i
      BY <1>3 DEF ChangeAnnounced, n
    <3>4. \A i \in 1 .. n + 1 :
             frames'[i].kind = "info" =>
                 /\ "infoGen" \in ready' /\ infoChanged' /\ userAt' = "app"
                 /\ \A j \in 1 .. n + 1 : frames'[j].kind = "info" => j = i
      BY <1>1, <1>2, <3>1, <3>3
    <3>5. \A t \in HalTasks :
             Announced(t)' =>
                 /\ "infoGen" \in ready' /\ infoChanged' /\ userAt' = "app"
                 /\ taskInfo'[t].output = cur'.output /\ taskInfo'[t].id = cur'.id
                 /\ \A u \in HalTasks : Announced(u)' => u = t
                 /\ \A i \in 1 .. n : frames[i].kind # "info"
      BY <1>1, <1>2, <1>3, <3>2 DEF ChangeAnnounced, n
    <3>6. \A t \in HalTasks :
             Announced(t)' => \A i \in 1 .. n + 1 : frames'[i].kind # "info"
      BY <3>1, <3>5
    <3> QED BY <1>11, <2>1, <3>4, <3>5, <3>6 DEF ChangeAnnounced
  <2> QED BY <2>2, <2>3
<1> QED BY <1>7, <1>8, <1>10, <1>12, <1>13, <1>14, <1>15 DEF FramesKept

-----------------------------------------------------------------------------
(***************************************************************************)
(* Steps that change the entries of slots.                                 *)
(***************************************************************************)
(* An entry that stays in use keeps its picture.                           *)
LEMMA ClearedContent ==
    ASSUME NEW e \in SlotEntries,
           NEW f \in {"CODEC_USE", "HAL_INPUT", "HAL_OUTPUT", "QUEUE_USE"}
    PROVE  ClrFlag(e, f).onUsed => SameContent(ClrFlag(e, f), e)
<1> DEFINE c == Cleared(e, f)
<1>1. SameContent(c, e)
  BY DEF Cleared, SlotEntries, SameContent
<1>2. c \in SlotEntries
  <2>1. \/ c = [e EXCEPT !.codecUse = FALSE]
        \/ c = [e EXCEPT !.halUse = Less(e.halUse)]
        \/ c = [[e EXCEPT !.halOutput = FALSE] EXCEPT !.notReady = FALSE]
        \/ c = [e EXCEPT !.queueUse = Less(e.queueUse)]
    BY DEF Cleared
  <2>2. Less(e.halUse) \in HalUses /\ Less(e.queueUse) \in QueueUses
    BY DEF SlotEntries, HalUses, QueueUses, Less
  <2>3. /\ [e EXCEPT !.codecUse = FALSE] \in SlotEntries
        /\ [[e EXCEPT !.halOutput = FALSE] EXCEPT !.notReady = FALSE] \in SlotEntries
    BY DEF SlotEntries
  <2>4. [e EXCEPT !.halUse = Less(e.halUse)] \in SlotEntries
    BY <2>2 DEF SlotEntries
  <2>5. [e EXCEPT !.queueUse = Less(e.queueUse)] \in SlotEntries
    BY <2>2 DEF SlotEntries
  <2> HIDE DEF c
  <2> QED BY <2>1, <2>3, <2>4, <2>5, Zenon
<1> HIDE DEF c
<1>3. Released(c).onUsed => Released(c) = c
  BY <1>2 DEF Released, SlotEntries
<1> QED BY <1>1, <1>3 DEF ClrFlag, c

LEMMA UndisplayedContent ==
    ASSUME NEW e \in SlotEntries
    PROVE  LET d == ClrFlag([e EXCEPT !.queueUse = Less(@)], "QUEUE_USE")
           IN  d.onUsed => SameContent(d, e)
<1> DEFINE u == [e EXCEPT !.queueUse = Less(@)]
<1>1. u \in SlotEntries
  BY EntryTypes, Zenon
<1>2. SameContent(u, e)
  BY DEF SlotEntries, SameContent
<1> HIDE DEF u
<1>3. ClrFlag(u, "QUEUE_USE").onUsed => SameContent(ClrFlag(u, "QUEUE_USE"), u)
  BY <1>1, ClearedContent
<1> QED BY <1>2, <1>3 DEF SameContent, u

LEMMA ReadContent ==
    ASSUME NEW e \in SlotEntries
    PROVE  /\ SetFlag(e, "HAL_INPUT") \in SlotEntries
           /\ SameContent(SetFlag(e, "HAL_INPUT"), e)
<1>1. SetFlag(e, "HAL_INPUT") \in SlotEntries
  BY EntryTypes, Zenon
<1>2. SetFlag(e, "HAL_INPUT") = [e EXCEPT !.halUse = (e.halUse + 1) % 256]
  BY DEF SetFlag
<1> QED BY <1>1, <1>2 DEF SlotEntries, SameContent

(* So do all that a step leaves in use; the others have no buffer.         *)
ContentKept(i) == slot'[i].onUsed => SameContent(slot'[i], slot[i])

LEMMA KeptContent ==
    ASSUME SlotsFlagged', NEW i \in Slots, ContentKept(i)
    PROVE  /\ Shown(i)' \/ Writer(i)' => SameContent(slot'[i], slot[i])
           /\ slot'[i].buffer # NoBuffer => slot'[i].buffer = slot[i].buffer
BY DEF SlotsFlagged, Flagged, ContentKept, SameContent

(* The output is ready, and the reference no longer read.                  *)
LEMMA HalClearsSlotsFrames ==
    ASSUME IInv, ~aborted, SlotsKept, SlotsKept', FramesKept, HalClearsSlots
    PROVE  FramesKept' /\ ~aborted'
<1>1. /\ halAt = "slots" /\ halAt' = "display" /\ halInfo' = halInfo /\ halTask' = halTask
      /\ UNCHANGED groupVars /\ display' = display /\ infoChanged' = infoChanged
      /\ frames' = frames /\ held' = held /\ extraRef' = extraRef /\ scenario' = scenario
      /\ userAt' = userAt /\ aborted' = aborted
      /\ ref0' = ref0 /\ cur' = cur /\ ready' = ready /\ put' = put /\ packets' = packets
      /\ parserAt' = "resetDrain" <=> parserAt = "resetDrain"
  BY DEF HalClearsSlots, ParserAfterRelease, ParserWoken, userVars, outVars, parserVars
<1>2. /\ taskInfo' = taskInfo /\ Pulled' = Pulled /\ PulledOn
      /\ \A t : InHardware(t)' <=> InHardware(t)
      /\ Parsed' <=> Parsed
  BY <1>1, GroupSame DEF groupVars, Pulled, PulledOn, Parsed
<1>3. /\ ChangeAnnounced /\ BuffersApart /\ PicturesNamed /\ TasksInOrder
      /\ DisplayInOrder /\ ShownInTime
      /\ slot \in [Slots -> SlotEntries] /\ SlotsFlagged' /\ WritersApart
      /\ halInfo.id \in Nat /\ Pulled \in Int
      /\ \A i \in 1 .. Len(display) : display[i] \in Slots /\ Shown(display[i])
      /\ \A i \in Slots : Shown(i) => slot[i].frame \in Nat
  BY UseFacts, TaskNumbers, FrameNumbers DEF FramesKept, SlotsKept
<1>4. SameSent /\ HalGoesOn /\ PutsStay /\ InOrder
  BY <1>1, <1>2, <1>3
     DEF SameSent, Sent, groupVars, HalGoesOn, Working, PutsStay, PutSteps, InOrder, TasksInOrder
<1>5. TasksInOrder' /\ Later
  BY <1>2, <1>3, <1>4, SentSame
<1>6. \A i : /\ Shown(i)' <=> Shown(i)
             /\ Writer(i)' <=> NewWriter(i)
             /\ Writer(i) <=> NewWriter(i) \/ i = halInfo.output
  <2>1. \A i : NewWriter(i)' <=> NewWriter(i)
    BY <1>1, <1>2 DEF NewWriter
  <2>2. \A i : ~LateWriter(i)' /\ (LateWriter(i) <=> i = halInfo.output)
    BY <1>1 DEF LateWriter
  <2> QED BY <1>1, <2>1, <2>2 DEF Shown, Writer
<1>7. \A i \in Slots : ContentKept(i)
  <2> SUFFICES ASSUME NEW i \in Slots
               PROVE  slot'[i].onUsed => SameContent(slot'[i], slot[i])
    BY DEF ContentKept
  <2>1. PICK e \in SlotEntries : e = slot[i]
    BY <1>3
  <2>2. slot'[i] \in {ClrFlag(e, "HAL_OUTPUT"), ClrFlag(e, "HAL_INPUT"), e}
    BY <2>1 DEF HalClearsSlots
  <2> QED BY <2>1, <2>2, ClearedContent DEF SameContent
<1>8. \A i \in Slots :
         /\ Shown(i)' \/ Writer(i)' => SameContent(slot'[i], slot[i])
         /\ slot'[i].buffer # NoBuffer => slot'[i].buffer = slot[i].buffer
  BY <1>3, <1>7, KeptContent
<1>9. FramesInOrder' /\ FramesFirst'
  <2>1. ShownStays
    BY <1>6, <1>8 DEF ShownStays, SameContent
  <2> QED BY <1>1, <1>4, <1>5, <2>1, FramesStay DEF FramesKept
<1>10. DisplayInOrder'
  <2>1. \A i \in Slots : Shown(i)' => Shown(i) /\ slot'[i].frame = slot[i].frame
    BY <1>6, <1>8 DEF SameContent
  <2>2. \A i \in Slots : Shown(i)' => slot'[i].frame <= Pulled'
    BY <1>2, <1>3, <2>1 DEF DisplayInOrder
  <2>3. ASSUME NEW i \in Slots, Shown(i)', ~Writer(i)'
        PROVE  \E n \in Nat : n = slot'[i].frame /\ Past(n)'
    <3>1. i = halInfo.output
      BY <1>1, <1>3, <1>6, <2>3 DEF ShownInTime
    <3>2. slot'[i].frame = halInfo.id
      BY <1>1, <1>3, <2>1, <2>3, <3>1 DEF PicturesNamed
    <3>3. Past(halInfo.id)
      BY <1>1, <1>3 DEF TasksInOrder, Past, Working
    <3>4. PICK n \in Nat : n = halInfo.id /\ Past(n)
      BY <1>3, <3>3
    <3>5. Past(n)'
      BY <1>5, <3>4 DEF Later
    <3> QED BY <3>2, <3>4, <3>5
  <2>4. "curr" \in ready' /\ "parsed" \notin ready' =>
           \A i \in Slots : Shown(i)' => slot'[i].frame < Pulled'
    BY <1>1, <1>2, <1>3, <2>1 DEF DisplayInOrder
  <2>5. \A i, j \in 1 .. Len(display') :
           i < j => slot'[display'[i]].frame < slot'[display'[j]].frame
    <3>1. \A i \in 1 .. Len(display) : slot'[display[i]].frame = slot[display[i]].frame
      BY <1>3, <1>6, <2>1
    <3> QED BY <1>1, <1>3, <3>1 DEF DisplayInOrder
  <2> QED BY <2>2, <2>3, <2>4, <2>5 DEF DisplayInOrder, Past
<1>11. ShownInTime'
  <2>1. \A i \in Slots : Writer(i)' => Shown(i)'
    BY <1>3, <1>6 DEF ShownInTime
  <2>2. \A i \in Slots : Shown(i)' /\ ~Writer(i)' => halAt' = "display" /\ i = halInfo'.output
    BY <1>1, <1>3, <1>6 DEF ShownInTime
  <2>3. \A t \in HalTasks : InHardware(t)' => ref0' = taskInfo'[t].output
    BY <1>1, <1>2, <1>3 DEF ShownInTime
  <2>4. halAt' \in {"slots", "display"} /\ ~Parsed' /\ (\A t \in HalTasks : ~InHardware(t)') =>
           ref0' = halInfo'.output
    BY <1>1, <1>2, <1>3 DEF ShownInTime
  <2> QED BY <2>1, <2>2, <2>3, <2>4 DEF ShownInTime
<1>12. PicturesNamed'
  <2>1. Parsed => cur.output \in Slots /\ NewWriter(cur.output)
    BY UsersTyped DEF NewWriter
  <2>2. \A t \in HalTasks : InHardware(t) =>
           taskInfo[t].output \in Slots /\ NewWriter(taskInfo[t].output)
    <3>1. \A t \in HalTasks : taskInfo[t].output \in Slots \union {NoSlot}
      BY TaskNumbers DEF Infos
    <3> QED BY <1>3, <3>1 DEF NewWriter, WritersApart
  <2> QED BY <1>1, <1>2, <1>3, <1>6, <1>8, <2>1, <2>2 DEF PicturesNamed, SameContent
<1>13. BuffersApart'
  <2>1. OutBuffers' = OutBuffers
    BY <1>1 DEF OutBuffers, FrameBuffers
  <2> QED BY <1>1, <1>3, <1>6, <1>8, <2>1 DEF BuffersApart
<1>14. ChangeAnnounced'
  <2>1. infoChanged => Parsed'
    BY <1>2, <1>3 DEF ChangeAnnounced
  <2>2. \A t \in HalTasks : Announced(t)' => Announced(t) /\ taskInfo'[t] = taskInfo[t]
    BY <1>1, <1>2, <1>4 DEF Announced, SameSent
  <2> QED BY <1>1, <1>3, <2>1, <2>2, CalmChange
<1> QED BY <1>1, <1>5, <1>9, <1>10, <1>11, <1>12, <1>13, <1>14 DEF FramesKept

(* A finished picture goes to the user: it is of the packet the HAL thread *)
(* has done, before all that are written.                                  *)
LEMMA HalDisplaysFrames ==
    ASSUME IInv, ~aborted, SlotsKept, SlotsKept', FramesKept, ~resetFlag, HalDisplays
    PROVE  FramesKept' /\ ~aborted'
<1>1. /\ display # <<>> /\ ~slot[Head(display)].notReady /\ display' = Tail(display)
      /\ slot' = [slot EXCEPT ![Head(display)] = Undisplayed]
      /\ frames' = Append(frames, [kind |-> "picture", id |-> slot[Head(display)].frame,
                                   buffer |-> slot[Head(display)].buffer])
      /\ extraRef' = extraRef /\ UNCHANGED groupVars /\ infoChanged' = infoChanged
      /\ held' = held /\ scenario' = scenario /\ userAt' = userAt /\ aborted' = aborted
      /\ ref0' = ref0 /\ cur' = cur /\ ready' = ready /\ put' = put /\ packets' = packets
      /\ halAt' = halAt /\ halTask' = halTask /\ halInfo' = halInfo
      /\ parserAt' = "resetDrain" <=> parserAt = "resetDrain"
  BY DEF HalDisplays, TakeDisplayed, DisplayReady, ParserAfterRelease, ParserWoken,
         userVars, parserVars, halVars
<1>2. /\ taskInfo' = taskInfo /\ Pulled' = Pulled /\ PulledOn /\ Packets' = Packets
      /\ \A t : InHardware(t)' <=> InHardware(t)
      /\ Parsed' <=> Parsed
  BY <1>1, GroupSame, SameScenario DEF groupVars, Pulled, PulledOn, Parsed
<1>3. /\ ChangeAnnounced /\ BuffersApart /\ PicturesNamed /\ TasksInOrder
      /\ FramesInOrder /\ DisplayInOrder /\ FramesFirst /\ ShownInTime
      /\ slot \in [Slots -> SlotEntries] /\ SlotsFlagged /\ SlotsFlagged' /\ WritersApart
      /\ display \in Seq(Slots) /\ IsInjective(display)
      /\ \A i \in 1 .. Len(display) : display[i] \in Slots /\ Shown(display[i])
      /\ \A i : Shown(i) => i \in Slots /\ \E k \in 1 .. Len(display) : display[k] = i
      /\ \A i \in Slots : Shown(i) => slot[i].frame \in Packets /\ slot[i].frame \in Nat
      /\ frames \in Seq(OutFrames) /\ Len(frames) \in Nat
  BY UseFacts, FrameNumbers DEF FramesKept, SlotsKept
<1>h. PICK h \in Slots : /\ h = Head(display) /\ Shown(h) /\ ~Writer(h)
                          /\ h = halInfo.output /\ halAt = "display"
  <2>1. PICK h \in Slots : h = Head(display) /\ Shown(h)
    BY <1>1, <1>3, TailDistinct DEF Shown
  <2>2. ~Writer(h)
    BY <1>1, <1>3, <2>1 DEF SlotsFlagged, Flagged
  <2>3. h = halInfo.output /\ halAt = "display"
    BY <1>3, <2>1, <2>2 DEF ShownInTime
  <2> QED BY <2>1, <2>2, <2>3
<1>4. PICK f :
         /\ h = Head(display) /\ Shown(h) /\ ~Writer(h)
         /\ h = halInfo.output /\ halAt = "display"
         /\ f.kind = "picture" /\ f.id = slot[h].frame /\ f.buffer = slot[h].buffer
         /\ frames' = Append(frames, f)
  <2> DEFINE f == [kind |-> "picture", id |-> slot[h].frame, buffer |-> slot[h].buffer]
  <2>1. f.kind = "picture" /\ f.id = slot[h].frame /\ f.buffer = slot[h].buffer
    OBVIOUS
  <2>2. frames' = Append(frames, f)
    BY <1>1, <1>h
  <2> HIDE DEF f
  <2> QED BY <1>h, <2>1, <2>2
<1>5. \A i : /\ Shown(i)' <=> Shown(i) /\ i # h
             /\ Writer(i)' <=> Writer(i)
  <2>1. \A i : Shown(i)' <=> Shown(i) /\ i # h
    BY <1>1, <1>3, <1>4, TailDistinct DEF Shown
  <2>2. \A i : Writer(i)' <=> Writer(i)
    BY <1>1, <1>2 DEF Writer, NewWriter, LateWriter
  <2> QED BY <2>1, <2>2
<1>6. /\ \A i \in Slots \ {h} : slot'[i] = slot[i]
      /\ slot'[h].buffer # NoBuffer => slot'[h].buffer = slot[h].buffer
  <2>1. slot'[h] = Undisplayed /\ \A i \in Slots \ {h} : slot'[i] = slot[i]
    BY <1>1, <1>3, <1>4
  <2>2. PICK e \in SlotEntries : e = slot[h]
    BY <1>3
  <2>3. Undisplayed = ClrFlag([e EXCEPT !.queueUse = Less(@)], "QUEUE_USE")
    BY <1>4, <2>2 DEF Undisplayed
  <2>4. LET d == ClrFlag([e EXCEPT !.queueUse = Less(@)], "QUEUE_USE")
        IN  d.onUsed => SameContent(d, e)
    BY UndisplayedContent, ZenonT(60)
  <2>5. ContentKept(h)
    BY <2>1, <2>2, <2>3, <2>4 DEF ContentKept
  <2> QED BY <1>3, <2>1, <2>5, KeptContent
<1>7. SameSent /\ HalGoesOn /\ InOrder
  BY <1>1, <1>2, <1>3 DEF SameSent, Sent, groupVars, HalGoesOn, Working, InOrder, TasksInOrder
<1>8. TasksInOrder' /\ Later
  BY <1>2, <1>3, <1>7, SentSame
<1> DEFINE n == Len(frames)
<1>9. /\ Len(frames') = n + 1 /\ frames'[n + 1] = f
      /\ \A i \in 1 .. n : frames'[i] = frames[i]
      /\ \A i \in 1 .. n + 1 : i \in 1 .. n \/ i = n + 1
      /\ n \in Nat
  BY <1>3, <1>4, AppendProperties
<1> HIDE DEF n
<1> DEFINE m == Len(display)
<1>10. /\ m \in Nat \ {0} /\ display[1] = h /\ Len(display') = m - 1
       /\ \A i \in 1 .. m - 1 : display'[i] = display[i + 1] /\ i + 1 \in 1 .. m
       /\ 1 \in 1 .. m
  BY <1>1, <1>3, <1>4, TailOf
<1> HIDE DEF m
<1>11. FramesInOrder'
  <2>1. \A i \in 1 .. n : frames[i].id \in Packets /\ Past(frames[i].id)
    BY <1>3 DEF FramesInOrder, n
  <2>2. f.id \in Packets /\ Past(f.id)
    BY <1>3, <1>4 DEF DisplayInOrder
  <2>3. ASSUME NEW i \in 1 .. n + 1
        PROVE  \E k \in Nat : k = frames'[i].id /\ k \in Packets /\ Past(k)'
    <3>1. PICK k \in Nat : k = frames'[i].id /\ k \in Packets /\ Past(k)
      BY <1>9, <2>1, <2>2, PacketNumbers
    <3>2. Past(k)'
      BY <1>8, <3>1 DEF Later
    <3> QED BY <3>1, <3>2
  <2>4. \A i \in 1 .. n : frames[i].id <= f.id
    BY <1>3, <1>4 DEF FramesFirst, n
  <2>5. \A i, j \in 1 .. n + 1 : i < j => frames'[i].id <= frames'[j].id
    <3> SUFFICES ASSUME NEW i \in 1 .. n + 1, NEW j \in 1 .. n + 1, i < j
                 PROVE  frames'[i].id <= frames'[j].id
      OBVIOUS
    <3>1. i \in 1 .. n /\ frames'[i] = frames[i]
      BY <1>9
    <3>2. CASE j \in 1 .. n
      BY <1>3, <1>9, <3>1, <3>2 DEF FramesInOrder, n
    <3>3. CASE j = n + 1
      BY <1>9, <2>4, <3>1, <3>3
    <3> QED BY <1>9, <3>2, <3>3
  <2> QED BY <1>2, <1>9, <2>3, <2>5 DEF FramesInOrder, Past
<1>12. FramesFirst'
  <2>1. \A i \in 1 .. n : \A j \in Slots : Shown(j) => frames[i].id <= slot[j].frame
    BY <1>3 DEF FramesFirst, n
  <2>2. ASSUME NEW j \in Slots, Shown(j), j # h
        PROVE  f.id <= slot[j].frame
    <3>1. PICK k \in 1 .. m : display[k] = j
      BY <1>3, <2>2 DEF m
    <3>2. 1 < k
      BY <1>10, <2>2, <3>1
    <3>3. slot[display[1]].frame < slot[display[k]].frame
      BY <1>3, <1>10, <3>2 DEF DisplayInOrder, m
    <3> QED BY <1>3, <1>4, <1>10, <2>2, <3>1, <3>3
  <2>3. \A i \in 1 .. n + 1 : \A j \in Slots : Shown(j)' => frames'[i].id <= slot'[j].frame
    BY <1>5, <1>6, <1>9, <2>1, <2>2
  <2>4. halAt' \notin PutSteps
    BY <1>1, <1>4 DEF PutSteps
  <2> QED BY <1>9, <2>3, <2>4 DEF FramesFirst
<1>13. DisplayInOrder'
  <2>1. \A i \in Slots : Shown(i)' => slot'[i].frame <= Pulled'
    BY <1>2, <1>3, <1>5, <1>6 DEF DisplayInOrder
  <2>2. ASSUME NEW i \in Slots, Shown(i)', ~Writer(i)'
        PROVE  FALSE
    BY <1>3, <1>4, <1>5, <2>2 DEF ShownInTime
  <2>3. "curr" \in ready' /\ "parsed" \notin ready' =>
           \A i \in Slots : Shown(i)' => slot'[i].frame < Pulled'
    BY <1>1, <1>2, <1>3, <1>5, <1>6 DEF DisplayInOrder
  <2>4. \A i \in 1 .. m - 1 : /\ display'[i] \in Slots
                              /\ slot'[display'[i]].frame = slot[display[i + 1]].frame
    <3> SUFFICES ASSUME NEW i \in 1 .. m - 1
                 PROVE  /\ display'[i] \in Slots
                        /\ slot'[display'[i]].frame = slot[display[i + 1]].frame
      OBVIOUS
    <3>1. display'[i] = display[i + 1] /\ i + 1 \in 1 .. m /\ i + 1 # 1
      BY <1>10
    <3>2. display[i + 1] \in Slots /\ display[i + 1] # display[1]
      <4>1. \A x, y \in 1 .. m : display[x] = display[y] => x = y
        BY <1>3, ToSetOfSeq DEF m
      <4> QED BY <1>3, <1>10, <3>1, <4>1 DEF m
    <3> QED BY <1>6, <1>10, <3>1, <3>2
  <2>5. \A i, j \in 1 .. m - 1 :
           i < j => slot'[display'[i]].frame < slot'[display'[j]].frame
    <3> SUFFICES ASSUME NEW i \in 1 .. m - 1, NEW j \in 1 .. m - 1, i < j
                 PROVE  slot'[display'[i]].frame < slot'[display'[j]].frame
      OBVIOUS
    <3>1. i + 1 \in 1 .. m /\ j + 1 \in 1 .. m /\ i + 1 < j + 1
      BY <1>10
    <3>2. slot[display[i + 1]].frame < slot[display[j + 1]].frame
      BY <1>3, <3>1 DEF DisplayInOrder, m
    <3> QED BY <2>4, <3>2
  <2> QED BY <1>10, <2>1, <2>2, <2>3, <2>5 DEF DisplayInOrder
<1>14. ShownInTime'
  <2>1. \A i \in Slots : Writer(i)' => Shown(i)'
    BY <1>3, <1>4, <1>5 DEF ShownInTime
  <2>2. \A i \in Slots : Shown(i)' => Writer(i)'
    BY <1>3, <1>4, <1>5 DEF ShownInTime
  <2>3. \A t \in HalTasks : InHardware(t)' => ref0' = taskInfo'[t].output
    BY <1>1, <1>2, <1>3 DEF ShownInTime
  <2>4. halAt' \in {"slots", "display"} /\ ~Parsed' /\ (\A t \in HalTasks : ~InHardware(t)') =>
           ref0' = halInfo'.output
    BY <1>1, <1>2, <1>3 DEF ShownInTime
  <2> QED BY <2>1, <2>2, <2>3, <2>4 DEF ShownInTime
<1>15. PicturesNamed'
  <2>1. Parsed => cur.output \in Slots /\ Writer(cur.output)
    BY UsersTyped DEF Writer, NewWriter
  <2>2. \A t \in HalTasks : InHardware(t) =>
           taskInfo[t].output \in Slots /\ Writer(taskInfo[t].output)
    <3>1. \A t \in HalTasks : taskInfo[t].output \in Slots \union {NoSlot}
      BY TaskNumbers DEF Infos
    <3> QED BY <1>3, <3>1 DEF Writer, NewWriter, WritersApart
  <2> QED BY <1>1, <1>2, <1>3, <1>4, <1>6, <2>1, <2>2 DEF PicturesNamed
<1>16. BuffersApart'
  <2>1. /\ OutBuffers \subseteq extraRef
        /\ \A i, j \in Slots :
              slot[i].buffer # NoBuffer /\ i # j => slot[j].buffer # slot[i].buffer
        /\ \A i \in Slots :
              Shown(i) /\ slot[i].buffer # NoBuffer =>
                  slot[i].buffer \in extraRef /\ slot[i].buffer \notin OutBuffers
        /\ \A i \in 1 .. n :
              frames[i].buffer # NoBuffer =>
                  /\ frames[i].buffer \notin held
                  /\ \A j \in 1 .. n : frames[j].buffer = frames[i].buffer => j = i
    BY <1>3 DEF BuffersApart, n
  <2>2. f.buffer # NoBuffer => f.buffer \in extraRef /\ f.buffer \notin OutBuffers
    BY <1>4, <2>1
  <2>3. \A i \in 1 .. n : frames[i].buffer # NoBuffer => frames[i].buffer \in OutBuffers
    BY DEF OutBuffers, FrameBuffers, n
  <2>4. OutBuffers' \subseteq OutBuffers \union ({f.buffer} \ {NoBuffer})
    <3> SUFFICES ASSUME NEW b \in FrameBuffers'
                 PROVE  b \in OutBuffers \union ({f.buffer} \ {NoBuffer})
      BY <1>1 DEF OutBuffers
    <3>1. PICK i \in 1 .. n + 1 : frames'[i].buffer = b /\ b # NoBuffer
      BY <1>9 DEF FrameBuffers
    <3>2. CASE i \in 1 .. n
      BY <1>9, <2>3, <3>1, <3>2
    <3>3. CASE i = n + 1
      BY <1>9, <3>1, <3>3
    <3> QED BY <1>9, <3>1, <3>2, <3>3
  <2>5. \A i \in 1 .. n + 1 :
           frames'[i].buffer # NoBuffer =>
               /\ frames'[i].buffer \notin held
               /\ \A j \in 1 .. n + 1 : frames'[j].buffer = frames'[i].buffer => j = i
    <3>1. f.buffer # NoBuffer =>
             f.buffer \notin held /\ \A i \in 1 .. n : frames[i].buffer # f.buffer
      BY <2>2, <2>3 DEF OutBuffers
    <3>2. ASSUME NEW i \in 1 .. n, frames'[i].buffer # NoBuffer
          PROVE  /\ frames'[i].buffer \notin held
                 /\ \A j \in 1 .. n + 1 : frames'[j].buffer = frames'[i].buffer => j = i
      BY <1>9, <2>1, <3>1, <3>2
    <3>3. f.buffer # NoBuffer =>
             /\ f.buffer \notin held
             /\ \A j \in 1 .. n + 1 : frames'[j].buffer = f.buffer => j = n + 1
      BY <1>9, <3>1
    <3> QED BY <1>9, <3>2, <3>3
  <2>6. \A i, j \in Slots :
           slot'[i].buffer # NoBuffer /\ i # j => slot'[j].buffer # slot'[i].buffer
    BY <1>6, <2>1
  <2>7. \A i \in Slots :
           Shown(i)' /\ slot'[i].buffer # NoBuffer =>
               /\ slot'[i].buffer \in extraRef /\ slot'[i].buffer \notin OutBuffers
               /\ slot'[i].buffer # f.buffer
    BY <1>4, <1>5, <1>6, <2>1
  <2>8. OutBuffers' \subseteq extraRef
    BY <2>1, <2>2, <2>4
  <2>9. \A i \in Slots :
           Shown(i)' /\ slot'[i].buffer # NoBuffer =>
               slot'[i].buffer \in extraRef /\ slot'[i].buffer \notin OutBuffers'
    BY <2>4, <2>7
  <2> QED BY <1>1, <1>9, <2>5, <2>6, <2>8, <2>9 DEF BuffersApart
<1>17. ChangeAnnounced'
  <2>1. /\ infoChanged' => Parsed'
        /\ userAt' # "app" => "infoGen" \in ready' /\ infoChanged'
    BY <1>1, <1>2, <1>3 DEF ChangeAnnounced
  <2>2. \A i \in 1 .. n + 1 : frames'[i].kind = "info" => i \in 1 .. n /\ frames[i].kind = "info"
    BY <1>4, <1>9
  <2>3. \A t \in HalTasks : Announced(t)' => Announced(t) /\ taskInfo'[t] = taskInfo[t]
    BY <1>1, <1>2, <1>7 DEF Announced, SameSent
  <2>4. \A i \in 1 .. n :
           frames[i].kind = "info" =>
               /\ "infoGen" \in ready /\ infoChanged /\ userAt = "app"
               /\ \A j \in 1 .. n : frames[j].kind = "info" => j = i
    BY <1>3 DEF ChangeAnnounced, n
  <2>5. \A i \in 1 .. n + 1 :
           frames'[i].kind = "info" =>
               /\ "infoGen" \in ready' /\ infoChanged' /\ userAt' = "app"
               /\ \A j \in 1 .. n + 1 : frames'[j].kind = "info" => j = i
    BY <1>1, <2>2, <2>4
  <2>6. \A t \in HalTasks :
           Announced(t)' =>
               /\ "infoGen" \in ready' /\ infoChanged' /\ userAt' = "app"
               /\ taskInfo'[t].output = cur'.output /\ taskInfo'[t].id = cur'.id
               /\ \A u \in HalTasks : Announced(u)' => u = t
               /\ \A i \in 1 .. n : frames[i].kind # "info"
    BY <1>1, <1>3, <2>3 DEF ChangeAnnounced, n
  <2>7. \A t \in HalTasks :
           Announced(t)' => \A i \in 1 .. n + 1 : frames'[i].kind # "info"
    BY <2>2, <2>6
  <2> QED BY <1>9, <2>1, <2>5, <2>6, <2>7 DEF ChangeAnnounced
<1> QED BY <1>1, <1>8, <1>11, <1>12, <1>13, <1>14, <1>15, <1>16, <1>17 DEF FramesKept

-----------------------------------------------------------------------------
(***************************************************************************)
(* The parser takes a slot.                                                *)
(***************************************************************************)
(* When no picture is in hand, only the reference, and what the HAL thread *)
(* has not let go of yet, is in use: that is two slots.                    *)
LEMMA TwoInUse ==
    ASSUME IInv, SlotsKept, FramesKept, \A t \in HalTasks : ~InHardware(t), ~Parsed,
           FreeSlots = {}
    PROVE  SlotCount < 3
<1>1. /\ SlotsFlagged /\ ShownInTime
      /\ \A i : Readers(i) \in 0 .. 2
  BY UseFacts DEF SlotsKept, FramesKept
<1>2. \A i : ~NewWriter(i) /\ ~NewReader(i)
  BY DEF NewWriter, NewReader
<1>3. ASSUME NEW i \in Slots
      PROVE  i = ref0 \/ i = halInfo.refer
  <2>1. slot[i].onUsed
    BY DEF FreeSlots
  <2>2. Writer(i) \/ i = ref0 \/ Shown(i) \/ Readers(i) > 0
    BY <1>1, <2>1 DEF SlotsFlagged, Flagged
  <2>3. Readers(i) > 0 => i = halInfo.refer
    BY <1>2 DEF Readers, LateReader
  <2>4. Writer(i) \/ Shown(i) => halAt \in {"slots", "display"} /\ i = halInfo.output
    BY <1>1, <1>2 DEF Writer, LateWriter, ShownInTime
  <2>5. Writer(i) \/ Shown(i) => i = ref0
    BY <1>1, <2>4 DEF ShownInTime
  <2> QED BY <2>2, <2>3, <2>5
<1>4. SlotCount >= 3 => 1 \in Slots /\ 2 \in Slots /\ 3 \in Slots
  BY SlotsAssumption DEF Slots
<1>5. ~(SlotCount >= 3)
  BY <1>3, <1>4
<1> QED BY <1>5, SlotsAssumption

(* A picture that is queued for display follows those that are there.      *)
LEMMA QueuedLast ==
    ASSUME NEW S, NEW s \in Seq(S), NEW i \in S, i \notin ToSet(s)
    PROVE  /\ Len(s) \in Nat /\ Len(Enqueued(s, i)) = Len(s) + 1
           /\ \A k \in 1 .. Len(s) : Enqueued(s, i)[k] = s[k]
           /\ Enqueued(s, i)[Len(s) + 1] = i
<1>1. Enqueued(s, i) = Append(s, i)
  BY DEF Enqueued, Unqueued
<1> QED BY <1>1, AppendProperties, LenProperties

LEMMA ParserParsesFrames ==
    ASSUME IInv, ~aborted, SlotsKept, ~aborted' => SlotsKept', FramesKept, ParserParses
    PROVE  /\ ~aborted' => FramesKept'
           /\ aborted' => /\ SlotCount < 3
                          /\ UNCHANGED <<slot, display, frames, held, extraRef, resets>>
<1>1. /\ SlotsFlagged /\ WritersApart /\ PictureInHand /\ StatusBits /\ OneInFlight
      /\ slot \in [Slots -> SlotEntries] /\ display \in Seq(Slots)
      /\ ThreadTypes /\ ChangeAnnounced /\ BuffersApart /\ PicturesNamed /\ TasksInOrder
      /\ FramesInOrder /\ DisplayInOrder /\ FramesFirst /\ ShownInTime
  BY UseFacts, TypeParts DEF SlotsKept, IInv, FramesKept
<1>2. /\ "curr" \in ready /\ "parsed" \notin ready /\ "prev" \in ready
      /\ "infoGen" \notin ready
      /\ cur \in Infos /\ cur.id \in Packets
      /\ ready' = ready \union {"parsed"} /\ parserAt' = "change" /\ parserAt = "parse"
      /\ put' = put /\ packets' = packets /\ scenario' = scenario /\ resets' = resets
      /\ frames' = frames /\ held' = held /\ extraRef' = extraRef /\ userAt' = userAt
      /\ halAt' = halAt /\ halInfo' = halInfo /\ halTask' = halTask
      /\ UNCHANGED groupVars
  BY <1>1 DEF ParserParses, StatusBits, PictureSteps, AloneSteps, PictureInHand, ThreadTypes,
              userVars, halVars, outVars
<1>3. /\ \A t \in HalTasks : ~InHardware(t) /\ ~InHardware(t)'
      /\ ~Parsed
  <2>1. \A t \in HalTasks : ~InHardware(t)
    BY <1>1, <1>2 DEF OneInFlight, InFlight
  <2>2. \A t : InHardware(t)' <=> InHardware(t)
    BY <1>2, GroupSame
  <2> QED BY <1>2, <2>1, <2>2 DEF Parsed
<1>4. /\ Pulled' = Pulled /\ HalCalm /\ taskInfo' = taskInfo
      /\ SameSent
  BY <1>2 DEF Pulled, HalCalm, SameSent, Sent, groupVars
<1>5. CASE ~Usable
  <2>1. /\ cur' = [cur EXCEPT !.valid = FALSE, !.output = NoSlot]
        /\ slot' = slot /\ display' = display /\ ref0' = ref0 /\ infoChanged' = infoChanged
        /\ aborted' = aborted
    BY <1>5 DEF ParserParses, slotVars
  <2>2. cur'.output = NoSlot /\ cur'.id = cur.id
    BY <1>2, <2>1 DEF Infos
  <2>3. SameUse
    BY <1>2, <1>3, <2>1, <2>2 DEF SameUse, Parsed
  <2>4. FramesKept'
    BY <1>2, <1>4, <2>1, <2>2, <2>3, QuietStep
  <2> QED BY <2>1, <2>4
<1>6. CASE Usable /\ FreeSlots = {}
  <2>1. SlotCount < 3
    BY <1>3, <1>6, TwoInUse
  <2>2. aborted' /\ slot' = slot /\ display' = display
    BY <1>6 DEF ParserParses, Abort, slotVars
  <2> QED BY <1>2, <2>1, <2>2
<1>7. CASE Usable /\ FreeSlots # {}
  <2>1. PICK out \in Slots : out = FirstFree /\ ~slot[out].onUsed
    BY <1>7, FirstFreeFound DEF FreeSlots
  <2>2. PICK ref \in Slots \union {NoSlot} : ref = Refer
    BY <1>1 DEF Refer, ThreadTypes
  <2>3. /\ slot' = ParsedSlots(out) /\ display' = Enqueued(display, out)
        /\ cur' = [cur EXCEPT !.output = out, !.refer = ref] /\ ref0' = out
        /\ aborted' = aborted
    BY <1>7, <2>1, <2>2 DEF ParserParses
  <2>4. cur'.output = out /\ cur'.id = cur.id /\ cur.id = Pulled
    BY <1>1, <1>2, <2>1, <2>2, <2>3 DEF Infos, TasksInOrder
  <2>5. Parsed'
    <3>1. NoSlot \notin Slots
      BY SlotsAssumption DEF Slots
    <3> QED BY <1>2, <2>4, <3>1 DEF Parsed
  <2>6. SlotsFlagged'
    BY <2>3 DEF SlotsKept
  <2>7. ~Writer(out) /\ ~Shown(out)
    BY <1>1, <2>1 DEF SlotsFlagged, Flagged
  <2>8. /\ display' \in Seq(Slots) /\ Len(display) \in Nat /\ Len(display') = Len(display) + 1
        /\ \A k \in 1 .. Len(display) : display'[k] = display[k]
        /\ display'[Len(display) + 1] = out
        /\ \A k \in 1 .. Len(display) : display[k] \in Slots /\ Shown(display[k])
        /\ ToSet(display') = ToSet(display) \union {out}
    <3>1. display' \in Seq(Slots)
      <4>1. display' = Append(display, out)
        BY <2>3, <2>7 DEF Shown, Enqueued, Unqueued
      <4> QED BY <1>1, <4>1, AppendProperties
    <3>2. ToSet(display') = ToSet(display) \union {out}
      BY <2>3, UseFacts, EnqueuedSlot
    <3>3. /\ Len(display) \in Nat /\ Len(display') = Len(display) + 1
          /\ \A k \in 1 .. Len(display) : display'[k] = display[k]
          /\ display'[Len(display) + 1] = out
      BY <1>1, <2>3, <2>7, QueuedLast DEF Shown
    <3>4. \A k \in 1 .. Len(display) : display[k] \in Slots /\ Shown(display[k])
      BY <1>1, FrameNumbers
    <3> QED BY <3>1, <3>2, <3>3, <3>4
  <2>9. \A i : /\ Shown(i)' <=> Shown(i) \/ i = out
               /\ Writer(i) <=> LateWriter(i)
               /\ Writer(i)' <=> i = out \/ LateWriter(i)
    <3>1. \A i : /\ ~NewWriter(i)
                 /\ NewWriter(i)' <=> i = out
                 /\ LateWriter(i)' <=> LateWriter(i)
      BY <1>2, <1>3, <2>4, <2>5 DEF NewWriter, LateWriter
    <3> QED BY <2>8, <3>1 DEF Writer, Shown
  <2>10. slot'[out].frame = cur.id /\ slot'[out].buffer = NoBuffer
    <3>1. PICK e \in SlotEntries, id \in Packets : e = slot[out] /\ id = cur.id
      BY <1>1, <1>2
    <3>2. NoFrame \notin Packets
      BY PacketNumbers
    <3>3. Flagged(e, FALSE, FALSE, FALSE, 0) /\ out # ref0
      <4>1. Flagged(slot[out], Writer(out), out = ref0, Shown(out), Readers(out))
        BY <1>1 DEF SlotsFlagged
      <4>2. Readers(out) \in 0 .. 2
        BY UseFacts
      <4>3. Readers(out) = 0 /\ out # ref0
        BY <2>1, <4>1, <4>2 DEF Flagged
      <4> QED BY <2>7, <3>1, <4>1, <4>3 DEF Flagged
    <3>4. LET d == SetFlag(SetFlag(SetFlag(SetFlag([Taken(e) EXCEPT !.frame = id],
                    "HAL_OUTPUT"), "CODEC_USE"), "QUEUE_USE"), "QUEUE_USE")
           IN  /\ Flagged(d, TRUE, TRUE, TRUE, 0)
               /\ d.frame = id /\ d.buffer = NoBuffer
      BY <3>1, <3>2, <3>3, PictureTakes, ZenonT(60)
    <3>5. slot'[out] = SetFlag(SetFlag(SetFlag(SetFlag([Taken(e) EXCEPT !.frame = id],
                        "HAL_OUTPUT"), "CODEC_USE"), "QUEUE_USE"), "QUEUE_USE")
      BY <2>3, <3>1, <3>3 DEF ParsedSlots
    <3> QED BY <3>1, <3>4, <3>5
  <2>11. ASSUME NEW i \in Slots, i # out
         PROVE  /\ Shown(i)' \/ Writer(i)' => slot'[i].frame = slot[i].frame
                /\ slot'[i].buffer # NoBuffer => slot'[i].buffer = slot[i].buffer
    <3>1. PICK e \in SlotEntries : e = slot[i]
      BY <1>1
    <3>2. PICK d \in SlotEntries : /\ d = (IF i = ref THEN SetFlag(e, "HAL_INPUT") ELSE e)
                                   /\ SameContent(d, e)
      BY <3>1, ReadContent DEF SameContent
    <3>3. slot'[i] = IF i = ref0 THEN ClrFlag(d, "CODEC_USE") ELSE d
      BY <2>2, <2>3, <2>11, <3>1, <3>2 DEF ParsedSlots
    <3>4. ClrFlag(d, "CODEC_USE").onUsed => SameContent(ClrFlag(d, "CODEC_USE"), d)
      BY <3>2, ClearedContent
    <3>5. ContentKept(i)
      BY <3>1, <3>2, <3>3, <3>4 DEF ContentKept, SameContent
    <3> QED BY <2>6, <3>5, KeptContent DEF SameContent
  <2>12. TasksInOrder' /\ Later
    BY <1>1, <1>4, <2>4, CalmHal, SentSame DEF PulledOn, InOrder
  <2>13. ChangeAnnounced'
    <3>1. /\ \A t \in HalTasks : ~Announced(t)
          /\ \A k \in 1 .. Len(frames) : frames[k].kind # "info"
          /\ userAt = "app"
      BY <1>1, <1>2, NoChange
    <3>2. \A t \in HalTasks : ~Announced(t)'
      BY <1>4, <3>1, CalmAnnounced
    <3> QED BY <1>2, <2>5, <3>1, <3>2, NoneAnnounced
  <2>14. BuffersApart'
    <3>1. OutBuffers' = OutBuffers
      BY <1>2 DEF OutBuffers, FrameBuffers
    <3>2. \A i, j \in Slots :
             slot'[i].buffer # NoBuffer /\ i # j => slot'[j].buffer # slot'[i].buffer
      BY <1>1, <2>10, <2>11 DEF BuffersApart
    <3>3. \A i \in Slots :
             Shown(i)' /\ slot'[i].buffer # NoBuffer =>
                 slot'[i].buffer \in extraRef /\ slot'[i].buffer \notin OutBuffers
      BY <1>1, <2>9, <2>10, <2>11 DEF BuffersApart
    <3> QED BY <1>1, <1>2, <3>1, <3>2, <3>3 DEF BuffersApart
  <2>15. PicturesNamed'
    <3>1. halAt = "slots" => halInfo.output \in Slots /\ slot[halInfo.output].frame = halInfo.id
      BY <1>1 DEF WritersApart, ThreadTypes, Infos, PicturesNamed
    <3>2. ASSUME halAt = "slots"
          PROVE  slot'[halInfo.output].frame = halInfo.id
      <4>1. PICK h \in Slots : h = halInfo.output /\ slot[h].frame = halInfo.id
        BY <3>1, <3>2
      <4>2. LateWriter(h)
        BY <3>2, <4>1 DEF LateWriter
      <4>3. h # out /\ Writer(h)'
        BY <2>7, <2>9, <4>2
      <4> QED BY <2>11, <4>1, <4>3
    <3> QED BY <1>2, <1>3, <2>4, <2>10, <3>2 DEF PicturesNamed
  <2>16. FramesInOrder' /\ FramesFirst'
    <3>1. \A i \in 1 .. Len(frames) :
             frames[i].id \in Packets /\ frames[i].id \in Nat /\ Past(frames[i].id)
      BY <1>1, PacketNumbers DEF FramesInOrder
    <3>2. ASSUME NEW i \in 1 .. Len(frames)
          PROVE  \E n \in Nat : n = frames[i].id /\ Past(n)'
      <4>1. PICK n \in Nat : n = frames[i].id /\ Past(n)
        BY <3>1
      <4>2. Past(n)'
        BY <2>12, <4>1 DEF Later
      <4> QED BY <4>1, <4>2
    <3>3. Packets' = Packets
      BY <1>2, SameScenario
    <3>4. FramesInOrder'
      BY <1>1, <1>2, <3>1, <3>2, <3>3 DEF FramesInOrder, Past
    <3>5. \A i \in 1 .. Len(frames) : frames[i].id <= Pulled
      BY <3>1 DEF Past
    <3>6. halAt \in PutSteps => halInfo.id <= Pulled
      BY <1>1 DEF TasksInOrder, Working, PutSteps
    <3>7. \A j \in Slots : Shown(j)' => slot'[j].frame = IF j = out THEN Pulled ELSE slot[j].frame
      BY <2>4, <2>10, <2>11
    <3>8. FramesFirst'
      BY <1>1, <1>2, <2>9, <3>5, <3>6, <3>7 DEF FramesFirst
    <3> QED BY <3>4, <3>8
  <2>17. DisplayInOrder'
    <3>1. /\ \A i \in Slots : Shown(i) => slot[i].frame <= Pulled /\ slot[i].frame < Pulled
          /\ \A i \in Slots : Shown(i) => slot[i].frame \in Nat
          /\ Pulled \in Int
      BY <1>1, <1>2, FrameNumbers, TaskNumbers DEF DisplayInOrder
    <3>2. \A j \in Slots : Shown(j)' => slot'[j].frame = IF j = out THEN Pulled ELSE slot[j].frame
      BY <2>4, <2>10, <2>11
    <3>3. \A i \in Slots : Shown(i)' => slot'[i].frame <= Pulled'
      BY <1>4, <2>9, <3>1, <3>2
    <3>4. ASSUME NEW i \in Slots, Shown(i)', ~Writer(i)'
          PROVE  \E n \in Nat : n = slot'[i].frame /\ Past(n)'
      <4>1. i # out /\ Shown(i) /\ ~Writer(i)
        BY <2>9, <3>4
      <4>2. PICK n \in Nat : n = slot[i].frame /\ Past(n)
        BY <1>1, <3>1, <4>1 DEF DisplayInOrder
      <4>3. Past(n)'
        BY <2>12, <4>2 DEF Later
      <4> QED BY <3>2, <3>4, <4>1, <4>2, <4>3
    <3>6. ASSUME NEW i \in 1 .. Len(display'), NEW j \in 1 .. Len(display'), i < j
          PROVE  slot'[display'[i]].frame < slot'[display'[j]].frame
      <4>1. i \in 1 .. Len(display) /\ display'[i] = display[i]
        BY <2>8, <3>6
      <4>2. PICK s \in Slots : /\ s = display'[i] /\ s = display[i] /\ Shown(s) /\ s # out
                               /\ slot'[s].frame = slot[s].frame /\ slot[s].frame < Pulled
        BY <2>7, <2>8, <2>9, <3>1, <3>2, <4>1
      <4>3. CASE j = Len(display) + 1
        BY <2>4, <2>8, <2>10, <4>2, <4>3
      <4>4. CASE j # Len(display) + 1
        <5>1. j \in 1 .. Len(display)
          BY <2>8, <4>4
        <5>2. PICK r \in Slots : /\ r = display'[j] /\ r = display[j]
                                 /\ slot'[r].frame = slot[r].frame
          BY <2>7, <2>8, <2>9, <3>2, <5>1
        <5>3. slot[s].frame < slot[r].frame
          BY <1>1, <3>6, <4>1, <4>2, <5>1, <5>2 DEF DisplayInOrder
        <5> QED BY <4>2, <5>2, <5>3
      <4> QED BY <4>3, <4>4
    <3>7. "parsed" \in ready'
      BY <1>2
    <3> QED BY <3>3, <3>4, <3>6, <3>7 DEF DisplayInOrder, Past
  <2>18. ShownInTime'
    <3>1. \A i \in Slots : Writer(i)' => Shown(i)'
      BY <1>1, <2>9 DEF ShownInTime
    <3>2. \A i \in Slots : Shown(i)' /\ ~Writer(i)' => halAt' = "display" /\ i = halInfo'.output
      BY <1>1, <1>2, <2>9 DEF ShownInTime
    <3> QED BY <1>3, <2>5, <3>1, <3>2 DEF ShownInTime
  <2> QED BY <2>3, <2>12, <2>13, <2>14, <2>15, <2>16, <2>17, <2>18 DEF FramesKept
<1> QED BY <1>5, <1>6, <1>7

-----------------------------------------------------------------------------
(***************************************************************************)
(* What the invariant says to the user.                                    *)
(***************************************************************************)
(* Two lists in order, the first before the second.                        *)
LEMMA JoinedOrder ==
    ASSUME NEW a \in Seq(Int), NEW b \in Seq(Int),
           \A i, j \in 1 .. Len(a) : i < j => a[i] <= a[j],
           \A i, j \in 1 .. Len(b) : i < j => b[i] <= b[j],
           \A i \in 1 .. Len(a) : \A j \in 1 .. Len(b) : a[i] <= b[j]
    PROVE  \A i, j \in 1 .. Len(a \o b) : i < j => (a \o b)[i] <= (a \o b)[j]
<1>1. /\ Len(a) \in Nat /\ Len(b) \in Nat /\ Len(a \o b) = Len(a) + Len(b)
      /\ \A k \in 1 .. Len(a) + Len(b) :
            (a \o b)[k] = IF k <= Len(a) THEN a[k] ELSE b[k - Len(a)]
  BY ConcatProperties, LenProperties
<1> SUFFICES ASSUME NEW i \in 1 .. Len(a) + Len(b), NEW j \in 1 .. Len(a) + Len(b), i < j
             PROVE  (a \o b)[i] <= (a \o b)[j]
  BY <1>1
<1>2. CASE j <= Len(a)
  <2>1. i \in 1 .. Len(a) /\ j \in 1 .. Len(a) /\ i <= Len(a)
    BY <1>1, <1>2
  <2> QED BY <1>1, <1>2, <2>1
<1>3. CASE i <= Len(a) /\ j > Len(a)
  <2>1. i \in 1 .. Len(a) /\ j - Len(a) \in 1 .. Len(b) /\ ~(j <= Len(a))
    BY <1>1, <1>3
  <2> QED BY <1>1, <1>3, <2>1
<1>4. CASE i > Len(a)
  <2>1. /\ i - Len(a) \in 1 .. Len(b) /\ j - Len(a) \in 1 .. Len(b)
        /\ i - Len(a) < j - Len(a) /\ ~(i <= Len(a)) /\ ~(j <= Len(a))
    BY <1>1, <1>4
  <2> QED BY <1>1, <2>1
<1> QED BY <1>1, <1>2, <1>3, <1>4

LEMMA OrderFollows ==
    ASSUME IInv, SlotsKept, FramesKept
    PROVE  HardwareTargetPrivate /\ DeliveredInOrder
<1>1. /\ SlotsFlagged /\ BuffersApart /\ FramesInOrder /\ DisplayInOrder /\ FramesFirst
      /\ ShownInTime
  BY DEF SlotsKept, FramesKept
<1>2. HardwareTargetPrivate
  <2>1. \A i \in Slots : slot[i].halOutput => Shown(i)
    BY <1>1 DEF SlotsFlagged, Flagged, ShownInTime
  <2> QED BY <1>1, <2>1 DEF HardwareTargetPrivate, BuffersApart
<1>3. DeliveredInOrder
  <2> DEFINE a == [i \in 1 .. Len(frames) |-> frames[i].id]
             b == [i \in 1 .. Len(display) |-> slot[display[i]].frame]
  <2>1. /\ Len(frames) \in Nat /\ Len(display) \in Nat
        /\ \A i \in 1 .. Len(frames) : frames[i].id \in Int
        /\ \A i \in 1 .. Len(display) : /\ display[i] \in Slots /\ Shown(display[i])
                                        /\ slot[display[i]].frame \in Int
    <3>1. \A i \in 1 .. Len(frames) : frames[i].id \in Int
      BY <1>1, FrameNumbers DEF FramesInOrder
    <3>2. /\ Len(frames) \in Nat /\ Len(display) \in Nat
          /\ \A i \in 1 .. Len(display) : display[i] \in Slots /\ Shown(display[i])
          /\ \A i \in Slots : Shown(i) => slot[i].frame \in Int
      BY <1>1, FrameNumbers
    <3> QED BY <3>1, <3>2
  <2>2. a \in Seq(Int) /\ Len(a) = Len(frames)
    BY <2>1, LenProperties
  <2>3. b \in Seq(Int) /\ Len(b) = Len(display)
    BY <2>1, LenProperties
  <2>4. \A i, j \in 1 .. Len(a) : i < j => a[i] <= a[j]
    BY <1>1, <2>2 DEF FramesInOrder
  <2>5. \A i, j \in 1 .. Len(b) : i < j => b[i] <= b[j]
    BY <1>1, <2>1, <2>3 DEF DisplayInOrder
  <2>6. \A i \in 1 .. Len(a) : \A j \in 1 .. Len(b) : a[i] <= b[j]
    BY <1>1, <2>1, <2>2, <2>3 DEF FramesFirst
  <2>7. Delivery = a \o b
    BY DEF Delivery
  <2> HIDE DEF a, b
  <2> QED BY <2>2, <2>3, <2>4, <2>5, <2>6, <2>7, JoinedOrder DEF DeliveredInOrder
<1> QED BY <1>2, <1>3

(* Nothing is under way.                                                   *)
LEMMA InitFrames == Init => FrameInv
<1> SUFFICES ASSUME Init PROVE FrameInv
  OBVIOUS
<1>1. /\ slot = [i \in Slots |-> Unused] /\ display = <<>> /\ frames = <<>> /\ held = {}
      /\ extraRef = {} /\ aborted = FALSE /\ infoChanged = FALSE /\ userAt = "app"
      /\ ready = {"prev"} /\ halAt = "get" /\ taskList["PROCESSING"] = <<>>
      /\ \A i \in Slots : slot[i].buffer = NoBuffer
  BY DEF Init, SlotsInit, GroupInit, HalTaskStatuses, Unused
<1>2. /\ \A t \in HalTasks : ~Sent(t) /\ ~InHardware(t)
      /\ ~Working /\ ~Parsed
      /\ \A i : ~Shown(i)
  <2>1. \A t \in HalTasks : taskStatus[t] = "IDLE"
    BY DEF Init, GroupInit
  <2>2. \A i : ~Shown(i)
    BY <1>1, EmptyList DEF Shown
  <2> QED BY <1>1, <2>1, <2>2 DEF Sent, InHardware, Working, Parsed
<1>3. \A i : ~Writer(i)
  BY <1>1, <1>2 DEF Writer, NewWriter, LateWriter
<1>4. Len(frames) = 0 /\ Len(display) = 0 /\ Len(taskList["PROCESSING"]) = 0 /\ OutBuffers = {}
  BY <1>1 DEF OutBuffers, FrameBuffers
<1>5. ChangeAnnounced /\ PicturesNamed /\ TasksInOrder
  BY <1>1, <1>2, <1>4 DEF ChangeAnnounced, Announced, PicturesNamed, TasksInOrder, Ordered
<1>6. BuffersApart /\ FramesInOrder
  BY <1>1, <1>2, <1>4 DEF BuffersApart, FramesInOrder
<1>7. DisplayInOrder /\ FramesFirst /\ ShownInTime
  BY <1>1, <1>2, <1>3, <1>4 DEF DisplayInOrder, FramesFirst, ShownInTime, PutSteps
<1> QED BY <1>1, <1>5, <1>6, <1>7 DEF FrameInv, FramesKept

LEMMA ResetsNumber == IInv => resets \in Nat
BY TypeParts, StreamTypes DEF IInv, UserTypes

(* A reset is counted; nothing takes it back.                              *)
LEMMA ResetsCounted == IInv /\ Next /\ resets' = 0 => resets = 0
<1> SUFFICES ASSUME IInv, Next PROVE resets' = resets \/ resets' = resets + 1
  BY ResetsNumber
<1>1. CASE User
  BY <1>1 DEF User, UserPuts, UserGets, UserReleases, UserCommits, UserReadies,
              UserFlushesPackets, UserFlushesFrames, UserRaisesFlag
<1>2. CASE Parser
  <2>1. CASE \/ ParserTop \/ ParserChecks \/ ParserTries \/ PullNothing \/ PullEos
             \/ PullPicture \/ ParserWaitsPrevious \/ ParserChecksGroup \/ ParserParses
    BY <2>1 DEF ParserTop, ParserChecks, ParserTries, PullNothing, PullEos, PullPicture,
                ParserWaitsPrevious, ParserChecksGroup, ParserParses, ParserLocal, userVars
  <2>2. CASE \/ ParserAnnouncesChange \/ ParserWaitsChange \/ ParserNeedsNoChange
             \/ ParserDrops \/ ParserSubmits
    BY <2>2 DEF ParserAnnouncesChange, ParserWaitsChange, ParserNeedsNoChange, ParserDrops,
                ParserSubmits, ParserLocal, userVars
  <2>3. CASE ResetTakesPrevious \/ ResetClears \/ ResetDrains \/ ResetEnds
    BY <2>3 DEF ResetTakesPrevious, ResetClears, ResetDrains, ResetEnds, userVars
  <2> QED BY <1>2, <2>1, <2>2, <2>3 DEF Parser
<1>3. CASE Hal
  BY <1>3 DEF Hal, HalGets, HalDisplays, HalDisplayEnds, HalPuts, HalIdles, HalHardwareEnds,
              HalMarksDone, HalClearsSlots, userVars
<1> QED BY <1>1, <1>2, <1>3 DEF Next

(* What a user is told when the process ends stays what he was told.       *)
LEMMA AbortedFrames ==
    ASSUME HardwareTargetPrivate, DeliveredInOrder,
           UNCHANGED <<slot, display, frames, held, extraRef, resets>>
    PROVE  HardwareTargetPrivate' /\ DeliveredInOrder'
<1>1. OutBuffers' = OutBuffers /\ Delivery' = Delivery
  BY DEF OutBuffers, FrameBuffers, Delivery
<1>2. HardwareTargetPrivate'
  BY <1>1 DEF HardwareTargetPrivate
<1>3. DeliveredInOrder'
  BY <1>1 DEF DeliveredInOrder
<1> QED BY <1>2, <1>3

(* A step of none of the threads.                                          *)
LEMMA StutterFrames == IInv /\ SlotInv /\ FrameInv /\ UNCHANGED vars => FrameInv'
<1> SUFFICES ASSUME IInv, SlotInv, FrameInv, UNCHANGED vars, resets' = 0
             PROVE  /\ IF aborted' THEN HardwareTargetPrivate' /\ DeliveredInOrder'
                       ELSE FramesKept'
                    /\ SlotCount >= 3 => ~aborted'
  BY DEF FrameInv
<1>1. /\ UNCHANGED groupVars /\ UNCHANGED slotVars
      /\ UNCHANGED <<aborted, parserAt, put, packets, resets, scenario, userAt, frames, held>>
      /\ UNCHANGED <<extraRef, cur, ready, ref0, halAt, halInfo, halTask>>
  BY DEF vars, userVars, outVars, parserVars, halVars
<1>2. aborted => HardwareTargetPrivate' /\ DeliveredInOrder'
  BY <1>1, AbortedFrames DEF FrameInv, slotVars
<1>3. ~aborted => FramesKept'
  <2> SUFFICES ASSUME ~aborted PROVE FramesKept'
    OBVIOUS
  <2>1. SlotsKept /\ FramesKept
    BY <1>1 DEF SlotInv, FrameInv
  <2>2. Quiet
    BY <1>1 DEF Quiet, HalCalm, Pulled
  <2> QED BY <2>1, <2>2, QuietKeeps
<1> QED BY <1>1, <1>2, <1>3 DEF FrameInv

(* Without a reset, the steps of a reset are not taken; the others keep it.*)
LEMMA NextFrames == IInv /\ SlotInv /\ FrameInv /\ [Next]_vars => FrameInv'
<1> SUFFICES ASSUME IInv, SlotInv, FrameInv, Next, resets' = 0
             PROVE  /\ IF aborted' THEN HardwareTargetPrivate' /\ DeliveredInOrder'
                       ELSE FramesKept'
                    /\ SlotCount >= 3 => ~aborted'
  BY StutterFrames DEF FrameInv
<1>1. ~aborted /\ SlotsKept /\ FramesKept /\ resets = 0
  BY ResetsCounted DEF SlotInv, FrameInv, Next
<1>2. ~aborted' => SlotsKept'
  BY NextSlots DEF SlotInv
<1>3. /\ userAt \notin {"flush", "flag", "wait"} /\ ~resetFlag
      /\ parserAt \notin ResetSteps
  BY <1>1 DEF IInv, ResetHandshake
<1>4. SUFFICES \/ FramesKept' /\ ~aborted'
               \/ /\ ~aborted' => FramesKept'
                  /\ aborted' => /\ SlotCount < 3
                                 /\ UNCHANGED <<slot, display, frames, held, extraRef, resets>>
  <2>1. HardwareTargetPrivate /\ DeliveredInOrder
    BY <1>1, OrderFollows
  <2>2. aborted' /\ UNCHANGED <<slot, display, frames, held, extraRef, resets>> =>
           HardwareTargetPrivate' /\ DeliveredInOrder'
    BY <2>1, AbortedFrames
  <2> QED BY <2>2, SlotsAssumption
<1>5. CASE User
  <2>1. CASE UserPuts \/ UserGets \/ UserReleases \/ UserCommits \/ UserReadies
    BY <1>1, <2>1, QuietSteps, UserGetsFrames, UserReleasesFrames, UserReadiesFrames
  <2>2. ~UserFlushesPackets /\ ~UserFlushesFrames /\ ~UserRaisesFlag
    BY <1>1, <1>3 DEF UserFlushesPackets, UserFlushesFrames, UserRaisesFlag
  <2> QED BY <1>5, <2>1, <2>2 DEF User
<1>6. CASE Parser
  <2>1. CASE \/ ParserTop \/ ParserChecks \/ ParserTries \/ PullNothing \/ ParserChecksGroup
             \/ ParserWaitsChange \/ ParserNeedsNoChange
    BY <1>1, <2>1, QuietSteps
  <2>2. CASE PullEos \/ PullPicture \/ ParserWaitsPrevious
    BY <1>1, <2>2, PullEosFrames, PullPictureFrames, ParserWaitsPreviousFrames
  <2>3. CASE ParserParses
    BY <1>1, <1>2, <2>3, ParserParsesFrames
  <2>4. CASE ParserAnnouncesChange \/ ParserDrops \/ ParserSubmits
    BY <1>1, <2>4, ParserAnnouncesChangeFrames, ParserDropsFrames, ParserSubmitsFrames
  <2>5. ~ResetTakesPrevious /\ ~ResetClears /\ ~ResetDrains /\ ~ResetEnds
    BY <1>3 DEF ResetTakesPrevious, ResetClears, ResetDrains, ResetEnds, ResetSteps
  <2> QED BY <1>6, <2>1, <2>2, <2>3, <2>4, <2>5 DEF Parser
<1>7. CASE Hal
  <2>1. CASE HalGets \/ HalDisplayEnds \/ HalPuts \/ HalIdles \/ HalHardwareEnds \/ HalMarksDone
    BY <1>1, <2>1, HalGetsFrames, HalDisplayEndsFrames, HalPutsFrames, HalIdlesFrames,
       QuietSteps, HalMarksDoneFrames
  <2>2. CASE HalDisplays
    <3>1. ~aborted'
      BY <1>1, <2>2 DEF HalDisplays
    <3> QED BY <1>1, <1>2, <1>3, <2>2, <3>1, HalDisplaysFrames
  <2>3. CASE HalClearsSlots
    <3>1. ~aborted'
      BY <1>1, <2>3 DEF HalClearsSlots
    <3> QED BY <1>1, <1>2, <2>3, <3>1, HalClearsSlotsFrames
  <2> QED BY <1>7, <2>1, <2>2, <2>3 DEF Hal
<1> QED BY <1>5, <1>6, <1>7 DEF Next

(* Until a reset, and unless the process has aborted for want of a slot,   *)
(* the tasks, the slots and the frames are in one order, and a buffer is   *)
(* in one place, whichever thread moves them (try_proc_dec_task,           *)
(* mpp_dec_hal_thread and mpp_dec_push_display of mpp_dec.cpp).            *)
THEOREM DecFramesInvariant == Spec => []FrameInv
BY DecInvariant, DecSlotsInvariant, InitFrames, NextFrames, PTL DEF Spec

(* The hardware writes to no buffer that the user has or will get, nor to  *)
(* that of another picture, and the picture it reads from is kept          *)
(* (SLOT_HAL_OUTPUT, not_ready and SLOT_HAL_INPUT of mpp_buf_slot.cpp, the *)
(* reference of mpp_buffer_get in step 11 of try_proc_dec_task).           *)
THEOREM DecHardwareSlotsKept == Spec => []HardwareSlotsKept
<1>1. IInv /\ SlotInv /\ FrameInv /\ ReferenceKept => HardwareSlotsKept
  <2>1. IInv /\ SlotInv /\ FrameInv => HardwareTargetPrivate
    BY OrderFollows DEF SlotInv, FrameInv, HardwareTargetPrivate
  <2> QED BY <2>1 DEF HardwareSlotsKept
<1> QED BY <1>1, DecInvariant, DecSlotsInvariant, DecReferenceKept, DecFramesInvariant, PTL

(* Pictures, info changes and ends of stream reach the user in the order   *)
(* of their packets, across the task lists, the slots and the display      *)
(* queue (mpp_dec_push_display before mpp_put_frame, in                    *)
(* mpp_dec_hal_thread).                                                    *)
THEOREM DecDeliveredInOrder == Spec => []DeliveredInOrder
<1>1. IInv /\ SlotInv /\ FrameInv => DeliveredInOrder
  BY OrderFollows DEF SlotInv, FrameInv, DeliveredInOrder
<1> QED BY <1>1, DecInvariant, DecSlotsInvariant, DecFramesInvariant, PTL

(* Three slots, one for the picture in hand, one for its reference and one *)
(* that the HAL thread has not let go of, suffice until a reset: the       *)
(* assertion of mpp_buf_slot_get_unused does not fail.                     *)
THEOREM DecThreeSlotsSuffice ==
    ASSUME SlotCount >= 3
    PROVE  Spec => [](aborted => resets > 0)
<1>1. IInv /\ FrameInv => (aborted => resets > 0)
  BY ResetsNumber DEF FrameInv
<1> QED BY <1>1, DecInvariant, DecFramesInvariant, PTL

-----------------------------------------------------------------------------
(***************************************************************************)
(* The slots a reset leaves behind: the invariant.                         *)
(***************************************************************************)
(* The HAL thread is done with a picture, and does not let go of its slot  *)
(* or has not looked at the display queue since.                           *)
LetGoSteps  == {"slots", "display"}
BufferSteps == {"parse", "change", "submit"}

(* A task under way that says that the format changes, with output slot i. *)
ChangeTask(t, i) == Sent(t) /\ taskInfo[t].infoChange /\ taskInfo[t].output = i

(* The parser waits for a change of format only when it has announced it;  *)
(* a picture stays parsed only while it waits so.  The task that announced *)
(* it is not taken while the HAL thread is with the picture before.        *)
ChangeBits ==
    /\ "info_change" \in waits => "infoGen" \in ready
    /\ "parsed" \in ready /\ parserAt \notin {"change", "submit"} => "infoGen" \in ready
    /\ halAt \in LetGoSteps /\ "infoGen" \in ready =>
          \E t \in HalTasks : ChangeTask(t, cur.output)

(* A finished picture is queued while the HAL thread is at it; or it is    *)
(* one that a reset took back from a task that announces a change.         *)
ShownSlots ==
    \A i \in Slots :
        Shown(i) /\ ~Writer(i) =>
            \/ halAt = "display" /\ i = halInfo.output
            \/ halAt \in LetGoSteps /\ \E t \in HalTasks : ChangeTask(t, i)
            \/ parserAt = "resetDrain" /\ "parsed" \in ready /\ i = cur.output

(* The picture that is being written was queued last.                      *)
NewestLast == \A k \in 1 .. Len(display) : NewWriter(display[k]) => k = Len(display)

(* The reference is the latest picture, if a reset has not let it go.      *)
LatestReference ==
    /\ \A t \in HalTasks : InHardware(t) => ref0 = taskInfo[t].output
    /\ halAt \in LetGoSteps /\ ~Parsed /\ (\A t \in HalTasks : ~InHardware(t)) =>
          ref0 \in {NoSlot, halInfo.output}

(* The parser goes on with a picture only with a free buffer for it.       *)
BuffersLeft ==
    /\ parserAt \in BufferSteps /\ group # 0 => FreeBuffers # {}
    /\ group = 0 => info = 0

SupplyKept ==
    /\ ChangeBits
    /\ ShownSlots
    /\ NewestLast
    /\ LatestReference
    /\ BuffersLeft

SupplyInv ==
    IF aborted THEN SlotCount >= TaskCount + 2 => FreeSlots # {} ELSE SupplyKept

-----------------------------------------------------------------------------
(***************************************************************************)
(* Steps that leave the slots alone.                                       *)
(***************************************************************************)
(* The HAL thread goes on with what it does.                               *)
HalSame ==
    /\ halAt' = "slots" <=> halAt = "slots"
    /\ halAt' = "display" <=> halAt = "display"
    /\ halAt \in LetGoSteps => halInfo' = halInfo

(* The picture in hand stays what it is.                                   *)
HandSame ==
    /\ parserAt = "resetDrain" /\ "parsed" \in ready =>
          parserAt' = "resetDrain" /\ "parsed" \in ready' /\ cur'.output = cur.output
    /\ Parsed' <=> Parsed
    /\ Parsed => cur'.output = cur.output /\ cur'.refer = cur.refer /\ cur'.id = cur.id

ParserSame ==
    /\ "info_change" \in waits' => "infoGen" \in ready'
    /\ "parsed" \in ready' /\ parserAt' \notin {"change", "submit"} => "infoGen" \in ready'
    /\ "infoGen" \in ready' => "infoGen" \in ready /\ cur'.output = cur.output
    /\ HandSame

(* No task that the HAL thread has yet to take is changed.                 *)
ChangesStay ==
    \A t \in HalTasks :
        Sent(t) /\ taskInfo[t].infoChange => Sent(t)' /\ taskInfo'[t] = taskInfo[t]

Mild ==
    /\ HalSame /\ ParserSame /\ SameHardware
    /\ halAt \in LetGoSteps => ChangesStay
    /\ slot' = slot /\ display' = display /\ ref0' = ref0

LEMMA SlotsStay ==
    ASSUME ShownSlots, NewestLast, LatestReference,
           HalSame, HandSame, SameHardware, halAt \in LetGoSteps => ChangesStay,
           slot' = slot, display' = display, ref0' = ref0
    PROVE  /\ ShownSlots' /\ NewestLast' /\ LatestReference'
           /\ halAt' \in LetGoSteps <=> halAt \in LetGoSteps
           /\ \A i : halAt \in LetGoSteps /\ (\E t \in HalTasks : ChangeTask(t, i)) =>
                        \E t \in HalTasks : ChangeTask(t, i)'
<1>1. SameUse
  BY DEF HalSame, HandSame, SameHardware, SameUse, LetGoSteps
<1>2. \A i : /\ NewWriter(i)' <=> NewWriter(i)
             /\ Writer(i)' <=> Writer(i)
             /\ Shown(i)' <=> Shown(i)
  BY <1>1, SameUsers
<1>3. /\ halAt' \in LetGoSteps <=> halAt \in LetGoSteps
      /\ halAt \in LetGoSteps => halInfo' = halInfo
  BY DEF HalSame, LetGoSteps
<1>4. \A i : halAt \in LetGoSteps /\ (\E t \in HalTasks : ChangeTask(t, i)) =>
                \E t \in HalTasks : ChangeTask(t, i)'
  BY DEF ChangesStay, ChangeTask
<1>5. ShownSlots'
  <2>1. ASSUME NEW i \in Slots, Shown(i)', ~Writer(i)'
        PROVE  \/ halAt' = "display" /\ i = halInfo'.output
               \/ halAt' \in LetGoSteps /\ \E t \in HalTasks : ChangeTask(t, i)'
               \/ parserAt' = "resetDrain" /\ "parsed" \in ready' /\ i = cur'.output
    <3>1. \/ halAt = "display" /\ i = halInfo.output
          \/ halAt \in LetGoSteps /\ \E t \in HalTasks : ChangeTask(t, i)
          \/ parserAt = "resetDrain" /\ "parsed" \in ready /\ i = cur.output
      BY <1>2, <2>1 DEF ShownSlots
    <3> QED BY <1>3, <1>4, <3>1 DEF HalSame, HandSame, LetGoSteps
  <2> QED BY <2>1 DEF ShownSlots, ChangeTask
<1>6. NewestLast'
  BY <1>2 DEF NewestLast
<1>7. LatestReference'
  BY <1>3 DEF LatestReference, SameHardware, HandSame
<1> QED BY <1>3, <1>4, <1>5, <1>6, <1>7

LEMMA MildKeeps ==
    ASSUME SupplyKept, Mild, BuffersLeft'
    PROVE  SupplyKept'
<1>1. /\ ChangeBits /\ ShownSlots /\ NewestLast /\ LatestReference
      /\ HalSame /\ ParserSame /\ HandSame /\ SameHardware
      /\ halAt \in LetGoSteps => ChangesStay
      /\ slot' = slot /\ display' = display /\ ref0' = ref0
  BY DEF SupplyKept, Mild, ParserSame
<1>2. /\ ShownSlots' /\ NewestLast' /\ LatestReference'
      /\ halAt' \in LetGoSteps <=> halAt \in LetGoSteps
      /\ \A i : halAt \in LetGoSteps /\ (\E t \in HalTasks : ChangeTask(t, i)) =>
                   \E t \in HalTasks : ChangeTask(t, i)'
  BY <1>1, SlotsStay
<1>3. ChangeBits'
  <2>1. ASSUME halAt' \in LetGoSteps, "infoGen" \in ready'
        PROVE  \E t \in HalTasks :
                  Sent(t)' /\ taskInfo'[t].infoChange /\ taskInfo'[t].output = cur'.output
    <3>1. PICK i : i = cur.output /\ i = cur'.output
      BY <1>1, <2>1 DEF ParserSame
    <3>2. \E t \in HalTasks : ChangeTask(t, i)
      BY <1>1, <1>2, <2>1, <3>1 DEF ChangeBits, ParserSame
    <3>3. \E t \in HalTasks : ChangeTask(t, i)'
      BY <1>2, <2>1, <3>2
    <3> QED BY <3>1, <3>3 DEF ChangeTask
  <2> QED BY <1>1, <2>1 DEF ChangeBits, ParserSame, ChangeTask
<1> QED BY <1>2, <1>3 DEF SupplyKept

LEMMA BuffersStay ==
    ASSUME BuffersLeft, scenario' = scenario, group' = group, info' = info \/ group # 0,
           InUse(slot', extraRef') \subseteq InUse(slot, extraRef),
           parserAt' \in BufferSteps => parserAt \in BufferSteps \/ group = 0 \/ FreeBuffers # {}
    PROVE  BuffersLeft'
<1>1. FreeBuffers \subseteq FreeBuffers'
  BY DEF FreeBuffers, Committed, BufferCount, InUse
<1> QED BY <1>1 DEF BuffersLeft

(* A step of a thread that looks at its own variables, or waits.           *)
Steady ==
    /\ UNCHANGED groupVars
    /\ HalSame /\ ParserSame
    /\ slot' = slot /\ display' = display /\ ref0' = ref0
    /\ info' = info \/ group # 0
    /\ scenario' = scenario /\ group' = group
    /\ extraRef' \subseteq extraRef
    /\ parserAt' \in BufferSteps => parserAt \in BufferSteps \/ group = 0 \/ FreeBuffers # {}

LEMMA SteadyKeeps ==
    ASSUME SupplyKept, Steady
    PROVE  SupplyKept'
<1>1. SameHardware /\ ChangesStay
  BY GroupSame DEF Steady, SameHardware, ChangesStay, Sent, groupVars
<1>2. Mild
  BY <1>1 DEF Steady, Mild
<1>3. BuffersLeft'
  <2>1. InUse(slot', extraRef') \subseteq InUse(slot, extraRef)
    BY DEF Steady, InUse
  <2> QED BY <2>1, BuffersStay DEF SupplyKept, Steady
<1> QED BY <1>2, <1>3, MildKeeps

(* A thread that does nothing, or is woken.                                *)
LEMMA ParserStays ==
    ASSUME ChangeBits, UNCHANGED parserVars,
           parserAt' \in {parserAt, IF parserAt = "asleep" THEN "try" ELSE parserAt}
    PROVE  ParserSame /\ (parserAt' \in BufferSteps => parserAt \in BufferSteps)
           /\ ref0' = ref0
BY DEF ChangeBits, ParserSame, HandSame, parserVars, BufferSteps, Parsed

LEMMA HalRests ==
    ASSUME halInfo' = halInfo,
           halAt' \in {halAt, IF halAt = "asleep" THEN "get" ELSE halAt}
    PROVE  HalSame
BY DEF HalSame

(* The user.                                                               *)
LEMMA UserSupply ==
    ASSUME IInv, SupplyKept,
           \/ UserPuts \/ UserGets \/ UserReleases \/ UserReadies
           \/ UserFlushesPackets \/ UserFlushesFrames \/ UserRaisesFlag
    PROVE  SupplyKept'
<1>1. ChangeBits
  BY DEF SupplyKept
<1>2. /\ UNCHANGED parserVars /\ UNCHANGED groupVars
      /\ parserAt' \in {parserAt, IF parserAt = "asleep" THEN "try" ELSE parserAt}
      /\ halInfo' = halInfo /\ halAt' \in {halAt, IF halAt = "asleep" THEN "get" ELSE halAt}
      /\ slot' = slot /\ display' = display
      /\ scenario' = scenario /\ group' = group /\ extraRef' \subseteq extraRef
  <2>1. CASE UserPuts \/ UserGets
    BY <2>1 DEF UserPuts, UserGets, outVars, halVars, slotVars, HalWoken
  <2>2. CASE UserReleases
    BY <2>2 DEF UserReleases, ParserAfterRelease, ParserWoken, halVars, slotVars
  <2>3. CASE UserReadies
    BY <2>3 DEF UserReadies, SlotsReady, ParserWoken, outVars, halVars
  <2>4. CASE UserFlushesPackets \/ UserFlushesFrames \/ UserRaisesFlag
    BY <2>4 DEF UserFlushesPackets, UserFlushesFrames, UserRaisesFlag, ParserAfterRelease,
                ParserWoken, outVars, halVars, slotVars
  <2> QED BY <2>1, <2>2, <2>3, <2>4
<1>3. info' = info \/ group # 0
  BY DEF IInv, Commits, UserPuts, UserGets, UserReleases, UserReadies, UserFlushesPackets,
         UserFlushesFrames, UserRaisesFlag, slotVars
<1>4. Steady
  BY <1>1, <1>2, <1>3, ParserStays, HalRests DEF Steady
<1> QED BY <1>4, SteadyKeeps

(* The buffers of a commit are new, and free.                              *)
LEMMA UserCommitsSupply ==
    ASSUME IInv, SupplyKept, UserCommits
    PROVE  SupplyKept'
<1>1. /\ ChangeBits /\ BuffersLeft /\ Commits /\ SlotTypes /\ BufferTypes /\ UserTypes
  BY TypeParts DEF SupplyKept, IInv
<1>2. /\ UNCHANGED parserVars /\ UNCHANGED groupVars
      /\ parserAt' \in {parserAt, IF parserAt = "asleep" THEN "try" ELSE parserAt}
      /\ halInfo' = halInfo /\ halAt' = halAt
      /\ slot' = slot /\ display' = display
      /\ scenario' = scenario /\ group' = group + 1 /\ extraRef' = extraRef
  BY DEF UserCommits, ParserWoken, outVars, halVars, slotVars
<1>3. group \in Nat /\ BufferCount \in Nat \ {0} /\ BufferCount' = BufferCount
  BY <1>1, <1>2, StreamTypes, SameScenario DEF Commits, UserTypes
<1>4. BuffersLeft'
  <2>1. PICK g \in Nat \ {0} : g = group' /\ g = group + 1
    BY <1>2, <1>3
  <2>2. <<g, 1>> \in Committed(group)'
    BY <1>3, <2>1 DEF Committed
  <2>3. ASSUME <<g, 1>> \in Buffers PROVE FALSE
    <3>1. PICK c \in 1 .. group : <<g, 1>> \in Committed(c)
      BY <2>3 DEF Buffers
    <3>2. PICK i \in 1 .. BufferCount : <<g, 1>> = <<c, i>>
      BY <3>1 DEF Committed
    <3> QED BY <1>3, <2>1, <3>2
  <2>4. <<g, 1>> # NoBuffer
    BY <2>1, NamesAssumption
  <2>5. <<g, 1>> \notin InUse(slot', extraRef')
    <3>1. /\ extraRef \subseteq Buffers
          /\ \A i \in Slots : slot[i].buffer \in Buffers \union {NoBuffer}
      BY <1>1, SlotParts DEF BufferTypes, SlotEntries
    <3> QED BY <1>2, <2>3, <2>4, <3>1 DEF InUse
  <2>6. <<g, 1>> \in FreeBuffers'
    BY <2>2, <2>5 DEF FreeBuffers, InUse
  <2> QED BY <2>1, <2>6 DEF BuffersLeft
<1>5. Mild
  <2>1. SameHardware /\ ChangesStay
    BY <1>2, GroupSame DEF SameHardware, ChangesStay, Sent, groupVars
  <2> QED BY <1>1, <1>2, <2>1, ParserStays, HalRests DEF Mild
<1> QED BY <1>4, <1>5, MildKeeps

(* The parser, when it only looks, waits or goes on.                       *)
LEMMA ParserSupply ==
    ASSUME IInv, ~aborted, SupplyKept,
           \/ ParserTop \/ ParserChecks \/ ParserTries \/ PullNothing \/ PullPicture
           \/ ParserChecksGroup \/ ParserWaitsChange \/ ParserNeedsNoChange
    PROVE  SupplyKept'
<1>1. ChangeBits /\ StatusBits /\ TasksInHand /\ ThreadTypes
  BY TypeParts DEF SupplyKept, IInv
<1>2. cur \in Infos
  BY <1>1 DEF ThreadTypes
<1>3. /\ UNCHANGED groupVars /\ UNCHANGED slotVars /\ UNCHANGED halVars /\ UNCHANGED userVars
      /\ ref0' = ref0 /\ group' = group /\ extraRef' = extraRef
  BY DEF ParserTop, ParserChecks, ParserTries, PullNothing, PullPicture, ParserChecksGroup,
         ParserWaitsChange, ParserNeedsNoChange, ParserLocal, parserVars, outVars
<1>4. /\ ParserSame
      /\ parserAt' \in BufferSteps => parserAt \in BufferSteps \/ group = 0 \/ FreeBuffers # {}
  <2>1. CASE ParserTop \/ ParserChecks \/ PullNothing
    BY <1>1, <2>1 DEF ParserTop, ParserChecks, PullNothing, ChangeBits, ParserSame, HandSame, parserVars,
                      BufferSteps, Parsed
  <2>2. CASE ParserTries
    BY <1>1, <2>2 DEF ParserTries, ChangeBits, ParserSame, HandSame, BufferSteps, Parsed
  <2>3. CASE PullPicture
    <3>1. "parsed" \notin ready /\ "infoGen" \notin ready
      BY <1>1, <2>3 DEF PullPicture, StatusBits
    <3> QED BY <1>1, <2>3, <3>1 DEF PullPicture, ChangeBits, ParserSame, HandSame, BufferSteps, Parsed
  <2>4. CASE ParserChecksGroup
    BY <1>1, <2>4 DEF ParserChecksGroup, ChangeBits, ParserSame, HandSame, BufferSteps, Parsed
  <2>5. CASE ParserWaitsChange
    BY <1>1, <2>5 DEF ParserWaitsChange, ChangeBits, ParserSame, HandSame, BufferSteps, Parsed
  <2>6. CASE ParserNeedsNoChange
    <3>1. cur'.output = cur.output /\ cur'.refer = cur.refer /\ cur'.id = cur.id
      BY <1>2, <2>6 DEF ParserNeedsNoChange, Infos
    <3> QED BY <1>1, <2>6, <3>1
               DEF ParserNeedsNoChange, ChangeBits, ParserSame, HandSame, BufferSteps, Parsed
  <2> QED BY <2>1, <2>2, <2>3, <2>4, <2>5, <2>6
<1>5. Steady
  BY <1>3, <1>4, HalRests DEF Steady, slotVars, halVars, userVars
<1> QED BY <1>5, SteadyKeeps

(* It takes the previous task back.                                        *)
LEMMA TakesBackSupply ==
    ASSUME IInv, ~aborted, SupplyKept, ParserWaitsPrevious \/ ResetTakesPrevious
    PROVE  SupplyKept'
<1>1. ChangeBits /\ BuffersLeft /\ StatusBits /\ Lists
  BY TypeParts DEF SupplyKept, IInv
<1>2. /\ UNCHANGED slotVars /\ UNCHANGED halVars /\ UNCHANGED userVars
      /\ ref0' = ref0 /\ group' = group /\ extraRef' = extraRef /\ cur' = cur
      /\ taskInfo' = taskInfo
      /\ parserAt \in {"prev", "resetPrev"} /\ parserAt' \in {"top", "group", "resetClear"}
      /\ ready' \in {ready, ready \union {"prev"}}
      /\ waits' \subseteq waits \union {"prev_task"}
  BY DEF ParserWaitsPrevious, ResetTakesPrevious, outVars, groupVars
<1>3. HalSame /\ ParserSame
  BY <1>1, <1>2, HalRests DEF halVars, ParserSame, HandSame, ChangeBits, Parsed
<1>4. SameHardware /\ ChangesStay
  <2>1. CASE UNCHANGED groupVars
    BY <2>1, GroupSame DEF SameHardware, ChangesStay, Sent, groupVars
  <2>2. CASE HndIn("PROC_DONE") # NoTask /\ SetStatus(HndIn("PROC_DONE"), "IDLE")
    <3>1. PICK d \in HalTasks : d = HndIn("PROC_DONE") /\ taskStatus[d] = "PROC_DONE"
      BY <2>2, HandleFound, TaskNumbers DEF HalTaskStatuses
    <3>2. SetStatus(d, "IDLE") /\ ~InHardware(d) /\ ~Sent(d)
      BY <2>2, <3>1 DEF InHardware, Sent
    <3>3. SameSent
      BY <1>2, <3>2, IdleOne DEF HalTaskStatuses
    <3>4. SameHardware
      BY <1>1, <1>2, <3>2, IdledElsewhere
    <3> QED BY <3>3, <3>4 DEF SameSent, ChangesStay
  <2>3. "prev" \notin ready /\ ~NoneIn("PROC_DONE") => HndIn("PROC_DONE") # NoTask
    BY HandleFound, TaskNumbers DEF HalTaskStatuses
  <2> QED BY <2>1, <2>2, <2>3 DEF ParserWaitsPrevious, ResetTakesPrevious
<1>5. Mild
  BY <1>2, <1>3, <1>4 DEF Mild, slotVars
<1>6. BuffersLeft'
  BY <1>1, <1>2, BuffersStay DEF BufferSteps, slotVars, userVars
<1> QED BY <1>5, <1>6, MildKeeps

(* A task is sent; the others stay.                                        *)
LEMMA SendMild ==
    ASSUME IInv, NEW h \in HalTasks, hnd = h, taskStatus[h] = "IDLE", NEW i, Send(i)
    PROVE  /\ HalSame /\ ChangesStay
           /\ Sent(h)' /\ taskInfo'[h] = i
<1>1. SentMore(h, i) /\ halInfo' = halInfo /\ halAt' = HalWoken
  BY SendOne
<1>2. HalSame
  BY <1>1, HalRests DEF HalWoken
<1> QED BY <1>1, <1>2 DEF SentMore, ChangesStay

(* The end of the stream.                                                  *)
LEMMA PullEosSupply ==
    ASSUME IInv, ~aborted, SupplyKept, PullEos
    PROVE  SupplyKept'
<1>1. /\ ChangeBits /\ BuffersLeft /\ StatusBits /\ TasksInHand /\ PictureInHand /\ ThreadTypes
      /\ UserTypes
  BY TypeParts DEF SupplyKept, IInv
<1>2. PICK h \in HalTasks : h = hnd /\ taskStatus[h] = "IDLE"
  BY <1>1 DEF PullEos, TasksInHand, HndSteps, ThreadTypes
<1>3. /\ UNCHANGED slotVars /\ UNCHANGED userVars
      /\ ref0' = ref0 /\ group' = group /\ extraRef' = extraRef /\ ready' = ready
      /\ waits' = waits /\ parserAt = "pull" /\ parserAt' = "top"
      /\ "curr" \notin ready /\ "parsed" \notin ready /\ "infoGen" \notin ready
  BY <1>1 DEF PullEos, StatusBits, outVars
<1>4. PICK i \in Infos : i = cur' /\ ~i.valid
  <2>1. cur \in Infos /\ cur' = [cur EXCEPT !.id = Head(packets), !.valid = FALSE, !.eos = TRUE]
    BY <1>1 DEF PullEos, ThreadTypes
  <2>2. Head(packets) \in Packets
    BY <1>1, TailOf DEF PullEos, UserTypes
  <2>3. cur' \in Infos /\ ~cur'.valid
    BY <2>1, <2>2 DEF Infos
  <2> QED BY <2>3
<1>5. Send(i)
  BY <1>4 DEF PullEos
<1>6. HalSame /\ ChangesStay
  BY <1>2, <1>5, SendMild
<1>7. SameHardware
  BY <1>2, <1>3, <1>4, <1>5, SentElsewhere, Zenon DEF userVars
<1>8. ParserSame
  BY <1>1, <1>3 DEF ParserSame, HandSame, ChangeBits, Parsed
<1>9. Mild
  BY <1>3, <1>6, <1>7, <1>8 DEF Mild, slotVars
<1>10. BuffersLeft'
  <2>1. InUse(slot', extraRef') \subseteq InUse(slot, extraRef)
    BY <1>3 DEF slotVars
  <2> QED BY <1>1, <1>3, <2>1, BuffersStay DEF BufferSteps, slotVars, userVars
<1> QED BY <1>9, <1>10, MildKeeps

(* A picture without slot.                                                 *)
LEMMA ParserDropsSupply ==
    ASSUME IInv, ~aborted, SupplyKept, ParserDrops
    PROVE  SupplyKept'
<1>1. /\ ChangeBits /\ BuffersLeft /\ StatusBits /\ TasksInHand /\ PictureInHand /\ ThreadTypes
      /\ Lists
  BY TypeParts DEF SupplyKept, IInv
<1>2. PICK h \in HalTasks : h = hnd /\ taskStatus[h] = "IDLE"
  BY <1>1 DEF ParserDrops, TasksInHand, HndSteps, ThreadTypes
<1>3. /\ UNCHANGED slotVars /\ UNCHANGED userVars
      /\ ref0' = ref0 /\ group' = group /\ extraRef' = extraRef
      /\ ready' = ready \ {"infoGen", "copied", "curr", "parsed"}
      /\ waits' = waits \ {"info_change"} /\ parserAt = "change" /\ parserAt' = "top"
      /\ cur.output = NoSlot /\ "parsed" \in ready
  BY <1>1 DEF ParserDrops, StatusBits, outVars
<1>4. HalSame /\ ChangesStay /\ SameHardware
  <2>1. CASE cur.eos
    <3>1. PICK i \in Infos : i = [cur EXCEPT !.infoChange = FALSE] /\ ~i.valid
      <4>1. cur \in Infos /\ ~cur.valid
        BY <1>1, <1>3 DEF ThreadTypes, PictureInHand
      <4>2. [cur EXCEPT !.infoChange = FALSE] \in Infos /\ ~[cur EXCEPT !.infoChange = FALSE].valid
        BY <4>1 DEF Infos
      <4> QED BY <4>2
    <3>2. Send(i)
      BY <2>1, <3>1 DEF ParserDrops
    <3>3. HalSame /\ ChangesStay
      BY <1>2, <3>2, SendMild
    <3>4. SameHardware
      BY <1>2, <1>3, <3>1, <3>2, SentElsewhere, Zenon DEF userVars
    <3> QED BY <3>3, <3>4
  <2>2. CASE ~cur.eos
    <3>1. SetStatus(h, "IDLE") /\ taskInfo' = taskInfo /\ UNCHANGED halVars
      BY <1>2, <2>2 DEF ParserDrops
    <3>2. ~InHardware(h) /\ ~Sent(h)
      BY <1>2 DEF InHardware, Sent
    <3>3. SameSent
      BY <3>1, <3>2, IdleOne DEF HalTaskStatuses
    <3>4. SameHardware
      BY <1>1, <3>1, <3>2, IdledElsewhere
    <3> QED BY <3>1, <3>3, <3>4, HalRests DEF SameSent, ChangesStay, halVars
  <2> QED BY <2>1, <2>2
<1>5. ParserSame
  BY <1>3 DEF ParserSame, HandSame, Parsed
<1>6. Mild
  BY <1>3, <1>4, <1>5 DEF Mild, slotVars
<1>7. BuffersLeft'
  <2>1. InUse(slot', extraRef') \subseteq InUse(slot, extraRef)
    BY <1>3 DEF slotVars
  <2> QED BY <1>1, <1>3, <2>1, BuffersStay DEF BufferSteps, slotVars, userVars
<1> QED BY <1>6, <1>7, MildKeeps

(* The HAL thread, when it takes a task or is done with one that has no    *)
(* picture.                                                                *)
LEMMA HalSupply ==
    ASSUME IInv, ~aborted, ~aborted', SupplyKept,
           \/ HalGets \/ HalHardwareEnds \/ HalPuts \/ HalIdles
           \/ HalDisplayEnds /\ halAt # "display"
    PROVE  SupplyKept'
<1>1. /\ ChangeBits /\ BuffersLeft /\ StatusBits /\ TasksInHand /\ ThreadTypes /\ Lists
  BY TypeParts DEF SupplyKept, IInv
<1>2. /\ UNCHANGED slotVars /\ UNCHANGED userVars /\ UNCHANGED parserVars
      /\ ref0' = ref0 /\ group' = group /\ extraRef' = extraRef
      /\ halAt \notin LetGoSteps /\ halAt' \notin LetGoSteps
      /\ parserAt' \in {parserAt, IF parserAt = "asleep" THEN "try" ELSE parserAt}
  BY DEF HalGets, HalHardwareEnds, HalPuts, HalIdles, HalDisplayEnds, ParserWoken,
         outVars, parserVars, LetGoSteps
<1>3. HalSame
  BY <1>2 DEF HalSame, LetGoSteps
<1>4. ParserSame /\ (parserAt' \in BufferSteps => parserAt \in BufferSteps)
  BY <1>1, <1>2, ParserStays
<1>5. SameHardware
  <2>1. CASE UNCHANGED groupVars
    BY <2>1, GroupSame DEF SameHardware, groupVars
  <2>2. CASE HalIdles
    <3>1. PICK h \in HalTasks : h = halTask /\ halInfo = taskInfo[h]
      BY <1>1, <2>2 DEF HalIdles, TasksInHand, InfoSteps, EosSteps, ThreadTypes
    <3>2. ~InHardware(h)
      BY <1>1, <2>2, <3>1 DEF HalIdles, TasksInHand, InfoSteps, EosSteps, InHardware
    <3>3. SetStatus(h, "IDLE") /\ taskInfo' = taskInfo
      BY <2>2, <3>1 DEF HalIdles
    <3> QED BY <1>1, <3>2, <3>3, IdledElsewhere
  <2> QED BY <2>1, <2>2 DEF HalGets, HalHardwareEnds, HalPuts, HalDisplayEnds
<1>6. Mild
  BY <1>2, <1>3, <1>4, <1>5 DEF Mild, slotVars
<1>7. BuffersLeft'
  <2>1. InUse(slot', extraRef') \subseteq InUse(slot, extraRef)
    BY <1>2 DEF slotVars
  <2> QED BY <1>1, <1>2, <1>4, <2>1, BuffersStay DEF slotVars, userVars
<1> QED BY <1>6, <1>7, MildKeeps

(* A change of format is announced: by a task with the picture's slot.     *)
LEMMA ParserAnnouncesChangeSupply ==
    ASSUME IInv, ~aborted, SupplyKept, ParserAnnouncesChange
    PROVE  SupplyKept'
<1>1. /\ ChangeBits /\ ShownSlots /\ NewestLast /\ LatestReference /\ BuffersLeft
      /\ TasksInHand /\ ThreadTypes
  BY TypeParts DEF SupplyKept, IInv
<1>2. PICK h \in HalTasks : h = hnd /\ taskStatus[h] = "IDLE"
  BY <1>1 DEF ParserAnnouncesChange, TasksInHand, HndSteps, ThreadTypes
<1>3. /\ UNCHANGED slotVars /\ UNCHANGED userVars
      /\ ref0' = ref0 /\ group' = group /\ extraRef' = extraRef
      /\ ready' = ready \union {"infoGen"} /\ parserAt = "change" /\ parserAt' = "top"
  BY <1>1 DEF ParserAnnouncesChange, outVars
<1>4. PICK i \in Infos : /\ i = cur' /\ i.infoChange /\ i.id = cur.id
                          /\ i.output = cur.output /\ i.refer = cur.refer
  <2>1. cur \in Infos /\ cur' = [cur EXCEPT !.infoChange = TRUE]
    BY <1>1 DEF ParserAnnouncesChange, ThreadTypes
  <2>2. /\ cur' \in Infos /\ cur'.infoChange /\ cur'.id = cur.id
        /\ cur'.output = cur.output /\ cur'.refer = cur.refer
    BY <2>1 DEF Infos
  <2> QED BY <2>2
<1>5. Send(i)
  BY <1>4 DEF ParserAnnouncesChange
<1>6. HalSame /\ ChangesStay /\ Sent(h)' /\ taskInfo'[h] = i
  BY <1>2, <1>5, SendMild
<1>7. SameHardware
  BY <1>2, <1>3, <1>4, <1>5, SentElsewhere, Zenon DEF userVars
<1>8. HandSame
  BY <1>3, <1>4 DEF HandSame, Parsed
<1>9. ShownSlots' /\ NewestLast' /\ LatestReference'
  BY <1>1, <1>3, <1>6, <1>7, <1>8, SlotsStay DEF slotVars
<1>10. ChangeBits'
  <2>1. \E t \in HalTasks :
           Sent(t)' /\ taskInfo'[t].infoChange /\ taskInfo'[t].output = cur'.output
    BY <1>4, <1>6
  <2> QED BY <1>3, <2>1 DEF ChangeBits, ChangeTask
<1>11. BuffersLeft'
  <2>1. InUse(slot', extraRef') \subseteq InUse(slot, extraRef)
    BY <1>3 DEF slotVars
  <2> QED BY <1>1, <1>3, <2>1, BuffersStay DEF BufferSteps, slotVars, userVars
<1> QED BY <1>9, <1>10, <1>11 DEF SupplyKept

-----------------------------------------------------------------------------
(***************************************************************************)
(* The HAL thread lets go of a picture.                                    *)
(***************************************************************************)
(* The picture is done: the slots do not know yet.                         *)
LEMMA HalMarksDoneSupply ==
    ASSUME IInv, ~aborted, SlotsKept, SupplyKept, HalMarksDone
    PROVE  SupplyKept'
<1>1. /\ ChangeBits /\ ShownSlots /\ NewestLast /\ LatestReference /\ BuffersLeft
      /\ Lists /\ TasksInHand /\ StatusBits /\ OneInFlight /\ ThreadTypes
  BY TypeParts DEF SupplyKept, IInv
<1>2. /\ halAt = "done" /\ halAt' = "slots" /\ halInfo' = halInfo
      /\ UNCHANGED parserVars /\ UNCHANGED slotVars /\ UNCHANGED userVars
      /\ ref0' = ref0 /\ ready' = ready /\ waits' = waits /\ cur' = cur
      /\ slot' = slot /\ display' = display
      /\ group' = group /\ extraRef' = extraRef /\ taskInfo' = taskInfo
      /\ parserAt' \in {parserAt, IF parserAt = "asleep" THEN "try" ELSE parserAt}
  BY DEF HalMarksDone, ParserWoken, outVars, parserVars, slotVars
<1>3. PICK h \in HalTasks : /\ h = halTask /\ halInfo = taskInfo[h]
                             /\ InHardware(h) /\ InFlight(h)
  <2>1. PICK h \in HalTasks : h = halTask /\ taskStatus[h] = "PROCESSING" /\ halInfo = taskInfo[h]
    BY <1>1, <1>2 DEF TasksInHand, DecodeSteps, ThreadTypes
  <2>2. InHardware(h)
    BY <1>1, <1>2, <2>1 DEF TasksInHand, DecodeSteps, InHardware
  <2> QED BY <2>1, <2>2 DEF InFlight
<1>4. \A t \in HalTasks : ~InHardware(t)' /\ (InHardware(t) => t = h)
  <2>1. SetStatus(h, "PROC_DONE")
    BY <1>3 DEF HalMarksDone
  <2>2. /\ ~InHardware(h)'
        /\ \A u \in HalTasks \ {h} : InHardware(u)' <=> InHardware(u)
    BY <1>1, <1>2, <2>1, TaskDone
  <2>3. \A t \in HalTasks \ {h} : ~InHardware(t)
    BY <1>1, <1>3 DEF OneInFlight, InFlight
  <2> QED BY <2>2, <2>3
<1>5. "parsed" \notin ready /\ "infoGen" \notin ready /\ ~Parsed /\ ~Parsed'
  <2>1. "prev" \notin ready
    BY <1>1, <1>3 DEF OneInFlight
  <2> QED BY <1>1, <1>2, <2>1 DEF StatusBits, Parsed
<1>6. \A i : /\ Shown(i)' <=> Shown(i)
             /\ Writer(i)' <=> Writer(i)
             /\ ~NewWriter(i)'
  <2>1. \A i : /\ NewWriter(i) <=> halInfo.output = i
               /\ LateWriter(i)' <=> halInfo.output = i
               /\ ~LateWriter(i) /\ ~NewWriter(i)'
    BY <1>2, <1>3, <1>4, <1>5 DEF NewWriter, LateWriter
  <2> QED BY <1>2, <2>1 DEF Writer, Shown
<1>7. ChangeBits'
  BY <1>1, <1>2, <1>5 DEF ChangeBits
<1>8. ShownSlots' /\ NewestLast'
  BY <1>1, <1>2, <1>5, <1>6 DEF ShownSlots, NewestLast, LetGoSteps
<1>9. LatestReference'
  BY <1>1, <1>2, <1>3, <1>4 DEF LatestReference
<1>10. BuffersLeft'
  BY <1>1, <1>2, BuffersStay DEF BufferSteps, slotVars, userVars
<1> QED BY <1>7, <1>8, <1>9, <1>10 DEF SupplyKept

LEMMA BuffersShrink ==
    ASSUME \A i \in Slots : slot'[i].buffer \in {slot[i].buffer, NoBuffer},
           extraRef' \subseteq extraRef
    PROVE  InUse(slot', extraRef') \subseteq InUse(slot, extraRef)
BY DEF InUse

(* The slots know.                                                         *)
LEMMA HalClearsSlotsSupply ==
    ASSUME IInv, ~aborted, SlotsKept, SlotsKept', SupplyKept, HalClearsSlots
    PROVE  SupplyKept'
<1>1. /\ ChangeBits /\ ShownSlots /\ NewestLast /\ LatestReference /\ BuffersLeft
      /\ SlotsFlagged' /\ slot \in [Slots -> SlotEntries]
  BY UseFacts DEF SupplyKept, SlotsKept
<1>2. /\ halAt = "slots" /\ halAt' = "display" /\ halInfo' = halInfo
      /\ UNCHANGED parserVars /\ UNCHANGED groupVars /\ UNCHANGED userVars
      /\ ref0' = ref0 /\ ready' = ready /\ waits' = waits /\ cur' = cur
      /\ display' = display /\ info' = info
      /\ group' = group /\ extraRef' = extraRef
      /\ parserAt' \in {parserAt, IF parserAt = "asleep" THEN "try" ELSE parserAt}
  BY DEF HalClearsSlots, ParserAfterRelease, ParserWoken, outVars, parserVars, halVars
<1>3. /\ taskInfo' = taskInfo /\ (Parsed' <=> Parsed)
      /\ \A t : (InHardware(t)' <=> InHardware(t)) /\ (Sent(t)' <=> Sent(t))
  BY <1>2, GroupSame DEF Parsed, Sent, groupVars
<1>4. \A i : /\ Shown(i)' <=> Shown(i)
             /\ NewWriter(i)' <=> NewWriter(i)
             /\ ~Writer(i)' => ~Writer(i) \/ i = halInfo.output
  BY <1>2, <1>3 DEF Shown, NewWriter, LateWriter, Writer
<1>5. ChangeBits'
  BY <1>1, <1>2, <1>3 DEF ChangeBits, ChangeTask, LetGoSteps
<1>6. ShownSlots'
  BY <1>1, <1>2, <1>3, <1>4 DEF ShownSlots, ChangeTask, LetGoSteps
<1>7. NewestLast' /\ LatestReference'
  BY <1>1, <1>2, <1>3, <1>4 DEF NewestLast, LatestReference, LetGoSteps
<1>8. BuffersLeft'
  <2>1. ASSUME NEW i \in Slots
        PROVE  slot'[i].buffer \in {slot[i].buffer, NoBuffer}
    <3>1. PICK e \in SlotEntries : e = slot[i]
      BY <1>1
    <3>2. slot'[i] \in {ClrFlag(e, "HAL_OUTPUT"), ClrFlag(e, "HAL_INPUT"), e}
      BY <3>1 DEF HalClearsSlots
    <3>3. ContentKept(i)
      BY <3>1, <3>2, ClearedContent DEF ContentKept, SameContent
    <3> QED BY <1>1, <3>3, KeptContent
  <2> QED BY <1>1, <1>2, <2>1, BuffersShrink, BuffersStay DEF BufferSteps, userVars
<1> QED BY <1>5, <1>6, <1>7, <1>8 DEF SupplyKept

(* A finished picture leaves the display queue.                            *)
LEMMA TakeDisplayedSupply ==
    ASSUME IInv, SlotsKept, SlotsKept', SupplyKept, TakeDisplayed,
           UNCHANGED groupVars, UNCHANGED parserVars, UNCHANGED halVars,
           scenario' = scenario, group' = group, extraRef' \subseteq extraRef,
           parserAt' \in {parserAt, IF parserAt = "asleep" THEN "try" ELSE parserAt}
    PROVE  SupplyKept'
<1>1. /\ ChangeBits /\ ShownSlots /\ NewestLast /\ LatestReference /\ BuffersLeft
      /\ SlotsFlagged' /\ slot \in [Slots -> SlotEntries]
      /\ display \in Seq(Slots) /\ IsInjective(display)
  BY UseFacts DEF SupplyKept, SlotsKept
<1>2. /\ display # <<>> /\ display' = Tail(display) /\ info' = info
      /\ slot' = [slot EXCEPT ![Head(display)] = Undisplayed]
      /\ ref0' = ref0 /\ ready' = ready /\ waits' = waits /\ cur' = cur
      /\ halAt' = halAt /\ halInfo' = halInfo /\ taskInfo' = taskInfo
      /\ parserAt' = "resetDrain" <=> parserAt = "resetDrain"
  BY DEF TakeDisplayed, DisplayReady, parserVars, halVars, groupVars
<1>3. PICK h \in Slots : h = Head(display)
  BY <1>1, <1>2, TailDistinct
<1>4. /\ Parsed' <=> Parsed
      /\ \A t : (InHardware(t)' <=> InHardware(t)) /\ (Sent(t)' <=> Sent(t))
  BY <1>2, GroupSame DEF Parsed, Sent, groupVars
<1>5. \A i : /\ Shown(i)' <=> Shown(i) /\ i # h
             /\ NewWriter(i)' <=> NewWriter(i)
             /\ Writer(i)' <=> Writer(i)
  <2>1. \A i : Shown(i)' <=> Shown(i) /\ i # h
    BY <1>1, <1>2, <1>3, TailDistinct DEF Shown
  <2>2. \A i : NewWriter(i)' <=> NewWriter(i)
    BY <1>2, <1>4 DEF NewWriter
  <2>3. \A i : LateWriter(i)' <=> LateWriter(i)
    BY <1>2 DEF LateWriter
  <2> QED BY <2>1, <2>2, <2>3 DEF Writer
<1>6. ChangeBits'
  <2>1. ParserSame
    BY <1>1, ParserStays
  <2> QED BY <1>1, <1>2, <1>4, <2>1 DEF ChangeBits, ChangeTask, ParserSame
<1>7. ShownSlots'
  BY <1>1, <1>2, <1>4, <1>5 DEF ShownSlots, ChangeTask
<1>8. NewestLast'
  <2>1. /\ Len(display) \in Nat \ {0} /\ Len(display') = Len(display) - 1
        /\ \A k \in 1 .. Len(display) - 1 :
              display'[k] = display[k + 1] /\ k + 1 \in 1 .. Len(display)
    BY <1>1, <1>2, TailOf
  <2> QED BY <1>1, <1>5, <2>1 DEF NewestLast
<1>9. LatestReference'
  BY <1>1, <1>2, <1>4 DEF LatestReference
<1>10. BuffersLeft'
  <2>1. ASSUME NEW i \in Slots
        PROVE  slot'[i].buffer \in {slot[i].buffer, NoBuffer}
    <3>1. CASE i # h
      BY <1>1, <1>2, <1>3, <3>1
    <3>2. CASE i = h
      <4>1. PICK e \in SlotEntries : e = slot[h]
        BY <1>1
      <4>2. slot'[h] = ClrFlag([e EXCEPT !.queueUse = Less(@)], "QUEUE_USE")
        BY <1>1, <1>2, <1>3, <4>1 DEF Undisplayed
      <4>3. LET d == ClrFlag([e EXCEPT !.queueUse = Less(@)], "QUEUE_USE")
            IN  d.onUsed => SameContent(d, e)
        BY UndisplayedContent, ZenonT(60)
      <4>4. ContentKept(h)
        BY <4>1, <4>2, <4>3 DEF ContentKept
      <4> QED BY <1>1, <3>2, <4>4, KeptContent
    <3> QED BY <3>1, <3>2
  <2>2. parserAt' \in BufferSteps => parserAt \in BufferSteps
    BY DEF BufferSteps
  <2> QED BY <1>1, <1>2, <2>1, <2>2, BuffersShrink, BuffersStay
<1> QED BY <1>6, <1>7, <1>8, <1>9, <1>10 DEF SupplyKept

LEMMA DisplaysSupply ==
    ASSUME IInv, ~aborted, SlotsKept, SlotsKept', SupplyKept, HalDisplays \/ ResetDrains
    PROVE  SupplyKept'
<1>1. /\ TakeDisplayed /\ UNCHANGED groupVars /\ UNCHANGED parserVars /\ UNCHANGED halVars
      /\ scenario' = scenario /\ group' = group
      /\ parserAt' \in {parserAt, IF parserAt = "asleep" THEN "try" ELSE parserAt}
  BY DEF HalDisplays, ResetDrains, userVars, ParserAfterRelease, ParserWoken
<1>2. extraRef' \subseteq extraRef
  BY DEF HalDisplays, ResetDrains
<1> QED BY <1>1, <1>2, TakeDisplayedSupply

(* No finished picture is queued: all that are, are being written.         *)
LEMMA NoneFinished ==
    ASSUME IInv, SlotsKept, NewestLast, ~DisplayReady, halAt # "slots"
    PROVE  \A i \in Slots : Shown(i) => NewWriter(i)
<1>1. /\ SlotsFlagged /\ slot \in [Slots -> SlotEntries] /\ display \in Seq(Slots)
  BY UseFacts DEF SlotsKept
<1>2. /\ Len(display) \in Nat
      /\ \A k \in 1 .. Len(display) : display[k] \in Slots /\ Shown(display[k])
      /\ \A i : Shown(i) => \E k \in 1 .. Len(display) : display[k] = i
  BY <1>1, FrameNumbers
<1> SUFFICES ASSUME NEW i \in Slots, Shown(i) PROVE NewWriter(i)
  OBVIOUS
<1>3. PICK k \in 1 .. Len(display) : display[k] = i
  BY <1>2
<1>4. 1 \in 1 .. Len(display) /\ display # <<>> /\ Head(display) = display[1]
  <2>1. display # <<>>
    BY <1>2, <1>3
  <2> QED BY <1>1, <1>2, <1>3, <2>1, HeadTailProperties
<1>5. PICK h \in Slots : h = display[1] /\ slot[h].notReady
  BY <1>2, <1>4 DEF DisplayReady
<1>6. NewWriter(h)
  BY <1>1, <1>5 DEF SlotsFlagged, Flagged, Writer, LateWriter
<1>7. Len(display) = 1
  BY <1>4, <1>5, <1>6 DEF NewestLast
<1> QED BY <1>3, <1>5, <1>6, <1>7

(* The HAL thread has looked at the queue after it let go of a picture.    *)
LEMMA HalDisplayEndsSupply ==
    ASSUME IInv, ~aborted, SlotsKept, SupplyKept, HalDisplayEnds, halAt = "display"
    PROVE  SupplyKept'
<1>1. ChangeBits /\ ShownSlots /\ NewestLast /\ LatestReference /\ BuffersLeft
  BY DEF SupplyKept
<1>2. /\ halAt' \notin LetGoSteps /\ ~DisplayReady
      /\ UNCHANGED parserVars /\ UNCHANGED slotVars /\ UNCHANGED groupVars
      /\ slot' = slot /\ display' = display
      /\ ref0' = ref0 /\ ready' = ready /\ waits' = waits /\ cur' = cur
      /\ parserAt' = parserAt /\ taskInfo' = taskInfo
      /\ scenario' = scenario /\ group' = group /\ extraRef' = extraRef /\ info' = info
  BY DEF HalDisplayEnds, LetGoSteps, parserVars, slotVars, groupVars, userVars, outVars
<1>3. /\ Parsed' <=> Parsed
      /\ \A t : InHardware(t)' <=> InHardware(t)
  BY <1>2, GroupSame DEF Parsed
<1>4. \A i : /\ Shown(i)' <=> Shown(i)
             /\ NewWriter(i)' <=> NewWriter(i)
  BY <1>2, <1>3 DEF Shown, NewWriter
<1>5. ChangeBits'
  BY <1>1, <1>2 DEF ChangeBits
<1>6. ShownSlots'
  <2>1. \A i \in Slots : Shown(i) => NewWriter(i)
    BY <1>1, <1>2, NoneFinished
  <2> QED BY <1>4, <2>1 DEF ShownSlots, Writer
<1>7. NewestLast' /\ LatestReference'
  BY <1>1, <1>2, <1>3, <1>4 DEF NewestLast, LatestReference
<1>8. BuffersLeft'
  BY <1>1, <1>2, BuffersStay DEF InUse
<1> QED BY <1>5, <1>6, <1>7, <1>8 DEF SupplyKept

-----------------------------------------------------------------------------
(***************************************************************************)
(* The parser takes a slot, and a buffer.                                  *)
(***************************************************************************)
(* The picture is not usable: it gets no slot.                             *)
LEMMA ParserPassesSupply ==
    ASSUME IInv, ~aborted, SupplyKept, ParserParses, ~Usable
    PROVE  SupplyKept'
<1>1. ChangeBits /\ StatusBits /\ ThreadTypes
  BY TypeParts DEF SupplyKept, IInv
<1>2. /\ "parsed" \notin ready /\ "infoGen" \notin ready /\ parserAt = "parse"
      /\ ready' = ready \union {"parsed"} /\ parserAt' = "change" /\ waits' = waits
      /\ cur' = [cur EXCEPT !.valid = FALSE, !.output = NoSlot]
      /\ UNCHANGED groupVars /\ UNCHANGED slotVars /\ UNCHANGED halVars
      /\ ref0' = ref0 /\ group' = group /\ extraRef' = extraRef /\ scenario' = scenario
  BY <1>1 DEF ParserParses, StatusBits, outVars, userVars
<1>3. cur'.output = NoSlot
  BY <1>1, <1>2 DEF ThreadTypes, Infos
<1>4. ParserSame
  BY <1>1, <1>2, <1>3 DEF ChangeBits, ParserSame, HandSame, Parsed
<1>5. Steady
  BY <1>2, <1>4, HalRests DEF Steady, slotVars, halVars, BufferSteps
<1> QED BY <1>5, SteadyKeeps

(* It gets the first free slot, and is queued last.                        *)
LEMMA ParserParsesSupply ==
    ASSUME IInv, ~aborted, SlotsKept, SlotsKept', SupplyKept, ParserParses,
           Usable, FreeSlots # {}
    PROVE  SupplyKept'
<1>1. /\ ChangeBits /\ ShownSlots /\ NewestLast /\ LatestReference /\ BuffersLeft
      /\ SlotsFlagged /\ SlotsFlagged' /\ PictureInHand /\ StatusBits /\ OneInFlight
      /\ slot \in [Slots -> SlotEntries] /\ display \in Seq(Slots) /\ ThreadTypes
  BY UseFacts, TypeParts DEF SupplyKept, SlotsKept, IInv
<1>2. /\ "curr" \in ready /\ "parsed" \notin ready /\ "prev" \in ready
      /\ "infoGen" \notin ready /\ cur \in Infos /\ cur.id \in Packets
      /\ ready' = ready \union {"parsed"} /\ waits' = waits
      /\ parserAt' = "change" /\ parserAt = "parse"
      /\ scenario' = scenario /\ group' = group /\ info' = info /\ extraRef' = extraRef
      /\ halAt' = halAt /\ halInfo' = halInfo /\ UNCHANGED groupVars
  BY <1>1 DEF ParserParses, StatusBits, PictureSteps, AloneSteps, PictureInHand, ThreadTypes,
              userVars, halVars, outVars
<1>3. /\ \A t \in HalTasks : ~InHardware(t) /\ ~InHardware(t)'
      /\ \A t : Sent(t)' <=> Sent(t)
      /\ taskInfo' = taskInfo /\ ~Parsed
  <2>1. \A t \in HalTasks : ~InHardware(t)
    BY <1>1, <1>2 DEF OneInFlight, InFlight
  <2>2. \A t : InHardware(t)' <=> InHardware(t)
    BY <1>2, GroupSame
  <2> QED BY <1>2, <2>1, <2>2 DEF Parsed, Sent, groupVars
<1>4. PICK out \in Slots : out = FirstFree /\ ~slot[out].onUsed
  BY FirstFreeFound DEF FreeSlots
<1>5. PICK ref \in Slots \union {NoSlot} : ref = Refer
  BY <1>1 DEF Refer, ThreadTypes
<1>6. /\ slot' = ParsedSlots(out) /\ display' = Enqueued(display, out)
      /\ cur' = [cur EXCEPT !.output = out, !.refer = ref] /\ ref0' = out
  BY <1>4, <1>5 DEF ParserParses
<1>7. cur'.output = out /\ Parsed'
  <2>1. NoSlot \notin Slots
    BY SlotsAssumption DEF Slots
  <2>2. cur'.output = out
    BY <1>2, <1>4, <1>5, <1>6 DEF Infos
  <2> QED BY <1>2, <2>1, <2>2 DEF Parsed
<1>8. ~Shown(out)
  BY <1>1, <1>4 DEF SlotsFlagged, Flagged
<1>9. /\ Len(display) \in Nat /\ Len(display') = Len(display) + 1
      /\ \A k \in 1 .. Len(display) : display'[k] = display[k] /\ display[k] # out
      /\ ToSet(display') = ToSet(display) \union {out}
  <2>1. ToSet(display') = ToSet(display) \union {out}
    BY <1>6, UseFacts, EnqueuedSlot
  <2>2. /\ Len(display) \in Nat /\ Len(display') = Len(display) + 1
        /\ \A k \in 1 .. Len(display) : display'[k] = display[k]
    BY <1>1, <1>6, <1>8, QueuedLast DEF Shown
  <2>3. \A k \in 1 .. Len(display) : display[k] # out
    BY <1>1, <1>8, FrameNumbers
  <2> QED BY <2>1, <2>2, <2>3
<1>10. \A i : /\ Shown(i)' <=> Shown(i) \/ i = out
              /\ NewWriter(i)' <=> i = out
              /\ Writer(i) <=> LateWriter(i)
              /\ Writer(i)' <=> i = out \/ LateWriter(i)
  <2>1. \A i : /\ ~NewWriter(i)
               /\ NewWriter(i)' <=> i = out
               /\ LateWriter(i)' <=> LateWriter(i)
    BY <1>2, <1>3, <1>7 DEF NewWriter, LateWriter
  <2> QED BY <1>9, <2>1 DEF Writer, Shown
<1>11. ChangeBits'
  BY <1>1, <1>2 DEF ChangeBits
<1>12. ShownSlots'
  BY <1>1, <1>2, <1>3, <1>10 DEF ShownSlots, ChangeTask
<1>13. NewestLast'
  BY <1>9, <1>10 DEF NewestLast
<1>14. LatestReference'
  BY <1>3, <1>7 DEF LatestReference
<1>15. BuffersLeft'
  <2>1. slot'[out].buffer = NoBuffer
    <3>1. PICK e \in SlotEntries, id \in Packets : e = slot[out] /\ id = cur.id
      BY <1>1, <1>2
    <3>2. NoFrame \notin Packets
      BY PacketNumbers
    <3>3. Flagged(e, FALSE, FALSE, FALSE, 0) /\ out # ref0
      <4>1. Flagged(slot[out], Writer(out), out = ref0, Shown(out), Readers(out))
        BY <1>1 DEF SlotsFlagged
      <4>2. Readers(out) \in 0 .. 2
        BY UseFacts
      <4>3. Readers(out) = 0 /\ out # ref0 /\ ~Writer(out)
        BY <1>4, <4>1, <4>2 DEF Flagged
      <4> QED BY <1>8, <3>1, <4>1, <4>3 DEF Flagged
    <3>4. LET d == SetFlag(SetFlag(SetFlag(SetFlag([Taken(e) EXCEPT !.frame = id],
                    "HAL_OUTPUT"), "CODEC_USE"), "QUEUE_USE"), "QUEUE_USE")
           IN  /\ Flagged(d, TRUE, TRUE, TRUE, 0)
               /\ d.frame = id /\ d.buffer = NoBuffer
      BY <3>1, <3>2, <3>3, PictureTakes, ZenonT(60)
    <3>5. slot'[out] = SetFlag(SetFlag(SetFlag(SetFlag([Taken(e) EXCEPT !.frame = id],
                        "HAL_OUTPUT"), "CODEC_USE"), "QUEUE_USE"), "QUEUE_USE")
      BY <1>6, <3>1, <3>3 DEF ParsedSlots
    <3> QED BY <3>4, <3>5
  <2>2. ASSUME NEW i \in Slots, i # out
        PROVE  slot'[i].buffer \in {slot[i].buffer, NoBuffer}
    <3>1. PICK e \in SlotEntries : e = slot[i]
      BY <1>1
    <3>2. PICK d \in SlotEntries : /\ d = (IF i = ref THEN SetFlag(e, "HAL_INPUT") ELSE e)
                                   /\ SameContent(d, e)
      BY <3>1, ReadContent DEF SameContent
    <3>3. slot'[i] = IF i = ref0 THEN ClrFlag(d, "CODEC_USE") ELSE d
      BY <1>5, <1>6, <2>2, <3>1, <3>2 DEF ParsedSlots
    <3>4. ClrFlag(d, "CODEC_USE").onUsed => SameContent(ClrFlag(d, "CODEC_USE"), d)
      BY <3>2, ClearedContent
    <3>5. ContentKept(i)
      BY <3>1, <3>2, <3>3, <3>4 DEF ContentKept, SameContent
    <3> QED BY <1>1, <3>5, KeptContent
  <2>3. \A i \in Slots : slot'[i].buffer \in {slot[i].buffer, NoBuffer}
    BY <2>1, <2>2
  <2> QED BY <1>1, <1>2, <2>3, BuffersShrink, BuffersStay DEF BufferSteps
<1> QED BY <1>11, <1>12, <1>13, <1>14, <1>15 DEF SupplyKept

(* A picture that goes to the hardware finds the buffer that was free when *)
(* the parser looked.                                                      *)
LEMMA BufferFound ==
    ASSUME IInv, ~aborted, SupplyKept, parserAt = "submit"
    PROVE  FreeBuffers # {}
<1>1. /\ BuffersLeft /\ PictureInHand /\ StatusBits /\ FormatsKnown /\ UserTypes
  BY TypeParts DEF SupplyKept, IInv
<1>2. cur.id \in Packets /\ Stream[cur.id].kind # "eos"
  BY <1>1 DEF PictureInHand, StatusBits
<1>3. info = Stream[cur.id].fmt
  BY <1>1 DEF PictureInHand, StatusBits, FormatsKnown
<1>4. Stream[cur.id].fmt # 0
  BY <1>1, <1>2, DecAssumption DEF UserTypes, Packets, Stream
<1> QED BY <1>1, <1>3, <1>4 DEF BuffersLeft, BufferSteps

LEMMA ParserSubmitsSupply ==
    ASSUME IInv, ~aborted, SlotsKept, SupplyKept, ParserSubmits
    PROVE  SupplyKept'
<1>1. /\ ChangeBits /\ ShownSlots /\ NewestLast /\ LatestReference /\ BuffersLeft
      /\ Lists /\ TasksInHand /\ StatusBits /\ PictureInHand /\ OneInFlight /\ ThreadTypes
      /\ WritersApart
  BY TypeParts DEF SupplyKept, SlotsKept, IInv
<1>2. /\ parserAt = "submit" /\ parserAt' = "top" /\ FreeBuffers # {}
      /\ "infoGen" \notin ready /\ "parsed" \in ready
      /\ display' = display /\ ref0' = ref0
      /\ scenario' = scenario /\ group' = group /\ info' = info
  BY <1>1, BufferFound DEF ParserSubmits, StatusBits, userVars
<1>3. PICK h \in HalTasks : h = hnd /\ taskStatus[h] = "IDLE"
  BY <1>1, <1>2 DEF TasksInHand, HndSteps, ThreadTypes
<1>4. PICK i \in Infos, out \in Slots :
         /\ i = cur /\ out = cur.output /\ i.valid /\ ~i.infoChange /\ i.output = out
  BY <1>1, <1>2 DEF ThreadTypes, Infos, StatusBits, PictureInHand
<1>5. /\ Send(i) /\ ready' = ready \ {"copied", "curr", "parsed", "prev"}
      /\ waits' = waits \ {"dec_pic_buf"}
  BY <1>2, <1>4 DEF ParserSubmits
<1>6. HalSame /\ ChangesStay
  BY <1>3, <1>5, SendMild
<1>7. /\ InHardware(h)' /\ taskInfo'[h] = i
      /\ \A t \in HalTasks : ~InHardware(t) /\ (InHardware(t)' => t = h)
  <2>1. taskInfo \in [HalTasks -> Infos] /\ Infos' = Infos
    BY <1>2, TypeParts, SameScenario DEF IInv
  <2>2. /\ taskInfo'[h] = i
        /\ \A t \in HalTasks \ {h} :
              /\ taskStatus'[t] = taskStatus[t] /\ taskInfo'[t] = taskInfo[t]
              /\ InHardware(t)' <=> InHardware(t)
              /\ InFlight(t)' <=> InFlight(t)
        /\ ~InFlight(h) /\ ~InHardware(h)
        /\ InHardware(h)' <=> i.valid /\ ~i.infoChange
        /\ halInfo' = halInfo
        /\ halAt' = IF halAt = "asleep" THEN "get" ELSE halAt
    BY <1>1, <1>3, <1>5, <2>1, TaskSent, ZenonT(60)
  <2>3. \A t \in HalTasks : ~InHardware(t)
    BY <1>1, <1>2 DEF StatusBits, AloneSteps, OneInFlight, InFlight
  <2> QED BY <1>4, <2>2, <2>3
<1>8. /\ Parsed /\ ~Parsed' /\ out = ref0
      /\ "infoGen" \notin ready' /\ "parsed" \notin ready' /\ "info_change" \notin waits'
  <2>1. Parsed /\ ~Parsed'
    BY <1>1, <1>2, <1>5 DEF Parsed, PictureInHand
  <2> QED BY <1>1, <1>2, <1>4, <1>5, <2>1 DEF WritersApart, ChangeBits
<1>9. \A j : /\ NewWriter(j)' <=> NewWriter(j)
             /\ Writer(j)' <=> Writer(j)
             /\ Shown(j)' <=> Shown(j)
  <2>1. \A j : NewWriter(j)' <=> NewWriter(j)
    BY <1>4, <1>7, <1>8 DEF NewWriter
  <2>2. \A j : LateWriter(j)' <=> LateWriter(j)
    BY <1>6 DEF LateWriter, HalSame, LetGoSteps
  <2> QED BY <1>2, <2>1, <2>2 DEF Writer, Shown
<1>10. ChangeBits'
  BY <1>8 DEF ChangeBits
<1>11. ShownSlots'
  <2>1. ASSUME NEW j \in Slots, Shown(j)', ~Writer(j)'
        PROVE  \/ halAt' = "display" /\ j = halInfo'.output
               \/ halAt' \in LetGoSteps /\ \E t \in HalTasks : ChangeTask(t, j)'
    <3>1. \/ halAt = "display" /\ j = halInfo.output
          \/ halAt \in LetGoSteps /\ \E t \in HalTasks : ChangeTask(t, j)
      BY <1>1, <1>2, <1>9, <2>1 DEF ShownSlots
    <3>2. halAt \in LetGoSteps => halAt' \in LetGoSteps
      BY <1>6 DEF HalSame, LetGoSteps
    <3>3. ASSUME NEW t \in HalTasks, halAt \in LetGoSteps, ChangeTask(t, j)
          PROVE  ChangeTask(t, j)'
      BY <1>6, <3>3 DEF ChangesStay, ChangeTask
    <3> QED BY <1>6, <3>1, <3>2, <3>3 DEF HalSame, LetGoSteps
  <2> QED BY <2>1 DEF ShownSlots, ChangeTask
<1>12. NewestLast'
  BY <1>1, <1>2, <1>9 DEF NewestLast
<1>13. LatestReference'
  <2>1. \A t \in HalTasks : InHardware(t)' => ref0' = taskInfo'[t].output
    BY <1>2, <1>4, <1>7, <1>8
  <2> QED BY <1>7, <2>1 DEF LatestReference
<1>14. BuffersLeft'
  BY <1>1, <1>2 DEF BuffersLeft, BufferSteps
<1> QED BY <1>10, <1>11, <1>12, <1>13, <1>14 DEF SupplyKept

-----------------------------------------------------------------------------
(***************************************************************************)
(* A reset.                                                                *)
(***************************************************************************)
(* What the picture in hand has is taken back.  Its slot stays queued: a   *)
(* task that announces a change may still have it.                         *)
LEMMA ResetClearsSupply ==
    ASSUME IInv, ~aborted, ~aborted', SlotsKept, SupplyKept, ResetClears
    PROVE  SupplyKept'
<1>1. /\ ChangeBits /\ ShownSlots /\ BuffersLeft /\ StatusBits /\ OneInFlight
      /\ display \in Seq(Slots) /\ IsInjective(display)
  BY UseFacts DEF SupplyKept, IInv
<1>2. /\ "prev" \in ready /\ parserAt = "resetClear" /\ parserAt' = "resetDrain"
      /\ ref0' = NoSlot /\ ready' = ready /\ waits' = waits /\ cur' = cur
      /\ halAt' = halAt /\ halInfo' = halInfo /\ UNCHANGED groupVars /\ taskInfo' = taskInfo
      /\ group' = group /\ info' = info
      /\ display' \in {display, Unqueued(display, cur.output)}
  BY <1>1 DEF ResetClears, Abort, StatusBits, AloneSteps, halVars, groupVars
<1>3. /\ \A t \in HalTasks : ~InHardware(t) /\ ~InHardware(t)'
      /\ \A t : Sent(t)' <=> Sent(t)
      /\ ~Parsed'
  <2>1. \A t \in HalTasks : ~InHardware(t)
    BY <1>1, <1>2 DEF OneInFlight, InFlight
  <2>2. \A t : InHardware(t)' <=> InHardware(t)
    BY <1>2, GroupSame
  <2> QED BY <1>2, <2>1, <2>2 DEF Parsed, Sent, groupVars
<1>4. \A i : Shown(i)' => Shown(i)
  <2>1. ToSet(Unqueued(display, cur.output)) = ToSet(display) \ {cur.output}
    BY <1>1, UnqueuedSlot
  <2> QED BY <1>2, <2>1 DEF Shown
<1>5. \A i : /\ NewWriter(i) => Parsed /\ i = cur.output
             /\ ~NewWriter(i)'
             /\ LateWriter(i)' <=> LateWriter(i)
  BY <1>2, <1>3 DEF NewWriter, LateWriter
<1>6. ChangeBits'
  BY <1>1, <1>2, <1>3 DEF ChangeBits, ChangeTask
<1>7. ShownSlots'
  BY <1>1, <1>2, <1>3, <1>4, <1>5 DEF ShownSlots, ChangeTask, Writer, Parsed
<1>8. NewestLast' /\ LatestReference'
  BY <1>2, <1>3, <1>5 DEF NewestLast, LatestReference
<1>9. BuffersLeft'
  BY <1>1, <1>2 DEF BuffersLeft, BufferSteps
<1> QED BY <1>6, <1>7, <1>8, <1>9 DEF SupplyKept

(* The display queue has no finished picture, unless a task has its slot.  *)
LEMMA ResetEndsSupply ==
    ASSUME IInv, ~aborted, SlotsKept, SupplyKept, ResetEnds
    PROVE  SupplyKept'
<1>1. ChangeBits /\ ShownSlots /\ NewestLast /\ LatestReference /\ BuffersLeft
  BY DEF SupplyKept
<1>2. /\ parserAt = "resetDrain" /\ parserAt' = "check" /\ ~DisplayReady
      /\ ready' = {"prev"} /\ waits' = {} /\ ref0' = ref0
      /\ display' = display /\ halAt' = halAt /\ halInfo' = halInfo
      /\ UNCHANGED groupVars /\ taskInfo' = taskInfo /\ group' = group /\ info' = info
  BY DEF ResetEnds, slotVars, halVars, groupVars
<1>3. /\ ~Parsed /\ ~Parsed'
      /\ \A t : (InHardware(t)' <=> InHardware(t)) /\ (Sent(t)' <=> Sent(t))
  BY <1>2, GroupSame DEF Parsed, Sent, groupVars
<1>4. \A i : /\ Shown(i)' <=> Shown(i)
             /\ NewWriter(i)' <=> NewWriter(i)
             /\ Writer(i)' <=> Writer(i)
  <2>1. \A i : NewWriter(i)' <=> NewWriter(i)
    BY <1>2, <1>3 DEF NewWriter
  <2>2. \A i : LateWriter(i)' <=> LateWriter(i)
    BY <1>2 DEF LateWriter
  <2> QED BY <1>2, <2>1, <2>2 DEF Shown, Writer
<1>5. ShownSlots'
  <2>1. ASSUME NEW i \in Slots, Shown(i), ~Writer(i)
        PROVE  \/ halAt = "display" /\ i = halInfo.output
               \/ halAt \in LetGoSteps /\ \E t \in HalTasks : ChangeTask(t, i)
    <3>1. halAt \in LetGoSteps
      <4>1. CASE halAt = "slots"
        BY <4>1 DEF LetGoSteps
      <4>2. CASE halAt # "slots"
        <5>1. ~NewWriter(i)
          BY <2>1 DEF Writer
        <5>2. FALSE
          BY <1>1, <1>2, <2>1, <4>2, <5>1, NoneFinished
        <5> QED BY <5>2
      <4> QED BY <4>1, <4>2
    <3>2. CASE "parsed" \in ready /\ i = cur.output
      BY <1>1, <1>2, <3>1, <3>2 DEF ChangeBits
    <3> QED BY <1>1, <2>1, <3>1, <3>2 DEF ShownSlots
  <2> QED BY <1>2, <1>3, <1>4, <2>1 DEF ShownSlots, ChangeTask
<1>6. ChangeBits'
  BY <1>2 DEF ChangeBits
<1>7. NewestLast' /\ LatestReference'
  BY <1>1, <1>2, <1>3, <1>4 DEF NewestLast, LatestReference
<1>8. BuffersLeft'
  BY <1>1, <1>2 DEF BuffersLeft, BufferSteps
<1> QED BY <1>5, <1>6, <1>7, <1>8 DEF SupplyKept

-----------------------------------------------------------------------------
(***************************************************************************)
(* How many slots are in use.                                              *)
(***************************************************************************)
(* Two slots, and one for each task but one.                               *)
Few(f, h, a, b) == {i \in Slots : i = a \/ i = b \/ \E t \in HalTasks \ {h} : f[t] = i}

LEMMA FewSlots ==
    ASSUME NEW f, NEW h \in HalTasks, NEW a, NEW b, Slots \subseteq Few(f, h, a, b)
    PROVE  SlotCount <= TaskCount + 1
<1> DEFINE T == HalTasks \ {h}
           g == [t \in T |-> f[t]]
           G == {f[t] : t \in T}
<1>1. IsFiniteSet(T) /\ Cardinality(T) = TaskCount - 1
  <2>1. TaskCount \in Nat \ {0} /\ HalTasks = 1 .. TaskCount
    BY HalTasksAssumption DEF HalTasks
  <2>2. IsFiniteSet(HalTasks) /\ Cardinality(HalTasks) = TaskCount
    BY <2>1, FS_Interval
  <2> QED BY <2>2, FS_RemoveElement
<1>2. IsFiniteSet(G) /\ Cardinality(G) <= Cardinality(T)
  <2>1. g \in Surjection(T, G)
    BY DEF Surjection
  <2> HIDE DEF T, g, G
  <2> QED BY <1>1, <2>1, FS_Surjection
<1>3. Slots \subseteq (G \union {a}) \union {b}
  BY DEF Few
<1>4. IsFiniteSet(Slots) /\ Cardinality(Slots) = SlotCount
  <2>1. SlotCount \in Nat \ {0} /\ Slots = 1 .. SlotCount
    BY SlotsAssumption DEF Slots
  <2> QED BY <2>1, FS_Interval
<1> HIDE DEF T, G
<1>5. IsFiniteSet(G \union {a}) /\ Cardinality(G \union {a}) <= Cardinality(G) + 1
  <2>1. Cardinality(G) \in Nat
    BY <1>2, FS_CardinalityType
  <2>2. /\ IsFiniteSet(G \union {a})
        /\ Cardinality(G \union {a}) = IF a \in G THEN Cardinality(G) ELSE Cardinality(G) + 1
    BY <1>2, FS_AddElement, Zenon
  <2> QED BY <2>1, <2>2
<1>6. /\ IsFiniteSet((G \union {a}) \union {b})
      /\ Cardinality((G \union {a}) \union {b}) <= Cardinality(G \union {a}) + 1
  <2> DEFINE A == G \union {a}
  <2>1. IsFiniteSet(A) /\ Cardinality(A) \in Nat
    BY <1>5, FS_CardinalityType, Zenon
  <2> HIDE DEF A
  <2>2. /\ IsFiniteSet(A \union {b})
        /\ Cardinality(A \union {b}) = IF b \in A THEN Cardinality(A) ELSE Cardinality(A) + 1
    BY <2>1, FS_AddElement, Zenon
  <2>3. Cardinality(A \union {b}) <= Cardinality(A) + 1
    BY <2>1, <2>2
  <2> QED BY <2>2, <2>3 DEF A
<1>7. Cardinality(Slots) <= Cardinality((G \union {a}) \union {b})
  BY <1>3, <1>6, FS_Subset
<1>8. /\ Cardinality(G) \in Nat /\ Cardinality(G \union {a}) \in Nat
      /\ Cardinality((G \union {a}) \union {b}) \in Nat
  BY <1>2, <1>5, <1>6, FS_CardinalityType
<1> QED BY <1>1, <1>2, <1>4, <1>5, <1>6, <1>7, <1>8, HalTasksAssumption, SlotsAssumption

(* When no picture is in hand, the reference is in use, or what the HAL    *)
(* thread has not let go of, and what tasks left by a reset announce.      *)
LEMMA FewInUse ==
    ASSUME IInv, SlotsKept, SupplyKept, \A t \in HalTasks : ~InHardware(t), ~Parsed,
           parserAt # "resetDrain", NEW h \in HalTasks,
           halAt \in LetGoSteps => \A i \in Slots : ~ChangeTask(h, i),
           FreeSlots = {}
    PROVE  SlotCount <= TaskCount + 1
<1>1. /\ SlotsFlagged /\ ShownSlots /\ LatestReference
      /\ NoSlot \notin Slots /\ \A i : Readers(i) \in 0 .. 2
  BY UseFacts, SlotsAssumption DEF SlotsKept, SupplyKept, Slots
<1>2. \A i : ~NewWriter(i) /\ ~NewReader(i)
  BY DEF NewWriter, NewReader
<1>3. ASSUME NEW i \in Slots
      PROVE  \/ i = ref0
             \/ halAt \in LetGoSteps /\ i \in {halInfo.output, halInfo.refer}
             \/ halAt \in LetGoSteps /\ \E t \in HalTasks : ChangeTask(t, i)
  <2>1. Writer(i) \/ i = ref0 \/ Shown(i) \/ Readers(i) > 0
    BY <1>1 DEF FreeSlots, SlotsFlagged, Flagged
  <2>2. Writer(i) => halAt = "slots" /\ i = halInfo.output
    BY <1>2 DEF Writer, LateWriter
  <2>3. Readers(i) > 0 => halAt = "slots" /\ i = halInfo.refer
    BY <1>2 DEF Readers, LateReader
  <2>4. Shown(i) /\ ~Writer(i) =>
           \/ halAt = "display" /\ i = halInfo.output
           \/ halAt \in LetGoSteps /\ \E t \in HalTasks : ChangeTask(t, i)
    BY <1>1 DEF ShownSlots
  <2> QED BY <2>1, <2>2, <2>3, <2>4 DEF LetGoSteps
<1>4. CASE halAt \in LetGoSteps
  <2>1. ref0 \in {NoSlot, halInfo.output}
    BY <1>1, <1>4 DEF LatestReference
  <2>2. \A i \in Slots : \/ i = halInfo.output \/ i = halInfo.refer
                         \/ \E t \in HalTasks \ {h} : taskInfo[t].output = i
    BY <1>1, <1>3, <1>4, <2>1 DEF ChangeTask
  <2>3. PICK a : a = halInfo.output
    OBVIOUS
  <2>4. PICK b : b = halInfo.refer
    OBVIOUS
  <2>5. PICK f : \A t \in HalTasks : f[t] = taskInfo[t].output
    <3>1. \A t \in HalTasks :
             [u \in HalTasks |-> taskInfo[u].output][t] = taskInfo[t].output
      OBVIOUS
    <3> QED BY <3>1
  <2>6. \A i \in Slots : i = a \/ i = b \/ \E t \in HalTasks \ {h} : f[t] = i
    BY <2>2, <2>3, <2>4, <2>5
  <2>7. Slots \subseteq Few(f, h, a, b)
    BY <2>6 DEF Few
  <2> QED BY <2>7, FewSlots, Zenon
<1>5. CASE halAt \notin LetGoSteps
  <2>1. Slots \subseteq Few(taskInfo, h, ref0, ref0)
    BY <1>3, <1>5 DEF Few
  <2> QED BY <2>1, FewSlots, Zenon
<1> QED BY <1>4, <1>5

(* The parser finds no slot.                                               *)
LEMMA ParserParsesAborts ==
    ASSUME IInv, ~aborted, SlotsKept, SupplyKept, ParserParses, FreeSlots = {}
    PROVE  SlotCount <= TaskCount + 1
<1>1. OneInFlight /\ TasksInHand /\ StatusBits /\ ThreadTypes
  BY TypeParts DEF IInv
<1>2. "parsed" \notin ready /\ "prev" \in ready /\ parserAt = "parse"
  BY <1>1 DEF ParserParses, StatusBits, AloneSteps
<1>3. PICK h \in HalTasks : h = hnd /\ taskStatus[h] = "IDLE"
  BY <1>1, <1>2 DEF TasksInHand, HndSteps, ThreadTypes
<1>4. /\ \A t \in HalTasks : ~InHardware(t)
      /\ ~Parsed /\ \A i : ~ChangeTask(h, i)
  BY <1>1, <1>2, <1>3 DEF OneInFlight, InFlight, Parsed, ChangeTask, Sent
<1> QED BY <1>2, <1>4, FewInUse

(* A reset finds a picture without a slot: a task has none, either.        *)
LEMMA ResetClearsAborts ==
    ASSUME IInv, ~aborted, SlotsKept, SupplyKept, ResetClears, aborted', FreeSlots = {}
    PROVE  SlotCount <= TaskCount + 1
<1>1. /\ OneInFlight /\ StatusBits /\ ChangeBits
      /\ NoSlot \notin Slots /\ 1 \in HalTasks
  BY SlotsAssumption, HalTasksAssumption DEF IInv, SupplyKept, Slots, HalTasks
<1>2. /\ cur.output = NoSlot /\ "parsed" \in ready /\ "infoGen" \in ready
      /\ "prev" \in ready /\ parserAt = "resetClear"
  BY <1>1 DEF ResetClears, StatusBits, ChangeBits, AloneSteps
<1>3. \A t \in HalTasks : ~InHardware(t)
  BY <1>1, <1>2 DEF OneInFlight, InFlight
<1>4. ~Parsed
  BY <1>2 DEF Parsed
<1>5. PICK h \in HalTasks : halAt \in LetGoSteps => ChangeTask(h, NoSlot)
  BY <1>1, <1>2 DEF ChangeBits
<1>6. halAt \in LetGoSteps => \A i \in Slots : ~ChangeTask(h, i)
  BY <1>1, <1>5 DEF ChangeTask
<1> QED BY <1>2, <1>3, <1>4, <1>6, FewInUse

(* The frame of a change that is announced is gone.  The HAL thread has    *)
(* let go of all pictures: two slots are in use.                           *)
LEMMA HalPutsAborts ==
    ASSUME IInv, ~aborted, SlotsKept, SupplyKept, HalPuts, aborted', FreeSlots = {}
    PROVE  SlotCount <= TaskCount + 1
<1>1. /\ SlotsFlagged /\ WritersApart /\ ShownSlots /\ LatestReference
      /\ OneInFlight /\ StatusBits /\ 1 \in HalTasks
      /\ \A i : Readers(i) \in 0 .. 2
  BY UseFacts, HalTasksAssumption DEF IInv, SlotsKept, SupplyKept, HalTasks
<1>2. halAt = "infoPut" /\ halAt \notin LetGoSteps
  BY DEF HalPuts, LetGoSteps
<1>3. \A i : /\ Writer(i) <=> NewWriter(i)
             /\ Readers(i) > 0 <=> NewReader(i)
  BY <1>2 DEF Writer, LateWriter, Readers, LateReader
<1>4. \A i \in Slots : \/ NewWriter(i) \/ i = ref0 \/ NewReader(i)
                       \/ Shown(i) /\ ~Writer(i)
  BY <1>1, <1>3 DEF FreeSlots, SlotsFlagged, Flagged
<1>5. \A i \in Slots : Shown(i) /\ ~Writer(i) =>
         parserAt = "resetDrain" /\ "parsed" \in ready /\ i = cur.output
  BY <1>1, <1>2 DEF ShownSlots
<1>6. "parsed" \in ready => \A t \in HalTasks : ~InHardware(t)
  BY <1>1 DEF OneInFlight, InFlight, StatusBits
<1>7. \E a, b : \A i \in Slots : i = a \/ i = b
  <2>1. CASE Parsed
    <3>1. \A i \in Slots : i = cur.output \/ i = cur.refer
      BY <1>1, <1>4, <1>5, <1>6, <2>1 DEF WritersApart, NewWriter, NewReader, Parsed
    <3> QED BY <3>1
  <2>2. CASE ~Parsed /\ \E t \in HalTasks : InHardware(t)
    <3>1. PICK t \in HalTasks : InHardware(t)
      BY <2>2
    <3>2. \A u \in HalTasks : InHardware(u) => u = t
      BY <1>1, <3>1 DEF OneInFlight, InFlight
    <3>3. \A i \in Slots : i = ref0 \/ i = taskInfo[t].refer
      BY <1>1, <1>4, <1>5, <1>6, <2>2, <3>1, <3>2 DEF LatestReference, NewWriter, NewReader
    <3> QED BY <3>3
  <2>3. CASE ~Parsed /\ \A t \in HalTasks : ~InHardware(t)
    <3>1. \A i \in Slots : i = ref0 \/ i = cur.output
      BY <1>4, <1>5, <2>3 DEF NewWriter, NewReader
    <3> QED BY <3>1
  <2> QED BY <2>1, <2>2, <2>3
<1>8. PICK a, b : \A i \in Slots : i = a \/ i = b
  BY <1>7
<1>9. Slots \subseteq Few(taskInfo, 1, a, b)
  BY <1>8 DEF Few
<1> QED BY <1>1, <1>9, FewSlots, Zenon

-----------------------------------------------------------------------------
(***************************************************************************)
(* The specification.                                                      *)
(***************************************************************************)
(* A step that aborts leaves the slots as it found them, all in use: there *)
(* are too few of them.                                                    *)
Aborts == aborted' /\ UNCHANGED slot /\ (FreeSlots = {} => SlotCount <= TaskCount + 1)

LEMMA AbortsSupply ==
    ASSUME Aborts
    PROVE  SupplyInv'
<1>1. FreeSlots' = FreeSlots
  BY DEF Aborts, FreeSlots
<1>2. SlotCount \in Nat /\ TaskCount \in Nat
  BY SlotsAssumption, HalTasksAssumption
<1>3. SlotCount >= TaskCount + 2 => FreeSlots # {}
  BY <1>2 DEF Aborts
<1> QED BY <1>1, <1>3 DEF SupplyInv, Aborts

(* Nothing is in use, nothing is displayed.                                *)
LEMMA InitSupply == Init => SupplyInv
<1> SUFFICES ASSUME Init PROVE SupplyInv
  OBVIOUS
<1>1. /\ slot = [i \in Slots |-> Unused] /\ display = <<>> /\ aborted = FALSE
      /\ ready = {"prev"} /\ waits = {} /\ ref0 = NoSlot /\ halAt = "get"
      /\ parserAt = "top" /\ group = 0 /\ info = 0
  BY DEF Init, SlotsInit
<1>2. \A t \in HalTasks : ~InHardware(t)
  BY DEF Init, GroupInit, InHardware
<1>3. ChangeBits
  BY <1>1 DEF ChangeBits, LetGoSteps
<1>4. ShownSlots
  BY <1>1, EmptyList DEF ShownSlots, Shown
<1>5. NewestLast
  BY <1>1 DEF NewestLast
<1>6. LatestReference
  BY <1>1, <1>2 DEF LatestReference, LetGoSteps
<1>7. BuffersLeft
  BY <1>1 DEF BuffersLeft
<1> QED BY <1>1, <1>3, <1>4, <1>5, <1>6, <1>7 DEF SupplyInv, SupplyKept

(* A step of none of the threads.                                          *)
LEMMA StutterSupply == IInv /\ SupplyInv /\ UNCHANGED vars => SupplyInv'
<1> SUFFICES ASSUME IInv, SupplyInv, UNCHANGED vars PROVE SupplyInv'
  OBVIOUS
<1>1. /\ UNCHANGED groupVars /\ UNCHANGED slotVars /\ UNCHANGED parserVars
      /\ UNCHANGED <<aborted, parserAt, scenario, group, extraRef, halAt, halInfo>>
  BY DEF vars, userVars, outVars, parserVars, halVars, slotVars
<1>2. CASE aborted
  <2>1. FreeSlots' = FreeSlots
    BY <1>1 DEF FreeSlots, slotVars
  <2> QED BY <1>1, <1>2, <2>1 DEF SupplyInv
<1>3. CASE ~aborted
  <2>1. SupplyKept
    BY <1>3 DEF SupplyInv
  <2>2. Steady
    <3>1. HalSame /\ ParserSame /\ ref0' = ref0
      BY <1>1, <2>1, HalRests, ParserStays DEF SupplyKept
    <3> QED BY <1>1, <3>1 DEF Steady, slotVars
  <2>3. SupplyKept'
    BY <2>1, <2>2, SteadyKeeps
  <2> QED BY <1>1, <1>3, <2>3 DEF SupplyInv
<1> QED BY <1>2, <1>3

(* There is a packet slot to copy a packet into.                           *)
LEMMA PullsIntoSlot ==
    ASSUME IInv, PullPicture
    PROVE  aborted' = aborted
<1>1. /\ TasksInHand /\ ThreadTypes /\ StatusBits
  BY TypeParts DEF IInv
<1>2. PICK h \in HalTasks : h = hnd /\ taskStatus[h] = "IDLE"
  BY <1>1 DEF PullPicture, TasksInHand, HndSteps, ThreadTypes
<1>3. "copied" \notin ready
  BY <1>1 DEF PullPicture, StatusBits
<1>4. FreePacketSlots # {}
  BY <1>2, <1>3, PacketSlotFree
<1> QED BY <1>4 DEF PullPicture

(* The user, the parser thread and the HAL thread keep it.                 *)
LEMMA NextSupply == IInv /\ SlotInv /\ SupplyInv /\ [Next]_vars => SupplyInv'
<1> SUFFICES ASSUME IInv, SlotInv, SupplyInv, Next PROVE SupplyInv'
  BY StutterSupply
<1>1. ~aborted /\ SlotsKept /\ SupplyKept
  BY DEF SlotInv, SupplyInv, Next
<1>2. ~aborted' => SlotsKept'
  BY NextSlots DEF SlotInv
<1>3. SupplyKept' /\ ~aborted' => SupplyInv'
  BY DEF SupplyInv
<1>4. CASE User
  <2>1. ~aborted'
    BY <1>1, <1>4 DEF User, UserPuts, UserGets, UserReleases, UserCommits, UserReadies,
                      UserFlushesPackets, UserFlushesFrames, UserRaisesFlag
  <2>2. SupplyKept'
    BY <1>1, <1>4, UserSupply, UserCommitsSupply DEF User
  <2> QED BY <1>3, <2>1, <2>2
<1>5. CASE Parser
  <2>1. CASE \/ ParserTop \/ ParserChecks \/ ParserTries \/ PullNothing \/ ParserChecksGroup
             \/ ParserWaitsChange \/ ParserNeedsNoChange
    <3>1. ~aborted'
      BY <1>1, <2>1 DEF ParserTop, ParserChecks, ParserTries, PullNothing, ParserChecksGroup,
                        ParserWaitsChange, ParserNeedsNoChange, ParserLocal
    <3> QED BY <1>1, <1>3, <2>1, <3>1, ParserSupply
  <2>2. CASE PullPicture
    <3>1. ~aborted'
      BY <1>1, <2>2, PullsIntoSlot
    <3> QED BY <1>1, <1>3, <2>2, <3>1, ParserSupply
  <2>3. CASE PullEos \/ ParserAnnouncesChange \/ ParserDrops \/ ParserSubmits
    <3>1. ~aborted'
      BY <1>1, <2>3 DEF PullEos, ParserAnnouncesChange, ParserDrops, ParserSubmits
    <3> QED BY <1>1, <1>3, <2>3, <3>1, PullEosSupply, ParserAnnouncesChangeSupply,
               ParserDropsSupply, ParserSubmitsSupply
  <2>4. CASE ParserWaitsPrevious \/ ResetTakesPrevious
    <3>1. ~aborted'
      BY <1>1, <2>4 DEF ParserWaitsPrevious, ResetTakesPrevious
    <3> QED BY <1>1, <1>3, <2>4, <3>1, TakesBackSupply
  <2>5. CASE ParserParses
    <3>1. CASE Usable /\ FreeSlots = {}
      BY <1>1, <2>5, <3>1, ParserParsesAborts, AbortsSupply
         DEF ParserParses, Abort, Aborts, slotVars
    <3>2. CASE ~(Usable /\ FreeSlots = {})
      <4>1. ~aborted'
        BY <1>1, <2>5, <3>2 DEF ParserParses
      <4> QED BY <1>1, <1>2, <1>3, <2>5, <3>2, <4>1, ParserPassesSupply, ParserParsesSupply
    <3> QED BY <3>1, <3>2
  <2>6. CASE ResetClears
    <3>1. CASE aborted'
      <4>1. UNCHANGED slot
        BY <1>1, <2>6, <3>1 DEF ResetClears
      <4> QED BY <1>1, <2>6, <3>1, <4>1, ResetClearsAborts, AbortsSupply DEF Aborts
    <3> QED BY <1>1, <1>3, <2>6, <3>1, ResetClearsSupply
  <2>7. CASE ResetDrains
    <3>1. ~aborted'
      BY <1>1, <2>7 DEF ResetDrains
    <3> QED BY <1>1, <1>2, <1>3, <2>7, <3>1, DisplaysSupply
  <2>8. CASE ResetEnds
    <3>1. ~aborted'
      BY <1>1, <2>8 DEF ResetEnds
    <3> QED BY <1>1, <1>3, <2>8, <3>1, ResetEndsSupply
  <2> QED BY <1>5, <2>1, <2>2, <2>3, <2>4, <2>5, <2>6, <2>7, <2>8 DEF Parser
<1>6. CASE Hal
  <2>1. CASE HalPuts
    <3>1. CASE aborted'
      <4>1. UNCHANGED slot
        BY <2>1 DEF HalPuts, slotVars
      <4> QED BY <1>1, <2>1, <3>1, <4>1, HalPutsAborts, AbortsSupply DEF Aborts
    <3> QED BY <1>1, <1>3, <2>1, <3>1, HalSupply
  <2>2. CASE HalGets \/ HalHardwareEnds \/ HalIdles \/ HalDisplayEnds
    <3>1. ~aborted'
      BY <1>1, <2>2 DEF HalGets, HalHardwareEnds, HalIdles, HalDisplayEnds
    <3> QED BY <1>1, <1>3, <2>2, <3>1, HalSupply, HalDisplayEndsSupply
  <2>3. CASE HalDisplays \/ HalMarksDone \/ HalClearsSlots
    <3>1. ~aborted'
      BY <1>1, <2>3 DEF HalDisplays, HalMarksDone, HalClearsSlots
    <3> QED BY <1>1, <1>2, <1>3, <2>3, <3>1, DisplaysSupply, HalMarksDoneSupply,
               HalClearsSlotsSupply
  <2> QED BY <1>6, <2>1, <2>2, <2>3 DEF Hal
<1> QED BY <1>4, <1>5, <1>6 DEF Next

(* Every slot that is in use has a user, or is kept in the display queue   *)
(* by a task that announces a change and that a reset has left: when the   *)
(* process aborts, with two more slots than tasks, one is free             *)
(* (mpp_buf_slot_get_unused, mpp_dec_reset, mpp_dec_flush of mpp_dec.cpp). *)
THEOREM DecSupplyInvariant == Spec => []SupplyInv
BY DecInvariant, DecSlotsInvariant, InitSupply, NextSupply, PTL DEF Spec

(* No slot is lost, of the packets or of the frames.  The task of a        *)
(* picture owns its packet slot; and with three frame slots the parser     *)
(* finds one until a reset, with two more than there are tasks through     *)
(* resets, too (mpp_buf_slot_get_unused asserts it).                       *)
THEOREM DecSlotsAccounted ==
    ASSUME SlotCount >= 3
    PROVE  Spec => []SlotsAccounted
<1>1. SupplyInv /\ (aborted => resets > 0) => SlotsSuffice
  BY DEF SupplyInv, SlotsSuffice
<1>2. Spec => [](aborted => resets > 0)
  BY DecThreeSlotsSuffice
<1>3. PacketSlotsOwned /\ SlotsSuffice => SlotsAccounted
  BY DEF SlotsAccounted
<1> QED BY <1>1, <1>2, <1>3, DecPacketSlotsOwned, DecSupplyInvariant, PTL
=============================================================================
