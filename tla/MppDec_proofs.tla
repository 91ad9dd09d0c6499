--------------------------- MODULE MppDec_proofs ---------------------------
(***************************************************************************)
(* Proofs about the decoder context, for any streams, any number of tasks, *)
(* slots, buffers and resets: the types, what the parser and the HAL       *)
(* thread know of each other's tasks, the packet slots, and that a picture *)
(* goes to the hardware only in buffers committed for its format.          *)
(***************************************************************************)
EXTENDS MppDec, SequenceTheorems, WellFoundedInduction, TLAPS

-----------------------------------------------------------------------------
(***************************************************************************)
(* Lists without repetitions.                                              *)
(***************************************************************************)
LEMMA RemovedAt ==
    ASSUME NEW S, NEW s \in Seq(S), NEW k \in 1 .. Len(s)
    PROVE  /\ RemoveAt(s, k) \in Seq(S)
           /\ Len(RemoveAt(s, k)) = Len(s) - 1
           /\ \A i \in 1 .. Len(s) - 1 :
                 RemoveAt(s, k)[i] = IF i < k THEN s[i] ELSE s[i + 1]
<1> DEFINE lo == SubSeq(s, 1, k - 1)
           hi == SubSeq(s, k + 1, Len(s))
<1>1. RemoveAt(s, k) = lo \o hi
  BY DEF RemoveAt
<1>2. Len(s) \in Nat /\ \A i \in 1 .. Len(s) : s[i] \in S
  BY LenProperties, ElementOfSeq
<1>3. /\ lo \in Seq(S) /\ Len(lo) = k - 1
      /\ \A i \in 1 .. k - 1 : lo[i] = s[i]
  BY <1>2, SubSeqProperties
<1>4. /\ hi \in Seq(S) /\ Len(hi) = Len(s) - k
      /\ \A i \in 1 .. Len(s) - k : hi[i] = s[k + i]
  BY <1>2, SubSeqProperties
<1> HIDE DEF lo, hi
<1>5. /\ lo \o hi \in Seq(S)
      /\ Len(lo \o hi) = Len(lo) + Len(hi)
      /\ \A i \in 1 .. Len(lo) + Len(hi) :
            (lo \o hi)[i] = IF i <= Len(lo) THEN lo[i] ELSE hi[i - Len(lo)]
  <2>1. lo \in Seq(S) /\ hi \in Seq(S)
    BY <1>3, <1>4
  <2> QED BY <2>1, ConcatProperties, Zenon
<1>6. ASSUME NEW i \in 1 .. Len(s) - 1
      PROVE  (lo \o hi)[i] = IF i < k THEN s[i] ELSE s[i + 1]
  <2>1. Len(lo) = k - 1 /\ Len(hi) = Len(s) - k /\ Len(s) \in Nat
    BY <1>2, <1>3, <1>4
  <2>2. (lo \o hi)[i] = IF i <= Len(lo) THEN lo[i] ELSE hi[i - Len(lo)]
    BY <1>5, <2>1
  <2>3. CASE i < k
    BY <1>3, <2>1, <2>2, <2>3
  <2>4. CASE ~(i < k)
    <3>1. (lo \o hi)[i] = hi[i - (k - 1)]
      BY <2>1, <2>2, <2>4
    <3>2. i - (k - 1) \in 1 .. Len(s) - k
      BY <2>1, <2>4
    <3>3. hi[i - (k - 1)] = s[k + (i - (k - 1))]
      BY <1>4, <3>2
    <3>4. k + (i - (k - 1)) = i + 1
      BY <2>1
    <3> QED BY <2>4, <3>1, <3>3, <3>4
  <2> QED BY <2>3, <2>4
<1> QED BY <1>1, <1>2, <1>3, <1>4, <1>5, <1>6

LEMMA ToSetOfSeq ==
    ASSUME NEW S, NEW s \in Seq(S)
    PROVE  /\ \A x : x \in ToSet(s) <=> \E i \in 1 .. Len(s) : s[i] = x
           /\ IsInjective(s) <=> \A i, j \in 1 .. Len(s) : s[i] = s[j] => i = j
           /\ ToSet(s) \subseteq S
<1>1. DOMAIN s = 1 .. Len(s)
  OBVIOUS
<1>2. \A i \in 1 .. Len(s) : s[i] \in S
  BY ElementOfSeq
<1> QED BY <1>1, <1>2 DEF ToSet, IsInjective

(* What is left of a list without repetitions when an entry is unlinked:   *)
(* the other entries, in their order.                                      *)
LEMMA RemovedDistinct ==
    ASSUME NEW S, NEW s \in Seq(S), IsInjective(s), NEW k \in 1 .. Len(s)
    PROVE  LET cut == RemoveAt(s, k)
           IN  cut \in Seq(S) /\ IsInjective(cut) /\ ToSet(cut) = ToSet(s) \ {s[k]}
<1> DEFINE cut == RemoveAt(s, k)
           at(i) == IF i < k THEN i ELSE i + 1
<1>1. cut \in Seq(S) /\ Len(cut) = Len(s) - 1
  BY RemovedAt, Zenon
<1>2. Len(s) \in Nat /\ \A i, j \in 1 .. Len(s) : s[i] = s[j] => i = j
  BY ToSetOfSeq, LenProperties, Zenon
<1> HIDE DEF cut
<1>3. ASSUME NEW i \in 1 .. Len(cut)
      PROVE  at(i) \in 1 .. Len(s) /\ at(i) # k /\ cut[i] = s[at(i)]
  <2>1. i \in 1 .. Len(s) - 1
    BY <1>1
  <2>2. cut[i] = IF i < k THEN s[i] ELSE s[i + 1]
    BY <2>1, RemovedAt, Zenon DEF cut
  <2> QED BY <1>1, <1>2, <2>2
<1>4. ASSUME NEW i \in 1 .. Len(cut), NEW j \in 1 .. Len(cut), cut[i] = cut[j]
      PROVE  i = j
  <2>1. at(i) = at(j)
    <3> HIDE DEF at
    <3> QED BY <1>2, <1>3, <1>4
  <2> QED BY <2>1, <1>1, <1>2
<1>5. ASSUME NEW i \in 1 .. Len(cut)
      PROVE  cut[i] # s[k] /\ \E j \in 1 .. Len(s) : cut[i] = s[j]
  <2> HIDE DEF at
  <2> QED BY <1>2, <1>3
<1>6. ASSUME NEW j \in 1 .. Len(s), s[j] # s[k]
      PROVE  \E i \in 1 .. Len(cut) : cut[i] = s[j]
  <2> DEFINE i == IF j < k THEN j ELSE j - 1
  <2>1. i \in 1 .. Len(cut) /\ at(i) = j
    BY <1>1, <1>2, <1>6
  <2> HIDE DEF at, i
  <2> QED BY <2>1, <1>3
<1>7. IsInjective(cut)
  BY <1>1, <1>4, ToSetOfSeq, Zenon
<1>8. ToSet(cut) = ToSet(s) \ {s[k]}
  <2>1. \A x : x \in ToSet(cut) <=> \E i \in 1 .. Len(cut) : cut[i] = x
    BY <1>1, ToSetOfSeq, Zenon
  <2>2. \A x : x \in ToSet(s) <=> \E i \in 1 .. Len(s) : s[i] = x
    BY ToSetOfSeq, Zenon
  <2>3. ASSUME NEW x \in ToSet(cut)
        PROVE  x \in ToSet(s) /\ x # s[k]
    BY <2>1, <2>2, <1>5
  <2>4. ASSUME NEW x \in ToSet(s), x # s[k]
        PROVE  x \in ToSet(cut)
    BY <2>1, <2>2, <2>4, <1>6
  <2> QED BY <2>3, <2>4
<1> QED BY <1>1, <1>7, <1>8 DEF cut

LEMMA AppendedDistinct ==
    ASSUME NEW S, NEW s \in Seq(S), IsInjective(s), NEW x \in S, x \notin ToSet(s)
    PROVE  /\ Append(s, x) \in Seq(S) /\ IsInjective(Append(s, x))
           /\ ToSet(Append(s, x)) = ToSet(s) \union {x}
<1> DEFINE ext == Append(s, x)
<1>1. /\ ext \in Seq(S) /\ Len(s) \in Nat /\ Len(ext) = Len(s) + 1 /\ ext[Len(s) + 1] = x
      /\ \A i \in 1 .. Len(s) : ext[i] = s[i]
  BY AppendProperties
<1> HIDE DEF ext
<1>2. /\ \A i \in 1 .. Len(ext) : i \in 1 .. Len(s) \/ i = Len(s) + 1
      /\ \A i \in 1 .. Len(s) : i \in 1 .. Len(ext)
      /\ Len(s) + 1 \in 1 .. Len(ext)
  BY <1>1
<1>3. \A i, j \in 1 .. Len(s) : s[i] = s[j] => i = j
  BY ToSetOfSeq, Zenon
<1>4. \A y : y \in ToSet(s) <=> \E i \in 1 .. Len(s) : s[i] = y
  BY ToSetOfSeq, Zenon
<1>5. \A y : y \in ToSet(ext) <=> \E i \in 1 .. Len(ext) : ext[i] = y
  BY <1>1, ToSetOfSeq, Zenon
<1>6. \A i, j \in 1 .. Len(ext) : ext[i] = ext[j] => i = j
  BY <1>1, <1>2, <1>3, <1>4
<1>7. IsInjective(ext)
  BY <1>1, <1>6, ToSetOfSeq, Zenon
<1>8. ToSet(ext) = ToSet(s) \union {x}
  BY <1>1, <1>2, <1>4, <1>5
<1> QED BY <1>1, <1>7, <1>8 DEF ext

LEMMA EmptyList ==
    ASSUME NEW S
    PROVE  <<>> \in Seq(S) /\ IsInjective(<<>>) /\ ToSet(<<>>) = {}
BY DEF IsInjective, ToSet

-----------------------------------------------------------------------------
(***************************************************************************)
(* The task group.                                                         *)
(***************************************************************************)
Lists ==
    /\ taskList \in [HalTaskStatuses -> Seq(HalTasks)]
    /\ taskStatus \in [HalTasks -> HalTaskStatuses]
    /\ \A s \in HalTaskStatuses :
          /\ IsInjective(taskList[s])
          /\ ToSet(taskList[s]) = {t \in HalTasks : taskStatus[t] = s}

LEMMA GroupTypes ==
    /\ GroupTypeOK(Infos) <=> Lists /\ taskInfo \in [HalTasks -> Infos]
    /\ GroupTypeOK(Infos)' <=> Lists' /\ taskInfo' \in [HalTasks -> Infos']
BY DEF GroupTypeOK, Lists

(* The handle that a look at a list finds has its status; when it finds    *)
(* none, no task has.                                                      *)
LEMMA HandleFound ==
    ASSUME Lists, NEW s \in HalTaskStatuses
    PROVE  /\ HndIn(s) = NoTask => \A t \in HalTasks : taskStatus[t] # s
           /\ HndIn(s) # NoTask => HndIn(s) \in HalTasks /\ taskStatus[HndIn(s)] = s
           /\ NoneIn(s) <=> HndIn(s) = NoTask
<1>1. taskList[s] \in Seq(HalTasks) /\ ToSet(taskList[s]) = {t \in HalTasks : taskStatus[t] = s}
  BY DEF Lists
<1>2. CASE taskList[s] = <<>>
  BY <1>1, <1>2, EmptyList DEF HndIn, NoneIn
<1>3. CASE taskList[s] # <<>>
  <2>1. 1 \in 1 .. Len(taskList[s]) /\ Head(taskList[s]) = taskList[s][1]
    BY <1>1, <1>3
  <2>2. Head(taskList[s]) \in ToSet(taskList[s])
    <3>1. \A x : x \in ToSet(taskList[s]) <=> \E i \in 1 .. Len(taskList[s]) : taskList[s][i] = x
      BY <1>1, ToSetOfSeq, Zenon
    <3> QED BY <2>1, <3>1
  <2>3. Head(taskList[s]) \in HalTasks /\ taskStatus[Head(taskList[s])] = s
    BY <1>1, <2>2
  <2>4. NoTask \notin HalTasks
    BY HalTasksAssumption DEF HalTasks
  <2> QED BY <1>3, <2>3, <2>4 DEF HndIn, NoneIn
<1> QED BY <1>2, <1>3

(* A task leaves the list it is on.                                        *)
LEMMA UnlistedTask ==
    ASSUME NEW S, NEW s \in Seq(S), IsInjective(s), NEW t
    PROVE  /\ Unlisted(s, t) \in Seq(S) /\ IsInjective(Unlisted(s, t))
           /\ ToSet(Unlisted(s, t)) = ToSet(s) \ {t}
<1>1. CASE t \in ToSet(s)
  <2> DEFINE k == CHOOSE i \in 1 .. Len(s) : s[i] = t
  <2>1. k \in 1 .. Len(s) /\ s[k] = t
    BY <1>1, ToSetOfSeq, Zenon
  <2>2. Unlisted(s, t) = RemoveAt(s, k)
    BY <1>1 DEF Unlisted
  <2> HIDE DEF k
  <2>3. LET cut == RemoveAt(s, k)
        IN  cut \in Seq(S) /\ IsInjective(cut) /\ ToSet(cut) = ToSet(s) \ {s[k]}
    BY <2>1, RemovedDistinct, ZenonT(60)
  <2> QED BY <2>1, <2>2, <2>3
<1>2. CASE t \notin ToSet(s)
  BY <1>2 DEF Unlisted
<1> QED BY <1>1, <1>2

(* A task that gets a status is on the list of it, and on no other.        *)
LEMMA StatusSet ==
    ASSUME Lists, NEW t \in HalTasks, NEW to \in HalTaskStatuses, SetStatus(t, to)
    PROVE  Lists' /\ taskStatus' = [taskStatus EXCEPT ![t] = to]
<1> DEFINE from == taskStatus[t]
           src  == taskList[from]
           cut  == Unlisted(src, t)
           left == [taskList EXCEPT ![from] = cut]
           dst  == left[to]
           ext  == Append(dst, t)
<1>1. /\ from \in HalTaskStatuses
      /\ \A s \in HalTaskStatuses :
            /\ taskList[s] \in Seq(HalTasks) /\ IsInjective(taskList[s])
            /\ ToSet(taskList[s]) = {u \in HalTasks : taskStatus[u] = s}
      /\ taskList \in [HalTaskStatuses -> Seq(HalTasks)]
      /\ taskStatus \in [HalTasks -> HalTaskStatuses]
  BY DEF Lists
<1>2. taskStatus' = [taskStatus EXCEPT ![t] = to]
  BY DEF SetStatus
<1>3. taskList' = [left EXCEPT ![to] = ext]
  <2>1. taskList' = [[taskList EXCEPT ![from] = Unlisted(taskList[from], t)]
                        EXCEPT ![to] = Append(@, t)]
    BY DEF SetStatus, Moved
  <2> QED BY <2>1
<1>4. /\ cut \in Seq(HalTasks) /\ IsInjective(cut)
      /\ ToSet(cut) = {u \in HalTasks : taskStatus[u] = from} \ {t}
  <2>1. src \in Seq(HalTasks) /\ IsInjective(src)
        /\ ToSet(src) = {u \in HalTasks : taskStatus[u] = from}
    BY <1>1
  <2> HIDE DEF src, from
  <2> QED BY <2>1, UnlistedTask
<1> HIDE DEF cut
<1>5. /\ left \in [HalTaskStatuses -> Seq(HalTasks)]
      /\ \A s \in HalTaskStatuses :
            /\ IsInjective(left[s])
            /\ ToSet(left[s]) = {u \in HalTasks : taskStatus[u] = s} \ {t}
  BY <1>1, <1>4
<1> HIDE DEF left
<1>6. /\ ext \in Seq(HalTasks) /\ IsInjective(ext)
      /\ ToSet(ext) = ({u \in HalTasks : taskStatus[u] = to} \ {t}) \union {t}
  <2>1. dst \in Seq(HalTasks) /\ IsInjective(dst)
        /\ ToSet(dst) = {u \in HalTasks : taskStatus[u] = to} \ {t}
    BY <1>5
  <2> HIDE DEF dst
  <2>2. t \notin ToSet(dst)
    BY <2>1
  <2> QED BY <2>1, <2>2, AppendedDistinct
<1> HIDE DEF ext
<1>7. \A s \in HalTaskStatuses : ToSet(taskList'[s]) = {u \in HalTasks : taskStatus'[u] = s}
  <2> SUFFICES ASSUME NEW s \in HalTaskStatuses
               PROVE  ToSet(taskList'[s]) = {u \in HalTasks : taskStatus'[u] = s}
    OBVIOUS
  <2>1. CASE s = to
    BY <2>1, <1>1, <1>2, <1>3, <1>5, <1>6
  <2>2. CASE s # to
    BY <2>2, <1>1, <1>2, <1>3, <1>5
  <2> QED BY <2>1, <2>2
<1>8. /\ taskList' \in [HalTaskStatuses -> Seq(HalTasks)]
      /\ \A s \in HalTaskStatuses : IsInjective(taskList'[s])
  BY <1>3, <1>5, <1>6
<1> QED BY <1>1, <1>2, <1>7, <1>8 DEF Lists

-----------------------------------------------------------------------------
(***************************************************************************)
(* The inductive invariant.                                                *)
(***************************************************************************)
HndSteps     == {"pull", "prev", "group", "parse", "change", "submit"}
PictureSteps == {"prev", "group", "parse", "change", "submit"}
AloneSteps   == {"group", "parse", "change", "submit", "resetClear", "resetDrain"}
ResetSteps   == {"resetPrev", "resetClear", "resetDrain"}
InfoSteps    == {"infoDisplay", "infoPut", "infoIdle"}
EosSteps     == {"eosDisplay", "eosPut", "eosIdle"}
DecodeSteps  == {"hw", "done"}
AfterSteps   == {"slots", "display", "lastPut"}

(* The handshake of a reset: the parser is in it only while the user waits *)
(* for it.                                                                 *)
ResetHandshake ==
    /\ resetFlag <=> userAt = "wait" /\ parserAt # "resetDrain"
    /\ parserAt \in ResetSteps => userAt = "wait"
    /\ userAt \in {"flush", "flag", "wait"} => resets > 0

(* Commits are numbered; the slots are made ready after one.               *)
Commits ==
    /\ group \in Nat
    /\ userAt = "ready" => group # 0

(* The parser's handle is an idle task, the HAL thread's one in processing *)
(* of whose information it has a copy.                                     *)
TasksInHand ==
    /\ hnd # NoTask => taskStatus[hnd] = "IDLE"
    /\ parserAt \in HndSteps => hnd # NoTask
    /\ halTask # NoTask <=> halAt \in InfoSteps \union EosSteps \union DecodeSteps
    /\ halTask # NoTask => taskStatus[halTask] = "PROCESSING" /\ halInfo = taskInfo[halTask]
    /\ halAt \in InfoSteps => halInfo.infoChange
    /\ halAt \in EosSteps => ~halInfo.infoChange /\ ~halInfo.valid
    /\ halAt \in DecodeSteps \union AfterSteps => ~halInfo.infoChange /\ halInfo.valid

(* The status bits of the DecTask, and where the parser may be with them.  *)
StatusBits ==
    /\ "curr" \in ready <=> "copied" \in ready
    /\ "parsed" \in ready => "curr" \in ready /\ "prev" \in ready
    /\ "infoGen" \in ready => "parsed" \in ready
    /\ parserAt = "pull" => "curr" \notin ready
    /\ parserAt \in PictureSteps => "curr" \in ready
    /\ parserAt \in AloneSteps => "prev" \in ready
    /\ parserAt = "parse" => "parsed" \notin ready
    /\ parserAt \in {"change", "submit"} => "parsed" \in ready
    /\ parserAt = "submit" => "infoGen" \notin ready

(* The task information the parser fills, as far as its bits say.          *)
PictureInHand ==
    ~aborted =>
        /\ "curr" \in ready =>
              cur.id \in Packets /\ Stream[cur.id].kind # "eos" /\ cur.input \in HalTasks
        /\ cur.infoChange <=> "infoGen" \in ready
        /\ "parsed" \in ready => (cur.valid <=> cur.output # NoSlot)
        /\ "parsed" \notin ready => cur.output = NoSlot
        /\ "curr" \in ready /\ "parsed" \notin ready => cur.valid
        /\ parserAt = "submit" => ~infoChanged /\ cur.output # NoSlot

(* At most one picture is with the hardware or done and not yet taken back,*)
(* and the bit for the previous task says whether one is.                  *)
InFlight(t) == InHardware(t) \/ taskStatus[t] = "PROC_DONE"

OneInFlight ==
    /\ \A t, u \in HalTasks : InFlight(t) /\ InFlight(u) => t = u
    /\ "prev" \in ready <=> \A t \in HalTasks : ~InFlight(t)

(* What the HAL thread gets is a packet's, and one of the three kinds.     *)
TasksSent ==
    /\ \A t \in HalTasks :
          taskStatus[t] = "PROCESSING" =>
              /\ taskInfo[t].id \in Packets
              /\ taskInfo[t].infoChange \/ taskInfo[t].valid \/ taskInfo[t].eos
    /\ halAt \notin {"get", "asleep"} => halInfo.id \in Packets

(* The format in force is that of the picture parsed last, unless a change *)
(* is pending; then no picture is in the hardware.                         *)
FormatsKnown ==
    /\ ~infoChanged => info = infoSet
    /\ "parsed" \in ready /\ cur.output # NoSlot => infoSet = Stream[cur.id].fmt
    /\ \A t \in HalTasks :
          InHardware(t) => ~infoChanged /\ Stream[taskInfo[t].id].fmt = infoSet

(* The packet slot the hardware has just given back is not its any more.   *)
PacketSlotsKept ==
    /\ PacketSlotsOwned
    /\ halAt = "done" /\ halInfo.input \in packetSlots =>
          "copied" \in ready /\ cur.input = halInfo.input

IInv ==
    /\ TypeOK
    /\ ResetHandshake
    /\ Commits
    /\ TasksInHand
    /\ StatusBits
    /\ PictureInHand
    /\ OneInFlight
    /\ TasksSent
    /\ FormatsKnown
    /\ PacketSlotsKept

-----------------------------------------------------------------------------
(***************************************************************************)
(* The parts of the types.                                                 *)
(***************************************************************************)
UserTypes ==
    /\ scenario \in Scenarios /\ userAt \in UserSteps
    /\ put \in 0 .. Len(Stream) /\ resets \in 0 .. ResetBound
    /\ sinceReset \in 1 .. Len(Stream) + 1
    /\ packets \in Seq(Packets)
    /\ flushFlag \in BOOLEAN /\ resetFlag \in BOOLEAN /\ aborted \in BOOLEAN
    /\ packetSlots \subseteq HalTasks

OutFrames == [kind : {"picture", "info", "eos"}, id : Packets \union {NoFrame},
              buffer : Buffers \union {NoBuffer}]

BufferTypes ==
    /\ held \subseteq Buffers /\ extraRef \subseteq Buffers
    /\ frames \in Seq(OutFrames)

ThreadTypes ==
    /\ parserAt \in ParserSteps /\ halAt \in HalSteps
    /\ hnd \in HalTasks \union {NoTask} /\ halTask \in HalTasks \union {NoTask}
    /\ cur \in Infos /\ halInfo \in Infos
    /\ ready \subseteq Status /\ waits \subseteq Waits
    /\ ref0 \in Slots \union {NoSlot} /\ foundI \in BOOLEAN

SlotTypes == SlotsTypeOK(Packets, Buffers, Formats)

LEMMA TypeParts ==
    TypeOK <=> /\ Lists /\ taskInfo \in [HalTasks -> Infos]
               /\ SlotTypes /\ UserTypes /\ BufferTypes /\ ThreadTypes
BY GroupTypes DEF TypeOK, UserTypes, BufferTypes, OutFrames, ThreadTypes, SlotTypes

LEMMA TypePartsNext ==
    TypeOK' <=> /\ Lists' /\ taskInfo' \in [HalTasks -> Infos']
                /\ SlotTypes' /\ UserTypes' /\ BufferTypes' /\ ThreadTypes'
BY GroupTypes DEF TypeOK, UserTypes, BufferTypes, OutFrames, ThreadTypes, SlotTypes

HalUses   == 0 .. 255
QueueUses == 0 .. 31

SlotEntries == [onUsed : BOOLEAN, notReady : BOOLEAN, codecUse : BOOLEAN, halOutput : BOOLEAN,
                halUse : HalUses, queueUse : QueueUses,
                frame : Packets \union {NoFrame}, buffer : Buffers \union {NoBuffer}]

LEMMA SlotParts ==
    SlotTypes <=> /\ slot \in [Slots -> SlotEntries] /\ display \in Seq(Slots)
                  /\ info \in Formats /\ infoSet \in Formats /\ infoChanged \in BOOLEAN
BY DEF SlotTypes, SlotsTypeOK, SlotEntries, HalUses, QueueUses

LEMMA SlotPartsNext ==
    SlotTypes' <=> /\ slot' \in [Slots -> SlotEntries'] /\ display' \in Seq(Slots)
                   /\ info' \in Formats' /\ infoSet' \in Formats' /\ infoChanged' \in BOOLEAN
BY DEF SlotTypes, SlotsTypeOK, SlotEntries, HalUses, QueueUses

LEMMA StreamTypes ==
    ASSUME scenario \in Scenarios
    PROVE  /\ Len(Stream) \in Nat /\ Packets = 1 .. Len(Stream)
           /\ \A p \in Packets : Stream[p].fmt \in Formats /\ Stream[p].last \in BOOLEAN
           /\ ResetBound \in Nat /\ BufferCount \in Nat \ {0}
<1>1. /\ scenario.buffers \in Nat \ {0} /\ scenario.resets \in Nat
      /\ scenario.stream \in Seq([kind : Kinds, fmt : Nat, last : BOOLEAN])
  BY DecAssumption
<1>2. /\ Len(Stream) \in Nat /\ Packets = 1 .. Len(Stream)
      /\ \A p \in 1 .. Len(Stream) : Stream[p] \in [kind : Kinds, fmt : Nat, last : BOOLEAN]
  <2>1. Stream \in Seq([kind : Kinds, fmt : Nat, last : BOOLEAN])
    BY <1>1 DEF Stream
  <2> QED BY <2>1, LenProperties, ElementOfSeq DEF Packets
<1> QED BY <1>1, <1>2 DEF Formats, ResetBound, BufferCount

LEMMA NoInfoTyped == NoInfo \in Infos
BY HalTasksAssumption DEF NoInfo, Infos

(* What the stream says does not change.                                   *)
LEMMA SameScenario ==
    ASSUME scenario' = scenario
    PROVE  /\ Stream' = Stream /\ Packets' = Packets /\ Formats' = Formats
           /\ Infos' = Infos /\ BufferCount' = BufferCount /\ ResetBound' = ResetBound
BY DEF Stream, Packets, Formats, Infos, BufferCount, ResetBound

LEMMA SameGroup ==
    ASSUME scenario' = scenario, group' = group
    PROVE  Buffers' = Buffers /\ SlotEntries' = SlotEntries /\ OutFrames' = OutFrames
<1>1. Buffers' = Buffers
  BY DEF Buffers, Committed, BufferCount
<1> QED BY <1>1, SameScenario DEF SlotEntries, OutFrames

(* The operations on a slot's entry keep its type.                         *)
LEMMA EntryTypes ==
    ASSUME NEW e \in SlotEntries
    PROVE  /\ \A f \in {"CODEC_USE", "HAL_INPUT", "HAL_OUTPUT", "QUEUE_USE"} :
                 SetFlag(e, f) \in SlotEntries /\ ClrFlag(e, f) \in SlotEntries
           /\ Taken(e) \in SlotEntries
           /\ \A p \in Packets : [e EXCEPT !.frame = p] \in SlotEntries
           /\ ResetEntry(e) \in SlotEntries
           /\ [e EXCEPT !.queueUse = Less(@)] \in SlotEntries
<1>1. /\ e.halUse \in HalUses /\ e.queueUse \in QueueUses
      /\ e.onUsed \in BOOLEAN /\ e.notReady \in BOOLEAN /\ e.codecUse \in BOOLEAN
      /\ e.halOutput \in BOOLEAN
      /\ e.frame \in Packets \union {NoFrame} /\ e.buffer \in Buffers \union {NoBuffer}
  BY DEF SlotEntries
<1>2. /\ Less(e.halUse) \in HalUses /\ Less(e.queueUse) \in QueueUses
      /\ Less(Less(e.queueUse)) \in QueueUses
      /\ (e.halUse + 1) % 256 \in HalUses /\ (e.queueUse + 1) % 32 \in QueueUses
  BY <1>1 DEF Less, HalUses, QueueUses
<1>3. ASSUME NEW d \in SlotEntries PROVE Released(d) \in SlotEntries
  <2>1. [[[d EXCEPT !.onUsed = FALSE] EXCEPT !.frame = NoFrame] EXCEPT !.buffer = NoBuffer]
           \in SlotEntries
    <3>1. [d EXCEPT !.onUsed = FALSE] \in SlotEntries
      BY DEF SlotEntries
    <3>2. ASSUME NEW c \in SlotEntries
          PROVE  [c EXCEPT !.frame = NoFrame] \in SlotEntries
      BY DEF SlotEntries
    <3>3. ASSUME NEW c \in SlotEntries
          PROVE  [c EXCEPT !.buffer = NoBuffer] \in SlotEntries
      BY DEF SlotEntries
    <3> QED BY <3>1, <3>2, <3>3
  <2> QED BY <2>1 DEF Released
<1>4. /\ SetFlag(e, "CODEC_USE") \in SlotEntries /\ SetFlag(e, "HAL_INPUT") \in SlotEntries
      /\ SetFlag(e, "HAL_OUTPUT") \in SlotEntries /\ SetFlag(e, "QUEUE_USE") \in SlotEntries
  <2>1. /\ SetFlag(e, "CODEC_USE") = [e EXCEPT !.codecUse = TRUE]
        /\ SetFlag(e, "HAL_INPUT") = [e EXCEPT !.halUse = (e.halUse + 1) % 256]
        /\ SetFlag(e, "HAL_OUTPUT") = [[e EXCEPT !.halOutput = TRUE] EXCEPT !.notReady = TRUE]
        /\ SetFlag(e, "QUEUE_USE") = [e EXCEPT !.queueUse = (e.queueUse + 1) % 32]
    BY DEF SetFlag
  <2>2. [e EXCEPT !.codecUse = TRUE] \in SlotEntries
    BY DEF SlotEntries
  <2>3. [e EXCEPT !.halUse = (e.halUse + 1) % 256] \in SlotEntries
    BY <1>2 DEF SlotEntries
  <2>4. [[e EXCEPT !.halOutput = TRUE] EXCEPT !.notReady = TRUE] \in SlotEntries
    BY DEF SlotEntries
  <2>5. [e EXCEPT !.queueUse = (e.queueUse + 1) % 32] \in SlotEntries
    BY <1>2 DEF SlotEntries
  <2>6. SetFlag(e, "CODEC_USE") \in SlotEntries /\ SetFlag(e, "HAL_OUTPUT") \in SlotEntries
    BY <2>1, <2>2, <2>4
  <2>7. SetFlag(e, "HAL_INPUT") \in SlotEntries
    BY <2>1, <2>3
  <2>8. SetFlag(e, "QUEUE_USE") \in SlotEntries
    BY <2>1, <2>5
  <2> QED BY <2>6, <2>7, <2>8
<1>5. /\ Cleared(e, "CODEC_USE") \in SlotEntries /\ Cleared(e, "HAL_INPUT") \in SlotEntries
      /\ Cleared(e, "HAL_OUTPUT") \in SlotEntries /\ Cleared(e, "QUEUE_USE") \in SlotEntries
  <2>1. /\ Cleared(e, "CODEC_USE") = [e EXCEPT !.codecUse = FALSE]
        /\ Cleared(e, "HAL_INPUT") = [e EXCEPT !.halUse = Less(e.halUse)]
        /\ Cleared(e, "HAL_OUTPUT") = [[e EXCEPT !.halOutput = FALSE] EXCEPT !.notReady = FALSE]
        /\ Cleared(e, "QUEUE_USE") = [e EXCEPT !.queueUse = Less(e.queueUse)]
    BY DEF Cleared
  <2>2. [e EXCEPT !.codecUse = FALSE] \in SlotEntries
    BY DEF SlotEntries
  <2>3. [e EXCEPT !.halUse = Less(e.halUse)] \in SlotEntries
    BY <1>2 DEF SlotEntries
  <2>4. [[e EXCEPT !.halOutput = FALSE] EXCEPT !.notReady = FALSE] \in SlotEntries
    BY DEF SlotEntries
  <2>5. [e EXCEPT !.queueUse = Less(e.queueUse)] \in SlotEntries
    BY <1>2 DEF SlotEntries
  <2> QED BY <2>1, <2>2, <2>3, <2>4, <2>5, Zenon
<1>6. Taken(e) \in SlotEntries /\ \A p \in Packets : [e EXCEPT !.frame = p] \in SlotEntries
  <2>1. [[e EXCEPT !.onUsed = TRUE] EXCEPT !.notReady = TRUE] \in SlotEntries
    BY DEF SlotEntries
  <2>2. ASSUME NEW p \in Packets PROVE [e EXCEPT !.frame = p] \in SlotEntries
    BY DEF SlotEntries
  <2> QED BY <2>1, <2>2 DEF Taken
<1>7. ResetEntry(e) \in SlotEntries /\ [e EXCEPT !.queueUse = Less(@)] \in SlotEntries
  <2>1. [[e EXCEPT !.queueUse = Less(Less(e.queueUse))] EXCEPT !.onUsed = FALSE] \in SlotEntries
    BY <1>2 DEF SlotEntries
  <2>2. [e EXCEPT !.queueUse = Less(e.queueUse)] \in SlotEntries
    BY <1>2 DEF SlotEntries
  <2> QED BY <2>1, <2>2 DEF ResetEntry
<1> QED BY <1>3, <1>4, <1>5, <1>6, <1>7 DEF ClrFlag

-----------------------------------------------------------------------------
(***************************************************************************)
(* What a change of the task group says of the tasks with the hardware.    *)
(***************************************************************************)
LEMMA GroupSame ==
    ASSUME UNCHANGED groupVars
    PROVE  /\ Lists => Lists'
           /\ taskStatus' = taskStatus /\ taskInfo' = taskInfo
           /\ \A t : (InHardware(t)' <=> InHardware(t)) /\ (InFlight(t)' <=> InFlight(t))
BY DEF groupVars, Lists, InHardware, InFlight

(* An idle task is sent to the HAL thread.                                 *)
LEMMA TaskSent ==
    ASSUME Lists, taskInfo \in [HalTasks -> Infos], NEW h \in HalTasks, hnd = h,
           taskStatus[h] = "IDLE", NEW i \in Infos, Send(i), Infos' = Infos
    PROVE  /\ Lists'
           /\ taskInfo' \in [HalTasks -> Infos']
           /\ taskInfo' = [taskInfo EXCEPT ![h] = i]
           /\ taskStatus'[h] = "PROCESSING" /\ taskInfo'[h] = i
           /\ \A t \in HalTasks \ {h} :
                 /\ taskStatus'[t] = taskStatus[t] /\ taskInfo'[t] = taskInfo[t]
                 /\ InHardware(t)' <=> InHardware(t)
                 /\ InFlight(t)' <=> InFlight(t)
           /\ ~InFlight(h) /\ ~InHardware(h)
           /\ InHardware(h)' <=> i.valid /\ ~i.infoChange
           /\ InFlight(h)' <=> i.valid /\ ~i.infoChange
           /\ hnd' = NoTask /\ halTask' = halTask /\ halInfo' = halInfo
           /\ halAt' = IF halAt = "asleep" THEN "get" ELSE halAt
<1>1. SetStatus(hnd, "PROCESSING")
  BY DEF Send
<1>2. Lists' /\ taskStatus' = [taskStatus EXCEPT ![h] = "PROCESSING"]
  BY <1>1, StatusSet DEF HalTaskStatuses
<1>3. taskStatus \in [HalTasks -> HalTaskStatuses]
  BY DEF Lists
<1>4. /\ taskInfo' = [taskInfo EXCEPT ![h] = i]
      /\ hnd' = NoTask /\ halTask' = halTask /\ halInfo' = halInfo
      /\ halAt' = IF halAt = "asleep" THEN "get" ELSE halAt
  BY DEF Send, HalWoken
<1>5. /\ taskStatus'[h] = "PROCESSING" /\ taskInfo'[h] = i
      /\ taskInfo' \in [HalTasks -> Infos']
      /\ \A t \in HalTasks \ {h} : taskStatus'[t] = taskStatus[t] /\ taskInfo'[t] = taskInfo[t]
  BY <1>2, <1>3, <1>4
<1>6. \A t \in HalTasks \ {h} :
         (InHardware(t)' <=> InHardware(t)) /\ (InFlight(t)' <=> InFlight(t))
  BY <1>5 DEF InHardware, InFlight
<1>7. /\ ~InFlight(h) /\ ~InHardware(h)
      /\ InHardware(h)' <=> i.valid /\ ~i.infoChange
      /\ InFlight(h)' <=> i.valid /\ ~i.infoChange
  BY <1>5 DEF InHardware, InFlight
<1> QED BY <1>2, <1>4, <1>5, <1>6, <1>7, Zenon

(* A task becomes idle: it is not with the hardware any more.              *)
LEMMA TaskIdled ==
    ASSUME Lists, NEW t \in HalTasks, SetStatus(t, "IDLE"), taskInfo' = taskInfo
    PROVE  /\ Lists'
           /\ taskStatus' = [taskStatus EXCEPT ![t] = "IDLE"]
           /\ taskStatus'[t] = "IDLE"
           /\ ~InFlight(t)' /\ ~InHardware(t)'
           /\ \A u \in HalTasks \ {t} :
                 /\ taskStatus'[u] = taskStatus[u]
                 /\ InHardware(u)' <=> InHardware(u)
                 /\ InFlight(u)' <=> InFlight(u)
<1>1. Lists' /\ taskStatus' = [taskStatus EXCEPT ![t] = "IDLE"]
  BY StatusSet DEF HalTaskStatuses
<1>2. taskStatus \in [HalTasks -> HalTaskStatuses]
  BY DEF Lists
<1>3. taskStatus'[t] = "IDLE" /\ \A u \in HalTasks \ {t} : taskStatus'[u] = taskStatus[u]
  BY <1>1, <1>2
<1> QED BY <1>1, <1>3 DEF InHardware, InFlight

(* A task in processing is done.                                           *)
LEMMA TaskDone ==
    ASSUME Lists, NEW t \in HalTasks, SetStatus(t, "PROC_DONE"), taskInfo' = taskInfo
    PROVE  /\ Lists'
           /\ taskStatus' = [taskStatus EXCEPT ![t] = "PROC_DONE"]
           /\ taskStatus'[t] = "PROC_DONE"
           /\ InFlight(t)' /\ ~InHardware(t)'
           /\ \A u \in HalTasks \ {t} :
                 /\ taskStatus'[u] = taskStatus[u]
                 /\ InHardware(u)' <=> InHardware(u)
                 /\ InFlight(u)' <=> InFlight(u)
<1>1. Lists' /\ taskStatus' = [taskStatus EXCEPT ![t] = "PROC_DONE"]
  BY StatusSet DEF HalTaskStatuses
<1>2. taskStatus \in [HalTasks -> HalTaskStatuses]
  BY DEF Lists
<1>3. taskStatus'[t] = "PROC_DONE" /\ \A u \in HalTasks \ {t} : taskStatus'[u] = taskStatus[u]
  BY <1>1, <1>2
<1> QED BY <1>1, <1>3 DEF InHardware, InFlight

-----------------------------------------------------------------------------
(***************************************************************************)
(* The slots that the parser takes.                                        *)
(***************************************************************************)

(* mpp_buf_slot_get_unused finds a slot when one is free: the first.       *)
LEMMA FirstFreeFound ==
    ASSUME FreeSlots # {}
    PROVE  FirstFree \in FreeSlots /\ FirstFree \in Slots /\ \A j \in FreeSlots : FirstFree <= j
<1>1. PICK n \in FreeSlots : TRUE
  OBVIOUS
<1>2. FreeSlots \subseteq Nat /\ FreeSlots \subseteq Slots
  BY SlotsAssumption DEF FreeSlots, Slots
<1>3. \E i \in FreeSlots : \A j \in FreeSlots : i <= j
  <2> DEFINE less == {pair \in Nat \X Nat : pair[1] < pair[2]}
  <2>1. IsWellFoundedOn(less, Nat)
    BY NatLessThanWellFounded DEF OpToRel
  <2>3. \A a, b \in Nat : a < b => <<a, b>> \in less
    OBVIOUS
  <2> HIDE DEF less
  <2>2. PICK i \in FreeSlots : \A j \in FreeSlots : <<j, i>> \notin less
    BY <1>1, <1>2, <2>1, WFMin
  <2>4. ASSUME NEW j \in FreeSlots PROVE i <= j
    <3>1. i \in Nat /\ j \in Nat
      BY <1>2
    <3>2. ~(j < i)
      BY <2>2, <2>3, <3>1
    <3> QED BY <3>1, <3>2
  <2> QED BY <2>4
<1> QED BY <1>2, <1>3 DEF FirstFree

LEMMA EnqueuedTypes ==
    ASSUME NEW q \in Seq(Slots), NEW i \in Slots
    PROVE  Unqueued(q, i) \in Seq(Slots) /\ Enqueued(q, i) \in Seq(Slots)
<1>1. Unqueued(q, i) \in Seq(Slots)
  <2>1. CASE i \in ToSet(q)
    <3> DEFINE k == CHOOSE k \in 1 .. Len(q) : q[k] = i
    <3>1. k \in 1 .. Len(q)
      BY <2>1, ToSetOfSeq, Zenon
    <3>2. Unqueued(q, i) = RemoveAt(q, k)
      BY <2>1 DEF Unqueued
    <3> HIDE DEF k
    <3> QED BY <3>1, <3>2, RemovedAt
  <2>2. CASE i \notin ToSet(q)
    BY <2>2 DEF Unqueued
  <2> QED BY <2>1, <2>2
<1> QED BY <1>1, AppendProperties DEF Enqueued

LEMMA ParsedTypes ==
    ASSUME slot \in [Slots -> SlotEntries], cur.id \in Packets, NEW out \in Slots
    PROVE  ParsedSlots(out) \in [Slots -> SlotEntries]
<1> DEFINE first(i) == SetFlag([Taken(slot[i]) EXCEPT !.frame = cur.id], "HAL_OUTPUT")
           taken(i) == SetFlag(SetFlag(SetFlag(first(i), "CODEC_USE"), "QUEUE_USE"), "QUEUE_USE")
           used(i) == IF i = out THEN taken(i)
                      ELSE IF i = Refer THEN SetFlag(slot[i], "HAL_INPUT") ELSE slot[i]
<1>1. ASSUME NEW i \in Slots
      PROVE  (IF i = ref0 THEN ClrFlag(used(i), "CODEC_USE") ELSE used(i)) \in SlotEntries
  <2>1. slot[i] \in SlotEntries
    OBVIOUS
  <2>2. [Taken(slot[i]) EXCEPT !.frame = cur.id] \in SlotEntries
    BY <2>1, EntryTypes
  <2>3. first(i) \in SlotEntries
    BY <2>2, EntryTypes
  <2> HIDE DEF first
  <2>4. taken(i) \in SlotEntries
    <3>1. SetFlag(first(i), "CODEC_USE") \in SlotEntries
      BY <2>3, EntryTypes
    <3>2. SetFlag(SetFlag(first(i), "CODEC_USE"), "QUEUE_USE") \in SlotEntries
      BY <3>1, EntryTypes
    <3> QED BY <3>2, EntryTypes
  <2> HIDE DEF taken
  <2>5. used(i) \in SlotEntries
    BY <2>1, <2>4, EntryTypes
  <2> HIDE DEF used
  <2> QED BY <2>5, EntryTypes
<1>2. ParsedSlots(out) =
         [i \in Slots |-> IF i = ref0 THEN ClrFlag(used(i), "CODEC_USE") ELSE used(i)]
  BY DEF ParsedSlots
<1> HIDE DEF used
<1> QED BY <1>1, <1>2

LEMMA ResetTypes ==
    ASSUME slot \in [Slots -> SlotEntries]
    PROVE  ResetSlots \in [Slots -> SlotEntries]
<1> DEFINE noRef(i) == IF i = ref0 THEN ClrFlag(slot[i], "CODEC_USE") ELSE slot[i]
           noInfo(i) == IF "info_change" \in waits /\ i = cur.output THEN ResetEntry(noRef(i))
                        ELSE noRef(i)
           noOut(i) == IF "parsed" \in ready /\ i = cur.output THEN ClrFlag(noInfo(i), "HAL_OUTPUT")
                       ELSE noInfo(i)
           end(i) == IF "parsed" \in ready /\ i = cur.refer THEN ClrFlag(noOut(i), "HAL_INPUT")
                     ELSE noOut(i)
<1>1. ResetSlots = [i \in Slots |-> end(i)]
  BY DEF ResetSlots
<1>2. ASSUME NEW i \in Slots PROVE end(i) \in SlotEntries
  <2>1. noRef(i) \in SlotEntries
    BY EntryTypes
  <2> HIDE DEF noRef
  <2>2. noInfo(i) \in SlotEntries
    BY <2>1, EntryTypes
  <2> HIDE DEF noInfo
  <2>3. noOut(i) \in SlotEntries
    BY <2>2, EntryTypes
  <2> HIDE DEF noOut
  <2> QED BY <2>3, EntryTypes
<1> HIDE DEF end
<1> QED BY <1>1, <1>2

(* The head of the display queue leaves it.                                *)
LEMMA TakenTypes ==
    ASSUME slot \in [Slots -> SlotEntries], display \in Seq(Slots), TakeDisplayed
    PROVE  /\ slot' \in [Slots -> SlotEntries] /\ display' \in Seq(Slots)
           /\ Head(display) \in Slots /\ slot[Head(display)] \in SlotEntries
<1>1. Head(display) \in Slots /\ Tail(display) \in Seq(Slots)
  BY DEF TakeDisplayed, DisplayReady
<1>2. Undisplayed \in SlotEntries
  <2> DEFINE e == slot[Head(display)]
             d == [e EXCEPT !.queueUse = Less(@)]
  <2>1. e \in SlotEntries
    BY <1>1
  <2> HIDE DEF e
  <2>2. d \in SlotEntries
    BY <2>1, EntryTypes
  <2> HIDE DEF d
  <2>3. ClrFlag(d, "QUEUE_USE") \in SlotEntries
    BY <2>2, EntryTypes
  <2> QED BY <2>3 DEF Undisplayed, d, e
<1> HIDE DEF Undisplayed
<1> QED BY <1>1, <1>2 DEF TakeDisplayed

(* put_packet.                                                             *)
LEMMA UserPutsStep ==
    ASSUME IInv, ~aborted, UserPuts
    PROVE  IInv'
<1>1. /\ Lists /\ taskInfo \in [HalTasks -> Infos]
      /\ SlotTypes /\ UserTypes /\ BufferTypes /\ ThreadTypes
      /\ ResetHandshake /\ Commits /\ TasksInHand /\ StatusBits /\ PictureInHand
      /\ OneInFlight /\ TasksSent /\ FormatsKnown /\ PacketSlotsKept
  BY TypeParts DEF IInv
<1>2. /\ Stream' = Stream /\ Packets' = Packets /\ Formats' = Formats
      /\ Infos' = Infos /\ BufferCount' = BufferCount /\ ResetBound' = ResetBound
      /\ scenario' = scenario
  <2>1. scenario' = scenario
    BY DEF UserPuts, userVars
  <2> QED BY <2>1, SameScenario
<1>3. /\ Lists' /\ taskInfo' \in [HalTasks -> Infos']
      /\ taskInfo' = taskInfo /\ taskStatus' = taskStatus
      /\ \A t : (InHardware(t)' <=> InHardware(t)) /\ (InFlight(t)' <=> InFlight(t))
  <2>1. UNCHANGED groupVars
    BY DEF UserPuts, groupVars
  <2> QED BY <1>1, <1>2, <2>1, GroupSame
<1>4. /\ Len(Stream) \in Nat /\ Packets = 1 .. Len(Stream) /\ ResetBound \in Nat
      /\ \A p \in Packets : Stream[p].fmt \in Formats /\ Stream[p].last \in BOOLEAN
  BY <1>1, StreamTypes DEF UserTypes
<1>5. packets' \in Seq(Packets)
  <2>1. put + 1 \in Packets /\ packets \in Seq(Packets)
    BY <1>1, <1>4 DEF UserPuts, UserTypes
  <2> QED BY <2>1, AppendProperties DEF UserPuts
<1>6. put' \in 0 .. Len(Stream) /\ flushFlag' = FALSE
  BY <1>1, <1>4 DEF UserPuts, UserTypes
<1>7. UNCHANGED <<userAt, resets, sinceReset, resetFlag, aborted, packetSlots>>
  BY DEF UserPuts
<1>8. /\ BufferTypes' /\ ThreadTypes' /\ ResetHandshake' /\ Commits'
      /\ TasksInHand' /\ StatusBits' /\ PictureInHand' /\ OneInFlight'
      /\ TasksSent' /\ FormatsKnown' /\ PacketSlotsKept'
  BY <1>1, <1>2, <1>3, SameGroup
     DEF UserPuts, BufferTypes, userVars, outVars, ThreadTypes, ParserSteps, HalSteps,
         Status, Waits, parserVars, halVars, ResetHandshake, ResetSteps, Commits,
         TasksInHand, HndSteps, InfoSteps, EosSteps, DecodeSteps, AfterSteps,
         StatusBits, PictureSteps, AloneSteps, PictureInHand, slotVars, OneInFlight,
         TasksSent, FormatsKnown, PacketSlotsKept, PacketSlotsOwned
<1>9. SlotTypes'
  BY <1>1, <1>2, <1>3, <1>4, <1>5, <1>6, <1>7, SlotParts, SlotPartsNext, SameGroup
     DEF UserPuts, slotVars
<1>10. UserTypes'
  BY <1>1, <1>2, <1>5, <1>6, <1>7 DEF UserTypes
<1> QED BY <1>3, <1>8, <1>9, <1>10, TypePartsNext DEF IInv

(* get_frame.                                                              *)
LEMMA UserGetsStep ==
    ASSUME IInv, ~aborted, UserGets
    PROVE  IInv'
<1>1. /\ Lists /\ taskInfo \in [HalTasks -> Infos]
      /\ SlotTypes /\ UserTypes /\ BufferTypes /\ ThreadTypes
      /\ ResetHandshake /\ Commits /\ TasksInHand /\ StatusBits /\ PictureInHand
      /\ OneInFlight /\ TasksSent /\ FormatsKnown /\ PacketSlotsKept
  BY TypeParts DEF IInv
<1>2. /\ Stream' = Stream /\ Packets' = Packets /\ Formats' = Formats
      /\ Infos' = Infos /\ BufferCount' = BufferCount /\ ResetBound' = ResetBound
      /\ scenario' = scenario
  <2>1. scenario' = scenario
    BY DEF UserGets, userVars
  <2> QED BY <2>1, SameScenario
<1>3. /\ Lists' /\ taskInfo' \in [HalTasks -> Infos']
      /\ taskInfo' = taskInfo /\ taskStatus' = taskStatus
      /\ \A t : (InHardware(t)' <=> InHardware(t)) /\ (InFlight(t)' <=> InFlight(t))
  <2>1. UNCHANGED groupVars
    BY DEF UserGets, groupVars
  <2> QED BY <1>1, <1>2, <2>1, GroupSame
<1>4. frames \in Seq(OutFrames) /\ frames # <<>>
  BY <1>1 DEF UserGets, BufferTypes
<1>5. /\ Tail(frames) \in Seq(OutFrames) /\ Head(frames) \in OutFrames
      /\ Head(frames).buffer \in Buffers \union {NoBuffer}
  <2>1. Tail(frames) \in Seq(OutFrames) /\ Head(frames) \in OutFrames
    BY <1>4
  <2> QED BY <2>1 DEF OutFrames
<1>6. /\ StatusBits' /\ PictureInHand' /\ OneInFlight' /\ FormatsKnown'
  BY <1>1, <1>2, <1>3
     DEF UserGets, HalWoken, StatusBits, PictureSteps, AloneSteps, parserVars,
         PictureInHand, slotVars, OneInFlight, FormatsKnown
<1>7. SlotTypes'
  BY <1>1, <1>2, <1>3, <1>4, <1>5, SlotParts, SlotPartsNext, SameGroup
     DEF UserGets, HalWoken, slotVars
<1>8. UserTypes'
  BY <1>1, <1>2, <1>3, <1>4, <1>5
     DEF UserGets, HalWoken, UserTypes, UserSteps, userVars
<1>9. BufferTypes'
  BY <1>1, <1>2, <1>3, <1>4, <1>5, SameGroup
     DEF UserGets, HalWoken, BufferTypes, userVars, outVars
<1>10. ThreadTypes'
  BY <1>1, <1>2, <1>3, <1>4, <1>5
     DEF UserGets, HalWoken, ThreadTypes, ParserSteps, HalSteps, Status, Waits,
         parserVars, halVars
<1>11. ResetHandshake'
  BY <1>1, <1>2, <1>3, <1>4, <1>5
     DEF UserGets, HalWoken, ResetHandshake, ResetSteps, userVars
<1>12. Commits'
  BY <1>1, <1>2, <1>3, <1>4, <1>5 DEF UserGets, HalWoken, Commits, userVars
<1>13. TasksInHand'
  BY <1>1, <1>2, <1>3, <1>4, <1>5
     DEF UserGets, HalWoken, TasksInHand, HndSteps, InfoSteps, EosSteps, DecodeSteps,
         AfterSteps, parserVars, halVars, ThreadTypes
<1>14. TasksSent'
  BY <1>1, <1>2, <1>3, <1>4, <1>5 DEF UserGets, HalWoken, TasksSent, halVars
<1>15. PacketSlotsKept'
  BY <1>1, <1>2, <1>3, <1>4, <1>5
     DEF UserGets, HalWoken, PacketSlotsKept, PacketSlotsOwned, parserVars, halVars
<1> QED BY <1>3, <1>6, <1>7, <1>8, <1>9, <1>10, <1>11, <1>12, <1>13, <1>14, <1>15,
      TypePartsNext DEF IInv

(* A frame is given back.                                                  *)
LEMMA UserReleasesStep ==
    ASSUME IInv, ~aborted, UserReleases
    PROVE  IInv'
<1>1. /\ Lists /\ taskInfo \in [HalTasks -> Infos]
      /\ SlotTypes /\ UserTypes /\ BufferTypes /\ ThreadTypes
      /\ ResetHandshake /\ Commits /\ TasksInHand /\ StatusBits /\ PictureInHand
      /\ OneInFlight /\ TasksSent /\ FormatsKnown /\ PacketSlotsKept
  BY TypeParts DEF IInv
<1>2. /\ Stream' = Stream /\ Packets' = Packets /\ Formats' = Formats
      /\ Infos' = Infos /\ BufferCount' = BufferCount /\ ResetBound' = ResetBound
      /\ scenario' = scenario
  <2>1. scenario' = scenario
    BY DEF UserReleases, userVars
  <2> QED BY <2>1, SameScenario
<1>3. /\ Lists' /\ taskInfo' \in [HalTasks -> Infos']
      /\ taskInfo' = taskInfo /\ taskStatus' = taskStatus
      /\ \A t : (InHardware(t)' <=> InHardware(t)) /\ (InFlight(t)' <=> InFlight(t))
  <2>1. UNCHANGED groupVars
    BY DEF UserReleases, groupVars
  <2> QED BY <1>1, <1>2, <2>1, GroupSame
<1>4. /\ UserTypes' /\ Commits' /\ OneInFlight' /\ TasksSent'
      /\ FormatsKnown' /\ PacketSlotsKept'
  BY <1>1, <1>2, <1>3
     DEF UserReleases, ParserAfterRelease, ParserWoken, UserTypes, UserSteps, userVars,
         Commits, OneInFlight, parserVars, TasksSent, halVars, FormatsKnown, slotVars,
         PacketSlotsKept, PacketSlotsOwned
<1>5. SlotTypes'
  BY <1>1, <1>2, <1>3, SlotParts, SlotPartsNext, SameGroup
     DEF UserReleases, ParserAfterRelease, ParserWoken, slotVars
<1>6. BufferTypes'
  BY <1>1, <1>2, <1>3, SameGroup
     DEF UserReleases, ParserAfterRelease, ParserWoken, BufferTypes, userVars, outVars
<1>7. ThreadTypes'
  BY <1>1, <1>2, <1>3
     DEF UserReleases, ParserAfterRelease, ParserWoken, ThreadTypes, ParserSteps,
         HalSteps, Status, Waits, parserVars, halVars
<1>8. ResetHandshake'
  BY <1>1, <1>2, <1>3
     DEF UserReleases, ParserAfterRelease, ParserWoken, ResetHandshake, ResetSteps,
         userVars
<1>9. TasksInHand'
  BY <1>1, <1>2, <1>3
     DEF UserReleases, ParserAfterRelease, ParserWoken, TasksInHand, HndSteps,
         InfoSteps, EosSteps, DecodeSteps, AfterSteps, parserVars, halVars, ThreadTypes
<1>10. StatusBits'
  BY <1>1, <1>2, <1>3
     DEF UserReleases, ParserAfterRelease, ParserWoken, StatusBits, PictureSteps,
         AloneSteps, parserVars
<1>11. PictureInHand'
  BY <1>1, <1>2, <1>3
     DEF UserReleases, ParserAfterRelease, ParserWoken, PictureInHand, parserVars,
         slotVars, StatusBits, PictureSteps, AloneSteps
<1> QED BY <1>3, <1>4, <1>5, <1>6, <1>7, <1>8, <1>9, <1>10, <1>11,
      TypePartsNext DEF IInv

(* Buffers are committed.                                                  *)
LEMMA UserCommitsStep ==
    ASSUME IInv, ~aborted, UserCommits
    PROVE  IInv'
<1>1. /\ Lists /\ taskInfo \in [HalTasks -> Infos]
      /\ SlotTypes /\ UserTypes /\ BufferTypes /\ ThreadTypes
      /\ ResetHandshake /\ Commits /\ TasksInHand /\ StatusBits /\ PictureInHand
      /\ OneInFlight /\ TasksSent /\ FormatsKnown /\ PacketSlotsKept
  BY TypeParts DEF IInv
<1>2. /\ Stream' = Stream /\ Packets' = Packets /\ Formats' = Formats
      /\ Infos' = Infos /\ BufferCount' = BufferCount /\ ResetBound' = ResetBound
      /\ scenario' = scenario
  <2>1. scenario' = scenario
    BY DEF UserCommits, userVars
  <2> QED BY <2>1, SameScenario
<1>3. /\ Lists' /\ taskInfo' \in [HalTasks -> Infos']
      /\ taskInfo' = taskInfo /\ taskStatus' = taskStatus
      /\ \A t : (InHardware(t)' <=> InHardware(t)) /\ (InFlight(t)' <=> InFlight(t))
  <2>1. UNCHANGED groupVars
    BY DEF UserCommits, groupVars
  <2> QED BY <1>1, <1>2, <2>1, GroupSame
<1>4. group \in Nat
  BY <1>1 DEF Commits
<1>5. Buffers \subseteq Buffers'
  BY <1>2, <1>4 DEF UserCommits, Buffers, Committed, BufferCount
<1>6. SlotEntries \subseteq SlotEntries' /\ OutFrames \subseteq OutFrames'
  BY <1>2, <1>5 DEF SlotEntries, OutFrames
<1>7. /\ OneInFlight' /\ TasksSent' /\ FormatsKnown' /\ PacketSlotsKept'
  BY <1>1, <1>2, <1>3
     DEF UserCommits, ParserWoken, OneInFlight, parserVars, TasksSent, halVars,
         FormatsKnown, slotVars, PacketSlotsKept, PacketSlotsOwned
<1>8. SlotTypes'
  BY <1>1, <1>2, <1>3, <1>4, <1>5, <1>6, SlotParts, SlotPartsNext, SameGroup
     DEF UserCommits, ParserWoken, slotVars
<1>9. UserTypes'
  BY <1>1, <1>2, <1>3, <1>4, <1>5, <1>6
     DEF UserCommits, ParserWoken, UserTypes, UserSteps, userVars
<1>10. BufferTypes'
  BY <1>1, <1>2, <1>3, <1>4, <1>5, <1>6, SameGroup
     DEF UserCommits, ParserWoken, BufferTypes, userVars, outVars
<1>11. ThreadTypes'
  BY <1>1, <1>2, <1>3, <1>4, <1>5, <1>6
     DEF UserCommits, ParserWoken, ThreadTypes, ParserSteps, HalSteps, Status, Waits,
         parserVars, halVars
<1>12. ResetHandshake'
  BY <1>1, <1>2, <1>3, <1>4, <1>5, <1>6
     DEF UserCommits, ParserWoken, ResetHandshake, ResetSteps, userVars
<1>13. Commits'
  BY <1>1, <1>2, <1>3, <1>4, <1>5, <1>6 DEF UserCommits, ParserWoken, Commits, userVars
<1>14. TasksInHand'
  BY <1>1, <1>2, <1>3, <1>4, <1>5, <1>6
     DEF UserCommits, ParserWoken, TasksInHand, HndSteps, InfoSteps, EosSteps,
         DecodeSteps, AfterSteps, parserVars, halVars, ThreadTypes
<1>15. StatusBits'
  BY <1>1, <1>2, <1>3, <1>4, <1>5, <1>6
     DEF UserCommits, ParserWoken, StatusBits, PictureSteps, AloneSteps, parserVars
<1>16. PictureInHand'
  BY <1>1, <1>2, <1>3, <1>4, <1>5, <1>6
     DEF UserCommits, ParserWoken, PictureInHand, parserVars, slotVars, StatusBits,
         PictureSteps, AloneSteps
<1> QED BY <1>3, <1>7, <1>8, <1>9, <1>10, <1>11, <1>12, <1>13, <1>14, <1>15, <1>16,
      TypePartsNext DEF IInv

(* The slots are ready: the new format is in force.                        *)
LEMMA UserReadiesStep ==
    ASSUME IInv, ~aborted, UserReadies
    PROVE  IInv'
<1>1. /\ Lists /\ taskInfo \in [HalTasks -> Infos]
      /\ SlotTypes /\ UserTypes /\ BufferTypes /\ ThreadTypes
      /\ ResetHandshake /\ Commits /\ TasksInHand /\ StatusBits /\ PictureInHand
      /\ OneInFlight /\ TasksSent /\ FormatsKnown /\ PacketSlotsKept
  BY TypeParts DEF IInv
<1>2. /\ Stream' = Stream /\ Packets' = Packets /\ Formats' = Formats
      /\ Infos' = Infos /\ BufferCount' = BufferCount /\ ResetBound' = ResetBound
      /\ scenario' = scenario
  <2>1. scenario' = scenario
    BY DEF UserReadies, userVars
  <2> QED BY <2>1, SameScenario
<1>3. /\ Lists' /\ taskInfo' \in [HalTasks -> Infos']
      /\ taskInfo' = taskInfo /\ taskStatus' = taskStatus
      /\ \A t : (InHardware(t)' <=> InHardware(t)) /\ (InFlight(t)' <=> InFlight(t))
  <2>1. UNCHANGED groupVars
    BY DEF UserReadies, groupVars
  <2> QED BY <1>1, <1>2, <2>1, GroupSame
<1>4. /\ BufferTypes' /\ OneInFlight' /\ TasksSent' /\ PacketSlotsKept'
  BY <1>1, <1>2, <1>3, SameGroup
     DEF UserReadies, SlotsReady, ParserWoken, BufferTypes, userVars, outVars,
         OneInFlight, parserVars, TasksSent, halVars, PacketSlotsKept, PacketSlotsOwned
<1>5. SlotTypes'
  BY <1>1, <1>2, <1>3, SlotParts, SlotPartsNext, SameGroup
     DEF UserReadies, SlotsReady, ParserWoken, slotVars
<1>6. UserTypes'
  BY <1>1, <1>2, <1>3
     DEF UserReadies, SlotsReady, ParserWoken, UserTypes, UserSteps, userVars
<1>7. ThreadTypes'
  BY <1>1, <1>2, <1>3
     DEF UserReadies, SlotsReady, ParserWoken, ThreadTypes, ParserSteps, HalSteps,
         Status, Waits, parserVars, halVars
<1>8. ResetHandshake'
  BY <1>1, <1>2, <1>3
     DEF UserReadies, SlotsReady, ParserWoken, ResetHandshake, ResetSteps, userVars
<1>9. Commits'
  BY <1>1, <1>2, <1>3 DEF UserReadies, SlotsReady, ParserWoken, Commits, userVars
<1>10. TasksInHand'
  BY <1>1, <1>2, <1>3
     DEF UserReadies, SlotsReady, ParserWoken, TasksInHand, HndSteps, InfoSteps,
         EosSteps, DecodeSteps, AfterSteps, parserVars, halVars, ThreadTypes
<1>11. StatusBits'
  BY <1>1, <1>2, <1>3
     DEF UserReadies, SlotsReady, ParserWoken, StatusBits, PictureSteps, AloneSteps,
         parserVars
<1>12. PictureInHand'
  BY <1>1, <1>2, <1>3
     DEF UserReadies, SlotsReady, ParserWoken, PictureInHand, parserVars, slotVars,
         StatusBits, PictureSteps, AloneSteps
<1>13. FormatsKnown'
  BY <1>1, <1>2, <1>3
     DEF UserReadies, SlotsReady, ParserWoken, FormatsKnown, parserVars, slotVars,
         StatusBits, PictureSteps, AloneSteps
<1> QED BY <1>3, <1>4, <1>5, <1>6, <1>7, <1>8, <1>9, <1>10, <1>11, <1>12, <1>13,
      TypePartsNext DEF IInv

(* A reset begins.                                                         *)
LEMMA UserFlushesPacketsStep ==
    ASSUME IInv, ~aborted, UserFlushesPackets
    PROVE  IInv'
<1>1. /\ Lists /\ taskInfo \in [HalTasks -> Infos]
      /\ SlotTypes /\ UserTypes /\ BufferTypes /\ ThreadTypes
      /\ ResetHandshake /\ Commits /\ TasksInHand /\ StatusBits /\ PictureInHand
      /\ OneInFlight /\ TasksSent /\ FormatsKnown /\ PacketSlotsKept
  BY TypeParts DEF IInv
<1>2. /\ Stream' = Stream /\ Packets' = Packets /\ Formats' = Formats
      /\ Infos' = Infos /\ BufferCount' = BufferCount /\ ResetBound' = ResetBound
      /\ scenario' = scenario
  <2>1. scenario' = scenario
    BY DEF UserFlushesPackets, userVars
  <2> QED BY <2>1, SameScenario
<1>3. /\ Lists' /\ taskInfo' \in [HalTasks -> Infos']
      /\ taskInfo' = taskInfo /\ taskStatus' = taskStatus
      /\ \A t : (InHardware(t)' <=> InHardware(t)) /\ (InFlight(t)' <=> InFlight(t))
  <2>1. UNCHANGED groupVars
    BY DEF UserFlushesPackets, groupVars
  <2> QED BY <1>1, <1>2, <2>1, GroupSame
<1>4. /\ Len(Stream) \in Nat /\ Packets = 1 .. Len(Stream) /\ ResetBound \in Nat
      /\ \A p \in Packets : Stream[p].fmt \in Formats /\ Stream[p].last \in BOOLEAN
  BY <1>1, StreamTypes DEF UserTypes
<1>5. /\ BufferTypes' /\ ThreadTypes' /\ TasksInHand' /\ StatusBits'
      /\ PictureInHand' /\ OneInFlight' /\ TasksSent' /\ FormatsKnown'
      /\ PacketSlotsKept'
  BY <1>1, <1>2, <1>3, SameGroup
     DEF UserFlushesPackets, BufferTypes, userVars, outVars, ThreadTypes, ParserSteps,
         HalSteps, Status, Waits, parserVars, halVars, TasksInHand, HndSteps, InfoSteps,
         EosSteps, DecodeSteps, AfterSteps, StatusBits, PictureSteps, AloneSteps,
         PictureInHand, slotVars, OneInFlight, TasksSent, FormatsKnown, PacketSlotsKept,
         PacketSlotsOwned
<1>6. SlotTypes'
  BY <1>1, <1>2, <1>3, <1>4, SlotParts, SlotPartsNext, SameGroup
     DEF UserFlushesPackets, slotVars
<1>7. UserTypes'
  BY <1>1, <1>2, <1>3, <1>4 DEF UserFlushesPackets, UserTypes, UserSteps, userVars
<1>8. ResetHandshake'
  BY <1>1, <1>2, <1>3, <1>4
     DEF UserFlushesPackets, ResetHandshake, ResetSteps, userVars, UserTypes
<1>9. Commits'
  BY <1>1, <1>2, <1>3, <1>4 DEF UserFlushesPackets, Commits, userVars
<1> QED BY <1>3, <1>5, <1>6, <1>7, <1>8, <1>9, TypePartsNext DEF IInv

(* The frames are flushed.                                                 *)
LEMMA UserFlushesFramesStep ==
    ASSUME IInv, ~aborted, UserFlushesFrames
    PROVE  IInv'
<1>1. /\ Lists /\ taskInfo \in [HalTasks -> Infos]
      /\ SlotTypes /\ UserTypes /\ BufferTypes /\ ThreadTypes
      /\ ResetHandshake /\ Commits /\ TasksInHand /\ StatusBits /\ PictureInHand
      /\ OneInFlight /\ TasksSent /\ FormatsKnown /\ PacketSlotsKept
  BY TypeParts DEF IInv
<1>2. /\ Stream' = Stream /\ Packets' = Packets /\ Formats' = Formats
      /\ Infos' = Infos /\ BufferCount' = BufferCount /\ ResetBound' = ResetBound
      /\ scenario' = scenario
  <2>1. scenario' = scenario
    BY DEF UserFlushesFrames, userVars
  <2> QED BY <2>1, SameScenario
<1>3. /\ Lists' /\ taskInfo' \in [HalTasks -> Infos']
      /\ taskInfo' = taskInfo /\ taskStatus' = taskStatus
      /\ \A t : (InHardware(t)' <=> InHardware(t)) /\ (InFlight(t)' <=> InFlight(t))
  <2>1. UNCHANGED groupVars
    BY DEF UserFlushesFrames, groupVars
  <2> QED BY <1>1, <1>2, <2>1, GroupSame
<1>4. /\ OneInFlight' /\ TasksSent' /\ FormatsKnown' /\ PacketSlotsKept'
  BY <1>1, <1>2, <1>3
     DEF UserFlushesFrames, ParserAfterRelease, ParserWoken, OneInFlight, parserVars,
         TasksSent, halVars, FormatsKnown, slotVars, PacketSlotsKept, PacketSlotsOwned
<1>5. SlotTypes'
  BY <1>1, <1>2, <1>3, SlotParts, SlotPartsNext, SameGroup
     DEF UserFlushesFrames, ParserAfterRelease, ParserWoken, slotVars
<1>6. UserTypes'
  BY <1>1, <1>2, <1>3
     DEF UserFlushesFrames, ParserAfterRelease, ParserWoken, UserTypes, UserSteps,
         userVars
<1>7. BufferTypes'
  BY <1>1, <1>2, <1>3, SameGroup
     DEF UserFlushesFrames, ParserAfterRelease, ParserWoken, BufferTypes, userVars,
         outVars
<1>8. ThreadTypes'
  BY <1>1, <1>2, <1>3
     DEF UserFlushesFrames, ParserAfterRelease, ParserWoken, ThreadTypes, ParserSteps,
         HalSteps, Status, Waits, parserVars, halVars
<1>9. ResetHandshake'
  BY <1>1, <1>2, <1>3
     DEF UserFlushesFrames, ParserAfterRelease, ParserWoken, ResetHandshake, ResetSteps,
         userVars
<1>10. Commits'
  BY <1>1, <1>2, <1>3
     DEF UserFlushesFrames, ParserAfterRelease, ParserWoken, Commits, userVars
<1>11. TasksInHand'
  BY <1>1, <1>2, <1>3
     DEF UserFlushesFrames, ParserAfterRelease, ParserWoken, TasksInHand, HndSteps,
         InfoSteps, EosSteps, DecodeSteps, AfterSteps, parserVars, halVars, ThreadTypes
<1>12. StatusBits'
  BY <1>1, <1>2, <1>3
     DEF UserFlushesFrames, ParserAfterRelease, ParserWoken, StatusBits, PictureSteps,
         AloneSteps, parserVars
<1>13. PictureInHand'
  BY <1>1, <1>2, <1>3
     DEF UserFlushesFrames, ParserAfterRelease, ParserWoken, PictureInHand, parserVars,
         slotVars, StatusBits, PictureSteps, AloneSteps
<1> QED BY <1>3, <1>4, <1>5, <1>6, <1>7, <1>8, <1>9, <1>10, <1>11, <1>12, <1>13,
      TypePartsNext DEF IInv

(* The parser is told to reset.                                            *)
LEMMA UserRaisesFlagStep ==
    ASSUME IInv, ~aborted, UserRaisesFlag
    PROVE  IInv'
<1>1. /\ Lists /\ taskInfo \in [HalTasks -> Infos]
      /\ SlotTypes /\ UserTypes /\ BufferTypes /\ ThreadTypes
      /\ ResetHandshake /\ Commits /\ TasksInHand /\ StatusBits /\ PictureInHand
      /\ OneInFlight /\ TasksSent /\ FormatsKnown /\ PacketSlotsKept
  BY TypeParts DEF IInv
<1>2. /\ Stream' = Stream /\ Packets' = Packets /\ Formats' = Formats
      /\ Infos' = Infos /\ BufferCount' = BufferCount /\ ResetBound' = ResetBound
      /\ scenario' = scenario
  <2>1. scenario' = scenario
    BY DEF UserRaisesFlag, userVars
  <2> QED BY <2>1, SameScenario
<1>3. /\ Lists' /\ taskInfo' \in [HalTasks -> Infos']
      /\ taskInfo' = taskInfo /\ taskStatus' = taskStatus
      /\ \A t : (InHardware(t)' <=> InHardware(t)) /\ (InFlight(t)' <=> InFlight(t))
  <2>1. UNCHANGED groupVars
    BY DEF UserRaisesFlag, groupVars
  <2> QED BY <1>1, <1>2, <2>1, GroupSame
<1>4. /\ BufferTypes' /\ OneInFlight' /\ TasksSent' /\ FormatsKnown'
      /\ PacketSlotsKept'
  BY <1>1, <1>2, <1>3, SameGroup
     DEF UserRaisesFlag, ParserWoken, BufferTypes, userVars, outVars, OneInFlight,
         parserVars, TasksSent, halVars, FormatsKnown, slotVars, PacketSlotsKept,
         PacketSlotsOwned
<1>5. SlotTypes'
  BY <1>1, <1>2, <1>3, SlotParts, SlotPartsNext, SameGroup
     DEF UserRaisesFlag, ParserWoken, slotVars
<1>6. UserTypes'
  BY <1>1, <1>2, <1>3 DEF UserRaisesFlag, ParserWoken, UserTypes, UserSteps, userVars
<1>7. ThreadTypes'
  BY <1>1, <1>2, <1>3
     DEF UserRaisesFlag, ParserWoken, ThreadTypes, ParserSteps, HalSteps, Status, Waits,
         parserVars, halVars
<1>8. ResetHandshake'
  BY <1>1, <1>2, <1>3
     DEF UserRaisesFlag, ParserWoken, ResetHandshake, ResetSteps, userVars
<1>9. Commits'
  BY <1>1, <1>2, <1>3 DEF UserRaisesFlag, ParserWoken, Commits, userVars
<1>10. TasksInHand'
  BY <1>1, <1>2, <1>3
     DEF UserRaisesFlag, ParserWoken, TasksInHand, HndSteps, InfoSteps, EosSteps,
         DecodeSteps, AfterSteps, parserVars, halVars, ThreadTypes
<1>11. StatusBits'
  BY <1>1, <1>2, <1>3
     DEF UserRaisesFlag, ParserWoken, StatusBits, PictureSteps, AloneSteps, parserVars
<1>12. PictureInHand'
  BY <1>1, <1>2, <1>3
     DEF UserRaisesFlag, ParserWoken, PictureInHand, parserVars, slotVars, StatusBits,
         PictureSteps, AloneSteps
<1> QED BY <1>3, <1>4, <1>5, <1>6, <1>7, <1>8, <1>9, <1>10, <1>11, <1>12,
      TypePartsNext DEF IInv

(* The parser looks at reset_flag.                                         *)
LEMMA ParserTopStep ==
    ASSUME IInv, ~aborted, ParserTop
    PROVE  IInv'
<1>1. /\ Lists /\ taskInfo \in [HalTasks -> Infos]
      /\ SlotTypes /\ UserTypes /\ BufferTypes /\ ThreadTypes
      /\ ResetHandshake /\ Commits /\ TasksInHand /\ StatusBits /\ PictureInHand
      /\ OneInFlight /\ TasksSent /\ FormatsKnown /\ PacketSlotsKept
  BY TypeParts DEF IInv
<1>2. /\ Stream' = Stream /\ Packets' = Packets /\ Formats' = Formats
      /\ Infos' = Infos /\ BufferCount' = BufferCount /\ ResetBound' = ResetBound
      /\ scenario' = scenario
  <2>1. scenario' = scenario
    BY DEF ParserTop, userVars
  <2> QED BY <2>1, SameScenario
<1>3. /\ Lists' /\ taskInfo' \in [HalTasks -> Infos']
      /\ taskInfo' = taskInfo /\ taskStatus' = taskStatus
      /\ \A t : (InHardware(t)' <=> InHardware(t)) /\ (InFlight(t)' <=> InFlight(t))
  <2>1. UNCHANGED groupVars
    BY DEF ParserTop, groupVars
  <2> QED BY <1>1, <1>2, <2>1, GroupSame
<1>4. /\ UserTypes' /\ BufferTypes' /\ Commits' /\ OneInFlight'
      /\ TasksSent' /\ FormatsKnown' /\ PacketSlotsKept'
  BY <1>1, <1>2, <1>3, SameGroup
     DEF ParserTop, UserTypes, UserSteps, userVars, BufferTypes, outVars, Commits,
         OneInFlight, parserVars, TasksSent, halVars, FormatsKnown, slotVars,
         PacketSlotsKept, PacketSlotsOwned
<1>5. SlotTypes'
  BY <1>1, <1>2, <1>3, SlotParts, SlotPartsNext, SameGroup DEF ParserTop, slotVars
<1>6. ThreadTypes'
  BY <1>1, <1>2, <1>3
     DEF ParserTop, ThreadTypes, ParserSteps, HalSteps, Status, Waits, parserVars,
         halVars
<1>7. ResetHandshake'
  BY <1>1, <1>2, <1>3 DEF ParserTop, ResetHandshake, ResetSteps, userVars
<1>8. TasksInHand'
  BY <1>1, <1>2, <1>3
     DEF ParserTop, TasksInHand, HndSteps, InfoSteps, EosSteps, DecodeSteps, AfterSteps,
         parserVars, halVars, ThreadTypes
<1>9. StatusBits'
  BY <1>1, <1>2, <1>3 DEF ParserTop, StatusBits, PictureSteps, AloneSteps, parserVars
<1>10. PictureInHand'
  BY <1>1, <1>2, <1>3
     DEF ParserTop, PictureInHand, parserVars, slotVars, StatusBits, PictureSteps,
         AloneSteps
<1> QED BY <1>3, <1>4, <1>5, <1>6, <1>7, <1>8, <1>9, <1>10, TypePartsNext DEF IInv

(* It sleeps or goes on.                                                   *)
LEMMA ParserChecksStep ==
    ASSUME IInv, ~aborted, ParserChecks
    PROVE  IInv'
<1>1. /\ Lists /\ taskInfo \in [HalTasks -> Infos]
      /\ SlotTypes /\ UserTypes /\ BufferTypes /\ ThreadTypes
      /\ ResetHandshake /\ Commits /\ TasksInHand /\ StatusBits /\ PictureInHand
      /\ OneInFlight /\ TasksSent /\ FormatsKnown /\ PacketSlotsKept
  BY TypeParts DEF IInv
<1>2. /\ Stream' = Stream /\ Packets' = Packets /\ Formats' = Formats
      /\ Infos' = Infos /\ BufferCount' = BufferCount /\ ResetBound' = ResetBound
      /\ scenario' = scenario
  <2>1. scenario' = scenario
    BY DEF ParserChecks, userVars
  <2> QED BY <2>1, SameScenario
<1>3. /\ Lists' /\ taskInfo' \in [HalTasks -> Infos']
      /\ taskInfo' = taskInfo /\ taskStatus' = taskStatus
      /\ \A t : (InHardware(t)' <=> InHardware(t)) /\ (InFlight(t)' <=> InFlight(t))
  <2>1. UNCHANGED groupVars
    BY DEF ParserChecks, groupVars
  <2> QED BY <1>1, <1>2, <2>1, GroupSame
<1>4. /\ UserTypes' /\ BufferTypes' /\ Commits' /\ OneInFlight'
      /\ TasksSent' /\ FormatsKnown' /\ PacketSlotsKept'
  BY <1>1, <1>2, <1>3, SameGroup
     DEF ParserChecks, UserTypes, UserSteps, userVars, BufferTypes, outVars, Commits,
         OneInFlight, parserVars, TasksSent, halVars, FormatsKnown, slotVars,
         PacketSlotsKept, PacketSlotsOwned
<1>5. SlotTypes'
  BY <1>1, <1>2, <1>3, SlotParts, SlotPartsNext, SameGroup DEF ParserChecks, slotVars
<1>6. ThreadTypes'
  BY <1>1, <1>2, <1>3
     DEF ParserChecks, ThreadTypes, ParserSteps, HalSteps, Status, Waits, parserVars,
         halVars
<1>7. ResetHandshake'
  BY <1>1, <1>2, <1>3 DEF ParserChecks, ResetHandshake, ResetSteps, userVars
<1>8. TasksInHand'
  BY <1>1, <1>2, <1>3
     DEF ParserChecks, TasksInHand, HndSteps, InfoSteps, EosSteps, DecodeSteps,
         AfterSteps, parserVars, halVars, ThreadTypes
<1>9. StatusBits'
  BY <1>1, <1>2, <1>3
     DEF ParserChecks, StatusBits, PictureSteps, AloneSteps, parserVars
<1>10. PictureInHand'
  BY <1>1, <1>2, <1>3
     DEF ParserChecks, PictureInHand, parserVars, slotVars, StatusBits, PictureSteps,
         AloneSteps
<1> QED BY <1>3, <1>4, <1>5, <1>6, <1>7, <1>8, <1>9, <1>10, TypePartsNext DEF IInv

(* A task handle.                                                          *)
LEMMA ParserTriesStep ==
    ASSUME IInv, ~aborted, ParserTries
    PROVE  IInv'
<1>1. /\ Lists /\ taskInfo \in [HalTasks -> Infos]
      /\ SlotTypes /\ UserTypes /\ BufferTypes /\ ThreadTypes
      /\ ResetHandshake /\ Commits /\ TasksInHand /\ StatusBits /\ PictureInHand
      /\ OneInFlight /\ TasksSent /\ FormatsKnown /\ PacketSlotsKept
  BY TypeParts DEF IInv
<1>2. /\ Stream' = Stream /\ Packets' = Packets /\ Formats' = Formats
      /\ Infos' = Infos /\ BufferCount' = BufferCount /\ ResetBound' = ResetBound
      /\ scenario' = scenario
  <2>1. scenario' = scenario
    BY DEF ParserTries, ParserLocal, userVars
  <2> QED BY <2>1, SameScenario
<1>3. /\ Lists' /\ taskInfo' \in [HalTasks -> Infos']
      /\ taskInfo' = taskInfo /\ taskStatus' = taskStatus
      /\ \A t : (InHardware(t)' <=> InHardware(t)) /\ (InFlight(t)' <=> InFlight(t))
  <2>1. UNCHANGED groupVars
    BY DEF ParserTries, ParserLocal, groupVars
  <2> QED BY <1>1, <1>2, <2>1, GroupSame
<1>4. HndIn("IDLE") # NoTask => HndIn("IDLE") \in HalTasks /\ taskStatus[HndIn("IDLE")] = "IDLE"
  BY <1>1, HandleFound DEF HalTaskStatuses
<1>5. /\ UserTypes' /\ BufferTypes' /\ Commits' /\ OneInFlight'
      /\ TasksSent' /\ FormatsKnown' /\ PacketSlotsKept'
  BY <1>1, <1>2, <1>3, SameGroup
     DEF ParserTries, ParserLocal, UserTypes, UserSteps, userVars, BufferTypes, outVars,
         Commits, OneInFlight, parserVars, TasksSent, halVars, FormatsKnown, slotVars,
         PacketSlotsKept, PacketSlotsOwned
<1>6. SlotTypes'
  BY <1>1, <1>2, <1>3, <1>4, SlotParts, SlotPartsNext, SameGroup
     DEF ParserTries, ParserLocal, slotVars
<1>7. ThreadTypes'
  BY <1>1, <1>2, <1>3, <1>4
     DEF ParserTries, ParserLocal, ThreadTypes, ParserSteps, HalSteps, Status, Waits,
         parserVars, halVars
<1>8. ResetHandshake'
  BY <1>1, <1>2, <1>3, <1>4
     DEF ParserTries, ParserLocal, ResetHandshake, ResetSteps, userVars
<1>9. TasksInHand'
  BY <1>1, <1>2, <1>3, <1>4
     DEF ParserTries, ParserLocal, TasksInHand, HndSteps, InfoSteps, EosSteps,
         DecodeSteps, AfterSteps, parserVars, halVars, ThreadTypes
<1>10. StatusBits'
  BY <1>1, <1>2, <1>3, <1>4
     DEF ParserTries, ParserLocal, StatusBits, PictureSteps, AloneSteps, parserVars
<1>11. PictureInHand'
  BY <1>1, <1>2, <1>3, <1>4
     DEF ParserTries, ParserLocal, PictureInHand, parserVars, slotVars, StatusBits,
         PictureSteps, AloneSteps
<1> QED BY <1>3, <1>5, <1>6, <1>7, <1>8, <1>9, <1>10, <1>11, TypePartsNext DEF IInv

(* There is no packet.                                                     *)
LEMMA PullNothingStep ==
    ASSUME IInv, ~aborted, PullNothing
    PROVE  IInv'
<1>1. /\ Lists /\ taskInfo \in [HalTasks -> Infos]
      /\ SlotTypes /\ UserTypes /\ BufferTypes /\ ThreadTypes
      /\ ResetHandshake /\ Commits /\ TasksInHand /\ StatusBits /\ PictureInHand
      /\ OneInFlight /\ TasksSent /\ FormatsKnown /\ PacketSlotsKept
  BY TypeParts DEF IInv
<1>2. /\ Stream' = Stream /\ Packets' = Packets /\ Formats' = Formats
      /\ Infos' = Infos /\ BufferCount' = BufferCount /\ ResetBound' = ResetBound
      /\ scenario' = scenario
  <2>1. scenario' = scenario
    BY DEF PullNothing, ParserLocal, userVars
  <2> QED BY <2>1, SameScenario
<1>3. /\ Lists' /\ taskInfo' \in [HalTasks -> Infos']
      /\ taskInfo' = taskInfo /\ taskStatus' = taskStatus
      /\ \A t : (InHardware(t)' <=> InHardware(t)) /\ (InFlight(t)' <=> InFlight(t))
  <2>1. UNCHANGED groupVars
    BY DEF PullNothing, ParserLocal, groupVars
  <2> QED BY <1>1, <1>2, <2>1, GroupSame
<1>4. /\ UserTypes' /\ BufferTypes' /\ Commits' /\ OneInFlight'
      /\ TasksSent' /\ FormatsKnown' /\ PacketSlotsKept'
  BY <1>1, <1>2, <1>3, SameGroup
     DEF PullNothing, ParserLocal, UserTypes, UserSteps, userVars, BufferTypes, outVars,
         Commits, OneInFlight, parserVars, TasksSent, halVars, FormatsKnown, slotVars,
         PacketSlotsKept, PacketSlotsOwned
<1>5. SlotTypes'
  BY <1>1, <1>2, <1>3, SlotParts, SlotPartsNext, SameGroup
     DEF PullNothing, ParserLocal, slotVars
<1>6. ThreadTypes'
  BY <1>1, <1>2, <1>3
     DEF PullNothing, ParserLocal, ThreadTypes, ParserSteps, HalSteps, Status, Waits,
         parserVars, halVars
<1>7. ResetHandshake'
  BY <1>1, <1>2, <1>3
     DEF PullNothing, ParserLocal, ResetHandshake, ResetSteps, userVars
<1>8. TasksInHand'
  BY <1>1, <1>2, <1>3
     DEF PullNothing, ParserLocal, TasksInHand, HndSteps, InfoSteps, EosSteps,
         DecodeSteps, AfterSteps, parserVars, halVars, ThreadTypes
<1>9. StatusBits'
  BY <1>1, <1>2, <1>3
     DEF PullNothing, ParserLocal, StatusBits, PictureSteps, AloneSteps, parserVars
<1>10. PictureInHand'
  BY <1>1, <1>2, <1>3
     DEF PullNothing, ParserLocal, PictureInHand, parserVars, slotVars, StatusBits,
         PictureSteps, AloneSteps
<1> QED BY <1>3, <1>4, <1>5, <1>6, <1>7, <1>8, <1>9, <1>10, TypePartsNext DEF IInv

(* The end of the stream is sent.                                          *)
LEMMA PullEosStep ==
    ASSUME IInv, ~aborted, PullEos
    PROVE  IInv'
<1>1. /\ Lists /\ taskInfo \in [HalTasks -> Infos]
      /\ SlotTypes /\ UserTypes /\ BufferTypes /\ ThreadTypes
      /\ ResetHandshake /\ Commits /\ TasksInHand /\ StatusBits /\ PictureInHand
      /\ OneInFlight /\ TasksSent /\ FormatsKnown /\ PacketSlotsKept
  BY TypeParts DEF IInv
<1>2. /\ Stream' = Stream /\ Packets' = Packets /\ Formats' = Formats
      /\ Infos' = Infos /\ BufferCount' = BufferCount /\ ResetBound' = ResetBound
      /\ scenario' = scenario
  <2>1. scenario' = scenario
    BY DEF PullEos, userVars
  <2> QED BY <2>1, SameScenario
<1>3. PICK h \in HalTasks : h = hnd /\ taskStatus[h] = "IDLE"
  BY <1>1 DEF PullEos, TasksInHand, HndSteps, ThreadTypes
<1>4. PICK i \in Infos : /\ i = cur' /\ i.id \in Packets /\ ~i.valid /\ i.eos
                          /\ i.infoChange = cur.infoChange /\ i.output = cur.output
  <2>1. Head(packets) \in Packets
    BY <1>1 DEF PullEos, UserTypes
  <2>2. cur \in Infos /\ cur' = [cur EXCEPT !.id = Head(packets), !.valid = FALSE, !.eos = TRUE]
    BY <1>1 DEF PullEos, ThreadTypes
  <2>3. /\ cur' \in Infos /\ cur'.id \in Packets /\ ~cur'.valid /\ cur'.eos
        /\ cur'.infoChange = cur.infoChange /\ cur'.output = cur.output
    BY <2>1, <2>2 DEF Infos
  <2> QED BY <2>3
<1>5. /\ Lists' /\ taskInfo' \in [HalTasks -> Infos']
      /\ taskInfo' = [taskInfo EXCEPT ![h] = i]
      /\ taskStatus'[h] = "PROCESSING" /\ taskInfo'[h] = i
      /\ \A t \in HalTasks \ {h} :
            /\ taskStatus'[t] = taskStatus[t] /\ taskInfo'[t] = taskInfo[t]
            /\ (InHardware(t)' <=> InHardware(t)) /\ (InFlight(t)' <=> InFlight(t))
      /\ ~InFlight(h) /\ ~InHardware(h)
      /\ InHardware(h)' <=> i.valid /\ ~i.infoChange
      /\ InFlight(h)' <=> i.valid /\ ~i.infoChange
      /\ hnd' = NoTask /\ halTask' = halTask /\ halInfo' = halInfo
      /\ halAt' = IF halAt = "asleep" THEN "get" ELSE halAt
  <2>1. Send(i)
    BY <1>4 DEF PullEos, Send
  <2> QED BY <1>1, <1>2, <1>3, <1>4, <2>1, TaskSent, Zenon
<1>6. BufferTypes' /\ Commits'
  BY <1>1, <1>2, SameGroup DEF PullEos, BufferTypes, userVars, outVars, Commits
<1>7. SlotTypes'
  BY <1>1, <1>2, <1>3, <1>4, <1>5, SlotParts, SlotPartsNext, SameGroup
     DEF PullEos, slotVars
<1>8. UserTypes'
  BY <1>1, <1>2, <1>3, <1>4, <1>5 DEF PullEos, UserTypes, UserSteps, userVars
<1>9. ThreadTypes'
  BY <1>1, <1>2, <1>3, <1>4, <1>5
     DEF PullEos, ThreadTypes, ParserSteps, HalSteps, Status, Waits, parserVars, halVars
<1>10. ResetHandshake'
  BY <1>1, <1>2, <1>3, <1>4, <1>5 DEF PullEos, ResetHandshake, ResetSteps, userVars
<1>11. TasksInHand'
  BY <1>1, <1>2, <1>3, <1>4, <1>5
     DEF PullEos, TasksInHand, HndSteps, InfoSteps, EosSteps, DecodeSteps, AfterSteps,
         parserVars, halVars, ThreadTypes
<1>12. StatusBits'
  BY <1>1, <1>2, <1>3, <1>4, <1>5
     DEF PullEos, StatusBits, PictureSteps, AloneSteps, parserVars
<1>13. PictureInHand'
  BY <1>1, <1>2, <1>3, <1>4, <1>5
     DEF PullEos, PictureInHand, parserVars, slotVars, StatusBits, PictureSteps,
         AloneSteps
<1>14. OneInFlight'
  BY <1>1, <1>2, <1>3, <1>4, <1>5
     DEF PullEos, OneInFlight, parserVars, StatusBits, PictureSteps, AloneSteps
<1>15. TasksSent'
  BY <1>1, <1>2, <1>3, <1>4, <1>5 DEF PullEos, TasksSent, halVars
<1>16. FormatsKnown'
  BY <1>1, <1>2, <1>3, <1>4, <1>5
     DEF PullEos, FormatsKnown, parserVars, slotVars, StatusBits, PictureSteps,
         AloneSteps
<1>17. PacketSlotsKept'
  BY <1>1, <1>2, <1>3, <1>4, <1>5
     DEF PullEos, PacketSlotsKept, PacketSlotsOwned, parserVars, halVars
<1> QED BY <1>5, <1>6, <1>7, <1>8, <1>9, <1>10, <1>11, <1>12, <1>13, <1>14, <1>15,
      <1>16, <1>17, TypePartsNext DEF IInv

(* A picture is copied into a packet slot.                                 *)
LEMMA PullPictureStep ==
    ASSUME IInv, ~aborted, PullPicture
    PROVE  IInv'
<1>1. /\ Lists /\ taskInfo \in [HalTasks -> Infos]
      /\ SlotTypes /\ UserTypes /\ BufferTypes /\ ThreadTypes
      /\ ResetHandshake /\ Commits /\ TasksInHand /\ StatusBits /\ PictureInHand
      /\ OneInFlight /\ TasksSent /\ FormatsKnown /\ PacketSlotsKept
  BY TypeParts DEF IInv
<1>2. /\ Stream' = Stream /\ Packets' = Packets /\ Formats' = Formats
      /\ Infos' = Infos /\ BufferCount' = BufferCount /\ ResetBound' = ResetBound
      /\ scenario' = scenario
  <2>1. scenario' = scenario
    BY DEF PullPicture, userVars
  <2> QED BY <2>1, SameScenario
<1>3. /\ Lists' /\ taskInfo' \in [HalTasks -> Infos']
      /\ taskInfo' = taskInfo /\ taskStatus' = taskStatus
      /\ \A t : (InHardware(t)' <=> InHardware(t)) /\ (InFlight(t)' <=> InFlight(t))
  <2>1. UNCHANGED groupVars
    BY DEF PullPicture, groupVars
  <2> QED BY <1>1, <1>2, <2>1, GroupSame
<1>4. /\ Head(packets) \in Packets /\ Tail(packets) \in Seq(Packets)
      /\ Stream[Head(packets)].kind # "eos" /\ Stream[Head(packets)].last \in BOOLEAN
  <2>1. packets \in Seq(Packets) /\ packets # <<>>
    BY <1>1 DEF PullPicture, UserTypes
  <2>2. Head(packets) \in Packets /\ Tail(packets) \in Seq(Packets)
    BY <2>1
  <2> QED BY <1>1, <2>2, StreamTypes DEF PullPicture, UserTypes
<1>5. /\ cur' \in Infos /\ cur'.infoChange = cur.infoChange /\ cur'.output = cur.output
      /\ packetSlots' \subseteq HalTasks /\ aborted' \in BOOLEAN
      /\ aborted' => packetSlots' = packetSlots
      /\ ~aborted' => /\ cur'.id = Head(packets) /\ cur'.valid /\ cur'.input \in HalTasks
                      /\ packetSlots' = packetSlots \union {cur'.input}
                      /\ cur'.input \notin packetSlots
  <2>1. cur \in Infos /\ packetSlots \subseteq HalTasks /\ aborted \in BOOLEAN
    BY <1>1 DEF UserTypes, ThreadTypes
  <2>2. CASE FreePacketSlots = {}
    BY <2>1, <2>2 DEF PullPicture, Abort
  <2>3. CASE FreePacketSlots # {}
    <3>1. PICK input \in FreePacketSlots :
             /\ cur' = [cur EXCEPT !.id = Head(packets), !.valid = TRUE, !.input = input,
                                   !.eos = Stream[Head(packets)].last]
             /\ packetSlots' = packetSlots \union {input}
             /\ UNCHANGED aborted
      BY <2>3 DEF PullPicture
    <3>2. input \in HalTasks /\ input \notin packetSlots /\ input \in 0 .. TaskCount
      BY HalTasksAssumption DEF FreePacketSlots, HalTasks
    <3>3. /\ cur' \in Infos /\ cur'.infoChange = cur.infoChange /\ cur'.output = cur.output
          /\ cur'.id = Head(packets) /\ cur'.valid /\ cur'.input = input
      BY <1>4, <2>1, <3>1, <3>2 DEF Infos
    <3> QED BY <2>1, <3>1, <3>2, <3>3
  <2> QED BY <2>2, <2>3
<1>6. BufferTypes' /\ Commits' /\ TasksSent'
  BY <1>1, <1>2, <1>3, SameGroup
     DEF PullPicture, BufferTypes, userVars, outVars, Commits, TasksSent, halVars
<1>7. SlotTypes'
  BY <1>1, <1>2, <1>3, <1>4, <1>5, SlotParts, SlotPartsNext, SameGroup
     DEF PullPicture, slotVars
<1>8. UserTypes'
  BY <1>1, <1>2, <1>3, <1>4, <1>5 DEF PullPicture, UserTypes, UserSteps, userVars
<1>9. ThreadTypes'
  BY <1>1, <1>2, <1>3, <1>4, <1>5
     DEF PullPicture, ThreadTypes, ParserSteps, HalSteps, Status, Waits, parserVars,
         halVars
<1>10. ResetHandshake'
  BY <1>1, <1>2, <1>3, <1>4, <1>5 DEF PullPicture, ResetHandshake, ResetSteps, userVars
<1>11. TasksInHand'
  BY <1>1, <1>2, <1>3, <1>4, <1>5
     DEF PullPicture, TasksInHand, HndSteps, InfoSteps, EosSteps, DecodeSteps,
         AfterSteps, parserVars, halVars, ThreadTypes
<1>12. StatusBits'
  BY <1>1, <1>2, <1>3, <1>4, <1>5
     DEF PullPicture, StatusBits, PictureSteps, AloneSteps, parserVars
<1>13. PictureInHand'
  BY <1>1, <1>2, <1>3, <1>4, <1>5
     DEF PullPicture, PictureInHand, parserVars, slotVars, StatusBits, PictureSteps,
         AloneSteps
<1>14. OneInFlight'
  BY <1>1, <1>2, <1>3, <1>4, <1>5
     DEF PullPicture, OneInFlight, parserVars, StatusBits, PictureSteps, AloneSteps
<1>15. FormatsKnown'
  BY <1>1, <1>2, <1>3, <1>4, <1>5
     DEF PullPicture, FormatsKnown, parserVars, slotVars, StatusBits, PictureSteps,
         AloneSteps
<1>16. PacketSlotsKept'
  BY <1>1, <1>2, <1>3, <1>4, <1>5
     DEF PullPicture, PacketSlotsKept, PacketSlotsOwned, parserVars, halVars,
         StatusBits, PictureSteps, AloneSteps
<1> QED BY <1>3, <1>6, <1>7, <1>8, <1>9, <1>10, <1>11, <1>12, <1>13, <1>14, <1>15,
      <1>16, TypePartsNext DEF IInv

(* The previous task is taken back.                                        *)
LEMMA ParserWaitsPreviousStep ==
    ASSUME IInv, ~aborted, ParserWaitsPrevious
    PROVE  IInv'
<1>1. /\ Lists /\ taskInfo \in [HalTasks -> Infos]
      /\ SlotTypes /\ UserTypes /\ BufferTypes /\ ThreadTypes
      /\ ResetHandshake /\ Commits /\ TasksInHand /\ StatusBits /\ PictureInHand
      /\ OneInFlight /\ TasksSent /\ FormatsKnown /\ PacketSlotsKept
  BY TypeParts DEF IInv
<1>2. /\ Stream' = Stream /\ Packets' = Packets /\ Formats' = Formats
      /\ Infos' = Infos /\ BufferCount' = BufferCount /\ ResetBound' = ResetBound
      /\ scenario' = scenario
  <2>1. scenario' = scenario
    BY DEF ParserWaitsPrevious, userVars
  <2> QED BY <2>1, SameScenario
<1>3. /\ Lists' /\ taskInfo' = taskInfo /\ taskInfo' \in [HalTasks -> Infos']
      /\ \A t \in HalTasks :
            /\ InHardware(t)' <=> InHardware(t)
            /\ taskStatus[t] # "PROC_DONE" => taskStatus'[t] = taskStatus[t]
            /\ taskStatus'[t] = "PROCESSING" <=> taskStatus[t] = "PROCESSING"
      /\ \/ /\ ready' = ready /\ parserAt' \in {"group", "top"}
            /\ parserAt' = "group" => "prev" \in ready
            /\ \A t \in HalTasks : InFlight(t)' <=> InFlight(t)
         \/ /\ ready' = ready \union {"prev"} /\ parserAt' = "group"
            /\ \A t \in HalTasks : ~InFlight(t)'
  <2>1. CASE UNCHANGED groupVars /\ ready' = ready
    BY <1>1, <1>2, <2>1, GroupSame DEF ParserWaitsPrevious
  <2>2. CASE "prev" \notin ready /\ HndIn("PROC_DONE") # NoTask
    <3>1. PICK d \in HalTasks : d = HndIn("PROC_DONE") /\ taskStatus[d] = "PROC_DONE"
      BY <1>1, <2>2, HandleFound DEF HalTaskStatuses
    <3>2. /\ SetStatus(d, "IDLE") /\ taskInfo' = taskInfo
          /\ ready' = ready \union {"prev"} /\ parserAt' = "group"
      BY <2>2, <3>1 DEF ParserWaitsPrevious
    <3>3. /\ Lists' /\ taskStatus'[d] = "IDLE" /\ ~InFlight(d)' /\ ~InHardware(d)'
          /\ \A u \in HalTasks \ {d} :
                /\ taskStatus'[u] = taskStatus[u]
                /\ InHardware(u)' <=> InHardware(u)
                /\ InFlight(u)' <=> InFlight(u)
      BY <1>1, <3>2, TaskIdled, Zenon
    <3>4. InFlight(d) /\ ~InHardware(d)
      BY <3>1 DEF InFlight, InHardware
    <3>5. \A u \in HalTasks \ {d} : ~InFlight(u)
      BY <1>1, <3>4, Zenon DEF OneInFlight
    <3> QED BY <1>1, <1>2, <3>1, <3>2, <3>3, <3>4, <3>5
  <2> QED BY <2>1, <2>2 DEF ParserWaitsPrevious
<1>4. UserTypes' /\ BufferTypes' /\ Commits'
  BY <1>1, <1>2, SameGroup
     DEF ParserWaitsPrevious, UserTypes, UserSteps, userVars, BufferTypes, outVars,
         Commits
<1>5. SlotTypes'
  BY <1>1, <1>2, <1>3, SlotParts, SlotPartsNext, SameGroup
     DEF ParserWaitsPrevious, slotVars
<1>6. ThreadTypes'
  BY <1>1, <1>2, <1>3
     DEF ParserWaitsPrevious, ThreadTypes, ParserSteps, HalSteps, Status, Waits,
         parserVars, halVars
<1>7. ResetHandshake'
  BY <1>1, <1>2, <1>3 DEF ParserWaitsPrevious, ResetHandshake, ResetSteps, userVars
<1>8. TasksInHand'
  BY <1>1, <1>2, <1>3
     DEF ParserWaitsPrevious, TasksInHand, HndSteps, InfoSteps, EosSteps, DecodeSteps,
         AfterSteps, parserVars, halVars, ThreadTypes
<1>9. StatusBits'
  BY <1>1, <1>2, <1>3
     DEF ParserWaitsPrevious, StatusBits, PictureSteps, AloneSteps, parserVars
<1>10. PictureInHand'
  BY <1>1, <1>2, <1>3
     DEF ParserWaitsPrevious, PictureInHand, parserVars, slotVars, StatusBits,
         PictureSteps, AloneSteps
<1>11. OneInFlight'
  BY <1>1, <1>2, <1>3
     DEF ParserWaitsPrevious, OneInFlight, parserVars, StatusBits, PictureSteps,
         AloneSteps
<1>12. TasksSent'
  BY <1>1, <1>2, <1>3 DEF ParserWaitsPrevious, TasksSent, halVars
<1>13. FormatsKnown'
  BY <1>1, <1>2, <1>3
     DEF ParserWaitsPrevious, FormatsKnown, parserVars, slotVars, StatusBits,
         PictureSteps, AloneSteps
<1>14. PacketSlotsKept'
  BY <1>1, <1>2, <1>3
     DEF ParserWaitsPrevious, PacketSlotsKept, PacketSlotsOwned, parserVars, halVars
<1> QED BY <1>3, <1>4, <1>5, <1>6, <1>7, <1>8, <1>9, <1>10, <1>11, <1>12, <1>13, <1>14,
      TypePartsNext DEF IInv

(* A buffer must be unused.                                                *)
LEMMA ParserChecksGroupStep ==
    ASSUME IInv, ~aborted, ParserChecksGroup
    PROVE  IInv'
<1>1. /\ Lists /\ taskInfo \in [HalTasks -> Infos]
      /\ SlotTypes /\ UserTypes /\ BufferTypes /\ ThreadTypes
      /\ ResetHandshake /\ Commits /\ TasksInHand /\ StatusBits /\ PictureInHand
      /\ OneInFlight /\ TasksSent /\ FormatsKnown /\ PacketSlotsKept
  BY TypeParts DEF IInv
<1>2. /\ Stream' = Stream /\ Packets' = Packets /\ Formats' = Formats
      /\ Infos' = Infos /\ BufferCount' = BufferCount /\ ResetBound' = ResetBound
      /\ scenario' = scenario
  <2>1. scenario' = scenario
    BY DEF ParserChecksGroup, ParserLocal, userVars
  <2> QED BY <2>1, SameScenario
<1>3. /\ Lists' /\ taskInfo' \in [HalTasks -> Infos']
      /\ taskInfo' = taskInfo /\ taskStatus' = taskStatus
      /\ \A t : (InHardware(t)' <=> InHardware(t)) /\ (InFlight(t)' <=> InFlight(t))
  <2>1. UNCHANGED groupVars
    BY DEF ParserChecksGroup, ParserLocal, groupVars
  <2> QED BY <1>1, <1>2, <2>1, GroupSame
<1>4. /\ UserTypes' /\ BufferTypes' /\ Commits' /\ OneInFlight'
      /\ TasksSent' /\ FormatsKnown' /\ PacketSlotsKept'
  BY <1>1, <1>2, <1>3, SameGroup
     DEF ParserChecksGroup, ParserLocal, UserTypes, UserSteps, userVars, BufferTypes,
         outVars, Commits, OneInFlight, parserVars, TasksSent, halVars, FormatsKnown,
         slotVars, PacketSlotsKept, PacketSlotsOwned
<1>5. SlotTypes'
  BY <1>1, <1>2, <1>3, SlotParts, SlotPartsNext, SameGroup
     DEF ParserChecksGroup, ParserLocal, slotVars
<1>6. ThreadTypes'
  BY <1>1, <1>2, <1>3
     DEF ParserChecksGroup, ParserLocal, ThreadTypes, ParserSteps, HalSteps, Status,
         Waits, parserVars, halVars
<1>7. ResetHandshake'
  BY <1>1, <1>2, <1>3
     DEF ParserChecksGroup, ParserLocal, ResetHandshake, ResetSteps, userVars
<1>8. TasksInHand'
  BY <1>1, <1>2, <1>3
     DEF ParserChecksGroup, ParserLocal, TasksInHand, HndSteps, InfoSteps, EosSteps,
         DecodeSteps, AfterSteps, parserVars, halVars, ThreadTypes
<1>9. StatusBits'
  BY <1>1, <1>2, <1>3
     DEF ParserChecksGroup, ParserLocal, StatusBits, PictureSteps, AloneSteps,
         parserVars
<1>10. PictureInHand'
  BY <1>1, <1>2, <1>3
     DEF ParserChecksGroup, ParserLocal, PictureInHand, parserVars, slotVars,
         StatusBits, PictureSteps, AloneSteps
<1> QED BY <1>3, <1>4, <1>5, <1>6, <1>7, <1>8, <1>9, <1>10, TypePartsNext DEF IInv

(* The picture is parsed: it gets a slot, or is an error.                  *)
LEMMA ParserParsesStep ==
    ASSUME IInv, ~aborted, ParserParses
    PROVE  IInv'
<1>1. /\ Lists /\ taskInfo \in [HalTasks -> Infos]
      /\ SlotTypes /\ UserTypes /\ BufferTypes /\ ThreadTypes
      /\ ResetHandshake /\ Commits /\ TasksInHand /\ StatusBits /\ PictureInHand
      /\ OneInFlight /\ TasksSent /\ FormatsKnown /\ PacketSlotsKept
  BY TypeParts DEF IInv
<1>2. /\ Stream' = Stream /\ Packets' = Packets /\ Formats' = Formats
      /\ Infos' = Infos /\ BufferCount' = BufferCount /\ ResetBound' = ResetBound
      /\ scenario' = scenario
  <2>1. scenario' = scenario
    BY DEF ParserParses, userVars
  <2> QED BY <2>1, SameScenario
<1>3. /\ Lists' /\ taskInfo' \in [HalTasks -> Infos']
      /\ taskInfo' = taskInfo /\ taskStatus' = taskStatus
      /\ \A t : (InHardware(t)' <=> InHardware(t)) /\ (InFlight(t)' <=> InFlight(t))
  <2>1. UNCHANGED groupVars
    BY DEF ParserParses, groupVars
  <2> QED BY <1>1, <1>2, <2>1, GroupSame
<1>4. /\ "curr" \in ready /\ "parsed" \notin ready /\ "prev" \in ready
      /\ cur \in Infos /\ cur.id \in Packets /\ cur.output = NoSlot /\ cur.valid
      /\ Stream[cur.id].fmt \in Formats
      /\ ready' = ready \union {"parsed"} /\ parserAt' = "change"
      /\ \A t \in HalTasks : ~InFlight(t) /\ ~InHardware(t)
  <2>1. /\ "curr" \in ready /\ "parsed" \notin ready /\ "prev" \in ready
        /\ cur \in Infos /\ cur.id \in Packets /\ cur.output = NoSlot /\ cur.valid
    BY <1>1 DEF ParserParses, StatusBits, PictureSteps, AloneSteps, PictureInHand, ThreadTypes
  <2>2. Stream[cur.id].fmt \in Formats
    BY <1>1, <2>1, StreamTypes DEF UserTypes
  <2>3. \A t \in HalTasks : ~InFlight(t) /\ ~InHardware(t)
    BY <1>1, <2>1 DEF OneInFlight, InFlight
  <2> QED BY <2>1, <2>2, <2>3 DEF ParserParses
<1>5. \/ /\ cur' = [cur EXCEPT !.valid = FALSE, !.output = NoSlot]
         /\ UNCHANGED <<slotVars, ref0, foundI, aborted>>
      \/ aborted' = TRUE /\ UNCHANGED <<slotVars, cur, ref0, foundI>>
      \/ \E out \in Slots :
            /\ slot' = ParsedSlots(out) /\ display' = Enqueued(display, out)
            /\ infoSet' = Stream[cur.id].fmt /\ infoChanged' \in BOOLEAN
            /\ ~infoChanged' => info = Stream[cur.id].fmt
            /\ cur' = [cur EXCEPT !.output = out, !.refer = Refer]
            /\ ref0' = out /\ foundI' = TRUE /\ UNCHANGED <<info, aborted>>
  <2>1. FreeSlots # {} => FirstFree \in Slots
    BY FirstFreeFound
  <2>2. infoChanged \in BOOLEAN
    BY <1>1, SlotParts
  <2> QED BY <2>1, <2>2 DEF ParserParses, Abort, DetectChange
<1>6. Refer \in Slots \union {NoSlot}
  BY <1>1 DEF Refer, ThreadTypes
<1>7. \/ /\ cur' \in Infos /\ cur'.infoChange = cur.infoChange /\ cur'.id = cur.id
         /\ cur'.input = cur.input
         /\ (cur'.valid <=> cur'.output # NoSlot)
         /\ cur'.output # NoSlot => infoSet' = Stream[cur.id].fmt
         /\ ~infoChanged' => info' = infoSet'
      \/ aborted' /\ UNCHANGED <<slotVars, cur>>
  <2>1. CASE cur' = [cur EXCEPT !.valid = FALSE, !.output = NoSlot] /\ UNCHANGED slotVars
    <3>1. /\ cur' \in Infos /\ cur'.infoChange = cur.infoChange /\ cur'.id = cur.id
          /\ cur'.input = cur.input /\ ~cur'.valid /\ cur'.output = NoSlot
      BY <1>4, <2>1 DEF Infos
    <3> QED BY <1>1, <2>1, <3>1 DEF FormatsKnown, slotVars
  <2>2. ASSUME NEW out \in Slots, cur' = [cur EXCEPT !.output = out, !.refer = Refer],
               infoSet' = Stream[cur.id].fmt, ~infoChanged' => info = Stream[cur.id].fmt,
               info' = info
        PROVE  /\ cur' \in Infos /\ cur'.infoChange = cur.infoChange /\ cur'.id = cur.id
               /\ cur'.input = cur.input
               /\ (cur'.valid <=> cur'.output # NoSlot)
               /\ cur'.output # NoSlot => infoSet' = Stream[cur.id].fmt
               /\ ~infoChanged' => info' = infoSet'
    <3>1. /\ cur' \in Infos /\ cur'.infoChange = cur.infoChange /\ cur'.id = cur.id
          /\ cur'.input = cur.input /\ cur'.valid /\ cur'.output = out
      BY <1>4, <1>6, <2>2 DEF Infos
    <3>2. out # NoSlot
      BY SlotsAssumption DEF Slots
    <3> QED BY <2>2, <3>1, <3>2
  <2> QED BY <1>5, <2>1, <2>2
<1>8. BufferTypes' /\ Commits' /\ TasksSent'
  BY <1>1, <1>2, <1>3, SameGroup
     DEF ParserParses, BufferTypes, userVars, outVars, Commits, TasksSent, halVars
<1>9. SlotTypes'
  <2>1. CASE UNCHANGED slotVars
    BY <1>1, <1>2, <2>1, SlotParts, SlotPartsNext, SameGroup DEF ParserParses, slotVars
  <2>2. ASSUME NEW out \in Slots, slot' = ParsedSlots(out), display' = Enqueued(display, out),
               infoSet' = Stream[cur.id].fmt, infoChanged' \in BOOLEAN, info' = info
        PROVE  SlotTypes'
    <3>1. ParsedSlots(out) \in [Slots -> SlotEntries]
      BY <1>1, <1>4, SlotParts, ParsedTypes
    <3>2. Enqueued(display, out) \in Seq(Slots)
      BY <1>1, SlotParts, EnqueuedTypes
    <3>3. SlotEntries' = SlotEntries
      BY <1>2, SameGroup DEF ParserParses
    <3> QED BY <1>1, <1>2, <1>4, <2>2, <3>1, <3>2, <3>3, SlotParts, SlotPartsNext
  <2> QED BY <1>5, <2>1, <2>2
<1>10. UserTypes'
  BY <1>1, <1>2, <1>3, <1>4, <1>5, <1>6, <1>7
     DEF ParserParses, UserTypes, UserSteps, userVars
<1>11. ThreadTypes'
  <2>1. cur' \in Infos
    BY <1>1, <1>7 DEF ThreadTypes
  <2>2. ref0' \in Slots \union {NoSlot} /\ foundI' \in BOOLEAN
    BY <1>1, <1>5 DEF ThreadTypes
  <2>3. ready' \subseteq Status /\ parserAt' \in ParserSteps
    BY <1>1, <1>4 DEF ThreadTypes, Status, ParserSteps
  <2> QED BY <1>1, <1>2, <2>1, <2>2, <2>3 DEF ParserParses, ThreadTypes, halVars
<1>12. ResetHandshake'
  BY <1>1, <1>2, <1>3, <1>4, <1>5, <1>6, <1>7
     DEF ParserParses, ResetHandshake, ResetSteps, userVars
<1>13. TasksInHand'
  BY <1>1, <1>2, <1>3, <1>4, <1>5, <1>6, <1>7
     DEF ParserParses, TasksInHand, HndSteps, InfoSteps, EosSteps, DecodeSteps,
         AfterSteps, parserVars, halVars, ThreadTypes
<1>14. StatusBits'
  BY <1>1, <1>2, <1>3, <1>4, <1>5, <1>6, <1>7
     DEF ParserParses, StatusBits, PictureSteps, AloneSteps, parserVars
<1>15. PictureInHand'
  BY <1>1, <1>2, <1>3, <1>4, <1>5, <1>6, <1>7
     DEF ParserParses, PictureInHand, parserVars, slotVars, StatusBits, PictureSteps,
         AloneSteps
<1>16. OneInFlight'
  BY <1>1, <1>2, <1>3, <1>4, <1>5, <1>6, <1>7
     DEF ParserParses, OneInFlight, parserVars, StatusBits, PictureSteps, AloneSteps
<1>17. FormatsKnown'
  BY <1>1, <1>2, <1>3, <1>4, <1>5, <1>6, <1>7
     DEF ParserParses, FormatsKnown, parserVars, slotVars, StatusBits, PictureSteps,
         AloneSteps
<1>18. PacketSlotsKept'
  BY <1>1, <1>2, <1>3, <1>4, <1>5, <1>6, <1>7
     DEF ParserParses, PacketSlotsKept, PacketSlotsOwned, parserVars, halVars
<1> QED BY <1>3, <1>8, <1>9, <1>10, <1>11, <1>12, <1>13, <1>14, <1>15, <1>16, <1>17,
      <1>18, TypePartsNext DEF IInv

(* An info change is sent.                                                 *)
LEMMA ParserAnnouncesChangeStep ==
    ASSUME IInv, ~aborted, ParserAnnouncesChange
    PROVE  IInv'
<1>1. /\ Lists /\ taskInfo \in [HalTasks -> Infos]
      /\ SlotTypes /\ UserTypes /\ BufferTypes /\ ThreadTypes
      /\ ResetHandshake /\ Commits /\ TasksInHand /\ StatusBits /\ PictureInHand
      /\ OneInFlight /\ TasksSent /\ FormatsKnown /\ PacketSlotsKept
  BY TypeParts DEF IInv
<1>2. /\ Stream' = Stream /\ Packets' = Packets /\ Formats' = Formats
      /\ Infos' = Infos /\ BufferCount' = BufferCount /\ ResetBound' = ResetBound
      /\ scenario' = scenario
  <2>1. scenario' = scenario
    BY DEF ParserAnnouncesChange, userVars
  <2> QED BY <2>1, SameScenario
<1>3. PICK h \in HalTasks : h = hnd /\ taskStatus[h] = "IDLE"
  BY <1>1 DEF ParserAnnouncesChange, TasksInHand, HndSteps, ThreadTypes
<1>4. PICK i \in Infos : /\ i = cur' /\ i.infoChange /\ i.id = cur.id /\ i.id \in Packets
                          /\ i.output = cur.output /\ i.valid = cur.valid /\ i.input = cur.input
  <2>1. cur.id \in Packets
    BY <1>1 DEF ParserAnnouncesChange, StatusBits, PictureInHand
  <2>2. cur \in Infos /\ cur' = [cur EXCEPT !.infoChange = TRUE]
    BY <1>1 DEF ParserAnnouncesChange, ThreadTypes
  <2>3. /\ cur' \in Infos /\ cur'.infoChange /\ cur'.id = cur.id
        /\ cur'.output = cur.output /\ cur'.valid = cur.valid /\ cur'.input = cur.input
    BY <2>2 DEF Infos
  <2> QED BY <2>1, <2>3
<1>5. /\ Lists' /\ taskInfo' \in [HalTasks -> Infos']
      /\ taskInfo' = [taskInfo EXCEPT ![h] = i]
      /\ taskStatus'[h] = "PROCESSING" /\ taskInfo'[h] = i
      /\ \A t \in HalTasks \ {h} :
            /\ taskStatus'[t] = taskStatus[t] /\ taskInfo'[t] = taskInfo[t]
            /\ (InHardware(t)' <=> InHardware(t)) /\ (InFlight(t)' <=> InFlight(t))
      /\ ~InFlight(h) /\ ~InHardware(h)
      /\ InHardware(h)' <=> i.valid /\ ~i.infoChange
      /\ InFlight(h)' <=> i.valid /\ ~i.infoChange
      /\ hnd' = NoTask /\ halTask' = halTask /\ halInfo' = halInfo
      /\ halAt' = IF halAt = "asleep" THEN "get" ELSE halAt
  <2>1. Send(i)
    BY <1>4 DEF ParserAnnouncesChange, Send
  <2> QED BY <1>1, <1>2, <1>3, <1>4, <2>1, TaskSent, Zenon
<1>6. UserTypes' /\ BufferTypes' /\ Commits'
  BY <1>1, <1>2, SameGroup
     DEF ParserAnnouncesChange, UserTypes, UserSteps, userVars, BufferTypes, outVars,
         Commits
<1>7. SlotTypes'
  BY <1>1, <1>2, <1>3, <1>4, <1>5, SlotParts, SlotPartsNext, SameGroup
     DEF ParserAnnouncesChange, slotVars
<1>8. ThreadTypes'
  BY <1>1, <1>2, <1>3, <1>4, <1>5
     DEF ParserAnnouncesChange, ThreadTypes, ParserSteps, HalSteps, Status, Waits,
         parserVars, halVars
<1>9. ResetHandshake'
  BY <1>1, <1>2, <1>3, <1>4, <1>5
     DEF ParserAnnouncesChange, ResetHandshake, ResetSteps, userVars
<1>10. TasksInHand'
  BY <1>1, <1>2, <1>3, <1>4, <1>5
     DEF ParserAnnouncesChange, TasksInHand, HndSteps, InfoSteps, EosSteps, DecodeSteps,
         AfterSteps, parserVars, halVars, ThreadTypes
<1>11. StatusBits'
  BY <1>1, <1>2, <1>3, <1>4, <1>5
     DEF ParserAnnouncesChange, StatusBits, PictureSteps, AloneSteps, parserVars
<1>12. PictureInHand'
  BY <1>1, <1>2, <1>3, <1>4, <1>5
     DEF ParserAnnouncesChange, PictureInHand, parserVars, slotVars, StatusBits,
         PictureSteps, AloneSteps
<1>13. OneInFlight'
  BY <1>1, <1>2, <1>3, <1>4, <1>5
     DEF ParserAnnouncesChange, OneInFlight, parserVars, StatusBits, PictureSteps,
         AloneSteps
<1>14. TasksSent'
  BY <1>1, <1>2, <1>3, <1>4, <1>5 DEF ParserAnnouncesChange, TasksSent, halVars
<1>15. FormatsKnown'
  BY <1>1, <1>2, <1>3, <1>4, <1>5
     DEF ParserAnnouncesChange, FormatsKnown, parserVars, slotVars, StatusBits,
         PictureSteps, AloneSteps
<1>16. PacketSlotsKept'
  BY <1>1, <1>2, <1>3, <1>4, <1>5
     DEF ParserAnnouncesChange, PacketSlotsKept, PacketSlotsOwned, parserVars, halVars
<1> QED BY <1>5, <1>6, <1>7, <1>8, <1>9, <1>10, <1>11, <1>12, <1>13, <1>14, <1>15,
      <1>16, TypePartsNext DEF IInv

(* The change is waited for.                                               *)
LEMMA ParserWaitsChangeStep ==
    ASSUME IInv, ~aborted, ParserWaitsChange
    PROVE  IInv'
<1>1. /\ Lists /\ taskInfo \in [HalTasks -> Infos]
      /\ SlotTypes /\ UserTypes /\ BufferTypes /\ ThreadTypes
      /\ ResetHandshake /\ Commits /\ TasksInHand /\ StatusBits /\ PictureInHand
      /\ OneInFlight /\ TasksSent /\ FormatsKnown /\ PacketSlotsKept
  BY TypeParts DEF IInv
<1>2. /\ Stream' = Stream /\ Packets' = Packets /\ Formats' = Formats
      /\ Infos' = Infos /\ BufferCount' = BufferCount /\ ResetBound' = ResetBound
      /\ scenario' = scenario
  <2>1. scenario' = scenario
    BY DEF ParserWaitsChange, ParserLocal, userVars
  <2> QED BY <2>1, SameScenario
<1>3. /\ Lists' /\ taskInfo' \in [HalTasks -> Infos']
      /\ taskInfo' = taskInfo /\ taskStatus' = taskStatus
      /\ \A t : (InHardware(t)' <=> InHardware(t)) /\ (InFlight(t)' <=> InFlight(t))
  <2>1. UNCHANGED groupVars
    BY DEF ParserWaitsChange, ParserLocal, groupVars
  <2> QED BY <1>1, <1>2, <2>1, GroupSame
<1>4. /\ UserTypes' /\ BufferTypes' /\ Commits' /\ OneInFlight'
      /\ TasksSent' /\ FormatsKnown' /\ PacketSlotsKept'
  BY <1>1, <1>2, <1>3, SameGroup
     DEF ParserWaitsChange, ParserLocal, UserTypes, UserSteps, userVars, BufferTypes,
         outVars, Commits, OneInFlight, parserVars, TasksSent, halVars, FormatsKnown,
         slotVars, PacketSlotsKept, PacketSlotsOwned
<1>5. SlotTypes'
  BY <1>1, <1>2, <1>3, SlotParts, SlotPartsNext, SameGroup
     DEF ParserWaitsChange, ParserLocal, slotVars
<1>6. ThreadTypes'
  BY <1>1, <1>2, <1>3
     DEF ParserWaitsChange, ParserLocal, ThreadTypes, ParserSteps, HalSteps, Status,
         Waits, parserVars, halVars
<1>7. ResetHandshake'
  BY <1>1, <1>2, <1>3
     DEF ParserWaitsChange, ParserLocal, ResetHandshake, ResetSteps, userVars
<1>8. TasksInHand'
  BY <1>1, <1>2, <1>3
     DEF ParserWaitsChange, ParserLocal, TasksInHand, HndSteps, InfoSteps, EosSteps,
         DecodeSteps, AfterSteps, parserVars, halVars, ThreadTypes
<1>9. StatusBits'
  BY <1>1, <1>2, <1>3
     DEF ParserWaitsChange, ParserLocal, StatusBits, PictureSteps, AloneSteps,
         parserVars
<1>10. PictureInHand'
  BY <1>1, <1>2, <1>3
     DEF ParserWaitsChange, ParserLocal, PictureInHand, parserVars, slotVars,
         StatusBits, PictureSteps, AloneSteps
<1> QED BY <1>3, <1>4, <1>5, <1>6, <1>7, <1>8, <1>9, <1>10, TypePartsNext DEF IInv

(* There is no change, or it is over.                                      *)
LEMMA ParserNeedsNoChangeStep ==
    ASSUME IInv, ~aborted, ParserNeedsNoChange
    PROVE  IInv'
<1>1. /\ Lists /\ taskInfo \in [HalTasks -> Infos]
      /\ SlotTypes /\ UserTypes /\ BufferTypes /\ ThreadTypes
      /\ ResetHandshake /\ Commits /\ TasksInHand /\ StatusBits /\ PictureInHand
      /\ OneInFlight /\ TasksSent /\ FormatsKnown /\ PacketSlotsKept
  BY TypeParts DEF IInv
<1>2. /\ Stream' = Stream /\ Packets' = Packets /\ Formats' = Formats
      /\ Infos' = Infos /\ BufferCount' = BufferCount /\ ResetBound' = ResetBound
      /\ scenario' = scenario
  <2>1. scenario' = scenario
    BY DEF ParserNeedsNoChange, ParserLocal, userVars
  <2> QED BY <2>1, SameScenario
<1>3. /\ Lists' /\ taskInfo' \in [HalTasks -> Infos']
      /\ taskInfo' = taskInfo /\ taskStatus' = taskStatus
      /\ \A t : (InHardware(t)' <=> InHardware(t)) /\ (InFlight(t)' <=> InFlight(t))
  <2>1. UNCHANGED groupVars
    BY DEF ParserNeedsNoChange, ParserLocal, groupVars
  <2> QED BY <1>1, <1>2, <2>1, GroupSame
<1>4. /\ cur' \in Infos /\ ~cur'.infoChange /\ cur'.id = cur.id
      /\ cur'.output = cur.output /\ cur'.valid = cur.valid /\ cur'.input = cur.input
  <2>1. cur \in Infos /\ cur' = [cur EXCEPT !.infoChange = FALSE]
    BY <1>1 DEF ParserNeedsNoChange, ThreadTypes
  <2> QED BY <2>1 DEF Infos
<1>5. /\ UserTypes' /\ BufferTypes' /\ Commits' /\ TasksSent'
  BY <1>1, <1>2, <1>3, SameGroup
     DEF ParserNeedsNoChange, ParserLocal, UserTypes, UserSteps, userVars, BufferTypes,
         outVars, Commits, TasksSent, halVars
<1>6. SlotTypes'
  BY <1>1, <1>2, <1>3, <1>4, SlotParts, SlotPartsNext, SameGroup
     DEF ParserNeedsNoChange, ParserLocal, slotVars
<1>7. ThreadTypes'
  BY <1>1, <1>2, <1>3, <1>4
     DEF ParserNeedsNoChange, ParserLocal, ThreadTypes, ParserSteps, HalSteps, Status,
         Waits, parserVars, halVars
<1>8. ResetHandshake'
  BY <1>1, <1>2, <1>3, <1>4
     DEF ParserNeedsNoChange, ParserLocal, ResetHandshake, ResetSteps, userVars
<1>9. TasksInHand'
  BY <1>1, <1>2, <1>3, <1>4
     DEF ParserNeedsNoChange, ParserLocal, TasksInHand, HndSteps, InfoSteps, EosSteps,
         DecodeSteps, AfterSteps, parserVars, halVars, ThreadTypes
<1>10. StatusBits'
  BY <1>1, <1>2, <1>3, <1>4
     DEF ParserNeedsNoChange, ParserLocal, StatusBits, PictureSteps, AloneSteps,
         parserVars
<1>11. PictureInHand'
  BY <1>1, <1>2, <1>3, <1>4
     DEF ParserNeedsNoChange, ParserLocal, PictureInHand, parserVars, slotVars,
         StatusBits, PictureSteps, AloneSteps
<1>12. OneInFlight'
  BY <1>1, <1>2, <1>3, <1>4
     DEF ParserNeedsNoChange, ParserLocal, OneInFlight, parserVars, StatusBits,
         PictureSteps, AloneSteps
<1>13. FormatsKnown'
  BY <1>1, <1>2, <1>3, <1>4
     DEF ParserNeedsNoChange, ParserLocal, FormatsKnown, parserVars, slotVars,
         StatusBits, PictureSteps, AloneSteps
<1>14. PacketSlotsKept'
  BY <1>1, <1>2, <1>3, <1>4
     DEF ParserNeedsNoChange, ParserLocal, PacketSlotsKept, PacketSlotsOwned,
         parserVars, halVars
<1> QED BY <1>3, <1>5, <1>6, <1>7, <1>8, <1>9, <1>10, <1>11, <1>12, <1>13, <1>14,
      TypePartsNext DEF IInv

(* A picture without slot is dropped, or tells the end of the stream.      *)
LEMMA ParserDropsStep ==
    ASSUME IInv, ~aborted, ParserDrops
    PROVE  IInv'
<1>1. /\ Lists /\ taskInfo \in [HalTasks -> Infos]
      /\ SlotTypes /\ UserTypes /\ BufferTypes /\ ThreadTypes
      /\ ResetHandshake /\ Commits /\ TasksInHand /\ StatusBits /\ PictureInHand
      /\ OneInFlight /\ TasksSent /\ FormatsKnown /\ PacketSlotsKept
  BY TypeParts DEF IInv
<1>2. /\ Stream' = Stream /\ Packets' = Packets /\ Formats' = Formats
      /\ Infos' = Infos /\ BufferCount' = BufferCount /\ ResetBound' = ResetBound
      /\ scenario' = scenario
  <2>1. scenario' = scenario
    BY DEF ParserDrops, userVars
  <2> QED BY <2>1, SameScenario
<1>3. PICK h \in HalTasks : h = hnd /\ taskStatus[h] = "IDLE"
  BY <1>1 DEF ParserDrops, TasksInHand, HndSteps, ThreadTypes
<1>4. PICK i \in Infos :
         /\ i = [cur EXCEPT !.infoChange = FALSE] /\ i.id \in Packets
         /\ ~i.valid /\ ~i.infoChange /\ i.eos = cur.eos
  <2>1. /\ "parsed" \in ready /\ "curr" \in ready /\ cur.output = NoSlot
        /\ cur.id \in Packets /\ ~cur.valid /\ cur \in Infos
    BY <1>1 DEF ParserDrops, StatusBits, PictureInHand, ThreadTypes
  <2> DEFINE c == [cur EXCEPT !.infoChange = FALSE]
  <2>2. c \in Infos /\ c.id \in Packets /\ ~c.valid /\ ~c.infoChange /\ c.eos = cur.eos
    BY <2>1 DEF Infos
  <2> QED BY <2>2
<1>5. \/ Send(i) /\ i.eos
      \/ SetStatus(h, "IDLE") /\ hnd' = NoTask /\ UNCHANGED <<taskInfo, halVars>>
  BY <1>3, <1>4 DEF ParserDrops
<1>6. /\ Lists' /\ taskInfo' \in [HalTasks -> Infos']
      /\ taskStatus'[h] = "PROCESSING" => taskInfo'[h].id \in Packets /\ taskInfo'[h].eos
      /\ taskStatus'[h] \in {"PROCESSING", "IDLE"}
      /\ \A t \in HalTasks \ {h} : taskStatus'[t] = taskStatus[t] /\ taskInfo'[t] = taskInfo[t]
      /\ \A t \in HalTasks :
            (InHardware(t)' <=> InHardware(t)) /\ (InFlight(t)' <=> InFlight(t))
      /\ ~InFlight(h) /\ ~InHardware(h)
      /\ hnd' = NoTask /\ halTask' = halTask /\ halInfo' = halInfo
      /\ halAt' \in {halAt, IF halAt = "asleep" THEN "get" ELSE halAt}
  <2>1. ~InFlight(h) /\ ~InHardware(h)
    BY <1>3 DEF InFlight, InHardware
  <2>2. CASE Send(i) /\ i.eos
    <3>1. /\ Lists' /\ taskInfo' \in [HalTasks -> Infos']
          /\ taskInfo' = [taskInfo EXCEPT ![h] = i]
          /\ taskStatus'[h] = "PROCESSING" /\ taskInfo'[h] = i
          /\ \A t \in HalTasks \ {h} :
                /\ taskStatus'[t] = taskStatus[t] /\ taskInfo'[t] = taskInfo[t]
                /\ (InHardware(t)' <=> InHardware(t)) /\ (InFlight(t)' <=> InFlight(t))
          /\ ~InFlight(h) /\ ~InHardware(h)
          /\ InHardware(h)' <=> i.valid /\ ~i.infoChange
          /\ InFlight(h)' <=> i.valid /\ ~i.infoChange
          /\ hnd' = NoTask /\ halTask' = halTask /\ halInfo' = halInfo
          /\ halAt' = IF halAt = "asleep" THEN "get" ELSE halAt
      BY <1>1, <1>2, <1>3, <1>4, <2>2, TaskSent, Zenon
    <3> QED BY <1>4, <2>2, <3>1
  <2>3. CASE SetStatus(h, "IDLE") /\ hnd' = NoTask /\ UNCHANGED <<taskInfo, halVars>>
    <3>1. /\ Lists' /\ taskStatus'[h] = "IDLE" /\ ~InFlight(h)' /\ ~InHardware(h)'
          /\ \A u \in HalTasks \ {h} :
                /\ taskStatus'[u] = taskStatus[u]
                /\ InHardware(u)' <=> InHardware(u)
                /\ InFlight(u)' <=> InFlight(u)
      BY <1>1, <2>3, TaskIdled, Zenon
    <3> QED BY <1>1, <1>2, <2>1, <2>3, <3>1 DEF halVars
  <2> QED BY <1>5, <2>2, <2>3
<1>7. BufferTypes' /\ Commits'
  BY <1>1, <1>2, SameGroup DEF ParserDrops, BufferTypes, userVars, outVars, Commits
<1>8. SlotTypes'
  BY <1>1, <1>2, <1>3, <1>4, <1>5, <1>6, SlotParts, SlotPartsNext, SameGroup
     DEF ParserDrops, slotVars
<1>9. UserTypes'
  BY <1>1, <1>2, <1>3, <1>4, <1>5, <1>6 DEF ParserDrops, UserTypes, UserSteps, userVars
<1>10. ThreadTypes'
  <2>1. cur' \in Infos /\ cur' = NoInfo
    BY NoInfoTyped DEF ParserDrops
  <2> QED BY <1>1, <1>2, <1>6, <2>1
          DEF ParserDrops, ThreadTypes, ParserSteps, HalSteps, Status, Waits
<1>11. ResetHandshake'
  BY <1>1, <1>2, <1>3, <1>4, <1>5, <1>6
     DEF ParserDrops, ResetHandshake, ResetSteps, userVars
<1>12. TasksInHand'
  BY <1>1, <1>2, <1>3, <1>4, <1>5, <1>6
     DEF ParserDrops, TasksInHand, HndSteps, InfoSteps, EosSteps, DecodeSteps,
         AfterSteps, parserVars, halVars, ThreadTypes
<1>13. StatusBits'
  BY <1>1, <1>2, <1>3, <1>4, <1>5, <1>6
     DEF ParserDrops, StatusBits, PictureSteps, AloneSteps, parserVars
<1>14. PictureInHand'
  <2>1. cur' = NoInfo /\ ready' = ready \ {"infoGen", "copied", "curr", "parsed"}
    BY DEF ParserDrops
  <2> QED BY <2>1 DEF ParserDrops, PictureInHand, NoInfo
<1>15. OneInFlight'
  BY <1>1, <1>2, <1>3, <1>4, <1>5, <1>6
     DEF ParserDrops, OneInFlight, parserVars, StatusBits, PictureSteps, AloneSteps
<1>16. TasksSent'
  BY <1>1, <1>2, <1>3, <1>4, <1>5, <1>6 DEF ParserDrops, TasksSent, halVars
<1>17. FormatsKnown'
  BY <1>1, <1>2, <1>3, <1>4, <1>5, <1>6
     DEF ParserDrops, FormatsKnown, parserVars, slotVars, StatusBits, PictureSteps,
         AloneSteps
<1>18. PacketSlotsKept'
  BY <1>1, <1>2, <1>3, <1>4, <1>5, <1>6
     DEF ParserDrops, PacketSlotsKept, PacketSlotsOwned, parserVars, halVars,
         StatusBits, PictureSteps, AloneSteps
<1> QED BY <1>6, <1>7, <1>8, <1>9, <1>10, <1>11, <1>12, <1>13, <1>14, <1>15, <1>16,
      <1>17, <1>18, TypePartsNext DEF IInv

(* The picture is sent to the hardware.                                    *)
LEMMA ParserSubmitsStep ==
    ASSUME IInv, ~aborted, ParserSubmits
    PROVE  IInv'
<1>1. /\ Lists /\ taskInfo \in [HalTasks -> Infos]
      /\ SlotTypes /\ UserTypes /\ BufferTypes /\ ThreadTypes
      /\ ResetHandshake /\ Commits /\ TasksInHand /\ StatusBits /\ PictureInHand
      /\ OneInFlight /\ TasksSent /\ FormatsKnown /\ PacketSlotsKept
  BY TypeParts DEF IInv
<1>2. /\ Stream' = Stream /\ Packets' = Packets /\ Formats' = Formats
      /\ Infos' = Infos /\ BufferCount' = BufferCount /\ ResetBound' = ResetBound
      /\ scenario' = scenario
  <2>1. scenario' = scenario
    BY DEF ParserSubmits, userVars
  <2> QED BY <2>1, SameScenario
<1>3. PICK h \in HalTasks : h = hnd /\ taskStatus[h] = "IDLE"
  BY <1>1 DEF ParserSubmits, TasksInHand, HndSteps, ThreadTypes
<1>4. PICK i \in Infos :
         /\ i = cur /\ i.output \in Slots /\ i.id \in Packets /\ i.valid /\ ~i.infoChange
         /\ infoSet = Stream[i.id].fmt /\ ~infoChanged
         /\ "parsed" \in ready /\ "prev" \in ready /\ "copied" \in ready
         /\ \A t \in HalTasks : ~InFlight(t) /\ ~InHardware(t)
  <2>1. /\ "parsed" \in ready /\ "prev" \in ready /\ "copied" \in ready
        /\ cur \in Infos /\ cur.output \in Slots /\ cur.id \in Packets /\ cur.valid
        /\ ~cur.infoChange /\ ~infoChanged
    BY <1>1 DEF ParserSubmits, StatusBits, PictureInHand, ThreadTypes, Infos
  <2>2. infoSet = Stream[cur.id].fmt
    BY <1>1, <2>1, SlotsAssumption DEF FormatsKnown, Slots
  <2>3. \A t \in HalTasks : ~InFlight(t) /\ ~InHardware(t)
    BY <1>1, <2>1 DEF OneInFlight, InFlight
  <2> QED BY <2>1, <2>2, <2>3
<1>5. \/ UNCHANGED <<hnd, cur, ready, slot, extraRef, halVars, groupVars>>
      \/ /\ Send(i) /\ ready' = ready \ {"copied", "curr", "parsed", "prev"} /\ cur' = NoInfo
         /\ \E b \in Buffers : /\ slot' = [slot EXCEPT ![i.output].buffer = b]
                               /\ extraRef' = extraRef \union {b}
  <2>1. FreeBuffers \subseteq Buffers
    BY <1>1 DEF FreeBuffers, Buffers, Committed, Commits
  <2> QED BY <1>4, <2>1 DEF ParserSubmits
<1>6. /\ Lists' /\ taskInfo' \in [HalTasks -> Infos']
      /\ \A t \in HalTasks \ {h} : taskStatus'[t] = taskStatus[t] /\ taskInfo'[t] = taskInfo[t]
      /\ \A t \in HalTasks \ {h} : ~InHardware(t)' /\ ~InFlight(t)'
      /\ ~InFlight(h) /\ ~InHardware(h)
      /\ halTask' = halTask /\ halInfo' = halInfo
      /\ \/ /\ UNCHANGED <<cur, ready, hnd, halAt, slot, extraRef, taskStatus, taskInfo>>
            /\ ~InHardware(h)' /\ ~InFlight(h)'
         \/ /\ ready' = ready \ {"copied", "curr", "parsed", "prev"} /\ cur' = NoInfo
            /\ taskStatus'[h] = "PROCESSING" /\ taskInfo'[h] = i
            /\ InHardware(h)' /\ InFlight(h)'
            /\ hnd' = NoTask /\ halAt' = IF halAt = "asleep" THEN "get" ELSE halAt
  <2>1. ~InFlight(h) /\ ~InHardware(h)
    BY <1>3 DEF InFlight, InHardware
  <2>2. CASE Send(i) /\ ready' = ready \ {"copied", "curr", "parsed", "prev"} /\ cur' = NoInfo
    <3>1. /\ Lists' /\ taskInfo' \in [HalTasks -> Infos']
          /\ taskInfo' = [taskInfo EXCEPT ![h] = i]
          /\ taskStatus'[h] = "PROCESSING" /\ taskInfo'[h] = i
          /\ \A t \in HalTasks \ {h} :
                /\ taskStatus'[t] = taskStatus[t] /\ taskInfo'[t] = taskInfo[t]
                /\ (InHardware(t)' <=> InHardware(t)) /\ (InFlight(t)' <=> InFlight(t))
          /\ ~InFlight(h) /\ ~InHardware(h)
          /\ InHardware(h)' <=> i.valid /\ ~i.infoChange
          /\ InFlight(h)' <=> i.valid /\ ~i.infoChange
          /\ hnd' = NoTask /\ halTask' = halTask /\ halInfo' = halInfo
          /\ halAt' = IF halAt = "asleep" THEN "get" ELSE halAt
      BY <1>1, <1>2, <1>3, <1>4, <2>2, TaskSent, Zenon
    <3> QED BY <1>4, <2>2, <3>1
  <2>3. CASE UNCHANGED <<hnd, cur, ready, slot, extraRef, halVars, groupVars>>
    <3>1. /\ Lists' /\ taskInfo' = taskInfo /\ taskStatus' = taskStatus
          /\ \A t : (InHardware(t)' <=> InHardware(t)) /\ (InFlight(t)' <=> InFlight(t))
      BY <1>1, <2>3, GroupSame
    <3> QED BY <1>1, <1>2, <1>4, <2>1, <2>3, <3>1 DEF halVars
  <2> QED BY <1>5, <2>2, <2>3
<1>7. UserTypes' /\ Commits'
  BY <1>1, <1>2 DEF ParserSubmits, UserTypes, UserSteps, userVars, Commits
<1>8. SlotTypes'
  <2>1. slot \in [Slots -> SlotEntries]
    BY <1>1, SlotParts
  <2>2. ASSUME NEW b \in Buffers
        PROVE  [slot EXCEPT ![i.output].buffer = b] \in [Slots -> SlotEntries]
    BY <1>4, <2>1 DEF SlotEntries
  <2>3. slot' \in [Slots -> SlotEntries]
    BY <1>5, <2>1, <2>2
  <2> QED BY <1>1, <1>2, <2>3, SlotParts, SlotPartsNext, SameGroup DEF ParserSubmits
<1>9. BufferTypes'
  <2>1. extraRef' \subseteq Buffers
    BY <1>1, <1>5 DEF BufferTypes
  <2> QED BY <1>1, <1>2, <2>1, SameGroup DEF ParserSubmits, BufferTypes, userVars
<1>10. ThreadTypes'
  <2>1. cur' \in Infos
    BY <1>1, <1>6, NoInfoTyped DEF ThreadTypes
  <2> QED BY <1>1, <1>2, <1>6, <2>1
          DEF ParserSubmits, ThreadTypes, ParserSteps, HalSteps, Status, Waits
<1>11. ResetHandshake'
  BY <1>1, <1>2, <1>3, <1>4, <1>5, <1>6
     DEF ParserSubmits, ResetHandshake, ResetSteps, userVars
<1>12. TasksInHand'
  BY <1>1, <1>2, <1>3, <1>4, <1>5, <1>6
     DEF ParserSubmits, TasksInHand, HndSteps, InfoSteps, EosSteps, DecodeSteps,
         AfterSteps, parserVars, halVars, ThreadTypes
<1>13. StatusBits'
  BY <1>1, <1>2, <1>3, <1>4, <1>5, <1>6
     DEF ParserSubmits, StatusBits, PictureSteps, AloneSteps, parserVars
<1>14. PictureInHand'
  BY <1>1, <1>2, <1>4, <1>6
     DEF ParserSubmits, PictureInHand, StatusBits, NoInfo
<1>15. OneInFlight'
  BY <1>1, <1>2, <1>3, <1>4, <1>5, <1>6
     DEF ParserSubmits, OneInFlight, parserVars, StatusBits, PictureSteps, AloneSteps
<1>16. TasksSent'
  BY <1>1, <1>2, <1>3, <1>4, <1>5, <1>6 DEF ParserSubmits, TasksSent, halVars
<1>17. FormatsKnown'
  BY <1>1, <1>2, <1>3, <1>4, <1>5, <1>6
     DEF ParserSubmits, FormatsKnown, parserVars, slotVars, StatusBits, PictureSteps,
         AloneSteps
<1>18. PacketSlotsKept'
  <2>1. halAt # "done"
    BY <1>1, <1>4 DEF TasksInHand, DecodeSteps, InHardware, ThreadTypes
  <2>2. \A j \in packetSlots : i.input = j
    BY <1>1, <1>4 DEF PacketSlotsKept, PacketSlotsOwned
  <2>3. packetSlots' = packetSlots /\ halAt' # "done"
    BY <1>6, <2>1 DEF ParserSubmits
  <2>4. \A j \in packetSlots : \/ "copied" \in ready' /\ cur'.input = j
                               \/ InHardware(h)' /\ taskInfo'[h].input = j
    BY <1>4, <1>6, <2>2
  <2> QED BY <2>3, <2>4 DEF PacketSlotsKept, PacketSlotsOwned
<1> QED BY <1>6, <1>7, <1>8, <1>9, <1>10, <1>11, <1>12, <1>13, <1>14, <1>15, <1>16,
      <1>17, <1>18, TypePartsNext DEF IInv

(* A reset takes the previous task back.                                   *)
LEMMA ResetTakesPreviousStep ==
    ASSUME IInv, ~aborted, ResetTakesPrevious
    PROVE  IInv'
<1>1. /\ Lists /\ taskInfo \in [HalTasks -> Infos]
      /\ SlotTypes /\ UserTypes /\ BufferTypes /\ ThreadTypes
      /\ ResetHandshake /\ Commits /\ TasksInHand /\ StatusBits /\ PictureInHand
      /\ OneInFlight /\ TasksSent /\ FormatsKnown /\ PacketSlotsKept
  BY TypeParts DEF IInv
<1>2. /\ Stream' = Stream /\ Packets' = Packets /\ Formats' = Formats
      /\ Infos' = Infos /\ BufferCount' = BufferCount /\ ResetBound' = ResetBound
      /\ scenario' = scenario
  <2>1. scenario' = scenario
    BY DEF ResetTakesPrevious, userVars
  <2> QED BY <2>1, SameScenario
<1>3. /\ Lists' /\ taskInfo' = taskInfo /\ taskInfo' \in [HalTasks -> Infos']
      /\ \A t \in HalTasks :
            /\ InHardware(t)' <=> InHardware(t)
            /\ taskStatus[t] # "PROC_DONE" => taskStatus'[t] = taskStatus[t]
            /\ taskStatus'[t] = "PROCESSING" <=> taskStatus[t] = "PROCESSING"
            /\ ~InFlight(t)'
      /\ ready' = ready \union {"prev"}
  <2>1. CASE "prev" \in ready
    <3>1. UNCHANGED groupVars
      BY <2>1 DEF ResetTakesPrevious
    <3>2. \A t \in HalTasks : ~InFlight(t)
      BY <1>1, <2>1 DEF OneInFlight
    <3> QED BY <1>1, <1>2, <3>1, <3>2, GroupSame DEF ResetTakesPrevious
  <2>2. CASE "prev" \notin ready
    <3>1. PICK d \in HalTasks : d = HndIn("PROC_DONE") /\ taskStatus[d] = "PROC_DONE"
      BY <1>1, <2>2, HandleFound DEF HalTaskStatuses, ResetTakesPrevious
    <3>2. /\ SetStatus(d, "IDLE") /\ taskInfo' = taskInfo /\ ready' = ready \union {"prev"}
      BY <2>2, <3>1 DEF ResetTakesPrevious
    <3>3. /\ Lists' /\ taskStatus'[d] = "IDLE" /\ ~InFlight(d)' /\ ~InHardware(d)'
          /\ \A u \in HalTasks \ {d} :
                /\ taskStatus'[u] = taskStatus[u]
                /\ InHardware(u)' <=> InHardware(u)
                /\ InFlight(u)' <=> InFlight(u)
      BY <1>1, <3>2, TaskIdled, Zenon
    <3>4. InFlight(d) /\ ~InHardware(d)
      BY <3>1 DEF InFlight, InHardware
    <3>5. \A u \in HalTasks \ {d} : ~InFlight(u)
      BY <1>1, <3>4, Zenon DEF OneInFlight
    <3> QED BY <1>1, <1>2, <3>1, <3>2, <3>3, <3>4, <3>5
  <2> QED BY <2>1, <2>2
<1>4. UserTypes' /\ BufferTypes' /\ Commits'
  BY <1>1, <1>2, SameGroup
     DEF ResetTakesPrevious, UserTypes, UserSteps, userVars, BufferTypes, outVars,
         Commits
<1>5. SlotTypes'
  BY <1>1, <1>2, <1>3, SlotParts, SlotPartsNext, SameGroup
     DEF ResetTakesPrevious, slotVars
<1>6. ThreadTypes'
  BY <1>1, <1>2, <1>3
     DEF ResetTakesPrevious, ThreadTypes, ParserSteps, HalSteps, Status, Waits,
         parserVars, halVars
<1>7. ResetHandshake'
  BY <1>1, <1>2, <1>3 DEF ResetTakesPrevious, ResetHandshake, ResetSteps, userVars
<1>8. TasksInHand'
  BY <1>1, <1>2, <1>3
     DEF ResetTakesPrevious, TasksInHand, HndSteps, InfoSteps, EosSteps, DecodeSteps,
         AfterSteps, parserVars, halVars, ThreadTypes
<1>9. StatusBits'
  BY <1>1, <1>2, <1>3
     DEF ResetTakesPrevious, StatusBits, PictureSteps, AloneSteps, parserVars
<1>10. PictureInHand'
  BY <1>1, <1>2, <1>3
     DEF ResetTakesPrevious, PictureInHand, parserVars, slotVars, StatusBits,
         PictureSteps, AloneSteps
<1>11. OneInFlight'
  BY <1>1, <1>2, <1>3
     DEF ResetTakesPrevious, OneInFlight, parserVars, StatusBits, PictureSteps,
         AloneSteps
<1>12. TasksSent'
  BY <1>1, <1>2, <1>3 DEF ResetTakesPrevious, TasksSent, halVars
<1>13. FormatsKnown'
  BY <1>1, <1>2, <1>3
     DEF ResetTakesPrevious, FormatsKnown, parserVars, slotVars, StatusBits,
         PictureSteps, AloneSteps
<1>14. PacketSlotsKept'
  BY <1>1, <1>2, <1>3
     DEF ResetTakesPrevious, PacketSlotsKept, PacketSlotsOwned, parserVars, halVars
<1> QED BY <1>3, <1>4, <1>5, <1>6, <1>7, <1>8, <1>9, <1>10, <1>11, <1>12, <1>13, <1>14,
      TypePartsNext DEF IInv

(* The codec is reset and the picture in hand given up.                    *)
LEMMA ResetClearsStep ==
    ASSUME IInv, ~aborted, ResetClears
    PROVE  IInv'
<1>1. /\ Lists /\ taskInfo \in [HalTasks -> Infos]
      /\ SlotTypes /\ UserTypes /\ BufferTypes /\ ThreadTypes
      /\ ResetHandshake /\ Commits /\ TasksInHand /\ StatusBits /\ PictureInHand
      /\ OneInFlight /\ TasksSent /\ FormatsKnown /\ PacketSlotsKept
  BY TypeParts DEF IInv
<1>2. /\ Stream' = Stream /\ Packets' = Packets /\ Formats' = Formats
      /\ Infos' = Infos /\ BufferCount' = BufferCount /\ ResetBound' = ResetBound
      /\ scenario' = scenario
  <2>1. scenario' = scenario
    BY DEF ResetClears, userVars
  <2> QED BY <2>1, SameScenario
<1>3. /\ Lists' /\ taskInfo' \in [HalTasks -> Infos']
      /\ taskInfo' = taskInfo /\ taskStatus' = taskStatus
      /\ \A t : (InHardware(t)' <=> InHardware(t)) /\ (InFlight(t)' <=> InFlight(t))
  <2>1. UNCHANGED groupVars
    BY DEF ResetClears, groupVars
  <2> QED BY <1>1, <1>2, <2>1, GroupSame
<1>4. /\ BufferTypes' /\ Commits' /\ OneInFlight' /\ TasksSent'
      /\ FormatsKnown' /\ PacketSlotsKept'
  BY <1>1, <1>2, <1>3, SameGroup
     DEF ResetClears, BufferTypes, userVars, outVars, Commits, OneInFlight, parserVars,
         TasksSent, halVars, FormatsKnown, slotVars, PacketSlotsKept, PacketSlotsOwned
<1>5. SlotTypes'
  <2>1. /\ slot \in [Slots -> SlotEntries] /\ display \in Seq(Slots)
        /\ info \in Formats /\ infoSet \in Formats /\ infoChanged \in BOOLEAN
    BY <1>1, SlotParts
  <2>2. slot' \in [Slots -> SlotEntries]
    BY <2>1, ResetTypes DEF ResetClears
  <2>3. display' \in Seq(Slots)
    <3>1. cur.output \in Slots \union {NoSlot}
      BY <1>1 DEF ThreadTypes, Infos
    <3>2. "info_change" \in waits /\ cur.output # NoSlot =>
             Unqueued(display, cur.output) \in Seq(Slots)
      BY <2>1, <3>1, EnqueuedTypes
    <3> QED BY <2>1, <3>1, <3>2 DEF ResetClears
  <2> QED BY <1>2, <2>1, <2>2, <2>3, SlotPartsNext, SameGroup DEF ResetClears
<1>6. UserTypes'
  BY <1>1, <1>2, <1>3 DEF ResetClears, UserTypes, UserSteps, userVars, Abort
<1>7. ThreadTypes'
  BY <1>1, <1>2, <1>3
     DEF ResetClears, ThreadTypes, ParserSteps, HalSteps, Status, Waits, parserVars,
         halVars
<1>8. ResetHandshake'
  BY <1>1, <1>2, <1>3 DEF ResetClears, ResetHandshake, ResetSteps, userVars
<1>9. TasksInHand'
  BY <1>1, <1>2, <1>3
     DEF ResetClears, TasksInHand, HndSteps, InfoSteps, EosSteps, DecodeSteps,
         AfterSteps, parserVars, halVars, ThreadTypes
<1>10. StatusBits'
  BY <1>1, <1>2, <1>3 DEF ResetClears, StatusBits, PictureSteps, AloneSteps, parserVars
<1>11. PictureInHand'
  BY <1>1, <1>2, <1>3
     DEF ResetClears, PictureInHand, parserVars, slotVars, StatusBits, PictureSteps,
         AloneSteps
<1> QED BY <1>3, <1>4, <1>5, <1>6, <1>7, <1>8, <1>9, <1>10, <1>11,
      TypePartsNext DEF IInv

(* A picture of the display queue is dropped.                              *)
LEMMA ResetDrainsStep ==
    ASSUME IInv, ~aborted, ResetDrains
    PROVE  IInv'
<1>1. /\ Lists /\ taskInfo \in [HalTasks -> Infos]
      /\ SlotTypes /\ UserTypes /\ BufferTypes /\ ThreadTypes
      /\ ResetHandshake /\ Commits /\ TasksInHand /\ StatusBits /\ PictureInHand
      /\ OneInFlight /\ TasksSent /\ FormatsKnown /\ PacketSlotsKept
  BY TypeParts DEF IInv
<1>2. /\ Stream' = Stream /\ Packets' = Packets /\ Formats' = Formats
      /\ Infos' = Infos /\ BufferCount' = BufferCount /\ ResetBound' = ResetBound
      /\ scenario' = scenario
  <2>1. scenario' = scenario
    BY DEF ResetDrains, userVars
  <2> QED BY <2>1, SameScenario
<1>3. /\ Lists' /\ taskInfo' \in [HalTasks -> Infos']
      /\ taskInfo' = taskInfo /\ taskStatus' = taskStatus
      /\ \A t : (InHardware(t)' <=> InHardware(t)) /\ (InFlight(t)' <=> InFlight(t))
  <2>1. UNCHANGED groupVars
    BY DEF ResetDrains, groupVars
  <2> QED BY <1>1, <1>2, <2>1, GroupSame
<1>4. slot' \in [Slots -> SlotEntries] /\ display' \in Seq(Slots)
  BY <1>1, TakenTypes, SlotParts DEF ResetDrains
<1>5. /\ UserTypes' /\ ThreadTypes' /\ ResetHandshake' /\ Commits'
      /\ TasksInHand' /\ StatusBits' /\ PictureInHand' /\ OneInFlight'
      /\ TasksSent' /\ FormatsKnown' /\ PacketSlotsKept'
  BY <1>1, <1>2, <1>3
     DEF ResetDrains, TakeDisplayed, UserTypes, UserSteps, userVars, ThreadTypes,
         ParserSteps, HalSteps, Status, Waits, parserVars, halVars, ResetHandshake,
         ResetSteps, Commits, TasksInHand, HndSteps, InfoSteps, EosSteps, DecodeSteps,
         AfterSteps, StatusBits, PictureSteps, AloneSteps, PictureInHand, slotVars,
         OneInFlight, TasksSent, FormatsKnown, PacketSlotsKept, PacketSlotsOwned
<1>6. SlotTypes'
  BY <1>1, <1>2, <1>3, <1>4, SlotParts, SlotPartsNext, SameGroup
     DEF ResetDrains, TakeDisplayed, slotVars
<1>7. BufferTypes'
  BY <1>1, <1>2, <1>3, <1>4, SameGroup
     DEF ResetDrains, TakeDisplayed, BufferTypes, userVars, outVars
<1> QED BY <1>3, <1>5, <1>6, <1>7, TypePartsNext DEF IInv

(* The reset is over.                                                      *)
LEMMA ResetEndsStep ==
    ASSUME IInv, ~aborted, ResetEnds
    PROVE  IInv'
<1>1. /\ Lists /\ taskInfo \in [HalTasks -> Infos]
      /\ SlotTypes /\ UserTypes /\ BufferTypes /\ ThreadTypes
      /\ ResetHandshake /\ Commits /\ TasksInHand /\ StatusBits /\ PictureInHand
      /\ OneInFlight /\ TasksSent /\ FormatsKnown /\ PacketSlotsKept
  BY TypeParts DEF IInv
<1>2. /\ Stream' = Stream /\ Packets' = Packets /\ Formats' = Formats
      /\ Infos' = Infos /\ BufferCount' = BufferCount /\ ResetBound' = ResetBound
      /\ scenario' = scenario
  <2>1. scenario' = scenario
    BY DEF ResetEnds, userVars
  <2> QED BY <2>1, SameScenario
<1>3. /\ Lists' /\ taskInfo' \in [HalTasks -> Infos']
      /\ taskInfo' = taskInfo /\ taskStatus' = taskStatus
      /\ \A t : (InHardware(t)' <=> InHardware(t)) /\ (InFlight(t)' <=> InFlight(t))
  <2>1. UNCHANGED groupVars
    BY DEF ResetEnds, groupVars
  <2> QED BY <1>1, <1>2, <2>1, GroupSame
<1>4. /\ Len(Stream) \in Nat /\ Packets = 1 .. Len(Stream) /\ ResetBound \in Nat
      /\ \A p \in Packets : Stream[p].fmt \in Formats /\ Stream[p].last \in BOOLEAN
  BY <1>1, StreamTypes DEF UserTypes
<1>5. cur' \in Infos /\ cur' = NoInfo
  BY NoInfoTyped DEF ResetEnds
<1>6. BufferTypes' /\ TasksSent'
  BY <1>1, <1>2, <1>3, SameGroup
     DEF ResetEnds, BufferTypes, userVars, outVars, TasksSent, halVars
<1>7. SlotTypes'
  BY <1>1, <1>2, <1>3, <1>4, <1>5, SlotParts, SlotPartsNext, SameGroup
     DEF ResetEnds, slotVars
<1>8. UserTypes'
  BY <1>1, <1>2, <1>3, <1>4, <1>5 DEF ResetEnds, UserTypes, UserSteps, userVars
<1>9. ThreadTypes'
  BY <1>1, <1>2, <1>3, <1>4, <1>5
     DEF ResetEnds, ThreadTypes, ParserSteps, HalSteps, Status, Waits, parserVars,
         halVars
<1>10. ResetHandshake'
  BY <1>1, <1>2, <1>3, <1>4, <1>5 DEF ResetEnds, ResetHandshake, ResetSteps, userVars
<1>11. Commits'
  BY <1>1, <1>2, <1>3, <1>4, <1>5 DEF ResetEnds, Commits, userVars
<1>12. TasksInHand'
  BY <1>1, <1>2, <1>3, <1>4, <1>5
     DEF ResetEnds, TasksInHand, HndSteps, InfoSteps, EosSteps, DecodeSteps, AfterSteps,
         parserVars, halVars, ThreadTypes
<1>13. StatusBits'
  BY <1>1, <1>2, <1>3, <1>4, <1>5
     DEF ResetEnds, StatusBits, PictureSteps, AloneSteps, parserVars
<1>14. PictureInHand'
  BY <1>1, <1>2, <1>3, <1>4, <1>5
     DEF ResetEnds, PictureInHand, parserVars, slotVars, StatusBits, PictureSteps,
         AloneSteps, NoInfo
<1>15. OneInFlight'
  BY <1>1, <1>2, <1>3, <1>4, <1>5
     DEF ResetEnds, OneInFlight, parserVars, StatusBits, PictureSteps, AloneSteps
<1>16. FormatsKnown'
  BY <1>1, <1>2, <1>3, <1>4, <1>5
     DEF ResetEnds, FormatsKnown, parserVars, slotVars, StatusBits, PictureSteps,
         AloneSteps
<1>17. PacketSlotsKept'
  BY <1>1, <1>2, <1>3, <1>4, <1>5
     DEF ResetEnds, PacketSlotsKept, PacketSlotsOwned, parserVars, halVars, StatusBits,
         AloneSteps
<1> QED BY <1>3, <1>6, <1>7, <1>8, <1>9, <1>10, <1>11, <1>12, <1>13, <1>14, <1>15,
      <1>16, <1>17, TypePartsNext DEF IInv

(* The HAL thread looks for a task.                                        *)
LEMMA HalGetsStep ==
    ASSUME IInv, ~aborted, HalGets
    PROVE  IInv'
<1>1. /\ Lists /\ taskInfo \in [HalTasks -> Infos]
      /\ SlotTypes /\ UserTypes /\ BufferTypes /\ ThreadTypes
      /\ ResetHandshake /\ Commits /\ TasksInHand /\ StatusBits /\ PictureInHand
      /\ OneInFlight /\ TasksSent /\ FormatsKnown /\ PacketSlotsKept
  BY TypeParts DEF IInv
<1>2. /\ Stream' = Stream /\ Packets' = Packets /\ Formats' = Formats
      /\ Infos' = Infos /\ BufferCount' = BufferCount /\ ResetBound' = ResetBound
      /\ scenario' = scenario
  <2>1. scenario' = scenario
    BY DEF HalGets, userVars
  <2> QED BY <2>1, SameScenario
<1>3. /\ Lists' /\ taskInfo' \in [HalTasks -> Infos']
      /\ taskInfo' = taskInfo /\ taskStatus' = taskStatus
      /\ \A t : (InHardware(t)' <=> InHardware(t)) /\ (InFlight(t)' <=> InFlight(t))
  <2>1. UNCHANGED groupVars
    BY DEF HalGets, groupVars
  <2> QED BY <1>1, <1>2, <2>1, GroupSame
<1>4. \/ halTask' = NoTask /\ halAt' = "asleep" /\ halInfo' = halInfo
      \/ \E h \in HalTasks :
            /\ taskStatus[h] = "PROCESSING" /\ halTask' = h /\ h # NoTask /\ halInfo' = taskInfo[h]
            /\ halInfo' \in Infos /\ halInfo'.id \in Packets
            /\ halInfo'.infoChange \/ halInfo'.valid \/ halInfo'.eos
            /\ \/ halInfo'.infoChange /\ halAt' = "infoDisplay"
               \/ ~halInfo'.infoChange /\ ~halInfo'.valid /\ halAt' = "eosDisplay"
               \/ ~halInfo'.infoChange /\ halInfo'.valid /\ halAt' = "hw"
  <2>1. CASE HndIn("PROCESSING") = NoTask
    BY <2>1 DEF HalGets
  <2>2. CASE HndIn("PROCESSING") # NoTask
    <3>1. PICK h \in HalTasks : h = HndIn("PROCESSING") /\ taskStatus[h] = "PROCESSING"
      BY <1>1, <2>2, HandleFound DEF HalTaskStatuses
    <3>2. /\ taskInfo[h] \in Infos /\ taskInfo[h].id \in Packets
          /\ taskInfo[h].infoChange \/ taskInfo[h].valid \/ taskInfo[h].eos
      BY <1>1, <3>1 DEF TasksSent
    <3> QED BY <2>2, <3>1, <3>2 DEF HalGets
  <2> QED BY <2>1, <2>2
<1>5. /\ UserTypes' /\ BufferTypes' /\ ResetHandshake' /\ Commits'
      /\ StatusBits' /\ PictureInHand' /\ OneInFlight' /\ FormatsKnown'
  BY <1>1, <1>2, <1>3, SameGroup
     DEF HalGets, UserTypes, UserSteps, userVars, BufferTypes, outVars, ResetHandshake,
         ResetSteps, Commits, StatusBits, PictureSteps, AloneSteps, parserVars,
         PictureInHand, slotVars, OneInFlight, FormatsKnown
<1>6. SlotTypes'
  BY <1>1, <1>2, <1>3, <1>4, SlotParts, SlotPartsNext, SameGroup DEF HalGets, slotVars
<1>7. ThreadTypes'
  BY <1>1, <1>2, <1>3, <1>4
     DEF HalGets, ThreadTypes, ParserSteps, HalSteps, Status, Waits, parserVars, halVars
<1>8. TasksInHand'
  BY <1>1, <1>2, <1>3, <1>4
     DEF HalGets, TasksInHand, HndSteps, InfoSteps, EosSteps, DecodeSteps, AfterSteps,
         parserVars, halVars, ThreadTypes
<1>9. TasksSent'
  BY <1>1, <1>2, <1>3, <1>4 DEF HalGets, TasksSent, halVars
<1>10. PacketSlotsKept'
  BY <1>1, <1>2, <1>3, <1>4
     DEF HalGets, PacketSlotsKept, PacketSlotsOwned, parserVars, halVars
<1> QED BY <1>3, <1>5, <1>6, <1>7, <1>8, <1>9, <1>10, TypePartsNext DEF IInv

(* Pictures of the display queue are pushed, or dropped.                   *)
LEMMA HalDisplaysStep ==
    ASSUME IInv, ~aborted, HalDisplays
    PROVE  IInv'
<1>1. /\ Lists /\ taskInfo \in [HalTasks -> Infos]
      /\ SlotTypes /\ UserTypes /\ BufferTypes /\ ThreadTypes
      /\ ResetHandshake /\ Commits /\ TasksInHand /\ StatusBits /\ PictureInHand
      /\ OneInFlight /\ TasksSent /\ FormatsKnown /\ PacketSlotsKept
  BY TypeParts DEF IInv
<1>2. /\ Stream' = Stream /\ Packets' = Packets /\ Formats' = Formats
      /\ Infos' = Infos /\ BufferCount' = BufferCount /\ ResetBound' = ResetBound
      /\ scenario' = scenario
  <2>1. scenario' = scenario
    BY DEF HalDisplays, userVars
  <2> QED BY <2>1, SameScenario
<1>3. /\ Lists' /\ taskInfo' \in [HalTasks -> Infos']
      /\ taskInfo' = taskInfo /\ taskStatus' = taskStatus
      /\ \A t : (InHardware(t)' <=> InHardware(t)) /\ (InFlight(t)' <=> InFlight(t))
  <2>1. UNCHANGED groupVars
    BY DEF HalDisplays, groupVars
  <2> QED BY <1>1, <1>2, <2>1, GroupSame
<1>4. /\ slot' \in [Slots -> SlotEntries] /\ display' \in Seq(Slots)
      /\ slot[Head(display)] \in SlotEntries
      /\ UNCHANGED <<info, infoSet, infoChanged>>
  <2>1. TakeDisplayed
    BY DEF HalDisplays
  <2> QED BY <1>1, <2>1, TakenTypes, SlotParts DEF TakeDisplayed
<1>5. frames' \in Seq(OutFrames) /\ extraRef' \subseteq extraRef
  <2> DEFINE e == slot[Head(display)]
             f == [kind |-> "picture", id |-> e.frame, buffer |-> e.buffer]
  <2>1. f \in OutFrames /\ frames \in Seq(OutFrames)
    BY <1>1, <1>4 DEF SlotEntries, OutFrames, BufferTypes
  <2>2. Append(frames, f) \in Seq(OutFrames)
    <3> HIDE DEF f
    <3> QED BY <2>1, AppendProperties
  <2> QED BY <2>1, <2>2 DEF HalDisplays
<1>6. parserAt' \in {parserAt, IF parserAt = "asleep" THEN "try" ELSE parserAt}
  BY DEF HalDisplays, ParserAfterRelease, ParserWoken
<1>7. UNCHANGED <<userAt, put, resets, sinceReset, packets, flushFlag, resetFlag, group,
                  packetSlots, aborted, ready, halAt, halInfo>>
  BY DEF HalDisplays, userVars, parserVars, halVars
<1>8. /\ UserTypes' /\ Commits' /\ OneInFlight' /\ TasksSent'
      /\ FormatsKnown' /\ PacketSlotsKept'
  <2>1. UserTypes' /\ Commits'
    BY <1>1, <1>2, <1>7 DEF UserTypes, UserSteps, Commits
  <2>2. OneInFlight'
    BY <1>1, <1>3, <1>7 DEF OneInFlight
  <2>3. TasksSent'
    BY <1>1, <1>2, <1>3, <1>7 DEF TasksSent
  <2>4. FormatsKnown' /\ PacketSlotsKept'
    BY <1>1, <1>2, <1>3, <1>4, <1>7 DEF HalDisplays, FormatsKnown, PacketSlotsKept,
       PacketSlotsOwned, parserVars
  <2> QED BY <2>1, <2>2, <2>3, <2>4
<1>9. SlotTypes'
  BY <1>1, <1>2, <1>3, <1>4, <1>5, <1>6, <1>7, SlotParts, SlotPartsNext, SameGroup
     DEF HalDisplays, ParserAfterRelease, ParserWoken, slotVars
<1>10. BufferTypes'
  BY <1>1, <1>2, <1>3, <1>4, <1>5, <1>6, <1>7, SameGroup
     DEF HalDisplays, ParserAfterRelease, ParserWoken, BufferTypes, userVars, outVars
<1>11. ThreadTypes'
  BY <1>1, <1>2, <1>3, <1>4, <1>5, <1>6, <1>7
     DEF HalDisplays, ParserAfterRelease, ParserWoken, ThreadTypes, ParserSteps,
         HalSteps, Status, Waits, parserVars, halVars
<1>12. ResetHandshake'
  BY <1>1, <1>2, <1>3, <1>4, <1>5, <1>6, <1>7
     DEF HalDisplays, ParserAfterRelease, ParserWoken, ResetHandshake, ResetSteps,
         userVars
<1>13. TasksInHand'
  BY <1>1, <1>2, <1>3, <1>4, <1>5, <1>6, <1>7
     DEF HalDisplays, ParserAfterRelease, ParserWoken, TasksInHand, HndSteps, InfoSteps,
         EosSteps, DecodeSteps, AfterSteps, parserVars, halVars, ThreadTypes
<1>14. StatusBits'
  BY <1>1, <1>2, <1>3, <1>4, <1>5, <1>6, <1>7
     DEF HalDisplays, ParserAfterRelease, ParserWoken, StatusBits, PictureSteps,
         AloneSteps, parserVars
<1>15. PictureInHand'
  BY <1>1, <1>2, <1>3, <1>4, <1>5, <1>6, <1>7
     DEF HalDisplays, ParserAfterRelease, ParserWoken, PictureInHand, parserVars,
         slotVars, StatusBits, PictureSteps, AloneSteps
<1> QED BY <1>3, <1>8, <1>9, <1>10, <1>11, <1>12, <1>13, <1>14, <1>15,
      TypePartsNext DEF IInv

(* No finished picture is left to push.                                    *)
LEMMA HalDisplayEndsStep ==
    ASSUME IInv, ~aborted, HalDisplayEnds
    PROVE  IInv'
<1>1. /\ Lists /\ taskInfo \in [HalTasks -> Infos]
      /\ SlotTypes /\ UserTypes /\ BufferTypes /\ ThreadTypes
      /\ ResetHandshake /\ Commits /\ TasksInHand /\ StatusBits /\ PictureInHand
      /\ OneInFlight /\ TasksSent /\ FormatsKnown /\ PacketSlotsKept
  BY TypeParts DEF IInv
<1>2. /\ Stream' = Stream /\ Packets' = Packets /\ Formats' = Formats
      /\ Infos' = Infos /\ BufferCount' = BufferCount /\ ResetBound' = ResetBound
      /\ scenario' = scenario
  <2>1. scenario' = scenario
    BY DEF HalDisplayEnds, userVars
  <2> QED BY <2>1, SameScenario
<1>3. /\ Lists' /\ taskInfo' \in [HalTasks -> Infos']
      /\ taskInfo' = taskInfo /\ taskStatus' = taskStatus
      /\ \A t : (InHardware(t)' <=> InHardware(t)) /\ (InFlight(t)' <=> InFlight(t))
  <2>1. UNCHANGED groupVars
    BY DEF HalDisplayEnds, groupVars
  <2> QED BY <1>1, <1>2, <2>1, GroupSame
<1>4. /\ UserTypes' /\ BufferTypes' /\ ResetHandshake' /\ Commits'
      /\ StatusBits' /\ PictureInHand' /\ OneInFlight' /\ FormatsKnown'
  BY <1>1, <1>2, <1>3, SameGroup
     DEF HalDisplayEnds, UserTypes, UserSteps, userVars, BufferTypes, outVars,
         ResetHandshake, ResetSteps, Commits, StatusBits, PictureSteps, AloneSteps,
         parserVars, PictureInHand, slotVars, OneInFlight, FormatsKnown
<1>5. SlotTypes'
  BY <1>1, <1>2, <1>3, SlotParts, SlotPartsNext, SameGroup DEF HalDisplayEnds, slotVars
<1>6. ThreadTypes'
  BY <1>1, <1>2, <1>3
     DEF HalDisplayEnds, ThreadTypes, ParserSteps, HalSteps, Status, Waits, parserVars,
         halVars
<1>7. TasksInHand'
  BY <1>1, <1>2, <1>3
     DEF HalDisplayEnds, TasksInHand, HndSteps, InfoSteps, EosSteps, DecodeSteps,
         AfterSteps, parserVars, halVars, ThreadTypes
<1>8. TasksSent'
  BY <1>1, <1>2, <1>3 DEF HalDisplayEnds, TasksSent, halVars
<1>9. PacketSlotsKept'
  BY <1>1, <1>2, <1>3
     DEF HalDisplayEnds, PacketSlotsKept, PacketSlotsOwned, parserVars, halVars
<1> QED BY <1>3, <1>4, <1>5, <1>6, <1>7, <1>8, <1>9, TypePartsNext DEF IInv

(* A frame without picture is put.                                         *)
LEMMA HalPutsStep ==
    ASSUME IInv, ~aborted, HalPuts
    PROVE  IInv'
<1>1. /\ Lists /\ taskInfo \in [HalTasks -> Infos]
      /\ SlotTypes /\ UserTypes /\ BufferTypes /\ ThreadTypes
      /\ ResetHandshake /\ Commits /\ TasksInHand /\ StatusBits /\ PictureInHand
      /\ OneInFlight /\ TasksSent /\ FormatsKnown /\ PacketSlotsKept
  BY TypeParts DEF IInv
<1>2. /\ Stream' = Stream /\ Packets' = Packets /\ Formats' = Formats
      /\ Infos' = Infos /\ BufferCount' = BufferCount /\ ResetBound' = ResetBound
      /\ scenario' = scenario
  <2>1. scenario' = scenario
    BY DEF HalPuts, userVars
  <2> QED BY <2>1, SameScenario
<1>3. /\ Lists' /\ taskInfo' \in [HalTasks -> Infos']
      /\ taskInfo' = taskInfo /\ taskStatus' = taskStatus
      /\ \A t : (InHardware(t)' <=> InHardware(t)) /\ (InFlight(t)' <=> InFlight(t))
  <2>1. UNCHANGED groupVars
    BY DEF HalPuts, groupVars
  <2> QED BY <1>1, <1>2, <2>1, GroupSame
<1>4. frames' \in Seq(OutFrames) /\ aborted' \in BOOLEAN
  <2>1. frames \in Seq(OutFrames) /\ aborted \in BOOLEAN
    BY <1>1 DEF BufferTypes, UserTypes
  <2>2. ASSUME NEW f \in OutFrames PROVE Append(frames, f) \in Seq(OutFrames)
    BY <2>1, AppendProperties
  <2>3. halInfo.output # NoSlot => InfoFrame \in OutFrames
    <3>1. halInfo.output # NoSlot => slot[halInfo.output] \in SlotEntries
      BY <1>1, SlotParts DEF ThreadTypes, Infos
    <3> QED BY <3>1 DEF InfoFrame, OutFrames, SlotEntries
  <2>4. halAt \in {"eosPut", "lastPut"} =>
           [kind |-> "eos", id |-> halInfo.id, buffer |-> NoBuffer] \in OutFrames
    BY <1>1 DEF TasksSent, OutFrames
  <2> QED BY <2>1, <2>2, <2>3, <2>4 DEF HalPuts, Abort
<1>5. \/ halAt = "infoPut" /\ halAt' = "infoIdle"
      \/ halAt = "eosPut" /\ halAt' = "eosIdle"
      \/ halAt = "lastPut" /\ halAt' = "get"
  BY DEF HalPuts
<1>6. /\ ResetHandshake' /\ Commits' /\ StatusBits' /\ OneInFlight'
      /\ FormatsKnown'
  BY <1>1, <1>2, <1>3
     DEF HalPuts, ResetHandshake, ResetSteps, userVars, Commits, StatusBits,
         PictureSteps, AloneSteps, parserVars, OneInFlight, FormatsKnown, slotVars
<1>7. SlotTypes'
  BY <1>1, <1>2, <1>3, <1>4, <1>5, SlotParts, SlotPartsNext, SameGroup
     DEF HalPuts, slotVars
<1>8. UserTypes'
  BY <1>1, <1>2, <1>3, <1>4, <1>5 DEF HalPuts, UserTypes, UserSteps, userVars
<1>9. BufferTypes'
  BY <1>1, <1>2, <1>3, <1>4, <1>5, SameGroup
     DEF HalPuts, BufferTypes, userVars, outVars
<1>10. ThreadTypes'
  BY <1>1, <1>2, <1>3, <1>4, <1>5
     DEF HalPuts, ThreadTypes, ParserSteps, HalSteps, Status, Waits, parserVars, halVars
<1>11. TasksInHand'
  BY <1>1, <1>2, <1>3, <1>4, <1>5
     DEF HalPuts, TasksInHand, HndSteps, InfoSteps, EosSteps, DecodeSteps, AfterSteps,
         parserVars, halVars, ThreadTypes
<1>12. PictureInHand'
  BY <1>1, <1>2, <1>3, <1>4, <1>5
     DEF HalPuts, PictureInHand, parserVars, slotVars, StatusBits, PictureSteps,
         AloneSteps
<1>13. TasksSent'
  BY <1>1, <1>2, <1>3, <1>4, <1>5 DEF HalPuts, TasksSent, halVars
<1>14. PacketSlotsKept'
  BY <1>1, <1>2, <1>3, <1>4, <1>5
     DEF HalPuts, PacketSlotsKept, PacketSlotsOwned, parserVars, halVars
<1> QED BY <1>3, <1>6, <1>7, <1>8, <1>9, <1>10, <1>11, <1>12, <1>13, <1>14,
      TypePartsNext DEF IInv

(* Such a task is idle again.                                              *)
LEMMA HalIdlesStep ==
    ASSUME IInv, ~aborted, HalIdles
    PROVE  IInv'
<1>1. /\ Lists /\ taskInfo \in [HalTasks -> Infos]
      /\ SlotTypes /\ UserTypes /\ BufferTypes /\ ThreadTypes
      /\ ResetHandshake /\ Commits /\ TasksInHand /\ StatusBits /\ PictureInHand
      /\ OneInFlight /\ TasksSent /\ FormatsKnown /\ PacketSlotsKept
  BY TypeParts DEF IInv
<1>2. /\ Stream' = Stream /\ Packets' = Packets /\ Formats' = Formats
      /\ Infos' = Infos /\ BufferCount' = BufferCount /\ ResetBound' = ResetBound
      /\ scenario' = scenario
  <2>1. scenario' = scenario
    BY DEF HalIdles, userVars
  <2> QED BY <2>1, SameScenario
<1>3. PICK h \in HalTasks : h = halTask /\ taskStatus[h] = "PROCESSING" /\ halInfo = taskInfo[h]
  BY <1>1 DEF HalIdles, TasksInHand, InfoSteps, EosSteps, ThreadTypes
<1>4. /\ Lists' /\ taskInfo' = taskInfo /\ taskInfo' \in [HalTasks -> Infos']
      /\ taskStatus'[h] = "IDLE"
      /\ \A t \in HalTasks :
            (InHardware(t)' <=> InHardware(t)) /\ (InFlight(t)' <=> InFlight(t))
      /\ \A t \in HalTasks \ {h} : taskStatus'[t] = taskStatus[t]
  <2>1. ~InHardware(h) /\ ~InFlight(h)
    BY <1>1, <1>3 DEF HalIdles, TasksInHand, InfoSteps, EosSteps, InHardware, InFlight
  <2>2. SetStatus(h, "IDLE") /\ taskInfo' = taskInfo
    BY <1>3 DEF HalIdles
  <2>3. /\ Lists' /\ taskStatus'[h] = "IDLE" /\ ~InFlight(h)' /\ ~InHardware(h)'
        /\ \A u \in HalTasks \ {h} :
              /\ taskStatus'[u] = taskStatus[u]
              /\ InHardware(u)' <=> InHardware(u)
              /\ InFlight(u)' <=> InFlight(u)
    BY <1>1, <2>2, TaskIdled, Zenon
  <2> QED BY <1>1, <1>2, <2>1, <2>2, <2>3
<1>5. UserTypes' /\ BufferTypes' /\ Commits'
  BY <1>1, <1>2, SameGroup
     DEF HalIdles, ParserWoken, UserTypes, UserSteps, userVars, BufferTypes, outVars,
         Commits
<1>6. SlotTypes'
  BY <1>1, <1>2, <1>3, <1>4, SlotParts, SlotPartsNext, SameGroup
     DEF HalIdles, ParserWoken, slotVars
<1>7. ThreadTypes'
  BY <1>1, <1>2, <1>3, <1>4
     DEF HalIdles, ParserWoken, ThreadTypes, ParserSteps, HalSteps, Status, Waits,
         parserVars, halVars
<1>8. ResetHandshake'
  BY <1>1, <1>2, <1>3, <1>4
     DEF HalIdles, ParserWoken, ResetHandshake, ResetSteps, userVars
<1>9. TasksInHand'
  BY <1>1, <1>2, <1>3, <1>4
     DEF HalIdles, ParserWoken, TasksInHand, HndSteps, InfoSteps, EosSteps, DecodeSteps,
         AfterSteps, parserVars, halVars, ThreadTypes
<1>10. StatusBits'
  BY <1>1, <1>2, <1>3, <1>4
     DEF HalIdles, ParserWoken, StatusBits, PictureSteps, AloneSteps, parserVars
<1>11. PictureInHand'
  BY <1>1, <1>2, <1>3, <1>4
     DEF HalIdles, ParserWoken, PictureInHand, parserVars, slotVars, StatusBits,
         PictureSteps, AloneSteps
<1>12. OneInFlight'
  BY <1>1, <1>2, <1>3, <1>4
     DEF HalIdles, ParserWoken, OneInFlight, parserVars, StatusBits, PictureSteps,
         AloneSteps
<1>13. TasksSent'
  BY <1>1, <1>2, <1>3, <1>4 DEF HalIdles, ParserWoken, TasksSent, halVars
<1>14. FormatsKnown'
  BY <1>1, <1>2, <1>3, <1>4
     DEF HalIdles, ParserWoken, FormatsKnown, parserVars, slotVars, StatusBits,
         PictureSteps, AloneSteps
<1>15. PacketSlotsKept'
  BY <1>1, <1>2, <1>3, <1>4
     DEF HalIdles, ParserWoken, PacketSlotsKept, PacketSlotsOwned, parserVars, halVars
<1> QED BY <1>4, <1>5, <1>6, <1>7, <1>8, <1>9, <1>10, <1>11, <1>12, <1>13, <1>14, <1>15,
      TypePartsNext DEF IInv

(* The hardware has finished.                                              *)
LEMMA HalHardwareEndsStep ==
    ASSUME IInv, ~aborted, HalHardwareEnds
    PROVE  IInv'
<1>1. /\ Lists /\ taskInfo \in [HalTasks -> Infos]
      /\ SlotTypes /\ UserTypes /\ BufferTypes /\ ThreadTypes
      /\ ResetHandshake /\ Commits /\ TasksInHand /\ StatusBits /\ PictureInHand
      /\ OneInFlight /\ TasksSent /\ FormatsKnown /\ PacketSlotsKept
  BY TypeParts DEF IInv
<1>2. /\ Stream' = Stream /\ Packets' = Packets /\ Formats' = Formats
      /\ Infos' = Infos /\ BufferCount' = BufferCount /\ ResetBound' = ResetBound
      /\ scenario' = scenario
  <2>1. scenario' = scenario
    BY DEF HalHardwareEnds, userVars
  <2> QED BY <2>1, SameScenario
<1>3. /\ Lists' /\ taskInfo' \in [HalTasks -> Infos']
      /\ taskInfo' = taskInfo /\ taskStatus' = taskStatus
      /\ \A t : (InHardware(t)' <=> InHardware(t)) /\ (InFlight(t)' <=> InFlight(t))
  <2>1. UNCHANGED groupVars
    BY DEF HalHardwareEnds, groupVars
  <2> QED BY <1>1, <1>2, <2>1, GroupSame
<1>4. PICK h \in HalTasks : h = halTask /\ taskStatus[h] = "PROCESSING" /\ halInfo = taskInfo[h]
  BY <1>1 DEF HalHardwareEnds, TasksInHand, DecodeSteps, ThreadTypes
<1>5. InHardware(h) /\ InFlight(h)
  BY <1>1, <1>4 DEF HalHardwareEnds, TasksInHand, DecodeSteps, InHardware, InFlight
<1>6. /\ BufferTypes' /\ ResetHandshake' /\ Commits' /\ StatusBits'
      /\ PictureInHand' /\ OneInFlight' /\ FormatsKnown'
  BY <1>1, <1>2, <1>3, SameGroup
     DEF HalHardwareEnds, BufferTypes, userVars, outVars, ResetHandshake, ResetSteps,
         Commits, StatusBits, PictureSteps, AloneSteps, parserVars, PictureInHand,
         slotVars, OneInFlight, FormatsKnown
<1>7. SlotTypes'
  BY <1>1, <1>2, <1>3, <1>4, <1>5, SlotParts, SlotPartsNext, SameGroup
     DEF HalHardwareEnds, slotVars
<1>8. UserTypes'
  BY <1>1, <1>2, <1>3, <1>4, <1>5 DEF HalHardwareEnds, UserTypes, UserSteps, userVars
<1>9. ThreadTypes'
  BY <1>1, <1>2, <1>3, <1>4, <1>5
     DEF HalHardwareEnds, ThreadTypes, ParserSteps, HalSteps, Status, Waits, parserVars,
         halVars
<1>10. TasksInHand'
  BY <1>1, <1>2, <1>3, <1>4, <1>5
     DEF HalHardwareEnds, TasksInHand, HndSteps, InfoSteps, EosSteps, DecodeSteps,
         AfterSteps, parserVars, halVars, ThreadTypes
<1>11. TasksSent'
  BY <1>1, <1>2, <1>3, <1>4, <1>5 DEF HalHardwareEnds, TasksSent, halVars
<1>12. PacketSlotsKept'
  BY <1>1, <1>2, <1>3, <1>4, <1>5
     DEF HalHardwareEnds, PacketSlotsKept, PacketSlotsOwned, parserVars, halVars,
         StatusBits, OneInFlight
<1> QED BY <1>3, <1>6, <1>7, <1>8, <1>9, <1>10, <1>11, <1>12, TypePartsNext DEF IInv

(* The task is done.                                                       *)
LEMMA HalMarksDoneStep ==
    ASSUME IInv, ~aborted, HalMarksDone
    PROVE  IInv'
<1>1. /\ Lists /\ taskInfo \in [HalTasks -> Infos]
      /\ SlotTypes /\ UserTypes /\ BufferTypes /\ ThreadTypes
      /\ ResetHandshake /\ Commits /\ TasksInHand /\ StatusBits /\ PictureInHand
      /\ OneInFlight /\ TasksSent /\ FormatsKnown /\ PacketSlotsKept
  BY TypeParts DEF IInv
<1>2. /\ Stream' = Stream /\ Packets' = Packets /\ Formats' = Formats
      /\ Infos' = Infos /\ BufferCount' = BufferCount /\ ResetBound' = ResetBound
      /\ scenario' = scenario
  <2>1. scenario' = scenario
    BY DEF HalMarksDone, userVars
  <2> QED BY <2>1, SameScenario
<1>3. PICK h \in HalTasks : h = halTask /\ taskStatus[h] = "PROCESSING" /\ halInfo = taskInfo[h]
  BY <1>1 DEF HalMarksDone, TasksInHand, DecodeSteps, ThreadTypes
<1>4. /\ Lists' /\ taskInfo' = taskInfo /\ taskInfo' \in [HalTasks -> Infos']
      /\ taskStatus'[h] = "PROC_DONE" /\ InHardware(h) /\ ~InHardware(h)'
      /\ \A t \in HalTasks : InFlight(t)' <=> InFlight(t)
      /\ \A t \in HalTasks \ {h} :
            taskStatus'[t] = taskStatus[t] /\ (InHardware(t)' <=> InHardware(t))
  <2>1. InHardware(h) /\ InFlight(h)
    BY <1>1, <1>3 DEF HalMarksDone, TasksInHand, DecodeSteps, InHardware, InFlight
  <2>2. SetStatus(h, "PROC_DONE") /\ taskInfo' = taskInfo
    BY <1>3 DEF HalMarksDone
  <2>3. /\ Lists' /\ taskStatus'[h] = "PROC_DONE" /\ InFlight(h)' /\ ~InHardware(h)'
        /\ \A u \in HalTasks \ {h} :
              /\ taskStatus'[u] = taskStatus[u]
              /\ InHardware(u)' <=> InHardware(u)
              /\ InFlight(u)' <=> InFlight(u)
    BY <1>1, <2>2, TaskDone, Zenon
  <2> QED BY <1>1, <1>2, <2>1, <2>2, <2>3
<1>5. UserTypes' /\ BufferTypes' /\ Commits'
  BY <1>1, <1>2, SameGroup
     DEF HalMarksDone, ParserWoken, UserTypes, UserSteps, userVars, BufferTypes,
         outVars, Commits
<1>6. SlotTypes'
  BY <1>1, <1>2, <1>3, <1>4, SlotParts, SlotPartsNext, SameGroup
     DEF HalMarksDone, ParserWoken, slotVars
<1>7. ThreadTypes'
  BY <1>1, <1>2, <1>3, <1>4
     DEF HalMarksDone, ParserWoken, ThreadTypes, ParserSteps, HalSteps, Status, Waits,
         parserVars, halVars
<1>8. ResetHandshake'
  BY <1>1, <1>2, <1>3, <1>4
     DEF HalMarksDone, ParserWoken, ResetHandshake, ResetSteps, userVars
<1>9. TasksInHand'
  BY <1>1, <1>2, <1>3, <1>4
     DEF HalMarksDone, ParserWoken, TasksInHand, HndSteps, InfoSteps, EosSteps,
         DecodeSteps, AfterSteps, parserVars, halVars, ThreadTypes
<1>10. StatusBits'
  BY <1>1, <1>2, <1>3, <1>4
     DEF HalMarksDone, ParserWoken, StatusBits, PictureSteps, AloneSteps, parserVars
<1>11. PictureInHand'
  BY <1>1, <1>2, <1>3, <1>4
     DEF HalMarksDone, ParserWoken, PictureInHand, parserVars, slotVars, StatusBits,
         PictureSteps, AloneSteps
<1>12. OneInFlight'
  BY <1>1, <1>2, <1>3, <1>4
     DEF HalMarksDone, ParserWoken, OneInFlight, parserVars, StatusBits, PictureSteps,
         AloneSteps
<1>13. TasksSent'
  BY <1>1, <1>2, <1>3, <1>4 DEF HalMarksDone, ParserWoken, TasksSent, halVars
<1>14. FormatsKnown'
  BY <1>1, <1>2, <1>3, <1>4
     DEF HalMarksDone, ParserWoken, FormatsKnown, parserVars, slotVars, StatusBits,
         PictureSteps, AloneSteps
<1>15. PacketSlotsKept'
  BY <1>1, <1>2, <1>3, <1>4
     DEF HalMarksDone, ParserWoken, PacketSlotsKept, PacketSlotsOwned, parserVars,
         halVars
<1> QED BY <1>4, <1>5, <1>6, <1>7, <1>8, <1>9, <1>10, <1>11, <1>12, <1>13, <1>14, <1>15,
      TypePartsNext DEF IInv

(* The slots of the picture are given up.                                  *)
LEMMA HalClearsSlotsStep ==
    ASSUME IInv, ~aborted, HalClearsSlots
    PROVE  IInv'
<1>1. /\ Lists /\ taskInfo \in [HalTasks -> Infos]
      /\ SlotTypes /\ UserTypes /\ BufferTypes /\ ThreadTypes
      /\ ResetHandshake /\ Commits /\ TasksInHand /\ StatusBits /\ PictureInHand
      /\ OneInFlight /\ TasksSent /\ FormatsKnown /\ PacketSlotsKept
  BY TypeParts DEF IInv
<1>2. /\ Stream' = Stream /\ Packets' = Packets /\ Formats' = Formats
      /\ Infos' = Infos /\ BufferCount' = BufferCount /\ ResetBound' = ResetBound
      /\ scenario' = scenario
  <2>1. scenario' = scenario
    BY DEF HalClearsSlots, userVars
  <2> QED BY <2>1, SameScenario
<1>3. /\ Lists' /\ taskInfo' \in [HalTasks -> Infos']
      /\ taskInfo' = taskInfo /\ taskStatus' = taskStatus
      /\ \A t : (InHardware(t)' <=> InHardware(t)) /\ (InFlight(t)' <=> InFlight(t))
  <2>1. UNCHANGED groupVars
    BY DEF HalClearsSlots, groupVars
  <2> QED BY <1>1, <1>2, <2>1, GroupSame
<1>4. /\ UserTypes' /\ BufferTypes' /\ Commits' /\ OneInFlight'
      /\ FormatsKnown'
  BY <1>1, <1>2, <1>3, SameGroup
     DEF HalClearsSlots, ParserAfterRelease, ParserWoken, UserTypes, UserSteps,
         userVars, BufferTypes, outVars, Commits, OneInFlight, parserVars, FormatsKnown,
         slotVars
<1>5. SlotTypes'
  <2>1. slot \in [Slots -> SlotEntries]
    BY <1>1, SlotParts
  <2>2. ASSUME NEW i \in Slots
        PROVE  /\ ClrFlag(slot[i], "HAL_OUTPUT") \in SlotEntries
               /\ ClrFlag(slot[i], "HAL_INPUT") \in SlotEntries
    BY <2>1, EntryTypes
  <2>3. slot' \in [Slots -> SlotEntries]
    BY <2>1, <2>2 DEF HalClearsSlots
  <2> QED BY <1>1, <1>2, <2>3, SlotParts, SlotPartsNext, SameGroup DEF HalClearsSlots
<1>6. ThreadTypes'
  BY <1>1, <1>2, <1>3
     DEF HalClearsSlots, ParserAfterRelease, ParserWoken, ThreadTypes, ParserSteps,
         HalSteps, Status, Waits, parserVars, halVars
<1>7. ResetHandshake'
  BY <1>1, <1>2, <1>3
     DEF HalClearsSlots, ParserAfterRelease, ParserWoken, ResetHandshake, ResetSteps,
         userVars
<1>8. TasksInHand'
  BY <1>1, <1>2, <1>3
     DEF HalClearsSlots, ParserAfterRelease, ParserWoken, TasksInHand, HndSteps,
         InfoSteps, EosSteps, DecodeSteps, AfterSteps, parserVars, halVars, ThreadTypes
<1>9. StatusBits'
  BY <1>1, <1>2, <1>3
     DEF HalClearsSlots, ParserAfterRelease, ParserWoken, StatusBits, PictureSteps,
         AloneSteps, parserVars
<1>10. PictureInHand'
  BY <1>1, <1>2, <1>3
     DEF HalClearsSlots, ParserAfterRelease, ParserWoken, PictureInHand, parserVars,
         slotVars, StatusBits, PictureSteps, AloneSteps
<1>11. TasksSent'
  BY <1>1, <1>2, <1>3
     DEF HalClearsSlots, ParserAfterRelease, ParserWoken, TasksSent, halVars
<1>12. PacketSlotsKept'
  BY <1>1, <1>2, <1>3
     DEF HalClearsSlots, ParserAfterRelease, ParserWoken, PacketSlotsKept,
         PacketSlotsOwned, parserVars, halVars
<1> QED BY <1>3, <1>4, <1>5, <1>6, <1>7, <1>8, <1>9, <1>10, <1>11, <1>12,
      TypePartsNext DEF IInv

-----------------------------------------------------------------------------
(***************************************************************************)
(* The invariant holds at first and is kept.                               *)
(***************************************************************************)
(* Every task is idle and on its list, every slot is free.                 *)
LEMMA InitIInv == Init => IInv
<1> SUFFICES ASSUME Init PROVE IInv
  OBVIOUS
<1>1. /\ Len(Stream) \in Nat /\ Packets = 1 .. Len(Stream)
      /\ ResetBound \in Nat /\ BufferCount \in Nat \ {0}
      /\ \A p \in Packets : Stream[p].fmt \in Formats /\ Stream[p].last \in BOOLEAN
  BY StreamTypes DEF Init
<1>2. Lists /\ taskInfo \in [HalTasks -> Infos]
  <2> DEFINE all == [i \in HalTasks |-> i]
  <2>1. TaskCount \in Nat \ {0}
    BY HalTasksAssumption
  <2>2. all \in Seq(HalTasks) /\ Len(all) = TaskCount
    BY <2>1, IsASeq, LenProperties DEF HalTasks
  <2>3. IsInjective(all) /\ ToSet(all) = HalTasks
    <3> HIDE DEF all
    <3>1. \A i \in HalTasks : all[i] = i
      BY DEF all
    <3> QED BY <2>1, <2>2, <3>1, ToSetOfSeq DEF HalTasks
  <2>4. /\ taskList \in [HalTaskStatuses -> Seq(HalTasks)]
        /\ taskList["IDLE"] = all /\ taskList["PROCESSING"] = <<>>
        /\ taskList["PROC_DONE"] = <<>>
    <3> HIDE DEF all
    <3>1. taskList = [s \in HalTaskStatuses |-> IF s = "IDLE" THEN all ELSE <<>>]
      BY DEF Init, GroupInit, all
    <3> QED BY <2>2, <3>1, EmptyList DEF HalTaskStatuses
  <2>5. taskStatus = [t \in HalTasks |-> "IDLE"] /\ taskInfo = [t \in HalTasks |-> NoInfo]
    BY DEF Init, GroupInit
  <2>6. \A s \in HalTaskStatuses :
           IsInjective(taskList[s]) /\ ToSet(taskList[s]) = {t \in HalTasks : taskStatus[t] = s}
    <3> HIDE DEF all
    <3> QED BY <2>3, <2>4, <2>5, EmptyList DEF HalTaskStatuses
  <2> QED BY <2>4, <2>5, <2>6, NoInfoTyped DEF Lists, HalTaskStatuses
<1>3. SlotTypes
  <2>1. Unused \in SlotEntries
    BY DEF Unused, SlotEntries, HalUses, QueueUses
  <2>2. slot \in [Slots -> SlotEntries] /\ display \in Seq(Slots)
    BY <2>1, EmptyList DEF Init, SlotsInit
  <2>3. info \in Formats /\ infoSet \in Formats /\ infoChanged \in BOOLEAN
    BY DEF Init, SlotsInit, Formats
  <2> QED BY <2>2, <2>3, SlotParts
<1>4. UserTypes
  <2>1. packets \in Seq(Packets)
    BY EmptyList DEF Init
  <2>2. 0 \in 0 .. Len(Stream) /\ 1 \in 1 .. Len(Stream) + 1 /\ 0 \in 0 .. ResetBound
    BY <1>1
  <2>3. scenario \in Scenarios /\ put \in 0 .. Len(Stream) /\ resets \in 0 .. ResetBound
    BY <2>2 DEF Init
  <2>4. sinceReset \in 1 .. Len(Stream) + 1
    BY <2>2 DEF Init
  <2>5. /\ userAt \in UserSteps /\ packetSlots \subseteq HalTasks
        /\ flushFlag \in BOOLEAN /\ resetFlag \in BOOLEAN /\ aborted \in BOOLEAN
    BY DEF Init, UserSteps
  <2> QED BY <2>1, <2>3, <2>4, <2>5 DEF UserTypes
<1>5. BufferTypes
  BY EmptyList DEF Init, BufferTypes
<1>6. ThreadTypes
  BY NoInfoTyped DEF Init, ThreadTypes, ParserSteps, HalSteps, Status
<1>7. \A t \in HalTasks : taskStatus[t] = "IDLE" /\ ~InHardware(t) /\ ~InFlight(t)
  BY DEF Init, GroupInit, InHardware, InFlight
<1>8. ResetHandshake /\ Commits
  BY DEF Init, ResetHandshake, ResetSteps, Commits
<1>9. TasksInHand
  BY DEF Init, TasksInHand, HndSteps, InfoSteps, EosSteps, DecodeSteps, AfterSteps
<1>10. StatusBits /\ PictureInHand
  BY DEF Init, StatusBits, PictureSteps, AloneSteps, PictureInHand, NoInfo
<1>11. OneInFlight /\ TasksSent
  BY <1>7 DEF Init, OneInFlight, TasksSent
<1>12. FormatsKnown /\ PacketSlotsKept
  BY <1>7 DEF Init, SlotsInit, FormatsKnown, PacketSlotsKept, PacketSlotsOwned
<1> QED BY <1>2, <1>3, <1>4, <1>5, <1>6, <1>8, <1>9, <1>10, <1>11, <1>12, TypeParts DEF IInv

(* A step of none of the threads.                                          *)
LEMMA StutterIInv == IInv /\ UNCHANGED vars => IInv'
<1> SUFFICES ASSUME IInv, UNCHANGED vars PROVE IInv'
  OBVIOUS
<1>1. /\ UNCHANGED <<scenario, userAt, put, resets, sinceReset, held, packets, flushFlag>>
      /\ UNCHANGED <<frames, extraRef, resetFlag, group, packetSlots, aborted, parserAt>>
      /\ UNCHANGED <<hnd, cur, ready, waits, ref0, foundI, halAt, halTask, halInfo>>
      /\ UNCHANGED <<slot, display, info, infoSet, infoChanged>> /\ UNCHANGED groupVars
  BY DEF vars, userVars, outVars, parserVars, halVars, slotVars
<1>2. /\ Lists /\ taskInfo \in [HalTasks -> Infos]
      /\ SlotTypes /\ UserTypes /\ BufferTypes /\ ThreadTypes
      /\ ResetHandshake /\ Commits /\ TasksInHand /\ StatusBits /\ PictureInHand
      /\ OneInFlight /\ TasksSent /\ FormatsKnown /\ PacketSlotsKept
  BY TypeParts DEF IInv
<1>3. /\ Lists' /\ taskInfo' = taskInfo /\ taskStatus' = taskStatus
      /\ \A t : (InHardware(t)' <=> InHardware(t)) /\ (InFlight(t)' <=> InFlight(t))
  BY <1>1, <1>2, GroupSame
<1>4. /\ Stream' = Stream /\ Packets' = Packets /\ Formats' = Formats
      /\ Infos' = Infos /\ BufferCount' = BufferCount /\ ResetBound' = ResetBound
  BY <1>1, SameScenario
<1>5. Buffers' = Buffers /\ SlotEntries' = SlotEntries /\ OutFrames' = OutFrames
  BY <1>1, SameGroup
<1>6. SlotTypes' /\ taskInfo' \in [HalTasks -> Infos']
  BY <1>1, <1>2, <1>3, <1>4, <1>5, SlotParts, SlotPartsNext
<1>7. UserTypes' /\ BufferTypes' /\ ThreadTypes'
  BY <1>1, <1>2, <1>4, <1>5 DEF UserTypes, BufferTypes, ThreadTypes
<1>8. ResetHandshake' /\ Commits' /\ TasksInHand' /\ StatusBits'
  BY <1>1, <1>2, <1>3 DEF ResetHandshake, Commits, TasksInHand, StatusBits
<1>9. PictureInHand' /\ OneInFlight' /\ TasksSent'
  BY <1>1, <1>2, <1>3, <1>4 DEF PictureInHand, OneInFlight, TasksSent
<1>10. FormatsKnown' /\ PacketSlotsKept'
  BY <1>1, <1>2, <1>3, <1>4 DEF FormatsKnown, PacketSlotsKept, PacketSlotsOwned
<1> QED BY <1>3, <1>6, <1>7, <1>8, <1>9, <1>10, TypePartsNext DEF IInv

(* The user, the parser thread and the HAL thread keep it.                 *)
LEMMA NextIInv == IInv /\ [Next]_vars => IInv'
<1> SUFFICES ASSUME IInv, Next \/ UNCHANGED vars PROVE IInv'
  OBVIOUS
<1>1. CASE UNCHANGED vars
  BY <1>1, StutterIInv
<1>2. CASE ~aborted /\ User
  BY <1>2, UserPutsStep, UserGetsStep, UserReleasesStep, UserCommitsStep, UserReadiesStep,
     UserFlushesPacketsStep, UserFlushesFramesStep, UserRaisesFlagStep DEF User
<1>3. CASE ~aborted /\ Parser
  <2>1. CASE \/ ParserTop \/ ParserChecks \/ ParserTries \/ PullNothing \/ PullEos
             \/ PullPicture \/ ParserWaitsPrevious \/ ParserChecksGroup \/ ParserParses
    BY <1>3, <2>1, ParserTopStep, ParserChecksStep, ParserTriesStep, PullNothingStep,
       PullEosStep, PullPictureStep, ParserWaitsPreviousStep, ParserChecksGroupStep,
       ParserParsesStep
  <2>2. CASE \/ ParserAnnouncesChange \/ ParserWaitsChange \/ ParserNeedsNoChange
             \/ ParserDrops \/ ParserSubmits
    BY <1>3, <2>2, ParserAnnouncesChangeStep, ParserWaitsChangeStep,
       ParserNeedsNoChangeStep, ParserDropsStep, ParserSubmitsStep
  <2>3. CASE ResetTakesPrevious \/ ResetClears \/ ResetDrains \/ ResetEnds
    BY <1>3, <2>3, ResetTakesPreviousStep, ResetClearsStep, ResetDrainsStep, ResetEndsStep
  <2> QED BY <1>3, <2>1, <2>2, <2>3 DEF Parser
<1>4. CASE ~aborted /\ Hal
  BY <1>4, HalGetsStep, HalDisplaysStep, HalDisplayEndsStep, HalPutsStep, HalIdlesStep,
     HalHardwareEndsStep, HalMarksDoneStep, HalClearsSlotsStep DEF Hal
<1> QED BY <1>1, <1>2, <1>3, <1>4 DEF Next

(* What the three threads rely on of each other is always so.              *)
THEOREM DecInvariant == Spec => []IInv
BY InitIInv, NextIInv, PTL DEF Spec

(* The variables have their types; every task is on the list of its status *)
(* once, and on no other, whichever thread moves it (hal_task.cpp).        *)
THEOREM DecTypeOK == Spec => []TypeOK
<1>1. IInv => TypeOK
  BY DEF IInv
<1> QED BY <1>1, DecInvariant, PTL

(* A picture is in the hardware only with buffers the user committed for   *)
(* its format: step 9 of try_proc_dec_task announces a change first.       *)
THEOREM DecPictureFitsBuffers == Spec => []PictureFitsBuffers
<1>1. IInv => PictureFitsBuffers
  BY DEF IInv, FormatsKnown, PictureFitsBuffers
<1> QED BY <1>1, DecInvariant, PTL

(* A packet slot in use has a task that gives it back, through errors,     *)
(* resets and what the hardware does meanwhile.                            *)
THEOREM DecPacketSlotsOwned == Spec => []PacketSlotsOwned
<1>1. IInv => PacketSlotsOwned
  BY DEF IInv, PacketSlotsKept
<1> QED BY <1>1, DecInvariant, PTL
=============================================================================
