------------------------ MODULE MppTaskPorts_proofs -------------------------
(***************************************************************************)
(* Proofs about the task queue, for any number of tasks and threads.       *)
(***************************************************************************)
EXTENDS MppTaskPorts, SequenceTheorems, FiniteSetTheorems, TLAPS

(* Unlinking the k-th entry shifts the later ones down by one place:       *)
(* list_del_init on a list that holds the task once.                       *)
LEMMA UnlinkProperties ==
    ASSUME NEW S, NEW s \in Seq(S), NEW k \in 1 .. Len(s),
           \A i, j \in 1 .. Len(s) : s[i] = s[j] => i = j
    PROVE  /\ Unlink(s, s[k]) \in Seq(S)
           /\ Len(Unlink(s, s[k])) = Len(s) - 1
           /\ \A i \in 1 .. Len(s) - 1 :
                 Unlink(s, s[k])[i] = IF i < k THEN s[i] ELSE s[i + 1]
<1> DEFINE lo == SubSeq(s, 1, k - 1)
           hi == SubSeq(s, k + 1, Len(s))
<1>1. (CHOOSE i \in 1 .. Len(s) : s[i] = s[k]) = k
  OBVIOUS
<1>2. Unlink(s, s[k]) = lo \o hi
  BY <1>1 DEF Unlink, RemoveAt
<1>3. Len(s) \in Nat /\ \A i \in 1 .. Len(s) : s[i] \in S
  BY LenProperties, ElementOfSeq
<1>4. /\ lo \in Seq(S) /\ Len(lo) = k - 1
      /\ \A i \in 1 .. k - 1 : lo[i] = s[i]
  BY <1>3, SubSeqProperties
<1>5. /\ hi \in Seq(S) /\ Len(hi) = Len(s) - k
      /\ \A i \in 1 .. Len(s) - k : hi[i] = s[k + i]
  BY <1>3, SubSeqProperties
<1> HIDE DEF lo, hi
<1>6. /\ lo \o hi \in Seq(S)
      /\ Len(lo \o hi) = Len(lo) + Len(hi)
      /\ \A i \in 1 .. Len(lo) + Len(hi) :
            (lo \o hi)[i] = IF i <= Len(lo) THEN lo[i] ELSE hi[i - Len(lo)]
  <2>1. lo \in Seq(S) /\ hi \in Seq(S)
    BY <1>4, <1>5
  <2> QED BY <2>1, ConcatProperties, Zenon
<1>7. ASSUME NEW i \in 1 .. Len(s) - 1
      PROVE  (lo \o hi)[i] = IF i < k THEN s[i] ELSE s[i + 1]
  <2>1. Len(lo) = k - 1 /\ Len(hi) = Len(s) - k /\ Len(s) \in Nat
    BY <1>3, <1>4, <1>5
  <2>2. (lo \o hi)[i] = IF i <= Len(lo) THEN lo[i] ELSE hi[i - Len(lo)]
    BY <1>6, <2>1
  <2>3. CASE i < k
    BY <1>4, <2>1, <2>2, <2>3
  <2>4. CASE ~(i < k)
    <3>1. (lo \o hi)[i] = hi[i - (k - 1)]
      BY <2>1, <2>2, <2>4
    <3>2. i - (k - 1) \in 1 .. Len(s) - k
      BY <2>1, <2>4
    <3>3. hi[i - (k - 1)] = s[k + (i - (k - 1))]
      BY <1>5, <3>2
    <3>4. k + (i - (k - 1)) = i + 1
      BY <2>1
    <3> QED BY <2>4, <3>1, <3>3, <3>4
  <2> QED BY <2>3, <2>4
<1> QED BY <1>2, <1>3, <1>4, <1>5, <1>6, <1>7

(* Unlinking an entry of a list without repetitions leaves a list without  *)
(* repetitions, of the other entries.                                      *)
LEMMA UnlinkDistinct ==
    ASSUME NEW S, NEW s \in Seq(S), NEW k \in 1 .. Len(s),
           \A i, j \in 1 .. Len(s) : s[i] = s[j] => i = j
    PROVE  LET cut == Unlink(s, s[k])
           IN  /\ cut \in Seq(S)
               /\ Len(cut) = Len(s) - 1
               /\ \A i, j \in 1 .. Len(cut) : cut[i] = cut[j] => i = j
               /\ \A i \in 1 .. Len(cut) :
                     cut[i] # s[k] /\ \E j \in 1 .. Len(s) : cut[i] = s[j]
               /\ \A j \in 1 .. Len(s) :
                     s[j] # s[k] => \E i \in 1 .. Len(cut) : cut[i] = s[j]
<1> DEFINE cut == Unlink(s, s[k])
<1> DEFINE at(i) == IF i < k THEN i ELSE i + 1
<1>1. cut \in Seq(S) /\ Len(cut) = Len(s) - 1
  BY UnlinkProperties, Zenon
<1>2. Len(s) \in Nat
  OBVIOUS
<1> HIDE DEF cut
<1>3. ASSUME NEW i \in 1 .. Len(cut)
      PROVE  at(i) \in 1 .. Len(s) /\ at(i) # k /\ cut[i] = s[at(i)]
  <2>1. i \in 1 .. Len(s) - 1
    BY <1>1
  <2>2. cut[i] = IF i < k THEN s[i] ELSE s[i + 1]
    BY <2>1, UnlinkProperties, Zenon DEF cut
  <2> QED BY <1>1, <1>2, <2>2
<1>4. ASSUME NEW i \in 1 .. Len(cut), NEW j \in 1 .. Len(cut), cut[i] = cut[j]
      PROVE  i = j
  <2>1. at(i) = at(j)
    <3> HIDE DEF at
    <3> QED BY <1>3, <1>4
  <2> QED BY <2>1, <1>1, <1>2
<1>5. ASSUME NEW i \in 1 .. Len(cut)
      PROVE  cut[i] # s[k] /\ \E j \in 1 .. Len(s) : cut[i] = s[j]
  <2> HIDE DEF at
  <2> QED BY <1>3
<1>6. ASSUME NEW j \in 1 .. Len(s), s[j] # s[k]
      PROVE  \E i \in 1 .. Len(cut) : cut[i] = s[j]
  <2> DEFINE i == IF j < k THEN j ELSE j - 1
  <2>1. i \in 1 .. Len(cut) /\ at(i) = j
    BY <1>1, <1>2, <1>6
  <2> HIDE DEF at, i
  <2> QED BY <2>1, <1>3
<1> QED BY <1>1, <1>4, <1>5, <1>6 DEF cut

(* Moving a task that is on the list of its status to another list keeps   *)
(* the queue's types and its partition into lists.                         *)
LEMMA MoveKeepsLists ==
    ASSUME QueueTypeOK, ListsPartition, life # "inited", life' = life,
           NEW from \in Statuses, NEW to \in Statuses, from # to,
           NEW t \in Tasks, status[t] = from, MoveTask(t, from, to)
    PROVE  /\ list' \in [Statuses -> Seq(Tasks)]
           /\ count' \in [Statuses -> Nat]
           /\ status' \in [Tasks -> Statuses]
           /\ ListsPartition'
<1> USE DEF QueueTypeOK
<1> DEFINE old == list[from]
           dst == list[to]
           cut == Unlink(old, t)
           ext == Append(dst, t)
<1>1. PICK k \in 1 .. Len(old) : old[k] = t
  BY DEF ListsPartition, NoTaskLost
<1>2. /\ old \in Seq(Tasks)
      /\ \A i, j \in 1 .. Len(old) : old[i] = old[j] => i = j
      /\ \A i \in 1 .. Len(old) : old[i] \in Tasks /\ status[old[i]] = from
      /\ count[from] = Len(old)
  BY ElementOfSeq DEF ListsPartition, ListsAgree
<1>3. /\ dst \in Seq(Tasks)
      /\ \A i, j \in 1 .. Len(dst) : dst[i] = dst[j] => i = j
      /\ \A i \in 1 .. Len(dst) : dst[i] \in Tasks /\ status[dst[i]] = to /\ dst[i] # t
      /\ count[to] = Len(dst)
  BY ElementOfSeq DEF ListsPartition, ListsAgree
<1>4. /\ list' = [list EXCEPT ![from] = cut, ![to] = ext]
      /\ count' = [count EXCEPT ![from] = @ - 1, ![to] = @ + 1]
      /\ status' = [status EXCEPT ![t] = to]
  BY DEF MoveTask
<1>5. /\ list'[from] = cut /\ list'[to] = ext
      /\ \A s \in Statuses \ {from, to} : list'[s] = list[s]
  BY <1>4
<1>6. /\ count'[from] = count[from] - 1 /\ count'[to] = count[to] + 1
      /\ \A s \in Statuses \ {from, to} : count'[s] = count[s]
  BY <1>4
<1>7. /\ status'[t] = to
      /\ \A u \in Tasks \ {t} : status'[u] = status[u]
      /\ status' \in [Tasks -> Statuses]
  BY <1>4
<1> HIDE DEF cut, ext, old, dst
<1>8. /\ cut \in Seq(Tasks)
      /\ Len(cut) = Len(old) - 1
      /\ \A i, j \in 1 .. Len(cut) : cut[i] = cut[j] => i = j
      /\ \A i \in 1 .. Len(cut) :
            cut[i] # t /\ \E j \in 1 .. Len(old) : cut[i] = old[j]
      /\ \A j \in 1 .. Len(old) :
            old[j] # t => \E i \in 1 .. Len(cut) : cut[i] = old[j]
  <2>1. LET c == Unlink(old, old[k])
        IN  /\ c \in Seq(Tasks)
            /\ Len(c) = Len(old) - 1
            /\ \A i, j \in 1 .. Len(c) : c[i] = c[j] => i = j
            /\ \A i \in 1 .. Len(c) :
                  c[i] # old[k] /\ \E j \in 1 .. Len(old) : c[i] = old[j]
            /\ \A j \in 1 .. Len(old) :
                  old[j] # old[k] => \E i \in 1 .. Len(c) : c[i] = old[j]
    BY <1>2, UnlinkDistinct, ZenonT(60)
  <2> QED BY <1>1, <2>1, Zenon DEF cut
<1>9. /\ ext \in Seq(Tasks)
      /\ Len(ext) = Len(dst) + 1
      /\ \A i, j \in 1 .. Len(ext) : ext[i] = ext[j] => i = j
      /\ \A i \in 1 .. Len(ext) :
            ext[i] = t \/ \E j \in 1 .. Len(dst) : ext[i] = dst[j]
      /\ \A j \in 1 .. Len(dst) : \E i \in 1 .. Len(ext) : ext[i] = dst[j]
      /\ \E i \in 1 .. Len(ext) : ext[i] = t
  <2>1. /\ ext \in Seq(Tasks) /\ Len(ext) = Len(dst) + 1 /\ ext[Len(dst) + 1] = t
        /\ \A i \in 1 .. Len(dst) : ext[i] = dst[i]
    BY <1>3 DEF ext
  <2>2. \A i \in 1 .. Len(dst) : dst[i] # t
    BY <1>3, Zenon
  <2>3. Len(dst) \in Nat
    BY <1>3
  <2>4. /\ \A i \in 1 .. Len(ext) : i \in 1 .. Len(dst) \/ i = Len(dst) + 1
        /\ \A i \in 1 .. Len(dst) : i \in 1 .. Len(ext)
        /\ Len(dst) + 1 \in 1 .. Len(ext)
    BY <2>1, <2>3
  <2>5. ASSUME NEW i \in 1 .. Len(ext), NEW j \in 1 .. Len(ext), ext[i] = ext[j]
        PROVE  i = j
    <3>1. CASE i \in 1 .. Len(dst) /\ j \in 1 .. Len(dst)
      BY <3>1, <2>1, <2>5, <1>3, Zenon
    <3>2. CASE i \in 1 .. Len(dst) /\ j = Len(dst) + 1
      BY <3>2, <2>1, <2>2, <2>5, Zenon
    <3>3. CASE i = Len(dst) + 1 /\ j \in 1 .. Len(dst)
      BY <3>3, <2>1, <2>2, <2>5, Zenon
    <3> QED BY <2>4, <3>1, <3>2, <3>3
  <2>6. \A i \in 1 .. Len(ext) : ext[i] = t \/ \E j \in 1 .. Len(dst) : ext[i] = dst[j]
    BY <2>1, <2>4, Zenon
  <2>7. \A j \in 1 .. Len(dst) : \E i \in 1 .. Len(ext) : ext[i] = dst[j]
    BY <2>1, <2>4, Zenon
  <2> QED BY <2>1, <2>4, <2>5, <2>6, <2>7, Zenon
<1>10. Len(old) \in Nat /\ Len(dst) \in Nat /\ Len(old) >= 1
  BY <1>1, <1>2, <1>3
<1>11. list' \in [Statuses -> Seq(Tasks)]
  BY <1>4, <1>8, <1>9
<1>12. count' \in [Statuses -> Nat]
  BY <1>2, <1>3, <1>4, <1>10
<1>13. ASSUME NEW s \in Statuses
       PROVE  /\ count'[s] = Len(list'[s])
              /\ \A i, j \in 1 .. Len(list'[s]) : list'[s][i] = list'[s][j] => i = j
              /\ \A i \in 1 .. Len(list'[s]) : status'[list'[s][i]] = s
  <2>1. CASE s = from
    <3>1. \A i \in 1 .. Len(cut) : status'[cut[i]] = from
      <4>1. ASSUME NEW i \in 1 .. Len(cut)
            PROVE  status'[cut[i]] = from
        <5>1. PICK j \in 1 .. Len(old) : cut[i] = old[j]
          BY <1>8, Zenon
        <5>2. old[j] \in Tasks \ {t} /\ status[old[j]] = from
          <6>1. cut[i] # t
            BY <1>8, Zenon
          <6> QED BY <1>2, <5>1, <6>1
        <5> QED BY <1>7, <5>1, <5>2, Zenon
      <4> QED BY <4>1
    <3>2. count'[s] = Len(cut)
      BY <2>1, <1>2, <1>6, <1>8
    <3>3. list'[s] = cut
      BY <2>1, <1>5
    <3>4. \A i, j \in 1 .. Len(cut) : cut[i] = cut[j] => i = j
      BY <1>8, Zenon
    <3> HIDE <2>1
    <3>5. \A i \in 1 .. Len(cut) : status'[cut[i]] = s
      BY <2>1, <3>1, Zenon
    <3> QED BY <3>2, <3>3, <3>4, <3>5, Zenon
  <2>2. CASE s = to
    <3>1. \A i \in 1 .. Len(ext) : status'[ext[i]] = to
      <4>1. ASSUME NEW i \in 1 .. Len(ext)
            PROVE  status'[ext[i]] = to
        <5>1. CASE ext[i] = t
          BY <5>1, <1>7
        <5>2. CASE ext[i] # t
          <6>1. PICK j \in 1 .. Len(dst) : ext[i] = dst[j]
            BY <5>2, <1>9, Zenon
          <6>2. dst[j] \in Tasks \ {t} /\ status[dst[j]] = to
            BY <1>3, <6>1, <5>2
          <6> QED BY <1>7, <6>1, <6>2, Zenon
        <5> QED BY <5>1, <5>2
      <4> QED BY <4>1
    <3>2. count'[s] = Len(ext)
      BY <2>2, <1>3, <1>6, <1>9
    <3>3. list'[s] = ext
      BY <2>2, <1>5
    <3>4. \A i, j \in 1 .. Len(ext) : ext[i] = ext[j] => i = j
      BY <1>9, Zenon
    <3> HIDE <2>2
    <3>5. \A i \in 1 .. Len(ext) : status'[ext[i]] = s
      BY <2>2, <3>1, Zenon
    <3> QED BY <3>2, <3>3, <3>4, <3>5, Zenon
  <2>3. CASE s \notin {from, to}
    <3>1. list'[s] = list[s] /\ count'[s] = count[s]
      BY <2>3, <1>5, <1>6
    <3>2. \A i \in 1 .. Len(list[s]) : list[s][i] \in Tasks /\ status[list[s][i]] = s
      BY ElementOfSeq DEF ListsPartition, ListsAgree
    <3>3. \A i \in 1 .. Len(list[s]) : status'[list[s][i]] = s
      BY <2>3, <3>2, <1>7
    <3> QED BY <3>1, <3>3 DEF ListsPartition, ListsAgree
  <2> QED BY <2>1, <2>2, <2>3
<1>14. ASSUME NEW u \in Tasks
       PROVE  \E i \in 1 .. Len(list'[status'[u]]) : list'[status'[u]][i] = u
  <2>1. CASE u = t
    BY <2>1, <1>5, <1>7, <1>9, Zenon
  <2>2. CASE u # t
    <3>1. status'[u] = status[u] /\ status[u] \in Statuses
      BY <2>2, <1>7
    <3>2. PICK i \in 1 .. Len(list[status[u]]) : list[status[u]][i] = u
      BY DEF ListsPartition, NoTaskLost
    <3>3. CASE status[u] = from
      <4>1. i \in 1 .. Len(old) /\ old[i] = u
        BY <3>2, <3>3 DEF old
      <4>2. \E j \in 1 .. Len(cut) : cut[j] = u
        BY <4>1, <2>2, <1>8, Zenon
      <4> QED BY <4>2, <3>1, <3>3, <1>5
    <3>4. CASE status[u] = to
      <4>1. i \in 1 .. Len(dst) /\ dst[i] = u
        BY <3>2, <3>4 DEF dst
      <4>2. \E j \in 1 .. Len(ext) : ext[j] = u
        BY <4>1, <1>9, Zenon
      <4> QED BY <4>2, <3>1, <3>4, <1>5
    <3>5. CASE status[u] \notin {from, to}
      BY <3>1, <3>2, <3>5, <1>5
    <3> QED BY <3>3, <3>4, <3>5
  <2> QED BY <2>1, <2>2
<1>15. ListsPartition'
  BY <1>13, <1>14 DEF ListsPartition, ListsAgree, NoTaskLost
<1> QED BY <1>7, <1>11, <1>12, <1>15

-----------------------------------------------------------------------------
(* The port a thread uses and the statuses of that port.                   *)
LEMMA PortFacts ==
    ASSUME NEW th \in Threads
    PROVE  /\ PortOf[th] \in Ports
           /\ StatusCurr(PortOf[th]) \in PortStatuses
           /\ NextOnEnqueue(PortOf[th]) \in PortStatuses
           /\ NextOnDequeue(PortOf[th]) \in Statuses \ PortStatuses
           /\ PortStatuses \subseteq Statuses
BY PortsAssumption
   DEF Ports, PortStatuses, Statuses, StatusCurr, NextOnEnqueue, NextOnDequeue

(* A signal moves at most one thread, and only from waiting to woken.      *)
LEMMA SignalKeepsWaiters ==
    ASSUME NEW s \in PortStatuses, Signal(s),
           blocked \in [PortStatuses -> SUBSET Threads],
           woken \in [PortStatuses -> SUBSET Threads]
    PROVE  /\ blocked' \in [PortStatuses -> SUBSET Threads]
           /\ woken' \in [PortStatuses -> SUBSET Threads]
           /\ \A r \in PortStatuses :
                 /\ blocked'[r] \union woken'[r] = blocked[r] \union woken[r]
                 /\ blocked[r] \intersect woken[r] = {}
                    => blocked'[r] \intersect woken'[r] = {}
BY DEF Signal

(* Whatever the threads on the two ports interleave, the queue keeps its   *)
(* types, its lists partition the tasks, and every task in a hold list is  *)
(* in the hands of one thread.                                             *)
THEOREM PortsInvariant == Spec => []IInv
<1>1. Init => IInv
  <2> SUFFICES ASSUME Init PROVE IInv
    OBVIOUS
  <2> USE DEF Init, QueueInit
  <2>1. TypeOK
    BY DEF TypeOK, QueueTypeOK, Statuses, PortStatuses
  <2>2. NothingBeforeSetup
    BY DEF NothingBeforeSetup
  <2>3. ListsPartition
    BY DEF ListsPartition, ListsAgree, NoTaskLost
  <2>4. HeldOnce
    BY PortsAssumption DEF HeldOnce
  <2>5. WaitersInPoll
    BY DEF WaitersInPoll
  <2> QED BY <2>1, <2>2, <2>3, <2>4, <2>5 DEF IInv
<1>2. IInv /\ [Next]_vars => IInv'
  <2> SUFFICES ASSUME IInv, [Next]_vars PROVE IInv'
    OBVIOUS
  <2> USE DEF IInv, TypeOK, QueueTypeOK
  <2>1. CASE SetupQueue
    <3> DEFINE all == [i \in Tasks |-> i]
    <3>1. /\ life = "inited" /\ life' = "ready"
          /\ list' = [list EXCEPT !["INPUT_PORT"] = @ \o all]
          /\ count' = [count EXCEPT !["INPUT_PORT"] = @ + TaskCount]
          /\ UNCHANGED <<status, blocked, woken, pc, held>>
      BY <2>1 DEF SetupQueue, Setup, clientVars
    <3>2. /\ all \in Seq(Tasks) /\ Len(all) = TaskCount
          /\ \A i \in 1 .. TaskCount : all[i] = i
      BY TaskCountAssumption DEF Tasks
    <3> HIDE DEF all
    <3>3. "INPUT_PORT" \in Statuses /\ \A s \in Statuses : list[s] = <<>>
      BY <3>1 DEF NothingBeforeSetup, Statuses
    <3>4. list["INPUT_PORT"] \o all = all
      BY <3>2, <3>3, ConcatEmptySeq
    <3>5. list' = [list EXCEPT !["INPUT_PORT"] = all]
      BY <3>1, <3>4
    <3>6. list'["INPUT_PORT"] = all /\ \A s \in Statuses \ {"INPUT_PORT"} : list'[s] = <<>>
      BY <3>3, <3>5
    <3>7. /\ count'["INPUT_PORT"] = TaskCount
          /\ \A s \in Statuses \ {"INPUT_PORT"} : count'[s] = 0
      BY <3>1, <3>3, TaskCountAssumption DEF ListsPartition, ListsAgree
    <3>8. TypeOK'
      <4>1. list' \in [Statuses -> Seq(Tasks)]
        BY <3>2, <3>3, <3>5
      <4>2. count' \in [Statuses -> Nat]
        BY <3>1, <3>3, TaskCountAssumption
      <4> QED BY <3>1, <4>1, <4>2
    <3>9. \A t \in Tasks : status'[t] = "INPUT_PORT"
      BY <3>1 DEF NothingBeforeSetup
    <3>10. ListsAgree'
      <4> SUFFICES ASSUME NEW s \in Statuses
                   PROVE  /\ count'[s] = Len(list'[s])
                          /\ \A i, j \in 1 .. Len(list'[s]) :
                                list'[s][i] = list'[s][j] => i = j
                          /\ \A i \in 1 .. Len(list'[s]) : status'[list'[s][i]] = s
        BY DEF ListsAgree
      <4>1. CASE s = "INPUT_PORT"
        <5>1. list'[s] = all /\ count'[s] = Len(all)
          BY <4>1, <3>2, <3>6, <3>7
        <5>2. \A i \in 1 .. Len(all) : all[i] = i /\ status'[all[i]] = s
          BY <4>1, <3>2, <3>9 DEF Tasks
        <5> QED BY <5>1, <5>2
      <4>2. CASE s # "INPUT_PORT"
        <5>1. list'[s] = <<>> /\ count'[s] = 0
          BY <4>2, <3>6, <3>7
        <5> QED BY <5>1
      <4> QED BY <4>1, <4>2
    <3>11. NoTaskLost'
      BY <3>2, <3>6, <3>9 DEF NoTaskLost, Tasks
    <3>12. NothingBeforeSetup' /\ HeldOnce' /\ WaitersInPoll'
      BY <3>1 DEF NothingBeforeSetup, HeldOnce, WaitersInPoll
    <3> QED BY <3>8, <3>10, <3>11, <3>12 DEF ListsPartition
  <2>2. ASSUME NEW th \in Threads, PollFindsTask(th)
        PROVE  IInv'
    BY <2>2 DEF PollFindsTask, PollHit, Goto, queueVars, NothingBeforeSetup,
       ListsPartition, ListsAgree, NoTaskLost, HeldOnce, WaitersInPoll
  <2>3. ASSUME NEW th \in Threads, PollBlocks(th)
        PROVE  IInv'
    <3> USE <2>3 DEF PollBlocks, PollWait
    <3>1. /\ UNCHANGED <<life, list, count, status, held>>
          /\ pc' \in [Threads -> {"idle", "block", "timed", "polled", "hold"}]
      BY DEF Goto
    <3>2. /\ blocked' \in [PortStatuses -> SUBSET Threads]
          /\ woken' \in [PortStatuses -> SUBSET Threads]
      BY PortFacts
    <3>3. TypeOK' /\ NothingBeforeSetup' /\ ListsPartition'
      BY <3>1, <3>2 DEF NothingBeforeSetup, ListsPartition, ListsAgree, NoTaskLost
    <3>4. HeldOnce'
      BY <3>1 DEF Goto, HeldOnce
    <3>5. WaitersInPoll'
      BY PortFacts DEF Goto, WaitersInPoll
    <3> QED BY <3>3, <3>4, <3>5
  <2>4. ASSUME NEW th \in Threads, PollAnswers(th)
        PROVE  IInv'
    <3> USE <2>4 DEF PollAnswers, PollWake, PollTimeout
    <3>1. /\ UNCHANGED <<life, list, count, status, held>>
          /\ pc' \in [Threads -> {"idle", "block", "timed", "polled", "hold"}]
      BY DEF Goto
    <3>2. /\ blocked' \in [PortStatuses -> SUBSET Threads]
          /\ woken' \in [PortStatuses -> SUBSET Threads]
      BY PortFacts
    <3>3. TypeOK' /\ NothingBeforeSetup' /\ ListsPartition'
      BY <3>1, <3>2 DEF NothingBeforeSetup, ListsPartition, ListsAgree, NoTaskLost
    <3>4. HeldOnce'
      BY <3>1 DEF Goto, HeldOnce
    <3>5. WaitersInPoll'
      <4> DEFINE curr == StatusCurr(PortOf[th])
      <4>1. curr \in PortStatuses
        BY PortFacts
      <4>2. \A ot \in Threads \ {th} : pc'[ot] = pc[ot]
        BY DEF Goto
      <4>3. ASSUME NEW r \in PortStatuses
            PROVE  /\ th \notin blocked'[r] /\ th \notin woken'[r]
                   /\ blocked'[r] \subseteq blocked[r] /\ woken'[r] \subseteq woken[r]
        <5>1. r # curr => th \notin blocked[r] /\ th \notin woken[r]
          BY DEF WaitersInPoll
        <5>2. ~(th \in blocked[curr] /\ th \in woken[curr])
          BY <4>1 DEF WaitersInPoll
        <5> HIDE DEF curr
        <5>3. CASE PollWake(th, PortOf[th])
          BY <4>1, <5>1, <5>2, <5>3 DEF curr
        <5>4. CASE PollTimeout(th, PortOf[th])
          BY <4>1, <5>1, <5>2, <5>4 DEF curr
        <5> QED BY <5>3, <5>4
      <4> QED BY <4>2, <4>3 DEF WaitersInPoll
    <3> QED BY <3>3, <3>4, <3>5
  <2>5. ASSUME NEW th \in Threads, DequeueEmpty(th)
        PROVE  IInv'
    BY <2>5 DEF DequeueEmpty, DequeueNone, Goto, queueVars, NothingBeforeSetup,
       ListsPartition, ListsAgree, NoTaskLost, HeldOnce, WaitersInPoll
  <2>6. ASSUME NEW th \in Threads, DequeueTask(th)
        PROVE  IInv'
    <3>1. PICK t \in Tasks : Dequeue(PortOf[th], t) /\ held' = [held EXCEPT ![th] = t]
      BY <2>6 DEF DequeueTask
    <3>2. PICK from \in {"idle", "polled"} : Goto(th, from, "hold")
      BY <2>6 DEF DequeueTask
    <3> DEFINE curr == StatusCurr(PortOf[th])
               next == NextOnDequeue(PortOf[th])
    <3>3. curr \in PortStatuses /\ curr \in Statuses /\ next \in Statuses \ PortStatuses
      BY PortFacts
    <3>4. status[t] = curr
      <4>1. count[curr] = Len(list[curr]) /\ list[curr] \in Seq(Tasks)
        BY <3>3 DEF ListsPartition, ListsAgree
      <4>2. count[curr] > 0 /\ t = Head(list[curr])
        BY <3>1 DEF Dequeue, HasTask
      <4>3. 1 \in 1 .. Len(list[curr]) /\ t = list[curr][1]
        BY <4>1, <4>2
      <4> QED BY <3>3, <4>3 DEF ListsPartition, ListsAgree
    <3>5. life = "ready" /\ MoveTask(t, curr, next) /\ UNCHANGED <<life, blocked, woken>>
      BY <3>1 DEF Dequeue
    <3> HIDE DEF curr, next
    <3>6. /\ list' \in [Statuses -> Seq(Tasks)]
          /\ count' \in [Statuses -> Nat]
          /\ status' \in [Tasks -> Statuses]
          /\ ListsPartition'
      <4>1. life # "inited" /\ life' = life /\ curr # next
        BY <3>3, <3>5
      <4> QED BY <3>3, <3>4, <3>5, <4>1, MoveKeepsLists
    <3>7. TypeOK' /\ NothingBeforeSetup'
      BY <3>1, <3>2, <3>5, <3>6 DEF Goto, NothingBeforeSetup
    <3>8. status' = [status EXCEPT ![t] = next]
      BY <3>5 DEF MoveTask
    <3>9. \A ot \in Threads : held[ot] # t
      <4>1. ASSUME NEW ot \in Threads, held[ot] = t
            PROVE  FALSE
        <5>1. held[ot] # NoTask
          BY <4>1, PortsAssumption
        <5>2. status[t] = NextOnDequeue(PortOf[ot])
          BY <4>1, <5>1 DEF HeldOnce
        <5> QED BY <3>3, <3>4, <5>2, PortFacts
      <4> QED BY <4>1
    <3>10. HeldOnce'
      <4>1. \A ot \in Threads : pc'[ot] = "hold" <=> held'[ot] # NoTask
        BY <3>1, <3>2, PortsAssumption DEF Goto, HeldOnce
      <4>2. \A ot \in Threads :
               held'[ot] # NoTask => status'[held'[ot]] = NextOnDequeue(PortOf[ot])
        BY <3>1, <3>8, <3>9 DEF HeldOnce, next
      <4>3. \A ot, pt \in Threads : held'[ot] # NoTask /\ held'[ot] = held'[pt] => ot = pt
        BY <3>1, <3>9 DEF HeldOnce
      <4>4. ASSUME NEW u \in Tasks, status'[u] \in {"INPUT_HOLD", "OUTPUT_HOLD"}
            PROVE  \E ot \in Threads : held'[ot] = u
        <5>1. CASE u = t
          BY <3>1, <5>1
        <5>2. CASE u # t
          <6>1. PICK ot \in Threads : held[ot] = u
            BY <3>8, <4>4, <5>2 DEF HeldOnce
          <6>2. ot # th
            BY <3>2, <6>1, PortsAssumption DEF Goto, HeldOnce
          <6> QED BY <3>1, <6>1, <6>2
        <5> QED BY <5>1, <5>2
      <4> QED BY <4>1, <4>2, <4>3, <4>4 DEF HeldOnce
    <3>11. WaitersInPoll'
      BY <3>2, <3>5 DEF Goto, WaitersInPoll
    <3> QED BY <3>6, <3>7, <3>10, <3>11
  <2>7. ASSUME NEW th \in Threads, EnqueueTask(th)
        PROVE  IInv'
    <3> DEFINE t == held[th]
               from == status[t]
               next == NextOnEnqueue(PortOf[th])
    <3>1. /\ Goto(th, "hold", "idle") /\ held' = [held EXCEPT ![th] = NoTask]
          /\ life = "ready" /\ life' = life
          /\ MoveTask(t, from, next) /\ Signal(next)
      BY <2>7 DEF EnqueueTask, Enqueue
    <3>2. t \in Tasks /\ from = NextOnDequeue(PortOf[th])
      BY <3>1 DEF Goto, HeldOnce
    <3>3. from \in Statuses \ PortStatuses /\ next \in PortStatuses /\ next \in Statuses
      BY <3>2, PortFacts
    <3> HIDE DEF from, next, t
    <3>4. /\ list' \in [Statuses -> Seq(Tasks)]
          /\ count' \in [Statuses -> Nat]
          /\ status' \in [Tasks -> Statuses]
          /\ ListsPartition'
      <4>1. life # "inited" /\ from # next /\ status[t] = from
        BY <3>1, <3>3 DEF from
      <4> QED BY <3>1, <3>2, <3>3, <4>1, MoveKeepsLists
    <3>5. /\ blocked' \in [PortStatuses -> SUBSET Threads]
          /\ woken' \in [PortStatuses -> SUBSET Threads]
          /\ \A r \in PortStatuses :
                /\ blocked'[r] \union woken'[r] = blocked[r] \union woken[r]
                /\ blocked[r] \intersect woken[r] = {}
                   => blocked'[r] \intersect woken'[r] = {}
      BY <3>1, <3>3, SignalKeepsWaiters
    <3>6. TypeOK' /\ NothingBeforeSetup'
      BY <3>1, <3>4, <3>5 DEF Goto, NothingBeforeSetup
    <3>7. status' = [status EXCEPT ![t] = next]
      BY <3>1 DEF MoveTask
    <3>8. \A ot \in Threads \ {th} : held[ot] # t
      BY <3>2, PortsAssumption DEF HeldOnce, t
    <3>9. HeldOnce'
      <4>1. \A ot \in Threads : pc'[ot] = "hold" <=> held'[ot] # NoTask
        BY <3>1 DEF Goto, HeldOnce
      <4>2. \A ot \in Threads :
               held'[ot] # NoTask => status'[held'[ot]] = NextOnDequeue(PortOf[ot])
        BY <3>1, <3>7, <3>8 DEF HeldOnce
      <4>3. \A ot, pt \in Threads : held'[ot] # NoTask /\ held'[ot] = held'[pt] => ot = pt
        BY <3>1 DEF HeldOnce
      <4>4. ASSUME NEW u \in Tasks, status'[u] \in {"INPUT_HOLD", "OUTPUT_HOLD"}
            PROVE  \E ot \in Threads : held'[ot] = u
        <5>1. u # t
          BY <3>2, <3>3, <3>7, <4>4 DEF PortStatuses
        <5>2. PICK ot \in Threads : held[ot] = u
          BY <3>7, <4>4, <5>1 DEF HeldOnce
        <5> QED BY <3>1, <5>1, <5>2 DEF t
      <4> QED BY <4>1, <4>2, <4>3, <4>4 DEF HeldOnce
    <3>10. WaitersInPoll'
      <4> SUFFICES ASSUME NEW ot \in Threads, NEW r \in PortStatuses
                   PROVE  /\ ot \in blocked'[r] \union woken'[r] =>
                                /\ r = StatusCurr(PortOf[ot])
                                /\ pc'[ot] \in {"block", "timed"}
                          /\ ~(ot \in blocked'[r] /\ ot \in woken'[r])
        BY DEF WaitersInPoll
      <4>1. blocked[r] \intersect woken[r] = {}
        BY DEF WaitersInPoll
      <4>2. ~(ot \in blocked'[r] /\ ot \in woken'[r])
        BY <3>5, <4>1
      <4>3. ASSUME ot \in blocked'[r] \union woken'[r]
            PROVE  r = StatusCurr(PortOf[ot]) /\ pc'[ot] \in {"block", "timed"}
        <5>1. ot \in blocked[r] \union woken[r]
          BY <3>5, <4>3
        <5> QED BY <3>1, <5>1 DEF Goto, WaitersInPoll
      <4> QED BY <4>2, <4>3
    <3> QED BY <3>4, <3>6, <3>9, <3>10
  <2>8. ASSUME NEW p \in Ports, AwakePort(p)
        PROVE  IInv'
    <3>1. /\ Signal(StatusCurr(p)) /\ StatusCurr(p) \in PortStatuses
          /\ UNCHANGED <<life, list, count, status, pc, held>>
      BY <2>8 DEF AwakePort, Awake, clientVars, StatusCurr, PortStatuses, Ports
    <3>2. /\ blocked' \in [PortStatuses -> SUBSET Threads]
          /\ woken' \in [PortStatuses -> SUBSET Threads]
          /\ \A r \in PortStatuses :
                /\ blocked'[r] \union woken'[r] = blocked[r] \union woken[r]
                /\ blocked[r] \intersect woken[r] = {}
                   => blocked'[r] \intersect woken'[r] = {}
      BY <3>1, SignalKeepsWaiters
    <3>3. TypeOK' /\ NothingBeforeSetup' /\ ListsPartition' /\ HeldOnce'
      BY <3>1, <3>2 DEF NothingBeforeSetup, ListsPartition, ListsAgree, NoTaskLost, HeldOnce
    <3>4. WaitersInPoll'
      <4> SUFFICES ASSUME NEW ot \in Threads, NEW r \in PortStatuses
                   PROVE  /\ ot \in blocked'[r] \union woken'[r] =>
                                /\ r = StatusCurr(PortOf[ot])
                                /\ pc'[ot] \in {"block", "timed"}
                          /\ ~(ot \in blocked'[r] /\ ot \in woken'[r])
        BY DEF WaitersInPoll
      <4>1. blocked[r] \intersect woken[r] = {}
        BY DEF WaitersInPoll
      <4> QED BY <3>1, <3>2, <4>1 DEF WaitersInPoll
    <3> QED BY <3>3, <3>4
  <2>9. CASE UNCHANGED vars
    BY <2>9 DEF vars, NothingBeforeSetup, ListsPartition, ListsAgree, NoTaskLost,
       HeldOnce, WaitersInPoll
  <2> QED BY <2>1, <2>2, <2>3, <2>4, <2>5, <2>6, <2>7, <2>8, <2>9 DEF Next, Client
<1> QED BY <1>1, <1>2, PTL DEF Spec

(* The types of the queue's and the clients' variables.                    *)
THEOREM PortsTypeOK == Spec => []TypeOK
BY PortsInvariant, PTL DEF IInv

(* At any number of tasks and threads, the four lists partition the tasks. *)
THEOREM PortsListsPartition == Spec => []ListsPartition
BY PortsInvariant, PTL DEF IInv

(* No two threads ever hold the same task.                                 *)
THEOREM PortsHeldOnce == Spec => []HeldOnce
BY PortsInvariant, PTL DEF IInv

-----------------------------------------------------------------------------
(* Taking the first entry of a list leaves its tail.                       *)
LEMMA UnlinkHead ==
    ASSUME NEW S, NEW s \in Seq(S), s # <<>>,
           \A i, j \in 1 .. Len(s) : s[i] = s[j] => i = j
    PROVE  Unlink(s, Head(s)) = Tail(s)
<1>1. 1 \in 1 .. Len(s) /\ Head(s) = s[1] /\ Len(s) \in Nat
  OBVIOUS
<1>2. /\ Unlink(s, s[1]) \in Seq(S)
      /\ Len(Unlink(s, s[1])) = Len(s) - 1
      /\ \A i \in 1 .. Len(s) - 1 :
            Unlink(s, s[1])[i] = IF i < 1 THEN s[i] ELSE s[i + 1]
  BY <1>1, UnlinkProperties, Zenon
<1>3. /\ Tail(s) \in Seq(S)
      /\ Len(Tail(s)) = Len(s) - 1
      /\ \A i \in 1 .. Len(s) - 1 : Tail(s)[i] = s[i + 1]
  BY <1>1, HeadTailProperties
<1>4. ASSUME NEW i \in 1 .. Len(s) - 1
      PROVE  Unlink(s, s[1])[i] = Tail(s)[i]
  <2>1. ~(i < 1)
    BY <1>1
  <2>2. Unlink(s, s[1])[i] = IF i < 1 THEN s[i] ELSE s[i + 1]
    BY <1>2, Zenon
  <2>3. Tail(s)[i] = s[i + 1]
    BY <1>3, Zenon
  <2> QED BY <2>1, <2>2, <2>3
<1>5. Unlink(s, s[1]) = Tail(s)
  <2> DEFINE cut == Unlink(s, s[1])
  <2>1. cut \in Seq(S) /\ Tail(s) \in Seq(S) /\ Len(cut) = Len(Tail(s))
    BY <1>2, <1>3, Zenon
  <2>2. \A i \in 1 .. Len(cut) : cut[i] = Tail(s)[i]
    BY <1>2, <1>4
  <2> HIDE DEF cut
  <2>3. cut = Tail(s)
    BY <2>1, <2>2, SeqEqual
  <2> QED BY <2>3 DEF cut
<1> QED BY <1>1, <1>5

(* A dequeue takes the head of its port's list, and an enqueue a task that *)
(* the caller holds: what the ring sees of a step.                         *)
LEMMA DequeueLists ==
    ASSUME IInv, NEW p \in Ports, NEW t \in Tasks, Dequeue(p, t)
    PROVE  LET curr == StatusCurr(p)
               next == NextOnDequeue(p)
           IN  /\ list[curr] # <<>> /\ t = Head(list[curr])
               /\ list'[curr] = Tail(list[curr])
               /\ TasksOf(next)' = TasksOf(next) \union {t}
               /\ \A s \in Statuses \ {curr, next} : list'[s] = list[s]
<1> DEFINE curr == StatusCurr(p)
           next == NextOnDequeue(p)
<1>1. curr \in Statuses /\ next \in Statuses /\ curr # next
  BY DEF Ports, Statuses, StatusCurr, NextOnDequeue
<1>2. /\ count[curr] > 0 /\ t = Head(list[curr])
      /\ list' = [list EXCEPT ![curr] = Unlink(@, t), ![next] = Append(@, t)]
  BY DEF Dequeue, HasTask, MoveTask
<1> HIDE DEF curr, next
<1>3. /\ list \in [Statuses -> Seq(Tasks)]
      /\ count[curr] = Len(list[curr])
      /\ \A i, j \in 1 .. Len(list[curr]) : list[curr][i] = list[curr][j] => i = j
  BY <1>1 DEF IInv, TypeOK, QueueTypeOK, ListsPartition, ListsAgree
<1>4. list[curr] \in Seq(Tasks) /\ list[next] \in Seq(Tasks) /\ list[curr] # <<>>
  BY <1>1, <1>2, <1>3
<1>5. Unlink(list[curr], Head(list[curr])) = Tail(list[curr])
  BY <1>3, <1>4, UnlinkHead
<1>6. /\ list'[curr] = Tail(list[curr])
      /\ list'[next] = Append(list[next], t)
      /\ \A s \in Statuses \ {curr, next} : list'[s] = list[s]
  BY <1>1, <1>2, <1>3, <1>5
<1>7. TasksOf(next)' = TasksOf(next) \union {t}
  <2>1. /\ Len(Append(list[next], t)) = Len(list[next]) + 1
        /\ \A i \in 1 .. Len(list[next]) : Append(list[next], t)[i] = list[next][i]
        /\ Append(list[next], t)[Len(list[next]) + 1] = t
        /\ Len(list[next]) \in Nat
    BY <1>4
  <2> QED BY <1>6, <2>1 DEF TasksOf
<1> QED BY <1>2, <1>4, <1>6, <1>7 DEF curr, next

LEMMA EnqueueLists ==
    ASSUME IInv, NEW th \in Threads, pc[th] = "hold", Enqueue(PortOf[th], held[th])
    PROVE  LET hold == NextOnDequeue(PortOf[th])
               next == NextOnEnqueue(PortOf[th])
           IN  /\ held[th] \in TasksOf(hold)
               /\ TasksOf(hold)' = TasksOf(hold) \ {held[th]}
               /\ list'[next] = Append(list[next], held[th])
               /\ \A s \in Statuses \ {hold, next} : list'[s] = list[s]
<1> DEFINE t    == held[th]
           hold == NextOnDequeue(PortOf[th])
           next == NextOnEnqueue(PortOf[th])
<1>1. hold \in Statuses /\ next \in Statuses /\ hold # next
  BY PortFacts
<1>2. t \in Tasks /\ status[t] = hold
  BY DEF IInv, HeldOnce, TypeOK
<1>3. list' = [list EXCEPT ![hold] = Unlink(@, t), ![next] = Append(@, t)]
  BY <1>2 DEF Enqueue, MoveTask
<1>4. life # "inited"
  BY DEF Enqueue
<1> HIDE DEF t, hold, next
<1>5. PICK k \in 1 .. Len(list[hold]) : list[hold][k] = t
  BY <1>2, <1>4 DEF IInv, ListsPartition, NoTaskLost
<1>6. /\ list \in [Statuses -> Seq(Tasks)] /\ list[hold] \in Seq(Tasks)
      /\ \A i, j \in 1 .. Len(list[hold]) : list[hold][i] = list[hold][j] => i = j
  BY <1>1 DEF IInv, TypeOK, QueueTypeOK, ListsPartition, ListsAgree
<1> DEFINE cut == Unlink(list[hold], t)
<1>7. /\ \A i \in 1 .. Len(cut) :
            cut[i] # t /\ \E j \in 1 .. Len(list[hold]) : cut[i] = list[hold][j]
      /\ \A j \in 1 .. Len(list[hold]) :
            list[hold][j] # t => \E i \in 1 .. Len(cut) : cut[i] = list[hold][j]
  <2>1. LET c == Unlink(list[hold], list[hold][k])
        IN  /\ c \in Seq(Tasks)
            /\ Len(c) = Len(list[hold]) - 1
            /\ \A i, j \in 1 .. Len(c) : c[i] = c[j] => i = j
            /\ \A i \in 1 .. Len(c) :
                  /\ c[i] # list[hold][k]
                  /\ \E j \in 1 .. Len(list[hold]) : c[i] = list[hold][j]
            /\ \A j \in 1 .. Len(list[hold]) :
                  list[hold][j] # list[hold][k] =>
                      \E i \in 1 .. Len(c) : c[i] = list[hold][j]
    BY <1>6, UnlinkDistinct, ZenonT(60)
  <2> QED BY <1>5, <2>1, Zenon
<1>8. /\ list'[hold] = cut
      /\ list'[next] = Append(list[next], t)
      /\ \A s \in Statuses \ {hold, next} : list'[s] = list[s]
  BY <1>1, <1>3, <1>6
<1> HIDE DEF cut
<1>9. TasksOf(hold)' = TasksOf(hold) \ {t}
  <2>1. TasksOf(hold)' = {cut[i] : i \in 1 .. Len(cut)}
    BY <1>8 DEF TasksOf
  <2>2. TasksOf(hold) = {list[hold][i] : i \in 1 .. Len(list[hold])}
    BY DEF TasksOf
  <2>3. ASSUME NEW u
        PROVE  (\E i \in 1 .. Len(cut) : u = cut[i]) <=>
                   (\E i \in 1 .. Len(list[hold]) : u = list[hold][i]) /\ u # t
    BY <1>7, Zenon
  <2> QED BY <2>1, <2>2, <2>3
<1>10. t \in TasksOf(hold)
  BY <1>5 DEF TasksOf
<1> QED BY <1>8, <1>9, <1>10 DEF t, hold, next

(* The poll of a thread that is alone on its port keeps its promise: only  *)
(* that thread takes tasks from the port.                                  *)
THEOREM PortsPollPromiseKept == Spec => []PollPromiseKept
<1>1. Init => PollPromiseKept
  BY DEF Init, PollPromiseKept
<1>2. IInv /\ PollPromiseKept /\ [Next]_vars => PollPromiseKept'
  <2> SUFFICES ASSUME IInv, PollPromiseKept, [Next]_vars,
                      NEW th \in Threads, pc'[th] = "polled",
                      \A ot \in Threads \ {th} : PortOf[ot] # PortOf[th]
               PROVE  HasTask(PortOf[th])'
    BY DEF PollPromiseKept
  <2> DEFINE curr == StatusCurr(PortOf[th])
  <2>1. curr \in PortStatuses /\ curr \in Statuses /\ count \in [Statuses -> Nat]
    BY PortFacts DEF IInv, TypeOK, QueueTypeOK
  <2>2. pc \in [Threads -> {"idle", "block", "timed", "polled", "hold"}]
    BY DEF IInv, TypeOK
  <2>3. pc[th] = "polled" => count[curr] > 0
    BY DEF PollPromiseKept, HasTask
  <2>4. SUFFICES count'[curr] > 0
    BY DEF HasTask
  <2>5. CASE SetupQueue
    <3>1. pc[th] = "polled" /\ count' = [count EXCEPT !["INPUT_PORT"] = @ + TaskCount]
      BY <2>5 DEF SetupQueue, Setup, clientVars
    <3> QED BY <2>1, <2>3, <3>1, TaskCountAssumption
  <2>6. ASSUME NEW ot \in Threads, PollFindsTask(ot)
        PROVE  count'[curr] > 0
    <3>1. CASE ot = th
      BY <2>6, <3>1 DEF PollFindsTask, PollHit, HasTask, queueVars
    <3>2. CASE ot # th
      BY <2>2, <2>3, <2>6, <3>2 DEF PollFindsTask, PollHit, queueVars, Goto
    <3> QED BY <3>1, <3>2
  <2>7. ASSUME NEW ot \in Threads, PollBlocks(ot)
        PROVE  count'[curr] > 0
    BY <2>2, <2>3, <2>7 DEF PollBlocks, PollWait, Goto
  <2>8. ASSUME NEW ot \in Threads, PollAnswers(ot)
        PROVE  count'[curr] > 0
    <3>1. count' = count
      BY <2>8 DEF PollAnswers, PollWake, PollTimeout
    <3>2. CASE ot = th
      BY <2>2, <2>8, <3>1, <3>2 DEF PollAnswers, Goto, HasTask
    <3>3. CASE ot # th
      BY <2>2, <2>3, <2>8, <3>1, <3>3 DEF PollAnswers, Goto
    <3> QED BY <3>2, <3>3
  <2>9. ASSUME NEW ot \in Threads, DequeueEmpty(ot)
        PROVE  count'[curr] > 0
    BY <2>2, <2>3, <2>9 DEF DequeueEmpty, DequeueNone, queueVars, Goto
  <2>10. ASSUME NEW ot \in Threads, DequeueTask(ot)
         PROVE  count'[curr] > 0
    <3>1. ot # th /\ pc[th] = "polled"
      BY <2>2, <2>10 DEF DequeueTask, Goto
    <3>2. count' = [count EXCEPT ![StatusCurr(PortOf[ot])] = @ - 1,
                                 ![NextOnDequeue(PortOf[ot])] = @ + 1]
      BY <2>10 DEF DequeueTask, Dequeue, MoveTask
    <3>3. PortOf[ot] # PortOf[th] /\ PortOf[ot] \in Ports /\ PortOf[th] \in Ports
      BY <3>1, PortFacts
    <3>4. StatusCurr(PortOf[ot]) # curr /\ NextOnDequeue(PortOf[ot]) # curr
      BY <3>3 DEF Ports, StatusCurr, NextOnDequeue
    <3> QED BY <2>1, <2>3, <3>1, <3>2, <3>4
  <2>11. ASSUME NEW ot \in Threads, EnqueueTask(ot)
         PROVE  count'[curr] > 0
    <3> DEFINE from == status[held[ot]]
               next == NextOnEnqueue(PortOf[ot])
    <3>1. pc[th] = "polled"
      BY <2>2, <2>11 DEF EnqueueTask, Goto
    <3>2. count' = [count EXCEPT ![from] = @ - 1, ![next] = @ + 1]
      BY <2>11 DEF EnqueueTask, Enqueue, MoveTask
    <3>3. from = NextOnDequeue(PortOf[ot]) /\ from \in Statuses \ PortStatuses
      BY <2>11, PortFacts DEF EnqueueTask, Goto, IInv, HeldOnce
    <3>4. from # curr
      BY <2>1, <3>3
    <3> HIDE DEF from, next
    <3> QED BY <2>1, <2>3, <3>1, <3>2, <3>4
  <2>12. ASSUME NEW p \in Ports, AwakePort(p)
         PROVE  count'[curr] > 0
    BY <2>3, <2>12 DEF AwakePort, Awake, clientVars
  <2>13. CASE UNCHANGED vars
    BY <2>3, <2>13 DEF vars
  <2> QED BY <2>5, <2>6, <2>7, <2>8, <2>9, <2>10, <2>11, <2>12, <2>13 DEF Next, Client
<1> QED BY <1>1, <1>2, PortsInvariant, PTL DEF Spec

(* The queue is the first-in-first-out channel of MppTaskRing: a dequeue   *)
(* of either port takes the oldest task, an enqueue gives one that was     *)
(* taken to the other port, and nothing else is seen of a step.            *)
THEOREM PortsImplementRing == Spec => RingSpec
<1>1. Init => Ring!Init
  BY DEF Init, QueueInit, Ring!Init, TasksOf, Statuses
<1>2. IInv /\ [Next]_vars => [Ring!Next]_(Ring!ringVars)
  <2> SUFFICES ASSUME IInv, [Next]_vars
               PROVE  Ring!Next \/ UNCHANGED Ring!ringVars
    OBVIOUS
  <2> USE DEF Ring!ringVars
  <2>1. ASSUME list' = list
        PROVE  UNCHANGED Ring!ringVars
    BY <2>1 DEF TasksOf
  <2>2. CASE SetupQueue
    <3> DEFINE all == [i \in Tasks |-> i]
    <3>1. /\ list' = [list EXCEPT !["INPUT_PORT"] = @ \o all]
          /\ \A s \in Statuses : list[s] = <<>>
      BY <2>2 DEF SetupQueue, Setup, IInv, NothingBeforeSetup
    <3>2. all \in Seq(Tasks)
      BY TaskCountAssumption DEF Tasks
    <3> HIDE DEF all
    <3>3. <<>> \o all = all
      BY <3>2, ConcatEmptySeq
    <3>4. /\ list["INPUT_PORT"] = <<>> /\ list'["INPUT_PORT"] = all
          /\ list["OUTPUT_PORT"] = <<>> /\ list'["OUTPUT_PORT"] = <<>>
          /\ list["INPUT_HOLD"] = <<>> /\ list'["INPUT_HOLD"] = <<>>
          /\ list["OUTPUT_HOLD"] = <<>> /\ list'["OUTPUT_HOLD"] = <<>>
      BY <3>1, <3>3 DEF Statuses, IInv, TypeOK, QueueTypeOK
    <3>5. Ring!Provide
      BY <3>4 DEF Ring!Provide, TasksOf, all
    <3> QED BY <3>5 DEF Ring!Next
  <2>3. ASSUME NEW th \in Threads, Client(th), ~DequeueTask(th), ~EnqueueTask(th)
        PROVE  UNCHANGED Ring!ringVars
    BY <2>1, <2>3 DEF Client, PollFindsTask, PollHit, PollBlocks, PollWait, PollAnswers,
       PollWake, PollTimeout, DequeueEmpty, DequeueNone, queueVars
  <2>4. ASSUME NEW th \in Threads, DequeueTask(th)
        PROVE  Ring!Next
    <3>1. PICK t \in Tasks : Dequeue(PortOf[th], t)
      BY <2>4 DEF DequeueTask
    <3>2. PortOf[th] \in Ports
      BY PortFacts
    <3>3. LET curr == StatusCurr(PortOf[th])
              next == NextOnDequeue(PortOf[th])
          IN  /\ list[curr] # <<>> /\ t = Head(list[curr])
              /\ list'[curr] = Tail(list[curr])
              /\ TasksOf(next)' = TasksOf(next) \union {t}
              /\ \A s \in Statuses \ {curr, next} : list'[s] = list[s]
      BY <3>1, <3>2, DequeueLists
    <3>4. CASE PortOf[th] = "input"
      <4>1. /\ list["INPUT_PORT"] # <<>> /\ t = Head(list["INPUT_PORT"])
            /\ list'["INPUT_PORT"] = Tail(list["INPUT_PORT"])
            /\ TasksOf("INPUT_HOLD")' = TasksOf("INPUT_HOLD") \union {t}
            /\ list'["OUTPUT_PORT"] = list["OUTPUT_PORT"] /\ list'["OUTPUT_HOLD"] = list["OUTPUT_HOLD"]
        BY <3>3, <3>4 DEF StatusCurr, NextOnDequeue, Statuses
      <4>2. TasksOf("OUTPUT_HOLD")' = TasksOf("OUTPUT_HOLD")
        BY <4>1 DEF TasksOf
      <4>3. Ring!TakeEmpty
        BY <4>1, <4>2 DEF Ring!TakeEmpty
      <4> QED BY <4>3 DEF Ring!Next
    <3>5. CASE PortOf[th] = "output"
      <4>1. /\ list["OUTPUT_PORT"] # <<>> /\ t = Head(list["OUTPUT_PORT"])
            /\ list'["OUTPUT_PORT"] = Tail(list["OUTPUT_PORT"])
            /\ TasksOf("OUTPUT_HOLD")' = TasksOf("OUTPUT_HOLD") \union {t}
            /\ list'["INPUT_PORT"] = list["INPUT_PORT"] /\ list'["INPUT_HOLD"] = list["INPUT_HOLD"]
        BY <3>3, <3>5 DEF StatusCurr, NextOnDequeue, Statuses
      <4>2. TasksOf("INPUT_HOLD")' = TasksOf("INPUT_HOLD")
        BY <4>1 DEF TasksOf
      <4>3. Ring!TakeFilled
        BY <4>1, <4>2 DEF Ring!TakeFilled
      <4> QED BY <4>3 DEF Ring!Next
    <3> QED BY <3>2, <3>4, <3>5 DEF Ports
  <2>5. ASSUME NEW th \in Threads, EnqueueTask(th)
        PROVE  Ring!Next
    <3>1. pc[th] = "hold" /\ Enqueue(PortOf[th], held[th]) /\ PortOf[th] \in Ports
      BY <2>5, PortFacts DEF EnqueueTask, Goto
    <3>2. LET hold == NextOnDequeue(PortOf[th])
              next == NextOnEnqueue(PortOf[th])
          IN  /\ held[th] \in TasksOf(hold)
              /\ TasksOf(hold)' = TasksOf(hold) \ {held[th]}
              /\ list'[next] = Append(list[next], held[th])
              /\ \A s \in Statuses \ {hold, next} : list'[s] = list[s]
      BY <3>1, EnqueueLists
    <3>3. CASE PortOf[th] = "input"
      <4>1. /\ held[th] \in TasksOf("INPUT_HOLD")
            /\ TasksOf("INPUT_HOLD")' = TasksOf("INPUT_HOLD") \ {held[th]}
            /\ list'["OUTPUT_PORT"] = Append(list["OUTPUT_PORT"], held[th])
            /\ list'["INPUT_PORT"] = list["INPUT_PORT"] /\ list'["OUTPUT_HOLD"] = list["OUTPUT_HOLD"]
        BY <3>2, <3>3 DEF NextOnDequeue, NextOnEnqueue, Statuses
      <4>2. TasksOf("OUTPUT_HOLD")' = TasksOf("OUTPUT_HOLD")
        BY <4>1 DEF TasksOf
      <4>3. Ring!PutFilled(held[th])
        BY <4>1, <4>2 DEF Ring!PutFilled
      <4> QED BY <4>1, <4>3 DEF Ring!Next
    <3>4. CASE PortOf[th] = "output"
      <4>1. /\ held[th] \in TasksOf("OUTPUT_HOLD")
            /\ TasksOf("OUTPUT_HOLD")' = TasksOf("OUTPUT_HOLD") \ {held[th]}
            /\ list'["INPUT_PORT"] = Append(list["INPUT_PORT"], held[th])
            /\ list'["OUTPUT_PORT"] = list["OUTPUT_PORT"] /\ list'["INPUT_HOLD"] = list["INPUT_HOLD"]
        BY <3>2, <3>4 DEF NextOnDequeue, NextOnEnqueue, Statuses
      <4>2. TasksOf("INPUT_HOLD")' = TasksOf("INPUT_HOLD")
        BY <4>1 DEF TasksOf
      <4>3. Ring!GiveBack(held[th])
        BY <4>1, <4>2 DEF Ring!GiveBack
      <4> QED BY <4>1, <4>3 DEF Ring!Next
    <3> QED BY <3>1, <3>3, <3>4 DEF Ports
  <2>6. ASSUME NEW p \in Ports, AwakePort(p)
        PROVE  UNCHANGED Ring!ringVars
    BY <2>1, <2>6 DEF AwakePort, Awake
  <2>7. CASE UNCHANGED vars
    BY <2>1, <2>7 DEF vars
  <2> QED BY <2>2, <2>3, <2>4, <2>5, <2>6, <2>7 DEF Next
<1> QED BY <1>1, <1>2, PortsInvariant, PTL DEF Spec, RingSpec, Ring!Spec
=============================================================================
