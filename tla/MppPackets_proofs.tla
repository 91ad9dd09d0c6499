------------------------- MODULE MppPackets_proofs --------------------------
(***************************************************************************)
(* Proofs about MppPackets, for every number of packets, every depth of    *)
(* the queue and every choice of eos and extra-data packets.               *)
(***************************************************************************)
EXTENDS MppPackets, SequenceTheorems, TLAPS

(***************************************************************************)
(* What the three changes of the list do to its entries: the head of a     *)
(* list, what is left behind it, and a packet added at the tail.           *)
(***************************************************************************)
LEMMA TailEntries ==
    ASSUME NEW S, NEW s \in Seq(S), s # <<>>
    PROVE  /\ Head(s) = s[1]
           /\ Head(s) \in S
           /\ Len(s) \in Nat \ {0}
           /\ Tail(s) \in Seq(S)
           /\ Len(Tail(s)) = Len(s) - 1
           /\ \A i \in 1 .. Len(Tail(s)) : Tail(s)[i] = s[i + 1]
    OBVIOUS

LEMMA AppendEntries ==
    ASSUME NEW S, NEW s \in Seq(S), NEW x \in S
    PROVE  /\ Append(s, x) \in Seq(S)
           /\ Len(Append(s, x)) = Len(s) + 1
           /\ Append(s, x)[Len(s) + 1] = x
           /\ \A i \in 1 .. Len(s) : Append(s, x)[i] = s[i]
    OBVIOUS

(***************************************************************************)
(* The inductive invariant holds in every reachable state.  Sorted and the *)
(* token count are independent of each other, but both need the types, and *)
(* Sorted needs to know that no packet is set aside outside a reset.       *)
(***************************************************************************)
LEMMA InitIInv == Init => IInv
  <1>. SUFFICES ASSUME Init PROVE IInv
    OBVIOUS
  <1>1. /\ entries = <<>> /\ pending = 0 /\ flushFlag = FALSE
        /\ user = "idle" /\ saved = 0 /\ put = 0 /\ parser = "free" /\ pulled = 0
    BY DEF Init, MppQueueInit, NoPacket
  <1>2. entries \in Seq(Packets) /\ Len(entries) = 0
    BY <1>1
  <1>3. TypeOK
    <2>1. 0 \in 0 .. PacketCount
      BY PacketsAssumption
    <2>. QED  BY <1>1, <1>2, <2>1 DEF TypeOK, UserSteps, NoPacket
  <1>4. PostsCoverEntries
    BY <1>1, <1>2 DEF PostsCoverEntries, PostsDue, TakeDue
  <1>5. Sorted
    BY <1>1, <1>2 DEF Sorted, NoPacket
  <1>. QED  BY <1>3, <1>4, <1>5 DEF IInv

(***************************************************************************)
(* A packet is added at the tail: it is later than all that are queued.    *)
(***************************************************************************)
LEMMA AddKeepsSorted ==
    ASSUME IInv, NEW x \in Packets, AddAtTail(x),
           pulled < x, x <= put',
           \A i \in 1 .. Len(entries) : entries[i] < x,
           put <= put', put' \in 0 .. PacketCount,
           saved' = NoPacket, pulled' = pulled, user' = "added"
    PROVE  /\ entries' \in Seq(Packets)
           /\ Len(entries') = Len(entries) + 1
           /\ Sorted'
  <1>. USE DEF Packets, NoPacket
  <1>1. entries' = Append(entries, x) /\ entries \in Seq(Packets)
    BY DEF AddAtTail, IInv, TypeOK
  <1>2. /\ entries' \in Seq(Packets)
        /\ Len(entries') = Len(entries) + 1
        /\ entries'[Len(entries) + 1] = x
        /\ \A i \in 1 .. Len(entries) : entries'[i] = entries[i]
    BY <1>1, AppendEntries
  <1>3. Len(entries) \in Nat
    BY <1>1
  <1>4. /\ pulled \in Nat /\ put \in Nat /\ put' \in Nat /\ x \in Nat
        /\ \A i \in 1 .. Len(entries) : entries[i] \in Nat
    BY <1>1, PacketsAssumption DEF IInv, TypeOK
  <1>5. /\ \A i \in 1 .. Len(entries) : pulled < entries[i] /\ entries[i] <= put
        /\ \A i, j \in 1 .. Len(entries) : i < j => entries[i] < entries[j]
        /\ pulled <= put
    BY DEF IInv, Sorted
  <1>6. \A i \in 1 .. Len(entries') : pulled' < entries'[i] /\ entries'[i] <= put'
    <2>. TAKE i \in 1 .. Len(entries')
    <2>1. CASE i = Len(entries) + 1  BY <2>1, <1>2, <1>4
    <2>2. CASE i \in 1 .. Len(entries)  BY <2>2, <1>2, <1>4, <1>5
    <2>. QED  BY <2>1, <2>2, <1>2, <1>3
  <1>7. \A i, j \in 1 .. Len(entries') : i < j => entries'[i] < entries'[j]
    <2>. SUFFICES ASSUME NEW i \in 1 .. Len(entries'), NEW j \in 1 .. Len(entries'), i < j
                  PROVE  entries'[i] < entries'[j]
      OBVIOUS
    <2>1. i \in 1 .. Len(entries)  BY <1>2, <1>3
    <2>2. CASE j = Len(entries) + 1  BY <2>1, <2>2, <1>2
    <2>3. CASE j \in 1 .. Len(entries)  BY <2>1, <2>3, <1>2, <1>5
    <2>. QED  BY <2>2, <2>3, <1>2, <1>3
  <1>. QED  BY <1>2, <1>4, <1>5, <1>6, <1>7 DEF Sorted

(***************************************************************************)
(* The head of the list is taken: what is left is later than it.           *)
(***************************************************************************)
LEMMA TakeKeepsSorted ==
    ASSUME IInv, NEW p \in Packets, DelAtHead(p)
    PROVE  /\ entries' \in Seq(Packets)
           /\ Len(entries) \in Nat
           /\ Len(entries') = Len(entries) - 1
           /\ pulled < p /\ p <= put
           /\ \A i \in 1 .. Len(entries') : p < entries'[i] /\ entries'[i] <= put
           /\ \A i, j \in 1 .. Len(entries') : i < j => entries'[i] < entries'[j]
  <1>1. entries' = Tail(entries) /\ entries # <<>> /\ p = Head(entries) /\ entries \in Seq(Packets)
    BY DEF DelAtHead, IInv, TypeOK
  <1>2. /\ p = entries[1]
        /\ Len(entries) \in Nat \ {0}
        /\ entries' \in Seq(Packets)
        /\ Len(entries') = Len(entries) - 1
        /\ \A i \in 1 .. Len(entries') : entries'[i] = entries[i + 1]
    BY <1>1, TailEntries, Zenon
  <1>3. /\ \A i \in 1 .. Len(entries) : pulled < entries[i] /\ entries[i] <= put
        /\ \A i, j \in 1 .. Len(entries) : i < j => entries[i] < entries[j]
    BY DEF IInv, Sorted
  <1>4. \A i \in 1 .. Len(entries') : i + 1 \in 1 .. Len(entries) /\ 1 < i + 1
    BY <1>2
  <1>5. 1 \in 1 .. Len(entries)
    BY <1>2
  <1>6. \A i \in 1 .. Len(entries') : p < entries'[i] /\ entries'[i] <= put
    BY <1>2, <1>3, <1>4, <1>5
  <1>7. \A i, j \in 1 .. Len(entries') : i < j => entries'[i] < entries'[j]
    BY <1>2, <1>3, <1>4
  <1>. QED  BY <1>2, <1>3, <1>5, <1>6, <1>7

LEMMA NextIInv == IInv /\ [Next]_vars => IInv'
  <1>. SUFFICES ASSUME IInv, [Next]_vars PROVE IInv'
    OBVIOUS
  <1>. USE DEF UserSteps, Locked, PostsDue, TakeDue
  <1>t. TypeOK /\ PostsCoverEntries /\ Sorted
    BY DEF IInv
  <1>n. Len(entries) \in Nat
    BY <1>t DEF TypeOK
  <1>1. CASE PutPacket
    <2>1. put + 1 \in Packets /\ put' = put + 1 /\ put \in Nat
      BY <1>1, <1>t, PacketsAssumption DEF PutPacket, TypeOK, Packets
    <2>2. saved = NoPacket /\ saved' = saved /\ pulled' = pulled /\ user' = "added"
      BY <1>1, <1>t DEF PutPacket, Sorted
    <2>3. pulled < put + 1 /\ \A i \in 1 .. Len(entries) : entries[i] < put + 1
      BY <1>t, PacketsAssumption DEF Sorted, TypeOK, Packets, NoPacket
    <2>4. AddAtTail(put + 1) /\ put' \in 0 .. PacketCount
      BY <1>1, <2>1 DEF PutPacket, Packets
    <2>5. entries' \in Seq(Packets) /\ Len(entries') = Len(entries) + 1 /\ Sorted'
      BY <2>1, <2>2, <2>3, <2>4, AddKeepsSorted
    <2>6. TypeOK'
      BY <1>1, <1>t, <2>4, <2>5 DEF PutPacket, AddAtTail, TypeOK
    <2>7. PostsCoverEntries'
      BY <1>1, <1>t, <1>n, <2>5 DEF PutPacket, AddAtTail, TypeOK, PostsCoverEntries
    <2>. QED  BY <2>5, <2>6, <2>7 DEF IInv
  <1>2. CASE ResetRestores
    <2>1. CASE saved \in Extra /\ HasRoom(saved)
      <3>1. saved \in Packets /\ AddAtTail(saved) /\ user' = "added" /\ saved' = NoPacket
            /\ put' = put /\ pulled' = pulled
        BY <1>2, <2>1, PacketsAssumption DEF ResetRestores
      <3>2. /\ pulled < saved /\ saved <= put /\ entries = <<>>
            /\ \A i \in 1 .. Len(entries) : entries[i] < saved
        BY <1>2, <1>t, <3>1 DEF ResetRestores, Sorted, Packets, NoPacket
      <3>3. put \in 0 .. PacketCount /\ put <= put
        BY <1>t, PacketsAssumption DEF TypeOK
      <3>4. entries' \in Seq(Packets) /\ Len(entries') = Len(entries) + 1 /\ Sorted'
        BY <3>1, <3>2, <3>3, AddKeepsSorted
      <3>5. TypeOK'
        BY <1>2, <2>1, <1>t, <3>1, <3>4 DEF ResetRestores, AddAtTail, TypeOK
      <3>6. PostsCoverEntries'
        BY <1>2, <2>1, <1>t, <1>n, <3>4 DEF ResetRestores, AddAtTail, TypeOK, PostsCoverEntries
      <3>. QED  BY <3>4, <3>5, <3>6 DEF IInv
    <2>2. CASE ~(saved \in Extra /\ HasRoom(saved))
      BY <1>2, <2>2, <1>t DEF ResetRestores, mppQueueVars, IInv, TypeOK, PostsCoverEntries, Sorted
    <2>. QED  BY <2>1, <2>2
  <1>3. CASE ResetSaves
    <2>1. CASE entries = <<>> /\ UNCHANGED <<mppQueueVars, saved>>
      BY <1>3, <2>1, <1>t DEF ResetSaves, mppQueueVars, IInv, TypeOK, PostsCoverEntries, Sorted
    <2>2. CASE \E p \in Packets : DelAtHead(p) /\ saved' = p
      <3>1. PICK p \in Packets : DelAtHead(p) /\ saved' = p
        BY <2>2
      <3>2. /\ entries' \in Seq(Packets)
            /\ Len(entries') = Len(entries) - 1
            /\ pulled < p /\ p <= put
            /\ \A i \in 1 .. Len(entries') : p < entries'[i] /\ entries'[i] <= put
            /\ \A i, j \in 1 .. Len(entries') : i < j => entries'[i] < entries'[j]
        BY <3>1, TakeKeepsSorted
      <3>3. /\ pending' = pending /\ flushFlag' = flushFlag /\ user' = "saved" /\ user = "idle"
            /\ put' = put /\ pulled' = pulled /\ parser' = parser
        BY <1>3, <3>1 DEF ResetSaves, DelAtHead
      <3>4. TypeOK'
        BY <1>t, <3>1, <3>2, <3>3 DEF TypeOK
      <3>5. PostsCoverEntries'
        BY <1>t, <1>n, <3>2, <3>3 DEF PostsCoverEntries, TypeOK
      <3>6. \A i \in 1 .. Len(entries') : pulled < entries'[i]
        <4>1. \A i \in 1 .. Len(entries') : entries'[i] \in Nat
          BY <3>2, PacketsAssumption DEF Packets
        <4>2. pulled \in Nat /\ p \in Nat
          BY <1>t, PacketsAssumption DEF TypeOK, Packets, NoPacket
        <4>. QED  BY <3>2, <4>1, <4>2
      <3>7. Sorted'
        BY <1>t, <3>1, <3>2, <3>3, <3>6 DEF Sorted
      <3>. QED  BY <3>4, <3>5, <3>7 DEF IInv
    <2>. QED  BY <1>3, <2>1, <2>2 DEF ResetSaves
  <1>4. CASE PullTakes
    <2>1. PICK p \in Packets : DelAtHead(p) /\ pulled' = p
      BY <1>4 DEF PullTakes
    <2>2. /\ entries' \in Seq(Packets)
          /\ Len(entries') = Len(entries) - 1
          /\ p <= put
          /\ \A i \in 1 .. Len(entries') : p < entries'[i] /\ entries'[i] <= put
          /\ \A i, j \in 1 .. Len(entries') : i < j => entries'[i] < entries'[j]
      BY <2>1, TakeKeepsSorted
    <2>3. /\ pending' = pending /\ flushFlag' = flushFlag /\ parser = "take" /\ parser' = "free"
          /\ put' = put /\ saved' = saved /\ user' = user
      BY <1>4, <2>1 DEF PullTakes, DelAtHead
    <2>4. user = "idle" /\ saved = NoPacket
      BY <1>4, <1>t, <2>1 DEF PullTakes, Sorted, TypeOK, DelAtHead
    <2>5. TypeOK'
      BY <1>t, <2>1, <2>2, <2>3 DEF TypeOK
    <2>6. PostsCoverEntries'
      BY <1>t, <1>n, <2>2, <2>3 DEF PostsCoverEntries, TypeOK
    <2>7. Sorted'
      BY <2>1, <2>2, <2>3, <2>4 DEF Sorted
    <2>. QED  BY <2>5, <2>6, <2>7 DEF IInv
  <1>5. CASE PutLowersFlag
    BY <1>5, <1>t DEF PutLowersFlag, LowerFlag, IInv, TypeOK, PostsCoverEntries, Sorted
  <1>6. CASE PutPosts
    BY <1>6, <1>t, <1>n DEF PutPosts, Post, IInv, TypeOK, PostsCoverEntries, Sorted
  <1>7. CASE ResetRaisesFlag
    BY <1>7, <1>t DEF ResetRaisesFlag, RaiseFlag, IInv, TypeOK, PostsCoverEntries, Sorted
  <1>8. CASE ResetPosts
    BY <1>8, <1>t, <1>n DEF ResetPosts, Post, IInv, TypeOK, PostsCoverEntries, Sorted
  <1>9. CASE ResetEmpties
    BY <1>9, <1>t DEF ResetEmpties, EmptyList, IInv, TypeOK, PostsCoverEntries, Sorted
  <1>10. CASE PullBegins
    BY <1>10, <1>t, <1>n DEF PullBegins, mppQueueVars, IInv, TypeOK, PostsCoverEntries, Sorted
  <1>11. CASE PullWaits
    BY <1>11, <1>t, <1>n DEF PullWaits, WaitPending, IInv, TypeOK, PostsCoverEntries, Sorted
  <1>12. CASE PullFindsNone
    BY <1>12, <1>t DEF PullFindsNone, mppQueueVars, IInv, TypeOK, PostsCoverEntries, Sorted
  <1>13. CASE UNCHANGED vars
    BY <1>13, <1>t DEF vars, IInv, TypeOK, PostsCoverEntries, Sorted
  <1>. QED
    BY <1>1, <1>2, <1>3, <1>4, <1>5, <1>6, <1>7, <1>8, <1>9, <1>10, <1>11, <1>12, <1>13
    DEF Next, User, Parser

THEOREM PacketsInvariant == Spec => []IInv
  <1>. QED  BY InitIInv, NextIInv, PTL DEF Spec

(***************************************************************************)
(* sem_wait never keeps the parser from a packet that is queued: every     *)
(* entry of the list is covered by a post, in spite of flush, of the head  *)
(* that Mpp::reset takes and of the pulls that skip the wait.              *)
(***************************************************************************)
THEOREM PacketsPostsCoverEntries == Spec => []PostsCoverEntries
  <1>1. IInv => PostsCoverEntries
    BY DEF IInv
  <1>. QED  BY <1>1, PacketsInvariant, PTL

THEOREM PacketsTypeOK == Spec => []TypeOK
  <1>1. IInv => TypeOK
    BY DEF IInv
  <1>. QED  BY <1>1, PacketsInvariant, PTL

(***************************************************************************)
(* The decoder pulls the packets in the order the user put them, each at   *)
(* most once, whatever resets come in between.                             *)
(***************************************************************************)
THEOREM PacketsPulledInOrder == Spec => PulledInOrder
  <1>1. IInv /\ [Next]_vars => [pulled' # pulled => pulled' > pulled]_vars
    <2>. SUFFICES ASSUME IInv, [Next]_vars, pulled' # pulled PROVE pulled' > pulled
      OBVIOUS
    <2>1. PullTakes
      BY DEF Next, User, Parser, PutPacket, PutLowersFlag, PutPosts, ResetSaves,
             ResetRaisesFlag, ResetPosts, ResetEmpties, ResetRestores, PullBegins,
             PullWaits, PullFindsNone, vars
    <2>2. PICK p \in Packets : DelAtHead(p) /\ pulled' = p
      BY <2>1 DEF PullTakes
    <2>3. pulled < p
      BY <2>2, TakeKeepsSorted
    <2>. QED  BY <2>2, <2>3 DEF IInv, TypeOK, Packets, NoPacket
  <1>. QED  BY <1>1, PacketsInvariant, PTL DEF Spec, PulledInOrder
=============================================================================
