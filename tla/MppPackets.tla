----------------------------- MODULE MppPackets -----------------------------
(***************************************************************************)
(* The packet queue mPackets of a decoder context: the user's thread calls *)
(* Mpp::put_packet and Mpp::reset, the parser thread calls MppQueue::pull  *)
(* whenever it needs a packet (try_proc_dec_task, step 2).                 *)
(*                                                                         *)
(* Packets are numbered in the order the user first puts them.  A packet   *)
(* may carry eos (it is queued even when the queue is full) or extra data  *)
(* (sps/pps: a reset saves it and puts it back when it is at the head).    *)
(***************************************************************************)
EXTENDS MppQueue

CONSTANTS
    PacketCount,  \* bound: how many packets the user puts
    Depth,        \* how many queued packets make put_packet answer BUFFER_FULL
    PendingBound, \* bound: no reset begins while the semaphore is this high
    Eos,          \* the packets flagged end of stream
    Extra         \* the packets flagged MPP_PACKET_FLAG_EXTRA_DATA

Packets  == 1 .. PacketCount
NoPacket == 0

ASSUME PacketsAssumption ==
    /\ PacketCount \in Nat
    /\ Depth \in Nat
    /\ PendingBound \in Nat
    /\ Eos \subseteq Packets
    /\ Extra \subseteq Packets

VARIABLES
    user,    \* where the user's thread is; see UserSteps
    saved,   \* the packet Mpp::reset holds, or NoPacket
    put,     \* the number of packets put so far
    parser,  \* where the parser is: "free", "wait" (in sem_wait), "take"
    pulled   \* the last packet that was pulled

vars == <<entries, pending, flushFlag, user, saved, put, parser, pulled>>

(* "added", "lowered": inside push.  "saved", "raised", "posted": inside   *)
(* the flush of reset.  "restore": reset has let go of the mutex.          *)
Locked    == {"added", "lowered", "saved", "raised", "posted"}
UserSteps == {"idle", "restore"} \union Locked

Init ==
    /\ MppQueueInit
    /\ user = "idle"
    /\ saved = NoPacket
    /\ put = 0
    /\ parser = "free"
    /\ pulled = NoPacket

-----------------------------------------------------------------------------
(* Mpp::put_packet: the next packet is copied and pushed if there is room. *)
HasRoom(p) == Len(entries) < Depth \/ p \in Eos

PutPacket ==
    /\ user = "idle"
    /\ put < PacketCount
    /\ HasRoom(put + 1)
    /\ AddAtTail(put + 1)
    /\ put' = put + 1
    /\ user' = "added"
    /\ UNCHANGED <<saved, parser, pulled>>

PutLowersFlag ==
    /\ user = "added"
    /\ LowerFlag
    /\ user' = "lowered"
    /\ UNCHANGED <<saved, put, parser, pulled>>

PutPosts ==
    /\ user = "lowered"
    /\ Post
    /\ user' = "idle"
    /\ UNCHANGED <<saved, put, parser, pulled>>

(* Mpp::reset: the head of the queue is kept aside, the rest is flushed.   *)
ResetSaves ==
    /\ user = "idle"
    /\ pending < PendingBound
    /\ \/ entries = <<>> /\ UNCHANGED <<mppQueueVars, saved>>
       \/ \E p \in Packets : DelAtHead(p) /\ saved' = p
    /\ user' = "saved"
    /\ UNCHANGED <<put, parser, pulled>>

ResetRaisesFlag ==
    /\ user = "saved"
    /\ RaiseFlag
    /\ user' = "raised"
    /\ UNCHANGED <<saved, put, parser, pulled>>

(* A wrong flush: the flag alone, nobody in sem_wait hears of it.          *)
ResetRaisesOnly ==
    /\ user = "raised"
    /\ user' = "posted"
    /\ UNCHANGED <<mppQueueVars, saved, put, parser, pulled>>

ResetPosts ==
    /\ user = "raised"
    /\ Post
    /\ user' = "posted"
    /\ UNCHANGED <<saved, put, parser, pulled>>

ResetEmpties ==
    /\ user = "posted"
    /\ EmptyList
    /\ user' = "restore"
    /\ UNCHANGED <<saved, put, parser, pulled>>

(* The end of reset: extra data goes through put_packet once more, any     *)
(* other packet is dropped; reset forgets it either way.                   *)
ResetRestores ==
    /\ user = "restore"
    /\ IF saved \in Extra /\ HasRoom(saved)
       THEN AddAtTail(saved) /\ user' = "added"
       ELSE user' = "idle" /\ UNCHANGED mppQueueVars
    /\ saved' = NoPacket
    /\ UNCHANGED <<put, parser, pulled>>

-----------------------------------------------------------------------------
(* MppQueue::pull, called by the parser when it has no packet in hand.     *)
PullBegins ==
    /\ parser = "free"
    /\ parser' = IF flushFlag THEN "take" ELSE "wait"
    /\ UNCHANGED <<mppQueueVars, user, saved, put, pulled>>

PullWaits ==
    /\ parser = "wait"
    /\ WaitPending
    /\ parser' = "take"
    /\ UNCHANGED <<user, saved, put, pulled>>

PullTakes ==
    /\ parser = "take"
    /\ user \notin Locked
    /\ \E p \in Packets : DelAtHead(p) /\ pulled' = p
    /\ parser' = "free"
    /\ UNCHANGED <<user, saved, put>>

PullFindsNone ==
    /\ parser = "take"
    /\ user \notin Locked
    /\ entries = <<>>
    /\ parser' = "free"
    /\ UNCHANGED <<mppQueueVars, user, saved, put, pulled>>

User ==
    \/ PutPacket \/ PutLowersFlag \/ PutPosts
    \/ ResetSaves \/ ResetRaisesFlag \/ ResetPosts \/ ResetEmpties \/ ResetRestores

Parser == PullBegins \/ PullWaits \/ PullTakes \/ PullFindsNone

Next == User \/ Parser

Spec == Init /\ [][Next]_vars

(* The parser thread keeps calling pull, and a call the user has begun     *)
(* comes to its end; nothing obliges the user to begin another one.        *)
FairSpec ==
    /\ Spec
    /\ WF_vars(Parser)
    /\ WF_vars(user # "idle" /\ User)

-----------------------------------------------------------------------------
TypeOK ==
    /\ entries \in Seq(Packets)
    /\ pending \in Nat
    /\ flushFlag \in BOOLEAN
    /\ user \in UserSteps
    /\ saved \in Packets \union {NoPacket}
    /\ put \in 0 .. PacketCount
    /\ parser \in {"free", "wait", "take"}
    /\ pulled \in Packets \union {NoPacket}

(* The posts that are still to come from a push in progress, and the one   *)
(* the parser has consumed and not used.                                   *)
PostsDue == IF user \in {"added", "lowered"} THEN 1 ELSE 0
TakeDue  == IF parser = "take" THEN 1 ELSE 0

(* Every queued packet is covered by a post, although flush empties the    *)
(* list, reset takes its head and a raised flag lets pull take a packet    *)
(* without consuming any post: sem_wait never blocks on a non-empty list.  *)
PostsCoverEntries == Len(entries) <= pending + PostsDue + TakeDue

(* The packets not pulled yet are later than every packet that was, and    *)
(* in order, the one that reset puts aside first of all: what PulledInOrder*)
(* rests on.                                                               *)
Sorted ==
    /\ \A i \in 1 .. Len(entries) : pulled < entries[i] /\ entries[i] <= put
    /\ \A i, j \in 1 .. Len(entries) : i < j => entries[i] < entries[j]
    /\ saved # NoPacket =>
          /\ user \in {"saved", "raised", "posted", "restore"}
          /\ pulled < saved
          /\ saved <= put
          /\ \A i \in 1 .. Len(entries) : saved < entries[i]
    /\ user = "restore" => entries = <<>>
    /\ pulled <= put

IInv == TypeOK /\ PostsCoverEntries /\ Sorted

(* The decoder never meets a packet twice nor out of order, not even the   *)
(* extra data that Mpp::reset saves and puts back.                         *)
PulledInOrder == [][pulled' # pulled => pulled' > pulled]_vars

(* A packet that was put does not stay in the queue: it is pulled, or a    *)
(* reset takes it out; pull never sleeps on it for want of a post.         *)
Queued(p) == \E i \in 1 .. Len(entries) : entries[i] = p

PacketLeaves == \A p \in Packets : Queued(p) ~> ~Queued(p)

(* Mpp::reset, which is about to wait for the parser thread, gets it out   *)
(* of the sem_wait of pull whatever was queued.                            *)
ResetReleasesPull == (user = "saved" /\ parser = "wait") ~> (parser # "wait")
=============================================================================
