---------------------------- MODULE BufferGroups ----------------------------
(***************************************************************************)
(* Buffers and buffer groups (mpp/base/mpp_buffer_impl.cpp under the calls *)
(* of mpp/base/mpp_buffer.cpp).  A group has a list of used and a list of  *)
(* unused buffers; a buffer is used while it has references.  A group that *)
(* is put while some of its buffers are used becomes an orphan.            *)
(*                                                                         *)
(* Every function of mpp_buffer_impl.cpp runs under the one lock of the    *)
(* MppBufferService and is one step.  mpp_buffer_get takes the lock twice, *)
(* to search the unused list and to create a buffer, and other threads may *)
(* come in between; so does an import into a misc group.                   *)
(*                                                                         *)
(* The callers keep the rules of mpp_buffer.h: they put and add references *)
(* to buffers they have references to, and put a group once, when none of  *)
(* them is inside a call with it.                                          *)
(***************************************************************************)
EXTENDS Integers, Sequences, SequencesExt

CONSTANTS
    Groups,    \* bound: the groups there may be at a time
    Buffers,   \* bound: the buffers there may be at a time
    Threads,   \* the threads that call
    Types,     \* the MppBufferTypes in use
    Sizes,     \* the sizes asked for
    Limits,    \* the limits configured: [count, size], 0 for none
    RefBound,  \* bound: the references to one buffer
    NoGroup    \* a NULL MppBufferGroup

ASSUME GroupsAssumption ==
    /\ NoGroup \notin Groups
    /\ Sizes \subseteq Nat \ {0}
    /\ Limits \subseteq [count : Nat, size : Nat]
    /\ RefBound \in Nat \ {0}

Modes == {"internal", "external"}

VARIABLES
    group,   \* group[g]: the MppBufferGroupImpl g
    buffer,  \* buffer[b]: the MppBufferImpl b; NoGroup is its group when there is no b
    misc,    \* misc[mode][type] of the service
    at,      \* at[th]: "idle", or inside a get: "search", "create"
    want,    \* want[th]: the group, the size and whether a reference is asked for
    freedInUse, \* a group was freed by a function that went on to write to it
    cleared  \* history: the buffers that were there when their group was cleared

vars == <<group, buffer, misc, at, want, freedInUse, cleared>>

(* place: on mListGroup ("listed"), on mListOrphan ("orphan"), or nowhere. *)
(* The order of list_used is never looked at: it is a set.  misc: nobody   *)
(* has a handle to the group (is_misc of get_group).                       *)
Nowhere == [place |-> "none", mode |-> "internal", type |-> "ion",
            limit |-> [count |-> 0, size |-> 0], usage |-> 0, bufferCount |-> 0,
            countUsed |-> 0, countUnused |-> 0, used |-> {}, unused |-> <<>>, misc |-> FALSE]

NoBuffer == [group |-> NoGroup, size |-> 0, ref |-> 0, discard |-> FALSE]
NoWant   == [group |-> NoGroup, size |-> 0, ref |-> FALSE]

Exists(g) == group[g].place # "none"
Live(b)   == buffer[b].group # NoGroup

Init ==
    /\ group = [g \in Groups |-> Nowhere]
    /\ buffer = [b \in Buffers |-> NoBuffer]
    /\ misc = [m \in Modes |-> [t \in Types |-> NoGroup]]
    /\ at = [th \in Threads |-> "idle"]
    /\ want = [th \in Threads |-> NoWant]
    /\ freedInUse = FALSE
    /\ cleared = {}

-----------------------------------------------------------------------------
(* deinit_buffer_no_lock of a set of buffers that are not on a list        *)
(* anymore, for their group and for the table of buffers.                  *)
Bytes(S) == MapThenSumSet(LAMBDA b : buffer[b].size, S)

Without(r, S) == [r EXCEPT !.usage = @ - Bytes(S), !.bufferCount = @ - Cardinality(S)]
Freed(S)      == [b \in Buffers |-> IF b \in S THEN NoBuffer ELSE buffer[b]]

(* inc_buffer_ref_no_lock and mpp_buffer_ref_dec move a buffer to the used *)
(* list and from it.                                                       *)
Used(r, b)   == [r EXCEPT !.used = @ \union {b}, !.countUsed = @ + 1]
Unused(r, b) == [r EXCEPT !.used = @ \ {b}, !.countUsed = @ - 1]

(* All unused buffers of a group go (put_group, mpp_buffer_group_reset).   *)
WithoutUnused(r) ==
    [Without(r, ToSet(r.unused)) EXCEPT !.unused = <<>>,
                                        !.countUnused = @ - Len(r.unused)]

-----------------------------------------------------------------------------
(* mpp_buffer_group_get, and the same for a misc group (get_group).        *)
Made(g, mode, type, isMisc) ==
    /\ group[g].place = "none"
    /\ group' = [group EXCEPT ![g] = [Nowhere EXCEPT !.place = "listed", !.mode = mode,
                                                     !.type = type, !.misc = isMisc]]

GroupGet ==
    /\ \E g \in Groups, mode \in Modes, type \in Types : Made(g, mode, type, FALSE)
    /\ UNCHANGED <<buffer, misc, at, want, freedInUse, cleared>>

(* get_misc knows no misc group of normal buffers: each call of            *)
(* mpp_buffer_get_misc_group makes another one.                            *)
GetMisc(mode, type) == IF type = "normal" THEN NoGroup ELSE misc[mode][type]
IsMisc(g)           == g = GetMisc(group[g].mode, group[g].type)

(* A group the application has a handle to: its own, not yet put.          *)
Handle(g) == group[g].place = "listed" /\ ~group[g].misc

(* mpp_buffer_group_limit_config, which takes no lock.                     *)
LimitConfig ==
    /\ \E g \in Groups, limit \in Limits :
          /\ Handle(g) /\ group[g].mode = "internal"
          /\ group' = [group EXCEPT ![g].limit = limit]
    /\ UNCHANGED <<buffer, misc, at, want, freedInUse, cleared>>

-----------------------------------------------------------------------------
Calls(th, to, w) ==
    /\ at[th] = "idle"
    /\ at' = [at EXCEPT ![th] = to]
    /\ want' = [want EXCEPT ![th] = w]

Returns(th) ==
    /\ at' = [at EXCEPT ![th] = "idle"]
    /\ want' = [want EXCEPT ![th] = NoWant]

(* mpp_buffer_get, mpp_buffer_commit and mpp_buffer_import_with_tag with a *)
(* group of the caller's.                                                  *)
CallGet(th) ==
    /\ \E g \in Groups, s \in Sizes :
          Handle(g) /\ Calls(th, "search", [group |-> g, size |-> s, ref |-> TRUE])
    /\ UNCHANGED <<group, buffer, misc, freedInUse, cleared>>

CallImport(th) ==
    /\ \E g \in Groups, s \in Sizes, ref \in BOOLEAN :
          /\ Handle(g) /\ group[g].mode = "external"
          /\ Calls(th, "create", [group |-> g, size |-> s, ref |-> ref])
    /\ UNCHANGED <<group, buffer, misc, freedInUse, cleared>>

(* The same without a group: the misc group is made if there is none.      *)
InMisc(mode, type, g) ==
    \/ /\ GetMisc(mode, type) = g
       /\ UNCHANGED <<group, misc>>
    \/ /\ GetMisc(mode, type) = NoGroup
       /\ Made(g, mode, type, TRUE)
       /\ misc' = [misc EXCEPT ![mode][type] = g]

CallGetMisc(th) ==
    /\ "ion" \in Types
    /\ \E g \in Groups, s \in Sizes :
          /\ InMisc("internal", "ion", g)
          /\ Calls(th, "search", [group |-> g, size |-> s, ref |-> TRUE])
    /\ UNCHANGED <<buffer, freedInUse, cleared>>

CallImportMisc(th) ==
    /\ \E g \in Groups, type \in Types, s \in Sizes :
          /\ InMisc("external", type, g)
          /\ Calls(th, "create", [group |-> g, size |-> s, ref |-> TRUE])
    /\ UNCHANGED <<buffer, freedInUse, cleared>>

-----------------------------------------------------------------------------
(* mpp_buffer_get_unused: the first buffer that is big enough.  Looking    *)
(* for it, an internal group loses the smaller ones before it.             *)
Fits(b, th) == buffer[b].size >= want[th].size

SmallBefore(r, i, th) == {r.unused[j] : j \in {k \in 1 .. i - 1 : ~Fits(r.unused[k], th)}}

FirstFit(r, i, th) ==
    /\ i \in 1 .. Len(r.unused)
    /\ Fits(r.unused[i], th)
    /\ \A j \in 1 .. i - 1 : ~Fits(r.unused[j], th)

(* A wrong search: the buffers it frees are not counted off.               *)
SearchedForgets(r, i, th) ==
    IF r.mode = "external"
    THEN [r EXCEPT !.unused = RemoveAt(@, i), !.countUnused = @ - 1]
    ELSE [Without(r, SmallBefore(r, i, th)) EXCEPT
             !.unused = SubSeq(@, i + 1, Len(@)), !.countUnused = @ - 1]

Searched(r, i, th) ==
    IF r.mode = "external"
    THEN [r EXCEPT !.unused = RemoveAt(@, i), !.countUnused = @ - 1]
    ELSE [Without(r, SmallBefore(r, i, th)) EXCEPT
             !.unused = SubSeq(@, i + 1, Len(@)), !.countUnused = @ - i]

GetFindsUnused(th) ==
    /\ at[th] = "search"
    /\ LET g == want[th].group
           r == group[g]
       IN \E i \in 1 .. Len(r.unused) :
             /\ FirstFit(r, i, th)
             /\ group' = [group EXCEPT ![g] = Used(Searched(r, i, th), r.unused[i])]
             /\ LET gone == IF r.mode = "external" THEN {} ELSE SmallBefore(r, i, th)
                IN /\ buffer' = [Freed(gone) EXCEPT ![r.unused[i]].ref = 1]
                   /\ cleared' = cleared \ gone
    /\ Returns(th)
    /\ UNCHANGED <<misc, freedInUse>>

(* No buffer is big enough: an internal group has lost them all, and goes  *)
(* on to create one; the get from an external group fails.                 *)
GetFindsNone(th) ==
    /\ at[th] = "search"
    /\ LET g == want[th].group
           r == group[g]
       IN /\ \A b \in ToSet(r.unused) : ~Fits(b, th)
          /\ IF r.mode = "internal"
             THEN /\ group' = [group EXCEPT ![g] = WithoutUnused(r)]
                  /\ buffer' = Freed(ToSet(r.unused))
                  /\ cleared' = cleared \ ToSet(r.unused)
                  /\ at' = [at EXCEPT ![th] = "create"]
                  /\ UNCHANGED want
             ELSE Returns(th) /\ UNCHANGED <<group, buffer, cleared>>
    /\ UNCHANGED <<misc, freedInUse>>

(* mpp_buffer_create: unused, or used with one reference.                  *)
Refused(r, size) ==
    \/ r.limit.count # 0 /\ r.bufferCount >= r.limit.count
    \/ r.limit.size # 0 /\ size > r.limit.size

Create(th) ==
    /\ at[th] = "create"
    /\ LET g == want[th].group
           r == group[g]
       IN /\ ~Refused(r, want[th].size)
          /\ \E b \in Buffers :
                /\ ~Live(b)
                /\ buffer' = [buffer EXCEPT ![b] =
                       [group |-> g, size |-> want[th].size,
                        ref |-> IF want[th].ref THEN 1 ELSE 0, discard |-> FALSE]]
                /\ LET more == [r EXCEPT !.usage = @ + want[th].size, !.bufferCount = @ + 1]
                   IN group' = [group EXCEPT ![g] =
                          IF want[th].ref
                          THEN Used(more, b)
                          ELSE [more EXCEPT !.unused = Append(@, b), !.countUnused = @ + 1]]
    /\ Returns(th)
    /\ UNCHANGED <<misc, freedInUse, cleared>>

(* A limit refuses it, or the allocator fails.                             *)
CreateFails(th) ==
    /\ at[th] = "create"
    /\ Returns(th)
    /\ UNCHANGED <<group, buffer, misc, freedInUse, cleared>>

-----------------------------------------------------------------------------
(* mpp_buffer_ref_inc, by somebody who has a reference.                    *)
RefInc ==
    /\ \E b \in Buffers :
          /\ buffer[b].ref \in 1 .. RefBound - 1
          /\ buffer' = [buffer EXCEPT ![b].ref = @ + 1]
    /\ UNCHANGED <<group, misc, at, want, freedInUse, cleared>>

(* mpp_buffer_ref_dec, when other references are left.                     *)
RefDec ==
    /\ \E b \in Buffers :
          /\ buffer[b].ref > 1
          /\ buffer' = [buffer EXCEPT ![b].ref = @ - 1]
    /\ UNCHANGED <<group, misc, at, want, freedInUse, cleared>>

LastRef(b) == buffer[b].ref = 1

(* A wrong end: the buffer goes to the unused list and is not counted.     *)
RecycleUncounted(b) ==
    /\ LastRef(b) /\ ~IsMisc(buffer[b].group) /\ ~buffer[b].discard
    /\ buffer' = [buffer EXCEPT ![b].ref = 0]
    /\ LET g == buffer[b].group
       IN group' = [group EXCEPT ![g] = [Unused(group[g], b) EXCEPT !.unused = Append(@, b)]]
    /\ UNCHANGED <<misc, at, want, freedInUse, cleared>>

(* The last one: the buffer is unused again, even in an orphan.            *)
Recycle(b) ==
    /\ LastRef(b) /\ ~IsMisc(buffer[b].group) /\ ~buffer[b].discard
    /\ buffer' = [buffer EXCEPT ![b].ref = 0]
    /\ LET g == buffer[b].group
       IN group' = [group EXCEPT ![g] =
              [Unused(group[g], b) EXCEPT !.unused = Append(@, b), !.countUnused = @ + 1]]
    /\ UNCHANGED <<misc, at, want, freedInUse, cleared>>

(* The last one of a discarded buffer, or of a misc group: it is freed.    *)
(* With the last buffer of an orphan the group is freed as well, while     *)
(* mpp_buffer_ref_dec still has to count down in it.                       *)
Discard(b) ==
    /\ LastRef(b)
    /\ LET g == buffer[b].group
           r == Without(group[g], {b})
       IN /\ IsMisc(g) \/ buffer[b].discard
          /\ IF r.place = "orphan" /\ r.usage = 0
             THEN /\ group' = [group EXCEPT ![g] = Nowhere]
                  /\ freedInUse' = TRUE
             ELSE /\ group' = [group EXCEPT ![g] = Unused(r, b)]
                  /\ UNCHANGED freedInUse
    /\ buffer' = Freed({b})
    /\ cleared' = cleared \ {b}
    /\ UNCHANGED <<misc, at, want>>

-----------------------------------------------------------------------------
(* A wrong clear: used buffers are left alone.                             *)
ClearUnusedOnly ==
    /\ \E g \in Groups :
          /\ Handle(g)
          /\ group' = [group EXCEPT ![g] = WithoutUnused(group[g])]
          /\ buffer' = Freed(ToSet(group[g].unused))
          /\ cleared' = (cleared \union group[g].used) \ ToSet(group[g].unused)
    /\ UNCHANGED <<misc, at, want, freedInUse>>

(* mpp_buffer_group_clear: unused buffers go, used ones when they are put. *)
GroupClear ==
    /\ \E g \in Groups :
          /\ Handle(g)
          /\ group' = [group EXCEPT ![g] = WithoutUnused(group[g])]
          /\ buffer' = [b \in Buffers |->
                 IF b \in group[g].used THEN [buffer[b] EXCEPT !.discard = TRUE]
                 ELSE Freed(ToSet(group[g].unused))[b]]
          /\ cleared' = (cleared \union group[g].used) \ ToSet(group[g].unused)
    /\ UNCHANGED <<misc, at, want, freedInUse>>

(* A wrong put: the group is freed in any case.                            *)
PutFreesAnyway ==
    /\ \E g \in Groups :
          /\ Handle(g)
          /\ \A th \in Threads : want[th].group # g
          /\ group' = [group EXCEPT ![g] = Nowhere]
          /\ buffer' = Freed(ToSet(group[g].unused))
          /\ cleared' = cleared \ ToSet(group[g].unused)
    /\ UNCHANGED <<misc, at, want, freedInUse>>

(* mpp_buffer_group_put: unused buffers go; the group is freed, or is an   *)
(* orphan while it has used buffers.                                       *)
GroupPut ==
    /\ \E g \in Groups :
          /\ Handle(g)
          /\ \A th \in Threads : want[th].group # g
          /\ group' = [group EXCEPT ![g] =
                 IF group[g].used = {} THEN Nowhere
                 ELSE [WithoutUnused(group[g]) EXCEPT !.place = "orphan"]]
          /\ buffer' = Freed(ToSet(group[g].unused))
          /\ cleared' = cleared \ ToSet(group[g].unused)
    /\ UNCHANGED <<misc, at, want, freedInUse>>

-----------------------------------------------------------------------------
Call(th) ==
    \/ CallGet(th) \/ CallImport(th) \/ CallGetMisc(th) \/ CallImportMisc(th)
    \/ GetFindsUnused(th) \/ GetFindsNone(th) \/ Create(th) \/ CreateFails(th)

(* After a write to freed memory nothing is known.                         *)
Next ==
    /\ ~freedInUse
    /\ \/ GroupGet \/ LimitConfig \/ GroupClear \/ GroupPut \/ RefInc \/ RefDec
       \/ \E th \in Threads : Call(th)
       \/ \E b \in Buffers : Recycle(b) \/ Discard(b)

Spec == Init /\ [][Next]_vars

-----------------------------------------------------------------------------
TypeOK ==
    /\ \A g \in Groups :
          /\ group[g].place \in {"none", "listed", "orphan"}
          /\ group[g].mode \in Modes /\ group[g].type \in Types \union {Nowhere.type}
          /\ group[g].limit \in Limits \union {Nowhere.limit} /\ group[g].misc \in BOOLEAN
          /\ group[g].usage \in Nat /\ group[g].bufferCount \in Nat
          /\ group[g].countUsed \in Nat /\ group[g].countUnused \in Nat
          /\ group[g].used \subseteq Buffers
          /\ group[g].unused \in Seq(Buffers)
    /\ buffer \in [Buffers -> [group : Groups \union {NoGroup}, size : Sizes \union {0},
                               ref : 0 .. RefBound, discard : BOOLEAN]]
    /\ misc \in [Modes -> [Types -> Groups \union {NoGroup}]]
    /\ at \in [Threads -> {"idle", "search", "create"}]
    /\ want \in [Threads -> [group : Groups \union {NoGroup}, size : Sizes \union {0},
                             ref : BOOLEAN]]
    /\ freedInUse \in BOOLEAN
    /\ cleared \subseteq Buffers

(* A buffer with references is on its group's used list, one without on    *)
(* its unused list, each once; the four counters of the group count them.  *)
(* mpp_buffer_group_unused (for which the decoder waits) and the limits    *)
(* look at the counters, everything else at the lists.                     *)
ListsAndCounters ==
    \A g \in Groups :
        LET r   == group[g]
            own == {b \in Buffers : buffer[b].group = g}
        IN /\ r.used = {b \in own : buffer[b].ref > 0}
           /\ ToSet(r.unused) = own \ r.used
           /\ r.countUnused = Len(r.unused) /\ r.countUnused = Cardinality(own \ r.used)
           /\ r.countUsed = Cardinality(r.used)
           /\ r.bufferCount = Cardinality(own)
           /\ r.usage = Bytes(own)

(* mpp_buffer_ref_dec uses the group of the buffer without looking whether *)
(* there is one: as long as a buffer is there, its group is.               *)
GroupOutlivesBuffers ==
    ~freedInUse =>
        /\ \A b \in Buffers : Live(b) => Exists(buffer[b].group)
        /\ \A th \in Threads : want[th].group # NoGroup => Exists(want[th].group)

(* A buffer that was in a group when the group was cleared (after a change *)
(* of format, say) is never handed out again, however long it was used and *)
(* whatever was got and put meanwhile.                                     *)
ClearedNotReused == \A b \in cleared : buffer[b].ref > 0

(* What is behind the safety properties, without the counters, in a form   *)
(* that every step preserves.  The two lists of a group hold its buffers,  *)
(* each once, by whether they have references ...                          *)
ListsOf(g, used, unused, table) ==
    /\ \A b \in Buffers : b \in used <=> table[b].group = g /\ table[b].ref > 0
    /\ \A b \in Buffers :
          table[b].group = g /\ table[b].ref = 0 =>
              \E i \in 1 .. Len(unused) : unused[i] = b
    /\ \A i \in 1 .. Len(unused) :
          table[unused[i]].group = g /\ table[unused[i]].ref = 0
    /\ \A i, j \in 1 .. Len(unused) : unused[i] = unused[j] => i = j

OnLists ==
    \A g \in Groups :
        /\ ListsOf(g, group[g].used, group[g].unused, buffer)
        /\ ~Exists(g) => group[g].used = {} /\ group[g].unused = <<>>

(* ... a misc group is never put, so those who get it find it there, as do *)
(* those who are inside a call with a group ...                            *)
GroupsKept ==
    /\ \A m \in Modes, t \in Types :
          misc[m][t] # NoGroup => Exists(misc[m][t]) /\ group[misc[m][t]].misc
    /\ \A th \in Threads :
          /\ want[th].group # NoGroup => Exists(want[th].group)
          /\ at[th] # "idle" => want[th].group # NoGroup

(* ... and a buffer that was used when its group was cleared is discarded. *)
ClearedDiscarded == \A b \in cleared : Live(b) /\ buffer[b].ref > 0 /\ buffer[b].discard

(* A buffer that is not there has no references.                           *)
Tables == {B \in [Buffers -> [group : Groups \union {NoGroup}, size : Nat, ref : Nat,
                              discard : BOOLEAN]] :
               \A b \in Buffers : B[b].group = NoGroup => B[b].ref = 0}

GroupShape ==
    /\ DOMAIN group = Groups
    /\ \A g \in Groups :
          /\ DOMAIN group[g] = DOMAIN Nowhere
          /\ group[g].used \subseteq Buffers
          /\ group[g].unused \in Seq(Buffers)

Shape ==
    /\ GroupShape
    /\ buffer \in Tables
    /\ misc \in [Modes -> [Types -> Groups \union {NoGroup}]]
    /\ at \in [Threads -> {"idle", "search", "create"}]
    /\ want \in [Threads -> [group : Groups \union {NoGroup}, size : Nat, ref : BOOLEAN]]
    /\ freedInUse \in BOOLEAN
    /\ cleared \subseteq Buffers

IInv ==
    /\ Shape
    /\ ClearedDiscarded
    /\ ~freedInUse => OnLists /\ GroupsKept

(* put_group: "otherwise move the group to list_orphan and wait for buffer *)
(* release".  When its buffers are all released, an orphan does not wait   *)
(* any longer.                                                             *)
OrphanWaitsForBuffers ==
    \A g \in Groups : group[g].place = "orphan" => group[g].used # {}
=============================================================================
