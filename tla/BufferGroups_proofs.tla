------------------------ MODULE BufferGroups_proofs ------------------------
(***************************************************************************)
(* Proofs about BufferGroups: a group outlives its buffers, a buffer that  *)
(* was cleared is never handed out again, and the counters of a group are  *)
(* those of its lists and of its buffers, for every set of groups,         *)
(* buffers, threads, sizes and limits.                                     *)
(***************************************************************************)
EXTENDS BufferGroups, SequenceTheorems, FiniteSetTheorems, WellFoundedInduction, TLAPS

Fields == DOMAIN Nowhere

LEMMA FieldNames ==
    Fields = {"place", "mode", "type", "limit", "usage", "bufferCount", "countUsed",
              "countUnused", "used", "unused", "misc"}
BY DEF Fields, Nowhere

LEMMA UsedFields ==
    ASSUME NEW r, DOMAIN r = Fields, NEW b
    PROVE  LET q == Used(r, b)
           IN /\ DOMAIN q = Fields
              /\ q.used = r.used \union {b}
              /\ q.unused = r.unused
              /\ q.place = r.place
              /\ q.misc = r.misc
BY FieldNames DEF Used

LEMMA UnusedFields ==
    ASSUME NEW r, DOMAIN r = Fields, NEW b
    PROVE  LET q == Unused(r, b)
           IN /\ DOMAIN q = Fields
              /\ q.used = r.used \ {b}
              /\ q.unused = r.unused
              /\ q.place = r.place
              /\ q.misc = r.misc
BY FieldNames DEF Unused

LEMMA WithoutFields ==
    ASSUME NEW r, DOMAIN r = Fields, NEW S
    PROVE  LET q == Without(r, S)
           IN /\ DOMAIN q = Fields
              /\ q.used = r.used
              /\ q.unused = r.unused
              /\ q.place = r.place
              /\ q.misc = r.misc
BY FieldNames DEF Without

LEMMA WithoutUnusedFields ==
    ASSUME NEW r, DOMAIN r = Fields
    PROVE  LET q == WithoutUnused(r)
           IN /\ DOMAIN q = Fields
              /\ q.used = r.used
              /\ q.unused = <<>>
              /\ q.place = r.place
              /\ q.misc = r.misc
BY FieldNames, WithoutFields DEF WithoutUnused

-----------------------------------------------------------------------------
(***************************************************************************)
(* What each kind of step does to the lists of one group g: from the used  *)
(* buffers u, the unused buffers s and the table B of all buffers to v, t  *)
(* and C.                                                                  *)
(***************************************************************************)

(* Nothing that the lists are about.                                       *)
LEMMA ListsUntouched ==
    ASSUME NEW g \in Groups, NEW B \in Tables, NEW C \in Tables,
           NEW u \in SUBSET Buffers, NEW s \in Seq(Buffers),
           \A b \in Buffers : B[b].group = g \/ C[b].group = g =>
               C[b].group = B[b].group /\ (C[b].ref = 0 <=> B[b].ref = 0),
           ListsOf(g, u, s, B)
    PROVE  ListsOf(g, u, s, C)
<1>. \A i \in 1 .. Len(s) : s[i] \in Buffers
  OBVIOUS
<1>. \A b \in Buffers : B[b].ref \in Nat /\ C[b].ref \in Nat
  BY DEF Tables
<1>. QED  BY DEF ListsOf

(* Every unused buffer goes.                                               *)
LEMMA ListsEmptied ==
    ASSUME NEW g \in Groups, NEW B \in Tables, NEW C \in Tables,
           NEW u \in SUBSET Buffers, NEW s \in Seq(Buffers),
           \A i \in 1 .. Len(s) : C[s[i]].group = NoGroup,
           \A b \in Buffers : (\A i \in 1 .. Len(s) : s[i] # b) =>
               C[b].group = B[b].group /\ C[b].ref = B[b].ref,
           ListsOf(g, u, s, B)
    PROVE  ListsOf(g, u, <<>>, C)
<1>. \A i \in 1 .. Len(s) : s[i] \in Buffers
  OBVIOUS
<1>. \A b \in Buffers : B[b].ref \in Nat /\ C[b].ref \in Nat
  BY DEF Tables
<1>1. g # NoGroup /\ Len(s) \in Nat
  BY GroupsAssumption
<1>2. ASSUME NEW b \in Buffers
      PROVE  /\ b \in u <=> C[b].group = g /\ C[b].ref > 0
             /\ ~(C[b].group = g /\ C[b].ref = 0)
  <2>1. CASE \E i \in 1 .. Len(s) : s[i] = b
    BY <1>1, <2>1 DEF ListsOf
  <2>2. CASE \A i \in 1 .. Len(s) : s[i] # b
    BY <1>1, <2>2 DEF ListsOf
  <2> QED BY <2>1, <2>2
<1>3. Len(<<>>) = 0 /\ 1 .. 0 = {}
  OBVIOUS
<1> HIDE DEF Tables
<1>. QED  BY <1>2, <1>3 DEF ListsOf

(* A used buffer loses its last reference and is unused.                   *)
LEMMA ListsRecycle ==
    ASSUME NEW g \in Groups, NEW B \in Tables, NEW C \in Tables,
           NEW u \in SUBSET Buffers, NEW s \in Seq(Buffers), NEW x \in Buffers,
           B[x].group = g, B[x].ref > 0, C[x].group = g, C[x].ref = 0,
           \A b \in Buffers \ {x} : C[b] = B[b],
           ListsOf(g, u, s, B)
    PROVE  ListsOf(g, u \ {x}, Append(s, x), C)
<1>. \A i \in 1 .. Len(s) : s[i] \in Buffers
  OBVIOUS
<1>. \A b \in Buffers : B[b].ref \in Nat /\ C[b].ref \in Nat
  BY DEF Tables
<1> DEFINE t == Append(s, x)
<1>1. /\ Len(s) \in Nat /\ Len(t) = Len(s) + 1 /\ t[Len(s) + 1] = x
      /\ \A i \in 1 .. Len(s) : t[i] = s[i] /\ s[i] # x
  BY DEF ListsOf
<1> HIDE DEF t
<1>2. ASSUME NEW b \in Buffers
      PROVE  b \in u \ {x} <=> C[b].group = g /\ C[b].ref > 0
  BY DEF ListsOf
<1>3. ASSUME NEW b \in Buffers, C[b].group = g, C[b].ref = 0
      PROVE  \E i \in 1 .. Len(t) : t[i] = b
  <2>1. CASE b = x
    BY <1>1, <2>1
  <2>2. CASE b # x
    <3>1. PICK i \in 1 .. Len(s) : s[i] = b
      BY <1>3, <2>2 DEF ListsOf
    <3>. QED  BY <1>1, <3>1
  <2>. QED  BY <2>1, <2>2
<1>4. ASSUME NEW i \in 1 .. Len(t)
      PROVE  C[t[i]].group = g /\ C[t[i]].ref = 0
  BY <1>1 DEF ListsOf
<1>5. ASSUME NEW i \in 1 .. Len(t), NEW j \in 1 .. Len(t), t[i] = t[j]
      PROVE  i = j
  BY <1>1, <1>5 DEF ListsOf
<1>6. ListsOf(g, u \ {x}, t, C)
  BY <1>2, <1>3, <1>4, <1>5 DEF ListsOf
<1>. QED  BY <1>6 DEF t

(* A used buffer is freed.                                                 *)
LEMMA ListsDiscard ==
    ASSUME NEW g \in Groups, NEW B \in Tables, NEW C \in Tables,
           NEW u \in SUBSET Buffers, NEW s \in Seq(Buffers), NEW x \in Buffers,
           B[x].group = g, B[x].ref > 0, C[x].group = NoGroup,
           \A b \in Buffers \ {x} : C[b] = B[b],
           ListsOf(g, u, s, B)
    PROVE  ListsOf(g, u \ {x}, s, C)
<1>. \A i \in 1 .. Len(s) : s[i] \in Buffers
  OBVIOUS
<1>. \A b \in Buffers : B[b].ref \in Nat /\ C[b].ref \in Nat
  BY DEF Tables
<1>. QED  BY GroupsAssumption DEF ListsOf

(* A new buffer with a reference, and one without.                         *)
LEMMA ListsNewUsed ==
    ASSUME NEW g \in Groups, NEW B \in Tables, NEW C \in Tables,
           NEW u \in SUBSET Buffers, NEW s \in Seq(Buffers), NEW x \in Buffers,
           B[x].group = NoGroup, C[x].group = g, C[x].ref > 0,
           \A b \in Buffers \ {x} : C[b] = B[b],
           ListsOf(g, u, s, B)
    PROVE  ListsOf(g, u \union {x}, s, C)
<1>. \A i \in 1 .. Len(s) : s[i] \in Buffers
  OBVIOUS
<1>. \A b \in Buffers : B[b].ref \in Nat /\ C[b].ref \in Nat
  BY DEF Tables
<1>. QED  BY GroupsAssumption DEF ListsOf

LEMMA ListsNewUnused ==
    ASSUME NEW g \in Groups, NEW B \in Tables, NEW C \in Tables,
           NEW u \in SUBSET Buffers, NEW s \in Seq(Buffers), NEW x \in Buffers,
           B[x].group = NoGroup, C[x].group = g, C[x].ref = 0,
           \A b \in Buffers \ {x} : C[b] = B[b],
           ListsOf(g, u, s, B)
    PROVE  ListsOf(g, u, Append(s, x), C)
<1>. \A i \in 1 .. Len(s) : s[i] \in Buffers
  OBVIOUS
<1>. \A b \in Buffers : B[b].ref \in Nat /\ C[b].ref \in Nat
  BY DEF Tables
<1>. QED  BY GroupsAssumption DEF ListsOf

(* The list without its entry at place k.                                  *)
LEMMA RemoveAtProperties ==
    ASSUME NEW S, NEW s \in Seq(S), NEW k \in 1 .. Len(s)
    PROVE  /\ RemoveAt(s, k) \in Seq(S)
           /\ Len(RemoveAt(s, k)) = Len(s) - 1
           /\ \A i \in 1 .. Len(s) - 1 :
                 RemoveAt(s, k)[i] = IF i < k THEN s[i] ELSE s[i + 1]
<1> DEFINE before == SubSeq(s, 1, k - 1)
           behind == SubSeq(s, k + 1, Len(s))
           rest   == before \o behind
<1>1. Len(s) \in Nat /\ \A i \in 1 .. Len(s) : s[i] \in S
  BY LenProperties, ElementOfSeq
<1>2. /\ before \in Seq(S) /\ Len(before) = k - 1
      /\ \A i \in 1 .. k - 1 : before[i] = s[i]
  BY <1>1, SubSeqProperties
<1>3. /\ behind \in Seq(S) /\ Len(behind) = Len(s) - k
      /\ \A i \in 1 .. Len(s) - k : behind[i] = s[k + i]
  BY <1>1, SubSeqProperties
<1>4. RemoveAt(s, k) = rest
  BY DEF RemoveAt
<1> HIDE DEF before, behind
<1>5. /\ rest \in Seq(S)
      /\ Len(rest) = Len(before) + Len(behind)
      /\ \A i \in 1 .. Len(before) + Len(behind) :
            rest[i] = IF i <= Len(before) THEN before[i] ELSE behind[i - Len(before)]
  <2>1. before \in Seq(S) /\ behind \in Seq(S)
    BY <1>2, <1>3
  <2>. QED  BY <2>1, ConcatProperties, Zenon
<1> HIDE DEF rest
<1>6. ASSUME NEW i \in 1 .. Len(s) - 1
      PROVE  rest[i] = IF i < k THEN s[i] ELSE s[i + 1]
  <2>1. rest[i] = IF i <= k - 1 THEN before[i] ELSE behind[i - (k - 1)]
    BY <1>1, <1>2, <1>3, <1>5
  <2>2. CASE i < k
    BY <1>1, <1>2, <2>1, <2>2
  <2>3. CASE ~(i < k)
    <3>1. i - (k - 1) \in 1 .. Len(s) - k /\ k + (i - (k - 1)) = i + 1
      BY <1>1, <2>3
    <3>2. behind[i - (k - 1)] = s[i + 1]
      BY <1>3, <3>1
    <3>. QED  BY <1>1, <2>1, <2>3, <3>2
  <2>. QED  BY <2>2, <2>3
<1>. QED  BY <1>1, <1>2, <1>3, <1>4, <1>5, <1>6

(* The buffer at place k of the unused list is used; those before it stay, *)
(* or are freed.                                                           *)
LEMMA ListsTakeOne ==
    ASSUME NEW g \in Groups, NEW B \in Tables, NEW C \in Tables,
           NEW u \in SUBSET Buffers, NEW s \in Seq(Buffers), NEW k \in 1 .. Len(s),
           C[s[k]].group = g, C[s[k]].ref > 0,
           \A b \in Buffers \ {s[k]} : C[b] = B[b],
           ListsOf(g, u, s, B)
    PROVE  /\ ListsOf(g, u \union {s[k]}, RemoveAt(s, k), C)
           /\ RemoveAt(s, k) \in Seq(Buffers)
<1> DEFINE t == RemoveAt(s, k)
           v == u \union {s[k]}
<1>1. /\ t \in Seq(Buffers)
      /\ Len(t) = Len(s) - 1
      /\ \A i \in 1 .. Len(s) - 1 : t[i] = IF i < k THEN s[i] ELSE s[i + 1]
  BY RemoveAtProperties, Zenon
<1>2. Len(s) \in Nat /\ \A i \in 1 .. Len(s) : s[i] \in Buffers
  OBVIOUS
<1> DEFINE old(i) == IF i < k THEN i ELSE i + 1
           new(j) == IF j < k THEN j ELSE j - 1
<1> HIDE DEF t
<1>3. ASSUME NEW i \in 1 .. Len(t)
      PROVE  old(i) \in 1 .. Len(s) /\ old(i) # k /\ t[i] = s[old(i)]
  BY <1>1, <1>2
<1>4. \A i, j \in 1 .. Len(t) : old(i) = old(j) => i = j
  BY <1>1, <1>2
<1>5. ASSUME NEW j \in 1 .. Len(s), j # k
      PROVE  new(j) \in 1 .. Len(t) /\ old(new(j)) = j
  BY <1>1, <1>2, <1>5
<1> HIDE DEF old, new
<1>6. \A i, j \in 1 .. Len(s) : s[i] = s[j] => i = j
  BY DEF ListsOf
<1>7. ASSUME NEW b \in Buffers
      PROVE  b \in v <=> C[b].group = g /\ C[b].ref > 0
  BY <1>2, <1>7 DEF ListsOf
<1>8. ASSUME NEW b \in Buffers, C[b].group = g, C[b].ref = 0
      PROVE  \E i \in 1 .. Len(t) : t[i] = b
  <2>1. b # s[k]
    BY <1>8
  <2>2. PICK j \in 1 .. Len(s) : s[j] = b
    BY <1>8, <2>1 DEF ListsOf
  <2>. QED  BY <1>3, <1>5, <2>1, <2>2
<1>9. ASSUME NEW i \in 1 .. Len(t)
      PROVE  C[t[i]].group = g /\ C[t[i]].ref = 0
  <2>1. t[i] \in Buffers \ {s[k]}
    BY <1>2, <1>3, <1>6
  <2>. QED  BY <1>3, <2>1 DEF ListsOf
<1>10. ASSUME NEW i \in 1 .. Len(t), NEW j \in 1 .. Len(t), t[i] = t[j]
       PROVE  i = j
  BY <1>3, <1>4, <1>6, <1>10
<1>11. ListsOf(g, v, t, C)
  BY <1>7, <1>8, <1>9, <1>10 DEF ListsOf
<1>. QED  BY <1>1, <1>11 DEF t

LEMMA ListsTakeBehind ==
    ASSUME NEW g \in Groups, NEW B \in Tables, NEW C \in Tables,
           NEW u \in SUBSET Buffers, NEW s \in Seq(Buffers), NEW k \in 1 .. Len(s),
           C[s[k]].group = g, C[s[k]].ref > 0,
           \A i \in 1 .. k - 1 : C[s[i]].group = NoGroup,
           \A b \in Buffers : (\A i \in 1 .. k : s[i] # b) => C[b] = B[b],
           ListsOf(g, u, s, B)
    PROVE  /\ ListsOf(g, u \union {s[k]}, SubSeq(s, k + 1, Len(s)), C)
           /\ SubSeq(s, k + 1, Len(s)) \in Seq(Buffers)
<1> DEFINE t == SubSeq(s, k + 1, Len(s))
           v == u \union {s[k]}
<1>2. Len(s) \in Nat /\ \A i \in 1 .. Len(s) : s[i] \in Buffers
  OBVIOUS
<1>1. /\ t \in Seq(Buffers)
      /\ Len(t) = Len(s) - k
      /\ \A i \in 1 .. Len(s) - k : t[i] = s[k + i]
  BY <1>2, SubSeqProperties
<1> HIDE DEF t
<1>6. \A i, j \in 1 .. Len(s) : s[i] = s[j] => i = j
  BY DEF ListsOf
<1>3. g # NoGroup
  BY GroupsAssumption
<1>4. ASSUME NEW b \in Buffers, NEW i \in 1 .. k - 1, s[i] = b
      PROVE  C[b].group # g /\ b \notin v
  <2>1. i \in 1 .. Len(s) /\ i # k
    BY <1>2
  <2>2. b # s[k] /\ C[b].group = NoGroup
    BY <1>4, <1>6, <2>1
  <2>3. b \notin u
    BY <1>4, <2>1 DEF ListsOf
  <2>. QED  BY <1>3, <2>2, <2>3
<1>5. ASSUME NEW b \in Buffers, \A i \in 1 .. k - 1 : s[i] # b, b # s[k]
      PROVE  C[b] = B[b]
  <2>1. \A i \in 1 .. k : s[i] # b
    BY <1>2, <1>5
  <2>. QED  BY <2>1
<1>7. ASSUME NEW b \in Buffers
      PROVE  b \in v <=> C[b].group = g /\ C[b].ref > 0
  BY <1>4, <1>5 DEF ListsOf
<1>8. ASSUME NEW b \in Buffers, C[b].group = g, C[b].ref = 0
      PROVE  \E i \in 1 .. Len(t) : t[i] = b
  <2>1. b # s[k] /\ \A i \in 1 .. k - 1 : s[i] # b
    BY <1>2, <1>4, <1>8
  <2>2. PICK j \in 1 .. Len(s) : s[j] = b
    BY <1>5, <1>8, <2>1 DEF ListsOf
  <2>3. j - k \in 1 .. Len(s) - k /\ k + (j - k) = j
    BY <1>2, <2>1, <2>2
  <2>. QED  BY <1>1, <2>2, <2>3
<1>9. ASSUME NEW i \in 1 .. Len(t)
      PROVE  C[t[i]].group = g /\ C[t[i]].ref = 0
  <2>1. k + i \in 1 .. Len(s) /\ t[i] = s[k + i] /\ \A j \in 1 .. k : k + i # j
    BY <1>1, <1>2
  <2>2. t[i] \in Buffers /\ \A j \in 1 .. k : s[j] # t[i]
    BY <1>2, <1>6, <2>1
  <2>3. C[t[i]] = B[t[i]]
    BY <2>2
  <2>. QED  BY <2>1, <2>3 DEF ListsOf
<1>10. ASSUME NEW i \in 1 .. Len(t), NEW j \in 1 .. Len(t), t[i] = t[j]
       PROVE  i = j
  <2>1. s[k + i] = s[k + j] /\ k + i \in 1 .. Len(s) /\ k + j \in 1 .. Len(s)
    BY <1>1, <1>2, <1>10
  <2>2. k + i = k + j
    BY <1>6, <2>1
  <2>. QED  BY <1>2, <2>2
<1>11. ListsOf(g, v, t, C)
  BY <1>7, <1>8, <1>9, <1>10 DEF ListsOf
<1>. QED  BY <1>1, <1>11 DEF t

-----------------------------------------------------------------------------
(***************************************************************************)
(* What stays when one group and some buffers change.                      *)
(***************************************************************************)

(* An assignment to one group.                                             *)
LEMMA OneGroup ==
    ASSUME GroupShape, NEW g \in Groups, NEW r, group' = [group EXCEPT ![g] = r]
    PROVE  /\ group'[g] = r
           /\ \A h \in Groups \ {g} : group'[h] = group[h]
           /\ DOMAIN group' = Groups
BY DEF GroupShape

(* The lists of the groups that did not change still hold their buffers.   *)
LEMMA OnListsKept ==
    ASSUME GroupShape, OnLists, buffer \in Tables, buffer' \in Tables,
           NEW g \in Groups, NEW u \in SUBSET Buffers, NEW s \in Seq(Buffers),
           DOMAIN group' = Groups,
           DOMAIN group'[g] = Fields, group'[g].used = u, group'[g].unused = s,
           Exists(g)' \/ (u = {} /\ s = <<>>),
           ListsOf(g, u, s, buffer'),
           \A h \in Groups \ {g} : group'[h] = group[h],
           \A h \in Groups \ {g} : \A b \in Buffers :
               buffer[b].group = h \/ buffer'[b].group = h =>
                   /\ buffer'[b].group = buffer[b].group
                   /\ buffer'[b].ref = 0 <=> buffer[b].ref = 0
    PROVE  GroupShape' /\ OnLists'
<1>1. ASSUME NEW h \in Groups, h # g
      PROVE  /\ DOMAIN group'[h] = Fields
             /\ group'[h].used \subseteq Buffers
             /\ group'[h].unused \in Seq(Buffers)
             /\ ListsOf(h, group'[h].used, group'[h].unused, buffer')
             /\ ~Exists(h)' => group'[h].used = {} /\ group'[h].unused = <<>>
  <2>1. /\ DOMAIN group[h] = Fields
        /\ group[h].used \in SUBSET Buffers
        /\ group[h].unused \in Seq(Buffers)
    BY DEF GroupShape, Fields
  <2>2. /\ ListsOf(h, group[h].used, group[h].unused, buffer)
        /\ ~Exists(h) => group[h].used = {} /\ group[h].unused = <<>>
    BY DEF OnLists
  <2>3. \A b \in Buffers : buffer[b].group = h \/ buffer'[b].group = h =>
            buffer'[b].group = buffer[b].group /\ (buffer'[b].ref = 0 <=> buffer[b].ref = 0)
    BY <1>1
  <2>4. ListsOf(h, group[h].used, group[h].unused, buffer')
    BY <2>1, <2>2, <2>3, ListsUntouched, Zenon
  <2>5. group'[h] = group[h]
    BY <1>1
  <2>. QED  BY <2>1, <2>2, <2>4, <2>5 DEF Exists
<1>2. GroupShape'
  BY <1>1, Zenon DEF GroupShape, Fields
<1>3. OnLists'
  BY <1>1, Zenon DEF OnLists
<1>. QED  BY <1>2, <1>3

(* The groups that are there for a misc group or a call stay.              *)
LEMMA SameCalls ==
    ASSUME Shape, GroupsKept, UNCHANGED <<misc, at, want>>,
           \A h \in Groups : Exists(h) =>
               \/ Exists(h)' /\ group'[h].misc = group[h].misc
               \/ ~group[h].misc /\ \A th \in Threads : want[th].group # h
    PROVE  GroupsKept'
<1>1. ASSUME NEW m \in Modes, NEW t \in Types, misc[m][t] # NoGroup
      PROVE  Exists(misc[m][t])' /\ group'[misc[m][t]].misc
  <2>1. misc[m][t] \in Groups
    BY <1>1 DEF Shape
  <2>2. Exists(misc[m][t]) /\ group[misc[m][t]].misc
    BY <1>1 DEF GroupsKept
  <2>. QED  BY <2>1, <2>2
<1>2. ASSUME NEW th \in Threads, want[th].group # NoGroup
      PROVE  Exists(want[th].group)'
  <2>1. want[th].group \in Groups
    BY <1>2 DEF Shape
  <2>. QED  BY <1>2, <2>1 DEF GroupsKept
<1>. QED  BY <1>1, <1>2 DEF GroupsKept

(* Buffers that are freed.                                                 *)
LEMMA FreedTable ==
    ASSUME buffer \in Tables, NEW S
    PROVE  /\ Freed(S) \in Tables
           /\ \A b \in Buffers : b \in S => Freed(S)[b].group = NoGroup
           /\ \A b \in Buffers : b \notin S => Freed(S)[b] = buffer[b]
BY DEF Freed, Tables, NoBuffer

LEMMA UnusedBuffers ==
    ASSUME NEW g \in Groups, NEW B \in Tables, NEW u \in SUBSET Buffers,
           NEW s \in Seq(Buffers), ListsOf(g, u, s, B)
    PROVE  /\ \A i \in 1 .. Len(s) : s[i] \in ToSet(s)
           /\ \A b \in Buffers : b \notin ToSet(s) => \A i \in 1 .. Len(s) : s[i] # b
           /\ \A b \in ToSet(s) : b \in Buffers /\ B[b].group = g /\ B[b].ref = 0
<1>1. /\ \A i \in 1 .. Len(s) : s[i] \in ToSet(s) /\ s[i] \in Buffers
      /\ \A b \in ToSet(s) : \E i \in 1 .. Len(s) : s[i] = b
  BY DEF ToSet
<1>2. \A i \in 1 .. Len(s) : B[s[i]].group = g /\ B[s[i]].ref = 0
  BY DEF ListsOf
<1>. QED  BY <1>1, <1>2

-----------------------------------------------------------------------------
(***************************************************************************)
(* One lemma per action.                                                   *)
(***************************************************************************)

(* A group is made where there was none.                                   *)
LEMMA MadeGroup ==
    ASSUME Shape, OnLists, UNCHANGED buffer, NEW g \in Groups, NEW mode, NEW type,
           NEW isMisc, Made(g, mode, type, isMisc)
    PROVE  /\ GroupShape' /\ OnLists'
           /\ ~Exists(g) /\ Exists(g)' /\ group'[g].misc = isMisc
           /\ \A h \in Groups \ {g} : group'[h] = group[h]
<1> DEFINE r == [Nowhere EXCEPT !.place = "listed", !.mode = mode, !.type = type,
                                !.misc = isMisc]
<1>1. /\ DOMAIN r = Fields /\ r.place = "listed" /\ r.misc = isMisc
      /\ r.used = {} /\ r.unused = <<>>
  BY FieldNames DEF Nowhere
<1>2. ~Exists(g) /\ group' = [group EXCEPT ![g] = r]
  BY DEF Made, Exists
<1> HIDE DEF r
<1>3. GroupShape /\ buffer \in Tables
  BY DEF Shape
<1>4. /\ group'[g] = r
      /\ \A h \in Groups \ {g} : group'[h] = group[h]
      /\ DOMAIN group' = Groups
  BY <1>2, <1>3, OneGroup, Zenon
<1>5. ListsOf(g, {}, <<>>, buffer)
  <2>1. group[g].used = {} /\ group[g].unused = <<>>
    BY <1>2 DEF OnLists
  <2>2. ListsOf(g, group[g].used, group[g].unused, buffer)
    BY DEF OnLists
  <2>. QED  BY <2>1, <2>2
<1>6. buffer' = buffer /\ buffer' \in Tables
  BY <1>3
<1>7. {} \in SUBSET Buffers /\ <<>> \in Seq(Buffers)
  OBVIOUS
<1>8. /\ DOMAIN group'[g] = Fields /\ group'[g].used = {} /\ group'[g].unused = <<>>
      /\ Exists(g)' /\ group'[g].misc = isMisc
  BY <1>1, <1>4 DEF Exists
<1>9. ListsOf(g, {}, <<>>, buffer')
  BY <1>5, <1>6
<1>10. \A h \in Groups \ {g} : \A b \in Buffers :
           buffer[b].group = h \/ buffer'[b].group = h =>
               buffer'[b].group = buffer[b].group /\ (buffer'[b].ref = 0 <=> buffer[b].ref = 0)
  BY <1>6
<1>11. GroupShape' /\ OnLists'
  BY <1>3, <1>4, <1>6, <1>7, <1>8, <1>9, <1>10, OnListsKept, Zenon
<1>. QED  BY <1>2, <1>4, <1>8, <1>11

LEMMA GroupGetStep ==
    ASSUME IInv, ~freedInUse, GroupGet
    PROVE  IInv'
<1> USE DEF IInv
<1>1. PICK g \in Groups, mode \in Modes, type \in Types : Made(g, mode, type, FALSE)
  BY DEF GroupGet
<1>2. UNCHANGED <<buffer, misc, at, want, freedInUse, cleared>>
  BY DEF GroupGet
<1>3. /\ GroupShape' /\ OnLists'
      /\ ~Exists(g) /\ Exists(g)'
      /\ \A h \in Groups \ {g} : group'[h] = group[h]
  BY <1>1, <1>2, MadeGroup, Zenon
<1>4. Shape'
  BY <1>2, <1>3, Zenon DEF Shape, Tables
<1>5. ClearedDiscarded'
  BY <1>2 DEF ClearedDiscarded, Live
<1>6. GroupsKept'
  <2>1. \A h \in Groups : Exists(h) => Exists(h)' /\ group'[h].misc = group[h].misc
    BY <1>3 DEF Exists
  <2>. QED  BY <1>2, <2>1, SameCalls
<1>. QED  BY <1>3, <1>4, <1>5, <1>6

LEMMA LimitConfigStep ==
    ASSUME IInv, ~freedInUse, LimitConfig
    PROVE  IInv'
<1> USE DEF IInv
<1>1. PICK g \in Groups, limit \in Limits :
          Handle(g) /\ group' = [group EXCEPT ![g].limit = limit]
  BY DEF LimitConfig
<1>2. UNCHANGED <<buffer, misc, at, want, freedInUse, cleared>>
  BY DEF LimitConfig
<1>3. ASSUME NEW h \in Groups
      PROVE  /\ DOMAIN group'[h] = DOMAIN group[h]
             /\ group'[h].used = group[h].used /\ group'[h].unused = group[h].unused
             /\ group'[h].place = group[h].place /\ group'[h].misc = group[h].misc
  BY <1>1, FieldNames DEF Shape, GroupShape, Fields
<1>4. DOMAIN group' = Groups
  BY <1>1 DEF Shape, GroupShape
<1>5. GroupShape'
  BY <1>3, <1>4 DEF Shape, GroupShape
<1>6. Shape'
  BY <1>2, <1>5, Zenon DEF Shape, Tables
<1>7. ClearedDiscarded'
  BY <1>2 DEF ClearedDiscarded, Live
<1>8. OnLists'
  BY <1>2, <1>3, Zenon DEF OnLists, Exists
<1>9. GroupsKept'
  <2>1. \A h \in Groups : Exists(h) => Exists(h)' /\ group'[h].misc = group[h].misc
    BY <1>3 DEF Exists
  <2>. QED  BY <1>2, <2>1, SameCalls
<1>. QED  BY <1>6, <1>7, <1>8, <1>9


(* A caller goes into a call with a group that is there.                   *)
LEMMA CallsKeep ==
    ASSUME Shape, GroupsKept, NEW th \in Threads, NEW to \in {"search", "create"},
           NEW g \in Groups, NEW s \in Sizes, NEW ref \in BOOLEAN,
           Calls(th, to, [group |-> g, size |-> s, ref |-> ref]),
           Exists(g)',
           \A h \in Groups : Exists(h) => Exists(h)'
    PROVE  /\ at' \in [Threads -> {"idle", "search", "create"}]
           /\ want' \in [Threads -> [group : Groups \union {NoGroup}, size : Nat,
                                     ref : BOOLEAN]]
           /\ \A x \in Threads :
                 /\ want'[x].group # NoGroup => Exists(want[x].group)'
                 /\ at'[x] # "idle" => want'[x].group # NoGroup
<1> DEFINE w == [group |-> g, size |-> s, ref |-> ref]
           Wants == [group : Groups \union {NoGroup}, size : Nat, ref : BOOLEAN]
<1>1. w \in Wants /\ w.group = g /\ g # NoGroup
  BY GroupsAssumption
<1>2. at' = [at EXCEPT ![th] = to] /\ want' = [want EXCEPT ![th] = w]
  BY DEF Calls
<1>3. at \in [Threads -> {"idle", "search", "create"}] /\ want \in [Threads -> Wants]
  BY DEF Shape
<1> HIDE DEF w
<1>4. ASSUME NEW x \in Threads
      PROVE  /\ want'[x].group # NoGroup => Exists(want[x].group)'
             /\ at'[x] # "idle" => want'[x].group # NoGroup
  <2>1. CASE x = th
    <3>1. want'[x] = w
      BY <1>2, <1>3, <2>1
    <3>. QED  BY <3>1, <1>1
  <2>2. CASE x # th
    <3>1. want'[x] = want[x] /\ at'[x] = at[x] /\ want[x] \in Wants
      BY <1>2, <1>3, <2>2
    <3>2. want[x].group \in Groups \union {NoGroup}
      BY <3>1
    <3>3. /\ want[x].group # NoGroup => Exists(want[x].group)
          /\ at[x] # "idle" => want[x].group # NoGroup
      BY DEF GroupsKept
    <3>. QED  BY <3>1, <3>2, <3>3
  <2>. QED  BY <2>1, <2>2
<1>5. at' \in [Threads -> {"idle", "search", "create"}] /\ want' \in [Threads -> Wants]
  BY <1>1, <1>2, <1>3
<1>. QED  BY <1>4, <1>5

LEMMA CallGetStep ==
    ASSUME IInv, ~freedInUse, NEW th \in Threads, CallGet(th) \/ CallImport(th)
    PROVE  IInv'
<1> USE DEF IInv
<1>1. PICK g \in Groups, s \in Sizes, ref \in BOOLEAN, to \in {"search", "create"} :
          Handle(g) /\ Calls(th, to, [group |-> g, size |-> s, ref |-> ref])
  BY DEF CallGet, CallImport
<1>2. UNCHANGED <<group, buffer, misc, freedInUse, cleared>>
  BY DEF CallGet, CallImport
<1>3. Exists(g)' /\ \A h \in Groups : Exists(h) => Exists(h)'
  BY <1>1, <1>2 DEF Handle, Exists
<1>4. /\ at' \in [Threads -> {"idle", "search", "create"}]
      /\ want' \in [Threads -> [group : Groups \union {NoGroup}, size : Nat, ref : BOOLEAN]]
      /\ \A x \in Threads :
            /\ want'[x].group # NoGroup => Exists(want[x].group)'
            /\ at'[x] # "idle" => want'[x].group # NoGroup
  BY <1>1, <1>3, CallsKeep, Zenon
<1>5. Shape'
  BY <1>2, <1>4, Zenon DEF Shape, GroupShape, Tables
<1>6. ClearedDiscarded'
  BY <1>2 DEF ClearedDiscarded, Live
<1>7. OnLists'
  BY <1>2, Zenon DEF OnLists, Exists
<1>8. GroupsKept'
  BY <1>2, <1>4, Zenon DEF GroupsKept, Exists
<1>. QED  BY <1>5, <1>6, <1>7, <1>8

(* The misc group that is there or is made.                                *)
LEMMA InMiscGroup ==
    ASSUME Shape, OnLists, GroupsKept, UNCHANGED buffer,
           NEW g \in Groups, NEW mode \in Modes, NEW type \in Types, InMisc(mode, type, g)
    PROVE  /\ GroupShape' /\ OnLists'
           /\ Exists(g)'
           /\ \A h \in Groups : Exists(h) => Exists(h)'
           /\ misc' \in [Modes -> [Types -> Groups \union {NoGroup}]]
           /\ \A m \in Modes, t \in Types : misc'[m][t] # NoGroup =>
                  Exists(misc[m][t])' /\ group'[misc'[m][t]].misc
<1>0. g # NoGroup /\ misc \in [Modes -> [Types -> Groups \union {NoGroup}]]
  BY GroupsAssumption DEF Shape
<1>1. CASE GetMisc(mode, type) = g /\ UNCHANGED <<group, misc>>
  <2>1. misc[mode][type] = g
    BY <1>0, <1>1 DEF GetMisc
  <2>2. Exists(g)
    BY <1>0, <2>1 DEF GroupsKept
  <2>3. GroupShape' /\ OnLists'
    BY <1>1, Zenon DEF Shape, GroupShape, OnLists, Exists
  <2>4. \A h \in Groups : Exists(h)' = Exists(h) /\ group'[h] = group[h]
    BY <1>1 DEF Exists
  <2>5. \A m \in Modes, t \in Types : misc'[m][t] # NoGroup =>
            Exists(misc[m][t])' /\ group'[misc'[m][t]].misc
    BY <1>1, Zenon DEF GroupsKept, Exists
  <2>. QED  BY <1>0, <1>1, <2>2, <2>3, <2>4, <2>5
<1>2. CASE /\ Made(g, mode, type, TRUE)
           /\ misc' = [misc EXCEPT ![mode][type] = g]
  <2>1. /\ GroupShape' /\ OnLists'
        /\ ~Exists(g) /\ Exists(g)' /\ group'[g].misc = TRUE
        /\ \A h \in Groups \ {g} : group'[h] = group[h]
    BY <1>2, MadeGroup, Zenon
  <2>2. \A h \in Groups : Exists(h) => Exists(h)' /\ h # g
    BY <2>1 DEF Exists
  <2>3. misc' \in [Modes -> [Types -> Groups \union {NoGroup}]]
    BY <1>0, <1>2
  <2>4. ASSUME NEW m \in Modes, NEW t \in Types, misc'[m][t] # NoGroup
        PROVE  Exists(misc[m][t])' /\ group'[misc'[m][t]].misc
    <3>1. CASE misc'[m][t] = g
      BY <3>1, <2>1
    <3>2. CASE misc'[m][t] # g
      <4>1. misc'[m][t] = misc[m][t]
        BY <1>0, <1>2, <3>2
      <4>2. misc[m][t] \in Groups /\ misc[m][t] # NoGroup
        BY <1>0, <2>4, <4>1
      <4>3. Exists(misc[m][t]) /\ group[misc[m][t]].misc
        BY <4>2 DEF GroupsKept
      <4>4. Exists(misc[m][t])'
        <5> DEFINE h == misc'[m][t]
        <5>1. h \in Groups /\ h = misc[m][t] /\ Exists(misc[m][t])
          BY <4>1, <4>2, <4>3
        <5>2. group[h].place # "none" /\ group'[h] = group[h]
          BY <5>1, <3>2, <2>1 DEF Exists
        <5>. QED  BY <5>2 DEF Exists
      <4>. QED  BY <2>1, <3>2, <4>1, <4>2, <4>3, <4>4
    <3>. QED  BY <3>1, <3>2
  <2>. QED  BY <2>1, <2>2, <2>3, <2>4
<1>. QED  BY <1>1, <1>2 DEF InMisc

LEMMA CallMiscStep ==
    ASSUME IInv, ~freedInUse, NEW th \in Threads, CallGetMisc(th) \/ CallImportMisc(th)
    PROVE  IInv'
<1> USE DEF IInv
<1>1. PICK g \in Groups, mode \in Modes, type \in Types, s \in Sizes,
           to \in {"search", "create"} :
          InMisc(mode, type, g) /\ Calls(th, to, [group |-> g, size |-> s, ref |-> TRUE])
  <2>1. "internal" \in Modes /\ "external" \in Modes
    BY DEF Modes
  <2>2. CASE CallGetMisc(th)
    BY <2>1, <2>2 DEF CallGetMisc
  <2>3. CASE CallImportMisc(th)
    BY <2>1, <2>3 DEF CallImportMisc
  <2>. QED  BY <2>2, <2>3
<1>2. UNCHANGED <<buffer, freedInUse, cleared>>
  BY DEF CallGetMisc, CallImportMisc
<1>3. /\ GroupShape' /\ OnLists'
      /\ Exists(g)'
      /\ \A h \in Groups : Exists(h) => Exists(h)'
      /\ misc' \in [Modes -> [Types -> Groups \union {NoGroup}]]
      /\ \A m \in Modes, t \in Types : misc'[m][t] # NoGroup =>
             Exists(misc[m][t])' /\ group'[misc'[m][t]].misc
  BY <1>1, <1>2, InMiscGroup, Zenon
<1>4. /\ at' \in [Threads -> {"idle", "search", "create"}]
      /\ want' \in [Threads -> [group : Groups \union {NoGroup}, size : Nat, ref : BOOLEAN]]
      /\ \A x \in Threads :
            /\ want'[x].group # NoGroup => Exists(want[x].group)'
            /\ at'[x] # "idle" => want'[x].group # NoGroup
  <2>1. TRUE \in BOOLEAN
    OBVIOUS
  <2>. QED  BY <1>1, <1>3, <2>1, CallsKeep, Zenon
<1>5. Shape'
  BY <1>2, <1>3, <1>4, Zenon DEF Shape, Tables
<1>6. ClearedDiscarded'
  BY <1>2 DEF ClearedDiscarded, Live
<1>7. GroupsKept'
  BY <1>3, <1>4, Zenon DEF GroupsKept, Exists
<1>. QED  BY <1>3, <1>5, <1>6, <1>7


(* A caller comes back, or goes on to create a buffer.                     *)
LEMMA ReturnsKeep ==
    ASSUME Shape, GroupsKept, NEW th \in Threads, UNCHANGED misc,
           \/ Returns(th)
           \/ at[th] = "search" /\ at' = [at EXCEPT ![th] = "create"] /\ UNCHANGED want,
           \A h \in Groups : Exists(h) => Exists(h)' /\ group'[h].misc = group[h].misc
    PROVE  /\ at' \in [Threads -> {"idle", "search", "create"}]
           /\ want' \in [Threads -> [group : Groups \union {NoGroup}, size : Nat,
                                     ref : BOOLEAN]]
           /\ GroupsKept'
<1> DEFINE Wants == [group : Groups \union {NoGroup}, size : Nat, ref : BOOLEAN]
<1>1. /\ at \in [Threads -> {"idle", "search", "create"}]
      /\ want \in [Threads -> Wants]
      /\ misc \in [Modes -> [Types -> Groups \union {NoGroup}]]
  BY DEF Shape
<1>2. NoWant \in Wants /\ NoWant.group = NoGroup
  <2>1. 0 \in Nat /\ FALSE \in BOOLEAN
    OBVIOUS
  <2>. QED  BY <2>1 DEF NoWant
<1>3. /\ at' \in [Threads -> {"idle", "search", "create"}]
      /\ want' \in [Threads -> Wants]
  BY <1>1, <1>2 DEF Returns
<1>4. ASSUME NEW x \in Threads
      PROVE  /\ want'[x] = want[x] \/ want'[x] = NoWant
             /\ at'[x] = "idle" \/ (want'[x] = want[x] /\ at[x] # "idle")
  <2>1. CASE Returns(th)
    BY <1>1, <2>1 DEF Returns
  <2>2. CASE at[th] = "search" /\ at' = [at EXCEPT ![th] = "create"] /\ UNCHANGED want
    BY <1>1, <2>2
  <2>. QED  BY <2>1, <2>2
<1>5. ASSUME NEW x \in Threads
      PROVE  /\ want'[x].group # NoGroup => Exists(want[x].group)'
             /\ at'[x] # "idle" => want'[x].group # NoGroup
  <2>1. /\ want[x].group # NoGroup => Exists(want[x].group)
        /\ at[x] # "idle" => want[x].group # NoGroup
    BY DEF GroupsKept
  <2>2. want'[x].group # NoGroup => want'[x].group = want[x].group
    BY <1>2, <1>4
  <2>3. ASSUME want'[x].group # NoGroup
        PROVE  Exists(want[x].group)'
    <3> DEFINE h == want'[x].group
    <3>1. h = want[x].group /\ h \in Groups
      BY <1>1, <2>2, <2>3
    <3>2. Exists(h)
      BY <2>1, <2>3, <3>1
    <3>3. group[h].place # "none" => group'[h].place # "none"
      BY <3>1, Zenon DEF Exists
    <3>. QED  BY <3>2, <3>3 DEF Exists
  <2>4. at'[x] # "idle" => want'[x].group # NoGroup
    BY <1>2, <1>4, <2>1
  <2>. QED  BY <2>3, <2>4
<1>6. ASSUME NEW m \in Modes, NEW t \in Types, misc'[m][t] # NoGroup
      PROVE  Exists(misc[m][t])' /\ group'[misc'[m][t]].misc
  <2>1. misc[m][t] \in Groups /\ misc[m][t] # NoGroup
    BY <1>1, <1>6
  <2>2. Exists(misc[m][t]) /\ group[misc[m][t]].misc
    BY <2>1 DEF GroupsKept
  <2>. QED  BY <2>1, <2>2
<1>7. GroupsKept'
  BY <1>5, <1>6, Zenon DEF GroupsKept
<1>. QED  BY <1>3, <1>7

(* What a search leaves of the group.                                      *)
LEMMA SearchedFields ==
    ASSUME NEW r, DOMAIN r = Fields, NEW k, NEW th
    PROVE  LET q == Searched(r, k, th)
           IN /\ DOMAIN q = Fields
              /\ q.used = r.used
              /\ q.unused = IF r.mode = "external" THEN RemoveAt(r.unused, k)
                            ELSE SubSeq(r.unused, k + 1, Len(r.unused))
              /\ q.place = r.place
              /\ q.misc = r.misc
<1> DEFINE w == Without(r, SmallBefore(r, k, th))
<1>1. /\ DOMAIN w = Fields /\ w.used = r.used /\ w.unused = r.unused
      /\ w.place = r.place /\ w.misc = r.misc
  BY WithoutFields, Zenon
<1> HIDE DEF w
<1>2. CASE r.mode = "external"
  BY <1>2, FieldNames DEF Searched
<1>3. CASE r.mode # "external"
  BY <1>1, <1>3, FieldNames DEF Searched, w
<1>. QED  BY <1>2, <1>3

(* The group of a call is there, and has its buffers on its lists.         *)
LEMMA GroupThere ==
    ASSUME Shape, OnLists, NEW g \in Groups
    PROVE  \E u \in SUBSET Buffers, s \in Seq(Buffers) :
               /\ u = group[g].used /\ s = group[g].unused
               /\ DOMAIN group[g] = Fields
               /\ ListsOf(g, u, s, buffer)
BY Zenon DEF Shape, GroupShape, OnLists, Fields

LEMMA CallsGroup ==
    ASSUME Shape, GroupsKept, NEW th \in Threads, at[th] # "idle"
    PROVE  \E g \in Groups : g = want[th].group /\ Exists(g)
<1>1. want[th].group \in Groups \union {NoGroup}
  BY DEF Shape
<1>. QED  BY <1>1, Zenon DEF GroupsKept

LEMMA GetFindsNoneStep ==
    ASSUME IInv, ~freedInUse, NEW th \in Threads, GetFindsNone(th)
    PROVE  IInv'
<1> USE DEF IInv
<1>1. UNCHANGED <<misc, freedInUse>> /\ at[th] # "idle"
  BY DEF GetFindsNone
<1>2. CASE UNCHANGED <<group, buffer, cleared>> /\ Returns(th)
  <2>1. /\ at' \in [Threads -> {"idle", "search", "create"}]
        /\ want' \in [Threads -> [group : Groups \union {NoGroup}, size : Nat,
                                  ref : BOOLEAN]]
        /\ GroupsKept'
    <3>1. \A h \in Groups : Exists(h) => Exists(h)' /\ group'[h].misc = group[h].misc
      BY <1>2 DEF Exists
    <3>. QED  BY <1>1, <1>2, <3>1, ReturnsKeep, Zenon
  <2>2. Shape'
    BY <1>1, <1>2, <2>1, Zenon DEF Shape, GroupShape, Tables
  <2>3. ClearedDiscarded'
    BY <1>2 DEF ClearedDiscarded, Live
  <2>4. OnLists'
    BY <1>2, Zenon DEF OnLists, Exists
  <2>. QED  BY <2>1, <2>2, <2>3, <2>4
<1>3. PICK g \in Groups : g = want[th].group /\ Exists(g)
  BY <1>1, CallsGroup, Zenon
<1>5. PICK u \in SUBSET Buffers, s \in Seq(Buffers) :
          /\ u = group[g].used /\ s = group[g].unused
          /\ DOMAIN group[g] = Fields
          /\ ListsOf(g, u, s, buffer)
  BY GroupThere, Zenon
<1>6. PICK q : q = WithoutUnused(group[g])
  OBVIOUS
<1>7. CASE /\ group' = [group EXCEPT ![g] = q]
           /\ buffer' = Freed(ToSet(s))
           /\ cleared' = cleared \ ToSet(s)
           /\ at[th] = "search"
           /\ at' = [at EXCEPT ![th] = "create"]
           /\ UNCHANGED want
  <2>1. GroupShape /\ buffer \in Tables
    BY DEF Shape
  <2>2. /\ DOMAIN q = Fields /\ q.used = u /\ q.unused = <<>>
        /\ q.place = group[g].place /\ q.misc = group[g].misc
    BY <1>5, <1>6, WithoutUnusedFields, Zenon
  <2>3. /\ group'[g] = q
        /\ \A h \in Groups \ {g} : group'[h] = group[h]
        /\ DOMAIN group' = Groups
    BY <1>7, <2>1, OneGroup, Zenon
  <2>4. /\ buffer' \in Tables
        /\ \A b \in Buffers : b \in ToSet(s) => buffer'[b].group = NoGroup
        /\ \A b \in Buffers : b \notin ToSet(s) => buffer'[b] = buffer[b]
    BY <1>7, <2>1, FreedTable, Zenon
  <2>5. /\ \A i \in 1 .. Len(s) : s[i] \in ToSet(s)
        /\ \A b \in Buffers : b \notin ToSet(s) => \A i \in 1 .. Len(s) : s[i] # b
        /\ \A b \in ToSet(s) : b \in Buffers /\ buffer[b].group = g /\ buffer[b].ref = 0
    <3>1. ListsOf(g, u, s, buffer) /\ buffer \in Tables
      BY <1>5, <2>1
    <3>. QED  BY <3>1, UnusedBuffers
  <2>6. ListsOf(g, u, <<>>, buffer')
    <3>1. \A i \in 1 .. Len(s) : buffer'[s[i]].group = NoGroup
      BY <2>4, <2>5
    <3>2. \A b \in Buffers : (\A i \in 1 .. Len(s) : s[i] # b) =>
              buffer'[b].group = buffer[b].group /\ buffer'[b].ref = buffer[b].ref
      <4>1. \A b \in Buffers : (\A i \in 1 .. Len(s) : s[i] # b) => b \notin ToSet(s)
        BY DEF ToSet
      <4>. QED  BY <2>4, <4>1
    <3>. QED  BY <1>5, <2>1, <2>4, <3>1, <3>2, ListsEmptied, Zenon
  <2>7. \A h \in Groups \ {g} : \A b \in Buffers :
            buffer[b].group = h \/ buffer'[b].group = h =>
                buffer'[b].group = buffer[b].group /\ (buffer'[b].ref = 0 <=> buffer[b].ref = 0)
    BY <2>4, <2>5, GroupsAssumption
  <2>8. DOMAIN group'[g] = Fields /\ group'[g].used = u /\ group'[g].unused = <<>>
        /\ group'[g].place = group[g].place /\ group'[g].misc = group[g].misc
    BY <1>5, <2>2, <2>3, Zenon
  <2>9. \A h \in Groups : Exists(h) => Exists(h)' /\ group'[h].misc = group[h].misc
    BY <2>3, <2>8 DEF Exists
  <2>10. GroupShape' /\ OnLists'
    <3>1. <<>> \in Seq(Buffers)
      OBVIOUS
    <3>. QED  BY <1>3, <2>1, <2>3, <2>4, <2>6, <2>7, <2>8, <2>9, <3>1, OnListsKept, Zenon
  <2>11. /\ at' \in [Threads -> {"idle", "search", "create"}]
         /\ want' \in [Threads -> [group : Groups \union {NoGroup}, size : Nat,
                                   ref : BOOLEAN]]
         /\ GroupsKept'
    BY <1>1, <1>7, <2>9, ReturnsKeep, Zenon
  <2>12. Shape'
    <3>1. cleared' \subseteq Buffers
      BY <1>7 DEF Shape
    <3>. QED  BY <1>1, <2>4, <2>10, <2>11, <3>1, Zenon DEF Shape
  <2>13. ClearedDiscarded'
    <3>1. \A b \in cleared' : b \in cleared /\ b \in Buffers /\ buffer'[b] = buffer[b]
      BY <1>7, <2>4 DEF Shape
    <3>. QED  BY <3>1, Zenon DEF ClearedDiscarded, Live
  <2>. QED  BY <2>10, <2>11, <2>12, <2>13
<1>. QED  BY <1>2, <1>3, <1>5, <1>6, <1>7, Zenon DEF GetFindsNone


LEMMA CreateFailsStep ==
    ASSUME IInv, ~freedInUse, NEW th \in Threads, CreateFails(th)
    PROVE  IInv'
<1> USE DEF IInv
<1>1. UNCHANGED <<group, buffer, misc, freedInUse, cleared>> /\ Returns(th)
  BY DEF CreateFails
<1>2. /\ at' \in [Threads -> {"idle", "search", "create"}]
      /\ want' \in [Threads -> [group : Groups \union {NoGroup}, size : Nat, ref : BOOLEAN]]
      /\ GroupsKept'
  <2>1. \A h \in Groups : Exists(h) => Exists(h)' /\ group'[h].misc = group[h].misc
    BY <1>1 DEF Exists
  <2>. QED  BY <1>1, <2>1, ReturnsKeep, Zenon
<1>3. Shape'
  BY <1>1, <1>2, Zenon DEF Shape, GroupShape, Tables
<1>4. ClearedDiscarded'
  BY <1>1 DEF ClearedDiscarded, Live
<1>5. OnLists'
  BY <1>1, Zenon DEF OnLists, Exists
<1>. QED  BY <1>2, <1>3, <1>4, <1>5

(* References are added and put, but not the last one.                     *)
LEMMA RefStep ==
    ASSUME IInv, ~freedInUse, RefInc \/ RefDec
    PROVE  IInv'
<1> USE DEF IInv
<1>1. PICK x \in Buffers : /\ buffer[x].ref > 0
                           /\ \/ buffer' = [buffer EXCEPT ![x].ref = @ + 1]
                              \/ /\ buffer[x].ref > 1
                                 /\ buffer' = [buffer EXCEPT ![x].ref = @ - 1]
  BY GroupsAssumption DEF RefInc, RefDec, Shape, Tables
<1>2. UNCHANGED <<group, misc, at, want, freedInUse, cleared>>
  BY DEF RefInc, RefDec
<1>3. /\ buffer \in Tables /\ GroupShape
      /\ \A b \in Buffers : buffer[b].ref \in Nat
  BY DEF Shape, Tables
<1>4. /\ buffer' \in Tables
      /\ \A b \in Buffers : /\ buffer'[b].group = buffer[b].group
                            /\ buffer'[b].discard = buffer[b].discard
                            /\ buffer'[b].ref = 0 <=> buffer[b].ref = 0
                            /\ buffer[b].ref > 0 => buffer'[b].ref > 0
  BY <1>1, <1>3 DEF Tables
<1>5. Shape'
  BY <1>2, <1>4, Zenon DEF Shape, GroupShape
<1>6. ClearedDiscarded'
  <2>1. \A b \in cleared : b \in Buffers
    BY DEF Shape
  <2>. QED  BY <1>2, <1>4, <2>1 DEF ClearedDiscarded, Live
<1>7. OnLists'
  <2>1. ASSUME NEW h \in Groups
        PROVE  ListsOf(h, group[h].used, group[h].unused, buffer')
    <3>1. PICK u \in SUBSET Buffers, s \in Seq(Buffers) :
              /\ u = group[h].used /\ s = group[h].unused
              /\ DOMAIN group[h] = Fields
              /\ ListsOf(h, u, s, buffer)
      BY GroupThere, Zenon
    <3>2. ListsOf(h, u, s, buffer')
      BY <1>3, <1>4, <3>1, ListsUntouched, Zenon
    <3>. QED  BY <3>1, <3>2
  <2>. QED  BY <1>2, <2>1, Zenon DEF OnLists, Exists
<1>8. GroupsKept'
  BY <1>2, Zenon DEF GroupsKept, Exists
<1>. QED  BY <1>5, <1>6, <1>7, <1>8

LEMMA CreateStep ==
    ASSUME IInv, ~freedInUse, NEW th \in Threads, Create(th)
    PROVE  IInv'
<1> USE DEF IInv
<1>1. UNCHANGED <<misc, freedInUse, cleared>> /\ at[th] # "idle" /\ Returns(th)
  BY DEF Create
<1>2. PICK g \in Groups : g = want[th].group /\ Exists(g)
  BY <1>1, CallsGroup, Zenon
<1>3. PICK u \in SUBSET Buffers, s \in Seq(Buffers) :
          /\ u = group[g].used /\ s = group[g].unused
          /\ DOMAIN group[g] = Fields
          /\ ListsOf(g, u, s, buffer)
  BY GroupThere, Zenon
<1>4. PICK n \in Nat, ref \in BOOLEAN : n = want[th].size /\ ref = want[th].ref
  BY DEF Shape
<1>5. PICK more : more = [group[g] EXCEPT !.usage = @ + want[th].size, !.bufferCount = @ + 1]
  OBVIOUS
<1>6. /\ DOMAIN more = Fields /\ more.used = u /\ more.unused = s
      /\ more.place = group[g].place /\ more.misc = group[g].misc
  BY <1>3, <1>5, FieldNames
<1> DEFINE Into(x) == IF ref THEN Used(more, x)
                      ELSE [more EXCEPT !.unused = Append(@, x), !.countUnused = @ + 1]
<1>6a. PICK x \in Buffers :
          /\ ~Live(x)
          /\ buffer' = [buffer EXCEPT ![x] =
                 [group |-> g, size |-> n, ref |-> IF ref THEN 1 ELSE 0, discard |-> FALSE]]
          /\ group' = [group EXCEPT ![g] = Into(x)]
  BY <1>2, <1>4, <1>5, Zenon DEF Create
<1>6b. PICK q : q = Into(x)
  OBVIOUS
<1>7. /\ ~Live(x)
      /\ buffer' = [buffer EXCEPT ![x] =
             [group |-> g, size |-> n, ref |-> IF ref THEN 1 ELSE 0, discard |-> FALSE]]
      /\ q = IF ref THEN Used(more, x)
             ELSE [more EXCEPT !.unused = Append(@, x), !.countUnused = @ + 1]
      /\ group' = [group EXCEPT ![g] = q]
  BY <1>6a, <1>6b
<1>8. PICK v \in SUBSET Buffers, t \in Seq(Buffers) :
          /\ v = IF ref THEN u \union {x} ELSE u
          /\ t = IF ref THEN s ELSE Append(s, x)
  <2>1. Append(s, x) \in Seq(Buffers) /\ u \union {x} \in SUBSET Buffers
    OBVIOUS
  <2>. QED  BY <2>1, Zenon
<1>9. /\ DOMAIN q = Fields /\ q.used = v /\ q.unused = t
      /\ q.place = group[g].place /\ q.misc = group[g].misc
  <2>1. CASE ref
    <3>1. q = Used(more, x)
      BY <1>7, <2>1
    <3>2. LET y == Used(more, x)
          IN /\ DOMAIN y = Fields /\ y.used = more.used \union {x}
             /\ y.unused = more.unused /\ y.place = more.place /\ y.misc = more.misc
      BY <1>6, UsedFields, Zenon
    <3>. QED  BY <1>6, <1>8, <2>1, <3>1, <3>2
  <2>2. CASE ~ref
    BY <1>6, <1>7, <1>8, <2>2, FieldNames
  <2>. QED  BY <2>1, <2>2
<1>10. GroupShape /\ buffer \in Tables
  BY DEF Shape
<1>11. /\ group'[g] = q
       /\ \A h \in Groups \ {g} : group'[h] = group[h]
       /\ DOMAIN group' = Groups
  BY <1>7, <1>10, OneGroup, Zenon
<1>12. /\ buffer' \in Tables
       /\ buffer[x].group = NoGroup /\ buffer'[x].group = g
       /\ ref => buffer'[x].ref > 0
       /\ ~ref => buffer'[x].ref = 0
       /\ \A b \in Buffers \ {x} : buffer'[b] = buffer[b]
  <2> DEFINE row == [group |-> g, size |-> n, ref |-> IF ref THEN 1 ELSE 0, discard |-> FALSE]
  <2>1. /\ row \in [group : Groups \union {NoGroup}, size : Nat, ref : Nat, discard : BOOLEAN]
        /\ row.group = g /\ row.group # NoGroup
        /\ ref => row.ref > 0
        /\ ~ref => row.ref = 0
    BY GroupsAssumption
  <2>2. buffer' = [buffer EXCEPT ![x] = row]
    BY <1>7
  <2> HIDE DEF row
  <2>3. /\ buffer \in [Buffers -> [group : Groups \union {NoGroup}, size : Nat, ref : Nat,
                                   discard : BOOLEAN]]
        /\ \A b \in Buffers : buffer[b].group = NoGroup => buffer[b].ref = 0
    BY <1>10 DEF Tables
  <2>4. /\ buffer' \in [Buffers -> [group : Groups \union {NoGroup}, size : Nat, ref : Nat,
                                    discard : BOOLEAN]]
        /\ buffer'[x] = row
        /\ \A b \in Buffers \ {x} : buffer'[b] = buffer[b]
    BY <2>1, <2>2, <2>3
  <2>5. ASSUME NEW b \in Buffers, buffer'[b].group = NoGroup
        PROVE  buffer'[b].ref = 0
    <3>1. b # x
      BY <2>1, <2>4, <2>5
    <3>2. buffer'[b] = buffer[b]
      BY <2>4, <3>1
    <3>. QED  BY <2>3, <2>5, <3>2
  <2>6. buffer' \in Tables
    BY <2>4, <2>5 DEF Tables
  <2>7. buffer[x].group = NoGroup
    BY <1>7 DEF Live
  <2>. QED  BY <2>1, <2>4, <2>6, <2>7
<1>13. ListsOf(g, v, t, buffer')
  <2>1. CASE ref
    <3>1. ListsOf(g, u \union {x}, s, buffer')
      BY <1>3, <1>10, <1>12, <2>1, ListsNewUsed, Zenon
    <3>. QED  BY <1>8, <2>1, <3>1
  <2>2. CASE ~ref
    <3>1. ListsOf(g, u, Append(s, x), buffer')
      BY <1>3, <1>10, <1>12, <2>2, ListsNewUnused, Zenon
    <3>. QED  BY <1>8, <2>2, <3>1
  <2>. QED  BY <2>1, <2>2
<1>14. \A h \in Groups \ {g} : \A b \in Buffers :
           buffer[b].group = h \/ buffer'[b].group = h =>
               buffer'[b].group = buffer[b].group /\ (buffer'[b].ref = 0 <=> buffer[b].ref = 0)
  BY <1>12, GroupsAssumption
<1>15. DOMAIN group'[g] = Fields /\ group'[g].used = v /\ group'[g].unused = t
       /\ group'[g].place = group[g].place /\ group'[g].misc = group[g].misc
  BY <1>9, <1>11, Zenon
<1>16. \A h \in Groups : Exists(h) => Exists(h)' /\ group'[h].misc = group[h].misc
  BY <1>11, <1>15 DEF Exists
<1>17. GroupShape' /\ OnLists'
  BY <1>2, <1>10, <1>11, <1>12, <1>13, <1>14, <1>15, <1>16, OnListsKept, Zenon
<1>18. /\ at' \in [Threads -> {"idle", "search", "create"}]
       /\ want' \in [Threads -> [group : Groups \union {NoGroup}, size : Nat, ref : BOOLEAN]]
       /\ GroupsKept'
  BY <1>1, <1>16, ReturnsKeep, Zenon
<1>19. Shape'
  BY <1>1, <1>12, <1>17, <1>18, Zenon DEF Shape
<1>20. ClearedDiscarded'
  <2>1. \A b \in cleared : b \in Buffers /\ buffer'[b] = buffer[b]
    BY <1>7, <1>12 DEF Shape, ClearedDiscarded
  <2>. QED  BY <1>1, <2>1, Zenon DEF ClearedDiscarded, Live
<1>. QED  BY <1>17, <1>18, <1>19, <1>20


(* A buffer with references is in a group that is there.                   *)
LEMMA BuffersGroup ==
    ASSUME Shape, OnLists, NEW x \in Buffers, buffer[x].ref > 0
    PROVE  \E g \in Groups : g = buffer[x].group /\ Exists(g)
<1>1. buffer[x].group \in Groups
  BY DEF Shape, Tables
<1>2. x \in group[buffer[x].group].used
  BY <1>1 DEF OnLists, ListsOf
<1>. QED  BY <1>1, <1>2, Zenon DEF OnLists

LEMMA RecycleStep ==
    ASSUME IInv, ~freedInUse, NEW x \in Buffers, Recycle(x)
    PROVE  IInv'
<1> USE DEF IInv
<1>1. /\ UNCHANGED <<misc, at, want, freedInUse, cleared>>
      /\ buffer[x].ref = 1 /\ ~buffer[x].discard
      /\ buffer' = [buffer EXCEPT ![x].ref = 0]
  BY DEF Recycle, LastRef
<1>2. PICK g \in Groups : g = buffer[x].group /\ Exists(g)
  BY <1>1, BuffersGroup
<1>3. PICK u \in SUBSET Buffers, s \in Seq(Buffers) :
          /\ u = group[g].used /\ s = group[g].unused
          /\ DOMAIN group[g] = Fields
          /\ ListsOf(g, u, s, buffer)
  BY GroupThere, Zenon
<1>4. PICK less : less = Unused(group[g], x)
  OBVIOUS
<1>5. PICK q : q = [less EXCEPT !.unused = Append(@, x), !.countUnused = @ + 1]
  OBVIOUS
<1>6. group' = [group EXCEPT ![g] = q]
  <2>1. group' = [group EXCEPT ![g] =
            [Unused(group[g], x) EXCEPT !.unused = Append(@, x), !.countUnused = @ + 1]]
    BY <1>2, Zenon DEF Recycle
  <2>. QED  BY <1>4, <1>5, <2>1
<1>7. PICK v \in SUBSET Buffers, t \in Seq(Buffers) : v = u \ {x} /\ t = Append(s, x)
  <2>1. Append(s, x) \in Seq(Buffers) /\ u \ {x} \in SUBSET Buffers
    OBVIOUS
  <2>. QED  BY <2>1, Zenon
<1>8. /\ DOMAIN q = Fields /\ q.used = v /\ q.unused = t
      /\ q.place = group[g].place /\ q.misc = group[g].misc
  <2>1. /\ DOMAIN less = Fields /\ less.used = v /\ less.unused = s
        /\ less.place = group[g].place /\ less.misc = group[g].misc
    BY <1>3, <1>4, <1>7, UnusedFields, Zenon
  <2>. QED  BY <1>5, <1>7, <2>1, FieldNames
<1>9. GroupShape /\ buffer \in Tables
  BY DEF Shape
<1>10. /\ group'[g] = q
       /\ \A h \in Groups \ {g} : group'[h] = group[h]
       /\ DOMAIN group' = Groups
  BY <1>6, <1>9, OneGroup, Zenon
<1>11. /\ buffer' \in Tables
       /\ buffer[x].group = g /\ buffer[x].ref > 0 /\ buffer'[x].group = g /\ buffer'[x].ref = 0
       /\ \A b \in Buffers \ {x} : buffer'[b] = buffer[b]
  <2>1. 0 \in Nat /\ g # NoGroup
    BY GroupsAssumption
  <2>2. buffer' \in [Buffers -> [group : Groups \union {NoGroup}, size : Nat, ref : Nat,
                                 discard : BOOLEAN]]
    BY <1>1, <1>9, <2>1 DEF Tables
  <2>3. /\ buffer[x].group = g /\ buffer[x].ref > 0
        /\ buffer'[x].group = g /\ buffer'[x].ref = 0
        /\ \A b \in Buffers \ {x} : buffer'[b] = buffer[b]
    BY <1>1, <1>2, <1>9 DEF Tables
  <2>4. \A b \in Buffers : buffer'[b].group = NoGroup => buffer'[b].ref = 0
    BY <1>9, <2>1, <2>3 DEF Tables
  <2>. QED  BY <2>2, <2>3, <2>4 DEF Tables
<1>12. ListsOf(g, v, t, buffer')
  <2>1. ListsOf(g, u \ {x}, Append(s, x), buffer')
    BY <1>3, <1>9, <1>11, ListsRecycle, Zenon
  <2>. QED  BY <1>7, <2>1
<1>13. \A h \in Groups \ {g} : \A b \in Buffers :
           buffer[b].group = h \/ buffer'[b].group = h =>
               buffer'[b].group = buffer[b].group /\ (buffer'[b].ref = 0 <=> buffer[b].ref = 0)
  BY <1>11
<1>14. DOMAIN group'[g] = Fields /\ group'[g].used = v /\ group'[g].unused = t
       /\ group'[g].place = group[g].place /\ group'[g].misc = group[g].misc
  BY <1>8, <1>10, Zenon
<1>15. \A h \in Groups : Exists(h) => Exists(h)' /\ group'[h].misc = group[h].misc
  BY <1>10, <1>14 DEF Exists
<1>16. GroupShape' /\ OnLists'
  BY <1>2, <1>9, <1>10, <1>11, <1>12, <1>13, <1>14, <1>15, OnListsKept, Zenon
<1>17. GroupsKept'
  BY <1>1, <1>15, SameCalls
<1>18. Shape'
  BY <1>1, <1>11, <1>16, Zenon DEF Shape
<1>19. ClearedDiscarded'
  <2>1. \A b \in cleared : b \in Buffers /\ buffer'[b] = buffer[b]
    BY <1>1, <1>11 DEF Shape, ClearedDiscarded
  <2>. QED  BY <1>1, <2>1, Zenon DEF ClearedDiscarded, Live
<1>. QED  BY <1>16, <1>17, <1>18, <1>19

LEMMA DiscardStep ==
    ASSUME IInv, ~freedInUse, NEW x \in Buffers, Discard(x)
    PROVE  IInv'
<1> USE DEF IInv
<1>1. /\ UNCHANGED <<misc, at, want>>
      /\ buffer[x].ref = 1
      /\ buffer' = Freed({x}) /\ cleared' = cleared \ {x}
  BY DEF Discard, LastRef
<1>2. PICK g \in Groups : g = buffer[x].group /\ Exists(g)
  BY <1>1, BuffersGroup
<1>3. PICK u \in SUBSET Buffers, s \in Seq(Buffers) :
          /\ u = group[g].used /\ s = group[g].unused
          /\ DOMAIN group[g] = Fields
          /\ ListsOf(g, u, s, buffer)
  BY GroupThere, Zenon
<1>4. GroupShape /\ buffer \in Tables
  BY DEF Shape
<1>5. /\ buffer' \in Tables /\ buffer'[x].group = NoGroup
      /\ \A b \in Buffers \ {x} : buffer'[b] = buffer[b]
  <2>1. /\ Freed({x}) \in Tables
        /\ \A b \in Buffers : b \in {x} => Freed({x})[b].group = NoGroup
        /\ \A b \in Buffers : b \notin {x} => Freed({x})[b] = buffer[b]
    BY <1>4, FreedTable, Zenon
  <2>. QED  BY <1>1, <2>1
<1>6. ClearedDiscarded'
  <2>1. \A b \in cleared' : b \in cleared /\ b \in Buffers /\ buffer'[b] = buffer[b]
    BY <1>1, <1>5 DEF Shape
  <2>. QED  BY <2>1, Zenon DEF ClearedDiscarded, Live
<1>7. PICK less : less = Without(group[g], {x})
  OBVIOUS
<1>8. /\ DOMAIN less = Fields /\ less.used = u /\ less.unused = s
      /\ less.place = group[g].place /\ less.misc = group[g].misc
  BY <1>3, <1>7, WithoutFields, Zenon
<1>9. CASE group' = [group EXCEPT ![g] = Nowhere] /\ freedInUse' = TRUE
  <2>1. /\ group'[g] = Nowhere
        /\ \A h \in Groups \ {g} : group'[h] = group[h]
        /\ DOMAIN group' = Groups
    BY <1>4, <1>9, OneGroup, Zenon
  <2>2. Nowhere.used \subseteq Buffers /\ Nowhere.unused \in Seq(Buffers)
    BY DEF Nowhere
  <2>3. GroupShape'
    BY <1>4, <2>1, <2>2, Zenon DEF GroupShape
  <2>4. Shape'
    <3>1. cleared' \subseteq Buffers /\ freedInUse' \in BOOLEAN
      BY <1>1, <1>9 DEF Shape
    <3>. QED  BY <1>1, <1>5, <2>3, <3>1, Zenon DEF Shape
  <2>. QED  BY <1>6, <1>9, <2>4
<1>10. CASE group' = [group EXCEPT ![g] = Unused(less, x)] /\ UNCHANGED freedInUse
  <2>1. PICK q : q = Unused(less, x)
    OBVIOUS
  <2>2. PICK v \in SUBSET Buffers : v = u \ {x}
    OBVIOUS
  <2>3. /\ DOMAIN q = Fields /\ q.used = v /\ q.unused = s
        /\ q.place = group[g].place /\ q.misc = group[g].misc
    BY <1>8, <2>1, <2>2, UnusedFields, Zenon
  <2>4. /\ group'[g] = q
        /\ \A h \in Groups \ {g} : group'[h] = group[h]
        /\ DOMAIN group' = Groups
    BY <1>4, <1>10, <2>1, OneGroup, Zenon
  <2>5. ListsOf(g, v, s, buffer')
    <3>1. buffer[x].group = g /\ buffer[x].ref > 0
      BY <1>1, <1>2
    <3>2. ListsOf(g, u \ {x}, s, buffer')
      BY <1>3, <1>4, <1>5, <3>1, ListsDiscard, Zenon
    <3>. QED  BY <2>2, <3>2
  <2>6. \A h \in Groups \ {g} : \A b \in Buffers :
            buffer[b].group = h \/ buffer'[b].group = h =>
                buffer'[b].group = buffer[b].group /\ (buffer'[b].ref = 0 <=> buffer[b].ref = 0)
    BY <1>2, <1>5, GroupsAssumption
  <2>7. DOMAIN group'[g] = Fields /\ group'[g].used = v /\ group'[g].unused = s
        /\ group'[g].place = group[g].place /\ group'[g].misc = group[g].misc
    BY <2>3, <2>4, Zenon
  <2>8. \A h \in Groups : Exists(h) => Exists(h)' /\ group'[h].misc = group[h].misc
    BY <2>4, <2>7 DEF Exists
  <2>9. GroupShape' /\ OnLists'
    BY <1>2, <1>3, <1>4, <1>5, <2>4, <2>5, <2>6, <2>7, <2>8, OnListsKept, Zenon
  <2>10. GroupsKept'
    BY <1>1, <2>8, SameCalls
  <2>11. Shape'
    <3>1. cleared' \subseteq Buffers
      BY <1>1 DEF Shape
    <3>. QED  BY <1>1, <1>5, <1>10, <2>9, <3>1, Zenon DEF Shape
  <2>. QED  BY <1>6, <2>9, <2>10, <2>11
<1>11. \/ group' = [group EXCEPT ![g] = Nowhere] /\ freedInUse' = TRUE
       \/ group' = [group EXCEPT ![g] = Unused(less, x)] /\ UNCHANGED freedInUse
  BY <1>2, <1>7, Zenon DEF Discard
<1>. QED  BY <1>9, <1>10, <1>11


LEMMA GroupClearStep ==
    ASSUME IInv, ~freedInUse, GroupClear
    PROVE  IInv'
<1> USE DEF IInv
<1>1. PICK g \in Groups :
          /\ Handle(g)
          /\ group' = [group EXCEPT ![g] = WithoutUnused(group[g])]
          /\ buffer' = [b \in Buffers |->
                 IF b \in group[g].used THEN [buffer[b] EXCEPT !.discard = TRUE]
                 ELSE Freed(ToSet(group[g].unused))[b]]
          /\ cleared' = (cleared \union group[g].used) \ ToSet(group[g].unused)
  BY Zenon DEF GroupClear
<1>2. UNCHANGED <<misc, at, want, freedInUse>>
  BY DEF GroupClear
<1>3. PICK u \in SUBSET Buffers, s \in Seq(Buffers) :
          /\ u = group[g].used /\ s = group[g].unused
          /\ DOMAIN group[g] = Fields
          /\ ListsOf(g, u, s, buffer)
  BY GroupThere, Zenon
<1>4. PICK q : q = WithoutUnused(group[g])
  OBVIOUS
<1>5. /\ DOMAIN q = Fields /\ q.used = u /\ q.unused = <<>>
      /\ q.place = group[g].place /\ q.misc = group[g].misc
  BY <1>3, <1>4, WithoutUnusedFields, Zenon
<1>6. GroupShape /\ buffer \in Tables
  BY DEF Shape
<1>7. /\ group'[g] = q
      /\ \A h \in Groups \ {g} : group'[h] = group[h]
      /\ DOMAIN group' = Groups
  BY <1>1, <1>4, <1>6, OneGroup, Zenon
<1>8. /\ \A i \in 1 .. Len(s) : s[i] \in ToSet(s)
      /\ \A b \in Buffers : b \notin ToSet(s) => \A i \in 1 .. Len(s) : s[i] # b
      /\ \A b \in ToSet(s) : b \in Buffers /\ buffer[b].group = g /\ buffer[b].ref = 0
  <2>1. ListsOf(g, u, s, buffer) /\ buffer \in Tables
    BY <1>3, <1>6
  <2>. QED  BY <2>1, UnusedBuffers
<1>9. /\ Freed(ToSet(s)) \in Tables
      /\ \A b \in Buffers : b \in ToSet(s) => Freed(ToSet(s))[b].group = NoGroup
      /\ \A b \in Buffers : b \notin ToSet(s) => Freed(ToSet(s))[b] = buffer[b]
  BY <1>6, FreedTable, Zenon
<1>10. \A b \in u : buffer[b].group = g /\ buffer[b].ref > 0
  BY <1>3, Zenon DEF ListsOf
<1>11. PICK table \in Tables : table = Freed(ToSet(s))
  BY <1>9, Zenon
<1>12. buffer' = [b \in Buffers |->
           IF b \in u THEN [buffer[b] EXCEPT !.discard = TRUE] ELSE table[b]]
  BY <1>1, <1>3, <1>11, Zenon
<1>13. /\ buffer' \in Tables
       /\ \A b \in Buffers : /\ b \in ToSet(s) => buffer'[b].group = NoGroup
                             /\ b \notin ToSet(s) =>
                                   /\ buffer'[b].group = buffer[b].group
                                   /\ buffer'[b].ref = buffer[b].ref
                                   /\ b \in u \/ buffer'[b].discard = buffer[b].discard
       /\ \A b \in u : buffer'[b].discard
  <2>1. ASSUME NEW b \in Buffers
        PROVE  /\ buffer'[b] \in [group : Groups \union {NoGroup}, size : Nat, ref : Nat,
                                  discard : BOOLEAN]
               /\ buffer'[b].group = NoGroup => buffer'[b].ref = 0
               /\ b \in ToSet(s) => buffer'[b].group = NoGroup
               /\ b \notin ToSet(s) =>
                     /\ buffer'[b].group = buffer[b].group
                     /\ buffer'[b].ref = buffer[b].ref
                     /\ b \in u \/ buffer'[b].discard = buffer[b].discard
               /\ b \in u => buffer'[b].discard
    <3>1. CASE b \in u
      <4>1. buffer'[b] = [buffer[b] EXCEPT !.discard = TRUE] /\ b \notin ToSet(s)
        BY <1>8, <1>10, <1>12, <3>1
      <4>. QED  BY <1>6, <3>1, <4>1 DEF Tables
    <3>2. CASE b \notin u
      <4>1. buffer'[b] = table[b]
        BY <1>12, <3>2
      <4>. QED  BY <1>9, <1>11, <3>2, <4>1 DEF Tables
    <3>. QED  BY <3>1, <3>2
  <2>2. buffer' \in [Buffers -> [group : Groups \union {NoGroup}, size : Nat, ref : Nat,
                                 discard : BOOLEAN]]
    BY <1>12, <2>1
  <2>. QED  BY <2>1, <2>2 DEF Tables
<1>14. ListsOf(g, u, <<>>, buffer')
  <2>1. \A i \in 1 .. Len(s) : buffer'[s[i]].group = NoGroup
    BY <1>8, <1>13
  <2>2. \A b \in Buffers : (\A i \in 1 .. Len(s) : s[i] # b) =>
            buffer'[b].group = buffer[b].group /\ buffer'[b].ref = buffer[b].ref
    <3>1. \A b \in Buffers : (\A i \in 1 .. Len(s) : s[i] # b) => b \notin ToSet(s)
      BY DEF ToSet
    <3>. QED  BY <1>13, <3>1
  <2>. QED  BY <1>3, <1>6, <1>13, <2>1, <2>2, ListsEmptied, Zenon
<1>15. \A h \in Groups \ {g} : \A b \in Buffers :
           buffer[b].group = h \/ buffer'[b].group = h =>
               buffer'[b].group = buffer[b].group /\ (buffer'[b].ref = 0 <=> buffer[b].ref = 0)
  BY <1>8, <1>13, GroupsAssumption
<1>16. DOMAIN group'[g] = Fields /\ group'[g].used = u /\ group'[g].unused = <<>>
       /\ group'[g].place = group[g].place /\ group'[g].misc = group[g].misc
  BY <1>5, <1>7, Zenon
<1>17. Exists(g)' /\ \A h \in Groups : Exists(h) => Exists(h)' /\ group'[h].misc = group[h].misc
  BY <1>1, <1>7, <1>16 DEF Exists, Handle
<1>18. GroupShape' /\ OnLists'
  <2>1. <<>> \in Seq(Buffers)
    OBVIOUS
  <2>. QED  BY <1>6, <1>7, <1>13, <1>14, <1>15, <1>16, <1>17, <2>1, OnListsKept, Zenon
<1>19. GroupsKept'
  BY <1>2, <1>17, SameCalls
<1>20. cleared' = (cleared \union u) \ ToSet(s) /\ cleared' \subseteq Buffers
  BY <1>1, <1>3 DEF Shape
<1>21. Shape'
  BY <1>2, <1>13, <1>18, <1>20, Zenon DEF Shape
<1>22. ClearedDiscarded'
  <2>1. ASSUME NEW b \in cleared'
        PROVE  buffer'[b].group # NoGroup /\ buffer'[b].ref > 0 /\ buffer'[b].discard
    <3>1. b \in Buffers /\ b \notin ToSet(s)
      BY <1>20
    <3>2. buffer'[b].group = buffer[b].group /\ buffer'[b].ref = buffer[b].ref
      BY <1>13, <3>1
    <3>3. CASE b \in u
      BY <1>10, <1>13, <3>2, <3>3, GroupsAssumption
    <3>4. CASE b \notin u
      BY <1>13, <1>20, <3>1, <3>2, <3>4 DEF ClearedDiscarded, Live
    <3>. QED  BY <3>3, <3>4
  <2>. QED  BY <2>1, Zenon DEF ClearedDiscarded, Live
<1>. QED  BY <1>18, <1>19, <1>21, <1>22

LEMMA GroupPutStep ==
    ASSUME IInv, ~freedInUse, GroupPut
    PROVE  IInv'
<1> USE DEF IInv
<1>1. PICK g \in Groups :
          /\ Handle(g)
          /\ \A th \in Threads : want[th].group # g
          /\ group' = [group EXCEPT ![g] =
                 IF group[g].used = {} THEN Nowhere
                 ELSE [WithoutUnused(group[g]) EXCEPT !.place = "orphan"]]
          /\ buffer' = Freed(ToSet(group[g].unused))
          /\ cleared' = cleared \ ToSet(group[g].unused)
  BY Zenon DEF GroupPut
<1>2. UNCHANGED <<misc, at, want, freedInUse>>
  BY DEF GroupPut
<1>3. PICK u \in SUBSET Buffers, s \in Seq(Buffers) :
          /\ u = group[g].used /\ s = group[g].unused
          /\ DOMAIN group[g] = Fields
          /\ ListsOf(g, u, s, buffer)
  BY GroupThere, Zenon
<1>4. PICK less : less = WithoutUnused(group[g])
  OBVIOUS
<1>5. PICK q : q = IF u = {} THEN Nowhere ELSE [less EXCEPT !.place = "orphan"]
  OBVIOUS
<1>6. /\ DOMAIN q = Fields /\ q.used = u /\ q.unused = <<>>
      /\ q.place # "none" \/ u = {}
  <2>1. CASE u = {}
    BY <1>5, <2>1 DEF Fields, Nowhere
  <2>2. CASE u # {}
    <3>1. /\ DOMAIN less = Fields /\ less.used = u /\ less.unused = <<>>
      BY <1>3, <1>4, WithoutUnusedFields, Zenon
    <3>. QED  BY <1>5, <2>2, <3>1, FieldNames
  <2>. QED  BY <2>1, <2>2
<1>7. GroupShape /\ buffer \in Tables
  BY DEF Shape
<1>8. group' = [group EXCEPT ![g] = q]
  BY <1>1, <1>3, <1>4, <1>5, Zenon
<1>9. /\ group'[g] = q
      /\ \A h \in Groups \ {g} : group'[h] = group[h]
      /\ DOMAIN group' = Groups
  BY <1>7, <1>8, OneGroup, Zenon
<1>10. /\ buffer' \in Tables
       /\ \A b \in Buffers : b \in ToSet(s) => buffer'[b].group = NoGroup
       /\ \A b \in Buffers : b \notin ToSet(s) => buffer'[b] = buffer[b]
  <2>1. buffer' = Freed(ToSet(s))
    BY <1>1, <1>3, Zenon
  <2>. QED  BY <1>7, <2>1, FreedTable, Zenon
<1>11. /\ \A i \in 1 .. Len(s) : s[i] \in ToSet(s)
       /\ \A b \in Buffers : b \notin ToSet(s) => \A i \in 1 .. Len(s) : s[i] # b
       /\ \A b \in ToSet(s) : b \in Buffers /\ buffer[b].group = g /\ buffer[b].ref = 0
  <2>1. ListsOf(g, u, s, buffer) /\ buffer \in Tables
    BY <1>3, <1>7
  <2>. QED  BY <2>1, UnusedBuffers
<1>12. ListsOf(g, u, <<>>, buffer')
  <2>1. \A i \in 1 .. Len(s) : buffer'[s[i]].group = NoGroup
    BY <1>10, <1>11
  <2>2. \A b \in Buffers : (\A i \in 1 .. Len(s) : s[i] # b) =>
            buffer'[b].group = buffer[b].group /\ buffer'[b].ref = buffer[b].ref
    <3>1. \A b \in Buffers : (\A i \in 1 .. Len(s) : s[i] # b) => b \notin ToSet(s)
      BY DEF ToSet
    <3>. QED  BY <1>10, <3>1
  <2>. QED  BY <1>3, <1>7, <1>10, <2>1, <2>2, ListsEmptied, Zenon
<1>13. \A h \in Groups \ {g} : \A b \in Buffers :
           buffer[b].group = h \/ buffer'[b].group = h =>
               buffer'[b].group = buffer[b].group /\ (buffer'[b].ref = 0 <=> buffer[b].ref = 0)
  BY <1>10, <1>11, GroupsAssumption
<1>14. /\ DOMAIN group'[g] = Fields /\ group'[g].used = u /\ group'[g].unused = <<>>
       /\ Exists(g)' \/ u = {}
  BY <1>6, <1>9 DEF Exists
<1>15. GroupShape' /\ OnLists'
  <2>1. <<>> \in Seq(Buffers)
    OBVIOUS
  <2>. QED  BY <1>7, <1>9, <1>10, <1>12, <1>13, <1>14, <2>1, OnListsKept, Zenon
<1>16. GroupsKept'
  <2>1. ASSUME NEW h \in Groups, Exists(h)
        PROVE  \/ Exists(h)' /\ group'[h].misc = group[h].misc
               \/ ~group[h].misc /\ \A th \in Threads : want[th].group # h
    <3>1. CASE h = g
      BY <1>1, <3>1 DEF Handle
    <3>2. CASE h # g
      BY <1>9, <2>1, <3>2 DEF Exists
    <3>. QED  BY <3>1, <3>2
  <2>. QED  BY <1>2, <2>1, SameCalls
<1>17. cleared' = cleared \ ToSet(s) /\ cleared' \subseteq Buffers
  BY <1>1, <1>3 DEF Shape
<1>18. Shape'
  BY <1>2, <1>10, <1>15, <1>17, Zenon DEF Shape
<1>19. ClearedDiscarded'
  <2>1. \A b \in cleared' : b \in cleared /\ b \in Buffers /\ buffer'[b] = buffer[b]
    BY <1>10, <1>17
  <2>. QED  BY <2>1, Zenon DEF ClearedDiscarded, Live
<1>. QED  BY <1>15, <1>16, <1>18, <1>19


LEMMA GetFindsUnusedStep ==
    ASSUME IInv, ~freedInUse, NEW th \in Threads, GetFindsUnused(th)
    PROVE  IInv'
<1> USE DEF IInv
<1>1. UNCHANGED <<misc, freedInUse>> /\ at[th] # "idle" /\ Returns(th)
  BY DEF GetFindsUnused
<1>2. PICK g \in Groups : g = want[th].group /\ Exists(g)
  BY <1>1, CallsGroup, Zenon
<1>3. PICK u \in SUBSET Buffers, s \in Seq(Buffers) :
          /\ u = group[g].used /\ s = group[g].unused
          /\ DOMAIN group[g] = Fields
          /\ ListsOf(g, u, s, buffer)
  BY GroupThere, Zenon
<1>4. PICK ext \in BOOLEAN : ext <=> group[g].mode = "external"
  BY Zenon
<1>5. PICK k \in 1 .. Len(s) :
          /\ FirstFit(group[g], k, th)
          /\ group' = [group EXCEPT ![g] = Used(Searched(group[g], k, th), s[k])]
          /\ LET gone == IF ext THEN {} ELSE SmallBefore(group[g], k, th)
             IN /\ buffer' = [Freed(gone) EXCEPT ![s[k]].ref = 1]
                /\ cleared' = cleared \ gone
  BY <1>2, <1>3, <1>4, Zenon DEF GetFindsUnused
<1>6. PICK gone : gone = IF ext THEN {} ELSE SmallBefore(group[g], k, th)
  OBVIOUS
<1>7. PICK x \in Buffers : x = s[k]
  BY ElementOfSeq
<1>8. /\ \A i, j \in 1 .. Len(s) : s[i] = s[j] => i = j
      /\ \A i \in 1 .. Len(s) : s[i] \in Buffers /\ buffer[s[i]].group = g /\ buffer[s[i]].ref = 0
      /\ Len(s) \in Nat
  <2>1. \A i \in 1 .. Len(s) : s[i] \in Buffers
    BY ElementOfSeq
  <2>. QED  BY <1>3, <2>1, LenProperties, Zenon DEF ListsOf
<1>9. /\ ext => gone = {}
      /\ ~ext => gone = {s[j] : j \in 1 .. k - 1}
  <2>1. \A j \in 1 .. k - 1 : ~Fits(s[j], th)
    BY <1>3, <1>5, Zenon DEF FirstFit
  <2>2. SmallBefore(group[g], k, th) = {s[j] : j \in {i \in 1 .. k - 1 : ~Fits(s[i], th)}}
    BY <1>3, Zenon DEF SmallBefore
  <2>3. {i \in 1 .. k - 1 : ~Fits(s[i], th)} = 1 .. k - 1
    BY <2>1, Zenon
  <2>. QED  BY <1>6, <2>2, <2>3
<1>10. x \notin gone /\ \A b \in gone : b \in Buffers /\ buffer[b].group = g /\ buffer[b].ref = 0
  <2>1. \A j \in 1 .. k - 1 : j \in 1 .. Len(s) /\ j # k
    BY <1>8
  <2>. QED  BY <1>7, <1>8, <1>9, <2>1
<1>11. GroupShape /\ buffer \in Tables
  BY DEF Shape
<1>12. PICK table \in Tables : table = Freed(gone)
  BY <1>11, FreedTable, Zenon
<1>13. /\ \A b \in Buffers : b \in gone => table[b].group = NoGroup
       /\ \A b \in Buffers : b \notin gone => table[b] = buffer[b]
  BY <1>11, <1>12, FreedTable, Zenon
<1>14. buffer' = [table EXCEPT ![x].ref = 1] /\ cleared' = cleared \ gone
  BY <1>5, <1>6, <1>7, <1>12, Zenon
<1>15. buffer[x].group = g /\ table[x].group = g /\ g # NoGroup
  BY <1>7, <1>8, <1>10, <1>13, GroupsAssumption
<1>16. /\ buffer' \in Tables
       /\ buffer'[x].group = g /\ buffer'[x].ref > 0
       /\ \A b \in Buffers \ {x} : buffer'[b] = table[b]
  <2>1. 1 \in Nat
    OBVIOUS
  <2>2. buffer' \in [Buffers -> [group : Groups \union {NoGroup}, size : Nat, ref : Nat,
                                 discard : BOOLEAN]]
    BY <1>14, <2>1 DEF Tables
  <2>3. /\ buffer'[x].group = g /\ buffer'[x].ref > 0
        /\ \A b \in Buffers \ {x} : buffer'[b] = table[b]
    BY <1>14, <1>15 DEF Tables
  <2>4. ASSUME NEW b \in Buffers, buffer'[b].group = NoGroup
        PROVE  buffer'[b].ref = 0
    <3>1. b # x /\ buffer'[b] = table[b]
      BY <1>15, <2>3, <2>4
    <3>. QED  BY <2>4, <3>1 DEF Tables
  <2>. QED  BY <2>2, <2>3, <2>4 DEF Tables
<1>17. PICK q : q = Used(Searched(group[g], k, th), x)
  OBVIOUS
<1>18. PICK v \in SUBSET Buffers, t \in Seq(Buffers) :
           /\ v = u \union {x}
           /\ t = IF ext THEN RemoveAt(s, k) ELSE SubSeq(s, k + 1, Len(s))
           /\ ListsOf(g, v, t, buffer')
  <2>1. u \union {x} \in SUBSET Buffers
    OBVIOUS
  <2>2. CASE ext
    <3>1. \A b \in Buffers \ {s[k]} : buffer'[b] = buffer[b]
      BY <1>7, <1>9, <1>13, <1>16, <2>2
    <3>2. buffer'[s[k]].group = g /\ buffer'[s[k]].ref > 0
      BY <1>7, <1>16
    <3>3. /\ ListsOf(g, u \union {s[k]}, RemoveAt(s, k), buffer')
          /\ RemoveAt(s, k) \in Seq(Buffers)
      <4>1. /\ g \in Groups /\ buffer \in Tables /\ buffer' \in Tables
            /\ u \in SUBSET Buffers /\ s \in Seq(Buffers) /\ k \in 1 .. Len(s)
            /\ ListsOf(g, u, s, buffer)
        BY <1>3, <1>11, <1>16
      <4>. QED  BY <3>1, <3>2, <4>1, ListsTakeOne
    <3>. QED  BY <1>7, <2>1, <2>2, <3>3, Zenon
  <2>3. CASE ~ext
    <3>1. \A i \in 1 .. k - 1 : buffer'[s[i]].group = NoGroup
      <4>1. \A i \in 1 .. k - 1 : s[i] \in gone /\ s[i] # x
        BY <1>9, <1>10, <2>3
      <4>. QED  BY <1>10, <1>13, <1>16, <4>1
    <3>2. \A b \in Buffers : (\A i \in 1 .. k : s[i] # b) => buffer'[b] = buffer[b]
      <4>1. ASSUME NEW b \in Buffers, \A i \in 1 .. k : s[i] # b
            PROVE  b \notin gone /\ b # x
        <5>1. \A j \in 1 .. k - 1 : s[j] # b
          BY <4>1
        <5>2. s[k] # b
          BY <4>1
        <5>. QED  BY <1>7, <1>9, <2>3, <5>1, <5>2
      <4>. QED  BY <1>13, <1>16, <4>1
    <3>3. buffer'[s[k]].group = g /\ buffer'[s[k]].ref > 0
      BY <1>7, <1>16
    <3>4. /\ ListsOf(g, u \union {s[k]}, SubSeq(s, k + 1, Len(s)), buffer')
          /\ SubSeq(s, k + 1, Len(s)) \in Seq(Buffers)
      <4>1. /\ g \in Groups /\ buffer \in Tables /\ buffer' \in Tables
            /\ u \in SUBSET Buffers /\ s \in Seq(Buffers) /\ k \in 1 .. Len(s)
            /\ ListsOf(g, u, s, buffer)
        BY <1>3, <1>11, <1>16
      <4>. QED  BY <3>1, <3>2, <3>3, <4>1, ListsTakeBehind
    <3>. QED  BY <1>7, <2>1, <2>3, <3>4, Zenon
  <2>. QED  BY <2>2, <2>3
<1>19. /\ DOMAIN q = Fields /\ q.used = v /\ q.unused = t
       /\ q.place = group[g].place /\ q.misc = group[g].misc
  <2>1. PICK y : y = Searched(group[g], k, th)
    OBVIOUS
  <2>2. /\ DOMAIN y = Fields /\ y.used = u /\ y.unused = t
        /\ y.place = group[g].place /\ y.misc = group[g].misc
    <3>1. /\ DOMAIN y = Fields
          /\ y.used = group[g].used
          /\ y.unused = IF group[g].mode = "external" THEN RemoveAt(group[g].unused, k)
                        ELSE SubSeq(group[g].unused, k + 1, Len(group[g].unused))
          /\ y.place = group[g].place
          /\ y.misc = group[g].misc
      <4>1. DOMAIN group[g] = Fields
        BY <1>3
      <4>. QED  BY <2>1, <4>1, SearchedFields
    <3>2. y.unused = IF ext THEN RemoveAt(s, k) ELSE SubSeq(s, k + 1, Len(s))
      BY <1>3, <1>4, <3>1, Zenon
    <3>. QED  BY <1>3, <1>18, <3>1, <3>2, Zenon
  <2>3. q = Used(y, x)
    BY <1>17, <2>1
  <2>4. /\ DOMAIN y = Fields /\ v = u \union {x}
    BY <1>18, <2>2
  <2>5. /\ DOMAIN q = Fields
        /\ q.used = y.used \union {x}
        /\ q.unused = y.unused
        /\ q.place = y.place
        /\ q.misc = y.misc
    BY <2>3, <2>4, UsedFields, Zenon
  <2>. QED  BY <2>2, <2>4, <2>5
<1>20. /\ group'[g] = q
       /\ \A h \in Groups \ {g} : group'[h] = group[h]
       /\ DOMAIN group' = Groups
  <2>1. group' = [group EXCEPT ![g] = q]
    BY <1>5, <1>7, <1>17, Zenon
  <2>. QED  BY <1>11, <2>1, OneGroup, Zenon
<1>21. \A h \in Groups \ {g} : \A b \in Buffers :
           buffer[b].group = h \/ buffer'[b].group = h =>
               buffer'[b].group = buffer[b].group /\ (buffer'[b].ref = 0 <=> buffer[b].ref = 0)
  BY <1>10, <1>13, <1>15, <1>16, GroupsAssumption
<1>22. DOMAIN group'[g] = Fields /\ group'[g].used = v /\ group'[g].unused = t
       /\ group'[g].place = group[g].place /\ group'[g].misc = group[g].misc
  BY <1>19, <1>20, Zenon
<1>23. \A h \in Groups : Exists(h) => Exists(h)' /\ group'[h].misc = group[h].misc
  BY <1>20, <1>22 DEF Exists
<1>24. GroupShape' /\ OnLists'
  BY <1>2, <1>11, <1>16, <1>18, <1>20, <1>21, <1>22, <1>23, OnListsKept, Zenon
<1>25. /\ at' \in [Threads -> {"idle", "search", "create"}]
       /\ want' \in [Threads -> [group : Groups \union {NoGroup}, size : Nat, ref : BOOLEAN]]
       /\ GroupsKept'
  BY <1>1, <1>23, ReturnsKeep, Zenon
<1>26. Shape'
  <2>1. cleared' \subseteq Buffers
    BY <1>14 DEF Shape
  <2>. QED  BY <1>1, <1>16, <1>24, <1>25, <2>1, Zenon DEF Shape
<1>27. ClearedDiscarded'
  <2>1. ASSUME NEW b \in cleared'
        PROVE  b \in cleared /\ buffer'[b] = buffer[b]
    <3>1. b \in Buffers /\ b \notin gone /\ b \in cleared
      BY <1>14 DEF Shape
    <3>2. b # x
      <4>1. buffer[x].ref = 0 /\ buffer[b].ref > 0
        BY <1>7, <1>8, <3>1 DEF ClearedDiscarded
      <4>. QED  BY <4>1
    <3>. QED  BY <1>13, <1>16, <3>1, <3>2
  <2>. QED  BY <2>1, Zenon DEF ClearedDiscarded, Live
<1>. QED  BY <1>24, <1>25, <1>26, <1>27

-----------------------------------------------------------------------------
(***************************************************************************)
(* The invariant and what follows from it.                                 *)
(***************************************************************************)

LEMMA InitIInv ==
    ASSUME Init
    PROVE  IInv
<1> USE DEF Init
<1>1. /\ Nowhere.used = {} /\ Nowhere.unused = <<>> /\ Nowhere.place = "none"
      /\ <<>> \in Seq(Buffers) /\ Len(<<>>) = 0 /\ 1 .. 0 = {}
  BY DEF Nowhere
<1>2. GroupShape
  BY <1>1, Zenon DEF GroupShape
<1>3. buffer \in Tables /\ \A b \in Buffers : buffer[b].group = NoGroup /\ buffer[b].ref = 0
  <2>1. 0 \in Nat
    OBVIOUS
  <2>. QED  BY <2>1 DEF Tables, NoBuffer
<1>4. want \in [Threads -> [group : Groups \union {NoGroup}, size : Nat, ref : BOOLEAN]]
  <2>1. 0 \in Nat
    OBVIOUS
  <2>. QED  BY <2>1 DEF NoWant
<1>5. Shape
  BY <1>2, <1>3, <1>4 DEF Shape
<1>6. ClearedDiscarded
  BY DEF ClearedDiscarded
<1>7. OnLists
  <2>1. ASSUME NEW g \in Groups
        PROVE  ListsOf(g, {}, <<>>, buffer)
    BY <1>1, <1>3, GroupsAssumption DEF ListsOf
  <2>. QED  BY <1>1, <2>1, Zenon DEF OnLists
<1>8. GroupsKept
  BY DEF GroupsKept, NoWant
<1>. QED  BY <1>5, <1>6, <1>7, <1>8 DEF IInv

LEMMA NextIInv ==
    ASSUME IInv, [Next]_vars
    PROVE  IInv'
<1>1. CASE Next
  <2>1. ~freedInUse
    BY <1>1 DEF Next
  <2>2. CASE GroupGet \/ LimitConfig \/ GroupClear \/ GroupPut \/ RefInc \/ RefDec
    BY <2>1, <2>2, GroupGetStep, LimitConfigStep, GroupClearStep, GroupPutStep, RefStep, Zenon
  <2>3. ASSUME NEW th \in Threads, Call(th)
        PROVE  IInv'
    BY <2>1, <2>3, CallGetStep, CallMiscStep, GetFindsUnusedStep, GetFindsNoneStep,
       CreateStep, CreateFailsStep, Zenon DEF Call
  <2>4. ASSUME NEW b \in Buffers, Recycle(b) \/ Discard(b)
        PROVE  IInv'
    BY <2>1, <2>4, RecycleStep, DiscardStep, Zenon
  <2>. QED  BY <1>1, <2>2, <2>3, <2>4, Zenon DEF Next
<1>2. CASE UNCHANGED vars
  BY <1>2, Zenon DEF vars, IInv, Shape, GroupShape, Tables, ClearedDiscarded, Live, OnLists,
                     GroupsKept, Exists
<1>. QED  BY <1>1, <1>2

(* A group's lists hold its buffers, each once and by whether it has       *)
(* references; misc groups and groups somebody is inside a call with are   *)
(* there; a used buffer of a cleared group is discarded.                   *)
THEOREM BuffersInvariant == Spec => []IInv
<1>1. Init => IInv
  BY InitIInv
<1>2. IInv /\ [Next]_vars => IInv'
  BY NextIInv
<1>. QED  BY <1>1, <1>2, PTL DEF Spec

(* mpp_buffer_ref_dec and a mpp_buffer_get that waits for the lock find    *)
(* their group: as long as a buffer or a call is there, it is.             *)
THEOREM GroupOutlivesBuffersHolds == Spec => []GroupOutlivesBuffers
<1>1. IInv => GroupOutlivesBuffers
  <2> SUFFICES ASSUME IInv, ~freedInUse
               PROVE  /\ \A b \in Buffers : Live(b) => Exists(buffer[b].group)
                      /\ \A th \in Threads :
                            want[th].group # NoGroup => Exists(want[th].group)
    BY DEF GroupOutlivesBuffers
  <2>1. ASSUME NEW b \in Buffers, Live(b)
        PROVE  Exists(buffer[b].group)
    <3>1. buffer[b].group \in Groups /\ buffer[b].ref \in Nat
      BY <2>1 DEF IInv, Shape, Tables, Live
    <3>2. PICK g \in Groups : g = buffer[b].group
      BY <3>1
    <3>3. PICK u \in SUBSET Buffers, s \in Seq(Buffers) :
              /\ u = group[g].used /\ s = group[g].unused
              /\ DOMAIN group[g] = Fields
              /\ ListsOf(g, u, s, buffer)
      BY GroupThere, Zenon DEF IInv
    <3>4. b \in u \/ s # <<>>
      <4>1. CASE buffer[b].ref > 0
        BY <3>2, <3>3, <4>1, Zenon DEF ListsOf
      <4>2. CASE buffer[b].ref = 0
        <5>1. \E i \in 1 .. Len(s) : s[i] = b
          BY <3>2, <3>3, <4>2, Zenon DEF ListsOf
        <5>. QED  BY <5>1
      <4>. QED  BY <3>1, <4>1, <4>2
    <3>. QED  BY <3>2, <3>3, <3>4, Zenon DEF IInv, OnLists
  <2>. QED  BY <2>1, Zenon DEF IInv, GroupsKept
<1>. QED  BY <1>1, BuffersInvariant, PTL

(* A buffer that was there when its group was cleared is put by the last   *)
(* of its users and never got again.                                       *)
THEOREM ClearedNotReusedHolds == Spec => []ClearedNotReused
<1>1. IInv => ClearedNotReused
  BY Zenon DEF IInv, ClearedDiscarded, ClearedNotReused
<1>. QED  BY <1>1, BuffersInvariant, PTL

-----------------------------------------------------------------------------
(***************************************************************************)
(* The sizes of a set of buffers, and their sum.  Bytes is a fold of the   *)
(* community modules over a finite set: what it computes is shown by       *)
(* induction on the size of the set.                                       *)
(***************************************************************************)
(* A set of numbers with 0 and with the successor of each has them all: a  *)
(* least number that is missing would have a predecessor.                  *)
LEMMA AllNumbers ==
    ASSUME NEW K, 0 \in K, \A n \in Nat : n \in K => n + 1 \in K
    PROVE  \A n \in Nat : n \in K
<1> DEFINE R == {p \in Nat \X Nat : p[1] < p[2]}
           T == Nat \ K
<1>1. IsWellFoundedOn(R, Nat)
  BY NatLessThanWellFounded DEF OpToRel
<1>2. \A m, n \in Nat : <<m, n>> \in R <=> m < n
  OBVIOUS
<1> HIDE DEF R
<1>3. SUFFICES ASSUME T # {} PROVE FALSE
  OBVIOUS
<1>4. T \subseteq Nat
  OBVIOUS
<1> HIDE DEF T
<1>5. PICK n \in T : \A m \in T : <<m, n>> \notin R
  BY <1>1, <1>3, <1>4, WFMin, Zenon
<1>6. n \in Nat /\ n # 0 /\ n - 1 \in Nat /\ n - 1 < n
  BY <1>4 DEF T
<1>7. n - 1 \in T
  BY <1>6 DEF T
<1>. QED  BY <1>2, <1>5, <1>6, <1>7

Pick(s) == CHOOSE x \in s : TRUE

(* The equation of the fold for the subset s, given the others.            *)
SizeStep(B, f, s) == IF s = {} THEN 0 ELSE B[Pick(s)].size + f[s \ {Pick(s)}]

Solves(B, S, f) == f = [s \in SUBSET S |-> SizeStep(B, f, s)]

(* Bytes for a table of buffers.                                           *)
SizeSum(B, S) == (CHOOSE f : Solves(B, S, f))[S]

LEMMA BytesIsSum == \A S : Bytes(S) = SizeSum(buffer, S)
BY DEF Bytes, MapThenSumSet, MapThenFoldSet, SizeSum, Solves, SizeStep, Pick

(* A smaller set to go on with.                                            *)
LEMMA Smaller ==
    ASSUME NEW S, IsFiniteSet(S), NEW x \in S
    PROVE  /\ IsFiniteSet(S \ {x})
           /\ Cardinality(S) \in Nat /\ Cardinality(S) # 0
           /\ Cardinality(S \ {x}) = Cardinality(S) - 1
<1>1. IsFiniteSet(S \ {x}) /\ Cardinality(S \ {x}) = Cardinality(S) - 1
  BY FS_RemoveElement
<1>2. Cardinality(S) \in Nat /\ Cardinality(S \ {x}) \in Nat
  BY <1>1, FS_CardinalityType
<1>. QED  BY <1>1, <1>2

LEMMA Picked ==
    ASSUME NEW S, S # {}
    PROVE  Pick(S) \in S
BY DEF Pick

(* The equations have a solution.                                          *)
LEMMA SumExists ==
    ASSUME NEW B, NEW S, IsFiniteSet(S)
    PROVE  \E f : Solves(B, S, f)
<1> DEFINE K == {n \in Nat : \E f : \A s \in SUBSET S :
                    Cardinality(s) <= n => f[s] = SizeStep(B, f, s)}
<1>1. \A s \in SUBSET S : IsFiniteSet(s) /\ Cardinality(s) \in Nat
  BY FS_Subset, FS_CardinalityType
<1>2. 0 \in K
  <2> DEFINE f == [s \in SUBSET S |-> 0]
  <2>1. ASSUME NEW s \in SUBSET S, Cardinality(s) <= 0
        PROVE  f[s] = SizeStep(B, f, s)
    <3>1. s = {}
      BY <1>1, <2>1, FS_EmptySet
    <3>. QED  BY <3>1 DEF SizeStep
  <2>. QED  BY <2>1
<1>3. ASSUME NEW n \in Nat, n \in K PROVE n + 1 \in K
  <2>1. PICK f : \A s \in SUBSET S : Cardinality(s) <= n => f[s] = SizeStep(B, f, s)
    BY <1>3
  <2> DEFINE g == [s \in SUBSET S |-> IF Cardinality(s) <= n THEN f[s] ELSE SizeStep(B, f, s)]
  <2>2. \A s \in SUBSET S : g[s] = IF Cardinality(s) <= n THEN f[s] ELSE SizeStep(B, f, s)
    OBVIOUS
  <2> HIDE DEF g
  <2>3. ASSUME NEW s \in SUBSET S, Cardinality(s) <= n + 1
        PROVE  g[s] = SizeStep(B, g, s)
    <3>1. g[s] = SizeStep(B, f, s)
      BY <2>1, <2>2
    <3>2. CASE s = {}
      BY <3>1, <3>2 DEF SizeStep
    <3>3. CASE s # {}
      <4>1. PICK x \in s : x = Pick(s)
        BY <3>3, Picked
      <4>2. s \ {x} \in SUBSET S /\ Cardinality(s \ {x}) <= n
        BY <1>1, <2>3, Smaller
      <4>3. g[s \ {x}] = f[s \ {x}]
        BY <2>2, <4>2
      <4>. QED  BY <3>1, <3>3, <4>1, <4>3 DEF SizeStep
    <3>. QED  BY <3>2, <3>3
  <2>. QED  BY <2>3
<1> HIDE DEF K
<1>4. Cardinality(S) \in Nat
  BY <1>1
<1>5. Cardinality(S) \in K
  BY <1>2, <1>3, <1>4, AllNumbers
<1>6. PICK f : \A s \in SUBSET S : Cardinality(s) <= Cardinality(S) => f[s] = SizeStep(B, f, s)
  BY <1>5 DEF K
<1>7. \A s \in SUBSET S : f[s] = SizeStep(B, f, s)
  BY <1>6, FS_Subset
<1> DEFINE g == [s \in SUBSET S |-> f[s]]
<1>8. \A s \in SUBSET S : g[s] = f[s]
  OBVIOUS
<1> HIDE DEF g
<1>9. ASSUME NEW s \in SUBSET S PROVE g[s] = SizeStep(B, g, s)
  <2>1. CASE s = {}
    BY <1>7, <1>8, <2>1 DEF SizeStep
  <2>2. CASE s # {}
    <3>1. PICK x \in s : x = Pick(s)
      BY <2>2, Picked
    <3>2. s \ {x} \in SUBSET S
      OBVIOUS
    <3>. QED  BY <1>7, <1>8, <2>2, <3>1, <3>2 DEF SizeStep
  <2>. QED  BY <2>1, <2>2
<1>10. g = [s \in SUBSET S |-> SizeStep(B, g, s)]
  BY <1>9 DEF g
<1>. QED  BY <1>10 DEF Solves

(* And only one, as far as the buffers have the same sizes.                *)
SameSizes(B, C, S) == \A b \in S : B[b].size = C[b].size
Obeys(B, S, f)     == \A s \in SUBSET S : f[s] = SizeStep(B, f, s)

LEMMA SolvesObeys ==
    ASSUME NEW B, NEW S, NEW f, Solves(B, S, f), NEW T \in SUBSET S
    PROVE  Obeys(B, T, f)
<1>1. \A s \in SUBSET S : f[s] = SizeStep(B, f, s)
  BY Zenon DEF Solves
<1>2. \A s \in SUBSET T : s \in SUBSET S
  OBVIOUS
<1>. QED  BY <1>1, <1>2, Zenon DEF Obeys

LEMMA SumUnique ==
    ASSUME NEW B, NEW C, NEW S, IsFiniteSet(S), SameSizes(B, C, S),
           NEW f, Obeys(B, S, f), NEW g, Obeys(C, S, g)
    PROVE  \A s \in SUBSET S : f[s] = g[s]
<1> DEFINE K == {n \in Nat : \A s \in SUBSET S : Cardinality(s) = n => f[s] = g[s]}
<1>1. \A s \in SUBSET S : IsFiniteSet(s) /\ Cardinality(s) \in Nat
  BY FS_Subset, FS_CardinalityType
<1>2. \A s \in SUBSET S : f[s] = SizeStep(B, f, s) /\ g[s] = SizeStep(C, g, s)
  BY DEF Obeys
<1>3. 0 \in K
  <2>1. ASSUME NEW s \in SUBSET S, Cardinality(s) = 0
        PROVE  f[s] = g[s]
    <3>1. s = {}
      BY <1>1, <2>1, FS_EmptySet
    <3>. QED  BY <1>2, <3>1 DEF SizeStep
  <2>. QED  BY <2>1
<1>4. ASSUME NEW n \in Nat, n \in K PROVE n + 1 \in K
  <2>1. ASSUME NEW s \in SUBSET S, Cardinality(s) = n + 1
        PROVE  f[s] = g[s]
    <3>1. s # {}
      BY <1>1, <2>1, FS_EmptySet
    <3>2. PICK x \in s : x = Pick(s)
      BY <3>1, Picked
    <3>3. s \ {x} \in SUBSET S /\ Cardinality(s \ {x}) = n
      BY <1>1, <2>1, Smaller
    <3>4. f[s \ {x}] = g[s \ {x}]
      BY <1>4, <3>3
    <3>5. B[x].size = C[x].size
      BY <3>2 DEF SameSizes
    <3>. QED  BY <1>2, <3>1, <3>2, <3>4, <3>5 DEF SizeStep
  <2>2. n + 1 \in Nat
    OBVIOUS
  <2>. QED  BY <2>1, <2>2, Zenon
<1> HIDE DEF K
<1>5. \A n \in Nat : n \in K
  BY <1>3, <1>4, AllNumbers
<1>. QED  BY <1>1, <1>5 DEF K

LEMMA SumEmpty == \A B : SizeSum(B, {}) = 0
<1> SUFFICES ASSUME NEW B PROVE SizeSum(B, {}) = 0
  OBVIOUS
<1>1. PICK f : Solves(B, {}, f)
  BY SumExists, FS_EmptySet
<1>2. PICK g : g = CHOOSE h : Solves(B, {}, h)
  OBVIOUS
<1>3. Solves(B, {}, g)
  BY <1>1, <1>2
<1>4. {} \in SUBSET {}
  OBVIOUS
<1>5. g[{}] = SizeStep(B, g, {})
  BY <1>3, <1>4, Zenon DEF Solves
<1>. QED  BY <1>2, <1>5 DEF SizeSum, SizeStep

(* The sum of a set is the size of the one picked and the sum of the rest. *)
LEMMA SumPicks ==
    ASSUME NEW B, NEW S, IsFiniteSet(S), S # {}
    PROVE  SizeSum(B, S) = B[Pick(S)].size + SizeSum(B, S \ {Pick(S)})
<1>1. PICK x \in S : x = Pick(S)
  BY Picked
<1>2. PICK T : T = S \ {x}
  OBVIOUS
<1>3. IsFiniteSet(T) /\ T \subseteq S
  BY <1>2, Smaller
<1>4. PICK g : g = CHOOSE h : Solves(B, S, h)
  OBVIOUS
<1>5. Solves(B, S, g)
  <2>1. \E h : Solves(B, S, h)
    BY SumExists
  <2>. QED  BY <1>4, <2>1
<1>6. PICK f : f = CHOOSE h : Solves(B, T, h)
  OBVIOUS
<1>7. Solves(B, T, f)
  <2>1. \E h : Solves(B, T, h)
    BY <1>3, SumExists
  <2>. QED  BY <1>6, <2>1
<1>8. \A s \in SUBSET T : f[s] = g[s]
  <2>1. SameSizes(B, B, T)
    BY DEF SameSizes
  <2>2. T \in SUBSET S /\ T \in SUBSET T
    BY <1>3
  <2>3. Obeys(B, T, f) /\ Obeys(B, T, g)
    BY <1>5, <1>7, <2>2, SolvesObeys
  <2>. QED  BY <1>3, <2>1, <2>3, SumUnique
<1>9. f[T] = g[T]
  BY <1>8
<1>10. S \in SUBSET S
  OBVIOUS
<1>11. g[S] = SizeStep(B, g, S)
  BY <1>5, <1>10, Zenon DEF Solves
<1>12. SizeSum(B, S) = g[S] /\ SizeSum(B, T) = f[T]
  BY <1>4, <1>6 DEF SizeSum
<1>. QED  BY <1>1, <1>2, <1>9, <1>11, <1>12 DEF SizeStep

(* The same sizes, the same sum.                                           *)
LEMMA SumSame ==
    ASSUME NEW B, NEW C, NEW S, IsFiniteSet(S), SameSizes(B, C, S)
    PROVE  SizeSum(B, S) = SizeSum(C, S)
<1>1. PICK f : f = CHOOSE h : Solves(B, S, h)
  OBVIOUS
<1>2. Solves(B, S, f)
  <2>1. \E h : Solves(B, S, h)
    BY SumExists
  <2>. QED  BY <1>1, <2>1
<1>3. PICK g : g = CHOOSE h : Solves(C, S, h)
  OBVIOUS
<1>4. Solves(C, S, g)
  <2>1. \E h : Solves(C, S, h)
    BY SumExists
  <2>. QED  BY <1>3, <2>1
<1>5. \A s \in SUBSET S : f[s] = g[s]
  <2>1. S \in SUBSET S
    OBVIOUS
  <2>2. Obeys(B, S, f) /\ Obeys(C, S, g)
    BY <1>2, <1>4, <2>1, SolvesObeys
  <2>. QED  BY <2>2, SumUnique
<1>. QED  BY <1>1, <1>3, <1>5 DEF SizeSum

(* A number.                                                               *)
LEMMA SumNumber ==
    ASSUME NEW B, NEW S, IsFiniteSet(S), \A b \in S : B[b].size \in Nat
    PROVE  SizeSum(B, S) \in Nat
<1> DEFINE K == {n \in Nat : \A s \in SUBSET S : Cardinality(s) = n => SizeSum(B, s) \in Nat}
<1>1. \A s \in SUBSET S : IsFiniteSet(s) /\ Cardinality(s) \in Nat
  BY FS_Subset, FS_CardinalityType
<1>2. 0 \in K
  <2>1. ASSUME NEW s \in SUBSET S, Cardinality(s) = 0
        PROVE  SizeSum(B, s) \in Nat
    <3>1. s = {}
      BY <1>1, <2>1, FS_EmptySet
    <3>. QED  BY <3>1, SumEmpty
  <2>. QED  BY <2>1
<1>3. ASSUME NEW n \in Nat, n \in K PROVE n + 1 \in K
  <2>1. ASSUME NEW s \in SUBSET S, Cardinality(s) = n + 1
        PROVE  SizeSum(B, s) \in Nat
    <3>1. s # {}
      BY <1>1, <2>1, FS_EmptySet
    <3>2. PICK x \in s : x = Pick(s)
      BY <3>1, Picked
    <3>3. s \ {x} \in SUBSET S /\ Cardinality(s \ {x}) = n
      BY <1>1, <2>1, Smaller
    <3>4. SizeSum(B, s \ {x}) \in Nat
      BY <1>3, <3>3
    <3>5. SizeSum(B, s) = B[x].size + SizeSum(B, s \ {x})
      <4>1. IsFiniteSet(s) /\ s # {}
        BY <1>1, <3>1
      <4>2. SizeSum(B, s) = B[Pick(s)].size + SizeSum(B, s \ {Pick(s)})
        BY <4>1, SumPicks, Zenon
      <4>. QED  BY <3>2, <4>2
    <3>. QED  BY <3>4, <3>5
  <2>2. n + 1 \in Nat
    OBVIOUS
  <2>. QED  BY <2>1, <2>2, Zenon
<1> HIDE DEF K
<1>4. \A n \in Nat : n \in K
  BY <1>2, <1>3, AllNumbers
<1>. QED  BY <1>1, <1>4 DEF K

(* Whichever buffer is taken from the set, its size is taken from the sum. *)
LEMMA SumWithout ==
    ASSUME NEW B, NEW S, IsFiniteSet(S), \A b \in S : B[b].size \in Nat, NEW x \in S
    PROVE  SizeSum(B, S) = B[x].size + SizeSum(B, S \ {x})
<1> DEFINE K == {n \in Nat : \A s \in SUBSET S : Cardinality(s) = n =>
                    \A y \in s : SizeSum(B, s) = B[y].size + SizeSum(B, s \ {y})}
<1>1. \A s \in SUBSET S : /\ IsFiniteSet(s) /\ Cardinality(s) \in Nat /\ SizeSum(B, s) \in Nat
  BY FS_Subset, FS_CardinalityType, SumNumber
<1>2. 0 \in K
  <2>1. ASSUME NEW s \in SUBSET S, Cardinality(s) = 0
        PROVE  s = {}
    BY <1>1, <2>1, FS_EmptySet
  <2>. QED  BY <2>1
<1>3. ASSUME NEW n \in Nat, n \in K PROVE n + 1 \in K
  <2>1. ASSUME NEW s \in SUBSET S, Cardinality(s) = n + 1, NEW y \in s
        PROVE  SizeSum(B, s) = B[y].size + SizeSum(B, s \ {y})
    <3>1. PICK p \in s : p = Pick(s)
      BY Picked
    <3>2. SizeSum(B, s) = B[p].size + SizeSum(B, s \ {p})
      <4>1. IsFiniteSet(s) /\ s # {}
        BY <1>1
      <4>. QED  BY <3>1, <4>1, SumPicks, Zenon
    <3>3. CASE p = y
      BY <3>2, <3>3
    <3>4. CASE p # y
      <4>1. PICK u \in SUBSET S, v \in SUBSET S : u = s \ {p} /\ v = s \ {y}
        OBVIOUS
      <4>2. Cardinality(u) = n /\ Cardinality(v) = n /\ y \in u /\ p \in v
        BY <1>1, <2>1, <3>4, <4>1, Smaller
      <4>3. SizeSum(B, u) = B[y].size + SizeSum(B, u \ {y}) /\ SizeSum(B, v) = B[p].size + SizeSum(B, v \ {p})
        BY <1>3, <4>2
      <4>4. PICK w \in SUBSET S : w = s \ {p, y}
        OBVIOUS
      <4>5. u \ {y} = w /\ v \ {p} = w
        BY <4>1, <4>4
      <4>6. SizeSum(B, w) \in Nat /\ B[y].size \in Nat /\ B[p].size \in Nat
        BY <1>1
      <4>7. SizeSum(B, u) = B[y].size + SizeSum(B, w)
        BY <4>3, <4>5
      <4>8. SizeSum(B, v) = B[p].size + SizeSum(B, w)
        BY <4>3, <4>5
      <4>9. SizeSum(B, s) = B[p].size + SizeSum(B, u)
        BY <3>2, <4>1
      <4>10. SizeSum(B, s) = B[y].size + SizeSum(B, v)
        BY <4>6, <4>7, <4>8, <4>9
      <4>. QED  BY <4>1, <4>10
    <3>. QED  BY <3>3, <3>4
  <2>2. n + 1 \in Nat
    OBVIOUS
  <2>. QED  BY <2>1, <2>2, Zenon
<1> HIDE DEF K
<1>4. \A n \in Nat : n \in K
  BY <1>2, <1>3, AllNumbers
<1>5. S \in SUBSET S
  OBVIOUS
<1>. QED  BY <1>1, <1>4, <1>5 DEF K

(* And so for several.                                                     *)
LEMMA SumApart ==
    ASSUME NEW B, NEW S, IsFiniteSet(S), \A b \in S : B[b].size \in Nat, NEW T \in SUBSET S
    PROVE  SizeSum(B, S \ T) = SizeSum(B, S) - SizeSum(B, T)
<1> DEFINE K == {n \in Nat : \A s \in SUBSET S : Cardinality(s) = n =>
                    SizeSum(B, S) = SizeSum(B, S \ s) + SizeSum(B, s)}
<1>1. \A s \in SUBSET S : /\ IsFiniteSet(s) /\ Cardinality(s) \in Nat /\ SizeSum(B, s) \in Nat
  BY FS_Subset, FS_CardinalityType, SumNumber
<1>2. 0 \in K
  <2>1. ASSUME NEW s \in SUBSET S, Cardinality(s) = 0
        PROVE  SizeSum(B, S) = SizeSum(B, S \ s) + SizeSum(B, s)
    <3>1. s = {}
      BY <1>1, <2>1, FS_EmptySet
    <3>2. S \ s = S
      BY <3>1
    <3>. QED  BY <1>1, <3>1, <3>2, SumEmpty
  <2>. QED  BY <2>1
<1>3. ASSUME NEW n \in Nat, n \in K PROVE n + 1 \in K
  <2>1. ASSUME NEW s \in SUBSET S, Cardinality(s) = n + 1
        PROVE  SizeSum(B, S) = SizeSum(B, S \ s) + SizeSum(B, s)
    <3>1. s # {}
      BY <1>1, <2>1, FS_EmptySet
    <3>2. PICK x \in s : TRUE
      BY <3>1
    <3>3. PICK u \in SUBSET S, v \in SUBSET S, w \in SUBSET S :
              u = s \ {x} /\ v = S \ s /\ w = S \ u
      OBVIOUS
    <3>4. Cardinality(u) = n /\ x \in w /\ w \ {x} = v /\ w = S \ u
      BY <1>1, <2>1, <3>3, Smaller
    <3>5. SizeSum(B, S) = SizeSum(B, w) + SizeSum(B, u)
      BY <1>3, <3>4
    <3>6. SizeSum(B, s) = B[x].size + SizeSum(B, u)
      <4>1. IsFiniteSet(s) /\ (\A b \in s : B[b].size \in Nat) /\ x \in s
        BY <1>1, <3>2
      <4>2. SizeSum(B, s) = B[x].size + SizeSum(B, s \ {x})
        BY <4>1, SumWithout
      <4>. QED  BY <3>3, <4>2
    <3>7. SizeSum(B, w) = B[x].size + SizeSum(B, v)
      <4>1. IsFiniteSet(w) /\ (\A b \in w : B[b].size \in Nat) /\ x \in w
        BY <1>1, <3>4
      <4>2. SizeSum(B, w) = B[x].size + SizeSum(B, w \ {x})
        BY <4>1, SumWithout
      <4>. QED  BY <3>4, <4>2
    <3>8. SizeSum(B, u) \in Nat /\ SizeSum(B, v) \in Nat /\ B[x].size \in Nat
      BY <1>1
    <3>. QED  BY <3>3, <3>5, <3>6, <3>7, <3>8
  <2>2. n + 1 \in Nat
    OBVIOUS
  <2>. QED  BY <2>1, <2>2, Zenon
<1> HIDE DEF K
<1>4. \A n \in Nat : n \in K
  BY <1>2, <1>3, AllNumbers
<1>5. S \ T \in SUBSET S
  OBVIOUS
<1>. QED  BY <1>1, <1>4, <1>5 DEF K

-----------------------------------------------------------------------------
(***************************************************************************)
(* The counters of a group.                                                *)
(***************************************************************************)
Own(B, g) == {b \in Buffers : B[b].group = g}

(* mode, type, limit, is_misc and where the group is.                      *)
RecordOK(r) ==
    /\ r.place \in {"none", "listed", "orphan"}
    /\ r.mode \in Modes
    /\ r.type \in Types \union {Nowhere.type}
    /\ r.limit \in Limits \union {Nowhere.limit}
    /\ r.misc \in BOOLEAN

SameRecord(q, r) ==
    q.place = r.place /\ q.mode = r.mode /\ q.type = r.type /\ q.limit = r.limit /\ q.misc = r.misc

(* count_used and count_unused, of the two lists ...                       *)
Lengths(r) ==
    /\ IsFiniteSet(r.used)
    /\ r.countUsed = Cardinality(r.used)
    /\ r.countUnused = Len(r.unused)

(* ... and usage and buffer_count, of the buffers S of the table B.        *)
Totals(r, B, S) ==
    /\ IsFiniteSet(S)
    /\ \A b \in S : B[b].size \in Nat \ {0}
    /\ r.bufferCount = Cardinality(S)
    /\ r.usage = SizeSum(B, S)

Counts ==
    \A g \in Groups :
        /\ RecordOK(group[g])
        /\ Lengths(group[g])
        /\ Totals(group[g], buffer, Own(buffer, g))

(* A buffer that is there, and one that is asked for, has a size.          *)
BuffersOK ==
    /\ buffer \in [Buffers -> [group : Groups \union {NoGroup}, size : Sizes \union {0},
                               ref : 0 .. RefBound, discard : BOOLEAN]]
    /\ \A b \in Buffers : Live(b) => buffer[b].size \in Sizes

CallsOK ==
    \A th \in Threads :
        /\ want[th].size \in Sizes \union {0}
        /\ at[th] # "idle" => want[th].size \in Sizes

(* The lists hold the buffers also when a group was freed in use.          *)
CInv ==
    /\ IInv
    /\ OnLists
    /\ BuffersOK
    /\ CallsOK
    /\ Counts

-----------------------------------------------------------------------------
(* The fields that are counters, and the others, of the groups that the    *)
(* operators of the model make.                                            *)
LEMMA UsedCounts ==
    ASSUME NEW r, DOMAIN r = Fields, NEW b
    PROVE  LET q == Used(r, b)
           IN /\ SameRecord(q, r)
              /\ q.countUsed = r.countUsed + 1 /\ q.countUnused = r.countUnused
              /\ q.usage = r.usage /\ q.bufferCount = r.bufferCount
BY FieldNames DEF Used, SameRecord

LEMMA UnusedCounts ==
    ASSUME NEW r, DOMAIN r = Fields, NEW b
    PROVE  LET q == Unused(r, b)
           IN /\ SameRecord(q, r)
              /\ q.countUsed = r.countUsed - 1 /\ q.countUnused = r.countUnused
              /\ q.usage = r.usage /\ q.bufferCount = r.bufferCount
BY FieldNames DEF Unused, SameRecord

LEMMA WithoutCounts ==
    ASSUME NEW r, DOMAIN r = Fields, NEW S
    PROVE  LET q == Without(r, S)
           IN /\ SameRecord(q, r)
              /\ q.countUsed = r.countUsed /\ q.countUnused = r.countUnused
              /\ q.usage = r.usage - Bytes(S)
              /\ q.bufferCount = r.bufferCount - Cardinality(S)
BY FieldNames DEF Without, SameRecord

LEMMA WithoutUnusedCounts ==
    ASSUME NEW r, DOMAIN r = Fields
    PROVE  LET q == WithoutUnused(r)
           IN /\ SameRecord(q, r)
              /\ q.countUsed = r.countUsed
              /\ q.countUnused = r.countUnused - Len(r.unused)
              /\ q.usage = r.usage - Bytes(ToSet(r.unused))
              /\ q.bufferCount = r.bufferCount - Cardinality(ToSet(r.unused))
<1> DEFINE w == Without(r, ToSet(r.unused))
<1>1. /\ DOMAIN w = Fields /\ SameRecord(w, r)
      /\ w.countUsed = r.countUsed /\ w.countUnused = r.countUnused
      /\ w.usage = r.usage - Bytes(ToSet(r.unused))
      /\ w.bufferCount = r.bufferCount - Cardinality(ToSet(r.unused))
  BY WithoutFields, WithoutCounts, Zenon
<1>2. WithoutUnused(r) = [w EXCEPT !.unused = <<>>, !.countUnused = @ - Len(r.unused)]
  BY DEF WithoutUnused
<1> HIDE DEF w
<1>. QED  BY <1>1, <1>2, FieldNames DEF SameRecord

LEMMA SearchedCounts ==
    ASSUME NEW r, DOMAIN r = Fields, NEW k, NEW th
    PROVE  LET q == Searched(r, k, th)
           IN /\ SameRecord(q, r)
              /\ q.countUsed = r.countUsed
              /\ r.mode = "external" =>
                    /\ q.countUnused = r.countUnused - 1
                    /\ q.usage = r.usage /\ q.bufferCount = r.bufferCount
              /\ r.mode # "external" =>
                    /\ q.countUnused = r.countUnused - k
                    /\ q.usage = r.usage - Bytes(SmallBefore(r, k, th))
                    /\ q.bufferCount = r.bufferCount - Cardinality(SmallBefore(r, k, th))
<1> DEFINE w == Without(r, SmallBefore(r, k, th))
<1>1. /\ DOMAIN w = Fields /\ SameRecord(w, r)
      /\ w.countUsed = r.countUsed /\ w.countUnused = r.countUnused
      /\ w.usage = r.usage - Bytes(SmallBefore(r, k, th))
      /\ w.bufferCount = r.bufferCount - Cardinality(SmallBefore(r, k, th))
  BY WithoutFields, WithoutCounts, Zenon
<1> HIDE DEF w
<1>2. CASE r.mode = "external"
  BY <1>2, FieldNames DEF Searched, SameRecord
<1>3. CASE r.mode # "external"
  <2>1. Searched(r, k, th) = [w EXCEPT !.unused = SubSeq(@, k + 1, Len(@)), !.countUnused = @ - k]
    BY <1>3 DEF Searched, w
  <2>. QED  BY <1>1, <1>3, <2>1, FieldNames DEF SameRecord
<1>. QED  BY <1>2, <1>3

LEMMA RecordKept ==
    ASSUME NEW r, NEW q, RecordOK(r), SameRecord(q, r)
    PROVE  RecordOK(q)
BY DEF RecordOK, SameRecord

-----------------------------------------------------------------------------
(* The list of used buffers with one more, and one less.                   *)
LEMMA OneMore ==
    ASSUME NEW u, IsFiniteSet(u), NEW x, x \notin u
    PROVE  IsFiniteSet(u \union {x}) /\ Cardinality(u \union {x}) = Cardinality(u) + 1
<1>1. /\ IsFiniteSet(u \union {x})
      /\ Cardinality(u \union {x}) = IF x \in u THEN Cardinality(u) ELSE Cardinality(u) + 1
  BY FS_AddElement, Zenon
<1>. QED  BY <1>1

(* The totals of the same buffers.                                         *)
LEMMA TotalsSame ==
    ASSUME NEW r, NEW q, NEW B, NEW C, NEW S, Totals(r, B, S), SameSizes(B, C, S),
           q.usage = r.usage, q.bufferCount = r.bufferCount
    PROVE  Totals(q, C, S)
<1>1. IsFiniteSet(S) /\ SizeSum(B, S) = SizeSum(C, S)
  BY SumSame DEF Totals
<1>. QED  BY <1>1 DEF Totals, SameSizes

(* Some buffers are freed.                                                 *)
LEMMA TotalsLess ==
    ASSUME NEW r, NEW q, NEW C, NEW S, Totals(r, buffer, S), NEW T \in SUBSET S,
           SameSizes(buffer, C, S \ T),
           q.usage = r.usage - Bytes(T), q.bufferCount = r.bufferCount - Cardinality(T)
    PROVE  Totals(q, C, S \ T)
<1>1. IsFiniteSet(S) /\ \A b \in S : buffer[b].size \in Nat
  BY DEF Totals
<1>2. IsFiniteSet(S \ T) /\ IsFiniteSet(T)
  BY <1>1, FS_Subset
<1>3. SizeSum(buffer, S \ T) = SizeSum(buffer, S) - SizeSum(buffer, T)
  BY <1>1, SumApart
<1>4. SizeSum(buffer, S \ T) = SizeSum(C, S \ T)
  BY <1>2, SumSame
<1>5. q.usage = SizeSum(C, S \ T)
  BY <1>3, <1>4, BytesIsSum DEF Totals
<1>6. Cardinality(S \ T) = Cardinality(S) - Cardinality(T)
  <2>1. S \intersect T = T
    OBVIOUS
  <2>2. Cardinality(S \ T) = Cardinality(S) - Cardinality(S \intersect T)
    BY <1>1, FS_Difference, Zenon
  <2>. QED  BY <2>1, <2>2
<1>7. q.bufferCount = Cardinality(S \ T)
  BY <1>6 DEF Totals
<1>8. \A b \in S \ T : C[b].size \in Nat \ {0}
  BY DEF Totals, SameSizes
<1>. QED  BY <1>2, <1>5, <1>7, <1>8 DEF Totals

(* One is added.                                                           *)
LEMMA TotalsMore ==
    ASSUME NEW r, NEW q, NEW B, NEW C, NEW S, Totals(r, B, S), SameSizes(B, C, S),
           NEW x, x \notin S, C[x].size \in Nat \ {0},
           q.usage = r.usage + C[x].size, q.bufferCount = r.bufferCount + 1
    PROVE  Totals(q, C, S \union {x})
<1> DEFINE T == S \union {x}
<1>1. IsFiniteSet(S) /\ IsFiniteSet(T) /\ Cardinality(T) = Cardinality(S) + 1
  BY OneMore DEF Totals
<1>2. SizeSum(B, S) = SizeSum(C, S)
  BY <1>1, SumSame
<1>3. \A b \in T : C[b].size \in Nat \ {0}
  BY DEF Totals, SameSizes
<1>4. x \in T /\ T \ {x} = S
  OBVIOUS
<1>5. SizeSum(C, T) = C[x].size + SizeSum(C, S)
  <2>1. \A b \in T : C[b].size \in Nat
    BY <1>3
  <2> HIDE DEF T
  <2>2. SizeSum(C, T) = C[x].size + SizeSum(C, T \ {x})
    BY <1>1, <1>4, <2>1, SumWithout
  <2>. QED  BY <1>4, <2>2
<1>6. SizeSum(C, S) \in Nat
  BY <1>1, <1>3, SumNumber
<1>7. q.usage = SizeSum(C, T)
  BY <1>2, <1>3, <1>5, <1>6 DEF Totals
<1>8. q.bufferCount = Cardinality(T)
  BY <1>1 DEF Totals
<1>. QED  BY <1>1, <1>3, <1>7, <1>8 DEF Totals

(* None are left.                                                          *)
LEMMA TotalsNone ==
    ASSUME NEW r, r.usage = 0, r.bufferCount = 0
    PROVE  \A B : Totals(r, B, {})
BY SumEmpty, FS_EmptySet DEF Totals

(* A group whose buffers have no bytes has no buffers.                     *)
LEMMA NoBytes ==
    ASSUME NEW r, NEW B, NEW S, Totals(r, B, S), r.usage = 0
    PROVE  S = {}
<1> SUFFICES ASSUME NEW x \in S PROVE FALSE
  OBVIOUS
<1>1. IsFiniteSet(S) /\ (\A b \in S : B[b].size \in Nat) /\ B[x].size > 0
  BY DEF Totals
<1>2. SizeSum(B, S) = B[x].size + SizeSum(B, S \ {x})
  BY <1>1, SumWithout
<1>3. SizeSum(B, S \ {x}) \in Nat
  <2>1. IsFiniteSet(S \ {x}) /\ \A b \in S \ {x} : B[b].size \in Nat
    BY <1>1, Smaller
  <2>. QED  BY <2>1, SumNumber
<1>4. SizeSum(B, S) = 0
  BY DEF Totals
<1>. QED  BY <1>1, <1>2, <1>3, <1>4

(* The buffers of a group are those on its lists.                          *)
LEMMA OwnLists ==
    ASSUME NEW g \in Groups, NEW B \in Tables, NEW u \in SUBSET Buffers,
           NEW s \in Seq(Buffers), ListsOf(g, u, s, B)
    PROVE  /\ Own(B, g) = u \union ToSet(s)
           /\ u \intersect ToSet(s) = {}
<1>1. /\ \A i \in 1 .. Len(s) : s[i] \in ToSet(s) /\ s[i] \in Buffers
      /\ \A b \in ToSet(s) : \E i \in 1 .. Len(s) : s[i] = b
  BY DEF ToSet
<1>2. \A b \in Buffers : b \in u <=> B[b].group = g /\ B[b].ref > 0
  BY DEF ListsOf
<1>3. \A b \in Buffers : B[b].group = g /\ B[b].ref = 0 <=> b \in ToSet(s)
  BY <1>1 DEF ListsOf
<1>3a. \A b \in ToSet(s) : b \in Buffers
  BY <1>1
<1>4. \A b \in Buffers : B[b].ref = 0 \/ B[b].ref > 0
  BY DEF Tables
<1>. QED  BY <1>2, <1>3, <1>3a, <1>4 DEF Own

(* One group changes; the buffers that come into it and go from it were,   *)
(* or are, in no other.                                                    *)
OnlyOf(C, g) ==
    \A b \in Buffers :
        \/ C[b].group = buffer[b].group /\ C[b].size = buffer[b].size
        \/ C[b].group \in {g, NoGroup} /\ buffer[b].group \in {g, NoGroup}

LEMMA CountsKept ==
    ASSUME Counts, NEW g \in Groups, NEW r, NEW C, buffer' = C, group'[g] = r,
           RecordOK(r), Lengths(r), Totals(r, C, Own(C, g)),
           \A h \in Groups \ {g} : group'[h] = group[h], OnlyOf(C, g)
    PROVE  Counts'
<1>1. ASSUME NEW h \in Groups \ {g}
      PROVE  Totals(group[h], C, Own(C, h))
  <2>1. PICK S : S = Own(buffer, h)
    OBVIOUS
  <2>2. Own(C, h) = S /\ SameSizes(buffer, C, S)
    BY <2>1, GroupsAssumption DEF Own, SameSizes, OnlyOf
  <2>3. Totals(group[h], buffer, S)
    BY <2>1 DEF Counts
  <2>4. Totals(group[h], C, S)
    BY <2>2, <2>3, TotalsSame
  <2>. QED  BY <2>2, <2>4
<1>2. ASSUME NEW h \in Groups \ {g}
      PROVE  RecordOK(group[h]) /\ Lengths(group[h])
  BY DEF Counts
<1>3. ASSUME NEW h \in Groups
      PROVE  (RecordOK(group[h]) /\ Lengths(group[h]) /\ Totals(group[h], buffer, Own(buffer, h)))'
  <2>1. CASE h = g
    <3>1. RecordOK(group'[h]) /\ Lengths(group'[h]) /\ Totals(group'[h], buffer', Own(buffer', h))
      BY <2>1
    <3>. QED  BY <3>1
  <2>2. CASE h # g
    <3>1. group'[h] = group[h]
      BY <2>2
    <3>2. RecordOK(group'[h]) /\ Lengths(group'[h]) /\ Totals(group'[h], buffer', Own(buffer', h))
      BY <1>1, <1>2, <2>2, <3>1
    <3>. QED  BY <3>2
  <2>. QED  BY <2>1, <2>2
<1>. QED  BY <1>3, Zenon DEF Counts

-----------------------------------------------------------------------------
(***************************************************************************)
(* The counters in each action.                                            *)
(***************************************************************************)

(* A group, its lists, its buffers and its counters.                       *)
LEMMA GroupCounted ==
    ASSUME CInv, NEW g \in Groups
    PROVE  \E u \in SUBSET Buffers, s \in Seq(Buffers), S \in SUBSET Buffers :
               /\ u = group[g].used /\ s = group[g].unused /\ S = Own(buffer, g)
               /\ DOMAIN group[g] = Fields
               /\ ListsOf(g, u, s, buffer)
               /\ S = u \union ToSet(s) /\ u \intersect ToSet(s) = {}
               /\ RecordOK(group[g]) /\ Totals(group[g], buffer, S)
               /\ IsFiniteSet(u) /\ group[g].countUsed = Cardinality(u)
               /\ group[g].countUnused = Len(s)
<1>1. Shape /\ OnLists /\ Counts /\ buffer \in Tables
  BY DEF CInv, IInv, Shape
<1>2. PICK u \in SUBSET Buffers, s \in Seq(Buffers) :
          /\ u = group[g].used /\ s = group[g].unused
          /\ DOMAIN group[g] = Fields
          /\ ListsOf(g, u, s, buffer)
  BY <1>1, GroupThere, Zenon
<1>3. PICK S \in SUBSET Buffers : S = Own(buffer, g)
  BY DEF Own
<1>4. S = u \union ToSet(s) /\ u \intersect ToSet(s) = {}
  <2>1. Own(buffer, g) = u \union ToSet(s) /\ u \intersect ToSet(s) = {}
    <3>1. /\ g \in Groups /\ buffer \in Tables /\ u \in SUBSET Buffers /\ s \in Seq(Buffers)
          /\ ListsOf(g, u, s, buffer)
      BY <1>1, <1>2
    <3>. QED  BY <3>1, OwnLists
  <2>. QED  BY <1>3, <2>1
<1>5. /\ RecordOK(group[g]) /\ Totals(group[g], buffer, S)
      /\ IsFiniteSet(u) /\ group[g].countUsed = Cardinality(u)
      /\ group[g].countUnused = Len(s)
  BY <1>1, <1>2, <1>3, Zenon DEF Counts, Lengths
<1>. QED  BY <1>2, <1>3, <1>4, <1>5

(* Nothing changes that the counters are about.                            *)
LEMMA CountsSame ==
    ASSUME Counts, UNCHANGED group,
           NEW C, buffer' = C,
           \A b \in Buffers : C[b].group = buffer[b].group /\ C[b].size = buffer[b].size
    PROVE  Counts'
<1>1. ASSUME NEW g \in Groups
      PROVE  RecordOK(group[g]) /\ Lengths(group[g]) /\ Totals(group[g], C, Own(C, g))
  <2>1. PICK S : S = Own(buffer, g)
    OBVIOUS
  <2>2. S = Own(C, g) /\ SameSizes(buffer, C, S)
    BY <2>1 DEF Own, SameSizes
  <2>3. RecordOK(group[g]) /\ Lengths(group[g]) /\ Totals(group[g], buffer, S)
    BY <2>1, Zenon DEF Counts
  <2>4. Totals(group[g], C, S)
    BY <2>2, <2>3, TotalsSame
  <2>. QED  BY <2>2, <2>3, <2>4
<1>2. ASSUME NEW g \in Groups
      PROVE  (RecordOK(group[g]) /\ Lengths(group[g]) /\ Totals(group[g], buffer, Own(buffer, g)))'
  <2>1. RecordOK(group'[g]) /\ Lengths(group'[g]) /\ Totals(group'[g], buffer', Own(buffer', g))
    BY <1>1
  <2>. QED  BY <2>1
<1>. QED  BY <1>2, Zenon DEF Counts

(* A group that is not there has no buffers.                               *)
LEMMA MadeCounts ==
    ASSUME CInv, UNCHANGED buffer, NEW g \in Groups, NEW mode \in Modes, NEW type \in Types,
           NEW isMisc \in BOOLEAN, Made(g, mode, type, isMisc)
    PROVE  Counts'
<1> DEFINE r == [Nowhere EXCEPT !.place = "listed", !.mode = mode, !.type = type,
                                !.misc = isMisc]
<1>1. /\ r.used = {} /\ r.unused = <<>> /\ r.countUsed = 0 /\ r.countUnused = 0
      /\ r.usage = 0 /\ r.bufferCount = 0 /\ RecordOK(r)
  BY DEF Nowhere, RecordOK
<1>2. ~Exists(g) /\ group' = [group EXCEPT ![g] = r]
  BY DEF Made, Exists
<1> HIDE DEF r
<1>3. GroupShape
  BY DEF CInv, IInv, Shape
<1>4. /\ group'[g] = r
      /\ \A h \in Groups \ {g} : group'[h] = group[h]
  BY <1>2, <1>3, OneGroup, Zenon
<1>5. Own(buffer, g) = {}
  <2>1. PICK u \in SUBSET Buffers, s \in Seq(Buffers), S \in SUBSET Buffers :
            /\ u = group[g].used /\ s = group[g].unused /\ S = Own(buffer, g)
            /\ S = u \union ToSet(s)
    BY GroupCounted, Zenon
  <2>2. u = {} /\ s = <<>>
    BY <1>2, <2>1 DEF CInv, OnLists
  <2>3. ToSet(s) = {}
    BY <2>2 DEF ToSet
  <2>. QED  BY <2>1, <2>2, <2>3
<1>6. Lengths(r)
  BY <1>1, FS_EmptySet DEF Lengths
<1>7. Totals(r, buffer, Own(buffer, g))
  BY <1>1, <1>5, TotalsNone
<1>8. Counts /\ buffer' = buffer /\ OnlyOf(buffer, g)
  BY DEF CInv, OnlyOf
<1>. QED  BY <1>1, <1>4, <1>6, <1>7, <1>8, CountsKept

(* Unused buffers are freed, all of them.                                  *)
EmptiedOf(q, r) ==
    /\ RecordOK(q)
    /\ q.used = r.used /\ q.unused = <<>>
    /\ q.countUsed = r.countUsed
    /\ q.countUnused = r.countUnused - Len(r.unused)
    /\ q.usage = r.usage - Bytes(ToSet(r.unused))
    /\ q.bufferCount = r.bufferCount - Cardinality(ToSet(r.unused))

GoneFrom(C, T) ==
    /\ \A b \in T : C[b].group = NoGroup
    /\ \A b \in Buffers : b \notin T => C[b].group = buffer[b].group /\ C[b].size = buffer[b].size

LEMMA EmptiedCounts ==
    ASSUME CInv, NEW g \in Groups, NEW q, NEW C, buffer' = C, group'[g] = q,
           \A h \in Groups \ {g} : group'[h] = group[h],
           EmptiedOf(q, group[g]), GoneFrom(C, ToSet(group[g].unused))
    PROVE  Counts'
<1> USE DEF EmptiedOf, GoneFrom
<1>1. PICK u \in SUBSET Buffers, s \in Seq(Buffers), S \in SUBSET Buffers :
          /\ u = group[g].used /\ s = group[g].unused /\ S = Own(buffer, g)
          /\ DOMAIN group[g] = Fields
          /\ ListsOf(g, u, s, buffer)
          /\ S = u \union ToSet(s) /\ u \intersect ToSet(s) = {}
          /\ RecordOK(group[g]) /\ Totals(group[g], buffer, S)
          /\ IsFiniteSet(u) /\ group[g].countUsed = Cardinality(u)
          /\ group[g].countUnused = Len(s)
  BY GroupCounted, Zenon
<1>2. PICK T \in SUBSET S : T = ToSet(s)
  BY <1>1
<1>3. g # NoGroup
  BY GroupsAssumption
<1>4. Own(C, g) = S \ T
  BY <1>1, <1>2, <1>3 DEF Own
<1>5. SameSizes(buffer, C, S \ T)
  BY <1>1, <1>2 DEF SameSizes
<1>6. q.usage = group[g].usage - Bytes(T) /\ q.bufferCount = group[g].bufferCount - Cardinality(T)
  BY <1>1, <1>2
<1>7. Totals(q, C, S \ T)
  BY <1>1, <1>5, <1>6, TotalsLess
<1>8. Lengths(q)
  <2>1. q.countUnused = 0 /\ Len(q.unused) = 0
    BY <1>1
  <2>. QED  BY <1>1, <2>1 DEF Lengths
<1>9. OnlyOf(C, g)
  <2>1. \A b \in T : C[b].group = NoGroup /\ buffer[b].group = g
    BY <1>1, <1>2 DEF Own
  <2>. QED  BY <1>1, <1>2, <2>1 DEF OnlyOf
<1>10. Totals(q, C, Own(C, g)) /\ Counts
  BY <1>4, <1>7 DEF CInv
<1>. QED  BY <1>8, <1>9, <1>10, CountsKept

(* What is asked for has a size.                                           *)
LEMMA CalledSizes ==
    ASSUME CInv, NEW th \in Threads, NEW to, NEW g, NEW s \in Sizes, NEW ref,
           Calls(th, to, [group |-> g, size |-> s, ref |-> ref])
    PROVE  CallsOK'
<1> DEFINE w == [group |-> g, size |-> s, ref |-> ref]
<1>1. /\ DOMAIN at = Threads /\ DOMAIN want = Threads
      /\ at' = [at EXCEPT ![th] = to] /\ want' = [want EXCEPT ![th] = w]
  BY DEF Calls, CInv, IInv, Shape
<1>2. w.size \in Sizes
  OBVIOUS
<1> HIDE DEF w
<1>3. ASSUME NEW x \in Threads
      PROVE  /\ want'[x].size \in Sizes \union {0}
             /\ at'[x] # "idle" => want'[x].size \in Sizes
  <2>1. CASE x = th
    BY <1>1, <1>2, <2>1
  <2>2. CASE x # th
    <3>1. want'[x] = want[x] /\ at'[x] = at[x]
      BY <1>1, <2>2
    <3>. QED  BY <3>1 DEF CInv, CallsOK
  <2>. QED  BY <2>1, <2>2
<1>. QED  BY <1>3, Zenon DEF CallsOK

LEMMA ReturnedSizes ==
    ASSUME CInv, NEW th \in Threads,
           \/ Returns(th)
           \/ at[th] = "search" /\ at' = [at EXCEPT ![th] = "create"] /\ UNCHANGED want
    PROVE  CallsOK'
<1>1. DOMAIN at = Threads /\ DOMAIN want = Threads
  BY DEF CInv, IInv, Shape
<1>2. ASSUME NEW x \in Threads
      PROVE  /\ want'[x] = want[x] \/ (want'[x] = NoWant /\ at'[x] = "idle")
             /\ at'[x] = "idle" \/ (want'[x] = want[x] /\ at[x] # "idle")
  <2>1. CASE Returns(th)
    BY <1>1, <2>1 DEF Returns
  <2>2. CASE at[th] = "search" /\ at' = [at EXCEPT ![th] = "create"] /\ UNCHANGED want
    BY <1>1, <2>2
  <2>. QED  BY <2>1, <2>2
<1>3. NoWant.size = 0
  BY DEF NoWant
<1>4. ASSUME NEW x \in Threads
      PROVE  /\ want'[x].size \in Sizes \union {0}
             /\ at'[x] # "idle" => want'[x].size \in Sizes
  BY <1>2, <1>3 DEF CInv, CallsOK
<1>. QED  BY <1>4, Zenon DEF CallsOK

LEMMA SameSizesAsked ==
    ASSUME CInv, UNCHANGED <<at, want>>
    PROVE  CallsOK'
BY Zenon DEF CInv, CallsOK

LEMMA SameBuffers ==
    ASSUME CInv, UNCHANGED buffer
    PROVE  BuffersOK'
BY Zenon DEF CInv, BuffersOK, Live

LEMMA SameCounts ==
    ASSUME CInv, UNCHANGED <<group, buffer>>
    PROVE  Counts'
<1>1. PICK C : C = buffer /\ buffer' = C
  OBVIOUS
<1>2. \A b \in Buffers : C[b].group = buffer[b].group /\ C[b].size = buffer[b].size
  BY <1>1
<1>. QED  BY <1>1, <1>2, CountsSame DEF CInv

LEMMA GroupGetCounts ==
    ASSUME CInv, GroupGet
    PROVE  BuffersOK' /\ CallsOK' /\ Counts'
<1>1. PICK g \in Groups, mode \in Modes, type \in Types : Made(g, mode, type, FALSE)
  BY DEF GroupGet
<1>2. UNCHANGED buffer /\ UNCHANGED <<at, want>>
  BY DEF GroupGet
<1>3. FALSE \in BOOLEAN
  OBVIOUS
<1>4. Counts'
  BY <1>1, <1>2, <1>3, MadeCounts, Zenon
<1>. QED  BY <1>2, <1>4, SameSizesAsked, SameBuffers

LEMMA LimitConfigCounts ==
    ASSUME CInv, LimitConfig
    PROVE  BuffersOK' /\ CallsOK' /\ Counts'
<1>1. PICK g \in Groups, limit \in Limits : group' = [group EXCEPT ![g].limit = limit]
  BY DEF LimitConfig
<1>2. UNCHANGED buffer /\ UNCHANGED <<at, want>>
  BY DEF LimitConfig
<1>3. PICK u \in SUBSET Buffers, s \in Seq(Buffers), S \in SUBSET Buffers :
          /\ u = group[g].used /\ s = group[g].unused /\ S = Own(buffer, g)
          /\ DOMAIN group[g] = Fields
          /\ ListsOf(g, u, s, buffer)
          /\ S = u \union ToSet(s) /\ u \intersect ToSet(s) = {}
          /\ RecordOK(group[g]) /\ Totals(group[g], buffer, S)
          /\ IsFiniteSet(u) /\ group[g].countUsed = Cardinality(u)
          /\ group[g].countUnused = Len(s)
  BY GroupCounted, Zenon
<1>4. PICK q : q = [group[g] EXCEPT !.limit = limit]
  OBVIOUS
<1>5. GroupShape /\ group' = [group EXCEPT ![g] = q]
  BY <1>1, <1>4 DEF CInv, IInv, Shape
<1>6. /\ group'[g] = q
      /\ \A h \in Groups \ {g} : group'[h] = group[h]
  BY <1>5, OneGroup, Zenon
<1>7. /\ RecordOK(q) /\ q.used = u /\ q.unused = s
      /\ q.usage = group[g].usage /\ q.bufferCount = group[g].bufferCount
      /\ q.countUsed = group[g].countUsed /\ q.countUnused = group[g].countUnused
  BY <1>3, <1>4, FieldNames DEF RecordOK
<1>8. Lengths(q)
  BY <1>3, <1>7 DEF Lengths
<1>9. Totals(q, buffer, S)
  <2>1. SameSizes(buffer, buffer, S)
    BY DEF SameSizes
  <2>. QED  BY <1>3, <1>7, <2>1, TotalsSame
<1>10. Totals(q, buffer, Own(buffer, g)) /\ Counts /\ buffer' = buffer /\ OnlyOf(buffer, g)
  BY <1>2, <1>3, <1>9 DEF CInv, OnlyOf
<1>11. Counts'
  BY <1>6, <1>7, <1>8, <1>10, CountsKept
<1>. QED  BY <1>2, <1>11, SameSizesAsked, SameBuffers

LEMMA CallCounts ==
    ASSUME CInv, NEW th \in Threads, CallGet(th) \/ CallImport(th)
    PROVE  BuffersOK' /\ CallsOK' /\ Counts'
<1>1. PICK g \in Groups, s \in Sizes, ref \in BOOLEAN, to \in {"search", "create"} :
          Calls(th, to, [group |-> g, size |-> s, ref |-> ref])
  BY DEF CallGet, CallImport
<1>2. UNCHANGED buffer /\ UNCHANGED <<group, buffer>>
  BY DEF CallGet, CallImport
<1>3. CallsOK'
  BY <1>1, CalledSizes
<1>. QED  BY <1>2, <1>3, SameBuffers, SameCounts

LEMMA CallMiscCounts ==
    ASSUME CInv, NEW th \in Threads, CallGetMisc(th) \/ CallImportMisc(th)
    PROVE  BuffersOK' /\ CallsOK' /\ Counts'
<1>1. PICK g \in Groups, mode \in Modes, type \in Types, s \in Sizes,
           to \in {"search", "create"} :
          InMisc(mode, type, g) /\ Calls(th, to, [group |-> g, size |-> s, ref |-> TRUE])
  <2>1. "internal" \in Modes /\ "external" \in Modes
    BY DEF Modes
  <2>2. CASE CallGetMisc(th)
    BY <2>1, <2>2 DEF CallGetMisc
  <2>3. CASE CallImportMisc(th)
    BY <2>1, <2>3 DEF CallImportMisc
  <2>. QED  BY <2>2, <2>3
<1>2. UNCHANGED buffer
  BY DEF CallGetMisc, CallImportMisc
<1>3. CallsOK'
  BY <1>1, CalledSizes
<1>4. Counts'
  <2>1. CASE UNCHANGED <<group, misc>>
    BY <1>2, <2>1, SameCounts
  <2>2. CASE Made(g, mode, type, TRUE)
    <3>1. TRUE \in BOOLEAN
      OBVIOUS
    <3>. QED  BY <1>2, <2>2, <3>1, MadeCounts, Zenon
  <2>. QED  BY <1>1, <2>1, <2>2, Zenon DEF InMisc
<1>. QED  BY <1>2, <1>3, <1>4, SameBuffers

LEMMA CreateFailsCounts ==
    ASSUME CInv, NEW th \in Threads, CreateFails(th)
    PROVE  BuffersOK' /\ CallsOK' /\ Counts'
<1>1. UNCHANGED buffer /\ UNCHANGED <<group, buffer>> /\ Returns(th)
  BY DEF CreateFails
<1>. QED  BY <1>1, ReturnedSizes, SameBuffers, SameCounts

LEMMA RefCounts ==
    ASSUME CInv, RefInc \/ RefDec
    PROVE  BuffersOK' /\ CallsOK' /\ Counts'
<1> DEFINE Rows == [group : Groups \union {NoGroup}, size : Sizes \union {0},
                    ref : 0 .. RefBound, discard : BOOLEAN]
<1>1. buffer \in [Buffers -> Rows]
  BY DEF CInv, BuffersOK
<1>2. PICK x \in Buffers, n \in 0 .. RefBound : buffer' = [buffer EXCEPT ![x].ref = n]
  <2>1. CASE RefInc
    <3>1. PICK x \in Buffers : /\ buffer[x].ref \in 1 .. RefBound - 1
                               /\ buffer' = [buffer EXCEPT ![x].ref = @ + 1]
      BY <2>1 DEF RefInc
    <3>2. buffer[x].ref + 1 \in 0 .. RefBound
      BY <3>1, GroupsAssumption
    <3>. QED  BY <3>1, <3>2
  <2>2. CASE RefDec
    <3>1. PICK x \in Buffers : /\ buffer[x].ref > 1
                               /\ buffer' = [buffer EXCEPT ![x].ref = @ - 1]
      BY <2>2 DEF RefDec
    <3>2. buffer[x].ref - 1 \in 0 .. RefBound
      BY <1>1, <3>1, GroupsAssumption
    <3>. QED  BY <3>1, <3>2
  <2>. QED  BY <2>1, <2>2
<1>3. UNCHANGED group /\ UNCHANGED <<at, want>>
  BY DEF RefInc, RefDec
<1>4. PICK C : buffer' = C
  OBVIOUS
<1>5. /\ C \in [Buffers -> Rows]
      /\ \A b \in Buffers : C[b].group = buffer[b].group /\ C[b].size = buffer[b].size
  BY <1>1, <1>2, <1>4
<1>6. Counts'
  BY <1>3, <1>4, <1>5, CountsSame DEF CInv
<1>7. BuffersOK'
  <2>1. \A b \in Buffers : buffer[b].group # NoGroup => buffer[b].size \in Sizes
    BY DEF CInv, BuffersOK, Live
  <2>2. \A b \in Buffers : C[b].group # NoGroup => C[b].size \in Sizes
    BY <1>5, <2>1
  <2>3. /\ buffer' \in [Buffers -> Rows]
        /\ \A b \in Buffers : buffer'[b].group # NoGroup => buffer'[b].size \in Sizes
    BY <1>4, <1>5, <2>2
  <2>. QED  BY <2>3, Zenon DEF BuffersOK, Live
<1>. QED  BY <1>3, <1>6, <1>7, SameSizesAsked

(* Freed buffers, in the table with its sizes.                             *)
LEMMA FreedSizes ==
    ASSUME CInv, NEW S, buffer' = Freed(S)
    PROVE  /\ BuffersOK'
           /\ \E C : /\ buffer' = C
                     /\ \A b \in Buffers : b \in S => C[b].group = NoGroup
                     /\ \A b \in Buffers : b \notin S => C[b] = buffer[b]
<1> DEFINE Rows == [group : Groups \union {NoGroup}, size : Sizes \union {0},
                    ref : 0 .. RefBound, discard : BOOLEAN]
<1>1. /\ buffer \in [Buffers -> Rows]
      /\ \A b \in Buffers : buffer[b].group # NoGroup => buffer[b].size \in Sizes
  BY DEF CInv, BuffersOK, Live
<1>2. NoBuffer \in Rows /\ NoBuffer.group = NoGroup
  BY GroupsAssumption DEF NoBuffer
<1> HIDE DEF Rows
<1>3. PICK C : C = Freed(S)
  OBVIOUS
<1>4. /\ C \in [Buffers -> Rows]
      /\ \A b \in Buffers : b \in S => C[b] = NoBuffer
      /\ \A b \in Buffers : b \notin S => C[b] = buffer[b]
  BY <1>1, <1>2, <1>3 DEF Freed
<1>5. \A b \in Buffers : C[b].group # NoGroup => C[b].size \in Sizes
  BY <1>1, <1>2, <1>4
<1>6. BuffersOK'
  <2>1. /\ buffer' \in [Buffers -> Rows]
        /\ \A b \in Buffers : buffer'[b].group # NoGroup => buffer'[b].size \in Sizes
    BY <1>3, <1>4, <1>5
  <2>. QED  BY <2>1, Zenon DEF BuffersOK, Live, Rows
<1>. QED  BY <1>2, <1>3, <1>4, <1>6

LEMMA GetFindsNoneCounts ==
    ASSUME CInv, NEW th \in Threads, GetFindsNone(th), ~freedInUse
    PROVE  BuffersOK' /\ CallsOK' /\ Counts'
<1>1. CASE UNCHANGED <<group, buffer, cleared>> /\ Returns(th)
  <2>1. UNCHANGED buffer /\ UNCHANGED <<group, buffer>>
    BY <1>1
  <2>. QED  BY <1>1, <2>1, ReturnedSizes, SameBuffers, SameCounts
<1>2. PICK g : g = want[th].group
  OBVIOUS
<1>3. at[th] = "search" /\ g \in Groups
  <2>1. at[th] = "search" /\ at[th] # "idle"
    BY DEF GetFindsNone
  <2>2. want[th].group \in Groups \union {NoGroup} /\ want[th].group # NoGroup
    BY <2>1 DEF CInv, IInv, Shape, GroupsKept
  <2>. QED  BY <1>2, <2>1, <2>2
<1>4. CASE /\ group' = [group EXCEPT ![g] = WithoutUnused(group[g])]
           /\ buffer' = Freed(ToSet(group[g].unused))
           /\ at' = [at EXCEPT ![th] = "create"]
           /\ UNCHANGED want
  <2>1. CallsOK'
    BY <1>3, <1>4, ReturnedSizes
  <2>2. BuffersOK'
    BY <1>4, FreedSizes
  <2>3. PICK C : /\ buffer' = C
                 /\ \A b \in Buffers : b \in ToSet(group[g].unused) => C[b].group = NoGroup
                 /\ \A b \in Buffers : b \notin ToSet(group[g].unused) => C[b] = buffer[b]
    BY <1>4, FreedSizes
  <2>4. PICK q : q = WithoutUnused(group[g])
    OBVIOUS
  <2>5. GroupShape /\ DOMAIN group[g] = Fields
    BY <1>3 DEF CInv, IInv, Shape, GroupShape, Fields
  <2>6. /\ group'[g] = q
        /\ \A h \in Groups \ {g} : group'[h] = group[h]
    <3>1. group' = [group EXCEPT ![g] = q]
      BY <1>4, <2>4
    <3>. QED  BY <1>3, <2>5, <3>1, OneGroup, Zenon
  <2>7. q.used = group[g].used /\ q.unused = <<>>
    BY <2>4, <2>5, WithoutUnusedFields, Zenon
  <2>8. /\ SameRecord(q, group[g])
        /\ q.countUsed = group[g].countUsed
        /\ q.countUnused = group[g].countUnused - Len(group[g].unused)
        /\ q.usage = group[g].usage - Bytes(ToSet(group[g].unused))
        /\ q.bufferCount = group[g].bufferCount - Cardinality(ToSet(group[g].unused))
    BY <2>4, <2>5, WithoutUnusedCounts, Zenon
  <2>9. RecordOK(q)
    BY <1>3, <2>8, RecordKept DEF CInv, Counts
  <2>10. ToSet(group[g].unused) \subseteq Buffers
    BY <1>3, GroupCounted
  <2>11. GoneFrom(C, ToSet(group[g].unused))
    BY <2>3, <2>10 DEF GoneFrom
  <2>12. EmptiedOf(q, group[g])
    BY <2>7, <2>8, <2>9, Zenon DEF EmptiedOf
  <2>13. Counts'
    BY <1>3, <2>3, <2>6, <2>11, <2>12, EmptiedCounts, Zenon
  <2>. QED  BY <2>1, <2>2, <2>13
<1>. QED  BY <1>1, <1>2, <1>4, Zenon DEF GetFindsNone

LEMMA GroupClearCounts ==
    ASSUME CInv, GroupClear
    PROVE  BuffersOK' /\ CallsOK' /\ Counts'
<1>1. PICK g \in Groups :
          /\ group' = [group EXCEPT ![g] = WithoutUnused(group[g])]
          /\ buffer' = [b \in Buffers |->
                 IF b \in group[g].used THEN [buffer[b] EXCEPT !.discard = TRUE]
                 ELSE Freed(ToSet(group[g].unused))[b]]
  BY Zenon DEF GroupClear
<1>2. CallsOK'
  BY SameSizesAsked DEF GroupClear
<1>3. PICK u \in SUBSET Buffers, s \in Seq(Buffers), S \in SUBSET Buffers :
          /\ u = group[g].used /\ s = group[g].unused /\ S = Own(buffer, g)
          /\ DOMAIN group[g] = Fields
          /\ ListsOf(g, u, s, buffer)
          /\ S = u \union ToSet(s) /\ u \intersect ToSet(s) = {}
          /\ RecordOK(group[g]) /\ Totals(group[g], buffer, S)
          /\ IsFiniteSet(u) /\ group[g].countUsed = Cardinality(u)
          /\ group[g].countUnused = Len(s)
  BY GroupCounted, Zenon
<1>4. PICK T \in SUBSET Buffers : T = ToSet(s)
  BY <1>3
<1> DEFINE Rows == [group : Groups \union {NoGroup}, size : Sizes \union {0},
                    ref : 0 .. RefBound, discard : BOOLEAN]
<1>5. /\ buffer \in [Buffers -> Rows]
      /\ \A b \in Buffers : buffer[b].group # NoGroup => buffer[b].size \in Sizes
  BY DEF CInv, BuffersOK, Live
<1>6. NoBuffer \in Rows /\ NoBuffer.group = NoGroup
  BY GroupsAssumption DEF NoBuffer
<1>7. PICK C : C = [b \in Buffers |->
          IF b \in u THEN [buffer[b] EXCEPT !.discard = TRUE]
          ELSE IF b \in T THEN NoBuffer ELSE buffer[b]]
  OBVIOUS
<1>8. buffer' = C
  <2>1. buffer' = [b \in Buffers |->
            IF b \in u THEN [buffer[b] EXCEPT !.discard = TRUE] ELSE Freed(T)[b]]
    BY <1>1, <1>3, <1>4, Zenon
  <2>2. \A b \in Buffers : Freed(T)[b] = IF b \in T THEN NoBuffer ELSE buffer[b]
    BY DEF Freed
  <2>. QED  BY <1>7, <2>1, <2>2
<1>9. ASSUME NEW b \in Buffers
      PROVE  /\ C[b] \in Rows
             /\ b \in T => C[b].group = NoGroup
             /\ b \notin T => C[b].group = buffer[b].group /\ C[b].size = buffer[b].size
  <2>1. buffer[b] \in Rows
    BY <1>5
  <2>2. CASE b \in u
    <3>1. C[b] = [buffer[b] EXCEPT !.discard = TRUE] /\ b \notin T
      BY <1>3, <1>4, <1>7, <2>2
    <3>. QED  BY <2>1, <3>1
  <2>3. CASE b \notin u
    <3>1. C[b] = IF b \in T THEN NoBuffer ELSE buffer[b]
      BY <1>7, <2>3
    <3> HIDE DEF Rows
    <3>. QED  BY <1>6, <2>1, <3>1
  <2>. QED  BY <2>2, <2>3
<1> HIDE DEF Rows
<1>10. BuffersOK'
  <2>1. C \in [Buffers -> Rows]
    BY <1>7, <1>9
  <2>2. /\ buffer' \in [Buffers -> Rows]
        /\ \A b \in Buffers : buffer'[b].group # NoGroup => buffer'[b].size \in Sizes
    BY <1>5, <1>8, <1>9, <2>1
  <2>. QED  BY <2>2, Zenon DEF BuffersOK, Live, Rows
<1>11. PICK q : q = WithoutUnused(group[g])
  OBVIOUS
<1>12. /\ group'[g] = q
       /\ \A h \in Groups \ {g} : group'[h] = group[h]
  <2>1. GroupShape /\ group' = [group EXCEPT ![g] = q]
    BY <1>1, <1>11 DEF CInv, IInv, Shape
  <2>. QED  BY <2>1, OneGroup, Zenon
<1>13. q.used = group[g].used /\ q.unused = <<>>
  BY <1>3, <1>11, WithoutUnusedFields, Zenon
<1>14. /\ SameRecord(q, group[g])
       /\ q.countUsed = group[g].countUsed
       /\ q.countUnused = group[g].countUnused - Len(group[g].unused)
       /\ q.usage = group[g].usage - Bytes(ToSet(group[g].unused))
       /\ q.bufferCount = group[g].bufferCount - Cardinality(ToSet(group[g].unused))
  BY <1>3, <1>11, WithoutUnusedCounts, Zenon
<1>15. RecordOK(q)
  BY <1>3, <1>14, RecordKept
<1>16. GoneFrom(C, ToSet(group[g].unused))
  BY <1>3, <1>4, <1>9 DEF GoneFrom
<1>17. EmptiedOf(q, group[g])
  BY <1>13, <1>14, <1>15, Zenon DEF EmptiedOf
<1>18. Counts'
  BY <1>8, <1>12, <1>16, <1>17, EmptiedCounts, Zenon
<1>. QED  BY <1>2, <1>10, <1>18

LEMMA GroupPutCounts ==
    ASSUME CInv, GroupPut
    PROVE  BuffersOK' /\ CallsOK' /\ Counts'
<1>1. PICK g \in Groups :
          /\ group' = [group EXCEPT ![g] =
                 IF group[g].used = {} THEN Nowhere
                 ELSE [WithoutUnused(group[g]) EXCEPT !.place = "orphan"]]
          /\ buffer' = Freed(ToSet(group[g].unused))
  BY Zenon DEF GroupPut
<1>2. CallsOK'
  BY SameSizesAsked DEF GroupPut
<1>3. PICK u \in SUBSET Buffers, s \in Seq(Buffers), S \in SUBSET Buffers :
          /\ u = group[g].used /\ s = group[g].unused /\ S = Own(buffer, g)
          /\ DOMAIN group[g] = Fields
          /\ ListsOf(g, u, s, buffer)
          /\ S = u \union ToSet(s) /\ u \intersect ToSet(s) = {}
          /\ RecordOK(group[g]) /\ Totals(group[g], buffer, S)
          /\ IsFiniteSet(u) /\ group[g].countUsed = Cardinality(u)
          /\ group[g].countUnused = Len(s)
  BY GroupCounted, Zenon
<1>4. BuffersOK'
  BY <1>1, FreedSizes
<1>5. PICK C : /\ buffer' = C
               /\ \A b \in Buffers : b \in ToSet(group[g].unused) => C[b].group = NoGroup
               /\ \A b \in Buffers : b \notin ToSet(group[g].unused) => C[b] = buffer[b]
  BY <1>1, FreedSizes
<1>6. PICK q : q = IF group[g].used = {} THEN Nowhere
                   ELSE [WithoutUnused(group[g]) EXCEPT !.place = "orphan"]
  OBVIOUS
<1>7. /\ group'[g] = q
      /\ \A h \in Groups \ {g} : group'[h] = group[h]
  <2>1. GroupShape /\ group' = [group EXCEPT ![g] = q]
    BY <1>1, <1>6 DEF CInv, IInv, Shape
  <2>. QED  BY <2>1, OneGroup, Zenon
<1>8. CASE u = {}
  <2>1. q = Nowhere
    BY <1>3, <1>6, <1>8
  <2>2. /\ q.used = {} /\ q.unused = <<>> /\ q.countUsed = 0 /\ q.countUnused = 0
        /\ q.usage = 0 /\ q.bufferCount = 0 /\ RecordOK(q)
    BY <2>1 DEF Nowhere, RecordOK, Modes
  <2>3. Own(C, g) = {} /\ \A b \in Buffers : C[b].group = g => FALSE
    BY <1>3, <1>5, <1>8, GroupsAssumption DEF Own
  <2>4. Lengths(q)
    BY <2>2, FS_EmptySet DEF Lengths
  <2>5. Totals(q, C, Own(C, g))
    BY <2>2, <2>3, TotalsNone
  <2>6. OnlyOf(C, g)
    <3>1. \A b \in ToSet(s) : buffer[b].group = g
      BY <1>3 DEF Own
    <3>. QED  BY <1>3, <1>5, <3>1 DEF OnlyOf
  <2>7. Counts'
    BY <1>5, <1>7, <2>2, <2>4, <2>5, <2>6, CountsKept DEF CInv
  <2>. QED  BY <1>2, <1>4, <2>7
<1>9. CASE u # {}
  <2>1. PICK w : w = WithoutUnused(group[g])
    OBVIOUS
  <2>2. q = [w EXCEPT !.place = "orphan"]
    BY <1>3, <1>6, <1>9, <2>1
  <2>3. DOMAIN w = Fields /\ w.used = group[g].used /\ w.unused = <<>>
    BY <1>3, <2>1, WithoutUnusedFields, Zenon
  <2>4. /\ SameRecord(w, group[g])
        /\ w.countUsed = group[g].countUsed
        /\ w.countUnused = group[g].countUnused - Len(group[g].unused)
        /\ w.usage = group[g].usage - Bytes(ToSet(group[g].unused))
        /\ w.bufferCount = group[g].bufferCount - Cardinality(ToSet(group[g].unused))
    BY <1>3, <2>1, WithoutUnusedCounts, Zenon
  <2>5. /\ q.mode = w.mode /\ q.type = w.type /\ q.limit = w.limit /\ q.misc = w.misc
        /\ q.place = "orphan" /\ q.used = w.used /\ q.unused = w.unused
        /\ q.countUsed = w.countUsed /\ q.countUnused = w.countUnused
        /\ q.usage = w.usage /\ q.bufferCount = w.bufferCount
    BY <2>2, <2>3, FieldNames
  <2>6. RecordOK(q)
    <3>1. RecordOK(w)
      BY <1>3, <2>4, RecordKept
    <3>. QED  BY <2>5, <3>1 DEF RecordOK
  <2>7. /\ q.used = group[g].used /\ q.unused = <<>>
        /\ q.countUsed = group[g].countUsed
        /\ q.countUnused = group[g].countUnused - Len(group[g].unused)
        /\ q.usage = group[g].usage - Bytes(ToSet(group[g].unused))
        /\ q.bufferCount = group[g].bufferCount - Cardinality(ToSet(group[g].unused))
    BY <2>3, <2>4, <2>5, Zenon
  <2>8. GoneFrom(C, ToSet(group[g].unused))
    BY <1>3, <1>5 DEF GoneFrom
  <2>9. EmptiedOf(q, group[g])
    BY <2>6, <2>7, Zenon DEF EmptiedOf
  <2>10. Counts'
    BY <1>5, <1>7, <2>8, <2>9, EmptiedCounts, Zenon
  <2>. QED  BY <1>2, <1>4, <2>10
<1>. QED  BY <1>8, <1>9

(* One row of the table changes.                                           *)
LEMMA OneRow ==
    ASSUME CInv, NEW x \in Buffers, NEW C, buffer' = C, C = [b \in Buffers |-> C[b]],
           \A b \in Buffers : b = x \/ C[b] = buffer[b] \/ C[b] = NoBuffer,
           C[x] \in [group : Groups \union {NoGroup}, size : Sizes,
                     ref : 0 .. RefBound, discard : BOOLEAN]
    PROVE  BuffersOK'
<1> DEFINE Rows == [group : Groups \union {NoGroup}, size : Sizes \union {0},
                    ref : 0 .. RefBound, discard : BOOLEAN]
           Sized == [group : Groups \union {NoGroup}, size : Sizes,
                     ref : 0 .. RefBound, discard : BOOLEAN]
<1>1. /\ buffer \in [Buffers -> Rows]
      /\ \A b \in Buffers : buffer[b].group # NoGroup => buffer[b].size \in Sizes
  BY DEF CInv, BuffersOK, Live
<1>2. NoBuffer \in Rows /\ NoBuffer.group = NoGroup
  BY GroupsAssumption DEF NoBuffer
<1>3. \A row \in Sized : row \in Rows /\ row.size \in Sizes
  OBVIOUS
<1>4. /\ \A b \in Buffers : b = x \/ C[b] = buffer[b] \/ C[b] = NoBuffer
      /\ C[x] \in Sized
  OBVIOUS
<1> HIDE DEF Rows, Sized
<1>5. /\ C \in [Buffers -> Rows]
      /\ \A b \in Buffers : C[b].group # NoGroup => C[b].size \in Sizes
  <2>1. ASSUME NEW b \in Buffers
        PROVE  C[b] \in Rows /\ (C[b].group # NoGroup => C[b].size \in Sizes)
    <3>2. CASE b = x
      BY <1>3, <1>4, <3>2
    <3>3. CASE C[b] = buffer[b]
      BY <1>1, <3>3
    <3>4. CASE C[b] = NoBuffer
      BY <1>2, <3>4
    <3>. QED  BY <1>4, <3>2, <3>3, <3>4
  <2>. QED  BY <1>4, <2>1
<1>6. /\ buffer' \in [Buffers -> Rows]
      /\ \A b \in Buffers : buffer'[b].group # NoGroup => buffer'[b].size \in Sizes
  BY <1>5
<1>. QED  BY <1>6, Zenon DEF BuffersOK, Live, Rows

LEMMA CreateCounts ==
    ASSUME CInv, NEW th \in Threads, Create(th), ~freedInUse
    PROVE  BuffersOK' /\ CallsOK' /\ Counts'
<1>1. PICK g : g = want[th].group
  OBVIOUS
<1>2. at[th] # "idle" /\ g \in Groups /\ g # NoGroup
  <2>1. at[th] # "idle"
    BY DEF Create
  <2>2. want[th].group \in Groups \union {NoGroup} /\ want[th].group # NoGroup
    BY <2>1 DEF CInv, IInv, Shape, GroupsKept
  <2>. QED  BY <1>1, <2>1, <2>2
<1>3. CallsOK'
  BY ReturnedSizes DEF Create
<1>4. PICK n \in Sizes, ref \in BOOLEAN : n = want[th].size /\ ref = want[th].ref
  BY <1>2 DEF CInv, CallsOK, IInv, Shape
<1>5. n \in Nat \ {0}
  BY GroupsAssumption
<1>6. PICK u \in SUBSET Buffers, s \in Seq(Buffers), S \in SUBSET Buffers :
          /\ u = group[g].used /\ s = group[g].unused /\ S = Own(buffer, g)
          /\ DOMAIN group[g] = Fields
          /\ ListsOf(g, u, s, buffer)
          /\ S = u \union ToSet(s) /\ u \intersect ToSet(s) = {}
          /\ RecordOK(group[g]) /\ Totals(group[g], buffer, S)
          /\ IsFiniteSet(u) /\ group[g].countUsed = Cardinality(u)
          /\ group[g].countUnused = Len(s)
  BY <1>2, GroupCounted, Zenon
<1>7. PICK more : more = [group[g] EXCEPT !.usage = @ + n, !.bufferCount = @ + 1]
  OBVIOUS
<1>8. /\ DOMAIN more = Fields /\ more.used = u /\ more.unused = s
      /\ SameRecord(more, group[g])
      /\ more.countUsed = group[g].countUsed /\ more.countUnused = group[g].countUnused
      /\ more.usage = group[g].usage + n /\ more.bufferCount = group[g].bufferCount + 1
  BY <1>6, <1>7, FieldNames DEF SameRecord
<1> DEFINE Into(x) == IF ref THEN Used(more, x)
                      ELSE [more EXCEPT !.unused = Append(@, x), !.countUnused = @ + 1]
<1>9. PICK x \in Buffers :
          /\ ~Live(x)
          /\ buffer' = [buffer EXCEPT ![x] =
                 [group |-> g, size |-> n, ref |-> IF ref THEN 1 ELSE 0, discard |-> FALSE]]
          /\ group' = [group EXCEPT ![g] = Into(x)]
  BY <1>1, <1>4, <1>7, Zenon DEF Create
<1>10. PICK q : q = Into(x)
  OBVIOUS
<1>11. PICK row : row = [group |-> g, size |-> n, ref |-> IF ref THEN 1 ELSE 0, discard |-> FALSE]
  OBVIOUS
<1>12. PICK C : C = [buffer EXCEPT ![x] = row] /\ buffer' = C
  BY <1>9, <1>11
<1>13. /\ DOMAIN C = Buffers /\ C[x] = row /\ row.size = n /\ row.group = g
       /\ \A b \in Buffers \ {x} : C[b] = buffer[b]
       /\ buffer[x].group = NoGroup
  BY <1>9, <1>11, <1>12 DEF CInv, BuffersOK, Live
<1>14. BuffersOK'
  <2>1. row \in [group : Groups \union {NoGroup}, size : Sizes,
                 ref : 0 .. RefBound, discard : BOOLEAN]
    BY <1>2, <1>11, GroupsAssumption
  <2>2. C = [b \in Buffers |-> C[b]]
    BY <1>12, <1>13 DEF CInv, BuffersOK
  <2>3. \A b \in Buffers : b = x \/ C[b] = buffer[b] \/ C[b] = NoBuffer
    BY <1>13
  <2>4. C[x] \in [group : Groups \union {NoGroup}, size : Sizes,
                 ref : 0 .. RefBound, discard : BOOLEAN]
    BY <1>13, <2>1
  <2>. QED  BY <1>12, <1>13, <2>2, <2>3, <2>4, OneRow
<1>15. /\ group'[g] = q
       /\ \A h \in Groups \ {g} : group'[h] = group[h]
  <2>1. GroupShape /\ group' = [group EXCEPT ![g] = q]
    BY <1>9, <1>10 DEF CInv, IInv, Shape
  <2>. QED  BY <1>2, <2>1, OneGroup, Zenon
<1>16. x \notin S
  BY <1>2, <1>6, <1>13 DEF Own
<1>17. /\ SameRecord(q, more) /\ q.usage = more.usage /\ q.bufferCount = more.bufferCount
       /\ Lengths(q)
  <2>1. CASE ref
    <3>1. q = Used(more, x)
      BY <1>10, <2>1
    <3>2. q.used = more.used \union {x} /\ q.unused = more.unused
      BY <1>8, <3>1, UsedFields, Zenon
    <3>3. /\ SameRecord(q, more)
          /\ q.countUsed = more.countUsed + 1 /\ q.countUnused = more.countUnused
          /\ q.usage = more.usage /\ q.bufferCount = more.bufferCount
      BY <1>8, <3>1, UsedCounts, Zenon
    <3>4. IsFiniteSet(u \union {x}) /\ Cardinality(u \union {x}) = Cardinality(u) + 1
      BY <1>6, <1>16, OneMore
    <3>. QED  BY <1>6, <1>8, <3>2, <3>3, <3>4 DEF Lengths
  <2>2. CASE ~ref
    <3>1. q = [more EXCEPT !.unused = Append(@, x), !.countUnused = @ + 1]
      BY <1>10, <2>2
    <3>2. /\ SameRecord(q, more) /\ q.usage = more.usage /\ q.bufferCount = more.bufferCount
          /\ q.used = u /\ q.unused = Append(s, x)
          /\ q.countUsed = more.countUsed /\ q.countUnused = more.countUnused + 1
      BY <1>8, <3>1, FieldNames DEF SameRecord
    <3>3. Len(Append(s, x)) = Len(s) + 1
      OBVIOUS
    <3>. QED  BY <1>6, <1>8, <3>2, <3>3 DEF Lengths
  <2>. QED  BY <2>1, <2>2
<1>18. RecordOK(q)
  BY <1>6, <1>8, <1>17 DEF RecordOK, SameRecord
<1>19. Totals(q, C, S \union {x})
  <2>1. SameSizes(buffer, C, S)
    BY <1>13, <1>16 DEF SameSizes
  <2>2. /\ C[x].size \in Nat \ {0}
        /\ q.usage = group[g].usage + C[x].size /\ q.bufferCount = group[g].bufferCount + 1
    BY <1>5, <1>8, <1>13, <1>17
  <2>. QED  BY <1>6, <1>16, <2>1, <2>2, TotalsMore
<1>20. Own(C, g) = S \union {x}
  BY <1>6, <1>13 DEF Own
<1>21. OnlyOf(C, g)
  BY <1>13 DEF OnlyOf
<1>22. /\ g \in Groups /\ buffer' = C /\ Counts
       /\ Lengths(q) /\ Totals(q, C, Own(C, g))
  BY <1>2, <1>12, <1>17, <1>19, <1>20 DEF CInv
<1>23. Counts'
  BY <1>15, <1>18, <1>21, <1>22, CountsKept, Zenon
<1>. QED  BY <1>3, <1>14, <1>23

LEMMA RecycleCounts ==
    ASSUME CInv, NEW x \in Buffers, Recycle(x), ~freedInUse
    PROVE  BuffersOK' /\ CallsOK' /\ Counts'
<1>1. /\ buffer[x].ref = 1
      /\ buffer' = [buffer EXCEPT ![x].ref = 0]
      /\ UNCHANGED <<at, want>>
  BY DEF Recycle, LastRef
<1>2. PICK g \in Groups : g = buffer[x].group
  BY <1>1, BuffersGroup DEF CInv, IInv
<1>3. PICK u \in SUBSET Buffers, s \in Seq(Buffers), S \in SUBSET Buffers :
          /\ u = group[g].used /\ s = group[g].unused /\ S = Own(buffer, g)
          /\ DOMAIN group[g] = Fields
          /\ ListsOf(g, u, s, buffer)
          /\ S = u \union ToSet(s) /\ u \intersect ToSet(s) = {}
          /\ RecordOK(group[g]) /\ Totals(group[g], buffer, S)
          /\ IsFiniteSet(u) /\ group[g].countUsed = Cardinality(u)
          /\ group[g].countUnused = Len(s)
  BY GroupCounted, Zenon
<1>4. PICK less : less = Unused(group[g], x)
  OBVIOUS
<1>5. PICK q : q = [less EXCEPT !.unused = Append(@, x), !.countUnused = @ + 1]
  OBVIOUS
<1>6. /\ group'[g] = q
      /\ \A h \in Groups \ {g} : group'[h] = group[h]
  <2>1. group' = [group EXCEPT ![g] =
            [Unused(group[g], x) EXCEPT !.unused = Append(@, x), !.countUnused = @ + 1]]
    BY <1>2, Zenon DEF Recycle
  <2>2. GroupShape /\ group' = [group EXCEPT ![g] = q]
    BY <1>4, <1>5, <2>1 DEF CInv, IInv, Shape
  <2>. QED  BY <2>2, OneGroup, Zenon
<1>7. DOMAIN less = Fields /\ less.used = u \ {x} /\ less.unused = s
  BY <1>3, <1>4, UnusedFields, Zenon
<1>8. /\ SameRecord(less, group[g])
      /\ less.countUsed = group[g].countUsed - 1 /\ less.countUnused = group[g].countUnused
      /\ less.usage = group[g].usage /\ less.bufferCount = group[g].bufferCount
  BY <1>3, <1>4, UnusedCounts, Zenon
<1>9. /\ SameRecord(q, less) /\ q.usage = less.usage /\ q.bufferCount = less.bufferCount
      /\ q.used = less.used /\ q.unused = Append(s, x)
      /\ q.countUsed = less.countUsed /\ q.countUnused = less.countUnused + 1
  BY <1>5, <1>7, FieldNames DEF SameRecord
<1>10. RecordOK(q)
  BY <1>3, <1>8, <1>9 DEF RecordOK, SameRecord
<1>11. x \in u
  <2>1. buffer[x].ref > 0 /\ buffer[x].group = g
    BY <1>1, <1>2
  <2>2. \A b \in Buffers : b \in u <=> buffer[b].group = g /\ buffer[b].ref > 0
    BY <1>3, Zenon DEF ListsOf
  <2>. QED  BY <2>1, <2>2
<1>12. Lengths(q)
  <2>1. IsFiniteSet(u \ {x}) /\ Cardinality(u \ {x}) = Cardinality(u) - 1
    BY <1>3, <1>11, Smaller
  <2>2. Len(Append(s, x)) = Len(s) + 1
    OBVIOUS
  <2>. QED  BY <1>3, <1>7, <1>8, <1>9, <2>1, <2>2 DEF Lengths
<1> DEFINE Rows == [group : Groups \union {NoGroup}, size : Sizes \union {0},
                    ref : 0 .. RefBound, discard : BOOLEAN]
<1>13. /\ buffer \in [Buffers -> Rows]
       /\ \A b \in Buffers : buffer[b].group # NoGroup => buffer[b].size \in Sizes
  BY DEF CInv, BuffersOK, Live
<1>14. PICK C : C = [buffer EXCEPT ![x].ref = 0] /\ buffer' = C
  BY <1>1
<1>15. /\ C \in [Buffers -> Rows]
       /\ \A b \in Buffers : C[b].group = buffer[b].group /\ C[b].size = buffer[b].size
  <2>1. 0 \in 0 .. RefBound
    BY GroupsAssumption
  <2>. QED  BY <1>13, <1>14, <2>1
<1>16. BuffersOK'
  <2>1. /\ buffer' \in [Buffers -> Rows]
        /\ \A b \in Buffers : buffer'[b].group # NoGroup => buffer'[b].size \in Sizes
    BY <1>13, <1>14, <1>15
  <2>. QED  BY <2>1, Zenon DEF BuffersOK, Live
<1>17. Totals(q, C, S)
  <2>1. SameSizes(buffer, C, S)
    BY <1>15 DEF SameSizes
  <2>. QED  BY <1>3, <1>8, <1>9, <2>1, TotalsSame
<1>18. Own(C, g) = S
  BY <1>3, <1>15 DEF Own
<1>19. Totals(q, C, Own(C, g)) /\ Counts /\ buffer' = C
  BY <1>14, <1>17, <1>18 DEF CInv
<1>20. OnlyOf(C, g)
  BY <1>15 DEF OnlyOf
<1> HIDE DEF Rows
<1>21. Counts'
  BY <1>6, <1>10, <1>12, <1>19, <1>20, CountsKept, Zenon
<1>. QED  BY <1>1, <1>16, <1>21, SameSizesAsked

LEMMA GetFindsUnusedCounts ==
    ASSUME CInv, NEW th \in Threads, GetFindsUnused(th), ~freedInUse
    PROVE  BuffersOK' /\ CallsOK' /\ Counts'
<1>1. PICK g : g = want[th].group
  OBVIOUS
<1>2. at[th] # "idle" /\ g \in Groups /\ g # NoGroup
  <2>0. at[th] = "search"
    BY Zenon DEF GetFindsUnused
  <2>1. at[th] # "idle"
    BY <2>0
  <2>2. want[th].group \in Groups \union {NoGroup} /\ want[th].group # NoGroup
    BY <2>1 DEF CInv, IInv, Shape, GroupsKept
  <2>. QED  BY <1>1, <2>1, <2>2
<1>3. CallsOK'
  BY ReturnedSizes, Zenon DEF GetFindsUnused
<1>4. PICK u \in SUBSET Buffers, s \in Seq(Buffers), S \in SUBSET Buffers :
          /\ u = group[g].used /\ s = group[g].unused /\ S = Own(buffer, g)
          /\ DOMAIN group[g] = Fields
          /\ ListsOf(g, u, s, buffer)
          /\ S = u \union ToSet(s) /\ u \intersect ToSet(s) = {}
          /\ RecordOK(group[g]) /\ Totals(group[g], buffer, S)
          /\ IsFiniteSet(u) /\ group[g].countUsed = Cardinality(u)
          /\ group[g].countUnused = Len(s)
  BY <1>2, GroupCounted, Zenon
<1>5. PICK ext \in BOOLEAN : ext <=> group[g].mode = "external"
  BY Zenon
<1>6. PICK k \in 1 .. Len(s) :
          /\ FirstFit(group[g], k, th)
          /\ group' = [group EXCEPT ![g] = Used(Searched(group[g], k, th), s[k])]
          /\ LET gone == IF ext THEN {} ELSE SmallBefore(group[g], k, th)
             IN buffer' = [Freed(gone) EXCEPT ![s[k]].ref = 1]
  BY <1>1, <1>4, <1>5, Zenon DEF GetFindsUnused
<1>7. PICK gone : gone = IF ext THEN {} ELSE SmallBefore(group[g], k, th)
  OBVIOUS
<1>8. PICK x \in Buffers : x = s[k] /\ x \in ToSet(s)
  BY ElementOfSeq DEF ToSet
<1>9. gone \subseteq ToSet(s) /\ x \notin gone
  <2>1. CASE ext
    BY <1>7, <2>1
  <2>2. CASE ~ext
    <3>1. gone = {s[j] : j \in {i \in 1 .. k - 1 : ~Fits(s[i], th)}}
      BY <1>4, <1>7, <2>2, Zenon DEF SmallBefore
    <3>2. \A i, j \in 1 .. Len(s) : s[i] = s[j] => i = j
      BY <1>4, Zenon DEF ListsOf
    <3>3. \A j \in 1 .. k - 1 : j \in 1 .. Len(s) /\ j # k
      BY LenProperties
    <3>4. \A j \in 1 .. k - 1 : s[j] \in ToSet(s) /\ s[j] # x
      BY <1>8, <3>2, <3>3 DEF ToSet
    <3>. QED  BY <3>1, <3>4
  <2>. QED  BY <2>1, <2>2
<1>10. x \in S \ gone /\ x \notin u /\ gone \in SUBSET S
  BY <1>4, <1>8, <1>9
<1> DEFINE Rows == [group : Groups \union {NoGroup}, size : Sizes \union {0},
                    ref : 0 .. RefBound, discard : BOOLEAN]
<1>11. /\ buffer \in [Buffers -> Rows]
       /\ \A b \in Buffers : buffer[b].group # NoGroup => buffer[b].size \in Sizes
  BY DEF CInv, BuffersOK, Live
<1>12. buffer[x].group = g /\ buffer[x] \in Rows
  BY <1>4, <1>10, <1>11 DEF Own
<1>13. PICK row : row = [buffer[x] EXCEPT !.ref = 1]
  OBVIOUS
<1>14. /\ row \in Rows /\ row.group = g /\ row.size = buffer[x].size
       /\ row \in [group : Groups \union {NoGroup}, size : Sizes,
                   ref : 0 .. RefBound, discard : BOOLEAN]
  <2>1. 1 \in 0 .. RefBound
    BY GroupsAssumption
  <2>2. buffer[x].size \in Sizes
    BY <1>2, <1>11, <1>12
  <2>. QED  BY <1>12, <1>13, <2>1, <2>2
<1> HIDE DEF Rows
<1>15. PICK C : /\ C = [b \in Buffers |-> IF b = x THEN row ELSE
                                          IF b \in gone THEN NoBuffer ELSE buffer[b]]
                /\ buffer' = C
  <2>1. PICK table : table = Freed(gone)
    OBVIOUS
  <2>2. table = [b \in Buffers |-> IF b \in gone THEN NoBuffer ELSE buffer[b]]
    BY <2>1 DEF Freed
  <2>3. buffer' = [table EXCEPT ![x].ref = 1]
    BY <1>6, <1>7, <1>8, <2>1, Zenon
  <2>4. table[x] = buffer[x]
    BY <1>9, <2>2
  <2>5. buffer' = [table EXCEPT ![x] = row]
    BY <1>13, <2>3, <2>4
  <2>. QED  BY <2>2, <2>5
<1>16. /\ C[x] = row /\ NoBuffer.group = NoGroup
       /\ \A b \in Buffers \ {x} : C[b] = IF b \in gone THEN NoBuffer ELSE buffer[b]
  BY <1>15 DEF NoBuffer
<1>17. BuffersOK'
  <2>1. C = [b \in Buffers |-> C[b]]
    BY <1>15
  <2>2. \A b \in Buffers : b = x \/ C[b] = buffer[b] \/ C[b] = NoBuffer
    BY <1>16
  <2>3. C[x] \in [group : Groups \union {NoGroup}, size : Sizes,
                  ref : 0 .. RefBound, discard : BOOLEAN]
    BY <1>14, <1>16
  <2>. QED  BY <1>15, <2>1, <2>2, <2>3, OneRow
<1>18. \A b \in gone : b \in Buffers /\ buffer[b].group = g /\ C[b].group = NoGroup
  BY <1>4, <1>10, <1>16 DEF Own
<1>19. \A b \in Buffers : b \notin gone => C[b].group = buffer[b].group /\ C[b].size = buffer[b].size
  BY <1>12, <1>14, <1>16
<1>20. Own(C, g) = S \ gone
  BY <1>2, <1>4, <1>18, <1>19 DEF Own
<1>21. PICK y : y = Searched(group[g], k, th)
  OBVIOUS
<1>22. /\ DOMAIN y = Fields /\ y.used = u
       /\ y.unused = IF ext THEN RemoveAt(s, k) ELSE SubSeq(s, k + 1, Len(s))
  <2>1. /\ DOMAIN y = Fields
        /\ y.used = group[g].used
        /\ y.unused = IF group[g].mode = "external" THEN RemoveAt(group[g].unused, k)
                      ELSE SubSeq(group[g].unused, k + 1, Len(group[g].unused))
    <3>1. DOMAIN group[g] = Fields
      BY <1>4
    <3>. QED  BY <1>21, <3>1, SearchedFields
  <2>. QED  BY <1>4, <1>5, <2>1, Zenon
<1>23. /\ SameRecord(y, group[g])
       /\ y.countUsed = group[g].countUsed
       /\ ext => /\ y.countUnused = group[g].countUnused - 1
                 /\ y.usage = group[g].usage /\ y.bufferCount = group[g].bufferCount
       /\ ~ext => /\ y.countUnused = group[g].countUnused - k
                  /\ y.usage = group[g].usage - Bytes(SmallBefore(group[g], k, th))
                  /\ y.bufferCount = group[g].bufferCount
                                     - Cardinality(SmallBefore(group[g], k, th))
  <2>1. DOMAIN group[g] = Fields
    BY <1>4
  <2>. QED  BY <1>5, <1>21, <2>1, SearchedCounts
<1>24. y.countUnused = Len(y.unused)
  <2>1. CASE ext
    <3>1. Len(RemoveAt(s, k)) = Len(s) - 1
      BY RemoveAtProperties, Zenon
    <3>. QED  BY <1>4, <1>22, <1>23, <2>1, <3>1
  <2>2. CASE ~ext
    <3>1. Len(SubSeq(s, k + 1, Len(s))) = Len(s) - k
      BY LenProperties, SubSeqProperties
    <3>. QED  BY <1>4, <1>22, <1>23, <2>2, <3>1
  <2>. QED  BY <2>1, <2>2
<1>25. PICK q : q = Used(y, x)
  OBVIOUS
<1>26. /\ group'[g] = q
       /\ \A h \in Groups \ {g} : group'[h] = group[h]
  <2>1. GroupShape /\ group' = [group EXCEPT ![g] = q]
    BY <1>6, <1>8, <1>21, <1>25 DEF CInv, IInv, Shape
  <2>. QED  BY <1>2, <2>1, OneGroup, Zenon
<1>27. q.used = u \union {x} /\ q.unused = y.unused
  BY <1>22, <1>25, UsedFields, Zenon
<1>28. /\ SameRecord(q, y)
       /\ q.countUsed = y.countUsed + 1 /\ q.countUnused = y.countUnused
       /\ q.usage = y.usage /\ q.bufferCount = y.bufferCount
  BY <1>22, <1>25, UsedCounts, Zenon
<1>29. RecordOK(q)
  BY <1>4, <1>23, <1>28 DEF RecordOK, SameRecord
<1>30. Lengths(q)
  <2>1. IsFiniteSet(u \union {x}) /\ Cardinality(u \union {x}) = Cardinality(u) + 1
    BY <1>4, <1>10, OneMore
  <2>. QED  BY <1>4, <1>23, <1>24, <1>27, <1>28, <2>1 DEF Lengths
<1>31. SameSizes(buffer, C, S \ gone)
  BY <1>4, <1>19 DEF SameSizes
<1>32. Totals(q, C, S \ gone)
  <2>1. CASE ext
    <3>1. S \ gone = S
      BY <1>7, <2>1
    <3>2. q.usage = group[g].usage /\ q.bufferCount = group[g].bufferCount
      BY <1>23, <1>28, <2>1
    <3>3. Totals(group[g], buffer, S) /\ SameSizes(buffer, C, S)
      BY <1>4, <1>31, <3>1
    <3>. QED  BY <3>1, <3>2, <3>3, TotalsSame
  <2>2. CASE ~ext
    <3>1. /\ q.usage = group[g].usage - Bytes(gone)
          /\ q.bufferCount = group[g].bufferCount - Cardinality(gone)
      BY <1>7, <1>23, <1>28, <2>2
    <3>. QED  BY <1>4, <1>10, <1>31, <3>1, TotalsLess
  <2>. QED  BY <2>1, <2>2
<1>33. OnlyOf(C, g)
  BY <1>18, <1>19 DEF OnlyOf
<1>34. /\ g \in Groups /\ buffer' = C /\ Counts
       /\ Totals(q, C, Own(C, g))
  BY <1>2, <1>15, <1>20, <1>32 DEF CInv
<1>35. Counts'
  BY <1>26, <1>29, <1>30, <1>33, <1>34, CountsKept, Zenon
<1>. QED  BY <1>3, <1>17, <1>35, Zenon

(* With the last bytes of an orphan go its last buffer, and the group: no  *)
(* buffer is left without one.                                             *)
LEMMA DiscardCounts ==
    ASSUME CInv, NEW x \in Buffers, Discard(x), ~freedInUse
    PROVE  BuffersOK' /\ CallsOK' /\ Counts' /\ OnLists'
<1>1. /\ buffer[x].ref = 1
      /\ buffer' = Freed({x})
      /\ UNCHANGED <<at, want>>
  BY DEF Discard, LastRef
<1>2. PICK g \in Groups : g = buffer[x].group /\ Exists(g)
  BY <1>1, BuffersGroup DEF CInv, IInv
<1>3. PICK u \in SUBSET Buffers, s \in Seq(Buffers), S \in SUBSET Buffers :
          /\ u = group[g].used /\ s = group[g].unused /\ S = Own(buffer, g)
          /\ DOMAIN group[g] = Fields
          /\ ListsOf(g, u, s, buffer)
          /\ S = u \union ToSet(s) /\ u \intersect ToSet(s) = {}
          /\ RecordOK(group[g]) /\ Totals(group[g], buffer, S)
          /\ IsFiniteSet(u) /\ group[g].countUsed = Cardinality(u)
          /\ group[g].countUnused = Len(s)
  BY GroupCounted, Zenon
<1>4. x \in u /\ {x} \in SUBSET S
  <2>1. buffer[x].ref > 0 /\ buffer[x].group = g
    BY <1>1, <1>2
  <2>2. \A b \in Buffers : b \in u <=> buffer[b].group = g /\ buffer[b].ref > 0
    BY <1>3, Zenon DEF ListsOf
  <2>. QED  BY <1>3, <2>1, <2>2
<1>5. BuffersOK' /\ CallsOK'
  BY <1>1, FreedSizes, SameSizesAsked
<1>6. PICK C : /\ buffer' = C
               /\ \A b \in Buffers : b \in {x} => C[b].group = NoGroup
               /\ \A b \in Buffers : b \notin {x} => C[b] = buffer[b]
  BY <1>1, FreedSizes
<1>7. g # NoGroup
  BY GroupsAssumption
<1>8. Own(C, g) = S \ {x}
  BY <1>2, <1>3, <1>6, <1>7 DEF Own
<1>9. PICK r : r = Without(group[g], {x})
  OBVIOUS
<1>10. /\ SameRecord(r, group[g])
       /\ r.countUsed = group[g].countUsed /\ r.countUnused = group[g].countUnused
       /\ r.usage = group[g].usage - Bytes({x})
       /\ r.bufferCount = group[g].bufferCount - Cardinality({x})
  BY <1>3, <1>9, WithoutCounts, Zenon
<1>11. DOMAIN r = Fields /\ r.used = u /\ r.unused = s
  BY <1>3, <1>9, WithoutFields, Zenon
<1>12. Totals(r, C, S \ {x})
  <2>1. SameSizes(buffer, C, S \ {x})
    BY <1>3, <1>6 DEF SameSizes
  <2>. QED  BY <1>3, <1>4, <1>10, <2>1, TotalsLess
<1>13. OnlyOf(C, g)
  BY <1>2, <1>6 DEF OnlyOf
<1>14. GroupShape /\ Counts /\ OnLists /\ IInv
  BY DEF CInv, IInv, Shape
<1>15. CASE r.usage = 0 /\ group' = [group EXCEPT ![g] = Nowhere]
  <2>1. /\ group'[g] = Nowhere
        /\ \A h \in Groups \ {g} : group'[h] = group[h]
        /\ DOMAIN group' = Groups
    BY <1>14, <1>15, OneGroup, Zenon
  <2>2. Own(C, g) = {}
    BY <1>8, <1>12, <1>15, NoBytes
  <2>3. /\ Nowhere.used = {} /\ Nowhere.unused = <<>>
        /\ Nowhere.countUsed = 0 /\ Nowhere.countUnused = 0
        /\ Nowhere.usage = 0 /\ Nowhere.bufferCount = 0 /\ RecordOK(Nowhere)
    BY DEF Nowhere, RecordOK, Modes
  <2>4. Lengths(Nowhere)
    BY <2>3, FS_EmptySet DEF Lengths
  <2>5. Totals(Nowhere, C, Own(C, g))
    BY <2>2, <2>3, TotalsNone
  <2>6. Counts'
    BY <1>6, <1>13, <1>14, <2>1, <2>3, <2>4, <2>5, CountsKept
  <2>7. buffer \in Tables /\ buffer' \in Tables
    <3>1. buffer \in Tables
      BY DEF CInv, IInv, Shape
    <3>. QED  BY <1>1, <3>1, FreedTable
  <2>8. ListsOf(g, {}, <<>>, buffer')
    <3>1. \A b \in Buffers : C[b].group # g
      BY <2>2 DEF Own
    <3>2. \A b \in Buffers : buffer'[b].group # g
      BY <1>6, <3>1
    <3>3. Len(<<>>) = 0 /\ 1 .. 0 = {}
      OBVIOUS
    <3>. QED  BY <3>2, <3>3 DEF ListsOf
  <2>9. \A h \in Groups \ {g} : \A b \in Buffers :
            buffer[b].group = h \/ buffer'[b].group = h =>
                buffer'[b].group = buffer[b].group /\ (buffer'[b].ref = 0 <=> buffer[b].ref = 0)
    BY <1>2, <1>6, GroupsAssumption
  <2>10. /\ {} \in SUBSET Buffers /\ <<>> \in Seq(Buffers)
         /\ DOMAIN group'[g] = Fields /\ group'[g].used = {} /\ group'[g].unused = <<>>
    BY <2>1, <2>3 DEF Fields
  <2>11. OnLists'
    BY <1>14, <2>1, <2>7, <2>8, <2>9, <2>10, OnListsKept, Zenon
  <2>. QED  BY <1>5, <2>6, <2>11
<1>16. CASE group' = [group EXCEPT ![g] = Unused(r, x)] /\ UNCHANGED freedInUse
  <2>1. PICK q : q = Unused(r, x)
    OBVIOUS
  <2>2. /\ group'[g] = q
        /\ \A h \in Groups \ {g} : group'[h] = group[h]
    <3>1. group' = [group EXCEPT ![g] = q]
      BY <1>16, <2>1
    <3>. QED  BY <1>14, <3>1, OneGroup, Zenon
  <2>3. q.used = u \ {x} /\ q.unused = s
    BY <1>11, <2>1, UnusedFields, Zenon
  <2>4. /\ SameRecord(q, r)
        /\ q.countUsed = r.countUsed - 1 /\ q.countUnused = r.countUnused
        /\ q.usage = r.usage /\ q.bufferCount = r.bufferCount
    BY <1>11, <2>1, UnusedCounts, Zenon
  <2>5. RecordOK(q)
    BY <1>3, <1>10, <2>4 DEF RecordOK, SameRecord
  <2>6. Lengths(q)
    <3>1. IsFiniteSet(u \ {x}) /\ Cardinality(u \ {x}) = Cardinality(u) - 1
      BY <1>3, <1>4, Smaller
    <3>. QED  BY <1>3, <1>10, <2>3, <2>4, <3>1 DEF Lengths
  <2>7. Totals(q, C, Own(C, g))
    <3>1. SameSizes(C, C, S \ {x})
      BY DEF SameSizes
    <3>2. Totals(q, C, S \ {x})
      BY <1>12, <2>4, <3>1, TotalsSame
    <3>. QED  BY <1>8, <3>2
  <2>8. Counts'
    BY <1>6, <1>13, <1>14, <2>2, <2>5, <2>6, <2>7, CountsKept
  <2>9. OnLists'
    <3>1. IInv' /\ ~freedInUse'
      BY <1>14, <1>16, DiscardStep
    <3>. QED  BY <3>1 DEF IInv
  <2>. QED  BY <1>5, <2>8, <2>9
<1>. QED  BY <1>2, <1>9, <1>15, <1>16, Zenon DEF Discard

(* A list without repetitions is as long as the set of its entries.        *)
LEMMA DistinctEntries ==
    ASSUME NEW S, NEW s \in Seq(S), \A i, j \in 1 .. Len(s) : s[i] = s[j] => i = j
    PROVE  Cardinality(ToSet(s)) = Len(s)
<1>1. Len(s) \in Nat /\ DOMAIN s = 1 .. Len(s)
  OBVIOUS
<1>2. PICK T : T = ToSet(s)
  OBVIOUS
<1>3. /\ \A i \in 1 .. Len(s) : s[i] \in T
      /\ \A t \in T : \E i \in 1 .. Len(s) : s[i] = t
  BY <1>1, <1>2 DEF ToSet
<1>4. s \in [1 .. Len(s) -> T]
  BY <1>1, <1>3
<1>5. s \in Bijection(1 .. Len(s), T)
  BY <1>3, <1>4, Zenon DEF Bijection, Injection, Surjection, IsInjective
<1>6. ExistsBijection(1 .. Len(s), T)
  BY <1>5 DEF ExistsBijection
<1>. QED  BY <1>1, <1>2, <1>6, FS_CountingElements

LEMMA InitCInv ==
    ASSUME Init
    PROVE  CInv
<1>1. IInv /\ OnLists
  <2>1. IInv /\ ~freedInUse
    BY InitIInv DEF Init
  <2>. QED  BY <2>1 DEF IInv
<1>2. BuffersOK
  <2>1. NoBuffer \in [group : Groups \union {NoGroup}, size : Sizes \union {0},
                      ref : 0 .. RefBound, discard : BOOLEAN]
    BY GroupsAssumption DEF NoBuffer
  <2>2. NoBuffer.group = NoGroup
    BY DEF NoBuffer
  <2>. QED  BY <2>1, <2>2 DEF Init, BuffersOK, Live
<1>3. CallsOK
  BY DEF Init, CallsOK, NoWant
<1>4. ASSUME NEW g \in Groups
      PROVE  RecordOK(group[g]) /\ Lengths(group[g]) /\ Totals(group[g], buffer, Own(buffer, g))
  <2>1. group[g] = Nowhere /\ \A b \in Buffers : buffer[b].group = NoGroup
    BY DEF Init, NoBuffer
  <2>2. Own(buffer, g) = {}
    BY <2>1, GroupsAssumption DEF Own
  <2>3. /\ Nowhere.used = {} /\ Nowhere.unused = <<>>
        /\ Nowhere.countUsed = 0 /\ Nowhere.countUnused = 0
        /\ Nowhere.usage = 0 /\ Nowhere.bufferCount = 0 /\ RecordOK(Nowhere)
    BY DEF Nowhere, RecordOK, Modes
  <2>4. Lengths(Nowhere)
    BY <2>3, FS_EmptySet DEF Lengths
  <2>5. Totals(Nowhere, buffer, {})
    BY <2>3, TotalsNone
  <2>. QED  BY <2>1, <2>2, <2>3, <2>4, <2>5
<1>5. Counts
  BY <1>4, Zenon DEF Counts
<1>. QED  BY <1>1, <1>2, <1>3, <1>5 DEF CInv

LEMMA NextCInv ==
    ASSUME CInv, [Next]_vars
    PROVE  CInv'
<1>1. IInv'
  BY NextIInv DEF CInv
<1>2. SUFFICES BuffersOK' /\ CallsOK' /\ Counts' /\ OnLists'
  BY <1>1 DEF CInv
<1>3. UNCHANGED freedInUse /\ ~freedInUse => OnLists'
  BY <1>1 DEF IInv
<1>4. CASE Next
  <2>1. ~freedInUse
    BY <1>4 DEF Next
  <2>2. CASE GroupGet \/ LimitConfig \/ GroupClear \/ GroupPut \/ RefInc \/ RefDec
    <3>1. UNCHANGED freedInUse
      BY <2>2, Zenon DEF GroupGet, LimitConfig, GroupClear, GroupPut, RefInc, RefDec
    <3>2. BuffersOK' /\ CallsOK' /\ Counts'
      BY <2>2, GroupGetCounts, LimitConfigCounts, GroupClearCounts, GroupPutCounts, RefCounts,
         Zenon
    <3>. QED  BY <1>3, <2>1, <3>1, <3>2
  <2>3. ASSUME NEW th \in Threads, Call(th)
        PROVE  BuffersOK' /\ CallsOK' /\ Counts' /\ OnLists'
    <3>1. UNCHANGED freedInUse
      BY <2>3, Zenon DEF Call, CallGet, CallImport, CallGetMisc, CallImportMisc,
                         GetFindsUnused, GetFindsNone, Create, CreateFails
    <3>2. BuffersOK' /\ CallsOK' /\ Counts'
      BY <2>1, <2>3, CallCounts, CallMiscCounts, GetFindsUnusedCounts, GetFindsNoneCounts,
         CreateCounts, CreateFailsCounts, Zenon DEF Call
    <3>. QED  BY <1>3, <2>1, <3>1, <3>2
  <2>4. ASSUME NEW b \in Buffers, Recycle(b)
        PROVE  BuffersOK' /\ CallsOK' /\ Counts' /\ OnLists'
    <3>1. UNCHANGED freedInUse
      BY <2>4 DEF Recycle
    <3>2. BuffersOK' /\ CallsOK' /\ Counts'
      BY <2>1, <2>4, RecycleCounts
    <3>. QED  BY <1>3, <2>1, <3>1, <3>2
  <2>5. ASSUME NEW b \in Buffers, Discard(b)
        PROVE  BuffersOK' /\ CallsOK' /\ Counts' /\ OnLists'
    BY <2>1, <2>5, DiscardCounts
  <2>. QED  BY <1>4, <2>2, <2>3, <2>4, <2>5, Zenon DEF Next
<1>5. CASE UNCHANGED vars
  <2>1. UNCHANGED buffer /\ UNCHANGED <<group, buffer>> /\ UNCHANGED <<at, want>>
    BY <1>5 DEF vars
  <2>2. BuffersOK' /\ CallsOK' /\ Counts'
    BY <2>1, SameBuffers, SameSizesAsked, SameCounts
  <2>3. OnLists'
    BY <2>1, Zenon DEF CInv, OnLists, Exists
  <2>. QED  BY <2>2, <2>3
<1>. QED  BY <1>4, <1>5

(* The counters of a group are those of its lists and its buffers, also    *)
(* when the group is freed with its last buffer.                           *)
THEOREM BuffersCounted == Spec => []CInv
<1>1. Init => CInv
  BY InitCInv
<1>2. CInv /\ [Next]_vars => CInv'
  BY NextCInv
<1>. QED  BY <1>1, <1>2, PTL DEF Spec

(* Every field of a group and of a buffer keeps its type; no counter       *)
(* (usage, buffer_count, count_used, count_unused) goes below zero.        *)
THEOREM BuffersTypeOK == Spec => []TypeOK
<1>1. CInv => TypeOK
  <2> SUFFICES ASSUME CInv PROVE TypeOK
    OBVIOUS
  <2>1. ASSUME NEW g \in Groups
        PROVE  /\ group[g].place \in {"none", "listed", "orphan"}
               /\ group[g].mode \in Modes /\ group[g].type \in Types \union {Nowhere.type}
               /\ group[g].limit \in Limits \union {Nowhere.limit} /\ group[g].misc \in BOOLEAN
               /\ group[g].usage \in Nat /\ group[g].bufferCount \in Nat
               /\ group[g].countUsed \in Nat /\ group[g].countUnused \in Nat
               /\ group[g].used \subseteq Buffers
               /\ group[g].unused \in Seq(Buffers)
    <3>1. PICK u \in SUBSET Buffers, s \in Seq(Buffers), S \in SUBSET Buffers :
              /\ u = group[g].used /\ s = group[g].unused /\ S = Own(buffer, g)
              /\ DOMAIN group[g] = Fields
              /\ ListsOf(g, u, s, buffer)
              /\ S = u \union ToSet(s) /\ u \intersect ToSet(s) = {}
              /\ RecordOK(group[g]) /\ Totals(group[g], buffer, S)
              /\ IsFiniteSet(u) /\ group[g].countUsed = Cardinality(u)
              /\ group[g].countUnused = Len(s)
      BY GroupCounted, Zenon
    <3>2. group[g].countUsed \in Nat /\ group[g].countUnused \in Nat
      BY <3>1, FS_CardinalityType
    <3>3. IsFiniteSet(S) /\ \A b \in S : buffer[b].size \in Nat
      BY <3>1 DEF Totals
    <3>4. group[g].usage \in Nat /\ group[g].bufferCount \in Nat
      <4>1. SizeSum(buffer, S) \in Nat /\ Cardinality(S) \in Nat
        BY <3>3, SumNumber, FS_CardinalityType
      <4>. QED  BY <3>1, <4>1 DEF Totals
    <3>. QED  BY <3>1, <3>2, <3>4 DEF RecordOK
  <2>2. /\ buffer \in [Buffers -> [group : Groups \union {NoGroup}, size : Sizes \union {0},
                                   ref : 0 .. RefBound, discard : BOOLEAN]]
        /\ misc \in [Modes -> [Types -> Groups \union {NoGroup}]]
        /\ at \in [Threads -> {"idle", "search", "create"}]
        /\ freedInUse \in BOOLEAN
        /\ cleared \subseteq Buffers
    BY Zenon DEF CInv, BuffersOK, IInv, Shape
  <2>3. want \in [Threads -> [group : Groups \union {NoGroup}, size : Sizes \union {0},
                              ref : BOOLEAN]]
    <3>1. /\ want \in [Threads -> [group : Groups \union {NoGroup}, size : Nat, ref : BOOLEAN]]
          /\ \A th \in Threads : want[th].size \in Sizes \union {0}
      BY Zenon DEF CInv, CallsOK, IInv, Shape
    <3>. QED  BY <3>1
  <2>. QED  BY <2>1, <2>2, <2>3, Zenon DEF TypeOK
<1>. QED  BY <1>1, BuffersCounted, PTL

(* What mpp_buffer_group_unused and the limits look at is what the lists   *)
(* hold, whatever the callers do: mpp_buffer_get, put and clear change     *)
(* lists and counters together.                                            *)
THEOREM BuffersListsAndCounters == Spec => []ListsAndCounters
<1>1. CInv => ListsAndCounters
  <2> SUFFICES ASSUME CInv PROVE ListsAndCounters
    OBVIOUS
  <2>1. ASSUME NEW g \in Groups
        PROVE  LET r   == group[g]
                   own == {b \in Buffers : buffer[b].group = g}
               IN /\ r.used = {b \in own : buffer[b].ref > 0}
                  /\ ToSet(r.unused) = own \ r.used
                  /\ r.countUnused = Len(r.unused) /\ r.countUnused = Cardinality(own \ r.used)
                  /\ r.countUsed = Cardinality(r.used)
                  /\ r.bufferCount = Cardinality(own)
                  /\ r.usage = Bytes(own)
    <3>1. PICK u \in SUBSET Buffers, s \in Seq(Buffers), S \in SUBSET Buffers :
              /\ u = group[g].used /\ s = group[g].unused /\ S = Own(buffer, g)
              /\ DOMAIN group[g] = Fields
              /\ ListsOf(g, u, s, buffer)
              /\ S = u \union ToSet(s) /\ u \intersect ToSet(s) = {}
              /\ RecordOK(group[g]) /\ Totals(group[g], buffer, S)
              /\ IsFiniteSet(u) /\ group[g].countUsed = Cardinality(u)
              /\ group[g].countUnused = Len(s)
      BY GroupCounted, Zenon
    <3>2. S = {b \in Buffers : buffer[b].group = g}
      BY <3>1 DEF Own
    <3>3. u = {b \in S : buffer[b].ref > 0}
      <4>1. \A b \in Buffers : b \in u <=> buffer[b].group = g /\ buffer[b].ref > 0
        BY <3>1, Zenon DEF ListsOf
      <4>. QED  BY <3>2, <4>1
    <3>4. ToSet(s) = S \ u
      BY <3>1
    <3>5. Cardinality(S \ u) = Len(s)
      <4>1. \A i, j \in 1 .. Len(s) : s[i] = s[j] => i = j
        BY <3>1, Zenon DEF ListsOf
      <4>2. Cardinality(ToSet(s)) = Len(s)
        BY <4>1, DistinctEntries
      <4>. QED  BY <3>4, <4>2
    <3>6. group[g].bufferCount = Cardinality(S) /\ group[g].usage = Bytes(S)
      BY <3>1, BytesIsSum DEF Totals
    <3>7. /\ group[g].used = {b \in S : buffer[b].ref > 0}
          /\ ToSet(group[g].unused) = S \ group[g].used
          /\ group[g].countUnused = Len(group[g].unused)
          /\ group[g].countUnused = Cardinality(S \ group[g].used)
          /\ group[g].countUsed = Cardinality(group[g].used)
      BY <3>1, <3>3, <3>4, <3>5
    <3>. QED  BY <3>2, <3>6, <3>7
  <2>. QED  BY <2>1, Zenon DEF ListsAndCounters
<1>. QED  BY <1>1, BuffersCounted, PTL
=============================================================================
