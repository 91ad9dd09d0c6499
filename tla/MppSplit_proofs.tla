-------------------------- MODULE MppSplit_proofs --------------------------
(***************************************************************************)
(* Proofs about MppSplit: however a stream is cut into packets, the parser *)
(* is handed its pictures, for every stream of every codec.                *)
(***************************************************************************)
EXTENDS MppSplit, SequenceTheorems, FiniteSetTheorems, WellFoundedInduction, TLAPS

(***************************************************************************)
(* Parts of a sequence: those from the byte behind a up to b.              *)
(***************************************************************************)
Between(s, a, b) == SubSeq(s, a + 1, b)

LEMMA Cut ==
    ASSUME NEW S, NEW s \in Seq(S), NEW a \in Nat, NEW b \in Nat, a <= b, b <= Len(s)
    PROVE  /\ Between(s, a, b) \in Seq(S)
           /\ Len(Between(s, a, b)) = b - a
           /\ \A i \in 1 .. b - a : Between(s, a, b)[i] = s[a + i]
BY DEF Between

LEMMA CutOfCut ==
    ASSUME NEW S, NEW s \in Seq(S), NEW a \in Nat, NEW b \in Nat, a <= b, b <= Len(s),
           NEW c \in Nat, NEW d \in Nat, c <= d, d <= b - a
    PROVE  Between(Between(s, a, b), c, d) = Between(s, a + c, a + d)
BY DEF Between

LEMMA CutsJoin ==
    ASSUME NEW S, NEW s \in Seq(S), NEW a \in Nat, NEW b \in Nat, NEW c \in Nat,
           a <= b, b <= c, c <= Len(s)
    PROVE  Between(s, a, b) \o Between(s, b, c) = Between(s, a, c)
BY DEF Between

LEMMA CutAll ==
    ASSUME NEW S, NEW s \in Seq(S)
    PROVE  /\ Between(s, 0, Len(s)) = s
           /\ \A a \in Nat : Between(s, a, a) = <<>>
BY DEF Between

(* What is left of a part, and a sequence in its place.                    *)
LEMMA CutAfter ==
    ASSUME NEW S, NEW s \in Seq(S), NEW a \in Nat, NEW b \in Nat, a <= b, b <= Len(s),
           NEW c \in Nat, c <= b - a
    PROVE  After(Between(s, a, b), c) = Between(s, a + c, b)
BY DEF Between, After

LEMMA CutEmpty ==
    ASSUME NEW S, NEW s \in Seq(S), NEW a \in Nat, NEW b \in Nat, a <= b, b <= Len(s)
    PROVE  Between(s, a, b) = <<>> <=> a = b
BY DEF Between
-----------------------------------------------------------------------------
LEMMA TheOnly == \A x : The({x}) = x
BY DEF The

LEMMA MinIs ==
    ASSUME NEW K \in SUBSET Int, NEW x \in K, \A y \in K : x <= y
    PROVE  Min(K) = x
<1>1. \E z \in K : \A y \in K : z <= y
  OBVIOUS
<1>2. Min(K) \in K /\ \A y \in K : Min(K) <= y
  BY <1>1 DEF Min
<1>3. Min(K) \in Int /\ x \in Int /\ x <= Min(K) /\ Min(K) <= x
  BY <1>2
<1>. QED  BY <1>3

LEMMA FirstIs ==
    ASSUME NEW K \in SUBSET Int, NEW none
    PROVE  /\ K = {} => First(K, none) = none
           /\ \A x \in K : (\A y \in K : x <= y) => First(K, none) = x
BY MinIs DEF First
-----------------------------------------------------------------------------
(***************************************************************************)
(* The two loops of a split over a part of the stream: begins and ends are *)
(* the places of the whole stream at which a picture can be seen to begin  *)
(* and to be over, v is where the one that is looked for begins, t where   *)
(* it is over.                                                             *)
(***************************************************************************)
InPart(places, q, n) == {i \in 1 .. n : q + i \in places}

LEMMA ScanAt ==
    ASSUME NEW begins \in SUBSET Int, NEW ends_ \in SUBSET Int, NEW q \in Nat, NEW n \in Nat,
           NEW v \in begins, NEW t \in Int, v < t, q < t, t <= q + n => t \in ends_,
           \A i \in begins : i <= q \/ v <= i, \A i \in ends_ : i <= v \/ t <= i,
           NEW found, found <=> v <= q
    PROVE  LET scan == Scan(InPart(begins, q, n), InPart(ends_, q, n), found, n)
           IN /\ scan.to = IF t <= q + n THEN t - q ELSE n + 1
              /\ scan.from <= n <=> v <= q + n
<1> DEFINE LB == InPart(begins, q, n)
           LE == InPart(ends_, q, n)
           from == IF found THEN 0 ELSE First(LB, n + 1)
           to == First({i \in LE : i > from}, n + 1)
<1>1. from = IF v <= q THEN 0 ELSE IF v <= q + n THEN v - q ELSE n + 1
  <2>1. CASE v <= q
    BY <2>1
  <2>2. CASE v > q /\ v <= q + n
    <3>1. v - q \in LB /\ (\A y \in LB : v - q <= y) /\ LB \in SUBSET Int
      BY <2>2 DEF InPart
    <3>. QED  BY <3>1, <2>2, FirstIs
  <2>3. CASE v > q + n
    <3>1. LB = {}
      BY <2>3 DEF InPart
    <3>. QED  BY <3>1, <2>3, FirstIs
  <2>. QED  BY <2>1, <2>2, <2>3
<1>2. from \in Int
  BY <1>1
<1>3. \A i \in Int : i \in LE /\ i > from <=> i \in 1 .. n /\ q + i \in ends_ /\ i > from
  BY DEF InPart
<1>4. to = IF t <= q + n THEN t - q ELSE n + 1
  <2> HIDE DEF from
  <2>1. CASE t <= q + n
    <3>1. t - q \in LE /\ t - q > from
      BY <1>1, <2>1 DEF InPart
    <3>2. \A y \in {i \in LE : i > from} : t - q <= y
      <4> SUFFICES ASSUME NEW y \in LE, y > from PROVE t - q <= y
        OBVIOUS
      <4>1. y \in 1 .. n /\ q + y \in ends_
        BY DEF InPart
      <4>2. q + y <= v \/ t <= q + y
        BY <4>1
      <4>. QED  BY <1>1, <2>1, <4>1, <4>2
    <3>3. {i \in LE : i > from} \in SUBSET Int
      BY DEF InPart
    <3>4. t - q \in {i \in LE : i > from}
      BY <3>1
    <3>. QED  BY <3>2, <3>3, <3>4, <2>1, FirstIs
  <2>2. CASE ~(t <= q + n)
    <3>1. ASSUME NEW y \in LE, y > from PROVE FALSE
      <4>1. y \in 1 .. n /\ q + y \in ends_
        BY DEF InPart
      <4>2. q + y <= v \/ t <= q + y
        BY <4>1
      <4>. QED  BY <1>1, <2>2, <3>1, <4>1, <4>2
    <3>2. {i \in LE : i > from} = {}
      BY <3>1
    <3>. QED  BY <3>2, <2>2, FirstIs
  <2>. QED  BY <2>1, <2>2
<1> HIDE DEF from, to
<1>5. Scan(LB, LE, found, n) = [from |-> from, to |-> to]
  <2>1. {[from |-> x, to |-> First({i \in LE : i > x}, n + 1)] : x \in {from}} =
           {[from |-> from, to |-> First({i \in LE : i > from}, n + 1)]}
    OBVIOUS
  <2>. QED  BY <2>1, TheOnly DEF Scan, from, to
<1>. QED  BY <1>1, <1>4, <1>5
-----------------------------------------------------------------------------
(***************************************************************************)
(* What the assumption says of a stream.                                   *)
(***************************************************************************)
LEMMA StreamFacts ==
    ASSUME NEW s \in Streams
    PROVE  /\ s.codec \in SplitCodecs
           /\ s.bytes \in Seq(Bytes) /\ Len(s.bytes) \in Nat \ {0}
           /\ s.packets \subseteq (0 .. Len(s.bytes)) \X (0 .. Len(s.bytes))
           /\ \A p \in s.packets : p[1] < p[2]
           /\ s.resets \in Nat
           /\ CutWell(s)
BY StreamsAssumption, EmptySeq

LEMMA PlacesFacts ==
    ASSUME NEW s \in Streams, PicturesLie(s)
    PROVE  /\ Len(s.places) \in Nat \ {0} /\ DOMAIN s.places = 1 .. Len(s.places)
           /\ Len(s.pictures) = Len(s.places) /\ s.pictures \in Seq(Seq(Bytes))
           /\ \A j \in 1 .. Len(s.places) :
                 /\ s.places[j][1] \in Nat /\ s.places[j][2] \in Nat
                 /\ s.places[j][1] < s.places[j][2] /\ s.places[j][2] <= Len(s.bytes)
                 /\ s.pictures[j] = Between(s.bytes, s.places[j][1], s.places[j][2])
                 /\ s.pictures[j] \in Seq(Bytes) /\ s.pictures[j] # <<>>
           /\ \A i, j \in 1 .. Len(s.places) : i < j => s.places[i][2] <= s.places[j][1]
<1> DEFINE m == Len(s.places)
           N == Len(s.bytes)
<1>1. s.bytes \in Seq(Bytes) /\ N \in Nat
  BY StreamFacts
<1>2. s.places \in Seq((0 .. N) \X (0 .. N)) /\ s.places # <<>>
  BY DEF PicturesLie
<1>3. m \in Nat \ {0} /\ DOMAIN s.places = 1 .. m /\ s.places \in [1 .. m -> (0 .. N) \X (0 .. N)]
  BY <1>2, EmptySeq, LenProperties
<1>4. \A j \in 1 .. m : s.places[j][1] \in 0 .. N /\ s.places[j][2] \in 0 .. N
  BY <1>3
<1>5. \A j \in 1 .. m : s.places[j][1] < s.places[j][2]
  BY <1>3 DEF PicturesLie
<1>6. s.pictures = [j \in 1 .. m |-> Between(s.bytes, s.places[j][1], s.places[j][2])]
  BY <1>3 DEF PicturesLie, Part, Between
<1>7. ASSUME NEW j \in 1 .. m
      PROVE  /\ s.pictures[j] = Between(s.bytes, s.places[j][1], s.places[j][2])
             /\ s.pictures[j] \in Seq(Bytes) /\ s.pictures[j] # <<>>
  <2>1. s.pictures[j] = Between(s.bytes, s.places[j][1], s.places[j][2])
    BY <1>6
  <2>2. /\ s.places[j][1] \in Nat /\ s.places[j][2] \in Nat
        /\ s.places[j][1] < s.places[j][2] /\ s.places[j][2] <= N
    BY <1>1, <1>4, <1>5
  <2>3. PICK a \in Nat, b \in Nat : /\ a = s.places[j][1] /\ b = s.places[j][2] /\ a < b /\ b <= N
                                    /\ s.pictures[j] = Between(s.bytes, a, b)
    BY <2>1, <2>2
  <2>4. Between(s.bytes, a, b) \in Seq(Bytes)
    <3>1. a <= b /\ b <= Len(s.bytes)
      BY <2>3
    <3>. QED  BY <1>1, <3>1, Cut, Zenon
  <2>5. Between(s.bytes, a, b) # <<>>
    BY <1>1, <2>3, CutEmpty
  <2>. QED  BY <2>1, <2>3, <2>4, <2>5
<1>8. s.pictures \in Seq(Seq(Bytes)) /\ Len(s.pictures) = m
  <2>1. \A j \in 1 .. m : s.pictures[j] \in Seq(Bytes)
    BY <1>7
  <2>2. s.pictures \in [1 .. m -> Seq(Bytes)]
    BY <1>6, <2>1
  <2>. QED  BY <1>3, <2>2
<1>9. \A i, j \in 1 .. m : i < j => s.places[i][2] <= s.places[j][1]
  BY <1>3 DEF PicturesLie
<1> HIDE DEF m
<1>10. \A j \in 1 .. m : s.places[j][1] \in Nat /\ s.places[j][2] \in Nat /\ s.places[j][2] <= N
  BY <1>1, <1>4
<1>. QED  BY <1>3, <1>5, <1>7, <1>8, <1>9, <1>10 DEF m

(***************************************************************************)
(* The window over the stream, and that over a part of it.                 *)
(***************************************************************************)
Whole(s) == Window(SplitStart, s.bytes)

LEMMA JoinedThree ==
    ASSUME NEW S, NEW a \in Seq(S), NEW b \in Seq(S), NEW z \in Seq(S)
    PROVE  /\ (a \o b) \o z \in Seq(S) /\ Len((a \o b) \o z) = Len(a) + Len(b) + Len(z)
           /\ \A i \in 1 .. Len(a) : ((a \o b) \o z)[i] = a[i]
           /\ \A i \in 1 .. Len(b) : ((a \o b) \o z)[Len(a) + i] = b[i]
           /\ \A i \in 1 .. Len(z) : ((a \o b) \o z)[Len(a) + Len(b) + i] = z[i]
<1>1. (a \o b) \o z \in Seq(S) /\ Len((a \o b) \o z) = Len(a) + Len(b) + Len(z)
  OBVIOUS
<1>2. ASSUME NEW i \in 1 .. Len(a) PROVE ((a \o b) \o z)[i] = a[i]
  OBVIOUS
<1>3. ASSUME NEW i \in 1 .. Len(b) PROVE ((a \o b) \o z)[Len(a) + i] = b[i]
  OBVIOUS
<1>4. ASSUME NEW i \in 1 .. Len(z) PROVE ((a \o b) \o z)[Len(a) + Len(b) + i] = z[i]
  OBVIOUS
<1>. QED  BY <1>1, <1>2, <1>3, <1>4

LEMMA WholeFacts ==
    ASSUME NEW s \in Streams
    PROVE  /\ Whole(s) \in Seq(Bytes) /\ Len(Whole(s)) = Len(s.bytes) + 5
           /\ \A i \in 1 .. 4 : Whole(s)[i] = 255
           /\ \A i \in 1 .. Len(s.bytes) : Whole(s)[i + 4] = s.bytes[i]
           /\ Whole(s)[Len(s.bytes) + 5] = 0
<1> DEFINE a == <<255, 255, 255, 255>>
           z == <<0>>
           b == s.bytes
<1>1. b \in Seq(Bytes) /\ Len(b) \in Nat
  BY StreamFacts
<1>2. a \in Seq(Bytes) /\ Len(a) = 4 /\ \A i \in 1 .. 4 : a[i] = 255
  BY DEF Bytes
<1>3. z \in Seq(Bytes) /\ Len(z) = 1 /\ z[1] = 0
  BY DEF Bytes
<1>4. Whole(s) = (a \o b) \o z
  BY DEF Whole, Window, SplitStart
<1> HIDE DEF a, z, b
<1> DEFINE w == (a \o b) \o z
<1>5. /\ w \in Seq(Bytes) /\ Len(w) = Len(a) + Len(b) + Len(z)
      /\ \A i \in 1 .. Len(a) : w[i] = a[i]
      /\ \A i \in 1 .. Len(b) : w[Len(a) + i] = b[i]
      /\ \A i \in 1 .. Len(z) : w[Len(a) + Len(b) + i] = z[i]
  <2>1. a \in Seq(Bytes) /\ b \in Seq(Bytes) /\ z \in Seq(Bytes)
    BY <1>1, <1>2, <1>3
  <2>. QED  BY ONLY <2>1, JoinedThree
<1> HIDE DEF w
<1>6. Whole(s) = w
  BY <1>4 DEF w
<1>7. Len(w) = Len(b) + 5 /\ w[Len(b) + 5] = 0
  <2>1. 4 + Len(b) + 1 = Len(b) + 5 /\ 1 \in 1 .. 1
    BY <1>1
  <2>. QED  BY <1>2, <1>3, <1>5, <2>1
<1>8. \A i \in 1 .. 4 : w[i] = 255
  BY <1>2, <1>5
<1>9. \A i \in 1 .. Len(b) : w[i + 4] = b[i]
  <2>1. \A i \in 1 .. Len(b) : i + 4 = 4 + i
    BY <1>1
  <2>. QED  BY <1>2, <1>5, <2>1
<1>. QED  BY <1>5, <1>6, <1>7, <1>8, <1>9 DEF b

SameBytes(s, q, f, w) ==
    /\ w \in Seq(Bytes) /\ Len(w) = (f - q) + 5
    /\ \A i \in 1 .. (f - q) + 4 : w[i] = Whole(s)[q + i]
    /\ w[(f - q) + 5] = 0
    /\ \A a, b \in Nat : a <= b /\ b <= (f - q) + 4 =>
          Between(w, a, b) = Between(Whole(s), q + a, q + b)

LEMMA WindowFacts ==
    ASSUME NEW s \in Streams, NEW q \in Nat, NEW e \in Nat, q <= e, e <= Len(s.bytes),
           NEW c, c.state = Between(Whole(s), q, q + 4),
           NEW v, v = Window(c, Between(s.bytes, q, e))
    PROVE  SameBytes(s, q, e, v)
<1>0. PICK n \in Nat : n = e - q /\ e = q + n
  <2>1. e - q \in Nat /\ e = q + (e - q)
    OBVIOUS
  <2>. QED  BY <2>1
<1> DEFINE B == s.bytes
           W == Whole(s)
           a0 == c.state
           src == Between(B, q, q + n)
           z == <<0>>
           w == (a0 \o src) \o z
<1>1. /\ B \in Seq(Bytes) /\ Len(B) \in Nat /\ W \in Seq(Bytes) /\ Len(W) = Len(B) + 5
      /\ q + n <= Len(B) /\ \A i \in 1 .. Len(B) : W[i + 4] = B[i]
  BY <1>0, StreamFacts, WholeFacts
<1>2. a0 = Between(W, q, q + 4)
  OBVIOUS
<1>3. v = w
  BY <1>0 DEF Window
<1>4. z \in Seq(Bytes) /\ Len(z) = 1 /\ z[1] = 0
  BY DEF Bytes
<1> HIDE DEF B, W, a0, z
<1>5. a0 \in Seq(Bytes) /\ Len(a0) = 4 /\ \A i \in 1 .. 4 : a0[i] = W[q + i]
  BY <1>1, <1>2 DEF Between
<1>6. src \in Seq(Bytes) /\ Len(src) = n /\ \A i \in 1 .. n : src[i] = W[(q + i) + 4]
  BY <1>1 DEF Between
<1> HIDE DEF src
<1>7. /\ w \in Seq(Bytes) /\ Len(w) = n + 5 /\ w[n + 5] = 0
      /\ \A i \in 1 .. 4 : w[i] = a0[i]
      /\ \A i \in 1 .. n : w[i + 4] = src[i]
  <2>1. /\ w \in Seq(Bytes) /\ Len(w) = Len(a0) + Len(src) + Len(z)
        /\ \A i \in 1 .. Len(a0) : w[i] = a0[i]
        /\ \A i \in 1 .. Len(src) : w[Len(a0) + i] = src[i]
        /\ \A i \in 1 .. Len(z) : w[Len(a0) + Len(src) + i] = z[i]
    <3>1. a0 \in Seq(Bytes) /\ src \in Seq(Bytes) /\ z \in Seq(Bytes)
      BY <1>4, <1>5, <1>6
    <3>. QED  BY ONLY <3>1, JoinedThree
  <2> HIDE DEF w
  <2>2. 4 + n + 1 = n + 5 /\ (\A i \in 1 .. n : i + 4 = 4 + i) /\ 1 \in 1 .. 1
    OBVIOUS
  <2>3. Len(w) = n + 5 /\ w[n + 5] = 0
    BY <1>4, <1>5, <1>6, <2>1, <2>2
  <2>. QED  BY <1>5, <1>6, <2>1, <2>2, <2>3
<1> HIDE DEF w
<1>8. ASSUME NEW i \in 1 .. n + 4 PROVE w[i] = W[q + i]
  <2>1. CASE i <= 4
    <3>1. i \in 1 .. 4
      BY <2>1
    <3>. QED  BY <1>5, <1>7, <3>1
  <2>2. CASE i > 4
    <3>1. PICK k \in 1 .. n : i = k + 4
      BY <2>2
    <3>2. w[i] = src[k] /\ src[k] = W[(q + k) + 4]
      BY <1>6, <1>7, <3>1
    <3>3. (q + k) + 4 = q + i
      BY <3>1
    <3>. QED  BY <3>2, <3>3
  <2>. QED  BY <2>1, <2>2
<1>9. ASSUME NEW a \in Nat, NEW b \in Nat, a <= b, b <= n + 4
      PROVE  Between(w, a, b) = Between(W, q + a, q + b)
  BY <1>1, <1>7, <1>8, <1>9 DEF Between
<1>10. /\ v \in Seq(Bytes) /\ Len(v) = n + 5
       /\ \A i \in 1 .. n + 4 : v[i] = Whole(s)[q + i]
       /\ v[n + 5] = 0
       /\ \A a, b \in Nat : a <= b /\ b <= n + 4 =>
             Between(v, a, b) = Between(Whole(s), q + a, q + b)
  <2>1. w \in Seq(Bytes) /\ Len(w) = n + 5 /\ w[n + 5] = 0
    BY <1>7
  <2>. QED  BY <1>3, <1>8, <1>9, <2>1, ZenonT(60) DEF W
<1>11. n = e - q
  BY <1>0
<1>. QED  BY ONLY <1>10, <1>11 DEF SameBytes
-----------------------------------------------------------------------------
(***************************************************************************)
(* MPEG-4 and MPEG-2.                                                      *)
(***************************************************************************)
SplitContext ==
    [dst : Seq(Bytes), state : Seq(Bytes), found : BOOLEAN, eos : BOOLEAN, split : BOOLEAN, start : Int]

LEMMA HeldRaw ==
    ASSUME NEW s \in Streams, NEW a \in Nat, NEW q \in Nat, 0 < q, q <= Len(s.bytes), a <= q,
           a = 0 \/ a + 4 <= q, NEW c, c.dst = Between(s.bytes, a, q),
           c.state = Between(Whole(s), q, q + 4)
    PROVE  Held(c) = c.dst
<1> DEFINE B == s.bytes
           W == Whole(s)
<1>1. /\ B \in Seq(Bytes) /\ Len(B) \in Nat /\ W \in Seq(Bytes) /\ Len(W) = Len(B) + 5
      /\ q <= Len(B) /\ (\A i \in 1 .. Len(B) : W[i + 4] = B[i]) /\ (\A i \in 1 .. 4 : W[i] = 255)
      /\ c.dst = Between(B, a, q) /\ c.state = Between(W, q, q + 4)
  BY StreamFacts, WholeFacts
<1> HIDE DEF B, W
<1>2. Len(c.dst) = q - a /\ \A i \in 1 .. q - a : c.dst[i] = B[a + i]
  BY <1>1 DEF Between
<1>3. Tail(c.state) \in Seq(Bytes) /\ Len(Tail(c.state)) = 3 /\ \A i \in 1 .. 3 : Tail(c.state)[i] = W[q + i + 1]
  <2>1. /\ c.state \in Seq(Bytes) /\ Len(c.state) = 4 /\ c.state # <<>>
        /\ \A i \in 1 .. 4 : c.state[i] = W[q + i]
    <3>1. W \in Seq(Bytes) /\ q + 4 <= Len(W)
      BY <1>1
    <3>2. Between(W, q, q + 4) \in Seq(Bytes) /\ Len(Between(W, q, q + 4)) = 4
      BY <3>1 DEF Between
    <3>3. \A i \in 1 .. 4 : Between(W, q, q + 4)[i] = W[q + i]
      BY <3>1 DEF Between
    <3>. QED  BY <1>1, <3>2, <3>3, EmptySeq, SMTT(30)
  <2>2. /\ Tail(c.state) \in Seq(Bytes) /\ Len(Tail(c.state)) = 3
        /\ \A i \in 1 .. 3 : Tail(c.state)[i] = c.state[i + 1]
    BY <2>1, HeadTailProperties
  <2>3. \A i \in 1 .. 3 : i + 1 \in 1 .. 4 /\ q + (i + 1) = q + i + 1
    OBVIOUS
  <2>. QED  BY <2>1, <2>2, <2>3
<1>4. SUFFICES ASSUME Len(c.dst) < 4, Tail(c.state) = Prefix PROVE c.dst = Prefix
  BY DEF Held
<1>5. a = 0 /\ q \in 1 .. 3
  BY <1>2, <1>4
<1>6. W[q + 2] = 0 /\ W[q + 3] = 0 /\ W[q + 4] = 1
  <2>1. Prefix[1] = 0 /\ Prefix[2] = 0 /\ Prefix[3] = 1
    BY DEF Prefix
  <2>2. q + 1 + 1 = q + 2 /\ q + 2 + 1 = q + 3 /\ q + 3 + 1 = q + 4 /\ 1 \in 1 .. 3 /\ 2 \in 1 .. 3 /\ 3 \in 1 .. 3
    OBVIOUS
  <2>. QED  BY <1>3, <1>4, <2>1, <2>2
<1>7. q = 3
  <2>1. q + 2 = 4 \/ q + 3 = 4 \/ q = 3
    BY <1>5
  <2>2. W[4] = 255
    BY <1>1
  <2>. QED  BY <1>6, <2>1, <2>2
<1>8. W[5] = B[1] /\ W[6] = B[2] /\ W[7] = B[3]
  <2>1. 1 + 4 = 5 /\ 2 + 4 = 6 /\ 3 + 4 = 7 /\ 1 \in 1 .. Len(B) /\ 2 \in 1 .. Len(B) /\ 3 \in 1 .. Len(B)
    BY <1>1, <1>7
  <2>. QED  BY <1>1, <2>1
<1>9. c.dst[1] = 0 /\ c.dst[2] = 0 /\ c.dst[3] = 1
  BY <1>2, <1>5, <1>6, <1>7, <1>8
<1>10. c.dst \in Seq(Bytes) /\ Len(c.dst) = 3
  BY <1>1, <1>2, <1>5, <1>7, Cut
<1>11. Prefix \in Seq(Bytes) /\ Len(Prefix) = 3 /\ Prefix[1] = 0 /\ Prefix[2] = 0 /\ Prefix[3] = 1
  BY DEF Prefix, Bytes
<1>12. \A i \in 1 .. 3 : i = 1 \/ i = 2 \/ i = 3
  OBVIOUS
<1>13. \A i \in 1 .. Len(c.dst) : c.dst[i] = Prefix[i]
  BY <1>9, <1>10, <1>11, <1>12
<1>. QED  BY <1>10, <1>11, <1>13, SeqEqual

LEMMA HeldPrefix ==
    ASSUME NEW s \in Streams, NEW e \in Nat, e + 3 <= Len(s.bytes),
           Between(Whole(s), e + 4, e + 7) = Prefix,
           NEW c, c.dst = <<>>, c.state = Between(Whole(s), e + 3, e + 7)
    PROVE  Held(c) = Between(s.bytes, e, e + 3)
<1> DEFINE B == s.bytes
           W == Whole(s)
           x == Between(B, e, e + 3)
           y == Between(W, e + 4, e + 7)
<1>1. /\ B \in Seq(Bytes) /\ Len(B) \in Nat /\ W \in Seq(Bytes) /\ Len(W) = Len(B) + 5
      /\ e + 3 <= Len(B) /\ (\A i \in 1 .. Len(B) : W[i + 4] = B[i])
      /\ c.state = Between(W, e + 3, e + 7) /\ y = Prefix
  BY StreamFacts, WholeFacts
<1> HIDE DEF B, W
<1>2. Tail(c.state) = y
  BY <1>1 DEF Between
<1>3. x \in Seq(Bytes) /\ Len(x) = 3 /\ \A i \in 1 .. 3 : x[i] = B[e + i]
  BY <1>1 DEF Between
<1>4. y \in Seq(Bytes) /\ Len(y) = 3 /\ \A i \in 1 .. 3 : y[i] = W[(e + i) + 4]
  BY <1>1 DEF Between
<1> HIDE DEF x, y
<1>5. \A i \in 1 .. 3 : e + i \in 1 .. Len(B)
  BY <1>1
<1>6. \A i \in 1 .. Len(x) : x[i] = y[i]
  BY <1>1, <1>3, <1>4, <1>5
<1>7. x = y
  BY <1>3, <1>4, <1>6, SeqEqual
<1>8. Held(c) = Prefix
  BY <1>1, <1>2, EmptySeq DEF Held
<1>. QED  BY <1>1, <1>7, <1>8 DEF x, B

(* What a call of prepare over the n bytes behind q gives.                 *)
Outcome(s, a, q, n, scan, c, eos, src, r) ==
    LET pos   == IF scan.to <= n THEN scan.to ELSE n
        over  == eos /\ pos = n
        whole == scan.to <= n \/ over
        data  == Between(s.bytes, a, IF scan.to <= n THEN q + scan.to - 3 ELSE q + n)
    IN /\ r.left = After(src, pos)
       /\ r.task = [valid |-> whole, eos |-> c.eos \/ over, data |-> IF whole THEN data ELSE <<>>]
       /\ r.ctx \in SplitContext
       /\ r.ctx.dst = IF whole THEN <<>> ELSE data
       /\ r.ctx.state = Between(Whole(s), q + pos, q + pos + 4)
       /\ r.ctx.found = (scan.from <= n /\ ~(scan.to <= n))
       /\ r.ctx.eos = (c.eos \/ over) /\ r.ctx.split = c.split

(* A call of prepare over the bytes behind q up to f, when the picture     *)
(* that is gathered begins behind a.                                       *)
LEMMA SplitResult ==
    ASSUME NEW s \in Streams, NEW a \in Nat, NEW q \in Nat, NEW n \in Nat, n > 0, a <= q,
           NEW f, f = q + n, f <= Len(s.bytes),
           NEW c \in SplitContext, c.state = Between(Whole(s), q, q + 4),
           (IF c.found THEN c.dst ELSE Held(c)) = Between(s.bytes, a, q),
           NEW lb, NEW le, NEW eos \in BOOLEAN, Scan(lb, le, c.found, n).to \in Nat \ {0},
           Scan(lb, le, c.found, n).to <= n => a + 3 <= q + Scan(lb, le, c.found, n).to,
           NEW src, src = Between(s.bytes, q, f),
           NEW r, r = Prepared(SplitBy(lb, le, c, src, eos), src, NoTask)
    PROVE  Outcome(s, a, q, n, Scan(lb, le, c.found, n), c, eos, src, r)
<1> DEFINE B     == s.bytes
           to    == Scan(lb, le, c.found, n).to
           from  == Scan(lb, le, c.found, n).from
           pos   == IF to <= n THEN to ELSE n
           over  == eos /\ pos = n
           whole == to <= n \/ over
           data  == Between(B, a, IF to <= n THEN q + to - 3 ELSE f)
           w     == Window(c, src)
           held  == IF c.found THEN c.dst ELSE Held(c)
           read  == held \o SubSeq(src, 1, pos)
           state == Between(Whole(s), q + pos, q + pos + 4)
<1>1. /\ B \in Seq(Bytes) /\ Len(B) \in Nat /\ q + n <= Len(B) /\ Whole(s) \in Seq(Bytes)
      /\ Len(Whole(s)) = Len(B) + 5 /\ held = Between(B, a, q) /\ src = Between(B, q, q + n)
  BY StreamFacts, WholeFacts
<1>2. pos \in 1 .. n /\ to \in Nat /\ f = q + n /\ (to <= n => a + 3 <= q + to)
  OBVIOUS
<1> HIDE DEF B, to, from
<1>3. Len(src) = n
  BY <1>1 DEF Between
<1>4. read = Between(B, a, q + pos)
  <2>1. SubSeq(src, 1, pos) = Between(src, 0, pos)
    BY DEF Between
  <2> HIDE DEF pos, held
  <2>2. Between(src, 0, pos) = Between(B, q, q + pos)
    BY <1>1, <1>2 DEF Between
  <2>3. Between(B, a, q) \o Between(B, q, q + pos) = Between(B, a, q + pos)
    <3>1. /\ a \in Nat /\ q \in Nat /\ a <= q /\ B \in Seq(Bytes)
          /\ q + pos \in Nat /\ q <= q + pos /\ q + pos <= Len(B)
      BY <1>1, <1>2
    <3>. QED  BY ONLY <3>1, CutsJoin
  <2>. QED  BY <1>1, <2>1, <2>2, <2>3
<1>5. data = SubSeq(read, 1, Len(read) - (IF to <= n THEN 3 ELSE 0)) /\ data \in Seq(Bytes)
  <2>1. CASE to <= n
    <3>0. PICK t \in Nat : t = q + to
      BY <1>2
    <3>1. q + pos = t /\ a + 3 <= t /\ t <= Len(B) /\ t \in Nat
      BY <1>1, <1>2, <2>1, <3>0
    <3>2. read = Between(B, a, t) /\ data = Between(B, a, t - 3)
      <4>1. data = Between(B, a, q + to - 3)
        BY <2>1
      <4> HIDE DEF read, data, pos
      <4>2. q + pos = t /\ q + to - 3 = t - 3
        BY <1>2, <3>0, <3>1
      <4>. QED  BY ONLY <1>4, <4>1, <4>2
    <3> HIDE DEF read, data
    <3>3. Len(Between(B, a, t)) = t - a
      BY <1>1, <3>1 DEF Between
    <3>4. SubSeq(Between(B, a, t), 1, t - a - 3) = Between(B, a, t - 3) /\ Between(B, a, t - 3) \in Seq(Bytes)
      BY <1>1, <3>1 DEF Between
    <3>5. to <= n /\ (t - a) - 3 = t - a - 3
      BY <2>1, <3>1
    <3>. QED  BY ONLY <3>2, <3>3, <3>4, <3>5
  <2>2. CASE ~(to <= n)
    <3>1. pos = n /\ ~(to <= n)
      BY <1>2, <2>2
    <3>2. read = Between(B, a, q + n) /\ data = Between(B, a, q + n)
      BY <1>4, <2>2, <3>1
    <3> HIDE DEF read, data
    <3>3. Between(B, a, q + n) \in Seq(Bytes)
      <4>1. q + n \in Nat /\ a <= q + n
        OBVIOUS
      <4>. QED  BY <1>1, <4>1, Cut
    <3>. QED  BY <3>1, <3>2, <3>3, SubSeqFull
  <2>. QED  BY <2>1, <2>2
<1>6. SubSeq(w, pos + 1, pos + 4) = state
  <2>1. w = Window(c, Between(s.bytes, q, q + n))
    BY DEF B
  <2> HIDE DEF pos, w
  <2>2. pos \in Nat /\ pos + 4 \in Nat /\ pos <= pos + 4 /\ pos + 4 <= n + 4
    BY <1>2
  <2>3. Between(w, pos, pos + 4) = Between(Whole(s), q + pos, q + (pos + 4))
    <3>1. \A x, y \in Nat : x <= y /\ y <= n + 4 => Between(w, x, y) = Between(Whole(s), q + x, q + y)
      <4>1. q + n \in Nat /\ q <= q + n /\ (q + n) - q = n
        OBVIOUS
      <4>2. \A x, y \in Nat : x <= y /\ y <= ((q + n) - q) + 4 => Between(w, x, y) = Between(Whole(s), q + x, q + y)
        <5>1. /\ s \in Streams /\ q \in Nat /\ q + n \in Nat /\ q <= q + n /\ q + n <= Len(s.bytes)
              /\ c.state = Between(Whole(s), q, q + 4) /\ w = Window(c, Between(s.bytes, q, q + n))
          BY <2>1, <4>1
        <5>2. SameBytes(s, q, q + n, w)
          BY ONLY <5>1, WindowFacts
        <5>. QED  BY ONLY <5>2, Zenon DEF SameBytes
      <4>. QED  BY ONLY <4>1, <4>2
    <3>. QED  BY <2>2, <3>1
  <2>4. q + (pos + 4) = q + pos + 4
    BY <2>2
  <2>. QED  BY <2>3, <2>4 DEF Between
<1>7. state \in Seq(Bytes)
  <2> HIDE DEF pos
  <2>1. /\ Whole(s) \in Seq(Bytes) /\ q + pos \in Nat /\ q + pos + 4 \in Nat
        /\ q + pos <= q + pos + 4 /\ q + pos + 4 <= Len(Whole(s))
    BY <1>1, <1>2
  <2>. QED  BY ONLY <2>1, Cut
<1> DEFINE made == [c EXCEPT !.dst = data, !.state = state, !.found = from <= n /\ ~(to <= n),
                            !.eos = @ \/ EndReached(eos, pos, n)]
           x   == [ctx |-> made, pos |-> pos, whole |-> to <= n \/ EndReached(eos, pos, n)]
<1>8. SplitBy(lb, le, c, src, eos) = x
  <2>1. pos = IF to <= n THEN to ELSE n
    BY <1>2
  <2> HIDE DEF pos, data, state
  <2>2. data = SubSeq(read, 1, Len(read) - (IF to <= n THEN 3 ELSE 0))
    BY <1>5
  <2>. QED  BY ONLY <1>3, <1>6, <2>1, <2>2 DEF SplitBy, to, from
<1>9. EndReached(eos, pos, n) = over
  BY DEF EndReached
<1>10. x.whole = whole /\ x.pos = pos /\ x.ctx = made
  BY <1>2, <1>9
<1> HIDE DEF data, state, pos
<1>11. /\ made \in SplitContext /\ made.dst = data /\ made.state = state
       /\ made.found = (from <= n /\ ~(to <= n))
       /\ made.eos = (c.eos \/ over) /\ made.split = c.split
  <2>1. c \in SplitContext /\ data \in Seq(Bytes) /\ state \in Seq(Bytes) /\ over \in BOOLEAN
    BY <1>2, <1>5, <1>7
  <2> HIDE DEF over
  <2>. QED  BY ONLY <1>9, <2>1 DEF SplitContext
<1> HIDE DEF made, x, whole
<1>12. Prepared(x, src, NoTask) =
          [ctx  |-> IF whole THEN [made EXCEPT !.dst = <<>>] ELSE made,
           left |-> After(src, pos),
           task |-> [valid |-> whole, eos |-> made.eos, data |-> IF whole THEN made.dst ELSE <<>>]]
  <2> DEFINE form(y) == [ctx  |-> IF y.whole THEN [y.ctx EXCEPT !.dst = <<>>] ELSE y.ctx,
                         left |-> After(src, y.pos),
                         task |-> [valid |-> y.whole, eos |-> y.ctx.eos,
                                   data |-> IF y.whole THEN y.ctx.dst ELSE <<>>]]
  <2>1. Prepared(x, src, NoTask) = The({form(y) : y \in {x}})
    BY DEF Prepared
  <2>2. form(x) = [ctx  |-> IF whole THEN [made EXCEPT !.dst = <<>>] ELSE made,
                left |-> After(src, pos),
                task |-> [valid |-> whole, eos |-> made.eos, data |-> IF whole THEN made.dst ELSE <<>>]]
    BY ONLY <1>10
  <2> HIDE DEF form
  <2>3. {form(y) : y \in {x}} = {form(x)}
    OBVIOUS
  <2>. QED  BY ONLY <2>1, <2>2, <2>3, TheOnly
<1>13. r.left = After(src, pos) /\ r.task = [valid |-> whole, eos |-> c.eos \/ over, data |-> IF whole THEN data ELSE <<>>]
  BY <1>8, <1>11, <1>12
<1>14. r.ctx = IF whole THEN [made EXCEPT !.dst = <<>>] ELSE made
  BY <1>8, <1>12
<1>15. /\ r.ctx \in SplitContext /\ r.ctx.state = made.state /\ r.ctx.found = made.found
       /\ r.ctx.eos = made.eos /\ r.ctx.split = made.split
       /\ r.ctx.dst = IF whole THEN <<>> ELSE data
  <2>1. <<>> \in Seq(Bytes)
    BY EmptySeq
  <2>2. CASE whole
    BY <1>11, <1>14, <2>1, <2>2 DEF SplitContext
  <2>3. CASE ~whole
    BY <1>11, <1>14, <2>3
  <2>. QED  BY <2>2, <2>3
<1>. QED  BY <1>2, <1>11, <1>13, <1>15 DEF Outcome, B, to, from, data, state, pos, whole

(***************************************************************************)
(* While picture j + 1 is gathered: it goes from its first byte to the     *)
(* last that was read, and it is known to have begun when the start code   *)
(* with which it does was read; its end was not seen yet.                  *)
(***************************************************************************)
Seen(s, j) == IF j = Len(s.places) THEN Len(s.bytes) + 1 ELSE s.places[j][2] + 3

Gathering(s, begins, q, c, j) ==
    /\ j \in 0 .. Len(s.places) - 1
    /\ s.places[j + 1][1] <= q /\ (j > 0 => s.places[j + 1][1] + 3 <= q)
    /\ q < Seen(s, j + 1)
    /\ c.state = Between(Whole(s), q, q + 4)
    /\ (IF c.found THEN c.dst ELSE Held(c)) = Between(s.bytes, s.places[j + 1][1], q)
    /\ c.found <=> \E i \in begins : s.places[j + 1][1] + 3 < i /\ i <= q

CodeStream(s, begins, ends_) ==
    /\ PicturesLie(s) /\ Adjacent(s)
    /\ begins \subseteq 4 .. Len(s.bytes) /\ ends_ \subseteq 1 .. Len(s.bytes)
    /\ \A i \in ends_ : Between(Whole(s), i + 1, i + 4) = Prefix
    /\ CutAtCodes(s, begins, ends_, 3)

(* Where the picture that is gathered begins and where it is over.         *)
Sought(s, begins, ends_, j, v) ==
    LET a == s.places[j][1]
        t == Seen(s, j)
    IN /\ a + 3 < v /\ v <= s.places[j][2] /\ v < t
       /\ \A i \in begins : i <= a + 3 \/ v <= i
       /\ \A i \in ends_ : i <= v \/ t <= i

LEMMA PictureSought ==
    ASSUME NEW s \in Streams, NEW begins, NEW ends_, CodeStream(s, begins, ends_),
           NEW j \in 1 .. Len(s.places)
    PROVE  /\ \E v \in begins : Sought(s, begins, ends_, j, v)
           /\ Seen(s, j) \in Nat
           /\ Seen(s, j) <= Len(s.bytes) =>
                 /\ Seen(s, j) \in ends_ /\ j < Len(s.places) /\ j + 1 \in 1 .. Len(s.places)
                 /\ Seen(s, j) = s.places[j][2] + 3 /\ s.places[j + 1][1] = s.places[j][2]
           /\ Len(s.bytes) < Seen(s, j) => j = Len(s.places) /\ s.places[j][2] = Len(s.bytes)
           /\ j = 1 => s.places[j][1] = 0
<1> DEFINE N == Len(s.bytes)
           m == Len(s.places)
           a == s.places[j][1]
           e == s.places[j][2]
           t == Seen(s, j)
<1>1. /\ m \in Nat \ {0} /\ N \in Nat \ {0} /\ DOMAIN s.places = 1 .. m
      /\ a \in Nat /\ e \in Nat /\ a < e /\ e <= N
  BY PlacesFacts, StreamFacts DEF CodeStream
<1>2. begins \subseteq Int /\ ends_ \subseteq 1 .. N
  BY <1>1 DEF CodeStream
<1>3. PICK v \in begins :
        /\ a + 3 < v /\ v <= e
        /\ \A i \in begins : i <= a + 3 \/ v <= i
        /\ IF j = m THEN \A i \in ends_ : i <= v
           ELSE e + 3 \in ends_ /\ \A i \in ends_ : i <= v \/ e + 3 <= i
  <2>1. j \in DOMAIN s.places
    BY <1>1
  <2>. QED  BY <2>1 DEF CodeStream, CutAtCodes
<1>4. s.places[1][1] = 0 /\ s.places[m][2] = N /\ \A i \in 1 .. m - 1 : s.places[i][2] = s.places[i + 1][1]
  BY DEF CodeStream, Adjacent
<1>5. t = IF j = m THEN N + 1 ELSE e + 3
  BY DEF Seen
<1> HIDE DEF a, e, t, m, N
<1>6. v \in Int
  BY <1>2, <1>3
<1>7. t \in Nat /\ v < t
  BY <1>1, <1>3, <1>5, <1>6
<1>8. \A i \in ends_ : i <= v \/ t <= i
  BY <1>3, <1>5
<1>9. Sought(s, begins, ends_, j, v)
  BY <1>3, <1>7, <1>8 DEF Sought, a, e, t
<1>10. ASSUME t <= N
       PROVE  t \in ends_ /\ j < m /\ j + 1 \in 1 .. m /\ t = e + 3 /\ s.places[j + 1][1] = e
  <2>1. j # m
    BY <1>1, <1>5, <1>10
  <2>2. j < m /\ j \in 1 .. m - 1 /\ j + 1 \in 1 .. m
    BY <1>1, <2>1 DEF m
  <2>3. s.places[j + 1][1] = e
    BY <1>4, <2>2 DEF e
  <2>. QED  BY <1>3, <1>5, <2>1, <2>2, <2>3
<1>11. ASSUME N < t PROVE j = m /\ e = N
  <2>1. j = m
    BY <1>1, <1>2, <1>3, <1>5, <1>11
  <2>. QED  BY <1>4, <2>1 DEF e
<1>12. j = 1 => a = 0
  BY <1>4 DEF a
<1>. QED  BY <1>3, <1>7, <1>9, <1>10, <1>11, <1>12 DEF a, e, t, m, N

(* What a call of prepare comes to: the picture is not over, or it is, or  *)
(* it is the last and ends with the stream.                                *)
GoesOn(s, begins, q, n, c, j, r) ==
    /\ r.left = <<>>
    /\ r.task = [valid |-> FALSE, eos |-> c.eos, data |-> <<>>] /\ r.ctx.eos = c.eos
    /\ Gathering(s, begins, q + n, r.ctx, j)

IsOver(s, begins, q, n, c, j, src, r) ==
    \E pos \in 1 .. n :
       /\ r.left = After(src, pos)
       /\ r.task = [valid |-> TRUE, eos |-> c.eos, data |-> s.pictures[j + 1]] /\ r.ctx.eos = c.eos
       /\ j + 1 < Len(s.places) /\ Gathering(s, begins, q + pos, r.ctx, j + 1)

IsLast(s, j, r) ==
    /\ r.left = <<>> /\ j + 1 = Len(s.places) /\ r.ctx.eos
    /\ r.task = [valid |-> TRUE, eos |-> TRUE, data |-> s.pictures[j + 1]]

LEMMA SplitStep ==
    ASSUME NEW s \in Streams, NEW begins, NEW ends_, CodeStream(s, begins, ends_),
           NEW q \in Nat, NEW n \in Nat, n > 0, q + n <= Len(s.bytes), NEW j,
           NEW c \in SplitContext, Gathering(s, begins, q, c, j),
           NEW eos \in BOOLEAN, eos => q + n = Len(s.bytes),
           NEW src, src = Between(s.bytes, q, q + n), NEW r,
           r = Prepared(SplitBy(InPart(begins, q, n), InPart(ends_, q, n), c, src, eos), src, NoTask)
    PROVE  /\ r.ctx \in SplitContext /\ r.ctx.split = c.split
           /\ \/ ~eos /\ GoesOn(s, begins, q, n, c, j, r)
              \/ IsOver(s, begins, q, n, c, j, src, r)
              \/ eos /\ IsLast(s, j, r)
<1> DEFINE N == Len(s.bytes)
           m == Len(s.places)
           a == s.places[j + 1][1]
           e == s.places[j + 1][2]
           t == Seen(s, j + 1)
           lb == InPart(begins, q, n)
           le == InPart(ends_, q, n)
           scan == Scan(lb, le, c.found, n)
           pos   == IF t <= q + n THEN t - q ELSE n
           over  == eos /\ pos = n
           whole == t <= q + n \/ over
           data  == Between(s.bytes, a, IF t <= q + n THEN t - 3 ELSE q + n)
<1>1. /\ m \in Nat \ {0} /\ j \in 0 .. m - 1 /\ j + 1 \in 1 .. m /\ N \in Nat
      /\ a \in Nat /\ e \in Nat /\ a < e /\ e <= N /\ s.bytes \in Seq(Bytes)
      /\ s.pictures[j + 1] = Between(s.bytes, a, e)
  <2>1. m \in Nat \ {0} /\ j \in 0 .. m - 1 /\ N \in Nat /\ s.bytes \in Seq(Bytes)
    BY PlacesFacts, StreamFacts DEF CodeStream, Gathering
  <2>2. j + 1 \in 1 .. m
    BY <2>1
  <2>. QED  BY <2>1, <2>2, PlacesFacts DEF CodeStream
<1>2. /\ a <= q /\ (j > 0 => a + 3 <= q) /\ q < t
      /\ c.state = Between(Whole(s), q, q + 4)
      /\ (IF c.found THEN c.dst ELSE Held(c)) = Between(s.bytes, a, q)
      /\ (c.found <=> \E i \in begins : a + 3 < i /\ i <= q)
  BY DEF Gathering
<1>3. PICK v \in begins : Sought(s, begins, ends_, j + 1, v)
  BY <1>1, PictureSought
<1>4. /\ t \in Nat
      /\ t <= N => t \in ends_ /\ j + 1 < m /\ t = e + 3 /\ s.places[j + 2][1] = e
      /\ N < t => j + 1 = m /\ e = N
      /\ j = 0 => a = 0
  <2>1. j + 1 + 1 = j + 2 /\ (j + 1 = 1 <=> j = 0)
    BY <1>1
  <2>2. PICK k \in 1 .. m : k = j + 1
    BY <1>1
  <2>3. /\ Seen(s, k) \in Nat
        /\ Seen(s, k) <= Len(s.bytes) =>
              /\ Seen(s, k) \in ends_ /\ k < Len(s.places) /\ k + 1 \in 1 .. Len(s.places)
              /\ Seen(s, k) = s.places[k][2] + 3 /\ s.places[k + 1][1] = s.places[k][2]
        /\ Len(s.bytes) < Seen(s, k) => k = Len(s.places) /\ s.places[k][2] = Len(s.bytes)
        /\ k = 1 => s.places[k][1] = 0
    BY PictureSought
  <2>. QED  BY <2>1, <2>2, <2>3
<1>5. begins \subseteq 4 .. N /\ ends_ \subseteq 1 .. N
  BY DEF CodeStream
<1>6. /\ a + 3 < v /\ v <= e /\ v < t
      /\ \A i \in begins : i <= a + 3 \/ v <= i
      /\ \A i \in ends_ : i <= v \/ t <= i
  BY <1>3 DEF Sought
<1> HIDE DEF N, m, a, e, t
<1>7. v \in Nat /\ begins \in SUBSET Int /\ ends_ \in SUBSET Int
  BY <1>1, <1>5
<1>8. q + n <= N
  BY DEF N
<1>9. ASSUME NEW i \in begins PROVE i <= q \/ v <= i
  <2>1. i \in Int /\ i > 3 /\ (i <= a + 3 \/ v <= i)
    BY <1>1, <1>5, <1>6
  <2>2. j = 0 \/ j > 0
    BY <1>1
  <2>. QED  BY <1>1, <1>2, <1>4, <1>7, <2>1, <2>2
<1>10. c.found <=> v <= q
  BY <1>1, <1>2, <1>5, <1>6
<1>11. /\ scan.to = IF t <= q + n THEN t - q ELSE n + 1
       /\ scan.from <= n <=> v <= q + n
  <2>1. t <= q + n => t <= N
    BY <1>1, <1>4, <1>8
  <2>2. t \in Int /\ (t <= q + n => t \in ends_)
    BY <1>4, <2>1
  <2>3. v < t /\ q < t /\ \A i \in ends_ : i <= v \/ t <= i
    BY <1>2, <1>6
  <2>4. /\ begins \in SUBSET Int /\ ends_ \in SUBSET Int /\ q \in Nat /\ n \in Nat /\ v \in begins
        /\ t \in Int /\ v < t /\ q < t /\ (t <= q + n => t \in ends_) /\ (c.found <=> v <= q)
    BY <1>7, <1>10, <2>2, <2>3
  <2>. QED  BY ONLY <1>9, <2>3, <2>4, ScanAt, SMTT(30)
<1>12. /\ r.left = After(src, pos)
       /\ r.task = [valid |-> whole, eos |-> c.eos \/ over, data |-> IF whole THEN data ELSE <<>>]
       /\ r.ctx \in SplitContext
       /\ r.ctx.dst = IF whole THEN <<>> ELSE data
       /\ r.ctx.state = Between(Whole(s), q + pos, q + pos + 4)
       /\ r.ctx.found = (scan.from <= n /\ ~(t <= q + n))
       /\ r.ctx.eos = (c.eos \/ over) /\ r.ctx.split = c.split
  <2>1. t <= q + n => a + 3 <= t
    BY <1>1, <1>4, <1>8
  <2>2. t \in Int /\ q + n <= Len(s.bytes)
    BY <1>4
  <2> HIDE DEF lb, le
  <2>3. r = Prepared(SplitBy(lb, le, c, src, eos), src, NoTask)
    BY DEF lb, le
  <2>4. /\ scan.to \in Nat \ {0} /\ (scan.to <= n <=> t <= q + n)
        /\ scan.to <= n => scan.to = t - q
        /\ scan.to <= n => a + 3 <= q + scan.to
    BY <1>2, <1>4, <1>11, <2>1
  <2>5. /\ s \in Streams /\ a \in Nat /\ q \in Nat /\ n \in Nat /\ n > 0 /\ a <= q
        /\ c \in SplitContext /\ eos \in BOOLEAN
        /\ q + n <= Len(s.bytes) /\ c.state = Between(Whole(s), q, q + 4)
        /\ (IF c.found THEN c.dst ELSE Held(c)) = Between(s.bytes, a, q)
        /\ src = Between(s.bytes, q, q + n)
    BY <1>1, <1>2, <2>1, <2>2
  <2>6. Outcome(s, a, q, n, scan, c, eos, src, r)
    <3>1. /\ Scan(lb, le, c.found, n).to \in Nat \ {0}
          /\ Scan(lb, le, c.found, n).to <= n => a + 3 <= q + Scan(lb, le, c.found, n).to
      BY <2>4
    <3>. QED  BY ONLY <2>3, <2>5, <3>1, SplitResult, ZenonT(60)
  <2> HIDE DEF scan
  <2>7. /\ t \in Nat /\ q \in Nat /\ n \in Nat
        /\ scan.to \in Nat \ {0} /\ (scan.to <= n <=> t <= q + n)
        /\ scan.to <= n => scan.to = t - q
    BY <1>4, <2>4
  <2>. QED  BY ONLY <2>6, <2>7, SMTT(30) DEF Outcome
<1> HIDE DEF lb, le, scan
<1>13. s.bytes \in Seq(Bytes) /\ N = Len(s.bytes) /\ m = Len(s.places)
  BY <1>1 DEF N, m
<1>14. ~(t <= q + n) => r.left = <<>>
  <2>1. ~(t <= q + n) => r.left = After(src, n)
    BY <1>12
  <2>2. After(src, n) = Between(s.bytes, q + n, q + n)
    <3>1. /\ s.bytes \in Seq(Bytes) /\ q \in Nat /\ q + n \in Nat /\ q <= q + n /\ q + n <= Len(s.bytes)
          /\ n \in Nat /\ n <= (q + n) - q
      BY <1>13
    <3>. QED  BY ONLY <3>1, src = Between(s.bytes, q, q + n), CutAfter
  <2>3. Between(s.bytes, q + n, q + n) = <<>>
    <3>1. q + n \in Nat
      OBVIOUS
    <3>. QED  BY <1>13, <3>1, CutAll
  <2>. QED  BY <2>1, <2>2, <2>3
<1>15. CASE t <= q + n
  <2>1. /\ t \in ends_ /\ j + 1 < m /\ t = e + 3 /\ s.places[j + 2][1] = e /\ t <= N
    BY <1>1, <1>4, <1>8, <1>15
  <2>2. PICK v2 \in begins : Sought(s, begins, ends_, j + 2, v2) /\ Seen(s, j + 2) \in Nat
    <3>1. PICK k \in 1 .. Len(s.places) : k = j + 2
      BY <1>1, <1>13, <2>1
    <3>. QED  BY <3>1, PictureSought
  <2>3. v2 \in 4 .. N /\ e + 3 < v2 /\ v2 < Seen(s, j + 2)
    BY <1>5, <2>1, <2>2 DEF Sought
  <2>4. pos \in 1 .. n /\ q + pos = t /\ ~over /\ whole /\ pos = t - q
    <3>1. pos = t - q /\ pos \in 1 .. n /\ q + pos = t
      BY <1>2, <1>4, <1>15
    <3>2. over => t = N
      BY <3>1 DEF N
    <3>. QED  BY <1>15, <2>1, <2>3, <3>1, <3>2
  <2>5. data = s.pictures[j + 1]
    BY <1>1, <1>15, <2>1
  <2> DEFINE d == r.ctx
  <2>6. /\ r.left = After(src, pos)
        /\ r.task = [valid |-> TRUE, eos |-> c.eos, data |-> s.pictures[j + 1]]
        /\ d.dst = <<>> /\ d.state = Between(Whole(s), t, t + 4) /\ d.found = FALSE /\ d.eos = c.eos
    <3> HIDE DEF pos, over, whole, data
    <3>1. c.eos \/ over <=> c.eos
      BY <2>4
    <3>2. c.eos \in BOOLEAN /\ over \in BOOLEAN
      BY DEF SplitContext, over
    <3>. QED  BY <1>12, <1>15, <2>4, <2>5, <3>1, <3>2
  <2>7. Held(d) = Between(s.bytes, e, e + 3)
    <3>1. Between(Whole(s), e + 4, e + 7) = Prefix
      <4>1. Between(Whole(s), t + 1, t + 4) = Prefix
        BY <2>1 DEF CodeStream
      <4>2. t + 1 = e + 4 /\ t + 4 = e + 7
        BY <1>1, <2>1
      <4>. QED  BY <4>1, <4>2
    <3>2. d.dst = <<>> /\ d.state = Between(Whole(s), e + 3, e + 7)
      <4>1. t = e + 3 /\ t + 4 = e + 7
        BY <1>1, <2>1
      <4>. QED  BY <2>6, <4>1
    <3>3. e \in Nat /\ e + 3 <= Len(s.bytes)
      BY <1>1, <1>13, <2>1
    <3> HIDE DEF d
    <3>. QED  BY <3>1, <3>2, <3>3, HeldPrefix
  <2>8. Gathering(s, begins, t, d, j + 1)
    <3>1. j + 1 \in 0 .. m - 1 /\ (j + 1) + 1 = j + 2 /\ s.places[(j + 1) + 1][1] = e
      BY <1>1, <2>1
    <3>2. e <= t /\ e + 3 <= t
      BY <1>1, <2>1
    <3>3. t < Seen(s, (j + 1) + 1)
      BY <1>1, <2>1, <2>2, <2>3, <3>1
    <3>4. (IF d.found THEN d.dst ELSE Held(d)) = Between(s.bytes, e, t)
      BY <2>1, <2>6, <2>7
    <3>5. d.found <=> \E i \in begins : e + 3 < i /\ i <= t
      <4>1. ~ \E i \in begins : e + 3 < i /\ i <= t
        BY <1>1, <1>5, <2>1, SMTT(30)
      <4>. QED  BY <2>6, <4>1
    <3> HIDE DEF d
    <3>. QED  BY <1>13, <2>6, <3>1, <3>2, <3>3, <3>4, <3>5 DEF Gathering, d
  <2>9. IsOver(s, begins, q, n, c, j, src, r)
    <3> HIDE DEF pos, over, whole, data
    <3>. QED  BY <1>13, <2>1, <2>4, <2>6, <2>8 DEF IsOver, d
  <2>. QED  BY <1>12, <2>9
<1>16. CASE ~(t <= q + n) /\ eos
  <2>1. q + n = N /\ pos = n /\ over /\ whole /\ j + 1 = m /\ e = N
    BY <1>4, <1>13, <1>16
  <2>2. data = s.pictures[j + 1]
    BY <1>1, <1>16, <2>1
  <2>3. r.ctx.eos /\ r.task = [valid |-> TRUE, eos |-> TRUE, data |-> s.pictures[j + 1]]
    <3> HIDE DEF pos, over, whole, data
    <3>. QED  BY <1>12, <2>1, <2>2
  <2>. QED  BY <1>12, <1>13, <1>14, <1>16, <2>1, <2>3 DEF IsLast
<1>17. CASE ~(t <= q + n) /\ ~eos
  <2>1. pos = n /\ ~over /\ ~whole
    BY <1>17
  <2>2. data = Between(s.bytes, a, q + n)
    BY <1>17
  <2> DEFINE d == r.ctx
  <2>3. /\ r.task = [valid |-> FALSE, eos |-> c.eos, data |-> <<>>] /\ d.eos = c.eos
        /\ d.dst = Between(s.bytes, a, q + n) /\ d.state = Between(Whole(s), q + n, q + n + 4)
        /\ d.found = (scan.from <= n)
    <3> HIDE DEF pos, over, whole, data
    <3>1. c.eos \/ over <=> c.eos
      BY <2>1
    <3>2. c.eos \in BOOLEAN
      BY DEF SplitContext
    <3>3. ~(t <= q + n)
      BY <1>17
    <3>4. (c.eos \/ over) = c.eos
      BY <3>1, <3>2
    <3>5. d.eos = c.eos /\ r.task = [valid |-> FALSE, eos |-> c.eos, data |-> <<>>]
      <4>1. whole = FALSE
        BY <2>1
      <4>. QED  BY ONLY <1>12, <3>4, <4>1
    <3>6. d.dst = Between(s.bytes, a, q + n) /\ d.state = Between(Whole(s), q + n, q + n + 4)
      BY ONLY <1>12, <2>1, <2>2
    <3>7. d.found = (scan.from <= n)
      BY ONLY <1>12, <3>3
    <3>. QED  BY <3>5, <3>6, <3>7
  <2>4. Held(d) = d.dst
    <3>1. q + n \in Nat /\ 0 < q + n /\ q + n <= Len(s.bytes) /\ a <= q + n /\ (a = 0 \/ a + 4 <= q + n)
      BY <1>1, <1>2, <1>4, <1>13
    <3> HIDE DEF d
    <3>. QED  BY <1>1, <2>3, <3>1, HeldRaw
  <2>5. Gathering(s, begins, q + n, d, j)
    <3>1. a <= q + n /\ (j > 0 => a + 3 <= q + n) /\ q + n < t
      BY <1>1, <1>2, <1>4, <1>17
    <3>2. (IF d.found THEN d.dst ELSE Held(d)) = Between(s.bytes, a, q + n)
      BY <2>3, <2>4
    <3>3. d.found <=> \E i \in begins : a + 3 < i /\ i <= q + n
      <4>1. v <= q + n <=> \E i \in begins : a + 3 < i /\ i <= q + n
        BY <1>1, <1>5, <1>6
      <4>. QED  BY <1>11, <2>3, <4>1
    <3>4. d.state = Between(Whole(s), q + n, (q + n) + 4)
      BY <2>3
    <3> HIDE DEF d
    <3>. QED  BY <1>1, <1>13, <3>1, <3>2, <3>3, <3>4 DEF Gathering, a, t
  <2>. QED  BY <1>12, <1>14, <1>17, <2>3, <2>5 DEF GoesOn
<1>. QED  BY <1>12, <1>15, <1>16, <1>17

(* The places in the window over a part are those of the whole stream.     *)
SamePlaces(s, q, f, w) ==
    \A i \in 1 .. f - q :
       /\ q + i \in 1 .. Len(s.bytes)
       /\ SubSeq(w, i + 1, i + 4) = SubSeq(Whole(s), q + i + 1, q + i + 4)
       /\ SubSeq(w, i + 1, i + 3) = SubSeq(Whole(s), q + i + 1, q + i + 3)
       /\ SubSeq(w, i + 2, i + 4) = SubSeq(Whole(s), q + i + 2, q + i + 4)
       /\ w[i + 4] = Whole(s)[q + i + 4]
       /\ i < f - q => w[i + 5] = Whole(s)[q + i + 5]

LEMMA WindowParts ==
    ASSUME NEW s \in Streams, NEW q \in Nat, NEW f \in Nat, q <= f, f <= Len(s.bytes),
           NEW c, c.state = Between(Whole(s), q, q + 4),
           NEW w, w = Window(c, Between(s.bytes, q, f))
    PROVE  SamePlaces(s, q, f, w)
<1>1. /\ \A i \in 1 .. (f - q) + 4 : w[i] = Whole(s)[q + i]
      /\ \A a, b \in Nat : a <= b /\ b <= (f - q) + 4 =>
            Between(w, a, b) = Between(Whole(s), q + a, q + b)
  <2>1. /\ s \in Streams /\ q \in Nat /\ f \in Nat /\ q <= f /\ f <= Len(s.bytes)
        /\ c.state = Between(Whole(s), q, q + 4) /\ w = Window(c, Between(s.bytes, q, f))
    OBVIOUS
  <2>2. SameBytes(s, q, f, w)
    BY ONLY <2>1, WindowFacts
  <2>. QED  BY ONLY <2>2, Zenon DEF SameBytes
<1>2. Len(s.bytes) \in Nat
  BY StreamFacts
<1> SUFFICES ASSUME NEW i \in 1 .. f - q
             PROVE  /\ q + i \in 1 .. Len(s.bytes)
                    /\ SubSeq(w, i + 1, i + 4) = SubSeq(Whole(s), q + i + 1, q + i + 4)
                    /\ SubSeq(w, i + 1, i + 3) = SubSeq(Whole(s), q + i + 1, q + i + 3)
                    /\ SubSeq(w, i + 2, i + 4) = SubSeq(Whole(s), q + i + 2, q + i + 4)
                    /\ w[i + 4] = Whole(s)[q + i + 4]
                    /\ i < f - q => w[i + 5] = Whole(s)[q + i + 5]
  BY DEF SamePlaces
<1>3. /\ i \in Nat /\ i + 1 \in Nat /\ i + 3 \in Nat /\ i + 4 \in Nat
      /\ i <= i + 4 /\ i <= i + 3 /\ i + 1 <= i + 4
      /\ i + 3 <= (f - q) + 4 /\ i + 4 <= (f - q) + 4 /\ i + 4 \in 1 .. (f - q) + 4
      /\ i < f - q => i + 5 \in 1 .. (f - q) + 4
  OBVIOUS
<1>4. /\ Between(w, i, i + 4) = Between(Whole(s), q + i, q + (i + 4))
      /\ Between(w, i, i + 3) = Between(Whole(s), q + i, q + (i + 3))
      /\ Between(w, i + 1, i + 4) = Between(Whole(s), q + (i + 1), q + (i + 4))
      /\ w[i + 4] = Whole(s)[q + (i + 4)]
      /\ i < f - q => w[i + 5] = Whole(s)[q + (i + 5)]
  BY ONLY <1>1, <1>3
<1>5. /\ q + (i + 4) = q + i + 4 /\ q + (i + 3) = q + i + 3 /\ q + (i + 5) = q + i + 5
      /\ q + (i + 1) + 1 = q + i + 2 /\ (i + 1) + 1 = i + 2 /\ q + i \in 1 .. Len(s.bytes)
  BY <1>2
<1>. QED  BY ONLY <1>4, <1>5 DEF Between

LEMMA Mpg4Codes ==
    ASSUME NEW s \in Streams, s.codec = "mpg4", NEW q \in Nat, NEW n \in Nat,
           NEW f \in Nat, f = q + n, f <= Len(s.bytes),
           NEW c, c.state = Between(Whole(s), q, q + 4),
           NEW w, w = Window(c, Between(s.bytes, q, f))
    PROVE  /\ VopBegins(w, n) = InPart(VopBegins(Whole(s), Len(s.bytes)), q, n)
           /\ CodeEnds(w, n) = InPart(CodeEnds(Whole(s), Len(s.bytes)), q, n)
<1>1. q <= f /\ f - q = n
  OBVIOUS
<1>2. \A i \in 1 .. n :
              /\ q + i \in 1 .. Len(s.bytes)
              /\ SubSeq(w, i + 1, i + 4) = SubSeq(Whole(s), q + i + 1, q + i + 4)
              /\ SubSeq(w, i + 2, i + 4) = SubSeq(Whole(s), q + i + 2, q + i + 4)
  <2>1. SamePlaces(s, q, f, w)
    BY <1>1, WindowParts
  <2>. QED  BY ONLY <1>1, <2>1 DEF SamePlaces
<1>. QED  BY ONLY <1>2, Zenon DEF VopBegins, CodeEnds, InPart

LEMMA M2vCodes ==
    ASSUME NEW s \in Streams, s.codec = "m2v", NEW q \in Nat, NEW n \in Nat,
           NEW f \in Nat, f = q + n, f <= Len(s.bytes),
           NEW c, c.state = Between(Whole(s), q, q + 4),
           NEW w, w = Window(c, Between(s.bytes, q, f)),
           f \in CodeEnds(Whole(s), Len(s.bytes)) => f \in M2vEnds(Whole(s), Len(s.bytes))
    PROVE  /\ M2vBegins(w, n) = InPart(M2vBegins(Whole(s), Len(s.bytes)), q, n)
           /\ M2vEnds(w, n) = InPart(M2vEnds(Whole(s), Len(s.bytes)), q, n)
<1> DEFINE N == Len(s.bytes)
           W == Whole(s)
<1>1. q <= f /\ f - q = n
  OBVIOUS
<1>2. SamePlaces(s, q, f, w)
  BY <1>1, WindowParts
<1>3. w[n + 5] = 0
  <2>1. /\ s \in Streams /\ q \in Nat /\ f \in Nat /\ q <= f /\ f <= Len(s.bytes)
        /\ c.state = Between(Whole(s), q, q + 4) /\ w = Window(c, Between(s.bytes, q, f))
    BY <1>1
  <2>2. SameBytes(s, q, f, w)
    BY ONLY <2>1, WindowFacts
  <2>. QED  BY ONLY <1>1, <2>2 DEF SameBytes
<1> HIDE DEF N, W
<1>4. ASSUME NEW i \in 1 .. n PROVE i \in M2vBegins(w, n) <=> q + i \in M2vBegins(W, N)
  <2>1. /\ q + i \in 1 .. N /\ SubSeq(w, i + 1, i + 3) = SubSeq(W, q + i + 1, q + i + 3)
        /\ w[i + 4] = W[q + i + 4]
    BY <1>1, <1>2 DEF SamePlaces, N, W
  <2>. QED  BY ONLY <2>1, i \in 1 .. n, Zenon DEF M2vBegins
<1>5. ASSUME NEW i \in 1 .. n PROVE i \in CodeEnds(w, n) <=> q + i \in CodeEnds(W, N)
  <2>1. q + i \in 1 .. N /\ SubSeq(w, i + 2, i + 4) = SubSeq(W, q + i + 2, q + i + 4)
    BY <1>1, <1>2 DEF SamePlaces, N, W
  <2>. QED  BY ONLY <2>1, i \in 1 .. n, Zenon DEF CodeEnds
<1>6. ASSUME NEW i \in 1 .. n PROVE i \in M2vEnds(w, n) <=> q + i \in M2vEnds(W, N)
  <2>1. CASE i < n
    <3>1. w[i + 5] = W[q + i + 5]
      BY <1>1, <1>2, <2>1 DEF SamePlaces, W
    <3>. QED  BY <1>5, <3>1 DEF M2vEnds
  <2>2. CASE i = n
    <3>1. w[i + 5] \in M2vBoundary
      BY <1>3, <2>2 DEF M2vBoundary
    <3>2. q + i = f
      BY <2>2
    <3>3. i \in M2vEnds(w, n) <=> i \in CodeEnds(w, n)
      BY <3>1 DEF M2vEnds
    <3>4. f \in M2vEnds(W, N) <=> f \in CodeEnds(W, N)
      BY DEF M2vEnds, W, N
    <3>. QED  BY <1>5, <3>2, <3>3, <3>4
  <2>. QED  BY <2>1, <2>2
<1>7. M2vBegins(w, n) \subseteq 1 .. n /\ M2vEnds(w, n) \subseteq 1 .. n
  BY DEF M2vBegins, M2vEnds, CodeEnds
<1>8. M2vBegins(w, n) = InPart(M2vBegins(W, N), q, n) /\ M2vEnds(w, n) = InPart(M2vEnds(W, N), q, n)
  BY <1>4, <1>6, <1>7 DEF InPart
<1>. QED  BY <1>8 DEF W, N

(* The streams are cut at their codes, as CodeStream says.                 *)
LEMMA NoCodeInFiller ==
    ASSUME NEW s \in Streams, NEW i \in 1 .. Len(s.bytes),
           SubSeq(Whole(s), i + 1, i + 3) = Prefix \/ SubSeq(Whole(s), i + 1, i + 4) = Prefix \o << 182 >>
    PROVE  i > 3
<1> DEFINE W == Whole(s)
<1>1. W \in Seq(Bytes) /\ Len(W) = Len(s.bytes) + 5 /\ (\A k \in 1 .. 4 : W[k] = 255) /\ Len(s.bytes) \in Nat
  BY WholeFacts, StreamFacts
<1> HIDE DEF W
<1>2. SubSeq(W, i + 1, i + 3)[1] = W[i + 1] /\ SubSeq(W, i + 1, i + 4)[1] = W[i + 1]
  BY <1>1
<1>3. Prefix[1] = 0 /\ (Prefix \o <<182>>)[1] = 0
  BY DEF Prefix
<1>4. W[i + 1] = 0
  BY <1>2, <1>3 DEF W
<1>5. i + 1 \in 1 .. 4 => W[i + 1] = 255
  BY <1>1
<1>. QED  BY <1>4, <1>5

LEMMA Mpg4Stream ==
    ASSUME NEW s \in Streams, s.codec = "mpg4"
    PROVE  CodeStream(s, VopBegins(Whole(s), Len(s.bytes)), CodeEnds(Whole(s), Len(s.bytes)))
<1>1. /\ PicturesLie(s) /\ Adjacent(s)
      /\ CutAtCodes(s, VopBegins(Whole(s), Len(s.bytes)), CodeEnds(Whole(s), Len(s.bytes)), 3)
  BY StreamFacts DEF CutWell, Whole
<1>2. VopBegins(Whole(s), Len(s.bytes)) \subseteq 4 .. Len(s.bytes)
  <2>1. ASSUME NEW i \in VopBegins(Whole(s), Len(s.bytes)) PROVE i \in 4 .. Len(s.bytes)
    <3>1. /\ i \in 1 .. Len(s.bytes)
          /\ SubSeq(Whole(s), i + 1, i + 4) = Prefix \o <<182>>
      BY DEF VopBegins
    <3>2. i > 3
      BY <3>1, NoCodeInFiller
    <3>3. Len(s.bytes) \in Nat
      BY StreamFacts
    <3>. QED  BY ONLY <3>1, <3>2, <3>3
  <2>. QED  BY <2>1
<1>3. CodeEnds(Whole(s), Len(s.bytes)) \subseteq 1 .. Len(s.bytes)
  BY DEF CodeEnds
<1>4. \A i \in CodeEnds(Whole(s), Len(s.bytes)) : Between(Whole(s), i + 1, i + 4) = Prefix
  <2>1. ASSUME NEW i \in CodeEnds(Whole(s), Len(s.bytes)) PROVE Between(Whole(s), i + 1, i + 4) = Prefix
    <3>1. i \in Int /\ SubSeq(Whole(s), i + 2, i + 4) = Prefix /\ (i + 1) + 1 = i + 2
      BY DEF CodeEnds
    <3>. QED  BY ONLY <3>1 DEF Between
  <2>. QED  BY <2>1
<1>. QED  BY <1>1, <1>2, <1>3, <1>4 DEF CodeStream

LEMMA M2vStream ==
    ASSUME NEW s \in Streams, s.codec = "m2v"
    PROVE  /\ CodeStream(s, M2vBegins(Whole(s), Len(s.bytes)), M2vEnds(Whole(s), Len(s.bytes)))
           /\ \A p \in s.packets : p[2] \in CodeEnds(Whole(s), Len(s.bytes)) =>
                                      p[2] \in M2vEnds(Whole(s), Len(s.bytes))
           /\ FlattenSeq(s.pictures) = s.bytes
<1>1. PicturesLie(s) /\ Adjacent(s) /\ M2vCut(s, Whole(s), Len(s.bytes))
  BY StreamFacts DEF CutWell, Whole
<1>2. M2vBegins(Whole(s), Len(s.bytes)) \subseteq 4 .. Len(s.bytes)
  BY NoCodeInFiller, SMTT(30) DEF M2vBegins
<1>3. M2vEnds(Whole(s), Len(s.bytes)) \subseteq 1 .. Len(s.bytes)
  BY DEF CodeEnds, M2vEnds
<1>4. \A i \in M2vEnds(Whole(s), Len(s.bytes)) : Between(Whole(s), i + 1, i + 4) = Prefix
  <2>1. ASSUME NEW i \in M2vEnds(Whole(s), Len(s.bytes)) PROVE Between(Whole(s), i + 1, i + 4) = Prefix
    <3>1. i \in Int /\ SubSeq(Whole(s), i + 2, i + 4) = Prefix /\ (i + 1) + 1 = i + 2
      BY DEF CodeEnds, M2vEnds
    <3>. QED  BY ONLY <3>1 DEF Between
  <2>. QED  BY <2>1
<1>. QED  BY <1>1, <1>2, <1>3, <1>4 DEF CodeStream, M2vCut
-----------------------------------------------------------------------------
(***************************************************************************)
(* What holds of the packet and of the task whatever the codec is.  Read   *)
(* is how many bytes of the stream the parser has read, Handed are the     *)
(* pictures that it gave, with the one that is in the task.                *)
(***************************************************************************)
Read   == put - Len(packet.data)
Handed == IF task.valid THEN Append(given, task.data) ELSE given

PacketInv ==
    /\ stream \in Streams
    /\ put \in 0 .. Len(stream.bytes)
    /\ put = 0 \/ \E p \in stream.packets : p[2] = put
    /\ eosPut \in {"no", "data", "empty"} /\ (eosPut # "no" => put = Len(stream.bytes))
    /\ packet \in [data : Seq(Bytes), eos : BOOLEAN]
    /\ Len(packet.data) <= put /\ packet.data = Between(stream.bytes, Read, put)
    /\ packet.eos => eosPut # "no"
    /\ packet.data # <<>> /\ eosPut # "no" => eosPut = "data" /\ packet.eos
    /\ packet.data = <<>> /\ packet.eos => eosPut = "empty"

TaskInv ==
    /\ task \in [valid : BOOLEAN, eos : BOOLEAN, data : {task.data}]
    /\ IF task.valid THEN task.data # <<>> /\ ends < EndBound ELSE task.data = <<>>
    /\ ends \in 0 .. EndBound
    /\ resets \in 0 .. stream.resets
    /\ eosBefore \in BOOLEAN /\ (eosBefore => resets > 0)
    /\ given \in Seq(Range(given))

LEMMA NoPacketFacts ==
    NoPacket.data = <<>> /\ Len(NoPacket.data) = 0 /\ NoPacket.eos = FALSE /\ NoPacket \in [data : Seq(Bytes), eos : BOOLEAN]
BY EmptySeq DEF NoPacket

LEMMA CommonInit ==
    ASSUME Init
    PROVE  PacketInv /\ TaskInv /\ Read = 0 /\ Handed = <<>>
<1>1. /\ stream \in Streams /\ put = 0 /\ eosPut = "no" /\ packet = NoPacket /\ task = NoTask
      /\ given = <<>> /\ ends = 0 /\ resets = 0 /\ eosBefore = FALSE
  BY DEF Init
<1>2. /\ stream.bytes \in Seq(Bytes) /\ Len(stream.bytes) \in Nat /\ stream.resets \in Nat
      /\ EndBound \in Nat \ {0}
  BY <1>1, StreamFacts, StreamsAssumption
<1>3. Read = 0 /\ Handed = <<>>
  <2>1. Len(packet.data) = 0
    BY <1>1, NoPacketFacts
  <2>2. task.valid = FALSE
    BY <1>1 DEF NoTask
  <2>. QED  BY <1>1, <2>1, <2>2 DEF Read, Handed
<1>4. Between(stream.bytes, 0, 0) = <<>>
  BY <1>2, CutAll
<1>5. PacketInv
  BY <1>1, <1>2, <1>3, <1>4, NoPacketFacts DEF PacketInv
<1>6. TaskInv
  <2>1. task \in [valid : BOOLEAN, eos : BOOLEAN, data : {task.data}] /\ task.valid = FALSE /\ task.data = <<>>
    BY <1>1 DEF NoTask
  <2>2. ends \in 0 .. EndBound /\ resets \in 0 .. stream.resets
    BY <1>1, <1>2
  <2>3. eosBefore \in BOOLEAN /\ ~eosBefore
    BY <1>1
  <2>4. given \in Seq(Range(given))
    BY <1>1, EmptySeq, SeqOfRange
  <2>. QED  BY ONLY <2>1, <2>2, <2>3, <2>4 DEF TaskInv
<1>. QED  BY <1>3, <1>5, <1>6

LEMMA CommonPut ==
    ASSUME PacketInv, TaskInv, NEW to \in 1 .. Len(stream.bytes), PutPacket(to)
    PROVE  /\ PacketInv' /\ TaskInv'
           /\ Read = put /\ Read' = Read /\ Handed' = Handed
           /\ eosPut = "no" /\ packet = NoPacket /\ <<put, to>> \in stream.packets /\ put' = to
           /\ packet'.data # <<>> /\ eosPut' # "empty"
<1>1. /\ ~HasPacket /\ eosPut = "no" /\ <<put, to>> \in stream.packets /\ put' = to
      /\ UNCHANGED <<stream, ctx, task, given, ends, resets, eosBefore>>
  BY DEF PutPacket
<1>2. PICK eos \in (IF to = Len(stream.bytes) THEN BOOLEAN ELSE {FALSE}) :
         /\ packet' = [data |-> SubSeq(stream.bytes, put + 1, to), eos |-> eos]
         /\ eosPut' = IF eos THEN "data" ELSE "no"
  BY DEF PutPacket
<1>3. /\ stream \in Streams /\ stream.bytes \in Seq(Bytes) /\ Len(stream.bytes) \in Nat
      /\ put \in Nat /\ to \in Nat /\ put < to /\ to <= Len(stream.bytes)
  <2>1. stream \in Streams /\ put \in 0 .. Len(stream.bytes)
    BY DEF PacketInv
  <2>2. \A p \in stream.packets : p[1] < p[2]
    BY <2>1, StreamFacts
  <2>. QED  BY <1>1, <2>1, <2>2, StreamFacts
<1>4. /\ SubSeq(stream.bytes, put + 1, to) = Between(stream.bytes, put, to)
      /\ Between(stream.bytes, put, to) \in Seq(Bytes) /\ Len(Between(stream.bytes, put, to)) = to - put
      /\ Between(stream.bytes, put, to) # <<>>
  <2>1. put <= to /\ ~(put = to)
    BY <1>3
  <2>. QED  BY <1>3, <2>1, Cut, CutEmpty DEF Between
<1>5. packet = NoPacket /\ Read = put
  BY <1>1, <1>3, NoPacketFacts DEF HasPacket, Read
<1>6. Read' = put
  BY <1>1, <1>2, <1>3, <1>4 DEF Read
<1>7. PacketInv'
  <2>1. packet'.data = Between(stream.bytes, Read', to) /\ packet'.eos = eos /\ Len(packet'.data) <= to /\ packet'.data # <<>>
    <3>1. packet'.data = Between(stream.bytes, put, to) /\ packet'.eos = eos
      BY <1>2, <1>4
    <3>2. Len(packet'.data) = to - put /\ to - put <= to
      BY <1>3, <1>4, <3>1
    <3>. QED  BY <1>4, <1>6, <3>1, <3>2
  <2>2. packet' \in [data : Seq(Bytes), eos : BOOLEAN]
    BY <1>2, <1>4
  <2>3. eos => to = Len(stream.bytes)
    BY <1>2
  <2>4. \E p \in stream.packets : p[2] = to
    BY <1>1
  <2>5. /\ eosPut' \in {"no", "data", "empty"} /\ (eosPut' # "no" => put' = Len(stream.bytes))
        /\ packet'.eos => eosPut' # "no"
        /\ eosPut' # "no" => eosPut' = "data" /\ packet'.eos
    BY <1>1, <1>2, <2>1, <2>3
  <2>6. stream' = stream /\ put' = to /\ to \in 0 .. Len(stream.bytes) /\ stream \in Streams
    BY <1>1, <1>3
  <2>. QED  BY ONLY <2>1, <2>2, <2>4, <2>5, <2>6 DEF PacketInv
<1>8. TaskInv'
  BY <1>1 DEF TaskInv
<1>9. Handed' = Handed
  BY <1>1 DEF Handed
<1>. QED  BY <1>1, <1>2, <1>4, <1>5, <1>6, <1>7, <1>8, <1>9

LEMMA CommonEnd ==
    ASSUME PacketInv, TaskInv, PutEnd
    PROVE  /\ PacketInv' /\ TaskInv'
           /\ Read = put /\ Read' = Read /\ Handed' = Handed
           /\ eosPut = "no" /\ packet = NoPacket /\ put = Len(stream.bytes) /\ put' = put
           /\ packet'.data = <<>> /\ eosPut' = "empty"
<1>1. /\ ~HasPacket /\ eosPut = "no" /\ put = Len(stream.bytes)
      /\ packet' = [data |-> <<>>, eos |-> TRUE] /\ eosPut' = "empty"
      /\ UNCHANGED <<stream, put, ctx, task, given, ends, resets, eosBefore>>
  BY DEF PutEnd
<1>2. packet = NoPacket /\ put \in Nat /\ stream.bytes \in Seq(Bytes) /\ stream \in Streams
  BY <1>1, StreamFacts DEF HasPacket, PacketInv
<1>3. Read = put /\ Read' = put
  BY <1>1, <1>2, NoPacketFacts DEF Read, NoPacket
<1>4. Between(stream.bytes, put, put) = <<>> /\ Len(<<>>) = 0 /\ <<>> \in Seq(Bytes)
  BY <1>2, CutAll
<1>5. PacketInv'
  BY <1>1, <1>2, <1>3, <1>4 DEF PacketInv
<1>6. TaskInv' /\ Handed' = Handed
  BY <1>1 DEF TaskInv, Handed
<1>. QED  BY <1>1, <1>2, <1>3, <1>5, <1>6

(* A call of prepare: what it leaves of the packet is what is behind pos.  *)
Called(r, pos) ==
    /\ r = PrepareOf(stream.codec, ctx, packet.data, packet.eos, task)
    /\ pos \in 0 .. Len(packet.data) /\ r.left = After(packet.data, pos)
    /\ r.task \in [valid : BOOLEAN, eos : BOOLEAN, data : {r.task.data}]
    /\ IF r.task.valid THEN r.task.data # <<>> ELSE r.task.data = <<>>

LEMMA PrepareIs ==
    ASSUME Prepare, NEW r, r = PrepareOf(stream.codec, ctx, packet.data, packet.eos, task)
    PROVE  /\ packet # NoPacket /\ ~task.valid /\ ends < EndBound
           /\ ctx' = r.ctx /\ task' = r.task
           /\ packet' = IF r.left = <<>> THEN NoPacket ELSE [packet EXCEPT !.data = r.left]
           /\ ends' = ends + (IF r.task.eos /\ ~r.task.valid THEN 1 ELSE 0)
           /\ UNCHANGED <<stream, put, eosPut, given, resets, eosBefore>>
BY DEF Prepare, HasPacket

LEMMA CommonPrepare ==
    ASSUME PacketInv, TaskInv, Prepare, NEW r, NEW pos, Called(r, pos)
    PROVE  /\ PacketInv' /\ TaskInv'
           /\ Read' = Read + pos
           /\ Handed = given /\ Handed' = (IF r.task.valid THEN Append(given, r.task.data) ELSE given)
           /\ ctx' = r.ctx /\ task' = r.task
           /\ r.left = <<>> <=> pos = Len(packet.data)
           /\ r.left = <<>> => packet' = NoPacket
           /\ r.left # <<>> => packet'.data = r.left /\ packet'.eos = packet.eos
           /\ ends' = ends + (IF r.task.eos /\ ~r.task.valid THEN 1 ELSE 0)
           /\ UNCHANGED <<stream, put, eosPut, given, resets, eosBefore>>
<1>1. /\ ~task.valid /\ ends < EndBound
      /\ ctx' = r.ctx /\ task' = r.task
      /\ packet' = IF r.left = <<>> THEN NoPacket ELSE [packet EXCEPT !.data = r.left]
      /\ ends' = ends + (IF r.task.eos /\ ~r.task.valid THEN 1 ELSE 0)
      /\ UNCHANGED <<stream, put, eosPut, given, resets, eosBefore>>
  BY PrepareIs DEF Called
<1>2. /\ stream \in Streams /\ put \in 0 .. Len(stream.bytes) /\ stream.bytes \in Seq(Bytes)
      /\ Len(stream.bytes) \in Nat /\ packet \in [data : Seq(Bytes), eos : BOOLEAN]
      /\ packet.data \in Seq(Bytes) /\ Len(packet.data) \in Nat /\ Len(packet.data) <= put
      /\ Read \in Nat /\ Read <= put /\ put - Read = Len(packet.data)
      /\ packet.data = Between(stream.bytes, Read, put)
  <2>1. stream \in Streams /\ packet \in [data : Seq(Bytes), eos : BOOLEAN] /\ put \in 0 .. Len(stream.bytes)
        /\ Len(packet.data) <= put /\ packet.data = Between(stream.bytes, Read, put)
    BY DEF PacketInv
  <2>2. packet.data \in Seq(Bytes) /\ Len(packet.data) \in Nat /\ stream.bytes \in Seq(Bytes) /\ Len(stream.bytes) \in Nat
    BY <2>1, StreamFacts
  <2>3. put \in Nat /\ Read = put - Len(packet.data)
    BY <2>1, <2>2 DEF Read
  <2>. QED  BY <2>1, <2>2, <2>3
<1>3. pos \in Nat /\ pos <= put - Read /\ r.left = After(packet.data, pos)
  BY <1>2 DEF Called
<1>4. r.left = Between(stream.bytes, Read + pos, put)
  <2>1. /\ stream.bytes \in Seq(Bytes) /\ Read \in Nat /\ put \in Nat /\ Read <= put /\ put <= Len(stream.bytes)
        /\ pos \in Nat /\ pos <= put - Read
    BY <1>2, <1>3
  <2>2. After(Between(stream.bytes, Read, put), pos) = Between(stream.bytes, Read + pos, put)
    BY ONLY <2>1, CutAfter
  <2>. QED  BY <1>2, <1>3, <2>2
<1>5. PICK q \in Nat : q = Read + pos /\ q <= put /\ r.left = Between(stream.bytes, q, put)
  BY <1>2, <1>3, <1>4
<1>6. /\ r.left \in Seq(Bytes) /\ Len(r.left) = put - q /\ (r.left = <<>> <=> q = put)
  <2>1. put \in Nat /\ q \in Nat /\ q <= put /\ put <= Len(stream.bytes) /\ stream.bytes \in Seq(Bytes)
    BY <1>2, <1>5
  <2>2. Between(stream.bytes, q, put) \in Seq(Bytes) /\ Len(Between(stream.bytes, q, put)) = put - q
    BY ONLY <2>1, Cut
  <2>3. Between(stream.bytes, q, put) = <<>> <=> q = put
    BY ONLY <2>1, CutEmpty
  <2>. QED  BY ONLY <1>5, <2>2, <2>3
<1>7. r.left = <<>> <=> pos = Len(packet.data)
  BY <1>2, <1>3, <1>5, <1>6
<1>8. /\ r.left = <<>> => packet' = NoPacket
      /\ r.left # <<>> => packet'.data = r.left /\ packet'.eos = packet.eos
  BY <1>1, <1>2
<1>9. Len(packet'.data) = put - q /\ packet'.data = r.left
  BY <1>2, <1>5, <1>6, <1>8, NoPacketFacts
<1>10. Read' = q
  <2>1. put' = put /\ put \in Nat
    BY <1>1, <1>2
  <2>. QED  BY <1>5, <1>9, <2>1 DEF Read
<1>11. PacketInv'
  <2>1. /\ put' = put /\ eosPut' = eosPut /\ stream' = stream
    BY <1>1
  <2>2. packet' \in [data : Seq(Bytes), eos : BOOLEAN]
    <3>1. CASE r.left = <<>>
      BY <1>8, <3>1, NoPacketFacts
    <3>2. CASE r.left # <<>>
      <4>1. packet' = [packet EXCEPT !.data = r.left]
        BY <1>1, <3>2
      <4>. QED  BY <1>2, <1>6, <4>1
    <3>. QED  BY <3>1, <3>2
  <2>3. /\ Len(packet'.data) <= put /\ packet'.data = Between(stream.bytes, Read', put)
    BY <1>2, <1>5, <1>9, <1>10
  <2>4. packet'.data = <<>> => packet'.eos = FALSE
    BY <1>8, <1>9, NoPacketFacts
  <2>5. packet'.data # <<>> => packet'.eos = packet.eos /\ packet.data # <<>>
    BY <1>2, <1>3, <1>7, <1>8, <1>9
  <2> HIDE DEF Called
  <2>. QED  BY <2>1, <2>2, <2>3, <2>4, <2>5 DEF PacketInv
<1>12. TaskInv'
  <2>1. /\ task' \in [valid : BOOLEAN, eos : BOOLEAN, data : {task'.data}]
        /\ IF task'.valid THEN task'.data # <<>> ELSE task'.data = <<>>
    BY <1>1 DEF Called
  <2>2. ends \in 0 .. EndBound /\ EndBound \in Nat /\ ends < EndBound
    BY <1>1, StreamsAssumption DEF TaskInv
  <2>3. ends' \in 0 .. EndBound /\ (task'.valid => ends' < EndBound)
    BY <1>1, <2>2
  <2>4. resets' = resets /\ eosBefore' = eosBefore /\ stream' = stream /\ given' = given
    BY <1>1
  <2>5. given' \in Seq(Range(given'))
    BY <2>4 DEF TaskInv
  <2>. QED  BY <2>1, <2>3, <2>4, <2>5 DEF TaskInv
<1>13. Handed = given /\ Handed' = (IF r.task.valid THEN Append(given, r.task.data) ELSE given)
  BY <1>1 DEF Handed
<1>. QED  BY <1>1, <1>5, <1>7, <1>8, <1>10, <1>11, <1>12, <1>13

LEMMA CommonParse ==
    ASSUME PacketInv, TaskInv, Parse
    PROVE  /\ PacketInv' /\ TaskInv'
           /\ Read' = Read /\ Handed' = Handed /\ given' = Handed
           /\ task.valid /\ task.data # <<>> /\ task' = NoTask /\ ~task'.valid /\ ~task'.eos
           /\ ctx' = (IF stream.codec = "h263" THEN H263Parsed(ctx) ELSE ctx)
           /\ ends' = ends + (IF task.eos \/ (stream.codec = "h265" /\ ctx.eos) THEN 1 ELSE 0)
           /\ UNCHANGED <<stream, put, eosPut, packet, resets, eosBefore>>
<1>1. /\ task.valid
      /\ given' = Append(given, task.data) /\ task' = NoTask
      /\ ctx' = (IF stream.codec = "h263" THEN H263Parsed(ctx) ELSE ctx)
      /\ UNCHANGED <<stream, put, eosPut, packet, resets, eosBefore>>
  BY DEF Parse
<1>2. ends' = ends + (IF task.eos \/ (stream.codec = "h265" /\ ctx.eos) THEN 1 ELSE 0)
  <2>1. task.eos \in BOOLEAN
    BY DEF TaskInv
  <2>2. CASE stream.codec = "h265"
    <3>1. H265Parsed(ctx, task).eos = (task.eos \/ ctx.eos)
      BY DEF H265Parsed, TaskInv
    <3>2. ends' = ends + (IF H265Parsed(ctx, task).eos THEN 1 ELSE 0)
      BY <2>2 DEF Parse
    <3>. QED  BY <2>2, <3>1, <3>2
  <2>3. CASE stream.codec # "h265"
    BY <2>3 DEF Parse
  <2>. QED  BY <2>2, <2>3
<1>3. task' = NoTask /\ task'.valid = FALSE /\ task'.eos = FALSE /\ task'.data = <<>> /\ task.data # <<>>
      /\ task' \in [valid : BOOLEAN, eos : BOOLEAN, data : {task'.data}]
  BY <1>1 DEF NoTask, TaskInv
<1>4. PacketInv' /\ Read' = Read
  BY <1>1 DEF PacketInv, Read
<1>5. TaskInv'
  <2>1. ends \in 0 .. EndBound /\ EndBound \in Nat /\ ends < EndBound
    BY <1>1, StreamsAssumption DEF TaskInv
  <2>2. ends' \in 0 .. EndBound
    BY <1>2, <2>1
  <2>3. resets' = resets /\ eosBefore' = eosBefore /\ stream' = stream
    BY <1>1
  <2>4. given' \in Seq(Range(given'))
    <3>1. given \in Seq(Range(given) \cup {task.data})
      BY SeqMonotonic DEF TaskInv
    <3>2. given' \in Seq(Range(given) \cup {task.data})
      BY <1>1, <3>1
    <3>. QED  BY <3>2, SeqOfRange
  <2>. QED  BY <1>3, <2>2, <2>3, <2>4 DEF TaskInv
<1>6. Handed' = Handed /\ given' = Handed
  BY <1>1, <1>3 DEF Handed
<1>. QED  BY <1>1, <1>2, <1>3, <1>4, <1>5, <1>6

LEMMA CommonReset ==
    ASSUME PacketInv, TaskInv, Reset
    PROVE  /\ PacketInv' /\ TaskInv'
           /\ Read' = 0 /\ Handed' = <<>> /\ given' = <<>>
           /\ packet' = NoPacket /\ task' = NoTask /\ ~task'.valid /\ ~task'.eos
           /\ put' = 0 /\ eosPut' = "no" /\ ends' = 0
           /\ resets' \in Nat /\ resets' > 0 /\ resets < stream.resets
           /\ eosBefore' = (eosBefore \/ eosPut # "no")
           /\ ctx' = ResetOf(stream.codec, ctx) /\ stream' = stream
<1>1. /\ resets < stream.resets /\ packet' = NoPacket /\ ctx' = ResetOf(stream.codec, ctx)
      /\ task' = NoTask /\ put' = 0 /\ eosPut' = "no" /\ given' = <<>> /\ ends' = 0
      /\ resets' = resets + 1 /\ eosBefore' = (eosBefore \/ eosPut # "no") /\ stream' = stream
  BY DEF Reset
<1>2. /\ stream \in Streams /\ stream.bytes \in Seq(Bytes) /\ Len(stream.bytes) \in Nat
      /\ stream.resets \in Nat /\ EndBound \in Nat
  BY StreamFacts, StreamsAssumption DEF PacketInv
<1>3. task'.valid = FALSE /\ task'.eos = FALSE /\ task'.data = <<>>
      /\ task' \in [valid : BOOLEAN, eos : BOOLEAN, data : {task'.data}]
  BY <1>1 DEF NoTask
<1>4. Len(packet'.data) = 0 /\ packet'.data = <<>> /\ packet'.eos = FALSE /\ packet' \in [data : Seq(Bytes), eos : BOOLEAN]
  BY <1>1, NoPacketFacts
<1>5. Read' = 0 /\ Handed' = <<>>
  BY <1>1, <1>3, <1>4 DEF Read, Handed
<1>6. resets' \in 1 .. stream.resets
  <2>1. resets \in Nat
    BY DEF TaskInv
  <2>. QED  BY <1>1, <1>2, <2>1
<1>7. PacketInv'
  <2>1. Between(stream.bytes, 0, 0) = <<>>
    BY <1>2, CutAll
  <2>. QED  BY <1>1, <1>2, <1>4, <1>5, <2>1 DEF PacketInv
<1>8. TaskInv'
  <2>1. ends' \in 0 .. EndBound /\ resets' \in 0 .. stream.resets /\ resets' > 0
    BY <1>1, <1>2, <1>6
  <2>2. eosBefore' \in BOOLEAN
    BY <1>1
  <2>. QED  BY <1>1, <1>3, <2>1, <2>2 DEF TaskInv
<1>. QED  BY <1>1, <1>3, <1>5, <1>6, <1>7, <1>8
-----------------------------------------------------------------------------
(***************************************************************************)
(* MPEG-4, and MPEG-2 up to the first reset: j pictures were handed over,  *)
(* and the next one is gathered, unless that was the last one, with the    *)
(* packet that ended the stream.                                           *)
(***************************************************************************)
Begins(s) ==
    IF s.codec = "mpg4" THEN VopBegins(Whole(s), Len(s.bytes)) ELSE M2vBegins(Whole(s), Len(s.bytes))

OverAt(s) ==
    IF s.codec = "mpg4" THEN CodeEnds(Whole(s), Len(s.bytes)) ELSE M2vEnds(Whole(s), Len(s.bytes))

ByCodes == stream.codec \in {"mpg4", "m2v"} /\ ~SplitEnded

Told == task.eos \/ ends > 0 \/ ctx.eos

CodesAt(j) ==
    /\ Handed = SubSeq(stream.pictures, 1, j)
    /\ \/ Gathering(stream, Begins(stream), Read, ctx, j)
       \/ j = Len(stream.places) /\ eosPut = "data" /\ packet = NoPacket
    /\ Told /\ ~eosBefore =>
          /\ packet = NoPacket /\ (ends > 0 => ~task.valid)
          /\ eosPut # "no"
          /\ j = IF eosPut = "data" THEN Len(stream.places) ELSE Len(stream.places) - 1

CodeInv ==
    ByCodes => /\ ctx \in SplitContext /\ (stream.codec = "m2v" => ctx.split)
               /\ \E j \in 0 .. Len(stream.places) : CodesAt(j)

LEMMA CodesOf ==
    ASSUME NEW s \in Streams, s.codec \in {"mpg4", "m2v"}
    PROVE  /\ CodeStream(s, Begins(s), OverAt(s))
           /\ PicturesLie(s)
           /\ s.codec = "m2v" =>
                 /\ \A p \in s.packets : p[2] \in CodeEnds(Whole(s), Len(s.bytes)) =>
                                            p[2] \in M2vEnds(Whole(s), Len(s.bytes))
                 /\ FlattenSeq(s.pictures) = s.bytes
<1>1. CodeStream(s, Begins(s), OverAt(s))
  <2>1. CASE s.codec = "mpg4"
    BY <2>1, Mpg4Stream DEF Begins, OverAt
  <2>2. CASE s.codec = "m2v"
    BY <2>2, M2vStream DEF Begins, OverAt
  <2>. QED  BY <2>1, <2>2
<1>2. PicturesLie(s)
  BY <1>1 DEF CodeStream
<1>. QED  BY <1>1, <1>2, M2vStream

(* A call of prepare over the bytes behind q splits them at the places of  *)
(* the whole stream.                                                       *)
SplitsAsWhole(s, q, n, c, src, eos, t) ==
    PrepareOf(s.codec, c, src, eos, t) =
      Prepared(SplitBy(InPart(Begins(s), q, n), InPart(OverAt(s), q, n), c, src, eos), src, NoTask)

LEMMA CodeCall ==
    ASSUME NEW s \in Streams, s.codec \in {"mpg4", "m2v"}, NEW q \in Nat, NEW n \in Nat, n > 0,
           NEW f \in Nat, f = q + n, f <= Len(s.bytes), \E p \in s.packets : p[2] = f,
           NEW c, s.codec = "m2v" => c.split, c.state = Between(Whole(s), q, q + 4),
           NEW eos, NEW t, NEW src, src = Between(s.bytes, q, f)
    PROVE  SplitsAsWhole(s, q, n, c, src, eos, t)
<1> USE DEF SplitsAsWhole
<1>1. s.bytes \in Seq(Bytes) /\ Len(s.bytes) \in Nat /\ q <= f /\ q # f /\ f - q = n
  BY StreamFacts
<1>2. Len(src) = n /\ src # <<>>
  <2>1. Len(Between(s.bytes, q, f)) = f - q
    BY <1>1, Cut
  <2>2. Between(s.bytes, q, f) # <<>>
    BY <1>1, CutEmpty
  <2>. QED  BY <1>1, <2>1, <2>2
<1>3. \A x, u : Prepared(x, src, u) = Prepared(x, src, NoTask)
  BY DEF Prepared
<1>4. CASE s.codec = "mpg4"
  <2> DEFINE w == Window(c, src)
  <2>1. /\ VopBegins(w, n) = InPart(VopBegins(Whole(s), Len(s.bytes)), q, n)
        /\ CodeEnds(w, n) = InPart(CodeEnds(Whole(s), Len(s.bytes)), q, n)
    <3>1. w = Window(c, Between(s.bytes, q, f))
      OBVIOUS
    <3> HIDE DEF w
    <3>. QED  BY <1>4, <3>1, Mpg4Codes
  <2>2. Mpg4Prepare(c, src, eos, t) =
           Prepared(SplitBy(VopBegins(w, n), CodeEnds(w, n), c, src, eos), src, t)
    BY <1>2 DEF Mpg4Prepare
  <2>3. PrepareOf(s.codec, c, src, eos, t) = Mpg4Prepare(c, src, eos, t)
    BY <1>4 DEF PrepareOf
  <2> HIDE DEF w
  <2>. QED  BY <1>3, <1>4, <2>1, <2>2, <2>3 DEF Begins, OverAt
<1>5. CASE s.codec = "m2v"
  <2> DEFINE w == Window(c, src)
  <2>1. /\ M2vBegins(w, n) = InPart(M2vBegins(Whole(s), Len(s.bytes)), q, n)
        /\ M2vEnds(w, n) = InPart(M2vEnds(Whole(s), Len(s.bytes)), q, n)
    <3>1. w = Window(c, Between(s.bytes, q, f))
      OBVIOUS
    <3>2. f \in CodeEnds(Whole(s), Len(s.bytes)) => f \in M2vEnds(Whole(s), Len(s.bytes))
      BY <1>5, CodesOf
    <3> HIDE DEF w
    <3>. QED  BY <1>5, <3>1, <3>2, M2vCodes
  <2>2. M2vPrepare(c, src, eos, t) =
           Prepared(SplitBy(M2vBegins(w, n), M2vEnds(w, n), c, src, eos), src, t)
    BY <1>2, <1>5 DEF M2vPrepare
  <2>3. PrepareOf(s.codec, c, src, eos, t) = M2vPrepare(c, src, eos, t)
    BY <1>5 DEF PrepareOf
  <2> HIDE DEF w
  <2>. QED  BY <1>3, <1>5, <2>1, <2>2, <2>3 DEF Begins, OverAt
<1>. QED  BY <1>4, <1>5

(* An empty packet that ends the stream.                                   *)
LEMMA EmptyPacket ==
    ASSUME PacketInv, packet # NoPacket, packet.data = <<>>
    PROVE  packet.eos /\ eosPut = "empty" /\ Read = put /\ put = Len(stream.bytes) /\ Len(packet.data) = 0
<1>1. packet \in [data : Seq(Bytes), eos : BOOLEAN] /\ put \in Nat
  BY StreamFacts DEF PacketInv
<1>2. packet.eos
  <2>1. packet = [data |-> packet.data, eos |-> packet.eos]
    BY <1>1
  <2>. QED  BY <1>1, <2>1 DEF NoPacket
<1>3. Len(packet.data) = 0
  BY NoPacketFacts DEF NoPacket
<1>4. eosPut = "empty" /\ put = Len(stream.bytes)
  BY <1>2 DEF PacketInv
<1>. QED  BY <1>1, <1>2, <1>3, <1>4 DEF Read

LEMMA FlushCall ==
    ASSUME PacketInv, TaskInv, Prepare, packet.data = <<>>,
           NEW r, r = PrepareOf(stream.codec, ctx, packet.data, packet.eos, task),
           stream.codec \in {"mpg4", "m2v", "h263"}
    PROVE  /\ Called(r, 0) /\ r.left = <<>> /\ r.ctx = ctx
           /\ ~r.task.valid /\ r.task.eos
<1>1. packet # NoPacket
  BY PrepareIs
<1>2. packet.eos /\ Len(packet.data) = 0
  BY <1>1, EmptyPacket
<1>3. r = Flushed(ctx, task)
  BY <1>2 DEF PrepareOf, Mpg4Prepare, M2vPrepare, H263Prepare
<1>4. task \in [valid : BOOLEAN, eos : BOOLEAN, data : {task.data}] /\ ~task.valid /\ task.data = <<>>
  BY PrepareIs DEF TaskInv
<1>5. r.left = <<>> /\ r.ctx = ctx /\ r.task = [task EXCEPT !.valid = FALSE, !.eos = TRUE]
  BY <1>3 DEF Flushed
<1>6. /\ r.task \in [valid : BOOLEAN, eos : BOOLEAN, data : {r.task.data}]
      /\ r.task.valid = FALSE /\ r.task.eos = TRUE /\ r.task.data = <<>>
  BY <1>4, <1>5
<1>7. After(packet.data, 0) = <<>>
  <2>1. packet.data \in Seq(Bytes)
    BY DEF PacketInv
  <2>2. SubSeq(packet.data, 1, Len(packet.data)) = packet.data
    BY <2>1, SubSeqFull
  <2>. QED  BY <2>2 DEF After
<1>8. 0 \in 0 .. Len(packet.data) /\ r.left = After(packet.data, 0)
  <2>1. Len(packet.data) \in Nat
    BY <1>2
  <2>. QED  BY ONLY <1>5, <1>7, <2>1
<1>9. Called(r, 0)
  BY ONLY <1>6, <1>8, r = PrepareOf(stream.codec, ctx, packet.data, packet.eos, task) DEF Called
<1>. QED  BY <1>5, <1>6, <1>9

LEMMA PrefixOf ==
    ASSUME NEW S, NEW s \in Seq(S), NEW j \in 0 .. Len(s)
    PROVE  /\ SubSeq(s, 1, j) \in Seq(S) /\ Len(SubSeq(s, 1, j)) = j
           /\ IsPrefix(SubSeq(s, 1, j), s)
           /\ j = Len(s) => SubSeq(s, 1, j) = s
           /\ j < Len(s) => SubSeq(s, 1, j + 1) = Append(SubSeq(s, 1, j), s[j + 1])
           /\ j = Len(s) - 1 => SubSeq(s, 1, j) = Front(s)
<1>1. SubSeq(s, 1, j) \in Seq(S) /\ Len(SubSeq(s, 1, j)) = j
  OBVIOUS
<1>2. SubSeq(SubSeq(s, 1, j), 1, j) = SubSeq(s, 1, j)
  BY <1>1
<1>3. IsPrefix(SubSeq(s, 1, j), s)
  BY <1>1, <1>2 DEF IsPrefix
<1>4. j = Len(s) => SubSeq(s, 1, j) = s
  OBVIOUS
<1>5. j < Len(s) => SubSeq(s, 1, j + 1) = Append(SubSeq(s, 1, j), s[j + 1])
  OBVIOUS
<1>. QED  BY <1>1, <1>3, <1>4, <1>5 DEF Front


(* What was given is a beginning of what was handed over.                  *)
LEMMA GivenOfHanded ==
    ASSUME TaskInv, NEW S, NEW z \in Seq(S), NEW j \in 0 .. Len(z), Handed = SubSeq(z, 1, j)
    PROVE  /\ IsPrefix(given, z)
           /\ ~task.valid => given = SubSeq(z, 1, j)
           /\ task.valid => j > 0
<1>1. CASE ~task.valid
  <2>1. given = SubSeq(z, 1, j)
    BY <1>1 DEF Handed
  <2>. QED  BY <1>1, <2>1, PrefixOf
<1>2. CASE task.valid
  <2>1. Append(given, task.data) = SubSeq(z, 1, j)
    BY <1>2 DEF Handed
  <2>2. PICK T : given \in Seq(T) /\ task.data \in T
    <3>1. given \in Seq(Range(given) \cup {task.data})
      BY SeqMonotonic DEF TaskInv
    <3>. QED  BY <3>1
  <2>3. SubSeq(z, 1, j) \in Seq(S) /\ Len(SubSeq(z, 1, j)) = j /\ \A i \in 1 .. j : SubSeq(z, 1, j)[i] = z[i]
    OBVIOUS
  <2>4. /\ Len(Append(given, task.data)) = Len(given) + 1 /\ Len(given) \in Nat
        /\ \A i \in 1 .. Len(given) : Append(given, task.data)[i] = given[i]
    BY <2>2
  <2>5. Len(given) + 1 = j /\ \A i \in 1 .. Len(given) : given[i] = z[i]
    BY <2>1, <2>3, <2>4
  <2>6. PICK k \in Nat : k = Len(given) /\ k <= Len(z) /\ (\A i \in 1 .. k : given[i] = z[i])
    BY <2>4, <2>5
  <2>7. SubSeq(given, 1, k) = SubSeq(z, 1, k)
    BY <2>2, <2>6
  <2>8. IsPrefix(given, z)
    BY ONLY <2>6, <2>7 DEF IsPrefix
  <2>9. j > 0
    BY <2>4, <2>5
  <2>. QED  BY <1>2, <2>8, <2>9
<1>. QED  BY <1>1, <1>2

LEMMA GatheredToEnd ==
    ASSUME NEW s \in Streams, NEW begins, NEW ends_, CodeStream(s, begins, ends_), NEW c, NEW j,
           Gathering(s, begins, Len(s.bytes), c, j)
    PROVE  j \in Nat /\ j = Len(s.places) - 1
<1>1. j \in 0 .. Len(s.places) - 1 /\ Len(s.bytes) < Seen(s, j + 1)
  BY DEF Gathering
<1>2. Len(s.places) \in Nat
  BY PlacesFacts DEF CodeStream
<1>3. PICK k \in 1 .. Len(s.places) : k = j + 1
  BY <1>1, <1>2
<1>4. Len(s.bytes) < Seen(s, k) => k = Len(s.places)
  BY PictureSought
<1>. QED  BY <1>1, <1>2, <1>3, <1>4

(* The bounds of the packet that is parsed.                                *)
LEMMA PartRead ==
    ASSUME PacketInv
    PROVE  /\ stream \in Streams /\ stream.bytes \in Seq(Bytes) /\ Len(stream.bytes) \in Nat \ {0}
           /\ packet \in [data : Seq(Bytes), eos : BOOLEAN]
           /\ Read \in Nat /\ put \in Nat /\ Len(packet.data) \in Nat /\ Read + Len(packet.data) = put
           /\ put <= Len(stream.bytes)
           /\ packet.data = Between(stream.bytes, Read, put)
           /\ packet.data # <<>> => Len(packet.data) > 0 /\ (\E p \in stream.packets : p[2] = put)
           /\ packet.data # <<>> /\ packet.eos => put = Len(stream.bytes) /\ eosPut = "data"
           /\ packet.data # <<>> /\ eosPut # "no" => packet.eos
<1>1. stream \in Streams /\ packet \in [data : Seq(Bytes), eos : BOOLEAN] /\ put \in 0 .. Len(stream.bytes)
      /\ Len(packet.data) <= put /\ packet.data = Between(stream.bytes, Read, put)
      /\ (put = 0 \/ \E p \in stream.packets : p[2] = put)
  BY DEF PacketInv
<1>2. stream.bytes \in Seq(Bytes) /\ Len(stream.bytes) \in Nat \ {0}
  BY <1>1, StreamFacts
<1>3. packet.data \in Seq(Bytes) /\ Len(packet.data) \in Nat /\ (packet.data # <<>> => Len(packet.data) > 0)
  BY <1>1, EmptySeq
<1>4. packet.data # <<>> /\ packet.eos => put = Len(stream.bytes) /\ eosPut = "data"
  BY DEF PacketInv
<1>5. packet.data # <<>> /\ eosPut # "no" => packet.eos
  BY DEF PacketInv
<1>6. put \in Nat /\ put <= Len(stream.bytes) /\ Read \in Nat /\ Read + Len(packet.data) = put
  BY <1>1, <1>2, <1>3 DEF Read
<1>7. packet.data # <<>> => put # 0
  BY <1>1, <1>3
<1>. QED  BY <1>1, <1>2, <1>3, <1>4, <1>5, <1>6, <1>7

LEMMA CodePrepare ==
    ASSUME PacketInv, TaskInv, CodeInv, ByCodes, Prepare
    PROVE  PacketInv' /\ TaskInv' /\ CodeInv'
<1> DEFINE m == Len(stream.places)
           r == PrepareOf(stream.codec, ctx, packet.data, packet.eos, task)
           q == Read
           n == Len(packet.data)
<1>1. /\ stream \in Streams /\ stream.codec \in {"mpg4", "m2v"}
      /\ CodeStream(stream, Begins(stream), OverAt(stream)) /\ PicturesLie(stream)
      /\ ctx \in SplitContext /\ (stream.codec = "m2v" => ctx.split)
  BY CodesOf DEF ByCodes, PacketInv, CodeInv
<1>2. m \in Nat \ {0} /\ Len(stream.pictures) = m /\ stream.pictures \in Seq(Seq(Bytes))
      /\ \A i \in 1 .. m : stream.pictures[i] # <<>>
  BY <1>1, PlacesFacts
<1>3. PICK j \in 0 .. m : CodesAt(j)
  BY DEF CodeInv
<1>4. packet # NoPacket /\ ~task.valid
  BY PrepareIs
<1>5. /\ Handed = SubSeq(stream.pictures, 1, j)
      /\ Gathering(stream, Begins(stream), q, ctx, j)
      /\ ~(Told /\ ~eosBefore)
  BY <1>3, <1>4 DEF CodesAt
<1>6. CASE packet.data = <<>>
  <2>1. Called(r, 0) /\ r.left = <<>> /\ r.ctx = ctx /\ ~r.task.valid /\ r.task.eos
    BY <1>1, <1>6, FlushCall
  <2> HIDE DEF r
  <2>2. /\ PacketInv' /\ TaskInv' /\ Read' = Read + 0 /\ Handed' = Handed
        /\ ctx' = ctx /\ task' = r.task /\ packet' = NoPacket /\ stream' = stream /\ eosPut' = eosPut
        /\ eosBefore' = eosBefore /\ resets' = resets
    BY <2>1, CommonPrepare
  <2>3. eosPut = "empty" /\ Read = Len(stream.bytes) /\ Read \in Nat
    BY <1>4, <1>6, EmptyPacket, PartRead
  <2>4. j = m - 1
    BY <1>1, <1>5, <2>3, GatheredToEnd
  <2>5. CodesAt(j)'
    BY <1>5, <2>1, <2>2, <2>3, <2>4 DEF CodesAt, Told
  <2>. QED  BY <1>1, <1>3, <2>2, <2>5 DEF CodeInv
<1>7. CASE packet.data # <<>>
  <2>1. /\ n > 0 /\ n \in Nat /\ q \in Nat /\ q + n = put /\ put \in Nat /\ put <= Len(stream.bytes)
        /\ packet.data = Between(stream.bytes, q, put)
        /\ (\E p \in stream.packets : p[2] = put)
        /\ packet.eos \in BOOLEAN /\ (packet.eos => put = Len(stream.bytes) /\ eosPut = "data")
        /\ (eosPut # "no" => packet.eos)
    BY <1>7, PartRead
  <2>2. ctx.state = Between(Whole(stream), q, q + 4)
    BY <1>5 DEF Gathering
  <2> HIDE DEF q, n, r
  <2>3. r = Prepared(SplitBy(InPart(Begins(stream), q, n), InPart(OverAt(stream), q, n), ctx, packet.data, packet.eos),
                     packet.data, NoTask)
    <3>1. /\ stream \in Streams /\ stream.codec \in {"mpg4", "m2v"} /\ q \in Nat /\ n \in Nat /\ n > 0
          /\ put \in Nat /\ put = q + n /\ put <= Len(stream.bytes) /\ (\E p \in stream.packets : p[2] = put)
          /\ (stream.codec = "m2v" => ctx.split) /\ ctx.state = Between(Whole(stream), q, q + 4)
          /\ packet.data = Between(stream.bytes, q, put)
      BY <1>1, <2>1, <2>2
    <3>2. PrepareOf(stream.codec, ctx, packet.data, packet.eos, task) =
             Prepared(SplitBy(InPart(Begins(stream), q, n), InPart(OverAt(stream), q, n), ctx, packet.data, packet.eos),
                      packet.data, NoTask)
      <4>1. SplitsAsWhole(stream, q, n, ctx, packet.data, packet.eos, task)
        BY ONLY <3>1, CodeCall
      <4>. QED  BY ONLY <4>1 DEF SplitsAsWhole
    <3>. QED  BY <3>2 DEF r
  <2>4. /\ r.ctx \in SplitContext /\ r.ctx.split = ctx.split
        /\ \/ ~packet.eos /\ GoesOn(stream, Begins(stream), q, n, ctx, j, r)
           \/ IsOver(stream, Begins(stream), q, n, ctx, j, packet.data, r)
           \/ packet.eos /\ IsLast(stream, j, r)
    <3>1. /\ stream \in Streams /\ CodeStream(stream, Begins(stream), OverAt(stream))
          /\ q \in Nat /\ n \in Nat /\ n > 0 /\ q + n <= Len(stream.bytes)
          /\ ctx \in SplitContext /\ Gathering(stream, Begins(stream), q, ctx, j)
          /\ packet.eos \in BOOLEAN /\ (packet.eos => q + n = Len(stream.bytes))
          /\ packet.data = Between(stream.bytes, q, q + n)
      BY <1>1, <1>5, <2>1 DEF q
    <3>. QED  BY ONLY <2>3, <3>1, SplitStep
  <2>5. j \in 0 .. m - 1
    BY <1>5 DEF Gathering
  <2>6. CASE ~packet.eos /\ GoesOn(stream, Begins(stream), q, n, ctx, j, r)
    <3>1. /\ r.left = <<>> /\ r.task = [valid |-> FALSE, eos |-> ctx.eos, data |-> <<>>]
          /\ r.ctx.eos = ctx.eos /\ Gathering(stream, Begins(stream), q + n, r.ctx, j)
      BY <2>6 DEF GoesOn
    <3>2. /\ r.task.valid = FALSE /\ r.task.eos = ctx.eos /\ r.task.data = <<>>
          /\ r.task \in [valid : BOOLEAN, eos : BOOLEAN, data : {r.task.data}]
      <4>1. ctx.eos \in BOOLEAN
        BY <1>1 DEF SplitContext
      <4>. QED  BY <3>1, <4>1
    <3>3. Called(r, n)
      <4>1. After(packet.data, n) = <<>>
        BY <2>1, PartRead DEF After, n
      <4>2. n \in 0 .. Len(packet.data)
        BY <2>1 DEF n
      <4>. QED  BY <3>1, <3>2, <4>1, <4>2 DEF Called, r
    <3>4. /\ PacketInv' /\ TaskInv' /\ Read' = q + n /\ Handed' = Handed
          /\ ctx' = r.ctx /\ task' = r.task /\ packet' = NoPacket /\ stream' = stream /\ eosPut' = eosPut
          /\ eosBefore' = eosBefore /\ resets' = resets
          /\ ends' = ends + (IF r.task.eos /\ ~r.task.valid THEN 1 ELSE 0)
      BY <3>1, <3>2, <3>3, CommonPrepare DEF q
    <3>5. Told' => Told
      <4>1. ends \in Nat
        BY DEF TaskInv
      <4>2. ~r.task.eos => ends' = ends
        BY <3>4, <4>1
      <4>3. ~ctx.eos => ~ctx'.eos /\ ~task'.eos /\ ends' = ends
        <5>1. ~ctx.eos => ~r.ctx.eos /\ ~r.task.eos
          BY ONLY <3>1, <3>2
        <5>. QED  BY ONLY <3>4, <4>2, <5>1
      <4>. QED  BY ONLY <4>3 DEF Told
    <3>6. CodesAt(j)'
      BY <1>5, <3>1, <3>4, <3>5 DEF CodesAt
    <3>. QED  BY <1>1, <1>3, <2>4, <3>4, <3>6 DEF CodeInv
  <2>7. CASE IsOver(stream, Begins(stream), q, n, ctx, j, packet.data, r)
    <3>1. PICK pos \in 1 .. n :
            /\ r.left = After(packet.data, pos)
            /\ r.task = [valid |-> TRUE, eos |-> ctx.eos, data |-> stream.pictures[j + 1]]
            /\ r.ctx.eos = ctx.eos
            /\ j + 1 < m /\ Gathering(stream, Begins(stream), q + pos, r.ctx, j + 1)
      BY <2>7 DEF IsOver
    <3>2. /\ r.task.valid = TRUE /\ r.task.eos = ctx.eos /\ r.task.data = stream.pictures[j + 1]
          /\ r.task.data # <<>>
          /\ r.task \in [valid : BOOLEAN, eos : BOOLEAN, data : {r.task.data}]
      <4>1. ctx.eos \in BOOLEAN
        BY <1>1 DEF SplitContext
      <4>2. j + 1 \in 1 .. m
        BY <1>2, <2>5
      <4>. QED  BY <1>2, <3>1, <4>1, <4>2
    <3>3. Called(r, pos)
      <4>1. pos \in 0 .. Len(packet.data)
        BY <2>1 DEF n
      <4>. QED  BY <3>1, <3>2, <4>1 DEF Called, r
    <3>4. /\ PacketInv' /\ TaskInv' /\ Read' = q + pos /\ Handed = given
          /\ Handed' = Append(given, stream.pictures[j + 1])
          /\ ctx' = r.ctx /\ task' = r.task /\ stream' = stream /\ eosPut' = eosPut
          /\ eosBefore' = eosBefore /\ resets' = resets /\ ends' = ends
      <4>1. ends \in Nat
        BY DEF TaskInv
      <4>. QED  BY <3>2, <3>3, <4>1, CommonPrepare DEF q
    <3>5. Told' => Told
      BY <3>1, <3>2, <3>4 DEF Told
    <3>6. Handed' = SubSeq(stream.pictures, 1, j + 1)
      BY <1>2, <1>5, <2>5, <3>4, PrefixOf
    <3>7. CodesAt(j + 1)'
      BY <1>5, <3>1, <3>4, <3>5, <3>6 DEF CodesAt
    <3>8. j + 1 \in 0 .. m
      BY <1>2, <2>5
    <3>. QED  BY <1>1, <2>4, <3>4, <3>7, <3>8 DEF CodeInv
  <2>8. CASE packet.eos /\ IsLast(stream, j, r)
    <3>1. /\ r.left = <<>> /\ j + 1 = m /\ r.ctx.eos
          /\ r.task = [valid |-> TRUE, eos |-> TRUE, data |-> stream.pictures[j + 1]]
      BY <2>8 DEF IsLast
    <3>2. /\ r.task.valid = TRUE /\ r.task.eos = TRUE /\ r.task.data = stream.pictures[j + 1]
          /\ r.task.data # <<>>
          /\ r.task \in [valid : BOOLEAN, eos : BOOLEAN, data : {r.task.data}]
      <4>1. j + 1 \in 1 .. m
        BY <1>2, <2>5
      <4>. QED  BY <1>2, <3>1, <4>1
    <3>3. Called(r, n)
      <4>1. After(packet.data, n) = <<>>
        BY <2>1, PartRead DEF After, n
      <4>2. n \in 0 .. Len(packet.data)
        BY <2>1 DEF n
      <4>. QED  BY <3>1, <3>2, <4>1, <4>2 DEF Called, r
    <3>4. /\ PacketInv' /\ TaskInv' /\ Handed = given
          /\ Handed' = Append(given, stream.pictures[j + 1])
          /\ ctx' = r.ctx /\ task' = r.task /\ packet' = NoPacket /\ stream' = stream /\ eosPut' = eosPut
          /\ eosBefore' = eosBefore /\ resets' = resets /\ ends' = ends
      <4>1. ends \in Nat
        BY DEF TaskInv
      <4>. QED  BY <3>1, <3>2, <3>3, <4>1, CommonPrepare
    <3>5. Handed' = SubSeq(stream.pictures, 1, j + 1)
      BY <1>2, <1>5, <2>5, <3>4, PrefixOf
    <3>6. eosPut = "data" /\ (ends > 0 => eosBefore)
      BY <1>5, <2>1, <2>8 DEF Told
    <3>7. CodesAt(j + 1)'
      BY <3>1, <3>4, <3>5, <3>6 DEF CodesAt
    <3>8. j + 1 \in 0 .. m
      BY <1>2, <2>5
    <3>. QED  BY <1>1, <2>4, <3>4, <3>7, <3>8 DEF CodeInv
  <2>. QED  BY <2>4, <2>6, <2>7, <2>8
<1>. QED  BY <1>6, <1>7

LEMMA GatheringStart ==
    ASSUME NEW s \in Streams, NEW begins, NEW ends_, CodeStream(s, begins, ends_),
           NEW c, c.dst = <<>>, c.state = SplitStart.state, ~c.found
    PROVE  Gathering(s, begins, 0, c, 0)
<1>1. /\ Len(s.places) \in Nat \ {0} /\ Len(s.bytes) \in Nat \ {0} /\ s.places[1][1] = 0
      /\ s.bytes \in Seq(Bytes)
  BY PlacesFacts, StreamFacts DEF CodeStream, Adjacent
<1>2. PICK k \in 1 .. Len(s.places) : k = 1
  BY <1>1
<1>3. Seen(s, 1) > 0
  <2>1. Seen(s, k) \in Nat /\ Seen(s, k) # 0
    BY PlacesFacts, PictureSought DEF CodeStream, Seen
  <2>. QED  BY <1>2, <2>1
<1>4. c.state = Between(Whole(s), 0, 4)
  <2>1. SplitStart.state = <<255, 255, 255, 255>>
    BY DEF SplitStart
  <2>2. /\ Whole(s) \in Seq(Bytes) /\ Len(Whole(s)) >= 4 /\ \A i \in 1 .. 4 : Whole(s)[i] = 255
    BY <1>1, WholeFacts
  <2>3. Between(Whole(s), 0, 4) = <<Whole(s)[1], Whole(s)[2], Whole(s)[3], Whole(s)[4]>>
    <3>1. /\ Between(Whole(s), 0, 4) \in Seq(Bytes) /\ Len(Between(Whole(s), 0, 4)) = 4
          /\ \A i \in 1 .. 4 : Between(Whole(s), 0, 4)[i] = Whole(s)[i]
      BY <2>2 DEF Between
    <3>2. /\ <<Whole(s)[1], Whole(s)[2], Whole(s)[3], Whole(s)[4]>> \in Seq(Bytes)
          /\ Len(<<Whole(s)[1], Whole(s)[2], Whole(s)[3], Whole(s)[4]>>) = 4
          /\ \A i \in 1 .. 4 : <<Whole(s)[1], Whole(s)[2], Whole(s)[3], Whole(s)[4]>>[i] = Whole(s)[i]
      BY <2>2
    <3>. QED  BY ONLY <3>1, <3>2, SeqEqual
  <2>4. 1 \in 1 .. 4 /\ 2 \in 1 .. 4 /\ 3 \in 1 .. 4 /\ 4 \in 1 .. 4
    OBVIOUS
  <2>5. <<Whole(s)[1], Whole(s)[2], Whole(s)[3], Whole(s)[4]>> = <<255, 255, 255, 255>>
    BY <2>2, <2>4
  <2>. QED  BY <2>1, <2>3, <2>5
<1>5. Held(c) = <<>>
  <2>1. Tail(c.state) # Prefix
    BY DEF SplitStart, Prefix
  <2>. QED  BY <2>1 DEF Held
<1>6. Between(s.bytes, 0, 0) = <<>>
  BY <1>1, CutAll
<1>7. ~ \E i \in begins : 0 + 3 < i /\ i <= 0
  BY DEF CodeStream
<1>8. 0 + 1 = 1 /\ 0 + 4 = 4 /\ 0 \in 0 .. Len(s.places) - 1
  BY <1>1
<1>. QED  BY <1>1, <1>3, <1>4, <1>5, <1>6, <1>7, <1>8 DEF Gathering

LEMMA CodeInit == Init => CodeInv
<1> SUFFICES ASSUME Init, ByCodes PROVE CodeInv
  BY DEF CodeInv
<1>1. /\ stream \in Streams /\ stream.codec \in {"mpg4", "m2v"} /\ ctx = SplitStart /\ ends = 0
      /\ ~task.eos /\ Read = 0 /\ Handed = <<>>
  BY CommonInit DEF Init, ByCodes, ContextOf, NoTask
<1>2. /\ CodeStream(stream, Begins(stream), OverAt(stream)) /\ PicturesLie(stream)
  BY <1>1, CodesOf
<1>3. Len(stream.places) \in Nat /\ stream.pictures \in Seq(Seq(Bytes))
  BY <1>1, <1>2, PlacesFacts
<1>4. /\ ctx \in SplitContext /\ ctx.split /\ ctx.dst = <<>> /\ ctx.state = SplitStart.state /\ ~ctx.found /\ ~ctx.eos
  BY <1>1 DEF SplitStart, SplitContext, Bytes
<1>5. Gathering(stream, Begins(stream), Read, ctx, 0)
  BY <1>1, <1>2, <1>4, GatheringStart
<1>6. SubSeq(stream.pictures, 1, 0) = <<>>
  BY <1>3
<1>7. CodesAt(0)
  BY <1>1, <1>4, <1>5, <1>6 DEF CodesAt, Told
<1>. QED  BY <1>3, <1>4, <1>7 DEF CodeInv

LEMMA CodeUser ==
    ASSUME PacketInv, TaskInv, CodeInv, (\E to \in 1 .. Len(stream.bytes) : PutPacket(to)) \/ PutEnd
    PROVE  CodeInv'
<1> SUFFICES ASSUME ByCodes' PROVE CodeInv'
  BY DEF CodeInv
<1>1. /\ Read' = Read /\ Handed' = Handed /\ eosPut = "no"
      /\ UNCHANGED <<stream, ctx, task, given, ends, resets, eosBefore>>
  <2>1. CASE \E to \in 1 .. Len(stream.bytes) : PutPacket(to)
    BY <2>1, CommonPut DEF PutPacket
  <2>2. CASE PutEnd
    BY <2>2, CommonEnd DEF PutEnd
  <2>. QED  BY <2>1, <2>2
<1>2. ByCodes
  BY <1>1 DEF ByCodes, SplitEnded
<1>3. PICK j \in 0 .. Len(stream.places) : CodesAt(j)
  BY <1>2 DEF CodeInv
<1>4. CodesAt(j)'
  BY <1>1, <1>3 DEF CodesAt, Told
<1>. QED  BY <1>1, <1>2, <1>3, <1>4 DEF CodeInv

LEMMA CodeParse ==
    ASSUME PacketInv, TaskInv, CodeInv, Parse
    PROVE  CodeInv'
<1> SUFFICES ASSUME ByCodes' PROVE CodeInv'
  BY DEF CodeInv
<1>1. /\ Read' = Read /\ Handed' = Handed /\ ~task'.eos /\ ~task'.valid
      /\ ctx' = (IF stream.codec = "h263" THEN H263Parsed(ctx) ELSE ctx)
      /\ ends' = ends + (IF task.eos \/ (stream.codec = "h265" /\ ctx.eos) THEN 1 ELSE 0)
      /\ UNCHANGED <<stream, put, eosPut, packet, resets, eosBefore>>
  BY CommonParse
<1>2. ByCodes /\ ctx' = ctx /\ ends' = ends + (IF task.eos THEN 1 ELSE 0)
  BY <1>1 DEF ByCodes, SplitEnded
<1>3. PICK j \in 0 .. Len(stream.places) : CodesAt(j)
  BY <1>2 DEF CodeInv
<1>4. Told' => Told
  <2>1. ends \in Nat
    BY DEF TaskInv
  <2>. QED  BY <1>1, <1>2, <2>1 DEF Told
<1>5. CodesAt(j)'
  BY <1>1, <1>2, <1>3, <1>4 DEF CodesAt
<1>. QED  BY <1>1, <1>2, <1>3, <1>5 DEF CodeInv

LEMMA CodeReset ==
    ASSUME PacketInv, TaskInv, CodeInv, Reset
    PROVE  CodeInv'
<1> SUFFICES ASSUME ByCodes' PROVE CodeInv'
  BY DEF CodeInv
<1>1. /\ Read' = 0 /\ Handed' = <<>> /\ ~task'.eos /\ ends' = 0 /\ resets' > 0
      /\ eosBefore' = (eosBefore \/ eosPut # "no")
      /\ ctx' = ResetOf(stream.codec, ctx) /\ stream' = stream /\ stream \in Streams
  BY CommonReset DEF PacketInv
<1>2. stream.codec = "mpg4" /\ ByCodes /\ ctx' = Mpg4SplitReset(ctx)
  BY <1>1 DEF ByCodes, SplitEnded, ResetOf
<1>3. PICK j \in 0 .. Len(stream.places) : CodesAt(j)
  BY <1>2 DEF CodeInv
<1>4. ctx \in SplitContext
  BY <1>2 DEF CodeInv
<1>5. /\ CodeStream(stream, Begins(stream), OverAt(stream)) /\ PicturesLie(stream)
  BY <1>1, <1>2, CodesOf
<1>6. Len(stream.places) \in Nat /\ stream.pictures \in Seq(Seq(Bytes))
  BY <1>1, <1>5, PlacesFacts
<1>7. /\ ctx' \in SplitContext /\ ctx'.dst = <<>> /\ ctx'.state = SplitStart.state /\ ~ctx'.found
      /\ ctx'.eos = ctx.eos
  <2>1. SplitStart.state \in Seq(Bytes) /\ <<>> \in Seq(Bytes)
    BY DEF SplitStart, Bytes
  <2>. QED  BY ONLY <1>2, <1>4, <2>1 DEF SplitContext, Mpg4SplitReset
<1>8. Gathering(stream, Begins(stream), Read', ctx', 0)
  BY <1>1, <1>5, <1>7, GatheringStart
<1>9. SubSeq(stream.pictures, 1, 0) = <<>>
  BY <1>6
<1>10. ~(Told' /\ ~eosBefore')
  <2>1. Told /\ ~eosBefore => eosPut # "no"
    BY <1>3 DEF CodesAt
  <2>2. ~eosBefore' => ~eosBefore /\ eosPut = "no"
    BY <1>1
  <2>3. ctx'.eos => ctx.eos
    BY <1>7
  <2>4. Told' => ctx'.eos
    BY <1>1 DEF Told
  <2>5. ctx.eos => Told
    BY DEF Told
  <2>. QED  BY ONLY <2>1, <2>2, <2>3, <2>4, <2>5
<1>11. CodesAt(0)'
  BY <1>1, <1>8, <1>9, <1>10 DEF CodesAt
<1>. QED  BY <1>1, <1>2, <1>6, <1>7, <1>11 DEF CodeInv

(* What the invariant says of the pictures and of the end.                 *)
LEMMA CodeGives ==
    ASSUME PacketInv, TaskInv, CodeInv, ByCodes
    PROVE  PicturesIntact /\ EndsComplete
<1>1. stream \in Streams /\ stream.codec \in {"mpg4", "m2v"}
  BY DEF PacketInv, ByCodes
<1>2. PicturesLie(stream)
  BY <1>1, CodesOf
<1>3. Len(stream.places) \in Nat \ {0} /\ stream.pictures \in Seq(Seq(Bytes)) /\ Len(stream.pictures) = Len(stream.places)
  BY <1>1, <1>2, PlacesFacts
<1>4. PICK j \in 0 .. Len(stream.places) : CodesAt(j)
  BY DEF CodeInv
<1>5. /\ IsPrefix(given, stream.pictures)
      /\ ~task.valid => given = SubSeq(stream.pictures, 1, j)
  <2>1. Handed = SubSeq(stream.pictures, 1, j) /\ j \in 0 .. Len(stream.pictures)
    BY <1>3, <1>4 DEF CodesAt
  <2>. QED  BY <1>3, <2>1, GivenOfHanded
<1>6. PicturesIntact
  BY <1>1, <1>5 DEF PicturesIntact, EndWithBytes, ByCodes
<1>7. EndsComplete
  <2> SUFFICES ASSUME ends > 0, ~StaleEnd PROVE EndsComplete
    BY DEF EndsComplete
  <2>1. ~eosBefore
    <3>1. CASE stream.codec = "mpg4"
      BY <3>1 DEF StaleEnd
    <3>2. CASE stream.codec = "m2v"
      BY <3>2 DEF ByCodes, SplitEnded, TaskInv
    <3>. QED  BY <1>1, <3>1, <3>2
  <2>2. /\ ~task.valid /\ eosPut # "no"
        /\ j = IF eosPut = "data" THEN Len(stream.places) ELSE Len(stream.places) - 1
    BY <1>4, <2>1 DEF CodesAt, Told
  <2>3. eosPut = "data" => given = stream.pictures
    BY <1>3, <1>5, <2>2, PrefixOf
  <2>4. eosPut # "data" => given = Front(stream.pictures)
    BY <1>3, <1>5, <2>2, PrefixOf
  <2>. QED  BY <1>1, <2>2, <2>3, <2>4 DEF EndsComplete, EndWithBytes, ByCodes
<1>. QED  BY <1>6, <1>7
-----------------------------------------------------------------------------
(***************************************************************************)
(* What FlattenSeq computes: it is a recursive function, which there is    *)
(* for every length, and is the same for a sequence and for a longer one.  *)
(***************************************************************************)
(* A set of numbers with 0 and with the successor of each has them all: a  *)
(* least number that is missing would have a predecessor.                  *)
LEMMA AllNumbers ==
    ASSUME NEW K, 0 \in K, \A n \in Nat : n \in K => n + 1 \in K
    PROVE  \A n \in Nat : n \in K
<1> DEFINE R == {p \in Nat \X Nat : p[1] < p[2]}
           T == Nat \ K
<1>1. IsWellFoundedOn(R, Nat)
  BY NatLessThanWellFounded DEF OpToRel
<1>2. \A m, n \in Nat : <<m, n>> \in R <=> m < n
  OBVIOUS
<1> HIDE DEF R
<1>3. SUFFICES ASSUME T # {} PROVE FALSE
  OBVIOUS
<1>4. T \subseteq Nat
  OBVIOUS
<1> HIDE DEF T
<1>5. PICK n \in T : \A m \in T : <<m, n>> \notin R
  BY <1>1, <1>3, <1>4, WFMin, Zenon
<1>6. n \in Nat /\ n # 0 /\ n - 1 \in Nat /\ n - 1 < n
  BY <1>4 DEF T
<1>7. n - 1 \in T
  BY <1>6 DEF T
<1>. QED  BY <1>2, <1>5, <1>6, <1>7

(* The first i parts of s, joined.                                         *)
JoinStep(s, f, i) == IF i = 1 THEN s[i] ELSE f[i - 1] \o s[i]
Joins(s, n, f)    == f = [i \in 1 .. n |-> JoinStep(s, f, i)]
Joined(s)         == CHOOSE f : Joins(s, Len(s), f)

LEMMA FlattenIs == \A s : FlattenSeq(s) = IF Len(s) = 0 THEN s ELSE Joined(s)[Len(s)]
BY DEF FlattenSeq, Joined, Joins, JoinStep

LEMMA JoinedExists ==
    ASSUME NEW s
    PROVE  \A n \in Nat : \E f : Joins(s, n, f)
<1> DEFINE K == {n \in Nat : \E f : Joins(s, n, f)}
<1>1. 0 \in K
  <2>1. Joins(s, 0, [i \in 1 .. 0 |-> 0])
    BY DEF Joins
  <2>. QED  BY <2>1
<1>2. ASSUME NEW n \in Nat, n \in K PROVE n + 1 \in K
  <2>1. PICK f : Joins(s, n, f)
    BY <1>2
  <2> DEFINE g == [i \in 1 .. n + 1 |-> JoinStep(s, f, i)]
  <2>2. \A i \in 1 .. n : f[i] = JoinStep(s, f, i) /\ g[i] = f[i]
    BY <2>1 DEF Joins
  <2>3. ASSUME NEW i \in 1 .. n + 1 PROVE JoinStep(s, f, i) = JoinStep(s, g, i)
    <3>1. i # 1 => i - 1 \in 1 .. n
      OBVIOUS
    <3> HIDE DEF g
    <3>. QED  BY <2>2, <3>1 DEF JoinStep
  <2>4. Joins(s, n + 1, g)
    BY <2>3, Zenon DEF Joins
  <2>. QED  BY <2>4
<1> HIDE DEF K
<1>3. \A n \in Nat : n \in K
  BY <1>1, <1>2, AllNumbers
<1>. QED  BY <1>3 DEF K

SameUpTo(s, t, n) == \A i \in 1 .. n : s[i] = t[i]

LEMMA JoinedSame ==
    ASSUME NEW s, NEW t, NEW n \in Nat, NEW m \in Nat, n <= m, NEW f, NEW g,
           Joins(s, n, f), Joins(t, m, g), SameUpTo(s, t, n)
    PROVE  SameUpTo(f, g, n)
<1> USE DEF SameUpTo
<1> DEFINE K == {k \in Nat : k \in 1 .. n => f[k] = g[k]}
<1>1. \A i \in 1 .. n : f[i] = JoinStep(s, f, i) /\ g[i] = JoinStep(t, g, i)
  <2>1. \A i \in 1 .. n : i \in 1 .. m
    OBVIOUS
  <2>2. f = [i \in 1 .. n |-> JoinStep(s, f, i)] /\ g = [i \in 1 .. m |-> JoinStep(t, g, i)]
    BY DEF Joins
  <2>. QED  BY <2>1, <2>2
<1>2. 0 \in K
  OBVIOUS
<1>3. ASSUME NEW k \in Nat, k \in K PROVE k + 1 \in K
  <2>1. SUFFICES ASSUME k + 1 \in 1 .. n PROVE f[k + 1] = g[k + 1]
    OBVIOUS
  <2>2. f[k + 1] = JoinStep(s, f, k + 1) /\ g[k + 1] = JoinStep(t, g, k + 1) /\ s[k + 1] = t[k + 1]
    BY <1>1, <2>1
  <2>3. k + 1 # 1 => k \in 1 .. n /\ (k + 1) - 1 = k
    BY <2>1
  <2>4. k + 1 # 1 => f[(k + 1) - 1] = g[(k + 1) - 1]
    BY <1>3, <2>3
  <2>. QED  BY <2>2, <2>4 DEF JoinStep
<1> HIDE DEF K
<1>4. \A k \in Nat : k \in K
  BY <1>2, <1>3, AllNumbers
<1>. QED  BY <1>4 DEF K

LEMMA JoinedType ==
    ASSUME NEW S, NEW s \in Seq(Seq(S)), NEW n \in 0 .. Len(s), NEW f, Joins(s, n, f)
    PROVE  \A i \in 1 .. n : f[i] \in Seq(S)
<1> DEFINE K == {k \in Nat : k \in 1 .. n => f[k] \in Seq(S)}
<1>1. \A i \in 1 .. n : f[i] = JoinStep(s, f, i) /\ s[i] \in Seq(S)
  <2>1. \A i \in 1 .. n : s[i] \in Seq(S)
    OBVIOUS
  <2>2. f = [i \in 1 .. n |-> JoinStep(s, f, i)]
    BY DEF Joins
  <2>3. \A i \in 1 .. n : f[i] = JoinStep(s, f, i)
    BY <2>2
  <2>. QED  BY <2>1, <2>3
<1>2. 0 \in K
  OBVIOUS
<1>3. ASSUME NEW k \in Nat, k \in K PROVE k + 1 \in K
  <2>1. SUFFICES ASSUME k + 1 \in 1 .. n PROVE f[k + 1] \in Seq(S)
    OBVIOUS
  <2>2. f[k + 1] = JoinStep(s, f, k + 1) /\ s[k + 1] \in Seq(S)
    BY <1>1, <2>1
  <2>3. k + 1 # 1 => f[(k + 1) - 1] \in Seq(S)
    BY <1>3, <2>1
  <2>. QED  BY <2>2, <2>3 DEF JoinStep
<1> HIDE DEF K
<1>4. \A k \in Nat : k \in K
  BY <1>2, <1>3, AllNumbers
<1>. QED  BY <1>4 DEF K

LEMMA FlattenAppend ==
    ASSUME NEW S, NEW s \in Seq(Seq(S)), NEW x \in Seq(S)
    PROVE  /\ FlattenSeq(s) \in Seq(S)
           /\ FlattenSeq(Append(s, x)) = FlattenSeq(s) \o x
<1> DEFINE n == Len(s)
           t == Append(s, x)
<1>1. /\ n \in Nat /\ t \in Seq(Seq(S)) /\ Len(t) = n + 1 /\ t[n + 1] = x
      /\ \A i \in 1 .. n : s[i] = t[i]
  OBVIOUS
<1> HIDE DEF n, t
<1>2. PICK f : Joins(s, n, f) /\ f = Joined(s)
  BY <1>1, JoinedExists DEF Joined, n
<1>3. PICK g : Joins(t, n + 1, g) /\ g = Joined(t)
  <2>1. PICK k \in Nat : k = n + 1
    BY <1>1
  <2>2. \E z : Joins(t, k, z)
    BY JoinedExists
  <2>. QED  BY <1>1, <2>1, <2>2 DEF Joined
<1>4. \A i \in 1 .. n : f[i] = g[i]
  <2>1. PICK k \in Nat : k = n + 1
    BY <1>1
  <2>2. n \in Nat /\ k \in Nat /\ n <= k /\ Joins(s, n, f) /\ Joins(t, k, g) /\ SameUpTo(s, t, n)
    BY <1>1, <1>2, <1>3, <2>1 DEF SameUpTo
  <2>3. SameUpTo(f, g, n)
    BY ONLY <2>2, JoinedSame
  <2>. QED  BY <2>3 DEF SameUpTo
<1>5. g[n + 1] = JoinStep(t, g, n + 1)
  <2>1. PICK k \in Nat : k = n + 1 /\ k \in 1 .. k
    BY <1>1
  <2>2. g = [i \in 1 .. k |-> JoinStep(t, g, i)]
    BY <1>3, <2>1 DEF Joins
  <2>3. g[k] = JoinStep(t, g, k)
    BY <2>1, <2>2
  <2>. QED  BY <2>1, <2>3
<1>6. FlattenSeq(t) = g[n + 1]
  BY <1>1, <1>3, FlattenIs
<1>7. CASE n = 0
  <2>1. s = <<>>
    BY <1>7, EmptySeq DEF n
  <2>2. FlattenSeq(s) = s
    BY <1>7, FlattenIs DEF n
  <2>3. g[n + 1] = x
    BY <1>1, <1>5, <1>7 DEF JoinStep
  <2>4. FlattenSeq(s) = <<>> /\ FlattenSeq(t) = x /\ <<>> \in Seq(S) /\ <<>> \o x = x
    BY <1>6, <2>1, <2>2, <2>3
  <2>. QED  BY <2>4 DEF t
<1>8. CASE n # 0
  <2>1. FlattenSeq(s) = f[n] /\ n \in 1 .. n
    BY <1>1, <1>2, <1>8, FlattenIs DEF n
  <2>2. f[n] \in Seq(S)
    BY <1>1, <1>2, <2>1, JoinedType DEF n
  <2>3. g[n + 1] = g[n] \o x
    BY <1>1, <1>5, <1>8 DEF JoinStep
  <2>. QED  BY <1>4, <1>6, <2>1, <2>2, <2>3 DEF t
<1>. QED  BY <1>7, <1>8

LEMMA FlattenEmpty == FlattenSeq(<<>>) = <<>>
BY FlattenIs

LEMMA BeginningOf ==
    ASSUME NEW S, NEW B \in Seq(S), NEW q \in Nat, q <= Len(B), NEW x \in Seq(S), NEW y \in Seq(S),
           x \o y = Between(B, 0, q)
    PROVE  IsPrefix(x, B)
<1>1. /\ Len(x \o y) = Len(x) + Len(y) /\ Len(x) \in Nat /\ Len(y) \in Nat
      /\ \A i \in 1 .. Len(x) : (x \o y)[i] = x[i]
  <2>1. \A i \in 1 .. Len(x) : (x \o y)[i] = x[i]
    OBVIOUS
  <2>. QED  BY <2>1
<1>2. Len(Between(B, 0, q)) = q /\ \A i \in 1 .. q : Between(B, 0, q)[i] = B[i]
  BY DEF Between
<1>3. PICK k \in Nat : k = Len(x) /\ k <= q
  BY <1>1, <1>2
<1>4. \A i \in 1 .. k : x[i] = B[i]
  BY <1>1, <1>2, <1>3
<1>5. SubSeq(x, 1, k) = SubSeq(B, 1, k) /\ k <= Len(B)
  BY <1>3, <1>4
<1>. QED  BY ONLY <1>3, <1>5 DEF IsPrefix

(***************************************************************************)
(* MPEG-2 after a reset: the packets are handed over one after the other,  *)
(* no byte is lost or doubled.                                             *)
(***************************************************************************)
CopyInv ==
    SplitEnded =>
        /\ ctx \in SplitContext /\ ~ctx.split
        /\ Handed \in Seq(Seq(Bytes)) /\ FlattenSeq(Handed) = Between(stream.bytes, 0, Read)
        /\ task.eos \/ ends > 0 => eosPut # "no"

LEMMA CopyUser ==
    ASSUME PacketInv, TaskInv, CopyInv, (\E to \in 1 .. Len(stream.bytes) : PutPacket(to)) \/ PutEnd
    PROVE  CopyInv'
<1> SUFFICES ASSUME SplitEnded' PROVE CopyInv'
  BY DEF CopyInv
<1>1. /\ Read' = Read /\ Handed' = Handed /\ eosPut = "no"
      /\ UNCHANGED <<stream, ctx, task, given, ends, resets, eosBefore>>
  <2>1. CASE \E to \in 1 .. Len(stream.bytes) : PutPacket(to)
    BY <2>1, CommonPut DEF PutPacket
  <2>2. CASE PutEnd
    BY <2>2, CommonEnd DEF PutEnd
  <2>. QED  BY <2>1, <2>2
<1>2. SplitEnded
  BY <1>1 DEF SplitEnded
<1>. QED  BY <1>1, <1>2 DEF CopyInv

LEMMA CopyParse ==
    ASSUME PacketInv, TaskInv, CopyInv, Parse
    PROVE  CopyInv'
<1> SUFFICES ASSUME SplitEnded' PROVE CopyInv'
  BY DEF CopyInv
<1>1. /\ Read' = Read /\ Handed' = Handed /\ ~task'.eos
      /\ ctx' = (IF stream.codec = "h263" THEN H263Parsed(ctx) ELSE ctx)
      /\ ends' = ends + (IF task.eos \/ (stream.codec = "h265" /\ ctx.eos) THEN 1 ELSE 0)
      /\ UNCHANGED <<stream, put, eosPut, packet, resets, eosBefore>>
  BY CommonParse
<1>2. SplitEnded /\ stream.codec = "m2v"
  BY <1>1 DEF SplitEnded
<1>3. ctx' = ctx /\ ends' = ends + (IF task.eos THEN 1 ELSE 0) /\ ends \in Nat
  BY <1>1, <1>2 DEF TaskInv
<1>4. ends' > 0 => task.eos \/ ends > 0
  BY <1>3
<1>. QED  BY <1>1, <1>2, <1>3, <1>4 DEF CopyInv

LEMMA CopyReset ==
    ASSUME PacketInv, TaskInv, CodeInv, CopyInv, Reset
    PROVE  CopyInv'
<1> SUFFICES ASSUME SplitEnded' PROVE CopyInv'
  BY DEF CopyInv
<1>1. /\ Read' = 0 /\ Handed' = <<>> /\ ~task'.eos /\ ends' = 0
      /\ ctx' = ResetOf(stream.codec, ctx) /\ stream' = stream /\ stream \in Streams
  BY CommonReset DEF PacketInv
<1>2. stream.codec = "m2v" /\ ctx' = M2vSplitReset(ctx)
  BY <1>1 DEF SplitEnded, ResetOf
<1>3. ctx \in SplitContext
  BY <1>2 DEF CodeInv, CopyInv, ByCodes
<1>4. ctx' \in SplitContext /\ ~ctx'.split
  BY <1>2, <1>3, EmptySeq DEF SplitContext, M2vSplitReset
<1>5. Between(stream.bytes, 0, 0) = <<>> /\ <<>> \in Seq(Seq(Bytes))
  BY <1>1, StreamFacts, CutAll
<1>. QED  BY <1>1, <1>4, <1>5, FlattenEmpty DEF CopyInv

LEMMA CopyPrepare ==
    ASSUME PacketInv, TaskInv, CopyInv, SplitEnded, Prepare
    PROVE  PacketInv' /\ TaskInv' /\ CopyInv'
<1> DEFINE r == PrepareOf(stream.codec, ctx, packet.data, packet.eos, task)
           n == Len(packet.data)
<1>1. /\ stream.codec = "m2v" /\ ctx \in SplitContext /\ ~ctx.split
      /\ Handed \in Seq(Seq(Bytes)) /\ FlattenSeq(Handed) = Between(stream.bytes, 0, Read)
      /\ (task.eos \/ ends > 0 => eosPut # "no")
  BY DEF SplitEnded, CopyInv
<1>2. packet # NoPacket /\ ~task.valid
  BY PrepareIs
<1>3. CASE packet.data = <<>>
  <2>1. Called(r, 0) /\ r.left = <<>> /\ r.ctx = ctx /\ ~r.task.valid /\ r.task.eos
    BY <1>1, <1>3, FlushCall
  <2> HIDE DEF r
  <2>2. /\ PacketInv' /\ TaskInv' /\ Read' = Read + 0 /\ Handed' = Handed
        /\ ctx' = ctx /\ stream' = stream /\ eosPut' = eosPut
    BY <2>1, CommonPrepare
  <2>3. eosPut = "empty" /\ Read \in Nat
    BY <1>2, <1>3, EmptyPacket, PartRead
  <2>. QED  BY <1>1, <2>2, <2>3 DEF CopyInv
<1>4. CASE packet.data # <<>>
  <2>1. r = [ctx |-> ctx, left |-> <<>>, task |-> [valid |-> TRUE, eos |-> packet.eos, data |-> packet.data]]
    BY <1>1, <1>4 DEF PrepareOf, M2vPrepare
  <2>2. /\ packet.eos \in BOOLEAN /\ packet.data \in Seq(Bytes) /\ (packet.eos => eosPut # "no")
        /\ stream.bytes \in Seq(Bytes)
        /\ n \in Nat /\ Read \in Nat /\ put \in Nat /\ Read + n = put /\ put <= Len(stream.bytes)
        /\ packet.data = Between(stream.bytes, Read, put)
    BY PartRead DEF PacketInv
  <2> HIDE DEF r
  <2>3. /\ r.left = <<>> /\ r.ctx = ctx /\ r.task.valid = TRUE /\ r.task.eos = packet.eos
        /\ r.task.data = packet.data
        /\ r.task \in [valid : BOOLEAN, eos : BOOLEAN, data : {r.task.data}]
    BY <2>1, <2>2
  <2>4. Called(r, n)
    <3>1. After(packet.data, n) = <<>>
      BY <2>2 DEF After
    <3>2. n \in 0 .. Len(packet.data)
      BY <2>2
    <3>. QED  BY <1>4, <2>3, <3>1, <3>2 DEF Called, r
  <2>5. /\ PacketInv' /\ TaskInv' /\ Read' = Read + n /\ Handed' = Append(Handed, packet.data)
        /\ ctx' = ctx /\ task' = r.task /\ stream' = stream /\ eosPut' = eosPut /\ ends' = ends
    <3>1. ends \in Nat
      BY DEF TaskInv
    <3>. QED  BY <2>3, <2>4, <3>1, CommonPrepare
  <2>6. /\ Append(Handed, packet.data) \in Seq(Seq(Bytes))
        /\ FlattenSeq(Append(Handed, packet.data)) = Between(stream.bytes, 0, Read) \o packet.data
    <3>1. PICK s \in Seq(Seq(Bytes)) : s = Handed
      BY <1>1
    <3>2. PICK x \in Seq(Bytes) : x = packet.data
      BY <2>2
    <3>3. FlattenSeq(Append(s, x)) = FlattenSeq(s) \o x
      BY FlattenAppend
    <3>. QED  BY <1>1, <3>1, <3>2, <3>3
  <2>7. Between(stream.bytes, 0, Read) \o Between(stream.bytes, Read, put) = Between(stream.bytes, 0, put)
    <3>1. /\ 0 \in Nat /\ Read \in Nat /\ put \in Nat /\ 0 <= Read /\ Read <= put /\ put <= Len(stream.bytes)
          /\ stream.bytes \in Seq(Bytes)
      BY <2>2
    <3>. QED  BY ONLY <3>1, CutsJoin
  <2>8. task'.eos => eosPut # "no"
    BY <2>2, <2>3, <2>5
  <2>. QED  BY <1>1, <2>2, <2>5, <2>6, <2>7, <2>8 DEF CopyInv
<1>. QED  BY <1>3, <1>4

(* What was given of the bytes.                                            *)
LEMMA GivenJoined ==
    ASSUME TaskInv, NEW B \in Seq(Bytes), NEW q \in Nat, q <= Len(B), Handed \in Seq(Seq(Bytes)),
           FlattenSeq(Handed) = Between(B, 0, q)
    PROVE  IsPrefix(FlattenSeq(given), B)
<1>1. CASE ~task.valid
  <2>1. FlattenSeq(given) = Between(B, 0, q)
    BY <1>1 DEF Handed
  <2>2. Between(B, 0, q) = SubSeq(B, 1, q) /\ q \in 0 .. Len(B)
    BY DEF Between
  <2>. QED  BY <2>1, <2>2, PrefixOf
<1>2. CASE task.valid
  <2>1. Handed = Append(given, task.data)
    BY <1>2 DEF Handed
  <2>2. given \in Seq(Range(given) \cup {task.data})
    BY SeqMonotonic DEF TaskInv
  <2>3. given \in Seq(Seq(Bytes)) /\ task.data \in Seq(Bytes)
    <3>1. /\ Len(Handed) = Len(given) + 1 /\ Len(given) \in Nat
          /\ \A i \in 1 .. Len(given) : given[i] = Handed[i]
          /\ Handed[Len(given) + 1] = task.data
      BY <2>1, <2>2
    <3>2. \A i \in 1 .. Len(Handed) : Handed[i] \in Seq(Bytes)
      OBVIOUS
    <3>3. \A i \in 1 .. Len(given) : given[i] \in Seq(Bytes)
      BY <3>1, <3>2
    <3>4. task.data \in Seq(Bytes)
      BY <3>1, <3>2
    <3>5. given \in Seq(Seq(Bytes))
      BY ONLY <2>2, <3>3
    <3>. QED  BY <3>4, <3>5
  <2>4. FlattenSeq(given) \in Seq(Bytes) /\ FlattenSeq(given) \o task.data = Between(B, 0, q)
    BY <2>1, <2>3, FlattenAppend
  <2>. QED  BY <2>3, <2>4, BeginningOf
<1>. QED  BY <1>1, <1>2

LEMMA CopyGives ==
    ASSUME PacketInv, TaskInv, CopyInv, SplitEnded
    PROVE  PicturesIntact /\ EndsComplete
<1>1. stream \in Streams /\ stream.codec = "m2v" /\ FlattenSeq(stream.pictures) = stream.bytes
  BY CodesOf DEF PacketInv, SplitEnded
<1>2. IsPrefix(FlattenSeq(given), stream.bytes)
  <2>1. Read \in Nat /\ Read <= Len(stream.bytes) /\ stream.bytes \in Seq(Bytes)
    BY PartRead
  <2>. QED  BY <2>1, GivenJoined DEF CopyInv
<1>. QED  BY <1>1, <1>2 DEF PicturesIntact, EndsComplete, CopyInv
-----------------------------------------------------------------------------
(***************************************************************************)
(* H.263: what was given and what task_pkt holds are the bytes that were   *)
(* read; they are handed over in parts that are never empty.               *)
(***************************************************************************)
LEMMA Least ==
    ASSUME NEW K \in SUBSET Nat, K # {}
    PROVE  Min(K) \in K /\ \A y \in K : Min(K) <= y
<1> DEFINE R == {p \in Nat \X Nat : p[1] < p[2]}
<1>1. IsWellFoundedOn(R, Nat)
  BY NatLessThanWellFounded DEF OpToRel
<1>2. \A m, n \in Nat : <<m, n>> \in R <=> m < n
  OBVIOUS
<1> HIDE DEF R
<1>3. PICK n \in K : \A m \in K : <<m, n>> \notin R
  BY <1>1, WFMin, Zenon
<1>4. \A m \in K : n <= m
  <2>1. ASSUME NEW m \in K PROVE n <= m
    <3>1. m \in Nat /\ n \in Nat /\ <<m, n>> \notin R
      BY <1>3
    <3>. QED  BY <1>2, <3>1
  <2>. QED  BY <2>1
<1>5. Min(K) = n
  BY <1>4, MinIs
<1>. QED  BY <1>4, <1>5

LEMMA ScanBounds ==
    ASSUME NEW n \in Nat, NEW begins \in SUBSET (1 .. n), NEW ends_ \in SUBSET (1 .. n),
           NEW found \in BOOLEAN, NEW scan, scan = Scan(begins, ends_, found, n)
    PROVE  /\ scan.from \in 0 .. n + 1 /\ scan.to \in 1 .. n + 1
           /\ scan.to <= n => scan.from < scan.to
<1> DEFINE from == IF found THEN 0 ELSE First(begins, n + 1)
           behind == {i \in ends_ : i > from}
           to == First(behind, n + 1)
<1>1. from \in 0 .. n + 1
  <2>1. CASE found
    BY <2>1
  <2>2. CASE ~found /\ begins = {}
    BY <2>2, FirstIs
  <2>3. CASE ~found /\ begins # {}
    <3>1. First(begins, n + 1) = Min(begins)
      BY <2>3 DEF First
    <3>2. Min(begins) \in begins
      BY <2>3, Least
    <3>3. Min(begins) \in 0 .. n + 1
      <4>1. \A x \in begins : x \in 0 .. n + 1
        OBVIOUS
      <4>. QED  BY <3>2, <4>1
    <3>4. from = Min(begins)
      BY <2>3, <3>1
    <3> HIDE DEF from
    <3>. QED  BY ONLY <3>3, <3>4
  <2> HIDE DEF from
  <2>. QED  BY <2>1, <2>2, <2>3
<1> HIDE DEF from
<1>2. to \in 1 .. n + 1 /\ (to <= n => from < to)
  <2>1. CASE behind = {}
    <3>1. to = n + 1
      BY <2>1 DEF First
    <3>. QED  BY <3>1
  <2>2. CASE behind # {}
    <3>1. to = Min(behind)
      BY <2>2 DEF First
    <3>2. Min(behind) \in behind
      <4>1. behind \in SUBSET Nat
        <5>1. \A i \in ends_ : i \in Nat
          OBVIOUS
        <5>. QED  BY <5>1
      <4>. QED  BY <2>2, <4>1, Least
    <3>3. Min(behind) \in 1 .. n + 1 /\ from < Min(behind)
      <4>1. \A x \in behind : x \in 1 .. n + 1 /\ from < x
        OBVIOUS
      <4>. QED  BY <3>2, <4>1
    <3> HIDE DEF behind, to
    <3>. QED  BY ONLY <3>1, <3>3
  <2> HIDE DEF behind, to
  <2>. QED  BY <2>1, <2>2
<1> HIDE DEF to
<1>3. Scan(begins, ends_, found, n) = [from |-> from, to |-> to]
  <2>1. {[from |-> x, to |-> First({i \in ends_ : i > x}, n + 1)] : x \in {from}} =
           {[from |-> from, to |-> First({i \in ends_ : i > from}, n + 1)]}
    OBVIOUS
  <2>. QED  BY <2>1, TheOnly DEF Scan, from, to
<1>. QED  BY <1>1, <1>2, <1>3

H263Call(c, src, eos, r, pos) ==
    /\ pos \in 0 .. Len(src)
    /\ r.ctx \in SplitContext /\ r.ctx.dst = c.dst \o SubSeq(src, 1, pos)
    /\ r.ctx.start >= 0 => r.ctx.dst # <<>>
    /\ r.ctx.eos => c.eos \/ eos
    /\ r.left = After(src, pos)
    /\ r.task.valid \in BOOLEAN /\ r.task = [valid |-> r.task.valid, eos |-> r.ctx.eos, data |-> r.task.data]
    /\ IF r.task.valid THEN r.task.data = r.ctx.dst /\ r.ctx.dst # <<>> /\ r.ctx.start < 0
       ELSE r.task.data = <<>>

LEMMA H263Prepares ==
    ASSUME NEW c \in SplitContext, c.start >= 0 => c.dst # <<>>, NEW src \in Seq(Bytes), src # <<>>,
           NEW eos \in BOOLEAN, NEW t \in [valid : BOOLEAN, eos : BOOLEAN, data : {<<>>}], ~t.valid,
           NEW r, r = H263Prepare(c, src, eos, t)
    PROVE  \E pos : H263Call(c, src, eos, r, pos)
<1> DEFINE n == Len(src)
           w == (IF c.dst = <<>> THEN SplitStart.state ELSE LastBytes(c.dst, 4)) \o src
           codes == H263Code(w, n)
           scan  == Scan(codes, codes, c.start >= 0, n)
           to    == scan.to
           start == IF c.start >= 0 THEN c.start ELSE IF scan.from > n THEN -1 ELSE scan.from - 4
           end   == IF to <= n THEN to - 4 ELSE IF eos THEN n ELSE -1
           flag  == c.eos \/ (start >= 0 /\ eos /\ to > n)
           cut   == [ctx  |-> [c EXCEPT !.dst = c.dst \o SubSeq(src, 1, end), !.start = -1, !.eos = flag],
                     left |-> After(src, end),
                     task |-> [valid |-> TRUE, eos |-> flag, data |-> c.dst \o SubSeq(src, 1, end)]]
           kept  == [ctx  |-> [c EXCEPT !.dst = @ \o src, !.start = start, !.eos = flag],
                     left |-> <<>>,
                     task |-> [t EXCEPT !.eos = flag]]
<1>1. r = IF start >= 0 /\ end >= 0 THEN cut ELSE kept
  BY DEF H263Prepare
<1>2. /\ n \in Nat /\ n > 0 /\ c.dst \in Seq(Bytes) /\ c.start \in Int /\ c.eos \in BOOLEAN
      /\ c.dst \o src \in Seq(Bytes) /\ c.dst \o src # <<>>
  <2>1. n \in Nat /\ n > 0
    BY EmptySeq
  <2>2. c.dst \in Seq(Bytes) /\ c.start \in Int /\ c.eos \in BOOLEAN
    BY DEF SplitContext
  <2>3. c.dst \o src \in Seq(Bytes) /\ Len(c.dst \o src) = Len(c.dst) + n /\ Len(c.dst) \in Nat
    BY <2>2
  <2>4. Len(c.dst \o src) # 0
    BY <2>1, <2>3
  <2>. QED  BY <2>1, <2>2, <2>3, <2>4, EmptySeq
<1>3. scan.from \in 0 .. n + 1 /\ to \in 1 .. n + 1 /\ (to <= n => scan.from < to)
  <2>1. codes \in SUBSET (1 .. n)
    BY DEF H263Code
  <2>2. (c.start >= 0) \in BOOLEAN
    OBVIOUS
  <2> HIDE DEF codes, n
  <2>. QED  BY <1>2, <2>1, <2>2, ScanBounds
<1> HIDE DEF w, codes, scan, to
<1>4. start \in Int /\ end \in Int /\ end <= n /\ flag \in BOOLEAN /\ (flag => c.eos \/ eos)
  BY <1>2, <1>3
<1>5. CASE start >= 0 /\ end >= 0
  <2>1. c.start >= 0 => c.dst # <<>>
    OBVIOUS
  <2>2. ~(c.start >= 0) => end > 0
    BY <1>2, <1>3, <1>5
  <2> HIDE DEF start, end, flag
  <2>3. end \in 0 .. n
    BY <1>4, <1>5
  <2> DEFINE d == c.dst \o SubSeq(src, 1, end)
  <2>4. SubSeq(src, 1, end) \in Seq(Bytes) /\ Len(SubSeq(src, 1, end)) = end
    BY <2>3
  <2>5. d \in Seq(Bytes) /\ Len(d) = Len(c.dst) + end /\ Len(c.dst) \in Nat
    BY <1>2, <2>4
  <2>7. r = cut
    BY <1>1, <1>5
  <2> HIDE DEF d
  <2>6. d # <<>>
    <3>1. c.dst # <<>> => Len(c.dst) # 0
      BY <1>2, EmptySeq
    <3>2. Len(d) # 0
      BY <2>1, <2>2, <2>3, <2>5, <3>1
    <3>. QED  BY <2>5, <3>2, EmptySeq
  <2>8. r = [ctx  |-> [c EXCEPT !.dst = d, !.start = -1, !.eos = flag], left |-> After(src, end),
             task |-> [valid |-> TRUE, eos |-> flag, data |-> d]]
    BY <2>7 DEF d
  <2>9. /\ r.ctx \in SplitContext /\ r.ctx.dst = d /\ r.ctx.start = -1 /\ r.ctx.eos = flag
        /\ r.left = After(src, end)
        /\ r.task = [valid |-> TRUE, eos |-> flag, data |-> d]
    <3>1. PICK k \in Int : k = -1
      OBVIOUS
    <3>2. r = [ctx  |-> [c EXCEPT !.dst = d, !.start = k, !.eos = flag], left |-> After(src, end),
               task |-> [valid |-> TRUE, eos |-> flag, data |-> d]]
      BY <2>8, <3>1
    <3>3. c \in SplitContext
      OBVIOUS
    <3>. QED  BY ONLY <1>4, <2>5, <3>1, <3>2, <3>3 DEF SplitContext
  <2>10. H263Call(c, src, eos, r, end)
    <3>1. r.ctx.eos => c.eos \/ eos
      BY <1>4, <2>9
    <3>2. ~(r.ctx.start >= 0) /\ r.ctx.start < 0
      BY <2>9
    <3>3. r.task.valid = TRUE /\ r.task.data = d /\ r.task = [valid |-> r.task.valid, eos |-> r.ctx.eos, data |-> r.task.data]
      BY ONLY <2>9
    <3>. QED  BY <2>3, <2>6, <2>9, <3>1, <3>2, <3>3 DEF H263Call, d
  <2>. QED  BY <2>10
<1>6. CASE ~(start >= 0 /\ end >= 0)
  <2> HIDE DEF start, end, flag
  <2> DEFINE d == c.dst \o src
  <2>1. r = kept
    BY <1>1, <1>6
  <2>2. d \in Seq(Bytes) /\ d # <<>>
    BY <1>2
  <2> HIDE DEF d
  <2>3. r = [ctx  |-> [c EXCEPT !.dst = d, !.start = start, !.eos = flag], left |-> <<>>,
             task |-> [t EXCEPT !.eos = flag]]
    BY <2>1 DEF d
  <2>4. /\ r.ctx \in SplitContext /\ r.ctx.dst = d /\ r.ctx.eos = flag
        /\ r.left = <<>>
    BY ONLY <1>4, <2>2, <2>3, c \in SplitContext DEF SplitContext
  <2>5. r.task = [valid |-> FALSE, eos |-> flag, data |-> <<>>]
    <3>1. t.valid = FALSE /\ t.data = <<>> /\ t \in [valid : BOOLEAN, eos : BOOLEAN, data : {<<>>}]
      OBVIOUS
    <3>2. PICK u : u = [t EXCEPT !.eos = flag]
      OBVIOUS
    <3>3. u = [valid |-> u.valid, eos |-> u.eos, data |-> u.data] /\ u.valid = t.valid /\ u.eos = flag /\ u.data = t.data
      BY ONLY <3>1, <3>2
    <3>4. [t EXCEPT !.eos = flag] = [valid |-> FALSE, eos |-> flag, data |-> <<>>]
      BY ONLY <3>1, <3>2, <3>3
    <3>. QED  BY <2>3, <3>4
  <2>6. H263Call(c, src, eos, r, n)
    <3>1. r.ctx.eos => c.eos \/ eos
      BY <1>4, <2>4
    <3>2. SubSeq(src, 1, n) = src /\ After(src, n) = <<>> /\ n \in 0 .. Len(src)
      BY <1>2 DEF After
    <3>3. r.task.valid = FALSE /\ r.task.data = <<>> /\ r.task = [valid |-> r.task.valid, eos |-> r.ctx.eos, data |-> r.task.data]
      BY ONLY <2>4, <2>5
    <3> HIDE DEF n
    <3>. QED  BY <2>2, <2>4, <3>1, <3>2, <3>3 DEF H263Call, d
  <2>. QED  BY <2>6
<1>. QED  BY <1>5, <1>6

H263Inv ==
    stream.codec = "h263" =>
        /\ ctx \in SplitContext
        /\ ctx.start >= 0 => ctx.dst # <<>>
        /\ task.valid => ctx.start < 0
        /\ Told /\ ~eosBefore => eosPut # "no"
        /\ resets = 0 => /\ given \in Seq(Seq(Bytes))
                         /\ FlattenSeq(given) \o ctx.dst = Between(stream.bytes, 0, Read)
                         /\ task.valid => task.data = ctx.dst

LEMMA SplitStartContext ==
    /\ SplitStart \in SplitContext /\ SplitStart.dst = <<>> /\ SplitStart.start < 0
    /\ SplitStart.eos = FALSE /\ SplitStart.split = TRUE
<1>1. PICK k \in Int : k = -1
  OBVIOUS
<1>2. SplitStart = [dst |-> <<>>, state |-> <<255, 255, 255, 255>>, found |-> FALSE,
                    eos |-> FALSE, split |-> TRUE, start |-> k]
  BY <1>1 DEF SplitStart
<1>3. <<255, 255, 255, 255>> \in Seq(Bytes) /\ <<>> \in Seq(Bytes) /\ Len(<<255, 255, 255, 255>>) = 4
  BY DEF Bytes
<1>. QED  BY <1>1, <1>2, <1>3 DEF SplitContext

LEMMA H263Init == Init => H263Inv
<1> SUFFICES ASSUME Init, stream.codec = "h263" PROVE H263Inv
  BY DEF H263Inv
<1>1. /\ Read = 0 /\ stream \in Streams /\ ctx = SplitStart /\ task = NoTask /\ given = <<>> /\ ends = 0
  BY CommonInit DEF Init, ContextOf
<1>2. task.valid = FALSE /\ task.eos = FALSE
  BY <1>1 DEF NoTask
<1>3. Between(stream.bytes, 0, 0) = <<>> /\ <<>> \in Seq(Seq(Bytes)) /\ <<>> \o <<>> = <<>>
  BY <1>1, StreamFacts, CutAll
<1>4. ctx \in SplitContext /\ ctx.dst = <<>> /\ ~(ctx.start >= 0) /\ ~ctx.eos
  BY <1>1, SplitStartContext DEF SplitContext
<1>. QED  BY <1>1, <1>2, <1>3, <1>4, FlattenEmpty DEF H263Inv, Told

LEMMA H263User ==
    ASSUME PacketInv, TaskInv, H263Inv, (\E to \in 1 .. Len(stream.bytes) : PutPacket(to)) \/ PutEnd
    PROVE  H263Inv'
<1>1. /\ Read' = Read /\ eosPut = "no"
      /\ UNCHANGED <<stream, ctx, task, given, ends, resets, eosBefore>>
  <2>1. CASE \E to \in 1 .. Len(stream.bytes) : PutPacket(to)
    BY <2>1, CommonPut DEF PutPacket
  <2>2. CASE PutEnd
    BY <2>2, CommonEnd DEF PutEnd
  <2>. QED  BY <2>1, <2>2
<1>. QED  BY <1>1 DEF H263Inv, Told

LEMMA H263Parse ==
    ASSUME PacketInv, TaskInv, H263Inv, Parse
    PROVE  H263Inv'
<1> SUFFICES ASSUME stream.codec = "h263", stream' = stream PROVE H263Inv'
  BY CommonParse DEF H263Inv
<1>1. /\ Read' = Read /\ given' = Handed /\ task.valid /\ ~task'.valid /\ ~task'.eos
      /\ ctx' = H263Parsed(ctx) /\ eosPut' = eosPut /\ eosBefore' = eosBefore /\ resets' = resets
      /\ ends' = ends + (IF task.eos THEN 1 ELSE 0) /\ ends \in Nat
  BY CommonParse DEF TaskInv
<1>2. /\ ctx \in SplitContext /\ ctx.start < 0 /\ (Told /\ ~eosBefore => eosPut # "no")
      /\ resets = 0 => /\ given \in Seq(Seq(Bytes)) /\ task.data = ctx.dst
                       /\ FlattenSeq(given) \o ctx.dst = Between(stream.bytes, 0, Read)
  BY <1>1 DEF H263Inv
<1>3. ctx' \in SplitContext /\ ctx'.dst = <<>> /\ ctx'.start = ctx.start /\ ctx'.eos = ctx.eos
  <2>1. ctx' = [ctx EXCEPT !.dst = <<>>] /\ ctx \in SplitContext /\ <<>> \in Seq(Bytes)
    BY <1>1, <1>2 DEF H263Parsed
  <2>. QED  BY ONLY <2>1 DEF SplitContext
<1>4. Told' => Told
  BY <1>1, <1>3 DEF Told
<1>5. ASSUME resets = 0
      PROVE  given' \in Seq(Seq(Bytes)) /\ FlattenSeq(given') \o <<>> = Between(stream.bytes, 0, Read)
  <2>1. given' = Append(given, ctx.dst)
    BY <1>1, <1>2, <1>5 DEF Handed
  <2>2. given \in Seq(Seq(Bytes)) /\ ctx.dst \in Seq(Bytes)
    BY <1>2, <1>5 DEF SplitContext
  <2>3. /\ Append(given, ctx.dst) \in Seq(Seq(Bytes))
        /\ FlattenSeq(Append(given, ctx.dst)) = FlattenSeq(given) \o ctx.dst
        /\ FlattenSeq(given) \in Seq(Bytes)
    BY <2>2, FlattenAppend
  <2>4. FlattenSeq(given) \o ctx.dst \in Seq(Bytes)
    BY <2>2, <2>3
  <2>5. \A x \in Seq(Bytes) : x \o <<>> = x
    OBVIOUS
  <2>. QED  BY <1>2, <1>5, <2>1, <2>3, <2>4, <2>5
<1>6. ~(ctx'.start >= 0)
  BY <1>2, <1>3 DEF SplitContext
<1>. QED  BY <1>1, <1>2, <1>3, <1>4, <1>5, <1>6 DEF H263Inv

LEMMA H263Resets ==
    ASSUME PacketInv, TaskInv, H263Inv, Reset
    PROVE  H263Inv'
<1> SUFFICES ASSUME stream.codec = "h263" PROVE H263Inv'
  BY CommonReset DEF H263Inv
<1>1. /\ ~task'.valid /\ ~task'.eos /\ ends' = 0 /\ resets' \in Nat /\ resets' > 0
      /\ eosBefore' = (eosBefore \/ eosPut # "no") /\ ctx' = ctx
  BY CommonReset DEF ResetOf, H263SplitReset
<1>2. Told' => Told
  BY <1>1 DEF Told
<1>3. ~(resets' = 0)
  BY <1>1
<1>. QED  BY <1>1, <1>2, <1>3 DEF H263Inv

LEMMA H263Prepared ==
    ASSUME PacketInv, TaskInv, H263Inv, stream.codec = "h263", Prepare
    PROVE  PacketInv' /\ TaskInv' /\ H263Inv'
<1> DEFINE r == PrepareOf(stream.codec, ctx, packet.data, packet.eos, task)
           n == Len(packet.data)
<1>1. /\ ctx \in SplitContext /\ (ctx.start >= 0 => ctx.dst # <<>>)
      /\ (Told /\ ~eosBefore => eosPut # "no")
      /\ resets = 0 => /\ given \in Seq(Seq(Bytes))
                       /\ FlattenSeq(given) \o ctx.dst = Between(stream.bytes, 0, Read)
  BY DEF H263Inv
<1>2. /\ packet # NoPacket /\ ~task.valid /\ task.data = <<>>
      /\ task \in [valid : BOOLEAN, eos : BOOLEAN, data : {<<>>}]
  BY PrepareIs DEF TaskInv
<1>3. CASE packet.data = <<>>
  <2>1. Called(r, 0) /\ r.left = <<>> /\ r.ctx = ctx /\ ~r.task.valid /\ r.task.eos
    BY <1>3, FlushCall
  <2> HIDE DEF r
  <2>2. /\ PacketInv' /\ TaskInv' /\ Read' = Read + 0 /\ given' = given /\ task' = r.task
        /\ ctx' = ctx /\ stream' = stream /\ eosPut' = eosPut /\ resets' = resets /\ eosBefore' = eosBefore
    BY <2>1, CommonPrepare
  <2>3. eosPut = "empty" /\ Read \in Nat
    BY <1>2, <1>3, EmptyPacket, PartRead
  <2>. QED  BY <1>1, <2>1, <2>2, <2>3 DEF H263Inv
<1>4. CASE packet.data # <<>>
  <2>1. /\ packet.eos \in BOOLEAN /\ packet.data \in Seq(Bytes) /\ (packet.eos => eosPut # "no")
        /\ stream.bytes \in Seq(Bytes)
        /\ n \in Nat /\ Read \in Nat /\ put \in Nat /\ Read + n = put /\ put <= Len(stream.bytes)
        /\ packet.data = Between(stream.bytes, Read, put)
    BY PartRead DEF PacketInv
  <2>2. r = H263Prepare(ctx, packet.data, packet.eos, task)
    BY DEF PrepareOf
  <2> HIDE DEF r
  <2>3. PICK pos : H263Call(ctx, packet.data, packet.eos, r, pos)
    BY <1>1, <1>2, <1>4, <2>1, <2>2, H263Prepares
  <2>4. /\ pos \in Nat /\ pos <= n /\ r.ctx \in SplitContext
        /\ r.ctx.dst = ctx.dst \o SubSeq(packet.data, 1, pos)
        /\ r.ctx.start >= 0 => r.ctx.dst # <<>>
        /\ r.ctx.eos => ctx.eos \/ packet.eos
        /\ r.task.valid \in BOOLEAN /\ r.task = [valid |-> r.task.valid, eos |-> r.ctx.eos, data |-> r.task.data]
        /\ IF r.task.valid THEN r.task.data = r.ctx.dst /\ r.ctx.dst # <<>> /\ r.ctx.start < 0
           ELSE r.task.data = <<>>
    <3>1. pos \in Nat /\ pos <= n
      BY <2>1, <2>3 DEF H263Call
    <3> HIDE DEF n
    <3>. QED  BY <2>3, <3>1 DEF H263Call
  <2>5. r.task.eos = r.ctx.eos /\ r.ctx.eos \in BOOLEAN
    BY <2>4 DEF SplitContext
  <2>6. Called(r, pos)
    <3>1. r.task \in [valid : BOOLEAN, eos : BOOLEAN, data : {r.task.data}]
      BY <2>4, <2>5
    <3>2. IF r.task.valid THEN r.task.data # <<>> ELSE r.task.data = <<>>
      BY <2>4
    <3>3. pos \in 0 .. Len(packet.data) /\ r.left = After(packet.data, pos)
      BY <2>3 DEF H263Call
    <3>. QED  BY <3>1, <3>2, <3>3 DEF Called, r
  <2>7. /\ PacketInv' /\ TaskInv' /\ Read' = Read + pos /\ ctx' = r.ctx /\ task' = r.task
        /\ ends' = ends + (IF r.task.eos /\ ~r.task.valid THEN 1 ELSE 0) /\ ends \in Nat
        /\ given' = given /\ stream' = stream /\ eosPut' = eosPut /\ resets' = resets /\ eosBefore' = eosBefore
    <3>1. ends \in Nat
      BY DEF TaskInv
    <3>. QED  BY <2>6, <3>1, CommonPrepare
  <2>8. Told' => Told \/ packet.eos
    <3>1. Told' => r.ctx.eos \/ ends > 0
      BY <2>5, <2>7 DEF Told
    <3>. QED  BY <2>4, <3>1 DEF Told
  <2>9. ASSUME resets = 0
        PROVE  FlattenSeq(given) \o r.ctx.dst = Between(stream.bytes, 0, Read + pos)
    <3>1. PICK b \in Nat : b = Read + pos /\ Read <= b /\ b <= put
      BY <2>1, <2>4
    <3>2. SubSeq(packet.data, 1, pos) = Between(stream.bytes, Read, b)
      <4>1. PICK e \in Nat : e = put
        BY <2>1
      <4>2. /\ stream.bytes \in Seq(Bytes) /\ Read \in Nat /\ e \in Nat /\ Read <= e /\ e <= Len(stream.bytes)
            /\ 0 \in Nat /\ pos \in Nat /\ 0 <= pos /\ pos <= e - Read
        BY <2>1, <2>4, <4>1
      <4>3. Between(Between(stream.bytes, Read, e), 0, pos) = Between(stream.bytes, Read + 0, Read + pos)
        BY ONLY <4>2, CutOfCut
      <4>4. Read + 0 = Read
        BY <2>1
      <4>5. Between(packet.data, 0, pos) = Between(stream.bytes, Read, b)
        BY <2>1, <3>1, <4>1, <4>3, <4>4
      <4>6. Between(packet.data, 0, pos) = SubSeq(packet.data, 1, pos)
        BY DEF Between
      <4>. QED  BY ONLY <4>5, <4>6
    <3>3. Between(stream.bytes, 0, Read) \o Between(stream.bytes, Read, b) = Between(stream.bytes, 0, b)
      <4>1. /\ 0 \in Nat /\ Read \in Nat /\ b \in Nat /\ 0 <= Read /\ Read <= b /\ b <= Len(stream.bytes)
            /\ stream.bytes \in Seq(Bytes)
        BY <2>1, <3>1
      <4>. QED  BY ONLY <4>1, CutsJoin
    <3>4. PICK x \in Seq(Bytes), y \in Seq(Bytes), z \in Seq(Bytes) :
             x = FlattenSeq(given) /\ y = ctx.dst /\ z = SubSeq(packet.data, 1, pos)
      <4>1. FlattenSeq(given) \in Seq(Bytes)
        <5>1. given \in Seq(Seq(Bytes))
          BY <1>1, <2>9
        <5>2. <<>> \in Seq(Bytes)
          OBVIOUS
        <5>. QED  BY <5>1, <5>2, FlattenAppend
      <4>2. ctx.dst \in Seq(Bytes)
        BY <1>1 DEF SplitContext
      <4>3. SubSeq(packet.data, 1, pos) \in Seq(Bytes)
        BY <2>1, <2>4
      <4>. QED  BY <4>1, <4>2, <4>3
    <3>5. x \o (y \o z) = (x \o y) \o z
      OBVIOUS
    <3>. QED  BY <1>1, <2>4, <2>9, <3>1, <3>2, <3>3, <3>4, <3>5
  <2>10. /\ r.task.valid => r.ctx.start < 0 /\ r.task.data = r.ctx.dst
    BY <2>4
  <2>. QED  BY <1>1, <2>1, <2>4, <2>7, <2>8, <2>9, <2>10 DEF H263Inv
<1>. QED  BY <1>3, <1>4

LEMMA H263Gives ==
    ASSUME PacketInv, TaskInv, H263Inv, stream.codec = "h263"
    PROVE  PicturesIntact /\ EndsComplete
<1>1. stream \in Streams /\ FlattenSeq(stream.pictures) = stream.bytes
  BY StreamFacts DEF PacketInv, CutWell
<1>2. ASSUME resets = 0 PROVE IsPrefix(FlattenSeq(given), stream.bytes)
  <2>1. Read \in Nat /\ Read <= Len(stream.bytes) /\ stream.bytes \in Seq(Bytes)
    BY PartRead
  <2>2. given \in Seq(Seq(Bytes)) /\ FlattenSeq(given) \o ctx.dst = Between(stream.bytes, 0, Read)
        /\ ctx.dst \in Seq(Bytes)
    BY <1>2 DEF H263Inv, SplitContext
  <2>3. FlattenSeq(given) \in Seq(Bytes)
    BY <2>2, FlattenAppend
  <2>. QED  BY <2>1, <2>2, <2>3, BeginningOf
<1>3. ends > 0 /\ ~eosBefore => eosPut # "no"
  BY DEF H263Inv, Told
<1>. QED  BY <1>1, <1>2, <1>3 DEF PicturesIntact, EndsComplete, SplitEnded, StaleEnd
-----------------------------------------------------------------------------
(***************************************************************************)
(* AVS: j pictures were handed over, and the bytes behind the last one are *)
(* next, until a packet that ended the stream was seen.                    *)
(***************************************************************************)
BehindPicture(s, j) == IF j = 0 THEN 0 ELSE s.places[j][2]

AvsInv ==
    stream.codec = "avs" =>
        /\ ctx \in [held : {<<>>}, gotEos : BOOLEAN] /\ (ctx.gotEos => eosPut # "no")
        /\ ~task.eos /\ ends = 0
        /\ \E j \in 0 .. Len(stream.places) :
              /\ Handed = SubSeq(stream.pictures, 1, j)
              /\ Read = BehindPicture(stream, j) \/ ctx.gotEos

(* v is where the start code of the picture between a and e is seen.       *)
AvsCode(s, j, a, e, v) ==
    /\ a = s.places[j][1] /\ e = s.places[j][2] /\ a + 4 <= v /\ v < e
    /\ \A i \in a + 4 .. e : AvsPictureAt(s.bytes, i) <=> i = v
    /\ j > 1 => v = a + 4

LEMMA AvsFacts ==
    ASSUME NEW s \in Streams, s.codec = "avs"
    PROVE  /\ PicturesLie(s)
           /\ s.places[1][1] = 0 /\ s.places[Len(s.places)][2] = Len(s.bytes)
           /\ \A j \in 1 .. Len(s.places) - 1 : s.places[j][2] = s.places[j + 1][1]
           /\ \A j \in 1 .. Len(s.places) : \E a, e, v \in Nat : AvsCode(s, j, a, e, v)
           /\ \A p \in s.packets : \E k \in 1 .. Len(s.places) : p[2] = s.places[k][2]
<1>1. PicturesLie(s) /\ Adjacent(s) /\ AvsCut(s)
  BY StreamFacts DEF CutWell
<1>2. DOMAIN s.places = 1 .. Len(s.places)
  BY <1>1, PlacesFacts
<1>3. ASSUME NEW j \in 1 .. Len(s.places) PROVE \E a, e, v \in Nat : AvsCode(s, j, a, e, v)
  <2>1. PICK a \in Nat, e \in Nat : a = s.places[j][1] /\ e = s.places[j][2]
    BY <1>1, PlacesFacts
  <2>2. PICK v \in a + 4 .. e - 1 :
           {i \in a + 4 .. e : AvsPictureAt(s.bytes, i)} = {v} /\ (j > 1 => v = a + 4)
    BY <1>1, <1>2, <2>1 DEF AvsCut
  <2>3. \A i \in a + 4 .. e : AvsPictureAt(s.bytes, i) <=> i \in {v}
    BY <2>2
  <2>4. v \in Nat /\ a + 4 <= v /\ v < e
    BY <2>1, <2>2
  <2>. QED  BY <2>1, <2>2, <2>3, <2>4 DEF AvsCode
<1>4. \A p \in s.packets : \E k \in 1 .. Len(s.places) : p[2] = s.places[k][2]
  BY <1>1, <1>2 DEF AvsCut
<1>. QED  BY <1>1, <1>3, <1>4 DEF Adjacent

(* There is no start code over the end of a picture.                       *)
LEMMA AvsNext ==
    ASSUME NEW s \in Streams, s.codec = "avs", NEW j \in 1 .. Len(s.places),
           NEW a \in Nat, NEW e \in Nat, NEW v \in Nat, AvsCode(s, j, a, e, v),
           NEW i \in Nat, a + 4 <= i, i <= Len(s.bytes), AvsPictureAt(s.bytes, i)
    PROVE  i = v \/ e + 4 <= i
<1>1. /\ Len(s.places) \in Nat \ {0} /\ s.bytes \in Seq(Bytes) /\ Len(s.bytes) \in Nat
      /\ s.places[Len(s.places)][2] = Len(s.bytes)
      /\ \A k \in 1 .. Len(s.places) - 1 : s.places[k][2] = s.places[k + 1][1]
  BY AvsFacts, PlacesFacts, StreamFacts
<1>2. CASE i <= e
  BY <1>2 DEF AvsCode
<1>3. CASE e < i
  <2>1. j # Len(s.places)
    BY <1>1, <1>3 DEF AvsCode
  <2>2. PICK k \in 1 .. Len(s.places) : k = j + 1 /\ k > 1
    BY <1>1, <2>1
  <2>3. s.places[k][1] = e
    <3>1. j \in 1 .. Len(s.places) - 1
      BY <1>1, <2>1
    <3>. QED  BY <1>1, <2>2, <3>1 DEF AvsCode
  <2>4. PICK b \in Nat, f \in Nat, u \in Nat : AvsCode(s, k, b, f, u)
    BY AvsFacts
  <2>5. b = e /\ u = e + 4 /\ u < f /\ AvsPictureAt(s.bytes, u) /\ f <= Len(s.bytes)
    <3>1. b = e /\ u = b + 4 /\ u < f /\ f = s.places[k][2]
      BY <2>2, <2>3, <2>4 DEF AvsCode
    <3>2. AvsPictureAt(s.bytes, u)
      <4>1. u \in b + 4 .. f
        BY <3>1
      <4>. QED  BY <2>4, <4>1 DEF AvsCode
    <3>3. s.places[k][2] <= Len(s.bytes)
      BY AvsFacts, PlacesFacts
    <3>. QED  BY <3>1, <3>2, <3>3
  <2>6. ASSUME NEW x \in Nat, 4 <= x, x <= Len(s.bytes), AvsPictureAt(s.bytes, x)
        PROVE  s.bytes[x - 3] = 0 /\ s.bytes[x - 2] = 0 /\ s.bytes[x - 1] = 1 /\ s.bytes[x] \in {179, 182}
    <3>1. SubSeq(s.bytes, x - 3, x) \in {Prefix \o <<179>>, Prefix \o <<182>>}
      BY <2>6 DEF AvsPictureAt
    <3>2. /\ SubSeq(s.bytes, x - 3, x)[1] = s.bytes[x - 3] /\ SubSeq(s.bytes, x - 3, x)[2] = s.bytes[x - 2]
          /\ SubSeq(s.bytes, x - 3, x)[3] = s.bytes[x - 1] /\ SubSeq(s.bytes, x - 3, x)[4] = s.bytes[x]
      BY <1>1, <2>6
    <3>3. PICK z : z = SubSeq(s.bytes, x - 3, x)
      OBVIOUS
    <3>4. z[1] = 0 /\ z[2] = 0 /\ z[3] = 1 /\ z[4] \in {179, 182}
      <4>1. CASE z = Prefix \o <<179>>
        BY <4>1 DEF Prefix
      <4>2. CASE z = Prefix \o <<182>>
        BY <4>2 DEF Prefix
      <4>. QED  BY <3>1, <3>3, <4>1, <4>2
    <3>. QED  BY ONLY <3>2, <3>3, <3>4
  <2>7. s.bytes[e + 1] = 0 /\ s.bytes[e + 2] = 0 /\ s.bytes[e + 3] = 1
    <3>1. 4 <= u /\ u <= Len(s.bytes)
      BY <1>1, <2>5
    <3>2. s.bytes[u - 3] = 0 /\ s.bytes[u - 2] = 0 /\ s.bytes[u - 1] = 1
      BY <2>5, <2>6, <3>1
    <3>3. u - 3 = e + 1 /\ u - 2 = e + 2 /\ u - 1 = e + 3
      BY <2>5
    <3>. QED  BY <3>2, <3>3
  <2>8. s.bytes[i] \in {179, 182}
    BY <2>6
  <2>9. i # e + 1 /\ i # e + 2 /\ i # e + 3
    <3>1. PICK x : x = s.bytes[i] /\ x \in {179, 182}
      BY <2>8
    <3>2. x # 0 /\ x # 1
      BY <3>1
    <3>. QED  BY <2>7, <3>1, <3>2
  <2>. QED  BY <1>3, <2>9
<1>. QED  BY <1>2, <1>3

(* A call of prepare at the place of a picture hands it over.              *)
AvsHands(s, j, src, eos, pos, r) ==
    /\ pos \in 1 .. Len(src) /\ r.left = After(src, pos)
    /\ r.ctx = [held |-> <<>>, gotEos |-> eos]
    /\ r.task.valid /\ r.task.data = s.pictures[j]

AvsIn(s, a, n) == {i \in 4 .. n - 1 : AvsPictureAt(s.bytes, a + i)}

AvsFirsts(s, a, n, v, e, f) ==
    /\ First(AvsIn(s, a, n), n) = v - a /\ AvsIn(s, a, n) # {}
    /\ First(AvsIn(s, a, n) \ {v - a}, n + 4) = e + 4 - a
    /\ e <= f /\ f <= Len(s.bytes)

LEMMA AvsCodesIn ==
    ASSUME NEW s \in Streams, s.codec = "avs", NEW j \in 1 .. Len(s.places),
           NEW a \in Nat, NEW e \in Nat, NEW v \in Nat, AvsCode(s, j, a, e, v),
           NEW k \in 1 .. Len(s.places), j <= k, NEW f \in Nat, f = s.places[k][2],
           NEW n \in Nat, n = f - a
    PROVE  AvsFirsts(s, a, n, v, e, f)
<1> DEFINE codes == AvsIn(s, a, n)
<1> HIDE DEF codes
<1>1. /\ Len(s.places) \in Nat /\ Len(s.bytes) \in Nat
      /\ \A i \in 1 .. Len(s.places) - 1 : s.places[i][2] = s.places[i + 1][1]
      /\ \A i, l \in 1 .. Len(s.places) : i < l => s.places[i][2] <= s.places[l][1]
      /\ \A i \in 1 .. Len(s.places) : s.places[i][1] \in Nat /\ s.places[i][2] \in Nat
                                       /\ s.places[i][1] < s.places[i][2] /\ s.places[i][2] <= Len(s.bytes)
  BY AvsFacts, PlacesFacts, StreamFacts
<1>2. a = s.places[j][1] /\ e = s.places[j][2] /\ a + 4 <= v /\ v < e
  BY DEF AvsCode
<1>3. e <= f /\ f <= Len(s.bytes) /\ (j < k => e < f)
  <2>1. f <= Len(s.bytes)
    BY <1>1
  <2>2. CASE j = k
    <3>1. e = f
      BY <1>2, <2>2
    <3>. QED  BY <2>1, <2>2, <3>1
  <2>3. CASE j < k
    <3>1. PICK b \in Nat : b = s.places[k][1]
      BY <1>1
    <3>2. e <= b /\ b < f
      BY <1>1, <1>2, <2>3, <3>1
    <3>3. e < f
      BY <3>2, SMTT(30)
    <3>. QED  BY <2>1, <3>3
  <2>. QED  BY <2>1, <2>2, <2>3
<1>n. /\ a \in Nat /\ e \in Nat /\ v \in Nat /\ f \in Nat /\ n \in Nat /\ n = f - a
      /\ a + 4 <= v /\ v < e /\ e <= f
  BY <1>2, <1>3
<1>4. \A i \in codes : i \in 4 .. n - 1 /\ AvsPictureAt(s.bytes, a + i)
  BY DEF codes, AvsIn
<1>5. v - a \in codes
  <2>1. PICK x \in 4 .. n - 1 : x = v - a /\ a + x = v
    <3>1. v - a \in 4 .. n - 1 /\ a + (v - a) = v
      BY ONLY <1>n
    <3>. QED  BY ONLY <3>1
  <2>2. AvsPictureAt(s.bytes, v)
    <3>1. v \in a + 4 .. e
      BY ONLY <1>n
    <3>. QED  BY <3>1 DEF AvsCode
  <2>. QED  BY <2>1, <2>2 DEF codes, AvsIn
<1>6. \A i \in codes : i = v - a \/ e + 4 - a <= i
  <2> SUFFICES ASSUME NEW i \in codes PROVE i = v - a \/ e + 4 - a <= i
    OBVIOUS
  <2>1. i \in 4 .. n - 1 /\ AvsPictureAt(s.bytes, a + i)
    BY <1>4
  <2>2. PICK x \in Nat : x = a + i /\ a + 4 <= x /\ x < f /\ x <= Len(s.bytes)
    <3>1. a + i \in Nat /\ a + 4 <= a + i /\ a + i < f
      BY ONLY <1>n, <2>1
    <3>2. Len(s.bytes) \in Nat /\ f \in Nat /\ f <= Len(s.bytes)
      BY <1>1, <1>3, <1>n
    <3>3. a + i <= Len(s.bytes)
      BY ONLY <3>1, <3>2
    <3>. QED  BY ONLY <3>1, <3>3
  <2>3. x = v \/ e + 4 <= x
    <3>1. AvsPictureAt(s.bytes, x)
      BY <2>1, <2>2
    <3>2. s \in Streams /\ s.codec = "avs" /\ j \in 1 .. Len(s.places) /\ AvsCode(s, j, a, e, v)
      OBVIOUS
    <3>. QED  BY ONLY <1>n, <2>2, <3>1, <3>2, AvsNext
  <2>. QED  BY ONLY <1>n, <2>1, <2>2, <2>3
<1>7. codes \in SUBSET Int /\ codes \ {v - a} \in SUBSET Int
  BY <1>4
<1>8. First(codes, n) = v - a
  <2>1. v - a \in Int /\ e + 4 - a \in Int /\ v - a <= e + 4 - a
    BY ONLY <1>n
  <2>2. \A i \in codes : v - a <= i
    BY ONLY <1>4, <1>6, <2>1
  <2>. QED  BY ONLY <1>5, <1>7, <2>2, FirstIs
<1>9. First(codes \ {v - a}, n + 4) = e + 4 - a
  <2>1. CASE j = k
    <3>1. n = e - a
      BY <1>2, <2>1
    <3>2. ASSUME NEW i \in codes PROVE i = v - a
      <4>1. i \in 4 .. n - 1 /\ (i = v - a \/ e + 4 - a <= i)
        BY <1>4, <1>6
      <4>. QED  BY ONLY <1>n, <3>1, <4>1
    <3>3. codes \ {v - a} = {}
      BY <3>2
    <3>4. First(codes \ {v - a}, n + 4) = n + 4
      BY ONLY <1>7, <3>3, FirstIs
    <3>5. n + 4 = e + 4 - a
      BY ONLY <1>n, <3>1
    <3>. QED  BY ONLY <3>4, <3>5
  <2>2. CASE j < k
    <3>1. PICK l \in 1 .. Len(s.places) : l = j + 1 /\ l > 1 /\ l <= k
      BY <1>1, <2>2
    <3>2. PICK b \in Nat, g \in Nat, u \in Nat : AvsCode(s, l, b, g, u)
      BY AvsFacts
    <3>3. b = e /\ u = e + 4 /\ u < g /\ AvsPictureAt(s.bytes, u) /\ g <= f
      <4>1. b = s.places[l][1] /\ g = s.places[l][2] /\ u = b + 4 /\ u < g
        BY <3>1, <3>2 DEF AvsCode
      <4>2. AvsPictureAt(s.bytes, u)
        <5>1. u \in b + 4 .. g
          <6>1. b \in Nat /\ g \in Nat /\ u \in Nat
            OBVIOUS
          <6>2. u = b + 4 /\ u < g
            BY <4>1
          <6>. QED  BY ONLY <6>1, <6>2
        <5>. QED  BY <3>2, <5>1, <4>1 DEF AvsCode
      <4>3. s.places[j][2] = s.places[l][1]
        <5>1. j \in 1 .. Len(s.places) - 1
          BY <1>1, <2>2
        <5>. QED  BY <1>1, <3>1, <5>1
      <4>4. g <= f
        <5>1. CASE l = k
          BY <4>1, <5>1
        <5>2. CASE l < k
          <6>1. PICK d \in Nat : d = s.places[k][1]
            BY <1>1
          <6>2. g <= d /\ d < f
            BY <1>1, <4>1, <5>2, <6>1
          <6>. QED  BY ONLY <1>n, <6>2, g \in Nat, d \in Nat
        <5>. QED  BY <3>1, <5>1, <5>2
      <4>. QED  BY <1>2, <4>1, <4>2, <4>3, <4>4
    <3>4. e + 4 - a \in codes /\ e + 4 - a # v - a
      <4>1. PICK x \in 4 .. n - 1 : x = e + 4 - a /\ a + x = u /\ x # v - a
        <5>1. e + 4 - a \in 4 .. n - 1 /\ a + (e + 4 - a) = u /\ e + 4 - a # v - a
          <6>1. u \in Nat /\ g \in Nat /\ u = e + 4 /\ u < g /\ g <= f
            BY <3>3
          <6>. QED  BY ONLY <1>n, <6>1
        <5>. QED  BY ONLY <5>1
      <4>2. x \in codes
        BY <3>3, <4>1 DEF codes, AvsIn
      <4>. QED  BY <4>1, <4>2
    <3>5. e + 4 - a \in codes \ {v - a} /\ \A i \in codes \ {v - a} : e + 4 - a <= i
      BY <1>6, <3>4
    <3>. QED  BY ONLY <1>7, <3>5, FirstIs
  <2>. QED  BY <2>1, <2>2
<1>. QED  BY <1>3, <1>5, <1>8, <1>9 DEF codes, AvsFirsts

AvsAlike(B, a, n, src) ==
    /\ Len(src) = n
    /\ \A i \in 4 .. n - 1 : AvsPictureAt(src, i) <=> AvsPictureAt(B, a + i)
    /\ \A pos \in 0 .. n : SubSeq(src, 1, pos) = Between(B, a, a + pos)

LEMMA AvsWithin ==
    ASSUME NEW B \in Seq(Bytes), NEW a \in Nat, NEW f \in Nat, a <= f, f <= Len(B),
           NEW src, src = Between(B, a, f), NEW n \in Nat, n = f - a
    PROVE  AvsAlike(B, a, n, src)
<1>1. Len(src) = n
  BY Cut
<1>2. ASSUME NEW i \in 4 .. n - 1 PROVE AvsPictureAt(src, i) <=> AvsPictureAt(B, a + i)
  <2>1. PICK d \in Nat : d = i - 4
    BY <1>2
  <2>2. i \in Nat /\ d <= i /\ i <= f - a
    BY <1>2, <2>1
  <2>3. Between(Between(B, a, f), d, i) = Between(B, a + d, a + i)
    BY <2>2, CutOfCut
  <2>4. d + 1 = i - 3 /\ (a + d) + 1 = (a + i) - 3
    BY <2>1, <2>2
  <2>5. PICK x : x = SubSeq(src, i - 3, i) /\ x = SubSeq(B, (a + i) - 3, a + i)
    BY ONLY <2>3, <2>4, src = Between(B, a, f) DEF Between
  <2>6. PICK K : K = {Prefix \o <<179>>, Prefix \o <<182>>}
    OBVIOUS
  <2>7. (AvsPictureAt(src, i) <=> SubSeq(src, i - 3, i) \in K)
        /\ (AvsPictureAt(B, a + i) <=> SubSeq(B, (a + i) - 3, a + i) \in K)
    BY ONLY <2>6, Zenon DEF AvsPictureAt
  <2>. QED  BY ONLY <2>5, <2>7
<1>3. ASSUME NEW pos \in 0 .. n PROVE SubSeq(src, 1, pos) = Between(B, a, a + pos)
  <2>1. pos \in Nat /\ pos <= f - a /\ 0 <= pos /\ a + 0 = a
    BY <1>3
  <2>2. Between(Between(B, a, f), 0, pos) = Between(B, a + 0, a + pos)
    BY <2>1, CutOfCut
  <2>. QED  BY <2>1, <2>2 DEF Between
<1>. QED  BY <1>1, <1>2, <1>3 DEF AvsAlike

LEMMA AvsCall ==
    ASSUME NEW s \in Streams, s.codec = "avs", NEW j \in 1 .. Len(s.places),
           NEW k \in 1 .. Len(s.places), j <= k, NEW a \in Nat, a = s.places[j][1],
           NEW f \in Nat, f = s.places[k][2], NEW src, src = Between(s.bytes, a, f),
           NEW c, c = [held |-> <<>>, gotEos |-> FALSE], NEW eos \in BOOLEAN,
           NEW t, t \in [valid : BOOLEAN, eos : BOOLEAN, data : {<<>>}],
           NEW r, r = AvsPrepare(c, src, eos, t)
    PROVE  /\ \E pos : AvsHands(s, j, src, eos, pos, r) /\ a + pos = s.places[j][2]
           /\ r.task = [valid |-> TRUE, eos |-> t.eos, data |-> s.pictures[j]]
<1>1. PICK b \in Nat, e \in Nat, v \in Nat : AvsCode(s, j, b, e, v)
  BY AvsFacts
<1>2. b = a /\ e = s.places[j][2] /\ a + 4 <= v /\ v < e
  BY <1>1 DEF AvsCode
<1> DEFINE n == f - a
           codes == AvsIn(s, a, n)
<1>3. /\ s.bytes \in Seq(Bytes) /\ Len(s.bytes) \in Nat /\ s.pictures[j] = Between(s.bytes, a, e)
      /\ s.pictures[j] \in Seq(Bytes)
  <2>1. s.pictures[j] = Between(s.bytes, s.places[j][1], s.places[j][2]) /\ s.pictures[j] \in Seq(Bytes)
    BY AvsFacts, PlacesFacts
  <2>. QED  BY <1>2, <2>1, StreamFacts
<1>4. /\ a \in Nat /\ e \in Nat /\ v \in Nat /\ f \in Nat /\ n \in Nat /\ n = f - a
      /\ a + 4 <= v /\ v < e /\ a < f
  <2>1. a + 4 <= v /\ v < e /\ v \in Nat /\ e \in Nat
    BY <1>2
  <2>2. a < f
    <3>1. CASE j = k
      <4>1. e = f
        BY <1>2, <3>1
      <4>. QED  BY ONLY <2>1, <4>1, a \in Nat, f \in Nat
    <3>2. CASE j < k
      <4>1. PICK b1 \in Nat : b1 = s.places[k][1] /\ e <= b1 /\ b1 < f
        BY <1>2, <3>2, AvsFacts, PlacesFacts
      <4>. QED  BY ONLY <2>1, <4>1, a \in Nat, f \in Nat
    <3>. QED  BY <3>1, <3>2
  <2>. QED  BY ONLY <2>1, <2>2, a \in Nat, f \in Nat
<1>5. /\ First(codes, n) = v - a /\ codes # {}
      /\ First(codes \ {v - a}, n + 4) = e + 4 - a
      /\ e <= f /\ f <= Len(s.bytes)
  <2> HIDE DEF n, codes
  <2>1. n \in Nat /\ n = f - a
    BY <1>4 DEF n
  <2>2. codes = AvsIn(s, a, n)
    BY DEF codes
  <2>3. AvsCode(s, j, a, e, v)
    BY <1>1, <1>2
  <2>4. /\ s \in Streams /\ s.codec = "avs" /\ j \in 1 .. Len(s.places) /\ k \in 1 .. Len(s.places)
        /\ j <= k /\ f = s.places[k][2]
    OBVIOUS
  <2>5. n \in Nat /\ n = f - a /\ a \in Nat /\ e \in Nat /\ v \in Nat /\ f \in Nat
    BY <1>4, <2>1
  <2>6. AvsFirsts(s, a, n, v, e, f)
    BY ONLY <2>3, <2>4, <2>5, AvsCodesIn
  <2>. QED  BY ONLY <2>6 DEF codes, AvsFirsts
<1>6. /\ Len(src) = n
      /\ \A i \in 4 .. n - 1 : AvsPictureAt(src, i) <=> AvsPictureAt(s.bytes, a + i)
      /\ \A p \in 0 .. n : SubSeq(src, 1, p) = Between(s.bytes, a, a + p)
  <2>1. a <= f
    BY ONLY <1>4
  <2>2. /\ s.bytes \in Seq(Bytes) /\ a \in Nat /\ f \in Nat /\ a <= f /\ f <= Len(s.bytes)
        /\ src = Between(s.bytes, a, f) /\ n \in Nat /\ n = f - a
    BY <1>3, <1>4, <1>5, <2>1
  <2> HIDE DEF n
  <2>3. AvsAlike(s.bytes, a, n, src)
    BY ONLY <2>2, AvsWithin
  <2>. QED  BY ONLY <2>3 DEF AvsAlike
<1>7. {i \in 4 .. Len(src) - 1 : AvsPictureAt(src, i)} = codes
  <2> HIDE DEF n
  <2>. QED  BY ONLY <1>6 DEF codes, AvsIn
<1> DEFINE pos == e - a
<1>8. r = [ctx  |-> [held |-> <<>>, gotEos |-> eos], left |-> After(src, pos),
           task |-> [t EXCEPT !.valid = TRUE, !.data = <<>> \o SubSeq(src, 1, pos)]]
  <2>1. c.gotEos = FALSE /\ c.held = <<>>
    OBVIOUS
  <2>2. (e + 4 - a) - 4 = pos
    BY ONLY <1>4
  <2> HIDE DEF codes, n, pos
  <2>. QED  BY <1>5, <1>6, <1>7, <2>1, <2>2 DEF AvsPrepare
<1>9. <<>> \o SubSeq(src, 1, pos) = s.pictures[j]
  <2>1. pos \in 0 .. n /\ a + pos = e
    <3>1. e <= f
      BY <1>5
    <3>. QED  BY ONLY <1>4, <3>1
  <2>4. SubSeq(src, 1, pos) = s.pictures[j]
    <3>1. SubSeq(src, 1, pos) = Between(s.bytes, a, a + pos)
      BY <1>6, <2>1
    <3>. QED  BY <1>3, <2>1, <3>1
  <2>5. \A x \in Seq(Bytes) : <<>> \o x = x
    OBVIOUS
  <2>. QED  BY <1>3, <2>4, <2>5
<1>10. pos \in 1 .. Len(src) /\ a + pos = s.places[j][2]
  <2>1. e <= f /\ Len(src) = n
    BY <1>5, <1>6
  <2>2. pos \in 1 .. Len(src) /\ a + pos = e
    BY ONLY <1>4, <2>1
  <2>. QED  BY <1>2, <2>2
<1> HIDE DEF pos, codes, n
<1>11. r.task = [valid |-> TRUE, eos |-> t.eos, data |-> s.pictures[j]]
  <2>1. r.task = [t EXCEPT !.valid = TRUE, !.data = s.pictures[j]]
    <3>1. PICK z : z = s.pictures[j] /\ z = <<>> \o SubSeq(src, 1, pos)
      BY <1>9
    <3>2. r.task = [t EXCEPT !.valid = TRUE, !.data = <<>> \o SubSeq(src, 1, pos)]
      BY ONLY <1>8
    <3>. QED  BY ONLY <3>1, <3>2
  <2>. QED  BY ONLY <2>1, t \in [valid : BOOLEAN, eos : BOOLEAN, data : {<<>>}]
<1>12. AvsHands(s, j, src, eos, pos, r)
  BY <1>8, <1>10, <1>11 DEF AvsHands
<1>. QED  BY <1>10, <1>11, <1>12

AvsAt(j) == /\ Handed = SubSeq(stream.pictures, 1, j)
            /\ Read = BehindPicture(stream, j) \/ ctx.gotEos

LEMMA AvsBegins ==
    ASSUME stream \in Streams, stream.codec = "avs", Read = 0, Handed = <<>>
    PROVE  0 \in 0 .. Len(stream.places) /\ AvsAt(0)
<1>1. Len(stream.places) \in Nat /\ stream.pictures \in Seq(Seq(Bytes))
  BY AvsFacts, PlacesFacts
<1>2. SubSeq(stream.pictures, 1, 0) = <<>>
  BY <1>1
<1>. QED  BY <1>1, <1>2 DEF AvsAt, BehindPicture

LEMMA AvsInit == Init => AvsInv
<1> SUFFICES ASSUME Init, stream.codec = "avs" PROVE AvsInv
  BY DEF AvsInv
<1>1. /\ stream \in Streams /\ Read = 0 /\ Handed = <<>> /\ ctx = AvsSplitStart /\ task = NoTask /\ ends = 0
  BY CommonInit DEF Init, ContextOf
<1>2. task.eos = FALSE
  BY <1>1 DEF NoTask
<1>3. ctx \in [held : {<<>>}, gotEos : BOOLEAN] /\ ctx.gotEos = FALSE
  BY <1>1 DEF AvsSplitStart
<1>4. 0 \in 0 .. Len(stream.places) /\ AvsAt(0)
  BY <1>1, AvsBegins
<1>. QED  BY <1>1, <1>2, <1>3, <1>4 DEF AvsInv, AvsAt

LEMMA AvsUser ==
    ASSUME PacketInv, TaskInv, AvsInv, (\E to \in 1 .. Len(stream.bytes) : PutPacket(to)) \/ PutEnd
    PROVE  AvsInv'
<1>1. /\ Read' = Read /\ Handed' = Handed /\ eosPut = "no"
      /\ UNCHANGED <<stream, ctx, task, given, ends, resets, eosBefore>>
  <2>1. CASE \E to \in 1 .. Len(stream.bytes) : PutPacket(to)
    BY <2>1, CommonPut DEF PutPacket
  <2>2. CASE PutEnd
    BY <2>2, CommonEnd DEF PutEnd
  <2>. QED  BY <2>1, <2>2
<1>. QED  BY <1>1 DEF AvsInv

LEMMA AvsParse ==
    ASSUME PacketInv, TaskInv, AvsInv, Parse
    PROVE  AvsInv'
<1> SUFFICES ASSUME stream.codec = "avs", stream' = stream PROVE AvsInv'
  BY CommonParse DEF AvsInv
<1>1. /\ Read' = Read /\ Handed' = Handed /\ ~task'.eos /\ ctx' = ctx /\ eosPut' = eosPut
      /\ ends' = ends + (IF task.eos THEN 1 ELSE 0)
  BY CommonParse
<1>2. ~task.eos /\ ends = 0
  BY DEF AvsInv
<1>3. ends' = 0
  BY <1>1, <1>2
<1>. QED  BY <1>1, <1>3 DEF AvsInv

LEMMA AvsResets ==
    ASSUME PacketInv, TaskInv, AvsInv, Reset
    PROVE  AvsInv'
<1> SUFFICES ASSUME stream.codec = "avs", stream' = stream PROVE AvsInv'
  BY CommonReset DEF AvsInv
<1>1. /\ Read' = 0 /\ Handed' = <<>> /\ ~task'.eos /\ ends' = 0 /\ ctx' = AvsSplitReset(ctx)
      /\ stream \in Streams
  BY CommonReset DEF ResetOf, PacketInv
<1>2. ctx \in [held : {<<>>}, gotEos : BOOLEAN]
  BY DEF AvsInv
<1>3. ctx' \in [held : {<<>>}, gotEos : BOOLEAN] /\ ctx'.gotEos = FALSE
  BY ONLY <1>1, <1>2 DEF AvsSplitReset
<1>4. AvsAt(0)' /\ 0 \in 0 .. Len(stream.places)
  <2>1. Len(stream.places) \in Nat /\ stream.pictures \in Seq(Seq(Bytes))
    BY <1>1, AvsFacts, PlacesFacts
  <2>2. SubSeq(stream.pictures, 1, 0) = <<>>
    BY <2>1
  <2>. QED  BY <1>1, <2>1, <2>2 DEF AvsAt, BehindPicture
<1>. QED  BY <1>1, <1>3, <1>4 DEF AvsInv, AvsAt

LEMMA AvsPrepared ==
    ASSUME PacketInv, TaskInv, AvsInv, stream.codec = "avs", Prepare
    PROVE  PacketInv' /\ TaskInv' /\ AvsInv'
<1> DEFINE r == PrepareOf(stream.codec, ctx, packet.data, packet.eos, task)
           n == Len(packet.data)
           m == Len(stream.places)
<1>1. /\ ctx \in [held : {<<>>}, gotEos : BOOLEAN] /\ (ctx.gotEos => eosPut # "no")
      /\ ~task.eos /\ ends = 0
  BY DEF AvsInv
<1>2. PICK j \in 0 .. m : AvsAt(j)
  BY DEF AvsInv, AvsAt
<1>3. /\ packet # NoPacket /\ ~task.valid /\ task.data = <<>> /\ Handed = given
      /\ task \in [valid : BOOLEAN, eos : BOOLEAN, data : {<<>>}]
  BY PrepareIs DEF TaskInv, Handed
<1>4. /\ packet.eos \in BOOLEAN /\ packet.data \in Seq(Bytes) /\ (packet.eos => eosPut # "no")
      /\ stream \in Streams /\ stream.bytes \in Seq(Bytes) /\ Len(stream.bytes) \in Nat
      /\ n \in Nat /\ Read \in Nat /\ put \in Nat /\ Read + n = put /\ put <= Len(stream.bytes)
      /\ packet.data = Between(stream.bytes, Read, put)
      /\ packet.data # <<>> => n > 0 /\ (\E p \in stream.packets : p[2] = put)
      /\ packet.data = <<>> => n = 0
  BY PartRead, EmptySeq DEF PacketInv
<1>5. /\ m \in Nat \ {0} /\ stream.pictures \in Seq(Seq(Bytes)) /\ Len(stream.pictures) = m
      /\ stream.places[1][1] = 0 /\ stream.places[m][2] = Len(stream.bytes)
      /\ \A i \in 1 .. m - 1 : stream.places[i][2] = stream.places[i + 1][1]
      /\ \A i \in 1 .. m : stream.places[i][1] \in Nat /\ stream.places[i][2] \in Nat
      /\ \A i \in 1 .. m : stream.pictures[i] # <<>>
      /\ \A p \in stream.packets : \E k \in 1 .. m : p[2] = stream.places[k][2]
      /\ \A i, k \in 1 .. m : i < k => stream.places[i][2] <= stream.places[k][1]
      /\ \A i \in 1 .. m : stream.places[i][1] < stream.places[i][2]
  BY <1>4, AvsFacts, PlacesFacts
<1>6. r = AvsPrepare(ctx, packet.data, packet.eos, task)
  BY DEF PrepareOf
<1> DEFINE Nothing == /\ r.left = <<>> /\ r.task = task /\ r.ctx \in [held : {<<>>}, gotEos : BOOLEAN]
                      /\ (r.ctx.gotEos => eosPut # "no")
                      /\ (Read + n = BehindPicture(stream, j) \/ r.ctx.gotEos)
<1>7. ASSUME Nothing PROVE PacketInv' /\ TaskInv' /\ AvsInv'
  <2> HIDE DEF r
  <2>1. Called(r, n)
    <3>1. After(packet.data, n) = <<>> /\ n \in 0 .. Len(packet.data)
      BY <1>4 DEF After
    <3>2. r.task.data = <<>> /\ r.task.valid = FALSE /\ r.task \in [valid : BOOLEAN, eos : BOOLEAN, data : {r.task.data}]
      BY <1>3, <1>7
    <3>. QED  BY <1>7, <3>1, <3>2 DEF Called, r
  <2>2. /\ PacketInv' /\ TaskInv' /\ Read' = Read + n /\ Handed' = Handed /\ ctx' = r.ctx /\ task' = task
        /\ ends' = ends + 0 /\ eosPut' = eosPut /\ stream' = stream
    <3>1. ~r.task.valid /\ ~r.task.eos
      BY <1>1, <1>3, <1>7
    <3>. QED  BY <1>7, <2>1, <3>1, CommonPrepare
  <2>3. AvsAt(j)'
    BY <1>2, <1>7, <2>2 DEF AvsAt, BehindPicture
  <2>4. ends' = 0 /\ ~task'.eos
    BY <1>1, <2>2
  <2>. QED  BY <1>2, <1>7, <2>2, <2>3, <2>4 DEF AvsInv, AvsAt
<1>8. CASE ctx.gotEos
  <2>1. r = [ctx |-> ctx, left |-> <<>>, task |-> task]
    BY <1>6, <1>8 DEF AvsPrepare
  <2>2. Nothing
    <3> HIDE DEF r
    <3>. QED  BY <1>1, <1>8, <2>1
  <2>. QED  BY <1>7, <2>2
<1>9. CASE ~ctx.gotEos /\ packet.data = <<>>
  <2>1. n = 0 /\ ctx.held = <<>>
    BY <1>1, <1>4, <1>9
  <2>2. {i \in 4 .. n - 1 : AvsPictureAt(packet.data, i)} = {}
    BY <2>1
  <2>3. \A z : First({}, z) = z /\ {} \ {z} = {}
    BY DEF First
  <2>4. r = [ctx |-> [held |-> <<>> \o SubSeq(packet.data, 1, 0), gotEos |-> packet.eos],
             left |-> After(packet.data, 0), task |-> [task EXCEPT !.valid = FALSE, !.data = <<>>]]
    <3>1. (0 + 4) - 4 = 0
      OBVIOUS
    <3>. QED  BY <1>6, <1>9, <2>1, <2>2, <2>3, <3>1 DEF AvsPrepare
  <2>5. <<>> \o SubSeq(packet.data, 1, 0) = <<>> /\ After(packet.data, 0) = <<>>
    <3>1. packet.data = <<>> /\ Len(packet.data) = 0
      BY <1>9, <2>1
    <3>2. SubSeq(packet.data, 1, 0) = <<>> /\ <<>> \o <<>> = <<>>
      BY <1>4
    <3>3. SubSeq(packet.data, 0 + 1, Len(packet.data)) = <<>>
      BY <1>4, <3>1
    <3>. QED  BY <3>2, <3>3 DEF After
  <2>6. [task EXCEPT !.valid = FALSE, !.data = <<>>] = task
    BY <1>3
  <2>7. /\ r.left = <<>> /\ r.task = task /\ r.ctx = [held |-> <<>>, gotEos |-> packet.eos]
    BY <2>4, <2>5, <2>6
  <2>8. Read + n = BehindPicture(stream, j)
    BY <1>2, <1>4, <1>9, <2>1 DEF AvsAt
  <2>9. Nothing
    <3> HIDE DEF r, n
    <3>1. r.ctx \in [held : {<<>>}, gotEos : BOOLEAN] /\ r.ctx.gotEos = packet.eos
      BY <1>4, <2>7
    <3>. QED  BY <1>4, <2>7, <2>8, <3>1
  <2>. QED  BY <1>7, <2>9
<1>10. CASE ~ctx.gotEos /\ packet.data # <<>>
  <2>1. Read = BehindPicture(stream, j) /\ Read < put
    BY <1>2, <1>4, <1>10 DEF AvsAt
  <2>2. PICK k \in 1 .. m : put = stream.places[k][2]
    BY <1>4, <1>5, <1>10
  <2>3. j < k /\ j \in Nat
    <3> SUFFICES ASSUME k <= j PROVE FALSE
      OBVIOUS
    <3>1. j \in 1 .. m /\ Read = stream.places[j][2]
      BY <1>5, <2>1 DEF BehindPicture
    <3>2. CASE k = j
      BY <1>4, <2>1, <2>2, <3>1, <3>2
    <3>3. CASE k < j
      <4>1. PICK a \in Nat, b \in Nat, c \in Nat :
               a = stream.places[k][2] /\ b = stream.places[j][1] /\ c = stream.places[j][2] /\ a <= b /\ b < c
        BY <1>5, <3>1, <3>3
      <4>. QED  BY <1>4, <2>1, <2>2, <3>1, <4>1, SMTT(30)
    <3>. QED  BY <3>2, <3>3
  <2>4. PICK l \in 1 .. m : l = j + 1 /\ l <= k
    BY <1>5, <2>3
  <2>5. Read = stream.places[l][1]
    <3>1. CASE j = 0
      BY <1>5, <2>1, <2>4, <3>1 DEF BehindPicture
    <3>2. CASE j # 0
      <4>1. j \in 1 .. m - 1
        BY <1>5, <2>3, <2>4, <3>2
      <4>. QED  BY <1>5, <2>1, <2>4, <3>2, <4>1 DEF BehindPicture
    <3>. QED  BY <3>1, <3>2
  <2>6. ctx = [held |-> <<>>, gotEos |-> FALSE]
    BY <1>1, <1>10
  <2>7. /\ \E pos : AvsHands(stream, l, packet.data, packet.eos, pos, r) /\ Read + pos = stream.places[l][2]
        /\ r.task = [valid |-> TRUE, eos |-> task.eos, data |-> stream.pictures[l]]
    <3>1. PICK a \in Nat, f \in Nat : a = Read /\ f = put
      BY <1>4
    <3>2. PICK src, eos : src = packet.data /\ eos = packet.eos
      OBVIOUS
    <3>3. /\ stream \in Streams /\ stream.codec = "avs" /\ l \in 1 .. m /\ k \in 1 .. m /\ l <= k
          /\ a = stream.places[l][1] /\ f = stream.places[k][2] /\ src = Between(stream.bytes, a, f)
          /\ eos \in BOOLEAN
      BY <1>4, <2>2, <2>4, <2>5, <3>1, <3>2
    <3>4. task \in [valid : BOOLEAN, eos : BOOLEAN, data : {<<>>}]
      BY <1>3
    <3>5. r = AvsPrepare(ctx, src, eos, task)
      BY <1>6, <3>2
    <3> HIDE DEF r
    <3>6. /\ \E pos : AvsHands(stream, l, src, eos, pos, r) /\ a + pos = stream.places[l][2]
          /\ r.task = [valid |-> TRUE, eos |-> task.eos, data |-> stream.pictures[l]]
      BY ONLY <2>6, <3>1, <3>3, <3>4, <3>5, AvsCall, SMTT(30)
    <3>. QED  BY <3>1, <3>2, <3>6
  <2> HIDE DEF r
  <2>8. PICK pos : AvsHands(stream, l, packet.data, packet.eos, pos, r) /\ Read + pos = stream.places[l][2]
    BY <2>7
  <2>9. /\ pos \in 1 .. n /\ r.left = After(packet.data, pos)
        /\ r.ctx = [held |-> <<>>, gotEos |-> packet.eos]
    BY <2>8 DEF AvsHands
  <2>10. /\ r.task.valid = TRUE /\ r.task.eos = task.eos /\ r.task.data = stream.pictures[l] /\ task.eos = FALSE
         /\ r.task \in [valid : BOOLEAN, eos : BOOLEAN, data : {r.task.data}]
    BY <1>1, <1>3, <2>7
  <2>11. Called(r, pos)
    <3>1. pos \in 0 .. Len(packet.data)
      BY <1>4, <2>9
    <3>2. r.task.data # <<>>
      BY <1>5, <2>10
    <3> HIDE DEF n
    <3>. QED  BY <2>9, <2>10, <3>1, <3>2 DEF Called, r
  <2>12. /\ PacketInv' /\ TaskInv' /\ Read' = Read + pos /\ Handed' = Append(given, stream.pictures[l])
         /\ ctx' = r.ctx /\ task' = r.task
         /\ ends' = ends + 0 /\ eosPut' = eosPut /\ stream' = stream
    BY <2>10, <2>11, CommonPrepare
  <2>13. Append(given, stream.pictures[l]) = SubSeq(stream.pictures, 1, l)
    <3>1. given = SubSeq(stream.pictures, 1, j) /\ j < Len(stream.pictures) /\ j \in 0 .. Len(stream.pictures)
      BY <1>2, <1>3, <1>5, <2>4 DEF AvsAt
    <3>2. SubSeq(stream.pictures, 1, j + 1) = Append(SubSeq(stream.pictures, 1, j), stream.pictures[j + 1])
      BY <1>5, <3>1, PrefixOf
    <3>. QED  BY <2>4, <3>1, <3>2
  <2>14. AvsAt(l)'
    <3>1. l # 0 /\ Read' = stream.places[l][2]
      BY <2>8, <2>12
    <3>. QED  BY <2>12, <2>13, <3>1 DEF AvsAt, BehindPicture
  <2>15. ctx' \in [held : {<<>>}, gotEos : BOOLEAN] /\ ctx'.gotEos = packet.eos
    BY <1>4, <2>9, <2>12
  <2>16. ends' = 0 /\ ~task'.eos /\ l \in 0 .. m
    BY <1>1, <1>5, <2>10, <2>12
  <2>. QED  BY <1>4, <2>12, <2>14, <2>15, <2>16 DEF AvsInv, AvsAt
<1>. QED  BY <1>8, <1>9, <1>10

LEMMA AvsGives ==
    ASSUME PacketInv, TaskInv, AvsInv, stream.codec = "avs"
    PROVE  PicturesIntact /\ EndsComplete
<1>1. stream \in Streams
  BY DEF PacketInv
<1>2. Len(stream.places) \in Nat /\ stream.pictures \in Seq(Seq(Bytes)) /\ Len(stream.pictures) = Len(stream.places)
  BY <1>1, AvsFacts, PlacesFacts
<1>3. PICK j \in 0 .. Len(stream.places) : Handed = SubSeq(stream.pictures, 1, j)
  BY DEF AvsInv
<1>4. IsPrefix(given, stream.pictures)
  BY <1>2, <1>3, GivenOfHanded
<1>5. ends = 0
  BY DEF AvsInv
<1>. QED  BY <1>4, <1>5 DEF PicturesIntact, EndsComplete, SplitEnded
-----------------------------------------------------------------------------
(***************************************************************************)
(* VP9: j frames were handed over.  Nothing is left of the last packet, or *)
(* the next one was not looked at, or the frames up to k of a superframe   *)
(* are to come, with their sizes.                                          *)
(***************************************************************************)
FrameAt(s, j)    == IF j > Len(s.places) THEN Len(s.bytes) ELSE s.places[j][1]
SizesOf(s, j, k) == [i \in 1 .. k - j |-> s.places[j + i][2] - s.places[j + i][1]]

Vp9Waits(j) ==
    /\ ctx.sizes = <<>> /\ packet.data = <<>>
    /\ put = FrameAt(stream, j + 1) \/ (put = 0 /\ j = 0)

Vp9Fresh(j) ==
    /\ ctx.sizes = <<>> /\ j < Len(stream.places)
    /\ Read = stream.places[j + 1][1] /\ <<Read, put>> \in stream.packets

Vp9Inside(j, k) ==
    /\ j < k /\ put = FrameAt(stream, k + 1) /\ Read = stream.places[j + 1][1]
    /\ ctx.sizes = SizesOf(stream, j, k)
    /\ \A i \in j + 1 .. k - 1 : stream.places[i][2] = stream.places[i + 1][1]

Vp9At(j) ==
    /\ Handed = SubSeq(stream.pictures, 1, j)
    /\ Vp9Waits(j) \/ Vp9Fresh(j) \/ \E k \in 1 .. Len(stream.places) : Vp9Inside(j, k)

Vp9Inv ==
    stream.codec = "vp9" =>
        /\ ctx = [sizes |-> ctx.sizes]
        /\ task.eos \/ ends > 0 => eosPut # "no"
        /\ eosPut = "data" /\ ends > 0 => given # <<>>
        /\ eosPut = "empty" /\ ends > 0 => ~task.valid
        /\ \E j \in 0 .. Len(stream.places) : Vp9At(j)

(* The frames up to k begin each where the one before ends.                *)
Vp9Run(s, j, k) == \A i \in j + 1 .. k - 1 : s.places[i][2] = s.places[i + 1][1]

(* What a packet holds, and what is known of its sizes.                    *)
Vp9Holds(s, j, k, c, src, q, f) ==
    IF c.sizes # <<>> THEN c.sizes = SizesOf(s, j, k)
    ELSE IF k = j + 1 THEN q = s.places[k][1] /\ f = s.places[k][2] /\ ~HasIndex(src)
    ELSE HasIndex(src) /\ Vp9Sizes(src) = SizesOf(s, j, k)

LEMMA Vp9Facts ==
    ASSUME NEW s \in Streams, s.codec = "vp9"
    PROVE  /\ PicturesLie(s) /\ Len(s.places) \in Nat \ {0}
           /\ \A i \in 1 .. Len(s.places) :
                 /\ s.places[i][1] \in Nat /\ s.places[i][2] \in Nat
                 /\ s.places[i][1] < s.places[i][2] /\ s.places[i][2] <= Len(s.bytes)
           /\ \A i, k \in 1 .. Len(s.places) : i < k => s.places[i][2] <= s.places[k][1]
           /\ \A p \in s.packets : \E j, k \in 1 .. Len(s.places) :
                 /\ j <= k /\ p[1] = s.places[j][1] /\ p[2] = FrameAt(s, k + 1)
                 /\ IF j = k THEN p = s.places[j] /\ ~HasIndex(Part(s, p))
                    ELSE /\ HasIndex(Part(s, p))
                         /\ Vp9Sizes(Part(s, p)) =
                              [i \in 1 .. k - j + 1 |-> s.places[j + i - 1][2] - s.places[j + i - 1][1]]
                         /\ \A i \in j .. k - 1 : s.places[i][2] = s.places[i + 1][1]
<1>1. PicturesLie(s) /\ Vp9Cut(s)
  BY StreamFacts DEF CutWell
<1>2. DOMAIN s.places = 1 .. Len(s.places) /\ Len(s.places) \in Nat \ {0}
  BY <1>1, PlacesFacts
<1>3. \A k \in 1 .. Len(s.places) : (IF k = Len(s.places) THEN Len(s.bytes) ELSE s.places[k + 1][1]) = FrameAt(s, k + 1)
  BY <1>2 DEF FrameAt
<1>4. ASSUME NEW p \in s.packets
      PROVE  \E j, k \in 1 .. Len(s.places) :
                 /\ j <= k /\ p[1] = s.places[j][1] /\ p[2] = FrameAt(s, k + 1)
                 /\ IF j = k THEN p = s.places[j] /\ ~HasIndex(Part(s, p))
                    ELSE /\ HasIndex(Part(s, p))
                         /\ Vp9Sizes(Part(s, p)) =
                              [i \in 1 .. k - j + 1 |-> s.places[j + i - 1][2] - s.places[j + i - 1][1]]
                         /\ \A i \in j .. k - 1 : s.places[i][2] = s.places[i + 1][1]
  <2>1. PICK j \in 1 .. Len(s.places), k \in 1 .. Len(s.places) :
                 /\ j <= k /\ p[1] = s.places[j][1]
                 /\ p[2] = (IF k = Len(s.places) THEN Len(s.bytes) ELSE s.places[k + 1][1])
                 /\ IF j = k THEN p = s.places[j] /\ ~HasIndex(Part(s, p))
                    ELSE /\ HasIndex(Part(s, p))
                         /\ Vp9Sizes(Part(s, p)) =
                              [i \in 1 .. k - j + 1 |-> s.places[j + i - 1][2] - s.places[j + i - 1][1]]
                         /\ \A i \in j .. k - 1 : s.places[i][2] = s.places[i + 1][1]
    <3>1. PICK j \in DOMAIN s.places, k \in DOMAIN s.places :
                 /\ j <= k /\ p[1] = s.places[j][1]
                 /\ p[2] = (IF k = Len(s.places) THEN Len(s.bytes) ELSE s.places[k + 1][1])
                 /\ IF j = k THEN p = s.places[j] /\ ~HasIndex(Part(s, p))
                    ELSE /\ HasIndex(Part(s, p))
                         /\ Vp9Sizes(Part(s, p)) =
                              [i \in 1 .. k - j + 1 |-> s.places[j + i - 1][2] - s.places[j + i - 1][1]]
                         /\ \A i \in j .. k - 1 : s.places[i][2] = s.places[i + 1][1]
      BY ONLY <1>1, p \in s.packets, Zenon DEF Vp9Cut
    <3>2. j \in 1 .. Len(s.places) /\ k \in 1 .. Len(s.places)
      BY <1>2
    <3>. QED  BY ONLY <3>1, <3>2, Zenon
  <2>. QED  BY ONLY <1>3, <2>1, Zenon
<1>5. /\ \A i \in 1 .. Len(s.places) :
            /\ s.places[i][1] \in Nat /\ s.places[i][2] \in Nat
            /\ s.places[i][1] < s.places[i][2] /\ s.places[i][2] <= Len(s.bytes)
      /\ \A i, k \in 1 .. Len(s.places) : i < k => s.places[i][2] <= s.places[k][1]
  BY <1>1, PlacesFacts
<1>. QED  BY ONLY <1>1, <1>2, <1>4, <1>5, Zenon

(* A frame is known by its beginning, the end of the stream by its length. *)
LEMMA Vp9Places ==
    ASSUME NEW s \in Streams, s.codec = "vp9", NEW j \in 0 .. Len(s.places)
    PROVE  /\ FrameAt(s, j + 1) \in Nat
           /\ \A l \in 1 .. Len(s.places) : s.places[l][1] = FrameAt(s, j + 1) => l = j + 1
           /\ \A l \in 1 .. Len(s.places) : s.places[l][1] = 0 => l = 1
           /\ FrameAt(s, j + 1) = Len(s.bytes) => j = Len(s.places)
           /\ j > 0 => s.places[j][2] <= FrameAt(s, j + 1)
<1> DEFINE m == Len(s.places)
           N == Len(s.bytes)
<1>1. /\ m \in Nat \ {0} /\ N \in Nat \ {0}
      /\ \A i \in 1 .. m : s.places[i][1] \in Nat /\ s.places[i][2] \in Nat
                           /\ s.places[i][1] < s.places[i][2] /\ s.places[i][2] <= N
      /\ \A i, k \in 1 .. m : i < k => s.places[i][2] <= s.places[k][1]
  BY Vp9Facts, StreamFacts
<1> HIDE DEF m, N
<1>2. ASSUME NEW i \in 1 .. m, NEW k \in 1 .. m, i < k
      PROVE  s.places[i][1] < s.places[k][1]
  <2>1. PICK a \in Nat, b \in Nat, c \in Nat :
           a = s.places[i][1] /\ b = s.places[i][2] /\ c = s.places[k][1] /\ a < b /\ b <= c
    BY <1>1, <1>2
  <2>2. a < c
    BY ONLY <2>1, SMTT(30)
  <2>. QED  BY ONLY <2>1, <2>2
<1>3. ASSUME NEW i \in 1 .. m PROVE s.places[i][1] < N
  <2>1. PICK a \in Nat, b \in Nat : a = s.places[i][1] /\ b = s.places[i][2] /\ a < b /\ b <= N
    BY <1>1
  <2>2. a < N
    BY ONLY <1>1, <2>1
  <2>. QED  BY ONLY <2>1, <2>2
<1>4. CASE j = m
  <2>1. FrameAt(s, j + 1) = N
    BY <1>1, <1>4 DEF FrameAt, m, N
  <2>2. \A l \in 1 .. m : s.places[l][1] # N
    BY <1>1, <1>3
  <2>3. j > 0 => s.places[j][2] <= N
    BY <1>1, <1>4
  <2>4. \A l \in 1 .. m : s.places[l][1] = 0 => l = 1
    <3> SUFFICES ASSUME NEW l \in 1 .. m, s.places[l][1] = 0, l # 1 PROVE FALSE
      OBVIOUS
    <3>1. 1 \in 1 .. m /\ 1 < l
      BY <1>1
    <3>2. s.places[1][1] < s.places[l][1] /\ s.places[1][1] \in Nat
      BY <1>1, <1>2, <3>1
    <3>. QED  BY <3>2
  <2>. QED  BY <1>1, <1>4, <2>1, <2>2, <2>3, <2>4 DEF m, N
<1>5. CASE j # m
  <2>1. PICK l \in 1 .. m : l = j + 1 /\ FrameAt(s, j + 1) = s.places[l][1]
    BY <1>1, <1>5 DEF FrameAt, m
  <2>2. \A i \in 1 .. m : s.places[i][1] = s.places[l][1] => i = l
    <3> SUFFICES ASSUME NEW i \in 1 .. m, s.places[i][1] = s.places[l][1], i # l PROVE FALSE
      OBVIOUS
    <3>1. i < l \/ l < i
      OBVIOUS
    <3>2. s.places[i][1] < s.places[l][1] \/ s.places[l][1] < s.places[i][1]
      BY <1>2, <3>1
    <3>. QED  BY <1>1, <3>2
  <2>3. s.places[l][1] < N
    BY <1>3
  <2>4. \A i \in 1 .. m : s.places[i][1] = 0 => i = 1
    <3> SUFFICES ASSUME NEW i \in 1 .. m, s.places[i][1] = 0, i # 1 PROVE FALSE
      OBVIOUS
    <3>1. 1 \in 1 .. m /\ 1 < i
      BY <1>1
    <3>2. s.places[1][1] < s.places[i][1] /\ s.places[1][1] \in Nat
      BY <1>1, <1>2, <3>1
    <3>. QED  BY <3>2
  <2>5. j > 0 => s.places[j][2] <= s.places[l][1]
    <3> SUFFICES ASSUME j > 0 PROVE s.places[j][2] <= s.places[l][1]
      OBVIOUS
    <3>1. j \in 1 .. m /\ j < l
      BY <1>1, <2>1
    <3>. QED  BY <1>1, <3>1
  <2>6. s.places[l][1] \in Nat /\ s.places[l][1] # N
    BY <1>1, <2>3
  <2>. QED  BY ONLY <2>1, <2>2, <2>4, <2>5, <2>6 DEF m, N
<1>. QED  BY <1>4, <1>5

LEMMA Vp9Tail ==
    ASSUME NEW s \in Streams, s.codec = "vp9", NEW j \in Nat, NEW k \in 1 .. Len(s.places), j < k
    PROVE  /\ SizesOf(s, j, k) \in Seq(Nat) /\ Len(SizesOf(s, j, k)) = k - j
           /\ SizesOf(s, j, k)[1] = s.places[j + 1][2] - s.places[j + 1][1]
           /\ Tail(SizesOf(s, j, k)) = SizesOf(s, j + 1, k)
<1>1. PICK n \in Nat : n = k - j /\ n > 0
  OBVIOUS
<1>2. \A i \in 1 .. n : j + i \in 1 .. Len(s.places)
  BY <1>1
<1>3. \A i \in 1 .. Len(s.places) : s.places[i][2] - s.places[i][1] \in Nat
  BY Vp9Facts
<1>4. \A i \in 1 .. n : s.places[j + i][2] - s.places[j + i][1] \in Nat
  BY <1>2, <1>3
<1>5. SizesOf(s, j, k) = [i \in 1 .. n |-> s.places[j + i][2] - s.places[j + i][1]]
  BY <1>1 DEF SizesOf
<1>6. SizesOf(s, j, k) \in Seq(Nat) /\ Len(SizesOf(s, j, k)) = n
  BY ONLY <1>1, <1>4, <1>5
<1>7. 1 \in 1 .. n
  BY <1>1
<1>8. SizesOf(s, j, k)[1] = s.places[j + 1][2] - s.places[j + 1][1]
  BY ONLY <1>5, <1>7
<1>9. SizesOf(s, j + 1, k) = [i \in 1 .. n - 1 |-> s.places[(j + 1) + i][2] - s.places[(j + 1) + i][1]]
  <2>1. k - (j + 1) = n - 1
    BY <1>1
  <2>. QED  BY <2>1 DEF SizesOf
<1>10. Tail(SizesOf(s, j, k)) = [i \in 1 .. n - 1 |-> s.places[(j + 1) + i][2] - s.places[(j + 1) + i][1]]
  <2>1. \A z \in Seq(Nat) : Len(z) = n => Tail(z) = [i \in 1 .. n - 1 |-> z[i + 1]]
    <3> SUFFICES ASSUME NEW z \in Seq(Nat), Len(z) = n PROVE Tail(z) = [i \in 1 .. n - 1 |-> z[i + 1]]
      OBVIOUS
    <3>1. z # <<>>
      BY <1>1
    <3>2. Tail(z) \in Seq(Nat) /\ Len(Tail(z)) = n - 1 /\ \A i \in 1 .. Len(Tail(z)) : Tail(z)[i] = z[i + 1]
      BY <3>1, HeadTailProperties
    <3>3. Tail(z) = [i \in 1 .. n - 1 |-> Tail(z)[i]]
      <4>1. Tail(z) \in [1 .. Len(Tail(z)) -> Nat]
        BY <3>2, LenProperties
      <4>. QED  BY ONLY <3>2, <4>1
    <3>. QED  BY ONLY <3>2, <3>3, Zenon
  <2>2. Tail(SizesOf(s, j, k)) = [i \in 1 .. n - 1 |-> SizesOf(s, j, k)[i + 1]]
    BY <1>6, <2>1
  <2>3. \A i \in 1 .. n - 1 : i + 1 \in 1 .. n /\ j + (i + 1) = (j + 1) + i
    BY <1>1
  <2>4. \A i \in 1 .. n - 1 : SizesOf(s, j, k)[i + 1] = s.places[j + (i + 1)][2] - s.places[j + (i + 1)][1]
    BY ONLY <1>5, <2>3
  <2>. QED  BY ONLY <2>2, <2>3, <2>4, Zenon
<1>. QED  BY <1>1, <1>6, <1>8, <1>9, <1>10

LEMMA Vp9None ==
    ASSUME NEW s, NEW k \in Nat
    PROVE  SizesOf(s, k, k) = <<>>
<1>1. 1 .. k - k = {}
  OBVIOUS
<1>. QED  BY <1>1 DEF SizesOf

(* A call of prepare hands over the next frame.                            *)
Vp9Hands(s, k, l, src, eos, q, r) ==
    \E pos \in 1 .. Len(src) :
       /\ r.left = After(src, pos)
       /\ r.ctx = [sizes |-> SizesOf(s, l, k)]
       /\ r.task = [valid |-> TRUE, eos |-> eos, data |-> s.pictures[l]]
       /\ IF l = k THEN pos = Len(src) ELSE q + pos = s.places[l + 1][1]

(* The first size, the others, and what is consumed.                       *)
Vp9Next(s, k, l, c, sizes, src, d) ==
    /\ sizes[1] = d /\ Tail(sizes) = SizesOf(s, l, k)
    /\ Vp9Consumed(c, sizes, src) = IF l = k THEN Len(src) ELSE d

LEMMA Vp9SizesFound ==
    ASSUME NEW s \in Streams, s.codec = "vp9", NEW j \in Nat, NEW k \in 1 .. Len(s.places), j < k,
           NEW l \in 1 .. Len(s.places), l = j + 1,
           NEW q \in Nat, q = s.places[l][1], NEW f \in Nat, f = FrameAt(s, k + 1),
           NEW src \in Seq(Bytes), Len(src) = f - q, NEW c, Vp9Holds(s, j, k, c, src, q, f),
           NEW d, d = s.places[l][2] - s.places[l][1],
           NEW sizes, sizes = IF c.sizes # <<>> THEN c.sizes
                              ELSE IF HasIndex(src) THEN Vp9Sizes(src) ELSE <<Len(src)>>
    PROVE  Vp9Next(s, k, l, c, sizes, src, d)
<1>1. /\ SizesOf(s, j, k) \in Seq(Nat) /\ Len(SizesOf(s, j, k)) = k - j
      /\ SizesOf(s, j, k)[1] = d /\ Tail(SizesOf(s, j, k)) = SizesOf(s, l, k)
  BY Vp9Tail
<1>2. CASE c.sizes # <<>>
  <2>1. sizes = SizesOf(s, j, k) /\ c.sizes = SizesOf(s, j, k)
    BY <1>2 DEF Vp9Holds
  <2>2. PICK y : y = Len(c.sizes) /\ y = k - j
    BY <1>1, <2>1
  <2>3. y = 1 <=> l = k
    BY <2>2
  <2>4. Len(c.sizes) = 1 <=> l = k
    BY ONLY <2>2, <2>3
  <2>. QED  BY <1>1, <2>1, <2>4 DEF Vp9Next, Vp9Consumed
<1>3. CASE c.sizes = <<>> /\ k = l
  <2>1. d = f - q /\ ~HasIndex(src) /\ sizes = <<Len(src)>>
    BY <1>3 DEF Vp9Holds
  <2>2. Tail(sizes) = <<>> /\ sizes[1] = Len(src) /\ SizesOf(s, l, k) = <<>>
    BY <1>3, <2>1, Vp9None
  <2>. QED  BY <1>3, <2>1, <2>2 DEF Vp9Next, Vp9Consumed
<1>4. CASE c.sizes = <<>> /\ k # l
  <2>1. sizes = SizesOf(s, j, k)
    BY <1>4 DEF Vp9Holds
  <2>2. Len(c.sizes) = 0
    BY <1>4
  <2>3. Vp9Consumed(c, sizes, src) = sizes[1]
    BY <2>2 DEF Vp9Consumed
  <2>. QED  BY <1>1, <1>4, <2>1, <2>3 DEF Vp9Next
<1>. QED  BY <1>2, <1>3, <1>4

LEMMA Distance ==
    ASSUME NEW q \in Nat, NEW e \in Nat, NEW f \in Nat, q < e, e <= f
    PROVE  \E d \in Nat : d = e - q /\ d > 0 /\ q + d = e /\ d <= f - q
<1>1. e - q \in Nat /\ e - q > 0 /\ q + (e - q) = e /\ e - q <= f - q
  OBVIOUS
<1>. QED  BY ONLY <1>1

LEMMA Vp9Call ==
    ASSUME NEW s \in Streams, s.codec = "vp9", NEW j \in Nat, NEW k \in 1 .. Len(s.places), j < k,
           NEW l \in 1 .. Len(s.places), l = j + 1, Vp9Run(s, j, k),
           NEW q \in Nat, q = s.places[l][1], NEW f \in Nat, f = FrameAt(s, k + 1), f <= Len(s.bytes),
           NEW src, src = Between(s.bytes, q, f),
           NEW c, Vp9Holds(s, j, k, c, src, q, f),
           NEW eos, NEW t, NEW r, r = Vp9Prepare(c, src, eos, t)
    PROVE  Vp9Hands(s, k, l, src, eos, q, r)
<1>1. /\ s.bytes \in Seq(Bytes) /\ Len(s.places) \in Nat
      /\ \A i \in 1 .. Len(s.places) : s.places[i][1] \in Nat /\ s.places[i][2] \in Nat
                                       /\ s.places[i][1] < s.places[i][2]
      /\ \A i, h \in 1 .. Len(s.places) : i < h => s.places[i][2] <= s.places[h][1]
      /\ s.pictures[l] = Between(s.bytes, s.places[l][1], s.places[l][2])
  BY Vp9Facts, StreamFacts, PlacesFacts
<1>2. PICK e \in Nat : e = s.places[l][2] /\ q < e
  BY <1>1
<1>3. e <= f
  <2>1. PICK g \in Nat : g = s.places[k][2] /\ g <= f
    <3>1. k \in 0 .. Len(s.places) /\ k > 0
      BY <1>1
    <3>2. s.places[k][2] <= FrameAt(s, k + 1)
      BY <3>1, Vp9Places
    <3>. QED  BY <1>1, <3>2
  <2>2. e <= g
    <3>1. CASE l = k
      BY <1>2, <2>1, <3>1
    <3>2. CASE l < k
      <4>1. PICK b \in Nat : b = s.places[k][1] /\ e <= b /\ b < g
        BY <1>1, <1>2, <2>1, <3>2
      <4>. QED  BY ONLY <1>2, <2>1, <4>1, e \in Nat, g \in Nat, b \in Nat, SMTT(30)
    <3>. QED  BY <3>1, <3>2
  <2>. QED  BY ONLY <2>1, <2>2, e \in Nat, g \in Nat, f \in Nat
<1>4. PICK d \in Nat : d = e - q /\ d > 0 /\ q + d = e /\ d <= f - q
  <2>1. q \in Nat /\ e \in Nat /\ f \in Nat /\ q < e /\ e <= f
    BY <1>2, <1>3
  <2>. QED  BY ONLY <2>1, Distance
<1>5. /\ src \in Seq(Bytes) /\ Len(src) = f - q /\ src # <<>> /\ Len(src) \in Nat
      /\ SubSeq(src, 1, d) = s.pictures[l]
  <2>1. s.bytes \in Seq(Bytes) /\ q \in Nat /\ f \in Nat /\ q <= f /\ f <= Len(s.bytes) /\ q # f
    <3>1. q <= f /\ q # f
      BY ONLY <1>2, <1>3, e \in Nat, q \in Nat, f \in Nat
    <3>. QED  BY <1>1, <3>1
  <2>2. Between(s.bytes, q, f) \in Seq(Bytes) /\ Len(Between(s.bytes, q, f)) = f - q
    BY ONLY <2>1, Cut
  <2>3. Between(s.bytes, q, f) # <<>>
    BY ONLY <2>1, CutEmpty
  <2>4. Between(Between(s.bytes, q, f), 0, d) = Between(s.bytes, q + 0, q + d)
    <3>1. 0 \in Nat /\ 0 <= d /\ d \in Nat /\ d <= f - q
      BY <1>4
    <3>. QED  BY ONLY <2>1, <3>1, CutOfCut
  <2>5. q + 0 = q /\ q + d = e
    BY <1>4
  <2>6. SubSeq(src, 1, d) = s.pictures[l]
    <3>1. Between(src, 0, d) = SubSeq(src, 1, d)
      BY DEF Between
    <3>2. s.pictures[l] = Between(s.bytes, q, e)
      BY <1>1, <1>2
    <3>. QED  BY <2>4, <2>5, <3>1, <3>2
  <2>7. f - q \in Nat
    BY ONLY <2>1
  <2>. QED  BY <2>2, <2>3, <2>6, <2>7
<1> DEFINE sizes == IF c.sizes # <<>> THEN c.sizes
                    ELSE IF HasIndex(src) THEN Vp9Sizes(src) ELSE <<Len(src)>>
<1>6. r = [ctx |-> [sizes |-> Tail(sizes)], left |-> After(src, Vp9Consumed(c, sizes, src)),
           task |-> [valid |-> TRUE, eos |-> eos, data |-> SubSeq(src, 1, sizes[1])]]
  BY <1>5 DEF Vp9Prepare
<1>7. Vp9Next(s, k, l, c, sizes, src, d)
  <2>1. d = s.places[l][2] - s.places[l][1]
    BY <1>2, <1>4
  <2>2. sizes = IF c.sizes # <<>> THEN c.sizes
                ELSE IF HasIndex(src) THEN Vp9Sizes(src) ELSE <<Len(src)>>
    OBVIOUS
  <2> HIDE DEF sizes
  <2>. QED  BY <1>5, <2>1, <2>2, Vp9SizesFound
<1> HIDE DEF sizes
<1>8. r = [ctx |-> [sizes |-> SizesOf(s, l, k)], left |-> After(src, IF l = k THEN Len(src) ELSE d),
           task |-> [valid |-> TRUE, eos |-> eos, data |-> s.pictures[l]]]
  BY <1>5, <1>6, <1>7 DEF Vp9Next
<1>9. PICK pos \in 1 .. Len(src) : /\ pos = IF l = k THEN Len(src) ELSE d
                                   /\ IF l = k THEN pos = Len(src) ELSE q + pos = s.places[l + 1][1]
  <2>1. Len(src) \in 1 .. Len(src) /\ d \in 1 .. Len(src)
    <3>1. d \in Nat /\ d > 0 /\ d <= f - q /\ Len(src) = f - q /\ Len(src) \in Nat
      BY <1>4, <1>5
    <3>2. Len(src) > 0 /\ d <= Len(src)
      BY ONLY <3>1
    <3>. QED  BY ONLY <3>1, <3>2
  <2>2. l # k => q + d = s.places[l + 1][1]
    <3> SUFFICES ASSUME l # k PROVE q + d = s.places[l + 1][1]
      OBVIOUS
    <3>1. l \in j + 1 .. k - 1
      OBVIOUS
    <3>2. s.places[l][2] = s.places[l + 1][1]
      BY <3>1 DEF Vp9Run
    <3>. QED  BY <1>2, <1>4, <3>2
  <2>. QED  BY <2>1, <2>2
<1>10. /\ r.left = After(src, pos) /\ r.ctx = [sizes |-> SizesOf(s, l, k)]
       /\ r.task = [valid |-> TRUE, eos |-> eos, data |-> s.pictures[l]]
  BY ONLY <1>8, <1>9
<1>. QED  BY ONLY <1>9, <1>10, Zenon DEF Vp9Hands

(* A packet of which nothing is left is not in the middle of its frames.   *)
LEMMA Vp9Empty ==
    ASSUME PacketInv, stream.codec = "vp9", packet.data = <<>>,
           NEW j \in 0 .. Len(stream.places), Vp9At(j)
    PROVE  Vp9Waits(j)
<1>1. stream \in Streams /\ Read = put /\ put \in Nat
  BY PartRead, EmptySeq
<1>2. ~Vp9Fresh(j)
  <2> SUFFICES ASSUME Vp9Fresh(j) PROVE FALSE
    OBVIOUS
  <2>1. <<put, put>> \in stream.packets
    BY <1>1 DEF Vp9Fresh
  <2>2. \A p \in stream.packets : p[1] < p[2]
    BY <1>1, StreamFacts
  <2>. QED  BY <1>1, <2>1, <2>2
<1>3. ASSUME NEW k \in 1 .. Len(stream.places), Vp9Inside(j, k) PROVE FALSE
  <2>1. Len(stream.places) \in Nat
    BY <1>1, Vp9Facts
  <2>2. PICK l \in 1 .. Len(stream.places) : l = j + 1 /\ l <= k
    BY <1>3, <2>1 DEF Vp9Inside
  <2>3. stream.places[l][1] = FrameAt(stream, k + 1) /\ k \in 0 .. Len(stream.places)
    BY <1>1, <1>3, <2>1, <2>2 DEF Vp9Inside
  <2>4. l = k + 1
    BY <1>1, <2>3, Vp9Places
  <2>. QED  BY <2>2, <2>4
<1>. QED  BY <1>2, <1>3 DEF Vp9At

LEMMA Vp9Begins ==
    ASSUME stream \in Streams, stream.codec = "vp9"
    PROVE  /\ 0 \in 0 .. Len(stream.places) /\ SubSeq(stream.pictures, 1, 0) = <<>>
           /\ Vp9SplitStart = [sizes |-> Vp9SplitStart.sizes] /\ Vp9SplitStart.sizes = <<>>
<1>1. Len(stream.places) \in Nat /\ stream.pictures \in Seq(Seq(Bytes))
  BY Vp9Facts, PlacesFacts
<1>2. SubSeq(stream.pictures, 1, 0) = <<>>
  BY <1>1
<1>. QED  BY <1>1, <1>2 DEF Vp9SplitStart

LEMMA Vp9Init == Init => Vp9Inv
<1> SUFFICES ASSUME Init, stream.codec = "vp9" PROVE Vp9Inv
  BY DEF Vp9Inv
<1>1. /\ stream \in Streams /\ Handed = <<>> /\ ctx = Vp9SplitStart /\ task = NoTask /\ ends = 0
      /\ put = 0 /\ packet = NoPacket
  BY CommonInit DEF Init, ContextOf
<1>2. task.eos = FALSE /\ packet.data = <<>>
  BY <1>1 DEF NoTask, NoPacket
<1>3. Vp9At(0)
  BY <1>1, <1>2, Vp9Begins DEF Vp9At, Vp9Waits
<1>4. ~(task.eos \/ ends > 0)
  BY <1>1, <1>2
<1>5. ctx = [sizes |-> ctx.sizes] /\ 0 \in 0 .. Len(stream.places)
  BY <1>1, Vp9Begins
<1>. QED  BY <1>3, <1>4, <1>5 DEF Vp9Inv

LEMMA Vp9Resets ==
    ASSUME PacketInv, TaskInv, Vp9Inv, Reset
    PROVE  Vp9Inv'
<1> SUFFICES ASSUME stream.codec = "vp9", stream' = stream PROVE Vp9Inv'
  BY CommonReset DEF Vp9Inv
<1>1. /\ stream \in Streams /\ Handed' = <<>> /\ ctx' = Vp9SplitStart /\ ~task'.eos /\ ends' = 0
      /\ put' = 0 /\ packet' = NoPacket
  BY CommonReset DEF ResetOf, Vp9SplitReset, PacketInv
<1>2. packet'.data = <<>>
  BY <1>1 DEF NoPacket
<1>3. Vp9At(0)'
  BY <1>1, <1>2, Vp9Begins DEF Vp9At, Vp9Waits
<1>4. ~(task'.eos \/ ends' > 0)
  BY <1>1
<1>5. ctx' = [sizes |-> ctx'.sizes] /\ 0 \in 0 .. Len(stream.places)
  BY <1>1, Vp9Begins
<1>. QED  BY <1>3, <1>4, <1>5 DEF Vp9Inv

LEMMA Vp9User ==
    ASSUME PacketInv, TaskInv, Vp9Inv, (\E to \in 1 .. Len(stream.bytes) : PutPacket(to)) \/ PutEnd
    PROVE  Vp9Inv'
<1>1. /\ Read = put /\ Read' = Read /\ Handed' = Handed /\ eosPut = "no" /\ packet = NoPacket
      /\ UNCHANGED <<stream, ctx, task, given, ends, resets, eosBefore>>
  <2>1. CASE \E to \in 1 .. Len(stream.bytes) : PutPacket(to)
    BY <2>1, CommonPut DEF PutPacket
  <2>2. CASE PutEnd
    BY <2>2, CommonEnd DEF PutEnd
  <2>. QED  BY <2>1, <2>2
<1> SUFFICES ASSUME stream.codec = "vp9" PROVE Vp9Inv'
  BY <1>1 DEF Vp9Inv
<1>2. stream \in Streams /\ packet.data = <<>>
  BY <1>1, NoPacketFacts DEF PacketInv
<1>3. PICK j \in 0 .. Len(stream.places) : Vp9At(j)
  BY DEF Vp9Inv
<1>4. Vp9Waits(j)
  BY <1>2, <1>3, Vp9Empty
<1>5. ~(task.eos \/ ends > 0)
  BY <1>1 DEF Vp9Inv
<1>6. Vp9At(j)'
  <2>1. CASE PutEnd
    <3>1. packet'.data = <<>> /\ put' = put
      BY <2>1, CommonEnd
    <3>. QED  BY <1>1, <1>3, <1>4, <3>1 DEF Vp9At, Vp9Waits
  <2>2. CASE \E to \in 1 .. Len(stream.bytes) : PutPacket(to)
    <3>1. PICK to : <<put, to>> \in stream.packets /\ put' = to
      BY <2>2, CommonPut
    <3>2. PICK l \in 1 .. Len(stream.places) : put = stream.places[l][1]
      BY <1>2, <3>1, Vp9Facts
    <3>3. l = j + 1
      BY <1>2, <1>4, <3>2, Vp9Places DEF Vp9Waits
    <3>4. Vp9Fresh(j)'
      BY <1>1, <1>4, <3>1, <3>2, <3>3 DEF Vp9Fresh, Vp9Waits
    <3>. QED  BY <1>1, <1>3, <3>4 DEF Vp9At
  <2>. QED  BY <2>1, <2>2
<1>. QED  BY <1>1, <1>5, <1>6 DEF Vp9Inv

LEMMA Vp9Parse ==
    ASSUME PacketInv, TaskInv, Vp9Inv, Parse
    PROVE  Vp9Inv'
<1> SUFFICES ASSUME stream.codec = "vp9", stream' = stream PROVE Vp9Inv'
  BY CommonParse DEF Vp9Inv
<1>1. /\ Read' = Read /\ Handed' = Handed /\ given' = Handed /\ ~task'.eos /\ ~task'.valid /\ ctx' = ctx
      /\ task.valid /\ put' = put /\ packet' = packet
      /\ eosPut' = eosPut /\ ends' = ends + (IF task.eos THEN 1 ELSE 0) /\ ends \in Nat
  BY CommonParse DEF TaskInv
<1>2. PICK j \in 0 .. Len(stream.places) : Vp9At(j)
  BY DEF Vp9Inv
<1>3. Vp9At(j)'
  BY <1>1, <1>2 DEF Vp9At, Vp9Waits, Vp9Fresh, Vp9Inside
<1>4. given' # <<>>
  <2>1. given' = Append(given, task.data)
    BY <1>1 DEF Handed
  <2>2. given \in Seq(Range(given) \cup {task.data}) /\ task.data \in Range(given) \cup {task.data}
    BY SeqMonotonic DEF TaskInv
  <2>3. Len(given') = Len(given) + 1 /\ Len(given) \in Nat
    BY <2>1, <2>2
  <2>4. Len(given') # 0
    BY ONLY <2>3
  <2>. QED  BY <2>4, EmptySeq
<1>5. task'.eos \/ ends' > 0 => eosPut' # "no"
  <2>1. ends' > 0 => task.eos \/ ends > 0
    BY <1>1
  <2>. QED  BY <1>1, <2>1 DEF Vp9Inv
<1>. QED  BY <1>1, <1>3, <1>4, <1>5 DEF Vp9Inv

(* What is read of a packet: the frames up to k.                           *)
LEMMA Vp9Reads ==
    ASSUME PacketInv, stream.codec = "vp9", packet.data # <<>>,
           NEW j \in 0 .. Len(stream.places), Vp9At(j)
    PROVE  \E k, l \in 1 .. Len(stream.places) :
              /\ j < k /\ l = j + 1 /\ Read = stream.places[l][1] /\ put = FrameAt(stream, k + 1)
              /\ Vp9Run(stream, j, k) /\ Vp9Holds(stream, j, k, ctx, packet.data, Read, put)
<1>1. stream \in Streams /\ Len(stream.places) \in Nat /\ packet.data = Between(stream.bytes, Read, put)
  BY PartRead, Vp9Facts
<1>2. ~Vp9Waits(j)
  BY DEF Vp9Waits
<1>3. ASSUME NEW k \in 1 .. Len(stream.places), Vp9Inside(j, k)
      PROVE  \E l \in 1 .. Len(stream.places) :
              /\ j < k /\ l = j + 1 /\ Read = stream.places[l][1] /\ put = FrameAt(stream, k + 1)
              /\ Vp9Run(stream, j, k) /\ Vp9Holds(stream, j, k, ctx, packet.data, Read, put)
  <2>1. PICK l \in 1 .. Len(stream.places) : l = j + 1
    BY <1>1, <1>3 DEF Vp9Inside
  <2>2. ctx.sizes # <<>>
    <3>1. Len(SizesOf(stream, j, k)) = k - j /\ k - j # 0 /\ SizesOf(stream, j, k) \in Seq(Nat)
      BY <1>1, <1>3, Vp9Tail DEF Vp9Inside
    <3>2. SizesOf(stream, j, k) # <<>>
      BY ONLY <3>1, EmptySeq
    <3>. QED  BY <1>3, <3>2 DEF Vp9Inside
  <2>. QED  BY <1>3, <2>1, <2>2 DEF Vp9Inside, Vp9Holds, Vp9Run
<1>4. CASE Vp9Fresh(j)
  <2>1. PICK l \in 1 .. Len(stream.places) : l = j + 1 /\ Read = stream.places[l][1]
    BY <1>1, <1>4 DEF Vp9Fresh
  <2>2. PICK p \in stream.packets : p = <<Read, put>> /\ p[1] = Read /\ p[2] = put
    BY <1>4 DEF Vp9Fresh
  <2>3. PICK i \in 1 .. Len(stream.places), k \in 1 .. Len(stream.places) :
           /\ i <= k /\ p[1] = stream.places[i][1] /\ p[2] = FrameAt(stream, k + 1)
           /\ IF i = k THEN p = stream.places[i] /\ ~HasIndex(Part(stream, p))
              ELSE /\ HasIndex(Part(stream, p))
                   /\ Vp9Sizes(Part(stream, p)) =
                        [h \in 1 .. k - i + 1 |-> stream.places[i + h - 1][2] - stream.places[i + h - 1][1]]
                   /\ \A h \in i .. k - 1 : stream.places[h][2] = stream.places[h + 1][1]
    BY ONLY <1>1, stream.codec = "vp9", p \in stream.packets, Vp9Facts, Zenon
  <2>4. i = l
    <3>1. FrameAt(stream, j + 1) = stream.places[l][1]
      BY <1>1, <2>1 DEF FrameAt
    <3>2. stream.places[i][1] = FrameAt(stream, j + 1)
      BY <2>1, <2>2, <2>3, <3>1
    <3>3. i = j + 1
      BY <1>1, <3>2, Vp9Places
    <3>. QED  BY <2>1, <3>3
  <2>5. Part(stream, p) = packet.data
    BY <1>1, <2>2 DEF Part, Between
  <2>6. j < k
    BY <2>1, <2>3, <2>4
  <2>7. Vp9Run(stream, j, k)
    <3>1. i = k => \A h \in j + 1 .. k - 1 : stream.places[h][2] = stream.places[h + 1][1]
      BY <2>1, <2>4
    <3>2. i # k => \A h \in j + 1 .. k - 1 : stream.places[h][2] = stream.places[h + 1][1]
      BY <2>1, <2>3, <2>4
    <3>. QED  BY <3>1, <3>2 DEF Vp9Run
  <2>8. Vp9Holds(stream, j, k, ctx, packet.data, Read, put)
    <3>1. ctx.sizes = <<>>
      BY <1>4 DEF Vp9Fresh
    <3>2. CASE k = j + 1
      <4>1. i = k
        BY <2>1, <2>4, <3>2
      <4>2. p = stream.places[k] /\ ~HasIndex(packet.data)
        BY <2>3, <2>5, <4>1
      <4>. QED  BY <2>2, <3>1, <3>2, <4>2 DEF Vp9Holds
    <3>3. CASE k # j + 1
      <4>1. i # k
        BY <2>1, <2>4, <3>3
      <4>2. /\ HasIndex(packet.data)
            /\ Vp9Sizes(packet.data) =
                 [h \in 1 .. k - i + 1 |-> stream.places[i + h - 1][2] - stream.places[i + h - 1][1]]
        BY <2>3, <2>5, <4>1
      <4>3. k - i + 1 = k - j /\ \A h \in 1 .. k - j : i + h - 1 = j + h
        BY <2>1, <2>4
      <4>4. [h \in 1 .. k - i + 1 |-> stream.places[i + h - 1][2] - stream.places[i + h - 1][1]]
              = [h \in 1 .. k - j |-> stream.places[j + h][2] - stream.places[j + h][1]]
        BY ONLY <4>3
      <4>. QED  BY <3>1, <3>3, <4>2, <4>4 DEF Vp9Holds, SizesOf
    <3>. QED  BY <3>2, <3>3
  <2>9. put = FrameAt(stream, k + 1)
    BY <2>2, <2>3
  <2>. QED  BY <2>1, <2>6, <2>7, <2>8, <2>9
<1>. QED  BY <1>2, <1>3, <1>4 DEF Vp9At

LEMMA Vp9Prepared ==
    ASSUME PacketInv, TaskInv, Vp9Inv, stream.codec = "vp9", Prepare
    PROVE  PacketInv' /\ TaskInv' /\ Vp9Inv'
<1> DEFINE r == PrepareOf(stream.codec, ctx, packet.data, packet.eos, task)
<1>1. PICK j \in 0 .. Len(stream.places) : Vp9At(j)
  BY DEF Vp9Inv
<1>2. /\ packet # NoPacket /\ ~task.valid /\ task.data = <<>> /\ Handed = given
      /\ task \in [valid : BOOLEAN, eos : BOOLEAN, data : {<<>>}] /\ ends \in Nat
  BY PrepareIs DEF TaskInv, Handed
<1>3. /\ packet.eos \in BOOLEAN /\ (packet.eos => eosPut # "no")
      /\ stream \in Streams /\ Len(packet.data) \in Nat /\ Read \in Nat
      /\ packet.data # <<>> => eosPut # "empty"
      /\ packet.data = Between(stream.bytes, Read, put) /\ put \in Nat /\ put <= Len(stream.bytes)
  BY PartRead DEF PacketInv
<1>4. r = Vp9Prepare(ctx, packet.data, packet.eos, task)
  BY DEF PrepareOf
<1>5. CASE packet.data = <<>>
  <2>1. packet.eos /\ eosPut = "empty" /\ Read = put /\ Len(packet.data) = 0
    BY <1>2, <1>5, EmptyPacket
  <2>2. r = [ctx |-> ctx, left |-> <<>>, task |-> [task EXCEPT !.valid = FALSE, !.eos = packet.eos]]
    BY <1>4, <1>5 DEF Vp9Prepare
  <2> HIDE DEF r
  <2>3. /\ r.ctx = ctx /\ r.left = <<>> /\ r.task.valid = FALSE /\ r.task.eos = packet.eos /\ r.task.data = <<>>
        /\ r.task \in [valid : BOOLEAN, eos : BOOLEAN, data : {r.task.data}]
    BY <1>2, <1>3, <2>2
  <2>4. Called(r, 0)
    <3>1. After(packet.data, 0) = <<>>
      <4>1. SubSeq(packet.data, 0 + 1, Len(packet.data)) = <<>>
        BY <1>5, <2>1
      <4>. QED  BY <4>1 DEF After
    <3>2. 0 \in 0 .. Len(packet.data)
      BY <2>1
    <3>3. r = PrepareOf(stream.codec, ctx, packet.data, packet.eos, task)
      BY DEF r
    <3>. QED  BY ONLY <2>3, <3>1, <3>2, <3>3 DEF Called
  <2>5. /\ PacketInv' /\ TaskInv' /\ Read' = Read + 0 /\ Handed' = given /\ ctx' = ctx /\ task' = r.task
        /\ packet' = NoPacket /\ put' = put /\ eosPut' = eosPut /\ stream' = stream /\ given' = given
    BY <2>3, <2>4, CommonPrepare
  <2>6. Vp9At(j)'
    <3>1. Vp9Waits(j)
      BY <1>1, <1>5, Vp9Empty
    <3>2. packet'.data = <<>>
      BY <2>5, NoPacketFacts
    <3>3. Handed' = Handed
      BY <1>2, <2>5
    <3>. QED  BY <1>1, <2>5, <3>1, <3>2, <3>3 DEF Vp9At, Vp9Waits
  <2>7. ctx' = [sizes |-> ctx'.sizes] /\ eosPut' # "no" /\ eosPut' # "data" /\ ~task'.valid
    BY <2>1, <2>3, <2>5 DEF Vp9Inv
  <2>. QED  BY <2>5, <2>6, <2>7 DEF Vp9Inv
<1>6. CASE packet.data # <<>>
  <2>1. PICK k, l \in 1 .. Len(stream.places) :
              /\ j < k /\ l = j + 1 /\ Read = stream.places[l][1] /\ put = FrameAt(stream, k + 1)
              /\ Vp9Run(stream, j, k) /\ Vp9Holds(stream, j, k, ctx, packet.data, Read, put)
    BY <1>1, <1>6, Vp9Reads
  <2>2. Vp9Hands(stream, k, l, packet.data, packet.eos, Read, r)
    <3>1. PICK q \in Nat, f \in Nat : q = Read /\ f = put
      BY <1>3
    <3>2. PICK src, eos, c, t : src = packet.data /\ eos = packet.eos /\ c = ctx /\ t = task
      OBVIOUS
    <3>3. /\ stream \in Streams /\ stream.codec = "vp9" /\ j \in Nat /\ k \in 1 .. Len(stream.places) /\ j < k
          /\ l \in 1 .. Len(stream.places) /\ l = j + 1 /\ Vp9Run(stream, j, k)
          /\ q = stream.places[l][1] /\ f = FrameAt(stream, k + 1) /\ f <= Len(stream.bytes)
          /\ src = Between(stream.bytes, q, f) /\ Vp9Holds(stream, j, k, c, src, q, f)
      BY <1>3, <2>1, <3>1, <3>2
    <3>4. r = Vp9Prepare(c, src, eos, t)
      BY <1>4, <3>2
    <3> HIDE DEF r
    <3>5. Vp9Hands(stream, k, l, src, eos, q, r)
      BY ONLY <3>1, <3>3, <3>4, Vp9Call
    <3>. QED  BY <3>1, <3>2, <3>5
  <2> HIDE DEF r
  <2>3. PICK pos \in 1 .. Len(packet.data) :
              /\ r.left = After(packet.data, pos)
              /\ r.ctx = [sizes |-> SizesOf(stream, l, k)]
              /\ r.task = [valid |-> TRUE, eos |-> packet.eos, data |-> stream.pictures[l]]
              /\ IF l = k THEN pos = Len(packet.data) ELSE Read + pos = stream.places[l + 1][1]
    BY <2>2 DEF Vp9Hands
  <2>4. /\ stream.pictures \in Seq(Seq(Bytes)) /\ Len(stream.pictures) = Len(stream.places)
        /\ Len(stream.places) \in Nat /\ stream.pictures[l] # <<>>
    BY <1>3, Vp9Facts, PlacesFacts
  <2>5. /\ r.task.valid = TRUE /\ r.task.eos = packet.eos /\ r.task.data = stream.pictures[l]
        /\ r.task \in [valid : BOOLEAN, eos : BOOLEAN, data : {r.task.data}]
    BY <1>3, <2>3
  <2>6. Called(r, pos)
    <3>1. pos \in 0 .. Len(packet.data)
      BY <1>3
    <3>. QED  BY <2>3, <2>4, <2>5, <3>1 DEF Called, r
  <2>7. /\ PacketInv' /\ TaskInv' /\ Read' = Read + pos /\ Handed' = Append(given, stream.pictures[l])
        /\ ctx' = r.ctx /\ task' = r.task
        /\ (r.left = <<>> <=> pos = Len(packet.data)) /\ (r.left = <<>> => packet' = NoPacket)
        /\ put' = put /\ ends' = ends + 0 /\ eosPut' = eosPut /\ stream' = stream /\ given' = given
    BY <2>5, <2>6, CommonPrepare
  <2>8. Handed' = SubSeq(stream.pictures, 1, l)
    <3>1. given = SubSeq(stream.pictures, 1, j) /\ j < Len(stream.pictures) /\ j \in 0 .. Len(stream.pictures)
      BY <1>1, <1>2, <2>1, <2>4 DEF Vp9At
    <3>2. SubSeq(stream.pictures, 1, j + 1) = Append(SubSeq(stream.pictures, 1, j), stream.pictures[j + 1])
      BY <2>4, <3>1, PrefixOf
    <3>. QED  BY <2>1, <2>7, <3>1, <3>2
  <2>9. ctx'.sizes = SizesOf(stream, l, k) /\ ctx' = [sizes |-> ctx'.sizes]
    BY <2>3, <2>7
  <2>10. Vp9At(l)'
    <3>1. CASE l = k
      <4>1. packet' = NoPacket /\ packet'.data = <<>>
        BY <2>3, <2>7, <3>1, NoPacketFacts
      <4>2. SizesOf(stream, l, k) = <<>>
        BY <3>1, Vp9None
      <4>. QED  BY <2>1, <2>7, <2>8, <2>9, <3>1, <4>1, <4>2 DEF Vp9At, Vp9Waits
    <3>2. CASE l # k
      <4>1. l < k /\ Read' = stream.places[l + 1][1]
        BY <2>1, <2>3, <2>7, <3>2
      <4>2. \A i \in l + 1 .. k - 1 : stream.places[i][2] = stream.places[i + 1][1]
        BY <2>1 DEF Vp9Run
      <4>3. Vp9Inside(l, k)'
        BY <2>1, <2>7, <2>9, <4>1, <4>2 DEF Vp9Inside
      <4>. QED  BY <2>7, <2>8, <4>3 DEF Vp9At
    <3>. QED  BY <3>1, <3>2
  <2>11. ends' = ends /\ task'.eos = packet.eos /\ l \in 0 .. Len(stream.places)
    BY <1>2, <2>4, <2>5, <2>7
  <2>. QED  BY <1>3, <1>6, <2>7, <2>9, <2>10, <2>11 DEF Vp9Inv
<1>. QED  BY <1>5, <1>6

LEMMA Vp9Gives ==
    ASSUME PacketInv, TaskInv, Vp9Inv, stream.codec = "vp9"
    PROVE  PicturesIntact /\ EndsComplete
<1>1. stream \in Streams
  BY DEF PacketInv
<1>2. Len(stream.places) \in Nat /\ stream.pictures \in Seq(Seq(Bytes)) /\ Len(stream.pictures) = Len(stream.places)
  BY <1>1, Vp9Facts, PlacesFacts
<1>3. PICK j \in 0 .. Len(stream.places) : Vp9At(j)
  BY DEF Vp9Inv
<1>4. Handed = SubSeq(stream.pictures, 1, j)
  BY <1>3 DEF Vp9At
<1>5. IsPrefix(given, stream.pictures)
  BY <1>2, <1>4, GivenOfHanded
<1>6. ASSUME ends > 0, eosPut = "empty" PROVE given = stream.pictures
  <2>1. ~task.valid /\ packet.data = <<>> /\ put = Len(stream.bytes)
    BY <1>6 DEF Vp9Inv, PacketInv
  <2>2. Vp9Waits(j)
    BY <1>3, <2>1, Vp9Empty
  <2>3. Len(stream.bytes) > 0 /\ Len(stream.bytes) \in Nat
    BY <1>1, StreamFacts, EmptySeq
  <2>4. FrameAt(stream, j + 1) = Len(stream.bytes)
    BY <2>1, <2>2, <2>3 DEF Vp9Waits
  <2>5. j = Len(stream.places)
    BY <1>1, <2>4, Vp9Places
  <2>6. given = SubSeq(stream.pictures, 1, Len(stream.pictures))
    BY <1>2, <1>4, <2>1, <2>5 DEF Handed
  <2>. QED  BY <1>2, <2>6
<1>7. ends > 0 => eosPut # "no" /\ (eosPut = "data" => given # <<>>)
  BY DEF Vp9Inv
<1>. QED  BY <1>5, <1>6, <1>7 DEF PicturesIntact, EndsComplete, SplitEnded
-----------------------------------------------------------------------------
(***************************************************************************)
(* H.264: what the parser has found in the packets is what is found byte   *)
(* by byte in the stream.  Contexts are alike that differ in what has no   *)
(* consequence.  When slices were seen, a NALU is stored, or is one that   *)
(* will be: so a picture is never empty.                                   *)
(***************************************************************************)
Alike(c, d) ==
    /\ c.prefix = d.prefix /\ c.inNalu = d.inNalu /\ c.nalu = d.nalu
    /\ c.strm = d.strm /\ c.slices = d.slices
    /\ c.nalu # <<>> => c.type = d.type

H264Of(prefix, inNalu, nalu, type, strm, slices, gotEos) ==
    [prefix |-> prefix, inNalu |-> inNalu, nalu |-> nalu, type |-> type, strm |-> strm,
     slices |-> slices, gotEos |-> gotEos]

H264Fit(c) ==
    /\ c = H264Of(c.prefix, c.inNalu, c.nalu, c.type, c.strm, c.slices, c.gotEos)
    /\ c.inNalu \in BOOLEAN /\ c.slices \in BOOLEAN /\ c.gotEos \in BOOLEAN
    /\ c.nalu \in Seq(Bytes) /\ c.strm \in Seq(Range(c.strm))
    /\ c.nalu # <<>> => c.inNalu
    /\ c.slices => c.strm # <<>> \/ (Len(c.nalu) >= 5 /\ c.type \in H264Stored)

Judges(nalu)       == Len(nalu) \in {1, 5}
NaluWith(c, byte)  == IF c.inNalu THEN Append(c.nalu, byte) ELSE <<>>
SlicesWith(c, nalu) == (c.slices \/ StartsSlices(nalu)) /\ ~IsHeader(nalu)

LEMMA NaluByteIs ==
    ASSUME NEW c, H264Fit(c), NEW byte \in Bytes
    PROVE  /\ NaluByte(c, byte) =
                H264Of(c.prefix, c.inNalu, NaluWith(c, byte),
                       IF Judges(NaluWith(c, byte)) THEN H264Type(NaluWith(c, byte)[1]) ELSE c.type, c.strm,
                       IF Judges(NaluWith(c, byte)) THEN SlicesWith(c, NaluWith(c, byte)) ELSE c.slices, c.gotEos)
           /\ NaluWith(c, byte) \in Seq(Bytes)
           /\ c.inNalu <=> NaluWith(c, byte) # <<>>
           /\ Len(NaluWith(c, byte)) = IF c.inNalu THEN Len(c.nalu) + 1 ELSE 0
<1> DEFINE n == NaluWith(c, byte)
<1>1. /\ n \in Seq(Bytes) /\ (c.inNalu <=> n # <<>>)
      /\ Len(n) = IF c.inNalu THEN Len(c.nalu) + 1 ELSE 0
  BY DEF H264Fit, NaluWith
<1>2. NaluByte(c, byte) = [IF Judges(n) THEN Judged(c, n) ELSE c EXCEPT !.nalu = n]
  BY DEF NaluByte, NaluWith, Judges
<1> HIDE DEF n
<1>3. PICK p, a, o, t, z, l, g : c = H264Of(p, a, o, t, z, l, g)
  BY DEF H264Fit
<1>4. Judged(c, n) = H264Of(p, a, o, H264Type(n[1]), z, (l \/ StartsSlices(n)) /\ ~IsHeader(n), g)
  <2>1. PICK y, w : y = H264Type(n[1]) /\ w = ((l \/ StartsSlices(n)) /\ ~IsHeader(n))
    OBVIOUS
  <2>2. c.slices = l
    BY <1>3 DEF H264Of
  <2>3. Judged(c, n) = [c EXCEPT !.type = y, !.slices = w]
    BY <2>1, <2>2 DEF Judged
  <2>. QED  BY ONLY <1>3, <2>1, <2>3 DEF H264Of
<1>5. [Judged(c, n) EXCEPT !.nalu = n]
        = H264Of(p, a, n, H264Type(n[1]), z, (l \/ StartsSlices(n)) /\ ~IsHeader(n), g)
  BY <1>4 DEF H264Of
<1>6. [c EXCEPT !.nalu = n] = H264Of(p, a, n, t, z, l, g)
  BY <1>3 DEF H264Of
<1>7. c.prefix = p /\ c.inNalu = a /\ c.type = t /\ c.strm = z /\ c.slices = l /\ c.gotEos = g
  BY <1>3 DEF H264Of
<1>8. NaluByte(c, byte) =
                H264Of(c.prefix, c.inNalu, n, IF Judges(n) THEN H264Type(n[1]) ELSE c.type, c.strm,
                       IF Judges(n) THEN SlicesWith(c, n) ELSE c.slices, c.gotEos)
  <2>1. CASE Judges(n)
    BY <1>2, <1>5, <1>7, <2>1 DEF SlicesWith
  <2>2. CASE ~Judges(n)
    BY <1>2, <1>6, <1>7, <2>2
  <2>. QED  BY <2>1, <2>2
<1>. QED  BY <1>1, <1>8 DEF n

(* What is told of a new picture.                                          *)
LEMMA SlicesFacts ==
    ASSUME NEW nalu, nalu \in Seq(Bytes)
    PROVE  /\ StartsSlices(nalu) => Len(nalu) > 1 /\ H264Type(nalu[1]) \in H264Stored
           /\ IsHeader(nalu) => Len(nalu) = 1
           /\ StartsSlices(nalu) \in BOOLEAN /\ IsHeader(nalu) \in BOOLEAN
<1>1. H264Slices \subseteq H264Stored
  BY DEF H264Slices, H264Stored
<1>. QED  BY <1>1 DEF StartsSlices, IsHeader

NewFrameAt(c, x) == Judges(x.nalu) /\ IsNewFrame(c, x.nalu)

LEMMA NaluByteFit ==
    ASSUME NEW c, H264Fit(c), NEW byte \in Bytes, NEW x, x = NaluByte(c, byte)
    PROVE  /\ x.strm = c.strm /\ x.gotEos = c.gotEos /\ x.nalu \in Seq(Bytes)
           /\ ~NewFrameAt(c, x) => H264Fit(x)
           /\ NewFrameAt(c, x) => c.strm # <<>> /\ H264Fit([x EXCEPT !.strm = <<>>])
           /\ x.inNalu <=> x.nalu # <<>>
<1> DEFINE n == NaluWith(c, byte)
           t == IF Judges(n) THEN H264Type(n[1]) ELSE c.type
           l == IF Judges(n) THEN SlicesWith(c, n) ELSE c.slices
<1>1. x = H264Of(c.prefix, c.inNalu, n, t, c.strm, l, c.gotEos)
  BY NaluByteIs
<1>2. /\ n \in Seq(Bytes) /\ (c.inNalu <=> n # <<>>) /\ Len(n) \in Nat
      /\ Len(n) = IF c.inNalu THEN Len(c.nalu) + 1 ELSE 0
  BY NaluByteIs
<1>3. /\ c.inNalu \in BOOLEAN /\ c.slices \in BOOLEAN /\ c.gotEos \in BOOLEAN
      /\ Len(c.nalu) \in Nat /\ c.strm \in Seq(Range(c.strm))
      /\ c.nalu # <<>> => c.inNalu
      /\ c.slices => c.strm # <<>> \/ (Len(c.nalu) >= 5 /\ c.type \in H264Stored)
  BY DEF H264Fit
<1>4. Judges(n) <=> Len(n) \in {1, 5}
  BY DEF Judges
<1>5. /\ StartsSlices(n) => Len(n) > 1 /\ H264Type(n[1]) \in H264Stored
      /\ IsHeader(n) => Len(n) = 1
  BY <1>2, SlicesFacts
<1>6. l \in BOOLEAN
  BY <1>2, <1>3, SlicesFacts DEF SlicesWith
<1>7. /\ Judges(n) => t = H264Type(n[1]) /\ (l <=> (c.slices \/ StartsSlices(n)) /\ ~IsHeader(n))
      /\ ~Judges(n) => t = c.type /\ l = c.slices
  BY DEF SlicesWith
<1>8. c.nalu = <<>> => Len(c.nalu) = 0
  OBVIOUS
<1> HIDE DEF n, t, l
<1>9. /\ x.prefix = c.prefix /\ x.inNalu = c.inNalu /\ x.nalu = n /\ x.type = t /\ x.strm = c.strm
      /\ x.slices = l /\ x.gotEos = c.gotEos
      /\ x = H264Of(x.prefix, x.inNalu, x.nalu, x.type, x.strm, x.slices, x.gotEos)
  BY <1>1 DEF H264Of
<1>10. NewFrameAt(c, x) <=> /\ Judges(n) /\ c.slices /\ (IsHeader(n) \/ StartsSlices(n))
  BY <1>9 DEF NewFrameAt, IsNewFrame
<1>11. c.slices /\ Judges(n) => c.strm # <<>>
  BY ONLY <1>2, <1>3, <1>4, <1>8
<1>12. ~NewFrameAt(c, x) => (l => c.strm # <<>> \/ (Len(n) >= 5 /\ t \in H264Stored))
  <2>1. CASE Judges(n)
    <3>1. StartsSlices(n) => Len(n) >= 5
      BY ONLY <1>2, <1>4, <1>5, <2>1
    <3>. QED  BY <1>5, <1>7, <1>11, <2>1, <3>1
  <2>2. CASE ~Judges(n)
    <3>1. Len(c.nalu) >= 5 => Len(n) >= 5
      <4>1. Len(c.nalu) >= 5 => c.inNalu
        BY ONLY <1>3, <1>8
      <4>2. PICK k \in Nat : k = Len(c.nalu)
        BY <1>3
      <4>. QED  BY ONLY <1>2, <4>1, <4>2
    <3>. QED  BY <1>3, <1>7, <2>2, <3>1
  <2>. QED  BY <2>1, <2>2
<1>13. ~NewFrameAt(c, x) => H264Fit(x)
  BY <1>2, <1>3, <1>6, <1>9, <1>12 DEF H264Fit
<1>14. NewFrameAt(c, x) => (l => Len(n) >= 5 /\ t \in H264Stored)
  BY ONLY <1>2, <1>4, <1>5, <1>7, <1>10
<1>15. NewFrameAt(c, x) => H264Fit([x EXCEPT !.strm = <<>>])
  <2> SUFFICES ASSUME NewFrameAt(c, x) PROVE H264Fit([x EXCEPT !.strm = <<>>])
    OBVIOUS
  <2>1. PICK y : y = [x EXCEPT !.strm = <<>>]
    OBVIOUS
  <2>2. y = H264Of(x.prefix, x.inNalu, x.nalu, x.type, <<>>, x.slices, x.gotEos)
    BY <1>9, <2>1 DEF H264Of
  <2>3. /\ y.prefix = x.prefix /\ y.inNalu = x.inNalu /\ y.nalu = x.nalu /\ y.type = x.type /\ y.strm = <<>>
        /\ y.slices = x.slices /\ y.gotEos = x.gotEos
    BY <2>2 DEF H264Of
  <2>4. y = H264Of(y.prefix, y.inNalu, y.nalu, y.type, y.strm, y.slices, y.gotEos)
    BY ONLY <2>2, <2>3
  <2>5. <<>> \in Seq(Range(<<>>))
    OBVIOUS
  <2>. QED  BY <1>2, <1>3, <1>6, <1>9, <1>14, <2>1, <2>3, <2>4, <2>5 DEF H264Fit
<1>. QED  BY <1>2, <1>3, <1>9, <1>10, <1>11, <1>13, <1>15

LEMMA NaluByteAlike ==
    ASSUME NEW c, H264Fit(c), NEW d, H264Fit(d), Alike(c, d), NEW byte \in Bytes,
           NEW x, x = NaluByte(c, byte), NEW y, y = NaluByte(d, byte)
    PROVE  Alike(x, y) /\ (NewFrameAt(c, x) <=> NewFrameAt(d, y))
<1> DEFINE n == NaluWith(c, byte)
<1>1. n = NaluWith(d, byte) /\ c.slices = d.slices /\ SlicesWith(c, n) = SlicesWith(d, n)
  BY DEF Alike, NaluWith, SlicesWith
<1>2. /\ x = H264Of(c.prefix, c.inNalu, n, IF Judges(n) THEN H264Type(n[1]) ELSE c.type, c.strm,
                    IF Judges(n) THEN SlicesWith(c, n) ELSE c.slices, c.gotEos)
      /\ y = H264Of(d.prefix, d.inNalu, n, IF Judges(n) THEN H264Type(n[1]) ELSE d.type, d.strm,
                    IF Judges(n) THEN SlicesWith(d, n) ELSE d.slices, d.gotEos)
      /\ n \in Seq(Bytes) /\ (c.inNalu <=> n # <<>>) /\ Len(n) = IF c.inNalu THEN Len(c.nalu) + 1 ELSE 0
  BY <1>1, NaluByteIs
<1>3. n # <<>> /\ ~Judges(n) => c.nalu # <<>>
  <2> SUFFICES ASSUME c.inNalu, c.nalu = <<>> PROVE Judges(n)
    BY <1>2
  <2>1. Len(n) = 1
    BY <1>2
  <2>. QED  BY <2>1 DEF Judges
<1> HIDE DEF n
<1>4. x.nalu = n /\ y.nalu = n
  BY <1>2 DEF H264Of
<1>5. Alike(x, y)
  <2>1. CASE Judges(n)
    BY <1>1, <1>2, <2>1 DEF Alike, H264Of
  <2>2. CASE ~Judges(n)
    BY <1>1, <1>2, <1>3, <2>2 DEF Alike, H264Of
  <2>. QED  BY <2>1, <2>2
<1>. QED  BY <1>1, <1>4, <1>5 DEF NewFrameAt, IsNewFrame

(* The end of a NALU.                                                      *)
PrefixWith(c, byte) == Append(Tail(c.prefix), byte)
NaluRead(c)         == WithoutZeros(SubSeq(c.nalu, 1, Len(c.nalu) - 3))
StoredWith(c)       == IF c.type \in H264Stored THEN Append(c.strm, NaluRead(c)) ELSE c.strm

LEMMA FindPrefixIs ==
    ASSUME NEW c, H264Fit(c), NEW byte
    PROVE  FindPrefix(c, byte) =
             IF PrefixWith(c, byte) # Prefix
             THEN H264Of(PrefixWith(c, byte), c.inNalu, c.nalu, c.type, c.strm, c.slices, c.gotEos)
             ELSE IF c.inNalu
             THEN H264Of(PrefixWith(c, byte), c.inNalu, <<>>, 0, StoredWith(c), c.slices, c.gotEos)
             ELSE H264Of(PrefixWith(c, byte), TRUE, c.nalu, c.type, c.strm, c.slices, c.gotEos)
<1> DEFINE q == PrefixWith(c, byte)
           d == [c EXCEPT !.prefix = q]
           e == IF d.prefix # Prefix THEN d
                ELSE IF d.inNalu THEN NaluEnded(d) ELSE [d EXCEPT !.inNalu = TRUE]
<1>1. FindPrefix(c, byte) = e
  <2>1. FindPrefix(c, byte) = The({e})
    BY DEF FindPrefix, PrefixWith
  <2> HIDE DEF e
  <2>. QED  BY <2>1, TheOnly
<1> HIDE DEF q
<1>2. PICK p, a, n, t, z, l, g : c = H264Of(p, a, n, t, z, l, g)
  BY DEF H264Fit
<1>3. /\ c.inNalu = a /\ c.nalu = n /\ c.type = t /\ c.strm = z /\ c.slices = l /\ c.gotEos = g
  BY <1>2 DEF H264Of
<1>4. d = H264Of(q, a, n, t, z, l, g)
  BY <1>2 DEF H264Of
<1> HIDE DEF d
<1>5. [d EXCEPT !.inNalu = TRUE] = H264Of(q, TRUE, n, t, z, l, g)
  <2>1. PICK v : v = TRUE
    OBVIOUS
  <2>2. [d EXCEPT !.inNalu = v] = H264Of(q, v, n, t, z, l, g)
    BY ONLY <1>4 DEF H264Of
  <2>. QED  BY ONLY <2>1, <2>2, Zenon
<1>6. d.prefix = q /\ d.inNalu = a /\ d.nalu = n /\ d.type = t /\ d.strm = z
  BY <1>4 DEF H264Of
<1>7. NaluEnded(d) = H264Of(q, a, <<>>, 0, StoredWith(c), l, g)
  <2>1. PICK w : w = WithoutZeros(SubSeq(n, 1, Len(n) - 3))
    OBVIOUS
  <2>2. PICK v : v = IF t \in H264Stored THEN Append(z, w) ELSE z
    OBVIOUS
  <2>3. Stored(d, w) = [d EXCEPT !.strm = v]
    BY <1>6, <2>2 DEF Stored
  <2>4. NaluEnded(d) = [Stored(d, w) EXCEPT !.nalu = <<>>, !.type = 0]
    BY <1>6, <2>1 DEF NaluEnded
  <2>5. NaluEnded(d) = H264Of(q, a, <<>>, 0, v, l, g)
    BY ONLY <1>4, <2>3, <2>4, ZenonT(60) DEF H264Of
  <2>6. v = StoredWith(c)
    BY <1>3, <2>1, <2>2 DEF StoredWith, NaluRead
  <2>. QED  BY <2>5, <2>6
<1>. QED  BY <1>1, <1>3, <1>4, <1>5, <1>6, <1>7 DEF q

LEMMA FindPrefixFit ==
    ASSUME NEW c, H264Fit(c), c.inNalu <=> c.nalu # <<>>, NEW byte, NEW x, x = FindPrefix(c, byte)
    PROVE  H264Fit(x) /\ x.gotEos = c.gotEos
<1>1. /\ c.inNalu \in BOOLEAN /\ c.slices \in BOOLEAN /\ c.gotEos \in BOOLEAN
      /\ c.nalu \in Seq(Bytes) /\ c.strm \in Seq(Range(c.strm))
      /\ c.slices => c.strm # <<>> \/ (Len(c.nalu) >= 5 /\ c.type \in H264Stored)
  BY DEF H264Fit
<1>2. PICK q, v : q = PrefixWith(c, byte) /\ v = StoredWith(c)
  OBVIOUS
<1>3. v \in Seq(Range(v)) /\ (c.slices => v # <<>>)
  <2>1. CASE c.type \in H264Stored
    <3>1. PICK w : v = Append(c.strm, w)
      BY <1>2, <2>1 DEF StoredWith
    <3>2. c.strm \in Seq(Range(c.strm) \cup {w})
      BY <1>1, SeqMonotonic
    <3>3. v \in Seq(Range(c.strm) \cup {w}) /\ Len(v) = Len(c.strm) + 1 /\ Len(c.strm) \in Nat
      BY <3>1, <3>2
    <3>4. Len(v) # 0
      BY ONLY <3>3
    <3>. QED  BY <3>3, <3>4, SeqOfRange, EmptySeq
  <2>2. CASE c.type \notin H264Stored
    BY <1>1, <1>2, <2>2 DEF StoredWith
  <2>. QED  BY <2>1, <2>2
<1>4. \/ x = H264Of(q, c.inNalu, c.nalu, c.type, c.strm, c.slices, c.gotEos)
      \/ x = H264Of(q, c.inNalu, <<>>, 0, v, c.slices, c.gotEos)
      \/ x = H264Of(q, TRUE, c.nalu, c.type, c.strm, c.slices, c.gotEos)
  BY <1>2, FindPrefixIs
<1>5. <<>> \in Seq(Bytes)
  OBVIOUS
<1>6. CASE x = H264Of(q, c.inNalu, c.nalu, c.type, c.strm, c.slices, c.gotEos)
  <2>1. /\ x.prefix = q /\ x.inNalu = c.inNalu /\ x.nalu = c.nalu /\ x.type = c.type /\ x.strm = c.strm
        /\ x.slices = c.slices /\ x.gotEos = c.gotEos
    BY <1>6 DEF H264Of
  <2>. QED  BY <1>1, <1>6, <2>1 DEF H264Fit
<1>7. CASE x = H264Of(q, c.inNalu, <<>>, 0, v, c.slices, c.gotEos)
  <2>1. /\ x.prefix = q /\ x.inNalu = c.inNalu /\ x.nalu = <<>> /\ x.type = 0 /\ x.strm = v
        /\ x.slices = c.slices /\ x.gotEos = c.gotEos
    BY <1>7 DEF H264Of
  <2>. QED  BY <1>1, <1>3, <1>5, <1>7, <2>1 DEF H264Fit
<1>8. CASE x = H264Of(q, TRUE, c.nalu, c.type, c.strm, c.slices, c.gotEos)
  <2>1. /\ x.prefix = q /\ x.inNalu = TRUE /\ x.nalu = c.nalu /\ x.type = c.type /\ x.strm = c.strm
        /\ x.slices = c.slices /\ x.gotEos = c.gotEos
    BY <1>8 DEF H264Of
  <2>. QED  BY <1>1, <1>8, <2>1 DEF H264Fit
<1>. QED  BY <1>4, <1>6, <1>7, <1>8

LEMMA FindPrefixAlike ==
    ASSUME NEW c, H264Fit(c), NEW d, H264Fit(d), Alike(c, d), c.inNalu <=> c.nalu # <<>>, NEW byte
    PROVE  Alike(FindPrefix(c, byte), FindPrefix(d, byte))
<1>1. PICK q, b : q = PrefixWith(c, byte) /\ q = PrefixWith(d, byte) /\ b = (q = Prefix)
  BY DEF Alike, PrefixWith
<1>2. c.inNalu => StoredWith(c) = StoredWith(d)
  BY DEF Alike, StoredWith, NaluRead
<1>3. FindPrefix(c, byte) =
             IF ~b THEN H264Of(q, c.inNalu, c.nalu, c.type, c.strm, c.slices, c.gotEos)
             ELSE IF c.inNalu THEN H264Of(q, c.inNalu, <<>>, 0, StoredWith(c), c.slices, c.gotEos)
             ELSE H264Of(q, TRUE, c.nalu, c.type, c.strm, c.slices, c.gotEos)
  BY <1>1, FindPrefixIs
<1>4. FindPrefix(d, byte) =
             IF ~b THEN H264Of(q, d.inNalu, d.nalu, d.type, d.strm, d.slices, d.gotEos)
             ELSE IF d.inNalu THEN H264Of(q, d.inNalu, <<>>, 0, StoredWith(d), d.slices, d.gotEos)
             ELSE H264Of(q, TRUE, d.nalu, d.type, d.strm, d.slices, d.gotEos)
  BY <1>1, FindPrefixIs
<1>5. /\ c.inNalu = d.inNalu /\ c.nalu = d.nalu /\ c.strm = d.strm /\ c.slices = d.slices
      /\ c.nalu # <<>> => c.type = d.type
  BY DEF Alike
<1>6. CASE ~b
  BY <1>3, <1>4, <1>5, <1>6 DEF Alike, H264Of
<1>7. CASE b /\ c.inNalu
  BY <1>2, <1>3, <1>4, <1>5, <1>7 DEF Alike, H264Of
<1>8. CASE b /\ ~c.inNalu
  BY <1>3, <1>4, <1>5, <1>8 DEF Alike, H264Of
<1>. QED  BY <1>6, <1>7, <1>8

(* One byte, from contexts that are alike.                                 *)
H264At(c, pos, valid, data) == [ctx |-> c, pos |-> pos, valid |-> valid, data |-> data]

ByteGives(c, pos, data, byte, x, r) ==
    r = IF NewFrameAt(c, x) THEN H264At([x EXCEPT !.strm = <<>>], pos + 1, TRUE, x.strm)
        ELSE H264At(FindPrefix(x, byte), pos + 1, FALSE, data)

LEMMA H264ByteIs ==
    ASSUME NEW c, NEW pos, NEW data, NEW byte, NEW x, x = NaluByte(c, byte),
           NEW s, s = H264At(c, pos, FALSE, data)
    PROVE  ByteGives(c, pos, data, byte, x, H264Byte(s, byte))
<1> DEFINE e == IF Len(x.nalu) \in {1, 5} /\ IsNewFrame(c, x.nalu)
                THEN H264At([x EXCEPT !.strm = <<>>], pos + 1, TRUE, x.strm)
                ELSE H264At(FindPrefix(x, byte), pos + 1, FALSE, data)
<1>1. s.valid = FALSE /\ s.ctx = c /\ s.pos = pos
  BY DEF H264At
<1>2. [s EXCEPT !.pos = @ + 1, !.ctx = FindPrefix(x, byte)] = H264At(FindPrefix(x, byte), pos + 1, FALSE, data)
  <2>1. PICK k, w : k = pos + 1 /\ w = FindPrefix(x, byte)
    OBVIOUS
  <2>2. PICK v : v = FALSE
    OBVIOUS
  <2>3. s = [ctx |-> c, pos |-> pos, valid |-> v, data |-> data]
    BY <2>2, Zenon DEF H264At
  <2>4. [s EXCEPT !.pos = k, !.ctx = w] = [ctx |-> w, pos |-> k, valid |-> v, data |-> data]
    <3>1. PICK u : u = [s EXCEPT !.pos = k]
      OBVIOUS
    <3>2. u = [ctx |-> c, pos |-> k, valid |-> v, data |-> data]
      BY ONLY <2>3, <3>1
    <3>3. [u EXCEPT !.ctx = w] = [ctx |-> w, pos |-> k, valid |-> v, data |-> data]
      BY ONLY <3>2
    <3>. QED  BY ONLY <3>1, <3>3, Zenon
  <2>5. [s EXCEPT !.pos = k, !.ctx = w] = H264At(w, k, FALSE, data)
    BY ONLY <2>2, <2>4, Zenon DEF H264At
  <2>. QED  BY <1>1, <2>1, <2>5
<1>3. H264Byte(s, byte) =
        The({IF Len(x.nalu) \in {1, 5} /\ IsNewFrame(s.ctx, x.nalu)
             THEN [ctx |-> [x EXCEPT !.strm = <<>>], pos |-> s.pos + 1, valid |-> TRUE, data |-> x.strm]
             ELSE [s EXCEPT !.pos = @ + 1, !.ctx = FindPrefix(x, byte)]})
  <2>1. ~s.valid /\ x = NaluByte(s.ctx, byte)
    BY <1>1
  <2>. QED  BY ONLY <2>1 DEF H264Byte
<1>4. H264Byte(s, byte) = The({e})
  BY <1>1, <1>2, <1>3 DEF H264At
<1> HIDE DEF e
<1>5. H264Byte(s, byte) = e
  BY <1>4, TheOnly
<1>. QED  BY <1>5 DEF e, NewFrameAt, Judges, ByteGives

H264Steps(s, t, c, byte) ==
    /\ s.valid = t.valid /\ s.data = t.data /\ H264Fit(s.ctx) /\ H264Fit(t.ctx) /\ Alike(s.ctx, t.ctx)
    /\ s.ctx.gotEos = c.gotEos /\ s.valid \in BOOLEAN /\ (s.valid => s.data # <<>>)

H264Moves(s, pos) == s = H264At(s.ctx, pos + 1, s.valid, s.data) /\ (~s.valid => s.data = <<>>)

LEMMA H264Alike ==
    ASSUME NEW c, H264Fit(c), NEW d, H264Fit(d), Alike(c, d), NEW byte \in Bytes, NEW pos, NEW p,
           NEW s, s = H264Byte(H264At(c, pos, FALSE, <<>>), byte),
           NEW t, t = H264Byte(H264At(d, p, FALSE, <<>>), byte)
    PROVE  H264Steps(s, t, c, byte) /\ H264Moves(s, pos)
<1> USE DEF H264Moves
<1>1. PICK x, y : x = NaluByte(c, byte) /\ y = NaluByte(d, byte)
  OBVIOUS
<1>2. Alike(x, y) /\ (NewFrameAt(c, x) <=> NewFrameAt(d, y))
  BY <1>1, NaluByteAlike
<1>3. /\ x.strm = c.strm /\ x.gotEos = c.gotEos
      /\ ~NewFrameAt(c, x) => H264Fit(x)
      /\ NewFrameAt(c, x) => c.strm # <<>> /\ H264Fit([x EXCEPT !.strm = <<>>])
      /\ x.inNalu <=> x.nalu # <<>>
  BY <1>1, NaluByteFit
<1>4. /\ ~NewFrameAt(d, y) => H264Fit(y)
      /\ NewFrameAt(d, y) => H264Fit([y EXCEPT !.strm = <<>>])
      /\ y.inNalu <=> y.nalu # <<>>
  BY <1>1, NaluByteFit
<1>5. /\ s = IF NewFrameAt(c, x) THEN H264At([x EXCEPT !.strm = <<>>], pos + 1, TRUE, x.strm)
              ELSE H264At(FindPrefix(x, byte), pos + 1, FALSE, <<>>)
      /\ t = IF NewFrameAt(d, y) THEN H264At([y EXCEPT !.strm = <<>>], p + 1, TRUE, y.strm)
              ELSE H264At(FindPrefix(y, byte), p + 1, FALSE, <<>>)
  <2>1. PICK z : z = <<>>
    OBVIOUS
  <2>2. PICK h, k : h = H264At(c, pos, FALSE, z) /\ k = H264At(d, p, FALSE, z)
    OBVIOUS
  <2>5. s = H264Byte(h, byte) /\ t = H264Byte(k, byte)
    BY <2>1, <2>2
  <2>3. ByteGives(c, pos, z, byte, x, s) /\ ByteGives(d, p, z, byte, y, t)
    BY ONLY <1>1, <2>2, <2>5, H264ByteIs
  <2>. QED  BY <2>1, <2>3, Zenon DEF ByteGives
<1>6. CASE NewFrameAt(c, x)
  <2>1. PICK u, v : u = [x EXCEPT !.strm = <<>>] /\ v = [y EXCEPT !.strm = <<>>]
    OBVIOUS
  <2>2. s = H264At(u, pos + 1, TRUE, x.strm) /\ t = H264At(v, p + 1, TRUE, y.strm)
    BY <1>2, <1>5, <1>6, <2>1
  <2>3. /\ s.ctx = u /\ s.valid = TRUE /\ s.data = x.strm /\ t.ctx = v /\ t.valid = TRUE /\ t.data = y.strm
        /\ s.pos = pos + 1
    BY ONLY <2>2 DEF H264At
  <2>4. H264Fit(u) /\ H264Fit(v)
    BY <1>2, <1>3, <1>4, <1>6, <2>1
  <2>5. Alike(u, v) /\ u.gotEos = x.gotEos
    <3>1. H264Fit(x) \/ H264Fit(u)
      BY <2>4
    <3>2. \A z : [z EXCEPT !.strm = <<>>].prefix = z.prefix
      OBVIOUS
    <3>3. /\ u.inNalu = x.inNalu /\ u.nalu = x.nalu /\ u.type = x.type /\ u.slices = x.slices
          /\ u.gotEos = x.gotEos /\ u.prefix = x.prefix
      BY <2>1
    <3>4. /\ v.inNalu = y.inNalu /\ v.nalu = y.nalu /\ v.type = y.type /\ v.slices = y.slices
          /\ v.prefix = y.prefix
      BY <2>1
    <3>5. u.strm = <<>> /\ v.strm = <<>>
      BY <1>1, <2>1, <2>4 DEF H264Fit, H264Of
    <3>. QED  BY <1>2, <3>3, <3>4, <3>5 DEF Alike
  <2>6. x.strm = y.strm
    BY <1>2 DEF Alike
  <2>. QED  BY <1>3, <1>6, <2>2, <2>3, <2>4, <2>5, <2>6 DEF H264Steps
<1>7. CASE ~NewFrameAt(c, x)
  <2>1. PICK u, v : u = FindPrefix(x, byte) /\ v = FindPrefix(y, byte)
    OBVIOUS
  <2>2. s = H264At(u, pos + 1, FALSE, <<>>) /\ t = H264At(v, p + 1, FALSE, <<>>)
    BY <1>2, <1>5, <1>7, <2>1
  <2>3. /\ s.ctx = u /\ s.valid = FALSE /\ s.data = <<>> /\ t.ctx = v /\ t.valid = FALSE /\ t.data = <<>>
    BY ONLY <2>2 DEF H264At
  <2>4. H264Fit(u) /\ H264Fit(v) /\ u.gotEos = x.gotEos
    BY <1>2, <1>3, <1>4, <1>7, <2>1, FindPrefixFit
  <2>5. Alike(u, v)
    BY <1>2, <1>3, <1>4, <1>7, <2>1, FindPrefixAlike
  <2>. QED  BY <1>3, <2>2, <2>3, <2>4, <2>5 DEF H264Steps
<1>. QED  BY <1>6, <1>7

(* What is found byte by byte is a recursive function, which there is.     *)
FoundStep(s, f, i) ==
    IF i = 0 THEN [ctx |-> H264SplitStart, pictures |-> <<>>]
    ELSE The({FoundWith(e, s.bytes[i]) : e \in {f[i - 1]}})
Founds(s, n, f) == f = [i \in 0 .. n |-> FoundStep(s, f, i)]

LEMMA FoundExists ==
    ASSUME NEW s
    PROVE  \A n \in Nat : \E f : Founds(s, n, f)
<1> DEFINE K == {n \in Nat : \E f : Founds(s, n, f)}
<1>1. 0 \in K
  <2> DEFINE g == [i \in 0 .. 0 |-> FoundStep(s, <<>>, 0)]
  <2>1. \A i \in 0 .. 0 : FoundStep(s, g, i) = FoundStep(s, <<>>, 0)
    BY DEF FoundStep
  <2>2. Founds(s, 0, g)
    BY <2>1, Zenon DEF Founds
  <2>. QED  BY <2>2
<1>2. ASSUME NEW n \in Nat, n \in K PROVE n + 1 \in K
  <2>1. PICK f : Founds(s, n, f)
    BY <1>2
  <2> DEFINE g == [i \in 0 .. n + 1 |-> FoundStep(s, f, i)]
  <2>2. \A i \in 0 .. n : f[i] = FoundStep(s, f, i) /\ g[i] = f[i]
    BY <2>1 DEF Founds
  <2>3. ASSUME NEW i \in 0 .. n + 1 PROVE FoundStep(s, f, i) = FoundStep(s, g, i)
    <3>1. i # 0 => i - 1 \in 0 .. n
      OBVIOUS
    <3>2. i # 0 => f[i - 1] = g[i - 1]
      BY <2>2, <3>1
    <3> HIDE DEF g
    <3>. QED  BY <3>2 DEF FoundStep
  <2>4. Founds(s, n + 1, g)
    BY <2>3, Zenon DEF Founds
  <2>. QED  BY <2>4
<1> HIDE DEF K
<1>3. \A n \in Nat : n \in K
  BY <1>1, <1>2, AllNumbers
<1>. QED  BY <1>3 DEF K

LEMMA FoundIs ==
    ASSUME NEW s \in Streams, NEW f, f = H264Found(s)
    PROVE  /\ f[0] = [ctx |-> H264SplitStart, pictures |-> <<>>]
           /\ \A i \in 0 .. Len(s.bytes) - 1 : f[i + 1] = FoundWith(f[i], s.bytes[i + 1])
<1>1. PICK n \in Nat : n = Len(s.bytes)
  BY StreamFacts
<1>2. f = CHOOSE g : Founds(s, n, g)
  BY <1>1 DEF H264Found, Founds, FoundStep
<1>3. Founds(s, n, f)
  BY <1>2, FoundExists
<1>4. \A i \in 0 .. n : f[i] = FoundStep(s, f, i)
  BY <1>3 DEF Founds
<1>5. f[0] = [ctx |-> H264SplitStart, pictures |-> <<>>]
  <2>1. 0 \in 0 .. n
    OBVIOUS
  <2>2. f[0] = FoundStep(s, f, 0)
    BY <1>4, <2>1
  <2>. QED  BY ONLY <2>2 DEF FoundStep
<1>6. ASSUME NEW i \in 0 .. n - 1 PROVE f[i + 1] = FoundWith(f[i], s.bytes[i + 1])
  <2>1. PICK k \in 0 .. n : k = i + 1 /\ k # 0 /\ k - 1 = i
    OBVIOUS
  <2>2. f[k] = FoundStep(s, f, k)
    BY <1>4
  <2>3. f[k] = The({FoundWith(f[i], s.bytes[k])})
    BY ONLY <2>1, <2>2 DEF FoundStep
  <2>. QED  BY <2>1, <2>3, TheOnly
<1>. QED  BY <1>1, <1>5, <1>6

LEMMA FoundWithIs ==
    ASSUME NEW f, NEW byte, NEW h, h = NothingFound(f.ctx), NEW r, r = H264Byte(h, byte),
           NEW g, g = FoundWith(f, byte)
    PROVE  /\ g.ctx = r.ctx
           /\ g.pictures = IF r.valid THEN Append(f.pictures, r.data) ELSE f.pictures
<1>2. g = The({[ctx |-> r.ctx, pictures |-> IF r.valid THEN Append(f.pictures, r.data) ELSE f.pictures]})
  BY DEF FoundWith
<1>3. PICK w : w = IF r.valid THEN Append(f.pictures, r.data) ELSE f.pictures
  OBVIOUS
<1>4. g = [ctx |-> r.ctx, pictures |-> w]
  BY <1>2, <1>3, TheOnly
<1>5. g.ctx = r.ctx /\ g.pictures = w
  BY ONLY <1>4
<1>. QED  BY <1>3, <1>5



LEMMA H264Starts ==
    /\ H264Fit(H264SplitStart) /\ ~H264SplitStart.gotEos
    /\ \A c : LET d == H264SplitReset(c) IN H264Fit(d) /\ Alike(d, H264SplitStart) /\ ~d.gotEos
<1>1. /\ <<>> \in Seq(Bytes) /\ <<>> \in Seq(Range(<<>>))
  OBVIOUS
<1>2. H264SplitStart = H264Of(<<255, 255, 255>>, FALSE, <<>>, 0, <<>>, FALSE, FALSE)
  BY DEF H264SplitStart, H264Of
<1>3. ASSUME NEW c PROVE H264SplitReset(c) = H264Of(<<255, 255, 255>>, FALSE, <<>>, c.type, <<>>, FALSE, FALSE)
  <2>1. PICK z, e, no, t, d : z = <<255, 255, 255>> /\ e = <<>> /\ no = FALSE /\ t = c.type /\ d = H264SplitStart
    OBVIOUS
  <2>2. d = [prefix |-> z, inNalu |-> no, nalu |-> e, type |-> 0, strm |-> e, slices |-> no, gotEos |-> no]
    BY <2>1, Zenon DEF H264SplitStart
  <2>3. [d EXCEPT !.type = t] = H264Of(z, no, e, t, e, no, no)
    BY ONLY <2>2 DEF H264Of
  <2>4. H264SplitReset(c) = [d EXCEPT !.type = t]
    BY <2>1 DEF H264SplitReset
  <2>. QED  BY ONLY <2>1, <2>3, <2>4, ZenonT(60)
<1>4. ASSUME NEW t, NEW d, d = H264Of(<<255, 255, 255>>, FALSE, <<>>, t, <<>>, FALSE, FALSE)
      PROVE  H264Fit(d) /\ Alike(d, H264SplitStart) /\ ~d.gotEos
  <2>1. /\ d.prefix = <<255, 255, 255>> /\ d.inNalu = FALSE /\ d.nalu = <<>> /\ d.type = t /\ d.strm = <<>>
        /\ d.slices = FALSE /\ d.gotEos = FALSE
    BY <1>4 DEF H264Of
  <2>2. d = H264Of(d.prefix, d.inNalu, d.nalu, d.type, d.strm, d.slices, d.gotEos)
    <3>1. PICK z, e, no : z = <<255, 255, 255>> /\ e = <<>> /\ no = FALSE
      OBVIOUS
    <3>2. d = H264Of(z, no, e, t, e, no, no)
      BY ONLY <1>4, <3>1, ZenonT(60)
    <3>. QED  BY ONLY <3>2 DEF H264Of
  <2>3. H264Fit(d)
    BY ONLY <1>1, <2>1, <2>2 DEF H264Fit
  <2>4. Alike(d, H264SplitStart)
    BY ONLY <1>2, <2>1 DEF Alike, H264Of
  <2>. QED  BY <2>1, <2>3, <2>4
<1>5. \A c : H264Fit(H264SplitReset(c)) /\ Alike(H264SplitReset(c), H264SplitStart) /\ ~H264SplitReset(c).gotEos
  BY <1>3, <1>4, ZenonT(60)
<1>6. H264Fit(H264SplitStart) /\ ~H264SplitStart.gotEos
  BY <1>2, <1>4, ZenonT(60)
<1>. QED  BY <1>5, <1>6

LEMMA FoundFits ==
    ASSUME NEW s \in Streams, NEW f, f = H264Found(s)
    PROVE  \A i \in 0 .. Len(s.bytes) : H264Fit(f[i].ctx)
<1> DEFINE K == {k \in Nat : k \in 0 .. Len(s.bytes) => H264Fit(f[k].ctx)}
<1>1. s.bytes \in Seq(Bytes) /\ Len(s.bytes) \in Nat
  BY StreamFacts
<1>2. 0 \in K
  BY FoundIs, H264Starts
<1>3. ASSUME NEW k \in Nat, k \in K PROVE k + 1 \in K
  <2> SUFFICES ASSUME k + 1 \in 0 .. Len(s.bytes) PROVE H264Fit(f[k + 1].ctx)
    OBVIOUS
  <2>1. k \in 0 .. Len(s.bytes) - 1 /\ k \in 0 .. Len(s.bytes) /\ s.bytes[k + 1] \in Bytes
    BY <1>1
  <2>2. PICK b, r : b \in Bytes /\ b = s.bytes[k + 1] /\ r = H264Byte(H264At(f[k].ctx, 0, FALSE, <<>>), b)
    BY <2>1
  <2>3. f[k + 1] = FoundWith(f[k], b)
    BY <2>1, <2>2, FoundIs
  <2>4. f[k + 1].ctx = r.ctx
    <3>1. PICK e, g, h : e = f[k] /\ g = f[k + 1] /\ h = NothingFound(e.ctx)
      OBVIOUS
    <3>2. h = NothingFound(e.ctx) /\ r = H264Byte(h, b) /\ g = FoundWith(e, b)
      BY <2>2, <2>3, <3>1 DEF NothingFound, H264At
    <3>3. g.ctx = r.ctx
      BY ONLY <3>2, FoundWithIs
    <3>. QED  BY <3>1, <3>3
  <2>5. PICK c : c = f[k].ctx /\ H264Fit(c)
    BY <1>3, <2>1
  <2>6. Alike(c, c)
    BY DEF Alike
  <2>7. r = H264Byte(H264At(c, 0, FALSE, <<>>), b)
    BY <2>2, <2>5
  <2>8. b \in Bytes
    BY ONLY <2>2
  <2>9. H264Steps(r, r, c, b)
    BY ONLY <2>5, <2>6, <2>7, <2>8, H264Alike
  <2>. QED  BY <2>4, <2>9 DEF H264Steps
<1> HIDE DEF K
<1>4. \A k \in Nat : k \in K
  BY <1>2, <1>3, AllNumbers
<1>. QED  BY <1>1, <1>4 DEF K

(* What is found of a longer part of the stream begins with what is found  *)
(* of a shorter one.                                                       *)
BeginsWith(y, x) ==
    /\ x \in Seq(Range(x)) /\ y \in Seq(Range(y)) /\ Len(x) <= Len(y)
    /\ \A i \in 1 .. Len(x) : y[i] = x[i]

LEMMA BeginsAppend ==
    ASSUME NEW x, NEW y, BeginsWith(y, x), NEW d, NEW z, z = Append(y, d)
    PROVE  BeginsWith(z, x) /\ BeginsWith(z, z)
<1>1. /\ x \in Seq(Range(x)) /\ Len(x) <= Len(y) /\ \A i \in 1 .. Len(x) : y[i] = x[i]
      /\ y \in Seq(Range(y) \cup {d})
  BY SeqMonotonic DEF BeginsWith
<1>2. PICK S : y \in Seq(S) /\ d \in S
  BY <1>1
<1>3. z \in Seq(S) /\ Len(z) = Len(y) + 1 /\ \A i \in 1 .. Len(y) : z[i] = y[i]
  BY <1>2
<1>4. z \in Seq(Range(z))
  BY <1>3, SeqOfRange
<1>5. Len(x) \in Nat /\ Len(y) \in Nat /\ Len(z) \in Nat
  BY <1>1, <1>3
<1>6. \A i \in 1 .. Len(x) : z[i] = x[i]
  <2>1. \A i \in 1 .. Len(x) : i \in 1 .. Len(y)
    BY ONLY <1>1, <1>5
  <2>. QED  BY <1>1, <1>3, <2>1
<1>7. Len(x) <= Len(z) /\ Len(z) <= Len(z)
  BY ONLY <1>1, <1>3, <1>5
<1>. QED  BY <1>1, <1>4, <1>6, <1>7 DEF BeginsWith

LEMMA FoundGrows ==
    ASSUME NEW s \in Streams, NEW f, f = H264Found(s), NEW q \in 0 .. Len(s.bytes), NEW k \in q .. Len(s.bytes)
    PROVE  BeginsWith(f[k].pictures, f[q].pictures)
<1> DEFINE Grows(i) == \A h \in 0 .. i : BeginsWith(f[i].pictures, f[h].pictures)
           K == {i \in Nat : i \in 0 .. Len(s.bytes) => Grows(i)}
<1>1. s.bytes \in Seq(Bytes) /\ Len(s.bytes) \in Nat
  BY StreamFacts
<1>2. 0 \in K
  <2>1. f[0].pictures = <<>>
    BY FoundIs
  <2>2. BeginsWith(<<>>, <<>>)
    <3>1. <<>> \in Seq(Range(<<>>)) /\ Len(<<>>) = 0
      OBVIOUS
    <3>. QED  BY ONLY <3>1 DEF BeginsWith
  <2>. QED  BY <2>1, <2>2
<1>3. ASSUME NEW i \in Nat, i \in K PROVE i + 1 \in K
  <2> SUFFICES ASSUME i + 1 \in 0 .. Len(s.bytes) PROVE Grows(i + 1)
    OBVIOUS
  <2>1. i \in 0 .. Len(s.bytes) - 1 /\ Grows(i)
    BY <1>1, <1>3
  <2>2. PICK e, g, b, h : e = f[i] /\ g = f[i + 1] /\ b = s.bytes[i + 1] /\ h = NothingFound(e.ctx)
    OBVIOUS
  <2>3. PICK r : r = H264Byte(h, b)
    OBVIOUS
  <2>4. g = FoundWith(e, b)
    BY <2>1, <2>2, FoundIs
  <2>5. g.pictures = IF r.valid THEN Append(e.pictures, r.data) ELSE e.pictures
    <3>1. h = NothingFound(e.ctx)
      BY <2>2
    <3>. QED  BY ONLY <2>3, <2>4, <3>1, FoundWithIs
  <2>6. BeginsWith(e.pictures, e.pictures)
    BY <2>1, <2>2
  <2>7. ASSUME NEW x, BeginsWith(e.pictures, x) PROVE BeginsWith(g.pictures, x) /\ BeginsWith(g.pictures, g.pictures)
    <3>1. CASE r.valid
      <4>1. PICK y, z, d : y = e.pictures /\ z = g.pictures /\ d = r.data
        OBVIOUS
      <4>2. BeginsWith(y, x) /\ z = Append(y, d)
        BY <2>5, <2>7, <3>1, <4>1
      <4>3. BeginsWith(z, x) /\ BeginsWith(z, z)
        BY ONLY <4>2, BeginsAppend
      <4>. QED  BY <4>1, <4>3
    <3>2. CASE ~r.valid
      BY <2>5, <2>6, <2>7, <3>2
    <3>. QED  BY <3>1, <3>2
  <2>8. ASSUME NEW h0 \in 0 .. i + 1 PROVE BeginsWith(f[i + 1].pictures, f[h0].pictures)
    <3>1. CASE h0 = i + 1
      BY <2>2, <2>6, <2>7, <3>1
    <3>2. CASE h0 # i + 1
      <4>1. h0 \in 0 .. i
        BY <3>2
      <4>. QED  BY <2>1, <2>2, <2>7, <4>1
    <3>. QED  BY <3>1, <3>2
  <2>. QED  BY <2>8
<1> HIDE DEF K
<1>4. \A i \in Nat : i \in K
  BY <1>2, <1>3, AllNumbers
<1>5. k \in 0 .. Len(s.bytes) /\ k \in Nat /\ q \in 0 .. k
  BY <1>1
<1>. QED  BY <1>4, <1>5 DEF K

(* The loop of a call, over the bytes behind q.                            *)
AfterStep(c, src, f, i) ==
    IF i = 0 THEN NothingFound(c) ELSE The({H264Byte(s, src[i]) : s \in {f[i - 1]}})
Afters(c, src, n, f) == f = [i \in 0 .. n |-> AfterStep(c, src, f, i)]

LEMMA AfterExists ==
    ASSUME NEW c, NEW src
    PROVE  \A n \in Nat : \E f : Afters(c, src, n, f)
<1> DEFINE K == {n \in Nat : \E f : Afters(c, src, n, f)}
<1>1. 0 \in K
  <2> DEFINE g == [i \in 0 .. 0 |-> AfterStep(c, src, <<>>, 0)]
  <2>1. \A i \in 0 .. 0 : AfterStep(c, src, g, i) = AfterStep(c, src, <<>>, 0)
    BY DEF AfterStep
  <2>2. Afters(c, src, 0, g)
    BY <2>1, Zenon DEF Afters
  <2>. QED  BY <2>2
<1>2. ASSUME NEW n \in Nat, n \in K PROVE n + 1 \in K
  <2>1. PICK f : Afters(c, src, n, f)
    BY <1>2
  <2> DEFINE g == [i \in 0 .. n + 1 |-> AfterStep(c, src, f, i)]
  <2>2. \A i \in 0 .. n : f[i] = AfterStep(c, src, f, i) /\ g[i] = f[i]
    BY <2>1 DEF Afters
  <2>3. ASSUME NEW i \in 0 .. n + 1 PROVE AfterStep(c, src, f, i) = AfterStep(c, src, g, i)
    <3>1. i # 0 => i - 1 \in 0 .. n
      OBVIOUS
    <3>2. i # 0 => f[i - 1] = g[i - 1]
      BY <2>2, <3>1
    <3> HIDE DEF g
    <3>. QED  BY <3>2 DEF AfterStep
  <2>4. Afters(c, src, n + 1, g)
    BY <2>3, Zenon DEF Afters
  <2>. QED  BY <2>4
<1> HIDE DEF K
<1>3. \A n \in Nat : n \in K
  BY <1>1, <1>2, AllNumbers
<1>. QED  BY <1>3 DEF K

AfterEach(c, src, n, r, f) ==
    /\ f[0] = NothingFound(c) /\ f[n] = r
    /\ \A i \in 0 .. n - 1 : f[i + 1] = H264Byte(f[i], src[i + 1])

LEMMA AfterIs ==
    ASSUME NEW c, NEW src, NEW n \in Nat, n = Len(src), NEW r, r = H264Split(c, src)
    PROVE  \E f : AfterEach(c, src, n, r, f)
<1> DEFINE f == CHOOSE g : Afters(c, src, n, g)
<1>1. f[n] = r
  BY DEF H264Split, Afters, AfterStep
<1>2. Afters(c, src, n, f)
  BY AfterExists
<1> HIDE DEF f
<1>4. \A i \in 0 .. n : f[i] = AfterStep(c, src, f, i)
  BY <1>2 DEF Afters
<1>5. f[0] = NothingFound(c)
  <2>1. 0 \in 0 .. n
    OBVIOUS
  <2>2. f[0] = AfterStep(c, src, f, 0)
    BY <1>4, <2>1
  <2>. QED  BY ONLY <2>2 DEF AfterStep
<1>6. ASSUME NEW i \in 0 .. n - 1 PROVE f[i + 1] = H264Byte(f[i], src[i + 1])
  <2>1. PICK k \in 0 .. n : k = i + 1 /\ k # 0 /\ k - 1 = i
    OBVIOUS
  <2>2. f[k] = AfterStep(c, src, f, k)
    BY <1>4
  <2>3. f[k] = The({H264Byte(f[i], src[k])})
    BY ONLY <2>1, <2>2 DEF AfterStep
  <2>. QED  BY <2>1, <2>3, TheOnly
<1>. QED  BY <1>1, <1>5, <1>6 DEF AfterEach

H264Upto(F, q, c, x, p) ==
    /\ x = H264At(x.ctx, p, x.valid, x.data) /\ x.valid \in BOOLEAN
    /\ H264Fit(x.ctx) /\ x.ctx.gotEos = c.gotEos
    /\ IF x.valid THEN x.data # <<>> ELSE x.data = <<>>
    /\ Alike(c, F[q].ctx) =>
          /\ Alike(x.ctx, F[q + p].ctx)
          /\ F[q + p].pictures = IF x.valid THEN Append(F[q].pictures, x.data) ELSE F[q].pictures

LEMMA H264UptoNext ==
    ASSUME NEW s \in Streams, NEW F, F = H264Found(s), NEW q \in Nat, NEW p \in Nat, q + p + 1 <= Len(s.bytes),
           NEW c, NEW x, H264Upto(F, q, c, x, p), ~x.valid,
           NEW byte \in Bytes, byte = s.bytes[q + p + 1], NEW y, y = H264Byte(x, byte)
    PROVE  H264Upto(F, q, c, y, p + 1)
<1>1. PICK a \in Nat, b \in Nat : a = q + p /\ b = q + p + 1 /\ b = a + 1 /\ a \in 0 .. Len(s.bytes) - 1
                                  /\ q + (p + 1) = b /\ a \in 0 .. Len(s.bytes)
  BY StreamFacts
<1>2. PICK d, g, e, t, h : /\ d = x.ctx /\ e = F[a] /\ g = F[b] /\ h = NothingFound(e.ctx) /\ t = H264Byte(h, byte)
  OBVIOUS
<1>3. H264Fit(d) /\ H264Fit(e.ctx) /\ d.gotEos = c.gotEos
  BY <1>1, <1>2, FoundFits DEF H264Upto
<1>4. x = H264At(d, p, FALSE, <<>>) /\ h = H264At(e.ctx, 0, FALSE, <<>>)
  BY <1>2 DEF H264Upto, NothingFound, H264At
<1>5. /\ g.ctx = t.ctx
      /\ g.pictures = IF t.valid THEN Append(e.pictures, t.data) ELSE e.pictures
  <2>1. g = FoundWith(e, byte)
    BY <1>1, <1>2, FoundIs
  <2>2. h = NothingFound(e.ctx) /\ t = H264Byte(h, byte)
    BY <1>2
  <2>. QED  BY ONLY <2>1, <2>2, FoundWithIs
<1>6. H264Moves(y, p) /\ H264Steps(y, y, d, byte)
  <2>1. Alike(d, d) /\ y = H264Byte(H264At(d, p, FALSE, <<>>), byte)
    BY <1>4 DEF Alike
  <2>. QED  BY ONLY <1>3, <2>1, byte \in Bytes, H264Alike
<1>7. ASSUME Alike(c, F[q].ctx)
      PROVE  /\ Alike(y.ctx, g.ctx)
             /\ g.pictures = IF y.valid THEN Append(F[q].pictures, y.data) ELSE F[q].pictures
  <2>1. Alike(d, e.ctx) /\ e.pictures = F[q].pictures
    BY <1>1, <1>2, <1>7 DEF H264Upto
  <2>2. PICK v : v = e.ctx
    OBVIOUS
  <2>3. /\ H264Fit(d) /\ H264Fit(v) /\ Alike(d, v)
        /\ y = H264Byte(H264At(d, p, FALSE, <<>>), byte) /\ t = H264Byte(H264At(v, 0, FALSE, <<>>), byte)
    BY <1>2, <1>3, <1>4, <2>1, <2>2
  <2>4. H264Steps(y, t, d, byte)
    BY ONLY <2>3, byte \in Bytes, H264Alike
  <2>. QED  BY <1>5, <2>1, <2>4 DEF H264Steps
<1>8. /\ H264Fit(y.ctx) /\ y.ctx.gotEos = c.gotEos /\ y.valid \in BOOLEAN
      /\ IF y.valid THEN y.data # <<>> ELSE y.data = <<>>
  BY <1>3, <1>6 DEF H264Steps, H264Moves
<1>9. F[q + (p + 1)] = g
  BY <1>1, <1>2
<1>. QED  BY <1>6, <1>7, <1>8, <1>9 DEF H264Upto, H264Moves

(* A call of prepare: what it gives, and what is found up to where it      *)
(* stops.                                                                  *)
H264Gives(F, q, n, c, r) == \E p \in 0 .. n : H264Upto(F, q, c, r, p) /\ (~r.valid => p = n)

LEMMA H264SplitGives ==
    ASSUME NEW s \in Streams, NEW F, F = H264Found(s), NEW q \in Nat, NEW n \in Nat, q + n <= Len(s.bytes),
           NEW src, Len(src) = n, \A i \in 1 .. n : src[i] = s.bytes[q + i],
           NEW c, H264Fit(c), NEW r, r = H264Split(c, src)
    PROVE  H264Gives(F, q, n, c, r)
<1>0. PICK f : AfterEach(c, src, n, r, f)
  <2>1. n = Len(src) /\ r = H264Split(c, src)
    OBVIOUS
  <2>. QED  BY ONLY <2>1, n \in Nat, AfterIs
<1>1. /\ f[0] = NothingFound(c) /\ f[n] = r
      /\ \A i \in 0 .. n - 1 : f[i + 1] = H264Byte(f[i], src[i + 1])
  BY <1>0 DEF AfterEach
<1> DEFINE K == {i \in Nat : i \in 0 .. n => H264Gives(F, q, i, c, f[i])}
<1>2. 0 \in K
  <2>1. PICK x, no, e : x = f[0] /\ no = FALSE /\ e = <<>>
    OBVIOUS
  <2>2. x = H264At(c, 0, no, e)
    BY <1>1, <2>1, Zenon DEF NothingFound, H264At
  <2>3. x.ctx = c /\ x.valid = no /\ x.data = e
    BY ONLY <2>2 DEF H264At
  <2>4. q + 0 = q
    OBVIOUS
  <2>5. H264Upto(F, q, c, x, 0)
    <3>1. x = H264At(x.ctx, 0, x.valid, x.data)
      BY ONLY <2>2, <2>3
    <3>2. x.valid \in BOOLEAN /\ x.valid = FALSE /\ x.data = <<>>
      BY <2>1, <2>3
    <3>. QED  BY <2>3, <2>4, <3>1, <3>2 DEF H264Upto
  <2>6. 0 \in 0 .. 0
    OBVIOUS
  <2>. QED  BY <2>1, <2>5, <2>6 DEF H264Gives
<1>3. ASSUME NEW i \in Nat, i \in K PROVE i + 1 \in K
  <2> SUFFICES ASSUME i + 1 \in 0 .. n PROVE H264Gives(F, q, i + 1, c, f[i + 1])
    OBVIOUS
  <2>1. i \in 0 .. n - 1 /\ i \in 0 .. n /\ i + 1 \in 1 .. n
    OBVIOUS
  <2>2. PICK p \in 0 .. i : H264Upto(F, q, c, f[i], p) /\ (~f[i].valid => p = i)
    BY <1>3, <2>1 DEF H264Gives
  <2>3. PICK byte \in Bytes : byte = s.bytes[q + i + 1] /\ byte = src[i + 1]
    <3>1. s.bytes \in Seq(Bytes) /\ Len(s.bytes) \in Nat
      BY StreamFacts
    <3>2. PICK h \in 1 .. Len(s.bytes) : h = q + i + 1 /\ h = q + (i + 1)
      BY <2>1, <3>1
    <3>. QED  BY <2>1, <3>1, <3>2
  <2>4. f[i + 1] = H264Byte(f[i], byte)
    BY <1>1, <2>1, <2>3
  <2>5. CASE f[i].valid
    <3>1. H264Byte(f[i], byte) = f[i]
      BY <2>5 DEF H264Byte
    <3>2. p \in 0 .. i + 1
      OBVIOUS
    <3>. QED  BY <2>2, <2>4, <2>5, <3>1, <3>2 DEF H264Gives
  <2>6. CASE ~f[i].valid
    <3>1. PICK x, y : x = f[i] /\ y = f[i + 1]
      OBVIOUS
    <3>2. p = i /\ q + i + 1 <= Len(s.bytes) /\ p \in Nat
      BY <2>1, <2>2, <2>6, StreamFacts
    <3>3. /\ H264Upto(F, q, c, x, p) /\ ~x.valid /\ q + p + 1 <= Len(s.bytes) /\ byte = s.bytes[q + p + 1]
          /\ y = H264Byte(x, byte)
      BY <2>2, <2>3, <2>4, <2>6, <3>1, <3>2
    <3>4. H264Upto(F, q, c, y, p + 1)
      BY <3>2, <3>3, H264UptoNext
    <3>5. p + 1 \in 0 .. i + 1 /\ p + 1 = i + 1
      BY <3>2
    <3>. QED  BY <3>1, <3>4, <3>5 DEF H264Gives
  <2>. QED  BY <2>5, <2>6
<1> HIDE DEF K
<1>4. \A i \in Nat : i \in K
  BY <1>2, <1>3, AllNumbers
<1>5. n \in 0 .. n
  OBVIOUS
<1>. QED  BY <1>1, <1>4, <1>5 DEF K

H264Inv ==
    stream.codec = "h264" =>
        /\ H264Fit(ctx)
        /\ ctx.gotEos => eosPut # "no"
        /\ task.eos \/ ends > 0 => ctx.gotEos
        /\ task.valid => ~task.eos
        /\ eosPut = "empty" /\ ends > 0 => ~task.valid /\ packet = NoPacket
        /\ eosPut # "data" => /\ Alike(ctx, H264Found(stream)[Read].ctx)
                              /\ Handed = H264Found(stream)[Read].pictures

LEMMA H264Init == Init => H264Inv
<1> SUFFICES ASSUME Init, stream.codec = "h264" PROVE H264Inv
  BY DEF H264Inv
<1>1. /\ stream \in Streams /\ Read = 0 /\ Handed = <<>> /\ ctx = H264SplitStart /\ task = NoTask /\ ends = 0
      /\ eosPut = "no"
  BY CommonInit DEF Init, ContextOf, PacketInv
<1>2. task.eos = FALSE /\ task.valid = FALSE
  BY <1>1 DEF NoTask
<1>3. H264Found(stream)[0] = [ctx |-> H264SplitStart, pictures |-> <<>>]
  BY <1>1, FoundIs
<1>4. Alike(ctx, H264Found(stream)[Read].ctx) /\ Handed = H264Found(stream)[Read].pictures
  BY <1>1, <1>3 DEF Alike
<1>5. H264Fit(ctx) /\ ~ctx.gotEos
  BY <1>1, H264Starts
<1>. QED  BY <1>1, <1>2, <1>4, <1>5 DEF H264Inv

LEMMA H264Resets ==
    ASSUME PacketInv, TaskInv, H264Inv, Reset
    PROVE  H264Inv'
<1> SUFFICES ASSUME stream.codec = "h264", stream' = stream PROVE H264Inv'
  BY CommonReset DEF H264Inv
<1>1. /\ stream \in Streams /\ Read' = 0 /\ Handed' = <<>> /\ ctx' = H264SplitReset(ctx) /\ ~task'.eos /\ ends' = 0
      /\ eosPut' = "no" /\ ~task'.valid
  BY CommonReset DEF ResetOf, PacketInv
<1>2. H264Found(stream)[0] = [ctx |-> H264SplitStart, pictures |-> <<>>]
  BY <1>1, FoundIs
<1>3. H264Fit(ctx') /\ Alike(ctx', H264SplitStart) /\ ~ctx'.gotEos
  BY <1>1, H264Starts
<1>4. Alike(ctx', H264Found(stream)[Read'].ctx) /\ Handed' = H264Found(stream)[Read'].pictures
  BY <1>1, <1>2, <1>3
<1>. QED  BY <1>1, <1>3, <1>4 DEF H264Inv

LEMMA H264User ==
    ASSUME PacketInv, TaskInv, H264Inv, (\E to \in 1 .. Len(stream.bytes) : PutPacket(to)) \/ PutEnd
    PROVE  H264Inv'
<1>1. /\ Read' = Read /\ Handed' = Handed /\ eosPut = "no"
      /\ UNCHANGED <<stream, ctx, task, given, ends, resets, eosBefore>>
  <2>1. CASE \E to \in 1 .. Len(stream.bytes) : PutPacket(to)
    BY <2>1, CommonPut DEF PutPacket
  <2>2. CASE PutEnd
    BY <2>2, CommonEnd DEF PutEnd
  <2>. QED  BY <2>1, <2>2
<1> SUFFICES ASSUME stream.codec = "h264" PROVE H264Inv'
  BY <1>1 DEF H264Inv
<1>2. /\ H264Fit(ctx) /\ ~ctx.gotEos /\ ~(task.eos \/ ends > 0)
      /\ Alike(ctx, H264Found(stream)[Read].ctx) /\ Handed = H264Found(stream)[Read].pictures
  BY <1>1 DEF H264Inv
<1>. QED  BY <1>1, <1>2 DEF H264Inv

LEMMA H264Parse ==
    ASSUME PacketInv, TaskInv, H264Inv, Parse
    PROVE  H264Inv'
<1> SUFFICES ASSUME stream.codec = "h264", stream' = stream PROVE H264Inv'
  BY CommonParse DEF H264Inv
<1>1. /\ Read' = Read /\ Handed' = Handed /\ ~task'.eos /\ ~task'.valid /\ ctx' = ctx
      /\ task.valid /\ packet' = packet
      /\ eosPut' = eosPut /\ ends' = ends + (IF task.eos THEN 1 ELSE 0) /\ ends \in Nat
  BY CommonParse DEF TaskInv
<1>2. ends' = ends /\ ~task.eos
  BY <1>1 DEF H264Inv
<1>. QED  BY <1>1, <1>2 DEF H264Inv

LEMMA H264Prepared ==
    ASSUME PacketInv, TaskInv, H264Inv, stream.codec = "h264", Prepare
    PROVE  PacketInv' /\ TaskInv' /\ H264Inv'
<1> DEFINE r == PrepareOf(stream.codec, ctx, packet.data, packet.eos, task)
           n == Len(packet.data)
<1>1. /\ packet # NoPacket /\ ~task.valid /\ task.data = <<>> /\ Handed = given
      /\ task \in [valid : BOOLEAN, eos : BOOLEAN, data : {<<>>}] /\ ends \in Nat
  BY PrepareIs DEF TaskInv, Handed
<1>2. /\ packet.eos \in BOOLEAN /\ packet.data \in Seq(Bytes) /\ (packet.eos => eosPut # "no")
      /\ stream \in Streams /\ stream.bytes \in Seq(Bytes) /\ Len(stream.bytes) \in Nat
      /\ n \in Nat /\ Read \in Nat /\ Read + n = put /\ put \in Nat /\ put <= Len(stream.bytes)
      /\ packet.data = Between(stream.bytes, Read, put)
      /\ (packet.data = <<>> => n = 0) /\ (eosPut # "no" => packet.eos)
      /\ eosPut = "empty" => packet.data = <<>>
  <2>1. packet.data = <<>> => packet.eos
    BY <1>1, EmptyPacket
  <2>. QED  BY <2>1, PartRead, EmptySeq DEF PacketInv
<1>3. /\ H264Fit(ctx) /\ ctx.gotEos \in BOOLEAN /\ (ctx.gotEos => eosPut # "no")
      /\ (task.eos \/ ends > 0 => ctx.gotEos)
      /\ (eosPut # "data" => Alike(ctx, H264Found(stream)[Read].ctx) /\ Handed = H264Found(stream)[Read].pictures)
  BY DEF H264Inv, H264Fit
<1>4. r = H264Prepare(ctx, packet.data, packet.eos, task)
  BY DEF PrepareOf
(* A call that reads nothing: the stream is at its end.                    *)
<1>5. ASSUME NEW c, NEW t, NEW left, r = [ctx |-> c, left |-> left, task |-> t],
             left = <<>> \/ left = packet.data,
             c.gotEos = TRUE, H264Fit(c), Alike(ctx, ctx) => Alike(c, ctx), eosPut # "no",
             t \in [valid : {FALSE}, eos : BOOLEAN, data : {<<>>}]
      PROVE  PacketInv' /\ TaskInv' /\ H264Inv'
  <2> HIDE DEF r
  <2>1. /\ r.ctx = c /\ r.left = left /\ r.task = t
    BY <1>5
  <2>2. PICK pos \in 0 .. n : left = After(packet.data, pos) /\ (eosPut # "data" => pos = 0 /\ left = <<>>)
    <3>1. After(packet.data, 0) = packet.data /\ After(packet.data, n) = <<>>
      BY <1>2 DEF After
    <3>2. 0 \in 0 .. n /\ n \in 0 .. n
      BY <1>2
    <3>3. CASE left = packet.data
      <4>1. eosPut # "data" => eosPut = "empty"
        BY <1>5 DEF PacketInv
      <4>. QED  BY <1>2, <3>1, <3>2, <3>3, <4>1
    <3>4. CASE left = <<>>
      <4>1. eosPut # "data" => n = 0
        <5>1. eosPut # "data" => eosPut = "empty"
          BY <1>5 DEF PacketInv
        <5>. QED  BY <1>2, <5>1
      <4>. QED  BY <3>1, <3>2, <3>4, <4>1
    <3>. QED  BY <1>5, <3>3, <3>4
  <2>3. /\ t \in [valid : BOOLEAN, eos : BOOLEAN, data : {t.data}] /\ ~t.valid /\ t.data = <<>>
    BY <1>5
  <2>4. Called(r, pos)
    <3>1. r = PrepareOf(stream.codec, ctx, packet.data, packet.eos, task)
      BY DEF r
    <3>. QED  BY ONLY <2>1, <2>2, <2>3, <3>1 DEF Called, n
  <2>5. /\ PacketInv' /\ TaskInv' /\ Read' = Read + pos /\ Handed' = given /\ ctx' = c /\ task' = t
        /\ (left = <<>> => packet' = NoPacket)
        /\ eosPut' = eosPut /\ stream' = stream
    BY <2>1, <2>3, <2>4, CommonPrepare
  <2>6. eosPut # "data" => Read' = Read /\ packet' = NoPacket
    BY <1>2, <2>2, <2>5
  <2>7. Alike(c, ctx)
    BY <1>5 DEF Alike
  <2>8. eosPut # "data" => /\ Alike(ctx', H264Found(stream)[Read'].ctx)
                           /\ Handed' = H264Found(stream)[Read'].pictures
    BY <1>1, <1>3, <2>5, <2>6, <2>7 DEF Alike
  <2>9. ~task'.valid /\ (eosPut = "empty" => packet' = NoPacket)
    BY <2>3, <2>5, <2>6
  <2>. QED  BY <1>5, <2>5, <2>8, <2>9 DEF H264Inv
<1>6. CASE ctx.gotEos
  <2>1. r = [ctx |-> ctx, left |-> <<>>, task |-> task]
    BY <1>4, <1>6 DEF H264Prepare
  <2>2. task \in [valid : {FALSE}, eos : BOOLEAN, data : {<<>>}]
    BY <1>1
  <2> HIDE DEF r
  <2>. QED  BY <1>3, <1>5, <1>6, <2>1, <2>2
<1>7. CASE ~ctx.gotEos /\ packet.eos
  <2>1. PICK yes, c, t : yes = TRUE /\ c = [ctx EXCEPT !.gotEos = yes] /\ t = [task EXCEPT !.eos = yes]
    OBVIOUS
  <2>2. r = [ctx |-> c, left |-> packet.data, task |-> t]
    BY <1>4, <1>7, <2>1 DEF H264Prepare
  <2>3. /\ c = H264Of(ctx.prefix, ctx.inNalu, ctx.nalu, ctx.type, ctx.strm, ctx.slices, yes)
    <3>1. ctx = H264Of(ctx.prefix, ctx.inNalu, ctx.nalu, ctx.type, ctx.strm, ctx.slices, ctx.gotEos)
      BY <1>3 DEF H264Fit
    <3>2. PICK p, a, o, ty, z, l, g : /\ p = ctx.prefix /\ a = ctx.inNalu /\ o = ctx.nalu /\ ty = ctx.type
                                      /\ z = ctx.strm /\ l = ctx.slices /\ g = ctx.gotEos
      OBVIOUS
    <3>3. ctx = H264Of(p, a, o, ty, z, l, g) /\ c = [ctx EXCEPT !.gotEos = yes]
      BY ONLY <2>1, <3>1, <3>2
    <3>4. c = H264Of(p, a, o, ty, z, l, yes)
      BY ONLY <3>3 DEF H264Of
    <3>. QED  BY ONLY <3>2, <3>4
  <2>4. /\ c.prefix = ctx.prefix /\ c.inNalu = ctx.inNalu /\ c.nalu = ctx.nalu /\ c.type = ctx.type
        /\ c.strm = ctx.strm /\ c.slices = ctx.slices /\ c.gotEos = yes
    BY ONLY <2>3 DEF H264Of
  <2>5. c = H264Of(c.prefix, c.inNalu, c.nalu, c.type, c.strm, c.slices, c.gotEos)
    BY ONLY <2>3, <2>4
  <2>6. H264Fit(c)
    BY <1>3, <2>1, <2>4, <2>5 DEF H264Fit
  <2>7. Alike(c, ctx)
    BY <2>4 DEF Alike
  <2>8. t \in [valid : {FALSE}, eos : BOOLEAN, data : {<<>>}]
    BY <1>1, <2>1
  <2> HIDE DEF r
  <2>. QED  BY <1>2, <1>5, <1>7, <2>1, <2>2, <2>4, <2>6, <2>7, <2>8
<1>8. CASE ~ctx.gotEos /\ ~packet.eos
  <2>1. PICK x : x = H264Split(ctx, packet.data)
    OBVIOUS
  <2>2. r = [ctx |-> x.ctx, left |-> After(packet.data, x.pos), task |-> [valid |-> x.valid, eos |-> FALSE, data |-> x.data]]
    <3>1. r = The({[ctx |-> x.ctx, left |-> After(packet.data, x.pos),
                    task |-> [valid |-> x.valid, eos |-> FALSE, data |-> x.data]]})
      BY <1>4, <1>8, <2>1 DEF H264Prepare
    <3> HIDE DEF r
    <3>. QED  BY <3>1, TheOnly
  <2> HIDE DEF r
  <2>3. PICK p \in 0 .. n : H264Upto(H264Found(stream), Read, ctx, x, p) /\ (~x.valid => p = n)
    <3>1. PICK q, k, F, src : q \in Nat /\ k \in Nat /\ q = Read /\ k = n /\ F = H264Found(stream) /\ src = packet.data
      BY <1>2
    <3>2. \A i \in 1 .. k : src[i] = stream.bytes[q + i]
      <4>1. PICK f \in Nat : f = put
        BY <1>2
      <4>2. q <= f /\ f <= Len(stream.bytes) /\ f - q = k /\ src = Between(stream.bytes, q, f)
        BY <1>2, <3>1, <4>1
      <4>3. \A i \in 1 .. f - q : Between(stream.bytes, q, f)[i] = stream.bytes[q + i]
        <5>1. stream.bytes \in Seq(Bytes) /\ q <= f
          BY <1>2, <3>1, <4>1
        <5>2. q \in Nat
          BY ONLY <3>1
        <5>. QED  BY ONLY <4>2, <5>1, <5>2, f \in Nat, Cut
      <4>. QED  BY <4>2, <4>3
    <3>3. q + k <= Len(stream.bytes) /\ Len(src) = k /\ x = H264Split(ctx, src)
      BY <1>2, <2>1, <3>1
    <3>4. H264Gives(F, q, k, ctx, x)
      BY <1>2, <1>3, <3>1, <3>2, <3>3, H264SplitGives
    <3>. QED  BY <3>1, <3>4 DEF H264Gives
  <2>4. /\ H264Fit(x.ctx) /\ x.ctx.gotEos = ctx.gotEos /\ x.valid \in BOOLEAN
        /\ IF x.valid THEN x.data # <<>> ELSE x.data = <<>>
        /\ x.pos = p
    BY <2>3 DEF H264Upto, H264At
  <2>5. /\ r.ctx = x.ctx /\ r.left = After(packet.data, p) /\ r.task.valid = x.valid /\ r.task.eos = FALSE
        /\ r.task.data = x.data /\ r.task \in [valid : BOOLEAN, eos : BOOLEAN, data : {r.task.data}]
    BY <2>2, <2>4
  <2>6. Called(r, p)
    <3>1. r = PrepareOf(stream.codec, ctx, packet.data, packet.eos, task)
      BY DEF r
    <3>. QED  BY ONLY <2>4, <2>5, <3>1, p \in 0 .. n DEF Called, n
  <2>7. /\ PacketInv' /\ TaskInv' /\ Read' = Read + p /\ ctx' = x.ctx /\ task' = r.task
        /\ Handed' = (IF x.valid THEN Append(given, x.data) ELSE given)
        /\ eosPut' = eosPut /\ stream' = stream /\ ends' = ends + 0
    BY <2>5, <2>6, CommonPrepare
  <2>8. eosPut # "data" => /\ Alike(ctx', H264Found(stream)[Read'].ctx)
                           /\ Handed' = H264Found(stream)[Read'].pictures
    BY <1>1, <1>3, <2>3, <2>7 DEF H264Upto
  <2>9. ends' = 0 /\ ~task'.eos /\ ~ctx'.gotEos
    BY <1>1, <1>3, <1>8, <2>4, <2>5, <2>7
  <2>. QED  BY <2>4, <2>7, <2>8, <2>9 DEF H264Inv
<1>. QED  BY <1>2, <1>3, <1>6, <1>7, <1>8

LEMMA H264Given ==
    ASSUME PacketInv, TaskInv, H264Inv, stream.codec = "h264"
    PROVE  PicturesIntact /\ EndsComplete
<1> DEFINE F == H264Found(stream)
           N == Len(stream.bytes)
<1>1. stream \in Streams /\ N \in Nat /\ Read \in Nat /\ put \in Nat /\ Read <= N /\ Read + Len(packet.data) = put
  BY PartRead
<1>2. F[N].pictures = Front(stream.pictures) /\ stream.pictures \in Seq(Seq(Seq(Bytes))) /\ stream.pictures # <<>>
  BY <1>1, StreamsAssumption DEF CutWell
<1>3. PICK m \in Nat : /\ m = Len(stream.pictures) - 1 /\ m \in 0 .. Len(stream.pictures)
                       /\ Front(stream.pictures) = SubSeq(stream.pictures, 1, m)
  <2>1. Len(stream.pictures) \in Nat \ {0}
    BY <1>2, EmptySeq
  <2>2. PICK m \in Nat : m = Len(stream.pictures) - 1
    BY <2>1
  <2>3. m \in 0 .. Len(stream.pictures)
    BY <2>1, <2>2
  <2>. QED  BY <2>2, <2>3 DEF Front
<1>4. ~EndWithBytes => \E j \in 0 .. m : Handed = SubSeq(stream.pictures, 1, j)
  <2> SUFFICES ASSUME ~EndWithBytes PROVE \E j \in 0 .. m : Handed = SubSeq(stream.pictures, 1, j)
    OBVIOUS
  <2>1. Handed = F[Read].pictures
    BY DEF H264Inv, EndWithBytes
  <2>2. BeginsWith(F[N].pictures, F[Read].pictures)
    <3>1. Read \in 0 .. N /\ N \in Read .. N
      BY <1>1
    <3>2. PICK q \in 0 .. N : q = Read /\ N \in q .. N
      BY <3>1
    <3>. QED  BY <1>1, <3>2, FoundGrows
  <2>3. BeginsWith(SubSeq(stream.pictures, 1, m), Handed)
    BY <1>2, <1>3, <2>1, <2>2
  <2>4. PICK z, h, S : z = stream.pictures /\ h = Handed /\ z \in Seq(S) /\ m <= Len(z)
    BY <1>2, <1>3
  <2>5. /\ h \in Seq(Range(h)) /\ Len(h) <= Len(SubSeq(z, 1, m))
        /\ \A i \in 1 .. Len(h) : SubSeq(z, 1, m)[i] = h[i]
    BY <2>3, <2>4 DEF BeginsWith
  <2>6. Len(SubSeq(z, 1, m)) = m /\ \A i \in 1 .. m : SubSeq(z, 1, m)[i] = z[i]
    BY <2>4
  <2>7. PICK j \in 0 .. m : j = Len(h) /\ \A i \in 1 .. j : h[i] = z[i]
    <3>1. Len(h) \in Nat /\ Len(h) <= m
      BY <2>5, <2>6
    <3>. QED  BY <2>5, <2>6, <3>1
  <2>8. h = SubSeq(z, 1, j)
    BY ONLY <2>4, <2>5, <2>7, m \in Nat
  <2>. QED  BY <2>4, <2>8
<1>5. ~EndWithBytes => IsPrefix(given, stream.pictures)
  <2> SUFFICES ASSUME ~EndWithBytes PROVE IsPrefix(given, stream.pictures)
    OBVIOUS
  <2>1. PICK j \in 0 .. Len(stream.pictures) : Handed = SubSeq(stream.pictures, 1, j)
    BY <1>3, <1>4
  <2>. QED  BY <1>2, <2>1, GivenOfHanded
<1>6. ASSUME ends > 0, eosPut = "empty" PROVE given = Front(stream.pictures)
  <2>1. ~task.valid /\ packet = NoPacket /\ put = N
    BY <1>6 DEF H264Inv, PacketInv
  <2>2. Read = N
    BY <1>1, <2>1, NoPacketFacts
  <2>. QED  BY <1>2, <1>6, <2>1, <2>2 DEF H264Inv, Handed
<1>7. ends > 0 => eosPut # "no"
  BY DEF H264Inv
<1>. QED  BY <1>5, <1>6, <1>7 DEF PicturesIntact, EndsComplete, SplitEnded
-----------------------------------------------------------------------------
(***************************************************************************)
(* H.265: picture j + 1 is gathered as with MPEG-4.  But its end is seen   *)
(* six bytes behind it, and the bytes read too far may lie in an earlier   *)
(* packet: the parser keeps them for the next picture (over).              *)
(***************************************************************************)
Nals(s) == H265SplitStart.state \o s.bytes

(* What is scanned for picture j: the last five bytes that were read, and  *)
(* the stream from the first byte of the picture.                          *)
Before(s, j) == IF j = 1 THEN H265SplitStart.state
                ELSE Between(s.bytes, s.places[j][1] + 1, s.places[j][1] + 6)

Scanned(s, j) == Before(s, j) \o Between(s.bytes, s.places[j][1], Len(s.bytes))

LEMMA JoinedTwo ==
    ASSUME NEW S, NEW a \in Seq(S), NEW b \in Seq(S)
    PROVE  /\ a \o b \in Seq(S) /\ Len(a \o b) = Len(a) + Len(b)
           /\ \A i \in 1 .. Len(a) : (a \o b)[i] = a[i]
           /\ \A i \in 1 .. Len(b) : (a \o b)[Len(a) + i] = b[i]
OBVIOUS

LEMMA ThreeBytes ==
    ASSUME NEW w \in Seq(Bytes), NEW i \in Nat \ {0}, i + 2 <= Len(w)
    PROVE  SubSeq(w, i, i + 2) = <<w[i], w[i + 1], w[i + 2]>>
<1>1. PICK h \in Nat : i = h + 1
  <2>1. i - 1 \in Nat /\ i = (i - 1) + 1
    OBVIOUS
  <2>. QED  BY <2>1
<1>2. i + 2 = h + 3 /\ i + 1 = h + 2 /\ h + 3 <= Len(w)
  BY <1>1
<1>3. SubSeq(w, i, i + 2) = Between(w, h, h + 3)
  BY <1>1, <1>2 DEF Between
<1>4. PICK x \in Bytes, y \in Bytes, z \in Bytes : x = w[h + 1] /\ y = w[h + 2] /\ z = w[h + 3]
  BY <1>2
<1>5. /\ Between(w, h, h + 3) \in Seq(Bytes) /\ Len(Between(w, h, h + 3)) = 3
      /\ \A d \in 1 .. 3 : Between(w, h, h + 3)[d] = w[h + d]
  <2>1. PICK f \in Nat : f = h + 3 /\ h <= f /\ f <= Len(w) /\ f - h = 3
    BY <1>2
  <2>2. /\ Between(w, h, f) \in Seq(Bytes) /\ Len(Between(w, h, f)) = f - h
        /\ \A d \in 1 .. f - h : Between(w, h, f)[d] = w[h + d]
    <3>1. w \in Seq(Bytes) /\ h <= f /\ f <= Len(w)
      BY <2>1
    <3>2. Between(w, h, f) \in Seq(Bytes) /\ Len(Between(w, h, f)) = f - h
      BY ONLY <3>1, h \in Nat, f \in Nat, Cut
    <3>3. \A d \in 1 .. f - h : Between(w, h, f)[d] = w[h + d]
      BY ONLY <3>1, h \in Nat, f \in Nat, SMTT(30) DEF Between
    <3>. QED  BY <3>2, <3>3
  <2>. QED  BY ONLY <2>1, <2>2
<1>6. <<x, y, z>> \in Seq(Bytes) /\ Len(<<x, y, z>>) = 3 /\ \A d \in 1 .. 3 : <<x, y, z>>[d] = w[h + d]
  BY <1>4
<1>7. \A d \in 1 .. 3 : Between(w, h, h + 3)[d] = <<x, y, z>>[d]
  BY ONLY <1>5, <1>6
<1>8. Between(w, h, h + 3) = <<x, y, z>>
  BY ONLY <1>5, <1>6, <1>7, SeqEqual
<1>. QED  BY <1>1, <1>2, <1>3, <1>4, <1>8

LEMMA NalAlike ==
    ASSUME NEW v \in Seq(Bytes), NEW w \in Seq(Bytes), NEW i \in Nat \ {0}, NEW k \in Nat \ {0},
           i + 5 <= Len(v), k + 5 <= Len(w), \A d \in 0 .. 5 : v[i + d] = w[k + d]
    PROVE  /\ NalAt(v, i) <=> NalAt(w, k)
           /\ PictureAt(v, i) <=> PictureAt(w, k)
           /\ BoundaryAt(v, i) <=> BoundaryAt(w, k)
<1>1. SubSeq(v, i, i + 2) = SubSeq(w, k, k + 2)
  <2>1. v[i] = w[k] /\ v[i + 1] = w[k + 1] /\ v[i + 2] = w[k + 2]
    <3>1. 0 \in 0 .. 5 /\ 1 \in 0 .. 5 /\ 2 \in 0 .. 5 /\ i + 0 = i /\ k + 0 = k
      OBVIOUS
    <3>. QED  BY <3>1
  <2>2. SubSeq(v, i, i + 2) = <<v[i], v[i + 1], v[i + 2]>>
    <3>1. i + 2 <= Len(v)
      OBVIOUS
    <3>. QED  BY <3>1, ThreeBytes
  <2>3. SubSeq(w, k, k + 2) = <<w[k], w[k + 1], w[k + 2]>>
    <3>1. k + 2 <= Len(w)
      OBVIOUS
    <3>. QED  BY <3>1, ThreeBytes
  <2>. QED  BY ONLY <2>1, <2>2, <2>3
<1>2. v[i + 3] = w[k + 3] /\ v[i + 4] = w[k + 4] /\ v[i + 5] = w[k + 5]
  OBVIOUS
<1>3. NalAt(v, i) <=> NalAt(w, k)
  BY ONLY <1>1, <1>2 DEF NalAt
<1>4. PictureAt(v, i) <=> PictureAt(w, k)
  BY ONLY <1>2, <1>3, Zenon DEF PictureAt, H265Type
<1>5. UnitAt(v, i) <=> UnitAt(w, k)
  BY ONLY <1>2, <1>3, Zenon DEF UnitAt, H265Type
<1>. QED  BY <1>3, <1>4, <1>5 DEF BoundaryAt

LEMMA NalBytes ==
    ASSUME NEW w \in Seq(Bytes), NEW i \in Nat \ {0}, i + 5 <= Len(w),
           NalAt(w, i) \/ PictureAt(w, i) \/ BoundaryAt(w, i)
    PROVE  /\ NalAt(w, i) /\ w[i] = 0 /\ w[i + 1] = 0 /\ w[i + 2] = 1
           /\ BoundaryAt(w, i) /\ w[i + 3] = 0 => w[i + 5] >= 128
<1>1. NalAt(w, i)
  BY DEF PictureAt, BoundaryAt, UnitAt
<1>2. SubSeq(w, i, i + 2) = Prefix
  BY <1>1 DEF NalAt
<1>3. /\ SubSeq(w, i, i + 2)[1] = w[i] /\ SubSeq(w, i, i + 2)[2] = w[i + 1] /\ SubSeq(w, i, i + 2)[3] = w[i + 2]
  OBVIOUS
<1>4. Prefix[1] = 0 /\ Prefix[2] = 0 /\ Prefix[3] = 1
  BY DEF Prefix
<1>5. ASSUME BoundaryAt(w, i), w[i + 3] = 0 PROVE w[i + 5] >= 128
  <2>1. H265Type(w, i) = 0
    BY <1>5 DEF H265Type
  <2>2. ~UnitAt(w, i)
    BY <2>1 DEF UnitAt
  <2>. QED  BY <1>5, <2>2 DEF BoundaryAt, PictureAt
<1>. QED  BY <1>1, <1>2, <1>3, <1>4, <1>5

LEMMA NalsFacts ==
    ASSUME NEW s \in Streams
    PROVE  /\ H265SplitStart.state \in Seq(Bytes) /\ Len(H265SplitStart.state) = 5
           /\ \A i \in 1 .. 5 : H265SplitStart.state[i] = 0
           /\ Nals(s) \in Seq(Bytes) /\ Len(Nals(s)) = Len(s.bytes) + 5
           /\ \A i \in 1 .. 5 : Nals(s)[i] = 0
           /\ \A i \in 1 .. Len(s.bytes) : Nals(s)[i + 5] = s.bytes[i]
<1> DEFINE z == H265SplitStart.state
           b == s.bytes
<1>1. b \in Seq(Bytes) /\ Len(b) \in Nat
  BY StreamFacts
<1>2. z \in Seq(Bytes) /\ Len(z) = 5 /\ \A i \in 1 .. 5 : z[i] = 0
  <2>1. z = [i \in 1 .. 5 |-> 0]
    BY DEF H265SplitStart
  <2>2. 0 \in Bytes
    BY DEF Bytes
  <2> HIDE DEF z
  <2>. QED  BY <2>1, <2>2
<1>3. Nals(s) = z \o b
  BY DEF Nals
<1> HIDE DEF z, b
<1>4. /\ z \o b \in Seq(Bytes) /\ Len(z \o b) = Len(z) + Len(b)
      /\ \A i \in 1 .. Len(z) : (z \o b)[i] = z[i]
      /\ \A i \in 1 .. Len(b) : (z \o b)[Len(z) + i] = b[i]
  <2>1. z \in Seq(Bytes) /\ b \in Seq(Bytes)
    BY <1>1, <1>2
  <2>. QED  BY ONLY <2>1, JoinedTwo
<1> DEFINE w == z \o b
<1>5. w = Nals(s)
  BY <1>3
<1> HIDE DEF w
<1>6. \A i \in 1 .. Len(b) : i + 5 = 5 + i
  BY <1>1
<1>7. /\ w \in Seq(Bytes) /\ Len(w) = Len(b) + 5 /\ (\A i \in 1 .. 5 : w[i] = 0)
      /\ \A i \in 1 .. Len(b) : w[i + 5] = b[i]
  BY <1>1, <1>2, <1>4, <1>6 DEF w
<1>. QED  BY <1>2, <1>5, <1>7 DEF z, b

NalPictures(s) == {i \in 1 .. Len(s.bytes) : PictureAt(Nals(s), i)}
NalBounds(s)   == {i \in 1 .. Len(s.bytes) : BoundaryAt(Nals(s), i)}

Seen6(s, j) == IF j = Len(s.places) THEN Len(s.bytes) + 1 ELSE s.places[j][2] + 6

H265Sought(s, j, v) ==
    /\ s.places[j][1] + 3 < v /\ v <= s.places[j][2]
    /\ \A i \in NalPictures(s) : i <= s.places[j][1] + 3 \/ v <= i
    /\ \A i \in NalBounds(s) : i <= v \/ Seen6(s, j) <= i

(* Where the pictures of a stream lie, and where their ends are seen.      *)
LEMMA H265Places ==
    ASSUME NEW s \in Streams, s.codec = "h265", NEW j \in 1 .. Len(s.places)
    PROVE  /\ PicturesLie(s) /\ Len(s.places) \in Nat \ {0}
           /\ s.bytes \in Seq(Bytes) /\ Len(s.bytes) \in Nat
           /\ s.places[j][1] \in Nat /\ s.places[j][2] \in Nat
           /\ s.places[j][1] < s.places[j][2] /\ s.places[j][2] <= Len(s.bytes)
           /\ s.places[1][1] = 0
           /\ Seen6(s, j) \in Nat /\ s.places[j][2] < Seen6(s, j)
           /\ Seen6(s, j) <= Len(s.bytes) =>
                 /\ Seen6(s, j) \in NalBounds(s) /\ j < Len(s.places) /\ j + 1 \in 1 .. Len(s.places)
                 /\ Seen6(s, j) = s.places[j][2] + 6 /\ s.places[j + 1][1] = s.places[j][2]
           /\ Len(s.bytes) < Seen6(s, j) => j = Len(s.places) /\ s.places[j][2] = Len(s.bytes)
           /\ \E v \in NalPictures(s) : H265Sought(s, j, v)
<1> DEFINE N == Len(s.bytes)
           m == Len(s.places)
           a == s.places[j][1]
           e == s.places[j][2]
           t == Seen6(s, j)
<1>1. PicturesLie(s) /\ Adjacent(s) /\ CutAtCodes(s, NalPictures(s), NalBounds(s), 6)
  <2>1. CutWell(s) /\ s.codec = "h265"
    BY StreamFacts
  <2>. QED  BY <2>1 DEF CutWell, H265Cut, NalPictures, NalBounds, Nals
<1>2. /\ m \in Nat \ {0} /\ N \in Nat \ {0} /\ DOMAIN s.places = 1 .. m
      /\ a \in Nat /\ e \in Nat /\ a < e /\ e <= N /\ s.bytes \in Seq(Bytes)
  BY <1>1, PlacesFacts, StreamFacts
<1>3. PICK v \in NalPictures(s) :
        /\ a + 3 < v /\ v <= e
        /\ \A i \in NalPictures(s) : i <= a + 3 \/ v <= i
        /\ IF j = m THEN \A i \in NalBounds(s) : i <= v
           ELSE e + 6 \in NalBounds(s) /\ \A i \in NalBounds(s) : i <= v \/ e + 6 <= i
  <2>1. j \in DOMAIN s.places
    BY <1>2
  <2>. QED  BY <1>1, <2>1 DEF CutAtCodes
<1>4. s.places[1][1] = 0 /\ s.places[m][2] = N /\ \A i \in 1 .. m - 1 : s.places[i][2] = s.places[i + 1][1]
  BY <1>1 DEF Adjacent
<1>5. t = IF j = m THEN N + 1 ELSE e + 6
  BY DEF Seen6
<1>6. v \in Int /\ NalBounds(s) \subseteq 1 .. N
  BY <1>3 DEF NalPictures, NalBounds
<1> HIDE DEF a, e, t, m, N
<1>7. t \in Nat /\ e < t
  BY <1>2, <1>5
<1>8. \A i \in NalBounds(s) : i <= v \/ t <= i
  BY <1>3, <1>5
<1>9. ASSUME t <= N
      PROVE  t \in NalBounds(s) /\ j < m /\ j + 1 \in 1 .. m /\ t = e + 6 /\ s.places[j + 1][1] = e
  <2>1. j # m
    BY <1>2, <1>5, <1>9
  <2>2. j < m /\ j \in 1 .. m - 1 /\ j + 1 \in 1 .. m
    BY <1>2, <2>1 DEF m
  <2>3. s.places[j + 1][1] = e
    BY <1>4, <2>2 DEF e
  <2>. QED  BY <1>3, <1>5, <2>1, <2>2, <2>3
<1>10. ASSUME N < t PROVE j = m /\ e = N
  <2>1. j # m => t <= N
    BY <1>3, <1>5, <1>6
  <2>2. j = m
    BY <1>2, <1>7, <1>10, <2>1
  <2>. QED  BY <1>4, <2>2 DEF e
<1>11. H265Sought(s, j, v)
  BY <1>3, <1>8 DEF H265Sought, a, e, t
<1>. QED  BY <1>1, <1>2, <1>3, <1>4, <1>7, <1>9, <1>10, <1>11 DEF a, e, t, m, N

(* With what all pictures but the first begin.                             *)
LEMMA H265Begin ==
    ASSUME NEW s \in Streams, s.codec = "h265", NEW j \in 1 .. Len(s.places), j # 1,
           NEW a, a = s.places[j][1]
    PROVE  /\ a \in Nat /\ a + 6 <= Len(s.bytes)
           /\ s.bytes[a + 1] = 0 /\ s.bytes[a + 2] = 0 /\ s.bytes[a + 3] = 1
           /\ s.bytes[a + 4] = 0 => s.bytes[a + 6] >= 128
<1>1. PICK i \in 1 .. Len(s.places) : j = i + 1 /\ i # Len(s.places)
  <2>1. Len(s.places) \in Nat
    BY H265Places
  <2>2. j - 1 \in 1 .. Len(s.places) /\ j = (j - 1) + 1 /\ j - 1 # Len(s.places)
    BY <2>1
  <2>. QED  BY <2>2
<1>2. /\ Seen6(s, i) \in NalBounds(s) /\ Seen6(s, i) = s.places[i][2] + 6 /\ s.places[i + 1][1] = s.places[i][2]
      /\ s.places[i][2] \in Nat /\ Len(s.bytes) \in Nat
  <2>1. Seen6(s, i) \in Nat /\ Len(s.bytes) \in Nat /\ s.places[i][2] \in Nat
    BY H265Places
  <2>2. Len(s.bytes) < Seen6(s, i) => i = Len(s.places)
    BY H265Places
  <2>3. Seen6(s, i) <= Len(s.bytes)
    BY <1>1, <2>1, <2>2
  <2>. QED  BY <2>1, <2>3, H265Places
<1>3. a \in Nat /\ a + 6 \in NalBounds(s)
  BY <1>1, <1>2
<1>4. a + 6 <= Len(s.bytes) /\ BoundaryAt(Nals(s), a + 6) /\ a + 6 \in Nat \ {0}
  BY <1>3 DEF NalBounds
<1>5. /\ Nals(s) \in Seq(Bytes) /\ Len(Nals(s)) = Len(s.bytes) + 5
      /\ \A d \in 1 .. Len(s.bytes) : Nals(s)[d + 5] = s.bytes[d]
  BY NalsFacts
<1>6. PICK k \in Nat \ {0} : k = a + 6 /\ k + 5 <= Len(Nals(s)) /\ BoundaryAt(Nals(s), k)
  BY <1>2, <1>4, <1>5
<1>7. /\ Nals(s)[k] = 0 /\ Nals(s)[k + 1] = 0 /\ Nals(s)[k + 2] = 1
      /\ Nals(s)[k + 3] = 0 => Nals(s)[k + 5] >= 128
  BY <1>5, <1>6, NalBytes
<1>8. /\ k = (a + 1) + 5 /\ k + 1 = (a + 2) + 5 /\ k + 2 = (a + 3) + 5 /\ k + 3 = (a + 4) + 5 /\ k + 5 = (a + 6) + 5
      /\ \A d \in 1 .. 6 : a + d \in 1 .. Len(s.bytes)
  <2>1. a \in Nat /\ k = a + 6 /\ a + 6 <= Len(s.bytes) /\ Len(s.bytes) \in Nat
    BY <1>2, <1>3, <1>4, <1>6
  <2>. QED  BY ONLY <2>1
<1>9. \A d \in 1 .. 6 : Nals(s)[(a + d) + 5] = s.bytes[a + d]
  BY <1>5, <1>8
<1>10. /\ Nals(s)[k] = s.bytes[a + 1] /\ Nals(s)[k + 1] = s.bytes[a + 2] /\ Nals(s)[k + 2] = s.bytes[a + 3]
       /\ Nals(s)[k + 3] = s.bytes[a + 4] /\ Nals(s)[k + 5] = s.bytes[a + 6]
  <2>1. 1 \in 1 .. 6 /\ 2 \in 1 .. 6 /\ 3 \in 1 .. 6 /\ 4 \in 1 .. 6 /\ 6 \in 1 .. 6
    OBVIOUS
  <2>. QED  BY ONLY <1>8, <1>9, <2>1
<1>. QED  BY <1>3, <1>4, <1>7, <1>10

ScannedIs(s, j, a) ==
    /\ Before(s, j) \in Seq(Bytes) /\ Len(Before(s, j)) = 5
    /\ a \in Nat /\ a <= Len(s.bytes)
    /\ Scanned(s, j) \in Seq(Bytes) /\ Len(Scanned(s, j)) = 5 + (Len(s.bytes) - a)
    /\ \A i \in 1 .. 5 : Scanned(s, j)[i] = Before(s, j)[i]
    /\ \A k \in 1 .. Len(s.bytes) - a : Scanned(s, j)[5 + k] = s.bytes[a + k]
    /\ j = 1 => a = 0 /\ Scanned(s, j) = Nals(s)
    /\ j # 1 => \A i \in 1 .. 5 : Scanned(s, j)[i] = s.bytes[(a + 1) + i]

LEMMA ScannedFacts ==
    ASSUME NEW s \in Streams, s.codec = "h265", NEW j \in 1 .. Len(s.places), NEW a, a = s.places[j][1]
    PROVE  ScannedIs(s, j, a)
<1> DEFINE N == Len(s.bytes)
           B == s.bytes
           f == Before(s, j)
           z == Between(B, a, N)
<1>1. B \in Seq(Bytes) /\ N \in Nat /\ a \in Nat /\ a <= N /\ (j = 1 => a = 0)
  <2>1. /\ B \in Seq(Bytes) /\ N \in Nat /\ a \in Nat /\ s.places[j][2] \in Nat
        /\ a < s.places[j][2] /\ s.places[j][2] <= N /\ s.places[1][1] = 0
    BY H265Places
  <2>. QED  BY <2>1
<1>2. f \in Seq(Bytes) /\ Len(f) = 5 /\ (j # 1 => \A i \in 1 .. 5 : f[i] = B[(a + 1) + i])
  <2>1. CASE j = 1
    BY <2>1, NalsFacts DEF Before
  <2>2. CASE j # 1
    <3>1. PICK g \in Nat, h \in Nat : g = a + 1 /\ h = a + 6 /\ g <= h /\ h <= Len(B) /\ h - g = 5
      BY <1>1, <2>2, H265Begin
    <3>2. f = Between(B, g, h)
      BY <2>2, <3>1 DEF Before
    <3>3. B \in Seq(Bytes) /\ g <= h /\ h <= Len(B)
      BY <1>1, <3>1
    <3>4. Between(B, g, h) \in Seq(Bytes) /\ Len(Between(B, g, h)) = h - g
      BY ONLY <3>3, g \in Nat, h \in Nat, SMTT(30) DEF Between
    <3>5. \A i \in 1 .. h - g : Between(B, g, h)[i] = B[g + i]
      BY ONLY <3>3, g \in Nat, h \in Nat, Cut
    <3>. QED  BY ONLY <3>1, <3>2, <3>4, <3>5
  <2>. QED  BY <2>1, <2>2
<1>3. z \in Seq(Bytes) /\ Len(z) = N - a /\ \A k \in 1 .. N - a : z[k] = B[a + k]
  <2>1. PICK h \in Nat : h = N /\ a <= h /\ h <= Len(B)
    BY <1>1
  <2>2. B \in Seq(Bytes) /\ a <= h /\ h <= Len(B) /\ a \in Nat
    BY <1>1, <2>1
  <2>3. Between(B, a, h) \in Seq(Bytes) /\ Len(Between(B, a, h)) = h - a
    BY ONLY <2>2, h \in Nat, Cut
  <2>4. \A i \in 1 .. h - a : Between(B, a, h)[i] = B[a + i]
    BY ONLY <2>2, h \in Nat, Cut
  <2>. QED  BY ONLY <2>1, <2>3, <2>4
<1>4. Scanned(s, j) = f \o z
  BY DEF Scanned
<1>5. j = 1 => Scanned(s, j) = Nals(s)
  <2>1. Between(B, 0, N) = B
    BY <1>1, CutAll
  <2>. QED  BY <1>1, <1>4, <2>1 DEF Before, Nals
<1> HIDE DEF N, B, f, z
<1>6. /\ f \o z \in Seq(Bytes) /\ Len(f \o z) = Len(f) + Len(z)
      /\ \A i \in 1 .. Len(f) : (f \o z)[i] = f[i]
      /\ \A i \in 1 .. Len(z) : (f \o z)[Len(f) + i] = z[i]
  <2>1. f \in Seq(Bytes) /\ z \in Seq(Bytes)
    BY <1>2, <1>3
  <2>. QED  BY ONLY <2>1, JoinedTwo
<1> DEFINE w == f \o z
<1> HIDE DEF w
<1>7. /\ w \in Seq(Bytes) /\ Len(w) = 5 + (N - a)
      /\ \A i \in 1 .. 5 : w[i] = f[i]
      /\ \A k \in 1 .. N - a : w[5 + k] = B[a + k]
  <2>1. /\ w \in Seq(Bytes) /\ Len(w) = Len(f) + Len(z)
        /\ \A i \in 1 .. Len(f) : w[i] = f[i]
        /\ \A i \in 1 .. Len(z) : w[Len(f) + i] = z[i]
    BY <1>6 DEF w
  <2>. QED  BY ONLY <1>2, <1>3, <2>1
<1>8. Scanned(s, j) = w
  BY <1>4 DEF w
<1>9. j # 1 => \A i \in 1 .. 5 : w[i] = B[(a + 1) + i]
  BY <1>2, <1>7
<1>10. f = Before(s, j) /\ N = Len(s.bytes) /\ B = s.bytes
  BY DEF f, N, B
<1>. QED  BY ONLY <1>1, <1>2, <1>5, <1>7, <1>8, <1>9, <1>10 DEF ScannedIs

(* What is scanned shows the same pictures as the whole stream.            *)
LEMMA ScannedAlike ==
    ASSUME NEW s \in Streams, s.codec = "h265", NEW j \in 1 .. Len(s.places), NEW a, a = s.places[j][1],
           NEW k \in Nat \ {0}, a + k <= Len(s.bytes)
    PROVE  /\ PictureAt(Scanned(s, j), k) <=> 3 < k /\ PictureAt(Nals(s), a + k)
           /\ BoundaryAt(Scanned(s, j), k) <=> 3 < k /\ BoundaryAt(Nals(s), a + k)
           /\ PictureAt(Scanned(s, j), k) /\ j # 1 => 6 <= k
<1>0. PICK v, w, B, N : v = Scanned(s, j) /\ w = Nals(s) /\ B = s.bytes /\ N = Len(s.bytes)
  OBVIOUS
<1>1. /\ v = Scanned(s, j) /\ w = Nals(s) /\ B = s.bytes /\ N = Len(B) /\ N \in Nat
      /\ v \in Seq(Bytes) /\ w \in Seq(Bytes)
      /\ a \in Nat /\ a <= N /\ Len(v) = 5 + (N - a) /\ Len(w) = N + 5
      /\ \A i \in 1 .. N - a : v[5 + i] = B[a + i]
      /\ \A i \in 1 .. N : w[i + 5] = B[i]
      /\ \A i \in 1 .. 5 : w[i] = 0
      /\ j = 1 => a = 0 /\ v = w
      /\ j # 1 => \A i \in 1 .. 5 : v[i] = B[(a + 1) + i]
  <2>1. s.bytes \in Seq(Bytes) /\ Len(s.bytes) \in Nat
    BY StreamFacts
  <2>2. ScannedIs(s, j, a)
    BY ScannedFacts
  <2>3. /\ Nals(s) \in Seq(Bytes) /\ Len(Nals(s)) = Len(s.bytes) + 5
        /\ \A i \in 1 .. 5 : Nals(s)[i] = 0
        /\ \A i \in 1 .. Len(s.bytes) : Nals(s)[i + 5] = s.bytes[i]
    BY NalsFacts
  <2>. QED  BY ONLY <1>0, <2>1, <2>2, <2>3 DEF ScannedIs
<1>2. SUFFICES /\ PictureAt(v, k) <=> 3 < k /\ PictureAt(w, a + k)
               /\ BoundaryAt(v, k) <=> 3 < k /\ BoundaryAt(w, a + k)
               /\ PictureAt(v, k) /\ j # 1 => 6 <= k
  BY <1>1
<1>3. k + 5 <= Len(v) /\ a + k \in Nat \ {0} /\ (a + k) + 5 <= Len(w) /\ a + k <= N /\ a \in Nat
  <2>1. a \in Nat /\ N \in Nat /\ a + k <= N /\ Len(v) = 5 + (N - a) /\ Len(w) = N + 5
    BY <1>1
  <2>. QED  BY ONLY <2>1, k \in Nat \ {0}
<1>4. CASE j = 1
  <2>1. v = w /\ a + k = k
    BY <1>1, <1>4
  <2>2. ASSUME k <= 3, NalAt(w, k) \/ PictureAt(w, k) \/ BoundaryAt(w, k) PROVE FALSE
    <3>1. w[k + 2] = 1
      <4>1. w \in Seq(Bytes) /\ k \in Nat \ {0} /\ k + 5 <= Len(w)
        BY <1>1, <1>3, <2>1
      <4>. QED  BY ONLY <2>2, <4>1, NalBytes
    <3>2. k + 2 \in 1 .. 5
      BY <2>2
    <3>. QED  BY <1>1, <3>1, <3>2
  <2>. QED  BY <1>4, <2>1, <2>2
<1>5. CASE j # 1 /\ k >= 6
  <2>1. ASSUME NEW d \in 0 .. 5 PROVE v[k + d] = w[(a + k) + d]
    <3>1. PICK i \in Nat \ {0} : i + 5 = k + d
      <4>1. (k + d) - 5 \in Nat \ {0} /\ ((k + d) - 5) + 5 = k + d
        BY <1>5
      <4>. QED  BY <4>1
    <3>2. i \in 1 .. N - a /\ a + i \in 1 .. N /\ 5 + i = k + d /\ (a + i) + 5 = (a + k) + d
      <4>1. N \in Nat
        BY <1>1
      <4>. QED  BY ONLY <1>3, <3>1, <4>1, k \in Nat \ {0}, d \in 0 .. 5, i \in Nat \ {0}
    <3>3. v[5 + i] = B[a + i]
      BY ONLY <1>1, <3>2
    <3>4. w[(a + i) + 5] = B[a + i]
      BY ONLY <1>1, <3>2
    <3>. QED  BY ONLY <3>2, <3>3, <3>4
  <2>2. /\ PictureAt(v, k) <=> PictureAt(w, a + k)
        /\ BoundaryAt(v, k) <=> BoundaryAt(w, a + k)
    <3>1. PICK h \in Nat \ {0} : h = a + k
      BY <1>3
    <3>2. \A d \in 0 .. 5 : v[k + d] = w[h + d]
      BY <2>1, <3>1
    <3>3. k + 5 <= Len(v) /\ h + 5 <= Len(w) /\ k \in Nat \ {0} /\ v \in Seq(Bytes) /\ w \in Seq(Bytes)
      BY <1>1, <1>3, <3>1
    <3>4. /\ PictureAt(v, k) <=> PictureAt(w, h)
          /\ BoundaryAt(v, k) <=> BoundaryAt(w, h)
      BY ONLY <3>2, <3>3, h \in Nat \ {0}, NalAlike
    <3>. QED  BY ONLY <3>1, <3>4
  <2>. QED  BY <1>5, <2>2
<1>6. CASE j # 1 /\ k < 6
  <2>1. /\ a + 6 <= N /\ B[a + 1] = 0 /\ B[a + 2] = 0 /\ B[a + 3] = 1
        /\ B[a + 4] = 0 => B[a + 6] >= 128
    <3>1. /\ a + 6 <= Len(s.bytes) /\ s.bytes[a + 1] = 0 /\ s.bytes[a + 2] = 0 /\ s.bytes[a + 3] = 1
          /\ s.bytes[a + 4] = 0 => s.bytes[a + 6] >= 128
      BY <1>6, H265Begin
    <3>. QED  BY ONLY <1>1, <3>1
  <2>2. /\ v[1] = 0 /\ v[2] = 1 /\ v[3] = B[a + 4] /\ v[5] = B[a + 6]
    <3>1. /\ (a + 1) + 1 = a + 2 /\ (a + 1) + 2 = a + 3 /\ (a + 1) + 3 = a + 4 /\ (a + 1) + 5 = a + 6
          /\ 1 \in 1 .. 5 /\ 2 \in 1 .. 5 /\ 3 \in 1 .. 5 /\ 5 \in 1 .. 5
      BY ONLY <1>3
    <3>2. \A i \in 1 .. 5 : v[i] = B[(a + 1) + i]
      BY ONLY <1>1, <1>6
    <3>. QED  BY ONLY <2>1, <3>1, <3>2
  <2>3. v[6] = 0 /\ v[7] = 0
    <3>1. 1 \in 1 .. N - a /\ 2 \in 1 .. N - a /\ 5 + 1 = 6 /\ 5 + 2 = 7
      <4>1. N \in Nat
        BY <1>1
      <4>. QED  BY ONLY <1>3, <2>1, <4>1
    <3>2. \A i \in 1 .. N - a : v[5 + i] = B[a + i]
      BY ONLY <1>1
    <3>. QED  BY ONLY <2>1, <3>1, <3>2
  <2>4. w[a + 6] = 0 /\ w[a + 7] = 0
    <3>1. a + 1 \in 1 .. N /\ a + 2 \in 1 .. N /\ (a + 1) + 5 = a + 6 /\ (a + 2) + 5 = a + 7
      <4>1. N \in Nat
        BY <1>1
      <4>. QED  BY ONLY <1>3, <2>1, <4>1
    <3>2. \A i \in 1 .. N : w[i + 5] = B[i]
      BY ONLY <1>1
    <3>. QED  BY ONLY <2>1, <3>1, <3>2
  <2>5. ASSUME PictureAt(v, k) \/ BoundaryAt(v, k) PROVE FALSE
    <3>1. /\ v[k] = 0 /\ v[k + 1] = 0 /\ v[k + 2] = 1
          /\ BoundaryAt(v, k) /\ v[k + 3] = 0 => v[k + 5] >= 128
      <4>1. v \in Seq(Bytes) /\ k \in Nat \ {0} /\ k + 5 <= Len(v)
        BY <1>1, <1>3
      <4>. QED  BY ONLY <2>5, <4>1, NalBytes
    <3>2. k = 1 \/ k = 2 \/ k = 3 \/ k = 4 \/ k = 5
      BY <1>6
    <3>3. ~(k = 1)
      BY <2>2, <3>1
    <3>4. ~(k = 2)
      BY <2>2, <3>1
    <3>5. ~(k = 3)
      <4>1. k = 3 => v[3] = 0 /\ v[5] = 1
        BY <3>1
      <4>. QED  BY <2>1, <2>2, <4>1
    <3>6. ~(k = 4)
      BY <2>3, <3>1
    <3>7. ~(k = 5)
      BY <2>3, <3>1
    <3>. QED  BY <3>2, <3>3, <3>4, <3>5, <3>6, <3>7
  <2>6. ASSUME 3 < k, PictureAt(w, a + k) \/ BoundaryAt(w, a + k) PROVE FALSE
    <3>1. PICK h \in Nat \ {0} : h = a + k
      BY <1>3
    <3>2. w[h + 2] = 1
      <4>1. w \in Seq(Bytes) /\ h \in Nat \ {0} /\ h + 5 <= Len(w) /\ (PictureAt(w, h) \/ BoundaryAt(w, h))
        BY <1>1, <1>3, <2>6, <3>1
      <4>. QED  BY ONLY <4>1, NalBytes
    <3>3. h + 2 = a + 6 \/ h + 2 = a + 7
      BY ONLY <1>3, <1>6, <2>6, <3>1, k \in Nat \ {0}
    <3>. QED  BY <2>4, <3>2, <3>3
  <2>. QED  BY <2>5, <2>6
<1>. QED  BY <1>4, <1>5, <1>6

ScannedPictures(s, j) == {k \in 1 .. Len(s.bytes) - s.places[j][1] : PictureAt(Scanned(s, j), k)}
ScannedBounds(s, j)   == {k \in 1 .. Len(s.bytes) - s.places[j][1] : BoundaryAt(Scanned(s, j), k)}

(* That a picture begins in what was read of the stream.                   *)
PictureRead(s, a, q) == \E i \in 1 .. q : a + 3 < i /\ PictureAt(Nals(s), i)

(* Places counted from a: u is where the picture is seen to begin, t where *)
(* its end is seen.                                                        *)
Seeks(s, j, a, u, t) ==
    /\ u \in ScannedPictures(s, j) /\ u \in Nat /\ t \in Nat /\ u < t /\ (j # 1 => 6 <= u)
    /\ t <= Len(s.bytes) - a => t \in ScannedBounds(s, j)
    /\ \A i \in ScannedPictures(s, j) : u <= i
    /\ \A i \in ScannedBounds(s, j) : i <= u \/ t <= i
    /\ \A q \in 0 .. Len(s.bytes) : PictureRead(s, a, q) <=> u <= q - a

LEMMA ScannedSought ==
    ASSUME NEW s \in Streams, s.codec = "h265", NEW j \in 1 .. Len(s.places), NEW a, a = s.places[j][1]
    PROVE  \E u \in Nat : Seeks(s, j, a, u, Seen6(s, j) - a)
<1> DEFINE N == Len(s.bytes)
           e == s.places[j][2]
           t == Seen6(s, j)
<1>1. /\ N \in Nat /\ a \in Nat /\ e \in Nat /\ a < e /\ e <= N /\ t \in Nat /\ e < t
      /\ t <= N => t \in NalBounds(s)
  BY H265Places
<1>2. PICK v \in NalPictures(s) : H265Sought(s, j, v)
  BY H265Places
<1>3. /\ a + 3 < v /\ v <= e /\ v \in Nat
      /\ \A i \in NalPictures(s) : i <= a + 3 \/ v <= i
      /\ \A i \in NalBounds(s) : i <= v \/ t <= i
  BY <1>2 DEF H265Sought, NalPictures
<1> HIDE DEF e, t
<1>4. PICK u \in Nat, f \in Nat : a + u = v /\ a + f = t /\ u = v - a /\ f = t - a
  <2>1. a \in Nat /\ v \in Nat /\ t \in Nat /\ a + 3 < v /\ v <= e /\ e < t /\ e \in Nat
    BY <1>1, <1>3
  <2>2. v - a \in Nat /\ t - a \in Nat /\ a + (v - a) = v /\ a + (t - a) = t
    BY ONLY <2>1
  <2>. QED  BY ONLY <2>2
<1>a. a \in Nat /\ N \in Nat /\ t \in Nat /\ v \in Nat /\ a + 3 < v /\ v <= N /\ v < t
  <2>1. a \in Nat /\ N \in Nat /\ e \in Nat /\ t \in Nat /\ v \in Nat /\ a + 3 < v /\ v <= e /\ e <= N /\ e < t
    BY <1>1, <1>3
  <2>. QED  BY ONLY <2>1
<1>5. 3 < u /\ u < f /\ u \in 1 .. N - a
  BY ONLY <1>4, <1>a
<1>6. ASSUME NEW k \in 1 .. N - a
      PROVE  /\ k \in ScannedPictures(s, j) <=> 3 < k /\ a + k \in NalPictures(s)
             /\ k \in ScannedBounds(s, j) <=> 3 < k /\ a + k \in NalBounds(s)
  <2>1. k \in Nat \ {0} /\ a + k <= N /\ a + k \in 1 .. N
    BY <1>1
  <2>2. /\ PictureAt(Scanned(s, j), k) <=> 3 < k /\ PictureAt(Nals(s), a + k)
        /\ BoundaryAt(Scanned(s, j), k) <=> 3 < k /\ BoundaryAt(Nals(s), a + k)
    BY <2>1, ScannedAlike
  <2>. QED  BY ONLY <2>1, <2>2, k \in 1 .. N - a, a = s.places[j][1]
       DEF ScannedPictures, ScannedBounds, NalPictures, NalBounds
<1>7. u \in ScannedPictures(s, j) /\ (j # 1 => 6 <= u)
  <2>1. u \in ScannedPictures(s, j)
    BY <1>2, <1>4, <1>5, <1>6
  <2>2. PictureAt(Scanned(s, j), u) /\ u \in Nat \ {0} /\ a + u <= N
    <3>1. PictureAt(Scanned(s, j), u)
      BY <2>1 DEF ScannedPictures
    <3>2. u \in Nat \ {0} /\ a + u <= N
      BY ONLY <1>a, <1>4, <1>5
    <3>. QED  BY <3>1, <3>2
  <2>. QED  BY <2>1, <2>2, ScannedAlike
<1>8. ASSUME f <= N - a PROVE f \in ScannedBounds(s, j)
  <2>1. t <= N /\ f \in 1 .. N - a /\ 3 < f
    BY ONLY <1>a, <1>4, <1>5, <1>8
  <2>. QED  BY <1>1, <1>4, <1>6, <2>1
<1>9. ASSUME NEW i \in ScannedPictures(s, j) PROVE u <= i
  <2>1. i \in 1 .. N - a
    BY DEF ScannedPictures
  <2>2. 3 < i /\ a + i \in NalPictures(s)
    BY <1>6, <2>1
  <2>3. a + i <= a + 3 \/ v <= a + i
    BY <1>3, <2>2
  <2>. QED  BY ONLY <1>a, <1>4, <2>1, <2>2, <2>3
<1>10. ASSUME NEW i \in ScannedBounds(s, j) PROVE i <= u \/ f <= i
  <2>1. i \in 1 .. N - a
    BY DEF ScannedBounds
  <2>2. a + i \in NalBounds(s)
    BY <1>6, <2>1
  <2>3. a + i <= v \/ t <= a + i
    BY <1>3, <2>2
  <2>. QED  BY ONLY <1>a, <1>4, <2>1, <2>3
<1>11. ASSUME NEW q \in 0 .. N PROVE PictureRead(s, a, q) <=> u <= q - a
  <2>1. ASSUME NEW i \in 1 .. q, a + 3 < i, PictureAt(Nals(s), i) PROVE v <= i
    <3>1. i \in NalPictures(s)
      BY <1>1, <2>1 DEF NalPictures
    <3>. QED  BY <1>1, <1>3, <2>1, <3>1
  <2>2. ASSUME v <= q PROVE PictureRead(s, a, q)
    <3>1. v \in 1 .. q /\ PictureAt(Nals(s), v)
      BY <1>2, <1>3, <2>2 DEF NalPictures
    <3>. QED  BY <1>3, <3>1 DEF PictureRead
  <2>3. PictureRead(s, a, q) <=> v <= q
    BY <1>1, <1>3, <2>1, <2>2 DEF PictureRead
  <2>4. v <= q <=> u <= q - a
    BY ONLY <1>a, <1>4, q \in 0 .. N
  <2>. QED  BY <2>3, <2>4
<1>12. Seeks(s, j, a, u, f)
  BY <1>5, <1>7, <1>8, <1>9, <1>10, <1>11 DEF Seeks
<1>. QED  BY <1>4, <1>12 DEF t

(* The bytes that a call scans: the last five that were read, and those of *)
(* the packet.                                                             *)
H265Windows(s, j, h, n, src, state, w) ==
    /\ w = Between(Scanned(s, j), h, (h + 5) + n) /\ (h + 5) + n <= Len(Scanned(s, j))
    /\ src \in Seq(Bytes) /\ Len(src) = n /\ state \in Seq(Bytes) /\ Len(state) = 5
    /\ w \in Seq(Bytes) /\ Len(w) = 5 + n
    /\ {i \in 1 .. n : PictureAt(w, i)} = InPart(ScannedPictures(s, j), h, n)
    /\ {i \in 1 .. n : BoundaryAt(w, i)} = InPart(ScannedBounds(s, j), h, n)

LEMMA H265Window ==
    ASSUME NEW s \in Streams, s.codec = "h265", NEW j \in 1 .. Len(s.places), NEW a, a = s.places[j][1],
           NEW q \in Nat, NEW n \in Nat, q + n <= Len(s.bytes), NEW h \in Nat, q = a + h,
           NEW src, src = Between(s.bytes, q, q + n),
           NEW state, state = Between(Scanned(s, j), h, h + 5), NEW w, w = state \o src
    PROVE  H265Windows(s, j, h, n, src, state, w)
<1>0. PICK v, B, N : v = Scanned(s, j) /\ B = s.bytes /\ N = Len(s.bytes)
  OBVIOUS
<1>1. /\ v \in Seq(Bytes) /\ B \in Seq(Bytes) /\ N \in Nat /\ N = Len(B) /\ a \in Nat
      /\ Len(v) = 5 + (N - a) /\ a <= N
  <2>1. ScannedIs(s, j, a) /\ s.bytes \in Seq(Bytes) /\ Len(s.bytes) \in Nat
    BY ScannedFacts, StreamFacts
  <2>. QED  BY ONLY <1>0, <2>1 DEF ScannedIs
<1>2. \A i \in 1 .. N - a : v[5 + i] = B[a + i]
  <2>1. ScannedIs(s, j, a)
    BY ScannedFacts
  <2>. QED  BY ONLY <1>0, <2>1 DEF ScannedIs
<1>3. PICK f \in Nat, g \in Nat, p \in Nat :
         /\ f = h + 5 /\ g = f + n /\ p = q + n /\ h <= f /\ f <= g /\ g <= Len(v) /\ p <= N /\ q <= p /\ f - h = 5
         /\ g - f = n /\ g - h = 5 + n /\ p - q = n /\ f <= Len(v)
  <2>1. q + n <= N
    BY <1>0
  <2>. QED  BY ONLY <1>1, <2>1, q = a + h, h \in Nat, n \in Nat, q \in Nat
<1>4. state = Between(v, h, f) /\ src = Between(B, q, p)
  BY <1>0, <1>3
<1>5. state \in Seq(Bytes) /\ Len(state) = 5
  <2>1. v \in Seq(Bytes) /\ h <= f /\ f <= Len(v)
    BY <1>1, <1>3
  <2>2. Between(v, h, f) \in Seq(Bytes) /\ Len(Between(v, h, f)) = f - h
    BY ONLY <2>1, h \in Nat, f \in Nat, Cut
  <2>. QED  BY ONLY <1>3, <1>4, <2>2
<1>6. src \in Seq(Bytes) /\ Len(src) = n /\ \A i \in 1 .. n : src[i] = B[q + i]
  <2>1. B \in Seq(Bytes) /\ q <= p /\ p <= Len(B)
    BY <1>1, <1>3
  <2>2. Between(B, q, p) \in Seq(Bytes) /\ Len(Between(B, q, p)) = p - q
    BY ONLY <2>1, q \in Nat, p \in Nat, Cut
  <2>3. \A i \in 1 .. p - q : Between(B, q, p)[i] = B[q + i]
    BY ONLY <2>1, q \in Nat, p \in Nat, Cut
  <2>. QED  BY ONLY <1>3, <1>4, <2>2, <2>3
<1>7. src = Between(v, f, g)
  <2>1. v \in Seq(Bytes) /\ f <= g /\ g <= Len(v)
    BY <1>1, <1>3
  <2>2. Between(v, f, g) \in Seq(Bytes) /\ Len(Between(v, f, g)) = g - f
    BY ONLY <2>1, f \in Nat, g \in Nat, Cut
  <2>3. \A i \in 1 .. g - f : Between(v, f, g)[i] = v[f + i]
    BY ONLY <2>1, f \in Nat, g \in Nat, Cut
  <2>4. ASSUME NEW i \in 1 .. n PROVE src[i] = Between(v, f, g)[i]
    <3>1. h + i \in 1 .. N - a /\ 5 + (h + i) = f + i /\ a + (h + i) = q + i
      BY ONLY <1>1, <1>3, q = a + h, h \in Nat, n \in Nat, q \in Nat, i \in 1 .. n
    <3>2. v[5 + (h + i)] = B[a + (h + i)]
      BY ONLY <1>2, <3>1
    <3>3. src[i] = B[q + i] /\ Between(v, f, g)[i] = v[f + i]
      BY <1>3, <1>6, <2>3
    <3>. QED  BY ONLY <3>1, <3>2, <3>3
  <2>. QED  BY ONLY <1>3, <1>6, <2>2, <2>4, SeqEqual
<1>8. w = Between(v, h, g)
  <2>1. v \in Seq(Bytes) /\ h <= f /\ f <= g /\ g <= Len(v) /\ w = state \o src
    BY <1>1, <1>3
  <2>2. Between(v, h, f) \o Between(v, f, g) = Between(v, h, g)
    BY ONLY <2>1, h \in Nat, f \in Nat, g \in Nat, CutsJoin
  <2>. QED  BY ONLY <1>4, <1>7, <2>1, <2>2
<1>9. w \in Seq(Bytes) /\ Len(w) = 5 + n /\ \A i \in 1 .. 5 + n : w[i] = v[h + i]
  <2>1. v \in Seq(Bytes) /\ h <= g /\ g <= Len(v)
    BY <1>1, <1>3, SMTT(30)
  <2>2. Between(v, h, g) \in Seq(Bytes) /\ Len(Between(v, h, g)) = g - h
    BY ONLY <2>1, h \in Nat, g \in Nat, Cut
  <2>3. \A i \in 1 .. g - h : Between(v, h, g)[i] = v[h + i]
    BY ONLY <2>1, h \in Nat, g \in Nat, Cut
  <2>. QED  BY ONLY <1>3, <1>8, <2>2, <2>3
<1>10. ASSUME NEW i \in 1 .. n
       PROVE  /\ PictureAt(w, i) <=> PictureAt(v, h + i)
              /\ BoundaryAt(w, i) <=> BoundaryAt(v, h + i)
              /\ h + i \in 1 .. N - a
  <2>1. PICK k \in Nat \ {0} : k = h + i /\ k + 5 <= Len(v) /\ i + 5 <= 5 + n /\ i \in Nat \ {0} /\ k \in 1 .. N - a
    BY ONLY <1>1, <1>3, h \in Nat, n \in Nat, i \in 1 .. n
  <2>2. \A d \in 0 .. 5 : w[i + d] = v[k + d]
    <3>1. \A d \in 0 .. 5 : i + d \in 1 .. 5 + n /\ h + (i + d) = k + d
      BY ONLY <2>1, h \in Nat, n \in Nat, i \in 1 .. n
    <3>2. \A d \in 1 .. 5 + n : w[d] = v[h + d]
      BY <1>9
    <3>. QED  BY ONLY <3>1, <3>2
  <2>3. w \in Seq(Bytes) /\ v \in Seq(Bytes) /\ i \in Nat \ {0} /\ i + 5 <= Len(w) /\ k + 5 <= Len(v)
    BY <1>1, <1>9, <2>1
  <2>4. /\ PictureAt(w, i) <=> PictureAt(v, k)
        /\ BoundaryAt(w, i) <=> BoundaryAt(v, k)
    BY ONLY <2>2, <2>3, k \in Nat \ {0}, NalAlike
  <2>. QED  BY ONLY <2>1, <2>4
<1>11. /\ {i \in 1 .. n : PictureAt(w, i)} = InPart(ScannedPictures(s, j), h, n)
       /\ {i \in 1 .. n : BoundaryAt(w, i)} = InPart(ScannedBounds(s, j), h, n)
  <2>1. \A k \in 1 .. N - a : k \in ScannedPictures(s, j) <=> PictureAt(v, k)
    BY ONLY <1>0, a = s.places[j][1], Zenon DEF ScannedPictures
  <2>2. \A k \in 1 .. N - a : k \in ScannedBounds(s, j) <=> BoundaryAt(v, k)
    BY ONLY <1>0, a = s.places[j][1], Zenon DEF ScannedBounds
  <2>3. \A i \in 1 .. n : PictureAt(w, i) <=> h + i \in ScannedPictures(s, j)
    BY ONLY <1>10, <2>1
  <2>4. \A i \in 1 .. n : BoundaryAt(w, i) <=> h + i \in ScannedBounds(s, j)
    BY ONLY <1>10, <2>2
  <2>. QED  BY ONLY <2>3, <2>4, Zenon DEF InPart
<1>. QED  BY ONLY <1>0, <1>3, <1>5, <1>6, <1>8, <1>9, <1>11 DEF H265Windows

H265Context ==
    [buffer : Seq(Bytes), state : Seq(Bytes), found : BOOLEAN, over : Seq(Bytes), eos : BOOLEAN]

H265Of(buffer, state, found, over, eos) ==
    [buffer |-> buffer, state |-> state, found |-> found, over |-> over, eos |-> eos]

H265Goes(c, src, w, from, n, x) ==
    x = [ctx |-> H265Of(Gathered(c) \o src, LastBytes(w, 5), from <= n, <<>>, c.eos), pos |-> n, data |-> <<>>]

H265Cuts(c, src, w, to, over, x) ==
    x = [ctx |-> H265Of(<<>>, LastBytes(SubSeq(w, 1, 5 + to) \o over, 5), FALSE, over, c.eos),
         pos |-> IF to - 6 < 0 THEN 0 ELSE to - 6,
         data |-> IF to - 6 < 0 THEN SubSeq(Gathered(c), 1, Len(Gathered(c)) + (to - 6))
                  ELSE Gathered(c) \o SubSeq(src, 1, to - 6)]

H265Over(c, to) == IF to - 6 < 0 THEN LastBytes(Gathered(c), -(to - 6)) ELSE <<>>

LEMMA H265SplitIs ==
    ASSUME NEW c \in H265Context, NEW src, NEW n, n = Len(src), NEW w, w = c.state \o src,
           NEW scan, scan = Scan({i \in 1 .. n : PictureAt(w, i)}, {i \in 1 .. n : BoundaryAt(w, i)}, c.found, n),
           NEW x, x = H265Split(c, src)
    PROVE  IF scan.to > n THEN H265Goes(c, src, w, scan.from, n, x)
           ELSE H265Cuts(c, src, w, scan.to, H265Over(c, scan.to), x)
<1>1. c = H265Of(c.buffer, c.state, c.found, c.over, c.eos)
  BY DEF H265Context, H265Of
<1>2. \A b, st, fo, ov : [c EXCEPT !.buffer = b, !.over = ov, !.found = fo, !.state = st] = H265Of(b, st, fo, ov, c.eos)
  <2> SUFFICES ASSUME NEW b, NEW st, NEW fo, NEW ov
               PROVE  [c EXCEPT !.buffer = b, !.over = ov, !.found = fo, !.state = st] = H265Of(b, st, fo, ov, c.eos)
    OBVIOUS
  <2>1. PICK b0, s0, f0, o0, e0 : c = H265Of(b0, s0, f0, o0, e0) /\ e0 = c.eos
    BY <1>1
  <2>2. PICK d : d = [c EXCEPT !.buffer = b]
    OBVIOUS
  <2>3. d = H265Of(b, s0, f0, o0, e0)
    BY ONLY <2>1, <2>2 DEF H265Of
  <2>4. PICK e : e = [d EXCEPT !.over = ov]
    OBVIOUS
  <2>5. e = H265Of(b, s0, f0, ov, e0)
    BY ONLY <2>3, <2>4 DEF H265Of
  <2>6. PICK f : f = [e EXCEPT !.found = fo]
    OBVIOUS
  <2>7. f = H265Of(b, s0, fo, ov, e0)
    BY ONLY <2>5, <2>6 DEF H265Of
  <2>8. [f EXCEPT !.state = st] = H265Of(b, st, fo, ov, e0)
    BY ONLY <2>7 DEF H265Of
  <2>. QED  BY ONLY <2>1, <2>2, <2>4, <2>6, <2>8
<1>3. CASE scan.to > n
  <2>1. x = [ctx |-> [c EXCEPT !.buffer = Gathered(c) \o src, !.over = <<>>, !.found = scan.from <= n,
                               !.state = LastBytes(w, 5)],
             pos |-> n, data |-> <<>>]
    BY <1>3, Zenon DEF H265Split
  <2>2. PICK b, st, fo, ov : b = Gathered(c) \o src /\ st = LastBytes(w, 5) /\ fo = (scan.from <= n) /\ ov = <<>>
    OBVIOUS
  <2>3. x = [ctx |-> [c EXCEPT !.buffer = b, !.over = ov, !.found = fo, !.state = st], pos |-> n, data |-> <<>>]
    BY ONLY <2>1, <2>2, Zenon
  <2>4. x = [ctx |-> H265Of(b, st, fo, ov, c.eos), pos |-> n, data |-> <<>>]
    BY ONLY <1>2, <2>3, Zenon
  <2>5. H265Goes(c, src, w, scan.from, n, x)
    BY ONLY <2>2, <2>4, Zenon DEF H265Goes
  <2>. QED  BY ONLY <1>3, <2>5
<1>4. CASE ~(scan.to > n)
  <2>1. PICK to : to = scan.to
    OBVIOUS
  <2>2. x = [ctx |-> [c EXCEPT !.buffer = <<>>, !.over = H265Over(c, to), !.found = FALSE,
                               !.state = LastBytes(SubSeq(w, 1, 5 + to) \o H265Over(c, to), 5)],
             pos |-> IF to - 6 < 0 THEN 0 ELSE to - 6,
             data |-> IF to - 6 < 0 THEN SubSeq(Gathered(c), 1, Len(Gathered(c)) + (to - 6))
                      ELSE Gathered(c) \o SubSeq(src, 1, to - 6)]
    BY <1>4, <2>1, Zenon DEF H265Split, H265Over
  <2>5. PICK b, st, fo, ov, pos, data :
           /\ b = <<>> /\ ov = H265Over(c, to) /\ fo = FALSE
           /\ st = LastBytes(SubSeq(w, 1, 5 + to) \o H265Over(c, to), 5)
           /\ pos = IF to - 6 < 0 THEN 0 ELSE to - 6
           /\ data = IF to - 6 < 0 THEN SubSeq(Gathered(c), 1, Len(Gathered(c)) + (to - 6))
                     ELSE Gathered(c) \o SubSeq(src, 1, to - 6)
    OBVIOUS
  <2>6. x = [ctx |-> [c EXCEPT !.buffer = b, !.over = ov, !.found = fo, !.state = st], pos |-> pos, data |-> data]
    BY ONLY <2>2, <2>5, Zenon
  <2>7. x = [ctx |-> H265Of(b, st, fo, ov, c.eos), pos |-> pos, data |-> data]
    BY ONLY <1>2, <2>6, Zenon
  <2>3. H265Cuts(c, src, w, to, H265Over(c, to), x)
    BY ONLY <2>5, <2>7, Zenon DEF H265Cuts
  <2>. QED  BY <1>4, <2>1, <2>3
<1>. QED  BY <1>3, <1>4

(* While picture j + 1 is gathered.                                        *)
Collecting(s, q, c, j) ==
    /\ j \in 0 .. Len(s.places) - 1
    /\ s.places[j + 1][1] <= q /\ q <= Len(s.bytes) /\ q < Seen6(s, j + 1)
    /\ Gathered(c) = Between(s.bytes, s.places[j + 1][1], q)
    /\ c.state = Between(Scanned(s, j + 1), q - s.places[j + 1][1], (q - s.places[j + 1][1]) + 5)
    /\ c.found <=> PictureRead(s, s.places[j + 1][1], q)

(* What a split comes to: the picture is not over, or it is.               *)
H265GoesOn(s, q, n, j, x) ==
    x.pos = n /\ x.data = <<>> /\ x.ctx.over = <<>> /\ Collecting(s, q + n, x.ctx, j)

H265IsOver(s, q, n, j, x) ==
    /\ x.pos \in 0 .. n /\ x.data = s.pictures[j + 1] /\ j + 1 < Len(s.places)
    /\ x.ctx.over = <<>> \/ x.pos < n
    /\ Collecting(s, q + x.pos, x.ctx, j + 1)

H265Steps(s, q, n, c, j, x) ==
    /\ x.ctx \in H265Context /\ x.ctx.eos = c.eos
    /\ H265GoesOn(s, q, n, j, x) \/ H265IsOver(s, q, n, j, x)

LEMMA LastFive ==
    ASSUME NEW S, NEW v \in Seq(S), NEW b \in Nat, NEW d \in Nat, b + 5 <= d, d <= Len(v),
           NEW z, z = Between(v, b, d), NEW h \in Nat, h + 5 = d
    PROVE  LastBytes(z, 5) = Between(v, h, h + 5)
<1>1. z \in Seq(S) /\ Len(z) = d - b
  <2>1. v \in Seq(S) /\ b <= d /\ d <= Len(v)
    OBVIOUS
  <2>2. Between(v, b, d) \in Seq(S) /\ Len(Between(v, b, d)) = d - b
    BY ONLY <2>1, b \in Nat, d \in Nat, Cut
  <2>. QED  BY <2>2
<1>2. PICK k \in Nat, l \in Nat : k = (d - b) - 5 /\ l = d - b /\ k <= l /\ b + k = h /\ b + l = d /\ k + 1 = (l - 5) + 1
  OBVIOUS
<1>3. LastBytes(z, 5) = Between(z, k, l)
  <2>1. Len(z) = l /\ (l - 5) + 1 = k + 1
    BY <1>1, <1>2
  <2>. QED  BY ONLY <2>1 DEF LastBytes, Between
<1>4. Between(Between(v, b, d), k, l) = Between(v, b + k, b + l)
  <2>1. v \in Seq(S) /\ b <= d /\ d <= Len(v) /\ k <= l /\ l <= d - b
    BY <1>2
  <2>. QED  BY ONLY <2>1, b \in Nat, d \in Nat, k \in Nat, l \in Nat, CutOfCut
<1>. QED  BY <1>2, <1>3, <1>4

LEMMA H265Many ==
    ASSUME NEW s \in Streams, s.codec = "h265"
    PROVE  PicturesLie(s) /\ Len(s.places) \in Nat \ {0} /\ Len(s.pictures) = Len(s.places)
<1>1. PicturesLie(s)
  <2>1. CutWell(s) /\ s.codec = "h265"
    BY StreamFacts
  <2>. QED  BY <2>1 DEF CutWell
<1>. QED  BY <1>1, PlacesFacts

LEMMA H265ContextFacts ==
    ASSUME NEW c \in H265Context
    PROVE  /\ c.buffer \in Seq(Bytes) /\ c.state \in Seq(Bytes) /\ c.found \in BOOLEAN
           /\ c.over \in Seq(Bytes) /\ c.eos \in BOOLEAN /\ Gathered(c) \in Seq(Bytes)
BY DEF H265Context, Gathered

H265Made(x, b, st, fo, ov, e, pos, data) ==
    /\ x.ctx \in H265Context /\ x.pos = pos /\ x.data = data
    /\ x.ctx.state = st /\ x.ctx.found = fo /\ x.ctx.over = ov /\ x.ctx.eos = e
    /\ Gathered(x.ctx) = b \o ov

LEMMA H265OfIs ==
    ASSUME NEW b \in Seq(Bytes), NEW st \in Seq(Bytes), NEW fo \in BOOLEAN, NEW ov \in Seq(Bytes),
           NEW e \in BOOLEAN, NEW pos, NEW data, NEW x,
           x = [ctx |-> H265Of(b, st, fo, ov, e), pos |-> pos, data |-> data]
    PROVE  H265Made(x, b, st, fo, ov, e, pos, data)
BY DEF H265Of, H265Context, Gathered, H265Made

LEMMA H265GoesStep ==
    ASSUME NEW s \in Streams, s.codec = "h265", NEW c \in H265Context, NEW q \in Nat, NEW n \in Nat,
           q + n <= Len(s.bytes), NEW src, src = Between(s.bytes, q, q + n), NEW j, Collecting(s, q, c, j),
           NEW a \in Nat, a = s.places[j + 1][1], NEW h \in Nat, q = a + h, NEW w, w = c.state \o src,
           NEW from, NEW x, H265Goes(c, src, w, from, n, x),
           from <= n <=> PictureRead(s, a, q + n), q + n < Seen6(s, j + 1)
    PROVE  H265Steps(s, q, n, c, j, x)
<1>1. PICK l \in 1 .. Len(s.places) : l = j + 1 /\ j \in 0 .. Len(s.places) - 1
  <2>1. j \in 0 .. Len(s.places) - 1 /\ Len(s.places) \in Nat \ {0}
    BY H265Many DEF Collecting
  <2>. QED  BY ONLY <2>1
<1>2. PICK g, v, B : /\ g \in Nat /\ g = q + n /\ v = Scanned(s, l) /\ B = s.bytes /\ q <= g /\ g <= Len(B) /\ a <= q
                     /\ g - a = h + n /\ g = a + (h + n)
  <2>1. q + n \in Nat /\ q <= q + n /\ a <= q /\ (q + n) - a = h + n /\ q + n = a + (h + n)
    BY ONLY q \in Nat, n \in Nat, a \in Nat, h \in Nat, q = a + h
  <2>. QED  BY <2>1
<1>3. B \in Seq(Bytes) /\ v \in Seq(Bytes)
  <2>1. s.bytes \in Seq(Bytes) /\ ScannedIs(s, l, a)
    BY <1>1, StreamFacts, ScannedFacts
  <2>. QED  BY ONLY <1>2, <2>1 DEF ScannedIs
<1>4. Gathered(c) = Between(B, a, q) /\ c.state = Between(v, h, h + 5)
  <2>1. q - a = h
    BY SMTT(30)
  <2>. QED  BY <1>1, <1>2, <2>1 DEF Collecting
<1>5. /\ w = Between(v, h, (h + 5) + n) /\ (h + 5) + n <= Len(v)
      /\ src \in Seq(Bytes) /\ w \in Seq(Bytes) /\ Len(w) = 5 + n
  <2>1. /\ q + n <= Len(s.bytes) /\ q = a + h /\ src = Between(s.bytes, q, q + n) /\ a = s.places[l][1]
        /\ c.state = Between(Scanned(s, l), h, h + 5) /\ w = c.state \o src
        /\ s \in Streams /\ s.codec = "h265"
    BY <1>1, <1>2, <1>4
  <2>2. H265Windows(s, l, h, n, src, c.state, w)
    BY ONLY <2>1, q \in Nat, n \in Nat, h \in Nat, l \in 1 .. Len(s.places), H265Window
  <2>. QED  BY ONLY <1>2, <2>2 DEF H265Windows
<1>6. Gathered(c) \o src = Between(B, a, g)
  <2>1. B \in Seq(Bytes) /\ g \in Nat /\ a <= q /\ q <= g /\ g <= Len(B)
    BY <1>2, <1>3
  <2>2. Between(B, a, q) \o Between(B, q, g) = Between(B, a, g)
    BY ONLY <2>1, a \in Nat, q \in Nat, CutsJoin
  <2>. QED  BY <1>2, <1>4, <2>2
<1>7. LastBytes(w, 5) = Between(v, h + n, (h + n) + 5)
  <2>1. PICK d \in Nat, k \in Nat : d = (h + 5) + n /\ k = h + n /\ k + 5 = d /\ h + 5 <= d
    BY ONLY h \in Nat, n \in Nat
  <2>2. v \in Seq(Bytes) /\ d <= Len(v) /\ w = Between(v, h, d)
    BY <1>3, <1>5, <2>1
  <2>3. LastBytes(w, 5) = Between(v, k, k + 5)
    BY ONLY <2>1, <2>2, h \in Nat, d \in Nat, k \in Nat, LastFive
  <2>. QED  BY ONLY <2>1, <2>3
<1>8. PICK b, st, fo, ov : b = Gathered(c) \o src /\ st = LastBytes(w, 5) /\ fo = (from <= n) /\ ov = <<>>
  OBVIOUS
<1>9. /\ b \in Seq(Bytes) /\ st \in Seq(Bytes) /\ fo \in BOOLEAN /\ ov \in Seq(Bytes) /\ b \o ov = b
  <2>1. b \in Seq(Bytes)
    BY <1>5, <1>8, H265ContextFacts, SMTT(30)
  <2>2. st \in Seq(Bytes)
    <3>1. PICK f \in Nat, k \in Nat : f = (h + n) + 5 /\ k = h + n /\ k <= f /\ f = (h + 5) + n
      BY ONLY h \in Nat, n \in Nat
    <3>2. v \in Seq(Bytes) /\ k <= f /\ f <= Len(v)
      BY <1>3, <1>5, <3>1
    <3>3. Between(v, k, f) \in Seq(Bytes)
      BY ONLY <3>2, k \in Nat, f \in Nat, Cut
    <3>. QED  BY <1>7, <1>8, <3>1, <3>3
  <2>. QED  BY <1>8, <2>1, <2>2, SMTT(30)
<1>10. /\ x.ctx \in H265Context /\ x.pos = n /\ x.data = <<>>
       /\ x.ctx.state = st /\ x.ctx.found = fo /\ x.ctx.over = ov /\ x.ctx.eos = c.eos
       /\ Gathered(x.ctx) = b
  <2>1. x = [ctx |-> H265Of(b, st, fo, ov, c.eos), pos |-> n, data |-> ov]
    BY ONLY <1>8, H265Goes(c, src, w, from, n, x), Zenon DEF H265Goes
  <2>2. c.eos \in BOOLEAN
    BY H265ContextFacts
  <2>3. H265Made(x, b, st, fo, ov, c.eos, n, ov)
    BY ONLY <1>9, <2>1, <2>2, H265OfIs
  <2>. QED  BY ONLY <1>8, <1>9, <2>3 DEF H265Made
<1>11. x.ctx.found <=> PictureRead(s, a, g)
  BY <1>2, <1>8, <1>10
<1>12. Collecting(s, g, x.ctx, j)
  <2>1. g - a = h + n /\ a <= g /\ g <= Len(s.bytes) /\ g < Seen6(s, j + 1)
    BY <1>2, SMTT(30)
  <2>2. x.ctx.state = Between(Scanned(s, j + 1), g - a, (g - a) + 5)
    BY ONLY <1>1, <1>2, <1>7, <1>8, <1>10
  <2>. QED  BY ONLY <1>1, <1>2, <1>6, <1>8, <1>10, <1>11, <2>1, <2>2, a = s.places[j + 1][1] DEF Collecting
<1>13. H265GoesOn(s, q, n, j, x)
  BY <1>2, <1>8, <1>10, <1>12 DEF H265GoesOn
<1>. QED  BY ONLY <1>10, <1>13 DEF H265Steps

(* The bytes of a picture that is over, and those of the next that were    *)
(* read: up to q, or up to its begin at e.                                 *)
OverParts(B, a, e, q, n, to, read, src) ==
    \E pos \in 0 .. n :
       /\ pos = IF to - 6 < 0 THEN 0 ELSE to - 6
       /\ e <= q + pos /\ q + pos <= e + 5
       /\ (IF to - 6 < 0 THEN SubSeq(read, 1, Len(read) + (to - 6)) ELSE read \o SubSeq(src, 1, to - 6)) = Between(B, a, e)
       /\ (IF to - 6 < 0 THEN LastBytes(read, -(to - 6)) ELSE <<>>) = Between(B, e, q + pos)
       /\ e = q + pos \/ pos < n

LEMMA OverPartsAre ==
    ASSUME NEW B \in Seq(Bytes), NEW a \in Nat, NEW e \in Nat, NEW q \in Nat, NEW n \in Nat, NEW to \in Nat \ {0},
           a < e, a <= q, q + to = e + 6, to <= n, q + n <= Len(B),
           NEW read, read = Between(B, a, q), NEW src, src = Between(B, q, q + n)
    PROVE  OverParts(B, a, e, q, n, to, read, src)
<1>1. PICK g \in Nat : g = q + n /\ q <= g /\ g <= Len(B) /\ g - q = n
  BY ONLY q \in Nat, n \in Nat, q + n <= Len(B)
<1>2. read \in Seq(Bytes) /\ Len(read) = q - a
  <2>1. B \in Seq(Bytes) /\ a <= q /\ q <= Len(B)
    BY <1>1
  <2>2. Between(B, a, q) \in Seq(Bytes) /\ Len(Between(B, a, q)) = q - a
    BY ONLY <2>1, a \in Nat, q \in Nat, Cut
  <2>. QED  BY <2>2
<1>3. CASE to < 6
  <2>1. PICK k \in Nat, d \in Nat : /\ k = e - a /\ d = q - a /\ k <= d /\ d - k = -(to - 6) /\ d + (to - 6) = k
                                    /\ a + k = e /\ a + d = q /\ (d - (-(to - 6))) + 1 = k + 1 /\ to - 6 < 0
                                    /\ q <= e + 5 /\ e < q /\ 0 < n
    <3>1. e - a \in Nat /\ q - a \in Nat
      BY ONLY <1>3, a \in Nat, e \in Nat, q \in Nat, to \in Nat \ {0}, a < e, a <= q
    <3>. QED  BY ONLY <1>3, <3>1, a \in Nat, e \in Nat, q \in Nat, n \in Nat, to \in Nat \ {0}, a < e, a <= q, q + to = e + 6, to <= n
  <2>2. Between(Between(B, a, q), 0, k) = Between(B, a + 0, a + k) /\ Between(Between(B, a, q), k, d) = Between(B, a + k, a + d)
    <3>1. B \in Seq(Bytes) /\ a <= q /\ q <= Len(B) /\ 0 <= k /\ k <= q - a /\ k <= d /\ d <= q - a /\ 0 \in Nat
      BY ONLY <1>1, <2>1, B \in Seq(Bytes), a <= q, k \in Nat, d \in Nat, q \in Nat
    <3>2. Between(Between(B, a, q), 0, k) = Between(B, a + 0, a + k)
      BY ONLY <3>1, a \in Nat, q \in Nat, k \in Nat, CutOfCut
    <3>3. Between(Between(B, a, q), k, d) = Between(B, a + k, a + d)
      BY ONLY <3>1, a \in Nat, q \in Nat, k \in Nat, d \in Nat, CutOfCut
    <3>. QED  BY <3>2, <3>3
  <2>3. SubSeq(read, 1, Len(read) + (to - 6)) = Between(B, a, e)
    <3>1. Len(read) + (to - 6) = k /\ a + 0 = a
      BY ONLY <1>2, <2>1, a \in Nat
    <3>2. SubSeq(read, 1, k) = Between(read, 0, k)
      BY DEF Between
    <3>. QED  BY ONLY <2>1, <2>2, <3>1, <3>2, read = Between(B, a, q)
  <2>4. LastBytes(read, -(to - 6)) = Between(B, e, q)
    <3>1. (Len(read) - (-(to - 6))) + 1 = k + 1 /\ Len(read) = d
      BY ONLY <1>2, <2>1
    <3>2. LastBytes(read, -(to - 6)) = Between(read, k, d)
      BY ONLY <3>1 DEF LastBytes, Between
    <3>. QED  BY ONLY <2>1, <2>2, <3>2, read = Between(B, a, q)
  <2>5. PICK pos \in 0 .. n : pos = 0 /\ q + pos = q
    BY ONLY n \in Nat, q \in Nat
  <2>6. e <= q + pos /\ q + pos <= e + 5 /\ pos < n /\ pos = (IF to - 6 < 0 THEN 0 ELSE to - 6)
    BY ONLY <2>1, <2>5, q \in Nat, e \in Nat
  <2>. QED  BY ONLY <2>1, <2>3, <2>4, <2>5, <2>6 DEF OverParts
<1>4. CASE ~(to < 6)
  <2>1. PICK pos \in 0 .. n : pos = to - 6 /\ q + pos = e /\ ~(to - 6 < 0) /\ q <= e /\ e <= g /\ e <= Len(B) /\ pos <= g - q
    BY ONLY <1>1, <1>4, e \in Nat, q \in Nat, n \in Nat, to \in Nat \ {0}, q + to = e + 6, to <= n
  <2>2. SubSeq(src, 1, to - 6) = Between(B, q, e)
    <3>1. B \in Seq(Bytes) /\ q <= g /\ g <= Len(B) /\ 0 <= pos /\ pos <= g - q /\ 0 \in Nat /\ pos \in Nat
      BY ONLY <1>1, <2>1, B \in Seq(Bytes), n \in Nat
    <3>2. Between(Between(B, q, g), 0, pos) = Between(B, q + 0, q + pos)
      BY ONLY <3>1, q \in Nat, g \in Nat, CutOfCut
    <3>3. SubSeq(src, 1, to - 6) = Between(src, 0, pos) /\ q + 0 = q
      BY <2>1 DEF Between
    <3>. QED  BY ONLY <1>1, <2>1, <3>2, <3>3, src = Between(B, q, q + n)
  <2>3. read \o SubSeq(src, 1, to - 6) = Between(B, a, e)
    <3>1. B \in Seq(Bytes) /\ a <= q /\ q <= e /\ e <= Len(B)
      BY <2>1
    <3>2. Between(B, a, q) \o Between(B, q, e) = Between(B, a, e)
      BY ONLY <3>1, a \in Nat, q \in Nat, e \in Nat, CutsJoin
    <3>. QED  BY ONLY <2>2, <3>2, read = Between(B, a, q)
  <2>4. Between(B, e, e) = <<>>
    BY ONLY B \in Seq(Bytes), e \in Nat, CutAll
  <2>5. e <= q + pos /\ q + pos <= e + 5 /\ pos = (IF to - 6 < 0 THEN 0 ELSE to - 6)
    BY ONLY <2>1, e \in Nat
  <2>. QED  BY ONLY <2>1, <2>3, <2>4, <2>5 DEF OverParts
<1>. QED  BY <1>3, <1>4

(* The last five bytes read when the bytes up to f were, and y of the next *)
(* picture.                                                                *)
FiveJoined(v, b, f, B, e, y, z) ==
    LastBytes(Between(v, b, f) \o Between(B, e, e + y), 5) = Between(z, y, y + 5)

LEMMA LastFiveJoined ==
    ASSUME NEW v \in Seq(Bytes), NEW z \in Seq(Bytes), NEW B \in Seq(Bytes), NEW e \in Nat, NEW y \in Nat, y <= 5,
           NEW f \in Nat, NEW p \in Nat \ {0}, p + 5 <= Len(v), p + 5 = f, e + 6 <= Len(B),
           \A i \in 1 .. 5 : v[p + i] = B[(e + 1) + i],
           5 + y <= Len(z), \A i \in 1 .. 5 : z[i] = B[(e + 1) + i], \A i \in 1 .. y : z[5 + i] = B[e + i],
           NEW b \in Nat, b <= p
    PROVE  FiveJoined(v, b, f, B, e, y, z)
<1>1. PICK m \in Nat, g \in Nat, o \in Nat :
         /\ m = f - b /\ g = e + y /\ g - e = y /\ e <= g /\ g <= Len(B) /\ b <= f /\ f <= Len(v)
         /\ 5 <= m /\ o = m - 5 /\ o + 5 = m /\ b + o = p
  BY ONLY b \in Nat, p \in Nat \ {0}, f \in Nat, p + 5 = f, e \in Nat, y \in Nat, y <= 5, e + 6 <= Len(B), B \in Seq(Bytes), b <= p,
          p + 5 <= Len(v), v \in Seq(Bytes)
<1>2. /\ Between(v, b, f) \in Seq(Bytes) /\ Len(Between(v, b, f)) = m
      /\ \A i \in 1 .. m : Between(v, b, f)[i] = v[b + i]
  <2>1. v \in Seq(Bytes) /\ b <= f /\ f <= Len(v)
    BY <1>1
  <2>2. Between(v, b, f) \in Seq(Bytes) /\ Len(Between(v, b, f)) = f - b
    BY ONLY <2>1, b \in Nat, f \in Nat, SMTT(30) DEF Between
  <2>3. \A i \in 1 .. f - b : Between(v, b, f)[i] = v[b + i]
    BY ONLY <2>1, b \in Nat, f \in Nat, Cut
  <2>. QED  BY ONLY <1>1, <2>2, <2>3
<1>3. /\ Between(B, e, g) \in Seq(Bytes) /\ Len(Between(B, e, g)) = y
      /\ \A i \in 1 .. y : Between(B, e, g)[i] = B[e + i]
  <2>1. B \in Seq(Bytes) /\ e <= g /\ g <= Len(B)
    BY <1>1
  <2>2. Between(B, e, g) \in Seq(Bytes) /\ Len(Between(B, e, g)) = g - e
    BY ONLY <2>1, e \in Nat, g \in Nat, SMTT(30) DEF Between
  <2>3. \A i \in 1 .. g - e : Between(B, e, g)[i] = B[e + i]
    BY ONLY <2>1, e \in Nat, g \in Nat, Cut
  <2>. QED  BY ONLY <1>1, <2>2, <2>3
<1>4. PICK u : u = Between(v, b, f) \o Between(B, e, g)
  OBVIOUS
<1>5. /\ u \in Seq(Bytes) /\ Len(u) = m + y
      /\ \A i \in 1 .. m : u[i] = v[b + i]
      /\ \A i \in 1 .. y : u[m + i] = B[e + i]
  <2>1. PICK r, t : r = Between(v, b, f) /\ t = Between(B, e, g) /\ r \in Seq(Bytes) /\ t \in Seq(Bytes)
    BY <1>2, <1>3
  <2>2. /\ r \o t \in Seq(Bytes) /\ Len(r \o t) = Len(r) + Len(t)
        /\ \A i \in 1 .. Len(r) : (r \o t)[i] = r[i]
        /\ \A i \in 1 .. Len(t) : (r \o t)[Len(r) + i] = t[i]
    BY ONLY <2>1, JoinedTwo
  <2>. QED  BY ONLY <1>2, <1>3, <1>4, <2>1, <2>2, ZenonT(60)
<1>6. PICK k \in Nat, d \in Nat : k = o + y /\ d = m + y /\ k + 5 = d /\ k <= d /\ d - k = 5 /\ (d - 5) + 1 = k + 1
  BY ONLY <1>1, y \in Nat, m \in Nat, o \in Nat
<1>7. LastBytes(u, 5) = Between(u, k, d)
  <2>1. Len(u) = d
    BY <1>5, <1>6
  <2>. QED  BY ONLY <1>6, <2>1 DEF LastBytes, Between
<1>8. /\ Between(u, k, d) \in Seq(Bytes) /\ Len(Between(u, k, d)) = 5
      /\ \A i \in 1 .. 5 : Between(u, k, d)[i] = u[k + i]
  <2>1. u \in Seq(Bytes) /\ k <= d /\ d <= Len(u)
    BY <1>5, <1>6
  <2>2. Between(u, k, d) \in Seq(Bytes) /\ Len(Between(u, k, d)) = d - k
    BY ONLY <2>1, k \in Nat, d \in Nat DEF Between
  <2>3. \A i \in 1 .. d - k : Between(u, k, d)[i] = u[k + i]
    BY ONLY <2>1, k \in Nat, d \in Nat DEF Between
  <2>. QED  BY ONLY <1>6, <2>2, <2>3
<1>9. PICK h \in Nat : h = y + 5 /\ y <= h /\ h - y = 5 /\ h <= Len(z)
  BY ONLY y \in Nat, 5 + y <= Len(z), z \in Seq(Bytes)
<1>10. /\ Between(z, y, h) \in Seq(Bytes) /\ Len(Between(z, y, h)) = 5
       /\ \A i \in 1 .. 5 : Between(z, y, h)[i] = z[y + i]
  <2>1. z \in Seq(Bytes) /\ y <= h /\ h <= Len(z)
    BY <1>9
  <2>2. Between(z, y, h) \in Seq(Bytes) /\ Len(Between(z, y, h)) = h - y
    BY ONLY <2>1, y \in Nat, h \in Nat, Cut
  <2>3. \A i \in 1 .. h - y : Between(z, y, h)[i] = z[y + i]
    BY ONLY <2>1, y \in Nat, h \in Nat, Cut
  <2>. QED  BY ONLY <1>9, <2>2, <2>3
<1>11. ASSUME NEW i \in 1 .. 5 PROVE u[k + i] = z[y + i]
  <2>1. CASE y + i <= 5
    <3>1. /\ k + i \in 1 .. m /\ b + (k + i) = p + (y + i) /\ y + i \in 1 .. 5
      BY ONLY <1>1, <1>6, <2>1, y \in Nat, m \in Nat, o \in Nat, b \in Nat, i \in 1 .. 5
    <3>2. u[k + i] = v[b + (k + i)]
      BY ONLY <1>5, <3>1
    <3>3. v[p + (y + i)] = B[(e + 1) + (y + i)] /\ z[y + i] = B[(e + 1) + (y + i)]
      BY ONLY <3>1, \A g_1 \in 1 .. 5 : v[p + g_1] = B[(e + 1) + g_1], \A g_1 \in 1 .. 5 : z[g_1] = B[(e + 1) + g_1]
    <3>. QED  BY ONLY <3>1, <3>2, <3>3
  <2>2. CASE ~(y + i <= 5)
    <3>1. PICK r \in 1 .. y : r = (y + i) - 5 /\ k + i = m + r /\ y + i = 5 + r
      BY ONLY <1>1, <1>6, <2>2, y \in Nat, m \in Nat, o \in Nat, b \in Nat, i \in 1 .. 5
    <3>2. u[m + r] = B[e + r]
      BY ONLY <1>5, r \in 1 .. y
    <3>3. z[5 + r] = B[e + r]
      BY ONLY r \in 1 .. y, \A g_1 \in 1 .. y : z[5 + g_1] = B[e + g_1]
    <3>. QED  BY ONLY <3>1, <3>2, <3>3
  <2>. QED  BY <2>1, <2>2
<1>12. Between(u, k, d) = Between(z, y, h)
  <2>1. PICK r, t : r = Between(u, k, d) /\ t = Between(z, y, h)
    OBVIOUS
  <2>2. /\ r \in Seq(Bytes) /\ t \in Seq(Bytes) /\ Len(r) = 5 /\ Len(t) = 5
        /\ \A i \in 1 .. 5 : r[i] = t[i]
    BY ONLY <1>8, <1>10, <1>11, <2>1
  <2>3. r = t
    BY ONLY <2>2, SeqEqual
  <2>. QED  BY ONLY <2>1, <2>3
<1>. QED  BY ONLY <1>1, <1>4, <1>7, <1>9, <1>12 DEF FiveJoined

LEMMA H265CutStep ==
    ASSUME NEW s \in Streams, s.codec = "h265", NEW c \in H265Context, NEW q \in Nat, NEW n \in Nat,
           q + n <= Len(s.bytes), NEW src, src = Between(s.bytes, q, q + n), NEW j, Collecting(s, q, c, j),
           NEW a \in Nat, a = s.places[j + 1][1], NEW h \in Nat, q = a + h, NEW w, w = c.state \o src,
           NEW to \in Nat \ {0}, q + to = Seen6(s, j + 1), to <= n,
           NEW x, H265Cuts(c, src, w, to, H265Over(c, to), x)
    PROVE  H265Steps(s, q, n, c, j, x)
<1>1. PICK l \in 1 .. Len(s.places) : l = j + 1 /\ j \in 0 .. Len(s.places) - 1
  <2>1. j \in 0 .. Len(s.places) - 1 /\ Len(s.places) \in Nat \ {0}
    BY H265Many DEF Collecting
  <2>. QED  BY ONLY <2>1
<1>2. PICK e \in Nat, k \in 1 .. Len(s.places) :
         /\ e = s.places[l][2] /\ k = l + 1 /\ l < Len(s.places) /\ s.places[k][1] = e
         /\ q + to = e + 6 /\ a < e /\ k # 1
  <2>0. PICK d, i : d = s.places[l][2] /\ i = l + 1
    OBVIOUS
  <2>1. Seen6(s, l) <= Len(s.bytes)
    <3>1. Seen6(s, l) = q + to /\ Len(s.bytes) \in Nat
      BY <1>1, StreamFacts
    <3>. QED  BY ONLY <3>1, q \in Nat, n \in Nat, to \in Nat \ {0}, to <= n, q + n <= Len(s.bytes)
  <2>2. /\ l < Len(s.places) /\ l + 1 \in 1 .. Len(s.places)
        /\ Seen6(s, l) = s.places[l][2] + 6 /\ s.places[l + 1][1] = s.places[l][2]
    BY <2>1, H265Places
  <2>3. s.places[l][2] \in Nat /\ s.places[l][1] < s.places[l][2]
    BY H265Places
  <2>4. q + to = Seen6(s, l) /\ a = s.places[l][1]
    BY <1>1
  <2>5. d \in Nat /\ i \in 1 .. Len(s.places) /\ l < Len(s.places) /\ s.places[i][1] = d /\ q + to = d + 6 /\ a < d
    BY ONLY <2>0, <2>2, <2>3, <2>4
  <2>6. i # 1
    BY ONLY <2>0, l \in 1 .. Len(s.places)
  <2>. QED  BY ONLY <2>0, <2>5, <2>6
<1>n. PICK N \in Nat : N = Len(s.bytes)
  BY StreamFacts
<1>3. PICK v, z, B : v = Scanned(s, l) /\ z = Scanned(s, k) /\ B = s.bytes
  OBVIOUS
<1>4. /\ B \in Seq(Bytes) /\ N \in Nat /\ N = Len(B)
      /\ v \in Seq(Bytes) /\ Len(v) = 5 + (N - a) /\ \A i \in 1 .. N - a : v[5 + i] = B[a + i]
  <2>1. s.bytes \in Seq(Bytes) /\ Len(s.bytes) \in Nat /\ ScannedIs(s, l, a)
    BY <1>1, StreamFacts, ScannedFacts
  <2>. QED  BY ONLY <1>n, <1>3, <2>1 DEF ScannedIs
<1>5. /\ z \in Seq(Bytes) /\ Len(z) = 5 + (N - e)
      /\ \A i \in 1 .. N - e : z[5 + i] = B[e + i]
      /\ \A i \in 1 .. 5 : z[i] = B[(e + 1) + i]
  <2>1. ScannedIs(s, k, e)
    BY <1>2, ScannedFacts
  <2>. QED  BY ONLY <1>n, <1>2, <1>3, <2>1 DEF ScannedIs
<1>l. PICK lv \in Nat, lz \in Nat : lv = Len(v) /\ lz = Len(z) /\ lv = 5 + (N - a) /\ lz = 5 + (N - e)
  <2>0. v \in Seq(Bytes) /\ z \in Seq(Bytes) /\ Len(v) = 5 + (N - a) /\ Len(z) = 5 + (N - e)
    BY <1>4, <1>5
  <2>1. Len(v) \in Nat /\ Len(z) \in Nat
    BY ONLY <2>0
  <2>. QED  BY ONLY <2>0, <2>1
<1>6. Gathered(c) = Between(B, a, q) /\ c.state = Between(v, h, h + 5)
  <2>1. q - a = h
    BY SMTT(30)
  <2>. QED  BY <1>1, <1>3, <2>1 DEF Collecting
<1>7. H265Windows(s, l, h, n, src, c.state, w)
  <2>1. /\ q + n <= Len(s.bytes) /\ q = a + h /\ src = Between(s.bytes, q, q + n) /\ a = s.places[l][1]
        /\ c.state = Between(Scanned(s, l), h, h + 5) /\ w = c.state \o src
        /\ s \in Streams /\ s.codec = "h265"
    BY <1>1, <1>3, <1>6
  <2>. QED  BY ONLY <2>1, q \in Nat, n \in Nat, h \in Nat, l \in 1 .. Len(s.places), H265Window
<1>8. w = Between(v, h, (h + 5) + n) /\ (h + 5) + n <= Len(v) /\ w \in Seq(Bytes) /\ Len(w) = 5 + n
  BY ONLY <1>3, <1>7 DEF H265Windows
<1>9. PICK pos \in 0 .. n :
         /\ pos = IF to - 6 < 0 THEN 0 ELSE to - 6
         /\ e <= q + pos /\ q + pos <= e + 5
         /\ (IF to - 6 < 0 THEN SubSeq(Gathered(c), 1, Len(Gathered(c)) + (to - 6))
             ELSE Gathered(c) \o SubSeq(src, 1, to - 6)) = Between(B, a, e)
         /\ H265Over(c, to) = Between(B, e, q + pos)
         /\ e = q + pos \/ pos < n
  <2>1. PICK read : read = Gathered(c) /\ read = Between(B, a, q)
    BY <1>6
  <2>2. /\ a < e /\ a <= q /\ q + to = e + 6 /\ to <= n /\ q + n <= Len(B) /\ src = Between(B, q, q + n)
        /\ B \in Seq(Bytes)
    <3>1. a <= q
      BY ONLY a \in Nat, h \in Nat, q = a + h
    <3>. QED  BY <1>2, <1>3, <1>4, <3>1
  <2>3. OverParts(B, a, e, q, n, to, read, src)
    BY ONLY <2>1, <2>2, a \in Nat, e \in Nat, q \in Nat, n \in Nat, to \in Nat \ {0}, OverPartsAre
  <2>4. H265Over(c, to) = (IF to - 6 < 0 THEN LastBytes(read, -(to - 6)) ELSE <<>>)
    BY ONLY <2>1 DEF H265Over
  <2>. QED  BY ONLY <2>1, <2>3, <2>4 DEF OverParts
<1>p. e <= q + pos /\ q + pos <= e + 5
  BY <1>9
<1>10. PICK g \in Nat, y \in Nat :
          /\ g = q + pos /\ g = e + y /\ y <= 5 /\ y = g - e /\ g <= N /\ e <= g /\ e + 6 <= N /\ q <= g
          /\ 5 + y <= Len(z) /\ y <= N - e
  <2>1. e + 6 <= N /\ q + n <= N
    <3>1. q + n <= N
      BY <1>n
    <3>2. q + to = e + 6
      BY <1>2
    <3>. QED  BY ONLY <3>1, <3>2, N \in Nat, q \in Nat, n \in Nat, to \in Nat \ {0}, to <= n, e \in Nat
  <2>2. q + pos \in Nat /\ (q + pos) - e \in Nat
    BY ONLY <1>p, q \in Nat, n \in Nat, pos \in 0 .. n, e \in Nat
  <2>3. /\ q + pos = e + ((q + pos) - e) /\ (q + pos) - e <= 5 /\ q + pos <= N /\ q <= q + pos
        /\ 5 + ((q + pos) - e) <= lz /\ (q + pos) - e <= N - e
    <3>1. lz = 5 + (N - e)
      BY <1>l
    <3>. QED  BY ONLY <3>1, <1>p, <2>1, q \in Nat, n \in Nat, pos \in 0 .. n, e \in Nat, N \in Nat, lz \in Nat
  <2>4. lz = Len(z)
    BY <1>l
  <2>. QED  BY ONLY <2>1, <2>2, <2>3, <2>4
<1>11. LastBytes(SubSeq(w, 1, 5 + to) \o H265Over(c, to), 5) = Between(z, y, y + 5)
  <2>1. PICK f \in Nat, p \in Nat \ {0} :
           /\ f = h + (5 + to) /\ p + 5 = f /\ p = h + to /\ p + 5 <= lv /\ h <= p
           /\ a + p = e + 6 /\ f <= (h + 5) + n /\ h <= f
    <3>1. h + to \in Nat \ {0} /\ h + (5 + to) \in Nat
      BY ONLY h \in Nat, to \in Nat \ {0}
    <3>2. /\ (h + to) + 5 = h + (5 + to) /\ (h + to) + 5 <= lv /\ h <= h + to
          /\ a + (h + to) = e + 6 /\ h + (5 + to) <= (h + 5) + n /\ h <= h + (5 + to)
      <4>1. (h + 5) + n <= lv /\ q + to = e + 6
        BY <1>2, <1>8, <1>l
      <4>. QED  BY ONLY <4>1, h \in Nat, to \in Nat \ {0}, to <= n, n \in Nat, q = a + h, a \in Nat, e \in Nat, lv \in Nat, q \in Nat
    <3>. QED  BY ONLY <3>1, <3>2
  <2>2. SubSeq(w, 1, 5 + to) = Between(v, h, f)
    <3>1. PICK t \in Nat, d \in Nat : /\ t = 5 + to /\ d = (h + 5) + n /\ t <= d - h /\ h <= d /\ d <= lv /\ 0 <= t
                                      /\ h + 0 = h /\ h + t = f /\ 0 \in Nat
      <4>1. (h + 5) + n <= lv
        BY <1>8, <1>l
      <4>2. 5 + to \in Nat /\ (h + 5) + n \in Nat
        BY ONLY h \in Nat, to \in Nat \ {0}, n \in Nat
      <4>3. 5 + to <= ((h + 5) + n) - h /\ h <= (h + 5) + n /\ 0 <= 5 + to /\ h + 0 = h /\ h + (5 + to) = f
        BY ONLY <2>1, h \in Nat, to \in Nat \ {0}, to <= n, n \in Nat
      <4>. QED  BY ONLY <4>1, <4>2, <4>3
    <3>2. Between(Between(v, h, d), 0, t) = Between(v, h + 0, h + t)
      <4>1. v \in Seq(Bytes) /\ h <= d /\ d <= Len(v) /\ 0 <= t /\ t <= d - h /\ 0 \in Nat
        BY <1>4, <1>l, <3>1
      <4>. QED  BY ONLY <4>1, h \in Nat, d \in Nat, t \in Nat, CutOfCut
    <3>3. SubSeq(w, 1, 5 + to) = Between(w, 0, t)
      <4>1. t = 5 + to /\ 0 + 1 = 1
        BY <3>1, SMTT(30)
      <4>. QED  BY ONLY <4>1 DEF Between
    <3>. QED  BY ONLY <1>8, <3>1, <3>2, <3>3
  <2>3. \A i \in 1 .. 5 : v[p + i] = B[(e + 1) + i]
    <3>1. ASSUME NEW i \in 1 .. 5 PROVE v[p + i] = B[(e + 1) + i]
      <4>1. PICK r \in 1 .. N - a : p + i = 5 + r /\ a + r = (e + 1) + i
        <5>0. e + 6 <= N /\ a + p = e + 6 /\ a < e
          BY <1>2, <1>10, <2>1
        <5>1. (p + i) - 5 \in 1 .. N - a /\ a + ((p + i) - 5) = (e + 1) + i /\ p + i = 5 + ((p + i) - 5)
          BY ONLY <5>0, i \in 1 .. 5, a \in Nat, h \in Nat, e \in Nat, to \in Nat \ {0}, p \in Nat \ {0}, N \in Nat
        <5>. QED  BY ONLY <5>1
      <4>2. v[5 + r] = B[a + r]
        BY ONLY <1>4, r \in 1 .. N - a
      <4>. QED  BY ONLY <4>1, <4>2
    <3>. QED  BY ONLY <3>1
  <2>4. \A i \in 1 .. y : z[5 + i] = B[e + i]
    <3>1. \A i \in 1 .. y : i \in 1 .. N - e
      <4>1. y <= N - e
        BY <1>10
      <4>. QED  BY ONLY <4>1, y \in Nat, N \in Nat, e \in Nat
    <3>. QED  BY ONLY <1>5, <3>1
  <2>5. /\ v \in Seq(Bytes) /\ z \in Seq(Bytes) /\ B \in Seq(Bytes) /\ y <= 5 /\ p + 5 <= Len(v) /\ p + 5 = f
        /\ e + 6 <= Len(B) /\ 5 + y <= Len(z) /\ h <= p /\ \A i \in 1 .. 5 : z[i] = B[(e + 1) + i]
    BY ONLY <1>4, <1>5, <1>10, <1>l, <2>1
  <2>6. FiveJoined(v, h, f, B, e, y, z)
    BY ONLY <2>3, <2>4, <2>5, e \in Nat, y \in Nat, f \in Nat, p \in Nat \ {0}, h \in Nat, LastFiveJoined
  <2>. QED  BY ONLY <1>9, <1>10, <2>2, <2>6 DEF FiveJoined
<1>12. ~PictureRead(s, e, g) /\ g < Seen6(s, k)
  <2>1. PICK u \in Nat : Seeks(s, k, e, u, Seen6(s, k) - e)
    BY <1>2, ScannedSought
  <2>2. u < Seen6(s, k) - e /\ 6 <= u /\ (PictureRead(s, e, g) <=> u <= g - e)
    <3>1. g \in 0 .. Len(s.bytes)
      <4>1. g <= N
        BY <1>10
      <4>. QED  BY ONLY <1>n, <4>1, g \in Nat, N \in Nat
    <3>. QED  BY ONLY <1>2, <2>1, <3>1 DEF Seeks
  <2>3. Seen6(s, k) \in Nat
    BY H265Places
  <2>. QED  BY ONLY <1>10, <2>2, <2>3, u \in Nat, e \in Nat, g \in Nat, y \in Nat
<1>13. PICK b, st, fo, ov, data :
          /\ b = <<>> /\ st = LastBytes(SubSeq(w, 1, 5 + to) \o H265Over(c, to), 5) /\ fo = FALSE
          /\ ov = H265Over(c, to)
          /\ data = IF to - 6 < 0 THEN SubSeq(Gathered(c), 1, Len(Gathered(c)) + (to - 6))
                    ELSE Gathered(c) \o SubSeq(src, 1, to - 6)
  OBVIOUS
<1>14. x = [ctx |-> H265Of(b, st, fo, ov, c.eos), pos |-> pos, data |-> data]
  <2>1. x = [ctx |-> H265Of(<<>>, LastBytes(SubSeq(w, 1, 5 + to) \o H265Over(c, to), 5), FALSE, H265Over(c, to), c.eos),
             pos |-> IF to - 6 < 0 THEN 0 ELSE to - 6,
             data |-> IF to - 6 < 0 THEN SubSeq(Gathered(c), 1, Len(Gathered(c)) + (to - 6))
                      ELSE Gathered(c) \o SubSeq(src, 1, to - 6)]
    BY ONLY H265Cuts(c, src, w, to, H265Over(c, to), x), Zenon DEF H265Cuts
  <2>2. pos = IF to - 6 < 0 THEN 0 ELSE to - 6
    BY <1>9
  <2>. QED  BY ONLY <1>13, <2>1, <2>2, Zenon
<1>15. /\ b \in Seq(Bytes) /\ st \in Seq(Bytes) /\ fo \in BOOLEAN /\ ov \in Seq(Bytes) /\ b \o ov = ov
       /\ c.eos \in BOOLEAN /\ (ov = <<>> \/ pos < n) /\ ov = Between(B, e, g) /\ data = Between(B, a, e)
       /\ st = Between(z, y, y + 5) /\ ~fo
  <2>1. ov = Between(B, e, g) /\ st = Between(z, y, y + 5) /\ data = Between(B, a, e)
    BY ONLY <1>9, <1>10, <1>11, <1>13
  <2>2. ov \in Seq(Bytes)
    <3>1. B \in Seq(Bytes) /\ e <= g /\ g <= Len(B)
      BY <1>4, <1>10
    <3>. QED  BY ONLY <2>1, <3>1, e \in Nat, g \in Nat, Cut
  <2>3. st \in Seq(Bytes)
    <3>1. PICK d \in Nat : d = y + 5 /\ y <= d /\ d <= Len(z)
      BY ONLY <1>10, y \in Nat
    <3>2. z \in Seq(Bytes) /\ y <= d /\ d <= Len(z)
      BY <1>5, <3>1
    <3>3. Between(z, y, d) \in Seq(Bytes)
      BY ONLY <3>2, y \in Nat, d \in Nat, Cut
    <3>. QED  BY ONLY <2>1, <3>1, <3>3
  <2>4. b \in Seq(Bytes) /\ fo \in BOOLEAN /\ b \o ov = ov /\ ~fo
    <3>1. \A r \in Seq(Bytes) : <<>> \o r = r
      BY SMTT(30)
    <3>2. <<>> \in Seq(Bytes)
      BY SMTT(30)
    <3>. QED  BY ONLY <1>13, <2>2, <3>1, <3>2
  <2>5. ov = <<>> \/ pos < n
    <3>1. Between(B, e, e) = <<>>
      BY ONLY <1>4, e \in Nat, CutAll
    <3>. QED  BY ONLY <1>9, <1>10, <2>1, <3>1
  <2>6. c.eos \in BOOLEAN
    BY H265ContextFacts
  <2>. QED  BY ONLY <2>1, <2>2, <2>3, <2>4, <2>5, <2>6
<1>16. /\ x.ctx \in H265Context /\ x.pos = pos /\ x.data = data
       /\ x.ctx.state = st /\ x.ctx.found = fo /\ x.ctx.over = ov /\ x.ctx.eos = c.eos
       /\ Gathered(x.ctx) = ov
  <2>1. H265Made(x, b, st, fo, ov, c.eos, pos, data)
    BY ONLY <1>14, <1>15, H265OfIs
  <2>. QED  BY ONLY <1>15, <2>1 DEF H265Made
<1>17. data = s.pictures[j + 1]
  <2>1. s.pictures[l] = Between(s.bytes, s.places[l][1], s.places[l][2])
    BY H265Many, PlacesFacts
  <2>. QED  BY ONLY <1>1, <1>2, <1>3, <1>15, <2>1, a = s.places[j + 1][1]
<1>18. Collecting(s, g, x.ctx, l)
  <2>1. k = l + 1 /\ l \in 0 .. Len(s.places) - 1 /\ Len(s.places) \in Nat
    <3>1. Len(s.places) \in Nat
      BY H265Many
    <3>2. k = l + 1 /\ l < Len(s.places)
      BY <1>2
    <3>. QED  BY ONLY <3>1, <3>2, l \in 1 .. Len(s.places)
  <2>2. x.ctx.found <=> PictureRead(s, e, g)
    BY ONLY <1>12, <1>15, <1>16
  <2>3. Gathered(x.ctx) = Between(s.bytes, e, g) /\ x.ctx.state = Between(Scanned(s, k), g - e, (g - e) + 5)
    BY ONLY <1>3, <1>10, <1>15, <1>16
  <2>4. e <= g /\ g <= Len(s.bytes) /\ g < Seen6(s, k) /\ s.places[k][1] = e
    BY ONLY <1>n, <1>2, <1>3, <1>10, <1>12
  <2>. QED  BY ONLY <2>1, <2>2, <2>3, <2>4 DEF Collecting
<1>19. H265IsOver(s, q, n, j, x)
  BY ONLY <1>1, <1>2, <1>10, <1>15, <1>16, <1>17, <1>18 DEF H265IsOver
<1>. QED  BY ONLY <1>16, <1>19 DEF H265Steps

ScanGives(scan, h, n, u, f) ==
    /\ scan.to = IF f <= h + n THEN f - h ELSE n + 1
    /\ scan.from <= n <=> u <= h + n

LEMMA ScanFinds ==
    ASSUME NEW begins \in SUBSET Int, NEW bounds \in SUBSET Int, NEW q \in Nat, NEW n \in Nat,
           NEW v \in begins, NEW t \in Int, v < t, q < t, t <= q + n => t \in bounds,
           \A i \in begins : i <= q \/ v <= i, \A i \in bounds : i <= v \/ t <= i,
           NEW found, found <=> v <= q,
           NEW scan, scan = Scan(InPart(begins, q, n), InPart(bounds, q, n), found, n)
    PROVE  ScanGives(scan, q, n, v, t)
<1>1. LET z == Scan(InPart(begins, q, n), InPart(bounds, q, n), found, n)
      IN /\ z.to = IF t <= q + n THEN t - q ELSE n + 1
         /\ z.from <= n <=> v <= q + n
  BY ScanAt
<1>. QED  BY ONLY <1>1, scan = Scan(InPart(begins, q, n), InPart(bounds, q, n), found, n) DEF ScanGives

(* A call of prepare for a packet that does not end the stream.            *)
LEMMA H265SplitStep ==
    ASSUME NEW s \in Streams, s.codec = "h265", NEW c \in H265Context, NEW q \in Nat, NEW n \in Nat,
           q + n <= Len(s.bytes), NEW src, src = Between(s.bytes, q, q + n), NEW j, Collecting(s, q, c, j),
           NEW x, x = H265Split(c, src)
    PROVE  H265Steps(s, q, n, c, j, x)
<1>1. PICK l \in 1 .. Len(s.places) : l = j + 1 /\ j \in 0 .. Len(s.places) - 1
  <2>1. j \in 0 .. Len(s.places) - 1 /\ Len(s.places) \in Nat \ {0}
    BY H265Many DEF Collecting
  <2>. QED  BY ONLY <2>1
<1>2. PICK a \in Nat, h \in Nat, t \in Nat : a = s.places[l][1] /\ a = s.places[j + 1][1] /\ q = a + h /\ q - a = h
                                             /\ t = Seen6(s, l) /\ q < t
  <2>1. s.places[l][1] \in Nat /\ Seen6(s, l) \in Nat
    BY H265Places
  <2>2. s.places[l][1] <= q /\ q < Seen6(s, l)
    BY <1>1 DEF Collecting
  <2>3. q - s.places[l][1] \in Nat /\ q = s.places[l][1] + (q - s.places[l][1])
    BY ONLY <2>1, <2>2, q \in Nat
  <2>. QED  BY ONLY <1>1, <2>1, <2>2, <2>3
<1>3. PICK u \in Nat : Seeks(s, l, a, u, t - a)
  BY <1>2, ScannedSought
<1>4. PICK w, B, E, f, scan :
         /\ w = c.state \o src /\ B = ScannedPictures(s, l) /\ E = ScannedBounds(s, l) /\ f = t - a
         /\ scan = Scan(InPart(B, h, n), InPart(E, h, n), c.found, n)
  OBVIOUS
<1>5. /\ {i \in 1 .. n : PictureAt(w, i)} = InPart(B, h, n)
      /\ {i \in 1 .. n : BoundaryAt(w, i)} = InPart(E, h, n)
      /\ Len(src) = n
  <2>1. c.state = Between(Scanned(s, l), h, h + 5)
    BY <1>1, <1>2 DEF Collecting
  <2>2. /\ q + n <= Len(s.bytes) /\ q = a + h /\ src = Between(s.bytes, q, q + n) /\ a = s.places[l][1]
        /\ c.state = Between(Scanned(s, l), h, h + 5) /\ w = c.state \o src
        /\ s \in Streams /\ s.codec = "h265"
    BY <1>2, <1>4, <2>1
  <2>3. H265Windows(s, l, h, n, src, c.state, w)
    BY ONLY <2>2, q \in Nat, n \in Nat, h \in Nat, l \in 1 .. Len(s.places), H265Window
  <2>. QED  BY ONLY <1>4, <2>3 DEF H265Windows
<1>f. PICK d \in Nat : d = f /\ d = t - a /\ a + d = t
  <2>0. q = a + h /\ q < t
    BY <1>2
  <2>1. t - a \in Nat /\ a + (t - a) = t
    BY ONLY <2>0, q \in Nat, a \in Nat, h \in Nat, t \in Nat
  <2>. QED  BY ONLY <1>4, <2>1
<1>6. /\ u \in B /\ f \in Nat /\ u < f /\ (f <= Len(s.bytes) - a => f \in E)
      /\ (\A i \in B : u <= i) /\ (\A i \in E : i <= u \/ f <= i)
      /\ \A g \in 0 .. Len(s.bytes) : PictureRead(s, a, g) <=> u <= g - a
  BY ONLY <1>3, <1>4 DEF Seeks
<1>7. /\ scan.to = IF f <= h + n THEN f - h ELSE n + 1
      /\ scan.from <= n <=> u <= h + n
  <2>1. B \in SUBSET Int /\ E \in SUBSET Int
    BY <1>4 DEF ScannedPictures, ScannedBounds
  <2>2. h < f /\ (f <= h + n => f \in E)
    <3>1. h < d
      <4>1. q = a + h /\ q < t /\ a + d = t
        BY <1>2, <1>f
      <4>. QED  BY ONLY <4>1, q \in Nat, a \in Nat, h \in Nat, t \in Nat, d \in Nat
    <3>2. d <= h + n => d <= Len(s.bytes) - a
      <4>1. Len(s.bytes) \in Nat /\ q + n <= Len(s.bytes) /\ q = a + h
        BY <1>2, StreamFacts
      <4>. QED  BY ONLY <4>1, q \in Nat, a \in Nat, h \in Nat, n \in Nat, d \in Nat
    <3>. QED  BY ONLY <1>f, <1>6, <3>1, <3>2
  <2>3. c.found <=> u <= h
    <3>1. c.found <=> PictureRead(s, a, q)
      BY <1>1, <1>2 DEF Collecting
    <3>2. q \in 0 .. Len(s.bytes)
      <4>1. Len(s.bytes) \in Nat /\ q + n <= Len(s.bytes)
        BY StreamFacts
      <4>. QED  BY ONLY <4>1, q \in Nat, n \in Nat
    <3>3. PictureRead(s, a, q) <=> u <= q - a
      BY ONLY <1>6, <3>2
    <3>4. q - a = h
      BY <1>2
    <3>. QED  BY ONLY <3>1, <3>3, <3>4
  <2>4. PICK found : found = c.found /\ (found <=> u <= h)
    BY <2>3
  <2>5. (\A i \in B : i <= h \/ u <= i) /\ f \in Int /\ u \in B /\ u < f
    BY ONLY <1>6
  <2>6. \A i \in E : i <= u \/ f <= i
    BY ONLY <1>6
  <2>7. scan = Scan(InPart(B, h, n), InPart(E, h, n), found, n)
    BY <1>4, <2>4
  <2>8. ScanGives(scan, h, n, u, f)
    BY ONLY <2>1, <2>2, <2>4, <2>5, <2>6, <2>7, h \in Nat, n \in Nat, ScanFinds
  <2>. QED  BY ONLY <2>8 DEF ScanGives
<1>8. IF scan.to > n THEN H265Goes(c, src, w, scan.from, n, x)
      ELSE H265Cuts(c, src, w, scan.to, H265Over(c, scan.to), x)
  <2>1. /\ n = Len(src) /\ w = c.state \o src /\ x = H265Split(c, src) /\ c \in H265Context
        /\ scan = Scan({i \in 1 .. n : PictureAt(w, i)}, {i \in 1 .. n : BoundaryAt(w, i)}, c.found, n)
    BY <1>4, <1>5
  <2>. QED  BY ONLY <2>1, H265SplitIs
<1>9. CASE f <= h + n
  <2>1. PICK to \in Nat \ {0} : to = scan.to /\ to = f - h /\ to <= n /\ q + to = t
    <3>1. d - h \in Nat \ {0} /\ d - h <= n /\ q + (d - h) = t
      <4>1. q = a + h /\ q < t /\ a + d = t /\ d <= h + n
        BY <1>2, <1>f, <1>9
      <4>. QED  BY ONLY <4>1, q \in Nat, a \in Nat, h \in Nat, n \in Nat, t \in Nat, d \in Nat
    <3>2. scan.to = d - h /\ d - h = f - h
      BY ONLY <1>7, <1>9, <1>f
    <3>. QED  BY ONLY <3>1, <3>2
  <2>2. H265Cuts(c, src, w, to, H265Over(c, to), x)
    <3>1. ~(to > n)
      BY ONLY <2>1, n \in Nat
    <3>. QED  BY ONLY <1>8, <2>1, <3>1
  <2>3. q + to = Seen6(s, j + 1) /\ a = s.places[j + 1][1] /\ q = a + h /\ w = c.state \o src
    BY <1>1, <1>2, <1>4, <2>1
  <2>4. /\ s \in Streams /\ s.codec = "h265" /\ c \in H265Context /\ q + n <= Len(s.bytes)
        /\ src = Between(s.bytes, q, q + n) /\ Collecting(s, q, c, j) /\ to <= n
    BY <2>1
  <2>. QED  BY ONLY <2>2, <2>3, <2>4, q \in Nat, n \in Nat, a \in Nat, h \in Nat, to \in Nat \ {0}, H265CutStep
<1>10. CASE ~(f <= h + n)
  <2>1. scan.to > n
    <3>1. scan.to = n + 1
      BY ONLY <1>7, <1>10
    <3>. QED  BY ONLY <3>1, n \in Nat
  <2>2. PICK from : from = scan.from /\ H265Goes(c, src, w, from, n, x)
    BY <1>8, <2>1
  <2>3. from <= n <=> PictureRead(s, a, q + n)
    <3>1. q + n \in 0 .. Len(s.bytes) /\ (q + n) - a = h + n
      <4>1. Len(s.bytes) \in Nat /\ q = a + h
        BY <1>2, StreamFacts
      <4>. QED  BY ONLY <4>1, q \in Nat, n \in Nat, q + n <= Len(s.bytes), a \in Nat, h \in Nat
    <3>2. PictureRead(s, a, q + n) <=> u <= (q + n) - a
      BY ONLY <1>6, <3>1
    <3>3. scan.from <= n <=> u <= h + n
      BY <1>7
    <3>. QED  BY ONLY <2>2, <3>1, <3>2, <3>3
  <2>4. q + n < Seen6(s, j + 1)
    <3>1. q + n < t
      <4>1. q = a + h /\ a + d = t /\ ~(d <= h + n)
        BY <1>2, <1>f, <1>10
      <4>. QED  BY ONLY <4>1, q \in Nat, a \in Nat, h \in Nat, n \in Nat, t \in Nat, d \in Nat
    <3>. QED  BY <1>1, <1>2, <3>1
  <2>5. /\ a = s.places[j + 1][1] /\ q = a + h /\ w = c.state \o src
        /\ s \in Streams /\ s.codec = "h265" /\ c \in H265Context /\ q + n <= Len(s.bytes)
        /\ src = Between(s.bytes, q, q + n) /\ Collecting(s, q, c, j)
    BY <1>2, <1>4
  <2>. QED  BY ONLY <2>2, <2>3, <2>4, <2>5, q \in Nat, n \in Nat, a \in Nat, h \in Nat, H265GoesStep
<1>. QED  BY ONLY <1>9, <1>10

(* What holds of an H.265 stream.  The bytes read too far are kept only    *)
(* while the packet behind them is; when the last packet has bytes, it is  *)
(* never read, and of the pictures nothing is said.                        *)
H265At(j) ==
    /\ Handed = SubSeq(stream.pictures, 1, j)
    /\ \/ /\ Collecting(stream, Read, ctx, j) /\ (packet.data = <<>> => ctx.over = <<>>)
          /\ ~ctx.eos /\ ends = 0
       \/ /\ j = Len(stream.places) /\ eosPut = "empty" /\ packet = NoPacket
          /\ (ends > 0 => ~task.valid)

H265Inv ==
    stream.codec = "h265" =>
        /\ ctx \in H265Context /\ ~task.eos
        /\ ctx.eos \/ ends > 0 => eosPut # "no"
        /\ eosPut # "data" => \E j \in 0 .. Len(stream.places) : H265At(j)

LEMMA H265Starts ==
    ASSUME NEW s \in Streams, s.codec = "h265", NEW c, c = H265SplitStart
    PROVE  /\ c \in H265Context /\ c.over = <<>> /\ ~c.eos
           /\ Collecting(s, 0, c, 0)
<1>1. PICK b, st, fo, ov, e : /\ b = <<>> /\ st = H265SplitStart.state /\ fo = FALSE /\ ov = <<>> /\ e = FALSE
                              /\ c = H265Of(b, st, fo, ov, e)
  BY DEF H265SplitStart, H265Of
<1>2. /\ b \in Seq(Bytes) /\ st \in Seq(Bytes) /\ fo \in BOOLEAN /\ ov \in Seq(Bytes) /\ e \in BOOLEAN /\ b \o ov = <<>>
  <2>1. st \in Seq(Bytes)
    BY <1>1, NalsFacts
  <2>2. fo \in BOOLEAN /\ e \in BOOLEAN
    BY <1>1
  <2>3. <<>> \in Seq(Bytes) /\ \A z \in Seq(Bytes) : <<>> \o z = z
    OBVIOUS
  <2>4. b \in Seq(Bytes) /\ ov \in Seq(Bytes) /\ b \o ov = <<>>
    BY ONLY <1>1, <2>3
  <2>. QED  BY <2>1, <2>2, <2>4
<1>3. /\ c.buffer = b /\ c.state = st /\ c.found = fo /\ c.over = ov /\ c.eos = e
  BY ONLY <1>1 DEF H265Of
<1>4. c \in H265Context
  BY ONLY <1>1, <1>2 DEF H265Of, H265Context
<1>5. Gathered(c) = <<>>
  BY ONLY <1>2, <1>3 DEF Gathered
<1>6. /\ s.bytes \in Seq(Bytes) /\ Len(s.bytes) \in Nat /\ Len(s.places) \in Nat \ {0} /\ s.places[1][1] = 0
      /\ Seen6(s, 1) \in Nat /\ 0 < Seen6(s, 1)
  <2>1. PICK l \in 1 .. Len(s.places) : l = 1
    BY H265Many
  <2>2. /\ s.bytes \in Seq(Bytes) /\ Len(s.bytes) \in Nat /\ Len(s.places) \in Nat \ {0} /\ s.places[1][1] = 0
        /\ Seen6(s, l) \in Nat /\ s.places[l][2] \in Nat /\ s.places[l][2] < Seen6(s, l)
    BY H265Places
  <2>. QED  BY <2>1, <2>2
<1>7. Between(s.bytes, 0, 0) = <<>>
  BY ONLY <1>6, CutAll
<1>8. c.state = Between(Scanned(s, 1), 0, 5)
  <2>1. PICK l \in 1 .. Len(s.places) : l = 1
    BY <1>6
  <2>2. ScannedIs(s, l, 0)
    BY <1>6, <2>1, ScannedFacts
  <2>3. PICK v, y : v = Scanned(s, 1) /\ y = Before(s, 1)
    OBVIOUS
  <2>4. /\ v \in Seq(Bytes) /\ 5 <= Len(v) /\ y \in Seq(Bytes) /\ Len(y) = 5 /\ \A i \in 1 .. 5 : v[i] = y[i]
    BY ONLY <1>6, <2>1, <2>2, <2>3 DEF ScannedIs
  <2>5. y = st
    BY <1>1, <2>3 DEF Before
  <2>6. PICK d \in Nat, h \in Nat : d = 5 /\ h = 0 /\ h <= d /\ d <= Len(v) /\ d - h = 5 /\ \A i \in 1 .. 5 : h + i = i
    BY <2>4
  <2>7. /\ Between(v, h, d) \in Seq(Bytes) /\ Len(Between(v, h, d)) = 5
        /\ \A i \in 1 .. 5 : Between(v, h, d)[i] = v[i]
    <3>1. v \in Seq(Bytes) /\ h <= d /\ d <= Len(v)
      BY <2>4, <2>6
    <3>2. Between(v, h, d) \in Seq(Bytes) /\ Len(Between(v, h, d)) = d - h
      BY ONLY <3>1, h \in Nat, d \in Nat, Cut
    <3>3. \A i \in 1 .. d - h : Between(v, h, d)[i] = v[h + i]
      BY ONLY <3>1, h \in Nat, d \in Nat, Cut
    <3>. QED  BY ONLY <2>6, <3>2, <3>3
  <2>8. PICK x : x = Between(v, h, d)
    OBVIOUS
  <2>9. x \in Seq(Bytes) /\ Len(x) = 5 /\ \A i \in 1 .. 5 : x[i] = y[i]
    BY ONLY <2>4, <2>7, <2>8
  <2>10. x = y
    BY ONLY <2>4, <2>9, SeqEqual
  <2>. QED  BY ONLY <1>3, <2>3, <2>5, <2>6, <2>8, <2>10
<1>9. ~PictureRead(s, 0, 0)
  BY DEF PictureRead
<1>10. /\ 0 \in 0 .. Len(s.places) - 1 /\ 0 + 1 = 1 /\ 0 <= 0 /\ 0 <= Len(s.bytes) /\ 0 - 0 = 0 /\ 0 + 5 = 5
  BY <1>6
<1>11. Collecting(s, 0, c, 0)
  BY ONLY <1>1, <1>3, <1>5, <1>6, <1>7, <1>8, <1>9, <1>10 DEF Collecting
<1>. QED  BY ONLY <1>1, <1>3, <1>4, <1>11

LEMMA H265Init == Init => H265Inv
<1> SUFFICES ASSUME Init, stream.codec = "h265" PROVE H265Inv
  BY DEF H265Inv
<1>1. /\ stream \in Streams /\ Read = 0 /\ Handed = <<>> /\ ctx = H265SplitStart /\ task = NoTask /\ ends = 0
  BY CommonInit DEF Init, ContextOf, PacketInv
<1>2. task.eos = FALSE
  BY <1>1 DEF NoTask
<1>3. ctx \in H265Context /\ ctx.over = <<>> /\ ~ctx.eos /\ Collecting(stream, 0, ctx, 0)
  BY <1>1, H265Starts
<1>4. Len(stream.places) \in Nat /\ stream.pictures \in Seq(Seq(Bytes))
  BY <1>1, H265Many, PlacesFacts
<1>5. SubSeq(stream.pictures, 1, 0) = <<>> /\ 0 \in 0 .. Len(stream.places)
  BY <1>4
<1>6. H265At(0)
  BY <1>1, <1>3, <1>5 DEF H265At
<1>. QED  BY <1>1, <1>2, <1>3, <1>5, <1>6 DEF H265Inv

LEMMA H265Resets ==
    ASSUME PacketInv, TaskInv, H265Inv, Reset
    PROVE  H265Inv'
<1> SUFFICES ASSUME stream.codec = "h265", stream' = stream PROVE H265Inv'
  BY CommonReset DEF H265Inv
<1>1. /\ stream \in Streams /\ Read' = 0 /\ Handed' = <<>> /\ ctx' = H265SplitStart /\ ~task'.eos /\ ends' = 0
  BY CommonReset DEF ResetOf, PacketInv, H265SplitReset
<1>3. ctx' \in H265Context /\ ctx'.over = <<>> /\ ~ctx'.eos /\ Collecting(stream, 0, ctx', 0)
  BY <1>1, H265Starts
<1>4. Len(stream.places) \in Nat /\ stream.pictures \in Seq(Seq(Bytes))
  BY <1>1, H265Many, PlacesFacts
<1>5. SubSeq(stream.pictures, 1, 0) = <<>> /\ 0 \in 0 .. Len(stream.places)
  BY <1>4
<1>6. H265At(0)'
  BY <1>1, <1>3, <1>5 DEF H265At
<1>. QED  BY <1>1, <1>3, <1>5, <1>6 DEF H265Inv

LEMMA H265User ==
    ASSUME PacketInv, TaskInv, H265Inv, (\E to \in 1 .. Len(stream.bytes) : PutPacket(to)) \/ PutEnd
    PROVE  H265Inv'
<1>1. /\ Read' = Read /\ Handed' = Handed /\ eosPut = "no" /\ packet.data = <<>>
      /\ UNCHANGED <<stream, ctx, task, given, ends, resets, eosBefore>>
  <2>1. CASE \E to \in 1 .. Len(stream.bytes) : PutPacket(to)
    BY <2>1, CommonPut, NoPacketFacts DEF PutPacket
  <2>2. CASE PutEnd
    BY <2>2, CommonEnd, NoPacketFacts DEF PutEnd
  <2>. QED  BY <2>1, <2>2
<1> SUFFICES ASSUME stream.codec = "h265" PROVE H265Inv'
  BY <1>1 DEF H265Inv
<1>2. ctx \in H265Context /\ ~task.eos /\ ~(ctx.eos \/ ends > 0)
  BY <1>1 DEF H265Inv
<1>3. PICK j \in 0 .. Len(stream.places) : H265At(j)
  BY <1>1 DEF H265Inv
<1>4. /\ Handed = SubSeq(stream.pictures, 1, j) /\ Collecting(stream, Read, ctx, j) /\ ctx.over = <<>> /\ ends = 0
  BY <1>1, <1>3 DEF H265At
<1>5. H265At(j)'
  BY <1>1, <1>2, <1>4 DEF H265At
<1>. QED  BY <1>1, <1>2, <1>5 DEF H265Inv

LEMMA H265Parse ==
    ASSUME PacketInv, TaskInv, H265Inv, Parse
    PROVE  H265Inv'
<1> SUFFICES ASSUME stream.codec = "h265", stream' = stream PROVE H265Inv'
  BY CommonParse DEF H265Inv
<1>1. /\ Read' = Read /\ Handed' = Handed /\ ~task'.eos /\ ~task'.valid /\ ctx' = ctx
      /\ packet' = packet /\ eosPut' = eosPut /\ ends \in Nat
      /\ ends' = ends + (IF task.eos \/ ctx.eos THEN 1 ELSE 0)
  BY CommonParse DEF TaskInv
<1>2. ctx \in H265Context /\ ~task.eos /\ (ctx.eos \/ ends > 0 => eosPut # "no")
  BY DEF H265Inv
<1>3. ends' = ends + (IF ctx.eos THEN 1 ELSE 0)
  BY <1>1, <1>2
<1>4. ctx'.eos \/ ends' > 0 => eosPut' # "no"
  BY <1>1, <1>2, <1>3
<1>5. ASSUME NEW j, H265At(j) PROVE H265At(j)'
  BY <1>1, <1>3, <1>5 DEF H265At
<1>. QED  BY <1>1, <1>2, <1>4, <1>5 DEF H265Inv

(* A call of prepare, x being what was split.                              *)
H265Called(r, x) ==
    /\ Called(r, x.pos) /\ r.left = After(packet.data, x.pos)
    /\ r.ctx \in H265Context /\ r.ctx.eos = packet.eos
    /\ x.ctx.eos = packet.eos => r.ctx = x.ctx
    /\ r.task.valid <=> x.data # <<>>
    /\ r.task.data = x.data /\ ~r.task.eos

LEMMA H265Calls ==
    ASSUME NEW x, x.ctx \in H265Context, x.pos \in 0 .. Len(packet.data),
           packet.eos \in BOOLEAN, stream.codec = "h265",
           task \in [valid : BOOLEAN, eos : BOOLEAN, data : {task.data}], ~task.valid, ~task.eos, task.data = <<>>,
           x = IF packet.eos THEN [ctx |-> ctx, pos |-> 0, data |-> ctx.buffer] ELSE H265Split(ctx, packet.data),
           NEW r, r = PrepareOf(stream.codec, ctx, packet.data, packet.eos, task)
    PROVE  H265Called(r, x)
<1>1. PICK src, eos : src = packet.data /\ eos = packet.eos
  OBVIOUS
<1>2. r = H265Prepare(ctx, src, eos, task)
  BY <1>1 DEF PrepareOf
<1>3. x = IF eos THEN [ctx |-> ctx, pos |-> 0, data |-> ctx.buffer] ELSE H265Split(ctx, src)
  BY <1>1
<1>4. r = [ctx |-> [x.ctx EXCEPT !.eos = eos], left |-> After(src, x.pos),
           task |-> IF x.data = <<>> THEN task ELSE [task EXCEPT !.valid = TRUE, !.data = x.data]]
  <2>1. r = The({[ctx |-> [x.ctx EXCEPT !.eos = eos], left |-> After(src, x.pos),
                  task |-> IF x.data = <<>> THEN task ELSE [task EXCEPT !.valid = TRUE, !.data = x.data]]})
    <3>1. r = The({[ctx |-> [d.ctx EXCEPT !.eos = eos], left |-> After(src, d.pos),
                    task |-> IF d.data = <<>> THEN task ELSE [task EXCEPT !.valid = TRUE, !.data = d.data]] :
                   d \in {x}})
      BY ONLY <1>2, <1>3, Zenon DEF H265Prepare
    <3>. QED  BY ONLY <3>1, Zenon
  <2>2. PICK y : y = [ctx |-> [x.ctx EXCEPT !.eos = eos], left |-> After(src, x.pos),
                      task |-> IF x.data = <<>> THEN task ELSE [task EXCEPT !.valid = TRUE, !.data = x.data]]
    OBVIOUS
  <2>3. r = The({y})
    BY ONLY <2>1, <2>2, Zenon
  <2>4. r = y
    BY ONLY <2>3, TheOnly, Zenon
  <2>. QED  BY ONLY <2>2, <2>4, Zenon
<1>5. PICK c, b, st, fo, ov, e : c = x.ctx /\ c = H265Of(b, st, fo, ov, e)
                                 /\ b \in Seq(Bytes) /\ st \in Seq(Bytes) /\ fo \in BOOLEAN /\ ov \in Seq(Bytes)
                                 /\ e \in BOOLEAN
  <2>1. x.ctx = H265Of(x.ctx.buffer, x.ctx.state, x.ctx.found, x.ctx.over, x.ctx.eos)
    BY DEF H265Context, H265Of
  <2>2. /\ x.ctx.buffer \in Seq(Bytes) /\ x.ctx.state \in Seq(Bytes) /\ x.ctx.found \in BOOLEAN
        /\ x.ctx.over \in Seq(Bytes) /\ x.ctx.eos \in BOOLEAN
    BY H265ContextFacts
  <2>. QED  BY ONLY <2>1, <2>2, Zenon
<1>6. PICK d : d = [c EXCEPT !.eos = eos]
  OBVIOUS
<1>7. d = H265Of(b, st, fo, ov, eos)
  BY ONLY <1>5, <1>6 DEF H265Of
<1>8. eos \in BOOLEAN /\ d \in H265Context /\ d.eos = eos
  <2>1. eos \in BOOLEAN
    BY <1>1
  <2>. QED  BY ONLY <1>5, <1>7, <2>1 DEF H265Of, H265Context
<1>9. c.eos = e
  BY ONLY <1>5 DEF H265Of
<1>10. r.ctx = d /\ r.left = After(src, x.pos)
  BY ONLY <1>4, <1>5, <1>6
<1>11. /\ r.task \in [valid : BOOLEAN, eos : BOOLEAN, data : {r.task.data}]
       /\ r.task.data = x.data /\ r.task.eos = task.eos /\ (r.task.valid <=> x.data # <<>>)
  <2>1. CASE x.data = <<>>
    <3>1. r.task = task
      BY ONLY <1>4, <2>1
    <3>. QED  BY <2>1, <3>1
  <2>2. CASE x.data # <<>>
    <3>1. r.task = [task EXCEPT !.valid = TRUE, !.data = x.data]
      BY ONLY <1>4, <2>2
    <3>2. PICK data, t : data = x.data /\ t = r.task /\ t = [task EXCEPT !.valid = TRUE, !.data = data]
      BY ONLY <3>1
    <3>3. /\ t.data = data /\ t.eos = task.eos /\ t.valid = TRUE /\ t \in [valid : BOOLEAN, eos : BOOLEAN, data : {data}]
      BY ONLY <3>2, task \in [valid : BOOLEAN, eos : BOOLEAN, data : {task.data}]
    <3>. QED  BY ONLY <2>2, <3>2, <3>3
  <2>. QED  BY ONLY <2>1, <2>2
<1>12. Called(r, x.pos)
  <2>1. IF r.task.valid THEN r.task.data # <<>> ELSE r.task.data = <<>>
    BY ONLY <1>11
  <2>2. x.pos \in 0 .. Len(packet.data) /\ r.left = After(packet.data, x.pos)
    BY ONLY <1>1, <1>10, x.pos \in 0 .. Len(packet.data)
  <2>. QED  BY ONLY <1>11, <2>1, <2>2, r = PrepareOf(stream.codec, ctx, packet.data, packet.eos, task) DEF Called
<1>13. x.ctx.eos = packet.eos => r.ctx = x.ctx
  BY ONLY <1>1, <1>5, <1>7, <1>9, <1>10
<1>14. r.ctx \in H265Context /\ r.ctx.eos = packet.eos /\ r.left = After(packet.data, x.pos)
  BY ONLY <1>1, <1>8, <1>10
<1>15. ~r.task.eos
  BY <1>11
<1>. QED  BY ONLY <1>11, <1>12, <1>13, <1>14, <1>15 DEF H265Called

LEMMA H265Prepared ==
    ASSUME PacketInv, TaskInv, H265Inv, stream.codec = "h265", Prepare
    PROVE  PacketInv' /\ TaskInv' /\ H265Inv'
<1> DEFINE m == Len(stream.places)
<1>1. /\ packet # NoPacket /\ ~task.valid /\ task.data = <<>> /\ Handed = given
      /\ task \in [valid : BOOLEAN, eos : BOOLEAN, data : {task.data}] /\ ends \in Nat
  BY PrepareIs DEF TaskInv, Handed
<1>2. ctx \in H265Context /\ ~task.eos /\ (ctx.eos \/ ends > 0 => eosPut # "no")
  BY DEF H265Inv
<1>3. PICK q \in Nat, n \in Nat : q = Read /\ n = Len(packet.data)
  BY PartRead
<1>4. PICK s, src : s = stream /\ src = packet.data
  OBVIOUS
<1>5. /\ s \in Streams /\ s.codec = "h265" /\ q + n <= Len(s.bytes) /\ src = Between(s.bytes, q, q + n)
      /\ packet.eos \in BOOLEAN /\ src \in Seq(Bytes) /\ (packet.eos => eosPut # "no")
      /\ s.bytes \in Seq(Bytes) /\ Len(s.bytes) \in Nat
  <2>1. packet.eos => eosPut # "no"
    BY DEF PacketInv
  <2>2. packet.eos \in BOOLEAN /\ packet.data \in Seq(Bytes)
    BY PartRead
  <2>. QED  BY <1>3, <1>4, <2>1, <2>2, PartRead
<1>6. m \in Nat \ {0} /\ Len(s.pictures) = m /\ s.pictures \in Seq(Seq(Bytes))
      /\ \A i \in 1 .. m : s.pictures[i] # <<>> /\ s.pictures[i] = Between(s.bytes, s.places[i][1], s.places[i][2])
  BY <1>4, <1>5, H265Many, PlacesFacts
<1>7. PICK r : r = PrepareOf(stream.codec, ctx, packet.data, packet.eos, task)
  OBVIOUS
<1>8. CASE packet.eos
  <2>1. PICK x : x = [ctx |-> ctx, pos |-> 0, data |-> ctx.buffer]
    OBVIOUS
  <2>2. x.ctx = ctx /\ x.pos = 0 /\ x.data = ctx.buffer /\ x.pos \in 0 .. Len(packet.data) /\ x.ctx \in H265Context
    BY <1>2, <1>3, <2>1
  <2>3. H265Called(r, x)
    <3>1. x = IF packet.eos THEN [ctx |-> ctx, pos |-> 0, data |-> ctx.buffer] ELSE H265Split(ctx, packet.data)
      BY <1>8, <2>1
    <3>. QED  BY <1>1, <1>2, <1>5, <1>7, <2>2, <3>1, H265Calls
  <2>4. /\ Called(r, 0) /\ r.left = After(packet.data, 0) /\ r.ctx \in H265Context /\ r.ctx.eos
        /\ (r.task.valid <=> ctx.buffer # <<>>) /\ r.task.data = ctx.buffer /\ ~r.task.eos
    BY <1>8, <2>2, <2>3 DEF H265Called
  <2>5. /\ PacketInv' /\ TaskInv' /\ Handed' = (IF r.task.valid THEN Append(given, r.task.data) ELSE given)
        /\ ctx' = r.ctx /\ task' = r.task /\ (r.left = <<>> => packet' = NoPacket)
        /\ ends' = ends + 0 /\ stream' = stream /\ eosPut' = eosPut
    BY <2>4, CommonPrepare
  <2>6. ctx' \in H265Context /\ ~task'.eos /\ eosPut' # "no"
    BY <1>5, <1>8, <2>4, <2>5
  <2>7. ASSUME eosPut # "data" PROVE H265At(m)'
    <3>1. eosPut = "empty" /\ src = <<>>
      BY <1>4, <1>5, <1>8, <2>7 DEF PacketInv
    <3>2. q = Len(s.bytes)
      BY <1>1, <1>3, <1>4, <3>1, EmptyPacket
    <3>3. PICK j \in 0 .. m : H265At(j)
      BY <2>7 DEF H265Inv
    <3>4. /\ Handed = SubSeq(stream.pictures, 1, j) /\ Collecting(stream, Read, ctx, j) /\ ctx.over = <<>>
          /\ ends = 0
      BY <1>1, <1>4, <3>1, <3>3 DEF H265At
    <3>5. /\ j \in 0 .. m - 1 /\ q < Seen6(s, j + 1) /\ Gathered(ctx) = Between(s.bytes, s.places[j + 1][1], q)
      BY <1>3, <1>4, <3>4 DEF Collecting
    <3>6. PICK k \in 1 .. m : k = j + 1 /\ j \in 0 .. Len(s.pictures)
      BY <1>6, <3>5
    <3>7. k = m /\ s.places[k][2] = Len(s.bytes)
      <4>1. k \in 1 .. Len(s.places) /\ Len(s.bytes) < Seen6(s, k)
        BY <1>4, <3>2, <3>5, <3>6
      <4>. QED  BY ONLY <1>4, <1>5, <4>1, H265Places
    <3>8. ctx.buffer = Gathered(ctx)
      <4>1. ctx.buffer \in Seq(Bytes)
        BY <1>2, H265ContextFacts
      <4>2. \A b \in Seq(Bytes) : b \o <<>> = b
        OBVIOUS
      <4>. QED  BY ONLY <3>4, <4>1, <4>2 DEF Gathered
    <3>9. ctx.buffer = s.pictures[k] /\ s.pictures[k] # <<>>
      BY <1>6, <3>2, <3>5, <3>6, <3>7, <3>8
    <3>10. Handed' = Append(given, s.pictures[k])
      BY <2>4, <2>5, <3>9
    <3>11. Handed' = SubSeq(s.pictures, 1, m)
      <4>1. given = SubSeq(s.pictures, 1, j) /\ j < Len(s.pictures) /\ j + 1 = m
        BY <1>1, <1>4, <1>6, <3>4, <3>6, <3>7
      <4>2. SubSeq(s.pictures, 1, j + 1) = Append(SubSeq(s.pictures, 1, j), s.pictures[j + 1])
        BY <1>6, <3>6, <4>1, PrefixOf
      <4>. QED  BY ONLY <3>6, <3>10, <4>1, <4>2
    <3>12. r.left = <<>>
      <4>1. packet.data = <<>>
        BY <1>4, <3>1
      <4>2. After(<<>>, 0) = <<>>
        BY DEF After
      <4>. QED  BY ONLY <2>4, <4>1, <4>2
    <3>. QED  BY <1>4, <2>5, <3>1, <3>4, <3>11, <3>12 DEF H265At
  <2>8. m \in 0 .. m
    BY <1>6
  <2>. QED  BY <2>5, <2>6, <2>7, <2>8 DEF H265Inv
<1>9. CASE ~packet.eos
  <2>1. packet.data # <<>>
    BY <1>1, <1>9, EmptyPacket
  <2>2. eosPut = "no"
    BY <1>9, <2>1, PartRead
  <2>3. ~ctx.eos /\ ends = 0
    BY <1>1, <1>2, <2>2
  <2>4. PICK j \in 0 .. m : H265At(j)
    BY <2>2 DEF H265Inv
  <2>5. Handed = SubSeq(s.pictures, 1, j) /\ Collecting(s, q, ctx, j)
    BY <1>3, <1>4, <2>2, <2>4 DEF H265At
  <2>6. PICK x : x = H265Split(ctx, src)
    OBVIOUS
  <2>7. H265Steps(s, q, n, ctx, j, x)
    BY ONLY <1>2, <1>5, <2>5, <2>6, q \in Nat, n \in Nat, H265SplitStep
  <2>8. x.ctx \in H265Context /\ x.ctx.eos = ctx.eos /\ x.pos \in 0 .. n
    BY <2>7 DEF H265Steps, H265GoesOn, H265IsOver
  <2>9. H265Called(r, x)
    <3>1. x = IF packet.eos THEN [ctx |-> ctx, pos |-> 0, data |-> ctx.buffer] ELSE H265Split(ctx, packet.data)
      BY <1>4, <1>9, <2>6
    <3>2. x.pos \in 0 .. Len(packet.data)
      BY <1>3, <2>8
    <3>. QED  BY <1>1, <1>2, <1>5, <1>7, <2>8, <3>1, <3>2, H265Calls
  <2>10. PICK pos \in 0 .. n : pos = x.pos
    BY <2>8
  <2>11. /\ Called(r, pos) /\ r.left = After(packet.data, pos) /\ r.ctx = x.ctx
         /\ (r.task.valid <=> x.data # <<>>) /\ r.task.data = x.data /\ ~r.task.eos
    <3>1. x.ctx.eos = packet.eos
      <4>1. ctx.eos \in BOOLEAN
        BY <1>2, H265ContextFacts
      <4>. QED  BY <1>5, <1>9, <2>3, <2>8, <4>1
    <3>. QED  BY ONLY <2>9, <2>10, <3>1 DEF H265Called
  <2>12. /\ PacketInv' /\ TaskInv' /\ Handed' = (IF r.task.valid THEN Append(given, r.task.data) ELSE given)
         /\ Read' = q + pos /\ ctx' = x.ctx /\ task' = r.task
         /\ (r.left = <<>> <=> pos = n) /\ (r.left # <<>> => packet'.data = r.left)
         /\ ends' = ends + 0 /\ stream' = stream /\ eosPut' = eosPut
    <3>1. /\ PacketInv' /\ TaskInv' /\ Read' = Read + pos
          /\ Handed' = (IF r.task.valid THEN Append(given, r.task.data) ELSE given)
      BY <2>11, CommonPrepare
    <3>2. ctx' = r.ctx /\ task' = r.task /\ (r.left = <<>> <=> pos = Len(packet.data))
      BY <2>11, CommonPrepare
    <3>3. /\ ends' = ends + (IF r.task.eos /\ ~r.task.valid THEN 1 ELSE 0)
          /\ (r.left # <<>> => packet'.data = r.left) /\ stream' = stream /\ eosPut' = eosPut
      BY <2>11, CommonPrepare
    <3>4. ends' = ends + 0
      BY ONLY <2>11, <3>3
    <3>. QED  BY ONLY <1>3, <2>11, <3>1, <3>2, <3>3, <3>4
  <2>13. ctx' \in H265Context /\ ~task'.eos /\ ~ctx'.eos /\ ends' = 0
    BY <2>3, <2>8, <2>11, <2>12
  <2>14. \E k \in 0 .. m : H265At(k)'
    <3>1. CASE H265GoesOn(s, q, n, j, x)
      <4>1. pos = n /\ x.data = <<>> /\ x.ctx.over = <<>> /\ Collecting(s, q + n, x.ctx, j)
        BY <2>10, <3>1 DEF H265GoesOn
      <4>2. Handed' = SubSeq(s.pictures, 1, j)
        BY <1>1, <2>5, <2>11, <2>12, <4>1
      <4>3. H265At(j)'
        BY ONLY <1>4, <2>12, <2>13, <4>1, <4>2 DEF H265At
      <4>. QED  BY <4>3
    <3>2. CASE H265IsOver(s, q, n, j, x)
      <4>1. /\ x.data = s.pictures[j + 1] /\ j + 1 < Len(s.places) /\ (x.ctx.over = <<>> \/ pos < n)
            /\ Collecting(s, q + pos, x.ctx, j + 1)
        BY <2>10, <3>2 DEF H265IsOver
      <4>2. PICK k \in 0 .. m : k = j + 1 /\ k \in 1 .. m /\ j < Len(s.pictures) /\ j \in 0 .. Len(s.pictures)
        BY <1>4, <1>6, <4>1
      <4>3. x.data # <<>>
        BY <1>6, <4>1, <4>2
      <4>4. Handed' = SubSeq(s.pictures, 1, k)
        <5>1. Handed' = Append(SubSeq(s.pictures, 1, j), s.pictures[j + 1])
          BY <1>1, <2>5, <2>11, <2>12, <4>1, <4>3
        <5>2. SubSeq(s.pictures, 1, j + 1) = Append(SubSeq(s.pictures, 1, j), s.pictures[j + 1])
          BY <1>6, <4>2, PrefixOf
        <5>. QED  BY ONLY <4>2, <5>1, <5>2
      <4>5. packet'.data = <<>> => x.ctx.over = <<>>
        BY <2>12, <4>1
      <4>6. H265At(k)'
        BY ONLY <1>4, <2>12, <2>13, <4>1, <4>2, <4>4, <4>5 DEF H265At
      <4>. QED  BY <4>6
    <3>. QED  BY ONLY <2>7, <3>1, <3>2 DEF H265Steps
  <2>. QED  BY <2>12, <2>13, <2>14 DEF H265Inv
<1>. QED  BY <1>5, <1>8, <1>9

LEMMA H265Gives ==
    ASSUME PacketInv, TaskInv, H265Inv, stream.codec = "h265"
    PROVE  PicturesIntact /\ EndsComplete
<1>1. stream \in Streams
  BY DEF PacketInv
<1>2. Len(stream.places) \in Nat \ {0} /\ stream.pictures \in Seq(Seq(Bytes)) /\ Len(stream.pictures) = Len(stream.places)
  BY <1>1, H265Many, PlacesFacts
<1>3. PicturesIntact
  <2> SUFFICES ASSUME ~EndWithBytes PROVE IsPrefix(given, stream.pictures)
    BY DEF PicturesIntact, SplitEnded
  <2>1. PICK j \in 0 .. Len(stream.places) : H265At(j)
    BY DEF H265Inv, EndWithBytes
  <2>2. Handed = SubSeq(stream.pictures, 1, j) /\ j \in 0 .. Len(stream.pictures)
    BY <1>2, <2>1 DEF H265At
  <2>. QED  BY <1>2, <2>2, GivenOfHanded
<1>4. EndsComplete
  <2> SUFFICES ASSUME ends > 0 PROVE EndsComplete
    BY DEF EndsComplete
  <2>1. eosPut # "no"
    BY DEF H265Inv
  <2>2. ASSUME eosPut = "empty" PROVE given = stream.pictures
    <3>1. PICK j \in 0 .. Len(stream.places) : H265At(j)
      BY <2>2 DEF H265Inv
    <3>2. Handed = SubSeq(stream.pictures, 1, j) /\ j = Len(stream.pictures) /\ ~task.valid
      BY <1>2, <3>1 DEF H265At
    <3>3. given = SubSeq(stream.pictures, 1, j)
      BY <3>2 DEF Handed
    <3>. QED  BY <1>2, <3>2, <3>3, PrefixOf
  <2>. QED  BY <2>1, <2>2 DEF EndsComplete
<1>. QED  BY <1>3, <1>4
-----------------------------------------------------------------------------
(***************************************************************************)
(* The codecs together.                                                    *)
(***************************************************************************)
SplitInv ==
    /\ PacketInv /\ TaskInv
    /\ CodeInv /\ CopyInv /\ H263Inv /\ AvsInv /\ Vp9Inv /\ H264Inv /\ H265Inv

LEMMA SplitInit == Init => SplitInv
<1> SUFFICES ASSUME Init PROVE SplitInv
  OBVIOUS
<1>1. PacketInv /\ TaskInv
  BY CommonInit
<1>2. CodeInv /\ H263Inv /\ AvsInv /\ Vp9Inv /\ H264Inv /\ H265Inv
  BY CodeInit, H263Init, AvsInit, Vp9Init, H264Init, H265Init
<1>3. CopyInv
  BY DEF Init, CopyInv, SplitEnded
<1>. QED  BY <1>1, <1>2, <1>3 DEF SplitInv

LEMMA SplitUser ==
    ASSUME SplitInv, (\E to \in 1 .. Len(stream.bytes) : PutPacket(to)) \/ PutEnd
    PROVE  SplitInv'
<1>1. PacketInv /\ TaskInv /\ CodeInv /\ CopyInv /\ H263Inv /\ AvsInv /\ Vp9Inv /\ H264Inv /\ H265Inv
  BY DEF SplitInv
<1>2. PacketInv' /\ TaskInv'
  BY <1>1, CommonPut, CommonEnd
<1>3. CodeInv' /\ CopyInv' /\ H263Inv' /\ AvsInv'
  BY <1>1, CodeUser, CopyUser, H263User, AvsUser
<1>4. Vp9Inv' /\ H264Inv' /\ H265Inv'
  BY <1>1, Vp9User, H264User, H265User
<1>. QED  BY <1>2, <1>3, <1>4 DEF SplitInv

LEMMA SplitParse ==
    ASSUME SplitInv, Parse
    PROVE  SplitInv'
<1>1. PacketInv /\ TaskInv /\ CodeInv /\ CopyInv /\ H263Inv /\ AvsInv /\ Vp9Inv /\ H264Inv /\ H265Inv
  BY DEF SplitInv
<1>2. PacketInv' /\ TaskInv'
  BY <1>1, CommonParse
<1>3. CodeInv' /\ CopyInv' /\ H263Inv' /\ AvsInv'
  BY <1>1, CodeParse, CopyParse, H263Parse, AvsParse
<1>4. Vp9Inv' /\ H264Inv' /\ H265Inv'
  BY <1>1, Vp9Parse, H264Parse, H265Parse
<1>. QED  BY <1>2, <1>3, <1>4 DEF SplitInv

LEMMA SplitResets ==
    ASSUME SplitInv, Reset
    PROVE  SplitInv'
<1>1. PacketInv /\ TaskInv /\ CodeInv /\ CopyInv /\ H263Inv /\ AvsInv /\ Vp9Inv /\ H264Inv /\ H265Inv
  BY DEF SplitInv
<1>2. PacketInv' /\ TaskInv'
  BY <1>1, CommonReset
<1>3. CodeInv' /\ CopyInv' /\ H263Inv' /\ AvsInv'
  BY <1>1, CodeReset, CopyReset, H263Resets, AvsResets
<1>4. Vp9Inv' /\ H264Inv' /\ H265Inv'
  BY <1>1, Vp9Resets, H264Resets, H265Resets
<1>. QED  BY <1>2, <1>3, <1>4 DEF SplitInv

(* One way of splitting is at work, what is said of the others is vacuous. *)
LEMMA OneSplits ==
    ASSUME PacketInv
    PROVE  \/ ByCodes \/ SplitEnded \/ stream.codec = "h263" \/ stream.codec = "avs"
           \/ stream.codec = "vp9" \/ stream.codec = "h264" \/ stream.codec = "h265"
<1>1. stream.codec \in SplitCodecs
  BY StreamFacts DEF PacketInv
<1>. QED  BY <1>1 DEF SplitCodecs, ByCodes, SplitEnded

LEMMA SplitPrepare ==
    ASSUME SplitInv, Prepare
    PROVE  SplitInv'
<1>1. PacketInv /\ TaskInv /\ CodeInv /\ CopyInv /\ H263Inv /\ AvsInv /\ Vp9Inv /\ H264Inv /\ H265Inv
  BY DEF SplitInv
<1>2. stream' = stream /\ resets' = resets
  BY DEF Prepare
<1>3. /\ ~ByCodes => CodeInv'
      /\ ~SplitEnded => CopyInv'
  BY <1>2 DEF CodeInv, ByCodes, CopyInv, SplitEnded
<1>4. /\ stream.codec # "h263" => H263Inv'
      /\ stream.codec # "avs" => AvsInv'
      /\ stream.codec # "vp9" => Vp9Inv'
      /\ stream.codec # "h264" => H264Inv'
      /\ stream.codec # "h265" => H265Inv'
  BY <1>2 DEF H263Inv, AvsInv, Vp9Inv, H264Inv, H265Inv
<1>5. /\ ByCodes => stream.codec \in {"mpg4", "m2v"} /\ ~SplitEnded
      /\ SplitEnded => stream.codec = "m2v"
  BY DEF ByCodes, SplitEnded
<1>6. CASE ByCodes
  <2>1. PacketInv' /\ TaskInv' /\ CodeInv'
    BY <1>1, <1>6, CodePrepare
  <2>. QED  BY <1>3, <1>4, <1>5, <1>6, <2>1 DEF SplitInv
<1>7. CASE SplitEnded
  <2>1. PacketInv' /\ TaskInv' /\ CopyInv'
    BY <1>1, <1>7, CopyPrepare
  <2>. QED  BY <1>3, <1>4, <1>5, <1>7, <2>1 DEF SplitInv
<1>8. CASE stream.codec = "h263"
  <2>1. PacketInv' /\ TaskInv' /\ H263Inv'
    BY <1>1, <1>8, H263Prepared
  <2>. QED  BY <1>3, <1>4, <1>5, <1>8, <2>1 DEF SplitInv
<1>9. CASE stream.codec = "avs"
  <2>1. PacketInv' /\ TaskInv' /\ AvsInv'
    BY <1>1, <1>9, AvsPrepared
  <2>. QED  BY <1>3, <1>4, <1>5, <1>9, <2>1 DEF SplitInv
<1>10. CASE stream.codec = "vp9"
  <2>1. PacketInv' /\ TaskInv' /\ Vp9Inv'
    BY <1>1, <1>10, Vp9Prepared
  <2>. QED  BY <1>3, <1>4, <1>5, <1>10, <2>1 DEF SplitInv
<1>11. CASE stream.codec = "h264"
  <2>1. PacketInv' /\ TaskInv' /\ H264Inv'
    BY <1>1, <1>11, H264Prepared
  <2>. QED  BY <1>3, <1>4, <1>5, <1>11, <2>1 DEF SplitInv
<1>12. CASE stream.codec = "h265"
  <2>1. PacketInv' /\ TaskInv' /\ H265Inv'
    BY <1>1, <1>12, H265Prepared
  <2>. QED  BY <1>3, <1>4, <1>5, <1>12, <2>1 DEF SplitInv
<1>. QED  BY <1>1, <1>6, <1>7, <1>8, <1>9, <1>10, <1>11, <1>12, OneSplits

LEMMA SplitStutters ==
    ASSUME SplitInv, UNCHANGED vars
    PROVE  SplitInv'
<1>1. /\ stream' = stream /\ put' = put /\ eosPut' = eosPut /\ packet' = packet /\ ctx' = ctx /\ task' = task
      /\ given' = given /\ ends' = ends /\ resets' = resets /\ eosBefore' = eosBefore
  BY DEF vars
<1>2. Read' = Read /\ Handed' = Handed /\ (Told <=> Told') /\ (ByCodes <=> ByCodes') /\ (SplitEnded <=> SplitEnded')
  BY <1>1 DEF Read, Handed, Told, ByCodes, SplitEnded
<1>3. PacketInv' /\ TaskInv'
  BY <1>1, <1>2 DEF SplitInv, PacketInv, TaskInv
<1>4. CodeInv' /\ CopyInv'
  BY <1>1, <1>2 DEF SplitInv, CodeInv, CodesAt, CopyInv
<1>5. H263Inv' /\ AvsInv' /\ H264Inv'
  BY <1>1, <1>2 DEF SplitInv, H263Inv, AvsInv, H264Inv
<1>6. Vp9Inv'
  BY <1>1, <1>2, ZenonT(60) DEF SplitInv, Vp9Inv, Vp9At, Vp9Waits, Vp9Fresh, Vp9Inside
<1>7. H265Inv'
  BY <1>1, <1>2 DEF SplitInv, H265Inv, H265At
<1>. QED  BY <1>3, <1>4, <1>5, <1>6, <1>7 DEF SplitInv

(* What is in the packet, in the parser's context and in the task is the   *)
(* rest of the stream behind the pictures that were handed over, whatever  *)
(* the codec is and in whatever packets the stream is put.                 *)
THEOREM SplitInvariant == Spec => []SplitInv
<1>1. Init => SplitInv
  BY SplitInit
<1>2. SplitInv /\ [Next]_vars => SplitInv'
  <2> SUFFICES ASSUME SplitInv, [Next]_vars PROVE SplitInv'
    OBVIOUS
  <2>1. CASE (\E to \in 1 .. Len(stream.bytes) : PutPacket(to)) \/ PutEnd
    BY <2>1, SplitUser
  <2>2. CASE Prepare
    BY <2>2, SplitPrepare
  <2>3. CASE Parse
    BY <2>3, SplitParse
  <2>4. CASE Reset
    BY <2>4, SplitResets
  <2>5. CASE UNCHANGED vars
    BY <2>5, SplitStutters
  <2>. QED  BY <2>1, <2>2, <2>3, <2>4, <2>5 DEF Next
<1>. QED  BY <1>1, <1>2, PTL DEF Spec

(* The types of the variables; a packet that is kept, and the data of a    *)
(* picture that prepare gives to parse, are never empty.                   *)
THEOREM SplitTypeOK == Spec => []TypeOK
<1>1. SplitInv => TypeOK
  <2> SUFFICES ASSUME PacketInv, TaskInv PROVE TypeOK
    BY DEF SplitInv
  <2>1. /\ stream \in Streams /\ put \in 0 .. Len(stream.bytes) /\ eosPut \in {"no", "data", "empty"}
        /\ packet \in [data : Seq(Bytes), eos : BOOLEAN]
    BY DEF PacketInv
  <2>2. DOMAIN packet = {"data", "eos"} /\ packet.eos \in BOOLEAN
    BY ONLY <2>1
  <2>3. /\ task \in [valid : BOOLEAN, eos : BOOLEAN, data : {task.data}] /\ (task.valid => task.data # <<>>)
        /\ ends \in 0 .. EndBound /\ resets \in 0 .. stream.resets
    BY DEF TaskInv
  <2>4. DOMAIN task = {"valid", "eos", "data"} /\ task.valid \in BOOLEAN /\ task.eos \in BOOLEAN
    BY ONLY <2>3
  <2>5. ends \in 0 .. EndBound + 1
    BY <2>3, StreamsAssumption
  <2>. QED  BY ONLY <2>1, <2>2, <2>3, <2>4, <2>5 DEF TypeOK
<1>. QED  BY <1>1, SplitInvariant, PTL

LEMMA SplitGives ==
    ASSUME SplitInv
    PROVE  PicturesIntact /\ EndsComplete
<1>1. PacketInv /\ TaskInv /\ CodeInv /\ CopyInv /\ H263Inv /\ AvsInv /\ Vp9Inv /\ H264Inv /\ H265Inv
  BY DEF SplitInv
<1>2. ByCodes => PicturesIntact /\ EndsComplete
  BY <1>1, CodeGives
<1>3. SplitEnded => PicturesIntact /\ EndsComplete
  BY <1>1, CopyGives
<1>4. stream.codec = "h263" => PicturesIntact /\ EndsComplete
  BY <1>1, H263Gives
<1>5. stream.codec = "avs" => PicturesIntact /\ EndsComplete
  BY <1>1, AvsGives
<1>6. stream.codec = "vp9" => PicturesIntact /\ EndsComplete
  BY <1>1, Vp9Gives
<1>7. stream.codec = "h264" => PicturesIntact /\ EndsComplete
  BY <1>1, H264Given
<1>8. stream.codec = "h265" => PicturesIntact /\ EndsComplete
  BY <1>1, H265Gives
<1>. QED  BY <1>1, <1>2, <1>3, <1>4, <1>5, <1>6, <1>7, <1>8, OneSplits

(* However the user cuts a stream into packets, and whenever he resets the *)
(* decoder, parse is given the pictures of the stream in their order: none *)
(* torn or merged, none twice, none left out before another.               *)
THEOREM SplitPicturesIntact == Spec => []PicturesIntact
<1>1. SplitInv => PicturesIntact
  BY SplitGives
<1>. QED  BY <1>1, SplitInvariant, PTL

(* The end of the stream is told only after it was put, and when it is,    *)
(* the pictures that the codec's parser hands over at an end have all been *)
(* handed over.                                                            *)
THEOREM SplitEndsComplete == Spec => []EndsComplete
<1>1. SplitInv => EndsComplete
  BY SplitGives
<1>. QED  BY <1>1, SplitInvariant, PTL
=============================================================================
