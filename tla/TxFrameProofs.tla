--------------------------- MODULE TxFrameProofs ---------------------------
(***************************************************************************)
(* What svc_txframe keeps, for every size, prefix, reserve and set of      *)
(* frames: the ring is always a row of whole frames, and unless the last   *)
(* one was urgent the reserve is free.                                     *)
(***************************************************************************)
EXTENDS TxFrame, TLAPS

-----------------------------------------------------------------------------
(* Places around the ring.                                                 *)

(* A remainder is a sum in three ranges: inside the ring,                  *)
LEMMA ModInside ==
  ASSUME NEW N \in Nat \ {0}, NEW a \in 0 .. N - 1 PROVE a % N = a
  OBVIOUS
(* a turn further,                                                         *)
LEMMA ModTurnAfter ==
  ASSUME NEW N \in Nat \ {0}, NEW a \in N .. 2 * N - 1 PROVE a % N = a - N
  OBVIOUS
(* and a turn before.                                                      *)
LEMMA ModTurnBefore ==
  ASSUME NEW N \in Nat \ {0}, NEW a \in -N .. -1 PROVE a % N = a + N
  OBVIOUS

(* The ring has a byte.                                                    *)
LEMMA SizeIs == Size \in Nat \ {0}
  BY RingAssumption

(* Some bytes further on, with at most one wrap.                           *)
LEMMA PlaceIs ==
  ASSUME NEW p \in Cells, NEW j \in Cells
  PROVE  /\ Place(p, j) = IF p + j < Size THEN p + j ELSE p + j - Size
         /\ Place(p, j) \in Cells
<1>1. /\ Size \in Nat \ {0} /\ p \in Int /\ j \in Int
      /\ 0 <= p /\ p < Size /\ 0 <= j /\ j < Size
  BY SizeIs DEF Cells
<1>2. CASE p + j < Size
  <2>1. p + j \in 0 .. Size - 1 BY <1>1, <1>2
  <2> QED BY <1>1, <1>2, <2>1, ModInside DEF Place, Cells
<1>3. CASE ~(p + j < Size)
  <2>1. p + j \in Size .. 2 * Size - 1 BY <1>1, <1>3
  <2>2. (p + j) % Size = (p + j) - Size BY <1>1, <2>1, ModTurnAfter
  <2>3. Place(p, j) = p + j - Size BY <1>1, <2>2 DEF Place
  <2> QED BY <1>1, <1>3, <2>3 DEF Cells
<1> QED BY <1>2, <1>3

(* How far one place is behind another.                                    *)
LEMMA DistIs ==
  ASSUME NEW i \in Cells, NEW p \in Cells
  PROVE  /\ Dist(i, p) = IF i >= p THEN i - p ELSE i - p + Size
         /\ Dist(i, p) \in Cells
<1>1. /\ Size \in Nat \ {0} /\ p \in Int /\ i \in Int
      /\ 0 <= p /\ p < Size /\ 0 <= i /\ i < Size
  BY SizeIs DEF Cells
<1>2. CASE i >= p
  <2>1. i - p \in 0 .. Size - 1 BY <1>1, <1>2
  <2> QED BY <1>1, <1>2, <2>1, ModInside DEF Dist, Cells
<1>3. CASE ~(i >= p)
  <2>1. i - p \in -Size .. -1 BY <1>1, <1>3
  <2>2. Dist(i, p) = i - p + Size BY <1>1, <2>1, ModTurnBefore DEF Dist
  <2> QED BY <1>1, <1>3, <2>2 DEF Cells
<1> QED BY <1>2, <1>3

(* Two places counted from a third.                                        *)
LEMMA DistBetween ==
  ASSUME NEW p \in Cells, NEW j \in Cells, NEW u \in Cells
  PROVE  Dist(Place(p, j), Place(p, u)) = IF j >= u THEN j - u ELSE j - u + Size
<1>1. /\ Size \in Nat \ {0} /\ p \in Int /\ j \in Int /\ u \in Int
      /\ 0 <= p /\ p < Size /\ 0 <= j /\ j < Size /\ 0 <= u /\ u < Size
  BY SizeIs DEF Cells
<1>2. /\ Place(p, j) = IF p + j < Size THEN p + j ELSE p + j - Size
      /\ Place(p, u) = IF p + u < Size THEN p + u ELSE p + u - Size
      /\ Place(p, j) \in Cells /\ Place(p, u) \in Cells
  BY PlaceIs
<1>3. Dist(Place(p, j), Place(p, u))
        = IF Place(p, j) >= Place(p, u) THEN Place(p, j) - Place(p, u)
          ELSE Place(p, j) - Place(p, u) + Size
  BY <1>2, DistIs
<1> QED BY <1>1, <1>2, <1>3

(* Going there and measuring is the same distance.                         *)
LEMMA DistPlace ==
  ASSUME NEW p \in Cells, NEW j \in Cells
  PROVE  Dist(Place(p, j), p) = j
<1>1. /\ Size \in Nat \ {0} /\ p \in Int /\ j \in Int
      /\ 0 <= p /\ p < Size /\ 0 <= j /\ j < Size
  BY SizeIs DEF Cells
<1>2. /\ Place(p, j) = IF p + j < Size THEN p + j ELSE p + j - Size
      /\ Place(p, j) \in Cells
  BY PlaceIs
<1>3. Dist(Place(p, j), p)
        = IF Place(p, j) >= p THEN Place(p, j) - p ELSE Place(p, j) - p + Size
  BY <1>2, DistIs
<1> QED BY <1>1, <1>2, <1>3

(* Measuring and going there is the same place.                            *)
LEMMA PlaceDist ==
  ASSUME NEW p \in Cells, NEW i \in Cells
  PROVE  Place(p, Dist(i, p)) = i
<1>1. /\ Size \in Nat \ {0} /\ p \in Int /\ i \in Int
      /\ 0 <= p /\ p < Size /\ 0 <= i /\ i < Size
  BY SizeIs DEF Cells
<1>2. /\ Dist(i, p) = IF i >= p THEN i - p ELSE i - p + Size
      /\ Dist(i, p) \in Cells
  BY DistIs
<1>3. Place(p, Dist(i, p))
        = IF p + Dist(i, p) < Size THEN p + Dist(i, p) ELSE p + Dist(i, p) - Size
  BY <1>2, PlaceIs
<1> QED BY <1>1, <1>2, <1>3

(* Two walks in a row that are less than a turn.                           *)
LEMMA PlacePlace ==
  ASSUME NEW p \in Cells, NEW n \in Cells, NEW j \in Cells, n + j < Size
  PROVE  Place(Place(p, n), j) = Place(p, n + j)
<1>1. /\ Size \in Nat \ {0} /\ p \in Int /\ n \in Int /\ j \in Int
      /\ 0 <= p /\ p < Size /\ 0 <= n /\ n < Size /\ 0 <= j /\ j < Size
  BY SizeIs DEF Cells
<1>2. n + j \in Cells BY <1>1 DEF Cells
<1>3. /\ Place(p, n) = IF p + n < Size THEN p + n ELSE p + n - Size
      /\ Place(p, n) \in Cells
      /\ Place(p, n + j) = IF p + (n + j) < Size THEN p + (n + j) ELSE p + (n + j) - Size
  BY <1>2, PlaceIs
<1>4. Place(Place(p, n), j)
        = IF Place(p, n) + j < Size THEN Place(p, n) + j ELSE Place(p, n) + j - Size
  BY <1>3, PlaceIs
<1> QED BY <1>1, <1>3, <1>4

-----------------------------------------------------------------------------
(* A write goes behind what is there and leaves it alone; a drop takes the *)
(* first bytes away and leaves the others alone.                           *)

(* A frame is as long as its prefix and its bytes.                         *)
LEMMA NeedIs ==
  ASSUME NEW f \in Frames PROVE Need(f) \in Nat /\ Need(f) > 0
<1>1. Prefix \in Nat /\ Prefix > 0 /\ f.len \in Nat
  BY RingAssumption, FramesAssumption
<1> QED BY <1>1 DEF Need

(* The parts of a ring.                                                    *)
LEMMA RingParts ==
  ASSUME NEW r \in Ring
  PROVE  /\ r.head \in Cells /\ r.tail \in Cells
         /\ r.buf \in [Cells -> Bytes \cup {NoByte}]
         /\ Used(r) \in Cells /\ Used(r) \in Nat /\ Used(r) < Size
         /\ r.head = Place(r.tail, Used(r))
<1>1. /\ r.head \in Cells /\ r.tail \in Cells
      /\ r.buf \in [Cells -> Bytes \cup {NoByte}]
  BY DEF Ring
<1>2. Used(r) \in Cells
  BY <1>1, DistIs DEF Used
<1>3. r.head = Place(r.tail, Used(r))
  BY <1>1, PlaceDist DEF Used
<1> QED BY <1>1, <1>2, <1>3, SizeIs DEF Cells

(* ring_write of a frame for which there is room.                          *)
LEMMA WrittenIs ==
  ASSUME NEW r \in Ring, NEW f \in Frames, Used(r) + Need(f) < Size
  PROVE  /\ Written(r, f) \in Ring
         /\ Used(Written(r, f)) = Used(r) + Need(f)
         /\ \A j \in 0 .. Used(r) - 1 : ByteAt(Written(r, f), j) = ByteAt(r, j)
         /\ \A k \in 0 .. Need(f) - 1 : ByteAt(Written(r, f), Used(r) + k) = <<f, k>>
<1> DEFINE w == Written(r, f)
           u == Used(r)
           n == Need(f)
<1>1. /\ r.head \in Cells /\ r.tail \in Cells
      /\ r.buf \in [Cells -> Bytes \cup {NoByte}]
      /\ u \in Cells /\ u \in Nat /\ r.head = Place(r.tail, u)
  BY RingParts
<1>2. /\ n \in Nat /\ n > 0 /\ Size \in Nat \ {0} /\ n \in Cells /\ u + n \in Cells
      /\ u + n < Size
  BY <1>1, NeedIs, SizeIs DEF Cells
<1>3. /\ w.head = Place(r.head, n) /\ w.tail = r.tail
      /\ w.buf = [i \in Cells |-> IF Dist(i, r.head) < n THEN <<f, Dist(i, r.head)>>
                                  ELSE r.buf[i]]
  BY DEF Written
<1>4. w.head = Place(r.tail, u + n) /\ w.head \in Cells
  <2> HIDE DEF u, n, w
  <2>1. Place(Place(r.tail, u), n) = Place(r.tail, u + n)
    BY <1>1, <1>2, PlacePlace
  <2>2. Place(r.tail, u + n) \in Cells
    BY <1>1, <1>2, PlaceIs
  <2> QED BY <1>1, <1>3, <2>1, <2>2
<1>5. w \in Ring
  <2>1. \A i \in Cells : w.buf[i] \in Bytes \cup {NoByte}
    <3> TAKE i \in Cells
    <3>1. CASE Dist(i, r.head) < n
      <4>1. Dist(i, r.head) \in Cells BY <1>1, DistIs
      <4>2. Dist(i, r.head) \in 0 .. Size BY <1>2, <4>1 DEF Cells
      <4>3. w.buf[i] = <<f, Dist(i, r.head)>> BY <1>3, <3>1
      <4> QED BY <3>1, <4>2, <4>3 DEF Bytes
    <3>2. CASE ~(Dist(i, r.head) < n)
      BY <1>1, <1>3, <3>2
    <3> QED BY <3>1, <3>2
  <2>2. w.buf \in [Cells -> Bytes \cup {NoByte}]
    BY <1>3, <2>1
  <2>3. w = [buf |-> w.buf, head |-> w.head, tail |-> w.tail]
    BY DEF Written
  <2> QED BY <1>1, <1>3, <1>4, <2>2, <2>3 DEF Ring
<1>6. Used(w) = u + n
  BY <1>1, <1>2, <1>3, <1>4, DistPlace DEF Used
<1>7. \A j \in 0 .. u - 1 : ByteAt(w, j) = ByteAt(r, j)
  <2> TAKE j \in 0 .. u - 1
  <2>1. j \in Cells /\ j < u BY <1>1, <1>2 DEF Cells
  <2>2. Place(r.tail, j) \in Cells BY <1>1, <2>1, PlaceIs
  <2>3. Dist(Place(r.tail, j), r.head) = j - u + Size
    <3> HIDE DEF u, n, w
    <3>1. Dist(Place(r.tail, j), Place(r.tail, u)) = IF j >= u THEN j - u ELSE j - u + Size
      BY <1>1, <2>1, DistBetween
    <3>2. ~(j >= u) BY <1>1, <2>1
    <3> QED BY <1>1, <3>1, <3>2
  <2>4. ~(Dist(Place(r.tail, j), r.head) < n)
    BY <1>1, <1>2, <2>1, <2>3
  <2> QED BY <1>3, <2>2, <2>4 DEF ByteAt
<1>8. \A k \in 0 .. n - 1 : ByteAt(w, u + k) = <<f, k>>
  <2> TAKE k \in 0 .. n - 1
  <2>1. u + k \in Cells /\ k \in Nat /\ k < n BY <1>1, <1>2 DEF Cells
  <2>2. Place(r.tail, u + k) \in Cells BY <1>1, <2>1, PlaceIs
  <2>3. Dist(Place(r.tail, u + k), Place(r.tail, u))
          = IF u + k >= u THEN u + k - u ELSE u + k - u + Size
    BY <1>1, <2>1, DistBetween
  <2>4. Dist(Place(r.tail, u + k), r.head) = k
    BY <1>1, <2>1, <2>3
  <2> QED BY <1>3, <2>1, <2>2, <2>4 DEF ByteAt
<1> QED BY <1>5, <1>6, <1>7, <1>8

(* drop_front of n bytes that are there.                                   *)
LEMMA DroppedIs ==
  ASSUME NEW r \in Ring, NEW n \in Nat, n <= Used(r)
  PROVE  /\ Dropped(r, n) \in Ring
         /\ Used(Dropped(r, n)) = Used(r) - n
         /\ \A j \in 0 .. Used(r) - n - 1 : ByteAt(Dropped(r, n), j) = ByteAt(r, n + j)
<1> DEFINE d == Dropped(r, n)
           u == Used(r)
<1>1. /\ r.head \in Cells /\ r.tail \in Cells
      /\ r.buf \in [Cells -> Bytes \cup {NoByte}]
      /\ u \in Cells /\ u \in Nat /\ u < Size /\ r.head = Place(r.tail, u)
  BY RingParts
<1>2. n \in Cells /\ Size \in Nat \ {0}
  BY <1>1, SizeIs DEF Cells
<1>3. /\ d.head = r.head /\ d.tail = Place(r.tail, n)
      /\ d.buf = [i \in Cells |-> IF Dist(i, r.tail) < n THEN NoByte ELSE r.buf[i]]
  BY DEF Dropped
<1>4. d.tail \in Cells
  BY <1>1, <1>2, <1>3, PlaceIs
<1>5. d \in Ring
  <2>1. \A i \in Cells : d.buf[i] \in Bytes \cup {NoByte}
    BY <1>1, <1>3
  <2>2. d.buf \in [Cells -> Bytes \cup {NoByte}]
    BY <1>3, <2>1
  <2>3. d = [buf |-> d.buf, head |-> d.head, tail |-> d.tail]
    BY DEF Dropped
  <2> QED BY <1>1, <1>3, <1>4, <2>2, <2>3 DEF Ring
<1>6. Used(d) = u - n
  <2>1. Dist(Place(r.tail, u), Place(r.tail, n)) = IF u >= n THEN u - n ELSE u - n + Size
    BY <1>1, <1>2, DistBetween
  <2>2. Used(d) = Dist(r.head, Place(r.tail, n)) BY <1>3 DEF Used
  <2> QED BY <1>1, <2>1, <2>2
<1>7. \A j \in 0 .. u - n - 1 : ByteAt(d, j) = ByteAt(r, n + j)
  <2> TAKE j \in 0 .. u - n - 1
  <2>1. j \in Cells /\ n + j \in Cells /\ n + j < Size /\ j >= 0
    BY <1>1, <1>2 DEF Cells
  <2>2. Place(d.tail, j) = Place(r.tail, n + j)
    <3>1. Place(Place(r.tail, n), j) = Place(r.tail, n + j)
      BY <1>1, <1>2, <2>1, PlacePlace
    <3> QED BY <1>3, <3>1
  <2>3. Dist(Place(r.tail, n + j), r.tail) = n + j /\ Place(r.tail, n + j) \in Cells
    BY <1>1, <2>1, DistPlace, PlaceIs
  <2>4. ~(n + j < n) BY <1>2, <2>1 DEF Cells
  <2> QED BY <1>3, <2>2, <2>3, <2>4 DEF ByteAt
<1> QED BY <1>5, <1>6, <1>7

-----------------------------------------------------------------------------
(* The ring holds whole frames, one behind the other.                      *)
Lies(r, f, j) ==
  /\ j + Need(f) <= Used(r)
  /\ \A k \in 0 .. Need(f) - 1 : ByteAt(r, j + k) = <<f, k>>
ByteOfFrame(r, j) ==
  \E f \in Frames, k \in Nat :
    /\ k < Need(f) /\ k <= j
    /\ ByteAt(r, j) = <<f, k>>
    /\ Lies(r, f, j - k)
Whole(r) == \A j \in 0 .. Used(r) - 1 : ByteOfFrame(r, j)

(* Unless its last byte belongs to an urgent frame, the reserve is free.   *)
Kept(r, urgentFrames) ==
  \/ Free(r) >= Reserve
  \/ /\ Used(r) > 0
     /\ \E f \in urgentFrames, k \in Nat : ByteAt(r, Used(r) - 1) = <<f, k>>

(* After init and reset nothing is queued and the reserve is free.         *)
LEMMA EmptyRingIsWhole ==
  ASSUME NEW urgentFrames
  PROVE  EmptyRing \in Ring /\ Whole(EmptyRing) /\ Kept(EmptyRing, urgentFrames)
<1>1. Size \in Nat \ {0} /\ Reserve \in Nat /\ Size > Reserve
  BY SizeIs, RingAssumption
<1>2. EmptyRing \in Ring
  BY <1>1 DEF EmptyRing, Ring, Cells
<1>3. Used(EmptyRing) = 0
  <2>1. 0 \in Cells BY <1>1 DEF Cells
  <2>2. Dist(0, 0) = 0 BY <1>1, <2>1, DistIs
  <2> QED BY <2>2 DEF Used, EmptyRing
<1>4. Whole(EmptyRing)
  BY <1>3 DEF Whole
<1>5. Free(EmptyRing) >= Reserve
  BY <1>1, <1>3 DEF Free
<1> QED BY <1>2, <1>4, <1>5 DEF Kept

(* peek finds a frame whenever there is something to find: the one that    *)
(* lies at the tail.                                                       *)
LEMMA PeekIs ==
  ASSUME NEW r \in Ring, Whole(r), ~IsEmpty(r)
  PROVE  Peek(r) \in Frames /\ Lies(r, Peek(r), 0) /\ Peek(r) # NoFrame
<1>1. /\ r.head \in Cells /\ r.tail \in Cells /\ Used(r) \in Nat
      /\ r.head = Place(r.tail, Used(r)) /\ Size \in Nat \ {0}
  BY RingParts, SizeIs
<1>2. Used(r) > 0
  <2>1. SUFFICES ASSUME Used(r) = 0 PROVE FALSE BY <1>1
  <2>2. 0 \in Cells BY <1>1 DEF Cells
  <2>3. r.tail + 0 < Size /\ r.tail + 0 = r.tail BY <1>1 DEF Cells
  <2>4. Place(r.tail, 0) = r.tail BY <1>1, <2>2, <2>3, PlaceIs
  <2> QED BY <1>1, <2>1, <2>4 DEF IsEmpty
<1>3. PICK f \in Frames, k \in Nat :
        k < Need(f) /\ k <= 0 /\ ByteAt(r, 0) = <<f, k>> /\ Lies(r, f, 0 - k)
  BY <1>1, <1>2 DEF Whole, ByteOfFrame
<1>4. k = 0 /\ ByteAt(r, 0) = <<f, 0>> /\ Lies(r, f, 0)
  BY <1>3
<1>5. <<f, 0>> # NoByte
  BY FramesAssumption
<1>6. FrontIs(r, f)
  BY <1>4 DEF FrontIs, Lies
<1>7. Peek(r) = f
  BY <1>4, <1>5, <1>6 DEF Peek
<1> QED BY <1>3, <1>4, <1>7, FramesAssumption

(* A push leaves whole frames whole, and the reserve to urgent ones.       *)
LEMMA PushKeeps ==
  ASSUME NEW r \in Ring, NEW f \in Frames, NEW urgent \in BOOLEAN,
         NEW urgentFrames, urgent => f \in urgentFrames,
         Whole(r), Kept(r, urgentFrames)
  PROVE  /\ Push(r, f, urgent) \in Ring
         /\ Whole(Push(r, f, urgent))
         /\ Kept(Push(r, f, urgent), urgentFrames)
<1>1. CASE ~Fits(r, f, urgent)
  BY <1>1 DEF Push
<1>2. CASE Fits(r, f, urgent)
  <2> DEFINE w == Written(r, f)
             u == Used(r)
             n == Need(f)
  <2>1. /\ u \in Nat /\ n \in Nat /\ n > 0 /\ Size \in Nat \ {0} /\ Reserve \in Nat
        /\ u < Size
    BY RingParts, NeedIs, SizeIs, RingAssumption
  <2>2. /\ u + n < Size
        /\ ~urgent => Size - (u + n) - 1 >= Reserve
    BY <1>2, <2>1 DEF Fits, Free, Want
  <2>3. /\ w \in Ring /\ Used(w) = u + n
        /\ \A j \in 0 .. u - 1 : ByteAt(w, j) = ByteAt(r, j)
        /\ \A k \in 0 .. n - 1 : ByteAt(w, u + k) = <<f, k>>
    BY <2>2, WrittenIs
  <2> HIDE DEF w
  <2>4. Lies(w, f, u)
    BY <2>1, <2>3 DEF Lies
  <2>5. Whole(w)
    <3> SUFFICES ASSUME NEW j \in 0 .. (u + n) - 1 PROVE ByteOfFrame(w, j)
      BY <2>3 DEF Whole
    <3>1. CASE j < u
      <4>1. j \in 0 .. u - 1 BY <2>1, <3>1
      <4>2. PICK g \in Frames, k \in Nat :
              k < Need(g) /\ k <= j /\ ByteAt(r, j) = <<g, k>> /\ Lies(r, g, j - k)
        BY <4>1 DEF Whole, ByteOfFrame
      <4>3. Need(g) \in Nat /\ j - k + Need(g) <= u
        BY <4>2, NeedIs DEF Lies
      <4>4. \A m \in 0 .. Need(g) - 1 : (j - k) + m \in 0 .. u - 1
        BY <2>1, <4>1, <4>2, <4>3
      <4>5. \A m \in 0 .. Need(g) - 1 : ByteAt(w, (j - k) + m) = <<g, m>>
        BY <2>3, <4>2, <4>4 DEF Lies
      <4>6. j - k + Need(g) <= u + n
        BY <2>1, <4>1, <4>2, <4>3
      <4>7. Lies(w, g, j - k)
        BY <2>3, <4>5, <4>6 DEF Lies
      <4> QED BY <2>3, <4>1, <4>2, <4>7 DEF ByteOfFrame
    <3>2. CASE ~(j < u)
      <4>1. j - u \in 0 .. n - 1 /\ j - u \in Nat /\ j - u < n /\ j - u <= j
            /\ u + (j - u) = j /\ j - (j - u) = u
        BY <2>1, <3>2
      <4>2. ByteAt(w, j) = <<f, j - u>>
        BY <2>3, <4>1
      <4>3. Lies(w, f, j - (j - u))
        BY <2>4, <4>1
      <4> QED BY <4>1, <4>2, <4>3 DEF ByteOfFrame
    <3> QED BY <3>1, <3>2
  <2>6. Kept(w, urgentFrames)
    <3>1. CASE ~urgent
      BY <2>2, <2>3, <3>1 DEF Kept, Free
    <3>2. CASE urgent
      <4>1. n - 1 \in 0 .. n - 1 /\ n - 1 \in Nat /\ u + (n - 1) = (u + n) - 1 /\ u + n > 0
        BY <2>1
      <4>2. ByteAt(w, (u + n) - 1) = <<f, n - 1>>
        BY <2>3, <4>1
      <4> QED BY <2>3, <3>2, <4>1, <4>2 DEF Kept
    <3> QED BY <3>1, <3>2
  <2> QED BY <1>2, <2>3, <2>5, <2>6 DEF Push, w
<1> QED BY <1>1, <1>2

(* Dropping the front frame leaves whole frames whole and frees the        *)
(* reserve no less.                                                        *)
LEMMA DropKeeps ==
  ASSUME NEW r \in Ring, NEW urgentFrames, Whole(r), Kept(r, urgentFrames)
  PROVE  /\ DropFront(r) \in Ring
         /\ Whole(DropFront(r))
         /\ Kept(DropFront(r), urgentFrames)
<1>1. CASE Peek(r) = NoFrame
  BY <1>1 DEF DropFront
<1>2. CASE Peek(r) # NoFrame
  <2>1. ~IsEmpty(r) BY <1>2 DEF Peek
  <2>2. PICK f \in Frames : Peek(r) = f /\ Lies(r, f, 0)
    BY <2>1, PeekIs
  <2> DEFINE n == Need(f)
             u == Used(r)
             d == Dropped(r, n)
  <2>3. n \in Nat /\ n > 0 /\ u \in Nat /\ n <= u /\ Size \in Nat /\ Reserve \in Nat
    BY <2>2, NeedIs, RingParts, SizeIs, RingAssumption DEF Lies
  <2>4. /\ d \in Ring /\ Used(d) = u - n
        /\ \A j \in 0 .. u - n - 1 : ByteAt(d, j) = ByteAt(r, n + j)
    BY <2>3, DroppedIs
  <2>5. \A k \in 0 .. n - 1 : ByteAt(r, k) = <<f, k>>
    BY <2>2, <2>3 DEF Lies
  <2> HIDE DEF d, u, n
  <2>6. Whole(d)
    <3> SUFFICES ASSUME NEW j \in 0 .. u - n - 1 PROVE ByteOfFrame(d, j)
      BY <2>4 DEF Whole
    <3>1. n + j \in 0 .. u - 1 /\ j \in Nat BY <2>3
    <3>2. PICK g \in Frames, k \in Nat :
            k < Need(g) /\ k <= n + j /\ ByteAt(r, n + j) = <<g, k>>
            /\ Lies(r, g, (n + j) - k)
      BY <3>1 DEF Whole, ByteOfFrame, u
    <3>3. k <= j
      (* Otherwise g starts inside f, so it is f, which ends before n + j. *)
      <4>1. SUFFICES ASSUME k > j PROVE FALSE BY <3>1, <3>2
      <4>2. (n + j) - k \in 0 .. n - 1 BY <2>3, <3>1, <3>2, <4>1
      <4>3. ByteAt(r, (n + j) - k) = <<f, (n + j) - k>> BY <2>5, <4>2
      <4>4. Need(g) \in Nat /\ Need(g) > 0 /\ 0 \in 0 .. Need(g) - 1 BY NeedIs
      <4>5. ByteAt(r, ((n + j) - k) + 0) = <<g, 0>> BY <3>2, <4>4 DEF Lies
      <4>6. ((n + j) - k) + 0 = (n + j) - k BY <4>2
      <4>7. f = g /\ (n + j) - k = 0 BY <4>3, <4>5, <4>6
      <4> QED BY <2>3, <3>1, <3>2, <4>7 DEF n
    <3>4. ByteAt(d, j) = <<g, k>>
      BY <2>4, <3>2
    <3>5. Need(g) \in Nat /\ ((n + j) - k) + Need(g) <= u
      BY <3>2, NeedIs DEF Lies, u
    <3>6. \A m \in 0 .. Need(g) - 1 :
            (j - k) + m \in 0 .. u - n - 1 /\ n + ((j - k) + m) = ((n + j) - k) + m
      BY <2>3, <3>1, <3>2, <3>3, <3>5
    <3>7. \A m \in 0 .. Need(g) - 1 : ByteAt(d, (j - k) + m) = <<g, m>>
      BY <2>4, <3>2, <3>6 DEF Lies
    <3>8. (j - k) + Need(g) <= u - n
      BY <2>3, <3>1, <3>2, <3>5
    <3>9. Lies(d, g, j - k)
      BY <2>4, <3>7, <3>8 DEF Lies
    <3> QED BY <3>2, <3>3, <3>4, <3>9 DEF ByteOfFrame
  <2>7. Kept(d, urgentFrames)
    <3>1. CASE Free(r) >= Reserve
      BY <2>3, <2>4, <3>1 DEF Kept, Free, u
    <3>2. CASE u = n
      <4>1. Used(d) = 0 BY <2>3, <2>4, <3>2
      <4> QED BY <4>1, RingAssumption DEF Kept, Free
    <3>3. CASE u # n /\ ~(Free(r) >= Reserve)
      <4>1. (u - n) - 1 \in 0 .. u - n - 1 /\ n + ((u - n) - 1) = u - 1 /\ u - n > 0
        BY <2>3, <3>3
      <4>2. PICK g \in urgentFrames, k \in Nat : ByteAt(r, u - 1) = <<g, k>>
        BY <3>3 DEF Kept, u
      <4>3. ByteAt(d, (u - n) - 1) = <<g, k>>
        BY <2>4, <4>1, <4>2
      <4> QED BY <2>4, <4>1, <4>3 DEF Kept
    <3> QED BY <3>1, <3>2, <3>3
  <2>8. DropFront(r) = d
    BY <1>2, <2>2 DEF DropFront, d, n
  <2> QED BY <2>4, <2>6, <2>7, <2>8
<1> QED BY <1>1, <1>2
=============================================================================
