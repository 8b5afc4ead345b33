------------------------------ MODULE TxFrame ------------------------------
(***************************************************************************)
(* Services/svc_txframe.c: the byte ring between the API and a link.  A    *)
(* frame is stored as a length prefix and its bytes.  A byte is symbolic:  *)
(* <<f, k>> is byte k of the stored form of frame f, so that a reader that *)
(* is off by one shows.                                                    *)
(***************************************************************************)
EXTENDS Integers

CONSTANTS
  Frames,   (* what is sent: records with a field len, in bytes            *)
  Size,     (* bytes of the ring                                           *)
  Prefix,   (* SVC_TXFRAME_LEN_PREFIX                                      *)
  Reserve,  (* SVC_TXFRAME_RESERVE_BYTES                                   *)
  NoFrame,  (* peek found nothing                                          *)
  NoByte    (* a cell that holds nothing that will be read again           *)

ASSUME RingAssumption ==
  /\ Size \in Nat /\ Prefix \in Nat \ {0} /\ Reserve \in Nat /\ Size > Reserve
ASSUME FramesAssumption ==
  /\ \A f \in Frames : f.len \in Nat \ {0}
  /\ NoFrame \notin Frames
  /\ NoByte \notin Frames \X Nat

Need(f) == Prefix + f.len
Cells == 0 .. Size - 1
Bytes == {b \in Frames \X (0 .. Size) : b[2] < Need(b[1])}
Ring == [buf : [Cells -> Bytes \cup {NoByte}], head : Cells, tail : Cells]

EmptyRing == [buf |-> [i \in Cells |-> NoByte], head |-> 0, tail |-> 0]

(* & r->mask: the place j behind p, and how far place i is behind p.       *)
Place(p, j) == (p + j) % Size
Dist(i, p) == (i - p) % Size

Used(r) == Dist(r.head, r.tail)
Free(r) == Size - Used(r) - 1
IsEmpty(r) == r.head = r.tail
ByteAt(r, j) == r.buf[Place(r.tail, j)]

Want_noReserve(f, urgent) == Need(f)
Want(f, urgent) == IF urgent THEN Need(f) ELSE Need(f) + Reserve
Fits(r, f, urgent) == 2 * Need(f) <= Size /\ Free(r) >= Want(f, urgent)

(* ring_write, for the prefix and then the bytes.                          *)
Written(r, f) ==
  [buf  |-> [i \in Cells |-> IF Dist(i, r.head) < Need(f) THEN <<f, Dist(i, r.head)>>
                             ELSE r.buf[i]],
   head |-> Place(r.head, Need(f)),
   tail |-> r.tail]
Push(r, f, urgent) == IF Fits(r, f, urgent) THEN Written(r, f) ELSE r

(* The prefix at the tail gives the length, the bytes behind it the frame: *)
(* what peek returns is a frame only when all of them are its bytes.       *)
FrontIs(r, f) == \A k \in 0 .. Need(f) - 1 : ByteAt(r, k) = <<f, k>>
Peek(r) == LET b == ByteAt(r, 0)
           IN IF ~IsEmpty(r) /\ b # NoByte /\ FrontIs(r, b[1]) THEN b[1] ELSE NoFrame

(* The bytes that are dropped are never read again: the model forgets them.*)
Dropped(r, n) ==
  [buf  |-> [i \in Cells |-> IF Dist(i, r.tail) < n THEN NoByte ELSE r.buf[i]],
   head |-> r.head,
   tail |-> Place(r.tail, n)]
DropFront_lenOnly(r) == IF Peek(r) = NoFrame THEN r ELSE Dropped(r, Peek(r).len)
DropFront(r) == IF Peek(r) = NoFrame THEN r ELSE Dropped(r, Need(Peek(r)))

Reset(r) == EmptyRing
=============================================================================
