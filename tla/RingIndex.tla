------------------------------ MODULE RingIndex ------------------------------
(***************************************************************************)
(* Index arithmetic of the byte ring of ringbuffer.c and ringbuffer.h.     *)
(* Every operator takes the ring's size, because ringbuffer_cleanup sets   *)
(* it to 0.  Pointers are offsets in 0 .. size - 1; they are far below the *)
(* width of size_t, so the arithmetic is that of the integers.             *)
(***************************************************************************)
EXTENDS Integers

(* Variant without the byte kept free: a full ring has wp = rp.            *)
NoReserveSpace(size, rp, wp) ==
  IF wp >= rp THEN size - wp + rp ELSE rp - wp

(* Variant without the test that guards the unsigned subtraction: with     *)
(* nothing free it wraps around (2^16 stands for the range of size_t).     *)
UnguardedSpace(size, rp, wp) ==
  IF wp >= rp THEN (size - wp + rp - 1) % 2^16 ELSE rp - wp - 1

(* ringbuffer_writeable, and "available" in ringbuffer_write and           *)
(* ringbuffer_batch_write: one byte is kept free so that wp = rp can only  *)
(* mean "empty".                                                           *)
Space(size, rp, wp) ==
  IF wp >= rp
    THEN IF size - wp + rp > 1 THEN size - wp + rp - 1 ELSE 0
    ELSE rp - wp - 1

(* Variant that forgets the wrap: a ring whose data wraps looks empty.     *)
NoWrapReadable(size, rp, wp) ==
  IF wp >= rp THEN wp - rp ELSE 0

(* ringbuffer_readable, "available" in ringbuffer_read and                 *)
(* ringbuffer_batch_read, and the length ringbuffer_read_inline returns.   *)
Readable(size, rp, wp) ==
  IF wp >= rp THEN wp - rp ELSE size - rp + wp

(* Variant without the modulo: the pointer may leave the buffer.           *)
UnwrappedAdvance(size, p, n) == p + n

(* The pointer n bytes after p: "(p + n) % rb->size".                      *)
Advance(size, p, n) == (p + n) % size

(* Variant that restarts one byte late after the wrap.                     *)
LateSlot(size, p, n, i) ==
  IF p + n <= size \/ i < size - p THEN p + i ELSE i - (size - p) + 1

(* Where byte i of an n-byte copy that starts at p goes: one memcpy when   *)
(* it fits before the end, else first_part = size - p bytes at p and the   *)
(* rest at the start of the buffer.                                        *)
Slot(size, p, n, i) ==
  IF p + n <= size \/ i < size - p THEN p + i ELSE i - (size - p)

(* The length ringbuffer_write_inline returns: the contiguous room from wp *)
(* on, without a byte kept free.                                           *)
InlineSpace(size, rp, wp) ==
  CASE wp < rp -> rp - wp
    [] wp >= rp /\ rp = 0 /\ wp = size -> 0
    [] OTHER -> size - wp

(* to_write and to_read: "(len < available) ? len : available".            *)
Smaller(len, available) == IF len < available THEN len ELSE available
=============================================================================
