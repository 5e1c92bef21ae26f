------------------------------ MODULE SpscRing ------------------------------
(***************************************************************************)
(* The lock-free ring of ringbuffer.c under one producer thread and one    *)
(* consumer thread, at the granularity of its shared accesses: the load of *)
(* the other side's pointer, every byte of every memcpy, and the store     *)
(* that publishes the own pointer.  The pointers are accessed with         *)
(* acquire loads and release stores, and each has a single writer, so      *)
(* interleaving those steps covers what the two threads can observe.       *)
(*                                                                         *)
(* Byte number k of the stream is the number k (see ByteStream).           *)
(* Arguments that make an operation return at once without touching        *)
(* anything (a null pointer, length 0, a ring with no room or no data) are *)
(* stuttering steps and have no action.                                    *)
(***************************************************************************)
EXTENDS RingIndex, Sequences

CONSTANTS
  Size,       \* RINGBUFFER_SIZE
  MaxSent,    \* bound: bytes the producer hands over in all
  MaxLen      \* bound: length of one write, read or chunk

ASSUME SizeAssumption == Size \in Nat \ {0}
ASSUME BoundAssumption == MaxSent \in Nat /\ MaxLen \in Nat

VARIABLES
  size,       \* rb->size: Size, or 0 after ringbuffer_cleanup
  buf,        \* rb->buf
  read_ptr,   \* rb->read_ptr, stored by the consumer
  write_ptr,  \* rb->write_ptr, stored by the producer
  prod,       \* the producer's operation in progress: its local variables
  cons,       \* the consumer's operation in progress
  sent,       \* history: bytes accepted by finished writes
  rcvd,       \* history: bytes handed out by finished reads, or discarded
  got         \* history: what the last read returned

ring == <<size, buf, read_ptr, write_ptr>>
vars == <<size, buf, read_ptr, write_ptr, prod, cons, sent, rcvd, got>>

Lengths == 1 .. MaxLen

(* pc: where the operation stands.  rp, wp: its copies of the pointers.    *)
(* todo, done: bytes of the current chunk, and how many are copied.        *)
(* total: bytes of the chunks finished.  told: what ringbuffer_writeable   *)
(* (ringbuffer_readable) last told this thread, 0 once it has acted on it. *)
IdleProd == [pc |-> "idle", batch |-> FALSE, rp |-> 0, wp |-> 0,
             todo |-> 0, done |-> 0, total |-> 0, told |-> 0]
IdleCons == [pc |-> "idle", batch |-> FALSE, rp |-> 0, wp |-> 0,
             todo |-> 0, done |-> 0, total |-> 0, told |-> 0, out |-> << >>]

(* ringbuffer_init has run on a zeroed structure; vm_allocate gives zeroed *)
(* pages, written -1 here: no byte of the stream.                          *)
Init ==
  /\ size = Size
  /\ buf = [i \in 0 .. Size - 1 |-> -1]
  /\ read_ptr = 0 /\ write_ptr = 0
  /\ prod = IdleProd /\ cons = IdleCons
  /\ sent = 0 /\ rcvd = 0 /\ got = << >>
-----------------------------------------------------------------------------
(* The producer.                                                           *)

(* ringbuffer_write up to the copy: load read_ptr, compute the room.       *)
ringbuffer_write(len) ==
  LET available == Space(size, read_ptr, write_ptr) IN
  /\ prod.pc = "idle"
  /\ sent + len <= MaxSent
  /\ available > 0
  /\ prod' = [IdleProd EXCEPT !.pc = "copy", !.rp = read_ptr, !.wp = write_ptr,
                              !.todo = Smaller(len, available)]
  /\ UNCHANGED <<ring, cons, sent, rcvd, got>>

(* ringbuffer_batch_write up to the loop: read_ptr is loaded once.         *)
ringbuffer_batch_write ==
  /\ prod.pc = "idle"
  /\ sent < MaxSent
  /\ prod' = [IdleProd EXCEPT !.pc = "chunk", !.batch = TRUE,
                              !.rp = read_ptr, !.wp = write_ptr]
  /\ UNCHANGED <<ring, cons, sent, rcvd, got>>

(* Variant: the room for a chunk ignores the chunks already copied.        *)
StaleBatchWriteChunk(len) ==
  LET available == Space(size, prod.rp, write_ptr) IN
  /\ prod.pc = "chunk"
  /\ sent + prod.total + len <= MaxSent
  /\ available > 0
  /\ prod' = [prod EXCEPT !.pc = "copy", !.todo = Smaller(len, available),
                          !.done = 0]
  /\ UNCHANGED <<ring, cons, sent, rcvd, got>>

(* The next non-empty chunk of a batch: the room follows from the pointer  *)
(* loaded at the start and the local write pointer.                        *)
BatchWriteChunk(len) ==
  LET available == Space(size, prod.rp, prod.wp) IN
  /\ prod.pc = "chunk"
  /\ sent + prod.total + len <= MaxSent
  /\ available > 0
  /\ prod' = [prod EXCEPT !.pc = "copy", !.todo = Smaller(len, available),
                          !.done = 0]
  /\ UNCHANGED <<ring, cons, sent, rcvd, got>>

(* The loop of a batch ends: no chunk is left, or the ring is full.        *)
BatchWriteEnd ==
  /\ prod.pc = "chunk"
  /\ prod' = [prod EXCEPT !.pc = "publish"]
  /\ UNCHANGED <<ring, cons, sent, rcvd, got>>

(* One byte of memcpy into the ring; the last byte of a chunk moves the    *)
(* local write pointer.                                                    *)
CopyIn ==
  /\ prod.pc = "copy"
  /\ buf' = [buf EXCEPT ![Slot(size, prod.wp, prod.todo, prod.done)] =
               sent + prod.total + prod.done]
  /\ prod' = IF prod.done + 1 < prod.todo
               THEN [prod EXCEPT !.done = @ + 1]
               ELSE [prod EXCEPT !.pc = IF prod.batch THEN "chunk" ELSE "publish",
                                 !.wp = Advance(size, @, prod.todo),
                                 !.total = @ + prod.todo,
                                 !.todo = 0, !.done = 0]
  /\ UNCHANGED <<size, read_ptr, write_ptr, cons, sent, rcvd, got>>

(* The release store of write_ptr, and the return.                         *)
WritePublish ==
  /\ prod.pc = "publish"
  /\ write_ptr' = IF prod.total > 0 THEN prod.wp ELSE write_ptr
  /\ sent' = sent + prod.total
  /\ prod' = IdleProd
  /\ UNCHANGED <<size, buf, read_ptr, cons, rcvd, got>>

(* ringbuffer_writeable, called by the producer between two writes.        *)
ringbuffer_writeable ==
  /\ prod.pc = "idle"
  /\ prod' = [prod EXCEPT !.told = Space(size, read_ptr, write_ptr)]
  /\ UNCHANGED <<ring, cons, sent, rcvd, got>>
-----------------------------------------------------------------------------
(* The consumer.                                                           *)

(* ringbuffer_read up to the copy: load write_ptr, compute what waits.     *)
ringbuffer_read(len) ==
  LET available == Readable(size, read_ptr, write_ptr) IN
  /\ cons.pc = "idle"
  /\ available > 0
  /\ cons' = [IdleCons EXCEPT !.pc = "copy", !.rp = read_ptr, !.wp = write_ptr,
                              !.todo = Smaller(len, available)]
  /\ UNCHANGED <<ring, prod, sent, rcvd, got>>

(* ringbuffer_batch_read up to the loop: write_ptr is loaded once.         *)
ringbuffer_batch_read ==
  /\ cons.pc = "idle"
  /\ cons' = [IdleCons EXCEPT !.pc = "chunk", !.batch = TRUE,
                              !.rp = read_ptr, !.wp = write_ptr]
  /\ UNCHANGED <<ring, prod, sent, rcvd, got>>

(* The next non-empty chunk of a batch.                                    *)
BatchReadChunk(len) ==
  LET available == Readable(size, cons.rp, cons.wp) IN
  /\ cons.pc = "chunk"
  /\ available > 0
  /\ cons' = [cons EXCEPT !.pc = "copy", !.todo = Smaller(len, available),
                          !.done = 0]
  /\ UNCHANGED <<ring, prod, sent, rcvd, got>>

(* The loop of a batch ends: no chunk is left, or the ring is empty.       *)
BatchReadEnd ==
  /\ cons.pc = "chunk"
  /\ cons' = [cons EXCEPT !.pc = "publish"]
  /\ UNCHANGED <<ring, prod, sent, rcvd, got>>

(* One byte of memcpy out of the ring.                                     *)
CopyOut ==
  LET byte == buf[Slot(size, cons.rp, cons.todo, cons.done)] IN
  /\ cons.pc = "copy"
  /\ cons' = IF cons.done + 1 < cons.todo
               THEN [cons EXCEPT !.done = @ + 1, !.out = Append(@, byte)]
               ELSE [cons EXCEPT !.pc = IF cons.batch THEN "chunk" ELSE "publish",
                                 !.rp = Advance(size, @, cons.todo),
                                 !.total = @ + cons.todo,
                                 !.todo = 0, !.done = 0,
                                 !.out = Append(@, byte)]
  /\ UNCHANGED <<ring, prod, sent, rcvd, got>>

(* The release store of read_ptr, and the return.  A batch that read       *)
(* nothing stores nothing and returns 0.                                   *)
ReadPublish ==
  /\ cons.pc = "publish"
  /\ read_ptr' = IF cons.total > 0 THEN cons.rp ELSE read_ptr
  /\ rcvd' = rcvd + cons.total
  /\ got' = IF cons.total > 0 THEN cons.out ELSE got
  /\ cons' = IdleCons
  /\ UNCHANGED <<size, buf, write_ptr, prod, sent>>

(* ringbuffer_readable, called by the consumer between two reads.          *)
ringbuffer_readable ==
  /\ cons.pc = "idle"
  /\ cons' = [cons EXCEPT !.told = Readable(size, read_ptr, write_ptr)]
  /\ UNCHANGED <<ring, prod, sent, rcvd, got>>
-----------------------------------------------------------------------------
(* The owner, while no operation is in progress.  ringbuffer_reset stores  *)
(* the two pointers one after the other; nobody else runs in between.      *)

Quiescent == prod.pc = "idle" /\ cons.pc = "idle"

Discard ==
  /\ read_ptr' = 0 /\ write_ptr' = 0
  /\ prod' = IdleProd /\ cons' = IdleCons
  /\ rcvd' = sent
  /\ UNCHANGED <<sent, got>>

ringbuffer_reset ==
  /\ Quiescent
  /\ Discard
  /\ UNCHANGED <<size, buf>>

(* The memory is returned and the structure zeroed.                        *)
ringbuffer_cleanup ==
  /\ Quiescent
  /\ size # 0
  /\ Discard
  /\ size' = 0
  /\ buf' = [i \in 0 .. Size - 1 |-> -1]

(* A new life of the same structure, as websocket_connect begins one:      *)
(* after a cleanup, or on top of a ring still in use, whose unread bytes   *)
(* (and memory) are dropped.                                               *)
ringbuffer_init ==
  /\ Quiescent
  /\ Discard
  /\ size' = Size
  /\ buf' = [i \in 0 .. Size - 1 |-> -1]
-----------------------------------------------------------------------------
Producer ==
  \/ \E len \in Lengths : ringbuffer_write(len) \/ BatchWriteChunk(len)
  \/ ringbuffer_batch_write \/ BatchWriteEnd \/ CopyIn \/ WritePublish
  \/ ringbuffer_writeable

Consumer ==
  \/ \E len \in Lengths : ringbuffer_read(len) \/ BatchReadChunk(len)
  \/ ringbuffer_batch_read \/ BatchReadEnd \/ CopyOut \/ ReadPublish
  \/ ringbuffer_readable

Owner == ringbuffer_reset \/ ringbuffer_cleanup \/ ringbuffer_init

Next == Producer \/ Consumer \/ Owner

Spec == Init /\ [][Next]_vars
-----------------------------------------------------------------------------
(* Fairness: an operation once begun runs to its end (no step of it        *)
(* waits), and among the calls a consumer makes, ringbuffer_read recurs,   *)
(* as in the polling loop of tests/test_threading.c.  The producer owes    *)
(* nothing.                                                                *)
Fairness ==
  /\ WF_vars(CopyOut) /\ WF_vars(BatchReadEnd) /\ WF_vars(ReadPublish)
  /\ SF_vars(\E len \in Lengths : ringbuffer_read(len))

FairSpec == Spec /\ Fairness
-----------------------------------------------------------------------------
Unread == Readable(size, read_ptr, write_ptr)

(* Bytes copied into the ring by the write in progress, not yet published. *)
Pending == prod.total + prod.done

ProdType ==
  [pc : {"idle", "chunk", "copy", "publish"}, batch : BOOLEAN,
   rp : 0 .. Size - 1, wp : 0 .. Size - 1,
   todo : Nat, done : Nat, total : Nat, told : Nat]
ConsType ==
  [pc : {"idle", "chunk", "copy", "publish"}, batch : BOOLEAN,
   rp : 0 .. Size - 1, wp : 0 .. Size - 1,
   todo : Nat, done : Nat, total : Nat, told : Nat, out : Seq(Int)]

(* Types of the state; the pointers stay inside the buffer.                *)
TypeOK ==
  /\ size \in {0, Size}
  /\ buf \in [0 .. Size - 1 -> Int]
  /\ read_ptr \in 0 .. Size - 1 /\ write_ptr \in 0 .. Size - 1
  /\ prod \in ProdType /\ cons \in ConsType
  /\ sent \in Nat /\ rcvd \in Nat /\ got \in Seq(Int)

(* The producer and the consumer never touch the same byte of the buffer   *)
(* while both are inside memcpy: the lock-free ring has no data race, with *)
(* single and with batch operations, whichever pointer values they hold.   *)
NoByteRace ==
  prod.pc = "copy" /\ cons.pc = "copy" =>
    Slot(size, prod.wp, prod.todo, prod.done) #
    Slot(size, cons.rp, cons.todo, cons.done)

(* The bytes between read_ptr and write_ptr, and behind them those the     *)
(* write in progress has copied, are the next bytes of the stream: nothing *)
(* unread is overwritten, skipped or duplicated, also across the wrap.     *)
WaitingIntact ==
  /\ Unread = sent - rcvd
  /\ \A j \in 0 .. Unread + Pending - 1 :
       buf[Advance(Size, read_ptr, j)] = rcvd + j

(* What ringbuffer_writeable told the producer can still be written, and   *)
(* what ringbuffer_readable told the consumer can still be read: the other *)
(* thread only ever makes the stale answer better.                         *)
PromisesKept ==
  /\ prod.told <= Space(size, read_ptr, write_ptr)
  /\ cons.told <= Unread

(* No memory is accessed after ringbuffer_cleanup until the next           *)
(* ringbuffer_init (the zeroed structure makes every operation return 0).  *)
NoUseAfterCleanup ==
  size = 0 => prod.pc # "copy" /\ cons.pc # "copy"

(* The ring implements the bounded stream of Size - 1 bytes: every write   *)
(* and read takes effect at once, at its pointer store.                    *)
Stream == INSTANCE ByteStream WITH Capacity <- Size - 1
StreamSpec == Stream!Spec

(* Every byte accepted is eventually handed out (or discarded by the       *)
(* owner), if the consumer keeps reading.                                  *)
Delivered == \A n \in 1 .. MaxSent : sent >= n ~> rcvd >= n
=============================================================================
