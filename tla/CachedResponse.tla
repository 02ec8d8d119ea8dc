--------------------------- MODULE CachedResponse ---------------------------
(***************************************************************************)
(* The meek server's response cache (psiphon/server/meekBuffer.go): a      *)
(* fixed buffer, extended with buffers borrowed from a shared pool, that   *)
(* keeps a copy of the response a meek client is receiving so that a retry *)
(* can resume it.  Once neither the client's limit nor the pool allows     *)
(* another buffer, older bytes are overwritten.                            *)
(*                                                                         *)
(* The list of equal sized buffers with its write buffer index and write   *)
(* index is one sequence "ring" with one offset writePos: the code fills a *)
(* buffer before it moves to the next one, so the two are the same order.  *)
(***************************************************************************)
EXTENDS Naturals, Sequences, SequencesExt

CONSTANTS
    BufferSize,         \* bytes of each buffer
    ExtendedLimit       \* extendedBufferPool.limit, per client

ASSUME CacheAssumption ==
    /\ BufferSize \in Nat \ {0}
    /\ ExtendedLimit \in Nat

\* A byte of a buffer that was never written; no byte of a response is it.
Blank == 0

Buffer == [i \in 1 .. BufferSize |-> Blank]

NewCachedResponse ==
    [ring |-> Buffer, readPosition |-> 0, readAvailable |-> 0,
     writePos |-> 0, overwriting |-> FALSE]

\* The buffers a response has borrowed.
ExtendedCount(c) == Len(c.ring) \div BufferSize - 1

\* Reset: the extended buffers go back to the pool, see ExtendedCount.  The
\* bytes left in the first buffer are out of reach: readAvailable is 0.
Reset(c) == NewCachedResponse

\* Write borrows a buffer when the last one is full and nothing has been
\* overwritten.
CanExtend(c, pool) ==
    /\ c.writePos = Len(c.ring)
    /\ ~c.overwriting
    /\ ExtendedCount(c) < ExtendedLimit
    /\ pool > 0

\* Moves to the next buffer, borrowed or wrapped around to the first.
NextBuffer(c, pool) ==
    CASE c.writePos < Len(c.ring) -> c
      [] CanExtend(c, pool) -> [c EXCEPT !.ring = @ \o Buffer]
      [] OTHER -> [c EXCEPT !.writePos = 0, !.overwriting = TRUE]

\* One byte of Write.  readPosition advances with every byte overwritten.
WriteByte(c, pool, byte) ==
    LET d == NextBuffer(c, pool) IN
    [d EXCEPT !.ring[d.writePos + 1] = byte,
              !.writePos = @ + 1,
              !.readPosition = IF d.overwriting THEN @ + 1 ELSE @,
              !.readAvailable = IF d.overwriting THEN @ ELSE @ + 1]

\* Write: data goes through all the buffers it needs.  The pool is what is
\* left of it after the buffers this response borrows on the way.
Write(c, pool, data) ==
    FoldLeft(LAMBDA d, byte :
                 WriteByte(d, pool + ExtendedCount(c) - ExtendedCount(d), byte),
             c, data)

HasPosition(c, position) ==
    /\ c.readAvailable # 0
    /\ c.readPosition <= position
    /\ position <= c.readPosition + c.readAvailable

\* The offset of the oldest byte.
FirstByte(c) == IF c.overwriting THEN c.writePos % Len(c.ring) ELSE 0

\* What CopyFromPosition writes: all the bytes from position on, in the
\* order they were written.
CopyFromPosition(c, position) ==
    [i \in 1 .. c.readPosition + c.readAvailable - position |->
        c.ring[1 + ((FirstByte(c) + (position - c.readPosition) + i - 1) % Len(c.ring))]]

=============================================================================
