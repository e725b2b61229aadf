---------------------- MODULE CopyingInputStreamAdaptor ----------------------
(***************************************************************************)
(* CopyingInputStreamAdaptor of protobuf/io/zero_copy_stream_impl_lite.cc: *)
(* a ZeroCopyInputStream over a stream that can only Read.  It lends its   *)
(* buffer out, takes back what was not used of it, and skips.              *)
(*                                                                         *)
(* The bytes of the stream are numbered from 0, and a piece of the buffer  *)
(* is named by the number of its first byte.                               *)
(***************************************************************************)
EXTENDS Integers

CONSTANTS Size,       \* bytes the copying stream has
          BlockSize   \* buffer_size_

ASSUME AdaptorAssumption == Size \in Nat /\ BlockSize \in Nat \ {0}

VARIABLES
  position,      \* bytes read from the copying stream
  failed,        \* a Read has failed
  bufferUsed,    \* bytes in the buffer
  backupBytes,   \* of these, bytes to lend again
  hasBuffer,     \* buffer_ is not null
  lastNext,      \* history: size of what the last call lent, if it was Next
  misused        \* history: a caller has broken the contract of the stream

adaptor == <<position, failed, bufferUsed, backupBytes, hasBuffer, lastNext, misused>>

NotNext == -1
ByteCount == position - backupBytes

AdaptorInit ==
  /\ position = 0 /\ failed = FALSE /\ bufferUsed = 0 /\ backupBytes = 0
  /\ hasBuffer = FALSE /\ lastNext = NotNext /\ misused = FALSE

\* Next lends n bytes, the first of them byte number ByteCount.
NextLends(n) ==
  /\ ~failed
  /\ hasBuffer' = TRUE
  /\ \/ backupBytes > 0 /\ n = backupBytes /\ UNCHANGED <<position, bufferUsed>>
     \/ /\ backupBytes = 0 /\ n \in 1 .. BlockSize /\ position + n <= Size
        /\ position' = position + n
        /\ bufferUsed' = n
  /\ backupBytes' = 0
  /\ lastNext' = n
  /\ UNCHANGED <<failed, misused>>

\* Next returns false: at the end of the stream, on a read error and after it.
NextFails ==
  /\ lastNext' = NotNext
  /\ \/ failed /\ UNCHANGED <<failed, bufferUsed, hasBuffer>>
     \/ /\ ~failed /\ backupBytes = 0
        /\ failed' \in (IF position = Size THEN BOOLEAN ELSE {TRUE})
        /\ bufferUsed' = 0
        /\ hasBuffer' = FALSE
  /\ UNCHANGED <<position, backupBytes, misused>>

\* BackUp: the contract of ZeroCopyInputStream, and the CHECKs of this class.
MayBackUp(count) ==
  /\ count \in 0 .. lastNext
  /\ backupBytes = 0 /\ hasBuffer /\ count <= bufferUsed

BackUp(count) ==
  /\ misused' = (misused \/ ~MayBackUp(count))
  /\ backupBytes' = count
  /\ lastNext' = NotNext
  /\ UNCHANGED <<position, failed, bufferUsed, hasBuffer>>

\* Skip: what is left of the buffer, then Read after Read until one fails or
\* finds the end of the stream.  It does not remember a failure.
Skip(count, ok) ==
  /\ lastNext' = NotNext
  /\ \/ failed /\ ~ok /\ UNCHANGED <<position, backupBytes>>
     \/ /\ ~failed /\ backupBytes >= count /\ ok
        /\ backupBytes' = backupBytes - count
        /\ UNCHANGED position
     \/ /\ ~failed /\ backupBytes < count
        /\ \E skipped \in 0 .. count - backupBytes :
             /\ position + skipped <= Size
             /\ ok = (skipped = count - backupBytes)
             /\ position' = position + skipped
        /\ backupBytes' = 0
  /\ UNCHANGED <<failed, bufferUsed, hasBuffer, misused>>

\* No more bytes will come.
Exhausted == failed \/ ByteCount = Size
=============================================================================
