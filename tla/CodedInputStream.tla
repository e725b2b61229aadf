-------------------------- MODULE CodedInputStream --------------------------
(***************************************************************************)
(* protobuf/io/coded_stream.cc and .h: CodedInputStream, which every       *)
(* message is parsed through, over a CopyingInputStreamAdaptor or over an  *)
(* array.  Several are opened on the adaptor one after the other, as by a  *)
(* reader of delimited messages.                                           *)
(*                                                                         *)
(* The stream keeps a window onto the buffer it was lent, cut off at the   *)
(* nearest limit, and counts what it has been lent in an int.  A pointer   *)
(* is the number of the byte it points to, NULL is 0.  What a varint or a  *)
(* tag decodes to is left open: of the data only the ends of the varints   *)
(* are known.  A method that may need more than one buffer takes a step    *)
(* for each.                                                               *)
(***************************************************************************)
EXTENDS CopyingInputStreamAdaptor, Sequences, FiniteSetsExt, SequencesExt

CONSTANTS MaxInt,      \* INT_MAX
          MaxVarint,   \* kMaxVarintBytes
          Ends,        \* bytes with the high bit clear
          FlatSize,    \* bytes of the array
          MaxDepth     \* bound: limits pushed at a time

ASSUME CodedAssumption ==
  MaxInt \in Nat /\ MaxVarint \in Nat \ {0} /\ FlatSize \in 0 .. MaxInt /\ MaxDepth \in Nat

VARIABLES
  open,                  \* "closed", "stream" or "flat"
  buffer, bufferEnd,     \* buffer_ and buffer_end_
  totalBytesRead, overflowBytes, bufferSizeAfterLimit,
  currentLimit, totalBytesLimit,
  legitimateMessageEnd,
  todo,                  \* what the method under way has still to do
  stack,                 \* history: the limits asked for and what PushLimit returned
  origin,                \* history: ByteCount of the adaptor when the stream was opened
  good,                  \* history: position after the last value that was read
  erred,                 \* history: some method has returned false
  lost,                  \* history: a Skip of the adaptor has failed
  cutShort               \* history: ExpectAtEnd took the limit on the total for the end

window == <<buffer, bufferEnd, totalBytesRead, overflowBytes, bufferSizeAfterLimit>>
limits == <<currentLimit, totalBytesLimit, stack>>
ending == <<legitimateMessageEnd, cutShort>>
outcome == <<good, erred>>
vars == <<adaptor, open, window, limits, ending, todo, origin, outcome, lost>>

BufferSize == bufferEnd - buffer
CurrentPosition == totalBytesRead - (BufferSize + bufferSizeAfterLimit)
ClosestLimit == Min({currentLimit, totalBytesLimit})
Idle == [op |-> "idle"]

\* The values the constructors give the members, and all there is of a stream
\* that is not open.
Init ==
  /\ AdaptorInit
  /\ open = "closed" /\ todo = Idle
  /\ buffer = 0 /\ bufferEnd = 0
  /\ totalBytesRead = 0 /\ overflowBytes = 0 /\ bufferSizeAfterLimit = 0
  /\ currentLimit = MaxInt /\ totalBytesLimit = MaxInt /\ stack = <<>>
  /\ legitimateMessageEnd = FALSE /\ cutShort = FALSE
  /\ origin = 0 /\ good = 0 /\ erred = FALSE /\ lost = FALSE
-----------------------------------------------------------------------------
(* How a method ends.  good' is last: it needs all that has changed.       *)
Done(next) == todo' = next /\ UNCHANGED erred /\ good' = CurrentPosition'
Fails(next) == todo' = next /\ erred' = TRUE /\ UNCHANGED good
GoesOn(next) == todo' = next /\ UNCHANGED outcome

\* RecomputeBufferLimits, for a buffer that ends at end.
RecomputeBufferLimits(end, total, current, totalLimit) ==
  LET closest == Min({current, totalLimit})
      beyond == IF closest < total THEN total - closest ELSE 0
  IN bufferSizeAfterLimit' = beyond /\ bufferEnd' = end - beyond

\* Mutant: the bytes beyond the old limit stay out of the window.
LimitsChangeHere(current, totalLimit) ==
  /\ currentLimit' = current
  /\ totalBytesLimit' = totalLimit
  /\ RecomputeBufferLimits(bufferEnd, totalBytesRead, current, totalLimit)
  /\ UNCHANGED <<buffer, totalBytesRead, overflowBytes>>

LimitsChange(current, totalLimit) ==
  /\ currentLimit' = current
  /\ totalBytesLimit' = totalLimit
  /\ RecomputeBufferLimits(bufferEnd + bufferSizeAfterLimit, totalBytesRead, current, totalLimit)
  /\ UNCHANGED <<buffer, totalBytesRead, overflowBytes>>

\* Mutant: the bytes beyond INT_MAX are not remembered.
OverflowForgotten(n) == 0

\* Bytes of a buffer of n that would take total_bytes_read_ beyond INT_MAX.
Overflow(n) == Max({0, totalBytesRead - (MaxInt - n)})

\* Refresh has hit a limit.
Stopped == bufferSizeAfterLimit > 0 \/ overflowBytes > 0 \/ totalBytesRead = currentLimit

\* Refresh, of an empty buffer.  In a stream over an array input_ is NULL.
RefreshSucceeds ==
  \E n \in 1 .. Size :
    /\ ~Stopped /\ open # "flat"
    /\ NextLends(n)
    /\ buffer' = ByteCount
    /\ overflowBytes' = Overflow(n)
    /\ totalBytesRead' = Min({totalBytesRead + n, MaxInt})
    /\ RecomputeBufferLimits(ByteCount + n - Overflow(n), totalBytesRead',
                             currentLimit, totalBytesLimit)

CallsNull ==
  /\ misused' = TRUE
  /\ UNCHANGED <<position, failed, bufferUsed, backupBytes, hasBuffer, lastNext>>

RefreshFails ==
  \/ Stopped /\ UNCHANGED <<adaptor, window>>
  \/ /\ ~Stopped
     /\ IF open # "flat" THEN NextFails ELSE CallsNull
     /\ buffer' = 0 /\ bufferEnd' = 0
     /\ UNCHANGED <<totalBytesRead, overflowBytes, bufferSizeAfterLimit>>
-----------------------------------------------------------------------------
\* CodedInputStream(ZeroCopyInputStream*): a stream refreshes at once.
OpenStream ==
  /\ open = "closed" /\ open' = "stream"
  /\ origin' = ByteCount
  /\ RefreshSucceeds \/ RefreshFails
  /\ UNCHANGED <<limits, ending, todo, outcome, lost>>

\* Mutant: the array has no limit of its own.
FlatLimitNone == MaxInt

FlatLimit == FlatSize

\* CodedInputStream(const uint8*, int): all of the array is in the window.
OpenFlat ==
  /\ open = "closed" /\ open' = "flat"
  /\ bufferEnd' = FlatSize /\ totalBytesRead' = FlatSize /\ currentLimit' = FlatLimit
  /\ UNCHANGED <<adaptor, buffer, overflowBytes, bufferSizeAfterLimit>>
  /\ UNCHANGED <<totalBytesLimit, stack, ending, todo, origin, outcome, lost>>

\* Bytes of what was lent that have not been read.
Unread == BufferSize + bufferSizeAfterLimit + overflowBytes

\* The destructor: BackUpInputToCurrentPosition.
Close ==
  /\ open \in {"stream", "flat"} /\ open' = "closed"
  /\ todo = Idle
  /\ IF open = "stream" /\ Unread > 0 THEN BackUp(Unread) ELSE UNCHANGED adaptor
  /\ buffer' = 0 /\ bufferEnd' = 0
  /\ totalBytesRead' = 0 /\ overflowBytes' = 0 /\ bufferSizeAfterLimit' = 0
  /\ currentLimit' = MaxInt /\ totalBytesLimit' = MaxInt /\ stack' = <<>>
  /\ legitimateMessageEnd' = FALSE /\ cutShort' = FALSE
  /\ origin' = 0 /\ good' = 0 /\ erred' = FALSE /\ lost' = FALSE
  /\ UNCHANGED todo
-----------------------------------------------------------------------------
Ready == open # "closed" /\ todo = Idle
StreamUnchanged == UNCHANGED <<open, origin>>

Advance(n) ==
  /\ buffer' = buffer + n
  /\ UNCHANGED <<bufferEnd, totalBytesRead, overflowBytes, bufferSizeAfterLimit>>

\* ReadString and Skip: the size is often user-supplied.
Refuses(size) == size < 0

\* ReadRaw, ReadString, ReadLittleEndian32 and 64: size bytes are copied,
\* Refresh after Refresh.  Only ReadString may be given a size below zero.
Read(size) ==
  /\ Ready
  /\ GoesOn([op |-> IF Refuses(size) THEN "refuse" ELSE "copy", size |-> size])
  /\ UNCHANGED <<adaptor, window, limits, ending, lost>> /\ StreamUnchanged

Refuse ==
  /\ todo.op = "refuse"
  /\ Fails(Idle)
  /\ UNCHANGED <<adaptor, window, limits, ending, lost>> /\ StreamUnchanged

\* Mutant: what the window has is copied even if the next buffer is not needed.
CopyGreedy ==
  /\ todo.op = "copy"
  /\ IF BufferSize <= todo.size
       THEN Advance(BufferSize) /\ GoesOn([op |-> "refresh", size |-> todo.size - BufferSize])
       ELSE Advance(todo.size) /\ Done(Idle)
  /\ UNCHANGED <<adaptor, limits, ending, lost>> /\ StreamUnchanged

Copy ==
  /\ todo.op = "copy"
  /\ IF BufferSize < todo.size
       THEN Advance(BufferSize) /\ GoesOn([op |-> "refresh", size |-> todo.size - BufferSize])
       ELSE Advance(todo.size) /\ Done(Idle)
  /\ UNCHANGED <<adaptor, limits, ending, lost>> /\ StreamUnchanged

CopyRefresh ==
  /\ todo.op = "refresh"
  /\ \/ RefreshSucceeds /\ GoesOn([todo EXCEPT !.op = "copy"])
     \/ RefreshFails /\ Fails(Idle)
  /\ UNCHANGED <<limits, ending, lost>> /\ StreamUnchanged

\* Skip and SkipFallback.  What the adaptor cannot skip is counted as read.
SkipWindow(count) ==
  /\ Ready /\ count <= BufferSize
  /\ IF Refuses(count) THEN UNCHANGED window /\ GoesOn([op |-> "refuse", size |-> count])
     ELSE Advance(count) /\ Done(Idle)
  /\ UNCHANGED <<adaptor, limits, ending, lost>> /\ StreamUnchanged

SkipInput(count, ok) ==
  /\ IF open # "flat" THEN Skip(count, ok) ELSE CallsNull /\ ~ok
  /\ lost' = (lost \/ ~ok)
  /\ totalBytesRead' = totalBytesRead + count
  /\ buffer' = 0 /\ bufferEnd' = 0
  /\ UNCHANGED <<overflowBytes, bufferSizeAfterLimit>>

SkipFallback(count) ==
  LET beyond == count - BufferSize
      untilLimit == ClosestLimit - totalBytesRead IN
  /\ Ready /\ beyond > 0
  /\ \/ /\ bufferSizeAfterLimit > 0
        /\ Advance(BufferSize) /\ Fails(Idle) /\ UNCHANGED <<adaptor, lost>>
     \/ /\ bufferSizeAfterLimit = 0 /\ untilLimit < beyond /\ Fails(Idle)
        /\ IF untilLimit > 0 THEN \E ok \in BOOLEAN : SkipInput(untilLimit, ok)
           ELSE /\ buffer' = 0 /\ bufferEnd' = 0
                /\ UNCHANGED <<totalBytesRead, overflowBytes, bufferSizeAfterLimit>>
                /\ UNCHANGED <<adaptor, lost>>
     \/ /\ bufferSizeAfterLimit = 0 /\ untilLimit >= beyond
        /\ \/ SkipInput(beyond, TRUE) /\ Done(Idle)
           \/ SkipInput(beyond, FALSE) /\ Fails(Idle)
  /\ UNCHANGED <<limits, ending>> /\ StreamUnchanged

\* GetDirectBufferPointer: "direct" is its return with true.
GetDirectBufferPointer ==
  /\ Ready
  /\ \/ BufferSize # 0 /\ UNCHANGED <<adaptor, window>> /\ Done([op |-> "direct"])
     \/ BufferSize = 0 /\ RefreshSucceeds /\ Done([op |-> "direct"])
     \/ BufferSize = 0 /\ RefreshFails /\ Fails(Idle)
  /\ UNCHANGED <<limits, ending, lost>> /\ StreamUnchanged

DirectReturns ==
  /\ todo.op = "direct"
  /\ GoesOn(Idle)
  /\ UNCHANGED <<adaptor, window, limits, ending, lost>> /\ StreamUnchanged
-----------------------------------------------------------------------------
(* Varints.                                                                *)
OneByte == BufferSize > 0 /\ buffer \in Ends

\* Mutant: the last byte of the window is not looked at.
InWindowUnchecked == BufferSize > 0

\* No varint that starts here can go beyond the window.
InWindow == BufferSize >= MaxVarint \/ (BufferSize > 0 /\ bufferEnd - 1 \in Ends)

\* Bytes the varint at the start of the window has: one more than MaxVarint if
\* it is too long.
VarintSize ==
  Min({MaxVarint + 1} \cup {n \in 1 .. MaxVarint : buffer + n - 1 \in Ends})

\* ReadVarint64 and its like: from the array if it is sure to be all there,
\* else byte by byte.  push: the varint is the length of what follows, and is
\* pushed as a limit by ReadLengthAndPushLimit.
Varint(push) == [op |-> "varint", count |-> 0, push |-> push]
AfterVarint == IF todo.push THEN [op |-> "push", failed |-> FALSE] ELSE Idle
AfterNoVarint == IF todo.push THEN [op |-> "push", failed |-> TRUE] ELSE Idle

ReadVarint(push) ==
  /\ Ready /\ (push => Len(stack) < MaxDepth)
  /\ GoesOn(Varint(push))
  /\ UNCHANGED <<adaptor, window, limits, ending, lost>> /\ StreamUnchanged

VarintFromArray ==
  /\ todo.op = "varint" /\ (OneByte \/ InWindow)
  /\ IF VarintSize <= MaxVarint
       THEN Advance(VarintSize) /\ Done(AfterVarint)
       ELSE UNCHANGED window /\ Fails(AfterNoVarint)
  /\ UNCHANGED <<adaptor, limits, ending, lost>> /\ StreamUnchanged

ReadVarint64Slow ==
  /\ todo.op = "varint" /\ ~OneByte /\ ~InWindow
  /\ GoesOn([todo EXCEPT !.op = "byte"])
  /\ UNCHANGED <<adaptor, window, limits, ending, lost>> /\ StreamUnchanged

VarintByte ==
  /\ todo.op = "byte"
  /\ \/ /\ todo.count = MaxVarint
        /\ Fails(AfterNoVarint) /\ UNCHANGED <<adaptor, window>>
     \/ /\ todo.count < MaxVarint /\ BufferSize = 0
        /\ \/ RefreshSucceeds /\ GoesOn(todo)
           \/ RefreshFails /\ Fails(AfterNoVarint)
     \/ /\ todo.count < MaxVarint /\ BufferSize > 0
        /\ Advance(1)
        /\ IF buffer \in Ends THEN Done(AfterVarint) ELSE GoesOn([todo EXCEPT !.count = @ + 1])
        /\ UNCHANGED adaptor
  /\ UNCHANGED <<limits, ending, lost>> /\ StreamUnchanged
-----------------------------------------------------------------------------
(* ReadTag.  Zero is what it returns at the end of a message.              *)
ReadTagInWindow ==
  /\ Ready /\ (OneByte \/ InWindow)
  /\ GoesOn(Varint(FALSE))
  /\ UNCHANGED <<adaptor, window, limits, ending, lost>> /\ StreamUnchanged

AtLimit ==
  /\ BufferSize = 0
  /\ bufferSizeAfterLimit > 0 \/ totalBytesRead = currentLimit
  /\ totalBytesRead - bufferSizeAfterLimit < totalBytesLimit

\* Mutant: the limit on the total is passed over when it is just reached.
TotalReachedLate == totalBytesRead - bufferSizeAfterLimit > totalBytesLimit

TotalReached == totalBytesRead - bufferSizeAfterLimit >= totalBytesLimit

\* ReadTagFallback knows a limit at once, ReadTagSlow when Refresh fails.
ReadTagFallback ==
  /\ Ready /\ ~OneByte /\ ~InWindow
  /\ \/ /\ AtLimit
        /\ legitimateMessageEnd' = TRUE /\ cutShort' = FALSE
        /\ GoesOn(Idle) /\ UNCHANGED <<adaptor, window>>
     \/ /\ ~AtLimit /\ BufferSize = 0 /\ RefreshFails
        /\ legitimateMessageEnd' = (~TotalReached \/ currentLimit = totalBytesLimit)
        /\ cutShort' = FALSE
        /\ GoesOn(Idle)
     \/ /\ ~AtLimit
        /\ IF BufferSize = 0 THEN RefreshSucceeds ELSE UNCHANGED <<adaptor, window>>
        /\ UNCHANGED ending
        /\ GoesOn(Varint(FALSE))
  /\ UNCHANGED <<limits, lost>> /\ StreamUnchanged

\* ExpectAtEnd, when it returns true.
ExpectAtEnd ==
  /\ Ready
  /\ BufferSize = 0
  /\ bufferSizeAfterLimit # 0 \/ totalBytesRead = currentLimit
  /\ legitimateMessageEnd' = TRUE
  /\ cutShort' = (cutShort \/ CurrentPosition # currentLimit)
  /\ UNCHANGED <<adaptor, window, limits, todo, outcome, lost>> /\ StreamUnchanged
-----------------------------------------------------------------------------
(* Limits.                                                                 *)
Legal(length) == length >= 0 /\ length <= MaxInt - CurrentPosition

\* Mutant: a limit is taken whatever the one before it.
PushedOver(length) == IF Legal(length) THEN CurrentPosition + length ELSE currentLimit

Pushed(length) ==
  IF Legal(length) /\ length < currentLimit - CurrentPosition
    THEN CurrentPosition + length ELSE currentLimit

PushLimit(length) ==
  /\ IF Pushed(length) # currentLimit THEN LimitsChange(Pushed(length), totalBytesLimit)
     ELSE UNCHANGED <<currentLimit, totalBytesLimit, window>>
  /\ stack' = Append(stack, [old |-> currentLimit,
                             asked |-> IF Legal(length) THEN CurrentPosition + length ELSE MaxInt])

Push(length) ==
  /\ Ready /\ Len(stack) < MaxDepth
  /\ PushLimit(length)
  /\ UNCHANGED <<adaptor, ending, todo, outcome, lost>> /\ StreamUnchanged

\* ReadLengthAndPushLimit: no length is a length of zero.
PushLength(length) ==
  /\ todo.op = "push"
  /\ PushLimit(IF todo.failed THEN 0 ELSE length)
  /\ GoesOn(Idle)
  /\ UNCHANGED <<adaptor, ending, lost>> /\ StreamUnchanged

\* PopLimit, alone or after ConsumedEntireMessage.
PopLimit ==
  /\ Ready /\ stack # <<>>
  /\ LimitsChange(Last(stack).old, totalBytesLimit)
  /\ stack' = Front(stack)
  /\ legitimateMessageEnd' = FALSE /\ cutShort' = FALSE
  /\ UNCHANGED <<adaptor, todo, outcome, lost>> /\ StreamUnchanged

SetTotalBytesLimit(limit) ==
  /\ Ready
  /\ LimitsChange(currentLimit, Max({CurrentPosition, limit}))
  /\ UNCHANGED <<adaptor, stack, ending, todo, outcome, lost>> /\ StreamUnchanged
-----------------------------------------------------------------------------
Lengths == -1 .. MaxInt

Method ==
  \/ \E n \in Lengths : Read(n) \/ SkipWindow(n) \/ SkipFallback(n)
  \/ \E push \in BOOLEAN : ReadVarint(push)
  \/ ReadTagInWindow \/ ReadTagFallback \/ ExpectAtEnd \/ GetDirectBufferPointer
  \/ \E n \in Lengths : Push(n) \/ SetTotalBytesLimit(n)
  \/ PopLimit

Continue ==
  \/ Refuse \/ Copy \/ CopyRefresh \/ DirectReturns
  \/ VarintFromArray \/ ReadVarint64Slow \/ VarintByte
  \/ \E n \in Lengths : PushLength(n)

Next == OpenStream \/ OpenFlat \/ Close \/ Method \/ Continue

Spec == Init /\ [][Next]_vars
-----------------------------------------------------------------------------
(* The pointers stay in the buffer that was lent, and the counters in their *)
(* range: none of the int computations overflows.                          *)
TypeOK ==
  /\ position \in 0 .. Size /\ bufferUsed \in 0 .. BlockSize
  /\ {failed, hasBuffer, misused, legitimateMessageEnd, erred, lost, cutShort} \subseteq BOOLEAN
  /\ backupBytes \in 0 .. bufferUsed
  /\ open \in {"closed", "stream", "flat"}
  /\ 0 <= buffer /\ buffer <= bufferEnd
  /\ {totalBytesRead, overflowBytes, bufferSizeAfterLimit} \subseteq Nat
  /\ {totalBytesRead, currentLimit, totalBytesLimit, good} \subseteq 0 .. MaxInt
  /\ CurrentPosition \in 0 .. MaxInt

(* The byte read next is the byte at CurrentPosition, wherever limits have *)
(* been set and lifted, unless the source has failed during a Skip.        *)
InPlace ==
  BufferSize > 0 /\ ~lost => buffer = origin + CurrentPosition

(* As the names imply, the stream has a stack of limits: the shortest one  *)
(* on it is enforced, whatever the order they were pushed in, and the      *)
(* position goes beyond neither it nor the limit on the total.             *)
ShortestEnforced ==
  /\ currentLimit = Min({stack[k].asked : k \in DOMAIN stack}
                        \cup {IF open = "flat" THEN FlatSize ELSE MaxInt})
  /\ CurrentPosition <= ClosestLimit
  /\ totalBytesRead - bufferSizeAfterLimit <= ClosestLimit

(* The stream calls its input as ZeroCopyInputStream demands: BackUp only  *)
(* after Next and for no more than Next has lent, and nothing on the null  *)
(* input_ of a stream over an array.                                       *)
InputRespected == ~misused

(* The destructor positions the input at the first unread byte or, if a    *)
(* method has returned false, somewhere between the last value that was    *)
(* read successfully and the limit.  When a Skip of the input has failed,  *)
(* what was to be skipped counts as read, and the input is left behind     *)
(* where the stream believes to be or short of it, but neither beyond a    *)
(* limit nor before the byte the stream was opened at.                     *)
CloseExact ==
  [][open = "stream" /\ open' = "closed" =>
       LET at == ByteCount' - origin IN
       /\ 0 <= at /\ at <= CurrentPosition /\ at <= ClosestLimit
       /\ ~lost => good <= at
       /\ ~lost /\ ~erred => at = good]_vars

\* Where a message may end: at a limit that was pushed, at the end of the
\* array, or where the input has ended.  It may also have failed: Next says
\* no more than FALSE.
MessageEnds ==
  \/ \E k \in DOMAIN stack : CurrentPosition = stack[k].asked
  \/ open = "flat" /\ CurrentPosition = FlatSize
  \/ open = "stream" /\ Exhausted /\ Unread = 0

(* ConsumedEntireMessage says yes only where a message may end.  ReadTag   *)
(* says no where the limit on the total cuts one short, with an exception: *)
(* at INT_MAX, where the default of that limit is no nearer than that of   *)
(* the others.  ExpectAtEnd takes any limit on the total for an end.       *)
EndExplained ==
  legitimateMessageEnd => MessageEnds \/ CurrentPosition = MaxInt \/ cutShort

(* GetDirectBufferPointer produces a non-empty buffer or returns false.    *)
DirectNotEmpty == todo.op = "direct" => BufferSize > 0

(***************************************************************************)
(* What CodedCursor calls the state of the stream.                         *)
(***************************************************************************)

Unknown == -1

End == IF open = "stream" /\ ~lost /\ Exhausted THEN ByteCount - origin ELSE Unknown

\* What a direct buffer shows has not been read.
Doing ==
  IF todo.op \in {"refuse", "copy", "refresh"} THEN [op |-> "read", to |-> CurrentPosition + todo.size]
  ELSE IF todo.op \in {"varint", "byte"}
    THEN [op |-> "varint", from |-> CurrentPosition - todo.count, push |-> todo.push]
  ELSE IF todo.op = "push" THEN todo ELSE Idle

Cursor == INSTANCE CodedCursor WITH
            input <- IF open = "stream" THEN origin ELSE ByteCount,
            at <- CurrentPosition,
            end <- End,
            limits <- [k \in DOMAIN stack |-> stack[k].asked],
            total <- totalBytesLimit,
            doing <- Doing

(* However the buffers fall, a method takes exactly the bytes it should or *)
(* fails for a reason: at a limit, at the end of the input, at a varint    *)
(* that is too long, at a size below zero, or when the input fails to      *)
(* skip.  The position never goes back, and the next stream begins where   *)
(* this one is closed; once the input has failed to skip, not beyond that. *)
IsCursor == Cursor!Spec
=============================================================================
