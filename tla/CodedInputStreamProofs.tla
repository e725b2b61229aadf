----------------------- MODULE CodedInputStreamProofs -----------------------
(***************************************************************************)
(* Theorems about CodedInputStream, for an input and buffers of any size,  *)
(* any INT_MAX, any array and any number of limits: a limit never lets a   *)
(* byte too many or too few through, and what was lent and not read is     *)
(* given back to the last byte; it implements CodedCursor.                 *)
(***************************************************************************)
EXTENDS CodedInputStream, SequenceTheorems, FiniteSetTheorems, WellFoundedInduction, TLAPS

-----------------------------------------------------------------------------
(* Least elements.                                                         *)
LEMMA LeastOfNats ==
  ASSUME NEW S \in SUBSET Nat, S # {}
  PROVE  Min(S) \in S /\ \A x \in S : Min(S) <= x
<1> DEFINE R == OpToRel(<, Nat)
<1>1. PICK m \in S : \A x \in S : ~ (<<x, m>> \in R)
  BY NatLessThanWellFounded, WFMin
<1>2. ASSUME NEW x \in S PROVE m <= x
  <2>1. R = {ss \in Nat \X Nat : ss[1] < ss[2]}
    BY Zenon DEF OpToRel
  <2> HIDE DEF R
  <2>2. <<x, m>> \in Nat \X Nat /\ <<x, m>>[1] = x /\ <<x, m>>[2] = m
    OBVIOUS
  <2>3. ~ (x < m)
    BY <1>1, <2>1, <2>2
  <2> QED BY <2>3
<1> QED BY <1>2 DEF Min

LEMMA MinOfTwo ==
  ASSUME NEW x \in Int, NEW y \in Int
  PROVE  Min({x, y}) = IF x <= y THEN x ELSE y
<1>1. \E m \in {x, y} : \A k \in {x, y} : m <= k
  <2>1. CASE x >= y
    BY <2>1
  <2>2. CASE y >= x
    BY <2>2
  <2> QED BY <2>1, <2>2
<1> QED BY <1>1 DEF Min

LEMMA MaxOfTwo ==
  ASSUME NEW x \in Int, NEW y \in Int
  PROVE  Max({x, y}) = IF x >= y THEN x ELSE y
<1>1. \E m \in {x, y} : \A k \in {x, y} : m >= k
  <2>1. CASE x >= y
    BY <2>1
  <2>2. CASE y >= x
    BY <2>2
  <2> QED BY <2>1, <2>2
<1> QED BY <1>1 DEF Max

-----------------------------------------------------------------------------
(* The inductive invariant, part by part.                                  *)

\* The adaptor never gives back more than it has read, and was never misused.
AdaptorInv ==
  /\ position \in 0 .. Size /\ bufferUsed \in 0 .. BlockSize /\ bufferUsed <= position
  /\ backupBytes \in 0 .. bufferUsed
  /\ {failed, hasBuffer} \subseteq BOOLEAN /\ lastNext \in Int
  /\ misused = FALSE

WindowType ==
  /\ open \in {"closed", "stream", "flat"} /\ lost \in BOOLEAN /\ origin \in Int
  /\ buffer \in Nat /\ bufferEnd \in Nat /\ buffer <= bufferEnd
  /\ totalBytesRead \in 0 .. MaxInt /\ overflowBytes \in Nat /\ bufferSizeAfterLimit \in Nat
  /\ currentLimit \in 0 .. MaxInt /\ totalBytesLimit \in 0 .. MaxInt
  /\ CurrentPosition \in Nat

\* The window is cut off at the nearest limit, and nowhere else.
CutAtLimit ==
  /\ totalBytesRead - bufferSizeAfterLimit <= currentLimit
  /\ totalBytesRead - bufferSizeAfterLimit <= totalBytesLimit
  /\ \/ bufferSizeAfterLimit = 0
     \/ totalBytesRead - bufferSizeAfterLimit = currentLimit
     \/ totalBytesRead - bufferSizeAfterLimit = totalBytesLimit
  /\ overflowBytes > 0 => totalBytesRead = MaxInt

\* The buffer, with the part of it beyond the limit, starts at CurrentPosition.
BufferInPlace ==
  BufferSize + bufferSizeAfterLimit > 0 /\ ~lost => buffer = origin + CurrentPosition

\* What the destructor may give back: all of it was lent by the last call of Next.
CanBackUp == backupBytes = 0 /\ hasBuffer /\ Unread <= lastNext /\ lastNext <= bufferUsed

\* A skip that failed counts for more than the input has moved.
InputInStep ==
  /\ open = "stream" /\ ~lost => ByteCount = origin + totalBytesRead + overflowBytes
  /\ open = "stream" => /\ ByteCount <= origin + totalBytesRead + overflowBytes
                        /\ origin + Unread <= ByteCount
  /\ open = "stream" /\ Unread > 0 => CanBackUp
  /\ open = "flat" => totalBytesRead = FlatSize /\ currentLimit <= FlatSize /\ overflowBytes = 0

WindowInv == AdaptorInv /\ WindowType /\ CutAtLimit /\ BufferInPlace /\ InputInStep

ClosedInv ==
  open = "closed" =>
    /\ todo = Idle
    /\ buffer = 0 /\ bufferEnd = 0
    /\ totalBytesRead = 0 /\ overflowBytes = 0 /\ bufferSizeAfterLimit = 0
    /\ currentLimit = MaxInt /\ totalBytesLimit = MaxInt /\ stack = <<>>
    /\ legitimateMessageEnd = FALSE /\ cutShort = FALSE
    /\ origin = 0 /\ good = 0 /\ erred = FALSE /\ lost = FALSE

Todos ==
  [op : {"idle", "direct"}] \cup [op : {"copy", "refresh"}, size : Nat]
    \cup [op : {"refuse"}, size : Int \ Nat]
    \cup [op : {"varint", "byte"}, count : 0 .. MaxVarint, push : BOOLEAN]
    \cup [op : {"push"}, failed : BOOLEAN]

TodoInv == todo \in Todos /\ (todo.op = "refresh" => BufferSize = 0)

\* Between two values all that was consumed was read, until a method fails.
OutcomeInv ==
  /\ erred \in BOOLEAN /\ good \in Nat /\ good <= CurrentPosition
  /\ todo.op \in {"idle", "direct", "push"} => erred \/ good = CurrentPosition

\* Where the innermost limit, pushed or not, or the end of the input is reached.
Ended ==
  \/ CurrentPosition = currentLimit
  \/ open = "stream" /\ Exhausted /\ Unread = 0

EndingInv ==
  /\ legitimateMessageEnd \in BOOLEAN /\ cutShort \in BOOLEAN
  /\ legitimateMessageEnd => Ended \/ cutShort

\* m is the least of the first k limits asked for and of the end of the stream.
EndOfStream == IF open = "flat" THEN FlatSize ELSE MaxInt
Least(m, k) ==
  /\ m = EndOfStream \/ \E j \in 1 .. k : m = stack[j].asked
  /\ m <= EndOfStream /\ \A j \in 1 .. k : m <= stack[j].asked

StackInv ==
  /\ stack \in Seq([old : 0 .. MaxInt, asked : 0 .. MaxInt])
  /\ \A k \in 1 .. Len(stack) : Least(stack[k].old, k - 1)
  /\ Least(currentLimit, Len(stack))

IInv == WindowInv /\ ClosedInv /\ TodoInv /\ OutcomeInv /\ EndingInv /\ StackInv
-----------------------------------------------------------------------------
(* What can happen to the window keeps its part of the invariant.          *)
LEMMA Recomputed ==
  ASSUME NEW end \in Int, NEW total \in Int, NEW current \in Int, NEW totalLimit \in Int,
         RecomputeBufferLimits(end, total, current, totalLimit)
  PROVE  \E beyond \in Nat :
           /\ bufferSizeAfterLimit' = beyond /\ bufferEnd' = end - beyond
           /\ total - beyond <= current /\ total - beyond <= totalLimit
           /\ beyond = 0 \/ total - beyond = current \/ total - beyond = totalLimit
<1> DEFINE closest == IF current <= totalLimit THEN current ELSE totalLimit
           beyond == IF closest < total THEN total - closest ELSE 0
<1>1. bufferSizeAfterLimit' = beyond /\ bufferEnd' = end - beyond
  BY MinOfTwo DEF RecomputeBufferLimits
<1> QED BY <1>1

LEMMA AdvanceStep ==
  ASSUME WindowInv, NEW n \in 0 .. BufferSize, Advance(n),
         UNCHANGED <<adaptor, currentLimit, totalBytesLimit, open, origin, lost>>
  PROVE  /\ WindowInv' /\ (Ended => Ended')
         /\ CurrentPosition' = CurrentPosition + n /\ BufferSize' = BufferSize - n
<1> USE CodedAssumption DEF WindowInv, WindowType, BufferSize, CurrentPosition, Unread, Advance
<1>1. UNCHANGED <<position, failed, bufferUsed, backupBytes, hasBuffer, lastNext, misused>>
  BY DEF adaptor
<1>2. AdaptorInv'
  BY <1>1 DEF AdaptorInv
<1>3. WindowType'
  OBVIOUS
<1>4. CutAtLimit'
  BY DEF CutAtLimit
<1>5. BufferInPlace'
  BY DEF BufferInPlace
<1>6. InputInStep'
  BY <1>1 DEF InputInStep, CanBackUp, ByteCount, AdaptorInv
<1>7. Ended => Ended'
  BY <1>1 DEF Ended, Exhausted, CutAtLimit, ByteCount
<1> QED BY <1>2, <1>3, <1>4, <1>5, <1>6, <1>7

LEMMA LimitsStep ==
  ASSUME WindowInv, NEW c \in 0 .. MaxInt, NEW l \in 0 .. MaxInt,
         CurrentPosition <= c, CurrentPosition <= l, open = "flat" => c <= FlatSize,
         LimitsChange(c, l), UNCHANGED <<adaptor, open, origin, lost>>
  PROVE  /\ WindowInv'
         /\ Ended /\ (c = currentLimit \/ CurrentPosition # currentLimit) => Ended'
         /\ CurrentPosition' = CurrentPosition
         /\ BufferSize' + bufferSizeAfterLimit' = BufferSize + bufferSizeAfterLimit
<1> USE CodedAssumption DEF WindowInv, WindowType, BufferSize, CurrentPosition, Unread
<1>1. UNCHANGED <<position, failed, bufferUsed, backupBytes, hasBuffer, lastNext, misused>>
  BY DEF adaptor
<1>2. /\ currentLimit' = c /\ totalBytesLimit' = l
      /\ UNCHANGED <<buffer, totalBytesRead, overflowBytes>>
  BY DEF LimitsChange
<1>a. PICK beyond \in Nat :
         /\ bufferSizeAfterLimit' = beyond
         /\ bufferEnd' = bufferEnd + bufferSizeAfterLimit - beyond
         /\ totalBytesRead - beyond <= c /\ totalBytesRead - beyond <= l
         /\ beyond = 0 \/ totalBytesRead - beyond = c \/ totalBytesRead - beyond = l
  BY Recomputed DEF LimitsChange
<1>3. AdaptorInv'
  BY <1>1 DEF AdaptorInv
<1>4. WindowType'
  BY <1>2, <1>a
<1>5. CutAtLimit'
  BY <1>2, <1>a DEF CutAtLimit
<1>6. BufferInPlace'
  BY <1>2, <1>a DEF BufferInPlace
<1>7. InputInStep'
  BY <1>1, <1>2, <1>a DEF InputInStep, CanBackUp, ByteCount, AdaptorInv
<1>8. Ended /\ (c = currentLimit \/ CurrentPosition # currentLimit) => Ended'
  BY <1>1, <1>2, <1>a DEF Ended, Exhausted, CutAtLimit, ByteCount
<1> QED BY <1>2, <1>a, <1>3, <1>4, <1>5, <1>6, <1>7, <1>8
\* A step of a method keeps the stream open, unless it is the constructor that
\* refreshes.
InputStays ==
  \/ open # "closed" /\ UNCHANGED <<open, origin>>
  \/ /\ open = "closed" /\ open' = "stream" /\ origin' = ByteCount
     /\ totalBytesRead = 0 /\ overflowBytes = 0 /\ bufferSizeAfterLimit = 0

LEMMA LendStep ==
  ASSUME AdaptorInv, NEW n \in 1 .. Size, NextLends(n)
  PROVE  \E p \in 0 .. Size, used \in 0 .. BlockSize :
           /\ position' = p /\ bufferUsed' = used /\ backupBytes' = 0 /\ hasBuffer' = TRUE
           /\ lastNext' = n /\ UNCHANGED <<failed, misused>> /\ failed = FALSE
           /\ p = ByteCount + n /\ n <= used /\ used <= p
<1>1. CASE backupBytes > 0 /\ n = backupBytes /\ UNCHANGED <<position, bufferUsed>>
  BY <1>1, AdaptorAssumption DEF NextLends, AdaptorInv, ByteCount
<1>2. CASE /\ backupBytes = 0 /\ n \in 1 .. BlockSize /\ position + n <= Size
           /\ position' = position + n /\ bufferUsed' = n
  BY <1>2, AdaptorAssumption DEF NextLends, AdaptorInv, ByteCount
<1> QED BY <1>1, <1>2 DEF NextLends

LEMMA RefreshStep ==
  ASSUME WindowInv, BufferSize = 0, RefreshSucceeds, InputStays,
         UNCHANGED <<currentLimit, totalBytesLimit, lost>>
  PROVE  /\ WindowInv' /\ (open = "stream" => ~Ended)
         /\ CurrentPosition' = CurrentPosition
<1> USE CodedAssumption, AdaptorAssumption
    DEF WindowInv, WindowType, BufferSize, CurrentPosition, Unread, ByteCount
<1>1. PICK n \in 1 .. Size :
        /\ ~Stopped /\ open # "flat" /\ NextLends(n)
        /\ buffer' = ByteCount /\ overflowBytes' = Overflow(n)
        /\ totalBytesRead' = Min({totalBytesRead + n, MaxInt})
        /\ RecomputeBufferLimits(ByteCount + n - Overflow(n),
                                 totalBytesRead', currentLimit, totalBytesLimit)
  BY DEF RefreshSucceeds
<1>2. /\ bufferSizeAfterLimit = 0 /\ overflowBytes = 0
      /\ totalBytesRead # currentLimit /\ bufferEnd = buffer
  BY <1>1 DEF Stopped
<1>3. PICK total \in 0 .. MaxInt, over \in Nat :
        /\ totalBytesRead' = total /\ overflowBytes' = over /\ Overflow(n) = over
        /\ total + over = totalBytesRead + n /\ total >= totalBytesRead
        /\ over > 0 => total = MaxInt
  <2> DEFINE total == IF totalBytesRead + n <= MaxInt THEN totalBytesRead + n ELSE MaxInt
             over == IF 0 >= totalBytesRead - (MaxInt - n) THEN 0
                     ELSE totalBytesRead - (MaxInt - n)
  <2>1. totalBytesRead' = total /\ overflowBytes' = over /\ Overflow(n) = over
    BY <1>1, MinOfTwo, MaxOfTwo DEF Overflow
  <2> QED BY <2>1
<1>4. PICK p \in 0 .. Size, used \in 0 .. BlockSize :
        /\ position' = p /\ bufferUsed' = used /\ backupBytes' = 0 /\ hasBuffer' = TRUE
        /\ lastNext' = n /\ UNCHANGED <<failed, misused>> /\ failed = FALSE
        /\ p = ByteCount + n /\ n <= used /\ used <= p
  BY <1>1, LendStep
<1>5. ByteCount \in Nat
  BY DEF AdaptorInv
<1>a. PICK end \in Int : end = ByteCount + n - over
  BY <1>5
<1>6. PICK beyond \in Nat :
        /\ bufferSizeAfterLimit' = beyond /\ bufferEnd' = end - beyond
        /\ total - beyond <= currentLimit /\ total - beyond <= totalBytesLimit
        /\ beyond = 0 \/ total - beyond = currentLimit \/ total - beyond = totalBytesLimit
  <2>1. RecomputeBufferLimits(end, total, currentLimit, totalBytesLimit)
    BY <1>1, <1>3, <1>a
  <2>2. total \in Int /\ currentLimit \in Int /\ totalBytesLimit \in Int
    OBVIOUS
  <2> QED BY <2>1, <2>2, Recomputed
<1>7. /\ open' = "stream" /\ origin' \in Int
      /\ ~lost => ByteCount = origin' + totalBytesRead
  BY <1>1, <1>2, <1>5 DEF InputStays, InputInStep
<1>b. origin' <= ByteCount /\ ByteCount <= origin' + totalBytesRead
  BY <1>1, <1>2, <1>5 DEF InputStays, InputInStep
<1>8. total - beyond >= totalBytesRead
  BY <1>2, <1>3, <1>6 DEF CutAtLimit
<1>9. /\ AdaptorInv'
  BY <1>4 DEF AdaptorInv
<1>10. WindowType'
  BY <1>1, <1>2, <1>3, <1>5, <1>a, <1>6, <1>7, <1>8
<1>11. CutAtLimit'
  BY <1>3, <1>6 DEF CutAtLimit
<1>12. CurrentPosition' = CurrentPosition
  BY <1>1, <1>2, <1>3, <1>5, <1>a, <1>6
<1>13. BufferInPlace'
  BY <1>1, <1>2, <1>3, <1>5, <1>a, <1>6, <1>7 DEF BufferInPlace
<1>14. InputInStep'
  <2>1. ~lost => (origin + totalBytesRead + overflowBytes = ByteCount)'
    BY <1>2, <1>3, <1>4, <1>5, <1>7
  <2>2. CanBackUp'
    BY <1>1, <1>3, <1>4, <1>5, <1>a, <1>6 DEF CanBackUp
  <2>3. Unread' = n /\ ByteCount' = ByteCount + n
    BY <1>1, <1>3, <1>4, <1>5, <1>a, <1>6
  <2>4. (ByteCount <= origin + totalBytesRead + overflowBytes)'
    BY <1>3, <1>5, <1>7, <1>b, <2>3
  <2>5. (origin + Unread <= ByteCount)'
    <3>1. PICK from \in Int, count \in Int :
            from = origin' /\ count = ByteCount /\ from <= count /\ ByteCount' = count + n
      BY <1>5, <1>7, <1>b, <2>3
    <3>2. from + n <= count + n
      BY ONLY <3>1, n \in 1 .. Size, AdaptorAssumption
    <3> HIDE DEF Unread, ByteCount
    <3> QED BY <2>3, <3>1, <3>2
  <2>6. (open = "stream" /\ Unread > 0 => CanBackUp)'
    BY <2>2
  <2> HIDE DEF Unread, ByteCount
  <2> QED BY <2>1, <2>4, <2>5, <2>6, <1>7 DEF InputInStep
<1>15. open = "stream" => ~Ended
  BY <1>1, <1>2, <1>4, <1>5 DEF Ended, Exhausted, AdaptorInv
<1> QED BY <1>9, <1>10, <1>11, <1>12, <1>13, <1>14, <1>15
LEMMA RefreshFailsStep ==
  ASSUME WindowInv, BufferSize = 0, RefreshFails, InputStays,
         UNCHANGED <<currentLimit, totalBytesLimit, lost>>
  PROVE  /\ WindowInv' /\ (open # "closed" /\ Ended => Ended')
         /\ CurrentPosition' = CurrentPosition /\ BufferSize' = 0
         /\ open # "closed" /\ ~AtLimit /\ (~TotalReached \/ currentLimit = totalBytesLimit)
              => Ended'
<1> USE CodedAssumption, AdaptorAssumption
    DEF WindowInv, WindowType, BufferSize, CurrentPosition, Unread, ByteCount
<1>0. ByteCount \in Nat
  BY DEF AdaptorInv
<1>1. /\ open' \in {"stream", "flat"} /\ origin' \in Int
      /\ open' = "stream" /\ ~lost => ByteCount = origin' + totalBytesRead + overflowBytes
      /\ open' = "stream" => /\ ByteCount <= origin' + totalBytesRead + overflowBytes
                             /\ origin' + Unread <= ByteCount
      /\ open' = "stream" /\ Unread > 0 => CanBackUp
      /\ open' = "flat" => /\ totalBytesRead = FlatSize /\ currentLimit <= FlatSize
                           /\ overflowBytes = 0 /\ open = "flat"
      /\ ~lost /\ bufferSizeAfterLimit > 0 => buffer = origin' + CurrentPosition
      /\ open # "closed" => open' = open
  BY <1>0 DEF InputStays, InputInStep, BufferInPlace
<1>2. CASE Stopped /\ UNCHANGED <<adaptor, window>>
  <2>1. /\ UNCHANGED <<position, failed, bufferUsed, backupBytes, hasBuffer, lastNext, misused>>
        /\ UNCHANGED <<buffer, bufferEnd, totalBytesRead, overflowBytes, bufferSizeAfterLimit>>
    BY <1>2 DEF adaptor, window
  <2>2. AdaptorInv' /\ WindowType' /\ CutAtLimit'
    BY <1>1, <2>1 DEF AdaptorInv, CutAtLimit
  <2>3. BufferInPlace'
    BY <1>1, <2>1 DEF BufferInPlace
  <2>4. InputInStep'
    <3>1. Unread' = Unread /\ ByteCount' = ByteCount
      BY <2>1
    <3>2. /\ (open = "stream" /\ ~lost => ByteCount = origin + totalBytesRead + overflowBytes)'
          /\ (open = "stream" => /\ ByteCount <= origin + totalBytesRead + overflowBytes
                                /\ origin + Unread <= ByteCount)'
      <4> HIDE DEF Unread, ByteCount
      <4> QED BY <1>1, <2>1, <3>1
    <3>3. (open = "stream" /\ Unread > 0 => CanBackUp)'
      BY <1>1, <2>1 DEF CanBackUp
    <3> QED BY <1>1, <2>1, <3>2, <3>3 DEF InputInStep
  <2>5. open # "closed" /\ Ended => Ended'
    BY <1>1, <2>1 DEF Ended, Exhausted
  <2>6. ~AtLimit /\ (~TotalReached \/ currentLimit = totalBytesLimit)
          => CurrentPosition = currentLimit
    BY <1>2 DEF AtLimit, TotalReached, Stopped, CutAtLimit
  <2> QED BY <2>1, <2>2, <2>3, <2>4, <2>5, <2>6 DEF Ended
<1>3. CASE /\ ~Stopped
           /\ IF open # "flat" THEN NextFails ELSE CallsNull
           /\ buffer' = 0 /\ bufferEnd' = 0
           /\ UNCHANGED <<totalBytesRead, overflowBytes, bufferSizeAfterLimit>>
  <2>1. /\ bufferSizeAfterLimit = 0 /\ overflowBytes = 0 /\ totalBytesRead < currentLimit
    BY <1>3 DEF Stopped, CutAtLimit
  <2>2. open # "flat" /\ open' = "stream"
    BY <1>1, <2>1 DEF InputInStep
  <2>3. NextFails
    BY <1>3, <2>2
  <2>4. /\ UNCHANGED <<position, backupBytes, misused>> /\ lastNext' = -1
        /\ failed' \in BOOLEAN /\ hasBuffer' \in BOOLEAN
        /\ bufferUsed' \in {0, bufferUsed} /\ backupBytes <= bufferUsed'
    <3>1. UNCHANGED <<position, backupBytes, misused>> /\ lastNext' = -1
      BY <2>3 DEF NextFails, NotNext
    <3>2. CASE failed /\ UNCHANGED <<failed, bufferUsed, hasBuffer>>
      BY <3>1, <3>2 DEF AdaptorInv
    <3>3. CASE /\ ~failed /\ backupBytes = 0 /\ bufferUsed' = 0 /\ hasBuffer' = FALSE
               /\ failed' \in (IF position = Size THEN BOOLEAN ELSE {TRUE})
      <4>1. failed' \in BOOLEAN
        BY <3>3, Zenon
      <4>2. bufferUsed' = 0 /\ backupBytes = 0 /\ hasBuffer' \in BOOLEAN
        BY <3>3
      <4> QED BY <3>1, <4>1, <4>2
    <3> QED BY <2>3, <3>2, <3>3 DEF NextFails
  <2>5. failed' \/ ByteCount = Size
    <3>1. CASE failed /\ UNCHANGED failed
      BY <3>1
    <3>2. CASE /\ backupBytes = 0
               /\ failed' \in (IF position = Size THEN BOOLEAN ELSE {TRUE})
      <4>1. CASE position = Size
        BY <3>2, <4>1
      <4>2. CASE position # Size
        BY <3>2, <4>2, Zenon
      <4> QED BY <4>1, <4>2
    <3> QED BY <2>3, <3>1, <3>2 DEF NextFails
  <2>6. AdaptorInv'
    BY <2>4 DEF AdaptorInv
  <2>7. WindowType' /\ CutAtLimit' /\ BufferInPlace'
    BY <1>1, <1>3, <2>1 DEF CutAtLimit, BufferInPlace
  <2>8. InputInStep'
    <3>1. Unread' = 0 /\ Unread \in Nat /\ ByteCount' = ByteCount
      BY <1>3, <2>1, <2>4
    <3>2. PICK unread \in Nat, count \in Nat : unread = Unread /\ count = ByteCount
      BY <1>0, <3>1
    <3>3. origin' + unread <= count /\ count <= origin' + totalBytesRead + overflowBytes
      BY <1>1, <2>2, <3>2
    <3>4. PICK from \in Int : from = origin' /\ from + unread <= count
      BY <1>1, <3>3
    <3>5. from <= count
      <4>1. \A a \in Int, b \in Nat, c \in Nat : a + b <= c => a <= c
        OBVIOUS
      <4> QED BY <3>4, <4>1
    <3>6. ~lost => count = origin' + totalBytesRead + overflowBytes
      BY <1>1, <2>2, <3>2
    <3>7. /\ ByteCount' = count /\ Unread' = 0 /\ open' = "stream" /\ lost' = lost
          /\ UNCHANGED <<totalBytesRead, overflowBytes>>
      BY <1>3, <2>2, <3>1, <3>2
    <3>8. /\ (~lost => ByteCount = origin + totalBytesRead + overflowBytes)'
          /\ (ByteCount <= origin + totalBytesRead + overflowBytes)'
          /\ (origin + Unread <= ByteCount)'
      <4> HIDE DEF ByteCount, Unread
      <4>1. from + Unread' = from
        BY <3>7
      <4>2. (origin + Unread <= ByteCount)'
        BY <3>4, <3>5, <3>7, <4>1
      <4> QED BY <3>3, <3>6, <3>7, <4>2
    <3>9. (Unread > 0 => CanBackUp)' /\ open' # "flat"
      <4> HIDE DEF Unread
      <4> QED BY <3>7
    <3> HIDE DEF ByteCount, Unread
    <3> QED BY <3>7, <3>8, <3>9 DEF InputInStep
  <2>9. Ended'
    BY <1>3, <2>1, <2>2, <2>4, <2>5 DEF Ended, Exhausted
  <2> QED BY <1>3, <2>1, <2>6, <2>7, <2>8, <2>9
<1> QED BY <1>2, <1>3 DEF RefreshFails

\* SkipFallback drops the window when it has been used up.
LEMMA WipeStep ==
  ASSUME WindowInv, bufferSizeAfterLimit = 0, buffer' = 0, bufferEnd' = 0,
         totalBytesRead >= currentLimit \/ totalBytesRead >= totalBytesLimit,
         UNCHANGED <<totalBytesRead, overflowBytes, bufferSizeAfterLimit, adaptor>>,
         UNCHANGED <<currentLimit, totalBytesLimit, open, origin, lost>>
  PROVE  /\ WindowInv' /\ (Ended => Ended')
         /\ CurrentPosition' >= CurrentPosition /\ BufferSize' = 0
<1> USE CodedAssumption, AdaptorAssumption
    DEF WindowInv, WindowType, BufferSize, CurrentPosition, Unread, ByteCount
<1>1. UNCHANGED <<position, failed, bufferUsed, backupBytes, hasBuffer, lastNext, misused>>
  BY DEF adaptor
<1>2. AdaptorInv'
  BY <1>1 DEF AdaptorInv
<1>3. WindowType' /\ CutAtLimit' /\ BufferInPlace'
  BY DEF CutAtLimit, BufferInPlace
<1>4. InputInStep'
  BY <1>1 DEF InputInStep, CanBackUp, AdaptorInv
<1>5. Ended => Ended'
  BY <1>1 DEF Ended, Exhausted, CutAtLimit
<1> QED BY <1>2, <1>3, <1>4, <1>5

LEMMA SkipInputStep ==
  ASSUME WindowInv, bufferSizeAfterLimit = 0, open # "closed", NEW count \in Nat \ {0},
         totalBytesRead + count <= currentLimit, totalBytesRead + count <= totalBytesLimit,
         NEW ok \in BOOLEAN, SkipInput(count, ok),
         UNCHANGED <<currentLimit, totalBytesLimit, open, origin>>
  PROVE  /\ WindowInv' /\ (Ended => Ended')
         /\ CurrentPosition' >= CurrentPosition /\ BufferSize' = 0
<1> USE CodedAssumption, AdaptorAssumption
    DEF WindowInv, WindowType, BufferSize, CurrentPosition, Unread, ByteCount
<1>1. /\ lost' = (lost \/ ~ok) /\ totalBytesRead' = totalBytesRead + count
      /\ buffer' = 0 /\ bufferEnd' = 0 /\ UNCHANGED <<overflowBytes, bufferSizeAfterLimit>>
  BY DEF SkipInput
<1>2. open = "stream" /\ overflowBytes = 0
  BY DEF InputInStep, CutAtLimit
<1>3. Skip(count, ok)
  BY <1>2 DEF SkipInput
<1>4. PICK p \in 0 .. Size, b \in 0 .. bufferUsed :
        /\ position' = p /\ backupBytes' = b /\ position <= p
        /\ ok => p - b = ByteCount + count
        /\ ByteCount <= p - b /\ p - b <= ByteCount + count
        /\ failed \/ ByteCount = Size => failed \/ p - b = Size
  <2>1. CASE failed /\ ~ok /\ UNCHANGED <<position, backupBytes>>
    BY <2>1 DEF AdaptorInv
  <2>2. CASE /\ ~failed /\ backupBytes >= count /\ ok
             /\ backupBytes' = backupBytes - count /\ UNCHANGED position
    BY <2>2 DEF AdaptorInv
  <2>3. CASE /\ ~failed /\ backupBytes < count
             /\ \E skipped \in 0 .. count - backupBytes :
                  /\ position + skipped <= Size
                  /\ ok = (skipped = count - backupBytes)
                  /\ position' = position + skipped
             /\ backupBytes' = 0
    BY <2>3 DEF AdaptorInv
  <2> QED BY <1>3, <2>1, <2>2, <2>3 DEF Skip
<1>5. UNCHANGED <<failed, bufferUsed, hasBuffer, misused>> /\ lastNext' = -1
  BY <1>3 DEF Skip, NotNext
<1>6. AdaptorInv'
  BY <1>4, <1>5 DEF AdaptorInv
<1>7. WindowType' /\ CutAtLimit' /\ BufferInPlace'
  BY <1>1, <1>2 DEF CutAtLimit, BufferInPlace
<1>8. InputInStep'
  <2>1. ~lost' => ok /\ ~lost
    BY <1>1
  <2>2. /\ ByteCount <= origin + totalBytesRead + overflowBytes /\ origin + Unread <= ByteCount
        /\ ~lost => ByteCount = origin + totalBytesRead + overflowBytes
    BY <1>2 DEF InputInStep
  <2>3. PICK before \in Nat, now \in Int :
          /\ before = ByteCount /\ now = ByteCount' /\ before <= now /\ now <= before + count
          /\ ok => now = before + count
    BY <1>4 DEF AdaptorInv
  <2>4. Unread' = 0 /\ Unread \in Nat /\ overflowBytes' = 0 /\ open' = "stream" /\ origin' = origin
    BY <1>1, <1>2
  <2> HIDE DEF ByteCount, Unread
  <2> QED BY <1>1, <1>2, <2>1, <2>2, <2>3, <2>4 DEF InputInStep
<1>9. Ended => Ended'
  <2>1. CurrentPosition # currentLimit
    BY <1>2
  <2> QED BY <1>1, <1>2, <1>4, <1>5, <2>1 DEF Ended, Exhausted
<1> QED BY <1>1, <1>6, <1>7, <1>8, <1>9
-----------------------------------------------------------------------------
(* What a method does besides.                                             *)
Settled == {"idle", "direct", "push"}

LEMMA OutcomeKept ==
  ASSUME OutcomeInv, CurrentPosition \in Nat, NEW position2 \in Nat,
         CurrentPosition' = position2, CurrentPosition <= position2, NEW next,
         \/ Done(next)
         \/ Fails(next)
         \/ /\ GoesOn(next)
            /\ next.op \notin Settled \/ (todo.op \in Settled /\ position2 = CurrentPosition)
  PROVE  OutcomeInv' /\ todo' = next
<1>1. CASE Done(next)
  BY <1>1 DEF Done, OutcomeInv
<1>2. CASE Fails(next)
  BY <1>2 DEF Fails, OutcomeInv
<1>3. CASE GoesOn(next) /\ next.op \notin Settled
  BY <1>3 DEF GoesOn, OutcomeInv, Settled, outcome
<1>4. CASE GoesOn(next) /\ todo.op \in Settled /\ position2 = CurrentPosition
  BY <1>4 DEF GoesOn, OutcomeInv, Settled, outcome
<1> QED BY <1>1, <1>2, <1>3, <1>4

LEMMA StackKept ==
  ASSUME StackInv, UNCHANGED <<currentLimit, stack, open>>
  PROVE  StackInv'
  BY DEF StackInv, Least, EndOfStream

LEMMA EndingKept ==
  ASSUME EndingInv, UNCHANGED ending, Ended => Ended'
  PROVE  EndingInv'
  BY DEF EndingInv, ending

LEMMA TodoShape ==
  ASSUME todo \in Todos
  PROVE  /\ todo.op \in {"copy", "refresh"} =>
              \E n \in Nat : todo = [op |-> todo.op, size |-> n]
         /\ todo.op = "refuse" => \E n \in Int \ Nat : todo = [op |-> "refuse", size |-> n]
         /\ todo.op \in {"varint", "byte"} =>
              \E n \in 0 .. MaxVarint, push \in BOOLEAN :
                todo = [op |-> todo.op, count |-> n, push |-> push]
         /\ todo.op = "push" => \E f \in BOOLEAN : todo = [op |-> "push", failed |-> f]
<1>1. CASE todo \in [op : {"idle", "direct"}]
  BY <1>1
<1>2. CASE todo \in [op : {"copy", "refresh"}, size : Nat]
  BY <1>2
<1>3. CASE todo \in [op : {"varint", "byte"}, count : 0 .. MaxVarint, push : BOOLEAN]
  BY <1>3
<1>4. CASE todo \in [op : {"push"}, failed : BOOLEAN]
  BY <1>4
<1>5. CASE todo \in [op : {"refuse"}, size : Int \ Nat]
  BY <1>5
<1> QED BY <1>1, <1>2, <1>3, <1>4, <1>5 DEF Todos

LEMMA TodosMade ==
  /\ Idle \in Todos /\ [op |-> "direct"] \in Todos
  /\ \A n \in Nat : [op |-> "copy", size |-> n] \in Todos /\ [op |-> "refresh", size |-> n] \in Todos
  /\ \A n \in Int \ Nat : [op |-> "refuse", size |-> n] \in Todos
  /\ \A n \in 0 .. MaxVarint, push \in BOOLEAN :
       /\ [op |-> "varint", count |-> n, push |-> push] \in Todos
       /\ [op |-> "byte", count |-> n, push |-> push] \in Todos
  /\ \A f \in BOOLEAN : [op |-> "push", failed |-> f] \in Todos
  BY DEF Todos, Idle

LEMMA WindowUnchanged ==
  ASSUME WindowInv, UNCHANGED <<adaptor, window, currentLimit, totalBytesLimit, open, origin, lost>>
  PROVE  /\ WindowInv' /\ (Ended => Ended')
         /\ CurrentPosition' = CurrentPosition /\ BufferSize' = BufferSize
<1>1. UNCHANGED <<position, failed, bufferUsed, backupBytes, hasBuffer, lastNext, misused>>
  BY DEF adaptor
<1>2. UNCHANGED <<buffer, bufferEnd, totalBytesRead, overflowBytes, bufferSizeAfterLimit>>
  BY DEF window
<1> QED BY <1>1, <1>2 DEF WindowInv, AdaptorInv, WindowType, CutAtLimit, BufferInPlace, InputInStep,
         CanBackUp, Ended, Exhausted, Unread, ByteCount, CurrentPosition, BufferSize

\* A method that leaves the limits and the end of the message alone.
LEMMA MethodKeeps ==
  ASSUME IInv, open # "closed", UNCHANGED <<limits, ending>>, StreamUnchanged,
         WindowInv', Ended => Ended', CurrentPosition' >= CurrentPosition,
         NEW next \in Todos, next.op = "refresh" => BufferSize' = 0,
         \/ Done(next)
         \/ Fails(next)
         \/ /\ GoesOn(next)
            /\ \/ next.op \notin Settled
               \/ todo.op \in Settled /\ CurrentPosition' = CurrentPosition
  PROVE  IInv'
<1>1. UNCHANGED <<currentLimit, stack, open, ending>>
  BY DEF limits, StreamUnchanged
<1>2. StackInv' /\ EndingInv'
  BY <1>1, StackKept, EndingKept DEF IInv
<1>3. PICK position2 \in Nat : CurrentPosition' = position2
  BY DEF WindowInv, WindowType
<1>4. CurrentPosition \in Nat
  BY DEF IInv, WindowInv, WindowType
<1>5. OutcomeInv' /\ todo' = next
  BY <1>3, <1>4, OutcomeKept DEF IInv
<1>6. ClosedInv' /\ TodoInv'
  BY <1>1, <1>5 DEF ClosedInv, TodoInv
<1> QED BY <1>2, <1>5, <1>6 DEF IInv

LEMMA UnderWay ==
  ASSUME IInv
  PROVE  /\ WindowInv /\ BufferSize \in Nat /\ CurrentPosition \in Nat
         /\ todo # Idle => open # "closed"
  BY DEF IInv, WindowInv, WindowType, ClosedInv, BufferSize

LEMMA ReadKeeps ==
  ASSUME IInv, NEW n \in Lengths, Read(n)
  PROVE  IInv'
<1> DEFINE next == [op |-> IF Refuses(n) THEN "refuse" ELSE "copy", size |-> n]
<1>1. next \in Todos /\ next.op \notin Settled /\ next.op # "refresh"
  <2>1. CASE Refuses(n)
    <3>1. n \in Int \ Nat
      BY <2>1, CodedAssumption DEF Refuses, Lengths
    <3>2. [op |-> "refuse", size |-> n] \in Todos
      BY <3>1, TodosMade
    <3> QED BY <2>1, <3>2 DEF Settled
  <2>2. CASE ~Refuses(n)
    <3>1. n \in Nat
      BY <2>2, CodedAssumption DEF Refuses, Lengths
    <3>2. [op |-> "copy", size |-> n] \in Todos
      BY <3>1, TodosMade
    <3> QED BY <2>2, <3>2 DEF Settled
  <2> QED BY <2>1, <2>2
<1>2. /\ WindowInv' /\ (Ended => Ended')
      /\ CurrentPosition' = CurrentPosition /\ BufferSize' = BufferSize
  BY WindowUnchanged, UnderWay DEF Read, limits, StreamUnchanged
<1>3. CurrentPosition' >= CurrentPosition
  BY <1>2, UnderWay
<1> HIDE DEF next
<1>4. /\ open # "closed" /\ UNCHANGED <<limits, ending>> /\ StreamUnchanged /\ GoesOn(next)
  BY DEF Read, Ready, next
<1> QED BY <1>1, <1>2, <1>3, <1>4, MethodKeeps

LEMMA RefuseKeeps ==
  ASSUME IInv, Refuse
  PROVE  IInv'
<1>1. /\ open # "closed" /\ UNCHANGED <<limits, ending>> /\ StreamUnchanged /\ Fails(Idle)
      /\ UNCHANGED <<adaptor, window, currentLimit, totalBytesLimit, open, origin, lost>>
  BY UnderWay DEF Refuse, Idle, StreamUnchanged, limits
<1>2. WindowInv' /\ (Ended => Ended') /\ CurrentPosition' = CurrentPosition
  BY <1>1, UnderWay, WindowUnchanged
<1>3. CurrentPosition' >= CurrentPosition
  BY <1>2, UnderWay
<1> QED BY <1>1, <1>2, <1>3, MethodKeeps, TodosMade DEF Idle

LEMMA CopyKeeps ==
  ASSUME IInv, Copy
  PROVE  IInv'
<1>1. PICK n \in Nat : todo = [op |-> "copy", size |-> n]
  BY TodoShape DEF IInv, TodoInv, Copy
<1>2. /\ open # "closed" /\ UNCHANGED <<limits, ending>> /\ StreamUnchanged
      /\ UNCHANGED <<adaptor, currentLimit, totalBytesLimit, open, origin, lost>>
  BY <1>1, UnderWay DEF Copy, Idle, StreamUnchanged, limits
<1>3. CASE BufferSize < n
  <2> DEFINE next == [op |-> "refresh", size |-> n - BufferSize]
  <2>1. next \in Todos
    <3>1. PICK m \in Nat : m = n - BufferSize
      BY <1>3, UnderWay
    <3> QED BY <3>1, TodosMade
  <2>2. Advance(BufferSize) /\ GoesOn(next) /\ next.op = "refresh"
    BY <1>1, <1>3 DEF Copy
  <2> HIDE DEF next
  <2>3. BufferSize \in 0 .. BufferSize
    BY UnderWay
  <2>4. /\ WindowInv' /\ (Ended => Ended') /\ CurrentPosition' = CurrentPosition + BufferSize
        /\ BufferSize' = BufferSize - BufferSize
    BY <1>2, <2>2, <2>3, UnderWay, AdvanceStep
  <2>5. CurrentPosition' >= CurrentPosition /\ BufferSize' = 0
    BY <2>4, UnderWay
  <2> QED BY <1>2, <2>1, <2>2, <2>4, <2>5, MethodKeeps DEF Settled
<1>4. CASE ~ (BufferSize < n)
  <2>1. Advance(n) /\ Done(Idle) /\ n \in 0 .. BufferSize
    BY <1>1, <1>4, UnderWay DEF Copy
  <2>2. /\ WindowInv' /\ (Ended => Ended') /\ CurrentPosition' = CurrentPosition + n
    BY <1>2, <2>1, UnderWay, AdvanceStep
  <2>3. CurrentPosition' >= CurrentPosition
    BY <2>2, UnderWay
  <2> QED BY <1>2, <2>1, <2>2, <2>3, MethodKeeps, TodosMade DEF Idle
<1> QED BY <1>3, <1>4

\* What a refresh, whether it succeeds or fails, does to the window of a method.
LEMMA Refreshes ==
  ASSUME IInv, open # "closed", BufferSize = 0, RefreshSucceeds \/ RefreshFails,
         UNCHANGED <<limits, lost>>, StreamUnchanged
  PROVE  /\ WindowInv' /\ (Ended => Ended')
         /\ CurrentPosition' = CurrentPosition /\ CurrentPosition' >= CurrentPosition
<1>1. InputStays /\ UNCHANGED <<currentLimit, totalBytesLimit, lost>>
  BY DEF InputStays, StreamUnchanged, limits
<1>2. WindowInv' /\ (Ended => Ended') /\ CurrentPosition' = CurrentPosition
  <2>1. CASE RefreshSucceeds
    <3>1. WindowInv' /\ (open = "stream" => ~Ended) /\ CurrentPosition' = CurrentPosition
      BY <1>1, <2>1, UnderWay, RefreshStep
    <3>2. open = "stream"
      BY <2>1, UnderWay DEF RefreshSucceeds, WindowInv, WindowType
    <3> QED BY <3>1, <3>2
  <2>2. CASE RefreshFails
    BY <1>1, <2>2, UnderWay, RefreshFailsStep
  <2> QED BY <2>1, <2>2
<1> QED BY <1>2, UnderWay

LEMMA CopyRefreshKeeps ==
  ASSUME IInv, CopyRefresh
  PROVE  IInv'
<1>1. PICK n \in Nat : todo = [op |-> "refresh", size |-> n]
  BY TodoShape DEF IInv, TodoInv, CopyRefresh
<1>2. /\ open # "closed" /\ BufferSize = 0
      /\ UNCHANGED <<limits, ending, lost>> /\ StreamUnchanged
  BY <1>1, UnderWay DEF CopyRefresh, Idle, IInv, TodoInv
<1>3. /\ WindowInv' /\ (Ended => Ended')
      /\ CurrentPosition' = CurrentPosition /\ CurrentPosition' >= CurrentPosition
  BY <1>2, Refreshes DEF CopyRefresh
<1>4. CASE GoesOn([todo EXCEPT !.op = "copy"])
  <2> DEFINE next == [op |-> "copy", size |-> n]
  <2>1. GoesOn(next) /\ next \in Todos /\ next.op = "copy"
    BY <1>1, <1>4, TodosMade
  <2> HIDE DEF next
  <2> QED BY <1>2, <1>3, <2>1, MethodKeeps DEF Settled
<1>5. CASE Fails(Idle)
  BY <1>2, <1>3, <1>5, MethodKeeps, TodosMade DEF Idle
<1> QED BY <1>4, <1>5 DEF CopyRefresh

LEMMA SkipWindowKeeps ==
  ASSUME IInv, NEW n \in Lengths, SkipWindow(n)
  PROVE  IInv'
<1>1. /\ open # "closed" /\ UNCHANGED <<limits, ending>> /\ StreamUnchanged
      /\ UNCHANGED <<adaptor, currentLimit, totalBytesLimit, open, origin, lost>>
  BY DEF SkipWindow, Ready, StreamUnchanged, limits
<1>2. CASE Refuses(n) /\ UNCHANGED window /\ GoesOn([op |-> "refuse", size |-> n])
  <2> DEFINE next == [op |-> "refuse", size |-> n]
  <2>1. next \in Todos /\ next.op = "refuse"
    <3>1. n \in Int \ Nat
      BY <1>2, CodedAssumption DEF Refuses, Lengths
    <3> QED BY <3>1, TodosMade
  <2>2. WindowInv' /\ (Ended => Ended') /\ CurrentPosition' = CurrentPosition
    BY <1>1, <1>2, UnderWay, WindowUnchanged
  <2>3. CurrentPosition' >= CurrentPosition
    BY <2>2, UnderWay
  <2>4. GoesOn(next)
    BY <1>2
  <2> HIDE DEF next
  <2> QED BY <1>1, <2>1, <2>2, <2>3, <2>4, MethodKeeps DEF Settled
<1>3. CASE ~Refuses(n) /\ Advance(n) /\ Done(Idle)
  <2>1. n \in 0 .. BufferSize
    BY <1>3, CodedAssumption, UnderWay DEF SkipWindow, Refuses, Lengths
  <2>2. WindowInv' /\ (Ended => Ended') /\ CurrentPosition' = CurrentPosition + n
    BY <1>1, <1>3, <2>1, UnderWay, AdvanceStep
  <2>3. CurrentPosition' >= CurrentPosition
    BY <2>1, <2>2, UnderWay
  <2> QED BY <1>1, <1>3, <2>2, <2>3, MethodKeeps, TodosMade DEF Idle
<1> QED BY <1>2, <1>3 DEF SkipWindow

LEMMA GetDirectBufferPointerKeeps ==
  ASSUME IInv, GetDirectBufferPointer
  PROVE  IInv'
<1>1. /\ open # "closed" /\ UNCHANGED <<limits, ending, lost>> /\ StreamUnchanged
      /\ UNCHANGED <<currentLimit, totalBytesLimit, open, origin>>
  BY DEF GetDirectBufferPointer, Ready, StreamUnchanged, limits
<1>2. Done([op |-> "direct"]) \/ Fails(Idle)
  BY DEF GetDirectBufferPointer
<1>3. /\ WindowInv' /\ (Ended => Ended') /\ CurrentPosition' >= CurrentPosition
  <2>1. CASE UNCHANGED <<adaptor, window>>
    <3>1. WindowInv' /\ (Ended => Ended') /\ CurrentPosition' = CurrentPosition
      BY <1>1, <2>1, UnderWay, WindowUnchanged
    <3> QED BY <3>1, UnderWay
  <2>2. CASE BufferSize = 0 /\ (RefreshSucceeds \/ RefreshFails)
    BY <1>1, <2>2, Refreshes
  <2> QED BY <2>1, <2>2 DEF GetDirectBufferPointer
<1>4. CASE Done([op |-> "direct"])
  BY <1>1, <1>3, <1>4, MethodKeeps, TodosMade
<1>5. CASE Fails(Idle)
  BY <1>1, <1>3, <1>5, MethodKeeps, TodosMade DEF Idle
<1> QED BY <1>2, <1>4, <1>5

\* The methods and steps that only decide what is to be done next.
LEMMA DecisionKeeps ==
  ASSUME IInv, open # "closed", UNCHANGED <<adaptor, window, limits, ending, lost>>,
         StreamUnchanged, NEW next \in Todos, GoesOn(next),
         next.op \in {"varint", "byte"} \/ (next = Idle /\ todo.op \in Settled)
  PROVE  IInv'
<1>1. UNCHANGED <<adaptor, window, currentLimit, totalBytesLimit, open, origin, lost>>
  BY DEF StreamUnchanged, limits
<1>2. WindowInv' /\ (Ended => Ended') /\ CurrentPosition' = CurrentPosition
  BY <1>1, UnderWay, WindowUnchanged
<1>3. CurrentPosition' >= CurrentPosition
  BY <1>2, UnderWay
<1>4. CASE next.op \in {"varint", "byte"}
  BY <1>2, <1>3, <1>4, MethodKeeps DEF Settled
<1>5. CASE next = Idle /\ todo.op \in Settled
  BY <1>2, <1>3, <1>5, MethodKeeps DEF Idle
<1> QED BY <1>4, <1>5

LEMMA VarintMade ==
  ASSUME NEW push \in BOOLEAN
  PROVE  Varint(push) \in Todos /\ Varint(push).op = "varint"
<1>1. 0 \in 0 .. MaxVarint
  BY CodedAssumption
<1> QED BY <1>1, TodosMade DEF Varint

LEMMA DecisionsKeep ==
  ASSUME IInv,
         \/ \E push \in BOOLEAN : ReadVarint(push)
         \/ ReadTagInWindow \/ DirectReturns \/ ReadVarint64Slow
  PROVE  IInv'
<1>1. ASSUME NEW push \in BOOLEAN, ReadVarint(push) PROVE IInv'
  BY <1>1, VarintMade, DecisionKeeps DEF ReadVarint, Ready
<1>2. CASE ReadTagInWindow
  BY <1>2, VarintMade, DecisionKeeps DEF ReadTagInWindow, Ready
<1>3. CASE DirectReturns
  <2>1. todo # Idle
    BY <1>3 DEF DirectReturns, Idle
  <2> QED BY <1>3, <2>1, UnderWay, TodosMade, DecisionKeeps DEF DirectReturns, Settled
<1>4. CASE ReadVarint64Slow
  <2>1. PICK n \in 0 .. MaxVarint, push \in BOOLEAN :
          todo = [op |-> "varint", count |-> n, push |-> push]
    BY <1>4, TodoShape DEF IInv, TodoInv, ReadVarint64Slow
  <2> DEFINE next == [op |-> "byte", count |-> n, push |-> push]
  <2>2. GoesOn(next) /\ next \in Todos /\ next.op = "byte" /\ open # "closed"
    BY <1>4, <2>1, TodosMade, UnderWay DEF ReadVarint64Slow, Idle
  <2> HIDE DEF next
  <2> QED BY <1>4, <2>2, DecisionKeeps DEF ReadVarint64Slow
<1> QED BY <1>1, <1>2, <1>3, <1>4

\* A varint that is read from the array ends in the window.
LEMMA VarintFits ==
  ASSUME buffer \in Nat, bufferEnd \in Nat, buffer <= bufferEnd, OneByte \/ InWindow
  PROVE  VarintSize \in Nat /\ (VarintSize <= MaxVarint => VarintSize <= BufferSize)
<1> USE CodedAssumption DEF BufferSize
<1> DEFINE S == {MaxVarint + 1} \cup {n \in 1 .. MaxVarint : buffer + n - 1 \in Ends}
<1>1. S \in SUBSET Nat /\ S # {}
  OBVIOUS
<1>2. Min(S) \in S /\ \A x \in S : Min(S) <= x
  <2> HIDE DEF S
  <2> QED BY <1>1, LeastOfNats
<1>3. VarintSize = Min(S)
  BY DEF VarintSize
<1>4. VarintSize \in Nat
  BY <1>1, <1>2, <1>3
<1>5. CASE OneByte
  <2>1. 1 \in S /\ BufferSize >= 1
    BY <1>5 DEF OneByte
  <2>2. VarintSize <= 1
    <3> HIDE DEF S
    <3> QED BY <1>2, <1>3, <2>1
  <2> QED BY <1>4, <2>1, <2>2
<1>6. CASE InWindow
  <2>1. CASE BufferSize >= MaxVarint
    BY <1>4, <2>1
  <2>2. CASE BufferSize < MaxVarint /\ BufferSize > 0 /\ bufferEnd - 1 \in Ends
    <3>1. PICK n \in 1 .. MaxVarint : n = BufferSize
      BY <2>2
    <3>2. buffer + n - 1 = bufferEnd - 1
      BY <3>1
    <3>3. n \in S
      BY <2>2, <3>2
    <3>4. VarintSize <= n
      <4> HIDE DEF S
      <4> QED BY <1>2, <1>3, <3>3
    <3> QED BY <1>4, <3>1, <3>4
  <2> QED BY <1>6, <2>1, <2>2 DEF InWindow
<1> QED BY <1>4, <1>5, <1>6

LEMMA AfterMade ==
  ASSUME NEW push \in BOOLEAN, todo.push = push
  PROVE  /\ AfterVarint \in Todos /\ AfterVarint.op # "refresh"
         /\ AfterNoVarint \in Todos /\ AfterNoVarint.op # "refresh"
<1>1. CASE push
  BY <1>1, TodosMade DEF AfterVarint, AfterNoVarint
<1>2. CASE ~push
  BY <1>2, TodosMade DEF AfterVarint, AfterNoVarint, Idle
<1> QED BY <1>1, <1>2

LEMMA VarintFromArrayKeeps ==
  ASSUME IInv, VarintFromArray
  PROVE  IInv'
<1>1. PICK n \in 0 .. MaxVarint, push \in BOOLEAN :
        todo = [op |-> "varint", count |-> n, push |-> push]
  BY TodoShape DEF IInv, TodoInv, VarintFromArray
<1>2. /\ AfterVarint \in Todos /\ AfterVarint.op # "refresh"
      /\ AfterNoVarint \in Todos /\ AfterNoVarint.op # "refresh"
  BY <1>1, AfterMade
<1>3. /\ open # "closed" /\ UNCHANGED <<limits, ending>> /\ StreamUnchanged
      /\ UNCHANGED <<adaptor, currentLimit, totalBytesLimit, open, origin, lost>>
  BY <1>1, UnderWay DEF VarintFromArray, Idle, StreamUnchanged, limits
<1>4. CASE VarintSize <= MaxVarint /\ Advance(VarintSize) /\ Done(AfterVarint)
  <2>1. VarintSize \in Nat /\ VarintSize <= BufferSize
    BY <1>4, UnderWay, VarintFits DEF VarintFromArray, WindowInv, WindowType
  <2>2. PICK n2 \in 0 .. BufferSize : n2 = VarintSize
    BY <2>1, UnderWay
  <2>3. WindowInv' /\ (Ended => Ended') /\ CurrentPosition' = CurrentPosition + n2
    BY <1>3, <1>4, <2>2, UnderWay, AdvanceStep
  <2>4. CurrentPosition' >= CurrentPosition
    BY <2>3, UnderWay
  <2> QED BY <1>2, <1>3, <1>4, <2>3, <2>4, MethodKeeps
<1>5. CASE UNCHANGED window /\ Fails(AfterNoVarint)
  <2>1. WindowInv' /\ (Ended => Ended') /\ CurrentPosition' = CurrentPosition
    BY <1>3, <1>5, UnderWay, WindowUnchanged
  <2>2. CurrentPosition' >= CurrentPosition
    BY <2>1, UnderWay
  <2> QED BY <1>2, <1>3, <1>5, <2>1, <2>2, MethodKeeps
<1> QED BY <1>4, <1>5 DEF VarintFromArray

LEMMA VarintByteKeeps ==
  ASSUME IInv, VarintByte
  PROVE  IInv'
<1>1. PICK n \in 0 .. MaxVarint, push \in BOOLEAN :
        todo = [op |-> "byte", count |-> n, push |-> push]
  BY TodoShape DEF IInv, TodoInv, VarintByte
<1>2. /\ AfterVarint \in Todos /\ AfterVarint.op # "refresh"
      /\ AfterNoVarint \in Todos /\ AfterNoVarint.op # "refresh"
  BY <1>1, AfterMade
<1>3. /\ open # "closed" /\ UNCHANGED <<limits, ending, lost>> /\ StreamUnchanged
      /\ UNCHANGED <<currentLimit, totalBytesLimit, open, origin>>
  BY <1>1, UnderWay DEF VarintByte, Idle, StreamUnchanged, limits
<1>4. CASE Fails(AfterNoVarint) /\ UNCHANGED <<adaptor, window>>
  <2>1. WindowInv' /\ (Ended => Ended') /\ CurrentPosition' = CurrentPosition
    BY <1>3, <1>4, UnderWay, WindowUnchanged
  <2>2. CurrentPosition' >= CurrentPosition
    BY <2>1, UnderWay
  <2> QED BY <1>2, <1>3, <1>4, <2>1, <2>2, MethodKeeps
<1>5. CASE BufferSize = 0 /\ (\/ RefreshSucceeds /\ GoesOn(todo)
                              \/ RefreshFails /\ Fails(AfterNoVarint))
  <2>1. /\ WindowInv' /\ (Ended => Ended') /\ CurrentPosition' >= CurrentPosition
    BY <1>3, <1>5, Refreshes
  <2>2. todo \in Todos /\ todo.op = "byte"
    BY <1>1 DEF IInv, TodoInv
  <2>3. CASE GoesOn(todo)
    BY <1>3, <2>1, <2>2, <2>3, MethodKeeps DEF Settled
  <2>4. CASE Fails(AfterNoVarint)
    BY <1>2, <1>3, <2>1, <2>4, MethodKeeps
  <2> QED BY <1>5, <2>3, <2>4
<1>6. CASE /\ todo.count < MaxVarint /\ BufferSize > 0 /\ Advance(1) /\ UNCHANGED adaptor
           /\ IF buffer \in Ends THEN Done(AfterVarint)
              ELSE GoesOn([todo EXCEPT !.count = @ + 1])
  <2>1. 1 \in 0 .. BufferSize
    BY <1>6, UnderWay
  <2>2. WindowInv' /\ (Ended => Ended') /\ CurrentPosition' = CurrentPosition + 1
    BY <1>3, <1>6, <2>1, UnderWay, AdvanceStep
  <2>3. CurrentPosition' >= CurrentPosition
    BY <2>2, UnderWay
  <2>4. CASE Done(AfterVarint)
    BY <1>2, <1>3, <2>2, <2>3, <2>4, MethodKeeps
  <2>5. CASE GoesOn([todo EXCEPT !.count = @ + 1])
    <3>1. PICK m \in 0 .. MaxVarint : m = n + 1
      BY <1>1, <1>6, CodedAssumption
    <3> DEFINE next == [op |-> "byte", count |-> m, push |-> push]
    <3>2. [todo EXCEPT !.count = @ + 1] = next
      BY <1>1, <3>1
    <3>3. next \in Todos /\ next.op = "byte"
      BY TodosMade
    <3> HIDE DEF next
    <3> QED BY <1>3, <2>2, <2>3, <2>5, <3>2, <3>3, MethodKeeps DEF Settled
  <2> QED BY <1>6, <2>4, <2>5
<1> QED BY <1>4, <1>5, <1>6 DEF VarintByte

LEMMA SkipFallbackKeeps ==
  ASSUME IInv, NEW count \in Lengths, SkipFallback(count)
  PROVE  IInv'
<1> DEFINE beyond == count - BufferSize
           untilLimit == ClosestLimit - totalBytesRead
<1>1. /\ open # "closed" /\ UNCHANGED <<limits, ending>> /\ StreamUnchanged
      /\ UNCHANGED <<currentLimit, totalBytesLimit, open, origin>> /\ beyond > 0
  BY DEF SkipFallback, Ready, StreamUnchanged, limits
<1>2. ClosestLimit = IF currentLimit <= totalBytesLimit THEN currentLimit ELSE totalBytesLimit
  <2>1. currentLimit \in Int /\ totalBytesLimit \in Int
    BY CodedAssumption, UnderWay DEF WindowInv, WindowType
  <2> QED BY <2>1, MinOfTwo DEF ClosestLimit
<1>3. beyond \in Nat \ {0} /\ untilLimit \in Int
  BY <1>1, <1>2, CodedAssumption, UnderWay DEF WindowInv, WindowType, Lengths
<1>4. ASSUME bufferSizeAfterLimit = 0, NEW skipped \in Nat \ {0}, skipped <= untilLimit,
             NEW ok \in BOOLEAN, SkipInput(skipped, ok), Done(Idle) \/ Fails(Idle)
      PROVE  IInv'
  <2>1. totalBytesRead + skipped <= currentLimit /\ totalBytesRead + skipped <= totalBytesLimit
    BY <1>2, <1>4, CodedAssumption, UnderWay DEF WindowInv, WindowType
  <2>2. WindowInv' /\ (Ended => Ended') /\ CurrentPosition' >= CurrentPosition
    BY <1>1, <1>4, <2>1, UnderWay, SkipInputStep
  <2> QED BY <1>1, <1>4, <2>2, MethodKeeps, TodosMade DEF Idle
<1>5. CASE /\ bufferSizeAfterLimit > 0
           /\ Advance(BufferSize) /\ Fails(Idle) /\ UNCHANGED <<adaptor, lost>>
  <2>1. BufferSize \in 0 .. BufferSize
    BY UnderWay
  <2>2. WindowInv' /\ (Ended => Ended') /\ CurrentPosition' = CurrentPosition + BufferSize
    BY <1>1, <1>5, <2>1, UnderWay, AdvanceStep
  <2>3. CurrentPosition' >= CurrentPosition
    BY <2>2, UnderWay
  <2> QED BY <1>1, <1>5, <2>2, <2>3, MethodKeeps, TodosMade DEF Idle
<1>6. CASE /\ bufferSizeAfterLimit = 0 /\ untilLimit < beyond /\ Fails(Idle)
           /\ IF untilLimit > 0 THEN \E ok \in BOOLEAN : SkipInput(untilLimit, ok)
              ELSE /\ buffer' = 0 /\ bufferEnd' = 0
                   /\ UNCHANGED <<totalBytesRead, overflowBytes, bufferSizeAfterLimit>>
                   /\ UNCHANGED <<adaptor, lost>>
  <2>1. CASE untilLimit > 0
    <3>1. PICK skipped \in Nat \ {0} : skipped = untilLimit
      BY <1>3, <2>1
    <3>2. skipped <= untilLimit
      BY <3>1
    <3> QED BY <1>4, <1>6, <2>1, <3>1, <3>2
  <2>2. CASE ~ (untilLimit > 0)
    <3>1. totalBytesRead >= currentLimit \/ totalBytesRead >= totalBytesLimit
      BY <1>2, <2>2, CodedAssumption, UnderWay DEF WindowInv, WindowType
    <3>2. WindowInv' /\ (Ended => Ended') /\ CurrentPosition' >= CurrentPosition
      BY <1>1, <1>6, <2>2, <3>1, UnderWay, WipeStep
    <3> QED BY <1>1, <1>6, <3>2, MethodKeeps, TodosMade DEF Idle
  <2> QED BY <2>1, <2>2
<1>7. CASE /\ bufferSizeAfterLimit = 0 /\ untilLimit >= beyond
           /\ \/ SkipInput(beyond, TRUE) /\ Done(Idle)
              \/ SkipInput(beyond, FALSE) /\ Fails(Idle)
  <2>1. PICK skipped \in Nat \ {0} : skipped = beyond
    BY <1>3
  <2>2. skipped <= untilLimit
    BY <1>3, <1>7, <2>1
  <2> QED BY <1>4, <1>7, <2>1, <2>2
<1> QED BY <1>5, <1>6, <1>7 DEF SkipFallback

-----------------------------------------------------------------------------
(* The end of the message.                                                 *)

\* A method that has no more to do, and leaves the limits alone.
LEMMA EndingMethodKeeps ==
  ASSUME IInv, open # "closed", todo = Idle, UNCHANGED <<limits, todo, outcome>>, StreamUnchanged,
         WindowInv', CurrentPosition' = CurrentPosition, EndingInv'
  PROVE  IInv'
<1>1. UNCHANGED <<currentLimit, stack, open, good, erred>>
  BY DEF limits, StreamUnchanged, outcome
<1>2. StackInv'
  BY <1>1, StackKept DEF IInv
<1>3. OutcomeInv'
  BY <1>1 DEF OutcomeInv, IInv
<1>4. ClosedInv' /\ TodoInv'
  BY <1>1, TodosMade DEF ClosedInv, TodoInv, Idle
<1> QED BY <1>2, <1>3, <1>4 DEF IInv

LEMMA ReadTagFallbackKeeps ==
  ASSUME IInv, ReadTagFallback
  PROVE  IInv'
<1>1. /\ open # "closed" /\ UNCHANGED <<limits, lost>> /\ StreamUnchanged /\ todo = Idle
      /\ UNCHANGED <<currentLimit, totalBytesLimit, open, origin>>
  BY DEF ReadTagFallback, Ready, StreamUnchanged, limits
<1>2. CASE /\ AtLimit /\ legitimateMessageEnd' = TRUE /\ cutShort' = FALSE
           /\ GoesOn(Idle) /\ UNCHANGED <<adaptor, window>>
  <2>1. WindowInv' /\ (Ended => Ended') /\ CurrentPosition' = CurrentPosition
    BY <1>1, <1>2, UnderWay, WindowUnchanged
  <2>2. CurrentPosition = currentLimit
    BY <1>2, CodedAssumption, UnderWay
       DEF AtLimit, WindowInv, WindowType, CutAtLimit, CurrentPosition, BufferSize
  <2>3. EndingInv'
    BY <1>2, <2>1, <2>2 DEF EndingInv, Ended
  <2> QED BY <1>1, <1>2, <2>1, <2>3, EndingMethodKeeps DEF GoesOn
<1>3. CASE /\ ~AtLimit /\ BufferSize = 0 /\ RefreshFails
           /\ legitimateMessageEnd' = (~TotalReached \/ currentLimit = totalBytesLimit)
           /\ cutShort' = FALSE
           /\ GoesOn(Idle)
  <2>1. InputStays /\ UNCHANGED <<currentLimit, totalBytesLimit, lost>>
    BY <1>1 DEF InputStays
  <2>2. WindowInv' /\ CurrentPosition' = CurrentPosition
    BY <1>3, <2>1, UnderWay, RefreshFailsStep
  <2>3. legitimateMessageEnd' => Ended'
    BY <1>1, <1>3, <2>1, UnderWay, RefreshFailsStep
  <2>4. EndingInv'
    BY <1>3, <2>3 DEF EndingInv
  <2> QED BY <1>1, <1>3, <2>2, <2>4, EndingMethodKeeps DEF GoesOn
<1>4. CASE /\ IF BufferSize = 0 THEN RefreshSucceeds ELSE UNCHANGED <<adaptor, window>>
           /\ UNCHANGED ending
           /\ GoesOn(Varint(FALSE))
  <2>1. WindowInv' /\ (Ended => Ended') /\ CurrentPosition' >= CurrentPosition
    <3>1. CASE BufferSize = 0
      BY <1>1, <1>4, <3>1, Refreshes
    <3>2. CASE BufferSize # 0
      <4>1. WindowInv' /\ (Ended => Ended') /\ CurrentPosition' = CurrentPosition
        BY <1>1, <1>4, <3>2, UnderWay, WindowUnchanged
      <4> QED BY <4>1, UnderWay
    <3> QED BY <3>1, <3>2
  <2> QED BY <1>1, <1>4, <2>1, VarintMade, MethodKeeps DEF Settled
<1> QED BY <1>2, <1>3, <1>4 DEF ReadTagFallback

LEMMA ExpectAtEndKeeps ==
  ASSUME IInv, ExpectAtEnd
  PROVE  IInv'
<1>1. /\ open # "closed" /\ todo = Idle /\ UNCHANGED <<limits, todo, outcome>> /\ StreamUnchanged
      /\ UNCHANGED <<adaptor, window, currentLimit, totalBytesLimit, open, origin, lost>>
  BY DEF ExpectAtEnd, Ready, StreamUnchanged, limits
<1>2. WindowInv' /\ (Ended => Ended') /\ CurrentPosition' = CurrentPosition
  BY <1>1, UnderWay, WindowUnchanged
<1>3. EndingInv'
  <2>1. /\ legitimateMessageEnd' = TRUE
        /\ cutShort' = (cutShort \/ CurrentPosition # currentLimit)
    BY DEF ExpectAtEnd
  <2>2. cutShort \in BOOLEAN
    BY DEF IInv, EndingInv
  <2>3. CurrentPosition = currentLimit => Ended'
    BY <1>2 DEF Ended
  <2> QED BY <2>1, <2>2, <2>3 DEF EndingInv
<1> QED BY <1>1, <1>2, <1>3, EndingMethodKeeps

-----------------------------------------------------------------------------
(* Limits.                                                                 *)
LEMMA StackPushed ==
  ASSUME StackInv, currentLimit \in 0 .. MaxInt, NEW asked \in 0 .. MaxInt,
         stack' = Append(stack, [old |-> currentLimit, asked |-> asked]),
         currentLimit' = (IF asked < currentLimit THEN asked ELSE currentLimit), open' = open
  PROVE  StackInv'
<1> USE CodedAssumption
<1> DEFINE e == [old |-> currentLimit, asked |-> asked]
           Limit == [old : 0 .. MaxInt, asked : 0 .. MaxInt]
<1>1. stack \in Seq(Limit) /\ e \in Limit /\ Len(stack) \in Nat
  BY DEF StackInv
<1>2. stack' \in Seq(Limit)
  <2> HIDE DEF Limit, e
  <2>1. Append(stack, e) \in Seq(Limit)
    BY <1>1
  <2> QED BY <2>1 DEF e
<1>3. /\ Len(stack') = Len(stack) + 1 /\ stack'[Len(stack) + 1] = e
      /\ \A j \in 1 .. Len(stack) : stack'[j] = stack[j]
  BY <1>1
<1>4. EndOfStream' = EndOfStream /\ EndOfStream \in 0 .. MaxInt
  BY DEF EndOfStream
<1>5. ASSUME NEW j \in 1 .. Len(stack) PROVE stack[j].asked \in 0 .. MaxInt
  <2>1. stack[j] \in Limit
    <3> HIDE DEF Limit
    <3> QED BY <1>1
  <2> QED BY <2>1
<1>6. ASSUME NEW m, NEW k \in 0 .. Len(stack), Least(m, k)
      PROVE  Least(m, k)'
  <2>1. 1 .. k \subseteq 1 .. Len(stack)
    BY <1>1
  <2> QED BY <1>3, <1>4, <1>6, <2>1 DEF Least
<1>7. ASSUME NEW k \in 1 .. Len(stack') PROVE Least(stack[k].old, k - 1)'
  <2>1. CASE k \in 1 .. Len(stack)
    <3>1. stack'[k].old = stack[k].old /\ k - 1 \in 0 .. Len(stack)
      BY <1>1, <1>3, <2>1
    <3>2. Least(stack[k].old, k - 1)
      BY <2>1 DEF StackInv
    <3>3. PICK m : m = stack[k].old
      OBVIOUS
    <3>4. Least(m, k - 1)'
      BY <1>6, <3>1, <3>2, <3>3
    <3> QED BY <3>1, <3>3, <3>4
  <2>2. CASE k = Len(stack) + 1
    <3>1. stack'[k].old = currentLimit /\ k - 1 = Len(stack) /\ Len(stack) \in 0 .. Len(stack)
      BY <1>1, <1>3, <2>2
    <3>2. Least(currentLimit, Len(stack))
      BY DEF StackInv
    <3>3. PICK m : m = currentLimit
      OBVIOUS
    <3>4. Least(m, k - 1)'
      BY <1>6, <3>1, <3>2, <3>3
    <3> QED BY <3>1, <3>3, <3>4
  <2> QED BY <1>1, <1>3, <2>1, <2>2
<1>8. Least(currentLimit, Len(stack))'
  <2>1. PICK m \in 0 .. MaxInt : m = currentLimit /\ Least(m, Len(stack))
    BY DEF StackInv
  <2>2. Len(stack) \in 0 .. Len(stack)
    BY <1>1
  <2>3. PICK n \in Nat : n = Len(stack)
    BY <1>1
  <2>4. Least(m, n)'
    BY <1>6, <2>1, <2>2, <2>3
  <2>5. stack'[n + 1].asked = asked /\ Len(stack') = n + 1
    BY <1>3, <2>3
  <2>6. \A j \in 1 .. n : stack'[j].asked \in 0 .. MaxInt
    BY <1>3, <1>5, <2>3
  <2>7. 1 .. n + 1 = 1 .. n \cup {n + 1}
    BY <2>3
  <2>8. PICK m2 \in 0 .. MaxInt : m2 = currentLimit' /\ m2 = (IF asked < m THEN asked ELSE m)
    BY <2>1
  <2>9. Least(m2, n + 1)'
    <3>1. CASE asked < m
      BY <1>4, <2>4, <2>5, <2>6, <2>7, <2>8, <3>1 DEF Least
    <3>2. CASE ~ (asked < m)
      BY <1>4, <2>4, <2>5, <2>6, <2>7, <2>8, <3>2 DEF Least
    <3> QED BY <3>1, <3>2
  <2> QED BY <2>5, <2>8, <2>9
<1> QED BY <1>2, <1>7, <1>8 DEF StackInv

\* The limit that was in force before the last one is the least of the others.
LEMMA StackPopped ==
  ASSUME StackInv, stack # <<>>, stack' = Front(stack), currentLimit' = Last(stack).old, open' = open
  PROVE  StackInv' /\ currentLimit <= currentLimit' /\ currentLimit' \in 0 .. MaxInt
<1> USE CodedAssumption
<1> DEFINE Limit == [old : 0 .. MaxInt, asked : 0 .. MaxInt]
<1>1. PICK n \in Nat : /\ Len(stack) = n + 1 /\ stack' \in Seq(Limit) /\ Len(stack') = n
                       /\ \A j \in 1 .. n : stack'[j] = stack[j]
  <2>1. stack \in Seq(Limit)
    BY DEF StackInv
  <2> HIDE DEF Limit
  <2>2. PICK n \in Nat : Len(stack) = n + 1
    <3>1. Len(stack) \in Nat /\ Len(stack) # 0
      BY <2>1
    <3>2. PICK n \in Nat : n = Len(stack) - 1
      BY <3>1
    <3> QED BY <3>1, <3>2
  <2>3. stack' = SubSeq(stack, 1, n)
    BY <2>2 DEF Front
  <2>4. SubSeq(stack, 1, n) \in Seq(Limit) /\ Len(SubSeq(stack, 1, n)) = n
    BY <2>1, <2>2
  <2>5. \A j \in 1 .. n : SubSeq(stack, 1, n)[j] = stack[j]
    BY <2>1, <2>2
  <2> QED BY <2>2, <2>3, <2>4, <2>5
<1>2. EndOfStream' = EndOfStream /\ EndOfStream \in 0 .. MaxInt
  BY DEF EndOfStream
<1>3. ASSUME NEW m, NEW k \in 0 .. n, Least(m, k)
      PROVE  Least(m, k)'
  <2>1. 1 .. k \subseteq 1 .. n
    BY <1>1
  <2> QED BY <1>1, <1>2, <1>3, <2>1 DEF Least
<1>4. currentLimit' = stack[n + 1].old
  BY <1>1 DEF Last
<1>5. n + 1 \in 1 .. Len(stack) /\ (n + 1) - 1 = n /\ n \in 0 .. n
  BY <1>1
<1>6. stack[n + 1] \in Limit
  <2>1. stack \in Seq(Limit)
    BY DEF StackInv
  <2> HIDE DEF Limit
  <2> QED BY <1>5, <2>1
<1>7. PICK m \in 0 .. MaxInt : m = stack[n + 1].old
  BY <1>6
<1>8. Least(m, n)
  BY <1>5, <1>7 DEF StackInv
<1>9. Least(currentLimit, Len(stack))'
  <2>1. Least(m, n)'
    BY <1>3, <1>5, <1>8
  <2> QED BY <1>1, <1>4, <1>7, <2>1
<1>10. ASSUME NEW k \in 1 .. n PROVE Least(stack[k].old, k - 1)'
  <2>1. k \in 1 .. Len(stack) /\ k - 1 \in 0 .. n
    BY <1>1
  <2>2. Least(stack[k].old, k - 1)
    BY <2>1 DEF StackInv
  <2>3. PICK o : o = stack[k].old
    OBVIOUS
  <2>4. Least(o, k - 1)'
    BY <1>3, <2>1, <2>2, <2>3
  <2> QED BY <1>1, <2>3, <2>4
<1>11. currentLimit <= m
  <2>1. Least(currentLimit, n + 1)
    BY <1>1 DEF StackInv
  <2>2. 1 .. n \subseteq 1 .. n + 1
    BY <1>1
  <2> QED BY <1>8, <2>1, <2>2 DEF Least
<1> QED BY <1>1, <1>4, <1>7, <1>9, <1>10, <1>11 DEF StackInv

LEMMA PushLimitStep ==
  ASSUME IInv, NEW length \in Lengths, PushLimit(length), StreamUnchanged, UNCHANGED <<adaptor, lost>>
  PROVE  WindowInv' /\ (Ended => Ended') /\ CurrentPosition' = CurrentPosition /\ StackInv'
<1> USE CodedAssumption
<1> DEFINE asked == IF Legal(length) THEN CurrentPosition + length ELSE MaxInt
<1>1. /\ CurrentPosition \in Nat /\ CurrentPosition <= currentLimit
      /\ CurrentPosition <= totalBytesLimit
      /\ currentLimit \in 0 .. MaxInt /\ totalBytesLimit \in 0 .. MaxInt
      /\ open = "flat" => currentLimit <= FlatSize
  BY UnderWay DEF WindowInv, WindowType, CutAtLimit, InputInStep, CurrentPosition, BufferSize
<1>2. asked \in 0 .. MaxInt /\ CurrentPosition <= asked
  BY <1>1 DEF Legal, Lengths
<1>3. Pushed(length) = IF asked < currentLimit THEN asked ELSE currentLimit
  BY <1>1 DEF Pushed, Legal, Lengths
<1>4. stack' = Append(stack, [old |-> currentLimit, asked |-> asked])
  BY DEF PushLimit
<1> HIDE DEF asked
<1>5. PICK limit \in 0 .. MaxInt :
        /\ limit = Pushed(length) /\ limit = IF asked < currentLimit THEN asked ELSE currentLimit
        /\ CurrentPosition <= limit
        /\ open = "flat" => limit <= FlatSize
  BY <1>1, <1>2, <1>3
<1>6. UNCHANGED <<open, origin>>
  BY DEF StreamUnchanged
<1>7. CASE limit # currentLimit
  <2>1. LimitsChange(limit, totalBytesLimit)
    <3>1. Pushed(length) # currentLimit
      BY <1>5, <1>7
    <3>2. LimitsChange(Pushed(length), totalBytesLimit)
      BY <3>1, Zenon DEF PushLimit
    <3> QED BY <1>5, <3>2
  <2>2. /\ WindowInv' /\ CurrentPosition' = CurrentPosition
        /\ Ended /\ (limit = currentLimit \/ CurrentPosition # currentLimit) => Ended'
    <3>1. /\ CurrentPosition <= limit /\ CurrentPosition <= totalBytesLimit
          /\ open = "flat" => limit <= FlatSize
          /\ totalBytesLimit \in 0 .. MaxInt /\ limit \in 0 .. MaxInt
      BY <1>1, <1>5
    <3>2. UNCHANGED <<adaptor, open, origin, lost>> /\ WindowInv
      BY <1>6, UnderWay
    <3> QED BY <2>1, <3>1, <3>2, LimitsStep
  <2>3. CurrentPosition # currentLimit
    BY <1>1, <1>2, <1>5, <1>7
  <2>4. currentLimit' = IF asked < currentLimit THEN asked ELSE currentLimit
    BY <1>5, <2>1 DEF LimitsChange
  <2>5. StackInv'
    BY <1>1, <1>2, <1>4, <1>6, <2>4, StackPushed DEF IInv
  <2> QED BY <2>2, <2>3, <2>5
<1>8. CASE limit = currentLimit
  <2>1. UNCHANGED <<currentLimit, totalBytesLimit, window>>
    BY <1>5, <1>8 DEF PushLimit
  <2>2. WindowInv' /\ (Ended => Ended') /\ CurrentPosition' = CurrentPosition
    BY <1>6, <2>1, UnderWay, WindowUnchanged
  <2>3. currentLimit' = IF asked < currentLimit THEN asked ELSE currentLimit
    BY <1>5, <1>8, <2>1
  <2>4. StackInv'
    BY <1>1, <1>2, <1>4, <1>6, <2>3, StackPushed DEF IInv
  <2> QED BY <2>2, <2>4
<1> QED BY <1>7, <1>8

LEMMA PushKeeps ==
  ASSUME IInv, NEW length \in Lengths, Push(length)
  PROVE  IInv'
<1>1. /\ open # "closed" /\ todo = Idle /\ PushLimit(length) /\ StreamUnchanged
      /\ UNCHANGED <<adaptor, ending, todo, outcome, lost>> /\ UNCHANGED open
  BY DEF Push, Ready, StreamUnchanged
<1>2. WindowInv' /\ (Ended => Ended') /\ CurrentPosition' = CurrentPosition /\ StackInv'
  BY <1>1, PushLimitStep
<1>3. EndingInv'
  BY <1>1, <1>2, EndingKept DEF IInv
<1>4. OutcomeInv'
  BY <1>1, <1>2 DEF OutcomeInv, outcome, IInv
<1>5. ClosedInv' /\ TodoInv'
  BY <1>1, TodosMade DEF ClosedInv, TodoInv, Idle
<1> QED BY <1>2, <1>3, <1>4, <1>5 DEF IInv

LEMMA PushLengthKeeps ==
  ASSUME IInv, NEW length \in Lengths, PushLength(length)
  PROVE  IInv'
<1>1. PICK f \in BOOLEAN : todo = [op |-> "push", failed |-> f]
  BY TodoShape DEF IInv, TodoInv, PushLength
<1>2. /\ open # "closed" /\ StreamUnchanged /\ GoesOn(Idle)
      /\ UNCHANGED <<adaptor, ending, lost, open>>
  BY <1>1, UnderWay DEF PushLength, Idle, StreamUnchanged
<1>3. PICK n \in Lengths : PushLimit(n)
  <2>1. 0 \in Lengths
    BY CodedAssumption DEF Lengths
  <2> QED BY <2>1 DEF PushLength
<1>4. WindowInv' /\ (Ended => Ended') /\ CurrentPosition' = CurrentPosition /\ StackInv'
  BY <1>2, <1>3, PushLimitStep
<1>5. EndingInv'
  BY <1>2, <1>4, EndingKept DEF IInv
<1>6. OutcomeInv' /\ todo' = Idle
  <2>1. PICK position2 \in Nat : position2 = CurrentPosition' /\ position2 = CurrentPosition
    BY <1>4, UnderWay
  <2>2. CurrentPosition <= position2
    BY <2>1
  <2> QED BY <1>1, <1>2, <2>1, <2>2, UnderWay, OutcomeKept DEF Settled, IInv
<1>7. ClosedInv' /\ TodoInv'
  BY <1>2, <1>6, TodosMade DEF ClosedInv, TodoInv, Idle
<1> QED BY <1>4, <1>5, <1>6, <1>7 DEF IInv

LEMMA PopLimitKeeps ==
  ASSUME IInv, PopLimit
  PROVE  IInv'
<1>1. /\ open # "closed" /\ todo = Idle /\ UNCHANGED <<adaptor, open, origin, todo, outcome, lost>>
      /\ LimitsChange(Last(stack).old, totalBytesLimit)
      /\ stack # <<>> /\ stack' = Front(stack)
      /\ legitimateMessageEnd' = FALSE /\ cutShort' = FALSE
  BY DEF PopLimit, Ready, StreamUnchanged
<1>2. currentLimit' = Last(stack).old
  BY <1>1 DEF LimitsChange
<1>3. StackInv' /\ currentLimit <= currentLimit' /\ currentLimit' \in 0 .. MaxInt
  BY <1>1, <1>2, StackPopped DEF IInv
<1>4. PICK limit \in 0 .. MaxInt : limit = currentLimit' /\ limit = Last(stack).old
  BY <1>2, <1>3
<1>5. open = "flat" => limit <= FlatSize
  <2>1. EndOfStream' = EndOfStream
    BY <1>1 DEF EndOfStream
  <2> QED BY <1>3, <1>4, <2>1 DEF StackInv, Least, EndOfStream
<1>6. /\ CurrentPosition \in Nat /\ CurrentPosition <= currentLimit
      /\ CurrentPosition <= totalBytesLimit
      /\ currentLimit \in 0 .. MaxInt /\ totalBytesLimit \in 0 .. MaxInt
  BY CodedAssumption, UnderWay DEF WindowInv, WindowType, CutAtLimit, CurrentPosition, BufferSize
<1>7. CurrentPosition <= limit
  <2>1. currentLimit <= limit
    BY <1>3, <1>4
  <2> QED BY <1>6, <2>1, CodedAssumption
<1>8. WindowInv' /\ CurrentPosition' = CurrentPosition
  <2>1. LimitsChange(limit, totalBytesLimit)
    BY <1>1, <1>4
  <2> QED BY <1>1, <1>5, <1>6, <1>7, <2>1, UnderWay, LimitsStep
<1>9. EndingInv'
  BY <1>1 DEF EndingInv
<1>10. OutcomeInv'
  BY <1>1, <1>8 DEF OutcomeInv, outcome, IInv
<1>11. ClosedInv' /\ TodoInv'
  BY <1>1, TodosMade DEF ClosedInv, TodoInv, Idle
<1> QED BY <1>3, <1>8, <1>9, <1>10, <1>11 DEF IInv

LEMMA SetTotalBytesLimitKeeps ==
  ASSUME IInv, NEW limit \in Lengths, SetTotalBytesLimit(limit)
  PROVE  IInv'
<1>1. /\ open # "closed" /\ todo = Idle
      /\ UNCHANGED <<adaptor, stack, ending, open, origin, todo, outcome, lost>>
      /\ LimitsChange(currentLimit, Max({CurrentPosition, limit}))
  BY DEF SetTotalBytesLimit, Ready, StreamUnchanged
<1>2. /\ CurrentPosition \in Nat /\ CurrentPosition <= currentLimit
      /\ currentLimit \in 0 .. MaxInt
      /\ open = "flat" => currentLimit <= FlatSize
  BY CodedAssumption, UnderWay
     DEF WindowInv, WindowType, CutAtLimit, InputInStep, CurrentPosition, BufferSize
<1>3. PICK total \in 0 .. MaxInt :
        total = Max({CurrentPosition, limit}) /\ CurrentPosition <= total
  <2>1. limit \in Int /\ limit <= MaxInt /\ CurrentPosition <= MaxInt
    BY <1>2, CodedAssumption DEF Lengths
  <2>2. Max({CurrentPosition, limit}) = IF CurrentPosition >= limit THEN CurrentPosition ELSE limit
    BY <1>2, <2>1, MaxOfTwo
  <2> QED BY <1>2, <2>1, <2>2, CodedAssumption
<1>4. LimitsChange(currentLimit, total)
  BY <1>1, <1>3
<1>5. WindowInv' /\ (Ended => Ended') /\ CurrentPosition' = CurrentPosition
  BY <1>1, <1>2, <1>3, <1>4, UnderWay, LimitsStep
<1>6. StackInv'
  BY <1>1, <1>4, StackKept DEF IInv, LimitsChange
<1>7. EndingInv'
  BY <1>1, <1>5, EndingKept DEF IInv
<1>8. OutcomeInv'
  BY <1>1, <1>5 DEF OutcomeInv, outcome, IInv
<1>9. ClosedInv' /\ TodoInv'
  BY <1>1, TodosMade DEF ClosedInv, TodoInv, Idle
<1> QED BY <1>5, <1>6, <1>7, <1>8, <1>9 DEF IInv

-----------------------------------------------------------------------------
(* Constructors and destructor.                                            *)
LEMMA OpenStreamKeeps ==
  ASSUME IInv, OpenStream
  PROVE  IInv'
<1>1. /\ open = "closed" /\ open' = "stream" /\ origin' = ByteCount
      /\ UNCHANGED <<currentLimit, totalBytesLimit, stack, todo, good, erred, lost>>
      /\ UNCHANGED <<legitimateMessageEnd, cutShort>>
  BY DEF OpenStream, limits, ending, outcome
<1>2. /\ todo = Idle /\ buffer = 0 /\ bufferEnd = 0 /\ legitimateMessageEnd = FALSE /\ cutShort = FALSE
      /\ totalBytesRead = 0 /\ overflowBytes = 0 /\ bufferSizeAfterLimit = 0
      /\ currentLimit = MaxInt /\ stack = <<>> /\ good = 0 /\ erred = FALSE
  BY <1>1 DEF IInv, ClosedInv
<1>3. BufferSize = 0 /\ CurrentPosition = 0 /\ InputStays
  BY <1>1, <1>2 DEF BufferSize, CurrentPosition, InputStays
<1>4. WindowInv' /\ CurrentPosition' = CurrentPosition
  <2>1. UNCHANGED <<currentLimit, totalBytesLimit, lost>>
    BY <1>1
  <2>2. CASE RefreshSucceeds
    BY <1>3, <2>1, <2>2, UnderWay, RefreshStep
  <2>3. CASE RefreshFails
    BY <1>3, <2>1, <2>3, UnderWay, RefreshFailsStep
  <2> QED BY <2>2, <2>3 DEF OpenStream
<1>5. ClosedInv' /\ TodoInv' /\ EndingInv'
  BY <1>1, <1>2, TodosMade DEF ClosedInv, TodoInv, EndingInv, Idle
<1>6. OutcomeInv'
  <2>1. erred' \in BOOLEAN /\ good' = 0 /\ CurrentPosition' = 0
    BY <1>1, <1>2, <1>3, <1>4
  <2> QED BY <2>1 DEF OutcomeInv
<1>7. StackInv'
  <2>1. stack' = <<>> /\ Len(stack') = 0 /\ currentLimit' = MaxInt /\ EndOfStream' = MaxInt
    BY <1>1, <1>2 DEF EndOfStream
  <2> QED BY <2>1, CodedAssumption DEF StackInv, Least
<1> QED BY <1>4, <1>5, <1>6, <1>7 DEF IInv

LEMMA OpenFlatKeeps ==
  ASSUME IInv, OpenFlat
  PROVE  IInv'
<1> USE CodedAssumption
<1>1. /\ open = "closed" /\ open' = "flat"
      /\ bufferEnd' = FlatSize /\ totalBytesRead' = FlatSize /\ currentLimit' = FlatSize
      /\ UNCHANGED <<buffer, overflowBytes, bufferSizeAfterLimit, totalBytesLimit>>
      /\ UNCHANGED <<stack, todo, origin, good, erred, lost, legitimateMessageEnd, cutShort>>
      /\ UNCHANGED <<position, failed, bufferUsed, backupBytes, hasBuffer, lastNext, misused>>
  BY DEF OpenFlat, FlatLimit, adaptor, ending, outcome
<1>2. /\ todo = Idle /\ buffer = 0 /\ legitimateMessageEnd = FALSE /\ cutShort = FALSE
      /\ overflowBytes = 0 /\ bufferSizeAfterLimit = 0
      /\ totalBytesLimit = MaxInt /\ stack = <<>> /\ good = 0 /\ erred = FALSE
      /\ origin = 0 /\ lost = FALSE
  BY <1>1 DEF IInv, ClosedInv
<1>3. AdaptorInv'
  BY <1>1 DEF AdaptorInv, IInv, WindowInv
<1>4. BufferSize' = FlatSize /\ CurrentPosition' = 0
  BY <1>1, <1>2 DEF BufferSize, CurrentPosition
<1>5. WindowType' /\ CutAtLimit'
  <2>1. lost' \in BOOLEAN
    BY <1>1, <1>2
  <2>2. /\ buffer' = 0 /\ bufferEnd' = FlatSize /\ totalBytesRead' = FlatSize /\ overflowBytes' = 0
        /\ bufferSizeAfterLimit' = 0 /\ currentLimit' = FlatSize /\ totalBytesLimit' = MaxInt
        /\ open' = "flat" /\ origin' = 0
    BY <1>1, <1>2
  <2> QED BY <2>1, <2>2, <1>4 DEF WindowType, CutAtLimit
<1>6. BufferInPlace' /\ InputInStep'
  BY <1>1, <1>2, <1>4 DEF BufferInPlace, InputInStep
<1>7. ClosedInv' /\ TodoInv' /\ EndingInv'
  BY <1>1, <1>2, TodosMade DEF ClosedInv, TodoInv, EndingInv, Idle
<1>8. OutcomeInv'
  <2>1. erred' \in BOOLEAN /\ good' = 0
    BY <1>1, <1>2
  <2> QED BY <1>4, <2>1 DEF OutcomeInv
<1>9. StackInv'
  <2>1. stack' = <<>> /\ Len(stack') = 0 /\ currentLimit' = FlatSize /\ EndOfStream' = FlatSize
    BY <1>1, <1>2 DEF EndOfStream
  <2> QED BY <2>1 DEF StackInv, Least
<1> QED BY <1>3, <1>5, <1>6, <1>7, <1>8, <1>9 DEF IInv, WindowInv

LEMMA CloseKeeps ==
  ASSUME IInv, Close
  PROVE  IInv'
<1> USE CodedAssumption
<1>1. AdaptorInv'
  <2>1. CASE open = "stream" /\ Unread > 0
    <3>1. CanBackUp /\ AdaptorInv
      BY <2>1 DEF IInv, WindowInv, InputInStep
    <3>2. Unread \in Nat
      BY DEF IInv, WindowInv, WindowType, Unread, BufferSize
    <3>3. BackUp(Unread)
      BY <2>1 DEF Close
    <3>4. PICK n \in Nat : n = Unread
      BY <3>2
    <3>5. /\ backupBytes' = n /\ lastNext' = -1 /\ n <= bufferUsed
          /\ UNCHANGED <<position, failed, bufferUsed, hasBuffer>>
      BY <3>1, <3>3, <3>4 DEF CanBackUp, BackUp, NotNext, AdaptorInv
    <3>6. MayBackUp(n)
      BY <3>1, <3>4, <3>5 DEF MayBackUp, CanBackUp, AdaptorInv
    <3>7. misused' = FALSE
      BY <3>1, <3>3, <3>4, <3>6 DEF BackUp, AdaptorInv
    <3> QED BY <3>1, <3>4, <3>5, <3>7, AdaptorAssumption DEF AdaptorInv
  <2>2. CASE ~ (open = "stream" /\ Unread > 0)
    <3>1. UNCHANGED adaptor
      BY <2>2 DEF Close
    <3> QED BY <3>1 DEF adaptor, AdaptorInv, IInv, WindowInv
  <2> QED BY <2>1, <2>2
<1>2. /\ buffer' = 0 /\ bufferEnd' = 0 /\ open' = "closed" /\ todo' = Idle
      /\ totalBytesRead' = 0 /\ overflowBytes' = 0 /\ bufferSizeAfterLimit' = 0
      /\ currentLimit' = MaxInt /\ totalBytesLimit' = MaxInt /\ stack' = <<>>
      /\ legitimateMessageEnd' = FALSE /\ cutShort' = FALSE
      /\ origin' = 0 /\ good' = 0 /\ erred' = FALSE /\ lost' = FALSE
  BY DEF Close
<1>3. BufferSize' = 0 /\ CurrentPosition' = 0
  BY <1>2 DEF BufferSize, CurrentPosition
<1>4. WindowInv'
  <2>1. lost' \in BOOLEAN
    BY <1>2
  <2>2. WindowType' /\ CutAtLimit'
    <3>1. /\ buffer' = 0 /\ bufferEnd' = 0 /\ totalBytesRead' = 0 /\ overflowBytes' = 0
          /\ bufferSizeAfterLimit' = 0 /\ currentLimit' = MaxInt /\ totalBytesLimit' = MaxInt
          /\ open' = "closed" /\ origin' = 0
      BY <1>2
    <3> QED BY <1>3, <2>1, <3>1 DEF WindowType, CutAtLimit
  <2>3. BufferInPlace' /\ InputInStep'
    BY <1>2, <1>3 DEF BufferInPlace, InputInStep
  <2> QED BY <1>1, <2>2, <2>3 DEF WindowInv
<1>5. ClosedInv' /\ TodoInv' /\ EndingInv'
  BY <1>2, <1>3, TodosMade DEF ClosedInv, TodoInv, EndingInv, Idle
<1>a. OutcomeInv'
  <2>1. erred' \in BOOLEAN /\ good' = 0
    BY <1>2
  <2> QED BY <1>3, <2>1 DEF OutcomeInv
<1>6. StackInv'
  <2>1. Len(stack') = 0 /\ EndOfStream' = MaxInt
    BY <1>2 DEF EndOfStream
  <2> QED BY <1>2, <2>1 DEF StackInv, Least
<1> QED BY <1>4, <1>5, <1>a, <1>6 DEF IInv

LEMMA InitHolds == Init => IInv
<1> SUFFICES ASSUME Init PROVE IInv
  OBVIOUS
<1> USE CodedAssumption, AdaptorAssumption DEF Init
<1>1. AdaptorInv
  <2>1. {failed, hasBuffer} \subseteq BOOLEAN /\ misused = FALSE
    BY DEF AdaptorInit
  <2>2. position = 0 /\ bufferUsed = 0 /\ backupBytes = 0 /\ lastNext = -1
    BY DEF AdaptorInit, NotNext
  <2> QED BY ONLY <2>1, <2>2, AdaptorAssumption DEF AdaptorInv
<1>2. BufferSize = 0 /\ CurrentPosition = 0
  BY DEF BufferSize, CurrentPosition
<1>3. WindowInv
  <2>1. lost \in BOOLEAN /\ erred \in BOOLEAN
    OBVIOUS
  <2>2. /\ buffer = 0 /\ bufferEnd = 0 /\ totalBytesRead = 0 /\ overflowBytes = 0
        /\ bufferSizeAfterLimit = 0 /\ currentLimit = MaxInt /\ totalBytesLimit = MaxInt
        /\ open = "closed" /\ origin = 0
    OBVIOUS
  <2>3. WindowType /\ CutAtLimit /\ BufferInPlace /\ InputInStep
    BY ONLY <1>2, <2>1, <2>2, CodedAssumption DEF WindowType, CutAtLimit, BufferInPlace, InputInStep
  <2> QED BY <1>1, <2>3 DEF WindowInv
<1>4. ClosedInv /\ TodoInv /\ EndingInv
  BY <1>2, TodosMade DEF ClosedInv, TodoInv, EndingInv, Idle
<1>a. OutcomeInv
  <2>1. erred \in BOOLEAN /\ good = 0
    OBVIOUS
  <2> QED BY ONLY <1>2, <2>1 DEF OutcomeInv
<1>5. StackInv
  <2>1. Len(stack) = 0 /\ EndOfStream = MaxInt
    BY DEF EndOfStream
  <2> QED BY <2>1 DEF StackInv, Least
<1> QED BY <1>3, <1>4, <1>a, <1>5 DEF IInv

LEMMA StepKeeps == IInv /\ [Next]_vars => IInv'
<1> SUFFICES ASSUME IInv, [Next]_vars PROVE IInv'
  OBVIOUS
<1>1. CASE OpenStream \/ OpenFlat \/ Close
  BY <1>1, OpenStreamKeeps, OpenFlatKeeps, CloseKeeps
<1>2. ASSUME NEW n \in Lengths, Read(n) \/ SkipWindow(n) \/ SkipFallback(n) PROVE IInv'
  BY <1>2, ReadKeeps, SkipWindowKeeps, SkipFallbackKeeps
<1>3. ASSUME \/ \E push \in BOOLEAN : ReadVarint(push)
             \/ ReadTagInWindow \/ DirectReturns \/ ReadVarint64Slow
      PROVE  IInv'
  BY <1>3, DecisionsKeep
<1>4. CASE ReadTagFallback \/ ExpectAtEnd \/ GetDirectBufferPointer
  BY <1>4, ReadTagFallbackKeeps, ExpectAtEndKeeps, GetDirectBufferPointerKeeps
<1>5. ASSUME NEW n \in Lengths, Push(n) \/ SetTotalBytesLimit(n) \/ PushLength(n) PROVE IInv'
  BY <1>5, PushKeeps, SetTotalBytesLimitKeeps, PushLengthKeeps
<1>6. CASE PopLimit
  BY <1>6, PopLimitKeeps
<1>7. CASE Refuse \/ Copy \/ CopyRefresh \/ VarintFromArray \/ VarintByte
  BY <1>7, RefuseKeeps, CopyKeeps, CopyRefreshKeeps, VarintFromArrayKeeps, VarintByteKeeps
<1>8. CASE UNCHANGED vars
  <2>1. /\ UNCHANGED <<adaptor, window, currentLimit, totalBytesLimit, open, origin, lost>>
        /\ UNCHANGED <<stack, ending, legitimateMessageEnd, cutShort, todo, good, erred>>
        /\ UNCHANGED <<buffer, bufferEnd, totalBytesRead, overflowBytes, bufferSizeAfterLimit>>
    BY <1>8 DEF vars, limits, outcome, ending, window
  <2>2. WindowInv' /\ (Ended => Ended') /\ CurrentPosition' = CurrentPosition
        /\ BufferSize' = BufferSize
    BY <2>1, UnderWay, WindowUnchanged
  <2>3. StackInv' /\ EndingInv'
    BY <2>1, <2>2, StackKept, EndingKept DEF IInv
  <2>4. ClosedInv' /\ TodoInv' /\ OutcomeInv'
    BY <2>1, <2>2 DEF ClosedInv, TodoInv, OutcomeInv, IInv
  <2> QED BY <2>2, <2>3, <2>4 DEF IInv
<1>9. CASE Method
  BY <1>2, <1>3, <1>4, <1>5, <1>6, <1>9 DEF Method
<1>10. CASE Continue
  BY <1>3, <1>5, <1>7, <1>10 DEF Continue
<1> QED BY <1>1, <1>8, <1>9, <1>10 DEF Next

LEMMA Invariance == Spec => []IInv
<1>1. Init => IInv
  BY InitHolds
<1>2. IInv /\ [Next]_vars => IInv'
  BY StepKeeps
<1> QED BY <1>1, <1>2, PTL DEF Spec

-----------------------------------------------------------------------------
(* The pointers of CodedInputStream stay in the buffer that was lent, and  *)
(* its counters between 0 and INT_MAX: whatever is read, skipped or        *)
(* limited, in whatever pieces the input comes.                            *)
THEOREM CountersInRange == Spec => []TypeOK
<1>1. IInv => TypeOK
  <2> SUFFICES ASSUME IInv PROVE TypeOK
    OBVIOUS
  <2>1. AdaptorInv /\ WindowType /\ CutAtLimit /\ OutcomeInv /\ EndingInv
    BY DEF IInv, WindowInv
  <2>2. CurrentPosition \in 0 .. MaxInt /\ good \in 0 .. MaxInt
    BY <2>1, CodedAssumption DEF WindowType, OutcomeInv, CurrentPosition, BufferSize
  <2>3. {failed, hasBuffer, misused, legitimateMessageEnd, erred, lost, cutShort} \subseteq BOOLEAN
    BY <2>1 DEF AdaptorInv, WindowType, OutcomeInv, EndingInv
  <2>4. /\ {totalBytesRead, overflowBytes, bufferSizeAfterLimit} \subseteq Nat
        /\ {totalBytesRead, currentLimit, totalBytesLimit, good} \subseteq 0 .. MaxInt
    BY <2>1, <2>2, CodedAssumption DEF WindowType
  <2>5. /\ position \in 0 .. Size /\ bufferUsed \in 0 .. BlockSize /\ backupBytes \in 0 .. bufferUsed
        /\ open \in {"closed", "stream", "flat"} /\ 0 <= buffer /\ buffer <= bufferEnd
    BY <2>1 DEF AdaptorInv, WindowType
  <2> QED BY <2>2, <2>3, <2>4, <2>5 DEF TypeOK
<1> QED BY <1>1, Invariance, PTL

(* The byte that is read next is the byte at CurrentPosition, whatever     *)
(* limits were pushed and popped while the buffer was in the window.       *)
THEOREM BytesInPlace == Spec => []InPlace
<1>1. IInv => InPlace
  BY DEF IInv, WindowInv, WindowType, BufferInPlace, InPlace, BufferSize
<1> QED BY <1>1, Invariance, PTL

(* Nothing is asked of the input that ZeroCopyInputStream does not allow:  *)
(* what the destructor backs up was lent by the last call of Next, and a   *)
(* stream over an array never reaches for the input it does not have.      *)
THEOREM InputNotMisused == Spec => []InputRespected
<1>1. IInv => InputRespected
  BY DEF IInv, WindowInv, AdaptorInv, InputRespected
<1> QED BY <1>1, Invariance, PTL

LEMMA LeastIsMin ==
  ASSUME StackInv
  PROVE  currentLimit = Min({stack[k].asked : k \in DOMAIN stack} \cup {EndOfStream})
<1> DEFINE Limit == [old : 0 .. MaxInt, asked : 0 .. MaxInt]
           S == {stack[k].asked : k \in DOMAIN stack} \cup {EndOfStream}
<1>1. DOMAIN stack = 1 .. Len(stack) /\ Least(currentLimit, Len(stack))
  BY DEF StackInv
<1>2. ASSUME NEW k \in DOMAIN stack PROVE stack[k].asked \in Nat
  <2>1. stack[k] \in Limit
    <3> HIDE DEF Limit
    <3>1. stack \in Seq(Limit)
      BY DEF StackInv, Limit
    <3> QED BY <3>1
  <2> QED BY <2>1, CodedAssumption
<1>3. EndOfStream \in Nat
  BY CodedAssumption DEF EndOfStream
<1>4. S \in SUBSET Nat /\ S # {}
  BY <1>2, <1>3
<1>5. currentLimit \in S /\ \A x \in S : currentLimit <= x
  BY <1>1 DEF Least
<1>6. Min(S) \in S /\ \A x \in S : Min(S) <= x
  <2> HIDE DEF S
  <2> QED BY <1>4, LeastOfNats
<1> HIDE DEF S
<1>7. PICK m \in Nat, c \in Nat : m = Min(S) /\ c = currentLimit
  BY <1>4, <1>5, <1>6
<1>8. m <= c /\ c <= m
  BY <1>5, <1>6, <1>7
<1> QED BY <1>7, <1>8 DEF S

LEMMA ClosestLimitIs ==
  ASSUME WindowType
  PROVE  ClosestLimit = IF currentLimit <= totalBytesLimit THEN currentLimit ELSE totalBytesLimit
<1>1. currentLimit \in Int /\ totalBytesLimit \in Int
  BY CodedAssumption DEF WindowType
<1> QED BY <1>1, MinOfTwo DEF ClosestLimit

(* The shortest of the limits on the stack is in force, in whatever order  *)
(* PushLimit was asked for them, and neither the position nor the window   *)
(* reaches beyond it or beyond the limit on the total.                     *)
THEOREM ShortestLimitHolds == Spec => []ShortestEnforced
<1>1. IInv => ShortestEnforced
  <2> SUFFICES ASSUME IInv PROVE ShortestEnforced
    OBVIOUS
  <2>1. currentLimit = Min({stack[k].asked : k \in DOMAIN stack} \cup {EndOfStream})
    BY LeastIsMin DEF IInv
  <2>2. WindowType /\ CutAtLimit
    BY DEF IInv, WindowInv
  <2>3. CurrentPosition <= ClosestLimit /\ totalBytesRead - bufferSizeAfterLimit <= ClosestLimit
    BY <2>2, ClosestLimitIs, CodedAssumption
       DEF WindowType, CutAtLimit, CurrentPosition, BufferSize
  <2> QED BY <2>1, <2>3 DEF ShortestEnforced, EndOfStream
<1> QED BY <1>1, Invariance, PTL

\* The innermost limit is one that was pushed, the end of an array, or none.
LEMMA LimitExplained ==
  ASSUME IInv, CurrentPosition = currentLimit, open # "closed"
  PROVE  MessageEnds \/ CurrentPosition = MaxInt
<1>1. DOMAIN stack = 1 .. Len(stack) /\ Least(currentLimit, Len(stack))
  BY DEF IInv, StackInv
<1>2. CASE currentLimit = EndOfStream
  BY <1>2 DEF EndOfStream, MessageEnds
<1>3. CASE \E j \in 1 .. Len(stack) : currentLimit = stack[j].asked
  BY <1>1, <1>3 DEF MessageEnds
<1> QED BY <1>1, <1>2, <1>3 DEF Least

(* ConsumedEntireMessage says yes only where a pushed limit, the end of    *)
(* the array or the end of the input is at hand, or INT_MAX bytes are      *)
(* read, at which the default limits are; or where ExpectAtEnd has found   *)
(* the limit on the total, which it does not tell from the others.         *)
THEOREM EndsExplained == Spec => []EndExplained
<1>1. IInv => EndExplained
  <2> SUFFICES ASSUME IInv, legitimateMessageEnd, ~cutShort
               PROVE  MessageEnds \/ CurrentPosition = MaxInt
    BY DEF EndExplained
  <2>1. Ended /\ open # "closed"
    BY DEF IInv, EndingInv, ClosedInv
  <2>2. CASE CurrentPosition = currentLimit
    BY <2>1, <2>2, LimitExplained
  <2>3. CASE open = "stream" /\ Exhausted /\ Unread = 0
    BY <2>3 DEF MessageEnds
  <2> QED BY <2>1, <2>2, <2>3 DEF Ended
<1> QED BY <1>1, Invariance, PTL

\* Only the destructor closes a stream.
LEMMA OnlyClose ==
  ASSUME [Next]_vars, open # "closed", open' = "closed"
  PROVE  Close
<1> USE DEF StreamUnchanged
<1>1. CASE OpenStream \/ OpenFlat
  BY <1>1 DEF OpenStream, OpenFlat
<1>2. CASE Method
  <2>1. ASSUME NEW n, Read(n) \/ SkipWindow(n) \/ SkipFallback(n) PROVE FALSE
    BY <2>1 DEF Read, SkipWindow, SkipFallback
  <2>2. ASSUME NEW push, ReadVarint(push) PROVE FALSE
    BY <2>2 DEF ReadVarint
  <2>3. CASE ReadTagInWindow \/ ReadTagFallback \/ ExpectAtEnd \/ GetDirectBufferPointer
    BY <2>3 DEF ReadTagInWindow, ReadTagFallback, ExpectAtEnd, GetDirectBufferPointer
  <2>4. ASSUME NEW n, Push(n) \/ SetTotalBytesLimit(n) PROVE FALSE
    BY <2>4 DEF Push, SetTotalBytesLimit
  <2>5. CASE PopLimit
    BY <2>5 DEF PopLimit
  <2> QED BY <1>2, <2>1, <2>2, <2>3, <2>4, <2>5 DEF Method
<1>3. CASE Continue
  <2>1. CASE Refuse \/ Copy \/ CopyRefresh \/ DirectReturns
    BY <2>1 DEF Refuse, Copy, CopyRefresh, DirectReturns
  <2>2. CASE VarintFromArray \/ ReadVarint64Slow \/ VarintByte
    BY <2>2 DEF VarintFromArray, ReadVarint64Slow, VarintByte
  <2>3. ASSUME NEW n, PushLength(n) PROVE FALSE
    BY <2>3 DEF PushLength
  <2> QED BY <1>3, <2>1, <2>2, <2>3 DEF Continue
<1>4. CASE UNCHANGED vars
  BY <1>4 DEF vars
<1> QED BY <1>1, <1>2, <1>3, <1>4 DEF Next

\* What the destructor gives back is what has not been read.
LEMMA GivesBack ==
  ASSUME IInv, Close, open = "stream"
  PROVE  Unread \in Nat /\ ByteCount' = ByteCount - Unread
<1>1. AdaptorInv /\ WindowType /\ CutAtLimit /\ InputInStep
  BY DEF IInv, WindowInv
<1>2. PICK unread \in Nat : unread = Unread
  BY <1>1 DEF WindowType, Unread, BufferSize
<1>3. CASE unread > 0
  <2>1. BackUp(unread)
    BY <1>2, <1>3 DEF Close
  <2>2. position' = position /\ backupBytes' = unread
    BY <2>1 DEF BackUp
  <2>3. backupBytes = 0
    BY <1>1, <1>2, <1>3 DEF InputInStep, CanBackUp
  <2> QED BY <1>1, <1>2, <2>2, <2>3 DEF ByteCount, AdaptorInv
<1>4. CASE unread = 0
  <2>1. UNCHANGED adaptor
    BY <1>2, <1>4 DEF Close
  <2> QED BY <1>1, <1>2, <1>4, <2>1 DEF ByteCount, adaptor, AdaptorInv
<1> QED BY <1>3, <1>4

LEMMA BackedUp ==
  ASSUME IInv, Close, open = "stream"
  PROVE  /\ origin \in Int /\ CurrentPosition \in Nat /\ ByteCount' \in Int
         /\ origin <= ByteCount' /\ ByteCount' <= origin + CurrentPosition
         /\ ~lost => ByteCount' = origin + CurrentPosition
<1>1. AdaptorInv /\ WindowType /\ InputInStep
  BY DEF IInv, WindowInv
<1>2. PICK read \in Nat, unread \in Nat : read = CurrentPosition /\ unread = Unread
  BY <1>1 DEF WindowType, Unread, BufferSize
<1>3. totalBytesRead + overflowBytes = read + unread /\ origin \in Int
  BY <1>1, <1>2 DEF Unread, CurrentPosition, BufferSize, WindowType
<1>4. PICK count \in Int : count = ByteCount
  BY <1>1 DEF AdaptorInv, ByteCount
<1>5. /\ count <= origin + (read + unread) /\ origin + unread <= count
      /\ ~lost => count = origin + (read + unread)
  BY <1>1, <1>2, <1>3, <1>4 DEF InputInStep, WindowType
<1>6. ByteCount' = count - unread
  BY <1>2, <1>4, GivesBack
<1> QED BY <1>2, <1>3, <1>5, <1>6

(* The destructor leaves the input at the first byte that was not read or, *)
(* after a failure, between the last value that was and the limit.  When   *)
(* the input has failed to skip it leaves it short of where the stream     *)
(* believes to be, and not before the byte it was opened at.               *)
THEOREM ClosesExactly == Spec => CloseExact
<1>1. ASSUME IInv, [Next]_vars, open = "stream", open' = "closed"
      PROVE  LET at == ByteCount' - origin
             IN  /\ 0 <= at /\ at <= CurrentPosition /\ at <= ClosestLimit
                 /\ ~lost => good <= at
                 /\ ~lost /\ ~erred => at = good
  <2>1. Close
    BY <1>1, OnlyClose
  <2>2. WindowType /\ CutAtLimit /\ OutcomeInv
    BY <1>1 DEF IInv, WindowInv
  <2>3. PICK read \in Nat, at \in Int : read = CurrentPosition /\ at = ByteCount' - origin
    BY <1>1, <2>1, BackedUp
  <2>4. 0 <= at /\ at <= read /\ (~lost => at = read)
    BY <1>1, <2>1, <2>3, BackedUp
  <2>5. read <= ClosestLimit /\ ClosestLimit \in Nat
    BY <2>2, <2>3, ClosestLimitIs, CodedAssumption
       DEF WindowType, CutAtLimit, CurrentPosition, BufferSize
  <2>6. good <= read /\ good \in Nat
    BY <2>2, <2>3 DEF OutcomeInv
  <2>7. ~erred => read = good
    <3>1. todo.op = "idle"
      BY <2>1 DEF Close, Idle
    <3> QED BY <2>2, <2>3, <3>1 DEF OutcomeInv
  <2> QED BY <2>3, <2>4, <2>5, <2>6, <2>7
<1>2. IInv /\ [Next]_vars =>
        [open = "stream" /\ open' = "closed" =>
           LET at == ByteCount' - origin IN
           /\ 0 <= at /\ at <= CurrentPosition /\ at <= ClosestLimit
           /\ ~lost => good <= at
           /\ ~lost /\ ~erred => at = good]_vars
  BY <1>1
<1> QED BY <1>2, Invariance, PTL DEF Spec, CloseExact
-----------------------------------------------------------------------------
(* CodedInputStream implements CodedCursor.                                *)

\* What is known of the bytes of a varint that have been read, and the rest of
\* what a method has to remember from one step to the next.
TaskInv ==
  /\ todo.op = "refresh" => todo.size > 0
  /\ todo.op = "varint" => todo.count = 0
  /\ todo.op = "byte" /\ ~lost =>
       \A k \in 1 .. todo.count : origin + (CurrentPosition - todo.count) + k - 1 \notin Ends
  /\ open = "flat" => origin = 0

\* An input that is exhausted stays where it is, until it fails to skip.
InputGoes ==
  /\ open = "flat" => ByteCount' = ByteCount
  /\ Exhausted /\ ~lost' => Exhausted' /\ ByteCount' = ByteCount

Asked == [k \in DOMAIN stack |-> stack[k].asked]

LEMMA AskedIs ==
  ASSUME StackInv
  PROVE  /\ Asked \in Seq(0 .. MaxInt) /\ Len(Asked) = Len(stack) /\ Len(stack) \in Nat
         /\ DOMAIN Asked = 1 .. Len(stack)
         /\ \A k \in 1 .. Len(stack) : Asked[k] = stack[k].asked
<1> DEFINE Limit == [old : 0 .. MaxInt, asked : 0 .. MaxInt]
<1>1. stack \in Seq(Limit)
  BY DEF StackInv
<1>2. DOMAIN stack = 1 .. Len(stack) /\ Len(stack) \in Nat
  BY <1>1
<1>3. ASSUME NEW k \in 1 .. Len(stack) PROVE stack[k].asked \in 0 .. MaxInt
  <2>1. stack[k] \in Limit
    <3> HIDE DEF Limit
    <3> QED BY <1>1
  <2> QED BY <2>1
<1>4. Asked = [k \in 1 .. Len(stack) |-> stack[k].asked]
  BY <1>2 DEF Asked
<1>5. Asked \in Seq(0 .. MaxInt) /\ Len(Asked) = Len(stack)
  BY <1>2, <1>3, <1>4
<1> QED BY <1>2, <1>4, <1>5

\* All the limits that are pushed are kept if the least is.
LEMMA AllowedIs ==
  ASSUME IInv, NEW p \in Int
  PROVE  Cursor!Allowed(p) <=> p <= currentLimit /\ p <= totalBytesLimit
<1> USE CodedAssumption
<1>1. StackInv /\ Least(currentLimit, Len(stack)) /\ currentLimit \in Int /\ totalBytesLimit \in Int
  BY DEF IInv, StackInv, WindowInv, WindowType
<1>2. /\ DOMAIN Asked = 1 .. Len(stack)
      /\ \A k \in 1 .. Len(stack) : Asked[k] = stack[k].asked /\ Asked[k] \in Int
  <2>1. Asked \in Seq(0 .. MaxInt) /\ DOMAIN Asked = 1 .. Len(Asked)
    BY <1>1, AskedIs
  <2> QED BY <1>1, <2>1, AskedIs
<1>3. Cursor!Allowed(p) <=> /\ p <= EndOfStream /\ p <= totalBytesLimit
                            /\ \A k \in DOMAIN Asked : p <= Asked[k]
  BY Zenon DEF Cursor!Allowed, EndOfStream, Asked
<1>4. EndOfStream \in Int
  BY DEF EndOfStream
<1>5. ASSUME p <= EndOfStream, \A k \in DOMAIN Asked : p <= Asked[k]
      PROVE  p <= currentLimit
  BY <1>1, <1>2, <1>5 DEF Least
<1>6. ASSUME p <= currentLimit
      PROVE  p <= EndOfStream /\ \A k \in DOMAIN Asked : p <= Asked[k]
  <2>1. currentLimit <= EndOfStream
    BY <1>1 DEF Least
  <2>2. ASSUME NEW k \in DOMAIN Asked PROVE p <= Asked[k]
    <3>1. currentLimit <= Asked[k] /\ Asked[k] \in Int
      BY <1>1, <1>2 DEF Least
    <3> QED BY <1>1, <1>6, <3>1
  <2> QED BY <1>1, <1>4, <1>6, <2>1, <2>2
<1> QED BY <1>3, <1>5, <1>6

\* Where a stream is, and what it knows of the end of its input.
WellPlaced ==
  /\ CurrentPosition \in Nat
  /\ CurrentPosition <= currentLimit /\ CurrentPosition <= totalBytesLimit
  /\ End = Unknown \/ (End \in Nat /\ CurrentPosition <= End)

LEMMA PositionIs == IInv => WellPlaced
<1> SUFFICES ASSUME IInv PROVE WellPlaced
  OBVIOUS
<1> USE CodedAssumption DEF WellPlaced
<1>1. AdaptorInv /\ WindowType /\ CutAtLimit /\ InputInStep
  BY DEF IInv, WindowInv
<1>2. /\ CurrentPosition \in Nat
      /\ CurrentPosition <= currentLimit /\ CurrentPosition <= totalBytesLimit
  BY <1>1 DEF WindowType, CutAtLimit, CurrentPosition, BufferSize
<1>3. CASE open = "stream" /\ ~lost /\ Exhausted
  <2>1. End = ByteCount - origin
    BY <1>3 DEF End
  <2>2. ByteCount = origin + totalBytesRead + overflowBytes
    BY <1>1, <1>3 DEF InputInStep
  <2> QED BY <1>1, <1>2, <2>1, <2>2 DEF WindowType, CurrentPosition, BufferSize, Unknown
<1>4. CASE ~ (open = "stream" /\ ~lost /\ Exhausted)
  BY <1>2, <1>4 DEF End, Unknown
<1> QED BY <1>3, <1>4

\* A step of an open stream that leaves its limits alone.
LEMMA Moves ==
  ASSUME IInv, IInv', open # "closed", StreamUnchanged, UNCHANGED limits, InputGoes,
         CurrentPosition' >= CurrentPosition
  PROVE  Cursor!Forward /\ Cursor!Quiet
<1>0. WellPlaced'
  BY PositionIs, PTL
<1>1. PICK p \in Nat, c \in Int, t \in Int :
        /\ p = CurrentPosition' /\ c = currentLimit /\ t = totalBytesLimit
        /\ p <= c /\ p <= t /\ c = currentLimit' /\ t = totalBytesLimit'
  <2>1. /\ CurrentPosition' \in Nat
        /\ CurrentPosition' <= currentLimit' /\ CurrentPosition' <= totalBytesLimit'
    BY <1>0 DEF WellPlaced
  <2>2. UNCHANGED <<currentLimit, totalBytesLimit>>
    BY DEF limits
  <2>3. currentLimit \in Int /\ totalBytesLimit \in Int
    BY CodedAssumption DEF IInv, WindowInv, WindowType
  <2> QED BY <2>1, <2>2, <2>3
<1>2. Cursor!Allowed(CurrentPosition')
  <2>1. Cursor!Allowed(p)
    BY <1>1, AllowedIs
  <2> QED BY <1>1, <2>1
<1>3. End' = Unknown' \/ (End' \in Nat /\ CurrentPosition' <= End')
  BY <1>0 DEF WellPlaced
<1>4. Unknown' = Unknown
  BY DEF Unknown
<1>5. End' # End => End = Unknown \/ lost'
  <2>1. SUFFICES ASSUME End # Unknown, ~lost' PROVE End' = End
    OBVIOUS
  <2>2. open = "stream" /\ ~lost /\ Exhausted /\ End = ByteCount - origin
    BY <2>1 DEF End
  <2>3. open' = "stream" /\ Exhausted' /\ ByteCount' = ByteCount /\ origin' = origin
    BY <2>1, <2>2 DEF InputGoes, StreamUnchanged
  <2> QED BY <2>1, <2>2, <2>3 DEF End
<1>6. Cursor!Forward
  BY <1>2, <1>3, <1>4, <1>5 DEF Cursor!Forward
<1>7. Cursor!Quiet
  <2>1. UNCHANGED <<open, origin, totalBytesLimit, stack>>
    BY DEF limits, StreamUnchanged
  <2>2. open # "stream" => ByteCount' = ByteCount
    BY DEF IInv, WindowInv, WindowType, InputGoes
  <2>3. (IF open = "stream" THEN origin ELSE ByteCount)'
          = IF open = "stream" THEN origin ELSE ByteCount
    BY <2>1, <2>2
  <2>4. UNCHANGED [k \in DOMAIN stack |-> stack[k].asked]
    BY <2>1
  <2> QED BY <2>1, <2>3, <2>4 DEF Cursor!Quiet
<1> QED BY <1>6, <1>7

LEMMA InputKept ==
  ASSUME UNCHANGED adaptor
  PROVE  InputGoes
  BY DEF adaptor, InputGoes, Exhausted, ByteCount

LEMMA LendGoes ==
  ASSUME IInv, RefreshSucceeds
  PROVE  InputGoes
<1>1. PICK n \in 1 .. Size : NextLends(n) /\ open # "flat"
  BY DEF RefreshSucceeds
<1>2. AdaptorInv
  BY DEF IInv, WindowInv
<1>3. ~Exhausted
  <2>1. PICK p \in 0 .. Size : failed = FALSE /\ p = ByteCount + n
    BY <1>1, <1>2, LendStep
  <2>2. ByteCount \in Int
    BY <1>2, AdaptorAssumption DEF ByteCount, AdaptorInv
  <2> QED BY <2>1, <2>2, AdaptorAssumption DEF Exhausted
<1> QED BY <1>1, <1>3 DEF InputGoes

\* A refresh fails for a reason.
LEMMA RefreshFailsWhy ==
  ASSUME IInv, open # "closed", BufferSize = 0, RefreshFails, UNCHANGED lost, StreamUnchanged
  PROVE  /\ InputGoes
         /\ \/ CurrentPosition >= currentLimit \/ CurrentPosition >= totalBytesLimit
            \/ lost \/ End' = CurrentPosition
<1> USE CodedAssumption, AdaptorAssumption
<1>1. AdaptorInv /\ WindowType /\ CutAtLimit /\ InputInStep
  BY DEF IInv, WindowInv
<1>2. CASE Stopped /\ UNCHANGED adaptor
  <2>1. CurrentPosition = totalBytesRead - bufferSizeAfterLimit
    BY <1>1 DEF CurrentPosition, WindowType
  <2>2. CurrentPosition >= currentLimit \/ CurrentPosition >= totalBytesLimit
    BY <1>1, <1>2, <2>1 DEF Stopped, WindowType, CutAtLimit
  <2> QED BY <1>2, <2>2, InputKept
<1>3. CASE ~Stopped /\ IF open # "flat" THEN NextFails ELSE CallsNull
  <2>1. bufferSizeAfterLimit = 0 /\ overflowBytes = 0 /\ totalBytesRead # currentLimit
    BY <1>1, <1>3 DEF Stopped, WindowType
  <2>2. CASE open = "flat"
    BY <1>1, <2>1, <2>2 DEF InputInStep, CutAtLimit, CallsNull, InputGoes, Exhausted, ByteCount,
          CurrentPosition, WindowType
  <2>3. CASE open = "stream"
    <3>1. NextFails /\ UNCHANGED <<position, backupBytes>>
      BY <1>3, <2>3 DEF NextFails
    <3>2. failed' \/ ByteCount = Size
      <4>1. CASE failed /\ UNCHANGED failed
        BY <4>1
      <4>2. CASE backupBytes = 0 /\ failed' \in (IF position = Size THEN BOOLEAN ELSE {TRUE})
        <5>1. CASE position = Size
          BY <4>2, <5>1 DEF ByteCount
        <5>2. CASE position # Size
          BY <4>2, <5>2, Zenon
        <5> QED BY <5>1, <5>2
      <4> QED BY <3>1, <4>1, <4>2 DEF NextFails
    <3>3. ByteCount' = ByteCount /\ Exhausted'
      BY <3>1, <3>2 DEF ByteCount, Exhausted
    <3>4. ~lost => ByteCount - origin = CurrentPosition
      BY <1>1, <2>1, <2>3 DEF InputInStep, WindowType, CurrentPosition
    <3>5. InputGoes
      BY <2>3, <3>3 DEF InputGoes
    <3>6. ~lost => End' = CurrentPosition
      <4>1. open' = "stream" /\ origin' = origin /\ lost' = lost
        BY <2>3 DEF StreamUnchanged
      <4> QED BY <3>3, <3>4, <4>1 DEF End
    <3> QED BY <3>5, <3>6
  <2> QED BY <1>1, <2>2, <2>3 DEF WindowType
<1> QED BY <1>2, <1>3 DEF RefreshFails

LEMMA SkipInputGoes ==
  ASSUME IInv, NEW count \in Nat \ {0}, NEW ok \in BOOLEAN, SkipInput(count, ok)
  PROVE  /\ InputGoes /\ lost' = (lost \/ ~ok)
         /\ bufferSizeAfterLimit = 0 => CurrentPosition' = totalBytesRead + count
<1>1. AdaptorInv /\ WindowType
  BY DEF IInv, WindowInv
<1>2. /\ lost' = (lost \/ ~ok) /\ totalBytesRead' = totalBytesRead + count
      /\ buffer' = 0 /\ bufferEnd' = 0 /\ UNCHANGED bufferSizeAfterLimit
  BY DEF SkipInput
<1>3. bufferSizeAfterLimit = 0 => CurrentPosition' = totalBytesRead + count
  BY <1>1, <1>2, CodedAssumption DEF CurrentPosition, BufferSize, WindowType
<1>4. CASE open = "flat"
  BY <1>2, <1>3, <1>4 DEF SkipInput, CallsNull, InputGoes, Exhausted, ByteCount
<1>5. CASE open # "flat"
  <2>1. Skip(count, ok)
    BY <1>5 DEF SkipInput
  <2>2. ok => ~Exhausted
    <3>1. SUFFICES ASSUME ok PROVE ~failed /\ ByteCount # Size
      BY DEF Exhausted
    <3>2. /\ position \in 0 .. Size /\ backupBytes \in Nat /\ Size \in Nat
      BY <1>1, AdaptorAssumption DEF AdaptorInv
    <3>3. CASE ~failed /\ backupBytes >= count
      BY <3>2, <3>3 DEF ByteCount
    <3>4. CASE ~failed /\ backupBytes < count
      <4>1. PICK skipped \in 0 .. count - backupBytes :
              position + skipped <= Size /\ ok = (skipped = count - backupBytes)
        BY <2>1, <3>2, <3>4 DEF Skip
      <4>2. skipped = count - backupBytes
        BY <3>1, <4>1, Zenon
      <4> QED BY <3>2, <3>4, <4>1, <4>2 DEF ByteCount
    <3> QED BY <2>1, <3>1, <3>3, <3>4 DEF Skip
  <2> QED BY <1>2, <1>3, <1>5, <2>2 DEF InputGoes
<1> QED BY <1>4, <1>5, <1>2, <1>3

DoingOf ==
  /\ todo.op \in {"idle", "direct"} => Doing = Idle
  /\ todo.op \in {"refuse", "copy", "refresh"} =>
       Doing = [op |-> "read", to |-> CurrentPosition + todo.size]
  /\ todo.op \in {"varint", "byte"} =>
       Doing = [op |-> "varint", from |-> CurrentPosition - todo.count, push |-> todo.push]
  /\ todo.op = "push" => Doing = todo

LEMMA DoingIs == DoingOf
  BY DEF Doing, DoingOf

LEMMA DoingBecomes == DoingOf'
  BY DoingIs, PTL

\* A step that nobody who parses can see.
LEMMA Unseen ==
  ASSUME UNCHANGED <<adaptor, window, limits, open, origin, erred, lost>>, Doing' = Doing
  PROVE  UNCHANGED Cursor!vars
<1>1. /\ UNCHANGED <<buffer, bufferEnd, totalBytesRead, overflowBytes, bufferSizeAfterLimit>>
      /\ UNCHANGED <<position, failed, backupBytes, totalBytesLimit, stack>>
  BY DEF window, adaptor, limits
<1>2. UNCHANGED <<CurrentPosition, ByteCount, Exhausted>>
  BY <1>1 DEF CurrentPosition, BufferSize, ByteCount, Exhausted
<1>3. UNCHANGED End
  BY <1>2 DEF End, Unknown
<1>4. UNCHANGED (IF open = "stream" THEN origin ELSE ByteCount)
  BY <1>2
<1>5. UNCHANGED [k \in DOMAIN stack |-> stack[k].asked]
  BY <1>1
<1> QED BY <1>1, <1>2, <1>3, <1>4, <1>5 DEF Cursor!vars

\* Where there is nothing to remember.
LEMMA Forgotten ==
  ASSUME TaskInv, todo'.op \in {"idle", "direct", "refuse", "copy", "push"},
         UNCHANGED <<open, origin>>
  PROVE  TaskInv'
  BY DEF TaskInv

LEMMA IdleDoes ==
  ASSUME todo = Idle
  PROVE  /\ Doing = Idle /\ Doing.op = "idle" /\ Cursor!Idle = Idle
         /\ Cursor!After(TRUE) = Idle
<1>1. Doing = Idle
  BY DoingIs DEF DoingOf, Idle
<1> QED BY <1>1 DEF Idle, Cursor!Idle, Cursor!After

LEMMA IdleNext ==
  ASSUME todo'.op \in {"idle", "direct"}
  PROVE  Doing' = Idle
  BY DoingBecomes DEF DoingOf

\* A size that is not read at once.
LEMMA SizeCursor ==
  ASSUME IInv, TaskInv, NEW n \in Lengths, Ready, NEW op \in {"refuse", "copy"},
         GoesOn([op |-> op, size |-> n]), UNCHANGED <<adaptor, window, limits, lost>>, StreamUnchanged
  PROVE  Cursor!Read(n) /\ TaskInv'
<1>1. /\ open # "closed" /\ todo = Idle /\ todo' = [op |-> op, size |-> n]
      /\ UNCHANGED <<adaptor, window, limits, open, origin, erred, lost>>
  BY DEF Ready, GoesOn, outcome, StreamUnchanged
<1>2. Doing = Idle
  BY <1>1, DoingIs DEF DoingOf, Idle
<1>3. UNCHANGED CurrentPosition
  BY <1>1 DEF window, CurrentPosition, BufferSize
<1>4. Doing' = [op |-> "read", to |-> CurrentPosition + n]
  BY <1>1, <1>3, DoingBecomes DEF DoingOf
<1>5. InputGoes /\ UNCHANGED <<End, totalBytesLimit>>
  BY <1>1, InputKept DEF limits, End, Unknown, Exhausted, ByteCount, adaptor
<1>6. UNCHANGED (IF open = "stream" THEN origin ELSE ByteCount)
  BY <1>1 DEF ByteCount, adaptor
<1>7. UNCHANGED [k \in DOMAIN stack |-> stack[k].asked]
  BY <1>1 DEF limits
<1>8. Cursor!Quiet
  BY <1>1, <1>5, <1>6, <1>7 DEF Cursor!Quiet
<1>9. Cursor!Read(n)
  BY <1>1, <1>2, <1>3, <1>4, <1>5, <1>8 DEF Cursor!Read, Cursor!Ready, Cursor!Idle, Idle
<1> QED BY <1>1, <1>9, Forgotten

LEMMA ReadCursor ==
  ASSUME IInv, TaskInv, NEW n \in Lengths, Read(n)
  PROVE  Cursor!Read(n) /\ TaskInv'
<1>1. PICK op \in {"refuse", "copy"} : op = IF Refuses(n) THEN "refuse" ELSE "copy"
  OBVIOUS
<1>2. GoesOn([op |-> op, size |-> n])
  BY <1>1 DEF Read
<1>3. Ready /\ UNCHANGED <<adaptor, window, limits, lost>> /\ StreamUnchanged
  BY DEF Read
<1> QED BY <1>2, <1>3, SizeCursor

\* A size below zero moves nothing.
LEMMA RefuseCursor ==
  ASSUME IInv, IInv', TaskInv, Refuse
  PROVE  Cursor!Fails /\ TaskInv'
<1>1. PICK n \in Int \ Nat : todo = [op |-> "refuse", size |-> n]
  BY TodoShape DEF IInv, TodoInv, Refuse
<1>2. /\ open # "closed" /\ todo' = Idle /\ erred' = TRUE /\ StreamUnchanged
      /\ UNCHANGED <<adaptor, window, limits, open, origin, lost>>
  BY <1>1, UnderWay DEF Refuse, Fails, Idle, StreamUnchanged
<1>3. PICK p \in Nat : p = CurrentPosition /\ p = CurrentPosition'
  BY <1>2, UnderWay DEF window, CurrentPosition, BufferSize
<1>4. Doing = [op |-> "read", to |-> p + n] /\ p + n < p
  <2>1. todo.op = "refuse" /\ todo.size = n
    BY <1>1
  <2>2. Doing = [op |-> "read", to |-> p + n]
    BY <1>3, <2>1, DoingIs DEF DoingOf
  <2>3. p + n < p
    OBVIOUS
  <2> QED BY <2>2, <2>3
<1>5. Doing' = Idle
  BY <1>2, IdleNext DEF Idle
<1>6. Cursor!After(TRUE) = Idle
  BY <1>4 DEF Cursor!After, Cursor!Idle, Idle
<1>7. Cursor!Forward /\ Cursor!Quiet
  BY <1>2, <1>3, InputKept, Moves
<1>8. Doing.op = "read" /\ Doing.to < CurrentPosition /\ CurrentPosition' = CurrentPosition
  BY <1>3, <1>4
<1>9. open # "closed" /\ lost' = lost /\ erred' = TRUE /\ Doing' = Cursor!After(TRUE)
  BY <1>2, <1>5, <1>6
<1>10. Cursor!Fails
  BY <1>7, <1>8, <1>9 DEF Cursor!Fails
<1> QED BY <1>2, <1>10, Forgotten DEF Idle

LEMMA CopyCursor ==
  ASSUME IInv, IInv', TaskInv, Copy
  PROVE  (Cursor!Goes \/ Cursor!Succeeds) /\ TaskInv'
<1>1. PICK n \in Nat : todo = [op |-> "copy", size |-> n]
  BY TodoShape DEF IInv, TodoInv, Copy
<1>2. /\ open # "closed" /\ UNCHANGED <<limits, erred, lost>> /\ StreamUnchanged
      /\ UNCHANGED <<adaptor, currentLimit, totalBytesLimit, open, origin>>
  BY <1>1, UnderWay DEF Copy, Idle, StreamUnchanged, limits, Done, GoesOn, outcome
<1>3. PICK size \in Nat, p \in Nat : size = BufferSize /\ p = CurrentPosition
  BY UnderWay
<1>4. Doing = [op |-> "read", to |-> p + n]
  BY <1>1, <1>3, DoingIs DEF DoingOf
<1>5. CASE size < n
  <2>1. PICK rest \in Nat \ {0} : rest = n - size
    BY <1>5
  <2>2. Advance(size) /\ todo' = [op |-> "refresh", size |-> rest]
    BY <1>1, <1>3, <1>5, <2>1 DEF Copy, GoesOn
  <2>3. CurrentPosition' = p + size
    BY <1>2, <1>3, <2>2, UnderWay, AdvanceStep
  <2>4. Cursor!Forward /\ Cursor!Quiet
    BY <1>2, <1>3, <2>3, InputKept, Moves
  <2>5. Doing' = [op |-> "read", to |-> p + n]
    <3>1. CurrentPosition' + rest = p + n
      BY <2>1, <2>3
    <3> QED BY <2>2, <3>1, DoingBecomes DEF DoingOf
  <2>6. CurrentPosition' <= Doing.to /\ Doing.op = "read"
    BY <1>4, <1>5, <2>3
  <2>7. Cursor!Goes
    BY <1>2, <1>4, <2>4, <2>5, <2>6 DEF Cursor!Goes
  <2>8. TaskInv'
    BY <1>2, <2>2 DEF TaskInv
  <2> QED BY <2>7, <2>8
<1>6. CASE ~ (size < n)
  <2>1. Advance(n) /\ todo' = Idle /\ n \in 0 .. BufferSize
    BY <1>1, <1>3, <1>6 DEF Copy, Done
  <2>2. CurrentPosition' = p + n
    BY <1>2, <1>3, <2>1, UnderWay, AdvanceStep
  <2>3. Cursor!Forward /\ Cursor!Quiet
    BY <1>2, <1>3, <2>2, InputKept, Moves
  <2>4. Doing' = Idle
    BY <2>1, DoingBecomes DEF DoingOf, Idle
  <2>5. Cursor!After(FALSE) = Idle
    BY <1>4 DEF Cursor!After, Cursor!Idle, Idle
  <2>6. Cursor!Succeeds
    BY <1>2, <1>4, <2>2, <2>3, <2>4, <2>5 DEF Cursor!Succeeds
  <2> QED BY <1>2, <2>1, <2>6, Forgotten DEF Idle
<1> QED BY <1>5, <1>6

\* At a limit one more byte would be too many.
LEMMA Full ==
  ASSUME IInv, CurrentPosition' \in Nat,
         CurrentPosition' >= currentLimit \/ CurrentPosition' >= totalBytesLimit
  PROVE  ~Cursor!Allowed(CurrentPosition' + 1)
<1>1. PICK c \in Int, t \in Int : c = currentLimit /\ t = totalBytesLimit
  BY CodedAssumption DEF IInv, WindowInv, WindowType
<1>2. PICK q \in Nat : q = CurrentPosition' /\ (q >= c \/ q >= t)
  BY <1>1, Zenon
<1>3. q + 1 \in Int /\ (q + 1 > c \/ q + 1 > t)
  <2>1. q >= c \/ q >= t
    BY <1>2
  <2> QED BY ONLY <2>1, q \in Nat, c \in Int, t \in Int
<1>4. ~Cursor!Allowed(q + 1)
  BY <1>1, <1>3, AllowedIs
<1> QED BY <1>2, <1>4

\* What a refresh does to the cursor, and why it fails.
LEMMA RefreshMoves ==
  ASSUME IInv, IInv', open # "closed", BufferSize = 0, RefreshSucceeds \/ RefreshFails,
         UNCHANGED <<limits, lost>>, StreamUnchanged
  PROVE  /\ Cursor!Forward /\ Cursor!Quiet /\ CurrentPosition' = CurrentPosition
         /\ RefreshFails => \/ ~Cursor!Allowed(CurrentPosition' + 1)
                            \/ CurrentPosition' = End' \/ lost'
<1>1. CurrentPosition' = CurrentPosition /\ CurrentPosition' >= CurrentPosition
  BY Refreshes
<1>2. InputGoes
  BY LendGoes, RefreshFailsWhy
<1>3. ASSUME RefreshFails
      PROVE  ~Cursor!Allowed(CurrentPosition' + 1) \/ CurrentPosition' = End' \/ lost'
  <2>1. CASE CurrentPosition >= currentLimit \/ CurrentPosition >= totalBytesLimit
    BY <1>1, <2>1, UnderWay, Full
  <2>2. CASE lost \/ End' = CurrentPosition
    BY <1>1, <2>2
  <2> QED BY <1>3, <2>1, <2>2, RefreshFailsWhy
<1> QED BY <1>1, <1>2, <1>3, Moves

LEMMA CopyRefreshCursor ==
  ASSUME IInv, IInv', TaskInv, CopyRefresh
  PROVE  (Cursor!Goes \/ Cursor!Fails) /\ TaskInv'
<1>1. PICK n \in Nat : todo = [op |-> "refresh", size |-> n]
  BY TodoShape DEF IInv, TodoInv, CopyRefresh
<1>2. n > 0
  BY <1>1 DEF TaskInv
<1>3. /\ open # "closed" /\ BufferSize = 0
      /\ UNCHANGED <<limits, lost>> /\ StreamUnchanged /\ UNCHANGED <<open, origin>>
  <2>1. todo.op = "refresh" /\ todo # Idle
    BY <1>1 DEF Idle
  <2> QED BY <2>1, UnderWay DEF CopyRefresh, IInv, TodoInv, StreamUnchanged
<1>4. /\ Cursor!Forward /\ Cursor!Quiet /\ CurrentPosition' = CurrentPosition
      /\ RefreshFails => ~Cursor!Allowed(CurrentPosition' + 1) \/ CurrentPosition' = End' \/ lost'
  BY <1>3, RefreshMoves DEF CopyRefresh
<1>5. PICK p \in Nat : p = CurrentPosition
  BY UnderWay
<1>6. Doing = [op |-> "read", to |-> p + n]
  BY <1>1, <1>5, DoingIs DEF DoingOf
<1>7. CASE GoesOn([todo EXCEPT !.op = "copy"])
  <2>1. todo' = [op |-> "copy", size |-> n] /\ UNCHANGED erred
    BY <1>1, <1>7 DEF GoesOn, outcome
  <2>2. Doing' = Doing
    BY <1>4, <1>5, <1>6, <2>1, DoingBecomes DEF DoingOf
  <2>3. CurrentPosition' <= Doing.to /\ Doing.op = "read"
    BY <1>4, <1>5, <1>6
  <2>4. Cursor!Goes
    BY <1>3, <1>4, <2>1, <2>2, <2>3 DEF Cursor!Goes
  <2> QED BY <1>3, <2>1, <2>4, Forgotten
<1>8. CASE RefreshFails /\ Fails(Idle)
  <2>1. todo' = Idle /\ erred' = TRUE
    BY <1>8 DEF Fails
  <2>2. Doing' = Idle
    BY <2>1, DoingBecomes DEF DoingOf, Idle
  <2>3. Cursor!After(TRUE) = Idle
    BY <1>6 DEF Cursor!After, Cursor!Idle, Idle
  <2>4. Doing.op = "read" /\ CurrentPosition' < Doing.to /\ ~(Doing.to < CurrentPosition)
    BY <1>2, <1>4, <1>5, <1>6
  <2>5. Cursor!Fails
    BY <1>3, <1>4, <1>8, <2>1, <2>2, <2>3, <2>4 DEF Cursor!Fails
  <2> QED BY <1>3, <2>1, <2>5, Forgotten DEF Idle
<1> QED BY <1>7, <1>8 DEF CopyRefresh

LEMMA SkipWindowCursor ==
  ASSUME IInv, IInv', TaskInv, NEW n \in Lengths, SkipWindow(n)
  PROVE  (Cursor!Read(n) \/ (n \in 0 .. MaxInt /\ Cursor!Skip(n))) /\ TaskInv'
<1>1. /\ Ready /\ UNCHANGED <<adaptor, limits, lost>> /\ StreamUnchanged
      /\ open # "closed" /\ todo = Idle /\ UNCHANGED <<currentLimit, totalBytesLimit, open, origin>>
  BY DEF SkipWindow, Ready, StreamUnchanged, limits
<1>2. CASE UNCHANGED window /\ GoesOn([op |-> "refuse", size |-> n])
  BY <1>1, <1>2, SizeCursor
<1>3. CASE ~Refuses(n) /\ Advance(n) /\ Done(Idle)
  <2>1. n \in 0 .. BufferSize /\ n \in 0 .. MaxInt
    BY <1>3, CodedAssumption, UnderWay DEF SkipWindow, Refuses, Lengths
  <2>2. todo' = Idle /\ UNCHANGED erred
    BY <1>3 DEF Done
  <2>3. CurrentPosition' = CurrentPosition + n
    BY <1>1, <1>3, <2>1, UnderWay, AdvanceStep
  <2>4. CurrentPosition' >= CurrentPosition
    BY <2>1, <2>3, UnderWay
  <2>5. Cursor!Forward /\ Cursor!Quiet
    BY <1>1, <2>4, InputKept, Moves
  <2>6. Cursor!Skip(n)
    BY <1>1, <2>2, <2>3, <2>5, IdleDoes, IdleNext DEF Cursor!Skip, Cursor!Ready, Idle
  <2> QED BY <1>1, <2>1, <2>2, <2>6, Forgotten DEF Idle
<1> QED BY <1>2, <1>3 DEF SkipWindow

LEMMA SkipFallbackCursor ==
  ASSUME IInv, IInv', TaskInv, NEW count \in 0 .. MaxInt, SkipFallback(count)
  PROVE  (Cursor!Skip(count) \/ Cursor!Fails) /\ TaskInv'
<1> USE CodedAssumption
<1>1. PICK beyond, untilLimit :
        beyond = count - BufferSize /\ untilLimit = ClosestLimit - totalBytesRead
  OBVIOUS
<1>2. /\ open # "closed" /\ todo = Idle /\ UNCHANGED limits /\ StreamUnchanged
      /\ UNCHANGED <<currentLimit, totalBytesLimit, open, origin>> /\ beyond > 0
  BY <1>1 DEF SkipFallback, Ready, StreamUnchanged, limits
<1>3. /\ ClosestLimit = IF currentLimit <= totalBytesLimit THEN currentLimit ELSE totalBytesLimit
      /\ AdaptorInv /\ WindowType /\ CutAtLimit
  BY ClosestLimitIs DEF IInv, WindowInv
<1>4. beyond \in Nat \ {0} /\ untilLimit \in Int
  BY <1>1, <1>2, <1>3, UnderWay DEF WindowType
<1>5. ASSUME InputGoes, CurrentPosition' >= CurrentPosition, Fails(Idle),
             \/ CurrentPosition' >= currentLimit \/ CurrentPosition' >= totalBytesLimit
             \/ lost',
             lost' # lost => lost'
      PROVE  Cursor!Fails /\ TaskInv'
  <2>1. todo' = Idle /\ erred' = TRUE
    BY <1>5 DEF Fails
  <2>2. Cursor!Forward /\ Cursor!Quiet
    BY <1>2, <1>5, Moves
  <2>3. CurrentPosition' \in Nat
    BY DEF IInv, WindowInv, WindowType
  <2>4. ~Cursor!Allowed(CurrentPosition' + 1) \/ lost'
    BY <1>5, <2>3, Full
  <2>5. Cursor!Fails
    BY <1>2, <1>5, <2>1, <2>2, <2>4, IdleDoes, IdleNext DEF Cursor!Fails, Cursor!Ready, Idle
  <2> QED BY <1>2, <2>1, <2>5, Forgotten DEF Idle
<1>6. CASE /\ bufferSizeAfterLimit > 0
           /\ Advance(BufferSize) /\ Fails(Idle) /\ UNCHANGED <<adaptor, lost>>
  <2>1. BufferSize \in 0 .. BufferSize
    BY UnderWay
  <2>2. CurrentPosition' = CurrentPosition + BufferSize
    BY <1>2, <1>6, <2>1, UnderWay, AdvanceStep
  <2>3. CurrentPosition' = totalBytesRead - bufferSizeAfterLimit
    BY <1>3, <2>2, UnderWay DEF CurrentPosition, WindowType
  <2>4. CurrentPosition' >= currentLimit \/ CurrentPosition' >= totalBytesLimit
    BY <1>3, <1>6, <2>3 DEF CutAtLimit, WindowType
  <2>5. CurrentPosition' >= CurrentPosition
    BY <2>2, UnderWay
  <2> QED BY <1>5, <1>6, <2>4, <2>5, InputKept
<1>7. CASE /\ bufferSizeAfterLimit = 0 /\ untilLimit < beyond /\ Fails(Idle)
           /\ IF untilLimit > 0 THEN \E ok \in BOOLEAN : SkipInput(untilLimit, ok)
              ELSE /\ buffer' = 0 /\ bufferEnd' = 0
                   /\ UNCHANGED <<totalBytesRead, overflowBytes, bufferSizeAfterLimit>>
                   /\ UNCHANGED <<adaptor, lost>>
  <2>1. CASE untilLimit > 0
    <3>1. PICK skipped \in Nat \ {0} : skipped = untilLimit
      BY <1>4, <2>1
    <3>2. PICK ok \in BOOLEAN : SkipInput(skipped, ok)
      BY <1>7, <2>1, <3>1
    <3>3. InputGoes /\ lost' = (lost \/ ~ok) /\ CurrentPosition' = totalBytesRead + skipped
      BY <1>7, <3>2, SkipInputGoes
    <3>4. CurrentPosition' >= currentLimit \/ CurrentPosition' >= totalBytesLimit
      BY <1>1, <1>3, <3>1, <3>3 DEF WindowType
    <3>5. CurrentPosition' >= CurrentPosition
      BY <1>3, <1>7, <3>3 DEF WindowType, CurrentPosition, BufferSize
    <3>6. lost' # lost => lost'
      BY <1>3, <3>3 DEF WindowType
    <3> QED BY <1>5, <1>7, <3>3, <3>4, <3>5, <3>6
  <2>2. CASE ~ (untilLimit > 0)
    <3>1. CurrentPosition' = totalBytesRead
      BY <1>3, <1>7, <2>2 DEF WindowType, CurrentPosition, BufferSize
    <3>2. CurrentPosition' >= currentLimit \/ CurrentPosition' >= totalBytesLimit
      BY <1>1, <1>3, <2>2, <3>1 DEF WindowType
    <3>3. CurrentPosition' >= CurrentPosition
      BY <1>3, <1>7, <3>1 DEF WindowType, CurrentPosition, BufferSize
    <3> QED BY <1>5, <1>7, <2>2, <3>2, <3>3, InputKept
  <2> QED BY <2>1, <2>2
<1>8. CASE /\ bufferSizeAfterLimit = 0 /\ SkipInput(beyond, TRUE) /\ Done(Idle)
  <2>1. InputGoes /\ lost' = lost /\ CurrentPosition' = totalBytesRead + beyond
    BY <1>3, <1>4, <1>8, SkipInputGoes DEF WindowType
  <2>2. CurrentPosition' = CurrentPosition + count
    BY <1>1, <1>3, <1>8, <2>1 DEF WindowType, CurrentPosition, BufferSize
  <2>3. CurrentPosition' >= CurrentPosition
    BY <2>2, UnderWay
  <2>4. Cursor!Forward /\ Cursor!Quiet
    BY <1>2, <2>1, <2>3, Moves
  <2>5. todo' = Idle /\ UNCHANGED erred
    BY <1>8 DEF Done
  <2>6. Cursor!Skip(count)
    BY <1>2, <2>1, <2>2, <2>4, <2>5, IdleDoes, IdleNext DEF Cursor!Skip, Cursor!Ready, Idle
  <2> QED BY <1>2, <2>5, <2>6, Forgotten DEF Idle
<1>9. CASE /\ bufferSizeAfterLimit = 0 /\ SkipInput(beyond, FALSE) /\ Fails(Idle)
  <2>1. InputGoes /\ lost' /\ CurrentPosition' = totalBytesRead + beyond
    BY <1>4, <1>9, SkipInputGoes
  <2>2. CurrentPosition' >= CurrentPosition
    BY <1>1, <1>3, <1>4, <1>9, <2>1 DEF WindowType, CurrentPosition, BufferSize
  <2> QED BY <1>5, <1>9, <2>1, <2>2
<1> QED BY <1>1, <1>6, <1>7, <1>8, <1>9 DEF SkipFallback

LEMMA GetDirectBufferPointerCursor ==
  ASSUME IInv, IInv', TaskInv, GetDirectBufferPointer
  PROVE  (Cursor!Goes \/ Cursor!Fails) /\ TaskInv'
<1>1. /\ open # "closed" /\ todo = Idle
      /\ UNCHANGED <<limits, lost>> /\ StreamUnchanged /\ UNCHANGED <<open, origin>>
  BY DEF GetDirectBufferPointer, Ready, StreamUnchanged
<1>2. CASE /\ \/ BufferSize # 0 /\ UNCHANGED <<adaptor, window>>
              \/ BufferSize = 0 /\ RefreshSucceeds
           /\ Done([op |-> "direct"])
  <2>1. todo'.op = "direct" /\ UNCHANGED erred
    BY <1>2 DEF Done
  <2>2. Cursor!Forward /\ Cursor!Quiet /\ CurrentPosition' = CurrentPosition
    <3>1. CASE UNCHANGED <<adaptor, window>>
      <4>1. UNCHANGED CurrentPosition
        BY <3>1 DEF window, CurrentPosition, BufferSize
      <4>2. CurrentPosition' >= CurrentPosition
        BY <4>1, UnderWay
      <4> QED BY <1>1, <3>1, <4>1, <4>2, InputKept, Moves
    <3>2. CASE BufferSize = 0 /\ RefreshSucceeds
      BY <1>1, <3>2, RefreshMoves
    <3> QED BY <1>2, <3>1, <3>2
  <2>3. Cursor!Goes
    BY <1>1, <2>1, <2>2, IdleDoes, IdleNext DEF Cursor!Goes
  <2> QED BY <1>1, <2>1, <2>3, Forgotten
<1>3. CASE BufferSize = 0 /\ RefreshFails /\ Fails(Idle)
  <2>1. todo' = Idle /\ erred' = TRUE
    BY <1>3 DEF Fails
  <2>2. /\ Cursor!Forward /\ Cursor!Quiet
        /\ ~Cursor!Allowed(CurrentPosition' + 1) \/ CurrentPosition' = End' \/ lost'
    BY <1>1, <1>3, RefreshMoves
  <2>3. Cursor!Fails
    BY <1>1, <2>1, <2>2, IdleDoes, IdleNext DEF Cursor!Fails, Idle
  <2> QED BY <1>1, <2>1, <2>3, Forgotten DEF Idle
<1> QED BY <1>2, <1>3 DEF GetDirectBufferPointer

LEMMA DirectReturnsCursor ==
  ASSUME TaskInv, DirectReturns
  PROVE  UNCHANGED Cursor!vars /\ TaskInv'
<1>1. /\ todo.op = "direct" /\ todo' = Idle
      /\ UNCHANGED <<adaptor, window, limits, open, origin, erred, lost>>
  BY DEF DirectReturns, GoesOn, outcome, StreamUnchanged
<1>2. Doing = Idle
  BY <1>1, DoingIs DEF DoingOf
<1>3. Doing' = Idle
  BY <1>1, IdleNext DEF Idle
<1> QED BY <1>1, <1>2, <1>3, Unseen, Forgotten DEF Idle

\* However a varint is begun.
LEMMA BeginsVarint ==
  ASSUME IInv, IInv', TaskInv, open # "closed", todo = Idle, UNCHANGED <<limits, lost>>,
         StreamUnchanged, NEW push \in BOOLEAN, GoesOn(Varint(push)),
         \/ UNCHANGED <<adaptor, window>>
         \/ BufferSize = 0 /\ RefreshSucceeds
  PROVE  Cursor!ReadVarint(push) /\ TaskInv'
<1>1. todo' = [op |-> "varint", count |-> 0, push |-> push] /\ UNCHANGED erred
  BY DEF GoesOn, outcome, Varint
<1>2. Cursor!Forward /\ Cursor!Quiet /\ CurrentPosition' = CurrentPosition
  <2>1. CASE UNCHANGED <<adaptor, window>>
    <3>1. UNCHANGED CurrentPosition
      BY <2>1 DEF window, CurrentPosition, BufferSize
    <3>2. CurrentPosition' >= CurrentPosition
      BY <3>1, UnderWay
    <3> QED BY <2>1, <3>1, <3>2, InputKept, Moves
  <2>2. CASE BufferSize = 0 /\ RefreshSucceeds
    BY <2>2, RefreshMoves
  <2> QED BY <2>1, <2>2
<1>3. Doing' = [op |-> "varint", from |-> CurrentPosition, push |-> push]
  <2>1. PICK p \in Nat : p = CurrentPosition /\ p = CurrentPosition'
    BY <1>2, UnderWay
  <2>2. p - 0 = p
    OBVIOUS
  <2> QED BY <1>1, <2>1, <2>2, DoingBecomes DEF DoingOf
<1>4. Cursor!ReadVarint(push)
  BY <1>1, <1>2, <1>3, IdleDoes DEF Cursor!ReadVarint, Cursor!Ready
<1>5. TaskInv'
  BY <1>1 DEF TaskInv, StreamUnchanged
<1> QED BY <1>4, <1>5

LEMMA ReadVarintCursor ==
  ASSUME IInv, IInv', TaskInv, NEW push \in BOOLEAN, ReadVarint(push)
  PROVE  Cursor!ReadVarint(push) /\ TaskInv'
  BY BeginsVarint DEF ReadVarint, Ready

LEMMA ReadTagInWindowCursor ==
  ASSUME IInv, IInv', TaskInv, ReadTagInWindow
  PROVE  Cursor!ReadVarint(FALSE) /\ TaskInv'
  BY BeginsVarint DEF ReadTagInWindow, Ready

LEMMA ReadVarint64SlowCursor ==
  ASSUME IInv, TaskInv, ReadVarint64Slow
  PROVE  UNCHANGED Cursor!vars /\ TaskInv'
<1>1. PICK push \in BOOLEAN : todo = [op |-> "varint", count |-> 0, push |-> push]
  BY TodoShape DEF IInv, TodoInv, ReadVarint64Slow, TaskInv
<1>2. /\ todo' = [op |-> "byte", count |-> 0, push |-> push]
      /\ UNCHANGED <<adaptor, window, limits, open, origin, erred, lost>>
  BY <1>1 DEF ReadVarint64Slow, GoesOn, outcome, StreamUnchanged
<1>3. UNCHANGED CurrentPosition
  BY <1>2 DEF window, CurrentPosition, BufferSize
<1>4. Doing = [op |-> "varint", from |-> CurrentPosition - 0, push |-> push]
  BY <1>1, DoingIs DEF DoingOf
<1>5. Doing' = [op |-> "varint", from |-> CurrentPosition - 0, push |-> push]
  BY <1>2, <1>3, DoingBecomes DEF DoingOf
<1>6. TaskInv'
  BY <1>2 DEF TaskInv
<1> QED BY <1>2, <1>4, <1>5, <1>6, Unseen

LEMMA ReadTagFallbackCursor ==
  ASSUME IInv, IInv', TaskInv, ReadTagFallback
  PROVE  (UNCHANGED Cursor!vars \/ Cursor!Goes \/ Cursor!ReadVarint(FALSE)) /\ TaskInv'
<1>1. /\ open # "closed" /\ todo = Idle
      /\ UNCHANGED <<limits, lost>> /\ StreamUnchanged /\ UNCHANGED <<open, origin>>
  BY DEF ReadTagFallback, Ready, StreamUnchanged
<1>2. CASE GoesOn(Idle) /\ UNCHANGED <<adaptor, window>>
  <2>1. todo' = Idle /\ UNCHANGED erred
    BY <1>2 DEF GoesOn, outcome
  <2>2. Doing' = Doing
    BY <1>1, <2>1, IdleDoes, IdleNext DEF Idle
  <2> QED BY <1>1, <1>2, <2>1, <2>2, Unseen, Forgotten DEF Idle
<1>3. CASE BufferSize = 0 /\ RefreshFails /\ GoesOn(Idle)
  <2>1. todo' = Idle /\ UNCHANGED erred
    BY <1>3 DEF GoesOn, outcome
  <2>2. Cursor!Forward /\ Cursor!Quiet /\ CurrentPosition' = CurrentPosition
    BY <1>1, <1>3, RefreshMoves
  <2>3. Cursor!Goes
    BY <1>1, <2>1, <2>2, IdleDoes, IdleNext DEF Cursor!Goes, Idle
  <2> QED BY <1>1, <2>1, <2>3, Forgotten DEF Idle
<1>4. CASE /\ IF BufferSize = 0 THEN RefreshSucceeds ELSE UNCHANGED <<adaptor, window>>
           /\ GoesOn(Varint(FALSE))
  BY <1>1, <1>4, BeginsVarint
<1> QED BY <1>2, <1>3, <1>4 DEF ReadTagFallback

LEMMA ExpectAtEndCursor ==
  ASSUME TaskInv, ExpectAtEnd
  PROVE  UNCHANGED Cursor!vars /\ TaskInv'
<1>1. UNCHANGED <<adaptor, window, limits, open, origin, erred, lost, todo>> /\ todo = Idle
  BY DEF ExpectAtEnd, outcome, StreamUnchanged, Ready
<1>2. Doing' = Doing
  BY <1>1, IdleDoes, IdleNext DEF Idle
<1> QED BY <1>1, <1>2, Unseen, Forgotten DEF Idle

\* The varint at the start of the window ends with the first of its bytes that
\* ends one.
LEMMA VarintEnds ==
  ASSUME buffer \in Nat
  PROVE  /\ VarintSize \in 1 .. MaxVarint + 1
         /\ VarintSize <= MaxVarint => buffer + VarintSize - 1 \in Ends
         /\ \A k \in 1 .. MaxVarint : k < VarintSize => buffer + k - 1 \notin Ends
<1> USE CodedAssumption
<1> DEFINE S == {MaxVarint + 1} \cup {n \in 1 .. MaxVarint : buffer + n - 1 \in Ends}
<1>1. S \in SUBSET Nat /\ S # {}
  OBVIOUS
<1>2. Min(S) \in S /\ \A x \in S : Min(S) <= x
  <2> HIDE DEF S
  <2> QED BY <1>1, LeastOfNats
<1>3. VarintSize = Min(S)
  BY DEF VarintSize
<1>4. PICK m \in Nat : m = VarintSize /\ m \in S /\ \A x \in S : m <= x
  <2> HIDE DEF S
  <2> QED BY <1>1, <1>2, <1>3
<1>5. ASSUME NEW k \in 1 .. MaxVarint, k < m, buffer + k - 1 \in Ends PROVE FALSE
  <2>1. k \in S
    BY <1>5
  <2>2. m <= k
    <3> HIDE DEF S
    <3> QED BY <1>4, <2>1
  <2> QED BY <1>5, <2>2
<1>6. m \in 1 .. MaxVarint + 1 /\ (m <= MaxVarint => buffer + m - 1 \in Ends)
  BY <1>4
<1> QED BY <1>4, <1>5, <1>6

\* The byte that the cursor calls p + 1 is the one at buffer, if p is where the
\* stream is.
LEMMA EndsAtIs ==
  ASSUME TaskInv, open # "closed", IInv, NEW p \in Int
  PROVE  Cursor!EndsAt(p) <=> origin + p - 1 \in Ends
<1>1. CASE open = "stream"
  BY <1>1 DEF Cursor!EndsAt
<1>2. CASE open = "flat"
  BY <1>2 DEF Cursor!EndsAt, TaskInv
<1> QED BY <1>1, <1>2 DEF IInv, WindowInv, WindowType

LEMMA AfterIs ==
  ASSUME NEW push \in BOOLEAN, todo.op \in {"varint", "byte"}, todo.push = push
  PROVE  /\ Cursor!After(FALSE) = AfterVarint /\ Cursor!After(TRUE) = AfterNoVarint
         /\ AfterVarint.op \in {"idle", "push"} /\ AfterNoVarint.op \in {"idle", "push"}
<1>1. Doing.op = "varint" /\ Doing.push = push
  BY DoingIs DEF DoingOf
<1>2. CASE push
  BY <1>1, <1>2 DEF Cursor!After, AfterVarint, AfterNoVarint
<1>3. CASE ~push
  BY <1>1, <1>3 DEF Cursor!After, AfterVarint, AfterNoVarint, Cursor!Idle, Idle
<1> QED BY <1>2, <1>3

\* What is done after a varint is the same for the cursor.
LEMMA AfterNext ==
  ASSUME todo' = AfterVarint \/ todo' = AfterNoVarint
  PROVE  Doing' = todo'
<1>1. CASE todo' = Idle
  BY <1>1, IdleNext DEF Idle
<1>2. CASE todo'.op = "push"
  BY <1>2, DoingBecomes DEF DoingOf
<1> QED BY <1>1, <1>2 DEF AfterVarint, AfterNoVarint

LEMMA VarintFromArrayCursor ==
  ASSUME IInv, IInv', TaskInv, VarintFromArray
  PROVE  (Cursor!Succeeds \/ Cursor!Fails) /\ TaskInv'
<1> USE CodedAssumption
<1>1. PICK push \in BOOLEAN : todo = [op |-> "varint", count |-> 0, push |-> push]
  BY TodoShape DEF IInv, TodoInv, VarintFromArray, TaskInv
<1>2. /\ open # "closed" /\ UNCHANGED <<limits, lost, adaptor>> /\ StreamUnchanged
      /\ UNCHANGED <<currentLimit, totalBytesLimit, open, origin>>
  BY <1>1, UnderWay DEF VarintFromArray, Idle, StreamUnchanged, limits
<1>3. PICK p \in Nat : p = CurrentPosition
  BY UnderWay
<1>4. Doing = [op |-> "varint", from |-> p, push |-> push]
  <2>1. CurrentPosition - 0 = p
    BY <1>3
  <2> QED BY <1>1, <2>1, DoingIs DEF DoingOf
<1>5. /\ Cursor!After(FALSE) = AfterVarint /\ Cursor!After(TRUE) = AfterNoVarint
      /\ AfterVarint.op \in {"idle", "push"} /\ AfterNoVarint.op \in {"idle", "push"}
  BY <1>1, AfterIs
<1>6. WindowType /\ BufferInPlace
  BY DEF IInv, WindowInv
<1>7. PICK n \in 1 .. MaxVarint + 1 :
        /\ n = VarintSize
        /\ n <= MaxVarint => buffer + n - 1 \in Ends
        /\ \A k \in 1 .. MaxVarint : k < n => buffer + k - 1 \notin Ends
  BY <1>6, VarintEnds DEF WindowType
<1>8. ~lost => buffer = origin + p
  <2>1. BufferSize > 0
    BY <1>6, UnderWay DEF VarintFromArray, OneByte, InWindow
  <2> QED BY <1>3, <1>6, <2>1 DEF BufferInPlace, WindowType, BufferSize
<1>9. ASSUME ~lost, NEW k \in 1 .. MaxVarint
      PROVE  Cursor!EndsAt(p + k) <=> buffer + k - 1 \in Ends
  <2>1. Cursor!EndsAt(p + k) <=> origin + (p + k) - 1 \in Ends
    BY <1>2, EndsAtIs
  <2>2. origin + (p + k) - 1 = buffer + k - 1
    BY <1>6, <1>8, <1>9 DEF WindowType
  <2> QED BY <2>1, <2>2
<1>10. CASE n <= MaxVarint /\ Advance(n) /\ Done(AfterVarint)
  <2>1. todo' = AfterVarint /\ UNCHANGED erred
    BY <1>10 DEF Done
  <2>2. n \in 0 .. BufferSize
    BY <1>6, <1>7, <1>10, VarintFits, UnderWay DEF VarintFromArray, WindowType
  <2>3. CurrentPosition' = p + n
    BY <1>2, <1>3, <1>10, <2>2, UnderWay, AdvanceStep
  <2>4. Cursor!Forward /\ Cursor!Quiet
    BY <1>2, <1>3, <2>3, InputKept, Moves
  <2>5. n \in 1 .. MaxVarint
    BY <1>10
  <2>6. lost \/ Cursor!VarintHas(p, n)
    <3>1. SUFFICES ASSUME ~lost PROVE Cursor!VarintHas(p, n)
      OBVIOUS
    <3>2. Cursor!EndsAt(p + n)
      BY <1>7, <1>9, <1>10, <2>5, <3>1
    <3>3. ASSUME NEW k \in 1 .. n - 1 PROVE ~Cursor!EndsAt(p + k)
      <4>1. k \in 1 .. MaxVarint /\ k < n
        BY <2>5
      <4> QED BY <1>7, <1>9, <3>1, <4>1
    <3> QED BY <3>2, <3>3 DEF Cursor!VarintHas
  <2>7. Cursor!Succeeds
    BY <1>2, <1>4, <1>5, <2>1, <2>3, <2>4, <2>5, <2>6, AfterNext DEF Cursor!Succeeds
  <2> QED BY <1>2, <1>5, <2>1, <2>7, Forgotten
<1>11. CASE n > MaxVarint /\ UNCHANGED window /\ Fails(AfterNoVarint)
  <2>1. todo' = AfterNoVarint /\ erred' = TRUE
    BY <1>11 DEF Fails
  <2>2. UNCHANGED CurrentPosition
    BY <1>11 DEF window, CurrentPosition, BufferSize
  <2>3. Cursor!Forward /\ Cursor!Quiet
    BY <1>2, <1>3, <2>2, InputKept, Moves
  <2>4. lost \/ Cursor!TooLong(p)
    <3>1. SUFFICES ASSUME ~lost PROVE Cursor!TooLong(p)
      OBVIOUS
    <3>2. ASSUME NEW k \in 1 .. MaxVarint PROVE ~Cursor!EndsAt(p + k)
      <4>1. k < n
        BY <1>11
      <4> QED BY <1>7, <1>9, <3>1, <4>1
    <3> QED BY <3>2 DEF Cursor!TooLong
  <2>5. Cursor!Fails
    BY <1>2, <1>4, <1>5, <2>1, <2>3, <2>4, AfterNext DEF Cursor!Fails
  <2> QED BY <1>2, <1>5, <2>1, <2>5, Forgotten
<1> QED BY <1>7, <1>10, <1>11 DEF VarintFromArray

LEMMA VarintByteCursor ==
  ASSUME IInv, IInv', TaskInv, VarintByte
  PROVE  (Cursor!Goes \/ Cursor!Succeeds \/ Cursor!Fails) /\ TaskInv'
<1> USE CodedAssumption
<1>1. PICK n \in 0 .. MaxVarint, push \in BOOLEAN :
        todo = [op |-> "byte", count |-> n, push |-> push]
  BY TodoShape DEF IInv, TodoInv, VarintByte
<1>2. /\ open # "closed" /\ UNCHANGED <<limits, lost>> /\ StreamUnchanged
      /\ UNCHANGED <<currentLimit, totalBytesLimit, open, origin>>
  BY <1>1, UnderWay DEF VarintByte, Idle, StreamUnchanged, limits
<1>3. PICK p \in Nat, from \in Int : p = CurrentPosition /\ from = p - n
  BY UnderWay
<1>4. Doing = [op |-> "varint", from |-> from, push |-> push]
  BY <1>1, <1>3, DoingIs DEF DoingOf
<1>5. /\ Cursor!After(FALSE) = AfterVarint /\ Cursor!After(TRUE) = AfterNoVarint
      /\ AfterVarint.op \in {"idle", "push"} /\ AfterNoVarint.op \in {"idle", "push"}
  BY <1>1, AfterIs
<1>6. WindowType /\ BufferInPlace
  BY DEF IInv, WindowInv
<1>7. ASSUME ~lost, NEW k \in 1 .. n
      PROVE  ~Cursor!EndsAt(from + k) /\ origin + from + k - 1 \notin Ends
  <2>1. origin + (CurrentPosition - n) + k - 1 \notin Ends
    BY <1>1, <1>7 DEF TaskInv
  <2>2. origin + (CurrentPosition - n) + k - 1 = origin + (from + k) - 1
    BY <1>3, <1>6 DEF WindowType
  <2>3. Cursor!EndsAt(from + k) <=> origin + (from + k) - 1 \in Ends
    BY <1>2, EndsAtIs
  <2>4. origin + (from + k) - 1 = origin + from + k - 1
    BY <1>6 DEF WindowType
  <2> QED BY <2>1, <2>2, <2>3, <2>4
<1>8. ASSUME Fails(AfterNoVarint), Cursor!Forward, Cursor!Quiet,
             \/ ~Cursor!Allowed(CurrentPosition' + 1) \/ CurrentPosition' = End' \/ lost'
             \/ Cursor!TooLong(from)
      PROVE  Cursor!Fails /\ TaskInv'
  <2>1. todo' = AfterNoVarint /\ erred' = TRUE
    BY <1>8 DEF Fails
  <2>2. Cursor!Fails
    BY <1>2, <1>4, <1>5, <1>8, <2>1, AfterNext DEF Cursor!Fails
  <2> QED BY <1>2, <1>5, <2>1, <2>2, Forgotten
<1>9. CASE n = MaxVarint /\ Fails(AfterNoVarint) /\ UNCHANGED <<adaptor, window>>
  <2>1. UNCHANGED CurrentPosition
    BY <1>9 DEF window, CurrentPosition, BufferSize
  <2>2. Cursor!Forward /\ Cursor!Quiet
    BY <1>2, <1>3, <1>9, <2>1, InputKept, Moves
  <2>3. lost' \/ Cursor!TooLong(from)
    BY <1>2, <1>7, <1>9 DEF Cursor!TooLong
  <2> QED BY <1>8, <1>9, <2>2, <2>3
<1>10. CASE BufferSize = 0 /\ RefreshSucceeds /\ GoesOn(todo)
  <2>1. Cursor!Forward /\ Cursor!Quiet /\ CurrentPosition' = CurrentPosition
    BY <1>2, <1>10, RefreshMoves
  <2>2. todo' = todo /\ UNCHANGED erred
    BY <1>10 DEF GoesOn, outcome
  <2>3. Doing' = Doing
    BY <1>1, <2>1, <2>2, DoingIs, DoingBecomes DEF DoingOf
  <2>4. CurrentPosition' <= from + MaxVarint
    BY <1>3, <2>1
  <2>5. Cursor!Goes
    BY <1>2, <1>4, <2>1, <2>2, <2>3, <2>4 DEF Cursor!Goes
  <2>6. TaskInv'
    BY <1>1, <1>2, <2>1, <2>2 DEF TaskInv
  <2> QED BY <2>5, <2>6
<1>11. CASE BufferSize = 0 /\ RefreshFails /\ Fails(AfterNoVarint)
  <2>1. /\ Cursor!Forward /\ Cursor!Quiet
        /\ ~Cursor!Allowed(CurrentPosition' + 1) \/ CurrentPosition' = End' \/ lost'
    BY <1>2, <1>11, RefreshMoves
  <2> QED BY <1>8, <1>11, <2>1
<1>12. CASE /\ n < MaxVarint /\ BufferSize > 0 /\ Advance(1) /\ UNCHANGED adaptor
            /\ IF buffer \in Ends THEN Done(AfterVarint)
               ELSE GoesOn([todo EXCEPT !.count = @ + 1])
  <2>1. 1 \in 0 .. BufferSize
    BY <1>12, UnderWay
  <2>2. CurrentPosition' = p + 1
    BY <1>2, <1>3, <1>12, <2>1, UnderWay, AdvanceStep
  <2>3. Cursor!Forward /\ Cursor!Quiet
    BY <1>2, <1>3, <1>12, <2>2, InputKept, Moves
  <2>4. PICK m \in 1 .. MaxVarint : m = n + 1 /\ from + m = p + 1
    BY <1>3, <1>12
  <2>5. ~lost => buffer = origin + from + m - 1
    BY <1>3, <1>6, <1>12, <2>4 DEF BufferInPlace, WindowType, BufferSize
  <2>6. CASE buffer \in Ends
    <3>1. todo' = AfterVarint /\ UNCHANGED erred
      BY <1>12, <2>6 DEF Done
    <3>2. lost \/ Cursor!VarintHas(from, m)
      <4>1. SUFFICES ASSUME ~lost PROVE Cursor!VarintHas(from, m)
        OBVIOUS
      <4>2. Cursor!EndsAt(from + m)
        <5>1. Cursor!EndsAt(from + m) <=> origin + (from + m) - 1 \in Ends
          BY <1>2, EndsAtIs
        <5>2. origin + (from + m) - 1 = buffer
          BY <1>6, <2>5, <4>1 DEF WindowType
        <5> QED BY <2>6, <5>1, <5>2
      <4>3. ASSUME NEW k \in 1 .. m - 1 PROVE ~Cursor!EndsAt(from + k)
        <5>1. k \in 1 .. n
          BY <2>4
        <5> QED BY <1>7, <4>1, <5>1
      <4> QED BY <4>2, <4>3 DEF Cursor!VarintHas
    <3>3. CurrentPosition' = from + m
      BY <2>2, <2>4
    <3>4. Cursor!Succeeds
      BY <1>2, <1>4, <1>5, <2>3, <3>1, <3>2, <3>3, AfterNext DEF Cursor!Succeeds
    <3> QED BY <1>2, <1>5, <3>1, <3>4, Forgotten
  <2>7. CASE buffer \notin Ends
    <3>1. todo' = [op |-> "byte", count |-> m, push |-> push] /\ UNCHANGED erred
      BY <1>1, <1>12, <2>4, <2>7 DEF GoesOn, outcome
    <3>2. CurrentPosition' - m = from
      BY <2>2, <2>4
    <3>3. Doing' = Doing
      BY <1>4, <3>1, <3>2, DoingBecomes DEF DoingOf
    <3>4. CurrentPosition' <= from + MaxVarint
      BY <2>2, <2>4
    <3>5. Cursor!Goes
      BY <1>2, <1>4, <2>3, <3>1, <3>3, <3>4 DEF Cursor!Goes
    <3>6. TaskInv'
      <4>1. ASSUME ~lost, NEW k \in 1 .. m PROVE origin + from + k - 1 \notin Ends
        <5>1. CASE k \in 1 .. n
          BY <1>7, <4>1, <5>1
        <5>2. CASE k = m
          BY <2>5, <2>7, <4>1, <5>2
        <5> QED BY <2>4, <5>1, <5>2
      <4>2. ASSUME ~lost', NEW k \in 1 .. m
            PROVE  origin' + (CurrentPosition' - m) + k - 1 \notin Ends
        BY <1>2, <3>2, <4>1, <4>2
      <4> QED BY <1>2, <3>1, <4>2 DEF TaskInv
    <3> QED BY <3>5, <3>6
  <2> QED BY <2>6, <2>7
<1> QED BY <1>1, <1>9, <1>10, <1>11, <1>12 DEF VarintByte

LEMMA SeqIsFunction ==
  ASSUME NEW S, NEW s \in Seq(S), NEW n \in Nat, Len(s) = n
  PROVE  s = [k \in 1 .. n |-> s[k]]
<1>1. s \in [1 .. n -> S]
  OBVIOUS
<1> QED BY <1>1

LEMMA FrontOfSeq ==
  ASSUME NEW S, NEW s \in Seq(S), NEW n \in Nat, Len(s) = n + 1
  PROVE  /\ SubSeq(s, 1, n) \in Seq(S) /\ Len(SubSeq(s, 1, n)) = n
         /\ \A k \in 1 .. n : SubSeq(s, 1, n)[k] = s[k]
<1>1. SubSeq(s, 1, n) \in Seq(S) /\ Len(SubSeq(s, 1, n)) = n
  OBVIOUS
<1>2. \A k \in 1 .. n : SubSeq(s, 1, n)[k] = s[k]
  OBVIOUS
<1> QED BY <1>1, <1>2

LEMMA AskedPushed ==
  ASSUME StackInv, NEW old \in 0 .. MaxInt, NEW a \in 0 .. MaxInt,
         stack' = Append(stack, [old |-> old, asked |-> a])
  PROVE  Asked' = Append(Asked, a)
<1> DEFINE e == [old |-> old, asked |-> a]
           Limit == [old : 0 .. MaxInt, asked : 0 .. MaxInt]
<1>1. PICK n \in Nat : n = Len(stack) /\ stack \in Seq(Limit)
  BY DEF StackInv
<1>2. e \in Limit
  OBVIOUS
<1>3. /\ DOMAIN stack' = 1 .. n + 1 /\ stack'[n + 1] = e
      /\ \A k \in 1 .. n : stack'[k] = stack[k]
  <2> HIDE DEF Limit, e
  <2>1. stack' = Append(stack, e)
    BY DEF e
  <2> QED BY <1>1, <1>2, <2>1
<1>4. /\ Asked \in Seq(0 .. MaxInt) /\ Len(Asked) = n
      /\ \A k \in 1 .. n : Asked[k] = stack[k].asked
  BY <1>1, AskedIs
<1>5. /\ Append(Asked, a) \in Seq(0 .. MaxInt) /\ Len(Append(Asked, a)) = n + 1
      /\ Append(Asked, a)[n + 1] = a
      /\ \A k \in 1 .. n : Append(Asked, a)[k] = Asked[k]
  BY <1>4
<1>6. Asked' = [k \in 1 .. n + 1 |-> stack'[k].asked]
  BY <1>3 DEF Asked
<1>7. ASSUME NEW k \in 1 .. n + 1 PROVE stack'[k].asked = Append(Asked, a)[k]
  <2>1. CASE k = n + 1
    BY <1>3, <1>5, <2>1
  <2>2. CASE k # n + 1
    <3>1. k \in 1 .. n
      BY <2>2
    <3> QED BY <1>3, <1>4, <1>5, <3>1
  <2> QED BY <2>1, <2>2
<1>8. Append(Asked, a) = [k \in 1 .. n + 1 |-> Append(Asked, a)[k]]
  <2>1. n + 1 \in Nat
    OBVIOUS
  <2> QED BY <1>5, <2>1, SeqIsFunction
<1> QED BY <1>6, <1>7, <1>8

LEMMA AskedPopped ==
  ASSUME StackInv, stack # <<>>, stack' = Front(stack)
  PROVE  Asked # <<>> /\ Asked' = SubSeq(Asked, 1, Len(Asked) - 1)
<1> DEFINE Limit == [old : 0 .. MaxInt, asked : 0 .. MaxInt]
<1>1. stack \in Seq(Limit)
  BY DEF StackInv
<1>2. PICK n \in Nat : /\ Len(stack) = n + 1 /\ DOMAIN stack' = 1 .. n
                       /\ \A k \in 1 .. n : stack'[k] = stack[k]
  <2> HIDE DEF Limit
  <2>1. PICK n \in Nat : Len(stack) = n + 1
    <3>1. Len(stack) \in Nat /\ Len(stack) # 0
      BY <1>1
    <3>2. PICK n \in Nat : n = Len(stack) - 1
      BY <3>1
    <3> QED BY <3>1, <3>2
  <2>2. stack' = SubSeq(stack, 1, n)
    BY <2>1 DEF Front
  <2>3. SubSeq(stack, 1, n) \in Seq(Limit) /\ Len(SubSeq(stack, 1, n)) = n
    BY <1>1, <2>1
  <2>4. \A j \in 1 .. n : SubSeq(stack, 1, n)[j] = stack[j]
    BY <1>1, <2>1
  <2>5. DOMAIN SubSeq(stack, 1, n) = 1 .. n
    BY <2>3
  <2> QED BY <2>1, <2>2, <2>4, <2>5
<1>3. /\ Asked \in Seq(0 .. MaxInt) /\ Len(Asked) = n + 1
      /\ \A k \in 1 .. n + 1 : Asked[k] = stack[k].asked
  BY <1>2, AskedIs
<1>4. Asked # <<>> /\ Len(Asked) - 1 = n
  BY <1>3
<1>5. /\ SubSeq(Asked, 1, n) \in Seq(0 .. MaxInt) /\ Len(SubSeq(Asked, 1, n)) = n
      /\ \A k \in 1 .. n : SubSeq(Asked, 1, n)[k] = Asked[k]
  BY <1>3, FrontOfSeq
<1>6. Asked' = [k \in 1 .. n |-> stack'[k].asked]
  BY <1>2 DEF Asked
<1>7. ASSUME NEW k \in 1 .. n PROVE stack'[k].asked = SubSeq(Asked, 1, n)[k]
  BY <1>2, <1>3, <1>5
<1>8. SubSeq(Asked, 1, n) = [k \in 1 .. n |-> SubSeq(Asked, 1, n)[k]]
  BY <1>5, SeqIsFunction
<1> QED BY <1>4, <1>6, <1>7, <1>8

\* What setting and lifting limits leaves of the cursor.
LEMMA LimitsCursor ==
  ASSUME UNCHANGED <<adaptor, open, origin, lost>>
  PROVE  UNCHANGED <<End, IF open = "stream" THEN origin ELSE ByteCount>>
<1>1. UNCHANGED <<ByteCount, Exhausted>>
  BY DEF adaptor, ByteCount, Exhausted
<1> QED BY <1>1 DEF End, Unknown

\* The window is cut elsewhere; its start is where it was.
LEMMA LimitsMove ==
  ASSUME IInv, NEW c, NEW l, LimitsChange(c, l), c \in Int, l \in Int
  PROVE  UNCHANGED CurrentPosition
<1>1. WindowType /\ UNCHANGED <<buffer, totalBytesRead>>
  BY DEF IInv, WindowInv, LimitsChange
<1>2. PICK beyond \in Nat :
        bufferSizeAfterLimit' = beyond /\ bufferEnd' = bufferEnd + bufferSizeAfterLimit - beyond
  BY <1>1, CodedAssumption, Recomputed DEF LimitsChange, WindowType
<1> QED BY <1>1, <1>2, CodedAssumption DEF WindowType, CurrentPosition, BufferSize

LEMMA PushLimitCursor ==
  ASSUME IInv, NEW length \in Lengths, PushLimit(length), StreamUnchanged,
         UNCHANGED <<adaptor, lost, erred>>, open # "closed", Doing' = Idle,
         \/ Doing = Idle
         \/ Doing.op = "push" /\ (Doing.failed => length = 0)
  PROVE  \E p \in 0 .. MaxInt : Cursor!PushLimit(p)
<1> USE CodedAssumption
<1> DEFINE asked == IF Legal(length) THEN CurrentPosition + length ELSE MaxInt
<1>1. PICK at \in Nat, c \in 0 .. MaxInt :
        at = CurrentPosition /\ c = currentLimit /\ at <= c /\ UNCHANGED CurrentPosition
  <2>1. UNCHANGED CurrentPosition
    BY PushLimitStep
  <2>2. currentLimit \in 0 .. MaxInt
    BY DEF IInv, WindowInv, WindowType
  <2> QED BY <2>1, <2>2, PositionIs DEF WellPlaced
<1>2. PICK a \in 0 .. MaxInt : a = asked /\ at <= a /\ (length = 0 => a = at)
  BY <1>1 DEF Legal, Lengths
<1>3. stack' = Append(stack, [old |-> c, asked |-> a])
  BY <1>1, <1>2 DEF PushLimit
<1>4. Asked' = Append(Asked, a)
  BY <1>1, <1>2, <1>3, AskedPushed DEF IInv
<1>5. UNCHANGED totalBytesLimit
  <2>1. CASE Pushed(length) # currentLimit
    <3>1. LimitsChange(Pushed(length), totalBytesLimit)
      BY <2>1, Zenon DEF PushLimit
    <3> QED BY <3>1 DEF LimitsChange
  <2>2. CASE Pushed(length) = currentLimit
    BY <2>2 DEF PushLimit
  <2> QED BY <2>1, <2>2
<1>6. UNCHANGED <<End, IF open = "stream" THEN origin ELSE ByteCount>> /\ UNCHANGED open
  BY LimitsCursor DEF StreamUnchanged
<1>7. [k \in DOMAIN stack |-> stack[k].asked]' = Append([k \in DOMAIN stack |-> stack[k].asked], a)
  BY <1>4 DEF Asked
<1>8. Cursor!PushLimit(a)
  <2>1. CurrentPosition <= a /\ a <= MaxInt /\ (length = 0 => a = CurrentPosition)
    BY <1>1, <1>2
  <2> HIDE DEF asked
  <2> QED BY <1>1, <1>5, <1>6, <1>7, <2>1 DEF Cursor!PushLimit, Cursor!Idle, Idle
<1> QED BY <1>8

LEMMA PushCursor ==
  ASSUME IInv, TaskInv, NEW length \in Lengths, Push(length)
  PROVE  (\E p \in 0 .. MaxInt : Cursor!PushLimit(p)) /\ TaskInv'
<1>1. /\ open # "closed" /\ todo = Idle /\ todo' = Idle /\ PushLimit(length) /\ StreamUnchanged
      /\ UNCHANGED <<adaptor, lost, erred, open, origin>>
  BY DEF Push, Ready, outcome, StreamUnchanged
<1>2. Doing = Idle /\ Doing' = Idle
  BY <1>1, IdleDoes, IdleNext DEF Idle
<1> QED BY <1>1, <1>2, PushLimitCursor, Forgotten DEF Idle

LEMMA PushLengthCursor ==
  ASSUME IInv, TaskInv, NEW length \in Lengths, PushLength(length)
  PROVE  (\E p \in 0 .. MaxInt : Cursor!PushLimit(p)) /\ TaskInv'
<1>1. PICK f \in BOOLEAN : todo = [op |-> "push", failed |-> f]
  BY TodoShape DEF IInv, TodoInv, PushLength
<1>2. /\ open # "closed" /\ StreamUnchanged /\ todo' = Idle
      /\ UNCHANGED <<adaptor, lost, erred, open, origin>>
  BY <1>1, UnderWay DEF PushLength, GoesOn, outcome, Idle, StreamUnchanged
<1>3. PICK n \in Lengths : PushLimit(n) /\ (f => n = 0)
  <2>1. 0 \in Lengths
    BY CodedAssumption DEF Lengths
  <2>2. PushLimit(IF f THEN 0 ELSE length)
    BY <1>1 DEF PushLength
  <2>3. CASE f
    BY <2>1, <2>2, <2>3
  <2>4. CASE ~f
    BY <2>2, <2>4
  <2> QED BY <2>3, <2>4
<1>4. Doing = [op |-> "push", failed |-> f]
  BY <1>1, DoingIs DEF DoingOf
<1>5. Doing' = Idle
  BY <1>2, IdleNext DEF Idle
<1> QED BY <1>2, <1>3, <1>4, <1>5, PushLimitCursor, Forgotten DEF Idle

LEMMA PopLimitCursor ==
  ASSUME IInv, TaskInv, PopLimit
  PROVE  Cursor!PopLimit /\ TaskInv'
<1>1. /\ open # "closed" /\ todo = Idle /\ todo' = Idle
      /\ UNCHANGED <<adaptor, open, origin, lost, erred>>
      /\ LimitsChange(Last(stack).old, totalBytesLimit)
      /\ stack # <<>> /\ stack' = Front(stack)
  BY DEF PopLimit, Ready, StreamUnchanged, outcome
<1>2. Asked # <<>> /\ Asked' = SubSeq(Asked, 1, Len(Asked) - 1)
  BY <1>1, AskedPopped DEF IInv
<1>3. UNCHANGED <<End, IF open = "stream" THEN origin ELSE ByteCount>>
  BY <1>1, LimitsCursor
<1>4. Doing = Idle /\ Doing' = Idle
  BY <1>1, IdleDoes, IdleNext DEF Idle
<1>5. UNCHANGED <<CurrentPosition, totalBytesLimit>>
  <2>1. totalBytesLimit' = totalBytesLimit
    BY <1>1 DEF LimitsChange
  <2>2. Last(stack).old \in Int /\ totalBytesLimit \in Int
    <3>1. currentLimit' = Last(stack).old
      BY <1>1 DEF LimitsChange
    <3>2. currentLimit' \in 0 .. MaxInt
      BY <1>1, <3>1, StackPopped DEF IInv
    <3> QED BY <3>1, <3>2, CodedAssumption DEF IInv, WindowInv, WindowType
  <2>3. PICK c \in Int, l \in Int : c = Last(stack).old /\ l = totalBytesLimit
    BY <2>2
  <2>4. UNCHANGED CurrentPosition
    BY <1>1, <2>3, LimitsMove
  <2> QED BY <2>1, <2>4
<1>6. Cursor!PopLimit
  BY <1>1, <1>2, <1>3, <1>4, <1>5 DEF Cursor!PopLimit, Cursor!Ready, Cursor!Idle, Idle, Asked
<1> QED BY <1>1, <1>6, Forgotten DEF Idle

LEMMA SetTotalBytesLimitCursor ==
  ASSUME IInv, TaskInv, NEW limit \in Lengths, SetTotalBytesLimit(limit)
  PROVE  Cursor!SetTotalBytesLimit /\ TaskInv'
<1>1. /\ open # "closed" /\ todo = Idle /\ todo' = Idle
      /\ UNCHANGED <<adaptor, open, origin, lost, erred, stack>>
      /\ LimitsChange(currentLimit, Max({CurrentPosition, limit}))
  BY DEF SetTotalBytesLimit, Ready, StreamUnchanged, outcome
<1>2. UNCHANGED <<End, IF open = "stream" THEN origin ELSE ByteCount>>
  BY <1>1, LimitsCursor
<1>3. Doing = Idle /\ Doing' = Idle
  BY <1>1, IdleDoes, IdleNext DEF Idle
<1>4. PICK at \in Nat, l \in Int, c \in Int :
        /\ at = CurrentPosition /\ c = currentLimit
        /\ l = Max({CurrentPosition, limit}) /\ at <= l
  <2>1. limit \in Int
    BY CodedAssumption DEF Lengths
  <2>2. PICK at \in Nat : at = CurrentPosition
    BY UnderWay
  <2>3. Max({at, limit}) = IF at >= limit THEN at ELSE limit
    BY <2>1, MaxOfTwo
  <2>4. currentLimit \in Int
    BY CodedAssumption DEF IInv, WindowInv, WindowType
  <2> QED BY <2>1, <2>2, <2>3, <2>4
<1>5. UNCHANGED CurrentPosition /\ CurrentPosition <= totalBytesLimit'
  <2>1. LimitsChange(c, l)
    BY <1>1, <1>4
  <2>2. UNCHANGED CurrentPosition
    BY <2>1, LimitsMove
  <2>3. totalBytesLimit' = l
    BY <2>1 DEF LimitsChange
  <2> QED BY <1>4, <2>2, <2>3
<1>6. UNCHANGED [k \in DOMAIN stack |-> stack[k].asked]
  BY <1>1
<1>7. Cursor!SetTotalBytesLimit
  BY <1>1, <1>2, <1>3, <1>5, <1>6 DEF Cursor!SetTotalBytesLimit, Cursor!Ready, Cursor!Idle, Idle
<1> QED BY <1>1, <1>7, Forgotten DEF Idle

LEMMA OpenCursor ==
  ASSUME IInv, IInv', TaskInv, OpenStream \/ OpenFlat
  PROVE  Cursor!Open /\ TaskInv'
<1> USE CodedAssumption
<1>1. /\ open = "closed" /\ open' \in {"stream", "flat"}
      /\ UNCHANGED <<totalBytesLimit, stack, todo, erred, lost>>
      /\ IF open' = "stream" THEN origin' = ByteCount ELSE origin' = origin /\ UNCHANGED ByteCount
  BY DEF OpenStream, OpenFlat, limits, outcome, adaptor, ByteCount
<1>2. /\ todo = Idle /\ buffer = 0 /\ bufferEnd = 0 /\ bufferSizeAfterLimit = 0
      /\ totalBytesRead = 0 /\ overflowBytes = 0 /\ origin = 0
      /\ currentLimit = MaxInt /\ totalBytesLimit = MaxInt
  BY <1>1 DEF IInv, ClosedInv
<1>3. BufferSize = 0 /\ CurrentPosition = 0 /\ WindowInv
  BY <1>2 DEF BufferSize, CurrentPosition, IInv
<1>4. CurrentPosition' = 0
  <2>1. CASE OpenStream
    <3>1. InputStays /\ UNCHANGED <<currentLimit, totalBytesLimit, lost>>
      BY <1>2, <2>1 DEF InputStays, OpenStream, limits
    <3>2. CASE RefreshSucceeds
      BY <1>3, <3>1, <3>2, RefreshStep
    <3>3. CASE RefreshFails
      BY <1>3, <3>1, <3>3, RefreshFailsStep
    <3> QED BY <2>1, <3>2, <3>3 DEF OpenStream
  <2>2. CASE OpenFlat
    <3>1. /\ totalBytesRead' = FlatSize /\ bufferEnd' = FlatSize
          /\ buffer' = 0 /\ bufferSizeAfterLimit' = 0
      BY <1>2, <2>2 DEF OpenFlat
    <3> QED BY <3>1 DEF CurrentPosition, BufferSize
  <2> QED BY <2>1, <2>2
<1>5. UNCHANGED (IF open = "stream" THEN origin ELSE ByteCount)
  BY <1>1
<1>6. UNCHANGED [k \in DOMAIN stack |-> stack[k].asked] /\ UNCHANGED Doing
  <2>1. Doing = Idle /\ Doing' = Idle
    BY <1>1, <1>2, IdleDoes, IdleNext DEF Idle
  <2> QED BY <1>1, <2>1
<1>7. Cursor!Forward
  <2>1. Cursor!Allowed(0)
    BY <1>2, AllowedIs
  <2>2. WellPlaced'
    BY PositionIs, PTL
  <2>3. End = Unknown /\ Unknown' = Unknown
    BY <1>1 DEF End, Unknown
  <2> QED BY <1>3, <1>4, <2>1, <2>2, <2>3 DEF Cursor!Forward, WellPlaced
<1>8. Cursor!Open
  BY <1>1, <1>3, <1>4, <1>5, <1>6, <1>7 DEF Cursor!Open
<1>9. TaskInv'
  BY <1>1, <1>2 DEF TaskInv, Idle
<1> QED BY <1>8, <1>9

LEMMA CloseCursor ==
  ASSUME IInv, TaskInv, Close
  PROVE  Cursor!Close /\ TaskInv'
<1>1. /\ open # "closed" /\ open' = "closed" /\ todo = Idle /\ todo' = Idle
      /\ buffer' = 0 /\ bufferEnd' = 0 /\ totalBytesRead' = 0 /\ bufferSizeAfterLimit' = 0
      /\ totalBytesLimit' = MaxInt /\ stack' = <<>> /\ erred' = FALSE /\ lost' = FALSE
  BY DEF Close
<1>2. CurrentPosition' = 0 /\ End' = Unknown'
  BY <1>1 DEF CurrentPosition, BufferSize, End
<1>3. [k \in DOMAIN stack |-> stack[k].asked]' = <<>>
  <2>1. [k \in DOMAIN stack |-> stack[k].asked]' = [k \in DOMAIN <<>> |-> stack'[k].asked]
    BY <1>1
  <2>2. DOMAIN <<>> = {}
    OBVIOUS
  <2> QED BY <2>1, <2>2
<1>4. Doing = Idle /\ Doing' = Idle
  BY <1>1, IdleDoes, IdleNext DEF Idle
<1>5. open = "stream" =>
        IF lost THEN ByteCount' \in origin .. origin + CurrentPosition
        ELSE ByteCount' = origin + CurrentPosition
  BY BackedUp
<1>6. open = "flat" => UNCHANGED ByteCount
  BY DEF Close, adaptor, ByteCount
<1>7. Unknown' = Unknown
  BY DEF Unknown
<1>8. Cursor!Close
  BY <1>1, <1>2, <1>3, <1>4, <1>5, <1>6, <1>7 DEF Cursor!Close, Cursor!Ready, Cursor!Idle, Idle
<1>9. TaskInv'
  BY <1>1 DEF TaskInv, Idle
<1> QED BY <1>8, <1>9

LEMMA InitCursor == Init => Cursor!Init /\ TaskInv
<1> SUFFICES ASSUME Init PROVE Cursor!Init /\ TaskInv
  OBVIOUS
<1>1. /\ open = "closed" /\ todo = Idle /\ erred = FALSE /\ lost = FALSE
      /\ totalBytesLimit = MaxInt /\ stack = <<>> /\ position = 0 /\ backupBytes = 0
      /\ buffer = 0 /\ bufferEnd = 0 /\ totalBytesRead = 0 /\ bufferSizeAfterLimit = 0
  BY DEF Init, AdaptorInit
<1>2. CurrentPosition = 0 /\ ByteCount = 0 /\ End = Unknown
  BY <1>1 DEF CurrentPosition, BufferSize, ByteCount, End
<1>3. [k \in DOMAIN stack |-> stack[k].asked] = <<>>
  BY <1>1
<1>4. Doing = Idle
  BY <1>1, IdleDoes
<1>5. Cursor!Init
  BY <1>1, <1>2, <1>3, <1>4 DEF Cursor!Init, Cursor!Idle, Idle
<1>6. TaskInv
  BY <1>1 DEF TaskInv, Idle
<1> QED BY <1>5, <1>6

LEMMA StepCursor ==
  ASSUME IInv, IInv', TaskInv, [Next]_vars
  PROVE  (Cursor!Next \/ UNCHANGED Cursor!vars) /\ TaskInv'
<1>0. ASSUME NEW n \in Lengths, Cursor!Read(n)
      PROVE  Cursor!Next
  BY <1>0 DEF Cursor!Next, Lengths
<1>1. ASSUME NEW n \in 0 .. MaxInt, Cursor!Skip(n) \/ Cursor!PushLimit(n)
      PROVE  Cursor!Next
  BY <1>1 DEF Cursor!Next
<1>2. ASSUME NEW push \in BOOLEAN, Cursor!ReadVarint(push)
      PROVE  Cursor!Next
  BY <1>2 DEF Cursor!Next
<1>3. ASSUME \/ Cursor!Open \/ Cursor!Close \/ Cursor!Goes \/ Cursor!Succeeds \/ Cursor!Fails
             \/ Cursor!PopLimit \/ Cursor!SetTotalBytesLimit
      PROVE  Cursor!Next
  BY <1>3 DEF Cursor!Next
<1>4. CASE OpenStream \/ OpenFlat \/ Close
  BY <1>3, <1>4, OpenCursor, CloseCursor
<1>5. CASE Method
  <2>1. ASSUME NEW n \in Lengths, Read(n)
        PROVE  Cursor!Next /\ TaskInv'
    BY <1>0, <2>1, ReadCursor
  <2>2. ASSUME NEW n \in Lengths, SkipWindow(n)
        PROVE  Cursor!Next /\ TaskInv'
    BY <1>0, <1>1, <2>2, SkipWindowCursor
  <2>3. ASSUME NEW n \in Lengths, SkipFallback(n)
        PROVE  Cursor!Next /\ TaskInv'
    <3>1. n \in 0 .. MaxInt
      BY <2>3, CodedAssumption, UnderWay DEF SkipFallback, Lengths
    <3> QED BY <1>1, <1>3, <2>3, <3>1, SkipFallbackCursor
  <2>4. ASSUME NEW push \in BOOLEAN, ReadVarint(push)
        PROVE  Cursor!Next /\ TaskInv'
    BY <1>2, <2>4, ReadVarintCursor
  <2>5. CASE ReadTagInWindow
    BY <1>2, <2>5, ReadTagInWindowCursor
  <2>6. CASE ReadTagFallback
    BY <1>2, <1>3, <2>6, ReadTagFallbackCursor
  <2>7. CASE ExpectAtEnd
    BY <2>7, ExpectAtEndCursor
  <2>8. CASE GetDirectBufferPointer
    BY <1>3, <2>8, GetDirectBufferPointerCursor
  <2>9. ASSUME NEW n \in Lengths, Push(n)
        PROVE  Cursor!Next /\ TaskInv'
    BY <1>1, <2>9, PushCursor
  <2>10. ASSUME NEW n \in Lengths, SetTotalBytesLimit(n)
         PROVE  Cursor!Next /\ TaskInv'
    BY <1>3, <2>10, SetTotalBytesLimitCursor
  <2>11. CASE PopLimit
    BY <1>3, <2>11, PopLimitCursor
  <2> QED BY <1>5, <2>1, <2>2, <2>3, <2>4, <2>5, <2>6, <2>7, <2>8, <2>9, <2>10, <2>11 DEF Method
<1>6. CASE Continue
  <2>1. CASE Refuse \/ Copy \/ CopyRefresh
    BY <1>3, <2>1, RefuseCursor, CopyCursor, CopyRefreshCursor
  <2>2. CASE DirectReturns \/ ReadVarint64Slow
    BY <2>2, DirectReturnsCursor, ReadVarint64SlowCursor
  <2>3. CASE VarintFromArray \/ VarintByte
    BY <1>3, <2>3, VarintFromArrayCursor, VarintByteCursor
  <2>4. ASSUME NEW n \in Lengths, PushLength(n)
        PROVE  Cursor!Next /\ TaskInv'
    BY <1>1, <2>4, PushLengthCursor
  <2> QED BY <1>6, <2>1, <2>2, <2>3, <2>4 DEF Continue
<1>7. CASE UNCHANGED vars
  <2>1. UNCHANGED <<adaptor, window, limits, open, origin, erred, lost, todo>>
    BY <1>7 DEF vars, outcome
  <2>2. UNCHANGED CurrentPosition
    BY <2>1 DEF window, CurrentPosition, BufferSize
  <2>3. Doing' = Doing
    BY <2>1, <2>2 DEF Doing, Idle
  <2>4. TaskInv'
    BY <2>1, <2>2 DEF TaskInv
  <2> QED BY <2>1, <2>3, <2>4, Unseen
<1> QED BY <1>4, <1>5, <1>6, <1>7 DEF Next

(* CodedInputStream is a cursor over the bytes of its input, however the   *)
(* buffers fall that it is lent: a method takes exactly what it should or  *)
(* fails at a limit, at the end of the input, at a varint that is too      *)
(* long, at a size below zero or because the input has failed to skip; the *)
(* position never goes back, and the next stream begins where it is        *)
(* closed or, when the input has failed to skip, not beyond that.          *)
THEOREM StreamIsCursor == Spec => IsCursor
<1>1. Init => Cursor!Init /\ TaskInv
  BY InitCursor
<1>2. IInv /\ IInv' /\ TaskInv /\ [Next]_vars => [Cursor!Next]_(Cursor!vars) /\ TaskInv'
  BY StepCursor
<1> QED BY <1>1, <1>2, Invariance, PTL DEF Spec, IsCursor, Cursor!Spec
=============================================================================
