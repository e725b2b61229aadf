----------------------------- MODULE CodedCursor -----------------------------
(***************************************************************************)
(* What a CodedInputStream promises to those who parse with it             *)
(* (coded_stream.h), without a word about buffers and windows: a cursor    *)
(* over the bytes of its input that nothing moves backwards or beyond a    *)
(* limit, and methods that either take exactly what they should or fail    *)
(* for a reason.  CodedInputStream implements it under its Cursor mapping. *)
(***************************************************************************)
EXTENDS Integers, Sequences

CONSTANTS MaxInt, MaxVarint, Ends, FlatSize,
          Unknown     \* the end of an input that has not shown it yet

VARIABLES
  open,     \* "closed", "stream", or "flat", over an array
  input,    \* the byte the input lends first, when it is opened
  at,       \* the position of the cursor, 0 when it is opened
  end,      \* the position at which the input ends, or has failed
  limits,   \* the limits that are pushed, all of them in force
  total,    \* the limit on the total
  doing,    \* what the method under way is to read
  erred,    \* some method has failed
  lost      \* the input has failed to skip: where the cursor is nobody knows

vars == <<open, input, at, end, limits, total, doing, erred, lost>>

Idle == [op |-> "idle"]
Ready == open # "closed" /\ doing = Idle

Init ==
  /\ open = "closed" /\ input = 0 /\ at = 0 /\ end = Unknown
  /\ limits = <<>> /\ total = MaxInt
  /\ doing = Idle /\ erred = FALSE /\ lost = FALSE

Allowed(p) ==
  /\ p <= (IF open = "flat" THEN FlatSize ELSE MaxInt) /\ p <= total
  /\ \A k \in DOMAIN limits : p <= limits[k]

\* The cursor goes forward, within the limits and the input.  On the way it
\* may be found out where the input ends.
Forward ==
  /\ at <= at' /\ Allowed(at')
  /\ end' = Unknown \/ (end' \in Nat /\ at' <= end')
  /\ end' # end => end = Unknown \/ lost'

Quiet == UNCHANGED <<open, input, limits, total>>

Open ==
  /\ open = "closed" /\ open' \in {"stream", "flat"}
  /\ UNCHANGED at /\ Forward
  /\ UNCHANGED <<input, limits, total, doing, erred, lost>>

\* The next to open the input begins where this one has stopped.
Close ==
  /\ Ready /\ open' = "closed"
  /\ open = "stream" =>
       IF lost THEN input' \in input .. input + at ELSE input' = input + at
  /\ open = "flat" => UNCHANGED input
  /\ at' = 0 /\ end' = Unknown /\ limits' = <<>> /\ total' = MaxInt
  /\ erred' = FALSE /\ lost' = FALSE /\ UNCHANGED doing

\* ReadRaw and its like, and what Skip refuses: n bytes.
Read(n) ==
  /\ Ready /\ doing' = [op |-> "read", to |-> at + n]
  /\ UNCHANGED <<at, end, erred, lost>> /\ Quiet

\* ReadVarint64 and its like, ReadTag, ReadLengthAndPushLimit.
ReadVarint(push) ==
  /\ Ready /\ doing' = [op |-> "varint", from |-> at, push |-> push]
  /\ UNCHANGED at /\ Forward
  /\ UNCHANGED <<erred, lost>> /\ Quiet

\* What is on its way to what it is to read; a look at what there is moves
\* nothing.
Goes ==
  /\ open # "closed" /\ Forward
  /\ CASE doing.op = "read" -> at' <= doing.to
       [] doing.op = "varint" -> at' <= doing.from + MaxVarint
       [] OTHER -> UNCHANGED at
  /\ UNCHANGED <<doing, erred, lost>> /\ Quiet

EndsAt(p) == (IF open = "stream" THEN input ELSE 0) + p - 1 \in Ends

\* The varint at p has n bytes.
VarintHas(p, n) == EndsAt(p + n) /\ \A k \in 1 .. n - 1 : ~EndsAt(p + k)

TooLong(p) == \A k \in 1 .. MaxVarint : ~EndsAt(p + k)

After(failed) ==
  IF doing.op = "varint" /\ doing.push THEN [op |-> "push", failed |-> failed] ELSE Idle

\* A method returns true: it has read just what it should.
Succeeds ==
  /\ \/ doing.op = "read" /\ at' = doing.to
     \/ /\ doing.op = "varint"
        /\ \E n \in 1 .. MaxVarint :
             at' = doing.from + n /\ (lost \/ VarintHas(doing.from, n))
  /\ Forward /\ doing' = After(FALSE)
  /\ UNCHANGED <<erred, lost>> /\ Quiet

Skip(n) ==
  /\ Ready /\ at' = at + n /\ Forward
  /\ UNCHANGED <<doing, erred, lost>> /\ Quiet

\* A method returns false: at a limit, at the end of the input, at a varint
\* that is too long, at a size below zero, where it stays, or because the input
\* has failed to skip.
Fails ==
  /\ open # "closed" /\ doing.op \in {"idle", "read", "varint"} /\ Forward
  /\ \/ ~Allowed(at' + 1) \/ at' = end' \/ lost'
     \/ doing.op = "varint" /\ TooLong(doing.from)
     \/ doing.op = "read" /\ doing.to < at
  /\ doing.op = "read" => IF doing.to < at THEN UNCHANGED at ELSE at' < doing.to
  /\ lost' # lost => Ready /\ lost'
  /\ erred' = TRUE /\ doing' = After(TRUE) /\ Quiet

\* PushLimit.  A length that makes no sense is no limit at all.
PushLimit(p) ==
  /\ open # "closed" /\ at <= p /\ p <= MaxInt
  /\ \/ doing = Idle
     \/ doing.op = "push" /\ (doing.failed => p = at)
  /\ limits' = Append(limits, p) /\ doing' = Idle
  /\ UNCHANGED <<open, input, at, end, total, erred, lost>>

PopLimit ==
  /\ Ready /\ limits # <<>>
  /\ limits' = SubSeq(limits, 1, Len(limits) - 1)
  /\ UNCHANGED <<open, input, at, end, total, doing, erred, lost>>

SetTotalBytesLimit ==
  /\ Ready /\ at <= total'
  /\ UNCHANGED <<open, input, at, end, limits, doing, erred, lost>>

Next ==
  \/ Open \/ Close
  \/ \E n \in -1 .. MaxInt : Read(n)
  \/ \E n \in 0 .. MaxInt : Skip(n) \/ PushLimit(n)
  \/ \E push \in BOOLEAN : ReadVarint(push)
  \/ Goes \/ Succeeds \/ Fails
  \/ PopLimit \/ SetTotalBytesLimit

Spec == Init /\ [][Next]_vars
=============================================================================
