------------------------------ MODULE ArenaImpl ------------------------------
(***************************************************************************)
(* protobuf/arena.cc and arena_impl.h: memory that many threads allocate   *)
(* from at once and that is given back all together.                       *)
(*                                                                         *)
(* An arena is a lock-free list of ThreadInfos, one for each thread that   *)
(* has allocated from it.  A ThreadInfo has that thread's blocks, the      *)
(* newest first, and the destructors to run, in chunks that are allocated  *)
(* from the same blocks.  It lives in the first block of its thread, so it *)
(* is named here by that block.  A thread finds the block to allocate from *)
(* in its thread-local cache, then in the hint of the arena, then through  *)
(* the list of ThreadInfos.                                                *)
(*                                                                         *)
(* A block is an address: free memory comes back under another arena.      *)
(* Sizes are in units, not bytes.  Memory is sequentially consistent.      *)
(***************************************************************************)
EXTENDS Integers, Sequences, FiniteSets, SequencesExt, FiniteSetsExt, Functions

CONSTANTS Thread, NoThread,
          Arena,
          Block,         \* addresses block_alloc may return
          NoBlock,       \* NULL
          initialBlock,  \* the block an arena was given by its creator, or NoBlock
          InitialSize,   \* initial_block_size
          StartSize,     \* start_block_size
          MaxSize,       \* max_block_size
          HeaderSize,    \* kHeaderSize
          InfoSize,      \* sizeof(ThreadInfo)
          ChunkMin,      \* kMinCleanupListElements
          ChunkMax,      \* kMaxCleanupListElements
          Bytes,         \* bound: sizes callers ask for
          MaxCalls,      \* bound: allocations made
          MaxLives       \* bound: with so many lives begun, no constructor is called and no Reset

Initial == {initialBlock[a] : a \in Arena} \ {NoBlock}
Address == Block \cup Initial

ASSUME ThreadAssumption == NoThread \notin Thread
ASSUME BlockAssumption == /\ initialBlock \in [Arena -> Initial \cup {NoBlock}]
                          /\ NoBlock \notin Address /\ Block \cap Initial = {}
                          /\ \A a, b \in Arena :
                               initialBlock[a] = initialBlock[b] /\ a # b
                                 => initialBlock[a] = NoBlock
ASSUME SizeAssumption == /\ {StartSize, MaxSize, HeaderSize, InfoSize} \subseteq Nat
                         /\ ChunkMin \in Nat \ {0} /\ ChunkMax \in Nat \ {0}
                         /\ Bytes \subseteq Nat
                         /\ MaxCalls \in Nat /\ MaxLives \in Nat
\* The constructor checks no more than InitialSize >= sizeof(Block): a block
\* with no room for the ThreadInfo is accepted and overrun.
ASSUME InitialAssumption == InitialSize \in Nat /\ InitialSize >= HeaderSize + InfoSize

VARIABLES
  lifecycleId, threads, hint, spaceAllocated,  \* the arenas
  generator,                           \* lifecycle_id_generator_
  owner, threadInfo, pos, size,        \* the headers of the blocks
  head, cleanup,                       \* the ThreadInfos
  cache,                               \* the ThreadCache of each thread
  pc,                                  \* where each thread is
  call,                                \* its call, and if it has come to needing a chunk
  need,                                \* the room GetBlock must find
  mine,                                \* its block: my_block, then the result of GetBlock
  next,                                \* info->next, as loaded before the CAS
  calls,                               \* calls of the arenas still to make
  registered,                          \* history: destructors registered in this life
  cleaned,                             \* history: destructors run in this life
  asked                                \* history: units allocated in this life

arenas == <<lifecycleId, threads, hint, spaceAllocated>>
blocks == <<owner, threadInfo, pos, size>>
infos == <<head, cleanup>>
locals == <<cache, pc, call, need, mine, next, calls>>
history == <<registered, cleaned, asked>>
vars == <<arenas, generator, blocks, infos, locals, history>>

NeverSeen == -1     \* an id no arena ever has
Dead == -2          \* no object at this address: not constructed, or destroyed

Live(a) == lifecycleId[a] # Dead
NoCache == [seen |-> NeverSeen, block |-> NoBlock]
NoCall == [arena |-> "none"]
ChunkBytes(k) == 1 + k       \* CleanupChunk::SizeOf

Init ==
  /\ lifecycleId = [a \in Arena |-> Dead]
  /\ threads = [a \in Arena |-> <<>>]
  /\ hint = [a \in Arena |-> NoBlock]
  /\ spaceAllocated = [a \in Arena |-> 0]
  /\ generator = 0
  /\ owner = [b \in Address |-> NoThread]
  /\ threadInfo = [b \in Address |-> NoBlock]
  /\ pos = [b \in Address |-> 0]
  /\ size = [b \in Address |-> 0]
  /\ head = [b \in Address |-> <<>>]
  /\ cleanup = [b \in Address |-> <<>>]
  /\ cache = [t \in Thread |-> NoCache]
  /\ pc = [t \in Thread |-> "out"]
  /\ call = [t \in Thread |-> NoCall]
  /\ need = [t \in Thread |-> 0]
  /\ mine = [t \in Thread |-> NoBlock]
  /\ next = [t \in Thread |-> <<>>]
  /\ calls = MaxCalls
  /\ registered = [a \in Arena |-> [t \in Thread |-> 0]]
  /\ cleaned = [a \in Arena |-> <<>>]
  /\ asked = [a \in Arena |-> 0]

Goto(t, from, to) == pc[t] \in from /\ pc' = [pc EXCEPT ![t] = to]
Users(a) == {t \in Thread : pc[t] # "out" /\ call[t].arena = a}
Tearing == {"free", "init"}
Avail(b) == size[b] - pos[b]
-----------------------------------------------------------------------------
(* The life of an arena.  The caller of the constructor, of Reset and of   *)
(* the destructor has made sure that nobody else is using the arena.       *)

\* Mutant: Reset keeps the id of the arena.
NextIdKept(a) == IF Live(a) THEN lifecycleId[a] ELSE generator

\* lifecycle_id_ = lifecycle_id_generator_.GetNext()
NextId(a) == generator

\* Init(): the thread that calls it owns the initial block, if there is one.
InitArena(t, a) ==
  LET b == initialBlock[a] IN
  /\ generator' = generator + 1
  /\ lifecycleId' = [lifecycleId EXCEPT ![a] = NextId(a)]
  /\ threads' = [threads EXCEPT ![a] = IF b = NoBlock THEN <<>> ELSE <<b>>]
  /\ hint' = [hint EXCEPT ![a] = b]
  /\ spaceAllocated' = [spaceAllocated EXCEPT ![a] = IF b = NoBlock THEN 0 ELSE InitialSize]
  /\ IF b = NoBlock THEN UNCHANGED <<blocks, infos, cache>>
     ELSE /\ owner' = [owner EXCEPT ![b] = t]
          /\ threadInfo' = [threadInfo EXCEPT ![b] = b]
          /\ pos' = [pos EXCEPT ![b] = HeaderSize + InfoSize]
          /\ size' = [size EXCEPT ![b] = InitialSize]
          /\ head' = [head EXCEPT ![b] = <<b>>]
          /\ cleanup' = [cleanup EXCEPT ![b] = <<>>]
          /\ cache' = [cache EXCEPT ![t] = [seen |-> NextId(a), block |-> b]]

Construct(t, a) ==
  /\ pc[t] = "out" /\ ~Live(a) /\ generator < MaxLives
  /\ InitArena(t, a)
  /\ UNCHANGED <<pc, call, need, mine, next, calls, history>>

\* The destructors of one ThreadInfo in the order CleanupList runs them.
CleanupOrder(i) == FlattenSeq([k \in DOMAIN cleanup[i] |-> Reverse(cleanup[i][k].nodes)])

\* Reset and the destructor begin with CleanupList.
TearDown(t, a) ==
  /\ Goto(t, {"out"}, "free")
  /\ Live(a) /\ Users(a) = {}
  /\ call' = [call EXCEPT ![t] = [arena |-> a]]
  /\ cleaned' = [cleaned EXCEPT ![a] =
       FlattenSeq([k \in DOMAIN threads[a] |-> CleanupOrder(threads[a][k])])]
  /\ UNCHANGED <<arenas, generator, blocks, infos>>
  /\ UNCHANGED <<cache, need, mine, next, calls, registered, asked>>

Reached(a) == UNION {ToSet(head[i]) : i \in ToSet(threads[a])}

\* Nothing is left of a destroyed arena.  Its initial block is not given to
\* block_dealloc: it goes back to the creator.
FreeBlocks(t) ==
  LET a == call[t].arena IN
  /\ \/ /\ Goto(t, {"free"}, "init") /\ generator < MaxLives
        /\ UNCHANGED <<arenas, call>>
     \/ /\ Goto(t, {"free"}, "out")
        /\ lifecycleId' = [lifecycleId EXCEPT ![a] = Dead]
        /\ threads' = [threads EXCEPT ![a] = <<>>]
        /\ hint' = [hint EXCEPT ![a] = NoBlock]
        /\ spaceAllocated' = [spaceAllocated EXCEPT ![a] = 0]
        /\ call' = [call EXCEPT ![t] = NoCall]
  /\ owner' = [b \in Address |-> IF b \in Reached(a) THEN NoThread ELSE owner[b]]
  /\ registered' = [registered EXCEPT ![a] = [u \in Thread |-> 0]]
  /\ cleaned' = [cleaned EXCEPT ![a] = <<>>]
  /\ asked' = [asked EXCEPT ![a] = 0]
  /\ UNCHANGED <<generator, threadInfo, pos, size, infos, cache, need, mine, next, calls>>

Restart(t) ==
  /\ Goto(t, {"init"}, "out")
  /\ InitArena(t, call[t].arena)
  /\ call' = [call EXCEPT ![t] = NoCall]
  /\ UNCHANGED <<need, mine, next, calls, history>>

\* A thread ends and a new one takes its place: its ThreadCache has the same
\* address and is as new.
NewThread(t) ==
  /\ pc[t] = "out" /\ cache[t] # NoCache
  /\ cache' = [cache EXCEPT ![t] = NoCache]
  /\ UNCHANGED <<arenas, generator, blocks, infos, pc, call, need, mine, next, calls, history>>
-----------------------------------------------------------------------------
(* AllocateAligned(n), AllocateAlignedAndAddCleanup(n), and AddCleanup,    *)
(* which looks for a block with room for nothing.                          *)
Allocate(t, a, n, c) ==
  /\ Goto(t, {"out"}, "cache")
  /\ calls > 0 /\ Live(a) /\ (n > 0 \/ c)
  /\ \A u \in Users(a) : pc[u] \notin Tearing
  /\ call' = [call EXCEPT ![t] = [arena |-> a, bytes |-> n, cleanup |-> c,
                                    chunk |-> FALSE]]
  /\ need' = [need EXCEPT ![t] = n]
  /\ calls' = calls - 1
  /\ UNCHANGED <<arenas, generator, blocks, infos, cache, mine, next, history>>

\* GetBlock: the block this thread used last, if it is one of this arena.
CheckCache(t) ==
  LET b == IF cache[t].seen = lifecycleId[call[t].arena] THEN cache[t].block ELSE NoBlock IN
  /\ Goto(t, {"cache"}, IF b # NoBlock /\ Avail(b) >= need[t] THEN "have" ELSE "hint")
  /\ mine' = [mine EXCEPT ![t] = b]
  /\ UNCHANGED <<arenas, generator, blocks, infos, cache, call, need, next, calls, history>>

\* Mutant: the hint is not asked whose block it is.
UsableUnowned(t, b) == b # NoBlock

Usable(t, b) == b # NoBlock /\ owner[b] = t

\* GetBlock: the block used last in this arena, if it is this thread's own.
CheckHint(t) ==
  LET b == hint[call[t].arena]
      m == IF Usable(t, b) THEN b ELSE mine[t] IN
  /\ Goto(t, {"hint"}, IF Usable(t, b) /\ Avail(b) >= need[t] THEN "have" ELSE "slow")
  /\ mine' = [mine EXCEPT ![t] = m]
  /\ UNCHANGED <<arenas, generator, blocks, infos, cache, call, need, next, calls, history>>

SizeFor(last, n) ==
  Max({HeaderSize + n, IF last = NoBlock THEN StartSize ELSE Min({2 * size[last], MaxSize})})

\* NewBlock(me, last, n): b is what block_alloc returns.
NewBlock(t, b, last, n) ==
  /\ b \in Block /\ owner[b] = NoThread
  /\ owner' = [owner EXCEPT ![b] = t]
  /\ size' = [size EXCEPT ![b] = SizeFor(last, n)]
  /\ spaceAllocated' = [spaceAllocated EXCEPT ![call[t].arena] = @ + SizeFor(last, n)]

\* Those FindThreadInfo may find.
InfosOf(t) == {i \in ToSet(threads[call[t].arena]) : owner[i] = t}

\* GetBlockSlow, GetThreadInfo and FindThreadInfo: the ThreadInfo of my block,
\* else mine in the list.  From here on mine is the first block of this thread.
FindThreadInfo(t) ==
  /\ Goto(t, {"slow"}, "head")
  /\ \/ mine[t] # NoBlock /\ mine' = [mine EXCEPT ![t] = threadInfo[@]]
     \/ /\ mine[t] = NoBlock
        /\ \E i \in InfosOf(t) : mine' = [mine EXCEPT ![t] = i]
  /\ UNCHANGED <<arenas, generator, blocks, infos, cache, call, need, next, calls, history>>

\* GetThreadInfo: else a new one, in a block made for it.
NewThreadInfo(t, b) ==
  /\ Goto(t, {"slow"}, "load")
  /\ mine[t] = NoBlock /\ InfosOf(t) = {}
  /\ NewBlock(t, b, NoBlock, InfoSize + need[t])
  /\ threadInfo' = [threadInfo EXCEPT ![b] = b]
  /\ pos' = [pos EXCEPT ![b] = HeaderSize + InfoSize]
  /\ head' = [head EXCEPT ![b] = <<b>>]
  /\ cleanup' = [cleanup EXCEPT ![b] = <<>>]
  /\ mine' = [mine EXCEPT ![t] = b]
  /\ UNCHANGED <<lifecycleId, threads, hint, generator, cache, call, need, next, calls, history>>

\* head = threads_; info->next = head
LoadThreads(t) ==
  /\ Goto(t, {"load"}, "push")
  /\ next' = [next EXCEPT ![t] = threads[call[t].arena]]
  /\ UNCHANGED <<arenas, generator, blocks, infos, cache, call, need, mine, calls, history>>

\* Mutant: a store, where there is a compare and swap.
SwapsBlindly(t) == TRUE

\* The list only grows while it is in use: the same head is the same list.
Swaps(t) == threads[call[t].arena] = next[t]

PushThreadInfo(t) ==
  /\ Goto(t, {"push"}, IF Swaps(t) THEN "head" ELSE "load")
  /\ threads' = IF Swaps(t)
                  THEN [threads EXCEPT ![call[t].arena] = <<mine[t]>> \o next[t]]
                  ELSE threads
  /\ UNCHANGED <<lifecycleId, hint, spaceAllocated, generator, blocks, infos>>
  /\ UNCHANGED <<cache, call, need, mine, next, calls, history>>

\* GetBlockSlow: the newest block of the ThreadInfo, if it has room, else a
\* new one; then CacheBlock.
GetBlockSlow(t, b) ==
  LET a == call[t].arena
      i == mine[t]
      last == Head(head[i]) IN
  /\ Goto(t, {"head"}, "have")
  /\ IF Avail(last) >= need[t]
       THEN b = last /\ UNCHANGED <<spaceAllocated, blocks, head>>
       ELSE /\ NewBlock(t, b, last, need[t])
            /\ threadInfo' = [threadInfo EXCEPT ![b] = i]
            /\ pos' = [pos EXCEPT ![b] = HeaderSize]
            /\ head' = [head EXCEPT ![i] = <<b>> \o @]
  /\ mine' = [mine EXCEPT ![t] = b]
  /\ cache' = [cache EXCEPT ![t] = [seen |-> lifecycleId[a], block |-> b]]
  /\ hint' = [hint EXCEPT ![a] = b]
  /\ UNCHANGED <<lifecycleId, threads, generator, cleanup, call, need, next, calls, history>>
-----------------------------------------------------------------------------
(* With the block in hand: all of this is the thread's own memory.         *)
Finish(t) ==
  /\ Goto(t, {"have"}, "out")
  /\ call' = [call EXCEPT ![t] = NoCall]
  /\ need' = [need EXCEPT ![t] = 0]
  /\ mine' = [mine EXCEPT ![t] = NoBlock]
  /\ next' = [next EXCEPT ![t] = <<>>]

\* Mutant: the chunk is full one destructor too late.
FullLate(i) == cleanup[i] = <<>> \/ Len(Head(cleanup[i]).nodes) > Head(cleanup[i]).size

Full(i) == cleanup[i] = <<>> \/ Len(Head(cleanup[i]).nodes) = Head(cleanup[i]).size

NextChunk(i) == IF cleanup[i] = <<>> THEN Min({ChunkMin, ChunkMax})
                ELSE Min({2 * Head(cleanup[i]).size, ChunkMax})

\* The destructor of the object goes into the newest chunk.
Registers(t, chunks) ==
  LET a == call[t].arena
      k == registered[a][t] + 1 IN
  /\ cleanup' = [cleanup EXCEPT ![threadInfo[mine[t]]] =
       [chunks EXCEPT ![1].nodes = Append(@, [by |-> t, nth |-> k])]]
  /\ registered' = [registered EXCEPT ![a][t] = k]

\* Mutant: the last unit of an object is where the next one begins.
AllocFromBlockShort(t, n) ==
  LET taken == IF n = 0 THEN 0 ELSE n - 1 IN
  /\ pos' = [pos EXCEPT ![mine[t]] = @ + taken]
  /\ asked' = [asked EXCEPT ![call[t].arena] = @ + taken]

AllocFromBlock(t, n) ==
  /\ pos' = [pos EXCEPT ![mine[t]] = @ + n]
  /\ asked' = [asked EXCEPT ![call[t].arena] = @ + n]

AllocateObject(t) ==
  LET i == threadInfo[mine[t]]
      n == ChunkBytes(NextChunk(i)) IN
  /\ pc[t] = "have" /\ ~call[t].chunk
  /\ AllocFromBlock(t, call[t].bytes)
  /\ IF ~call[t].cleanup THEN Finish(t) /\ UNCHANGED <<cleanup, registered>>
     ELSE IF ~Full(i) THEN Finish(t) /\ Registers(t, cleanup[i])
     ELSE /\ Goto(t, {"have"}, IF Avail(mine[t]) - call[t].bytes < n THEN "cache" ELSE "have")
          /\ need' = [need EXCEPT ![t] = n]
          /\ call' = [call EXCEPT ![t].chunk = TRUE]
          /\ UNCHANGED <<cleanup, registered, mine, next>>
  /\ UNCHANGED <<arenas, generator, owner, threadInfo, size, head, cache, calls, cleaned>>

\* Mutant: the chunk before is not linked to the new one.
NewListUnlinked(i) == <<[size |-> NextChunk(i), nodes |-> <<>>]>>

\* ExpandCleanupList: list->next = cleanup
NewList(i) == <<[size |-> NextChunk(i), nodes |-> <<>>]>> \o cleanup[i]

AllocateChunk(t) ==
  /\ pc[t] = "have" /\ call[t].chunk
  /\ AllocFromBlock(t, need[t])
  /\ Registers(t, NewList(threadInfo[mine[t]]))
  /\ Finish(t)
  /\ UNCHANGED <<arenas, generator, owner, threadInfo, size, head, cache, calls, cleaned>>
-----------------------------------------------------------------------------
Step(t) ==
  \/ FreeBlocks(t) \/ Restart(t)
  \/ CheckCache(t) \/ CheckHint(t)
  \/ FindThreadInfo(t) \/ \E b \in Block : NewThreadInfo(t, b)
  \/ LoadThreads(t) \/ PushThreadInfo(t)
  \/ \E b \in Address : GetBlockSlow(t, b)
  \/ AllocateObject(t) \/ AllocateChunk(t)

Begin(t) ==
  \/ NewThread(t)
  \/ \E a \in Arena : \/ Construct(t, a) \/ TearDown(t, a)
                      \/ \E n \in Bytes, c \in BOOLEAN : Allocate(t, a, n, c)

Next == \E t \in Thread : Begin(t) \/ Step(t)

Spec == Init /\ [][Next]_vars
-----------------------------------------------------------------------------
Location == {"out", "cache", "hint", "slow", "load", "push", "head", "have"}
            \cup Tearing

\* The arena is neither between its last FreeBlocks and its next Init nor dead.
InUse(a) == Live(a) /\ \A t \in Thread : pc[t] = "init" => call[t].arena # a

\* A ThreadInfo its thread has made and not yet pushed.
Pending(t) == IF pc[t] \in {"load", "push"} THEN {mine[t]} ELSE {}

InfosIn(a) == ToSet(threads[a]) \cup UNION {Pending(t) : t \in Users(a)}
BlocksIn(a) == UNION {ToSet(head[i]) : i \in InfosIn(a)}

(* No destructor is registered and no object placed outside the block.     *)
TypeOK ==
  /\ lifecycleId \in [Arena -> Nat \cup {Dead}]
  /\ generator \in Nat
  /\ hint \in [Arena -> Address \cup {NoBlock}]
  /\ spaceAllocated \in [Arena -> Nat]
  /\ owner \in [Address -> Thread \cup {NoThread}]
  /\ threadInfo \in [Address -> Address \cup {NoBlock}]
  /\ pos \in [Address -> Nat] /\ size \in [Address -> Nat]
  /\ \A b \in Address : pos[b] <= size[b]
  /\ pc \in [Thread -> Location]
  /\ \A b \in Address : \A k \in DOMAIN cleanup[b] :
       Len(cleanup[b][k].nodes) <= cleanup[b][k].size

(* The block a thread allocates from is its own, belongs to the arena it   *)
(* was asked for, and has the room: no two threads, and no two arenas,     *)
(* ever hand out the same memory, whatever a cache or a hint remembers of  *)
(* an arena that has been reset or destroyed since.                        *)
OwnBlock ==
  \A t \in Thread : pc[t] = "have" =>
    /\ owner[mine[t]] = t
    /\ \E i \in ToSet(threads[call[t].arena]) : mine[t] \in ToSet(head[i])
    /\ Avail(mine[t]) >= IF call[t].chunk THEN need[t] ELSE call[t].bytes

(* A thread has one ThreadInfo in an arena, and an owned block is in the    *)
(* chain of one ThreadInfo of one arena: every block will be freed, and     *)
(* freed once.                                                             *)
NoBlockLost ==
  /\ \A a \in Arena : InUse(a) =>
       /\ IsInjective(threads[a])
       /\ \A i, j \in InfosIn(a) : owner[i] = owner[j] => i = j
       /\ \A i \in InfosIn(a) : IsInjective(head[i])
  /\ \A a, c \in Arena : InUse(a) /\ InUse(c) =>
       \A i \in InfosIn(a), j \in InfosIn(c) :
         ToSet(head[i]) \cap ToSet(head[j]) # {} => a = c /\ i = j
  /\ \A b \in Address : owner[b] # NoThread => \E a \in Arena : InUse(a) /\ b \in BlocksIn(a)

(* spaceAllocated is what FreeBlocks will find to free, but for a block    *)
(* its thread has not published yet; and SpaceUsed, which walks the        *)
(* blocks, is what the callers and the chunks were given.                  *)
SpaceUsed(a) ==
  LET used(i) == FoldSet(LAMBDA b, n : n + pos[b] - HeaderSize, 0, ToSet(head[i]))
  IN FoldSet(LAMBDA i, n : n + used(i) - InfoSize, 0, ToSet(threads[a]))

SpaceAgrees ==
  \A a \in Arena : InUse(a) =>
    /\ spaceAllocated[a] = SumFunctionOnSet(size, BlocksIn(a))
    /\ SpaceUsed(a) = asked[a]

(* When an arena is torn down every registered destructor runs, once, and  *)
(* those of a thread in the reverse of the order it registered them in.    *)
CleanedInReverse ==
  \A t \in Thread : pc[t] = "free" =>
    LET a == call[t].arena
        ran == cleaned[a]
    IN /\ ToSet(ran) = UNION {[by : {u}, nth : 1 .. registered[a][u]] : u \in Thread}
       /\ \A j, k \in DOMAIN ran :
            j < k /\ ran[j].by = ran[k].by => ran[j].nth > ran[k].nth

(***************************************************************************)
(* What ArenaPromise calls the state of an arena.                          *)
(***************************************************************************)

Phase(a) == IF ~InUse(a) THEN "gone"
            ELSE IF \E t \in Thread : pc[t] = "free" /\ call[t].arena = a THEN "closing"
            ELSE "open"

\* A thread that has its object and needs a chunk asks for no more itself.
Asks(t) == IF pc[t] \in {"out"} \cup Tearing THEN NoCall
           ELSE [arena |-> call[t].arena, cleanup |-> call[t].cleanup,
                 bytes |-> IF call[t].chunk THEN 0 ELSE call[t].bytes]

\* Where in a block the memory begins that is not the arena's own.
Begins(b) == HeaderSize + IF threadInfo[b] = b THEN InfoSize ELSE 0

Handed(a) == IF InUse(a) THEN UNION {{b} \X (Begins(b) + 1 .. pos[b]) : b \in BlocksIn(a)}
             ELSE {}

Promise == INSTANCE ArenaPromise WITH
             phase <- [a \in Arena |-> Phase(a)],
             asks <- [t \in Thread |-> Asks(t)],
             handed <- [a \in Arena |-> Handed(a)],
             owed <- registered,
             ran <- cleaned

(* Every allocation gets as many consecutive units as it asked for, which  *)
(* no arena has handed out to anyone; they stay the caller's, and the      *)
(* destructors registered, until a teardown that has run them all takes    *)
(* everything back at once.  How the threads meet in the list and what     *)
(* their caches remember shows in none of it.                              *)
KeepsPromise == Promise!Spec
=============================================================================
