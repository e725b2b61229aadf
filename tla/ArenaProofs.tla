----------------------------- MODULE ArenaProofs -----------------------------
(***************************************************************************)
(* Theorems about ArenaImpl, for any number of threads, arenas and blocks  *)
(* and any sizes: no memory is handed out twice, and none beyond a block;  *)
(* a thread has one ThreadInfo in an arena, every block that is owned      *)
(* hangs from one ThreadInfo of one arena, SpaceAllocated and SpaceUsed    *)
(* are the sums they should be over those blocks, the destructors run in   *)
(* the reverse of the order they were registered in, and all of it is an   *)
(* implementation of ArenaPromise.                                         *)
(***************************************************************************)
EXTENDS ArenaImpl, SequenceTheorems, FiniteSetTheorems, NaturalsInduction,
        WellFoundedInduction, TLAPS

-----------------------------------------------------------------------------
(* Sequences and sizes.                                                    *)
LEMMA ToSetOfCons ==
  ASSUME NEW S, NEW s \in Seq(S), NEW e
  PROVE  ToSet(<<e>> \o s) = {e} \cup ToSet(s)
<1> DEFINE c == <<e>> \o s
<1>1. /\ DOMAIN c = 1 .. Len(s) + 1 /\ DOMAIN s = 1 .. Len(s) /\ Len(s) \in Nat
      /\ c[1] = e
      /\ \A i \in 1 .. Len(s) : c[i + 1] = s[i]
  OBVIOUS
<1> HIDE DEF c
<1>2. ASSUME NEW x \in ToSet(c) PROVE x \in {e} \cup ToSet(s)
  <2>1. PICK i \in 1 .. Len(s) + 1 : x = c[i]
    BY <1>1, <1>2 DEF ToSet
  <2>2. CASE i = 1
    BY <2>1, <2>2, <1>1
  <2>3. CASE i # 1
    <3>1. i - 1 \in 1 .. Len(s) /\ (i - 1) + 1 = i
      BY <2>3, <1>1
    <3>2. x = s[i - 1]
      BY <2>1, <3>1, <1>1
    <3> QED BY <3>1, <3>2, <1>1 DEF ToSet
  <2> QED BY <2>2, <2>3
<1>3. ASSUME NEW x \in ToSet(s) PROVE x \in ToSet(c)
  <2>1. PICK i \in 1 .. Len(s) : x = s[i]
    BY <1>1, <1>3 DEF ToSet
  <2>2. i + 1 \in 1 .. Len(s) + 1 /\ c[i + 1] = x
    BY <2>1, <1>1
  <2> QED BY <2>2, <1>1 DEF ToSet
<1>4. e \in ToSet(c)
  <2>1. 1 \in DOMAIN c
    BY <1>1
  <2> QED BY <2>1, <1>1 DEF ToSet
<1> QED BY <1>2, <1>3, <1>4 DEF c

LEMMA ToSetOfOne == \A e : ToSet(<<e>>) = {e}
  BY DEF ToSet

LEMMA ToSetOfNone == ToSet(<<>>) = {}
  BY DEF ToSet

LEMMA ToSetType == \A S : \A s \in Seq(S) : ToSet(s) \subseteq S
  BY DEF ToSet

LEMMA HeadInSet ==
  ASSUME NEW S, NEW s \in Seq(S), s # <<>>
  PROVE  Head(s) \in ToSet(s) /\ Head(s) \in S
<1>1. 1 \in DOMAIN s /\ Head(s) = s[1] /\ s[1] \in S
  OBVIOUS
<1> QED BY <1>1 DEF ToSet

LEMMA MaxOfTwo ==
  ASSUME NEW x \in Nat, NEW y \in Nat
  PROVE  Max({x, y}) \in {x, y} /\ Max({x, y}) >= x /\ Max({x, y}) >= y
<1>1. \E m \in {x, y} : \A k \in {x, y} : m >= k
  <2>1. CASE x >= y
    BY <2>1
  <2>2. CASE y >= x
    BY <2>2
  <2> QED BY <2>1, <2>2
<1> QED BY <1>1 DEF Max

LEMMA MinOfTwo ==
  ASSUME NEW x \in Nat, NEW y \in Nat
  PROVE  Min({x, y}) \in {x, y}
<1>1. \E m \in {x, y} : \A k \in {x, y} : m <= k
  <2>1. CASE x >= y
    BY <2>1
  <2>2. CASE y >= x
    BY <2>2
  <2> QED BY <2>1, <2>2
<1> QED BY <1>1 DEF Min

\* A block made for n units has room for them.
LEMMA SizeForFits ==
  ASSUME size \in [Address -> Nat], NEW last \in Address \cup {NoBlock}, NEW n \in Nat
  PROVE  SizeFor(last, n) \in Nat /\ SizeFor(last, n) >= HeaderSize + n
<1>1. HeaderSize \in Nat /\ StartSize \in Nat /\ MaxSize \in Nat
  BY SizeAssumption
<1> DEFINE grown == IF last = NoBlock THEN StartSize ELSE Min({2 * size[last], MaxSize})
<1>2. grown \in Nat
  <2>1. CASE last = NoBlock
    BY <2>1, <1>1
  <2>2. CASE last # NoBlock
    <3>1. 2 * size[last] \in Nat
      BY <2>2
    <3> QED BY <3>1, <2>2, <1>1, MinOfTwo
  <2> QED BY <2>1, <2>2
<1>3. HeaderSize + n \in Nat
  BY <1>1
<1> HIDE DEF grown
<1>4. /\ Max({HeaderSize + n, grown}) \in {HeaderSize + n, grown}
      /\ Max({HeaderSize + n, grown}) >= HeaderSize + n
  BY <1>2, <1>3, MaxOfTwo
<1> QED BY <1>2, <1>3, <1>4 DEF SizeFor, grown

Chunk == [size : Nat \ {0}, nodes : Seq([by : Thread, nth : Nat])]

LEMMA NextChunkType ==
  ASSUME cleanup \in [Address -> Seq(Chunk)], NEW i \in Address
  PROVE  NextChunk(i) \in Nat \ {0} /\ ChunkBytes(NextChunk(i)) \in Nat
<1>1. ChunkMin \in Nat \ {0} /\ ChunkMax \in Nat \ {0}
  BY SizeAssumption
<1>2. NextChunk(i) \in Nat \ {0}
  <2>1. CASE cleanup[i] = <<>>
    BY <2>1, <1>1, MinOfTwo DEF NextChunk
  <2>2. CASE cleanup[i] # <<>>
    <3>0. cleanup[i] \in Seq(Chunk)
      OBVIOUS
    <3>1. Head(cleanup[i]) \in Chunk
      BY <2>2, <3>0, HeadInSet
    <3>4. Head(cleanup[i]).size \in Nat \ {0}
      BY <3>1 DEF Chunk
    <3>2. 2 * Head(cleanup[i]).size \in Nat \ {0}
      BY <3>4
    <3> QED BY <2>2, <3>2, <1>1, MinOfTwo DEF NextChunk
  <2> QED BY <2>1, <2>2
<1> QED BY <1>2 DEF ChunkBytes

-----------------------------------------------------------------------------
(* The invariant.                                                          *)
Working == {"cache", "hint", "slow", "load", "push", "head", "have"}
Request == [arena : Arena, bytes : Nat, cleanup : BOOLEAN, chunk : BOOLEAN]

\* The types TypeOK leaves out.
Types ==
  /\ threads \in [Arena -> Seq(Address)]
  /\ head \in [Address -> Seq(Address)]
  /\ cleanup \in [Address -> Seq(Chunk)]
  /\ cache \in [Thread -> [seen : Nat \cup {NeverSeen}, block : Address \cup {NoBlock}]]
  /\ call \in [Thread -> {NoCall} \cup [arena : Arena] \cup Request]
  /\ need \in [Thread -> Nat]
  /\ mine \in [Thread -> Address \cup {NoBlock}]
  /\ next \in [Thread -> Seq(Address)]
  /\ registered \in [Arena -> [Thread -> Nat]]

\* An arena that is used is alive; one that is torn down has no other user.
CallsOnLive ==
  \A t \in Thread :
    /\ pc[t] \in Working =>
         /\ call[t] \in Request
         /\ Live(call[t].arena)
         /\ ~call[t].chunk => need[t] = call[t].bytes
    /\ pc[t] \in Tearing =>
         /\ call[t] \in [arena : Arena]
         /\ Live(call[t].arena)
         /\ \A u \in Thread \ {t} : pc[u] # "out" => call[u].arena # call[t].arena

\* An id is the id of one life of one arena.
IdsUnique ==
  /\ \A a \in Arena : lifecycleId[a] < generator
  /\ \A a, c \in Arena : Live(a) /\ lifecycleId[a] = lifecycleId[c] => a = c
  /\ \A t \in Thread : cache[t].seen < generator

Held(a, b) == \E i \in ToSet(threads[a]) : b \in ToSet(head[i])

\* A ThreadInfo knows its blocks and they know it.
InfosSound ==
  \A a \in Arena : InUse(a) => \A i \in ToSet(threads[a]) :
    /\ owner[i] \in Thread
    /\ i \in ToSet(head[i])
    /\ \A b \in ToSet(head[i]) :
         /\ owner[b] = owner[i]
         /\ threadInfo[b] = i
         /\ b \in Block \/ b = initialBlock[a]

InfosApart ==
  \A a, c \in Arena : InUse(a) /\ InUse(c) /\ a # c =>
    ToSet(threads[a]) \cap ToSet(threads[c]) = {}

\* What is remembered of an arena in use is one of its blocks.
HintsHeld ==
  \A a \in Arena : InUse(a) /\ hint[a] # NoBlock => Held(a, hint[a])

CachesHeld ==
  \A t \in Thread, a \in Arena :
    InUse(a) /\ cache[t].seen = lifecycleId[a] /\ cache[t].block # NoBlock
      => Held(a, cache[t].block) /\ owner[cache[t].block] = t

\* What the block in the hand of a thread is good for.
InHand(t) ==
  /\ pc[t] \in {"hint", "slow"} /\ mine[t] # NoBlock =>
       Held(call[t].arena, mine[t]) /\ owner[mine[t]] = t
  /\ pc[t] \in {"load", "push"} =>
       /\ mine[t] \in Block /\ owner[mine[t]] = t
       /\ threadInfo[mine[t]] = mine[t] /\ head[mine[t]] = <<mine[t]>>
       /\ \A c \in Arena : InUse(c) => mine[t] \notin ToSet(threads[c])
  /\ pc[t] = "head" =>
       mine[t] \in ToSet(threads[call[t].arena]) /\ owner[mine[t]] = t
  /\ pc[t] = "have" =>
       /\ Held(call[t].arena, mine[t]) /\ owner[mine[t]] = t
       /\ Avail(mine[t]) >= need[t]

Memory == InfosSound /\ InfosApart /\ HintsHeld /\ CachesHeld
IInv == TypeOK /\ Types /\ CallsOnLive /\ IdsUnique /\ Memory
        /\ \A t \in Thread : InHand(t)

-----------------------------------------------------------------------------
(* Calls and ids.                                                          *)
LEMMA UserInUse ==
  ASSUME CallsOnLive, NEW t \in Thread, pc[t] \in Working
  PROVE  call[t].arena \in Arena /\ InUse(call[t].arena)
  BY DEF CallsOnLive, Request, InUse, Users, Working, Tearing

LEMMA CallsStep ==
  ASSUME TypeOK, Types, CallsOnLive, NEW t \in Thread, Begin(t) \/ Step(t)
  PROVE  CallsOnLive'
<1> USE DEF CallsOnLive, Working, Tearing, Live, Goto
<1> /\ pc \in [Thread -> Location] /\ call \in [Thread -> {NoCall} \cup [arena : Arena] \cup Request]
    /\ need \in [Thread -> Nat] /\ lifecycleId \in [Arena -> Nat \cup {Dead}]
    /\ generator \in Nat
  BY DEF TypeOK, Types
<1>1. CASE NewThread(t)
  BY <1>1 DEF NewThread, arenas
<1>2. ASSUME NEW a \in Arena, Construct(t, a) PROVE CallsOnLive'
  <2>1. /\ pc' = pc /\ call' = call /\ need' = need
        /\ \A c \in Arena : c # a => lifecycleId'[c] = lifecycleId[c]
        /\ lifecycleId'[a] # Dead
    BY <1>2 DEF Construct, InitArena, NextId, Dead
  <2> QED BY <2>1 DEF Request
<1>3. ASSUME NEW a \in Arena, TearDown(t, a) PROVE CallsOnLive'
  <2>1. /\ pc' = [pc EXCEPT ![t] = "free"] /\ call' = [call EXCEPT ![t] = [arena |-> a]]
        /\ need' = need /\ lifecycleId' = lifecycleId /\ pc[t] = "out"
        /\ lifecycleId[a] # Dead
        /\ \A u \in Thread : pc[u] # "out" => call[u].arena # a
    BY <1>3 DEF TearDown, Users, arenas
  <2> QED BY <2>1 DEF Request
<1>4. ASSUME NEW a \in Arena, NEW n \in Bytes, NEW c \in BOOLEAN, Allocate(t, a, n, c)
      PROVE  CallsOnLive'
  <2> DEFINE r == [arena |-> a, bytes |-> n, cleanup |-> c, chunk |-> FALSE]
  <2>0. n \in Nat
    BY SizeAssumption
  <2>1. /\ pc' = [pc EXCEPT ![t] = "cache"] /\ call' = [call EXCEPT ![t] = r]
        /\ need' = [need EXCEPT ![t] = n] /\ lifecycleId' = lifecycleId /\ pc[t] = "out"
        /\ lifecycleId[a] # Dead
        /\ \A u \in Thread : pc[u] # "out" /\ call[u].arena = a => pc[u] \notin Tearing
    BY <1>4 DEF Allocate, Users, arenas
  <2>2. r \in Request /\ r.arena = a /\ r.bytes = n
    BY <2>0 DEF Request
  <2> QED BY <2>1, <2>2 DEF Request
<1>5. CASE FreeBlocks(t)
  <2> DEFINE a == call[t].arena
  <2>1. pc[t] = "free" /\ need' = need
    BY <1>5 DEF FreeBlocks
  <2>2. CASE pc' = [pc EXCEPT ![t] = "init"] /\ lifecycleId' = lifecycleId /\ call' = call
    BY <2>1, <2>2 DEF Request
  <2>3. CASE /\ pc' = [pc EXCEPT ![t] = "out"] /\ call' = [call EXCEPT ![t] = NoCall]
             /\ lifecycleId' = [lifecycleId EXCEPT ![a] = Dead]
    BY <2>1, <2>3 DEF Request
  <2> QED BY <1>5, <2>2, <2>3 DEF FreeBlocks, arenas
<1>6. CASE Restart(t)
  <2> DEFINE a == call[t].arena
  <2>1. /\ pc' = [pc EXCEPT ![t] = "out"] /\ call' = [call EXCEPT ![t] = NoCall]
        /\ need' = need /\ pc[t] = "init" /\ a \in Arena
        /\ lifecycleId' = [lifecycleId EXCEPT ![a] = generator]
    BY <1>6 DEF Restart, InitArena, NextId
  <2>2. generator # Dead
    BY DEF Dead
  <2> QED BY <2>1, <2>2 DEF Request
<1>7. ASSUME call' = call, need' = need, lifecycleId' = lifecycleId,
             pc[t] \in Working, NEW w \in Working, pc' = [pc EXCEPT ![t] = w]
      PROVE  CallsOnLive'
  BY <1>7
<1>8. CASE CheckCache(t)
  BY <1>8, <1>7 DEF CheckCache, arenas
<1>9. CASE CheckHint(t)
  BY <1>9, <1>7 DEF CheckHint, arenas
<1>10. CASE FindThreadInfo(t)
  BY <1>10, <1>7 DEF FindThreadInfo, arenas
<1>11. ASSUME NEW b \in Block, NewThreadInfo(t, b) PROVE CallsOnLive'
  BY <1>11, <1>7 DEF NewThreadInfo
<1>12. CASE LoadThreads(t)
  BY <1>12, <1>7 DEF LoadThreads, arenas
<1>13. CASE PushThreadInfo(t)
  BY <1>13, <1>7 DEF PushThreadInfo
<1>14. ASSUME NEW b \in Address, GetBlockSlow(t, b) PROVE CallsOnLive'
  BY <1>14, <1>7 DEF GetBlockSlow
<1>15. CASE AllocateObject(t)
  <2> DEFINE n == ChunkBytes(NextChunk(threadInfo[mine[t]]))
  <2>1. lifecycleId' = lifecycleId /\ pc[t] = "have" /\ call[t].chunk = FALSE
    BY <1>15 DEF AllocateObject, arenas, Request
  <2>2. CASE Finish(t)
    <3>1. /\ pc' = [pc EXCEPT ![t] = "out"] /\ call' = [call EXCEPT ![t] = NoCall]
          /\ need' = [need EXCEPT ![t] = 0]
      BY <2>2 DEF Finish
    <3> QED BY <2>1, <3>1 DEF Request
  <2>3. CASE /\ pc' = [pc EXCEPT ![t] = "have"] \/ pc' = [pc EXCEPT ![t] = "cache"]
             /\ need' = [need EXCEPT ![t] = n]
             /\ call' = [call EXCEPT ![t].chunk = TRUE]
    <3>1. /\ call'[t] \in Request /\ call'[t].arena = call[t].arena /\ call'[t].chunk
          /\ \A u \in Thread \ {t} : call'[u] = call[u] /\ need'[u] = need[u]
      BY <2>1, <2>3 DEF Request
    <3> QED BY <2>1, <2>3, <3>1 DEF Request
  <2> QED BY <1>15, <2>2, <2>3 DEF AllocateObject
<1>16. CASE AllocateChunk(t)
  <2>1. /\ pc' = [pc EXCEPT ![t] = "out"] /\ call' = [call EXCEPT ![t] = NoCall]
        /\ need' = [need EXCEPT ![t] = 0] /\ lifecycleId' = lifecycleId /\ pc[t] = "have"
    BY <1>16 DEF AllocateChunk, Finish, arenas
  <2> QED BY <2>1 DEF Request
<1> QED
  BY <1>1, <1>2, <1>3, <1>4, <1>5, <1>6, <1>8, <1>9, <1>10, <1>11, <1>12, <1>13,
     <1>14, <1>15, <1>16 DEF Begin, Step

LEMMA IdsStep ==
  ASSUME TypeOK, Types, CallsOnLive, IdsUnique, NEW t \in Thread, Begin(t) \/ Step(t)
  PROVE  IdsUnique'
<1> USE DEF IdsUnique, Live, Dead, NeverSeen
<1> /\ lifecycleId \in [Arena -> Nat \cup {Dead}] /\ generator \in Nat
    /\ cache \in [Thread -> [seen : Nat \cup {NeverSeen}, block : Address \cup {NoBlock}]]
    /\ call \in [Thread -> {NoCall} \cup [arena : Arena] \cup Request]
  BY DEF TypeOK, Types
<1>1. ASSUME UNCHANGED <<lifecycleId, generator, cache>> PROVE IdsUnique'
  BY <1>1
<1>2. ASSUME NEW a \in Arena, InitArena(t, a) PROVE IdsUnique'
  <2>1. /\ generator' = generator + 1
        /\ lifecycleId' = [lifecycleId EXCEPT ![a] = generator]
        /\ cache' = cache \/ \E b : cache' = [cache EXCEPT ![t] = [seen |-> generator, block |-> b]]
    BY <1>2 DEF InitArena, NextId
  <2>2. \A u \in Thread : cache'[u].seen = cache[u].seen \/ cache'[u].seen = generator
    BY <2>1
  <2>3. \A c \in Arena : lifecycleId[c] \in Int
    OBVIOUS
  <2>4. \A u \in Thread : cache[u].seen \in Int
    OBVIOUS
  <2> QED BY <2>1, <2>2, <2>3, <2>4
<1>3. CASE NewThread(t)
  <2>1. \A u \in Thread : cache'[u].seen = cache[u].seen \/ cache'[u].seen = NeverSeen
    BY <1>3 DEF NewThread, NoCache
  <2> QED BY <1>3, <2>1 DEF NewThread, arenas
<1>4. CASE FreeBlocks(t)
  <2>1. cache' = cache /\ generator' = generator
    BY <1>4 DEF FreeBlocks
  <2>2. \A c \in Arena : lifecycleId'[c] = lifecycleId[c] \/ lifecycleId'[c] = Dead
    BY <1>4 DEF FreeBlocks, arenas
  <2> QED BY <2>1, <2>2
<1>5. ASSUME NEW b \in Address, GetBlockSlow(t, b) PROVE IdsUnique'
  <2>1. call[t].arena \in Arena
    BY <1>5, UserInUse DEF GetBlockSlow, Goto, Working
  <2>2. /\ lifecycleId' = lifecycleId /\ generator' = generator
        /\ cache' = [cache EXCEPT ![t] = [seen |-> lifecycleId[call[t].arena], block |-> b]]
    BY <1>5 DEF GetBlockSlow
  <2> QED BY <2>1, <2>2
<1>6. ASSUME Restart(t) PROVE call[t].arena \in Arena
  BY <1>6 DEF Restart, Goto, CallsOnLive, Tearing
<1>7. CASE Begin(t)
  BY <1>7, <1>1, <1>2, <1>3 DEF Begin, Construct, TearDown, Allocate, arenas
<1>8. CASE Step(t)
  <2>1. CASE FreeBlocks(t) \/ Restart(t) \/ \E b \in Address : GetBlockSlow(t, b)
    BY <2>1, <1>2, <1>4, <1>5, <1>6 DEF Restart
  <2>2. CASE \/ CheckCache(t) \/ CheckHint(t) \/ FindThreadInfo(t) \/ LoadThreads(t)
             \/ PushThreadInfo(t) \/ AllocateObject(t) \/ AllocateChunk(t)
             \/ \E b \in Block : NewThreadInfo(t, b)
    BY <2>2, <1>1 DEF CheckCache, CheckHint, FindThreadInfo, LoadThreads, PushThreadInfo,
       AllocateObject, AllocateChunk, NewThreadInfo, arenas
  <2> QED BY <1>8, <2>1, <2>2 DEF Step
<1> QED BY <1>7, <1>8

-----------------------------------------------------------------------------
(* Types.                                                                  *)
Fit(chunks) == \A k \in DOMAIN chunks : Len(chunks[k].nodes) <= chunks[k].size

LEMMA ChunkAppend ==
  ASSUME NEW chunks \in Seq(Chunk), chunks # <<>>, Fit(chunks),
         Len(chunks[1].nodes) < chunks[1].size,
         NEW e \in [by : Thread, nth : Nat]
  PROVE  LET r == [chunks EXCEPT ![1].nodes = Append(@, e)]
         IN r \in Seq(Chunk) /\ Fit(r)
<1> DEFINE c == [chunks[1] EXCEPT !.nodes = Append(@, e)]
           r == [chunks EXCEPT ![1] = c]
<1>1. 1 \in DOMAIN chunks /\ chunks[1] \in Chunk
  OBVIOUS
<1>2. /\ chunks[1].nodes \in Seq([by : Thread, nth : Nat])
      /\ chunks[1].size \in Nat \ {0}
  BY <1>1 DEF Chunk
<1>3. /\ Append(chunks[1].nodes, e) \in Seq([by : Thread, nth : Nat])
      /\ Len(Append(chunks[1].nodes, e)) = Len(chunks[1].nodes) + 1
  BY <1>2
<1>4. c \in Chunk /\ Len(c.nodes) <= c.size
  <2>1. c.nodes = Append(chunks[1].nodes, e) /\ c.size = chunks[1].size
    BY <1>1 DEF Chunk
  <2>2. c \in Chunk
    BY <1>1, <1>2, <1>3 DEF Chunk
  <2>3. Len(chunks[1].nodes) \in Nat
    BY <1>2
  <2> QED BY <1>2, <1>3, <2>1, <2>2, <2>3
<1> HIDE DEF c
<1>5. r \in Seq(Chunk)
  BY <1>1, <1>4, ExceptSeq
<1>6. Fit(r)
  BY <1>1, <1>4 DEF Fit
<1> QED BY <1>5, <1>6 DEF c

LEMMA InitTyped ==
  ASSUME TypeOK, Types, NEW t \in Thread, NEW a \in Arena, InitArena(t, a),
         UNCHANGED <<pc, call, need, mine, next, registered>>
         \/ (/\ UNCHANGED <<need, mine, next, registered>>
             /\ pc' = [pc EXCEPT ![t] = "out"] /\ call' = [call EXCEPT ![t] = NoCall])
  PROVE  TypeOK' /\ Types'
<1> DEFINE b == initialBlock[a]
<1>1. b \in Address \cup {NoBlock}
  BY BlockAssumption DEF Address
<1>2. /\ InitialSize \in Nat /\ InitialSize >= HeaderSize + InfoSize
      /\ HeaderSize + InfoSize \in Nat
  BY InitialAssumption, SizeAssumption
<1>3. b # NoBlock => <<b>> \in Seq(Address)
  BY <1>1
<1>4. <<>> \in Seq(Address) /\ <<>> \in Seq(Chunk)
  OBVIOUS
<1> HIDE DEF b
<1>5. /\ lifecycleId' \in [Arena -> Nat \cup {Dead}] /\ generator' \in Nat
      /\ hint' \in [Arena -> Address \cup {NoBlock}]
      /\ spaceAllocated' \in [Arena -> Nat]
      /\ threads' \in [Arena -> Seq(Address)]
  BY <1>1, <1>2, <1>3, <1>4 DEF InitArena, NextId, TypeOK, Types, b
<1>6. /\ owner' \in [Address -> Thread \cup {NoThread}]
      /\ threadInfo' \in [Address -> Address \cup {NoBlock}]
      /\ pos' \in [Address -> Nat] /\ size' \in [Address -> Nat]
  BY <1>1, <1>2 DEF InitArena, TypeOK, b, blocks
<1>7. \A x \in Address : pos'[x] <= size'[x]
  BY <1>1, <1>2 DEF InitArena, TypeOK, b, blocks
<1>8. head' \in [Address -> Seq(Address)] /\ cleanup' \in [Address -> Seq(Chunk)]
  BY <1>3, <1>4 DEF InitArena, Types, b, infos
<1>11. cache' \in [Thread -> [seen : Nat \cup {NeverSeen}, block : Address \cup {NoBlock}]]
  <2>1. lifecycleId[a] \in Nat \cup {Dead} /\ generator \in Nat
    BY DEF TypeOK
  <2>2. [seen |-> generator, block |-> b]
          \in [seen : Nat \cup {NeverSeen}, block : Address \cup {NoBlock}]
    BY <1>1, <2>1
  <2> QED BY <2>2 DEF InitArena, Types, b, NextId
<1>9. \A x \in Address : \A k \in DOMAIN cleanup'[x] :
        Len(cleanup'[x][k].nodes) <= cleanup'[x][k].size
  <2>1. \A x \in Address : cleanup'[x] = cleanup[x] \/ cleanup'[x] = <<>>
    BY DEF InitArena, Types, infos
  <2>2. DOMAIN <<>> = {}
    OBVIOUS
  <2> QED BY <2>1, <2>2 DEF TypeOK
<1>10. /\ pc' \in [Thread -> Location]
       /\ call' \in [Thread -> {NoCall} \cup [arena : Arena] \cup Request]
       /\ need' \in [Thread -> Nat] /\ mine' \in [Thread -> Address \cup {NoBlock}]
       /\ next' \in [Thread -> Seq(Address)]
       /\ registered' \in [Arena -> [Thread -> Nat]]
  BY DEF TypeOK, Types, Location
<1> QED BY <1>5, <1>6, <1>7, <1>8, <1>9, <1>10, <1>11 DEF TypeOK, Types

LEMMA HeldInfo ==
  ASSUME TypeOK, Types, InfosSound, NEW a \in Arena, InUse(a), NEW b, Held(a, b)
  PROVE  /\ b \in Address
         /\ threadInfo[b] \in ToSet(threads[a])
         /\ threadInfo[b] \in Address
<1>1. PICK i \in ToSet(threads[a]) : b \in ToSet(head[i])
  BY DEF Held
<1>2. threads[a] \in Seq(Address)
  BY DEF Types
<1>3. i \in Address
  BY <1>2, ToSetType
<1>4. head[i] \in Seq(Address)
  BY <1>3 DEF Types
<1>5. b \in Address
  BY <1>1, <1>4, ToSetType
<1>6. threadInfo[b] = i
  BY <1>1 DEF InfosSound
<1> QED BY <1>3, <1>5, <1>6

LEMMA InfoHead ==
  ASSUME TypeOK, Types, InfosSound, NEW a \in Arena, InUse(a), NEW i \in ToSet(threads[a])
  PROVE  /\ i \in Address /\ head[i] \in Seq(Address) /\ head[i] # <<>>
         /\ Head(head[i]) \in ToSet(head[i]) /\ Head(head[i]) \in Address
<1>1. threads[a] \in Seq(Address)
  BY DEF Types
<1>2. i \in Address
  BY <1>1, ToSetType
<1>3. head[i] \in Seq(Address)
  BY <1>2 DEF Types
<1>4. head[i] # <<>>
  BY ToSetOfNone DEF InfosSound
<1> QED BY <1>2, <1>3, <1>4, HeadInSet

LEMMA LocalTyped ==
  ASSUME TypeOK, Types, UNCHANGED <<arenas, generator, blocks, infos, registered>>,
         pc' \in [Thread -> Location],
         call' \in [Thread -> {NoCall} \cup [arena : Arena] \cup Request],
         need' \in [Thread -> Nat], mine' \in [Thread -> Address \cup {NoBlock}],
         next' \in [Thread -> Seq(Address)],
         cache' \in [Thread -> [seen : Nat \cup {NeverSeen}, block : Address \cup {NoBlock}]]
  PROVE  TypeOK' /\ Types'
  BY DEF TypeOK, Types, arenas, blocks, infos

LEMMA BeginTyped ==
  ASSUME IInv, NEW t \in Thread, Begin(t)
  PROVE  TypeOK' /\ Types'
<1> TypeOK /\ Types
  BY DEF IInv
<1> USE DEF Goto
<1>0. /\ pc \in [Thread -> Location] /\ need \in [Thread -> Nat]
      /\ call \in [Thread -> {NoCall} \cup [arena : Arena] \cup Request]
      /\ mine \in [Thread -> Address \cup {NoBlock}] /\ next \in [Thread -> Seq(Address)]
      /\ cache \in [Thread -> [seen : Nat \cup {NeverSeen}, block : Address \cup {NoBlock}]]
  BY DEF TypeOK, Types
<1>1. CASE NewThread(t)
  <2>1. NoCache \in [seen : Nat \cup {NeverSeen}, block : Address \cup {NoBlock}]
    BY DEF NoCache
  <2> QED BY <1>0, <1>1, <2>1, LocalTyped DEF NewThread, history
<1>2. ASSUME NEW a \in Arena, Construct(t, a) PROVE TypeOK' /\ Types'
  BY <1>2, InitTyped DEF Construct, history
<1>3. ASSUME NEW a \in Arena, TearDown(t, a) PROVE TypeOK' /\ Types'
  <2>1. [arena |-> a] \in [arena : Arena] /\ "free" \in Location
    BY DEF Location, Tearing
  <2> QED BY <1>0, <1>3, <2>1, LocalTyped DEF TearDown
<1>4. ASSUME NEW a \in Arena, NEW n \in Bytes, NEW c \in BOOLEAN, Allocate(t, a, n, c)
      PROVE  TypeOK' /\ Types'
  <2>1. n \in Nat
    BY SizeAssumption
  <2>2. /\ [arena |-> a, bytes |-> n, cleanup |-> c, chunk |-> FALSE] \in Request
        /\ "cache" \in Location
    BY <2>1 DEF Request, Location
  <2> QED BY <1>0, <1>4, <2>1, <2>2, LocalTyped DEF Allocate, history
<1> QED BY <1>1, <1>2, <1>3, <1>4 DEF Begin

\* What a thread that has a block in hand knows of it.
LEMMA HandTyped ==
  ASSUME IInv, NEW t \in Thread, pc[t] = "have"
  PROVE  /\ mine[t] \in Address /\ threadInfo[mine[t]] \in Address
         /\ call[t] \in Request /\ call[t].arena \in Arena /\ InUse(call[t].arena)
         /\ call[t].bytes \in Nat /\ need[t] \in Nat
         /\ pos[mine[t]] \in Nat /\ size[mine[t]] \in Nat
         /\ pos[mine[t]] + need[t] <= size[mine[t]]
         /\ call[t].chunk \/ need[t] = call[t].bytes
<1>1. /\ TypeOK /\ Types /\ CallsOnLive /\ InfosSound /\ InHand(t)
  BY DEF IInv, Memory
<1>2. pc[t] \in Working
  BY DEF Working
<1>3. /\ call[t] \in Request /\ call[t].arena \in Arena /\ InUse(call[t].arena)
      /\ call[t].bytes \in Nat /\ (call[t].chunk \/ need[t] = call[t].bytes)
  BY <1>1, <1>2, UserInUse DEF CallsOnLive, Request
<1>4. Held(call[t].arena, mine[t]) /\ Avail(mine[t]) >= need[t]
  BY <1>1 DEF InHand
<1>5. mine[t] \in Address /\ threadInfo[mine[t]] \in Address
  BY <1>1, <1>3, <1>4, HeldInfo
<1>6. pos[mine[t]] \in Nat /\ size[mine[t]] \in Nat /\ need[t] \in Nat
  BY <1>1, <1>5 DEF TypeOK, Types
<1>7. pos[mine[t]] + need[t] <= size[mine[t]]
  <2> DEFINE p == pos[mine[t]]
             z == size[mine[t]]
             n == need[t]
  <2>1. z - p >= n /\ p \in Nat /\ z \in Nat /\ n \in Nat
    BY <1>4, <1>6 DEF Avail
  <2> HIDE DEF p, z, n
  <2>2. p + n <= z
    BY <2>1
  <2> QED BY <2>2 DEF p, z, n
<1> QED BY <1>3, <1>5, <1>6, <1>7

\* What a thread that has found its ThreadInfo knows of it.
LEMMA InfoTyped ==
  ASSUME IInv, NEW t \in Thread, pc[t] = "head"
  PROVE  /\ call[t].arena \in Arena /\ InUse(call[t].arena)
         /\ mine[t] \in ToSet(threads[call[t].arena])
         /\ mine[t] \in Address /\ owner[mine[t]] = t
         /\ head[mine[t]] \in Seq(Address) /\ head[mine[t]] # <<>>
         /\ Head(head[mine[t]]) \in ToSet(head[mine[t]])
         /\ Head(head[mine[t]]) \in Address
<1>1. /\ TypeOK /\ Types /\ CallsOnLive /\ InfosSound /\ InHand(t)
  BY DEF IInv, Memory
<1>2. pc[t] \in Working
  BY DEF Working
<1>3. call[t].arena \in Arena /\ InUse(call[t].arena)
  BY <1>1, <1>2, UserInUse
<1>4. mine[t] \in ToSet(threads[call[t].arena]) /\ owner[mine[t]] = t
  BY <1>1 DEF InHand
<1> QED BY <1>1, <1>3, <1>4, InfoHead

LEMMA RegistersTyped ==
  ASSUME TypeOK, Types, NEW t \in Thread, threadInfo[mine[t]] \in Address,
         call[t].arena \in Arena, NEW chunks \in Seq(Chunk), chunks # <<>>, Fit(chunks),
         Len(chunks[1].nodes) < chunks[1].size, Registers(t, chunks)
  PROVE  /\ cleanup' \in [Address -> Seq(Chunk)]
         /\ \A b \in Address : \A k \in DOMAIN cleanup'[b] :
              Len(cleanup'[b][k].nodes) <= cleanup'[b][k].size
         /\ registered' \in [Arena -> [Thread -> Nat]]
<1> DEFINE i == threadInfo[mine[t]]
           k == registered[call[t].arena][t] + 1
           e == [by |-> t, nth |-> k]
           r == [chunks EXCEPT ![1].nodes = Append(@, e)]
<1>1. registered \in [Arena -> [Thread -> Nat]] /\ cleanup \in [Address -> Seq(Chunk)]
  BY DEF Types
<1>2. k \in Nat
  BY <1>1
<1>3. e \in [by : Thread, nth : Nat]
  BY <1>2
<1>4. r \in Seq(Chunk) /\ Fit(r)
  BY <1>3, ChunkAppend
<1>5. /\ cleanup' = [cleanup EXCEPT ![i] = r]
      /\ registered' = [registered EXCEPT ![call[t].arena][t] = k]
  BY DEF Registers
<1> HIDE DEF r, k, i
<1>6. cleanup' \in [Address -> Seq(Chunk)]
  BY <1>1, <1>4, <1>5
<1>7. \A b \in Address : cleanup'[b] = cleanup[b] \/ cleanup'[b] = r
  BY <1>1, <1>5
<1>8. ASSUME NEW b \in Address PROVE Fit(cleanup'[b])
  <2>1. Fit(cleanup[b])
    BY DEF TypeOK, Fit
  <2> QED BY <1>4, <1>7, <2>1
<1>9. registered' \in [Arena -> [Thread -> Nat]]
  BY <1>1, <1>2, <1>5
<1> QED BY <1>6, <1>8, <1>9 DEF Fit

\* A step that makes a block: b has room for n units behind its header.
LEMMA NewBlockTyped ==
  ASSUME TypeOK, Types, NEW t \in Thread, NEW b, NEW last \in Address \cup {NoBlock},
         NEW n \in Nat, call[t].arena \in Arena, NewBlock(t, b, last, n)
  PROVE  /\ b \in Block /\ b \in Address
         /\ owner' = [owner EXCEPT ![b] = t]
         /\ owner[b] = NoThread /\ owner'[b] = t
         /\ \A x \in Address : x # b => owner'[x] = owner[x] /\ size'[x] = size[x]
         /\ owner' \in [Address -> Thread \cup {NoThread}]
         /\ spaceAllocated' \in [Arena -> Nat]
         /\ size' \in [Address -> Nat]
         /\ size'[b] >= HeaderSize + n
<1>1. /\ size \in [Address -> Nat] /\ spaceAllocated \in [Arena -> Nat]
      /\ owner \in [Address -> Thread \cup {NoThread}]
  BY DEF TypeOK
<1>2. SizeFor(last, n) \in Nat /\ SizeFor(last, n) >= HeaderSize + n
  BY <1>1, SizeForFits
<1>3. b \in Address
  BY DEF NewBlock, Address
<1> QED BY <1>1, <1>2, <1>3 DEF NewBlock

LEMMA StepTyped ==
  ASSUME IInv, NEW t \in Thread, Step(t)
  PROVE  TypeOK' /\ Types'
<1> TypeOK /\ Types /\ CallsOnLive
  BY DEF IInv
<1>0. /\ pc \in [Thread -> Location] /\ need \in [Thread -> Nat]
      /\ call \in [Thread -> {NoCall} \cup [arena : Arena] \cup Request]
      /\ mine \in [Thread -> Address \cup {NoBlock}] /\ next \in [Thread -> Seq(Address)]
      /\ cache \in [Thread -> [seen : Nat \cup {NeverSeen}, block : Address \cup {NoBlock}]]
      /\ lifecycleId \in [Arena -> Nat \cup {Dead}]
      /\ hint \in [Arena -> Address \cup {NoBlock}]
      /\ owner \in [Address -> Thread \cup {NoThread}]
      /\ threadInfo \in [Address -> Address \cup {NoBlock}]
      /\ pos \in [Address -> Nat] /\ size \in [Address -> Nat]
      /\ \A b \in Address : pos[b] <= size[b]
      /\ spaceAllocated \in [Arena -> Nat] /\ generator \in Nat
      /\ threads \in [Arena -> Seq(Address)]
      /\ head \in [Address -> Seq(Address)] /\ cleanup \in [Address -> Seq(Chunk)]
      /\ registered \in [Arena -> [Thread -> Nat]]
  BY DEF TypeOK, Types
<1>12. {"out", "cache", "hint", "slow", "load", "push", "head", "have", "init"} \subseteq Location
  BY DEF Location, Tearing
<1>13. ASSUME pc[t] \in Working PROVE call[t].arena \in Arena /\ InUse(call[t].arena)
  BY <1>13, UserInUse
<1>1. CASE FreeBlocks(t)
  <2>1. /\ pc' \in [Thread -> Location]
        /\ call' \in [Thread -> {NoCall} \cup [arena : Arena] \cup Request]
        /\ lifecycleId' \in [Arena -> Nat \cup {Dead}]
        /\ hint' \in [Arena -> Address \cup {NoBlock}]
        /\ spaceAllocated' \in [Arena -> Nat]
        /\ threads' \in [Arena -> Seq(Address)]
    <3>1. CASE Goto(t, {"free"}, "init") /\ UNCHANGED <<arenas, call>>
      BY <1>0, <1>12, <3>1 DEF Goto, arenas
    <3>2. CASE /\ Goto(t, {"free"}, "out")
               /\ lifecycleId' = [lifecycleId EXCEPT ![call[t].arena] = Dead]
               /\ threads' = [threads EXCEPT ![call[t].arena] = <<>>]
               /\ hint' = [hint EXCEPT ![call[t].arena] = NoBlock]
               /\ spaceAllocated' = [spaceAllocated EXCEPT ![call[t].arena] = 0]
               /\ call' = [call EXCEPT ![t] = NoCall]
      <4>1. <<>> \in Seq(Address)
        OBVIOUS
      <4>2. threads' \in [Arena -> Seq(Address)]
        BY <1>0, <3>2, <4>1
      <4> QED BY <1>0, <1>12, <3>2, <4>2 DEF Goto
    <3> QED BY <1>1, <3>1, <3>2 DEF FreeBlocks
  <2>4. owner' \in [Address -> Thread \cup {NoThread}]
    BY <1>0, <1>1 DEF FreeBlocks
  <2>5. registered' \in [Arena -> [Thread -> Nat]]
    BY <1>0, <1>1 DEF FreeBlocks
  <2>6. UNCHANGED <<generator, threadInfo, pos, size, head, cleanup, cache, need, mine, next>>
    BY <1>1 DEF FreeBlocks, infos
  <2> QED BY <1>0, <2>1, <2>4, <2>5, <2>6 DEF TypeOK, Types
<1>2. CASE Restart(t)
  <2>1. call[t].arena \in Arena
    BY <1>2 DEF Restart, Goto, CallsOnLive, Tearing
  <2> QED BY <1>2, <2>1, InitTyped DEF Restart, Goto, history
<1>3. CASE CheckCache(t)
  BY <1>0, <1>12, <1>3, LocalTyped DEF CheckCache, Goto, history
<1>4. CASE CheckHint(t)
  <2>1. call[t].arena \in Arena
    BY <1>4, <1>13 DEF CheckHint, Goto, Working
  <2> QED BY <1>0, <1>12, <1>4, <2>1, LocalTyped DEF CheckHint, Goto, history
<1>5. CASE FindThreadInfo(t)
  <2>1. call[t].arena \in Arena
    BY <1>5, <1>13 DEF FindThreadInfo, Goto, Working
  <2>2. \A i \in InfosOf(t) : i \in Address
    BY <1>0, <2>1, ToSetType DEF InfosOf
  <2>3. mine' \in [Thread -> Address \cup {NoBlock}]
    BY <1>0, <1>5, <2>2 DEF FindThreadInfo
  <2> QED BY <1>0, <1>12, <1>5, <2>3, LocalTyped DEF FindThreadInfo, Goto, history
<1>6. ASSUME NEW b \in Block, NewThreadInfo(t, b) PROVE TypeOK' /\ Types'
  <2>1. call[t].arena \in Arena
    BY <1>6, <1>13 DEF NewThreadInfo, Goto, Working
  <2>2. InfoSize + need[t] \in Nat /\ HeaderSize + InfoSize \in Nat
    BY <1>0, SizeAssumption
  <2>3. /\ b \in Address /\ size'[b] >= HeaderSize + (InfoSize + need[t])
        /\ \A x \in Address : x # b => size'[x] = size[x]
        /\ owner' \in [Address -> Thread \cup {NoThread}]
        /\ spaceAllocated' \in [Arena -> Nat] /\ size' \in [Address -> Nat]
    BY <1>6, <2>1, <2>2, NewBlockTyped DEF NewThreadInfo
  <2>4. /\ <<b>> \in Seq(Address) /\ <<>> \in Seq(Chunk)
        /\ DOMAIN <<>> = {}
    BY <2>3
  <2>5. /\ pos' = [pos EXCEPT ![b] = HeaderSize + InfoSize]
        /\ threadInfo' = [threadInfo EXCEPT ![b] = b]
        /\ head' = [head EXCEPT ![b] = <<b>>] /\ cleanup' = [cleanup EXCEPT ![b] = <<>>]
        /\ mine' = [mine EXCEPT ![t] = b] /\ pc' = [pc EXCEPT ![t] = "load"]
        /\ UNCHANGED <<lifecycleId, threads, hint, generator, cache, call, need, next, registered>>
    BY <1>6 DEF NewThreadInfo, Goto, history
  <2>6. /\ pos' \in [Address -> Nat] /\ threadInfo' \in [Address -> Address \cup {NoBlock}]
        /\ head' \in [Address -> Seq(Address)] /\ cleanup' \in [Address -> Seq(Chunk)]
        /\ mine' \in [Thread -> Address \cup {NoBlock}] /\ pc' \in [Thread -> Location]
    BY <1>0, <1>12, <2>2, <2>3, <2>4, <2>5
  <2>7. ASSUME NEW x \in Address PROVE pos'[x] <= size'[x]
    <3>1. CASE x = b
      <4>1. pos'[b] = HeaderSize + InfoSize
        BY <1>0, <2>3, <2>5
      <4>2. HeaderSize \in Nat /\ InfoSize \in Nat /\ need[t] \in Nat
        BY <1>0, SizeAssumption
      <4> QED BY <2>3, <3>1, <4>1, <4>2
    <3>2. CASE x # b
      BY <1>0, <2>3, <2>5, <3>2
    <3> QED BY <3>1, <3>2
  <2>8. \A x \in Address : cleanup'[x] = cleanup[x] \/ cleanup'[x] = <<>>
    BY <1>0, <2>5
  <2>9. \A x \in Address : \A k \in DOMAIN cleanup'[x] :
          Len(cleanup'[x][k].nodes) <= cleanup'[x][k].size
    BY <2>4, <2>8 DEF TypeOK
  <2> QED BY <1>0, <2>3, <2>5, <2>6, <2>7, <2>9 DEF TypeOK, Types
<1>7. CASE LoadThreads(t)
  <2>1. call[t].arena \in Arena
    BY <1>7, <1>13 DEF LoadThreads, Goto, Working
  <2> QED BY <1>0, <1>12, <1>7, <2>1, LocalTyped DEF LoadThreads, Goto, history
<1>8. CASE PushThreadInfo(t)
  <2>1. InHand(t) /\ pc[t] = "push"
    BY <1>8 DEF PushThreadInfo, Goto, IInv
  <2>2. mine[t] \in Address
    BY <2>1 DEF InHand, Address
  <2>3. <<mine[t]>> \o next[t] \in Seq(Address)
    BY <1>0, <2>2
  <2>4. threads' \in [Arena -> Seq(Address)]
    BY <1>0, <1>8, <2>3 DEF PushThreadInfo
  <2>5. pc' \in [Thread -> Location]
    BY <1>0, <1>12, <1>8 DEF PushThreadInfo, Goto
  <2> QED BY <1>0, <1>8, <2>4, <2>5
          DEF PushThreadInfo, TypeOK, Types, blocks, infos, history
<1>9. ASSUME NEW b \in Address, GetBlockSlow(t, b) PROVE TypeOK' /\ Types'
  <2> DEFINE a == call[t].arena
             i == mine[t]
             last == Head(head[i])
  <2>1. pc[t] = "head"
    BY <1>9 DEF GetBlockSlow, Goto
  <2>2. a \in Arena /\ i \in Address /\ last \in Address /\ head[i] \in Seq(Address)
    BY <2>1, InfoTyped
  <2>3. /\ pc' = [pc EXCEPT ![t] = "have"] /\ mine' = [mine EXCEPT ![t] = b]
        /\ cache' = [cache EXCEPT ![t] = [seen |-> lifecycleId[a], block |-> b]]
        /\ hint' = [hint EXCEPT ![a] = b]
        /\ UNCHANGED <<lifecycleId, threads, generator, cleanup, call, need, next, registered>>
    BY <1>9 DEF GetBlockSlow, Goto, history
  <2>4. lifecycleId[a] \in Nat
    BY <1>0, <2>1, <1>13, <2>2 DEF Working, InUse, Live
  <2>5. /\ pc' \in [Thread -> Location] /\ mine' \in [Thread -> Address \cup {NoBlock}]
        /\ cache' \in [Thread -> [seen : Nat \cup {NeverSeen}, block : Address \cup {NoBlock}]]
        /\ hint' \in [Arena -> Address \cup {NoBlock}]
    BY <1>0, <1>12, <2>3, <2>4
  <2>6. /\ owner' \in [Address -> Thread \cup {NoThread}]
        /\ threadInfo' \in [Address -> Address \cup {NoBlock}]
        /\ pos' \in [Address -> Nat] /\ size' \in [Address -> Nat]
        /\ \A x \in Address : pos'[x] <= size'[x]
        /\ spaceAllocated' \in [Arena -> Nat]
        /\ head' \in [Address -> Seq(Address)]
    <3>1. CASE UNCHANGED <<spaceAllocated, blocks, head>>
      BY <1>0, <3>1 DEF blocks
    <3>2. CASE /\ NewBlock(t, b, last, need[t])
               /\ threadInfo' = [threadInfo EXCEPT ![b] = i]
               /\ pos' = [pos EXCEPT ![b] = HeaderSize]
               /\ head' = [head EXCEPT ![i] = <<b>> \o @]
      <4>1. need[t] \in Nat /\ HeaderSize \in Nat
        BY <1>0, SizeAssumption
      <4>0. NewBlock(t, b, last, need[t])
        BY <3>2
      <4>2. /\ size'[b] >= HeaderSize + need[t]
            /\ \A x \in Address : x # b => size'[x] = size[x]
            /\ owner' \in [Address -> Thread \cup {NoThread}]
            /\ spaceAllocated' \in [Arena -> Nat] /\ size' \in [Address -> Nat]
        <5>1. PICK l \in Address \cup {NoBlock} : l = last
          BY <2>2
        <5>4. PICK n \in Nat : n = need[t]
          BY <4>1
        <5>2. NewBlock(t, b, l, n)
          BY <4>0, <5>1, <5>4
        <5> HIDE DEF last
        <5>3. call[t].arena \in Arena
          BY <2>2
        <5>5. size'[b] >= HeaderSize + n
          BY <5>2, <5>3, NewBlockTyped
        <5>6. \A x \in Address : x # b => size'[x] = size[x]
          BY <5>2, <5>3, NewBlockTyped
        <5>7. owner' \in [Address -> Thread \cup {NoThread}]
          BY <5>2, <5>3, NewBlockTyped
        <5>8. spaceAllocated' \in [Arena -> Nat] /\ size' \in [Address -> Nat]
          BY <5>2, <5>3, NewBlockTyped
        <5> QED BY <5>4, <5>5, <5>6, <5>7, <5>8
      <4>3. <<b>> \o head[i] \in Seq(Address)
        BY <2>2
      <4>4. head' \in [Address -> Seq(Address)]
        BY <1>0, <2>2, <3>2, <4>3
      <4>5. \A x \in Address : pos'[x] <= size'[x]
        <5>1. pos'[b] = HeaderSize /\ \A x \in Address : x # b => pos'[x] = pos[x]
          BY <1>0, <3>2
        <5>2. size'[b] \in Nat /\ pos'[b] <= size'[b]
          BY <4>1, <4>2, <5>1
        <5> QED BY <1>0, <4>2, <5>1, <5>2
      <4> QED BY <1>0, <2>2, <3>2, <4>1, <4>2, <4>4, <4>5
    <3> QED BY <1>9, <3>1, <3>2 DEF GetBlockSlow
  <2> QED BY <1>0, <2>3, <2>5, <2>6 DEF TypeOK, Types
<1>10. CASE AllocateObject(t)
  <2> DEFINE m == mine[t]
             i == threadInfo[m]
             n == ChunkBytes(NextChunk(i))
  <2>1. pc[t] = "have" /\ ~call[t].chunk
    BY <1>10 DEF AllocateObject
  <2>2. /\ m \in Address /\ i \in Address /\ call[t] \in Request /\ call[t].arena \in Arena
        /\ call[t].bytes \in Nat /\ pos[m] \in Nat /\ size[m] \in Nat
        /\ pos[m] + call[t].bytes <= size[m]
    <3>1. need[t] = call[t].bytes
      BY <2>1, HandTyped
    <3> QED BY <2>1, <3>1, HandTyped
  <2>3. /\ pos' = [pos EXCEPT ![m] = @ + call[t].bytes]
        /\ UNCHANGED <<arenas, generator, owner, threadInfo, size, head, cache>>
    BY <1>10 DEF AllocateObject, AllocFromBlock
  <2>4. pos' \in [Address -> Nat] /\ \A x \in Address : pos'[x] <= size[x]
    <3>1. pos \in [Address -> Nat] /\ \A x \in Address : pos[x] <= size[x]
      BY <1>0
    <3>2. PICK e \in Nat : e = pos[m] + call[t].bytes /\ e <= size[m]
      BY <2>2
    <3>3. pos' = [pos EXCEPT ![m] = e]
      BY <2>3, <3>2
    <3> HIDE DEF m
    <3>4. pos' \in [Address -> Nat]
      BY <3>1, <3>2, <3>3
    <3>5. \A x \in Address : pos'[x] <= size[x]
      BY <3>1, <3>2, <3>3
    <3> QED BY <3>4, <3>5
  <2>5. n \in Nat
    BY <1>0, <2>2, NextChunkType
  <2> HIDE DEF n
  <2>6. /\ pc' \in [Thread -> Location]
        /\ call' \in [Thread -> {NoCall} \cup [arena : Arena] \cup Request]
        /\ need' \in [Thread -> Nat] /\ mine' \in [Thread -> Address \cup {NoBlock}]
        /\ next' \in [Thread -> Seq(Address)]
    <3>1. CASE Finish(t)
      BY <1>0, <1>12, <3>1 DEF Finish, Goto
    <3>2. CASE /\ pc' = [pc EXCEPT ![t] = IF Avail(m) - call[t].bytes < n THEN "cache" ELSE "have"]
               /\ need' = [need EXCEPT ![t] = n]
               /\ call' = [call EXCEPT ![t].chunk = TRUE]
               /\ UNCHANGED <<mine, next>>
      <4>1. [call[t] EXCEPT !.chunk = TRUE] \in Request
        BY <2>2 DEF Request
      <4> QED BY <1>0, <1>12, <2>5, <3>2, <4>1
    <3> QED BY <1>10, <3>1, <3>2 DEF AllocateObject, Goto, n
  <2>7. /\ cleanup' \in [Address -> Seq(Chunk)]
        /\ \A b \in Address : \A k \in DOMAIN cleanup'[b] :
             Len(cleanup'[b][k].nodes) <= cleanup'[b][k].size
        /\ registered' \in [Arena -> [Thread -> Nat]]
    <3>1. CASE UNCHANGED <<cleanup, registered>>
      BY <1>0, <3>1 DEF TypeOK
    <3>2. CASE ~Full(i) /\ Registers(t, cleanup[i])
      <4>1. cleanup[i] # <<>> /\ Len(cleanup[i][1].nodes) # cleanup[i][1].size
        BY <3>2 DEF Full
      <4>2. cleanup[i] \in Seq(Chunk)
        BY <1>0, <2>2
      <4>3. cleanup[i][1] \in Chunk /\ 1 \in DOMAIN cleanup[i]
        BY <4>1, <4>2
      <4>4. Len(cleanup[i][1].nodes) \in Nat /\ cleanup[i][1].size \in Nat
        BY <4>3 DEF Chunk
      <4>5. Fit(cleanup[i])
        BY <2>2 DEF TypeOK, Fit
      <4>6. Len(cleanup[i][1].nodes) < cleanup[i][1].size
        BY <4>1, <4>3, <4>4, <4>5 DEF Fit
      <4> QED BY <2>2, <3>2, <4>1, <4>2, <4>5, <4>6, RegistersTyped
    <3> QED BY <1>10, <3>1, <3>2 DEF AllocateObject
  <2> QED BY <1>0, <2>3, <2>4, <2>6, <2>7 DEF TypeOK, Types, arenas
<1>11. CASE AllocateChunk(t)
  <2> DEFINE m == mine[t]
             i == threadInfo[m]
  <2>1. pc[t] = "have"
    BY <1>11 DEF AllocateChunk
  <2>2. /\ m \in Address /\ i \in Address /\ call[t].arena \in Arena
        /\ need[t] \in Nat /\ pos[m] \in Nat /\ size[m] \in Nat
        /\ pos[m] + need[t] <= size[m]
    BY <2>1, HandTyped
  <2>3. /\ pos' = [pos EXCEPT ![m] = @ + need[t]]
        /\ UNCHANGED <<arenas, generator, owner, threadInfo, size, head, cache>>
    BY <1>11 DEF AllocateChunk, AllocFromBlock
  <2>4. pos' \in [Address -> Nat] /\ \A x \in Address : pos'[x] <= size[x]
    BY <1>0, <2>2, <2>3
  <2>5. /\ pc' \in [Thread -> Location]
        /\ call' \in [Thread -> {NoCall} \cup [arena : Arena] \cup Request]
        /\ need' \in [Thread -> Nat] /\ mine' \in [Thread -> Address \cup {NoBlock}]
        /\ next' \in [Thread -> Seq(Address)]
    BY <1>0, <1>12, <1>11 DEF AllocateChunk, Finish, Goto
  <2>6. /\ cleanup' \in [Address -> Seq(Chunk)]
        /\ \A b \in Address : \A k \in DOMAIN cleanup'[b] :
             Len(cleanup'[b][k].nodes) <= cleanup'[b][k].size
        /\ registered' \in [Arena -> [Thread -> Nat]]
    <3> DEFINE c == [size |-> NextChunk(i), nodes |-> <<>>]
    <3>1. NextChunk(i) \in Nat \ {0} /\ cleanup[i] \in Seq(Chunk)
      BY <1>0, <2>2, NextChunkType
    <3>2. c \in Chunk /\ Len(c.nodes) = 0 /\ c.size \in Nat \ {0}
      BY <3>1 DEF Chunk
    <3> HIDE DEF c
    <3>3. /\ <<c>> \o cleanup[i] \in Seq(Chunk) /\ <<c>> \o cleanup[i] # <<>>
          /\ (<<c>> \o cleanup[i])[1] = c
          /\ \A k \in DOMAIN (<<c>> \o cleanup[i]) : k # 1 =>
               k - 1 \in DOMAIN cleanup[i] /\ (<<c>> \o cleanup[i])[k] = cleanup[i][k - 1]
      BY <3>1, <3>2
    <3>4. Fit(cleanup[i])
      BY <2>2 DEF TypeOK, Fit
    <3>5. Fit(<<c>> \o cleanup[i])
      BY <3>2, <3>3, <3>4 DEF Fit
    <3>6. NewList(i) = <<c>> \o cleanup[i]
      BY DEF NewList, c
    <3>7. Registers(t, <<c>> \o cleanup[i])
      BY <1>11, <3>6 DEF AllocateChunk
    <3>8. Len((<<c>> \o cleanup[i])[1].nodes) < (<<c>> \o cleanup[i])[1].size
      BY <3>2, <3>3
    <3> QED BY <2>2, <3>3, <3>5, <3>7, <3>8, RegistersTyped
  <2> QED BY <1>0, <2>3, <2>4, <2>5, <2>6 DEF TypeOK, Types, arenas
<1> QED
  BY <1>1, <1>2, <1>3, <1>4, <1>5, <1>6, <1>7, <1>8, <1>9, <1>10, <1>11 DEF Step

-----------------------------------------------------------------------------
(* What a step leaves as it was.                                           *)
LEMMA InUseSame ==
  ASSUME NEW t \in Thread, lifecycleId' = lifecycleId,
         \A u \in Thread \ {t} : pc'[u] = pc[u] /\ call'[u] = call[u],
         pc[t] # "init", pc'[t] # "init"
  PROVE  \A c \in Arena : InUse(c)' <=> InUse(c)
  BY DEF InUse, Live, Users

LEMMA MemorySame ==
  ASSUME Memory, UNCHANGED <<lifecycleId, threads, hint, owner, threadInfo, head>>,
         \A c \in Arena : InUse(c)' <=> InUse(c),
         \A u \in Thread : cache'[u] = cache[u] \/ cache'[u].block = NoBlock
  PROVE  Memory'
<1>1. InfosSound'
  BY DEF Memory, InfosSound
<1>2. InfosApart'
  BY DEF Memory, InfosApart
<1>3. \A c, b : Held(c, b)' <=> Held(c, b)
  BY DEF Held
<1>4. HintsHeld'
  BY <1>3 DEF Memory, HintsHeld
<1>5. CachesHeld'
  BY <1>3 DEF Memory, CachesHeld
<1> QED BY <1>1, <1>2, <1>4, <1>5 DEF Memory

\* A step of t that changes only what is its own, or nobody's, leaves what
\* another thread u has in hand.
LEMMA OthersKeep ==
  ASSUME CallsOnLive, InfosSound, NEW t \in Thread, NEW u \in Thread \ {t}, InHand(u),
         TypeOK, Types,
         pc'[u] = pc[u], call'[u] = call[u], mine'[u] = mine[u], need'[u] = need[u],
         \A c \in Arena : InUse(c)' <=> InUse(c),
         \A b \in Address : owner[b] \in Thread \ {t} =>
           /\ owner'[b] = owner[b] /\ threadInfo'[b] = threadInfo[b]
           /\ pos'[b] = pos[b] /\ size'[b] = size[b] /\ head'[b] = head[b],
         \A c \in Arena :
           /\ ToSet(threads[c]) \subseteq ToSet(threads'[c])
           /\ \A i \in ToSet(threads'[c]) : i \in ToSet(threads[c]) \/ owner[i] = t
  PROVE  InHand(u)'
<1> DEFINE a == call[u].arena
           m == mine[u]
<1>1. ASSUME pc[u] \in Working PROVE a \in Arena /\ InUse(a)
  BY <1>1, UserInUse
<1>2. ASSUME a \in Arena, InUse(a), Held(a, m), owner[m] = u
      PROVE  Held(a, m)' /\ owner'[m] = u /\ pos'[m] = pos[m] /\ size'[m] = size[m]
  <2>1. PICK i \in ToSet(threads[a]) : m \in ToSet(head[i])
    BY <1>2 DEF Held
  <2>2. owner[i] = u
    BY <1>2, <2>1 DEF InfosSound
  <2>3. m \in Address /\ i \in Address
    BY <1>2, <2>1, HeldInfo, InfoHead
  <2>4. i \in ToSet(threads'[a]) /\ head'[i] = head[i]
    BY <1>2, <2>1, <2>2, <2>3
  <2>5. Held(a, m)'
    BY <2>1, <2>4 DEF Held
  <2> QED BY <1>2, <2>3, <2>5
<1>3. CASE pc[u] \in {"hint", "slow"}
  BY <1>1, <1>2, <1>3 DEF InHand, Working
<1>4. CASE pc[u] \in {"load", "push"}
  <2>1. m \in Address
    BY <1>4 DEF InHand, Address
  <2> QED BY <1>4, <2>1 DEF InHand
<1>5. CASE pc[u] = "head"
  <2>1. a \in Arena /\ InUse(a) /\ m \in ToSet(threads[a]) /\ owner[m] = u
    BY <1>1, <1>5 DEF InHand, Working
  <2>2. m \in Address
    BY <2>1, InfoHead
  <2> QED BY <1>5, <2>1, <2>2 DEF InHand
<1>6. CASE pc[u] = "have"
  <2>1. Held(a, m) /\ owner[m] = u /\ size[m] - pos[m] >= need[u]
    BY <1>6 DEF InHand, Avail
  <2>2. Held(a, m)' /\ owner'[m] = u /\ pos'[m] = pos[m] /\ size'[m] = size[m]
    BY <1>1, <1>2, <1>6, <2>1 DEF Working
  <2> QED BY <1>6, <2>1, <2>2 DEF InHand, Avail
<1>7. CASE pc[u] \notin {"hint", "slow", "load", "push", "head", "have"}
  BY <1>7 DEF InHand
<1> QED BY <1>3, <1>4, <1>5, <1>6, <1>7

-----------------------------------------------------------------------------
(* The steps that make no block and publish none.                          *)
LEMMA QuietMemory ==
  ASSUME IInv, NEW t \in Thread,
         UNCHANGED <<lifecycleId, threads, hint, owner, threadInfo, size, head>>,
         pc[t] # "init", pc'[t] # "init",
         \A u \in Thread \ {t} : /\ pc'[u] = pc[u] /\ call'[u] = call[u]
                                 /\ mine'[u] = mine[u] /\ need'[u] = need[u],
         \A b \in Address : owner[b] \in Thread \ {t} => pos'[b] = pos[b],
         \A u \in Thread : cache'[u] = cache[u] \/ cache'[u].block = NoBlock
  PROVE  Memory' /\ \A u \in Thread \ {t} : InHand(u)'
<1>1. \A c \in Arena : InUse(c)' <=> InUse(c)
  BY InUseSame
<1>2. Memory'
  BY <1>1, MemorySame DEF IInv
<1>3. ASSUME NEW u \in Thread \ {t} PROVE InHand(u)'
  <2>1. CallsOnLive /\ InfosSound /\ InHand(u) /\ TypeOK /\ Types
    BY DEF IInv, Memory
  <2>2. \A b \in Address : owner[b] \in Thread \ {t} =>
           /\ owner'[b] = owner[b] /\ threadInfo'[b] = threadInfo[b]
           /\ pos'[b] = pos[b] /\ size'[b] = size[b] /\ head'[b] = head[b]
    OBVIOUS
  <2>3. \A c \in Arena :
           /\ ToSet(threads[c]) \subseteq ToSet(threads'[c])
           /\ \A i \in ToSet(threads'[c]) : i \in ToSet(threads[c]) \/ owner[i] = t
    OBVIOUS
  <2> QED BY <1>1, <2>1, <2>2, <2>3, OthersKeep
<1> QED BY <1>2, <1>3

LEMMA QuietSteps ==
  ASSUME IInv, NEW t \in Thread,
         \/ NewThread(t)
         \/ \E a \in Arena : TearDown(t, a)
                             \/ \E n \in Bytes, c \in BOOLEAN : Allocate(t, a, n, c)
         \/ CheckCache(t) \/ CheckHint(t) \/ FindThreadInfo(t) \/ LoadThreads(t)
         \/ AllocateObject(t) \/ AllocateChunk(t)
  PROVE  Memory' /\ \A u \in Thread : InHand(u)'
<1>1. /\ TypeOK /\ Types /\ CallsOnLive /\ InfosSound /\ HintsHeld /\ CachesHeld /\ InHand(t)
      /\ InfosApart
  BY DEF IInv, Memory
<1>2. /\ pc \in [Thread -> Location] /\ need \in [Thread -> Nat]
      /\ call \in [Thread -> {NoCall} \cup [arena : Arena] \cup Request]
      /\ mine \in [Thread -> Address \cup {NoBlock}]
      /\ cache \in [Thread -> [seen : Nat \cup {NeverSeen}, block : Address \cup {NoBlock}]]
      /\ pos \in [Address -> Nat] /\ owner \in [Address -> Thread \cup {NoThread}]
  BY <1>1 DEF TypeOK, Types
<1>3. ASSUME pc[t] \in Working PROVE call[t].arena \in Arena /\ InUse(call[t].arena)
  BY <1>1, <1>3, UserInUse
<1>4. ASSUME Memory', \A u \in Thread \ {t} : InHand(u)', InHand(t)'
      PROVE  Memory' /\ \A u \in Thread : InHand(u)'
  BY <1>4
<1>5. \A a, b : UNCHANGED <<threads, head>> => (Held(a, b)' <=> Held(a, b))
  BY DEF Held
<1>6. CASE NewThread(t)
  <2>1. Memory' /\ \A u \in Thread \ {t} : InHand(u)'
    BY <1>2, <1>6, QuietMemory DEF NewThread, NoCache, arenas, blocks, infos
  <2>2. InHand(t)'
    BY <1>6 DEF NewThread, InHand
  <2> QED BY <1>4, <2>1, <2>2
<1>7. ASSUME NEW a \in Arena,
             TearDown(t, a) \/ \E n \in Bytes, c \in BOOLEAN : Allocate(t, a, n, c)
      PROVE  Memory' /\ \A u \in Thread : InHand(u)'
  <2>1. /\ pc[t] = "out" /\ pc'[t] \in {"free", "cache"}
        /\ \A u \in Thread \ {t} : pc'[u] = pc[u]
        /\ \A u \in Thread \ {t} : call'[u] = call[u] /\ need'[u] = need[u]
        /\ UNCHANGED <<lifecycleId, threads, hint, owner, threadInfo, size, head, pos, mine, cache>>
    BY <1>2, <1>7 DEF TearDown, Allocate, Goto, arenas, blocks, infos
  <2>2. Memory' /\ \A u \in Thread \ {t} : InHand(u)'
    BY <1>2, <2>1, QuietMemory
  <2>3. InHand(t)'
    BY <1>2, <2>1 DEF InHand
  <2> QED BY <1>4, <2>2, <2>3
<1>8. CASE CheckCache(t)
  <2> DEFINE a == call[t].arena
             b == IF cache[t].seen = lifecycleId[a] THEN cache[t].block ELSE NoBlock
             fits == b # NoBlock /\ Avail(b) >= need[t]
  <2>1. /\ pc[t] = "cache" /\ pc' = [pc EXCEPT ![t] = IF fits THEN "have" ELSE "hint"]
        /\ mine' = [mine EXCEPT ![t] = b] /\ UNCHANGED <<call, need, cache>>
        /\ UNCHANGED <<lifecycleId, threads, hint, owner, threadInfo, size, head, pos>>
    BY <1>8 DEF CheckCache, Goto, arenas, blocks, infos
  <2>2. Memory' /\ \A u \in Thread \ {t} : InHand(u)'
    BY <1>2, <2>1, QuietMemory
  <2>3. b # NoBlock => Held(a, b) /\ owner[b] = t
    BY <1>1, <1>3, <2>1 DEF CachesHeld, Working
  <2> HIDE DEF b
  <2>4. mine'[t] = b /\ pc'[t] = IF fits THEN "have" ELSE "hint"
    BY <1>2, <2>1
  <2>5. InHand(t)'
    BY <1>5, <2>1, <2>3, <2>4 DEF InHand, Avail
  <2> QED BY <1>4, <2>2, <2>5
<1>9. CASE CheckHint(t)
  <2> DEFINE a == call[t].arena
             b == hint[a]
             m == IF Usable(t, b) THEN b ELSE mine[t]
             fits == Usable(t, b) /\ Avail(b) >= need[t]
  <2>1. /\ pc[t] = "hint" /\ pc' = [pc EXCEPT ![t] = IF fits THEN "have" ELSE "slow"]
        /\ mine' = [mine EXCEPT ![t] = m] /\ UNCHANGED <<call, need, cache>>
        /\ UNCHANGED <<lifecycleId, threads, hint, owner, threadInfo, size, head, pos>>
    BY <1>9 DEF CheckHint, Goto, arenas, blocks, infos
  <2>2. Memory' /\ \A u \in Thread \ {t} : InHand(u)'
    BY <1>2, <2>1, QuietMemory
  <2>3. Usable(t, b) => Held(a, b) /\ owner[b] = t
    BY <1>1, <1>3, <2>1 DEF HintsHeld, Usable, Working
  <2>4. m # NoBlock => Held(a, m) /\ owner[m] = t
    BY <1>1, <2>1, <2>3 DEF InHand
  <2>5. fits => Avail(m) >= need[t] /\ m # NoBlock
    BY DEF Usable
  <2> HIDE DEF m, fits
  <2>6. mine'[t] = m /\ pc'[t] = IF fits THEN "have" ELSE "slow"
    BY <1>2, <2>1
  <2>7. InHand(t)'
    BY <1>5, <2>1, <2>4, <2>5, <2>6 DEF InHand, Avail
  <2> QED BY <1>4, <2>2, <2>7
<1>10. CASE FindThreadInfo(t)
  <2> DEFINE a == call[t].arena
  <2>1. /\ pc[t] = "slow" /\ pc' = [pc EXCEPT ![t] = "head"]
        /\ \A u \in Thread \ {t} : mine'[u] = mine[u]
        /\ UNCHANGED <<call, need, cache>>
        /\ UNCHANGED <<lifecycleId, threads, hint, owner, threadInfo, size, head, pos>>
    BY <1>2, <1>10 DEF FindThreadInfo, Goto, arenas, blocks, infos
  <2>2. Memory' /\ \A u \in Thread \ {t} : InHand(u)'
    BY <1>2, <2>1, QuietMemory
  <2>3. a \in Arena /\ InUse(a)
    BY <1>3, <2>1 DEF Working
  <2>4. mine'[t] \in ToSet(threads[a]) /\ owner[mine'[t]] = t
    <3>1. CASE mine[t] # NoBlock /\ mine' = [mine EXCEPT ![t] = threadInfo[@]]
      <4>1. PICK i \in ToSet(threads[a]) : mine[t] \in ToSet(head[i])
        BY <1>1, <2>1, <3>1 DEF InHand, Held
      <4>2. owner[mine[t]] = t
        BY <1>1, <2>1, <3>1 DEF InHand
      <4>3. threadInfo[mine[t]] = i /\ owner[i] = t
        BY <1>1, <2>3, <4>1, <4>2 DEF InfosSound
      <4> QED BY <1>2, <3>1, <4>1, <4>3
    <3>2. CASE \E i \in InfosOf(t) : mine' = [mine EXCEPT ![t] = i]
      BY <1>2, <3>2 DEF InfosOf
    <3> QED BY <1>10, <3>1, <3>2 DEF FindThreadInfo
  <2>5. InHand(t)'
    BY <1>2, <2>1, <2>4 DEF InHand
  <2> QED BY <1>4, <2>2, <2>5
<1>11. CASE LoadThreads(t)
  <2>1. /\ pc[t] = "load" /\ pc' = [pc EXCEPT ![t] = "push"]
        /\ UNCHANGED <<call, need, cache, mine>>
        /\ UNCHANGED <<lifecycleId, threads, hint, owner, threadInfo, size, head, pos>>
    BY <1>11 DEF LoadThreads, Goto, arenas, blocks, infos
  <2>2. Memory' /\ \A u \in Thread \ {t} : InHand(u)'
    BY <1>2, <2>1, QuietMemory
  <2>3. \A c \in Arena : InUse(c)' <=> InUse(c)
    BY <1>2, <2>1, InUseSame
  <2>4. InHand(t)'
    BY <1>1, <1>2, <2>1, <2>3 DEF InHand
  <2> QED BY <1>4, <2>2, <2>4
<1>12. ASSUME AllocateObject(t) \/ AllocateChunk(t)
       PROVE  /\ pc[t] = "have"
              /\ pos' = [pos EXCEPT ![mine[t]] = @ + IF call[t].chunk THEN need[t] ELSE call[t].bytes]
              /\ UNCHANGED <<lifecycleId, threads, hint, owner, threadInfo, size, head, cache>>
  BY <1>12 DEF AllocateObject, AllocateChunk, AllocFromBlock, arenas
<1>13. ASSUME AllocateObject(t) \/ AllocateChunk(t)
       PROVE  \A b \in Address : owner[b] \in Thread \ {t} => pos'[b] = pos[b]
  <2>1. owner[mine[t]] = t
    BY <1>1, <1>12, <1>13 DEF InHand
  <2> QED BY <1>2, <1>12, <1>13, <2>1
<1>14. ASSUME AllocateObject(t) \/ AllocateChunk(t), Finish(t)
       PROVE  Memory' /\ \A u \in Thread : InHand(u)'
  <2>1. /\ pc' = [pc EXCEPT ![t] = "out"] /\ call' = [call EXCEPT ![t] = NoCall]
        /\ need' = [need EXCEPT ![t] = 0] /\ mine' = [mine EXCEPT ![t] = NoBlock]
    BY <1>14 DEF Finish, Goto
  <2>2. Memory' /\ \A u \in Thread \ {t} : InHand(u)'
    BY <1>2, <1>12, <1>13, <1>14, <2>1, QuietMemory
  <2>3. InHand(t)'
    BY <1>2, <2>1 DEF InHand
  <2> QED BY <1>4, <2>2, <2>3
<1>15. CASE AllocateChunk(t)
  BY <1>14, <1>15 DEF AllocateChunk
<1>16. CASE AllocateObject(t)
  <2> DEFINE m == mine[t]
             n == ChunkBytes(NextChunk(threadInfo[m]))
             short == Avail(m) - call[t].bytes < n
  <2>1. CASE Finish(t)
    BY <1>14, <1>16, <2>1
  <2>2. CASE /\ pc' = [pc EXCEPT ![t] = IF short THEN "cache" ELSE "have"]
             /\ need' = [need EXCEPT ![t] = n]
             /\ call' = [call EXCEPT ![t].chunk = TRUE]
             /\ UNCHANGED mine
    <3>1. Memory' /\ \A u \in Thread \ {t} : InHand(u)'
      BY <1>2, <1>12, <1>13, <1>16, <2>2, QuietMemory
    <3>2. Held(call[t].arena, m) /\ owner[m] = t
      BY <1>1, <1>12, <1>16 DEF InHand
    <3>3. call'[t].arena = call[t].arena
      <4>1. call[t] \in Request
        BY <1>12, <1>16, HandTyped
      <4> QED BY <1>2, <2>2, <4>1 DEF Request
    <3>4. pc'[t] = "have" => size'[m] - pos'[m] >= need'[t]
      <4> DEFINE p == pos[m]
                 z == size[m]
                 k == call[t].bytes
      <4>1. /\ m \in Address /\ p \in Nat /\ z \in Nat /\ k \in Nat
            /\ threadInfo[m] \in Address
        BY <1>12, <1>16, HandTyped
      <4>2. n \in Nat
        BY <1>1, <4>1, NextChunkType DEF Types
      <4>3. pos'[m] = p + k /\ size'[m] = z
        BY <1>2, <1>12, <1>16, <4>1 DEF AllocateObject
      <4>4. need'[t] = n /\ (pc'[t] = "have" => ~((z - p) - k < n))
        BY <1>2, <2>2 DEF Avail
      <4> HIDE DEF p, z, k, n
      <4>6. (~((z - p) - k < n)) => z - (p + k) >= n
        BY <4>1, <4>2
      <4> QED BY <4>3, <4>4, <4>6
    <3>5. mine'[t] = m /\ pc'[t] \in {"have", "cache"}
      BY <1>2, <2>2
    <3>6. /\ \E i \in ToSet(threads'[call[t].arena]) : m \in ToSet(head'[i])
          /\ owner'[m] = t
      BY <1>12, <1>16, <3>2 DEF Held
    <3>7. InHand(t)'
      BY <3>3, <3>4, <3>5, <3>6 DEF InHand, Avail, Held
    <3> QED BY <1>4, <3>1, <3>7
  <2> QED BY <1>16, <2>1, <2>2 DEF AllocateObject, Goto
<1> QED BY <1>6, <1>7, <1>8, <1>9, <1>10, <1>11, <1>15, <1>16

-----------------------------------------------------------------------------
(* The steps that make a block or publish one.                             *)

\* A block that is nobody's is in no chain of an arena in use.
LEMMA HeldIsOwned ==
  ASSUME InfosSound, NEW a \in Arena, InUse(a)
  PROVE  /\ \A i \in ToSet(threads[a]) : owner[i] \in Thread
         /\ \A i \in ToSet(threads[a]) : \A b \in ToSet(head[i]) : owner[b] \in Thread
         /\ \A b : Held(a, b) => owner[b] \in Thread
  BY DEF InfosSound, Held

LEMMA NewThreadInfoStep ==
  ASSUME IInv, NEW t \in Thread, NEW b \in Block, NewThreadInfo(t, b)
  PROVE  Memory' /\ \A u \in Thread : InHand(u)'
<1>1. /\ TypeOK /\ Types /\ CallsOnLive /\ InfosSound /\ InfosApart /\ HintsHeld /\ CachesHeld
      /\ \A u \in Thread : InHand(u)
  BY DEF IInv, Memory
<1>2. /\ pc \in [Thread -> Location] /\ mine \in [Thread -> Address \cup {NoBlock}]
      /\ threadInfo \in [Address -> Address \cup {NoBlock}] /\ pos \in [Address -> Nat]
      /\ head \in [Address -> Seq(Address)] /\ owner \in [Address -> Thread \cup {NoThread}]
      /\ size \in [Address -> Nat] /\ threads \in [Arena -> Seq(Address)]
  BY <1>1 DEF TypeOK, Types
<1>3. /\ pc[t] = "slow" /\ pc' = [pc EXCEPT ![t] = "load"] /\ mine' = [mine EXCEPT ![t] = b]
      /\ owner' = [owner EXCEPT ![b] = t] /\ owner[b] = NoThread
      /\ threadInfo' = [threadInfo EXCEPT ![b] = b]
      /\ head' = [head EXCEPT ![b] = <<b>>]
      /\ \A x \in Address : x # b => pos'[x] = pos[x] /\ size'[x] = size[x]
      /\ UNCHANGED <<lifecycleId, threads, hint, cache, call, need>>
  BY <1>2 DEF NewThreadInfo, NewBlock, Goto
<1>4. \A c \in Arena : InUse(c)' <=> InUse(c)
  BY <1>2, <1>3, InUseSame
<1>5. b \in Address /\ owner[b] \notin Thread
  BY <1>3, ThreadAssumption DEF Address
<1>6. \A x \in Address : owner[x] \in Thread =>
        /\ x # b /\ owner'[x] = owner[x] /\ threadInfo'[x] = threadInfo[x]
        /\ pos'[x] = pos[x] /\ size'[x] = size[x] /\ head'[x] = head[x]
  BY <1>2, <1>3, <1>5
<1>7. ASSUME NEW a \in Arena, InUse(a), NEW i \in ToSet(threads[a])
      PROVE  /\ i \in Address /\ owner'[i] = owner[i] /\ head'[i] = head[i]
             /\ \A x \in ToSet(head[i]) : x \in Address /\ owner'[x] = owner[x]
                                          /\ threadInfo'[x] = threadInfo[x]
  <2>1. i \in Address /\ head[i] \in Seq(Address)
    BY <1>1, <1>7, InfoHead
  <2>2. \A x \in ToSet(head[i]) : x \in Address
    BY <2>1, ToSetType
  <2>3. owner[i] \in Thread /\ \A x \in ToSet(head[i]) : owner[x] \in Thread
    BY <1>1, <1>7, HeldIsOwned
  <2> QED BY <1>6, <2>1, <2>2, <2>3
<1>8. \A a \in Arena : \A x : InUse(a) /\ Held(a, x) => Held(a, x)' /\ owner'[x] = owner[x]
  BY <1>3, <1>7 DEF Held
<1>9. InfosSound'
  BY <1>1, <1>3, <1>4, <1>7 DEF InfosSound
<1>10. InfosApart'
  BY <1>1, <1>3, <1>4 DEF InfosApart
<1>11. HintsHeld'
  BY <1>1, <1>3, <1>4, <1>8 DEF HintsHeld
<1>12. CachesHeld'
  BY <1>1, <1>3, <1>4, <1>8 DEF CachesHeld
<1>13. ASSUME NEW u \in Thread \ {t} PROVE InHand(u)'
  <2>1. InHand(u) /\ pc'[u] = pc[u] /\ call'[u] = call[u] /\ mine'[u] = mine[u] /\ need'[u] = need[u]
    BY <1>1, <1>2, <1>3
  <2>2. \A c \in Arena :
           /\ ToSet(threads[c]) \subseteq ToSet(threads'[c])
           /\ \A i \in ToSet(threads'[c]) : i \in ToSet(threads[c]) \/ owner[i] = t
    BY <1>3
  <2> QED BY <1>1, <1>4, <1>6, <2>1, <2>2, OthersKeep
<1>14. InHand(t)'
  <2>1. pc'[t] = "load" /\ mine'[t] = b
    BY <1>2, <1>3
  <2>2. owner'[b] = t /\ threadInfo'[b] = b /\ head'[b] = <<b>>
    BY <1>2, <1>3, <1>5
  <2>3. \A c \in Arena : InUse(c) => b \notin ToSet(threads[c])
    BY <1>1, <1>5, HeldIsOwned
  <2> QED BY <1>3, <1>4, <2>1, <2>2, <2>3 DEF InHand
<1> QED BY <1>9, <1>10, <1>11, <1>12, <1>13, <1>14 DEF Memory

LEMMA PushStep ==
  ASSUME IInv, NEW t \in Thread, PushThreadInfo(t)
  PROVE  Memory' /\ \A u \in Thread : InHand(u)'
<1> DEFINE a == call[t].arena
           m == mine[t]
<1>1. /\ TypeOK /\ Types /\ CallsOnLive /\ InfosSound /\ InfosApart /\ HintsHeld /\ CachesHeld
      /\ \A u \in Thread : InHand(u)
  BY DEF IInv, Memory
<1>2. /\ pc \in [Thread -> Location] /\ threads \in [Arena -> Seq(Address)]
  BY <1>1 DEF TypeOK, Types
<1>3. /\ pc[t] = "push" /\ pc' = [pc EXCEPT ![t] = IF Swaps(t) THEN "head" ELSE "load"]
      /\ UNCHANGED <<lifecycleId, hint, owner, threadInfo, pos, size, head, cache, call, need, mine>>
  BY DEF PushThreadInfo, Goto, blocks, infos
<1>4. \A c \in Arena : InUse(c)' <=> InUse(c)
  BY <1>2, <1>3, InUseSame
<1>5. a \in Arena /\ InUse(a)
  BY <1>1, <1>3, UserInUse DEF Working
<1>6. /\ m \in Block /\ owner[m] = t /\ threadInfo[m] = m /\ head[m] = <<m>>
      /\ \A c \in Arena : InUse(c) => m \notin ToSet(threads[c])
  BY <1>1, <1>3 DEF InHand
<1>7. CASE ~Swaps(t)
  <2>1. UNCHANGED threads
    BY <1>7 DEF PushThreadInfo
  <2>2. Memory' /\ \A u \in Thread \ {t} : InHand(u)'
    BY <1>2, <1>3, <1>7, <2>1, QuietMemory
  <2>3. InHand(t)'
    BY <1>2, <1>3, <1>4, <1>6, <1>7, <2>1 DEF InHand
  <2> QED BY <2>2, <2>3
<1>8. CASE Swaps(t)
  <2>1. threads' = [threads EXCEPT ![a] = <<m>> \o threads[a]]
    BY <1>8 DEF PushThreadInfo, Swaps
  <2>2. ToSet(threads'[a]) = {m} \cup ToSet(threads[a])
    <3>1. threads[a] \in Seq(Address)
      BY <1>2, <1>5
    <3>2. threads'[a] = <<m>> \o threads[a]
      BY <1>2, <1>5, <2>1
    <3> QED BY <3>1, <3>2, ToSetOfCons
  <2>3. \A c \in Arena \ {a} : threads'[c] = threads[c]
    BY <1>2, <2>1
  <2>4. \A c \in Arena : \A x : Held(c, x) => Held(c, x)'
    BY <1>3, <2>2, <2>3 DEF Held
  <2>5. ToSet(<<m>>) = {m}
    BY ToSetOfOne
  <2>6. InfosSound'
    <3> SUFFICES ASSUME NEW c \in Arena, InUse(c), NEW i \in ToSet(threads'[c])
                 PROVE  /\ owner[i] \in Thread
                        /\ i \in ToSet(head[i])
                        /\ \A b \in ToSet(head[i]) :
                             /\ owner[b] = owner[i]
                             /\ threadInfo[b] = i
                             /\ b \in Block \/ b = initialBlock[c]
      BY <1>3, <1>4 DEF InfosSound
    <3>1. CASE i = m
      BY <1>6, <2>5, <3>1
    <3>2. CASE i \in ToSet(threads[c])
      BY <1>1, <3>2 DEF InfosSound
    <3> QED BY <2>2, <2>3, <3>1, <3>2
  <2>7. InfosApart'
    BY <1>1, <1>4, <1>6, <2>2, <2>3 DEF InfosApart
  <2>8. HintsHeld'
    BY <1>1, <1>3, <1>4, <2>4 DEF HintsHeld
  <2>9. CachesHeld'
    BY <1>1, <1>3, <1>4, <2>4 DEF CachesHeld
  <2>10. ASSUME NEW u \in Thread \ {t} PROVE InHand(u)'
    <3>1. InHand(u) /\ pc'[u] = pc[u] /\ call'[u] = call[u] /\ mine'[u] = mine[u] /\ need'[u] = need[u]
      BY <1>1, <1>2, <1>3
    <3>2. \A c \in Arena :
             /\ ToSet(threads[c]) \subseteq ToSet(threads'[c])
             /\ \A i \in ToSet(threads'[c]) : i \in ToSet(threads[c]) \/ owner[i] = t
      BY <1>6, <2>2, <2>3
    <3>3. \A b \in Address : owner[b] \in Thread \ {t} =>
           /\ owner'[b] = owner[b] /\ threadInfo'[b] = threadInfo[b]
           /\ pos'[b] = pos[b] /\ size'[b] = size[b] /\ head'[b] = head[b]
      BY <1>3
    <3> QED BY <1>1, <1>4, <3>1, <3>2, <3>3, OthersKeep
  <2>11. InHand(t)'
    BY <1>2, <1>3, <1>6, <1>8, <2>2 DEF InHand
  <2> QED BY <2>6, <2>7, <2>8, <2>9, <2>10, <2>11 DEF Memory
<1> QED BY <1>7, <1>8

\* GetBlockSlow, whatever block it comes to: i has what it had, and b.
LEMMA CacheBlockStep ==
  ASSUME IInv, NEW t \in Thread, NEW b \in Address, GetBlockSlow(t, b),
         owner'[b] = t, b \in ToSet(head'[mine[t]]), InfosSound',
         size'[b] - pos'[b] >= need[t],
         \A x \in Address : owner[x] \in Thread =>
           owner'[x] = owner[x] /\ ToSet(head[x]) \subseteq ToSet(head'[x]),
         \A x \in Address : owner[x] \in Thread \ {t} =>
           /\ owner'[x] = owner[x] /\ threadInfo'[x] = threadInfo[x]
           /\ pos'[x] = pos[x] /\ size'[x] = size[x] /\ head'[x] = head[x]
  PROVE  Memory' /\ \A u \in Thread : InHand(u)'
<1> DEFINE a == call[t].arena
           i == mine[t]
<1>1. /\ TypeOK /\ Types /\ CallsOnLive /\ InfosSound /\ InfosApart /\ HintsHeld /\ CachesHeld
      /\ IdsUnique /\ \A u \in Thread : InHand(u)
  BY DEF IInv, Memory
<1>2. /\ pc \in [Thread -> Location] /\ mine \in [Thread -> Address \cup {NoBlock}]
      /\ hint \in [Arena -> Address \cup {NoBlock}]
      /\ cache \in [Thread -> [seen : Nat \cup {NeverSeen}, block : Address \cup {NoBlock}]]
  BY <1>1 DEF TypeOK, Types
<1>3. /\ pc[t] = "head" /\ pc' = [pc EXCEPT ![t] = "have"] /\ mine' = [mine EXCEPT ![t] = b]
      /\ cache' = [cache EXCEPT ![t] = [seen |-> lifecycleId[a], block |-> b]]
      /\ hint' = [hint EXCEPT ![a] = b]
      /\ UNCHANGED <<lifecycleId, threads, call, need>>
  BY DEF GetBlockSlow, Goto
<1>4. \A c \in Arena : InUse(c)' <=> InUse(c)
  BY <1>2, <1>3, InUseSame
<1>5. a \in Arena /\ InUse(a) /\ i \in ToSet(threads[a])
  BY <1>3, InfoTyped
<1>6. Held(a, b)'
  <2>1. i \in ToSet(threads'[a]) /\ b \in ToSet(head'[i])
    BY <1>3, <1>5
  <2>2. call'[t].arena = a
    BY <1>3
  <2> HIDE DEF a, i
  <2>3. \E j \in ToSet(threads'[a]) : b \in ToSet(head'[j])
    BY <2>1
  <2> QED BY <2>2, <2>3 DEF Held, a
<1>7. \A c \in Arena : \A x : InUse(c) /\ Held(c, x) => Held(c, x)' /\ owner'[x] = owner[x]
  <2> SUFFICES ASSUME NEW c \in Arena, NEW x, InUse(c), Held(c, x)
               PROVE  Held(c, x)' /\ owner'[x] = owner[x]
    OBVIOUS
  <2>1. PICK j \in ToSet(threads[c]) : x \in ToSet(head[j])
    BY DEF Held
  <2>2. j \in Address /\ owner[j] \in Thread /\ owner[x] \in Thread
    BY <1>1, <2>1, InfoHead, HeldIsOwned
  <2>3. x \in Address
    BY <1>1, HeldInfo
  <2>4. x \in ToSet(head'[j])
    BY <2>1, <2>2
  <2> QED BY <1>3, <2>1, <2>2, <2>3, <2>4 DEF Held
<1>8. InfosApart'
  BY <1>1, <1>3, <1>4 DEF InfosApart
<1>9. HintsHeld'
  <2> SUFFICES ASSUME NEW c \in Arena, InUse(c), hint'[c] # NoBlock
               PROVE  \E j \in ToSet(threads'[c]) : hint'[c] \in ToSet(head'[j])
    BY <1>4 DEF HintsHeld, Held
  <2>1. CASE c = a
    <3>1. hint'[c] = b
      BY <1>2, <1>3, <2>1
    <3>2. \E j \in ToSet(threads'[c]) : b \in ToSet(head'[j])
      BY <1>3, <1>5, <2>1
    <3> QED BY <3>1, <3>2
  <2>2. CASE c # a
    <3>1. hint'[c] = hint[c]
      BY <1>2, <1>3, <2>2
    <3>2. Held(c, hint[c])
      BY <1>1, <3>1 DEF HintsHeld
    <3>3. \E j \in ToSet(threads'[c]) : hint[c] \in ToSet(head'[j])
      BY <1>7, <3>2 DEF Held
    <3> QED BY <3>1, <3>3
  <2> QED BY <2>1, <2>2
<1>10. CachesHeld'
  <2> SUFFICES ASSUME NEW u \in Thread, NEW c \in Arena, InUse(c),
                      cache'[u].seen = lifecycleId[c], cache'[u].block # NoBlock
               PROVE  /\ \E j \in ToSet(threads'[c]) : cache'[u].block \in ToSet(head'[j])
                      /\ owner'[cache'[u].block] = u
    BY <1>3, <1>4 DEF CachesHeld, Held
  <2>1. CASE u = t
    <3>1. cache'[u].block = b /\ lifecycleId[c] = lifecycleId[a]
      BY <1>2, <1>3, <2>1
    <3>2. c = a
      BY <1>1, <1>5, <3>1 DEF IdsUnique, InUse
    <3> QED BY <1>3, <1>5, <2>1, <3>1, <3>2
  <2>2. CASE u # t
    <3>1. cache'[u] = cache[u]
      BY <1>2, <1>3, <2>2
    <3>2. Held(c, cache[u].block) /\ owner[cache[u].block] = u
      BY <1>1, <3>1 DEF CachesHeld
    <3> QED BY <1>7, <3>1, <3>2 DEF Held
  <2> QED BY <2>1, <2>2
<1>11. ASSUME NEW u \in Thread \ {t} PROVE InHand(u)'
  <2>1. InHand(u) /\ pc'[u] = pc[u] /\ call'[u] = call[u] /\ mine'[u] = mine[u] /\ need'[u] = need[u]
    BY <1>1, <1>2, <1>3
  <2>2. \A c \in Arena :
           /\ ToSet(threads[c]) \subseteq ToSet(threads'[c])
           /\ \A j \in ToSet(threads'[c]) : j \in ToSet(threads[c]) \/ owner[j] = t
    BY <1>3
  <2> QED BY <1>1, <1>4, <2>1, <2>2, OthersKeep
<1>12. InHand(t)'
  <2>1. pc'[t] = "have" /\ mine'[t] = b /\ call'[t].arena = a /\ need'[t] = need[t]
    BY <1>2, <1>3
  <2>2. \E j \in ToSet(threads'[a]) : b \in ToSet(head'[j])
    BY <1>3, <1>5
  <2> QED BY <2>1, <2>2 DEF InHand, Held, Avail
<1> QED BY <1>8, <1>9, <1>10, <1>11, <1>12 DEF Memory

LEMMA GetBlockSlowStep ==
  ASSUME IInv, NEW t \in Thread, NEW b \in Address, GetBlockSlow(t, b)
  PROVE  Memory' /\ \A u \in Thread : InHand(u)'
<1> DEFINE a == call[t].arena
           i == mine[t]
           last == Head(head[i])
<1>1. /\ TypeOK /\ Types /\ CallsOnLive /\ InfosSound
  BY DEF IInv, Memory
<1>2. /\ pc \in [Thread -> Location] /\ need \in [Thread -> Nat]
      /\ threadInfo \in [Address -> Address \cup {NoBlock}] /\ pos \in [Address -> Nat]
      /\ head \in [Address -> Seq(Address)] /\ owner \in [Address -> Thread \cup {NoThread}]
      /\ size \in [Address -> Nat]
  BY <1>1 DEF TypeOK, Types
<1>3. /\ pc[t] = "head" /\ pc' = [pc EXCEPT ![t] = "have"]
      /\ UNCHANGED <<lifecycleId, threads, call, need>>
  BY DEF GetBlockSlow, Goto
<1>4. \A c \in Arena : InUse(c)' <=> InUse(c)
  BY <1>2, <1>3, InUseSame
<1>5. /\ a \in Arena /\ InUse(a) /\ i \in ToSet(threads[a]) /\ i \in Address /\ owner[i] = t
      /\ head[i] \in Seq(Address) /\ last \in ToSet(head[i]) /\ last \in Address
  BY <1>3, InfoTyped
<1>6. CASE b = last /\ Avail(last) >= need[t] /\ UNCHANGED <<blocks, head>>
  <2>1. UNCHANGED <<owner, threadInfo, pos, size, head>>
    BY <1>6 DEF blocks
  <2>2. owner'[b] = t /\ b \in ToSet(head'[i])
    BY <1>1, <1>5, <1>6, <2>1 DEF InfosSound
  <2>3. InfosSound'
    BY <1>1, <1>3, <1>4, <2>1 DEF InfosSound
  <2>4. size'[b] - pos'[b] >= need[t]
    BY <1>6, <2>1 DEF Avail
  <2>5. \A x \in Address : owner[x] \in Thread =>
          owner'[x] = owner[x] /\ ToSet(head[x]) \subseteq ToSet(head'[x])
    BY <2>1
  <2>6. \A x \in Address : owner[x] \in Thread \ {t} =>
          /\ owner'[x] = owner[x] /\ threadInfo'[x] = threadInfo[x]
          /\ pos'[x] = pos[x] /\ size'[x] = size[x] /\ head'[x] = head[x]
    BY <2>1
  <2> QED BY <2>2, <2>3, <2>4, <2>5, <2>6, CacheBlockStep
<1>7. CASE /\ NewBlock(t, b, last, need[t])
           /\ threadInfo' = [threadInfo EXCEPT ![b] = i]
           /\ pos' = [pos EXCEPT ![b] = HeaderSize]
           /\ head' = [head EXCEPT ![i] = <<b>> \o @]
  <2>1. PICK l \in Address \cup {NoBlock}, n \in Nat :
          l = last /\ n = need[t] /\ NewBlock(t, b, l, n)
    BY <1>2, <1>5, <1>7
  <2>2. /\ b \in Block /\ owner[b] = NoThread /\ owner'[b] = t
        /\ \A x \in Address : x # b => owner'[x] = owner[x] /\ size'[x] = size[x]
        /\ size'[b] >= HeaderSize + n /\ size' \in [Address -> Nat]
    <3>1. call[t].arena \in Arena
      BY <1>5
    <3>2. NewBlock(t, b, l, n)
      BY <2>1
    <3>3. b \in Block /\ owner[b] = NoThread /\ owner'[b] = t
      BY <1>1, <3>1, <3>2, NewBlockTyped
    <3>4. \A x \in Address : x # b => owner'[x] = owner[x] /\ size'[x] = size[x]
      BY <1>1, <3>1, <3>2, NewBlockTyped
    <3>5. size'[b] >= HeaderSize + n /\ size' \in [Address -> Nat]
      BY <1>1, <3>1, <3>2, NewBlockTyped
    <3> QED BY <3>3, <3>4, <3>5
  <2>3. /\ pos'[b] = HeaderSize /\ threadInfo'[b] = i
        /\ \A x \in Address : x # b => pos'[x] = pos[x] /\ threadInfo'[x] = threadInfo[x]
        /\ head'[i] = <<b>> \o head[i]
        /\ \A x \in Address : x # i => head'[x] = head[x]
    BY <1>2, <1>5, <1>7
  <2>4. ToSet(head'[i]) = {b} \cup ToSet(head[i])
    BY <1>5, <2>3, ToSetOfCons
  <2>5. owner[b] \notin Thread
    BY <2>2, ThreadAssumption
  <2>6. size'[b] - pos'[b] >= need[t]
    <3>1. HeaderSize \in Nat /\ size'[b] \in Nat
      BY <2>2, SizeAssumption
    <3> QED BY <2>1, <2>2, <2>3, <3>1
  <2>7. \A x \in Address : owner[x] \in Thread =>
          owner'[x] = owner[x] /\ ToSet(head[x]) \subseteq ToSet(head'[x])
    BY <2>2, <2>3, <2>4, <2>5
  <2>8. \A x \in Address : owner[x] \in Thread \ {t} =>
          /\ owner'[x] = owner[x] /\ threadInfo'[x] = threadInfo[x]
          /\ pos'[x] = pos[x] /\ size'[x] = size[x] /\ head'[x] = head[x]
    BY <1>5, <2>2, <2>3, <2>5
  <2>9. InfosSound'
    <3> SUFFICES ASSUME NEW c \in Arena, InUse(c), NEW j \in ToSet(threads[c])
                 PROVE  /\ owner'[j] \in Thread
                        /\ j \in ToSet(head'[j])
                        /\ \A x \in ToSet(head'[j]) :
                             /\ owner'[x] = owner'[j]
                             /\ threadInfo'[x] = j
                             /\ x \in Block \/ x = initialBlock[c]
      BY <1>3, <1>4 DEF InfosSound
    <3>1. j \in Address /\ owner[j] \in Thread /\ j \in ToSet(head[j]) /\ head[j] \in Seq(Address)
      BY <1>1, InfoHead DEF InfosSound
    <3>2. owner'[j] = owner[j] /\ j \in ToSet(head'[j])
      BY <2>7, <3>1
    <3>3. ASSUME NEW x \in ToSet(head[j])
          PROVE  /\ owner'[x] = owner[j] /\ threadInfo'[x] = j
                 /\ x \in Block \/ x = initialBlock[c]
      <4>1. x \in Address
        BY <3>1, ToSetType
      <4>2. owner[x] = owner[j] /\ threadInfo[x] = j /\ (x \in Block \/ x = initialBlock[c])
        BY <1>1 DEF InfosSound
      <4> QED BY <2>2, <2>3, <2>5, <3>1, <4>1, <4>2
    <3>4. CASE j = i
      BY <1>5, <2>2, <2>3, <2>4, <3>2, <3>3, <3>4
    <3>5. CASE j # i
      BY <2>3, <3>1, <3>2, <3>3, <3>5
    <3> QED BY <3>4, <3>5
  <2>10. b \in ToSet(head'[i])
    BY <2>4
  <2> QED BY <2>2, <2>6, <2>7, <2>8, <2>9, <2>10, CacheBlockStep
<1> QED BY <1>6, <1>7 DEF GetBlockSlow

-----------------------------------------------------------------------------
(* The life of an arena.                                                   *)

\* What another thread has in hand survives a step that touches only the
\* arena a, which it does not use.
LEMMA ElsewhereKept ==
  ASSUME CallsOnLive, NEW a \in Arena, NEW u \in Thread, InHand(u),
         pc[u] \in Working => call[u].arena # a,
         pc'[u] = pc[u], call'[u] = call[u], mine'[u] = mine[u], need'[u] = need[u],
         \A c \in Arena \ {a} : (InUse(c)' <=> InUse(c)) /\ threads'[c] = threads[c],
         \A c \in Arena \ {a} : \A x : InUse(c) /\ Held(c, x) =>
           /\ Held(c, x)' /\ owner'[x] = owner[x]
           /\ pos'[x] = pos[x] /\ size'[x] = size[x],
         \A c \in Arena \ {a} : InUse(c) =>
           \A i \in ToSet(threads[c]) : owner'[i] = owner[i],
         pc[u] \in {"load", "push"} =>
           /\ owner'[mine[u]] = owner[mine[u]] /\ threadInfo'[mine[u]] = threadInfo[mine[u]]
           /\ head'[mine[u]] = head[mine[u]]
           /\ InUse(a)' => mine[u] \notin ToSet(threads'[a])
  PROVE  InHand(u)'
<1> DEFINE c == call[u].arena
           m == mine[u]
<1>1. ASSUME pc[u] \in Working PROVE c \in Arena \ {a} /\ InUse(c)
  BY <1>1, UserInUse
<1>2. CASE pc[u] \in {"hint", "slow"}
  BY <1>1, <1>2 DEF InHand, Working
<1>3. CASE pc[u] \in {"load", "push"}
  BY <1>1, <1>3 DEF InHand, Working
<1>4. CASE pc[u] = "head"
  BY <1>1, <1>4 DEF InHand, Working
<1>5. CASE pc[u] = "have"
  BY <1>1, <1>5 DEF InHand, Working, Avail
<1>6. CASE pc[u] \notin {"hint", "slow", "load", "push", "head", "have"}
  BY <1>6 DEF InHand
<1> QED BY <1>2, <1>3, <1>4, <1>5, <1>6

LEMMA InitStep ==
  ASSUME IInv, NEW t \in Thread, NEW a \in Arena, InitArena(t, a),
         ~InUse(a), InUse(a)',
         \A c \in Arena \ {a} : InUse(c)' <=> InUse(c),
         pc'[t] = "out",
         \A u \in Thread \ {t} : /\ pc'[u] = pc[u] /\ call'[u] = call[u]
                                 /\ mine'[u] = mine[u] /\ need'[u] = need[u]
  PROVE  Memory' /\ \A u \in Thread : InHand(u)'
<1> DEFINE b == initialBlock[a]
<1>1. /\ TypeOK /\ Types /\ CallsOnLive /\ IdsUnique
      /\ InfosSound /\ InfosApart /\ HintsHeld /\ CachesHeld
      /\ \A u \in Thread : InHand(u)
  BY DEF IInv, Memory
<1>2. /\ threadInfo \in [Address -> Address \cup {NoBlock}] /\ pos \in [Address -> Nat]
      /\ head \in [Address -> Seq(Address)] /\ owner \in [Address -> Thread \cup {NoThread}]
      /\ size \in [Address -> Nat] /\ threads \in [Arena -> Seq(Address)]
      /\ hint \in [Arena -> Address \cup {NoBlock}]
      /\ cache \in [Thread -> [seen : Nat \cup {NeverSeen}, block : Address \cup {NoBlock}]]
      /\ lifecycleId \in [Arena -> Nat \cup {Dead}] /\ generator \in Nat
  BY <1>1 DEF TypeOK, Types
<1>3. /\ lifecycleId' = [lifecycleId EXCEPT ![a] = generator]
      /\ threads' = [threads EXCEPT ![a] = IF b = NoBlock THEN <<>> ELSE <<b>>]
      /\ hint' = [hint EXCEPT ![a] = b]
  BY DEF InitArena, NextId
<1>4. \A c \in Arena \ {a} : /\ threads'[c] = threads[c] /\ hint'[c] = hint[c]
                            /\ lifecycleId'[c] = lifecycleId[c]
  BY <1>2, <1>3
<1>5. /\ ToSet(threads'[a]) = IF b = NoBlock THEN {} ELSE {b}
      /\ hint'[a] = b /\ lifecycleId'[a] = generator
  BY <1>2, <1>3, ToSetOfOne, ToSetOfNone
<1>6. /\ b # NoBlock => b \in Address /\ b \notin Block
      /\ \A c \in Arena \ {a} : b # NoBlock => initialBlock[c] # b
  BY BlockAssumption DEF Initial, Address
<1>7. b # NoBlock => /\ owner'[b] = t /\ threadInfo'[b] = b /\ head'[b] = <<b>>
                     /\ ToSet(head'[b]) = {b}
  BY <1>2, <1>6, ToSetOfOne DEF InitArena
<1>8. \A x \in Address : x # b => /\ owner'[x] = owner[x] /\ threadInfo'[x] = threadInfo[x]
                                /\ pos'[x] = pos[x] /\ size'[x] = size[x] /\ head'[x] = head[x]
  BY <1>2 DEF InitArena, blocks, infos
<1>9. ASSUME NEW c \in Arena \ {a}, InUse(c), NEW i \in ToSet(threads[c])
      PROVE  /\ i \in Address /\ i # b /\ owner'[i] = owner[i] /\ head'[i] = head[i]
             /\ \A x \in ToSet(head[i]) :
                  /\ x \in Address /\ x # b /\ owner'[x] = owner[x] /\ threadInfo'[x] = threadInfo[x]
                  /\ pos'[x] = pos[x] /\ size'[x] = size[x]
  <2>1. i \in Address /\ head[i] \in Seq(Address)
    BY <1>1, <1>9, InfoHead
  <2>2. \A x \in ToSet(head[i]) : x \in Address
    BY <2>1, ToSetType
  <2>3. i \in ToSet(head[i]) /\ \A x \in ToSet(head[i]) : x \in Block \/ x = initialBlock[c]
    BY <1>1, <1>9 DEF InfosSound
  <2>4. \A x \in ToSet(head[i]) : x # b
    <3>1. NoBlock \notin Address
      BY BlockAssumption
    <3> QED BY <1>6, <1>9, <2>2, <2>3, <3>1
  <2> QED BY <1>8, <2>1, <2>2, <2>3, <2>4
<1>10. \A c \in Arena \ {a} : \A x : InUse(c) /\ Held(c, x) =>
         /\ Held(c, x)' /\ owner'[x] = owner[x] /\ pos'[x] = pos[x] /\ size'[x] = size[x]
  BY <1>4, <1>9 DEF Held
<1>11. InfosSound'
  <2> SUFFICES ASSUME NEW c \in Arena, InUse(c)', NEW i \in ToSet(threads'[c])
               PROVE  /\ owner'[i] \in Thread
                      /\ i \in ToSet(head'[i])
                      /\ \A x \in ToSet(head'[i]) :
                           /\ owner'[x] = owner'[i]
                           /\ threadInfo'[x] = i
                           /\ x \in Block \/ x = initialBlock[c]
    BY DEF InfosSound
  <2>1. CASE c = a
    BY <1>5, <1>7, <2>1
  <2>2. CASE c # a
    <3>1. InUse(c) /\ i \in ToSet(threads[c])
      BY <1>4, <2>2
    <3>2. /\ owner'[i] = owner[i] /\ head'[i] = head[i]
          /\ \A x \in ToSet(head[i]) : owner'[x] = owner[x] /\ threadInfo'[x] = threadInfo[x]
      BY <1>9, <2>2, <3>1
    <3> QED BY <1>1, <3>1, <3>2 DEF InfosSound
  <2> QED BY <2>1, <2>2
<1>12. InfosApart'
  <2> SUFFICES ASSUME NEW c \in Arena, NEW d \in Arena, InUse(c)', InUse(d)', c # d
               PROVE  ToSet(threads'[c]) \cap ToSet(threads'[d]) = {}
    BY DEF InfosApart
  <2>1. CASE c # a /\ d # a
    BY <1>1, <1>4, <2>1 DEF InfosApart
  <2>2. \A e \in Arena \ {a} : InUse(e) => b \notin ToSet(threads[e])
    BY <1>9
  <2>3. CASE c = a
    BY <1>4, <1>5, <2>2, <2>3
  <2>4. CASE d = a
    BY <1>4, <1>5, <2>2, <2>4
  <2> QED BY <2>1, <2>3, <2>4
<1>13. HintsHeld'
  <2> SUFFICES ASSUME NEW c \in Arena, InUse(c)', hint'[c] # NoBlock
               PROVE  \E j \in ToSet(threads'[c]) : hint'[c] \in ToSet(head'[j])
    BY DEF HintsHeld, Held
  <2>1. CASE c = a
    BY <1>5, <1>7, <2>1
  <2>2. CASE c # a
    <3>1. InUse(c) /\ hint'[c] = hint[c]
      BY <1>4, <2>2
    <3>2. Held(c, hint[c])
      BY <1>1, <3>1 DEF HintsHeld
    <3>3. \E j \in ToSet(threads'[c]) : hint[c] \in ToSet(head'[j])
      BY <1>10, <2>2, <3>1, <3>2 DEF Held
    <3> QED BY <3>1, <3>3
  <2> QED BY <2>1, <2>2
<1>14. CachesHeld'
  <2> SUFFICES ASSUME NEW u \in Thread, NEW c \in Arena, InUse(c)',
                      cache'[u].seen = lifecycleId'[c], cache'[u].block # NoBlock
               PROVE  /\ \E j \in ToSet(threads'[c]) : cache'[u].block \in ToSet(head'[j])
                      /\ owner'[cache'[u].block] = u
    BY DEF CachesHeld, Held
  <2>1. /\ \A d \in Arena : lifecycleId[d] < generator
        /\ cache[u].seen < generator
        /\ \A d \in Arena : lifecycleId[d] \in Int
        /\ cache[u].seen \in Int
    BY <1>1, <1>2 DEF IdsUnique, Dead, NeverSeen
  <2>2. CASE cache'[u] = cache[u]
    <3>1. c # a
      BY <1>2, <1>5, <2>1, <2>2
    <3>2. InUse(c) /\ cache[u].seen = lifecycleId[c]
      BY <1>4, <2>2, <3>1
    <3>3. Held(c, cache[u].block) /\ owner[cache[u].block] = u
      BY <1>1, <2>2, <3>2 DEF CachesHeld
    <3>4. /\ \E j \in ToSet(threads'[c]) : cache[u].block \in ToSet(head'[j])
          /\ owner'[cache[u].block] = u
      BY <1>10, <3>1, <3>2, <3>3 DEF Held
    <3> QED BY <2>2, <3>4
  <2>3. CASE u = t /\ b # NoBlock /\ cache' = [cache EXCEPT ![t] = [seen |-> generator, block |-> b]]
    <3>1. cache'[u].seen = generator /\ cache'[u].block = b
      BY <1>2, <2>3
    <3>2. c = a
      <4> SUFFICES ASSUME c # a PROVE FALSE
        OBVIOUS
      <4>1. lifecycleId[c] = generator
        BY <1>4, <3>1
      <4>2. lifecycleId[c] < generator /\ generator \in Nat
        BY <1>2, <2>1
      <4> QED BY <4>1, <4>2
    <3> QED BY <1>5, <1>7, <2>3, <3>1, <3>2
  <2>4. \/ cache' = cache
        \/ b # NoBlock /\ cache' = [cache EXCEPT ![t] = [seen |-> generator, block |-> b]]
    BY DEF InitArena, NextId
  <2> QED BY <1>2, <2>2, <2>3, <2>4
<1>15. ASSUME NEW u \in Thread \ {t} PROVE InHand(u)'
  <2>1. InHand(u) /\ pc'[u] = pc[u] /\ call'[u] = call[u] /\ mine'[u] = mine[u] /\ need'[u] = need[u]
    BY <1>1
  <2>2. pc[u] \in Working => call[u].arena # a
    BY <1>1, UserInUse
  <2>3. pc[u] \in {"load", "push"} =>
           /\ owner'[mine[u]] = owner[mine[u]] /\ threadInfo'[mine[u]] = threadInfo[mine[u]]
           /\ head'[mine[u]] = head[mine[u]]
           /\ InUse(a)' => mine[u] \notin ToSet(threads'[a])
    <3> SUFFICES ASSUME pc[u] \in {"load", "push"}
                 PROVE  /\ owner'[mine[u]] = owner[mine[u]] /\ threadInfo'[mine[u]] = threadInfo[mine[u]]
                        /\ head'[mine[u]] = head[mine[u]]
                        /\ mine[u] \notin ToSet(threads'[a])
      OBVIOUS
    <3>1. mine[u] \in Block /\ mine[u] \in Address /\ mine[u] # NoBlock
      BY <2>1, BlockAssumption DEF InHand, Address
    <3>2. mine[u] # b
      BY <1>6, <3>1
    <3> QED BY <1>5, <1>8, <3>1, <3>2
  <2>4. \A c \in Arena \ {a} : InUse(c) => \A i \in ToSet(threads[c]) : owner'[i] = owner[i]
    BY <1>9
  <2>5. \A c \in Arena \ {a} : (InUse(c)' <=> InUse(c)) /\ threads'[c] = threads[c]
    BY <1>4
  <2> QED BY <1>1, <1>10, <2>1, <2>2, <2>3, <2>4, <2>5, ElsewhereKept
<1>16. InHand(t)'
  BY DEF InHand
<1> QED BY <1>11, <1>12, <1>13, <1>14, <1>15, <1>16 DEF Memory

LEMMA FreeStep ==
  ASSUME IInv, NEW t \in Thread, FreeBlocks(t)
  PROVE  Memory' /\ \A u \in Thread : InHand(u)'
<1>1. /\ TypeOK /\ Types /\ CallsOnLive /\ IdsUnique
      /\ InfosSound /\ InfosApart /\ HintsHeld /\ CachesHeld
      /\ \A u \in Thread : InHand(u)
  BY DEF IInv, Memory
<1>2. /\ pc \in [Thread -> Location] /\ lifecycleId \in [Arena -> Nat \cup {Dead}]
      /\ threads \in [Arena -> Seq(Address)] /\ hint \in [Arena -> Address \cup {NoBlock}]
      /\ call \in [Thread -> {NoCall} \cup [arena : Arena] \cup Request]
  BY <1>1 DEF TypeOK, Types
<1>0. pc[t] = "free"
  BY DEF FreeBlocks, Goto
<1>3. PICK a \in Arena :
        /\ a = call[t].arena /\ Live(a)
        /\ \A u \in Thread \ {t} : pc[u] # "out" => call[u].arena # a
  BY <1>0, <1>1 DEF CallsOnLive, Tearing
<1>4. /\ pc'[t] \in {"init", "out"}
      /\ \A u \in Thread \ {t} : /\ pc'[u] = pc[u] /\ call'[u] = call[u]
                                /\ mine'[u] = mine[u] /\ need'[u] = need[u]
      /\ owner' = [x \in Address |-> IF x \in Reached(a) THEN NoThread ELSE owner[x]]
      /\ UNCHANGED <<threadInfo, pos, size, head, cache>>
  BY <1>2, <1>3 DEF FreeBlocks, Goto, infos
<1>5. InUse(a) /\ ~InUse(a)'
  <2>1. \/ pc'[t] = "init" /\ call'[t] = call[t]
        \/ lifecycleId'[a] = Dead
    BY <1>2, <1>3, <1>4 DEF FreeBlocks, Goto
  <2> QED BY <1>0, <1>3, <1>4, <2>1 DEF InUse, Live, Users
<1>6. \A c \in Arena \ {a} : /\ threads'[c] = threads[c] /\ hint'[c] = hint[c]
                            /\ lifecycleId'[c] = lifecycleId[c]
  BY <1>2, <1>3 DEF FreeBlocks, arenas
<1>7. \A c \in Arena \ {a} : InUse(c)' <=> InUse(c)
  <2>1. pc'[t] = "init" => call'[t].arena = a
    BY <1>2, <1>3 DEF FreeBlocks, Goto
  <2> QED BY <1>0, <1>3, <1>4, <1>6, <2>1 DEF InUse, Live, Users
<1>8. ASSUME NEW x \in Address, x \in Reached(a)
      PROVE  threadInfo[x] \in ToSet(threads[a])
  BY <1>1, <1>3, <1>5, <1>8 DEF Reached, InfosSound
<1>9. ASSUME NEW c \in Arena \ {a}, InUse(c), NEW i \in ToSet(threads[c])
      PROVE  /\ owner'[i] = owner[i]
             /\ \A x \in ToSet(head[i]) : owner'[x] = owner[x]
  <2>1. i \in Address /\ head[i] \in Seq(Address)
    BY <1>1, <1>9, InfoHead
  <2>2. \A x \in ToSet(head[i]) : x \in Address
    BY <2>1, ToSetType
  <2>3. i \in ToSet(head[i]) /\ \A x \in ToSet(head[i]) : threadInfo[x] = i
    BY <1>1, <1>9 DEF InfosSound
  <2>4. i \notin ToSet(threads[a])
    BY <1>1, <1>3, <1>5, <1>9 DEF InfosApart
  <2>5. \A x \in ToSet(head[i]) : x \notin Reached(a)
    BY <1>8, <2>2, <2>3, <2>4
  <2> QED BY <1>4, <2>1, <2>2, <2>3, <2>5
<1>10. \A c \in Arena \ {a} : \A x : InUse(c) /\ Held(c, x) =>
         /\ Held(c, x)' /\ owner'[x] = owner[x] /\ pos'[x] = pos[x] /\ size'[x] = size[x]
  BY <1>4, <1>6, <1>9 DEF Held
<1>11. InfosSound'
  <2> SUFFICES ASSUME NEW c \in Arena, InUse(c)', NEW i \in ToSet(threads'[c])
               PROVE  /\ owner'[i] \in Thread
                      /\ i \in ToSet(head'[i])
                      /\ \A x \in ToSet(head'[i]) :
                           /\ owner'[x] = owner'[i]
                           /\ threadInfo'[x] = i
                           /\ x \in Block \/ x = initialBlock[c]
    BY DEF InfosSound
  <2>1. c # a /\ InUse(c) /\ i \in ToSet(threads[c])
    BY <1>5, <1>6, <1>7
  <2>2. owner'[i] = owner[i] /\ \A x \in ToSet(head[i]) : owner'[x] = owner[x]
    BY <1>9, <2>1
  <2> QED BY <1>1, <1>4, <2>1, <2>2 DEF InfosSound
<1>12. InfosApart'
  BY <1>1, <1>5, <1>6, <1>7 DEF InfosApart
<1>13. HintsHeld'
  <2> SUFFICES ASSUME NEW c \in Arena, InUse(c)', hint'[c] # NoBlock
               PROVE  \E j \in ToSet(threads'[c]) : hint'[c] \in ToSet(head'[j])
    BY DEF HintsHeld, Held
  <2>1. c # a /\ InUse(c) /\ hint'[c] = hint[c]
    BY <1>5, <1>6, <1>7
  <2>2. Held(c, hint[c])
    BY <1>1, <2>1 DEF HintsHeld
  <2>3. \E j \in ToSet(threads'[c]) : hint[c] \in ToSet(head'[j])
    BY <1>10, <2>1, <2>2 DEF Held
  <2> QED BY <2>1, <2>3
<1>14. CachesHeld'
  <2> SUFFICES ASSUME NEW u \in Thread, NEW c \in Arena, InUse(c)',
                      cache[u].seen = lifecycleId'[c], cache[u].block # NoBlock
               PROVE  /\ \E j \in ToSet(threads'[c]) : cache[u].block \in ToSet(head'[j])
                      /\ owner'[cache[u].block] = u
    BY <1>4 DEF CachesHeld, Held
  <2>1. c # a /\ InUse(c) /\ lifecycleId'[c] = lifecycleId[c]
    BY <1>5, <1>6, <1>7
  <2>2. Held(c, cache[u].block) /\ owner[cache[u].block] = u
    BY <1>1, <2>1 DEF CachesHeld
  <2> QED BY <1>10, <2>1, <2>2 DEF Held
<1>15. ASSUME NEW u \in Thread \ {t} PROVE InHand(u)'
  <2>1. InHand(u) /\ pc'[u] = pc[u] /\ call'[u] = call[u] /\ mine'[u] = mine[u] /\ need'[u] = need[u]
    BY <1>1, <1>4
  <2>2. pc[u] \in Working => call[u].arena # a
    BY <1>3 DEF Working
  <2>3. pc[u] \in {"load", "push"} =>
           /\ owner'[mine[u]] = owner[mine[u]] /\ threadInfo'[mine[u]] = threadInfo[mine[u]]
           /\ head'[mine[u]] = head[mine[u]]
           /\ InUse(a)' => mine[u] \notin ToSet(threads'[a])
    <3> SUFFICES ASSUME pc[u] \in {"load", "push"}
                 PROVE  owner'[mine[u]] = owner[mine[u]]
      BY <1>4, <1>5
    <3>1. /\ mine[u] \in Address /\ threadInfo[mine[u]] = mine[u]
          /\ mine[u] \notin ToSet(threads[a])
      BY <1>3, <1>5, <2>1 DEF InHand, Address
    <3>2. mine[u] \notin Reached(a)
      BY <1>8, <3>1
    <3> QED BY <1>4, <3>1, <3>2
  <2>4. \A c \in Arena \ {a} : InUse(c) => \A i \in ToSet(threads[c]) : owner'[i] = owner[i]
    BY <1>9
  <2>5. \A c \in Arena \ {a} : (InUse(c)' <=> InUse(c)) /\ threads'[c] = threads[c]
    BY <1>6, <1>7
  <2> QED BY <1>1, <1>10, <2>1, <2>2, <2>3, <2>4, <2>5, ElsewhereKept
<1>16. InHand(t)'
  BY <1>4 DEF InHand
<1> QED BY <1>11, <1>12, <1>13, <1>14, <1>15, <1>16 DEF Memory

LEMMA ConstructStep ==
  ASSUME IInv, NEW t \in Thread, NEW a \in Arena, Construct(t, a)
  PROVE  Memory' /\ \A u \in Thread : InHand(u)'
<1>1. TypeOK /\ CallsOnLive
  BY DEF IInv
<1>2. /\ pc[t] = "out" /\ ~Live(a) /\ InitArena(t, a) /\ UNCHANGED <<pc, call, mine, need>>
      /\ \A c \in Arena \ {a} : lifecycleId'[c] = lifecycleId[c]
      /\ lifecycleId'[a] = generator
  BY <1>1 DEF Construct, InitArena, NextId, TypeOK
<1>3. generator # Dead
  BY <1>1 DEF TypeOK, Dead
<1>4. \A u \in Thread : pc[u] = "init" => call[u].arena # a
  BY <1>1, <1>2 DEF CallsOnLive, Tearing
<1>5. ~InUse(a) /\ InUse(a)'
  BY <1>2, <1>3, <1>4 DEF InUse, Live, Users
<1>6. \A c \in Arena \ {a} : InUse(c)' <=> InUse(c)
  BY <1>2 DEF InUse, Live, Users
<1> QED BY <1>2, <1>5, <1>6, InitStep

LEMMA RestartStep ==
  ASSUME IInv, NEW t \in Thread, Restart(t)
  PROVE  Memory' /\ \A u \in Thread : InHand(u)'
<1>1. TypeOK /\ Types /\ CallsOnLive
  BY DEF IInv
<1>2. /\ pc \in [Thread -> Location] /\ lifecycleId \in [Arena -> Nat \cup {Dead}]
      /\ call \in [Thread -> {NoCall} \cup [arena : Arena] \cup Request] /\ generator \in Nat
  BY <1>1 DEF TypeOK, Types
<1>3. pc[t] = "init"
  BY DEF Restart, Goto
<1>4. PICK a \in Arena :
        /\ a = call[t].arena
        /\ \A u \in Thread \ {t} : pc[u] # "out" => call[u].arena # a
  BY <1>1, <1>3 DEF CallsOnLive, Tearing
<1>5. /\ InitArena(t, a) /\ pc'[t] = "out"
      /\ \A u \in Thread \ {t} : /\ pc'[u] = pc[u] /\ call'[u] = call[u]
                                /\ mine'[u] = mine[u] /\ need'[u] = need[u]
  BY <1>2, <1>4 DEF Restart, Goto
<1>6. /\ \A c \in Arena \ {a} : lifecycleId'[c] = lifecycleId[c]
      /\ lifecycleId'[a] = generator
  BY <1>2, <1>5 DEF InitArena, NextId
<1>7. ~InUse(a) /\ InUse(a)'
  <2>1. generator # Dead
    BY <1>2 DEF Dead
  <2> QED BY <1>3, <1>4, <1>5, <1>6, <2>1 DEF InUse, Live, Users
<1>8. \A c \in Arena \ {a} : InUse(c)' <=> InUse(c)
  BY <1>3, <1>4, <1>5, <1>6 DEF InUse, Live, Users
<1> QED BY <1>5, <1>7, <1>8, InitStep

-----------------------------------------------------------------------------
LEMMA InitInvariant == Init => IInv
<1> SUFFICES ASSUME Init PROVE IInv
  OBVIOUS
<1> USE DEF Init
<1>1. <<>> \in Seq(Address) /\ <<>> \in Seq(Chunk) /\ DOMAIN <<>> = {}
  OBVIOUS
<1>2. TypeOK
  BY <1>1 DEF TypeOK, Location
<1>3. Types
  BY <1>1 DEF Types, NoCache
<1>4. CallsOnLive
  BY DEF CallsOnLive, Working, Tearing
<1>5. IdsUnique
  BY DEF IdsUnique, Live, Dead, NoCache, NeverSeen
<1>6. \A a \in Arena : ~InUse(a)
  BY DEF InUse, Live
<1>7. Memory
  BY <1>6 DEF Memory, InfosSound, InfosApart, HintsHeld, CachesHeld
<1>8. \A t \in Thread : InHand(t)
  BY DEF InHand
<1> QED BY <1>2, <1>3, <1>4, <1>5, <1>7, <1>8 DEF IInv

LEMMA NextInvariant == IInv /\ [Next]_vars => IInv'
<1> SUFFICES ASSUME IInv, [Next]_vars PROVE IInv'
  OBVIOUS
<1>1. ASSUME NEW t \in Thread, Begin(t) \/ Step(t) PROVE IInv'
  <2>1. TypeOK' /\ Types'
    BY <1>1, BeginTyped, StepTyped
  <2>2. CallsOnLive' /\ IdsUnique'
    BY <1>1, CallsStep, IdsStep DEF IInv
  <2>3. Memory' /\ \A u \in Thread : InHand(u)'
    <3>1. CASE Begin(t)
      BY <3>1, QuietSteps, ConstructStep DEF Begin
    <3>2. CASE Step(t)
      BY <3>2, QuietSteps, NewThreadInfoStep, PushStep, GetBlockSlowStep, FreeStep, RestartStep
         DEF Step
    <3> QED BY <1>1, <3>1, <3>2
  <2> QED BY <2>1, <2>2, <2>3 DEF IInv
<1>2. CASE UNCHANGED vars
  <2>1. /\ UNCHANGED <<arenas, generator, blocks, infos, cache, pc, call, need, mine, next>>
        /\ UNCHANGED registered
    BY <1>2 DEF vars, locals, history
  <2>2. TypeOK' /\ Types'
    BY <2>1 DEF IInv, TypeOK, Types, arenas, blocks, infos
  <2>3. CallsOnLive' /\ IdsUnique'
    BY <2>1 DEF IInv, CallsOnLive, IdsUnique, Live, arenas
  <2>4. \A c \in Arena : InUse(c)' <=> InUse(c)
    BY <2>1 DEF InUse, Live, Users, arenas
  <2>5. Memory'
    BY <2>1, <2>4, MemorySame DEF IInv, arenas, blocks, infos
  <2>6. \A t \in Thread : InHand(t)'
    BY <2>1, <2>4 DEF IInv, InHand, Held, Avail, arenas, blocks, infos
  <2> QED BY <2>2, <2>3, <2>5, <2>6 DEF IInv
<1> QED BY <1>1, <1>2 DEF Next

(* Every reachable state satisfies IInv.                                   *)
THEOREM Invariance == Spec => []IInv
  BY InitInvariant, NextInvariant, PTL DEF Spec

(* The headers of the blocks, the arenas and the threads keep their types, *)
(* no allocation ends beyond its block and no chunk of destructors is      *)
(* overfull.                                                               *)
THEOREM TypeCorrect == Spec => []TypeOK
<1>1. IInv => TypeOK
  BY DEF IInv
<1> QED BY Invariance, <1>1, PTL

(* GetBlock returns a block of the calling thread and of the arena it was  *)
(* asked for, with the room: no memory is handed out twice, although        *)
(* caches and hints outlive the arenas they speak of.                      *)
THEOREM BlocksAreOwn == Spec => []OwnBlock
<1>1. IInv => OwnBlock
  <2> SUFFICES ASSUME IInv, NEW t \in Thread, pc[t] = "have"
               PROVE  /\ owner[mine[t]] = t
                      /\ \E i \in ToSet(threads[call[t].arena]) : mine[t] \in ToSet(head[i])
                      /\ Avail(mine[t]) >= IF call[t].chunk THEN need[t] ELSE call[t].bytes
    BY DEF OwnBlock
  <2>1. /\ Held(call[t].arena, mine[t]) /\ owner[mine[t]] = t
        /\ Avail(mine[t]) >= need[t]
    BY DEF IInv, InHand
  <2>2. call[t].chunk \/ need[t] = call[t].bytes
    BY HandTyped
  <2> QED BY <2>1, <2>2 DEF Held
<1> QED BY Invariance, <1>1, PTL

-----------------------------------------------------------------------------
(* The chains of an arena: what NoBlockLost adds to the invariant.         *)

\* A thread is in the list of an arena once, with chains without repetition.
Chain(a) ==
  /\ IsInjective(threads[a])
  /\ \A i, j \in InfosIn(a) : owner[i] = owner[j] => i = j
  /\ \A i \in InfosIn(a) : IsInjective(head[i])

AllHeld ==
  \A b \in Address : owner[b] # NoThread => \E a \in Arena : InUse(a) /\ b \in BlocksIn(a)

Chains == (\A a \in Arena : InUse(a) => Chain(a)) /\ AllHeld

-----------------------------------------------------------------------------
(* Sequences without repetition.                                           *)
LEMMA InjectiveNone == IsInjective(<<>>)
  BY DEF IsInjective

LEMMA InjectiveOne == \A e : IsInjective(<<e>>)
  BY DEF IsInjective

LEMMA InjectiveCons ==
  ASSUME NEW S, NEW s \in Seq(S), NEW e, IsInjective(s), e \notin ToSet(s)
  PROVE  IsInjective(<<e>> \o s)
<1> DEFINE c == <<e>> \o s
<1>1. /\ DOMAIN c = 1 .. Len(s) + 1 /\ DOMAIN s = 1 .. Len(s) /\ Len(s) \in Nat
      /\ c[1] = e
      /\ \A i \in 1 .. Len(s) : c[i + 1] = s[i]
  OBVIOUS
<1> HIDE DEF c
<1>2. \A i \in DOMAIN c \ {1} : i - 1 \in DOMAIN s /\ c[i] = s[i - 1]
  <2> SUFFICES ASSUME NEW i \in DOMAIN c \ {1}
               PROVE  i - 1 \in DOMAIN s /\ c[i] = s[i - 1]
    OBVIOUS
  <2>1. i - 1 \in 1 .. Len(s) /\ (i - 1) + 1 = i
    BY <1>1
  <2> QED BY <1>1, <2>1
<1>3. \A i \in DOMAIN c \ {1} : c[i] # e
  BY <1>2 DEF ToSet
<1>4. ASSUME NEW i \in DOMAIN c, NEW j \in DOMAIN c, c[i] = c[j] PROVE i = j
  <2>1. CASE i = 1 \/ j = 1
    BY <1>1, <1>3, <1>4, <2>1
  <2>2. CASE i # 1 /\ j # 1
    <3>1. i - 1 = j - 1
      BY <1>2, <1>4, <2>2 DEF IsInjective
    <3> QED BY <1>1, <3>1
  <2> QED BY <2>1, <2>2
<1> QED BY <1>4 DEF IsInjective, c

-----------------------------------------------------------------------------
(* What IInv says of the ThreadInfos, pushed or not.                       *)
LEMMA InfoIn ==
  ASSUME NEW a \in Arena, NEW i
  PROVE  i \in InfosIn(a) <=>
           \/ i \in ToSet(threads[a])
           \/ \E u \in Thread : /\ pc[u] \in {"load", "push"}
                                /\ call[u].arena = a /\ mine[u] = i
  BY DEF InfosIn, Pending, Users

\* A ThreadInfo that is not pushed yet.
Unpushed(i, u) ==
  /\ u \in Thread /\ pc[u] \in {"load", "push"} /\ mine[u] = i
  /\ i \in Block /\ owner[i] = u /\ threadInfo[i] = i /\ head[i] = <<i>>
  /\ \A c \in Arena : InUse(c) => i \notin ToSet(threads[c])

LEMMA InfoKind ==
  ASSUME IInv, NEW a \in Arena, InUse(a), NEW i \in InfosIn(a)
  PROVE  i \in ToSet(threads[a]) \/ \E u \in Thread : Unpushed(i, u) /\ call[u].arena = a
<1>1. CASE i \in ToSet(threads[a])
  BY <1>1
<1>2. ASSUME NEW u \in Thread, pc[u] \in {"load", "push"}, call[u].arena = a, mine[u] = i
      PROVE  Unpushed(i, u)
  <2>1. InHand(u)
    BY DEF IInv
  <2> QED BY <1>2, <2>1 DEF InHand, Unpushed
<1> QED BY <1>1, <1>2, InfoIn

LEMMA InfoFacts ==
  ASSUME IInv, NEW a \in Arena, InUse(a), NEW i \in InfosIn(a)
  PROVE  /\ i \in Address /\ owner[i] \in Thread /\ i \in ToSet(head[i])
         /\ head[i] \in Seq(Address)
         /\ \A x \in ToSet(head[i]) : /\ x \in Address /\ owner[x] = owner[i]
                                     /\ threadInfo[x] = i
                                     /\ (x \in Block \/ x = initialBlock[a])
<1>1. TypeOK /\ Types /\ InfosSound
  BY DEF IInv, Memory
<1>2. CASE i \in ToSet(threads[a])
  <2>1. i \in Address /\ head[i] \in Seq(Address)
    BY <1>1, <1>2, InfoHead
  <2>2. \A x \in ToSet(head[i]) : x \in Address
    BY <2>1, ToSetType
  <2> QED BY <1>1, <1>2, <2>1, <2>2 DEF InfosSound
<1>3. ASSUME NEW u \in Thread, Unpushed(i, u)
      PROVE  /\ i \in Address /\ owner[i] \in Thread /\ i \in ToSet(head[i])
             /\ head[i] \in Seq(Address)
             /\ \A x \in ToSet(head[i]) : /\ x \in Address /\ owner[x] = owner[i]
                                         /\ threadInfo[x] = i
                                         /\ (x \in Block \/ x = initialBlock[a])
  <2>1. i \in Block /\ i \in Address /\ owner[i] = u /\ threadInfo[i] = i
    BY <1>3 DEF Unpushed, Address
  <2>2. ToSet(head[i]) = {i}
    BY <1>3, ToSetOfOne DEF Unpushed
  <2>3. head[i] \in Seq(Address)
    BY <1>1, <2>1 DEF Types
  <2> QED BY <2>1, <2>2, <2>3
<1> QED BY <1>2, <1>3, InfoKind

\* The infos of an arena are the same if the same threads hold the same ones back.
LEMMA InfosSame ==
  ASSUME NEW a \in Arena, threads'[a] = threads[a],
         \A u \in Thread :
           /\ pc'[u] \in {"load", "push"} /\ call'[u].arena = a
                <=> pc[u] \in {"load", "push"} /\ call[u].arena = a
           /\ pc[u] \in {"load", "push"} /\ pc'[u] \in {"load", "push"} => mine'[u] = mine[u]
  PROVE  InfosIn(a)' = InfosIn(a)
<1>1. \A i : i \in InfosIn(a) <=>
               \/ i \in ToSet(threads[a])
               \/ \E u \in Thread : /\ pc[u] \in {"load", "push"}
                                    /\ call[u].arena = a /\ mine[u] = i
  BY InfoIn
<1>2. \A i : i \in InfosIn(a)' <=>
               \/ i \in ToSet(threads'[a])
               \/ \E u \in Thread : /\ pc'[u] \in {"load", "push"}
                                    /\ call'[u].arena = a /\ mine'[u] = i
  BY DEF InfosIn, Pending, Users
<1>3. \A i : i \in InfosIn(a)' <=> i \in InfosIn(a)
  BY <1>1, <1>2
<1> QED BY <1>3

LEMMA ChainKept ==
  ASSUME NEW a \in Arena, Chain(a), threads'[a] = threads[a], InfosIn(a)' = InfosIn(a),
         \A i \in InfosIn(a) : owner'[i] = owner[i] /\ head'[i] = head[i]
  PROVE  Chain(a)'
<1>1. IsInjective(threads'[a])
  BY DEF Chain
<1>2. \A i, j \in InfosIn(a)' : owner'[i] = owner'[j] => i = j
  BY DEF Chain
<1>3. \A i \in InfosIn(a)' : IsInjective(head'[i])
  BY DEF Chain
<1> QED BY <1>1, <1>2, <1>3 DEF Chain

\* A step that makes no block and frees none.
LEMMA ChainsSame ==
  ASSUME Chains, UNCHANGED <<threads, owner, head>>,
         \A c \in Arena : (InUse(c)' <=> InUse(c)) /\ InfosIn(c)' = InfosIn(c)
  PROVE  Chains'
<1>1. \A c \in Arena : InUse(c)' => Chain(c)'
  BY ChainKept DEF Chains
<1>2. \A c \in Arena : BlocksIn(c)' = BlocksIn(c)
  BY DEF BlocksIn
<1>3. AllHeld'
  BY <1>2 DEF Chains, AllHeld
<1> QED BY <1>1, <1>3 DEF Chains

-----------------------------------------------------------------------------
(* The steps.                                                              *)

LEMMA QuietKeeps ==
  ASSUME IInv, NEW t \in Thread,
         \/ NewThread(t)
         \/ \E a \in Arena : TearDown(t, a)
                             \/ \E n \in Bytes, c \in BOOLEAN : Allocate(t, a, n, c)
         \/ CheckCache(t) \/ CheckHint(t) \/ FindThreadInfo(t) \/ LoadThreads(t)
         \/ AllocateObject(t) \/ AllocateChunk(t)
  PROVE  /\ UNCHANGED <<lifecycleId, threads, owner, head>>
         /\ \A c \in Arena : (InUse(c)' <=> InUse(c)) /\ InfosIn(c)' = InfosIn(c)
<1>1. /\ pc \in [Thread -> Location] /\ mine \in [Thread -> Address \cup {NoBlock}]
      /\ call \in [Thread -> {NoCall} \cup [arena : Arena] \cup Request]
  BY DEF IInv, TypeOK, Types
<1>2. UNCHANGED <<lifecycleId, threads, owner, head>>
  <2>1. CASE NewThread(t)
    BY <2>1 DEF NewThread, arenas, blocks, infos
  <2>2. ASSUME NEW a \in Arena, TearDown(t, a) \/ \E n \in Bytes, c \in BOOLEAN : Allocate(t, a, n, c)
        PROVE  UNCHANGED <<lifecycleId, threads, owner, head>>
    BY <2>2 DEF TearDown, Allocate, arenas, blocks, infos
  <2>3. CASE CheckCache(t) \/ CheckHint(t) \/ FindThreadInfo(t) \/ LoadThreads(t)
    BY <2>3 DEF CheckCache, CheckHint, FindThreadInfo, LoadThreads, arenas, blocks, infos
  <2>4. CASE AllocateObject(t)
    BY <2>4 DEF AllocateObject, arenas
  <2>5. CASE AllocateChunk(t)
    BY <2>5 DEF AllocateChunk, arenas
  <2> QED BY <2>1, <2>2, <2>3, <2>4, <2>5
<1>3. /\ \A u \in Thread \ {t} : pc'[u] = pc[u] /\ call'[u] = call[u] /\ mine'[u] = mine[u]
      /\ pc[t] # "init" /\ pc'[t] # "init"
      /\ \/ pc[t] \notin {"load", "push"} /\ pc'[t] \notin {"load", "push"}
         \/ /\ pc[t] \in {"load", "push"} /\ pc'[t] \in {"load", "push"}
            /\ call'[t] = call[t] /\ mine'[t] = mine[t]
  <2>1. CASE NewThread(t)
    BY <2>1 DEF NewThread
  <2>2. ASSUME NEW a \in Arena, TearDown(t, a) \/ \E n \in Bytes, c \in BOOLEAN : Allocate(t, a, n, c)
        PROVE  /\ \A u \in Thread \ {t} : pc'[u] = pc[u] /\ call'[u] = call[u] /\ mine'[u] = mine[u]
               /\ pc[t] = "out" /\ pc'[t] \in {"free", "cache"}
    <3>1. CASE TearDown(t, a)
      BY <1>1, <3>1 DEF TearDown, Goto
    <3>2. ASSUME NEW n \in Bytes, NEW c \in BOOLEAN, Allocate(t, a, n, c)
          PROVE  /\ pc' = [pc EXCEPT ![t] = "cache"] /\ pc[t] = "out" /\ mine' = mine
                 /\ \A u \in Thread \ {t} : call'[u] = call[u]
      BY <3>2 DEF Allocate, Goto
    <3> QED BY <1>1, <2>2, <3>1, <3>2
  <2>3. CASE CheckCache(t) \/ CheckHint(t)
    BY <1>1, <2>3 DEF CheckCache, CheckHint, Goto
  <2>4. CASE FindThreadInfo(t)
    BY <1>1, <2>4 DEF FindThreadInfo, Goto
  <2>5. CASE LoadThreads(t)
    BY <1>1, <2>5 DEF LoadThreads, Goto
  <2>6. CASE AllocateObject(t)
    <3>1. /\ pc[t] = "have"
          /\ \E w \in {"out", "cache", "have"} : pc' = [pc EXCEPT ![t] = w]
      BY <2>6 DEF AllocateObject, Finish, Goto
    <3>2. pc'[t] \in {"out", "cache", "have"} /\ \A u \in Thread \ {t} : pc'[u] = pc[u]
      BY <1>1, <3>1
    <3>3. \A u \in Thread \ {t} : call'[u] = call[u] /\ mine'[u] = mine[u]
      <4>1. CASE Finish(t)
        BY <4>1 DEF Finish
      <4>2. CASE call' = [call EXCEPT ![t].chunk = TRUE] /\ mine' = mine
        BY <1>1, <4>2
      <4> QED BY <2>6, <4>1, <4>2 DEF AllocateObject
    <3> QED BY <3>1, <3>2, <3>3
  <2>7. CASE AllocateChunk(t)
    BY <1>1, <2>7 DEF AllocateChunk, Finish, Goto
  <2> QED BY <2>1, <2>2, <2>3, <2>4, <2>5, <2>6, <2>7
<1>4. \A c \in Arena : InUse(c)' <=> InUse(c)
  BY <1>2, <1>3, InUseSame
<1>5. ASSUME NEW c \in Arena PROVE InfosIn(c)' = InfosIn(c)
  <2>1. threads'[c] = threads[c]
    BY <1>2
  <2>2. \A u \in Thread :
          /\ pc'[u] \in {"load", "push"} /\ call'[u].arena = c
               <=> pc[u] \in {"load", "push"} /\ call[u].arena = c
          /\ pc[u] \in {"load", "push"} /\ pc'[u] \in {"load", "push"} => mine'[u] = mine[u]
    BY <1>3
  <2> QED BY <1>3, <2>1, <2>2, InfosSame
<1> QED BY <1>2, <1>4, <1>5

LEMMA ChainsOfQuiet ==
  ASSUME IInv, Chains, NEW t \in Thread,
         \/ NewThread(t)
         \/ \E a \in Arena : TearDown(t, a)
                             \/ \E n \in Bytes, c \in BOOLEAN : Allocate(t, a, n, c)
         \/ CheckCache(t) \/ CheckHint(t) \/ FindThreadInfo(t) \/ LoadThreads(t)
         \/ AllocateObject(t) \/ AllocateChunk(t)
  PROVE  Chains'
  BY QuietKeeps, ChainsSame

\* A block that is nobody's hangs from no ThreadInfo in use.
LEMMA FreeIsApart ==
  ASSUME IInv, NEW b, owner[b] = NoThread
  PROVE  \A a \in Arena : InUse(a) => \A i \in InfosIn(a) : i # b /\ b \notin ToSet(head[i])
<1> SUFFICES ASSUME NEW a \in Arena, InUse(a), NEW i \in InfosIn(a)
             PROVE  i # b /\ b \notin ToSet(head[i])
  OBVIOUS
<1>1. owner[i] \in Thread /\ \A x \in ToSet(head[i]) : owner[x] = owner[i]
  BY InfoFacts
<1> QED BY <1>1, ThreadAssumption

LEMMA NewThreadInfoKeeps ==
  ASSUME IInv, NEW t \in Thread, NEW b \in Block, NewThreadInfo(t, b)
  PROVE  /\ \A c \in Arena : InUse(c)' <=> InUse(c)
         /\ call[t].arena \in Arena /\ InUse(call[t].arena)
         /\ \A c \in Arena :
              /\ c = call[t].arena => InfosIn(c)' = InfosIn(c) \cup {b}
              /\ c # call[t].arena => InfosIn(c)' = InfosIn(c)
<1>1. /\ pc \in [Thread -> Location] /\ mine \in [Thread -> Address \cup {NoBlock}]
      /\ head \in [Address -> Seq(Address)] /\ owner \in [Address -> Thread \cup {NoThread}]
      /\ b \in Address /\ CallsOnLive
  BY DEF IInv, TypeOK, Types, Address
<1>2. /\ pc[t] = "slow" /\ pc' = [pc EXCEPT ![t] = "load"] /\ mine' = [mine EXCEPT ![t] = b]
      /\ owner' = [owner EXCEPT ![b] = t] /\ owner[b] = NoThread
      /\ head' = [head EXCEPT ![b] = <<b>>] /\ InfosOf(t) = {}
      /\ UNCHANGED <<lifecycleId, threads, call>>
  BY DEF NewThreadInfo, NewBlock, Goto
<1>3. PICK a \in Arena : a = call[t].arena /\ InUse(a)
  BY <1>1, <1>2, UserInUse DEF Working
<1>4. \A c \in Arena : InUse(c)' <=> InUse(c)
  BY <1>1, <1>2, InUseSame
<1>5. InfosIn(a)' = InfosIn(a) \cup {b}
  <2>1. \A i : i \in InfosIn(a)' <=>
               \/ i \in ToSet(threads'[a])
               \/ \E u \in Thread : /\ pc'[u] \in {"load", "push"}
                                    /\ call'[u].arena = a /\ mine'[u] = i
    BY DEF InfosIn, Pending, Users
  <2>2. /\ \A u \in Thread \ {t} : pc'[u] = pc[u] /\ call'[u] = call[u] /\ mine'[u] = mine[u]
        /\ pc'[t] = "load" /\ call'[t].arena = a /\ mine'[t] = b /\ pc[t] \notin {"load", "push"}
        /\ threads' = threads
    BY <1>1, <1>2, <1>3
  <2>3. \A i : i \in InfosIn(a)' <=> i \in InfosIn(a) \/ i = b
    BY <2>1, <2>2, InfoIn
  <2> QED BY <2>3
<1>6. ASSUME NEW c \in Arena \ {a} PROVE InfosIn(c)' = InfosIn(c)
  BY <1>1, <1>2, <1>3, InfosSame
<1> QED BY <1>3, <1>4, <1>5, <1>6

LEMMA ChainsOfNewThreadInfo ==
  ASSUME IInv, Chains, NEW t \in Thread, NEW b \in Block, NewThreadInfo(t, b)
  PROVE  Chains'
<1>1. /\ pc \in [Thread -> Location] /\ mine \in [Thread -> Address \cup {NoBlock}]
      /\ head \in [Address -> Seq(Address)] /\ owner \in [Address -> Thread \cup {NoThread}]
      /\ b \in Address /\ CallsOnLive
  BY DEF IInv, TypeOK, Types, Address
<1>2. /\ pc[t] = "slow" /\ pc' = [pc EXCEPT ![t] = "load"] /\ mine' = [mine EXCEPT ![t] = b]
      /\ owner' = [owner EXCEPT ![b] = t] /\ owner[b] = NoThread
      /\ head' = [head EXCEPT ![b] = <<b>>] /\ InfosOf(t) = {}
      /\ UNCHANGED <<lifecycleId, threads, call>>
  BY DEF NewThreadInfo, NewBlock, Goto
<1>3. PICK a \in Arena : a = call[t].arena /\ InUse(a)
  BY <1>1, <1>2, UserInUse DEF Working
<1>4. \A c \in Arena : InUse(c)' <=> InUse(c)
  BY NewThreadInfoKeeps
<1>5. \A c \in Arena : InUse(c) => \A i \in InfosIn(c) : i # b /\ b \notin ToSet(head[i])
  BY <1>2, FreeIsApart
<1>6. \A c \in Arena : InUse(c) =>
        \A i \in InfosIn(c) : i \in Address /\ owner'[i] = owner[i] /\ head'[i] = head[i]
  BY <1>1, <1>2, <1>5, InfoFacts
<1>7. InfosIn(a)' = InfosIn(a) \cup {b}
  BY <1>3, NewThreadInfoKeeps
<1>8. \A c \in Arena \ {a} : InfosIn(c)' = InfosIn(c)
  BY <1>3, NewThreadInfoKeeps
<1>9. ASSUME NEW i \in InfosIn(a) PROVE owner[i] # t
  <2>1. CASE i \in ToSet(threads[a])
    BY <1>2, <1>3, <2>1 DEF InfosOf
  <2>2. ASSUME NEW u \in Thread, Unpushed(i, u) PROVE owner[i] # t
    BY <1>2, <2>2 DEF Unpushed
  <2> QED BY <1>3, <2>1, <2>2, InfoKind
<1>10. Chain(a)'
  <2>1. Chain(a)
    BY <1>3 DEF Chains
  <2>2. IsInjective(threads'[a])
    BY <1>2, <2>1 DEF Chain
  <2>3. owner'[b] = t /\ head'[b] = <<b>>
    BY <1>1, <1>2
  <2>4. \A i, j \in InfosIn(a)' : owner'[i] = owner'[j] => i = j
    BY <1>3, <1>6, <1>7, <1>9, <2>1, <2>3 DEF Chain
  <2>5. ASSUME NEW i \in InfosIn(a)' PROVE IsInjective(head'[i])
    <3>1. CASE i = b
      BY <2>3, <3>1, InjectiveOne
    <3>2. CASE i \in InfosIn(a)
      <4>1. head'[i] = head[i] /\ IsInjective(head[i])
        BY <1>3, <1>6, <2>1, <3>2 DEF Chain
      <4> QED BY <4>1
    <3> QED BY <1>7, <3>1, <3>2
  <2> QED BY <2>2, <2>4, <2>5 DEF Chain
<1>11. ASSUME NEW c \in Arena, InUse(c)' PROVE Chain(c)'
  <2>1. CASE c # a
    <3>1. /\ Chain(c) /\ threads'[c] = threads[c] /\ InfosIn(c)' = InfosIn(c)
          /\ \A i \in InfosIn(c) : owner'[i] = owner[i] /\ head'[i] = head[i]
      BY <1>2, <1>4, <1>6, <1>8, <1>11, <2>1 DEF Chains
    <3> QED BY <3>1, ChainKept
  <2> QED BY <1>10, <2>1
<1>12. AllHeld'
  <2> SUFFICES ASSUME NEW x \in Address, owner'[x] # NoThread
               PROVE  \E c \in Arena : InUse(c)' /\ \E i \in InfosIn(c)' : x \in ToSet(head'[i])
    BY DEF AllHeld, BlocksIn
  <2>1. CASE x = b
    <3>1. b \in ToSet(head'[b])
      BY <1>1, <1>2, ToSetOfOne
    <3> QED BY <1>3, <1>4, <1>7, <2>1, <3>1
  <2>2. CASE x # b
    <3>1. owner[x] # NoThread
      BY <1>1, <1>2, <2>2
    <3>2. PICK c \in Arena : InUse(c) /\ \E i \in InfosIn(c) : x \in ToSet(head[i])
      BY <3>1 DEF Chains, AllHeld, BlocksIn
    <3>3. PICK i \in InfosIn(c) : x \in ToSet(head[i])
      BY <3>2
    <3>4. head'[i] = head[i] /\ i \in InfosIn(c)'
      BY <1>6, <1>7, <1>8, <3>2
    <3> QED BY <1>4, <3>2, <3>3, <3>4
  <2> QED BY <2>1, <2>2
<1> QED BY <1>11, <1>12 DEF Chains

LEMMA PushKeeps ==
  ASSUME IInv, NEW t \in Thread, PushThreadInfo(t)
  PROVE  \A c \in Arena : (InUse(c)' <=> InUse(c)) /\ InfosIn(c)' = InfosIn(c)
<1>1. /\ pc \in [Thread -> Location] /\ threads \in [Arena -> Seq(Address)]
      /\ CallsOnLive /\ InHand(t)
  BY DEF IInv, TypeOK, Types
<1>2. /\ pc[t] = "push" /\ pc' = [pc EXCEPT ![t] = IF Swaps(t) THEN "head" ELSE "load"]
      /\ UNCHANGED <<lifecycleId, owner, head, call, mine>>
  BY DEF PushThreadInfo, Goto, blocks, infos
<1>3. PICK a \in Arena : a = call[t].arena /\ InUse(a)
  BY <1>1, <1>2, UserInUse DEF Working
<1>4. \A c \in Arena : InUse(c)' <=> InUse(c)
  BY <1>1, <1>2, InUseSame
<1>5. CASE ~Swaps(t)
  <2>1. threads' = threads /\ pc'[t] = "load" /\ \A u \in Thread \ {t} : pc'[u] = pc[u]
    BY <1>1, <1>2, <1>5 DEF PushThreadInfo
  <2>2. \A c \in Arena : InfosIn(c)' = InfosIn(c)
    BY <1>2, <2>1, InfosSame
  <2> QED BY <1>4, <2>2
<1>6. CASE Swaps(t)
  <2> DEFINE m == mine[t]
  <2>1. /\ threads' = [threads EXCEPT ![a] = <<m>> \o threads[a]]
        /\ pc'[t] = "head" /\ \A u \in Thread \ {t} : pc'[u] = pc[u]
    BY <1>1, <1>2, <1>3, <1>6 DEF PushThreadInfo, Swaps
  <2>2. m \notin ToSet(threads[a]) /\ threads[a] \in Seq(Address)
    BY <1>1, <1>2, <1>3 DEF InHand
  <2>3. threads'[a] = <<m>> \o threads[a]
    BY <1>1, <2>1
  <2>4. ToSet(threads'[a]) = ToSet(threads[a]) \cup {m}
    BY <2>2, <2>3, ToSetOfCons
  <2>5. InfosIn(a)' = InfosIn(a)
    <3>1. \A i : i \in InfosIn(a)' <=>
                 \/ i \in ToSet(threads'[a])
                 \/ \E u \in Thread : /\ pc'[u] \in {"load", "push"}
                                      /\ call'[u].arena = a /\ mine'[u] = i
      BY DEF InfosIn, Pending, Users
    <3>2. \A i : i \in InfosIn(a)' <=>
                 \/ i \in ToSet(threads[a]) \/ i = m
                 \/ \E u \in Thread \ {t} : /\ pc[u] \in {"load", "push"}
                                            /\ call[u].arena = a /\ mine[u] = i
      BY <1>2, <2>1, <2>4, <3>1
    <3>3. \A i : i \in InfosIn(a)' <=> i \in InfosIn(a)
      BY <1>2, <1>3, <3>2, InfoIn
    <3> QED BY <3>3
  <2>6. \A c \in Arena \ {a} : threads'[c] = threads[c] /\ InfosIn(c)' = InfosIn(c)
    <3> SUFFICES ASSUME NEW c \in Arena \ {a}
                 PROVE  threads'[c] = threads[c] /\ InfosIn(c)' = InfosIn(c)
      OBVIOUS
    <3>1. threads'[c] = threads[c]
      BY <1>1, <2>1
    <3>2. \A u \in Thread :
            /\ pc'[u] \in {"load", "push"} /\ call'[u].arena = c
                 <=> pc[u] \in {"load", "push"} /\ call[u].arena = c
            /\ mine'[u] = mine[u]
      BY <1>2, <1>3, <2>1
    <3> QED BY <3>1, <3>2, InfosSame
  <2> QED BY <1>4, <2>5, <2>6
<1> QED BY <1>5, <1>6

LEMMA ChainsOfPush ==
  ASSUME IInv, Chains, NEW t \in Thread, PushThreadInfo(t)
  PROVE  Chains'
<1>1. /\ pc \in [Thread -> Location] /\ threads \in [Arena -> Seq(Address)]
      /\ CallsOnLive /\ InHand(t)
  BY DEF IInv, TypeOK, Types
<1>2. /\ pc[t] = "push" /\ pc' = [pc EXCEPT ![t] = IF Swaps(t) THEN "head" ELSE "load"]
      /\ UNCHANGED <<lifecycleId, owner, head, call, mine>>
  BY DEF PushThreadInfo, Goto, blocks, infos
<1>3. PICK a \in Arena : a = call[t].arena /\ InUse(a)
  BY <1>1, <1>2, UserInUse DEF Working
<1>4. \A c \in Arena : InUse(c)' <=> InUse(c)
  BY PushKeeps
<1>5. CASE ~Swaps(t)
  <2>1. threads' = threads /\ pc'[t] = "load" /\ \A u \in Thread \ {t} : pc'[u] = pc[u]
    BY <1>1, <1>2, <1>5 DEF PushThreadInfo
  <2> QED BY <1>2, <1>4, <2>1, PushKeeps, ChainsSame
<1>6. CASE Swaps(t)
  <2> DEFINE m == mine[t]
  <2>1. /\ threads' = [threads EXCEPT ![a] = <<m>> \o threads[a]]
        /\ pc'[t] = "head" /\ \A u \in Thread \ {t} : pc'[u] = pc[u]
    BY <1>1, <1>2, <1>3, <1>6 DEF PushThreadInfo, Swaps
  <2>2. m \notin ToSet(threads[a]) /\ threads[a] \in Seq(Address)
    BY <1>1, <1>2, <1>3 DEF InHand
  <2>3. threads'[a] = <<m>> \o threads[a]
    BY <1>1, <2>1
  <2>4. \A c \in Arena : InfosIn(c)' = InfosIn(c)
    BY PushKeeps
  <2>5. \A c \in Arena \ {a} : threads'[c] = threads[c]
    BY <1>1, <2>1
  <2>6. ASSUME NEW c \in Arena, InUse(c)' PROVE Chain(c)'
    <3>1. Chain(c)
      BY <1>4, <2>6 DEF Chains
    <3>2. IsInjective(threads'[c])
      <4>1. CASE c = a
        BY <2>2, <2>3, <3>1, <4>1, InjectiveCons DEF Chain
      <4>2. CASE c # a
        BY <2>5, <3>1, <4>2 DEF Chain
      <4> QED BY <4>1, <4>2
    <3>3. InfosIn(c)' = InfosIn(c)
      BY <2>4
    <3> QED BY <1>2, <3>1, <3>2, <3>3 DEF Chain
  <2>7. \A c \in Arena : BlocksIn(c)' = BlocksIn(c)
    BY <1>2, <2>4 DEF BlocksIn
  <2>8. AllHeld'
    BY <1>2, <1>4, <2>7 DEF Chains, AllHeld
  <2> QED BY <2>6, <2>8 DEF Chains
<1> QED BY <1>5, <1>6

LEMMA ChainsOfGetBlockSlow ==
  ASSUME IInv, Chains, NEW t \in Thread, NEW b \in Address, GetBlockSlow(t, b)
  PROVE  Chains'
<1>1. /\ pc \in [Thread -> Location] /\ mine \in [Thread -> Address \cup {NoBlock}]
      /\ head \in [Address -> Seq(Address)] /\ owner \in [Address -> Thread \cup {NoThread}]
      /\ CallsOnLive /\ InHand(t)
  BY DEF IInv, TypeOK, Types
<1>2. /\ pc[t] = "head" /\ pc' = [pc EXCEPT ![t] = "have"] /\ mine' = [mine EXCEPT ![t] = b]
      /\ UNCHANGED <<lifecycleId, threads, call>>
  BY DEF GetBlockSlow, Goto
<1>3. PICK a \in Arena : a = call[t].arena /\ InUse(a)
  BY <1>1, <1>2, UserInUse DEF Working
<1>4. \A c \in Arena : InUse(c)' <=> InUse(c)
  BY <1>1, <1>2, InUseSame
<1>5. ASSUME NEW c \in Arena PROVE InfosIn(c)' = InfosIn(c)
  BY <1>1, <1>2, InfosSame
<1>6. PICK i \in InfosIn(a) : i = mine[t]
  BY <1>1, <1>2, <1>3, InfoIn DEF InHand
<1>7. i \in Address /\ head[i] \in Seq(Address)
  BY <1>3, InfoFacts
<1>8. CASE UNCHANGED <<owner, head>>
  BY <1>2, <1>4, <1>5, <1>8, ChainsSame
<1>9. CASE /\ owner[b] = NoThread /\ owner' = [owner EXCEPT ![b] = t]
           /\ head' = [head EXCEPT ![i] = <<b>> \o head[i]]
  <2>1. \A c \in Arena : InUse(c) => \A j \in InfosIn(c) : j # b /\ b \notin ToSet(head[j])
    BY <1>9, FreeIsApart
  <2>2. \A c \in Arena : InUse(c) => \A j \in InfosIn(c) : j \in Address /\ owner'[j] = owner[j]
    BY <1>1, <1>9, <2>1, InfoFacts
  <2>3. head'[i] = <<b>> \o head[i] /\ \A j \in Address : j # i => head'[j] = head[j]
    BY <1>1, <1>7, <1>9
  <2>4. ToSet(head'[i]) = {b} \cup ToSet(head[i])
    BY <1>7, <2>3, ToSetOfCons
  <2>5. ASSUME NEW c \in Arena, InUse(c)' PROVE Chain(c)'
    <3>1. InUse(c) /\ Chain(c)
      BY <1>4, <2>5 DEF Chains
    <3>2. ASSUME NEW j \in InfosIn(c) PROVE IsInjective(head'[j])
      <4>1. IsInjective(head[j]) /\ j \in Address /\ b \notin ToSet(head[j])
        BY <2>1, <2>2, <3>1 DEF Chain
      <4>2. CASE j = i
        BY <1>7, <2>3, <4>1, <4>2, InjectiveCons
      <4>3. CASE j # i
        BY <2>3, <4>1, <4>3
      <4> QED BY <4>2, <4>3
    <3>3. IsInjective(threads'[c])
      BY <1>2, <3>1 DEF Chain
    <3>4. \A j, k \in InfosIn(c)' : owner'[j] = owner'[k] => j = k
      BY <1>5, <2>2, <3>1 DEF Chain
    <3> QED BY <1>5, <3>2, <3>3, <3>4 DEF Chain
  <2>6. AllHeld'
    <3> SUFFICES ASSUME NEW x \in Address, owner'[x] # NoThread
                 PROVE  \E c \in Arena : InUse(c)' /\ \E j \in InfosIn(c)' : x \in ToSet(head'[j])
      BY DEF AllHeld, BlocksIn
    <3>1. CASE x = b
      BY <1>3, <1>4, <1>5, <2>4, <3>1
    <3>2. CASE x # b
      <4>1. owner[x] # NoThread
        BY <1>1, <1>9, <3>2
      <4>2. PICK c \in Arena : InUse(c) /\ \E j \in InfosIn(c) : x \in ToSet(head[j])
        BY <4>1 DEF Chains, AllHeld, BlocksIn
      <4>3. PICK j \in InfosIn(c) : x \in ToSet(head[j])
        BY <4>2
      <4>4. x \in ToSet(head'[j])
        BY <2>2, <2>3, <2>4, <4>2, <4>3
      <4> QED BY <1>4, <1>5, <4>2, <4>3, <4>4
    <3> QED BY <3>1, <3>2
  <2> QED BY <2>5, <2>6 DEF Chains
<1> QED BY <1>6, <1>8, <1>9 DEF GetBlockSlow, NewBlock, blocks

-----------------------------------------------------------------------------
(* The life of an arena.                                                   *)
LEMMA ChainsOfInit ==
  ASSUME IInv, Chains, NEW t \in Thread, NEW a \in Arena, InitArena(t, a),
         ~InUse(a), InUse(a)',
         \A c \in Arena \ {a} : InUse(c)' <=> InUse(c),
         pc[t] \notin {"load", "push"}, pc'[t] = "out",
         \A u \in Thread \ {t} : /\ pc'[u] = pc[u] /\ call'[u] = call[u]
                                 /\ mine'[u] = mine[u]
  PROVE  Chains'
<1> DEFINE b == initialBlock[a]
<1>1. /\ head \in [Address -> Seq(Address)] /\ owner \in [Address -> Thread \cup {NoThread}]
      /\ threads \in [Arena -> Seq(Address)] /\ CallsOnLive
  BY DEF IInv, TypeOK, Types
<1>2. threads' = [threads EXCEPT ![a] = IF b = NoBlock THEN <<>> ELSE <<b>>]
  BY DEF InitArena
<1>3. /\ b # NoBlock => b \in Address /\ b \notin Block
      /\ \A c \in Arena \ {a} : b # NoBlock => initialBlock[c] # b
      /\ NoBlock \notin Address
  BY BlockAssumption DEF Initial, Address
<1>4. b # NoBlock => owner'[b] = t /\ head'[b] = <<b>>
  BY <1>1, <1>3 DEF InitArena
<1>5. \A x \in Address : x # b => owner'[x] = owner[x] /\ head'[x] = head[x]
  BY <1>1 DEF InitArena, blocks, infos
<1>6. \A u \in Thread : pc[u] \in {"load", "push"} => call[u].arena # a
  BY <1>1, UserInUse DEF Working
<1>7. \A i : i \in InfosIn(a)' <=> b # NoBlock /\ i = b
  <2>1. \A i : i \in InfosIn(a)' <=>
               \/ i \in ToSet(threads'[a])
               \/ \E u \in Thread : /\ pc'[u] \in {"load", "push"}
                                    /\ call'[u].arena = a /\ mine'[u] = i
    BY DEF InfosIn, Pending, Users
  <2>2. \A u \in Thread : ~(pc'[u] \in {"load", "push"} /\ call'[u].arena = a)
    BY <1>6
  <2>3. ToSet(threads'[a]) = IF b = NoBlock THEN {} ELSE {b}
    BY <1>1, <1>2, ToSetOfOne, ToSetOfNone
  <2> QED BY <2>1, <2>2, <2>3
<1>8. ASSUME NEW c \in Arena \ {a}
      PROVE  threads'[c] = threads[c] /\ InfosIn(c)' = InfosIn(c)
  <2>1. threads'[c] = threads[c]
    BY <1>1, <1>2
  <2> QED BY <2>1, InfosSame
<1>9. ASSUME NEW c \in Arena \ {a}, InUse(c), NEW i \in InfosIn(c)
      PROVE  owner'[i] = owner[i] /\ head'[i] = head[i]
  <2>1. i \in Address /\ i \in ToSet(head[i]) /\ (i \in Block \/ i = initialBlock[c])
    BY <1>9, InfoFacts
  <2>2. i # b
    BY <1>3, <2>1
  <2> QED BY <1>5, <2>1, <2>2
<1>10. Chain(a)'
  <2>1. threads'[a] = <<>> \/ threads'[a] = <<b>>
    BY <1>1, <1>2
  <2>2. IsInjective(threads'[a])
    BY <2>1, InjectiveNone, InjectiveOne
  <2>3. \A i, j \in InfosIn(a)' : i = j
    BY <1>7
  <2>4. \A i \in InfosIn(a)' : IsInjective(head'[i])
    <3>1. IsInjective(<<b>>)
      BY InjectiveOne
    <3> QED BY <1>4, <1>7, <3>1
  <2> QED BY <2>2, <2>3, <2>4 DEF Chain
<1>11. ASSUME NEW c \in Arena, InUse(c)' PROVE Chain(c)'
  <2>1. CASE c # a
    <3>1. Chain(c) /\ \A i \in InfosIn(c) : owner'[i] = owner[i] /\ head'[i] = head[i]
      BY <1>9, <1>11, <2>1 DEF Chains
    <3>2. threads'[c] = threads[c] /\ InfosIn(c)' = InfosIn(c)
      BY <1>8, <2>1
    <3> QED BY <3>1, <3>2, ChainKept
  <2> QED BY <1>10, <2>1
<1>12. AllHeld'
  <2> SUFFICES ASSUME NEW x \in Address, owner'[x] # NoThread
               PROVE  \E c \in Arena : InUse(c)' /\ \E j \in InfosIn(c)' : x \in ToSet(head'[j])
    BY DEF AllHeld, BlocksIn
  <2>1. CASE x = b
    <3>1. b # NoBlock /\ b \in InfosIn(a)' /\ x \in ToSet(head'[b])
      BY <1>3, <1>4, <1>7, <2>1, ToSetOfOne
    <3> QED BY <3>1
  <2>2. CASE x # b
    <3>1. owner[x] # NoThread
      BY <1>5, <2>2
    <3>2. PICK c \in Arena : InUse(c) /\ \E j \in InfosIn(c) : x \in ToSet(head[j])
      BY <3>1 DEF Chains, AllHeld, BlocksIn
    <3>3. PICK j \in InfosIn(c) : x \in ToSet(head[j])
      BY <3>2
    <3>4. c # a
      BY <3>2
    <3>5. head'[j] = head[j] /\ j \in InfosIn(c)'
      BY <1>8, <1>9, <3>2, <3>4
    <3> QED BY <3>2, <3>3, <3>4, <3>5
  <2> QED BY <2>1, <2>2
<1> QED BY <1>11, <1>12 DEF Chains

LEMMA ChainsOfFree ==
  ASSUME IInv, Chains, NEW t \in Thread, FreeBlocks(t)
  PROVE  Chains'
<1>1. /\ pc \in [Thread -> Location] /\ lifecycleId \in [Arena -> Nat \cup {Dead}]
      /\ threads \in [Arena -> Seq(Address)] /\ owner \in [Address -> Thread \cup {NoThread}]
      /\ call \in [Thread -> {NoCall} \cup [arena : Arena] \cup Request]
      /\ CallsOnLive /\ InfosApart /\ InfosSound
  BY DEF IInv, TypeOK, Types, Memory
<1>2. pc[t] = "free"
  BY DEF FreeBlocks, Goto
<1>3. PICK a \in Arena :
        /\ a = call[t].arena /\ Live(a)
        /\ \A u \in Thread \ {t} : pc[u] # "out" => call[u].arena # a
  BY <1>1, <1>2 DEF CallsOnLive, Tearing
<1>4. /\ pc'[t] \in {"init", "out"}
      /\ \A u \in Thread \ {t} : pc'[u] = pc[u] /\ call'[u] = call[u] /\ mine'[u] = mine[u]
      /\ owner' = [x \in Address |-> IF x \in Reached(a) THEN NoThread ELSE owner[x]]
      /\ head' = head
  BY <1>1, <1>3 DEF FreeBlocks, Goto, infos
<1>5. InUse(a) /\ ~InUse(a)'
  <2>1. \/ pc'[t] = "init" /\ call'[t] = call[t]
        \/ lifecycleId'[a] = Dead
    BY <1>1, <1>3, <1>4 DEF FreeBlocks, Goto
  <2> QED BY <1>2, <1>3, <1>4, <2>1 DEF InUse, Live, Users
<1>6. \A c \in Arena \ {a} : threads'[c] = threads[c] /\ lifecycleId'[c] = lifecycleId[c]
  BY <1>1, <1>3 DEF FreeBlocks, arenas
<1>7. \A c \in Arena \ {a} : InUse(c)' <=> InUse(c)
  <2>1. pc'[t] = "init" => call'[t].arena = a
    BY <1>1, <1>3 DEF FreeBlocks, Goto
  <2> QED BY <1>2, <1>3, <1>4, <1>6, <2>1 DEF InUse, Live, Users
<1>8. ASSUME NEW c \in Arena \ {a} PROVE InfosIn(c)' = InfosIn(c)
  BY <1>2, <1>4, <1>6, InfosSame
<1>9. InfosIn(a) = ToSet(threads[a])
  <2>1. \A u \in Thread : ~(pc[u] \in {"load", "push"} /\ call[u].arena = a)
    BY <1>2, <1>3
  <2>2. \A i : i \in InfosIn(a) <=> i \in ToSet(threads[a])
    BY <2>1, InfoIn
  <2> QED BY <2>2
<1>10. ASSUME NEW c \in Arena \ {a}, InUse(c), NEW i \in InfosIn(c)
       PROVE  owner'[i] = owner[i]
  <2>1. i \in Address /\ threadInfo[i] = i
    BY <1>10, InfoFacts
  <2>2. i \notin ToSet(threads[a])
    <3>1. CASE i \in ToSet(threads[c])
      BY <1>1, <1>5, <1>10, <3>1 DEF InfosApart
    <3>2. ASSUME NEW u \in Thread, Unpushed(i, u) PROVE i \notin ToSet(threads[a])
      BY <1>5, <3>2 DEF Unpushed
    <3> QED BY <1>10, <3>1, <3>2, InfoKind
  <2>3. i \notin Reached(a)
    BY <1>1, <1>5, <2>1, <2>2 DEF Reached, InfosSound
  <2> QED BY <1>4, <2>1, <2>3
<1>11. ASSUME NEW c \in Arena, InUse(c)' PROVE Chain(c)'
  <2>1. c # a /\ InUse(c) /\ Chain(c)
    BY <1>5, <1>7, <1>11 DEF Chains
  <2> QED BY <1>4, <1>6, <1>8, <1>10, <2>1, ChainKept
<1>12. AllHeld'
  <2> SUFFICES ASSUME NEW x \in Address, owner'[x] # NoThread
               PROVE  \E c \in Arena : InUse(c)' /\ \E j \in InfosIn(c)' : x \in ToSet(head'[j])
    BY DEF AllHeld, BlocksIn
  <2>1. owner[x] # NoThread /\ x \notin Reached(a)
    BY <1>1, <1>4
  <2>2. PICK c \in Arena : InUse(c) /\ \E j \in InfosIn(c) : x \in ToSet(head[j])
    BY <2>1 DEF Chains, AllHeld, BlocksIn
  <2>3. PICK j \in InfosIn(c) : x \in ToSet(head[j])
    BY <2>2
  <2>4. c # a
    BY <1>9, <2>1, <2>3 DEF Reached
  <2> QED BY <1>4, <1>7, <1>8, <2>2, <2>3, <2>4
<1> QED BY <1>11, <1>12 DEF Chains

LEMMA ConstructKeeps ==
  ASSUME IInv, NEW t \in Thread, NEW a \in Arena, Construct(t, a)
  PROVE  /\ ~InUse(a) /\ InUse(a)'
         /\ \A c \in Arena \ {a} : InUse(c)' <=> InUse(c)
         /\ pc[t] \notin {"load", "push"} /\ pc'[t] = "out"
         /\ \A u \in Thread \ {t} : pc'[u] = pc[u] /\ call'[u] = call[u] /\ mine'[u] = mine[u]
<1>1. TypeOK /\ CallsOnLive
  BY DEF IInv
<1>2. /\ pc[t] = "out" /\ ~Live(a) /\ InitArena(t, a) /\ UNCHANGED <<pc, call, mine>>
      /\ \A c \in Arena \ {a} : lifecycleId'[c] = lifecycleId[c]
      /\ lifecycleId'[a] = generator
  BY <1>1 DEF Construct, InitArena, NextId, TypeOK
<1>3. generator # Dead
  BY <1>1 DEF TypeOK, Dead
<1>4. \A u \in Thread : pc[u] = "init" => call[u].arena # a
  BY <1>1, <1>2 DEF CallsOnLive, Tearing
<1>5. ~InUse(a) /\ InUse(a)'
  BY <1>2, <1>3, <1>4 DEF InUse, Live, Users
<1>6. \A c \in Arena \ {a} : InUse(c)' <=> InUse(c)
  BY <1>2 DEF InUse, Live, Users
<1> QED BY <1>1, <1>2, <1>5, <1>6 DEF TypeOK

LEMMA ChainsOfConstruct ==
  ASSUME IInv, Chains, NEW t \in Thread, NEW a \in Arena, Construct(t, a)
  PROVE  Chains'
<1>1. InitArena(t, a)
  BY DEF Construct
<1> QED BY <1>1, ConstructKeeps, ChainsOfInit

LEMMA RestartKeeps ==
  ASSUME IInv, NEW t \in Thread, Restart(t)
  PROVE  \E a \in Arena :
           /\ InitArena(t, a) /\ ~InUse(a) /\ InUse(a)'
           /\ \A c \in Arena \ {a} : InUse(c)' <=> InUse(c)
           /\ pc[t] \notin {"load", "push"} /\ pc'[t] = "out"
           /\ \A u \in Thread \ {t} : pc'[u] = pc[u] /\ call'[u] = call[u] /\ mine'[u] = mine[u]
<1>1. TypeOK /\ Types /\ CallsOnLive
  BY DEF IInv
<1>2. /\ pc \in [Thread -> Location] /\ lifecycleId \in [Arena -> Nat \cup {Dead}]
      /\ call \in [Thread -> {NoCall} \cup [arena : Arena] \cup Request] /\ generator \in Nat
  BY <1>1 DEF TypeOK, Types
<1>3. pc[t] = "init"
  BY DEF Restart, Goto
<1>4. PICK a \in Arena :
        /\ a = call[t].arena
        /\ \A u \in Thread \ {t} : pc[u] # "out" => call[u].arena # a
  BY <1>1, <1>3 DEF CallsOnLive, Tearing
<1>5. /\ InitArena(t, a) /\ pc'[t] = "out"
      /\ \A u \in Thread \ {t} : pc'[u] = pc[u] /\ call'[u] = call[u] /\ mine'[u] = mine[u]
  BY <1>2, <1>4 DEF Restart, Goto
<1>6. /\ \A c \in Arena \ {a} : lifecycleId'[c] = lifecycleId[c]
      /\ lifecycleId'[a] = generator
  BY <1>2, <1>5 DEF InitArena, NextId
<1>7. ~InUse(a) /\ InUse(a)'
  <2>1. generator # Dead
    BY <1>2 DEF Dead
  <2> QED BY <1>3, <1>4, <1>5, <1>6, <2>1 DEF InUse, Live, Users
<1>8. \A c \in Arena \ {a} : InUse(c)' <=> InUse(c)
  BY <1>3, <1>4, <1>5, <1>6 DEF InUse, Live, Users
<1> QED BY <1>3, <1>5, <1>7, <1>8

LEMMA ChainsOfRestart ==
  ASSUME IInv, Chains, NEW t \in Thread, Restart(t)
  PROVE  Chains'
  BY RestartKeeps, ChainsOfInit

-----------------------------------------------------------------------------
LEMMA InitChains == Init => Chains
<1> SUFFICES ASSUME Init PROVE Chains
  OBVIOUS
<1>1. \A a \in Arena : ~InUse(a)
  BY DEF Init, InUse, Live
<1>2. \A b \in Address : owner[b] = NoThread
  BY DEF Init
<1> QED BY <1>1, <1>2 DEF Chains, AllHeld

LEMMA NextChains == IInv /\ Chains /\ [Next]_vars => Chains'
<1> SUFFICES ASSUME IInv, Chains, [Next]_vars PROVE Chains'
  OBVIOUS
<1>1. ASSUME NEW t \in Thread, Begin(t) PROVE Chains'
  BY <1>1, ChainsOfQuiet, ChainsOfConstruct DEF Begin
<1>2. ASSUME NEW t \in Thread, Step(t) PROVE Chains'
  BY <1>2, ChainsOfQuiet, ChainsOfNewThreadInfo, ChainsOfPush, ChainsOfGetBlockSlow,
     ChainsOfFree, ChainsOfRestart DEF Step
<1>3. CASE UNCHANGED vars
  <2>1. UNCHANGED <<lifecycleId, threads, owner, head, pc, call, mine>>
    BY <1>3 DEF vars, arenas, blocks, infos, locals
  <2>2. \A c \in Arena : InUse(c)' <=> InUse(c)
    BY <2>1 DEF InUse, Live, Users
  <2>3. \A c \in Arena : InfosIn(c)' = InfosIn(c)
    BY <2>1, InfosSame
  <2> QED BY <2>1, <2>2, <2>3, ChainsSame
<1> QED BY <1>1, <1>2, <1>3 DEF Next

(* A block is reached from one ThreadInfo of one arena: chains share none. *)
LEMMA ChainsApart ==
  ASSUME IInv, Chains,
         NEW a \in Arena, NEW c \in Arena, InUse(a), InUse(c),
         NEW i \in InfosIn(a), NEW j \in InfosIn(c), NEW x,
         x \in ToSet(head[i]), x \in ToSet(head[j])
  PROVE  a = c /\ i = j
<1>1. i = j
  <2>1. threadInfo[x] = i
    BY InfoFacts
  <2>2. threadInfo[x] = j
    BY InfoFacts
  <2> QED BY <2>1, <2>2
<1>2. CASE i \in ToSet(threads[a]) /\ j \in ToSet(threads[c])
  BY <1>1, <1>2 DEF IInv, Memory, InfosApart
<1>3. ASSUME NEW u \in Thread, Unpushed(i, u), call[u].arena = a PROVE a = c
  <2>1. CASE j \in ToSet(threads[c])
    BY <1>1, <1>3, <2>1 DEF Unpushed
  <2>2. ASSUME NEW v \in Thread, Unpushed(j, v), call[v].arena = c PROVE a = c
    BY <1>1, <1>3, <2>2 DEF Unpushed
  <2> QED BY <2>1, <2>2, InfoKind
<1>4. ASSUME NEW v \in Thread, Unpushed(j, v), i \in ToSet(threads[a]) PROVE a = c
  BY <1>1, <1>4 DEF Unpushed
<1> QED BY <1>1, <1>2, <1>3, <1>4, InfoKind

(* The compare-and-swap loop loses no ThreadInfo, a thread never makes a   *)
(* second one in an arena, and every block that is owned hangs from        *)
(* exactly one chain of one arena in use: FreeBlocks will free it, once.   *)
THEOREM NoneIsLost == Spec => []NoBlockLost
<1>1. IInv /\ Chains => NoBlockLost
  <2> SUFFICES ASSUME IInv, Chains PROVE NoBlockLost
    OBVIOUS
  <2>1. \A a \in Arena : InUse(a) =>
          /\ IsInjective(threads[a])
          /\ \A i, j \in InfosIn(a) : owner[i] = owner[j] => i = j
          /\ \A i \in InfosIn(a) : IsInjective(head[i])
    BY DEF Chains, Chain
  <2>2. \A a, c \in Arena : InUse(a) /\ InUse(c) =>
          \A i \in InfosIn(a), j \in InfosIn(c) :
            ToSet(head[i]) \cap ToSet(head[j]) # {} => a = c /\ i = j
    BY ChainsApart
  <2>3. \A b \in Address : owner[b] # NoThread =>
          \E a \in Arena : InUse(a) /\ b \in BlocksIn(a)
    BY DEF Chains, AllHeld
  <2> QED BY <2>1, <2>2, <2>3 DEF NoBlockLost
<1> QED BY Invariance, InitChains, NextChains, <1>1, PTL DEF Spec

-----------------------------------------------------------------------------
(* Sums.  A sum over a finite set is the number of its units: pairs of an  *)
(* element and one of the numbers up to the element's own.                 *)
Units(g, S) == {u \in S \X (Nat \ {0}) : u[2] <= g[u[1]]}
Total(g, S) == Cardinality(Units(g, S))

LEMMA UnitsOfOne ==
  ASSUME NEW g, NEW x, g[x] \in Nat
  PROVE  IsFiniteSet(Units(g, {x})) /\ Total(g, {x}) = g[x]
<1> DEFINE n == g[x]
           f == [k \in 1 .. n |-> <<x, k>>]
<1>1. IsFiniteSet(1 .. n) /\ Cardinality(1 .. n) = n
  <2>1. n \in Int /\ 1 \in Int /\ (IF 1 > n THEN 0 ELSE n - 1 + 1) = n
    OBVIOUS
  <2> HIDE DEF n
  <2> QED BY <2>1, FS_Interval
<1>2. f \in Bijection(1 .. n, Units(g, {x}))
  <2>1. f \in [1 .. n -> Units(g, {x})]
    BY DEF Units
  <2>2. \A k, l \in 1 .. n : f[k] = f[l] => k = l
    OBVIOUS
  <2>3. ASSUME NEW u \in Units(g, {x}) PROVE \E k \in 1 .. n : f[k] = u
    <3>1. u \in {x} \X (Nat \ {0}) /\ u[2] <= g[u[1]]
      BY DEF Units
    <3>2. u = <<x, u[2]>> /\ u[2] \in 1 .. n
      BY <3>1
    <3> QED BY <3>2
  <2> HIDE DEF f
  <2> QED BY <2>1, <2>2, <2>3 DEF Bijection, Injection, Surjection, IsInjective
<1>3. ExistsBijection(1 .. n, Units(g, {x}))
  BY <1>2 DEF ExistsBijection
<1> HIDE DEF n
<1>4. IsFiniteSet(Units(g, {x})) /\ Cardinality(Units(g, {x})) = n
  BY <1>1, <1>3, FS_Bijection
<1> QED BY <1>4 DEF Total, n

LEMMA UnitsFinite ==
  ASSUME NEW g, NEW S, IsFiniteSet(S), \A x \in S : g[x] \in Nat
  PROVE  IsFiniteSet(Units(g, S)) /\ Total(g, S) \in Nat
<1> DEFINE T == {Units(g, {x}) : x \in S}
           f == [x \in S |-> Units(g, {x})]
<1>1. f \in Surjection(S, T)
  BY DEF Surjection
<1>2. IsFiniteSet(T)
  <2> HIDE DEF T, f
  <2> QED BY <1>1, FS_Surjection
<1>3. \A s \in T : IsFiniteSet(s)
  BY UnitsOfOne
<1>4. Units(g, S) = UNION T
  BY DEF Units
<1>5. IsFiniteSet(UNION T)
  <2> HIDE DEF T
  <2> QED BY <1>2, <1>3, FS_UNION
<1> QED BY <1>4, <1>5, FS_CardinalityType DEF Total

LEMMA TotalOfNone == \A g : Total(g, {}) = 0
<1>1. \A g : Units(g, {}) = {}
  BY DEF Units
<1> QED BY <1>1, FS_EmptySet DEF Total

LEMMA TotalOfApart ==
  ASSUME NEW g, NEW S, NEW T, IsFiniteSet(S), IsFiniteSet(T), S \cap T = {},
         \A x \in S \cup T : g[x] \in Nat
  PROVE  Total(g, S \cup T) = Total(g, S) + Total(g, T)
<1>1. /\ IsFiniteSet(Units(g, S)) /\ Cardinality(Units(g, S)) \in Nat
      /\ IsFiniteSet(Units(g, T)) /\ Cardinality(Units(g, T)) \in Nat
  BY UnitsFinite DEF Total
<1>2. /\ Units(g, S \cup T) = Units(g, S) \cup Units(g, T)
      /\ Units(g, S) \cap Units(g, T) = {}
  BY DEF Units
<1>3. Cardinality(Units(g, S) \cap Units(g, T)) = 0
  BY <1>2, FS_EmptySet
<1>4. Cardinality(Units(g, S) \cup Units(g, T)) =
        Cardinality(Units(g, S)) + Cardinality(Units(g, T)) - Cardinality(Units(g, S) \cap Units(g, T))
  BY <1>1, FS_Union
<1>5. PICK k \in Nat, l \in Nat : k = Cardinality(Units(g, S)) /\ l = Cardinality(Units(g, T))
  BY <1>1
<1>6. Cardinality(Units(g, S) \cup Units(g, T)) = k + l
  BY <1>3, <1>4, <1>5
<1> QED BY <1>2, <1>5, <1>6 DEF Total

LEMMA TotalSame ==
  ASSUME NEW S, NEW g, NEW d, \A x \in S : g[x] = d[x]
  PROVE  Total(g, S) = Total(d, S)
<1>1. Units(g, S) = Units(d, S)
  BY DEF Units
<1> QED BY <1>1 DEF Total

LEMMA TotalOfZeros ==
  ASSUME NEW g, NEW S, \A x \in S : g[x] = 0
  PROVE  Total(g, S) = 0
<1>1. Units(g, S) = {}
  BY DEF Units
<1> QED BY <1>1, FS_EmptySet DEF Total

LEMMA TotalWithOne ==
  ASSUME NEW g, NEW S, NEW x \in S, IsFiniteSet(S), \A y \in S : g[y] \in Nat
  PROVE  /\ IsFiniteSet(S \ {x}) /\ Total(g, S \ {x}) \in Nat
         /\ Total(g, S) = Total(g, S \ {x}) + g[x]
<1>1. IsFiniteSet(S \ {x}) /\ IsFiniteSet({x})
  BY FS_RemoveElement, FS_Singleton
<1>2. S = (S \ {x}) \cup {x} /\ (S \ {x}) \cap {x} = {}
  OBVIOUS
<1>3. Total(g, {x}) = g[x] /\ Total(g, S \ {x}) \in Nat
  BY <1>1, UnitsOfOne, UnitsFinite
<1>4. Total(g, (S \ {x}) \cup {x}) = Total(g, S \ {x}) + Total(g, {x})
  BY <1>1, <1>2, TotalOfApart
<1> QED BY <1>1, <1>2, <1>3, <1>4

LEMMA TotalGrows ==
  ASSUME NEW g, NEW d, NEW S, NEW x \in S, IsFiniteSet(S), NEW n \in Nat,
         \A y \in S : g[y] \in Nat,
         d[x] = g[x] + n, \A y \in S : y # x => d[y] = g[y]
  PROVE  Total(d, S) = Total(g, S) + n
<1>1. \A y \in S : d[y] \in Nat
  OBVIOUS
<1>2. Total(g, S) = Total(g, S \ {x}) + g[x] /\ Total(g, S \ {x}) \in Nat
  BY TotalWithOne
<1>3. Total(d, S) = Total(d, S \ {x}) + d[x]
  BY <1>1, TotalWithOne
<1>4. Total(d, S \ {x}) = Total(g, S \ {x})
  <2>1. \A y \in S \ {x} : d[y] = g[y]
    OBVIOUS
  <2> QED BY <2>1, TotalSame
<1> QED BY <1>2, <1>3, <1>4

-----------------------------------------------------------------------------
(* The folds of the library, which take the elements one by one.           *)
LEMMA LeastNat ==
  ASSUME NEW S \in SUBSET Nat, S # {}
  PROVE  \E m \in S : \A x \in S : m <= x
<1> DEFINE R == OpToRel(<, Nat)
<1>1. PICK m \in S : \A x \in S : ~ (<<x, m>> \in R)
  BY NatLessThanWellFounded, WFMin
<1>2. ASSUME NEW x \in S PROVE m <= x
  <2>1. R = {ss \in Nat \X Nat : ss[1] < ss[2]}
    BY Zenon DEF OpToRel
  <2> HIDE DEF R
  <2>2. <<x, m>> \in Nat \X Nat /\ <<x, m>>[1] = x /\ <<x, m>>[2] = m
    OBVIOUS
  <2>3. ~ (x < m)
    BY <1>1, <2>1, <2>2
  <2> QED BY <2>3
<1> QED BY <1>2

Taken(s) == CHOOSE x \in s : TRUE

\* Two functions that grow alike by what is taken are the same.
LEMMA FoldsAlike ==
  ASSUME NEW S, IsFiniteSet(S), NEW f, NEW h, f[{}] = h[{}],
         \A s \in SUBSET S : s # {} /\ f[s \ {Taken(s)}] = h[s \ {Taken(s)}] => f[s] = h[s]
  PROVE  f[S] = h[S]
<1> DEFINE Bad == {s \in SUBSET S : f[s] # h[s]}
           Sizes == {Cardinality(s) : s \in Bad}
<1> SUFFICES ASSUME Bad # {} PROVE FALSE
  OBVIOUS
<1>1. \A s \in SUBSET S : IsFiniteSet(s) /\ Cardinality(s) \in Nat
  BY FS_Subset, FS_CardinalityType
<1>2. Sizes \in SUBSET Nat /\ Sizes # {}
  BY <1>1
<1>3. PICK s \in Bad : \A r \in Bad : Cardinality(s) <= Cardinality(r)
  <2> HIDE DEF Bad
  <2>1. PICK m \in Sizes : \A x \in Sizes : m <= x
    <3> HIDE DEF Sizes
    <3> QED BY <1>2, LeastNat
  <2> QED BY <2>1
<1>4. s # {}
  OBVIOUS
<1> DEFINE x == Taken(s)
<1>5. x \in s
  BY <1>4 DEF Taken
<1>6. s \ {x} \in SUBSET S /\ Cardinality(s \ {x}) = Cardinality(s) - 1
  BY <1>1, <1>5, FS_RemoveElement
<1>7. s \ {x} \notin Bad
  BY <1>1, <1>3, <1>6
<1> QED BY <1>4, <1>6, <1>7

LEMMA SumIsTotal ==
  ASSUME NEW g, NEW S, IsFiniteSet(S), \A x \in S : g[x] \in Nat
  PROVE  SumFunctionOnSet(g, S) = Total(g, S)
<1> DEFINE F(f) == f = [s \in SUBSET S |-> IF s = {} THEN 0
                                           ELSE g[Taken(s)] + f[s \ {Taken(s)}]]
           c == CHOOSE f : F(f)
           h == [s \in SUBSET S |-> Total(g, s)]
<1>1. h[{}] = 0
  BY TotalOfNone
<1>2. ASSUME NEW s \in SUBSET S, s # {}
      PROVE  h[s] = g[Taken(s)] + h[s \ {Taken(s)}] /\ h[s \ {Taken(s)}] \in Nat /\ g[Taken(s)] \in Nat
  <2>1. Taken(s) \in s
    BY <1>2 DEF Taken
  <2>2. IsFiniteSet(s)
    BY FS_Subset
  <2>3. Total(g, s \ {Taken(s)}) \in Nat /\ Total(g, s) = Total(g, s \ {Taken(s)}) + g[Taken(s)]
    BY <2>1, <2>2, TotalWithOne
  <2> QED BY <2>1, <2>3
<1>3. F(h)
  <2>1. h = [s \in SUBSET S |-> h[s]]
    OBVIOUS
  <2> HIDE DEF h
  <2> QED BY <1>1, <1>2, <2>1
<1>4. F(c)
  <2> HIDE DEF F, h
  <2> QED BY <1>3
<1>5. SumFunctionOnSet(g, S) = c[S]
  BY DEF SumFunctionOnSet, FoldFunctionOnSet, MapThenFoldSet, Taken
<1>6. /\ c[{}] = 0
      /\ \A s \in SUBSET S : s # {} => c[s] = g[Taken(s)] + c[s \ {Taken(s)}]
  <2> HIDE DEF c
  <2>1. c = [s \in SUBSET S |-> IF s = {} THEN 0 ELSE g[Taken(s)] + c[s \ {Taken(s)}]]
    BY <1>4
  <2>2. \A s \in SUBSET S : c[s] = IF s = {} THEN 0 ELSE g[Taken(s)] + c[s \ {Taken(s)}]
    BY <2>1
  <2> QED BY <2>2
<1>7. c[S] = h[S]
  <2> HIDE DEF c, h, F
  <2>1. c[{}] = h[{}]
    BY <1>1, <1>6
  <2>2. \A s \in SUBSET S : s # {} /\ c[s \ {Taken(s)}] = h[s \ {Taken(s)}] => c[s] = h[s]
    BY <1>2, <1>6
  <2> QED BY <2>1, <2>2, FoldsAlike
<1> QED BY <1>5, <1>7

-----------------------------------------------------------------------------
(* What spaceAllocated and SpaceUsed count.                                *)

\* What the callers and the chunks were given of each block.
Given == [b \in Address |-> pos[b] - HeaderSize - (IF threadInfo[b] = b THEN InfoSize ELSE 0)]

\* The blocks B have sizes that add up to all and contents that add up to used.
Adds(B, all, used, sizes, contents) ==
  /\ IsFiniteSet(B)
  /\ \A b \in B : sizes[b] \in Nat /\ contents[b] \in Nat
  /\ all = Total(sizes, B) /\ used = Total(contents, B)

SpaceOf(a) == Adds(BlocksIn(a), spaceAllocated[a], asked[a], size, Given)

Spaces ==
  /\ asked \in [Arena -> Nat]
  /\ \A t \in Thread : pc[t] \in {"load", "push"} => pos[mine[t]] = HeaderSize + InfoSize
  /\ \A a \in Arena : (InUse(a) => SpaceOf(a)) /\ (~InUse(a) => asked[a] = 0)

LEMMA AddsSame ==
  ASSUME NEW B, NEW all, NEW used, NEW s, NEW g, Adds(B, all, used, s, g),
         NEW z, NEW d, \A b \in B : z[b] = s[b] /\ d[b] = g[b]
  PROVE  Adds(B, all, used, z, d)
<1>1. Total(z, B) = Total(s, B) /\ Total(d, B) = Total(g, B)
  BY TotalSame
<1> QED BY <1>1 DEF Adds

LEMMA AddsNone == \A s, g : Adds({}, 0, 0, s, g)
  BY TotalOfNone, FS_EmptySet DEF Adds

LEMMA AddsOne ==
  ASSUME NEW s, NEW g, NEW b, s[b] \in Nat, g[b] = 0
  PROVE  Adds({b}, s[b], 0, s, g)
<1>1. Total(s, {b}) = s[b] /\ Total(g, {b}) = 0
  BY UnitsOfOne
<1> QED BY <1>1, FS_Singleton DEF Adds

LEMMA AddsBlock ==
  ASSUME NEW B, NEW all, NEW used, NEW s, NEW g, Adds(B, all, used, s, g),
         NEW z, NEW d, \A x \in B : z[x] = s[x] /\ d[x] = g[x],
         NEW b, b \notin B, NEW n \in Nat, z[b] = n, d[b] = 0
  PROVE  Adds(B \cup {b}, all + n, used, z, d)
<1>1. Adds(B, all, used, z, d)
  BY AddsSame
<1>2. IsFiniteSet(B) /\ IsFiniteSet({b}) /\ IsFiniteSet(B \cup {b}) /\ B \cap {b} = {}
  BY <1>1, FS_AddElement, FS_Singleton DEF Adds
<1>3. \A x \in B \cup {b} : z[x] \in Nat /\ d[x] \in Nat
  BY <1>1 DEF Adds
<1>4. Total(z, {b}) = n /\ Total(d, {b}) = 0
  BY UnitsOfOne
<1>5. Total(d, B) \in Nat
  BY <1>2, <1>3, UnitsFinite
<1>6. Total(z, B \cup {b}) = Total(z, B) + n
  BY <1>2, <1>3, <1>4, TotalOfApart
<1>7. Total(d, B \cup {b}) = Total(d, B)
  <2>1. Total(d, B \cup {b}) = Total(d, B) + Total(d, {b})
    BY <1>2, <1>3, TotalOfApart
  <2> QED BY <1>4, <1>5, <2>1
<1> QED BY <1>1, <1>2, <1>3, <1>6, <1>7 DEF Adds

LEMMA AddsUnits ==
  ASSUME NEW B, NEW all, NEW used, NEW s, NEW g, Adds(B, all, used, s, g),
         NEW b \in B, NEW n \in Nat, NEW d, d[b] = g[b] + n,
         \A x \in B : x # b => d[x] = g[x]
  PROVE  Adds(B, all, used + n, s, d)
<1>1. Total(d, B) = Total(g, B) + n
  BY TotalGrows DEF Adds
<1>2. \A x \in B : d[x] \in Nat
  BY DEF Adds
<1> QED BY <1>1, <1>2 DEF Adds

-----------------------------------------------------------------------------
(* The steps.                                                              *)
LEMMA BlockFacts ==
  ASSUME IInv, NEW a \in Arena, InUse(a), NEW b \in BlocksIn(a)
  PROVE  /\ b \in Address /\ owner[b] \in Thread /\ threadInfo[b] \in InfosIn(a)
         /\ b \in ToSet(head[threadInfo[b]])
<1>1. PICK i \in InfosIn(a) : b \in ToSet(head[i])
  BY DEF BlocksIn
<1> QED BY <1>1, InfoFacts

LEMMA BlocksApart ==
  ASSUME IInv, Chains, NEW a \in Arena, NEW c \in Arena, InUse(a), InUse(c), a # c,
         NEW b \in BlocksIn(a)
  PROVE  b \notin BlocksIn(c)
<1>1. PICK i \in InfosIn(a) : b \in ToSet(head[i])
  BY DEF BlocksIn
<1> QED BY <1>1, ChainsApart DEF BlocksIn

LEMMA BlocksSame ==
  ASSUME NEW c \in Arena, InfosIn(c)' = InfosIn(c), \A i \in InfosIn(c) : head'[i] = head[i]
  PROVE  BlocksIn(c)' = BlocksIn(c)
  BY DEF BlocksIn

LEMMA GivenIs ==
  \A b \in Address :
    Given[b] = pos[b] - HeaderSize - (IF threadInfo[b] = b THEN InfoSize ELSE 0)
  BY DEF Given

LEMMA GivenNext ==
  \A b \in Address :
    Given'[b] = pos'[b] - HeaderSize - (IF threadInfo'[b] = b THEN InfoSize ELSE 0)
  BY DEF Given

\* An arena whose blocks and counters a step leaves alone.
LEMMA SpaceKept ==
  ASSUME IInv, NEW c \in Arena, InUse(c), SpaceOf(c), BlocksIn(c)' = BlocksIn(c),
         spaceAllocated'[c] = spaceAllocated[c], asked'[c] = asked[c],
         \A b \in BlocksIn(c) : /\ size'[b] = size[b] /\ pos'[b] = pos[b]
                                /\ threadInfo'[b] = threadInfo[b]
  PROVE  SpaceOf(c)'
<1> DEFINE B == BlocksIn(c)
<1>1. \A b \in B : size'[b] = size[b] /\ Given'[b] = Given[b]
  BY BlockFacts, GivenIs, GivenNext
<1>2. Adds(B, spaceAllocated[c], asked[c], size, Given)
  BY DEF SpaceOf
<1>3. Adds(B, spaceAllocated[c], asked[c], size', Given')
  <2> HIDE DEF B
  <2> QED BY <1>1, <1>2, AddsSame
<1> QED BY <1>3 DEF SpaceOf

LEMMA SpacesSame ==
  ASSUME IInv, Spaces,
         UNCHANGED <<pos, size, threadInfo, head, spaceAllocated, asked>>,
         \A c \in Arena : (InUse(c)' <=> InUse(c)) /\ InfosIn(c)' = InfosIn(c),
         \A u \in Thread : pc'[u] \in {"load", "push"} =>
                             pc[u] \in {"load", "push"} /\ mine'[u] = mine[u]
  PROVE  Spaces'
<1>1. asked' \in [Arena -> Nat]
  BY DEF Spaces
<1>2. \A u \in Thread : pc'[u] \in {"load", "push"} => pos'[mine'[u]] = HeaderSize + InfoSize
  BY DEF Spaces
<1>3. ASSUME NEW c \in Arena PROVE (InUse(c)' => SpaceOf(c)') /\ (~InUse(c)' => asked'[c] = 0)
  <2>1. BlocksIn(c)' = BlocksIn(c)
    BY BlocksSame
  <2> QED BY <2>1, SpaceKept DEF Spaces
<1> QED BY <1>1, <1>2, <1>3 DEF Spaces

LEMMA SpacesOfQuiet ==
  ASSUME IInv, Spaces, NEW t \in Thread,
         \/ NewThread(t)
         \/ \E a \in Arena : TearDown(t, a)
                             \/ \E n \in Bytes, c \in BOOLEAN : Allocate(t, a, n, c)
         \/ CheckCache(t) \/ CheckHint(t) \/ FindThreadInfo(t) \/ LoadThreads(t)
  PROVE  Spaces'
<1>1. pc \in [Thread -> Location]
  BY DEF IInv, TypeOK
<1>2. UNCHANGED <<pos, size, threadInfo, head, spaceAllocated, asked>>
  <2>1. CASE NewThread(t)
    BY <2>1 DEF NewThread, arenas, blocks, infos, history
  <2>2. ASSUME NEW a \in Arena, TearDown(t, a) \/ \E n \in Bytes, c \in BOOLEAN : Allocate(t, a, n, c)
        PROVE  UNCHANGED <<pos, size, threadInfo, head, spaceAllocated, asked>>
    BY <2>2 DEF TearDown, Allocate, arenas, blocks, infos, history
  <2>3. CASE CheckCache(t) \/ CheckHint(t) \/ FindThreadInfo(t) \/ LoadThreads(t)
    BY <2>3 DEF CheckCache, CheckHint, FindThreadInfo, LoadThreads, arenas, blocks, infos, history
  <2> QED BY <2>1, <2>2, <2>3
<1>3. \A u \in Thread : pc'[u] \in {"load", "push"} =>
                          pc[u] \in {"load", "push"} /\ mine'[u] = mine[u]
  <2>1. CASE NewThread(t)
    BY <2>1 DEF NewThread
  <2>2. ASSUME NEW a \in Arena, TearDown(t, a)
        PROVE  pc' = [pc EXCEPT ![t] = "free"] /\ mine' = mine
    BY <2>2 DEF TearDown, Goto
  <2>3. ASSUME NEW a \in Arena, \E n \in Bytes, c \in BOOLEAN : Allocate(t, a, n, c)
        PROVE  pc' = [pc EXCEPT ![t] = "cache"] /\ mine' = mine
    BY <2>3 DEF Allocate, Goto
  <2>4. CASE CheckCache(t) \/ CheckHint(t)
    <3>1. /\ \E w \in Location \ {"load", "push"} : pc' = [pc EXCEPT ![t] = w]
          /\ \E m : mine' = [mine EXCEPT ![t] = m]
      BY <2>4 DEF CheckCache, CheckHint, Goto, Location
    <3> QED BY <1>1, <3>1
  <2>5. CASE FindThreadInfo(t)
    <3>1. pc' = [pc EXCEPT ![t] = "head"] /\ \E m : mine' = [mine EXCEPT ![t] = m]
      BY <2>5 DEF FindThreadInfo, Goto
    <3> QED BY <1>1, <3>1
  <2>6. CASE LoadThreads(t)
    BY <1>1, <2>6 DEF LoadThreads, Goto
  <2> QED BY <1>1, <2>1, <2>2, <2>3, <2>4, <2>5, <2>6
<1>4. \A c \in Arena : (InUse(c)' <=> InUse(c)) /\ InfosIn(c)' = InfosIn(c)
  BY QuietKeeps
<1> QED BY <1>2, <1>3, <1>4, SpacesSame

LEMMA SpacesOfPush ==
  ASSUME IInv, Spaces, NEW t \in Thread, PushThreadInfo(t)
  PROVE  Spaces'
<1>1. pc \in [Thread -> Location]
  BY DEF IInv, TypeOK
<1>2. UNCHANGED <<pos, size, threadInfo, head, spaceAllocated, asked, mine>>
  BY DEF PushThreadInfo, blocks, infos, history
<1>3. pc[t] = "push" /\ \A u \in Thread \ {t} : pc'[u] = pc[u]
  BY <1>1 DEF PushThreadInfo, Goto
<1>4. \A c \in Arena : (InUse(c)' <=> InUse(c)) /\ InfosIn(c)' = InfosIn(c)
  BY PushKeeps
<1> QED BY <1>2, <1>3, <1>4, SpacesSame

\* Memory given out of the block in hand.
LEMMA SpacesOfAlloc ==
  ASSUME IInv, Chains, Spaces, NEW t \in Thread, NEW n \in Nat, pc[t] = "have",
         AllocFromBlock(t, n), UNCHANGED <<size, threadInfo, head, spaceAllocated>>,
         \A c \in Arena : (InUse(c)' <=> InUse(c)) /\ InfosIn(c)' = InfosIn(c),
         pc'[t] \notin {"load", "push"},
         \A u \in Thread \ {t} : pc'[u] = pc[u] /\ mine'[u] = mine[u]
  PROVE  Spaces'
<1>1. /\ pos \in [Address -> Nat] /\ CallsOnLive /\ InHand(t)
      /\ asked \in [Arena -> Nat]
  BY DEF IInv, TypeOK, Spaces
<1>2. PICK a \in Arena : a = call[t].arena /\ InUse(a)
  BY <1>1, UserInUse DEF Working
<1>3. PICK i \in ToSet(threads[a]) : mine[t] \in ToSet(head[i])
  BY <1>1, <1>2 DEF InHand, Held
<1>4. i \in InfosIn(a)
  BY <1>3, InfoIn
<1>5. PICK b \in BlocksIn(a) : b = mine[t] /\ owner[b] = t
  BY <1>1, <1>3, <1>4 DEF InHand, BlocksIn
<1>6. b \in Address
  BY <1>2, BlockFacts
<1>7. /\ pos' = [pos EXCEPT ![b] = @ + n] /\ asked' = [asked EXCEPT ![a] = @ + n]
  BY <1>2, <1>5 DEF AllocFromBlock
<1>8. /\ pos'[b] = pos[b] + n /\ \A x \in Address : x # b => pos'[x] = pos[x]
      /\ asked'[a] = asked[a] + n /\ \A c \in Arena : c # a => asked'[c] = asked[c]
      /\ asked' \in [Arena -> Nat]
  BY <1>1, <1>6, <1>7
<1>9. ASSUME NEW u \in Thread, pc'[u] \in {"load", "push"}
      PROVE  pos'[mine'[u]] = HeaderSize + InfoSize
  <2>1. u # t /\ pc[u] \in {"load", "push"} /\ mine'[u] = mine[u]
    BY <1>9
  <2>2. InHand(u)
    BY DEF IInv
  <2>3. mine[u] \in Address /\ owner[mine[u]] = u
    BY <2>1, <2>2 DEF InHand, Address
  <2> QED BY <1>5, <1>8, <2>1, <2>3 DEF Spaces
<1>10. \A c \in Arena : BlocksIn(c)' = BlocksIn(c)
  BY BlocksSame
<1>11. SpaceOf(a)'
  <2> DEFINE B == BlocksIn(a)
  <2>1. Adds(B, spaceAllocated[a], asked[a], size, Given)
    BY <1>2 DEF Spaces, SpaceOf
  <2>2. \A x \in B : x # b => Given'[x] = Given[x]
    BY <1>2, <1>8, BlockFacts, GivenIs, GivenNext
  <2>3. Given'[b] = Given[b] + n
    <3>1. PICK k \in Nat : k = pos[b]
      BY <1>1, <1>6
    <3>2. PICK l \in Nat : l = k + n /\ pos'[b] = l
      BY <1>8, <3>1
    <3>3. threadInfo'[b] = threadInfo[b]
      OBVIOUS
    <3>4. HeaderSize \in Nat /\ InfoSize \in Nat
      BY SizeAssumption
    <3>5. CASE threadInfo[b] = b
      <4>1. Given[b] = k - HeaderSize - InfoSize
        BY <1>6, <3>1, <3>5, GivenIs
      <4>2. Given'[b] = l - HeaderSize - InfoSize
        BY <1>6, <3>2, <3>3, <3>5, GivenNext
      <4> QED BY <3>2, <3>4, <4>1, <4>2
    <3>6. CASE threadInfo[b] # b
      <4>1. Given[b] = k - HeaderSize - 0
        BY <1>6, <3>1, <3>6, GivenIs
      <4>2. Given'[b] = l - HeaderSize - 0
        BY <1>6, <3>2, <3>3, <3>6, GivenNext
      <4> QED BY <3>2, <3>4, <4>1, <4>2
    <3> QED BY <3>5, <3>6
  <2>4. Adds(B, spaceAllocated[a], asked[a] + n, size, Given')
    <3> HIDE DEF B
    <3>1. b \in B
      BY DEF B
    <3> QED BY <2>1, <2>2, <2>3, <3>1, AddsUnits
  <2> QED BY <1>8, <1>10, <2>4 DEF SpaceOf
<1>12. ASSUME NEW c \in Arena PROVE (InUse(c)' => SpaceOf(c)') /\ (~InUse(c)' => asked'[c] = 0)
  <2>1. CASE c = a
    BY <1>2, <1>11, <2>1
  <2>2. CASE c # a /\ InUse(c)
    <3>1. \A x \in BlocksIn(c) : x # b /\ x \in Address
      BY <1>2, <2>2, BlocksApart, BlockFacts
    <3>2. SpaceOf(c)
      BY <2>2 DEF Spaces
    <3>3. \A x \in BlocksIn(c) : pos'[x] = pos[x]
      BY <1>8, <3>1
    <3>4. BlocksIn(c)' = BlocksIn(c) /\ asked'[c] = asked[c] /\ spaceAllocated'[c] = spaceAllocated[c]
      BY <1>8, <1>10, <2>2
    <3> QED BY <2>2, <3>2, <3>3, <3>4, SpaceKept
  <2>3. CASE c # a /\ ~InUse(c)
    BY <1>8, <2>3 DEF Spaces
  <2> QED BY <2>1, <2>2, <2>3
<1> QED BY <1>8, <1>9, <1>12 DEF Spaces

LEMMA SpacesOfUse ==
  ASSUME IInv, Chains, Spaces, NEW t \in Thread, AllocateObject(t) \/ AllocateChunk(t)
  PROVE  Spaces'
<1>1. /\ pc \in [Thread -> Location] /\ mine \in [Thread -> Address \cup {NoBlock}]
      /\ need \in [Thread -> Nat] /\ CallsOnLive
  BY DEF IInv, TypeOK, Types
<1>2. \A c \in Arena : (InUse(c)' <=> InUse(c)) /\ InfosIn(c)' = InfosIn(c)
  BY QuietKeeps
<1>3. CASE AllocateObject(t)
  <2>1. /\ pc[t] = "have" /\ AllocFromBlock(t, call[t].bytes)
        /\ UNCHANGED <<size, threadInfo, head, spaceAllocated>>
    BY <1>3 DEF AllocateObject, arenas
  <2>2. call[t].bytes \in Nat
    BY <1>1, <2>1 DEF CallsOnLive, Working, Request
  <2>3. \E w \in {"out", "cache", "have"} : pc' = [pc EXCEPT ![t] = w]
    BY <1>3 DEF AllocateObject, Finish, Goto
  <2>4. mine' = mine \/ mine' = [mine EXCEPT ![t] = NoBlock]
    BY <1>3 DEF AllocateObject, Finish
  <2>5. /\ pc'[t] \notin {"load", "push"}
        /\ \A u \in Thread \ {t} : pc'[u] = pc[u] /\ mine'[u] = mine[u]
    BY <1>1, <2>3, <2>4
  <2> QED BY <1>2, <2>1, <2>2, <2>5, SpacesOfAlloc
<1>4. CASE AllocateChunk(t)
  <2>1. /\ pc[t] = "have" /\ AllocFromBlock(t, need[t]) /\ need[t] \in Nat
        /\ UNCHANGED <<size, threadInfo, head, spaceAllocated>>
        /\ pc' = [pc EXCEPT ![t] = "out"] /\ mine' = [mine EXCEPT ![t] = NoBlock]
    BY <1>1, <1>4 DEF AllocateChunk, Finish, Goto, arenas
  <2>2. /\ pc'[t] \notin {"load", "push"}
        /\ \A u \in Thread \ {t} : pc'[u] = pc[u] /\ mine'[u] = mine[u]
    BY <1>1, <2>1
  <2> QED BY <1>2, <2>1, <2>2, SpacesOfAlloc
<1> QED BY <1>3, <1>4

\* A block b of n units is made for the arena a and the ThreadInfo i.
MakesBlock(a, b, n, i) ==
  /\ size' = [size EXCEPT ![b] = n]
  /\ spaceAllocated' = [spaceAllocated EXCEPT ![a] = @ + n]
  /\ threadInfo' = [threadInfo EXCEPT ![b] = i]
  /\ \/ i = b /\ pos' = [pos EXCEPT ![b] = HeaderSize + InfoSize]
     \/ i # b /\ pos' = [pos EXCEPT ![b] = HeaderSize]
  /\ asked' = asked
  /\ \A c \in Arena : InUse(c)' <=> InUse(c)
  /\ BlocksIn(a)' = BlocksIn(a) \cup {b}
  /\ \A c \in Arena : InUse(c) /\ c # a => BlocksIn(c)' = BlocksIn(c)

LEMMA SpacesOfBlock ==
  ASSUME IInv, Chains, Spaces, NEW t \in Thread, NEW a \in Arena, InUse(a),
         NEW b \in Address, owner[b] = NoThread, NEW n \in Nat, NEW i,
         MakesBlock(a, b, n, i),
         \A u \in Thread \ {t} : pc'[u] = pc[u] /\ mine'[u] = mine[u],
         pc'[t] \in {"load", "push"} => mine'[t] = b /\ i = b
  PROVE  Spaces'
<1>0. /\ size' = [size EXCEPT ![b] = n]
      /\ spaceAllocated' = [spaceAllocated EXCEPT ![a] = @ + n]
      /\ threadInfo' = [threadInfo EXCEPT ![b] = i]
      /\ asked' = asked
      /\ \A c \in Arena : InUse(c)' <=> InUse(c)
      /\ BlocksIn(a)' = BlocksIn(a) \cup {b}
      /\ \A c \in Arena : InUse(c) /\ c # a => BlocksIn(c)' = BlocksIn(c)
  BY DEF MakesBlock
<1>1. /\ pos \in [Address -> Nat] /\ size \in [Address -> Nat]
      /\ threadInfo \in [Address -> Address \cup {NoBlock}]
      /\ spaceAllocated \in [Arena -> Nat] /\ asked \in [Arena -> Nat]
  BY DEF IInv, TypeOK, Spaces
<1>2. /\ size'[b] = n /\ threadInfo'[b] = i
      /\ i = b => pos'[b] = HeaderSize + InfoSize
      /\ i # b => pos'[b] = HeaderSize
      /\ \A x \in Address : x # b => /\ size'[x] = size[x] /\ threadInfo'[x] = threadInfo[x]
                                     /\ pos'[x] = pos[x]
      /\ spaceAllocated'[a] = spaceAllocated[a] + n
      /\ \A c \in Arena : c # a => spaceAllocated'[c] = spaceAllocated[c]
  BY <1>1 DEF MakesBlock
<1>3. \A c \in Arena : InUse(c) => b \notin BlocksIn(c)
  BY FreeIsApart DEF BlocksIn
<1>4. ASSUME NEW u \in Thread, pc'[u] \in {"load", "push"}
      PROVE  pos'[mine'[u]] = HeaderSize + InfoSize
  <2>1. CASE u = t
    BY <1>2, <1>4, <2>1
  <2>2. CASE u # t
    <3>1. pc[u] \in {"load", "push"} /\ mine'[u] = mine[u] /\ InHand(u)
      BY <1>4, <2>2 DEF IInv
    <3>2. mine[u] \in Address /\ mine[u] # b
      BY <3>1, ThreadAssumption DEF InHand, Address
    <3> QED BY <1>2, <3>1, <3>2 DEF Spaces
  <2> QED BY <2>1, <2>2
<1>5. SpaceOf(a)'
  <2> DEFINE B == BlocksIn(a)
  <2>1. Adds(B, spaceAllocated[a], asked[a], size, Given)
    BY DEF Spaces, SpaceOf
  <2>2. \A x \in B : size'[x] = size[x] /\ Given'[x] = Given[x]
    BY <1>2, <1>3, BlockFacts, GivenIs, GivenNext
  <2>3. Given'[b] = 0
    BY <1>2, GivenNext, SizeAssumption
  <2>4. b \notin B
    BY <1>3
  <2>5. Adds(B \cup {b}, spaceAllocated[a] + n, asked[a], size', Given')
    <3> HIDE DEF B
    <3>1. PICK z, d : z = size' /\ d = Given'
      OBVIOUS
    <3>2. /\ \A x \in B : z[x] = size[x] /\ d[x] = Given[x]
          /\ z[b] = n /\ d[b] = 0
      BY <1>2, <2>2, <2>3, <3>1
    <3>3. Adds(B \cup {b}, spaceAllocated[a] + n, asked[a], z, d)
      BY <2>1, <2>4, <3>2, AddsBlock
    <3> QED BY <3>1, <3>3
  <2> QED BY <1>0, <1>2, <2>5 DEF SpaceOf
<1>6. ASSUME NEW c \in Arena PROVE (InUse(c)' => SpaceOf(c)') /\ (~InUse(c)' => asked'[c] = 0)
  <2>1. CASE c = a
    BY <1>0, <1>5, <2>1
  <2>2. CASE c # a /\ InUse(c)
    <3>1. SpaceOf(c) /\ BlocksIn(c)' = BlocksIn(c)
      BY <1>0, <2>2 DEF Spaces
    <3>2. \A x \in BlocksIn(c) : x \in Address /\ x # b
      BY <1>3, <2>2, BlockFacts
    <3>3. \A x \in BlocksIn(c) : /\ size'[x] = size[x] /\ pos'[x] = pos[x]
                                 /\ threadInfo'[x] = threadInfo[x]
      BY <1>2, <3>2
    <3>4. spaceAllocated'[c] = spaceAllocated[c] /\ asked'[c] = asked[c]
      BY <1>0, <1>2, <2>2
    <3> QED BY <1>0, <2>2, <3>1, <3>3, <3>4, SpaceKept
  <2>3. CASE c # a /\ ~InUse(c)
    BY <1>0, <2>3 DEF Spaces
  <2> QED BY <2>1, <2>2, <2>3
<1> QED BY <1>0, <1>1, <1>4, <1>6 DEF Spaces

LEMMA NewThreadInfoMakes ==
  ASSUME IInv, NEW t \in Thread, NEW b \in Block, NewThreadInfo(t, b)
  PROVE  /\ owner[b] = NoThread
         /\ pc'[t] = "load" /\ mine'[t] = b
         /\ \A u \in Thread \ {t} : pc'[u] = pc[u] /\ mine'[u] = mine[u]
         /\ \E a \in Arena, n \in Nat : InUse(a) /\ MakesBlock(a, b, n, b)
<1>1. /\ pc \in [Thread -> Location] /\ mine \in [Thread -> Address \cup {NoBlock}]
      /\ head \in [Address -> Seq(Address)] /\ size \in [Address -> Nat]
      /\ need \in [Thread -> Nat] /\ b \in Address
  BY DEF IInv, TypeOK, Types, Address
<1>2. /\ pc' = [pc EXCEPT ![t] = "load"] /\ mine' = [mine EXCEPT ![t] = b]
      /\ owner[b] = NoThread /\ head' = [head EXCEPT ![b] = <<b>>]
      /\ threadInfo' = [threadInfo EXCEPT ![b] = b]
      /\ pos' = [pos EXCEPT ![b] = HeaderSize + InfoSize]
      /\ asked' = asked
  BY DEF NewThreadInfo, NewBlock, Goto, history
<1>3. PICK a \in Arena : a = call[t].arena /\ InUse(a)
  BY NewThreadInfoKeeps
<1>4. PICK n \in Nat : /\ size' = [size EXCEPT ![b] = n]
                       /\ spaceAllocated' = [spaceAllocated EXCEPT ![a] = @ + n]
  <2>1. InfoSize + need[t] \in Nat
    BY <1>1, SizeAssumption
  <2>2. SizeFor(NoBlock, InfoSize + need[t]) \in Nat
    BY <1>1, <2>1, SizeForFits
  <2> QED BY <1>3, <2>2 DEF NewThreadInfo, NewBlock
<1>5. \A c \in Arena : InUse(c)' <=> InUse(c)
  BY NewThreadInfoKeeps
<1>6. \A c \in Arena : InUse(c) => \A i \in InfosIn(c) : head'[i] = head[i]
  <2>1. \A c \in Arena : InUse(c) => \A i \in InfosIn(c) : i # b /\ i \in Address
    BY <1>2, FreeIsApart, InfoFacts
  <2> QED BY <1>1, <1>2, <2>1
<1>7. BlocksIn(a)' = BlocksIn(a) \cup {b}
  <2>1. InfosIn(a)' = InfosIn(a) \cup {b}
    BY <1>3, NewThreadInfoKeeps
  <2>2. ToSet(head'[b]) = {b}
    BY <1>1, <1>2, ToSetOfOne
  <2> QED BY <1>3, <1>6, <2>1, <2>2 DEF BlocksIn
<1>8. ASSUME NEW c \in Arena, InUse(c), c # a PROVE BlocksIn(c)' = BlocksIn(c)
  BY <1>3, <1>6, <1>8, BlocksSame, NewThreadInfoKeeps
<1>9. /\ \A u \in Thread \ {t} : pc'[u] = pc[u] /\ mine'[u] = mine[u]
      /\ pc'[t] = "load" /\ mine'[t] = b
  BY <1>1, <1>2
<1>10. MakesBlock(a, b, n, b)
  BY <1>2, <1>4, <1>5, <1>7, <1>8 DEF MakesBlock
<1> QED BY <1>2, <1>3, <1>9, <1>10

LEMMA SpacesOfNewThreadInfo ==
  ASSUME IInv, Chains, Spaces, NEW t \in Thread, NEW b \in Block, NewThreadInfo(t, b)
  PROVE  Spaces'
<1>1. /\ owner[b] = NoThread /\ mine'[t] = b
      /\ \A u \in Thread \ {t} : pc'[u] = pc[u] /\ mine'[u] = mine[u]
  BY NewThreadInfoMakes
<1>2. PICK a \in Arena, n \in Nat : InUse(a) /\ MakesBlock(a, b, n, b)
  BY NewThreadInfoMakes
<1>3. b \in Address
  BY DEF Address
<1> QED BY <1>1, <1>2, <1>3, SpacesOfBlock

LEMMA GetBlockSlowMakes ==
  ASSUME IInv, Chains, NEW t \in Thread, NEW b \in Address, GetBlockSlow(t, b)
  PROVE  /\ \A c \in Arena : (InUse(c)' <=> InUse(c)) /\ InfosIn(c)' = InfosIn(c)
         /\ pc[t] = "head" /\ pc'[t] = "have"
         /\ \A u \in Thread \ {t} : pc'[u] = pc[u] /\ mine'[u] = mine[u]
         /\ \/ UNCHANGED <<pos, size, threadInfo, head, spaceAllocated, asked>>
            \/ /\ owner[b] = NoThread
               /\ \E a \in Arena, n \in Nat, i \in Address : InUse(a) /\ MakesBlock(a, b, n, i)
<1>1. /\ pc \in [Thread -> Location] /\ mine \in [Thread -> Address \cup {NoBlock}]
      /\ head \in [Address -> Seq(Address)] /\ size \in [Address -> Nat]
      /\ need \in [Thread -> Nat] /\ CallsOnLive /\ InHand(t)
  BY DEF IInv, TypeOK, Types
<1>2. /\ pc[t] = "head" /\ pc' = [pc EXCEPT ![t] = "have"] /\ mine' = [mine EXCEPT ![t] = b]
      /\ UNCHANGED <<lifecycleId, threads, call, asked>>
  BY DEF GetBlockSlow, Goto, history
<1>3. PICK a \in Arena : a = call[t].arena /\ InUse(a)
  BY <1>1, <1>2, UserInUse DEF Working
<1>4. \A c \in Arena : InUse(c)' <=> InUse(c)
  BY <1>1, <1>2, InUseSame
<1>5. ASSUME NEW c \in Arena PROVE InfosIn(c)' = InfosIn(c)
  BY <1>1, <1>2, InfosSame
<1>6. PICK i \in InfosIn(a) : i = mine[t] /\ i \in ToSet(threads[a])
  BY <1>1, <1>2, <1>3, InfoIn DEF InHand
<1>7. i \in Address /\ head[i] \in Seq(Address) /\ head[i] # <<>>
  <2>1. i \in Address /\ head[i] \in Seq(Address) /\ i \in ToSet(head[i])
    BY <1>3, InfoFacts
  <2> QED BY <2>1, ToSetOfNone
<1>8. /\ pc'[t] = "have"
      /\ \A u \in Thread \ {t} : pc'[u] = pc[u] /\ mine'[u] = mine[u]
  BY <1>1, <1>2
<1>9. CASE UNCHANGED <<spaceAllocated, blocks, head>>
  <2>1. UNCHANGED <<pos, size, threadInfo, head, spaceAllocated, asked>>
    BY <1>2, <1>9 DEF blocks
  <2> QED BY <1>2, <1>4, <1>5, <1>8, <2>1
<1>10. CASE /\ NewBlock(t, b, Head(head[i]), need[t])
            /\ threadInfo' = [threadInfo EXCEPT ![b] = i]
            /\ pos' = [pos EXCEPT ![b] = HeaderSize]
            /\ head' = [head EXCEPT ![i] = <<b>> \o @]
  <2>1. owner[b] = NoThread
    BY <1>10 DEF NewBlock
  <2>2. PICK n \in Nat : /\ size' = [size EXCEPT ![b] = n]
                         /\ spaceAllocated' = [spaceAllocated EXCEPT ![a] = @ + n]
    <3>1. Head(head[i]) \in Address
      BY <1>7, HeadInSet
    <3>2. SizeFor(Head(head[i]), need[t]) \in Nat
      BY <1>1, <3>1, SizeForFits
    <3> QED BY <1>3, <1>10, <3>2 DEF NewBlock
  <2>3. \A c \in Arena : InUse(c) => \A j \in InfosIn(c) : j # b /\ j \in Address
    BY <2>1, FreeIsApart, InfoFacts
  <2>4. head'[i] = <<b>> \o head[i] /\ \A j \in Address : j # i => head'[j] = head[j]
    BY <1>1, <1>7, <1>10
  <2>5. ToSet(head'[i]) = {b} \cup ToSet(head[i])
    BY <1>7, <2>4, ToSetOfCons
  <2>6. BlocksIn(a)' = BlocksIn(a) \cup {b}
    <3>1. \A x : x \in BlocksIn(a)' <=> \E j \in InfosIn(a) : x \in ToSet(head'[j])
      BY <1>5 DEF BlocksIn
    <3>2. \A x : x \in BlocksIn(a) <=> \E j \in InfosIn(a) : x \in ToSet(head[j])
      BY DEF BlocksIn
    <3>3. \A j \in InfosIn(a) : j # i => head'[j] = head[j]
      BY <1>3, <2>3, <2>4
    <3>4. \A x : x \in BlocksIn(a)' <=> x \in BlocksIn(a) \/ x = b
      BY <2>5, <3>1, <3>2, <3>3
    <3> QED BY <3>4
  <2>7. ASSUME NEW c \in Arena, InUse(c), c # a PROVE BlocksIn(c)' = BlocksIn(c)
    <3>1. \A j \in InfosIn(c) : j # i
      <4> SUFFICES ASSUME i \in InfosIn(c) PROVE FALSE
        OBVIOUS
      <4>1. i \in ToSet(head[i])
        BY <1>3, InfoFacts
      <4> QED BY <1>3, <2>7, <4>1, ChainsApart
    <3>2. \A j \in InfosIn(c) : head'[j] = head[j]
      BY <2>3, <2>4, <2>7, <3>1
    <3> QED BY <1>5, <3>2, BlocksSame
  <2>8. i # b
    BY <1>3, <2>3
  <2>9. MakesBlock(a, b, n, i)
    BY <1>2, <1>4, <1>10, <2>2, <2>6, <2>7, <2>8 DEF MakesBlock
  <2> QED BY <1>2, <1>3, <1>4, <1>5, <1>7, <1>8, <2>1, <2>9
<1> QED BY <1>6, <1>9, <1>10 DEF GetBlockSlow

LEMMA SpacesOfGetBlockSlow ==
  ASSUME IInv, Chains, Spaces, NEW t \in Thread, NEW b \in Address, GetBlockSlow(t, b)
  PROVE  Spaces'
<1>1. /\ \A c \in Arena : (InUse(c)' <=> InUse(c)) /\ InfosIn(c)' = InfosIn(c)
      /\ pc'[t] = "have"
      /\ \A u \in Thread \ {t} : pc'[u] = pc[u] /\ mine'[u] = mine[u]
      /\ \/ UNCHANGED <<pos, size, threadInfo, head, spaceAllocated, asked>>
         \/ /\ owner[b] = NoThread
            /\ \E a \in Arena, n \in Nat, i \in Address : InUse(a) /\ MakesBlock(a, b, n, i)
  BY GetBlockSlowMakes
<1>2. CASE UNCHANGED <<pos, size, threadInfo, head, spaceAllocated, asked>>
  BY <1>1, <1>2, SpacesSame
<1>3. ASSUME owner[b] = NoThread, NEW a \in Arena, NEW n \in Nat, NEW i \in Address,
             InUse(a), MakesBlock(a, b, n, i)
      PROVE  Spaces'
  BY <1>1, <1>3, SpacesOfBlock
<1> QED BY <1>1, <1>2, <1>3

LEMMA InitMakes ==
  ASSUME IInv, NEW t \in Thread, NEW a \in Arena, InitArena(t, a), ~InUse(a),
         pc[t] \notin {"load", "push"}, pc'[t] = "out",
         \A u \in Thread \ {t} : /\ pc'[u] = pc[u] /\ call'[u] = call[u]
                                 /\ mine'[u] = mine[u]
  PROVE  LET b == initialBlock[a] IN
         /\ BlocksIn(a)' = IF b = NoBlock THEN {} ELSE {b}
         /\ b # NoBlock => /\ b \in Address /\ b \notin Block /\ size'[b] = InitialSize
                           /\ pos'[b] = HeaderSize + InfoSize /\ threadInfo'[b] = b
         /\ \A x \in Address : x # b => /\ size'[x] = size[x] /\ pos'[x] = pos[x]
                                        /\ threadInfo'[x] = threadInfo[x]
         /\ \A c \in Arena \ {a} : InUse(c) =>
              /\ BlocksIn(c)' = BlocksIn(c)
              /\ \A x \in BlocksIn(c) : x \in Address /\ x # b
<1> DEFINE b == initialBlock[a]
<1>1. /\ head \in [Address -> Seq(Address)] /\ pos \in [Address -> Nat]
      /\ size \in [Address -> Nat] /\ threadInfo \in [Address -> Address \cup {NoBlock}]
      /\ threads \in [Arena -> Seq(Address)] /\ CallsOnLive
  BY DEF IInv, TypeOK, Types
<1>2. threads' = [threads EXCEPT ![a] = IF b = NoBlock THEN <<>> ELSE <<b>>]
  BY DEF InitArena
<1>3. /\ b # NoBlock => b \in Address /\ b \notin Block
      /\ \A c \in Arena \ {a} : b # NoBlock => initialBlock[c] # b
      /\ NoBlock \notin Address
  BY BlockAssumption DEF Initial, Address
<1>4. b # NoBlock => /\ head'[b] = <<b>> /\ size'[b] = InitialSize
                     /\ pos'[b] = HeaderSize + InfoSize /\ threadInfo'[b] = b
  BY <1>1, <1>3 DEF InitArena
<1>5. \A x \in Address : x # b => /\ head'[x] = head[x] /\ size'[x] = size[x]
                                  /\ pos'[x] = pos[x] /\ threadInfo'[x] = threadInfo[x]
  <2>1. CASE b = NoBlock
    BY <2>1 DEF InitArena, blocks, infos
  <2>2. CASE b # NoBlock
    BY <1>1, <2>2 DEF InitArena
  <2> QED BY <2>1, <2>2
<1>6. \A u \in Thread : pc[u] \in {"load", "push"} => call[u].arena # a
  BY <1>1, UserInUse DEF Working
<1>7. \A i : i \in InfosIn(a)' <=> b # NoBlock /\ i = b
  <2>1. \A i : i \in InfosIn(a)' <=>
               \/ i \in ToSet(threads'[a])
               \/ \E u \in Thread : /\ pc'[u] \in {"load", "push"}
                                    /\ call'[u].arena = a /\ mine'[u] = i
    BY DEF InfosIn, Pending, Users
  <2>2. \A u \in Thread : ~(pc'[u] \in {"load", "push"} /\ call'[u].arena = a)
    BY <1>6
  <2>3. ToSet(threads'[a]) = IF b = NoBlock THEN {} ELSE {b}
    BY <1>1, <1>2, ToSetOfOne, ToSetOfNone
  <2> QED BY <2>1, <2>2, <2>3
<1>8. BlocksIn(a)' = IF b = NoBlock THEN {} ELSE {b}
  <2>1. CASE b = NoBlock
    BY <1>7, <2>1 DEF BlocksIn
  <2>2. CASE b # NoBlock
    <3>1. ToSet(head'[b]) = {b}
      BY <1>4, <2>2, ToSetOfOne
    <3> QED BY <1>7, <2>2, <3>1 DEF BlocksIn
  <2> QED BY <2>1, <2>2
<1>9. ASSUME NEW c \in Arena \ {a}, InUse(c)
      PROVE  /\ BlocksIn(c)' = BlocksIn(c)
             /\ \A x \in BlocksIn(c) : x \in Address /\ x # b
  <2>1. threads'[c] = threads[c]
    BY <1>1, <1>2
  <2>2. InfosIn(c)' = InfosIn(c)
    BY <2>1, InfosSame
  <2>3. \A x \in BlocksIn(c) : x \in Address /\ x # b
    <3> SUFFICES ASSUME NEW x \in BlocksIn(c) PROVE x \in Address /\ x # b
      OBVIOUS
    <3>1. PICK j \in InfosIn(c) : x \in ToSet(head[j])
      BY DEF BlocksIn
    <3>2. x \in Address /\ (x \in Block \/ x = initialBlock[c])
      BY <1>9, <3>1, InfoFacts
    <3> QED BY <1>3, <3>2
  <2>4. \A j \in InfosIn(c) : head'[j] = head[j]
    <3> SUFFICES ASSUME NEW j \in InfosIn(c) PROVE head'[j] = head[j]
      OBVIOUS
    <3>1. j \in Address /\ j \in BlocksIn(c)
      BY <1>9, InfoFacts DEF BlocksIn
    <3> QED BY <1>5, <2>3, <3>1
  <2> QED BY <2>2, <2>3, <2>4, BlocksSame
<1> QED BY <1>3, <1>4, <1>5, <1>8, <1>9

LEMMA SpacesOfInit ==
  ASSUME IInv, Chains, Spaces, NEW t \in Thread, NEW a \in Arena, InitArena(t, a),
         ~InUse(a), InUse(a)', asked' = asked,
         \A c \in Arena \ {a} : InUse(c)' <=> InUse(c),
         pc[t] \notin {"load", "push"}, pc'[t] = "out",
         \A u \in Thread \ {t} : /\ pc'[u] = pc[u] /\ call'[u] = call[u]
                                 /\ mine'[u] = mine[u]
  PROVE  Spaces'
<1> DEFINE b == initialBlock[a]
<1>1. spaceAllocated \in [Arena -> Nat] /\ asked \in [Arena -> Nat]
  BY DEF IInv, TypeOK, Spaces
<1>2. spaceAllocated' = [spaceAllocated EXCEPT ![a] = IF b = NoBlock THEN 0 ELSE InitialSize]
  BY DEF InitArena
<1>3. /\ BlocksIn(a)' = IF b = NoBlock THEN {} ELSE {b}
      /\ b # NoBlock => /\ b \in Address /\ b \notin Block /\ size'[b] = InitialSize
                        /\ pos'[b] = HeaderSize + InfoSize /\ threadInfo'[b] = b
      /\ \A x \in Address : x # b => /\ size'[x] = size[x] /\ pos'[x] = pos[x]
                                     /\ threadInfo'[x] = threadInfo[x]
      /\ \A c \in Arena \ {a} : InUse(c) =>
           /\ BlocksIn(c)' = BlocksIn(c)
           /\ \A x \in BlocksIn(c) : x \in Address /\ x # b
  BY InitMakes
<1>4. asked'[a] = 0
  BY DEF Spaces
<1>5. SpaceOf(a)'
  <2>1. CASE b = NoBlock
    <3>1. BlocksIn(a)' = {} /\ spaceAllocated'[a] = 0
      BY <1>1, <1>2, <1>3, <2>1
    <3> QED BY <1>4, <3>1, AddsNone DEF SpaceOf
  <2>2. CASE b # NoBlock
    <3>1. BlocksIn(a)' = {b} /\ b \in Address
      BY <1>3, <2>2
    <3>2. size'[b] = InitialSize /\ spaceAllocated'[a] = InitialSize /\ InitialSize \in Nat
      BY <1>1, <1>2, <1>3, <2>2, InitialAssumption
    <3>3. Given'[b] = 0
      BY <1>3, <2>2, <3>1, GivenNext, SizeAssumption
    <3>4. Adds({b}, size'[b], 0, size', Given')
      <4> HIDE DEF b
      <4> QED BY <3>2, <3>3, AddsOne
    <3> QED BY <1>4, <3>1, <3>2, <3>4 DEF SpaceOf
  <2> QED BY <2>1, <2>2
<1>6. ASSUME NEW u \in Thread, pc'[u] \in {"load", "push"}
      PROVE  pos'[mine'[u]] = HeaderSize + InfoSize
  <2>1. u # t /\ pc[u] \in {"load", "push"} /\ mine'[u] = mine[u] /\ InHand(u)
    BY <1>6 DEF IInv
  <2>2. mine[u] \in Block /\ mine[u] \in Address
    BY <2>1 DEF InHand, Address
  <2>3. mine[u] # b
    BY <1>3, <2>2, BlockAssumption DEF Address
  <2> QED BY <1>3, <2>1, <2>2, <2>3 DEF Spaces
<1>7. ASSUME NEW c \in Arena PROVE (InUse(c)' => SpaceOf(c)') /\ (~InUse(c)' => asked'[c] = 0)
  <2>1. CASE c = a
    BY <1>5, <2>1
  <2>2. CASE c # a /\ InUse(c)
    <3>1. spaceAllocated'[c] = spaceAllocated[c] /\ SpaceOf(c)
      BY <1>1, <1>2, <2>2 DEF Spaces
    <3>2. \A x \in BlocksIn(c) : size'[x] = size[x] /\ pos'[x] = pos[x]
                                 /\ threadInfo'[x] = threadInfo[x]
      BY <1>3, <2>2
    <3>3. BlocksIn(c)' = BlocksIn(c)
      BY <1>3, <2>2
    <3> QED BY <2>2, <3>1, <3>2, <3>3, SpaceKept
  <2>3. CASE c # a /\ ~InUse(c)
    BY <2>3 DEF Spaces
  <2> QED BY <2>1, <2>2, <2>3
<1>8. asked' \in [Arena -> Nat]
  BY <1>1
<1> QED BY <1>6, <1>7, <1>8 DEF Spaces

LEMMA SpacesOfFree ==
  ASSUME IInv, Spaces, NEW t \in Thread, FreeBlocks(t)
  PROVE  Spaces'
<1>1. /\ pc \in [Thread -> Location] /\ lifecycleId \in [Arena -> Nat \cup {Dead}]
      /\ threads \in [Arena -> Seq(Address)] /\ spaceAllocated \in [Arena -> Nat]
      /\ call \in [Thread -> {NoCall} \cup [arena : Arena] \cup Request]
      /\ asked \in [Arena -> Nat] /\ CallsOnLive
  BY DEF IInv, TypeOK, Types, Spaces
<1>2. pc[t] = "free"
  BY DEF FreeBlocks, Goto
<1>3. PICK a \in Arena :
        /\ a = call[t].arena /\ Live(a)
        /\ \A u \in Thread \ {t} : pc[u] # "out" => call[u].arena # a
  BY <1>1, <1>2 DEF CallsOnLive, Tearing
<1>4. /\ pc'[t] \in {"init", "out"}
      /\ \A u \in Thread \ {t} : pc'[u] = pc[u] /\ call'[u] = call[u] /\ mine'[u] = mine[u]
      /\ UNCHANGED <<head, pos, size, threadInfo>>
      /\ asked' = [asked EXCEPT ![a] = 0]
  BY <1>1, <1>3 DEF FreeBlocks, Goto, infos
<1>5. ~InUse(a)'
  <2>1. \/ pc'[t] = "init" /\ call'[t] = call[t]
        \/ lifecycleId'[a] = Dead
    BY <1>1, <1>3, <1>4 DEF FreeBlocks, Goto
  <2> QED BY <1>3, <2>1 DEF InUse, Live, Users
<1>6. \A c \in Arena \ {a} : /\ threads'[c] = threads[c] /\ lifecycleId'[c] = lifecycleId[c]
                             /\ spaceAllocated'[c] = spaceAllocated[c]
  BY <1>1, <1>3 DEF FreeBlocks, arenas
<1>7. \A c \in Arena \ {a} : InUse(c)' <=> InUse(c)
  <2>1. pc'[t] = "init" => call'[t].arena = a
    BY <1>1, <1>3 DEF FreeBlocks, Goto
  <2> QED BY <1>2, <1>3, <1>4, <1>6, <2>1 DEF InUse, Live, Users
<1>8. /\ asked' \in [Arena -> Nat] /\ asked'[a] = 0
      /\ \A c \in Arena \ {a} : asked'[c] = asked[c]
  BY <1>1, <1>4
<1>9. \A u \in Thread : pc'[u] \in {"load", "push"} => pos'[mine'[u]] = HeaderSize + InfoSize
  BY <1>4 DEF Spaces
<1>10. ASSUME NEW c \in Arena PROVE (InUse(c)' => SpaceOf(c)') /\ (~InUse(c)' => asked'[c] = 0)
  <2>1. CASE c = a
    BY <1>5, <1>8, <2>1
  <2>2. CASE c # a /\ InUse(c)
    <3>1. InfosIn(c)' = InfosIn(c)
      BY <1>2, <1>4, <1>6, <2>2, InfosSame
    <3>2. BlocksIn(c)' = BlocksIn(c)
      BY <1>4, <3>1, BlocksSame
    <3> QED BY <1>4, <1>6, <1>7, <1>8, <2>2, <3>2, SpaceKept DEF Spaces
  <2>3. CASE c # a /\ ~InUse(c)
    BY <1>7, <1>8, <2>3 DEF Spaces
  <2> QED BY <2>1, <2>2, <2>3
<1> QED BY <1>8, <1>9, <1>10 DEF Spaces

LEMMA SpacesOfConstruct ==
  ASSUME IInv, Chains, Spaces, NEW t \in Thread, NEW a \in Arena, Construct(t, a)
  PROVE  Spaces'
<1>1. InitArena(t, a) /\ asked' = asked
  BY DEF Construct, history
<1>2. /\ ~InUse(a) /\ InUse(a)'
      /\ \A c \in Arena \ {a} : InUse(c)' <=> InUse(c)
      /\ pc[t] \notin {"load", "push"} /\ pc'[t] = "out"
      /\ \A u \in Thread \ {t} : pc'[u] = pc[u] /\ call'[u] = call[u] /\ mine'[u] = mine[u]
  BY ConstructKeeps
<1> QED BY <1>1, <1>2, SpacesOfInit

LEMMA SpacesOfRestart ==
  ASSUME IInv, Chains, Spaces, NEW t \in Thread, Restart(t)
  PROVE  Spaces'
<1>1. asked' = asked
  BY DEF Restart, history
<1>2. PICK a \in Arena :
        /\ InitArena(t, a) /\ ~InUse(a) /\ InUse(a)'
        /\ \A c \in Arena \ {a} : InUse(c)' <=> InUse(c)
        /\ pc[t] \notin {"load", "push"} /\ pc'[t] = "out"
        /\ \A u \in Thread \ {t} : pc'[u] = pc[u] /\ call'[u] = call[u] /\ mine'[u] = mine[u]
  BY RestartKeeps
<1> QED BY <1>1, <1>2, SpacesOfInit

-----------------------------------------------------------------------------
LEMMA InitSpaces == Init => Spaces
<1> SUFFICES ASSUME Init PROVE Spaces
  OBVIOUS
<1>1. \A a \in Arena : ~InUse(a)
  BY DEF Init, InUse, Live
<1>2. asked = [a \in Arena |-> 0] /\ pc = [t \in Thread |-> "out"]
  BY DEF Init
<1> QED BY <1>1, <1>2 DEF Spaces

LEMMA NextSpaces == IInv /\ Chains /\ Spaces /\ [Next]_vars => Spaces'
<1> SUFFICES ASSUME IInv, Chains, Spaces, [Next]_vars PROVE Spaces'
  OBVIOUS
<1>1. ASSUME NEW t \in Thread, Begin(t) PROVE Spaces'
  BY <1>1, SpacesOfQuiet, SpacesOfConstruct DEF Begin
<1>2. ASSUME NEW t \in Thread, Step(t) PROVE Spaces'
  BY <1>2, SpacesOfQuiet, SpacesOfUse, SpacesOfNewThreadInfo, SpacesOfPush,
     SpacesOfGetBlockSlow, SpacesOfFree, SpacesOfRestart DEF Step
<1>3. CASE UNCHANGED vars
  <2>1. /\ UNCHANGED <<lifecycleId, threads, pc, call, mine>>
        /\ UNCHANGED <<pos, size, threadInfo, head, spaceAllocated, asked>>
    BY <1>3 DEF vars, arenas, blocks, infos, locals, history
  <2>2. \A c \in Arena : InUse(c)' <=> InUse(c)
    BY <2>1 DEF InUse, Live, Users
  <2>3. \A c \in Arena : InfosIn(c)' = InfosIn(c)
    BY <2>1, InfosSame
  <2> QED BY <2>1, <2>2, <2>3, SpacesSame
<1> QED BY <1>1, <1>2, <1>3 DEF Next

-----------------------------------------------------------------------------
(* SpaceUsed walks the chain of one ThreadInfo after another.              *)
Walked == [b \in Address |-> pos[b] - HeaderSize]

LEMMA WalkedIs == \A b \in Address : Walked[b] = pos[b] - HeaderSize
  BY DEF Walked

LEMMA ChainWalk ==
  ASSUME NEW S \in SUBSET Address, IsFiniteSet(S), \A b \in S : Walked[b] \in Nat,
         pos \in [Address -> Nat], HeaderSize \in Nat
  PROVE  FoldSet(LAMBDA b, n : n + pos[b] - HeaderSize, 0, S) = Total(Walked, S)
<1> DEFINE F(f) == f = [s \in SUBSET S |-> IF s = {} THEN 0
                                           ELSE f[s \ {Taken(s)}] + pos[Taken(s)] - HeaderSize]
           c == CHOOSE f : F(f)
           h == [s \in SUBSET S |-> Total(Walked, s)]
<1>1. h[{}] = 0
  BY TotalOfNone
<1>2. ASSUME NEW s \in SUBSET S, s # {}
      PROVE  h[s] = h[s \ {Taken(s)}] + pos[Taken(s)] - HeaderSize
  <2>1. Taken(s) \in s /\ Taken(s) \in Address
    BY <1>2 DEF Taken
  <2>2. IsFiniteSet(s)
    BY FS_Subset
  <2>3. Total(Walked, s \ {Taken(s)}) \in Nat
        /\ Total(Walked, s) = Total(Walked, s \ {Taken(s)}) + Walked[Taken(s)]
    BY <2>1, <2>2, TotalWithOne
  <2>4. PICK k \in Nat, p \in Nat : k = Total(Walked, s \ {Taken(s)}) /\ p = pos[Taken(s)]
    BY <2>1, <2>3
  <2>5. Total(Walked, s) = k + (p - HeaderSize)
    BY <2>1, <2>3, <2>4, WalkedIs
  <2>6. k + (p - HeaderSize) = k + p - HeaderSize
    OBVIOUS
  <2> QED BY <2>1, <2>4, <2>5, <2>6
<1>3. F(h)
  <2>1. h = [s \in SUBSET S |-> h[s]]
    OBVIOUS
  <2> HIDE DEF h
  <2> QED BY <1>1, <1>2, <2>1
<1>4. F(c)
  <2> HIDE DEF F, h
  <2> QED BY <1>3
<1>5. FoldSet(LAMBDA b, n : n + pos[b] - HeaderSize, 0, S) = c[S]
  BY DEF FoldSet, MapThenFoldSet, Taken
<1>6. /\ c[{}] = 0
      /\ \A s \in SUBSET S : s # {} =>
           c[s] = c[s \ {Taken(s)}] + pos[Taken(s)] - HeaderSize
  <2> HIDE DEF c
  <2>1. c = [s \in SUBSET S |-> IF s = {} THEN 0
                                ELSE c[s \ {Taken(s)}] + pos[Taken(s)] - HeaderSize]
    BY <1>4
  <2>2. \A s \in SUBSET S : c[s] = IF s = {} THEN 0
                                   ELSE c[s \ {Taken(s)}] + pos[Taken(s)] - HeaderSize
    BY <2>1
  <2> QED BY <2>2
<1>7. c[S] = h[S]
  <2> HIDE DEF c, h, F
  <2>1. c[{}] = h[{}]
    BY <1>1, <1>6
  <2>2. \A s \in SUBSET S : s # {} /\ c[s \ {Taken(s)}] = h[s \ {Taken(s)}] => c[s] = h[s]
    BY <1>2, <1>6
  <2> QED BY <2>1, <2>2, FoldsAlike
<1> QED BY <1>5, <1>7

UsedOf(i) == FoldSet(LAMBDA b, n : n + pos[b] - HeaderSize, 0, ToSet(head[i]))
UnionOf(s) == UNION {ToSet(head[i]) : i \in s}

LEMMA UsedOfInfo ==
  ASSUME IInv, Spaces, NEW a \in Arena, InUse(a), NEW i \in ToSet(threads[a])
  PROVE  /\ IsFiniteSet(ToSet(head[i])) /\ ToSet(head[i]) \subseteq BlocksIn(a)
         /\ Total(Given, ToSet(head[i])) \in Nat
         /\ UsedOf(i) = Total(Given, ToSet(head[i])) + InfoSize
<1> DEFINE S == ToSet(head[i])
<1>1. i \in InfosIn(a)
  BY InfoIn
<1>2. /\ i \in S /\ S \subseteq Address
      /\ \A b \in S : b \in Address /\ threadInfo[b] = i
  BY <1>1, InfoFacts
<1>3. S \subseteq BlocksIn(a)
  BY <1>1 DEF BlocksIn
<1>4. IsFiniteSet(BlocksIn(a)) /\ \A b \in BlocksIn(a) : Given[b] \in Nat
  BY DEF Spaces, SpaceOf, Adds
<1>5. IsFiniteSet(S)
  BY <1>3, <1>4, FS_Subset
<1>6. HeaderSize \in Nat /\ InfoSize \in Nat /\ pos \in [Address -> Nat]
  BY SizeAssumption DEF IInv, TypeOK
<1>7. \A b \in S : b # i => Walked[b] = Given[b]
  <2> SUFFICES ASSUME NEW b \in S, b # i PROVE Walked[b] = Given[b]
    OBVIOUS
  <2>1. Given[b] = pos[b] - HeaderSize - 0
    BY <1>2, GivenIs
  <2>2. PICK p \in Nat : p = pos[b]
    BY <1>2, <1>6
  <2> QED BY <1>2, <1>6, <2>1, <2>2, WalkedIs
<1>8. Walked[i] = Given[i] + InfoSize
  <2>1. Given[i] = pos[i] - HeaderSize - InfoSize
    BY <1>2, GivenIs
  <2>2. PICK p \in Nat : p = pos[i]
    BY <1>2, <1>6
  <2> QED BY <1>2, <1>6, <2>1, <2>2, WalkedIs
<1>9. \A b \in S : Given[b] \in Nat
  BY <1>3, <1>4
<1>10. \A b \in S : Walked[b] \in Nat
  BY <1>6, <1>7, <1>8, <1>9, <1>2
<1>11. Total(Walked, S) = Total(Given, S) + InfoSize
  <2> HIDE DEF S
  <2> QED BY <1>2, <1>5, <1>6, <1>7, <1>8, <1>9, TotalGrows
<1>12. UsedOf(i) = Total(Walked, S)
  BY <1>2, <1>5, <1>6, <1>10, ChainWalk DEF UsedOf
<1>13. Total(Given, S) \in Nat
  BY <1>5, <1>9, UnitsFinite
<1> QED BY <1>3, <1>5, <1>11, <1>12, <1>13

LEMMA ListWalk ==
  ASSUME IInv, Chains, Spaces, NEW a \in Arena, InUse(a)
  PROVE  SpaceUsed(a) = Total(Given, Reached(a))
<1> DEFINE T == ToSet(threads[a])
           F(f) == f = [s \in SUBSET T |-> IF s = {} THEN 0
                          ELSE f[s \ {Taken(s)}] + UsedOf(Taken(s)) - InfoSize]
           c == CHOOSE f : F(f)
           h == [s \in SUBSET T |-> Total(Given, UnionOf(s))]
<1>1. h[{}] = 0
  <2>1. UnionOf({}) = {}
    BY DEF UnionOf
  <2> QED BY <2>1, TotalOfNone
<1>2. IsFiniteSet(BlocksIn(a)) /\ \A b \in BlocksIn(a) : Given[b] \in Nat
  BY DEF Spaces, SpaceOf, Adds
<1>3. T \subseteq BlocksIn(a) /\ IsFiniteSet(T)
  <2>1. T \subseteq BlocksIn(a)
    BY InfoIn, InfoFacts DEF BlocksIn
  <2> QED BY <1>2, <2>1, FS_Subset
<1>4. \A s \in SUBSET T : UnionOf(s) \subseteq BlocksIn(a) /\ IsFiniteSet(UnionOf(s))
  <2>1. \A s \in SUBSET T : UnionOf(s) \subseteq BlocksIn(a)
    BY UsedOfInfo DEF UnionOf
  <2> QED BY <1>2, <2>1, FS_Subset
<1>5. ASSUME NEW s \in SUBSET T, s # {}
      PROVE  h[s] = h[s \ {Taken(s)}] + UsedOf(Taken(s)) - InfoSize
  <2>1. PICK x \in s : x = Taken(s)
    BY <1>5 DEF Taken
  <2>2. PICK B : B = UnionOf(s \ {x})
    OBVIOUS
  <2>3. PICK S : S = ToSet(head[x])
    OBVIOUS
  <2>4. UnionOf(s) = B \cup S
    BY <2>2, <2>3 DEF UnionOf
  <2>5. B \cap S = {}
    <3> SUFFICES ASSUME NEW y \in B, y \in S PROVE FALSE
      OBVIOUS
    <3>1. PICK j \in s \ {x} : y \in ToSet(head[j])
      BY <2>2 DEF UnionOf
    <3>2. j \in InfosIn(a) /\ x \in InfosIn(a)
      BY InfoIn
    <3> QED BY <2>3, <3>1, <3>2, ChainsApart
  <2>6. /\ IsFiniteSet(S) /\ Total(Given, S) \in Nat /\ S \subseteq BlocksIn(a)
        /\ UsedOf(x) = Total(Given, S) + InfoSize
    BY <2>3, UsedOfInfo
  <2>7. IsFiniteSet(B) /\ B \subseteq BlocksIn(a)
    BY <1>4, <2>2
  <2>8. \A b \in B \cup S : Given[b] \in Nat
    BY <1>2, <2>6, <2>7
  <2>9. Total(Given, B \cup S) = Total(Given, B) + Total(Given, S)
    BY <2>5, <2>6, <2>7, <2>8, TotalOfApart
  <2>10. PICK k \in Nat, l \in Nat : k = Total(Given, B) /\ l = Total(Given, S)
    BY <2>6, <2>7, <2>8, UnitsFinite
  <2>11. k + l = k + (l + InfoSize) - InfoSize
    BY SizeAssumption
  <2>12. h[s] = k + l /\ h[s \ {x}] = k
    BY <2>2, <2>4, <2>9, <2>10
  <2> QED BY <2>1, <2>6, <2>10, <2>11, <2>12
<1>6. F(h)
  <2>1. h = [s \in SUBSET T |-> h[s]]
    OBVIOUS
  <2> HIDE DEF h, T
  <2> QED BY <1>1, <1>5, <2>1
<1>7. F(c)
  <2> HIDE DEF F, h
  <2> QED BY <1>6
<1>8. SpaceUsed(a) = c[T]
  BY DEF SpaceUsed, UsedOf, FoldSet, MapThenFoldSet, Taken
<1>9. /\ c[{}] = 0
      /\ \A s \in SUBSET T : s # {} =>
           c[s] = c[s \ {Taken(s)}] + UsedOf(Taken(s)) - InfoSize
  <2> HIDE DEF c, T
  <2>1. c = [s \in SUBSET T |-> IF s = {} THEN 0
                                ELSE c[s \ {Taken(s)}] + UsedOf(Taken(s)) - InfoSize]
    BY <1>7
  <2>2. \A s \in SUBSET T : c[s] = IF s = {} THEN 0
                                   ELSE c[s \ {Taken(s)}] + UsedOf(Taken(s)) - InfoSize
    BY <2>1
  <2> QED BY <2>2
<1>10. c[T] = h[T]
  <2> HIDE DEF c, h, F, T
  <2>1. c[{}] = h[{}]
    BY <1>1, <1>9
  <2>2. \A s \in SUBSET T : s # {} /\ c[s \ {Taken(s)}] = h[s \ {Taken(s)}] => c[s] = h[s]
    BY <1>5, <1>9
  <2> QED BY <1>3, <2>1, <2>2, FoldsAlike
<1>11. h[T] = Total(Given, Reached(a))
  BY DEF UnionOf, Reached
<1> QED BY <1>8, <1>10, <1>11

(* spaceAllocated_ is the size of the blocks that hang from the arena, and *)
(* SpaceUsed, which walks them, finds what the callers and the chunks of   *)
(* destructors were given since the arena was last made or reset.          *)
THEOREM SpaceIsAccounted == Spec => []SpaceAgrees
<1>1. IInv /\ Chains /\ Spaces => SpaceAgrees
  <2> SUFFICES ASSUME IInv, Chains, Spaces, NEW a \in Arena, InUse(a)
               PROVE  /\ spaceAllocated[a] = SumFunctionOnSet(size, BlocksIn(a))
                      /\ SpaceUsed(a) = asked[a]
    BY DEF SpaceAgrees
  <2> DEFINE B == BlocksIn(a)
  <2>1. /\ IsFiniteSet(B) /\ \A b \in B : size[b] \in Nat /\ Given[b] \in Nat
        /\ spaceAllocated[a] = Total(size, B) /\ asked[a] = Total(Given, B)
    BY DEF Spaces, SpaceOf, Adds
  <2>2. SumFunctionOnSet(size, B) = Total(size, B)
    <3> HIDE DEF B
    <3> QED BY <2>1, SumIsTotal
  <2>3. ASSUME NEW b \in B, b \notin Reached(a) PROVE Given[b] = 0
    <3>1. PICK i \in InfosIn(a) : b \in ToSet(head[i])
      BY DEF BlocksIn
    <3>2. i \notin ToSet(threads[a])
      BY <2>3, <3>1 DEF Reached
    <3>3. PICK u \in Thread : Unpushed(i, u)
      BY <3>1, <3>2, InfoKind
    <3>4. b = i
      BY <3>1, <3>3, ToSetOfOne DEF Unpushed
    <3>5. pos[b] = HeaderSize + InfoSize /\ threadInfo[b] = b /\ b \in Address
      BY <3>3, <3>4 DEF Unpushed, Spaces, Address
    <3> QED BY <3>5, GivenIs, SizeAssumption
  <2>4. Reached(a) \subseteq B
    BY InfoIn DEF Reached, BlocksIn
  <2>5. Total(Given, B) = Total(Given, Reached(a))
    <3> HIDE DEF B
    <3>1. PICK R : R = Reached(a)
      OBVIOUS
    <3>2. R \cup (B \ R) = B /\ R \cap (B \ R) = {}
      BY <2>4, <3>1
    <3>3. IsFiniteSet(R) /\ IsFiniteSet(B \ R)
      BY <2>1, <2>4, <3>1, FS_Subset
    <3>4. Total(Given, B \ R) = 0
      BY <2>3, <3>1, TotalOfZeros
    <3>5. Total(Given, R) \in Nat
      BY <2>1, <2>4, <3>1, <3>3, UnitsFinite
    <3>6. Total(Given, R \cup (B \ R)) = Total(Given, R) + Total(Given, B \ R)
      BY <2>1, <3>2, <3>3, TotalOfApart
    <3> QED BY <3>1, <3>2, <3>4, <3>5, <3>6
  <2>6. SpaceUsed(a) = Total(Given, Reached(a))
    BY ListWalk
  <2> QED BY <2>1, <2>2, <2>5, <2>6
<1> QED BY Invariance, InitChains, NextChains, InitSpaces, NextSpaces, <1>1, PTL DEF Spec

-----------------------------------------------------------------------------
(* Destructors.  What FlattenSeq returns is the last value of a recursive  *)
(* function; that the function exists is shown by its first values.        *)

Joined(f, ss, m) == IF m = 1 THEN ss[m] ELSE f[m - 1] \o ss[m]

LEMMA JoinBegins ==
  ASSUME NEW ss, NEW n \in Nat
  PROVE  \E f : f = [m \in 1 .. n |-> Joined(f, ss, m)]
<1> DEFINE Begun(f, i) == f = [m \in 1 .. i |-> Joined(f, ss, m)]
           Bad == {i \in Nat : ~ \E f : Begun(f, i)}
<1> SUFFICES ASSUME Bad # {} PROVE FALSE
  OBVIOUS
<1>1. PICK i \in Bad : \A x \in Bad : i <= x
  <2>1. Bad \in SUBSET Nat
    OBVIOUS
  <2> HIDE DEF Bad
  <2> QED BY <2>1, LeastNat
<1>2. i \in Nat /\ ~ \E f : Begun(f, i)
  OBVIOUS
<1>3. CASE i = 0
  <2> DEFINE f == [m \in 1 .. i |-> ss]
  <2>1. 1 .. i = {}
    BY <1>3
  <2>2. Begun(f, i)
    BY <2>1
  <2> QED BY <1>2, <2>2
<1>4. CASE i # 0
  <2>1. i - 1 \in Nat /\ ~ (i <= i - 1)
    BY <1>2, <1>4
  <2>2. PICK f : Begun(f, i - 1)
    BY <1>1, <2>1
  <2> DEFINE g == [m \in 1 .. i |-> IF m = i THEN Joined(f, ss, m) ELSE f[m]]
  <2>20. \A m \in 1 .. i : g[m] = IF m = i THEN Joined(f, ss, m) ELSE f[m]
    OBVIOUS
  <2>21. DOMAIN g = 1 .. i /\ g = [m \in 1 .. i |-> g[m]]
    OBVIOUS
  <2> HIDE DEF g
  <2>3. ASSUME NEW m \in 1 .. i PROVE g[m] = Joined(g, ss, m)
    <3>1. Joined(g, ss, m) = Joined(f, ss, m)
      <4>1. CASE m = 1
        BY <4>1 DEF Joined
      <4>2. CASE m # 1
        <5>1. m - 1 \in 1 .. i /\ m - 1 # i
          BY <2>1, <4>2
        <5>2. g[m - 1] = f[m - 1]
          BY <2>20, <5>1
        <5> QED BY <4>2, <5>2 DEF Joined
      <4> QED BY <4>1, <4>2
    <3>2. m # i => m \in 1 .. (i - 1)
      BY <2>1
    <3>3. m # i => f[m] = Joined(f, ss, m)
      BY <2>2, <3>2
    <3> QED BY <2>20, <3>1, <3>3
  <2>5. Begun(g, i)
    BY <2>3, <2>21
  <2> QED BY <1>2, <2>5
<1> QED BY <1>3, <1>4

LEMMA FlattenSeqIs ==
  ASSUME NEW ss, Len(ss) \in Nat, Len(ss) # 0
  PROVE  \E f : /\ f = [m \in 1 .. Len(ss) |-> Joined(f, ss, m)]
                /\ FlattenSeq(ss) = f[Len(ss)]
<1> DEFINE F(f) == f = [i \in 1 .. Len(ss) |-> IF i = 1 THEN ss[i] ELSE f[i - 1] \o ss[i]]
           c == CHOOSE f : F(f)
<1>1. FlattenSeq(ss) = c[Len(ss)]
  BY DEF FlattenSeq
<1>2. PICK n \in Nat : n = Len(ss)
  OBVIOUS
<1>3. PICK f : f = [m \in 1 .. n |-> Joined(f, ss, m)]
  BY JoinBegins
<1>4. F(f)
  BY <1>2, <1>3 DEF Joined
<1>5. F(c)
  <2> HIDE DEF F
  <2> QED BY <1>4
<1>6. c = [m \in 1 .. Len(ss) |-> Joined(c, ss, m)]
  <2> HIDE DEF c
  <2> QED BY <1>5 DEF Joined
<1> QED BY <1>1, <1>6

\* x comes before y in the flattened sequence.
InLine(ss, x, y) ==
  \/ \E a, b \in DOMAIN ss : a < b /\ x \in ToSet(ss[a]) /\ y \in ToSet(ss[b])
  \/ \E a \in DOMAIN ss : \E p, q \in DOMAIN ss[a] : p < q /\ x = ss[a][p] /\ y = ss[a][q]

\* s is the first i sequences of ss, one after the other.
Joins(s, ss, i) ==
  /\ \A j \in DOMAIN s : \E a \in 1 .. i : s[j] \in ToSet(ss[a])
  /\ \A a \in 1 .. i : ToSet(ss[a]) \subseteq ToSet(s)
  /\ \A j, k \in DOMAIN s : j < k => InLine(ss, s[j], s[k])

LEMMA ConcatIs ==
  ASSUME NEW S, NEW s \in Seq(S), NEW r \in Seq(S)
  PROVE  /\ s \o r \in Seq(S) /\ DOMAIN (s \o r) = 1 .. Len(s) + Len(r)
         /\ Len(s) \in Nat /\ Len(r) \in Nat
         /\ DOMAIN s = 1 .. Len(s) /\ DOMAIN r = 1 .. Len(r)
         /\ \A j \in 1 .. Len(s) + Len(r) :
              (s \o r)[j] = IF j <= Len(s) THEN s[j] ELSE r[j - Len(s)]
         /\ ToSet(s \o r) = ToSet(s) \cup ToSet(r)
<1> DEFINE c == s \o r
<1>1. /\ c \in Seq(S) /\ DOMAIN c = 1 .. Len(s) + Len(r)
      /\ Len(s) \in Nat /\ Len(r) \in Nat
      /\ DOMAIN s = 1 .. Len(s) /\ DOMAIN r = 1 .. Len(r)
      /\ \A j \in 1 .. Len(s) + Len(r) : c[j] = IF j <= Len(s) THEN s[j] ELSE r[j - Len(s)]
  OBVIOUS
<1> HIDE DEF c
<1>2. ASSUME NEW x \in ToSet(c) PROVE x \in ToSet(s) \cup ToSet(r)
  <2>1. PICK j \in 1 .. Len(s) + Len(r) : x = c[j]
    BY <1>1, <1>2 DEF ToSet
  <2>2. CASE j <= Len(s)
    <3>1. j \in 1 .. Len(s) /\ x = s[j]
      BY <1>1, <2>1, <2>2
    <3> QED BY <1>1, <3>1 DEF ToSet
  <2>3. CASE ~ (j <= Len(s))
    <3>1. j - Len(s) \in 1 .. Len(r) /\ x = r[j - Len(s)]
      BY <1>1, <2>1, <2>3
    <3> QED BY <1>1, <3>1 DEF ToSet
  <2> QED BY <2>2, <2>3
<1>3. ASSUME NEW x \in ToSet(s) PROVE x \in ToSet(c)
  <2>1. PICK j \in 1 .. Len(s) : x = s[j]
    BY <1>1, <1>3 DEF ToSet
  <2>2. j \in 1 .. Len(s) + Len(r) /\ c[j] = x
    BY <1>1, <2>1
  <2> QED BY <1>1, <2>2 DEF ToSet
<1>4. ASSUME NEW x \in ToSet(r) PROVE x \in ToSet(c)
  <2>1. PICK j \in 1 .. Len(r) : x = r[j]
    BY <1>1, <1>4 DEF ToSet
  <2>2. PICK k \in 1 .. Len(s) + Len(r) : k = j + Len(s)
    BY <1>1
  <2>3. ~ (k <= Len(s)) /\ k - Len(s) = j
    BY <1>1, <2>2
  <2>4. c[k] = x
    BY <1>1, <2>1, <2>2, <2>3
  <2> QED BY <1>1, <2>4 DEF ToSet
<1> QED BY <1>1, <1>2, <1>3, <1>4 DEF c

LEMMA JoinFirst ==
  ASSUME NEW S, NEW ss \in Seq(Seq(S)), Len(ss) # 0
  PROVE  ss[1] \in Seq(S) /\ Joins(ss[1], ss, 1)
<1>1. 1 \in DOMAIN ss /\ ss[1] \in Seq(S)
  OBVIOUS
<1>2. \A j \in DOMAIN ss[1] : ss[1][j] \in ToSet(ss[1])
  BY <1>1 DEF ToSet
<1>3. \A a \in 1 .. 1 : a = 1
  OBVIOUS
<1>4. 1 \in 1 .. 1
  OBVIOUS
<1>5. \A j, k \in DOMAIN ss[1] : j < k => InLine(ss, ss[1][j], ss[1][k])
  BY <1>1 DEF InLine
<1> QED BY <1>1, <1>2, <1>3, <1>4, <1>5 DEF Joins

LEMMA JoinNext ==
  ASSUME NEW S, NEW ss \in Seq(Seq(S)), NEW i \in Nat, i + 1 \in 1 .. Len(ss),
         NEW s \in Seq(S), Joins(s, ss, i), NEW k, k = i + 1
  PROVE  s \o ss[k] \in Seq(S) /\ Joins(s \o ss[k], ss, k)
<1> DEFINE c == s \o ss[k]
<1>1. k \in DOMAIN ss /\ ss[k] \in Seq(S) /\ k \in 1 .. k /\ k \in Nat
  OBVIOUS
<1>2. PICK r \in Seq(S) : r = ss[k]
  BY <1>1
<1>3. /\ c \in Seq(S) /\ DOMAIN c = 1 .. Len(s) + Len(r)
      /\ Len(s) \in Nat /\ Len(r) \in Nat
      /\ DOMAIN s = 1 .. Len(s) /\ DOMAIN r = 1 .. Len(r)
      /\ \A j \in 1 .. Len(s) + Len(r) : c[j] = IF j <= Len(s) THEN s[j] ELSE r[j - Len(s)]
      /\ ToSet(c) = ToSet(s) \cup ToSet(r)
  BY <1>2, ConcatIs
<1> HIDE DEF c
<1>4. \A a \in 1 .. i : a \in 1 .. k /\ a < k /\ a \in DOMAIN ss
  BY <1>1
<1>5. \A j \in 1 .. Len(s) + Len(r) :
        IF j <= Len(s) THEN j \in DOMAIN s /\ c[j] = s[j]
        ELSE j - Len(s) \in DOMAIN r /\ c[j] = r[j - Len(s)]
  BY <1>3
<1>6. \A j \in DOMAIN r : r[j] \in ToSet(r)
  BY DEF ToSet
<1>7. ASSUME NEW j \in DOMAIN c PROVE \E a \in 1 .. k : c[j] \in ToSet(ss[a])
  <2>1. CASE j <= Len(s)
    <3>1. j \in DOMAIN s /\ c[j] = s[j]
      BY <1>3, <1>5, <2>1
    <3>2. PICK a \in 1 .. i : s[j] \in ToSet(ss[a])
      BY <3>1 DEF Joins
    <3> QED BY <1>4, <3>1, <3>2
  <2>2. CASE ~ (j <= Len(s))
    <3>1. c[j] \in ToSet(r)
      BY <1>3, <1>5, <1>6, <2>2
    <3> QED BY <1>1, <1>2, <3>1
  <2> QED BY <2>1, <2>2
<1>8. ASSUME NEW a \in 1 .. k PROVE ToSet(ss[a]) \subseteq ToSet(c)
  <2>1. CASE a = k
    BY <1>2, <1>3, <2>1
  <2>2. CASE a # k
    <3>1. a \in 1 .. i
      BY <1>1, <2>2
    <3>2. ToSet(ss[a]) \subseteq ToSet(s)
      BY <3>1 DEF Joins
    <3> QED BY <1>3, <3>2
  <2> QED BY <2>1, <2>2
<1>9. ASSUME NEW j \in DOMAIN c, NEW l \in DOMAIN c, j < l PROVE InLine(ss, c[j], c[l])
  <2>1. CASE l <= Len(s)
    <3>1. j <= Len(s)
      BY <1>3, <1>9, <2>1
    <3>2. j \in DOMAIN s /\ l \in DOMAIN s /\ c[j] = s[j] /\ c[l] = s[l]
      BY <1>3, <1>5, <2>1, <3>1
    <3> QED BY <1>9, <3>2 DEF Joins
  <2>2. CASE j <= Len(s) /\ ~ (l <= Len(s))
    <3>1. j \in DOMAIN s /\ c[j] = s[j] /\ c[l] \in ToSet(r)
      BY <1>3, <1>5, <1>6, <2>2
    <3>2. PICK a \in 1 .. i : s[j] \in ToSet(ss[a])
      BY <3>1 DEF Joins
    <3>3. a < k /\ a \in DOMAIN ss /\ k \in DOMAIN ss /\ c[j] \in ToSet(ss[a]) /\ c[l] \in ToSet(ss[k])
      BY <1>1, <1>2, <1>4, <3>1, <3>2
    <3> QED BY <3>3 DEF InLine
  <2>3. CASE ~ (j <= Len(s)) /\ ~ (l <= Len(s))
    <3>1. /\ j - Len(s) \in DOMAIN r /\ l - Len(s) \in DOMAIN r
          /\ c[j] = r[j - Len(s)] /\ c[l] = r[l - Len(s)]
      BY <1>3, <1>5, <2>3
    <3>2. PICK p \in DOMAIN r : p = j - Len(s)
      BY <3>1
    <3>3. PICK q \in DOMAIN r : q = l - Len(s)
      BY <3>1
    <3>4. p < q /\ c[j] = r[p] /\ c[l] = r[q]
      BY <1>3, <1>9, <3>1, <3>2, <3>3
    <3> QED BY <1>1, <1>2, <3>4 DEF InLine
  <2> QED BY <2>1, <2>2, <2>3
<1>10. Joins(c, ss, k)
  BY <1>7, <1>8, <1>9 DEF Joins
<1> QED BY <1>3, <1>10 DEF c

LEMMA FlattenJoins ==
  ASSUME NEW S, NEW ss \in Seq(Seq(S))
  PROVE  /\ FlattenSeq(ss) \in Seq(S)
         /\ Joins(FlattenSeq(ss), ss, Len(ss))
<1>1. CASE Len(ss) = 0
  <2>1. ss = <<>> /\ FlattenSeq(ss) = ss /\ ss \in Seq(S)
    BY <1>1 DEF FlattenSeq
  <2>2. DOMAIN ss = {} /\ 1 .. Len(ss) = {}
    BY <1>1
  <2>3. Joins(ss, ss, Len(ss))
    BY <2>2 DEF Joins
  <2> QED BY <2>1, <2>3
<1>2. CASE Len(ss) # 0
  <2>1. PICK n \in Nat : n = Len(ss) /\ n # 0
    BY <1>2
  <2>2. PICK f : f = [m \in 1 .. n |-> Joined(f, ss, m)] /\ FlattenSeq(ss) = f[n]
    BY <1>2, <2>1, FlattenSeqIs
  <2>3. \A m \in 1 .. n : f[m] = Joined(f, ss, m)
    BY <2>2
  <2> DEFINE Good(m) == f[m] \in Seq(S) /\ Joins(f[m], ss, m)
             Bad == {m \in 1 .. n : ~Good(m)}
  <2>4. Bad = {}
    <3> SUFFICES ASSUME Bad # {} PROVE FALSE
      OBVIOUS
    <3>1. PICK m \in Bad : \A x \in Bad : m <= x
      <4>1. Bad \in SUBSET Nat
        OBVIOUS
      <4> HIDE DEF Bad
      <4> QED BY <4>1, LeastNat
    <3>2. m \in 1 .. n /\ ~Good(m)
      OBVIOUS
    <3>3. CASE m = 1
      <4>1. f[m] = ss[1]
        BY <2>3, <3>2, <3>3 DEF Joined
      <4> QED BY <1>2, <3>2, <3>3, <4>1, JoinFirst
    <3>4. CASE m # 1
      <4>1. PICK i \in Nat : i = m - 1
        BY <3>2, <3>4
      <4>2. i \in 1 .. n /\ ~ (m <= i) /\ m = i + 1 /\ i + 1 \in 1 .. Len(ss)
        BY <2>1, <3>2, <3>4, <4>1
      <4>3. Good(i)
        BY <3>1, <4>2
      <4>4. f[m] = f[i] \o ss[m]
        BY <2>3, <3>2, <3>4, <4>1 DEF Joined
      <4>5. Good(m)
        BY <4>2, <4>3, <4>4, JoinNext
      <4> QED BY <3>2, <4>5
    <3> QED BY <3>3, <3>4
  <2>5. n \in 1 .. n
    BY <2>1
  <2>6. Good(n)
    BY <2>4, <2>5
  <2> QED BY <2>1, <2>2, <2>6
<1> QED BY <1>1, <1>2

\* r has what s has, in the reverse order.
Reverses(r, s) ==
  /\ DOMAIN r = DOMAIN s
  /\ \A p \in DOMAIN s : \E i \in DOMAIN s : r[p] = s[i]
  /\ \A i \in DOMAIN s : \E p \in DOMAIN s : r[p] = s[i]
  /\ \A p, q \in DOMAIN s : p < q =>
       \E i, j \in DOMAIN s : i > j /\ r[p] = s[i] /\ r[q] = s[j]

LEMMA ReverseIs ==
  ASSUME NEW S, NEW s \in Seq(S)
  PROVE  Reverse(s) \in Seq(S) /\ Reverses(Reverse(s), s)
<1> DEFINE r == Reverse(s)
<1>1. PICK n \in Nat : n = Len(s) /\ DOMAIN s = 1 .. n
  OBVIOUS
<1>2. /\ r = [i \in 1 .. n |-> s[(n - i) + 1]]
      /\ \A i \in 1 .. n : (n - i) + 1 \in 1 .. n /\ s[(n - i) + 1] \in S
  BY <1>1 DEF Reverse
<1>3. r \in Seq(S) /\ DOMAIN r = 1 .. n /\ \A i \in 1 .. n : r[i] = s[(n - i) + 1]
  BY <1>1, <1>2
<1> HIDE DEF r
<1>4. /\ \A p \in DOMAIN s : \E i \in DOMAIN s : r[p] = s[i]
      /\ \A i \in DOMAIN s : \E p \in DOMAIN s : r[p] = s[i]
  <2>1. ASSUME NEW i \in DOMAIN s PROVE \E p \in DOMAIN s : r[p] = s[i]
    <3>1. PICK j \in 1 .. n : j = (n - i) + 1
      BY <1>1, <1>2
    <3>2. (n - j) + 1 = i
      BY <1>1, <3>1
    <3>3. r[j] = s[i]
      BY <1>3, <3>2
    <3> QED BY <1>1, <3>3
  <2> QED BY <1>1, <1>2, <1>3, <2>1
<1>5. ASSUME NEW p \in DOMAIN s, NEW q \in DOMAIN s, p < q
      PROVE  \E i, j \in DOMAIN s : i > j /\ r[p] = s[i] /\ r[q] = s[j]
  <2>1. PICK i \in 1 .. n : i = (n - p) + 1
    BY <1>1, <1>2
  <2>2. PICK j \in 1 .. n : j = (n - q) + 1
    BY <1>1, <1>2
  <2>3. i > j
    BY <1>1, <1>5, <2>1, <2>2
  <2> QED BY <1>1, <1>3, <2>1, <2>2, <2>3
<1>6. r \in Seq(S) /\ Reverses(r, s)
  BY <1>1, <1>3, <1>4, <1>5 DEF Reverses
<1> QED BY <1>6 DEF r

-----------------------------------------------------------------------------
(* The chunks of a ThreadInfo, newest first, hold the destructors its      *)
(* thread has registered in this life, each once, newest first but for the *)
(* order in a chunk; a thread without a ThreadInfo has registered none.    *)

Node == [by : Thread, nth : Nat]
Entries(u, n) == [by : {u}, nth : 1 .. n]

InOrder(c, u, n) ==
  /\ \A k \in DOMAIN c : \A p \in DOMAIN c[k].nodes : c[k].nodes[p] \in Entries(u, n)
  /\ \A k, l \in DOMAIN c : \A p \in DOMAIN c[k].nodes, q \in DOMAIN c[l].nodes :
       k < l \/ (k = l /\ p > q) => c[k].nodes[p].nth > c[l].nodes[q].nth
  /\ \A m \in 1 .. n : \E k \in DOMAIN c : \E p \in DOMAIN c[k].nodes : c[k].nodes[p].nth = m

LogOf(a) ==
  /\ InUse(a) => \A i \in InfosIn(a) : InOrder(cleanup[i], owner[i], registered[a][owner[i]])
  /\ \A u \in Thread : registered[a][u] # 0 => InUse(a) /\ \E i \in InfosIn(a) : owner[i] = u

Logs == \A a \in Arena : LogOf(a)

\* A torn down arena has run what was registered.
RanAll(ran, n) ==
  /\ ToSet(ran) = UNION {[by : {u}, nth : 1 .. n[u]] : u \in Thread}
  /\ \A j, k \in DOMAIN ran : j < k /\ ran[j].by = ran[k].by => ran[j].nth > ran[k].nth

LEMMA EntryIs ==
  ASSUME NEW u, NEW n \in Nat
  PROVE  /\ \A e \in Entries(u, n) : e.by = u /\ e.nth \in 1 .. n /\ e = [by |-> u, nth |-> e.nth]
         /\ \A m \in 1 .. n : [by |-> u, nth |-> m] \in Entries(u, n)
  BY DEF Entries

LEMMA NodesOf ==
  ASSUME NEW c \in Seq(Chunk), NEW k \in DOMAIN c
  PROVE  c[k].nodes \in Seq(Node)
<1>1. c[k] \in Chunk
  OBVIOUS
<1> QED BY <1>1 DEF Chunk, Node

LEMMA CleanupOrderIs ==
  ASSUME NEW i \in Address, cleanup[i] \in Seq(Chunk), NEW u \in Thread, NEW n \in Nat,
         InOrder(cleanup[i], u, n)
  PROVE  /\ CleanupOrder(i) \in Seq(Node)
         /\ ToSet(CleanupOrder(i)) = Entries(u, n)
         /\ \A p, q \in DOMAIN CleanupOrder(i) :
              p < q => CleanupOrder(i)[p].nth > CleanupOrder(i)[q].nth
<1>1. PICK c \in Seq(Chunk) : c = cleanup[i]
  OBVIOUS
<1> DEFINE rs == [k \in DOMAIN c |-> Reverse(c[k].nodes)]
<1>2. InOrder(c, u, n)
  BY <1>1
<1>3. PICK d \in Nat : d = Len(c) /\ DOMAIN c = 1 .. d
  OBVIOUS
<1>4. /\ \A k \in 1 .. d : rs[k] \in Seq(Node) /\ Reverses(rs[k], c[k].nodes)
      /\ DOMAIN rs = 1 .. d
  <2>1. ASSUME NEW k \in 1 .. d PROVE rs[k] \in Seq(Node) /\ Reverses(rs[k], c[k].nodes)
    <3>1. PICK s \in Seq(Node) : s = c[k].nodes
      BY <1>3, NodesOf
    <3>2. rs[k] = Reverse(s)
      BY <1>3, <3>1
    <3> QED BY <3>1, <3>2, ReverseIs
  <2> QED BY <1>3, <2>1
<1>5. rs = [k \in 1 .. d |-> rs[k]]
  BY <1>3
<1>6. CleanupOrder(i) = FlattenSeq(rs)
  BY <1>1 DEF CleanupOrder
<1> HIDE DEF rs
<1>7. rs \in Seq(Seq(Node)) /\ Len(rs) = d
  BY <1>4, <1>5
<1>8. PICK f \in Seq(Node) : f = CleanupOrder(i) /\ Joins(f, rs, d)
  BY <1>6, <1>7, FlattenJoins
<1>9. \A k \in 1 .. d : \A e \in ToSet(rs[k]) :
        \E p \in DOMAIN c[k].nodes : e = c[k].nodes[p]
  BY <1>4 DEF ToSet, Reverses
<1>10. \A k \in 1 .. d : \A p \in DOMAIN c[k].nodes : c[k].nodes[p] \in ToSet(rs[k])
  BY <1>4 DEF ToSet, Reverses
<1>11. ASSUME NEW e \in ToSet(f) PROVE e \in Entries(u, n)
  <2>1. PICK j \in DOMAIN f : e = f[j]
    BY <1>11 DEF ToSet
  <2>2. PICK k \in 1 .. d : e \in ToSet(rs[k])
    BY <1>8, <2>1 DEF Joins
  <2>3. PICK p \in DOMAIN c[k].nodes : e = c[k].nodes[p]
    BY <1>9, <2>2
  <2> QED BY <1>2, <1>3, <2>3 DEF InOrder
<1>12. ASSUME NEW e \in Entries(u, n) PROVE e \in ToSet(f)
  <2>1. e.nth \in 1 .. n /\ e = [by |-> u, nth |-> e.nth]
    BY EntryIs
  <2>2. PICK k \in 1 .. d : \E p \in DOMAIN c[k].nodes : c[k].nodes[p].nth = e.nth
    BY <1>2, <1>3, <2>1 DEF InOrder
  <2>3. PICK p \in DOMAIN c[k].nodes : c[k].nodes[p].nth = e.nth
    BY <2>2
  <2>4. c[k].nodes[p] \in Entries(u, n)
    BY <1>2, <1>3 DEF InOrder
  <2>5. c[k].nodes[p] = e
    BY <2>1, <2>3, <2>4, EntryIs
  <2>6. e \in ToSet(rs[k])
    BY <1>10, <2>5
  <2> QED BY <1>8, <2>6 DEF Joins
<1>13. ASSUME NEW p \in DOMAIN f, NEW q \in DOMAIN f, p < q PROVE f[p].nth > f[q].nth
  <2>1. InLine(rs, f[p], f[q])
    BY <1>8, <1>13 DEF Joins
  <2>2. CASE \E k, l \in DOMAIN rs : k < l /\ f[p] \in ToSet(rs[k]) /\ f[q] \in ToSet(rs[l])
    <3>1. PICK k \in 1 .. d, l \in 1 .. d : k < l /\ f[p] \in ToSet(rs[k]) /\ f[q] \in ToSet(rs[l])
      BY <1>4, <2>2
    <3>2. PICK x \in DOMAIN c[k].nodes : f[p] = c[k].nodes[x]
      BY <1>9, <3>1
    <3>3. PICK y \in DOMAIN c[l].nodes : f[q] = c[l].nodes[y]
      BY <1>9, <3>1
    <3>4. c[k].nodes[x].nth > c[l].nodes[y].nth
      BY <1>2, <1>3, <3>1 DEF InOrder
    <3> QED BY <3>2, <3>3, <3>4
  <2>3. CASE \E k \in DOMAIN rs : \E x, y \in DOMAIN rs[k] :
               x < y /\ f[p] = rs[k][x] /\ f[q] = rs[k][y]
    <3>1. PICK k \in 1 .. d : \E x, y \in DOMAIN rs[k] :
               x < y /\ f[p] = rs[k][x] /\ f[q] = rs[k][y]
      BY <1>4, <2>3
    <3>2. PICK x1 \in DOMAIN rs[k], y1 \in DOMAIN rs[k] :
               x1 < y1 /\ f[p] = rs[k][x1] /\ f[q] = rs[k][y1]
      BY <3>1
    <3>3. Reverses(rs[k], c[k].nodes)
      BY <1>4
    <3>4. x1 \in DOMAIN c[k].nodes /\ y1 \in DOMAIN c[k].nodes
      BY <3>3 DEF Reverses
    <3>5. PICK x \in DOMAIN c[k].nodes, y \in DOMAIN c[k].nodes :
               x > y /\ rs[k][x1] = c[k].nodes[x] /\ rs[k][y1] = c[k].nodes[y]
      BY <3>2, <3>3, <3>4 DEF Reverses
    <3>6. c[k].nodes[x].nth > c[k].nodes[y].nth
      BY <1>2, <1>3, <3>5 DEF InOrder
    <3> QED BY <3>2, <3>5, <3>6
  <2> QED BY <2>1, <2>2, <2>3 DEF InLine
<1> QED BY <1>8, <1>11, <1>12, <1>13

-----------------------------------------------------------------------------
\* The newest destructor goes to the end of the newest chunk.
LEMMA InOrderAppend ==
  ASSUME NEW u \in Thread, NEW n \in Nat, NEW c \in Seq(Chunk), c # <<>>, InOrder(c, u, n)
  PROVE  InOrder([c EXCEPT ![1].nodes = Append(@, [by |-> u, nth |-> n + 1])], u, n + 1)
<1> DEFINE e == [by |-> u, nth |-> n + 1]
           r == [c EXCEPT ![1].nodes = Append(@, e)]
<1>1. PICK d \in Nat : d = Len(c) /\ DOMAIN c = 1 .. d /\ 1 \in 1 .. d
  OBVIOUS
<1>2. PICK s \in Seq(Node) : s = c[1].nodes
  BY <1>1, NodesOf
<1>3. c[1] \in Chunk
  BY <1>1
<1>4. DOMAIN r = 1 .. d /\ \A k \in 1 .. d : k # 1 => r[k] = c[k]
  BY <1>1
<1>5. r[1].nodes = Append(s, e)
  BY <1>1, <1>2, <1>3 DEF Chunk
<1>6. PICK m \in Nat : m = Len(s) /\ DOMAIN s = 1 .. m
  OBVIOUS
<1>7. DOMAIN Append(s, e) = 1 .. m + 1 /\ Append(s, e)[m + 1] = e
      /\ \A p \in 1 .. m : Append(s, e)[p] = s[p]
  BY <1>6
<1> HIDE DEF r, e
<1>8. PICK v \in {Append(s, e)} : /\ r[1].nodes = v /\ DOMAIN v = 1 .. m + 1 /\ v[m + 1] = e
                                  /\ \A p \in 1 .. m : v[p] = s[p]
  BY <1>5, <1>7
<1>9. e.nth = n + 1 /\ e \in Entries(u, n + 1) /\ Entries(u, n) \subseteq Entries(u, n + 1)
      /\ \A x \in Entries(u, n) : x.nth \in 1 .. n
  BY DEF Entries, e
<1>10. \A k \in 1 .. d : \A p \in DOMAIN r[k].nodes :
         \/ k = 1 /\ p = m + 1 /\ r[k].nodes[p] = e
         \/ /\ p \in DOMAIN c[k].nodes /\ r[k].nodes[p] = c[k].nodes[p]
            /\ k = 1 => p \in 1 .. m
  <2> SUFFICES ASSUME NEW k \in 1 .. d, NEW p \in DOMAIN r[k].nodes
               PROVE  \/ k = 1 /\ p = m + 1 /\ r[k].nodes[p] = e
                      \/ /\ p \in DOMAIN c[k].nodes /\ r[k].nodes[p] = c[k].nodes[p]
                         /\ k = 1 => p \in 1 .. m
    OBVIOUS
  <2>1. CASE k # 1
    BY <1>4, <2>1
  <2>2. CASE k = 1
    <3>1. p \in 1 .. m + 1
      BY <1>8, <2>2
    <3>2. p = m + 1 \/ p \in 1 .. m
      BY <3>1
    <3> QED BY <1>2, <1>6, <1>8, <2>2, <3>2
  <2> QED BY <2>1, <2>2
<1>11. \A k \in 1 .. d : \A p \in DOMAIN c[k].nodes :
         p \in DOMAIN r[k].nodes /\ r[k].nodes[p] = c[k].nodes[p]
  <2> SUFFICES ASSUME NEW k \in 1 .. d, NEW p \in DOMAIN c[k].nodes
               PROVE  p \in DOMAIN r[k].nodes /\ r[k].nodes[p] = c[k].nodes[p]
    OBVIOUS
  <2>1. CASE k # 1
    BY <1>4, <2>1
  <2>2. CASE k = 1
    <3>1. p \in 1 .. m /\ p \in 1 .. m + 1
      BY <1>2, <1>6, <2>2
    <3> QED BY <1>2, <1>8, <2>2, <3>1
  <2> QED BY <2>1, <2>2
<1>12. \A k \in 1 .. d : \A p \in DOMAIN c[k].nodes : c[k].nodes[p] \in Entries(u, n)
  BY <1>1 DEF InOrder
<1>13. ASSUME NEW k \in 1 .. d, NEW p \in DOMAIN r[k].nodes
       PROVE  r[k].nodes[p] \in Entries(u, n + 1)
  BY <1>9, <1>10, <1>12
<1>14. ASSUME NEW k \in 1 .. d, NEW l \in 1 .. d,
              NEW p \in DOMAIN r[k].nodes, NEW q \in DOMAIN r[l].nodes,
              k < l \/ (k = l /\ p > q)
       PROVE  r[k].nodes[p].nth > r[l].nodes[q].nth
  <2>1. q \in DOMAIN c[l].nodes /\ r[l].nodes[q] = c[l].nodes[q]
    <3>1. ~(l = 1 /\ q = m + 1)
      <4> SUFFICES ASSUME l = 1, q = m + 1 PROVE FALSE
        OBVIOUS
      <4>1. k = 1 /\ p \in 1 .. m + 1 /\ p > m + 1
        BY <1>8, <1>14
      <4> QED BY <4>1
    <3> QED BY <1>10, <3>1
  <2>2. r[l].nodes[q].nth \in 1 .. n
    BY <1>9, <1>12, <2>1
  <2>3. CASE k = 1 /\ p = m + 1 /\ r[k].nodes[p] = e
    <3>1. r[k].nodes[p].nth = n + 1
      BY <1>9, <2>3
    <3> QED BY <2>2, <3>1
  <2>4. CASE p \in DOMAIN c[k].nodes /\ r[k].nodes[p] = c[k].nodes[p]
    <3>1. c[k].nodes[p].nth > c[l].nodes[q].nth
      BY <1>1, <1>14, <2>1, <2>4 DEF InOrder
    <3> QED BY <2>1, <2>4, <3>1
  <2> QED BY <1>10, <2>3, <2>4
<1>15. ASSUME NEW x \in 1 .. n + 1
       PROVE  \E k \in 1 .. d : \E p \in DOMAIN r[k].nodes : r[k].nodes[p].nth = x
  <2>1. CASE x = n + 1
    <3>1. m + 1 \in DOMAIN r[1].nodes /\ r[1].nodes[m + 1].nth = x
      BY <1>8, <1>9, <2>1
    <3> QED BY <1>1, <3>1
  <2>2. CASE x # n + 1
    <3>1. x \in 1 .. n
      BY <2>2
    <3>2. PICK k \in 1 .. d : \E p \in DOMAIN c[k].nodes : c[k].nodes[p].nth = x
      BY <1>1, <3>1 DEF InOrder
    <3> QED BY <1>11, <3>2
  <2> QED BY <2>1, <2>2
<1>16. InOrder(r, u, n + 1)
  BY <1>4, <1>13, <1>14, <1>15 DEF InOrder
<1> QED BY <1>16 DEF r, e

\* An empty chunk in front changes nothing.
LEMMA InOrderCons ==
  ASSUME NEW u, NEW n \in Nat, NEW c \in Seq(Chunk), NEW k, InOrder(c, u, n)
  PROVE  InOrder(<<[size |-> k, nodes |-> <<>>]>> \o c, u, n)
<1> DEFINE h == [size |-> k, nodes |-> <<>>]
           r == <<h>> \o c
<1>1. PICK d \in Nat : d = Len(c) /\ DOMAIN c = 1 .. d
  OBVIOUS
<1>2. DOMAIN r = 1 .. d + 1 /\ r[1] = h /\ \A l \in 1 .. d : r[l + 1] = c[l]
  BY <1>1
<1>3. h.nodes = <<>> /\ DOMAIN h.nodes = {}
  OBVIOUS
<1> HIDE DEF r, h
<1>4. \A l \in 1 .. d + 1 : \A p \in DOMAIN r[l].nodes :
        l - 1 \in 1 .. d /\ r[l] = c[l - 1]
  <2> SUFFICES ASSUME NEW l \in 1 .. d + 1, NEW p \in DOMAIN r[l].nodes
               PROVE  l - 1 \in 1 .. d /\ r[l] = c[l - 1]
    OBVIOUS
  <2>1. l # 1
    BY <1>2, <1>3
  <2>2. l - 1 \in 1 .. d /\ (l - 1) + 1 = l
    BY <2>1
  <2>3. r[(l - 1) + 1] = c[l - 1]
    BY <1>2, <2>2
  <2> QED BY <2>2, <2>3
<1>5. ASSUME NEW l \in 1 .. d + 1, NEW p \in DOMAIN r[l].nodes
      PROVE  r[l].nodes[p] \in Entries(u, n)
  BY <1>1, <1>4 DEF InOrder
<1>6. ASSUME NEW j \in 1 .. d + 1, NEW l \in 1 .. d + 1,
             NEW p \in DOMAIN r[j].nodes, NEW q \in DOMAIN r[l].nodes,
             j < l \/ (j = l /\ p > q)
      PROVE  r[j].nodes[p].nth > r[l].nodes[q].nth
  <2>1. PICK x \in 1 .. d, y \in 1 .. d : x = j - 1 /\ y = l - 1 /\ r[j] = c[x] /\ r[l] = c[y]
    BY <1>4
  <2>2. x < y \/ (x = y /\ p > q)
    BY <1>6, <2>1
  <2> QED BY <1>1, <2>1, <2>2 DEF InOrder
<1>7. ASSUME NEW x \in 1 .. n
      PROVE  \E l \in 1 .. d + 1 : \E p \in DOMAIN r[l].nodes : r[l].nodes[p].nth = x
  <2>1. PICK l \in 1 .. d : \E p \in DOMAIN c[l].nodes : c[l].nodes[p].nth = x
    BY <1>1 DEF InOrder
  <2>2. l + 1 \in 1 .. d + 1 /\ r[l + 1] = c[l]
    BY <1>2
  <2> QED BY <2>1, <2>2
<1>8. InOrder(r, u, n)
  BY <1>2, <1>5, <1>6, <1>7 DEF InOrder
<1> QED BY <1>8 DEF r, h

LEMMA InOrderNone == \A u : InOrder(<<>>, u, 0)
  BY DEF InOrder

-----------------------------------------------------------------------------
LEMMA LogKept ==
  ASSUME NEW c \in Arena, LogOf(c), InUse(c)' <=> InUse(c), InfosIn(c)' = InfosIn(c),
         registered'[c] = registered[c],
         InUse(c) => \A i \in InfosIn(c) : owner'[i] = owner[i] /\ cleanup'[i] = cleanup[i]
  PROVE  LogOf(c)'
<1>1. ASSUME InUse(c)', NEW i \in InfosIn(c)'
      PROVE  InOrder(cleanup'[i], owner'[i], registered'[c][owner'[i]])
  <2>1. InUse(c) /\ i \in InfosIn(c)
    BY <1>1
  <2>2. InOrder(cleanup[i], owner[i], registered[c][owner[i]])
    BY <2>1 DEF LogOf
  <2> QED BY <2>1, <2>2
<1>2. ASSUME NEW u \in Thread, registered'[c][u] # 0
      PROVE  InUse(c)' /\ \E i \in InfosIn(c)' : owner'[i] = u
  <2>1. InUse(c) /\ \E i \in InfosIn(c) : owner[i] = u
    BY <1>2 DEF LogOf
  <2> QED BY <2>1
<1> QED BY <1>1, <1>2 DEF LogOf

LEMMA LogsSame ==
  ASSUME Logs, UNCHANGED <<owner, cleanup, registered>>,
         \A c \in Arena : (InUse(c)' <=> InUse(c)) /\ InfosIn(c)' = InfosIn(c)
  PROVE  Logs'
<1>1. ASSUME NEW c \in Arena PROVE LogOf(c)'
  BY LogKept DEF Logs
<1> QED BY <1>1 DEF Logs

LEMMA LogsOfQuiet ==
  ASSUME IInv, Logs, NEW t \in Thread,
         \/ NewThread(t)
         \/ \E a \in Arena : TearDown(t, a)
                             \/ \E n \in Bytes, c \in BOOLEAN : Allocate(t, a, n, c)
         \/ CheckCache(t) \/ CheckHint(t) \/ FindThreadInfo(t) \/ LoadThreads(t)
  PROVE  Logs'
<1>1. UNCHANGED <<cleanup, registered>>
  <2>1. CASE NewThread(t)
    BY <2>1 DEF NewThread, infos, history
  <2>2. ASSUME NEW a \in Arena, TearDown(t, a) \/ \E n \in Bytes, c \in BOOLEAN : Allocate(t, a, n, c)
        PROVE  UNCHANGED <<cleanup, registered>>
    BY <2>2 DEF TearDown, Allocate, infos, history
  <2>3. CASE CheckCache(t) \/ CheckHint(t) \/ FindThreadInfo(t) \/ LoadThreads(t)
    BY <2>3 DEF CheckCache, CheckHint, FindThreadInfo, LoadThreads, infos, history
  <2> QED BY <2>1, <2>2, <2>3
<1> QED BY <1>1, QuietKeeps, LogsSame

LEMMA LogsOfPush ==
  ASSUME IInv, Logs, NEW t \in Thread, PushThreadInfo(t)
  PROVE  Logs'
<1>1. UNCHANGED <<owner, cleanup, registered>>
  BY DEF PushThreadInfo, blocks, infos, history
<1> QED BY <1>1, PushKeeps, LogsSame

\* A thread registers a destructor with its ThreadInfo.
LEMMA LogsOfRegister ==
  ASSUME IInv, Chains, Logs, NEW t \in Thread, pc[t] = "have",
         NEW chunks \in Seq(Chunk), chunks # <<>>,
         InOrder(chunks, t, registered[call[t].arena][t]),
         Registers(t, chunks), UNCHANGED owner,
         \A c \in Arena : (InUse(c)' <=> InUse(c)) /\ InfosIn(c)' = InfosIn(c)
  PROVE  Logs'
<1>1. /\ cleanup \in [Address -> Seq(Chunk)] /\ registered \in [Arena -> [Thread -> Nat]]
      /\ InHand(t) /\ InfosSound /\ CallsOnLive
  BY DEF IInv, Types, Memory
<1>2. PICK a \in Arena : a = call[t].arena /\ InUse(a)
  BY HandTyped
<1>3. PICK i \in ToSet(threads[a]) : mine[t] \in ToSet(head[i])
  BY <1>1, <1>2 DEF InHand, Held
<1>4. i \in InfosIn(a) /\ owner[i] = t /\ i = threadInfo[mine[t]] /\ i \in Address
  <2>1. i \in InfosIn(a)
    BY <1>3, InfoIn
  <2>2. owner[mine[t]] = t
    BY <1>1 DEF InHand
  <2> QED BY <1>2, <1>3, <2>1, <2>2, InfoFacts
<1>5. PICK n \in Nat : n = registered[a][t]
  BY <1>1
<1> DEFINE r == [chunks EXCEPT ![1].nodes = Append(@, [by |-> t, nth |-> n + 1])]
<1>6. InOrder(r, t, n + 1)
  BY <1>2, <1>5, InOrderAppend
<1>7. /\ cleanup' = [cleanup EXCEPT ![i] = r]
      /\ registered' = [registered EXCEPT ![a][t] = n + 1]
  BY <1>2, <1>4, <1>5 DEF Registers
<1> HIDE DEF r
<1>8. cleanup'[i] = r /\ \A j \in Address : j # i => cleanup'[j] = cleanup[j]
  BY <1>1, <1>4, <1>7
<1>9. /\ registered'[a][t] = n + 1
      /\ \A u \in Thread : u # t => registered'[a][u] = registered[a][u]
      /\ \A c \in Arena : c # a => registered'[c] = registered[c]
  BY <1>1, <1>7
<1>10. LogOf(a)'
  <2>1. ASSUME NEW j \in InfosIn(a)
        PROVE  InOrder(cleanup'[j], owner'[j], registered'[a][owner'[j]])
    <3>1. j \in Address /\ owner[j] \in Thread
      BY <1>2, InfoFacts
    <3>2. CASE j = i
      BY <1>4, <1>6, <1>8, <1>9, <3>2
    <3>3. CASE j # i
      <4>1. owner[j] # t
        BY <1>2, <1>4, <3>3 DEF Chains, Chain
      <4>2. InOrder(cleanup[j], owner[j], registered[a][owner[j]])
        BY <1>2 DEF Logs, LogOf
      <4> QED BY <1>8, <1>9, <3>1, <3>3, <4>1, <4>2
    <3> QED BY <3>2, <3>3
  <2>2. ASSUME NEW u \in Thread, registered'[a][u] # 0
        PROVE  InUse(a)' /\ \E j \in InfosIn(a)' : owner'[j] = u
    <3>1. CASE u = t
      BY <1>2, <1>4, <3>1
    <3>2. CASE u # t
      <4>1. \E j \in InfosIn(a) : owner[j] = u
        BY <1>9, <2>2, <3>2 DEF Logs, LogOf
      <4> QED BY <1>2, <4>1
    <3> QED BY <3>1, <3>2
  <2>3. \A j \in InfosIn(a)' : InOrder(cleanup'[j], owner'[j], registered'[a][owner'[j]])
    BY <2>1
  <2> QED BY <2>2, <2>3 DEF LogOf
<1>11. ASSUME NEW c \in Arena, c # a PROVE LogOf(c)'
  <2>1. ASSUME InUse(c), NEW j \in InfosIn(c) PROVE cleanup'[j] = cleanup[j]
    <3>1. j \in Address /\ j \in ToSet(head[j])
      BY <2>1, InfoFacts
    <3>2. j # i
      <4> SUFFICES ASSUME j = i PROVE FALSE
        OBVIOUS
      <4> QED BY <1>2, <1>4, <1>11, <2>1, <3>1, ChainsApart
    <3> QED BY <1>8, <3>1, <3>2
  <2>2. registered'[c] = registered[c]
    BY <1>9, <1>11
  <2> QED BY <2>1, <2>2, LogKept DEF Logs
<1> QED BY <1>10, <1>11 DEF Logs

LEMMA LogsOfUse ==
  ASSUME IInv, Chains, Logs, NEW t \in Thread, AllocateObject(t) \/ AllocateChunk(t)
  PROVE  Logs'
<1>1. \A c \in Arena : (InUse(c)' <=> InUse(c)) /\ InfosIn(c)' = InfosIn(c)
  BY QuietKeeps
<1>2. UNCHANGED owner
  BY DEF AllocateObject, AllocateChunk
<1>3. pc[t] = "have"
  BY DEF AllocateObject, AllocateChunk
<1>4. PICK i \in Address : i = threadInfo[mine[t]]
  BY <1>3, HandTyped
<1>5. PICK a \in Arena : a = call[t].arena /\ InUse(a)
  BY <1>3, HandTyped
<1>6. PICK n \in Nat : n = registered[a][t]
  BY DEF IInv, Types
<1>7. PICK c \in Seq(Chunk) : c = cleanup[i]
  BY DEF IInv, Types
<1>8. InOrder(c, t, n)
  <2>1. InHand(t)
    BY DEF IInv
  <2>2. PICK j \in ToSet(threads[a]) : mine[t] \in ToSet(head[j])
    BY <1>3, <1>5, <2>1 DEF InHand, Held
  <2>3. j \in InfosIn(a)
    BY <2>2, InfoIn
  <2>4. owner[mine[t]] = t
    BY <1>3, <2>1 DEF InHand
  <2>5. j = i /\ owner[i] = t
    BY <1>4, <1>5, <2>2, <2>3, <2>4, InfoFacts
  <2> QED BY <1>5, <1>6, <1>7, <2>3, <2>5 DEF Logs, LogOf
<1>9. CASE UNCHANGED <<cleanup, registered>>
  BY <1>1, <1>2, <1>9, LogsSame
<1>10. CASE ~Full(i) /\ Registers(t, cleanup[i])
  <2>1. c # <<>>
    BY <1>7, <1>10 DEF Full
  <2>2. Registers(t, c) /\ InOrder(c, t, registered[call[t].arena][t])
    BY <1>5, <1>6, <1>7, <1>8, <1>10
  <2> QED BY <1>1, <1>2, <1>3, <2>1, <2>2, LogsOfRegister
<1>11. CASE Registers(t, NewList(i))
  <2> DEFINE r == <<[size |-> NextChunk(i), nodes |-> <<>>]>> \o c
  <2>1. InOrder(r, t, n)
    BY <1>8, InOrderCons
  <2>2. r = NewList(i)
    BY <1>7 DEF NewList
  <2>3. r \in Seq(Chunk) /\ r # <<>>
    <3>1. [size |-> NextChunk(i), nodes |-> <<>>] \in Chunk
      <4>1. cleanup \in [Address -> Seq(Chunk)]
        BY DEF IInv, Types
      <4>2. NextChunk(i) \in Nat \ {0}
        BY <4>1, NextChunkType
      <4> QED BY <4>2 DEF Chunk
    <3> QED BY <3>1
  <2> HIDE DEF r
  <2>4. Registers(t, r) /\ InOrder(r, t, registered[call[t].arena][t])
    BY <1>5, <1>6, <1>11, <2>1, <2>2
  <2> QED BY <1>1, <1>2, <1>3, <2>3, <2>4, LogsOfRegister
<1>12. CASE AllocateObject(t)
  BY <1>4, <1>9, <1>10, <1>12 DEF AllocateObject
<1>13. CASE AllocateChunk(t)
  BY <1>4, <1>11, <1>13 DEF AllocateChunk
<1> QED BY <1>12, <1>13

LEMMA LogsOfNewThreadInfo ==
  ASSUME IInv, Logs, NEW t \in Thread, NEW b \in Block, NewThreadInfo(t, b)
  PROVE  Logs'
<1>1. /\ owner \in [Address -> Thread \cup {NoThread}] /\ cleanup \in [Address -> Seq(Chunk)]
      /\ registered \in [Arena -> [Thread -> Nat]] /\ b \in Address
  BY DEF IInv, TypeOK, Types, Address
<1>2. /\ owner' = [owner EXCEPT ![b] = t] /\ owner[b] = NoThread
      /\ cleanup' = [cleanup EXCEPT ![b] = <<>>]
      /\ registered' = registered /\ InfosOf(t) = {} /\ pc[t] = "slow"
  BY DEF NewThreadInfo, NewBlock, Goto, history
<1>3. PICK a \in Arena : a = call[t].arena /\ InUse(a)
  BY NewThreadInfoKeeps
<1>4. \A c \in Arena : InUse(c)' <=> InUse(c)
  BY NewThreadInfoKeeps
<1>5. InfosIn(a)' = InfosIn(a) \cup {b}
  BY <1>3, NewThreadInfoKeeps
<1>6. \A c \in Arena : c # a => InfosIn(c)' = InfosIn(c)
  BY <1>3, NewThreadInfoKeeps
<1>7. \A c \in Arena : InUse(c) =>
        \A i \in InfosIn(c) : owner'[i] = owner[i] /\ cleanup'[i] = cleanup[i]
  <2>1. \A c \in Arena : InUse(c) => \A i \in InfosIn(c) : i # b /\ i \in Address
    BY <1>2, FreeIsApart, InfoFacts
  <2> QED BY <1>1, <1>2, <2>1
<1>8. ASSUME NEW i \in InfosIn(a) PROVE owner[i] # t
  <2>1. CASE i \in ToSet(threads[a])
    BY <1>2, <1>3, <2>1 DEF InfosOf
  <2>2. ASSUME NEW u \in Thread, Unpushed(i, u) PROVE owner[i] # t
    BY <1>2, <2>2 DEF Unpushed
  <2> QED BY <1>3, <2>1, <2>2, InfoKind
<1>9. registered[a][t] = 0
  BY <1>8 DEF Logs, LogOf
<1>10. LogOf(a)'
  <2>1. ASSUME NEW i \in InfosIn(a)'
        PROVE  InOrder(cleanup'[i], owner'[i], registered'[a][owner'[i]])
    <3>1. CASE i = b
      <4>1. cleanup'[b] = <<>> /\ owner'[b] = t
        BY <1>1, <1>2
      <4> QED BY <1>2, <1>9, <3>1, <4>1, InOrderNone
    <3>2. CASE i \in InfosIn(a)
      <4>1. InOrder(cleanup[i], owner[i], registered[a][owner[i]])
        BY <1>3, <3>2 DEF Logs, LogOf
      <4> QED BY <1>2, <1>3, <1>7, <3>2, <4>1
    <3> QED BY <1>5, <2>1, <3>1, <3>2
  <2>2. ASSUME NEW u \in Thread, registered'[a][u] # 0
        PROVE  InUse(a)' /\ \E i \in InfosIn(a)' : owner'[i] = u
    <3>1. PICK i \in InfosIn(a) : owner[i] = u
      BY <1>2, <2>2 DEF Logs, LogOf
    <3>2. owner'[i] = u /\ i \in InfosIn(a)'
      BY <1>3, <1>5, <1>7, <3>1
    <3> QED BY <1>3, <1>4, <3>2
  <2> QED BY <2>1, <2>2 DEF LogOf
<1>11. ASSUME NEW c \in Arena, c # a PROVE LogOf(c)'
  BY <1>2, <1>4, <1>6, <1>7, <1>11, LogKept DEF Logs
<1> QED BY <1>10, <1>11 DEF Logs

LEMMA LogsOfGetBlockSlow ==
  ASSUME IInv, Logs, NEW t \in Thread, NEW b \in Address, GetBlockSlow(t, b)
  PROVE  Logs'
<1>1. /\ pc \in [Thread -> Location] /\ mine \in [Thread -> Address \cup {NoBlock}]
      /\ owner \in [Address -> Thread \cup {NoThread}]
  BY DEF IInv, TypeOK, Types
<1>2. /\ pc[t] = "head" /\ pc' = [pc EXCEPT ![t] = "have"] /\ mine' = [mine EXCEPT ![t] = b]
      /\ UNCHANGED <<lifecycleId, threads, call, cleanup, registered>>
  BY DEF GetBlockSlow, Goto, history
<1>3. \A c \in Arena : InUse(c)' <=> InUse(c)
  BY <1>1, <1>2, InUseSame
<1>4. ASSUME NEW c \in Arena PROVE InfosIn(c)' = InfosIn(c)
  BY <1>1, <1>2, InfosSame
<1>5. CASE UNCHANGED owner
  BY <1>2, <1>3, <1>4, <1>5, LogsSame
<1>6. CASE owner[b] = NoThread /\ owner' = [owner EXCEPT ![b] = t]
  <2>1. \A c \in Arena : InUse(c) => \A i \in InfosIn(c) : i # b /\ i \in Address
    BY <1>6, FreeIsApart, InfoFacts
  <2>2. \A c \in Arena : InUse(c) => \A i \in InfosIn(c) : owner'[i] = owner[i]
    BY <1>1, <1>6, <2>1
  <2>3. ASSUME NEW c \in Arena PROVE LogOf(c)'
    BY <1>2, <1>3, <1>4, <2>2, LogKept DEF Logs
  <2> QED BY <2>3 DEF Logs
<1>7. UNCHANGED owner \/ (owner[b] = NoThread /\ owner' = [owner EXCEPT ![b] = t])
  BY DEF GetBlockSlow, NewBlock, blocks
<1> QED BY <1>5, <1>6, <1>7

LEMMA LogsOfInit ==
  ASSUME IInv, Logs, NEW t \in Thread, NEW a \in Arena, InitArena(t, a),
         ~InUse(a), InUse(a)', registered' = registered,
         \A c \in Arena \ {a} : InUse(c)' <=> InUse(c),
         pc[t] \notin {"load", "push"}, pc'[t] = "out",
         \A u \in Thread \ {t} : /\ pc'[u] = pc[u] /\ call'[u] = call[u]
                                 /\ mine'[u] = mine[u]
  PROVE  Logs'
<1> DEFINE b == initialBlock[a]
<1>1. /\ cleanup \in [Address -> Seq(Chunk)] /\ owner \in [Address -> Thread \cup {NoThread}]
      /\ threads \in [Arena -> Seq(Address)] /\ registered \in [Arena -> [Thread -> Nat]]
      /\ CallsOnLive
  BY DEF IInv, TypeOK, Types
<1>2. threads' = [threads EXCEPT ![a] = IF b = NoBlock THEN <<>> ELSE <<b>>]
  BY DEF InitArena
<1>3. /\ b # NoBlock => b \in Address /\ b \notin Block
      /\ \A c \in Arena \ {a} : b # NoBlock => initialBlock[c] # b
      /\ NoBlock \notin Address
  BY BlockAssumption DEF Initial, Address
<1>4. b # NoBlock => owner'[b] = t /\ cleanup'[b] = <<>>
  BY <1>1, <1>3 DEF InitArena
<1>5. \A x \in Address : x # b => owner'[x] = owner[x] /\ cleanup'[x] = cleanup[x]
  <2>1. CASE b = NoBlock
    BY <2>1 DEF InitArena, blocks, infos
  <2>2. CASE b # NoBlock
    BY <1>1, <2>2 DEF InitArena
  <2> QED BY <2>1, <2>2
<1>6. \A u \in Thread : pc[u] \in {"load", "push"} => call[u].arena # a
  BY <1>1, UserInUse DEF Working
<1>7. \A i : i \in InfosIn(a)' <=> b # NoBlock /\ i = b
  <2>1. \A i : i \in InfosIn(a)' <=>
               \/ i \in ToSet(threads'[a])
               \/ \E u \in Thread : /\ pc'[u] \in {"load", "push"}
                                    /\ call'[u].arena = a /\ mine'[u] = i
    BY DEF InfosIn, Pending, Users
  <2>2. \A u \in Thread : ~(pc'[u] \in {"load", "push"} /\ call'[u].arena = a)
    BY <1>6
  <2>3. ToSet(threads'[a]) = IF b = NoBlock THEN {} ELSE {b}
    BY <1>1, <1>2, ToSetOfOne, ToSetOfNone
  <2> QED BY <2>1, <2>2, <2>3
<1>8. \A u \in Thread : registered'[a][u] = 0
  BY DEF Logs, LogOf
<1>9. LogOf(a)'
  <2>1. \A i \in InfosIn(a)' : InOrder(cleanup'[i], owner'[i], registered'[a][owner'[i]])
    BY <1>4, <1>7, <1>8, InOrderNone
  <2> QED BY <1>8, <2>1 DEF LogOf
<1>10. ASSUME NEW c \in Arena, c # a PROVE LogOf(c)'
  <2>1. threads'[c] = threads[c]
    BY <1>1, <1>2, <1>10
  <2>2. InfosIn(c)' = InfosIn(c)
    BY <1>10, <2>1, InfosSame
  <2>3. InUse(c) => \A i \in InfosIn(c) : owner'[i] = owner[i] /\ cleanup'[i] = cleanup[i]
    <3> SUFFICES ASSUME InUse(c), NEW i \in InfosIn(c)
                 PROVE  owner'[i] = owner[i] /\ cleanup'[i] = cleanup[i]
      OBVIOUS
    <3>1. i \in Address /\ i \in ToSet(head[i]) /\ (i \in Block \/ i = initialBlock[c])
      BY InfoFacts
    <3>2. i # b
      BY <1>3, <1>10, <3>1
    <3> QED BY <1>5, <3>1, <3>2
  <2> QED BY <1>10, <2>2, <2>3, LogKept DEF Logs
<1> QED BY <1>9, <1>10 DEF Logs

LEMMA LogsOfConstruct ==
  ASSUME IInv, Logs, NEW t \in Thread, NEW a \in Arena, Construct(t, a)
  PROVE  Logs'
<1>1. InitArena(t, a) /\ registered' = registered
  BY DEF Construct, history
<1>2. /\ ~InUse(a) /\ InUse(a)'
      /\ \A c \in Arena \ {a} : InUse(c)' <=> InUse(c)
      /\ pc[t] \notin {"load", "push"} /\ pc'[t] = "out"
      /\ \A u \in Thread \ {t} : pc'[u] = pc[u] /\ call'[u] = call[u] /\ mine'[u] = mine[u]
  BY ConstructKeeps
<1> QED BY <1>1, <1>2, LogsOfInit

LEMMA LogsOfRestart ==
  ASSUME IInv, Logs, NEW t \in Thread, Restart(t)
  PROVE  Logs'
<1>1. registered' = registered
  BY DEF Restart, history
<1>2. PICK a \in Arena :
        /\ InitArena(t, a) /\ ~InUse(a) /\ InUse(a)'
        /\ \A c \in Arena \ {a} : InUse(c)' <=> InUse(c)
        /\ pc[t] \notin {"load", "push"} /\ pc'[t] = "out"
        /\ \A u \in Thread \ {t} : pc'[u] = pc[u] /\ call'[u] = call[u] /\ mine'[u] = mine[u]
  BY RestartKeeps
<1> QED BY <1>1, <1>2, LogsOfInit

LEMMA LogsOfFree ==
  ASSUME IInv, Logs, NEW t \in Thread, FreeBlocks(t)
  PROVE  Logs'
<1>1. /\ pc \in [Thread -> Location] /\ lifecycleId \in [Arena -> Nat \cup {Dead}]
      /\ threads \in [Arena -> Seq(Address)] /\ owner \in [Address -> Thread \cup {NoThread}]
      /\ call \in [Thread -> {NoCall} \cup [arena : Arena] \cup Request]
      /\ registered \in [Arena -> [Thread -> Nat]]
      /\ CallsOnLive /\ InfosApart /\ InfosSound
  BY DEF IInv, TypeOK, Types, Memory
<1>2. pc[t] = "free"
  BY DEF FreeBlocks, Goto
<1>3. PICK a \in Arena :
        /\ a = call[t].arena /\ Live(a)
        /\ \A u \in Thread \ {t} : pc[u] # "out" => call[u].arena # a
  BY <1>1, <1>2 DEF CallsOnLive, Tearing
<1>4. /\ pc'[t] \in {"init", "out"}
      /\ \A u \in Thread \ {t} : pc'[u] = pc[u] /\ call'[u] = call[u] /\ mine'[u] = mine[u]
      /\ owner' = [x \in Address |-> IF x \in Reached(a) THEN NoThread ELSE owner[x]]
      /\ head' = head /\ cleanup' = cleanup
      /\ registered' = [registered EXCEPT ![a] = [u \in Thread |-> 0]]
  BY <1>1, <1>3 DEF FreeBlocks, Goto, infos
<1>5. InUse(a) /\ ~InUse(a)'
  <2>1. \/ pc'[t] = "init" /\ call'[t] = call[t]
        \/ lifecycleId'[a] = Dead
    BY <1>1, <1>3, <1>4 DEF FreeBlocks, Goto
  <2> QED BY <1>2, <1>3, <1>4, <2>1 DEF InUse, Live, Users
<1>6. \A c \in Arena \ {a} : threads'[c] = threads[c] /\ lifecycleId'[c] = lifecycleId[c]
  BY <1>1, <1>3 DEF FreeBlocks, arenas
<1>7. \A c \in Arena \ {a} : InUse(c)' <=> InUse(c)
  <2>1. pc'[t] = "init" => call'[t].arena = a
    BY <1>1, <1>3 DEF FreeBlocks, Goto
  <2> QED BY <1>2, <1>3, <1>4, <1>6, <2>1 DEF InUse, Live, Users
<1>8. ASSUME NEW c \in Arena \ {a} PROVE InfosIn(c)' = InfosIn(c)
  BY <1>2, <1>4, <1>6, InfosSame
<1>9. ASSUME NEW c \in Arena \ {a}, InUse(c), NEW i \in InfosIn(c)
      PROVE  owner'[i] = owner[i]
  <2>1. i \in Address /\ threadInfo[i] = i
    BY <1>9, InfoFacts
  <2>2. i \notin ToSet(threads[a])
    <3>1. CASE i \in ToSet(threads[c])
      BY <1>1, <1>5, <1>9, <3>1 DEF InfosApart
    <3>2. ASSUME NEW u \in Thread, Unpushed(i, u) PROVE i \notin ToSet(threads[a])
      BY <1>5, <3>2 DEF Unpushed
    <3> QED BY <1>9, <3>1, <3>2, InfoKind
  <2>3. i \notin Reached(a)
    BY <1>1, <1>5, <2>1, <2>2 DEF Reached, InfosSound
  <2> QED BY <1>4, <2>1, <2>3
<1>10. LogOf(a)'
  <2>1. \A u \in Thread : registered'[a][u] = 0
    BY <1>1, <1>4
  <2> QED BY <1>5, <2>1 DEF LogOf
<1>11. ASSUME NEW c \in Arena, c # a PROVE LogOf(c)'
  <2>1. registered'[c] = registered[c]
    BY <1>1, <1>4, <1>11
  <2> QED BY <1>4, <1>7, <1>8, <1>9, <1>11, <2>1, LogKept DEF Logs
<1> QED BY <1>10, <1>11 DEF Logs

LEMMA InitLogs == Init => Logs
<1> SUFFICES ASSUME Init PROVE Logs
  OBVIOUS
<1>1. \A a \in Arena : ~InUse(a)
  BY DEF Init, InUse, Live
<1>2. registered = [a \in Arena |-> [t \in Thread |-> 0]]
  BY DEF Init
<1> QED BY <1>1, <1>2 DEF Logs, LogOf

LEMMA NextLogs == IInv /\ Chains /\ Logs /\ [Next]_vars => Logs'
<1> SUFFICES ASSUME IInv, Chains, Logs, [Next]_vars PROVE Logs'
  OBVIOUS
<1>1. ASSUME NEW t \in Thread, Begin(t) PROVE Logs'
  BY <1>1, LogsOfQuiet, LogsOfConstruct DEF Begin
<1>2. ASSUME NEW t \in Thread, Step(t) PROVE Logs'
  BY <1>2, LogsOfQuiet, LogsOfUse, LogsOfNewThreadInfo, LogsOfPush,
     LogsOfGetBlockSlow, LogsOfFree, LogsOfRestart DEF Step
<1>3. CASE UNCHANGED vars
  <2>1. /\ UNCHANGED <<lifecycleId, threads, pc, call, mine>>
        /\ UNCHANGED <<owner, cleanup, registered>>
    BY <1>3 DEF vars, arenas, blocks, infos, locals, history
  <2>2. \A c \in Arena : InUse(c)' <=> InUse(c)
    BY <2>1 DEF InUse, Live, Users
  <2>3. \A c \in Arena : InfosIn(c)' = InfosIn(c)
    BY <2>1, InfosSame
  <2> QED BY <2>1, <2>2, <2>3, LogsSame
<1> QED BY <1>1, <1>2, <1>3 DEF Next

-----------------------------------------------------------------------------
\* CleanupList, when nobody is using the arena.
LEMMA TornDown ==
  ASSUME IInv, Chains, Logs, NEW a \in Arena, InUse(a), Users(a) = {}
  PROVE  \E f \in Seq(Node) :
           /\ f = FlattenSeq([k \in DOMAIN threads[a] |-> CleanupOrder(threads[a][k])])
           /\ RanAll(f, registered[a])
<1>1. PICK h \in Seq(Address) : h = threads[a]
  BY DEF IInv, Types
<1>2. PICK d \in Nat : d = Len(h) /\ DOMAIN h = 1 .. d
  OBVIOUS
<1>3. PICK n \in [Thread -> Nat] : n = registered[a]
  BY DEF IInv, Types
<1> DEFINE ss == [k \in DOMAIN h |-> CleanupOrder(h[k])]
<1>4. InfosIn(a) = ToSet(h)
  <2>1. \A u \in Thread : ~(pc[u] \in {"load", "push"} /\ call[u].arena = a)
    BY DEF Users
  <2>2. \A i : i \in InfosIn(a) <=> i \in ToSet(h)
    BY <1>1, <2>1, InfoIn
  <2> QED BY <2>2
<1>5. \A k \in 1 .. d : h[k] \in InfosIn(a)
  BY <1>2, <1>4 DEF ToSet
<1>6. ASSUME NEW k \in 1 .. d
      PROVE  /\ owner[h[k]] \in Thread /\ ss[k] \in Seq(Node)
             /\ ToSet(ss[k]) = Entries(owner[h[k]], n[owner[h[k]]])
             /\ \A p, q \in DOMAIN ss[k] : p < q => ss[k][p].nth > ss[k][q].nth
  <2>1. PICK i \in InfosIn(a) : i = h[k]
    BY <1>5
  <2>2. i \in Address /\ owner[i] \in Thread
    BY InfoFacts
  <2>3. cleanup[i] \in Seq(Chunk)
    BY <2>2 DEF IInv, Types
  <2>4. InOrder(cleanup[i], owner[i], n[owner[i]])
    BY <1>3 DEF Logs, LogOf
  <2>5. n[owner[i]] \in Nat
    BY <2>2
  <2>6. /\ CleanupOrder(i) \in Seq(Node)
        /\ ToSet(CleanupOrder(i)) = Entries(owner[i], n[owner[i]])
        /\ \A p, q \in DOMAIN CleanupOrder(i) :
             p < q => CleanupOrder(i)[p].nth > CleanupOrder(i)[q].nth
    BY <2>2, <2>3, <2>4, <2>5, CleanupOrderIs
  <2>7. ss[k] = CleanupOrder(i)
    BY <1>2, <2>1
  <2> HIDE DEF ss
  <2> QED BY <2>1, <2>2, <2>6, <2>7
<1>7. ss = [k \in 1 .. d |-> ss[k]] /\ DOMAIN ss = 1 .. d
  BY <1>2
<1> HIDE DEF ss
<1>8. ss \in Seq(Seq(Node)) /\ Len(ss) = d
  <2>1. \A k \in 1 .. d : ss[k] \in Seq(Node)
    BY <1>6
  <2> QED BY <1>7, <2>1
<1>9. PICK f \in Seq(Node) : f = FlattenSeq(ss) /\ Joins(f, ss, d)
  BY <1>8, FlattenJoins
<1>10. ToSet(f) = UNION {[by : {u}, nth : 1 .. n[u]] : u \in Thread}
  <2>1. ASSUME NEW e \in ToSet(f) PROVE \E u \in Thread : e \in Entries(u, n[u])
    <3>1. PICK j \in DOMAIN f : e = f[j]
      BY <2>1 DEF ToSet
    <3>2. PICK k \in 1 .. d : e \in ToSet(ss[k])
      BY <1>9, <3>1 DEF Joins
    <3> QED BY <1>6, <3>2
  <2>2. ASSUME NEW u \in Thread, NEW e \in Entries(u, n[u]) PROVE e \in ToSet(f)
    <3>1. n[u] # 0
      BY <2>2 DEF Entries
    <3>2. PICK i \in InfosIn(a) : owner[i] = u
      BY <1>3, <3>1 DEF Logs, LogOf
    <3>3. PICK k \in 1 .. d : h[k] = i
      BY <1>2, <1>4, <3>2 DEF ToSet
    <3>4. e \in ToSet(ss[k])
      BY <1>6, <3>2, <3>3
    <3> QED BY <1>9, <3>4 DEF Joins
  <2> QED BY <2>1, <2>2 DEF Entries
<1>11. ASSUME NEW j \in DOMAIN f, NEW k \in DOMAIN f, j < k, f[j].by = f[k].by
       PROVE  f[j].nth > f[k].nth
  <2>1. InLine(ss, f[j], f[k])
    BY <1>9, <1>11 DEF Joins
  <2>2. CASE \E x, y \in DOMAIN ss : x < y /\ f[j] \in ToSet(ss[x]) /\ f[k] \in ToSet(ss[y])
    <3>1. PICK x \in 1 .. d, y \in 1 .. d : x < y /\ f[j] \in ToSet(ss[x]) /\ f[k] \in ToSet(ss[y])
      BY <1>7, <2>2
    <3>2. f[j] \in Entries(owner[h[x]], n[owner[h[x]]]) /\ f[k] \in Entries(owner[h[y]], n[owner[h[y]]])
      BY <1>6, <3>1
    <3>3. owner[h[x]] = owner[h[y]]
      BY <1>11, <3>2 DEF Entries
    <3>4. h[x] = h[y]
      BY <1>5, <3>3 DEF Chains, Chain
    <3>5. x = y
      BY <1>1, <1>2, <3>4 DEF Chains, Chain, IsInjective
    <3> QED BY <3>1, <3>5
  <2>3. CASE \E x \in DOMAIN ss : \E p, q \in DOMAIN ss[x] :
               p < q /\ f[j] = ss[x][p] /\ f[k] = ss[x][q]
    BY <1>6, <1>7, <2>3
  <2> QED BY <2>1, <2>2, <2>3 DEF InLine
<1>12. RanAll(f, n)
  BY <1>10, <1>11 DEF RanAll
<1>13. ss = [k \in DOMAIN threads[a] |-> CleanupOrder(threads[a][k])]
  BY <1>1 DEF ss
<1> QED BY <1>3, <1>9, <1>12, <1>13

-----------------------------------------------------------------------------
\* What the arenas that are being torn down have run.
Ran ==
  /\ cleaned \in [Arena -> Seq(Node)]
  /\ \A t \in Thread : pc[t] = "free" => RanAll(cleaned[call[t].arena], registered[call[t].arena])

LEMMA RanKept ==
  ASSUME Ran, cleaned' \in [Arena -> Seq(Node)],
         \A u \in Thread : pc'[u] = "free" =>
           /\ pc[u] = "free" /\ call'[u] = call[u]
           /\ cleaned'[call[u].arena] = cleaned[call[u].arena]
           /\ registered'[call[u].arena] = registered[call[u].arena]
  PROVE  Ran'
<1>1. ASSUME NEW u \in Thread, pc'[u] = "free"
      PROVE  RanAll(cleaned'[call'[u].arena], registered'[call'[u].arena])
  <2>1. PICK c : c = call[u].arena
    OBVIOUS
  <2>2. /\ RanAll(cleaned[c], registered[c]) /\ c = call'[u].arena
        /\ cleaned'[c] = cleaned[c] /\ registered'[c] = registered[c]
    BY <1>1, <2>1 DEF Ran
  <2> QED BY <2>2
<1> QED BY <1>1 DEF Ran

LEMMA RanOfBegin ==
  ASSUME IInv, Chains, Logs, Ran, NEW t \in Thread, Begin(t)
  PROVE  Ran'
<1>1. /\ pc \in [Thread -> Location] /\ cleaned \in [Arena -> Seq(Node)]
      /\ call \in [Thread -> {NoCall} \cup [arena : Arena] \cup Request]
      /\ CallsOnLive
  BY DEF IInv, TypeOK, Types, Ran
<1>2. CASE NewThread(t)
  BY <1>1, <1>2, RanKept DEF NewThread, history
<1>3. ASSUME NEW a \in Arena, Construct(t, a) PROVE Ran'
  BY <1>1, <1>3, RanKept DEF Construct, history
<1>4. ASSUME NEW a \in Arena, NEW n \in Bytes, NEW c \in BOOLEAN, Allocate(t, a, n, c)
      PROVE  Ran'
  <2>1. /\ pc' = [pc EXCEPT ![t] = "cache"] /\ UNCHANGED <<registered, cleaned>>
        /\ \A u \in Thread : u # t => call'[u] = call[u]
    BY <1>4 DEF Allocate, Goto, history
  <2> QED BY <1>1, <2>1, RanKept
<1>5. ASSUME NEW a \in Arena, TearDown(t, a) PROVE Ran'
  <2>1. /\ pc' = [pc EXCEPT ![t] = "free"] /\ pc[t] = "out"
        /\ call' = [call EXCEPT ![t] = [arena |-> a]] /\ registered' = registered
        /\ Live(a) /\ Users(a) = {}
    BY <1>5 DEF TearDown, Goto
  <2>2. InUse(a)
    BY <2>1 DEF InUse, Users
  <2>3. PICK f \in Seq(Node) :
          /\ f = FlattenSeq([k \in DOMAIN threads[a] |-> CleanupOrder(threads[a][k])])
          /\ RanAll(f, registered[a])
    BY <2>1, <2>2, TornDown
  <2>4. cleaned' = [cleaned EXCEPT ![a] = f]
    BY <1>5, <2>3 DEF TearDown
  <2>5. cleaned' \in [Arena -> Seq(Node)]
    BY <1>1, <2>4
  <2>6. ASSUME NEW u \in Thread, pc'[u] = "free"
        PROVE  RanAll(cleaned'[call'[u].arena], registered'[call'[u].arena])
    <3>1. CASE u = t
      <4>1. call'[u].arena = a /\ cleaned'[a] = f
        BY <1>1, <2>1, <2>4, <3>1
      <4> QED BY <2>1, <2>3, <4>1
    <3>2. CASE u # t
      <4>1. pc[u] = "free" /\ call'[u] = call[u]
        BY <1>1, <2>1, <2>6, <3>2
      <4>2. PICK c \in Arena : c = call[u].arena
        BY <1>1, <4>1 DEF CallsOnLive, Tearing
      <4>3. c # a
        BY <2>1, <4>1, <4>2 DEF Users
      <4>4. cleaned'[c] = cleaned[c] /\ registered'[c] = registered[c]
        BY <1>1, <2>1, <2>4, <4>3
      <4>5. RanAll(cleaned[c], registered[c])
        BY <4>1, <4>2 DEF Ran
      <4> QED BY <4>1, <4>2, <4>4, <4>5
    <3> QED BY <3>1, <3>2
  <2> QED BY <2>5, <2>6 DEF Ran
<1> QED BY <1>2, <1>3, <1>4, <1>5 DEF Begin

LEMMA RanOfStep ==
  ASSUME IInv, Ran, NEW t \in Thread, Step(t)
  PROVE  Ran'
<1>1. /\ pc \in [Thread -> Location] /\ cleaned \in [Arena -> Seq(Node)]
      /\ registered \in [Arena -> [Thread -> Nat]]
      /\ call \in [Thread -> {NoCall} \cup [arena : Arena] \cup Request]
      /\ CallsOnLive
  BY DEF IInv, TypeOK, Types, Ran
<1>2. CASE FreeBlocks(t)
  <2>1. pc[t] = "free"
    BY <1>2 DEF FreeBlocks, Goto
  <2>2. PICK a \in Arena :
          /\ a = call[t].arena
          /\ \A u \in Thread \ {t} : pc[u] # "out" => call[u].arena # a
    BY <1>1, <2>1 DEF CallsOnLive, Tearing
  <2>3. /\ \E w \in {"init", "out"} : pc' = [pc EXCEPT ![t] = w]
        /\ \A u \in Thread : u # t => call'[u] = call[u]
        /\ registered' = [registered EXCEPT ![a] = [u \in Thread |-> 0]]
        /\ cleaned' = [cleaned EXCEPT ![a] = <<>>]
    BY <1>1, <1>2, <2>2 DEF FreeBlocks, Goto
  <2>4. cleaned' \in [Arena -> Seq(Node)]
    BY <1>1, <2>3
  <2>5. \A c : c # a => cleaned'[c] = cleaned[c] /\ registered'[c] = registered[c]
    BY <1>1, <2>3
  <2>6. \A u \in Thread : pc'[u] = "free" => u # t /\ pc[u] = "free" /\ call'[u] = call[u]
    BY <1>1, <2>3
  <2> QED BY <2>2, <2>4, <2>5, <2>6, RanKept
<1>3. CASE AllocateObject(t) \/ AllocateChunk(t)
  <2>1. pc[t] = "have" /\ UNCHANGED cleaned
    BY <1>3 DEF AllocateObject, AllocateChunk
  <2>2. PICK a \in Arena : a = call[t].arena
    BY <2>1, HandTyped
  <2>3. /\ \E w \in {"out", "cache", "have"} : pc' = [pc EXCEPT ![t] = w]
        /\ \A u \in Thread : u # t => call'[u] = call[u]
    <3>1. CASE AllocateObject(t)
      <4>1. \E w \in {"out", "cache", "have"} : pc' = [pc EXCEPT ![t] = w]
        BY <3>1 DEF AllocateObject, Finish, Goto
      <4>2. \/ call' = [call EXCEPT ![t] = NoCall]
            \/ call' = [call EXCEPT ![t].chunk = TRUE]
        BY <3>1 DEF AllocateObject, Finish
      <4> QED BY <1>1, <4>1, <4>2
    <3>2. CASE AllocateChunk(t)
      BY <1>1, <3>2 DEF AllocateChunk, Finish, Goto
    <3> QED BY <1>3, <3>1, <3>2
  <2>4. \A c \in Arena : c # a => registered'[c] = registered[c]
    <3>1. \/ registered' = registered
          \/ \E k : registered' = [registered EXCEPT ![a][t] = k]
      BY <1>3, <2>2 DEF AllocateObject, AllocateChunk, Registers
    <3> QED BY <1>1, <3>1
  <2>5. ASSUME NEW u \in Thread, pc'[u] = "free"
        PROVE  /\ pc[u] = "free" /\ call'[u] = call[u]
               /\ call[u].arena \in Arena /\ call[u].arena # a
    <3>1. u # t
      BY <1>1, <2>3, <2>5
    <3>2. pc[u] = "free" /\ call'[u] = call[u]
      BY <1>1, <2>3, <2>5, <3>1
    <3>3. /\ call[u].arena \in Arena
          /\ \A v \in Thread \ {u} : pc[v] # "out" => call[v].arena # call[u].arena
      BY <1>1, <3>2 DEF CallsOnLive, Tearing
    <3> QED BY <2>1, <2>2, <3>1, <3>2, <3>3
  <2> QED BY <1>1, <2>1, <2>4, <2>5, RanKept
<1>4. CASE Restart(t)
  <2>1. /\ pc' = [pc EXCEPT ![t] = "out"] /\ UNCHANGED <<registered, cleaned>>
        /\ \A u \in Thread : u # t => call'[u] = call[u]
    BY <1>1, <1>4 DEF Restart, Goto, history
  <2> QED BY <1>1, <2>1, RanKept
<1>5. CASE PushThreadInfo(t) \/ LoadThreads(t) \/ FindThreadInfo(t)
  <2>1. /\ UNCHANGED <<registered, cleaned, call>>
        /\ \E w \in {"head", "load", "push"} : pc' = [pc EXCEPT ![t] = w]
    BY <1>5 DEF PushThreadInfo, LoadThreads, FindThreadInfo, Goto, history
  <2> QED BY <1>1, <2>1, RanKept
<1>6. CASE CheckCache(t) \/ CheckHint(t)
  <2>1. /\ UNCHANGED <<registered, cleaned, call>>
        /\ \E w \in {"have", "hint", "slow"} : pc' = [pc EXCEPT ![t] = w]
    BY <1>6 DEF CheckCache, CheckHint, Goto, history
  <2> QED BY <1>1, <2>1, RanKept
<1>7. ASSUME NEW b, NewThreadInfo(t, b) \/ GetBlockSlow(t, b) PROVE Ran'
  <2>1. /\ UNCHANGED <<registered, cleaned, call>>
        /\ \E w \in {"have", "load"} : pc' = [pc EXCEPT ![t] = w]
    BY <1>7 DEF NewThreadInfo, GetBlockSlow, Goto, history
  <2> QED BY <1>1, <2>1, RanKept
<1> QED BY <1>2, <1>3, <1>4, <1>5, <1>6, <1>7 DEF Step

LEMMA NextRan == IInv /\ Chains /\ Logs /\ Ran /\ [Next]_vars => Ran'
<1> SUFFICES ASSUME IInv, Chains, Logs, Ran, [Next]_vars PROVE Ran'
  OBVIOUS
<1>1. CASE UNCHANGED vars
  <2>1. UNCHANGED <<pc, call, registered, cleaned>>
    BY <1>1 DEF vars, locals, history
  <2>2. cleaned \in [Arena -> Seq(Node)]
    BY DEF Ran
  <2> QED BY <2>1, <2>2, RanKept
<1> QED BY <1>1, RanOfBegin, RanOfStep DEF Next

LEMMA InitRan == Init => Ran
<1> SUFFICES ASSUME Init PROVE Ran
  OBVIOUS
<1>1. cleaned = [a \in Arena |-> <<>>] /\ pc = [t \in Thread |-> "out"]
  BY DEF Init
<1> QED BY <1>1 DEF Ran

(* When an arena is torn down every destructor registered in this life     *)
(* runs, once, and those of a thread in the reverse of the order it        *)
(* registered them in, through however many chunks they were linked into:  *)
(* Reset and the destructor begin with CleanupList.                        *)
THEOREM CleansInReverse == Spec => []CleanedInReverse
<1>1. Ran => CleanedInReverse
  BY DEF Ran, RanAll, CleanedInReverse
<1>2. Spec => []Chains
  BY Invariance, InitChains, NextChains, PTL DEF Spec
<1>3. Spec => []Logs
  BY Invariance, InitLogs, NextLogs, <1>2, PTL DEF Spec
<1>4. Spec => []Ran
  BY Invariance, InitRan, NextRan, <1>2, <1>3, PTL DEF Spec
<1> QED BY <1>1, <1>4, PTL

-----------------------------------------------------------------------------
(* ArenaImpl implements ArenaPromise.                                      *)

\* A step of the arenas is a step of the promise, or shows in none of it.
Follows == [Promise!Next]_(Promise!vars)

LEMMA PhaseIs ==
  \A a \in Arena :
    /\ Phase(a) = "gone" <=> ~InUse(a)
    /\ Phase(a) = "closing" <=>
         InUse(a) /\ \E u \in Thread : pc[u] = "free" /\ call[u].arena = a
    /\ Phase(a) = "open" <=>
         InUse(a) /\ \A u \in Thread : ~(pc[u] = "free" /\ call[u].arena = a)
  BY DEF Phase

LEMMA PhaseNext ==
  \A a \in Arena :
    /\ Phase(a)' = "gone" <=> ~InUse(a)'
    /\ Phase(a)' = "closing" <=>
         InUse(a)' /\ \E u \in Thread : pc'[u] = "free" /\ call'[u].arena = a
    /\ Phase(a)' = "open" <=>
         InUse(a)' /\ \A u \in Thread : ~(pc'[u] = "free" /\ call'[u].arena = a)
  BY DEF Phase

LEMMA PhaseSame ==
  ASSUME NEW a \in Arena, InUse(a)' <=> InUse(a),
         \A u \in Thread : pc'[u] = "free" /\ call'[u].arena = a
                             <=> pc[u] = "free" /\ call[u].arena = a
  PROVE  Phase(a)' = Phase(a)
<1>1. Phase(a) \in {"gone", "closing", "open"}
  BY DEF Phase
<1> QED BY <1>1, PhaseIs, PhaseNext

LEMMA AsksSame ==
  ASSUME NEW t \in Thread, call'[t] = call[t],
         pc'[t] \in {"out"} \cup Tearing <=> pc[t] \in {"out"} \cup Tearing
  PROVE  Asks(t)' = Asks(t)
  BY DEF Asks

LEMMA AsksIs ==
  ASSUME IInv, NEW t \in Thread
  PROVE  /\ pc[t] \in {"out"} \cup Tearing => Asks(t) = NoCall
         /\ pc[t] \in Working =>
              /\ Asks(t) = [arena |-> call[t].arena, cleanup |-> call[t].cleanup,
                            bytes |-> IF call[t].chunk THEN 0 ELSE call[t].bytes]
              /\ Asks(t) \in Promise!Request
              /\ Asks(t).arena = call[t].arena /\ call[t].arena \in Arena
              /\ Phase(call[t].arena) = "open"
<1>1. CASE pc[t] \in {"out"} \cup Tearing
  BY <1>1 DEF Asks, Tearing, Working
<1>2. CASE pc[t] \in Working
  <2>1. call[t] \in Request /\ CallsOnLive
    BY <1>2 DEF IInv, CallsOnLive
  <2>2. Asks(t) = [arena |-> call[t].arena, cleanup |-> call[t].cleanup,
                   bytes |-> IF call[t].chunk THEN 0 ELSE call[t].bytes]
    BY <1>2 DEF Asks, Tearing, Working
  <2>3. Asks(t) \in Promise!Request
    BY <2>1, <2>2 DEF Promise!Request, Request
  <2>4. call[t].arena \in Arena /\ InUse(call[t].arena)
    BY <1>2, <2>1, UserInUse
  <2>5. ASSUME NEW u \in Thread, pc[u] = "free", call[u].arena = call[t].arena PROVE FALSE
    BY <1>2, <2>1, <2>5 DEF CallsOnLive, Working, Tearing
  <2>6. Phase(call[t].arena) = "open"
    BY <2>4, <2>5, PhaseIs
  <2> QED BY <1>2, <2>2, <2>3, <2>4, <2>6 DEF Working, Tearing
<1> QED BY <1>1, <1>2 DEF Working, Tearing

\* The units handed out of one block.
UnitsOf(b) == {b} \X (Begins(b) + 1 .. pos[b])

LEMMA HandedIs ==
  \A a \in Arena : \A x : x \in Handed(a) <=>
    InUse(a) /\ \E b \in BlocksIn(a) : x \in UnitsOf(b)
  BY DEF Handed, UnitsOf

LEMMA HandedNext ==
  \A a \in Arena : \A x : x \in Handed(a)' <=>
    InUse(a)' /\ \E b \in BlocksIn(a)' : x \in UnitsOf(b)'
  BY DEF Handed, UnitsOf

LEMMA UnitsSame ==
  \A b : pos'[b] = pos[b] /\ threadInfo'[b] = threadInfo[b] => UnitsOf(b)' = UnitsOf(b)
  BY DEF UnitsOf, Begins

LEMMA HandedSame ==
  ASSUME NEW a \in Arena, InUse(a)' <=> InUse(a),
         InUse(a) => BlocksIn(a)' = BlocksIn(a),
         InUse(a) => \A b \in BlocksIn(a) : pos'[b] = pos[b] /\ threadInfo'[b] = threadInfo[b]
  PROVE  Handed(a)' = Handed(a)
<1>1. \A x : x \in Handed(a)' <=> x \in Handed(a)
  BY HandedIs, HandedNext, UnitsSame
<1> QED BY <1>1 DEF Handed

LEMMA ShowsNothing ==
  ASSUME \A a \in Arena : Phase(a)' = Phase(a) /\ Handed(a)' = Handed(a),
         \A t \in Thread : Asks(t)' = Asks(t), UNCHANGED <<registered, cleaned>>
  PROVE  Follows
<1>1. /\ [a \in Arena |-> Phase(a)]' = [a \in Arena |-> Phase(a)]
      /\ [a \in Arena |-> Handed(a)]' = [a \in Arena |-> Handed(a)]
      /\ [t \in Thread |-> Asks(t)]' = [t \in Thread |-> Asks(t)]
  OBVIOUS
<1> QED BY <1>1 DEF Follows, Promise!vars

-----------------------------------------------------------------------------
(* The steps that show in nothing.                                         *)
LEMMA QuietFollows ==
  ASSUME IInv, NEW t \in Thread,
         \/ NewThread(t) \/ CheckCache(t) \/ CheckHint(t) \/ FindThreadInfo(t)
         \/ LoadThreads(t) \/ PushThreadInfo(t)
  PROVE  Follows
<1>1. pc \in [Thread -> Location]
  BY DEF IInv, TypeOK
<1>2. /\ UNCHANGED <<call, pos, threadInfo, head, registered, cleaned>>
      /\ \/ pc' = pc
         \/ pc[t] \in Working /\ \E w \in Working : pc' = [pc EXCEPT ![t] = w]
  <2>1. CASE NewThread(t)
    BY <2>1 DEF NewThread, blocks, infos, history
  <2>2. CASE CheckCache(t) \/ CheckHint(t)
    BY <2>2 DEF CheckCache, CheckHint, Goto, blocks, infos, history, Working
  <2>3. CASE FindThreadInfo(t) \/ LoadThreads(t)
    BY <2>3 DEF FindThreadInfo, LoadThreads, Goto, blocks, infos, history, Working
  <2>4. CASE PushThreadInfo(t)
    BY <2>4 DEF PushThreadInfo, Goto, blocks, infos, history, Working
  <2> QED BY <2>1, <2>2, <2>3, <2>4
<1>3. \A c \in Arena : (InUse(c)' <=> InUse(c)) /\ InfosIn(c)' = InfosIn(c)
  BY QuietKeeps, PushKeeps
<1>4. \A u \in Thread : pc'[u] = pc[u] \/ {pc[u], pc'[u]} \subseteq Working
  BY <1>1, <1>2
<1>5. \A c \in Arena : Phase(c)' = Phase(c)
  BY <1>2, <1>3, <1>4, PhaseSame DEF Working
<1>6. \A u \in Thread : Asks(u)' = Asks(u)
  BY <1>2, <1>4, AsksSame DEF Working, Tearing
<1>7. \A c \in Arena : Handed(c)' = Handed(c)
  BY <1>2, <1>3, BlocksSame, HandedSame
<1> QED BY <1>2, <1>5, <1>6, <1>7, ShowsNothing

\* A new block has only what is the arena's own.
LEMMA NewBlockHandsNothing ==
  ASSUME IInv, NEW a \in Arena, InUse(a), NEW b \in Address, owner[b] = NoThread,
         NEW n \in Nat, NEW i \in Address, MakesBlock(a, b, n, i)
  PROVE  \A c \in Arena : (InUse(c)' <=> InUse(c)) /\ Handed(c)' = Handed(c)
<1>1. /\ pos \in [Address -> Nat] /\ threadInfo \in [Address -> Address \cup {NoBlock}]
      /\ HeaderSize \in Nat /\ InfoSize \in Nat
  BY SizeAssumption DEF IInv, TypeOK
<1>2. /\ \A c \in Arena : InUse(c)' <=> InUse(c)
      /\ BlocksIn(a)' = BlocksIn(a) \cup {b}
      /\ \A c \in Arena : InUse(c) /\ c # a => BlocksIn(c)' = BlocksIn(c)
      /\ threadInfo' = [threadInfo EXCEPT ![b] = i]
  BY DEF MakesBlock
<1>3. /\ threadInfo'[b] = i
      /\ i = b => pos'[b] = HeaderSize + InfoSize
      /\ i # b => pos'[b] = HeaderSize
      /\ \A x \in Address : x # b => threadInfo'[x] = threadInfo[x] /\ pos'[x] = pos[x]
  BY <1>1 DEF MakesBlock
<1>4. \A c \in Arena : InUse(c) => b \notin BlocksIn(c)
  BY FreeIsApart DEF BlocksIn
<1>5. \A c \in Arena : InUse(c) => \A x \in BlocksIn(c) :
        pos'[x] = pos[x] /\ threadInfo'[x] = threadInfo[x]
  BY <1>3, <1>4, BlockFacts
<1>6. UnitsOf(b)' = {}
  <2>1. PICK k \in Nat : k = pos'[b] /\ Begins(b)' = k
    BY <1>1, <1>3 DEF Begins
  <2>2. UnitsOf(b)' = {b} \X (k + 1 .. k)
    BY <2>1 DEF UnitsOf
  <2> QED BY <2>2
<1>7. \A x : x \in Handed(a)' <=> x \in Handed(a)
  BY <1>2, <1>5, <1>6, HandedIs, HandedNext, UnitsSame
<1>8. Handed(a)' = Handed(a)
  BY <1>7 DEF Handed
<1>9. \A c \in Arena : c # a => Handed(c)' = Handed(c)
  BY <1>2, <1>5, HandedSame
<1> QED BY <1>2, <1>8, <1>9

LEMMA BlockFollows ==
  ASSUME IInv, Chains, NEW t \in Thread,
         \/ \E b \in Block : NewThreadInfo(t, b)
         \/ \E b \in Address : GetBlockSlow(t, b)
  PROVE  Follows
<1>1. /\ UNCHANGED <<call, registered, cleaned>>
      /\ pc[t] \in Working /\ pc'[t] \in Working
      /\ \A u \in Thread \ {t} : pc'[u] = pc[u]
  <2>1. ASSUME NEW b \in Block, NewThreadInfo(t, b)
        PROVE  /\ UNCHANGED <<call, registered, cleaned>>
               /\ pc[t] \in Working /\ pc'[t] \in Working
               /\ \A u \in Thread \ {t} : pc'[u] = pc[u]
    <3>1. UNCHANGED <<call, registered, cleaned>> /\ pc[t] = "slow"
      BY <2>1 DEF NewThreadInfo, Goto, history
    <3> QED BY <2>1, <3>1, NewThreadInfoMakes DEF Working
  <2>2. ASSUME NEW b \in Address, GetBlockSlow(t, b)
        PROVE  /\ UNCHANGED <<call, registered, cleaned>>
               /\ pc[t] \in Working /\ pc'[t] \in Working
               /\ \A u \in Thread \ {t} : pc'[u] = pc[u]
    <3>1. UNCHANGED <<call, registered, cleaned>>
      BY <2>2 DEF GetBlockSlow, history
    <3> QED BY <2>2, <3>1, GetBlockSlowMakes DEF Working
  <2> QED BY <2>1, <2>2
<1>2. \A c \in Arena : (InUse(c)' <=> InUse(c)) /\ Handed(c)' = Handed(c)
  <2>1. ASSUME NEW b \in Block, NewThreadInfo(t, b)
        PROVE  \A c \in Arena : (InUse(c)' <=> InUse(c)) /\ Handed(c)' = Handed(c)
    <3>1. owner[b] = NoThread /\ b \in Address
      BY <2>1, NewThreadInfoMakes DEF Address
    <3>2. PICK a \in Arena, n \in Nat : InUse(a) /\ MakesBlock(a, b, n, b)
      BY <2>1, NewThreadInfoMakes
    <3> QED BY <3>1, <3>2, NewBlockHandsNothing
  <2>2. ASSUME NEW b \in Address, GetBlockSlow(t, b)
        PROVE  \A c \in Arena : (InUse(c)' <=> InUse(c)) /\ Handed(c)' = Handed(c)
    <3>1. /\ \A c \in Arena : (InUse(c)' <=> InUse(c)) /\ InfosIn(c)' = InfosIn(c)
          /\ \/ UNCHANGED <<pos, size, threadInfo, head, spaceAllocated, asked>>
             \/ /\ owner[b] = NoThread
                /\ \E a \in Arena, n \in Nat, i \in Address : InUse(a) /\ MakesBlock(a, b, n, i)
      BY <2>2, GetBlockSlowMakes
    <3>2. CASE UNCHANGED <<pos, size, threadInfo, head, spaceAllocated, asked>>
      BY <3>1, <3>2, BlocksSame, HandedSame
    <3>3. ASSUME owner[b] = NoThread, NEW a \in Arena, NEW n \in Nat, NEW i \in Address,
                 InUse(a), MakesBlock(a, b, n, i)
          PROVE  \A c \in Arena : (InUse(c)' <=> InUse(c)) /\ Handed(c)' = Handed(c)
      BY <3>3, NewBlockHandsNothing
    <3> QED BY <3>1, <3>2, <3>3
  <2> QED BY <2>1, <2>2
<1>3. \A c \in Arena : Phase(c)' = Phase(c)
  BY <1>1, <1>2, PhaseSame DEF Working
<1>4. \A u \in Thread : Asks(u)' = Asks(u)
  BY <1>1, AsksSame DEF Working, Tearing
<1> QED BY <1>1, <1>2, <1>3, <1>4, ShowsNothing

-----------------------------------------------------------------------------
(* Open.                                                                   *)
LEMMA InitFollows ==
  ASSUME IInv, NEW t \in Thread, NEW a \in Arena, InitArena(t, a),
         ~InUse(a), InUse(a)', UNCHANGED <<registered, cleaned>>,
         \A c \in Arena \ {a} : InUse(c)' <=> InUse(c),
         pc[t] \in {"out", "init"}, pc'[t] = "out",
         \A u \in Thread \ {t} : /\ pc'[u] = pc[u] /\ call'[u] = call[u]
                                 /\ mine'[u] = mine[u]
  PROVE  Follows
<1> DEFINE b == initialBlock[a]
<1>1. HeaderSize \in Nat /\ InfoSize \in Nat /\ CallsOnLive
  BY SizeAssumption DEF IInv
<1>2. /\ BlocksIn(a)' = IF b = NoBlock THEN {} ELSE {b}
      /\ b # NoBlock => /\ b \in Address
                        /\ pos'[b] = HeaderSize + InfoSize /\ threadInfo'[b] = b
      /\ \A x \in Address : x # b => pos'[x] = pos[x] /\ threadInfo'[x] = threadInfo[x]
      /\ \A c \in Arena \ {a} : InUse(c) =>
           /\ BlocksIn(c)' = BlocksIn(c)
           /\ \A x \in BlocksIn(c) : x \in Address /\ x # b
  BY InitMakes
<1>3. Handed(a) = {}
  BY DEF Handed
<1>4. Handed(a)' = {}
  <2>1. b # NoBlock => UnitsOf(b)' = {}
    <3>1. PICK k \in Nat : b # NoBlock => k = pos'[b] /\ Begins(b)' = k
      BY <1>1, <1>2 DEF Begins
    <3>2. b # NoBlock => UnitsOf(b)' = {b} \X (k + 1 .. k)
      BY <3>1 DEF UnitsOf
    <3> QED BY <3>2
  <2>2. \A x : x \notin Handed(a)'
    <3> HIDE DEF b
    <3> QED BY <1>2, <2>1, HandedNext
  <2> QED BY <2>2
<1>5. \A c \in Arena : c # a => Handed(c)' = Handed(c)
  <2> HIDE DEF b
  <2> QED BY <1>2, HandedSame
<1>6. \A u \in Thread : pc'[u] = "free" /\ call'[u].arena = a => FALSE
  <2> SUFFICES ASSUME NEW u \in Thread, pc'[u] = "free", call'[u].arena = a PROVE FALSE
    OBVIOUS
  <2>1. u # t /\ pc[u] = "free" /\ call[u].arena = a
    OBVIOUS
  <2>2. Live(a) /\ \A v \in Thread \ {u} : pc[v] # "out" => call[v].arena # a
    BY <1>1, <2>1 DEF CallsOnLive, Tearing
  <2>3. \A v \in Users(a) : pc[v] # "init"
    BY <2>1, <2>2 DEF Users
  <2> QED BY <2>2, <2>3 DEF InUse
<1>7. Phase(a) = "gone" /\ Phase(a)' = "open"
  BY <1>6, PhaseIs, PhaseNext
<1>8. \A c \in Arena : c # a => Phase(c)' = Phase(c)
  BY PhaseSame
<1>9. \A u \in Thread : Asks(u)' = Asks(u)
  <2>1. Asks(t) = NoCall /\ Asks(t)' = NoCall
    BY DEF Asks, Tearing
  <2> QED BY <2>1, AsksSame
<1>10. /\ [c \in Arena |-> Phase(c)]' = [[c \in Arena |-> Phase(c)] EXCEPT ![a] = "open"]
       /\ [c \in Arena |-> Handed(c)]' = [c \in Arena |-> Handed(c)]
       /\ [u \in Thread |-> Asks(u)]' = [u \in Thread |-> Asks(u)]
  BY <1>3, <1>4, <1>5, <1>7, <1>8, <1>9
<1>11. Promise!Open(a)
  BY <1>7, <1>10 DEF Promise!Open
<1> QED BY <1>11 DEF Follows, Promise!Next

LEMMA OpenFollows ==
  ASSUME IInv, NEW t \in Thread, Restart(t) \/ \E a \in Arena : Construct(t, a)
  PROVE  Follows
<1>1. ASSUME NEW a \in Arena, Construct(t, a) PROVE Follows
  <2>1. InitArena(t, a) /\ pc[t] = "out" /\ UNCHANGED <<registered, cleaned>>
    BY <1>1 DEF Construct, history
  <2> QED BY <1>1, <2>1, ConstructKeeps, InitFollows
<1>2. CASE Restart(t)
  <2>1. pc[t] = "init" /\ UNCHANGED <<registered, cleaned>>
    BY <1>2 DEF Restart, Goto, history
  <2>2. PICK a \in Arena :
           /\ InitArena(t, a) /\ ~InUse(a) /\ InUse(a)'
           /\ \A c \in Arena \ {a} : InUse(c)' <=> InUse(c)
           /\ pc[t] \notin {"load", "push"} /\ pc'[t] = "out"
           /\ \A u \in Thread \ {t} : pc'[u] = pc[u] /\ call'[u] = call[u] /\ mine'[u] = mine[u]
    BY <1>2, RestartKeeps
  <2> QED BY <2>1, <2>2, InitFollows
<1> QED BY <1>1, <1>2

-----------------------------------------------------------------------------
(* Ask, Close and Release.                                                 *)
LEMMA AskFollows ==
  ASSUME IInv, NEW t \in Thread, NEW a \in Arena, NEW n \in Bytes, NEW c \in BOOLEAN,
         Allocate(t, a, n, c)
  PROVE  Follows
<1>1. /\ pc \in [Thread -> Location] /\ CallsOnLive /\ n \in Nat
      /\ call \in [Thread -> {NoCall} \cup [arena : Arena] \cup Request]
  BY SizeAssumption DEF IInv, TypeOK, Types
<1>2. /\ pc[t] = "out" /\ pc' = [pc EXCEPT ![t] = "cache"] /\ Live(a)
      /\ call' = [call EXCEPT ![t] = [arena |-> a, bytes |-> n, cleanup |-> c, chunk |-> FALSE]]
      /\ \A u \in Users(a) : pc[u] \notin Tearing
      /\ UNCHANGED <<pos, threadInfo, head, registered, cleaned>>
  BY DEF Allocate, Goto, blocks, infos, history
<1>3. /\ pc'[t] = "cache"
      /\ call'[t] = [arena |-> a, bytes |-> n, cleanup |-> c, chunk |-> FALSE]
      /\ \A u \in Thread \ {t} : pc'[u] = pc[u] /\ call'[u] = call[u]
  BY <1>1, <1>2
<1>4. \A d \in Arena : (InUse(d)' <=> InUse(d)) /\ InfosIn(d)' = InfosIn(d)
  BY QuietKeeps
<1>5. \A d \in Arena : Handed(d)' = Handed(d)
  BY <1>2, <1>4, BlocksSame, HandedSame
<1>6. \A d \in Arena : Phase(d)' = Phase(d)
  BY <1>2, <1>3, <1>4, PhaseSame
<1>7. Phase(a) = "open"
  <2>1. InUse(a)
    BY <1>2 DEF InUse, Users, Tearing
  <2>2. \A u \in Thread : ~(pc[u] = "free" /\ call[u].arena = a)
    BY <1>2 DEF Users, Tearing
  <2> QED BY <2>1, <2>2, PhaseIs
<1>8. Asks(t) = NoCall /\ Asks(t)' = [arena |-> a, cleanup |-> c, bytes |-> n]
  BY <1>2, <1>3 DEF Asks, Tearing
<1>9. \A u \in Thread \ {t} : Asks(u)' = Asks(u)
  BY <1>3, AsksSame
<1> DEFINE asksOf == [u \in Thread |-> Asks(u)]
<1>10. asksOf' = [asksOf EXCEPT ![t] = asksOf'[t]]
  BY <1>8, <1>9
<1>11. /\ asksOf[t] = NoCall /\ asksOf'[t] \in Promise!Request /\ asksOf'[t].arena = a
  BY <1>1, <1>8 DEF Promise!Request
<1>12. /\ [d \in Arena |-> Phase(d)]' = [d \in Arena |-> Phase(d)]
       /\ [d \in Arena |-> Handed(d)]' = [d \in Arena |-> Handed(d)]
       /\ [d \in Arena |-> Phase(d)][a] = "open"
  BY <1>5, <1>6, <1>7
<1>13. Promise!Ask(t)
  BY <1>2, <1>10, <1>11, <1>12 DEF Promise!Ask
<1> QED BY <1>13 DEF Follows, Promise!Next

LEMMA CloseFollows ==
  ASSUME IInv, Logs, Ran, Ran', NEW t \in Thread, NEW a \in Arena, TearDown(t, a)
  PROVE  Follows
<1>1. /\ pc \in [Thread -> Location] /\ CallsOnLive
      /\ call \in [Thread -> {NoCall} \cup [arena : Arena] \cup Request]
      /\ cleaned' \in [Arena -> Seq(Node)] /\ cleaned \in [Arena -> Seq(Node)]
  BY DEF IInv, TypeOK, Types, Ran
<1>2. /\ pc[t] = "out" /\ pc' = [pc EXCEPT ![t] = "free"] /\ Live(a) /\ Users(a) = {}
      /\ call' = [call EXCEPT ![t] = [arena |-> a]]
      /\ \E r : cleaned' = [cleaned EXCEPT ![a] = r]
      /\ UNCHANGED <<pos, threadInfo, head, registered>>
  BY DEF TearDown, Goto, blocks, infos
<1>3. /\ pc'[t] = "free" /\ call'[t].arena = a
      /\ \A u \in Thread \ {t} : pc'[u] = pc[u] /\ call'[u] = call[u]
  BY <1>1, <1>2
<1>4. \A d \in Arena : (InUse(d)' <=> InUse(d)) /\ InfosIn(d)' = InfosIn(d)
  BY QuietKeeps
<1>5. \A d \in Arena : Handed(d)' = Handed(d)
  BY <1>2, <1>4, BlocksSame, HandedSame
<1>6. InUse(a)
  BY <1>2 DEF InUse, Users
<1>7. Phase(a) = "open" /\ Phase(a)' = "closing"
  <2>1. \A u \in Thread : ~(pc[u] = "free" /\ call[u].arena = a)
    BY <1>2 DEF Users
  <2> QED BY <1>3, <1>4, <1>6, <2>1, PhaseIs, PhaseNext
<1>8. \A d \in Arena : d # a => Phase(d)' = Phase(d)
  BY <1>2, <1>3, <1>4, PhaseSame
<1>9. \A u \in Thread : Asks(u)' = Asks(u)
  <2>1. Asks(t)' = Asks(t)
    BY <1>2, <1>3 DEF Asks, Tearing
  <2> QED BY <1>3, <2>1, AsksSame
<1>10. \A u \in Thread : Asks(u) = NoCall \/ Asks(u).arena # a
  <2> SUFFICES ASSUME NEW u \in Thread, pc[u] \in Working PROVE Asks(u).arena # a
    BY <1>1, AsksIs DEF Location, Working, Tearing
  <2>1. pc[u] # "out" /\ Asks(u).arena = call[u].arena
    BY AsksIs DEF Working
  <2> QED BY <1>2, <2>1 DEF Users
<1>11. RanAll(cleaned'[a], registered[a])
  BY <1>2, <1>3 DEF Ran
<1>12. /\ [d \in Arena |-> Phase(d)]' = [[d \in Arena |-> Phase(d)] EXCEPT ![a] = "closing"]
       /\ [d \in Arena |-> Handed(d)]' = [d \in Arena |-> Handed(d)]
       /\ [u \in Thread |-> Asks(u)]' = [u \in Thread |-> Asks(u)]
       /\ [d \in Arena |-> Phase(d)][a] = "open"
  BY <1>5, <1>7, <1>8, <1>9
<1>13. cleaned' = [cleaned EXCEPT ![a] = cleaned'[a]]
  BY <1>1, <1>2
<1>14. Promise!RunsAll(a, cleaned'[a])
  <2>1. PICK r, n : r = cleaned'[a] /\ n = registered[a]
    OBVIOUS
  <2>2. /\ {r[k] : k \in DOMAIN r} = UNION {[by : {u}, nth : 1 .. n[u]] : u \in Thread}
        /\ \A j, k \in DOMAIN r : j < k /\ r[j].by = r[k].by => r[j].nth > r[k].nth
    BY <1>11, <2>1 DEF RanAll, ToSet
  <2>3. {[by : {u}, nth : 1 .. registered[a][u]] : u \in Thread}
          = {[by : {u}, nth : 1 .. n[u]] : u \in Thread}
    BY <2>1
  <2> QED BY <2>1, <2>2, <2>3 DEF Promise!RunsAll
<1>15. \A u \in Thread : [v \in Thread |-> Asks(v)][u] = NoCall
                           \/ [v \in Thread |-> Asks(v)][u].arena # a
  BY <1>10
<1>16. Promise!Close(a)
  BY <1>2, <1>12, <1>13, <1>14, <1>15 DEF Promise!Close
<1> QED BY <1>16 DEF Follows, Promise!Next

LEMMA ReleaseFollows ==
  ASSUME IInv, Ran, NEW t \in Thread, FreeBlocks(t)
  PROVE  Follows
<1>1. /\ pc \in [Thread -> Location] /\ lifecycleId \in [Arena -> Nat \cup {Dead}]
      /\ threads \in [Arena -> Seq(Address)]
      /\ call \in [Thread -> {NoCall} \cup [arena : Arena] \cup Request]
      /\ CallsOnLive
  BY DEF IInv, TypeOK, Types
<1>2. pc[t] = "free"
  BY DEF FreeBlocks, Goto
<1>3. PICK a \in Arena :
        /\ a = call[t].arena /\ Live(a)
        /\ \A u \in Thread \ {t} : pc[u] # "out" => call[u].arena # a
  BY <1>1, <1>2 DEF CallsOnLive, Tearing
<1>4. /\ pc'[t] \in {"init", "out"}
      /\ pc'[t] = "init" => call'[t].arena = a
      /\ \A u \in Thread \ {t} : pc'[u] = pc[u] /\ call'[u] = call[u] /\ mine'[u] = mine[u]
      /\ UNCHANGED <<head, pos, threadInfo>>
      /\ registered' = [registered EXCEPT ![a] = [u \in Thread |-> 0]]
      /\ cleaned' = [cleaned EXCEPT ![a] = <<>>]
  BY <1>1, <1>3 DEF FreeBlocks, Goto, infos
<1>5. ~InUse(a)'
  <2>1. \/ pc'[t] = "init" /\ call'[t] = call[t]
        \/ lifecycleId'[a] = Dead
    BY <1>1, <1>3, <1>4 DEF FreeBlocks, Goto
  <2> QED BY <1>3, <2>1 DEF InUse, Live, Users
<1>6. \A c \in Arena \ {a} : threads'[c] = threads[c] /\ lifecycleId'[c] = lifecycleId[c]
  BY <1>1, <1>3 DEF FreeBlocks, arenas
<1>7. \A c \in Arena \ {a} : InUse(c)' <=> InUse(c)
  BY <1>2, <1>3, <1>4, <1>6 DEF InUse, Live, Users
<1>8. InUse(a)
  BY <1>2, <1>3 DEF InUse, Users
<1>9. Phase(a) = "closing" /\ Phase(a)' = "gone"
  BY <1>2, <1>3, <1>5, <1>8, PhaseIs, PhaseNext
<1>10. \A c \in Arena : c # a => Phase(c)' = Phase(c)
  BY <1>2, <1>3, <1>4, <1>7, PhaseSame
<1>11. \A u \in Thread : Asks(u)' = Asks(u)
  <2>1. Asks(t) = NoCall /\ Asks(t)' = NoCall
    BY <1>2, <1>4 DEF Asks, Tearing
  <2> QED BY <1>4, <2>1, AsksSame
<1>12. Handed(a)' = {}
  BY <1>5 DEF Handed
<1>13. ASSUME NEW c \in Arena, c # a PROVE Handed(c)' = Handed(c)
  <2>1. InfosIn(c)' = InfosIn(c)
    BY <1>2, <1>4, <1>6, <1>13, InfosSame
  <2>2. BlocksIn(c)' = BlocksIn(c)
    BY <1>4, <2>1, BlocksSame
  <2> QED BY <1>4, <1>7, <1>13, <2>2, HandedSame
<1>14. /\ [c \in Arena |-> Phase(c)]' = [[c \in Arena |-> Phase(c)] EXCEPT ![a] = "gone"]
       /\ [c \in Arena |-> Handed(c)]' = [[c \in Arena |-> Handed(c)] EXCEPT ![a] = {}]
       /\ [u \in Thread |-> Asks(u)]' = [u \in Thread |-> Asks(u)]
       /\ [c \in Arena |-> Phase(c)][a] = "closing"
  BY <1>9, <1>10, <1>11, <1>12, <1>13
<1>15. Promise!Release(a)
  BY <1>4, <1>14 DEF Promise!Release
<1> QED BY <1>15 DEF Follows, Promise!Next

-----------------------------------------------------------------------------
(* Answer and Note.                                                        *)

\* A call that needs a chunk has a destructor to register.
Noting ==
  \A t \in Thread : pc[t] \in Working /\ call[t].chunk => call[t].cleanup /\ need[t] > 0

LEMMA NotingKept ==
  ASSUME Noting, NEW t \in Thread, UNCHANGED <<call, need>>, pc[t] \in Working,
         \A u \in Thread \ {t} : pc'[u] = pc[u]
  PROVE  Noting'
  BY DEF Noting

LEMMA NotingOfStep ==
  ASSUME IInv, Noting, NEW t \in Thread, Begin(t) \/ Step(t)
  PROVE  Noting'
<1>1. /\ pc \in [Thread -> Location] /\ need \in [Thread -> Nat] /\ CallsOnLive
      /\ call \in [Thread -> {NoCall} \cup [arena : Arena] \cup Request]
      /\ cleanup \in [Address -> Seq(Chunk)]
  BY DEF IInv, TypeOK, Types
<1>2. CASE NewThread(t) \/ \E a \in Arena : Construct(t, a)
  <2>1. UNCHANGED <<pc, call, need>>
    BY <1>2 DEF NewThread, Construct
  <2> QED BY <2>1 DEF Noting
<1>3. CASE (\E a \in Arena : TearDown(t, a)) \/ FreeBlocks(t) \/ Restart(t)
  <2>1. /\ need' = need
        /\ \E w \in {"free", "init", "out"} : pc' = [pc EXCEPT ![t] = w]
        /\ \A u \in Thread \ {t} : call'[u] = call[u]
    BY <1>1, <1>3 DEF TearDown, FreeBlocks, Restart, Goto
  <2>2. pc'[t] \notin Working /\ \A u \in Thread \ {t} : pc'[u] = pc[u]
    BY <1>1, <2>1 DEF Working
  <2> QED BY <2>1, <2>2 DEF Noting
<1>4. ASSUME NEW a \in Arena, NEW n \in Bytes, NEW c \in BOOLEAN, Allocate(t, a, n, c)
      PROVE  Noting'
  <2>1. /\ need' = [need EXCEPT ![t] = n] /\ pc' = [pc EXCEPT ![t] = "cache"]
        /\ call' = [call EXCEPT ![t] = [arena |-> a, bytes |-> n, cleanup |-> c,
                                        chunk |-> FALSE]]
    BY <1>4 DEF Allocate, Goto
  <2>2. ~call'[t].chunk
    BY <1>1, <2>1
  <2>3. \A u \in Thread \ {t} : pc'[u] = pc[u] /\ call'[u] = call[u] /\ need'[u] = need[u]
    BY <1>1, <2>1
  <2> QED BY <2>2, <2>3 DEF Noting
<1>5. CASE \/ CheckCache(t) \/ CheckHint(t) \/ FindThreadInfo(t) \/ LoadThreads(t)
           \/ PushThreadInfo(t) \/ \E b : NewThreadInfo(t, b) \/ GetBlockSlow(t, b)
  <2>1. /\ UNCHANGED <<call, need>>
        /\ pc[t] \in Working /\ \E w : pc' = [pc EXCEPT ![t] = w]
    BY <1>5 DEF CheckCache, CheckHint, FindThreadInfo, LoadThreads, PushThreadInfo,
                NewThreadInfo, GetBlockSlow, Goto, Working
  <2>2. \A u \in Thread \ {t} : pc'[u] = pc[u]
    BY <1>1, <2>1
  <2> QED BY <2>1, <2>2, NotingKept
<1>6. ASSUME Finish(t) PROVE Noting'
  <2>1. /\ need' = [need EXCEPT ![t] = 0] /\ pc' = [pc EXCEPT ![t] = "out"]
        /\ call' = [call EXCEPT ![t] = NoCall]
    BY <1>6 DEF Finish, Goto
  <2>2. /\ pc'[t] \notin Working
        /\ \A u \in Thread \ {t} : pc'[u] = pc[u] /\ call'[u] = call[u] /\ need'[u] = need[u]
    BY <1>1, <2>1 DEF Working
  <2> QED BY <2>2 DEF Noting
<1>7. CASE AllocateChunk(t)
  BY <1>6, <1>7 DEF AllocateChunk
<1>8. CASE AllocateObject(t)
  <2>1. PICK n : n = ChunkBytes(NextChunk(threadInfo[mine[t]]))
    OBVIOUS
  <2>2. CASE Finish(t)
    BY <1>6, <2>2
  <2>3. CASE /\ call[t].cleanup /\ pc[t] = "have"
             /\ \E w \in {"cache", "have"} : pc' = [pc EXCEPT ![t] = w]
             /\ need' = [need EXCEPT ![t] = n]
             /\ call' = [call EXCEPT ![t].chunk = TRUE]
    <3>1. n \in Nat /\ n > 0
      <4>1. threadInfo[mine[t]] \in Address
        BY <2>3, HandTyped
      <4>2. NextChunk(threadInfo[mine[t]]) \in Nat \ {0}
        BY <1>1, <4>1, NextChunkType
      <4> QED BY <2>1, <4>2 DEF ChunkBytes
    <3>2. call[t] \in Request
      BY <1>1, <2>3 DEF CallsOnLive, Working
    <3>3. call'[t].cleanup /\ need'[t] > 0
      BY <1>1, <2>3, <3>1, <3>2 DEF Request
    <3>4. \A u \in Thread \ {t} : pc'[u] = pc[u] /\ call'[u] = call[u] /\ need'[u] = need[u]
      BY <1>1, <2>3
    <3> QED BY <3>3, <3>4 DEF Noting
  <2> QED BY <1>8, <2>1, <2>2, <2>3 DEF AllocateObject, Goto
<1> QED BY <1>2, <1>3, <1>4, <1>5, <1>7, <1>8 DEF Begin, Step

\* The arena a hands out the units S, and nobody had them.
Gives(a, S) ==
  /\ Handed(a)' = Handed(a) \cup S
  /\ \A c \in Arena : c # a => Handed(c)' = Handed(c)
  /\ \A c \in Arena : Handed(c) \cap S = {}

LEMMA GiveHands ==
  ASSUME IInv, Chains, Spaces, NEW t \in Thread, NEW n \in Nat, pc[t] = "have",
         AllocFromBlock(t, n), UNCHANGED <<threadInfo, head>>,
         \A c \in Arena : (InUse(c)' <=> InUse(c)) /\ InfosIn(c)' = InfosIn(c)
  PROVE  \E a \in Arena, b \in Address, p \in Nat :
           a = call[t].arena /\ Gives(a, {b} \X (p + 1 .. p + n))
<1>1. /\ pos \in [Address -> Nat] /\ CallsOnLive /\ InHand(t)
      /\ HeaderSize \in Nat /\ InfoSize \in Nat
  BY SizeAssumption DEF IInv, TypeOK
<1>2. PICK a \in Arena : a = call[t].arena /\ InUse(a)
  BY <1>1, UserInUse DEF Working
<1>3. PICK b \in BlocksIn(a) : b = mine[t]
  <2>1. PICK i \in ToSet(threads[a]) : mine[t] \in ToSet(head[i])
    BY <1>1, <1>2 DEF InHand, Held
  <2>2. i \in InfosIn(a)
    BY <2>1, InfoIn
  <2> QED BY <2>1, <2>2 DEF BlocksIn
<1>4. b \in Address
  BY <1>2, BlockFacts
<1>5. PICK p \in Nat : p = pos[b]
  BY <1>1, <1>4
<1>6. pos'[b] = p + n /\ \A x \in Address : x # b => pos'[x] = pos[x]
  BY <1>1, <1>3, <1>4, <1>5 DEF AllocFromBlock
<1>7. PICK m \in Nat : m = Begins(b) /\ m = Begins(b)'
  BY <1>1 DEF Begins
<1>8. m <= p
  <2>1. Given[b] \in Nat
    BY <1>2 DEF Spaces, SpaceOf, Adds
  <2>2. CASE threadInfo[b] = b
    <3>1. Given[b] = p - HeaderSize - InfoSize /\ m = HeaderSize + InfoSize
      BY <1>4, <1>5, <1>7, <2>2, GivenIs DEF Begins
    <3> QED BY <1>1, <2>1, <3>1
  <2>3. CASE threadInfo[b] # b
    <3>1. Given[b] = p - HeaderSize - 0 /\ m = HeaderSize + 0
      BY <1>4, <1>5, <1>7, <2>3, GivenIs DEF Begins
    <3> QED BY <1>1, <2>1, <3>1
  <2> QED BY <2>2, <2>3
<1> DEFINE S == {b} \X (p + 1 .. p + n)
<1>9. UnitsOf(b) = {b} \X (m + 1 .. p) /\ UnitsOf(b)' = {b} \X (m + 1 .. p + n)
  BY <1>5, <1>6, <1>7 DEF UnitsOf
<1>10. UnitsOf(b)' = UnitsOf(b) \cup S /\ UnitsOf(b) \cap S = {}
  <2>1. /\ m + 1 .. p + n = (m + 1 .. p) \cup (p + 1 .. p + n)
        /\ (m + 1 .. p) \cap (p + 1 .. p + n) = {}
    BY <1>8
  <2> QED BY <1>9, <2>1
<1>11. \A c \in Arena : BlocksIn(c)' = BlocksIn(c)
  BY BlocksSame
<1>12. \A c \in Arena : InUse(c) => \A x \in BlocksIn(c) :
         x # b => UnitsOf(x)' = UnitsOf(x) /\ UnitsOf(x) \cap S = {}
  <2> SUFFICES ASSUME NEW c \in Arena, InUse(c), NEW x \in BlocksIn(c), x # b
               PROVE  UnitsOf(x)' = UnitsOf(x) /\ UnitsOf(x) \cap S = {}
    OBVIOUS
  <2>1. x \in Address
    BY BlockFacts
  <2>2. UnitsOf(x)' = UnitsOf(x)
    BY <1>6, <2>1, UnitsSame
  <2>3. UnitsOf(x) \cap S = {}
    BY DEF UnitsOf
  <2> QED BY <2>2, <2>3
<1> HIDE DEF S
<1>13. \A x : x \in Handed(a)' <=> x \in Handed(a) \cup S
  BY <1>2, <1>3, <1>10, <1>11, <1>12, HandedIs, HandedNext
<1>14. Handed(a)' = Handed(a) \cup S
  BY <1>13
<1>15. \A c \in Arena : c # a => \A x \in BlocksIn(c) : InUse(c) => x # b
  BY <1>2, BlocksApart
<1>16. ASSUME NEW c \in Arena, c # a PROVE Handed(c)' = Handed(c)
  <2>1. \A x : x \in Handed(c)' <=> x \in Handed(c)
    BY <1>11, <1>12, <1>15, <1>16, HandedIs, HandedNext
  <2> QED BY <2>1 DEF Handed
<1>17. \A c \in Arena : Handed(c) \cap S = {}
  BY <1>10, <1>12, HandedIs
<1>18. Gives(a, S)
  BY <1>14, <1>16, <1>17 DEF Gives
<1> QED BY <1>2, <1>4, <1>18 DEF S

LEMMA HandsOutIs ==
  ASSUME NEW a \in Arena, NEW b \in Address, NEW p \in Nat, NEW n \in Nat,
         Gives(a, {b} \X (p + 1 .. p + n))
  PROVE  /\ Promise!HandsOut(a)
         /\ n = 0 => Promise!Fresh(a) = {}
         /\ n # 0 => /\ \E u \in Promise!Fresh(a) : Promise!Fresh(a) = Promise!Run(u, n)
                     /\ \E u, v \in Promise!Fresh(a) :
                          Promise!Fresh(a) = Promise!Run(u, v[2] - u[2] + 1)
<1> DEFINE S == {b} \X (p + 1 .. p + n)
           handedOf == [c \in Arena |-> Handed(c)]
<1>1. /\ handedOf'[a] = handedOf[a] \cup S
      /\ \A c \in Arena : c # a => handedOf'[c] = handedOf[c]
      /\ \A c \in Arena : handedOf[c] \cap S = {}
  BY DEF Gives
<1>2. Promise!Fresh(a) = handedOf'[a] \ handedOf[a]
  BY DEF Promise!Fresh
<1>3. handedOf'[a] \ handedOf[a] = S
  <2> HIDE DEF S, handedOf
  <2> QED BY <1>1
<1>4. Promise!Fresh(a) = S
  BY <1>2, <1>3
<1>5. Promise!HandsOut(a)
  <2>1. handedOf' = [handedOf EXCEPT ![a] = handedOf[a] \cup S]
    <3> HIDE DEF S
    <3> QED BY <1>1
  <2> HIDE DEF S
  <2> QED BY <1>1, <1>4, <2>1 DEF Promise!HandsOut
<1>6. n = 0 => S = {}
  OBVIOUS
<1>7. ASSUME n # 0
      PROVE  /\ \E u \in S : S = Promise!Run(u, n)
             /\ \E u, v \in S : S = Promise!Run(u, v[2] - u[2] + 1)
  <2>1. /\ <<b, p + 1>> \in S /\ <<b, p + n>> \in S
        /\ (p + 1) + n - 1 = p + n /\ (p + n) - (p + 1) + 1 = n
    BY <1>7
  <2>2. Promise!Run(<<b, p + 1>>, n) = S
    BY <2>1 DEF Promise!Run
  <2>3. <<b, p + n>>[2] - <<b, p + 1>>[2] + 1 = n
    BY <2>1
  <2> HIDE DEF S
  <2> QED BY <2>1, <2>2, <2>3
<1> HIDE DEF S
<1> QED BY <1>4, <1>5, <1>6, <1>7

LEMMA ChunkFollows ==
  ASSUME IInv, Chains, Spaces, Noting, NEW t \in Thread, AllocateChunk(t)
  PROVE  Follows
<1>1. /\ pc \in [Thread -> Location] /\ need \in [Thread -> Nat]
      /\ call \in [Thread -> {NoCall} \cup [arena : Arena] \cup Request]
      /\ registered \in [Arena -> [Thread -> Nat]]
  BY DEF IInv, TypeOK, Types
<1>2. /\ pc[t] = "have" /\ pc' = [pc EXCEPT ![t] = "out"]
      /\ call' = [call EXCEPT ![t] = NoCall] /\ call[t].chunk
      /\ AllocFromBlock(t, need[t])
      /\ UNCHANGED <<threadInfo, head, cleaned>>
  BY DEF AllocateChunk, Finish, Goto
<1>3. /\ pc'[t] = "out"
      /\ \A u \in Thread \ {t} : pc'[u] = pc[u] /\ call'[u] = call[u]
  BY <1>1, <1>2
<1>4. \A c \in Arena : (InUse(c)' <=> InUse(c)) /\ InfosIn(c)' = InfosIn(c)
  BY QuietKeeps
<1>5. PICK a \in Arena, b \in Address, p \in Nat :
        a = call[t].arena /\ Gives(a, {b} \X (p + 1 .. p + need[t]))
  BY <1>1, <1>2, <1>4, GiveHands
<1>6. PICK n \in Nat : n = need[t] /\ n # 0 /\ call[t].cleanup = TRUE
  <2>1. need[t] > 0 /\ call[t].cleanup
    BY <1>2 DEF Noting, Working
  <2>2. call[t].cleanup \in BOOLEAN
    BY <1>2, HandTyped DEF Request
  <2> QED BY <1>1, <2>1, <2>2
<1>7. /\ Promise!HandsOut(a)
      /\ \E u, v \in Promise!Fresh(a) : Promise!Fresh(a) = Promise!Run(u, v[2] - u[2] + 1)
  BY <1>5, <1>6, HandsOutIs
<1>8. \A c \in Arena : Phase(c)' = Phase(c)
  BY <1>2, <1>3, <1>4, PhaseSame
<1>9. /\ Asks(t) = [arena |-> a, cleanup |-> TRUE, bytes |-> 0]
      /\ Asks(t) \in Promise!Request /\ Phase(a) = "open"
  BY <1>2, <1>5, <1>6, AsksIs DEF Working
<1>10. Asks(t)' = NoCall /\ \A u \in Thread \ {t} : Asks(u)' = Asks(u)
  <2>1. Asks(t)' = NoCall
    BY <1>3 DEF Asks
  <2> QED BY <1>3, <2>1, AsksSame
<1> DEFINE asksOf == [u \in Thread |-> Asks(u)]
<1>11. registered' = [registered EXCEPT ![a][t] = registered[a][t] + 1]
  BY <1>5 DEF AllocateChunk, Registers
<1>12. /\ asksOf[t] = Asks(t) /\ asksOf' = [asksOf EXCEPT ![t] = NoCall]
       /\ [c \in Arena |-> Phase(c)]' = [c \in Arena |-> Phase(c)]
       /\ [c \in Arena |-> Phase(c)][a] = "open"
  BY <1>8, <1>9, <1>10
<1>13. /\ asksOf[t].arena = a /\ asksOf[t] \in Promise!Request
       /\ asksOf[t].cleanup /\ asksOf[t].bytes = 0
  <2>1. \A r : r = [arena |-> a, cleanup |-> TRUE, bytes |-> 0]
          => r.arena = a /\ r.cleanup /\ r.bytes = 0
    OBVIOUS
  <2>2. asksOf[t] = Asks(t)
    BY <1>12
  <2> HIDE DEF asksOf
  <2> QED BY <1>9, <2>1, <2>2
<1>14. Promise!Done(t) /\ Promise!Registers(t, a)
  BY <1>11, <1>12 DEF Promise!Done, Promise!Registers
<1>15. Promise!Note(t)
  BY <1>2, <1>7, <1>12, <1>13, <1>14 DEF Promise!Note
<1> QED BY <1>15 DEF Follows, Promise!Next

LEMMA SameButBytes ==
  ASSUME NEW r \in Promise!Request, NEW a \in Arena, NEW c \in BOOLEAN,
         r.arena = a, r.cleanup = c
  PROVE  [r EXCEPT !.bytes = 0] = [arena |-> a, cleanup |-> c, bytes |-> 0]
<1> DEFINE x == [r EXCEPT !.bytes = 0]
           y == [arena |-> a, cleanup |-> c, bytes |-> 0]
<1>1. x \in Promise!Request /\ y \in Promise!Request
  BY DEF Promise!Request
<1>2. \A v, w \in Promise!Request :
        v.arena = w.arena /\ v.cleanup = w.cleanup /\ v.bytes = w.bytes => v = w
  BY DEF Promise!Request
<1>3. x.arena = a /\ x.cleanup = c /\ x.bytes = 0
  BY DEF Promise!Request
<1> QED BY <1>1, <1>2, <1>3

LEMMA ObjectFollows ==
  ASSUME IInv, Chains, Spaces, NEW t \in Thread, AllocateObject(t)
  PROVE  Follows
<1>1. /\ pc \in [Thread -> Location]
      /\ call \in [Thread -> {NoCall} \cup [arena : Arena] \cup Request]
      /\ registered \in [Arena -> [Thread -> Nat]]
  BY DEF IInv, TypeOK, Types
<1>2. /\ pc[t] = "have" /\ ~call[t].chunk /\ AllocFromBlock(t, call[t].bytes)
      /\ UNCHANGED <<threadInfo, head, cleaned>>
      /\ \/ /\ pc' = [pc EXCEPT ![t] = "out"] /\ call' = [call EXCEPT ![t] = NoCall]
            /\ \/ ~call[t].cleanup /\ UNCHANGED registered
               \/ call[t].cleanup /\ \E chunks : Registers(t, chunks)
         \/ /\ \E w \in {"cache", "have"} : pc' = [pc EXCEPT ![t] = w]
            /\ call' = [call EXCEPT ![t].chunk = TRUE]
            /\ call[t].cleanup /\ UNCHANGED registered
  BY DEF AllocateObject, Finish, Goto
<1>3. /\ pc'[t] \in {"out", "cache", "have"}
      /\ \A u \in Thread \ {t} : pc'[u] = pc[u] /\ call'[u] = call[u]
  BY <1>1, <1>2
<1>4. \A c \in Arena : (InUse(c)' <=> InUse(c)) /\ InfosIn(c)' = InfosIn(c)
  BY QuietKeeps
<1>5. PICK n \in Nat, l \in BOOLEAN : n = call[t].bytes /\ l = call[t].cleanup
  BY <1>2, HandTyped DEF Request
<1>6. PICK a \in Arena, b \in Address, p \in Nat :
        a = call[t].arena /\ Gives(a, {b} \X (p + 1 .. p + n))
  BY <1>2, <1>4, <1>5, GiveHands
<1>7. /\ Promise!HandsOut(a)
      /\ IF n = 0 THEN Promise!Fresh(a) = {}
         ELSE \E u \in Promise!Fresh(a) : Promise!Fresh(a) = Promise!Run(u, n)
  BY <1>6, HandsOutIs
<1>8. \A c \in Arena : Phase(c)' = Phase(c)
  BY <1>2, <1>3, <1>4, PhaseSame
<1>9. /\ Asks(t) = [arena |-> a, cleanup |-> l, bytes |-> n]
      /\ Asks(t) \in Promise!Request /\ Phase(a) = "open"
  BY <1>2, <1>5, <1>6, AsksIs DEF Working
<1>10. \A u \in Thread \ {t} : Asks(u)' = Asks(u)
  BY <1>3, AsksSame
<1> DEFINE asksOf == [u \in Thread |-> Asks(u)]
<1>11. /\ asksOf[t] = Asks(t)
       /\ \A m : Asks(t)' = m => asksOf' = [asksOf EXCEPT ![t] = m]
       /\ [c \in Arena |-> Phase(c)]' = [c \in Arena |-> Phase(c)]
       /\ [c \in Arena |-> Phase(c)][a] = "open"
  BY <1>8, <1>9, <1>10
<1>12. /\ asksOf[t].arena = a /\ asksOf[t] \in Promise!Request
       /\ asksOf[t].cleanup = l /\ asksOf[t].bytes = n
  BY <1>9, <1>11
<1>13. CASE pc' = [pc EXCEPT ![t] = "out"]
  <2>1. Promise!Done(t)
    <3>1. Asks(t)' = NoCall
      BY <1>1, <1>13 DEF Asks
    <3> QED BY <1>11, <3>1 DEF Promise!Done
  <2>2. IF l THEN Promise!Registers(t, a) ELSE UNCHANGED registered
    <3>1. "out" \notin {"cache", "have"}
      OBVIOUS
    <3>2. IF call[t].cleanup THEN \E chunks : Registers(t, chunks) ELSE UNCHANGED registered
      BY <1>1, <1>2, <1>13, <3>1
    <3> QED BY <1>5, <1>6, <3>2 DEF Registers, Promise!Registers
  <2>3. Promise!Answer(t)
    BY <1>2, <1>7, <1>11, <1>12, <2>1, <2>2 DEF Promise!Answer
  <2> QED BY <2>3 DEF Follows, Promise!Next
<1>14. CASE pc' # [pc EXCEPT ![t] = "out"]
  <2>1. /\ pc'[t] \in {"cache", "have"} /\ call' = [call EXCEPT ![t].chunk = TRUE]
        /\ l = TRUE /\ UNCHANGED registered
    BY <1>1, <1>2, <1>5, <1>14
  <2>2. /\ call'[t].chunk /\ call'[t].arena = a /\ call'[t].cleanup = TRUE
    <3>1. call[t] \in Request
      BY <1>2, HandTyped
    <3> QED BY <1>1, <1>5, <1>6, <2>1, <3>1 DEF Request
  <2>3. Asks(t)' = [arena |-> a, cleanup |-> TRUE, bytes |-> 0]
    <3>1. Asks(t)' = [arena |-> call'[t].arena, cleanup |-> call'[t].cleanup,
                      bytes |-> IF call'[t].chunk THEN 0 ELSE call'[t].bytes]
      BY <2>1 DEF Asks, Tearing
    <3> QED BY <2>2, <3>1
  <2>4. asksOf' = [asksOf EXCEPT ![t].bytes = 0]
    <3>1. asksOf' = [asksOf EXCEPT ![t] = [arena |-> a, cleanup |-> TRUE, bytes |-> 0]]
      BY <1>11, <2>3
    <3>2. /\ asksOf[t] \in Promise!Request
          /\ asksOf[t].arena = a /\ asksOf[t].cleanup = TRUE
      BY <1>12, <2>1
    <3> HIDE DEF asksOf
    <3>3. [asksOf[t] EXCEPT !.bytes = 0] = [arena |-> a, cleanup |-> TRUE, bytes |-> 0]
      BY <3>2, SameButBytes
    <3> QED BY <3>1, <3>3
  <2>5. Promise!Answer(t)
    BY <1>2, <1>7, <1>11, <1>12, <2>1, <2>4 DEF Promise!Answer
  <2> QED BY <2>5 DEF Follows, Promise!Next
<1> QED BY <1>13, <1>14

-----------------------------------------------------------------------------
LEMMA InitFulfils == Init => Promise!Init
<1> SUFFICES ASSUME Init PROVE Promise!Init
  OBVIOUS
<1>1. \A a \in Arena : ~InUse(a)
  BY DEF Init, InUse, Live
<1>2. /\ [a \in Arena |-> Phase(a)] = [a \in Arena |-> "gone"]
      /\ [a \in Arena |-> Handed(a)] = [a \in Arena |-> {}]
  BY <1>1 DEF Phase, Handed
<1>3. [t \in Thread |-> Asks(t)] = [t \in Thread |-> NoCall]
  BY DEF Init, Asks
<1>4. /\ registered = [a \in Arena |-> [t \in Thread |-> 0]]
      /\ cleaned = [a \in Arena |-> <<>>]
  BY DEF Init
<1> QED BY <1>2, <1>3, <1>4 DEF Promise!Init

LEMMA NextFollows ==
  IInv /\ Chains /\ Spaces /\ Logs /\ Ran /\ Noting /\ [Next]_vars => Follows
<1> SUFFICES ASSUME IInv, Chains, Spaces, Logs, Ran, Noting, [Next]_vars PROVE Follows
  OBVIOUS
<1>1. Ran'
  BY NextRan
<1>2. ASSUME NEW t \in Thread, Begin(t) PROVE Follows
  BY <1>1, <1>2, QuietFollows, OpenFollows, CloseFollows, AskFollows DEF Begin
<1>3. ASSUME NEW t \in Thread, Step(t) PROVE Follows
  BY <1>3, QuietFollows, OpenFollows, BlockFollows, ReleaseFollows, ObjectFollows,
     ChunkFollows DEF Step
<1>4. CASE UNCHANGED vars
  <2>1. UNCHANGED <<lifecycleId, threads, head, pos, threadInfo, pc, call, mine, registered, cleaned>>
    BY <1>4 DEF vars, arenas, blocks, infos, locals, history
  <2>2. \A c \in Arena : (InUse(c)' <=> InUse(c)) /\ InfosIn(c)' = InfosIn(c)
    BY <2>1, InfosSame DEF InUse, Live, Users
  <2>3. \A c \in Arena : Phase(c)' = Phase(c) /\ Handed(c)' = Handed(c)
    BY <2>1, <2>2, PhaseSame, BlocksSame, HandedSame
  <2> QED BY <2>1, <2>3, AsksSame, ShowsNothing
<1> QED BY <1>2, <1>3, <1>4 DEF Next

(* ArenaImpl implements ArenaPromise: through the lock-free list, the      *)
(* hints, the caches that outlive an arena and the blocks that go from one *)
(* arena to the next, every call gets units of its own, as many as it      *)
(* asked for, and they come back only after all destructors have run.      *)
THEOREM ArenaKeepsPromise == Spec => KeepsPromise
<1>1. Spec => []Chains
  BY Invariance, InitChains, NextChains, PTL DEF Spec
<1>2. Spec => []Spaces
  BY Invariance, InitSpaces, NextSpaces, <1>1, PTL DEF Spec
<1>3. Spec => []Logs
  BY Invariance, InitLogs, NextLogs, <1>1, PTL DEF Spec
<1>4. Spec => []Ran
  BY Invariance, InitRan, NextRan, <1>1, <1>3, PTL DEF Spec
<1>5. Spec => []Noting
  <2>1. Init => Noting
    BY DEF Init, Noting, Working
  <2>2. IInv /\ Noting /\ [Next]_vars => Noting'
    <3>1. ASSUME Noting, UNCHANGED vars PROVE Noting'
      BY <3>1 DEF Noting, vars, locals
    <3> QED BY <3>1, NotingOfStep DEF Next
  <2> QED BY Invariance, <2>1, <2>2, PTL DEF Spec
<1>6. Spec => [][Promise!Next]_(Promise!vars)
  <2>1. IInv /\ Chains /\ Spaces /\ Logs /\ Ran /\ Noting /\ [Next]_vars
          => [Promise!Next]_(Promise!vars)
    BY NextFollows DEF Follows
  <2> QED BY Invariance, <1>1, <1>2, <1>3, <1>4, <1>5, <2>1, PTL DEF Spec
<1> QED BY InitFulfils, <1>6, PTL DEF Spec, KeepsPromise, Promise!Spec
=============================================================================
