---------------------------- MODULE MCArenaImpl ----------------------------
(* Instances of ArenaImpl for TLC.                                         *)
EXTENDS ArenaImpl, TLC
CONSTANTS a1, a2, i1
\* The second arena is built on a block of its creator's.
InitialBlocks == a1 :> NoBlock @@ a2 :> i1

\* States differ no more than in what can still be read: what a free block holds
\* is written before it is read, and so is a ThreadInfo where there is none.
Contents(b) == IF owner[b] = NoThread THEN <<>>
               ELSE IF threadInfo[b] # b THEN <<threadInfo[b], pos[b], size[b]>>
               ELSE <<b, pos[b], size[b], head[b], cleanup[b]>>
View == <<arenas, generator, owner, [b \in Address |-> Contents(b)], locals, history>>

\* Threads are interchangeable and so are the addresses block_alloc returns.
Symmetry == Permutations(Thread) \cup Permutations(Block)
=============================================================================
