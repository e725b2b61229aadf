CONSTANTS
  Thread = {t1, t2}
  NoThread = NoThread
  a1 = a1
  a2 = a2
  i1 = i1
  Arena = {a1, a2}
  Block = {b1, b2}
  NoBlock = NoBlock
  initialBlock <- InitialBlocks
  InitialSize = 4
  StartSize = 3
  MaxSize = 6
  HeaderSize = 1
  InfoSize = 1
  ChunkMin = 1
  ChunkMax = 2
  Bytes = {0, 2}
  MaxCalls = 3
  MaxLives = 2
SPECIFICATION Spec
SYMMETRY Symmetry
VIEW View
INVARIANTS TypeOK OwnBlock NoBlockLost SpaceAgrees CleanedInReverse
PROPERTY KeepsPromise
\* The threads stop after MaxCalls calls and MaxLives lives of the arenas.
CHECK_DEADLOCK FALSE
