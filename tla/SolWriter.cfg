CONSTANTS
  None = None
  Subjects = {s1, s2}
  Sols = {1, 2}
  Captures = {A, B}
  Legacy = {s1}
  Batches <- LunaBatches
  Tokens = 3
  Crashes = 1
SPECIFICATION FairSolSpec
INVARIANTS
  OneNewestWriter
  HeadCanBegin
  CommittedIsWritten
  
PROPERTIES
  LeaseIsReleased
  WritesBehindFence
  FenceOutlastsPause
  ImplementsWriterQueue
CHECK_DEADLOCK FALSE
