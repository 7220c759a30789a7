\* Four jobs against a queue of two: the queue fills, blocks and refills, and
\* both closers race every step.
CONSTANTS
  NumJobs = 4
  MaxQueueDepth = 2
  Closers = {shutdown, atexit}
SPECIFICATION FairSpec
INVARIANTS
  TypeOK
  UnfinishedIsOutstanding
  EachInOnePlace
  JobsInOrder
  StrandedAtMostOne
PROPERTIES
  JoinMeansSettled
  ImplementsLedger
  CloseReturns
  SubmitReturns
  JoinReturns
\* Everything may end: all jobs submitted, writer closed, thread gone.
CHECK_DEADLOCK FALSE
