SPECIFICATION FairSpec
CONSTANTS
  Names = {n1, n2}
  Threads = {t1, t2}
  NoThread = NoThread
  Failing = {n1}
  Faces = {f1}
  MaxMailbox = 2
INVARIANTS
  TypeOK
  CreatedOnce
  CancelledIsOutcome
  CancelReachesWorker
PROPERTIES
  NeverBegunLate
  Answered
  
