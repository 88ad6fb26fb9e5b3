SPECIFICATION Spec
CONSTANTS
    t1 = t1
    t2 = t2
    Tasks = {t1, t2}
    Plans <- Instances
    Size = 1
    Copies = 1
    MaxRuns = 4
INVARIANTS DoneIsDelivered DeliveredOnce NothingLost RunningHasWorker
PROPERTIES NeverReplaces FinishedStaysFinished LoopComesBack
CHECK_DEADLOCK FALSE
