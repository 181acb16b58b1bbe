\* Two threads, four requests, tickets that wrap: the queues, and that every request is answered.
CONSTANTS
    r1 = r1
    r2 = r2
    r3 = r3
    r4 = r4
    None = None
    Requests <- FourRequests
    Capacities = {1, 2}
    MaxParallelism = 2
    TicketModulus = 3
SPECIFICATION StopSpec
INVARIANTS PoolIsExact NoStrandedSleeper
PROPERTIES ImplementsAnswerPool DropReturns EveryRequestAnswered
CHECK_DEADLOCK FALSE
