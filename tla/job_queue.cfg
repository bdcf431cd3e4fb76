SPECIFICATION QueueSpec
CONSTANTS
    Addr = {1, 2, 3}
    JobSet <- JobsOfTwoUsers
    FairOrders <- SomeFairOrders
INVARIANTS
    ListWellFormed
PROPERTIES
    ImplementsSequence
