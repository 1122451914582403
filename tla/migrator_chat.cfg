\* One operator call at a time, two writers and a reader of the row, Redis that
\* fails the SDK; a repair of two rows; two generations of one conversation,
\* which bear the names of the two writers.
CONSTANTS
    Writers = {first, second}
    Readers = {reader1}
    Consoles = {console}
    Persons = {p, q}
    NoOne = NoOne
    MaxWrites = 2
    RedisFails = TRUE
    Versioned = TRUE
    LastPK = 2
    PageSize = 1
    MaxRequests = 2
    Gens = {first, second}
    MaxEvents = 1
    MaxRounds = 1
SYMMETRY Symmetry
SPECIFICATION MigratorChatSpec
INVARIANTS
    CutoverTypeOK
    LosesNothing
    RollbackSafe
    ReadsLatest
    TwoPersons
    FoundOut
    ResumeInOrder
    SavedBeforeTold
PROPERTIES
    InOrder
\* A part moves up to its bounds, and the others stand still.
CHECK_DEADLOCK FALSE
