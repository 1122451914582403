\* Two operator calls at a time.
CONSTANTS
    Writers = {w1, w2}
    Readers = {}
    Consoles = {c, d}
    Persons = {p, q}
    NoOne = NoOne
    MaxWrites = 2
    RedisFails = FALSE
SYMMETRY Symmetry
SPECIFICATION CutoverSpec
INVARIANT RollbackSafe
