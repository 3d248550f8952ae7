SPECIFICATION AllSpec
CONSTANTS
    Author = {1, 2}
    Field = {k, l}
    Datum = {x, y}
    NoDatum = NoDatum
    Replica = {1, 2}
    AuthorOf <- OneEach
    Forgetful = {}
    MaxOps = 3
    Writer = {1, 2}
    Element = {e}
    Nil = Nil
    Deleter = {2}
    MaxEdits = 4
    MaxKnown = 4
    Counting = {r1, r2, r3}
    Amount = {2}
    MaxCounts = 3
INVARIANTS Convergence NeverStale NeverResurrected
INVARIANTS DocumentTypeOK ListsConverge ElementsOnce AuthorsOrder EveryCallCounts
PROPERTY MergeKeepsAll
SYMMETRY Symmetry
CHECK_DEADLOCK FALSE
