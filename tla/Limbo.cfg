CONSTANTS
    Docs = {1, 2, 3}
    Queries = {q1, q2}
    MaxConcurrent = 1
    MaxQueued = 3
    MaxLookups = 2
SPECIFICATION Spec
INVARIANTS
    LookupsAgree
PROPERTIES
    LimboIsPursued
