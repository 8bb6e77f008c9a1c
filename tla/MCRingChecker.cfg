CONSTANTS
    good = good  good2 = good2  bad = bad  gone = gone
    Workers = {w1, w2}
    Inputs <- MCInputs
    Bodies <- MCBodies
    Resolvable = {good, good2, bad}
    Signed = {good, good2, gone}
    NoInput = NoInput
    MaxWork = 3
SPECIFICATION FairSpec
INVARIANTS
    AnswerExact
PROPERTIES
    CallReturns
    DestructorReturns
