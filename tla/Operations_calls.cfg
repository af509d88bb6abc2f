\* u64 of two bits, words of two bytes, batches of up to three requests.
SPECIFICATION Spec
CONSTANTS
    MaxU64 = 3
    Word = 2
    Height = 1
    MaxBatch = 3
    Tokens <- MCTokens
    Known <- MCKnown
INVARIANTS
    ResultsTrue
    FailsForCause
