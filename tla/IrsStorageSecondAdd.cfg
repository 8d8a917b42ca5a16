SPECIFICATION Spec

CONSTANTS
    d1 = d1
    d2 = d2
    d3 = d3
    d4 = d4
    car = car
    carpet = carpet
    red = red
    blue = blue
    Docs = {d1, d2, d3, d4}
    Terms = {car, carpet, red, blue}
    LongTerms = {carpet}
    Tokens <- MCTokens
    Spelling <- MCSpelling
    Substrings <- MCSubstrings
    DocSize <- MCDocSize
    SigSize = 3
    TermRank <- MCTermRank
    Batches <- MCBatches
    Queries <- MCQueries
    MaxAdds = 2
    MaxStarts = 2

CHECK_DEADLOCK FALSE

INVARIANT IdleIndexResolves
