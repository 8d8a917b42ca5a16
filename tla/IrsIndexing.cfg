SPECIFICATION IndexingSpec

CONSTANTS
    d1 = d1
    d2 = d2
    d3 = d3
    d4 = d4
    car = car
    carpet = carpet
    red = red
    blue = blue
    Docs = {d1, d2, d3, d4}
    Terms = {car, carpet, red, blue}
    Tokens <- MCTokens
    Spelling <- MCSpelling
    Substrings <- MCSubstrings
    Text <- MCText
    DocOffset <- MCDocOffset
    Lists <- MCLists

INVARIANTS
    IndexingTypeOK
    AnnouncedIsComputed
    NeverUnderAnnounced
    BuildsIndex
