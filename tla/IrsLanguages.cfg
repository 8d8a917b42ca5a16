SPECIFICATION Spec

CONSTANTS
    English = English
    French = French
    American = American
    the = the
    le = le
    l = l
    on = on
    tie = tie
    USA = USA
    Us = Us
    US = US
    longWord = longWord
    ea = ea
    ga = ga
    d1 = d1
    d2 = d2
    d3 = d3
    d4 = d4
    Words = {English, French, American, the, le, l, on, tie, USA, Us, US,
             longWord, ea, ga}
    Size <- MCSize
    MAX_LENGTH = 7
    Shorter <- MCShorter
    FirstByte <- MCFirstByte
    Alike <- MCAlike
    OtherCase <- MCOtherCase
    Files <- MCFiles
    Disks <- MCDisks
    Docs = {d1, d2, d3, d4}
    Tokens <- MCTokens
    Bytes <- MCBytes
    Requests <- MCRequests

INVARIANTS
    TypeOK
    LoadedOnce
    KeyWordLanguage
    AlphabetLanguage
