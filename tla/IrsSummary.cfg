SPECIFICATION Spec

CONSTANTS
    yes = yes
    no = no
    title = title
    para = para
    wrapped = wrapped
    Texts = {yes, no, title, para, wrapped}
    Length <- MCLength
    Breaks <- MCBreaks
    MaxSentences = 4
    Documents <- MCDocuments
    MAX_SENT_NUMBER = 2

INVARIANTS
    TypeOK
    SortKeeps
    SortedUpToLast
    InArray
    SummaryShape
    PlainSummary
