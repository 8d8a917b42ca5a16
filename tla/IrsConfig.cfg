SPECIFICATION Spec

CONSTANTS
    Names <- MCNames
    CommandLines <- MCCommandLines
    Directories <- MCDirectories
    Paths <- MCPaths
    KeyFiles <- MCKeyFiles
    Number <- MCNumber
    NotANumber = NotANumber
    Addresses <- MCAddresses
    Trees <- MCTrees
    Barred <- MCBarred
    Lineless <- MCLineless
    Overlong <- MCOverlong

INVARIANTS
    TypeOK
    ConfigFromCommandLine
    DataBesideConfig
    StartsAsConfigured
