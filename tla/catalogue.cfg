SPECIFICATION MCSpec
CONSTANTS
    catan = catan
    go = go
    casero = casero
    last = last
    Games <- MCGames
    HandMade = {casero}
    NoName = NoName
    Names <- MCNames
    Queries <- MCQueries
    Matches <- MCMatches
    Long <- MCQueries
    BggAnswers <- MCBggAnswers
    Storable <- MCStorable
    CacheLimit = 2
    MaxAttempts = 2
    Searches = {s1, s2, last}
    NoSearch = NoSearch
    Users = {ana}
    MaxRequests = 2
    MaxHidden = 1
INVARIANTS CoalescedMisses ExplicitChoiceWins
PROPERTY SearchesEnd
CHECK_DEADLOCK FALSE
