SPECIFICATION FairSpec
CONSTANTS
    c1 = c1
    c2 = c2
    n1 = n1
    p1 = p1
    w1 = w1
    x = x
    Nothing = Nothing
    Client <- TwoClients
    Name <- OneName
    Passwd <- OnePasswd
    Word <- Words
    DictWord <- DictWords
    MaxRequests = 2
INVARIANTS
    InStep
PROPERTIES
    ImplementsService
    EveryRequestEnds
