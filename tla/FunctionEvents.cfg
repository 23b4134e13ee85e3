SPECIFICATION FairSpec
CONSTANTS
    Outs = {2}
    PerEndpoint = 1
    InMax = 1
    Quirks = {TRUE, FALSE}
    Request <- HostRequests
    NoRequest = NoRequest
INVARIANTS NeverDeaf StaysAlive KnowsWhetherEnabled OutsServed
PROPERTIES AnswersOnce Answered ServesAgain
CHECK_DEADLOCK FALSE
