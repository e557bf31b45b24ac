SPECIFICATION SearchSpec
CONSTANTS
    Texts <- MCTexts
    Drafts <- MCDrafts
    Keys <- MCKeys
    Rooms = {23, 25, 29, 31, 44}
    Leftovers <- MCLeftovers
    Junk <- MCJunk
    MaxTail = 3
    AskKey <- kAsk
    WhoServer <- MCWhoServer
    AnsKey <- kAns
    ImServer <- MCImServer
    TRIES = 5
    Strangers = 1
CHECK_DEADLOCK FALSE
INVARIANTS
    StaysInside
    AcceptsExactly
    FindsThePair
    ArrivesAsSent
    FindsItsServer
