CONSTANTS
    Servers <- StunAndTurn
    Timeout = 2
    MaxSleep = 2
    Clock = 5
    SocketLen = 2
    Requests = 2
    InboxLen = 1
    OutOfMemory = TRUE
SPECIFICATION Spec
INVARIANTS TypeOK AnswerTaken WaitIsTimed OneResponse
PROPERTIES MailboxIsQueue OfferIsMade
