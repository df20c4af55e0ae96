CONSTANTS
    Byte <- Symbol
    Junk = ""
    Roles = {"server", "job", "sync"}
    MaxLine = 4
    MaxBody = 2
    InitSize = 4
    Delta = 2
    MaxSize = 12
    MaxWrite = 0
    Requests <- MCRequests
    Responses <- MCResponses
    MaxTexts <- MCMaxTexts
SPECIFICATION HttpSpec
INVARIANTS ReadsWhatWasSent
PROPERTIES AnsweredOnce QueryEnds

