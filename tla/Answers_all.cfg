SPECIFICATION Spec
CONSTANTS
    Letters <- MCLetters
    TextBlocks = {"t1"}
    ToolBlocks = {"u1"}
    Messages = {"m1"}
    Pieces <- MCPieces
    Arguments <- MCArguments
    Lookahead = 3
    MaxText = 6
    MaxInput = 4
    MaxSent = 7
INVARIANTS TypeOK NothingListedShown ShownAsJudged
 
CHECK_DEADLOCK FALSE
