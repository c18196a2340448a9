CONSTANTS
    Count = 2
    RetryFlag = TRUE
    RetryLimit = 1
SPECIFICATION LiveSpec
CHECK_DEADLOCK FALSE
INVARIANTS CompCtExact AnswerIsCurrent
PROPERTIES Ends
