\* Streaks of messages of either end and answers, of up to three bytes, a buffer of two
\* bytes, one end that may die.
CONSTANTS
    Conversations <- MCConversations
    BufferSize = 2
    MaxDeaths = 1
SPECIFICATION Spec
INVARIANTS ReturnsWhole NoneThrownAway
PROPERTIES OutlivesSender
CHECK_DEADLOCK FALSE
