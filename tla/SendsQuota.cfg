CONSTANTS
    Requests = {r1, r2}
    Limit = 1
    BulkSize = 2
    MaxSends = 2
SPECIFICATION Spec
SYMMETRY Symmetric
CHECK_DEADLOCK FALSE
INVARIANTS
    UsageBalances
    LimitOverrunBounded
    AnswersTruthful
    MessagesKept
