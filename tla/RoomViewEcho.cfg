\* A room with two messages, of which a page shows one, opened once.
SPECIFICATION Spec
CONSTANTS
    History = 2
    MaxLog = 3
    PageSize = 1
    MaxSends = 1
    MaxViews = 1
    MaxTries = 2
    MaxTroubles = 0
PROPERTIES EchoReplacesOptimistic
CHECK_DEADLOCK FALSE
