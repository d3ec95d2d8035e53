\* A room with two messages, of which a page shows one, opened up to twice.
SPECIFICATION Spec
CONSTANTS
    History = 2
    MaxLog = 3
    PageSize = 1
    MaxSends = 1
    MaxViews = 2
    MaxTries = 2
    MaxTroubles = 2
INVARIANTS TypeOK ListsAgree PagesAreWhole NothingMissed OneFeed
PROPERTIES OthersStay PagesEnd
CHECK_DEADLOCK FALSE
