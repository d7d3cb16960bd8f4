CONSTANTS
    WordBits = 4
SPECIFICATION Spec
CHECK_DEADLOCK FALSE
INVARIANTS
    FeesAreExact
    NumbersAreExact
    JsonIsRead
    RecordsAreRead
    EventsAreTotal
    CallsAreHonest
    ImagesAreExact
    StructsAreExact
    TextsAreExact
    TokensAreBuilt
