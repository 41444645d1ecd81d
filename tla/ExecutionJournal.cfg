SPECIFICATION JournalSpec
CONSTANT MaxClock = 2
INVARIANTS
    Reopenable
PROPERTIES
    ImplementsLifecycle
