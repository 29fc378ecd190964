\* Three slots and eight elements: more than two turns around the buffer, and it can be full.
SPECIFICATION Spec
CONSTANTS
    Size = 3
    MaxItems = 8
INVARIANTS
    TypeOK
    NothingInvented
    SafeUntilRace
PROPERTIES
    KeyIsRead
    QueueSpec
\* The last element has been put in and taken out.
CHECK_DEADLOCK FALSE
