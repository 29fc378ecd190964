\* A command buffer that `vm start` fills exactly; enough keys to overrun it, or to take
\* two of three characters back, or to beep while a line with a number is printed.
SPECIFICATION Spec
CONSTANTS
    MaxLen = 3
    RxSize = 2
    MaxTyped = 4
    Address = 2748
INVARIANTS
    TypeOK
    InputEnds
    LineIntact
    CommandIsScreen
PROPERTIES
    KeysTaken
