\* Every interleaving of the two cores from reset to their loops, then the LED.
SPECIFICATION Spec
CONSTANTS
    Channels = {0, 1, 2}
    RadioPio = 0
    BlinkTicks = 3
    CheckTicks = 1
INVARIANTS ClockExact NoPanic BondsWritable LedShowsLink
PROPERTY LoopEntered
\* Both cores stop for good when the radio does not start (main.c:186).
CHECK_DEADLOCK FALSE
