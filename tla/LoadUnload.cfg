\* Three callbacks at a word that can count two, any number of loads and unloads.
CONSTANTS
    Callbacks = {c1, c2, c3}
    CLOSED = 3
SPECIFICATION LiveSpec
INVARIANTS LifecycleIsWhole GateIsExact RuntimeOutlivesCallbacks
PROPERTIES LifecycleReturns
