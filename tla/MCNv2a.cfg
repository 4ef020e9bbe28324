\* A 2-entry cache; the interrupts are enabled before or after the doorbell.
CONSTANTS
    CacheSize = 2
    DmaLen = 14
    Ramht <- MCRamht
    ChannelOf <- MCChannelOf
    Programs <- MCPrograms
    Channels = {0, 1}
    Scripts <- MCScripts
SPECIFICATION FairSpec
INVARIANTS MethodsInContext NoStaleInterrupt
PROPERTY AllExecuted
