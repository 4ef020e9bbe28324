\* A 2-entry cache, smaller than the longest method command, so that the
\* pusher is suspended in mid-method; the guest opens and closes every access
\* bit, and the device is unplugged at any time.  The emulator may stop: it
\* aborts on a bad command, and its threads end when the device is unplugged.
CONSTANTS
    CacheSize = 2
    DmaLen = 10
    Ramht <- MCRamht
    Programs <- MCPrograms
    FreeRegs = {"PUSH0", "DMA_PUSH", "PULL0"}
    MayExit = TRUE
SPECIFICATION FairSpec
INVARIANTS NoLostWakeup StreamInOrder
PROPERTIES IsMethodQueue AllExecuted SleepersExit
CHECK_DEADLOCK FALSE
