CONSTANTS
    Channels = {0, 1}
    Methods <- MCMethods
    Writes <- MCWrites
SPECIFICATION Spec
INVARIANTS TrapsMatch AwaitedNotHappened
