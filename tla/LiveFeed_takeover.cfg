\* The same instance, for what happens between the list and the subscription.
SPECIFICATION Spec
CONSTANTS
    Units = {u1, u2}
    Own = {u1}
    Sockets = {s1, s2}
    QueueCap = 1
    WireCap = 1
    BoardCap = 1
    ListLimit = 2
    MaxTimers = 3
    NoSocket = NoSocket
    NoUnit = NoUnit
INVARIANT LiveEventsTakeOver
