\* Two units, one of them the page's own; room for one frame in the queue, one
\* on the wire and one item on the board, and for one unit in the list.
SPECIFICATION Spec
CONSTANTS
    Units = {u1, u2}
    Own = {u1}
    Sockets = {s1, s2}
    QueueCap = 1
    WireCap = 1
    BoardCap = 1
    ListLimit = 1
    MaxTimers = 3
    NoSocket = NoSocket
    NoUnit = NoUnit
INVARIANTS FramesAccounted BoardLacksOnlyWhatWasDropped OneFeed
PROPERTIES Reconnects
