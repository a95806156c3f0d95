SPECIFICATION MCServerSpec
CONSTANTS
    c1 = c1
    c2 = c2
    Client = {c1, c2}
    Parts = 2
    Room = 3
    Newline = Newline
    Torn = {c1, c2}
    MaxTick = 3
    MaxCommand <- OneTypes
INVARIANTS
    ServerTypeOK
    EventsOnce
    ViewGapless
    CommandsInOrder
    SentAccounted
