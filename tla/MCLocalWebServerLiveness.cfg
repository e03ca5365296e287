SPECIFICATION FairSpec
CONSTANTS
    Connections = {c1, c2}
    c1 = c1
    c2 = c2
    MaxConnections = 1
    MaxBody = 1
PROPERTIES
    SlotsComeBack
