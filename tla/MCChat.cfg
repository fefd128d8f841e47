CONSTANTS
    ann = ann
    p1 = p1
    bob = bob
    Account = {ann, bob}
    Conn = {c1, c2}
    Req = {q1, q2}
    Room = {1, 2}
    SPMaps = {2}
    Party = {p1}
    Channels = {"Global", "Map", "Party"}
    Blocks0 <- OneBlock
    Parties0 <- MCParties0
    Rooms0 <- MCRooms0
    MaxMessages = 1
    MaxChanges = 2
    None = None
SPECIFICATION Spec
INVARIANTS BlockedSilent HeardWhereMeant 
SYMMETRY Symmetries
