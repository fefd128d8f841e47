CONSTANTS
    w1 = w1
    w2 = w2
    Junk = Junk
    Worker = {w1, w2}
    Packet <- MCPacket
    Part <- MCPart
    Legit <- MCLegit
    MaxPackets = 2
    MaxInt = 2000
    Rooms = {1, 2}
    SPMaps = {1}
    Sprites = {1, 2}
    Systems = {1}
    Pictures = {1}
    BattleAnims = {7}
SPECIFICATION Spec
INVARIANTS AllOrNothing LegitDelivered DataValid RoommatesAgree
SYMMETRY Symmetries
