SPECIFICATION Spec
CONSTANTS
    HashRange = 8
    Node = {1}
    Dest = {1}
    Interface = {1}
    Addresses = {1, 2}
    AnyInterface = AnyInterface
    NoFile = NoFile
    Lines <- MCLines
    Bad = Bad
    MaxWeight = 7
    Packets <- MCPackets
    m_respondToInterfaceEvents = TRUE
    MaxLines = 2
    MaxEdits = 1
    MaxRoutes = 3
    MaxLookups = 2
INVARIANTS
    TypeOK
    SharesFollowWeights
    OnePathPerFlow
    ZeroWeightNeverTaken
