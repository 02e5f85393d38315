\* The call returns: no step is enabled then.
CHECK_DEADLOCK FALSE
SPECIFICATION Spec
CONSTANTS
    Frames <- MCFrames
    Rooms <- MCRooms
    HeaderSizes <- MCHeaderSizes
INVARIANTS
    TypeOK
    AddsUnitsInOrder
    ResultTellsWhatIsLeft
