SPECIFICATION GxSpec
CONSTANTS
    GxSlots = 2
    GxFormats = {"TRIANGLES"}
    GxBatch = 4
    PolyListSize = 2
    MaxVertices = 3
    MaxQueue = 4
    WaitsForSwap = FALSE
INVARIANTS PolygonsExact
CHECK_DEADLOCK FALSE
