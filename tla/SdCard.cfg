SPECIFICATION SdSpec
CONSTANT First = 255
CONSTANT Count = 2
CONSTANT Bytes = 2
CONSTANT Patterns = {0, 254}
CONSTANT Waits = {0, 5}
CONSTANT Statuses = {0, 4}
CONSTANT Errors = {8}
CONSTANT Models = {"SD1", "SD2", "SDHC"}
INVARIANT OwnStatus
INVARIANT SectorsPacked
PROPERTY ReadEnds
