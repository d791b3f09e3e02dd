SPECIFICATION Spec
CONSTANT Chars = {"a", "b", "c", "q"}
CONSTANT NameLen = 3
CONSTANT MaxMusics = 2
CONSTANT MaxFiles = 3
CONSTANT BugLen = 4
CONSTANT Cards <- MCSeparated
CONSTANT MayFail = {}
INVARIANT PlaylistsSeparated
