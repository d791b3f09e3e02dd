SPECIFICATION Spec
CONSTANT Chars = {"a", "b", "c", "q"}
CONSTANT NameLen = 3
CONSTANT MaxMusics = 2
CONSTANT MaxFiles = 3
CONSTANT BugLen = 4
CONSTANT Cards <- MCCards
CONSTANT MayFail = {"musics", "images", "playlists", "playlist"}
INVARIANT NoStray
INVARIANT ImagesFound
INVARIANT PlaylistsComplete
INVARIANT MenuReady
