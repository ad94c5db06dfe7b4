\* Two calls at one path with two directories, a file and a symlink, or one
\* probe that draws up to three names.
CONSTANTS
    Calls = {c1, c2}
    Dirs = {x, y}
    Occupants = {f}
    Links = {l}
    None = None
    MaxTries = 2
SPECIFICATION AnySpec
SYMMETRY Interchangeable
INVARIANTS VouchedArePrivate FoundDirsKept LeakedIsTrue StageIsTrue
