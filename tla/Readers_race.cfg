\* One caller of all four functions in a tree others rearrange, or one cache
\* of a file others write: integers up to 2, three inodes, two ticks.
CONSTANTS
    Root = root
    dir1 = D
    dir2 = E
    name1 = n
    name2 = m
    Dirs <- TwoDirs
    Files = {f}
    Others = {p}
    Links = {l}
    Alias = m
    Slots <- SomeSlots
    Paths <- SomePaths
    None = none
    Inodes = {i, j, k}
    Widest = 2
    MaxGen = 2
    MaxTick = 1
SPECIFICATION AnySpec
INVARIANTS NoLinkOpened RemovesWhatItFound FreshIsCurrent
PROPERTIES AnswersAsPromised CallReturns LimitIsExact CatchesUp
CHECK_DEADLOCK FALSE
