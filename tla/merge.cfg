\* Up to two appends of six shards, then bookmarks of up to four entries: by a
\* host that uses the Assembly itself, and by merge() with changing inputs.
SPECIFICATION MergeSpec
CONSTANTS
    mediaBox = mediaBox
    resources = resources
    Keys = {mediaBox, resources}
    Calls <- CallSet
    Shards <- ShardSet
    Outlines <- OutlineSet
    MaxEntries = 4
    MaxAppends = 2
    Faults = {"write", "callback"}
INVARIANTS
    TypeOK
    XrefResolves
    PagesInOrder
    PagesInherit
    DestsResolve
    OutlineTree
    ResultsMatch
    OutlineAsGiven
