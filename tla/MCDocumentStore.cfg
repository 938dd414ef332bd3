\* Two of three files open at once, four texts. The limits are met by one long
\* document with two use sites, and by one long and one wide document.
CONSTANTS
    script1 = script1
    script2 = script2
    locfile = locfile
    run = run
    long = long
    wide = wide
    key1 = key1
    key2 = key2
    key3 = key3
    key4 = key4
    Uris = {script1, script2, locfile}
    Scripts = {script1, script2}
    Contents = {long, wide}
    Length <- ContentLength
    Lines <- ContentLines
    LocBytes <- ContentLoc
    Keys = {key1, key2, key3, key4}
    Sites <- ContentSites
    NoTree = NoTree
    NoTask = NoTask
    Tasks = {run}
    TableSize <- HashCapacity
    MaxDocument = 27
    MaxOpen = 2
    MaxRetained = 50
    MaxTexts = 4
    MaxRules = 2
SPECIFICATION Spec
SYMMETRY Symmetry
INVARIANTS TypeOK Accounted NothingLeft LimitsHold SitesOfTree
PROPERTY OverLimitOnlyBySites
CHECK_DEADLOCK FALSE
