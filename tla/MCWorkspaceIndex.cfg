CONSTANTS
    file1 = file1
    file2 = file2
    background = background
    command = command
    Files = {file1, file2}
    Commands = {command}
    Background = {}
    Windows = {1, 2}
    Cap = 1
    MaxWrites = 1
    MaxFaults = 1
    Editable = {file1}
    Removable = {file1}
SPECIFICATION FairSpec
INVARIANTS TypeOK OneScanAtATime OneBatchAtATime NoEventStranded
PROPERTIES ScanReturnsFlag EventsTaken
CHECK_DEADLOCK FALSE
