CONSTANTS
    file1 = file1
    file2 = file2
    background = background
    command = command
    Files = {file1}
    Commands = {command}
    Background = {}
    Windows = {1, 2}
    Cap = 1
    MaxWrites = 0
    MaxFaults = 1
    Editable = {}
    Removable = {}
SPECIFICATION FairSpec
PROPERTY ScanReleased
CHECK_DEADLOCK FALSE
