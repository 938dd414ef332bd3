CONSTANTS
    file1 = file1
    file2 = file2
    background = background
    command = command
    Files = {file1, file2}
    Commands = {command}
    Background = {}
    Windows = {1, 2}
    Cap = 4
    MaxWrites = 2
    MaxFaults = 1
    Editable = {}
    Removable = {file1}
SPECIFICATION Spec
INVARIANTS StaleIsDetected NoEventStranded
CHECK_DEADLOCK FALSE
