SPECIFICATION FairSpec
CONSTANTS
    Device = {1, 2}
    Display = {1}
    Pinnable = {1, 2}
    Pid = {p1, p2}
    None = None
    Features = {"hugepages", "tasmota", "ddc", "lg"}
    Faults = {}
PROPERTIES
    ShutdownPathReachesIdle
