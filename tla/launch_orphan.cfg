SPECIFICATION Spec
CONSTANTS
    Device = {1, 2}
    Display = {1}
    Pinnable = {1, 2}
    Pid = {p1, p2}
    None = None
    Features = {"hugepages", "tasmota", "ddc", "lg"}
    Faults = {"cgroup"}
INVARIANTS
    IdleMeansNoQemu
