SPECIFICATION Spec
CONSTANTS
    Device = {1, 2, 3}
    Display = {1}
    Pinnable = {1, 2}
    Pid = {p1, p2}
    None = None
    Features = {"hugepages", "tasmota", "ddc", "ddc_fatal", "lg"}
    Faults <- TrackedFaults
INVARIANTS
    SingleTrackedQemu
    HandleMatchesPhase
    TeardownComplete
PROPERTIES
    ImplementsAbstractVm
