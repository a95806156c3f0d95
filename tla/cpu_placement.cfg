SPECIFICATION PlacementSpec
CONSTANTS
    Vm = {1, 2}
    Cpu = {0, 1, 2, 3}
    Node = {0, 1}
    NodeOf <- MCNodeOf
    Layouts <- MCLayouts
    Device <- MCDevice
    DevicesOf <- MCDevicesOf
    DevNode <- MCDevNode
    Gpus = {1, 2}
    Slot <- MCSlot
    Func <- MCFunc
    MaxVector = 1
    MaxEvents = 1
INVARIANTS
    PlacementTypeOK
    PinnedOneToOne
    IrqsLocal
PROPERTIES
    PlanAgrees
    SwitchAfterAll
    PinsLostToOthersOnly
    IrqsEventuallyPinned
    WorkerEnds
