CONSTANTS
    data = data  a = a  b = b
    NoRequest = NoRequest
    NoTarget = NoTarget
    Failed = Failed
    Names <- MCNames
    Disks <- MCDisks
    Devices <- MCDevices
    ForeignPoints <- MCForeignPoints
    InitialTables <- MCInitialTables
    InitialModes <- MCInitialModes
    Requests <- MCRequests
    MaxLayers = 2
    TransientFaults = FALSE
SPECIFICATION Spec
INVARIANTS
    TypeOK
    OnlyFailedUmountsLeft
    DeviceMountedOnce
    CheckedBeforeWritten
    BindNeverRefused
    BindsReachTheirVolumes
    NothingAccumulates
PROPERTIES
    RepairsOnlyIdleDisks
    NeverFormatsData
    ImplementsDiskUse
    RunsOut
