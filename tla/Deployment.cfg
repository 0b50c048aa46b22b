CONSTANTS
    i1 = i1  i2 = i2
    web = web  api = api  img = img  sA = sA
    data = data  a = a  b = b
    NoDeclaration = NoDeclaration
    NoContainer = NoContainer
    NoId = NoId
    NoSuffix = NoSuffix
    NoVolumes = NoVolumes
    PartialVolumes = PartialVolumes
    NoRequest = NoRequest
    NoTarget = NoTarget
    Failed = Failed
    NoBinds = NoBinds
    Ids <- MCIds
    RawNames <- MCRawNames
    Images <- MCImages
    Suffixes <- MCSuffixes
    Declarations <- MCDeclarations
    InitialHosts <- MCInitialHosts
    Names <- MCNames
    Disks <- MCDisks
    Devices <- MCDevices
    ForeignPoints <- MCForeignPoints
    InitialTables <- MCInitialTables
    InitialModes <- MCInitialModes
    Requests <- MCRequests
    VolumesOf <- MCVolumesOf
    MaxLayers = 2
    TransientFaults = FALSE
SPECIFICATION DeploymentFairSpec
INVARIANTS
    DeploymentTypeOK
    BindsLast
PROPERTIES
    
    RunsAdvance
    RetriesConverge
    EventuallyDeployed
