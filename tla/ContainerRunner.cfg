CONSTANTS
    i1 = i1  i2 = i2  i3 = i3
    web = web  api = api  db = db
    img1 = img1  img2 = img2
    sA = sA  sB = sB
    NoDeclaration = NoDeclaration
    NoContainer = NoContainer
    NoId = NoId
    NoSuffix = NoSuffix
    NoVolumes = NoVolumes
    PartialVolumes = PartialVolumes
    Ids <- MCIds
    RawNames <- MCRawNames
    Images <- MCImages
    Suffixes <- MCSuffixes
    Declarations <- MCDeclarations
    InitialHosts <- MCInitialHosts
SPECIFICATION Spec
INVARIANTS
    TypeOK
    AtMostOneKonlet
    
    VolumesOfFreshContainers
    NothingStaleOnceDone
PROPERTIES
    ForeignContainersSurvive
    ImplementsRecreate
