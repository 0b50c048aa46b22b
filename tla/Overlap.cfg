CONSTANTS
    i1 = i1  i2 = i2  i3 = i3
    web = web  api = api
    img = img
    sA = sA
    NoDeclaration = NoDeclaration
    NoContainer = NoContainer
    NoId = NoId
    NoSuffix = NoSuffix
    NoVolumes = NoVolumes
    PartialVolumes = PartialVolumes
    Ids <- MCIds
    RawNames <- MCRawNames
    Images <- MCImages
    Suffixes <- MCSuffixes
    Declarations <- MCDeclarations
    InitialHosts <- MCInitialHosts
SPECIFICATION OverlapSpec
INVARIANTS
    OverlapTypeOK
    OneKonletPerName
    LoneRunRepairs
    
SYMMETRY MCSymmetry
