SPECIFICATION OfficeSpec
CONSTANTS
    None = None
    ca = ca
    cb = cb
    cc = cc
    Cats = {ca, cb, cc}
    Names = {"Lens", "lens", "Body"}
    Lower <- MCLower
    MaxCategoryDepth = 2
    CategoryFiles <- MCFiles
    FirstTrees <- MCTrees
    Editors = {1, 2}
    Filers = {1, 2}
    Serials = {1, 2}
    RunLength = 2
    MaxEdits = 4
    MaxFilings = 2
    Dirs = {"d1"}
    Rules = {"digits", "alphanumeric"}
    Idles = {0, 5}
    Numbers = {"1", "A1"}
    Seeds <- MCSeeds
    Fits <- MCFits
    Savers = {1, 2}
    MaxSaves = 2
    MaxBoots = 2
    ann = ann
    ben = ben
    spareNo = spareNo
    People = {ann, ben, spareNo}
    ExampleNumbers = {ben}
    NumberRange <- MCRange
    Rosters <- MCRosters
    Databases <- MCDatabases
    Browsers = {1, 2}
    Importers = {1, 2}
    MaxCalls = 2
    MaxStarts = 2
PROPERTIES EditsHappenAtOnce
INVARIANTS
    TreeIsSound
    ImportIsIdempotent
    SavesStand
    
    FirstAdminIsFirst
    
    HoldersAreNotArchived
    
CHECK_DEADLOCK FALSE
