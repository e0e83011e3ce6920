SPECIFICATION MCSpec
CONSTANTS
    Parts = {"jobs", "taxonomies", "taxons", "models", "assets", "catalogue",
             "merging", "files", "tenants", "trainings",
             "preprocessing"}
    s1 = s1
    s2 = s2
    User <- ThreeUsers
    Jobs <- SomeJobs
    Changes <- SomeChanges
    JobFaults = {"down", "lost"}
    MaxJobFaults = 1
    FileId = {1, 12}
    DatasetName = {"d"}
    GotenbergFormats = {"txt", "tiff"}
    ImageFormats = {"png", "tiff"}
    Uploads <- SomeUploads
    Imports <- SomeImports
    S3Keys = {"pdf"}
    UploadingLimit = 2
    AssetFaults = {"storage", "convert", "database", "crash"}
    MaxAssetFaults = 1
    Tenant = {"home", "t2"}
    Person = {"u"}
    Caller <- Callers
    UserSession = {s1, s2}
    Home = "home"
    ModelSession = {s1, s2}
    MaxModelVersion = 2
    ModelFaults = {"api", "crash"}
    MaxModelFaults = 1
    TaxonomyId = {"a"}
    TaxTenant = {"t1", "t2"}
    TaxSession = {s1, s2}
    LinkRequests <- OneLink
    MaxTaxonomyVersion = 3
    TaxonId = {"a", "b", "c"}
    Default = {"c"}
    TaxonSession = {s1, s2}
    Basement = {"b1", "b2"}
    Training = {1}
    TrainSession = {s1, s2}
    MaxExports = 2
    PipelineId = {1, 2, 3}
    PipelineName = {"p", "q"}
    FirstVersion = {1}
    Trees <- TwoTrees
    TaskId = {1}
    PageSize = 1
    CatalogueFaults = {"end", "undeployed"}
    MergeTask = {"t", "u"}
    Dirs <- TwoDirs
    StepsOf <- TwoSteps
    Shapes <- ThreeShapes
    MergeFaults = {"read", "post", "remove"}
    JobFile = {1, 2, 3, 4}
    JobDataset = {1, 2}
    PagesIn <- PagesOfFour
    FileRequests <- SomeRequests
    SearchSize = 3
    BatchPages = 2
    MaxFileChanges = 2
    Batch = {1, 2}
    PageCount <- PagesOfTwo
    RunRequests <- SomeRuns
    PagesPerBatch = 2
    SearchLimit = 3
    MaxTasks = 1
    Attempts = 2
    MaxExecutions = 3
    MaxPreFaults = 1
SYMMETRY Interchangeable
INVARIANTS
    PartsInOrder
    JobHasItsFiles
    TenantsAgree
    StatusesAgree
    LatestIsHighest
    ParentsAgree
    DeploymentAgrees
    CountsAreBonds
    UploadsAreServed
    ResultsFollowSteps
CHECK_DEADLOCK FALSE
