CONSTANTS
    Undefined = Undefined
    Null = Null
    Default = Default
    MaxRuns = 2
    SharedProcess = FALSE
    Names <- MCRNames
    Packages <- MCRPackages
    AppNameUpper = "Tla"
    ImportPackage = "com.acme.tla"
    ModelFiles <- MCRModelFiles
    StoreChoices <- MCRStoreChoices
    IndexingChoices <- MCRIndexingChoices
    CachingChoices <- MCRCachingChoices
    MetricsChoices <- MCRMetricsChoices
    FeatureChoices <- MCRFeatureChoices
    ModuleDirs <- MCModuleDirs
    Listing <- MCListing
    ConfigModules <- MCConfigModules
    MaxCopyFailures = 1
    AnswerChoices <- MCRAnswerChoices
SPECIFICATION RSpec
INVARIANT ModulesOnDiskAtCommit
CHECK_DEADLOCK FALSE
