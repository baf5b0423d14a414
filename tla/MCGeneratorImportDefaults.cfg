CONSTANTS
    Undefined = Undefined
    Null = Null
    Default = Default
    MaxRuns = 2
    SharedProcess = FALSE
    Names <- MCNames
    Packages <- MCPackages
    AppNameUpper = "Tla"
    ImportPackage = "com.acme.tla"
    ModelFiles <- MCModelFiles
    StoreChoices <- MCStoreChoices
    IndexingChoices <- MCIndexingChoices
    CachingChoices <- MCCachingChoices
    MetricsChoices <- MCMetricsChoices
    FeatureChoices <- MCFeatureChoices

SPECIFICATION Spec
INVARIANT
    ImportedDefaultsKept
CHECK_DEADLOCK FALSE
