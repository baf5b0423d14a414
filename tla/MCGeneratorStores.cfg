CONSTANTS
    Undefined = Undefined
    Null = Null
    Default = Default
    MaxRuns = 1
    SharedProcess = FALSE
    Names <- MCNames
    Packages <- MCPackages
    AppNameUpper = "Tla"
    ImportPackage = "com.acme.tla"
    ModelFiles <- MCStoreModelFiles
    IndexingChoices <- MCIndexingChoices
    CachingChoices <- MCCachingChoices
    MetricsChoices <- MCMetricsChoices
    FeatureChoices <- MCOneFeature
SPECIFICATION Spec
INVARIANTS
    SlugAgreesWithPoolQuestion
CHECK_DEADLOCK FALSE
