CONSTANTS
    Undefined = Undefined
    Null = Null
    Entities <- MCEntities
    Composites <- MCComposites
INIT Init
NEXT Next
INVARIANT SampleWhenNoProperties
