CONSTANTS
    Undefined = Undefined
    Null = Null
    Entities <- MCEntities
    Composites <- MCComposites
INIT Init
NEXT Next
INVARIANTS
    TypeOK
    DeclarationsInListOrder
    ImportsCoverDeclarations
    ConfigDefaultsFollowTable
    DocCommentsMirrorPropertyFile
