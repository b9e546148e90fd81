SPECIFICATION Spec
CONSTANTS
    FolderNames <- MCFolderNames
    Released <- MCReleased
    Contents <- MCContents
    MaxWrites = 2
INVARIANTS SchemaOfRevision RefusalsHaveReason
PROPERTY MeaningKept
