SPECIFICATION RecipeSpec

CONSTANTS
    pasta = pasta
    Recipe <- MCRecipe
    MaxRequests = 4
    MaxFaults = 1

INVARIANT DoubledOnlyByOverlap

PROPERTIES
    DeletedStaysDeleted
    DeletionAnnounced
    FollowsLife
