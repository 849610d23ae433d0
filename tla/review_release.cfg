SPECIFICATION Spec
CONSTANTS
    hero = hero  portrait = portrait
    Requests = {p1, p2}
    Assets <- MCAssets
    Media <- MCMedia
    Relations <- MCRelations
    None = None
    MaxRevisions = 2
    MaxReviews = 3
    MaxReleases = 1
    MaxRelations = 2
    MaxScans = 1
    MaxQa = 1
    MaxTroubles = 1
SYMMETRY MCSymmetry
INVARIANTS TypeOK RebuildAgrees CurrentWasApproved ReleaseConsistent NoDeadlock
    PointerHasManifest PublishedIsReleased
CHECK_DEADLOCK FALSE
