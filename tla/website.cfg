SPECIFICATION RetrySpec
CONSTANTS
    None = None
    Editors = {e1, e2}
    p1 = p1  p2 = p2
    plain = plain  text = text  wide = wide  moved = moved  kept = kept
    new = new  keep = keep  skip = skip
    Pages = {p1, p2}
    FirstTree <- AllPlain
    Trees = {plain, text, wide, moved, kept}
    Shape <- Shapes
    Uses <- Shows
    Datasets = {d1}
    Sites <- Websites
    ReleaseIds = {n1, n2, n3}
    MigrationIds = {m1}
    Resolutions = {new, keep, skip}
    Merge <- Merges
    Leaves <- Left
    RevisionLimit = 2
INVARIANTS SiteInv
PROPERTIES NoDraftLost RestrictedKeepsShape AppliedIsWritten KeepsAlbum RetriesComplete
CHECK_DEADLOCK FALSE
