SPECIFICATION Spec
CONSTANTS
    None = None
    Day = 8
    Week = 2
    Resources = {1, 2, 3, 4}
    Services = {"talk", "course"}
    Setup <- Staff
    Offer <- TalkAndCourse
    Ids = {1, 2}
    Zones <- SomeZones
    Times = {9}
    FirstHours <- Office
    FirstOwn <- BobOnly
    FirstOffers <- CourseOnly
    Choosers = {4}
    Hours <- OfficeOrSplit
    Exceptions <- AllKinds
    Days = {1, 2}
    MaxGroup = 2
    MaxChanges = 2
INVARIANTS LocalHours WeeksCutToFit AssessIsExact OffersAreExact PreviewAgrees
CHECK_DEADLOCK FALSE
