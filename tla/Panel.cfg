SPECIFICATION MCSpec
CONSTANTS
    N = 2
    Services = {1}
    ServiceStarts = 2
    TaskStarts = 1
    NavRetries = 1
    MaxShows = 4
    MaxTaskbars = 1
    HiddenEvery = 2
    Clickers = {"page"}
    MaxOps = 1
    FeedShows = 2
INVARIANTS
    ChildrenAreAccountedFor
    WindowIsTrue
PROPERTIES
    EverythingSettles
CHECK_DEADLOCK FALSE
