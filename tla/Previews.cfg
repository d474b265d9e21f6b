CONSTANTS
    Nothing = Nothing
    a1 = a1
    a2 = a2
    Assets <- TwoAssets
    Starts <- Sessions
SPECIFICATION PreviewsSpec
PROPERTIES
    LatestIsShown
    TransportPresents
    NothingOlder
CHECK_DEADLOCK FALSE
