CONSTANTS
    a1 = a1
    a2 = a2
    Nothing = Nothing
    Assets <- TwoAssets
    AssetOrder <- InOrder
    Proxied <- FirstProxied
    PreviewBytes = 1
    ProxyBytes = 2
    MapBytes = 1
    Budget = 3
    Budgets <- SmallAndLarge
    Fragile <- FragilePreview
    Hosts <- SixHosts
    MaxLink = 1
    MaxAsks = 3
SPECIFICATION JobsSpec
INVARIANTS
    NoStrangers
PROPERTIES
    ContentIsOwn
    LeastRecentlyUsed
    EveryPreviewTurn
CHECK_DEADLOCK FALSE
