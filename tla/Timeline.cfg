CONSTANTS
  v1 = v1
  v2 = v2
  a1 = a1
  media = media
  other = other
  t1 = t1
  Tracks = {v1, v2, a1}
  VideoTracks = {v1, v2}
  Assets = {media, other}
  AssetDuration <- MCAssetDuration
  NoAsset = NoAsset
  MaxClips = 6
  MaxLinks = 3
  Layouts <- MCLayouts
  NewClips <- MCNewClips
  Rates <- MCRates
  Horizon = 4
  TransitionIds = {t1}
  MaxEdits = 2
  MaxSelected = 2
  MaxBatches = 0
SPECIFICATION UserSpec
PROPERTIES
  MediaFollowsEdit
  LinkedStayTogether
  RippleMovesTogether
  LockedUntouched
CHECK_DEADLOCK FALSE
