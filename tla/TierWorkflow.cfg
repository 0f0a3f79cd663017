CONSTANTS
  a = a
  b = b
  Versions <- MCVersions
  Configs <- MCConfigs
  MaxEntries = 3
SPECIFICATION TiersSpec
INVARIANTS StagedOnePinPerObject
PROPERTIES NewestWaitingSurvives ReleaseNeverRegresses AutoPromotionSettles SyncSupplants
