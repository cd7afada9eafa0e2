SPECIFICATION FairSpec
CONSTANTS
  Text = {t1, t2, bad}
  Valid = {t1, t2}
  NoConfig = NoConfig
INVARIANTS LifecycleTypeOK ReloadNeedsValidFile
PROPERTIES ReloadApplies SignalsAreTaken
