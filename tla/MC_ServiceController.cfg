CONSTANTS
  Plugins = {"proxy"}
  Interval <- MCInterval
  MaxStarts = 2
  MaxElapsed = 4
SPECIFICATION ControllerSpec
INVARIANTS
  ControllerTypeOK
  OneWatchdog
  NoFalseAlarm
PROPERTIES
  StoppedIsSilent
  OffersSource
  StatusIsPublished
