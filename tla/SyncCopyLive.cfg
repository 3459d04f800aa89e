SPECIFICATION FairSpec
CONSTANTS
  lamp = lamp
  song = song
  device = device
  playback = playback
  Entities = {lamp, song}
  Families = {device, playback}
  FamilyOf <- MCFamilyOf
  MaxQueued = 1
  MaxBuffered = 1
  MaxRevision = 2
  MaxAgain = 1
PROPERTIES
  Converges
CHECK_DEADLOCK FALSE
