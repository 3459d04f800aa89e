SPECIFICATION Spec
CONSTANTS
  lamp = lamp
  song = song
  device = device
  playback = playback
  Entities = {lamp, song}
  Families = {device, playback}
  FamilyOf <- MCFamilyOf
  MaxQueued = 1
  MaxBuffered = 1
  MaxRevision = 3
  MaxAgain = 1
INVARIANTS
  TypeOK
  NothingMissed
  ToldIsHeld
PROPERTIES
  NeverBack
CHECK_DEADLOCK FALSE
