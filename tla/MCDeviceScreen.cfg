SPECIFICATION Spec
CONSTANTS
  StartPages = {"ai", "cpu", "memory", "network", "gpu", "dev", "calendar", "github", "messages"}
  BootPages  = {"home"}
  JumpPages  = {"home", "tips"}
  Earlier    <- MCEarlier
  Frames     <- MCFrames
  AskedLooks <- MCLooks
  MaxHidden  = 64
  MaxEvents  = 3
  MaxReboots = 1
INVARIANTS CleanAfterFull FitsPanel PetRestored HiddenAsAsked
CHECK_DEADLOCK FALSE
