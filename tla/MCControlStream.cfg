SPECIFICATION Spec
CONSTANTS
  MaxCode = 3 NotCobs = NotCobs Phantom = Phantom
  Bytes = {0, 1, 2, 3, 4} LF = 4
  Prefix <- MCPrefix Lines <- MCLines Frames <- MCFrames
  MaxLine = 3 MaxDecoded = 4 SyncLength = 4 MaxDamage = 2
INVARIANTS SyncRecovers
