CONSTANTS
  Thread = {t1, t2, t3}
  Ref = {r1, r2, r3}
  NoThread = NoThread
  NoRef = NoRef
  CountLimit = 4
  CallbackFrees = TRUE
SPECIFICATION FairSpec
INVARIANTS
  TypeOK
  NoUseAfterFree
  CountIsExact
  NoLeak
  DestroyedIdle
PROPERTIES
  FreedByLastHolder
  CallsReturn
