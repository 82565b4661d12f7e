CONSTANTS
  o1 = o1
  o2 = o2
  o3 = o3
  Obj <- MCObj
  NoObj = NoObj
  Size = 4
SPECIFICATION FairRingSpec
INVARIANTS RingInv NoSlotRace
PROPERTIES RefinesFifo Delivered
