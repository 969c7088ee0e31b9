SPECIFICATION Spec
CONSTANTS
  temp = temp
  humid = humid
  light = light
  NoKey = NoKey
  NoValue <- NoSlot
  NoContent = NoContent
  Keys = {temp, humid, light}
  Contents = {c1, c2}
  Values <- PayloadSlots
  MaxSize = 2
  Hash <- HashApart
  Removable = {light}
INVARIANTS TypeOK SlotsOwned
PROPERTY ImplementsContentStore
