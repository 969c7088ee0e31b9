SPECIFICATION SpecUsed
CONSTANTS
  a = a
  b = b
  c = c
  d = d
  NoKey = NoKey
  NoValue = NoValue
  Keys = {a, b, c, d}
  Values = {v1, v2}
  MaxSize = 3
  Hash <- HashApart
  Removable = {d}
INVARIANTS TypeOK IndexInv LinksInv ListCoversEntries NoLostEntry RecencyOrder
PROPERTY ImplementsBoundedMap
