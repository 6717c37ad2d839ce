SPECIFICATION BootedFairSpec
CONSTANTS
  NULL = NULL  m = m  a = a  b = b
  Units = {0}  Lists = {0}
  Threads = {m, a}  Nodes = {m, a}
  Bsp = 0  Main = m  MaxPreempt = 0  CountMod = 8
  Prio <- NoPrio
  InitCount = 0  MaxCount = 2  Signals = TRUE
PROPERTIES WaitersServed NoStarvation
