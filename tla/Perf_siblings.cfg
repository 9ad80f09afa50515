\* The smallest group with an event that does not lead it.
SPECIFICATION Spec
CONSTANTS
  MaxEvents = 2
  Threads = {t1, t2}
  Main = Main
  Fds <- FdsWithStdin
  MaxLoads = 4
SYMMETRY WorkerSymmetry
INVARIANTS
  EveryEventSeesAllLoads
