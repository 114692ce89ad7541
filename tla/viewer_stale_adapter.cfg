SPECIFICATION Spec
CONSTANTS
  SlotCount = 2
  NoPayload = 0
  Threads = {t1}
  Lengths = {1}
  MaxCaptures = 1
  MaxStarts = 1
  Tasks <- MCTasks
  Ops <- OneOp
INVARIANTS UsesCurrentAdapter
