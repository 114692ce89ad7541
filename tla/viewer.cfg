SPECIFICATION Spec
CONSTANTS
  SlotCount = 2
  NoPayload = 0
  Threads = {t1, t2}
  Lengths = {1, 2}
  MaxCaptures = 2
  MaxStarts = 2
  Tasks <- MCTasks
  Ops <- OneOp
SYMMETRY Symmetry
CONSTRAINT PlainWhereRestarted
INVARIANTS TypeOK FrameIsOwn AlbumInSync
PROPERTIES QuietAfterStop
