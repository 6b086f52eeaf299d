SPECIFICATION Spec
CONSTANTS
  t1 = t1
  t2 = t2
  d1 = d1
  d2 = d2
  c1 = c1
  Tasks = {t1, t2}
  Collectors = {c1}
  Devices = {d1, d2}
  Names <- SmallNames
  Numerals = {"0", "1"}
  MaxDepth = 4
  Payloads <- SmallPayloads
SYMMETRY Symmetry
INVARIANTS TypeOK CrashNeedsClash MisplacedNeedsTwoIndices CountedOnce NewestUnlessOverlapped NewestForwarded ParsedAsDocumented NothingOverwritten
CHECK_DEADLOCK FALSE
