SPECIFICATION Spec
CONSTANTS
  Thread = {t1, t2}
  Chan = {1}
  Kinds = {"tel", "rbch"}
  Uses <- FewUses
  QMax = 1
  MaxTones = 1
  Programs <- TonePrograms
  BufLen = 2
  RefMax = 3
  NoChan = NoChan
  CapiThreads = {p1, p2, p3}
  LimitHigh = 2
  LimitLow = 1
  MaxLost = 1
  Nobody = Nobody
CHECK_DEADLOCK FALSE
INVARIANTS RefcountGuards  SharesKept
 
