SPECIFICATION MbufSpec
CONSTANTS
  Mbufs = {m1, m2, m3, m4, m5, m6}
  RxDescs = 3
  MaxBurst = 2
  DlMbufs = 2
  MaxDlBursts = 2
SYMMETRY MCSymmetry
INVARIANTS
  DlMbufsExclusive
CHECK_DEADLOCK FALSE
