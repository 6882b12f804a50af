CONSTANTS
  Lines = {0, 3, 7, 26, 31}
  Wired = {3, 7, 26, 31}
  RandomIds = {26, 31}
  RandomBits = {0, 3, 7, 26}
  MinCycles = 12
  MaxCycles = 14
  MaxStall = 1
  Mat1 <- mat1
  Mat2 <- mat2
  ResExpected <- res_expected
SPECIFICATION Spec
INVARIANT NoError
INVARIANT OneIrqPerEnable
INVARIANT MmstatusNotTorn
PROPERTY NoStaleIrq
PROPERTY TestEnds
