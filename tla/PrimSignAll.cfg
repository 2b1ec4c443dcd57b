\* Both versions of sign_16s over lengths and alignments at every threshold.
CONSTANTS
  Lens <- SignLens
  DstBases <- DstAlign
  SrcBases <- SrcAlign
SPECIFICATION Spec
INVARIANT TypeOK
INVARIANT SignComputed
INVARIANT AlignedStores
