\* Files of three rows of any kind, and of five rows of six kinds.
CONSTANTS
  edxx = edxx  lszm = lszm  xls1 = xls1  kjfk = kjfk
  Accepted = {edxx, lszm}
  Gateway = {xls1}
  NoCode = NoCode
  Contents <- SmallFiles
SPECIFICATION FairSpec
INVARIANTS TypeOK LoadedIsWhatFileSays QuietWhenStopped
PROPERTIES FrameUndisturbed LoadEnds
