SPECIFICATION Spec
CONSTANTS
  MaxChars = 4
  Texts <- MC_Texts
  ViewTexts <- MC_ViewTexts
  NumberTexts <- MC_NumberTexts
  Separator = 44
  MaxSlices = 2
  Lists = {"a", "b"}
  Elements <- MC_Elements
  MaxRows <- MC_MaxRows
  NoRow <- MC_NoRow
  Zero <- MC_NoRow
  Junk <- MC_Junk
  Appended <- MC_Appended
  CodePoints <- MC_CodePoints
  AsciiBytes = {65}
  Numbers <- MC_Numbers
  MaxBytes = 3
  I32Max = 21
  I64Max = 99
  FirstCap = 2
  MinSlots = 1
  Chunk = 2
  Divergent = FALSE
INVARIANTS ScanIsSplit RangesAreCharacters ViewsAreWindows NumbersRoundTrip
PROPERTIES ScanEnds ImplementsRows ImplementsBuffer
CHECK_DEADLOCK FALSE
