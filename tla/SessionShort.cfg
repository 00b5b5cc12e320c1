\* A name of fewer characters than a name has, typed after a longer line.
SPECIFICATION Spec
CONSTANTS
  a = a
  b = b
  Letters = {a, b}
  Names <- ShortNames
  NameLen = 3
  LineLen = 9
  FileLen = 4
  SectorLen = 2
  NUL = NUL
  Blank = Blank
  Junk = Junk
  Back = Back
  Enter = Enter
  CtrlD = CtrlD
  Lines <- ShortLines
  NEntries = 3
  FreeSectors = 4
  OnDisk <- ShortFile
  Absent = Absent
  Nothing = Nothing
  Exposed = {}
CHECK_DEADLOCK FALSE
INVARIANTS
  NamesAsMeant
