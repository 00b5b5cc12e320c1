\* A file with a short name is copied.
SPECIFICATION Spec
CONSTANTS
  a = a
  b = b
  Letters = {a, b}
  Names <- FullNames
  NameLen = 2
  LineLen = 7
  FileLen = 4
  SectorLen = 2
  NUL = NUL
  Blank = Blank
  Junk = Junk
  Back = Back
  Enter = Enter
  CtrlD = CtrlD
  Lines <- CopyLines
  NEntries = 3
  FreeSectors = 4
  OnDisk <- OneFile
  Absent = Absent
  Nothing = Nothing
  Exposed = {"missing"}
CHECK_DEADLOCK FALSE
INVARIANTS
  NamesAsMeant
