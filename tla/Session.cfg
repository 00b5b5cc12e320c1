\* Full names, one line of text, and nobody reads the keyboard beside the
\* editor.
SPECIFICATION Spec
CONSTANTS
  a = a
  b = b
  Letters = {a, b}
  Names <- FullNames
  NameLen = 2
  LineLen = 7
  FileLen = 4
  SectorLen = 2
  NUL = NUL
  Blank = Blank
  Junk = Junk
  Back = Back
  Enter = Enter
  CtrlD = CtrlD
  Lines <- PlainLines
  NEntries = 2
  FreeSectors = 4
  OnDisk <- OneFile
  Absent = Absent
  Nothing = Nothing
  Exposed = {}
INVARIANTS
  TypeOK
  NoOverrun
  NamesAsMeant
  SavedWhenAsked
PROPERTIES
  DoneAsMeant
  OnlyAsAsked
