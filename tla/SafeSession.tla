---------------------------- MODULE SafeSession ----------------------------
(***************************************************************************)
(* The shell and the editor used as project6 can be used, and the          *)
(* invariant that holds of them for any lines, names and buffers.          *)
(*                                                                         *)
(* The assumptions say what the programs rely on: lines and texts fit the  *)
(* buffers at every moment of their typing, names fill their cells, a text *)
(* is one line that ends with CtrlD, every file ends with a zero, nobody   *)
(* else reads the keyboard, and the user leaves room on the disk.  What    *)
(* happens outside each of them is an instance of Session of its own.      *)
(* A full directory is not excluded.                                       *)
(***************************************************************************)
EXTENDS Session

\* The shell leaves the keyboard to the editor, what is copied exists, and
\* there are free sectors for what is written.
ASSUME ExposedAssumption == {"split", "missing", "full"} \cap Exposed = {}

ASSUME SizeAssumption ==
  /\ NameLen \in Nat /\ LineLen \in Nat /\ FileLen \in Nat
  /\ SectorLen \in Nat \ {0}
  /\ NameLen <= FileLen
  /\ FileLen % SectorLen = 0
  /\ FreeSectors \in Nat

\* Enter is never stored; a zero ends a command, a blank a name.
ASSUME KeysAssumption ==
  /\ Enter \notin Cell
  /\ NUL \notin Words
  /\ Blank \notin Letters \cup Words

\* Nothing asked for is no request, and an absent file has no content.
ASSUME NothingAssumption ==
  /\ Nothing \notin Wishes \cup Store!Request
  /\ Absent \notin Seq(Cell)

ASSUME FullNamesAssumption == Names \subseteq [1 .. NameLen -> Letters]

\* The cells a line may fill: the zero goes behind it, and behind a filename
\* to the spare cell.
Room == [line |-> LineLen - 1, filename |-> NameLen, file |-> FileLen - 1]

ASSUME FitsAssumption ==
  \A b \in Prompts : \A l \in Lines[b] : \A k \in 0 .. Len(l) :
    Len(Typing(l)[k]) <= Room[b]

WithName(w, f) == <<w>> \o f
WithNames(w, f, g) == WithName(w, f) \o <<Blank>> \o g

\* copy is given two names, type and delete one.
IsCommand(l) ==
  l # <<>> /\ l[1] \in {"type", "delete", "copy"} =>
    \/ l[1] # "copy" /\ \E f \in Names : l = WithName(l[1], f)
    \/ \E f, g \in Names : l = WithNames("copy", f, g)

ASSUME CommandsAssumption == \A l \in Lines["line"] : IsCommand(Edited(l))

ASSUME FilenamesAssumption == \A l \in Lines["filename"] : Edited(l) \in Names

IsText(l) ==
  /\ l # <<>> /\ Last(l) = CtrlD
  /\ \A i \in 1 .. Len(l) - 1 : l[i] # NUL

ASSUME TextsAssumption == \A l \in Lines["file"] : IsText(Edited(l))

\* A file fits its entry and ends with a zero.
FileExact(cells) ==
  /\ Len(cells) <= FileLen /\ Len(cells) % SectorLen = 0
  /\ \E i \in 1 .. Len(cells) : cells[i] = NUL

ASSUME DiskAssumption ==
  /\ DOMAIN OnDisk \subseteq Names /\ OnDisk \in [DOMAIN OnDisk -> Seq(Cell)]
  /\ \A f \in DOMAIN OnDisk : FileExact(OnDisk[f])

-----------------------------------------------------------------------------
FilesExact == \A f \in DOMAIN files : FileExact(files[f])

\* The cells begin with a line.
Hold(cells, l) == \A i \in 1 .. Len(l) : cells[i] = l[i]

\* What is meant by the line that is being typed.
WishExact(l) ==
  /\ pc["editor"] = "off" =>
       /\ meant["shell"] = IF l = <<>> THEN Nothing ELSE Meaning(l)
       /\ Sensible(l)
  /\ pc["editor"] = "filename" => meant["editor"] = Wish("edit", l, <<>>)
  /\ pc["editor"] = "file" =>
       meant["editor"] = Wish("write", mem.filename, Front(l))

\* The keyboard holds the rest of a line, and the buffer of the program that
\* asked for it what the keys before have left.
ReadingExact ==
  keyboard # <<>> =>
    /\ pc[Asking] \in Prompts
    /\ \E l \in Lines[pc[Asking]] : \E k \in 0 .. Len(l) :
         /\ keyboard = SubSeq(Append(l, Enter), k + 1, Len(l) + 1)
         /\ n[Asking] = Len(Typing(l)[k])
         /\ Hold(mem[pc[Asking]], Typing(l)[k])
         /\ WishExact(Edited(l))

PromptExact ==
  keyboard = <<>> /\ pc[Asking] \in Prompts =>
    /\ n[Asking] = 0
    /\ meant[Asking] = IF pc["editor"] = "file" THEN Wish("edit", mem.filename, <<>>)
                                                ELSE Nothing

\* The line the shell obeys is the line the user meant.
CommandExact ==
  /\ mem.line[1] \in {"type", "delete", "copy"} => Name1 \in Names
  /\ mem.line[1] = "type" => meant["shell"] = Wish("type", Name1, Nothing)
  /\ mem.line[1] = "delete" => meant["shell"] = Wish("write", Name1, Absent)
  /\ mem.line[1] = "copy" =>
       /\ Exists(Name1) /\ Name2 \in Names /\ SectorsIn(files[Name1]) <= free
       /\ meant["shell"] = Wish("write", Name2, Text(files[Name1]))
  /\ mem.line[1] = "texted" => FileLen \div SectorLen <= free
  /\ mem.line[1] \notin {"type", "delete", "copy"} => meant["shell"] = Nothing

ShellExact ==
  /\ pc["shell"] # "line" =>
       pc["editor"] = "off" /\ keyboard = <<>> /\ n["shell"] = 0 /\ CommandExact
  /\ pc["shell"] = "show" => mem.line[1] = "type" /\ Exists(Name1)
  /\ pc["shell"] = "copy" =>
       /\ mem.line[1] = "copy"
       /\ numSectors = SectorsIn(files[Name1])
       /\ Hold(buffer, files[Name1])

EditorExact ==
  /\ pc["editor"] = "off" => n["editor"] = 0 /\ meant["editor"] = Nothing
  /\ pc["editor"] # "off" =>
       n["shell"] = 0 /\ meant["shell"] = Nothing /\ FileLen \div SectorLen <= free
  /\ pc["editor"] # "save" => base = 0
  /\ pc["editor"] \in {"file", "save"} => mem.filename \in Names
  /\ pc["editor"] = "save" =>
       /\ keyboard = <<>>
       /\ n["editor"] \in 1 .. FileLen
       /\ \A i \in 1 .. n["editor"] - 1 : mem.file[i] # NUL
       /\ meant["editor"] = Wish("write", mem.filename,
                                 SubSeq(mem.file, 1, n["editor"] - 1))

IInv ==
  /\ TypeOK
  /\ NoOverrun
  /\ FilesExact
  /\ ReadingExact
  /\ PromptExact
  /\ ShellExact
  /\ EditorExact
=============================================================================
