------------------------------ MODULE Session ------------------------------
(***************************************************************************)
(* A user at the keyboard, the shell and the editor of project6: the       *)
(* readString of kernel.c, the commands of shell.c, the lines of texted.c. *)
(*                                                                         *)
(* A step is one key taken by readString, or one kernel call of a program. *)
(* A line is a sequence of cells; a command word and the blank behind it   *)
(* are one cell, a name is NameLen cells instead of 6, and the blank       *)
(* between two names one more.  A cell of a buffer keeps what it held      *)
(* until it is overwritten: nothing clears a buffer between two lines.     *)
(* File calls are one step each (FileSystem has their own steps) and their *)
(* result is what they leave in AX, though handleInterrupt21 and userlib   *)
(* do not return it.  Of the disk this module keeps what decides whether a *)
(* write succeeds: the entries of the directory and the free sectors.      *)
(*                                                                         *)
(* Exposed says what an instance lets happen besides:                      *)
(*   "split"    the shell takes keys while the editor is running           *)
(*   "missing"  the user copies a file that does not exist                 *)
(*   "full"     the user writes on a disk with too few free sectors        *)
(***************************************************************************)
EXTENDS Integers, Sequences, SequencesExt, FiniteSets, FiniteSetsExt

CONSTANTS
  Names,       \* the names of files, NameLen cells each
  NameLen,     \* 6 in kernel.c:38
  LineLen,     \* cells in the shell's line, 40 in shell.c:8
  FileLen,     \* cells in a file buffer, 13312 in shell.c:9 and texted.c:7
  SectorLen,   \* cells in a sector, 512
  Letters,     \* what names and texts are made of
  NUL,         \* a zero byte
  Blank,       \* the blank between two names
  Junk,        \* what the stack of the editor held before
  Back, Enter, CtrlD,   \* keys
  Lines,       \* what the user may type at each prompt, before Enter
  OnDisk,      \* the files on the disk at the start
  NEntries,    \* entries of the directory, 16 in kernel.c:500
  FreeSectors, \* the sectors the map calls free at the start
  Absent,      \* the content of a file that does not exist
  Nothing,     \* nothing asked for
  Exposed

Words == {"type", "delete", "copy", "texted"}
Prompts == {"line", "filename", "file"}
Cell == Letters \cup Words \cup {NUL, Blank, Junk, Back, CtrlD}

ASSUME LinesAssumption == Lines \in [Prompts -> SUBSET Seq(Cell)]
ASSUME NamesAssumption == Names \subseteq [1 .. NameLen -> Letters \cup {NUL}]

VARIABLES
  keyboard,  \* the keys typed and not read yet
  mem,       \* the line of the shell, filename and file of the editor
  pc,        \* what the shell and the editor are doing
  n, base,   \* readString's count, and where in the buffer it stores
  buffer, numSectors,   \* the shell's file buffer and what readFile returned
  files,     \* the directory: the cells of every file
  free,      \* how many sectors the map calls free
  shown,     \* history: what type or copy has printed since the last line
  wild,      \* a cell behind a buffer was written
  meant      \* history: what the user wants of each program

vars == <<keyboard, mem, pc, n, base, buffer, numSectors, files, free, shown,
          wild, meant>>

Prog == {"shell", "editor"}

Zeros(k) == [i \in 1 .. k |-> NUL]
JunkCells(k) == [i \in 1 .. k |-> Junk]

\* A string ends at the first zero.
Text(cells) ==
  LET ends == {i \in DOMAIN cells : cells[i] = NUL}
  IN  IF ends = {} THEN cells ELSE SubSeq(cells, 1, Min(ends) - 1)

\* The contents of a buffer after cells were read into it.
Over(cells, old) == cells \o SubSeq(old, Len(cells) + 1, Len(old))

\* Six characters, wherever they come from.
NameAt(cells, k) == SubSeq(cells, k, k + NameLen - 1)

Exists(name) == name \in DOMAIN files

SectorsIn(cells) == Len(cells) \div SectorLen

-----------------------------------------------------------------------------
(* What the user means by a line.                                          *)

\* What is left of the line after each of its keys: a backspace erases.
Typing(keys) ==
  LET left[i \in 0 .. Len(keys)] ==
        IF i = 0 THEN <<>>
        ELSE IF keys[i] # Back THEN Append(left[i - 1], keys[i])
        ELSE IF left[i - 1] = <<>> THEN <<>> ELSE Front(left[i - 1])
  IN  left

\* The line without what was erased again.
Edited(keys) == Typing(keys)[Len(keys)]

Wish(what, name, content) == [what |-> what, name |-> name, content |-> content]

Wishes == [what : {"type", "write", "edit"}, name : Names,
           content : Seq(Cell) \cup {Absent, Nothing}]

\* The words behind the command, filled up with zeros: the names meant.
Padded(w) == Over(w, Zeros(NameLen))
Words1and2(l) ==
  LET blanks == {i \in DOMAIN l : l[i] = Blank}
  IN  IF blanks = {} THEN <<Padded(Tail(l)), Padded(<<>>)>>
      ELSE <<Padded(SubSeq(l, 2, Min(blanks) - 1)),
             Padded(SubSeq(l, Min(blanks) + 1, Len(l)))>>
Word1(l) == Words1and2(l)[1]
Word2(l) == Words1and2(l)[2]

Meaning(l) ==
  CASE l[1] = "type"   -> Wish("type", Word1(l), Nothing)
    [] l[1] = "delete" -> Wish("write", Word1(l), Absent)
    [] l[1] = "copy" /\ Exists(Word1(l)) ->
         Wish("write", Word2(l), Text(files[Word1(l)]))
    [] OTHER -> Nothing

\* The name given to the editor, then the text up to the CtrlD.
EditorMeaning(l) ==
  IF pc["editor"] = "filename" THEN Wish("edit", Padded(l), <<>>)
  ELSE LET text == meant["editor"].content \o l
       IN  IF text # <<>> /\ Last(text) = CtrlD
             THEN Wish("write", meant["editor"].name, Front(text))
             ELSE Wish("edit", meant["editor"].name, text)

-----------------------------------------------------------------------------
Init ==
  /\ keyboard = <<>>
  /\ mem = [line |-> Zeros(LineLen),
            filename |-> JunkCells(NameLen), file |-> JunkCells(FileLen)]
  /\ pc = [shell |-> "line", editor |-> "off"]
  /\ n = [p \in Prog |-> 0]
  /\ base = 0
  /\ buffer = Zeros(FileLen)
  /\ numSectors = 0
  /\ files = OnDisk
  /\ free = FreeSectors
  /\ shown = <<>>
  /\ wild = FALSE
  /\ meant = [p \in Prog |-> Nothing]

\* Whoever prompted last is the one the user answers.
Asking == IF pc["editor"] = "off" THEN "shell" ELSE "editor"

\* The user copies files that exist, copies a file only when there is room for
\* it, and starts the editor only when there is room for the longest text.
Sensible(l) ==
  Asking = "shell" /\ l # <<>> =>
    /\ l[1] = "copy" => "missing" \in Exposed \/ Exists(Word1(l))
    /\ l[1] = "copy" /\ Exists(Word1(l)) =>
         "full" \in Exposed \/ SectorsIn(files[Word1(l)]) <= free
    /\ l[1] = "texted" => "full" \in Exposed \/ FileLen \div SectorLen <= free

\* The user types a line when the program has prompted and read all before.
UserTypes(keys) ==
  /\ ~wild
  /\ keyboard = <<>>
  /\ pc[Asking] \in Prompts /\ n[Asking] = 0
  /\ keys \in Lines[pc[Asking]]
  /\ Sensible(Edited(keys))
  /\ keyboard' = Append(keys, Enter)
  /\ meant' = [meant EXCEPT ![Asking] =
       IF Asking = "editor" THEN EditorMeaning(Edited(keys))
       ELSE IF Edited(keys) = <<>> THEN Nothing ELSE Meaning(Edited(keys))]
  /\ shown' = <<>>
  /\ UNCHANGED <<mem, pc, n, base, buffer, numSectors, files, free, wild>>

-----------------------------------------------------------------------------
(* readString.                                                             *)

\* Faulty: the count stays.
AfterBackStays(k) == k

\* Faulty: a backspace at the start of the line goes back, too.
AfterBackAtHome(k) == k - 1

\* A backspace at the start of the line does nothing.
AfterBack(k) == IF k = 0 THEN 0 ELSE k - 1

\* The cell behind filename is a saved register the editor needs no more; it
\* takes the zero of a name of full length.
Spare(b, i) == b = "filename" /\ i = NameLen + 1

Put(b, i, c) ==
  /\ mem' = [mem EXCEPT ![b] = IF i \in DOMAIN @ THEN [@ EXCEPT ![i] = c] ELSE @]
  /\ wild' = (i \notin DOMAIN mem[b] /\ ~(c = NUL /\ Spare(b, i)))

\* Faulty: the editor looks at the cell behind the line.
AfterLineNextCell(p) ==
  IF pc[p] = "file" /\ mem.file[n[p] + 1] # CtrlD THEN "file"
  ELSE IF pc[p] = "file" THEN "save" ELSE IF p = "shell" THEN "obey" ELSE "file"

\* What the program does with the whole line: the editor stops reading when
\* the last cell of the line is CtrlD.  It looks for it at file[tracker - 1],
\* though the line began at base; in front of file lies a zero.
AfterLine(p) ==
  CASE p = "shell"                    -> "obey"
    [] pc[p] = "filename"             -> "file"
    [] pc[p] = "file" /\ n[p] > 0 /\ mem.file[n[p]] = CtrlD -> "save"
    [] OTHER                          -> "file"

ReadKey(p) ==
  /\ ~wild
  /\ pc[p] \in Prompts
  /\ keyboard # <<>>
  /\ p = "shell" /\ "split" \notin Exposed => pc["editor"] = "off"
  /\ keyboard' = Tail(keyboard)
  /\ LET key == Head(keyboard)
         at == n[p] + 1 + (IF pc[p] = "file" THEN base ELSE 0)
     IN  \/ /\ key = Enter
            /\ Put(pc[p], at, NUL)
            /\ pc' = [pc EXCEPT ![p] = AfterLine(p)]
            /\ base' = IF p = "editor" THEN (IF pc[p] = "file" THEN n[p] ELSE 0)
                                       ELSE base
            /\ n' = [n EXCEPT ![p] = IF pc'[p] = "save" THEN @ ELSE 0]
         \/ /\ key = Back
            /\ IF n[p] = 0 THEN UNCHANGED <<mem, wild>>
                           ELSE Put(pc[p], at - 1, NUL)
            /\ n' = [n EXCEPT ![p] = AfterBack(@)]
            /\ UNCHANGED <<pc, base>>
         \/ /\ key \notin {Enter, Back}
            /\ Put(pc[p], at, key)
            /\ n' = [n EXCEPT ![p] = @ + 1]
            /\ UNCHANGED <<pc, base>>
  /\ UNCHANGED <<buffer, numSectors, files, free, shown, meant>>

-----------------------------------------------------------------------------
(* writeFile.  The 26 sectors an entry lists are the length of the buffers *)
(* (FileLen), so that its cap never cuts a text.                           *)

\* Faulty: the new sectors go behind the old ones.
WrittenBehind(name, cells) ==
  [f \in DOMAIN files \cup {name} |->
     IF f # name THEN files[f]
     ELSE IF Exists(name) THEN files[name] \o cells ELSE cells]

\* The sectors of the cells are written, and a longer file keeps its tail; a
\* new file of no sectors is an empty entry.
Written(name, cells) ==
  [f \in DOMAIN files \cup {name} |->
     IF f # name THEN files[f]
     ELSE IF Exists(name) THEN Over(cells, files[name]) ELSE cells]

\* Faulty: only free entries are looked for.
ListedAnew(name) == Cardinality(DOMAIN files) < NEntries

\* The file has an entry, or there is a free one for it.
Listed(name) == Exists(name) \/ Cardinality(DOMAIN files) < NEntries

\* No entry: -1, and nothing changes.  A file that is rewritten takes new
\* sectors, and its old ones stay taken.  With too few free sectors the entry
\* and the map are written from what the stack holds behind unusedSectors.
Write(name, cells) ==
  \/ /\ ~Listed(name)
     /\ UNCHANGED <<files, free, wild>>
  \/ /\ Listed(name) /\ SectorsIn(cells) <= free
     /\ files' = Written(name, cells)
     /\ free' = free - SectorsIn(cells)
     /\ UNCHANGED wild
  \/ /\ Listed(name) /\ SectorsIn(cells) > free
     /\ wild' = TRUE
     /\ UNCHANGED <<files, free>>

-----------------------------------------------------------------------------
(* The shell.                                                              *)

Obeys(word) == ~wild /\ pc["shell"] = "obey" /\ mem.line[1] = word

Prompt == pc' = [pc EXCEPT !["shell"] = "line"]

Done(p) == meant' = [meant EXCEPT ![p] = Nothing]

\* Faulty: the second name is looked for one cell early.
Name2Early == NameAt(mem.line, NameLen + 2)

Name1 == NameAt(mem.line, 2)

\* The second name is taken from a fixed place.
Name2 == NameAt(mem.line, NameLen + 3)

TypeMissing ==
  /\ Obeys("type") /\ ~Exists(Name1)
  /\ Prompt /\ Done("shell")
  /\ UNCHANGED <<keyboard, mem, n, base, buffer, numSectors, files, free, shown,
                 wild>>

\* type reads the file to see whether it is there ...
TypeRead ==
  /\ Obeys("type") /\ Exists(Name1)
  /\ buffer' = Over(files[Name1], buffer)
  /\ pc' = [pc EXCEPT !["shell"] = "show"]
  /\ UNCHANGED <<keyboard, mem, n, base, numSectors, files, free, shown, wild,
                 meant>>

\* ... and again to show it.
TypeShow ==
  /\ ~wild /\ pc["shell"] = "show"
  /\ buffer' = IF Exists(Name1) THEN Over(files[Name1], buffer) ELSE buffer
  /\ shown' = Text(buffer')
  /\ Prompt /\ Done("shell")
  /\ UNCHANGED <<keyboard, mem, n, base, numSectors, files, free, wild>>

Delete ==
  /\ Obeys("delete")
  /\ files' = [f \in DOMAIN files \ {Name1} |-> files[f]]
  /\ free' = IF Exists(Name1) THEN free + SectorsIn(files[Name1]) ELSE free
  /\ Prompt /\ Done("shell")
  /\ UNCHANGED <<keyboard, mem, n, base, buffer, numSectors, shown, wild>>

\* copy reads the source; without one it goes on all the same.
CopyRead ==
  /\ Obeys("copy")
  /\ IF Exists(Name1)
       THEN /\ buffer' = Over(files[Name1], buffer)
            /\ numSectors' = SectorsIn(files[Name1])
       ELSE numSectors' = -1 /\ UNCHANGED buffer
  /\ pc' = [pc EXCEPT !["shell"] = "copy"]
  /\ UNCHANGED <<keyboard, mem, n, base, files, free, shown, wild, meant>>

DirectoryFull == <<"Disk Directory is full">>

\* ... and writes what it has read, or says that there is no entry left.
CopyWrite ==
  /\ ~wild /\ pc["shell"] = "copy"
  /\ Write(Name2, SubSeq(buffer, 1, numSectors * SectorLen))
  /\ shown' = IF Listed(Name2) THEN shown ELSE DirectoryFull
  /\ Prompt /\ Done("shell")
  /\ UNCHANGED <<keyboard, mem, n, base, buffer, numSectors>>

\* execute texted.  The shell does not wait for it.
StartEditor ==
  /\ Obeys("texted") /\ pc["editor"] = "off"
  /\ pc' = [shell |-> "line", editor |-> "filename"]
  /\ meant' = [p \in Prog |-> Nothing]
  /\ UNCHANGED <<keyboard, mem, n, base, buffer, numSectors, files, free, shown,
                 wild>>

\* Another line.  Of the other commands dir, help, ps and execute change no
\* file and ask for none, and kill ends a process: none of them is typed here.
NotRecognized ==
  /\ ~wild /\ pc["shell"] = "obey" /\ mem.line[1] \notin Words
  /\ Prompt /\ Done("shell")
  /\ UNCHANGED <<keyboard, mem, n, base, buffer, numSectors, files, free, shown,
                 wild>>

-----------------------------------------------------------------------------
(* The editor.                                                             *)

\* Faulty: a sector that is not full is not counted.
SectorsOfFull(len) == len \div SectorLen

\* A sector that is begun counts.
SectorsOf(len) == (len + SectorLen - 1) \div SectorLen

\* Faulty: the zero goes behind the CtrlD.
EndedBehind(file, k) == [file EXCEPT ![k + 1] = NUL]

\* The CtrlD is replaced.
Ended(file, k) == [file EXCEPT ![k] = NUL]

\* The CtrlD becomes the end of the text, as many sectors are written as the
\* last line needs, and the editor ends, whatever writeFile says.
Save ==
  /\ ~wild /\ pc["editor"] = "save"
  /\ LET tracker == n["editor"]
         file == Ended(mem.file, tracker)
     IN  Write(mem.filename, SubSeq(file, 1, SectorsOf(tracker) * SectorLen))
  /\ mem' = [mem EXCEPT !.filename = JunkCells(NameLen), !.file = JunkCells(FileLen)]
  /\ pc' = [pc EXCEPT !["editor"] = "off"]
  /\ n' = [n EXCEPT !["editor"] = 0]
  /\ base' = 0
  /\ Done("editor")
  /\ UNCHANGED <<keyboard, buffer, numSectors, shown>>

Next ==
  \/ \E keys \in UNION {Lines[w] : w \in Prompts} : UserTypes(keys)
  \/ \E p \in Prog : ReadKey(p)
  \/ TypeMissing \/ TypeRead \/ TypeShow
  \/ Delete
  \/ CopyRead \/ CopyWrite
  \/ StartEditor
  \/ NotRecognized
  \/ Save

Spec == Init /\ [][Next]_vars

-----------------------------------------------------------------------------
Memory == [line : [1 .. LineLen -> Cell], filename : [1 .. NameLen -> Cell],
           file : [1 .. FileLen -> Cell]]

TypeOK ==
  /\ keyboard \in Seq(Cell \cup {Enter})
  /\ mem \in Memory
  /\ pc \in [shell : {"line", "obey", "show", "copy"},
             editor : {"off", "filename", "file", "save"}]
  /\ n \in [Prog -> 0 .. FileLen + LineLen] /\ base \in 0 .. FileLen
  /\ buffer \in [1 .. FileLen -> Cell]
  /\ numSectors \in -1 .. FileLen \div SectorLen
  /\ DOMAIN files \subseteq Names /\ files \in [DOMAIN files -> Seq(Cell)]
  /\ \A f \in DOMAIN files : Len(files[f]) % SectorLen = 0
  /\ free \in Nat
  /\ wild \in BOOLEAN
  /\ meant \in [Prog -> Wishes \cup {Nothing}]

\* Nothing is stored behind the end of a line, of the text or of the map
\* (kernel.c:786, 527).
NoOverrun == ~wild

\* The file a command works on is the one the user named: neither what was
\* erased again nor what older lines left in the buffer gets into the name
\* (shell.c:47-49, 74-76, 88-93, kernel.c:772-793).
NamesAsMeant ==
  LET wish == meant["shell"]
  IN  pc["shell"] = "obey" /\ wish # Nothing =>
        wish.name = IF mem.line[1] = "copy" THEN Name2 ELSE Name1

\* What was asked for is done.
Fulfilled(wish) ==
  CASE wish.what = "write" /\ wish.content = Absent -> wish.name \notin DOMAIN files'
    [] wish.what = "write" /\ wish.content # Absent ->
         /\ wish.name \in DOMAIN files'
         /\ Text(files'[wish.name]) = wish.content
    [] wish.what = "type" /\ Exists(wish.name) -> shown' = Text(files[wish.name])
    [] OTHER -> TRUE

\* A new file, and no entry for it.
NoEntry(wish) ==
  /\ wish.what = "write" /\ wish.content # Absent
  /\ wish.name \notin DOMAIN files /\ ~ (Cardinality(DOMAIN files) < NEntries)

\* A command is over when the file holds what the user asked for: the editor
\* saves the lines that were typed, copy copies, delete deletes.  Only when the
\* directory is full a new file is not written; then no file changes, and copy
\* says so: the editor's text is lost without a word (shell.c:71-109,
\* texted.c:3-4, 17-27, kernel.c:506-508).
DoneAsMeant ==
  [][\A p \in Prog :
       meant[p] # Nothing /\ meant'[p] = Nothing =>
         \/ Fulfilled(meant[p])
         \/ /\ NoEntry(meant[p])
            /\ UNCHANGED <<files, free>>
            /\ p = "shell" => shown' = DirectoryFull]_vars

\* The editor saves when the line that ends with CtrlD has been read; it does
\* not ask for another one (texted.c:17-24).
SavedWhenAsked ==
  meant["editor"] # Nothing /\ meant["editor"].what = "write" /\ keyboard = <<>>
    => pc["editor"] = "save"

\* Programs change files only as FileStore allows: those that were named, and
\* to what was asked.
Store == INSTANCE FileStore WITH
  Proc <- Prog, Name <- Names, Content <- Seq(Cell), NoRequest <- Nothing,
  files <- [f \in Names |-> IF Exists(f) THEN Text(files[f]) ELSE Absent],
  asked <- [p \in Prog |->
              IF meant[p] # Nothing /\ meant[p].what = "write"
              THEN [name |-> meant[p].name, content |-> meant[p].content]
              ELSE Nothing]

OnlyAsAsked ==
  [][\E p \in Prog : Store!Ask(p) \/ Store!Commit(p) \/ Store!Refuse(p)]_(Store!vars)
=============================================================================
