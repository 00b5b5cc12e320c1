--------------------------- MODULE SessionProofs ---------------------------
(***************************************************************************)
(* Proofs about SafeSession: what is typed at a prompt arrives in the      *)
(* buffer of the program that asked for it, and every command does what    *)
(* the line it was given means, whatever the lines, names and sizes, or    *)
(* finds no entry in the directory for a new file.                         *)
(***************************************************************************)
EXTENDS SafeSession, SequenceTheorems, WellFoundedInduction, TLAPS

-----------------------------------------------------------------------------
(* Numbers and sequences.                                                  *)

\* Every nonempty set of natural numbers has a least element.
LEMMA LeastNatural ==
  ASSUME NEW T \in SUBSET Nat, T # {}
  PROVE  \E m \in T : \A k \in T : m <= k
<1> DEFINE R == {pair \in Nat \X Nat : pair[1] < pair[2]}
<1>1. IsWellFoundedOn(R, Nat)
  BY NatLessThanWellFounded, Zenon DEF OpToRel
<1>2. \A m, k \in T : <<k, m>> \notin R => m <= k
  OBVIOUS
<1> HIDE DEF R
<1>3. PICK m \in T : \A k \in T : <<k, m>> \notin R
  BY <1>1, WFMin
<1> QED
  BY <1>2, <1>3

\* The least element of a set of numbers.
LEMMA MinExact ==
  ASSUME NEW T \in SUBSET Nat, T # {}
  PROVE  Min(T) \in T /\ \A k \in T : Min(T) <= k
BY LeastNatural DEF Min

\* A buffer is a sequence.
LEMMA CellsAreSeq ==
  ASSUME NEW S, NEW len \in Nat, NEW cells \in [1 .. len -> S]
  PROVE  cells \in Seq(S) /\ Len(cells) = len
OBVIOUS

\* What is left of a line is defined at each key by what was left before:
\* the function that follows the definition up to some key can be extended.
LEMMA TypingDefined ==
  ASSUME NEW keys \in Seq(Cell)
  PROVE  /\ Typing(keys)[0] = <<>>
         /\ \A i \in 1 .. Len(keys) :
              Typing(keys)[i] =
                IF keys[i] # Back THEN Append(Typing(keys)[i - 1], keys[i])
                ELSE IF Typing(keys)[i - 1] = <<>> THEN <<>>
                ELSE Front(Typing(keys)[i - 1])
<1> DEFINE Next1(s, key) == IF key # Back THEN Append(s, key)
                            ELSE IF s = <<>> THEN <<>> ELSE Front(s)
           F(f, m) == [i \in 0 .. m |-> IF i = 0 THEN <<>>
                                        ELSE Next1(f[i - 1], keys[i])]
           D == {m \in 0 .. Len(keys) : ~ \E f : f = F(f, m)}
<1>0. Len(keys) \in Nat
  OBVIOUS
<1> HIDE DEF Next1
<1>1. D = {}
  <2> SUFFICES ASSUME D # {} PROVE FALSE
    OBVIOUS
  <2>1. D \in SUBSET Nat
    BY <1>0
  <2>2. PICK m \in D : \A k \in D : m <= k
    <3> HIDE DEF D
    <3> QED
      BY <2>1, LeastNatural
  <2>3. m # 0
    <3> SUFFICES ASSUME m = 0 PROVE FALSE
      OBVIOUS
    <3> DEFINE e == [i \in 0 .. 0 |-> <<>>]
    <3>1. e = F(e, 0)
      OBVIOUS
    <3> HIDE DEF e
    <3>2. \E f : f = F(f, 0)
      BY <3>1
    <3> HIDE DEF F
    <3>3. 0 \notin D
      BY <3>2
    <3> HIDE DEF D
    <3> QED
      BY <2>2, <3>3
  <2>4. m \in 1 .. Len(keys) /\ m - 1 \in 0 .. Len(keys) /\ m - 1 \notin D
    <3>1. m \in 0 .. Len(keys)
      BY <2>2
    <3>2. m - 1 \in 0 .. Len(keys) /\ m \in 1 .. Len(keys) /\ ~(m <= m - 1)
      BY <1>0, <2>3, <3>1
    <3> HIDE DEF D
    <3> QED
      BY <2>2, <3>2
  <2>5. PICK f : f = F(f, m - 1)
    BY <2>4
  <2> DEFINE g == [i \in 0 .. m |-> IF i = m THEN Next1(f[m - 1], keys[m]) ELSE f[i]]
  <2>6. \A i \in 0 .. m : g[i] = F(g, m)[i]
    <3> SUFFICES ASSUME NEW i \in 0 .. m
                 PROVE  g[i] = F(g, m)[i]
      OBVIOUS
    <3>1. CASE i = 0
      <4>1. f[0] = F(f, m - 1)[0] /\ 0 \in 0 .. m - 1
        BY <2>4, <2>5
      <4> QED
        BY <3>1, <2>4, <4>1
    <3>2. CASE i # 0 /\ i # m
      <4>1. f[i] = F(f, m - 1)[i] /\ i \in 0 .. m - 1 /\ g[i - 1] = f[i - 1]
        BY <3>2, <2>4, <2>5
      <4> QED
        BY <3>2, <2>4, <4>1
    <3>3. CASE i = m
      <4>1. g[i - 1] = f[i - 1]
        BY <3>3, <2>4
      <4> QED
        BY <3>3, <2>4, <4>1
    <3> QED
      BY <3>1, <3>2, <3>3
  <2>7. g = F(g, m)
    <3>1. g = [i \in 0 .. m |-> g[i]] /\ F(g, m) = [i \in 0 .. m |-> F(g, m)[i]]
      OBVIOUS
    <3> HIDE DEF g, F
    <3> QED
      BY <2>6, <3>1
  <2> QED
    BY <2>2, <2>7
<1>2. \E f : f = F(f, Len(keys))
  BY <1>0, <1>1
<1>3. Typing(keys) = CHOOSE f : f = F(f, Len(keys))
  BY DEF Typing, Next1
<1>4. Typing(keys) = F(Typing(keys), Len(keys))
  <2> HIDE DEF F
  <2> QED
    BY <1>2, <1>3
<1>5. \A i \in 0 .. Len(keys) : Typing(keys)[i] = F(Typing(keys), Len(keys))[i]
  <2> HIDE DEF F
  <2> QED
    BY <1>4
<1> QED
  BY <1>0, <1>5 DEF Next1

\* What is left of a line is made of its keys.
LEMMA TypingType ==
  ASSUME NEW keys \in Seq(Cell)
  PROVE  \A i \in 0 .. Len(keys) : Typing(keys)[i] \in Seq(Cell)
<1> DEFINE D == {i \in 0 .. Len(keys) : Typing(keys)[i] \notin Seq(Cell)}
<1>1. SUFFICES ASSUME D # {} PROVE FALSE
  OBVIOUS
<1>2. D \in SUBSET Nat
  OBVIOUS
<1>3. PICK m \in D : \A k \in D : m <= k
  <2> HIDE DEF D
  <2> QED
    BY <1>1, <1>2, LeastNatural
<1>4. m # 0
  <2>1. Typing(keys)[0] = <<>>
    BY TypingDefined
  <2>2. Typing(keys)[0] \in Seq(Cell)
    BY <2>1, EmptySeq
  <2> QED
    BY <2>2
<1>5. m \in 1 .. Len(keys) /\ m - 1 \notin D /\ m - 1 \in 0 .. Len(keys)
  BY <1>3, <1>4
<1> DEFINE s == Typing(keys)[m - 1]
<1>6. s \in Seq(Cell) /\ keys[m] \in Cell
  BY <1>5
<1>7. Append(s, keys[m]) \in Seq(Cell)
  BY <1>6
<1>8. s # <<>> => Front(s) \in Seq(Cell)
  BY <1>6 DEF Front
<1>9. Typing(keys)[m] = IF keys[m] # Back THEN Append(s, keys[m])
                        ELSE IF s = <<>> THEN <<>> ELSE Front(s)
  BY <1>5, TypingDefined
<1>10. Typing(keys)[m] \in Seq(Cell)
  <2> HIDE DEF s
  <2> QED
    BY <1>7, <1>8, <1>9
<1> QED
  BY <1>3, <1>10

\* The edited line is what is left at its last key.
LEMMA EditedType ==
  ASSUME NEW keys \in Seq(Cell)
  PROVE  Edited(keys) \in Seq(Cell)
BY TypingType DEF Edited

-----------------------------------------------------------------------------
(* Strings and buffers.                                                    *)

\* A string ends in front of the first zero.
LEMMA TextExact ==
  ASSUME NEW c \in Seq(Cell), NEW z \in 1 .. Len(c), c[z] = NUL,
         \A i \in 1 .. z - 1 : c[i] # NUL
  PROVE  Text(c) = SubSeq(c, 1, z - 1)
<1> DEFINE ends == {i \in DOMAIN c : c[i] = NUL}
<1>1. ends \in SUBSET Nat /\ z \in ends /\ \A i \in ends : z <= i
  OBVIOUS
<1> HIDE DEF ends
<1>2. ends # {} /\ Min(ends) \in ends /\ Min(ends) <= z
  BY <1>1, MinExact
<1>3. z \in Nat /\ Min(ends) \in Nat /\ z <= Min(ends)
  BY <1>1, <1>2
<1>4. ends # {} /\ Min(ends) = z
  BY <1>2, <1>3
<1> QED
  BY <1>4 DEF Text, ends

\* A string that has an end has a first one.
LEMMA FirstZero ==
  ASSUME NEW c \in Seq(Cell), \E i \in 1 .. Len(c) : c[i] = NUL
  PROVE  \E z \in 1 .. Len(c) : c[z] = NUL /\ \A i \in 1 .. z - 1 : c[i] # NUL
<1> DEFINE ends == {i \in 1 .. Len(c) : c[i] = NUL}
<1>1. ends \in SUBSET Nat /\ ends # {}
  OBVIOUS
<1>2. PICK z \in ends : \A i \in ends : z <= i
  <2> HIDE DEF ends
  <2> QED
    BY <1>1, LeastNatural
<1> QED
  BY <1>2

\* The text of a string is made of its cells.
LEMMA TextType ==
  ASSUME NEW c \in Seq(Cell)
  PROVE  Text(c) \in Seq(Cell)
<1>1. CASE {i \in DOMAIN c : c[i] = NUL} = {}
  BY <1>1 DEF Text
<1>2. CASE {i \in DOMAIN c : c[i] = NUL} # {}
  <2>1. PICK z \in 1 .. Len(c) : c[z] = NUL /\ \A i \in 1 .. z - 1 : c[i] # NUL
    BY <1>2, FirstZero
  <2>2. Text(c) = SubSeq(c, 1, z - 1)
    BY <2>1, TextExact
  <2> QED
    BY <2>2
<1> QED
  BY <1>1, <1>2

\* What begins with a string that has an end is the same string.
LEMMA TextOfHolding ==
  ASSUME NEW c \in Seq(Cell), NEW d \in Seq(Cell), Len(c) <= Len(d), Hold(d, c),
         \E i \in 1 .. Len(c) : c[i] = NUL
  PROVE  Text(d) = Text(c)
<1>1. PICK z \in 1 .. Len(c) : c[z] = NUL /\ \A i \in 1 .. z - 1 : c[i] # NUL
  BY FirstZero
<1>2. z \in 1 .. Len(d) /\ \A i \in 1 .. z : i \in 1 .. Len(c) /\ d[i] = c[i]
  BY <1>1 DEF Hold
<1>3. z \in 1 .. Len(d) /\ d[z] = NUL /\ \A i \in 1 .. z - 1 : d[i] # NUL
  BY <1>1, <1>2
<1>4. Text(c) = SubSeq(c, 1, z - 1) /\ Text(d) = SubSeq(d, 1, z - 1)
  BY <1>1, <1>3, TextExact
<1>5. SubSeq(c, 1, z - 1) = SubSeq(d, 1, z - 1)
  BY DEF Hold
<1> QED
  BY <1>4, <1>5

\* Reading into a buffer: what is longer decides the length.
LEMMA OverExact ==
  ASSUME NEW c \in Seq(Cell), NEW old \in Seq(Cell)
  PROVE  /\ Over(c, old) \in Seq(Cell)
         /\ Len(Over(c, old)) = IF Len(c) <= Len(old) THEN Len(old) ELSE Len(c)
         /\ Hold(Over(c, old), c)
<1> DEFINE rest == SubSeq(old, Len(c) + 1, Len(old))
<1>1. /\ rest \in Seq(Cell)
      /\ Len(rest) = IF Len(c) <= Len(old) THEN Len(old) - Len(c) ELSE 0
  BY SubSeqProperties
<1> HIDE DEF rest
<1>2. /\ c \o rest \in Seq(Cell) /\ Len(c \o rest) = Len(c) + Len(rest)
      /\ \A i \in 1 .. Len(c) : (c \o rest)[i] = c[i]
  BY <1>1
<1> QED
  BY <1>1, <1>2 DEF Over, Hold, rest

-----------------------------------------------------------------------------
(* A key is read.                                                          *)

\* Lines are sequences of cells.
LEMMA LinesType ==
  ASSUME NEW b \in Prompts, NEW l \in Lines[b]
  PROVE  l \in Seq(Cell) /\ Len(l) \in Nat /\ Enter \notin Cell
BY LinesAssumption, KeysAssumption

\* A cell inside a buffer is stored there and nowhere else.
LEMMA PutExact ==
  ASSUME mem \in Memory, NEW b \in Prompts, NEW i \in DOMAIN mem[b], NEW c \in Cell,
         Put(b, i, c)
  PROVE  /\ mem' \in Memory /\ wild' = FALSE
         /\ mem'[b] = [mem[b] EXCEPT ![i] = c]
         /\ \A d \in Prompts \ {b} : mem'[d] = mem[d]
<1>1. CASE b = "line"
  BY <1>1 DEF Put, Memory, Prompts
<1>2. CASE b = "filename"
  BY <1>2 DEF Put, Memory, Prompts
<1>3. CASE b = "file"
  BY <1>3 DEF Put, Memory, Prompts
<1> QED
  BY <1>1, <1>2, <1>3 DEF Prompts

\* The zero behind the line the shell has read.
LEMMA PutLine ==
  ASSUME mem \in Memory, NEW i \in 1 .. LineLen, NEW c \in Cell, Put("line", i, c)
  PROVE  /\ mem' \in Memory /\ wild' = FALSE
         /\ mem'.line = [mem.line EXCEPT ![i] = c]
         /\ mem'.filename = mem.filename /\ mem'.file = mem.file
BY DEF Put, Memory

\* The zero behind a line the editor has read.
LEMMA PutFile ==
  ASSUME mem \in Memory, NEW i \in 1 .. FileLen, NEW c \in Cell, Put("file", i, c)
  PROVE  /\ mem' \in Memory /\ wild' = FALSE
         /\ mem'.file = [mem.file EXCEPT ![i] = c]
         /\ mem'.filename = mem.filename /\ mem'.line = mem.line
BY DEF Put, Memory

\* The zero of a name of full length goes to the spare cell.
LEMMA PutSpare ==
  ASSUME mem \in Memory, NameLen \in Nat, Put("filename", NameLen + 1, NUL)
  PROVE  mem' = mem /\ wild' = FALSE
<1>1. NameLen + 1 \notin DOMAIN mem["filename"]
  BY DEF Memory
<1> QED
  BY <1>1 DEF Put, Memory, Spare

\* The cells a line may fill are cells of its buffer.
LEMMA RoomInside ==
  ASSUME mem \in Memory, NEW b \in Prompts, NEW i \in Int, 1 <= i, i <= Room[b]
  PROVE  i \in DOMAIN mem[b]
BY SizeAssumption DEF Memory, Prompts, Room

\* Only the program that prompted last reads.
LEMMA Reader ==
  ASSUME IInv, NEW p \in Prog, ReadKey(p)
  PROVE  p = Asking /\ pc[p] \in Prompts /\ keyboard # <<>> /\ n[p] \in Nat
         /\ n[p] + 1 + (IF pc[p] = "file" THEN base ELSE 0) = n[p] + 1
<1>1. pc[p] \in Prompts /\ keyboard # <<>>
  BY DEF ReadKey
<1>2. n[p] \in Nat /\ pc["shell"] # "file"
  BY DEF IInv, TypeOK
<1>3. CASE p = "shell"
  <2>1. pc["editor"] = "off"
    BY <1>3, ExposedAssumption DEF ReadKey
  <2> QED
    BY <1>1, <1>2, <1>3, <2>1 DEF Asking
<1>4. CASE p = "editor"
  <2>1. pc["editor"] \in {"filename", "file"}
    BY <1>1, <1>4 DEF IInv, TypeOK, Prompts
  <2>2. base = 0
    BY <2>1 DEF IInv, EditorExact
  <2> QED
    BY <1>1, <1>2, <1>4, <2>1, <2>2 DEF Asking
<1> QED
  BY <1>3, <1>4 DEF Prog

\* The key is the next one of the line, or Enter behind it.
LEMMA KeyTaken ==
  ASSUME IInv, NEW p \in Prog, ReadKey(p)
  PROVE  \E l \in Lines[pc[p]] : \E k \in 0 .. Len(l) :
           /\ n[p] = Len(Typing(l)[k])
           /\ Hold(mem[pc[p]], Typing(l)[k])
           /\ WishExact(Edited(l))
           /\ Head(keyboard) = IF k = Len(l) THEN Enter ELSE l[k + 1]
           /\ keyboard' = IF k = Len(l) THEN <<>>
                          ELSE SubSeq(Append(l, Enter), k + 2, Len(l) + 1)
<1>1. p = Asking /\ pc[p] \in Prompts /\ keyboard # <<>>
  BY Reader
<1>2. PICK l \in Lines[pc[p]] : \E k \in 0 .. Len(l) :
        /\ keyboard = SubSeq(Append(l, Enter), k + 1, Len(l) + 1)
        /\ n[p] = Len(Typing(l)[k])
        /\ Hold(mem[pc[p]], Typing(l)[k])
        /\ WishExact(Edited(l))
  BY <1>1 DEF IInv, ReadingExact
<1>3. PICK k \in 0 .. Len(l) :
        /\ keyboard = SubSeq(Append(l, Enter), k + 1, Len(l) + 1)
        /\ n[p] = Len(Typing(l)[k])
        /\ Hold(mem[pc[p]], Typing(l)[k])
        /\ WishExact(Edited(l))
  BY <1>2
<1> DEFINE S == Cell \cup {Enter}
           typed == Append(l, Enter)
<1>4. l \in Seq(Cell) /\ Len(l) \in Nat
  BY <1>1, LinesType
<1>5. l \in Seq(S) /\ Enter \in S
  BY <1>4
<1>6. /\ typed \in Seq(S) /\ Len(typed) = Len(l) + 1
      /\ \A i \in 1 .. Len(l) : typed[i] = l[i]
      /\ typed[Len(l) + 1] = Enter
  BY <1>5, AppendProperties
<1>7. k + 1 \in 1 .. Len(typed) /\ Len(typed) \in k + 1 .. Len(typed)
  BY <1>4, <1>6
<1> HIDE DEF S, typed
<1>8. /\ Head(SubSeq(typed, k + 1, Len(typed))) = typed[k + 1]
      /\ Tail(SubSeq(typed, k + 1, Len(typed))) = SubSeq(typed, k + 1 + 1, Len(typed))
  BY <1>6, <1>7, HeadTailOfSubSeq
<1>9. Head(keyboard) = typed[k + 1] /\ keyboard' = SubSeq(typed, k + 2, Len(l) + 1)
  <2>1. keyboard' = Tail(keyboard)
    BY DEF ReadKey
  <2>2. keyboard = SubSeq(typed, k + 1, Len(typed))
    BY <1>3, <1>6 DEF typed
  <2>3. k + 1 + 1 = k + 2
    OBVIOUS
  <2> QED
    BY <1>6, <1>8, <2>1, <2>2, <2>3
<1>10. typed[k + 1] = IF k = Len(l) THEN Enter ELSE l[k + 1]
  BY <1>4, <1>6
<1>11. k = Len(l) => SubSeq(typed, k + 2, Len(l) + 1) = <<>>
  BY <1>4, SubSeqEmpty
<1> QED
  BY <1>3, <1>9, <1>10, <1>11 DEF typed

\* A key of the line leaves in the buffer what is left of the line.
LEMMA KeyStored ==
  ASSUME IInv, NEW p \in Prog, ReadKey(p),
         NEW l \in Lines[pc[p]], NEW k \in 0 .. Len(l) - 1,
         n[p] = Len(Typing(l)[k]), Hold(mem[pc[p]], Typing(l)[k]),
         Head(keyboard) = l[k + 1]
  PROVE  /\ pc' = pc /\ base' = base /\ wild' = FALSE /\ mem' \in Memory
         /\ n' = [n EXCEPT ![p] = Len(Typing(l)[k + 1])]
         /\ Hold(mem'[pc[p]], Typing(l)[k + 1])
         /\ \A d \in Prompts \ {pc[p]} : mem'[d] = mem[d]
<1> DEFINE b == pc[p]
           t == Typing(l)[k]
           u == Typing(l)[k + 1]
           key == l[k + 1]
<1>1. /\ p = Asking /\ b \in Prompts /\ n[p] \in Nat
      /\ n[p] + 1 + (IF pc[p] = "file" THEN base ELSE 0) = n[p] + 1
  BY Reader
<1>2. l \in Seq(Cell) /\ Len(l) \in Nat /\ Enter \notin Cell
  BY <1>1, LinesType
<1>3. k \in 0 .. Len(l) /\ k + 1 \in 1 .. Len(l) /\ k + 1 - 1 = k
  BY <1>2
<1>4. key \in Cell /\ key # Enter
  BY <1>2, <1>3
<1>5. /\ t \in Seq(Cell) /\ u \in Seq(Cell) /\ Len(t) \in Nat /\ Len(u) \in Nat
      /\ Len(t) <= Room[b] /\ Len(u) <= Room[b] /\ Room[b] \in Int
  <2>1. t \in Seq(Cell) /\ u \in Seq(Cell)
    BY <1>2, <1>3, TypingType
  <2>2. \A i \in 0 .. Len(l) : Len(Typing(l)[i]) <= Room[b]
    <3> HIDE DEF t, u, key
    <3> QED
      BY <1>1, FitsAssumption DEF b
  <2>3. Room[b] \in Int
    BY <1>1, SizeAssumption DEF Room, Prompts
  <2>4. Len(t) <= Room[b] /\ Len(u) <= Room[b]
    BY <1>2, <1>3, <2>2
  <2> QED
    BY <2>1, <2>3, <2>4
<1>6. u = IF key # Back THEN Append(t, key)
          ELSE IF t = <<>> THEN <<>> ELSE Front(t)
  BY <1>2, <1>3, TypingDefined
<1>7. mem \in Memory /\ wild = FALSE /\ NUL \in Cell
  BY DEF IInv, TypeOK, NoOverrun, Cell
<1> HIDE DEF b, t, u, key
<1>8. CASE key # Back
  <2>1. /\ Put(b, n[p] + 1, key)
        /\ n' = [n EXCEPT ![p] = n[p] + 1]
        /\ pc' = pc /\ base' = base
    BY <1>1, <1>4, <1>8 DEF ReadKey, key, b
  <2>2. Len(u) = n[p] + 1 /\ u[n[p] + 1] = key /\ \A i \in 1 .. n[p] : u[i] = t[i]
    BY <1>4, <1>5, <1>6, <1>8, AppendProperties DEF t
  <2>3. n[p] + 1 \in DOMAIN mem[b]
    BY <1>1, <1>5, <1>7, <2>2, RoomInside
  <2>4. /\ mem' \in Memory /\ wild' = FALSE
        /\ mem'[b] = [mem[b] EXCEPT ![n[p] + 1] = key]
        /\ \A d \in Prompts \ {b} : mem'[d] = mem[d]
    BY <1>1, <1>4, <1>7, <2>1, <2>3, PutExact
  <2>5. Hold(mem'[b], u)
    <3> SUFFICES ASSUME NEW i \in 1 .. Len(u)
                 PROVE  mem'[b][i] = u[i]
      BY DEF Hold
    <3>1. i \in DOMAIN mem[b]
      BY <1>1, <1>5, <1>7, RoomInside
    <3>2. CASE i = n[p] + 1
      BY <2>2, <2>3, <2>4, <3>2
    <3>3. CASE i # n[p] + 1
      <4>1. i \in 1 .. n[p] /\ i \in 1 .. Len(t)
        BY <1>1, <2>2, <3>3 DEF t
      <4>2. mem[b][i] = t[i]
        BY <4>1 DEF Hold, t, b
      <4> QED
        BY <2>2, <2>4, <3>1, <3>3, <4>1, <4>2
    <3> QED
      BY <3>2, <3>3
  <2> QED
    BY <2>1, <2>2, <2>4, <2>5 DEF b, u
<1>9. CASE key = Back /\ t = <<>>
  <2>1. n[p] = 0 /\ u = <<>> /\ Len(u) = 0
    BY <1>6, <1>9 DEF t
  <2>2. /\ UNCHANGED <<mem, wild>> /\ n' = [n EXCEPT ![p] = 0]
        /\ pc' = pc /\ base' = base
    BY <1>1, <1>2, <1>4, <1>9, <2>1 DEF ReadKey, key, b, AfterBack
  <2>3. Hold(mem'[b], u)
    BY <2>1 DEF Hold
  <2> QED
    BY <1>7, <2>1, <2>2, <2>3 DEF b, u
<1>10. CASE key = Back /\ t # <<>>
  <2>1. /\ n[p] \in Nat \ {0} /\ n[p] = Len(t) /\ u = Front(t)
        /\ n[p] + 1 - 1 = n[p]
    BY <1>1, <1>5, <1>6, <1>10, EmptySeq DEF t
  <2>2. /\ Put(b, n[p], NUL) /\ n' = [n EXCEPT ![p] = n[p] - 1]
        /\ pc' = pc /\ base' = base
    BY <1>1, <1>4, <1>10, <2>1 DEF ReadKey, key, b, AfterBack
  <2>3. Len(u) = n[p] - 1 /\ \A i \in 1 .. n[p] - 1 : u[i] = t[i]
    BY <1>5, <2>1 DEF Front
  <2>4. n[p] \in DOMAIN mem[b]
    BY <1>1, <1>5, <1>7, <2>1, RoomInside
  <2>5. /\ mem' \in Memory /\ wild' = FALSE
        /\ mem'[b] = [mem[b] EXCEPT ![n[p]] = NUL]
        /\ \A d \in Prompts \ {b} : mem'[d] = mem[d]
    BY <1>1, <1>7, <2>2, <2>4, PutExact
  <2>6. Hold(mem'[b], u)
    <3> SUFFICES ASSUME NEW i \in 1 .. Len(u)
                 PROVE  mem'[b][i] = u[i]
      BY DEF Hold
    <3>1. i \in 1 .. n[p] - 1 /\ i \in 1 .. Len(t) /\ i # n[p] /\ i <= Room[b]
      BY <1>1, <1>5, <2>1, <2>3
    <3>2. i \in DOMAIN mem[b]
      BY <1>1, <1>7, <3>1, RoomInside
    <3>3. mem[b][i] = t[i]
      BY <3>1 DEF Hold, t, b
    <3> QED
      BY <2>3, <2>5, <3>1, <3>2, <3>3
  <2> QED
    BY <2>2, <2>3, <2>5, <2>6 DEF b, u
<1> QED
  BY <1>8, <1>9, <1>10

-----------------------------------------------------------------------------
(* A line is obeyed: its names are cut from the buffer at fixed places.    *)

\* A part of a sequence that agrees with another one everywhere.
LEMMA PartEqual ==
  ASSUME NEW c \in Seq(Cell), NEW f \in Seq(Cell), NEW k \in Nat \ {0},
         k + Len(f) - 1 <= Len(c), \A i \in 1 .. Len(f) : c[k + i - 1] = f[i]
  PROVE  SubSeq(c, k, k + Len(f) - 1) = f
<1> DEFINE part == SubSeq(c, k, k + Len(f) - 1)
<1>1. \A i \in k .. k + Len(f) - 1 : c[i] \in Cell
  OBVIOUS
<1>2. /\ part \in Seq(Cell) /\ Len(part) = Len(f)
      /\ \A i \in 1 .. Len(f) : part[i] = c[k + i - 1]
  BY <1>1, SubSeqProperties
<1> HIDE DEF part
<1>3. part = f
  BY <1>2, SeqEqual
<1> QED
  BY <1>3 DEF part

\* A name is NameLen letters.
LEMMA NameType ==
  ASSUME NEW f \in Names
  PROVE  /\ f \in Seq(Cell) /\ Len(f) = NameLen /\ NameLen \in Nat
         /\ \A i \in 1 .. NameLen : f[i] \in Letters
BY FullNamesAssumption, SizeAssumption, CellsAreSeq DEF Cell

\* Nothing is filled up in a name of full length.
LEMMA PaddedName ==
  ASSUME NEW f \in Names
  PROVE  Padded(f) = f
<1>1. f \in Seq(Cell) /\ Len(f) = NameLen /\ NameLen \in Nat
  BY NameType
<1>2. Len(Zeros(NameLen)) = NameLen
  BY <1>1 DEF Zeros
<1>3. SubSeq(Zeros(NameLen), NameLen + 1, NameLen) = <<>>
  BY <1>1, SubSeqEmpty
<1>4. f \o <<>> = f
  BY <1>1, ConcatEmptySeq
<1> QED
  BY <1>1, <1>2, <1>3, <1>4 DEF Padded, Over

\* A command with one name.
LEMMA OneName ==
  ASSUME NEW w \in Words, NEW f \in Names
  PROVE  LET l == WithName(w, f) IN
         /\ l \in Seq(Cell) /\ Len(l) = NameLen + 1 /\ l[1] = w
         /\ \A i \in 1 .. NameLen : l[1 + i] = f[i]
         /\ Word1(l) = f
<1> DEFINE l == WithName(w, f)
<1>1. /\ f \in Seq(Cell) /\ Len(f) = NameLen /\ NameLen \in Nat
      /\ \A i \in 1 .. NameLen : f[i] \in Letters
  BY NameType
<1>2. <<w>> \in Seq(Cell) /\ Len(<<w>>) = 1 /\ <<w>>[1] = w
  BY DEF Cell
<1>3. /\ l \in Seq(Cell) /\ Len(l) = 1 + NameLen
      /\ \A i \in 1 .. 1 + NameLen : l[i] = IF i <= 1 THEN <<w>>[i] ELSE f[i - 1]
  BY <1>1, <1>2, ConcatProperties DEF WithName
<1>4. l[1] = w /\ \A i \in 1 .. NameLen : l[1 + i] = f[i]
  BY <1>1, <1>2, <1>3
<1> HIDE DEF l
<1>5. {i \in DOMAIN l : l[i] = Blank} = {}
  <2> SUFFICES ASSUME NEW i \in 1 .. 1 + NameLen
               PROVE  l[i] # Blank
    BY <1>3
  <2>1. CASE i = 1
    BY <2>1, <1>4, KeysAssumption
  <2>2. CASE i # 1
    <3>1. i - 1 \in 1 .. NameLen /\ l[i] = f[i - 1]
      BY <1>1, <1>3, <2>2
    <3> QED
      BY <1>1, <3>1, KeysAssumption
  <2> QED
    BY <2>1, <2>2
<1>6. Tail(l) = f
  <2>1. l # <<>>
    BY <1>1, <1>3
  <2>2. /\ Tail(l) \in Seq(Cell) /\ Len(Tail(l)) = NameLen
        /\ \A i \in 1 .. NameLen : Tail(l)[i] = l[i + 1]
    BY <1>1, <1>3, <2>1, HeadTailProperties
  <2>3. \A i \in 1 .. NameLen : Tail(l)[i] = f[i]
    BY <1>1, <1>3, <2>2
  <2> QED
    BY <1>1, <2>2, <2>3, SeqEqual
<1>7. Word1(l) = f
  BY <1>5, <1>6, PaddedName DEF Word1, Words1and2
<1> QED
  BY <1>1, <1>3, <1>4, <1>7 DEF l

\* A command with two names.
LEMMA TwoNames ==
  ASSUME NEW w \in Words, NEW f \in Names, NEW g \in Names
  PROVE  LET l == WithNames(w, f, g) IN
         /\ l \in Seq(Cell) /\ Len(l) = 2 * NameLen + 2 /\ l[1] = w
         /\ \A i \in 1 .. NameLen : l[1 + i] = f[i]
         /\ \A i \in 1 .. NameLen : l[NameLen + 2 + i] = g[i]
         /\ Word1(l) = f /\ Word2(l) = g
<1> DEFINE l1 == WithName(w, f)
           l2 == l1 \o <<Blank>>
           l == WithNames(w, f, g)
<1>1. /\ f \in Seq(Cell) /\ Len(f) = NameLen /\ NameLen \in Nat
      /\ \A i \in 1 .. NameLen : f[i] \in Letters
      /\ g \in Seq(Cell) /\ Len(g) = NameLen
      /\ \A i \in 1 .. NameLen : g[i] \in Letters
  BY NameType
<1>2. /\ l1 \in Seq(Cell) /\ Len(l1) = NameLen + 1 /\ l1[1] = w
      /\ \A i \in 1 .. NameLen : l1[1 + i] = f[i]
  BY OneName
<1> HIDE DEF l1
<1>3. <<Blank>> \in Seq(Cell) /\ Len(<<Blank>>) = 1 /\ <<Blank>>[1] = Blank
  BY DEF Cell
<1>4. /\ l2 \in Seq(Cell) /\ Len(l2) = NameLen + 2
      /\ \A i \in 1 .. NameLen + 2 :
           l2[i] = IF i <= NameLen + 1 THEN l1[i] ELSE <<Blank>>[i - (NameLen + 1)]
  BY <1>1, <1>2, <1>3, ConcatProperties
<1> HIDE DEF l2
<1>5. /\ l \in Seq(Cell) /\ Len(l) = 2 * NameLen + 2
      /\ \A i \in 1 .. 2 * NameLen + 2 :
           l[i] = IF i <= NameLen + 2 THEN l2[i] ELSE g[i - (NameLen + 2)]
  <2>1. /\ l \in Seq(Cell) /\ Len(l) = Len(l2) + Len(g)
        /\ \A i \in 1 .. Len(l2) + Len(g) :
             l[i] = IF i <= Len(l2) THEN l2[i] ELSE g[i - Len(l2)]
    <3>1. l = l2 \o g
      BY DEF WithNames, l1, l2
    <3> HIDE DEF l
    <3> QED
      BY <1>1, <1>4, <3>1, ConcatProperties
  <2>2. Len(l2) + Len(g) = 2 * NameLen + 2
    BY <1>1, <1>4
  <2> HIDE DEF l
  <2> QED
    BY <1>4, <2>1, <2>2
<1> HIDE DEF l
<1>6. /\ l[1] = w /\ \A i \in 1 .. NameLen : l[1 + i] = f[i]
      /\ l[NameLen + 2] = Blank
      /\ \A i \in 1 .. NameLen : l[NameLen + 2 + i] = g[i]
  BY <1>1, <1>2, <1>3, <1>4, <1>5
<1>7. {i \in DOMAIN l : l[i] = Blank} = {NameLen + 2}
  <2> SUFFICES ASSUME NEW i \in 1 .. 2 * NameLen + 2, l[i] = Blank
               PROVE  i = NameLen + 2
    BY <1>1, <1>5, <1>6
  <2>1. CASE i = 1
    BY <2>1, <1>6, KeysAssumption
  <2>2. CASE i \in 2 .. NameLen + 1
    <3>1. i - 1 \in 1 .. NameLen /\ l[1 + (i - 1)] = f[i - 1] /\ 1 + (i - 1) = i
      BY <1>1, <1>6, <2>2
    <3> QED
      BY <1>1, <3>1, KeysAssumption
  <2>3. CASE i \in NameLen + 3 .. 2 * NameLen + 2
    <3>1. /\ i - (NameLen + 2) \in 1 .. NameLen
          /\ NameLen + 2 + (i - (NameLen + 2)) = i
      BY <1>1, <2>3
    <3>2. l[i] = g[i - (NameLen + 2)]
      BY <1>6, <3>1
    <3> QED
      BY <1>1, <3>1, <3>2, KeysAssumption
  <2> QED
    BY <1>1, <2>1, <2>2, <2>3
<1>8. Min({NameLen + 2}) = NameLen + 2
  <2>1. {NameLen + 2} \in SUBSET Nat /\ {NameLen + 2} # {}
    BY <1>1
  <2> QED
    BY <2>1, MinExact
<1>9. SubSeq(l, 2, NameLen + 2 - 1) = f
  <2>1. 2 + NameLen - 1 = NameLen + 2 - 1 /\ 2 + NameLen - 1 <= Len(l)
    BY <1>1, <1>5
  <2>2. \A i \in 1 .. NameLen : l[2 + i - 1] = f[i]
    <3>1. \A i \in 1 .. NameLen : 2 + i - 1 = 1 + i
      BY <1>1
    <3> QED
      BY <1>6, <3>1
  <2> QED
    BY <1>1, <1>5, <2>1, <2>2, PartEqual
<1>10. SubSeq(l, NameLen + 2 + 1, Len(l)) = g
  <2>1. /\ NameLen + 2 + 1 \in Nat \ {0}
        /\ NameLen + 2 + 1 + NameLen - 1 = Len(l)
    BY <1>1, <1>5
  <2>2. \A i \in 1 .. NameLen : l[NameLen + 2 + 1 + i - 1] = g[i]
    <3>1. \A i \in 1 .. NameLen : NameLen + 2 + 1 + i - 1 = NameLen + 2 + i
      BY <1>1
    <3> QED
      BY <1>6, <3>1
  <2>3. SubSeq(l, NameLen + 2 + 1, NameLen + 2 + 1 + Len(g) - 1) = g
    BY <1>1, <1>5, <2>1, <2>2, PartEqual
  <2> QED
    BY <1>1, <2>1, <2>3
<1>11. Word1(l) = f /\ Word2(l) = g
  <2> DEFINE blanks == {i \in DOMAIN l : l[i] = Blank}
             first == Min(blanks)
  <2>1. blanks # {} /\ first = NameLen + 2
    BY <1>7, <1>8
  <2>2. Words1and2(l) = IF blanks = {} THEN <<Padded(Tail(l)), Padded(<<>>)>>
                        ELSE <<Padded(SubSeq(l, 2, first - 1)),
                               Padded(SubSeq(l, first + 1, Len(l)))>>
    BY DEF Words1and2
  <2> HIDE DEF blanks, first
  <2>3. Words1and2(l) = <<Padded(SubSeq(l, 2, first - 1)),
                          Padded(SubSeq(l, first + 1, Len(l)))>>
    BY <2>1, <2>2, Zenon
  <2>4. SubSeq(l, 2, first - 1) = f /\ SubSeq(l, first + 1, Len(l)) = g
    BY <1>1, <1>9, <1>10, <2>1
  <2>5. Words1and2(l) = <<f, g>>
    BY <2>3, <2>4, PaddedName, Zenon
  <2> QED
    BY <2>5 DEF Word1, Word2
<1> QED
  BY <1>5, <1>6, <1>11 DEF l

\* The words behind a command are names.
LEMMA CommandNames ==
  ASSUME NEW l \in Seq(Cell), l # <<>>, IsCommand(l),
         l[1] \in {"type", "delete", "copy"}
  PROVE  /\ Word1(l) \in Names
         /\ Len(l) >= NameLen + 1 /\ \A i \in 1 .. NameLen : l[1 + i] = Word1(l)[i]
         /\ l[1] = "copy" =>
              /\ Word2(l) \in Names /\ Len(l) = 2 * NameLen + 2
              /\ \A i \in 1 .. NameLen : l[NameLen + 2 + i] = Word2(l)[i]
<1>1. l[1] \in Words
  BY DEF Words
<1>2. NameLen \in Nat
  BY SizeAssumption
<1>3. CASE l[1] # "copy" /\ \E f \in Names : l = WithName(l[1], f)
  <2>1. PICK f \in Names : l = WithName(l[1], f)
    BY <1>3
  <2>2. /\ Len(l) = NameLen + 1 /\ Word1(l) = f
        /\ \A i \in 1 .. NameLen : l[1 + i] = f[i]
    BY <1>1, <2>1, OneName
  <2> QED
    BY <1>2, <1>3, <2>2
<1>4. CASE \E f, g \in Names : l = WithNames("copy", f, g)
  <2>1. PICK f \in Names, g \in Names : l = WithNames("copy", f, g)
    BY <1>4
  <2>2. "copy" \in Words
    BY DEF Words
  <2>3. /\ Len(l) = 2 * NameLen + 2 /\ Word1(l) = f /\ Word2(l) = g
        /\ \A i \in 1 .. NameLen : l[1 + i] = f[i]
        /\ \A i \in 1 .. NameLen : l[NameLen + 2 + i] = g[i]
    BY <2>1, <2>2, TwoNames
  <2> QED
    BY <1>2, <2>3
<1> QED
  BY <1>3, <1>4 DEF IsCommand

\* The names are cut from the buffer where the line has them.
LEMMA NamesArrive ==
  ASSUME NEW c \in [1 .. LineLen -> Cell], NEW l \in Seq(Cell), l # <<>>,
         IsCommand(l), Len(l) <= LineLen, Hold(c, l),
         l[1] \in {"type", "delete", "copy"}
  PROVE  /\ NameAt(c, 2) = Word1(l)
         /\ l[1] = "copy" => NameAt(c, NameLen + 3) = Word2(l)
<1>1. /\ Word1(l) \in Names
      /\ Len(l) >= NameLen + 1 /\ \A i \in 1 .. NameLen : l[1 + i] = Word1(l)[i]
      /\ l[1] = "copy" =>
           /\ Word2(l) \in Names /\ Len(l) = 2 * NameLen + 2
           /\ \A i \in 1 .. NameLen : l[NameLen + 2 + i] = Word2(l)[i]
  BY CommandNames
<1>2. NameLen \in Nat /\ LineLen \in Nat /\ c \in Seq(Cell) /\ Len(c) = LineLen
      /\ Len(l) \in Nat
  BY SizeAssumption, CellsAreSeq
<1>3. NameAt(c, 2) = Word1(l)
  <2>1. Word1(l) \in Seq(Cell) /\ Len(Word1(l)) = NameLen
    BY <1>1, NameType
  <2>2. \A i \in 1 .. NameLen : c[2 + i - 1] = Word1(l)[i]
    <3> SUFFICES ASSUME NEW i \in 1 .. NameLen
                 PROVE  c[2 + i - 1] = Word1(l)[i]
      OBVIOUS
    <3>1. 1 + i \in 1 .. Len(l) /\ 2 + i - 1 = 1 + i
      BY <1>1, <1>2
    <3>2. c[1 + i] = l[1 + i]
      BY <3>1 DEF Hold
    <3> QED
      BY <1>1, <3>1, <3>2
  <2>3. 2 + NameLen - 1 <= Len(c)
    BY <1>1, <1>2
  <2> QED
    BY <1>2, <2>1, <2>2, <2>3, PartEqual DEF NameAt
<1>4. ASSUME l[1] = "copy"
      PROVE  NameAt(c, NameLen + 3) = Word2(l)
  <2>1. Word2(l) \in Seq(Cell) /\ Len(Word2(l)) = NameLen
    BY <1>1, <1>4, NameType
  <2>2. \A i \in 1 .. NameLen : c[NameLen + 3 + i - 1] = Word2(l)[i]
    <3> SUFFICES ASSUME NEW i \in 1 .. NameLen
                 PROVE  c[NameLen + 3 + i - 1] = Word2(l)[i]
      OBVIOUS
    <3>1. NameLen + 2 + i \in 1 .. Len(l) /\ NameLen + 3 + i - 1 = NameLen + 2 + i
      BY <1>1, <1>2, <1>4
    <3>2. c[NameLen + 2 + i] = l[NameLen + 2 + i]
      BY <3>1 DEF Hold
    <3> QED
      BY <1>1, <1>4, <3>1, <3>2
  <2>3. NameLen + 3 + NameLen - 1 <= Len(c) /\ NameLen + 3 \in Nat \ {0}
    BY <1>1, <1>2, <1>4
  <2> QED
    BY <1>2, <2>1, <2>2, <2>3, PartEqual DEF NameAt
<1> QED
  BY <1>3, <1>4

\* What a command means is a wish.
LEMMA MeaningType ==
  ASSUME TypeOK, NEW l \in Seq(Cell), l # <<>>, IsCommand(l)
  PROVE  Meaning(l) \in Wishes \cup {Nothing}
<1>1. CASE l[1] \in {"type", "delete"}
  <2>1. Word1(l) \in Names
    BY <1>1, CommandNames
  <2> QED
    BY <1>1, <2>1 DEF Meaning, Wish, Wishes
<1>2. CASE l[1] = "copy" /\ Exists(Word1(l))
  <2>1. Word2(l) \in Names
    BY <1>2, CommandNames
  <2>2. Text(files[Word1(l)]) \in Seq(Cell)
    BY <1>2, TextType DEF TypeOK, Exists
  <2>3. Meaning(l) = Wish("write", Word2(l), Text(files[Word1(l)]))
    BY <1>2 DEF Meaning
  <2> QED
    BY <2>1, <2>2, <2>3 DEF Wish, Wishes
<1>3. CASE l[1] \notin {"type", "delete"} /\ ~(l[1] = "copy" /\ Exists(Word1(l)))
  <2>1. Meaning(l) = Nothing
    BY <1>3 DEF Meaning
  <2> QED
    BY <2>1
<1> QED
  BY <1>1, <1>2, <1>3

-----------------------------------------------------------------------------
(* The initial state.                                                      *)

\* A file buffer holds a number of whole sectors.
LEMMA SectorCounts ==
  /\ FileLen \div SectorLen \in Nat
  /\ \A len \in Nat : len % SectorLen = 0 => len = (len \div SectorLen) * SectorLen
  /\ \A len \in Nat : len <= FileLen =>
       len \div SectorLen \in 0 .. FileLen \div SectorLen
BY SizeAssumption

LEMMA InitExact == Init => IInv
<1> SUFFICES ASSUME Init PROVE IInv
  OBVIOUS
<1> USE DEF Init
<1>1. TypeOK
  <2>1. mem \in Memory
    BY SizeAssumption DEF Memory, Zeros, JunkCells, Cell
  <2>2. /\ keyboard \in Seq(Cell \cup {Enter})
        /\ pc \in [shell : {"line", "obey", "show", "copy"},
                   editor : {"off", "filename", "file", "save"}]
    OBVIOUS
  <2>6. /\ n \in [Prog -> 0 .. FileLen + LineLen] /\ base \in 0 .. FileLen
    BY SizeAssumption
  <2>8. wild \in BOOLEAN /\ free \in Nat
    BY SizeAssumption
  <2>7. meant \in [Prog -> Wishes \cup {Nothing}]
    OBVIOUS
  <2>3. buffer \in [1 .. FileLen -> Cell]
    BY DEF Zeros, Cell
  <2>4. numSectors \in -1 .. FileLen \div SectorLen
    BY SectorCounts
  <2>5. /\ DOMAIN files \subseteq Names /\ files \in [DOMAIN files -> Seq(Cell)]
        /\ \A f \in DOMAIN files : Len(files[f]) % SectorLen = 0
    BY DiskAssumption DEF FileExact
  <2> QED
    BY <2>1, <2>2, <2>3, <2>4, <2>5, <2>6, <2>7, <2>8 DEF TypeOK
<1>2. FilesExact
  BY DiskAssumption DEF FilesExact
<1>3. Asking = "shell" /\ keyboard = <<>> /\ n["shell"] = 0 /\ n["editor"] = 0
      /\ meant["shell"] = Nothing /\ meant["editor"] = Nothing
      /\ pc["shell"] = "line" /\ pc["editor"] = "off"
  BY DEF Asking, Prog
<1>4. ReadingExact /\ PromptExact
  BY <1>3 DEF ReadingExact, PromptExact
<1>5. ShellExact /\ EditorExact
  BY <1>3 DEF ShellExact, EditorExact
<1> QED
  BY <1>1, <1>2, <1>4, <1>5 DEF IInv, NoOverrun

-----------------------------------------------------------------------------
(* The user types a line.                                                  *)

\* What the user means is a wish, and the line to come says so.
LEMMA UserMeans ==
  ASSUME IInv, NEW keys, UserTypes(keys)
  PROVE  /\ keys \in Lines[pc[Asking]] /\ pc[Asking] \in Prompts
         /\ meant' \in [Prog -> Wishes \cup {Nothing}]
         /\ \A p \in Prog \ {Asking} : meant'[p] = meant[p]
         /\ WishExact(Edited(keys))'
<1> DEFINE l == Edited(keys)
<1>1. /\ keys \in Lines[pc[Asking]] /\ pc[Asking] \in Prompts /\ keyboard = <<>>
      /\ Sensible(l)
      /\ meant' = [meant EXCEPT ![Asking] =
           IF Asking = "editor" THEN EditorMeaning(l)
           ELSE IF l = <<>> THEN Nothing ELSE Meaning(l)]
      /\ UNCHANGED <<mem, pc, n, base, buffer, numSectors, files, free, wild>>
  BY DEF UserTypes
<1>2. l \in Seq(Cell)
  BY <1>1, LinesType, EditedType
<1>3. TypeOK /\ meant \in [Prog -> Wishes \cup {Nothing}] /\ Asking \in Prog
  BY DEF IInv, TypeOK, Asking, Prog
<1>4. Sensible(l)'
  BY <1>1 DEF Sensible, Asking, Exists
<1> HIDE DEF l
<1>5. CASE pc["editor"] = "off"
  <2>1. Asking = "shell" /\ pc["shell"] = "line"
    BY <1>1, <1>3, <1>5 DEF Asking, Prompts, TypeOK
  <2>2. meant'["shell"] = IF l = <<>> THEN Nothing ELSE Meaning(l)
    BY <1>1, <1>3, <2>1
  <2>3. IsCommand(l)
    BY <1>1, <2>1, CommandsAssumption DEF l
  <2>4. meant'["shell"] \in Wishes \cup {Nothing}
    BY <1>2, <1>3, <2>2, <2>3, MeaningType
  <2>5. Meaning(l)' = Meaning(l)
    BY <1>1 DEF Meaning, Exists, Wish
  <2>6. WishExact(l)'
    BY <1>1, <1>4, <1>5, <2>2, <2>5 DEF WishExact
  <2> QED
    BY <1>1, <1>3, <2>1, <2>4, <2>6 DEF l
<1>6. CASE pc["editor"] = "filename"
  <2>1. Asking = "editor"
    BY <1>6 DEF Asking
  <2>2. l \in Names
    BY <1>1, <1>6, <2>1, FilenamesAssumption DEF l
  <2>3. meant'["editor"] = Wish("edit", l, <<>>)
    BY <1>1, <1>3, <1>6, <2>1, <2>2, PaddedName DEF EditorMeaning
  <2>4. meant'["editor"] \in Wishes
    <3>1. <<>> \in Seq(Cell)
      OBVIOUS
    <3> QED
      BY <2>2, <2>3, <3>1 DEF Wish, Wishes
  <2>5. WishExact(l)'
    BY <1>1, <1>6, <2>3 DEF WishExact, Wish
  <2> QED
    BY <1>1, <1>3, <2>1, <2>4, <2>5 DEF l
<1>7. CASE pc["editor"] = "file"
  <2>1. Asking = "editor"
    BY <1>7 DEF Asking
  <2>2. mem.filename \in Names /\ meant["editor"] = Wish("edit", mem.filename, <<>>)
    BY <1>1, <1>7, <2>1 DEF IInv, EditorExact, PromptExact
  <2>3. l # <<>> /\ Last(l) = CtrlD
    BY <1>1, <1>7, <2>1, TextsAssumption DEF l, IsText
  <2>4. meant["editor"].content \o l = l /\ meant["editor"].name = mem.filename
    BY <1>2, <2>2, ConcatEmptySeq DEF Wish
  <2>5. meant'["editor"] = Wish("write", mem.filename, Front(l))
    BY <1>1, <1>3, <1>7, <2>1, <2>3, <2>4 DEF EditorMeaning
  <2>6. Front(l) \in Seq(Cell)
    BY <1>2, <2>3 DEF Front
  <2>7. meant'["editor"] \in Wishes
    BY <2>2, <2>5, <2>6 DEF Wish, Wishes
  <2>8. WishExact(l)'
    BY <1>1, <1>7, <2>5 DEF WishExact, Wish
  <2> QED
    BY <1>1, <1>3, <2>1, <2>7, <2>8 DEF l
<1> QED
  BY <1>1, <1>3, <1>5, <1>6, <1>7 DEF Asking, Prompts, TypeOK

LEMMA UserTypesExact ==
  ASSUME IInv, NEW keys, UserTypes(keys)
  PROVE  IInv'
<1>1. /\ keys \in Lines[pc[Asking]] /\ pc[Asking] \in Prompts
      /\ meant' \in [Prog -> Wishes \cup {Nothing}]
      /\ \A p \in Prog \ {Asking} : meant'[p] = meant[p]
      /\ WishExact(Edited(keys))'
  BY UserMeans
<1>2. /\ keyboard' = Append(keys, Enter) /\ keyboard = <<>> /\ n[Asking] = 0
      /\ UNCHANGED <<mem, pc, n, base, buffer, numSectors, files, free, wild>>
  BY DEF UserTypes
<1>3. Asking' = Asking
  BY <1>2 DEF Asking
<1>4. keys \in Seq(Cell) /\ Len(keys) \in Nat
  BY <1>1, LinesType
<1> DEFINE S == Cell \cup {Enter}
<1>5. /\ Append(keys, Enter) \in Seq(S) /\ Append(keys, Enter) # <<>>
      /\ Len(Append(keys, Enter)) = Len(keys) + 1
  <2>1. keys \in Seq(S) /\ Enter \in S
    BY <1>4
  <2> HIDE DEF S
  <2> QED
    BY <2>1, AppendProperties
<1>6. TypeOK'
  BY <1>1, <1>2, <1>5 DEF IInv, TypeOK
<1>7. NoOverrun' /\ FilesExact'
  BY <1>2 DEF IInv, NoOverrun, FilesExact
<1>8. ReadingExact'
  <2>1. keyboard' = SubSeq(Append(keys, Enter), 0 + 1, Len(keys) + 1)
    <3> HIDE DEF S
    <3>1. SubSeq(Append(keys, Enter), 1, Len(Append(keys, Enter))) = Append(keys, Enter)
      BY <1>5, SubSeqFull
    <3> QED
      BY <1>2, <1>5, <3>1
  <2>2. Typing(keys)[0] = <<>>
    BY <1>4, TypingDefined
  <2>3. n'[Asking'] = Len(Typing(keys)[0]) /\ Hold(mem'[pc'[Asking']], Typing(keys)[0])
    BY <1>2, <1>3, <2>2 DEF Hold
  <2>4. keys \in Lines[pc'[Asking']] /\ pc'[Asking'] \in Prompts /\ 0 \in 0 .. Len(keys)
    BY <1>1, <1>2, <1>3, <1>4
  <2> QED
    BY <1>1, <2>1, <2>3, <2>4 DEF ReadingExact, Hold
<1>9. PromptExact'
  BY <1>2, <1>5 DEF PromptExact
<1>10. pc["shell"] = "line" /\ pc["editor"] # "save"
  BY <1>1 DEF IInv, TypeOK, ShellExact, Asking, Prompts
<1>11. ShellExact'
  BY <1>2, <1>10 DEF ShellExact
<1>12. EditorExact'
  <2>1. pc["editor"] = "off" => meant'["editor"] = meant["editor"]
    BY <1>1 DEF Asking, Prog
  <2>2. pc["editor"] # "off" => meant'["shell"] = meant["shell"]
    BY <1>1 DEF Asking, Prog
  <2> QED
    BY <1>2, <1>10, <2>1, <2>2 DEF IInv, EditorExact
<1> QED
  BY <1>6, <1>7, <1>8, <1>9, <1>11, <1>12 DEF IInv

-----------------------------------------------------------------------------
(* readString takes a key.                                                 *)

\* What every key leaves alone.
LEMMA KeyLeaves ==
  ASSUME IInv, NEW p \in Prog, ReadKey(p)
  PROVE  /\ UNCHANGED <<buffer, numSectors, files, free, shown, meant>>
         /\ keyboard' \in Seq(Cell \cup {Enter})
         /\ pc["shell"] = "line" /\ pc["editor"] # "save"
         /\ p = "shell" => pc["editor"] = "off" /\ pc[p] = "line"
         /\ p = "editor" => pc["editor"] \in {"filename", "file"}
<1>1. p = Asking /\ pc[p] \in Prompts /\ keyboard # <<>>
  BY Reader
<1>2. keyboard' = Tail(keyboard) /\ UNCHANGED <<buffer, numSectors, files, free, shown, meant>>
  BY DEF ReadKey
<1>3. keyboard' \in Seq(Cell \cup {Enter})
  <2> DEFINE S == Cell \cup {Enter}
  <2>1. keyboard \in Seq(S)
    BY DEF IInv, TypeOK
  <2> HIDE DEF S
  <2>2. keyboard' \in Seq(S)
    BY <1>1, <1>2, <2>1, HeadTailProperties
  <2> QED
    BY <2>2 DEF S
<1>4. pc["shell"] = "line"
  BY <1>1 DEF IInv, ShellExact
<1>5. p = "shell" => pc["editor"] = "off"
  BY <1>1 DEF Asking
<1>6. p = "editor" => pc["editor"] \in {"filename", "file"}
  BY <1>1 DEF Asking, IInv, TypeOK, Prompts
<1>7. pc["editor"] # "save"
  BY <1>5, <1>6 DEF Prog
<1> QED
  BY <1>2, <1>3, <1>4, <1>5, <1>6, <1>7

\* A key of the line.
LEMMA KeyExact ==
  ASSUME IInv, NEW p \in Prog, ReadKey(p),
         NEW l \in Lines[pc[p]], NEW k \in 0 .. Len(l) - 1,
         n[p] = Len(Typing(l)[k]), Hold(mem[pc[p]], Typing(l)[k]),
         WishExact(Edited(l)), Head(keyboard) = l[k + 1],
         keyboard' = SubSeq(Append(l, Enter), k + 2, Len(l) + 1)
  PROVE  IInv'
<1>1. p = Asking /\ pc[p] \in Prompts /\ keyboard # <<>> /\ n[p] \in Nat
  BY Reader
<1>2. /\ UNCHANGED <<buffer, numSectors, files, free, shown, meant>>
      /\ keyboard' \in Seq(Cell \cup {Enter})
      /\ pc["shell"] = "line" /\ pc["editor"] # "save"
      /\ p = "shell" => pc["editor"] = "off" /\ pc[p] = "line"
      /\ p = "editor" => pc["editor"] \in {"filename", "file"}
  BY KeyLeaves
<1>3. /\ pc' = pc /\ base' = base /\ wild' = FALSE /\ mem' \in Memory
      /\ n' = [n EXCEPT ![p] = Len(Typing(l)[k + 1])]
      /\ Hold(mem'[pc[p]], Typing(l)[k + 1])
      /\ \A d \in Prompts \ {pc[p]} : mem'[d] = mem[d]
  BY KeyStored
<1>4. l \in Seq(Cell) /\ Len(l) \in Nat /\ k + 1 \in 0 .. Len(l)
  BY <1>1, LinesType
<1>5. n \in [Prog -> 0 .. FileLen + LineLen]
  BY DEF IInv, TypeOK
<1>6. Len(Typing(l)[k + 1]) \in 0 .. FileLen + LineLen
  <2>1. Len(Typing(l)[k + 1]) \in Nat
    BY <1>4, TypingType
  <2>2. Len(Typing(l)[k + 1]) <= Room[pc[p]]
    BY <1>1, <1>4, FitsAssumption
  <2>3. Room[pc[p]] \in Int /\ Room[pc[p]] <= FileLen + LineLen
    BY <1>1, SizeAssumption DEF Room, Prompts
  <2> QED
    BY <2>1, <2>2, <2>3, SizeAssumption
<1>7. Asking' = Asking
  BY <1>3 DEF Asking
<1>8. TypeOK'
  BY <1>2, <1>3, <1>5, <1>6 DEF IInv, TypeOK
<1>9. NoOverrun' /\ FilesExact'
  BY <1>2, <1>3 DEF IInv, NoOverrun, FilesExact
<1>10. pc["editor"] = "file" => mem'.filename = mem.filename
  BY <1>1, <1>2, <1>3 DEF Prompts, Prog, Asking
<1>11. WishExact(Edited(l))'
  <2> DEFINE e == Edited(l)
  <2>1. Sensible(e)' = Sensible(e) /\ Meaning(e)' = Meaning(e)
    BY <1>2, <1>3 DEF Sensible, Meaning, Asking, Exists
  <2> HIDE DEF e
  <2>2. WishExact(e)'
    BY <1>2, <1>3, <1>10, <2>1 DEF WishExact, e
  <2> QED
    BY <2>2 DEF e
<1>12. ReadingExact'
  <2>1. keyboard' = SubSeq(Append(l, Enter), k + 1 + 1, Len(l) + 1)
    <3>1. k + 1 + 1 = k + 2
      BY <1>4
    <3> QED
      BY <3>1
  <2>2. n'[Asking'] = Len(Typing(l)[k + 1])
    BY <1>1, <1>3, <1>5, <1>7
  <2>3. Hold(mem'[pc'[Asking']], Typing(l)[k + 1])
    BY <1>1, <1>3, <1>7
  <2>4. l \in Lines[pc'[Asking']] /\ pc'[Asking'] \in Prompts
    BY <1>1, <1>3, <1>7
  <2> QED
    BY <1>4, <1>11, <2>1, <2>2, <2>3, <2>4 DEF ReadingExact, Hold
<1>13. keyboard' # <<>>
  <2> DEFINE S == Cell \cup {Enter}
             typed == Append(l, Enter)
  <2>1. l \in Seq(S) /\ Enter \in S
    BY <1>4
  <2> HIDE DEF S
  <2>2. typed \in Seq(S) /\ Len(typed) = Len(l) + 1
    BY <2>1, AppendProperties
  <2> HIDE DEF typed
  <2>3. k + 2 \in 1 .. Len(typed) /\ Len(typed) \in k + 2 .. Len(typed)
    BY <1>4, <2>2
  <2>4. Len(SubSeq(typed, k + 2, Len(typed))) # 0
    BY <2>2, <2>3
  <2> QED
    BY <2>2, <2>4, EmptySeq DEF typed
<1>14. PromptExact' /\ ShellExact'
  BY <1>2, <1>3, <1>13 DEF PromptExact, ShellExact
<1>15. EditorExact'
  <2>1. pc["editor"] = "off" => n'["editor"] = n["editor"]
    BY <1>2, <1>3, <1>5 DEF Prog
  <2>2. pc["editor"] # "off" => n'["shell"] = n["shell"]
    BY <1>2, <1>3, <1>5 DEF Prog
  <2> QED
    BY <1>2, <1>3, <1>10, <2>1, <2>2 DEF IInv, EditorExact
<1> QED
  BY <1>8, <1>9, <1>12, <1>14, <1>15 DEF IInv

\* What Enter does, whoever reads it: the line is complete, a zero goes behind
\* it, and the program goes on.
LEMMA EnterTaken ==
  ASSUME IInv, NEW p \in Prog, ReadKey(p), NEW l \in Lines[pc[p]],
         n[p] = Len(Typing(l)[Len(l)]), Hold(mem[pc[p]], Typing(l)[Len(l)]),
         Head(keyboard) = Enter
  PROVE  /\ pc[p] \in Prompts /\ Edited(l) \in Seq(Cell)
         /\ n[p] = Len(Edited(l)) /\ n[p] \in Nat /\ n[p] <= Room[pc[p]]
         /\ Hold(mem[pc[p]], Edited(l))
         /\ Put(pc[p], n[p] + 1, NUL)
         /\ pc' = [pc EXCEPT ![p] = AfterLine(p)]
         /\ base' = IF p = "editor" THEN (IF pc[p] = "file" THEN n[p] ELSE 0)
                                    ELSE base
         /\ n' = [n EXCEPT ![p] = IF pc'[p] = "save" THEN @ ELSE 0]
<1>1. /\ p = Asking /\ pc[p] \in Prompts /\ n[p] \in Nat
      /\ n[p] + 1 + (IF pc[p] = "file" THEN base ELSE 0) = n[p] + 1
  BY Reader
<1>2. l \in Seq(Cell) /\ Len(l) \in 0 .. Len(l)
  BY <1>1, LinesType
<1>3. Len(Typing(l)[Len(l)]) <= Room[pc[p]]
  BY <1>1, <1>2, FitsAssumption
<1>4. Enter # Back
  BY KeysAssumption DEF Cell
<1>5. /\ Put(pc[p], n[p] + 1, NUL)
      /\ pc' = [pc EXCEPT ![p] = AfterLine(p)]
      /\ base' = IF p = "editor" THEN (IF pc[p] = "file" THEN n[p] ELSE 0)
                                 ELSE base
      /\ n' = [n EXCEPT ![p] = IF pc'[p] = "save" THEN @ ELSE 0]
  BY <1>1, <1>4 DEF ReadKey
<1> QED
  BY <1>1, <1>2, <1>3, <1>5, EditedType DEF Edited

\* The shell obeys the line that was meant.
LEMMA ShellEnter ==
  ASSUME IInv, ReadKey("shell"), NEW l \in Lines["line"], pc["shell"] = "line",
         n["shell"] = Len(Typing(l)[Len(l)]), Hold(mem["line"], Typing(l)[Len(l)]),
         WishExact(Edited(l)), Head(keyboard) = Enter, keyboard' = <<>>
  PROVE  IInv'
<1> DEFINE e == Edited(l)
           k == n["shell"]
<1>1. "shell" \in Prog /\ "editor" \in Prog
  BY DEF Prog
<1>2. /\ e \in Seq(Cell) /\ k = Len(e) /\ k \in Nat /\ k <= LineLen - 1
      /\ Hold(mem.line, e) /\ Put("line", k + 1, NUL)
      /\ pc' = [pc EXCEPT !["shell"] = AfterLine("shell")]
      /\ base' = base
      /\ n' = [n EXCEPT !["shell"] = IF pc'["shell"] = "save" THEN @ ELSE 0]
  BY <1>1, EnterTaken DEF Room
<1>3. /\ UNCHANGED <<buffer, numSectors, files, free, shown, meant>>
      /\ pc["editor"] = "off"
  BY <1>1, KeyLeaves
<1>4. TypeOK /\ mem \in Memory /\ n \in [Prog -> 0 .. FileLen + LineLen]
  BY DEF IInv, TypeOK
<1>5. /\ pc' = [shell |-> "obey", editor |-> "off"]
      /\ pc'["shell"] = "obey" /\ pc'["editor"] = "off"
  BY <1>2, <1>3, <1>4 DEF TypeOK, AfterLine
<1>6. n' = [n EXCEPT !["shell"] = 0]
  <2>1. pc'["shell"] # "save"
    BY <1>5
  <2> QED
    BY <1>2, <2>1
<1> HIDE DEF e, k
<1>7. k + 1 \in 1 .. LineLen /\ NUL \in Cell /\ LineLen \in Nat
  BY <1>2, SizeAssumption DEF Cell
<1>8. /\ mem' \in Memory /\ wild' = FALSE
      /\ mem'.line = [mem.line EXCEPT ![k + 1] = NUL]
  BY <1>2, <1>4, <1>7, PutLine
<1>9. TypeOK'
  <2>1. /\ pc' \in [shell : {"line", "obey", "show", "copy"},
                    editor : {"off", "filename", "file", "save"}]
        /\ keyboard' \in Seq(Cell \cup {Enter})
    BY <1>5
  <2>2. 0 \in 0 .. FileLen + LineLen
    BY SizeAssumption
  <2>3. n' \in [Prog -> 0 .. FileLen + LineLen]
    BY <1>4, <1>6, <2>2
  <2>4. base' \in 0 .. FileLen
    BY <1>2, <1>4 DEF TypeOK
  <2> QED
    BY <1>3, <1>4, <1>8, <2>1, <2>3, <2>4 DEF TypeOK
<1>10. FilesExact' /\ NoOverrun' /\ ReadingExact' /\ PromptExact'
  BY <1>3, <1>5, <1>8
     DEF IInv, FilesExact, NoOverrun, ReadingExact, PromptExact, Asking, Prompts
<1>11. mem'.line \in [1 .. LineLen -> Cell] /\ Hold(mem'.line, e)
  <2>1. mem'.line \in [1 .. LineLen -> Cell] /\ mem.line \in [1 .. LineLen -> Cell]
    BY <1>4, <1>8 DEF Memory
  <2>2. ASSUME NEW i \in 1 .. Len(e)
        PROVE  mem'.line[i] = e[i]
    <3>1. i # k + 1 /\ i \in 1 .. LineLen /\ mem.line[i] = e[i]
      BY <1>2, <1>7 DEF Hold
    <3> QED
      BY <1>8, <2>1, <3>1
  <2> QED
    BY <2>1, <2>2 DEF Hold
<1>12. meant["shell"] = (IF e = <<>> THEN Nothing ELSE Meaning(e)) /\ Sensible(e)
  BY <1>3 DEF WishExact, e
<1>13. CommandExact'
  <2>1. CASE e = <<>>
    <3>1. mem'.line[1] = NUL
      <4>1. k + 1 = 1 /\ 1 \in DOMAIN mem.line
        BY <1>2, <1>4, <1>7, <2>1 DEF Memory
      <4> QED
        BY <1>8, <4>1
    <3>2. NUL \notin {"type", "delete", "copy", "texted"}
      BY KeysAssumption DEF Words
    <3> QED
      BY <1>3, <1>12, <2>1, <3>1, <3>2 DEF CommandExact
  <2>2. CASE e # <<>>
    <3>1. mem'.line[1] = e[1]
      <4>1. 1 \in 1 .. Len(e)
        BY <1>2, <2>2, EmptySeq
      <4> QED
        BY <1>11, <4>1 DEF Hold
    <3>2. meant'["shell"] = Meaning(e)
      BY <1>3, <1>12, <2>2
    <3>3. CASE e[1] \in {"type", "delete", "copy"}
      <4>1. IsCommand(e)
        BY CommandsAssumption DEF e
      <4>2. /\ NameAt(mem'.line, 2) = Word1(e)
            /\ e[1] = "copy" => NameAt(mem'.line, NameLen + 3) = Word2(e)
        <5>1. Len(e) <= LineLen
          BY <1>2, <1>7
        <5> QED
          BY <1>2, <1>11, <2>2, <3>3, <4>1, <5>1, NamesArrive
      <4>3. Name1' = Word1(e) /\ (e[1] = "copy" => Name2' = Word2(e))
        BY <4>2 DEF Name1, Name2, NameAt
      <4>4. e[1] = "copy" => Exists(Word1(e))
        BY <1>3, <1>12, <2>2, ExposedAssumption DEF Sensible, Asking
      <4>6. e[1] = "copy" => SectorsIn(files[Word1(e)]) <= free
        BY <1>3, <1>12, <2>2, <4>4, ExposedAssumption DEF Sensible, Asking
      <4>5. Word1(e) \in Names /\ (e[1] = "copy" => Word2(e) \in Names)
        BY <1>2, <2>2, <3>3, <4>1, CommandNames
      <4> QED
        BY <1>3, <3>1, <3>2, <3>3, <4>3, <4>4, <4>5, <4>6
           DEF CommandExact, Meaning, Exists, SectorsIn
    <3>4. CASE e[1] \notin {"type", "delete", "copy"}
      <4>1. e[1] = "texted" => FileLen \div SectorLen <= free
        BY <1>3, <1>12, <2>2, ExposedAssumption DEF Sensible, Asking
      <4> QED
        BY <1>3, <3>1, <3>2, <3>4, <4>1 DEF CommandExact, Meaning
    <3> QED
      BY <3>3, <3>4
  <2> QED
    BY <2>1, <2>2
<1>14. ShellExact'
  BY <1>4, <1>5, <1>6, <1>13 DEF ShellExact, Prog
<1>15. EditorExact'
  BY <1>2, <1>3, <1>4, <1>5, <1>6 DEF IInv, EditorExact, Prog
<1> QED
  BY <1>9, <1>10, <1>14, <1>15 DEF IInv


\* The editor has the name that was meant.
LEMMA NameEnter ==
  ASSUME IInv, ReadKey("editor"), NEW l \in Lines["filename"],
         pc["editor"] = "filename", n["editor"] = Len(Typing(l)[Len(l)]),
         Hold(mem["filename"], Typing(l)[Len(l)]),
         WishExact(Edited(l)), Head(keyboard) = Enter, keyboard' = <<>>
  PROVE  IInv'
<1> DEFINE e == Edited(l)
           k == n["editor"]
<1>1. "shell" \in Prog /\ "editor" \in Prog
  BY DEF Prog
<1>2. /\ e \in Seq(Cell) /\ k = Len(e) /\ Hold(mem.filename, e)
      /\ Put("filename", k + 1, NUL)
      /\ pc' = [pc EXCEPT !["editor"] = AfterLine("editor")]
      /\ base' = 0
      /\ n' = [n EXCEPT !["editor"] = IF pc'["editor"] = "save" THEN @ ELSE 0]
  BY <1>1, EnterTaken
<1>3. /\ UNCHANGED <<buffer, numSectors, files, free, shown, meant>>
      /\ pc["shell"] = "line"
  BY <1>1, KeyLeaves
<1>4. TypeOK /\ mem \in Memory /\ n \in [Prog -> 0 .. FileLen + LineLen]
  BY DEF IInv, TypeOK
<1>5. /\ pc' = [shell |-> "line", editor |-> "file"]
      /\ pc'["shell"] = "line" /\ pc'["editor"] = "file"
  BY <1>2, <1>3, <1>4 DEF TypeOK, AfterLine
<1>6. n' = [n EXCEPT !["editor"] = 0]
  <2>1. pc'["editor"] # "save"
    BY <1>5
  <2> QED
    BY <1>2, <2>1
<1>7. meant["editor"] = Wish("edit", e, <<>>)
  BY DEF WishExact
<1>8. e \in Names
  BY FilenamesAssumption
<1> HIDE DEF e, k
<1>9. k = NameLen /\ NameLen \in Nat
  BY <1>2, <1>8, NameType
<1>10. mem' = mem /\ wild' = FALSE
  BY <1>2, <1>4, <1>9, PutSpare
<1>11. mem.filename = e
  <2>1. mem.filename \in [1 .. NameLen -> Cell]
    BY <1>4 DEF Memory
  <2>2. mem.filename \in Seq(Cell) /\ Len(mem.filename) = NameLen
    BY <1>9, <2>1, CellsAreSeq
  <2>3. \A i \in 1 .. Len(e) : mem.filename[i] = e[i]
    BY <1>2 DEF Hold
  <2> DEFINE f == mem.filename
  <2>4. f \in Seq(Cell) /\ Len(f) = Len(e) /\ \A i \in 1 .. Len(e) : f[i] = e[i]
    BY <1>2, <1>9, <2>2, <2>3
  <2> HIDE DEF f
  <2>5. f = e
    BY <1>2, <2>4, SeqEqual
  <2> QED
    BY <2>5 DEF f
<1>12. TypeOK'
  <2>1. /\ pc' \in [shell : {"line", "obey", "show", "copy"},
                    editor : {"off", "filename", "file", "save"}]
        /\ keyboard' \in Seq(Cell \cup {Enter})
    BY <1>5
  <2>2. 0 \in 0 .. FileLen + LineLen /\ base' \in 0 .. FileLen
    BY <1>2, SizeAssumption
  <2>3. n' \in [Prog -> 0 .. FileLen + LineLen]
    BY <1>4, <1>6, <2>2
  <2> QED
    BY <1>3, <1>4, <1>10, <2>1, <2>2, <2>3 DEF TypeOK
<1>13. FilesExact' /\ NoOverrun' /\ ReadingExact' /\ ShellExact'
  BY <1>3, <1>5, <1>10 DEF IInv, FilesExact, NoOverrun, ReadingExact, ShellExact
<1>14. n'["editor"] = 0 /\ n'["shell"] = n["shell"]
  BY <1>1, <1>4, <1>6
<1>15. PromptExact'
  <2>1. Asking' = "editor"
    BY <1>5 DEF Asking
  <2> QED
    BY <1>3, <1>5, <1>7, <1>10, <1>11, <1>14, <2>1 DEF PromptExact
<1>16. EditorExact'
  BY <1>2, <1>3, <1>5, <1>8, <1>10, <1>11, <1>14 DEF IInv, EditorExact
<1> QED
  BY <1>12, <1>13, <1>15, <1>16 DEF IInv

\* The editor has read the text that was meant.
LEMMA TextEnter ==
  ASSUME IInv, ReadKey("editor"), NEW l \in Lines["file"],
         pc["editor"] = "file", n["editor"] = Len(Typing(l)[Len(l)]),
         Hold(mem["file"], Typing(l)[Len(l)]),
         WishExact(Edited(l)), Head(keyboard) = Enter, keyboard' = <<>>
  PROVE  IInv'
<1> DEFINE e == Edited(l)
           k == n["editor"]
<1>1. "shell" \in Prog /\ "editor" \in Prog
  BY DEF Prog
<1>2. /\ e \in Seq(Cell) /\ k = Len(e) /\ k \in Nat /\ k <= FileLen - 1
      /\ Hold(mem.file, e)
      /\ Put("file", k + 1, NUL)
      /\ pc' = [pc EXCEPT !["editor"] = AfterLine("editor")]
      /\ base' = k
      /\ n' = [n EXCEPT !["editor"] = IF pc'["editor"] = "save" THEN @ ELSE 0]
  BY <1>1, EnterTaken DEF Room
<1>3. /\ UNCHANGED <<buffer, numSectors, files, free, shown, meant>>
      /\ pc["shell"] = "line"
  BY <1>1, KeyLeaves
<1>4. TypeOK /\ mem \in Memory /\ n \in [Prog -> 0 .. FileLen + LineLen]
  BY DEF IInv, TypeOK
<1>5. meant["editor"] = Wish("write", mem.filename, Front(e))
  BY DEF WishExact
<1>6. IsText(e)
  BY TextsAssumption
<1> HIDE DEF e
<1>7. k \in 1 .. Len(e) /\ e[k] = CtrlD /\ k + 1 \in 1 .. FileLen
      /\ FileLen \in Nat /\ NUL \in Cell
  <2>1. Len(e) # 0
    BY <1>2, <1>6, EmptySeq DEF IsText
  <2>2. Last(e) = CtrlD
    BY <1>6 DEF IsText
  <2> HIDE DEF k
  <2> QED
    BY <1>2, <2>1, <2>2, SizeAssumption DEF Last, Cell
<1>8. mem.file[k] = CtrlD
  BY <1>2, <1>7 DEF Hold
<1>9. /\ pc' = [shell |-> "line", editor |-> "save"]
      /\ pc'["shell"] = "line" /\ pc'["editor"] = "save"
  <2>1. AfterLine("editor") = "save"
    <3>1. n["editor"] > 0
      BY <1>7
    <3> QED
      BY <1>8, <3>1 DEF AfterLine
  <2> QED
    BY <1>2, <1>3, <1>4, <2>1 DEF TypeOK
<1>10. n' = n
  BY <1>2, <1>4, <1>9
<1> HIDE DEF k
<1>11. /\ mem' \in Memory /\ wild' = FALSE
       /\ mem'.file = [mem.file EXCEPT ![k + 1] = NUL]
       /\ mem'.filename = mem.filename
  BY <1>2, <1>4, <1>7, PutFile
<1>12. TypeOK'
  <2>1. /\ pc' \in [shell : {"line", "obey", "show", "copy"},
                    editor : {"off", "filename", "file", "save"}]
        /\ keyboard' \in Seq(Cell \cup {Enter})
    BY <1>9
  <2>2. base' \in 0 .. FileLen
    BY <1>2, <1>7
  <2> QED
    BY <1>3, <1>4, <1>10, <1>11, <2>1, <2>2 DEF TypeOK
<1>13. FilesExact' /\ NoOverrun' /\ ReadingExact' /\ ShellExact'
  BY <1>3, <1>9, <1>11 DEF IInv, FilesExact, NoOverrun, ReadingExact, ShellExact
<1>14. PromptExact'
  BY <1>9 DEF PromptExact, Asking, Prompts
<1> DEFINE f == mem'.file
<1>15. /\ f \in Seq(Cell) /\ Len(f) = FileLen
       /\ \A i \in 1 .. k : f[i] = e[i]
  <2>1. f \in [1 .. FileLen -> Cell] /\ mem.file \in [1 .. FileLen -> Cell]
    BY <1>4, <1>11 DEF Memory
  <2>2. ASSUME NEW i \in 1 .. k
        PROVE  f[i] = e[i]
    <3>1. i # k + 1 /\ i \in 1 .. FileLen /\ mem.file[i] = e[i]
      BY <1>2, <1>7 DEF Hold
    <3> QED
      BY <1>11, <2>1, <3>1
  <2> HIDE DEF f
  <2> QED
    BY <1>7, <2>1, <2>2, CellsAreSeq
<1> HIDE DEF f
<1>16. \A i \in 1 .. k - 1 : f[i] # NUL
  BY <1>2, <1>6, <1>15 DEF IsText
<1>17. SubSeq(f, 1, k - 1) = Front(e)
  BY <1>2, <1>7, <1>15 DEF Front
<1>18. EditorExact'
  <2>1. k \in 1 .. FileLen
    BY <1>2, <1>7
  <2>2. n'["editor"] = k /\ n'["shell"] = n["shell"]
    BY <1>10 DEF k
  <2>3. mem'.filename \in Names
    BY <1>11 DEF IInv, EditorExact
  <2>4. meant'["editor"] = Wish("write", mem'.filename, SubSeq(f, 1, k - 1))
    BY <1>3, <1>5, <1>11, <1>17
  <2>5. n'["shell"] = 0 /\ meant'["shell"] = Nothing /\ FileLen \div SectorLen <= free'
    BY <1>3, <1>10 DEF IInv, EditorExact
  <2> QED
    BY <1>9, <1>16, <2>1, <2>2, <2>3, <2>4, <2>5 DEF EditorExact, f
<1> QED
  BY <1>12, <1>13, <1>14, <1>18 DEF IInv


\* Every key that is read leaves what was typed so far in the buffer.
LEMMA ReadKeyExact ==
  ASSUME IInv, NEW p \in Prog, ReadKey(p)
  PROVE  IInv'
<1>0. PICK l \in Lines[pc[p]] : \E k \in 0 .. Len(l) :
        /\ n[p] = Len(Typing(l)[k])
        /\ Hold(mem[pc[p]], Typing(l)[k])
        /\ WishExact(Edited(l))
        /\ Head(keyboard) = IF k = Len(l) THEN Enter ELSE l[k + 1]
        /\ keyboard' = IF k = Len(l) THEN <<>>
                       ELSE SubSeq(Append(l, Enter), k + 2, Len(l) + 1)
  BY KeyTaken
<1>1. PICK k \in 0 .. Len(l) :
        /\ n[p] = Len(Typing(l)[k])
        /\ Hold(mem[pc[p]], Typing(l)[k])
        /\ WishExact(Edited(l))
        /\ Head(keyboard) = IF k = Len(l) THEN Enter ELSE l[k + 1]
        /\ keyboard' = IF k = Len(l) THEN <<>>
                       ELSE SubSeq(Append(l, Enter), k + 2, Len(l) + 1)
  BY <1>0
<1>2. p = Asking /\ pc[p] \in Prompts
  BY Reader
<1>3. l \in Seq(Cell) /\ Len(l) \in Nat
  BY <1>2, LinesType
<1>4. CASE k # Len(l)
  <2>1. k \in 0 .. Len(l) - 1
    BY <1>3, <1>4
  <2> QED
    BY <1>1, <1>4, <2>1, KeyExact
<1>5. CASE k = Len(l)
  <2>1. CASE p = "shell"
    <3>1. pc["shell"] = "line"
      BY <2>1, KeyLeaves
    <3> QED
      BY <1>1, <1>5, <2>1, <3>1, ShellEnter
  <2>2. CASE p = "editor" /\ pc["editor"] = "filename"
    BY <1>1, <1>5, <2>2, NameEnter
  <2>3. CASE p = "editor" /\ pc["editor"] = "file"
    BY <1>1, <1>5, <2>3, TextEnter
  <2>4. p = "editor" => pc["editor"] \in {"filename", "file"}
    BY KeyLeaves
  <2> QED
    BY <2>1, <2>2, <2>3, <2>4 DEF Prog
<1> QED
  BY <1>4, <1>5


-----------------------------------------------------------------------------
(* The commands.                                                           *)

\* What is read into the shell's buffer is there from its first cell on.
LEMMA BufferRead ==
  ASSUME TypeOK, FilesExact, NEW f \in DOMAIN files
  PROVE  /\ Over(files[f], buffer) \in [1 .. FileLen -> Cell]
         /\ Hold(Over(files[f], buffer), files[f])
<1> DEFINE c == files[f]
           b == Over(c, buffer)
<1>1. /\ c \in Seq(Cell) /\ Len(c) <= FileLen
      /\ buffer \in [1 .. FileLen -> Cell] /\ FileLen \in Nat
  BY SizeAssumption DEF TypeOK, FilesExact, FileExact
<1>2. buffer \in Seq(Cell) /\ Len(buffer) = FileLen
  BY <1>1, CellsAreSeq
<1> HIDE DEF c
<1>3. b \in Seq(Cell) /\ Len(b) = FileLen /\ Hold(b, c)
  BY <1>1, <1>2, OverExact
<1> HIDE DEF b
<1>4. b \in [1 .. FileLen -> Cell]
  BY <1>1, <1>3
<1> QED
  BY <1>3, <1>4 DEF b, c

\* The prompt again: the command is over, whatever it did to the files.
LEMMA ShellPrompts ==
  ASSUME IInv, pc["shell"] # "line", Prompt, Done("shell"),
         UNCHANGED <<keyboard, mem, n, base, wild>>,
         buffer' \in [1 .. FileLen -> Cell],
         numSectors' \in -1 .. FileLen \div SectorLen,
         DOMAIN files' \subseteq Names, files' \in [DOMAIN files' -> Seq(Cell)],
         FilesExact', free' \in Nat
  PROVE  IInv'
<1>1. /\ pc["editor"] = "off" /\ keyboard = <<>> /\ n["shell"] = 0
      /\ n["editor"] = 0 /\ meant["editor"] = Nothing /\ base = 0
  BY DEF IInv, ShellExact, EditorExact
<1>2. /\ pc' = [shell |-> "line", editor |-> "off"]
      /\ pc'["shell"] = "line" /\ pc'["editor"] = "off"
  BY <1>1 DEF IInv, TypeOK, Prompt
<1>3. meant' = [p \in Prog |-> Nothing]
  BY <1>1 DEF IInv, TypeOK, Done, Prog
<1>4. TypeOK'
  <2>1. pc' \in [shell : {"line", "obey", "show", "copy"},
                 editor : {"off", "filename", "file", "save"}]
    BY <1>2
  <2>2. meant' \in [Prog -> Wishes \cup {Nothing}]
    BY <1>3
  <2>3. \A f \in DOMAIN files' : Len(files'[f]) % SectorLen = 0
    BY DEF FilesExact, FileExact
  <2> QED
    BY <2>1, <2>2, <2>3 DEF IInv, TypeOK
<1>5. Asking' = "shell"
  BY <1>2 DEF Asking
<1>6. meant'["shell"] = Nothing /\ meant'["editor"] = Nothing
  BY <1>3 DEF Prog
<1>7. NoOverrun' /\ ReadingExact' /\ PromptExact' /\ ShellExact' /\ EditorExact'
  BY <1>1, <1>2, <1>5, <1>6
     DEF IInv, NoOverrun, ReadingExact, PromptExact, ShellExact, EditorExact
<1> QED
  BY <1>4, <1>7 DEF IInv

\* A command that changes no file.
LEMMA PromptOnly ==
  ASSUME IInv, TypeMissing \/ TypeShow \/ NotRecognized
  PROVE  IInv'
<1>1. /\ pc["shell"] # "line" /\ Prompt /\ Done("shell")
      /\ UNCHANGED <<keyboard, mem, n, base, numSectors, files, free, wild>>
  BY DEF TypeMissing, TypeShow, NotRecognized, Obeys
<1>2. buffer' = buffer \/ (Exists(Name1) /\ buffer' = Over(files[Name1], buffer))
  BY DEF TypeMissing, TypeShow, NotRecognized
<1>3. buffer' \in [1 .. FileLen -> Cell]
  <2>1. CASE buffer' = buffer
    BY <2>1 DEF IInv, TypeOK
  <2>2. CASE Exists(Name1) /\ buffer' = Over(files[Name1], buffer)
    BY <2>2, BufferRead DEF IInv, Exists
  <2> QED
    BY <1>2, <2>1, <2>2
<1>4. /\ numSectors' \in -1 .. FileLen \div SectorLen
      /\ DOMAIN files' \subseteq Names
      /\ files' \in [DOMAIN files' -> Seq(Cell)]
      /\ FilesExact' /\ free' \in Nat
  BY <1>1 DEF IInv, TypeOK, FilesExact
<1> QED
  BY <1>1, <1>3, <1>4, ShellPrompts

\* delete takes one file away.
LEMMA DeleteExact ==
  ASSUME IInv, Delete
  PROVE  IInv'
<1>1. /\ pc["shell"] # "line" /\ Prompt /\ Done("shell")
      /\ UNCHANGED <<keyboard, mem, n, base, buffer, numSectors, wild>>
      /\ files' = [f \in DOMAIN files \ {Name1} |-> files[f]]
      /\ free' = IF Exists(Name1) THEN free + SectorsIn(files[Name1]) ELSE free
  BY DEF Delete, Obeys
<1>2. DOMAIN files' \subseteq Names /\ files' \in [DOMAIN files' -> Seq(Cell)]
      /\ buffer' \in [1 .. FileLen -> Cell]
      /\ numSectors' \in -1 .. FileLen \div SectorLen
  BY <1>1 DEF IInv, TypeOK
<1>3. FilesExact'
  BY <1>1 DEF IInv, FilesExact
<1>4. free' \in Nat
  <2>1. Exists(Name1) => SectorsIn(files[Name1]) \in Nat
    <3>1. \A f \in DOMAIN files : files[f] \in Seq(Cell) /\ Len(files[f]) <= FileLen
      BY DEF IInv, TypeOK, FilesExact, FileExact
    <3> QED
      BY <3>1, SectorCounts DEF SectorsIn, Exists
  <2> QED
    BY <1>1, <2>1 DEF IInv, TypeOK
<1> QED
  BY <1>1, <1>2, <1>3, <1>4, ShellPrompts

\* The steps between the read and the show of type, and between the read and
\* the write of copy.
LEMMA FileRead ==
  ASSUME IInv, TypeRead \/ CopyRead
  PROVE  IInv'
<1> DEFINE c == files[Name1]
           next == IF TypeRead THEN "show" ELSE "copy"
<1>1. /\ pc["shell"] = "obey" /\ pc' = [pc EXCEPT !["shell"] = next]
      /\ mem.line[1] = IF TypeRead THEN "type" ELSE "copy"
      /\ UNCHANGED <<keyboard, mem, n, base, files, free, wild, meant>>
  BY DEF TypeRead, CopyRead, Obeys
<1>2. /\ pc["editor"] = "off" /\ keyboard = <<>> /\ n["shell"] = 0
      /\ n["editor"] = 0 /\ meant["editor"] = Nothing /\ base = 0 /\ CommandExact
  BY <1>1 DEF IInv, ShellExact, EditorExact
<1>3. Name1 \in DOMAIN files
  BY <1>1, <1>2 DEF TypeRead, CommandExact, Exists
<1>4. /\ buffer' = Over(c, buffer)
      /\ numSectors' = IF TypeRead THEN numSectors ELSE Len(c) \div SectorLen
  BY <1>1, <1>3 DEF TypeRead, CopyRead, Exists, Obeys, SectorsIn
<1>5. buffer' \in [1 .. FileLen -> Cell] /\ Hold(buffer', c)
  BY <1>3, <1>4, BufferRead DEF IInv
<1>6. /\ pc' = [shell |-> next, editor |-> "off"]
      /\ pc'["shell"] = next /\ pc'["editor"] = "off" /\ next \in {"show", "copy"}
  BY <1>1, <1>2 DEF IInv, TypeOK
<1> HIDE DEF next
<1>7. TypeOK'
  <2>1. pc' \in [shell : {"line", "obey", "show", "copy"},
                 editor : {"off", "filename", "file", "save"}]
    BY <1>6
  <2>2. Len(c) \in Nat /\ Len(c) <= FileLen
    BY <1>3 DEF IInv, TypeOK, FilesExact, FileExact
  <2>3. Len(c) \div SectorLen \in -1 .. FileLen \div SectorLen
    <3> HIDE DEF c
    <3>1. /\ Len(c) \div SectorLen \in 0 .. FileLen \div SectorLen
          /\ FileLen \div SectorLen \in Nat
      BY <2>2, SectorCounts
    <3> QED
      BY <3>1
  <2>4. numSectors' \in -1 .. FileLen \div SectorLen
    BY <1>4, <2>3 DEF IInv, TypeOK
  <2> QED
    BY <1>1, <1>5, <2>1, <2>4 DEF IInv, TypeOK
<1>8. /\ NoOverrun' /\ FilesExact' /\ ReadingExact' /\ PromptExact' /\ EditorExact'
  BY <1>1, <1>2, <1>6
     DEF IInv, NoOverrun, FilesExact, ReadingExact, PromptExact, EditorExact,
         Asking, Prompts
<1>9. Name1' = Name1 /\ Name2' = Name2 /\ CommandExact'
  BY <1>1, <1>2 DEF CommandExact, Name1, Name2, NameAt, Exists, SectorsIn
<1>10. ShellExact'
  BY <1>1, <1>2, <1>3, <1>4, <1>5, <1>6, <1>9 DEF ShellExact, Exists, SectorsIn, next
<1> QED
  BY <1>7, <1>8, <1>10 DEF IInv


\* Writing a file of whole sectors with an end keeps all files so, and leaves
\* in it the text that was written.
LEMMA WrittenExact ==
  ASSUME TypeOK, FilesExact, NEW name \in Names, NEW c \in Seq(Cell), FileExact(c)
  PROVE  LET g == Written(name, c) IN
         /\ DOMAIN g = DOMAIN files \cup {name} /\ DOMAIN g \subseteq Names
         /\ g \in [DOMAIN g -> Seq(Cell)]
         /\ \A f \in DOMAIN g : FileExact(g[f])
         /\ Text(g[name]) = Text(c)
         /\ \A f \in DOMAIN files \ {name} : g[f] = files[f]
<1> DEFINE g == Written(name, c)
           o == files[name]
           w == Over(c, o)
<1>1. /\ DOMAIN g = DOMAIN files \cup {name} /\ DOMAIN files \subseteq Names
      /\ \A f \in DOMAIN files \ {name} : g[f] = files[f]
      /\ g[name] = IF Exists(name) THEN w ELSE c
  BY DEF Written, TypeOK
<1>2. \A f \in DOMAIN files : files[f] \in Seq(Cell) /\ FileExact(files[f])
  BY DEF TypeOK, FilesExact
<1>3. g[name] \in Seq(Cell) /\ FileExact(g[name]) /\ Text(g[name]) = Text(c)
  <2>1. CASE ~Exists(name)
    BY <1>1, <2>1
  <2>2. CASE Exists(name)
    <3>1. o \in Seq(Cell) /\ FileExact(o)
      BY <1>2, <2>2 DEF Exists
    <3> HIDE DEF o
    <3>2. /\ w \in Seq(Cell) /\ Hold(w, c)
          /\ Len(w) = IF Len(c) <= Len(o) THEN Len(o) ELSE Len(c)
      BY <3>1, OverExact
    <3> HIDE DEF w
    <3>3. Len(c) <= Len(w) /\ \E i \in 1 .. Len(c) : c[i] = NUL
      BY <3>1, <3>2 DEF FileExact
    <3>4. Text(w) = Text(c)
      BY <3>2, <3>3, TextOfHolding
    <3>5. FileExact(w)
      <4>1. Len(w) <= FileLen /\ Len(w) % SectorLen = 0
        BY <3>1, <3>2 DEF FileExact
      <4>2. PICK i \in 1 .. Len(c) : c[i] = NUL
        BY <3>3
      <4>3. i \in 1 .. Len(w) /\ w[i] = NUL
        BY <3>2, <3>3, <4>2 DEF Hold
      <4> QED
        BY <4>1, <4>3 DEF FileExact
    <3> QED
      BY <1>1, <2>2, <3>2, <3>4, <3>5
  <2> QED
    BY <2>1, <2>2
<1> HIDE DEF g, o, w
<1>4. \A f \in DOMAIN g : g[f] \in Seq(Cell) /\ FileExact(g[f])
  BY <1>1, <1>2, <1>3
<1>5. g = [f \in DOMAIN g |-> g[f]]
  BY DEF g, Written
<1>6. g \in [DOMAIN g -> Seq(Cell)]
  BY <1>4, <1>5
<1> QED
  BY <1>1, <1>3, <1>4, <1>6 DEF g

\* With room for the cells they are written, or there is no entry for them and
\* nothing changes.
LEMMA WriteExact ==
  ASSUME TypeOK, FilesExact, NEW name \in Names, NEW c \in Seq(Cell), FileExact(c),
         SectorsIn(c) <= free, Write(name, c)
  PROVE  /\ wild' = wild /\ free' \in Nat
         /\ DOMAIN files' \subseteq Names /\ files' \in [DOMAIN files' -> Seq(Cell)]
         /\ FilesExact'
         /\ \/ Listed(name) /\ files' = Written(name, c)
            \/ ~Listed(name) /\ UNCHANGED <<files, free>>
<1>1. SectorsIn(c) \in Nat /\ free \in Nat
  BY SectorCounts DEF SectorsIn, FileExact, TypeOK
<1>2. CASE Listed(name)
  <2>1. files' = Written(name, c) /\ free' = free - SectorsIn(c) /\ wild' = wild
    BY <1>1, <1>2 DEF Write
  <2>2. free' \in Nat
    BY <1>1, <2>1
  <2> QED
    BY <1>2, <2>1, <2>2, WrittenExact DEF FilesExact
<1>3. CASE ~Listed(name)
  BY <1>3 DEF Write, TypeOK, FilesExact
<1> QED
  BY <1>2, <1>3

\* What copy writes is what it has read.
LEMMA CopyPart ==
  ASSUME IInv, pc["shell"] = "copy"
  PROVE  /\ Name1 \in DOMAIN files /\ Name2 \in Names
         /\ SubSeq(buffer, 1, numSectors * SectorLen) = files[Name1]
         /\ files[Name1] \in Seq(Cell) /\ FileExact(files[Name1])
         /\ SectorsIn(files[Name1]) <= free
         /\ meant["shell"] = Wish("write", Name2, Text(files[Name1]))
<1> DEFINE c == files[Name1]
<1>1. /\ Name1 \in DOMAIN files /\ Name2 \in Names /\ SectorsIn(files[Name1]) <= free
      /\ meant["shell"] = Wish("write", Name2, Text(files[Name1]))
      /\ numSectors = Len(c) \div SectorLen /\ Hold(buffer, c)
  BY DEF IInv, ShellExact, CommandExact, Exists, SectorsIn
<1>2. c \in Seq(Cell) /\ FileExact(c) /\ buffer \in [1 .. FileLen -> Cell]
  BY <1>1 DEF IInv, TypeOK, FilesExact
<1>3. buffer \in Seq(Cell) /\ Len(buffer) = FileLen
  BY <1>2, SizeAssumption, CellsAreSeq
<1> HIDE DEF c
<1>4. Len(c) \in Nat /\ Len(c) <= FileLen /\ Len(c) % SectorLen = 0
  BY <1>2 DEF FileExact
<1>5. numSectors * SectorLen = Len(c)
  BY <1>1, <1>4, SectorCounts
<1>6. SubSeq(buffer, 1, 1 + Len(c) - 1) = c
  BY <1>1, <1>2, <1>3, <1>4, PartEqual DEF Hold
<1>7. 1 + Len(c) - 1 = Len(c)
  BY <1>4
<1>8. SubSeq(buffer, 1, numSectors * SectorLen) = c
  BY <1>5, <1>6, <1>7
<1> QED
  BY <1>1, <1>2, <1>8 DEF c

\* copy leaves in the second file what the first one holds.
LEMMA CopyWriteExact ==
  ASSUME IInv, CopyWrite
  PROVE  IInv'
<1>1. /\ pc["shell"] # "line" /\ pc["shell"] = "copy" /\ Prompt /\ Done("shell")
      /\ UNCHANGED <<keyboard, mem, n, base, buffer, numSectors>>
      /\ Write(Name2, SubSeq(buffer, 1, numSectors * SectorLen))
  BY DEF CopyWrite
<1>2. /\ Name2 \in Names /\ files[Name1] \in Seq(Cell) /\ FileExact(files[Name1])
      /\ SectorsIn(files[Name1]) <= free /\ Write(Name2, files[Name1])
  BY <1>1, CopyPart
<1>3. /\ DOMAIN files' \subseteq Names /\ files' \in [DOMAIN files' -> Seq(Cell)]
      /\ FilesExact' /\ free' \in Nat /\ wild' = wild
  BY <1>2, WriteExact DEF IInv
<1>4. buffer' \in [1 .. FileLen -> Cell] /\ numSectors' \in -1 .. FileLen \div SectorLen
  BY <1>1 DEF IInv, TypeOK
<1> QED
  BY <1>1, <1>3, <1>4, ShellPrompts

\* The editor starts with nothing typed.
LEMMA StartEditorExact ==
  ASSUME IInv, StartEditor
  PROVE  IInv'
<1>1. /\ pc["shell"] = "obey" /\ pc["editor"] = "off"
      /\ pc' = [shell |-> "line", editor |-> "filename"]
      /\ pc'["shell"] = "line" /\ pc'["editor"] = "filename"
      /\ meant' = [p \in Prog |-> Nothing]
      /\ UNCHANGED <<keyboard, mem, n, base, buffer, numSectors, files, free, wild>>
  BY DEF StartEditor, Obeys
<1>2. /\ keyboard = <<>> /\ n["shell"] = 0 /\ n["editor"] = 0 /\ base = 0
      /\ FileLen \div SectorLen <= free
  BY <1>1 DEF IInv, ShellExact, EditorExact, StartEditor, Obeys, CommandExact
<1>3. meant'["shell"] = Nothing /\ meant'["editor"] = Nothing
  BY <1>1 DEF Prog
<1>4. Asking' = "editor"
  BY <1>1 DEF Asking
<1>5. TypeOK'
  <2>1. pc' \in [shell : {"line", "obey", "show", "copy"},
                 editor : {"off", "filename", "file", "save"}]
    BY <1>1
  <2>2. meant' \in [Prog -> Wishes \cup {Nothing}]
    BY <1>1
  <2> QED
    BY <1>1, <2>1, <2>2 DEF IInv, TypeOK
<1>6. NoOverrun' /\ FilesExact' /\ ReadingExact' /\ PromptExact' /\ ShellExact'
      /\ EditorExact'
  BY <1>1, <1>2, <1>3, <1>4
     DEF IInv, NoOverrun, FilesExact, ReadingExact, PromptExact, ShellExact,
         EditorExact
<1> QED
  BY <1>5, <1>6 DEF IInv

\* The sectors of the text hold it and its end, and fit the buffer.
LEMMA SectorsExact ==
  ASSUME NEW t \in 1 .. FileLen
  PROVE  /\ SectorsOf(t) * SectorLen \in Nat
         /\ t <= SectorsOf(t) * SectorLen /\ SectorsOf(t) * SectorLen <= FileLen
         /\ (SectorsOf(t) * SectorLen) % SectorLen = 0
<1> DEFINE S == SectorLen
           m == FileLen \div S
           q == (t + S - 1) \div S
<1>1. S \in Nat \ {0} /\ FileLen \in Nat /\ FileLen % S = 0 /\ t \in Nat
      /\ t <= FileLen /\ t >= 1
  BY SizeAssumption
<1> HIDE DEF S
<1>2. m \in Nat /\ FileLen = m * S
  BY <1>1
<1>3. q \in Nat /\ q * S <= t + S - 1 /\ t + S - 1 < q * S + S
  BY <1>1
<1> HIDE DEF m, q
<1>4. q <= m
  <2>1. SUFFICES ASSUME q >= m + 1 PROVE FALSE
    BY <1>2, <1>3
  <2>2. q * S >= (m + 1) * S
    BY <1>1, <1>2, <1>3, <2>1
  <2>3. (m + 1) * S = m * S + S
    BY <1>1, <1>2
  <2>4. m * S \in Nat /\ q * S \in Nat
    BY <1>1, <1>2, <1>3
  <2> QED
    BY <1>1, <1>2, <1>3, <2>2, <2>3, <2>4
<1>5. q * S <= m * S
  BY <1>1, <1>2, <1>3, <1>4
<1>6. q * S \in Nat /\ (q * S) % S = 0
  BY <1>1, <1>3
<1> QED
  BY <1>1, <1>2, <1>3, <1>5, <1>6 DEF SectorsOf, S, q

\* What the editor writes is the text that was typed and its end.
LEMMA SavedPart ==
  ASSUME IInv, pc["editor"] = "save"
  PROVE  LET t == n["editor"]
             c == SubSeq(Ended(mem.file, t), 1, SectorsOf(t) * SectorLen)
         IN  /\ mem.filename \in Names
             /\ c \in Seq(Cell) /\ FileExact(c)
             /\ SectorsIn(c) <= free
             /\ Text(c) \in Seq(Cell)
             /\ meant["editor"] = Wish("write", mem.filename, Text(c))
<1> DEFINE t == n["editor"]
           f == mem.file
           g == Ended(f, t)
           e == SectorsOf(t) * SectorLen
           c == SubSeq(g, 1, e)
<1>1. /\ t \in 1 .. FileLen /\ mem.filename \in Names
      /\ \A i \in 1 .. t - 1 : f[i] # NUL
      /\ meant["editor"] = Wish("write", mem.filename, SubSeq(f, 1, t - 1))
  BY DEF IInv, EditorExact
<1>2. f \in [1 .. FileLen -> Cell] /\ FileLen \in Nat /\ NUL \in Cell
  BY SizeAssumption DEF IInv, TypeOK, Memory, Cell
<1>3. /\ e \in Nat /\ t <= e /\ e <= FileLen /\ e % SectorLen = 0
  BY <1>1, SectorsExact
<1> HIDE DEF t, f, e
<1>4. g \in [1 .. FileLen -> Cell] /\ g[t] = NUL /\ \A i \in 1 .. t - 1 : g[i] = f[i]
  BY <1>1, <1>2 DEF Ended
<1>5. /\ f \in Seq(Cell) /\ Len(f) = FileLen
      /\ g \in Seq(Cell) /\ Len(g) = FileLen
  BY <1>2, <1>4, CellsAreSeq
<1> HIDE DEF g
<1>6. /\ c \in Seq(Cell) /\ Len(c) = e /\ \A i \in 1 .. e : c[i] = g[i]
  BY <1>2, <1>3, <1>5
<1> HIDE DEF c
<1>7. t \in 1 .. Len(c) /\ c[t] = NUL /\ \A i \in 1 .. t - 1 : c[i] = f[i]
  BY <1>1, <1>3, <1>4, <1>6
<1>8. Text(c) = SubSeq(c, 1, t - 1)
  BY <1>1, <1>6, <1>7, TextExact
<1>9. SubSeq(c, 1, t - 1) = SubSeq(f, 1, t - 1)
  BY <1>1, <1>2, <1>3, <1>5, <1>6, <1>7
<1>10. FileExact(c)
  BY <1>3, <1>6, <1>7 DEF FileExact
<1>11. Text(c) \in Seq(Cell)
  BY <1>6, TextType
<1>12. SectorsIn(c) <= free
  <2>1. /\ SectorsIn(c) \in 0 .. FileLen \div SectorLen /\ FileLen \div SectorLen \in Nat
    BY <1>3, <1>6, SectorCounts DEF SectorsIn
  <2>2. FileLen \div SectorLen <= free /\ free \in Nat
    BY DEF IInv, TypeOK, EditorExact
  <2> QED
    BY <2>1, <2>2
<1> QED
  BY <1>1, <1>6, <1>8, <1>9, <1>10, <1>11, <1>12 DEF c, g, e, f, t

\* The editor saves what was typed and ends.
LEMMA SaveExact ==
  ASSUME IInv, Save
  PROVE  IInv'
<1> DEFINE t == n["editor"]
           c == SubSeq(Ended(mem.file, t), 1, SectorsOf(t) * SectorLen)
<1>1. /\ pc["editor"] = "save" /\ Write(mem.filename, c)
      /\ mem' = [mem EXCEPT !.filename = JunkCells(NameLen),
                            !.file = JunkCells(FileLen)]
      /\ pc' = [pc EXCEPT !["editor"] = "off"]
      /\ n' = [n EXCEPT !["editor"] = 0] /\ base' = 0
      /\ meant' = [meant EXCEPT !["editor"] = Nothing]
      /\ UNCHANGED <<keyboard, buffer, numSectors, shown>>
  BY DEF Save, Done
<1>2. /\ mem.filename \in Names /\ c \in Seq(Cell) /\ FileExact(c)
      /\ SectorsIn(c) <= free
  BY <1>1, SavedPart
<1> HIDE DEF c
<1>3. /\ keyboard = <<>> /\ n["shell"] = 0 /\ meant["shell"] = Nothing
      /\ pc["shell"] = "line"
  BY <1>1 DEF IInv, ShellExact, EditorExact
<1>4. /\ pc' = [shell |-> "line", editor |-> "off"]
      /\ pc'["shell"] = "line" /\ pc'["editor"] = "off"
  BY <1>1, <1>3 DEF IInv, TypeOK
<1>5. /\ n'["shell"] = 0 /\ n'["editor"] = 0
      /\ meant'["shell"] = Nothing /\ meant'["editor"] = Nothing
  BY <1>1, <1>3 DEF IInv, TypeOK, Prog
<1>6. /\ DOMAIN files' \subseteq Names /\ files' \in [DOMAIN files' -> Seq(Cell)]
      /\ FilesExact' /\ free' \in Nat /\ wild' = FALSE
  BY <1>1, <1>2, WriteExact DEF IInv, NoOverrun, TypeOK
<1>7. TypeOK'
  <2>1. pc' \in [shell : {"line", "obey", "show", "copy"},
                 editor : {"off", "filename", "file", "save"}]
    BY <1>4
  <2>2. mem' \in Memory
    <3>1. JunkCells(NameLen) \in [1 .. NameLen -> Cell]
          /\ JunkCells(FileLen) \in [1 .. FileLen -> Cell]
      BY DEF JunkCells, Cell
    <3> QED
      BY <1>1, <3>1 DEF IInv, TypeOK, Memory
  <2>3. 0 \in 0 .. FileLen + LineLen /\ base' \in 0 .. FileLen
    BY <1>1, SizeAssumption
  <2>4. n' \in [Prog -> 0 .. FileLen + LineLen]
    BY <1>1, <2>3 DEF IInv, TypeOK
  <2>5. meant' \in [Prog -> Wishes \cup {Nothing}]
    BY <1>1 DEF IInv, TypeOK
  <2>6. \A f \in DOMAIN files' : Len(files'[f]) % SectorLen = 0
    BY <1>6 DEF FilesExact, FileExact
  <2> QED
    BY <1>1, <1>6, <2>1, <2>2, <2>3, <2>4, <2>5, <2>6 DEF IInv, TypeOK
<1>8. Asking' = "shell"
  BY <1>4 DEF Asking
<1>9. NoOverrun' /\ FilesExact' /\ ReadingExact' /\ PromptExact' /\ ShellExact'
      /\ EditorExact'
  BY <1>1, <1>3, <1>4, <1>5, <1>6, <1>8
     DEF IInv, NoOverrun, FilesExact, ReadingExact, PromptExact, ShellExact,
         EditorExact
<1> QED
  BY <1>7, <1>9 DEF IInv


-----------------------------------------------------------------------------
(* The theorems.                                                           *)

LEMMA NextIInv == IInv /\ [Next]_vars => IInv'
<1> SUFFICES ASSUME IInv, [Next]_vars PROVE IInv'
  OBVIOUS
<1>1. ASSUME NEW keys \in UNION {Lines[w] : w \in Prompts}, UserTypes(keys)
      PROVE  IInv'
  BY <1>1, UserTypesExact
<1>2. ASSUME NEW p \in Prog, ReadKey(p)
      PROVE  IInv'
  BY <1>2, ReadKeyExact
<1>3. CASE TypeMissing \/ TypeShow \/ NotRecognized
  BY <1>3, PromptOnly
<1>4. CASE TypeRead \/ CopyRead
  BY <1>4, FileRead
<1>5. CASE Delete
  BY <1>5, DeleteExact
<1>6. CASE CopyWrite
  BY <1>6, CopyWriteExact
<1>7. CASE StartEditor
  BY <1>7, StartEditorExact
<1>8. CASE Save
  BY <1>8, SaveExact
<1>9. CASE UNCHANGED vars
  <2>1. UNCHANGED <<keyboard, mem, pc, n, base, buffer, numSectors, files, free, wild,
                    meant>>
    BY <1>9 DEF vars
  <2>2. TypeOK' /\ NoOverrun' /\ FilesExact'
    BY <2>1 DEF IInv, TypeOK, NoOverrun, FilesExact
  <2>3. Asking' = Asking /\ Name1' = Name1 /\ Name2' = Name2
    BY <2>1 DEF Asking, Name1, Name2, NameAt
  <2>4. \A l : WishExact(l)' = WishExact(l)
    BY <2>1, <2>3 DEF WishExact, Meaning, Sensible, Exists
  <2>5. ReadingExact'
    BY <2>1, <2>3, <2>4 DEF IInv, ReadingExact
  <2>6. PromptExact' /\ EditorExact'
    BY <2>1, <2>3 DEF IInv, PromptExact, EditorExact
  <2>7. ShellExact'
    BY <2>1, <2>3 DEF IInv, ShellExact, CommandExact, Exists, SectorsIn
  <2> QED
    BY <2>2, <2>5, <2>6, <2>7 DEF IInv
<1> QED
  BY <1>1, <1>2, <1>3, <1>4, <1>5, <1>6, <1>7, <1>8, <1>9 DEF Next

\* The invariant that the theorems below are read off: what is typed so far is
\* at the start of the buffer of the program that asked for it, and what is
\* meant by the line is what its program reads from there.
THEOREM Invariance == Spec => []IInv
  BY InitExact, NextIInv, PTL DEF Spec

\* Keyboard, buffers, counts and files hold what they may, for lines, names
\* and buffers of any size.
THEOREM TypeCorrect == Spec => []TypeOK
<1>1. IInv => TypeOK
  BY DEF IInv
<1> QED
  BY <1>1, Invariance, PTL

\* At every key the buffer of the program that asked holds what is left of the
\* keys before, from its first cell on, and the count is the length of that:
\* backspaces are taken off, those at the start of the line as well
\* (kernel.c:772-793).
THEOREM BufferHoldsTheLine == Spec => []ReadingExact
<1>1. IInv => ReadingExact
  BY DEF IInv
<1> QED
  BY <1>1, Invariance, PTL

\* A command works on the file that was named, whatever was erased on the way
\* and whatever older lines have left in the buffer (shell.c:47-49, 74-76,
\* 88-93, kernel.c:772-793).
THEOREM NamesArriveAsMeant == Spec => []NamesAsMeant
<1>1. IInv => NamesAsMeant
  BY DEF IInv, ShellExact, CommandExact, NamesAsMeant, Wish
<1> QED
  BY <1>1, Invariance, PTL

\* The editor saves when the line that ends with CtrlD has been read
\* (texted.c:17-24).
THEOREM SavesWhenAsked == Spec => []SavedWhenAsked
<1>1. IInv => SavedWhenAsked
  <2> SUFFICES ASSUME IInv, meant["editor"] # Nothing,
                      meant["editor"].what = "write", keyboard = <<>>
               PROVE  pc["editor"] = "save"
    BY DEF SavedWhenAsked
  <2>1. pc["editor"] \in {"off", "filename", "file", "save"}
    BY DEF IInv, TypeOK
  <2>2. pc["editor"] # "off"
    BY DEF IInv, EditorExact
  <2>3. Asking = "editor"
    BY <2>2 DEF Asking
  <2>4. pc["editor"] # "filename"
    BY <2>3 DEF IInv, PromptExact, Prompts
  <2>5. pc["editor"] # "file"
    BY <2>3 DEF IInv, PromptExact, Prompts, Wish
  <2> QED
    BY <2>1, <2>2, <2>4, <2>5
<1> QED
  BY <1>1, Invariance, PTL


-----------------------------------------------------------------------------
(* Every command does what was asked for.                                  *)

\* What a line makes a program do is asked for when nothing is, or goes on
\* with what the editor was asked before.
LEMMA AskedBefore ==
  ASSUME IInv, NEW keys, UserTypes(keys)
  PROVE  /\ meant[Asking] # Nothing => meant[Asking].what = "edit"
         /\ \A p \in Prog \ {Asking} : meant'[p] = meant[p]
<1>1. keyboard = <<>> /\ pc[Asking] \in Prompts
  BY DEF UserTypes
<1>2. meant[Asking] # Nothing => meant[Asking].what = "edit"
  BY <1>1 DEF IInv, PromptExact, Wish
<1> QED
  BY <1>2, UserMeans

\* When the shell obeys or goes on, the editor is asked for nothing; when the
\* editor saves, the shell is.
LEMMA OneIsAsked ==
  ASSUME IInv
  PROVE  /\ pc["shell"] # "line" => meant["editor"] = Nothing /\ CommandExact
         /\ pc["editor"] = "save" => meant["shell"] = Nothing
BY DEF IInv, ShellExact, EditorExact

\* How a wish goes, as DoneAsMeant says it.
FulfilledOrRefused(p) ==
  \/ Fulfilled(meant[p])
  \/ /\ NoEntry(meant[p])
     /\ UNCHANGED <<files, free>>
     /\ p = "shell" => shown' = DirectoryFull

\* A wish that is gone is fulfilled, or there was no entry for a new file.
LEMMA DoneStep ==
  ASSUME IInv, [Next]_vars, NEW p \in Prog, meant[p] # Nothing, meant'[p] = Nothing
  PROVE  FulfilledOrRefused(p)
<1> USE DEF FulfilledOrRefused
<1>1. ASSUME NEW keys, UserTypes(keys)
      PROVE  Fulfilled(meant[p])
  <2>1. meant[p].what = "edit"
    BY <1>1, AskedBefore
  <2> QED
    BY <2>1 DEF Fulfilled
<1>2. ASSUME NEW q \in Prog, ReadKey(q)
      PROVE  FALSE
  BY <1>2 DEF ReadKey
<1>3. CASE TypeMissing \/ TypeRead \/ Delete \/ CopyRead \/ StartEditor
           \/ NotRecognized
  <2>1. pc["shell"] = "obey"
    BY <1>3 DEF TypeMissing, TypeRead, Delete, CopyRead, StartEditor, NotRecognized,
                Obeys
  <2>2. p = "shell" /\ CommandExact
    BY <2>1, OneIsAsked DEF Prog
  <2>3. CASE TypeRead \/ CopyRead
    BY <2>3 DEF TypeRead, CopyRead
  <2>4. CASE TypeMissing
    <3>1. meant[p] = Wish("type", Name1, Nothing) /\ ~Exists(Name1)
      BY <2>2, <2>4 DEF TypeMissing, Obeys, CommandExact
    <3> QED
      BY <3>1 DEF Fulfilled, Wish
  <2>5. CASE Delete
    <3>1. meant[p] = Wish("write", Name1, Absent) /\ Name1 \notin DOMAIN files'
      BY <2>2, <2>5 DEF Delete, Obeys, CommandExact
    <3> QED
      BY <3>1 DEF Fulfilled, Wish
  <2>6. CASE StartEditor \/ NotRecognized
    <3>1. meant[p] = Nothing
      BY <2>2, <2>6 DEF StartEditor, NotRecognized, Obeys, CommandExact, Words
    <3> QED
      BY <3>1
  <2> QED
    BY <1>3, <2>3, <2>4, <2>5, <2>6
<1>4. CASE TypeShow
  <2>1. pc["shell"] = "show" /\ mem.line[1] = "type" /\ Name1 \in DOMAIN files
    BY <1>4 DEF TypeShow, IInv, ShellExact, Exists
  <2>2. p = "shell" /\ meant[p] = Wish("type", Name1, Nothing)
    BY <2>1, OneIsAsked DEF Prog, CommandExact
  <2>3. shown' = Text(files[Name1])
    <3>1. /\ shown' = Text(Over(files[Name1], buffer))
      BY <1>4, <2>1 DEF TypeShow, Exists
    <3> DEFINE c == files[Name1]
               b == Over(c, buffer)
    <3>2. /\ c \in Seq(Cell) /\ Len(c) <= FileLen /\ \E i \in 1 .. Len(c) : c[i] = NUL
      BY <2>1 DEF IInv, TypeOK, FilesExact, FileExact
    <3>3. b \in [1 .. FileLen -> Cell] /\ Hold(b, c)
      BY <2>1, BufferRead DEF IInv
    <3>4. b \in Seq(Cell) /\ Len(b) = FileLen
      BY <3>3, SizeAssumption, CellsAreSeq
    <3> HIDE DEF b, c
    <3>5. Text(b) = Text(c)
      BY <3>2, <3>3, <3>4, TextOfHolding
    <3> QED
      BY <3>1, <3>5 DEF b, c
  <2> QED
    BY <2>2, <2>3 DEF Fulfilled, Wish
<1>5. CASE CopyWrite
  <2>1. /\ pc["shell"] = "copy"
        /\ Write(Name2, SubSeq(buffer, 1, numSectors * SectorLen))
        /\ ~Listed(Name2) => shown' = DirectoryFull
    BY <1>5 DEF CopyWrite
  <2>2. p = "shell"
    BY <2>1, OneIsAsked DEF Prog
  <2>3. /\ Name2 \in Names /\ files[Name1] \in Seq(Cell) /\ FileExact(files[Name1])
        /\ SectorsIn(files[Name1]) <= free /\ Write(Name2, files[Name1])
        /\ meant[p] = Wish("write", Name2, Text(files[Name1]))
    BY <2>1, <2>2, CopyPart
  <2>4. Text(files[Name1]) # Absent
    BY <2>3, TextType, NothingAssumption
  <2>5. CASE Listed(Name2)
    <3>1. files' = Written(Name2, files[Name1])
      BY <2>3, <2>5, WriteExact DEF IInv
    <3>2. Name2 \in DOMAIN files' /\ Text(files'[Name2]) = Text(files[Name1])
      BY <2>3, <3>1, WrittenExact DEF IInv
    <3> QED
      BY <2>3, <2>4, <3>2 DEF Fulfilled, Wish
  <2>6. CASE ~Listed(Name2)
    <3>1. UNCHANGED <<files, free>>
      BY <2>3, <2>6, WriteExact DEF IInv
    <3>2. NoEntry(meant[p])
      BY <2>3, <2>4, <2>6 DEF NoEntry, Listed, Exists, Wish
    <3> QED
      BY <2>1, <2>6, <3>1, <3>2
  <2> QED
    BY <2>5, <2>6
<1>6. CASE Save
  <2> DEFINE c == SubSeq(Ended(mem.file, n["editor"]), 1,
                         SectorsOf(n["editor"]) * SectorLen)
  <2>1. pc["editor"] = "save" /\ Write(mem.filename, c)
    BY <1>6 DEF Save
  <2>2. p = "editor"
    BY <2>1, OneIsAsked DEF Prog
  <2>3. /\ mem.filename \in Names /\ c \in Seq(Cell) /\ FileExact(c)
        /\ SectorsIn(c) <= free /\ Text(c) # Absent
        /\ meant[p] = Wish("write", mem.filename, Text(c))
    BY <2>1, <2>2, SavedPart, NothingAssumption
  <2> HIDE DEF c
  <2>4. CASE Listed(mem.filename)
    <3>1. files' = Written(mem.filename, c)
      BY <2>1, <2>3, <2>4, WriteExact DEF IInv
    <3>2. mem.filename \in DOMAIN files' /\ Text(files'[mem.filename]) = Text(c)
      BY <2>3, <3>1, WrittenExact DEF IInv
    <3> QED
      BY <2>3, <3>2 DEF Fulfilled, Wish
  <2>5. CASE ~Listed(mem.filename)
    <3>1. UNCHANGED <<files, free>>
      BY <2>1, <2>3, <2>5, WriteExact DEF IInv
    <3>2. NoEntry(meant[p])
      BY <2>3, <2>5 DEF NoEntry, Listed, Exists, Wish
    <3> QED
      BY <2>2, <3>1, <3>2
  <2> QED
    BY <2>4, <2>5
<1>7. CASE UNCHANGED vars
  BY <1>7 DEF vars
<1> QED
  BY <1>1, <1>2, <1>3, <1>4, <1>5, <1>6, <1>7 DEF Next

\* Used as SafeSession says (full names, lines that fit, texts of one line,
\* free sectors for what is written), the editor saves the line that was typed,
\* copy copies, delete deletes and type prints, with any number of names, files
\* and entries; only a new file for which the directory has no entry is not
\* written, and then no file changes (shell.c:71-109, texted.c:3-4, 17-27,
\* kernel.c:506-508).
THEOREM CommandsAreFulfilled == Spec => DoneAsMeant
<1>1. IInv /\ [Next]_vars =>
        [\A p \in Prog :
           meant[p] # Nothing /\ meant'[p] = Nothing =>
             \/ Fulfilled(meant[p])
             \/ /\ NoEntry(meant[p])
                /\ UNCHANGED <<files, free>>
                /\ p = "shell" => shown' = DirectoryFull]_vars
  BY DoneStep DEF FulfilledOrRefused
<1> QED
  BY <1>1, Invariance, PTL DEF Spec, DoneAsMeant


-----------------------------------------------------------------------------
(* Files change only as the file store allows.                             *)

\* What the files hold and what the programs are asked to write, as the store
\* sees them.
Texts == [f \in Names |-> IF Exists(f) THEN Text(files[f]) ELSE Absent]

IsWrite(wish) == wish # Nothing /\ wish.what = "write"

Asked == [p \in Prog |->
            IF IsWrite(meant[p])
            THEN [name |-> meant[p].name, content |-> meant[p].content] ELSE Nothing]

StoreStep ==
  \/ \E p \in Prog : Store!Ask(p) \/ Store!Commit(p) \/ Store!Refuse(p)
  \/ UNCHANGED Store!vars

\* What is asked to be written are cells, or that the file be gone.
LEMMA WriteType ==
  ASSUME IInv, NEW keys, UserTypes(keys), IsWrite(meant'[Asking])
  PROVE  meant'[Asking].content \in Seq(Cell) \cup {Absent}
<1> DEFINE e == Edited(keys)
<1>1. /\ keys \in Lines[pc[Asking]] /\ pc[Asking] \in Prompts
      /\ pc' = pc /\ mem' = mem /\ files' = files /\ keyboard = <<>>
      /\ WishExact(e)'
  BY UserMeans DEF UserTypes
<1>2. e \in Seq(Cell)
  BY <1>1, LinesType, EditedType
<1>3. /\ pc["editor"] = "off" =>
           meant'["shell"] = IF e = <<>> THEN Nothing ELSE Meaning(e)'
      /\ pc["editor"] = "filename" => meant'["editor"] = Wish("edit", e, <<>>)
      /\ pc["editor"] = "file" =>
           meant'["editor"] = Wish("write", mem.filename, Front(e))
  <2> HIDE DEF e
  <2>1. WishExact(e)'
    BY <1>1 DEF e
  <2> QED
    BY <1>1, <2>1 DEF WishExact
<1> HIDE DEF e
<1>4. CASE pc["editor"] = "off"
  <2>1. Asking = "shell" /\ meant'["shell"] = Meaning(e)' /\ e # <<>>
        /\ IsWrite(meant'["shell"])
    BY <1>3, <1>4 DEF Asking, IsWrite
  <2>2. Meaning(e)' = Meaning(e)
    BY <1>1 DEF Meaning, Exists
  <2>3. CASE e[1] = "copy" /\ Exists(Word1(e))
    <3>1. Text(files[Word1(e)]) \in Seq(Cell)
      BY <2>3, TextType DEF IInv, TypeOK, Exists
    <3>2. Meaning(e) = Wish("write", Word2(e), Text(files[Word1(e)]))
      BY <2>3 DEF Meaning
    <3>3. meant'["shell"].content = Text(files[Word1(e)])
      BY <2>1, <2>2, <3>2 DEF Wish
    <3> QED
      BY <2>1, <3>1, <3>3
  <2>4. CASE ~(e[1] = "copy" /\ Exists(Word1(e)))
    <3>1. \/ Meaning(e) = Wish("type", Word1(e), Nothing)
          \/ Meaning(e) = Wish("write", Word1(e), Absent)
          \/ Meaning(e) = Nothing
      BY <2>4 DEF Meaning
    <3>2. meant'["shell"].content = Absent
      BY <2>1, <2>2, <3>1 DEF Wish, IsWrite
    <3> QED
      BY <2>1, <3>2
  <2> QED
    BY <2>3, <2>4
<1>5. CASE pc["editor"] # "off"
  <2>1. Asking = "editor" /\ pc["editor"] \in {"filename", "file"}
    BY <1>1, <1>5 DEF Asking, Prompts, IInv, TypeOK
  <2>2. pc["editor"] = "file"
    BY <1>3, <2>1 DEF IsWrite, Wish
  <2>3. e # <<>>
    <3>1. IsText(e)
      BY <1>1, <2>1, <2>2, TextsAssumption DEF e
    <3> QED
      BY <3>1 DEF IsText
  <2>4. Front(e) \in Seq(Cell)
    BY <1>2, <2>3 DEF Front
  <2> QED
    BY <1>3, <2>1, <2>2, <2>4 DEF Wish
<1> QED
  BY <1>4, <1>5

\* Who types asks the store, or for something that is not its business.
LEMMA AskStep ==
  ASSUME IInv, NEW keys, UserTypes(keys)
  PROVE  StoreStep
<1>0. PICK p \in Prog : p = Asking
  BY DEF Asking, Prog
<1> DEFINE w == meant'[p]
<1>1. p \in Prog /\ meant \in [Prog -> Wishes \cup {Nothing}]
  BY DEF IInv, TypeOK
<1>2. /\ meant' \in [Prog -> Wishes \cup {Nothing}]
      /\ \A q \in Prog \ {p} : meant'[q] = meant[q]
  BY <1>0, UserMeans
<1>3. ~IsWrite(meant[p])
  BY <1>0, AskedBefore DEF IsWrite
<1>4. Texts' = Texts
  BY DEF UserTypes, Texts, Exists
<1>5. IsWrite(w) => w.content \in Seq(Cell) \cup {Absent}
  BY <1>0, WriteType
<1>6. Asked[p] = Nothing
  BY <1>1, <1>3 DEF Asked
<1>7. Asked' = [Asked EXCEPT ![p] = Asked'[p]]
  BY <1>1, <1>2 DEF Asked, IsWrite
<1>8. CASE IsWrite(w)
  <2>1. w \in Wishes
    BY <1>1, <1>2, <1>8 DEF IsWrite
  <2>2. Asked'[p] = [name |-> w.name, content |-> w.content]
    BY <1>1, <1>8 DEF Asked, IsWrite
  <2>3. Asked'[p] \in Store!Request
    BY <1>5, <1>8, <2>1, <2>2 DEF Store!Request, Wishes
  <2>4. Store!Ask(p)
    BY <1>4, <1>6, <1>7, <2>3 DEF Store!Ask, Store!Request, Asked, Texts, IsWrite
  <2> QED
    BY <1>1, <2>4 DEF StoreStep
<1>9. CASE ~IsWrite(w)
  <2>1. Asked'[p] = Nothing
    BY <1>1, <1>9 DEF Asked, IsWrite
  <2>2. Asked' = Asked
    <3>1. Asked = [q \in Prog |-> Asked[q]] /\ Asked' = [q \in Prog |-> Asked'[q]]
      BY DEF Asked
    <3>2. \A q \in Prog : Asked'[q] = Asked[q]
      BY <1>2, <1>6, <2>1 DEF Asked, IsWrite
    <3> QED
      BY <3>1, <3>2
  <2> QED
    BY <1>4, <2>2 DEF StoreStep, Store!vars, Asked, Texts, IsWrite
<1> QED
  BY <1>8, <1>9


\* When nothing is written for a program and no wish to write comes or goes,
\* the store sees nothing.
LEMMA Unseen ==
  ASSUME files' = files, NEW p \in Prog, ~IsWrite(meant[p]), ~IsWrite(meant'[p]),
         \A q \in Prog \ {p} : meant'[q] = meant[q]
  PROVE  StoreStep
<1>1. Texts' = Texts
  BY DEF Texts, Exists
<1>2. Asked' = Asked
  BY DEF Asked, IsWrite
<1> QED
  BY <1>1, <1>2 DEF StoreStep, Store!vars, Asked, Texts, IsWrite

\* A write that was asked for and is done is a commit of the store.
LEMMA CommitStep ==
  ASSUME IInv, NEW p \in Prog, NEW name \in Names, NEW content \in Seq(Cell) \cup {Absent},
         meant[p] = Wish("write", name, content), meant' = [meant EXCEPT ![p] = Nothing],
         Texts' = [Texts EXCEPT ![name] = content]
  PROVE  StoreStep
<1>1. meant \in [Prog -> Wishes \cup {Nothing}]
  BY DEF IInv, TypeOK
<1>2. Wish("write", name, content) \in Wishes
  BY DEF Wish, Wishes
<1>3. IsWrite(meant[p]) /\ ~IsWrite(meant'[p])
  <2>1. meant[p] # Nothing /\ meant[p].what = "write"
    BY <1>2, NothingAssumption DEF Wish
  <2>2. meant'[p] = Nothing
    BY <1>1
  <2> QED
    BY <2>1, <2>2 DEF IsWrite
<1>4. Asked[p] = [name |-> name, content |-> content]
  BY <1>3 DEF Asked, Wish
<1>5. Asked[p] # Nothing
  <2>1. [name |-> name, content |-> content] \in Store!Request
    BY DEF Store!Request
  <2> QED
    BY <1>4, <2>1, NothingAssumption
<1>6. Asked' = [Asked EXCEPT ![p] = Nothing]
  BY <1>1, <1>3 DEF Asked, IsWrite
<1>7. Texts' = [Texts EXCEPT ![Asked[p].name] = Asked[p].content]
  BY <1>4
<1>8. Store!Commit(p)
  BY <1>5, <1>6, <1>7 DEF Store!Commit, Asked, Texts, IsWrite
<1> QED
  BY <1>8 DEF StoreStep

\* A write that is given up is a refusal of the store.
LEMMA RefuseStep ==
  ASSUME NEW p \in Prog, meant' = [meant EXCEPT ![p] = Nothing], files' = files,
         meant \in [Prog -> Wishes \cup {Nothing}]
  PROVE  StoreStep
<1>1. Texts' = Texts
  BY DEF Texts, Exists
<1>2. Asked' = [Asked EXCEPT ![p] = Nothing]
  BY DEF Asked, IsWrite
<1>3. Store!Refuse(p)
  BY <1>1, <1>2 DEF Store!Refuse, Asked, Texts, IsWrite
<1> QED
  BY <1>3 DEF StoreStep

\* A file is written: the store sees its text.
LEMMA TextsWritten ==
  ASSUME IInv, NEW name \in Names, NEW c \in Seq(Cell), FileExact(c),
         files' = Written(name, c)
  PROVE  Texts' = [Texts EXCEPT ![name] = Text(c)]
<1>1. /\ DOMAIN files' = DOMAIN files \cup {name}
      /\ Text(files'[name]) = Text(c)
      /\ \A f \in DOMAIN files \ {name} : files'[f] = files[f]
  BY WrittenExact DEF IInv
<1>2. Texts'[name] = Text(c)
  BY <1>1 DEF Texts, Exists
<1>3. \A f \in Names \ {name} : Texts'[f] = Texts[f]
  BY <1>1 DEF Texts, Exists
<1> QED
  BY <1>2, <1>3 DEF Texts

\* Every step asks the store, is a commit of it, or is none of its business.
LEMMA StoreSteps ==
  ASSUME IInv, [Next]_vars
  PROVE  StoreStep
<1>0. "shell" \in Prog /\ "editor" \in Prog /\ meant \in [Prog -> Wishes \cup {Nothing}]
  BY DEF Prog, IInv, TypeOK
<1>1. ASSUME NEW keys, UserTypes(keys)
      PROVE  StoreStep
  BY <1>1, AskStep
<1>2. CASE UNCHANGED <<files, meant>>
  BY <1>2 DEF StoreStep, Store!vars, Exists
<1>3. ASSUME NEW q \in Prog, ReadKey(q)
      PROVE  StoreStep
  BY <1>2, <1>3 DEF ReadKey
<1>4. CASE TypeRead \/ CopyRead \/ UNCHANGED vars
  BY <1>2, <1>4 DEF TypeRead, CopyRead, vars
<1>5. CASE TypeMissing \/ TypeShow \/ StartEditor \/ NotRecognized
  <2>1. /\ pc["shell"] # "line" /\ files' = files /\ meant'["shell"] = Nothing
        /\ meant'["editor"] \in {Nothing, meant["editor"]}
    BY <1>0, <1>5
       DEF TypeMissing, TypeShow, StartEditor, NotRecognized, Obeys, Done
  <2>2. CommandExact /\ meant["editor"] = Nothing
    BY <2>1, OneIsAsked
  <2>3. ~IsWrite(meant["shell"])
    BY <1>5, <2>2
       DEF TypeMissing, TypeShow, StartEditor, NotRecognized, Obeys, Words,
           CommandExact, IsWrite, Wish, IInv, ShellExact
  <2>4. ~IsWrite(meant'["shell"])
    BY <2>1 DEF IsWrite
  <2> QED
    BY <1>0, <2>1, <2>2, <2>3, <2>4, Unseen DEF Prog
<1>6. CASE Delete
  <2>1. /\ pc["shell"] = "obey" /\ mem.line[1] = "delete"
        /\ files' = [f \in DOMAIN files \ {Name1} |-> files[f]]
        /\ meant' = [meant EXCEPT !["shell"] = Nothing]
    BY <1>6 DEF Delete, Obeys, Done
  <2>2. Name1 \in Names /\ meant["shell"] = Wish("write", Name1, Absent)
    BY <2>1, OneIsAsked DEF CommandExact
  <2>3. Texts' = [Texts EXCEPT ![Name1] = Absent]
    BY <2>1, <2>2 DEF Texts, Exists
  <2> QED
    BY <1>0, <2>1, <2>2, <2>3, CommitStep
<1>7. CASE CopyWrite
  <2>1. /\ pc["shell"] = "copy"
        /\ Write(Name2, SubSeq(buffer, 1, numSectors * SectorLen))
        /\ meant' = [meant EXCEPT !["shell"] = Nothing]
    BY <1>7 DEF CopyWrite, Done
  <2>2. /\ Name2 \in Names /\ files[Name1] \in Seq(Cell) /\ FileExact(files[Name1])
        /\ SectorsIn(files[Name1]) <= free /\ Write(Name2, files[Name1])
        /\ meant["shell"] = Wish("write", Name2, Text(files[Name1]))
    BY <2>1, CopyPart
  <2>3. Text(files[Name1]) \in Seq(Cell)
    BY <2>2, TextType
  <2>4. CASE files' = Written(Name2, files[Name1])
    <3>1. Texts' = [Texts EXCEPT ![Name2] = Text(files[Name1])]
      BY <2>2, <2>4, TextsWritten
    <3> QED
      BY <1>0, <2>1, <2>2, <2>3, <3>1, CommitStep
  <2>5. CASE files' = files
    BY <1>0, <2>1, <2>5, RefuseStep
  <2> QED
    BY <2>2, <2>4, <2>5, WriteExact DEF IInv
<1>8. CASE Save
  <2> DEFINE c == SubSeq(Ended(mem.file, n["editor"]), 1,
                         SectorsOf(n["editor"]) * SectorLen)
  <2>1. /\ pc["editor"] = "save" /\ Write(mem.filename, c)
        /\ meant' = [meant EXCEPT !["editor"] = Nothing]
    BY <1>8 DEF Save, Done
  <2>2. /\ mem.filename \in Names /\ c \in Seq(Cell) /\ FileExact(c)
        /\ SectorsIn(c) <= free /\ Text(c) \in Seq(Cell)
        /\ meant["editor"] = Wish("write", mem.filename, Text(c))
    BY <2>1, SavedPart
  <2> HIDE DEF c
  <2>3. CASE files' = Written(mem.filename, c)
    <3>1. Texts' = [Texts EXCEPT ![mem.filename] = Text(c)]
      BY <2>2, <2>3, TextsWritten
    <3> QED
      BY <1>0, <2>1, <2>2, <3>1, CommitStep
  <2>4. CASE files' = files
    BY <1>0, <2>1, <2>4, RefuseStep
  <2> QED
    BY <2>1, <2>2, <2>3, <2>4, WriteExact DEF IInv
<1> QED
  BY <1>1, <1>3, <1>4, <1>5, <1>6, <1>7, <1>8 DEF Next

\* The shell and the editor change only the files that were named, and only to
\* what was asked (shell.c:71-109, texted.c:17-27).
THEOREM FilesChangeAsAsked == Spec => OnlyAsAsked
<1>1. IInv /\ [Next]_vars =>
        [\E p \in Prog : Store!Ask(p) \/ Store!Commit(p) \/ Store!Refuse(p)]_(Store!vars)
  BY StoreSteps DEF StoreStep
<1> QED
  BY <1>1, Invariance, PTL DEF Spec, OnlyAsAsked
=============================================================================
