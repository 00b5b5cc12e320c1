----------------------------- MODULE FileStore -----------------------------
(***************************************************************************)
(* What the file calls of project6 promise.  A process asks for a file to  *)
(* be written or deleted; at one moment during the call the file holds     *)
(* what was asked, and no other file changes.  When there is no room, no   *)
(* such file or the power fails, nothing happens.                          *)
(***************************************************************************)
CONSTANTS Proc,      \* the processes
          Name,      \* the names of files
          Content,   \* what a file may be asked to hold
          Absent,    \* the content of a file that does not exist
          NoRequest  \* a process that has not asked for anything

VARIABLES files,     \* what every file holds
          asked      \* what every process has asked for, until it is done

vars == <<files, asked>>

Request == [name : Name, content : Content \cup {Absent}]

Init ==
  /\ files = [n \in Name |-> Absent]
  /\ asked = [p \in Proc |-> NoRequest]

Ask(p) ==
  /\ asked[p] = NoRequest
  /\ asked'[p] \in Request
  /\ asked' = [asked EXCEPT ![p] = asked'[p]]
  /\ UNCHANGED files

Commit(p) ==
  /\ asked[p] # NoRequest
  /\ files' = [files EXCEPT ![asked[p].name] = asked[p].content]
  /\ asked' = [asked EXCEPT ![p] = NoRequest]

Refuse(p) ==
  /\ asked' = [asked EXCEPT ![p] = NoRequest]
  /\ UNCHANGED files

\* While no process runs a new file may be put on the disk from outside.
Install ==
  /\ \A p \in Proc : asked[p] = NoRequest
  /\ \E n \in Name :
       /\ files[n] = Absent
       /\ files'[n] \in Content
       /\ files' = [files EXCEPT ![n] = files'[n]]
  /\ UNCHANGED asked

PowerFailure ==
  /\ asked' = [p \in Proc |-> NoRequest]
  /\ UNCHANGED files

Next == PowerFailure \/ Install \/ \E p \in Proc : Ask(p) \/ Commit(p) \/ Refuse(p)

Spec == Init /\ [][Next]_vars
=============================================================================
