----------------------------- MODULE ShellProofs -----------------------------
(***************************************************************************)
(* Proofs about Shell, for any number of programs, pipes and files, any    *)
(* lines that the user enters and any set of situations.                   *)
(*                                                                         *)
(* Three invariants.  FilesInv says what execute_pipe has done at each of  *)
(* its steps and which files the descriptors of the shell then stand for.  *)
(* ArgsInv says that the shell holds an argument vector only between       *)
(* building it and sys_create, that a program that was given one frees it  *)
(* before it exits, and that the heap holds the blocks of these and no     *)
(* other.  The blocks are counted as a set, at most one vector a slot.     *)
(* PipesInv says, unless memory is short, that a file has no more          *)
(* references than descriptors, a pipe no more readers and writers than    *)
(* files, an unlinked pipe an end, and that no pipe has a name but that of *)
(* the line that is executed.                                              *)
(***************************************************************************)
EXTENDS Shell, PipeProofs

-----------------------------------------------------------------------------
(* The descriptors of the shell *)

BackupIn == SHELL_BACKUP_STDIN
BackupOut == SHELL_BACKUP_STDOUT

\* The descriptors that sys_pipe_open may find free.
Others == Fds \ {SHELL_STDIN, SHELL_STDOUT, BackupIn, BackupOut}

Tables == [Slots -> [Fds -> Files \cup {None}]]

\* sh is a record of the variables of the shell.
IsSh(s) ==
    s \in [pc : {s.pc}, left : {s.left}, right : {s.right}, bg : {s.bg}, side : {s.side},
           script : {s.script}, strings : {s.strings}, child : {s.child}, name : {s.name},
           created : {s.created}, status : {s.status}, write_fd : {s.write_fd},
           read_fd : {s.read_fd}, backup_in : {s.backup_in}, backup_out : {s.backup_out}]

\* What the variables of execute_pipe say of the table T of the shell: a standard file
\* that has been saved is at its backup, one that has not is in its place, and no other
\* descriptor is in use than those of the two ends.
Redirected(s, T) ==
    /\ s.write_fd # None => s.write_fd \in Others
    /\ s.read_fd # None => s.read_fd \in Others
    /\ \A fd \in Others : T[fd] # None => fd = s.write_fd \/ fd = s.read_fd
    /\ T[BackupIn] = IF s.backup_in THEN TtyIn ELSE None
    /\ T[BackupOut] = IF s.backup_out THEN TtyOut ELSE None
    /\ T[SHELL_STDIN] # None /\ T[SHELL_STDOUT] # None
    /\ T[SHELL_STDIN] = TtyIn \/ (s.backup_in /\ s.pc # "drop_in")
    /\ T[SHELL_STDOUT] = TtyOut \/ (s.backup_out /\ s.pc # "drop_out")

Clean(s) == ~s.backup_in /\ ~s.backup_out /\ s.write_fd = None /\ s.read_fd = None

\* What execute_pipe has done of its work, at each of its steps.
Phase(s) ==
    /\ s.backup_in \in BOOLEAN /\ s.backup_out \in BOOLEAN
    /\ s.pc \in {"prompt", "backup_in"} \/ s.side = "alone" => Clean(s)
    /\ s.pc = "backup_out" =>
          s.backup_in /\ ~s.backup_out /\ s.write_fd = None /\ s.read_fd = None
    /\ s.pc \in {"open_writer", "open_reader", "redirect_out", "close_writer"} =>
          s.backup_in /\ s.backup_out
    /\ s.pc = "open_writer" => s.write_fd = None /\ s.read_fd = None
    /\ s.pc = "open_reader" => s.write_fd # None /\ s.read_fd = None
    /\ s.pc \in {"redirect_out", "close_writer"} => s.write_fd # None /\ s.read_fd # None
    /\ s.pc \in {"backup_in", "backup_out", "open_writer", "open_reader"} => s.side = "setup"
    /\ s.pc \in {"restore_out", "redirect_in", "close_reader"} => s.side = "left"
    /\ s.side = "left" =>
          /\ s.pc \in {"start", "run", "restore_out"} =>
                s.backup_in /\ s.backup_out /\ s.read_fd # None
          /\ s.pc \in {"drop_out", "redirect_in", "close_reader"} =>
                s.backup_in /\ s.read_fd # None
          /\ s.pc \in {"cleanup", "drop_in"} => ~s.backup_out
    /\ s.pc = "drop_in" => s.backup_in
    /\ s.pc = "drop_out" => s.backup_out

FilesInv ==
    /\ tables \in Tables /\ IsSh(sh) /\ Redirected(sh, tables[Sh]) /\ Phase(sh)
    /\ sh.child \in Programs \cup {None}

\* The descriptors that the shell uses are different ones.
LEMMA FdFacts ==
    /\ SHELL_STDIN \in Fds /\ SHELL_STDOUT \in Fds /\ BackupIn \in Fds /\ BackupOut \in Fds
    /\ SHELL_STDIN # SHELL_STDOUT /\ SHELL_STDIN # BackupIn /\ SHELL_STDIN # BackupOut
    /\ SHELL_STDOUT # BackupIn /\ SHELL_STDOUT # BackupOut /\ BackupIn # BackupOut
    /\ Others \subseteq Fds /\ Fds \subseteq Nat
    /\ Fds = Others \cup {SHELL_STDIN, SHELL_STDOUT, BackupIn, BackupOut}
<1>1. FD_MAX \in Nat /\ FD_MAX >= 6
  BY PipeAssumption, ShellAssumption
<1>2. QED
  BY <1>1 DEF Others, Fds, SHELL_STDIN, SHELL_STDOUT, BackupIn, BackupOut, SHELL_BACKUP_STDIN,
              SHELL_BACKUP_STDOUT

\* No file, and no descriptor, is NULL.
LEMMA NoneFacts ==
    /\ None \notin Files /\ TtyIn # None /\ TtyOut # None /\ TtyIn \in Files /\ TtyOut \in Files
    /\ None \notin Fds /\ Sh \in Slots /\ Sh \notin Programs /\ Programs \subseteq Slots
BY PipeAssumption, ShellAssumption DEF Programs

-----------------------------------------------------------------------------
(* The system calls, seen from the table of the shell *)

\* fd_table_dup2 of the shell.
LEMMA Dup2Table ==
    ASSUME tables \in Tables, NEW a \in Fds, NEW b \in Fds, dup2(Sh, a, b)
    PROVE  /\ tables' \in Tables /\ tables'[Sh] = [tables[Sh] EXCEPT ![b] = tables[Sh][a]]
           /\ tables[Sh][a] # None
BY NoneFacts DEF dup2, Tables

\* fd_table_close of the shell.
LEMMA CloseTable ==
    ASSUME tables \in Tables, NEW a \in Fds, close(Sh, a)
    PROVE  tables' \in Tables /\ tables'[Sh] = [tables[Sh] EXCEPT ![a] = None]
BY NoneFacts DEF close, Tables

\* sys_pipe_open of the shell takes the first free descriptor.
LEMMA OpenTable ==
    ASSUME tables \in Tables, NEW name, NEW end, open(name, end)
    PROVE  \E fd \in Fds, f \in Files :
              /\ tables' \in Tables /\ tables'[Sh] = [tables[Sh] EXCEPT ![fd] = f]
              /\ tables[Sh][fd] = None /\ Opened_fd = fd
<1>1. PICK T, fds, fd : /\ T = tables[Sh] /\ fds = {x \in Fds : T[x] = None}
                        /\ fd = CHOOSE x \in fds : \A y \in fds : x =< y
  OBVIOUS
<1>2. fds # {} /\ \E f \in Files : tables' = [tables EXCEPT ![Sh][fd] = f]
  <2>1. tables' # tables
    BY DEF open
  <2>2. fds = {x \in Fds : tables[Sh][x] = None} /\ fd = CHOOSE x \in fds : \A y \in fds : x =< y
    BY <1>1
  <2>3. QED
    BY <2>1, <2>2 DEF open, pipe_open
<1>3. fd \in fds
  <2>1. fds \in SUBSET Nat
    BY <1>1, FdFacts
  <2>2. QED
    BY <1>1, <1>2, <2>1, SmallestOf
<1>4. fd \in Fds /\ T[fd] = None
  BY <1>1, <1>3
<1>5. PICK f \in Files : tables' = [tables EXCEPT ![Sh][fd] = f]
  BY <1>2
<1>6. tables' \in Tables /\ tables'[Sh] = [T EXCEPT ![fd] = f]
  BY <1>1, <1>4, <1>5, NoneFacts DEF Tables
<1>7. T \in [Fds -> Files \cup {None}]
  BY <1>1, NoneFacts DEF Tables
<1>8. \A x \in Fds : tables'[Sh][x] # tables[Sh][x] <=> x = fd
  <2>1. PICK U : U = [T EXCEPT ![fd] = f]
    OBVIOUS
  <2>2. U[fd] = f /\ \A x \in Fds : x # fd => U[x] = T[x]
    BY <1>4, <1>7, <2>1
  <2>3. f # None
    BY NoneFacts
  <2>4. \A x \in Fds : U[x] # T[x] <=> x = fd
    BY <1>4, <2>2, <2>3
  <2>5. QED
    BY <1>1, <1>6, <2>1, <2>4
<1>9. Opened_fd = fd
  BY <1>4, <1>8 DEF Opened_fd
<1>10. QED
  BY <1>1, <1>4, <1>6, <1>9

\* The end of a program leaves the descriptors of the shell alone.
LEMMA EndTable ==
    ASSUME tables \in Tables, NEW p \in Programs, End(p)
    PROVE  tables' \in Tables /\ tables'[Sh] = tables[Sh]
<1>1. NoTable \in [Fds -> Files \cup {None}]
  BY DEF NoTable
<1>2. tables' = [tables EXCEPT ![p] = NoTable]
  BY DEF End
<1>3. QED
  BY <1>1, <1>2, NoneFacts DEF Tables

\* So does the start of one.
LEMMA CreateTable ==
    ASSUME tables \in Tables, NEW p \in Programs, proc_create(Sh, p)
    PROVE  tables' \in Tables /\ tables'[Sh] = tables[Sh]
BY NoneFacts DEF proc_create, Tables

-----------------------------------------------------------------------------
(* Each step of the shell *)

\* The fields of sh that its descriptors depend on.
SameFiles(s, t) ==
    /\ t.pc = s.pc /\ t.side = s.side /\ t.write_fd = s.write_fd /\ t.read_fd = s.read_fd
    /\ t.backup_in = s.backup_in /\ t.backup_out = s.backup_out

\* What only touches the other fields keeps the invariant.
LEMMA QuietFiles ==
    ASSUME FilesInv, tables' \in Tables, tables'[Sh] = tables[Sh], IsSh(sh'), SameFiles(sh, sh'),
           sh'.child \in Programs \cup {None}
    PROVE  FilesInv'
<1>1. PICK s, t, T : s = sh /\ t = sh' /\ T = tables[Sh]
  OBVIOUS
<1>2. Redirected(t, T)
  BY <1>1 DEF FilesInv, Redirected, SameFiles
<1>3. Phase(t)
  BY <1>1 DEF FilesInv, Phase, Clean, SameFiles
<1>4. Redirected(sh', tables'[Sh]) /\ Phase(sh')
  BY <1>1, <1>2, <1>3
<1>5. QED
  BY <1>4 DEF FilesInv, IsSh, Redirected, Phase, Clean, Tables

\* A step that leaves sh and the table of the shell in order keeps the invariant.
LEMMA MovedFiles ==
    ASSUME tables' \in Tables, IsSh(sh'), Redirected(sh', tables'[Sh]), Phase(sh'),
           sh'.child \in Programs \cup {None}
    PROVE  FilesInv'
BY DEF FilesInv, IsSh, Redirected, Phase, Clean, Tables

\* The terminal's input is saved.
LEMMA BackupInFiles ==
    ASSUME FilesInv, backup_in
    PROVE  FilesInv'
<1>1. PICK s, t, T, U : s = sh /\ t = sh' /\ T = tables[Sh] /\ U = tables'[Sh]
  OBVIOUS
<1>2. /\ IsSh(s) /\ Redirected(s, T) /\ Phase(s) /\ s.child \in Programs \cup {None}
      /\ tables \in Tables /\ T \in [Fds -> Files \cup {None}]
  BY <1>1, NoneFacts DEF FilesInv, Tables
<1>3. s.pc = "backup_in" /\ t = [s EXCEPT !.pc = "backup_out", !.backup_in = TRUE]
  BY <1>1 DEF backup_in, Become
<1>4. tables' \in Tables /\ U = [T EXCEPT ![BackupIn] = T[SHELL_STDIN]] /\ T[SHELL_STDIN] # None /\ SHELL_STDIN \in Fds
  <2>1. SHELL_STDIN \in Fds /\ BackupIn \in Fds
    BY <1>2, <1>3, FdFacts DEF Phase, Redirected
  <2>2. dup2(Sh, SHELL_STDIN, BackupIn)
    BY <1>1 DEF backup_in, BackupIn, BackupOut
  <2>3. QED
    BY <1>1, <1>2, <2>1, <2>2, Dup2Table
<1>5. /\ IsSh(t) /\ t.pc = "backup_out" /\ t.backup_in = TRUE
      /\ t.side = s.side /\ t.write_fd = s.write_fd /\ t.read_fd = s.read_fd /\ t.backup_out = s.backup_out /\ t.child = s.child
  BY <1>2, <1>3 DEF IsSh
<1>6. Redirected(t, U)
  <2>1. \A x \in Fds : U[x] = IF x = BackupIn THEN T[SHELL_STDIN] ELSE T[x]
    BY <1>2, <1>4
  <2>2. /\ t.write_fd # None => t.write_fd \in Others
        /\ t.read_fd # None => t.read_fd \in Others
    BY <1>2, <1>5 DEF Redirected
  <2>3. BackupIn \in Fds /\ BackupIn # SHELL_STDIN /\ BackupIn # SHELL_STDOUT
    BY <1>2, <1>3, FdFacts DEF Redirected, Phase, Others
  <2>4. \A fd \in Others : U[fd] # None => fd = t.write_fd \/ fd = t.read_fd
    BY <1>2, <1>3, <1>5, <2>1, FdFacts, NoneFacts DEF Redirected, Phase, Clean, Others
  <2>5. /\ U[BackupIn] = IF t.backup_in THEN TtyIn ELSE None
        /\ U[BackupOut] = IF t.backup_out THEN TtyOut ELSE None
    BY <1>2, <1>3, <1>5, <2>1, FdFacts, NoneFacts DEF Redirected, Phase, Clean, Others
  <2>6. U[SHELL_STDIN] = T[SHELL_STDIN] /\ U[SHELL_STDOUT] = T[SHELL_STDOUT]
    BY <2>1, <2>3, FdFacts
  <2>7. QED
    BY <1>2, <1>3, <1>5, <2>2, <2>4, <2>5, <2>6 DEF Redirected, Phase, Clean
<1>7. Phase(t)
  BY <1>2, <1>3, <1>4, <1>5, FdFacts, NoneFacts DEF Phase, Clean, Redirected
<1>8. QED
  BY <1>1, <1>2, <1>4, <1>5, <1>6, <1>7, MovedFiles

\* The terminal's output is saved.
LEMMA BackupOutFiles ==
    ASSUME FilesInv, backup_out
    PROVE  FilesInv'
<1>1. PICK s, t, T, U : s = sh /\ t = sh' /\ T = tables[Sh] /\ U = tables'[Sh]
  OBVIOUS
<1>2. /\ IsSh(s) /\ Redirected(s, T) /\ Phase(s) /\ s.child \in Programs \cup {None}
      /\ tables \in Tables /\ T \in [Fds -> Files \cup {None}]
  BY <1>1, NoneFacts DEF FilesInv, Tables
<1>3. s.pc = "backup_out" /\ t = [s EXCEPT !.pc = "open_writer", !.backup_out = TRUE]
  BY <1>1 DEF backup_out, Become
<1>4. tables' \in Tables /\ U = [T EXCEPT ![BackupOut] = T[SHELL_STDOUT]] /\ T[SHELL_STDOUT] # None /\ SHELL_STDOUT \in Fds
  <2>1. SHELL_STDOUT \in Fds /\ BackupOut \in Fds
    BY <1>2, <1>3, FdFacts DEF Phase, Redirected
  <2>2. dup2(Sh, SHELL_STDOUT, BackupOut)
    BY <1>1 DEF backup_out, BackupIn, BackupOut
  <2>3. QED
    BY <1>1, <1>2, <2>1, <2>2, Dup2Table
<1>5. /\ IsSh(t) /\ t.pc = "open_writer" /\ t.backup_out = TRUE
      /\ t.side = s.side /\ t.write_fd = s.write_fd /\ t.read_fd = s.read_fd /\ t.backup_in = s.backup_in /\ t.child = s.child
  BY <1>2, <1>3 DEF IsSh
<1>6. Redirected(t, U)
  <2>1. \A x \in Fds : U[x] = IF x = BackupOut THEN T[SHELL_STDOUT] ELSE T[x]
    BY <1>2, <1>4
  <2>2. /\ t.write_fd # None => t.write_fd \in Others
        /\ t.read_fd # None => t.read_fd \in Others
    BY <1>2, <1>5 DEF Redirected
  <2>3. BackupOut \in Fds /\ BackupOut # SHELL_STDIN /\ BackupOut # SHELL_STDOUT
    BY <1>2, <1>3, FdFacts DEF Redirected, Phase, Others
  <2>4. \A fd \in Others : U[fd] # None => fd = t.write_fd \/ fd = t.read_fd
    BY <1>2, <1>3, <1>5, <2>1, FdFacts, NoneFacts DEF Redirected, Phase, Clean, Others
  <2>5. /\ U[BackupIn] = IF t.backup_in THEN TtyIn ELSE None
        /\ U[BackupOut] = IF t.backup_out THEN TtyOut ELSE None
    BY <1>2, <1>3, <1>5, <2>1, FdFacts, NoneFacts DEF Redirected, Phase, Clean, Others
  <2>6. U[SHELL_STDIN] = T[SHELL_STDIN] /\ U[SHELL_STDOUT] = T[SHELL_STDOUT]
    BY <2>1, <2>3, FdFacts
  <2>7. QED
    BY <1>2, <1>3, <1>5, <2>2, <2>4, <2>5, <2>6 DEF Redirected, Phase, Clean
<1>7. Phase(t)
  BY <1>2, <1>3, <1>4, <1>5, FdFacts, NoneFacts DEF Phase, Clean, Redirected
<1>8. QED
  BY <1>1, <1>2, <1>4, <1>5, <1>6, <1>7, MovedFiles

\* The write end becomes the standard output.
LEMMA RedirectOutFiles ==
    ASSUME FilesInv, redirect_out
    PROVE  FilesInv'
<1>1. PICK s, t, T, U : s = sh /\ t = sh' /\ T = tables[Sh] /\ U = tables'[Sh]
  OBVIOUS
<1>2. /\ IsSh(s) /\ Redirected(s, T) /\ Phase(s) /\ s.child \in Programs \cup {None}
      /\ tables \in Tables /\ T \in [Fds -> Files \cup {None}]
  BY <1>1, NoneFacts DEF FilesInv, Tables
<1>3. s.pc = "redirect_out" /\ t = [s EXCEPT !.pc = "close_writer"]
  BY <1>1 DEF redirect_out, Goto
<1>4. tables' \in Tables /\ U = [T EXCEPT ![SHELL_STDOUT] = T[s.write_fd]] /\ T[s.write_fd] # None /\ s.write_fd \in Fds
  <2>1. s.write_fd \in Fds /\ SHELL_STDOUT \in Fds
    BY <1>2, <1>3, FdFacts DEF Phase, Redirected
  <2>2. dup2(Sh, s.write_fd, SHELL_STDOUT)
    BY <1>1 DEF redirect_out, BackupIn, BackupOut
  <2>3. QED
    BY <1>1, <1>2, <2>1, <2>2, Dup2Table
<1>5. /\ IsSh(t) /\ t.pc = "close_writer"
      /\ t.side = s.side /\ t.write_fd = s.write_fd /\ t.read_fd = s.read_fd /\ t.backup_in = s.backup_in /\ t.backup_out = s.backup_out /\ t.child = s.child
  BY <1>2, <1>3 DEF IsSh
<1>6. Redirected(t, U)
  BY <1>2, <1>3, <1>4, <1>5, FdFacts, NoneFacts DEF Redirected, Phase, Clean
<1>7. Phase(t)
  BY <1>2, <1>3, <1>4, <1>5, FdFacts, NoneFacts DEF Phase, Clean, Redirected
<1>8. QED
  BY <1>1, <1>2, <1>4, <1>5, <1>6, <1>7, MovedFiles

\* The shell keeps no other descriptor of the write end.
LEMMA CloseWriterFiles ==
    ASSUME FilesInv, close_writer
    PROVE  FilesInv'
<1>1. PICK s, t, T, U : s = sh /\ t = sh' /\ T = tables[Sh] /\ U = tables'[Sh]
  OBVIOUS
<1>2. /\ IsSh(s) /\ Redirected(s, T) /\ Phase(s) /\ s.child \in Programs \cup {None}
      /\ tables \in Tables /\ T \in [Fds -> Files \cup {None}]
  BY <1>1, NoneFacts DEF FilesInv, Tables
<1>3. s.pc = "close_writer" /\ t = [s EXCEPT !.pc = "start", !.side = "left", !.write_fd = None]
  BY <1>1 DEF close_writer, Become
<1>4. tables' \in Tables /\ U = [T EXCEPT ![s.write_fd] = None] /\ s.write_fd \in Fds
  <2>1. s.write_fd \in Fds
    BY <1>2, <1>3, FdFacts DEF Phase, Redirected
  <2>2. close(Sh, s.write_fd)
    BY <1>1 DEF close_writer, BackupIn, BackupOut
  <2>3. QED
    BY <1>1, <1>2, <2>1, <2>2, CloseTable
<1>5. /\ IsSh(t) /\ t.pc = "start" /\ t.side = "left" /\ t.write_fd = None
      /\ t.read_fd = s.read_fd /\ t.backup_in = s.backup_in /\ t.backup_out = s.backup_out /\ t.child = s.child
  BY <1>2, <1>3 DEF IsSh
<1>6. Redirected(t, U)
  <2>1. \A x \in Fds : U[x] = IF x = s.write_fd THEN None ELSE T[x]
    BY <1>2, <1>4
  <2>2. /\ t.write_fd # None => t.write_fd \in Others
        /\ t.read_fd # None => t.read_fd \in Others
    BY <1>2, <1>5 DEF Redirected
  <2>3. s.write_fd \in Fds /\ s.write_fd # SHELL_STDIN /\ s.write_fd # SHELL_STDOUT
    BY <1>2, <1>3, FdFacts DEF Redirected, Phase, Others
  <2>4. \A fd \in Others : U[fd] # None => fd = t.write_fd \/ fd = t.read_fd
    BY <1>2, <1>3, <1>5, <2>1, FdFacts, NoneFacts DEF Redirected, Phase, Clean, Others
  <2>5. /\ U[BackupIn] = IF t.backup_in THEN TtyIn ELSE None
        /\ U[BackupOut] = IF t.backup_out THEN TtyOut ELSE None
    BY <1>2, <1>3, <1>5, <2>1, FdFacts, NoneFacts DEF Redirected, Phase, Clean, Others
  <2>6. U[SHELL_STDIN] = T[SHELL_STDIN] /\ U[SHELL_STDOUT] = T[SHELL_STDOUT]
    BY <2>1, <2>3, FdFacts
  <2>7. QED
    BY <1>2, <1>3, <1>5, <2>2, <2>4, <2>5, <2>6 DEF Redirected, Phase, Clean
<1>7. Phase(t)
  BY <1>2, <1>3, <1>4, <1>5, FdFacts, NoneFacts DEF Phase, Clean, Redirected
<1>8. QED
  BY <1>1, <1>2, <1>4, <1>5, <1>6, <1>7, MovedFiles

\* The read end becomes the standard input.
LEMMA RedirectInFiles ==
    ASSUME FilesInv, redirect_in
    PROVE  FilesInv'
<1>1. PICK s, t, T, U : s = sh /\ t = sh' /\ T = tables[Sh] /\ U = tables'[Sh]
  OBVIOUS
<1>2. /\ IsSh(s) /\ Redirected(s, T) /\ Phase(s) /\ s.child \in Programs \cup {None}
      /\ tables \in Tables /\ T \in [Fds -> Files \cup {None}]
  BY <1>1, NoneFacts DEF FilesInv, Tables
<1>3. s.pc = "redirect_in" /\ t = [s EXCEPT !.pc = "close_reader"]
  BY <1>1 DEF redirect_in, Goto
<1>4. tables' \in Tables /\ U = [T EXCEPT ![SHELL_STDIN] = T[s.read_fd]] /\ T[s.read_fd] # None /\ s.read_fd \in Fds
  <2>1. s.read_fd \in Fds /\ SHELL_STDIN \in Fds
    BY <1>2, <1>3, FdFacts DEF Phase, Redirected
  <2>2. dup2(Sh, s.read_fd, SHELL_STDIN)
    BY <1>1 DEF redirect_in, BackupIn, BackupOut
  <2>3. QED
    BY <1>1, <1>2, <2>1, <2>2, Dup2Table
<1>5. /\ IsSh(t) /\ t.pc = "close_reader"
      /\ t.side = s.side /\ t.write_fd = s.write_fd /\ t.read_fd = s.read_fd /\ t.backup_in = s.backup_in /\ t.backup_out = s.backup_out /\ t.child = s.child
  BY <1>2, <1>3 DEF IsSh
<1>6. Redirected(t, U)
  BY <1>2, <1>3, <1>4, <1>5, FdFacts, NoneFacts DEF Redirected, Phase, Clean
<1>7. Phase(t)
  BY <1>2, <1>3, <1>4, <1>5, FdFacts, NoneFacts DEF Phase, Clean, Redirected
<1>8. QED
  BY <1>1, <1>2, <1>4, <1>5, <1>6, <1>7, MovedFiles

\* The shell keeps no other descriptor of the read end.
LEMMA CloseReaderFiles ==
    ASSUME FilesInv, close_reader
    PROVE  FilesInv'
<1>1. PICK s, t, T, U : s = sh /\ t = sh' /\ T = tables[Sh] /\ U = tables'[Sh]
  OBVIOUS
<1>2. /\ IsSh(s) /\ Redirected(s, T) /\ Phase(s) /\ s.child \in Programs \cup {None}
      /\ tables \in Tables /\ T \in [Fds -> Files \cup {None}]
  BY <1>1, NoneFacts DEF FilesInv, Tables
<1>3. s.pc = "close_reader" /\ t = [s EXCEPT !.pc = "start", !.side = "right", !.read_fd = None]
  BY <1>1 DEF close_reader, Become
<1>4. tables' \in Tables /\ U = [T EXCEPT ![s.read_fd] = None] /\ s.read_fd \in Fds
  <2>1. s.read_fd \in Fds
    BY <1>2, <1>3, FdFacts DEF Phase, Redirected
  <2>2. close(Sh, s.read_fd)
    BY <1>1 DEF close_reader, BackupIn, BackupOut
  <2>3. QED
    BY <1>1, <1>2, <2>1, <2>2, CloseTable
<1>5. /\ IsSh(t) /\ t.pc = "start" /\ t.side = "right" /\ t.read_fd = None
      /\ t.write_fd = s.write_fd /\ t.backup_in = s.backup_in /\ t.backup_out = s.backup_out /\ t.child = s.child
  BY <1>2, <1>3 DEF IsSh
<1>6. Redirected(t, U)
  <2>1. \A x \in Fds : U[x] = IF x = s.read_fd THEN None ELSE T[x]
    BY <1>2, <1>4
  <2>2. /\ t.write_fd # None => t.write_fd \in Others
        /\ t.read_fd # None => t.read_fd \in Others
    BY <1>2, <1>5 DEF Redirected
  <2>3. s.read_fd \in Fds /\ s.read_fd # SHELL_STDIN /\ s.read_fd # SHELL_STDOUT
    BY <1>2, <1>3, FdFacts DEF Redirected, Phase, Others
  <2>4. \A fd \in Others : U[fd] # None => fd = t.write_fd \/ fd = t.read_fd
    BY <1>2, <1>3, <1>5, <2>1, FdFacts, NoneFacts DEF Redirected, Phase, Clean, Others
  <2>5. /\ U[BackupIn] = IF t.backup_in THEN TtyIn ELSE None
        /\ U[BackupOut] = IF t.backup_out THEN TtyOut ELSE None
    BY <1>2, <1>3, <1>5, <2>1, FdFacts, NoneFacts DEF Redirected, Phase, Clean, Others
  <2>6. U[SHELL_STDIN] = T[SHELL_STDIN] /\ U[SHELL_STDOUT] = T[SHELL_STDOUT]
    BY <2>1, <2>3, FdFacts
  <2>7. QED
    BY <1>2, <1>3, <1>5, <2>2, <2>4, <2>5, <2>6 DEF Redirected, Phase, Clean
<1>7. Phase(t)
  BY <1>2, <1>3, <1>4, <1>5, FdFacts, NoneFacts DEF Phase, Clean, Redirected
<1>8. QED
  BY <1>1, <1>2, <1>4, <1>5, <1>6, <1>7, MovedFiles

\* The standard output is the terminal again.
LEMMA RestoreOutFiles ==
    ASSUME FilesInv, restore_out
    PROVE  FilesInv'
<1>1. PICK s, t, T, U : s = sh /\ t = sh' /\ T = tables[Sh] /\ U = tables'[Sh]
  OBVIOUS
<1>2. /\ IsSh(s) /\ Redirected(s, T) /\ Phase(s) /\ s.child \in Programs \cup {None}
      /\ tables \in Tables /\ T \in [Fds -> Files \cup {None}]
  BY <1>1, NoneFacts DEF FilesInv, Tables
<1>3. (s.pc = "restore_out" \/ (s.pc = "cleanup" /\ ~s.backup_in /\ s.backup_out)) /\ t = [s EXCEPT !.pc = "drop_out"]
  BY <1>1 DEF restore_out, Goto
<1>4. tables' \in Tables /\ U = [T EXCEPT ![SHELL_STDOUT] = T[BackupOut]] /\ T[BackupOut] # None /\ BackupOut \in Fds
  <2>1. BackupOut \in Fds /\ SHELL_STDOUT \in Fds
    BY <1>2, <1>3, FdFacts DEF Phase, Redirected
  <2>2. dup2(Sh, BackupOut, SHELL_STDOUT)
    BY <1>1 DEF restore_out, BackupIn, BackupOut
  <2>3. QED
    BY <1>1, <1>2, <2>1, <2>2, Dup2Table
<1>5. /\ IsSh(t) /\ t.pc = "drop_out"
      /\ t.side = s.side /\ t.write_fd = s.write_fd /\ t.read_fd = s.read_fd /\ t.backup_in = s.backup_in /\ t.backup_out = s.backup_out /\ t.child = s.child
  BY <1>2, <1>3 DEF IsSh
<1>6. Redirected(t, U)
  BY <1>2, <1>3, <1>4, <1>5, FdFacts, NoneFacts DEF Redirected, Phase, Clean
<1>7. Phase(t)
  BY <1>2, <1>3, <1>4, <1>5, FdFacts, NoneFacts DEF Phase, Clean, Redirected
<1>8. QED
  BY <1>1, <1>2, <1>4, <1>5, <1>6, <1>7, MovedFiles

\* The saved output is closed.
LEMMA DropOutFiles ==
    ASSUME FilesInv, drop_out
    PROVE  FilesInv'
<1>1. PICK s, t, T, U : s = sh /\ t = sh' /\ T = tables[Sh] /\ U = tables'[Sh]
  OBVIOUS
<1>2. /\ IsSh(s) /\ Redirected(s, T) /\ Phase(s) /\ s.child \in Programs \cup {None}
      /\ tables \in Tables /\ T \in [Fds -> Files \cup {None}]
  BY <1>1, NoneFacts DEF FilesInv, Tables
<1>3. s.pc = "drop_out" /\ t = [s EXCEPT !.backup_out = FALSE, !.pc = IF s.side = "left" /\ s.status = 0 THEN "redirect_in" ELSE "cleanup"]
  BY <1>1 DEF drop_out, Become
<1>4. tables' \in Tables /\ U = [T EXCEPT ![BackupOut] = None] /\ BackupOut \in Fds
  <2>1. BackupOut \in Fds
    BY <1>2, <1>3, FdFacts DEF Phase, Redirected
  <2>2. close(Sh, BackupOut)
    BY <1>1 DEF drop_out, BackupIn, BackupOut
  <2>3. QED
    BY <1>1, <1>2, <2>1, <2>2, CloseTable
<1>5. /\ IsSh(t) /\ t.pc = (IF s.side = "left" /\ s.status = 0 THEN "redirect_in" ELSE "cleanup") /\ t.backup_out = FALSE
      /\ t.side = s.side /\ t.write_fd = s.write_fd /\ t.read_fd = s.read_fd /\ t.backup_in = s.backup_in /\ t.child = s.child
  BY <1>2, <1>3 DEF IsSh
<1>6. Redirected(t, U)
  BY <1>2, <1>3, <1>4, <1>5, FdFacts, NoneFacts DEF Redirected, Phase, Clean
<1>7. Phase(t)
  BY <1>2, <1>3, <1>4, <1>5, FdFacts, NoneFacts DEF Phase, Clean, Redirected
<1>8. QED
  BY <1>1, <1>2, <1>4, <1>5, <1>6, <1>7, MovedFiles

\* The standard input is the terminal again.
LEMMA RestoreInFiles ==
    ASSUME FilesInv, restore_in
    PROVE  FilesInv'
<1>1. PICK s, t, T, U : s = sh /\ t = sh' /\ T = tables[Sh] /\ U = tables'[Sh]
  OBVIOUS
<1>2. /\ IsSh(s) /\ Redirected(s, T) /\ Phase(s) /\ s.child \in Programs \cup {None}
      /\ tables \in Tables /\ T \in [Fds -> Files \cup {None}]
  BY <1>1, NoneFacts DEF FilesInv, Tables
<1>3. s.pc = "cleanup" /\ s.backup_in /\ t = [s EXCEPT !.pc = "drop_in"]
  BY <1>1 DEF restore_in, Goto
<1>4. tables' \in Tables /\ U = [T EXCEPT ![SHELL_STDIN] = T[BackupIn]] /\ T[BackupIn] # None /\ BackupIn \in Fds
  <2>1. BackupIn \in Fds /\ SHELL_STDIN \in Fds
    BY <1>2, <1>3, FdFacts DEF Phase, Redirected
  <2>2. dup2(Sh, BackupIn, SHELL_STDIN)
    BY <1>1 DEF restore_in, BackupIn, BackupOut
  <2>3. QED
    BY <1>1, <1>2, <2>1, <2>2, Dup2Table
<1>5. /\ IsSh(t) /\ t.pc = "drop_in"
      /\ t.side = s.side /\ t.write_fd = s.write_fd /\ t.read_fd = s.read_fd /\ t.backup_in = s.backup_in /\ t.backup_out = s.backup_out /\ t.child = s.child
  BY <1>2, <1>3 DEF IsSh
<1>6. Redirected(t, U)
  BY <1>2, <1>3, <1>4, <1>5, FdFacts, NoneFacts DEF Redirected, Phase, Clean
<1>7. Phase(t)
  BY <1>2, <1>3, <1>4, <1>5, FdFacts, NoneFacts DEF Phase, Clean, Redirected
<1>8. QED
  BY <1>1, <1>2, <1>4, <1>5, <1>6, <1>7, MovedFiles

\* The saved input is closed.
LEMMA DropInFiles ==
    ASSUME FilesInv, drop_in
    PROVE  FilesInv'
<1>1. PICK s, t, T, U : s = sh /\ t = sh' /\ T = tables[Sh] /\ U = tables'[Sh]
  OBVIOUS
<1>2. /\ IsSh(s) /\ Redirected(s, T) /\ Phase(s) /\ s.child \in Programs \cup {None}
      /\ tables \in Tables /\ T \in [Fds -> Files \cup {None}]
  BY <1>1, NoneFacts DEF FilesInv, Tables
<1>3. s.pc = "drop_in" /\ t = [s EXCEPT !.pc = "cleanup", !.backup_in = FALSE]
  BY <1>1 DEF drop_in, Become
<1>4. tables' \in Tables /\ U = [T EXCEPT ![BackupIn] = None] /\ BackupIn \in Fds
  <2>1. BackupIn \in Fds
    BY <1>2, <1>3, FdFacts DEF Phase, Redirected
  <2>2. close(Sh, BackupIn)
    BY <1>1 DEF drop_in, BackupIn, BackupOut
  <2>3. QED
    BY <1>1, <1>2, <2>1, <2>2, CloseTable
<1>5. /\ IsSh(t) /\ t.pc = "cleanup" /\ t.backup_in = FALSE
      /\ t.side = s.side /\ t.write_fd = s.write_fd /\ t.read_fd = s.read_fd /\ t.backup_out = s.backup_out /\ t.child = s.child
  BY <1>2, <1>3 DEF IsSh
<1>6. Redirected(t, U)
  BY <1>2, <1>3, <1>4, <1>5, FdFacts, NoneFacts DEF Redirected, Phase, Clean
<1>7. Phase(t)
  BY <1>2, <1>3, <1>4, <1>5, FdFacts, NoneFacts DEF Phase, Clean, Redirected
<1>8. QED
  BY <1>1, <1>2, <1>4, <1>5, <1>6, <1>7, MovedFiles

\* The cleanup closes the read end.
LEMMA CloseReadFiles ==
    ASSUME FilesInv, close_read_fd
    PROVE  FilesInv'
<1>1. PICK s, t, T, U : s = sh /\ t = sh' /\ T = tables[Sh] /\ U = tables'[Sh]
  OBVIOUS
<1>2. /\ IsSh(s) /\ Redirected(s, T) /\ Phase(s) /\ s.child \in Programs \cup {None}
      /\ tables \in Tables /\ T \in [Fds -> Files \cup {None}]
  BY <1>1, NoneFacts DEF FilesInv, Tables
<1>3. s.pc = "cleanup" /\ s.read_fd # None /\ t = [s EXCEPT !.read_fd = None]
  BY <1>1 DEF close_read_fd, Restored, Become
<1>4. tables' \in Tables /\ U = [T EXCEPT ![s.read_fd] = None] /\ s.read_fd \in Fds
  <2>1. s.read_fd \in Fds
    BY <1>2, <1>3, FdFacts DEF Phase, Redirected
  <2>2. close(Sh, s.read_fd)
    BY <1>1 DEF close_read_fd, BackupIn, BackupOut
  <2>3. QED
    BY <1>1, <1>2, <2>1, <2>2, CloseTable
<1>5. /\ IsSh(t) /\ t.read_fd = None
      /\ t.pc = s.pc /\ t.side = s.side /\ t.write_fd = s.write_fd /\ t.backup_in = s.backup_in /\ t.backup_out = s.backup_out /\ t.child = s.child
  BY <1>2, <1>3 DEF IsSh
<1>6. Redirected(t, U)
  <2>1. \A x \in Fds : U[x] = IF x = s.read_fd THEN None ELSE T[x]
    BY <1>2, <1>4
  <2>2. /\ t.write_fd # None => t.write_fd \in Others
        /\ t.read_fd # None => t.read_fd \in Others
    BY <1>2, <1>5 DEF Redirected
  <2>3. s.read_fd \in Fds /\ s.read_fd # SHELL_STDIN /\ s.read_fd # SHELL_STDOUT
    BY <1>2, <1>3, FdFacts DEF Redirected, Phase, Others
  <2>4. \A fd \in Others : U[fd] # None => fd = t.write_fd \/ fd = t.read_fd
    BY <1>2, <1>3, <1>5, <2>1, FdFacts, NoneFacts DEF Redirected, Phase, Clean, Others
  <2>5. /\ U[BackupIn] = IF t.backup_in THEN TtyIn ELSE None
        /\ U[BackupOut] = IF t.backup_out THEN TtyOut ELSE None
    BY <1>2, <1>3, <1>5, <2>1, FdFacts, NoneFacts DEF Redirected, Phase, Clean, Others
  <2>6. U[SHELL_STDIN] = T[SHELL_STDIN] /\ U[SHELL_STDOUT] = T[SHELL_STDOUT]
    BY <2>1, <2>3, FdFacts
  <2>7. QED
    BY <1>2, <1>3, <1>5, <2>2, <2>4, <2>5, <2>6 DEF Redirected, Phase, Clean
<1>7. Phase(t)
  BY <1>2, <1>3, <1>4, <1>5, FdFacts, NoneFacts DEF Phase, Clean, Redirected
<1>8. QED
  BY <1>1, <1>2, <1>4, <1>5, <1>6, <1>7, MovedFiles

\* The cleanup closes the write end.
LEMMA CloseWriteFiles ==
    ASSUME FilesInv, close_write_fd
    PROVE  FilesInv'
<1>1. PICK s, t, T, U : s = sh /\ t = sh' /\ T = tables[Sh] /\ U = tables'[Sh]
  OBVIOUS
<1>2. /\ IsSh(s) /\ Redirected(s, T) /\ Phase(s) /\ s.child \in Programs \cup {None}
      /\ tables \in Tables /\ T \in [Fds -> Files \cup {None}]
  BY <1>1, NoneFacts DEF FilesInv, Tables
<1>3. s.pc = "cleanup" /\ s.write_fd # None /\ t = [s EXCEPT !.write_fd = None]
  BY <1>1 DEF close_write_fd, Restored, Become
<1>4. tables' \in Tables /\ U = [T EXCEPT ![s.write_fd] = None] /\ s.write_fd \in Fds
  <2>1. s.write_fd \in Fds
    BY <1>2, <1>3, FdFacts DEF Phase, Redirected
  <2>2. close(Sh, s.write_fd)
    BY <1>1 DEF close_write_fd, BackupIn, BackupOut
  <2>3. QED
    BY <1>1, <1>2, <2>1, <2>2, CloseTable
<1>5. /\ IsSh(t) /\ t.write_fd = None
      /\ t.pc = s.pc /\ t.side = s.side /\ t.read_fd = s.read_fd /\ t.backup_in = s.backup_in /\ t.backup_out = s.backup_out /\ t.child = s.child
  BY <1>2, <1>3 DEF IsSh
<1>6. Redirected(t, U)
  <2>1. \A x \in Fds : U[x] = IF x = s.write_fd THEN None ELSE T[x]
    BY <1>2, <1>4
  <2>2. /\ t.write_fd # None => t.write_fd \in Others
        /\ t.read_fd # None => t.read_fd \in Others
    BY <1>2, <1>5 DEF Redirected
  <2>3. s.write_fd \in Fds /\ s.write_fd # SHELL_STDIN /\ s.write_fd # SHELL_STDOUT
    BY <1>2, <1>3, FdFacts DEF Redirected, Phase, Others
  <2>4. \A fd \in Others : U[fd] # None => fd = t.write_fd \/ fd = t.read_fd
    BY <1>2, <1>3, <1>5, <2>1, FdFacts, NoneFacts DEF Redirected, Phase, Clean, Others
  <2>5. /\ U[BackupIn] = IF t.backup_in THEN TtyIn ELSE None
        /\ U[BackupOut] = IF t.backup_out THEN TtyOut ELSE None
    BY <1>2, <1>3, <1>5, <2>1, FdFacts, NoneFacts DEF Redirected, Phase, Clean, Others
  <2>6. U[SHELL_STDIN] = T[SHELL_STDIN] /\ U[SHELL_STDOUT] = T[SHELL_STDOUT]
    BY <2>1, <2>3, FdFacts
  <2>7. QED
    BY <1>2, <1>3, <1>5, <2>2, <2>4, <2>5, <2>6 DEF Redirected, Phase, Clean
<1>7. Phase(t)
  BY <1>2, <1>3, <1>4, <1>5, FdFacts, NoneFacts DEF Phase, Clean, Redirected
<1>8. QED
  BY <1>1, <1>2, <1>4, <1>5, <1>6, <1>7, MovedFiles

\* sys_pipe_open without memory: execute_pipe goes to its cleanup.
LEMMA FailFiles ==
    ASSUME FilesInv, Fail, UNCHANGED tables, sh.pc \in {"open_writer", "open_reader"}
    PROVE  FilesInv'
<1>1. PICK s, t, T : s = sh /\ t = sh' /\ T = tables[Sh]
  OBVIOUS
<1>2. /\ IsSh(s) /\ Redirected(s, T) /\ Phase(s) /\ s.child \in Programs \cup {None}
      /\ tables \in Tables
  BY <1>1 DEF FilesInv
<1>3. PICK failed : failed = -1
  OBVIOUS
<1>4. t = [s EXCEPT !.status = failed, !.pc = "cleanup"]
  BY <1>1, <1>3 DEF Fail
<1>5. /\ IsSh(t) /\ t.pc = "cleanup"
      /\ t.side = s.side /\ t.write_fd = s.write_fd /\ t.read_fd = s.read_fd
      /\ t.backup_in = s.backup_in /\ t.backup_out = s.backup_out /\ t.child = s.child
  BY <1>2, <1>4 DEF IsSh
<1>6. Redirected(t, T)
  BY <1>2, <1>5 DEF Redirected
<1>7. s.side = "setup"
  BY <1>1, <1>2 DEF Phase
<1>8. Phase(t)
  BY <1>2, <1>5, <1>7 DEF Phase, Clean
<1>9. tables' \in Tables /\ IsSh(sh') /\ Redirected(sh', tables'[Sh]) /\ Phase(sh')
      /\ sh'.child \in Programs \cup {None}
  BY <1>1, <1>2, <1>5, <1>6, <1>8
<1>10. QED
  BY <1>9, MovedFiles

\* The write end of the pipe is opened.
LEMMA OpenWriterFiles ==
    ASSUME FilesInv, open_writer
    PROVE  FilesInv'
<1>1. CASE \E name : no_pipe(name) \/ no_file(name, "write")
  <2>1. Fail /\ UNCHANGED tables
    BY <1>1 DEF no_pipe, no_file, vars
  <2>2. sh.pc = "open_writer"
    BY DEF open_writer
  <2>3. QED
    BY <2>1, <2>2, FailFiles
<1>2. CASE ~ \E name : no_pipe(name) \/ no_file(name, "write")
  <2>1. PICK s, t, T, U : s = sh /\ t = sh' /\ T = tables[Sh] /\ U = tables'[Sh]
    OBVIOUS
  <2>2. /\ IsSh(s) /\ Redirected(s, T) /\ Phase(s) /\ s.child \in Programs \cup {None}
        /\ tables \in Tables /\ T \in [Fds -> Files \cup {None}]
    BY <2>1, NoneFacts DEF FilesInv, Tables
  <2>3. PICK name : /\ open(name, "write")
                    /\ t = [s EXCEPT !.pc = "open_reader", !.name = name, !.write_fd = Opened_fd]
    BY <1>2, <2>1 DEF open_writer, Become
  <2>4. s.pc = "open_writer"
    BY <2>1 DEF open_writer
  <2>5. PICK fd \in Fds, f \in Files :
            /\ tables' \in Tables /\ U = [T EXCEPT ![fd] = f] /\ T[fd] = None /\ Opened_fd = fd
    BY <2>1, <2>2, <2>3, OpenTable
  <2>6. /\ IsSh(t) /\ t.pc = "open_reader" /\ t.write_fd = fd
        /\ t.side = s.side /\ t.read_fd = s.read_fd /\ t.backup_in = s.backup_in
        /\ t.backup_out = s.backup_out /\ t.child = s.child
    BY <2>2, <2>3, <2>5 DEF IsSh
  <2>7. s.backup_in /\ s.backup_out /\ s.write_fd = None /\ s.read_fd = None /\ s.side = "setup"
    BY <2>2, <2>4 DEF Phase
  <2>8. fd \in Others
    BY <2>2, <2>5, <2>7, FdFacts, NoneFacts DEF Redirected
  <2>9. Redirected(t, U)
    <3>1. \A x \in Fds : U[x] = IF x = fd THEN f ELSE T[x]
      BY <2>2, <2>5
    <3>2. \A x \in Others : U[x] # None => x = t.write_fd \/ x = t.read_fd
      BY <2>2, <2>6, <2>7, <3>1, FdFacts, NoneFacts DEF Redirected
    <3>3. \A x \in Fds \ Others : U[x] = T[x]
      BY <2>8, <3>1
    <3>4. /\ U[BackupIn] = T[BackupIn] /\ U[BackupOut] = T[BackupOut]
          /\ U[SHELL_STDIN] = T[SHELL_STDIN] /\ U[SHELL_STDOUT] = T[SHELL_STDOUT]
      BY <3>3, FdFacts DEF Others
    <3>5. QED
      BY <2>2, <2>4, <2>6, <2>7, <2>8, <3>2, <3>4 DEF Redirected
  <2>10. Phase(t)
    BY <2>2, <2>4, <2>6, <2>7, <2>8, FdFacts, NoneFacts DEF Phase, Clean
  <2>11. QED
    BY <2>1, <2>2, <2>5, <2>6, <2>9, <2>10, MovedFiles
<1>3. QED
  BY <1>1, <1>2

\* The read end of the pipe is opened.
LEMMA OpenReaderFiles ==
    ASSUME FilesInv, open_reader
    PROVE  FilesInv'
<1>1. CASE no_file(sh.name, "read")
  <2>1. Fail /\ UNCHANGED tables
    BY <1>1 DEF no_file
  <2>2. sh.pc = "open_reader"
    BY DEF open_reader
  <2>3. QED
    BY <2>1, <2>2, FailFiles
<1>2. CASE ~no_file(sh.name, "read")
  <2>1. PICK s, t, T, U : s = sh /\ t = sh' /\ T = tables[Sh] /\ U = tables'[Sh]
    OBVIOUS
  <2>2. /\ IsSh(s) /\ Redirected(s, T) /\ Phase(s) /\ s.child \in Programs \cup {None}
        /\ tables \in Tables /\ T \in [Fds -> Files \cup {None}]
    BY <2>1, NoneFacts DEF FilesInv, Tables
  <2>3. /\ open(sh.name, "read")
        /\ t = [s EXCEPT !.pc = "redirect_out", !.created = TRUE, !.read_fd = Opened_fd]
    BY <1>2, <2>1 DEF open_reader, Become
  <2>4. s.pc = "open_reader"
    BY <2>1 DEF open_reader
  <2>5. PICK fd \in Fds, f \in Files :
            /\ tables' \in Tables /\ U = [T EXCEPT ![fd] = f] /\ T[fd] = None /\ Opened_fd = fd
    BY <2>1, <2>2, <2>3, OpenTable
  <2>6. /\ IsSh(t) /\ t.pc = "redirect_out" /\ t.read_fd = fd
        /\ t.side = s.side /\ t.write_fd = s.write_fd /\ t.backup_in = s.backup_in
        /\ t.backup_out = s.backup_out /\ t.child = s.child
    BY <2>2, <2>3, <2>5 DEF IsSh
  <2>7. s.backup_in /\ s.backup_out /\ s.write_fd # None /\ s.read_fd = None /\ s.side = "setup"
    BY <2>2, <2>4 DEF Phase
  <2>8. fd \in Others
    BY <2>2, <2>5, <2>7, FdFacts, NoneFacts DEF Redirected
  <2>9. Redirected(t, U)
    <3>1. \A x \in Fds : U[x] = IF x = fd THEN f ELSE T[x]
      BY <2>2, <2>5
    <3>2. \A x \in Others : U[x] # None => x = t.write_fd \/ x = t.read_fd
      BY <2>2, <2>6, <2>7, <3>1, FdFacts, NoneFacts DEF Redirected
    <3>3. \A x \in Fds \ Others : U[x] = T[x]
      BY <2>8, <3>1
    <3>4. /\ U[BackupIn] = T[BackupIn] /\ U[BackupOut] = T[BackupOut]
          /\ U[SHELL_STDIN] = T[SHELL_STDIN] /\ U[SHELL_STDOUT] = T[SHELL_STDOUT]
      BY <3>3, FdFacts DEF Others
    <3>5. QED
      BY <2>2, <2>4, <2>6, <2>7, <2>8, <3>2, <3>4 DEF Redirected
  <2>10. Phase(t)
    BY <2>2, <2>4, <2>6, <2>7, <2>8, FdFacts, NoneFacts DEF Phase, Clean
  <2>11. QED
    BY <2>1, <2>2, <2>5, <2>6, <2>9, <2>10, MovedFiles
<1>3. QED
  BY <1>1, <1>2

\* A line is entered.
LEMMA NewLineFiles ==
    ASSUME FilesInv, newLine
    PROVE  FilesInv'
<1>1. PICK s, t, T : s = sh /\ t = sh' /\ T = tables[Sh]
  OBVIOUS
<1>2. /\ IsSh(s) /\ Redirected(s, T) /\ Phase(s) /\ s.child \in Programs \cup {None}
      /\ tables \in Tables /\ s.pc = "prompt" /\ UNCHANGED tables
  BY <1>1 DEF FilesInv, newLine, vars
<1>3. PICK line \in Lines, side \in {"setup", "alone"}, pc \in {"backup_in", "start"} :
          /\ t = [s EXCEPT !.left = line.left, !.right = line.right, !.bg = line.bg,
                           !.side = side, !.pc = pc]
          /\ pc = "backup_in" <=> side = "setup"
  <2>1. PICK line \in Lines :
          t = [s EXCEPT !.left = line.left, !.right = line.right, !.bg = line.bg,
                        !.side = IF has_pipe(line) THEN "setup" ELSE "alone",
                        !.pc = IF has_pipe(line) THEN "backup_in" ELSE "start"]
    BY <1>1 DEF newLine, Become
  <2>2. CASE has_pipe(line)
    BY <2>1, <2>2
  <2>3. CASE ~has_pipe(line)
    BY <2>1, <2>3
  <2>4. QED
    BY <2>2, <2>3
<1>4. /\ IsSh(t) /\ t.pc = pc /\ t.side = side
      /\ t.write_fd = s.write_fd /\ t.read_fd = s.read_fd
      /\ t.backup_in = s.backup_in /\ t.backup_out = s.backup_out /\ t.child = s.child
  BY <1>2, <1>3 DEF IsSh
<1>5. Redirected(t, T)
  BY <1>2, <1>4 DEF Redirected
<1>6. Clean(s)
  BY <1>2 DEF Phase
<1>7. Phase(t)
  BY <1>2, <1>3, <1>4, <1>6 DEF Phase, Clean
<1>8. tables' \in Tables /\ IsSh(sh') /\ Redirected(sh', tables'[Sh]) /\ Phase(sh')
      /\ sh'.child \in Programs \cup {None}
  BY <1>1, <1>2, <1>4, <1>5, <1>7
<1>9. QED
  BY <1>8, MovedFiles

\* A command starts.
LEMMA StartFiles ==
    ASSUME FilesInv, start
    PROVE  FilesInv'
<1>1. PICK s, t, T : s = sh /\ t = sh' /\ T = tables[Sh]
  OBVIOUS
<1>2. /\ IsSh(s) /\ Redirected(s, T) /\ Phase(s) /\ s.child \in Programs \cup {None}
      /\ tables \in Tables /\ s.pc = "start" /\ UNCHANGED tables
  BY <1>1 DEF FilesInv, start, vars
<1>3. \E script, status : t = [s EXCEPT !.pc = "run", !.script = script, !.status = status]
  BY <1>1, Zenon DEF start, Become
<1>4. /\ IsSh(t) /\ t.pc = "run" /\ t.side = s.side
      /\ t.write_fd = s.write_fd /\ t.read_fd = s.read_fd
      /\ t.backup_in = s.backup_in /\ t.backup_out = s.backup_out /\ t.child = s.child
  BY <1>2, <1>3 DEF IsSh
<1>5. Redirected(t, T)
  BY <1>2, <1>4 DEF Redirected
<1>6. Phase(t)
  BY <1>2, <1>4 DEF Phase, Clean
<1>7. tables' \in Tables /\ IsSh(sh') /\ Redirected(sh', tables'[Sh]) /\ Phase(sh')
      /\ sh'.child \in Programs \cup {None}
  BY <1>1, <1>2, <1>4, <1>5, <1>6
<1>8. QED
  BY <1>7, MovedFiles

\* A command has come to its end.
LEMMA ReturnedFiles ==
    ASSUME FilesInv, returned
    PROVE  FilesInv'
<1>1. PICK s, t, T : s = sh /\ t = sh' /\ T = tables[Sh]
  OBVIOUS
<1>2. /\ IsSh(s) /\ Redirected(s, T) /\ Phase(s) /\ s.child \in Programs \cup {None}
      /\ tables \in Tables /\ s.pc = "run" /\ UNCHANGED tables
  BY <1>1 DEF FilesInv, returned, vars
<1>3. PICK pc \in {"restore_out", "cleanup"} :
          t = [s EXCEPT !.pc = pc] /\ (pc = "restore_out" <=> s.side = "left")
  BY <1>1 DEF returned, Goto
<1>4. /\ IsSh(t) /\ t.pc = pc /\ t.side = s.side
      /\ t.write_fd = s.write_fd /\ t.read_fd = s.read_fd
      /\ t.backup_in = s.backup_in /\ t.backup_out = s.backup_out /\ t.child = s.child
  BY <1>2, <1>3 DEF IsSh
<1>5. Redirected(t, T)
  BY <1>2, <1>3, <1>4 DEF Redirected
<1>6. Phase(t)
  BY <1>2, <1>3, <1>4 DEF Phase, Clean
<1>7. tables' \in Tables /\ IsSh(sh') /\ Redirected(sh', tables'[Sh]) /\ Phase(sh')
      /\ sh'.child \in Programs \cup {None}
  BY <1>1, <1>2, <1>4, <1>5, <1>6
<1>8. QED
  BY <1>7, MovedFiles

\* The next prompt.
LEMMA PromptFiles ==
    ASSUME FilesInv, prompt
    PROVE  FilesInv'
<1>1. PICK s, t, T : s = sh /\ t = sh' /\ T = tables[Sh]
  OBVIOUS
<1>2. /\ IsSh(s) /\ Redirected(s, T) /\ Phase(s) /\ tables \in Tables /\ UNCHANGED tables
      /\ s.pc = "cleanup" /\ Clean(s)
  BY <1>1 DEF FilesInv, prompt, vars, EndsClosed, Restored, Clean
<1>3. t = AtPrompt
  BY <1>1 DEF prompt, Become
<1>4. /\ IsSh(t) /\ t.pc = "prompt" /\ t.side = None
      /\ t.write_fd = None /\ t.read_fd = None
      /\ t.backup_in = FALSE /\ t.backup_out = FALSE /\ t.child = None
  BY <1>3 DEF IsSh, AtPrompt
<1>5. Redirected(t, T)
  BY <1>2, <1>4 DEF Redirected, Clean
<1>6. Phase(t)
  BY <1>2, <1>4 DEF Phase, Clean
<1>7. tables' \in Tables /\ IsSh(sh') /\ Redirected(sh', tables'[Sh]) /\ Phase(sh')
      /\ sh'.child \in Programs \cup {None}
  BY <1>1, <1>2, <1>4, <1>5, <1>6
<1>8. QED
  BY <1>7, MovedFiles

\* The name of the pipe goes.
LEMMA UnlinkFiles ==
    ASSUME FilesInv, unlink
    PROVE  FilesInv'
<1>1. UNCHANGED tables
  BY DEF unlink, pipe_unlink
<1>2. sh' = [sh EXCEPT !.created = FALSE]
  BY DEF unlink, Become
<1>3. IsSh(sh') /\ SameFiles(sh, sh') /\ sh'.child = sh.child
  BY <1>2 DEF FilesInv, IsSh, SameFiles
<1>4. QED
  BY <1>1, <1>3, QuietFiles DEF FilesInv

-----------------------------------------------------------------------------
(* The steps that leave the descriptors of the shell alone *)

\* Which of the other fields a step of a command changes.
Changed(s, script, strings, status, child) ==
    [s EXCEPT !.script = script, !.strings = strings, !.status = status, !.child = child]

QuietStep ==
    \E child \in Programs \cup {None} : \E script, strings, status :
        sh' = Changed(sh, script, strings, status, child)

\* Such a step keeps the invariant.
LEMMA QuietStepFiles ==
    ASSUME FilesInv, QuietStep, tables' \in Tables, tables'[Sh] = tables[Sh]
    PROVE  FilesInv'
<1>1. PICK s, t : s = sh /\ t = sh'
  OBVIOUS
<1>2. IsSh(s)
  BY <1>1 DEF FilesInv
<1>3. PICK child \in Programs \cup {None} : \E script, strings, status :
          t = Changed(s, script, strings, status, child)
  BY <1>1 DEF QuietStep
<1>4. IsSh(t) /\ SameFiles(s, t) /\ t.child \in Programs \cup {None}
  BY <1>2, <1>3 DEF IsSh, SameFiles, Changed
<1>5. IsSh(sh') /\ SameFiles(sh, sh') /\ sh'.child \in Programs \cup {None}
  BY <1>1, <1>4
<1>6. QED
  BY <1>5, QuietFiles

\* sh may also stay as it is, or lose the step of the script that has been done.
LEMMA QuietForms ==
    ASSUME IsSh(sh), sh.child \in Programs \cup {None},
           \/ UNCHANGED sh
           \/ sh' = [sh EXCEPT !.script = Tail(@)]
           \/ \E c \in Programs \cup {None} : sh' = [sh EXCEPT !.child = c]
           \/ \E script, strings : sh' = [sh EXCEPT !.script = script, !.strings = strings]
           \/ \E c \in Programs \cup {None} : \E script, strings :
                sh' = [sh EXCEPT !.script = script, !.strings = strings, !.child = c]
           \/ \E script, strings, status :
                sh' = [sh EXCEPT !.script = script, !.strings = strings, !.status = status]
    PROVE  QuietStep
<1>1. PICK s, t, c : s = sh /\ t = sh' /\ c = s.child /\ c \in Programs \cup {None}
  OBVIOUS
<1>2. IsSh(s)
  BY <1>1
<1>3. \/ t = s
      \/ t = [s EXCEPT !.script = Tail(s.script)]
      \/ \E d \in Programs \cup {None} : t = [s EXCEPT !.child = d]
      \/ \E script, strings : t = [s EXCEPT !.script = script, !.strings = strings]
      \/ \E d \in Programs \cup {None} : \E script, strings :
            t = [s EXCEPT !.script = script, !.strings = strings, !.child = d]
      \/ \E script, strings, status :
            t = [s EXCEPT !.script = script, !.strings = strings, !.status = status]
  BY <1>1
<1>4. \E d \in Programs \cup {None} : \E script, strings, status :
          t = Changed(s, script, strings, status, d)
  <2>1. CASE t = s
    <3>1. t = Changed(s, s.script, s.strings, s.status, c)
      BY <1>1, <1>2, <2>1 DEF IsSh, Changed
    <3>2. QED
      BY <1>1, <3>1
  <2>2. CASE t = [s EXCEPT !.script = Tail(s.script)]
    <3>1. t = Changed(s, Tail(s.script), s.strings, s.status, c)
      BY <1>1, <1>2, <2>2 DEF IsSh, Changed
    <3>2. QED
      BY <1>1, <3>1
  <2>3. CASE \E d \in Programs \cup {None} : t = [s EXCEPT !.child = d]
    <3>1. PICK d \in Programs \cup {None} : t = [s EXCEPT !.child = d]
      BY <2>3
    <3>2. t = Changed(s, s.script, s.strings, s.status, d)
      BY <1>2, <3>1 DEF IsSh, Changed
    <3>3. QED
      BY <3>2
  <2>4. CASE \E script, strings : t = [s EXCEPT !.script = script, !.strings = strings]
    <3>1. PICK script, strings : t = [s EXCEPT !.script = script, !.strings = strings]
      BY <2>4
    <3>2. t = Changed(s, script, strings, s.status, c)
      BY <1>1, <1>2, <3>1 DEF IsSh, Changed
    <3>3. QED
      BY <1>1, <3>2
  <2>5. CASE \E d \in Programs \cup {None} : \E script, strings :
                t = [s EXCEPT !.script = script, !.strings = strings, !.child = d]
    <3>1. PICK d \in Programs \cup {None} : \E script, strings :
                t = [s EXCEPT !.script = script, !.strings = strings, !.child = d]
      BY <2>5
    <3>2. PICK script, strings : t = [s EXCEPT !.script = script, !.strings = strings, !.child = d]
      BY <3>1
    <3>3. t = Changed(s, script, strings, s.status, d)
      BY <1>2, <3>2 DEF IsSh, Changed
    <3>4. QED
      BY <3>3
  <2>6. CASE \E script, strings, status :
                t = [s EXCEPT !.script = script, !.strings = strings, !.status = status]
    <3>1. PICK script, strings, status :
                t = [s EXCEPT !.script = script, !.strings = strings, !.status = status]
      BY <2>6
    <3>2. t = Changed(s, script, strings, status, c)
      BY <1>1, <1>2, <3>1 DEF IsSh, Changed
    <3>3. QED
      BY <1>1, <3>2
  <2>7. QED
    BY <1>3, <2>1, <2>2, <2>3, <2>4, <2>5, <2>6
<1>5. QED
  BY <1>1, <1>4 DEF QuietStep

\* The steps of commands and of programs.
CommandCall(p) ==
    \/ print(p) \/ read_pipe(p) \/ read_terminal(p) \/ read_refused(p) \/ pass_on(p)
    \/ loop_prints(p) \/ free(p)
CommandStep ==
    \/ build_spawn_argv \/ create \/ wait \/ CtrlC
    \/ \E p \in Slots : CommandCall(p)
    \/ \E p \in Programs : sys_exit(p) \/ sys_kill(p)

\* So it is with all of them, whoever they end.
LEMMA CommandsQuiet == ASSUME FilesInv, CommandStep PROVE QuietStep
<1>1. IsSh(sh) /\ sh.child \in Programs \cup {None}
  BY DEF FilesInv
<1>2. CASE GiveUp
  BY <1>1, <1>2, QuietForms DEF GiveUp, Become
<1>3. CASE UNCHANGED sh \/ Become([sh EXCEPT !.script = Tail(@)])
  BY <1>1, <1>3, QuietForms DEF Become
<1>4. ASSUME NEW p, Become([sh EXCEPT !.child = IF @ = p THEN None ELSE @])
      PROVE  QuietStep
  <2>1. PICK c : c = IF sh.child = p THEN None ELSE sh.child
    OBVIOUS
  <2>2. c \in Programs \cup {None} /\ sh' = [sh EXCEPT !.child = c]
    BY <1>1, <1>4, <2>1 DEF Become
  <2>3. QED
    BY <1>1, <2>2, QuietForms
<1>5. CASE build_spawn_argv
  <2>1. GiveUp \/ \E script, strings : sh' = [sh EXCEPT !.script = script, !.strings = strings]
    BY <1>5 DEF build_spawn_argv, Become
  <2>2. QED
    BY <1>1, <1>2, <2>1, QuietForms
<1>6. CASE create
  <2>1. \/ GiveUp
        \/ \E p \in FreeSlots : sh' = [sh EXCEPT !.script = Tail(@), !.strings = NoArgv,
                                                 !.child = IF IsForeground THEN p ELSE None]
    BY <1>6, Zenon DEF create, Become
  <2>2. ASSUME NEW p \in FreeSlots,
               sh' = [sh EXCEPT !.script = Tail(@), !.strings = NoArgv,
                                !.child = IF IsForeground THEN p ELSE None]
        PROVE  QuietStep
    <3>1. PICK c : c = IF IsForeground THEN p ELSE None
      OBVIOUS
    <3>2. c \in Programs \cup {None}
      BY <3>1 DEF FreeSlots
    <3>3. sh' = [sh EXCEPT !.script = Tail(sh.script), !.strings = NoArgv, !.child = c]
      BY <2>2, <3>1
    <3>4. \E script, strings :
              sh' = [sh EXCEPT !.script = script, !.strings = strings, !.child = c]
      BY <3>3, Zenon
    <3>5. QED
      BY <1>1, <3>2, <3>4, QuietForms
  <2>3. QED
    BY <1>2, <2>1, <2>2
<1>7. CASE wait
  BY <1>3, <1>7 DEF wait
<1>8. CASE \E p \in Slots : CommandCall(p)
  BY <1>3, <1>8 DEF CommandCall, print, read_pipe, read_terminal, read_refused, pass_on, loop_prints, free, Took,
                    Advance
<1>9. CASE CtrlC
  BY <1>4, <1>9 DEF CtrlC, Gone
<1>10. CASE \E p \in Programs : sys_exit(p)
  BY <1>4, <1>10 DEF sys_exit, Gone
<1>11. CASE \E p \in Programs : sys_kill(p)
  BY <1>3, <1>4, <1>11, NoneFacts DEF sys_kill, Advance
<1>12. QED
  BY <1>5, <1>6, <1>7, <1>8, <1>9, <1>10, <1>11 DEF CommandStep

\* The steps of the shell that run a command.
LEMMA RunFiles ==
    ASSUME FilesInv, build_spawn_argv \/ create \/ wait
    PROVE  FilesInv'
<1>1. tables \in Tables /\ QuietStep
  BY CommandsQuiet DEF FilesInv, CommandStep
<1>2. UNCHANGED tables \/ \E p \in Programs : proc_create(Sh, p)
  <2>1. CASE build_spawn_argv \/ wait
    BY <2>1 DEF build_spawn_argv, wait, vars
  <2>2. CASE create
    <3>1. UNCHANGED vars \/ \E p \in FreeSlots : proc_create(Sh, p)
      BY <2>2, Zenon DEF create
    <3>2. QED
      BY <3>1 DEF vars, FreeSlots
  <2>3. QED
    BY <2>1, <2>2
<1>3. QED
  BY <1>1, <1>2, CreateTable, QuietStepFiles

\* A process that prints, or is inside a system call, changes no table.
LEMMA OutputTable ==
    ASSUME NEW p, Output(p) \/ read(p, SHELL_STDIN) \/ Resumes(p) \/ UNCHANGED vars
    PROVE  UNCHANGED tables
BY DEF Output, write, read, Resumes, vars

\* The steps of a process that end nobody.
LEMMA CallFiles ==
    ASSUME FilesInv, NEW p \in Slots, CommandCall(p)
    PROVE  FilesInv'
<1>1. tables \in Tables
  BY DEF FilesInv
<1>2. QuietStep
  BY CommandsQuiet DEF CommandStep
<1>3. UNCHANGED tables
  <2>1. CASE read_terminal(p) \/ read_refused(p) \/ free(p)
    BY <2>1 DEF read_terminal, read_refused, free, vars
  <2>2. CASE print(p) \/ read_pipe(p) \/ pass_on(p) \/ loop_prints(p)
    BY <2>2, OutputTable DEF print, read_pipe, pass_on, loop_prints
  <2>3. QED
    BY <2>1, <2>2 DEF CommandCall
<1>4. QED
  BY <1>1, <1>2, <1>3, QuietStepFiles

\* The steps that end somebody, and what is left of those of a program.
LEMMA EndingFiles ==
    ASSUME FilesInv, CtrlC \/ \E p \in Programs : sys_exit(p) \/ sys_kill(p)
    PROVE  FilesInv'
<1>1. sh.child \in Programs \cup {None} /\ tables \in Tables /\ QuietStep
  BY CommandsQuiet DEF FilesInv, CommandStep
<1>2. UNCHANGED tables \/ \E p \in Programs : End(p)
  BY <1>1 DEF CtrlC, sys_exit, sys_kill, proc_exit, proc_kill, vars
<1>3. QED
  BY <1>1, <1>2, EndTable, QuietStepFiles

-----------------------------------------------------------------------------
(* The invariant *)

\* At the first prompt the shell has the standard files.
LEMMA FilesInit == ShellInit => FilesInv
<1>1. SUFFICES ASSUME ShellInit PROVE FilesInv
  OBVIOUS
<1>2. StdTable \in [Fds -> Files \cup {None}] /\ NoTable \in [Fds -> Files \cup {None}]
  BY NoneFacts DEF StdTable, NoTable
<1>3. tables \in Tables /\ tables[Sh] = StdTable
  <2>1. tables = [p \in Slots |-> IF p = Sh THEN StdTable ELSE NoTable]
    BY <1>1 DEF ShellInit
  <2>2. QED
    BY <1>2, <2>1, NoneFacts DEF Tables
<1>4. sh = AtPrompt
  BY <1>1 DEF ShellInit
<1>5. /\ IsSh(sh) /\ sh.pc = "prompt" /\ sh.write_fd = None /\ sh.read_fd = None
      /\ sh.backup_in = FALSE /\ sh.backup_out = FALSE /\ sh.child = None
  BY <1>4 DEF IsSh, AtPrompt
<1>6. \A x \in Fds : StdTable[x] = IF x = SHELL_STDIN THEN TtyIn
                                   ELSE IF x = SHELL_STDOUT THEN TtyOut ELSE None
  BY FdFacts DEF StdTable, NoTable
<1>7. Redirected(sh, tables[Sh])
  <2>1. \A x \in Others : StdTable[x] = None
    BY <1>6, FdFacts DEF Others
  <2>2. /\ StdTable[BackupIn] = None /\ StdTable[BackupOut] = None
        /\ StdTable[SHELL_STDIN] = TtyIn /\ StdTable[SHELL_STDOUT] = TtyOut
    BY <1>6, FdFacts
  <2>3. QED
    BY <1>3, <1>5, <2>1, <2>2, NoneFacts DEF Redirected
<1>8. Phase(sh)
  BY <1>5 DEF Phase, Clean
<1>9. QED
  BY <1>3, <1>5, <1>7, <1>8 DEF FilesInv

\* Every step of the shell and of the programs keeps the invariant.
LEMMA FilesNext == FilesInv /\ [ShellNext]_svars => FilesInv'
<1>1. SUFFICES ASSUME FilesInv, [ShellNext]_svars PROVE FilesInv'
  OBVIOUS
<1>2. CASE UNCHANGED svars
  BY <1>1, <1>2 DEF svars, FilesInv, IsSh, Redirected, Phase, Clean, Tables
<1>3. CASE newLine \/ CtrlC
  BY <1>1, <1>3, NewLineFiles, EndingFiles
<1>4. CASE Pipeline
  <2>1. CASE \/ backup_in \/ backup_out \/ open_writer \/ open_reader \/ redirect_out
             \/ close_writer \/ redirect_in \/ close_reader
    BY <1>1, <2>1, BackupInFiles, BackupOutFiles, OpenWriterFiles, OpenReaderFiles,
       RedirectOutFiles, CloseWriterFiles, RedirectInFiles, CloseReaderFiles
  <2>2. CASE \/ restore_out \/ drop_out \/ restore_in \/ drop_in \/ close_read_fd
             \/ close_write_fd \/ unlink \/ prompt
    BY <1>1, <2>2, RestoreOutFiles, DropOutFiles, RestoreInFiles, DropInFiles, CloseReadFiles,
       CloseWriteFiles, UnlinkFiles, PromptFiles
  <2>3. QED
    BY <1>4, <2>1, <2>2 DEF Pipeline
<1>5. CASE start \/ build_spawn_argv \/ create \/ wait \/ returned \/ print(Sh)
  BY <1>1, <1>5, StartFiles, RunFiles, ReturnedFiles, CallFiles, NoneFacts DEF CommandCall
<1>6. CASE \E p \in Programs : ProgramStep(p) \/ read_terminal(p)
  BY <1>1, <1>6, CallFiles, EndingFiles, NoneFacts DEF ProgramStep, CommandCall
<1>7. QED
  BY <1>1, <1>2, <1>3, <1>4, <1>5, <1>6 DEF ShellNext, ShellStep

\* The descriptors of the shell are always in order: while a line is executed its
\* standard files are the terminal's, or the terminal's are saved.
THEOREM FilesInvariance == ShellSpec => []FilesInv
<1>1. ShellInit => FilesInv
  BY FilesInit
<1>2. FilesInv /\ [ShellNext]_svars => FilesInv'
  BY FilesNext
<1>3. QED
  BY <1>1, <1>2, PTL DEF ShellSpec

\* Whatever memory, slots and pipes a line lacked, and whoever was killed, the shell is
\* back at its prompt with the terminal on its standard files and nothing else open.
THEOREM StandardFilesComeBack == ShellSpec => []FilesRestored
<1>1. FilesInv => FilesRestored
  <2>1. SUFFICES ASSUME FilesInv, sh.pc = "prompt" PROVE tables[Sh] = StdTable
    BY DEF FilesRestored
  <2>2. Clean(sh) /\ Redirected(sh, tables[Sh]) /\ tables[Sh] \in [Fds -> Files \cup {None}]
    BY <2>1, NoneFacts DEF FilesInv, Phase, Tables
  <2>3. PICK T : T = tables[Sh]
    OBVIOUS
  <2>4. \A x \in Fds : T[x] = IF x = SHELL_STDIN THEN TtyIn
                              ELSE IF x = SHELL_STDOUT THEN TtyOut ELSE None
    <3>1. \A x \in Others : T[x] = None
      BY <2>2, <2>3, FdFacts, NoneFacts DEF Redirected, Clean
    <3>2. /\ T[BackupIn] = None /\ T[BackupOut] = None
          /\ T[SHELL_STDIN] = TtyIn /\ T[SHELL_STDOUT] = TtyOut
      BY <2>2, <2>3 DEF Redirected, Clean
    <3>3. QED
      BY <3>1, <3>2, FdFacts
  <2>5. StdTable \in [Fds -> Files \cup {None}]
    BY NoneFacts DEF StdTable, NoTable
  <2>6. \A x \in Fds : StdTable[x] = IF x = SHELL_STDIN THEN TtyIn
                                     ELSE IF x = SHELL_STDOUT THEN TtyOut ELSE None
    BY FdFacts DEF StdTable, NoTable
  <2>7. \A x \in Fds : T[x] = StdTable[x]
    BY <2>4, <2>6
  <2>8. QED
    BY <2>2, <2>3, <2>5, <2>7
<1>2. QED
  BY <1>1, FilesInvariance, PTL

-----------------------------------------------------------------------------
(* The argument vectors *)

\* The steps of scripts and programs.
Words == {"argv", "create", "wait", "print", "copy", "filter", "count", "kill", "loop", "free",
          "exit"}

\* An argv that is to be built is given to a process by the next step.
Follows(script) ==
    \A i \in 1 .. Len(script) : script[i] = "argv" => i < Len(script) /\ script[i + 1] = "create"

\* The program frees its argv before it ends.
Frees(script) ==
    \E i \in 1 .. Len(script) :
        script[i] = "free" /\ \A j \in 1 .. i - 1 : script[j] \notin {"free", "exit"}

NameOf(s) == IF s.side = "right" THEN s.right ELSE s.left

\* The shell has an argv only between build_spawn_argv and sys_create_process_ex.
ShArgs(s) ==
    /\ s.script \in Seq(Words) /\ Follows(s.script)
    /\ s.strings \in NoArgv .. MAX_STRINGS
    /\ s.script # <<>> => s.pc = "run"
    /\ s.strings # NoArgv =>
          /\ s.script # <<>> /\ Head(s.script) = "create"
          /\ s.strings \in checkLine(NameOf(s)).strings

\* g is a record of what a slot has of its program.
IsProg(g) == g \in [script : {g.script}, strings : {g.strings}, fg : {g.fg}, held : {g.held}]

ProgArgs(g) ==
    /\ IsProg(g)
    /\ g.script \in Seq(Words)
    /\ g.strings \in NoArgv .. MAX_STRINGS
    /\ g.strings # NoArgv => Frees(g.script)

IsProcs(P) ==
    /\ P = [p \in Slots |-> P[p]]
    /\ \A p \in Slots : P[p] \in [state : {P[p].state}, at : {P[p].at}]

IsProgs(G) ==
    /\ G = [p \in Slots |-> G[p]]
    /\ \A p \in Slots : ProgArgs(G[p])

\* Only slots in use hold an argv, and every block has an owner unless processes are killed.
ArgsInv ==
    /\ ShArgs(sh) /\ IsProgs(progs) /\ IsProcs(procs)
    /\ \A p \in Programs : procs[p].state = "FREE" => progs[p].strings = NoArgv
    /\ "kill" \notin may => heap = Owned

\* What each command of the table has: a program that frees the argv, if there is one.
IsCommand(c) ==
    /\ c.launch \in {"own", "user", "test", "loop"}
    /\ c.strings \subseteq NoArgv .. MAX_STRINGS
    /\ c.program \in Seq(Words)
    /\ c.strings = {NoArgv} \/ Frees(c.program)

\* A program that frees its arguments in its second step frees them before it exits,
LEMMA FreesSecond ==
    ASSUME NEW s \in Seq(Words), Len(s) >= 2, s[1] \notin {"free", "exit"}, s[2] = "free"
    PROVE  Frees(s)
<1>1. \A j \in 1 .. 2 - 1 : j = 1
  OBVIOUS
<1>2. 2 \in 1 .. Len(s) /\ s[2] = "free" /\ \A j \in 1 .. 2 - 1 : s[j] \notin {"free", "exit"}
  BY <1>1
<1>3. QED
  BY <1>2 DEF Frees

\* and so does one that frees them in its third.
LEMMA FreesThird ==
    ASSUME NEW s \in Seq(Words), Len(s) >= 3, s[1] \notin {"free", "exit"},
           s[2] \notin {"free", "exit"}, s[3] = "free"
    PROVE  Frees(s)
<1>1. \A j \in 1 .. 3 - 1 : j = 1 \/ j = 2
  OBVIOUS
<1>2. 3 \in 1 .. Len(s) /\ s[3] = "free" /\ \A j \in 1 .. 3 - 1 : s[j] \notin {"free", "exit"}
  BY <1>1
<1>3. QED
  BY <1>2 DEF Frees

\* The programs.
LEMMA ProgramFacts ==
    /\ Prints \in Seq(Words) /\ Frees(Prints)
    /\ cat_main \in Seq(Words) /\ Frees(cat_main)
    /\ filter_main \in Seq(Words) /\ Frees(filter_main)
    /\ wc_main \in Seq(Words) /\ Frees(wc_main)
    /\ kill_main \in Seq(Words) /\ Frees(kill_main)
    /\ test_process \in Seq(Words) /\ Frees(test_process)
    /\ endless_test \in Seq(Words) /\ Frees(endless_test)
    /\ loop_process \in Seq(Words)
<1>1. Prints \in Seq(Words) /\ Frees(Prints)
  <2>1. PICK s : s = <<"print", "free", "exit">>
    OBVIOUS
  <2>2. s \in Seq(Words) /\ Len(s) = 3
    BY <2>1 DEF Words
  <2>3. s[1] = "print" /\ s[2] = "free"
    BY <2>1
  <2>4. Frees(s)
    BY <2>2, <2>3, FreesSecond
  <2>5. QED
    BY <2>1, <2>2, <2>4 DEF Prints
<1>2. cat_main \in Seq(Words) /\ Frees(cat_main)
  <2>1. PICK s : s = <<"copy", "free", "exit">>
    OBVIOUS
  <2>2. s \in Seq(Words) /\ Len(s) = 3
    BY <2>1 DEF Words
  <2>3. s[1] = "copy" /\ s[2] = "free"
    BY <2>1
  <2>4. Frees(s)
    BY <2>2, <2>3, FreesSecond
  <2>5. QED
    BY <2>1, <2>2, <2>4 DEF cat_main
<1>3. filter_main \in Seq(Words) /\ Frees(filter_main)
  <2>1. PICK s : s = <<"filter", "free", "exit">>
    OBVIOUS
  <2>2. s \in Seq(Words) /\ Len(s) = 3
    BY <2>1 DEF Words
  <2>3. s[1] = "filter" /\ s[2] = "free"
    BY <2>1
  <2>4. Frees(s)
    BY <2>2, <2>3, FreesSecond
  <2>5. QED
    BY <2>1, <2>2, <2>4 DEF filter_main
<1>4. wc_main \in Seq(Words) /\ Frees(wc_main)
  <2>1. PICK s : s = <<"count", "print", "free", "exit">>
    OBVIOUS
  <2>2. s \in Seq(Words) /\ Len(s) = 4
    BY <2>1 DEF Words
  <2>3. s[1] = "count" /\ s[2] = "print" /\ s[3] = "free"
    BY <2>1
  <2>4. Frees(s)
    BY <2>2, <2>3, FreesThird
  <2>5. QED
    BY <2>1, <2>2, <2>4 DEF wc_main
<1>5. kill_main \in Seq(Words) /\ Frees(kill_main)
  <2>1. PICK s : s = <<"kill", "print", "free", "exit">>
    OBVIOUS
  <2>2. s \in Seq(Words) /\ Len(s) = 4
    BY <2>1 DEF Words
  <2>3. s[1] = "kill" /\ s[2] = "print" /\ s[3] = "free"
    BY <2>1
  <2>4. Frees(s)
    BY <2>2, <2>3, FreesThird
  <2>5. QED
    BY <2>1, <2>2, <2>4 DEF kill_main
<1>6. test_process \in Seq(Words) /\ Frees(test_process)
  <2>1. PICK s : s = <<"print", "free", "print", "exit">>
    OBVIOUS
  <2>2. s \in Seq(Words) /\ Len(s) = 4
    BY <2>1 DEF Words
  <2>3. s[1] = "print" /\ s[2] = "free"
    BY <2>1
  <2>4. Frees(s)
    BY <2>2, <2>3, FreesSecond
  <2>5. QED
    BY <2>1, <2>2, <2>4 DEF test_process
<1>7. endless_test \in Seq(Words) /\ Frees(endless_test)
  <2>1. PICK s : s = <<"print", "free", "loop", "print", "exit">>
    OBVIOUS
  <2>2. s \in Seq(Words) /\ Len(s) = 5
    BY <2>1 DEF Words
  <2>3. s[1] = "print" /\ s[2] = "free"
    BY <2>1
  <2>4. Frees(s)
    BY <2>2, <2>3, FreesSecond
  <2>5. QED
    BY <2>1, <2>2, <2>4 DEF endless_test
<1>8. loop_process \in Seq(Words)
  BY DEF loop_process, Words
<1>9. QED
  BY <1>1, <1>2, <1>3, <1>4, <1>5, <1>6, <1>7, <1>8

\* The table of commands.
LEMMA CommandFacts == ASSUME NEW name PROVE IsCommand(checkLine(name))
<1>1. ASSUME NEW launch \in {"own", "user", "test", "loop"}, NEW strings, NEW program,
             strings \subseteq NoArgv .. MAX_STRINGS,
             program \in Seq(Words), strings = {NoArgv} \/ Frees(program)
      PROVE  IsCommand(Command(launch, strings, program))
  BY <1>1 DEF Command, IsCommand
<1>2. /\ {1} \subseteq NoArgv .. MAX_STRINGS /\ {2} \subseteq NoArgv .. MAX_STRINGS
      /\ {3} \subseteq NoArgv .. MAX_STRINGS /\ {1, 2} \subseteq NoArgv .. MAX_STRINGS
      /\ {NoArgv} \subseteq NoArgv .. MAX_STRINGS /\ {NoArgv, 1} \subseteq NoArgv .. MAX_STRINGS
      /\ {NoArgv, 1, 2} \subseteq NoArgv .. MAX_STRINGS
  BY DEF NoArgv, MAX_STRINGS
<1>3. IsCommand(cmd_help) /\ IsCommand(cmd_ps) /\ IsCommand(cmd_mem)
  BY <1>1, <1>2, ProgramFacts DEF cmd_help, cmd_ps, cmd_mem, help_main, ps_main, mem_main
<1>4. IsCommand(cmd_nice) /\ IsCommand(cmd_block) /\ IsCommand(cmd_kill)
  BY <1>1, <1>2, ProgramFacts DEF cmd_nice, cmd_block, cmd_kill
<1>5. IsCommand(cmd_cat) /\ IsCommand(cmd_wc) /\ IsCommand(cmd_filter)
  BY <1>1, <1>2, ProgramFacts DEF cmd_cat, cmd_wc, cmd_filter
<1>6. IsCommand(cmd_test_mm) /\ IsCommand(cmd_test_processes) /\ IsCommand(cmd_test_priority)
  BY <1>1, <1>2, ProgramFacts DEF cmd_test_mm, cmd_test_processes, cmd_test_priority
<1>7. IsCommand(cmd_test_no_synchro) /\ IsCommand(cmd_test_synchro) /\ IsCommand(cmd_loop)
  BY <1>1, <1>2, ProgramFacts DEF cmd_test_no_synchro, cmd_test_synchro, cmd_loop
<1>8. IsCommand(cmd_echo) /\ IsCommand(cmd_time) /\ IsCommand(cmd_undefined)
  <2>1. <<>> \in Seq(Words)
    OBVIOUS
  <2>2. QED
    BY <1>1, <1>2, <2>1 DEF cmd_echo, cmd_time, cmd_undefined
<1>9. ASSUME name \in DOMAIN commands PROVE IsCommand(commands[name])
  BY <1>3, <1>4, <1>5, <1>6, <1>7, <1>8, <1>9 DEF commands
<1>10. QED
  BY <1>8, <1>9 DEF checkLine

\* The blocks of the argument vectors in S.
Held(S) == {b \in Slots \X (0 .. MAX_STRINGS) : b[2] < Blocks(S[b[1]])}

Argvs == [p \in Slots |-> Strings(p)]

\* The blocks with an owner are those of the vectors of all slots, the shell's included.
LEMMA OwnedIsHeld == Owned = Cardinality(Held(Argvs)) /\ Owned' = Cardinality(Held(Argvs'))
<1>1. OwnedBlocks = Held(Argvs)
  BY DEF OwnedBlocks, Held, Argvs
<1>2. OwnedBlocks' = Held(Argvs')
  BY DEF OwnedBlocks, Held, Argvs
<1>3. QED
  BY <1>1, <1>2 DEF Owned

\* One more argv.
LEMMA HeldMore ==
    ASSUME NEW S \in [Slots -> NoArgv .. MAX_STRINGS], NEW T \in [Slots -> NoArgv .. MAX_STRINGS],
           NEW p \in Slots, S[p] = NoArgv, \A q \in Slots \ {p} : T[q] = S[q]
    PROVE  /\ Cardinality(Held(S)) \in Nat /\ Cardinality(Held(T)) \in Nat
           /\ Cardinality(Held(T)) = Cardinality(Held(S)) + Blocks(T[p])
<1> DEFINE New == {p} \X (0 .. T[p])
<1>1. IsFiniteSet(Slots \X (0 .. MAX_STRINGS))
  <2>1. IsFiniteSet(Slots)
    BY PipeAssumption
  <2>2. IsFiniteSet(0 .. MAX_STRINGS)
    <3>1. PICK n, z : n = MAX_STRINGS /\ z = 0
      OBVIOUS
    <3>2. n \in Int /\ z \in Int
      BY <3>1 DEF MAX_STRINGS
    <3>3. IsFiniteSet(z .. n)
      BY <3>2, FS_Interval
    <3>4. QED
      BY <3>1, <3>3
  <2>3. QED
    BY <2>1, <2>2, FS_Product
<1>2. IsFiniteSet(Held(S)) /\ IsFiniteSet(Held(T))
  BY <1>1, FS_Subset DEF Held
<1>3. Cardinality(Held(S)) \in Nat /\ Cardinality(Held(T)) \in Nat
  BY <1>2, FS_CardinalityType
<1>4. IsFiniteSet(New) /\ Cardinality(New) = Blocks(T[p])
  <2>1. T[p] \in Int /\ T[p] >= -1
    BY DEF NoArgv, MAX_STRINGS
  <2>2. IsFiniteSet(0 .. T[p]) /\ Cardinality(0 .. T[p]) = T[p] + 1
    <3>1. PICK n, z : n = T[p] /\ z = 0
      OBVIOUS
    <3>2. n \in Int /\ z \in Int /\ n >= z - 1
      BY <2>1, <3>1
    <3>3. IsFiniteSet(z .. n) /\ Cardinality(z .. n) = IF z > n THEN 0 ELSE n - z + 1
      BY <3>2, FS_Interval
    <3>4. QED
      BY <3>1, <3>2, <3>3
  <2>3. IsFiniteSet({p}) /\ Cardinality({p}) = 1
    BY FS_Singleton
  <2>4. IsFiniteSet(New) /\ Cardinality(New) = 1 * (T[p] + 1)
    <3>1. PICK A, B, c : A = {p} /\ B = 0 .. T[p] /\ c = T[p] + 1
      OBVIOUS
    <3>2. IsFiniteSet(A) /\ IsFiniteSet(B) /\ Cardinality(A) = 1 /\ Cardinality(B) = c
      BY <2>2, <2>3, <3>1
    <3>3. IsFiniteSet(A \X B) /\ Cardinality(A \X B) = 1 * c
      BY <3>2, FS_Product
    <3>4. QED
      BY <3>1, <3>3
  <2>5. QED
    BY <2>1, <2>4 DEF Blocks
<1>5. Held(T) = Held(S) \cup New
  <2>1. \A q \in Slots, i \in 0 .. MAX_STRINGS : <<q, i>> \in Held(T) <=> i < T[q] + 1
    BY DEF Held, Blocks
  <2>2. \A q \in Slots, i \in 0 .. MAX_STRINGS : <<q, i>> \in Held(S) <=> i < S[q] + 1
    BY DEF Held, Blocks
  <2>3. \A q \in Slots, i \in 0 .. MAX_STRINGS :
            <<q, i>> \in Held(T) <=> <<q, i>> \in Held(S) \/ <<q, i>> \in New
    <3>1. TAKE q \in Slots, i \in 0 .. MAX_STRINGS
    <3>2. CASE q = p
      <4>1. ~(i < S[p] + 1)
        BY DEF NoArgv, MAX_STRINGS
      <4>2. i < T[p] + 1 <=> i \in 0 .. T[p]
        BY DEF NoArgv, MAX_STRINGS
      <4>3. QED
        BY <2>1, <2>2, <3>2, <4>1, <4>2
    <3>3. CASE q # p
      BY <2>1, <2>2, <3>3
    <3>4. QED
      BY <3>2, <3>3
  <2>4. New \subseteq Slots \X (0 .. MAX_STRINGS)
    <3>1. 0 .. T[p] \subseteq 0 .. MAX_STRINGS
      BY DEF NoArgv, MAX_STRINGS
    <3>2. QED
      BY <3>1
  <2>5. Held(S) \subseteq Slots \X (0 .. MAX_STRINGS) /\ Held(T) \subseteq Slots \X (0 .. MAX_STRINGS)
    BY DEF Held
  <2>6. QED
    BY <2>3, <2>4, <2>5
<1>6. Held(S) \cap New = {}
  <2>1. \A b \in Held(S) : b[1] # p
    BY DEF Held, Blocks, NoArgv, MAX_STRINGS
  <2>2. \A b \in New : b[1] = p
    OBVIOUS
  <2>3. QED
    BY <2>1, <2>2
<1>7. Cardinality(Held(T)) = Cardinality(Held(S)) + Cardinality(New) - 0
  <2>1. Cardinality({}) = 0
    BY FS_EmptySet
  <2>2. QED
    BY <1>2, <1>4, <1>5, <1>6, <2>1, FS_Union
<1>8. Blocks(T[p]) \in Int
  BY DEF Blocks, NoArgv, MAX_STRINGS
<1>9. QED
  BY <1>3, <1>4, <1>7, <1>8

\* The argv of one slot is another one.
LEMMA HeldChange ==
    ASSUME NEW S \in [Slots -> NoArgv .. MAX_STRINGS], NEW T \in [Slots -> NoArgv .. MAX_STRINGS],
           NEW p \in Slots, \A q \in Slots \ {p} : T[q] = S[q]
    PROVE  /\ Cardinality(Held(S)) \in Nat /\ Cardinality(Held(T)) \in Nat
           /\ Cardinality(Held(T)) = Cardinality(Held(S)) + Blocks(T[p]) - Blocks(S[p])
<1>1. PICK R : R = [q \in Slots |-> IF q = p THEN NoArgv ELSE S[q]]
  OBVIOUS
<1>2. NoArgv \in NoArgv .. MAX_STRINGS
  BY DEF NoArgv, MAX_STRINGS
<1>3. R \in [Slots -> NoArgv .. MAX_STRINGS] /\ R[p] = NoArgv /\ \A q \in Slots \ {p} : R[q] = S[q]
  BY <1>1, <1>2
<1>4. /\ Cardinality(Held(R)) \in Nat /\ Cardinality(Held(S)) \in Nat
      /\ Cardinality(Held(S)) = Cardinality(Held(R)) + Blocks(S[p])
  BY <1>3, HeldMore
<1>5. /\ Cardinality(Held(T)) \in Nat
      /\ Cardinality(Held(T)) = Cardinality(Held(R)) + Blocks(T[p])
  BY <1>3, HeldMore
<1>6. Blocks(S[p]) \in Int /\ Blocks(T[p]) \in Int
  BY DEF Blocks, NoArgv, MAX_STRINGS
<1>7. QED
  BY <1>4, <1>5, <1>6

\* The first step of a script is done.
LEMMA TailFacts ==
    ASSUME NEW s \in Seq(Words), s # <<>>
    PROVE  /\ Tail(s) \in Seq(Words) /\ Len(Tail(s)) = Len(s) - 1 /\ Len(s) >= 1 /\ Head(s) = s[1]
           /\ \A i \in 1 .. Len(Tail(s)) : Tail(s)[i] = s[i + 1]
           /\ Len(s) \in Nat
OBVIOUS

\* An argv is still followed by a process, and is so at once if it comes first.
LEMMA FollowsTail ==
    ASSUME NEW s \in Seq(Words), s # <<>>, Follows(s)
    PROVE  /\ Tail(s) \in Seq(Words) /\ Follows(Tail(s))
           /\ Head(s) = "argv" => Tail(s) # <<>> /\ Head(Tail(s)) = "create"
<1>1. PICK t : t = Tail(s)
  OBVIOUS
<1>2. /\ t \in Seq(Words) /\ Len(t) = Len(s) - 1 /\ Len(s) >= 1 /\ Head(s) = s[1]
      /\ \A i \in 1 .. Len(t) : t[i] = s[i + 1]
      /\ Len(s) \in Nat
  BY <1>1, TailFacts
<1>3. Follows(t)
  <2>1. SUFFICES ASSUME NEW i \in 1 .. Len(t), t[i] = "argv"
                 PROVE  i < Len(t) /\ t[i + 1] = "create"
    BY DEF Follows
  <2>2. i + 1 \in 1 .. Len(s) /\ s[i + 1] = "argv"
    BY <1>2, <2>1
  <2>3. i + 1 < Len(s) /\ s[(i + 1) + 1] = "create"
    BY <2>2 DEF Follows
  <2>4. i + 1 \in 1 .. Len(t)
    BY <1>2, <2>1, <2>3
  <2>5. t[i + 1] = s[(i + 1) + 1]
    BY <1>2, <2>4
  <2>6. QED
    BY <1>2, <2>1, <2>3, <2>5
<1>4. ASSUME Head(s) = "argv" PROVE t # <<>> /\ Head(t) = "create"
  <2>1. 1 \in 1 .. Len(s) /\ s[1] = "argv"
    BY <1>2, <1>4
  <2>2. 1 < Len(s) /\ s[1 + 1] = "create"
    BY <2>1 DEF Follows
  <2>3. Len(t) >= 1 /\ t[1] = "create"
    BY <1>2, <2>2
  <2>4. QED
    BY <1>2, <2>3
<1>5. QED
  BY <1>1, <1>2, <1>3, <1>4

\* A program that does something else first still frees its argv.
LEMMA FreesTail ==
    ASSUME NEW s \in Seq(Words), s # <<>>, Frees(s), Head(s) # "free"
    PROVE  Frees(Tail(s)) /\ Head(s) # "exit"
<1>1. PICK t : t = Tail(s)
  OBVIOUS
<1>2. /\ t \in Seq(Words) /\ Len(t) = Len(s) - 1 /\ Len(s) >= 1 /\ Head(s) = s[1]
      /\ \A i \in 1 .. Len(t) : t[i] = s[i + 1]
      /\ Len(s) \in Nat
  BY <1>1, TailFacts
<1>3. PICK i \in 1 .. Len(s) : s[i] = "free" /\ \A j \in 1 .. i - 1 : s[j] \notin {"free", "exit"}
  BY DEF Frees
<1>4. i # 1
  BY <1>2, <1>3
<1>5. i - 1 \in 1 .. Len(t) /\ 1 \in 1 .. i - 1
  BY <1>2, <1>3, <1>4
<1>6. t[i - 1] = "free"
  <2>1. t[i - 1] = s[(i - 1) + 1]
    BY <1>2, <1>5
  <2>2. QED
    BY <1>3, <2>1
<1>7. \A j \in 1 .. (i - 1) - 1 : t[j] \notin {"free", "exit"}
  <2>1. TAKE j \in 1 .. (i - 1) - 1
  <2>2. j \in 1 .. Len(t) /\ j + 1 \in 1 .. i - 1
    BY <1>2, <1>5, <2>1
  <2>3. t[j] = s[j + 1]
    BY <1>2, <2>2
  <2>4. QED
    BY <1>3, <2>2, <2>3
<1>8. Frees(t)
  BY <1>5, <1>6, <1>7 DEF Frees
<1>9. s[1] # "exit"
  BY <1>3, <1>5
<1>10. QED
  BY <1>1, <1>2, <1>8, <1>9

\* What a step makes of the processes: none of those outside S comes to its end.
Lives(P, Q, S) ==
    IsProcs(Q) /\ \A p \in Slots \ S : Q[p].state = "FREE" => P[p].state = "FREE"

\* To wake processes ends none.
LEMMA UnblockLives ==
    ASSUME NEW P, NEW Q, NEW S, NEW W, Lives(P, Q, S)
    PROVE  Lives(P, Unblock(Q, W), S)
<1>1. PICK R : R = Unblock(Q, W)
  OBVIOUS
<1>2. R = [p \in Slots |-> IF p \in W /\ Q[p].state = "BLOCKED"
                           THEN [Q[p] EXCEPT !.state = "READY"] ELSE Q[p]]
  BY <1>1 DEF Unblock
<1>3. \A p \in Slots : Q[p] \in [state : {Q[p].state}, at : {Q[p].at}]
  BY DEF Lives, IsProcs
<1>4. ASSUME NEW p \in Slots
      PROVE  /\ R[p] \in [state : {R[p].state}, at : {R[p].at}]
             /\ R[p].state = "FREE" => Q[p].state = "FREE"
  <2>1. R[p] = IF p \in W /\ Q[p].state = "BLOCKED" THEN [Q[p] EXCEPT !.state = "READY"] ELSE Q[p]
    BY <1>2
  <2>2. QED
    BY <1>3, <2>1
<1>5. R = [p \in Slots |-> R[p]]
  BY <1>2
<1>6. IsProcs(R)
  BY <1>4, <1>5 DEF IsProcs
<1>7. QED
  BY <1>1, <1>4, <1>6 DEF Lives

\* Other changes of one process.
LEMMA ChangeLives ==
    ASSUME NEW P, IsProcs(P), NEW p \in Slots
    PROVE  /\ Lives(P, P, {})
           /\ \A call : Lives(P, [P EXCEPT ![p] = [state |-> "BLOCKED", at |-> call]], {})
           /\ Lives(P, [P EXCEPT ![p].at = None], {})
           /\ Lives(P, [P EXCEPT ![p] = NoProc], {p})
           /\ Lives(P, [P EXCEPT ![p] = [NoProc EXCEPT !.state = "READY"]], {})
<1>1. P = [q \in Slots |-> P[q]] /\ \A q \in Slots : P[q] \in [state : {P[q].state}, at : {P[q].at}]
  BY DEF IsProcs
<1>2. ASSUME NEW r, NEW S, r \in [state : {r.state}, at : {r.at}],
             p \in S \/ r.state # "FREE" \/ r.state = P[p].state
      PROVE  Lives(P, [P EXCEPT ![p] = r], S)
  <2>1. PICK Q : Q = [P EXCEPT ![p] = r]
    OBVIOUS
  <2>2. Q = [q \in Slots |-> IF q = p THEN r ELSE P[q]]
    BY <1>1, <2>1
  <2>3. \A q \in Slots : Q[q] = IF q = p THEN r ELSE P[q]
    BY <2>2
  <2>4. Q = [q \in Slots |-> Q[q]]
    BY <2>2
  <2>5. IsProcs(Q)
    BY <1>1, <1>2, <2>3, <2>4 DEF IsProcs
  <2>6. \A q \in Slots \ S : Q[q].state = "FREE" => P[q].state = "FREE"
    BY <1>2, <2>3
  <2>7. QED
    BY <2>1, <2>5, <2>6 DEF Lives
<1>3. Lives(P, P, {})
  BY DEF Lives
<1>4. ASSUME NEW call
      PROVE  Lives(P, [P EXCEPT ![p] = [state |-> "BLOCKED", at |-> call]], {})
  BY <1>2
<1>5. Lives(P, [P EXCEPT ![p].at = None], {})
  <2>1. PICK r : r = [P[p] EXCEPT !.at = None]
    OBVIOUS
  <2>2. r \in [state : {r.state}, at : {r.at}] /\ r.state = P[p].state
    BY <1>1, <2>1
  <2>3. Lives(P, [P EXCEPT ![p] = r], {})
    BY <1>2, <2>2
  <2>4. [P EXCEPT ![p].at = None] = [P EXCEPT ![p] = r]
    BY <2>1
  <2>5. QED
    BY <2>3, <2>4
<1>6. Lives(P, [P EXCEPT ![p] = NoProc], {p})
  BY <1>2 DEF NoProc
<1>7. Lives(P, [P EXCEPT ![p] = [NoProc EXCEPT !.state = "READY"]], {})
  BY <1>2 DEF NoProc
<1>8. QED
  BY <1>3, <1>4, <1>5, <1>6, <1>7

\* The system calls on pipes end nobody.
LEMMA CallLives ==
    ASSUME IsProcs(procs), NEW p \in Slots,
           \/ \E fd : read(p, fd) \/ write(p, fd) \/ close(p, fd)
           \/ \E a, b : dup2(p, a, b) \/ pipe_open(p, a, b)
           \/ \E a \in Slots : proc_create(p, a)
           \/ \E name : pipe_unlink(p, name)
           \/ Resumes(p)
           \/ UNCHANGED procs
    PROVE  Lives(procs, procs', {})
<1>1. ASSUME NEW q, NEW n, kpipe_read(p, q, n) \/ kpipe_write(p, q, n)
      PROVE  Lives(procs, procs', {})
  <2>1. (\E W : Return(p, W)) \/ (\E call : Sleep(p, call))
    BY <1>1 DEF kpipe_read, kpipe_write
  <2>2. CASE \E W : Return(p, W)
    <3>1. PICK Q : Q = [procs EXCEPT ![p].at = None]
      OBVIOUS
    <3>2. Lives(procs, Q, {})
      BY <3>1, ChangeLives
    <3>3. PICK W : procs' = Unblock(Q, W)
      BY <2>2, <3>1, Zenon DEF Return
    <3>4. QED
      BY <3>2, <3>3, UnblockLives
  <2>3. CASE \E call : Sleep(p, call)
    BY <2>3, ChangeLives DEF Sleep
  <2>4. QED
    BY <2>1, <2>2, <2>3
<1>2. CASE \E fd : read(p, fd) \/ write(p, fd)
  BY <1>1, <1>2 DEF read, write
<1>3. CASE Resumes(p)
  BY <1>1, <1>3 DEF Resumes
<1>4. ASSUME NEW W, procs' = Unblock(procs, W)
      PROVE  Lives(procs, procs', {})
  BY <1>4, ChangeLives, UnblockLives
<1>5. CASE \E fd : close(p, fd)
  BY <1>4, <1>5 DEF close
<1>6. CASE \E a, b : dup2(p, a, b)
  BY <1>4, <1>6 DEF dup2
<1>7. CASE \E a, b : pipe_open(p, a, b)
  <2>1. UNCHANGED procs \/ \E W : procs' = Unblock(procs, W)
    BY <1>7 DEF pipe_open
  <2>2. QED
    BY <1>4, <2>1, ChangeLives
<1>8. CASE (\E name : pipe_unlink(p, name)) \/ UNCHANGED procs
  BY <1>8, ChangeLives DEF pipe_unlink
<1>9. CASE \E a \in Slots : proc_create(p, a)
  BY <1>9, ChangeLives DEF proc_create
<1>10. QED
  BY <1>2, <1>3, <1>5, <1>6, <1>7, <1>8, <1>9

\* The end of a process ends that one.
LEMMA EndLives ==
    ASSUME IsProcs(procs), NEW p \in Slots, End(p)
    PROVE  Lives(procs, procs', {p})
<1>1. PICK W : procs' = Unblock([procs EXCEPT ![p] = NoProc], W)
  BY DEF End
<1>2. QED
  BY <1>1, ChangeLives, UnblockLives

\* What a step of a program that keeps its argv makes of its slot.
Kept(g, h) ==
    /\ IsProg(h) /\ h.strings = g.strings
    /\ \/ h.script = g.script
       \/ g.script # <<>> /\ Head(g.script) # "free" /\ h.script = Tail(g.script)

\* A program that keeps its vector and has taken a step other than free still frees it.
LEMMA KeptArgs == ASSUME NEW g, NEW h, ProgArgs(g), Kept(g, h) PROVE ProgArgs(h)
<1>1. CASE h.script = g.script
  BY <1>1 DEF ProgArgs, Kept
<1>2. CASE g.script # <<>> /\ Head(g.script) # "free" /\ h.script = Tail(g.script)
  <2>1. g.script \in Seq(Words) /\ Tail(g.script) \in Seq(Words)
    BY <1>2, TailFacts DEF ProgArgs
  <2>2. g.strings # NoArgv => Frees(Tail(g.script))
    BY <1>2, <2>1, FreesTail DEF ProgArgs
  <2>3. QED
    BY <1>2, <2>1, <2>2 DEF ProgArgs, Kept
<1>3. QED
  BY <1>1, <1>2 DEF Kept

\* Slot p of G has the program h.
Put(G, p, h) == [G EXCEPT ![p] = h]

\* Such a step of one program.
LEMMA KeptSlots ==
    ASSUME NEW G, IsProgs(G), NEW p \in Slots, NEW h, Kept(G[p], h), NEW H, H = Put(G, p, h)
    PROVE  IsProgs(H) /\ \A q \in Slots : H[q].strings = G[q].strings
<1>1. G = [q \in Slots |-> G[q]] /\ \A q \in Slots : ProgArgs(G[q])
  BY DEF IsProgs
<1>2. H = [q \in Slots |-> IF q = p THEN h ELSE G[q]]
  BY <1>1 DEF Put
<1>3. \A q \in Slots : H[q] = IF q = p THEN h ELSE G[q]
  BY <1>2
<1>4. ProgArgs(h) /\ h.strings = G[p].strings
  BY <1>1, KeptArgs DEF Kept
<1>5. H = [q \in Slots |-> H[q]] /\ \A q \in Slots : ProgArgs(H[q])
  BY <1>1, <1>2, <1>3, <1>4
<1>6. \A q \in Slots : H[q].strings = G[q].strings
  BY <1>3, <1>4
<1>7. QED
  BY <1>5, <1>6 DEF IsProgs

\* A step that gives nobody an argv, and after which every block has its owner again.
LEMMA ArgsStep ==
    ASSUME ArgsInv, ShArgs(sh'), IsProgs(progs'), NEW S, Lives(procs, procs', S),
           \A q \in Programs : \/ progs'[q].strings = NoArgv
                               \/ q \notin S /\ progs'[q].strings = progs[q].strings,
           "kill" \notin may' => heap' = Owned'
    PROVE  ArgsInv'
<1>1. \A p \in Programs : procs'[p].state = "FREE" => progs'[p].strings = NoArgv
  BY DEF ArgsInv, Lives, Programs
<1>2. IsProcs(procs')
  BY DEF Lives
<1>3. ShArgs(sh)' /\ IsProgs(progs)' /\ IsProcs(procs)'
  BY <1>2 DEF ShArgs, IsProgs, ProgArgs, IsProg, IsProcs
<1>4. QED
  BY <1>1, <1>3 DEF ArgsInv

\* A step that moves no argv.
LEMMA SameArgs ==
    ASSUME ArgsInv, ShArgs(sh'), sh'.strings = sh.strings,
           IsProgs(progs'), \A q \in Slots : progs'[q].strings = progs[q].strings,
           NEW S, Lives(procs, procs', S), \A q \in S \cap Programs : progs'[q].strings = NoArgv,
           "kill" \notin may => heap' = heap, UNCHANGED may
    PROVE  ArgsInv'
<1>1. Argvs' = Argvs
  <2>1. \A q \in Slots : Strings(q)' = Strings(q)
    BY DEF Strings
  <2>2. QED
    BY <2>1 DEF Argvs
<1>2. Owned' = Owned
  BY <1>1, OwnedIsHeld
<1>3. "kill" \notin may' => heap' = Owned'
  BY <1>2 DEF ArgsInv
<1>4. \A q \in Programs : \/ progs'[q].strings = NoArgv
                          \/ q \notin S /\ progs'[q].strings = progs[q].strings
  BY DEF Programs
<1>5. QED
  BY <1>3, <1>4, ArgsStep

\* The argv of each slot.
LEMMA ArgvsType ==
    ASSUME NEW s, NEW G, ShArgs(s), IsProgs(G)
    PROVE  [p \in Slots |-> IF p = Sh THEN s.strings ELSE G[p].strings]
              \in [Slots -> NoArgv .. MAX_STRINGS]
BY DEF ShArgs, IsProgs, ProgArgs

\* The argv of one slot is another one, or none.
LEMMA ChangeArgs ==
    ASSUME ArgsInv, ShArgs(sh'), IsProgs(progs'), Lives(procs, procs', {}), NEW p \in Slots,
           \A q \in Programs : progs'[q].strings \in {progs[q].strings, NoArgv},
           \A q \in Slots \ {p} : Strings(q)' = Strings(q),
           "kill" \notin may => heap' = heap + Blocks(Strings(p)') - Blocks(Strings(p)),
           UNCHANGED may
    PROVE  ArgsInv'
<1>1. PICK A, B : A = Argvs /\ B = Argvs'
  OBVIOUS
<1>2. A \in [Slots -> NoArgv .. MAX_STRINGS]
  BY <1>1, ArgvsType DEF Argvs, Strings, ArgsInv
<1>3. B \in [Slots -> NoArgv .. MAX_STRINGS]
  BY <1>1, ArgvsType DEF Argvs, Strings
<1>4. A[p] = Strings(p) /\ B[p] = Strings(p)' /\ \A q \in Slots \ {p} : B[q] = A[q]
  BY <1>1 DEF Argvs
<1>5. /\ Cardinality(Held(A)) \in Nat /\ Cardinality(Held(B)) \in Nat
      /\ Cardinality(Held(B)) = Cardinality(Held(A)) + Blocks(B[p]) - Blocks(A[p])
  BY <1>2, <1>3, <1>4, HeldChange
<1>6. "kill" \notin may' => heap' = Owned'
  <2>1. Owned = Cardinality(Held(A)) /\ Owned' = Cardinality(Held(B))
    BY <1>1, OwnedIsHeld
  <2>2. "kill" \notin may => heap = Owned
    BY DEF ArgsInv
  <2>3. QED
    BY <1>4, <1>5, <2>1, <2>2
<1>7. QED
  <2>1. PICK S : S = {}
    OBVIOUS
  <2>2. \A q \in Programs : \/ progs'[q].strings = NoArgv
                            \/ q \notin S /\ progs'[q].strings = progs[q].strings
    BY <2>1
  <2>3. Lives(procs, procs', S)
    BY <2>1
  <2>4. QED
    BY <1>6, <2>2, <2>3, ArgsStep

\* The count of what is owned is a number.
LEMMA ArgsHeap ==
    ASSUME ArgsInv
    PROVE  Owned \in Nat
<1>1. PICK A : A = Argvs
  OBVIOUS
<1>2. A \in [Slots -> NoArgv .. MAX_STRINGS]
  BY <1>1, ArgvsType DEF Argvs, Strings, ArgsInv
<1>3. PICK p : p \in Slots
  BY NoneFacts
<1>4. Cardinality(Held(A)) \in Nat
  BY <1>2, <1>3, HeldChange
<1>5. QED
  BY <1>1, <1>4, OwnedIsHeld

\* The shell is through with a step, or only told that its child has ended.
LEMMA QuietSh ==
    ASSUME IsSh(sh), ShArgs(sh),
           \/ UNCHANGED sh
           \/ \E c : sh' = [sh EXCEPT !.child = c]
           \/ sh.script # <<>> /\ Head(sh.script) # "create" /\ sh' = [sh EXCEPT !.script = Tail(@)]
    PROVE  ShArgs(sh') /\ sh'.strings = sh.strings
<1>1. PICK s, t : s = sh /\ t = sh'
  OBVIOUS
<1>2. CASE UNCHANGED sh
  BY <1>2
<1>3. CASE \E c : t = [s EXCEPT !.child = c]
  <2>1. /\ t.script = s.script /\ t.strings = s.strings /\ t.pc = s.pc
        /\ t.side = s.side /\ t.left = s.left /\ t.right = s.right
    BY <1>1, <1>3 DEF IsSh
  <2>2. QED
    BY <1>1, <2>1 DEF ShArgs, NameOf
<1>4. CASE s.script # <<>> /\ Head(s.script) # "create" /\ t = [s EXCEPT !.script = Tail(s.script)]
  <2>1. t.script = Tail(s.script) /\ t.strings = s.strings /\ t.pc = s.pc
    BY <1>1, <1>4 DEF IsSh
  <2>2. s.strings = NoArgv /\ s.pc = "run"
    BY <1>1, <1>4 DEF ShArgs
  <2>3. Tail(s.script) \in Seq(Words) /\ Follows(Tail(s.script))
    BY <1>1, <1>4, FollowsTail DEF ShArgs
  <2>4. ShArgs(t)
    BY <1>1, <2>1, <2>2, <2>3 DEF ShArgs
  <2>5. QED
    BY <1>1, <2>1, <2>4
<1>5. QED
  BY <1>1, <1>2, <1>3, <1>4

\* A script that is known step by step.
LEMMA FollowsOne ==
    ASSUME NEW s \in Seq(Words), NEW k \in Nat, k < Len(s), s[k + 1] = "create",
           \A i \in 1 .. Len(s) : s[i] = "argv" => i = k
    PROVE  Follows(s)
BY DEF Follows

\* A script that builds no argument vector needs no step after it.
LEMMA FollowsNone ==
    ASSUME NEW s \in Seq(Words), \A i \in 1 .. Len(s) : s[i] # "argv"
    PROVE  Follows(s)
BY DEF Follows

\* A script of two parts.
LEMMA FollowsConcat ==
    ASSUME NEW s \in Seq(Words), NEW t \in Seq(Words), Follows(s), Follows(t)
    PROVE  s \o t \in Seq(Words) /\ Follows(s \o t)
<1>1. PICK w : w = s \o t
  OBVIOUS
<1>2. /\ w \in Seq(Words) /\ Len(w) = Len(s) + Len(t) /\ Len(s) \in Nat /\ Len(t) \in Nat
      /\ \A i \in 1 .. Len(s) + Len(t) : w[i] = IF i <= Len(s) THEN s[i] ELSE t[i - Len(s)]
  BY <1>1, ConcatProperties
<1>3. SUFFICES ASSUME NEW i \in 1 .. Len(w), w[i] = "argv"
               PROVE  i < Len(w) /\ w[i + 1] = "create"
  BY <1>1, <1>2 DEF Follows
<1>4. CASE i <= Len(s)
  <2>1. i \in 1 .. Len(s) /\ s[i] = "argv"
    BY <1>2, <1>3, <1>4
  <2>2. i < Len(s) /\ s[i + 1] = "create"
    BY <2>1 DEF Follows
  <2>3. i + 1 \in 1 .. Len(s) + Len(t) /\ i + 1 <= Len(s)
    BY <1>2, <2>1, <2>2
  <2>4. QED
    BY <1>2, <2>2, <2>3
<1>5. CASE i > Len(s)
  <2>1. i - Len(s) \in 1 .. Len(t) /\ t[i - Len(s)] = "argv"
    BY <1>2, <1>3, <1>5
  <2>2. i - Len(s) < Len(t) /\ t[(i - Len(s)) + 1] = "create"
    BY <2>1 DEF Follows
  <2>3. /\ i + 1 \in 1 .. Len(s) + Len(t) /\ ~(i + 1 <= Len(s))
        /\ (i + 1) - Len(s) = (i - Len(s)) + 1
    BY <1>2, <1>3, <1>5, <2>2
  <2>4. QED
    BY <1>2, <2>2, <2>3
<1>6. QED
  BY <1>2, <1>3, <1>4, <1>5

\* The scripts of the shell.
LEMMA ScriptFacts ==
    ASSUME NEW launch \in {"own", "user", "pipeline", "test", "loop"}, NEW bg
    PROVE  /\ Script(launch, bg) \in Seq(Words) /\ Follows(Script(launch, bg))
           /\ <<"print">> \in Seq(Words) /\ Follows(<<"print">>)
           /\ <<>> \in Seq(Words) /\ Follows(<<>>)
<1>1. <<"argv", "create", "print">> \in Seq(Words) /\ Follows(<<"argv", "create", "print">>)
  <2>1. PICK s : s = <<"argv", "create", "print">>
    OBVIOUS
  <2>2. s \in Seq(Words) /\ Len(s) = 3
    BY <2>1 DEF Words
  <2>3. s[1] = "argv" /\ s[2] = "create" /\ s[3] = "print"
    BY <2>1
  <2>4. \A i \in 1 .. 3 : i = 1 \/ i = 2 \/ i = 3
    OBVIOUS
  <2>5. \A i \in 1 .. Len(s) : s[i] = "argv" => i = 1
    BY <2>2, <2>3, <2>4
  <2>6. 1 \in Nat /\ 1 < Len(s) /\ s[1 + 1] = "create"
    BY <2>2, <2>3
  <2>7. Follows(s)
    BY <2>2, <2>5, <2>6, FollowsOne
  <2>8. QED
    BY <2>1, <2>2, <2>7
<1>2. <<"argv", "create", "wait">> \in Seq(Words) /\ Follows(<<"argv", "create", "wait">>)
  <2>1. PICK s : s = <<"argv", "create", "wait">>
    OBVIOUS
  <2>2. s \in Seq(Words) /\ Len(s) = 3
    BY <2>1 DEF Words
  <2>3. s[1] = "argv" /\ s[2] = "create" /\ s[3] = "wait"
    BY <2>1
  <2>4. \A i \in 1 .. 3 : i = 1 \/ i = 2 \/ i = 3
    OBVIOUS
  <2>5. \A i \in 1 .. Len(s) : s[i] = "argv" => i = 1
    BY <2>2, <2>3, <2>4
  <2>6. 1 \in Nat /\ 1 < Len(s) /\ s[1 + 1] = "create"
    BY <2>2, <2>3
  <2>7. Follows(s)
    BY <2>2, <2>5, <2>6, FollowsOne
  <2>8. QED
    BY <2>1, <2>2, <2>7
<1>3. <<"print", "argv", "create", "print">> \in Seq(Words) /\ Follows(<<"print", "argv", "create", "print">>)
  <2>1. PICK s : s = <<"print", "argv", "create", "print">>
    OBVIOUS
  <2>2. s \in Seq(Words) /\ Len(s) = 4
    BY <2>1 DEF Words
  <2>3. s[1] = "print" /\ s[2] = "argv" /\ s[3] = "create" /\ s[4] = "print"
    BY <2>1
  <2>4. \A i \in 1 .. 4 : i = 1 \/ i = 2 \/ i = 3 \/ i = 4
    OBVIOUS
  <2>5. \A i \in 1 .. Len(s) : s[i] = "argv" => i = 2
    BY <2>2, <2>3, <2>4
  <2>6. 2 \in Nat /\ 2 < Len(s) /\ s[2 + 1] = "create"
    BY <2>2, <2>3
  <2>7. Follows(s)
    BY <2>2, <2>5, <2>6, FollowsOne
  <2>8. QED
    BY <2>1, <2>2, <2>7
<1>4. <<"create", "print">> \in Seq(Words) /\ Follows(<<"create", "print">>)
  <2>1. PICK s : s = <<"create", "print">>
    OBVIOUS
  <2>2. s \in Seq(Words) /\ Len(s) = 2
    BY <2>1 DEF Words
  <2>3. s[1] = "create" /\ s[2] = "print"
    BY <2>1
  <2>4. \A i \in 1 .. 2 : i = 1 \/ i = 2
    OBVIOUS
  <2>5. \A i \in 1 .. Len(s) : s[i] # "argv"
    BY <2>2, <2>3, <2>4
  <2>6. Follows(s)
    BY <2>2, <2>5, FollowsNone
  <2>7. QED
    BY <2>1, <2>2, <2>6
<1>5. <<"wait", "print">> \in Seq(Words) /\ Follows(<<"wait", "print">>)
  <2>1. PICK s : s = <<"wait", "print">>
    OBVIOUS
  <2>2. s \in Seq(Words) /\ Len(s) = 2
    BY <2>1 DEF Words
  <2>3. s[1] = "wait" /\ s[2] = "print"
    BY <2>1
  <2>4. \A i \in 1 .. 2 : i = 1 \/ i = 2
    OBVIOUS
  <2>5. \A i \in 1 .. Len(s) : s[i] # "argv"
    BY <2>2, <2>3, <2>4
  <2>6. Follows(s)
    BY <2>2, <2>5, FollowsNone
  <2>7. QED
    BY <2>1, <2>2, <2>6
<1>6. <<"print">> \in Seq(Words) /\ Follows(<<"print">>)
  <2>1. PICK s : s = <<"print">>
    OBVIOUS
  <2>2. s \in Seq(Words) /\ Len(s) = 1
    BY <2>1 DEF Words
  <2>3. s[1] = "print"
    BY <2>1
  <2>4. \A i \in 1 .. 1 : i = 1
    OBVIOUS
  <2>5. \A i \in 1 .. Len(s) : s[i] # "argv"
    BY <2>2, <2>3, <2>4
  <2>6. Follows(s)
    BY <2>2, <2>5, FollowsNone
  <2>7. QED
    BY <2>1, <2>2, <2>6
<1>7. <<>> \in Seq(Words) /\ Follows(<<>>)
  BY DEF Follows
<1>8. CASE launch = "own"
  BY <1>6, <1>7, <1>8 DEF Script
<1>9. CASE launch = "user"
  <2>1. Script(launch, bg) = <<"argv", "create", IF bg THEN "print" ELSE "wait">>
    BY <1>9 DEF Script
  <2>2. CASE bg
    BY <1>1, <1>6, <1>7, <2>1, <2>2
  <2>3. CASE ~bg
    BY <1>2, <1>6, <1>7, <2>1, <2>3
  <2>4. QED
    BY <2>2, <2>3
<1>10. CASE launch = "pipeline"
  BY <1>2, <1>6, <1>7, <1>10 DEF Script
<1>11. PICK u : u = IF bg THEN <<>> ELSE <<"wait", "print">>
  OBVIOUS
<1>12. u \in Seq(Words) /\ Follows(u)
  BY <1>5, <1>7, <1>11
<1>13. CASE launch = "test"
  <2>1. Script(launch, bg) = <<"print", "argv", "create", "print">> \o u
    BY <1>11, <1>13 DEF Script
  <2>2. QED
    BY <1>3, <1>6, <1>7, <1>12, <2>1, FollowsConcat
<1>14. CASE launch = "loop"
  <2>1. Script(launch, bg) = <<"create", "print">> \o u
    BY <1>11, <1>14 DEF Script
  <2>2. QED
    BY <1>4, <1>6, <1>7, <1>12, <2>1, FollowsConcat
<1>15. QED
  BY <1>8, <1>9, <1>10, <1>13, <1>14

\* A step of the shell itself outside of a command.
LEMMA OutsideArgs ==
    ASSUME FilesInv, ArgsInv, Pipeline \/ newLine \/ returned
    PROVE  ArgsInv'
<1>1. IsSh(sh) /\ IsProcs(procs) /\ IsProgs(progs)
  BY DEF FilesInv, ArgsInv
<1>2. sh.script = <<>> /\ sh.strings = NoArgv
  <2>1. sh.pc # "run" \/ sh.script = <<>>
    BY DEF Pipeline, newLine, returned, backup_in, backup_out, open_writer, open_reader,
           redirect_out, close_writer, restore_out, drop_out, redirect_in, close_reader,
           restore_in, drop_in, close_read_fd, close_write_fd, unlink, prompt, Restored, EndsClosed
  <2>2. QED
    BY <2>1 DEF ArgsInv, ShArgs
<1>3. sh'.script = <<>> /\ sh'.strings = NoArgv
  <2>1. ASSUME Fail PROVE sh'.script = <<>> /\ sh'.strings = NoArgv
    <3>1. PICK failed : failed = -1
      OBVIOUS
    <3>2. sh' = [sh EXCEPT !.status = failed, !.pc = "cleanup"]
      BY <2>1, <3>1 DEF Fail
    <3>3. QED
      BY <1>1, <1>2, <3>2 DEF IsSh
  <2>2. CASE backup_in \/ backup_out \/ redirect_out \/ close_writer \/ redirect_in \/ close_reader
    BY <1>1, <1>2, <2>2 DEF IsSh, Become, Goto, backup_in, backup_out, redirect_out, close_writer,
                            redirect_in, close_reader
  <2>3. CASE restore_out \/ restore_in \/ drop_in \/ close_read_fd \/ close_write_fd \/ unlink
    BY <1>1, <1>2, <2>3 DEF IsSh, Become, Goto, restore_out, restore_in, drop_in, close_read_fd,
                            close_write_fd, unlink
  <2>4. CASE open_writer
    BY <1>1, <1>2, <2>1, <2>4 DEF IsSh, Become, open_writer, no_pipe, no_file
  <2>5. CASE open_reader
    BY <1>1, <1>2, <2>1, <2>5 DEF IsSh, Become, open_reader, no_file
  <2>6. CASE drop_out \/ newLine \/ returned
    BY <1>1, <1>2, <2>6 DEF IsSh, Become, Goto, drop_out, newLine, returned
  <2>7. CASE prompt
    BY <2>7 DEF prompt, Become, AtPrompt
  <2>8. QED
    BY <2>2, <2>3, <2>4, <2>5, <2>6, <2>7 DEF Pipeline
<1>4. UNCHANGED <<progs, heap, may>>
  <2>1. UNCHANGED <<progs, heap>>
    BY DEF Keep, Pipeline, newLine, returned, backup_in, backup_out, open_writer, open_reader,
           redirect_out, close_writer, restore_out, drop_out, redirect_in, close_reader,
           restore_in, drop_in, close_read_fd, close_write_fd, unlink, prompt
  <2>2. UNCHANGED may
    BY DEF vars, Pipeline, newLine, returned, backup_in, backup_out, open_writer, open_reader,
           redirect_out, close_writer, restore_out, drop_out, redirect_in, close_reader,
           restore_in, drop_in, close_read_fd, close_write_fd, unlink, prompt, dup2, close,
           pipe_unlink, open, pipe_open, no_pipe, no_file, NoBytes
  <2>3. QED
    BY <2>1, <2>2
<1>5. Lives(procs, procs', {})
  <2>1. \/ \E fd : close(Sh, fd)
        \/ \E a, b : dup2(Sh, a, b) \/ pipe_open(Sh, a, b)
        \/ \E name : pipe_unlink(Sh, name)
        \/ UNCHANGED procs
    BY DEF vars, Pipeline, newLine, returned, backup_in, backup_out, open_writer, open_reader,
           redirect_out, close_writer, restore_out, drop_out, redirect_in, close_reader,
           restore_in, drop_in, close_read_fd, close_write_fd, unlink, prompt, open, no_pipe, no_file
  <2>2. Sh \in Slots
    BY NoneFacts
  <2>3. QED
    BY <1>1, <2>1, <2>2, CallLives
<1>6. ShArgs(sh')
  BY <1>3, ScriptFacts DEF ShArgs, NoArgv, MAX_STRINGS
<1>7. IsProgs(progs') /\ \A q \in Slots : progs'[q].strings = progs[q].strings
  BY <1>1, <1>4
<1>8. QED
  BY <1>2, <1>3, <1>4, <1>5, <1>6, <1>7, SameArgs

\* A command starts.
LEMMA StartArgs ==
    ASSUME FilesInv, ArgsInv, start
    PROVE  ArgsInv'
<1>1. IsSh(sh) /\ IsProcs(procs) /\ IsProgs(progs)
  BY DEF FilesInv, ArgsInv
<1>2. sh.strings = NoArgv
  BY DEF ArgsInv, ShArgs, start
<1>3. PICK script, status :
          script \in Seq(Words) /\ Follows(script) /\ sh' = [sh EXCEPT !.pc = "run", !.script = script, !.status = status]
  <2>1. Launch \in {"own", "user", "pipeline", "test", "loop"}
    <3>1. checkLine(Name).launch \in {"own", "user", "test", "loop"}
      BY CommandFacts DEF IsCommand
    <3>2. QED
      BY <3>1 DEF Launch
  <2>2. PICK c : c = (IF sh.side = "alone" \/ Name \in Pipeable THEN Script(Launch, sh.bg)
                      ELSE <<"print">>)
    OBVIOUS
  <2>3. c \in Seq(Words) /\ Follows(c)
    BY <2>1, <2>2, ScriptFacts
  <2>4. PICK status : status = IF sh.side = "alone" \/ Name \in Pipeable THEN 0 ELSE -1
    OBVIOUS
  <2>5. sh' = [sh EXCEPT !.pc = "run", !.script = c, !.status = status]
    BY <2>2, <2>4 DEF start, Become
  <2>6. QED
    BY <2>3, <2>5
<1>4. sh'.pc = "run" /\ sh'.script = script /\ sh'.strings = NoArgv
  BY <1>1, <1>2, <1>3 DEF IsSh
<1>5. ShArgs(sh')
  BY <1>3, <1>4 DEF ShArgs, NoArgv, MAX_STRINGS
<1>6. UNCHANGED <<procs, progs, heap, may>>
  BY DEF start, Keep, vars
<1>7. Lives(procs, procs', {})
  BY <1>1, <1>6, CallLives, NoneFacts
<1>8. QED
  BY <1>1, <1>2, <1>4, <1>5, <1>6, <1>7, SameArgs

\* A command gives up: the argv is gone.
LEMMA GiveUpSh ==
    ASSUME IsSh(sh), ShArgs(sh), sh.pc = "run", GiveUp
    PROVE  ShArgs(sh') /\ sh'.strings = NoArgv
<1>1. PICK s, t : s = sh /\ t = sh'
  OBVIOUS
<1>2. PICK status : status = IF Launch = "pipeline" THEN -1 ELSE 0
  OBVIOUS
<1>3. t = [s EXCEPT !.script = <<"print">>, !.strings = NoArgv, !.status = status]
  BY <1>1, <1>2 DEF GiveUp, Become
<1>4. t.script = <<"print">> /\ t.strings = NoArgv /\ t.pc = "run"
  BY <1>1, <1>3 DEF IsSh
<1>5. <<"print">> \in Seq(Words) /\ Follows(<<"print">>)
  BY ScriptFacts
<1>6. ShArgs(t)
  BY <1>4, <1>5 DEF ShArgs, NoArgv, MAX_STRINGS
<1>7. QED
  BY <1>1, <1>4, <1>6

\* The argv is built.
LEMMA BuildArgs ==
    ASSUME FilesInv, ArgsInv, build_spawn_argv
    PROVE  ArgsInv'
<1>1. IsSh(sh) /\ ShArgs(sh) /\ IsProcs(procs) /\ IsProgs(progs) /\ Sh \in Slots
  BY NoneFacts DEF FilesInv, ArgsInv
<1>2. sh.script # <<>> /\ Head(sh.script) = "argv"
  BY DEF build_spawn_argv, Does, Step
<1>3. sh.pc = "run" /\ sh.strings = NoArgv
  BY <1>1, <1>2 DEF ShArgs
<1>4. UNCHANGED <<procs, progs, may>>
  BY DEF build_spawn_argv, vars
<1>5. Lives(procs, procs', {})
  BY <1>1, <1>4, CallLives
<1>6. \A q \in Slots \ {Sh} : Strings(q)' = Strings(q)
  BY <1>4 DEF Strings
<1>7. /\ IsProgs(progs') /\ \A q \in Slots : progs'[q].strings = progs[q].strings
      /\ Strings(Sh) = NoArgv /\ Strings(Sh)' = sh'.strings
  BY <1>1, <1>3, <1>4 DEF Strings
<1>8. CASE \E strings \in checkLine(Name).strings :
              /\ Become([sh EXCEPT !.script = Tail(@), !.strings = strings])
              /\ heap' = heap + Blocks(strings)
  <2>1. PICK strings \in checkLine(Name).strings :
              /\ Become([sh EXCEPT !.script = Tail(@), !.strings = strings])
              /\ heap' = heap + Blocks(strings)
    BY <1>8
  <2>2. PICK s, t : s = sh /\ t = sh'
    OBVIOUS
  <2>3. t = [s EXCEPT !.script = Tail(s.script), !.strings = strings]
    BY <2>1, <2>2 DEF Become
  <2>4. /\ t.script = Tail(s.script) /\ t.strings = strings /\ t.pc = "run"
        /\ t.side = s.side /\ t.left = s.left /\ t.right = s.right
    BY <1>1, <1>3, <2>2, <2>3 DEF IsSh
  <2>5. strings \in NoArgv .. MAX_STRINGS
    BY <2>1, CommandFacts DEF IsCommand
  <2>6. /\ Tail(s.script) \in Seq(Words) /\ Follows(Tail(s.script))
        /\ Tail(s.script) # <<>> /\ Head(Tail(s.script)) = "create"
    BY <1>1, <1>2, <2>2, FollowsTail DEF ShArgs
  <2>7. NameOf(t) = Name
    BY <2>2, <2>4 DEF NameOf, Name
  <2>8. ShArgs(t)
    BY <2>1, <2>4, <2>5, <2>6, <2>7 DEF ShArgs
  <2>9. "kill" \notin may => heap' = heap + Blocks(Strings(Sh)') - Blocks(Strings(Sh))
    <3>1. Blocks(NoArgv) = 0 /\ Blocks(strings) \in Int
      BY <2>5 DEF Blocks, NoArgv, MAX_STRINGS
    <3>2. "kill" \notin may => heap \in Int
      <4>1. Owned \in Nat
        BY ArgsHeap
      <4>2. QED
        BY <4>1 DEF ArgsInv
    <3>3. QED
      BY <1>7, <2>1, <2>2, <2>4, <3>1, <3>2
  <2>10. QED
    BY <1>1, <1>4, <1>5, <1>6, <1>7, <2>2, <2>8, <2>9, ChangeArgs
<1>9. CASE \E strings \in checkLine(Name).strings :
              /\ \E filled \in 0 .. strings - 1 :
                    heap' = heap + Blocks(filled) - free_partial_args(filled)
              /\ GiveUp
  <2>1. ShArgs(sh') /\ sh'.strings = NoArgv
    BY <1>1, <1>3, <1>9, GiveUpSh
  <2>2. PICK filled \in Int : heap' = heap + Blocks(filled) - free_partial_args(filled)
    BY <1>9
  <2>3. "kill" \notin may => heap' = heap
    <3>1. "kill" \notin may => heap \in Int
      BY ArgsHeap DEF ArgsInv
    <3>2. Blocks(filled) = filled + 1 /\ free_partial_args(filled) = filled + 1
      BY DEF Blocks, free_partial_args
    <3>3. QED
      BY <2>2, <3>1, <3>2
  <2>4. QED
    BY <1>3, <1>4, <1>5, <1>7, <2>1, <2>3, SameArgs
<1>10. QED
  BY <1>8, <1>9 DEF build_spawn_argv

\* The argv goes to the process that is made, or is freed.
LEMMA CreateArgs ==
    ASSUME FilesInv, ArgsInv, create
    PROVE  ArgsInv'
<1>1. IsSh(sh) /\ ShArgs(sh) /\ IsProcs(procs) /\ IsProgs(progs) /\ Sh \in Slots
  BY NoneFacts DEF FilesInv, ArgsInv
<1>2. sh.script # <<>> /\ Head(sh.script) = "create"
  BY DEF create, Does, Step
<1>3. sh.pc = "run" /\ sh.strings \in NoArgv .. MAX_STRINGS
  BY <1>1, <1>2 DEF ShArgs
<1>4. NoArgv \in NoArgv .. MAX_STRINGS
  BY DEF NoArgv, MAX_STRINGS
<1>5. CASE heap' = heap - free_spawn_args(sh.strings) /\ GiveUp /\ UNCHANGED <<vars, progs>>
  <2>1. ShArgs(sh') /\ sh'.strings = NoArgv
    BY <1>1, <1>3, <1>5, GiveUpSh
  <2>2. UNCHANGED <<procs, progs, may>>
    BY <1>5 DEF vars
  <2>3. Lives(procs, procs', {})
    BY <1>1, <2>2, CallLives
  <2>4. \A q \in Slots \ {Sh} : Strings(q)' = Strings(q)
    BY <2>2 DEF Strings
  <2>5. /\ IsProgs(progs') /\ \A q \in Slots : progs'[q].strings = progs[q].strings
        /\ Strings(Sh) = sh.strings /\ Strings(Sh)' = NoArgv
    BY <1>1, <2>1, <2>2 DEF Strings
  <2>6. "kill" \notin may => heap' = heap + Blocks(Strings(Sh)') - Blocks(Strings(Sh))
    <3>1. "kill" \notin may => heap \in Int
      BY ArgsHeap DEF ArgsInv
    <3>2. /\ Blocks(NoArgv) = 0 /\ Blocks(sh.strings) \in Int
          /\ free_spawn_args(sh.strings) = Blocks(sh.strings)
      BY <1>3 DEF Blocks, NoArgv, MAX_STRINGS, free_spawn_args
    <3>3. QED
      BY <1>5, <2>5, <3>1, <3>2
  <2>7. QED
    BY <1>1, <2>1, <2>2, <2>3, <2>4, <2>5, <2>6, ChangeArgs, NoneFacts
<1>6. CASE ~(heap' = heap - free_spawn_args(sh.strings) /\ GiveUp /\ UNCHANGED <<vars, progs>>)
  <2>1. PICK p, g, child :
            /\ p = CHOOSE q \in FreeSlots : TRUE
            /\ FreeSlots # {} /\ proc_create(Sh, p)
            /\ g = [NoProg EXCEPT !.script = checkLine(Name).program, !.strings = sh.strings,
                                  !.fg = IsForeground]
            /\ progs' = [progs EXCEPT ![p] = g]
            /\ sh' = [sh EXCEPT !.script = Tail(@), !.strings = NoArgv, !.child = child]
            /\ UNCHANGED heap
    BY <1>6 DEF create, Become
  <2>2. p \in Programs /\ p \in Slots /\ p # Sh /\ procs[p].state = "FREE"
    BY <2>1, NoneFacts DEF FreeSlots, Programs
  <2>3. progs[p].strings = NoArgv
    BY <2>2 DEF ArgsInv
  <2>4. ShArgs(sh') /\ sh'.strings = NoArgv
    <3>1. PICK s, t : s = sh /\ t = sh'
      OBVIOUS
    <3>2. t = [s EXCEPT !.script = Tail(s.script), !.strings = NoArgv, !.child = child]
      BY <2>1, <3>1
    <3>3. t.script = Tail(s.script) /\ t.strings = NoArgv /\ t.pc = "run"
      BY <1>1, <1>3, <3>1, <3>2 DEF IsSh
    <3>4. Tail(s.script) \in Seq(Words) /\ Follows(Tail(s.script))
      BY <1>1, <1>2, <3>1, FollowsTail DEF ShArgs
    <3>5. ShArgs(t)
      BY <1>4, <3>3, <3>4 DEF ShArgs
    <3>6. QED
      BY <3>1, <3>3, <3>5
  <2>5. ProgArgs(g) /\ g.strings = sh.strings
    <3>1. /\ IsProg(g) /\ g.script = checkLine(Name).program /\ g.strings = sh.strings
      BY <2>1 DEF IsProg, NoProg
    <3>2. Name = NameOf(sh)
      BY DEF Name, NameOf
    <3>3. sh.strings # NoArgv => sh.strings \in checkLine(Name).strings
      BY <1>1, <3>2 DEF ShArgs
    <3>4. sh.strings # NoArgv => Frees(checkLine(Name).program)
      BY <3>3, CommandFacts DEF IsCommand
    <3>5. checkLine(Name).program \in Seq(Words)
      BY CommandFacts DEF IsCommand
    <3>6. QED
      BY <1>3, <3>1, <3>4, <3>5 DEF ProgArgs
  <2>6. PICK G, H : G = progs /\ H = progs'
    OBVIOUS
  <2>7. G = [q \in Slots |-> G[q]] /\ \A q \in Slots : ProgArgs(G[q])
    BY <1>1, <2>6 DEF IsProgs
  <2>8. H = [q \in Slots |-> IF q = p THEN g ELSE G[q]]
    BY <2>1, <2>6, <2>7
  <2>9. \A q \in Slots : H[q] = IF q = p THEN g ELSE G[q]
    BY <2>8
  <2>10. IsProgs(H)
    <3>1. H = [q \in Slots |-> H[q]]
      BY <2>8
    <3>2. QED
      BY <2>5, <2>7, <2>9, <3>1 DEF IsProgs
  <2>11. Lives(procs, procs', {})
    BY <1>1, <2>1, <2>2, CallLives
  <2>12. UNCHANGED may /\ procs' = [procs EXCEPT ![p] = [NoProc EXCEPT !.state = "READY"]]
    BY <2>1 DEF proc_create, NoBytes
  <2>13. \A q \in Programs : procs'[q].state = "FREE" => progs'[q].strings = NoArgv
    <3>1. procs'[p].state = "READY"
      BY <1>1, <2>2, <2>12 DEF IsProcs, NoProc
    <3>2. \A q \in Programs \ {p} : procs'[q].state = "FREE" => progs'[q].strings = NoArgv
      BY <2>6, <2>9, <2>11 DEF ArgsInv, Lives, Programs
    <3>3. QED
      BY <3>1, <3>2
  <2>14. "kill" \notin may' => heap' = Owned'
    <3>1. PICK A, B, R : A = Argvs /\ B = Argvs' /\ R = [q \in Slots |-> IF q = Sh THEN NoArgv ELSE A[q]]
      OBVIOUS
    <3>2. A \in [Slots -> NoArgv .. MAX_STRINGS]
      BY <3>1, ArgvsType DEF Argvs, Strings, ArgsInv
    <3>3. B \in [Slots -> NoArgv .. MAX_STRINGS]
      BY <2>4, <2>6, <2>10, <3>1, ArgvsType DEF Argvs, Strings
    <3>4. R \in [Slots -> NoArgv .. MAX_STRINGS]
      BY <1>4, <3>1, <3>2
    <3>5. /\ R[Sh] = NoArgv /\ A[Sh] = sh.strings
          /\ \A q \in Slots \ {Sh} : R[q] = A[q]
      BY <1>1, <3>1 DEF Argvs, Strings
    <3>6. /\ R[p] = NoArgv /\ B[p] = sh.strings
          /\ \A q \in Slots \ {p} : B[q] = R[q]
      <4>1. R[p] = NoArgv /\ B[p] = sh.strings
        BY <2>2, <2>3, <2>5, <2>6, <2>9, <3>1 DEF Argvs, Strings
      <4>2. B[Sh] = NoArgv
        BY <1>1, <2>4, <3>1 DEF Argvs, Strings
      <4>3. \A q \in Slots \ {p, Sh} : B[q] = A[q]
        BY <2>6, <2>9, <3>1 DEF Argvs, Strings
      <4>4. QED
        BY <3>5, <4>1, <4>2, <4>3
    <3>7. /\ Cardinality(Held(A)) \in Nat /\ Cardinality(Held(R)) \in Nat
          /\ Cardinality(Held(R)) = Cardinality(Held(A)) + Blocks(NoArgv) - Blocks(sh.strings)
      BY <1>1, <3>2, <3>4, <3>5, HeldChange
    <3>8. /\ Cardinality(Held(B)) \in Nat
          /\ Cardinality(Held(B)) = Cardinality(Held(R)) + Blocks(sh.strings) - Blocks(NoArgv)
      BY <2>2, <3>3, <3>4, <3>6, HeldChange
    <3>9. Blocks(NoArgv) \in Int /\ Blocks(sh.strings) \in Int
      BY <1>3 DEF Blocks, NoArgv, MAX_STRINGS
    <3>10. Cardinality(Held(B)) = Cardinality(Held(A))
      BY <3>7, <3>8, <3>9
    <3>11. Owned = Cardinality(Held(A)) /\ Owned' = Cardinality(Held(B))
      BY <3>1, OwnedIsHeld
    <3>12. QED
      BY <2>1, <2>12, <3>10, <3>11 DEF ArgsInv
  <2>15. IsProcs(procs')
    BY <2>11 DEF Lives
  <2>16. ShArgs(sh)' /\ IsProgs(progs)' /\ IsProcs(procs)'
    BY <2>4, <2>6, <2>10, <2>15 DEF ShArgs, IsProgs, ProgArgs, IsProg, IsProcs
  <2>17. QED
    BY <2>13, <2>14, <2>16 DEF ArgsInv
<1>7. QED
  BY <1>5, <1>6

\* The shell waits for its child.
LEMMA WaitArgs ==
    ASSUME FilesInv, ArgsInv, wait
    PROVE  ArgsInv'
<1>1. IsSh(sh) /\ ShArgs(sh) /\ IsProcs(procs) /\ IsProgs(progs) /\ Sh \in Slots
  BY NoneFacts DEF FilesInv, ArgsInv
<1>2. sh.script # <<>> /\ Head(sh.script) = "wait" /\ sh' = [sh EXCEPT !.script = Tail(@)]
  BY DEF wait, Does, Step, Become
<1>3. ShArgs(sh') /\ sh'.strings = sh.strings
  BY <1>1, <1>2, QuietSh
<1>4. UNCHANGED <<procs, progs, heap, may>>
  BY DEF wait, Keep, vars
<1>5. Lives(procs, procs', {})
  BY <1>1, <1>4, CallLives
<1>6. QED
  BY <1>1, <1>3, <1>4, <1>5, SameArgs

\* What the steps of a program that keeps its argv make of its slot.
LEMMA AdvanceKeeps ==
    ASSUME IsProgs(progs), NEW p \in Programs, NEW held, Step(p) # <<>>, Head(Step(p)) # "free",
           Advance(p, held)
    PROVE  /\ UNCHANGED sh /\ IsProgs(progs')
           /\ \A q \in Slots : progs'[q].strings = progs[q].strings
<1>1. p \in Slots /\ p # Sh
  BY DEF Programs
<1>2. UNCHANGED sh /\ progs' = [progs EXCEPT ![p].script = Tail(@), ![p].held = held]
  BY <1>1 DEF Advance
<1>3. PICK g, h : g = progs[p] /\ h = [g EXCEPT !.script = Tail(g.script), !.held = held]
  OBVIOUS
<1>4. IsProg(g) /\ g.script # <<>> /\ Head(g.script) # "free"
  BY <1>1, <1>3 DEF IsProgs, ProgArgs, Step
<1>5. Kept(g, h)
  BY <1>3, <1>4 DEF Kept, IsProg
<1>6. progs' = [progs EXCEPT ![p] = h]
  BY <1>1, <1>2, <1>3 DEF IsProgs
<1>7. QED
  <2>1. PICK G, H : G = progs /\ H = progs'
    OBVIOUS
  <2>2. IsProgs(G) /\ p \in Slots /\ Kept(G[p], h) /\ H = Put(G, p, h)
    BY <1>1, <1>3, <1>5, <1>6, <2>1 DEF Put
  <2>3. IsProgs(H) /\ \A q \in Slots : H[q].strings = G[q].strings
    BY <2>2, KeptSlots
  <2>4. QED
    BY <1>2, <2>1, <2>3

\* A byte that a program has read does not touch its arguments.
LEMMA HeldKeeps ==
    ASSUME IsProgs(progs), NEW p \in Programs, NEW held, progs' = [progs EXCEPT ![p].held = held]
    PROVE  IsProgs(progs') /\ \A q \in Slots : progs'[q].strings = progs[q].strings
<1>1. p \in Slots
  BY DEF Programs
<1>2. PICK g, h : g = progs[p] /\ h = [g EXCEPT !.held = held]
  OBVIOUS
<1>3. IsProg(g)
  BY <1>1, <1>2 DEF IsProgs, ProgArgs
<1>4. Kept(g, h)
  BY <1>2, <1>3 DEF Kept, IsProg
<1>5. progs' = [progs EXCEPT ![p] = h]
  BY <1>1, <1>2 DEF IsProgs
<1>6. QED
  <2>1. PICK G, H : G = progs /\ H = progs'
    OBVIOUS
  <2>2. IsProgs(G) /\ p \in Slots /\ Kept(G[p], h) /\ H = Put(G, p, h)
    BY <1>1, <1>2, <1>4, <1>5, <2>1 DEF Put
  <2>3. IsProgs(H) /\ \A q \in Slots : H[q].strings = G[q].strings
    BY <2>2, KeptSlots
  <2>4. QED
    BY <2>1, <2>3

\* A step of a program that reads or writes.
LEMMA ProgramArgs ==
    ASSUME FilesInv, ArgsInv, NEW p \in Programs,
           \/ print(p) \/ read_pipe(p) \/ read_terminal(p) \/ read_refused(p) \/ pass_on(p)
           \/ loop_prints(p)
    PROVE  ArgsInv'
<1>1. /\ IsSh(sh) /\ ShArgs(sh) /\ IsProcs(procs) /\ IsProgs(progs) /\ p \in Slots /\ p # Sh
  BY DEF FilesInv, ArgsInv, Programs
<1>2. Step(p) # <<>> /\ Head(Step(p)) # "free"
  BY DEF print, read_pipe, read_terminal, read_refused, pass_on, loop_prints, Reads, Does
<1>3. \/ UNCHANGED <<sh, progs>>
      \/ Advance(p, FALSE)
      \/ \E held : progs' = [progs EXCEPT ![p].held = held] /\ UNCHANGED sh
  <2>1. CASE print(p)
    BY <2>1 DEF print
  <2>2. CASE read_pipe(p)
    BY <2>2 DEF read_pipe, Took
  <2>3. CASE read_terminal(p)
    BY <2>3 DEF read_terminal, Took
  <2>4. CASE read_refused(p)
    BY <2>4 DEF read_refused
  <2>5. CASE pass_on(p)
    BY <2>5 DEF pass_on
  <2>6. CASE loop_prints(p)
    BY <2>6 DEF loop_prints
  <2>7. QED
    BY <2>1, <2>2, <2>3, <2>4, <2>5, <2>6
<1>4. UNCHANGED sh /\ IsProgs(progs') /\ \A q \in Slots : progs'[q].strings = progs[q].strings
  <2>1. CASE UNCHANGED <<sh, progs>>
    BY <1>1, <2>1
  <2>2. CASE Advance(p, FALSE)
    BY <1>1, <1>2, <2>2, AdvanceKeeps
  <2>3. CASE \E held : progs' = [progs EXCEPT ![p].held = held] /\ UNCHANGED sh
    BY <1>1, <2>3, HeldKeeps
  <2>4. QED
    BY <1>3, <2>1, <2>2, <2>3
<1>5. Output(p) \/ read(p, SHELL_STDIN) \/ Resumes(p) \/ UNCHANGED vars
  BY DEF print, read_pipe, read_terminal, read_refused, pass_on, loop_prints
<1>6. UNCHANGED may
  BY <1>5 DEF Output, write, read, Resumes, vars
<1>7. Lives(procs, procs', {})
  <2>1. (\E fd : read(p, fd) \/ write(p, fd)) \/ Resumes(p) \/ UNCHANGED procs
    BY <1>5 DEF Output, vars
  <2>2. QED
    BY <1>1, <2>1, CallLives
<1>8. heap' = heap
  BY DEF print, read_pipe, read_terminal, read_refused, pass_on, loop_prints
<1>9. QED
  BY <1>1, <1>4, <1>6, <1>7, <1>8, SameArgs

\* The shell prints.
LEMMA ShellPrintArgs ==
    ASSUME FilesInv, ArgsInv, print(Sh)
    PROVE  ArgsInv'
<1>1. IsSh(sh) /\ ShArgs(sh) /\ IsProcs(procs) /\ IsProgs(progs) /\ Sh \in Slots
  BY NoneFacts DEF FilesInv, ArgsInv
<1>2. sh.script # <<>> /\ Head(sh.script) = "print"
  BY DEF print, Does, Step
<1>3. UNCHANGED progs /\ (UNCHANGED sh \/ sh' = [sh EXCEPT !.script = Tail(@)])
  BY DEF print, Advance, Become
<1>4. ShArgs(sh') /\ sh'.strings = sh.strings
  BY <1>1, <1>2, <1>3, QuietSh
<1>5. UNCHANGED may
  BY DEF print, Output, write, Resumes, vars
<1>6. Lives(procs, procs', {})
  <2>1. (\E fd : write(Sh, fd)) \/ Resumes(Sh) \/ UNCHANGED procs
    BY DEF print, Output, vars
  <2>2. QED
    BY <1>1, <2>1, CallLives
<1>7. heap' = heap
  BY DEF print
<1>8. QED
  BY <1>1, <1>3, <1>4, <1>5, <1>6, <1>7, SameArgs

\* A program frees its argv.
LEMMA FreeArgs ==
    ASSUME FilesInv, ArgsInv, NEW p \in Programs, free(p)
    PROVE  ArgsInv'
<1>1. /\ IsSh(sh) /\ ShArgs(sh) /\ IsProcs(procs) /\ IsProgs(progs) /\ p \in Slots /\ p # Sh
  BY DEF FilesInv, ArgsInv, Programs
<1>2. PICK G, H, g, h :
          /\ G = progs /\ H = progs' /\ g = progs[p]
          /\ h = [g EXCEPT !.script = Tail(g.script), !.strings = NoArgv]
  OBVIOUS
<1>3. G = [q \in Slots |-> G[q]] /\ (\A q \in Slots : ProgArgs(G[q])) /\ ProgArgs(g)
  BY <1>1, <1>2 DEF IsProgs
<1>4. g.script # <<>> /\ g.strings \in NoArgv .. MAX_STRINGS /\ g.script \in Seq(Words)
  BY <1>1, <1>2, <1>3 DEF free, Does, Step, ProgArgs
<1>5. H = [q \in Slots |-> IF q = p THEN h ELSE G[q]]
  BY <1>2, <1>3 DEF free
<1>6. \A q \in Slots : H[q] = IF q = p THEN h ELSE G[q]
  BY <1>5
<1>7. ProgArgs(h) /\ h.strings = NoArgv
  <2>1. IsProg(h) /\ h.script = Tail(g.script) /\ h.strings = NoArgv
    BY <1>2, <1>3 DEF ProgArgs, IsProg
  <2>2. Tail(g.script) \in Seq(Words)
    BY <1>4, TailFacts
  <2>3. QED
    BY <2>1, <2>2 DEF ProgArgs, NoArgv, MAX_STRINGS
<1>8. IsProgs(H)
  <2>1. H = [q \in Slots |-> H[q]]
    BY <1>5
  <2>2. QED
    BY <1>3, <1>6, <1>7, <2>1 DEF IsProgs
<1>9. UNCHANGED <<procs, may, sh>> /\ heap' = heap - free_spawn_args(g.strings)
  BY <1>2 DEF free, vars
<1>10. Lives(procs, procs', {})
  BY <1>1, <1>9, CallLives
<1>11. /\ \A q \in Programs : progs'[q].strings \in {progs[q].strings, NoArgv}
       /\ Strings(p) = g.strings /\ Strings(p)' = NoArgv
       /\ \A q \in Slots \ {p} : Strings(q)' = Strings(q)
  BY <1>1, <1>2, <1>6, <1>7, <1>9 DEF Strings, Programs
<1>12. "kill" \notin may => heap' = heap + Blocks(Strings(p)') - Blocks(Strings(p))
  <2>1. "kill" \notin may => heap \in Int
    BY ArgsHeap DEF ArgsInv
  <2>2. /\ Blocks(NoArgv) = 0 /\ Blocks(g.strings) \in Int
        /\ free_spawn_args(g.strings) = Blocks(g.strings)
    BY <1>4 DEF Blocks, NoArgv, MAX_STRINGS, free_spawn_args
  <2>3. QED
    BY <1>9, <1>11, <2>1, <2>2
<1>13. QED
  BY <1>1, <1>2, <1>8, <1>9, <1>10, <1>11, <1>12, ChangeArgs

\* A slot without a program.
LEMMA GoneProgs ==
    ASSUME NEW G, IsProgs(G), NEW p \in Slots, NEW H, H = Put(G, p, NoProg)
    PROVE  IsProgs(H) /\ H[p].strings = NoArgv /\ \A q \in Slots \ {p} : H[q] = G[q]
<1>1. G = [q \in Slots |-> G[q]] /\ \A q \in Slots : ProgArgs(G[q])
  BY DEF IsProgs
<1>2. ProgArgs(NoProg) /\ NoProg.strings = NoArgv
  <2>1. IsProg(NoProg) /\ NoProg.script = <<>> /\ NoProg.strings = NoArgv
    BY DEF NoProg, IsProg
  <2>2. <<>> \in Seq(Words)
    BY ScriptFacts
  <2>3. QED
    BY <2>1, <2>2 DEF ProgArgs, NoArgv, MAX_STRINGS
<1>3. H = [q \in Slots |-> IF q = p THEN NoProg ELSE G[q]]
  BY <1>1 DEF Put
<1>4. \A q \in Slots : H[q] = IF q = p THEN NoProg ELSE G[q]
  BY <1>3
<1>5. H = [q \in Slots |-> H[q]]
  BY <1>3
<1>6. IsProgs(H) /\ H[p].strings = NoArgv /\ \A q \in Slots \ {p} : H[q] = G[q]
  BY <1>1, <1>2, <1>4, <1>5 DEF IsProgs
<1>7. QED
  BY <1>6

\* A program ends: it has freed its argv.
LEMMA ExitArgs ==
    ASSUME FilesInv, ArgsInv, NEW p \in Programs, sys_exit(p)
    PROVE  ArgsInv'
<1>1. /\ IsSh(sh) /\ ShArgs(sh) /\ IsProcs(procs) /\ IsProgs(progs) /\ p \in Slots /\ p # Sh
  BY DEF FilesInv, ArgsInv, Programs
<1>2. progs[p].strings = NoArgv
  <2>1. PICK g : g = progs[p]
    OBVIOUS
  <2>2. ProgArgs(g) /\ g.script # <<>> /\ Head(g.script) = "exit"
    BY <1>1, <2>1 DEF sys_exit, Does, Step, IsProgs
  <2>3. ~Frees(g.script)
    BY <2>2, FreesTail DEF ProgArgs
  <2>4. QED
    BY <2>1, <2>2, <2>3 DEF ProgArgs
<1>3. progs' = [progs EXCEPT ![p] = NoProg] /\ UNCHANGED heap
  BY DEF sys_exit, Gone
<1>4. IsProgs(progs') /\ progs'[p].strings = NoArgv /\ \A q \in Slots \ {p} : progs'[q] = progs[q]
  <2>1. PICK G, H : G = progs /\ H = progs'
    OBVIOUS
  <2>2. IsProgs(G) /\ H = Put(G, p, NoProg)
    BY <1>1, <1>3, <2>1 DEF Put
  <2>3. IsProgs(H) /\ H[p].strings = NoArgv /\ \A q \in Slots \ {p} : H[q] = G[q]
    BY <1>1, <2>2, GoneProgs
  <2>4. QED
    BY <2>1, <2>3
<1>5. \A q \in Slots : progs'[q].strings = progs[q].strings
  BY <1>2, <1>4
<1>6. ShArgs(sh') /\ sh'.strings = sh.strings
  <2>1. sh' = [sh EXCEPT !.child = IF sh.child = p THEN None ELSE sh.child]
    BY DEF sys_exit, Gone, Become
  <2>2. QED
    BY <1>1, <2>1, QuietSh
<1>7. Lives(procs, procs', {p}) /\ UNCHANGED may
  BY <1>1, EndLives DEF sys_exit, proc_exit, End, NoBytes
<1>8. QED
  BY <1>1, <1>3, <1>4, <1>5, <1>6, <1>7, SameArgs

\* A program is killed: its argv is lost.
LEMMA KillArgs ==
    ASSUME FilesInv, ArgsInv, NEW q \in Programs, proc_kill(q), NEW G, IsProgs(G),
           \A x \in Slots : G[x].strings = progs[x].strings,
           progs' = [G EXCEPT ![q] = NoProg],
           Become([sh EXCEPT !.child = IF @ = q THEN None ELSE @])
    PROVE  ArgsInv'
<1>1. IsSh(sh) /\ ShArgs(sh) /\ IsProcs(procs) /\ q \in Slots
  BY DEF FilesInv, ArgsInv, Programs
<1>2. IsProgs(progs') /\ progs'[q].strings = NoArgv /\ \A x \in Slots \ {q} : progs'[x] = G[x]
  <2>1. PICK H : H = progs'
    OBVIOUS
  <2>2. H = Put(G, q, NoProg)
    BY <2>1 DEF Put
  <2>3. IsProgs(H) /\ H[q].strings = NoArgv /\ \A x \in Slots \ {q} : H[x] = G[x]
    BY <1>1, <2>2, GoneProgs
  <2>4. QED
    BY <2>1, <2>3
<1>3. PICK S : S = {q}
  OBVIOUS
<1>4. Lives(procs, procs', S) /\ "kill" \in may'
  BY <1>1, <1>3, EndLives DEF proc_kill, End, NoBytes
<1>5. \A x \in Programs : \/ progs'[x].strings = NoArgv
                          \/ x \notin S /\ progs'[x].strings = progs[x].strings
  BY <1>2, <1>3 DEF Programs
<1>6. ShArgs(sh')
  <2>1. sh' = [sh EXCEPT !.child = IF sh.child = q THEN None ELSE sh.child]
    BY DEF Become
  <2>2. QED
    BY <1>1, <2>1, QuietSh
<1>7. QED
  BY <1>2, <1>4, <1>5, <1>6, ArgsStep

\* sys_kill, by a program or by Ctrl+C.
LEMMA KillsArgs ==
    ASSUME FilesInv, ArgsInv, CtrlC \/ \E p \in Programs : sys_kill(p)
    PROVE  ArgsInv'
<1>1. /\ IsSh(sh) /\ ShArgs(sh) /\ IsProcs(procs) /\ IsProgs(progs)
      /\ sh.child \in Programs \cup {None}
  BY DEF FilesInv, ArgsInv
<1>2. CASE CtrlC
  <2>1. PICK q : q = sh.child
    OBVIOUS
  <2>2. /\ q \in Programs /\ proc_kill(q) /\ progs' = [progs EXCEPT ![q] = NoProg]
        /\ Become([sh EXCEPT !.child = IF @ = q THEN None ELSE @])
    BY <1>1, <1>2, <2>1 DEF CtrlC, Gone
  <2>3. QED
    BY <1>1, <2>2, KillArgs
<1>3. ASSUME NEW p \in Programs, sys_kill(p) PROVE ArgsInv'
  <2>1. p \in Slots /\ Step(p) # <<>> /\ Head(Step(p)) # "free"
    BY <1>3 DEF sys_kill, Does, Programs
  <2>2. CASE \E q \in Programs \ {p} :
                /\ proc_kill(q)
                /\ progs' = [progs EXCEPT ![q] = NoProg, ![p].script = Tail(@)]
                /\ Become([sh EXCEPT !.child = IF @ = q THEN None ELSE @])
    <3>1. PICK q \in Programs \ {p} :
                /\ proc_kill(q)
                /\ progs' = [progs EXCEPT ![q] = NoProg, ![p].script = Tail(@)]
                /\ Become([sh EXCEPT !.child = IF @ = q THEN None ELSE @])
      BY <2>2
    <3>2. PICK g, h, G : /\ g = progs[p] /\ h = [g EXCEPT !.script = Tail(g.script)]
                         /\ G = [progs EXCEPT ![p] = h]
      OBVIOUS
    <3>3. IsProg(g) /\ g.script # <<>> /\ Head(g.script) # "free"
      <4>1. p # Sh
        BY DEF Programs
      <4>2. QED
        BY <1>1, <2>1, <3>2, <4>1 DEF IsProgs, ProgArgs, Step
    <3>4. Kept(g, h)
      BY <3>2, <3>3 DEF Kept, IsProg
    <3>5. IsProgs(G) /\ \A x \in Slots : G[x].strings = progs[x].strings
      <4>1. PICK P : P = progs
        OBVIOUS
      <4>2. IsProgs(P) /\ Kept(P[p], h) /\ G = Put(P, p, h)
        BY <1>1, <3>2, <3>4, <4>1 DEF Put
      <4>3. IsProgs(G) /\ \A x \in Slots : G[x].strings = P[x].strings
        BY <2>1, <4>2, KeptSlots
      <4>4. QED
        BY <4>1, <4>3
    <3>6. progs' = [G EXCEPT ![q] = NoProg]
      <4>1. PICK P, Q : P = progs /\ Q = progs'
        OBVIOUS
      <4>2. P = [x \in Slots |-> P[x]]
        BY <1>1, <4>1 DEF IsProgs
      <4>3. Q = [x \in Slots |-> IF x = p THEN h ELSE IF x = q THEN NoProg ELSE P[x]]
        BY <2>1, <3>1, <3>2, <4>1, <4>2
      <4>4. [G EXCEPT ![q] = NoProg]
              = [x \in Slots |-> IF x = q THEN NoProg ELSE IF x = p THEN h ELSE P[x]]
        BY <2>1, <3>2, <4>1, <4>2
      <4>5. QED
        BY <3>1, <4>1, <4>3, <4>4
    <3>7. QED
      BY <3>1, <3>5, <3>6, KillArgs
  <2>3. CASE Advance(p, FALSE) /\ UNCHANGED vars /\ UNCHANGED heap
    <3>1. UNCHANGED sh /\ IsProgs(progs') /\ \A q \in Slots : progs'[q].strings = progs[q].strings
      BY <1>1, <2>1, <2>3, AdvanceKeeps
    <3>2. UNCHANGED <<procs, may>> /\ heap' = heap
      BY <2>3 DEF vars
    <3>3. Lives(procs, procs', {})
      BY <1>1, <2>1, <3>2, CallLives
    <3>4. QED
      BY <1>1, <3>1, <3>2, <3>3, SameArgs
  <2>4. QED
    BY <1>3, <2>2, <2>3 DEF sys_kill
<1>4. QED
  BY <1>2, <1>3

\* At first there is no argv.
LEMMA ArgsInit == ShellInit => ArgsInv
<1>1. SUFFICES ASSUME ShellInit PROVE ArgsInv
  OBVIOUS
<1>2. sh = AtPrompt /\ progs = [p \in Slots |-> NoProg] /\ heap = 0
  BY <1>1 DEF ShellInit
<1>3. <<>> \in Seq(Words) /\ Follows(<<>>) /\ NoArgv \in NoArgv .. MAX_STRINGS
  BY ScriptFacts DEF NoArgv, MAX_STRINGS
<1>4. ShArgs(sh)
  BY <1>2, <1>3 DEF ShArgs, AtPrompt
<1>5. ProgArgs(NoProg) /\ NoProg.strings = NoArgv
  <2>1. IsProg(NoProg) /\ NoProg.script = <<>> /\ NoProg.strings = NoArgv
    BY DEF NoProg, IsProg
  <2>2. QED
    BY <1>3, <2>1 DEF ProgArgs
<1>6. IsProgs(progs) /\ \A p \in Programs : progs[p].strings = NoArgv
  BY <1>2, <1>5 DEF IsProgs, Programs
<1>7. IsProcs(procs)
  <2>1. procs = [p \in Slots |-> IF p = Sh THEN [NoProc EXCEPT !.state = "READY"] ELSE NoProc]
    BY <1>1 DEF ShellInit
  <2>2. QED
    BY <2>1 DEF IsProcs, NoProc
<1>8. heap = Owned
  <2>1. \A p \in Slots : Strings(p) = NoArgv
    BY <1>2, <1>5, <1>6 DEF Strings, AtPrompt, Programs
  <2>2. OwnedBlocks = {}
    BY <2>1 DEF OwnedBlocks, Blocks, NoArgv
  <2>3. QED
    BY <1>2, <2>2, FS_EmptySet DEF Owned
<1>9. QED
  BY <1>4, <1>6, <1>7, <1>8 DEF ArgsInv

\* Every step keeps the argument vectors in order.
LEMMA ArgsNext == FilesInv /\ ArgsInv /\ [ShellNext]_svars => ArgsInv'
<1>1. SUFFICES ASSUME FilesInv, ArgsInv, [ShellNext]_svars PROVE ArgsInv'
  OBVIOUS
<1>2. CASE UNCHANGED svars
  <2>1. /\ IsProcs(procs) /\ IsProgs(progs) /\ ShArgs(sh) /\ Sh \in Slots
    BY <1>1, NoneFacts DEF ArgsInv
  <2>2. UNCHANGED <<sh, progs, procs, heap, may>>
    BY <1>2 DEF svars
  <2>3. Lives(procs, procs', {})
    BY <2>1, <2>2, CallLives
  <2>4. QED
    BY <1>1, <2>1, <2>2, <2>3, SameArgs
<1>3. CASE newLine \/ CtrlC
  BY <1>1, <1>3, OutsideArgs, KillsArgs
<1>4. CASE Pipeline \/ returned
  BY <1>1, <1>4, OutsideArgs
<1>5. CASE start \/ build_spawn_argv \/ create \/ wait \/ print(Sh)
  BY <1>1, <1>5, StartArgs, BuildArgs, CreateArgs, WaitArgs, ShellPrintArgs
<1>6. CASE \E p \in Programs : ProgramStep(p) \/ read_terminal(p)
  BY <1>1, <1>6, ProgramArgs, FreeArgs, ExitArgs, KillsArgs DEF ProgramStep
<1>7. QED
  BY <1>1, <1>2, <1>3, <1>4, <1>5, <1>6 DEF ShellNext, ShellStep

\* Every block of an argument vector has somebody who will free it, whatever fails while
\* it is built and handed over, unless programs are killed.
THEOREM ArgumentsAreFreed == ShellSpec => []ArgsHaveOwners
<1>1. ShellInit => FilesInv /\ ArgsInv
  BY FilesInit, ArgsInit
<1>2. FilesInv /\ ArgsInv /\ [ShellNext]_svars => FilesInv' /\ ArgsInv'
  BY FilesNext, ArgsNext
<1>3. ArgsInv => ArgsHaveOwners
  BY DEF ArgsInv, ArgsHaveOwners
<1>4. QED
  BY <1>1, <1>2, <1>3, PTL DEF ShellSpec

-----------------------------------------------------------------------------
(* The files and pipes behind the descriptors *)

\* x is a record of a pipe, whatever bytes and processes it holds.
IsPipe(x) ==
    x \in [used : BOOLEAN, name : {x.name}, buf : {x.buf}, r : {x.r}, w : {x.w}, size : {x.size},
           readers : Nat, writers : Nat, unlinked : BOOLEAN, readq : {x.readq}, writeq : {x.writeq}]

IsPipes(P) == P = [q \in Pipes |-> P[q]] /\ \A q \in Pipes : IsPipe(P[q])

\* The file of a pipe has no more references than there are descriptors of it; those of
\* the terminal have more, since stdin_file and stdout_file hold one themselves.
Referenced ==
    /\ files \in [Files -> FileRec]
    /\ \A f \in Files : files[f].refcount = 0 => files[f] = NoFile
    /\ \A f \in Files : files[f].ptr # None => files[f].refcount =< Cardinality(Holders(f))
    /\ \A f \in {TtyIn, TtyOut} :
            files[f].ptr = None /\ files[f].refcount > Cardinality(Holders(f))

\* A pipe has no more readers and writers than files, and without a name at least one.
EndsBounded ==
    /\ IsPipes(pipes)
    /\ \A q \in Pipes :
        /\ pipes[q].readers =< Cardinality(OpenEnds(q, "read"))
        /\ pipes[q].writers =< Cardinality(OpenEnds(q, "write"))
        /\ pipes[q].used /\ pipes[q].unlinked => pipes[q].readers > 0 \/ pipes[q].writers > 0

\* The step gives no pipe a name.
NoNewName ==
    \A q \in Pipes : pipes'[q].used /\ ~pipes'[q].unlinked =>
        pipes[q].used /\ ~pipes[q].unlinked /\ pipes'[q].name = pipes[q].name

\* y is what is left of the pipe x without rd readers and wr writers.
Shut(x, rd, wr, y) ==
    /\ IsPipe(y)
    /\ y.readers = Less(x.readers, rd) /\ y.writers = Less(x.writers, wr)
    /\ y.used /\ y.unlinked => y.readers > 0 \/ y.writers > 0
    /\ y.used /\ ~y.unlinked => x.used /\ ~x.unlinked /\ y.name = x.name

\* kpipe_close takes ends away, and frees a pipe that has neither ends nor a name.
LEMMA ClosePipe ==
    ASSUME NEW x, IsPipe(x), NEW rd \in Nat, NEW wr \in Nat
    PROVE  Shut(x, rd, wr, kpipe_close(x, rd, wr))
<1>0. PICK y : y = kpipe_close(x, rd, wr)
  OBVIOUS
<1>1. PICK a, b : a = Less(x.readers, rd) /\ b = Less(x.writers, wr)
  OBVIOUS
<1>2. a \in Nat /\ b \in Nat
  BY <1>1 DEF Less, IsPipe
<1>3. CASE x.unlinked /\ a = 0 /\ b = 0
  <2>1. y = NoPipe
    BY <1>0, <1>1, <1>3 DEF kpipe_close
  <2>2. IsPipe(y) /\ y.used = FALSE /\ y.readers = 0 /\ y.writers = 0
    BY <2>1 DEF NoPipe, IsPipe
  <2>3. QED
    BY <1>0, <1>1, <1>3, <2>2 DEF Shut
<1>4. CASE ~(x.unlinked /\ a = 0 /\ b = 0)
  <2>1. PICK rq, wq : /\ rq = IF b = 0 THEN <<>> ELSE x.readq
                      /\ wq = IF a = 0 THEN <<>> ELSE x.writeq
    OBVIOUS
  <2>2. y = [x EXCEPT !.readers = a, !.writers = b, !.readq = rq, !.writeq = wq]
    BY <1>0, <1>1, <1>4, <2>1 DEF kpipe_close
  <2>3. /\ IsPipe(y) /\ y.readers = a /\ y.writers = b
        /\ y.used = x.used /\ y.unlinked = x.unlinked /\ y.name = x.name
    BY <1>2, <2>2 DEF IsPipe
  <2>4. QED
    BY <1>0, <1>1, <1>2, <1>4, <2>3 DEF Shut
<1>5. QED
  BY <1>0, <1>3, <1>4

\* Releasing the files of S takes their ends from the pipes.
LEMMA ReleaseEnds ==
    ASSUME EndsBounded, NEW S \in SUBSET Files, pipes' = PipesAfter(S),
           \A f \in Files : IF f \in S THEN files'[f].ptr = None
                            ELSE files'[f].ptr = files[f].ptr /\ files'[f].ends = files[f].ends
    PROVE  EndsBounded' /\ NoNewName
<1>1. pipes' = [q \in Pipes |-> pipes'[q]]
  BY DEF PipesAfter
<1>2. ASSUME NEW q \in Pipes
      PROVE  /\ IsPipe(pipes'[q])
             /\ pipes'[q].readers =< Cardinality(OpenEnds(q, "read")')
             /\ pipes'[q].writers =< Cardinality(OpenEnds(q, "write")')
             /\ pipes'[q].used /\ pipes'[q].unlinked =>
                    pipes'[q].readers > 0 \/ pipes'[q].writers > 0
             /\ pipes'[q].used /\ ~pipes'[q].unlinked =>
                    pipes[q].used /\ ~pipes[q].unlinked /\ pipes'[q].name = pipes[q].name
  <2>1. \A e : OpenEnds(q, e)' = OpenEnds(q, e) \ S
    BY PipeAssumption DEF OpenEnds
  <2>2. PICK x : x = pipes[q]
    OBVIOUS
  <2>3. /\ IsPipe(x) /\ x.readers \in Nat /\ x.writers \in Nat
        /\ x.readers =< Cardinality(OpenEnds(q, "read"))
        /\ x.writers =< Cardinality(OpenEnds(q, "write"))
        /\ x.used /\ x.unlinked => x.readers > 0 \/ x.writers > 0
    BY <2>2 DEF EndsBounded, IsPipes, IsPipe
  <2>4. PICK rd, wr : rd = Count(S, q, "read") /\ wr = Count(S, q, "write")
    OBVIOUS
  <2>5. /\ rd \in Nat /\ wr \in Nat
        /\ Cardinality(OpenEnds(q, "read")) \in Nat /\ Cardinality(OpenEnds(q, "write")) \in Nat
        /\ rd =< Cardinality(OpenEnds(q, "read")) /\ wr =< Cardinality(OpenEnds(q, "write"))
        /\ Cardinality(OpenEnds(q, "read") \ S) = Cardinality(OpenEnds(q, "read")) - rd
        /\ Cardinality(OpenEnds(q, "write") \ S) = Cardinality(OpenEnds(q, "write")) - wr
    BY <2>4, CountFacts
  <2>6. CASE q \in Touched(S)
    <3>1. PICK y : y = kpipe_close(x, rd, wr)
      OBVIOUS
    <3>2. pipes'[q] = y
      BY <2>2, <2>4, <2>6, <3>1 DEF PipesAfter
    <3>3. Shut(x, rd, wr, y)
      BY <2>3, <2>5, <3>1, ClosePipe
    <3>4. /\ y.readers =< Cardinality(OpenEnds(q, "read")) - rd
          /\ y.writers =< Cardinality(OpenEnds(q, "write")) - wr
      BY <2>3, <2>5, <3>3 DEF Less, Shut
    <3>5. QED
      BY <2>1, <2>2, <2>5, <3>2, <3>3, <3>4 DEF Shut
  <2>7. CASE q \notin Touched(S)
    <3>1. pipes'[q] = x
      BY <2>2, <2>7 DEF PipesAfter
    <3>2. \A e : OpenEnds(q, e) \ S = OpenEnds(q, e)
      BY <2>7 DEF Touched, OpenEnds
    <3>3. QED
      BY <2>1, <2>2, <2>3, <3>1, <3>2
  <2>8. QED
    BY <2>6, <2>7
<1>3. QED
  BY <1>1, <1>2 DEF EndsBounded, IsPipes, NoNewName

\* G[f] is what is left of file f when the descriptors of F in the table of p are released.
Released(p, F, G, f) ==
    /\ G[f].refcount = 0 => G[f] = NoFile
    /\ f \in Closing(p, F) => G[f] = NoFile
    /\ f \notin Closing(p, F) =>
          /\ G[f].ptr = files[f].ptr /\ G[f].ends = files[f].ends
          /\ G[f].refcount = files[f].refcount - Dropped(p, F, f)

\* file_release closes a file with its last reference; the terminal's are never closed.
LEMMA ReleaseFiles ==
    ASSUME Referenced, NEW p \in Slots, NEW F \in SUBSET Fds, NEW G, G = FilesAfter(p, F)
    PROVE  /\ G \in [Files -> FileRec]
           /\ \A f \in Files : Released(p, F, G, f)
           /\ TtyIn \notin Closing(p, F) /\ TtyOut \notin Closing(p, F)
           /\ Closing(p, F) \in SUBSET Files
<1>1. G = [f \in Files |-> IF f \in Closing(p, F) THEN NoFile
                           ELSE [files[f] EXCEPT !.refcount = files[f].refcount - Dropped(p, F, f)]]
  BY DEF FilesAfter
<1>2. NoFile \in FileRec /\ NoFile.refcount = 0
  BY DEF NoFile, FileRec
<1>3. ASSUME NEW f \in Files
      PROVE  /\ G[f] \in FileRec
             /\ Released(p, F, G, f)
  <2>1. PICK x, n : x = files[f] /\ n = x.refcount - Dropped(p, F, f)
    OBVIOUS
  <2>2. x \in FileRec /\ x.refcount \in Nat /\ Dropped(p, F, f) \in Nat
    BY <2>1, DroppedFacts DEF Referenced, FileRec
  <2>3. CASE f \in Closing(p, F)
    BY <1>1, <1>2, <2>3 DEF Released
  <2>4. CASE f \notin Closing(p, F)
    <3>1. n \in Nat /\ (n = 0 => x.refcount = 0 /\ x = NoFile)
      BY <2>1, <2>2, <2>4 DEF Closing, Referenced
    <3>2. G[f] = [x EXCEPT !.refcount = n]
      BY <1>1, <2>1, <2>4
    <3>3. G[f] \in FileRec /\ G[f].refcount = n /\ G[f].ptr = x.ptr /\ G[f].ends = x.ends
      BY <2>2, <3>1, <3>2 DEF FileRec
    <3>4. n = 0 => G[f] = NoFile
      BY <3>1, <3>2 DEF NoFile
    <3>5. QED
      BY <2>1, <2>4, <3>3, <3>4 DEF Released
  <2>5. QED
    BY <2>3, <2>4
<1>4. G \in [Files -> FileRec]
  BY <1>1, <1>3
<1>5. ASSUME NEW f \in {TtyIn, TtyOut} PROVE f \notin Closing(p, F)
  <2>1. /\ f \in Files /\ files[f].refcount > Cardinality(Holders(f)) /\ files[f].refcount \in Nat
        /\ Dropped(p, F, f) \in Nat /\ Cardinality(Holders(f)) \in Nat
        /\ Dropped(p, F, f) =< Cardinality(Holders(f))
    BY NoneFacts, DroppedFacts DEF Referenced, FileRec
  <2>2. QED
    BY <2>1 DEF Closing
<1>6. QED
  BY <1>3, <1>4, <1>5 DEF Closing

\* What becomes of f when the descriptors of F in the table of p are replaced by those of t.
Replaced(p, F, t, f) ==
    /\ files'[f].refcount = 0 => files'[f] = NoFile
    /\ \/ f \in Closing(p, F) /\ files'[f].ptr = None
       \/ /\ f \notin Closing(p, F) /\ files'[f].ptr = files[f].ptr
          /\ files'[f].refcount = files[f].refcount - Dropped(p, F, f) + Cardinality(Uses(t, F, f))

\* Descriptors in the table of p are released, and others take their place.
LEMMA TableRefs ==
    ASSUME Referenced, tables \in Tables, NEW p \in Slots, NEW F \in SUBSET Fds,
           NEW t \in [Fds -> Files \cup {None}], tables' = [tables EXCEPT ![p] = t],
           \A x \in Fds \ F : t[x] = tables[p][x],
           files' \in [Files -> FileRec],
           \A f \in Files : Replaced(p, F, t, f)
    PROVE  Referenced'
<1>1. ASSUME NEW f \in Files, f \notin Closing(p, F)
      PROVE  /\ files[f].refcount =< Cardinality(Holders(f)) =>
                    files'[f].refcount =< Cardinality(Holders(f)')
             /\ files[f].refcount > Cardinality(Holders(f)) =>
                    files'[f].refcount > Cardinality(Holders(f)')
  <2>1. PICK n \in Nat :
           /\ Cardinality(Holders(f)) = n + Cardinality(Uses(tables[p], Fds, f))
           /\ Cardinality(Holders(f)') = n + Cardinality(Uses(t, Fds, f))
           /\ Cardinality(Uses(tables[p], Fds, f)) \in Nat /\ Cardinality(Uses(t, Fds, f)) \in Nat
    BY HoldersStep DEF Tables
  <2>2. Uses(t, Fds \ F, f) = Uses(tables[p], Fds \ F, f)
    BY DEF Uses
  <2>3. PICK a, b, c : /\ a = Cardinality(Uses(tables[p], F, f)) /\ b = Cardinality(Uses(t, F, f))
                       /\ c = Cardinality(Uses(t, Fds \ F, f))
    OBVIOUS
  <2>4. /\ a \in Nat /\ b \in Nat /\ c \in Nat
        /\ Cardinality(Uses(tables[p], Fds, f)) = a + c
        /\ Cardinality(Uses(t, Fds, f)) = b + c
    BY <2>2, <2>3, UsesSplit
  <2>5. Dropped(p, F, f) = a
    BY <2>3, DroppedFacts
  <2>6. files[f].refcount \in Nat /\ files'[f].refcount = files[f].refcount - a + b
    <3>1. Replaced(p, F, t, f)
      OBVIOUS
    <3>2. QED
      BY <1>1, <2>3, <2>5, <3>1 DEF Referenced, FileRec, Replaced
  <2>7. QED
    BY <2>1, <2>4, <2>6
<1>2. ASSUME NEW f \in Files
      PROVE  /\ files'[f].ptr # None => files'[f].refcount =< Cardinality(Holders(f)')
             /\ files'[f].refcount = 0 => files'[f] = NoFile
             /\ f \notin Closing(p, F) => files'[f].ptr = files[f].ptr
  <2>1. Replaced(p, F, t, f)
    OBVIOUS
  <2>2. QED
    BY <1>1, <2>1 DEF Referenced, Replaced
<1>3. ASSUME NEW f \in {TtyIn, TtyOut}
      PROVE  files'[f].ptr = None /\ files'[f].refcount > Cardinality(Holders(f)')
  <2>1. f \in Files /\ f \notin Closing(p, F)
    BY NoneFacts, ReleaseFiles
  <2>2. files[f].ptr = None /\ files[f].refcount > Cardinality(Holders(f))
    BY DEF Referenced
  <2>3. QED
    BY <1>1, <1>2, <2>1, <2>2
<1>4. QED
  BY <1>2, <1>3 DEF Referenced

\* A slot that is free has no descriptors.
FreeTables == \A p \in Slots : procs[p].state = "FREE" => tables[p] = NoTable

Behind == Referenced /\ EndsBounded /\ FreeTables

\* The step keeps files and pipes in order and gives no pipe a name.
Harmless == Behind' /\ NoNewName

\* Whoever comes to his end leaves no descriptors, and nobody else loses any.
LEMMA FreeStep ==
    ASSUME FreeTables, NEW S, Lives(procs, procs', S),
           \A q \in S : tables'[q] = NoTable,
           \A q \in Slots \ S : procs'[q].state = "FREE" /\ procs[q].state = "FREE" => tables'[q] = tables[q]
    PROVE  FreeTables'
BY DEF FreeTables, Lives

\* sys_close of the shell.
LEMMA CloseHarmless ==
    ASSUME Behind, tables \in Tables, IsProcs(procs), NEW a \in Fds, close(Sh, a)
    PROVE  Harmless
<1>1. PICK t, G : t = [tables[Sh] EXCEPT ![a] = None] /\ G = FilesAfter(Sh, {a})
  OBVIOUS
<1>2. /\ tables' = [tables EXCEPT ![Sh] = t] /\ files' = G
      /\ pipes' = PipesAfter(Closing(Sh, {a})) /\ procs[Sh].state = "READY"
  BY <1>1 DEF close, InUserland, Runs
<1>3. /\ t \in [Fds -> Files \cup {None}] /\ \A x \in Fds \ {a} : t[x] = tables[Sh][x]
      /\ t[a] = None /\ Sh \in Slots /\ {a} \in SUBSET Fds /\ Referenced
  BY <1>1, NoneFacts DEF Tables, Behind
<1>4. /\ G \in [Files -> FileRec]
      /\ \A f \in Files : Released(Sh, {a}, G, f)
      /\ Closing(Sh, {a}) \in SUBSET Files
  BY <1>1, <1>3, ReleaseFiles
<1>5. \A f \in Files : Cardinality(Uses(t, {a}, f)) = 0
  <2>1. \A f \in Files : Uses(t, {a}, f) = {}
    BY <1>3, NoneFacts DEF Uses
  <2>2. QED
    BY <2>1, FS_EmptySet
<1>6. Referenced'
  <2>1. ASSUME NEW f \in Files PROVE Replaced(Sh, {a}, t, f)
    <3>1. Released(Sh, {a}, G, f) /\ files' = G /\ NoFile.ptr = None
      BY <1>2, <1>4 DEF NoFile
    <3>2. PICK n, d, u : /\ n = files[f].refcount /\ d = Dropped(Sh, {a}, f)
                         /\ u = Cardinality(Uses(t, {a}, f))
      OBVIOUS
    <3>3. n \in Nat /\ d \in Nat /\ u = 0
      BY <1>3, <1>5, <3>2, DroppedFacts DEF Referenced, FileRec
    <3>4. QED
      BY <3>1, <3>2, <3>3 DEF Released, Replaced
  <2>2. QED
    BY <1>2, <1>3, <1>4, <2>1, TableRefs
<1>7. EndsBounded' /\ NoNewName
  <2>1. NoFile.ptr = None
    BY DEF NoFile
  <2>2. \A f \in Files : IF f \in Closing(Sh, {a}) THEN files'[f].ptr = None
                         ELSE files'[f].ptr = files[f].ptr /\ files'[f].ends = files[f].ends
    BY <1>2, <1>4, <2>1 DEF Released
  <2>3. QED
    BY <1>2, <1>4, <2>2, ReleaseEnds DEF Behind
<1>8. FreeTables'
  <2>1. Lives(procs, procs', {})
    BY <1>3, CallLives
  <2>2. \A q \in Slots : procs[q].state = "FREE" => tables'[q] = tables[q]
    BY <1>2
  <2>3. QED
    BY <2>1, <2>2, FreeStep DEF Behind
<1>9. QED
  BY <1>6, <1>7, <1>8 DEF Harmless, Behind

\* sys_dup2 of the shell.
LEMMA Dup2Harmless ==
    ASSUME Behind, tables \in Tables, IsProcs(procs), NEW a \in Fds, NEW b \in Fds, dup2(Sh, a, b)
    PROVE  Harmless
<1>1. PICK src, t, G : /\ src = tables[Sh][a] /\ t = [tables[Sh] EXCEPT ![b] = src]
                       /\ G = FilesAfter(Sh, {b})
  OBVIOUS
<1>2. /\ tables' = [tables EXCEPT ![Sh] = t] /\ src # None
      /\ files' = [G EXCEPT ![src] = file_ref(G[src], 1)]
      /\ pipes' = PipesAfter(Closing(Sh, {b})) /\ procs[Sh].state = "READY"
  BY <1>1 DEF dup2, InUserland, Runs
<1>3. /\ t \in [Fds -> Files \cup {None}] /\ \A x \in Fds \ {b} : t[x] = tables[Sh][x]
      /\ src \in Files /\ t[b] = src /\ Sh \in Slots /\ {b} \in SUBSET Fds /\ Referenced
  BY <1>1, <1>2, NoneFacts DEF Tables, Behind
<1>4. /\ G \in [Files -> FileRec]
      /\ \A f \in Files : Released(Sh, {b}, G, f)
      /\ Closing(Sh, {b}) \in SUBSET Files
  BY <1>1, <1>3, ReleaseFiles
<1>5. \A f \in Files : Cardinality(Uses(t, {b}, f)) = IF f = src THEN 1 ELSE 0
  <2>1. \A f \in Files : Uses(t, {b}, f) = IF f = src THEN {b} ELSE {}
    BY <1>3 DEF Uses
  <2>2. Cardinality({b}) = 1
    BY FS_Singleton
  <2>3. QED
    BY <2>1, <2>2, FS_EmptySet
<1>6. /\ files' \in [Files -> FileRec]
      /\ \A f \in Files : /\ files'[f].ptr = G[f].ptr /\ files'[f].ends = G[f].ends
                          /\ files'[f].refcount = G[f].refcount + IF f = src THEN 1 ELSE 0
                          /\ files'[f].refcount = 0 => files'[f] = NoFile
  <2>1. PICK x, y : x = G[src] /\ y = file_ref(x, 1)
    OBVIOUS
  <2>2. x \in FileRec
    BY <1>3, <1>4, <2>1
  <2>3. y \in FileRec /\ y.ptr = x.ptr /\ y.ends = x.ends /\ y.refcount = x.refcount + 1 /\ y.refcount # 0
    BY <2>1, <2>2 DEF file_ref, FileRec
  <2>4. files' = [G EXCEPT ![src] = y]
    BY <1>2, <2>1
  <2>5. \A f \in Files : files'[f] = IF f = src THEN y ELSE G[f]
    BY <1>4, <2>4
  <2>6. files' \in [Files -> FileRec]
    BY <1>4, <2>3, <2>4
  <2>7. ASSUME NEW f \in Files, f # src
        PROVE  /\ files'[f] = G[f] /\ G[f].refcount \in Nat
               /\ G[f].refcount + 0 = G[f].refcount
    BY <1>4, <2>5, <2>7 DEF FileRec
  <2>8. ASSUME NEW f \in Files
        PROVE  /\ files'[f].ptr = G[f].ptr /\ files'[f].ends = G[f].ends
               /\ files'[f].refcount = G[f].refcount + IF f = src THEN 1 ELSE 0
               /\ files'[f].refcount = 0 => files'[f] = NoFile
    <3>1. CASE f = src
      BY <2>1, <2>3, <2>5, <3>1
    <3>2. CASE f # src
      <4>1. Released(Sh, {b}, G, f)
        BY <1>4
      <4>2. QED
        BY <2>7, <3>2, <4>1 DEF Released
    <3>3. QED
      BY <3>1, <3>2
  <2>9. QED
    BY <2>6, <2>8
<1>7. NoFile.ptr = None
  BY DEF NoFile
<1>8. Referenced'
  <2>1. ASSUME NEW f \in Files PROVE Replaced(Sh, {b}, t, f)
    <3>1. Released(Sh, {b}, G, f)
      BY <1>4
    <3>2. PICK n, d, u : /\ n = files[f].refcount /\ d = Dropped(Sh, {b}, f)
                         /\ u = Cardinality(Uses(t, {b}, f))
      OBVIOUS
    <3>3. /\ files'[f].ptr = G[f].ptr /\ files'[f].refcount = G[f].refcount + u
          /\ files'[f].refcount = 0 => files'[f] = NoFile
      BY <1>5, <1>6, <3>2
    <3>4. QED
      BY <1>7, <3>1, <3>2, <3>3 DEF Released, Replaced
  <2>2. QED
    BY <1>2, <1>3, <1>6, <2>1, TableRefs
<1>9. EndsBounded' /\ NoNewName
  <2>1. \A f \in Files : IF f \in Closing(Sh, {b}) THEN files'[f].ptr = None
                         ELSE files'[f].ptr = files[f].ptr /\ files'[f].ends = files[f].ends
    BY <1>4, <1>6, <1>7 DEF Released
  <2>2. QED
    BY <1>2, <1>4, <2>1, ReleaseEnds DEF Behind
<1>10. FreeTables'
  <2>1. Lives(procs, procs', {})
    BY <1>3, CallLives
  <2>2. \A q \in Slots : procs[q].state = "FREE" => tables'[q] = tables[q]
    BY <1>2
  <2>3. QED
    BY <2>1, <2>2, FreeStep DEF Behind
<1>11. QED
  BY <1>8, <1>9, <1>10 DEF Harmless, Behind

\* The end of a process releases what it has open.
LEMMA EndHarmless ==
    ASSUME Behind, tables \in Tables, IsProcs(procs), NEW p \in Slots, End(p)
    PROVE  Harmless
<1>1. PICK G : G = FilesAfter(p, Fds)
  OBVIOUS
<1>2. /\ tables' = [tables EXCEPT ![p] = NoTable] /\ files' = G
      /\ pipes' = PipesAfter(Closing(p, Fds))
  BY <1>1 DEF End
<1>3. NoTable \in [Fds -> Files \cup {None}] /\ Referenced /\ Fds \in SUBSET Fds
  BY DEF NoTable, Behind
<1>4. /\ G \in [Files -> FileRec] /\ \A f \in Files : Released(p, Fds, G, f)
      /\ Closing(p, Fds) \in SUBSET Files
  BY <1>1, <1>3, ReleaseFiles
<1>5. \A f \in Files : Cardinality(Uses(NoTable, Fds, f)) = 0
  <2>1. \A f \in Files : Uses(NoTable, Fds, f) = {}
    BY NoneFacts DEF Uses, NoTable
  <2>2. QED
    BY <2>1, FS_EmptySet
<1>6. NoFile.ptr = None
  BY DEF NoFile
<1>7. Referenced'
  <2>1. ASSUME NEW f \in Files PROVE Replaced(p, Fds, NoTable, f)
    <3>1. Released(p, Fds, G, f) /\ files' = G
      BY <1>2, <1>4
    <3>2. PICK n, d, u : /\ n = files[f].refcount /\ d = Dropped(p, Fds, f)
                         /\ u = Cardinality(Uses(NoTable, Fds, f))
      OBVIOUS
    <3>3. n \in Nat /\ d \in Nat /\ u = 0
      BY <1>3, <1>5, <3>2, DroppedFacts DEF Referenced, FileRec
    <3>4. QED
      BY <1>6, <3>1, <3>2, <3>3 DEF Released, Replaced
  <2>2. \A x \in Fds \ Fds : NoTable[x] = tables[p][x]
    OBVIOUS
  <2>3. QED
    BY <1>2, <1>3, <1>4, <2>1, <2>2, TableRefs
<1>8. EndsBounded' /\ NoNewName
  <2>1. \A f \in Files : IF f \in Closing(p, Fds) THEN files'[f].ptr = None
                         ELSE files'[f].ptr = files[f].ptr /\ files'[f].ends = files[f].ends
    BY <1>2, <1>4, <1>6 DEF Released
  <2>2. QED
    BY <1>2, <1>4, <2>1, ReleaseEnds DEF Behind
<1>9. FreeTables'
  <2>1. Lives(procs, procs', {p})
    BY EndLives
  <2>2. \A q \in Slots \ {p} : tables'[q] = tables[q]
    BY <1>2
  <2>3. tables'[p] = NoTable
    BY <1>2 DEF Tables
  <2>4. QED
    BY <2>1, <2>2, <2>3, FreeStep DEF Behind
<1>10. QED
  BY <1>7, <1>8, <1>9 DEF Harmless, Behind

\* Files and pipes that keep what the ends of a pipe depend on.
LEMMA SameEnds ==
    ASSUME EndsBounded, IsPipes(pipes'),
           \A f \in Files : files'[f].ptr = files[f].ptr /\ files'[f].ends = files[f].ends,
           \A q \in Pipes :
              /\ pipes'[q].readers = pipes[q].readers /\ pipes'[q].writers = pipes[q].writers
              /\ pipes'[q].used = pipes[q].used /\ pipes'[q].unlinked = pipes[q].unlinked
              /\ pipes'[q].name = pipes[q].name
    PROVE  EndsBounded' /\ NoNewName
<1>1. \A q, e : OpenEnds(q, e)' = OpenEnds(q, e)
  BY DEF OpenEnds
<1>2. QED
  BY <1>1 DEF EndsBounded, NoNewName

\* proc_create gives a child the descriptors of the shell.
LEMMA CreateHarmless ==
    ASSUME Behind, tables \in Tables, IsProcs(procs), NEW p \in Slots, proc_create(Sh, p)
    PROVE  Harmless
<1>1. PICK t : t = tables[Sh]
  OBVIOUS
<1>2. /\ tables' = [tables EXCEPT ![p] = t] /\ UNCHANGED pipes /\ procs[p].state = "FREE"
      /\ files' = [f \in Files |-> file_ref(files[f], Dropped(Sh, Fds, f))]
  BY <1>1 DEF proc_create
<1>3. /\ t \in [Fds -> Files \cup {None}] /\ Referenced /\ Sh \in Slots /\ Fds \in SUBSET Fds
      /\ tables[p] = NoTable
  BY <1>1, <1>2, NoneFacts DEF Tables, Behind, FreeTables
<1>4. ASSUME NEW f \in Files PROVE Dropped(p, Fds, f) = 0 /\ f \notin Closing(p, Fds)
  <2>1. Uses(tables[p], Fds, f) = {}
    BY <1>3, NoneFacts DEF Uses, NoTable
  <2>2. Dropped(p, Fds, f) = 0
    BY <1>3, <2>1, DroppedFacts, FS_EmptySet
  <2>3. QED
    BY <2>2 DEF Closing
<1>5. ASSUME NEW f \in Files
      PROVE  /\ files'[f] \in FileRec
             /\ files'[f].ptr = files[f].ptr /\ files'[f].ends = files[f].ends
             /\ Replaced(p, Fds, t, f)
  <2>1. PICK x, d, y : x = files[f] /\ d = Dropped(Sh, Fds, f) /\ y = file_ref(x, d)
    OBVIOUS
  <2>2. x \in FileRec /\ d \in Nat /\ d = Cardinality(Uses(t, Fds, f))
    BY <1>1, <1>3, <2>1, DroppedFacts DEF Referenced
  <2>3. y \in FileRec /\ y.ptr = x.ptr /\ y.ends = x.ends /\ y.refcount = x.refcount + d
    BY <2>1, <2>2 DEF file_ref, FileRec
  <2>4. files'[f] = y
    BY <1>2, <2>1
  <2>5. y.refcount = 0 => y = NoFile
    <3>1. SUFFICES ASSUME y.refcount = 0 PROVE y = NoFile
      OBVIOUS
    <3>2. x.refcount = 0 /\ x = NoFile
      BY <1>3, <2>1, <2>2, <2>3, <3>1 DEF FileRec, Referenced
    <3>3. QED
      BY <2>3, <3>1, <3>2 DEF FileRec, NoFile
  <2>6. y.refcount = x.refcount - 0 + d
    BY <2>2, <2>3 DEF FileRec
  <2>7. QED
    BY <1>4, <2>1, <2>2, <2>3, <2>4, <2>5, <2>6 DEF Replaced
<1>6. files' \in [Files -> FileRec]
  BY <1>2, <1>5
<1>7. Referenced'
  <2>1. \A x \in Fds \ Fds : t[x] = tables[p][x]
    OBVIOUS
  <2>2. QED
    BY <1>2, <1>3, <1>5, <1>6, <2>1, TableRefs
<1>8. EndsBounded' /\ NoNewName
  <2>1. IsPipes(pipes')
    BY <1>2 DEF Behind, EndsBounded
  <2>2. QED
    BY <1>2, <1>5, <2>1, SameEnds DEF Behind
<1>9. FreeTables'
  <2>1. Lives(procs, procs', {})
    BY <1>3, CallLives
  <2>2. procs'[p].state # "FREE"
    <3>1. procs' = [procs EXCEPT ![p] = [NoProc EXCEPT !.state = "READY"]]
      BY DEF proc_create
    <3>2. procs'[p].state = "READY"
      BY <3>1 DEF IsProcs, NoProc
    <3>3. QED
      BY <3>2
  <2>3. \A q \in Slots : q # p => tables'[q] = tables[q]
    BY <1>2
  <2>4. QED
    BY <2>1, <2>2, <2>3, FreeStep DEF Behind
<1>10. QED
  BY <1>7, <1>8, <1>9 DEF Harmless, Behind

\* y is the pipe x with other bytes in it or other processes that wait.
Alike(x, y) ==
    /\ IsPipe(y) /\ y.readers = x.readers /\ y.writers = x.writers /\ y.used = x.used
    /\ y.unlinked = x.unlinked /\ y.name = x.name

\* What a pipe becomes when bytes are moved, and who waits for it changes.
Emptier(x, r, size, queue) == [[x EXCEPT !.r = r, !.size = size] EXCEPT !.writeq = queue]
Fuller(x, buf, w, size, queue) ==
    [[x EXCEPT !.buf = buf, !.w = w, !.size = size] EXCEPT !.readq = queue]
Requeued(x, rq, wq) == [x EXCEPT !.readq = rq, !.writeq = wq]

LEMMA AlikeForms ==
    ASSUME NEW x, IsPipe(x), NEW buf, NEW r, NEW w, NEW size, NEW rq, NEW wq
    PROVE  /\ Alike(x, Emptier(x, r, size, wq))
           /\ Alike(x, Fuller(x, buf, w, size, rq))
           /\ Alike(x, Requeued(x, rq, wq))
<1>1. Alike(x, Emptier(x, r, size, wq))
  BY DEF Alike, IsPipe, Emptier
<1>2. Alike(x, Fuller(x, buf, w, size, rq))
  BY DEF Alike, IsPipe, Fuller
<1>3. Alike(x, Requeued(x, rq, wq))
  BY DEF Alike, IsPipe, Requeued
<1>4. QED
  BY <1>1, <1>2, <1>3

\* Only one pipe changes, and that one in such a way.
LEMMA PutAlike ==
    ASSUME IsPipes(pipes), NEW q, NEW y, q \in Pipes => Alike(pipes[q], y),
           pipes' = [pipes EXCEPT ![q] = y]
    PROVE  IsPipes(pipes') /\ \A o \in Pipes : Alike(pipes[o], pipes'[o])
<1>1. PICK P : P = pipes /\ P = [o \in Pipes |-> P[o]] /\ \A o \in Pipes : IsPipe(P[o])
  BY DEF IsPipes
<1>2. pipes' = [o \in Pipes |-> IF o = q THEN y ELSE P[o]]
  BY <1>1
<1>3. pipes' = [o \in Pipes |-> pipes'[o]] /\ \A o \in Pipes : pipes'[o] = IF o = q THEN y ELSE P[o]
  BY <1>2
<1>4. \A o \in Pipes : Alike(P[o], P[o])
  BY <1>1 DEF Alike
<1>5. \A o \in Pipes : Alike(P[o], pipes'[o])
  BY <1>1, <1>3, <1>4
<1>6. QED
  BY <1>1, <1>3, <1>5 DEF IsPipes, Alike

\* kpipe_read and kpipe_write move bytes through one pipe, or queue for it.
LEMMA BytesAlike ==
    ASSUME IsPipes(pipes), NEW p, NEW q, NEW n, kpipe_read(p, q, n) \/ kpipe_write(p, q, n)
    PROVE  IsPipes(pipes') /\ \A o \in Pipes : Alike(pipes[o], pipes'[o])
<1>1. PICK x : x = pipes[q] /\ (q \in Pipes => IsPipe(x))
  BY DEF IsPipes
<1>2. CASE UNCHANGED pipes
  BY <1>2 DEF Alike, IsPipes
<1>3. ASSUME NEW m, pipes' = [pipes EXCEPT ![q] = [Drain(x, m) EXCEPT !.writeq = Rest(@)]]
      PROVE  IsPipes(pipes') /\ \A o \in Pipes : Alike(pipes[o], pipes'[o])
  <2>1. PICK r, size : r = (x.r + m) % PIPE_CAP /\ size = x.size - m
    OBVIOUS
  <2>2. PICK y : y = [x EXCEPT !.r = r, !.size = size]
    OBVIOUS
  <2>3. Drain(x, m) = y
    BY <2>1, <2>2, Zenon DEF Drain
  <2>4. PICK queue : queue = Rest(y.writeq)
    OBVIOUS
  <2>5. PICK z : z = Emptier(x, r, size, queue)
    OBVIOUS
  <2>6. pipes' = [pipes EXCEPT ![q] = z]
    BY <1>3, <2>2, <2>3, <2>4, <2>5, Zenon DEF Emptier
  <2>7. q \in Pipes => Alike(pipes[q], z)
    BY <1>1, <2>5, AlikeForms
  <2>8. QED
    BY <2>6, <2>7, PutAlike
<1>4. ASSUME NEW bytes, pipes' = [pipes EXCEPT ![q] = [Fill(x, bytes) EXCEPT !.readq = Rest(@)]]
      PROVE  IsPipes(pipes') /\ \A o \in Pipes : Alike(pipes[o], pipes'[o])
  <2>1. PICK y : y = Fill(x, bytes)
    OBVIOUS
  <2>2. PICK buf, w, size : y = [x EXCEPT !.buf = buf, !.w = w, !.size = size]
    BY <2>1, Zenon DEF Fill
  <2>3. PICK queue : queue = Rest(y.readq)
    OBVIOUS
  <2>4. PICK z : z = Fuller(x, buf, w, size, queue)
    OBVIOUS
  <2>5. pipes' = [pipes EXCEPT ![q] = z]
    BY <1>4, <2>1, <2>2, <2>3, <2>4, Zenon DEF Fuller
  <2>6. q \in Pipes => Alike(pipes[q], z)
    BY <1>1, <2>4, AlikeForms
  <2>7. QED
    BY <2>5, <2>6, PutAlike
<1>5. CASE pipes' = [pipes EXCEPT ![q].readq = Append(@, p)]
  <2>1. PICK y, z : /\ y = [x EXCEPT !.readq = Append(x.readq, p)]
                   /\ z = Requeued(x, Append(x.readq, p), x.writeq)
    OBVIOUS
  <2>2. pipes' = [pipes EXCEPT ![q] = y]
    BY <1>1, <1>5, <2>1, Zenon
  <2>3. q \in Pipes => Alike(x, z)
    BY <1>1, <2>1, AlikeForms
  <2>4. q \in Pipes => y = z
    BY <1>1, <2>1 DEF IsPipe, Requeued
  <2>5. QED
    BY <1>1, <2>2, <2>3, <2>4, PutAlike
<1>6. CASE pipes' = [pipes EXCEPT ![q].writeq = Append(@, p)]
  <2>1. PICK y, z : /\ y = [x EXCEPT !.writeq = Append(x.writeq, p)]
                   /\ z = Requeued(x, x.readq, Append(x.writeq, p))
    OBVIOUS
  <2>2. pipes' = [pipes EXCEPT ![q] = y]
    BY <1>1, <1>6, <2>1, Zenon
  <2>3. q \in Pipes => Alike(x, z)
    BY <1>1, <2>1, AlikeForms
  <2>4. q \in Pipes => y = z
    BY <1>1, <2>1 DEF IsPipe, Requeued
  <2>5. QED
    BY <1>1, <2>2, <2>3, <2>4, PutAlike
<1>7. CASE kpipe_read(p, q, n)
  BY <1>1, <1>2, <1>3, <1>5, <1>7, Zenon DEF kpipe_read
<1>8. CASE kpipe_write(p, q, n)
  BY <1>1, <1>2, <1>4, <1>6, <1>8, Zenon DEF kpipe_write
<1>9. QED
  BY <1>7, <1>8

\* Where tables and files stay as they are, and pipes as far as their ends go.
LEMMA AlikeHarmless ==
    ASSUME Behind, UNCHANGED <<files, tables>>, Lives(procs, procs', {}),
           IsPipes(pipes'), \A q \in Pipes : Alike(pipes[q], pipes'[q])
    PROVE  Harmless
<1>1. Referenced'
  <2>1. \A f : Holders(f)' = Holders(f)
    BY DEF Holders
  <2>2. QED
    BY <2>1 DEF Behind, Referenced
<1>2. EndsBounded' /\ NoNewName
  BY SameEnds DEF Behind, Alike
<1>3. FreeTables'
  BY FreeStep DEF Behind
<1>4. QED
  BY <1>1, <1>2, <1>3 DEF Harmless, Behind

\* Nothing happens to files and pipes.
LEMMA SameHarmless ==
    ASSUME Behind, IsProcs(procs), UNCHANGED vars
    PROVE  Harmless
<1>1. UNCHANGED <<pipes, files, tables, procs>>
  BY DEF vars
<1>2. Lives(procs, procs', {})
  BY <1>1 DEF Lives
<1>3. IsPipes(pipes)
  BY DEF Behind, EndsBounded
<1>4. \A q \in Pipes : Alike(pipes[q], pipes[q])
  BY <1>3 DEF Alike, IsPipes
<1>5. QED
  BY <1>1, <1>2, <1>3, <1>4, AlikeHarmless

\* What a process reads and prints.
LEMMA TransferHarmless ==
    ASSUME Behind, IsProcs(procs), NEW p \in Slots, Output(p) \/ read(p, SHELL_STDIN) \/ Resumes(p)
    PROVE  Harmless
<1>1. CASE UNCHANGED vars
  BY <1>1, SameHarmless
<1>2. CASE write(p, SHELL_STDOUT) \/ read(p, SHELL_STDIN) \/ Resumes(p)
  <2>1. UNCHANGED <<files, tables>> /\ \E q, n : kpipe_read(p, q, n) \/ kpipe_write(p, q, n)
    BY <1>2 DEF write, read, Resumes
  <2>2. Lives(procs, procs', {})
    BY <1>2, CallLives
  <2>3. IsPipes(pipes)
    BY DEF Behind, EndsBounded
  <2>4. QED
    BY <2>1, <2>2, <2>3, BytesAlike, AlikeHarmless
<1>3. QED
  BY <1>1, <1>2 DEF Output

\* kpipe_unlink takes the name from a pipe.
LEMMA UnlinkHarmless ==
    ASSUME Behind, IsProcs(procs), NEW name, pipe_unlink(Sh, name)
    PROVE  Harmless /\ \E q \in Found(name) : q \notin Linked'
<1>1. /\ UNCHANGED <<files, tables, procs>> /\ procs[Sh].state = "READY"
      /\ \A q : Found(name) \subseteq Linked /\ Linked \subseteq Pipes
  BY DEF pipe_unlink, InUserland, Runs, Found, Linked
<1>2. PICK q \in Found(name) :
          pipes' = [pipes EXCEPT ![q] = IF pipes[q].readers = 0 /\ pipes[q].writers = 0 THEN NoPipe
                                        ELSE [pipes[q] EXCEPT !.unlinked = TRUE]]
  BY DEF pipe_unlink
<1>3. PICK x, y : /\ x = pipes[q]
                  /\ y = IF x.readers = 0 /\ x.writers = 0 THEN NoPipe
                         ELSE [x EXCEPT !.unlinked = TRUE]
  OBVIOUS
<1>4. q \in Pipes /\ IsPipe(x) /\ IsPipes(pipes) /\ x.readers \in Nat /\ x.writers \in Nat
  BY <1>1, <1>3 DEF Behind, EndsBounded, IsPipes, IsPipe
<1>5. /\ IsPipe(y) /\ y.readers = x.readers /\ y.writers = x.writers
      /\ ~y.used \/ (y.unlinked /\ (y.readers > 0 \/ y.writers > 0))
  <2>1. CASE x.readers = 0 /\ x.writers = 0
    BY <1>3, <2>1 DEF IsPipe, NoPipe
  <2>2. CASE ~(x.readers = 0 /\ x.writers = 0)
    <3>1. y = [x EXCEPT !.unlinked = TRUE]
      BY <1>3, <2>2
    <3>2. IsPipe(y) /\ y.readers = x.readers /\ y.writers = x.writers /\ y.unlinked
      BY <1>4, <3>1 DEF IsPipe
    <3>3. QED
      BY <1>4, <2>2, <3>2
  <2>3. QED
    BY <2>1, <2>2
<1>6. pipes' = [o \in Pipes |-> IF o = q THEN y ELSE pipes[o]]
  BY <1>2, <1>3, <1>4 DEF IsPipes
<1>7. pipes' = [o \in Pipes |-> pipes'[o]] /\ \A o \in Pipes : pipes'[o] = IF o = q THEN y ELSE pipes[o]
  BY <1>6
<1>8. IsPipes(pipes')
  BY <1>4, <1>5, <1>7 DEF IsPipes
<1>9. q \notin Linked'
  BY <1>4, <1>5, <1>7 DEF Linked
<1>10. Referenced'
  <2>1. \A f : Holders(f)' = Holders(f)
    BY <1>1 DEF Holders
  <2>2. QED
    BY <1>1, <2>1 DEF Behind, Referenced
<1>11. EndsBounded' /\ NoNewName
  <2>1. \A o, e : OpenEnds(o, e)' = OpenEnds(o, e)
    BY <1>1 DEF OpenEnds
  <2>2. EndsBounded
    BY DEF Behind
  <2>3. ASSUME NEW o \in Pipes
        PROVE  /\ pipes'[o].readers =< Cardinality(OpenEnds(o, "read")')
               /\ pipes'[o].writers =< Cardinality(OpenEnds(o, "write")')
               /\ pipes'[o].used /\ pipes'[o].unlinked =>
                      pipes'[o].readers > 0 \/ pipes'[o].writers > 0
               /\ pipes'[o].used /\ ~pipes'[o].unlinked =>
                      pipes[o].used /\ ~pipes[o].unlinked /\ pipes'[o].name = pipes[o].name
    <3>1. CASE o = q
      BY <1>3, <1>5, <1>7, <2>1, <2>2, <3>1 DEF EndsBounded
    <3>2. CASE o # q
      BY <1>7, <2>1, <2>2, <3>2 DEF EndsBounded
    <3>3. QED
      BY <3>1, <3>2
  <2>4. QED
    BY <1>8, <2>3 DEF EndsBounded, NoNewName
<1>12. FreeTables'
  BY <1>1 DEF Behind, FreeTables
<1>13. QED
  BY <1>9, <1>10, <1>11, <1>12 DEF Harmless, Behind

\* kpipe_open and fd_table_attach: descriptor fd stands for the new file f, which is an end
\* of the pipe x at q.
Attached(name, end, fd, f, q, x) ==
    /\ fd \in Fds /\ tables[Sh][fd] = None /\ tables' = [tables EXCEPT ![Sh][fd] = f]
    /\ f \in Files /\ files[f].refcount = 0
    /\ files' = [files EXCEPT ![f] = [refcount |-> 1, ptr |-> q, ends |-> {end}]]
    /\ q \in Pipes /\ pipes' = [pipes EXCEPT ![q] = Opened(x, {end})]
    /\ \/ q \in Found(name) /\ x = pipes[q]
       \/ Found(name) = {} /\ ~pipes[q].used /\ x = [NoPipe EXCEPT !.used = TRUE, !.name = name]
    /\ procs[Sh].state = "READY" /\ UNCHANGED procs

\* That is what sys_pipe_open does when it succeeds.
LEMMA OpenForm ==
    ASSUME tables \in Tables, NEW name, NEW end, open(name, end)
    PROVE  \E fd, f, q, x : Attached(name, end, fd, f, q, x)
<1> DEFINE fds == {y \in Fds : tables[Sh][y] = None}
           fd == CHOOSE y \in fds : \A z \in fds : y =< z
           Taken(q, x) ==
              /\ fds # {}
              /\ \E f \in Files :
                    /\ files[f].refcount = 0
                    /\ files' = [files EXCEPT ![f] = [refcount |-> 1, ptr |-> q, ends |-> {end}]]
                    /\ tables' = [tables EXCEPT ![Sh][fd] = f]
              /\ pipes' = [pipes EXCEPT ![q] = Opened(x, {end})]
              /\ UNCHANGED procs
<1>1. pipe_open(Sh, name, {end}) /\ tables' # tables
  BY DEF open
<1>2. procs[Sh].state = "READY"
  BY <1>1 DEF pipe_open, InUserland, Runs
<1>3. \/ \E q \in Found(name) : Taken(q, pipes[q])
      \/ \E q \in Pipes :
            /\ Found(name) = {} /\ ~pipes[q].used
            /\ Taken(q, [NoPipe EXCEPT !.used = TRUE, !.name = name])
  BY <1>1, Zenon DEF pipe_open
<1>4. PICK q, x :
        /\ \/ q \in Found(name) /\ x = pipes[q]
           \/ /\ q \in Pipes /\ Found(name) = {} /\ ~pipes[q].used
              /\ x = [NoPipe EXCEPT !.used = TRUE, !.name = name]
        /\ Taken(q, x)
  BY <1>3, Zenon
<1>5. fd \in fds
  <2>1. fds \in SUBSET Nat /\ fds # {}
    BY <1>4, FdFacts
  <2>2. QED
    BY <2>1, SmallestOf
<1>6. PICK g : g = fd /\ g \in Fds /\ tables[Sh][g] = None
  BY <1>5
<1>7. PICK f \in Files :
         /\ files[f].refcount = 0
         /\ files' = [files EXCEPT ![f] = [refcount |-> 1, ptr |-> q, ends |-> {end}]]
         /\ tables' = [tables EXCEPT ![Sh][g] = f]
  BY <1>4, <1>6
<1>8. q \in Pipes
  BY <1>4 DEF Found, Linked
<1>9. pipes' = [pipes EXCEPT ![q] = Opened(x, {end})] /\ UNCHANGED procs
  BY <1>4
<1> HIDE DEF fds, fd, Taken
<1>10. Attached(name, end, g, f, q, x)
  BY <1>2, <1>4, <1>6, <1>7, <1>8, <1>9, Zenon DEF Attached
<1>11. QED
  BY <1>10

\* A new file at a descriptor that was free.
LEMMA NewFileRefs ==
    ASSUME Referenced, tables \in Tables, NEW fd \in Fds, tables[Sh][fd] = None,
           NEW f \in Files, files[f].refcount = 0, tables' = [tables EXCEPT ![Sh][fd] = f],
           NEW q \in Pipes, NEW ends \in SUBSET {"read", "write"},
           files' = [files EXCEPT ![f] = [refcount |-> 1, ptr |-> q, ends |-> ends]]
    PROVE  Referenced' /\ f \notin {TtyIn, TtyOut} /\ files[f] = NoFile
<1>1. PICK y : y = [refcount |-> 1, ptr |-> q, ends |-> ends]
  OBVIOUS
<1>2. y \in FileRec /\ y.refcount = 1
  BY <1>1 DEF FileRec
<1>3. files' \in [Files -> FileRec] /\ \A g \in Files : files'[g] = IF g = f THEN y ELSE files[g]
  BY <1>1, <1>2 DEF Referenced
<1>4. \A p \in Slots, d \in Fds : tables'[p][d] = IF p = Sh /\ d = fd THEN f ELSE tables[p][d]
  BY NoneFacts DEF Tables
<1>5. \A g \in Files : g # f => Holders(g)' = Holders(g)
  <2>1. ASSUME NEW g \in Files, g # f, NEW p \in Slots, NEW d \in Fds
        PROVE  tables'[p][d] = g <=> tables[p][d] = g
    BY <1>4, <2>1, NoneFacts
  <2>2. QED
    BY <2>1 DEF Holders
<1>6. Cardinality(Holders(f)') >= 1
  <2>1. Holders(f)' \in SUBSET (Slots \X Fds) /\ {<<Sh, fd>>} \in SUBSET (Holders(f)')
    BY <1>4, NoneFacts DEF Holders
  <2>2. IsFiniteSet(Holders(f)') /\ Cardinality(Holders(f)') \in Nat
    BY <2>1, PipeAssumption, FdsFinite, FS_Product, FS_Subset, FS_CardinalityType
  <2>3. Cardinality({<<Sh, fd>>}) = 1 /\ Cardinality({<<Sh, fd>>}) =< Cardinality(Holders(f)')
    BY <2>1, <2>2, FS_Singleton, FS_Subset
  <2>4. QED
    BY <2>2, <2>3
<1>7. f \notin {TtyIn, TtyOut}
  <2>1. Cardinality(Holders(f)) \in Nat
    BY NoneFacts, DroppedFacts
  <2>2. QED
    BY <2>1 DEF Referenced
<1>8. ASSUME NEW g \in Files
      PROVE  /\ files'[g].refcount = 0 => files'[g] = NoFile
             /\ files'[g].ptr # None => files'[g].refcount =< Cardinality(Holders(g)')
  <2>1. CASE g = f
    BY <1>3, <1>6, <1>2, <2>1
  <2>2. CASE g # f
    BY <1>3, <1>5, <2>2 DEF Referenced
  <2>3. QED
    BY <2>1, <2>2
<1>9. \A g \in {TtyIn, TtyOut} :
          files'[g].ptr = None /\ files'[g].refcount > Cardinality(Holders(g)')
  BY <1>3, <1>5, <1>7, NoneFacts DEF Referenced
<1>10. QED
  BY <1>3, <1>7, <1>8, <1>9 DEF Referenced

\* A new end of a pipe that was there, or that is new as well.
LEMMA NewEnd ==
    ASSUME EndsBounded, files \in [Files -> FileRec], NEW name, NEW end \in {"read", "write"}, NEW fd,
           NEW f, NEW q, NEW x, Attached(name, end, fd, f, q, x), files[f] = NoFile
    PROVE  EndsBounded' /\ q \in Linked' /\ pipes'[q].name = name
<1>0. /\ f \in Files /\ q \in Pipes
      /\ files' = [files EXCEPT ![f] = [refcount |-> 1, ptr |-> q, ends |-> {end}]]
      /\ pipes' = [pipes EXCEPT ![q] = Opened(x, {end})]
      /\ \/ q \in Found(name) /\ x = pipes[q]
         \/ Found(name) = {} /\ ~pipes[q].used /\ x = [NoPipe EXCEPT !.used = TRUE, !.name = name]
  BY DEF Attached
<1>1. PICK y : y = Opened(x, {end})
  OBVIOUS
<1>2. /\ IsPipe(x) /\ x.used /\ ~x.unlinked /\ x.name = name
      /\ x.readers \in Nat /\ x.writers \in Nat
      /\ x.readers =< Cardinality(OpenEnds(q, "read"))
      /\ x.writers =< Cardinality(OpenEnds(q, "write"))
  <2>1. CASE q \in Found(name) /\ x = pipes[q]
    BY <1>0, <2>1 DEF EndsBounded, IsPipes, IsPipe, Found, Linked
  <2>2. CASE x = [NoPipe EXCEPT !.used = TRUE, !.name = name]
    <3>1. IsPipe(x) /\ x.used /\ ~x.unlinked /\ x.name = name /\ x.readers = 0 /\ x.writers = 0
      BY <2>2 DEF NoPipe, IsPipe
    <3>2. Cardinality(OpenEnds(q, "read")) \in Nat /\ Cardinality(OpenEnds(q, "write")) \in Nat
      BY OpenEndsFinite
    <3>3. QED
      BY <3>1, <3>2
  <2>3. QED
    BY <1>0, <2>1, <2>2
<1>3. PICK rd, wr : rd = One({end}, "read") /\ wr = One({end}, "write")
  OBVIOUS
<1>4. rd = (IF end = "read" THEN 1 ELSE 0) /\ wr = (IF end = "write" THEN 1 ELSE 0)
  BY <1>3 DEF One
<1>5. y = [x EXCEPT !.readers = x.readers + rd, !.writers = x.writers + wr]
  BY <1>1, <1>3 DEF Opened
<1>6. /\ IsPipe(y) /\ y.readers = x.readers + rd /\ y.writers = x.writers + wr
      /\ y.used /\ ~y.unlinked /\ y.name = name
  <2>1. PICK a, b : a = x.readers + rd /\ b = x.writers + wr
    OBVIOUS
  <2>2. a \in Nat /\ b \in Nat
    BY <1>2, <1>4, <2>1
  <2>3. y = [x EXCEPT !.readers = a, !.writers = b]
    BY <1>5, <2>1
  <2>4. /\ IsPipe(y) /\ y.readers = a /\ y.writers = b
        /\ y.used = x.used /\ y.unlinked = x.unlinked /\ y.name = x.name
    BY <1>2, <2>2, <2>3 DEF IsPipe
  <2>5. QED
    BY <1>2, <2>1, <2>4
<1>7. IsPipes(pipes') /\ \A o \in Pipes : pipes'[o] = IF o = q THEN y ELSE pipes[o]
  <2>1. pipes' = [o \in Pipes |-> IF o = q THEN y ELSE pipes[o]]
    BY <1>0, <1>1 DEF EndsBounded, IsPipes
  <2>2. pipes' = [o \in Pipes |-> pipes'[o]] /\ \A o \in Pipes : pipes'[o] = IF o = q THEN y ELSE pipes[o]
    BY <2>1
  <2>3. QED
    BY <1>0, <1>6, <2>2 DEF EndsBounded, IsPipes
<1>8. /\ files'[f].ptr = q /\ files'[f].ends = {end}
      /\ \A g \in Files : g # f => files'[g] = files[g]
      /\ files[f].ptr = None
  BY <1>0 DEF NoFile
<1>9. ASSUME NEW e
      PROVE  Cardinality(OpenEnds(q, e)') = Cardinality(OpenEnds(q, e)) + IF e = end THEN 1 ELSE 0
  <2>1. f \notin OpenEnds(q, e)
    BY <1>0, <1>8, PipeAssumption DEF OpenEnds
  <2>2. OpenEnds(q, e)' = IF e = end THEN OpenEnds(q, e) \cup {f} ELSE OpenEnds(q, e)
    <3>1. \A g : g \in OpenEnds(q, e)' <=> g \in OpenEnds(q, e) \/ (g = f /\ e = end)
      BY <1>0, <1>8, <2>1 DEF OpenEnds
    <3>2. QED
      BY <3>1
  <2>3. IsFiniteSet(OpenEnds(q, e)) /\ Cardinality(OpenEnds(q, e)) \in Nat
    BY OpenEndsFinite
  <2>4. Cardinality(OpenEnds(q, e) \cup {f}) = Cardinality(OpenEnds(q, e)) + 1
    BY <2>1, <2>3, FS_AddElement
  <2>5. QED
    BY <2>2, <2>3, <2>4
<1>10. \A o \in Pipes : o # q => \A e : OpenEnds(o, e)' = OpenEnds(o, e)
  BY <1>0, <1>8, PipeAssumption DEF OpenEnds
<1>11. ASSUME NEW o \in Pipes
       PROVE  /\ pipes'[o].readers =< Cardinality(OpenEnds(o, "read")')
              /\ pipes'[o].writers =< Cardinality(OpenEnds(o, "write")')
              /\ pipes'[o].used /\ pipes'[o].unlinked =>
                     pipes'[o].readers > 0 \/ pipes'[o].writers > 0
  <2>1. CASE o = q
    <3>1. PICK r, w : r = Cardinality(OpenEnds(q, "read")) /\ w = Cardinality(OpenEnds(q, "write"))
      OBVIOUS
    <3>2. r \in Nat /\ w \in Nat /\ x.readers =< r /\ x.writers =< w
      BY <1>2, <3>1, OpenEndsFinite
    <3>3. /\ Cardinality(OpenEnds(q, "read")') = r + rd
          /\ Cardinality(OpenEnds(q, "write")') = w + wr
      BY <1>4, <1>9, <3>1
    <3>4. pipes'[o].readers = x.readers + rd /\ pipes'[o].writers = x.writers + wr
      BY <1>0, <1>6, <1>7, <2>1
    <3>5. x.readers + rd =< r + rd /\ x.writers + wr =< w + wr
      BY <1>2, <1>4, <3>2
    <3>6. pipes'[o].unlinked = FALSE
      BY <1>0, <1>6, <1>7, <2>1 DEF IsPipe
    <3>7. QED
      BY <2>1, <3>3, <3>4, <3>5, <3>6
  <2>2. CASE o # q
    BY <1>7, <1>10, <2>2 DEF EndsBounded
  <2>3. QED
    BY <2>1, <2>2
<1>12. QED
  BY <1>0, <1>6, <1>7, <1>11 DEF EndsBounded, Linked

\* Pipe q has the name, newly so only if none had it; the others stay.
Opens(name, q) ==
    /\ q \in Found(name) \/ Found(name) = {}
    /\ q \in Linked' /\ pipes'[q].name = name
    /\ \A o \in Pipes \ {q} : pipes'[o] = pipes[o]

\* sys_pipe_open, when it succeeds.
LEMMA OpenBehind ==
    ASSUME Behind, tables \in Tables, NEW name, NEW end \in {"read", "write"}, open(name, end)
    PROVE  Behind' /\ \E o \in Pipes : Opens(name, o)
<1>1. PICK fd, f, q, x : Attached(name, end, fd, f, q, x)
  BY OpenForm
<1>2. /\ fd \in Fds /\ f \in Files /\ q \in Pipes /\ {end} \in SUBSET {"read", "write"}
      /\ Referenced /\ EndsBounded /\ files \in [Files -> FileRec]
  BY <1>1 DEF Attached, Behind, Referenced
<1>3. Referenced' /\ files[f] = NoFile
  BY <1>1, <1>2, NewFileRefs DEF Attached
<1>4. EndsBounded' /\ q \in Linked' /\ pipes'[q].name = name
  BY <1>1, <1>2, <1>3, NewEnd
<1>5. FreeTables'
  <2>1. \A p \in Slots : p # Sh => tables'[p] = tables[p]
    BY <1>1 DEF Attached, Tables
  <2>2. procs[Sh].state # "FREE" /\ UNCHANGED procs
    BY <1>1 DEF Attached
  <2>3. QED
    BY <2>1, <2>2 DEF Behind, FreeTables
<1>6. Opens(name, q)
  <2>1. \A o \in Pipes \ {q} : pipes'[o] = pipes[o]
    BY <1>1, <1>2 DEF Attached, EndsBounded, IsPipes
  <2>2. QED
    BY <1>1, <1>4, <2>1 DEF Attached, Opens
<1>7. QED
  BY <1>2, <1>3, <1>4, <1>5, <1>6, Zenon DEF Behind

-----------------------------------------------------------------------------
(* The name of the pipe *)

\* No pipe has a name but the one of the line that is executed, from open_writer on until
\* it is unlinked.
OneName ==
    /\ sh.created \in BOOLEAN
    /\ sh.pc \in {"prompt", "backup_in", "backup_out", "open_writer"} => ~sh.created
    /\ \A q \in Linked : (sh.created \/ sh.pc = "open_reader") /\ pipes[q].name = sh.name
    /\ \A q, o \in Linked : q = o

\* What the name depends on stays the same.
SameName(s, t) ==
    /\ t.name = s.name /\ t.created = s.created
    /\ s.pc = "open_reader" => t.pc = "open_reader"
    /\ t.pc \in {"prompt", "backup_in", "backup_out", "open_writer"} =>
          s.pc \in {"prompt", "backup_in", "backup_out", "open_writer"}

\* Then the pipe keeps its name, or has lost it.
LEMMA NameKept ==
    ASSUME OneName, NoNewName, SameName(sh, sh')
    PROVE  OneName'
<1>1. \A q \in Linked' : q \in Linked /\ pipes'[q].name = pipes[q].name
  BY DEF Linked, NoNewName
<1>2. QED
  BY <1>1 DEF OneName, SameName

\* The steps of execute_pipe that open and unlink nothing, and the others of a line.
OtherStep ==
    \/ newLine \/ start \/ returned
    \/ backup_in \/ backup_out \/ redirect_out \/ close_writer \/ redirect_in \/ close_reader
    \/ restore_out \/ drop_out \/ restore_in \/ drop_in \/ close_read_fd \/ close_write_fd

\* None of them touches the name.
LEMMA OtherNames ==
    ASSUME FilesInv, OtherStep
    PROVE  SameName(sh, sh')
<1>1. PICK s, t : s = sh /\ t = sh'
  OBVIOUS
<1>2. IsSh(s)
  BY <1>1 DEF FilesInv
<1>3. CASE newLine
  BY <1>1, <1>2, <1>3 DEF newLine, Become, IsSh, SameName
<1>4. CASE start
  BY <1>1, <1>2, <1>4 DEF start, Become, IsSh, SameName
<1>5. CASE returned
  BY <1>1, <1>2, <1>5 DEF returned, Goto, IsSh, SameName
<1>6. CASE backup_in \/ backup_out
  BY <1>1, <1>2, <1>6 DEF backup_in, backup_out, Become, IsSh, SameName
<1>7. CASE redirect_out \/ redirect_in
  BY <1>1, <1>2, <1>7 DEF redirect_out, redirect_in, Goto, IsSh, SameName
<1>8. CASE close_writer \/ close_reader
  BY <1>1, <1>2, <1>8 DEF close_writer, close_reader, Become, IsSh, SameName
<1>9. CASE restore_out
  BY <1>1, <1>2, <1>9 DEF restore_out, Goto, IsSh, SameName
<1>10. CASE drop_out
  BY <1>1, <1>2, <1>10 DEF drop_out, Become, IsSh, SameName
<1>11. CASE restore_in
  BY <1>1, <1>2, <1>11 DEF restore_in, Goto, IsSh, SameName
<1>12. CASE drop_in
  BY <1>1, <1>2, <1>12 DEF drop_in, Become, IsSh, SameName
<1>13. CASE close_read_fd \/ close_write_fd
  BY <1>1, <1>2, <1>13 DEF close_read_fd, close_write_fd, Restored, Become, IsSh, SameName
<1>14. QED
  BY <1>3, <1>4, <1>5, <1>6, <1>7, <1>8, <1>9, <1>10, <1>11, <1>12, <1>13 DEF OtherStep

\* Neither do commands and programs.
LEMMA CommandNames ==
    ASSUME FilesInv, CommandStep
    PROVE  SameName(sh, sh')
<1>1. PICK s, t : s = sh /\ t = sh'
  OBVIOUS
<1>2. IsSh(s) /\ \E child, script, strings, status : t = Changed(s, script, strings, status, child)
  BY <1>1, CommandsQuiet DEF QuietStep, FilesInv
<1>3. PICK child, script, strings, status : t = Changed(s, script, strings, status, child)
  BY <1>2
<1>4. QED
  BY <1>1, <1>2, <1>3 DEF Changed, IsSh, SameName

\* All they do to files and pipes is to duplicate and to close descriptors.
LEMMA OtherHarmless ==
    ASSUME FilesInv, Behind, IsProcs(procs), OtherStep
    PROVE  Harmless
<1>1. /\ tables \in Tables /\ Phase(sh) /\ Redirected(sh, tables[Sh])
      /\ SHELL_STDIN \in Fds /\ SHELL_STDOUT \in Fds
      /\ SHELL_BACKUP_STDIN \in Fds /\ SHELL_BACKUP_STDOUT \in Fds /\ Others \subseteq Fds
  BY FdFacts DEF FilesInv, BackupIn, BackupOut
<1>2. CASE newLine \/ start \/ returned
  BY <1>2, SameHarmless DEF newLine, start, returned
<1>3. CASE backup_in \/ backup_out \/ restore_out \/ restore_in
  BY <1>1, <1>3, Dup2Harmless DEF backup_in, backup_out, restore_out, restore_in
<1>4. CASE drop_out \/ drop_in
  BY <1>1, <1>4, CloseHarmless DEF drop_out, drop_in
<1>5. CASE redirect_out \/ close_writer
  <2>1. sh.write_fd \in Fds
    BY <1>1, <1>5 DEF redirect_out, close_writer, Phase, Redirected
  <2>2. QED
    BY <1>1, <1>5, <2>1, Dup2Harmless, CloseHarmless DEF redirect_out, close_writer
<1>6. CASE redirect_in \/ close_reader
  <2>1. sh.read_fd \in Fds
    <3>1. sh.read_fd # None
      BY <1>1, <1>6 DEF redirect_in, close_reader, Phase
    <3>2. QED
      BY <1>1, <3>1 DEF Redirected
  <2>2. QED
    BY <1>1, <1>6, <2>1, Dup2Harmless, CloseHarmless DEF redirect_in, close_reader
<1>7. CASE close_read_fd \/ close_write_fd
  <2>1. \/ sh.read_fd \in Fds /\ close(Sh, sh.read_fd)
        \/ sh.write_fd \in Fds /\ close(Sh, sh.write_fd)
    BY <1>1, <1>7 DEF close_read_fd, close_write_fd, Redirected
  <2>2. QED
    BY <1>1, <2>1, CloseHarmless
<1>8. QED
  BY <1>2, <1>3, <1>4, <1>5, <1>6, <1>7 DEF OtherStep

\* The steps of commands and of programs are harmless too.
LEMMA CommandsHarmless ==
    ASSUME FilesInv, Behind, IsProcs(procs), CommandStep
    PROVE  Harmless
<1>1. tables \in Tables /\ sh.child \in Programs \cup {None} /\ Programs \subseteq Slots
  BY NoneFacts DEF FilesInv
<1>2. CASE build_spawn_argv \/ wait
  BY <1>2, SameHarmless DEF build_spawn_argv, wait
<1>3. CASE create
  <2>1. UNCHANGED vars \/ \E p \in FreeSlots : proc_create(Sh, p)
    BY <1>3, Zenon DEF create
  <2>2. QED
    BY <1>1, <2>1, SameHarmless, CreateHarmless DEF FreeSlots
<1>4. CASE CtrlC
  BY <1>1, <1>4, EndHarmless DEF CtrlC, proc_kill
<1>5. CASE \E p \in Programs : sys_exit(p) \/ sys_kill(p)
  <2>1. UNCHANGED vars \/ \E p \in Programs : End(p)
    BY <1>5 DEF sys_exit, sys_kill, proc_exit, proc_kill
  <2>2. QED
    BY <1>1, <2>1, SameHarmless, EndHarmless
<1>6. CASE \E p \in Slots : CommandCall(p)
  <2>1. PICK p \in Slots : CommandCall(p)
    BY <1>6
  <2>2. UNCHANGED vars \/ Output(p) \/ read(p, SHELL_STDIN) \/ Resumes(p)
    BY <2>1 DEF CommandCall, print, read_pipe, read_terminal, read_refused, pass_on, loop_prints, free
  <2>3. QED
    BY <2>2, SameHarmless, TransferHarmless
<1>7. QED
  BY <1>2, <1>3, <1>4, <1>5, <1>6 DEF CommandStep

\* open_writer makes the pipe of the line.
LEMMA OpenWriterName ==
    ASSUME FilesInv, Behind, OneName, "no_memory" \notin may, open_writer
    PROVE  Behind' /\ OneName'
<1>1. PICK name :
         /\ sh.pc = "open_writer" /\ open(name, "write")
         /\ sh' = [sh EXCEPT !.pc = "open_reader", !.name = name, !.write_fd = Opened_fd]
  BY DEF open_writer, no_pipe, no_file, Become
<1>2. tables \in Tables /\ IsSh(sh)
  BY DEF FilesInv
<1>3. Behind' /\ \E q \in Pipes : Opens(name, q)
  BY <1>1, <1>2, OpenBehind
<1>4. PICK q \in Pipes : Opens(name, q)
  BY <1>3
<1>5. sh'.pc = "open_reader" /\ sh'.name = name /\ sh'.created = sh.created
  <2>1. PICK s, t, fd : s = sh /\ t = sh' /\ fd = Opened_fd
    OBVIOUS
  <2>2. IsSh(s) /\ t = [s EXCEPT !.pc = "open_reader", !.name = name, !.write_fd = fd]
    BY <1>1, <1>2, <2>1
  <2>3. t.pc = "open_reader" /\ t.name = name /\ t.created = s.created
    BY <2>2 DEF IsSh
  <2>4. QED
    BY <2>1, <2>3
<1>6. Linked = {}
  BY <1>1 DEF OneName
<1>7. \A o \in Linked' : o = q
  BY <1>4, <1>6 DEF Opens, Linked
<1>8. OneName'
  BY <1>4, <1>5, <1>7 DEF OneName, Opens
<1>9. QED
  BY <1>3, <1>8

\* open_reader opens the same one, or makes it again if it is gone.
LEMMA OpenReaderName ==
    ASSUME FilesInv, Behind, OneName, "no_memory" \notin may, open_reader
    PROVE  Behind' /\ OneName'
<1>1. /\ open(sh.name, "read")
      /\ sh' = [sh EXCEPT !.pc = "redirect_out", !.created = TRUE, !.read_fd = Opened_fd]
  BY DEF open_reader, no_file, Become
<1>2. tables \in Tables /\ IsSh(sh)
  BY DEF FilesInv
<1>3. Behind' /\ \E q \in Pipes : Opens(sh.name, q)
  BY <1>1, <1>2, OpenBehind
<1>4. PICK q \in Pipes : Opens(sh.name, q)
  BY <1>3
<1>5. sh'.pc = "redirect_out" /\ sh'.name = sh.name /\ sh'.created = TRUE
  <2>1. PICK s, t, fd : s = sh /\ t = sh' /\ fd = Opened_fd
    OBVIOUS
  <2>2. IsSh(s) /\ t = [s EXCEPT !.pc = "redirect_out", !.created = TRUE, !.read_fd = fd]
    BY <1>1, <1>2, <2>1
  <2>3. t.pc = "redirect_out" /\ t.name = s.name /\ t.created = TRUE
    BY <2>2 DEF IsSh
  <2>4. QED
    BY <2>1, <2>3
<1>6. \A o \in Linked : o = q
  BY <1>4 DEF OneName, Opens, Found
<1>7. \A o \in Linked' : o = q
  BY <1>4, <1>6 DEF Opens, Linked
<1>8. OneName'
  BY <1>4, <1>5, <1>7 DEF OneName, Opens
<1>9. QED
  BY <1>3, <1>8

\* unlink takes the name away, and then there is none.
LEMMA UnlinkName ==
    ASSUME FilesInv, Behind, IsProcs(procs), OneName, unlink
    PROVE  Behind' /\ OneName'
<1>1. pipe_unlink(Sh, sh.name) /\ sh.pc = "cleanup" /\ sh' = [sh EXCEPT !.created = FALSE]
  BY DEF unlink, EndsClosed, Restored, Become
<1>2. Behind' /\ NoNewName /\ \E q \in Found(sh.name) : q \notin Linked'
  BY <1>1, UnlinkHarmless DEF Harmless
<1>3. Linked' = {}
  BY <1>2 DEF OneName, NoNewName, Found, Linked
<1>4. sh'.created = FALSE
  BY <1>1 DEF FilesInv, IsSh
<1>5. QED
  BY <1>2, <1>3, <1>4 DEF OneName

\* Without a name to unlink the line is over.
LEMMA PromptName ==
    ASSUME Behind, IsProcs(procs), OneName, prompt
    PROVE  Behind' /\ OneName'
<1>1. UNCHANGED vars /\ sh' = AtPrompt /\ ~sh.created /\ sh.pc = "cleanup"
  BY DEF prompt, EndsClosed, Restored, Become
<1>2. Behind' /\ NoNewName
  BY <1>1, SameHarmless DEF Harmless
<1>3. Linked' = {}
  BY <1>1, <1>2 DEF OneName, NoNewName, Linked
<1>4. sh'.created = FALSE
  BY <1>1 DEF AtPrompt
<1>5. QED
  BY <1>2, <1>3, <1>4 DEF OneName

\* What may happen is the same in the whole run.
LEMMA MayStays == ASSUME [ShellNext]_svars PROVE UNCHANGED may
<1>1. CASE UNCHANGED svars
  BY <1>1 DEF svars
<1>2. CASE newLine \/ start \/ returned \/ prompt \/ wait \/ build_spawn_argv
  BY <1>2 DEF newLine, start, returned, prompt, wait, build_spawn_argv, vars
<1>3. CASE \/ backup_in \/ backup_out \/ redirect_out \/ close_writer \/ redirect_in \/ close_reader
           \/ restore_out \/ drop_out \/ restore_in \/ drop_in \/ close_read_fd \/ close_write_fd
  BY <1>3 DEF backup_in, backup_out, redirect_out, close_writer, redirect_in, close_reader,
              restore_out, drop_out, restore_in, drop_in, close_read_fd, close_write_fd,
              dup2, close, NoBytes
<1>4. CASE open_writer \/ open_reader \/ unlink
  BY <1>4 DEF open_writer, open_reader, unlink, no_pipe, no_file, open, pipe_open, pipe_unlink,
              NoBytes, vars
<1>5. CASE create
  <2>1. UNCHANGED vars \/ \E p : proc_create(Sh, p)
    BY <1>5, Zenon DEF create
  <2>2. QED
    BY <2>1 DEF vars, proc_create, NoBytes
<1>6. CASE CtrlC \/ \E p : sys_exit(p) \/ sys_kill(p)
  BY <1>6 DEF CtrlC, sys_exit, sys_kill, proc_exit, proc_kill, End, NoBytes, vars
<1>7. CASE \E p : CommandCall(p)
  <2>1. PICK p : CommandCall(p)
    BY <1>7
  <2>2. UNCHANGED vars \/ Output(p) \/ read(p, SHELL_STDIN) \/ Resumes(p)
    BY <2>1 DEF CommandCall, print, read_pipe, read_terminal, read_refused, pass_on, loop_prints, free
  <2>3. QED
    BY <2>2 DEF vars, Output, read, write, Resumes
<1>8. QED
  BY <1>1, <1>2, <1>3, <1>4, <1>5, <1>6, <1>7
     DEF ShellNext, ShellStep, ProgramStep, Pipeline, CommandCall

-----------------------------------------------------------------------------
(* The invariant *)

PipesInv == "no_memory" \notin may => Behind /\ OneName

\* The first prompt.
LEMMA PipesInit == ShellInit => PipesInv
<1>1. SUFFICES ASSUME ShellInit PROVE Behind /\ OneName
  BY DEF PipesInv
<1>2. /\ pipes = [q \in Pipes |-> NoPipe]
      /\ files = [f \in Files |->
            CASE f = TtyIn  -> [refcount |-> 2, ptr |-> None, ends |-> {"read"}]
              [] f = TtyOut -> [refcount |-> 2, ptr |-> None, ends |-> {"write"}]
              [] OTHER      -> NoFile]
      /\ tables = [p \in Slots |-> IF p = Sh THEN StdTable ELSE NoTable]
      /\ procs = [p \in Slots |-> IF p = Sh THEN [NoProc EXCEPT !.state = "READY"] ELSE NoProc]
      /\ sh = AtPrompt
  BY <1>1 DEF ShellInit
<1>3. \A q \in Pipes : IsPipe(pipes[q]) /\ pipes[q] = NoPipe
  BY <1>2 DEF NoPipe, IsPipe
<1>4. EndsBounded
  <2>1. /\ NoPipe.readers = 0 /\ NoPipe.writers = 0 /\ NoPipe.used = FALSE
    BY DEF NoPipe
  <2>2. \A q, e : Cardinality(OpenEnds(q, e)) \in Nat
    BY OpenEndsFinite
  <2>3. pipes = [q \in Pipes |-> pipes[q]]
    BY <1>2
  <2>4. QED
    BY <1>3, <2>1, <2>2, <2>3 DEF EndsBounded, IsPipes
<1>5. Linked = {}
  BY <1>3 DEF Linked, NoPipe
<1>6. OneName
  BY <1>2, <1>5 DEF OneName, AtPrompt
<1>7. \A f \in Files : /\ files[f] \in FileRec
                       /\ f \notin {TtyIn, TtyOut} => files[f] = NoFile
                       /\ f \in {TtyIn, TtyOut} => files[f].refcount = 2 /\ files[f].ptr = None
  BY <1>2, NoneFacts, ShellAssumption DEF FileRec, NoFile
<1>8. ASSUME NEW f \in {TtyIn, TtyOut} PROVE Cardinality(Holders(f)) =< 1
  <2>1. \A x \in Fds : StdTable[x] = IF x = SHELL_STDIN THEN TtyIn
                                     ELSE IF x = SHELL_STDOUT THEN TtyOut ELSE None
    BY FdFacts DEF StdTable, NoTable
  <2>2. PICK d : d = IF f = TtyIn THEN SHELL_STDIN ELSE SHELL_STDOUT
    OBVIOUS
  <2>3. \A x \in Fds : StdTable[x] = f => x = d
    BY <2>1, <2>2, NoneFacts, ShellAssumption
  <2>4. \A x \in Fds : NoTable[x] # f
    BY NoneFacts DEF NoTable
  <2>5. Holders(f) \in SUBSET {<<Sh, d>>}
    BY <1>2, <2>3, <2>4 DEF Holders
  <2>6. IsFiniteSet({<<Sh, d>>}) /\ Cardinality({<<Sh, d>>}) = 1
    BY FS_Singleton
  <2>7. Cardinality(Holders(f)) =< Cardinality({<<Sh, d>>})
    BY <2>5, <2>6, FS_Subset
  <2>8. QED
    BY <2>6, <2>7
<1>9. Referenced
  <2>1. \A f : Cardinality(Holders(f)) \in Nat
    BY NoneFacts, DroppedFacts
  <2>2. files \in [Files -> FileRec]
    BY <1>2, <1>7
  <2>3. \A f \in {TtyIn, TtyOut} :
            files[f].ptr = None /\ files[f].refcount > Cardinality(Holders(f))
    <3> TAKE f \in {TtyIn, TtyOut}
    <3>1. Cardinality(Holders(f)) \in Nat /\ Cardinality(Holders(f)) =< 1
      BY <1>8, <2>1
    <3>2. files[f].ptr = None /\ files[f].refcount = 2
      BY <1>7, NoneFacts
    <3>3. QED
      BY <3>1, <3>2
  <2>4. \A f \in Files : /\ files[f].refcount = 0 => files[f] = NoFile
                         /\ files[f].ptr = None
    BY <1>7 DEF NoFile
  <2>5. QED
    BY <2>2, <2>3, <2>4 DEF Referenced
<1>10. FreeTables
  BY <1>2 DEF FreeTables, NoProc
<1>11. QED
  BY <1>4, <1>6, <1>9, <1>10 DEF Behind

\* Every step keeps files and pipes in order.
LEMMA PipesNext == FilesInv /\ ArgsInv /\ PipesInv /\ [ShellNext]_svars => PipesInv'
<1>1. SUFFICES ASSUME FilesInv, ArgsInv, PipesInv, [ShellNext]_svars, "no_memory" \notin may
               PROVE  Behind' /\ OneName'
  BY MayStays DEF PipesInv
<1>2. Behind /\ OneName /\ IsProcs(procs)
  BY <1>1 DEF PipesInv, ArgsInv
<1>3. CASE UNCHANGED svars
  <2>1. Behind' /\ NoNewName
    BY <1>2, <1>3, SameHarmless DEF Harmless, svars, vars
  <2>2. SameName(sh, sh')
    BY <1>3 DEF SameName, svars
  <2>3. QED
    BY <1>2, <2>1, <2>2, NameKept
<1>4. CASE OtherStep \/ CommandStep
  <2>1. Behind' /\ NoNewName
    BY <1>1, <1>2, <1>4, OtherHarmless, CommandsHarmless DEF Harmless
  <2>2. SameName(sh, sh')
    BY <1>1, <1>4, OtherNames, CommandNames
  <2>3. QED
    BY <1>2, <2>1, <2>2, NameKept
<1>5. CASE open_writer \/ open_reader \/ unlink \/ prompt
  BY <1>1, <1>2, <1>5, OpenWriterName, OpenReaderName, UnlinkName, PromptName
<1>6. ShellNext => OtherStep \/ CommandStep \/ open_writer \/ open_reader \/ unlink \/ prompt
  BY NoneFacts DEF ShellNext, ShellStep, ProgramStep, Pipeline, OtherStep, CommandStep, CommandCall
<1>7. QED
  BY <1>1, <1>3, <1>4, <1>5, <1>6

\* Unless memory is short, a pipeline leaves no pipe behind: at the prompt a pipe lives on
\* only without its name, and while a command in the background has it open.
THEOREM PipesAreReleased == ShellSpec => []PipesReleased
<1>1. ShellInit => FilesInv /\ ArgsInv /\ PipesInv
  BY FilesInit, ArgsInit, PipesInit
<1>2. FilesInv /\ ArgsInv /\ PipesInv /\ [ShellNext]_svars => FilesInv' /\ ArgsInv' /\ PipesInv'
  BY FilesNext, ArgsNext, PipesNext
<1>3. FilesRestored /\ PipesInv => PipesReleased
  <2>1. SUFFICES ASSUME FilesRestored, PipesInv, sh.pc = "prompt", "no_memory" \notin may,
                        NEW q \in Pipes, pipes[q].used
                 PROVE  /\ pipes[q].unlinked
                        /\ \E p \in Programs, fd \in Fds :
                              tables[p][fd] # None /\ files[tables[p][fd]].ptr = q
    BY DEF PipesReleased
  <2>2. Referenced /\ EndsBounded /\ OneName /\ tables[Sh] = StdTable
    BY <2>1 DEF PipesInv, Behind, FilesRestored
  <2>3. pipes[q].unlinked
    BY <2>1, <2>2 DEF OneName, Linked
  <2>4. PICK e : OpenEnds(q, e) # {}
    <3>1. /\ pipes[q].readers > 0 \/ pipes[q].writers > 0
          /\ pipes[q].readers =< Cardinality(OpenEnds(q, "read"))
          /\ pipes[q].writers =< Cardinality(OpenEnds(q, "write"))
          /\ pipes[q].readers \in Nat /\ pipes[q].writers \in Nat
      BY <2>1, <2>2, <2>3 DEF EndsBounded, IsPipes, IsPipe
    <3>2. /\ Cardinality(OpenEnds(q, "read")) \in Nat /\ Cardinality(OpenEnds(q, "write")) \in Nat
          /\ Cardinality(OpenEnds(q, "read")) = 0 <=> OpenEnds(q, "read") = {}
          /\ Cardinality(OpenEnds(q, "write")) = 0 <=> OpenEnds(q, "write") = {}
      BY OpenEndsFinite
    <3>3. QED
      BY <3>1, <3>2
  <2>5. PICK f \in Files : files[f].ptr = q
    BY <2>4 DEF OpenEnds
  <2>6. q # None
    BY PipeAssumption
  <2>7. files[f].refcount \in Nat /\ files[f].refcount # 0
    BY <2>2, <2>5, <2>6 DEF Referenced, FileRec, NoFile
  <2>8. Holders(f) # {}
    <3>1. files[f].refcount =< Cardinality(Holders(f))
      BY <2>2, <2>5, <2>6 DEF Referenced
    <3>2. QED
      BY <2>7, <3>1, FS_EmptySet
  <2>9. PICK p \in Slots, fd \in Fds : tables[p][fd] = f
    BY <2>8 DEF Holders
  <2>10. p # Sh
    <3>1. StdTable[fd] \in {TtyIn, TtyOut, None}
      BY FdFacts DEF StdTable, NoTable
    <3>2. f \notin {TtyIn, TtyOut, None}
      BY <2>2, <2>5, <2>6, NoneFacts DEF Referenced
    <3>3. QED
      BY <2>2, <2>9, <3>1, <3>2
  <2>11. QED
    BY <2>3, <2>5, <2>9, <2>10, NoneFacts DEF Programs
<1>4. QED
  BY <1>1, <1>2, <1>3, StandardFilesComeBack, PTL DEF ShellSpec
=============================================================================
