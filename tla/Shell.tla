------------------------------- MODULE Shell --------------------------------
(***************************************************************************)
(* The shell of Userland/SampleCodeModule/shell/sh.c and the programs that *)
(* it starts, on top of the pipes and descriptor tables of module Pipe.    *)
(*                                                                         *)
(*   sh     what the shell has of the line it executes: the commands left  *)
(*          and right of '|' (right is None without a '|'), bg for a '&' at*)
(*          the end, side, the command that runs ("alone", "left",         *)
(*          "right"; "setup" before), pc, the steps that are left of the   *)
(*          command (script), the strings of the argv it has built, the    *)
(*          child it waits for, and the variables of execute_pipe          *)
(*   progs  per slot: the steps that are left of the program there, the    *)
(*          strings of its argv (NoArgv: none), whether it may read the    *)
(*          terminal (fg), and whether it has read a byte to pass on (held)*)
(*   heap   how many blocks of argument vectors are allocated              *)
(*                                                                         *)
(* Every system call is a step of its own, the action of Pipe for it.  One *)
(* byte stands for what a command prints in one go.                        *)
(***************************************************************************)
EXTENDS Pipe

CONSTANTS
    Sh,             \* the slot of the shell
    TtyIn, TtyOut,  \* the standard files: standard error is used like TtyOut
    Lines,          \* the lines that users type, as [left, right, bg]
    BackgroundBound, \* bound: a line with a '&' is only entered while at most that
                    \* many programs are left from earlier lines
    LeakBound       \* bound: nobody is killed once that many blocks have no owner

ASSUME ShellAssumption ==
    /\ Sh \in Slots /\ {TtyIn, TtyOut} \subseteq Files /\ TtyIn # TtyOut
    /\ FD_MAX >= 6 /\ Chunk = 1 /\ BackgroundBound \in Nat /\ LeakBound \in Nat
    /\ None \notin Fds
    /\ \A line \in Lines : DOMAIN line = {"left", "right", "bg"} /\ line.bg \in BOOLEAN

VARIABLES sh, progs, heap

svars == <<pipes, files, tables, procs, moved, may, sh, progs, heap>>

Programs == Slots \ {Sh}
FreeSlots == {p \in Programs : procs[p].state = "FREE"}

SHELL_STDIN == 0
SHELL_STDOUT == 1
SHELL_BACKUP_STDIN == FD_MAX - 2
SHELL_BACKUP_STDOUT == FD_MAX - 1

-----------------------------------------------------------------------------
(* The commands: how a command is launched, how many strings its argv may   *)
(* have, and what its program does, step by step                            *)

NoArgv == -1
MAX_STRINGS == 3

Command(launch, strings, program) ==
    [launch |-> launch, strings |-> strings, program |-> program]

\* The programs end with free_spawn_args and sys_exit; the test programs copy and
\* free their arguments before they start to work, and test_mm and test_processes
\* then work in a loop that only an error or a bad argument ends.  What nice and
\* block do to other processes is left to module Proc, and so are the processes
\* that the tests start.
Prints == <<"print", "free", "exit">>
help_main == Prints
ps_main == Prints
mem_main == Prints
cat_main == <<"copy", "free", "exit">>
filter_main == <<"filter", "free", "exit">>
wc_main == <<"count", "print", "free", "exit">>
kill_main == <<"kill", "print", "free", "exit">>
test_process == <<"print", "free", "print", "exit">>
endless_test == <<"print", "free", "loop", "print", "exit">>
loop_process == <<"loop">>

cmd_help == Command("user", {1}, help_main)
cmd_ps == Command("user", {1}, ps_main)
cmd_mem == Command("user", {1, 2}, mem_main)
cmd_nice == Command("user", {3}, Prints)
cmd_block == Command("user", {3}, Prints)
cmd_kill == Command("user", {2}, kill_main)
cmd_cat == Command("user", {1}, cat_main)
cmd_wc == Command("user", {1}, wc_main)
cmd_filter == Command("user", {1}, filter_main)
cmd_test_mm == Command("test", {NoArgv, 1}, endless_test)
cmd_test_processes == Command("test", {NoArgv, 1}, endless_test)
cmd_test_priority == Command("test", {NoArgv, 1}, test_process)
cmd_test_no_synchro == Command("test", {NoArgv, 1}, test_process)
cmd_test_synchro == Command("test", {NoArgv, 1, 2}, test_process)
cmd_loop == Command("loop", {NoArgv}, loop_process)
cmd_echo == Command("own", {NoArgv}, <<>>)
cmd_time == Command("own", {NoArgv}, <<>>)
cmd_undefined == Command("own", {NoArgv}, <<>>)

\* commands and commands_ptr.  The commands that only draw on the screen or set
\* debug_enabled are like time; mvar is the subject of module Mvar; waitpid and exit
\* are left out.
commands ==
    [help |-> cmd_help, ls |-> cmd_help, ps |-> cmd_ps, mem |-> cmd_mem, nice |-> cmd_nice,
     block |-> cmd_block, kill |-> cmd_kill, cat |-> cmd_cat, wc |-> cmd_wc,
     filter |-> cmd_filter, test_mm |-> cmd_test_mm, test_processes |-> cmd_test_processes,
     test_priority |-> cmd_test_priority, test_sync |-> cmd_test_synchro,
     test_no_synchro |-> cmd_test_no_synchro, test_synchro |-> cmd_test_synchro,
     loop |-> cmd_loop, echo |-> cmd_echo, time |-> cmd_time, undefined |-> cmd_undefined]

\* checkLine: what is not in the table is undefined.
checkLine(name) == IF name \in DOMAIN commands THEN commands[name] ELSE cmd_undefined

\* run_pipeline_command: what may stand beside a '|', and how it is launched there.
Pipeable == {"cat", "wc", "filter", "echo", "ps", "help", "ls", "mem", "loop", "time",
             "test_mm", "test_processes", "test_priority", "test_synchro", "test_no_synchro"}

Name == IF sh.side = "right" THEN sh.right ELSE sh.left
Launch == IF sh.side # "alone" /\ Name \in {"cat", "wc", "filter"} THEN "pipeline"
          ELSE checkLine(Name).launch

\* The steps of the shell for each way of launching: build the argv, create the
\* process, print, wait.
Script(launch, bg) ==
    CASE launch = "own" -> <<"print">>
      [] launch = "user" -> <<"argv", "create", IF bg THEN "print" ELSE "wait">>
      [] launch = "pipeline" -> <<"argv", "create", "wait">>
      [] launch = "test" -> <<"print", "argv", "create", "print">>
                            \o IF bg THEN <<>> ELSE <<"wait", "print">>
      [] launch = "loop" -> <<"create", "print">> \o IF bg THEN <<>> ELSE <<"wait", "print">>

IsForeground == ~sh.bg \/ Launch = "pipeline"

-----------------------------------------------------------------------------
AtPrompt == [pc |-> "prompt", left |-> None, right |-> None, bg |-> FALSE, side |-> None,
             script |-> <<>>, strings |-> NoArgv, child |-> None,
             name |-> None, created |-> FALSE, status |-> 0,
             write_fd |-> None, read_fd |-> None, backup_in |-> FALSE, backup_out |-> FALSE]
NoProg == [script |-> <<>>, strings |-> NoArgv, fg |-> FALSE, held |-> FALSE]

StdTable == [NoTable EXCEPT ![SHELL_STDIN] = TtyIn, ![SHELL_STDOUT] = TtyOut]

\* The shell is at its prompt; stdin_file and stdout_file hold a reference of
\* their own to the standard files.
ShellInit ==
    /\ pipes = [q \in Pipes |-> NoPipe]
    /\ files = [f \in Files |-> CASE f = TtyIn  -> [refcount |-> 2, ptr |-> None, ends |-> {"read"}]
                                  [] f = TtyOut -> [refcount |-> 2, ptr |-> None, ends |-> {"write"}]
                                  [] OTHER      -> NoFile]
    /\ tables = [p \in Slots |-> IF p = Sh THEN StdTable ELSE NoTable]
    /\ procs = [p \in Slots |-> IF p = Sh THEN [NoProc EXCEPT !.state = "READY"] ELSE NoProc]
    /\ moved = <<>>
    /\ may \in Situations
    /\ sh = AtPrompt
    /\ progs = [p \in Slots |-> NoProg]
    /\ heap = 0

Become(changed) == sh' = changed
Goto(pc) == sh' = [sh EXCEPT !.pc = pc]
Keep == UNCHANGED <<progs, heap>>

-----------------------------------------------------------------------------
(* execute_pipe: redirect, run the left command, restore, redirect, run the *)
(* right command, clean up                                                  *)

\* The bound on memory: unless it may fail, a line with a '|' is only entered while
\* there is enough of it.
Roomy ==
    "no_memory" \in may
    \/ /\ Cardinality({f \in Files : files[f].refcount = 0}) >= 2
       /\ \E q \in Pipes : ~pipes[q].used

has_pipe(line) == line.right # None

\* newLine with a command, and with two around a '|'.  What has an empty side, or
\* more than one '|', is turned away with a message and leaves nothing behind.
newLine ==
    /\ sh.pc = "prompt"
    /\ \E line \in Lines :
        /\ has_pipe(line) => Roomy
        /\ line.bg => Cardinality(Programs \ FreeSlots) =< BackgroundBound
        /\ Become([sh EXCEPT !.left = line.left, !.right = line.right, !.bg = line.bg,
                             !.side = IF has_pipe(line) THEN "setup" ELSE "alone",
                             !.pc = IF has_pipe(line) THEN "backup_in" ELSE "start"])
    /\ Keep /\ UNCHANGED vars

backup_in ==
    /\ sh.pc = "backup_in"
    /\ dup2(Sh, SHELL_STDIN, SHELL_BACKUP_STDIN)
    /\ Become([sh EXCEPT !.pc = "backup_out", !.backup_in = TRUE])
    /\ Keep

backup_out ==
    /\ sh.pc = "backup_out"
    /\ dup2(Sh, SHELL_STDOUT, SHELL_BACKUP_STDOUT)
    /\ Become([sh EXCEPT !.pc = "open_writer", !.backup_out = TRUE])
    /\ Keep

Fail == sh' = [sh EXCEPT !.status = -1, !.pc = "cleanup"]

\* sys_pipe_open with a name, and without memory for a kpipe_t.  Which addresses
\* mm_malloc returns makes no difference.
open(name, end) ==
    /\ pipe_open(Sh, name, {end})
    /\ tables' # tables
    /\ \A f \in Files : files'[f] # files[f] => f = CHOOSE g \in Files : files[g].refcount = 0
    /\ \A q \in Pipes : pipes'[q].used /\ ~pipes[q].used => q = CHOOSE x \in Pipes : ~pipes[x].used

no_pipe(name) ==
    /\ "no_memory" \in may
    /\ Found(name) = {}
    /\ UNCHANGED vars
    /\ Fail

\* sys_pipe_open without memory for a file_t: the end is closed again, but the pipe
\* keeps its name.
no_file(name, end) ==
    LET q == IF Found(name) = {} THEN CHOOSE x \in Pipes : ~pipes[x].used
             ELSE CHOOSE x \in Found(name) : TRUE
        pipe == IF pipes[q].used THEN pipes[q] ELSE [NoPipe EXCEPT !.used = TRUE, !.name = name]
    IN  /\ "no_memory" \in may
        /\ Found(name) # {} \/ \E x \in Pipes : ~pipes[x].used
        /\ pipes' = [pipes EXCEPT ![q] = kpipe_close(Opened(pipe, {end}), One({end}, "read"),
                                                     One({end}, "write"))]
        /\ UNCHANGED <<files, tables, procs, moved, may>>
        /\ Fail

Opened_fd == CHOOSE fd \in Fds : tables'[Sh][fd] # tables[Sh][fd]

\* pipe_seq makes a name that no pipe has.
open_writer ==
    /\ sh.pc = "open_writer"
    /\ LET name == CHOOSE n \in Names : Found(n) = {}
       IN  \/ no_pipe(name) \/ no_file(name, "write")
           \/ /\ open(name, "write")
              /\ Become([sh EXCEPT !.pc = "open_reader", !.name = name,
                                   !.write_fd = Opened_fd])
    /\ Keep

\* Faulty variant of open_reader: that the pipe has a name is forgotten.
open_reader_forgets ==
    /\ sh.pc = "open_reader"
    /\ open(sh.name, "read")
    /\ Become([sh EXCEPT !.pc = "redirect_out", !.read_fd = Opened_fd])
    /\ Keep

open_reader ==
    /\ sh.pc = "open_reader"
    /\ \/ no_file(sh.name, "read")
       \/ /\ open(sh.name, "read")
          /\ Become([sh EXCEPT !.pc = "redirect_out", !.created = TRUE, !.read_fd = Opened_fd])
    /\ Keep

redirect_out ==
    /\ sh.pc = "redirect_out"
    /\ dup2(Sh, sh.write_fd, SHELL_STDOUT)
    /\ Goto("close_writer")
    /\ Keep

\* Faulty variant of close_writer: the shell keeps a write end.
close_writer_later ==
    /\ sh.pc = "close_writer"
    /\ Become([sh EXCEPT !.pc = "start", !.side = "left"])
    /\ Keep /\ UNCHANGED vars

close_writer ==
    /\ sh.pc = "close_writer"
    /\ close(Sh, sh.write_fd)
    /\ Become([sh EXCEPT !.pc = "start", !.side = "left", !.write_fd = None])
    /\ Keep

redirect_in ==
    /\ sh.pc = "redirect_in"
    /\ dup2(Sh, sh.read_fd, SHELL_STDIN)
    /\ Goto("close_reader")
    /\ Keep

close_reader ==
    /\ sh.pc = "close_reader"
    /\ close(Sh, sh.read_fd)
    /\ Become([sh EXCEPT !.pc = "start", !.side = "right", !.read_fd = None])
    /\ Keep

\* Standard output is given back after the left command, and both files in the
\* cleanup, as far as they have been saved.
restore_out ==
    /\ \/ sh.pc = "restore_out"
       \/ sh.pc = "cleanup" /\ ~sh.backup_in /\ sh.backup_out
    /\ dup2(Sh, SHELL_BACKUP_STDOUT, SHELL_STDOUT)
    /\ Goto("drop_out")
    /\ Keep

drop_out ==
    /\ sh.pc = "drop_out"
    /\ close(Sh, SHELL_BACKUP_STDOUT)
    /\ Become([sh EXCEPT !.backup_out = FALSE,
                         !.pc = IF sh.side = "left" /\ sh.status = 0 THEN "redirect_in"
                                ELSE "cleanup"])
    /\ Keep

restore_in ==
    /\ sh.pc = "cleanup" /\ sh.backup_in
    /\ dup2(Sh, SHELL_BACKUP_STDIN, SHELL_STDIN)
    /\ Goto("drop_in")
    /\ Keep

drop_in ==
    /\ sh.pc = "drop_in"
    /\ close(Sh, SHELL_BACKUP_STDIN)
    /\ Become([sh EXCEPT !.pc = "cleanup", !.backup_in = FALSE])
    /\ Keep

\* Faulty variant of Restored: a failure before the left command is overlooked.
Restored_input_only == sh.pc = "cleanup" /\ ~sh.backup_in

Restored == sh.pc = "cleanup" /\ ~sh.backup_in /\ ~sh.backup_out

close_read_fd ==
    /\ Restored /\ sh.read_fd # None
    /\ close(Sh, sh.read_fd)
    /\ Become([sh EXCEPT !.read_fd = None])
    /\ Keep

close_write_fd ==
    /\ Restored /\ sh.read_fd = None /\ sh.write_fd # None
    /\ close(Sh, sh.write_fd)
    /\ Become([sh EXCEPT !.write_fd = None])
    /\ Keep

EndsClosed == Restored /\ sh.read_fd = None /\ sh.write_fd = None

unlink ==
    /\ EndsClosed /\ sh.created
    /\ pipe_unlink(Sh, sh.name)
    /\ Become([sh EXCEPT !.created = FALSE])
    /\ Keep

\* The end of newLine: the next prompt.
prompt ==
    /\ EndsClosed /\ ~sh.created
    /\ Become(AtPrompt)
    /\ Keep /\ UNCHANGED vars

-----------------------------------------------------------------------------
(* How a command runs *)

Step(p) == IF p = Sh THEN sh.script ELSE progs[p].script
Does(p, step) == Step(p) # <<>> /\ Head(Step(p)) = step

\* A command that cannot stand in a pipeline prints a message and fails.
start ==
    /\ sh.pc = "start"
    /\ Become([sh EXCEPT !.pc = "run",
                         !.script = IF sh.side = "alone" \/ Name \in Pipeable
                                    THEN Script(Launch, sh.bg) ELSE <<"print">>,
                         !.status = IF sh.side = "alone" \/ Name \in Pipeable THEN 0 ELSE -1])
    /\ Keep /\ UNCHANGED vars

\* The blocks of an argv with that many strings.
Blocks(strings) == strings + 1

\* Faulty variant of free_partial_args: the vector itself is forgotten.
free_partial_args_forgets(filled) == filled

\* What free_partial_args frees when filled strings have been copied.
free_partial_args(filled) == Blocks(filled)

\* The command prints a message and is over.
GiveUp ==
    Become([sh EXCEPT !.script = <<"print">>, !.strings = NoArgv,
                      !.status = IF Launch = "pipeline" THEN -1 ELSE 0])

\* build_spawn_argv, and what the commands for tests have in its place: the vector
\* is allocated and the strings are copied; what has been allocated when
\* sys_malloc fails is freed again.
build_spawn_argv ==
    /\ Does(Sh, "argv")
    /\ \E strings \in checkLine(Name).strings :
        \/ /\ Become([sh EXCEPT !.script = Tail(@), !.strings = strings])
           /\ heap' = heap + Blocks(strings)
        \/ /\ "no_memory" \in may
           /\ \E filled \in 0 .. strings - 1 :
                heap' = heap + Blocks(filled) - free_partial_args(filled)
           /\ GiveUp
    /\ UNCHANGED <<vars, progs>>

\* Faulty variant of free_spawn_args: it is not called.
free_spawn_args_never(strings) == 0

\* What free_spawn_args frees.
free_spawn_args(strings) == Blocks(strings)

\* sys_create_process_ex; when it fails the argv is freed.
create ==
    /\ Does(Sh, "create")
    /\ \/ LET p == CHOOSE q \in FreeSlots : TRUE
          IN  /\ FreeSlots # {}
              /\ proc_create(Sh, p)
              /\ progs' = [progs EXCEPT ![p] =
                              [NoProg EXCEPT !.script = checkLine(Name).program,
                                             !.strings = sh.strings, !.fg = IsForeground]]
              /\ Become([sh EXCEPT !.script = Tail(@), !.strings = NoArgv,
                                   !.child = IF IsForeground THEN p ELSE None])
              /\ UNCHANGED heap
       \/ /\ FreeSlots = {} \/ "no_memory" \in may
          /\ heap' = heap - free_spawn_args(sh.strings)
          /\ GiveUp
          /\ UNCHANGED <<vars, progs>>

\* sys_wait_pid: the child has ended, with status 0 as every program does that
\* reads the pipe, and as every process does that is killed.
wait ==
    /\ Does(Sh, "wait")
    /\ sh.child = None
    /\ Become([sh EXCEPT !.script = Tail(@)])
    /\ Keep /\ UNCHANGED vars

\* The command has come to its end.
returned ==
    /\ sh.pc = "run" /\ sh.script = <<>>
    /\ Goto(IF sh.side = "left" THEN "restore_out" ELSE "cleanup")
    /\ Keep /\ UNCHANGED vars

-----------------------------------------------------------------------------
(* What programs and the shell do with the files they have *)

File(p, fd) == files[tables[p][fd]]
OnPipe(p, fd) == File(p, fd).ptr # None

\* The next step, and with a process inside kpipe_read or kpipe_write the same.
Advance(p, held) ==
    IF p = Sh THEN Become([sh EXCEPT !.script = Tail(@)]) /\ UNCHANGED progs
    ELSE /\ progs' = [progs EXCEPT ![p].script = Tail(@), ![p].held = held]
         /\ UNCHANGED sh
Asleep(p) == procs'[p].at # None

\* One sys_write_fd: to a pipe, or to the screen.
Output(p) ==
    \/ /\ procs[p].at = None /\ OnPipe(p, SHELL_STDOUT)
       /\ write(p, SHELL_STDOUT)
    \/ Resumes(p)
    \/ InUserland(p) /\ ~OnPipe(p, SHELL_STDOUT) /\ UNCHANGED vars

\* The output of a command, or of the shell on its behalf.
print(p) ==
    /\ Does(p, "print")
    /\ Output(p)
    /\ IF Asleep(p) THEN UNCHANGED <<sh, progs>>
       ELSE \/ Advance(p, FALSE)
            \/ "long" \in may /\ p # Sh /\ UNCHANGED <<sh, progs>>
    /\ UNCHANGED heap

Reads(p) == Does(p, "copy") \/ Does(p, "filter") \/ Does(p, "count")

\* A program with a byte it has read: cat and filter pass it on, filter unless it
\* is a vowel, and wc counts it.
Took(p) ==
    /\ UNCHANGED sh
    /\ \/ /\ ~Does(p, "count")
          /\ progs' = [progs EXCEPT ![p].held = TRUE]
       \/ /\ ~Does(p, "copy")
          /\ UNCHANGED progs

\* sys_read_fd on a pipe: a byte, the end of the file, or sleep.
read_pipe(p) ==
    /\ Reads(p) /\ ~progs[p].held
    /\ \/ procs[p].at = None /\ OnPipe(p, SHELL_STDIN) /\ read(p, SHELL_STDIN)
       \/ Resumes(p)
    /\ \/ Asleep(p) /\ UNCHANGED <<sh, progs>>
       \/ ~Asleep(p) /\ moved' # <<>> /\ Took(p)
       \/ ~Asleep(p) /\ moved' = <<>> /\ Advance(p, FALSE)
    /\ UNCHANGED heap

\* sys_read_fd on the terminal: the user types a character or Ctrl+D.
read_terminal(p) ==
    /\ Reads(p) /\ ~progs[p].held
    /\ InUserland(p) /\ ~OnPipe(p, SHELL_STDIN) /\ progs[p].fg
    /\ Took(p) \/ Advance(p, FALSE)
    /\ UNCHANGED <<vars, heap>>

\* E_BG_INPUT: a program in the background may not read the terminal, and ends.
read_refused(p) ==
    /\ Reads(p)
    /\ InUserland(p) /\ ~OnPipe(p, SHELL_STDIN) /\ ~progs[p].fg
    /\ Advance(p, FALSE)
    /\ UNCHANGED <<vars, heap>>

pass_on(p) ==
    /\ Reads(p) /\ progs[p].held
    /\ Output(p)
    /\ IF Asleep(p) THEN UNCHANGED progs
       ELSE progs' = [progs EXCEPT ![p].held = FALSE]
    /\ UNCHANGED <<sh, heap>>

\* One round of a program that never ends, or, for a test, its last one.
loop_prints(p) ==
    /\ Does(p, "loop")
    /\ Output(p)
    /\ \/ UNCHANGED <<sh, progs>>
       \/ ~Asleep(p) /\ Len(Step(p)) > 1 /\ Advance(p, FALSE)
    /\ UNCHANGED heap

free(p) ==
    /\ Does(p, "free") /\ InUserland(p)
    /\ heap' = heap - free_spawn_args(progs[p].strings)
    /\ progs' = [progs EXCEPT ![p].script = Tail(@), ![p].strings = NoArgv]
    /\ UNCHANGED <<vars, sh>>

\* The end of a process, which a parent inside sys_wait_pid is told of.
Gone(p) ==
    /\ progs' = [progs EXCEPT ![p] = NoProg]
    /\ Become([sh EXCEPT !.child = IF @ = p THEN None ELSE @])
    /\ UNCHANGED heap

sys_exit(p) ==
    /\ Does(p, "exit")
    /\ proc_exit(p)
    /\ Gone(p)

\* The blocks that somebody is going to free: of the argv in each slot, the strings and
\* the vector itself.
Strings(p) == IF p = Sh THEN sh.strings ELSE progs[p].strings
OwnedBlocks == {b \in Slots \X (0 .. MAX_STRINGS) : b[2] < Blocks(Strings(b[1]))}
Owned == Cardinality(OwnedBlocks)

\* sys_kill of a program, and of a pid that nobody has.
sys_kill(p) ==
    /\ Does(p, "kill") /\ InUserland(p)
    /\ \/ \E q \in Programs \ {p} :
            /\ heap - Owned < LeakBound
            /\ proc_kill(q)
            /\ progs' = [progs EXCEPT ![q] = NoProg, ![p].script = Tail(@)]
            /\ Become([sh EXCEPT !.child = IF @ = q THEN None ELSE @])
       \/ Advance(p, FALSE) /\ UNCHANGED vars
    /\ UNCHANGED heap

\* Ctrl+C ends the program that has the terminal.
CtrlC ==
    /\ sh.child # None
    /\ heap - Owned < LeakBound
    /\ proc_kill(sh.child)
    /\ Gone(sh.child)

-----------------------------------------------------------------------------
Pipeline ==
    \/ backup_in \/ backup_out \/ open_writer \/ open_reader \/ redirect_out \/ close_writer
    \/ restore_out \/ drop_out \/ redirect_in \/ close_reader \/ restore_in \/ drop_in
    \/ close_read_fd \/ close_write_fd \/ unlink \/ prompt

ShellStep == Pipeline \/ start \/ build_spawn_argv \/ create \/ wait \/ returned \/ print(Sh)

ProgramStep(p) ==
    \/ print(p) \/ read_pipe(p) \/ read_refused(p) \/ pass_on(p) \/ loop_prints(p)
    \/ free(p) \/ sys_exit(p) \/ sys_kill(p)

ShellNext ==
    \/ newLine \/ CtrlC \/ ShellStep
    \/ \E p \in Programs : ProgramStep(p) \/ read_terminal(p)

\* The scheduler gives the CPU to every READY process again and again (module
\* Sched, NoStarvation).  Nothing is assumed of the user at the keyboard.
ShellFairness == WF_svars(ShellStep) /\ \A p \in Programs : WF_svars(ProgramStep(p))

ShellSpec == ShellInit /\ [][ShellNext]_svars /\ ShellFairness

-----------------------------------------------------------------------------
(* Properties *)

\* Whatever has failed on the way, the shell is back at its prompt with the
\* terminal on its standard files and no other file open.
FilesRestored == sh.pc = "prompt" => tables[Sh] = StdTable

\* Unless pipe_open lacks memory, a pipeline leaves no pipe behind: at the prompt a
\* pipe has no name, and it lives on only while a command in the background has
\* it open.
PipesReleased ==
    sh.pc = "prompt" /\ "no_memory" \notin may =>
        \A q \in Pipes : pipes[q].used =>
            /\ pipes[q].unlinked
            /\ \E p \in Programs, fd \in Fds :
                tables[p][fd] # None /\ files[tables[p][fd]].ptr = q

\* Every block of an argument vector belongs to the shell or to the program that
\* will free it, also when memory or slots run out half way; only programs that
\* are killed take theirs along.
ArgsHaveOwners ==
    "kill" \notin may => heap = Owned

NeedsTerminal == {"cat", "wc", "filter"}
Endless == {"loop", "test_mm", "test_processes"}

\* A command line returns to the prompt: one command in the background always, any
\* other line if no command in it loops for ever and the one before the '|', or the
\* only one, does not read the terminal; and nobody prints more in one go than a
\* pipe holds: the right command is only started when the left one is through.  The
\* end of file reaches it even if the left one still runs in the background.
PromptReturns ==
    (/\ sh.pc # "prompt"
     /\ "long" \notin may
     /\ \/ sh.bg /\ ~has_pipe(sh)
        \/ {sh.left, sh.right} \cap Endless = {} /\ sh.left \notin NeedsTerminal)
    ~> sh.pc = "prompt"
=============================================================================
