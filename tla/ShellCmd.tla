------------------------------ MODULE ShellCmd ------------------------------
(***************************************************************************)
(* The commands of the guest shell and the loop around them: autostart,    *)
(* prompt, dispatch, and the file calls each command makes, on a tree of   *)
(* files with limited room. The file bridge and the terminal, which are    *)
(* modules of their own, are seen here through what their calls return.    *)
(*                                                                         *)
(* A command is one action: nothing else runs in the shell's VM, and a     *)
(* program it starts is waited for.                                        *)
(***************************************************************************)
EXTENDS ShellLine

CONSTANTS
    Lines,          \* bound: the command lines that are entered
    Tree0,          \* the files at boot: names along the path -> node
    Programs,       \* contents that sys_spawn_and_wait can run
    Autostart,      \* the paths that /td0/etc/autostart lists
    Rude,           \* programs that change the terminal's mode before they exit
    RoomCells,      \* what the volume can hold
    MaxFds,         \* descriptors
    CanRaw,         \* stdin is a terminal
    MaxCommands     \* bound

ASSUME ShellCmdAssumption ==
    /\ RoomCells \in Nat /\ MaxFds \in Nat \ {0} /\ MaxCommands \in Nat /\ CanRaw \in BOOLEAN

VARIABLES
    phase,          \* "boot", "prompt" or "exited"
    g_cwd,
    tree,           \* names along a path -> [dir, data]
    openfds,        \* number of descriptors the shell has open
    raw,            \* the terminal's mode
    last,           \* what the last command was and said
    commands

cmdvars == <<phase, g_cwd, tree, openfds, raw, last, commands>>

Dir == [dir |-> TRUE, data |-> <<>>]
File(data) == [dir |-> FALSE, data |-> data]
Sys == [tree |-> tree, fds |-> openfds, ok |-> TRUE]

-----------------------------------------------------------------------------
(* The calls of the file bridge: each gives the new tree and descriptors,   *)
(* and whether it succeeded.                                                *)

Fail(s) == [s EXCEPT !.ok = FALSE]
Used(t) == FoldSet(LAMBDA n, sum : sum + Len(t[n].data), 0, DOMAIN t)
IsDir(t, n) == n \in DOMAIN t /\ t[n].dir
Parent(n) == Front(n)
Without(t, n) == [m \in DOMAIN t \ {n} |-> t[m]]
With(t, n, node) == [m \in DOMAIN t \cup {n} |-> IF m = n THEN node ELSE t[m]]

sys_open_dir(s, path) ==
    IF s.fds < MaxFds /\ IsDir(s.tree, PathNames(path)) THEN [s EXCEPT !.fds = @ + 1] ELSE Fail(s)

sys_open_read(s, path) ==
    IF s.fds < MaxFds /\ PathNames(path) \in DOMAIN s.tree /\ ~s.tree[PathNames(path)].dir
    THEN [s EXCEPT !.fds = @ + 1] ELSE Fail(s)

\* O_CREAT, and O_TRUNC if trunc.
sys_open_write(s, path, trunc) ==
    LET n == PathNames(path)
    IN  IF s.fds >= MaxFds \/ n = <<>> \/ ~IsDir(s.tree, Parent(n)) \/ IsDir(s.tree, n) THEN Fail(s)
        ELSE [s EXCEPT !.fds = @ + 1,
                       !.tree = IF n \in DOMAIN @ /\ ~trunc THEN @ ELSE With(@, n, File(<<>>))]

sys_close(s) == [s EXCEPT !.fds = @ - 1]

sys_mkdirat(s, path) ==
    LET n == PathNames(path)
    IN  IF n = <<>> \/ n \in DOMAIN s.tree \/ ~IsDir(s.tree, Parent(n)) THEN Fail(s)
        ELSE [s EXCEPT !.tree = With(@, n, Dir)]

Children(t, n) == {m \in DOMAIN t : m # <<>> /\ Parent(m) = n}

sys_unlinkat(s, path, removedir) ==
    LET n == PathNames(path)
    IN  IF n = <<>> \/ n \notin DOMAIN s.tree THEN Fail(s)
        ELSE IF s.tree[n].dir # removedir \/ Children(s.tree, n) # {} THEN Fail(s)
        ELSE [s EXCEPT !.tree = Without(@, n)]

\* Writing until the volume is full: the characters taken are added, and ok
\* tells whether all were.
Write(s, path, data) ==
    LET n == PathNames(path)
        k == Min({Len(data), RoomCells - Used(s.tree)})
    IN  [s EXCEPT !.tree = With(@, n, File(@[n].data \o SubSeq(data, 1, k))), !.ok = (k = Len(data))]

-----------------------------------------------------------------------------
(* The commands. Each is given its resolved paths and gives the calls' result. *)

\* Opened, read to the end and closed: ls, cat, and the test for a program.
cmd_ls(s, path) ==
    IF is_builtin_dir(path) THEN s
    ELSE IF sys_open_dir(s, path).ok THEN sys_close(sys_open_dir(s, path)) ELSE Fail(s)

cmd_cat(s, path) ==
    IF reject_if_builtin(path) THEN Fail(s)
    ELSE IF sys_open_read(s, path).ok THEN sys_close(sys_open_read(s, path)) ELSE Fail(s)

cmd_touch(s, path) ==
    IF reject_if_builtin(path) THEN Fail(s)
    ELSE IF sys_open_write(s, path, FALSE).ok THEN sys_close(sys_open_write(s, path, FALSE)) ELSE Fail(s)

cmd_mkdir(s, path) == IF reject_if_builtin(path) THEN Fail(s) ELSE sys_mkdirat(s, path)
cmd_rmdir(s, path) == IF reject_if_builtin(path) THEN Fail(s) ELSE sys_unlinkat(s, path, TRUE)
cmd_rm(s, path) == IF reject_if_builtin(path) THEN Fail(s) ELSE sys_unlinkat(s, path, FALSE)

\* The words with spaces between them and the newline. A word none of which
\* fits ends it; what else does not fit is dropped in silence.
WriteWord(s, path, word) ==
    IF ~s.ok \/ (word # <<>> /\ Used(s.tree) >= RoomCells) THEN Fail(s)
    ELSE [Write(s, path, word) EXCEPT !.ok = TRUE]
WriteSep(s, path, c) == IF s.ok THEN [Write(s, path, <<c>>) EXCEPT !.ok = TRUE] ELSE s
WriteText(s, path, words) ==
    sys_close(WriteSep(
        FoldLeft(LAMBDA r, w : WriteWord(WriteSep(r, path, " "), path, w),
                 WriteWord(s, path, words[1]), Tail(words)), path, "nl"))

cmd_write(s, path, words) ==
    IF reject_if_builtin(path) THEN Fail(s)
    ELSE IF sys_open_write(s, path, TRUE).ok
    THEN WriteText(sys_open_write(s, path, TRUE), path, words)
    ELSE Fail(s)

copy_fd_to_fd(s, src, dst) == Write(s, dst, s.tree[PathNames(src)].data)

\* Both descriptors closed, whatever the copy gave.
CloseBoth(s) == sys_close(sys_close(s))

CopyInto_Leaks(s, src, dst) ==
    IF ~sys_open_read(s, src).ok THEN Fail(s)
    ELSE IF ~sys_open_write(sys_open_read(s, src), dst, TRUE).ok
    THEN Fail(sys_open_read(s, src))
    ELSE CloseBoth(copy_fd_to_fd(sys_open_write(sys_open_read(s, src), dst, TRUE), src, dst))
CopyInto(s, src, dst) ==
    IF ~sys_open_read(s, src).ok THEN Fail(s)
    ELSE IF ~sys_open_write(sys_open_read(s, src), dst, TRUE).ok
    THEN sys_close(Fail(sys_open_read(s, src)))
    ELSE CloseBoth(copy_fd_to_fd(sys_open_write(sys_open_read(s, src), dst, TRUE), src, dst))

cmd_cp(s, src, dst) ==
    IF reject_if_builtin(src) \/ reject_if_builtin(dst) THEN Fail(s) ELSE CopyInto(s, src, dst)

\* The source goes only after the copy succeeded; that it could not be removed
\* is reported.
cmd_mv(s, src, dst) ==
    IF reject_if_builtin(src) \/ reject_if_builtin(dst) THEN Fail(s)
    ELSE IF CopyInto(s, src, dst).ok THEN sys_unlinkat(CopyInto(s, src, dst), src, FALSE)
    ELSE CopyInto(s, src, dst)

-----------------------------------------------------------------------------
(* The loop. *)

Report(name, args, s) ==
    /\ tree' = s.tree /\ openfds' = s.fds
    /\ last' = [name |-> name, args |-> args, ok |-> s.ok]

\* Raw mode is entered again after every command, for the next prompt.
NextPrompt ==
    /\ commands' = commands + 1
    /\ raw' = (CanRaw \/ raw)
    /\ UNCHANGED phase

\* Every path among the arguments; the command returns if one is too long.
ArgPaths(args) == [k \in DOMAIN args |-> resolve_path(g_cwd, args[k])]
Resolved(ps) == \A k \in DOMAIN ps : ps[k] # Failed

\* argc is checked first, then the paths are resolved.
FileCommand(name, argc, args, Do(_)) ==
    /\ IF Len(args) < argc - 1 THEN Report(name, args, Fail(Sys))
       ELSE \E ps \in {ArgPaths(args)} :
                IF Resolved(ps) THEN Report(name, args, Do(ps)) ELSE Report(name, args, Fail(Sys))
    /\ UNCHANGED g_cwd /\ NextPrompt

TakeTwo(args) == SubSeq(args, 1, Min({2, Len(args)}))
TakeOne(args) == SubSeq(args, 1, Min({1, Len(args)}))

\* ls without an argument lists ".".
Ls(args) == FileCommand("ls", 2, IF args = <<>> THEN <<<<".">>>> ELSE TakeOne(args), LAMBDA ps : cmd_ls(Sys, ps[1]))
Cat(args) == FileCommand("cat", 2, TakeOne(args), LAMBDA ps : cmd_cat(Sys, ps[1]))
Touch(args) == FileCommand("touch", 2, TakeOne(args), LAMBDA ps : cmd_touch(Sys, ps[1]))
Mkdir(args) == FileCommand("mkdir", 2, TakeOne(args), LAMBDA ps : cmd_mkdir(Sys, ps[1]))
Rmdir(args) == FileCommand("rmdir", 2, TakeOne(args), LAMBDA ps : cmd_rmdir(Sys, ps[1]))
Rm(args) == FileCommand("rm", 2, TakeOne(args), LAMBDA ps : cmd_rm(Sys, ps[1]))
Cp(args) == FileCommand("cp", 3, TakeTwo(args), LAMBDA ps : cmd_cp(Sys, ps[1], ps[2]))
Mv(args) == FileCommand("mv", 3, TakeTwo(args), LAMBDA ps : cmd_mv(Sys, ps[1], ps[2]))
WriteCmd(args) ==
    IF Len(args) < 2 THEN FileCommand("write", 3, args, LAMBDA ps : Sys)
    ELSE FileCommand("write", 2, TakeOne(args), LAMBDA ps : cmd_write(Sys, ps[1], Tail(args)))

\* The directory is opened to see that it is one; a trailing slash goes.
Cd(args) ==
    /\ NextPrompt
    /\ \E p \in {IF args = <<>> THEN Failed ELSE resolve_path(g_cwd, args[1])} :
          \/ /\ p = Failed /\ Report("cd", args, Fail(Sys)) /\ UNCHANGED g_cwd
          \/ /\ p # Failed /\ is_builtin_dir(p)
             /\ g_cwd' = <<"/", "B">> /\ Report("cd", args, Sys)
          \/ /\ p # Failed /\ ~is_builtin_dir(p) /\ sys_open_dir(Sys, p).ok
             /\ g_cwd' = scpy(IF Len(p) > 1 /\ Last(p) = "/" THEN Front(p) ELSE p, CwdCap)
             /\ Report("cd", args, sys_close(sys_open_dir(Sys, p)))
          \/ /\ p # Failed /\ ~is_builtin_dir(p) /\ ~sys_open_dir(Sys, p).ok
             /\ Report("cd", args, Fail(Sys)) /\ UNCHANGED g_cwd

\* help, pwd, history and meminfo only print.
Prints(name) == Report(name, <<>>, Sys) /\ UNCHANGED g_cwd /\ NextPrompt

\* sys_spawn_and_wait of a path: refused, or the program runs and exits. A rude
\* one leaves the terminal in either mode.
Runs(path) == PathNames(path) \in DOMAIN tree /\ tree[PathNames(path)].data \in Programs
ModesAfter(path, mode) ==
    IF Runs(path) /\ tree[PathNames(path)].data \in Rude THEN BOOLEAN ELSE {mode}

exec_path(path) ==
    /\ \E mode \in ModesAfter(path, raw) : raw' = (CanRaw \/ mode)
    /\ Report("run", <<path>>, IF Runs(path) THEN Sys ELSE Fail(Sys))
    /\ UNCHANGED <<g_cwd, phase>> /\ commands' = commands + 1

RunCmd(args) ==
    \E p \in {IF args = <<>> THEN Failed ELSE resolve_path(g_cwd, args[1])} :
        \/ p # Failed /\ exec_path(p)
        \/ p = Failed /\ Report("run", args, Fail(Sys)) /\ UNCHANGED g_cwd /\ NextPrompt

\* A word that is no builtin: run as a program if it can be opened.
looks_like_runnable_path(tok) ==
    \E p \in {resolve_path(g_cwd, tok)} : p # Failed /\ sys_open_read(Sys, p).ok

Unknown(tok) ==
    \/ looks_like_runnable_path(tok) /\ exec_path(resolve_path(g_cwd, tok))
    \/ /\ ~looks_like_runnable_path(tok)
       /\ Report("unknown", <<tok>>, Fail(Sys)) /\ UNCHANGED g_cwd /\ NextPrompt

\* exit and quit, and the end of the input.
Leave ==
    /\ phase' = "exited" /\ raw' = FALSE /\ commands' = commands + 1
    /\ Report("exit", <<>>, Sys) /\ UNCHANGED g_cwd

EndOfInput ==
    /\ phase = "prompt"
    /\ phase' = "exited" /\ raw' = (raw /\ ~CanRaw)
    /\ UNCHANGED <<g_cwd, tree, openfds, last, commands>>

\* The command's name is one character here, or B/ and one for /builtin/<name>.
Command(word) == IF is_builtin_file(word) THEN BuiltinName(word) ELSE word

dispatch(argv) ==
    \E name \in {Command(argv[1])}, args \in {Tail(argv)} :
        \/ /\ is_builtin_file(argv[1]) /\ ~is_known_builtin(name)
           /\ Report("unknown", <<argv[1]>>, Fail(Sys)) /\ UNCHANGED g_cwd /\ NextPrompt
        \/ name = <<"ls">> /\ Ls(args)
        \/ name = <<"cat">> /\ Cat(args)
        \/ name = <<"touch">> /\ Touch(args)
        \/ name = <<"mkdir">> /\ Mkdir(args)
        \/ name = <<"rmdir">> /\ Rmdir(args)
        \/ name = <<"rm">> /\ Rm(args)
        \/ name = <<"cp">> /\ Cp(args)
        \/ name = <<"mv">> /\ Mv(args)
        \/ name = <<"write">> /\ WriteCmd(args)
        \/ name = <<"cd">> /\ Cd(args)
        \/ name = <<"pwd">> /\ Prints("pwd")
        \/ name = <<"run">> /\ RunCmd(args)
        \/ name = <<"exit">> /\ Leave
        \/ ~is_builtin_file(argv[1]) /\ ~is_known_builtin(argv[1]) /\ Unknown(argv[1])

Argvs == {tokenize(line) : line \in Lines}

Prompted ==
    /\ phase = "prompt" /\ commands < MaxCommands
    /\ \E argv \in Argvs \ {<<>>} : dispatch(argv)

\* Raw mode, then the programs autostart lists, one after the other; nothing
\* sets the mode again before the first prompt.
RECURSIVE AutoModes(_, _)
AutoModes(paths, mode) ==
    IF paths = <<>> THEN {mode}
    ELSE UNION {AutoModes(Tail(paths), m) : m \in ModesAfter(Head(paths), mode)}

run_autostart ==
    /\ phase = "boot" /\ phase' = "prompt"
    /\ raw' \in AutoModes(Autostart, CanRaw)
    /\ UNCHANGED <<g_cwd, tree, openfds, last, commands>>

CmdInit ==
    /\ phase = "boot" /\ g_cwd = <<"/", "t">> /\ tree = Tree0 /\ openfds = 0
    /\ raw = FALSE /\ last = [name |-> "none", args |-> <<>>, ok |-> TRUE] /\ commands = 0

CmdNext == run_autostart \/ Prompted \/ EndOfInput

CmdSpec == CmdInit /\ [][CmdNext]_cmdvars

-----------------------------------------------------------------------------
(* What makes the commands correct. *)

\* No command, whichever of its calls failed, leaves a descriptor open.
NothingLeftOpen == openfds = 0

\* At the prompt the terminal is raw, whatever a program did to it; after the
\* shell has left it is not (_start, dispatch).
TerminalMode ==
    /\ phase = "prompt" => raw = CanRaw
    /\ phase = "exited" => ~raw

\* The names the user means: those of the working directory, one less for a
\* leading "..", then those typed; from the root if the path begins with it.
Meant(in) ==
    LET here == PathNames(g_cwd)
        up == IF here = <<>> THEN here ELSE Front(here)
    IN  IF in # <<>> /\ Head(in) = "/" THEN PathNames(in)
        ELSE IF in = <<".", ".">> \/ StartsWith(in, <<".", ".", "/">>) THEN up \o PathNames(From(in, 3))
        ELSE here \o PathNames(in)

\* resolve_path gives the path that is meant, or refuses one that is too long.
PathsExact ==
    \A word \in UNION {ToSet(argv) : argv \in Argvs} :
        \E p \in {resolve_path(g_cwd, word)} :
            p = Failed \/ (Head(p) = "/" /\ PathNames(p) = Meant(word))

\* A command that copies or moves, reported as done, has put what the source
\* held in the destination; a copy keeps the source, and so does a move that
\* failed (copy_fd_to_fd, cmd_cp, cmd_mv). self asks it also of a file copied
\* onto itself.
CopyExact(self) ==
    /\ commands' # commands /\ last'.name \in {"cp", "mv"} /\ Len(last'.args) = 2
    => \E src \in {PathNames(resolve_path(g_cwd, last'.args[1]))},
          dst \in {PathNames(resolve_path(g_cwd, last'.args[2]))} :
        src # dst \/ self
        => /\ last'.ok => tree'[dst] = tree[src] /\ (src \in DOMAIN tree') = (last'.name = "cp")
           /\ ~last'.ok \/ last'.name = "cp"
                => (src \in DOMAIN tree => src \in DOMAIN tree' /\ tree'[src] = tree[src])

\* cd goes to the directory it was given and looked at.
CdExact ==
    commands' # commands /\ last'.name = "cd" /\ last'.ok
    => \/ is_builtin_dir(g_cwd')
       \/ PathNames(g_cwd') = PathNames(resolve_path(g_cwd, last'.args[1]))

\* The promises of the shell's commands, after every one of them.
ShellExact ==
    [][/\ NothingLeftOpen' /\ TerminalMode' /\ CopyExact(FALSE) /\ CdExact
       /\ phase # phase' \/ g_cwd' # g_cwd => PathsExact']_cmdvars

\* Claimed, and not so: a file moved onto itself is still there.
MoveKeeps == [][CopyExact(TRUE)]_cmdvars
=============================================================================
