------------------------------ MODULE MCBridges ------------------------------
(***************************************************************************)
(* A guest's terminal and the shell it runs: the canvas, the tiles and the *)
(* input decoder of the TUI bridge, the console transports, and the line   *)
(* editor and commands of the guest shell. part says which one is looked   *)
(* at, so that their state spaces add up, not multiply.                    *)
(***************************************************************************)
EXTENDS Tui, Console, ShellLine, ShellCmd

VARIABLE part

vars == <<tuivars, inputvars, consolevars, linevars, cmdvars, part>>

Init ==
    /\ part \in {"canvas", "tiles", "input", "console", "editor", "shell"}
    /\ TuiInit /\ ConsoleInit /\ LineInit /\ CmdInit
    /\ IF part = "input" THEN InputInit
       ELSE \E s \in {CHOOSE s \in Streams : TRUE} : InputInit /\ toSend = s

\* Tiles are blitted onto the first VM's canvas, of one row, and not presented.
TileBound ==
    \A i \in DOMAIN sessions : /\ sessions[i].rows = 1 \/ ~sessions[i].initialized
                               /\ sessions[i].owner_vm = 1 => sessions[i].canvas = BlankCanvas

Next ==
    /\ UNCHANGED part
    /\ \/ /\ \/ part = "canvas" /\ (\/ \E v \in TuiVms : SessionCall(v) \/ CanvasCall(v)
                                    \/ tui_atexit_shutdown_all)
             \/ part = "tiles" /\ (\E v \in TuiVms : SessionCall(v) \/ TileCall(v)) /\ TileBound'
          /\ UNCHANGED <<inputvars, consolevars, linevars, cmdvars>>
       \/ /\ part = "input" /\ InputNext
          /\ UNCHANGED <<tuivars, consolevars, linevars, cmdvars>>
       \/ /\ part = "console" /\ ConsoleNext
          /\ UNCHANGED <<tuivars, inputvars, linevars, cmdvars>>
       \/ /\ part = "editor" /\ LineNext
          /\ UNCHANGED <<tuivars, inputvars, consolevars, cmdvars>>
       \/ /\ part = "shell" /\ CmdNext
          /\ UNCHANGED <<tuivars, inputvars, consolevars, linevars>>

Spec == Init /\ [][Next]_vars

-----------------------------------------------------------------------------
\* What terminals show, what keys arrive and which modes are left behind: TuiExact of the
\* canvases and tiles, EventsExact of the input decoder, ConsoleExact of the transports.
TerminalExact ==
    /\ part \in {"canvas", "tiles"} => TuiExact
    /\ part = "input" => EventsExact
    /\ part = "console" => ConsoleExact

\* The line editor (EditorExact) and the commands (ShellExact) of the guest shell.
GuestShellExact == EditorExact /\ ShellExact

-----------------------------------------------------------------------------
(* Canvases: every drawing command, at and past the edges, by the first VM. *)
Draw(op, r, c, h, w, text, pen) ==
    [op |-> op, r |-> r, c |-> c, h |-> h, w |-> w, text |-> text, pen |-> pen]
Plain(op) == Draw(op, 0, 0, 0, 0, <<>>, 0)
MCDims == {<<1, 3>>, <<9, 0>>}
MCInitFlags == {{"alt", "raw", "mouse"}}
MCDrawBuffers ==
    <<{<<Draw("SET_CELL", 1, 2, 1, 1, <<4>>, 1)>>}>> @@
    (0 :> {<<Draw("SET_CELL", 1, 1, 1, 1, <<4>>, 1), Draw("PRINT", 1, 3, 1, 1, <<4, 5>>, 1),
             Plain("BAD"), Plain("CLEAR")>>,
           <<Plain("CLEAR"), Draw("SET_PEN", 0, 0, 0, 0, <<>>, 2), Draw("BOX", 1, 1, 2, 3, <<>>, 0)>>,
           <<Draw("SET_CLIP", 1, 2, 2, 1, <<>>, 0), Draw("FILL_RECT", 0, 1, 3, 3, <<5>>, 0),
             Plain("CLEAR_CLIP"),
             Draw("MOVE", 2, 2, 0, 0, <<>>, 0), Draw("PUTS", 0, 0, 0, 0, <<4, 5, 4>>, 0),
             Plain("END"), Plain("CLEAR")>>})
MCTermOf == <<"tcp1">> @@ (0 :> "none")
MCTileArgs == <<{<<1, 1>>}>> @@ (0 :> {<<1, 2>>})
MCTileCells == {<<4, 1>>}

(* Input: pairs of keys, key sequences and mouse reports, whole or cut short. *)
Fragments ==
    {<<"esc">>, <<"x">>, <<"cr">>, <<"esc", "x">>, <<"esc", "nul">>, <<"esc", "O", "P">>,
     <<"esc", "[", "A">>, <<"esc", "[", "1", ";", "5", "C">>, <<"esc", "[", "2", "4", "~">>,
     <<"esc", "[", ";", "3", "~">>, <<"esc", "[", "1", "nul">>,
     <<"esc", "[", "<", "3", "5", ";", "1", "2", ";", "7", "M">>,
     <<"esc", "[", "<", "6", "4", ";", "1", ";", "2", ";", "3", ";", "4", "m">>}
MCStreams == {a \o b : a \in Fragments, b \in Fragments}

(* Console: telnet commands, a doubled IAC, a sub-negotiation, a Ctrl-C. *)
MCSends ==
    {<<"iac", "do", "a", "x", "etx", "x">>, <<"iac", "will", "a", "iac", "dont", "a", "iac", "se", "x">>,
     <<"x", "iac", "iac", "iac", "sb", "x", "iac", "x", "iac", "se", "x">>}
MCWrites == {<<"x", "lf">>, <<"cr">>, <<"lf", "x">>}

(* The shell's editor: words with common beginnings, hidden names, a path and a built-in. *)
Entry(n) == [name |-> n, dir |-> FALSE]
DirEntry(n) == [name |-> n, dir |-> TRUE]
MCBuiltins ==
    <<<<"a", "a">>, <<"a", "c">>, <<"ls">>, <<"cat">>, <<"touch">>, <<"mkdir">>, <<"rmdir">>, <<"rm">>,
      <<"cp">>, <<"mv">>, <<"write">>, <<"cd">>, <<"pwd">>, <<"run">>, <<"exit">>>>
MCCwd == <<"/", "t">>
MCEntries ==
    (MCCwd :> <<Entry(<<"a", "b", "a">>), Entry(<<"a", "b", "c">>), DirEntry(<<"c">>), Entry(<<".", "a">>)>>)
    @@ (<<"/", "t", "/", "c">> :> <<Entry(<<"d">>)>>) @@ (<<"/">> :> <<DirEntry(<<"t">>)>>)
MCTypable ==
    LET words == {<<"a", "b", "c">>, <<"c", "/", "d", " ", "a">>, <<"/", "B", "/">>, <<"/", "a">>,
                  <<".", " ">>, <<"a", " ", "c">>}
    IN  UNION {{SubSeq(w, 1, k) : k \in 0 .. Len(w)} : w \in words}
\* History is followed for a line of one byte, one that is not kept and one that fills the buffer.
LineBound == \A i \in DOMAIN recent : recent[i] \in {<<"a">>, <<"/">>, <<"c", "/", "d", " ", "a", "b">>}

(* The shell's commands: each on files that are there and are not, directories, the built-in *)
(* directory /B, paths up and through each other and too long, and too few arguments.        *)
MCTree ==
    (<<>> :> Dir) @@ (<<<<"t">>>> :> Dir) @@ (<<<<"t">>, <<"a">>>> :> File(<<"x", "y">>))
    @@ (<<<<"t">>, <<"d">>>> :> Dir) @@ (<<<<"t">>, <<"p">>>> :> File(<<"elf">>))
    @@ (<<<<"t">>, <<"q">>>> :> File(<<"tui">>))
MCPrograms == {<<"elf">>, <<"tui">>}
MCRude == {<<"tui">>}
MCAutostart == <<<<"/", "t", "/", "p">>>>
Cmd(c, args) == <<c>> \o FoldLeft(LAMBDA t, x : t \o <<" ">> \o x, <<>>, args)
MCLines ==
    LET a == <<"a">>
        b == <<"b">>
        d == <<"d">>
        da == <<"d", "/", "a">>
        ua == <<".", ".", "/", "a">>
        td == <<"/", "t", "/", "d">>
        bin == <<"/", "B">>
    IN  {Cmd("ls", <<>>), Cmd("ls", <<bin>>), Cmd("cat", <<a>>), Cmd("cat", <<bin \o <<"/", "ls">>>>),
         Cmd("touch", <<b>>), Cmd("mkdir", <<da>>), Cmd("rmdir", <<d>>), Cmd("rmdir", <<td \o <<"/">>>>),
         Cmd("rm", <<a>>), Cmd("rm", <<da>>), Cmd("cp", <<a, da>>), Cmd("cp", <<ua, a>>), Cmd("cp", <<a, d>>),
         Cmd("cp", <<a>>), Cmd("mv", <<da, b>>), Cmd("mv", <<a, da>>), Cmd("mv", <<ua, a>>),
         Cmd("write", <<a, <<"x">>, <<"y", "z">>>>), Cmd("write", <<a>>), Cmd("cd", <<d>>),
         Cmd("cd", <<<<".", ".">>>>), Cmd("cd", <<<<"/", "t", "/">>>>), Cmd("cd", <<bin \o <<"/">>>>),
         Cmd("cd", <<>>), Cmd("cd", <<td \o <<"/", "d", "/", "d">>>>),
         Cmd("cd", <<<<"d", "/", "d", "/", "d", "/", "d">>>>), Cmd("pwd", <<>>), Cmd("run", <<<<"q">>>>),
         Cmd("run", <<>>), Cmd("run", <<a>>), <<"p">>, <<"z">>, bin \o <<"/", "pwd">>, bin \o <<"/", "z">>,
         <<" ", "exit">>, <<" ">>}

-----------------------------------------------------------------------------
Followed == LineBound

\* The state of the part that runs, up to what the code never reads again.
TuiView ==
    <<[i \in DOMAIN sessions |-> IF sessions[i].initialized THEN sessions[i] ELSE session_reset],
      [v \in TuiVms |-> [i \in TileSlots |->
          IF g_tile_slots[v][i].in_use THEN <<g_tile_slots[v][i], tileWant[v][i]>> ELSE <<>>]],
      [a \in 0 .. g_tile_arena_used - 1 |-> g_tile_arena[a]],
      g_transport_by_vm, terms, tuiLive, exited>>
View == <<part, CASE part \in {"canvas", "tiles"} -> TuiView
                  [] part = "input" -> inputvars
                  [] part = "console" -> consolevars
                  [] part = "editor" -> linevars
                  [] part = "shell" -> cmdvars>>
=============================================================================
