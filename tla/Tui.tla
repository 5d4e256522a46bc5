-------------------------------- MODULE Tui --------------------------------
(***************************************************************************)
(* The terminal-canvas service (src/vm/vm_host_tui.c), its tiles           *)
(* (vm_host_tui_tile.c) and, at the end, its input parser: per-VM sessions *)
(* with a back and a front buffer, the draw commands, the full and the     *)
(* differential repaint, the modes a session sets on its terminal and      *)
(* takes back, and the arena the tiles of all VMs share.                   *)
(*                                                                         *)
(* A character is a number (0 is the space), a pen (fg, bg, attrs) is a    *)
(* number (0 is the default), a cell is <<character, pen>>.  The terminal  *)
(* is external: it obeys cursor moves, SGR and characters.  A call that    *)
(* returns an error changes nothing and is not an action.                  *)
(***************************************************************************)
EXTENDS Integers, Sequences, FiniteSets, SequencesExt

CONSTANTS
    TuiVms,         \* VM ids, naturals
    PoolCount,      \* sessions in the pool; the built-in fallback is a pool of 1
    MaxRows, MaxCols,
    Dims,           \* the <<rows, cols>> guests ask for
    InitFlags,      \* the flag sets guests ask for
    DrawBuffers,    \* per VM, the command buffers it flushes
    TermOf,         \* per VM, the terminal bound to it when it is loaded
    InitRaw,        \* the terminals are raw before any session
    TilesPerVm, ArenaCells,
    TileArgs,       \* per VM, the <<rows, cols>> of the tiles it creates
    TileCells,      \* the cells guests store into tiles
    BoundExit,      \* a VM bound to a terminal of its own may exit with its canvas open
    Reinit,         \* SYS_TUI_INIT may change the flags of an open session
    AnyOrder        \* tiles may be compacted in an order other than the arena's

ASSUME TuiAssumption ==
    /\ TuiVms \subseteq Nat /\ PoolCount \in Nat \ {0}
    /\ MaxRows \in Nat \ {0} /\ MaxCols \in Nat \ {0}
    /\ TilesPerVm \in Nat /\ ArenaCells \in Nat
    /\ {InitRaw, BoundExit, Reinit, AnyOrder} \subseteq BOOLEAN

VARIABLES
    sessions,           \* the pool: [slot -> VmTuiSession]
    g_transport_by_vm,  \* per VM, its terminal or NoTerm (vm_host_stdio.c)
    terms,              \* external: the terminals
    tuiLive,            \* the VMs that are loaded
    g_tile_slots,       \* [vm -> [slot -> TileSlot]]
    g_tile_arena, g_tile_arena_used,
    tileWant,           \* ghost: [vm -> [slot -> the tile's cells as its guest set them]]
    exited              \* the host process has run its atexit hooks

tuivars == <<sessions, g_transport_by_vm, terms, tuiLive, g_tile_slots,
             g_tile_arena, g_tile_arena_used, tileWant, exited>>
tilevars == <<g_tile_slots, g_tile_arena, g_tile_arena_used, tileWant>>

NoVm == 65535
NoTerm == "none"
HostTerm == "host"      \* the default transport, or stdout
NoPen == 65535          \* the renderer's "pen unknown"
BlankCell == <<0, 0>>
Slots == 0 .. (PoolCount - 1)
TileSlots == 0 .. (TilesPerVm - 1)
Terms == ({HostTerm} \cup {TermOf[v] : v \in TuiVms}) \ {NoTerm}
BlankCanvas == [r \in 1 .. MaxRows |-> [c \in 1 .. MaxCols |-> BlankCell]]

session_reset ==
    [owner_vm |-> NoVm, initialized |-> FALSE, flags |-> {}, rows |-> MaxRows, cols |-> MaxCols,
     canvas |-> BlankCanvas, front |-> BlankCanvas, front_valid |-> FALSE, raw_mode_we_set |-> FALSE,
     pen |-> 0, cur |-> <<1, 1>>, clip |-> <<1, 1, MaxRows, MaxCols>>,
     shown |-> BlankCanvas]     \* ghost: the canvas at the last present

Screen == [show |-> BlankCanvas, pos |-> <<1, 1>>, sgr |-> 0, modes |-> {}, raw |-> InitRaw]

\* vm_host_tui_set_pool before any VM runs.
TuiInit ==
    /\ sessions = [i \in Slots |-> session_reset]
    /\ g_transport_by_vm = [v \in TuiVms |-> NoTerm]
    /\ terms = [t \in Terms |-> Screen]
    /\ tuiLive = {} /\ exited = FALSE
    /\ g_tile_slots = [v \in TuiVms |-> [i \in TileSlots |->
                          [in_use |-> FALSE, rows |-> 0, cols |-> 0, arena_off |-> 0]]]
    /\ g_tile_arena = [a \in 0 .. (ArenaCells - 1) |-> [cell |-> BlankCell, clear |-> FALSE]]
    /\ g_tile_arena_used = 0
    /\ tileWant = [v \in TuiVms |-> [i \in TileSlots |-> <<>>]]

-----------------------------------------------------------------------------
(* Sessions and routing. *)

session_find(v) == {i \in Slots : sessions[i].owner_vm = v}

\* A VM with no session is given slot 0, whoever owns it.
cur_session(v) == IF session_find(v) # {} THEN CHOOSE i \in session_find(v) : TRUE ELSE 0

\* The check at the top of every handler that draws.
Owns(v) == sessions[cur_session(v)].owner_vm = v

session_alloc(v) ==
    IF session_find(v) # {} THEN session_find(v)
    ELSE {i \in session_find(NoVm) : \A j \in session_find(NoVm) : i <= j}

\* The terminal of VM v under the bindings b.
hresolve_transport(b, v) == IF b[v] # NoTerm THEN b[v] ELSE HostTerm

handle_tui_get_dims(v) ==
    LET s == sessions[cur_session(v)]
    IN  IF s.initialized THEN <<s.rows, s.cols>> ELSE <<0, 0>>

-----------------------------------------------------------------------------
(* Drawing. *)

in_canvas(s, r, c) == r \in 1 .. s.rows /\ c \in 1 .. s.cols

drawable(s, r, c) ==
    /\ in_canvas(s, r, c)
    /\ r \in s.clip[1] .. (s.clip[1] + s.clip[3] - 1)
    /\ c \in s.clip[2] .. (s.clip[2] + s.clip[4] - 1)

\* set_cell at every position of Pos.
set_cells(s, Pos, CellAt(_, _)) ==
    [s EXCEPT !.canvas = [r \in 1 .. MaxRows |-> [c \in 1 .. MaxCols |->
        IF <<r, c>> \in Pos /\ drawable(s, r, c) THEN CellAt(r, c) ELSE s.canvas[r][c]]]]

canvas_clear(s) ==
    [s EXCEPT !.canvas = [r \in 1 .. MaxRows |-> [c \in 1 .. MaxCols |->
        IF in_canvas(s, r, c) THEN BlankCell ELSE s.canvas[r][c]]]]

Rect(r, c, h, w) == (r .. (r + h - 1)) \X (c .. (c + w - 1))

\* '+' (1) at the corners, '-' (2) and '|' (3) on the edges.
apply_box(s, r0, c0, h, w) ==
    LET onRow(r) == r \in {r0, r0 + h - 1}
        onCol(c) == c \in {c0, c0 + w - 1}
        Glyph(r, c) == <<IF onRow(r) /\ onCol(c) THEN 1 ELSE IF onRow(r) THEN 2 ELSE 3, s.pen>>
        Edge == {p \in Rect(r0, c0, h, w) : onRow(p[1]) \/ onCol(p[2])}
    IN  IF h < 2 \/ w < 2 THEN s ELSE set_cells(s, Edge, Glyph)

\* A string at a position, in a pen.
Text(s, r0, c0, text, pen) ==
    LET Letter(r, c) == <<text[c - c0 + 1], pen>>
    IN  set_cells(s, {<<r0, c0 + i - 1>> : i \in DOMAIN text}, Letter)

\* One command x of a buffer; SET_PEN stands for SET_FG, SET_BG and SET_ATTR.
DrawCommand(s, x) ==
    CASE x.op = "SET_CELL" -> Text(s, x.r, x.c, x.text, x.pen)
      [] x.op = "PRINT" -> Text(s, x.r, x.c, x.text, x.pen)
      [] x.op = "FILL_RECT" -> LET Same(r, c) == <<x.text[1], s.pen>>
                               IN  set_cells(s, Rect(x.r, x.c, x.h, x.w), Same)
      [] x.op = "BOX" -> apply_box(s, x.r, x.c, x.h, x.w)
      [] x.op = "MOVE" -> [s EXCEPT !.cur = <<x.r, x.c>>]
      [] x.op = "SET_PEN" -> [s EXCEPT !.pen = x.pen]
      [] x.op = "CLEAR" -> canvas_clear(s)
      [] x.op = "SET_CLIP" -> [s EXCEPT !.clip = <<x.r, x.c, x.h, x.w>>]
      [] x.op = "CLEAR_CLIP" -> [s EXCEPT !.clip = <<1, 1, s.rows, s.cols>>]
      [] x.op \in {"PUTC", "PUTS"} ->
            [Text(s, s.cur[1], s.cur[2], x.text, s.pen) EXCEPT !.cur[2] = @ + Len(x.text)]

\* END and the first malformed command stop the parse; what was drawn stays.
parse_draw_commands(s, buf) ==
    LET Step(acc, x) == IF acc.stop \/ x.op \in {"END", "BAD"} THEN [acc EXCEPT !.stop = TRUE]
                        ELSE [acc EXCEPT !.s = DrawCommand(@, x)]
    IN  FoldLeft(Step, [s |-> s, stop |-> FALSE], buf).s

-----------------------------------------------------------------------------
(* Repainting.  out_bytes, out_flush and hwrite deliver in order. *)

Move(r, c) == <<"move", r, c>>
Sgr(pen) == <<"sgr", pen, 0>>
Char(ch) == <<"char", ch, 0>>
Columns(s) == [c \in 1 .. s.cols |-> c]
Rows(s) == [r \in 1 .. s.rows |-> r]

emit_full_row(s, r) ==
    LET Step(acc, c) ==
            LET k == s.canvas[r][c]
            IN  [out |-> acc.out \o (IF k[2] # acc.pen THEN <<Sgr(k[2])>> ELSE <<>>) \o <<Char(k[1])>>,
                 pen |-> k[2]]
    IN  FoldLeft(Step, [out |-> <<Move(r, 1)>>, pen |-> NoPen], Columns(s)).out

emit_diff_row_KeepsGoing(s, r) ==
    LET Step(acc, c) ==
            LET k == s.canvas[r][c]
            IN  IF k = s.front[r][c] THEN acc
                ELSE [out |-> acc.out \o (IF acc.pen = NoPen THEN <<Move(r, c)>> ELSE <<>>)
                                      \o (IF k[2] # acc.pen THEN <<Sgr(k[2])>> ELSE <<>>) \o <<Char(k[1])>>,
                      pen |-> k[2]]
    IN  FoldLeft(Step, [out |-> <<>>, pen |-> NoPen], Columns(s)).out

\* A gap since the last cell emitted costs a move and forgets the pen.
emit_diff_row(s, r) ==
    LET Step(acc, c) ==
            LET k == s.canvas[r][c]
                gap == c # acc.last + 1
                pen == IF gap THEN NoPen ELSE acc.pen
            IN  IF k = s.front[r][c] THEN acc
                ELSE [out |-> acc.out \o (IF gap THEN <<Move(r, c)>> ELSE <<>>)
                                      \o (IF k[2] # pen THEN <<Sgr(k[2])>> ELSE <<>>) \o <<Char(k[1])>>,
                      pen |-> k[2], last |-> c]
    IN  FoldLeft(Step, [out |-> <<>>, pen |-> NoPen, last |-> -1], Columns(s)).out

do_present(s) ==
    LET Step(out, r) == out \o emit_full_row(s, r)
    IN  FoldLeft(Step, <<Move(1, 1)>>, Rows(s)) \o <<Sgr(0)>>

do_present_diff(s) ==
    LET Step(out, r) == out \o emit_diff_row(s, r)
    IN  IF s.front_valid THEN FoldLeft(Step, <<>>, Rows(s)) \o <<Sgr(0)>> ELSE do_present(s)

copy_back_to_front(s) == [s EXCEPT !.front = s.canvas, !.front_valid = TRUE, !.shown = s.canvas]

\* External: a terminal obeys; characters past its last column are lost.
Obey(t, out) ==
    LET Step(a, x) ==
            CASE x[1] = "move" -> [a EXCEPT !.pos = <<x[2], x[3]>>]
              [] x[1] = "sgr" -> [a EXCEPT !.sgr = x[2]]
              [] x[1] = "char" ->
                    [a EXCEPT !.show = IF a.pos[2] \in 1 .. MaxCols
                                       THEN [@ EXCEPT ![a.pos[1]][a.pos[2]] = <<x[2], a.sgr>>] ELSE @,
                              !.pos[2] = @ + 1]
    IN  FoldLeft(Step, t, out)

-----------------------------------------------------------------------------
(* The life of a session. *)

Modes == {"alt", "nocursor", "mouse"}

\* The terminal setup of do_init; entering the alternate screen clears it.
SetUp(t, flags) ==
    [t EXCEPT !.modes = @ \cup (flags \cap Modes),
              !.show = IF "alt" \in flags THEN BlankCanvas ELSE @,
              !.raw = @ \/ "raw" \in flags]

\* An open session is initialised over; one in a fresh slot is reset first.
do_init(v, rows, cols, flags) ==
    \E i \in session_alloc(v) :
        LET r == IF rows \in 1 .. MaxRows THEN rows ELSE MaxRows
            c == IF cols \in 1 .. MaxCols THEN cols ELSE MaxCols
            new == [session_reset EXCEPT !.owner_vm = v, !.initialized = TRUE, !.flags = flags,
                        !.rows = r, !.cols = c, !.clip = <<1, 1, r, c>>, !.raw_mode_we_set = "raw" \in flags]
        IN  /\ sessions' = [sessions EXCEPT ![i] = new]
            /\ terms' = [terms EXCEPT ![hresolve_transport(g_transport_by_vm, v)] = SetUp(@, flags)]

\* What do_shutdown takes back: what the session's own flags say it set.
TakeBack(t, s) ==
    [t EXCEPT !.modes = @ \ s.flags,
              !.show = IF "alt" \in s.flags THEN BlankCanvas ELSE @,
              !.sgr = IF "alt" \in s.flags THEN @ ELSE 0,
              !.raw = @ /\ ~s.raw_mode_we_set]

\* Under the bindings b; nothing for a session that is not initialised.
do_shutdown(b, i) ==
    LET s == sessions[i]
    IN  IF s.initialized
        THEN /\ sessions' = [sessions EXCEPT ![i].initialized = FALSE, ![i].owner_vm = NoVm,
                                             ![i].flags = {}, ![i].raw_mode_we_set = FALSE]
             /\ terms' = [terms EXCEPT ![hresolve_transport(b, s.owner_vm)] = TakeBack(@, s)]
        ELSE UNCHANGED <<sessions, terms>>

handle_tui_init(v) ==
    /\ v \in tuiLive /\ ~exited
    /\ \E d \in Dims, f \in InitFlags :
        /\ Reinit \/ ~Owns(v) \/ sessions[cur_session(v)].flags = f
        /\ do_init(v, d[1], d[2], f)
    /\ UNCHANGED <<g_transport_by_vm, tuiLive, exited, tilevars>>

handle_tui_shutdown(v) ==
    /\ v \in tuiLive /\ ~exited /\ Owns(v)
    /\ do_shutdown(g_transport_by_vm, cur_session(v))
    /\ UNCHANGED <<g_transport_by_vm, tuiLive, exited, tilevars>>

handle_tui_flush_draw(v) ==
    /\ v \in tuiLive /\ ~exited /\ Owns(v)
    /\ \E buf \in DrawBuffers[v] : sessions' = [sessions EXCEPT ![cur_session(v)] = parse_draw_commands(@, buf)]
    /\ UNCHANGED <<g_transport_by_vm, terms, tuiLive, exited, tilevars>>

Present(v, out) ==
    /\ terms' = [terms EXCEPT ![hresolve_transport(g_transport_by_vm, v)] = Obey(@, out)]
    /\ sessions' = [sessions EXCEPT ![cur_session(v)] = copy_back_to_front(@)]
    /\ UNCHANGED <<g_transport_by_vm, tuiLive, exited, tilevars>>

handle_tui_present(v) ==
    /\ v \in tuiLive /\ ~exited /\ Owns(v)
    /\ Present(v, do_present(sessions[cur_session(v)]))

handle_tui_present_diff(v) ==
    /\ v \in tuiLive /\ ~exited /\ Owns(v)
    /\ Present(v, do_present_diff(sessions[cur_session(v)]))

-----------------------------------------------------------------------------
(* Tiles.  A handle names a VM, a slot and a generation, and a call with   *)
(* one that is not current is refused: a tile is named by its slot here.   *)

Size(s) == s.rows * s.cols
ClearCell == [cell |-> BlankCell, clear |-> TRUE]
Opaque(cell) == [cell |-> cell, clear |-> FALSE]

\* The slots of VM v a current handle of it may name.
resolve_handle(v) == {i \in TileSlots : g_tile_slots[v][i].in_use}

tile_cells(v, i) ==
    LET s == g_tile_slots[v][i]
    IN  [k \in 1 .. Size(s) |-> g_tile_arena[s.arena_off + k - 1]]

\* The arena with cs stored from off on.
Stored(off, cs) ==
    [a \in DOMAIN g_tile_arena |-> IF a \in off .. (off + Len(cs) - 1) THEN cs[a - off + 1] ELSE g_tile_arena[a]]

\* A call that turns the cells cs of a tile into New(cs).
TileWrite(v, i, New(_)) ==
    /\ g_tile_arena' = Stored(g_tile_slots[v][i].arena_off, New(tile_cells(v, i)))
    /\ tileWant' = [tileWant EXCEPT ![v][i] = New(@)]
    /\ UNCHANGED <<sessions, g_transport_by_vm, terms, tuiLive, exited, g_tile_slots, g_tile_arena_used>>

\* The arena is bump allocated: it runs out although tiles were destroyed.
tile_create(v, rows, cols) ==
    /\ g_tile_arena_used + rows * cols <= ArenaCells
    /\ resolve_handle(v) # TileSlots
    /\ LET i == CHOOSE k \in TileSlots \ resolve_handle(v) :
                    \A j \in TileSlots \ resolve_handle(v) : k <= j
           cs == [k \in 1 .. (rows * cols) |-> ClearCell]
       IN  /\ g_tile_slots' = [g_tile_slots EXCEPT ![v][i] =
                  [in_use |-> TRUE, rows |-> rows, cols |-> cols, arena_off |-> g_tile_arena_used]]
           /\ g_tile_arena' = Stored(g_tile_arena_used, cs)
           /\ tileWant' = [tileWant EXCEPT ![v][i] = cs]
    /\ g_tile_arena_used' = g_tile_arena_used + rows * cols

handle_tile_create(v) ==
    /\ v \in tuiLive /\ ~exited /\ Owns(v)
    /\ \E d \in TileArgs[v] : tile_create(v, d[1], d[2])
    /\ UNCHANGED <<sessions, g_transport_by_vm, terms, tuiLive, exited>>

handle_tile_destroy(v) ==
    /\ v \in tuiLive /\ ~exited /\ Owns(v)
    /\ \E i \in resolve_handle(v) :
        /\ g_tile_slots' = [g_tile_slots EXCEPT ![v][i].in_use = FALSE]
        /\ tileWant' = [tileWant EXCEPT ![v][i] = <<>>]
    /\ UNCHANGED <<sessions, g_transport_by_vm, terms, tuiLive, exited, g_tile_arena, g_tile_arena_used>>

\* A position outside the tile is ignored.
handle_tile_set(v) ==
    /\ v \in tuiLive /\ ~exited /\ Owns(v)
    /\ \E i \in resolve_handle(v), cell \in TileCells : \E k \in 1 .. Size(g_tile_slots[v][i]) :
        LET New(cs) == [cs EXCEPT ![k] = Opaque(cell)] IN TileWrite(v, i, New)

handle_tile_fill(v) ==
    /\ v \in tuiLive /\ ~exited /\ Owns(v)
    /\ \E i \in resolve_handle(v), cell \in TileCells :
        LET New(cs) == [k \in DOMAIN cs |-> Opaque(cell)] IN TileWrite(v, i, New)

handle_tile_set_transparent(v) ==
    /\ v \in tuiLive /\ ~exited /\ Owns(v)
    /\ \E i \in resolve_handle(v) : \E k \in 1 .. Size(g_tile_slots[v][i]) :
        LET New(cs) == [cs EXCEPT ![k].clear = TRUE] IN TileWrite(v, i, New)

\* The rectangle may hang over the canvas; the part outside becomes clear.
tile_grab(v, i, r0, c0) ==
    LET t == g_tile_slots[v][i]
        s == sessions[cur_session(v)]
        Grabbed(k) == LET r == r0 + ((k - 1) \div t.cols)
                          c == c0 + ((k - 1) % t.cols)
                      IN  IF in_canvas(s, r, c) THEN Opaque(s.canvas[r][c]) ELSE ClearCell
        New(cs) == [k \in DOMAIN cs |-> Grabbed(k)]
    IN  TileWrite(v, i, New)

handle_tile_grab(v) ==
    /\ v \in tuiLive /\ ~exited /\ Owns(v)
    /\ \E i \in resolve_handle(v), c \in {1, MaxCols} : tile_grab(v, i, 1, c)

\* Clear cells leave the canvas alone, and so do cells outside the clip.
tile_blit(s, t, cs, r0, c0) ==
    LET Index(r, c) == (r - r0) * t.cols + (c - c0) + 1
        Painted == {p \in Rect(r0, c0, t.rows, t.cols) : ~cs[Index(p[1], p[2])].clear}
        At(r, c) == cs[Index(r, c)].cell
    IN  set_cells(s, Painted, At)

handle_tile_blit(v) ==
    /\ v \in tuiLive /\ ~exited /\ Owns(v)
    /\ \E i \in resolve_handle(v), c \in {1, MaxCols} :
        sessions' = [sessions EXCEPT ![cur_session(v)] =
                        tile_blit(@, g_tile_slots[v][i], tile_cells(v, i), 1, c)]
    /\ UNCHANGED <<g_transport_by_vm, terms, tuiLive, exited, tilevars>>

\* The tiles that survive VM v, in the order the compaction visits them.
Survivors(v) ==
    {p \in TuiVms \X TileSlots : p[1] # v /\ g_tile_slots[p[1]][p[2]].in_use}
Before(p, q) == p[1] < q[1] \/ (p[1] = q[1] /\ p[2] < q[2])
CompactionOrder(v) == SetToSortSeq(Survivors(v), Before)
OffsetOf(p) == g_tile_slots[p[1]][p[2]].arena_off

\* VM ids and slots are visited in order; the arena is overwritten as it goes.
vm_host_tui_tile_release_for_vm(v) ==
    LET Step(acc, p) ==
            LET s == g_tile_slots[p[1]][p[2]]
                to == acc.used
            IN  [arena |-> [a \in DOMAIN acc.arena |->
                              IF a \in to .. (to + Size(s) - 1)
                              THEN acc.arena[s.arena_off + a - to] ELSE acc.arena[a]],
                 slots |-> [acc.slots EXCEPT ![p[1]][p[2]].arena_off = to],
                 used |-> to + Size(s)]
        freed == [g_tile_slots EXCEPT ![v] = [i \in TileSlots |-> [@[i] EXCEPT !.in_use = FALSE]]]
        done == FoldLeft(Step, [arena |-> g_tile_arena, slots |-> freed, used |-> 0], CompactionOrder(v))
    IN  /\ g_tile_arena' = done.arena
        /\ g_tile_slots' = done.slots
        /\ g_tile_arena_used' = done.used
        /\ tileWant' = [tileWant EXCEPT ![v] = [i \in TileSlots |-> <<>>]]

InArenaOrder(v) ==
    LET q == CompactionOrder(v) IN \A j \in 1 .. (Len(q) - 1) : OffsetOf(q[j]) < OffsetOf(q[j + 1])

-----------------------------------------------------------------------------
(* The VM's life and the host's. *)

\* The host loads a shell and binds its terminal to it.
LoadVm(v) ==
    /\ v \notin tuiLive /\ ~exited
    /\ tuiLive' = tuiLive \cup {v}
    /\ g_transport_by_vm' = [g_transport_by_vm EXCEPT ![v] = TermOf[v]]
    /\ UNCHANGED <<sessions, terms, exited, tilevars>>

vm_host_tui_release_for_vm(b, v) ==
    /\ vm_host_tui_tile_release_for_vm(v)
    /\ IF session_find(v) # {} THEN do_shutdown(b, cur_session(v)) ELSE UNCHANGED <<sessions, terms>>

\* vm_system_unload_vm runs the unload hooks in the order of their
\* registration: the one of vm_host_stdio.c, which forgets the VM's terminal,
\* before the one of the TUI.
UnloadVm(v) ==
    /\ v \in tuiLive /\ ~exited
    /\ BoundExit \/ g_transport_by_vm[v] = NoTerm \/ session_find(v) = {}
    /\ AnyOrder \/ InArenaOrder(v)
    /\ LET b == [g_transport_by_vm EXCEPT ![v] = NoTerm]
       IN  /\ g_transport_by_vm' = b
           /\ vm_host_tui_release_for_vm(b, v)
    /\ tuiLive' = tuiLive \ {v}
    /\ UNCHANGED exited

\* At process exit every session is shut down, wherever its VM was.
tui_atexit_shutdown_all ==
    /\ ~exited
    /\ exited' = TRUE
    /\ sessions' = [i \in Slots |->
          IF sessions[i].owner_vm = NoVm THEN sessions[i]
          ELSE [sessions[i] EXCEPT !.initialized = FALSE, !.owner_vm = NoVm, !.flags = {},
                                   !.raw_mode_we_set = FALSE]]
    /\ LET Step(a, i) == IF sessions[i].owner_vm = NoVm THEN a
                         ELSE [a EXCEPT ![hresolve_transport(g_transport_by_vm, sessions[i].owner_vm)] =
                                            TakeBack(@, sessions[i])]
       IN  terms' = FoldLeft(Step, terms, [k \in 1 .. PoolCount |-> k - 1])
    /\ UNCHANGED <<g_transport_by_vm, tuiLive, tilevars>>

SessionCall(v) == LoadVm(v) \/ UnloadVm(v) \/ handle_tui_init(v) \/ handle_tui_shutdown(v)
CanvasCall(v) == handle_tui_flush_draw(v) \/ handle_tui_present(v) \/ handle_tui_present_diff(v)
TileCall(v) ==
    \/ handle_tile_create(v) \/ handle_tile_destroy(v) \/ handle_tile_set(v) \/ handle_tile_fill(v)
    \/ handle_tile_set_transparent(v) \/ handle_tile_grab(v) \/ handle_tile_blit(v)

TuiNext ==
    \/ \E v \in TuiVms : SessionCall(v) \/ CanvasCall(v) \/ TileCall(v)
    \/ tui_atexit_shutdown_all

TuiSpec == TuiInit /\ [][TuiNext]_tuivars

-----------------------------------------------------------------------------
(* Properties. *)

\* What a session presented last is what its terminal shows, whether it was
\* repainted in full or by differences (do_present, do_present_diff) and
\* whatever other sessions do on theirs.
ScreenShown ==
    \A i \in Slots : sessions[i].initialized /\ sessions[i].front_valid =>
        LET t == terms[hresolve_transport(g_transport_by_vm, sessions[i].owner_vm)]
        IN  \A r \in 1 .. sessions[i].rows, c \in 1 .. sessions[i].cols :
                t.show[r][c] = sessions[i].shown[r][c]

\* A terminal no session draws on is as it was before the first session:
\* every mode do_init set has been taken back on the terminal it was set on,
\* on shutdown, on VM exit and at process exit.
TerminalRestored ==
    \A t \in Terms :
        (\A i \in Slots : sessions[i].initialized =>
            hresolve_transport(g_transport_by_vm, sessions[i].owner_vm) # t)
        => terms[t].modes = {} /\ terms[t].raw = InitRaw

\* Every tile holds what its guest stored in it, across the creation and
\* destruction of others and the compaction when a VM exits.
TilesExact ==
    \A v \in TuiVms : \A i \in resolve_handle(v) : tile_cells(v, i) = tileWant[v][i]

\* The console service: presented canvases, restored terminals, exact tiles.
TuiExact == ScreenShown /\ TerminalRestored /\ TilesExact

\* A VM is told the size of its own canvas only: handle_tui_get_dims reads
\* cur_session, which is slot 0 for a VM that has none.
DimsAreOwn ==
    \A v \in tuiLive : handle_tui_get_dims(v) # <<0, 0>> => Owns(v)

-----------------------------------------------------------------------------
(***************************************************************************)
(* The input parser (src/vm/vm_host_tui_input.c): a ring of bytes filled   *)
(* from the transport, a state machine over escape sequences, and at most  *)
(* one event per poll.  A sequence may arrive in any number of pieces,     *)
(* with polls between them.  It shares no state with the canvases.  Bytes  *)
(* are strings; digits are "0" .. "9".                                     *)
(***************************************************************************)
CONSTANTS
    Streams,        \* what the user's terminal may send, sequences of bytes
    InBufCap,       \* VM_TUI_IN_BUF_CAP
    MaxCsiParams    \* VM_TUI_MAX_CSI_PARAMS

ASSUME TuiInputAssumption == InBufCap \in Nat \ {0} /\ MaxCsiParams \in Nat \ {0}

VARIABLES
    wire,       \* bytes sent and not read from the transport yet
    toSend,     \* bytes the terminal will still send
    in_buf,     \* the ring's contents, g_in_head to g_in_tail
    in_tail,    \* how far the ring is written; 0 again once it is empty
    in_state,   \* "GROUND", "ESC", "CSI", "CSI_O"
    csi,        \* [params, curr, has, inter]
    esc_idle_polls,
    heard,      \* ghost: the bytes parsed, "idle" where a lone ESC timed out
    events      \* ghost: the events returned by the polls

inputvars == <<wire, toSend, in_buf, in_tail, in_state, csi, esc_idle_polls, heard, events>>

Digits == {"0", "1", "2", "3", "4", "5", "6", "7", "8", "9"}
Digit == [d \in Digits |-> CASE d = "0" -> 0 [] d = "1" -> 1 [] d = "2" -> 2 [] d = "3" -> 3 [] d = "4" -> 4
                             [] d = "5" -> 5 [] d = "6" -> 6 [] d = "7" -> 7 [] d = "8" -> 8 [] d = "9" -> 9]
Marks == {"<", "?"}
\* Bytes 0x40..0x7E: they end a CSI sequence.
Finals == {"A", "B", "C", "D", "H", "F", "M", "m", "P", "Q", "R", "S", "x", "O", "[", "~"}
\* Bytes 0x20..0x7E; "nul" stands for the other control bytes and 0x80..0xFF.
Printable == Finals \cup Digits \cup Marks \cup {";", " "}
Arrows == {"A", "B", "C", "D", "H", "F"}
ArrowKey == [f \in Arrows |-> CASE f = "A" -> "up" [] f = "B" -> "down" [] f = "C" -> "right"
                               [] f = "D" -> "left" [] f = "H" -> "home" [] f = "F" -> "end"]

Key(k, mods) == [kind |-> "key", key |-> k, mods |-> mods]
NoEvent == [kind |-> "none", key |-> "", mods |-> {}]

-----------------------------------------------------------------------------
(* The state machine. *)

csi_reset == [params |-> <<>>, curr |-> 0, has |-> FALSE, inter |-> ""]

\* Parameters beyond the last are dropped, empty ones are not counted.
csi_commit_param(x) ==
    [x EXCEPT !.params = IF x.has /\ Len(x.params) < MaxCsiParams THEN Append(@, x.curr) ELSE @,
              !.curr = 0, !.has = FALSE]

Bit(n, b) == (n \div b) % 2 = 1

csi_mod_decode(m) ==
    IF m <= 1 THEN {}
    ELSE {q \in {"shift", "alt", "ctrl"} :
            CASE q = "shift" -> Bit(m - 1, 1) [] q = "alt" -> Bit(m - 1, 2) [] q = "ctrl" -> Bit(m - 1, 4)}

MouseMods(b) ==
    {q \in {"shift", "alt", "ctrl"} :
        CASE q = "shift" -> Bit(b, 4) [] q = "alt" -> Bit(b, 8) [] q = "ctrl" -> Bit(b, 16)}

MouseButton(b) ==
    IF Bit(b, 64) THEN CASE b % 4 = 0 -> "wheel_up" [] b % 4 = 1 -> "wheel_down" [] OTHER -> "unknown"
    ELSE <<"left", "middle", "right", "none">>[(b % 4) + 1]

finish_mouse(params, final) ==
    IF Len(params) < 3 \/ MouseButton(params[1]) = "unknown" THEN NoEvent
    ELSE [kind |-> "mouse", key |-> MouseButton(params[1]), mods |-> MouseMods(params[1]),
          row |-> params[3], col |-> params[2], press |-> final = "M",
          drag |-> Bit(params[1], 32) /\ ~Bit(params[1], 64)]

TildeCodes == {1, 2, 3, 4, 5, 6, 15, 17, 18, 19, 20, 21, 23, 24}
TildeKey(p) ==
    CASE p = 1 -> "home" [] p = 2 -> "insert" [] p = 3 -> "delete" [] p = 4 -> "end"
      [] p = 5 -> "page_up" [] p = 6 -> "page_down" [] p = 15 -> "f5" [] p = 17 -> "f6"
      [] p = 18 -> "f7" [] p = 19 -> "f8" [] p = 20 -> "f9" [] p = 21 -> "f10"
      [] p = 23 -> "f11" [] p = 24 -> "f12"

\* x has its last parameter committed.
finish_csi(x, final) ==
    LET mods == IF Len(x.params) >= 2 THEN csi_mod_decode(x.params[2]) ELSE {}
    IN  CASE x.inter = "<" /\ final \in {"M", "m"} -> finish_mouse(x.params, final)
          [] ~(x.inter = "<" /\ final \in {"M", "m"}) /\ final \in Arrows -> Key(ArrowKey[final], mods)
          [] final = "~" /\ x.params # <<>> /\ x.params[1] \in TildeCodes -> Key(TildeKey(x.params[1]), mods)
          [] OTHER -> NoEvent

finish_csi_o(final) ==
    CASE final \in Arrows -> Key(ArrowKey[final], {})
      [] final = "P" -> Key("f1", {}) [] final = "Q" -> Key("f2", {})
      [] final = "R" -> Key("f3", {}) [] final = "S" -> Key("f4", {})
      [] OTHER -> NoEvent

GroundKey(b) ==
    CASE b \in {"cr", "lf"} -> Key("enter", {})
      [] b = "tab" -> Key("tab", {})
      [] b \in {"del", "bs"} -> Key("backspace", {})
      [] OTHER -> Key(b, {})

\* One byte b in the parser state p = [in_state, csi, idle, ev].
ByteStep(p, b) ==
    CASE p.in_state = "GROUND" ->
            IF b = "esc" THEN [p EXCEPT !.in_state = "ESC", !.idle = 0] ELSE [p EXCEPT !.ev = GroundKey(b)]
      [] p.in_state = "ESC" ->
            IF b = "[" THEN [p EXCEPT !.in_state = "CSI", !.csi = csi_reset]
            ELSE IF b = "O" THEN [p EXCEPT !.in_state = "CSI_O"]
            ELSE [p EXCEPT !.in_state = "GROUND", !.ev = IF b \in Printable THEN Key(b, {"alt"}) ELSE NoEvent]
      [] p.in_state = "CSI" ->
            IF b \in Digits THEN [p EXCEPT !.csi.curr = @ * 10 + Digit[b], !.csi.has = TRUE]
            ELSE IF b = ";" THEN [p EXCEPT !.csi = csi_commit_param(@)]
            ELSE IF b \in Marks THEN [p EXCEPT !.csi.inter = b]
            ELSE [p EXCEPT !.in_state = "GROUND", !.csi = csi_reset,
                           !.ev = IF b \in Finals THEN finish_csi(csi_commit_param(p.csi), b) ELSE NoEvent]
      [] p.in_state = "CSI_O" -> [p EXCEPT !.in_state = "GROUND", !.ev = finish_csi_o(b)]

\* The parser over the ring's bytes until the first event: <<state, bytes used>>.
Drain(p, bytes) ==
    LET Step(acc, b) == IF acc.p.ev # NoEvent THEN acc ELSE [p |-> ByteStep(acc.p, b), n |-> acc.n + 1]
    IN  FoldLeft(Step, [p |-> p, n |-> 0], bytes)

-----------------------------------------------------------------------------
(* A poll. *)

\* What in_buf_refill reads: as much as fits behind what the ring holds; the
\* space before the head is not used until the ring is empty.
RefillTail == IF in_buf = <<>> THEN 0 ELSE in_tail
Refill == LET room == InBufCap - RefillTail IN IF room < Len(wire) THEN room ELSE Len(wire)

vm_host_tui_poll_input ==
    LET buf == in_buf \o SubSeq(wire, 1, Refill)
        d == Drain([in_state |-> in_state, csi |-> csi, idle |-> esc_idle_polls, ev |-> NoEvent], buf)
        rest == SubSeq(buf, d.n + 1, Len(buf))
        waits == d.p.ev = NoEvent /\ d.p.in_state = "ESC"
        expires == waits /\ d.p.idle + 1 >= 2
    IN  /\ wire' = SubSeq(wire, Refill + 1, Len(wire))
        /\ in_buf' = rest
        /\ in_tail' = IF rest = <<>> THEN 0 ELSE RefillTail + Refill
        /\ in_state' = IF expires THEN "GROUND" ELSE d.p.in_state
        /\ csi' = d.p.csi
        /\ esc_idle_polls' = IF expires THEN 0 ELSE IF waits THEN d.p.idle + 1 ELSE d.p.idle
        /\ events' = CASE expires -> Append(events, Key("escape", {}))
                       [] d.p.ev # NoEvent -> Append(events, d.p.ev)
                       [] OTHER -> events
        /\ heard' = heard \o SubSeq(buf, 1, d.n) \o (IF expires THEN <<"idle">> ELSE <<>>)
        /\ UNCHANGED toSend

\* External: the next byte reaches the transport.
TerminalSends ==
    /\ toSend # <<>>
    /\ wire' = Append(wire, Head(toSend))
    /\ toSend' = Tail(toSend)
    /\ UNCHANGED <<in_buf, in_tail, in_state, csi, esc_idle_polls, heard, events>>

\* vm_host_tui_input_reset_, by do_init.
InputInit ==
    /\ toSend \in Streams /\ wire = <<>>
    /\ in_buf = <<>> /\ in_tail = 0 /\ in_state = "GROUND" /\ csi = csi_reset /\ esc_idle_polls = 0
    /\ heard = <<>> /\ events = <<>>

InputNext == TerminalSends \/ vm_host_tui_poll_input

InputSpec == InputInit /\ [][InputNext]_inputvars

-----------------------------------------------------------------------------
(* Properties. *)

\* The length of the sequence s begins with, 0 when it is not complete.
TokenLength(s) ==
    LET ends(f, S) == {k \in f .. Len(s) : s[k] \notin S}
        first(S) == IF S = {} THEN 0 ELSE CHOOSE k \in S : \A j \in S : k <= j
    IN  IF s[1] # "esc" THEN 1
        ELSE IF Len(s) = 1 THEN 0
        ELSE IF s[2] = "[" THEN first(ends(3, Digits \cup Marks \cup {";"}))
        ELSE IF s[2] = "O" THEN (IF Len(s) = 2 THEN 0 ELSE 3)
        ELSE 2

\* The value of the digits among the bytes from i to j, all others left out.
Number(s, i, j) ==
    LET Step(n, b) == IF b \in Digits THEN n * 10 + Digit[b] ELSE n
    IN  FoldLeft(Step, 0, SubSeq(s, i, j))

\* The event a complete sequence t stands for.
TokenEvent(t) ==
    LET last == t[Len(t)]
        cuts == {k \in 2 .. Len(t) : k \in {2, Len(t)} \/ t[k] = ";"}
        After(k) == CHOOSE j \in cuts : j > k /\ \A m \in cuts : m > k => j <= m
        Filled == {k \in cuts \ {Len(t)} : \E m \in (k + 1) .. (After(k) - 1) : t[m] \in Digits}
        all == [i \in 1 .. Cardinality(Filled) |->
                    LET k == CHOOSE k \in Filled : Cardinality({m \in Filled : m <= k}) = i
                    IN  Number(t, k + 1, After(k) - 1)]
        marks == SelectSeq(t, LAMBDA b : b \in Marks)
    IN  IF Len(t) = 1 THEN GroundKey(last)
        ELSE IF last = "idle" THEN Key("escape", {})
        ELSE IF t[2] = "O" THEN finish_csi_o(last)
        ELSE IF t[2] # "[" THEN (IF last \in Printable THEN Key(last, {"alt"}) ELSE NoEvent)
        ELSE IF last \notin Finals THEN NoEvent
        ELSE finish_csi([params |-> SubSeq(all, 1, IF Len(all) < MaxCsiParams THEN Len(all) ELSE MaxCsiParams), curr |-> 0, has |-> FALSE,
                         inter |-> IF marks = <<>> THEN "" ELSE marks[Len(marks)]], last)

RECURSIVE Decoded(_)
Decoded(s) ==
    IF s = <<>> \/ TokenLength(s) = 0 THEN <<>>
    ELSE LET n == TokenLength(s)
             ev == TokenEvent(SubSeq(s, 1, n))
         IN  (IF ev = NoEvent THEN <<>> ELSE <<ev>>) \o Decoded(SubSeq(s, n + 1, Len(s)))

\* The events the polls returned are those of the escape sequences in the
\* bytes parsed, however the bytes were cut into reads and polls
\* (vm_host_tui_poll_input): only a lone ESC depends on timing.
EventsExact == events = Decoded(heard)
=============================================================================
