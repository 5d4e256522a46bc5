------------------------------- MODULE Copro -------------------------------
(***************************************************************************)
(* The rendering state behind the SYS_MG_* calls (copro_mg_handlers.c) and *)
(* the frame builder that turns it into DMA transfers (copro_mg_state.c):  *)
(* the guest draws into shadows of OAM, CGRAM and four tilemaps, each with *)
(* one dirty range; a commit stages what is dirty behind the persistent    *)
(* uploads, packs the transfers into sub-frames and offers them to the     *)
(* console, which carries out one sub-frame per NMI.                       *)
(*                                                                         *)
(* A cell is a colour, a tile word, a sprite or a word of CHR: transfers   *)
(* and the payload are counted in cells.  Register words and sprite        *)
(* attributes keep their bits.  The commit and the NMI are atomic here;    *)
(* FrameFlow is about their interleaving.                                  *)
(***************************************************************************)
EXTENDS Integers, Sequences, SequencesExt

CONSTANTS
    Sprites,        \* 128 in the code: OAM entries 0 .. Sprites - 1
    Colors,         \* 256: CGRAM entries
    Cells,          \* 1024: cells of a tilemap
    Layers,         \* the BG layers in use, of 0 .. 3
    SpriteSpecs,    \* what guests pass to mg_sprite_set
    Palettes,       \* what guests pass to mg_palette_write: [at, cells]
    Blits,          \* ... to mg_bg_blit: [at, cells]
    Setups,         \* ... to mg_bg_setup: [layer, at, size, chr]
    Scrolls,        \* ... to mg_bg_scroll
    Blanks,         \* ... to mg_set_force_blank: [top, bot]
    Uploads,        \* ... to mg_chr_upload: [at, cells]
    Transients,     \* ... to mg_chr_upload_transient
    HdmaLens,       \* lengths of the HDMA tables guests upload
    Vram,           \* the VRAM addresses in use
    SlotsPerBurst,  \* 8
    MaxStaged,      \* MG_MAX_STAGED_SLOTS
    MaxSubframes,   \* MG_MAX_SUBFRAMES
    Budget,         \* MG_SUBFRAME_BYTE_BUDGET
    PayloadCells,   \* PAYLOAD_AREA_END - PAYLOAD_AREA_START
    PendingMax,     \* MG_PENDING_TRANSIENT_MAX
    HdmaCells,      \* CW_HDMA_TABLES_BYTES
    PipelineDepth,    \* pipeline_max_inflight()
    LateUploads,    \* guests call mg_chr_upload after their first commit, too
    Overlaps,       \* guests commit ahead of a frame that has shadow slots
    Guests,         \* the guests: each the families of calls it makes
    MaxDraws,       \* bound on drawing calls
    MaxCommits      \* bound on commits

Families == {"sprite", "regs", "bg", "mode7", "hdma", "palette", "blank", "chr", "slate"}

ASSUME CoproAssumption ==
    /\ Layers \subseteq 0 .. 3 /\ Sprites \in Nat \ {0} /\ Colors \in Nat \ {0}
    /\ SlotsPerBurst \in Nat \ {0} /\ MaxSubframes \in Nat \ {0} /\ Budget \in Nat \ {0}
    /\ PipelineDepth \in {1, 2}
    /\ \A g \in Guests : g \subseteq Families

VARIABLES
    shadow,     \* s_state: what the guest has drawn
    dirty,      \* its dirty ranges
    stage,      \* s_host_payload, s_staged, s_slot_used and their checkpoints
    pend,       \* s_pending: transient uploads waiting for the commit
    slate,      \* s_clean_slate_* and the re-upload counters
    queue,      \* the active and the queued frame
    win,        \* the cart window
    count,      \* g_frame_ready, g_frame_staged, g_frame_consumed
    ppu,        \* the console
    want,       \* history: the sprites as the guest asked for them
    drawn,      \* history: what the last commit that was taken had to show
    sent,       \* history: VRAM words the guest has uploaded
    uses,       \* the families of calls this guest makes
    draws       \* how many it has made

coprovars == <<shadow, dirty, stage, pend, slate, queue, win, count, ppu, want, drawn, sent, uses, draws>>

Channels == 1 .. 6
Clean == <<0, 0>>
EmptySlot == [reg |-> "none", prep |-> 0, src |-> 0, size |-> 0]
EmptySlots == [i \in 1 .. SlotsPerBurst |-> EmptySlot]
Hidden == 240
Offscreen == [x |-> 0, y |-> Hidden, tile |-> 0, palette |-> 0, priority |-> 0,
              hflip |-> 0, vflip |-> 0, size_large |-> 0]
HiddenOam == [x |-> 0, y |-> Hidden, tile |-> 0, attrs |-> 0, hi |-> 0]

-----------------------------------------------------------------------------
\* Dirty ranges: half open, widened by every mark.

widen_range(r, lo, hi) ==
    IF r[1] = r[2] THEN <<lo, hi>>
    ELSE <<IF lo < r[1] THEN lo ELSE r[1], IF hi > r[2] THEN hi ELSE r[2]>>

mg_state_dirty_oam(lo, hi) == dirty' = [dirty EXCEPT !.oam = widen_range(@, lo, hi)]
mg_state_dirty_cgram(lo, hi) ==
    dirty' = IF lo >= hi THEN dirty ELSE [dirty EXCEPT !.cgram = widen_range(@, lo, hi)]
mg_state_dirty_bg(l, lo, hi) ==
    dirty' = [dirty EXCEPT !.bg[l] = widen_range(@, lo, hi), !.written[l] = TRUE]

-----------------------------------------------------------------------------
\* Staging: cells go to the end of the payload, a slot says where to.

alloc_payload(s, n) == Len(s.payload) + n <= PayloadCells

stage_dma(s, cells, reg, prep) ==
    IF Len(s.staged) >= MaxStaged \/ cells = <<>> \/ ~alloc_payload(s, Len(cells)) THEN s
    ELSE [s EXCEPT !.payload = @ \o cells,
                   !.staged = Append(@, [reg |-> reg, prep |-> prep,
                                         src |-> Len(s.payload), size |-> Len(cells)]),
                   !.slots = @ + 1]

\* Everything staged so far survives the next build.
Checkpointed(s) ==
    [s EXCEPT !.ckpt = [payload |-> Len(s.payload), slots |-> s.slots, staged |-> Len(s.staged)]]

mg_state_queue_dma_NoCheckpoint(cells, prep) ==
    IF stage.slots >= SlotsPerBurst \/ ~alloc_payload(stage, Len(cells)) THEN stage
    ELSE LET s == stage_dma(stage, cells, "vram", prep)
         IN [s EXCEPT !.ckpt.slots = s.slots, !.ckpt.staged = Len(s.staged)]

mg_state_queue_dma(cells, prep) ==
    IF stage.slots >= SlotsPerBurst \/ ~alloc_payload(stage, Len(cells)) THEN stage
    ELSE Checkpointed(stage_dma(stage, cells, "vram", prep))

mg_state_queue_dma_transient(u) ==
    IF Len(pend) >= PendingMax THEN pend ELSE Append(pend, u)

mg_state_slots_remaining == (SlotsPerBurst - stage.slots) % 256

\* The table goes to the window at once; the pool restarts with every commit.
mg_state_stage_hdma_table(w, used, len, table) ==
    [w EXCEPT !.tables = [a \in 0 .. HdmaCells - 1 |->
                            IF a \in used .. used + len - 1 THEN table ELSE @[a]]]

-----------------------------------------------------------------------------
\* The PPU registers of a frame.

mg_bg_sc(word, size) == (word \div 1024) * 4 + (size % 4)
mg_chr_page(word) == (word \div 4096) % 16

compute_obsel(spr) ==
    LET steps == IF spr.base1 > spr.base0 THEN (spr.base1 - spr.base0) \div 4096 ELSE 0
        gap == IF steps > 0 THEN (steps - 1) % 4 ELSE 0
    IN (spr.sizes % 8) * 32 + gap * 8 + ((spr.base0 \div 8192) % 8)

AnySpriteOnscreen == \E i \in 0 .. Sprites - 1 : shadow.oam[i].y < 224

\* emit_ppu_batch
PpuBatch ==
    [bgmode  |-> shadow.bgmode,
     obsel   |-> compute_obsel(shadow.spr),
     sc      |-> [l \in Layers |-> mg_bg_sc(shadow.bg[l].at, shadow.bg[l].size)],
     nba     |-> [l \in Layers |-> mg_chr_page(shadow.bg[l].chr)],
     tm      |-> {l \in Layers : shadow.bg[l].main},
     ts      |-> {l \in Layers : shadow.bg[l].sub},
     obj     |-> AnySpriteOnscreen,
     scroll  |-> [l \in Layers |-> shadow.bg[l].scroll]]

\* emit_inidisp_table, as the list of its chunks: (lines, INIDISP value).
Chunk == 127
Run(lines, v) ==
    [i \in 1 .. (lines + Chunk - 1) \div Chunk |->
        <<IF i * Chunk <= lines THEN Chunk ELSE lines - (i - 1) * Chunk, v>>]
Blank == 128
Bright == 15

SlateBlanks == slate.blank /\ count.consumed < slate.until

emit_inidisp_table ==
    CASE SlateBlanks -> Run(224, Blank)
      [] ~SlateBlanks /\ shadow.top = 0 /\ shadow.bot = 0 -> <<>>
      [] ~SlateBlanks /\ shadow.top > 0 /\ shadow.bot = 0 -> Run(shadow.top, Blank) \o Run(1, Bright)
      [] ~SlateBlanks /\ shadow.bot > 0 ->
            Run(shadow.top, Blank) \o Run(224 - shadow.top - shadow.bot, Bright) \o Run(shadow.bot, Blank)

-----------------------------------------------------------------------------
\* Stage by stage.

\* The clear armed by mg_ppu_clean_slate goes once a frame has been consumed.
DropsClear == slate.pending /\ count.consumed >= slate.dropAt

CgramRange == IF slate.cgram > 0 THEN <<0, Colors>> ELSE dirty.cgram

Enabled(l) == shadow.bg[l].main \/ shadow.bg[l].sub

BgRange(l) ==
    IF slate.bg > 0 /\ Enabled(l) /\ dirty.written[l] /\ dirty.bg[l][1] = dirty.bg[l][2]
    THEN <<0, Cells>> ELSE dirty.bg[l]

Rewind ==
    [stage EXCEPT !.payload = SubSeq(@, 1, stage.ckpt.payload), !.slots = stage.ckpt.slots,
                  !.staged = SubSeq(@, 1, stage.ckpt.staged)]

\* The slots the last build filled leave the window, the persistent ones stay.
ClearedSlots ==
    [i \in 1 .. SlotsPerBurst |->
        IF \/ i - 1 \in stage.ckpt.slots .. stage.prev - 1
           \/ i = 1 /\ DropsClear
        THEN EmptySlot ELSE win.slots[i]]

Part(f, r) == [i \in 1 .. r[2] - r[1] |-> f[r[1] + i - 1]]

StageCgram(s) == stage_dma(s, Part(shadow.cgram, CgramRange), "cgram", CgramRange[1])

StageOam(s) ==
    IF dirty.oam[2] > dirty.oam[1] THEN stage_dma(s, Part(shadow.oam, <<0, Sprites>>), "oam", 0)
    ELSE s

StageBg(s, l) ==
    IF Enabled(l)
    THEN stage_dma(s, Part(shadow.bg[l].map, BgRange(l)), "vram", shadow.bg[l].at + BgRange(l)[1])
    ELSE s

LayerOrder == SetToSortSeq(Layers, <)

\* What the build stages: persistent uploads, CGRAM, OAM, tilemaps, transients.
Staged ==
    LET bgs == FoldLeft(StageBg, StageOam(StageCgram(Rewind)), LayerOrder)
        put(s, u) == stage_dma(s, u.cells, "vram", u.at)
    IN FoldLeft(put, bgs, pend)

\* flush_subframes: packed in order, a new sub-frame when slots or budget run
\* out; what does not fit in the last one is dropped.
Weight(f) == FoldLeft(LAMBDA n, s : n + s.size, 0, f)
Pack(staged) ==
    LET put(p, s) ==
          LET cur == Last(p.frames)
              fresh == Len(cur) >= SlotsPerBurst \/ (cur # <<>> /\ Weight(cur) + s.size > Budget)
          IN IF p.full \/ (fresh /\ Len(p.frames) >= MaxSubframes) THEN [p EXCEPT !.full = TRUE]
             ELSE IF fresh THEN [p EXCEPT !.frames = Append(@, <<s>>)]
             ELSE [p EXCEPT !.frames[Len(p.frames)] = Append(@, s)]
    IN FoldLeft(put, [frames |-> <<<<>>>>, full |-> FALSE], staged).frames

\* write_subframe_to_cart_window
WindowSlots(f) == [i \in 1 .. SlotsPerBurst |-> IF i <= Len(f) THEN f[i] ELSE EmptySlot]

\* Copied over the old payload, as far as it goes.
LoadPayload(old, new) == new \o SubSeq(old, Len(new) + 1, Len(old))

\* activate_queued_locked, of a frame [subs, hold, batch].
Activated(w, f) ==
    [w EXCEPT !.payload = LoadPayload(@, f.hold), !.batch = f.batch,
              !.slots = WindowSlots(f.subs[1])]

\* What the window gets directly, whichever frame is active.
BuiltWindow ==
    [win EXCEPT !.slots = ClearedSlots, !.inidisp = emit_inidisp_table,
                !.m7 = shadow.m7, !.hdma = shadow.hdma]

Layer(l) ==
    [at |-> shadow.bg[l].at, size |-> shadow.bg[l].size, chr |-> shadow.bg[l].chr,
     main |-> shadow.bg[l].main, sub |-> shadow.bg[l].sub, scroll |-> shadow.bg[l].scroll]

NothingDrawn == [on |-> FALSE]

\* The guest sees its shadows on the screen, and the uploads where it put them.
Picture ==
    [on |-> TRUE, cgram |-> shadow.cgram, sprites |-> want.sprites,
     tiles |-> [l \in {k \in Layers : Enabled(k)} |->
                  [at |-> shadow.bg[l].at,
                   map |-> [c \in want.tiles[l] |-> shadow.bg[l].map[c]]]],
     regs |-> [bgmode |-> shadow.bgmode, spr |-> shadow.spr, layer |-> [l \in Layers |-> Layer(l)]],
     m7 |-> shadow.m7, vram |-> sent,
     lines |-> IF SlateBlanks THEN <<224, 0>> ELSE <<shadow.top, shadow.bot>>]

Sending(m, u) ==
    [a \in Vram |-> IF a \in u.at .. u.at + Len(u.cells) - 1 THEN <<u.cells[a - u.at + 1]>> ELSE m[a]]

mg_state_build_frame ==
    LET s == Staged
        f == [subs |-> Pack(s.staged), hold |-> s.payload, batch |-> PpuBatch]
        idle == ~queue.avalid
    IN /\ stage' = [s EXCEPT !.prev = s.slots]
       /\ pend' = <<>>
       /\ dirty' = [dirty EXCEPT !.cgram = Clean, !.oam = Clean,
                      !.bg = [l \in Layers |-> IF Enabled(l) THEN Clean ELSE BgRange(l)],
                      !.hdma = 0]
       /\ slate' = [slate EXCEPT !.pending = @ /\ ~DropsClear,
                                 !.dropAt = IF DropsClear THEN 0 ELSE @,
                                 !.cgram = IF @ > 0 THEN @ - 1 ELSE 0,
                                 !.bg = IF @ > 0 THEN @ - 1 ELSE 0,
                                 !.blank = SlateBlanks]
       /\ IF s.staged = <<>>
          THEN /\ win' = IF idle THEN [BuiltWindow EXCEPT !.slots = EmptySlots] ELSE BuiltWindow
               /\ queue' = [queue EXCEPT !.frame.batch = PpuBatch]
          ELSE IF idle
          THEN /\ win' = Activated(BuiltWindow, f)
               /\ queue' = [queue EXCEPT !.subs = f.subs, !.index = 0, !.avalid = TRUE, !.frame = f]
          ELSE /\ win' = BuiltWindow
               /\ queue' = [queue EXCEPT !.frame = f, !.qvalid = TRUE]
       /\ sent' = FoldLeft(Sending, sent, pend)
       /\ drawn' = [Picture EXCEPT !.vram = sent']

\* h_frame_commit, with byte 1
FullPipeline == count.staged - count.consumed >= PipelineDepth

CommitRefused ==
    /\ FullPipeline
    /\ pend' = <<>> /\ dirty' = [dirty EXCEPT !.hdma = 0]
    /\ UNCHANGED <<shadow, stage, slate, queue, win, count, ppu, want, drawn, sent, uses, draws>>

h_frame_commit ==
    /\ ~FullPipeline /\ count.staged < MaxCommits
    /\ Overlaps \/ ~queue.avalid \/ (stage.prev <= stage.ckpt.slots /\ ~DropsClear)
    /\ mg_state_build_frame
    /\ count' = [count EXCEPT !.ready = TRUE, !.staged = @ + 1]
    /\ UNCHANGED <<shadow, ppu, want, uses, draws>>

-----------------------------------------------------------------------------
\* The console.  Its kernel (external) writes the registers, walks the eight
\* slots of the window and then reads FRAME_DONE.

Transfer(p, payload, s) ==
    LET cell(i) == payload[s.src + i]
        over(f, at) == [a \in DOMAIN f |-> IF a \in at .. at + s.size - 1 THEN cell(a - at + 1) ELSE f[a]]
    IN CASE s.reg = "none" -> p
         [] s.reg = "clear" -> [p EXCEPT !.vram = [a \in Vram |-> 0]]
         [] s.reg = "cgram" -> [p EXCEPT !.cgram = over(@, s.prep)]
         [] s.reg = "oam" -> [p EXCEPT !.oam = over(@, 0)]
         [] s.reg = "vram" -> [p EXCEPT !.vram = over(@, s.prep)]

Burst(p, payload, slots) == FoldLeft(LAMBDA q, s : Transfer(q, payload, s), p, slots)

mg_state_advance_subframe ==
    LET more == queue.avalid /\ queue.index + 1 < Len(queue.subs)
    IN IF more
       THEN /\ queue' = [queue EXCEPT !.index = @ + 1]
            /\ win' = [win EXCEPT !.slots = WindowSlots(queue.subs[queue.index + 2])]
            /\ UNCHANGED count
       ELSE IF queue.qvalid
       THEN /\ queue' = [queue EXCEPT !.subs = queue.frame.subs, !.index = 0,
                                      !.avalid = TRUE, !.qvalid = FALSE]
            /\ win' = Activated(win, queue.frame)
            /\ count' = [count EXCEPT !.consumed = @ + 1]
       ELSE /\ queue' = [queue EXCEPT !.avalid = FALSE, !.subs = <<>>, !.index = 0]
            /\ count' = [count EXCEPT !.consumed = @ + 1, !.ready = FALSE]
            /\ UNCHANGED win

Nmi ==
    /\ count.ready
    /\ ppu' = [Burst(ppu, win.payload, win.slots) EXCEPT !.regs = win.batch, !.m7 = win.m7]
    /\ mg_state_advance_subframe
    /\ UNCHANGED <<shadow, dirty, stage, pend, slate, want, drawn, sent, uses, draws>>

-----------------------------------------------------------------------------
\* The drawing calls.

Draws(family) == family \in uses /\ draws < MaxDraws /\ draws' = draws + 1 /\ UNCHANGED uses
ShadowOnly == UNCHANGED <<stage, pend, slate, queue, win, count, ppu, drawn, sent>>

XHigh(x) == IF x < 0 \/ x > 255 THEN 1 ELSE 0

\* shadow_write_sprite
SpriteBytes(s) ==
    [x |-> s.x % 256, y |-> s.y, tile |-> s.tile % 256,
     attrs |-> ((s.tile \div 256) % 2) + 2 * s.palette + 16 * s.priority + 64 * s.hflip + 128 * s.vflip,
     hi |-> XHigh(s.x) + 2 * s.size_large]

h_sprite_set(i, s) ==
    /\ Draws("sprite")
    /\ shadow' = [shadow EXCEPT !.oam[i] = SpriteBytes(s)]
    /\ want' = [want EXCEPT !.sprites[i] = s]
    /\ mg_state_dirty_oam(i, i + 1) /\ ShadowOnly

h_sprite_move(i, x, y) ==
    /\ Draws("sprite")
    /\ shadow' = [shadow EXCEPT !.oam[i].x = x % 256, !.oam[i].y = y,
                                !.oam[i].hi = @ - (@ % 2) + XHigh(x)]
    /\ want' = [want EXCEPT !.sprites[i].x = x, !.sprites[i].y = y]
    /\ mg_state_dirty_oam(i, i + 1) /\ ShadowOnly

h_sprite_hide(i) ==
    /\ Draws("sprite")
    /\ shadow' = [shadow EXCEPT !.oam[i].y = Hidden]
    /\ want' = [want EXCEPT !.sprites[i].y = Hidden]
    /\ mg_state_dirty_oam(i, i + 1) /\ ShadowOnly

h_sprites_clear_all ==
    /\ Draws("sprite")
    /\ shadow' = [shadow EXCEPT !.oam = [i \in 0 .. Sprites - 1 |-> [@[i] EXCEPT !.y = Hidden]]]
    /\ want' = [want EXCEPT !.sprites = [i \in 0 .. Sprites - 1 |-> [@[i] EXCEPT !.y = Hidden]]]
    /\ mg_state_dirty_oam(0, Sprites) /\ ShadowOnly

h_sprite_chr_base(spr) ==
    /\ Draws("regs")
    /\ shadow' = [shadow EXCEPT !.spr = spr]
    /\ UNCHANGED <<dirty, want>> /\ ShadowOnly

\* The x that mg_sprite_get returns: the low byte is sign-extended first.
h_sprite_get(i) ==
    LET o == shadow.oam[i]
        low == IF o.x >= 128 THEN o.x - 256 ELSE o.x
    IN [x |-> IF o.hi % 2 = 1 THEN low - 256 ELSE low, y |-> o.y,
        tile |-> o.tile + 256 * (o.attrs % 2),
        palette |-> (o.attrs \div 2) % 8, priority |-> (o.attrs \div 16) % 4,
        hflip |-> (o.attrs \div 64) % 2, vflip |-> o.attrs \div 128, size_large |-> o.hi \div 2]

h_bg_mode(m) ==
    /\ Draws("regs")
    /\ shadow' = [shadow EXCEPT !.bgmode = m % 8]
    /\ UNCHANGED <<dirty, want>> /\ ShadowOnly

\* Guests set a layer up before they draw on it: moving the tilemap does not
\* mark it dirty.
h_bg_setup(s) ==
    /\ Draws("bg") /\ ~dirty.written[s.layer]
    /\ shadow' = [shadow EXCEPT !.bg[s.layer].at = s.at, !.bg[s.layer].size = s.size,
                                !.bg[s.layer].chr = s.chr]
    /\ UNCHANGED <<dirty, want>> /\ ShadowOnly

h_bg_enable(l, main, sub) ==
    /\ Draws("bg")
    /\ shadow' = [shadow EXCEPT !.bg[l].main = main, !.bg[l].sub = sub]
    /\ UNCHANGED <<dirty, want>> /\ ShadowOnly

h_bg_set_tile(l, c, word) ==
    /\ Draws("bg")
    /\ shadow' = [shadow EXCEPT !.bg[l].map[c] = word]
    /\ want' = [want EXCEPT !.tiles[l] = @ \cup {c}]
    /\ mg_state_dirty_bg(l, c, c + 1) /\ ShadowOnly

\* Row-major, and round to the first cell; the whole map is marked.
h_bg_blit(l, b) ==
    LET at(i) == (b.at + i - 1) % Cells
    IN /\ Draws("bg")
       /\ shadow' = [shadow EXCEPT !.bg[l].map = [c \in 0 .. Cells - 1 |->
                        IF \E i \in DOMAIN b.cells : at(i) = c
                        THEN b.cells[CHOOSE i \in DOMAIN b.cells :
                                       at(i) = c /\ \A j \in DOMAIN b.cells : at(j) = c => j <= i]
                        ELSE @[c]]]
       /\ want' = [want EXCEPT !.tiles[l] = 0 .. Cells - 1]
       /\ mg_state_dirty_bg(l, 0, Cells) /\ ShadowOnly

h_bg_scroll(l, by) ==
    /\ Draws("regs")
    /\ shadow' = [shadow EXCEPT !.bg[l].scroll = by]
    /\ UNCHANGED <<dirty, want>> /\ ShadowOnly

\* The matrix, and layer 0's scroll with it.
h_mode7_set(m) ==
    /\ Draws("mode7") /\ 0 \in Layers
    /\ shadow' = [shadow EXCEPT !.m7.matrix = m.matrix, !.bg[0].scroll = m.scroll]
    /\ UNCHANGED <<dirty, want>> /\ ShadowOnly

h_mode7_wrap(g) ==
    /\ Draws("mode7")
    /\ shadow' = [shadow EXCEPT !.m7.sel = <<0, 0, 192, 128>>[(g % 4) + 1]]
    /\ UNCHANGED <<dirty, want>> /\ ShadowOnly

hdma_dmap(xfer, indirect) == <<0, 2, 1, 3>>[(xfer % 4) + 1] + (IF indirect THEN 64 ELSE 0)

h_hdma_setup(c, dest, xfer, indirect) ==
    /\ Draws("hdma") /\ c \in Channels
    /\ shadow' = [shadow EXCEPT !.hdma[c].bbad = dest, !.hdma[c].dmap = hdma_dmap(xfer, indirect)]
    /\ UNCHANGED <<dirty, want>> /\ ShadowOnly

\* A table is named by the channel and the call it was uploaded in.
h_hdma_upload(c, len) ==
    /\ Draws("hdma") /\ c \in Channels /\ dirty.hdma + len <= HdmaCells
    /\ win' = mg_state_stage_hdma_table(win, dirty.hdma, len, <<c, draws>>)
    /\ shadow' = [shadow EXCEPT !.hdma[c].off = dirty.hdma]
    /\ dirty' = [dirty EXCEPT !.hdma = @ + len]
    /\ want' = [want EXCEPT !.tables[c] = [table |-> <<c, draws>>, len |-> len]]
    /\ UNCHANGED <<stage, pend, slate, queue, count, ppu, drawn, sent>>

h_hdma_enable(c, on) ==
    /\ Draws("hdma") /\ c \in Channels
    /\ shadow' = [shadow EXCEPT !.hdma[c].enabled = on]
    /\ UNCHANGED <<dirty, want>> /\ ShadowOnly

\* Clamped to the end of CGRAM.
h_palette_write(p) ==
    LET n == IF p.at + Len(p.cells) > Colors THEN Colors - p.at ELSE Len(p.cells)
    IN /\ Draws("palette")
       /\ shadow' = [shadow EXCEPT !.cgram = [c \in 0 .. Colors - 1 |->
                        IF c \in p.at .. p.at + n - 1 THEN p.cells[c - p.at + 1] ELSE @[c]]]
       /\ mg_state_dirty_cgram(p.at, p.at + n)
       /\ UNCHANGED want /\ ShadowOnly

SetBlank(b) ==
    /\ Draws("blank") /\ b.top + b.bot <= 208
    /\ shadow' = [shadow EXCEPT !.top = b.top, !.bot = b.bot]
    /\ UNCHANGED <<dirty, want>> /\ ShadowOnly

h_chr_upload(u) ==
    /\ Draws("chr") /\ (LateUploads \/ ~drawn.on)
    /\ stage' = mg_state_queue_dma(u.cells, u.at)
    /\ sent' = IF stage' = stage THEN sent ELSE Sending(sent, u)
    /\ UNCHANGED <<shadow, dirty, pend, slate, queue, win, count, ppu, want, drawn>>

h_chr_upload_transient(u) ==
    /\ Draws("chr")
    /\ pend' = mg_state_queue_dma_transient(u)
    /\ UNCHANGED <<shadow, dirty, stage, slate, queue, win, count, ppu, want, drawn, sent>>

-----------------------------------------------------------------------------
\* mg_state_reset: everything but the pending transients.

InitBg == [at |-> 0, size |-> 0, chr |-> 0, main |-> FALSE, sub |-> FALSE, scroll |-> 0,
           map |-> [c \in 0 .. Cells - 1 |-> 0]]
InitShadow ==
    [oam |-> [i \in 0 .. Sprites - 1 |-> HiddenOam],
     cgram |-> [c \in 0 .. Colors - 1 |-> 0],
     bg |-> [l \in Layers |-> InitBg],
     spr |-> [sizes |-> 0, base0 |-> 0, base1 |-> 0], bgmode |-> 0,
     top |-> 0, bot |-> 0, m7 |-> [matrix |-> 256, sel |-> 0],
     hdma |-> [c \in Channels |-> [enabled |-> FALSE, bbad |-> 0, dmap |-> 0, off |-> 0]]]
InitDirty == [oam |-> <<0, Sprites>>, cgram |-> <<0, Colors>>, bg |-> [l \in Layers |-> Clean],
              written |-> [l \in Layers |-> FALSE], hdma |-> 0]
NoCheckpoint == [payload |-> 0, slots |-> 0, staged |-> 0]
InitStage == [payload |-> <<>>, staged |-> <<>>, slots |-> 0, ckpt |-> NoCheckpoint, prev |-> 0]
InitSlate == [pending |-> FALSE, dropAt |-> 0, cgram |-> 0, bg |-> 0, until |-> 0, blank |-> FALSE]
InitWant == [sprites |-> [i \in 0 .. Sprites - 1 |-> Offscreen], tiles |-> [l \in Layers |-> {}],
             tables |-> [c \in Channels |-> [table |-> <<0, 0>>, len |-> 0]]]
NothingSent == [a \in Vram |-> <<>>]

\* The HDMA pool is rewound by commits only, and a force-blank window that has
\* not run out is kept.
mg_state_reset ==
    /\ shadow' = InitShadow
    /\ dirty' = [InitDirty EXCEPT !.hdma = dirty.hdma]
    /\ want' = InitWant /\ drawn' = NothingDrawn /\ sent' = NothingSent
    /\ queue' = [queue EXCEPT !.subs = <<>>, !.index = 0, !.avalid = FALSE, !.qvalid = FALSE]

Reset ==
    /\ Draws("slate") /\ mg_state_reset
    /\ stage' = InitStage
    /\ slate' = [InitSlate EXCEPT !.until = slate.until, !.blank = slate.blank]
    /\ win' = [win EXCEPT !.slots = EmptySlots]
    /\ UNCHANGED <<pend, count, ppu>>

\* mg_state_stage_vram_clear writes the window's first slot and stages nothing;
\* mg_state_arm_clean_slate_vram_clear makes it persistent.
ClearSlot == [EmptySlot EXCEPT !.reg = "clear"]
CleanSlateFrames == 3
BgReuploadFrames == 60
ForceBlankFrames == 4

h_ppu_clean_slate ==
    /\ Draws("slate") /\ mg_state_reset
    /\ stage' = Checkpointed([InitStage EXCEPT !.payload = <<0>>, !.slots = 1])
    /\ slate' = [pending |-> TRUE, dropAt |-> count.consumed + 1, cgram |-> CleanSlateFrames,
                 bg |-> BgReuploadFrames, until |-> count.consumed + ForceBlankFrames, blank |-> TRUE]
    /\ win' = [win EXCEPT !.slots = [EmptySlots EXCEPT ![1] = ClearSlot]]
    /\ UNCHANGED <<pend, count, ppu>>

-----------------------------------------------------------------------------
InitPpu == [oam |-> InitShadow.oam, cgram |-> InitShadow.cgram, vram |-> [a \in Vram |-> 9],
            regs |-> [on |-> FALSE], m7 |-> InitShadow.m7]

CoproInit ==
    /\ shadow = InitShadow /\ dirty = InitDirty /\ stage = InitStage /\ pend = <<>>
    /\ slate = InitSlate
    /\ queue = [subs |-> <<>>, index |-> 0, avalid |-> FALSE, qvalid |-> FALSE,
                frame |-> [subs |-> <<>>, hold |-> <<>>, batch |-> [on |-> FALSE]]]
    /\ win = [slots |-> EmptySlots, payload |-> <<>>, batch |-> [on |-> FALSE], inidisp |-> <<>>,
              m7 |-> InitShadow.m7, hdma |-> InitShadow.hdma,
              tables |-> [a \in 0 .. HdmaCells - 1 |-> <<0, 0>>]]
    /\ count = [ready |-> FALSE, staged |-> 0, consumed |-> 0]
    /\ ppu = InitPpu /\ want = InitWant /\ drawn = NothingDrawn /\ sent = NothingSent
    /\ draws = 0 /\ uses \in Guests

DrawCall ==
    \/ \E i \in 0 .. Sprites - 1 :
          \/ \E s \in SpriteSpecs : h_sprite_set(i, s) \/ h_sprite_move(i, s.x, s.y)
          \/ h_sprite_hide(i)
    \/ h_sprites_clear_all
    \/ h_sprite_chr_base([sizes |-> 2, base0 |-> 16384, base1 |-> 24576])
    \/ h_bg_mode(9)
    \/ \E s \in Setups : h_bg_setup(s)
    \/ \E l \in Layers :
          \/ \E m, s \in BOOLEAN : h_bg_enable(l, m, s)
          \/ \E c \in 0 .. Cells - 1 : h_bg_set_tile(l, c, c + 1)
          \/ \E b \in Blits : h_bg_blit(l, b)
          \/ \E by \in Scrolls : h_bg_scroll(l, by)
    \/ \E p \in Palettes : h_palette_write(p)
    \/ \E b \in Blanks : SetBlank(b)
    \/ \E u \in Uploads : h_chr_upload(u)
    \/ \E u \in Transients : h_chr_upload_transient(u)
    \/ h_mode7_set([matrix |-> 7, scroll |-> 3]) \/ h_mode7_wrap(2)
    \/ \E c \in {1, 2} : \/ h_hdma_setup(c, 5, 1, TRUE) \/ h_hdma_enable(c, TRUE)
                         \/ \E n \in HdmaLens : h_hdma_upload(c, n)
    \/ h_ppu_clean_slate \/ Reset

CoproNext == DrawCall \/ CommitRefused \/ h_frame_commit \/ Nmi

-----------------------------------------------------------------------------
\* What the console will show once it has carried out what it has been offered:
\* the list in the window, the active frame's other sub-frames, the queued frame.
Coming ==
    LET shown == [Burst(ppu, win.payload, win.slots) EXCEPT !.regs = win.batch]
        rest == SubSeq(queue.subs, queue.index + 2, Len(queue.subs))
        all == FoldLeft(LAMBDA p, f : Burst(p, win.payload, f), shown, rest)
        next == FoldLeft(LAMBDA p, f : Burst(p, LoadPayload(win.payload, queue.frame.hold), f),
                         all, queue.frame.subs)
    IN IF ~count.ready THEN ppu
       ELSE IF queue.qvalid THEN [next EXCEPT !.regs = queue.frame.batch] ELSE all

\* The PPU's own reading of its registers and of OAM.
OamX(o) == o.x - 256 * (o.hi % 2)
SpriteShown(o, s) ==
    /\ OamX(o) = s.x /\ o.y = s.y /\ o.tile + 256 * (o.attrs % 2) = s.tile
    /\ (o.attrs \div 2) % 8 = s.palette /\ (o.attrs \div 16) % 4 = s.priority
    /\ (o.attrs \div 64) % 2 = s.hflip /\ o.attrs \div 128 = s.vflip /\ o.hi \div 2 = s.size_large
LayerShown(r, l, w) ==
    /\ (r.sc[l] \div 4) * 1024 = w.at /\ r.sc[l] % 4 = w.size /\ r.nba[l] * 4096 = w.chr
    /\ (l \in r.tm) = w.main /\ (l \in r.ts) = w.sub /\ r.scroll[l] = w.scroll
ObselShown(o, spr) ==
    /\ o \div 32 = spr.sizes /\ (o % 8) * 8192 = spr.base0
    /\ spr.base1 > spr.base0 => (o % 8) * 8192 + (((o \div 8) % 4) + 1) * 4096 = spr.base1

\* INIDISP on a line: the last chunk reached counts, the kernel's $0F before any.
LineBlank(t, y) ==
    LET start(i) == FoldLeft(LAMBDA n, c : n + c[1], 0, SubSeq(t, 1, i - 1))
        begun == {i \in DOMAIN t : start(i) <= y}
    IN begun # {} /\ t[CHOOSE i \in begun : \A j \in begun : j <= i][2] = Blank

\* What the guest had drawn when its last commit was taken is what the console
\* shows once it has consumed the frames it was offered: palette, sprites, the
\* tiles of the enabled layers, and everything uploaded to VRAM, whichever frame
\* carried it and however the transfers were split.
DrawnIsShown ==
    drawn.on =>
      LET c == Coming
      IN /\ c.cgram = drawn.cgram
         /\ \A i \in 0 .. Sprites - 1 : SpriteShown(c.oam[i], drawn.sprites[i])
         /\ \A l \in DOMAIN drawn.tiles : \A k \in DOMAIN drawn.tiles[l].map :
               drawn.tiles[l].at + k \in Vram
                 => c.vram[drawn.tiles[l].at + k] = drawn.tiles[l].map[k]
         /\ \A a \in Vram : drawn.vram[a] # <<>> => c.vram[a] = drawn.vram[a][1]

\* The registers go with the frame, for a guest that has something persistent on
\* the screen; and the force-blank table blanks exactly the lines asked for, and
\* fits its area of the window.
RegistersShown ==
    drawn.on =>
      /\ stage.ckpt.staged > 0 =>
            LET r == Coming.regs
            IN /\ r.bgmode = drawn.regs.bgmode /\ ObselShown(r.obsel, drawn.regs.spr)
               /\ r.obj = (\E i \in 0 .. Sprites - 1 : drawn.sprites[i].y < 224)
               /\ \A l \in Layers : LayerShown(r, l, drawn.regs.layer[l])
      /\ \A y \in 0 .. 223 :
            LineBlank(win.inidisp, y) <=> (y < drawn.lines[1] \/ y >= 224 - drawn.lines[2])
      /\ FoldLeft(LAMBDA n, k : n + k[1] + 1, 1, win.inidisp) <= 256
      /\ win.m7 = drawn.m7

\* Both.
PictureExact == DrawnIsShown /\ RegistersShown

\* emit_ppu_batch: "the kernel will read whatever is staged regardless".
BatchAlwaysShown ==
    drawn.on /\ count.ready => \A l \in Layers : LayerShown(Coming.regs, l, drawn.regs.layer[l])

\* "HDMA tables stay across frames unless re-uploaded".
TablesStay ==
    \A c \in Channels : \A i \in 0 .. want.tables[c].len - 1 :
        win.tables[shadow.hdma[c].off + i] = want.tables[c].table

\* h_sprite_get: "Reconstruct the 9-bit signed X using the high bit".
SpriteRoundTrip == \A i \in 0 .. Sprites - 1 : h_sprite_get(i) = want.sprites[i]

\* mg_ppu_clean_slate: "after the NEXT mg_frame_commit, PPU VRAM/CGRAM/OAM are all
\* zero": no word of VRAM but what the guest has drawn or uploaded since.
SlateIsClean ==
    [][slate.pending /\ slate'.pending /\ count.consumed < slate.dropAt /\ count'.consumed >= slate.dropAt
         => \A a \in Vram : ppu'.vram[a] # 9]_coprovars

\* MG_FS_GET_SLOTS never promises more slots than a burst has.
SlotsRemainingSane == mg_state_slots_remaining <= SlotsPerBurst
=============================================================================
