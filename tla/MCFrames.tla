------------------------------- MODULE MCFrames -------------------------------
(***************************************************************************)
(* The console side of the host, checked in one run: the frame pipeline    *)
(* between the worker and the emulator thread, the rendering state behind  *)
(* a frame, the runtime as it comes up and goes down, and the pre-emptive  *)
(* scheduler. part says which one is looked at.                            *)
(***************************************************************************)
EXTENDS FrameFlow, Copro, Runtime, Presched

VARIABLE part

allvars == <<vars, coprovars, runtimevars, prevars, part>>

\* What guests draw. The sprite uses every field; palettes, blits and uploads are of one and of
\* two cells, so that a family's updates overlap in part; a guest uses two or three families.
MCSpriteSpecs == {[x |-> -1, y |-> 10, tile |-> 261, palette |-> 5, priority |-> 2,
                   hflip |-> 1, vflip |-> 0, size_large |-> 1]}
MCPalettes == {[at |-> 0, cells |-> <<1>>], [at |-> 1, cells |-> <<2, 3>>]}
MCBlits == {[at |-> 1, cells |-> <<5, 6>>]}
MCSetups == {[layer |-> 0, at |-> 1024, size |-> 1, chr |-> 4096]}
MCBlanks == {[top |-> 8, bot |-> 0], [top |-> 130, bot |-> 20], [top |-> 200, bot |-> 9]}
MCUploads == {[at |-> 4096, cells |-> <<7, 8>>]}
MCTransients == {[at |-> 4098, cells |-> <<6>>]}
MCGuests ==
    {{"chr", "bg", "slate"}, {"chr", "palette", "sprite"}, {"regs", "bg", "chr"},
     {"blank", "slate"}, {"mode7", "hdma", "chr"}, {"palette", "bg"}}

FramesInit ==
    /\ part \in {"pipeline", "copro", "runtime", "presched"}
    /\ Init /\ RuntimeInit /\ PreInit
    /\ CoproInit /\ (part # "copro" => uses = {"palette", "bg"})

FramesNext ==
    /\ UNCHANGED part
    /\ \/ part = "pipeline" /\ Next /\ UNCHANGED <<coprovars, runtimevars, prevars>>
       \/ part = "copro" /\ CoproNext /\ UNCHANGED <<vars, runtimevars, prevars>>
       \/ part = "runtime" /\ RuntimeNext /\ UNCHANGED <<vars, coprovars, prevars>>
       \/ part = "presched" /\ PreNext /\ UNCHANGED <<vars, coprovars, runtimevars>>

FramesSpec == FramesInit /\ [][FramesNext]_allvars

-----------------------------------------------------------------------------
\* Threads meet only where they may: no thread uses a part of the runtime that is not up and
\* no part is left up by a call that failed (RuntimeExact), and the pre-emptive scheduler is
\* over only when every body is (CompletionExact).
HandoffsExact == RuntimeExact /\ CompletionExact
=============================================================================
