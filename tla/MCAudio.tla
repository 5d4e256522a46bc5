------------------------------- MODULE MCAudio -------------------------------
(***************************************************************************)
(* The audio modules, checked in one run. They are looked at one at a      *)
(* time: part says which, so their state spaces add up, not multiply.      *)
(***************************************************************************)
EXTENDS AudioService, MusicPlayer, Mixer, AudioBridge

VARIABLE part

Parts == {"service", "meter", "player", "mixer", "math", "bridge"}
vars == <<avars, mtvars, mpvars, mxvars, taps4, bridgevars, part>>

MCSegLen == [s \in {"intro", "loop"} |-> IF s = "intro" THEN 3 ELSE 5]

Init ==
    /\ part \in Parts
    /\ AudioInit /\ MeterInit /\ PlayerInit /\ BridgeInit
    /\ MixerInit /\ (part # "mixer" => ch.interp = "cubic" /\ ~ch.loop /\ sync.on /\ ch.step = One)
    /\ IF part = "math" THEN MathInit ELSE taps4 = NoTaps

Service(A) == part = "service" /\ A /\ UNCHANGED <<mtvars, mpvars, mxvars, taps4, bridgevars, part>>
Player(A) == part = "player" /\ A /\ UNCHANGED <<avars, mtvars, mxvars, taps4, bridgevars, part>>

Next ==
    \/ Service(AudioNext)
    \/ part = "meter" /\ MeterNext /\ UNCHANGED <<avars, mpvars, mxvars, taps4, bridgevars, part>>
    \/ Player(PlayerNext)
    \/ part = "mixer" /\ MixerNext /\ UNCHANGED <<avars, mtvars, mpvars, taps4, bridgevars, part>>
    \/ part = "bridge" /\ BridgeNext /\ UNCHANGED <<avars, mtvars, mpvars, mxvars, taps4, part>>

Spec ==
    /\ Init /\ [][Next]_vars
    /\ WF_vars(Service(Reap)) /\ WF_vars(Service(Render))
    /\ WF_vars(Player(music_update)) /\ WF_vars(Player(PlayFrames))

\* After a collision the meter's count is off for good, after a reference too many
\* was dropped the pool's are: those states are not followed further.
Followed == AudioClean /\ ~raced

View == <<part, CASE part = "service" -> AudioView
                  [] part = "meter" -> mtvars
                  [] part = "player" -> mpvars
                  [] part \in {"mixer", "math"} -> <<mxvars, taps4>>
                  [] part = "bridge" -> bridgevars>>

-----------------------------------------------------------------------------
\* The service thread's books agree: pool objects and blocks with the references that
\* clients, voices and music hold (audio_pool.c, audio_arbiter.c), voices with mixer
\* channels and music slots, the band meter's count with who asked for it.
ServiceExact == RefsExact /\ VoicesMatchSlots /\ MeterHeld

\* What a mixer channel plays is what its source wrote, at its rate, and the kernels
\* and the output stage compute what their fixed-point formats say (audio_mixer.c).
MixerExact == ResampleExact /\ MixMathFaithful
==============================================================================
