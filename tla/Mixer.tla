------------------------------- MODULE Mixer -------------------------------
(***************************************************************************)
(* What the switcher sees of the audio mixer (server/audio): one record    *)
(* with the crossfade, the countdown of a cut, the channels, those on air, *)
(* and the program mute.  Every operator is one method of the mixer,   *)
(* which holds the mixer's mutex from its first to its last line; all      *)
(* channels are audio-follow-video (AFV).  Gains and samples are left out. *)
(***************************************************************************)
EXTENDS Integers

CONSTANTS
  Sources,    \* source keys; the mixer channel of a source has the same key
  NoSource    \* the empty key ""

CutTicks == 2   \* cutTotalFrames: a cut is a crossfade of two output ticks

NoFade == [from |-> NoSource, to |-> NoSource, mode |-> "none"]

Fades == [from : Sources \cup {NoSource}, to : Sources \cup {NoSource},
          mode : {"none", "cross", "out", "in"}]

Mixers == [fade : Fades, cutLeft : 0 .. CutTicks, channels : SUBSET Sources, active : SUBSET Sources,
           muted : BOOLEAN]

MixerInit == [fade |-> NoFade, cutLeft |-> 0, channels |-> {}, active |-> {}, muted |-> FALSE]

\* Mixer.AddChannel, and SetAFV: the channel is not on air yet.
AddChannel(m, s) == [m EXCEPT !.channels = @ \cup {s}, !.active = @ \ {s}]

\* Mixer.RemoveChannel
RemoveChannel(m, s) == [m EXCEPT !.channels = @ \ {s}, !.active = @ \ {s}]

\* Mixer.OnProgramChange: with AFV exactly the program's channel is on air.
OnProgramChange(m, program) == [m EXCEPT !.active = {program} \cap m.channels]

\* Mixer.OnCut: a crossfade that the output ticker drives and ends.
OnCut(m, old, new) ==
  [m EXCEPT !.fade = [from |-> old, to |-> new, mode |-> "cross"],
            !.cutLeft = CutTicks,
            !.active = @ \cup ({new} \cap m.channels)]

\* Mixer.OnTransitionStart: the countdown of an earlier cut is left alone.
OnTransitionStart(m, old, new, mode) ==
  [m EXCEPT !.fade = [from |-> old, to |-> new, mode |-> mode],
            !.active = @ \cup ({new} \cap m.channels)]

\* Mixer.OnTransitionComplete and Mixer.OnTransitionAbort, line for line the same:
\* the crossfade and the countdown are cleared, the channels stay as they are.
ClearFade(m) == [m EXCEPT !.fade = NoFade, !.cutLeft = 0]

\* Mixer.SetProgramMute
SetProgramMute(m, muted) == [m EXCEPT !.muted = muted]

\* The cut countdown at the end of every output tick.
Tick(m) == IF m.cutLeft > 1 THEN [m EXCEPT !.cutLeft = @ - 1] ELSE ClearFade(m)
=============================================================================
