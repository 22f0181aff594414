------------------------------- MODULE Mixer -------------------------------
(***************************************************************************)
(* The mixer of dosbox/src/hardware/mixer.cpp: channels that write samples *)
(* into a ring on the emulator thread, and the audio callback that takes   *)
(* them out on a thread of SDL's.  Both count from the ring's read         *)
(* position pos, under the lock of the audio device (SDL_LockAudio, which  *)
(* the callback's thread holds too); an action is what happens under one   *)
(* lock.                                                                   *)
(*                                                                         *)
(* Samples, volumes and resampling are left out.  A device's handler is    *)
(* what Mix relies on: it adds samples until the channel has enough, and   *)
(* may add more or disable its channel.  The number of samples that a tick *)
(* adds follows tick_add, which the callback adapts; here any of Adds.     *)
(***************************************************************************)
EXTENDS Integers

CONSTANTS
    Channels,
    BufSize,        \* MIXER_BUFSIZE
    BlockSize,      \* mixer.blocksize, what the audio device asks for
    Stretch,        \* need >> 7, how short of it still plays
    Prebuffer,      \* mixer.min_needed
    Adds,           \* samples of one tick
    Surplus,        \* how much a handler may add over what is asked
    MaxNeeded       \* bound: mixer.needed when a tick mixes

ASSUME MixerAssumption ==
    /\ BlockSize \in Nat /\ BlockSize >= 3
    /\ BufSize \in Nat \ {0}
    /\ {Stretch, Prebuffer, Surplus, MaxNeeded} \subseteq Nat
    /\ Stretch < BlockSize
    /\ Adds \subseteq Nat

VARIABLES
    mixer,      \* pos, done, needed, min_needed, max_needed, nosound, and
                \* whether MIXER_Init has returned
    channel,    \* enabled and done of each channel
    enabling    \* channels that Enable has marked and not yet brought up
vars == <<mixer, channel, enabling>>

\* the slot of the ring where a count from pos falls
Slot(pos, n) == (pos + n) % BufSize

-----------------------------------------------------------------------------
(* What the functions do to the counters m and a channel c.                *)

\* MixerChannel::Mix: a channel after it was asked for needed
Mixed(c, needed) ==
    IF ~c.enabled \/ c.done >= needed THEN {c}
    ELSE {[c EXCEPT !.done = n] : n \in needed..(needed + Surplus)}
             \cup {[enabled |-> FALSE, done |-> n] : n \in c.done..(needed + Surplus)}

\* Faulty variant: a short callback takes all that was asked for.
Reduce_asked(m, need, important) ==
    IF m.done < need THEN need
    ELSE IF m.done >= m.max_needed THEN m.done - 2 * m.min_needed
    ELSE IF m.done - need >= m.min_needed \/ ~important THEN need
    ELSE need - (1 + (2 * (m.min_needed - (m.done - need))) \div m.min_needed)

\* how many samples a callback takes that has enough
Reduce(m, need, important) ==
    IF m.done < need THEN m.done
    ELSE IF m.done >= m.max_needed THEN m.done - 2 * m.min_needed
    ELSE IF m.done - need >= m.min_needed \/ ~important THEN need
    ELSE need - (1 + (2 * (m.min_needed - (m.done - need))) \div m.min_needed)

\* Faulty variant: a channel with no more than was taken keeps its count.
Reduced_above(c, reduce) == [c EXCEPT !.done = IF @ > reduce THEN @ - reduce ELSE @]

\* a channel after reduce samples are gone from the ring
Reduced(c, reduce) ==
    [c EXCEPT !.done = IF @ > reduce THEN @ - reduce ELSE 0]

\* Faulty variant: a channel that is behind starts where it stopped.
BroughtUp_not(c, done) == c

\* the locked part of MixerChannel::Enable
BroughtUp(c, done) == [c EXCEPT !.done = IF @ < done THEN done ELSE @]

-----------------------------------------------------------------------------
(* The steps.                                                              *)

\* MIXER_Init up to SDL_PauseAudio(0), from where on the callback may run
Init ==
    /\ mixer \in [pos : {0}, done : {0}, needed : {0}, min_needed : {0},
                  max_needed : {0}, nosound : BOOLEAN, ready : {FALSE}]
    /\ channel = [c \in Channels |-> [enabled |-> FALSE, done |-> 0]]
    /\ enabling = {}

FinishInit ==
    /\ ~mixer.ready
    /\ mixer' = [mixer EXCEPT !.min_needed = Prebuffer, !.needed = Prebuffer + 1,
                              !.max_needed = 2 * BlockSize + 2 * Prebuffer,
                              !.ready = TRUE]
    /\ UNCHANGED <<channel, enabling>>

\* the emulator thread is between two functions of the mixer
Emulator == mixer.ready /\ enabling = {}

\* channel c becomes value
Only(c, value) == channel' = [channel EXCEPT ![c] = value]

Enable(c) ==
    /\ Emulator /\ ~channel[c].enabled
    /\ Only(c, [channel[c] EXCEPT !.enabled = TRUE])
    /\ enabling' = {c} /\ UNCHANGED mixer
BringUp(c) ==
    /\ c \in enabling
    /\ Only(c, BroughtUp(channel[c], mixer.done))
    /\ enabling' = {} /\ UNCHANGED mixer
Disable(c) ==
    /\ Emulator /\ channel[c].enabled
    /\ Only(c, [channel[c] EXCEPT !.enabled = FALSE])
    /\ UNCHANGED <<mixer, enabling>>

\* up to the part of mixer.needed that the tick has reached
FillUp(c) ==
    /\ Emulator /\ channel[c].enabled /\ channel[c].done >= mixer.done
    /\ \E needed \in 0..mixer.needed :
           \E v \in Mixed(channel[c], needed) : Only(c, v)
    /\ UNCHANGED <<mixer, enabling>>

\* MIXER_MixData, all channels mixed up to needed
MixAll(after) ==
    \A c \in Channels : after[c] \in Mixed(channel[c], mixer.needed)

Samples == [enabled : BOOLEAN, done : 0..(MaxNeeded + Surplus)]

MIXER_Mix ==
    /\ Emulator /\ ~mixer.nosound /\ mixer.needed <= MaxNeeded
    /\ \E after \in [Channels -> Samples] : MixAll(after) /\ channel' = after
    /\ \E add \in Adds :
           mixer' = [mixer EXCEPT !.done = mixer.needed, !.needed = @ + add]
    /\ UNCHANGED enabling

MIXER_Mix_NoSound ==
    /\ Emulator /\ mixer.nosound
    /\ \E after \in [Channels -> Samples] :
           /\ MixAll(after)
           /\ channel' = [c \in Channels |-> Reduced(after[c], mixer.needed)]
    /\ \E add \in Adds :
           mixer' = [mixer EXCEPT !.pos = Slot(@, mixer.needed), !.done = 0, !.needed = add]
    /\ UNCHANGED enabling

\* The audio thread: a device that lacks more than a little gets nothing.
MIXER_CallBack(important) ==
    LET reduce == Reduce(mixer, BlockSize, important)
    IN /\ ~mixer.nosound /\ BlockSize - mixer.done <= Stretch
       /\ mixer' = [mixer EXCEPT !.pos = Slot(@, reduce), !.done = @ - reduce,
                                 !.needed = @ - reduce]
       /\ channel' = [c \in Channels |-> Reduced(channel[c], reduce)]
       /\ UNCHANGED enabling

Next ==
    \/ FinishInit
    \/ \E c \in Channels : Enable(c) \/ BringUp(c) \/ Disable(c) \/ FillUp(c)
    \/ MIXER_Mix \/ MIXER_Mix_NoSound
    \/ \E important \in BOOLEAN : MIXER_CallBack(important)

Spec == Init /\ [][Next]_vars

-----------------------------------------------------------------------------
(* Properties.                                                             *)

Ring == [pos : 0..(BufSize - 1), done : Nat, needed : Nat, min_needed : Nat,
         max_needed : Nat, nosound : BOOLEAN, ready : BOOLEAN]
Channel == [enabled : BOOLEAN, done : Nat]

\* The unsigned counters that both threads subtract from never wrap: a callback
\* takes no more than is there, and what is there is no more than what is due.
TypeOK ==
    /\ mixer \in Ring /\ mixer.done <= mixer.needed
    /\ channel \in [Channels -> Channel]
    /\ enabling \subseteq Channels

\* A channel that is enabled has samples for all that may be played, whenever it
\* was enabled and however the callback runs in between: no part of the ring is
\* handed to the audio device before the channel has written to it.
ChannelsKeepUp ==
    \A c \in Channels :
        channel[c].enabled /\ c \notin enabling => channel[c].done >= mixer.done

\* The audio thread leaves every enabled channel at the slot of the ring where it
\* was about to write: it neither skips samples of it nor has them written over.
NoSkip ==
    [][\A c \in Channels :
          channel[c].enabled /\ c \notin enabling /\ ~mixer.nosound
              /\ mixer'.pos # mixer.pos
          => Slot(mixer'.pos, channel'[c].done) = Slot(mixer.pos, channel[c].done)]_vars
=============================================================================
