---------------------------- MODULE MixerProofs ----------------------------
(***************************************************************************)
(* Theorems about Mixer, for any number of channels, any block size of at  *)
(* least three samples and any prebuffer.                                  *)
(*                                                                         *)
(* The three properties of Mixer hold by one inductive invariant.  What it *)
(* adds to TypeOK and ChannelsKeepUp is that the callback finds the limits *)
(* MIXER_Init computed or, if it runs before that, an empty ring; and that *)
(* Enable brings up one channel at a time.                                 *)
(***************************************************************************)
EXTENDS Mixer, TLAPS

\* The limits are those of MIXER_Init, or nothing has started yet.
Limits ==
    IF mixer.ready
        THEN /\ mixer.min_needed = Prebuffer
             /\ mixer.max_needed = 2 * BlockSize + 2 * Prebuffer
        ELSE /\ mixer.done = 0 /\ mixer.needed = 0
             /\ enabling = {} /\ \A c \in Channels : ~channel[c].enabled

OneAtATime == \A b, c \in enabling : b = c

IInv == TypeOK /\ Limits /\ OneAtATime /\ ChannelsKeepUp

-----------------------------------------------------------------------------
LEMMA Parameters ==
    /\ Stretch \in Nat /\ Prebuffer \in Nat /\ Surplus \in Nat
    /\ BlockSize \in Nat /\ BlockSize >= 3 /\ BufSize \in Nat /\ BufSize > 0
    /\ Stretch < BlockSize /\ \A add \in Adds : add \in Nat
    BY MixerAssumption

\* Division: a quotient whose dividend is at most twice the divisor is at most 2.
LEMMA AtMostTwo ==
    ASSUME NEW x \in Nat, NEW m \in Nat, m > 0, x <= m
    PROVE  (2 * x) \div m \in 0..2
<1>1. (2 * x) \div m \in Int /\ (2 * x) % m \in 0..(m - 1)
    OBVIOUS
<1>2. 2 * x = m * ((2 * x) \div m) + ((2 * x) % m)
    OBVIOUS
<1>3. SUFFICES ASSUME NEW q \in Int, NEW r \in 0..(m - 1), 2 * x = m * q + r
               PROVE  q \in 0..2
    BY <1>1, <1>2
<1>4. q >= 0
    <2>1. SUFFICES ASSUME q <= -1 PROVE FALSE
        OBVIOUS
    <2>2. m * q <= -m
        BY <2>1
    <2> QED BY <2>2, <1>3
<1>5. q <= 2
    <2>1. SUFFICES ASSUME q >= 3 PROVE FALSE
        OBVIOUS
    <2>2. m * q >= 3 * m
        BY <2>1
    <2> QED BY <2>2, <1>3
<1> QED BY <1>4, <1>5

\* The remainder is the one number below the divisor that leaves a multiple of it.
LEMMA RemainderOf ==
    ASSUME NEW m \in Nat, m > 0, NEW k \in Int, NEW r \in 0..(m - 1)
    PROVE  (m * k + r) % m = r
<1>1. PICK x \in Int : x = m * k + r
    OBVIOUS
<1>2. x = m * (x \div m) + (x % m) /\ x \div m \in Int /\ x % m \in 0..(m - 1)
    OBVIOUS
<1>3. PICK j \in Int, s \in 0..(m - 1) : j = x \div m /\ s = x % m
    BY <1>2
<1>4. m * k + r = m * j + s
    BY <1>1, <1>2, <1>3
<1>5. m * (k - j) = s - r
    BY <1>4
<1>6. k - j = 0
    <2>1. ASSUME k - j >= 1 PROVE FALSE
        <3>1. m * (k - j) >= m
            BY <2>1
        <3> QED BY <1>5, <3>1
    <2>2. ASSUME k - j <= -1 PROVE FALSE
        <3>1. m * (k - j) <= -m
            BY <2>2
        <3> QED BY <1>5, <3>1
    <2> QED BY <2>1, <2>2
<1> QED BY <1>1, <1>3, <1>4, <1>6

\* Moving the read position on and counting as much less leaves the slot.
LEMMA SlotStays ==
    ASSUME NEW p \in Nat, NEW d \in Nat, NEW r \in Nat, r <= d
    PROVE  Slot(Slot(p, r), d - r) = Slot(p, d)
<1>1. BufSize \in Nat /\ BufSize > 0
    BY MixerAssumption
<1>2. PICK q \in Int, x \in 0..(BufSize - 1) : p + r = BufSize * q + x /\ x = (p + r) % BufSize
    BY <1>1
<1>3. PICK k \in Int, y \in 0..(BufSize - 1) : p + d = BufSize * k + y /\ y = (p + d) % BufSize
    BY <1>1
<1>4. x + (d - r) = BufSize * (k - q) + y
    BY <1>1, <1>2, <1>3
<1>5. (BufSize * (k - q) + y) % BufSize = y
    BY <1>1, RemainderOf
<1> QED BY <1>2, <1>3, <1>4, <1>5 DEF Slot

\* The counters after a step that leaves the limits alone.
Counted(m, p, d, n) == [m EXCEPT !.pos = p, !.done = d, !.needed = n]

LEMMA RingUpdated ==
    ASSUME mixer \in Ring, NEW p \in 0..(BufSize - 1), NEW d \in Nat, NEW n \in Nat,
           mixer' = Counted(mixer, p, d, n)
    PROVE  /\ mixer' \in Ring /\ mixer'.done = d /\ mixer'.needed = n
           /\ mixer'.ready = mixer.ready
           /\ mixer'.min_needed = mixer.min_needed
           /\ mixer'.max_needed = mixer.max_needed
    BY DEF Ring, Counted

\* mixer.cpp:548-602: a callback takes no more than is there.
LEMMA ReduceInBounds ==
    ASSUME IInv, mixer.ready, BlockSize - mixer.done <= Stretch, NEW important \in BOOLEAN
    PROVE  Reduce(mixer, BlockSize, important) \in 0..mixer.done
<1> DEFINE left == mixer.done - BlockSize
<1>1. /\ mixer.done \in Nat /\ BlockSize \in Nat /\ BlockSize >= 3
      /\ mixer.min_needed \in Nat /\ mixer.min_needed = Prebuffer
      /\ mixer.max_needed = 2 * BlockSize + 2 * Prebuffer
    BY Parameters DEF IInv, TypeOK, Ring, Limits
<1>2. CASE mixer.done < BlockSize
    BY <1>1, <1>2 DEF Reduce
<1>3. CASE mixer.done >= mixer.max_needed
    BY <1>1, <1>3 DEF Reduce
<1>4. CASE /\ mixer.done >= BlockSize /\ mixer.done < mixer.max_needed
           /\ left >= mixer.min_needed \/ ~important
    BY <1>1, <1>4 DEF Reduce
<1>5. CASE /\ mixer.done >= BlockSize /\ mixer.done < mixer.max_needed
           /\ left < mixer.min_needed /\ important
    <2>1. /\ left \in Nat /\ mixer.min_needed > 0
          /\ mixer.min_needed - left \in Nat /\ mixer.min_needed - left <= mixer.min_needed
        BY <1>1, <1>5
    <2>2. PICK q \in 0..2 : q = (2 * (mixer.min_needed - left)) \div mixer.min_needed
        BY <1>1, <2>1, AtMostTwo
    <2>3. Reduce(mixer, BlockSize, important) = BlockSize - (1 + q)
        BY <1>1, <1>5, <2>2 DEF Reduce
    <2>4. q \in 0..2
        BY <2>2
    <2>5. BlockSize - (1 + q) \in 0..mixer.done
        <3>1. /\ mixer.done \in Nat /\ BlockSize \in Nat /\ BlockSize >= 3
              /\ mixer.done >= BlockSize
            BY <1>1, <1>5
        <3> HIDE DEF left
        <3> QED BY <2>4, <3>1
    <2> QED BY <2>3, <2>5
<1> QED BY <1>1, <1>2, <1>3, <1>4, <1>5

\* Mixer.cpp:171-179: a channel never goes back when it is mixed.
LEMMA MixedUp ==
    ASSUME NEW c \in Channel, NEW needed \in Nat, NEW v \in Mixed(c, needed)
    PROVE  /\ v \in Channel /\ v.done >= c.done
           /\ v.enabled => c.enabled /\ v.done >= needed
<1>1. Surplus \in Nat /\ c.done \in Nat
    BY Parameters DEF Channel
<1>2. CASE ~c.enabled \/ c.done >= needed
    BY <1>2 DEF Mixed, Channel
<1>3. CASE c.enabled /\ c.done < needed
    <2>1. CASE \E n \in needed..(needed + Surplus) : v = [c EXCEPT !.done = n]
        <3>1. PICK n \in needed..(needed + Surplus) : v = [c EXCEPT !.done = n]
            BY <2>1
        <3>2. n \in Nat /\ n >= needed
            BY <1>1
        <3>3. v \in Channel /\ v.done = n
            BY <3>1, <3>2 DEF Channel
        <3> QED BY <1>1, <1>3, <3>2, <3>3
    <2>2. CASE \E n \in c.done..(needed + Surplus) : v = [enabled |-> FALSE, done |-> n]
        <3>1. PICK n \in c.done..(needed + Surplus) : v = [enabled |-> FALSE, done |-> n]
            BY <2>2
        <3>2. n \in Nat /\ n >= c.done
            BY <1>1
        <3>3. v \in Channel /\ v.done = n /\ ~v.enabled
            BY <3>1, <3>2 DEF Channel
        <3> QED BY <3>2, <3>3
    <2> QED BY <1>1, <1>3, <2>1, <2>2 DEF Mixed
<1> QED BY <1>2, <1>3 DEF Channel

\* A count less what was taken, or zero.
LEMMA ReducedDown ==
    ASSUME NEW c \in Channel, NEW reduce \in Nat
    PROVE  /\ Reduced(c, reduce) \in Channel
           /\ Reduced(c, reduce).enabled = c.enabled
           /\ c.done >= reduce => Reduced(c, reduce).done = c.done - reduce
    BY DEF Reduced, Channel

-----------------------------------------------------------------------------
LEMMA Initially == Init => IInv
<1> SUFFICES ASSUME Init PROVE IInv
    OBVIOUS
<1>1. TypeOK
    <2>1. PICK b \in BOOLEAN :
              mixer = [pos |-> 0, done |-> 0, needed |-> 0, min_needed |-> 0,
                       max_needed |-> 0, nosound |-> b, ready |-> FALSE]
        BY DEF Init
    <2>3. 0 \in 0..(BufSize - 1)
        BY Parameters
    <2>4. mixer \in Ring
        BY <2>1, <2>3 DEF Ring
    <2>5. mixer.done <= mixer.needed
        BY <2>1
    <2>2. channel \in [Channels -> Channel] /\ enabling \subseteq Channels
        BY DEF Init, Channel
    <2> QED BY <2>2, <2>4, <2>5 DEF TypeOK
<1>2. Limits /\ OneAtATime /\ ChannelsKeepUp
    BY DEF Init, Limits, OneAtATime, ChannelsKeepUp
<1> QED BY <1>1, <1>2 DEF IInv

\* Only channel c changes; the counters and the limits stay.
LEMMA OneChannel ==
    ASSUME IInv, mixer.ready, UNCHANGED mixer, NEW c \in Channels, NEW v \in Channel,
           Only(c, v), enabling' \subseteq {c},
           \A b \in enabling : b = c,
           v.enabled /\ c \notin enabling' => v.done >= mixer.done
    PROVE  IInv'
<1>1. channel' \in [Channels -> Channel] /\ channel'[c] = v
    BY DEF IInv, TypeOK, Only
<1>2. \A b \in Channels : b # c => channel'[b] = channel[b]
    BY DEF IInv, TypeOK, Only
<1>3. TypeOK'
    BY <1>1 DEF IInv, TypeOK
<1>4. Limits' /\ OneAtATime'
    BY DEF IInv, Limits, OneAtATime
<1>5. ChannelsKeepUp'
    BY <1>1, <1>2 DEF IInv, ChannelsKeepUp
<1> QED BY <1>3, <1>4, <1>5 DEF IInv

LEMMA StepKeeps == IInv /\ [Next]_vars => IInv'
<1> SUFFICES ASSUME IInv, [Next]_vars PROVE IInv'
    OBVIOUS
<1> USE Parameters
<1>0. /\ channel \in [Channels -> Channel] /\ mixer \in Ring
      /\ mixer.done <= mixer.needed /\ enabling \subseteq Channels
      /\ mixer.done \in Nat /\ mixer.needed \in Nat /\ mixer.pos \in 0..(BufSize - 1)
    BY DEF IInv, TypeOK, Ring
<1>1. CASE FinishInit
    <2>1. mixer' \in Ring /\ mixer'.ready = TRUE
          /\ mixer'.done = 0 /\ mixer'.needed = Prebuffer + 1
        <3>1. mixer.done = 0
            BY <1>1 DEF FinishInit, IInv, Limits
        <3>2. /\ mixer' = [mixer EXCEPT !.min_needed = Prebuffer, !.needed = Prebuffer + 1,
                                       !.max_needed = 2 * BlockSize + 2 * Prebuffer,
                                       !.ready = TRUE]
              /\ Prebuffer + 1 \in Nat /\ 2 * BlockSize + 2 * Prebuffer \in Nat
            BY <1>1 DEF FinishInit
        <3>3. mixer' \in Ring
            BY <1>0, <3>2, Zenon DEF Ring
        <3>4. mixer'.ready = TRUE /\ mixer'.done = mixer.done /\ mixer'.needed = Prebuffer + 1
            BY <1>0, <3>2 DEF Ring
        <3> QED BY <3>1, <3>3, <3>4
    <2>2. TypeOK'
        BY <1>0, <1>1, <2>1 DEF FinishInit, TypeOK
    <2>3. Limits' /\ OneAtATime'
        BY <1>0, <1>1, <2>1 DEF FinishInit, Limits, OneAtATime, IInv, Ring
    <2>4. ChannelsKeepUp'
        BY <1>0, <1>1, <2>1 DEF FinishInit, ChannelsKeepUp, Channel
    <2> QED BY <2>2, <2>3, <2>4 DEF IInv
<1>2. ASSUME NEW c \in Channels, Enable(c) PROVE IInv'
    <2>1. [channel[c] EXCEPT !.enabled = TRUE] \in Channel
        BY <1>0 DEF Channel
    <2> QED BY <1>0, <1>2, <2>1, OneChannel DEF Enable, Emulator
<1>3. ASSUME NEW c \in Channels, BringUp(c) PROVE IInv'
    <2>1. /\ BroughtUp(channel[c], mixer.done) \in Channel
          /\ BroughtUp(channel[c], mixer.done).done >= mixer.done
        BY <1>0 DEF BroughtUp, Channel
    <2>2. mixer.ready /\ \A b \in enabling : b = c
        BY <1>3 DEF BringUp, IInv, Limits, OneAtATime
    <2> QED BY <1>3, <2>1, <2>2, OneChannel DEF BringUp
<1>4. ASSUME NEW c \in Channels, Disable(c) PROVE IInv'
    <2>1. /\ [channel[c] EXCEPT !.enabled = FALSE] \in Channel
          /\ ~[channel[c] EXCEPT !.enabled = FALSE].enabled
        BY <1>0 DEF Channel
    <2> QED BY <1>0, <1>4, <2>1, OneChannel DEF Disable, Emulator
<1>5. ASSUME NEW c \in Channels, FillUp(c) PROVE IInv'
    <2>1. PICK n \in 0..mixer.needed : \E v \in Mixed(channel[c], n) : Only(c, v)
        BY <1>5 DEF FillUp
    <2>2. PICK v \in Mixed(channel[c], n) : Only(c, v)
        BY <2>1
    <2>3. v \in Channel /\ v.done >= channel[c].done
        BY <1>0, MixedUp
    <2>4. v.done >= mixer.done
        BY <1>0, <1>5, <2>3 DEF FillUp, Channel
    <2> QED BY <1>5, <2>2, <2>3, <2>4, OneChannel DEF FillUp, Emulator
<1>6. CASE MIXER_Mix
    <2>1. PICK after \in [Channels -> Samples] : MixAll(after) /\ channel' = after
        BY <1>6 DEF MIXER_Mix
    <2>2. PICK add \in Adds :
              mixer' = [mixer EXCEPT !.done = mixer.needed, !.needed = @ + add]
        BY <1>6 DEF MIXER_Mix
    <2>3. \A c \in Channels : /\ channel'[c] \in Channel
                              /\ channel'[c].enabled => channel'[c].done >= mixer.needed
        BY <1>0, <2>1, MixedUp DEF MixAll
    <2>4. /\ mixer' \in Ring /\ mixer'.done = mixer.needed
          /\ mixer'.needed = mixer.needed + add /\ mixer'.ready = mixer.ready
          /\ mixer'.min_needed = mixer.min_needed /\ mixer'.max_needed = mixer.max_needed
        <3>1. PICK n \in Nat : n = mixer.needed + add
            BY <1>0
        <3>2. mixer' = Counted(mixer, mixer.pos, mixer.needed, n)
            BY <1>0, <2>2, <3>1 DEF Ring, Counted
        <3>3. /\ mixer' \in Ring /\ mixer'.done = mixer.needed /\ mixer'.needed = n
              /\ mixer'.ready = mixer.ready
              /\ mixer'.min_needed = mixer.min_needed
              /\ mixer'.max_needed = mixer.max_needed
            BY <1>0, <3>2, RingUpdated
        <3> QED BY <3>1, <3>3
    <2>5. channel' \in [Channels -> Channel]
        BY <2>1, <2>3
    <2>6. TypeOK'
        BY <1>0, <1>6, <2>4, <2>5 DEF TypeOK, MIXER_Mix
    <2>7. Limits' /\ OneAtATime'
        BY <1>6, <2>4 DEF Limits, OneAtATime, IInv, MIXER_Mix, Emulator
    <2>8. ChannelsKeepUp'
        BY <2>3, <2>4 DEF ChannelsKeepUp
    <2> QED BY <2>6, <2>7, <2>8 DEF IInv
<1>7. CASE MIXER_Mix_NoSound
    <2>1. PICK after \in [Channels -> Samples] :
              /\ MixAll(after)
              /\ channel' = [c \in Channels |-> Reduced(after[c], mixer.needed)]
        BY <1>7 DEF MIXER_Mix_NoSound
    <2>2. PICK add \in Adds :
              mixer' = [mixer EXCEPT !.pos = Slot(@, mixer.needed), !.done = 0,
                                     !.needed = add]
        BY <1>7 DEF MIXER_Mix_NoSound
    <2>3. \A c \in Channels : after[c] \in Channel
        BY <1>0, <2>1, MixedUp DEF MixAll
    <2>4. channel' \in [Channels -> Channel]
        BY <1>0, <2>1, <2>3, ReducedDown
    <2>5. Slot(mixer.pos, mixer.needed) \in 0..(BufSize - 1)
        BY <1>0 DEF Slot
    <2>6. /\ mixer' \in Ring /\ mixer'.done = 0 /\ mixer'.needed = add
          /\ mixer'.ready = mixer.ready
          /\ mixer'.min_needed = mixer.min_needed /\ mixer'.max_needed = mixer.max_needed
        <3>1. PICK p \in 0..(BufSize - 1) : p = Slot(mixer.pos, mixer.needed)
            BY <2>5
        <3>2. mixer' = Counted(mixer, p, 0, add)
            BY <2>2, <3>1 DEF Counted
        <3> QED BY <1>0, <3>2, RingUpdated
    <2>7. TypeOK'
        BY <1>0, <1>7, <2>4, <2>6 DEF TypeOK, MIXER_Mix_NoSound
    <2>8. Limits' /\ OneAtATime'
        BY <1>7, <2>6 DEF Limits, OneAtATime, IInv, MIXER_Mix_NoSound, Emulator
    <2>9. ChannelsKeepUp'
        BY <2>4, <2>6 DEF ChannelsKeepUp, Channel
    <2> QED BY <2>7, <2>8, <2>9 DEF IInv
<1>8. ASSUME NEW important \in BOOLEAN, MIXER_CallBack(important) PROVE IInv'
    <2> DEFINE reduce == Reduce(mixer, BlockSize, important)
    <2>1. mixer.ready
        BY <1>8 DEF MIXER_CallBack, IInv, Limits
    <2>2. reduce \in 0..mixer.done
        BY <1>8, <2>1, ReduceInBounds DEF MIXER_CallBack
    <2>3. /\ mixer' = [mixer EXCEPT !.pos = Slot(@, reduce), !.done = @ - reduce,
                                    !.needed = @ - reduce]
          /\ channel' = [c \in Channels |-> Reduced(channel[c], reduce)]
          /\ enabling' = enabling
        BY <1>8 DEF MIXER_CallBack
    <2> HIDE DEF reduce
    <2>4. Slot(mixer.pos, reduce) \in 0..(BufSize - 1)
        BY <1>0, <2>2 DEF Slot
    <2>5. /\ mixer' \in Ring /\ mixer'.ready = mixer.ready
          /\ mixer'.done = mixer.done - reduce /\ mixer'.needed = mixer.needed - reduce
          /\ mixer'.min_needed = mixer.min_needed /\ mixer'.max_needed = mixer.max_needed
        <3>1. PICK p \in 0..(BufSize - 1), d \in Nat, n \in Nat :
                  /\ p = Slot(mixer.pos, reduce)
                  /\ d = mixer.done - reduce /\ n = mixer.needed - reduce
            BY <1>0, <2>2, <2>4
        <3>2. mixer' = Counted(mixer, p, d, n)
            BY <2>3, <3>1 DEF Counted
        <3>3. /\ mixer' \in Ring /\ mixer'.done = d /\ mixer'.needed = n
              /\ mixer'.ready = mixer.ready
              /\ mixer'.min_needed = mixer.min_needed
              /\ mixer'.max_needed = mixer.max_needed
            BY <1>0, <3>2, RingUpdated
        <3> QED BY <3>1, <3>3
    <2>6. \A c \in Channels :
              /\ channel'[c] \in Channel /\ channel'[c].enabled = channel[c].enabled
              /\ channel[c].done >= reduce => channel'[c].done = channel[c].done - reduce
        <3>1. SUFFICES ASSUME NEW c \in Channels
                       PROVE  /\ channel'[c] \in Channel
                              /\ channel'[c].enabled = channel[c].enabled
                              /\ channel[c].done >= reduce
                                     => channel'[c].done = channel[c].done - reduce
            OBVIOUS
        <3>2. channel'[c] = Reduced(channel[c], reduce) /\ channel[c] \in Channel
            BY <1>0, <2>3
        <3>3. reduce \in Nat
            BY <1>0, <2>2
        <3> QED BY <3>2, <3>3, ReducedDown
    <2>7. TypeOK'
        BY <1>0, <2>2, <2>3, <2>5, <2>6 DEF TypeOK
    <2>8. Limits' /\ OneAtATime'
        BY <2>1, <2>3, <2>5 DEF Limits, OneAtATime, IInv
    <2>9. ASSUME NEW c \in Channels, channel'[c].enabled, c \notin enabling'
          PROVE  channel'[c].done >= mixer'.done
        <3>1. channel[c].done >= mixer.done /\ channel[c].done \in Nat
            BY <1>0, <2>3, <2>6, <2>9 DEF IInv, ChannelsKeepUp, Channel
        <3> QED BY <1>0, <2>2, <2>5, <2>6, <3>1
    <2> QED BY <2>7, <2>8, <2>9 DEF IInv, ChannelsKeepUp
<1>9. CASE UNCHANGED vars
    BY <1>9 DEF vars, IInv, TypeOK, Limits, OneAtATime, ChannelsKeepUp
<1> QED BY <1>1, <1>2, <1>3, <1>4, <1>5, <1>6, <1>7, <1>8, <1>9 DEF Next

LEMMA Invariance == Spec => []IInv
<1>1. Init => IInv
    BY Initially
<1>2. IInv /\ [Next]_vars => IInv'
    BY StepKeeps
<1> QED BY <1>1, <1>2, PTL DEF Spec

-----------------------------------------------------------------------------
\* The counters that the emulator thread and the audio callback both subtract
\* from never wrap (mixer.cpp:612-613), for any block of at least three samples,
\* any prebuffer and any rate of ticks.
THEOREM CountersNeverWrap == Spec => []TypeOK
<1>1. IInv => TypeOK
    BY DEF IInv
<1> QED BY <1>1, Invariance, PTL

\* However Enable, FillUp and the ticks interleave with the callback, an enabled
\* channel has written all of the ring that may be played (mixer.cpp:150-159).
THEOREM ChannelsStayAhead == Spec => []ChannelsKeepUp
<1>1. IInv => ChannelsKeepUp
    BY DEF IInv
<1> QED BY <1>1, Invariance, PTL

\* The audio thread leaves every enabled channel at its slot of the ring
\* (mixer.cpp:604-620), whatever the sizes of the ring and of the block.
THEOREM NothingSkipped == Spec => NoSkip
<1>1. IInv /\ [Next]_vars =>
        [\A c \in Channels :
            channel[c].enabled /\ c \notin enabling /\ ~mixer.nosound
                /\ mixer'.pos # mixer.pos
            => Slot(mixer'.pos, channel'[c].done) = Slot(mixer.pos, channel[c].done)]_vars
    <2>1. SUFFICES ASSUME IInv, Next, NEW c \in Channels, channel[c].enabled,
                          c \notin enabling, ~mixer.nosound, mixer'.pos # mixer.pos
                   PROVE  Slot(mixer'.pos, channel'[c].done) = Slot(mixer.pos, channel[c].done)
        OBVIOUS
    <2>2. /\ mixer \in Ring /\ mixer.pos \in Nat /\ mixer.done \in Nat
          /\ channel[c] \in Channel /\ channel[c].done \in Nat
          /\ channel[c].done >= mixer.done
        BY <2>1, Parameters DEF IInv, TypeOK, Ring, Channel, ChannelsKeepUp
    <2>3. PICK important \in BOOLEAN : MIXER_CallBack(important)
        <3>1. CASE FinishInit
            BY <2>1, <2>2, <3>1 DEF FinishInit, Ring
        <3>2. CASE MIXER_Mix
            BY <2>1, <2>2, <3>2 DEF MIXER_Mix, Ring
        <3>3. CASE MIXER_Mix_NoSound
            BY <2>1, <3>3 DEF MIXER_Mix_NoSound
        <3>4. CASE \E b \in Channels : Enable(b) \/ BringUp(b) \/ Disable(b) \/ FillUp(b)
            BY <2>1, <3>4 DEF Enable, BringUp, Disable, FillUp
        <3> QED BY <2>1, <3>1, <3>2, <3>3, <3>4 DEF Next
    <2> DEFINE reduce == Reduce(mixer, BlockSize, important)
    <2>4. /\ BlockSize - mixer.done <= Stretch
          /\ mixer' = [mixer EXCEPT !.pos = Slot(@, reduce), !.done = @ - reduce,
                                    !.needed = @ - reduce]
          /\ channel'[c] = Reduced(channel[c], reduce)
        BY <2>3 DEF MIXER_CallBack
    <2>5. mixer.ready
        BY <2>1, <2>4, Parameters DEF IInv, Limits
    <2>6. reduce \in Nat /\ reduce <= channel[c].done
        BY <2>1, <2>2, <2>4, <2>5, ReduceInBounds
    <2> HIDE DEF reduce
    <2>7. channel'[c].done = channel[c].done - reduce
        BY <2>2, <2>4, <2>6, ReducedDown
    <2>8. mixer'.pos = Slot(mixer.pos, reduce)
        BY <2>2, <2>4 DEF Ring
    <2> QED BY <2>2, <2>6, <2>7, <2>8, SlotStays
<1> QED BY <1>1, Invariance, PTL DEF Spec, NoSkip
=============================================================================
