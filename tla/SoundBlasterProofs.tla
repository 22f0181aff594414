------------------------- MODULE SoundBlasterProofs -------------------------
(***************************************************************************)
(* Theorems about SoundBlaster, for any sizes, any amounts the mixer pulls *)
(* and any number of calls of the guest.                                   *)
(*                                                                         *)
(* The C functions nest, so the proof follows the operators: each takes a  *)
(* good card to a good card (Good).  What a read of the channel does is    *)
(* shown once, within a block (ReadKeeps) and at its end (EndKeeps), for   *)
(* GenerateDMASound and DMA_Silent_Event.                                  *)
(***************************************************************************)
EXTENDS SoundBlaster, TLAPS

-----------------------------------------------------------------------------
(* Whole blocks: arithmetic modulo their size.                             *)

\* No remainder is left of a multiple, and of nothing else.
LEMMA Multiple ==
    ASSUME NEW n \in Nat \ {0}, NEW a \in Int
    PROVE  a % n = 0 <=> \E k \in Int : a = n * k
<1>1. a = n * (a \div n) + (a % n) /\ a \div n \in Int /\ a % n \in 0..(n - 1)
    OBVIOUS
<1>2. PICK j \in Int, r \in 0..(n - 1) : j = a \div n /\ r = a % n
    BY <1>1
<1>3. a = n * j + r
    BY <1>1, <1>2
<1>4. r = 0 => \E k \in Int : a = n * k
    BY <1>3
<1>5. ASSUME NEW k \in Int, a = n * k PROVE r = 0
    <2>1. n * (k - j) = r
        BY <1>3, <1>5
    <2>2. ASSUME k - j >= 1 PROVE FALSE
        <3>1. n * (k - j) >= n
            BY <2>2
        <3> QED BY <2>1, <3>1
    <2>3. ASSUME k - j <= -1 PROVE FALSE
        <3>1. n * (k - j) <= -n
            BY <2>3
        <3> QED BY <2>1, <3>1
    <2>4. k - j = 0
        BY <2>2, <2>3
    <2> QED BY <2>1, <2>4
<1> QED BY <1>2, <1>4, <1>5

\* Sums and differences of multiples, and multiples of them.
LEMMA MultiplesAdd ==
    ASSUME NEW n \in Nat \ {0}, NEW a \in Int, NEW b \in Int, a % n = 0, b % n = 0
    PROVE  (a + b) % n = 0 /\ (a - b) % n = 0
<1>1. PICK j \in Int : a = n * j
    BY Multiple
<1>2. PICK k \in Int : b = n * k
    BY Multiple
<1>3. a + b = n * (j + k) /\ a - b = n * (j - k)
    BY <1>1, <1>2
<1>4. a + b \in Int /\ a - b \in Int /\ j + k \in Int /\ j - k \in Int
    OBVIOUS
<1> QED BY <1>3, <1>4, Multiple

\* A multiple of a multiple.
LEMMA MultiplesTimes ==
    ASSUME NEW n \in Nat \ {0}, NEW a \in Int, NEW q \in Int, a % n = 0
    PROVE  (a * q) % n = 0
<1>1. PICK j \in Int : a = n * j
    BY Multiple
<1>2. a * q = n * (j * q)
    BY <1>1
<1>3. a * q \in Int /\ j * q \in Int
    OBVIOUS
<1> QED BY <1>2, <1>3, Multiple

\* A multiple below its divisor is zero.
LEMMA SmallMultiple ==
    ASSUME NEW n \in Nat \ {0}, NEW a \in Int, a % n = 0, a < n, -n < a
    PROVE  a = 0
<1>1. PICK j \in Int : a = n * j
    BY Multiple
<1>2. ASSUME j >= 1 PROVE FALSE
    <2>1. n * j >= n
        BY <1>2
    <2> QED BY <1>1, <2>1
<1>3. ASSUME j <= -1 PROVE FALSE
    <2>1. n * j <= -n
        BY <1>3
    <2> QED BY <1>1, <2>1
<1>4. j = 0
    BY <1>2, <1>3
<1> QED BY <1>1, <1>4

\* The remainder of a number below the divisor.
LEMMA Below ==
    ASSUME NEW w \in Nat \ {0}, NEW a \in 0..(w - 1)
    PROVE  a % w = a
<1>1. a = w * (a \div w) + (a % w) /\ a \div w \in Int /\ a % w \in 0..(w - 1)
    OBVIOUS
<1>2. PICK j \in Int, r \in 0..(w - 1) : j = a \div w /\ r = a % w
    BY <1>1
<1>3. a - r = w * j
    BY <1>1, <1>2
<1>4. (a - r) % w = 0
    BY <1>3, Multiple
<1>5. a - r = 0
    BY <1>4, SmallMultiple
<1> QED BY <1>2, <1>5

-----------------------------------------------------------------------------
(* The channel.                                                            *)

\* What the proofs need of the constants.
LEMMA Constants ==
    /\ CountMax \in Nat \ {0} /\ DmaMin \in Nat \ {0} /\ MinSize \in Nat \ {0}
    /\ WordSize \in Nat \ {0}
    /\ \A n \in Sizes : n \in Nat \ {0} /\ n <= CountMax + 1 /\ n < WordSize
    BY CardAssumption, DmaAssumption

\* A channel always has something left to move: a count n stands for n + 1.
LEMMA LeftIs ==
    ASSUME NEW chan \in Channel
    PROVE  Left(chan) \in Nat \ {0} /\ Left(chan) <= CountMax + 1
    BY Constants DEF Channel, Counts, Left

\* A channel that starts again has lost or gained whole blocks.
LEMMA RestartedFacts ==
    ASSUME NEW chan \in Channel, NEW past \in Nat
    PROVE  /\ Restarted(chan, past) \in Channel
           /\ \A n \in Nat \ {0} : (chan.basecnt + 1) % n = 0
                  => (Left(Restarted(chan, past)) + past) % n = 0
<1> DEFINE b == chan.basecnt + 1
           r == past % b
           q == past \div b
<1>1. chan.basecnt \in Counts /\ b \in Nat \ {0} /\ chan.basecnt = b - 1
    BY Constants DEF Channel, Counts
<1>2. past = b * q + r /\ q \in Int /\ r \in 0..(b - 1)
    <2> HIDE DEF b
    <2> QED BY <1>1
<1>3. Restarted(chan, past) = [chan EXCEPT !.currcnt = chan.basecnt - r]
    BY DEF Restarted
<1> HIDE DEF b, r, q
<1>4. chan.basecnt - r \in Counts
    BY <1>1, <1>2, Constants DEF Counts
<1>5. Restarted(chan, past) \in Channel
    BY <1>3, <1>4 DEF Channel
<1>6. Left(Restarted(chan, past)) = b - r
    <2>1. Restarted(chan, past).currcnt = chan.basecnt - r
        BY <1>3 DEF Channel
    <2> QED BY <2>1, <1>1, <1>2 DEF Left, Counts
<1>7. ASSUME NEW n \in Nat \ {0}, (chan.basecnt + 1) % n = 0
      PROVE  (Left(Restarted(chan, past)) + past) % n = 0
    <2>1. b % n = 0
        BY <1>7 DEF b
    <2>2. (b * (1 + q)) % n = 0
        <3>1. b \in Int /\ 1 + q \in Int
            BY <1>1, <1>2
        <3> QED BY <2>1, <3>1, MultiplesTimes
    <2>3. b * (1 + q) = b - r + past
        BY <1>1, <1>2
    <2> QED BY <1>6, <2>2, <2>3
<1> QED BY <1>5, <1>7

\* A read moves no more than it is asked for, and leaves the channel in step.
LEMMA ReadFacts ==
    ASSUME NEW chan \in Channel, NEW want \in Nat
    PROVE  LET r == Read(chan, want)
           IN  /\ r.chan \in Channel /\ r.done \in 0..want /\ r.masks \in BOOLEAN
               /\ r.chan.autoinit = chan.autoinit /\ r.chan.hooked = chan.hooked
               /\ r.chan.basecnt = chan.basecnt
               /\ r.masks => ~chan.autoinit /\ r.done = Left(chan) /\ Left(chan) <= want
               /\ ~r.masks => r.done = want
               /\ ~r.masks /\ ~chan.autoinit => Left(r.chan) = Left(chan) - want
               /\ ~r.masks => \A n \in Nat \ {0} : (chan.basecnt + 1) % n = 0
                      => (Left(r.chan) - (Left(chan) - want)) % n = 0
<1> DEFINE r == Read(chan, want)
<1>0. Left(chan) \in Nat \ {0} /\ Left(chan) = chan.currcnt + 1 /\ chan.currcnt \in Counts
    BY LeftIs DEF Left, Channel
<1>1. CASE want < Left(chan)
    <2> DEFINE c == [chan EXCEPT !.currcnt = chan.currcnt - want]
    <2>1. r = [chan |-> c, done |-> want, masks |-> FALSE]
        BY <1>1 DEF Read
    <2>2. chan.currcnt - want \in Counts
        BY <1>0, <1>1, Constants DEF Counts
    <2>3. c \in Channel /\ c.currcnt = chan.currcnt - want /\ c.autoinit = chan.autoinit
          /\ c.hooked = chan.hooked /\ c.basecnt = chan.basecnt
        BY <2>2 DEF Channel
    <2>4. Left(c) = Left(chan) - want
        BY <2>3, <1>0 DEF Left, Counts
    <2> HIDE DEF c
    <2>5. \A n \in Nat \ {0} : (Left(c) - (Left(chan) - want)) % n = 0
        <3>1. Left(c) - (Left(chan) - want) = 0
            BY <2>4, <1>0
        <3> QED BY <3>1, Below
    <2> QED BY <2>1, <2>3, <2>4, <2>5
<1>2. CASE ~(want < Left(chan)) /\ chan.autoinit
    <2> DEFINE past == want - Left(chan)
               c == Restarted(chan, past)
    <2>1. r = [chan |-> c, done |-> want, masks |-> FALSE]
        BY <1>2 DEF Read
    <2>2. past \in Nat
        BY <1>0, <1>2
    <2>3. c \in Channel /\ c.autoinit = chan.autoinit /\ c.hooked = chan.hooked
          /\ c.basecnt = chan.basecnt
        BY <2>2, RestartedFacts DEF Restarted, Channel
    <2>4. ASSUME NEW n \in Nat \ {0}, (chan.basecnt + 1) % n = 0
          PROVE  (Left(c) - (Left(chan) - want)) % n = 0
        <3>1. (Left(c) + past) % n = 0
            BY <2>2, <2>4, RestartedFacts
        <3>2. Left(c) \in Nat
            BY <2>3, LeftIs
        <3>3. Left(c) + past = Left(c) - (Left(chan) - want)
            BY <3>2, <1>0
        <3> QED BY <3>1, <3>3
    <2>5. want \in 0..want
        OBVIOUS
    <2> HIDE DEF c, past
    <2>6. r.chan = c /\ r.done = want /\ r.masks = FALSE
        BY <2>1
    <2> HIDE DEF r
    <2>7. /\ r.chan \in Channel /\ r.done \in 0..want /\ r.masks \in BOOLEAN
          /\ r.chan.autoinit = chan.autoinit /\ r.chan.hooked = chan.hooked
          /\ r.chan.basecnt = chan.basecnt
        BY <2>6, <2>3, <2>5
    <2> QED BY <2>6, <2>7, <2>4, <1>2 DEF r
<1>3. CASE ~(want < Left(chan)) /\ ~chan.autoinit
    <2> DEFINE c == Spent(chan)
    <2>1. r = [chan |-> c, done |-> Left(chan), masks |-> TRUE]
        BY <1>3 DEF Read
    <2>2. c \in Channel /\ c.autoinit = chan.autoinit /\ c.hooked = chan.hooked
          /\ c.basecnt = chan.basecnt
        <3>1. CountMax \in Counts
            BY Constants DEF Counts
        <3> QED BY <3>1 DEF Spent, Channel
    <2>3. Left(chan) \in 0..want /\ Left(chan) <= want
        BY <1>0, <1>3
    <2> HIDE DEF c
    <2> QED BY <2>1, <2>2, <2>3, <1>3
<1> QED BY <1>1, <1>2, <1>3

-----------------------------------------------------------------------------
(* The card.                                                               *)

States == {"NORMAL", "RESET", "RESET_WAIT"}

\* What may be queued.
Events ==
    {End(n) : n \in 1..DmaMin} \cup {Silent(n) : n \in 1..DmaMin}
    \cup {RaiseIRQEvent, FinishReset}
Queue == UNION {[S -> Nat \ {0}] : S \in SUBSET Events}

Card == [mode : Modes, dma : Dmas, chan : Links \cup {0}, left : 0..(WordSize - 1),
         singlesize : {0} \cup Sizes, autosize : {0} \cup Sizes, autoinit : BOOLEAN,
         pending8 : BOOLEAN, pending16 : BOOLEAN, speaker : BOOLEAN,
         dac : BOOLEAN, state : States, queue : Queue, channels : [Links -> Channel]]

\* An event of this name is queued.
Queued(s, name) == \E e \in BagToSet(s.queue) : e[1] = name

\* The channel holds what a transfer is still to move: Covers of the guest.
Supply(s) ==
    \/ Current(s).autoinit
    \/ ~s.autoinit /\ s.left + s.singlesize <= Left(Current(s))

\* A card that was never given a channel has no transfer.
Wired(s) ==
    s.chan = 0 => s.dma = "NONE" /\ s.left = 0 /\ ~Queued(s, "DMA_Silent_Event")
\* LeftInCycle
Bounded(s) == s.left = 0 \/ \E n \in Sizes : s.left <= n
\* A Sound Blaster 16 never plays in silence, and nothing ends a halted block.
Quiet(s) ==
    type = "sb16" =>
        /\ ~Queued(s, "DMA_Silent_Event")
        /\ s.mode = "PAUSE" => ~Queued(s, "END_DMA_Event")
\* A running card has a channel with enough for it.
Supplied(s) == s.mode = "DMA" => s.chan # 0 /\ Supply(s)
\* InStep, with what it takes when a block ends
Stepping(s, n) ==
    n > 0 /\ s.dma # "NONE" =>
        /\ s.left <= n /\ s.singlesize = 0
        /\ s.autoinit => s.autosize = n /\ Current(s).autoinit
        /\ (Current(s).basecnt + 1) % n = 0
        /\ (Left(Current(s)) - s.left) % n = 0

\* A good card, whose transfer is in step with blocks of n units if n > 0.
Good(s, n) ==
    /\ s \in Card
    /\ Wired(s) /\ Bounded(s) /\ Quiet(s) /\ Supplied(s) /\ Stepping(s, n)

\* The inductive invariant.
IInv ==
    /\ type \in Types /\ inStep \in {0} \cup Sizes /\ calls \in Nat
    /\ Good(sb, inStep)

-----------------------------------------------------------------------------
(* Steps that leave the transfer alone.                                    *)

\* The same transfer, in another mode perhaps.
Same(s, t) ==
    /\ t.dma = s.dma /\ t.chan = s.chan /\ t.left = s.left
    /\ t.singlesize = s.singlesize /\ t.autosize = s.autosize /\ t.autoinit = s.autoinit
    /\ t.channels = s.channels
Fewer(s, t) == BagToSet(t.queue) \subseteq BagToSet(s.queue)

\* A step that leaves the transfer alone, queues nothing and does not start the
\* card keeps it good.
LEMMA SameKeeps ==
    ASSUME NEW s, NEW n, Good(s, n), NEW t \in Card, Same(s, t), Fewer(s, t),
           t.mode \notin {"DMA", "PAUSE"} \/ t.mode = s.mode
    PROVE  Good(t, n)
<1>1. Current(t) = Current(s)
    BY DEF Same, Current
<1>2. Wired(t)
    BY DEF Same, Fewer, Wired, Good, Queued
<1>3. Bounded(t)
    BY DEF Same, Good, Bounded
<1>4. Quiet(t)
    BY DEF Good, Quiet, Fewer, Queued
<1>5. Supplied(t)
    BY <1>1 DEF Same, Good, Supplied, Supply
<1>6. Stepping(t, n)
    BY <1>1 DEF Same, Good, Stepping
<1> QED BY <1>2, <1>3, <1>4, <1>5, <1>6 DEF Good

\* PIC_AddEvent changes only the queue.
LEMMA AddFacts ==
    ASSUME NEW s \in Card, NEW e \in Events
    PROVE  LET t == PIC_AddEvent(s, e)
           IN  /\ t \in Card /\ Same(s, t) /\ t.mode = s.mode
               /\ BagToSet(t.queue) = BagToSet(s.queue) \cup {e}
<1> DEFINE q == s.queue (+) SetToBag({e})
           t == PIC_AddEvent(s, e)
<1>1. PICK S \in SUBSET Events : s.queue \in [S -> Nat \ {0}]
    BY DEF Card, Queue
<1>2. q = [x \in S \cup {e} |->
               (IF x \in S THEN s.queue[x] ELSE 0) + (IF x \in {e} THEN 1 ELSE 0)]
    BY <1>1 DEF (+), SetToBag
<1> HIDE DEF q
<1>3. q \in [S \cup {e} -> Nat \ {0}] /\ S \cup {e} \in SUBSET Events
    BY <1>1, <1>2
<1>4. q \in Queue
    BY <1>3 DEF Queue
<1>5. t = [s EXCEPT !.queue = q]
    BY DEF PIC_AddEvent, q
<1>6. t \in Card /\ Same(s, t) /\ t.mode = s.mode /\ t.queue = q
    BY <1>4, <1>5 DEF Card, Same
<1> QED BY <1>6, <1>1, <1>3 DEF BagToSet

\* PIC_RemoveEvents changes only the queue, and removes all events of the name.
LEMMA RemoveFacts ==
    ASSUME NEW s \in Card, NEW name
    PROVE  LET t == PIC_RemoveEvents(s, name)
           IN  /\ t \in Card /\ Same(s, t) /\ t.mode = s.mode
               /\ BagToSet(t.queue) = {e \in BagToSet(s.queue) : e[1] # name}
<1> DEFINE kept == {e \in BagToSet(s.queue) : e[1] # name}
           q == [e \in kept |-> s.queue[e]]
           t == PIC_RemoveEvents(s, name)
<1>1. PICK S \in SUBSET Events : s.queue \in [S -> Nat \ {0}]
    BY DEF Card, Queue
<1>2. kept \in SUBSET Events /\ q \in [kept -> Nat \ {0}]
    BY <1>1 DEF BagToSet
<1>3. q \in Queue /\ DOMAIN q = kept
    BY <1>2 DEF Queue
<1>4. t = [s EXCEPT !.queue = q]
    BY DEF PIC_RemoveEvents
<1> HIDE DEF q, kept
<1>5. t \in Card /\ Same(s, t) /\ t.mode = s.mode /\ t.queue = q
    BY <1>3, <1>4 DEF Card, Same
<1> QED BY <1>5, <1>3 DEF BagToSet, kept

\* An event that fires is no longer queued as often.
LEMMA FiredFacts ==
    ASSUME sb \in Card, NEW name, NEW f \in Fired(name)
    PROVE  /\ f.rest \in Card /\ Same(sb, f.rest) /\ f.rest.mode = sb.mode
           /\ Fewer(sb, f.rest)
           /\ f.event \in BagToSet(sb.queue) /\ f.event[1] = name /\ f.event \in Events
<1>1. PICK e \in BagToSet(sb.queue) :
          e[1] = name /\ f = [event |-> e, rest |-> [sb EXCEPT !.queue = @ (-) SetToBag({e})]]
    BY DEF Fired
<1> DEFINE q == sb.queue (-) SetToBag({e})
           d == [x \in DOMAIN sb.queue |-> IF x \in {e} THEN sb.queue[x] - 1 ELSE sb.queue[x]]
<1>2. PICK S \in SUBSET Events : sb.queue \in [S -> Nat \ {0}]
    BY DEF Card, Queue
<1>3. q = [x \in {y \in S : d[y] > 0} |-> d[x]]
    BY <1>2 DEF (-), SetToBag
<1>4. \A x \in S : d[x] \in Int
    BY <1>2
<1> DEFINE T == {y \in S : d[y] > 0}
<1> HIDE DEF q, d
<1>5. T \in SUBSET Events /\ q \in [T -> Nat \ {0}]
    BY <1>2, <1>3, <1>4
<1>6. q \in Queue /\ DOMAIN q \subseteq S
    BY <1>5 DEF Queue
<1>7. f.rest = [sb EXCEPT !.queue = q] /\ f.event = e
    BY <1>1 DEF q
<1>8. f.rest \in Card /\ Same(sb, f.rest) /\ f.rest.mode = sb.mode /\ f.rest.queue = q
    BY <1>6, <1>7 DEF Card, Same
<1> QED BY <1>1, <1>2, <1>6, <1>7, <1>8 DEF BagToSet, Fewer

\* SB_RaiseIRQ changes only what is pending.
LEMMA RaiseFacts ==
    ASSUME NEW s \in Card, NEW bits
    PROVE  LET t == SB_RaiseIRQ(s, bits)
           IN  t \in Card /\ Same(s, t) /\ t.mode = s.mode /\ t.queue = s.queue
<1>1. CASE bits = 16
    BY <1>1 DEF SB_RaiseIRQ, Card, Same
<1>2. CASE bits # 16
    BY <1>2 DEF SB_RaiseIRQ, Card, Same
<1> QED BY <1>1, <1>2
\* The types of what a good card is asked for most.
LEMMA GoodFacts ==
    ASSUME NEW s, NEW n, Good(s, n)
    PROVE  /\ s \in Card /\ s.left \in Nat /\ s.left < WordSize
           /\ s.singlesize \in Nat /\ s.autosize \in Nat
           /\ s.chan # 0 => s.chan \in Links /\ Current(s) \in Channel
           /\ s.dma # "NONE" => s.chan # 0
           /\ s.autoinit \in BOOLEAN /\ s.mode \in Modes
<1>1. s \in Card
    BY DEF Good
<1>2. s.left \in 0..(WordSize - 1)
    BY <1>1 DEF Card
<1>3. s.singlesize \in Nat /\ s.autosize \in Nat
    BY <1>1, Constants DEF Card
<1>4. s.chan # 0 => s.chan \in Links /\ Current(s) \in Channel
    BY <1>1 DEF Card, Current
<1>5. s.autoinit \in BOOLEAN /\ s.mode \in Modes
    BY <1>1 DEF Card
<1> QED BY <1>1, <1>2, <1>3, <1>4, <1>5, Constants DEF Good, Wired

-----------------------------------------------------------------------------
(* What a read of the channel does to the transfer.                        *)

\* t is s after the channel was read with the result r.
Reads(s, t, r) ==
    /\ t \in Card
    /\ t.dma = s.dma /\ t.chan = s.chan /\ t.left = s.left - r.done
    /\ t.singlesize = s.singlesize /\ t.autosize = s.autosize /\ t.autoinit = s.autoinit
    /\ t.channels = [s.channels EXCEPT ![s.chan] = r.chan]
    /\ t.queue = s.queue
    /\ t.mode = s.mode \/ (s.mode = "DMA" /\ r.masks /\ t.mode = "MASKED")

\* The count that is left does not wrap when no more was moved than was left.
LEMMA MovedFacts ==
    ASSUME NEW s \in Card, NEW done \in 0..s.left
    PROVE  Moved(s, done) = [s EXCEPT !.left = s.left - done] /\ s.left - done \in 0..(WordSize - 1)
<1>1. s.left \in 0..(WordSize - 1)
    BY DEF Card
<1>2. s.left - done \in 0..(WordSize - 1)
    BY <1>1, Constants
<1>3. (s.left - done) % WordSize = s.left - done
    BY <1>2, Constants, Below
<1> QED BY <1>2, <1>3 DEF Moved

\* A channel that reaches terminal count in a running transfer, or in one that
\* is in step, ends the block.
LEMMA TerminalCount ==
    ASSUME NEW n \in {0} \cup Sizes, NEW s, Good(s, n), s.chan # 0,
           NEW want \in 0..s.left, Read(Current(s), want).masks,
           s.mode = "DMA" \/ (n > 0 /\ s.dma # "NONE")
    PROVE  /\ ~s.autoinit /\ Read(Current(s), want).done = s.left
           /\ s.left = Left(Current(s)) /\ s.left = want
           /\ s.mode = "DMA" => s.singlesize = 0
<1> DEFINE c == Current(s)
           r == Read(c, want)
<1>1. c \in Channel /\ s.left \in Nat /\ want \in Nat /\ s.singlesize \in Nat
    BY GoodFacts
<1>2. ~c.autoinit /\ r.done = Left(c) /\ Left(c) <= want
    BY <1>1, ReadFacts
<1>3. Left(c) \in Nat \ {0}
    BY <1>1, LeftIs
<1> HIDE DEF r, c
<1>4. CASE s.mode = "DMA"
    <2>1. ~s.autoinit /\ s.left + s.singlesize <= Left(c)
        BY <1>4, <1>2 DEF Good, Supplied, Supply, c
    <2> QED BY <2>1, <1>1, <1>2, <1>3, <1>4 DEF c, r
<1>5. CASE s.mode # "DMA" /\ n > 0 /\ s.dma # "NONE"
    <2>1. s.left <= n /\ ~s.autoinit /\ (Left(c) - s.left) % n = 0
        BY <1>5, <1>2, GoodFacts DEF Good, Stepping, c
    <2>2. n \in Nat \ {0}
        BY <1>5, Constants
    <2>3. Left(c) - s.left < n /\ -n < Left(c) - s.left /\ Left(c) - s.left \in Int
        BY <2>1, <2>2, <1>1, <1>2, <1>3
    <2>4. Left(c) - s.left = 0
        BY <2>1, <2>2, <2>3, SmallMultiple
    <2> QED BY <2>1, <2>4, <1>1, <1>2, <1>3, <1>5 DEF c, r
<1> QED BY <1>4, <1>5

\* Within a block.
LEMMA ReadKeeps ==
    ASSUME NEW n \in {0} \cup Sizes, NEW s, Good(s, n), s.chan # 0,
           NEW want \in 0..s.left, NEW t, Reads(s, t, Read(Current(s), want)), t.left # 0
    PROVE  Good(t, n)
<1> DEFINE c == Current(s)
           r == Read(c, want)
<1>1. c \in Channel /\ s.left \in Nat /\ want \in Nat /\ s.singlesize \in Nat /\ s.chan \in Links
    BY GoodFacts
<1>2. r.chan \in Channel /\ r.done \in 0..want /\ r.masks \in BOOLEAN
      /\ r.chan.autoinit = c.autoinit /\ r.chan.basecnt = c.basecnt
    BY <1>1, ReadFacts
<1>3. t.left = s.left - r.done /\ t.left \in Nat /\ t.left <= s.left /\ t \in Card
    BY <1>1, <1>2 DEF Reads
<1>4. Current(t) = r.chan
    BY <1>1 DEF Reads, Current, Good, Card
<1>5. Wired(t)
    BY DEF Wired, Reads
<1>6. Bounded(t)
    <2>1. PICK m \in Sizes : s.left <= m
        BY <1>1, <1>2, <1>3 DEF Good, Bounded
    <2>2. t.left <= m
        BY <1>1, <1>3, <2>1, Constants
    <2> QED BY <2>1, <2>2 DEF Bounded
<1>7. Quiet(t)
    BY DEF Quiet, Good, Reads, Queued
<1>8. ASSUME s.mode = "DMA" \/ (n > 0 /\ s.dma # "NONE")
      PROVE  ~r.masks
    <2>1. r.masks => r.done = s.left
        BY <1>8, TerminalCount
    <2> QED BY <2>1, <1>1, <1>3
<1>9. ~r.masks => r.done = want /\ (~c.autoinit => Left(r.chan) = Left(c) - want)
    BY <1>1, ReadFacts
<1>10. ~r.masks => \A m \in Nat \ {0} : (c.basecnt + 1) % m = 0
                       => (Left(r.chan) - (Left(c) - want)) % m = 0
    BY <1>1, ReadFacts
<1>11. Left(c) \in Nat /\ Left(r.chan) \in Nat
    BY <1>1, <1>2, LeftIs
<1>12. Supplied(t)
    <2> SUFFICES ASSUME t.mode = "DMA" PROVE t.chan # 0 /\ Supply(t)
        BY DEF Supplied
    <2>1. s.mode = "DMA" /\ t.chan # 0
        BY DEF Reads
    <2>2. ~r.masks
        BY <1>8, <2>1
    <2>3. CASE c.autoinit
        BY <2>1, <2>3, <1>2, <1>4 DEF Supply
    <2>4. CASE ~c.autoinit
        <3>1. ~s.autoinit /\ s.left + s.singlesize <= Left(c)
            BY <2>1, <2>4 DEF Good, Supplied, Supply
        <3>2. Left(r.chan) = Left(c) - want /\ r.done = want
            BY <2>2, <2>4, <1>9
        <3>3. ~t.autoinit /\ t.singlesize = s.singlesize
            BY <3>1 DEF Reads
        <3> HIDE DEF c, r
        <3>4. t.left + t.singlesize <= Left(Current(t))
            BY <3>1, <3>2, <3>3, <1>1, <1>3, <1>4, <1>11
        <3> QED BY <2>1, <3>3, <3>4 DEF Supply
    <2> QED BY <2>1, <2>3, <2>4
<1>13. Stepping(t, n)
    <2> SUFFICES ASSUME n > 0, t.dma # "NONE"
                 PROVE  /\ t.left <= n /\ t.singlesize = 0
                        /\ t.autoinit => t.autosize = n /\ Current(t).autoinit
                        /\ (Current(t).basecnt + 1) % n = 0
                        /\ (Left(Current(t)) - t.left) % n = 0
        BY DEF Stepping
    <2>1. n \in Nat \ {0} /\ s.dma # "NONE"
        BY Constants DEF Reads
    <2>2. /\ s.left <= n /\ s.singlesize = 0
          /\ s.autoinit => s.autosize = n /\ c.autoinit
          /\ (c.basecnt + 1) % n = 0
          /\ (Left(c) - s.left) % n = 0
        BY <2>1 DEF Good, Stepping
    <2>3. ~r.masks
        BY <2>1, <1>8
    <2>4. (Left(r.chan) - (Left(c) - want)) % n = 0 /\ r.done = want
        BY <2>1, <2>2, <2>3, <1>9, <1>10
    <2> HIDE DEF c, r
    <2>5. ((Left(r.chan) - (Left(c) - want)) + (Left(c) - s.left)) % n = 0
        <3>1. Left(r.chan) - (Left(c) - want) \in Int /\ Left(c) - s.left \in Int
            BY <1>1, <1>11
        <3> QED BY <3>1, <2>1, <2>2, <2>4, MultiplesAdd
    <2>6. (Left(r.chan) - (Left(c) - want)) + (Left(c) - s.left) = Left(r.chan) - t.left
        BY <1>1, <1>3, <1>11, <2>4
    <2>7. (Left(Current(t)) - t.left) % n = 0
        BY <2>5, <2>6, <1>4
    <2>8. t.left <= n
        BY <2>1, <2>2, <1>1, <1>3
    <2> QED BY <2>2, <2>7, <2>8, <1>2, <1>4 DEF Reads
<1> QED BY <1>3, <1>5, <1>6, <1>7, <1>12, <1>13 DEF Good
\* The next block: another one of an autoinit transfer, none, or the
\* single-cycle transfer that was waiting.
NextBlock(s, t, u) ==
    \/ /\ s.autoinit /\ u.autoinit
       /\ u.left = s.autosize /\ u.autosize = s.autosize
       /\ u.singlesize = s.singlesize /\ u.dma = s.dma
       /\ u.mode \in {t.mode, "NONE"}
    \/ u.dma = "NONE" /\ u.mode = "NONE" /\ u.left = 0
    \/ /\ ~s.autoinit /\ ~u.autoinit
       /\ u.left = s.singlesize /\ s.singlesize # 0 /\ u.singlesize = 0
       /\ u.dma = s.dma /\ u.mode = t.mode

\* At the end of a block.
LEMMA EndKeeps ==
    ASSUME NEW n \in {0} \cup Sizes, NEW s, Good(s, n), s.chan # 0,
           NEW want \in 0..s.left, NEW t, Reads(s, t, Read(Current(s), want)), t.left = 0,
           NEW u \in Card, u.chan = t.chan, u.channels = t.channels, Fewer(s, u),
           NextBlock(s, t, u)
    PROVE  Good(u, n)
<1> DEFINE c == Current(s)
           r == Read(c, want)
<1>1. c \in Channel /\ s.left \in Nat /\ want \in Nat /\ s.singlesize \in Nat /\ s.chan \in Links
    BY GoodFacts
<1>2. r.chan \in Channel /\ r.done \in 0..want /\ r.masks \in BOOLEAN
      /\ r.chan.autoinit = c.autoinit /\ r.chan.basecnt = c.basecnt
    BY <1>1, ReadFacts
<1>3. r.done = s.left /\ want = s.left
    <2>1. s.left - r.done = 0
        BY DEF Reads
    <2> HIDE DEF r
    <2> QED BY <2>1, <1>1, <1>2
<1>4. Current(u) = r.chan /\ u.chan # 0
    BY <1>1 DEF Reads, Current, Good, Card
<1>5. t.mode = s.mode \/ (s.mode = "DMA" /\ t.mode = "MASKED")
    BY DEF Reads
<1>6. Wired(u)
    BY <1>4 DEF Wired
<1>7. Bounded(u)
    <2>1. u.left \in {0} \cup Sizes
        BY DEF NextBlock, Good, Card
    <2>2. ASSUME u.left \in Sizes PROVE u.left <= u.left
        BY <2>2, Constants
    <2> QED BY <2>1, <2>2 DEF Bounded
<1>8. Quiet(u)
    BY <1>5 DEF Quiet, Good, NextBlock, Queued, Fewer
<1>9. ASSUME s.mode = "DMA" \/ (n > 0 /\ s.dma # "NONE"), r.masks
      PROVE  ~s.autoinit /\ (s.mode = "DMA" => s.singlesize = 0)
    BY <1>9, TerminalCount
<1>10. ~r.masks => (~c.autoinit => Left(r.chan) = Left(c) - want)
    BY <1>1, ReadFacts
<1>11. ~r.masks => \A m \in Nat \ {0} : (c.basecnt + 1) % m = 0
                       => (Left(r.chan) - (Left(c) - want)) % m = 0
    BY <1>1, ReadFacts
<1>12. Left(c) \in Nat /\ Left(r.chan) \in Nat
    BY <1>1, <1>2, LeftIs
<1>13. Supplied(u)
    <2> SUFFICES ASSUME u.mode = "DMA" PROVE Supply(u)
        BY <1>4 DEF Supplied
    <2>1. s.mode = "DMA"
        BY <1>5 DEF NextBlock
    <2>2. CASE c.autoinit
        BY <2>2, <1>2, <1>4 DEF Supply
    <2>3. CASE ~c.autoinit
        <3>1. ~s.autoinit /\ s.left + s.singlesize <= Left(c)
            BY <2>1, <2>3 DEF Good, Supplied, Supply
        <3>2. u.left = s.singlesize /\ s.singlesize # 0 /\ u.singlesize = 0 /\ ~u.autoinit
            BY <3>1 DEF NextBlock
        <3>3. ~r.masks
            BY <2>1, <3>2, <1>9
        <3>4. Left(r.chan) = Left(c) - s.left
            BY <3>3, <2>3, <1>3, <1>10
        <3> HIDE DEF c, r
        <3>5. u.left + u.singlesize <= Left(Current(u))
            BY <3>1, <3>2, <3>4, <1>1, <1>4, <1>12
        <3> QED BY <3>2, <3>5 DEF Supply
    <2> QED BY <2>2, <2>3
<1>14. Stepping(u, n)
    <2> SUFFICES ASSUME n > 0, u.dma # "NONE"
                 PROVE  /\ u.left <= n /\ u.singlesize = 0
                        /\ u.autoinit => u.autosize = n /\ Current(u).autoinit
                        /\ (Current(u).basecnt + 1) % n = 0
                        /\ (Left(Current(u)) - u.left) % n = 0
        BY DEF Stepping
    <2>1. n \in Nat \ {0} /\ s.dma # "NONE"
        BY Constants DEF NextBlock
    <2>2. /\ s.left <= n /\ s.singlesize = 0
          /\ s.autoinit => s.autosize = n /\ c.autoinit
          /\ (c.basecnt + 1) % n = 0
          /\ (Left(c) - s.left) % n = 0
        BY <2>1 DEF Good, Stepping
    <2>3. s.autoinit /\ u.autoinit /\ u.left = n /\ u.autosize = n /\ u.singlesize = 0
        BY <2>2 DEF NextBlock
    <2>4. (Left(r.chan) - (Left(c) - s.left)) % n = 0
        BY <2>1, <2>2, <2>3, <1>3, <1>9, <1>11, <1>2
    <2> HIDE DEF c, r
    <2>5. Left(r.chan) % n = 0
        <3>1. Left(r.chan) - (Left(c) - s.left) \in Int /\ Left(c) - s.left \in Int
            BY <1>1, <1>12
        <3>2. ((Left(r.chan) - (Left(c) - s.left)) + (Left(c) - s.left)) % n = 0
            BY <3>1, <2>1, <2>2, <2>4, MultiplesAdd
        <3>3. (Left(r.chan) - (Left(c) - s.left)) + (Left(c) - s.left) = Left(r.chan)
            BY <1>1, <1>12
        <3> QED BY <3>2, <3>3
    <2>6. (Left(r.chan) - n) % n = 0
        <3>1. n = n * 1 /\ n \in Int /\ 1 \in Int
            BY <2>1
        <3>2. n % n = 0
            BY <3>1, <2>1, Multiple
        <3> QED BY <3>1, <3>2, <2>1, <2>5, <1>12, MultiplesAdd
    <2>7. n <= n
        BY <2>1
    <2> QED BY <2>2, <2>3, <2>6, <2>7, <1>2, <1>4
<1> QED BY <1>6, <1>7, <1>8, <1>13, <1>14 DEF Good
-----------------------------------------------------------------------------
(* The functions of the card.                                              *)

\* No more is asked for than is left.
LEMMA GenerateSizeFacts ==
    ASSUME NEW s, NEW n, Good(s, n), NEW size \in Nat, size <= s.left \/ size <= DmaMin
    PROVE  GenerateSize(s, size) \in 0..s.left
<1>1. s.left \in Nat /\ DmaMin \in Nat
    BY GoodFacts, Constants
<1>2. CASE s.autoinit
    BY <1>1, <1>2 DEF GenerateSize, Least
<1>3. CASE ~s.autoinit
    BY <1>1, <1>3 DEF GenerateSize
<1> QED BY <1>2, <1>3

\* No function makes the card run, or halts it, unless it did so before.
Calms(s, t) == t.mode \in {s.mode, "NONE", "MASKED"}

\* The card stays on its channel, and the channel in its mode.
Loops(s, t) == t.chan = s.chan /\ Current(t).autoinit = Current(s).autoinit

\* The end of a block that is played brings the next block.
LEMMA BlockEndsFacts ==
    ASSUME NEW t \in Card
    PROVE  LET u == BlockEnds(t)
           IN  /\ u \in Card /\ u.chan = t.chan /\ u.channels = t.channels
               /\ Fewer(t, u) /\ Calms(t, u)
               /\ t.left = 0 => NextBlock(t, t, u)
<1> DEFINE x == PIC_RemoveEvents(t, "END_DMA_Event")
           y == RaiseEnd(x)
<1>1. x \in Card /\ Same(t, x) /\ x.mode = t.mode /\ Fewer(t, x)
    BY RemoveFacts DEF Fewer
<1>2. y \in Card /\ Same(x, y) /\ y.mode = x.mode /\ y.queue = x.queue
    BY <1>1, RaiseFacts DEF RaiseEnd
<1> HIDE DEF x
<1>3. y \in Card /\ Same(t, y) /\ y.mode = t.mode /\ Fewer(t, y)
    BY <1>1, <1>2 DEF Same, Fewer
<1>4. BlockEnds(t) =
          IF y.autoinit
              THEN [y EXCEPT !.left = y.autosize,
                             !.mode = IF y.autosize = 0 THEN "NONE" ELSE @]
          ELSE IF y.singlesize = 0 THEN [y EXCEPT !.mode = "NONE", !.dma = "NONE"]
          ELSE [y EXCEPT !.left = y.singlesize, !.singlesize = 0]
    BY DEF BlockEnds, x
<1> HIDE DEF y
<1>5. y.autosize \in 0..(WordSize - 1) /\ y.singlesize \in 0..(WordSize - 1)
      /\ y.autosize \in {0} \cup Sizes
    BY <1>3, Constants DEF Card
<1>6. CASE y.autoinit
    <2> DEFINE u == [y EXCEPT !.left = y.autosize,
                              !.mode = IF y.autosize = 0 THEN "NONE" ELSE @]
    <2>1. u.left = y.autosize /\ u.mode \in {y.mode, "NONE"} /\ u.dma = y.dma
          /\ u.chan = y.chan /\ u.autosize = y.autosize /\ u.singlesize = y.singlesize
          /\ u.autoinit = y.autoinit /\ u.channels = y.channels /\ u.queue = y.queue
        BY <1>3 DEF Card
    <2>2. u \in Card
        BY <1>3, <1>5 DEF Card, Modes
    <2>3. BlockEnds(t) = u
        BY <1>4, <1>6
    <2> HIDE DEF u
    <2> QED BY <2>1, <2>2, <2>3, <1>3, <1>6 DEF Same, Fewer, Calms, NextBlock
<1>7. CASE ~y.autoinit /\ y.singlesize = 0
    <2> DEFINE u == [y EXCEPT !.mode = "NONE", !.dma = "NONE"]
    <2>1. u.mode = "NONE" /\ u.dma = "NONE" /\ u.left = y.left
          /\ u.chan = y.chan /\ u.channels = y.channels /\ u.queue = y.queue
        BY <1>3 DEF Card
    <2>2. u \in Card
        BY <1>3 DEF Card, Modes, Dmas
    <2>3. BlockEnds(t) = u
        BY <1>4, <1>7
    <2> HIDE DEF u
    <2> QED BY <2>1, <2>2, <2>3, <1>3, <1>7 DEF Same, Fewer, Calms, NextBlock
<1>8. CASE ~y.autoinit /\ y.singlesize # 0
    <2> DEFINE u == [y EXCEPT !.left = y.singlesize, !.singlesize = 0]
    <2>1. u.left = y.singlesize /\ u.singlesize = 0 /\ u.mode = y.mode /\ u.dma = y.dma
          /\ u.chan = y.chan /\ u.autoinit = y.autoinit
          /\ u.channels = y.channels /\ u.queue = y.queue
        BY <1>3 DEF Card
    <2>2. u \in Card
        BY <1>3, <1>5 DEF Card
    <2>3. BlockEnds(t) = u
        BY <1>4, <1>8
    <2> HIDE DEF u
    <2> QED BY <2>1, <2>2, <2>3, <1>3, <1>8 DEF Same, Fewer, Calms, NextBlock
<1> QED BY <1>6, <1>7, <1>8

\* A card may stop in any mode that neither runs nor halts.
LEMMA ModeKeeps ==
    ASSUME NEW s, NEW n, Good(s, n), NEW mode \in {"NONE", "DAC", "MASKED"}
    PROVE  Good([s EXCEPT !.mode = mode], n)
<1> DEFINE t == [s EXCEPT !.mode = mode]
<1>1. s \in Card
    BY DEF Good
<1>2. t \in Card /\ Same(s, t) /\ Fewer(s, t) /\ t.mode = mode
    BY <1>1 DEF Card, Modes, Same, Fewer
<1> HIDE DEF t
<1>3. Good(t, n)
    BY <1>2, SameKeeps
<1> QED BY <1>3 DEF t

\* GenerateDMASound, asked for no more than is left or than DmaMin.
LEMMA GenerateKeeps ==
    ASSUME NEW n \in {0} \cup Sizes, NEW s, Good(s, n),
           NEW size \in Nat, size <= s.left \/ size <= DmaMin
    PROVE  LET t == GenerateDMASound(s, size)
           IN  Good(t, n) /\ Fewer(s, t) /\ Calms(s, t) /\ Loops(s, t)
<1>1. CASE s.dma = "NONE"
    <2>1. GenerateDMASound(s, size) = [s EXCEPT !.mode = "NONE"]
        BY <1>1 DEF GenerateDMASound
    <2>2. Good([s EXCEPT !.mode = "NONE"], n)
        BY ModeKeeps
    <2>3. s \in Card
        BY DEF Good
    <2>4. LET t == [s EXCEPT !.mode = "NONE"] IN Fewer(s, t) /\ Calms(s, t) /\ Loops(s, t)
        BY <2>3 DEF Card, Fewer, Calms, Loops, Current
    <2> QED BY <2>1, <2>2, <2>4
<1>2. CASE s.dma # "NONE"
    <2> DEFINE want == GenerateSize(s, size)
               r == Read(Current(s), want)
               m == IF r.masks /\ r.chan.hooked /\ s.mode = "DMA" THEN "MASKED" ELSE s.mode
               x == [s EXCEPT !.channels[s.chan] = r.chan, !.mode = m]
               t == Moved(x, r.done)
    <2>1. want \in 0..s.left
        BY GenerateSizeFacts
    <2>2. s \in Card /\ s.chan # 0 /\ s.chan \in Links /\ Current(s) \in Channel
          /\ s.left \in Nat /\ s.mode \in Modes
        BY <1>2, GoodFacts
    <2>3. r.chan \in Channel /\ r.done \in 0..want /\ want \in Nat
        BY <2>1, <2>2, ReadFacts
    <2>4. r.done \in 0..s.left
        <3> HIDE DEF r, want
        <3> QED BY <2>1, <2>2, <2>3
    <2>5. GenerateDMASound(s, size) = IF t.left = 0 THEN BlockEnds(t) ELSE t
        BY <1>2 DEF GenerateDMASound
    <2>6. m \in Modes
        BY <2>2 DEF Modes
    <2>7. m = s.mode \/ (s.mode = "DMA" /\ r.masks /\ m = "MASKED")
        OBVIOUS
    <2> HIDE DEF r, m, want
    <2>8. x \in Card /\ x.mode = m /\ x.dma = s.dma /\ x.chan = s.chan /\ x.left = s.left
          /\ x.singlesize = s.singlesize /\ x.autosize = s.autosize
          /\ x.autoinit = s.autoinit /\ x.queue = s.queue
          /\ x.channels = [s.channels EXCEPT ![s.chan] = r.chan]
        <3>1. x.channels = [s.channels EXCEPT ![s.chan] = r.chan]
            BY <2>2 DEF Card
        <3>2. x.channels \in [Links -> Channel]
            BY <3>1, <2>2, <2>3 DEF Card
        <3>3. x.mode = m
            BY <2>2 DEF Card
        <3>4. x \in Card
            BY <3>2, <3>3, <2>2, <2>6 DEF Card
        <3> QED BY <3>1, <3>3, <3>4, <2>2 DEF Card
    <2> HIDE DEF x
    <2>9. t = [x EXCEPT !.left = x.left - r.done] /\ x.left - r.done \in 0..(WordSize - 1)
        BY <2>4, <2>8, MovedFacts
    <2> HIDE DEF t
    <2>10. t \in Card /\ t.left = s.left - r.done /\ Same([x EXCEPT !.left = x.left - r.done], t)
           /\ t.mode = m /\ t.queue = s.queue
        BY <2>8, <2>9 DEF Card, Same
    <2>11. Reads(s, t, r)
        BY <2>7, <2>8, <2>9, <2>10 DEF Reads, Card
    <2>12. Calms(s, t) /\ Fewer(s, t) /\ Loops(s, t)
        <3>1. Current(t) = r.chan
            BY <2>2, <2>11 DEF Reads, Current, Card
        <3>2. r.chan.autoinit = Current(s).autoinit
            BY <2>2, <2>3, ReadFacts DEF r
        <3> QED BY <3>1, <3>2, <2>7, <2>10, <2>11 DEF Calms, Fewer, Reads, Loops
    <2>13. CASE t.left # 0
        <3>1. Good(t, n)
            BY <2>1, <2>2, <2>11, <2>13, ReadKeeps DEF r
        <3> QED BY <3>1, <2>5, <2>12, <2>13
    <2>14. CASE t.left = 0
        <3> DEFINE u == BlockEnds(t)
        <3>1. u \in Card /\ u.chan = t.chan /\ u.channels = t.channels
              /\ Fewer(t, u) /\ Calms(t, u) /\ NextBlock(t, t, u)
            BY <2>10, <2>14, BlockEndsFacts
        <3> HIDE DEF u
        <3>2. NextBlock(s, t, u)
            BY <3>1, <2>11 DEF NextBlock, Reads
        <3>3. Fewer(s, u)
            BY <3>1, <2>12 DEF Fewer
        <3>4. Good(u, n)
            BY <3>1, <3>2, <3>3, <2>1, <2>2, <2>11, <2>14, EndKeeps DEF r
        <3>5. Calms(s, u) /\ Loops(s, u)
            BY <3>1, <2>12 DEF Calms, Loops, Current
        <3> QED BY <3>1, <3>3, <3>4, <3>5, <2>5, <2>12, <2>14 DEF u
    <2> QED BY <2>13, <2>14
<1> QED BY <1>1, <1>2
\* The mixer pulls: a transfer moves only while it runs.
LEMMA CallBackKeeps ==
    ASSUME NEW n \in {0} \cup Sizes, NEW s, Good(s, n), NEW len \in Pulls
    PROVE  LET t == SBLASTER_CallBack(s, len)
           IN  /\ Good(t, n) /\ Loops(s, t)
               /\ s.mode # "DMA" => Same(s, t) /\ t.mode \in {s.mode, "NONE"}
<1> DEFINE t == SBLASTER_CallBack(s, len)
<1>0. s \in Card /\ s.left \in Nat
    BY GoodFacts
<1>1. CASE s.mode = "DMA"
    <2>1. t = GenerateDMASound(s, Least(len, s.left))
        BY <1>1 DEF SBLASTER_CallBack
    <2>2. Least(len, s.left) \in Nat /\ Least(len, s.left) <= s.left
        BY <1>0, CardAssumption DEF Least
    <2> QED BY <1>1, <2>1, <2>2, GenerateKeeps
<1>2. CASE s.mode = "DAC"
    <2>1. t = [s EXCEPT !.mode = IF s.dac THEN @ ELSE "NONE", !.dac = FALSE]
        BY <1>2 DEF SBLASTER_CallBack
    <2>2. t.mode = (IF s.dac THEN s.mode ELSE "NONE")
        BY <2>1, <1>0 DEF Card
    <2>3. t \in Card
        BY <2>1, <1>0 DEF Card, Modes
    <2>4. Same(s, t) /\ t.queue = s.queue
        BY <2>1, <1>0 DEF Card, Same
    <2> HIDE DEF t
    <2>5. Good(t, n)
        BY <2>2, <2>3, <2>4, SameKeeps DEF Fewer
    <2> QED BY <2>2, <2>4, <2>5 DEF t, Same, Loops, Current
<1>3. CASE s.mode # "DMA" /\ s.mode # "DAC"
    <2>1. t = s
        BY <1>3 DEF SBLASTER_CallBack
    <2> QED BY <2>1 DEF Same, Loops
<1> QED BY <1>1, <1>2, <1>3

\* Before a command acts, the mixer may pull.
LEMMA FillUpKeeps ==
    ASSUME NEW n \in {0} \cup Sizes, NEW s, Good(s, n), NEW t \in FillUp(s)
    PROVE  /\ Good(t, n) /\ Loops(s, t)
           /\ s.mode # "DMA" => Same(s, t) /\ t.mode \in {s.mode, "NONE"}
<1> DEFINE Kept(x, y) == /\ Good(y, n) /\ Loops(x, y)
                         /\ x.mode # "DMA" => Same(x, y) /\ y.mode \in {x.mode, "NONE"}
<1>1. Kept(s, s)
    BY DEF Loops, Same
<1>2. ASSUME NEW x, Good(x, n), NEW len \in Pulls
      PROVE  Kept(x, SBLASTER_CallBack(x, len))
    BY <1>2, CallBackKeeps
<1>3. ASSUME NEW x, Kept(s, x), NEW y, Kept(x, y)
      PROVE  Kept(s, y)
    BY <1>3 DEF Loops, Same
<1>4. \/ t = s
      \/ \E len \in Pulls : t = SBLASTER_CallBack(s, len)
      \/ \E len \in Pulls, l2 \in Pulls : t = SBLASTER_CallBack(SBLASTER_CallBack(s, len), l2)
    BY DEF FillUp
<1>5. Kept(s, t)
    <2>1. CASE t = s
        BY <1>1, <2>1
    <2>2. CASE \E len \in Pulls : t = SBLASTER_CallBack(s, len)
        BY <1>2, <2>2
    <2>3. ASSUME NEW len \in Pulls, NEW l2 \in Pulls,
                 t = SBLASTER_CallBack(SBLASTER_CallBack(s, len), l2)
          PROVE  Kept(s, t)
        <3>1. Kept(s, SBLASTER_CallBack(s, len))
            BY <1>2
        <3>2. Kept(SBLASTER_CallBack(s, len), t)
            BY <3>1, <1>2, <2>3
        <3> QED BY <3>1, <3>2, <1>3
    <2> QED BY <1>4, <2>1, <2>2, <2>3
<1> QED BY <1>5

\* A callback that masks the card, with what it catches up.
LEMMA MaskedKeeps ==
    ASSUME NEW n \in {0} \cup Sizes, NEW s, Good(s, n), NEW late \in Nat
    PROVE  LET t == Masked(s, late) IN Good(t, n) /\ Fewer(s, t) /\ t.chan = s.chan
<1> DEFINE k == CatchUp(s, late)
           g == IF k = 0 THEN s ELSE GenerateDMASound(s, k)
<1>1. s \in Card /\ s.left \in Nat /\ MinSize \in Nat \ {0} /\ DmaMin \in Nat
    BY GoodFacts, Constants
<1>2. k \in Nat /\ (k <= s.left \/ k <= DmaMin)
    BY <1>1 DEF CatchUp, Least
<1>3. Good(g, n) /\ Fewer(s, g) /\ g.chan = s.chan
    <2> HIDE DEF k
    <2>1. Fewer(s, s)
        BY DEF Fewer
    <2> QED BY <1>2, <2>1, GenerateKeeps DEF Loops
<1>4. CASE s.mode # "DMA"
    BY <1>4 DEF Masked, Fewer
<1>5. CASE s.mode = "DMA"
    <2>1. Masked(s, late) = [g EXCEPT !.mode = "MASKED"]
        BY <1>5 DEF Masked
    <2> HIDE DEF g
    <2>2. Good([g EXCEPT !.mode = "MASKED"], n)
        BY <1>3, ModeKeeps
    <2>3. g \in Card
        BY <1>3 DEF Good
    <2>4. LET t == [g EXCEPT !.mode = "MASKED"] IN t.queue = g.queue /\ t.chan = g.chan
        BY <2>3 DEF Card
    <2> QED BY <2>1, <2>2, <2>4, <1>3 DEF Fewer
<1> QED BY <1>4, <1>5

\* Events are for a card that has something left to move.
LEMMA EventKeeps ==
    ASSUME NEW n \in {0} \cup Sizes, NEW s, Good(s, n), s.left # 0,
           s.mode # "PAUSE" \/ type # "sb16",
           NEW e \in Events, e[1] = "DMA_Silent_Event" => type # "sb16"
    PROVE  Good(PIC_AddEvent(s, e), n) /\ PIC_AddEvent(s, e).mode = s.mode
<1> DEFINE t == PIC_AddEvent(s, e)
<1>1. s \in Card
    BY GoodFacts
<1>2. t \in Card /\ Same(s, t) /\ t.mode = s.mode
      /\ BagToSet(t.queue) = BagToSet(s.queue) \cup {e}
    BY <1>1, AddFacts
<1> HIDE DEF t
<1>3. s.chan # 0
    BY DEF Good, Wired
<1>4. Wired(t)
    BY <1>2, <1>3 DEF Wired, Same
<1>5. Bounded(t)
    BY <1>2 DEF Bounded, Good, Same
<1>6. Quiet(t)
    <2>1. ASSUME type = "sb16" PROVE ~Queued(t, "DMA_Silent_Event") /\ t.mode # "PAUSE"
        BY <2>1, <1>2 DEF Good, Quiet, Queued
    <2> QED BY <2>1 DEF Quiet
<1>7. Current(t) = Current(s)
    BY <1>2 DEF Current, Same
<1>8. Supplied(t)
    BY <1>2, <1>7 DEF Supplied, Supply, Same, Good
<1>9. Stepping(t, n)
    BY <1>2, <1>7 DEF Stepping, Same, Good
<1> QED BY <1>2, <1>4, <1>5, <1>6, <1>8, <1>9 DEF Good, t

\* The event of a silent block.
LEMMA SilentIs ==
    ASSUME NEW left \in Nat \ {0}
    PROVE  LET e == Silent(Least(left, DmaMin))
           IN  e \in Events /\ e[1] = "DMA_Silent_Event"
<1> DEFINE k == Least(left, DmaMin)
<1>1. k \in 1..DmaMin
    BY Constants DEF Least
<1> HIDE DEF k
<1> QED BY <1>1 DEF Events, Silent, k

\* CheckDMAEnd queues an event for what is left.
LEMMA CheckDMAEndKeeps ==
    ASSUME NEW n \in {0} \cup Sizes, NEW s, Good(s, n), s.mode # "PAUSE" \/ type # "sb16"
    PROVE  LET t == CheckDMAEnd(s) IN Good(t, n) /\ t.mode = s.mode
<1>1. s \in Card /\ s.left \in Nat /\ DmaMin \in Nat \ {0}
    BY GoodFacts, Constants
<1>2. CASE s.left = 0
    BY <1>2 DEF CheckDMAEnd
<1>3. CASE s.left # 0 /\ ~Audible(s)
    <2> DEFINE e == Silent(Least(s.left, DmaMin))
    <2>1. CheckDMAEnd(s) = PIC_AddEvent(s, e)
        BY <1>3 DEF CheckDMAEnd
    <2>2. e \in Events /\ e[1] = "DMA_Silent_Event"
        BY <1>1, <1>3, SilentIs
    <2>3. type # "sb16"
        BY <1>3 DEF Audible
    <2> HIDE DEF e
    <2> QED BY <2>1, <2>2, <2>3, <1>3, EventKeeps
<1>4. CASE s.left # 0 /\ Audible(s) /\ s.left < DmaMin
    <2>1. CheckDMAEnd(s) = PIC_AddEvent(s, End(s.left))
        BY <1>4 DEF CheckDMAEnd
    <2>2. s.left \in 1..DmaMin
        BY <1>1, <1>4
    <2>3. End(s.left) \in Events /\ End(s.left)[1] = "END_DMA_Event"
        BY <2>2 DEF Events, End
    <2> QED BY <2>1, <2>3, <1>4, EventKeeps
<1>5. CASE s.left # 0 /\ Audible(s) /\ ~(s.left < DmaMin)
    BY <1>5 DEF CheckDMAEnd
<1> QED BY <1>2, <1>3, <1>4, <1>5

\* A card that was masked runs again, if the channel has enough for it.
LEMMA UnmaskedKeeps ==
    ASSUME NEW n \in {0} \cup Sizes, NEW s, Good(s, n),
           s.mode = "MASKED" /\ s.dma # "NONE" => Supply(s)
    PROVE  Good(Unmasked(s), n)
<1>1. CASE ~(s.mode = "MASKED" /\ s.dma # "NONE")
    BY <1>1 DEF Unmasked
<1>2. CASE s.mode = "MASKED" /\ s.dma # "NONE"
    <2> DEFINE t == [s EXCEPT !.mode = "DMA"]
    <2>1. Unmasked(s) = CheckDMAEnd(t)
        BY <1>2 DEF Unmasked
    <2>2. s \in Card /\ s.chan # 0
        BY <1>2, GoodFacts
    <2>3. t \in Card /\ Same(s, t) /\ t.mode = "DMA" /\ t.queue = s.queue
        BY <2>2 DEF Card, Modes, Same
    <2> HIDE DEF t
    <2>4. Current(t) = Current(s) /\ t.chan # 0
        BY <2>2, <2>3 DEF Current, Same
    <2>5. Wired(t) /\ Bounded(t)
        BY <2>3, <2>4 DEF Wired, Bounded, Same, Good
    <2>6. Quiet(t)
        BY <2>3 DEF Quiet, Queued, Good
    <2>7. Supplied(t)
        BY <2>3, <2>4, <1>2 DEF Supplied, Supply, Same
    <2>8. Stepping(t, n)
        BY <2>3, <2>4 DEF Stepping, Same, Good
    <2>9. Good(t, n)
        BY <2>3, <2>5, <2>6, <2>7, <2>8 DEF Good
    <2> QED BY <2>1, <2>3, <2>9, CheckDMAEndKeeps
<1> QED BY <1>1, <1>2

\* A channel may change what neither the count nor autoinit depends on.
LEMMA ChannelKeeps ==
    ASSUME NEW n \in {0} \cup Sizes, NEW s, Good(s, n), NEW link \in Links,
           NEW chan \in Channel, chan.autoinit = s.channels[link].autoinit,
           chan.basecnt = s.channels[link].basecnt, chan.currcnt = s.channels[link].currcnt
    PROVE  LET t == [s EXCEPT !.channels[link] = chan]
           IN  /\ Good(t, n) /\ t.mode = s.mode /\ t.dma = s.dma /\ t.chan = s.chan
               /\ Supply(s) /\ s.chan # 0 => Supply(t)
               /\ t.channels[link] = chan
<1> DEFINE t == [s EXCEPT !.channels[link] = chan]
<1>1. s \in Card /\ (s.chan # 0 => s.chan \in Links)
    BY GoodFacts
<1>2. t.channels = [s.channels EXCEPT ![link] = chan] /\ s.channels \in [Links -> Channel]
    BY <1>1 DEF Card
<1>3. t.channels \in [Links -> Channel] /\ t.channels[link] = chan
    BY <1>2
<1>4. t \in Card
    BY <1>1, <1>3 DEF Card
<1>5. /\ t.mode = s.mode /\ t.dma = s.dma /\ t.chan = s.chan /\ t.left = s.left
      /\ t.singlesize = s.singlesize /\ t.autosize = s.autosize /\ t.autoinit = s.autoinit
      /\ t.queue = s.queue
    BY <1>1 DEF Card
<1> HIDE DEF t
<1>6. s.chan # 0 => /\ Current(t).autoinit = Current(s).autoinit
                    /\ Current(t).basecnt = Current(s).basecnt
                    /\ Left(Current(t)) = Left(Current(s))
    BY <1>1, <1>2, <1>5 DEF Current, Left
<1>7. Supply(s) /\ s.chan # 0 => Supply(t)
    BY <1>5, <1>6 DEF Supply
<1>8. Wired(t) /\ Bounded(t)
    BY <1>5 DEF Wired, Bounded, Queued, Good
<1>9. Quiet(t)
    BY <1>5 DEF Quiet, Queued, Good
<1>10. Supplied(t)
    BY <1>5, <1>7 DEF Supplied, Good
<1>11. Stepping(t, n)
    BY <1>5, <1>6 DEF Stepping, Good, Wired
<1>12. Good(t, n)
    BY <1>4, <1>8, <1>9, <1>10, <1>11 DEF Good
<1> QED BY <1>3, <1>5, <1>7, <1>12 DEF t

\* The guest masks a channel, or unmasks one that covers the transfer.
LEMMA SetMaskKeeps ==
    ASSUME NEW n \in {0} \cup Sizes, NEW s, Good(s, n), NEW link \in Links,
           NEW mask \in BOOLEAN, NEW late \in Nat, mask \/ Covers(s, link)
    PROVE  Good(SetMask(s, link, mask, late), n)
<1> DEFINE chan == [s.channels[link] EXCEPT !.masked = mask]
           t == [s EXCEPT !.channels[link] = chan]
<1>1. s \in Card /\ s.channels[link] \in Channel
    BY GoodFacts DEF Card
<1>2. chan \in Channel /\ chan.autoinit = s.channels[link].autoinit
      /\ chan.basecnt = s.channels[link].basecnt /\ chan.currcnt = s.channels[link].currcnt
    BY <1>1 DEF Channel
<1>3. SetMask(s, link, mask, late) =
          IF link # t.chan \/ ~t.channels[link].hooked THEN t
          ELSE IF mask THEN Masked(t, late) ELSE Unmasked(t)
    BY DEF SetMask
<1> HIDE DEF chan
<1>4. Good(t, n) /\ t.chan = s.chan /\ (Supply(s) /\ s.chan # 0 => Supply(t))
    BY <1>2, ChannelKeeps
<1> HIDE DEF t
<1>5. ASSUME ~mask, link = t.chan PROVE Supply(t)
    BY <1>4, <1>5 DEF Covers, Supply, Current, Links
<1>6. Good(Masked(t, late), n)
    BY <1>4, MaskedKeeps
<1>7. ~mask /\ link = t.chan => Good(Unmasked(t), n)
    BY <1>4, <1>5, UnmaskedKeeps
<1> QED BY <1>3, <1>4, <1>6, <1>7

\* The card registers with a channel that has enough for it.
LEMMA RegisterKeeps ==
    ASSUME NEW n \in {0} \cup Sizes, NEW s, Good(s, n), s.chan # 0, Supply(s)
    PROVE  Good(Register_Callback(s), n)
<1> DEFINE chan == [s.channels[s.chan] EXCEPT !.hooked = TRUE]
           t == [s EXCEPT !.channels[s.chan] = chan]
<1>1. s \in Card /\ s.chan \in Links /\ s.channels[s.chan] \in Channel
    BY GoodFacts DEF Card
<1>2. chan \in Channel /\ chan.autoinit = s.channels[s.chan].autoinit
      /\ chan.basecnt = s.channels[s.chan].basecnt /\ chan.currcnt = s.channels[s.chan].currcnt
    BY <1>1 DEF Channel
<1>3. t = [s EXCEPT !.channels[s.chan].hooked = TRUE]
    BY <1>1
<1>4. Register_Callback(s) = IF Current(t).masked THEN t ELSE Unmasked(t)
    BY <1>3 DEF Register_Callback
<1> HIDE DEF chan
<1>5. Good(t, n) /\ Supply(t)
    BY <1>1, <1>2, ChannelKeeps
<1> HIDE DEF t
<1>6. Good(Unmasked(t), n)
    BY <1>5, UnmaskedKeeps
<1> QED BY <1>4, <1>5, <1>6
\* A silent block: the read may reach terminal count and call back, but then it
\* leaves nothing to catch up with.
LEMMA SilentReads ==
    ASSUME NEW n \in {0} \cup Sizes, NEW s, Good(s, n), s.chan # 0,
           NEW val \in 1..DmaMin, NEW late \in Nat,
           NEW r, r = Read(Current(s), Least(s.left, val)),
           NEW x, x = [s EXCEPT !.channels[s.chan] = r.chan],
           NEW y, y = IF r.masks /\ r.chan.hooked THEN Masked(x, late) ELSE x
    PROVE  Least(s.left, val) \in 0..s.left /\ Reads(s, Moved(y, r.done), r)
<1> DEFINE want == Least(s.left, val)
<1>1. s \in Card /\ s.left \in Nat /\ s.chan \in Links /\ Current(s) \in Channel
      /\ s.mode \in Modes /\ DmaMin \in Nat
    BY GoodFacts, Constants
<1>2. want \in 0..s.left /\ want \in Nat /\ want <= DmaMin
    BY <1>1 DEF Least
<1> HIDE DEF want
<1>3. r = Read(Current(s), want)
    BY DEF want
<1>4. r.chan \in Channel /\ r.done \in 0..want
    BY <1>1, <1>2, <1>3, ReadFacts
<1>5. r.done \in 0..s.left
    BY <1>1, <1>2, <1>4
<1>6. x.channels = [s.channels EXCEPT ![s.chan] = r.chan]
    BY <1>1 DEF Card
<1>7. x.channels \in [Links -> Channel]
    BY <1>1, <1>4, <1>6 DEF Card
<1>8. x \in Card
    BY <1>1, <1>7 DEF Card
<1>9. /\ x.mode = s.mode /\ x.dma = s.dma /\ x.chan = s.chan /\ x.left = s.left
      /\ x.singlesize = s.singlesize /\ x.autosize = s.autosize
      /\ x.autoinit = s.autoinit /\ x.queue = s.queue
    BY <1>1 DEF Card
<1>10. y = x \/ (s.mode = "DMA" /\ r.masks /\ y = [x EXCEPT !.mode = "MASKED"])
    <2>1. CASE ~(r.masks /\ r.chan.hooked)
        BY <2>1
    <2>2. CASE r.masks /\ r.chan.hooked /\ s.mode # "DMA"
        BY <2>2, <1>9 DEF Masked
    <2>3. CASE r.masks /\ r.chan.hooked /\ s.mode = "DMA"
        <3>1. ~s.autoinit /\ s.left = want
            BY <2>3, <1>2, <1>3, TerminalCount
        <3>2. CatchUp(x, late) = 0
            BY <3>1, <1>2, <1>9 DEF CatchUp
        <3> QED BY <3>2, <2>3, <1>9 DEF Masked
    <2> QED BY <2>1, <2>2, <2>3
<1>11. /\ y \in Card /\ y.dma = s.dma /\ y.chan = s.chan /\ y.left = s.left
       /\ y.singlesize = s.singlesize /\ y.autosize = s.autosize
       /\ y.autoinit = s.autoinit /\ y.queue = s.queue
       /\ y.channels = x.channels
       /\ y.mode = s.mode \/ (s.mode = "DMA" /\ r.masks /\ y.mode = "MASKED")
    <2>1. CASE y = x
        BY <2>1, <1>8, <1>9
    <2>2. CASE s.mode = "DMA" /\ r.masks /\ y = [x EXCEPT !.mode = "MASKED"]
        <3>1. y = [x EXCEPT !.mode = "MASKED"]
            BY <2>2
        <3>2. y \in Card
            BY <3>1, <1>8 DEF Card, Modes
        <3>3. /\ y.dma = x.dma /\ y.chan = x.chan /\ y.left = x.left
              /\ y.singlesize = x.singlesize /\ y.autosize = x.autosize
              /\ y.autoinit = x.autoinit /\ y.queue = x.queue
              /\ y.channels = x.channels /\ y.mode = "MASKED"
            BY <3>1, <1>8 DEF Card
        <3> QED BY <3>2, <3>3, <2>2, <1>9
    <2> QED BY <1>10, <2>1, <2>2
<1> DEFINE t == Moved(y, r.done)
<1>12. t = [y EXCEPT !.left = y.left - r.done] /\ y.left - r.done \in 0..(WordSize - 1)
    <2>1. y \in Card /\ r.done \in 0..y.left
        BY <1>5, <1>11
    <2>2. \A a \in Card : \A d \in 0..a.left :
              Moved(a, d) = [a EXCEPT !.left = a.left - d] /\ a.left - d \in 0..(WordSize - 1)
        BY MovedFacts
    <2> QED BY ONLY <2>1, <2>2
<1>13. t \in Card /\ t.left = s.left - r.done
    BY <1>11, <1>12 DEF Card
<1>14. /\ t.dma = y.dma /\ t.chan = y.chan /\ t.mode = y.mode
       /\ t.singlesize = y.singlesize /\ t.autosize = y.autosize
       /\ t.autoinit = y.autoinit /\ t.queue = y.queue /\ t.channels = y.channels
    BY <1>11, <1>12 DEF Card
<1> HIDE DEF t
<1>15. Reads(s, t, r)
    BY <1>6, <1>11, <1>13, <1>14 DEF Reads
<1> QED BY <1>2, <1>15 DEF t, want

\* DMA_Silent_Event.
LEMMA SilentKeeps ==
    ASSUME NEW n \in {0} \cup Sizes, NEW s, Good(s, n), s.chan # 0, type # "sb16",
           NEW val \in 1..DmaMin, NEW late \in Nat
    PROVE  Good(DMA_Silent_Event(s, val, late), n)
<1> DEFINE want == Least(s.left, val)
           r == Read(Current(s), want)
           x == [s EXCEPT !.channels[s.chan] = r.chan]
           y == IF r.masks /\ r.chan.hooked THEN Masked(x, late) ELSE x
           t == Moved(y, r.done)
           z == RaiseEnd(t)
           u == IF t.left > 0 THEN t
                ELSE IF t.autoinit THEN [z EXCEPT !.left = t.autosize]
                ELSE [z EXCEPT !.mode = "NONE", !.dma = "NONE"]
<1>1. DMA_Silent_Event(s, val, late) =
          IF u.left = 0 THEN u ELSE PIC_AddEvent(u, Silent(Least(u.left, DmaMin)))
    BY DEF DMA_Silent_Event
<1> HIDE DEF u
<1>2. want \in 0..s.left /\ Reads(s, t, r)
    BY SilentReads
<1> HIDE DEF t, r, want
<1>3. t \in Card /\ t.left \in Nat
    BY <1>2 DEF Reads, Card
<1>4. z \in Card /\ Same(t, z) /\ z.mode = t.mode /\ z.queue = t.queue
    BY <1>3, RaiseFacts DEF RaiseEnd
<1> HIDE DEF z
<1>5. Good(u, n)
    <2>1. CASE t.left # 0
        <3>1. u = t
            BY <2>1, <1>3 DEF u
        <3> QED BY <3>1, <2>1, <1>2, ReadKeeps DEF r
    <2>2. CASE t.left = 0
        <3>1. u = IF t.autoinit THEN [z EXCEPT !.left = t.autosize]
                  ELSE [z EXCEPT !.mode = "NONE", !.dma = "NONE"]
            BY <2>2 DEF u
        <3>2. t.autosize \in 0..(WordSize - 1)
            BY <1>3, Constants DEF Card
        <3>3. /\ u \in Card /\ u.chan = t.chan /\ u.channels = t.channels /\ u.queue = t.queue
              /\ NextBlock(t, t, u)
            <4>1. CASE t.autoinit
                <5>1. u = [z EXCEPT !.left = t.autosize]
                    BY <3>1, <4>1
                <5>2. u \in Card /\ u.left = t.autosize
                    BY <5>1, <3>2, <1>4 DEF Card
                <5>3. /\ u.mode = t.mode /\ u.dma = t.dma /\ u.chan = t.chan
                      /\ u.singlesize = t.singlesize /\ u.autosize = t.autosize
                      /\ u.autoinit = t.autoinit /\ u.channels = t.channels
                      /\ u.queue = t.queue
                    BY <5>1, <1>4 DEF Card, Same
                <5> QED BY <4>1, <5>2, <5>3 DEF NextBlock
            <4>2. CASE ~t.autoinit
                <5>1. u = [z EXCEPT !.mode = "NONE", !.dma = "NONE"]
                    BY <3>1, <4>2
                <5>2. u \in Card /\ u.mode = "NONE" /\ u.dma = "NONE"
                    BY <5>1, <1>4 DEF Card, Modes, Dmas
                <5>3. u.left = t.left /\ u.chan = t.chan /\ u.channels = t.channels
                      /\ u.queue = t.queue
                    BY <5>1, <1>4 DEF Card, Same
                <5> QED BY <2>2, <5>2, <5>3 DEF NextBlock
            <4> QED BY <4>1, <4>2
        <3>4. NextBlock(s, t, u) /\ Fewer(s, u)
            BY <3>3, <1>2 DEF NextBlock, Reads, Fewer
        <3> QED BY <2>2, <3>3, <3>4, <1>2, EndKeeps DEF r
    <2> QED BY <2>1, <2>2
<1>6. CASE u.left = 0
    BY <1>1, <1>5, <1>6
<1>7. CASE u.left # 0
    <2> DEFINE e == Silent(Least(u.left, DmaMin))
    <2>1. u.left \in Nat \ {0}
        BY <1>5, <1>7, GoodFacts
    <2>2. e \in Events /\ e[1] = "DMA_Silent_Event"
        BY <2>1, SilentIs
    <2> HIDE DEF e
    <2>3. Good(PIC_AddEvent(u, e), n)
        BY <2>2, <1>5, <1>7, EventKeeps
    <2> QED BY <2>3, <1>1, <1>7 DEF e
<1> QED BY <1>6, <1>7
\* The state in which a transfer waits for its channel.
Waiting(t, dma, autoinit) ==
    LET sized == IF Transferring(t) /\ t.autoinit /\ ~autoinit THEN t
                 ELSE IF autoinit THEN [t EXCEPT !.left = t.autosize]
                 ELSE [t EXCEPT !.left = t.singlesize, !.singlesize = 0]
    IN PIC_RemoveEvents([sized EXCEPT !.autoinit = autoinit, !.dma = dma, !.mode = "MASKED"],
                        "END_DMA_Event")

\* What a waiting transfer is.
LEMMA WaitingFacts ==
    ASSUME NEW t \in Card, NEW dma \in Dmas, NEW autoinit \in BOOLEAN
    PROVE  LET z == Waiting(t, dma, autoinit)
           IN  /\ z \in Card /\ z.mode = "MASKED" /\ z.dma = dma /\ z.autoinit = autoinit
               /\ z.chan = t.chan /\ z.channels = t.channels /\ z.autosize = t.autosize
               /\ Fewer(t, z)
               /\ IF Transferring(t) /\ t.autoinit /\ ~autoinit
                      THEN z.left = t.left /\ z.singlesize = t.singlesize
                  ELSE IF autoinit THEN z.left = t.autosize /\ z.singlesize = t.singlesize
                  ELSE z.left = t.singlesize /\ z.singlesize = 0
<1> DEFINE x == IF Transferring(t) /\ t.autoinit /\ ~autoinit THEN t
                ELSE IF autoinit THEN [t EXCEPT !.left = t.autosize]
                ELSE [t EXCEPT !.left = t.singlesize, !.singlesize = 0]
           y == [x EXCEPT !.autoinit = autoinit, !.dma = dma, !.mode = "MASKED"]
           z == PIC_RemoveEvents(y, "END_DMA_Event")
<1>1. Waiting(t, dma, autoinit) = z
    BY DEF Waiting
<1>2. t.autosize \in 0..(WordSize - 1) /\ t.singlesize \in 0..(WordSize - 1)
    BY Constants DEF Card
<1>3. x \in Card
    <2>1. [t EXCEPT !.left = t.autosize] \in Card
        BY <1>2 DEF Card
    <2>2. [t EXCEPT !.left = t.singlesize, !.singlesize = 0] \in Card
        BY <1>2 DEF Card
    <2> QED BY <2>1, <2>2
<1>4. /\ x.chan = t.chan /\ x.channels = t.channels /\ x.autosize = t.autosize
      /\ x.queue = t.queue
      /\ IF Transferring(t) /\ t.autoinit /\ ~autoinit
             THEN x.left = t.left /\ x.singlesize = t.singlesize
         ELSE IF autoinit THEN x.left = t.autosize /\ x.singlesize = t.singlesize
         ELSE x.left = t.singlesize /\ x.singlesize = 0
    BY DEF Card
<1> HIDE DEF x
<1>5. y \in Card
    BY <1>3 DEF Card, Modes
<1>6. /\ y.mode = "MASKED" /\ y.dma = dma /\ y.autoinit = autoinit
      /\ y.chan = x.chan /\ y.channels = x.channels /\ y.autosize = x.autosize
      /\ y.queue = x.queue /\ y.left = x.left /\ y.singlesize = x.singlesize
    BY <1>3 DEF Card
<1> HIDE DEF y
<1>7. z \in Card /\ Same(y, z) /\ z.mode = y.mode /\ Fewer(y, z)
    BY <1>5, RemoveFacts DEF Fewer
<1> HIDE DEF z
<1> QED BY <1>1, <1>4, <1>6, <1>7 DEF Same, Fewer

\* Nothing pending.
Lowered(t) == [t EXCEPT !.pending8 = FALSE, !.pending16 = FALSE]

\* DSP_DoDMATransfer fills up, lowers what is pending, and waits.
LEMMA TransferIs ==
    ASSUME NEW s, NEW dma, NEW autoinit, NEW w \in DSP_DoDMATransfer(s, dma, autoinit)
    PROVE  \E t \in FillUp(s) : w = Register_Callback(Waiting(Lowered(t), dma, autoinit))
    BY DEF DSP_DoDMATransfer, Waiting, Lowered

\* A transfer waits on a channel that has enough for it.
LEMMA ReadyKeeps ==
    ASSUME NEW n \in {0} \cup Sizes, NEW t, Good(t, 0), NEW z \in Card,
           z.mode = "MASKED", z.chan # 0, Bounded(z), Fewer(t, z), Supply(z), Stepping(z, n)
    PROVE  Good(Register_Callback(z), n)
<1>1. Wired(z) /\ Supplied(z)
    BY DEF Wired, Supplied
<1>2. Quiet(z)
    BY DEF Quiet, Good, Fewer, Queued
<1>3. Good(z, n)
    BY <1>1, <1>2 DEF Good
<1> QED BY <1>3, RegisterKeeps

\* DSP_ChangeMode.
LEMMA ChangeModeKeeps ==
    ASSUME NEW n \in {0} \cup Sizes, NEW s, Good(s, n), NEW mode \in {"NONE", "DAC"},
           NEW t \in DSP_ChangeMode(s, mode)
    PROVE  Good(t, n) /\ t.mode = mode
<1>1. PICK x \in (IF s.mode = mode THEN {s} ELSE FillUp(s)) : t = [x EXCEPT !.mode = mode]
    BY DEF DSP_ChangeMode
<1>2. Good(x, n)
    BY <1>1, FillUpKeeps
<1>3. Good(t, n)
    BY <1>1, <1>2, ModeKeeps
<1>4. x \in Card
    BY <1>2 DEF Good
<1> QED BY <1>1, <1>3, <1>4 DEF Card

\* DSP_Reset leaves nothing to move.
LEMMA ResetKeeps ==
    ASSUME NEW n \in {0} \cup Sizes, NEW s, Good(s, n), NEW w \in DSP_Reset(s)
    PROVE  Good(w, n)
<1> DEFINE Quieted(t) == PIC_RemoveEvents(PIC_RemoveEvents(t, "DSP_FinishReset"), "END_DMA_Event")
<1>1. PICK t \in DSP_ChangeMode(s, "NONE") :
          w = [Quieted(t) EXCEPT
                  !.left = 0, !.singlesize = 0, !.autosize = 0, !.autoinit = FALSE,
                  !.dma = "NONE", !.dac = FALSE, !.pending8 = FALSE, !.pending16 = FALSE]
    BY DEF DSP_Reset
<1>2. Good(t, n) /\ t.mode = "NONE" /\ t \in Card
    BY ChangeModeKeeps DEF Good
<1> DEFINE x == PIC_RemoveEvents(t, "DSP_FinishReset")
           y == PIC_RemoveEvents(x, "END_DMA_Event")
<1>3. x \in Card /\ Same(t, x) /\ x.mode = t.mode /\ Fewer(t, x)
    BY <1>2, RemoveFacts DEF Fewer
<1> HIDE DEF x
<1>4. y \in Card /\ Same(x, y) /\ y.mode = x.mode /\ Fewer(x, y)
    BY <1>3, RemoveFacts DEF Fewer
<1>5. w = [y EXCEPT
              !.left = 0, !.singlesize = 0, !.autosize = 0, !.autoinit = FALSE,
              !.dma = "NONE", !.dac = FALSE, !.pending8 = FALSE, !.pending16 = FALSE]
    BY <1>1 DEF x
<1> HIDE DEF y
<1>6. w \in Card
    <2>1. 0 \in 0..(WordSize - 1)
        BY Constants
    <2> QED BY <1>4, <1>5, <2>1 DEF Card, Dmas
<1>7. w.left = 0 /\ w.dma = "NONE" /\ w.mode = "NONE" /\ w.chan = t.chan /\ Fewer(t, w)
    BY <1>2, <1>3, <1>4, <1>5 DEF Card, Same, Fewer
<1>8. Wired(w) /\ Bounded(w) /\ Supplied(w) /\ Stepping(w, n)
    BY <1>2, <1>7 DEF Wired, Bounded, Supplied, Stepping, Good, Fewer, Queued
<1>9. Quiet(w)
    BY <1>2, <1>7 DEF Quiet, Good, Fewer, Queued
<1> QED BY <1>6, <1>8, <1>9 DEF Good

\* DSP_SetSpeaker.
LEMMA SpeakerKeeps ==
    ASSUME NEW n \in {0} \cup Sizes, NEW s, Good(s, n), NEW how \in BOOLEAN
    PROVE  Good(DSP_SetSpeaker(s, how), n)
<1> DEFINE t == [s EXCEPT !.speaker = how]
           x == PIC_RemoveEvents(t, "DMA_Silent_Event")
<1>1. t \in Card /\ Same(s, t) /\ t.mode = s.mode /\ Fewer(s, t)
    BY DEF Good, Card, Same, Fewer
<1>2. DSP_SetSpeaker(s, how) =
          IF s.speaker = how \/ type = "sb16" \/ ~how THEN t ELSE CheckDMAEnd(x)
    BY DEF DSP_SetSpeaker
<1> HIDE DEF t
<1>3. Good(t, n)
    BY <1>1, SameKeeps
<1>4. x \in Card /\ Same(t, x) /\ x.mode = t.mode /\ Fewer(t, x)
    BY <1>1, RemoveFacts DEF Fewer
<1> HIDE DEF x
<1>5. Good(x, n)
    BY <1>3, <1>4, SameKeeps
<1>6. type # "sb16" => Good(CheckDMAEnd(x), n)
    BY <1>5, CheckDMAEndKeeps
<1> QED BY <1>2, <1>3, <1>6
-----------------------------------------------------------------------------
(* The steps of the guest.                                                 *)

\* A count that is whole blocks, and not zero, is at least one.
LEMMA WholeBlocks ==
    ASSUME NEW n \in Nat \ {0}, NEW l \in Nat \ {0}, l % n = 0
    PROVE  n <= l
<1> SUFFICES ASSUME l < n PROVE FALSE
    OBVIOUS
<1>1. l = 0
    BY SmallMultiple
<1> QED BY <1>1

\* A command prepares a transfer: s is the card with the size and the channel set.
LEMMA StartKeeps ==
    ASSUME IInv, NEW link \in Links, NEW n \in Sizes, NEW autoinit \in BOOLEAN,
           NEW dma \in Dmas, Starts(link, n, autoinit),
           NEW s \in Card, s.chan = link, s.channels = sb.channels, s.left = sb.left,
           s.mode = sb.mode, s.autoinit = sb.autoinit, s.queue = sb.queue,
           s.singlesize = IF autoinit THEN sb.singlesize ELSE n,
           autoinit => s.autosize = n,
           NEW w \in DSP_DoDMATransfer(s, dma, autoinit)
    PROVE  Good(w, inStep') /\ inStep' \in {0} \cup Sizes
<1>1. PICK f \in FillUp(s) : w = Register_Callback(Waiting(Lowered(f), dma, autoinit))
    BY TransferIs
<1> DEFINE t == Lowered(f)
           z == Waiting(t, dma, autoinit)
           chan == s.channels[link]
<1>2. Good(sb, inStep) /\ inStep \in {0} \cup Sizes
    BY DEF IInv
<1>3. n \in Nat \ {0} /\ n <= CountMax + 1 /\ n < WordSize /\ link # 0
    BY Constants DEF Links
<1>4. chan \in Channel /\ Current(s) = chan
    BY DEF Card, Current
<1>5. Left(chan) \in Nat \ {0}
    BY <1>4, LeftIs
<1>6. Wired(s) /\ Bounded(s) /\ Quiet(s) /\ Stepping(s, 0)
    BY <1>2, <1>3 DEF Wired, Bounded, Quiet, Queued, Stepping, Good
<1>7. \/ /\ Transferring(sb) /\ sb.autoinit /\ ~autoinit /\ sb.chan = link
         /\ Current(sb).autoinit
      \/ Startable(sb) /\ Programmed(sb, link, n, autoinit)
    BY DEF Starts, TakesOver
<1>8. Supplied(s)
    <2> SUFFICES ASSUME s.mode = "DMA" PROVE Supply(s)
        BY <1>3 DEF Supplied
    <2>1. sb.chan = link /\ Current(sb).autoinit
        BY <1>7 DEF Startable
    <2> QED BY <2>1, <1>4 DEF Current, Supply
<1>9. Good(s, 0)
    BY <1>6, <1>8 DEF Good
<1>10. Good(f, 0) /\ Loops(s, f) /\ (s.mode # "DMA" => Same(s, f) /\ f.mode \in {s.mode, "NONE"})
    BY <1>9, FillUpKeeps
<1>11. f \in Card
    BY <1>10 DEF Good
<1>12. t \in Card /\ Same(f, t) /\ Fewer(f, t) /\ t.mode = f.mode
    BY <1>11 DEF Lowered, Card, Same, Fewer
<1> HIDE DEF t
<1>13. Good(t, 0)
    BY <1>10, <1>12, SameKeeps
<1>14. /\ z \in Card /\ z.mode = "MASKED" /\ z.dma = dma /\ z.autoinit = autoinit
       /\ z.chan = t.chan /\ z.channels = t.channels /\ z.autosize = t.autosize
       /\ Fewer(t, z)
       /\ IF Transferring(t) /\ t.autoinit /\ ~autoinit
              THEN z.left = t.left /\ z.singlesize = t.singlesize
          ELSE IF autoinit THEN z.left = t.autosize /\ z.singlesize = t.singlesize
          ELSE z.left = t.singlesize /\ z.singlesize = 0
    BY <1>12, WaitingFacts
<1>15. w = Register_Callback(z)
    BY <1>1 DEF t
<1> HIDE DEF z
<1>16. z.chan = link /\ z.chan # 0 /\ Current(z).autoinit = chan.autoinit
    BY <1>3, <1>4, <1>10, <1>12, <1>14 DEF Loops, Same, Current
<1>17. Bounded(z)
    <2>1. z.left = t.left \/ z.left \in {0} \cup Sizes
        BY <1>12, <1>14 DEF Card
    <2>2. \A m \in Sizes : m <= m
        BY Constants
    <2> QED BY <2>1, <2>2, <1>13 DEF Bounded, Good
<1>18. CASE /\ Transferring(sb) /\ sb.autoinit /\ ~autoinit /\ sb.chan = link
            /\ Current(sb).autoinit /\ inStep' = 0
    <2>1. Supply(z)
        BY <1>4, <1>16, <1>18 DEF Supply, Current
    <2>2. Stepping(z, 0)
        BY DEF Stepping
    <2> QED BY <2>1, <2>2, <1>13, <1>14, <1>15, <1>16, <1>17, <1>18, ReadyKeeps
<1>19. CASE /\ Startable(sb) /\ Programmed(sb, link, n, autoinit)
            /\ inStep' = IF autoinit /\ sb.singlesize > 0 THEN 0 ELSE n
    <2>1. s.mode # "DMA" /\ ~(Transferring(s) /\ s.autoinit)
        BY <1>19 DEF Startable, Transferring
    <2>2. Same(s, t) /\ ~(Transferring(t) /\ t.autoinit)
        BY <2>1, <1>10, <1>12 DEF Same, Transferring
    <2>3. z.left = n /\ z.singlesize = (IF autoinit THEN sb.singlesize ELSE 0)
          /\ (autoinit => z.autosize = n) /\ Current(z) = chan
        BY <2>2, <1>4, <1>14 DEF Same, Current
    <2>4. Left(chan) % n = 0 /\ (chan.basecnt + 1) % n = 0 /\ (autoinit => chan.autoinit)
        BY <1>19 DEF Programmed
    <2>5. n <= Left(chan)
        BY <1>3, <1>5, <2>4, WholeBlocks
    <2>6. Supply(z)
        <3>1. CASE autoinit
            BY <3>1, <2>3, <2>4 DEF Supply
        <3>2. CASE ~autoinit
            <4>1. z.left + z.singlesize = n /\ ~z.autoinit
                BY <3>2, <2>3, <1>3, <1>14
            <4> QED BY <4>1, <2>3, <2>5 DEF Supply
        <3> QED BY <3>1, <3>2
    <2>7. inStep' \in {0, n}
        BY <1>19
    <2>8. ASSUME inStep' = n PROVE Stepping(z, n)
        <3>1. z.singlesize = 0
            <4>1. CASE autoinit
                <5>1. sb.singlesize \in Nat /\ ~(sb.singlesize > 0)
                    BY <4>1, <2>8, <1>2, <1>3, <1>19, GoodFacts
                <5> QED BY <5>1, <2>3, <4>1
            <4>2. CASE ~autoinit
                BY <4>2, <2>3
            <4> QED BY <4>1, <4>2
        <3>2. (Left(chan) - n) % n = 0
            <4>1. n = n * 1 /\ n \in Int /\ 1 \in Int /\ Left(chan) \in Int
                BY <1>3, <1>5
            <4>2. n % n = 0
                BY <4>1, <1>3, Multiple
            <4> QED BY <4>1, <4>2, <2>4, <1>3, MultiplesAdd
        <3>3. n <= n
            BY <1>3
        <3> QED BY <3>1, <3>2, <3>3, <2>3, <2>4, <1>14 DEF Stepping
    <2>9. Stepping(z, inStep')
        <3>1. inStep' = 0 => Stepping(z, inStep')
            BY DEF Stepping
        <3> QED BY <3>1, <2>7, <2>8
    <2>10. inStep' \in {0} \cup Sizes
        BY <2>7
    <2> QED BY <2>6, <2>9, <2>10, <1>13, <1>14, <1>15, <1>16, <1>17, ReadyKeeps
<1>20. \/ /\ Transferring(sb) /\ sb.autoinit /\ ~autoinit /\ sb.chan = link
          /\ Current(sb).autoinit /\ inStep' = 0
       \/ /\ Startable(sb) /\ Programmed(sb, link, n, autoinit)
          /\ inStep' = IF autoinit /\ sb.singlesize > 0 THEN 0 ELSE n
    BY DEF Starts, TakesOver
<1> QED BY <1>18, <1>19, <1>20

\* What every step of the card is to show.
Keep == type' = type /\ inStep' \in {0} \cup Sizes /\ Good(sb', inStep')

\* Commands 14h and 1Ch.
LEMMA StartOldStep ==
    ASSUME IInv, NEW n \in Sizes, NEW autoinit \in BOOLEAN, StartOld(n, autoinit)
    PROVE  Keep
<1> DEFINE s == [sb EXCEPT !.singlesize = IF autoinit THEN @ ELSE n, !.chan = 8]
<1>1. sb \in Card
    BY DEF IInv, Good
<1>2. s \in Card
    BY <1>1 DEF Card, Links
<1>3. /\ s.chan = 8 /\ s.channels = sb.channels /\ s.left = sb.left /\ s.mode = sb.mode
      /\ s.autoinit = sb.autoinit /\ s.queue = sb.queue /\ s.autosize = sb.autosize
      /\ s.singlesize = IF autoinit THEN sb.singlesize ELSE n
    BY <1>1 DEF Card
<1>4. PICK w \in DSP_DoDMATransfer(s, "8", autoinit) : sb' = w /\ type' = type
    BY DEF StartOld, DSP_PrepareDMA_Old, Becomes
<1>5. Starts(8, n, autoinit) /\ (autoinit => s.autosize = n) /\ 8 \in Links /\ "8" \in Dmas
    BY <1>3 DEF StartOld, Links, Dmas
<1> HIDE DEF s
<1>6. Good(w, inStep') /\ inStep' \in {0} \cup Sizes
    BY <1>2, <1>3, <1>5, StartKeeps
<1> QED BY <1>4, <1>6 DEF Keep

\* Commands B0h to CFh.
LEMMA StartNewStep ==
    ASSUME IInv, NEW n \in Sizes, NEW autoinit \in BOOLEAN, NEW dma \in {"8", "16"},
           StartNew(dma, n, autoinit)
    PROVE  Keep
<1> DEFINE s == [sb EXCEPT !.singlesize = IF autoinit THEN @ ELSE n,
                           !.autosize = IF autoinit THEN n ELSE @,
                           !.chan = Link(dma)]
<1>1. sb \in Card
    BY DEF IInv, Good
<1>2. Link(dma) \in Links /\ dma \in Dmas
    BY DEF Link, Links, Dmas
<1>3. s \in Card
    BY <1>1, <1>2 DEF Card
<1>4. /\ s.chan = Link(dma) /\ s.channels = sb.channels /\ s.left = sb.left
      /\ s.mode = sb.mode /\ s.autoinit = sb.autoinit /\ s.queue = sb.queue
      /\ s.singlesize = (IF autoinit THEN sb.singlesize ELSE n)
      /\ autoinit => s.autosize = n
    BY <1>1 DEF Card
<1>5. PICK w \in DSP_DoDMATransfer(s, dma, autoinit) : sb' = w /\ type' = type
    BY DEF StartNew, DSP_PrepareDMA_New, Becomes
<1>6. Starts(Link(dma), n, autoinit)
    BY DEF StartNew
<1> HIDE DEF s
<1>7. Good(w, inStep') /\ inStep' \in {0} \cup Sizes
    BY <1>2, <1>3, <1>4, <1>6, StartKeeps
<1> QED BY <1>5, <1>7 DEF Keep
\* A step that only changes the card.
LEMMA KeepsKeeps ==
    ASSUME IInv, Keeps, NEW s, Becomes(s), Good(s, inStep)
    PROVE  Keep
    BY DEF IInv, Keeps, Becomes, Keep

\* The guest programs a channel that no transfer moves.
LEMMA WriteChannelStep ==
    ASSUME IInv, NEW link \in Links, NEW n \in Sizes, NEW autoinit \in BOOLEAN,
           WriteChannel(link, n, autoinit)
    PROVE  Keep
<1> DEFINE chan == WriteCount(WriteMode(sb.channels[link], autoinit), n - 1)
           s == [sb EXCEPT !.channels[link] = chan]
<1>1. sb \in Card /\ Good(sb, inStep) /\ inStep \in {0} \cup Sizes /\ sb.channels[link] \in Channel
      /\ (sb.chan # 0 => sb.chan \in Links)
    BY GoodFacts DEF IInv, Good, Card
<1>2. n - 1 \in Counts
    BY Constants DEF Counts
<1>3. chan \in Channel
    BY <1>1, <1>2 DEF WriteCount, WriteMode, Channel
<1>4. sb' = s /\ type' = type /\ inStep' = (IF link = sb.chan THEN 0 ELSE inStep) /\ Free(sb, link)
    BY DEF WriteChannel, Becomes
<1> HIDE DEF chan
<1>5. s.channels = [sb.channels EXCEPT ![link] = chan] /\ s.channels \in [Links -> Channel]
    BY <1>1, <1>3 DEF Card
<1>6. s \in Card
    BY <1>1, <1>5 DEF Card
<1>7. /\ s.mode = sb.mode /\ s.dma = sb.dma /\ s.chan = sb.chan /\ s.left = sb.left
      /\ s.singlesize = sb.singlesize /\ s.autosize = sb.autosize
      /\ s.autoinit = sb.autoinit /\ s.queue = sb.queue
    BY <1>1 DEF Card
<1> HIDE DEF s
<1>8. Wired(s) /\ Bounded(s) /\ Quiet(s)
    BY <1>1, <1>7 DEF Wired, Bounded, Quiet, Queued, Good
<1>9. CASE link = sb.chan
    <2>1. sb.mode # "DMA" /\ inStep' = 0
        BY <1>4, <1>9 DEF Free
    <2>2. Supplied(s) /\ Stepping(s, 0)
        BY <2>1, <1>7 DEF Supplied, Stepping
    <2> QED BY <2>1, <2>2, <1>4, <1>6, <1>8 DEF Good, Keep
<1>10. CASE link # sb.chan
    <2>1. sb.chan # 0 => Current(s) = Current(sb)
        BY <1>1, <1>5, <1>7, <1>10 DEF Current, Card
    <2>2. Supplied(s)
        BY <2>1, <1>1, <1>7 DEF Supplied, Supply, Good
    <2>3. Stepping(s, inStep)
        BY <2>1, <1>1, <1>7 DEF Stepping, Wired, Good
    <2> QED BY <2>2, <2>3, <1>1, <1>4, <1>6, <1>8, <1>10 DEF Good, Keep
<1> QED BY <1>9, <1>10

\* The guest masks or unmasks a channel.
LEMMA WriteMaskStep ==
    ASSUME IInv, NEW link \in Links, NEW mask \in BOOLEAN, NEW late \in 0..DmaMin,
           WriteMask(link, mask, late)
    PROVE  Keep
<1>1. Good(sb, inStep) /\ inStep \in {0} \cup Sizes /\ late \in Nat
    BY DEF IInv
<1>2. Good(SetMask(sb, link, mask, late), inStep)
    BY <1>1, SetMaskKeeps DEF WriteMask
<1> QED BY <1>2, KeepsKeeps DEF WriteMask

\* Command 48h: a running transfer may end in a block of another size.
LEMMA SetBlockSizeStep ==
    ASSUME IInv, NEW n \in Sizes, SetBlockSize(n)
    PROVE  Keep
<1> DEFINE s == [sb EXCEPT !.autosize = n]
<1>1. sb \in Card /\ Good(sb, inStep) /\ inStep \in {0} \cup Sizes
    BY DEF IInv, Good
<1>2. sb' = s /\ type' = type /\ inStep' = (IF n = sb.autosize THEN inStep ELSE 0)
    BY DEF SetBlockSize, Becomes
<1>3. s \in Card /\ s.autosize = n
    BY <1>1 DEF Card
<1>4. /\ s.mode = sb.mode /\ s.dma = sb.dma /\ s.chan = sb.chan /\ s.left = sb.left
      /\ s.singlesize = sb.singlesize /\ s.channels = sb.channels
      /\ s.autoinit = sb.autoinit /\ s.queue = sb.queue
    BY <1>1 DEF Card
<1> HIDE DEF s
<1>5. Current(s) = Current(sb)
    BY <1>4 DEF Current
<1>6. Wired(s) /\ Bounded(s) /\ Quiet(s)
    BY <1>1, <1>4 DEF Wired, Bounded, Quiet, Queued, Good
<1>7. Supplied(s)
    BY <1>1, <1>4, <1>5 DEF Supplied, Supply, Good
<1>8. Stepping(s, inStep')
    BY <1>1, <1>2, <1>3, <1>4, <1>5 DEF Stepping, Good
<1> QED BY <1>1, <1>2, <1>3, <1>6, <1>7, <1>8 DEF Good, Keep

\* Commands D0h and D5h remove the end event.
LEMMA HaltStep ==
    ASSUME IInv, Halt
    PROVE  Keep
<1> DEFINE t == [sb EXCEPT !.mode = "PAUSE"]
           s == PIC_RemoveEvents(t, "END_DMA_Event")
<1>1. sb \in Card /\ Good(sb, inStep)
    BY DEF IInv, Good
<1>2. t \in Card /\ Same(sb, t) /\ t.mode = "PAUSE" /\ t.queue = sb.queue
    BY <1>1 DEF Card, Modes, Same
<1> HIDE DEF t
<1>3. s \in Card /\ Same(t, s) /\ s.mode = "PAUSE"
      /\ BagToSet(s.queue) = {e \in BagToSet(t.queue) : e[1] # "END_DMA_Event"}
    BY <1>2, RemoveFacts
<1> HIDE DEF s
<1>4. Same(sb, s) /\ Fewer(sb, s) /\ ~Queued(s, "END_DMA_Event")
    BY <1>2, <1>3 DEF Same, Fewer, Queued
<1>5. Current(s) = Current(sb)
    BY <1>4 DEF Current, Same
<1>6. Wired(s) /\ Bounded(s) /\ Quiet(s)
    BY <1>1, <1>4 DEF Wired, Bounded, Quiet, Queued, Good, Same, Fewer
<1>7. Supplied(s) /\ Stepping(s, inStep)
    BY <1>1, <1>3, <1>4, <1>5 DEF Supplied, Stepping, Good, Same
<1>8. Good(s, inStep)
    BY <1>3, <1>6, <1>7 DEF Good
<1> QED BY <1>8, KeepsKeeps DEF Halt, s, t

\* Commands D4h and D6h.
LEMMA ContinueStep ==
    ASSUME IInv, Continue
    PROVE  Keep
<1> DEFINE t == [sb EXCEPT !.mode = "MASKED"]
           s == IF sb.mode # "PAUSE" THEN sb
                ELSE IF sb.chan = 0 THEN t ELSE Register_Callback(t)
<1>1. sb \in Card /\ Good(sb, inStep) /\ inStep \in {0} \cup Sizes
    BY DEF IInv, Good
<1>2. Becomes(s) /\ Keeps /\ (sb.chan # 0 => Covers(sb, sb.chan))
    BY DEF Continue
<1>3. t.chan = sb.chan /\ t.channels = sb.channels /\ t.left = sb.left
      /\ t.singlesize = sb.singlesize /\ t.autoinit = sb.autoinit
    BY <1>1 DEF Card
<1>4. Good(t, inStep)
    BY <1>1, ModeKeeps
<1> HIDE DEF t
<1>5. sb.chan # 0 => Supply(t)
    BY <1>2, <1>3 DEF Covers, Supply, Current
<1>6. sb.chan # 0 => Good(Register_Callback(t), inStep)
    BY <1>1, <1>3, <1>4, <1>5, RegisterKeeps
<1>7. Good(s, inStep)
    BY <1>1, <1>4, <1>6
<1> HIDE DEF s
<1> QED BY <1>2, <1>7, KeepsKeeps

\* Commands DAh and D9h.
LEMMA ExitAutoinitStep ==
    ASSUME IInv, ExitAutoinit
    PROVE  Keep
<1> DEFINE s == [sb EXCEPT !.autoinit = FALSE]
<1>1. sb \in Card /\ Good(sb, inStep) /\ inStep \in {0} \cup Sizes
    BY DEF IInv, Good
<1>2. s \in Card /\ s.autoinit = FALSE
    BY <1>1 DEF Card
<1>3. /\ s.mode = sb.mode /\ s.dma = sb.dma /\ s.chan = sb.chan /\ s.left = sb.left
      /\ s.singlesize = sb.singlesize /\ s.channels = sb.channels /\ s.queue = sb.queue
    BY <1>1 DEF Card
<1> HIDE DEF s
<1>4. Current(s) = Current(sb)
    BY <1>3 DEF Current
<1>5. Wired(s) /\ Bounded(s) /\ Quiet(s)
    BY <1>1, <1>3 DEF Wired, Bounded, Quiet, Queued, Good
<1>6. Supplied(s)
    BY <1>1, <1>2, <1>3, <1>4 DEF Supplied, Supply, Good
<1>7. Stepping(s, inStep)
    BY <1>1, <1>2, <1>3, <1>4 DEF Stepping, Good
<1>8. Good(s, inStep)
    BY <1>2, <1>5, <1>6, <1>7 DEF Good
<1> QED BY <1>8, KeepsKeeps DEF ExitAutoinit, s

\* Commands D1h and D3h.
LEMMA SpeakerStep ==
    ASSUME IInv, NEW how \in BOOLEAN, Speaker(how)
    PROVE  Keep
<1>1. Good(sb, inStep) /\ inStep \in {0} \cup Sizes
    BY DEF IInv
<1>2. Good(DSP_SetSpeaker(sb, how), inStep)
    BY <1>1, SpeakerKeeps
<1> QED BY <1>1, <1>2 DEF Speaker, Becomes, Keep

\* Command 10h.
LEMMA DirectDACStep ==
    ASSUME IInv, DirectDAC
    PROVE  Keep
<1>1. Good(sb, inStep) /\ inStep \in {0} \cup Sizes
    BY DEF IInv
<1>2. PICK t \in DSP_ChangeMode(sb, "DAC") : Becomes([t EXCEPT !.dac = TRUE]) /\ Keeps
    BY DEF DirectDAC
<1> DEFINE s == [t EXCEPT !.dac = TRUE]
<1>3. Good(t, inStep)
    BY <1>1, ChangeModeKeeps
<1>4. s \in Card /\ Same(t, s) /\ Fewer(t, s) /\ s.mode = t.mode
    BY <1>3 DEF Good, Card, Same, Fewer
<1> HIDE DEF s
<1>5. Good(s, inStep)
    BY <1>3, <1>4, SameKeeps
<1> QED BY <1>2, <1>5, KeepsKeeps DEF s
\* The events of the card that move nothing.
LEMMA NoticeKeeps ==
    ASSUME NEW n, NEW s, Good(s, n), NEW e \in {RaiseIRQEvent, FinishReset}
    PROVE  Good(PIC_AddEvent(s, e), n)
<1> DEFINE t == PIC_AddEvent(s, e)
<1>1. s \in Card /\ e \in Events
    BY DEF Good, Events
<1>2. t \in Card /\ Same(s, t) /\ t.mode = s.mode
      /\ BagToSet(t.queue) = BagToSet(s.queue) \cup {e}
    BY <1>1, AddFacts
<1> HIDE DEF t
<1>3. e[1] # "DMA_Silent_Event" /\ e[1] # "END_DMA_Event"
    BY DEF RaiseIRQEvent, FinishReset
<1>4. /\ Queued(t, "DMA_Silent_Event") => Queued(s, "DMA_Silent_Event")
      /\ Queued(t, "END_DMA_Event") => Queued(s, "END_DMA_Event")
    BY <1>2, <1>3 DEF Queued
<1>5. Current(t) = Current(s)
    BY <1>2 DEF Current, Same
<1>6. Wired(t) /\ Bounded(t) /\ Quiet(t)
    BY <1>2, <1>4 DEF Wired, Bounded, Quiet, Good, Same
<1>7. Supplied(t) /\ Stepping(t, n)
    BY <1>2, <1>5 DEF Supplied, Supply, Stepping, Good, Same
<1> QED BY <1>2, <1>6, <1>7 DEF Good, t

\* An interrupt moves nothing.
LEMMA RaiseKeeps ==
    ASSUME NEW n, NEW s, Good(s, n), NEW bits
    PROVE  Good(SB_RaiseIRQ(s, bits), n)
<1> DEFINE t == SB_RaiseIRQ(s, bits)
<1>1. s \in Card
    BY DEF Good
<1>2. t \in Card /\ Same(s, t) /\ t.mode = s.mode /\ t.queue = s.queue
    BY <1>1, RaiseFacts
<1> HIDE DEF t
<1>3. Good(t, n)
    BY <1>2, SameKeeps DEF Fewer
<1> QED BY <1>3 DEF t

\* A change of what no transfer depends on.
LEMMA FlagKeeps ==
    ASSUME NEW n, NEW s, Good(s, n), NEW state \in States
    PROVE  /\ Good([s EXCEPT !.state = state], n)
           /\ Good([s EXCEPT !.pending8 = FALSE], n)
           /\ Good([s EXCEPT !.pending16 = FALSE], n)
<1>1. s \in Card
    BY DEF Good
<1>2. ASSUME NEW t, t \in Card, Same(s, t), t.queue = s.queue, t.mode = s.mode
      PROVE  Good(t, n)
    BY <1>2, SameKeeps DEF Fewer
<1>3. LET t == [s EXCEPT !.state = state]
      IN  t \in Card /\ Same(s, t) /\ t.queue = s.queue /\ t.mode = s.mode
    BY <1>1 DEF Card, Same
<1>4. LET t == [s EXCEPT !.pending8 = FALSE]
      IN  t \in Card /\ Same(s, t) /\ t.queue = s.queue /\ t.mode = s.mode
    BY <1>1 DEF Card, Same
<1>5. LET t == [s EXCEPT !.pending16 = FALSE]
      IN  t \in Card /\ Same(s, t) /\ t.queue = s.queue /\ t.mode = s.mode
    BY <1>1 DEF Card, Same
<1> QED BY <1>2, <1>3, <1>4, <1>5

\* The requests for interrupts and their acknowledgement.
LEMMA SignalStep ==
    ASSUME IInv, RequestIRQ \/ TriggerIRQ16 \/ ReadStatus \/ Ack16
    PROVE  Keep
<1>1. Good(sb, inStep)
    BY DEF IInv
<1>2. CASE RequestIRQ
    <2>1. Good(PIC_AddEvent(sb, RaiseIRQEvent), inStep)
        BY <1>1, NoticeKeeps
    <2> QED BY <2>1, <1>2, KeepsKeeps DEF RequestIRQ
<1>3. CASE TriggerIRQ16
    <2>1. Good(SB_RaiseIRQ(sb, 16), inStep)
        BY <1>1, RaiseKeeps
    <2> QED BY <2>1, <1>3, KeepsKeeps DEF TriggerIRQ16
<1>4. CASE ReadStatus
    <2>1. Good([sb EXCEPT !.pending8 = FALSE], inStep)
        BY <1>1, FlagKeeps DEF States
    <2> QED BY <2>1, <1>4, KeepsKeeps DEF ReadStatus
<1>5. CASE Ack16
    <2>1. Good([sb EXCEPT !.pending16 = FALSE], inStep)
        BY <1>1, FlagKeeps DEF States
    <2> QED BY <2>1, <1>5, KeepsKeeps DEF Ack16
<1> QED BY <1>2, <1>3, <1>4, <1>5

\* The reset port is written 1.
LEMMA ResetOnStep ==
    ASSUME IInv, ResetOn
    PROVE  Keep
<1>1. Good(sb, inStep) /\ inStep \in {0} \cup Sizes
    BY DEF IInv
<1>2. CASE Becomes(sb)
    BY <1>1, <1>2, KeepsKeeps DEF ResetOn
<1>3. CASE \E s \in DSP_Reset(sb) : Becomes([s EXCEPT !.state = "RESET"])
    <2>1. PICK s \in DSP_Reset(sb) : Becomes([s EXCEPT !.state = "RESET"])
        BY <1>3
    <2>2. Good(s, inStep)
        BY <1>1, ResetKeeps
    <2>3. Good([s EXCEPT !.state = "RESET"], inStep)
        BY <2>2, FlagKeeps DEF States
    <2> QED BY <2>1, <2>3, KeepsKeeps DEF ResetOn
<1> QED BY <1>2, <1>3 DEF ResetOn

\* The reset port is written 0.
LEMMA ResetOffStep ==
    ASSUME IInv, ResetOff
    PROVE  Keep
<1> DEFINE t == [sb EXCEPT !.state = "RESET_WAIT"]
           x == PIC_RemoveEvents(t, "DSP_FinishReset")
<1>1. Good(sb, inStep)
    BY DEF IInv
<1>2. Good(t, inStep)
    BY <1>1, FlagKeeps DEF States
<1> HIDE DEF t
<1>3. x \in Card /\ Same(t, x) /\ x.mode = t.mode /\ Fewer(t, x)
    BY <1>2, RemoveFacts DEF Good, Fewer
<1> HIDE DEF x
<1>4. Good(x, inStep)
    BY <1>2, <1>3, SameKeeps
<1>5. Good(PIC_AddEvent(x, FinishReset), inStep)
    BY <1>4, NoticeKeeps
<1> QED BY <1>5, KeepsKeeps DEF ResetOff, x, t

\* All the steps of the guest.
LEMMA GuestKeeps ==
    ASSUME IInv, GuestStep
    PROVE  Keep
    BY WriteChannelStep, WriteMaskStep, StartOldStep, StartNewStep, SetBlockSizeStep,
       SpeakerStep, HaltStep, ContinueStep, ExitAutoinitStep, DirectDACStep, SignalStep,
       ResetOnStep, ResetOffStep
    DEF GuestStep

-----------------------------------------------------------------------------
(* The mixer and the events.                                               *)

\* An event that fires leaves the card as it was.
LEMMA FiredKeeps ==
    ASSUME IInv, NEW name, NEW f \in Fired(name)
    PROVE  /\ Good(f.rest, inStep) /\ Same(sb, f.rest) /\ f.rest.mode = sb.mode
           /\ f.event \in Events /\ f.event[1] = name /\ Queued(sb, name)
<1>1. Good(sb, inStep) /\ sb \in Card
    BY DEF IInv, Good
<1>2. /\ f.rest \in Card /\ Same(sb, f.rest) /\ f.rest.mode = sb.mode /\ Fewer(sb, f.rest)
      /\ f.event \in BagToSet(sb.queue) /\ f.event[1] = name /\ f.event \in Events
    BY <1>1, FiredFacts
<1>3. Good(f.rest, inStep)
    BY <1>1, <1>2, SameKeeps
<1>4. Queued(sb, name)
    BY <1>2 DEF Queued
<1> QED BY <1>2, <1>3, <1>4

\* The events that end or play a block carry an amount of at most DmaMin.
LEMMA EventIs ==
    ASSUME NEW e \in Events, e[1] \in {"END_DMA_Event", "DMA_Silent_Event"}
    PROVE  e[2] \in 1..DmaMin
    BY DEF Events, End, Silent, RaiseIRQEvent, FinishReset

\* The mixer pulls.
LEMMA PullStep ==
    ASSUME IInv, NEW len \in Pulls, Pull(len)
    PROVE  Keep
<1>1. Good(sb, inStep) /\ inStep \in {0} \cup Sizes
    BY DEF IInv
<1>2. Good(SBLASTER_CallBack(sb, len), inStep)
    BY <1>1, CallBackKeeps
<1> QED BY <1>2, KeepsKeeps DEF Pull

\* An end event, which may be stale.
LEMMA EndStep ==
    ASSUME IInv, EndEvent
    PROVE  Keep
<1>1. PICK f \in Fired("END_DMA_Event") : Becomes(GenerateDMASound(f.rest, f.event[2]))
    BY DEF EndEvent
<1>2. Good(f.rest, inStep) /\ f.event \in Events /\ f.event[1] = "END_DMA_Event"
    BY FiredKeeps
<1>3. f.event[2] \in Nat /\ f.event[2] <= DmaMin
    BY <1>2, EventIs, Constants
<1>4. inStep \in {0} \cup Sizes
    BY DEF IInv
<1>5. Good(GenerateDMASound(f.rest, f.event[2]), inStep)
    BY <1>2, <1>3, <1>4, GenerateKeeps
<1> QED BY <1>1, <1>5, KeepsKeeps DEF EndEvent

\* A silent event, which may be stale.
LEMMA SilentStep ==
    ASSUME IInv, NEW late \in 0..DmaMin, SilentEvent(late)
    PROVE  Keep
<1>1. PICK f \in Fired("DMA_Silent_Event") : Becomes(DMA_Silent_Event(f.rest, f.event[2], late))
    BY DEF SilentEvent
<1>2. /\ Good(f.rest, inStep) /\ Same(sb, f.rest) /\ Queued(sb, "DMA_Silent_Event")
      /\ f.event \in Events /\ f.event[1] = "DMA_Silent_Event"
    BY FiredKeeps
<1>3. f.event[2] \in 1..DmaMin /\ late \in Nat
    BY <1>2, EventIs
<1>4. f.rest.chan # 0 /\ type # "sb16"
    BY <1>2 DEF IInv, Good, Wired, Quiet, Same
<1>5. inStep \in {0} \cup Sizes
    BY DEF IInv
<1>6. Good(DMA_Silent_Event(f.rest, f.event[2], late), inStep)
    BY <1>2, <1>3, <1>4, <1>5, SilentKeeps
<1> QED BY <1>1, <1>6, KeepsKeeps DEF SilentEvent

\* The events that move nothing.
LEMMA OtherEventsStep ==
    ASSUME IInv, IRQEvent \/ ResetEvent
    PROVE  Keep
<1>1. CASE IRQEvent
    <2>1. PICK f \in Fired("DSP_RaiseIRQEvent") : Becomes(SB_RaiseIRQ(f.rest, 8))
        BY <1>1 DEF IRQEvent
    <2>2. Good(SB_RaiseIRQ(f.rest, 8), inStep)
        BY FiredKeeps, RaiseKeeps
    <2> QED BY <1>1, <2>1, <2>2, KeepsKeeps DEF IRQEvent
<1>2. CASE ResetEvent
    <2>1. PICK f \in Fired("DSP_FinishReset") : Becomes([f.rest EXCEPT !.state = "NORMAL"])
        BY <1>2 DEF ResetEvent
    <2>2. Good([f.rest EXCEPT !.state = "NORMAL"], inStep)
        BY FiredKeeps, FlagKeeps DEF States
    <2> QED BY <1>2, <2>1, <2>2, KeepsKeeps DEF ResetEvent
<1> QED BY <1>1, <1>2
-----------------------------------------------------------------------------
(* The theorems.                                                           *)

\* A new card is good.
LEMMA Initially == Init => IInv
<1> SUFFICES ASSUME Init PROVE IInv
    OBVIOUS
<1>1. sb = NewCard /\ inStep = 0 /\ calls = 0 /\ type \in Types
    BY DEF Init
<1>2. sb.queue = EmptyBag /\ sb.queue \in Queue /\ BagToSet(sb.queue) = {}
    <2>1. sb.queue = EmptyBag
        BY <1>1 DEF NewCard
    <2>2. EmptyBag \in [{} -> Nat \ {0}] /\ {} \in SUBSET Events
        BY DEF EmptyBag, SetToBag
    <2>3. EmptyBag \in Queue
        BY <2>2 DEF Queue
    <2> QED BY <2>1, <2>2, <2>3 DEF BagToSet
<1>3. NewChannel \in Channel
    BY Constants DEF NewChannel, Channel, Counts
<1>4. sb \in Card
    <2>1. 0 \in 0..(WordSize - 1)
        BY Constants
    <2> QED BY <1>1, <1>2, <1>3, <2>1 DEF NewCard, Card, Modes, Dmas, Links, States
<1>5. sb.dma = "NONE" /\ sb.left = 0 /\ sb.mode = "NONE"
    BY <1>1 DEF NewCard
<1>6. Wired(sb) /\ Bounded(sb) /\ Quiet(sb) /\ Supplied(sb) /\ Stepping(sb, inStep)
    BY <1>2, <1>5 DEF Wired, Bounded, Quiet, Supplied, Stepping, Queued
<1>7. 0 \in Nat
    OBVIOUS
<1> QED BY <1>1, <1>4, <1>6, <1>7 DEF IInv, Good

\* Only the guest counts its calls.
LEMMA CallsStep ==
    ASSUME calls \in Nat, Next
    PROVE  calls' \in Nat /\ (calls' = calls \/ (GuestStep /\ calls' = calls + 1))
<1>1. CASE GuestStep
    <2>1. calls' = calls + 1
        BY <1>1 DEF GuestStep, WriteChannel, WriteMask, StartOld, StartNew, Starts,
           SetBlockSize, Speaker, Halt, Continue, ExitAutoinit, DirectDAC, RequestIRQ,
           TriggerIRQ16, ResetOn, ResetOff, ReadStatus, Ack16, Guest
    <2> QED BY <2>1, <1>1
<1>2. CASE Mix \/ EndEvent \/ Silence \/ IRQEvent \/ ResetEvent
    BY <1>2 DEF Mix, Pull, EndEvent, Silence, SilentEvent, IRQEvent, ResetEvent
<1> QED BY <1>1, <1>2 DEF Next

\* A card of the same type that is good is good in the next state.
LEMMA GoodPrime ==
    ASSUME type' = type, Good(sb', inStep')
    PROVE  Good(sb, inStep)'
    BY DEF Good, Quiet

\* Every step keeps the invariant.
LEMMA Inductive == IInv /\ [Next]_vars => IInv'
<1> SUFFICES ASSUME IInv, [Next]_vars PROVE IInv'
    OBVIOUS
<1>1. CASE UNCHANGED vars
    BY <1>1 DEF vars, IInv, Good, Quiet
<1>2. CASE Next
    <2>1. Keep
        BY <1>2, GuestKeeps, PullStep, EndStep, SilentStep, OtherEventsStep
        DEF Next, Mix, Silence
    <2>2. calls' \in Nat
        BY <1>2, CallsStep DEF IInv
    <2> QED BY <2>1, <2>2, GoodPrime DEF Keep, IInv
<1> QED BY <1>1, <1>2

\* The inductive invariant holds in every state, whatever the sizes, the amounts
\* the mixer pulls, and the number of calls.
THEOREM Invariant == Spec => []IInv
<1>1. Init => IInv
    BY Initially
<1>2. IInv /\ [Next]_vars => IInv'
    BY Inductive
<1> QED BY <1>1, <1>2, PTL DEF Spec

\* The card, its channels and its queued events stay within their types: no count
\* of the transfer or of a channel underflows or overflows.
THEOREM Typed == Spec => []TypeOK
<1>1. IInv => TypeOK
    <2> SUFFICES ASSUME IInv PROVE TypeOK
        OBVIOUS
    <2>1. sb \in Card /\ inStep \in {0} \cup Sizes /\ (sb.chan = 0 => sb.dma = "NONE")
        BY DEF IInv, Good, Wired
    <2>2. IsABag(sb.queue)
        <3>1. PICK S \in SUBSET Events : sb.queue \in [S -> Nat \ {0}]
            BY <2>1 DEF Card, Queue
        <3>2. Nat \ {0} = {n \in Nat : n > 0}
            OBVIOUS
        <3> QED BY <3>1, <3>2 DEF IsABag
    <2> QED BY <2>1, <2>2 DEF TypeOK, Card, States
<1> QED BY <1>1, Invariant, PTL

\* What is left of a block never exceeds the largest block asked for (sb.dma.left
\* of GenerateDMASound and DMA_Silent_Event is not taken below zero).
THEOREM LeftCountsDown == Spec => []LeftInCycle
<1>1. IInv => LeftInCycle
    BY DEF IInv, Good, Bounded, LeftInCycle
<1> QED BY <1>1, Invariant, PTL

\* A transfer started on a channel of as many blocks stays in step with it.
THEOREM StaysInStep == Spec => []InStep
<1>1. IInv => InStep
    BY DEF IInv, Good, Stepping, InStep
<1> QED BY <1>1, Invariant, PTL

\* A halted Sound Blaster 16 does not move unless the guest acts.
THEOREM PauseIsQuiet == Spec => PauseHolds
<1>1. ASSUME IInv, Next, type = "sb16", sb.mode = "PAUSE", calls' = calls
      PROVE  sb'.left = sb.left
    <2>1. ~GuestStep
        <3>1. calls \in Nat
            BY <1>1 DEF IInv
        <3>2. calls' # calls + 1
            BY <1>1, <3>1
        <3>3. GuestStep => calls' = calls + 1
            BY DEF GuestStep, WriteChannel, WriteMask, StartOld, StartNew, Starts,
               SetBlockSize, Speaker, Halt, Continue, ExitAutoinit, DirectDAC, RequestIRQ,
               TriggerIRQ16, ResetOn, ResetOff, ReadStatus, Ack16, Guest
        <3> QED BY <3>2, <3>3
    <2>2. ~Queued(sb, "END_DMA_Event") /\ ~Queued(sb, "DMA_Silent_Event")
        BY <1>1 DEF IInv, Good, Quiet
    <2>3. CASE Mix
        BY <1>1, <2>3 DEF Mix, Pull, Becomes, SBLASTER_CallBack
    <2>4. CASE EndEvent
        BY <1>1, <2>2, <2>4, FiredKeeps DEF EndEvent
    <2>5. CASE Silence
        BY <1>1, <2>2, <2>5, FiredKeeps DEF Silence, SilentEvent
    <2>6. CASE IRQEvent
        <3>1. PICK f \in Fired("DSP_RaiseIRQEvent") : sb' = SB_RaiseIRQ(f.rest, 8)
            BY <2>6 DEF IRQEvent, Becomes
        <3>2. Same(sb, f.rest) /\ f.rest \in Card
            BY <1>1, FiredKeeps DEF Good
        <3>3. Same(f.rest, SB_RaiseIRQ(f.rest, 8))
            BY <3>2, RaiseFacts
        <3> QED BY <3>1, <3>2, <3>3 DEF Same
    <2>7. CASE ResetEvent
        <3>1. PICK f \in Fired("DSP_FinishReset") : sb' = [f.rest EXCEPT !.state = "NORMAL"]
            BY <2>7 DEF ResetEvent, Becomes
        <3>2. Same(sb, f.rest) /\ f.rest \in Card
            BY <1>1, FiredKeeps DEF Good
        <3> QED BY <3>1, <3>2 DEF Same, Card
    <2> QED BY <1>1, <2>1, <2>3, <2>4, <2>5, <2>6, <2>7 DEF Next
<1>2. IInv /\ [Next]_vars =>
          [type = "sb16" /\ sb.mode = "PAUSE" /\ calls' = calls => sb'.left = sb.left]_vars
    BY <1>1 DEF vars
<1> QED BY <1>2, Invariant, PTL DEF Spec, PauseHolds
=============================================================================
