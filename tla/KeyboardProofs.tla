--------------------------- MODULE KeyboardProofs ---------------------------
(***************************************************************************)
(* Theorems about Keyboard, for a ring of any size, any keys, any delays   *)
(* and rates of repeat, any commands, and an event queue that may be full. *)
(*                                                                         *)
(* One inductive invariant gives the invariants of Keyboard.  It adds to   *)
(* them that a queued transfer is always announced by keyb.scheduled, and  *)
(* that it never meets a byte the guest has not read unless command D0h    *)
(* put that byte there.  The lemmas about each operation also say what it  *)
(* does to the bytes that wait, which gives their order.                   *)
(***************************************************************************)
EXTENDS Keyboard, TLAPS

\* A ring that is not empty is waiting for its transfer or for the guest.
Fed(k) == k.used > 0 => k.scheduled \/ k.p60changed

\* Of a byte the guest has not read, only command D0h's may be followed by a
\* transfer that does not wait for the guest.
Outport(byte) == \E b \in BOOLEAN : byte = Code("outport", b)
Unread(k) == k.p60changed /\ k.scheduled => Outport(k.p60data)

\* With n transfers queued, and d whether one was ever lost.
Queued(k, n, d) ==
    /\ n \in 0..1 /\ d \in BOOLEAN
    /\ n > 0 => k.scheduled
    /\ ~d => (k.scheduled => n > 0)

IInv ==
    /\ keyb \in Controller /\ Fed(keyb) /\ Unread(keyb) /\ RepeatHeld
    /\ Queued(keyb, transfers, dropped)
    /\ a20 \in BOOLEAN /\ fatal = FALSE /\ held \subseteq Keys

\* The byte that waits as the i-th, and what leaves those that wait alone.
At(k, i) == k.buffer[(k.pos + i - 1) % KEYBUFSIZE]
Longer(k, after) ==
    k.used <= after.used /\ \A i \in 1..k.used : At(after, i) = At(k, i)
Advanced(k, after) ==
    /\ k.used > 0 /\ after.used = k.used - 1 /\ after.p60data = At(k, 1)
    /\ \A i \in 1..after.used : At(after, i) = At(k, i + 1)
Only(k, byte) == k.used = 1 /\ At(k, 1) = byte

\* what adding bytes does to the controller
Grew(k, after) ==
    /\ after \in Controller
    /\ after.key = k.key /\ after.wait = k.wait
    /\ after.p60data = k.p60data /\ after.p60changed = k.p60changed
    /\ k.scheduled => after.scheduled
    /\ Fed(k) => Fed(after)
    /\ Unread(k) => Unread(after)
    /\ Longer(k, after)

LEMMA Parameters ==
    /\ KEYBUFSIZE \in Nat /\ KEYBUFSIZE > 0
    /\ NoKey \notin Keys
    /\ Pauses \subseteq Nat /\ Rates \subseteq Nat
    BY KeyboardAssumption

\* Division, as a quotient and a remainder.
LEMMA Division ==
    ASSUME NEW m \in Nat, m > 0, NEW x \in Int
    PROVE  \E q \in Int : \E r \in 0..(m - 1) : x = m * q + r /\ r = x % m
<1>1. x = m * (x \div m) + (x % m) /\ x \div m \in Int /\ x % m \in 0..(m - 1)
    OBVIOUS
<1> QED BY <1>1

\* Two numbers less than m apart have different remainders.
LEMMA RemaindersDiffer ==
    ASSUME NEW m \in Nat, m > 0, NEW a \in Nat, NEW b \in Nat, a < b, b - a < m
    PROVE  a % m # b % m
<1>1. SUFFICES ASSUME a % m = b % m PROVE FALSE
    OBVIOUS
<1>2. PICK q \in Int, r \in 0..(m - 1) : a = m * q + r /\ r = a % m
    BY Division
<1>3. PICK p \in Int, s \in 0..(m - 1) : b = m * p + s /\ s = b % m
    BY Division
<1>4. b - a = m * (p - q)
    BY <1>1, <1>2, <1>3
<1>5. CASE p - q <= 0
    <2>1. m * (p - q) <= 0
        BY <1>5
    <2> QED BY <1>4, <2>1
<1>6. CASE p - q >= 1
    <2>1. m * (p - q) >= m
        BY <1>6
    <2> QED BY <1>4, <2>1
<1> QED BY <1>5, <1>6

\* A remainder may be taken before adding or after.
LEMMA RemainderOfSum ==
    ASSUME NEW m \in Nat, m > 0, NEW a \in Nat, NEW b \in Nat
    PROVE  ((a % m) + b) % m = (a + b) % m
<1>1. PICK q \in Int, r \in 0..(m - 1) : a = m * q + r /\ r = a % m
    BY Division
<1>2. PICK p \in Int, s \in 0..(m - 1) : r + b = m * p + s /\ s = (r + b) % m
    <2>1. PICK x \in Int : x = r + b
        OBVIOUS
    <2> QED BY <2>1, Division
<1>3. PICK t \in Int, u \in 0..(m - 1) : a + b = m * t + u /\ u = (a + b) % m
    <2>1. PICK x \in Int : x = a + b
        OBVIOUS
    <2> QED BY <2>1, Division
<1>4. s - u = m * (t - q - p)
    BY <1>1, <1>2, <1>3
<1>5. t - q - p = 0
    <2>1. ASSUME t - q - p >= 1 PROVE FALSE
        <3>1. m * (t - q - p) >= m
            BY <2>1
        <3> QED BY <1>4, <3>1
    <2>2. ASSUME t - q - p <= -1 PROVE FALSE
        <3>1. m * (t - q - p) <= -m
            BY <2>2
        <3> QED BY <1>4, <3>1
    <2> QED BY <2>1, <2>2
<1>6. s = u
    BY <1>4, <1>5
<1> QED BY <1>1, <1>2, <1>3, <1>6

\* What waits, under several steps and under none.
LEMMA LongerTransitive ==
    ASSUME NEW k \in Controller, NEW m \in Controller, NEW after \in Controller,
           Longer(k, m), Longer(m, after)
    PROVE  Longer(k, after)
<1>1. k.used \in Nat /\ m.used \in Nat /\ after.used \in Nat
    BY Parameters DEF Controller
<1> QED BY <1>1 DEF Longer

LEMMA LongerReflexive ==
    ASSUME NEW k \in Controller, NEW m, m.used = k.used, m.pos = k.pos, m.buffer = k.buffer
    PROVE  Longer(k, m)
<1>1. k.used \in Nat
    BY Parameters DEF Controller
<1> QED BY <1>1 DEF Longer, At

LEMMA AddBufferGrows ==
    ASSUME NEW k \in Controller, NEW byte \in Bytes
    PROVE  Grew(k, KEYBOARD_AddBuffer(k, byte))
<1>1. CASE k.used >= KEYBUFSIZE
    BY <1>1, LongerReflexive DEF KEYBOARD_AddBuffer, Grew, Fed, Unread
<1>2. CASE ~(k.used >= KEYBUFSIZE)
    <2> DEFINE after == KEYBOARD_AddBuffer(k, byte)
    <2>1. PICK slot \in Slots : slot = (k.pos + k.used) % KEYBUFSIZE
        BY Parameters DEF Controller, Slots
    <2>2. PICK n \in 0..KEYBUFSIZE : n = k.used + 1
        BY <1>2, Parameters DEF Controller
    <2>3. PICK sch \in BOOLEAN : sch = (k.scheduled \/ ~k.p60changed)
        OBVIOUS
    <2>4. after = [k EXCEPT !.buffer[slot] = byte, !.used = n, !.scheduled = sch]
        BY <1>2, <2>1, <2>2, <2>3 DEF KEYBOARD_AddBuffer, Controller
    <2> HIDE DEF after
    <2>5. after \in Controller
        BY <2>4 DEF Controller
    <2>6. Longer(k, after)
        <3>1. /\ after.used = k.used + 1 /\ after.pos = k.pos
              /\ after.buffer = [k.buffer EXCEPT ![slot] = byte]
              /\ k.used \in Nat /\ k.pos \in Nat /\ k.used < KEYBUFSIZE
              /\ k.buffer \in [Slots -> Bytes]
            BY <1>2, <2>2, <2>4, Parameters DEF Controller, Slots
        <3>2. SUFFICES ASSUME NEW i \in 1..k.used PROVE At(after, i) = At(k, i)
            BY <3>1 DEF Longer
        <3>3. (k.pos + i - 1) % KEYBUFSIZE # slot
            <4>1. PICK a \in Nat, b \in Nat : a = k.pos + i - 1 /\ b = k.pos + k.used
                BY <3>1
            <4>2. k.used \in Nat /\ k.pos \in Nat /\ k.used < KEYBUFSIZE /\ i <= k.used /\ i >= 1
                BY <3>1
            <4>3. a < b /\ b - a < KEYBUFSIZE
                BY <4>1, <4>2, Parameters
            <4> QED BY <2>1, <4>1, <4>3, Parameters, RemaindersDiffer
        <3> QED BY <3>1, <3>3 DEF At
    <2> QED BY <2>3, <2>4, <2>5, <2>6 DEF Grew, Fed, Unread, Controller, after
<1> QED BY <1>1, <1>2

\* Adding bytes one after the other.
LEMMA GrewTransitive ==
    ASSUME NEW k \in Controller, NEW m, NEW after, Grew(k, m), Grew(m, after)
    PROVE  Grew(k, after)
    BY LongerTransitive DEF Grew

LEMMA BytesOfKeys ==
    ASSUME NEW key \in Keys, NEW pressed \in BOOLEAN
    PROVE  /\ Code(key, pressed) \in Bytes /\ Code("ctrl", pressed) \in Bytes
           /\ Code("numlock", pressed) \in Bytes /\ Code("shift", pressed) \in Bytes
           /\ Code("print", pressed) \in Bytes
           /\ Single("e0") \in Bytes /\ Single("e1") \in Bytes
    BY DEF Bytes, Code, Single

LEMMA AddScancodeGrows ==
    ASSUME NEW k \in Controller, NEW key \in Keys, NEW pressed \in BOOLEAN
    PROVE  Grew(k, AddScancode(k, key, pressed))
<1> DEFINE Add(m, byte) == KEYBOARD_AddBuffer(m, byte)
           e0 == Add(k, Single("e0"))
           e1 == Add(k, Single("e1"))
           ctrl == Add(e1, Code("ctrl", pressed))
           shift == Add(e0, Code("shift", pressed))
           again == Add(shift, Single("e0"))
<1> HIDE DEF e0, e1, ctrl, shift, again
<1>1. \A m : Grew(k, m) => m \in Controller
    BY DEF Grew
<1>2. Grew(k, e0) /\ Grew(k, e1) /\ Grew(k, Add(k, Code(key, pressed)))
    BY AddBufferGrows, BytesOfKeys DEF e0, e1
<1>3. Grew(k, ctrl) /\ Grew(k, shift) /\ Grew(k, Add(e0, Code(key, pressed)))
    BY <1>1, <1>2, AddBufferGrows, BytesOfKeys, GrewTransitive DEF ctrl, shift
<1>4. Grew(k, again) /\ Grew(k, Add(ctrl, Code("numlock", pressed)))
    BY <1>1, <1>3, AddBufferGrows, BytesOfKeys, GrewTransitive DEF again
<1>5. Grew(k, Add(again, Code("print", pressed)))
    BY <1>1, <1>4, AddBufferGrows, BytesOfKeys, GrewTransitive
<1>6. CASE key \in PlainKeys
    BY <1>2, <1>6, KeyboardAssumption DEF AddScancode
<1>7. CASE key \notin PlainKeys /\ key \in ExtendedKeys
    BY <1>3, <1>7, KeyboardAssumption DEF AddScancode, e0
<1>8. CASE key \notin PlainKeys /\ key \notin ExtendedKeys /\ key = "pause"
    BY <1>4, <1>8 DEF AddScancode, ctrl, e1
<1>9. CASE key \notin PlainKeys /\ key \notin ExtendedKeys /\ key = "printscreen"
    BY <1>5, <1>9 DEF AddScancode, again, shift, e0
<1> QED BY <1>6, <1>7, <1>8, <1>9, KeyboardAssumption DEF Keys

\* The event queue after a step that schedules a transfer or does not.
LEMMA BecomesQueued ==
    ASSUME NEW k \in Controller, NEW after \in Controller, NEW n \in Nat,
           Queued(k, n, dropped), k.scheduled => after.scheduled,
           MayOverflow \in BOOLEAN, Becomes(k, after, n)
    PROVE  keyb' = after /\ Queued(after, transfers', dropped')
<1>1. CASE after.scheduled /\ ~k.scheduled
    <2>1. n = 0
        BY <1>1 DEF Queued
    <2>2. CASE transfers' = n + 1 /\ UNCHANGED dropped
        <3>1. transfers' = 1 /\ dropped' \in BOOLEAN
            BY <2>1, <2>2 DEF Queued
        <3> QED BY <1>1, <3>1 DEF Becomes, Queued
    <2>3. CASE transfers' = n /\ dropped' = TRUE
        <3>1. transfers' = 0
            BY <2>1, <2>3
        <3> QED BY <1>1, <2>3, <3>1 DEF Becomes, Queued
    <2> QED BY <1>1, <2>2, <2>3 DEF Becomes
<1>2. CASE ~(after.scheduled /\ ~k.scheduled)
    BY <1>2 DEF Becomes, Queued
<1> QED BY <1>1, <1>2

-----------------------------------------------------------------------------
\* the state of the controller that a step changes, apart from the ring
Repeats(k, holds) == k.wait > 0 => k.key \in holds
SameRing(k, m) ==
    /\ m \in Controller /\ m.scheduled = k.scheduled /\ m.p60data = k.p60data
    /\ m.used = k.used /\ m.pos = k.pos /\ m.buffer = k.buffer
    /\ Fed(k) => Fed(m)
    /\ Unread(k) => Unread(m)

\* The keys of the host.
LEMMA PressKeeps ==
    ASSUME NEW k \in Controller, NEW key \in Keys, NEW holds, Repeats(k, holds)
    PROVE  SameRing(k, Press(k, key)) /\ Repeats(Press(k, key), holds \cup {key})
<1>1. CASE key \in LongKeys
    BY <1>1 DEF Press, SameRing, Repeats
<1>2. CASE key \notin LongKeys
    <2>1. PICK wait \in Nat : wait = IF k.key = key THEN k.rate ELSE k.pause
        BY Parameters DEF Controller
    <2>2. Press(k, key) = [k EXCEPT !.wait = wait, !.key = key]
        BY <1>2, <2>1 DEF Press
    <2>3. [k EXCEPT !.wait = wait, !.key = key] \in Controller
        BY DEF Controller
    <2> QED BY <2>2, <2>3 DEF SameRing, Fed, Unread, Repeats, Controller
<1> QED BY <1>1, <1>2

LEMMA ReleaseKeeps ==
    ASSUME NEW k \in Controller, NEW key \in Keys, NEW holds, Repeats(k, holds)
    PROVE  SameRing(k, Release(k, key)) /\ Repeats(Release(k, key), holds \ {key})
<1>1. CASE k.key = key
    <2>1. Release(k, key) = [k EXCEPT !.key = NoKey, !.wait = 0]
        BY <1>1 DEF Release
    <2>2. [k EXCEPT !.key = NoKey, !.wait = 0] \in Controller
        BY DEF Controller
    <2> QED BY <2>1, <2>2 DEF SameRing, Fed, Unread, Repeats, Controller
<1>2. CASE k.key # key
    BY <1>2 DEF Release, SameRing, Repeats
<1> QED BY <1>1, <1>2

\* A key event or a repeat: k is keyb but for what repeats, and bytes are added.
LEMMA KeyAdded ==
    ASSUME IInv, NEW k, SameRing(keyb, k), NEW after, Grew(k, after),
           Repeats(k, held'), held' \subseteq Keys,
           Becomes(keyb, after, transfers), UNCHANGED <<a20, fatal>>
    PROVE  IInv' /\ keyb'.p60data = keyb.p60data /\ Longer(keyb, keyb')
<1>1. after \in Controller /\ Fed(after) /\ Unread(after) /\ Repeats(after, held')
    BY DEF IInv, SameRing, Grew, Repeats
<1>5. after.p60data = keyb.p60data
    BY DEF SameRing, Grew
<1>2. keyb.scheduled => after.scheduled
    BY DEF SameRing, Grew
<1>3. /\ keyb \in Controller /\ transfers \in Nat /\ Queued(keyb, transfers, dropped)
      /\ MayOverflow \in BOOLEAN
    BY KeyboardAssumption DEF IInv, Queued
<1>4. keyb' = after /\ Queued(after, transfers', dropped')
    BY <1>1, <1>2, <1>3, BecomesQueued
<1>6. Longer(keyb, after)
    <2>1. Longer(keyb, k) /\ Longer(k, after) /\ k \in Controller
        BY <1>3, LongerReflexive DEF SameRing, Grew
    <2> QED BY <1>1, <1>3, <2>1, LongerTransitive
<1> QED BY <1>1, <1>4, <1>5, <1>6 DEF IInv, RepeatHeld, Repeats

LEMMA AddKeyKeeps ==
    ASSUME IInv, NEW key \in Keys, NEW pressed \in BOOLEAN, KEYBOARD_AddKey(key, pressed)
    PROVE  IInv' /\ keyb'.p60data = keyb.p60data /\ Longer(keyb, keyb')
<1> DEFINE k == IF pressed THEN Press(keyb, key) ELSE Release(keyb, key)
<1>1. keyb \in Controller /\ Repeats(keyb, held) /\ held \subseteq Keys
    BY DEF IInv, RepeatHeld, Repeats
<1>2. SameRing(keyb, k) /\ Repeats(k, held') /\ held' \subseteq Keys
    <2>1. CASE pressed
        BY <1>1, <2>1, PressKeeps DEF KEYBOARD_AddKey
    <2>2. CASE ~pressed
        BY <1>1, <2>2, ReleaseKeeps DEF KEYBOARD_AddKey
    <2> QED BY <2>1, <2>2
<1>3. Becomes(keyb, AddScancode(k, key, pressed), transfers) /\ UNCHANGED <<a20, fatal>>
    BY DEF KEYBOARD_AddKey
<1>4. Grew(k, AddScancode(k, key, pressed))
    BY <1>2, AddScancodeGrows DEF SameRing
<1> HIDE DEF k
<1> QED BY <1>2, <1>3, <1>4, KeyAdded

LEMMA TickKeeps ==
    ASSUME IInv, KEYBOARD_TickHandler
    PROVE  IInv' /\ keyb'.p60data = keyb.p60data /\ Longer(keyb, keyb')
<1>1. PICK wait \in Nat : wait = keyb.wait - 1
    BY DEF KEYBOARD_TickHandler, IInv, Controller
<1> DEFINE k == [keyb EXCEPT !.wait = wait]
<1>2. /\ SameRing(keyb, k) /\ k.wait = wait /\ k.key = keyb.key
      /\ k.key \in held /\ k.key \in Keys /\ k.key # NoKey
    <2>1. keyb.key \in held /\ keyb.key \in Keys /\ keyb.key # NoKey
        BY Parameters DEF KEYBOARD_TickHandler, IInv, RepeatHeld
    <2>2. keyb \in Controller
        BY DEF IInv
    <2>3. k \in Controller
        BY <2>2 DEF Controller
    <2> QED BY <2>1, <2>2, <2>3 DEF SameRing, Fed, Unread, Controller
<1>3. held' = held /\ a20' = a20
    BY DEF KEYBOARD_TickHandler
<1>4. k = [keyb EXCEPT !.wait = @ - 1]
    BY <1>1
<1> HIDE DEF k
<1>5. CASE wait > 0
    <2>1. keyb' = k /\ UNCHANGED <<transfers, dropped, fatal>>
        BY <1>2, <1>4, <1>5 DEF KEYBOARD_TickHandler
    <2>2. Longer(keyb, k)
        BY <1>2, LongerReflexive DEF SameRing, IInv
    <2> QED BY <1>2, <1>3, <2>1, <2>2 DEF IInv, SameRing, RepeatHeld, Queued
<1>6. CASE ~(wait > 0)
    <2>1. /\ Becomes(keyb, AddScancode(Press(k, k.key), k.key, TRUE), transfers)
          /\ UNCHANGED fatal
        BY <1>2, <1>4, <1>6 DEF KEYBOARD_TickHandler
    <2>2. PICK m : m = Press(k, k.key)
        OBVIOUS
    <2>3. SameRing(k, m) /\ Repeats(m, held)
        <3>1. k \in Controller /\ Repeats(k, held) /\ held \cup {k.key} = held
            BY <1>2 DEF SameRing, Repeats
        <3> QED BY <1>2, <2>2, <3>1, PressKeeps
    <2>4. SameRing(keyb, m) /\ Grew(m, AddScancode(m, k.key, TRUE))
        BY <1>2, <2>3, AddScancodeGrows DEF SameRing
    <2> QED BY <1>3, <2>1, <2>2, <2>3, <2>4, KeyAdded DEF IInv
<1> QED BY <1>5, <1>6

LEMMA TransferKeeps ==
    ASSUME IInv, KEYBOARD_TransferBuffer
    PROVE  IInv' /\ (Longer(keyb, keyb') \/ Advanced(keyb, keyb'))
<1> DEFINE k == [keyb EXCEPT !.scheduled = FALSE]
<1>1. keyb \in Controller /\ transfers = 1 /\ transfers' = 0 /\ UNCHANGED <<a20, fatal, held, dropped>>
    BY DEF KEYBOARD_TransferBuffer, IInv, Queued
<1>2. /\ k \in Controller /\ k.scheduled = FALSE /\ k.wait = keyb.wait
      /\ k.key = keyb.key /\ k.used = keyb.used /\ k.pos = keyb.pos
      /\ k.buffer = keyb.buffer
    BY <1>1 DEF Controller
<1>3. keyb' = Transferred(k)
    BY DEF KEYBOARD_TransferBuffer
<1> HIDE DEF k
<1>4. CASE k.used = 0
    <2>1. keyb' = k
        BY <1>3, <1>4 DEF Transferred
    <2>2. Longer(keyb, k)
        BY <1>1, <1>2, LongerReflexive
    <2> QED BY <1>1, <1>2, <1>4, <2>1, <2>2 DEF IInv, Fed, Unread, Queued, RepeatHeld
<1>5. CASE k.used # 0
    <2>1. PICK p \in Slots : p = (k.pos + 1) % KEYBUFSIZE
        BY <1>2, Parameters DEF Controller, Slots
    <2>2. PICK n \in 0..KEYBUFSIZE : n = k.used - 1
        BY <1>2, <1>5, Parameters DEF Controller
    <2>3. Empty \in Bytes /\ k.buffer[k.pos] \in Bytes
        BY <1>2 DEF Controller, Bytes, Empty, Single
    <2>4. keyb' = [k EXCEPT !.p60changed = TRUE, !.p60data = k.buffer[k.pos],
                            !.buffer[k.pos] = Empty, !.pos = p, !.used = n]
        BY <1>2, <1>3, <1>5, <2>1, <2>2 DEF Transferred, Moved, KEYBOARD_SetPort60, Controller
    <2>5. /\ keyb' \in Controller /\ keyb'.p60changed = TRUE /\ keyb'.scheduled = FALSE
          /\ keyb'.wait = k.wait /\ keyb'.key = k.key
        BY <1>2, <2>3, <2>4 DEF Controller
    <2>6. Advanced(keyb, keyb')
        <3>1. /\ keyb'.used = k.used - 1 /\ keyb'.pos = p /\ keyb'.p60data = k.buffer[k.pos]
              /\ keyb'.buffer = [k.buffer EXCEPT ![k.pos] = Empty]
            BY <1>2, <2>2, <2>4 DEF Controller
        <3>2. /\ k.used \in Nat /\ k.pos \in Nat /\ k.pos < KEYBUFSIZE /\ k.used > 0
              /\ k.used <= KEYBUFSIZE /\ k.buffer \in [Slots -> Bytes]
            BY <1>2, <1>5, Parameters DEF Controller, Slots
        <3>3. k.pos % KEYBUFSIZE = k.pos
            BY <3>2, Parameters
        <3>4. keyb'.p60data = At(keyb, 1)
            BY <1>2, <3>1, <3>2, <3>3 DEF At
        <3>5. ASSUME NEW i \in 1..keyb'.used PROVE At(keyb', i) = At(keyb, i + 1)
            <4>1. PICK a \in Nat, b \in Nat, j \in Nat :
                      a = k.pos /\ b = k.pos + i /\ j = i - 1
                BY <3>1, <3>2
            <4>8. i \in Nat /\ i >= 1 /\ i <= k.used - 1
                BY <3>1, <3>2
            <4>2. a < b /\ b - a < KEYBUFSIZE /\ b = (k.pos + 1) + j
                BY <3>2, <4>1, <4>8, Parameters
            <4>3. b % KEYBUFSIZE # k.pos
                BY <3>3, <4>1, <4>2, Parameters, RemaindersDiffer
            <4>4. (p + j) % KEYBUFSIZE = b % KEYBUFSIZE
                <5>1. PICK c \in Nat : c = k.pos + 1
                    BY <3>2
                <5> QED BY <2>1, <4>2, <5>1, Parameters, RemainderOfSum
            <4>5. At(keyb', i) = keyb'.buffer[(p + j) % KEYBUFSIZE]
                BY <3>1, <4>1, Parameters DEF At, Slots
            <4>6. At(keyb, i + 1) = k.buffer[b % KEYBUFSIZE]
                BY <1>2, <3>2, <4>1 DEF At
            <4>7. b % KEYBUFSIZE \in Slots
                BY Parameters DEF Slots
            <4> QED BY <3>1, <3>2, <4>3, <4>4, <4>5, <4>6, <4>7
        <3> QED BY <1>2, <3>1, <3>2, <3>4, <3>5 DEF Advanced
    <2> QED BY <1>1, <1>2, <2>5, <2>6 DEF IInv, Fed, Unread, Queued, RepeatHeld
<1> QED BY <1>4, <1>5

LEMMA ReadKeeps ==
    ASSUME IInv, read_p60
    PROVE  IInv' /\ keyb'.p60data = keyb.p60data /\ Longer(keyb, keyb')
<1> DEFINE k == [keyb EXCEPT !.p60changed = FALSE]
           after == IF k.used > 0 THEN Schedule(k) ELSE k
<1>1. keyb \in Controller /\ UNCHANGED <<a20, fatal, held>> /\ Becomes(keyb, after, transfers)
    BY DEF read_p60, IInv
<1>2. /\ k \in Controller /\ k.p60changed = FALSE /\ k.scheduled = keyb.scheduled
      /\ k.wait = keyb.wait /\ k.key = keyb.key /\ k.p60data = keyb.p60data
      /\ k.used = keyb.used /\ k.pos = keyb.pos /\ k.buffer = keyb.buffer
    BY <1>1 DEF Controller
<1> HIDE DEF k
<1>3. /\ after \in Controller /\ after.p60changed = FALSE /\ (k.scheduled => after.scheduled)
      /\ after.wait = k.wait /\ after.key = k.key /\ after.p60data = k.p60data
      /\ after.used = k.used /\ after.pos = k.pos /\ after.buffer = k.buffer
      /\ (after.used > 0 => after.scheduled)
    BY <1>2 DEF Schedule, Controller
<1> HIDE DEF after
<1>4. /\ transfers \in Nat /\ Queued(keyb, transfers, dropped) /\ MayOverflow \in BOOLEAN
      /\ keyb.scheduled => after.scheduled
    BY <1>2, <1>3, KeyboardAssumption DEF IInv, Queued
<1>5. keyb' = after /\ Queued(after, transfers', dropped')
    BY <1>1, <1>3, <1>4, BecomesQueued
<1>6. Longer(keyb, after)
    BY <1>1, <1>2, <1>3, LongerReflexive
<1> QED BY <1>1, <1>2, <1>3, <1>5, <1>6 DEF IInv, Fed, Unread, RepeatHeld

\* the answer to a command, given with the ring cleared
LEMMA AnswerKeeps ==
    ASSUME IInv, NEW k \in Controller, k.wait = keyb.wait, k.key = keyb.key,
           k.p60data = keyb.p60data, NEW byte \in {"ack", "echo"}, Answer(k, byte), UNCHANGED <<a20, fatal, held>>
    PROVE  /\ IInv' /\ keyb'.p60data = keyb.p60data
           /\ Only(keyb', Single(byte))
<1> DEFINE cleared == KEYBOARD_ClrBuffer(k)
           after == KEYBOARD_AddBuffer(cleared, Single(byte))
<1>1. Single(byte) \in Bytes
    BY DEF Bytes, Single
<1>2. /\ cleared \in Controller /\ cleared.used = 0 /\ cleared.scheduled = FALSE
      /\ cleared.wait = keyb.wait /\ cleared.key = keyb.key
      /\ cleared.p60data = keyb.p60data /\ cleared.pos = 0
    <2>1. 0 \in Slots /\ 0 \in 0..KEYBUFSIZE
        BY Parameters DEF Slots
    <2>2. Empty \in Bytes
        BY DEF Bytes, Empty, Single
    <2>3. Blank \in [Slots -> Bytes]
        BY <2>2 DEF Blank
    <2>4. cleared = [k EXCEPT !.used = 0, !.pos = 0, !.scheduled = FALSE, !.buffer = Blank]
        BY DEF KEYBOARD_ClrBuffer
    <2>5. cleared \in Controller
        BY <2>1, <2>3, <2>4, Zenon DEF Controller
    <2> QED BY <2>4, <2>5 DEF Controller
<1> HIDE DEF cleared
<1>3. Fed(cleared) /\ Unread(cleared) /\ Queued(cleared, 0, dropped)
    BY <1>2 DEF Fed, Unread, Queued, IInv
<1>4. Grew(cleared, after)
    BY <1>1, <1>2, AddBufferGrows
<1>5. Becomes(cleared, after, 0)
    BY DEF Answer, cleared
<1>8. Only(after, Single(byte))
    <2>1. (0 + 0) % KEYBUFSIZE = 0 /\ (0 + 1 - 1) % KEYBUFSIZE = 0 /\ 0 \in Slots
        BY Parameters DEF Slots
    <2>2. after.used = 1 /\ after.pos = 0 /\ after.buffer[0] = Single(byte)
        BY <1>2, <2>1, Parameters DEF KEYBOARD_AddBuffer, Controller
    <2> QED BY <2>1, <2>2 DEF Only, At
<1> HIDE DEF after
<1>6. /\ after \in Controller /\ Fed(after) /\ Unread(after)
      /\ cleared.scheduled => after.scheduled
      /\ after.wait = keyb.wait /\ after.key = keyb.key
      /\ after.p60data = keyb.p60data
    BY <1>2, <1>3, <1>4 DEF Grew
<1>7. keyb' = after /\ Queued(after, transfers', dropped')
    BY <1>2, <1>3, <1>5, <1>6, BecomesQueued, KeyboardAssumption
<1> QED BY <1>6, <1>7, <1>8 DEF IInv, RepeatHeld

LEMMA CommandKeeps ==
    ASSUME IInv, NEW val, write_p60_command(val)
    PROVE  /\ IInv' /\ keyb'.p60data = keyb.p60data
           /\ Only(keyb', Single("ack")) \/ Only(keyb', Single("echo"))
<1> DEFINE k == CASE val = "ed" -> [keyb EXCEPT !.command = "CMD_SETLEDS"]
                  [] val = "f3" -> [keyb EXCEPT !.command = "CMD_SETTYPERATE"]
                  [] val = "f4" -> [keyb EXCEPT !.scanning = TRUE]
                  [] val \in {"f5", "f6"} -> [keyb EXCEPT !.scanning = FALSE]
                  [] OTHER -> keyb
           byte == IF val = "ee" THEN "echo" ELSE "ack"
<1>1. Answer(k, byte) /\ UNCHANGED <<a20, fatal, held>>
    BY DEF write_p60_command
<1>2. keyb \in Controller
    BY DEF IInv
<1>3. /\ k \in Controller /\ k.wait = keyb.wait /\ k.key = keyb.key
      /\ k.p60data = keyb.p60data
    <2>1. CASE val = "ed"
        BY <1>2, <2>1 DEF Controller, Commands
    <2>2. CASE val = "f3"
        BY <1>2, <2>2 DEF Controller, Commands
    <2>3. CASE val = "f4"
        BY <1>2, <2>3 DEF Controller
    <2>4. CASE val \in {"f5", "f6"}
        BY <1>2, <2>4 DEF Controller
    <2>5. CASE val \notin {"ed", "f3", "f4", "f5", "f6"}
        BY <1>2, <2>5
    <2> QED BY <2>1, <2>2, <2>3, <2>4, <2>5
<1> HIDE DEF k
<1> QED BY <1>1, <1>3, AnswerKeeps

LEMMA DataKeeps ==
    ASSUME IInv, NEW pause \in Pauses, NEW rate \in Rates,
           write_p60_typerate(pause, rate) \/ write_p60_leds
    PROVE  /\ IInv' /\ keyb'.p60data = keyb.p60data
           /\ Only(keyb', Single("ack"))
<1>1. keyb \in Controller
    BY DEF IInv
<1>2. PICK k \in Controller :
          /\ k.wait = keyb.wait /\ k.key = keyb.key /\ k.p60data = keyb.p60data
          /\ Answer(k, "ack")
    <2>1. CASE write_p60_typerate(pause, rate)
        <3>1. [keyb EXCEPT !.pause = pause, !.rate = rate, !.command = "CMD_NONE"] \in Controller
            BY <1>1 DEF Controller, Commands
        <3> QED BY <1>1, <2>1, <3>1 DEF write_p60_typerate, Controller
    <2>2. CASE write_p60_leds
        <3>1. [keyb EXCEPT !.command = "CMD_NONE"] \in Controller
            BY <1>1 DEF Controller, Commands
        <3> QED BY <1>1, <2>2, <3>1 DEF write_p60_leds, Controller
    <2> QED BY <2>1, <2>2
<1>3. UNCHANGED <<a20, fatal, held>>
    BY DEF write_p60_typerate, write_p60_leds
<1> QED BY <1>2, <1>3, AnswerKeeps

LEMMA OutportKeeps ==
    ASSUME IInv, NEW bit1 \in BOOLEAN, write_p60_outport(bit1)
    PROVE  IInv' /\ keyb'.p60data = keyb.p60data /\ Longer(keyb, keyb')
<1>1. keyb \in Controller /\ keyb' = [keyb EXCEPT !.command = "CMD_NONE"]
    BY DEF write_p60_outport, IInv
<1>2. keyb' \in Controller
    BY <1>1 DEF Controller, Commands
<1>3. a20' \in BOOLEAN /\ UNCHANGED <<transfers, fatal, held, dropped>>
    BY DEF write_p60_outport
<1>4. Longer(keyb, keyb')
    BY <1>1, LongerReflexive DEF Controller
<1> QED BY <1>1, <1>2, <1>3, <1>4 DEF IInv, Fed, Unread, Queued, RepeatHeld, Controller

LEMMA Write64Keeps ==
    ASSUME IInv, NEW val, write_p64(val)
    PROVE  IInv' /\ Longer(keyb, keyb')
<1> DEFINE k == CASE val = "ae" ->
                       [keyb EXCEPT !.active = TRUE,
                          !.scheduled = @ \/ (keyb.used > 0 /\ ~keyb.p60changed)]
                  [] val = "ad" -> [keyb EXCEPT !.active = FALSE]
                  [] val = "d0" -> KEYBOARD_SetPort60(keyb, Code("outport", a20))
                  [] val = "d1" -> [keyb EXCEPT !.command = "CMD_SETOUTPORT"]
                  [] OTHER -> keyb
<1>1. Becomes(keyb, k, transfers) /\ UNCHANGED <<a20, fatal, held>>
    BY DEF write_p64
<1>2. keyb \in Controller /\ Fed(keyb) /\ Unread(keyb) /\ a20 \in BOOLEAN
    BY DEF IInv
<1>3. /\ k \in Controller /\ k.wait = keyb.wait /\ k.key = keyb.key
      /\ Fed(k) /\ Unread(k) /\ (keyb.scheduled => k.scheduled)
      /\ k.used = keyb.used /\ k.pos = keyb.pos /\ k.buffer = keyb.buffer
    <2>1. CASE val = "ae"
        <3>1. PICK sch \in BOOLEAN :
                  sch = (keyb.scheduled \/ (keyb.used > 0 /\ ~keyb.p60changed))
            OBVIOUS
        <3>2. k = [keyb EXCEPT !.active = TRUE, !.scheduled = sch]
            BY <1>2, <2>1, <3>1 DEF Controller
        <3>3. [keyb EXCEPT !.active = TRUE, !.scheduled = sch] \in Controller
            BY <1>2 DEF Controller
        <3> HIDE DEF k
        <3> QED BY <1>2, <3>1, <3>2, <3>3 DEF Controller, Fed, Unread
    <2>2. CASE val = "ad"
        BY <1>2, <2>2 DEF Controller, Fed, Unread
    <2>3. CASE val = "d0"
        <3>1. PICK byte \in Bytes : byte = Code("outport", a20) /\ Outport(byte)
            BY <1>2 DEF Bytes, Code, Outport
        <3>2. k = [keyb EXCEPT !.p60changed = TRUE, !.p60data = byte]
            BY <2>3, <3>1 DEF KEYBOARD_SetPort60
        <3>3. [keyb EXCEPT !.p60changed = TRUE, !.p60data = byte] \in Controller
            BY <1>2 DEF Controller
        <3> HIDE DEF k
        <3> QED BY <1>2, <3>1, <3>2, <3>3 DEF Controller, Fed, Unread
    <2>4. CASE val = "d1"
        BY <1>2, <2>4 DEF Controller, Commands, Fed, Unread
    <2>5. CASE val \notin {"ae", "ad", "d0", "d1"}
        BY <1>2, <2>5
    <2> QED BY <2>1, <2>2, <2>3, <2>4, <2>5
<1> HIDE DEF k
<1>4. transfers \in Nat /\ Queued(keyb, transfers, dropped) /\ MayOverflow \in BOOLEAN
    BY KeyboardAssumption DEF IInv, Queued
<1>5. keyb' = k /\ Queued(k, transfers', dropped')
    BY <1>1, <1>2, <1>3, <1>4, BecomesQueued
<1>6. Longer(keyb, k)
    BY <1>2, <1>3, LongerReflexive
<1> QED BY <1>1, <1>3, <1>5, <1>6 DEF IInv, RepeatHeld

-----------------------------------------------------------------------------
LEMMA Initially == Init => IInv
<1> SUFFICES ASSUME Init PROVE IInv
    OBVIOUS
<1>1. PICK pause \in Pauses, rate \in Rates :
          keyb = [buffer |-> Blank, used |-> 0, pos |-> 0,
                  key |-> NoKey, wait |-> 0, pause |-> pause, rate |-> rate,
                  command |-> "CMD_NONE", p60data |-> Empty,
                  p60changed |-> FALSE, active |-> TRUE, scanning |-> TRUE,
                  scheduled |-> FALSE]
    BY DEF Init
<1>2. /\ 0 \in Slots /\ 0 \in 0..KEYBUFSIZE /\ Empty \in Bytes /\ "CMD_NONE" \in Commands
      /\ Blank \in [Slots -> Bytes]
    <2>1. Empty \in Bytes
        BY DEF Bytes, Empty, Single
    <2>2. 0 \in Slots /\ 0 \in 0..KEYBUFSIZE
        BY Parameters DEF Slots
    <2> QED BY <2>1, <2>2 DEF Blank, Commands
<1>3. keyb \in Controller
    BY <1>1, <1>2 DEF Controller
<1>4. /\ keyb.used = 0 /\ keyb.wait = 0 /\ keyb.p60changed = FALSE
      /\ keyb.scheduled = FALSE
    BY <1>1
<1>5. transfers = 0 /\ a20 = FALSE /\ fatal = FALSE /\ held = {} /\ dropped = FALSE
    BY DEF Init
<1>6. transfers \in 0..1 /\ ~(transfers > 0) /\ ~(keyb.used > 0) /\ ~(keyb.wait > 0)
    BY <1>4, <1>5
<1>7. Queued(keyb, transfers, dropped)
    BY <1>4, <1>5, <1>6, Zenon DEF Queued
<1> QED BY <1>3, <1>4, <1>5, <1>6, <1>7, Zenon DEF IInv, Fed, Unread, RepeatHeld

LEMMA StepKeeps == IInv /\ [Next]_vars => IInv'
<1> SUFFICES ASSUME IInv, [Next]_vars PROVE IInv'
    OBVIOUS
<1>1. CASE Host
    <2>1. held \subseteq Keys
        BY DEF IInv
    <2> QED BY <1>1, <2>1, AddKeyKeeps DEF Host
<1>2. CASE Guest
    <2>1. Pauses # {} /\ Rates # {}
        BY KeyboardAssumption
    <2> QED BY <1>2, <2>1, ReadKeeps, CommandKeeps, OutportKeeps, DataKeeps, Write64Keeps
            DEF Guest
<1>3. CASE KEYBOARD_TickHandler
    BY <1>3, TickKeeps
<1>4. CASE KEYBOARD_TransferBuffer
    BY <1>4, TransferKeeps
<1>5. CASE UNCHANGED vars
    BY <1>5 DEF vars, IInv, RepeatHeld
<1> QED BY <1>1, <1>2, <1>3, <1>4, <1>5 DEF Next

LEMMA Invariance == Spec => []IInv
<1>1. Init => IInv
    BY Initially
<1>2. IInv /\ [Next]_vars => IInv'
    BY StepKeeps
<1> QED BY <1>1, <1>2, PTL DEF Spec

\* The ring stays within its bounds, whatever its size, and no more than one
\* transfer is ever queued (keyboard.cpp:81-95).
THEOREM Typed == Spec => []TypeOK
<1>1. IInv => TypeOK
    BY DEF IInv, TypeOK, Queued
<1> QED BY <1>1, Invariance, PTL

\* No byte waits in the ring for nothing (keyboard.cpp:62-72, 90-94, 97-103).
THEOREM NothingStalls == Spec => []NoStall
<1>1. IInv => NoStall
    BY DEF IInv, NoStall, Fed, Queued, Controller
<1> QED BY <1>1, Invariance, PTL

\* A key that repeats is held down (keyboard.cpp:360-373, 379-389).
THEOREM OnlyHeldRepeats == Spec => []RepeatHeld
<1>1. IInv => RepeatHeld
    BY DEF IInv
<1> QED BY <1>1, Invariance, PTL

\* KEYBOARD_TickHandler never passes KBD_NONE on, for which KEYBOARD_AddKey would
\* end the emulator (keyboard.cpp:355-357, 379-389).
THEOREM NoPanic == Spec => []NoUnsupportedKey
<1>1. IInv => NoUnsupportedKey
    BY DEF IInv, NoUnsupportedKey
<1> QED BY <1>1, Invariance, PTL

\* The guest gets each byte that it reads the port for: no other byte takes its
\* place before, command D0h aside (keyboard.cpp:55-60, 62-72).
THEOREM NothingOverwritten == Spec => NoOverwrite
<1>1. IInv /\ [Next]_vars =>
        [keyb.p60changed /\ keyb.p60data' # keyb.p60data
            => \E b \in BOOLEAN : Code("outport", b) \in {keyb.p60data, keyb.p60data'}]_vars
    <2>1. SUFFICES ASSUME IInv, Next, keyb.p60changed, keyb.p60data' # keyb.p60data
                   PROVE  Outport(keyb.p60data) \/ Outport(keyb.p60data')
        BY DEF Outport
    <2>2. keyb \in Controller /\ a20 \in BOOLEAN
        BY <2>1 DEF IInv
    <2>3. CASE KEYBOARD_TransferBuffer
        <3>1. keyb.scheduled
            BY <2>1, <2>3 DEF KEYBOARD_TransferBuffer, IInv, Queued
        <3> QED BY <2>1, <3>1 DEF IInv, Unread
    <2>4. CASE \E val \in Commands64 : write_p64(val)
        <3>1. PICK val \in Commands64 : write_p64(val)
            BY <2>4
        <3>2. keyb'.p60data \in {keyb.p60data, Code("outport", a20)}
            BY <2>2, <3>1 DEF write_p64, Becomes, KEYBOARD_SetPort60, Controller
        <3> QED BY <2>1, <2>2, <3>2 DEF Outport
    <2>5. CASE Host
        BY <2>1, <2>5, AddKeyKeeps DEF Host, IInv
    <2>6. CASE KEYBOARD_TickHandler
        BY <2>1, <2>6, TickKeeps
    <2>7. CASE Guest /\ ~\E val \in Commands64 : write_p64(val)
        <3>1. Pauses # {} /\ Rates # {}
            BY KeyboardAssumption
        <3> QED BY <2>1, <2>7, <3>1, ReadKeeps, CommandKeeps, OutportKeeps, DataKeeps DEF Guest
    <2> QED BY <2>1, <2>3, <2>4, <2>5, <2>6, <2>7 DEF Next, Guest
<1> QED BY <1>1, Invariance, PTL DEF Spec, NoOverwrite

-----------------------------------------------------------------------------
LEMMA LongerIsPrefix ==
    ASSUME keyb \in Controller, keyb' \in Controller, Longer(keyb, keyb')
    PROVE  IsPrefix(Contents, Contents')
<1>1. keyb.used \in Nat /\ keyb'.used \in Nat
    BY Parameters DEF Controller
<1>2. PICK m \in Nat, n \in Nat : m = keyb.used /\ n = keyb'.used /\ m <= n
    BY <1>1 DEF Longer
<1>3. /\ Contents = [i \in 1..m |-> At(keyb, i)]
      /\ Contents' = [i \in 1..n |-> At(keyb', i)]
    BY <1>2 DEF Contents, At
<1>4. Len(Contents) = m /\ Len(Contents') = n
    BY <1>3
<1>5. \A i \in 1..m : Contents[i] = Contents'[i]
    BY <1>2, <1>3 DEF Longer
<1> QED BY <1>2, <1>4, <1>5 DEF IsPrefix

LEMMA AdvancedIsTail ==
    ASSUME keyb \in Controller, keyb' \in Controller, Advanced(keyb, keyb')
    PROVE  /\ Contents # <<>> /\ Contents' = Tail(Contents)
           /\ keyb'.p60data = Head(Contents)
<1>1. PICK m \in Nat, n \in Nat : m = keyb.used /\ n = keyb'.used /\ n = m - 1 /\ m > 0
    BY Parameters DEF Controller, Advanced
<1>2. /\ Contents = [i \in 1..m |-> At(keyb, i)]
      /\ Contents' = [i \in 1..n |-> At(keyb', i)]
    BY <1>1 DEF Contents, At
<1>3. \A i \in 1..n : At(keyb', i) = At(keyb, i + 1)
    BY <1>1 DEF Advanced
<1>4. Contents # <<>> /\ Head(Contents) = At(keyb, 1)
    BY <1>1, <1>2
<1>5. Tail(Contents) = [i \in 1..n |-> At(keyb, i + 1)]
    BY <1>1, <1>2
<1> QED BY <1>1, <1>2, <1>3, <1>4, <1>5 DEF Advanced

LEMMA OnlyIsContents ==
    ASSUME NEW byte, Only(keyb', byte)
    PROVE  Contents' = <<byte>>
<1>1. Contents' = [i \in 1..1 |-> At(keyb', i)]
    BY DEF Contents, At, Only
<1> QED BY <1>1 DEF Only

\* The ring is a queue, at every size: bytes leave it for port 60h in the order
\* they came, and none of them changes while it waits (keyboard.cpp:62-95).
THEOREM BytesInOrder == Spec => InOrder
<1>1. IInv /\ [Next]_vars =>
        [\/ IsPrefix(Contents, Contents')
         \/ /\ Contents # <<>>
            /\ Contents' = Tail(Contents)
            /\ keyb.p60data' = Head(Contents)
         \/ Contents' \in {<<Single("ack")>>, <<Single("echo")>>}]_vars
    <2>1. SUFFICES ASSUME IInv, Next
                   PROVE  \/ IsPrefix(Contents, Contents')
                          \/ /\ Contents # <<>>
                             /\ Contents' = Tail(Contents)
                             /\ keyb'.p60data = Head(Contents)
                          \/ Contents' \in {<<Single("ack")>>, <<Single("echo")>>}
        OBVIOUS
    <2>2. keyb \in Controller /\ keyb' \in Controller
        BY <2>1, StepKeeps DEF IInv
    <2>3. \/ Longer(keyb, keyb') \/ Advanced(keyb, keyb')
          \/ Only(keyb', Single("ack")) \/ Only(keyb', Single("echo"))
        <3>1. CASE Host
            BY <2>1, <3>1, AddKeyKeeps DEF Host, IInv
        <3>2. CASE KEYBOARD_TickHandler
            BY <2>1, <3>2, TickKeeps
        <3>3. CASE KEYBOARD_TransferBuffer
            BY <2>1, <3>3, TransferKeeps
        <3>4. CASE Guest
            <4>1. Pauses # {} /\ Rates # {}
                BY KeyboardAssumption
            <4> QED BY <2>1, <3>4, <4>1, ReadKeeps, CommandKeeps, OutportKeeps, DataKeeps,
                    Write64Keeps DEF Guest
        <3> QED BY <2>1, <3>1, <3>2, <3>3, <3>4 DEF Next
    <2> QED BY <2>2, <2>3, LongerIsPrefix, AdvancedIsTail, OnlyIsContents
<1> QED BY <1>1, Invariance, PTL DEF Spec, InOrder

=============================================================================
