------------------------------ MODULE Keyboard ------------------------------
(***************************************************************************)
(* The keyboard controller of dosbox/src/hardware/keyboard.cpp: a ring of  *)
(* scancodes between the host's key events and the guest's reads of port   *)
(* 60h, moved one byte at a time by an event of the queue (EventList) that *)
(* raises IRQ 1; the commands on ports 60h and 64h; and key repeat.        *)
(*                                                                         *)
(* A byte is named for what it means; a free slot of the ring is Empty,    *)
(* since its old value is not read again.  Time is abstract: the           *)
(* transfer event may fire at any moment after it is scheduled, and a tick *)
(* may come at any moment.  Ports 61h and 62h (timer 2 and speaker) are    *)
(* left out.                                                               *)
(***************************************************************************)
EXTENDS Integers, SequencesExt

CONSTANTS
    KEYBUFSIZE,
    PlainKeys, ExtendedKeys,   \* keys of one byte, of two bytes (E0h, code)
    LongKeys,                  \* "pause" and "printscreen", if the host has them
    Pauses, Rates,             \* typematic delays and rates, in ticks
    Commands60, Commands64,    \* bytes the guest writes to the two ports
    MayOverflow                \* whether the event queue may be full

Keys == PlainKeys \cup ExtendedKeys \cup LongKeys
NoKey == "KBD_NONE"
Slots == 0..(KEYBUFSIZE - 1)
Commands == {"CMD_NONE", "CMD_SETLEDS", "CMD_SETTYPERATE", "CMD_SETOUTPORT"}

ASSUME KeyboardAssumption ==
    /\ KEYBUFSIZE \in Nat \ {0}
    /\ NoKey \notin Keys
    /\ LongKeys \subseteq {"pause", "printscreen"}
    /\ PlainKeys \cap ExtendedKeys = {}
    /\ {"pause", "printscreen"} \cap (PlainKeys \cup ExtendedKeys) = {}
    /\ Pauses \cup Rates \subseteq Nat \ {0}
    /\ Pauses # {} /\ Rates # {}
    /\ MayOverflow \in BOOLEAN

VARIABLES
    keyb,          \* the struct keyb
    transfers,     \* KEYBOARD_TransferBuffer events in the event queue
    a20,           \* MEM_A20_Enabled()
    fatal,         \* left through E_Exit("Unsupported key press")
    held,          \* history: keys the host holds down
    dropped        \* history: the event queue was full when asked
vars == <<keyb, transfers, a20, fatal, held, dropped>>

\* a byte: a code with its release bit, or a prefix or answer that has none
Code(key, pressed) == <<key, pressed>>
Single(name) == <<name, FALSE>>
Empty == Single("empty")

\* what waits in the ring, oldest first
Contents ==
    [i \in 1..keyb.used |-> keyb.buffer[(keyb.pos + i - 1) % KEYBUFSIZE]]

-----------------------------------------------------------------------------
(* Helpers, on the values k of keyb and n of transfers they find.          *)

Blank == [slot \in Slots |-> Empty]

KEYBOARD_SetPort60(k, byte) ==
    [k EXCEPT !.p60changed = TRUE, !.p60data = byte]

\* the transfer removed from the event queue, the ring emptied
KEYBOARD_ClrBuffer(k) ==
    [k EXCEPT !.used = 0, !.pos = 0, !.scheduled = FALSE, !.buffer = Blank]

\* Faulty variants: a full ring is written to; a transfer is scheduled while
\* port 60h holds a byte not read yet.
AddBuffer_unbounded(k, byte) ==
    [k EXCEPT !.buffer[(k.pos + k.used) % KEYBUFSIZE] = byte,
              !.used = @ + 1,
              !.scheduled = @ \/ ~k.p60changed]
AddBuffer_eager(k, byte) ==
    IF k.used >= KEYBUFSIZE THEN k
    ELSE [k EXCEPT !.buffer[(k.pos + k.used) % KEYBUFSIZE] = byte,
                   !.used = @ + 1,
                   !.scheduled = TRUE]

\* a byte that does not fit is dropped
KEYBOARD_AddBuffer(k, byte) ==
    IF k.used >= KEYBUFSIZE THEN k
    ELSE [k EXCEPT !.buffer[(k.pos + k.used) % KEYBUFSIZE] = byte,
                   !.used = @ + 1,
                   !.scheduled = @ \/ ~k.p60changed]

\* the bytes of one key event
AddScancode(k, key, pressed) ==
    LET Add(after, byte) == KEYBOARD_AddBuffer(after, byte)
        e0 == Add(k, Single("e0"))
    IN  CASE key \in PlainKeys    -> Add(k, Code(key, pressed))
          [] key \in ExtendedKeys -> Add(e0, Code(key, pressed))
          [] key = "pause" ->
               Add(Add(Add(k, Single("e1")), Code("ctrl", pressed)), Code("numlock", pressed))
          [] key = "printscreen" ->
               Add(Add(Add(e0, Code("shift", pressed)), Single("e0")), Code("print", pressed))

\* The controller goes from before (keyb, or keyb with its ring cleared) to
\* after, with so many transfers queued; where scheduled is set in between the
\* code calls PIC_AddEvent, and a full event queue ignores the call.
Becomes(before, after, queued) ==
    /\ keyb' = after
    /\ IF after.scheduled /\ ~before.scheduled
         THEN \/ transfers' = queued + 1 /\ UNCHANGED dropped
              \/ MayOverflow /\ transfers' = queued /\ dropped' = TRUE
         ELSE transfers' = queued /\ UNCHANGED dropped

Schedule(k) == [k EXCEPT !.scheduled = TRUE]

-----------------------------------------------------------------------------
(* The host and the emulator's clock.                                      *)

\* key repeat; KEYBOARD_AddKey returns before it for the two long keys
Press(k, key) ==
    IF key \in LongKeys THEN k
    ELSE [k EXCEPT !.wait = IF k.key = key THEN k.rate ELSE k.pause,
                   !.key = key]

\* Faulty variant: the release of the repeating key is not noticed.
Release_ignored(k, key) == k

Release(k, key) ==
    IF k.key = key  \* never a long key
      THEN [k EXCEPT !.key = NoKey, !.wait = 0]
      ELSE k

KEYBOARD_AddKey(key, pressed) ==
    LET k == IF pressed THEN Press(keyb, key) ELSE Release(keyb, key)
    IN  /\ Becomes(keyb, AddScancode(k, key, pressed), transfers)
        /\ held' = IF pressed THEN held \cup {key} ELSE held \ {key}
        /\ UNCHANGED <<a20, fatal>>

KEYBOARD_TickHandler ==
    /\ keyb.wait > 0
    /\ LET k == [keyb EXCEPT !.wait = @ - 1]
       IN  IF k.wait > 0
             THEN keyb' = k /\ UNCHANGED <<transfers, dropped, fatal>>
           ELSE IF k.key = NoKey
             THEN fatal' = TRUE /\ UNCHANGED <<keyb, transfers, dropped>>
             ELSE /\ Becomes(keyb, AddScancode(Press(k, k.key), k.key, TRUE),
                             transfers)
                  /\ UNCHANGED fatal
    /\ UNCHANGED <<a20, held>>

\* Faulty variant: the position leaves the ring.
Moved_unwrapped(k) ==
    [KEYBOARD_SetPort60(k, k.buffer[k.pos]) EXCEPT
       !.buffer[k.pos] = Empty, !.pos = @ + 1, !.used = @ - 1]

\* the oldest byte moves to port 60h
Moved(k) ==
    [KEYBOARD_SetPort60(k, k.buffer[k.pos]) EXCEPT
       !.buffer[k.pos] = Empty,
       !.pos = (@ + 1) % KEYBUFSIZE,
       !.used = @ - 1]

\* Faulty variant: the event does not say that it has fired.
Transferred_still_scheduled(k) ==
    [(IF k.used = 0 THEN k ELSE Moved(k)) EXCEPT !.scheduled = TRUE]

Transferred(k) == IF k.used = 0 THEN k ELSE Moved(k)

\* the event fires
KEYBOARD_TransferBuffer ==
    /\ transfers > 0
    /\ keyb' = Transferred([keyb EXCEPT !.scheduled = FALSE])
    /\ transfers' = transfers - 1
    /\ UNCHANGED <<a20, fatal, held, dropped>>

-----------------------------------------------------------------------------
(* The guest.                                                              *)

\* Faulty variant: a read does not ask for the next byte.
read_p60_passive ==
    /\ keyb' = [keyb EXCEPT !.p60changed = FALSE]
    /\ UNCHANGED <<transfers, a20, fatal, held, dropped>>

read_p60 ==
    /\ LET k == [keyb EXCEPT !.p60changed = FALSE]
       IN  Becomes(keyb, IF k.used > 0 THEN Schedule(k) ELSE k, transfers)
    /\ UNCHANGED <<a20, fatal, held>>

\* the controller clears its ring and answers with one byte
Answer(k, byte) ==
    LET cleared == KEYBOARD_ClrBuffer(k)
    IN  Becomes(cleared, KEYBOARD_AddBuffer(cleared, Single(byte)), 0)

\* a command byte to port 60h
write_p60_command(val) ==
    /\ keyb.command = "CMD_NONE"
    /\ LET k == CASE val = "ed" -> [keyb EXCEPT !.command = "CMD_SETLEDS"]
                  [] val = "f3" -> [keyb EXCEPT !.command = "CMD_SETTYPERATE"]
                  [] val = "f4" -> [keyb EXCEPT !.scanning = TRUE]
                  [] val \in {"f5", "f6"} -> [keyb EXCEPT !.scanning = FALSE]
                  [] OTHER -> keyb     \* ee, f2 and unknown commands
       IN  Answer(k, IF val = "ee" THEN "echo" ELSE "ack")
    /\ UNCHANGED <<a20, fatal, held>>

\* the data byte that follows a command
write_p60_outport(bit1) ==
    /\ keyb.command = "CMD_SETOUTPORT"
    /\ a20' = bit1
    /\ keyb' = [keyb EXCEPT !.command = "CMD_NONE"]
    /\ UNCHANGED <<transfers, fatal, held, dropped>>

write_p60_typerate(pause, rate) ==
    /\ keyb.command = "CMD_SETTYPERATE"
    /\ Answer([keyb EXCEPT !.pause = pause, !.rate = rate,
                           !.command = "CMD_NONE"], "ack")
    /\ UNCHANGED <<a20, fatal, held>>

write_p60_leds ==
    /\ keyb.command = "CMD_SETLEDS"
    /\ Answer([keyb EXCEPT !.command = "CMD_NONE"], "ack")
    /\ UNCHANGED <<a20, fatal, held>>

write_p64(val) ==
    /\ LET k == CASE val = "ae" ->
                       [keyb EXCEPT !.active = TRUE,
                          !.scheduled = @ \/ (keyb.used > 0 /\ ~keyb.p60changed)]
                  [] val = "ad" -> [keyb EXCEPT !.active = FALSE]
                  [] val = "d0" -> KEYBOARD_SetPort60(keyb, Code("outport", a20))
                  [] val = "d1" -> [keyb EXCEPT !.command = "CMD_SETOUTPORT"]
                  [] OTHER -> keyb
       IN  Becomes(keyb, k, transfers)
    /\ UNCHANGED <<a20, fatal, held>>

-----------------------------------------------------------------------------
Init ==
    /\ \E pause \in Pauses, rate \in Rates :
          keyb = [buffer |-> Blank, used |-> 0, pos |-> 0,
                  key |-> NoKey, wait |-> 0, pause |-> pause, rate |-> rate,
                  command |-> "CMD_NONE", p60data |-> Empty,
                  p60changed |-> FALSE, active |-> TRUE, scanning |-> TRUE,
                  scheduled |-> FALSE]
    /\ transfers = 0
    /\ a20 = FALSE
    /\ fatal = FALSE
    /\ held = {}
    /\ dropped = FALSE

Host ==
    \E key \in Keys : \/ KEYBOARD_AddKey(key, TRUE)
                      \/ key \in held /\ KEYBOARD_AddKey(key, FALSE)

Guest ==
    \/ read_p60
    \/ \E val \in Commands60 : write_p60_command(val)
    \/ \E bit1 \in BOOLEAN : write_p60_outport(bit1)
    \/ \E pause \in Pauses, rate \in Rates : write_p60_typerate(pause, rate)
    \/ write_p60_leds
    \/ \E val \in Commands64 : write_p64(val)

Next ==
    /\ ~fatal
    /\ Host \/ Guest \/ KEYBOARD_TickHandler \/ KEYBOARD_TransferBuffer

Spec == Init /\ [][Next]_vars

(* A scheduled event fires (EventList!EventsRun), and the guest reads port *)
(* 60h when a byte is waiting there.                                       *)
Fairness ==
    /\ WF_vars(KEYBOARD_TransferBuffer)
    /\ WF_vars(keyb.p60changed /\ read_p60)

FairSpec == Spec /\ Fairness

-----------------------------------------------------------------------------
(* Properties.                                                             *)

Bytes == ({"empty", "e0", "e1", "ack", "echo"} \X {FALSE})
    \cup ((Keys \cup {"outport", "ctrl", "numlock", "shift", "print"}) \X BOOLEAN)

Controller ==
    [buffer : [Slots -> Bytes], used : 0..KEYBUFSIZE, pos : Slots,
     key : Keys \cup {NoKey}, wait : Nat, pause : Pauses, rate : Rates,
     command : Commands, p60data : Bytes, p60changed : BOOLEAN,
     active : BOOLEAN, scanning : BOOLEAN, scheduled : BOOLEAN]

\* The ring holds bytes within its bounds; at most one transfer is queued.
TypeOK ==
    /\ keyb \in Controller
    /\ transfers \in 0..1
    /\ {a20, fatal, dropped} \subseteq BOOLEAN
    /\ held \subseteq Keys

\* Bytes never wait for nothing: while the ring holds one, either a transfer
\* is queued or the byte before it has not been read; unless the event queue
\* was full when the transfer was scheduled.
NoStall ==
    /\ keyb.used > 0 => keyb.scheduled \/ keyb.p60changed
    /\ ~dropped => keyb.scheduled = (transfers > 0)

\* Only a key the host still holds repeats; so the tick handler never hands
\* KBD_NONE to KEYBOARD_AddKey, which would end the emulator.
RepeatHeld == keyb.wait > 0 => keyb.key \in held

\* KEYBOARD_AddKey never meets a key it does not know.
NoUnsupportedKey == ~fatal

\* The guest sees bytes in the order they were added: a step leaves the ring
\* alone, appends to it, moves its oldest byte to port 60h, or clears it for
\* the answer to a command.
InOrder ==
    [][\/ IsPrefix(Contents, Contents')
       \/ /\ Contents # <<>>
          /\ Contents' = Tail(Contents)
          /\ keyb.p60data' = Head(Contents)
       \/ Contents' \in {<<Single("ack")>>, <<Single("echo")>>}]_vars

\* A byte the guest has not read is never overwritten, unless command D0h put
\* it, or puts the next one, directly into port 60h.
NoOverwrite ==
    [][keyb.p60changed /\ keyb.p60data' # keyb.p60data
          => \E b \in BOOLEAN :
                Code("outport", b) \in {keyb.p60data, keyb.p60data'}]_vars

\* A full ring gets room again, while the event queue has not failed it.
Drains == keyb.used = KEYBUFSIZE /\ ~dropped
              ~> keyb.used < KEYBUFSIZE \/ dropped
=============================================================================
