--------------------------- MODULE CommandBridge ---------------------------
(***************************************************************************)
(* Commands from the iOS user interface to the DOS shell                   *)
(* (dospad/Main/DOSPadEmulator.m, dosbox/src/shell/shell.cpp).             *)
(*                                                                         *)
(* To take a command is not to run it: one that names a batch file only    *)
(* sets bf, whose lines DOS_Shell::Run reads at the head of its loop.      *)
(*                                                                         *)
(* Two threads share a list without a lock.  The user interface appends a  *)
(* command and presses Return, so that a shell that waits for a line comes *)
(* back to look at the list.  An access to the list is one step here: what *)
(* NSMutableArray does when both threads are inside it is not modelled.    *)
(***************************************************************************)
EXTENDS Integers, Sequences

CONSTANTS
    Automount,    \* number of commands start() lists before REM END AUTOMOUNT
    Autostart,    \* number of commands it lists after it
    MaxCommands,  \* bound: commands in all
    MaxReturns    \* bound: Return keys waiting

END == 0          \* REM END AUTOMOUNT; the commands are 1, 2, 3, ...

ASSUME BridgeAssumption ==
    /\ {Automount, Autostart, MaxCommands, MaxReturns} \subseteq Nat

VARIABLES
    commandList,
    ready,        \* dospad_command_line_ready
    at,           \* where DOS_Shell::Run is: "automount" or "drain", a loop over the
                  \* list; "loop", the head of its do-loop; "input", InputCommand
    bf,           \* batch files, the last set first: "begun" once a line was read
    returns,      \* Return keys in the keyboard buffer
    sending,      \* the user interface is between the list and the key
    accepted,     \* history: the number of commands ever listed
    taken         \* history: the number of commands taken off the list
bridgeVars == <<commandList, ready, at, bf, returns, sending, accepted, taken>>

Numbers(from, to) == [i \in 1..(to - from + 1) |-> from + i - 1]

\* what a line may be: a command of the shell or a program, which ParseLine runs;
\* a batch file; CALL and a batch file
Lines == {"command", "batch", "call"}

\* the batch files after ParseLine: one that is not called replaces the last set
Parsed(files, line) ==
    IF line = "command" THEN files
    ELSE <<"unread">> \o (IF line = "call" \/ files = <<>> THEN files ELSE Tail(files))

-----------------------------------------------------------------------------
(* The user interface.                                                     *)

\* sendCommand up to the key; it refuses while the shell is not ready
sendCommand ==
    /\ ready /\ ~sending
    /\ accepted < MaxCommands
    /\ accepted' = accepted + 1
    /\ commandList' = Append(commandList, accepted')
    /\ sending' = TRUE
    /\ UNCHANGED <<ready, at, bf, returns, taken>>

\* Faulty variant: no key is pressed.
sendReturn_none ==
    /\ sending
    /\ sending' = FALSE
    /\ UNCHANGED <<commandList, ready, at, bf, returns, accepted, taken>>

\* the key
sendReturn ==
    /\ sending /\ returns < MaxReturns
    /\ returns' = returns + 1
    /\ sending' = FALSE
    /\ UNCHANGED <<commandList, ready, at, bf, accepted, taken>>

-----------------------------------------------------------------------------
(* The shell, whenever it is the current process.                          *)

Taking(line) ==
    /\ at \in {"automount", "drain"}
    /\ at = "automount" => line = "command"     \* MOUNT, IMGMOUNT, C: and CLS
    /\ bf' = Parsed(bf, line)
    /\ UNCHANGED <<ready, at, returns, sending, accepted>>

\* Faulty variant: the newest command is taken first.
GetCommand_newest(line) ==
    /\ Taking(line)
    /\ commandList # <<>> /\ commandList[Len(commandList)] # END
    /\ commandList' = SubSeq(commandList, 1, Len(commandList) - 1)
    /\ taken' = commandList[Len(commandList)]

\* dospad_get_next_command finds a command, which is parsed; the next one
\* follows at once, even if this one has set a batch file
GetCommand(line) ==
    /\ Taking(line)
    /\ commandList # <<>> /\ Head(commandList) # END
    /\ commandList' = Tail(commandList)
    /\ taken' = Head(commandList)

\* the automount loop ends, at its mark or at the end of the list
EndAutomount ==
    /\ at = "automount"
    /\ commandList = <<>> \/ Head(commandList) = END
    /\ commandList' = IF commandList = <<>> THEN <<>> ELSE Tail(commandList)
    /\ at' = "loop"
    /\ UNCHANGED <<ready, bf, returns, sending, accepted, taken>>

\* the head of the loop reads a line of the batch file set last, which is parsed
ReadLine(line) ==
    /\ at = "loop" /\ bf # <<>>
    /\ bf' = Parsed(<<"begun">> \o Tail(bf), line)
    /\ UNCHANGED <<commandList, ready, at, returns, sending, accepted, taken>>

\* it finds the end of the batch file, or cannot open it, and deletes it
EndBatch ==
    /\ at = "loop" /\ bf # <<>>
    /\ bf' = Tail(bf)
    /\ UNCHANGED <<commandList, ready, at, returns, sending, accepted, taken>>

\* Faulty variant: it looks at the list whether a batch file is left or not.
NoBatch_unchecked ==
    /\ at = "loop"
    /\ at' = "drain"
    /\ UNCHANGED <<commandList, ready, bf, returns, sending, accepted, taken>>

\* without a batch file it looks at the list
NoBatch ==
    /\ at = "loop" /\ bf = <<>>
    /\ at' = "drain"
    /\ UNCHANGED <<commandList, ready, bf, returns, sending, accepted, taken>>

\* with the list empty it asks for a line, whatever the list has set bf to
Prompt ==
    /\ at = "drain" /\ commandList = <<>>
    /\ at' = "input"
    /\ ready' = TRUE      \* and never FALSE again
    /\ UNCHANGED <<commandList, bf, returns, sending, accepted, taken>>

\* InputCommand returns with a line, which is parsed: the user's own, or one
\* that a Return of sendCommand ends
InputCommand(own, line) ==
    /\ at = "input"
    /\ own \/ returns > 0
    /\ returns' = IF own THEN returns ELSE returns - 1
    /\ at' = "loop"
    /\ bf' = Parsed(bf, line)
    /\ UNCHANGED <<commandList, ready, sending, accepted, taken>>

\* a program reads the key before InputCommand does
SwallowReturn ==
    /\ returns > 0
    /\ returns' = returns - 1
    /\ UNCHANGED <<commandList, ready, at, bf, sending, accepted, taken>>

\* the first shell, started with /INIT, has parsed AUTOEXEC.BAT
BridgeInit ==
    /\ commandList = Numbers(1, Automount) \o <<END>>
                     \o Numbers(Automount + 1, Automount + Autostart)
    /\ ready = FALSE
    /\ at = "automount"
    /\ bf = <<"unread">>
    /\ returns = 0
    /\ sending = FALSE
    /\ accepted = Automount + Autostart
    /\ taken = 0

-----------------------------------------------------------------------------
(* Properties.                                                             *)

\* Commands are taken in the order they were listed, each once: what waits in
\* the list is exactly what follows the last one taken, with the mark in its
\* place until the automount loop has taken it.  They are taken between batch
\* files: before any line of AUTOEXEC.BAT up to the mark, and behind it never
\* (nor does the shell ask for a line) from the first line of a batch file to its
\* end.
TakenInOrder ==
    /\ commandList =
        IF at = "automount"
          THEN Numbers(taken + 1, Automount) \o <<END>> \o Numbers(Automount + 1, accepted)
          ELSE Numbers(taken + 1, accepted)
    /\ at = "automount" => bf = <<"unread">>
    /\ at # "loop" => bf \in Seq({"unread"})

\* A command the user interface was told is accepted (sendCommand answers YES)
\* is taken, whatever programs do with the Return key meant for the shell, and
\* then every batch file is run to its end, but for those that wait with the
\* shell for a line.
CommandsTaken == []<>(taken = accepted /\ (bf = <<>> \/ at = "input"))

\* "Go to startup program folder and run the program" (DOSPadEmulator.m:215): the
\* shell comes to have taken the commands of start() and run the batch files they
\* name, the user typing nothing.
StartupRuns == <>(taken >= Automount + Autostart /\ bf = <<>>)
=============================================================================
