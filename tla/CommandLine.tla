----------------------------- MODULE CommandLine -----------------------------
(***************************************************************************)
(* The terminal's side of Saturn: the line editor and commands of          *)
(* CommandLine, the characters and messages of Console, and the keys that  *)
(* the UART's interrupt handler hands to Console::RxChar in between.       *)
(*                                                                         *)
(* The foreground prints with interrupts enabled, one Step of              *)
(* ConsoleOutput at a time.  The handler prints from start to end with     *)
(* interrupts masked, so a key is one action; it uses the same format.     *)
(*                                                                         *)
(* Left to other modules: the UART's FIFO, the slots of the key buffer,    *)
(* and what starting and stopping the VM does besides printing.            *)
(* An operator whose name starts with Bug is not part of the model.        *)
(***************************************************************************)
EXTENDS ConsoleOutput

CONSTANTS
    MaxLen,     \* _cmd_max_len
    RxSize,     \* _rx_size
    MaxTyped,   \* bound of the model: keys pressed in a behaviour
    Address     \* a number that starting a VM prints

ASSUME EditorSizes == MaxLen \in Nat /\ MaxLen >= 3 /\ RxSize \in Nat \ {0} /\ MaxTyped \in Nat
ASSUME EditorAddress ==     \* as a 64-bit number has: at most MaxDigits digits
    /\ Address \in Nat
    /\ \A base \in {10, 16}: \E k \in 1 .. MaxDigits: Address < Power(base, k)

\* The keys that matter.  A name of a command is its first letter: "v s" is `vm start`.
Enter == "Enter"
Erase == "Erase"        \* backspace or DEL
CmdKey == "Ctrl-i"      \* systemKeys::cmdMode, which is no printable character
BeepKey == "b"
ShutdownKey == "s"
Space == " "
Printable == {"v", "s", "b", "q", "h", Space}
Keys == Printable \union {Enter, Erase, CmdKey}
Nul == "NUL"

VARIABLES
    format,     \* the console's format
    lines,      \* lines the foreground has to print before it goes on
    todo,       \* what is left to do of the line being printed
    line,       \* that line, as a whole
    shown,      \* what it has put on the screen
    disturbed,  \* the handler printed since it began
    at,         \* where the foreground is when its lines are printed
    cmdInput, cursorPos,
    rx,         \* Console::rxBuffer
    cmdMode,    \* Console::cmdMode
    vmState,
    typed,      \* keys pressed so far
    \* history
    screen,     \* the command as the user sees it behind the prompt
    erased,     \* the last edit took a character back
    overslept   \* the key came between the failed Out and the wfi

output == <<format, lines, todo, line, shown, disturbed>>
editor == <<cmdInput, cursorPos, screen, erased>>
vars   == <<output, at, editor, rx, cmdMode, vmState, typed, overslept>>

Raw  == LevelOf("none")
Info == LevelOf("info")
Log  == LevelOf("log")

StartedLines == << <<Info, Str(<<"application layer">>), Endl>>,
                   <<Info, Str(<<"command line started">>), Endl>> >>
PromptLine   == <<Raw, Str(<<"$ ">>)>>
NewLine      == <<Raw, Endl>>
EraseLine    == <<Raw, Str(<<"BS", " ", "BS">>)>>
EchoLine(c)  == <<Raw, Chr(c)>>
HelpLines    == << <<Raw, Str(<<"help">>), Endl>>, NewLine >>
BadLines     == << <<Raw, Str(<<"error">>), Endl>>, NewLine >>

\* OS_Storage::Load_Images maps (MemoryMap logs the page), tells what it copies and where
\* to, copies, and says OK on the same line; then Start_VM announces the VM.
StartLines == << <<Log, Str(<<"4KB page for address 0x">>), Fmt("hex"), Fmt("fill"),
                   Num(Address), Endl>>,
                 <<Info, Str(<<"copy OS binary to 0x">>), Fmt("fill"), Fmt("hex"),
                   Num(Address), Str(<<": ">>), Raw, Str(<<"OK">>), Endl>>,
                 <<Info, Endl, Str(<<"start VM">>), Endl>> >>

BeepLine     == <<Raw, Endl, Str(<<"(beep)">>), Endl>>
StopLine     == <<Raw, Endl, Info, Str(<<"request shutdown">>), Endl,
                  Info, Str(<<"VM stopped">>), Endl>>
NoVmLine     == <<Info, Str(<<"request to shutdown non-running VM">>), Endl>>

EmptyInput == [i \in 0 .. MaxLen |-> Nul]

\* `vm start` as it was typed.
StartText  == <<"v", Space, "s">>
StartInput == [i \in 0 .. MaxLen |-> IF i < 3 THEN StartText[i + 1] ELSE Nul]

(***************************************************************************)
(* Behaviours start with the command line, with `vm start` typed in,        *)
(* or with the guest running: each is reached from the first by keys that  *)
(* the bound on keys would otherwise use up.                               *)
(***************************************************************************)
Init ==
    /\ format = Fresh
    /\ todo = <<>> /\ line = <<>> /\ shown = <<>> /\ disturbed = FALSE
    /\ \/ /\ at = "prompt" /\ vmState = "stopped" /\ lines = StartedLines
          /\ cmdInput = EmptyInput /\ cursorPos = 0 /\ screen = <<>>
       \/ /\ at = "getchar" /\ vmState = "stopped" /\ lines = <<>>
          /\ cmdInput = StartInput /\ cursorPos = 3 /\ screen = StartText
       \/ /\ at = "guest" /\ vmState = "running" /\ lines = <<>>
          /\ cmdInput = StartInput /\ cursorPos = 3 /\ screen = StartText
    /\ erased = FALSE
    /\ rx = <<>> /\ cmdMode = FALSE
    /\ typed = 0 /\ overslept = FALSE

-----------------------------------------------------------------------------
(* The foreground's output. *)

NextLine ==
    /\ todo = <<>> /\ lines # <<>>
    /\ line' = Head(lines) /\ todo' = Head(lines) /\ lines' = Tail(lines)
    /\ shown' = <<>> /\ disturbed' = FALSE
    /\ UNCHANGED <<format, at, editor, rx, cmdMode, vmState, typed, overslept>>

PrintStep ==
    /\ todo # <<>>
    /\ LET step == Step(format, Head(todo))
       IN  /\ format' = step.format
           /\ shown' = shown \o step.out
           /\ todo' = step.rest \o Tail(todo)
    /\ UNCHANGED <<lines, line, disturbed, at, editor, rx, cmdMode, vmState, typed, overslept>>

Foreground(place) == todo = <<>> /\ lines = <<>> /\ at = place

\* Print these and go on at this place.
Say(what, place) ==
    /\ lines' = what
    /\ at' = place
    /\ UNCHANGED <<format, todo, line, shown, disturbed>>

-----------------------------------------------------------------------------
(* CommandLine::Start_Loop. *)

\* The head of the outer loop.
ShowPrompt ==
    /\ Foreground("prompt")
    /\ Say(<<PromptLine>>, "getchar")
    /\ cmdInput' = EmptyInput /\ cursorPos' = 0
    /\ screen' = <<>> /\ erased' = FALSE
    /\ UNCHANGED <<rx, cmdMode, vmState, typed, overslept>>

\* The switch on the character; what is no printable character is ignored.
EditEnter(c) ==
    /\ c = Enter
    /\ Say(<<NewLine>>, "parse")
    /\ UNCHANGED editor

EditErase(c) ==
    /\ c = Erase
    /\ IF cursorPos > 0
       THEN /\ Say(<<EraseLine>>, "getchar")
            /\ cursorPos' = cursorPos - 1
            /\ screen' = SubSeq(screen, 1, Len(screen) - 1) /\ erased' = TRUE
            /\ UNCHANGED cmdInput
       ELSE Say(<<>>, "getchar") /\ UNCHANGED editor

BugEditCharNoTerminator(c) ==
    /\ c \in Printable
    /\ Say(<<EchoLine(c)>>, "getchar")
    /\ screen' = Append(screen, c) /\ erased' = FALSE
    /\ IF cursorPos < MaxLen
       THEN /\ cmdInput' = [cmdInput EXCEPT ![cursorPos] = c]
            /\ cursorPos' = cursorPos + 1
       ELSE UNCHANGED <<cmdInput, cursorPos>>

BugEditCharOverruns(c) ==
    /\ c \in Printable
    /\ Say(<<EchoLine(c)>>, "getchar")
    /\ screen' = Append(screen, c) /\ erased' = FALSE
    /\ IF cursorPos <= MaxLen
       THEN /\ cmdInput' = [cmdInput EXCEPT ![cursorPos] = c, ![cursorPos + 1] = Nul]
            /\ cursorPos' = cursorPos + 1
       ELSE UNCHANGED <<cmdInput, cursorPos>>

EditChar(c) ==
    /\ c \in Printable
    /\ Say(<<EchoLine(c)>>, "getchar")
    /\ screen' = Append(screen, c) /\ erased' = FALSE
    /\ IF cursorPos < MaxLen
       THEN /\ cmdInput' = [cmdInput EXCEPT ![cursorPos] = c, ![cursorPos + 1] = Nul]
            /\ cursorPos' = cursorPos + 1
       ELSE UNCHANGED <<cmdInput, cursorPos>>

EditOther(c) ==
    /\ c = CmdKey
    /\ Say(<<>>, "getchar")
    /\ UNCHANGED editor

\* GetChar(sync): Out of the key buffer, and the editor; with no key it is going to sleep.
GetChar ==
    /\ Foreground("getchar")
    /\ rx # <<>>
    /\ rx' = Tail(rx)
    /\ EditEnter(Head(rx)) \/ EditErase(Head(rx)) \/ EditChar(Head(rx)) \/ EditOther(Head(rx))
    /\ UNCHANGED <<cmdMode, vmState, typed, overslept>>

GetCharEmpty ==
    /\ Foreground("getchar")
    /\ rx = <<>>
    /\ at' = "wfi_next"
    /\ UNCHANGED <<output, editor, rx, cmdMode, vmState, typed, overslept>>

Wfi ==
    /\ Foreground("wfi_next")
    /\ at' = "wfi"
    /\ UNCHANGED <<output, editor, rx, cmdMode, vmState, typed, overslept>>

-----------------------------------------------------------------------------
(* CommandLine::Parse_Command. *)

\* The string that starts at a place of the buffer.
CString(input, from) ==
    LET end == CHOOSE i \in from .. MaxLen:
                   input[i] = Nul /\ \A j \in from .. i - 1: input[j] # Nul
    IN  [k \in 1 .. end - from |-> input[from + k - 1]]

\* The loop stops at the first space, which becomes the end of the name, or at the end.
SplitAt(input) ==
    CHOOSE i \in 0 .. MaxLen:
        input[i] \in {Nul, Space} /\ \A j \in 0 .. i - 1: input[j] \notin {Nul, Space}
CmdName(input) == CString([input EXCEPT ![SplitAt(input)] = Nul], 0)
CmdArgs(input) == IF input[SplitAt(input)] = Nul THEN <<>>
                  ELSE CString(input, SplitAt(input) + 1)

\* Do_Vm: Start_VM prints and does not return.
Command(name, args) ==
    \/ name = <<"q">> /\ Say(<<>>, "quit")
    \/ name = <<"h">> /\ Say(HelpLines, "prompt")
    \/ name = <<"v">> /\ args = <<"s">> /\ Say(StartLines, "start")
    \/ name = <<"v">> /\ args # <<"s">> /\ Say(BadLines, "prompt")
    \/ name \notin {<<"q">>, <<"h">>, <<"v">>} /\ Say(BadLines, "prompt")

Parse ==
    /\ Foreground("parse")
    /\ Command(CmdName(cmdInput), CmdArgs(cmdInput))
    /\ UNCHANGED <<editor, rx, cmdMode, vmState, typed, overslept>>

EnterGuest ==
    /\ Foreground("start")
    /\ vmState' = "running"
    /\ at' = "guest"
    /\ UNCHANGED <<output, editor, rx, cmdMode, typed, overslept>>

\* A read of the virtual UART's data register: GetChar(async).
GuestReads ==
    /\ Foreground("guest")
    /\ rx' = IF rx = <<>> THEN rx ELSE Tail(rx)
    /\ UNCHANGED <<output, at, editor, cmdMode, vmState, typed, overslept>>

-----------------------------------------------------------------------------
(* Console::RxChar in the UART's interrupt handler. *)

\* Everything a line prints, at once: its tokens need at most MaxSteps steps.
MaxSteps == 40
Printed(s) ==
    IF s.todo = <<>> THEN s
    ELSE LET step == Step(s.format, Head(s.todo))
         IN  [format |-> step.format, todo |-> step.rest \o Tail(s.todo)]
PrintedFormat(toPrint) ==
    LET run[i \in 0 .. MaxSteps] ==
            IF i = 0 THEN [format |-> format, todo |-> toPrint] ELSE Printed(run[i - 1])
    IN  run[MaxSteps].format

HandlerPrints(toPrint) ==
    /\ format' = PrintedFormat(toPrint)
    /\ disturbed' = TRUE
    /\ UNCHANGED <<todo, line, shown>>

BugRxInNoLimit(q, c) == Append(q, c)

RxIn(q, c) == IF Len(q) < RxSize THEN Append(q, c) ELSE q

\* The interrupt wakes a CPU that sleeps; one that comes just before the wfi does not.
BugWakeSleepsOn == at' = at

Wake == at' = IF at = "wfi" THEN "getchar" ELSE at

\* A key for the foreground: the handler leaves what is printed alone.
Buffer(q) ==
    /\ rx' = q
    /\ Wake
    /\ UNCHANGED <<output, vmState>>

Beep ==
    /\ HandlerPrints(BeepLine)
    /\ Wake
    /\ UNCHANGED <<lines, rx, vmState>>

\* Stop_VM, called again at the handler's end if a VM runs: a new command line takes over.
StopVm ==
    /\ vmState = "running"
    /\ HandlerPrints(StopLine)
    /\ vmState' = "stopped" /\ at' = "prompt" /\ lines' = StartedLines
    /\ UNCHANGED rx

NoVm ==
    /\ vmState # "running"
    /\ HandlerPrints(NoVmLine)
    /\ Wake
    /\ UNCHANGED <<lines, rx, vmState>>

RxChar(c) ==
    \/ ~cmdMode /\ c = CmdKey /\ cmdMode' = TRUE /\ Buffer(rx)
    \/ ~cmdMode /\ c # CmdKey /\ cmdMode' = FALSE /\ Buffer(RxIn(rx, c))
    \/ cmdMode /\ c = BeepKey /\ cmdMode' = FALSE /\ Beep
    \/ cmdMode /\ c = ShutdownKey /\ cmdMode' = FALSE /\ (StopVm \/ NoVm)
    \/ /\ cmdMode /\ c \notin {BeepKey, ShutdownKey}
       /\ cmdMode' = FALSE
       /\ Buffer(RxIn(RxIn(rx, CmdKey), c))

\* A key is pressed, and the UART's interrupt taken.
TypeKey(c) ==
    /\ typed < MaxTyped
    /\ typed' = typed + 1
    /\ overslept' = (at = "wfi_next" \/ (overslept /\ at # "wfi"))
    /\ RxChar(c)
    /\ UNCHANGED editor

\* Asleep, left by `quit`, or with the keyboard silent.
Idle ==
    /\ Foreground("wfi") \/ Foreground("quit")
    /\ UNCHANGED vars

-----------------------------------------------------------------------------
ForegroundNext ==
    \/ NextLine \/ PrintStep \/ ShowPrompt \/ GetChar \/ GetCharEmpty \/ Wfi \/ Parse \/ EnterGuest

Next ==
    \/ ForegroundNext
    \/ GuestReads
    \/ \E c \in Keys: TypeKey(c)
    \/ Idle

\* The CPU executes its next instruction; keys and the guest promise nothing.
Spec == Init /\ [][Next]_vars /\ WF_vars(ForegroundNext)

-----------------------------------------------------------------------------
Places == {"prompt", "getchar", "wfi_next", "wfi", "parse", "start", "guest", "quit"}

TypeOK ==
    /\ format \in Formats
    /\ at \in Places
    /\ disturbed \in BOOLEAN
    /\ cmdInput \in [0 .. MaxLen -> Printable \union {Nul}]
    /\ cursorPos \in 0 .. MaxLen
    /\ screen \in Seq(Printable) /\ erased \in BOOLEAN
    /\ rx \in Seq(Keys) /\ Len(rx) <= RxSize
    /\ cmdMode \in BOOLEAN
    /\ vmState \in {"stopped", "running"}
    /\ typed \in 0 .. MaxTyped
    /\ overslept \in BOOLEAN

\* The string in the buffer always ends inside it, so that Parse_Command and Str_Cmp,
\* which look for its end, never read past the array.
InputEnds == cmdInput[MaxLen] = Nul

\* What a complete line has put on the screen is what the line says by itself: no base,
\* fill or level of an earlier line, of the foreground or of the handler, shows in it and
\* a suppressed line stays suppressed; unless the handler printed while it was under way.
LineIntact == todo = <<>> /\ ~disturbed => shown = Says(line)

\* The command about to be parsed is the one on the screen, whatever was typed and taken
\* back; unless it was too long, or ends with a character taken back: that stays in it.
CommandIsScreen ==
    Len(screen) <= cursorPos =>
        /\ Len(screen) = cursorPos
        /\ \A i \in 1 .. cursorPos: cmdInput[i - 1] = screen[i]
        /\ ~erased => cmdInput[cursorPos] = Nul

\* A key that was typed is taken, by the editor or a guest that reads; only a key that came
\* between the look into the empty buffer and the wfi waits for another key.
KeysTaken ==
    rx # <<>> ~> (rx = <<>> \/ overslept \/ at \in {"guest", "quit"})
=============================================================================
