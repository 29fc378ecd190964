---------------------------- MODULE ConsoleOutput ----------------------------
(***************************************************************************)
(* The formatting output of Saturn's console, Console::operator<<.         *)
(*                                                                         *)
(* A statement of the code such as                                         *)
(*   Info() << "copy to 0x" << fmt::hex << addr << fmt::endl               *)
(* is a sequence of tokens.  The console keeps the format between tokens   *)
(* and reads it more than once for one token, so Step does one read: it    *)
(* returns the new format, what reaches the screen, and the tokens still   *)
(* to be done in place of the one it was given.                            *)
(*                                                                         *)
(* A text is a sequence of strings; texts are compared, never taken apart. *)
(***************************************************************************)
EXTENDS SequencesExt

\* llevel; the console shows what has at least its own level, info since SetLevel.
Levels == <<"log", "info", "error", "none">>
Shown(level) == level # "log"
Prefix(level) == CASE level = "log"   -> <<"[log] ">>
                   [] level = "info"  -> <<"[inf] ">>
                   [] level = "error" -> <<"[err] ">>
                   [] level = "none"  -> <<>>

\* currentMsgLevel, isLevel, isHex and isFill.
Formats == [level : Range(Levels), isLevel : BOOLEAN, isHex : BOOLEAN, isFill : BOOLEAN]
Fresh   == [level |-> "info", isLevel |-> FALSE, isHex |-> FALSE, isFill |-> FALSE]

LevelOf(l)  == [op |-> "level", level |-> l]
Str(text)   == [op |-> "str", text |-> text]
Chr(c)      == [op |-> "char", text |-> <<c>>]
Num(n)      == [op |-> "num", value |-> n]           \* a uint64_t or size_t
Fmt(f)      == [op |-> "fmt", fmt |-> f]
Endl        == Fmt("endl")
LineBreak   == <<"\r\n">>

FillSize == 16
HexTable == <<"0", "1", "2", "3", "4", "5", "6", "7", "8", "9", "a", "b", "c", "d", "e", "f">>

\* The loop of UnsignedToStr: the last digit first.
ToStr(n, divBase) ==
    LET digits[k \in 0 .. n] ==
            IF k < divBase THEN <<HexTable[k + 1]>>
            ELSE Append(digits[k \div divBase], HexTable[(k % divBase) + 1])
    IN  digits[n]

Zeros(text, fill) == [i \in 1 .. fill - Len(text) |-> "0"]

Result(format, out, rest) == [format |-> format, out |-> out, rest |-> rest]

\* ShowLogLevel, a message of its own.
LevelMessage(level) == IF level = "none" THEN <<>> ELSE <<Str(Prefix(level))>>

StepStr(f, t) ==
    IF ~Shown(f.level) THEN Result(f, <<>>, <<>>)
    ELSE IF ~f.isLevel
         THEN Result([f EXCEPT !.isLevel = TRUE], <<>>, Append(LevelMessage(f.level), t))
         ELSE Result(f, t.text, <<>>)

StepLevel(f, t) ==
    Result([f EXCEPT !.level = t.level, !.isLevel = TRUE], <<>>,
           IF f.isLevel THEN <<>> ELSE LevelMessage(t.level))

\* fmt::endl is a message and, after it, a reset of the format.
BugStepFmtKeepsLevel(f, t) ==
    CASE t.fmt = "endl"  -> Result(f, <<>>, <<Str(LineBreak), Fmt("reset")>>)
      [] t.fmt = "reset" -> Result([f EXCEPT !.isHex = FALSE, !.isFill = FALSE], <<>>, <<>>)
      [] t.fmt = "hex"   -> Result([f EXCEPT !.isHex = TRUE], <<>>, <<>>)
      [] t.fmt = "dec"   -> Result([f EXCEPT !.isHex = FALSE], <<>>, <<>>)
      [] t.fmt = "fill"  -> Result([f EXCEPT !.isFill = TRUE], <<>>, <<>>)

StepFmt(f, t) ==
    CASE t.fmt = "endl"  -> Result(f, <<>>, <<Str(LineBreak), Fmt("reset")>>)
      [] t.fmt = "reset" -> Result([f EXCEPT !.isHex = FALSE, !.isFill = FALSE,
                                             !.isLevel = FALSE], <<>>, <<>>)
      [] t.fmt = "hex"   -> Result([f EXCEPT !.isHex = TRUE], <<>>, <<>>)
      [] t.fmt = "dec"   -> Result([f EXCEPT !.isHex = FALSE], <<>>, <<>>)
      [] t.fmt = "fill"  -> Result([f EXCEPT !.isFill = TRUE], <<>>, <<>>)

\* A number reads isFill first, then isHex for the base, and isHex again to fill up.
StepNum(f, t) ==
    CASE t.op = "num" ->
            Result(f, <<>>, <<[op    |-> "digits", value |-> t.value,
                               fill  |-> IF f.isFill THEN FillSize ELSE 0]>>)
      [] t.op = "digits" ->
            Result(f, <<>>, <<[op |-> "pad", text |-> ToStr(t.value, IF f.isHex THEN 16 ELSE 10),
                               fill |-> t.fill]>>)
      [] t.op = "pad" ->
            Result(f, <<>>, <<Str(IF f.isHex THEN Zeros(t.text, t.fill) \o t.text ELSE t.text)>>)

\* A single character is shown whatever the level.
Step(f, t) ==
    CASE t.op = "level" -> StepLevel(f, t)
      [] t.op = "str"   -> StepStr(f, t)
      [] t.op = "char"  -> Result(f, t.text, <<>>)
      [] t.op = "fmt"   -> StepFmt(f, t)
      [] t.op \in {"num", "digits", "pad"} -> StepNum(f, t)

-----------------------------------------------------------------------------
(***************************************************************************)
(* What a line says by itself: the text its tokens ask for, printed from   *)
(* its first level marker to its end with nothing left over from before.   *)
(***************************************************************************)

\* A number by its digits, most significant first; numbers have 64 bits.
MaxDigits == 20
Power(base, k) ==
    LET power[i \in 0 .. MaxDigits] == IF i = 0 THEN 1 ELSE base * power[i - 1]
    IN  power[k]
Length(n, base) ==
    CHOOSE k \in 1 .. MaxDigits: n < Power(base, k) /\ \A j \in 1 .. k - 1: n >= Power(base, j)
Numeral(n, base) ==
    LET len == Length(n, base)
    IN  [i \in 1 .. len |-> HexTable[((n \div Power(base, len - i)) % base) + 1]]
Number(d, n) ==
    IF d.isHex /\ d.isFill THEN Zeros(Numeral(n, 16), FillSize) \o Numeral(n, 16)
    ELSE Numeral(n, IF d.isHex THEN 16 ELSE 10)

\* A message is marked with its level once, and nothing is seen of one that is not shown.
Marked(d) ==
    IF d.isLevel THEN d
    ELSE [d EXCEPT !.text = IF Shown(d.level) THEN @ \o Prefix(d.level) ELSE @, !.isLevel = TRUE]
Put(d, text) == IF Shown(d.level) THEN [Marked(d) EXCEPT !.text = @ \o text] ELSE d

\* The text after one more token, and the format it leaves for the others.
Token(d, t) ==
    CASE t.op = "level" -> Marked([d EXCEPT !.level = t.level])
      [] t.op = "str"   -> Put(d, t.text)
      [] t.op = "char"  -> [d EXCEPT !.text = @ \o t.text]
      [] t.op = "num"   -> Put(d, Number(d, t.value))
      [] t.op = "fmt" /\ t.fmt = "endl" ->
            [Put(d, LineBreak) EXCEPT !.isHex = FALSE, !.isFill = FALSE, !.isLevel = FALSE]
      [] t.op = "fmt" /\ t.fmt = "hex"  -> [d EXCEPT !.isHex = TRUE]
      [] t.op = "fmt" /\ t.fmt = "dec"  -> [d EXCEPT !.isHex = FALSE]
      [] t.op = "fmt" /\ t.fmt = "fill" -> [d EXCEPT !.isFill = TRUE]

Blank == [text |-> <<>>, level |-> "info", isLevel |-> FALSE, isHex |-> FALSE, isFill |-> FALSE]

Says(line) ==
    LET said[i \in 0 .. Len(line)] == IF i = 0 THEN Blank ELSE Token(said[i - 1], line[i])
    IN  said[Len(line)].text
=============================================================================
