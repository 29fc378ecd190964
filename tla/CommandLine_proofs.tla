-------------------------- MODULE CommandLine_proofs --------------------------
(***************************************************************************)
(* Proofs about CommandLine, for every size of its buffers, every address, *)
(* whatever is typed and whenever the handler prints into a line.          *)
(*                                                                         *)
(* The editor depends on the keys alone: EditorInv is inductive by itself. *)
(* The output needs OutputInv: every line shows what it says by itself     *)
(* because every step of printing does a part of what its token means      *)
(* (StepDoes) and what is left means the rest (LineGoesOn).                *)
(*                                                                         *)
(* Digits, the tokens of a line and the steps of the handler are recursive *)
(* functions.  That such a function exists is shown by extending it place  *)
(* by place (FiniteRecursion), what it computes by going through places    *)
(* one after the other (Positions); both rest on the fact that a set of    *)
(* naturals has a least element (LeastNat).                                *)
(***************************************************************************)
EXTENDS CommandLine, TLAPS, SequenceTheorems, FiniteSetTheorems

Chars == Printable \union {Nul}

(***************************************************************************)
(* The strengthening: the types of the editor's variables, and the fact    *)
(* that the cursor is never right of the end of the visible text.  Without *)
(* it, an erase could take a character off an empty screen.                *)
(***************************************************************************)
EditorInv ==
    /\ cmdInput \in [0 .. MaxLen -> Chars]
    /\ cursorPos \in 0 .. MaxLen
    /\ screen \in Seq(Printable)
    /\ cursorPos <= Len(screen)
    /\ InputEnds
    /\ CommandIsScreen

\* What `v s` is.
LEMMA StartTextType ==
    /\ StartText \in Seq(Printable)
    /\ Len(StartText) = 3
    /\ \A i \in 1 .. 3: StartText[i] \in Chars
<1>1. "v" \in Printable /\ Space \in Printable /\ "s" \in Printable
    BY DEF Printable
<1>2. Len(StartText) = 3 /\ StartText \in Seq(Printable)
    BY <1>1 DEF StartText
<1> QED
    BY <1>2 DEF Chars

\* Both initial texts, the empty one and `v s`, satisfy the invariant.
LEMMA EditorInit == Init => EditorInv
<1> SUFFICES ASSUME Init PROVE EditorInv
    OBVIOUS
<1>1. CASE cmdInput = EmptyInput /\ cursorPos = 0 /\ screen = <<>>
    BY <1>1, EditorSizes DEF Init, EmptyInput, EditorInv, InputEnds, CommandIsScreen, Chars
<1>2. CASE cmdInput = StartInput /\ cursorPos = 3 /\ screen = StartText
    <2>1. cmdInput \in [0 .. MaxLen -> Chars]
        <3>1. \A i \in 0 .. MaxLen: i < 3 => StartText[i + 1] \in Chars
            BY StartTextType
        <3> QED
            BY <1>2, <3>1 DEF StartInput, Chars
    <2>2. InputEnds /\ CommandIsScreen
        BY <1>2, EditorSizes, StartTextType DEF StartInput, InputEnds, CommandIsScreen
    <2> QED
        BY <1>2, <2>1, <2>2, EditorSizes, StartTextType DEF Init, EditorInv
<1> QED
    BY <1>1, <1>2 DEF Init

\* A typed character: written and terminated in the buffer while it fits, on the screen always.
LEMMA EditCharKeeps == ASSUME EditorInv, NEW c, EditChar(c) PROVE EditorInv'
<1>0. c \in Printable /\ c \in Chars /\ Nul \in Chars
    BY DEF EditChar, Chars
<1>1. /\ screen' \in Seq(Printable)
      /\ Len(screen') = Len(screen) + 1
      /\ screen'[Len(screen) + 1] = c
      /\ \A i \in 1 .. Len(screen): screen'[i] = screen[i]
    BY <1>0 DEF EditorInv, EditChar
<1>2. erased' = FALSE
    BY DEF EditChar
<1>3. CASE cursorPos < MaxLen
    <2>1. /\ cmdInput' = [cmdInput EXCEPT ![cursorPos] = c, ![cursorPos + 1] = Nul]
          /\ cursorPos' = cursorPos + 1
        BY <1>3 DEF EditChar
    <2>2. cmdInput' \in [0 .. MaxLen -> Chars]
        BY <1>0, <2>1 DEF EditorInv
    <2>3. cmdInput'[cursorPos] = c /\ cmdInput'[cursorPos + 1] = Nul
        BY <1>3, <2>1, EditorSizes DEF EditorInv
    <2>4. \A i \in 0 .. MaxLen: i < cursorPos => cmdInput'[i] = cmdInput[i]
        BY <1>3, <2>1, EditorSizes DEF EditorInv
    <2>5. InputEnds'
        BY <1>3, <2>1, EditorSizes DEF EditorInv, InputEnds
    <2>6. CommandIsScreen'
        <3> SUFFICES ASSUME Len(screen') <= cursorPos'
                     PROVE  /\ Len(screen') = cursorPos'
                            /\ \A i \in 1 .. cursorPos': cmdInput'[i - 1] = screen'[i]
                            /\ cmdInput'[cursorPos'] = Nul
            BY DEF CommandIsScreen
        <3>1. Len(screen) = cursorPos /\ cursorPos \in 0 .. MaxLen
            BY <1>1, <2>1 DEF EditorInv
        <3>2. \A i \in 1 .. cursorPos: cmdInput'[i - 1] = screen'[i]
            <4> TAKE i \in 1 .. cursorPos
            <4>1. cmdInput[i - 1] = screen[i]
                BY <3>1 DEF EditorInv, CommandIsScreen
            <4>2. i - 1 \in 0 .. MaxLen /\ i - 1 < cursorPos /\ i \in 1 .. Len(screen)
                BY <3>1, EditorSizes
            <4> QED
                BY <1>1, <2>4, <4>1, <4>2
        <3>3. cmdInput'[(cursorPos + 1) - 1] = screen'[cursorPos + 1]
            BY <1>1, <2>3, <3>1
        <3>4. \A i \in 1 .. cursorPos + 1: cmdInput'[i - 1] = screen'[i]
            <4> TAKE i \in 1 .. cursorPos + 1
            <4>1. i \in 1 .. cursorPos \/ i = cursorPos + 1
                BY <3>1, EditorSizes
            <4> QED
                BY <3>2, <3>3, <4>1
        <3> QED
            BY <1>1, <2>1, <2>3, <3>1, <3>4
    <2> QED
        BY <1>1, <1>2, <1>3, <2>1, <2>2, <2>5, <2>6, EditorSizes DEF EditorInv
<1>4. CASE ~(cursorPos < MaxLen)
    <2>1. cmdInput' = cmdInput /\ cursorPos' = cursorPos
        BY <1>4 DEF EditChar
    <2>2. cursorPos' < Len(screen')
        BY <1>1, <2>1 DEF EditorInv
    <2> QED
        BY <1>1, <1>2, <2>1, <2>2 DEF EditorInv, InputEnds, CommandIsScreen
<1> QED
    BY <1>3, <1>4

\* A character taken back leaves the screen, and the cursor moves; the buffer keeps it.
LEMMA EditEraseKeeps == ASSUME EditorInv, NEW c, EditErase(c) PROVE EditorInv'
<1>1. CASE cursorPos > 0
    <2>1. /\ screen' = SubSeq(screen, 1, Len(screen) - 1)
          /\ cursorPos' = cursorPos - 1
          /\ cmdInput' = cmdInput
          /\ erased' = TRUE
        BY <1>1 DEF EditErase
    <2>2. Len(screen) \in Nat /\ Len(screen) >= 1 /\ cursorPos \in 0 .. MaxLen
        BY <1>1 DEF EditorInv
    <2>3. /\ screen' \in Seq(Printable)
          /\ Len(screen') = Len(screen) - 1
          /\ \A i \in 1 .. Len(screen) - 1: screen'[i] = screen[i]
        <3> DEFINE n == Len(screen) - 1
        <3>1. n \in Int /\ \A i \in 1 .. n: screen[i] \in Printable
            BY <2>2 DEF EditorInv
        <3> HIDE DEF n
        <3>2. /\ SubSeq(screen, 1, n) \in Seq(Printable)
              /\ Len(SubSeq(screen, 1, n)) = IF 1 <= n THEN n - 1 + 1 ELSE 0
              /\ \A i \in 1 .. n - 1 + 1: SubSeq(screen, 1, n)[i] = screen[1 + i - 1]
            BY <3>1, SubSeqProperties
        <3>3. n >= 0 /\ n - 1 + 1 = n /\ screen' = SubSeq(screen, 1, n)
            BY <2>1, <2>2, <3>1 DEF n
        <3>4. \A i \in 1 .. n: 1 + i - 1 = i
            BY <3>1
        <3> QED
            BY <3>1, <3>2, <3>3, <3>4 DEF n
    <2>4. CommandIsScreen'
        BY <2>1, <2>2, <2>3 DEF EditorInv, CommandIsScreen
    <2>5. cursorPos' \in 0 .. MaxLen /\ cursorPos' <= Len(screen')
        BY <1>1, <2>1, <2>2, <2>3, EditorSizes DEF EditorInv
    <2> QED
        BY <2>1, <2>3, <2>4, <2>5 DEF EditorInv, InputEnds
<1>2. CASE ~(cursorPos > 0)
    BY <1>2 DEF EditErase, editor, EditorInv, InputEnds, CommandIsScreen
<1> QED
    BY <1>1, <1>2

\* Every other step leaves the editor alone or starts it with an empty line.
LEMMA EditorStep == EditorInv /\ [Next]_vars => EditorInv'
<1> SUFFICES ASSUME EditorInv, [Next]_vars PROVE EditorInv'
    OBVIOUS
<1>1. ASSUME UNCHANGED editor PROVE EditorInv'
    BY <1>1 DEF EditorInv, InputEnds, CommandIsScreen, editor
<1>2. CASE ShowPrompt
    BY <1>2, EditorSizes
    DEF ShowPrompt, EmptyInput, EditorInv, InputEnds, CommandIsScreen, Chars
<1>3. CASE GetChar
    BY <1>1, <1>3, EditCharKeeps, EditEraseKeeps DEF GetChar, EditEnter, EditOther
<1>4. CASE NextLine \/ PrintStep \/ GetCharEmpty \/ Wfi \/ Parse \/ EnterGuest \/ GuestReads
    BY <1>1, <1>4 DEF NextLine, PrintStep, GetCharEmpty, Wfi, Parse, EnterGuest, GuestReads
<1>5. ASSUME NEW c \in Keys, TypeKey(c) PROVE EditorInv'
    BY <1>1, <1>5 DEF TypeKey
<1>6. CASE Idle \/ UNCHANGED vars
    BY <1>1, <1>6 DEF Idle, vars, editor
<1> QED
    BY <1>2, <1>3, <1>4, <1>5, <1>6 DEF Next, ForegroundNext

LEMMA EditorInvariance == Spec => []EditorInv
BY EditorInit, EditorStep, PTL DEF Spec

\* Whatever is typed, Parse_Command and Str_Cmp find an end of the command inside its array,
\* for every size of the buffer.
THEOREM InputAlwaysEnds == Spec => []InputEnds
<1>1. EditorInv => InputEnds
    BY DEF EditorInv
<1> QED
    BY EditorInvariance, <1>1, PTL

\* The command that is parsed is the one on the screen, for every size of the buffer and
\* every sequence of keys.
THEOREM EditorSafe == Spec => []CommandIsScreen
<1>1. EditorInv => CommandIsScreen
    BY DEF EditorInv
<1> QED
    BY EditorInvariance, <1>1, PTL

-----------------------------------------------------------------------------
(* Natural numbers. *)

\* A set of naturals has a least element, by the pigeonhole principle: otherwise adding one
\* would map the numbers below all of them into themselves without zero.
LEMMA LeastNat ==
    ASSUME NEW T, T \subseteq Nat, T # {}
    PROVE  \E x \in T: \A y \in T: x <= y
<1>1. SUFFICES ASSUME \A x \in T: \E y \in T: y < x PROVE FALSE
  <2>1. PICK x \in T : TRUE
    OBVIOUS
  <2> QED
    BY <2>1
<1>2. PICK x \in T : TRUE
  OBVIOUS
<1> DEFINE Below == {n \in 0 .. x : \A y \in T: n < y}
<1>3. 0 \in Below
  BY <1>1, <1>2
<1>4. ASSUME NEW n \in Below PROVE n + 1 \in Below \ {0}
  <2>1. n + 1 \in T => \E y \in T: y < n + 1
    BY <1>1
  <2>2. \A y \in T: n < y /\ y \in Nat
    OBVIOUS
  <2>3. n + 1 \notin T
    BY <2>1, <2>2
  <2>4. \A y \in T: n + 1 < y
    BY <2>2, <2>3
  <2> QED
    BY <2>4, <1>2
<1>5. IsFiniteSet(Below) /\ IsFiniteSet(Below \ {0})
      /\ Cardinality(Below \ {0}) = Cardinality(Below) - 1
  <2>1. IsFiniteSet(0 .. x)
    BY <1>2, FS_Interval
  <2>2. IsFiniteSet(Below)
    BY <2>1, FS_Subset
  <2> QED
    BY <2>2, <1>3, FS_RemoveElement
<1>6. Cardinality(Below) \in Nat
  BY <1>5, FS_CardinalityType
<1> DEFINE succ == [n \in Below |-> n + 1]
<1>7. succ \in [Below -> Below \ {0}]
  BY <1>4
<1>8. \E m, n \in Below: m # n /\ succ[m] = succ[n]
  <2> HIDE DEF Below, succ
  <2> QED
    BY <1>5, <1>6, <1>7, FS_PigeonHole
<1> QED
  BY <1>8

\* What holds at 0 and goes on from a place to the next holds at every place up to n: where it
\* did not, there would be a first place.
LEMMA Positions ==
    ASSUME NEW n \in Nat, NEW P, 0 \in P, \A i \in 0 .. n: i < n /\ i \in P => i + 1 \in P
    PROVE  \A i \in 0 .. n: i \in P
<1> DEFINE Left == {i \in 0 .. n : i \notin P}
<1>1. SUFFICES ASSUME Left # {} PROVE FALSE
    OBVIOUS
<1>2. PICK i \in Left : \A k \in Left: i <= k
    <2>1. Left \subseteq Nat
        OBVIOUS
    <2> HIDE DEF Left
    <2> QED
        BY <1>1, <2>1, LeastNat
<1>3. i \in 0 .. n /\ i \notin P /\ i # 0
    BY <1>2
<1>4. i - 1 \in P
    BY <1>2, <1>3
<1>5. i - 1 \in 0 .. n /\ i - 1 < n /\ (i - 1) + 1 = i
    BY <1>3
<1> QED
    BY <1>3, <1>4, <1>5

\* A function on 0 .. m that starts at s and obeys one equation for each further place.
Goes(f, m, S, s, F) ==
    f \in [0 .. m -> S] /\ f[0] = s /\ \A i \in 1 .. m: f[i] = F[i][f[i - 1]]

\* There is one for every m up to n, if each equation gives a value of S for a value of S.
LEMMA FiniteRecursion ==
    ASSUME NEW S, NEW s \in S, NEW n \in Nat, NEW F, \A i \in 1 .. n: F[i] \in [S -> S]
    PROVE  \E f: Goes(f, n, S, s, F)
<1> DEFINE P == {m \in 0 .. n : \E f: Goes(f, m, S, s, F)}
<1>1. 0 \in P
    <2>1. Goes([i \in 0 .. 0 |-> s], 0, S, s, F)
        BY DEF Goes
    <2> QED
        BY <2>1
<1>2. ASSUME NEW m \in 0 .. n, m < n, m \in P PROVE m + 1 \in P
    <2>1. PICK f : Goes(f, m, S, s, F)
        BY <1>2
    <2> DEFINE g == [i \in 0 .. m + 1 |-> IF i = m + 1 THEN F[m + 1][f[m]] ELSE f[i]]
    <2>2. F[m + 1] \in [S -> S] /\ f[m] \in S
        BY <1>2, <2>1 DEF Goes
    <2>3. g \in [0 .. m + 1 -> S] /\ g[0] = s
        BY <2>1, <2>2 DEF Goes
    <2>4. \A i \in 1 .. m + 1: g[i] = F[i][g[i - 1]]
        BY <2>1, <2>2 DEF Goes
    <2> HIDE DEF g
    <2>5. Goes(g, m + 1, S, s, F)
        BY <2>3, <2>4 DEF Goes
    <2> QED
        BY <1>2, <2>5
<1> HIDE DEF P
<1>3. \A m \in 0 .. n: m < n /\ m \in P => m + 1 \in P
    BY <1>2
<1>4. \A m \in 0 .. n: m \in P
    BY <1>1, <1>3, Positions
<1>5. n \in P
    BY <1>4
<1> QED
    BY <1>5 DEF P

\* UnsignedToStr is called for these.
Bases == {10, 16}

\* The powers of a base.
LEMMA PowerIs ==
    ASSUME NEW base \in Bases
    PROVE  /\ Power(base, 0) = 1
           /\ \A k \in 1 .. MaxDigits: Power(base, k) = base * Power(base, k - 1)
           /\ \A k \in 0 .. MaxDigits: Power(base, k) \in Nat \ {0}
<1>1. MaxDigits = 20
    BY DEF MaxDigits
<1> DEFINE power == CHOOSE f: f = [i \in 0 .. MaxDigits |-> IF i = 0 THEN 1 ELSE base * f[i - 1]]
<1>2. \A k: Power(base, k) = power[k]
    BY DEF Power
<1>3. power = [i \in 0 .. MaxDigits |-> IF i = 0 THEN 1 ELSE base * power[i - 1]]
    <2> DEFINE F == [i \in 1 .. 20 |-> [x \in Nat |-> base * x]]
    <2>1. \A i \in 1 .. 20: F[i] \in [Nat -> Nat]
        BY DEF Bases
    <2>2. \A i \in 1 .. 20: \A x \in Nat: F[i][x] = base * x
        OBVIOUS
    <2> HIDE DEF F
    <2>3. PICK f : Goes(f, 20, Nat, 1, F)
        BY <2>1, FiniteRecursion
    <2>4. \A i \in 0 .. 20: f[i] = IF i = 0 THEN 1 ELSE base * f[i - 1]
        BY <2>2, <2>3 DEF Goes
    <2>5. f = [i \in 0 .. 20 |-> IF i = 0 THEN 1 ELSE base * f[i - 1]]
        BY <2>3, <2>4 DEF Goes
    <2> QED
        BY ZenonT(30), <2>5, <1>1
<1> HIDE DEF power
<1>4. power[0] = 1 /\ \A k \in 1 .. 20: power[k] = base * power[k - 1]
    BY <1>1, <1>3
<1>5. \A k \in 0 .. 20: k \in {i \in 0 .. 20 : power[i] \in Nat \ {0}}
    <2> DEFINE P == {i \in 0 .. 20 : power[i] \in Nat \ {0}}
    <2>1. 0 \in P
        BY <1>4
    <2>2. ASSUME NEW i \in 0 .. 20, i < 20, i \in P PROVE i + 1 \in P
        BY <1>4, <2>2 DEF Bases
    <2> HIDE DEF P
    <2> QED
        BY <2>1, <2>2, Positions DEF P
<1> QED
    BY <1>1, <1>2, <1>4, <1>5

\* The quotient is what the division with remainder says.
LEMMA DivUnique ==
    ASSUME NEW k \in Nat, NEW d \in Nat \ {0}, NEW r \in Nat, d * r <= k, k < d * r + d
    PROVE  k \div d = r
<1> DEFINE q == k \div d
<1>1. q \in Nat /\ d * q <= k /\ k < d * q + d
    OBVIOUS
<1> HIDE DEF q
<1>2. ASSUME q < r PROVE FALSE
    <2>1. d * (q + 1) <= d * r
        BY <1>1, <1>2
    <2> QED
        BY <1>1, <2>1
<1>3. ASSUME r < q PROVE FALSE
    <2>1. d * (r + 1) <= d * q
        BY <1>1, <1>3
    <2> QED
        BY <1>1, <2>1
<1> QED
    BY <1>1, <1>2, <1>3 DEF q

\* Dividing twice is dividing by the product.
LEMMA DivMul ==
    ASSUME NEW base \in Bases, NEW k \in Nat, NEW p \in Nat \ {0}
    PROVE  (k \div base) \div p = k \div (base * p)
<1> DEFINE q == k \div base
           r == q \div p
<1>1. q \in Nat /\ base * q <= k /\ k < base * q + base
    BY DEF Bases
<1> HIDE DEF q
<1>2. r \in Nat /\ p * r <= q /\ q < p * r + p
    BY <1>1
<1> HIDE DEF r
<1> DEFINE m == p * r
<1>3. m \in Nat /\ m <= q /\ q < m + p
    BY <1>2
<1>4. (base * p) * r = base * m /\ base * p \in Nat \ {0}
    BY <1>2 DEF Bases
<1> HIDE DEF m
<1>5. base * m <= k /\ k < base * m + base * p
    BY <1>1, <1>3 DEF Bases
<1>6. k \div (base * p) = r
    BY <1>2, <1>4, <1>5, DivUnique
<1> QED
    BY <1>6 DEF q, r

\* A number without its last digit is short of p just when the number is short of base * p.
LEMMA Scale ==
    ASSUME NEW base \in Bases, NEW k \in Nat, NEW p \in Nat \ {0}
    PROVE  k \div base < p <=> k < base * p
BY DEF Bases

\* A number that MaxDigits digits can write, and the number of digits it has.
Short(n, base) == \E k \in 1 .. MaxDigits: n < Power(base, k)
IsLength(k, n, base) ==
    k \in 1 .. MaxDigits /\ n < Power(base, k) /\ \A j \in 1 .. k - 1: n >= Power(base, j)

\* Such a number has a length,
LEMMA LengthIs ==
    ASSUME NEW base \in Bases, NEW n \in Nat, Short(n, base)
    PROVE  IsLength(Length(n, base), n, base)
<1> DEFINE T == {k \in 1 .. MaxDigits : n < Power(base, k)}
<1>1. PICK k \in T : \A j \in T: k <= j
    <2>1. T \subseteq Nat /\ T # {}
        BY DEF Short
    <2> HIDE DEF T
    <2> QED
        BY <2>1, LeastNat
<1>2. \A j \in 1 .. k - 1: n >= Power(base, j)
    <2> TAKE j \in 1 .. k - 1
    <2>1. MaxDigits \in Nat
        BY DEF MaxDigits
    <2>2. j \in 1 .. MaxDigits /\ j \notin T
        BY <1>1, <2>1
    <2>3. Power(base, j) \in Nat
        BY <2>1, <2>2, PowerIs
    <2> QED
        BY <2>2, <2>3
<1>3. k \in 1 .. MaxDigits /\ n < Power(base, k)
    BY <1>1
<1> HIDE DEF T
<1>4. \E j \in 1 .. MaxDigits: n < Power(base, j) /\ \A i \in 1 .. j - 1: n >= Power(base, i)
    BY <1>2, <1>3
<1> QED
    BY <1>4 DEF Length, IsLength

\* and only one.
LEMMA LengthUnique ==
    ASSUME NEW base \in Bases, NEW n \in Nat, NEW k, IsLength(k, n, base)
    PROVE  Length(n, base) = k
<1>1. MaxDigits = 20
    BY DEF MaxDigits
<1>2. Short(n, base)
    BY DEF Short, IsLength
<1> DEFINE l == Length(n, base)
<1>3. IsLength(l, n, base)
    BY <1>2, LengthIs
<1> HIDE DEF l
<1>4. k \in 1 .. 20 /\ l \in 1 .. 20
    BY <1>1, <1>3 DEF IsLength
<1>5. Power(base, k) \in Nat /\ Power(base, l) \in Nat
    BY <1>1, <1>4, PowerIs
<1>6. ~(k < l)
    <2>1. k < l => k \in 1 .. l - 1
        BY <1>4
    <2> QED
        BY <1>3, <1>5, <2>1 DEF IsLength
<1>7. ~(l < k)
    <2>1. l < k => l \in 1 .. k - 1
        BY <1>4
    <2> QED
        BY <1>3, <1>5, <2>1 DEF IsLength
<1>8. l = k
    BY <1>4, <1>6, <1>7
<1> QED
    BY <1>8 DEF l

-----------------------------------------------------------------------------
(* The digits of a number. *)

\* The characters of hexTable.
HexDigits == {"0", "1", "2", "3", "4", "5", "6", "7", "8", "9", "a", "b", "c", "d", "e", "f"}

\* Sixteen elements in a row.
LEMMA Row16 ==
    ASSUME NEW S, NEW c1 \in S, NEW c2 \in S, NEW c3 \in S, NEW c4 \in S, NEW c5 \in S,
           NEW c6 \in S,
           NEW c7 \in S, NEW c8 \in S, NEW c9 \in S, NEW c10 \in S, NEW c11 \in S, NEW c12 \in S,
           NEW c13 \in S, NEW c14 \in S, NEW c15 \in S, NEW c16 \in S
    PROVE  <<c1, c2, c3, c4, c5, c6, c7, c8, c9, c10, c11, c12, c13, c14, c15, c16>> \in [1 .. 16 -> S]
OBVIOUS

\* What HexTable holds at 1 .. 16.
LEMMA HexTableType == HexTable \in [1 .. 16 -> HexDigits]
<1>1. /\ "0" \in HexDigits /\ "1" \in HexDigits /\ "2" \in HexDigits /\ "3" \in HexDigits
      /\ "4" \in HexDigits /\ "5" \in HexDigits /\ "6" \in HexDigits /\ "7" \in HexDigits
      /\ "8" \in HexDigits /\ "9" \in HexDigits /\ "a" \in HexDigits /\ "b" \in HexDigits
      /\ "c" \in HexDigits /\ "d" \in HexDigits /\ "e" \in HexDigits /\ "f" \in HexDigits
    BY DEF HexDigits
<1> HIDE DEF HexDigits
<1>2. <<"0", "1", "2", "3", "4", "5", "6", "7", "8", "9", "a", "b", "c", "d", "e", "f">>
        \in [1 .. 16 -> HexDigits]
    BY <1>1, Row16
<1> QED
    BY <1>2 DEF HexTable

\* The digit of weight p, and the numeral by its digits.
Digit(n, base, p) == HexTable[((n \div p) % base) + 1]

\* A digit is a character of hexTable.
LEMMA DigitType ==
    ASSUME NEW n \in Nat, NEW base \in Bases, NEW p \in Nat \ {0}
    PROVE  Digit(n, base, p) \in HexDigits
<1> DEFINE m == n \div p
<1>1. m \in Nat
    OBVIOUS
<1> HIDE DEF m
<1>2. (m % base) + 1 \in 1 .. 16
    BY <1>1 DEF Bases
<1> QED
    BY <1>2, HexTableType DEF Digit, m

\* The numeral of a number of length l has l digits, the weights falling from base^(l-1) to 1.
LEMMA NumeralIs ==
    ASSUME NEW n \in Nat, NEW base \in Bases, NEW l, IsLength(l, n, base)
    PROVE  /\ Numeral(n, base) = [i \in 1 .. l |-> Digit(n, base, Power(base, l - i))]
           /\ Numeral(n, base) \in Seq(HexDigits)
           /\ Len(Numeral(n, base)) = l
<1>1. Numeral(n, base) = [i \in 1 .. l |-> Digit(n, base, Power(base, l - i))]
    BY LengthUnique DEF Numeral, Digit
<1>2. MaxDigits = 20 /\ l \in 1 .. 20
    BY DEF MaxDigits, IsLength
<1>3. \A i \in 1 .. l: Digit(n, base, Power(base, l - i)) \in HexDigits
    <2> TAKE i \in 1 .. l
    <2>1. l - i \in 0 .. MaxDigits
        BY <1>2
    <2>2. Power(base, l - i) \in Nat \ {0}
        BY <2>1, PowerIs
    <2> QED
        BY <2>2, DigitType
<1>4. Numeral(n, base) \in [1 .. l -> HexDigits]
    BY <1>1, <1>3
<1> QED
    BY <1>1, <1>2, <1>4

\* A number below the base is written by its only digit,
LEMMA NumeralSmall ==
    ASSUME NEW base \in Bases, NEW n \in Nat, n < base
    PROVE  Numeral(n, base) = <<HexTable[n + 1]>> /\ Short(n, base)
<1>1. MaxDigits = 20 /\ 1 \in 1 .. MaxDigits
    BY DEF MaxDigits
<1>2. Power(base, 0) = 1 /\ Power(base, 1) = base * Power(base, 1 - 1)
    BY <1>1, PowerIs
<1>3. Power(base, 1) = base
    BY <1>2 DEF Bases
<1>4. IsLength(1, n, base)
    BY <1>1, <1>3 DEF IsLength
<1>5. Numeral(n, base) = [i \in 1 .. 1 |-> Digit(n, base, Power(base, 1 - i))]
      /\ Numeral(n, base) \in Seq(HexDigits) /\ Len(Numeral(n, base)) = 1
    BY <1>4, NumeralIs
<1>6. Digit(n, base, 1) = HexTable[n + 1]
    <2>1. n \div 1 = n /\ n % base = n
        BY DEF Bases
    <2> QED
        BY <2>1 DEF Digit
<1>7. Numeral(n, base)[1] = HexTable[n + 1]
    <2>1. Numeral(n, base)[1] = Digit(n, base, Power(base, 1 - 1))
        BY <1>5
    <2>2. Power(base, 1 - 1) = 1
        BY <1>2
    <2> QED
        BY <1>6, <2>1, <2>2
<1> DEFINE s == Numeral(n, base)
           h == HexTable[n + 1]
<1>8. s \in Seq(HexDigits) /\ Len(s) = 1 /\ s[1] = h
    BY <1>5, <1>7
<1> HIDE DEF s, h
<1>9. s = <<h>>
    BY <1>8
<1>10. Short(n, base)
    BY <1>4 DEF Short, IsLength
<1> QED
    BY <1>9, <1>10 DEF s, h

\* and a larger one by the numeral of all but its last digit, and that digit behind it.
LEMMA NumeralCons ==
    ASSUME NEW base \in Bases, NEW n \in Nat, Short(n, base), n >= base
    PROVE  /\ Short(n \div base, base)
           /\ Numeral(n, base) = Append(Numeral(n \div base, base), HexTable[(n % base) + 1])
<1> DEFINE l == Length(n, base)
           q == n \div base
<1>1. IsLength(l, n, base)
    BY LengthIs
<1>2. q \in Nat
    BY DEF Bases
<1> HIDE DEF l
<1>3. MaxDigits = 20 /\ l \in 1 .. MaxDigits
    BY <1>1 DEF MaxDigits, IsLength
<1>4. Power(base, 0) = 1 /\ Power(base, 1) = base
    <2>1. Power(base, 0) = 1 /\ Power(base, 1) = base * Power(base, 1 - 1)
        BY <1>3, PowerIs
    <2> QED
        BY <2>1 DEF Bases
<1>5. l >= 2
    <2>1. l # 1
        BY <1>1, <1>4 DEF IsLength, Bases
    <2> QED
        BY <1>3, <2>1
<1>6. \A j \in 0 .. l - 1: /\ Power(base, j + 1) = base * Power(base, j)
                           /\ Power(base, j) \in Nat \ {0}
    <2> TAKE j \in 0 .. l - 1
    <2>1. j + 1 \in 1 .. MaxDigits /\ j \in 0 .. MaxDigits /\ (j + 1) - 1 = j
        BY <1>3
    <2> QED
        BY <2>1, PowerIs
<1>7. IsLength(l - 1, q, base)
    <2>1. l - 1 \in 1 .. MaxDigits
        BY <1>3, <1>5
    <2>2. q < Power(base, l - 1)
        <3>1. n < Power(base, (l - 1) + 1)
            BY <1>1, <1>3 DEF IsLength
        <3>2. l - 1 \in 0 .. l - 1
            BY <2>1, <1>3
        <3> QED
            BY <3>1, <3>2, <1>6, Scale
    <2>3. \A j \in 1 .. (l - 1) - 1: q >= Power(base, j)
        <3> TAKE j \in 1 .. (l - 1) - 1
        <3>1. j + 1 \in 1 .. l - 1 /\ j \in 0 .. l - 1
            BY <1>3
        <3>2. n >= base * Power(base, j)
            BY <1>1, <1>6, <3>1 DEF IsLength
        <3>3. Power(base, j) \in Nat \ {0}
            BY <1>6, <3>1
        <3>4. ~(n < base * Power(base, j))
            BY <3>2, <3>3 DEF Bases
        <3>5. ~(q < Power(base, j))
            BY <3>3, <3>4, Scale
        <3> QED
            BY <1>2, <3>3, <3>5
    <2> QED
        BY <2>1, <2>2, <2>3 DEF IsLength
<1>8. Short(q, base)
    BY <1>7 DEF Short, IsLength
<1> DEFINE s == Numeral(n, base)
           t == Numeral(q, base)
           e == HexTable[(n % base) + 1]
<1>9. /\ s = [i \in 1 .. l |-> Digit(n, base, Power(base, l - i))]
      /\ s \in Seq(HexDigits) /\ Len(s) = l
    BY <1>1, NumeralIs
<1>10. /\ t = [i \in 1 .. l - 1 |-> Digit(q, base, Power(base, (l - 1) - i))]
       /\ t \in Seq(HexDigits) /\ Len(t) = l - 1
    BY <1>2, <1>7, NumeralIs
<1>11. e \in HexDigits
    <2>1. (n % base) + 1 \in 1 .. 16
        BY DEF Bases
    <2> QED
        BY <2>1, HexTableType
<1>12. ASSUME NEW i \in 1 .. l - 1 PROVE s[i] = t[i]
    <2>1. (l - 1) - i \in 0 .. l - 1 /\ ((l - 1) - i) + 1 = l - i /\ i \in 1 .. l
        BY <1>3
    <2> DEFINE p == Power(base, (l - 1) - i)
    <2>2. p \in Nat \ {0} /\ Power(base, l - i) = base * p
        BY <1>6, <2>1
    <2>3. s[i] = Digit(n, base, base * p) /\ t[i] = Digit(q, base, p)
        BY <1>9, <1>10, <2>1, <2>2
    <2> HIDE DEF p
    <2>4. q \div p = n \div (base * p)
        BY <2>2, DivMul
    <2> HIDE DEF q
    <2> QED
        BY <2>3, <2>4 DEF Digit
<1>13. s[l] = e
    <2>1. s[l] = Digit(n, base, Power(base, l - l))
        BY <1>3, <1>9
    <2>2. l - l = 0 /\ n \div 1 = n
        BY <1>3
    <2> QED
        BY <1>4, <2>1, <2>2 DEF Digit
<1> HIDE DEF s, t, e, q
<1>14. s = Append(t, e)
    <2>1. Append(t, e) \in Seq(HexDigits) /\ Len(Append(t, e)) = l
        BY <1>3, <1>10, <1>11
    <2>2. \A i \in 1 .. l: s[i] = Append(t, e)[i]
        <3> TAKE i \in 1 .. l
        <3>1. CASE i = l
            BY <3>1, <1>3, <1>10, <1>11, <1>13
        <3>2. CASE i # l
            BY <3>2, <1>3, <1>10, <1>11, <1>12
        <3> QED
            BY <3>1, <3>2
    <2> QED
        BY <1>9, <2>1, <2>2, SeqEqual
<1> QED
    BY <1>8, <1>14 DEF s, t, e, q

\* For every number of at most MaxDigits digits the loop of UnsignedToStr, which takes the last
\* digit first, writes its positional numeral: every digit once, none missing, no leading zero;
\* and numStr, with its 22 bytes, holds it and its end.
THEOREM ToStrIsNumeral ==
    ASSUME NEW base \in Bases, NEW n \in Nat, Short(n, base)
    PROVE  ToStr(n, base) = Numeral(n, base) /\ Len(ToStr(n, base)) \in 1 .. MaxDigits
<1> DEFINE NextDigits(f, k) == IF k < base THEN <<HexTable[k + 1]>>
                               ELSE Append(f[k \div base], HexTable[(k % base) + 1])
           numerals == [k \in 0 .. n |-> Numeral(k, base)]
           digits == CHOOSE f: f = [k \in 0 .. n |-> NextDigits(f, k)]
<1>1. ASSUME NEW k \in 0 .. n PROVE Short(k, base)
    <2>1. MaxDigits = 20
        BY DEF MaxDigits
    <2>2. PICK j \in 1 .. MaxDigits : n < Power(base, j)
        BY DEF Short
    <2>3. Power(base, j) \in Nat
        BY <2>1, PowerIs
    <2> QED
        BY <2>2, <2>3 DEF Short
<1>2. ASSUME NEW k \in 0 .. n, k >= base PROVE k \div base \in 0 .. n /\ k \div base < k
    BY <1>2 DEF Bases
<1>3. ASSUME NEW k \in 0 .. n PROVE Numeral(k, base) = NextDigits(numerals, k)
    <2>1. CASE k < base
        BY <2>1, NumeralSmall
    <2>2. CASE ~(k < base)
        <3>1. k >= base
            BY <2>2 DEF Bases
        <3>2. k \div base \in 0 .. n
            BY <1>2, <3>1
        <3>3. numerals[k \div base] = Numeral(k \div base, base)
            BY <3>2
        <3> HIDE DEF numerals
        <3> QED
            BY <2>2, <1>1, <3>1, <3>3, NumeralCons
    <2> QED
        BY <2>1, <2>2
<1>4. numerals = [k \in 0 .. n |-> NextDigits(numerals, k)]
    BY <1>3
<1>5. digits = [k \in 0 .. n |-> NextDigits(digits, k)]
    <2>1. \E f: f = [k \in 0 .. n |-> NextDigits(f, k)]
        BY <1>4
    <2> HIDE DEF NextDigits
    <2> QED
        BY <2>1
<1> DEFINE Wrong == {k \in 0 .. n : digits[k] # numerals[k]}
<1> HIDE DEF digits, numerals
<1>6. Wrong = {}
    <2>1. SUFFICES ASSUME Wrong # {} PROVE FALSE
        OBVIOUS
    <2>2. PICK k \in Wrong : \A j \in Wrong: k <= j
        <3>1. Wrong \subseteq Nat
            OBVIOUS
        <3> HIDE DEF Wrong
        <3> QED
            BY <2>1, <3>1, LeastNat
    <2>3. digits[k] = NextDigits(digits, k) /\ numerals[k] = NextDigits(numerals, k)
        <3> HIDE DEF NextDigits
        <3> QED
            BY <1>4, <1>5
    <2>4. CASE k < base
        BY <2>2, <2>3, <2>4
    <2>5. CASE ~(k < base)
        <3>1. k \div base \in 0 .. n /\ k \div base < k
            BY <1>2, <2>5 DEF Bases
        <3>2. k \div base \notin Wrong
            BY <2>2, <3>1
        <3>3. digits[k \div base] = numerals[k \div base]
            BY <3>1, <3>2
        <3> QED
            BY <2>2, <2>3, <2>5, <3>3
    <2> QED
        BY <2>4, <2>5
<1>7. ToStr(n, base) = digits[n]
    BY DEF ToStr, digits
<1>8. digits[n] = numerals[n]
    BY <1>6
<1>9. ToStr(n, base) = Numeral(n, base)
    BY <1>7, <1>8 DEF numerals
<1>10. Len(Numeral(n, base)) \in 1 .. MaxDigits
    <2>1. IsLength(Length(n, base), n, base)
        BY LengthIs
    <2>2. Len(Numeral(n, base)) = Length(n, base)
        BY <2>1, NumeralIs
    <2> QED
        BY <2>1, <2>2 DEF IsLength
<1> QED
    BY <1>9, <1>10

-----------------------------------------------------------------------------
(* Texts, tokens, and what a token means. *)

\* What reaches the screen at once, and the texts made of it.
Pieces == HexDigits \union Printable \union {"\r\n", "[log] ", "[inf] ", "[err] ", "$ ", "BS", " ", ": ",
              "OK", "help", "error",
              "application layer", "command line started", "4KB page for address 0x",
              "copy OS binary to 0x", "start VM", "(beep)", "request shutdown", "VM stopped",
              "request to shutdown non-running VM"}
Texts  == Seq(Pieces)
Fills  == {0, FillSize}
LevelSet == {"log", "info", "error", "none"}

\* The tokens a line is written with (Sources), and those a step leaves in place of one: a number
\* on its way to a string, and the reset at the end of a line.
LevelTokens == [op : {"level"}, level : LevelSet]
TextTokens  == [op : {"str", "char"}, text : Texts]
NumTokens   == [op : {"num"}, value : {Address}]
DigitTokens == [op : {"digits"}, value : {Address}, fill : Fills]
PadTokens   == [op : {"pad"}, text : Texts, fill : Fills]
SetTokens   == [op : {"fmt"}, fmt : {"endl", "hex", "dec", "fill"}]
ResetTokens == [op : {"fmt"}, fmt : {"reset"}]
Sources == LevelTokens \union TextTokens \union NumTokens \union SetTokens
Tokens  == Sources \union DigitTokens \union PadTokens \union ResetTokens

\* The second half of fmt::endl.
Reset == Fmt("reset")

\* The levels by name.
LEMMA LevelNames == Range(Levels) = LevelSet
<1>1. DOMAIN Levels = {1, 2, 3, 4}
    BY DEF Levels
<1>2. Levels[1] = "log" /\ Levels[2] = "info" /\ Levels[3] = "error" /\ Levels[4] = "none"
    BY DEF Levels
<1> QED
    BY <1>1, <1>2 DEF Range, LevelSet

\* The pieces one by one.
LEMMA PiecesHave ==
    /\ HexDigits \subseteq Pieces /\ Printable \subseteq Pieces
    /\ "\r\n" \in Pieces /\ "[log] " \in Pieces /\ "[inf] " \in Pieces /\ "[err] " \in Pieces
    /\ "$ " \in Pieces /\ "BS" \in Pieces /\ " " \in Pieces /\ ": " \in Pieces /\ "OK" \in Pieces
    /\ "help" \in Pieces /\ "error" \in Pieces /\ "application layer" \in Pieces
    /\ "command line started" \in Pieces /\ "4KB page for address 0x" \in Pieces
    /\ "copy OS binary to 0x" \in Pieces /\ "start VM" \in Pieces /\ "(beep)" \in Pieces
    /\ "request shutdown" \in Pieces /\ "VM stopped" \in Pieces
    /\ "request to shutdown non-running VM" \in Pieces
BY ZenonT(30) DEF Pieces

\* The texts the console itself adds.
LEMMA FixedTexts ==
    /\ LineBreak \in Texts /\ <<>> \in Texts
    /\ \A level \in LevelSet: Prefix(level) \in Texts
<1>1. \A p \in Pieces: <<p>> \in Texts
    BY DEF Texts
<1>2. LineBreak \in Texts /\ <<>> \in Texts
    <2>1. <<>> \in Texts
        BY DEF Texts
    <2>2. LineBreak \in Texts
        BY ZenonT(30), <1>1, PiecesHave DEF LineBreak
    <2> QED
        BY <2>1, <2>2
<1>3. ASSUME NEW level \in LevelSet PROVE Prefix(level) \in Texts
    <2>1. CASE level = "log"
        BY ZenonT(30), <1>1, <2>1, PiecesHave DEF Prefix
    <2>2. CASE level = "info"
        BY ZenonT(30), <1>1, <2>2, PiecesHave DEF Prefix
    <2>3. CASE level = "error"
        BY ZenonT(30), <1>1, <2>3, PiecesHave DEF Prefix
    <2>4. CASE level = "none"
        BY <1>2, <2>4 DEF Prefix
    <2> QED
        BY <2>1, <2>2, <2>3, <2>4 DEF LevelSet
<1> QED
    BY <1>2, <1>3

\* The same character in a row.
LEMMA Row == ASSUME NEW S, NEW z \in S, NEW n \in Int PROVE [i \in 1 .. n |-> z] \in Seq(S)
<1>1. CASE n >= 0
    BY <1>1
<1>2. CASE n < 0
    <2>1. 1 .. n = 1 .. 0
        BY <1>2
    <2>2. [i \in 1 .. 0 |-> z] \in Seq(S)
        OBVIOUS
    <2> QED
        BY <2>1, <2>2
<1> QED
    BY <1>1, <1>2

\* Zeros are a text, and none if nothing is to be filled up.
LEMMA ZerosType ==
    ASSUME NEW text \in Texts
    PROVE  /\ \A fill \in Fills: Zeros(text, fill) \in Texts
           /\ Zeros(text, 0) = <<>>
<1>1. Len(text) \in Nat /\ "0" \in Pieces
    <2>1. Len(text) \in Nat
        BY DEF Texts
    <2>2. "0" \in HexDigits
        BY DEF HexDigits
    <2> QED
        BY ZenonT(30), <2>1, <2>2, PiecesHave
<1>2. ASSUME NEW fill \in Fills PROVE Zeros(text, fill) \in Texts
    <2>1. fill - Len(text) \in Int
        BY <1>1 DEF Fills, FillSize
    <2> QED
        BY <1>1, <2>1, Row DEF Zeros, Texts
<1>3. Zeros(text, 0) = <<>>
    <2>1. 1 .. (0 - Len(text)) = {}
        BY <1>1
    <2> QED
        BY <2>1 DEF Zeros
<1> QED
    BY <1>2, <1>3

\* A sequence over a set is one over a larger set.
LEMMA SeqWider ==
    ASSUME NEW A, NEW B, A \subseteq B
    PROVE  \A s \in Seq(A): s \in Seq(B)
<1> SUFFICES ASSUME NEW s \in Seq(A) PROVE s \in Seq(B)
    OBVIOUS
<1>1. Len(s) \in Nat /\ s \in [1 .. Len(s) -> A]
    OBVIOUS
<1>2. s \in [1 .. Len(s) -> B]
    BY <1>1
<1> QED
    BY <1>1, <1>2

\* The numbers that are printed.
LEMMA AddressIs ==
    ASSUME NEW base \in Bases
    PROVE  /\ Address \in Nat /\ Short(Address, base)
           /\ ToStr(Address, base) = Numeral(Address, base)
           /\ ToStr(Address, base) \in Texts
<1>1. Address \in Nat /\ Short(Address, base)
    BY EditorAddress DEF Short, Bases
<1>2. ToStr(Address, base) = Numeral(Address, base)
    BY <1>1, ToStrIsNumeral
<1>3. Numeral(Address, base) \in Seq(HexDigits)
    BY <1>1, LengthIs, NumeralIs
<1>4. \A s \in Seq(HexDigits): s \in Seq(Pieces)
    BY ZenonT(30), PiecesHave, SeqWider
<1> QED
    BY <1>1, <1>2, <1>3, <1>4 DEF Texts

\* A view is a format together with the text that has been put on the screen under it: what Says
\* computes, seen as the state of a console.
Views == [text : Texts, level : LevelSet, isLevel : BOOLEAN, isHex : BOOLEAN, isFill : BOOLEAN]
View(f, text) == [text |-> text, level |-> f.level, isLevel |-> f.isLevel,
                  isHex |-> f.isHex, isFill |-> f.isFill]

\* What a number still to be printed will look like, in a base and filled up as far as it was
\* asked to be when the number was begun.
Padded(v, text, fill) == IF v.isHex THEN Zeros(text, fill) \o text ELSE text
Base(v) == IF v.isHex THEN 16 ELSE 10

\* What a token does to a view in one go.  For a token of a line it is what Says has it do; for
\* one a step left in its place, what the rest of the steps must do.
Meaning(v, t) ==
    CASE t.op = "digits" -> Put(v, Padded(v, ToStr(t.value, Base(v)), t.fill))
      [] t.op = "pad"    -> Put(v, Padded(v, t.text, t.fill))
      [] t = Reset       -> [v EXCEPT !.isHex = FALSE, !.isFill = FALSE, !.isLevel = FALSE]
      [] OTHER           -> Token(v, t)

\* Every format and every text make a view.
LEMMA ViewType ==
    ASSUME NEW f \in Formats, NEW text \in Texts
    PROVE  View(f, text) \in Views
BY LevelNames DEF View, Views, Formats

\* Putting a text: nothing if the level is not shown, and with the level's mark if it is the first.
LEMMA PutIs ==
    ASSUME NEW v \in Views, NEW text \in Texts
    PROVE  /\ Put(v, text) \in Views
           /\ ~Shown(v.level) => Put(v, text) = v
           /\ Shown(v.level) /\ v.isLevel => Put(v, text) = [v EXCEPT !.text = v.text \o text]
           /\ Shown(v.level) /\ ~v.isLevel =>
                Put(v, text) = [v EXCEPT !.text = (v.text \o Prefix(v.level)) \o text, !.isLevel = TRUE]
<1>1. Prefix(v.level) \in Texts /\ v.text \in Texts
    BY FixedTexts DEF Views
<1>2. v.text \o text \in Texts /\ (v.text \o Prefix(v.level)) \o text \in Texts
    BY <1>1 DEF Texts
<1>3. CASE ~Shown(v.level)
    BY <1>3 DEF Put
<1>4. CASE Shown(v.level) /\ v.isLevel
    <2>1. Put(v, text) = [v EXCEPT !.text = v.text \o text]
        BY <1>4 DEF Put, Marked, Views
    <2> QED
        BY <1>2, <1>4, <2>1 DEF Views
<1>5. CASE Shown(v.level) /\ ~v.isLevel
    <2>1. Put(v, text) = [v EXCEPT !.text = (v.text \o Prefix(v.level)) \o text, !.isLevel = TRUE]
        BY <1>5 DEF Put, Marked, Views
    <2> QED
        BY <1>2, <1>5, <2>1 DEF Views
<1> QED
    BY <1>3, <1>4, <1>5

\* The kinds of tokens by what they hold.
LEMMA TokenFields ==
    ASSUME NEW t
    PROVE  /\ t \in LevelTokens => t.op = "level" /\ t.level \in LevelSet
           /\ t \in TextTokens  => t.op \in {"str", "char"} /\ t.text \in Texts
           /\ t \in NumTokens   => t.op = "num" /\ t.value = Address
           /\ t \in DigitTokens => t.op = "digits" /\ t.value = Address /\ t.fill \in Fills
           /\ t \in PadTokens   => t.op = "pad" /\ t.text \in Texts /\ t.fill \in Fills
           /\ t \in SetTokens   => t.op = "fmt" /\ t.fmt \in {"endl", "hex", "dec", "fill"} /\ t # Reset
           /\ t \in ResetTokens <=> t = Reset
           /\ Reset.op = "fmt" /\ Reset.fmt = "reset"
<1>1. Reset.op = "fmt" /\ Reset.fmt = "reset"
    BY DEF Reset, Fmt
<1>2. t \in SetTokens => t.op = "fmt" /\ t.fmt \in {"endl", "hex", "dec", "fill"} /\ t # Reset
    BY <1>1 DEF SetTokens
<1>3. t \in ResetTokens <=> t = Reset
    BY DEF ResetTokens, Reset, Fmt
<1> QED
    BY <1>1, <1>2, <1>3 DEF LevelTokens, TextTokens, NumTokens, DigitTokens, PadTokens

\* What each kind means.
LEMMA MeaningIs ==
    ASSUME NEW v \in Views, NEW t \in Tokens
    PROVE  /\ t \in Sources => Meaning(v, t) = Token(v, t)
           /\ t.op = "level" => Meaning(v, t) = Marked([v EXCEPT !.level = t.level])
           /\ t.op = "str"   => Meaning(v, t) = Put(v, t.text)
           /\ t.op = "char"  => Meaning(v, t) = [v EXCEPT !.text = v.text \o t.text]
           /\ t.op = "num"   => Meaning(v, t) = Put(v, Number(v, t.value))
           /\ t.op = "digits" => Meaning(v, t) = Put(v, Padded(v, ToStr(t.value, Base(v)), t.fill))
           /\ t.op = "pad"   => Meaning(v, t) = Put(v, Padded(v, t.text, t.fill))
           /\ t.op = "fmt" /\ t.fmt = "endl" =>
                Meaning(v, t) =
                    [Put(v, LineBreak) EXCEPT !.isHex = FALSE, !.isFill = FALSE, !.isLevel = FALSE]
           /\ t.op = "fmt" /\ t.fmt = "hex"  => Meaning(v, t) = [v EXCEPT !.isHex = TRUE]
           /\ t.op = "fmt" /\ t.fmt = "dec"  => Meaning(v, t) = [v EXCEPT !.isHex = FALSE]
           /\ t.op = "fmt" /\ t.fmt = "fill" => Meaning(v, t) = [v EXCEPT !.isFill = TRUE]
           /\ t = Reset =>
                Meaning(v, t) = [v EXCEPT !.isHex = FALSE, !.isFill = FALSE, !.isLevel = FALSE]
<1>1. t \in Sources => t.op \in {"level", "str", "char", "num", "fmt"} /\ t # Reset
    BY TokenFields DEF Sources
<1>2. t \in Sources => Meaning(v, t) = Token(v, t)
    BY <1>1 DEF Meaning
<1>3. t.op = "fmt" => (t = Reset \/ (t \in SetTokens /\ t.fmt \in {"endl", "hex", "dec", "fill"}))
    BY TokenFields DEF Tokens, Sources
<1>4. t.op \in {"level", "str", "char", "num"} => t \in Sources
    BY TokenFields DEF Tokens, Sources
<1>5. t.op = "digits" => Meaning(v, t) = Put(v, Padded(v, ToStr(t.value, Base(v)), t.fill))
    BY TokenFields DEF Meaning
<1>6. t.op = "pad" => Meaning(v, t) = Put(v, Padded(v, t.text, t.fill))
    BY TokenFields DEF Meaning
<1>7. t = Reset => Meaning(v, t) = [v EXCEPT !.isHex = FALSE, !.isFill = FALSE, !.isLevel = FALSE]
    BY TokenFields DEF Meaning
<1>8. t.op = "level" => Meaning(v, t) = Marked([v EXCEPT !.level = t.level])
    BY <1>2, <1>4 DEF Token
<1>9. t.op = "str" => Meaning(v, t) = Put(v, t.text)
    BY <1>2, <1>4 DEF Token
<1>10. t.op = "char" => Meaning(v, t) = [v EXCEPT !.text = v.text \o t.text]
    BY <1>2, <1>4 DEF Token
<1>11. t.op = "num" => Meaning(v, t) = Put(v, Number(v, t.value))
    BY <1>2, <1>4 DEF Token
<1>12. ASSUME t.op = "fmt", t # Reset PROVE Meaning(v, t) = Token(v, t)
    BY <1>2, <1>3, <1>12 DEF Sources
<1>13. t.op = "fmt" /\ t.fmt = "endl" => 
         Meaning(v, t) =
             [Put(v, LineBreak) EXCEPT !.isHex = FALSE, !.isFill = FALSE, !.isLevel = FALSE]
    BY <1>12, TokenFields DEF Token
<1>14. t.op = "fmt" /\ t.fmt = "hex"  => Meaning(v, t) = [v EXCEPT !.isHex = TRUE]
    BY <1>12, TokenFields DEF Token
<1>15. t.op = "fmt" /\ t.fmt = "dec"  => Meaning(v, t) = [v EXCEPT !.isHex = FALSE]
    BY <1>12, TokenFields DEF Token
<1>16. t.op = "fmt" /\ t.fmt = "fill"  => Meaning(v, t) = [v EXCEPT !.isFill = TRUE]
    BY <1>12, TokenFields DEF Token
<1> QED
    BY <1>2, <1>5, <1>6, <1>7, <1>8, <1>9, <1>10, <1>11, <1>13, <1>14, <1>15, <1>16

\* A number filled up is a text.
LEMMA PaddedType ==
    ASSUME NEW v \in Views, NEW text \in Texts, NEW fill \in Fills
    PROVE  Padded(v, text, fill) \in Texts
<1>1. Zeros(text, fill) \in Texts
    BY ZerosType
<1>2. Zeros(text, fill) \o text \in Texts
    BY <1>1 DEF Texts
<1> QED
    BY <1>2 DEF Padded

\* A number is what the loop of UnsignedToStr makes of it, filled up to 16 places or to none.
LEMMA NumberIs ==
    ASSUME NEW v \in Views
    PROVE  /\ ToStr(Address, Base(v)) \in Texts
           /\ Number(v, Address) =
                Padded(v, ToStr(Address, Base(v)), IF v.isFill THEN FillSize ELSE 0)
<1>1. 10 \in Bases /\ 16 \in Bases /\ Base(v) \in Bases
    BY DEF Bases, Base
<1>2. /\ ToStr(Address, 10) = Numeral(Address, 10) /\ ToStr(Address, 10) \in Texts
      /\ ToStr(Address, 16) = Numeral(Address, 16) /\ ToStr(Address, 16) \in Texts
    BY <1>1, AddressIs
<1>3. Zeros(ToStr(Address, 16), 0) \o ToStr(Address, 16) = ToStr(Address, 16)
    <2>1. Zeros(ToStr(Address, 16), 0) = <<>>
        BY <1>2, ZerosType
    <2> QED
        BY <1>2, <2>1 DEF Texts
<1>4. CASE v.isHex /\ v.isFill
    BY <1>2, <1>4 DEF Number, Padded, Base
<1>5. CASE v.isHex /\ ~v.isFill
    BY <1>2, <1>3, <1>5 DEF Number, Padded, Base
<1>6. CASE ~v.isHex
    BY <1>2, <1>6 DEF Number, Padded, Base
<1>7. ToStr(Address, Base(v)) \in Texts
    BY <1>2 DEF Base
<1> QED
    BY <1>4, <1>5, <1>6, <1>7

\* Marking a message with its level, once.
LEMMA MarkedIs ==
    ASSUME NEW v \in Views
    PROVE  /\ Marked(v) \in Views
           /\ v.isLevel => Marked(v) = v
           /\ ~v.isLevel /\ ~Shown(v.level) => Marked(v) = [v EXCEPT !.isLevel = TRUE]
           /\ ~v.isLevel /\ Shown(v.level) =>
                Marked(v) = [v EXCEPT !.text = v.text \o Prefix(v.level), !.isLevel = TRUE]
<1>1. v.text \o Prefix(v.level) \in Texts
    BY FixedTexts DEF Views, Texts
<1> QED
    BY <1>1 DEF Marked, Views

\* A token leads from a view to a view.
LEMMA MeaningType == ASSUME NEW v \in Views, NEW t \in Tokens PROVE Meaning(v, t) \in Views
<1>1. CASE t \in LevelTokens
    <2>1. t.op = "level" /\ t.level \in LevelSet
        BY <1>1, TokenFields
    <2>2. [v EXCEPT !.level = t.level] \in Views
        BY <2>1 DEF Views
    <2>3. Meaning(v, t) = Marked([v EXCEPT !.level = t.level])
        BY ZenonT(30), <2>1, MeaningIs
    <2> QED
        BY ZenonT(30), <2>2, <2>3, MarkedIs
<1>2. CASE t \in TextTokens
    <2>1. t.text \in Texts /\ t.op \in {"str", "char"}
        BY <1>2, TokenFields
    <2>2. Put(v, t.text) \in Views
        BY ZenonT(30), <2>1, PutIs
    <2>3. [v EXCEPT !.text = v.text \o t.text] \in Views
        <3>1. v.text \o t.text \in Texts
            BY <2>1 DEF Views, Texts
        <3> QED
            BY ZenonT(30), <3>1 DEF Views
    <2>4. t.op = "str" => Meaning(v, t) = Put(v, t.text)
        BY ZenonT(30), MeaningIs
    <2>5. t.op = "char" => Meaning(v, t) = [v EXCEPT !.text = v.text \o t.text]
        BY ZenonT(30), MeaningIs
    <2> QED
        BY <2>1, <2>2, <2>3, <2>4, <2>5
<1>3. CASE t \in NumTokens
    <2>1. Number(v, Address) \in Texts
        BY NumberIs, PaddedType DEF Fills
    <2>2. t.op = "num" /\ t.value = Address
        BY <1>3, TokenFields
    <2>3. Meaning(v, t) = Put(v, Number(v, Address))
        BY ZenonT(30), <2>2, MeaningIs
    <2> QED
        BY ZenonT(30), <2>1, <2>3, PutIs
<1>4. CASE t \in DigitTokens
    <2>1. t.op = "digits" /\ t.value = Address /\ t.fill \in Fills
        BY <1>4, TokenFields
    <2>2. Padded(v, ToStr(Address, Base(v)), t.fill) \in Texts
        BY <2>1, NumberIs, PaddedType
    <2>3. Meaning(v, t) = Put(v, Padded(v, ToStr(Address, Base(v)), t.fill))
        BY ZenonT(30), <2>1, MeaningIs
    <2> QED
        BY ZenonT(30), <2>2, <2>3, PutIs
<1>5. CASE t \in PadTokens
    <2>1. t.op = "pad" /\ t.text \in Texts /\ t.fill \in Fills
        BY <1>5, TokenFields
    <2>2. Padded(v, t.text, t.fill) \in Texts
        BY <2>1, PaddedType
    <2>3. Meaning(v, t) = Put(v, Padded(v, t.text, t.fill))
        BY ZenonT(30), <2>1, MeaningIs
    <2> QED
        BY ZenonT(30), <2>2, <2>3, PutIs
<1>6. ASSUME NEW w \in Views
      PROVE  /\ [w EXCEPT !.isHex = FALSE, !.isFill = FALSE, !.isLevel = FALSE] \in Views
             /\ [w EXCEPT !.isHex = TRUE] \in Views
             /\ [w EXCEPT !.isHex = FALSE] \in Views
             /\ [w EXCEPT !.isFill = TRUE] \in Views
    BY DEF Views
<1>7. CASE t \in SetTokens
    <2>1. Put(v, LineBreak) \in Views
        BY ZenonT(30), FixedTexts, PutIs
    <2>2. t.op = "fmt" /\ t.fmt \in {"endl", "hex", "dec", "fill"}
        BY <1>7, TokenFields
    <2> QED
        <3> DEFINE w == Put(v, LineBreak)
        <3>1. t.fmt = "endl" =>
                Meaning(v, t) = [w EXCEPT !.isHex = FALSE, !.isFill = FALSE, !.isLevel = FALSE]
            BY ZenonT(30), <2>2, MeaningIs
        <3>2. t.fmt = "hex"  => Meaning(v, t) = [v EXCEPT !.isHex = TRUE]
            BY ZenonT(30), <2>2, MeaningIs
        <3>3. t.fmt = "dec"  => Meaning(v, t) = [v EXCEPT !.isHex = FALSE]
            BY ZenonT(30), <2>2, MeaningIs
        <3>4. t.fmt = "fill"  => Meaning(v, t) = [v EXCEPT !.isFill = TRUE]
            BY ZenonT(30), <2>2, MeaningIs
        <3> HIDE DEF w
        <3> QED
            BY ZenonT(30), <2>1, <2>2, <3>1, <3>2, <3>3, <3>4, <1>6 DEF w
<1>8. CASE t \in ResetTokens
    BY ZenonT(30), <1>8, <1>6, TokenFields, MeaningIs
<1> QED
    BY <1>1, <1>2, <1>3, <1>4, <1>5, <1>7, <1>8 DEF Tokens, Sources

-----------------------------------------------------------------------------
(* What a sequence of tokens means. *)

\* The views that tokens lead through, one after the other, and the last of them.
IsFold(f, v, s) ==
    f \in [0 .. Len(s) -> Views] /\ f[0] = v /\ \A i \in 1 .. Len(s): f[i] = Meaning(f[i - 1], s[i])
All(v, s) == (CHOOSE f: IsFold(f, v, s))[Len(s)]

\* They exist for every sequence of tokens,
LEMMA FoldExists == ASSUME NEW v \in Views, NEW s \in Seq(Tokens) PROVE \E f: IsFold(f, v, s)
<1> DEFINE F == [i \in 1 .. Len(s) |-> [w \in Views |-> Meaning(w, s[i])]]
<1>1. \A i \in 1 .. Len(s): F[i] \in [Views -> Views] /\ \A w \in Views: F[i][w] = Meaning(w, s[i])
    BY MeaningType
<1>2. Len(s) \in Nat
    OBVIOUS
<1> HIDE DEF F
<1>3. PICK f : Goes(f, Len(s), Views, v, F)
    BY <1>1, <1>2, FiniteRecursion
<1>4. \A i \in 1 .. Len(s): f[i] = Meaning(f[i - 1], s[i])
    <2> TAKE i \in 1 .. Len(s)
    <2>1. f[i - 1] \in Views /\ f[i] = F[i][f[i - 1]]
        BY <1>2, <1>3 DEF Goes
    <2> QED
        BY <1>1, <2>1
<1>5. IsFold(f, v, s)
    BY <1>3, <1>4 DEF IsFold, Goes
<1> QED
    BY <1>5

\* and there is one way only,
LEMMA FoldUnique ==
    ASSUME NEW v \in Views, NEW s \in Seq(Tokens), NEW f, IsFold(f, v, s), NEW g, IsFold(g, v, s)
    PROVE  \A i \in 0 .. Len(s): f[i] = g[i]
<1>1. Len(s) \in Nat
    OBVIOUS
<1> DEFINE P == {i \in 0 .. Len(s) : f[i] = g[i]}
<1>2. 0 \in P
    BY <1>1 DEF IsFold
<1>3. ASSUME NEW i \in 0 .. Len(s), i < Len(s), i \in P PROVE i + 1 \in P
    <2>1. i + 1 \in 1 .. Len(s) /\ (i + 1) - 1 = i
        BY <1>1, <1>3
    <2>2. f[i + 1] = Meaning(f[i], s[i + 1]) /\ g[i + 1] = Meaning(g[i], s[i + 1])
        BY <2>1 DEF IsFold
    <2> QED
        BY <1>3, <2>1, <2>2
<1> HIDE DEF P
<1>4. \A i \in 0 .. Len(s): i \in P
    BY <1>1, <1>2, <1>3, Positions
<1> QED
    BY <1>4 DEF P

\* so that All is its last view.
LEMMA AllIs ==
    ASSUME NEW v \in Views, NEW s \in Seq(Tokens), NEW f, IsFold(f, v, s)
    PROVE  All(v, s) = f[Len(s)] /\ All(v, s) \in Views
<1> DEFINE g == CHOOSE g: IsFold(g, v, s)
<1>1. IsFold(g, v, s)
    BY FoldExists
<1>2. All(v, s) = g[Len(s)]
    BY DEF All
<1> HIDE DEF g
<1>3. Len(s) \in 0 .. Len(s)
    OBVIOUS
<1>4. g[Len(s)] = f[Len(s)]
    BY <1>1, <1>3, FoldUnique
<1> QED
    BY <1>2, <1>3, <1>4 DEF IsFold

\* No tokens leave a view as it is.
LEMMA AllEmpty == ASSUME NEW v \in Views PROVE All(v, <<>>) = v
<1>1. <<>> \in Seq(Tokens) /\ Len(<<>>) = 0
    OBVIOUS
<1>2. PICK f : IsFold(f, v, <<>>)
    BY <1>1, FoldExists
<1> QED
    BY <1>1, <1>2, AllIs DEF IsFold

\* The tokens of one sequence behind another do what the second does to what the first leaves.
LEMMA AllConcat ==
    ASSUME NEW v \in Views, NEW a \in Seq(Tokens), NEW b \in Seq(Tokens)
    PROVE  All(v, a \o b) = All(All(v, a), b)
<1> DEFINE s == a \o b
           n == Len(a)
           m == Len(b)
<1>1. /\ s \in Seq(Tokens) /\ n \in Nat /\ m \in Nat /\ Len(s) = n + m
      /\ \A i \in 1 .. n: s[i] = a[i]
      /\ \A i \in 1 .. m: s[n + i] = b[i]
    OBVIOUS
<1>2. PICK f : IsFold(f, v, s)
    BY <1>1, FoldExists
<1> HIDE DEF s, n, m
<1>3. /\ f \in [0 .. n + m -> Views] /\ f[0] = v
      /\ \A i \in 1 .. n + m: f[i] = Meaning(f[i - 1], s[i])
    BY <1>1, <1>2 DEF IsFold
<1> DEFINE g == [i \in 0 .. n |-> f[i]]
           h == [i \in 0 .. m |-> f[n + i]]
<1>4. IsFold(g, v, a)
    <2>1. g \in [0 .. n -> Views] /\ g[0] = v
        BY <1>1, <1>3
    <2>2. ASSUME NEW i \in 1 .. n PROVE g[i] = Meaning(g[i - 1], a[i])
        <3>1. i \in 1 .. n + m /\ i - 1 \in 0 .. n /\ i \in 0 .. n
            BY <1>1
        <3>2. g[i] = f[i] /\ g[i - 1] = f[i - 1] /\ s[i] = a[i]
            BY <1>1, <3>1
        <3> HIDE DEF g
        <3> QED
            BY <1>3, <3>1, <3>2
    <2> HIDE DEF g
    <2> QED
        BY <2>1, <2>2 DEF IsFold, n
<1>5. All(v, a) = f[n] /\ f[n] \in Views
    <2>1. All(v, a) = g[Len(a)]
        BY <1>4, AllIs
    <2> QED
        BY <2>1, <1>1, <1>3 DEF n
<1>6. IsFold(h, f[n], b)
    <2>1. h \in [0 .. m -> Views] /\ h[0] = f[n]
        BY <1>1, <1>3
    <2>2. ASSUME NEW i \in 1 .. m PROVE h[i] = Meaning(h[i - 1], b[i])
        <3>1. n + i \in 1 .. n + m /\ i - 1 \in 0 .. m /\ i \in 0 .. m /\ (n + i) - 1 = n + (i - 1)
            BY <1>1
        <3>2. h[i] = f[n + i] /\ h[i - 1] = f[(n + i) - 1] /\ s[n + i] = b[i]
            BY <1>1, <3>1
        <3> HIDE DEF h
        <3> QED
            BY <1>3, <3>1, <3>2
    <2> HIDE DEF h
    <2> QED
        BY <2>1, <2>2 DEF IsFold, m
<1>7. All(f[n], b) = f[n + m]
    <2>1. All(f[n], b) = h[Len(b)]
        BY <1>5, <1>6, AllIs
    <2> QED
        BY <2>1, <1>1 DEF m
<1>8. All(v, s) = f[n + m]
    <2>1. All(v, s) = f[Len(s)]
        BY <1>1, <1>2, AllIs
    <2> QED
        BY <2>1, <1>1
<1> QED
    BY <1>5, <1>7, <1>8 DEF s

\* A single token does what it means.
LEMMA AllOne ==
    ASSUME NEW v \in Views, NEW t \in Tokens
    PROVE  All(v, <<t>>) = Meaning(v, t)
<1> DEFINE s == <<t>>
<1>1. s \in Seq(Tokens) /\ Len(s) = 1 /\ s[1] = t
    OBVIOUS
<1> HIDE DEF s
<1>2. PICK f : IsFold(f, v, s)
    BY <1>1, FoldExists
<1>3. f[1] = Meaning(f[1 - 1], s[1]) /\ f[0] = v
    BY <1>1, <1>2 DEF IsFold
<1>4. All(v, s) = f[Len(s)]
    BY <1>1, <1>2, AllIs
<1> QED
    BY <1>1, <1>3, <1>4 DEF s

\* A sequence of two elements is the first followed by the second.
LEMMA ConcatOfTwo ==
    ASSUME NEW S, NEW a \in Seq(S), NEW b \in Seq(S), NEW c \in Seq(S),
           Len(a) = 1, Len(b) = 1, Len(c) = 2, c[1] = a[1], c[2] = b[1]
    PROVE  c = a \o b
<1>1. a \o b \in Seq(S) /\ Len(a \o b) = 2 /\ (a \o b)[1] = a[1] /\ (a \o b)[2] = b[1]
    <2> DEFINE d == a \o b
    <2>1. /\ d \in Seq(S) /\ Len(d) = Len(a) + Len(b)
          /\ \A i \in 1 .. Len(a) + Len(b): d[i] = IF i <= Len(a) THEN a[i] ELSE b[i - Len(a)]
        BY ConcatProperties
    <2> HIDE DEF d
    <2>2. Len(d) = 2 /\ 1 \in 1 .. 2 /\ 2 \in 1 .. 2 /\ 2 - 1 = 1
        BY <2>1
    <2> QED
        BY <2>1, <2>2 DEF d
<1>2. \A i \in 1 .. 2: c[i] = (a \o b)[i]
    BY <1>1
<1> QED
    BY <1>1, <1>2, SeqEqual

\* The same for a tuple.
LEMMA PairIsConcat ==
    ASSUME NEW S, NEW t \in S, NEW u \in S
    PROVE  <<t, u>> = <<t>> \o <<u>>
<1>1. /\ <<t>> \in Seq(S) /\ <<u>> \in Seq(S) /\ Len(<<t>>) = 1 /\ Len(<<u>>) = 1
      /\ <<t>>[1] = t /\ <<u>>[1] = u
    OBVIOUS
<1>2. <<t, u>> \in Seq(S) /\ Len(<<t, u>>) = 2 /\ <<t, u>>[1] = t /\ <<t, u>>[2] = u
    OBVIOUS
<1> QED
    BY <1>1, <1>2, ConcatOfTwo

\* Two tokens, one after the other.
LEMMA AllTwo ==
    ASSUME NEW v \in Views, NEW t \in Tokens, NEW u \in Tokens
    PROVE  All(v, <<t, u>>) = Meaning(Meaning(v, t), u)
<1>1. <<t>> \in Seq(Tokens) /\ <<u>> \in Seq(Tokens)
    OBVIOUS
<1>2. All(v, <<t, u>>) = All(All(v, <<t>>), <<u>>)
    <2>1. <<t, u>> = <<t>> \o <<u>>
        BY PairIsConcat
    <2>2. All(v, <<t>> \o <<u>>) = All(All(v, <<t>>), <<u>>)
        BY <1>1, AllConcat
    <2> QED
        BY <2>1, <2>2
<1>3. All(v, <<t>>) = Meaning(v, t) /\ Meaning(v, t) \in Views
    BY AllOne, MeaningType
<1> QED
    BY <1>2, <1>3, AllOne

\* The first token, and the others.
LEMMA AllCons ==
    ASSUME NEW v \in Views, NEW s \in Seq(Tokens), s # <<>>
    PROVE  All(v, s) = All(Meaning(v, Head(s)), Tail(s))
<1>1. /\ Head(s) \in Tokens /\ Tail(s) \in Seq(Tokens) /\ <<Head(s)>> \in Seq(Tokens)
      /\ s = <<Head(s)>> \o Tail(s)
    OBVIOUS
<1>2. All(v, s) = All(All(v, <<Head(s)>>), Tail(s))
    <2>1. All(v, <<Head(s)>> \o Tail(s)) = All(All(v, <<Head(s)>>), Tail(s))
        BY <1>1, AllConcat
    <2> QED
        BY <1>1, <2>1
<1> QED
    BY <1>1, <1>2, AllOne

\* What a line says by itself is what its tokens mean from a fresh start.
LEMMA SaysIsAll ==
    ASSUME NEW s \in Seq(Sources)
    PROVE  Says(s) = All(Blank, s).text
<1>1. s \in Seq(Tokens)
    <2>1. Sources \subseteq Tokens
        BY DEF Tokens
    <2> QED
        BY <2>1, SeqWider
<1>2. Blank \in Views
    BY FixedTexts DEF Blank, Views, LevelSet
<1>3. PICK f : IsFold(f, Blank, s)
    BY <1>1, <1>2, FoldExists
<1> DEFINE said == CHOOSE g: g = [i \in 0 .. Len(s) |-> IF i = 0 THEN Blank ELSE Token(g[i - 1], s[i])]
<1>4. \A i \in 1 .. Len(s): f[i] = Token(f[i - 1], s[i])
    <2> TAKE i \in 1 .. Len(s)
    <2>1. f[i - 1] \in Views /\ s[i] \in Sources /\ s[i] \in Tokens
        BY <1>1, <1>3 DEF IsFold
    <2>2. f[i] = Meaning(f[i - 1], s[i])
        BY <1>3 DEF IsFold
    <2> QED
        BY ZenonT(30), <2>1, <2>2, MeaningIs
<1>5. f = [i \in 0 .. Len(s) |-> IF i = 0 THEN Blank ELSE Token(f[i - 1], s[i])]
    BY <1>3, <1>4 DEF IsFold
<1>6. said = [i \in 0 .. Len(s) |-> IF i = 0 THEN Blank ELSE Token(said[i - 1], s[i])]
    BY <1>5
<1>7. Says(s) = said[Len(s)].text
    BY DEF Says
<1> HIDE DEF said
<1> DEFINE P == {i \in 0 .. Len(s) : said[i] = f[i]}
<1>8. \A i \in 0 .. Len(s): i \in P
    <2>1. 0 \in P
        BY <1>5, <1>6
    <2>2. ASSUME NEW i \in 0 .. Len(s), i < Len(s), i \in P PROVE i + 1 \in P
        <3>1. i + 1 \in 0 .. Len(s) /\ (i + 1) - 1 = i /\ i + 1 # 0
            BY <2>2
        <3>2. said[i + 1] = Token(said[i], s[i + 1]) /\ f[i + 1] = Token(f[i], s[i + 1])
            BY <1>5, <1>6, <3>1
        <3> QED
            BY <2>2, <3>1, <3>2
    <2> HIDE DEF P
    <2> QED
        BY <2>1, <2>2, Positions
<1>9. said[Len(s)] = f[Len(s)]
    BY <1>8
<1>10. All(Blank, s) = f[Len(s)]
    BY <1>1, <1>2, <1>3, AllIs
<1> QED
    BY <1>7, <1>9, <1>10

-----------------------------------------------------------------------------
(* One step of printing does a part of what its token means. *)

\* A step r of token t, in format f and with a text on the screen, does a part of what the token
\* means: what it prints now and what its remaining tokens mean, in the format it leaves, is it all.
Does(f, text, t, r) ==
    /\ r.format \in Formats /\ r.out \in Texts /\ r.rest \in Seq(Tokens)
    /\ All(View(r.format, text \o r.out), r.rest) = Meaning(View(f, text), t)

\* The tokens by their kind.
LEMMA TokenKinds ==
    /\ \A text \in Texts: Str(text) \in TextTokens /\ Str(text).op = "str" /\ Str(text).text = text
    /\ \A c \in Pieces: Chr(c) \in TextTokens
    /\ Reset \in ResetTokens
    /\ LevelTokens \subseteq Tokens /\ TextTokens \subseteq Tokens /\ NumTokens \subseteq Tokens
    /\ DigitTokens \subseteq Tokens /\ PadTokens \subseteq Tokens /\ SetTokens \subseteq Tokens
    /\ ResetTokens \subseteq Tokens
<1>1. \A text \in Texts: Str(text) \in TextTokens /\ Str(text).op = "str" /\ Str(text).text = text
    BY DEF Str, TextTokens
<1>2. \A c \in Pieces: Chr(c) \in TextTokens
    <2>1. \A c \in Pieces: <<c>> \in Texts
        BY DEF Texts
    <2> QED
        BY ZenonT(30), <2>1 DEF Chr, TextTokens
<1>3. Reset \in ResetTokens
    BY TokenFields
<1> QED
    BY <1>1, <1>2, <1>3 DEF Tokens, Sources

\* A step that prints at once does what its token means,
LEMMA DoesNow ==
    ASSUME NEW f \in Formats, NEW text \in Texts, NEW t \in Tokens, NEW g \in Formats,
           NEW out \in Texts,
           View(g, text \o out) = Meaning(View(f, text), t)
    PROVE  Does(f, text, t, Result(g, out, <<>>))
<1>1. text \o out \in Texts
    BY DEF Texts
<1>2. All(View(g, text \o out), <<>>) = View(g, text \o out)
    BY <1>1, ViewType, AllEmpty
<1>3. <<>> \in Seq(Tokens)
    OBVIOUS
<1> QED
    BY <1>2, <1>3 DEF Does, Result

\* or it leaves one token that does,
LEMMA DoesOne ==
    ASSUME NEW f \in Formats, NEW text \in Texts, NEW t \in Tokens, NEW g \in Formats,
           NEW u \in Tokens,
           Meaning(View(g, text), u) = Meaning(View(f, text), t)
    PROVE  Does(f, text, t, Result(g, <<>>, <<u>>))
<1>1. text \o <<>> = text /\ <<>> \in Texts
    BY DEF Texts
<1>2. All(View(g, text), <<u>>) = Meaning(View(g, text), u)
    BY ViewType, AllOne
<1>3. <<u>> \in Seq(Tokens)
    OBVIOUS
<1> QED
    BY <1>1, <1>2, <1>3 DEF Does, Result

\* or two that do so together.
LEMMA DoesTwo ==
    ASSUME NEW f \in Formats, NEW text \in Texts, NEW t \in Tokens, NEW g \in Formats,
           NEW u \in Tokens, NEW w \in Tokens,
           Meaning(Meaning(View(g, text), u), w) = Meaning(View(f, text), t)
    PROVE  Does(f, text, t, Result(g, <<>>, <<u, w>>))
<1>1. text \o <<>> = text /\ <<>> \in Texts
    BY DEF Texts
<1>2. All(View(g, text), <<u, w>>) = Meaning(Meaning(View(g, text), u), w)
    BY ViewType, AllTwo
<1>3. <<u, w>> \in Seq(Tokens)
    OBVIOUS
<1> QED
    BY <1>1, <1>2, <1>3 DEF Does, Result

\* A string is put on the screen.
LEMMA StrMeaning ==
    ASSUME NEW v \in Views, NEW text \in Texts
    PROVE  Str(text) \in Tokens /\ Meaning(v, Str(text)) = Put(v, text)
<1> DEFINE t == Str(text)
<1>1. t \in TextTokens /\ t.op = "str" /\ t.text = text
    BY TokenKinds
<1> HIDE DEF t
<1>2. t \in Tokens
    BY <1>1, TokenKinds
<1>3. Meaning(v, t) = Put(v, t.text)
    BY ZenonT(30), <1>1, <1>2, MeaningIs
<1> QED
    BY <1>1, <1>2, <1>3 DEF t

\* Views with the same fields are the same.
LEMMA SameView ==
    ASSUME NEW v \in Views, NEW w \in Views,
           v.text = w.text, v.level = w.level, v.isLevel = w.isLevel, v.isHex = w.isHex, v.isFill = w.isFill
    PROVE  v = w
BY DEF Views

\* The view of a format with the level set.
LEMMA LevelView ==
    ASSUME NEW f \in Formats, NEW text \in Texts, NEW level \in LevelSet
    PROVE  View([f EXCEPT !.level = level, !.isLevel = TRUE], text)
                = [View(f, text) EXCEPT !.level = level, !.isLevel = TRUE]
<1> DEFINE g == [f EXCEPT !.level = level, !.isLevel = TRUE]
           v == View(f, text)
           w == [v EXCEPT !.level = level, !.isLevel = TRUE]
<1>1. /\ g \in Formats
      /\ g.level = level /\ g.isLevel = TRUE /\ g.isHex = f.isHex /\ g.isFill = f.isFill
    BY LevelNames DEF Formats
<1>2. View(g, text) \in Views /\ v \in Views
    BY <1>1, ViewType
<1>3. v.text = text /\ v.isHex = f.isHex /\ v.isFill = f.isFill
    BY DEF View
<1>4. /\ View(g, text).text = text /\ View(g, text).level = g.level
      /\ View(g, text).isLevel = g.isLevel
      /\ View(g, text).isHex = g.isHex /\ View(g, text).isFill = g.isFill
    BY DEF View
<1> HIDE DEF g, v
<1>5. /\ w \in Views /\ w.text = v.text /\ w.level = level /\ w.isLevel = TRUE
      /\ w.isHex = v.isHex /\ w.isFill = v.isFill
    BY <1>2 DEF Views
<1> HIDE DEF w
<1>6. /\ View(g, text).text = w.text /\ View(g, text).level = w.level
      /\ View(g, text).isLevel = w.isLevel
      /\ View(g, text).isHex = w.isHex /\ View(g, text).isFill = w.isFill
    BY <1>1, <1>3, <1>4, <1>5
<1>7. View(g, text) = w
    BY <1>2, <1>5, <1>6, SameView
<1> QED
    BY <1>7 DEF g, v, w

\* The same for the mark alone,
LEMMA MarkView ==
    ASSUME NEW f \in Formats, NEW text \in Texts
    PROVE  View([f EXCEPT !.isLevel = TRUE], text) = [View(f, text) EXCEPT !.isLevel = TRUE]
<1> DEFINE g == [f EXCEPT !.isLevel = TRUE]
           v == View(f, text)
           w == [v EXCEPT !.isLevel = TRUE]
<1>1. /\ g \in Formats
      /\ g.level = f.level /\ g.isLevel = TRUE /\ g.isHex = f.isHex /\ g.isFill = f.isFill
    BY LevelNames DEF Formats
<1>2. View(g, text) \in Views /\ v \in Views
    BY <1>1, ViewType
<1>3. v.text = text /\ v.level = f.level /\ v.isHex = f.isHex /\ v.isFill = f.isFill
    BY DEF View
<1>4. /\ View(g, text).text = text /\ View(g, text).level = g.level
      /\ View(g, text).isLevel = g.isLevel
      /\ View(g, text).isHex = g.isHex /\ View(g, text).isFill = g.isFill
    BY DEF View
<1> HIDE DEF g, v
<1>5. /\ w \in Views /\ w.text = v.text /\ w.level = v.level /\ w.isLevel = TRUE
      /\ w.isHex = v.isHex /\ w.isFill = v.isFill
    BY <1>2 DEF Views
<1> HIDE DEF w
<1>6. /\ View(g, text).text = w.text /\ View(g, text).level = w.level
      /\ View(g, text).isLevel = w.isLevel
      /\ View(g, text).isHex = w.isHex /\ View(g, text).isFill = w.isFill
    BY <1>1, <1>3, <1>4, <1>5
<1>7. View(g, text) = w
    BY <1>2, <1>5, <1>6, SameView
<1> QED
    BY <1>7 DEF g, v, w

\* which nothing changes a second time.
LEMMA LevelAgain ==
    ASSUME NEW w \in Views, w.isLevel
    PROVE  [w EXCEPT !.isLevel = TRUE] = w
<1>1. w.isLevel = TRUE
    BY DEF Views
<1> QED
    BY <1>1 DEF Views

\* Two tokens in a row.
LEMMA AppendOne ==
    ASSUME NEW S, NEW a \in S, NEW b \in S
    PROVE  Append(<<a>>, b) = <<a, b>>
<1>1. Append(<<a>>, b) = <<a>> \o <<b>>
    <2>1. <<a>> \in Seq(S)
        OBVIOUS
    <2> QED
        BY <2>1, AppendIsConcat
<1> QED
    BY <1>1, PairIsConcat

\* A level: Console::operator<< with a llevel, and ShowLogLevel after it unless a level was shown.
LEMMA LevelDoes ==
    ASSUME NEW f \in Formats, NEW text \in Texts, NEW t \in LevelTokens
    PROVE  Does(f, text, t, Step(f, t))
<1> DEFINE g == [f EXCEPT !.level = t.level, !.isLevel = TRUE]
           v == View(f, text)
           w == [v EXCEPT !.level = t.level]
<1>1. t.op = "level" /\ t.level \in LevelSet /\ t \in Tokens
    BY TokenFields, TokenKinds
<1>2. Step(f, t) = Result(g, <<>>, IF f.isLevel THEN <<>> ELSE LevelMessage(t.level))
    BY <1>1 DEF Step, StepLevel
<1>3. g \in Formats
    BY ZenonT(30), <1>1, LevelNames DEF Formats
<1>4. v \in Views
    BY ViewType
<1>5. Meaning(v, t) = Marked(w)
    BY ZenonT(30), <1>1, <1>4, MeaningIs
<1>6. w \in Views /\ w.level = t.level /\ w.isLevel = f.isLevel /\ w.text = text
    BY <1>1, <1>4 DEF Views, View
<1>7. View(g, text) = [w EXCEPT !.isLevel = TRUE] /\ View(g, text) \in Views
    <2>1. View(g, text) \in Views
        BY <1>3, ViewType
    <2>2. View(g, text) = [v EXCEPT !.level = t.level, !.isLevel = TRUE]
        <3>1. \A l \in LevelSet: View([f EXCEPT !.level = l, !.isLevel = TRUE], text)
                                   = [View(f, text) EXCEPT !.level = l, !.isLevel = TRUE]
            BY ZenonT(30), LevelView
        <3> QED
            BY ZenonT(30), <1>1, <3>1
    <2>3. [v EXCEPT !.level = t.level, !.isLevel = TRUE] = [w EXCEPT !.isLevel = TRUE]
        BY <1>4 DEF Views
    <2> QED
        BY <2>1, <2>2, <2>3
<1>8. text \o <<>> = text /\ <<>> \in Texts /\ Prefix(t.level) \in Texts
    BY <1>1, FixedTexts DEF Texts
<1>9. CASE f.isLevel
    <2>1. Marked(w) = w /\ [w EXCEPT !.isLevel = TRUE] = w
        BY ZenonT(30), <1>6, <1>9, MarkedIs, LevelAgain
    <2>2. View(g, text \o <<>>) = Meaning(v, t)
        BY <1>5, <1>7, <1>8, <2>1
    <2> HIDE DEF g
    <2> QED
        BY <1>1, <1>2, <1>3, <1>8, <1>9, <2>2, DoesNow
<1>10. CASE ~f.isLevel /\ t.level = "none"
    <2>1. Prefix(w.level) = <<>> /\ LevelMessage(t.level) = <<>> /\ Shown(w.level)
        BY <1>6, <1>10 DEF Prefix, LevelMessage, Shown
    <2>2. Marked(w) = [w EXCEPT !.isLevel = TRUE]
        <3>1. Marked(w) = [w EXCEPT !.text = w.text \o Prefix(w.level), !.isLevel = TRUE]
            BY ZenonT(30), <1>6, <1>10, <2>1, MarkedIs
        <3>2. w.text \o Prefix(w.level) = w.text
            BY <1>6, <1>8, <2>1
        <3> QED
            BY <3>1, <3>2, <1>6 DEF Views
    <2>3. View(g, text \o <<>>) = Meaning(v, t)
        BY <1>5, <1>7, <1>8, <2>2
    <2> HIDE DEF g
    <2> QED
        BY <1>1, <1>2, <1>3, <1>8, <1>10, <2>1, <2>3, DoesNow
<1>11. CASE ~f.isLevel /\ t.level # "none"
    <2> DEFINE p == Prefix(t.level)
    <2>1. LevelMessage(t.level) = <<Str(p)>>
        BY <1>11 DEF LevelMessage
    <2> DEFINE x == [w EXCEPT !.isLevel = TRUE]
    <2>2. x \in Views /\ x.isLevel /\ x.level = t.level /\ x.text = text
        BY <1>6 DEF Views
    <2>3. Put(x, p) = Marked(w)
        <3>1. CASE Shown(t.level)
            <4>1. Put(x, p) = [x EXCEPT !.text = x.text \o p]
                BY ZenonT(30), <1>8, <2>2, <3>1, PutIs
            <4>2. Marked(w) = [w EXCEPT !.text = w.text \o p, !.isLevel = TRUE]
                BY ZenonT(30), <1>6, <1>11, <3>1, MarkedIs
            <4> QED
                BY <4>1, <4>2, <2>2, <1>6 DEF Views
        <3>2. CASE ~Shown(t.level)
            <4>1. Put(x, p) = x
                BY ZenonT(30), <1>8, <2>2, <3>2, PutIs
            <4>2. Marked(w) = [w EXCEPT !.isLevel = TRUE]
                BY ZenonT(30), <1>6, <1>11, <3>2, MarkedIs
            <4> QED
                BY <4>1, <4>2
        <3> QED
            BY <3>1, <3>2
    <2>4. Meaning(View(g, text), Str(p)) = Put(x, p) /\ Str(p) \in Tokens
        BY <1>7, <1>8, <2>2, StrMeaning
    <2>5. Meaning(View(g, text), Str(p)) = Meaning(v, t)
        BY <1>5, <2>3, <2>4
    <2> HIDE DEF g, p
    <2> QED
        BY <1>1, <1>2, <1>3, <1>11, <2>1, <2>4, <2>5, DoesOne
<1> QED
    BY <1>9, <1>10, <1>11

\* A string, marked with its level if it is the first.
LEMMA StrDoes ==
    ASSUME NEW f \in Formats, NEW text \in Texts, NEW t \in TextTokens, t.op = "str"
    PROVE  Does(f, text, t, Step(f, t))
<1> DEFINE v == View(f, text)
           g == [f EXCEPT !.isLevel = TRUE]
<1>1. t \in Tokens /\ t.text \in Texts
    BY TokenFields, TokenKinds
<1>2. Step(f, t) = StepStr(f, t)
    BY DEF Step
<1>3. v \in Views /\ Meaning(v, t) = Put(v, t.text)
    BY ZenonT(30), <1>1, ViewType, MeaningIs
<1>4. v.level = f.level /\ v.isLevel = f.isLevel /\ v.text = text
    BY DEF View
<1>5. text \o <<>> = text /\ <<>> \in Texts
    BY DEF Texts
<1>6. CASE ~Shown(f.level)
    <2>1. Step(f, t) = Result(f, <<>>, <<>>)
        BY <1>2, <1>6 DEF StepStr
    <2>2. View(f, text \o <<>>) = Meaning(v, t)
        <3>1. Put(v, t.text) = v
            BY ZenonT(30), <1>1, <1>3, <1>4, <1>6, PutIs
        <3> QED
            BY <3>1, <1>3, <1>5
    <2> QED
        BY <2>1, <2>2, <1>1, <1>5, DoesNow
<1>7. CASE Shown(f.level) /\ f.isLevel
    <2>1. Step(f, t) = Result(f, t.text, <<>>)
        BY <1>2, <1>7 DEF StepStr
    <2>2. View(f, text \o t.text) = Meaning(v, t)
        <3>1. Put(v, t.text) = [v EXCEPT !.text = v.text \o t.text]
            BY ZenonT(30), <1>1, <1>3, <1>4, <1>7, PutIs
        <3> QED
            BY <3>1, <1>3, <1>4 DEF View
    <2> QED
        BY <2>1, <2>2, <1>1, DoesNow
<1>8. CASE Shown(f.level) /\ ~f.isLevel
    <2>1. f.level \in LevelSet
        BY LevelNames DEF Formats
    <2>2. Step(f, t) = Result(g, <<>>, Append(LevelMessage(f.level), t))
        BY <1>2, <1>8 DEF StepStr
    <2>3. g \in Formats
        BY DEF Formats
    <2> DEFINE x == View(g, text)
               p == Prefix(f.level)
    <2>4. /\ x \in Views /\ x.level = f.level /\ x.isLevel
          /\ x.text = text /\ x = [v EXCEPT !.isLevel = TRUE]
        <3>1. x \in Views
            BY <2>3, ViewType
        <3>2. x = [v EXCEPT !.isLevel = TRUE]
            BY MarkView
        <3>3. x.level = f.level /\ x.isLevel /\ x.text = text
            BY <1>3, <1>4, <3>2 DEF Views
        <3> QED
            BY <3>1, <3>2, <3>3
    <2>5. p \in Texts
        BY <2>1, FixedTexts
    <2>6. Put(v, t.text) = [v EXCEPT !.text = (text \o p) \o t.text, !.isLevel = TRUE]
        BY ZenonT(30), <1>1, <1>3, <1>4, <1>8, PutIs
    <2>7. Put(v, t.text) = [x EXCEPT !.text = (text \o p) \o t.text]
        BY <2>4, <2>6, <1>3 DEF Views
    <2>8. ASSUME NEW y \in Views, y = [x EXCEPT !.text = text \o p]
          PROVE  Meaning(y, t) = Meaning(v, t)
        <3>1. y.level = f.level /\ y.isLevel /\ y.text = text \o p
            BY <2>4, <2>8 DEF Views
        <3>2. Meaning(y, t) = Put(y, t.text)
            BY ZenonT(30), <1>1, <2>8, MeaningIs
        <3>3. Put(y, t.text) = [y EXCEPT !.text = (text \o p) \o t.text]
            <4>1. Put(y, t.text) = [y EXCEPT !.text = y.text \o t.text]
                BY ZenonT(30), <1>1, <1>8, <2>8, <3>1, PutIs
            <4> QED
                BY <3>1, <4>1
        <3>4. [y EXCEPT !.text = (text \o p) \o t.text] = [x EXCEPT !.text = (text \o p) \o t.text]
            BY <2>4, <2>8 DEF Views
        <3> QED
            BY <1>3, <2>7, <3>2, <3>3, <3>4
    <2>9. CASE f.level = "none"
        <3>1. LevelMessage(f.level) = <<>> /\ p = <<>>
            BY <2>9 DEF LevelMessage, Prefix
        <3>2. [x EXCEPT !.text = text \o p] = x
            BY <1>5, <2>4, <3>1 DEF Views
        <3>3. Meaning(x, t) = Meaning(v, t)
            BY <2>4, <2>8, <3>2
        <3>4. Append(LevelMessage(f.level), t) = <<t>>
            BY <3>1
        <3> HIDE DEF g
        <3> QED
            BY <1>1, <2>2, <2>3, <3>3, <3>4, DoesOne
    <2>10. CASE f.level # "none"
        <3>1. Append(LevelMessage(f.level), t) = <<Str(p), t>>
            <4>1. LevelMessage(f.level) = <<Str(p)>>
                BY <2>10 DEF LevelMessage
            <4>2. Str(p) \in Tokens
                BY <2>4, <2>5, StrMeaning
            <4> QED
                BY <1>1, <4>1, <4>2, AppendOne
        <3>2. Str(p) \in Tokens /\ Meaning(x, Str(p)) = Put(x, p)
            BY <2>4, <2>5, StrMeaning
        <3>3. Put(x, p) = [x EXCEPT !.text = text \o p] /\ Put(x, p) \in Views
            BY ZenonT(30), <1>8, <2>4, <2>5, PutIs
        <3>4. Meaning(Meaning(x, Str(p)), t) = Meaning(v, t)
            BY <2>8, <3>2, <3>3
        <3> HIDE DEF g, p
        <3> QED
            BY <1>1, <2>2, <2>3, <3>1, <3>2, <3>4, DoesTwo
    <2> QED
        BY <2>9, <2>10
<1> QED
    BY <1>6, <1>7, <1>8

\* A format of which the view has the same fields is the one a token means.
LEMMA SetView ==
    ASSUME NEW f \in Formats, NEW text \in Texts
    PROVE  /\ View([f EXCEPT !.isHex = TRUE], text) = [View(f, text) EXCEPT !.isHex = TRUE]
           /\ View([f EXCEPT !.isHex = FALSE], text) = [View(f, text) EXCEPT !.isHex = FALSE]
           /\ View([f EXCEPT !.isFill = TRUE], text) = [View(f, text) EXCEPT !.isFill = TRUE]
           /\ View([f EXCEPT !.isHex = FALSE, !.isFill = FALSE, !.isLevel = FALSE], text)
                = [View(f, text) EXCEPT !.isHex = FALSE, !.isFill = FALSE, !.isLevel = FALSE]
           /\ [f EXCEPT !.isHex = TRUE] \in Formats
           /\ [f EXCEPT !.isHex = FALSE] \in Formats
           /\ [f EXCEPT !.isFill = TRUE] \in Formats
           /\ [f EXCEPT !.isHex = FALSE, !.isFill = FALSE, !.isLevel = FALSE] \in Formats
<1>1. /\ [f EXCEPT !.isHex = TRUE] \in Formats
      /\ [f EXCEPT !.isHex = FALSE] \in Formats
      /\ [f EXCEPT !.isFill = TRUE] \in Formats
      /\ [f EXCEPT !.isHex = FALSE, !.isFill = FALSE, !.isLevel = FALSE] \in Formats
    BY DEF Formats
<1> DEFINE v == View(f, text)
<1>2. /\ v \in Views /\ v.text = text /\ v.level = f.level /\ v.isLevel = f.isLevel
      /\ v.isHex = f.isHex /\ v.isFill = f.isFill
    <2>1. v \in Views
        BY ViewType
    <2> QED
        BY <2>1 DEF View
<1>3. ASSUME NEW g \in Formats, NEW w \in Views,
             w.text = text, w.level = g.level, w.isLevel = g.isLevel,
             w.isHex = g.isHex, w.isFill = g.isFill
      PROVE  View(g, text) = w
    <2> DEFINE x == View(g, text)
    <2>1. x \in Views
        BY ViewType
    <2>2. /\ x.text = text /\ x.level = g.level /\ x.isLevel = g.isLevel
          /\ x.isHex = g.isHex /\ x.isFill = g.isFill
        BY DEF View
    <2> HIDE DEF x
    <2>3. x = w
        BY <1>3, <2>1, <2>2, SameView
    <2> QED
        BY <2>3 DEF x
<1> HIDE DEF v
<1>4. View([f EXCEPT !.isHex = TRUE], text) = [v EXCEPT !.isHex = TRUE]
    <2> DEFINE g == [f EXCEPT !.isHex = TRUE]
               w == [v EXCEPT !.isHex = TRUE]
    <2>1. /\ w \in Views /\ w.text = text /\ w.level = f.level
          /\ w.isLevel = f.isLevel /\ w.isHex = TRUE /\ w.isFill = f.isFill
        BY <1>2 DEF Views
    <2>2. /\ g \in Formats /\ g.level = f.level /\ g.isLevel = f.isLevel
          /\ g.isHex = TRUE /\ g.isFill = f.isFill
        BY DEF Formats
    <2> HIDE DEF g, w
    <2>3. View(g, text) = w
        BY <1>3, <2>1, <2>2
    <2> QED
        BY <2>3 DEF g, w
<1>5. View([f EXCEPT !.isHex = FALSE], text) = [v EXCEPT !.isHex = FALSE]
    <2> DEFINE g == [f EXCEPT !.isHex = FALSE]
               w == [v EXCEPT !.isHex = FALSE]
    <2>1. /\ w \in Views /\ w.text = text /\ w.level = f.level
          /\ w.isLevel = f.isLevel /\ w.isHex = FALSE /\ w.isFill = f.isFill
        BY <1>2 DEF Views
    <2>2. /\ g \in Formats /\ g.level = f.level /\ g.isLevel = f.isLevel
          /\ g.isHex = FALSE /\ g.isFill = f.isFill
        BY DEF Formats
    <2> HIDE DEF g, w
    <2>3. View(g, text) = w
        BY <1>3, <2>1, <2>2
    <2> QED
        BY <2>3 DEF g, w
<1>6. View([f EXCEPT !.isFill = TRUE], text) = [v EXCEPT !.isFill = TRUE]
    <2> DEFINE g == [f EXCEPT !.isFill = TRUE]
               w == [v EXCEPT !.isFill = TRUE]
    <2>1. /\ w \in Views /\ w.text = text /\ w.level = f.level
          /\ w.isLevel = f.isLevel /\ w.isHex = f.isHex /\ w.isFill = TRUE
        BY <1>2 DEF Views
    <2>2. /\ g \in Formats /\ g.level = f.level /\ g.isLevel = f.isLevel
          /\ g.isHex = f.isHex /\ g.isFill = TRUE
        BY DEF Formats
    <2> HIDE DEF g, w
    <2>3. View(g, text) = w
        BY <1>3, <2>1, <2>2
    <2> QED
        BY <2>3 DEF g, w
<1>7. View([f EXCEPT !.isHex = FALSE, !.isFill = FALSE, !.isLevel = FALSE], text)
        = [v EXCEPT !.isHex = FALSE, !.isFill = FALSE, !.isLevel = FALSE]
    <2> DEFINE g == [f EXCEPT !.isHex = FALSE, !.isFill = FALSE, !.isLevel = FALSE]
               w == [v EXCEPT !.isHex = FALSE, !.isFill = FALSE, !.isLevel = FALSE]
    <2>1. /\ w \in Views /\ w.text = text /\ w.level = f.level
          /\ w.isLevel = FALSE /\ w.isHex = FALSE /\ w.isFill = FALSE
        BY <1>2 DEF Views
    <2>2. /\ g \in Formats /\ g.level = f.level /\ g.isLevel = FALSE
          /\ g.isHex = FALSE /\ g.isFill = FALSE
        BY DEF Formats
    <2> HIDE DEF g, w
    <2>3. View(g, text) = w
        BY <1>3, <2>1, <2>2
    <2> QED
        BY <2>3 DEF g, w
<1> QED
    BY <1>1, <1>4, <1>5, <1>6, <1>7 DEF v

\* A character.
LEMMA CharDoes ==
    ASSUME NEW f \in Formats, NEW text \in Texts, NEW t \in TextTokens, t.op = "char"
    PROVE  Does(f, text, t, Step(f, t))
<1>1. t \in Tokens /\ t.text \in Texts
    BY TokenFields, TokenKinds
<1>2. Step(f, t) = Result(f, t.text, <<>>)
    BY DEF Step
<1>3. Meaning(View(f, text), t) = [View(f, text) EXCEPT !.text = View(f, text).text \o t.text]
    BY ZenonT(30), <1>1, ViewType, MeaningIs
<1>4. View(f, text \o t.text) = Meaning(View(f, text), t)
    BY <1>3 DEF View
<1> QED
    BY <1>1, <1>2, <1>4, DoesNow

\* A number, in each of its three reads of the format.
LEMMA NumDoes ==
    ASSUME NEW f \in Formats, NEW text \in Texts,
           NEW t \in NumTokens \union DigitTokens \union PadTokens
    PROVE  Does(f, text, t, Step(f, t))
<1> DEFINE v == View(f, text)
<1>1. v \in Views /\ v.isHex = f.isHex /\ v.isFill = f.isFill
    <2>1. v \in Views
        BY ViewType
    <2> QED
        BY <2>1 DEF View
<1> HIDE DEF v
<1>2. Base(v) = IF f.isHex THEN 16 ELSE 10
    BY <1>1 DEF Base
<1>3. t \in Tokens
    BY TokenKinds
<1>4. CASE t \in NumTokens
    <2>1. t.op = "num" /\ t.value = Address
        BY <1>4, TokenFields
    <2> DEFINE u == [op |-> "digits", value |-> Address, fill |-> IF f.isFill THEN FillSize ELSE 0]
    <2>2. Step(f, t) = Result(f, <<>>, <<u>>)
        BY <2>1 DEF Step, StepNum
    <2>3. /\ u \in DigitTokens /\ u.op = "digits" /\ u.value = Address
          /\ u.fill = IF f.isFill THEN FillSize ELSE 0
        BY DEF DigitTokens, Fills
    <2> HIDE DEF u
    <2>4. u \in Tokens
        BY <2>3, TokenKinds
    <2>5. Meaning(v, u) = Put(v, Padded(v, ToStr(u.value, Base(v)), u.fill))
        BY ZenonT(30), <1>1, <2>3, <2>4, MeaningIs
    <2>6. Meaning(v, t) = Put(v, Number(v, t.value))
        BY ZenonT(30), <1>1, <1>3, <2>1, MeaningIs
    <2>7. Meaning(v, u) = Meaning(v, t)
        BY <1>1, <2>1, <2>3, <2>5, <2>6, NumberIs
    <2> QED
        BY <1>3, <2>2, <2>4, <2>7, DoesOne DEF v
<1>5. CASE t \in DigitTokens
    <2>1. t.op = "digits" /\ t.value = Address /\ t.fill \in Fills
        BY <1>5, TokenFields
    <2> DEFINE u == [op |-> "pad", text |-> ToStr(t.value, Base(v)), fill |-> t.fill]
    <2>2. Step(f, t) = Result(f, <<>>, <<u>>)
        BY <1>2, <2>1 DEF Step, StepNum
    <2>3. u \in PadTokens /\ u.op = "pad" /\ u.text = ToStr(t.value, Base(v)) /\ u.fill = t.fill
        <3>1. ToStr(t.value, Base(v)) \in Texts
            BY <1>1, <2>1, NumberIs
        <3> QED
            BY <2>1, <3>1 DEF PadTokens
    <2> HIDE DEF u
    <2>4. u \in Tokens
        BY <2>3, TokenKinds
    <2>5. Meaning(v, u) = Put(v, Padded(v, u.text, u.fill))
        BY ZenonT(30), <1>1, <2>3, <2>4, MeaningIs
    <2>6. Meaning(v, t) = Put(v, Padded(v, ToStr(t.value, Base(v)), t.fill))
        BY ZenonT(30), <1>1, <1>3, <2>1, MeaningIs
    <2>7. Meaning(v, u) = Meaning(v, t)
        BY <2>3, <2>5, <2>6
    <2> QED
        BY <1>3, <2>2, <2>4, <2>7, DoesOne DEF v
<1>6. CASE t \in PadTokens
    <2>1. t.op = "pad" /\ t.text \in Texts /\ t.fill \in Fills
        BY <1>6, TokenFields
    <2> DEFINE p == Padded(v, t.text, t.fill)
    <2>2. Step(f, t) = Result(f, <<>>, <<Str(p)>>)
        BY <1>1, <2>1 DEF Step, StepNum, Padded
    <2>3. p \in Texts
        BY <1>1, <2>1, PaddedType
    <2>4. Meaning(v, t) = Put(v, p)
        BY ZenonT(30), <1>1, <1>3, <2>1, MeaningIs
    <2> HIDE DEF p
    <2>5. Str(p) \in Tokens /\ Meaning(v, Str(p)) = Put(v, p)
        BY <1>1, <2>3, StrMeaning
    <2>6. Meaning(v, Str(p)) = Meaning(v, t)
        BY <2>4, <2>5
    <2> QED
        BY <1>3, <2>2, <2>5, <2>6, DoesOne DEF v
<1> QED
    BY <1>4, <1>5, <1>6

\* An fmt, in both halves of endl.
LEMMA FmtDoes ==
    ASSUME NEW f \in Formats, NEW text \in Texts, NEW t \in SetTokens \union ResetTokens
    PROVE  Does(f, text, t, Step(f, t))
<1> DEFINE v == View(f, text)
<1>1. t \in Tokens /\ t.op = "fmt" /\ t.fmt \in {"endl", "reset", "hex", "dec", "fill"}
    BY TokenFields, TokenKinds
<1>2. v \in Views
    BY ViewType
<1>3. Step(f, t) = StepFmt(f, t)
    BY <1>1 DEF Step
<1>4. text \o <<>> = text /\ <<>> \in Texts
    BY DEF Texts
<1>5. ASSUME NEW g \in Formats, Step(f, t) = Result(g, <<>>, <<>>), View(g, text) = Meaning(v, t)
      PROVE  Does(f, text, t, Step(f, t))
    <2>1. View(g, text \o <<>>) = Meaning(v, t)
        BY <1>4, <1>5
    <2> QED
        BY <1>1, <1>4, <1>5, <2>1, DoesNow
<1>6. CASE t.fmt = "endl"
    <2>1. Step(f, t) = Result(f, <<>>, <<Str(LineBreak), Reset>>)
        BY <1>3, <1>6 DEF StepFmt, Reset
    <2> DEFINE w == Put(v, LineBreak)
    <2>2. w \in Views /\ Str(LineBreak) \in Tokens /\ Meaning(v, Str(LineBreak)) = w
        BY ZenonT(30), <1>2, FixedTexts, PutIs, StrMeaning
    <2>3. Meaning(v, t) = [w EXCEPT !.isHex = FALSE, !.isFill = FALSE, !.isLevel = FALSE]
        BY ZenonT(30), <1>1, <1>2, <1>6, MeaningIs
    <2> HIDE DEF w
    <2>4. Reset \in Tokens
        BY TokenKinds
    <2>5. Meaning(w, Reset) = [w EXCEPT !.isHex = FALSE, !.isFill = FALSE, !.isLevel = FALSE]
        <3>1. Reset.op = "fmt"
            BY TokenFields
        <3> QED
            BY <3>1 DEF Meaning
    <2>6. Meaning(Meaning(v, Str(LineBreak)), Reset) = Meaning(v, t)
        BY <2>2, <2>3, <2>5
    <2> QED
        BY <1>1, <2>1, <2>2, <2>4, <2>6, DoesTwo
<1>7. CASE t.fmt = "reset"
    <2> DEFINE g == [f EXCEPT !.isHex = FALSE, !.isFill = FALSE, !.isLevel = FALSE]
    <2>1. Step(f, t) = Result(g, <<>>, <<>>)
        BY <1>3, <1>7 DEF StepFmt
    <2>2. t = Reset
        BY <1>1, <1>7, TokenFields
    <2>3. Meaning(v, t) = [v EXCEPT !.isHex = FALSE, !.isFill = FALSE, !.isLevel = FALSE]
        BY ZenonT(30), <1>1, <1>2, <2>2, MeaningIs
    <2>4. g \in Formats /\ View(g, text) = Meaning(v, t)
        BY ZenonT(30), <2>3, SetView
    <2> QED
        BY <1>5, <2>1, <2>4
<1>8. CASE t.fmt = "hex"
    <2> DEFINE g == [f EXCEPT !.isHex = TRUE]
    <2>1. Step(f, t) = Result(g, <<>>, <<>>)
        BY <1>3, <1>8 DEF StepFmt
    <2>2. Meaning(v, t) = [v EXCEPT !.isHex = TRUE]
        BY ZenonT(30), <1>1, <1>2, <1>8, MeaningIs
    <2>3. g \in Formats /\ View(g, text) = Meaning(v, t)
        BY ZenonT(30), <2>2, SetView
    <2> QED
        BY ZenonT(30), <1>5, <2>1, <2>3
<1>9. CASE t.fmt = "dec"
    <2> DEFINE g == [f EXCEPT !.isHex = FALSE]
    <2>1. Step(f, t) = Result(g, <<>>, <<>>)
        BY <1>3, <1>9 DEF StepFmt
    <2>2. Meaning(v, t) = [v EXCEPT !.isHex = FALSE]
        BY ZenonT(30), <1>1, <1>2, <1>9, MeaningIs
    <2>3. g \in Formats /\ View(g, text) = Meaning(v, t)
        BY ZenonT(30), <2>2, SetView
    <2> QED
        BY ZenonT(30), <1>5, <2>1, <2>3
<1>10. CASE t.fmt = "fill"
    <2> DEFINE g == [f EXCEPT !.isFill = TRUE]
    <2>1. Step(f, t) = Result(g, <<>>, <<>>)
        BY <1>3, <1>10 DEF StepFmt
    <2>2. Meaning(v, t) = [v EXCEPT !.isFill = TRUE]
        BY ZenonT(30), <1>1, <1>2, <1>10, MeaningIs
    <2>3. g \in Formats /\ View(g, text) = Meaning(v, t)
        BY ZenonT(30), <2>2, SetView
    <2> QED
        BY ZenonT(30), <1>5, <2>1, <2>3
<1> QED
    BY <1>1, <1>6, <1>7, <1>8, <1>9, <1>10

\* Every step does a part of what its token means, whatever the format was before.
LEMMA StepDoes ==
    ASSUME NEW f \in Formats, NEW text \in Texts, NEW t \in Tokens
    PROVE  Does(f, text, t, Step(f, t))
<1>1. CASE t \in TextTokens
    BY <1>1, TokenFields, StrDoes, CharDoes
<1> QED
    BY <1>1, LevelDoes, NumDoes, FmtDoes DEF Tokens, Sources

-----------------------------------------------------------------------------
(* Printing from start to end in the handler. *)

\* The handler's way through a line.
States == [format : Formats, todo : Seq(Tokens)]
State(f, s) == [format |-> f, todo |-> s]

\* A state and its fields.
LEMMA StateIs ==
    ASSUME NEW f \in Formats, NEW s \in Seq(Tokens)
    PROVE  State(f, s) \in States /\ State(f, s).format = f /\ State(f, s).todo = s
BY DEF State, States

\* One step of printing: nothing left to do, or the first token.
LEMMA PrintedIs ==
    ASSUME NEW f \in Formats, NEW s \in Seq(Tokens)
    PROVE  /\ Printed(State(f, s)) \in States
           /\ s = <<>> => Printed(State(f, s)) = State(f, s)
           /\ s # <<>> => Printed(State(f, s))
                            = State(Step(f, Head(s)).format, Step(f, Head(s)).rest \o Tail(s))
<1>1. CASE s = <<>>
    BY <1>1, StateIs DEF Printed
<1>2. CASE s # <<>>
    <2>1. Head(s) \in Tokens /\ Tail(s) \in Seq(Tokens)
        BY <1>2
    <2> DEFINE step == Step(f, Head(s))
    <2>2. Does(f, <<>>, Head(s), step)
        BY <2>1, FixedTexts, StepDoes
    <2>3. step.format \in Formats /\ step.rest \in Seq(Tokens)
        BY <2>2 DEF Does
    <2>4. Printed(State(f, s)) = State(step.format, step.rest \o Tail(s))
        BY <1>2, StateIs DEF Printed, State
    <2> HIDE DEF step
    <2>5. step.rest \o Tail(s) \in Seq(Tokens)
        BY <2>1, <2>3
    <2>6. Printed(State(f, s)) \in States
        BY <2>3, <2>4, <2>5, StateIs
    <2> QED
        BY <1>2, <2>4, <2>6 DEF step
<1> QED
    BY <1>1, <1>2

\* It leads from a state to a state.
LEMMA PrintedState ==
    ASSUME NEW s \in States
    PROVE  Printed(s) \in States
<1>1. s.format \in Formats /\ s.todo \in Seq(Tokens) /\ s = State(s.format, s.todo)
    BY DEF States, State
<1> QED
    BY <1>1, PrintedIs

\* The states that the handler goes through.
IsRun(run, toPrint) ==
    /\ run \in [0 .. MaxSteps -> States]
    /\ run[0] = State(format, toPrint)
    /\ \A i \in 1 .. MaxSteps: run[i] = Printed(run[i - 1])

\* They exist, and the format of the last is what HandlerPrints leaves.
LEMMA PrintRun ==
    ASSUME format \in Formats, NEW toPrint \in Seq(Tokens)
    PROVE  \E run: IsRun(run, toPrint) /\ PrintedFormat(toPrint) = run[MaxSteps].format
<1> DEFINE s0 == [format |-> format, todo |-> toPrint]
           run == CHOOSE f: f = [i \in 0 .. MaxSteps |-> IF i = 0 THEN s0 ELSE Printed(f[i - 1])]
           F == [i \in 1 .. MaxSteps |-> [s \in States |-> Printed(s)]]
<1>1. MaxSteps \in Nat
    BY DEF MaxSteps
<1>2. s0 = State(format, toPrint) /\ s0 \in States
    <2>1. s0 = State(format, toPrint)
        BY DEF State
    <2> HIDE DEF s0
    <2> QED
        BY <2>1, StateIs
<1>3. PrintedFormat(toPrint) = run[MaxSteps].format
    BY DEF PrintedFormat
<1>4. \A i \in 1 .. MaxSteps: F[i] \in [States -> States] /\ \A s \in States: F[i][s] = Printed(s)
    BY PrintedState
<1> HIDE DEF F, s0
<1>5. PICK f : Goes(f, MaxSteps, States, s0, F)
    BY <1>1, <1>2, <1>4, FiniteRecursion
<1>6. \A i \in 0 .. MaxSteps: f[i] = IF i = 0 THEN s0 ELSE Printed(f[i - 1])
    BY <1>1, <1>4, <1>5 DEF Goes
<1>7. f = [i \in 0 .. MaxSteps |-> IF i = 0 THEN s0 ELSE Printed(f[i - 1])]
    BY <1>5, <1>6 DEF Goes
<1>8. run = [i \in 0 .. MaxSteps |-> IF i = 0 THEN s0 ELSE Printed(run[i - 1])]
    BY <1>7
<1> HIDE DEF run
<1>9. run[0] = s0 /\ \A i \in 1 .. MaxSteps: run[i] = Printed(run[i - 1])
    BY <1>1, <1>8
<1>10. \A i \in 0 .. MaxSteps: run[i] \in States
    <2> DEFINE P == {i \in 0 .. MaxSteps : run[i] \in States}
    <2>1. 0 \in P
        BY <1>1, <1>2, <1>9
    <2>2. ASSUME NEW i \in 0 .. MaxSteps, i < MaxSteps, i \in P PROVE i + 1 \in P
        <3>1. i + 1 \in 1 .. MaxSteps /\ (i + 1) - 1 = i
            BY <1>1, <2>2
        <3> QED
            BY <2>2, <3>1, <1>9, PrintedState
    <2> HIDE DEF P
    <2>3. \A i \in 0 .. MaxSteps: i \in P
        BY <1>1, <2>1, <2>2, Positions
    <2> QED
        BY <2>3 DEF P
<1>11. run \in [0 .. MaxSteps -> States]
    BY <1>8, <1>10
<1>12. IsRun(run, toPrint)
    BY <1>2, <1>9, <1>11 DEF IsRun
<1> QED
    BY <1>3, <1>12

\* Whatever the handler prints leaves a format behind.
LEMMA PrintedFormatType ==
    ASSUME format \in Formats, NEW toPrint \in Seq(Tokens)
    PROVE  PrintedFormat(toPrint) \in Formats
<1>1. PICK run : IsRun(run, toPrint) /\ PrintedFormat(toPrint) = run[MaxSteps].format
    BY PrintRun
<1>2. run[MaxSteps] \in States
    BY <1>1 DEF IsRun, MaxSteps
<1> QED
    BY <1>1, <1>2 DEF States

\* Tokens put before the others.
LEMMA Before ==
    ASSUME NEW S, NEW a \in S, NEW b \in S, NEW r \in Seq(S)
    PROVE  /\ <<a>> \o r \in Seq(S) /\ <<a>> \o r # <<>>
           /\ Head(<<a>> \o r) = a /\ Tail(<<a>> \o r) = r
           /\ <<a, b>> \o r = <<a>> \o (<<b>> \o r)
           /\ <<>> \o r = r
<1> DEFINE p == <<a>>
           q == <<b>>
<1>1. p \in Seq(S) /\ Len(p) = 1 /\ p[1] = a /\ q \in Seq(S)
    OBVIOUS
<1>2. <<>> \o r = r
    OBVIOUS
<1>3. <<a, b>> \o r = p \o (q \o r)
    <2>1. <<a, b>> = p \o q
        BY PairIsConcat
    <2> HIDE DEF p, q
    <2>2. (p \o q) \o r = p \o (q \o r)
        BY <1>1, ConcatAssociative
    <2> QED
        BY <2>1, <2>2
<1>4. /\ p \o r \in Seq(S) /\ p \o r # <<>>
      /\ Head(p \o r) = a /\ Tail(p \o r) = r
    <2> DEFINE d == p \o r
    <2> HIDE DEF p
    <2>1. p \in Seq(S) /\ Len(p) = 1
        BY <1>1
    <2>2. /\ d \in Seq(S) /\ Len(d) = 1 + Len(r)
          /\ \A i \in 1 .. Len(p) + Len(r): d[i] = IF i <= Len(p) THEN p[i] ELSE r[i - Len(p)]
        <3>1. /\ d \in Seq(S) /\ Len(d) = Len(p) + Len(r)
              /\ \A i \in 1 .. Len(p) + Len(r): d[i] = IF i <= Len(p) THEN p[i] ELSE r[i - Len(p)]
            BY <2>1, ConcatProperties DEF d
        <3> QED
            BY <2>1, <3>1
    <2> HIDE DEF d
    <2>3. Len(r) \in Nat
        OBVIOUS
    <2>4. d # <<>> /\ Head(d) = a
        BY <1>1, <2>2, <2>3
    <2>5. \A i \in 1 .. Len(r): d[i + 1] = r[i]
        <3> TAKE i \in 1 .. Len(r)
        <3>1. i + 1 \in 1 .. Len(p) + Len(r) /\ ~(i + 1 <= Len(p)) /\ (i + 1) - Len(p) = i
            BY <1>1, <2>3
        <3> QED
            BY <2>2, <3>1
    <2>6. Tail(d) \in Seq(S) /\ Len(Tail(d)) = Len(r) /\ \A i \in 1 .. Len(r): Tail(d)[i] = d[i + 1]
        BY <2>2, <2>3, <2>4
    <2>7. Tail(d) = r
        BY <2>5, <2>6, SeqEqual
    <2> QED
        BY <2>2, <2>4, <2>7 DEF d
<1> QED
    BY <1>2, <1>3, <1>4 DEF p, q

\* What endl leaves.
Cleared(f) == ~f.isLevel /\ ~f.isHex /\ ~f.isFill

\* After i steps this is the format, and this is left to do.
At(run, i, f, s) == i \in 0 .. MaxSteps /\ f \in Formats /\ s \in Seq(Tokens) /\ run[i] = State(f, s)

\* One more step.
LEMMA NextAt ==
    ASSUME NEW run, NEW toPrint, IsRun(run, toPrint), NEW i, NEW f, NEW s, At(run, i, f, s),
           s # <<>>, i + 1 <= MaxSteps,
           NEW g \in Formats, NEW out, NEW rest \in Seq(Tokens),
           Step(f, Head(s)) = Result(g, out, rest)
    PROVE  At(run, i + 1, g, rest \o Tail(s))
<1>1. i + 1 \in 1 .. MaxSteps /\ i + 1 \in 0 .. MaxSteps /\ (i + 1) - 1 = i
    BY DEF At, MaxSteps
<1>2. run[i + 1] = Printed(State(f, s))
    BY <1>1 DEF IsRun, At
<1>3. Step(f, Head(s)).format = g /\ Step(f, Head(s)).rest = rest
    BY DEF Result
<1>4. run[i + 1] = State(g, rest \o Tail(s))
    BY <1>2, <1>3, PrintedIs DEF At
<1>5. rest \o Tail(s) \in Seq(Tokens)
    <2>1. Tail(s) \in Seq(Tokens)
        BY DEF At
    <2> QED
        BY <2>1
<1> QED
    BY <1>1, <1>4, <1>5 DEF At

\* A string that needs no mark takes one step.
LEMMA PlainStrAt ==
    ASSUME NEW run, NEW toPrint, IsRun(run, toPrint), NEW i, NEW f, NEW s, At(run, i, f, s),
           s # <<>>, i + 1 <= MaxSteps, Head(s).op = "str", ~Shown(f.level) \/ f.isLevel
    PROVE  At(run, i + 1, f, Tail(s))
<1>1. \E out: Step(f, Head(s)) = Result(f, out, <<>>)
    BY DEF Step, StepStr
<1>2. <<>> \in Seq(Tokens) /\ f \in Formats /\ Tail(s) \in Seq(Tokens)
    BY DEF At
<1>3. At(run, i + 1, f, <<>> \o Tail(s))
    BY <1>1, <1>2, NextAt
<1>4. <<>> \o Tail(s) = Tail(s)
    BY <1>2
<1> QED
    BY <1>3, <1>4

\* The message that shows a level.
LEMMA PrefixStr ==
    ASSUME NEW level \in LevelSet
    PROVE  /\ Str(Prefix(level)) \in Tokens /\ Str(Prefix(level)).op = "str"
           /\ LevelMessage(level) = IF level = "none" THEN <<>> ELSE <<Str(Prefix(level))>>
BY FixedTexts, TokenKinds DEF LevelMessage

\* A string takes at most three steps,
LEMMA StrAt ==
    ASSUME NEW run, NEW toPrint, IsRun(run, toPrint), NEW i, NEW f, NEW s, At(run, i, f, s),
           s # <<>>, i + 3 <= MaxSteps, Head(s).op = "str"
    PROVE  \E j \in i .. i + 3: \E g: At(run, j, g, Tail(s))
<1>1. /\ i \in Nat /\ MaxSteps = 40 /\ i + 1 <= MaxSteps /\ f \in Formats /\ f.level \in LevelSet
      /\ Head(s) \in Tokens /\ Tail(s) \in Seq(Tokens)
    BY LevelNames DEF At, MaxSteps, Formats
<1>2. CASE ~Shown(f.level) \/ f.isLevel
    <2>1. At(run, i + 1, f, Tail(s))
        BY <1>1, <1>2, PlainStrAt
    <2>2. i + 1 \in i .. i + 3
        BY <1>1
    <2> QED
        BY <2>1, <2>2
<1>3. CASE Shown(f.level) /\ ~f.isLevel
    <2> DEFINE g == [f EXCEPT !.isLevel = TRUE]
    <2>1. g \in Formats /\ g.isLevel
        BY <1>1 DEF Formats
    <2>2. Step(f, Head(s)) = Result(g, <<>>, Append(LevelMessage(f.level), Head(s)))
        BY <1>3 DEF Step, StepStr
    <2> HIDE DEF g
    <2>3. CASE f.level = "none"
        <3>1. Append(LevelMessage(f.level), Head(s)) = <<Head(s)>>
            BY <2>3 DEF LevelMessage
        <3>2. <<Head(s)>> \in Seq(Tokens)
            BY <1>1
        <3>3. At(run, i + 1, g, <<Head(s)>> \o Tail(s))
            BY <1>1, <1>3, <2>1, <2>2, <3>1, <3>2, NextAt
        <3>4. <<Head(s)>> \o Tail(s) = s
            BY <1>1 DEF At
        <3>5. At(run, i + 1, g, s)
            BY <3>3, <3>4
        <3>6. (i + 1) + 1 \in i .. i + 3 /\ (i + 1) + 1 <= MaxSteps
            BY <1>1
        <3>7. At(run, (i + 1) + 1, g, Tail(s))
            BY <2>1, <3>5, <3>6, PlainStrAt
        <3> QED
            BY <3>7, <3>6
    <2>4. CASE f.level # "none"
        <3> DEFINE p == Str(Prefix(f.level))
                   r == <<Head(s)>> \o Tail(s)
        <3>1. p \in Tokens /\ p.op = "str" /\ LevelMessage(f.level) = <<p>>
            BY <1>1, <2>4, PrefixStr
        <3> HIDE DEF p
        <3>2. /\ Append(LevelMessage(f.level), Head(s)) = <<p, Head(s)>>
              /\ <<p, Head(s)>> \in Seq(Tokens)
            <4>1. Append(<<p>>, Head(s)) = <<p, Head(s)>>
                BY <1>1, <3>1, AppendOne
            <4>2. <<p, Head(s)>> \in Seq(Tokens)
                BY <1>1, <3>1
            <4> QED
                BY <3>1, <4>1, <4>2
        <3>3. At(run, i + 1, g, <<p, Head(s)>> \o Tail(s))
            BY <1>1, <1>3, <2>1, <2>2, <3>2, NextAt
        <3>4. r = s
            BY <1>1 DEF At
        <3>5. <<p, Head(s)>> \o Tail(s) = <<p>> \o r
            BY <1>1, <3>1, Before
        <3> HIDE DEF r
        <3>6. /\ <<p>> \o s # <<>> /\ Head(<<p>> \o s) = p /\ Tail(<<p>> \o s) = s
            BY <3>1, Before DEF At
        <3>7. At(run, i + 1, g, <<p>> \o s)
            BY <3>3, <3>4, <3>5
        <3>8. /\ (i + 1) + 1 <= MaxSteps /\ (i + 1) + 1 = i + 2
              /\ (i + 2) + 1 <= MaxSteps /\ (i + 2) + 1 \in i .. i + 3
            BY <1>1
        <3>9. At(run, (i + 1) + 1, g, s)
            BY <2>1, <3>1, <3>6, <3>7, <3>8, PlainStrAt
        <3>10. At(run, (i + 2) + 1, g, Tail(s))
            BY <2>1, <3>9, <3>8, PlainStrAt
        <3> QED
            BY <3>8, <3>10
    <2> QED
        BY <2>3, <2>4
<1> QED
    BY <1>2, <1>3

\* a level at most two,
LEMMA LevelAt ==
    ASSUME NEW run, NEW toPrint, IsRun(run, toPrint), NEW i, NEW f, NEW s, At(run, i, f, s),
           s # <<>>, i + 2 <= MaxSteps, Head(s) \in LevelTokens
    PROVE  \E j \in i .. i + 2: \E g: At(run, j, g, Tail(s))
<1> DEFINE l == Head(s).level
           g == [f EXCEPT !.level = l, !.isLevel = TRUE]
<1>1. /\ i \in Nat /\ MaxSteps = 40 /\ i + 1 <= MaxSteps /\ f \in Formats /\ Tail(s) \in Seq(Tokens)
      /\ Head(s).op = "level" /\ l \in LevelSet /\ <<>> \in Seq(Tokens)
    BY TokenFields DEF At, MaxSteps
<1>2. g \in Formats /\ g.isLevel
    BY <1>1, LevelNames DEF Formats
<1>3. Step(f, Head(s)) = Result(g, <<>>, IF f.isLevel THEN <<>> ELSE LevelMessage(l))
    BY <1>1 DEF Step, StepLevel
<1> HIDE DEF g
<1>4. CASE f.isLevel \/ l = "none"
    <2>1. Step(f, Head(s)) = Result(g, <<>>, <<>>)
        BY <1>3, <1>4 DEF LevelMessage
    <2>2. At(run, i + 1, g, <<>> \o Tail(s))
        BY <1>1, <1>2, <2>1, NextAt
    <2>3. <<>> \o Tail(s) = Tail(s)
        BY <1>1
    <2>4. i + 1 \in i .. i + 2
        BY <1>1
    <2> QED
        BY <2>2, <2>3, <2>4
<1>5. CASE ~f.isLevel /\ l # "none"
    <2> DEFINE p == Str(Prefix(l))
    <2>1. p \in Tokens /\ p.op = "str" /\ LevelMessage(l) = <<p>>
        BY <1>1, <1>5, PrefixStr
    <2> HIDE DEF p
    <2>2. Step(f, Head(s)) = Result(g, <<>>, <<p>>) /\ <<p>> \in Seq(Tokens)
        BY <1>3, <1>5, <2>1
    <2>3. At(run, i + 1, g, <<p>> \o Tail(s))
        BY <1>1, <1>2, <2>2, NextAt
    <2>4. <<p>> \o Tail(s) # <<>> /\ Head(<<p>> \o Tail(s)) = p /\ Tail(<<p>> \o Tail(s)) = Tail(s)
        BY <1>1, <2>1, Before
    <2>5. (i + 1) + 1 <= MaxSteps /\ (i + 1) + 1 \in i .. i + 2
        BY <1>1
    <2>6. At(run, (i + 1) + 1, g, Tail(s))
        BY <1>2, <2>1, <2>3, <2>4, <2>5, PlainStrAt
    <2> QED
        BY <2>5, <2>6
<1> QED
    BY <1>4, <1>5

\* and endl at most five, after which the format is cleared.
LEMMA EndlAt ==
    ASSUME NEW run, NEW toPrint, IsRun(run, toPrint), NEW i, NEW f, NEW s, At(run, i, f, s),
           s # <<>>, i + 5 <= MaxSteps, Head(s) = Endl
    PROVE  \E j \in i .. i + 5: \E g: At(run, j, g, Tail(s)) /\ Cleared(g)
<1> DEFINE b == Str(LineBreak)
           r == <<Reset>> \o Tail(s)
<1>1. /\ i \in Nat /\ MaxSteps = 40 /\ i + 1 <= MaxSteps /\ f \in Formats /\ Tail(s) \in Seq(Tokens)
      /\ Head(s).op = "fmt" /\ Head(s).fmt = "endl" /\ <<>> \in Seq(Tokens)
    BY DEF At, MaxSteps, Endl, Fmt
<1>2. b \in Tokens /\ b.op = "str" /\ Reset \in Tokens
    BY FixedTexts, TokenKinds
<1>3. Step(f, Head(s)) = Result(f, <<>>, <<b, Reset>>)
    BY <1>1 DEF Step, StepFmt, Reset
<1> HIDE DEF b
<1>4. <<b, Reset>> \in Seq(Tokens)
    BY <1>2
<1>5. At(run, i + 1, f, <<b, Reset>> \o Tail(s))
    BY <1>1, <1>3, <1>4, NextAt
<1>6. /\ <<b, Reset>> \o Tail(s) = <<b>> \o r
      /\ r \in Seq(Tokens) /\ r # <<>> /\ Head(r) = Reset /\ Tail(r) = Tail(s)
    <2>1. b \in Tokens /\ Reset \in Tokens /\ Tail(s) \in Seq(Tokens)
        BY <1>1, <1>2
    <2>2. <<b, Reset>> \o Tail(s) = <<b>> \o r
        BY <2>1, Before
    <2>3. r \in Seq(Tokens) /\ r # <<>> /\ Head(r) = Reset /\ Tail(r) = Tail(s)
        BY <2>1, Before
    <2> QED
        BY <2>2, <2>3
<1> HIDE DEF r
<1>7. <<b>> \o r # <<>> /\ Head(<<b>> \o r) = b /\ Tail(<<b>> \o r) = r
    <2>1. b \in Tokens /\ r \in Seq(Tokens)
        BY <1>2, <1>6
    <2> QED
        BY <2>1, Before
<1>8. (i + 1) + 3 <= MaxSteps
    BY <1>1
<1>9. PICK j, g : j \in i + 1 .. (i + 1) + 3 /\ At(run, j, g, r)
    BY <1>2, <1>5, <1>6, <1>7, <1>8, StrAt
<1> DEFINE h == [g EXCEPT !.isHex = FALSE, !.isFill = FALSE, !.isLevel = FALSE]
<1>10. Step(g, Head(r)) = Result(h, <<>>, <<>>)
    <2>1. Reset.op = "fmt" /\ Reset.fmt = "reset"
        BY TokenFields
    <2> QED
        BY <1>6, <2>1 DEF Step, StepFmt
<1>11. h \in Formats /\ Cleared(h)
    BY <1>9 DEF At, Formats, Cleared
<1> HIDE DEF h
<1>12. j + 1 <= MaxSteps /\ j + 1 \in i .. i + 5
    BY <1>1, <1>9
<1>13. At(run, j + 1, h, <<>> \o Tail(r))
    BY <1>1, <1>6, <1>9, <1>10, <1>11, <1>12, NextAt
<1>14. <<>> \o Tail(r) = Tail(s)
    BY <1>1, <1>6
<1> QED
    BY <1>11, <1>12, <1>13, <1>14

\* Tokens whose printing takes at most five steps.
QuickTokens == LevelTokens \union {t \in TextTokens : t.op = "str"} \union {Endl}

\* Each of them takes at most five.
LEMMA QuickAt ==
    ASSUME NEW run, NEW toPrint, IsRun(run, toPrint), NEW i, NEW f, NEW s, At(run, i, f, s),
           s # <<>>, i + 5 <= MaxSteps, Head(s) \in QuickTokens
    PROVE  \E j \in i .. i + 5: \E g: At(run, j, g, Tail(s)) /\ (Head(s) = Endl => Cleared(g))
<1>1. i \in Nat /\ MaxSteps = 40
    BY DEF At, MaxSteps
<1>2. Endl \notin LevelTokens
    BY TokenFields DEF Endl, Fmt
<1>3. CASE Head(s) = Endl
    BY <1>3, EndlAt
<1>4. CASE Head(s) \in LevelTokens
    <2>1. i + 2 <= MaxSteps
        BY <1>1
    <2>2. PICK j, g : j \in i .. i + 2 /\ At(run, j, g, Tail(s))
        BY <1>4, <2>1, LevelAt
    <2>3. j \in i .. i + 5
        BY <1>1, <2>2
    <2> QED
        BY <1>4, <1>2, <2>2, <2>3
<1>5. CASE Head(s) # Endl /\ Head(s).op = "str"
    <2>1. i + 3 <= MaxSteps
        BY <1>1
    <2>2. PICK j, g : j \in i .. i + 3 /\ At(run, j, g, Tail(s))
        BY <1>5, <2>1, StrAt
    <2>3. j \in i .. i + 5
        BY <1>1, <2>2
    <2> QED
        BY <1>5, <2>2, <2>3
<1> QED
    BY <1>3, <1>4, <1>5 DEF QuickTokens

\* What is left of a line behind its first n tokens.
IsRest(s, all, n) ==
    s \in Seq(Tokens) /\ Len(s) = Len(all) - n /\ \A k \in 1 .. Len(s): s[k] = all[n + k]

\* A short line of such tokens that ends with endl leaves a cleared format.
LEMMA QuickLineClears ==
    ASSUME format \in Formats, NEW toPrint \in Seq(Tokens),
           Len(toPrint) \in 1 .. 8, \A k \in 1 .. Len(toPrint): toPrint[k] \in QuickTokens,
           toPrint[Len(toPrint)] = Endl
    PROVE  Cleared(PrintedFormat(toPrint))
<1> DEFINE n == Len(toPrint)
<1>1. n \in 1 .. 8 /\ MaxSteps = 40
    BY DEF MaxSteps
<1> HIDE DEF n
<1>2. PICK run : IsRun(run, toPrint) /\ PrintedFormat(toPrint) = run[MaxSteps].format
    BY PrintRun
<1> DEFINE Ends(k, i, g, s) == At(run, i, g, s) /\ IsRest(s, toPrint, k) /\ (k = n => Cleared(g))
           P == {k \in 0 .. n : \E i \in 0 .. 5 * k: \E g, s: Ends(k, i, g, s)}
<1>3. 0 \in P
    <2>1. At(run, 0, format, toPrint)
        BY <1>1, <1>2 DEF At, IsRun
    <2>2. IsRest(toPrint, toPrint, 0)
        BY DEF IsRest
    <2>3. Ends(0, 0, format, toPrint) /\ 0 \in 0 .. 5 * 0 /\ 0 \in 0 .. n
        BY <1>1, <2>1, <2>2
    <2> HIDE DEF Ends
    <2> QED
        BY <2>3
<1>4. ASSUME NEW k \in 0 .. n, k < n, k \in P PROVE k + 1 \in P
    <2>1. PICK i \in 0 .. 5 * k : \E g, s: Ends(k, i, g, s)
        BY <1>4
    <2>2. PICK g, s : Ends(k, i, g, s)
        BY <2>1
    <2>3. /\ s \in Seq(Tokens) /\ Len(s) = n - k /\ \A m \in 1 .. Len(s): s[m] = toPrint[k + m]
          /\ At(run, i, g, s)
        BY <2>2 DEF IsRest, n
    <2>4. s # <<>> /\ Head(s) = toPrint[k + 1] /\ k + 1 \in 1 .. n /\ i + 5 <= MaxSteps /\ i \in Nat
        BY <1>1, <1>4, <2>3
    <2>5. Head(s) \in QuickTokens
        BY <2>4 DEF n
    <2>6. PICK j, h : j \in i .. i + 5 /\ At(run, j, h, Tail(s)) /\ (Head(s) = Endl => Cleared(h))
        BY <1>2, <2>3, <2>4, <2>5, QuickAt
    <2>7. IsRest(Tail(s), toPrint, k + 1)
        <3>1. Tail(s) \in Seq(Tokens) /\ Len(Tail(s)) = Len(s) - 1
              /\ \A m \in 1 .. Len(s) - 1: Tail(s)[m] = s[m + 1]
            BY <2>3, <2>4
        <3>2. \A m \in 1 .. Len(s) - 1: m + 1 \in 1 .. Len(s) /\ k + (m + 1) = (k + 1) + m
            BY <2>3, <1>1
        <3>3. \A m \in 1 .. Len(s) - 1: Tail(s)[m] = toPrint[(k + 1) + m]
            BY <2>3, <3>1, <3>2
        <3>4. Len(Tail(s)) = n - (k + 1)
            BY <1>1, <2>3, <3>1
        <3>5. /\ Len(Tail(s)) = Len(toPrint) - (k + 1)
              /\ \A m \in 1 .. Len(Tail(s)): Tail(s)[m] = toPrint[(k + 1) + m]
            BY <3>1, <3>3, <3>4 DEF n
        <3> QED
            BY <3>1, <3>5 DEF IsRest
    <2>8. k + 1 = n => Cleared(h)
        BY <2>4, <2>6 DEF n
    <2>9. Ends(k + 1, j, h, Tail(s))
        BY <2>6, <2>7, <2>8
    <2>10. j \in 0 .. 5 * (k + 1) /\ k + 1 \in 0 .. n
        BY <1>1, <1>4, <2>4, <2>6
    <2> HIDE DEF Ends
    <2> QED
        BY <2>9, <2>10
<1> HIDE DEF P
<1>5. n \in P
    BY <1>1, <1>3, <1>4, Positions
<1>6. PICK i, g, s : i \in 0 .. 40 /\ Ends(n, i, g, s)
    <2>1. \A i \in 0 .. 5 * n: i \in 0 .. 40
        BY <1>1
    <2> QED
        BY <1>5, <2>1 DEF P
<1>7. At(run, i, g, <<>>) /\ Cleared(g)
    <2>1. s \in Seq(Tokens) /\ Len(s) = n - n /\ n - n = 0
        BY <1>1, <1>6 DEF IsRest, n
    <2>2. s = <<>>
        BY <2>1
    <2> QED
        BY <1>6, <2>2
<1>8. i \in 0 .. 40
    BY <1>6
<1> DEFINE Q == {m \in 0 .. 40 - i : run[i + m] = State(g, <<>>)}
<1>9. \A m \in 0 .. 40 - i: m \in Q
    <2>1. 0 \in Q
        BY <1>7, <1>8 DEF At
    <2>2. ASSUME NEW m \in 0 .. 40 - i, m < 40 - i, m \in Q PROVE m + 1 \in Q
        <3>1. i + (m + 1) \in 1 .. MaxSteps /\ (i + (m + 1)) - 1 = i + m /\ m + 1 \in 0 .. 40 - i
            BY <1>1, <1>8, <2>2
        <3>2. run[i + (m + 1)] = Printed(State(g, <<>>))
            BY <1>2, <2>2, <3>1 DEF IsRun
        <3>3. Printed(State(g, <<>>)) = State(g, <<>>)
            BY <1>7, PrintedIs DEF At
        <3> QED
            BY <3>1, <3>2, <3>3
    <2>3. 40 - i \in Nat
        BY <1>8
    <2> HIDE DEF Q
    <2> QED
        BY <2>1, <2>2, <2>3, Positions
<1>10. run[MaxSteps] = State(g, <<>>)
    <2>1. 40 - i \in 0 .. 40 - i /\ i + (40 - i) = 40
        BY <1>8
    <2> QED
        BY <1>1, <1>9, <2>1
<1> QED
    BY <1>2, <1>7, <1>10 DEF State

-----------------------------------------------------------------------------
(* The lines of the code. *)

\* The lines of the code start with one of these.
Marks == {Raw, Info, Log}

\* A line is closed if it ends with endl, or with what is left of it when all is printed but the
\* reset; it is plain if it sets no base and no fill, and needs no mark if it starts without one.
Closed(s) == s # <<>> /\ s[Len(s)] \in {Endl, Reset}
Plain(s)  == \A k \in 1 .. Len(s): s[k] \notin {Fmt("hex"), Fmt("fill")}
NeedsNoMark(s) == s[1] = Raw

\* Every line starts with a level and is closed or plain.
Line(s) == s \in Seq(Sources) /\ s # <<>> /\ s[1] \in Marks /\ (Closed(s) \/ Plain(s))

\* What lines are made of.
LEMMA SourceKinds ==
    /\ Marks \subseteq LevelTokens /\ Marks \subseteq Sources
    /\ \A text \in Texts: Str(text) \in Sources
    /\ \A c \in Pieces: Chr(c) \in Sources
    /\ Endl \in Sources /\ Fmt("hex") \in Sources /\ Fmt("fill") \in Sources
    /\ Num(Address) \in Sources
<1>1. Marks \subseteq LevelTokens
    BY DEF Raw, Info, Log, LevelOf, LevelTokens, LevelSet, Marks
<1>2. Endl \in SetTokens /\ Fmt("hex") \in SetTokens /\ Fmt("fill") \in SetTokens
    BY DEF Endl, Fmt, SetTokens
<1>3. Num(Address) \in NumTokens
    BY DEF Num, NumTokens
<1> QED
    BY <1>1, <1>2, <1>3, TokenKinds DEF Sources

\* A line that starts with a level and ends with endl.
ClosedLine(s) == Line(s) /\ Closed(s)

\* Closed lines of the lengths that occur.
LEMMA ClosedLines ==
    ASSUME NEW a \in Marks, NEW b \in Sources, NEW c \in Sources, NEW d \in Sources,
           NEW f \in Sources, NEW g \in Sources, NEW h \in Sources, NEW k \in Sources
    PROVE  /\ ClosedLine(<<a, Endl>>) /\ ClosedLine(<<a, b, Endl>>) /\ ClosedLine(<<a, b, c, Endl>>)
           /\ ClosedLine(<<a, b, c, d, f, Endl>>)
           /\ ClosedLine(<<a, b, c, d, f, g, h, k, Endl>>)
<1>1. \A s \in Seq(Sources): Len(s) # 0 /\ s[1] \in Marks /\ s[Len(s)] = Endl => ClosedLine(s)
    BY DEF ClosedLine, Line, Closed
<1>2. PICK e \in Sources : e = Endl
    BY SourceKinds
<1>3. a \in Sources
    BY SourceKinds
<1>4. ClosedLine(<<a, e>>)
    <2> DEFINE s == <<a, e>>
    <2>1. s \in Seq(Sources) /\ Len(s) = 2 /\ s[1] = a /\ s[2] = e
        BY <1>2, <1>3
    <2> HIDE DEF s
    <2>2. ClosedLine(s)
        <3>1. Len(s) # 0 /\ s[Len(s)] = Endl /\ s[1] \in Marks
            BY <1>2, <2>1
        <3> QED
            BY <1>1, <2>1, <3>1
    <2> QED
        BY <2>2 DEF s
<1>5. ClosedLine(<<a, b, e>>)
    <2> DEFINE s == <<a, b, e>>
    <2>1. s \in Seq(Sources) /\ Len(s) = 3 /\ s[1] = a /\ s[3] = e
        BY <1>2, <1>3
    <2> HIDE DEF s
    <2>2. ClosedLine(s)
        <3>1. Len(s) # 0 /\ s[Len(s)] = Endl /\ s[1] \in Marks
            BY <1>2, <2>1
        <3> QED
            BY <1>1, <2>1, <3>1
    <2> QED
        BY <2>2 DEF s
<1>6. ClosedLine(<<a, b, c, e>>)
    <2> DEFINE s == <<a, b, c, e>>
    <2>1. s \in Seq(Sources) /\ Len(s) = 4 /\ s[1] = a /\ s[4] = e
        BY <1>2, <1>3
    <2> HIDE DEF s
    <2>2. ClosedLine(s)
        <3>1. Len(s) # 0 /\ s[Len(s)] = Endl /\ s[1] \in Marks
            BY <1>2, <2>1
        <3> QED
            BY <1>1, <2>1, <3>1
    <2> QED
        BY <2>2 DEF s
<1>7. ClosedLine(<<a, b, c, d, f, e>>)
    <2> DEFINE s == <<a, b, c, d, f, e>>
    <2>1. s \in Seq(Sources) /\ Len(s) = 6 /\ s[1] = a /\ s[6] = e
        BY <1>2, <1>3
    <2> HIDE DEF s
    <2>2. ClosedLine(s)
        <3>1. Len(s) # 0 /\ s[Len(s)] = Endl /\ s[1] \in Marks
            BY <1>2, <2>1
        <3> QED
            BY <1>1, <2>1, <3>1
    <2> QED
        BY <2>2 DEF s
<1>8. ClosedLine(<<a, b, c, d, f, g, h, k, e>>)
    <2> DEFINE s == <<a, b, c, d, f, g, h, k, e>>
    <2>1. s \in Seq(Sources) /\ Len(s) = 9 /\ s[1] = a /\ s[9] = e
        BY <1>2, <1>3
    <2> HIDE DEF s
    <2>2. ClosedLine(s)
        <3>1. Len(s) # 0 /\ s[Len(s)] = Endl /\ s[1] \in Marks
            BY <1>2, <2>1
        <3> QED
            BY <1>1, <2>1, <3>1
    <2> QED
        BY <2>2 DEF s
<1> QED
    BY <1>2, <1>4, <1>5, <1>6, <1>7, <1>8

\* The strings that are printed.
LEMMA Strings ==
    /\ Str(<<"$ ">>) \in Sources
    /\ Str(<<"help">>) \in Sources
    /\ Str(<<"error">>) \in Sources
    /\ Str(<<"application layer">>) \in Sources
    /\ Str(<<"command line started">>) \in Sources
    /\ Str(<<"4KB page for address 0x">>) \in Sources
    /\ Str(<<"copy OS binary to 0x">>) \in Sources
    /\ Str(<<": ">>) \in Sources
    /\ Str(<<"OK">>) \in Sources
    /\ Str(<<"start VM">>) \in Sources
    /\ Str(<<"(beep)">>) \in Sources
    /\ Str(<<"request shutdown">>) \in Sources
    /\ Str(<<"VM stopped">>) \in Sources
    /\ Str(<<"request to shutdown non-running VM">>) \in Sources
    /\ Str(<<"BS", " ", "BS">>) \in Sources
<1>1. \A s \in Pieces: Str(<<s>>) \in Sources
    <2>1. \A s \in Pieces: <<s>> \in Texts
        BY DEF Texts
    <2> QED
        BY ZenonT(30), <2>1, SourceKinds
<1>2. \A s, t, u \in Pieces: Str(<<s, t, u>>) \in Sources
    <2>1. \A s, t, u \in Pieces: <<s, t, u>> \in Texts
        BY DEF Texts
    <2> QED
        BY ZenonT(30), <2>1, SourceKinds
<1>3. Str(<<"BS", " ", "BS">>) \in Sources
    BY ZenonT(30), <1>2, PiecesHave
<1> QED
    BY ZenonT(30), <1>1, <1>3, PiecesHave

\* Lines that only put characters on the screen.
LEMMA PlainLines ==
    ASSUME NEW t \in TextTokens
    PROVE  Line(<<Raw, t>>) /\ NeedsNoMark(<<Raw, t>>)
<1>1. t \notin {Fmt("hex"), Fmt("fill")} /\ Raw \notin {Fmt("hex"), Fmt("fill")}
    BY TokenFields DEF Raw, LevelOf, Fmt
<1>2. Raw \in Marks /\ Raw \in Sources /\ t \in Sources
    BY SourceKinds DEF Marks, Sources
<1> DEFINE s == <<Raw, t>>
<1>3. s \in Seq(Sources) /\ Len(s) = 2 /\ s[1] = Raw /\ s[2] = t
    BY <1>2
<1> HIDE DEF s
<1>4. Plain(s)
    BY <1>1, <1>3 DEF Plain
<1>5. s # <<>>
    BY <1>3
<1>6. Line(s) /\ NeedsNoMark(s)
    BY <1>2, <1>3, <1>4, <1>5 DEF Line, NeedsNoMark
<1> QED
    BY <1>6 DEF s

\* Lines that follow each other: where one is not closed, the next needs no mark.
InOrder(ls) ==
    /\ \A k \in 1 .. Len(ls): Line(ls[k])
    /\ \A k \in 2 .. Len(ls): Closed(ls[k - 1]) \/ NeedsNoMark(ls[k])
LinesType(ls) == ls \in Seq(Seq(Sources)) /\ InOrder(ls)

\* One line, two and three.
LEMMA LineSeqs ==
    /\ LinesType(<<>>)
    /\ \A s: Line(s) => LinesType(<<s>>) /\ <<s>> # <<>> /\ <<s>>[1] = s /\ <<s>>[Len(<<s>>)] = s
    /\ \A s, t: ClosedLine(s) /\ ClosedLine(t) =>
          LinesType(<<s, t>>) /\ <<s, t>>[1] = s
    /\ \A s, t, u: ClosedLine(s) /\ ClosedLine(t) /\ ClosedLine(u) => LinesType(<<s, t, u>>)
<1>1. LinesType(<<>>)
    BY DEF LinesType, InOrder
<1>2. ASSUME NEW s, Line(s)
      PROVE  LinesType(<<s>>) /\ <<s>> # <<>> /\ <<s>>[1] = s /\ <<s>>[Len(<<s>>)] = s
    BY <1>2 DEF LinesType, InOrder, Line
<1>3. ASSUME NEW s, NEW t, ClosedLine(s), ClosedLine(t)
      PROVE  LinesType(<<s, t>>) /\ <<s, t>>[1] = s
    <2> DEFINE l == <<s, t>>
    <2>1. s \in Seq(Sources) /\ t \in Seq(Sources)
        BY <1>3 DEF ClosedLine, Line
    <2>2. l \in Seq(Seq(Sources)) /\ Len(l) = 2 /\ l[1] = s /\ l[2] = t
        BY <2>1
    <2> HIDE DEF l
    <2>3. \A k \in 1 .. 2: ClosedLine(l[k])
        BY <1>3, <2>2
    <2>4. InOrder(l)
        BY <2>2, <2>3 DEF InOrder, ClosedLine
    <2> QED
        BY <2>2, <2>4 DEF LinesType, l
<1>4. ASSUME NEW s, NEW t, NEW u, ClosedLine(s), ClosedLine(t), ClosedLine(u)
      PROVE  LinesType(<<s, t, u>>)
    <2> DEFINE l == <<s, t, u>>
    <2>1. s \in Seq(Sources) /\ t \in Seq(Sources) /\ u \in Seq(Sources)
        BY <1>4 DEF ClosedLine, Line
    <2>2. l \in Seq(Seq(Sources)) /\ Len(l) = 3 /\ l[1] = s /\ l[2] = t /\ l[3] = u
        BY <2>1
    <2> HIDE DEF l
    <2>3. \A k \in 1 .. 3: ClosedLine(l[k])
        BY <1>4, <2>2
    <2>4. InOrder(l)
        BY <2>2, <2>3 DEF InOrder, ClosedLine
    <2> QED
        BY <2>2, <2>4 DEF LinesType, l
<1> QED
    BY <1>1, <1>2, <1>3, <1>4

\* The lines of the code.
LEMMA CodeLines ==
    /\ LinesType(StartedLines) /\ LinesType(StartLines)
    /\ LinesType(HelpLines) /\ NeedsNoMark(HelpLines[1])
    /\ LinesType(BadLines) /\ NeedsNoMark(BadLines[1])
    /\ Line(PromptLine) /\ NeedsNoMark(PromptLine)
    /\ Line(NewLine) /\ NeedsNoMark(NewLine) /\ Closed(NewLine)
    /\ Line(EraseLine) /\ NeedsNoMark(EraseLine)
    /\ \A c \in Printable: Line(EchoLine(c)) /\ NeedsNoMark(EchoLine(c))
<1>1. Raw \in Marks /\ Info \in Marks /\ Log \in Marks
    BY DEF Marks
<1>2. LinesType(StartedLines)
    <2>1. /\ ClosedLine(<<Info, Str(<<"application layer">>), Endl>>)
          /\ ClosedLine(<<Info, Str(<<"command line started">>), Endl>>)
        BY ZenonT(30), <1>1, Strings, SourceKinds, ClosedLines
    <2> QED
        BY ZenonT(30), <2>1, LineSeqs DEF StartedLines
<1>3. LinesType(StartLines)
    <2>1. ClosedLine(<<Log, Str(<<"4KB page for address 0x">>), Fmt("hex"), Fmt("fill"), Num(Address), Endl>>)
        BY ZenonT(30), <1>1, Strings, SourceKinds, ClosedLines
    <2>2. ClosedLine(<<Info, Str(<<"copy OS binary to 0x">>), Fmt("fill"), Fmt("hex"), Num(Address),
                       Str(<<": ">>), Raw, Str(<<"OK">>), Endl>>)
        BY ZenonT(30), <1>1, Strings, SourceKinds, ClosedLines
    <2>3. ClosedLine(<<Info, Endl, Str(<<"start VM">>), Endl>>)
        BY ZenonT(30), <1>1, Strings, SourceKinds, ClosedLines
    <2> QED
        BY ZenonT(30), <2>1, <2>2, <2>3, LineSeqs DEF StartLines
<1>4. ClosedLine(NewLine) /\ NeedsNoMark(NewLine)
    <2>1. ClosedLine(<<Raw, Endl>>)
        BY <1>1, SourceKinds, ClosedLines
    <2> QED
        BY <2>1 DEF NewLine, NeedsNoMark
<1>5. LinesType(HelpLines) /\ NeedsNoMark(HelpLines[1])
    <2> DEFINE s == <<Raw, Str(<<"help">>), Endl>>
    <2>1. ClosedLine(s) /\ NeedsNoMark(s)
        <3>1. ClosedLine(s)
            BY ZenonT(30), <1>1, Strings, SourceKinds, ClosedLines
        <3>2. s[1] = Raw
            OBVIOUS
        <3> QED
            BY <3>1, <3>2 DEF NeedsNoMark
    <2> HIDE DEF s
    <2>2. LinesType(<<s, NewLine>>) /\ NeedsNoMark(<<s, NewLine>>[1])
        BY <1>4, <2>1, LineSeqs
    <2> QED
        BY <2>2 DEF HelpLines, s
<1>6. LinesType(BadLines) /\ NeedsNoMark(BadLines[1])
    <2> DEFINE s == <<Raw, Str(<<"error">>), Endl>>
    <2>1. ClosedLine(s) /\ NeedsNoMark(s)
        <3>1. ClosedLine(s)
            BY ZenonT(30), <1>1, Strings, SourceKinds, ClosedLines
        <3>2. s[1] = Raw
            OBVIOUS
        <3> QED
            BY <3>1, <3>2 DEF NeedsNoMark
    <2> HIDE DEF s
    <2>2. LinesType(<<s, NewLine>>) /\ NeedsNoMark(<<s, NewLine>>[1])
        BY <1>4, <2>1, LineSeqs
    <2> QED
        BY <2>2 DEF BadLines, s
<1>7. ASSUME NEW text \in Texts PROVE Str(text) \in TextTokens
    BY TokenKinds
<1>8. Line(PromptLine) /\ NeedsNoMark(PromptLine)
    <2>1. \A p \in Pieces: <<p>> \in Texts
        BY DEF Texts
    <2>2. \A p \in Pieces: Str(<<p>>) \in TextTokens
        BY ZenonT(30), <1>7, <2>1
    <2>3. Str(<<"$ ">>) \in TextTokens
        BY ZenonT(30), <2>2, PiecesHave
    <2> QED
        BY ZenonT(30), <2>3, PlainLines DEF PromptLine
<1>9. Line(EraseLine) /\ NeedsNoMark(EraseLine)
    <2>1. \A p, q, r \in Pieces: <<p, q, r>> \in Texts
        BY DEF Texts
    <2>2. \A p, q, r \in Pieces: Str(<<p, q, r>>) \in TextTokens
        BY ZenonT(30), <1>7, <2>1
    <2>3. Str(<<"BS", " ", "BS">>) \in TextTokens
        BY ZenonT(30), <2>2, PiecesHave
    <2> QED
        BY ZenonT(30), <2>3, PlainLines DEF EraseLine
<1>10. ASSUME NEW c \in Printable PROVE Line(EchoLine(c)) /\ NeedsNoMark(EchoLine(c))
    <2>1. Chr(c) \in TextTokens
        BY ZenonT(30), PiecesHave, TokenKinds
    <2> QED
        BY <2>1, PlainLines DEF EchoLine
<1> QED
    BY <1>2, <1>3, <1>4, <1>5, <1>6, <1>8, <1>9, <1>10 DEF ClosedLine

\* The handler's lines.
PrintedClears(s) == PrintedFormat(s) \in Formats /\ Cleared(PrintedFormat(s))

\* Whatever the format was when the interrupt came, the lines of Beep, Stop_VM and Shutdown leave
\* a cleared one behind: each ends with endl and prints no number.
LEMMA HandlerLines ==
    ASSUME format \in Formats, NEW toPrint \in {BeepLine, StopLine, NoVmLine}
    PROVE  PrintedFormat(toPrint) \in Formats /\ Cleared(PrintedFormat(toPrint))
<1>1. Raw \in QuickTokens /\ Info \in QuickTokens /\ Endl \in QuickTokens
    BY SourceKinds DEF QuickTokens, Marks
<1>2. \A p \in Pieces: Str(<<p>>) \in QuickTokens
    <2>1. \A p \in Pieces: <<p>> \in Texts
        BY DEF Texts
    <2> QED
        BY ZenonT(30), <2>1, TokenKinds DEF QuickTokens
<1>3. /\ Str(<<"(beep)">>) \in QuickTokens
      /\ Str(<<"request shutdown">>) \in QuickTokens
      /\ Str(<<"VM stopped">>) \in QuickTokens
      /\ Str(<<"request to shutdown non-running VM">>) \in QuickTokens
    BY ZenonT(30), <1>2, PiecesHave
<1>4. QuickTokens \subseteq Tokens
    BY SourceKinds DEF QuickTokens, Tokens, Sources
<1>5. ASSUME NEW s \in Seq(QuickTokens), Len(s) \in 1 .. 8, s[Len(s)] = Endl
      PROVE  PrintedClears(s)
    <2>1. s \in Seq(Tokens)
        BY <1>4, SeqWider
    <2>2. \A k \in 1 .. Len(s): s[k] \in QuickTokens
        OBVIOUS
    <2> QED
        BY <1>5, <2>1, <2>2, QuickLineClears, PrintedFormatType DEF PrintedClears
<1>6. ASSUME NEW a \in QuickTokens, NEW b \in QuickTokens, NEW c \in QuickTokens,
             NEW d \in QuickTokens, NEW f \in QuickTokens
      PROVE  /\ PrintedClears(<<a, b, Endl>>) /\ PrintedClears(<<a, Endl, b, Endl>>)
             /\ PrintedClears(<<a, Endl, b, c, Endl, d, f, Endl>>)
    <2>1. PICK e \in QuickTokens : e = Endl
        BY <1>1
    <2>2. PrintedClears(<<a, b, e>>)
        <3> DEFINE s == <<a, b, e>>
        <3>1. s \in Seq(QuickTokens) /\ Len(s) = 3 /\ s[3] = e
            OBVIOUS
        <3> HIDE DEF s
        <3>2. PrintedClears(s)
            <4>1. Len(s) \in 1 .. 8 /\ s[Len(s)] = Endl
                BY <2>1, <3>1
            <4> QED
                BY <1>5, <3>1, <4>1
        <3> QED
            BY <3>2 DEF s
    <2>3. PrintedClears(<<a, e, b, e>>)
        <3> DEFINE s == <<a, e, b, e>>
        <3>1. s \in Seq(QuickTokens) /\ Len(s) = 4 /\ s[4] = e
            OBVIOUS
        <3> HIDE DEF s
        <3>2. PrintedClears(s)
            <4>1. Len(s) \in 1 .. 8 /\ s[Len(s)] = Endl
                BY <2>1, <3>1
            <4> QED
                BY <1>5, <3>1, <4>1
        <3> QED
            BY <3>2 DEF s
    <2>4. PrintedClears(<<a, e, b, c, e, d, f, e>>)
        <3> DEFINE s == <<a, e, b, c, e, d, f, e>>
        <3>1. s \in Seq(QuickTokens) /\ Len(s) = 8 /\ s[8] = e
            OBVIOUS
        <3> HIDE DEF s
        <3>2. PrintedClears(s)
            <4>1. Len(s) \in 1 .. 8 /\ s[Len(s)] = Endl
                BY <2>1, <3>1
            <4> QED
                BY <1>5, <3>1, <4>1
        <3> QED
            BY <3>2 DEF s
    <2> QED
        BY <2>1, <2>2, <2>3, <2>4
<1>7. PrintedClears(BeepLine)
    BY ZenonT(30), <1>1, <1>3, <1>6 DEF BeepLine
<1>8. PrintedClears(StopLine)
    BY ZenonT(30), <1>1, <1>3, <1>6 DEF StopLine
<1>9. PrintedClears(NoVmLine)
    BY ZenonT(30), <1>1, <1>3, <1>6 DEF NoVmLine
<1> QED
    BY <1>7, <1>8, <1>9 DEF PrintedClears

-----------------------------------------------------------------------------
(* The invariant of the output. *)

\* No base and no fill is set.
Clean(f) == ~f.isHex /\ ~f.isFill

(***************************************************************************)
(* The invariant.  LineIntact speaks of a line that is complete; what an   *)
(* incomplete one has on the screen is right if what is left of it, in the *)
(* format of the moment, makes it what it should say (LineGoesOn).  That   *)
(* the next line starts so as well needs a format without base and fill    *)
(* behind every line (FormatReset), and no level unless the line needs     *)
(* none (FirstLine, and Settled where what comes next has levels of its    *)
(* own).  A VM that is stopped runs at a place where nothing is being      *)
(* printed (GuestQuiet), so that the new command line begins afresh.       *)
(***************************************************************************)
AtRest == todo = <<>> /\ ~format.isLevel
FormatReset == Closed(todo) \/ (Plain(todo) /\ Clean(format))
FirstLine == lines # <<>> => NeedsNoMark(lines[1]) \/ Closed(todo) \/ AtRest
Settled == IF lines = <<>> THEN Closed(todo) \/ AtRest ELSE Closed(lines[Len(lines)])
GuestQuiet == vmState = "running" => at = "guest" /\ todo = <<>> /\ lines = <<>>
LineGoesOn == ~disturbed => All(View(format, shown), todo).text = Says(line)

\* The types of the output's variables.
OutputType ==
    /\ format \in Formats
    /\ LinesType(lines)
    /\ line \in Seq(Sources)
    /\ todo \in Seq(Tokens)
    /\ shown \in Texts

\* What always holds of the output.
OutputInv ==
    /\ OutputType
    /\ FormatReset /\ FirstLine
    /\ at = "parse" => Settled
    /\ GuestQuiet
    /\ LineGoesOn

\* The rest of some lines.
LEMMA LinesTail ==
    ASSUME NEW ls, LinesType(ls), ls # <<>>
    PROVE  /\ Line(Head(ls)) /\ Head(ls) = ls[1]
           /\ LinesType(Tail(ls))
           /\ Tail(ls) # <<>> => /\ Closed(Head(ls)) \/ NeedsNoMark(Tail(ls)[1])
                                 /\ Tail(ls)[Len(Tail(ls))] = ls[Len(ls)]
           /\ Tail(ls) = <<>> => ls[Len(ls)] = Head(ls)
<1> DEFINE n == Len(ls)
           r == Tail(ls)
<1>1. n \in Nat \ {0} /\ ls \in Seq(Seq(Sources))
    BY DEF LinesType
<1>2. r \in Seq(Seq(Sources)) /\ Len(r) = n - 1 /\ \A k \in 1 .. n - 1: r[k] = ls[k + 1]
    BY <1>1
<1>3. Head(ls) = ls[1] /\ (r # <<>> <=> n - 1 > 0)
    <2>1. Head(ls) = ls[1]
        BY <1>1
    <2> HIDE DEF r, n
    <2>2. r # <<>> <=> n - 1 > 0
        BY <1>1, <1>2
    <2> QED
        BY <2>1, <2>2
<1>4. /\ \A k \in 1 .. n: Line(ls[k])
      /\ \A k \in 2 .. n: Closed(ls[k - 1]) \/ NeedsNoMark(ls[k])
    BY DEF LinesType, InOrder
<1> HIDE DEF n, r
<1>5. LinesType(r)
    <2>1. \A k \in 1 .. n - 1: Line(r[k])
        <3> TAKE k \in 1 .. n - 1
        <3>1. k + 1 \in 1 .. n
            BY <1>1
        <3> QED
            BY <3>1, <1>2, <1>4
    <2>2. \A k \in 2 .. n - 1: Closed(r[k - 1]) \/ NeedsNoMark(r[k])
        <3> TAKE k \in 2 .. n - 1
        <3>1. /\ k + 1 \in 2 .. n /\ k \in 1 .. n - 1 /\ k - 1 \in 1 .. n - 1
              /\ (k - 1) + 1 = k /\ (k + 1) - 1 = k
            BY <1>1
        <3>2. r[k] = ls[k + 1] /\ r[k - 1] = ls[k]
            BY <1>2, <3>1
        <3>3. Closed(ls[(k + 1) - 1]) \/ NeedsNoMark(ls[k + 1])
            BY <1>4, <3>1
        <3> QED
            BY <3>1, <3>2, <3>3
    <2> QED
        BY <1>2, <2>1, <2>2 DEF LinesType, InOrder
<1>6. ASSUME r # <<>> PROVE (Closed(ls[1]) \/ NeedsNoMark(r[1])) /\ r[Len(r)] = ls[n]
    <2>1. /\ 2 \in 2 .. n /\ 1 \in 1 .. n - 1 /\ n - 1 \in 1 .. n - 1
          /\ (n - 1) + 1 = n /\ 2 - 1 = 1 /\ 1 + 1 = 2
        BY <1>1, <1>3, <1>6
    <2>2. r[1] = ls[2] /\ r[n - 1] = ls[n]
        BY <1>2, <2>1
    <2>3. Closed(ls[2 - 1]) \/ NeedsNoMark(ls[2])
        BY <1>4, <2>1
    <2> QED
        BY <1>2, <2>1, <2>2, <2>3
<1>7. ASSUME r = <<>> PROVE ls[n] = ls[1]
    BY <1>1, <1>3, <1>7
<1>8. Line(ls[1])
    BY <1>1, <1>4
<1> QED
    BY <1>3, <1>5, <1>6, <1>7, <1>8 DEF n, r

\* A line that begins behind another starts as if nothing had been printed before.
LEMMA FirstMeaning ==
    ASSUME NEW f \in Formats, Clean(f), NEW m \in Marks, ~f.isLevel \/ m = Raw
    PROVE  /\ Meaning(View(f, <<>>), m) = Meaning(Blank, m)
           /\ Blank \in Views /\ View(f, <<>>) \in Views
<1> DEFINE v == View(f, <<>>)
<1>1. m \in LevelTokens /\ m \in Tokens /\ m.op = "level" /\ m.level \in LevelSet
    BY SourceKinds, TokenFields DEF Tokens
<1>2. v \in Views /\ v.text = <<>> /\ v.isLevel = f.isLevel /\ v.isHex = FALSE /\ v.isFill = FALSE
    <2>1. v \in Views
        BY FixedTexts, ViewType
    <2>2. v.text = <<>> /\ v.isLevel = f.isLevel /\ v.isHex = f.isHex /\ v.isFill = f.isFill
        BY DEF View
    <2>3. f.isHex = FALSE /\ f.isFill = FALSE
        BY DEF Clean, Formats
    <2> QED
        BY <2>1, <2>2, <2>3
<1>3. /\ Blank \in Views /\ Blank.text = <<>> /\ Blank.isLevel = FALSE /\ Blank.isHex = FALSE
      /\ Blank.isFill = FALSE
    BY FixedTexts DEF Blank, Views, LevelSet
<1> HIDE DEF v
<1> DEFINE x == [v EXCEPT !.level = m.level]
           b == [Blank EXCEPT !.level = m.level]
<1>4. Meaning(v, m) = Marked(x) /\ Meaning(Blank, m) = Marked(b)
    BY ZenonT(30), <1>1, <1>2, <1>3, MeaningIs
<1>5. /\ x \in Views /\ x.text = <<>> /\ x.level = m.level /\ x.isLevel = f.isLevel
      /\ x.isHex = FALSE /\ x.isFill = FALSE
    BY <1>1, <1>2 DEF Views
<1>6. /\ b \in Views /\ b.text = <<>> /\ b.level = m.level /\ b.isLevel = FALSE
      /\ b.isHex = FALSE /\ b.isFill = FALSE
    BY <1>1, <1>3 DEF Views
<1> HIDE DEF x, b
<1>7. CASE ~f.isLevel
    <2>1. f.isLevel = FALSE
        BY <1>7 DEF Formats
    <2>2. x = b
        BY <2>1, <1>5, <1>6, SameView
    <2> QED
        BY <1>2, <1>3, <1>4, <2>2 DEF v
<1>8. CASE f.isLevel /\ m = Raw
    <2>1. m.level = "none" /\ f.isLevel = TRUE
        BY <1>8 DEF Raw, LevelOf, Formats
    <2>2. Marked(x) = x
        BY ZenonT(30), <1>5, <2>1, MarkedIs
    <2>3. Marked(b) = [b EXCEPT !.text = <<>>, !.isLevel = TRUE]
        <3>1. Shown(b.level) /\ Prefix(b.level) = <<>> /\ <<>> \o <<>> = <<>>
            BY <1>6, <2>1 DEF Shown, Prefix
        <3>2. Marked(b) = [b EXCEPT !.text = b.text \o Prefix(b.level), !.isLevel = TRUE]
            BY ZenonT(30), <1>6, <3>1, MarkedIs
        <3> QED
            BY <1>6, <3>1, <3>2
    <2> DEFINE c == [b EXCEPT !.text = <<>>, !.isLevel = TRUE]
    <2>4. /\ c \in Views /\ c.text = <<>> /\ c.level = b.level /\ c.isLevel = TRUE
          /\ c.isHex = FALSE /\ c.isFill = FALSE
        BY <1>6, FixedTexts DEF Views
    <2> HIDE DEF c
    <2>5. x = c
        BY <1>5, <1>6, <2>1, <2>4, SameView
    <2> QED
        BY <1>2, <1>3, <1>4, <2>2, <2>3, <2>5 DEF c, v
<1> QED
    BY <1>7, <1>8

\* The next line begins: behind a closed or a plain one, in a clean format; and with its own level,
\* or in a format that has none from before.
LEMMA NextLineKeeps == ASSUME OutputInv, NextLine PROVE OutputInv'
<1> DEFINE l == Head(lines)
<1>1. /\ todo = <<>> /\ lines # <<>> /\ line' = l /\ todo' = l /\ lines' = Tail(lines)
      /\ shown' = <<>> /\ disturbed' = FALSE /\ format' = format /\ at' = at /\ vmState' = vmState
    BY DEF NextLine
<1>2. /\ Line(l) /\ l = lines[1] /\ LinesType(Tail(lines))
      /\ Tail(lines) # <<>> => /\ Closed(l) \/ NeedsNoMark(Tail(lines)[1])
                               /\ Tail(lines)[Len(Tail(lines))] = lines[Len(lines)]
      /\ Tail(lines) = <<>> => lines[Len(lines)] = l
    BY <1>1, LinesTail DEF OutputInv, OutputType
<1> HIDE DEF l
<1>3. l \in Seq(Sources) /\ l \in Seq(Tokens) /\ l # <<>> /\ l[1] \in Marks /\ (Closed(l) \/ Plain(l))
    <2>1. l \in Seq(Tokens)
        BY <1>2, SeqWider DEF Line, Tokens
    <2> QED
        BY <1>2, <2>1 DEF Line
<1>4. ~Closed(todo)
    BY <1>1 DEF Closed
<1>5. Clean(format) /\ format \in Formats
    BY <1>4 DEF OutputInv, OutputType, FormatReset
<1>6. ~format.isLevel \/ l[1] = Raw
    BY <1>1, <1>2, <1>4 DEF OutputInv, FirstLine, AtRest, NeedsNoMark
<1>7. OutputType'
    BY <1>1, <1>2, <1>3, <1>5, FixedTexts DEF OutputType
<1>8. FormatReset'
    BY <1>1, <1>3, <1>5 DEF FormatReset
<1>9. FirstLine'
    BY <1>1, <1>2 DEF FirstLine
<1>10. (at = "parse" => Settled)'
    BY <1>1, <1>2 DEF Settled, OutputInv
<1>11. GuestQuiet'
    BY <1>1 DEF GuestQuiet, OutputInv
<1>12. LineGoesOn'
    <2>1. /\ Meaning(View(format, <<>>), l[1]) = Meaning(Blank, l[1])
          /\ Blank \in Views /\ View(format, <<>>) \in Views
        BY <1>3, <1>5, <1>6, FirstMeaning
    <2>2. Head(l) = l[1]
        BY <1>3
    <2>3. All(View(format, <<>>), l) = All(Meaning(View(format, <<>>), Head(l)), Tail(l))
        BY <1>3, <2>1, AllCons
    <2>4. All(Blank, l) = All(Meaning(Blank, Head(l)), Tail(l))
        BY <1>3, <2>1, AllCons
    <2>5. All(View(format, <<>>), l).text = Says(l)
        BY <1>3, <2>1, <2>2, <2>3, <2>4, SaysIsAll
    <2> QED
        BY <1>1, <2>5 DEF LineGoesOn
<1> QED
    BY <1>7, <1>8, <1>9, <1>10, <1>11, <1>12 DEF OutputInv

\* A step of a token that is no base keeps the format clean.
LEMMA CleanStep ==
    ASSUME NEW f \in Formats, NEW t \in Tokens
    PROVE  /\ Clean(f) /\ t \notin {Fmt("hex"), Fmt("fill")} =>
                Clean(Step(f, t).format) /\ Plain(Step(f, t).rest)
           /\ t = Endl  => Step(f, t).rest = <<Str(LineBreak), Reset>>
           /\ t = Reset => Step(f, t).rest = <<>> /\ Cleared(Step(f, t).format)
<1>1. /\ t \in TextTokens \/ t \in LevelTokens \/ t \in SetTokens \/ t \in ResetTokens
         \/ t \in NumTokens \union DigitTokens \union PadTokens
      /\ \A x: Plain(<<x>>) <=> x \notin {Fmt("hex"), Fmt("fill")}
      /\ \A x, y: x \notin {Fmt("hex"), Fmt("fill")} /\ y \notin {Fmt("hex"), Fmt("fill")} => Plain(<<x, y>>)
      /\ Plain(<<>>)
    <2>1. \A x: Plain(<<x>>) <=> x \notin {Fmt("hex"), Fmt("fill")}
        <3> TAKE x
        <3> DEFINE s == <<x>>
        <3>1. Len(s) = 1 /\ s[1] = x
            OBVIOUS
        <3> HIDE DEF s
        <3>2. Plain(s) <=> x \notin {Fmt("hex"), Fmt("fill")}
            BY <3>1 DEF Plain
        <3> QED
            BY <3>2 DEF s
    <2>2. ASSUME NEW x,
                 NEW y, x \notin {Fmt("hex"), Fmt("fill")}, y \notin {Fmt("hex"), Fmt("fill")}
          PROVE  Plain(<<x, y>>)
        <3> DEFINE s == <<x, y>>
        <3>1. Len(s) = 2 /\ s[1] = x /\ s[2] = y
            OBVIOUS
        <3> HIDE DEF s
        <3>2. \A k \in 1 .. 2: s[k] \in {x, y}
            BY <3>1
        <3>3. Plain(s)
            BY <2>2, <3>1, <3>2 DEF Plain
        <3> QED
            BY <3>3 DEF s
    <2>3. Plain(<<>>)
        BY DEF Plain
    <2>4. t \in TextTokens \/ t \in LevelTokens \/ t \in SetTokens \/ t \in ResetTokens
          \/ t \in NumTokens \union DigitTokens \union PadTokens
        BY DEF Tokens, Sources
    <2> QED
        BY <2>1, <2>2, <2>3, <2>4
<1>2. ASSUME NEW x, x.op # "fmt" PROVE x \notin {Fmt("hex"), Fmt("fill")}
    BY <1>2 DEF Fmt
<1>3. \A text: Plain(<<Str(text)>>)
    <2>1. \A text: Str(text).op = "str"
        BY DEF Str
    <2> QED
        BY <1>1, <1>2, <2>1
<1>4. \A level: Plain(LevelMessage(level))
    BY <1>1, <1>3 DEF LevelMessage
<1> DEFINE Done(r) == Clean(r.format) /\ Plain(r.rest)
<1>5. ASSUME Clean(f), t \in LevelTokens PROVE Done(Step(f, t))
    <2>1. Step(f, t) = StepLevel(f, t)
        BY <1>5, TokenFields DEF Step
    <2>2. Clean([f EXCEPT !.level = t.level, !.isLevel = TRUE])
        BY <1>5 DEF Clean, Formats
    <2> QED
        BY <2>1, <2>2, <1>1, <1>4 DEF StepLevel, Result
<1>6. ASSUME Clean(f), t \in TextTokens PROVE Done(Step(f, t))
    <2>1. t.op \in {"str", "char"}
        BY <1>6, TokenFields
    <2>2. t.op = "char" => Done(Step(f, t))
        BY <1>1, <1>6 DEF Step, Result
    <2>3. CASE t.op = "str"
        <3>1. Step(f, t) = StepStr(f, t)
            BY <2>3 DEF Step
        <3>2. Clean([f EXCEPT !.isLevel = TRUE])
            BY <1>6 DEF Clean, Formats
        <3>3. Plain(Append(LevelMessage(f.level), t))
            <4> DEFINE p == Str(Prefix(f.level))
            <4>1. t \notin {Fmt("hex"), Fmt("fill")} /\ p \notin {Fmt("hex"), Fmt("fill")}
                BY <1>2, <2>3 DEF Str
            <4>2. LevelMessage(f.level) = <<>> \/ LevelMessage(f.level) = <<p>>
                BY DEF LevelMessage
            <4> HIDE DEF p
            <4>3. Append(<<>>, t) = <<t>> /\ Append(<<p>>, t) = <<p, t>>
                <5>1. p \in {p, t} /\ t \in {p, t}
                    OBVIOUS
                <5>2. Append(<<p>>, t) = <<p, t>>
                    BY <5>1, AppendOne
                <5> QED
                    BY <5>2
            <4> QED
                <5>1. Plain(<<t>>) /\ Plain(<<p, t>>)
                    BY <1>1, <4>1
                <5> QED
                    BY <4>2, <4>3, <5>1
        <3> QED
            BY <1>1, <1>6, <3>1, <3>2, <3>3 DEF StepStr, Result
    <2> QED
        BY <2>1, <2>2, <2>3
<1>7. ASSUME Clean(f), t \in NumTokens \union DigitTokens \union PadTokens PROVE Done(Step(f, t))
    <2>1. t.op \in {"num", "digits", "pad"}
        BY <1>7, TokenFields
    <2>2. Step(f, t) = StepNum(f, t)
        BY <2>1 DEF Step
    <2>3. \E x: x.op # "fmt" /\ StepNum(f, t) = Result(f, <<>>, <<x>>)
        <3>1. CASE t.op = "num"
            BY <3>1 DEF StepNum
        <3>2. CASE t.op = "digits"
            BY <3>2 DEF StepNum
        <3>3. CASE t.op = "pad"
            BY <3>3 DEF StepNum, Str
        <3> QED
            BY <2>1, <3>1, <3>2, <3>3
    <2> QED
        BY <1>1, <1>2, <1>7, <2>2, <2>3 DEF Result
<1>8. t = Endl => Step(f, t).rest = <<Str(LineBreak), Reset>>
    <2>1. Endl.op = "fmt" /\ Endl.fmt = "endl"
        BY DEF Endl, Fmt
    <2> QED
        BY <2>1 DEF Step, StepFmt, Result, Reset
<1>9. t = Reset => Step(f, t).rest = <<>> /\ Cleared(Step(f, t).format)
    <2>1. Reset.op = "fmt" /\ Reset.fmt = "reset"
        BY TokenFields
    <2>2. t = Reset => Step(f, t) = Result([f EXCEPT !.isHex = FALSE, !.isFill = FALSE,
                                                   !.isLevel = FALSE], <<>>, <<>>)
        BY <2>1 DEF Step, StepFmt
    <2>3. Cleared([f EXCEPT !.isHex = FALSE, !.isFill = FALSE, !.isLevel = FALSE])
        BY DEF Formats, Cleared
    <2> QED
        BY <2>2, <2>3 DEF Result
<1>10. ASSUME Clean(f), t \in SetTokens, t \notin {Fmt("hex"), Fmt("fill")} PROVE Done(Step(f, t))
    <2>1. t.op = "fmt" /\ t.fmt \in {"endl", "dec"}
        BY <1>10 DEF SetTokens, Fmt
    <2>2. CASE t.fmt = "endl"
        <3>1. Step(f, t) = Result(f, <<>>, <<Str(LineBreak), Reset>>)
            BY <2>1, <2>2 DEF Step, StepFmt, Reset
        <3>2. Str(LineBreak) \notin {Fmt("hex"), Fmt("fill")} /\ Reset \notin {Fmt("hex"), Fmt("fill")}
            BY DEF Str, Reset, Fmt
        <3> QED
            BY <1>1, <1>10, <3>1, <3>2 DEF Result
    <2>3. CASE t.fmt = "dec"
        <3>1. Step(f, t) = Result([f EXCEPT !.isHex = FALSE], <<>>, <<>>)
            BY <2>1, <2>3 DEF Step, StepFmt
        <3>2. Clean([f EXCEPT !.isHex = FALSE])
            BY <1>10 DEF Clean, Formats
        <3> QED
            BY <1>1, <3>1, <3>2 DEF Result
    <2> QED
        BY <2>1, <2>2, <2>3
<1>11. ASSUME Clean(f), t \in ResetTokens PROVE Done(Step(f, t))
    <2>1. t = Reset
        BY <1>11, TokenFields
    <2> QED
        BY <1>1, <1>9, <2>1 DEF Clean, Cleared
<1> QED
    BY <1>1, <1>5, <1>6, <1>7, <1>8, <1>9, <1>10, <1>11

\* A step of the line: what it prints and what it leaves are the token (StepDoes), so the line goes
\* on as it should; and the tokens it leaves close the line if it was closed.
LEMMA PrintStepKeeps == ASSUME OutputInv, PrintStep PROVE OutputInv'
<1> DEFINE t == Head(todo)
           step == Step(format, t)
           r == Tail(todo)
           v == View(format, shown)
           w == View(format', shown')
<1>1. /\ todo # <<>> /\ format' = step.format
      /\ shown' = shown \o step.out /\ todo' = step.rest \o r
      /\ UNCHANGED <<lines, line, disturbed, at, vmState>>
    BY DEF PrintStep
<1>2. format \in Formats /\ shown \in Texts /\ todo \in Seq(Tokens)
    BY DEF OutputInv, OutputType
<1>3. /\ t \in Tokens /\ r \in Seq(Tokens) /\ t = todo[1] /\ Len(r) = Len(todo) - 1
      /\ \A k \in 1 .. Len(r): r[k] = todo[k + 1]
    BY <1>1, <1>2
<1>4. Does(format, shown, t, step)
    BY <1>2, <1>3, StepDoes
<1> HIDE DEF t, step, r
<1>5. /\ format' \in Formats /\ shown' \in Texts
      /\ step.rest \in Seq(Tokens) /\ todo' \in Seq(Tokens)
      /\ All(w, step.rest) = Meaning(v, t)
    <2>1. shown' \in Texts
        BY <1>1, <1>2, <1>4 DEF Does, Texts
    <2>2. step.rest \in Seq(Tokens) /\ format' \in Formats
        BY <1>1, <1>4 DEF Does
    <2>3. todo' \in Seq(Tokens)
        BY <1>1, <1>3, <2>2
    <2> QED
        BY <1>1, <1>4, <2>1, <2>2, <2>3 DEF Does
<1>6. OutputType'
    BY <1>1, <1>5 DEF OutputInv, OutputType
<1>7. All(w, todo') = All(v, todo)
    <2>1. v \in Views /\ w \in Views
        BY <1>2, <1>5, ViewType
    <2> HIDE DEF v, w
    <2>2. All(v, todo) = All(Meaning(v, t), r)
        BY <1>1, <1>2, <2>1, AllCons DEF t, r
    <2>3. All(w, step.rest \o r) = All(All(w, step.rest), r)
        BY <1>3, <1>5, <2>1, AllConcat
    <2> QED
        BY <1>1, <1>5, <2>2, <2>3
<1>8. LineGoesOn'
    BY <1>1, <1>7 DEF OutputInv, LineGoesOn
<1> HIDE DEF v, w
<1>9. Closed(todo) => Closed(todo') \/ (todo' = <<>> /\ Cleared(format'))
    <2> SUFFICES ASSUME Closed(todo) PROVE Closed(todo') \/ (todo' = <<>> /\ Cleared(format'))
        OBVIOUS
    <2> DEFINE q == step.rest
    <2>1. Len(q) \in Nat /\ Len(r) \in Nat /\ q \in Seq(Tokens)
        BY <1>3, <1>5
    <2>2. /\ Len(todo') = Len(q) + Len(r)
          /\ \A k \in 1 .. Len(q) + Len(r): todo'[k] = IF k <= Len(q) THEN q[k] ELSE r[k - Len(q)]
        BY <1>1, <1>3, <1>5, ConcatProperties
    <2> HIDE DEF q
    <2>3. CASE r # <<>>
        <3>1. Len(r) > 0
            BY <1>3, <2>3
        <3>2. r[Len(r)] = todo[Len(todo)]
            <4>1. Len(r) \in 1 .. Len(r) /\ Len(r) + 1 = Len(todo)
                BY <1>2, <1>3, <2>1, <3>1
            <4> QED
                BY <1>3, <4>1
        <3>3. todo'[Len(todo')] = r[Len(r)]
            <4>1. /\ Len(q) + Len(r) \in 1 .. Len(q) + Len(r) /\ ~(Len(q) + Len(r) <= Len(q))
                  /\ (Len(q) + Len(r)) - Len(q) = Len(r)
                BY <2>1, <3>1
            <4> QED
                BY <2>2, <4>1
        <3>4. todo' # <<>>
            BY <1>5, <2>1, <2>2, <3>1
        <3> QED
            BY <3>2, <3>3, <3>4 DEF Closed
    <2>4. CASE r = <<>>
        <3>1. Len(todo) = 1
            BY <1>1, <1>2, <1>3, <2>4
        <3>2. t \in {Endl, Reset}
            BY <1>3, <3>1 DEF Closed
        <3>3. todo' = q
            BY <1>1, <2>1, <2>4 DEF q
        <3>4. CASE t = Endl
            <4>1. q = <<Str(LineBreak), Reset>>
                BY <1>2, <1>3, <3>4, CleanStep DEF q, step
            <4> QED
                BY <3>3, <4>1 DEF Closed
        <3>5. CASE t = Reset
            BY <1>1, <1>2, <1>3, <3>3, <3>5, CleanStep DEF q, step
        <3> QED
            BY <3>2, <3>4, <3>5
    <2> QED
        BY <2>3, <2>4
<1>10. Plain(todo) /\ Clean(format) => Plain(todo') /\ Clean(format')
    <2> SUFFICES ASSUME Plain(todo), Clean(format) PROVE Plain(todo') /\ Clean(format')
        OBVIOUS
    <2> DEFINE q == step.rest
    <2>1. Len(q) \in Nat /\ Len(r) \in Nat /\ Len(todo) \in Nat /\ Len(todo) # 0
        BY <1>1, <1>2, <1>3, <1>5
    <2>2. /\ Len(todo') = Len(q) + Len(r)
          /\ \A k \in 1 .. Len(q) + Len(r): todo'[k] = IF k <= Len(q) THEN q[k] ELSE r[k - Len(q)]
        BY <1>1, <1>3, <1>5, ConcatProperties
    <2>3. t \notin {Fmt("hex"), Fmt("fill")}
        BY <1>3, <2>1 DEF Plain
    <2>4. Clean(format') /\ Plain(q)
        BY <1>1, <1>2, <1>3, <2>3, CleanStep DEF step
    <2> HIDE DEF q
    <2>5. \A k \in 1 .. Len(r): r[k] \notin {Fmt("hex"), Fmt("fill")}
        <3> TAKE k \in 1 .. Len(r)
        <3>1. k + 1 \in 1 .. Len(todo)
            BY <1>3, <2>1
        <3> QED
            BY <1>3, <3>1 DEF Plain
    <2>6. \A k \in 1 .. Len(todo'): todo'[k] \notin {Fmt("hex"), Fmt("fill")}
        <3> TAKE k \in 1 .. Len(todo')
        <3>1. CASE k <= Len(q)
            <4>1. k \in 1 .. Len(q) /\ k \in 1 .. Len(q) + Len(r)
                BY <2>1, <2>2, <3>1
            <4> QED
                BY <2>2, <2>4, <3>1, <4>1 DEF Plain
        <3>2. CASE ~(k <= Len(q))
            <4>1. k - Len(q) \in 1 .. Len(r) /\ k \in 1 .. Len(q) + Len(r)
                BY <2>1, <2>2, <3>2
            <4> QED
                BY <2>2, <2>5, <3>2, <4>1
        <3> QED
            BY <3>1, <3>2
    <2> QED
        BY <2>4, <2>6 DEF Plain
<1>11. FormatReset'
    <2>1. todo' = <<>> /\ Cleared(format') => Plain(todo') /\ Clean(format')
        BY DEF Plain, Clean, Cleared
    <2> QED
        BY <1>9, <1>10, <2>1 DEF OutputInv, FormatReset
<1>12. FirstLine'
    BY <1>1, <1>9 DEF OutputInv, FirstLine, AtRest, Cleared
<1>13. (at = "parse" => Settled)'
    BY <1>1, <1>9 DEF OutputInv, Settled, AtRest, Cleared
<1>14. GuestQuiet'
    BY <1>1 DEF OutputInv, GuestQuiet
<1> QED
    BY <1>6, <1>8, <1>11, <1>12, <1>13, <1>14 DEF OutputInv

-----------------------------------------------------------------------------
(* The steps of the foreground's commands and of the handler, and the theorems. *)

\* The types of the other variables.
ControlType ==
    /\ at \in Places
    /\ disturbed \in BOOLEAN /\ erased \in BOOLEAN
    /\ rx \in Seq(Keys) /\ Len(rx) <= RxSize
    /\ cmdMode \in BOOLEAN
    /\ vmState \in {"stopped", "running"}
    /\ typed \in 0 .. MaxTyped
    /\ overslept \in BOOLEAN

\* Nothing is printed yet, or nothing is left to print.
LEMMA OutputInit == Init => OutputInv /\ ControlType
<1> SUFFICES ASSUME Init PROVE OutputInv /\ ControlType
    OBVIOUS
<1>1. /\ format = Fresh /\ todo = <<>> /\ line = <<>> /\ shown = <<>>
      /\ lines = <<>> \/ lines = StartedLines
      /\ at # "parse" /\ (vmState = "running" => at = "guest" /\ lines = <<>>)
    BY DEF Init
<1>2. /\ format \in Formats /\ ~format.isLevel /\ ~format.isHex /\ ~format.isFill
      /\ format.level = "info"
    BY <1>1, LevelNames DEF Fresh, Formats, LevelSet
<1>3. OutputType
    BY <1>1, <1>2, CodeLines, LineSeqs, FixedTexts DEF OutputType
<1>4. FormatReset
    BY <1>1, <1>2 DEF FormatReset, Plain, Clean
<1>5. FirstLine
    BY <1>1, <1>2 DEF FirstLine, AtRest
<1>6. GuestQuiet
    BY <1>1 DEF GuestQuiet
<1>7. LineGoesOn
    <2>1. View(format, shown) = Blank
        BY <1>1 DEF View, Fresh, Blank
    <2>2. <<>> \in Seq(Sources)
        OBVIOUS
    <2>3. Says(<<>>) = All(Blank, <<>>).text
        BY <2>2, SaysIsAll
    <2> QED
        BY <1>1, <2>1, <2>3 DEF LineGoesOn
<1>8. OutputInv
    BY <1>1, <1>3, <1>4, <1>5, <1>6, <1>7 DEF OutputInv
<1>9. at \in Places /\ vmState \in {"stopped", "running"}
    BY DEF Init, Places
<1>10. rx \in Seq(Keys) /\ Len(rx) <= RxSize /\ typed \in 0 .. MaxTyped
    BY EditorSizes DEF Init
<1> QED
    BY <1>8, <1>9, <1>10 DEF Init, ControlType

\* Between lines, nothing that is not printed as it is keeps a line under way.
LEMMA Unprinted ==
    ASSUME OutputInv, UNCHANGED <<format, todo, line, shown, disturbed>>
    PROVE  /\ FormatReset' /\ LineGoesOn'
           /\ lines' = lines => OutputType' /\ FirstLine' /\ Settled' = Settled
           /\ LinesType(lines') => OutputType'
<1>1. FormatReset' /\ LineGoesOn'
    BY DEF OutputInv, FormatReset, LineGoesOn
<1>2. LinesType(lines') => OutputType'
    BY DEF OutputInv, OutputType
<1>3. lines' = lines => OutputType' /\ FirstLine' /\ Settled' = Settled
    BY DEF OutputInv, OutputType, FirstLine, AtRest, Settled
<1> QED
    BY <1>1, <1>2, <1>3

\* What is said next.
LEMMA SayKeeps ==
    ASSUME OutputInv, NEW what, LinesType(what), NEW place, NEW old, Foreground(old), old # "guest",
           Say(what, place), vmState' = vmState,
           what # <<>> => NeedsNoMark(what[1]) \/ ~format.isLevel,
           place = "parse" => what # <<>> /\ Closed(what[Len(what)])
    PROVE  OutputInv'
<1>1. /\ todo = <<>> /\ lines = <<>> /\ at = old
      /\ lines' = what /\ at' = place /\ UNCHANGED <<format, todo, line, shown, disturbed>>
    BY DEF Foreground, Say
<1>2. OutputType' /\ FormatReset' /\ LineGoesOn'
    BY <1>1, Unprinted
<1>3. FirstLine'
    BY <1>1 DEF FirstLine, AtRest
<1>4. (at = "parse" => Settled)'
    BY <1>1 DEF Settled
<1>5. vmState # "running"
    BY <1>1 DEF OutputInv, GuestQuiet
<1>6. GuestQuiet'
    BY <1>5 DEF GuestQuiet
<1> QED
    BY <1>2, <1>3, <1>4, <1>6 DEF OutputInv

\* The editor, the parser and the guest's reads.
LEMMA ForegroundKeeps ==
    ASSUME OutputInv, ControlType,
           ShowPrompt \/ GetChar \/ GetCharEmpty \/ Wfi \/ Parse \/ EnterGuest \/ GuestReads
    PROVE  OutputInv'
<1>1. CASE ShowPrompt
    <2>1. /\ LinesType(<<PromptLine>>) /\ NeedsNoMark(<<PromptLine>>[1])
        BY CodeLines, LineSeqs
    <2>2. Foreground("prompt") /\ Say(<<PromptLine>>, "getchar") /\ vmState' = vmState
        BY <1>1 DEF ShowPrompt
    <2> QED
        BY <2>1, <2>2, SayKeeps
<1>2. CASE GetChar
    <2>1. PICK c : EditEnter(c) \/ EditErase(c) \/ EditChar(c) \/ EditOther(c)
        BY <1>2 DEF GetChar
    <2>2. Foreground("getchar") /\ vmState' = vmState
        BY <1>2 DEF GetChar
    <2>3. CASE EditEnter(c)
        <3> DEFINE what == <<NewLine>>
        <3>1. LinesType(what) /\ what # <<>> /\ NeedsNoMark(what[1]) /\ Closed(what[Len(what)])
            BY CodeLines, LineSeqs
        <3>2. Say(what, "parse")
            BY <2>3 DEF EditEnter
        <3> HIDE DEF what
        <3> QED
            BY <2>2, <3>1, <3>2, SayKeeps
    <2>4. ASSUME Say(<<>>, "getchar") PROVE OutputInv'
        BY <2>2, <2>4, LineSeqs, SayKeeps
    <2>5. ASSUME NEW s, Line(s), NeedsNoMark(s), Say(<<s>>, "getchar") PROVE OutputInv'
        <3> DEFINE what == <<s>>
        <3>1. LinesType(what) /\ NeedsNoMark(what[1]) /\ Say(what, "getchar")
            BY <2>5, LineSeqs
        <3> HIDE DEF what
        <3> QED
            BY <2>2, <3>1, SayKeeps
    <2>6. CASE EditErase(c)
        BY <2>4, <2>5, <2>6, CodeLines DEF EditErase
    <2>7. CASE EditChar(c)
        BY <2>5, <2>7, CodeLines DEF EditChar
    <2>8. CASE EditOther(c)
        BY <2>4, <2>8 DEF EditOther
    <2> QED
        BY <2>1, <2>3, <2>6, <2>7, <2>8
<1>3. ASSUME UNCHANGED output, at' # "parse", GuestQuiet' PROVE OutputInv'
    <2>1. UNCHANGED <<format, todo, line, shown, disturbed>> /\ lines' = lines
        BY <1>3 DEF output
    <2>2. OutputType' /\ FormatReset' /\ LineGoesOn' /\ FirstLine'
        BY <2>1, Unprinted
    <2> QED
        BY <1>3, <2>2 DEF OutputInv
<1>4. CASE GetCharEmpty
    <2>1. at = "getchar" /\ at' = "wfi_next" /\ vmState' = vmState /\ UNCHANGED output
        BY <1>4 DEF GetCharEmpty, Foreground
    <2>2. GuestQuiet'
        BY <2>1 DEF OutputInv, GuestQuiet
    <2> QED
        BY <1>3, <2>1, <2>2
<1>5. CASE Wfi
    <2>1. at = "wfi_next" /\ at' = "wfi" /\ vmState' = vmState /\ UNCHANGED output
        BY <1>5 DEF Wfi, Foreground
    <2>2. GuestQuiet'
        BY <2>1 DEF OutputInv, GuestQuiet
    <2> QED
        BY <1>3, <2>1, <2>2
<1>6. CASE EnterGuest
    <2>1. todo = <<>> /\ lines = <<>> /\ at' = "guest" /\ UNCHANGED output
        BY <1>6 DEF EnterGuest, Foreground
    <2>2. GuestQuiet'
        BY <2>1 DEF GuestQuiet, output
    <2> QED
        BY <1>3, <2>1, <2>2
<1>7. CASE GuestReads
    <2>1. at = "guest" /\ at' = at /\ vmState' = vmState /\ UNCHANGED output
        BY <1>7 DEF GuestReads, Foreground
    <2>2. GuestQuiet'
        BY <2>1 DEF OutputInv, GuestQuiet, output
    <2> QED
        BY <1>3, <2>1, <2>2
<1>8. CASE Parse
    <2>1. Foreground("parse") /\ vmState' = vmState
        BY <1>8 DEF Parse
    <2>2. ~format.isLevel
        BY <2>1 DEF Foreground, OutputInv, Settled, AtRest, Closed
    <2>3. \E what, place: LinesType(what) /\ place # "parse" /\ Say(what, place)
        BY <1>8, CodeLines, LineSeqs DEF Parse, Command
    <2> QED
        BY <2>1, <2>2, <2>3, SayKeeps
<1> QED
    BY <1>1, <1>2, <1>4, <1>5, <1>6, <1>7, <1>8

\* Where the foreground goes, and what it takes from the key buffer.
LEMMA ForegroundControl ==
    ASSUME ControlType,
           ShowPrompt \/ GetChar \/ GetCharEmpty \/ Wfi \/ Parse \/ EnterGuest \/ GuestReads
    PROVE  ControlType'
<1>1. "prompt" \in Places /\ "getchar" \in Places /\ "parse" \in Places
      /\ "quit" \in Places /\ "start" \in Places /\ "guest" \in Places
      /\ "wfi_next" \in Places /\ "wfi" \in Places
    BY DEF Places
<1>2. CASE ShowPrompt
    BY <1>1, <1>2 DEF ShowPrompt, Say, ControlType
<1>3. CASE GetChar
    <2>1. PICK c \in Keys : c = Head(rx) /\ (EditEnter(c) \/ EditErase(c) \/ EditChar(c) \/ EditOther(c))
        BY <1>3 DEF GetChar, ControlType
    <2>2. rx' \in Seq(Keys) /\ Len(rx') <= RxSize
        BY <1>3, EditorSizes DEF GetChar, ControlType
    <2>3. at' \in Places /\ disturbed' = disturbed
        BY <1>1, <2>1 DEF EditEnter, EditErase, EditChar, EditOther, Say
    <2>4. erased' \in BOOLEAN
        BY <2>1 DEF EditEnter, EditErase, EditChar, EditOther, editor, ControlType
    <2>5. UNCHANGED <<cmdMode, vmState, typed, overslept>>
        BY <1>3 DEF GetChar
    <2> QED
        BY <2>2, <2>3, <2>4, <2>5 DEF ControlType
<1>4. CASE GetCharEmpty \/ Wfi \/ EnterGuest
    BY <1>1, <1>4 DEF GetCharEmpty, Wfi, EnterGuest, ControlType, output, editor
<1>5. CASE Parse
    <2>1. at' \in Places /\ disturbed' = disturbed
        BY <1>1, <1>5 DEF Parse, Command, Say
    <2> QED
        BY <1>5, <2>1 DEF Parse, ControlType, editor
<1>6. CASE GuestReads
    <2>1. rx' \in Seq(Keys) /\ Len(rx') <= RxSize
        <3>1. CASE rx = <<>>
            BY <1>6, <3>1 DEF GuestReads, ControlType
        <3>2. CASE rx # <<>>
            BY <1>6, <3>2, EditorSizes DEF GuestReads, ControlType
        <3> QED
            BY <3>1, <3>2
    <2> QED
        BY <1>6, <2>1 DEF GuestReads, ControlType, output, editor
<1> QED
    BY <1>2, <1>3, <1>4, <1>5, <1>6

\* RingBuffer::In keeps to the buffer's size.
LEMMA RxInType ==
    ASSUME NEW q \in Seq(Keys), Len(q) <= RxSize, NEW c \in Keys
    PROVE  RxIn(q, c) \in Seq(Keys) /\ Len(RxIn(q, c)) <= RxSize
BY EditorSizes DEF RxIn

\* RxChar, with whatever it prints.
LEMMA HandlerKeeps ==
    ASSUME OutputInv, ControlType, NEW c \in Keys, TypeKey(c)
    PROVE  OutputInv' /\ ControlType'
<1>1. erased' = erased /\ typed' \in 0 .. MaxTyped /\ overslept' \in BOOLEAN
    <2>1. typed' = typed + 1 /\ typed < MaxTyped /\ erased' = erased
        BY DEF TypeKey, editor
    <2>2. overslept' \in BOOLEAN
        BY DEF TypeKey, ControlType
    <2> QED
        BY <2>1, <2>2, EditorSizes DEF ControlType
<1>2. RxChar(c)
    BY DEF TypeKey
<1>3. cmdMode' \in BOOLEAN
    BY <1>2 DEF RxChar
<1>4. Wake => at' \in Places /\ (at' = "parse" => at = "parse") /\ (at = "guest" => at' = "guest")
    BY DEF Wake, Places, ControlType
<1>5. ASSUME NEW q \in Seq(Keys), Len(q) <= RxSize, Buffer(q) PROVE OutputInv' /\ ControlType'
    <2>1. /\ UNCHANGED <<format, todo, line, shown, disturbed>> /\ lines' = lines
          /\ vmState' = vmState /\ Wake /\ rx' = q
        BY <1>5 DEF Buffer, output
    <2>2. OutputType' /\ FormatReset' /\ LineGoesOn' /\ FirstLine' /\ Settled' = Settled
        BY <2>1, Unprinted
    <2>3. GuestQuiet'
        BY <1>4, <2>1 DEF OutputInv, GuestQuiet
    <2>4. OutputInv'
        BY <1>4, <2>1, <2>2, <2>3 DEF OutputInv
    <2> QED
        BY <1>1, <1>3, <1>4, <1>5, <2>1, <2>4 DEF ControlType
<1>6. ASSUME NEW s \in {BeepLine, StopLine, NoVmLine}, HandlerPrints(s)
      PROVE  /\ format' \in Formats /\ Cleared(format') /\ disturbed' = TRUE
             /\ UNCHANGED <<todo, line, shown>> /\ FormatReset' /\ LineGoesOn'
             /\ LinesType(lines') => OutputType'
    <2>1. format \in Formats
        BY DEF OutputInv, OutputType
    <2>2. /\ format' \in Formats /\ Cleared(format')
          /\ disturbed' = TRUE /\ UNCHANGED <<todo, line, shown>>
        BY <1>6, <2>1, HandlerLines DEF HandlerPrints, PrintedClears
    <2>3. FormatReset'
        BY <2>2 DEF OutputInv, FormatReset, Cleared, Clean
    <2>4. LineGoesOn'
        BY <2>2 DEF LineGoesOn
    <2> QED
        BY <2>2, <2>3, <2>4 DEF OutputInv, OutputType
<1>7. ASSUME Beep \/ NoVm PROVE OutputInv' /\ ControlType'
    <2>1. PICK s \in {BeepLine, StopLine, NoVmLine} : HandlerPrints(s)
        BY <1>7 DEF Beep, NoVm
    <2>2. Wake /\ UNCHANGED <<lines, rx, vmState>>
        BY <1>7 DEF Beep, NoVm
    <2>3. /\ Cleared(format') /\ disturbed' = TRUE /\ todo' = todo
          /\ OutputType' /\ FormatReset' /\ LineGoesOn'
        BY <1>6, <2>1, <2>2 DEF OutputInv, OutputType
    <2>4. FirstLine'
        BY <2>2, <2>3 DEF OutputInv, FirstLine, AtRest, Cleared
    <2>5. (at = "parse" => Settled)'
        BY <1>4, <2>2, <2>3 DEF OutputInv, Settled, AtRest, Cleared
    <2>6. GuestQuiet'
        BY <1>4, <2>2, <2>3 DEF OutputInv, GuestQuiet
    <2>7. OutputInv'
        BY <2>3, <2>4, <2>5, <2>6 DEF OutputInv
    <2> QED
        BY <1>1, <1>3, <1>4, <2>2, <2>3, <2>7 DEF ControlType
<1>8. ASSUME StopVm PROVE OutputInv' /\ ControlType'
    <2>1. /\ vmState = "running" /\ HandlerPrints(StopLine)
          /\ vmState' = "stopped" /\ at' = "prompt" /\ lines' = StartedLines /\ rx' = rx
        BY <1>8 DEF StopVm
    <2>2. todo = <<>>
        BY <2>1 DEF OutputInv, GuestQuiet
    <2>3. /\ Cleared(format') /\ disturbed' = TRUE /\ todo' = todo
          /\ OutputType' /\ FormatReset' /\ LineGoesOn'
        BY <1>6, <2>1, CodeLines
    <2>4. FirstLine'
        BY <2>2, <2>3 DEF FirstLine, AtRest, Cleared
    <2>5. GuestQuiet' /\ at' # "parse"
        BY <2>1 DEF GuestQuiet
    <2>6. OutputInv'
        BY <2>3, <2>4, <2>5 DEF OutputInv
    <2> QED
        BY <1>1, <1>3, <2>1, <2>3, <2>6 DEF ControlType, Places
<1>9. CmdKey \in Keys
    BY DEF Keys
<1>10. /\ rx \in Seq(Keys) /\ Len(rx) <= RxSize
       /\ RxIn(rx, c) \in Seq(Keys) /\ Len(RxIn(rx, c)) <= RxSize
       /\ RxIn(RxIn(rx, CmdKey), c) \in Seq(Keys) /\ Len(RxIn(RxIn(rx, CmdKey), c)) <= RxSize
    BY <1>9, RxInType DEF ControlType
<1> QED
    BY <1>2, <1>5, <1>7, <1>8, <1>10 DEF RxChar

\* Every step keeps the invariant.
LEMMA OutputStep == OutputInv /\ ControlType /\ [Next]_vars => OutputInv' /\ ControlType'
<1> SUFFICES ASSUME OutputInv, ControlType, [Next]_vars PROVE OutputInv' /\ ControlType'
    OBVIOUS
<1>1. CASE Idle \/ UNCHANGED vars
    <2>1. /\ UNCHANGED <<format, todo, line, shown, disturbed>> /\ lines' = lines
          /\ at' = at /\ vmState' = vmState /\ ControlType'
        BY <1>1 DEF Idle, vars, output, editor, ControlType
    <2>2. OutputType' /\ FormatReset' /\ LineGoesOn' /\ FirstLine' /\ Settled' = Settled
        BY <2>1, Unprinted
    <2>3. GuestQuiet'
        BY <2>1 DEF OutputInv, GuestQuiet
    <2> QED
        BY <2>1, <2>2, <2>3 DEF OutputInv
<1>2. CASE NextLine
    BY <1>2, NextLineKeeps DEF NextLine, ControlType, editor
<1>3. CASE PrintStep
    BY <1>3, PrintStepKeeps DEF PrintStep, ControlType, editor
<1> QED
    BY <1>1, <1>2, <1>3, ForegroundKeeps, ForegroundControl, HandlerKeeps DEF Next, ForegroundNext

\* So it always holds.
LEMMA OutputInvariance == Spec => [](OutputInv /\ ControlType)
BY OutputInit, OutputStep, PTL DEF Spec

\* A line of the command line or of the VM's start shows what it says by itself, whatever was
\* printed before it, in every format the handler left behind: no base, fill or level of another
\* line is seen in it, for every address of 64 bits and every number of keys; only a line into
\* which the handler printed may differ.
THEOREM LinesAlwaysIntact == Spec => []LineIntact
<1>1. OutputInv /\ ControlType => LineIntact
    <2> SUFFICES ASSUME OutputInv, todo = <<>>, ~disturbed PROVE shown = Says(line)
        BY DEF LineIntact
    <2>1. View(format, shown) \in Views
        BY ViewType DEF OutputInv, OutputType
    <2>2. All(View(format, shown), <<>>) = View(format, shown)
        BY <2>1, AllEmpty
    <2>3. View(format, shown).text = shown
        BY DEF View
    <2> QED
        BY <2>2, <2>3 DEF OutputInv, LineGoesOn
<1> QED
    BY OutputInvariance, <1>1, PTL

\* Whatever the foreground and the handler print into each other's lines, the console's format
\* stays one and nothing but tokens is printed; the cursor stays in the buffer, and the key
\* buffer within its size, for every size and every number of keys.
THEOREM TypeAlwaysOK == Spec => []TypeOK
<1>1. EditorInv /\ OutputInv /\ ControlType => TypeOK
    BY DEF EditorInv, OutputInv, OutputType, ControlType, TypeOK, Chars
<1> QED
    BY <1>1, OutputInvariance, EditorInvariance, PTL
=============================================================================
