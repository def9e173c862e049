----------------------------- MODULE JsonScalars -----------------------------
(***************************************************************************)
(* The tokens below module JsonParsers: how json_input.py and value.go     *)
(* read a string and a number, and how jcs.py and jcs.go write one.  A     *)
(* behaviour spells out one literal, and the properties compare what the   *)
(* code makes of it with what JSON, UTF-16 and ECMAScript say.             *)
(*                                                                         *)
(* An element of a string literal is a character (raw), a two-character    *)
(* escape for c (esc), a \u escape of the code unit c (u), or a backslash  *)
(* before anything else (bad).  A number literal is spelt in characters.   *)
(* A binary64 is represented by the shortest decimal that reads back as    *)
(* it, which is what float, repr, ParseFloat and FormatFloat convert       *)
(* between: [neg, digits, point] stands for 0.digits * 10^point, the       *)
(* digits without zeros at either end.  This is exact for literals of up   *)
(* to 15 digits; MinPoint and MaxPoint bound it where binary64 has 10^-324 *)
(* and 10^308.                                                             *)
(***************************************************************************)
EXTENDS Integers, Sequences, SequencesExt

CONSTANTS
    Elements,   \* elements of string literals
    Digits,     \* the digits numbers are spelt with
    MaxString,  \* bound: elements of a string
    MaxNumber,  \* bound: characters of a number
    MinPoint,   \* a number with a point below -MinPoint is rounded to zero
    MaxPoint    \* and one above MaxPoint is not finite

ASSUME ScalarAssumption ==
    /\ Digits \subseteq 0..9 /\ MaxString \in Nat /\ MaxNumber \in Nat
    /\ MinPoint \in Nat /\ MaxPoint \in Nat

Surrogate(c) == c \in 55296..57343

\* A character is one that UTF-8 can encode, an escape one of the eight of
\* JSON, a \u escape has four hexadecimal digits.
ASSUME ElementAssumption ==
    \A e \in Elements :
        /\ e.k \in {"raw", "esc", "u", "bad"} /\ e.c \in Nat
        /\ e.k = "raw" => e.c < 1114112 /\ ~Surrogate(e.c)
        /\ e.k = "esc" => e.c \in {8, 9, 10, 12, 13, 34, 47, 92}
        /\ e.k = "u" => e.c < 65536

VARIABLES
    mode,  \* "string" or "number"
    text   \* the literal so far

scalarVars == <<mode, text>>

Lead(c)      == c \in 55296..56319
Trail(c)     == c \in 56320..57343
Joined(l, t) == 65536 + (l - 55296) * 1024 + (t - 56320)

Refused == [ok |-> FALSE]

-----------------------------------------------------------------------------
(* Strings *)

\* The character class NONCHARACTER of json_input.py and isNoncharacter of
\* value.go.
PyNoncharacter_OnePlane(c) == c \in 64976..65007 \cup {65534, 65535}
PyNoncharacter(c) ==
    c \in 64976..65007 \cup {p * 65536 + e : p \in 0..16, e \in {65534, 65535}}
GoNoncharacter(c) == c \in 64976..65007 \/ (c % 65536) \div 2 = 32767

\* One round of the loop of _string and of parseString; lead is a leading
\* surrogate whose other half must come next.  Go looks at every character it
\* appends (each), Python at the finished string.
Appended(st, c, each) ==
    IF each /\ GoNoncharacter(c) THEN [st EXCEPT !.ok = FALSE] ELSE [st EXCEPT !.chars = Append(@, c), !.lead = 0]

StringStep(st, e, each) ==
    IF ~st.ok THEN st
    ELSE CASE st.lead # 0 /\ e.k = "u" /\ Trail(e.c) -> Appended(st, Joined(st.lead, e.c), each)
           [] st.lead = 0 /\ e.k = "u" /\ Lead(e.c) -> [st EXCEPT !.lead = e.c]
           [] st.lead = 0 /\ e.k = "u" /\ ~Surrogate(e.c) -> Appended(st, e.c, each)
           [] st.lead = 0 /\ (e.k = "esc" \/ (e.k = "raw" /\ e.c > 31)) -> Appended(st, e.c, each)
           [] OTHER -> [st EXCEPT !.ok = FALSE]

StringStart == [ok |-> TRUE, chars |-> <<>>, lead |-> 0]

\* The loop, before its first round and after each.
StringLoop(s, each) ==
    LET state[i \in 0..Len(s)] == IF i = 0 THEN StringStart ELSE StringStep(state[i - 1], s[i], each)
    IN  state

\* The quote that ends it.
StringEnd(st) == IF st.ok /\ st.lead = 0 THEN [ok |-> TRUE, value |-> st.chars] ELSE Refused

\* parse_utf8 has looked for raw noncharacters before; _check_scalars looks
\* at the string the escapes make.
PyString(s) ==
    LET end == StringEnd(StringLoop(s, FALSE)[Len(s)])
    IN  IF \/ \E i \in DOMAIN s : s[i].k = "raw" /\ PyNoncharacter(s[i].c)
           \/ ~end.ok
           \/ \E i \in DOMAIN end.value : Surrogate(end.value[i]) \/ PyNoncharacter(end.value[i])
        THEN Refused
        ELSE end

GoString(s) == StringEnd(StringLoop(s, TRUE)[Len(s)])

\* _escape_string and writeJSONString.
Short == {8, 9, 10, 12, 13, 34, 92}
Escape(v) ==
    [i \in DOMAIN v |->
        [k |-> IF v[i] \in Short THEN "esc" ELSE IF v[i] < 32 THEN "u" ELSE "raw", c |-> v[i]]]

-----------------------------------------------------------------------------
(* Numbers *)

\* A character is a digit, or the code of one of + - . e.
Plus  == 43
Minus == 45
Dot   == 46
Exp   == 101

At(s, i, set) == i <= Len(s) /\ s[i] \in set

\* The first place from i on without a digit.
Skip(s, i) == CHOOSE j \in i..(Len(s) + 1) : (\A x \in i..(j - 1) : s[x] \in 0..9) /\ ~At(s, j, 0..9)

\* _number and parseNumber: where the sign, the integer, the fraction and
\* the exponent end, as far as the literal goes on and is one.
ScanNumber(s) ==
    LET i0 == IF At(s, 1, {Minus}) THEN 2 ELSE 1
        i1 == IF At(s, i0, {0}) THEN i0 + 1 ELSE Skip(s, i0)
        i2 == IF At(s, i1, {Dot}) THEN Skip(s, i1 + 1) ELSE i1
        e0 == IF At(s, i2 + 1, {Plus, Minus}) THEN i2 + 2 ELSE i2 + 1
        i3 == IF At(s, i2, {Exp}) THEN Skip(s, e0) ELSE i2
    IN  [ok   |-> /\ At(s, i0, 0..9) /\ (i2 # i1 => i2 > i1 + 1) /\ (i3 # i2 => i3 > e0)
                  /\ i3 = Len(s) + 1,
         int  |-> SubSeq(s, i0, i1 - 1), frac |-> SubSeq(s, i1 + 1, i2 - 1),
         sign |-> IF At(s, i2 + 1, {Minus}) THEN -1 ELSE 1, exp |-> SubSeq(s, e0, i3 - 1)]

IntOf(digits) ==
    LET upto[i \in 0..Len(digits)] == IF i = 0 THEN 0 ELSE 10 * upto[i - 1] + digits[i]
    IN  upto[Len(digits)]

\* float of Python, ParseFloat of Go: rounded to zero below, out of range
\* above.
Zero(neg) == [neg |-> neg, digits |-> <<>>, point |-> 0]
Float(neg, digits, point) ==
    LET used == {i \in DOMAIN digits : digits[i] # 0}
        a    == CHOOSE i \in used : \A j \in used : i <= j
        b    == CHOOSE i \in used : \A j \in used : i >= j
        n    == point - (a - 1)
    IN  IF used = {} \/ n < -MinPoint THEN [finite |-> TRUE, value |-> Zero(neg)]
        ELSE IF n > MaxPoint THEN [finite |-> FALSE, value |-> Zero(neg)]
        ELSE [finite |-> TRUE, value |-> [neg |-> neg, digits |-> SubSeq(digits, a, b), point |-> n]]

ParseFloat(s) ==
    LET n == ScanNumber(s)
    IN  Float(s[1] = Minus, n.int \o n.frac, Len(n.int) + n.sign * IntOf(n.exp))

PyNumber(s) ==
    LET f == ParseFloat(s)
    IN  IF ~ScanNumber(s).ok \/ ~f.finite \/ (f.value.digits = <<>> /\ s[1] = Minus) THEN Refused
        ELSE [ok |-> TRUE, value |-> f.value]

GoNumber(s) ==
    LET f == ParseFloat(s)
    IN  IF ~ScanNumber(s).ok \/ ~f.finite \/ f.value = Zero(TRUE) THEN Refused
        ELSE [ok |-> TRUE, value |-> f.value]

\* An integer in decimal.
Str[n \in Nat] == IF n < 10 THEN <<n>> ELSE Append(Str[n \div 10], n % 10)
Zeros(n) == [i \in 1..n |-> 0]

\* repr: fixed for exponents from -4 to 15, scientific otherwise.
Repr(f) ==
    LET k == Len(f.digits)
        n == f.point
    IN  IF n - 1 \in -4..15
        THEN [sci |-> FALSE,
              int  |-> IF n <= 0 THEN <<0>>
                       ELSE IF k > n THEN SubSeq(f.digits, 1, n) ELSE f.digits \o Zeros(n - k),
              frac |-> IF n <= 0 THEN Zeros(-n) \o f.digits
                       ELSE IF k > n THEN SubSeq(f.digits, n + 1, k) ELSE <<0>>]
        ELSE [sci |-> TRUE, lead |-> <<f.digits[1]>>, frac |-> Tail(f.digits), exp |-> n - 1]

RStrip(digits) ==
    LET ends == {0} \cup {i \in DOMAIN digits : digits[i] # 0}
    IN  SubSeq(digits, 1, CHOOSE i \in ends : \A j \in ends : i >= j)

\* n.is_integer() and n < 1 << 53, compared digit by digit.
Two53 == <<9, 0, 0, 7, 1, 9, 9, 2, 5, 4, 7, 4, 0, 9, 9, 2>>
Below(a, b) == \E i \in DOMAIN b : a[i] < b[i] /\ \A j \in 1..(i - 1) : a[j] = b[j]
IsSafeInteger(f) ==
    /\ f.point >= Len(f.digits)
    /\ f.point < 16 \/ (f.point = 16 /\ Below(f.digits \o Zeros(16 - Len(f.digits)), Two53))

Layout_From20(digits, n) ==
    LET k == Len(digits)
    IN  CASE n \in 1..20 /\ k <= n -> digits \o Zeros(n - k)
          [] n \in 1..20 /\ k > n -> SubSeq(digits, 1, n) \o <<Dot>> \o SubSeq(digits, n + 1, k)
          [] n \in -5..0 -> <<0, Dot>> \o Zeros(-n) \o digits
          [] OTHER -> (IF k = 1 THEN digits ELSE <<digits[1], Dot>> \o Tail(digits))
                        \o (IF n >= 1 THEN <<Exp, Plus>> \o Str[n - 1] ELSE <<Exp, Minus>> \o Str[1 - n])
Layout(digits, n) ==
    LET k == Len(digits)
    IN  CASE n \in 1..21 /\ k <= n -> digits \o Zeros(n - k)
          [] n \in 1..21 /\ k > n -> SubSeq(digits, 1, n) \o <<Dot>> \o SubSeq(digits, n + 1, k)
          [] n \in -5..0 -> <<0, Dot>> \o Zeros(-n) \o digits
          [] OTHER -> (IF k = 1 THEN digits ELSE <<digits[1], Dot>> \o Tail(digits))
                        \o (IF n >= 1 THEN <<Exp, Plus>> \o Str[n - 1] ELSE <<Exp, Minus>> \o Str[1 - n])

\* _es_number: integers directly, others from the digits repr writes.
EsNumber(f) ==
    LET r    == Repr(f)
        sign == IF f.neg THEN <<Minus>> ELSE <<>>
    IN  IF f.digits = <<>> THEN <<0>>
        ELSE sign \o
             (IF IsSafeInteger(f) THEN f.digits \o Zeros(f.point - Len(f.digits))
              ELSE IF r.sci THEN Layout(RStrip(r.lead \o r.frac), r.exp + 1)
              ELSE Layout(RStrip(r.int \o r.frac), Len(r.int)))

\* FormatNumber: always from the scientific form.
FormatNumber(f) ==
    LET k == Len(f.digits)
        n == f.point
    IN  IF f.digits = <<>> THEN <<0>>
        ELSE (IF f.neg THEN <<Minus>> ELSE <<>>) \o
             (CASE k <= n /\ n <= 21 -> f.digits \o Zeros(n - k)
                [] 0 < n /\ n <= 21 /\ n < k -> SubSeq(f.digits, 1, n) \o <<Dot>> \o SubSeq(f.digits, n + 1, k)
                [] -6 < n /\ n <= 0 -> <<0, Dot>> \o Zeros(-n) \o f.digits
                [] OTHER -> SubSeq(f.digits, 1, 1) \o (IF k = 1 THEN <<>> ELSE <<Dot>> \o Tail(f.digits))
                              \o <<Exp, IF n >= 1 THEN Plus ELSE Minus>> \o Str[IF n >= 1 THEN n - 1 ELSE 1 - n])

-----------------------------------------------------------------------------
\* The grammar of a number, and the parts of it.
IsInt(s)      == s # <<>> /\ (\A i \in DOMAIN s : s[i] \in 0..9) /\ (s[1] = 0 => Len(s) = 1)
IsDigits(s)   == s # <<>> /\ \A i \in DOMAIN s : s[i] \in 0..9
IsFraction(s) == s # <<>> => s[1] = Dot /\ IsDigits(Tail(s))
IsExponent(s) ==
    s # <<>> => s[1] = Exp /\ \E i \in {2, 3} : IsDigits(SubSeq(s, i, Len(s))) /\ (i = 3 => s[2] \in {Plus, Minus})
IsNumber(s) ==
    \E a \in 1..2 : \E b, c \in 1..(Len(s) + 1) :
        /\ a <= b /\ b <= c
        /\ a = 2 <=> s # <<>> /\ s[1] = Minus
        /\ IsInt(SubSeq(s, a, b - 1)) /\ IsFraction(SubSeq(s, b, c - 1)) /\ IsExponent(SubSeq(s, c, Len(s)))

\* The beginning of a number: an error in it cannot be mended by what follows.
IsNumberPrefix(s) == s # <<>> => IsNumber(s) \/ IsNumber(Append(s, 1))

ScalarInit == mode \in {"string", "number"} /\ text = <<>>

SpellString ==
    /\ mode = "string" /\ Len(text) < MaxString
    /\ \E e \in Elements : text' = Append(text, e)
    /\ UNCHANGED mode
SpellNumber ==
    /\ mode = "number" /\ Len(text) < MaxNumber /\ IsNumberPrefix(text)
    /\ \E c \in Digits \cup {Minus, Plus, Dot, Exp} : text' = Append(text, c)
    /\ UNCHANGED mode

ScalarNext == SpellString \/ SpellNumber

ScalarSpec == ScalarInit /\ [][ScalarNext]_scalarVars

-----------------------------------------------------------------------------
(* What a literal is in UTF-16: the units of its elements, which have to be   *)
(* well formed and must not spell a noncharacter.                             *)

UnitsOf(c)    == IF c < 65536 THEN <<c>> ELSE <<55296 + ((c - 65536) \div 1024), 56320 + ((c - 65536) % 1024)>>
CodeUnits(cs) == FlattenSeq([i \in DOMAIN cs |-> UnitsOf(cs[i])])

\* A noncharacter of the first plane, and the two units of one beyond it.
BadUnit(u)    == u \in 64976..65007 \cup {65534, 65535}
BadPair(l, t) == l % 64 = 63 /\ t >= 57342

IsText(u) ==
    \A i \in DOMAIN u :
        /\ Lead(u[i]) => i < Len(u) /\ Trail(u[i + 1]) /\ ~BadPair(u[i], u[i + 1])
        /\ Trail(u[i]) => i > 1 /\ Lead(u[i - 1])
        /\ ~BadUnit(u[i])

\* Both readers take a string literal exactly when JSON does and its UTF-16
\* is well formed and without noncharacters, whether they are raw, escaped or
\* made of two escapes; and they read the characters those units encode.  So
\* encode("utf-8") and encode("utf-16-be") of what is read never fail.  The
\* canonical spelling of the string is read as the same string.
StringsReadAndWrite ==
    mode = "string" =>
        LET legal == \A i \in DOMAIN text : text[i].k # "bad" /\ (text[i].k = "raw" => text[i].c > 31)
            utf16 == CodeUnits([i \in DOMAIN text |-> text[i].c])
            read  == PyString(text)
        IN  /\ read = GoString(text)
            /\ read.ok <=> legal /\ IsText(utf16)
            /\ read.ok => CodeUnits(read.value) = utf16 /\ PyString(Escape(read.value)) = read

\* Both readers take a number literal exactly when the grammar does, it is in
\* range, and it is not a negative zero: neither -0 in any spelling nor a
\* negative number that is rounded to zero.  Both writers spell it the way
\* ECMAScript does, with an exponent exactly from 10^21 on and below 10^-6,
\* although Python goes through repr, whose thresholds are others, and through
\* int for safe integers; and the spelling is read as the same number.
NumbersReadAndWrite ==
    mode = "number" /\ text # <<>> =>
        \A read \in {PyNumber(text)} :
            /\ read = GoNumber(text)
            /\ read.ok <=> /\ IsNumber(text) /\ ParseFloat(text).finite
                           /\ text[1] = Minus => ParseFloat(text).value.digits # <<>>
            /\ read.ok =>
                  \A s \in {EsNumber(read.value)} :
                      /\ s = FormatNumber(read.value)
                      /\ PyNumber(s) = read
                      /\ (\E i \in DOMAIN s : s[i] = Exp)
                            <=> read.value.digits # <<>> /\ read.value.point \notin -5..21
=============================================================================
