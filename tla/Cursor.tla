-------------------------------- MODULE Cursor --------------------------------
(***************************************************************************)
(* The cursor of a listing on the wire: unpadded base64url of a decimal,   *)
(* by store.py and by relay.ts.  (relay.py sends the decimal itself.)  The *)
(* relays' modules have the number it stands for.                          *)
(*                                                                         *)
(* A byte is its code, and a character of the token its value in the       *)
(* alphabet, so that what is not in 0..63 is no character of it.           *)
(***************************************************************************)
EXTENDS Integers, Sequences

CONSTANTS
    CursorDigits,  \* the digits cursors are written with
    MaxCursor      \* bound: digits of a cursor

ASSUME CursorAssumption == CursorDigits \subseteq 0..9 /\ MaxCursor \in Nat

VARIABLE decimal   \* the digits of a cursor

CursorBad == -1
ByteOf(digit) == 48 + digit

\* What a character of a group of four, a byte of a group of three, counts.
CharWeight == <<262144, 4096, 64, 1>>
ByteWeight == <<65536, 256, 1>>

\* urlsafe_b64encode(...).rstrip("=") and toString("base64url"): three bytes
\* are four characters, and one or two bytes at the end are two or three.
EncodeBase64(bytes) ==
    LET byte(i)  == IF i <= Len(bytes) THEN bytes[i] ELSE 0
        group(g) == byte(3 * g + 1) * 65536 + byte(3 * g + 2) * 256 + byte(3 * g + 3)
    IN  [j \in 1..((4 * Len(bytes) + 2) \div 3) |->
            (group((j - 1) \div 4) \div CharWeight[((j - 1) % 4) + 1]) % 64]

\* The bytes of whole characters; what is left over of the last one is dropped.
DecodeBase64(token) ==
    LET char(j)  == IF j <= Len(token) THEN token[j] ELSE 0
        group(g) == char(4 * g + 1) * 262144 + char(4 * g + 2) * 4096 + char(4 * g + 3) * 64 + char(4 * g + 4)
    IN  [i \in 1..((3 * Len(token)) \div 4) |->
            (group((i - 1) \div 3) \div ByteWeight[((i - 1) % 3) + 1]) % 256]

Decimal(bytes) ==
    LET value[i \in 0..Len(bytes)] == IF i = 0 THEN 0 ELSE 10 * value[i - 1] + bytes[i] - 48
    IN  value[Len(bytes)]
IsDecimal(bytes) == bytes # <<>> /\ \A i \in DOMAIN bytes : bytes[i] \in 48..57

InAlphabet(token) == token # <<>> /\ \A j \in DOMAIN token : token[j] \in 0..63

\* encode_cursor and b64url.
EncodeCursor(digits) == EncodeBase64([i \in DOMAIN digits |-> ByteOf(digits[i])])

\* decode_cursor: a token with one character behind the last group of four
\* cannot be padded.
DecodeCursor_FixedPad(token) ==
    IF ~InAlphabet(token) \/ Len(token) % 4 # 2 THEN CursorBad
    ELSE LET raw == DecodeBase64(token) IN IF IsDecimal(raw) THEN Decimal(raw) ELSE CursorBad
DecodeCursor(token) ==
    IF ~InAlphabet(token) \/ Len(token) % 4 = 1 THEN CursorBad
    ELSE LET raw == DecodeBase64(token) IN IF IsDecimal(raw) THEN Decimal(raw) ELSE CursorBad

\* cursorOk, then fromCursor: what is no number is the beginning of the list.
FromCursor(token) ==
    IF token = <<>> THEN 0
    ELSE IF ~InAlphabet(token) THEN CursorBad
    ELSE LET raw == DecodeBase64(token) IN IF IsDecimal(raw) THEN Decimal(raw) ELSE 0

CursorInit == decimal = <<>>

\* A digit more; str and String write no leading zero.
SpellCursor(d) ==
    /\ Len(decimal) < MaxCursor /\ decimal # <<0>>
    /\ decimal' = Append(decimal, d)

CursorNext == \E d \in CursorDigits : SpellCursor(d)

-----------------------------------------------------------------------------
\* The cursor of a page is taken back for the number it was made of, at every
\* length of its decimal, by the relay that made it.
CursorReadsBack ==
    decimal # <<>> =>
        LET token == EncodeCursor(decimal)
            n     == Decimal([i \in DOMAIN decimal |-> ByteOf(decimal[i])])
        IN  /\ InAlphabet(token)
            /\ DecodeCursor(token) = n
            /\ FromCursor(token) = n
=============================================================================
