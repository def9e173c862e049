----------------------------- MODULE MCEncodings -----------------------------
(* An instance of the conversions for TLC. *)
EXTENDS Encodings

\* Names whose order by code points (and so by UTF-8 bytes) differs from that
\* by UTF-16 units: U+FF01, U+1F600, and U+1F600 with a letter behind it.
ThreeNames == {<<65281>>, <<128512>>, <<128512, 97>>}

\* Raw: a letter, a quote cannot be, a control character, a noncharacter in
\* the first and in a later plane, an astral character.  Escaped: the quote;
\* a letter, a control character with and without a short escape, a
\* noncharacter, both halves of a pair, and the halves of U+1FFFF.
SomeElements ==
    [k : {"raw"}, c : {97, 31, 65535, 131070, 128512}]
        \cup [k : {"esc"}, c : {34}]
        \cup [k : {"u"}, c : {97, 1, 10, 64976, 55357, 56832, 55359, 57343}]
        \cup [k : {"bad"}, c : {0}]
=============================================================================
