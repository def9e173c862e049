------------------------------- MODULE JsonText -------------------------------
(***************************************************************************)
(* A text is read by the parsers of module JsonParsers, and what they      *)
(* accept is brought to canonical form by the canonicalisers of module     *)
(* Jcs, one iteration of their loops at a time.  This is how an id is      *)
(* computed, and what the durable relay stores of an envelope              *)
(* (server.py:225).                                                        *)
(***************************************************************************)
EXTENDS Jcs

VARIABLES
    stage,  \* "reading", then "py" and "go" while it is canonicalised, "done"
    jpy,    \* canonicalize of jcs.py
    jgo     \* Canonicalize of jcs.go

textVars == <<input, py, go, stage, jpy, jgo>>

NotStarted == [stack |-> <<>>, out |-> <<>>]

TextInit == Init /\ stage = "reading" /\ jpy = NotStarted /\ jgo = NotStarted

ReadToken(t) == stage = "reading" /\ Read(t) /\ UNCHANGED <<stage, jpy, jgo>>

StartJcs ==
    /\ stage = "reading" /\ py.phase = "accepted" /\ go.status = "accepted"
    /\ stage' = "py" /\ jpy' = PyJcsStart(py.value) /\ jgo' = GoJcsStart
    /\ UNCHANGED vars

PyCanonicalize ==
    /\ stage = "py"
    /\ jpy' = PyJcsStep(jpy)
    /\ stage' = IF jpy'.stack = <<>> THEN "go" ELSE "py"
    /\ UNCHANGED <<input, py, go, jgo>>

GoCanonicalize ==
    /\ stage = "go"
    /\ jgo' = GoJcsStep(go.heap, jgo)
    /\ stage' = IF jgo'.stack = <<>> THEN "done" ELSE "go"
    /\ UNCHANGED <<input, py, go, jpy>>

TextNext ==
    \/ \E t \in Tokens : ReadToken(t)
    \/ StartJcs \/ PyCanonicalize \/ GoCanonicalize

TextSpec == TextInit /\ [][TextNext]_textVars

-----------------------------------------------------------------------------
\* The strings of a text.
NamesIn(text) == {text[i].text : i \in {x \in 1..Len(text) : text[x].kind = "string"}}

\* The JSON grammar, read off the text without a stack.  The part from token i
\* to token j is a value, a list of elements, or a list of members of which r
\* are the names, all different, when the parts it is made of are among g.
ValueAt(text, g, i, j) ==
    \/ i = j /\ text[i].kind \in {"string", "scalar"}
    \/ /\ i < j /\ text[i].kind = "[" /\ text[j].kind = "]"
       /\ j = i + 1 \/ <<i + 1, j - 1>> \in g.lists
    \/ /\ i < j /\ text[i].kind = "{" /\ text[j].kind = "}"
       /\ j = i + 1 \/ \E r \in SUBSET NamesIn(text) : <<i + 1, j - 1, r>> \in g.members

ListAt(text, g, i, j) ==
    \/ <<i, j>> \in g.values
    \/ \E c \in (i + 1)..(j - 1) :
          text[c].kind = "," /\ <<i, c - 1>> \in g.lists /\ <<c + 1, j>> \in g.values

MemberAt(text, g, i, j) ==
    i + 2 <= j /\ text[i].kind = "string" /\ text[i + 1].kind = ":" /\ <<i + 2, j>> \in g.values

MembersAt(text, g, i, j, r) ==
    \/ MemberAt(text, g, i, j) /\ r = {text[i].text}
    \/ \E c \in (i + 1)..(j - 1) :
          /\ text[c].kind = "," /\ MemberAt(text, g, c + 1, j) /\ text[c + 1].text \in r
          /\ <<i, c - 1, r \ {text[c + 1].text}>> \in g.members

\* The parts that n applications of the rules derive.
NothingDerived == [values |-> {}, lists |-> {}, members |-> {}]
Parts(text, g) ==
    LET At == 1..Len(text)
    IN  [values  |-> {s \in At \X At : ValueAt(text, g, s[1], s[2])},
         lists   |-> {s \in At \X At : ListAt(text, g, s[1], s[2])},
         members |-> {s \in At \X At \X SUBSET NamesIn(text) :
                         MembersAt(text, g, s[1], s[2], s[3])}]
Derived(text) ==
    LET g[n \in Nat] == IF n = 0 THEN NothingDerived ELSE Parts(text, g[n - 1])
    IN  g

\* A value of n tokens takes no more than n applications.
IsJson(text) == text # <<>> /\ <<1, Len(text)>> \in Derived(text)[Len(text)].values

\* The text, without the mark of its end.
Text == IF Ended THEN Front(input) ELSE input

\* The parsers accept a whole text exactly when the grammar does and no object
\* has a name twice, so a text they reject at some token is not JSON however it
\* goes on; and both read the same value from what they accept.
ReadsExactlyJson ==
    /\ Ended => (py.phase = "accepted" <=> IsJson(Text))
    /\ SameValue

\* In every object of a text the names come in the order of their UTF-16 code
\* units: two names that follow each other at the same depth, with nothing
\* between them that closes the object.
MembersInOrder(o) ==
    LET opens(a, b)  == Cardinality({x \in a..b : o[x].kind \in {"{", "["}})
        closes(a, b) == Cardinality({x \in a..b : o[x].kind \in {"}", "]"}})
        IsName(i)    == i < Len(o) /\ o[i].kind = "string" /\ o[i + 1].kind = ":"
        units(i)     == FlattenSeq([x \in DOMAIN o[i].text |-> Utf16(o[i].text[x])])
    IN  \A i, j \in DOMAIN o :
            /\ i < j /\ IsName(i) /\ IsName(j) /\ opens(i, j) = closes(i, j)
            /\ \A x \in i..j : closes(i, x) <= opens(i, x)
            => LexLess(units(i), units(j))

\* Both canonicalisers write the same, the one from the value Python has, the
\* other from the members in the order of the text, and it is in the order
\* RFC 8785 asks for, by a definition that sorts nothing.
SameCanonicalText == stage = "done" => jpy.out = jgo.out /\ MembersInOrder(jpy.out)

\* The canonical form is a text of the same value, so that what a relay
\* stores and serves has the id of what it received, and canonicalising it
\* again changes nothing (server.py: "The canonical envelope preserves U, so it
\* revalidates to the same id").
Reread(text) == FoldLeft(PyStep, PyStart, Append(text, Tok("end")))
CanonicalReadsBack ==
    stage = "done" => LET p == Reread(jpy.out) IN p.phase = "accepted" /\ p.value = py.value
=============================================================================
