--------------------------------- MODULE Jcs ---------------------------------
(***************************************************************************)
(* The canonical form (RFC 8785) of a value: canonicalize of jcs.py (jcs   *)
(* of canon.ts is the same loop), which keeps markers and values on one    *)
(* stack, and Canonicalize of jcs.go, which keeps a frame with an index    *)
(* per open container.  Both sort member names by UTF-16 code units, which *)
(* is not the order of their code points.  The output is a sequence of the *)
(* tokens of module JsonParsers; how a name or a number is spelt is the    *)
(* subject of module JsonScalars.                                          *)
(***************************************************************************)
EXTENDS JsonParsers, SequencesExt

Tok(kind) == [kind |-> kind]

Surrogates(cp) == <<55296 + ((cp - 65536) \div 1024), 56320 + ((cp - 65536) % 1024)>>
Utf16(cp)      == IF cp < 65536 THEN <<cp>> ELSE Surrogates(cp)

LexLess(a, b) ==
    \E i \in 1..Len(b) : /\ i <= Len(a) + 1
                         /\ \A j \in 1..(i - 1) : a[j] = b[j]
                         /\ i <= Len(a) => a[i] < b[i]

-----------------------------------------------------------------------------
(* jcs.py *)

\* str.encode("utf-16-be"), compared as bytes.
Utf16be(s) ==
    FlattenSeq([i \in DOMAIN s |->
        FlattenSeq([j \in DOMAIN Utf16(s[i]) |-> <<Utf16(s[i])[j] \div 256, Utf16(s[i])[j] % 256>>])])

PySorted_ByCodePoint(names) == SetToSortSeq(names, LexLess)
PySorted(names)             == SetToSortSeq(names, LAMBDA a, b : LexLess(Utf16be(a), Utf16be(b)))

PyJcsStart(v) == [stack |-> <<v>>, out |-> <<>>]

\* What is pushed for a container, the last element first, so that it comes
\* off the stack in order; a comma goes before every element but the first.
PushElements_CommaFirst(els) == FlattenSeq([i \in DOMAIN els |-> <<Reverse(els)[i], Tok(",")>>])
PushElements(els) ==
    FlattenSeq([i \in DOMAIN els |->
        LET e == Reverse(els)[i] IN IF i < Len(els) THEN <<e, Tok(",")>> ELSE <<e>>])
PushMembers(names, members) ==
    FlattenSeq([i \in DOMAIN names |->
        LET n == Reverse(names)[i]
        IN  <<members[n], [kind |-> "k", text |-> n]>> \o (IF i < Len(names) THEN <<Tok(",")>> ELSE <<>>)])

PyJcsStep(j) ==
    LET item == Last(j.stack)
    IN  CASE item.kind = "array" ->
               [stack |-> Front(j.stack) \o <<Tok("]")>> \o PushElements(item.els),
                out   |-> Append(j.out, Tok("["))]
          [] item.kind = "object" ->
               [stack |-> Front(j.stack) \o <<Tok("}")>>
                              \o PushMembers(PySorted(DOMAIN item.members), item.members),
                out   |-> Append(j.out, Tok("{"))]
          [] item.kind = "k" ->
               [stack |-> Front(j.stack),
                out   |-> j.out \o <<[kind |-> "string", text |-> item.text], Tok(":")>>]
          [] OTHER -> [stack |-> Front(j.stack), out |-> Append(j.out, item)]

-----------------------------------------------------------------------------
(* jcs.go *)

\* utf16Less: character by character, unit by unit.
Utf16Less(a, b) ==
    \E i \in 1..Len(b) :
        /\ i <= Len(a) + 1
        /\ \A j \in 1..(i - 1) : a[j] = b[j]
        /\ i <= Len(a) => a[i] # b[i] /\ LexLess(Utf16(a[i]), Utf16(b[i]))

GoJcsFrame(node) == [v |-> node, opened |-> FALSE, members |-> <<>>, idx |-> 0]
GoJcsStart       == [stack |-> <<GoJcsFrame(1)>>, out |-> <<>>]

\* Open the container on first sight of the frame ...
GoOpened(f, node) ==
    IF f.opened THEN f
    ELSE [f EXCEPT !.opened = TRUE,
                   !.members = IF node.kind = "object"
                               THEN SortSeq(node.obj, LAMBDA a, b : Utf16Less(a.name, b.name))
                               ELSE [i \in DOMAIN node.arr |-> [val |-> node.arr[i]]]]

\* ... then go on to the next child, or close it.
GoContainer(j, node) ==
    LET f    == GoOpened(Top(j.stack), node)
        isO  == node.kind = "object"
        out1 == IF Top(j.stack).opened THEN j.out ELSE Append(j.out, Tok(IF isO THEN "{" ELSE "["))
        mem  == f.members[f.idx + 1]
    IN  IF f.idx < Len(f.members)
        THEN [stack |-> Append(WithTop(j.stack, [f EXCEPT !.idx = @ + 1]), GoJcsFrame(mem.val)),
              out   |-> out1 \o (IF f.idx > 0 THEN <<Tok(",")>> ELSE <<>>)
                             \o (IF isO THEN <<[kind |-> "string", text |-> mem.name], Tok(":")>> ELSE <<>>)]
        ELSE [stack |-> Rest(j.stack), out |-> Append(out1, Tok(IF isO THEN "}" ELSE "]"))]

GoJcsStep(heap, j) ==
    LET node == heap[Top(j.stack).v]
    IN  IF node.kind \in {"object", "array"} THEN GoContainer(j, node)
        ELSE [stack |-> Rest(j.stack), out |-> Append(j.out, node)]
=============================================================================
