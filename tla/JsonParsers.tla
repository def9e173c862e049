----------------------------- MODULE JsonParsers -----------------------------
(***************************************************************************)
(* How a received text becomes a value: parse_document of json_input.py    *)
(* (parseDocument of scan.ts has the same phases, frames and delivery) and *)
(* tokenize with buildValue of value.go, reading the same text token by    *)
(* token.                                                                  *)
(*                                                                         *)
(* They are built differently.  Python attaches a container to its parent  *)
(* when it is closed, and looks for a duplicate name when the value of the *)
(* member is delivered; Go attaches it when it is opened, through a        *)
(* pointer, and looks for a duplicate when it reads the name.  Go breaks   *)
(* the whole text into tokens first.                                       *)
(*                                                                         *)
(* A token has a kind: one of { } [ ] , : for itself, "string" and         *)
(* "scalar" for what a lexer returns (module JsonScalars has the lexers),  *)
(* "bad" for anything a lexer rejects, "end" for the end of the text.      *)
(*                                                                         *)
(* Op_What beside Op is Op with a plausible mistake, as in DurableRelay.   *)
(***************************************************************************)
EXTENDS Integers, Sequences

CONSTANTS
    Names,        \* strings, as sequences of code points
    Scalars,      \* numbers, true, false and null
    MaxTokens,    \* bound: tokens of a text
    MaxRejected,  \* bound: tokens of a text that both parsers have rejected
    NoKey         \* the None of a frame without a member name

ASSUME TextAssumption == MaxTokens \in Nat /\ MaxRejected \in Nat /\ NoKey \notin Names

Punctuation == {"{", "}", "[", "]", ",", ":"}
Tokens ==
    [kind : Punctuation \cup {"bad", "end"}]
        \cup [kind : {"string"}, text : Names] \cup [kind : {"scalar"}, val : Scalars]

EmptyObject == [kind |-> "object", members |-> [k \in {} |-> NoKey]]
EmptyArray  == [kind |-> "array", els |-> <<>>]

Top(stack)       == stack[Len(stack)]
Rest(stack)      == SubSeq(stack, 1, Len(stack) - 1)
WithTop(stack, f) == [stack EXCEPT ![Len(stack)] = f]

VARIABLES
    input,  \* the tokens read so far
    py,     \* the Python parser
    go      \* the Go parser

vars == <<input, py, go>>

-----------------------------------------------------------------------------
(* json_input.py.  A frame is [obj, members, key] or [arr, els]; obj_open    *)
(* and arr_open are the looks ahead behind a brace and a bracket, done is a  *)
(* complete document that only white space may follow.                       *)

PyStart == [phase |-> "value", stack |-> <<>>, value |-> EmptyArray]

PyFail(p) == [p EXCEPT !.phase = "rejected"]

ObjectFrame(k) == [obj |-> TRUE, members |-> [n \in {} |-> NoKey], key |-> k, els |-> <<>>]
ArrayFrame     == [obj |-> FALSE, members |-> [n \in {} |-> NoKey], key |-> NoKey, els |-> <<>>]

WithElement(f, v) == [f EXCEPT !.els = Append(f.els, v)]
WithMember(f, v) ==
    [f EXCEPT !.members = [n \in DOMAIN f.members \cup {f.key} |->
                              IF n = f.key THEN v ELSE f.members[n]]]

\* Deliver the completed value.
PyDeliver(p, v) ==
    IF p.stack = <<>> THEN [p EXCEPT !.phase = "done", !.value = v]
    ELSE IF ~Top(p.stack).obj
    THEN [p EXCEPT !.phase = "arr_next",
                   !.stack = WithTop(p.stack, WithElement(Top(p.stack), v))]
    ELSE IF Top(p.stack).key \in DOMAIN Top(p.stack).members THEN PyFail(p)
    ELSE [p EXCEPT !.phase = "obj_next", !.stack = WithTop(p.stack, WithMember(Top(p.stack), v))]

PyValue(p, t) ==
    CASE t.kind = "{" -> [p EXCEPT !.phase = "obj_open"]
      [] t.kind = "[" -> [p EXCEPT !.phase = "arr_open"]
      [] t.kind \in {"string", "scalar"} -> PyDeliver(p, t)
      [] OTHER -> PyFail(p)

PyObjOpen(p, t) ==
    CASE t.kind = "}" -> PyDeliver(p, EmptyObject)
      [] t.kind = "string" -> [p EXCEPT !.phase = "colon",
                                        !.stack = Append(p.stack, ObjectFrame(t.text))]
      [] OTHER -> PyFail(p)

PyArrOpen(p, t) ==
    IF t.kind = "]" THEN PyDeliver(p, EmptyArray)
    ELSE PyValue([p EXCEPT !.phase = "value", !.stack = Append(p.stack, ArrayFrame)], t)

PyKey(p, t) ==
    IF t.kind = "string"
    THEN [p EXCEPT !.phase = "colon",
                   !.stack = WithTop(p.stack, [Top(p.stack) EXCEPT !.key = t.text])]
    ELSE PyFail(p)

PyColon(p, t) == IF t.kind = ":" THEN [p EXCEPT !.phase = "value"] ELSE PyFail(p)

PyObjNext(p, t) ==
    CASE t.kind = "," -> [p EXCEPT !.phase = "key"]
      [] t.kind = "}" -> PyDeliver([p EXCEPT !.stack = Rest(p.stack)],
                                   [kind |-> "object", members |-> Top(p.stack).members])
      [] OTHER -> PyFail(p)

PyArrNext_NoComma(p, t) ==
    IF t.kind = "]"
    THEN PyDeliver([p EXCEPT !.stack = Rest(p.stack)], [kind |-> "array", els |-> Top(p.stack).els])
    ELSE PyFail(p)

PyArrNext(p, t) ==
    CASE t.kind = "," -> [p EXCEPT !.phase = "value"]
      [] t.kind = "]" -> PyDeliver([p EXCEPT !.stack = Rest(p.stack)],
                                   [kind |-> "array", els |-> Top(p.stack).els])
      [] OTHER -> PyFail(p)

PyDone(p, t) == IF t.kind = "end" THEN [p EXCEPT !.phase = "accepted"] ELSE PyFail(p)

PyStep(p, t) ==
    CASE p.phase = "value"    -> PyValue(p, t)
      [] p.phase = "obj_open" -> PyObjOpen(p, t)
      [] p.phase = "arr_open" -> PyArrOpen(p, t)
      [] p.phase = "key"      -> PyKey(p, t)
      [] p.phase = "colon"    -> PyColon(p, t)
      [] p.phase = "obj_next" -> PyObjNext(p, t)
      [] p.phase = "arr_next" -> PyArrNext(p, t)
      [] p.phase = "done"     -> PyDone(p, t)
      [] OTHER -> p

-----------------------------------------------------------------------------
(* value.go.  A Value is a node of the heap, its children are the numbers of *)
(* their nodes; a frame of the stack points to its node.                     *)

GoStart == [status |-> "reading", heap |-> <<>>, stack |-> <<>>, rootDone |-> FALSE]

GoFail(g) == [g EXCEPT !.status = "rejected"]

IsOpen(t)   == t.kind \in {"{", "["}
NewNode(t) ==
    CASE t.kind = "{" -> [kind |-> "object", obj |-> <<>>]
      [] t.kind = "[" -> [kind |-> "array", arr |-> <<>>]
      [] OTHER -> t

GoFrame(t, node) ==
    [isObj |-> t.kind = "{", val |-> node, keys |-> {}, pendKey |-> NoKey,
     ph |-> IF t.kind = "{" THEN "objKeyOrClose" ELSE "arrValOrClose"]

\* Append the value to the container of the top frame.
Attached(node, key, child) ==
    IF node.kind = "object" THEN [node EXCEPT !.obj = Append(@, [name |-> key, val |-> child])]
    ELSE [node EXCEPT !.arr = Append(@, child)]

GoAttach(g, t) ==
    LET f     == Top(g.stack)
        child == Len(g.heap) + 1
        done  == [f EXCEPT !.pendKey = NoKey,
                           !.ph = IF f.isObj THEN "objCommaOrClose" ELSE "arrCommaOrClose"]
        node  == Attached(g.heap[f.val], f.pendKey, child)
    IN  [g EXCEPT !.heap = Append([g.heap EXCEPT ![f.val] = node], NewNode(t)),
                  !.stack = IF IsOpen(t) THEN Append(WithTop(g.stack, done), GoFrame(t, child))
                            ELSE WithTop(g.stack, done)]

GoRoot(g, t) ==
    IF t.kind \notin {"{", "[", "string", "scalar"} THEN GoFail(g)
    ELSE [g EXCEPT !.heap = <<NewNode(t)>>,
                   !.stack = IF IsOpen(t) THEN Append(g.stack, GoFrame(t, 1)) ELSE g.stack,
                   !.rootDone = ~IsOpen(t)]

GoPop(g) == [g EXCEPT !.stack = Rest(g.stack), !.rootDone = Len(g.stack) = 1]

InPhase(g, ph) == [g EXCEPT !.stack = WithTop(g.stack, [Top(g.stack) EXCEPT !.ph = ph])]

GoName(g, t) ==
    LET f == Top(g.stack)
    IN  IF t.kind = "}" /\ f.ph = "objKeyOrClose" THEN GoPop(g)
        ELSE IF t.kind # "string" \/ t.text \in f.keys THEN GoFail(g)
        ELSE [g EXCEPT !.stack = WithTop(g.stack, [f EXCEPT !.keys = f.keys \cup {t.text},
                                                            !.pendKey = t.text, !.ph = "objColon"])]

GoElement(g, t) ==
    IF t.kind = "]" /\ Top(g.stack).ph = "arrValOrClose" THEN GoPop(g)
    ELSE IF t.kind \in {"{", "[", "string", "scalar"} THEN GoAttach(g, t)
    ELSE GoFail(g)

GoNext_TrailingComma(g, t, close, more) ==
    IF t.kind = ","
    THEN InPhase(g, IF more = "objKey" THEN "objKeyOrClose" ELSE "arrValOrClose")
    ELSE IF t.kind = close THEN GoPop(g)
    ELSE GoFail(g)

GoNext(g, t, close, more) ==
    IF t.kind = "," THEN InPhase(g, more)
    ELSE IF t.kind = close THEN GoPop(g)
    ELSE GoFail(g)

\* The body of the loop of buildValue.
GoBuild(g, t) ==
    IF g.rootDone THEN GoFail(g)
    ELSE IF g.stack = <<>> THEN GoRoot(g, t)
    ELSE LET ph == Top(g.stack).ph
         IN  CASE ph \in {"objKeyOrClose", "objKey"} -> GoName(g, t)
               [] ph = "objColon" ->
                    IF t.kind = ":" THEN InPhase(g, "objValue") ELSE GoFail(g)
               [] ph = "objValue" ->
                    IF t.kind \in {"{", "[", "string", "scalar"} THEN GoAttach(g, t) ELSE GoFail(g)
               [] ph = "objCommaOrClose" -> GoNext(g, t, "}", "objKey")
               [] ph \in {"arrValOrClose", "arrVal"} -> GoElement(g, t)
               [] OTHER -> GoNext(g, t, "]", "arrVal")

GoEnd(g) ==
    IF g.stack # <<>> \/ ~g.rootDone THEN GoFail(g) ELSE [g EXCEPT !.status = "accepted"]

GoStep(g, t) ==
    IF g.status # "reading" THEN g
    ELSE IF t.kind = "bad" THEN GoFail(g)
    ELSE IF t.kind = "end" THEN GoEnd(g)
    ELSE GoBuild(g, t)

-----------------------------------------------------------------------------
Init == input = <<>> /\ py = PyStart /\ go = GoStart

Ended    == input # <<>> /\ input[Len(input)].kind = "end"
Rejected == py.phase = "rejected" /\ go.status = "rejected"

\* The text has one more token.  Nothing is read behind its end.  A text goes
\* on behind the token at which the parsers reject it, so that every text is
\* seen whole.
Read(t) ==
    /\ ~Ended
    /\ Len(input) < (IF Rejected THEN MaxRejected ELSE MaxTokens) \/ t.kind = "end"
    /\ input' = Append(input, t)
    /\ py' = PyStep(py, t)
    /\ go' = GoStep(go, t)

Next == \E t \in Tokens : Read(t)

Spec == Init /\ [][Next]_vars

-----------------------------------------------------------------------------
\* The value a Go document stands for: its nodes read through the pointers,
\* the members of an object by name.
GoValue ==
    LET child[i \in 1..Len(go.heap)] ==
            LET node == go.heap[i]
            IN  CASE node.kind = "object" ->
                       [kind |-> "object",
                        members |-> [n \in {node.obj[j].name : j \in DOMAIN node.obj} |->
                            child[node.obj[CHOOSE j \in DOMAIN node.obj : node.obj[j].name = n].val]]]
                  [] node.kind = "array" ->
                       [kind |-> "array", els |-> [j \in DOMAIN node.arr |-> child[node.arr[j]]]]
                  [] OTHER -> node
    IN  child[1]

\* Where a name is a duplicate, Go has rejected the text at the name, Python
\* will when the value of the member is complete.
Pending(p, i) == i < Len(p.stack) \/ p.phase \in {"colon", "value", "obj_open", "arr_open"}
Doomed(p) ==
    \E i \in 1..Len(p.stack) :
        p.stack[i].obj /\ Pending(p, i) /\ p.stack[i].key \in DOMAIN p.stack[i].members

\* Both parsers accept the same texts, whatever the nesting, although they
\* look for duplicates at different times: one that has been rejected by one
\* of them is never accepted by the other.
AgreeOnDocuments ==
    /\ py.phase = "accepted" <=> go.status = "accepted"
    /\ go.status = "rejected" => py.phase = "rejected" \/ Doomed(py)
    /\ py.phase = "rejected" => go.status = "rejected"

\* And they read the same value from them: the tree Go builds through
\* pointers from the root down is the one Python builds from the leaves up.
SameValue == py.phase = "accepted" /\ go.status = "accepted" => GoValue = py.value
=============================================================================
