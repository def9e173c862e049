--------------------------- MODULE EncodingsProofs ---------------------------
(***************************************************************************)
(* Proofs about the parsers of JsonParsers and JsonText, the order of      *)
(* names of Jcs and the cursors of Cursor.                                 *)
(*                                                                         *)
(* The parsers accept the same texts, of any length and nesting.  The      *)
(* inductive invariant relates the two stacks: as long as Go has not       *)
(* rejected the text, the frames of both are of the same kinds, the names  *)
(* Go has noted are those Python has delivered and the one it is reading   *)
(* the value of, and the phase of Go's top frame is the phase of Python.   *)
(* Once Go has met a duplicate name, a frame of Python waits for a value   *)
(* it will not be able to take (Doomed), and no token brings that frame to *)
(* its end.  They read the same value (TreeInv): the heap of Go is a tree, *)
(* and a frame of Python has the values of the complete children of the    *)
(* node that Go's frame points to.                                         *)
(*                                                                         *)
(* What they accept is what the grammar derives.  Every part that is       *)
(* derived is read into the frame that waits for it (ReadsAll), and every  *)
(* frame has a place where its content begins, from which what was read    *)
(* since is derived (Reached).                                             *)
(*                                                                         *)
(* Member names are in the same order for both canonicalisers: where two   *)
(* names differ first, their bytes do, and in the same sense (CharOrder,   *)
(* LessBehind).                                                            *)
(*                                                                         *)
(* A cursor of any length reads back as the number it was made of: groups  *)
(* of three bytes and of four characters are the same number of 24 bits,   *)
(* and the padding is what the length leaves open.                         *)
(***************************************************************************)
EXTENDS JsonText, Cursor, SequenceTheorems, WellFoundedInduction, TLAPS

IsStack(s) == \E S : s \in Seq(S)

\* A push, a pop and a change of the top leave the other frames alone.
LEMMA Pushed ==
    ASSUME NEW s, NEW f, IsStack(s)
    PROVE  /\ IsStack(Append(s, f)) /\ Len(s) \in Nat
           /\ Len(Append(s, f)) = Len(s) + 1 /\ Append(s, f)[Len(s) + 1] = f
           /\ \A i \in 1..Len(s) : Append(s, f)[i] = s[i]
  <1>1. PICK S : s \in Seq(S)  BY DEF IsStack
  <1>2. s \in Seq(S \cup {f}) /\ f \in S \cup {f}  BY <1>1
  <1>3. Append(s, f) \in Seq(S \cup {f})  BY <1>2
  <1>4. QED  BY <1>2, <1>3 DEF IsStack

LEMMA Popped ==
    ASSUME NEW s, IsStack(s), s # <<>>
    PROVE  /\ IsStack(Rest(s)) /\ Len(s) \in Nat \ {0} /\ Len(Rest(s)) = Len(s) - 1
           /\ \A i \in 1..(Len(s) - 1) : Rest(s)[i] = s[i]
  <1>1. PICK S : s \in Seq(S)  BY DEF IsStack
  <1>2. Len(s) \in Nat \ {0} /\ \A i \in 1..(Len(s) - 1) : s[i] \in S  BY <1>1
  <1> DEFINE n == Len(s) - 1
  <1>3. n \in Int /\ 1 \in Int  BY <1>2
  <1>4. /\ Rest(s) \in Seq(S)
        /\ Len(Rest(s)) = IF 1 <= n THEN n - 1 + 1 ELSE 0
        /\ \A i \in 1..(n - 1 + 1) : Rest(s)[i] = s[1 + i - 1]
    <2>1. Rest(s) = SubSeq(s, 1, n)  BY DEF Rest
    <2>2. \A i \in 1..n : s[i] \in S  BY <1>2
    <2> HIDE DEF n
    <2>3. QED  BY <1>3, <2>1, <2>2, SubSeqProperties
  <1>5. Len(Rest(s)) = Len(s) - 1 /\ \A i \in 1..(Len(s) - 1) : Rest(s)[i] = s[i]
    <2>1. n \in Nat /\ n = Len(s) - 1 /\ n - 1 + 1 = n  BY <1>2
    <2> HIDE DEF n
    <2>2. Len(Rest(s)) = n  BY <1>4, <2>1
    <2>3. ASSUME NEW i \in 1..n  PROVE Rest(s)[i] = s[i]
      <3>1. 1 + i - 1 = i  OBVIOUS
      <3>2. Rest(s)[i] = s[1 + i - 1]  BY <1>4, <2>1
      <3>3. QED  BY <3>1, <3>2
    <2>4. QED  BY <2>1, <2>2, <2>3
  <1>6. QED  BY <1>2, <1>4, <1>5 DEF IsStack

LEMMA Changed ==
    ASSUME NEW s, NEW f, IsStack(s), s # <<>>
    PROVE  /\ IsStack(WithTop(s, f)) /\ Len(s) \in Nat \ {0} /\ Len(WithTop(s, f)) = Len(s)
           /\ WithTop(s, f)[Len(s)] = f
           /\ \A i \in 1..Len(s) : i # Len(s) => WithTop(s, f)[i] = s[i]
  <1>1. PICK S : s \in Seq(S)  BY DEF IsStack
  <1>2. s \in Seq(S \cup {f}) /\ Len(s) \in Nat \ {0}  BY <1>1
  <1>3. WithTop(s, f) \in Seq(S \cup {f})  BY <1>2 DEF WithTop
  <1>4. QED  BY <1>2, <1>3 DEF IsStack, WithTop

LEMMA Bottom ==
    ASSUME NEW s, IsStack(s)
    PROVE  Len(s) \in Nat /\ (s = <<>> <=> Len(s) = 0)
  BY DEF IsStack

-----------------------------------------------------------------------------
(* The parsers' states, as far as the proof needs them. *)

Phases == {"value", "obj_open", "arr_open", "key", "colon", "obj_next", "arr_next",
           "done", "accepted", "rejected"}

IsFrame(f) ==
    DOMAIN f = {"obj", "members", "key", "els"} /\ f.obj \in BOOLEAN

IsPyState(p) ==
    /\ DOMAIN p = {"phase", "stack", "value"}
    /\ IsStack(p.stack) /\ \A i \in 1..Len(p.stack) : IsFrame(p.stack[i])

IsPy(p) ==
    /\ IsPyState(p) /\ p.phase \in Phases
    /\ p.phase \in {"key", "colon", "obj_next"} => p.stack # <<>> /\ Top(p.stack).obj
    /\ p.phase = "arr_next" => p.stack # <<>> /\ ~Top(p.stack).obj
    /\ p.phase \in {"done", "accepted"} => p.stack = <<>>

IsGoFrame(f) ==
    /\ DOMAIN f = {"isObj", "val", "keys", "pendKey", "ph"}
    /\ f.isObj \in BOOLEAN

IsGo(g) ==
    /\ DOMAIN g = {"status", "heap", "stack", "rootDone"}
    /\ g.status \in {"reading", "accepted", "rejected"} /\ g.rootDone \in BOOLEAN
    /\ IsStack(g.stack) /\ \A i \in 1..Len(g.stack) : IsGoFrame(g.stack[i])

Between(f) == IF f.isObj THEN "objCommaOrClose" ELSE "arrCommaOrClose"

\* The frames of both parsers while a value is expected in the top one.
WaitingFrame(f, gf) ==
    /\ gf.isObj = f.obj
    /\ f.obj => gf.keys = DOMAIN f.members \cup {f.key} /\ f.key \notin DOMAIN f.members
Waiting(p, g) ==
    /\ Len(g.stack) = Len(p.stack)
    /\ \A i \in 1..Len(p.stack) : WaitingFrame(p.stack[i], g.stack[i])

\* The same, between values.
SettledFrame(f, gf) == gf.isObj = f.obj /\ (f.obj => gf.keys = DOMAIN f.members)
Settled(p, g) ==
    /\ Len(g.stack) = Len(p.stack) /\ p.stack # <<>>
    /\ \A i \in 1..(Len(p.stack) - 1) : WaitingFrame(p.stack[i], g.stack[i])
    /\ SettledFrame(Top(p.stack), Top(g.stack))

JoinedTo(g, n) == \A i \in 1..n : g.stack[i].ph = Between(g.stack[i])

\* While Go is building, its stack mirrors Python's.
Mirror(p, g) ==
    CASE p.phase = "value" ->
           /\ Waiting(p, g) /\ JoinedTo(g, Len(g.stack) - 1) /\ ~g.rootDone
           /\ p.stack # <<>> => Top(g.stack).ph = IF Top(p.stack).obj THEN "objValue" ELSE "arrVal"
      [] p.phase = "colon" ->
           /\ Waiting(p, g) /\ JoinedTo(g, Len(g.stack) - 1) /\ ~g.rootDone
           /\ Top(g.stack).ph = "objColon"
      [] p.phase \in {"obj_open", "arr_open"} ->
           /\ Len(g.stack) = Len(p.stack) + 1 /\ ~g.rootDone
           /\ \A i \in 1..Len(p.stack) : WaitingFrame(p.stack[i], g.stack[i])
           /\ JoinedTo(g, Len(p.stack))
           /\ Top(g.stack).keys = {} /\ Top(g.stack).isObj = (p.phase = "obj_open")
           /\ Top(g.stack).ph = IF p.phase = "obj_open" THEN "objKeyOrClose" ELSE "arrValOrClose"
      [] p.phase = "key" ->
           /\ Settled(p, g) /\ JoinedTo(g, Len(g.stack) - 1) /\ ~g.rootDone
           /\ Top(g.stack).ph = "objKey"
      [] p.phase \in {"obj_next", "arr_next"} ->
           Settled(p, g) /\ JoinedTo(g, Len(g.stack)) /\ ~g.rootDone
      [] p.phase = "done" -> g.stack = <<>> /\ g.rootDone
      [] OTHER -> FALSE

ParserInv(p, g) ==
    /\ IsPy(p) /\ IsGo(g)
    /\ g.status = "reading" => Mirror(p, g)
    /\ g.status = "accepted" => p.phase = "accepted"
    /\ g.status = "rejected" => p.phase = "rejected" \/ Doomed(p)

-----------------------------------------------------------------------------
\* What a delivery does to the Python parser.
LEMMA Delivered ==
    ASSUME NEW p, NEW v, IsPyState(p)
    PROVE  /\ IsPy(PyDeliver(p, v))
           /\ p.stack = <<>> => PyDeliver(p, v).phase = "done"
           /\ p.stack # <<>> =>
                /\ Top(p.stack).obj /\ Top(p.stack).key \in DOMAIN Top(p.stack).members
                     => PyDeliver(p, v).phase = "rejected"
                /\ ~(Top(p.stack).obj /\ Top(p.stack).key \in DOMAIN Top(p.stack).members) =>
                     /\ PyDeliver(p, v).phase = IF Top(p.stack).obj THEN "obj_next" ELSE "arr_next"
                     /\ Len(PyDeliver(p, v).stack) = Len(p.stack)
                     /\ \A i \in 1..(Len(p.stack) - 1) : PyDeliver(p, v).stack[i] = p.stack[i]
                     /\ Top(PyDeliver(p, v).stack).obj = Top(p.stack).obj
                     /\ Top(p.stack).obj =>
                          DOMAIN Top(PyDeliver(p, v).stack).members
                              = DOMAIN Top(p.stack).members \cup {Top(p.stack).key}
  <1>0. IsStack(p.stack) /\ Len(p.stack) \in Nat /\ (p.stack = <<>> <=> Len(p.stack) = 0)
    BY Bottom DEF IsPyState
  <1>1. CASE p.stack = <<>>
    BY <1>0, <1>1 DEF PyDeliver, IsPy, IsPyState, Phases
  <1>2. CASE p.stack # <<>> /\ Top(p.stack).obj /\ Top(p.stack).key \in DOMAIN Top(p.stack).members
    BY <1>2 DEF PyDeliver, PyFail, IsPy, IsPyState, Phases
  <1>3. CASE p.stack # <<>> /\ ~Top(p.stack).obj
    <2> DEFINE f == WithElement(Top(p.stack), v)
               q == [p EXCEPT !.phase = "arr_next", !.stack = WithTop(p.stack, f)]
    <2>1. PyDeliver(p, v) = q  BY <1>3 DEF PyDeliver
    <2>2. IsFrame(Top(p.stack))  BY <1>0, <1>3 DEF IsPyState, Top
    <2>3. IsFrame(f) /\ f.obj = Top(p.stack).obj  BY <2>2 DEF IsFrame, WithElement
    <2> HIDE DEF f
    <2>4. DOMAIN q = {"phase", "stack", "value"} /\ q.phase = "arr_next" /\ q.stack = WithTop(p.stack, f)
      BY DEF IsPyState
    <2> HIDE DEF q
    <2>5. /\ IsStack(q.stack) /\ Len(q.stack) = Len(p.stack) /\ Top(q.stack) = f /\ q.stack # <<>>
          /\ \A i \in 1..(Len(p.stack) - 1) : q.stack[i] = p.stack[i]
      BY <1>0, <1>3, <2>4, Changed, Bottom DEF Top
    <2>6. \A i \in 1..Len(q.stack) : IsFrame(q.stack[i])
      BY <1>0, <2>3, <2>5 DEF IsPyState, Top
    <2>7. IsPy(q)  BY <1>3, <2>3, <2>4, <2>5, <2>6 DEF IsPy, IsPyState, Phases
    <2>8. QED  BY <1>3, <2>1, <2>3, <2>4, <2>5, <2>7
  <1>4. CASE p.stack # <<>> /\ Top(p.stack).obj /\ Top(p.stack).key \notin DOMAIN Top(p.stack).members
    <2> DEFINE f == WithMember(Top(p.stack), v)
               q == [p EXCEPT !.phase = "obj_next", !.stack = WithTop(p.stack, f)]
    <2>1. PyDeliver(p, v) = q  BY <1>4 DEF PyDeliver
    <2>2. IsFrame(Top(p.stack))  BY <1>0, <1>4 DEF IsPyState, Top
    <2>3. /\ IsFrame(f) /\ f.obj = Top(p.stack).obj
          /\ DOMAIN f.members = DOMAIN Top(p.stack).members \cup {Top(p.stack).key}
      BY <2>2 DEF IsFrame, WithMember
    <2> HIDE DEF f
    <2>4. DOMAIN q = {"phase", "stack", "value"} /\ q.phase = "obj_next" /\ q.stack = WithTop(p.stack, f)
      BY DEF IsPyState
    <2> HIDE DEF q
    <2>5. /\ IsStack(q.stack) /\ Len(q.stack) = Len(p.stack) /\ Top(q.stack) = f /\ q.stack # <<>>
          /\ \A i \in 1..(Len(p.stack) - 1) : q.stack[i] = p.stack[i]
      BY <1>0, <1>4, <2>4, Changed, Bottom DEF Top
    <2>6. \A i \in 1..Len(q.stack) : IsFrame(q.stack[i])
      BY <1>0, <2>3, <2>5 DEF IsPyState, Top
    <2>7. IsPy(q)  BY <1>4, <2>3, <2>4, <2>5, <2>6 DEF IsPy, IsPyState, Phases
    <2>8. QED  BY <1>4, <2>1, <2>3, <2>4, <2>5, <2>7
  <1>5. QED  BY <1>1, <1>2, <1>3, <1>4

-----------------------------------------------------------------------------
(* Python's side alone: the shape of its state, and a doomed frame. *)

Blocked(f) == f.obj /\ f.key \in DOMAIN f.members

LEMMA BlockedDelivery ==
    ASSUME NEW p, NEW v, IsPyState(p), NEW i \in 1..Len(p.stack), Blocked(p.stack[i])
    PROVE  PyDeliver(p, v).phase = "rejected" \/ Doomed(PyDeliver(p, v))
  <1>1. Len(p.stack) \in Nat /\ p.stack # <<>>  BY Bottom DEF IsPyState
  <1>2. CASE Blocked(Top(p.stack))
    BY <1>1, <1>2, Delivered DEF Blocked
  <1>3. CASE ~Blocked(Top(p.stack))
    <2>1. i # Len(p.stack) /\ i \in 1..(Len(p.stack) - 1)  BY <1>1, <1>3 DEF Top
    <2>2. /\ PyDeliver(p, v).stack[i] = p.stack[i] /\ Len(PyDeliver(p, v).stack) = Len(p.stack)
      BY <1>1, <1>3, <2>1, Delivered DEF Blocked
    <2>3. QED  BY <1>1, <2>1, <2>2 DEF Doomed, Pending, Blocked
  <1>4. QED  BY <1>2, <1>3

\* A change of phase, a push, a change of the top frame and a pop.
PyTo(p, ph)        == [p EXCEPT !.phase = ph]
PyPush(p, ph, f)   == [p EXCEPT !.phase = ph, !.stack = Append(p.stack, f)]
PyChange(p, ph, f) == [p EXCEPT !.phase = ph, !.stack = WithTop(p.stack, f)]
PyPop(p)           == [p EXCEPT !.stack = Rest(p.stack)]

LEMMA PhaseChanged ==
    ASSUME NEW p, NEW ph, IsPyState(p)
    PROVE  /\ IsPyState(PyTo(p, ph)) /\ PyTo(p, ph).phase = ph
           /\ PyTo(p, ph).stack = p.stack
  BY DEF IsPyState, PyTo

LEMMA FramePushed ==
    ASSUME NEW p, NEW ph, NEW f, IsPyState(p), IsFrame(f)
    PROVE  LET q == PyPush(p, ph, f)
           IN  /\ IsPyState(q) /\ q.phase = ph /\ q.stack # <<>>
               /\ Len(q.stack) = Len(p.stack) + 1 /\ Top(q.stack) = f
               /\ \A i \in 1..Len(p.stack) : q.stack[i] = p.stack[i]
  <1> DEFINE q == PyPush(p, ph, f)
  <1>1. DOMAIN q = {"phase", "stack", "value"} /\ q.phase = ph /\ q.stack = Append(p.stack, f)
    BY DEF IsPyState, PyPush
  <1> HIDE DEF q
  <1>2. IsStack(p.stack)  BY DEF IsPyState
  <1>3. /\ IsStack(q.stack) /\ Len(p.stack) \in Nat /\ Len(q.stack) = Len(p.stack) + 1
        /\ q.stack[Len(p.stack) + 1] = f /\ \A i \in 1..Len(p.stack) : q.stack[i] = p.stack[i]
    BY <1>1, <1>2, Pushed
  <1>4. \A i \in 1..Len(q.stack) : IsFrame(q.stack[i])  BY <1>3 DEF IsPyState
  <1>5. q.stack # <<>>  BY <1>3, Bottom
  <1>6. QED  BY <1>1, <1>3, <1>4, <1>5 DEF IsPyState, Top, q

LEMMA FrameChanged ==
    ASSUME NEW p, NEW ph, NEW f, IsPyState(p), IsFrame(f), p.stack # <<>>
    PROVE  LET q == PyChange(p, ph, f)
           IN  /\ IsPyState(q) /\ q.phase = ph /\ q.stack # <<>>
               /\ Len(q.stack) = Len(p.stack) /\ Top(q.stack) = f
               /\ \A i \in 1..(Len(p.stack) - 1) : q.stack[i] = p.stack[i]
  <1> DEFINE q == PyChange(p, ph, f)
  <1>1. DOMAIN q = {"phase", "stack", "value"} /\ q.phase = ph /\ q.stack = WithTop(p.stack, f)
    BY DEF IsPyState, PyChange
  <1> HIDE DEF q
  <1>2. IsStack(p.stack)  BY DEF IsPyState
  <1>3. /\ IsStack(q.stack) /\ Len(p.stack) \in Nat \ {0} /\ Len(q.stack) = Len(p.stack)
        /\ q.stack[Len(p.stack)] = f /\ \A i \in 1..Len(p.stack) : i # Len(p.stack) => q.stack[i] = p.stack[i]
    BY <1>1, <1>2, Changed
  <1>4. \A i \in 1..Len(q.stack) : IsFrame(q.stack[i])  BY <1>3 DEF IsPyState
  <1>5. q.stack # <<>>  BY <1>3, Bottom
  <1>6. QED  BY <1>1, <1>3, <1>4, <1>5 DEF IsPyState, Top, q

LEMMA FramePopped ==
    ASSUME NEW p, IsPyState(p), p.stack # <<>>
    PROVE  LET q == PyPop(p)
           IN  /\ IsPyState(q) /\ Len(p.stack) \in Nat \ {0} /\ Len(q.stack) = Len(p.stack) - 1
               /\ \A i \in 1..(Len(p.stack) - 1) : q.stack[i] = p.stack[i]
  <1> DEFINE q == PyPop(p)
  <1>1. DOMAIN q = {"phase", "stack", "value"} /\ q.stack = Rest(p.stack)  BY DEF IsPyState, PyPop
  <1> HIDE DEF q
  <1>2. IsStack(p.stack)  BY DEF IsPyState
  <1>3. /\ IsStack(q.stack) /\ Len(p.stack) \in Nat \ {0} /\ Len(q.stack) = Len(p.stack) - 1
        /\ \A i \in 1..(Len(p.stack) - 1) : q.stack[i] = p.stack[i]
    BY <1>1, <1>2, Popped
  <1>4. \A i \in 1..Len(q.stack) : IsFrame(q.stack[i])  BY <1>3 DEF IsPyState
  <1>5. QED  BY <1>1, <1>3, <1>4 DEF IsPyState, q

LEMMA NewFrames ==
    /\ \A k : IsFrame(ObjectFrame(k)) /\ ObjectFrame(k).obj /\ ObjectFrame(k).key = k
                /\ DOMAIN ObjectFrame(k).members = {}
    /\ IsFrame(ArrayFrame) /\ ~ArrayFrame.obj
  BY DEF IsFrame, ObjectFrame, ArrayFrame

\* A value that starts, or is delivered.
LEMMA PyValueShape ==
    ASSUME NEW p, NEW t, IsPyState(p), p.phase = "value"
    PROVE  /\ IsPy(PyValue(p, t))
           /\ (\E i \in 1..Len(p.stack) : Blocked(p.stack[i]))
                => PyValue(p, t).phase = "rejected" \/ Doomed(PyValue(p, t))
  <1>1. CASE t.kind \in {"{", "["}
    <2> DEFINE ph == IF t.kind = "{" THEN "obj_open" ELSE "arr_open"
    <2>1. PyValue(p, t) = PyTo(p, ph) /\ ph \in {"obj_open", "arr_open"}
      BY <1>1 DEF PyValue, PyTo
    <2> HIDE DEF ph
    <2>2. IsPyState(PyValue(p, t)) /\ PyValue(p, t).phase = ph /\ PyValue(p, t).stack = p.stack
      BY <2>1, PhaseChanged
    <2>3. QED  BY <2>1, <2>2 DEF IsPy, Phases, Doomed, Pending, Blocked
  <1>2. CASE t.kind \in {"string", "scalar"}
    BY <1>2, Delivered, BlockedDelivery DEF PyValue
  <1>3. CASE t.kind \notin {"{", "[", "string", "scalar"}
    <2>1. PyValue(p, t) = PyTo(p, "rejected")  BY <1>3 DEF PyValue, PyFail, PyTo
    <2>2. QED  BY <2>1, PhaseChanged DEF IsPy, Phases
  <1>4. QED  BY <1>1, <1>2, <1>3

LEMMA PyFailShape ==
    ASSUME NEW p, IsPyState(p)
    PROVE  IsPy(PyFail(p)) /\ PyFail(p).phase = "rejected"
  <1>1. PyFail(p) = PyTo(p, "rejected")  BY DEF PyFail, PyTo
  <1>2. QED  BY <1>1, PhaseChanged DEF IsPy, Phases

LEMMA PyStepShape ==
    ASSUME NEW p, NEW t, IsPy(p)
    PROVE  /\ IsPy(PyStep(p, t))
           /\ Doomed(p) => PyStep(p, t).phase = "rejected" \/ Doomed(PyStep(p, t))
           /\ p.phase = "rejected" => PyStep(p, t).phase = "rejected"
  <1> DEFINE q == PyStep(p, t)
  <1>0. IsPyState(p) /\ IsStack(p.stack) /\ Len(p.stack) \in Nat /\ (p.stack = <<>> <=> Len(p.stack) = 0)
    BY Bottom DEF IsPy, IsPyState
  <1>1. CASE p.phase = "value"
    BY <1>0, <1>1, PyValueShape DEF PyStep, Doomed, Blocked
  <1>2. CASE p.phase = "obj_open"
    <2>1. q = PyObjOpen(p, t)  BY <1>2 DEF PyStep
    <2>2. CASE t.kind = "}"
      <3>1. q = PyDeliver(p, EmptyObject)  BY <2>1, <2>2 DEF PyObjOpen
      <3>2. QED  BY <1>0, <1>2, <3>1, Delivered, BlockedDelivery DEF Doomed, Blocked
    <2>3. CASE t.kind = "string"
      <3> DEFINE f == ObjectFrame(t.text)
      <3>1. q = PyPush(p, "colon", f)  BY <2>1, <2>3 DEF PyObjOpen, PyPush
      <3>2. IsFrame(f) /\ f.obj  BY NewFrames
      <3> HIDE DEF f, q
      <3>3. /\ IsPyState(q) /\ q.phase = "colon" /\ q.stack # <<>>
            /\ Len(q.stack) = Len(p.stack) + 1 /\ Top(q.stack) = f
            /\ \A i \in 1..Len(p.stack) : q.stack[i] = p.stack[i]
        BY <1>0, <3>1, <3>2, FramePushed
      <3>4. IsPy(q)  BY <3>2, <3>3 DEF IsPy, Phases
      <3>5. Doomed(p) => Doomed(q)  BY <1>0, <3>3 DEF Doomed, Pending
      <3>6. QED  BY <1>2, <3>4, <3>5 DEF q
    <2>4. CASE t.kind \notin {"}", "string"}
      <3>1. q = PyFail(p)  BY <2>1, <2>4 DEF PyObjOpen
      <3>2. QED  BY <1>0, <3>1, PyFailShape
    <2>5. QED  BY <2>2, <2>3, <2>4
  <1>3. CASE p.phase = "arr_open"
    <2>1. q = PyArrOpen(p, t)  BY <1>3 DEF PyStep
    <2>2. CASE t.kind = "]"
      <3>1. q = PyDeliver(p, EmptyArray)  BY <2>1, <2>2 DEF PyArrOpen
      <3>2. QED  BY <1>0, <1>3, <3>1, Delivered, BlockedDelivery DEF Doomed, Blocked
    <2>3. CASE t.kind # "]"
      <3> DEFINE r == PyPush(p, "value", ArrayFrame)
      <3>1. q = PyValue(r, t)  BY <2>1, <2>3 DEF PyArrOpen, PyPush
      <3>2. /\ IsPyState(r) /\ r.phase = "value" /\ Len(r.stack) = Len(p.stack) + 1
            /\ \A i \in 1..Len(p.stack) : r.stack[i] = p.stack[i]
        BY <1>0, NewFrames, FramePushed
      <3> HIDE DEF r
      <3>3. Doomed(p) => \E i \in 1..Len(r.stack) : Blocked(r.stack[i])
        BY <1>0, <3>2 DEF Doomed, Blocked
      <3>4. QED  BY <1>3, <3>1, <3>2, <3>3, PyValueShape
    <2>4. QED  BY <2>2, <2>3
  <1>4. CASE p.phase = "key"
    <2>1. q = PyKey(p, t) /\ p.stack # <<>> /\ Top(p.stack).obj  BY <1>4 DEF PyStep, IsPy
    <2>2. CASE t.kind = "string"
      <3> DEFINE f == [Top(p.stack) EXCEPT !.key = t.text]
      <3>1. q = PyChange(p, "colon", f)  BY <2>1, <2>2 DEF PyKey, PyChange
      <3>2. IsFrame(Top(p.stack))  BY <1>0, <2>1 DEF IsPyState, Top
      <3>3. IsFrame(f) /\ f.obj  BY <2>1, <3>2 DEF IsFrame
      <3> HIDE DEF f, q
      <3>4. /\ IsPyState(q) /\ q.phase = "colon" /\ q.stack # <<>>
            /\ Len(q.stack) = Len(p.stack) /\ Top(q.stack) = f
            /\ \A i \in 1..(Len(p.stack) - 1) : q.stack[i] = p.stack[i]
        BY <1>0, <2>1, <3>1, <3>3, FrameChanged
      <3>5. IsPy(q)  BY <3>3, <3>4 DEF IsPy, Phases
      <3>6. Doomed(p) => Doomed(q)
        <4>1. \A i \in 1..Len(p.stack) : Pending(p, i) => i \in 1..(Len(p.stack) - 1)
          BY <1>0, <1>4 DEF Pending
        <4>2. QED  BY <1>0, <3>4, <4>1 DEF Doomed, Pending
      <3>7. QED  BY <1>4, <3>5, <3>6 DEF q
    <2>3. CASE t.kind # "string"
      <3>1. q = PyFail(p)  BY <2>1, <2>3 DEF PyKey
      <3>2. QED  BY <1>0, <3>1, PyFailShape
    <2>4. QED  BY <2>2, <2>3
  <1>5. CASE p.phase = "colon"
    <2>1. q = PyColon(p, t) /\ p.stack # <<>> /\ Top(p.stack).obj  BY <1>5 DEF PyStep, IsPy
    <2>2. CASE t.kind = ":"
      <3>1. q = PyTo(p, "value")  BY <2>1, <2>2 DEF PyColon, PyTo
      <3>2. IsPyState(q) /\ q.phase = "value" /\ q.stack = p.stack  BY <1>0, <3>1, PhaseChanged
      <3>3. QED  BY <1>5, <3>2 DEF IsPy, Phases, Doomed, Pending
    <2>3. CASE t.kind # ":"
      <3>1. q = PyFail(p)  BY <2>1, <2>3 DEF PyColon
      <3>2. QED  BY <1>0, <3>1, PyFailShape
    <2>4. QED  BY <2>2, <2>3
  <1>6. CASE p.phase \in {"obj_next", "arr_next"}
    <2> DEFINE r == PyPop(p)
               close == IF p.phase = "obj_next" THEN "}" ELSE "]"
               more  == IF p.phase = "obj_next" THEN "key" ELSE "value"
               v == IF p.phase = "obj_next" THEN [kind |-> "object", members |-> Top(p.stack).members]
                    ELSE [kind |-> "array", els |-> Top(p.stack).els]
    <2>1. /\ p.stack # <<>> /\ Top(p.stack).obj = (p.phase = "obj_next")
      <3>1. p.stack # <<>> /\ IsFrame(Top(p.stack))  BY <1>0, <1>6 DEF IsPy, IsPyState, Top
      <3>2. QED  BY <1>6, <3>1 DEF IsPy, IsFrame
    <2>2. q = IF t.kind = "," THEN PyTo(p, more)
              ELSE IF t.kind = close THEN PyDeliver(r, v) ELSE PyFail(p)
      BY <1>6 DEF PyStep, PyObjNext, PyArrNext, PyTo, PyPop
    <2>3. /\ IsPyState(r) /\ Len(r.stack) = Len(p.stack) - 1
          /\ \A i \in 1..(Len(p.stack) - 1) : r.stack[i] = p.stack[i]
      BY <1>0, <2>1, FramePopped
    <2>4. \A i \in 1..Len(p.stack) : Pending(p, i) => i \in 1..(Len(p.stack) - 1)
      BY <1>0, <1>6 DEF Pending
    <2> HIDE DEF r, v, q
    <2>5. CASE t.kind = ","
      <3>1. IsPyState(q) /\ q.phase = more /\ q.stack = p.stack  BY <1>0, <2>2, <2>5, PhaseChanged
      <3>2. IsPy(q)  BY <1>6, <2>1, <3>1 DEF IsPy, Phases
      <3>3. Doomed(p) => Doomed(q)  BY <1>0, <2>4, <3>1 DEF Doomed, Pending
      <3>4. QED  BY <1>6, <3>2, <3>3 DEF q
    <2>6. CASE t.kind = close /\ t.kind # ","
      <3>1. q = PyDeliver(r, v)  BY <2>2, <2>6
      <3>2. Doomed(p) => \E i \in 1..Len(r.stack) : Blocked(r.stack[i])
        BY <1>0, <2>3, <2>4 DEF Doomed, Blocked
      <3>3. QED  BY <1>6, <2>3, <3>1, <3>2, Delivered, BlockedDelivery DEF q
    <2>7. CASE t.kind # close /\ t.kind # ","
      <3>1. q = PyFail(p)  BY <2>2, <2>7
      <3>2. QED  BY <1>0, <3>1, PyFailShape DEF q
    <2>8. QED  BY <2>5, <2>6, <2>7
  <1>7. CASE p.phase = "done"
    <2>1. q = PyDone(p, t) /\ p.stack = <<>>  BY <1>7 DEF PyStep, IsPy
    <2>2. q = PyTo(p, "accepted") \/ q = PyTo(p, "rejected")  BY <2>1 DEF PyDone, PyFail, PyTo
    <2>3. IsPyState(q) /\ q.stack = p.stack /\ q.phase \in {"accepted", "rejected"}
      BY <1>0, <2>2, PhaseChanged
    <2>4. QED  BY <1>0, <1>7, <2>1, <2>3 DEF IsPy, Phases, Doomed
  <1>8. CASE p.phase \in {"accepted", "rejected"}
    <2>1. q = p  BY <1>8 DEF PyStep
    <2>2. QED  BY <1>8, <2>1
  <1>9. QED  BY <1>1, <1>2, <1>3, <1>4, <1>5, <1>6, <1>7, <1>8 DEF IsPy, Phases

-----------------------------------------------------------------------------
(* Go's side: what each change of its stack leaves as it was. *)

GoStacked(g, s)  == [g EXCEPT !.stack = s]
GoBuilt(g, h, s) == [g EXCEPT !.heap = h, !.stack = s]

SameFrame(f, e) == f.isObj = e.isObj /\ f.keys = e.keys

LEMMA GoFailShape ==
    ASSUME NEW g, IsGo(g)
    PROVE  IsGo(GoFail(g)) /\ GoFail(g).status = "rejected"
  BY DEF IsGo, GoFail

LEMMA GoRecords ==
    ASSUME NEW g, NEW h, NEW s, IsGo(g)
    PROVE  /\ DOMAIN GoStacked(g, s) = DOMAIN g /\ GoStacked(g, s).status = g.status
           /\ GoStacked(g, s).rootDone = g.rootDone /\ GoStacked(g, s).stack = s
           /\ DOMAIN GoBuilt(g, h, s) = DOMAIN g /\ GoBuilt(g, h, s).status = g.status
           /\ GoBuilt(g, h, s).rootDone = g.rootDone /\ GoBuilt(g, h, s).stack = s
  BY DEF IsGo, GoStacked, GoBuilt

\* A change of the top frame.
NewTop(q, g, f) ==
    /\ DOMAIN q = DOMAIN g /\ q.status = g.status /\ q.rootDone = g.rootDone
    /\ q.stack = WithTop(g.stack, f)

LEMMA GoTopChanged ==
    ASSUME NEW g, NEW q, NEW f, IsGo(g), IsGoFrame(f), g.stack # <<>>, NewTop(q, g, f)
    PROVE  /\ IsGo(q) /\ q.stack # <<>> /\ Len(q.stack) = Len(g.stack) /\ Top(q.stack) = f
           /\ q.stack[Len(g.stack)] = f
           /\ \A i \in 1..(Len(g.stack) - 1) : q.stack[i] = g.stack[i]
  <1>1. /\ IsStack(q.stack) /\ Len(g.stack) \in Nat \ {0} /\ Len(q.stack) = Len(g.stack)
        /\ q.stack[Len(g.stack)] = f
        /\ \A i \in 1..Len(g.stack) : i # Len(g.stack) => q.stack[i] = g.stack[i]
    BY Changed DEF IsGo, NewTop
  <1>2. \A i \in 1..Len(q.stack) : IsGoFrame(q.stack[i])  BY <1>1 DEF IsGo
  <1>3. q.stack # <<>>  BY <1>1, Bottom
  <1>4. QED  BY <1>1, <1>2, <1>3 DEF IsGo, Top, NewTop

LEMMA GoPopShape ==
    ASSUME NEW g, IsGo(g), g.stack # <<>>
    PROVE  LET q == GoPop(g)
           IN  /\ IsGo(q) /\ q.status = g.status /\ q.rootDone = (Len(g.stack) = 1)
               /\ Len(g.stack) \in Nat \ {0} /\ Len(q.stack) = Len(g.stack) - 1
               /\ \A i \in 1..(Len(g.stack) - 1) : q.stack[i] = g.stack[i]
  <1> DEFINE q == GoPop(g)
  <1>1. /\ DOMAIN q = DOMAIN g /\ q.status = g.status /\ q.stack = Rest(g.stack)
        /\ q.rootDone = (Len(g.stack) = 1)
    BY DEF GoPop, IsGo
  <1> HIDE DEF q
  <1>2. /\ IsStack(q.stack) /\ Len(g.stack) \in Nat \ {0} /\ Len(q.stack) = Len(g.stack) - 1
        /\ \A i \in 1..(Len(g.stack) - 1) : q.stack[i] = g.stack[i]
    BY <1>1, Popped DEF IsGo
  <1>3. \A i \in 1..Len(q.stack) : IsGoFrame(q.stack[i])  BY <1>2 DEF IsGo
  <1>4. q.rootDone \in BOOLEAN  BY <1>1
  <1>5. IsGo(q)  BY <1>1, <1>2, <1>3, <1>4 DEF IsGo
  <1>6. QED  BY <1>1, <1>2, <1>5 DEF q

LEMMA GoTop ==
    ASSUME NEW g, IsGo(g), g.stack # <<>>
    PROVE  IsGoFrame(Top(g.stack)) /\ Len(g.stack) \in Nat \ {0} /\ Top(g.stack) = g.stack[Len(g.stack)]
  BY Bottom DEF IsGo, Top

\* A frame in another phase, or with a new member name.
Phased(f, ph) == [f EXCEPT !.ph = ph]
Named(f, n)   == [f EXCEPT !.keys = f.keys \cup {n}, !.pendKey = n, !.ph = "objColon"]

LEMMA GoFrames ==
    ASSUME NEW f, IsGoFrame(f)
    PROVE  /\ \A ph : IsGoFrame(Phased(f, ph)) /\ Phased(f, ph).ph = ph
                        /\ SameFrame(Phased(f, ph), f)
           /\ \A n : /\ IsGoFrame(Named(f, n)) /\ Named(f, n).ph = "objColon"
                     /\ Named(f, n).isObj = f.isObj /\ Named(f, n).keys = f.keys \cup {n}
  <1>1. ASSUME NEW ph  PROVE IsGoFrame(Phased(f, ph)) /\ Phased(f, ph).ph = ph
                               /\ Phased(f, ph).isObj = f.isObj /\ Phased(f, ph).keys = f.keys
    BY DEF IsGoFrame, Phased
  <1>2. ASSUME NEW n
        PROVE  /\ IsGoFrame(Named(f, n)) /\ Named(f, n).ph = "objColon"
               /\ Named(f, n).isObj = f.isObj /\ Named(f, n).keys = f.keys \cup {n}
    BY DEF IsGoFrame, Named
  <1>3. QED  BY <1>1, <1>2 DEF SameFrame

LEMMA InPhaseShape ==
    ASSUME NEW g, NEW ph, IsGo(g), g.stack # <<>>
    PROVE  LET q == InPhase(g, ph)
           IN  /\ IsGo(q) /\ q.status = g.status /\ q.rootDone = g.rootDone
               /\ q.stack # <<>> /\ Len(q.stack) = Len(g.stack)
               /\ Top(q.stack).ph = ph /\ SameFrame(Top(q.stack), Top(g.stack))
               /\ \A i \in 1..(Len(g.stack) - 1) : q.stack[i] = g.stack[i]
  <1> DEFINE f == Phased(Top(g.stack), ph)
             q == InPhase(g, ph)
  <1>1. IsGoFrame(Top(g.stack))  BY GoTop
  <1>2. IsGoFrame(f) /\ f.ph = ph /\ SameFrame(f, Top(g.stack))  BY <1>1, GoFrames
  <1>3. q = GoStacked(g, WithTop(g.stack, f))  BY DEF InPhase, GoStacked, Phased
  <1> HIDE DEF f, q
  <1>4. /\ DOMAIN q = DOMAIN g /\ q.status = g.status /\ q.rootDone = g.rootDone
        /\ q.stack = WithTop(g.stack, f)
    BY <1>3, GoRecords
  <1>5. /\ IsGo(q) /\ q.stack # <<>> /\ Len(q.stack) = Len(g.stack) /\ Top(q.stack) = f
        /\ \A i \in 1..(Len(g.stack) - 1) : q.stack[i] = g.stack[i]
    <2>1. NewTop(q, g, f)  BY <1>4 DEF NewTop
    <2>2. QED  BY <1>2, <2>1, GoTopChanged
  <1>6. QED  BY <1>2, <1>4, <1>5 DEF q

AddedKey(f, e, n) == f.isObj = e.isObj /\ f.keys = e.keys \cup {n}
GoNames(g, n)     == GoStacked(g, WithTop(g.stack, Named(Top(g.stack), n)))

LEMMA GoNamed ==
    ASSUME NEW g, NEW n, IsGo(g), g.stack # <<>>
    PROVE  LET q == GoNames(g, n)
           IN  /\ IsGo(q) /\ q.status = g.status /\ q.rootDone = g.rootDone
               /\ q.stack # <<>> /\ Len(q.stack) = Len(g.stack)
               /\ Top(q.stack).ph = "objColon" /\ AddedKey(Top(q.stack), Top(g.stack), n)
               /\ \A i \in 1..(Len(g.stack) - 1) : q.stack[i] = g.stack[i]
  <1> DEFINE f == Named(Top(g.stack), n)
             q == GoNames(g, n)
  <1>1. IsGoFrame(Top(g.stack))  BY GoTop
  <1>2. /\ IsGoFrame(f) /\ f.ph = "objColon" /\ f.isObj = Top(g.stack).isObj
        /\ f.keys = Top(g.stack).keys \cup {n}
    BY <1>1, GoFrames
  <1> HIDE DEF f
  <1>4. /\ DOMAIN q = DOMAIN g /\ q.status = g.status /\ q.rootDone = g.rootDone
        /\ q.stack = WithTop(g.stack, f)
    BY GoRecords DEF GoNames, f
  <1> HIDE DEF q
  <1>5. /\ IsGo(q) /\ q.stack # <<>> /\ Len(q.stack) = Len(g.stack) /\ Top(q.stack) = f
        /\ \A i \in 1..(Len(g.stack) - 1) : q.stack[i] = g.stack[i]
    <2>1. NewTop(q, g, f)  BY <1>4 DEF NewTop
    <2>2. QED  BY <1>2, <2>1, GoTopChanged
  <1>6. AddedKey(f, Top(g.stack), n)  BY <1>2 DEF AddedKey
  <1>7. QED  BY <1>2, <1>4, <1>5, <1>6 DEF q

\* A value attached to the top frame, with a frame of its own if it opens.
Taken(f) == [f EXCEPT !.pendKey = NoKey, !.ph = Between(f)]

LEMMA TakenFrame ==
    ASSUME NEW f, IsGoFrame(f)
    PROVE  IsGoFrame(Taken(f)) /\ SameFrame(Taken(f), f) /\ Taken(f).ph = Between(Taken(f))
  <1> DEFINE b == Between(f)
  <1>1. Taken(f) = [f EXCEPT !.pendKey = NoKey, !.ph = b]  BY DEF Taken
  <1> HIDE DEF b
  <1>2. IsGoFrame(Taken(f)) /\ Taken(f).isObj = f.isObj /\ Taken(f).keys = f.keys /\ Taken(f).ph = b
    BY <1>1 DEF IsGoFrame
  <1>3. QED  BY <1>2 DEF SameFrame, Between, b

LEMMA OpenedFrame ==
    ASSUME NEW t, NEW n
    PROVE  /\ IsGoFrame(GoFrame(t, n)) /\ GoFrame(t, n).isObj = (t.kind = "{")
           /\ GoFrame(t, n).keys = {}
           /\ GoFrame(t, n).ph = IF t.kind = "{" THEN "objKeyOrClose" ELSE "arrValOrClose"
  BY DEF GoFrame, IsGoFrame

\* The part of an attachment both cases have: q's stack has g's below n, g's
\* top frame taken at n.
GoTook(q, g) ==
    /\ \A i \in 1..(Len(g.stack) - 1) : q.stack[i] = g.stack[i]
    /\ SameFrame(q.stack[Len(g.stack)], Top(g.stack))
    /\ q.stack[Len(g.stack)].ph = Between(q.stack[Len(g.stack)])

GoOpens(q, t, n) ==
    /\ Len(q.stack) = n /\ q.stack # <<>>
    /\ Top(q.stack).isObj = (t.kind = "{") /\ Top(q.stack).keys = {}
    /\ Top(q.stack).ph = IF t.kind = "{" THEN "objKeyOrClose" ELSE "arrValOrClose"

LEMMA GoAttachShape ==
    ASSUME NEW g, NEW t, IsGo(g), g.stack # <<>>
    PROVE  LET q == GoAttach(g, t)
           IN  /\ IsGo(q) /\ q.status = g.status /\ q.rootDone = g.rootDone /\ GoTook(q, g)
               /\ ~IsOpen(t) => Len(q.stack) = Len(g.stack)
               /\ IsOpen(t) => GoOpens(q, t, Len(g.stack) + 1)
  <1> DEFINE f == Top(g.stack)
             e == Taken(f)
             n == Len(g.heap) + 1
             h == Append([g.heap EXCEPT ![f.val] = Attached(g.heap[f.val], f.pendKey, n)], NewNode(t))
             s == WithTop(g.stack, e)
             o == GoFrame(t, n)
             q == GoAttach(g, t)
  <1>1. q = GoBuilt(g, h, IF IsOpen(t) THEN Append(s, o) ELSE s)
    BY DEF GoAttach, GoBuilt, Taken, Between
  <1>2. IsGoFrame(f) /\ Len(g.stack) \in Nat \ {0}  BY GoTop
  <1>3. IsGoFrame(e) /\ SameFrame(e, f) /\ e.ph = Between(e)  BY <1>2, TakenFrame
  <1>4. /\ IsGoFrame(o) /\ o.isObj = (t.kind = "{") /\ o.keys = {}
        /\ o.ph = IF t.kind = "{" THEN "objKeyOrClose" ELSE "arrValOrClose"
    BY OpenedFrame
  <1>5. /\ IsStack(s) /\ Len(s) = Len(g.stack) /\ s[Len(g.stack)] = e
        /\ \A i \in 1..Len(g.stack) : i # Len(g.stack) => s[i] = g.stack[i]
    BY Changed DEF IsGo
  <1> HIDE DEF e, h, o, q, s
  <1>6. /\ DOMAIN q = DOMAIN g /\ q.status = g.status /\ q.rootDone = g.rootDone
        /\ q.stack = IF IsOpen(t) THEN Append(s, o) ELSE s
    BY <1>1, GoRecords
  <1>7. \A i \in 1..Len(s) : IsGoFrame(s[i])  BY <1>2, <1>3, <1>5 DEF IsGo
  <1>8. CASE ~IsOpen(t)
    <2>1. q.stack = s  BY <1>6, <1>8
    <2>2. IsGo(q)  BY <1>5, <1>6, <1>7, <2>1 DEF IsGo
    <2>3. GoTook(q, g)  BY <1>2, <1>3, <1>5, <2>1 DEF GoTook
    <2>4. QED  BY <1>5, <1>6, <1>8, <2>1, <2>2, <2>3 DEF q
  <1>9. CASE IsOpen(t)
    <2>1. q.stack = Append(s, o)  BY <1>6, <1>9
    <2>2. /\ IsStack(q.stack) /\ Len(q.stack) = Len(g.stack) + 1 /\ q.stack[Len(g.stack) + 1] = o
          /\ \A i \in 1..Len(g.stack) : q.stack[i] = s[i]
      BY <1>5, <2>1, Pushed
    <2>3. ASSUME NEW i \in 1..Len(q.stack)  PROVE IsGoFrame(q.stack[i])
      <3>1. i = Len(g.stack) + 1 \/ i \in 1..Len(g.stack)  BY <1>2, <2>2
      <3>2. QED  BY <1>4, <1>5, <1>7, <2>2, <3>1
    <2>4. IsGo(q)  BY <1>6, <2>2, <2>3 DEF IsGo
    <2>5. GoTook(q, g)
      <3>1. q.stack[Len(g.stack)] = e  BY <1>2, <1>5, <2>2
      <3>2. \A i \in 1..(Len(g.stack) - 1) : q.stack[i] = g.stack[i]  BY <1>2, <1>5, <2>2
      <3>3. QED  BY <1>3, <3>1, <3>2 DEF GoTook
    <2>6. q.stack # <<>>  BY <1>2, <2>2, Bottom
    <2>7. GoOpens(q, t, Len(g.stack) + 1)  BY <1>4, <2>2, <2>6 DEF GoOpens, Top
    <2>8. QED  BY <1>6, <1>9, <2>4, <2>5, <2>7 DEF q
  <1>10. QED  BY <1>8, <1>9

StartsValue(t)       == t.kind \in {"{", "[", "string", "scalar"}
GoRooted(g, h, s, d) == [g EXCEPT !.heap = h, !.stack = s, !.rootDone = d]

LEMMA GoRootShape ==
    ASSUME NEW g, NEW t, IsGo(g), Len(g.stack) = 0, StartsValue(t)
    PROVE  LET q == GoRoot(g, t)
           IN  /\ IsGo(q) /\ q.status = g.status /\ q.rootDone = ~IsOpen(t)
               /\ ~IsOpen(t) => Len(q.stack) = 0
               /\ IsOpen(t) => GoOpens(q, t, 1)
  <1> DEFINE n == 1
             o == GoFrame(t, n)
             s == IF IsOpen(t) THEN Append(g.stack, o) ELSE g.stack
             h == <<NewNode(t)>>
             d == ~IsOpen(t)
             q == GoRoot(g, t)
  <1>1. q = GoRooted(g, h, s, d)  BY DEF GoRoot, GoRooted, StartsValue
  <1>2. d \in BOOLEAN /\ d = ~IsOpen(t)  OBVIOUS
  <1>3. s = IF IsOpen(t) THEN Append(g.stack, o) ELSE g.stack  OBVIOUS
  <1>4. /\ IsGoFrame(o) /\ o.isObj = (t.kind = "{") /\ o.keys = {}
        /\ o.ph = IF t.kind = "{" THEN "objKeyOrClose" ELSE "arrValOrClose"
    <2> HIDE DEF n
    <2>1. QED  BY OpenedFrame
  <1>5. IsStack(g.stack)  BY DEF IsGo
  <1> HIDE DEF o, s, h, d, q
  <1>6. DOMAIN q = DOMAIN g /\ q.status = g.status /\ q.rootDone = d /\ q.stack = s
    BY <1>1 DEF IsGo, GoRooted
  <1>7. CASE IsOpen(t)
    <2>1. q.stack = Append(g.stack, o)  BY <1>3, <1>6, <1>7
    <2>2. IsStack(q.stack) /\ Len(q.stack) = 1 /\ q.stack[1] = o
      <3>1. 0 + 1 = 1  OBVIOUS
      <3>2. QED  BY <1>5, <2>1, <3>1, Pushed
    <2>3. q.stack # <<>>  BY <2>2, Bottom
    <2>4. \A i \in 1..Len(q.stack) : IsGoFrame(q.stack[i])
      <3>1. IsGoFrame(o)  BY <1>4
      <3>2. QED  BY <2>2, <3>1
    <2>5. IsGo(q)  BY <1>2, <1>6, <2>2, <2>4 DEF IsGo
    <2>6. GoOpens(q, t, 1)  BY <1>4, <2>2, <2>3 DEF GoOpens, Top
    <2>7. QED  BY <1>2, <1>6, <1>7, <2>5, <2>6 DEF q
  <1>8. CASE ~IsOpen(t)
    <2>1. q.stack = g.stack  BY <1>3, <1>6, <1>8
    <2>2. IsGo(q)  BY <1>2, <1>5, <1>6, <2>1 DEF IsGo
    <2>3. QED  BY <1>2, <1>6, <1>8, <2>1, <2>2 DEF q
  <1>9. QED  BY <1>7, <1>8

-----------------------------------------------------------------------------
(* The two together. *)

Agree(p, g) ==
    /\ IsGo(g)
    /\ g.status = "reading" => Mirror(p, g)
    /\ g.status = "accepted" => p.phase = "accepted"
    /\ g.status = "rejected" => p.phase = "rejected" \/ Doomed(p)

LEMMA BothFail ==
    ASSUME NEW p, NEW g, IsPyState(p), IsGo(g)
    PROVE  Agree(PyFail(p), GoFail(g))
  BY PyFailShape, GoFailShape DEF Agree

LEMMA Depths ==
    ASSUME NEW p, NEW g, IsPyState(p), IsGo(g)
    PROVE  /\ Len(p.stack) \in Nat /\ (p.stack = <<>> <=> Len(p.stack) = 0)
           /\ Len(g.stack) \in Nat /\ (g.stack = <<>> <=> Len(g.stack) = 0)
  BY Bottom DEF IsPyState, IsGo

\* Python delivers a value whose place Go's frames have already taken.
LEMMA Complete ==
    ASSUME NEW p, NEW v, NEW g, IsPyState(p), IsGo(g),
           Waiting(p, g), JoinedTo(g, Len(g.stack)), g.rootDone = (Len(p.stack) = 0)
    PROVE  Mirror(PyDeliver(p, v), g)
  <1> DEFINE q == PyDeliver(p, v)
             n == Len(p.stack)
  <1>1. n \in Nat /\ (p.stack = <<>> <=> n = 0) /\ Len(g.stack) = n /\ (g.stack = <<>> <=> n = 0)
    BY Depths DEF Waiting
  <1>2. CASE n = 0
    <2>1. q.phase = "done" /\ g.stack = <<>> /\ g.rootDone  BY <1>1, <1>2, Delivered
    <2> HIDE DEF n
    <2>2. QED  BY <2>1 DEF Mirror
  <1>3. CASE n # 0
    <2>1. n \in 1..n /\ p.stack # <<>> /\ Top(p.stack) = p.stack[n] /\ Top(g.stack) = g.stack[n]
      BY <1>1, <1>3 DEF Top
    <2>2. WaitingFrame(Top(p.stack), Top(g.stack))  BY <2>1 DEF Waiting
    <2>3. ~(Top(p.stack).obj /\ Top(p.stack).key \in DOMAIN Top(p.stack).members)
      BY <2>2 DEF WaitingFrame
    <2>4. /\ q.phase = IF Top(p.stack).obj THEN "obj_next" ELSE "arr_next"
          /\ Len(q.stack) = n
          /\ \A i \in 1..(n - 1) : q.stack[i] = p.stack[i]
          /\ Top(q.stack).obj = Top(p.stack).obj
          /\ Top(p.stack).obj =>
               DOMAIN Top(q.stack).members = DOMAIN Top(p.stack).members \cup {Top(p.stack).key}
      BY <2>1, <2>3, Delivered
    <2>5. IsPyState(q)  BY Delivered DEF IsPy
    <2> HIDE DEF q, n
    <2>6. q.stack # <<>>  BY <1>3, <2>4, <2>5, Depths
    <2>7. SettledFrame(Top(q.stack), Top(g.stack))
      BY <2>2, <2>4 DEF SettledFrame, WaitingFrame
    <2>8. \A i \in 1..(n - 1) : WaitingFrame(q.stack[i], g.stack[i])
      <3>1. \A i \in 1..(n - 1) : i \in 1..n  BY <1>1
      <3>2. QED  BY <2>4, <3>1 DEF Waiting, n
    <2>9. Settled(q, g)  BY <1>1, <2>4, <2>6, <2>7, <2>8 DEF Settled
    <2>10. ~g.rootDone /\ q.phase \in {"obj_next", "arr_next"}  BY <1>3, <2>4 DEF n
    <2>11. QED  BY <2>9, <2>10 DEF Mirror, q
  <1>4. QED  BY <1>2, <1>3

\* Go's frames after it attached a value, against Python's.
LEMMA Took ==
    ASSUME NEW p, NEW g, NEW q, IsPyState(p), IsGo(g), Waiting(p, g), JoinedTo(g, Len(g.stack) - 1),
           g.stack # <<>>, GoTook(q, g)
    PROVE  \A i \in 1..Len(p.stack) :
               WaitingFrame(p.stack[i], q.stack[i]) /\ q.stack[i].ph = Between(q.stack[i])
  <1> DEFINE n == Len(p.stack)
  <1>1. n \in Nat \ {0} /\ Len(g.stack) = n  BY Depths DEF Waiting
  <1>2. ASSUME NEW i \in 1..(n - 1)
        PROVE  WaitingFrame(p.stack[i], q.stack[i]) /\ q.stack[i].ph = Between(q.stack[i])
    <2>1. i \in 1..n /\ q.stack[i] = g.stack[i]  BY <1>1 DEF GoTook
    <2>2. g.stack[i].ph = Between(g.stack[i])  BY <1>1 DEF JoinedTo
    <2>3. QED  BY <2>1, <2>2 DEF Waiting
  <1>3. WaitingFrame(p.stack[n], q.stack[n]) /\ q.stack[n].ph = Between(q.stack[n])
    <2>1. n \in 1..n  BY <1>1
    <2>2. WaitingFrame(p.stack[n], g.stack[n]) /\ Top(g.stack) = g.stack[n]
      BY <1>1, <2>1 DEF Waiting, Top
    <2>3. SameFrame(q.stack[n], g.stack[n]) /\ q.stack[n].ph = Between(q.stack[n])
      BY <1>1, <2>2 DEF GoTook
    <2>4. QED  BY <2>2, <2>3 DEF SameFrame, WaitingFrame
  <1>4. \A i \in 1..n : i = n \/ i \in 1..(n - 1)  BY <1>1
  <1>5. QED  BY <1>2, <1>3, <1>4

\* What Go does where a value is expected.
GoTakes(g, t) ==
    IF ~StartsValue(t) THEN GoFail(g)
    ELSE IF g.stack = <<>> THEN GoRoot(g, t) ELSE GoAttach(g, t)

LEMMA ValueStep ==
    ASSUME NEW p, NEW g, NEW t, IsPyState(p), p.phase = "value", IsGo(g), g.status = "reading",
           Waiting(p, g), JoinedTo(g, Len(g.stack) - 1), ~g.rootDone
    PROVE  Agree(PyValue(p, t), GoTakes(g, t))
  <1> DEFINE q == PyValue(p, t)
             h == GoTakes(g, t)
             n == Len(p.stack)
  <1>0. n \in Nat /\ Len(g.stack) = n /\ (g.stack = <<>> <=> n = 0) /\ (p.stack = <<>> <=> n = 0)
    BY Depths DEF Waiting
  <1>1. CASE ~StartsValue(t)
    <2>1. q = PyFail(p) /\ h = GoFail(g)  BY <1>1 DEF PyValue, StartsValue, GoTakes
    <2>2. QED  BY <2>1, BothFail
  <1>2. ASSUME StartsValue(t)
        PROVE  /\ IsGo(h) /\ h.status = "reading"
               /\ h.rootDone = (n = 0 /\ ~IsOpen(t))
               /\ \A i \in 1..n :
                    WaitingFrame(p.stack[i], h.stack[i]) /\ h.stack[i].ph = Between(h.stack[i])
               /\ ~IsOpen(t) => Len(h.stack) = n
               /\ IsOpen(t) => GoOpens(h, t, n + 1)
    <2>1. CASE n = 0
      <3>1. h = GoRoot(g, t)  BY <1>0, <1>2, <2>1 DEF GoTakes
      <3>2. /\ IsGo(h) /\ h.status = g.status /\ h.rootDone = ~IsOpen(t)
            /\ ~IsOpen(t) => Len(h.stack) = 0
            /\ IsOpen(t) => GoOpens(h, t, 1)
        BY <1>0, <1>2, <2>1, <3>1, GoRootShape
      <3> HIDE DEF h
      <3>3. n + 1 = 1 /\ 1..n = {}  BY <2>1
      <3>4. (~IsOpen(t) => Len(h.stack) = n) /\ (IsOpen(t) => GoOpens(h, t, n + 1))
        <4>1. ~IsOpen(t) => Len(h.stack) = n  BY <2>1, <3>2
        <4> HIDE DEF n
        <4>2. QED  BY <3>2, <3>3, <4>1
      <3> HIDE DEF n
      <3>5. h.rootDone = (n = 0 /\ ~IsOpen(t))  BY <2>1, <3>2
      <3>6. QED  BY <3>2, <3>3, <3>4, <3>5
    <2>2. CASE n # 0
      <3>1. h = GoAttach(g, t) /\ g.stack # <<>>  BY <1>0, <1>2, <2>2 DEF GoTakes
      <3>2. /\ IsGo(h) /\ h.status = g.status /\ h.rootDone = g.rootDone /\ GoTook(h, g)
            /\ ~IsOpen(t) => Len(h.stack) = n
            /\ IsOpen(t) => GoOpens(h, t, n + 1)
        BY <1>0, <3>1, GoAttachShape
      <3> HIDE DEF h
      <3>3. \A i \in 1..n :
               WaitingFrame(p.stack[i], h.stack[i]) /\ h.stack[i].ph = Between(h.stack[i])
        BY <3>1, <3>2, Took
      <3>4. h.rootDone = FALSE  BY <3>2 DEF IsGo
      <3> HIDE DEF n
      <3>5. QED  BY <2>2, <3>2, <3>3, <3>4
    <2>3. QED  BY <2>1, <2>2
  <1>3. CASE StartsValue(t) /\ ~IsOpen(t)
    <2>1. q = PyDeliver(p, t)  BY <1>3 DEF PyValue, StartsValue, IsOpen
    <2>2. Waiting(p, h) /\ JoinedTo(h, Len(h.stack)) /\ h.rootDone = (n = 0)
      <3> HIDE DEF h
      <3>1. QED  BY <1>2, <1>3 DEF Waiting, JoinedTo
    <2>3. IsGo(h) /\ h.status = "reading"  BY <1>2, <1>3
    <2>4. Mirror(q, h)  BY <2>1, <2>2, <2>3, Complete
    <2> HIDE DEF q, h
    <2>5. QED  BY <2>3, <2>4 DEF Agree, q, h
  <1>4. CASE StartsValue(t) /\ IsOpen(t)
    <2> DEFINE ph == IF t.kind = "{" THEN "obj_open" ELSE "arr_open"
    <2>1. q = PyTo(p, ph) /\ ph \in {"obj_open", "arr_open"} /\ (ph = "obj_open" <=> t.kind = "{")
      BY <1>4 DEF PyValue, PyTo, IsOpen
    <2> HIDE DEF ph, q, h
    <2>2. q.phase = ph /\ q.stack = p.stack  BY <2>1, PhaseChanged
    <2>3. /\ IsGo(h) /\ h.status = "reading" /\ ~h.rootDone /\ GoOpens(h, t, n + 1)
          /\ \A i \in 1..n : WaitingFrame(q.stack[i], h.stack[i])
          /\ JoinedTo(h, n) /\ Len(q.stack) = n
      BY <1>2, <1>4, <2>2 DEF JoinedTo
    <2>4. /\ Len(h.stack) = Len(q.stack) + 1 /\ JoinedTo(h, Len(q.stack))
          /\ \A i \in 1..Len(q.stack) : WaitingFrame(q.stack[i], h.stack[i])
      BY <2>3 DEF GoOpens
    <2>5. /\ Top(h.stack).keys = {} /\ Top(h.stack).isObj = (ph = "obj_open")
          /\ Top(h.stack).ph = IF ph = "obj_open" THEN "objKeyOrClose" ELSE "arrValOrClose"
      <3> HIDE DEF n
      <3>1. QED  BY <2>1, <2>3 DEF GoOpens
    <2>6. Mirror(q, h)  BY <2>1, <2>2, <2>3, <2>4, <2>5 DEF Mirror
    <2>7. QED  BY <2>3, <2>6 DEF Agree, q, h
  <1>5. QED  BY <1>1, <1>3, <1>4

\* Both close a container and hand it to the frames below.
LEMMA Closed ==
    ASSUME NEW p, NEW v, NEW g, IsPyState(p), IsGo(g), g.status = "reading",
           Len(g.stack) = Len(p.stack) + 1, JoinedTo(g, Len(p.stack)),
           \A i \in 1..Len(p.stack) : WaitingFrame(p.stack[i], g.stack[i])
    PROVE  Agree(PyDeliver(p, v), GoPop(g))
  <1> DEFINE h == GoPop(g)
             n == Len(p.stack)
  <1>1. n \in Nat /\ g.stack # <<>>  BY Depths
  <1>2. /\ IsGo(h) /\ h.status = g.status /\ h.rootDone = (Len(g.stack) = 1)
        /\ Len(h.stack) = Len(g.stack) - 1
        /\ \A i \in 1..(Len(g.stack) - 1) : h.stack[i] = g.stack[i]
    BY <1>1, GoPopShape
  <1> HIDE DEF h
  <1>3. Len(h.stack) = n /\ Len(g.stack) - 1 = n  BY <1>1, <1>2
  <1>4. Waiting(p, h)  BY <1>2, <1>3 DEF Waiting
  <1>5. JoinedTo(h, Len(h.stack))  BY <1>2, <1>3 DEF JoinedTo
  <1>6. h.rootDone = (Len(p.stack) = 0)  BY <1>1, <1>2
  <1>7. Mirror(PyDeliver(p, v), h)  BY <1>2, <1>4, <1>5, <1>6, Complete
  <1>8. h.status = "reading"  BY <1>2
  <1>9. QED  BY <1>2, <1>7, <1>8 DEF Agree, h

LEMMA ValuePhase ==
    ASSUME NEW p, NEW g, NEW t, IsPy(p), IsGo(g), g.status = "reading", Mirror(p, g),
           p.phase = "value"
    PROVE  Agree(PyStep(p, t), GoStep(g, t))
  <1>1. /\ Waiting(p, g) /\ JoinedTo(g, Len(g.stack) - 1) /\ ~g.rootDone
        /\ p.stack # <<>> => Top(g.stack).ph \in {"objValue", "arrVal"}
    BY DEF Mirror
  <1>2. g.stack # <<>> => Top(g.stack).ph \in {"objValue", "arrVal"}
    <2>1. g.stack # <<>> => p.stack # <<>>  BY <1>1, Depths DEF IsPy, Waiting
    <2>2. QED  BY <1>1, <2>1
  <1>3. GoStep(g, t) = GoTakes(g, t)
    BY <1>1, <1>2 DEF GoStep, GoEnd, GoBuild, GoRoot, GoElement, GoTakes, StartsValue
  <1>4. PyStep(p, t) = PyValue(p, t)  BY DEF PyStep
  <1>5. QED  BY <1>1, <1>3, <1>4, ValueStep DEF IsPy

LEMMA OpenPhases ==
    ASSUME NEW p, NEW g, NEW t, IsPy(p), IsGo(g), g.status = "reading", Mirror(p, g),
           p.phase \in {"obj_open", "arr_open"}
    PROVE  Agree(PyStep(p, t), GoStep(g, t))
  <1> DEFINE n == Len(p.stack)
  <1>1. /\ Len(g.stack) = n + 1 /\ ~g.rootDone /\ JoinedTo(g, n)
        /\ \A i \in 1..n : WaitingFrame(p.stack[i], g.stack[i])
        /\ Top(g.stack).keys = {} /\ Top(g.stack).isObj = (p.phase = "obj_open")
        /\ Top(g.stack).ph = IF p.phase = "obj_open" THEN "objKeyOrClose" ELSE "arrValOrClose"
    BY DEF Mirror
  <1>2. IsPyState(p) /\ n \in Nat /\ g.stack # <<>> /\ Top(g.stack) = g.stack[n + 1]
    BY <1>1, Depths DEF IsPy, Top
  <1>3. CASE t.kind = IF p.phase = "obj_open" THEN "}" ELSE "]"
    <2>1. \E v : PyStep(p, t) = PyDeliver(p, v)
      BY <1>3 DEF PyStep, PyObjOpen, PyArrOpen
    <2>2. GoStep(g, t) = GoPop(g)
      <3> HIDE DEF n
      <3>1. Top(g.stack).ph = IF p.phase = "obj_open" THEN "objKeyOrClose" ELSE "arrValOrClose"
        BY <1>1
      <3>2. QED  BY <1>1, <1>2, <1>3, <3>1 DEF GoStep, GoBuild, GoName, GoElement
    <2>3. QED  BY <1>1, <1>2, <2>1, <2>2, Closed
  <1>4. CASE p.phase = "obj_open" /\ t.kind = "string"
    <2> DEFINE f == ObjectFrame(t.text)
               q == PyPush(p, "colon", f)
               h == GoNames(g, t.text)
    <2>1. PyStep(p, t) = q  BY <1>4 DEF PyStep, PyObjOpen, PyPush
    <2>2. GoStep(g, t) = h
      <3> HIDE DEF n
      <3>1. /\ Top(g.stack).ph = "objKeyOrClose" /\ Top(g.stack).keys = {}
            /\ ~g.rootDone /\ g.stack # <<>>
        BY <1>1, <1>2, <1>4
      <3>2. QED  BY <1>4, <3>1 DEF GoStep, GoBuild, GoName, GoNames, GoStacked, Named
    <2>3. IsFrame(f) /\ f.obj /\ f.key = t.text /\ DOMAIN f.members = {}  BY NewFrames
    <2> HIDE DEF f
    <2>4. /\ q.phase = "colon" /\ Len(q.stack) = n + 1 /\ Top(q.stack) = f
          /\ \A i \in 1..n : q.stack[i] = p.stack[i]
      BY <1>2, <2>3, FramePushed
    <2>5. /\ IsGo(h) /\ h.status = g.status /\ h.rootDone = g.rootDone
          /\ Len(h.stack) = Len(g.stack)
          /\ Top(h.stack).ph = "objColon" /\ AddedKey(Top(h.stack), Top(g.stack), t.text)
          /\ \A i \in 1..(Len(g.stack) - 1) : h.stack[i] = g.stack[i]
      BY <1>2, GoNamed
    <2> HIDE DEF q, h
    <2>6. Len(h.stack) = n + 1 /\ \A i \in 1..n : h.stack[i] = g.stack[i]
      <3>1. /\ Len(g.stack) = n + 1 /\ Len(h.stack) = Len(g.stack)
            /\ \A i \in 1..(Len(g.stack) - 1) : h.stack[i] = g.stack[i]
        BY <1>1, <2>5
      <3>2. Len(g.stack) - 1 = n  BY <1>2, <3>1
      <3>3. QED  BY <3>1, <3>2
    <2>7. WaitingFrame(Top(q.stack), Top(h.stack))
      <3> HIDE DEF n
      <3>1. Top(h.stack).isObj = TRUE  BY <1>1, <1>4, <2>5 DEF AddedKey
      <3>2. f.obj = TRUE  BY <2>3 DEF IsFrame
      <3>3. Top(h.stack).keys = {t.text}  BY <1>1, <2>5 DEF AddedKey
      <3>4. QED  BY <2>3, <2>4, <3>1, <3>2, <3>3 DEF WaitingFrame
    <2>8. Waiting(q, h)
      <3>1. WaitingFrame(q.stack[n + 1], h.stack[n + 1])  BY <2>4, <2>6, <2>7 DEF Top
      <3>2. \A i \in 1..n : WaitingFrame(q.stack[i], h.stack[i])  BY <1>1, <2>4, <2>6
      <3>3. \A i \in 1..(n + 1) : i \in 1..n \/ i = n + 1  BY <1>2
      <3>4. QED  BY <2>4, <2>6, <3>1, <3>2, <3>3 DEF Waiting
    <2>9. JoinedTo(h, Len(h.stack) - 1)
      <3>1. Len(h.stack) - 1 = n  BY <1>2, <2>6
      <3>2. QED  BY <1>1, <2>6, <3>1 DEF JoinedTo
    <2>10. Mirror(q, h) /\ h.status = "reading"
      <3> HIDE DEF n
      <3>1. ~h.rootDone /\ Top(h.stack).ph = "objColon" /\ q.phase = "colon" /\ h.status = "reading"
        BY <1>1, <2>4, <2>5
      <3>2. QED  BY <2>8, <2>9, <3>1 DEF Mirror
    <2>11. QED  BY <2>1, <2>2, <2>5, <2>10 DEF Agree
  <1>5. CASE p.phase = "obj_open" /\ t.kind \notin {"}", "string"}
    <2>1. PyStep(p, t) = PyFail(p)  BY <1>5 DEF PyStep, PyObjOpen
    <2>2. GoStep(g, t) = GoFail(g)
      <3> HIDE DEF n
      <3>1. Top(g.stack).ph = "objKeyOrClose" /\ ~g.rootDone /\ g.stack # <<>>
        BY <1>1, <1>2, <1>5
      <3>2. QED  BY <1>5, <3>1 DEF GoStep, GoEnd, GoBuild, GoName
    <2>3. QED  BY <1>2, <2>1, <2>2, BothFail
  <1>6. CASE p.phase = "arr_open" /\ t.kind # "]"
    <2> DEFINE f == ArrayFrame
               q == PyPush(p, "value", f)
    <2>1. PyStep(p, t) = PyValue(q, t)  BY <1>6 DEF PyStep, PyArrOpen, PyPush
    <2>2. GoStep(g, t) = GoTakes(g, t)
      <3> HIDE DEF n
      <3>1. Top(g.stack).ph = "arrValOrClose" /\ ~g.rootDone /\ g.stack # <<>>
        BY <1>1, <1>2, <1>6
      <3>2. QED  BY <1>6, <3>1 DEF GoStep, GoEnd, GoBuild, GoElement, GoTakes, StartsValue
    <2>3. IsFrame(f) /\ ~f.obj  BY NewFrames
    <2> HIDE DEF f
    <2>4. /\ IsPyState(q) /\ q.phase = "value" /\ Len(q.stack) = n + 1 /\ Top(q.stack) = f
          /\ \A i \in 1..n : q.stack[i] = p.stack[i]
      BY <1>2, <2>3, FramePushed
    <2> HIDE DEF q
    <2>5. WaitingFrame(Top(q.stack), Top(g.stack))
      <3> HIDE DEF n
      <3>1. Top(g.stack).isObj = FALSE  BY <1>1, <1>6
      <3>2. f.obj = FALSE  BY <2>3 DEF IsFrame
      <3>3. QED  BY <2>3, <2>4, <3>1, <3>2 DEF WaitingFrame
    <2>6. Waiting(q, g)
      <3>1. WaitingFrame(q.stack[n + 1], g.stack[n + 1])  BY <1>1, <2>4, <2>5 DEF Top
      <3>2. \A i \in 1..n : WaitingFrame(q.stack[i], g.stack[i])  BY <1>1, <2>4
      <3>3. \A i \in 1..(n + 1) : i \in 1..n \/ i = n + 1  BY <1>2
      <3>4. QED  BY <1>1, <2>4, <3>1, <3>2, <3>3 DEF Waiting
    <2>7. JoinedTo(g, Len(g.stack) - 1)
      <3>1. Len(g.stack) - 1 = n  BY <1>1, <1>2
      <3>2. QED  BY <1>1, <3>1
    <2>8. QED  BY <1>1, <2>1, <2>2, <2>4, <2>6, <2>7, ValueStep
  <1>7. QED  BY <1>3, <1>4, <1>5, <1>6

LEMMA KeyPhase ==
    ASSUME NEW p, NEW g, NEW t, IsPy(p), IsGo(g), g.status = "reading", Mirror(p, g),
           p.phase = "key"
    PROVE  Agree(PyStep(p, t), GoStep(g, t))
  <1> DEFINE n == Len(p.stack)
  <1>1. /\ Settled(p, g) /\ JoinedTo(g, Len(g.stack) - 1) /\ ~g.rootDone
        /\ Top(g.stack).ph = "objKey"
    BY DEF Mirror
  <1>2. /\ Len(g.stack) = n /\ p.stack # <<>> /\ SettledFrame(Top(p.stack), Top(g.stack))
        /\ \A i \in 1..(n - 1) : WaitingFrame(p.stack[i], g.stack[i])
    BY <1>1 DEF Settled
  <1>3. IsPyState(p) /\ n \in Nat \ {0} /\ g.stack # <<>> /\ Top(p.stack).obj
    BY <1>2, Depths DEF IsPy
  <1>4. IsFrame(Top(p.stack))  BY <1>3 DEF IsPyState, Top
  <1>5. /\ Top(p.stack).obj = TRUE /\ Top(g.stack).isObj = TRUE
        /\ Top(g.stack).keys = DOMAIN Top(p.stack).members
    BY <1>2, <1>3, <1>4 DEF IsFrame, SettledFrame
  <1>6. CASE t.kind # "string"
    <2>1. PyStep(p, t) = PyFail(p)  BY <1>6 DEF PyStep, PyKey
    <2>2. GoStep(g, t) = GoFail(g)
      <3> HIDE DEF n
      <3>1. QED  BY <1>1, <1>3, <1>6 DEF GoStep, GoEnd, GoBuild, GoName
    <2>3. QED  BY <1>3, <2>1, <2>2, BothFail
  <1>7. CASE t.kind = "string"
    <2> DEFINE f == [Top(p.stack) EXCEPT !.key = t.text]
               q == PyChange(p, "colon", f)
    <2>1. PyStep(p, t) = q  BY <1>7 DEF PyStep, PyKey, PyChange
    <2>2. /\ IsFrame(f) /\ f.obj = TRUE /\ f.key = t.text
          /\ f.members = Top(p.stack).members
      BY <1>4, <1>5 DEF IsFrame
    <2> HIDE DEF f
    <2>3. /\ q.phase = "colon" /\ q.stack # <<>> /\ Len(q.stack) = n /\ Top(q.stack) = f
          /\ \A i \in 1..(n - 1) : q.stack[i] = p.stack[i]
      BY <1>2, <1>3, <2>2, FrameChanged
    <2> HIDE DEF q
    <2>4. n \in 1..n /\ q.stack[n] = f  BY <1>3, <2>3 DEF Top
    <2>5. CASE t.text \in Top(g.stack).keys
      <3>1. GoStep(g, t) = GoFail(g)
        <4> HIDE DEF n
        <4>1. QED  BY <1>1, <1>3, <1>7, <2>5 DEF GoStep, GoBuild, GoName
      <3>2. Doomed(q)
        <4>1. Len(q.stack) = n /\ q.phase = "colon"  BY <2>3
        <4>2. f.obj /\ f.key \in DOMAIN f.members  BY <1>5, <2>2, <2>5
        <4>3. Pending(q, n)  BY <4>1 DEF Pending
        <4> HIDE DEF n
        <4>4. QED  BY <2>4, <4>1, <4>2, <4>3 DEF Doomed
      <3>3. QED  BY <2>1, <3>1, <3>2, GoFailShape DEF Agree
    <2>6. CASE t.text \notin Top(g.stack).keys
      <3> DEFINE h == GoNames(g, t.text)
      <3>1. GoStep(g, t) = h
        <4> HIDE DEF n
        <4>1. QED  BY <1>1, <1>3, <1>7, <2>6 DEF GoStep, GoBuild, GoName, GoNames, GoStacked, Named
      <3>2. /\ IsGo(h) /\ h.status = g.status /\ h.rootDone = g.rootDone
            /\ Len(h.stack) = Len(g.stack)
            /\ Top(h.stack).ph = "objColon" /\ AddedKey(Top(h.stack), Top(g.stack), t.text)
            /\ \A i \in 1..(Len(g.stack) - 1) : h.stack[i] = g.stack[i]
        BY <1>3, GoNamed
      <3> HIDE DEF h
      <3>3. Len(h.stack) = n /\ \A i \in 1..(n - 1) : h.stack[i] = g.stack[i]
        BY <1>2, <3>2
      <3>4. WaitingFrame(f, Top(h.stack))
        <4> HIDE DEF n
        <4>1. QED  BY <1>5, <2>2, <2>6, <3>2 DEF WaitingFrame, AddedKey
      <3>5. Waiting(q, h)
        <4>1. WaitingFrame(q.stack[n], h.stack[n])  BY <2>4, <3>3, <3>4 DEF Top
        <4>2. \A i \in 1..(n - 1) : WaitingFrame(q.stack[i], h.stack[i])  BY <1>2, <2>3, <3>3
        <4>3. \A i \in 1..n : i \in 1..(n - 1) \/ i = n  BY <1>3
        <4>4. QED  BY <2>3, <3>3, <4>1, <4>2, <4>3 DEF Waiting
      <3>6. JoinedTo(h, Len(h.stack) - 1)
        <4>1. JoinedTo(g, n - 1)  BY <1>1, <1>2
        <4> HIDE DEF n
        <4>2. QED  BY <3>3, <4>1 DEF JoinedTo
      <3>7. Mirror(q, h) /\ h.status = "reading"
        <4> HIDE DEF n
        <4>1. ~h.rootDone /\ Top(h.stack).ph = "objColon" /\ q.phase = "colon" /\ h.status = "reading"
          BY <1>1, <2>3, <3>2
        <4>2. QED  BY <3>5, <3>6, <4>1 DEF Mirror
      <3>8. QED  BY <2>1, <3>1, <3>2, <3>7 DEF Agree
    <2>7. QED  BY <2>5, <2>6
  <1>8. QED  BY <1>6, <1>7

LEMMA ColonPhase ==
    ASSUME NEW p, NEW g, NEW t, IsPy(p), IsGo(g), g.status = "reading", Mirror(p, g),
           p.phase = "colon"
    PROVE  Agree(PyStep(p, t), GoStep(g, t))
  <1>1. /\ Waiting(p, g) /\ JoinedTo(g, Len(g.stack) - 1) /\ ~g.rootDone
        /\ Top(g.stack).ph = "objColon" /\ p.stack # <<>> /\ Top(p.stack).obj /\ IsPyState(p)
    BY DEF Mirror, IsPy
  <1>2. g.stack # <<>> /\ Len(g.stack) = Len(p.stack)  BY <1>1, Depths DEF Waiting
  <1>3. CASE t.kind # ":"
    <2>1. PyStep(p, t) = PyFail(p)  BY <1>3 DEF PyStep, PyColon
    <2>2. GoStep(g, t) = GoFail(g)  BY <1>1, <1>2, <1>3 DEF GoStep, GoEnd, GoBuild
    <2>3. QED  BY <1>1, <2>1, <2>2, BothFail
  <1>4. CASE t.kind = ":"
    <2> DEFINE q == PyTo(p, "value")
               h == InPhase(g, "objValue")
               n == Len(p.stack)
    <2>1. PyStep(p, t) = q  BY <1>4 DEF PyStep, PyColon, PyTo
    <2>2. GoStep(g, t) = h  BY <1>1, <1>2, <1>4 DEF GoStep, GoBuild
    <2>3. q.phase = "value" /\ q.stack = p.stack  BY <1>1, PhaseChanged
    <2>4. /\ IsGo(h) /\ h.status = g.status /\ h.rootDone = g.rootDone
          /\ Len(h.stack) = Len(g.stack)
          /\ Top(h.stack).ph = "objValue" /\ SameFrame(Top(h.stack), Top(g.stack))
          /\ \A i \in 1..(Len(g.stack) - 1) : h.stack[i] = g.stack[i]
      BY <1>2, InPhaseShape
    <2> HIDE DEF q, h
    <2>5. Len(h.stack) = n /\ \A i \in 1..(n - 1) : h.stack[i] = g.stack[i]  BY <1>2, <2>4
    <2>6. n \in Nat \ {0}  BY <1>1, <1>2, Depths
    <2>7. Waiting(q, h)
      <3>1. WaitingFrame(p.stack[n], g.stack[n])  BY <2>6, <1>1 DEF Waiting
      <3>2. WaitingFrame(p.stack[n], h.stack[n])
        <4>1. SameFrame(h.stack[n], g.stack[n])  BY <1>2, <2>4, <2>5 DEF Top
        <4>2. QED  BY <3>1, <4>1 DEF WaitingFrame, SameFrame
      <3>3. \A i \in 1..(n - 1) : i \in 1..n /\ WaitingFrame(p.stack[i], h.stack[i])
        BY <1>1, <2>5, <2>6 DEF Waiting
      <3>4. \A i \in 1..n : i \in 1..(n - 1) \/ i = n  BY <2>6
      <3>5. QED  BY <2>3, <2>5, <3>2, <3>3, <3>4 DEF Waiting
    <2>8. JoinedTo(h, Len(h.stack) - 1)
      <3>1. JoinedTo(g, n - 1)  BY <1>1, <1>2
      <3> HIDE DEF n
      <3>2. QED  BY <2>5, <3>1 DEF JoinedTo
    <2>9. Mirror(q, h) /\ h.status = "reading"
      <3> HIDE DEF n
      <3>1. /\ ~h.rootDone /\ Top(h.stack).ph = "objValue" /\ q.phase = "value" /\ h.status = "reading"
            /\ q.stack # <<>> /\ Top(q.stack).obj
        BY <1>1, <2>3, <2>4
      <3>2. QED  BY <2>7, <2>8, <3>1 DEF Mirror
    <2>10. QED  BY <2>1, <2>2, <2>4, <2>9 DEF Agree
  <1>5. QED  BY <1>3, <1>4

LEMMA NextPhases ==
    ASSUME NEW p, NEW g, NEW t, IsPy(p), IsGo(g), g.status = "reading", Mirror(p, g),
           p.phase \in {"obj_next", "arr_next"}
    PROVE  Agree(PyStep(p, t), GoStep(g, t))
  <1> DEFINE n     == Len(p.stack)
             obj   == p.phase = "obj_next"
             close == IF obj THEN "}" ELSE "]"
             ph    == IF obj THEN "objKey" ELSE "arrVal"
  <1>1. Settled(p, g) /\ JoinedTo(g, Len(g.stack)) /\ ~g.rootDone  BY DEF Mirror
  <1>2. /\ Len(g.stack) = n /\ p.stack # <<>> /\ SettledFrame(Top(p.stack), Top(g.stack))
        /\ \A i \in 1..(n - 1) : WaitingFrame(p.stack[i], g.stack[i])
    BY <1>1 DEF Settled
  <1>3. IsPyState(p) /\ n \in Nat \ {0} /\ g.stack # <<>>  BY <1>2, Depths DEF IsPy
  <1>4. Top(p.stack).obj = obj /\ Top(g.stack).isObj = obj
    <2>1. IsFrame(Top(p.stack))  BY <1>3 DEF IsPyState, Top
    <2>2. Top(p.stack).obj = obj  BY <2>1 DEF IsPy, IsFrame
    <2> HIDE DEF n
    <2>3. QED  BY <1>2, <2>2 DEF SettledFrame
  <1>5. Top(g.stack).ph = IF obj THEN "objCommaOrClose" ELSE "arrCommaOrClose"
    <2>1. Top(g.stack).ph = Between(Top(g.stack))  BY <1>1, <1>2, <1>3 DEF JoinedTo, Top
    <2> HIDE DEF n
    <2>2. QED  BY <1>4, <2>1 DEF Between
  <1>6. GoStep(g, t) = IF t.kind = "," THEN InPhase(g, ph)
                       ELSE IF t.kind = close THEN GoPop(g) ELSE GoFail(g)
    <2> HIDE DEF n
    <2>1. ~g.rootDone /\ g.stack # <<>>  BY <1>1, <1>3
    <2>2. QED  BY <1>5, <2>1 DEF GoStep, GoEnd, GoBuild, GoNext
  <1>7. CASE t.kind = ","
    <2> DEFINE m == IF obj THEN "key" ELSE "value"
               q == PyTo(p, m)
               h == InPhase(g, ph)
    <2>1. PyStep(p, t) = q /\ GoStep(g, t) = h
      BY <1>6, <1>7 DEF PyStep, PyObjNext, PyArrNext, PyTo
    <2>2. q.phase = m /\ q.stack = p.stack  BY <1>3, PhaseChanged
    <2>3. /\ IsGo(h) /\ h.status = g.status /\ h.rootDone = g.rootDone
          /\ Len(h.stack) = Len(g.stack)
          /\ Top(h.stack).ph = ph /\ SameFrame(Top(h.stack), Top(g.stack))
          /\ \A i \in 1..(Len(g.stack) - 1) : h.stack[i] = g.stack[i]
      BY <1>3, InPhaseShape
    <2> HIDE DEF q, h
    <2>4. Len(h.stack) = n /\ \A i \in 1..(n - 1) : h.stack[i] = g.stack[i]  BY <1>2, <2>3
    <2>5. JoinedTo(h, Len(h.stack) - 1)
      <3>1. \A i \in 1..(n - 1) : i \in 1..n  BY <1>3
      <3>2. JoinedTo(g, n)  BY <1>1, <1>2
      <3> HIDE DEF n
      <3>3. QED  BY <2>4, <3>1, <3>2 DEF JoinedTo
    <2>6. SettledFrame(Top(q.stack), Top(h.stack))
      <3> HIDE DEF n
      <3>1. QED  BY <1>2, <2>2, <2>3 DEF SettledFrame, SameFrame
    <2>7. /\ Len(h.stack) = Len(q.stack) /\ q.stack # <<>> /\ Len(q.stack) = n
          /\ \A i \in 1..(n - 1) : WaitingFrame(q.stack[i], h.stack[i])
      BY <1>2, <2>2, <2>4
    <2>8. h.status = "reading" /\ ~h.rootDone /\ Top(h.stack).ph = ph  BY <1>1, <2>3
    <2>9. CASE obj
      <3>1. Settled(q, h)  BY <2>6, <2>7 DEF Settled
      <3>2. q.phase = "key" /\ Top(h.stack).ph = "objKey"  BY <2>2, <2>8, <2>9
      <3>3. Mirror(q, h)  BY <2>5, <2>8, <3>1, <3>2 DEF Mirror
      <3>4. QED  BY <2>1, <2>3, <2>8, <3>3 DEF Agree
    <2>10. CASE ~obj
      <3>1. WaitingFrame(Top(q.stack), Top(h.stack)) /\ ~Top(q.stack).obj
        <4> HIDE DEF n
        <4>1. Top(q.stack).obj = FALSE  BY <1>4, <2>2, <2>10
        <4>2. QED  BY <2>6, <4>1 DEF SettledFrame, WaitingFrame
      <3>2. Waiting(q, h)
        <4>1. WaitingFrame(q.stack[n], h.stack[n])  BY <2>4, <2>7, <3>1 DEF Top
        <4>2. \A i \in 1..n : i \in 1..(n - 1) \/ i = n  BY <1>3
        <4>3. QED  BY <2>7, <4>1, <4>2 DEF Waiting
      <3>3. q.phase = "value" /\ Top(h.stack).ph = "arrVal"  BY <2>2, <2>8, <2>10
      <3>4. Mirror(q, h)  BY <2>5, <2>8, <3>1, <3>2, <3>3 DEF Mirror
      <3>5. QED  BY <2>1, <2>3, <2>8, <3>4 DEF Agree
    <2>11. QED  BY <2>9, <2>10
  <1>8. CASE t.kind = close
    <2> DEFINE r == PyPop(p)
    <2>1. \E v : PyStep(p, t) = PyDeliver(r, v)
      BY <1>8 DEF PyStep, PyObjNext, PyArrNext, PyPop
    <2>2. GoStep(g, t) = GoPop(g)  BY <1>6, <1>8
    <2>3. /\ IsPyState(r) /\ Len(r.stack) = n - 1
          /\ \A i \in 1..(n - 1) : r.stack[i] = p.stack[i]
      BY <1>2, <1>3, FramePopped
    <2> HIDE DEF r
    <2>4. Len(g.stack) = Len(r.stack) + 1  BY <1>2, <1>3, <2>3
    <2>5. JoinedTo(g, Len(r.stack))
      <3>1. \A i \in 1..(n - 1) : i \in 1..n  BY <1>3
      <3>2. JoinedTo(g, n)  BY <1>1, <1>2
      <3> HIDE DEF n
      <3>3. QED  BY <2>3, <3>1, <3>2 DEF JoinedTo
    <2>6. \A i \in 1..Len(r.stack) : WaitingFrame(r.stack[i], g.stack[i])  BY <1>2, <2>3
    <2>7. QED  BY <2>1, <2>2, <2>3, <2>4, <2>5, <2>6, Closed
  <1>9. CASE t.kind \notin {",", close}
    <2>1. PyStep(p, t) = PyFail(p)  BY <1>9 DEF PyStep, PyObjNext, PyArrNext
    <2>2. GoStep(g, t) = GoFail(g)  BY <1>6, <1>9
    <2>3. QED  BY <1>3, <2>1, <2>2, BothFail
  <1>10. QED  BY <1>7, <1>8, <1>9

LEMMA DonePhase ==
    ASSUME NEW p, NEW g, NEW t, IsPy(p), IsGo(g), g.status = "reading", Mirror(p, g),
           p.phase = "done"
    PROVE  Agree(PyStep(p, t), GoStep(g, t))
  <1>1. g.stack = <<>> /\ g.rootDone /\ IsPyState(p)  BY DEF Mirror, IsPy
  <1>2. PyStep(p, t) = PyDone(p, t)  BY DEF PyStep
  <1>3. CASE t.kind = "end"
    <2> DEFINE q == PyTo(p, "accepted")
               h == [g EXCEPT !.status = "accepted"]
    <2>1. PyStep(p, t) = q /\ GoStep(g, t) = h
      BY <1>1, <1>2, <1>3 DEF PyDone, PyTo, GoStep, GoEnd
    <2>2. q.phase = "accepted"  BY <1>1, PhaseChanged
    <2>3. IsGo(h) /\ h.status = "accepted"  BY DEF IsGo
    <2>4. QED  BY <2>1, <2>2, <2>3 DEF Agree
  <1>4. CASE t.kind # "end"
    <2>1. PyStep(p, t) = PyFail(p) /\ GoStep(g, t) = GoFail(g)
      BY <1>1, <1>2, <1>4 DEF PyDone, GoStep, GoBuild
    <2>2. QED  BY <1>1, <2>1, BothFail
  <1>5. QED  BY <1>3, <1>4

\* Every token keeps the invariant.
LEMMA StepAgrees ==
    ASSUME NEW p, NEW g, NEW t, ParserInv(p, g)
    PROVE  ParserInv(PyStep(p, t), GoStep(g, t))
  <1>1. IsPy(p) /\ IsGo(g) /\ IsPy(PyStep(p, t))  BY PyStepShape DEF ParserInv
  <1>2. CASE g.status = "reading"
    <2>1. Mirror(p, g)  BY <1>2 DEF ParserInv
    <2>2. p.phase \notin {"accepted", "rejected"}  BY <2>1 DEF Mirror
    <2>3. Agree(PyStep(p, t), GoStep(g, t))
      BY <1>1, <1>2, <2>1, <2>2, ValuePhase, OpenPhases, KeyPhase, ColonPhase, NextPhases, DonePhase
         DEF IsPy, Phases
    <2>4. QED  BY <1>1, <2>3 DEF ParserInv, Agree
  <1>3. CASE g.status = "accepted"
    <2>1. p.phase = "accepted"  BY <1>3 DEF ParserInv
    <2>2. PyStep(p, t) = p /\ GoStep(g, t) = g  BY <1>3, <2>1 DEF PyStep, GoStep
    <2>3. QED  BY <2>2
  <1>4. CASE g.status = "rejected"
    <2>1. GoStep(g, t) = g  BY <1>4 DEF GoStep
    <2>2. PyStep(p, t).phase = "rejected" \/ Doomed(PyStep(p, t))
      BY <1>1, <1>4, PyStepShape DEF ParserInv
    <2>3. QED  BY <1>1, <1>4, <2>1, <2>2 DEF ParserInv
  <1>5. QED  BY <1>1, <1>2, <1>3, <1>4 DEF IsGo

LEMMA StartAgrees == ParserInv(PyStart, GoStart)
  <1>0. IsStack(<<>>) /\ Len(<<>>) = 0  BY EmptySeq DEF IsStack
  <1> DEFINE p == PyStart
             g == GoStart
  <1>1. DOMAIN p = {"phase", "stack", "value"} /\ p.phase = "value" /\ p.stack = <<>>
    BY DEF PyStart
  <1>2. /\ DOMAIN g = {"status", "heap", "stack", "rootDone"} /\ g.status = "reading"
        /\ g.stack = <<>> /\ g.rootDone = FALSE
    BY DEF GoStart
  <1> HIDE DEF p, g
  <1>3. Len(p.stack) = 0 /\ Len(g.stack) = 0 /\ IsStack(p.stack) /\ IsStack(g.stack)
    BY <1>0, <1>1, <1>2
  <1>4. (\A i \in 1..Len(p.stack) : IsFrame(p.stack[i])) /\ \A i \in 1..Len(g.stack) : IsGoFrame(g.stack[i])
    BY <1>3
  <1>5. IsPy(p)  BY <1>1, <1>3, <1>4 DEF IsPy, IsPyState, Phases
  <1>6. IsGo(g)  BY <1>2, <1>3, <1>4 DEF IsGo
  <1>7. Waiting(p, g) /\ JoinedTo(g, Len(g.stack) - 1)  BY <1>3 DEF Waiting, JoinedTo
  <1>8. Mirror(p, g)  BY <1>1, <1>2, <1>7 DEF Mirror
  <1>9. QED  BY <1>2, <1>5, <1>6, <1>8 DEF ParserInv, p, g

\* What the invariant says of the outcomes: an accepting Python parser has no
\* frame left to be doomed, and a parser that rejects a text is never ahead
\* of one that goes on to accept it.
LEMMA InvAgrees ==
    ASSUME ParserInv(py, go)
    PROVE  AgreeOnDocuments
  <1>1. IsPy(py) /\ IsGo(go)  BY DEF ParserInv
  <1>2. go.status = "reading" => py.phase \notin {"accepted", "rejected"}
    BY DEF ParserInv, Mirror
  <1>3. py.phase = "accepted" => ~Doomed(py)
    <2>1. py.phase = "accepted" => Len(py.stack) = 0  BY <1>1, Depths DEF IsPy
    <2>2. QED  BY <2>1 DEF Doomed
  <1>4. QED  BY <1>1, <1>2, <1>3 DEF ParserInv, IsGo, AgreeOnDocuments

\* The Python and the Go parser accept the same texts, for every text: of any
\* length and nesting, with any names and scalars (parse_document of
\* json_input.py and buildValue of value.go).
THEOREM DocumentsAgree == Spec => []AgreeOnDocuments
  <1>1. Init => ParserInv(py, go)  BY StartAgrees DEF Init
  <1>2. ParserInv(py, go) /\ [Next]_vars => ParserInv(py, go)'
    <2>1. ASSUME ParserInv(py, go), NEW t \in Tokens, Read(t)  PROVE ParserInv(py, go)'
      BY <2>1, StepAgrees DEF Read
    <2>2. ASSUME ParserInv(py, go), UNCHANGED vars  PROVE ParserInv(py, go)'
      BY <2>2 DEF vars
    <2>3. QED  BY <2>1, <2>2 DEF Next
  <1>3. ParserInv(py, go) => AgreeOnDocuments  BY InvAgrees
  <1>4. QED  BY <1>1, <1>2, <1>3, PTL DEF Spec

-----------------------------------------------------------------------------
(***************************************************************************)
(* Cursors.                                                                *)
(***************************************************************************)
Bytes == 0..255

\* Three bytes in one number, and the same in characters.
LEMMA GroupOfCharacters ==
    ASSUME NEW G \in Nat, G < 16777216
    PROVE  ((G \div 262144) % 64) * 262144 + ((G \div 4096) % 64) * 4096
             + ((G \div 64) % 64) * 64 + (G % 64) = G
<1>1. \A x \in Nat : x = 64 * (x \div 64) + (x % 64) /\ x \div 64 \in Nat
    BY SMT
<1>2. (G \div 64) \div 64 = G \div 4096 /\ (G \div 4096) \div 64 = G \div 262144
    BY SMT
<1>3. G \div 262144 \in Nat /\ G \div 262144 <= 63
    BY SMT
<1>4. (G \div 262144) % 64 = G \div 262144
    BY <1>3, SMT
<1>5. /\ G = 64 * (G \div 64) + (G % 64) /\ G \div 64 \in Nat
      /\ G \div 64 = 64 * (G \div 4096) + ((G \div 64) % 64) /\ G \div 4096 \in Nat
      /\ G \div 4096 = 64 * (G \div 262144) + ((G \div 4096) % 64)
    BY <1>1, <1>2, SMT
<1> QED  BY <1>4, <1>5, SMT

LEMMA GroupOfBytes ==
    ASSUME NEW a \in Bytes, NEW b \in Bytes, NEW c \in Bytes, NEW G, G = a * 65536 + b * 256 + c
    PROVE  /\ G \in Nat /\ G < 16777216
           /\ (G \div 65536) % 256 = a /\ (G \div 256) % 256 = b /\ (G \div 1) % 256 = c
<1>1. /\ a \in Nat /\ a < 256 /\ b \in Nat /\ b < 256 /\ c \in Nat /\ c < 256
    BY SMT DEF Bytes
<1>2. G \in Nat /\ G < 16777216
    BY <1>1, SMT
<1>3. G \div 65536 = a /\ G \div 256 = a * 256 + b
    BY <1>1, SMT
<1>4. \A x, y \in Nat : y < 256 => (x * 256 + y) % 256 = y
    BY SMT
<1>5. a % 256 = a /\ (a * 256 + b) % 256 = b
    BY <1>1, <1>4, SMT
<1>6. (G \div 1) % 256 = c
    <2>1. a * 256 + b \in Nat /\ G \div 1 = (a * 256 + b) * 256 + c
        BY <1>1, SMT
    <2> QED  BY <1>1, <1>4, <2>1, SMT
<1> QED  BY <1>2, <1>3, <1>5, <1>6, SMT

LEMMA Weights ==
    /\ CharWeight[1] = 262144 /\ CharWeight[2] = 4096 /\ CharWeight[3] = 64 /\ CharWeight[4] = 1
    /\ ByteWeight[1] = 65536 /\ ByteWeight[2] = 256 /\ ByteWeight[3] = 1
    BY SMT DEF CharWeight, ByteWeight

\* What b64decode reads from what b64encode wrote are the bytes, whatever is
\* cut off and padded at the end.
LEMMA Base64ReadsBack ==
    ASSUME NEW bytes \in Seq(Bytes)
    PROVE  /\ EncodeBase64(bytes) \in Seq(0..63)
           /\ Len(EncodeBase64(bytes)) = (4 * Len(bytes) + 2) \div 3
           /\ DecodeBase64(EncodeBase64(bytes)) = bytes
<1> DEFINE n == Len(bytes)
           k == (4 * n + 2) \div 3
           byte == [i \in Nat |-> IF i <= n THEN bytes[i] ELSE 0]
           B1 == [g \in Nat |-> byte[3 * g + 1]]
           B2 == [g \in Nat |-> byte[3 * g + 2]]
           B3 == [g \in Nat |-> byte[3 * g + 3]]
           G == [g \in Nat |-> B1[g] * 65536 + B2[g] * 256 + B3[g]]
           token == EncodeBase64(bytes)
           char == [j \in Nat |-> IF j <= k THEN token[j] ELSE 0]
           H == [g \in Nat |-> char[4 * g + 1] * 262144 + char[4 * g + 2] * 4096
                                 + char[4 * g + 3] * 64 + char[4 * g + 4]]
<1>1. n \in Nat /\ k \in Nat /\ (3 * k) \div 4 = n
    BY SMT
<1>2. token = [j \in 1..k |-> (G[(j - 1) \div 4] \div CharWeight[((j - 1) % 4) + 1]) % 64]
    BY SMT DEF EncodeBase64
<1>3. \A i \in Nat : i > 0 => byte[i] \in Bytes
    BY <1>1, SMT DEF Bytes
<1>4. \A i \in Nat : byte[i] = IF i <= n THEN bytes[i] ELSE 0
    OBVIOUS
<1> HIDE DEF byte
<1>5. /\ \A g \in Nat : B1[g] = byte[3 * g + 1]
      /\ \A g \in Nat : B2[g] = byte[3 * g + 2]
      /\ \A g \in Nat : B3[g] = byte[3 * g + 3]
    BY SMT
<1>6. \A g \in Nat : B1[g] \in Bytes /\ B2[g] \in Bytes /\ B3[g] \in Bytes
    BY <1>3, <1>5, SMT
<1> HIDE DEF B1, B2, B3
<1>7. \A g \in Nat : G[g] = B1[g] * 65536 + B2[g] * 256 + B3[g]
    BY SMT
<1> HIDE DEF G
<1>8. ASSUME NEW g \in Nat
      PROVE  /\ G[g] \in Nat /\ G[g] < 16777216
             /\ (G[g] \div 65536) % 256 = B1[g]
             /\ (G[g] \div 256) % 256 = B2[g]
             /\ (G[g] \div 1) % 256 = B3[g]
    <2>1. PICK a \in Bytes, b \in Bytes, c \in Bytes :
            a = B1[g] /\ b = B2[g] /\ c = B3[g] /\ G[g] = a * 65536 + b * 256 + c
        BY <1>6, <1>7, SMT
    <2>2. PICK x : x = G[g]
        OBVIOUS
    <2>3. x = a * 65536 + b * 256 + c
        BY <2>1, <2>2
    <2>4. /\ x \in Nat /\ x < 16777216
          /\ (x \div 65536) % 256 = a /\ (x \div 256) % 256 = b /\ (x \div 1) % 256 = c
        BY <2>3, GroupOfBytes, SMT
    <2> QED  BY <2>1, <2>2, <2>4, SMT
<1>9. ASSUME NEW j \in 1..k
      PROVE  token[j] \in 0..63
    <2>1. PICK g \in Nat, r \in 1..4 : g = (j - 1) \div 4 /\ r = ((j - 1) % 4) + 1
        BY <1>1, SMT
    <2>2. token[j] = (G[g] \div CharWeight[r]) % 64
        BY <1>2, <2>1, SMT
    <2>3. G[g] \in Nat
        BY <1>8, SMT
    <2>4. CharWeight[r] \in {1, 64, 4096, 262144}
        BY Weights, SMT
    <2>5. PICK x \in Nat : x = G[g] \div CharWeight[r]
        BY <2>3, <2>4, SMT
    <2>6. x % 64 \in 0..63
        BY SMT
    <2> QED  BY <2>2, <2>5, <2>6
<1>10. token \in Seq(0..63) /\ Len(token) = k
    <2>1. token = [j \in 1..k |-> token[j]]
        BY <1>2, Zenon
    <2> HIDE DEF token, k
    <2>2. token \in [1..k -> 0..63]
        BY <1>9, <2>1, SMT
    <2> QED  BY <1>1, <2>2, SMT
<1>11. ASSUME NEW g \in Nat, 3 * g + 1 <= n
       PROVE  H[g] = G[g]
    <2> DEFINE x == G[g]
    <2>1. x \in Nat /\ x < 16777216 /\ x \div 1 = x
        BY <1>8, SMT
    <2>2. ASSUME NEW j \in 1..4, NEW m \in Nat, m = 4 * g + j
          PROVE  char[m] = IF m <= k THEN (x \div CharWeight[j]) % 64 ELSE 0
        <3>1. CASE m <= k
            <4>1. m \in 1..k /\ (m - 1) \div 4 = g /\ ((m - 1) % 4) + 1 = j
                BY <1>1, <2>2, <3>1, SMT
            <4>2. token[m] = (x \div CharWeight[j]) % 64
                BY <1>2, <4>1, SMT
            <4> QED  BY <3>1, <4>2, SMT
        <3>2. CASE ~(m <= k)
            BY <3>2, SMT
        <3> QED  BY <3>1, <3>2, SMT
    <2>3. H[g] = char[4 * g + 1] * 262144 + char[4 * g + 2] * 4096 + char[4 * g + 3] * 64 + char[4 * g + 4]
        BY SMT
    <2> HIDE DEF char, token, H
    <2>4. PICK m1 \in Nat, m2 \in Nat, m3 \in Nat, m4 \in Nat :
            m1 = 4 * g + 1 /\ m2 = 4 * g + 2 /\ m3 = 4 * g + 3 /\ m4 = 4 * g + 4
        BY SMT
    <2>5. PICK i1 \in Nat, i2 \in Nat, i3 \in Nat : i1 = 3 * g + 1 /\ i2 = 3 * g + 2 /\ i3 = 3 * g + 3
        BY SMT
    <2>6. m1 <= k /\ m2 <= k /\ (~(m3 <= k) => ~(i2 <= n) /\ ~(i3 <= n)) /\ (~(m4 <= k) => ~(i3 <= n))
        BY <1>1, <1>11, <2>4, <2>5, SMT
    <2> HIDE DEF k, n
    <2>7. char[m1] = (x \div 262144) % 64 /\ char[m2] = (x \div 4096) % 64
        <3>1. 1 \in 1..4 /\ 2 \in 1..4
            OBVIOUS
        <3>2. char[m1] = (x \div CharWeight[1]) % 64
            BY <2>2, <2>4, <2>6, <3>1, SMT
        <3>3. char[m2] = (x \div CharWeight[2]) % 64
            BY <2>2, <2>4, <2>6, <3>1, SMT
        <3> QED  BY <3>2, <3>3, Weights, SMT
    <2> DEFINE a == B1[g]
               b == B2[g]
               c == B3[g]
    <2>8. /\ x = a * 65536 + b * 256 + c
          /\ a \in Nat /\ b \in Nat /\ c \in Nat
          /\ b = byte[i2] /\ c = byte[i3]
        <3>1. B2[g] = byte[3 * g + 2] /\ B3[g] = byte[3 * g + 3]
            BY <1>5, Zenon
        <3>2. b = byte[i2] /\ c = byte[i3]
            BY <2>5, <3>1
        <3>3. a \in Nat /\ b \in Nat /\ c \in Nat
            <4>1. a \in Bytes /\ b \in Bytes /\ c \in Bytes
                BY <1>6
            <4> HIDE DEF a, b, c
            <4> QED  BY <4>1 DEF Bytes
        <3>4. x = a * 65536 + b * 256 + c
            BY <1>7, SMT
        <3> QED  BY <3>2, <3>3, <3>4
    <2> HIDE DEF x, a, b, c
    <2>9. char[m3] = (x \div 64) % 64
        <3>1. CASE m3 <= k
            <4>1. char[m3] = (x \div CharWeight[3]) % 64
                BY <2>2, <2>4, <3>1, SMT
            <4> QED  BY <4>1, Weights, SMT
        <3>2. CASE ~(m3 <= k)
            <4>1. char[m3] = 0
                BY <2>2, <2>4, <3>2, SMT
            <4>2. byte[i2] = 0 /\ byte[i3] = 0
                BY <1>4, <2>6, <3>2, SMT
            <4>3. (x \div 64) % 64 = 0
                BY <2>8, <4>2, SMT
            <4> QED  BY <4>1, <4>3
        <3> QED  BY <3>1, <3>2
    <2>10. char[m4] = x % 64
        <3>1. CASE m4 <= k
            <4>1. char[m4] = (x \div CharWeight[4]) % 64
                BY <2>2, <2>4, <3>1, SMT
            <4> QED  BY <2>1, <4>1, Weights, SMT
        <3>2. CASE ~(m4 <= k)
            <4>1. char[m4] = 0
                BY <2>2, <2>4, <3>2, SMT
            <4>2. c = 0
                BY <1>4, <2>6, <2>8, <3>2, SMT
            <4>3. x % 64 = 0
                BY <2>8, <4>2, SMT
            <4> QED  BY <4>1, <4>3, SMT
        <3> QED  BY <3>1, <3>2
    <2>11. H[g] = x
        BY <2>1, <2>3, <2>4, <2>7, <2>9, <2>10, GroupOfCharacters, SMT
    <2> QED  BY <2>11 DEF x
<1>12. DecodeBase64(token) = [i \in 1..n |-> (H[(i - 1) \div 3] \div ByteWeight[((i - 1) % 3) + 1]) % 256]
    <2> HIDE DEF token
    <2> QED  BY <1>1, <1>10, SMT DEF DecodeBase64
<1> HIDE DEF H, token
<1>13. ASSUME NEW i \in 1..n
       PROVE  (H[(i - 1) \div 3] \div ByteWeight[((i - 1) % 3) + 1]) % 256 = bytes[i]
    <2>1. PICK g \in Nat, r \in 1..3 : g = (i - 1) \div 3 /\ r = ((i - 1) % 3) + 1 /\ i = 3 * g + r
        BY <1>1, SMT
    <2>2. H[g] = G[g]
        BY <1>1, <1>11, <2>1, SMT
    <2>3. byte[i] = bytes[i]
        BY <1>1, <1>4, SMT
    <2>4. (G[g] \div ByteWeight[r]) % 256 = byte[i]
        <3>1. CASE r = 1
            <4>1. B1[g] = byte[3 * g + 1] /\ i = 3 * g + 1
                BY <1>5, <2>1, <3>1, Zenon
            <4> QED  BY <1>8, <3>1, <4>1, Weights, SMT
        <3>2. CASE r = 2
            <4>1. B2[g] = byte[3 * g + 2] /\ i = 3 * g + 2
                BY <1>5, <2>1, <3>2, Zenon
            <4> QED  BY <1>8, <3>2, <4>1, Weights, SMT
        <3>3. CASE r = 3
            <4>1. B3[g] = byte[3 * g + 3] /\ i = 3 * g + 3
                BY <1>5, <2>1, <3>3, Zenon
            <4> QED  BY <1>8, <3>3, <4>1, Weights, SMT
        <3> QED  BY <3>1, <3>2, <3>3, SMT
    <2> QED  BY <2>1, <2>2, <2>3, <2>4, SMT
<1>14. [i \in 1..n |-> (H[(i - 1) \div 3] \div ByteWeight[((i - 1) % 3) + 1]) % 256] = bytes
    <2>1. bytes = [i \in 1..n |-> bytes[i]]
        BY SMT
    <2> QED  BY <1>13, <2>1, SMT
<1> QED  BY <1>10, <1>12, <1>14, SMT DEF token

DecimalDigits == decimal \in Seq(0..9)

\* A cursor is taken back for the number it was made of, at every length.
THEOREM CursorsReadBack == CursorInit /\ [][CursorNext]_decimal => []CursorReadsBack
<1>1. CursorInit => DecimalDigits
    BY DEF CursorInit, DecimalDigits
<1>2. DecimalDigits /\ [CursorNext]_decimal => DecimalDigits'
    <2> SUFFICES ASSUME DecimalDigits, NEW d \in CursorDigits, SpellCursor(d) PROVE DecimalDigits'
        BY DEF CursorNext, DecimalDigits
    <2>1. d \in 0..9
        BY CursorAssumption
    <2> QED  BY <2>1 DEF DecimalDigits, SpellCursor
<1>3. DecimalDigits => CursorReadsBack
    <2> SUFFICES ASSUME DecimalDigits, decimal # <<>> PROVE CursorReadsBack
        BY DEF CursorReadsBack
    <2> DEFINE bytes == [i \in DOMAIN decimal |-> ByteOf(decimal[i])]
               token == EncodeCursor(decimal)
               n == Decimal(bytes)
               len == Len(decimal)
    <2>1. len \in Nat \ {0} /\ DOMAIN decimal = 1..len
        BY DEF DecimalDigits
    <2>2. \A i \in 1..len : ByteOf(decimal[i]) \in 48..57
        BY <2>1 DEF ByteOf, DecimalDigits
    <2>3. /\ bytes \in Seq(Bytes) /\ Len(bytes) = len /\ DOMAIN bytes = 1..len
          /\ \A i \in DOMAIN bytes : bytes[i] \in 48..57
        <3> HIDE DEF len
        <3>1. \A i \in 1..len : ByteOf(decimal[i]) \in Bytes
            BY <2>2 DEF Bytes
        <3> QED  BY <2>1, <2>2, <3>1
    <2>4. token = EncodeBase64(bytes)
        BY DEF EncodeCursor
    <2> HIDE DEF bytes, len
    <2>5. /\ token \in Seq(0..63) /\ Len(token) = (4 * len + 2) \div 3
          /\ DecodeBase64(token) = bytes
        BY <2>3, <2>4, Base64ReadsBack
    <2> HIDE DEF token
    <2>6. Len(token) # 0 /\ Len(token) % 4 # 1
        BY <2>1, <2>5, SMT
    <2>7. IsDecimal(bytes) /\ InAlphabet(token)
        <3>1. bytes # <<>> /\ token # <<>>
            BY <2>1, <2>3, <2>6
        <3>2. \A j \in DOMAIN token : token[j] \in 0..63
            <4> DEFINE S == 0..63
            <4>1. token \in Seq(S)
                BY <2>5
            <4> HIDE DEF S
            <4>2. \A j \in DOMAIN token : token[j] \in S
                BY <4>1
            <4> QED  BY <4>2 DEF S
        <3> QED  BY <2>3, <3>1, <3>2 DEF IsDecimal, InAlphabet
    <2>8. DecodeCursor(token) = n /\ FromCursor(token) = n
        BY <2>5, <2>6, <2>7 DEF DecodeCursor, FromCursor, InAlphabet
    <2> QED  BY <2>7, <2>8 DEF CursorReadsBack, bytes, token
<1> QED  BY <1>1, <1>2, <1>3, PTL

-----------------------------------------------------------------------------
\* A set of naturals that has 0 and with every number its successor has all
\* of them.
LEMMA NaturalsOf ==
    ASSUME NEW S \in SUBSET Nat, 0 \in S, \A n \in S : n + 1 \in S
    PROVE  \A n \in Nat : n \in S
<1> SUFFICES ASSUME NEW k \in Nat, k \notin S PROVE FALSE
    OBVIOUS
<1> DEFINE M == Nat \ S
<1>1. M \in SUBSET Nat /\ M # {}
    OBVIOUS
<1> HIDE DEF M
<1>2. PICK m \in M : \A y \in M : ~(<<y, m>> \in OpToRel(<, Nat))
    BY <1>1, NatLessThanWellFounded, WFMin, Zenon
<1>3. m \in Nat /\ m # 0 /\ m \notin S
    BY <1>1, <1>2 DEF M
<1>4. m - 1 \in Nat /\ (m - 1) + 1 = m
    BY <1>3
<1>5. m - 1 \in M
    BY <1>3, <1>4 DEF M
<1>6. ~(m - 1 < m)
    BY <1>1, <1>2, <1>5 DEF OpToRel
<1> QED  BY <1>3, <1>6

-----------------------------------------------------------------------------
(* The value of a document.  Go's heap is a tree that grows at its leaves;   *)
(* Python's frames hold the complete children of their containers.  V has    *)
(* the value of every node that is closed.                                   *)

\* The value a node of Go's heap stands for, when V has those of its children.
NodeValue(node, V) ==
    CASE node.kind = "object" ->
           [kind |-> "object",
            members |-> [n \in {node.obj[j].name : j \in DOMAIN node.obj} |->
                V[node.obj[CHOOSE j \in DOMAIN node.obj : node.obj[j].name = n].val]]]
      [] node.kind = "array" ->
           [kind |-> "array", els |-> [j \in DOMAIN node.arr |-> V[node.arr[j]]]]
      [] OTHER -> node

\* The children of a node come after it, and the names of an object differ.
IsNode(node, i, n) ==
    /\ node.kind = "object" =>
         /\ DOMAIN node = {"kind", "obj"} /\ IsStack(node.obj)
         /\ \A j \in 1..Len(node.obj) : node.obj[j].val \in (i + 1)..n
         /\ \A j, k \in 1..Len(node.obj) : node.obj[j].name = node.obj[k].name => j = k
    /\ node.kind = "array" =>
         /\ DOMAIN node = {"kind", "arr"} /\ IsStack(node.arr)
         /\ \A j \in 1..Len(node.arr) : node.arr[j] \in (i + 1)..n

Size(node) ==
    IF node.kind = "object" THEN Len(node.obj) ELSE IF node.kind = "array" THEN Len(node.arr) ELSE 0
Kid(node, j) == IF node.kind = "object" THEN node.obj[j].val ELSE node.arr[j]

OnStack(i, vs)    == \E k \in 1..Len(vs) : vs[k] = i
Free(node, c, vs) == \A j \in 1..c : ~OnStack(Kid(node, j), vs)

\* A frame of Python has the values of the first c children of a node.
Has(f, node, c, V) ==
    IF f.obj
    THEN /\ node.kind = "object"
         /\ f.members = [x \in DOMAIN f.members |-> f.members[x]]
         /\ DOMAIN f.members = {node.obj[j].name : j \in 1..c}
         /\ \A j \in 1..c : f.members[node.obj[j].name] = V[node.obj[j].val]
    ELSE node.kind = "array" /\ f.els = [j \in 1..c |-> V[node.arr[j]]]

LastIs(f, node, i) ==
    /\ Size(node) # 0 /\ Kid(node, Size(node)) = i
    /\ f.obj => node.obj[Size(node)].name = f.key

FrameHas(fs, hp, vs, V, k) ==
    IF k < Len(vs)
    THEN /\ LastIs(fs[k], hp[vs[k]], vs[k + 1])
         /\ Has(fs[k], hp[vs[k]], Size(hp[vs[k]]) - 1, V)
         /\ Free(hp[vs[k]], Size(hp[vs[k]]) - 1, vs)
    ELSE Has(fs[k], hp[vs[k]], Size(hp[vs[k]]), V) /\ Free(hp[vs[k]], Size(hp[vs[k]]), vs)

\* The open nodes are different ones, the first of them is the root.
OpenNodes(hp, vs) ==
    /\ IsStack(hp) /\ IsStack(vs)
    /\ \A k \in 1..Len(vs) : vs[k] \in 1..Len(hp)
    /\ \A k, l \in 1..Len(vs) : vs[k] = vs[l] => k = l
    /\ vs # <<>> => vs[1] = 1

Nodes(hp) == \A i \in 1..Len(hp) : IsNode(hp[i], i, Len(hp))

\* A node that is not open has its value, and no open child.
Shut(hp, vs, V) ==
    \A i \in 1..Len(hp) : ~OnStack(i, vs) =>
        V[i] = NodeValue(hp[i], V) /\ Free(hp[i], Size(hp[i]), vs)

Tree(fs, hp, vs, V) ==
    /\ IsStack(fs) /\ DOMAIN V = Nat
    /\ \/ Len(vs) = Len(fs)
       \/ Len(vs) = Len(fs) + 1 /\ Free(hp[Top(vs)], Size(hp[Top(vs)]), vs)
    /\ OpenNodes(hp, vs) /\ Nodes(hp) /\ Shut(hp, vs, V)
    /\ \A k \in 1..Len(fs) : FrameHas(fs, hp, vs, V, k)

LEMMA KidsOf ==
    ASSUME NEW node, NEW i \in Nat, NEW n \in Nat, IsNode(node, i, n)
    PROVE  Size(node) \in Nat /\ \A j \in 1..Size(node) : Kid(node, j) \in (i + 1)..n
  <1>1. CASE node.kind = "object"
    BY <1>1, Bottom DEF IsNode, Size, Kid
  <1>2. CASE node.kind = "array"
    BY <1>2, Bottom DEF IsNode, Size, Kid
  <1>3. CASE node.kind \notin {"object", "array"}
    BY <1>3 DEF Size
  <1>4. QED  BY <1>1, <1>2, <1>3

LEMMA StackDomain ==
    ASSUME NEW s, IsStack(s)
    PROVE  DOMAIN s = 1..Len(s) /\ Len(s) \in Nat
  BY DEF IsStack

\* The value of a node depends on its children.
LEMMA ValueOfKids ==
    ASSUME NEW node, NEW i \in Nat, NEW n \in Nat, IsNode(node, i, n), NEW V, NEW W,
           \A j \in 1..Size(node) : V[Kid(node, j)] = W[Kid(node, j)]
    PROVE  NodeValue(node, V) = NodeValue(node, W)
  <1>1. CASE node.kind = "object"
    <2>1. DOMAIN node.obj = 1..Size(node)  BY <1>1, StackDomain DEF IsNode, Size
    <2> DEFINE names == {node.obj[j].name : j \in DOMAIN node.obj}
               at(x) == CHOOSE j \in DOMAIN node.obj : node.obj[j].name = x
    <2>2. ASSUME NEW x \in names  PROVE V[node.obj[at(x)].val] = W[node.obj[at(x)].val]
      <3>1. PICK j \in DOMAIN node.obj : node.obj[j].name = x  OBVIOUS
      <3>2. at(x) \in DOMAIN node.obj  BY <3>1
      <3> HIDE DEF at
      <3>3. at(x) \in 1..Size(node) /\ Kid(node, at(x)) = node.obj[at(x)].val  BY <1>1, <2>1, <3>2 DEF Kid
      <3>4. QED  BY <3>3
    <2>3. [x \in names |-> V[node.obj[at(x)].val]] = [x \in names |-> W[node.obj[at(x)].val]]
      <3> HIDE DEF names, at
      <3>1. QED  BY <2>2
    <2>4. QED  BY <1>1, <2>3 DEF NodeValue
  <1>2. CASE node.kind = "array"
    <2>1. DOMAIN node.arr = 1..Size(node)  BY <1>2, StackDomain DEF IsNode, Size
    <2>2. \A j \in DOMAIN node.arr : V[node.arr[j]] = W[node.arr[j]]  BY <1>2, <2>1 DEF Kid
    <2>3. [j \in DOMAIN node.arr |-> V[node.arr[j]]] = [j \in DOMAIN node.arr |-> W[node.arr[j]]]
      BY <2>2
    <2>4. QED  BY <1>2, <2>3 DEF NodeValue
  <1>3. CASE node.kind \notin {"object", "array"}
    BY <1>3 DEF NodeValue
  <1>4. QED  BY <1>1, <1>2, <1>3

\* What a complete frame has is the value of its node.
LEMMA FrameValue ==
    ASSUME NEW f, NEW node, NEW i \in Nat, NEW n \in Nat, IsNode(node, i, n), NEW V,
           Has(f, node, Size(node), V)
    PROVE  NodeValue(node, V) = IF f.obj THEN [kind |-> "object", members |-> f.members]
                                ELSE [kind |-> "array", els |-> f.els]
  <1>1. CASE f.obj
    <2>1. node.kind = "object" /\ DOMAIN node.obj = 1..Size(node)
      BY <1>1, StackDomain DEF IsNode, Size, Has
    <2> DEFINE names == {node.obj[j].name : j \in DOMAIN node.obj}
               at(x) == CHOOSE j \in DOMAIN node.obj : node.obj[j].name = x
    <2>2. ASSUME NEW x \in names  PROVE V[node.obj[at(x)].val] = f.members[x]
      <3>1. PICK j \in DOMAIN node.obj : node.obj[j].name = x  OBVIOUS
      <3>2. at(x) \in DOMAIN node.obj /\ node.obj[at(x)].name = x  BY <3>1
      <3> HIDE DEF at
      <3>3. QED  BY <1>1, <2>1, <3>2 DEF Has
    <2>3. DOMAIN f.members = names /\ f.members = [x \in DOMAIN f.members |-> f.members[x]]
      BY <1>1, <2>1 DEF Has
    <2>4. [x \in names |-> V[node.obj[at(x)].val]] = [x \in names |-> f.members[x]]
      <3> HIDE DEF names, at
      <3>1. QED  BY <2>2
    <2>5. [x \in names |-> V[node.obj[at(x)].val]] = f.members
      <3> HIDE DEF names, at
      <3>1. QED  BY <2>3, <2>4
    <2>6. QED  BY <1>1, <2>1, <2>5 DEF NodeValue
  <1>2. CASE ~f.obj
    <2>1. node.kind = "array" /\ DOMAIN node.arr = 1..Size(node)
      BY <1>2, StackDomain DEF IsNode, Size, Has
    <2>2. f.els = [j \in 1..Size(node) |-> V[node.arr[j]]]  BY <1>2 DEF Has
    <2>3. QED  BY <1>2, <2>1, <2>2 DEF NodeValue
  <1>3. QED  BY <1>1, <1>2

\* A child more: the others stay as they are.
LEMMA AttachedNode ==
    ASSUME NEW f, NEW node, NEW key, NEW i \in Nat, NEW n \in Nat, i <= n, IsNode(node, i, n), NEW V,
           Has(f, node, Size(node), V), f.obj \in BOOLEAN,
           f.obj => key = f.key /\ key \notin DOMAIN f.members
    PROVE  LET new == Attached(node, key, n + 1)
           IN  /\ IsNode(new, i, n + 1) /\ Size(node) \in Nat /\ Size(new) = Size(node) + 1
               /\ \A j \in 1..Size(node) : Kid(new, j) = Kid(node, j)
               /\ LastIs(f, new, n + 1) /\ Has(f, new, Size(node), V)
  <1> DEFINE new == Attached(node, key, n + 1)
  <1>1. CASE f.obj
    <2> DEFINE e == [name |-> key, val |-> n + 1]
    <2>1. /\ node.kind = "object" /\ DOMAIN node = {"kind", "obj"} /\ IsStack(node.obj)
          /\ Size(node) = Len(node.obj)
      BY <1>1 DEF Has, IsNode, Size
    <2>2. new.obj = Append(node.obj, e) /\ new.kind = "object" /\ DOMAIN new = {"kind", "obj"}
      BY <2>1 DEF Attached
    <2>3. e.name = key /\ e.val = n + 1  OBVIOUS
    <2> HIDE DEF e, new
    <2>4. /\ IsStack(new.obj) /\ Len(node.obj) \in Nat
          /\ Len(new.obj) = Len(node.obj) + 1 /\ new.obj[Len(node.obj) + 1] = e
          /\ \A j \in 1..Len(node.obj) : new.obj[j] = node.obj[j]
      BY <2>1, <2>2, Pushed
    <2> DEFINE m == Len(node.obj)
               q == Len(new.obj)
    <2>5. m \in Nat /\ q = m + 1 /\ new.obj[q] = e /\ q \in 1..q /\ q \notin 1..m
          /\ \A j \in 1..q : j \in 1..m \/ j = q
      BY <2>4
    <2>6. \A j \in 1..m : new.obj[j] = node.obj[j] /\ j \in 1..q  BY <2>4, <2>5
    <2>7. Size(node) = m /\ Size(new) = q  BY <2>1, <2>2 DEF Size
    <2>8. \A j \in 1..m : node.obj[j].name # key /\ node.obj[j].val \in (i + 1)..n
      BY <1>1, <2>1, <2>7 DEF Has, IsNode
    <2>9. \A j, k \in 1..m : node.obj[j].name = node.obj[k].name => j = k
      BY <2>1 DEF IsNode
    <2> HIDE DEF m, q
    <2>10. \A j \in 1..q : new.obj[j].val \in (i + 1)..(n + 1)
      BY <2>3, <2>5, <2>6, <2>8
    <2>11. \A j, k \in 1..q : new.obj[j].name = new.obj[k].name => j = k
      BY <2>3, <2>5, <2>6, <2>8, <2>9
    <2>12. IsNode(new, i, n + 1)
      <3>1. q = Len(new.obj)  BY DEF q
      <3>2. QED  BY <2>2, <2>4, <2>10, <2>11, <3>1 DEF IsNode
    <2>13. \A j \in 1..m : Kid(new, j) = Kid(node, j)  BY <2>1, <2>2, <2>6 DEF Kid
    <2>14. LastIs(f, new, n + 1)
      <3>1. Size(new) # 0  BY <2>5, <2>7
      <3>2. Kid(new, Size(new)) = n + 1  BY <2>2, <2>3, <2>5, <2>7 DEF Kid
      <3>3. new.obj[Size(new)].name = f.key  BY <1>1, <2>3, <2>5, <2>7
      <3>4. QED  BY <3>1, <3>2, <3>3 DEF LastIs
    <2>15. Has(f, new, m, V)
      <3>1. /\ f.members = [x \in DOMAIN f.members |-> f.members[x]]
            /\ DOMAIN f.members = {node.obj[j].name : j \in 1..m}
            /\ \A j \in 1..m : f.members[node.obj[j].name] = V[node.obj[j].val]
        BY <1>1, <2>7 DEF Has
      <3>2. {node.obj[j].name : j \in 1..m} = {new.obj[j].name : j \in 1..m}  BY <2>6
      <3>3. \A j \in 1..m : f.members[new.obj[j].name] = V[new.obj[j].val]  BY <2>6, <3>1
      <3>4. QED  BY <1>1, <2>2, <3>1, <3>2, <3>3 DEF Has
    <2>16. QED  BY <2>5, <2>7, <2>12, <2>13, <2>14, <2>15 DEF new
  <1>2. CASE ~f.obj
    <2>1. /\ node.kind = "array" /\ DOMAIN node = {"kind", "arr"} /\ IsStack(node.arr)
          /\ Size(node) = Len(node.arr)
      BY <1>2 DEF Has, IsNode, Size
    <2>2. new.arr = Append(node.arr, n + 1) /\ new.kind = "array" /\ DOMAIN new = {"kind", "arr"}
      BY <2>1 DEF Attached
    <2> HIDE DEF new
    <2>4. /\ IsStack(new.arr) /\ Len(node.arr) \in Nat
          /\ Len(new.arr) = Len(node.arr) + 1 /\ new.arr[Len(node.arr) + 1] = n + 1
          /\ \A j \in 1..Len(node.arr) : new.arr[j] = node.arr[j]
      BY <2>1, <2>2, Pushed
    <2> DEFINE m == Len(node.arr)
               q == Len(new.arr)
    <2>5. m \in Nat /\ q = m + 1 /\ new.arr[q] = n + 1 /\ q \in 1..q /\ q \notin 1..m
          /\ \A j \in 1..q : j \in 1..m \/ j = q
      BY <2>4
    <2>6. \A j \in 1..m : new.arr[j] = node.arr[j] /\ j \in 1..q  BY <2>4, <2>5
    <2>7. Size(node) = m /\ Size(new) = q  BY <2>1, <2>2 DEF Size
    <2>8. \A j \in 1..m : node.arr[j] \in (i + 1)..n  BY <2>1 DEF IsNode
    <2> HIDE DEF m, q
    <2>10. \A j \in 1..q : new.arr[j] \in (i + 1)..(n + 1)  BY <2>5, <2>6, <2>8
    <2>12. IsNode(new, i, n + 1)
      <3>1. q = Len(new.arr)  BY DEF q
      <3>2. QED  BY <2>2, <2>4, <2>10, <3>1 DEF IsNode
    <2>13. \A j \in 1..m : Kid(new, j) = Kid(node, j)  BY <2>1, <2>2, <2>6 DEF Kid
    <2>14. LastIs(f, new, n + 1)
      <3>1. Size(new) # 0  BY <2>5, <2>7
      <3>2. Kid(new, Size(new)) = n + 1
        <4>1. new.kind # "object"  BY <2>2
        <4>2. QED  BY <2>5, <2>7, <4>1 DEF Kid
      <3>3. QED  BY <1>2, <3>1, <3>2 DEF LastIs
    <2>15. Has(f, new, m, V)
      <3>1. f.els = [j \in 1..m |-> V[node.arr[j]]]  BY <1>2, <2>7 DEF Has
      <3>2. [j \in 1..m |-> V[node.arr[j]]] = [j \in 1..m |-> V[new.arr[j]]]  BY <2>6
      <3>3. QED  BY <1>2, <2>2, <3>1, <3>2 DEF Has
    <2>16. QED  BY <2>5, <2>7, <2>12, <2>13, <2>14, <2>15 DEF new
  <1>3. QED  BY <1>1, <1>2

\* A leaf, or a container without children.
IsEmpty(nd) ==
    /\ nd.kind = "object" => nd = [kind |-> "object", obj |-> <<>>]
    /\ nd.kind = "array" => nd = [kind |-> "array", arr |-> <<>>]

LEMMA EmptyNode ==
    ASSUME NEW nd, NEW i \in Nat, NEW n \in Nat, IsEmpty(nd)
    PROVE  IsNode(nd, i, n) /\ Size(nd) = 0
  <1>0. IsStack(<<>>) /\ Len(<<>>) = 0  BY EmptySeq DEF IsStack
  <1>1. CASE nd.kind = "object"
    <2>1. DOMAIN nd = {"kind", "obj"} /\ nd.obj = <<>>  BY <1>1 DEF IsEmpty
    <2>2. QED  BY <1>0, <1>1, <2>1 DEF IsNode, Size
  <1>2. CASE nd.kind = "array"
    <2>1. DOMAIN nd = {"kind", "arr"} /\ nd.arr = <<>>  BY <1>2 DEF IsEmpty
    <2>2. QED  BY <1>0, <1>2, <2>1 DEF IsNode, Size
  <1>3. CASE nd.kind \notin {"object", "array"}  BY <1>3 DEF IsNode, Size
  <1>4. QED  BY <1>1, <1>2, <1>3

\* Nodes stay nodes when the heap grows.
LEMMA NodeGrows ==
    ASSUME NEW node, NEW i \in Nat, NEW n \in Nat, IsNode(node, i, n)
    PROVE  IsNode(node, i, n + 1)
  <1>1. (i + 1)..n \subseteq (i + 1)..(n + 1)  OBVIOUS
  <1>2. CASE node.kind = "object"
    BY <1>1, <1>2 DEF IsNode
  <1>3. CASE node.kind = "array"
    BY <1>1, <1>3 DEF IsNode
  <1>4. CASE node.kind \notin {"object", "array"}  BY <1>4 DEF IsNode
  <1>5. QED  BY <1>2, <1>3, <1>4

LEMMA Unopened ==
    ASSUME NEW vs, NEW n, IsStack(vs), NEW x
    PROVE  OnStack(x, Append(vs, n)) <=> OnStack(x, vs) \/ x = n
  <1>1. /\ Len(vs) \in Nat /\ Len(Append(vs, n)) = Len(vs) + 1 /\ Append(vs, n)[Len(vs) + 1] = n
        /\ \A i \in 1..Len(vs) : Append(vs, n)[i] = vs[i]
    BY Pushed
  <1>2. OnStack(x, Append(vs, n)) => OnStack(x, vs) \/ x = n
    <2>1. \A k \in 1..(Len(vs) + 1) : k \in 1..Len(vs) \/ k = Len(vs) + 1  BY <1>1
    <2>2. QED  BY <1>1, <2>1 DEF OnStack
  <1>3. OnStack(x, vs) \/ x = n => OnStack(x, Append(vs, n))
    <2>1. Len(vs) + 1 \in 1..(Len(vs) + 1) /\ \A k \in 1..Len(vs) : k \in 1..(Len(vs) + 1)  BY <1>1
    <2>2. QED  BY <1>1, <2>1 DEF OnStack
  <1>4. QED  BY <1>2, <1>3

\* A value starts: its node becomes the last child of the top one, and is open.
LEMMA TreeOpened ==
    ASSUME NEW fs, NEW hp, NEW vs, NEW V, NEW key, NEW nd,
           Tree(fs, hp, vs, V), Len(vs) = Len(fs), fs # <<>>, IsEmpty(nd),
           Top(fs).obj \in BOOLEAN,
           Top(fs).obj => key = Top(fs).key /\ key \notin DOMAIN Top(fs).members
    PROVE  Tree(fs, Append([hp EXCEPT ![Top(vs)] = Attached(hp[Top(vs)], key, Len(hp) + 1)], nd),
                Append(vs, Len(hp) + 1), V)
  <1> DEFINE m   == Len(fs)
             n   == Len(hp)
             f   == Top(fs)
             a   == Top(vs)
             new == Attached(hp[a], key, n + 1)
             hx  == [hp EXCEPT ![a] = new]
             hq  == Append(hx, nd)
             vq  == Append(vs, n + 1)
  <1>1. /\ IsStack(fs) /\ DOMAIN V = Nat /\ OpenNodes(hp, vs) /\ Nodes(hp) /\ Shut(hp, vs, V)
        /\ \A k \in 1..m : FrameHas(fs, hp, vs, V, k)
    BY DEF Tree
  <1>2. m \in Nat \ {0} /\ n \in Nat /\ IsStack(hp) /\ IsStack(vs)
    BY <1>1, Bottom DEF OpenNodes
  <1>3. f = fs[m] /\ a = vs[m] /\ m \in 1..m  BY <1>2 DEF Top
  <1>4. a \in 1..n  BY <1>1, <1>2, <1>3 DEF OpenNodes
  <1>5. IsNode(hp[a], a, n) /\ a \in Nat /\ a <= n  BY <1>1, <1>4 DEF Nodes
  <1>6. Has(f, hp[a], Size(hp[a]), V) /\ Free(hp[a], Size(hp[a]), vs)
    <2>1. FrameHas(fs, hp, vs, V, m) /\ ~(m < Len(vs))  BY <1>1, <1>2
    <2>2. QED  BY <1>3, <2>1 DEF FrameHas
  <1>7. /\ IsNode(new, a, n + 1) /\ Size(hp[a]) \in Nat /\ Size(new) = Size(hp[a]) + 1
        /\ \A j \in 1..Size(hp[a]) : Kid(new, j) = Kid(hp[a], j)
        /\ LastIs(f, new, n + 1) /\ Has(f, new, Size(hp[a]), V)
    <2>1. f.obj \in BOOLEAN /\ (f.obj => key = f.key /\ key \notin DOMAIN f.members)  OBVIOUS
    <2>2. n \in Nat  BY <1>2
    <2> HIDE DEF f, a, n
    <2>3. QED  BY <1>5, <1>6, <2>1, <2>2, AttachedNode
  <1>8. /\ IsStack(hq) /\ Len(hq) = n + 1 /\ hq[n + 1] = nd /\ hq[a] = new
        /\ \A i \in 1..n : i # a => hq[i] = hp[i]
    <2>1. IsStack(hx) /\ Len(hx) = n /\ hx[a] = new /\ \A i \in 1..n : i # a => hx[i] = hp[i]
      <3>1. PICK S : hp \in Seq(S)  BY <1>2 DEF IsStack
      <3> HIDE DEF new, a
      <3>2. hx \in Seq(S \cup {new})  BY <1>2, <1>4, <3>1
      <3>3. QED  BY <1>2, <1>4, <3>1, <3>2 DEF IsStack
    <2> HIDE DEF hx, n
    <2>2. QED  BY <1>2, <1>4, <2>1, Pushed
  <1>9. /\ IsStack(vq) /\ Len(vq) = m + 1 /\ vq[m + 1] = n + 1 /\ Top(vq) = n + 1
        /\ \A k \in 1..m : vq[k] = vs[k]
    <2>1. Len(vs) = m  OBVIOUS
    <2> HIDE DEF n, m
    <2>2. QED  BY <1>2, <2>1, Pushed DEF Top
  <1>10. \A x : OnStack(x, vq) <=> OnStack(x, vs) \/ x = n + 1
    <2> HIDE DEF n
    <2>1. QED  BY <1>2, Unopened
  <1>11. /\ \A k \in 1..m : vs[k] \in 1..n
         /\ \A k, l \in 1..m : vs[k] = vs[l] => k = l
         /\ vs[1] = 1
    <2>1. vs # <<>> /\ Len(vs) = m  BY <1>2, Bottom
    <2>2. QED  BY <1>1, <2>1 DEF OpenNodes
  <1>12. \A i \in 1..n : IsNode(hp[i], i, n)  BY <1>1 DEF Nodes
  <1>13. \A i \in 1..n : Size(hp[i]) \in Nat /\ \A j \in 1..Size(hp[i]) : Kid(hp[i], j) \in (i + 1)..n
    <2>1. \A i \in 1..n : i \in Nat  BY <1>2
    <2>2. n \in Nat  BY <1>2
    <2> HIDE DEF n
    <2>3. QED  BY <1>12, <2>1, <2>2, KidsOf
  <1>14. \A k \in 1..m : OnStack(vs[k], vs)
    <2>1. Len(vs) = m  OBVIOUS
    <2>2. QED  BY <2>1 DEF OnStack
  <1>15. \A i \in 1..n, c \in Nat : c <= Size(hp[i]) /\ Free(hp[i], c, vs) => Free(hp[i], c, vq)
    <2>1. SUFFICES ASSUME NEW i \in 1..n, NEW c \in Nat, c <= Size(hp[i]), Free(hp[i], c, vs), NEW j \in 1..c
                   PROVE  ~OnStack(Kid(hp[i], j), vq)
      BY DEF Free
    <2>2. Size(hp[i]) \in Nat /\ j \in 1..Size(hp[i])  BY <1>13, <2>1
    <2>3. Kid(hp[i], j) \in (i + 1)..n  BY <1>13, <2>2
    <2>4. Kid(hp[i], j) # n + 1  BY <1>2, <2>3
    <2>5. ~OnStack(Kid(hp[i], j), vs)  BY <2>1 DEF Free
    <2>6. QED  BY <1>10, <2>4, <2>5
  <1>16. OpenNodes(hq, vq)
    <2> HIDE DEF n, m, hq, vq
    <2>1. \A k \in 1..Len(vq) : k \in 1..m \/ k = m + 1  BY <1>2, <1>9
    <2>2. \A k \in 1..Len(vq) : vq[k] \in 1..Len(hq)
      <3>1. \A x \in 1..n : x \in 1..(n + 1)  BY <1>2
      <3>2. n + 1 \in 1..(n + 1)  BY <1>2
      <3>3. QED  BY <1>8, <1>9, <1>11, <2>1, <3>1, <3>2
    <2>3. \A k, l \in 1..Len(vq) : vq[k] = vq[l] => k = l
      <3>1. n + 1 \notin 1..n  BY <1>2
      <3>2. QED  BY <1>9, <1>11, <2>1, <3>1
    <2>4. vq[1] = 1  BY <1>2, <1>9, <1>11
    <2>5. QED  BY <1>8, <1>9, <2>2, <2>3, <2>4 DEF OpenNodes
  <1>17. Nodes(hq)
    <2>1. IsNode(nd, n + 1, n + 1)  BY <1>2, EmptyNode
    <2>2. ASSUME NEW i \in 1..(n + 1)  PROVE IsNode(hq[i], i, n + 1)
      <3> HIDE DEF n, new, hq, a
      <3>1. CASE i = n + 1  BY <1>8, <2>1, <3>1
      <3>2. CASE i = a  BY <1>7, <1>8, <3>2
      <3>3. CASE i # n + 1 /\ i # a
        <4>1. i \in 1..n /\ i \in Nat  BY <1>2, <3>3
        <4>2. hq[i] = hp[i] /\ IsNode(hp[i], i, n)  BY <1>8, <1>12, <3>3, <4>1
        <4>3. QED  BY <1>2, <4>1, <4>2, NodeGrows
      <3>4. QED  BY <3>1, <3>2, <3>3
    <2> HIDE DEF hq, n
    <2>3. QED  BY <1>8, <2>2 DEF Nodes
  <1>18. Shut(hq, vq, V)
    <2> HIDE DEF n, m, hq, vq, a, new
    <2>1. SUFFICES ASSUME NEW i \in 1..Len(hq), ~OnStack(i, vq)
                   PROVE  V[i] = NodeValue(hq[i], V) /\ Free(hq[i], Size(hq[i]), vq)
      BY DEF Shut
    <2>2. i # n + 1 /\ ~OnStack(i, vs)  BY <1>10, <2>1
    <2>3. i \in 1..n  BY <1>2, <1>8, <2>2
    <2>4. i # a /\ hq[i] = hp[i]  BY <1>3, <1>8, <1>14, <2>2, <2>3
    <2>5. V[i] = NodeValue(hp[i], V) /\ Free(hp[i], Size(hp[i]), vs)
      BY <1>1, <2>2, <2>3 DEF Shut, n
    <2>6. Free(hp[i], Size(hp[i]), vq)
      <3>1. Size(hp[i]) \in Nat /\ Size(hp[i]) <= Size(hp[i])  BY <1>13, <2>3
      <3>2. QED  BY <1>15, <2>3, <2>5, <3>1
    <2>7. QED  BY <2>4, <2>5, <2>6
  <1>19. Free(hq[Top(vq)], Size(hq[Top(vq)]), vq)
    <2> HIDE DEF n, hq, vq
    <2>1. hq[Top(vq)] = nd  BY <1>8, <1>9
    <2>2. Size(nd) = 0  BY <1>2, EmptyNode
    <2>3. QED  BY <2>1, <2>2 DEF Free
  <1>20. ASSUME NEW k \in 1..m  PROVE FrameHas(fs, hq, vq, V, k)
    <2> HIDE DEF n, m, hq, vq, a, new, f
    <2>1. k < Len(vq) /\ vq[k] = vs[k] /\ k \in Nat  BY <1>2, <1>9
    <2>2. CASE k = m
      <3>1. vq[k] = a /\ vq[k + 1] = n + 1 /\ fs[k] = f  BY <1>3, <1>9, <2>1, <2>2
      <3>2. hq[vq[k]] = new  BY <1>8, <3>1
      <3>3. Size(new) - 1 = Size(hp[a])  BY <1>7
      <3>4. Free(new, Size(hp[a]), vq)
        <4>1. Free(hp[a], Size(hp[a]), vq)
          <5>1. Size(hp[a]) \in Nat /\ Size(hp[a]) <= Size(hp[a])  BY <1>7
          <5>2. QED  BY <1>4, <1>6, <1>15, <5>1
        <4>2. QED  BY <1>7, <4>1 DEF Free
      <3>5. QED  BY <1>7, <2>1, <3>1, <3>2, <3>3, <3>4 DEF FrameHas
    <2>3. CASE k # m
      <3>1. k < m /\ k + 1 \in 1..m /\ k < Len(vs)
        <4>1. Len(vs) = m  BY DEF m
        <4>2. QED  BY <1>2, <2>3, <4>1
      <3>2. vq[k + 1] = vs[k + 1]
        <4> DEFINE l == k + 1
        <4>1. l \in 1..m  BY <3>1
        <4> HIDE DEF l
        <4>2. vq[l] = vs[l]  BY <1>9, <4>1
        <4>3. QED  BY <4>2 DEF l
      <3>3. vs[k] # a /\ vs[k] \in 1..n  BY <1>3, <1>11, <2>3
      <3>4. hq[vq[k]] = hp[vs[k]]  BY <1>8, <2>1, <3>3
      <3>5. /\ LastIs(fs[k], hp[vs[k]], vs[k + 1])
            /\ Has(fs[k], hp[vs[k]], Size(hp[vs[k]]) - 1, V)
            /\ Free(hp[vs[k]], Size(hp[vs[k]]) - 1, vs)
        <4>1. FrameHas(fs, hp, vs, V, k)  BY <1>1
        <4>2. QED  BY <3>1, <4>1 DEF FrameHas
      <3>6. Free(hp[vs[k]], Size(hp[vs[k]]) - 1, vq)
        <4> DEFINE b == vs[k]
                   c == Size(hp[b]) - 1
        <4>1. Size(hp[b]) \in Nat /\ Size(hp[b]) # 0  BY <1>13, <3>3, <3>5 DEF LastIs
        <4>2. c \in Nat /\ c <= Size(hp[b])  BY <4>1
        <4>3. b \in 1..n /\ Free(hp[b], c, vs)  BY <3>3, <3>5
        <4> HIDE DEF b, c
        <4>4. Free(hp[b], c, vq)  BY <1>15, <4>2, <4>3
        <4>5. QED  BY <4>4 DEF b, c
      <3>7. QED  BY <2>1, <3>2, <3>4, <3>5, <3>6 DEF FrameHas
    <2>4. QED  BY <2>2, <2>3
  <1>21. QED
    <2> HIDE DEF hq, vq, n
    <2>1. Len(vq) = Len(fs) + 1 /\ \A k \in 1..Len(fs) : FrameHas(fs, hq, vq, V, k)
      BY <1>9, <1>20
    <2>2. Tree(fs, hq, vq, V)  BY <1>1, <1>16, <1>17, <1>18, <1>19, <2>1 DEF Tree
    <2>3. QED  BY <2>2 DEF hq, vq, n

Filled(f, v) == IF f.obj THEN WithMember(f, v) ELSE WithElement(f, v)

LEMMA HasSame ==
    ASSUME NEW f, NEW node, NEW c, NEW V, NEW W, Has(f, node, c, V),
           \A j \in 1..c : V[Kid(node, j)] = W[Kid(node, j)]
    PROVE  Has(f, node, c, W)
  <1>1. CASE f.obj
    <2>1. node.kind = "object" /\ \A j \in 1..c : Kid(node, j) = node.obj[j].val  BY <1>1 DEF Has, Kid
    <2>2. QED  BY <1>1, <2>1 DEF Has
  <1>2. CASE ~f.obj
    <2>1. node.kind = "array" /\ \A j \in 1..c : Kid(node, j) = node.arr[j]  BY <1>2 DEF Has, Kid
    <2>2. [j \in 1..c |-> V[node.arr[j]]] = [j \in 1..c |-> W[node.arr[j]]]  BY <2>1
    <2>3. QED  BY <1>2, <2>1, <2>2 DEF Has
  <1>3. QED  BY <1>1, <1>2

\* The frame that takes the value of the last child.
LEMMA HasMore ==
    ASSUME NEW f, NEW node, NEW i \in Nat, NEW n \in Nat, NEW V, NEW v, NEW a, IsFrame(f),
           IsNode(node, i, n), LastIs(f, node, a), V[a] = v,
           Has(f, node, Size(node) - 1, V), f.obj => f.key \notin DOMAIN f.members
    PROVE  Has(Filled(f, v), node, Size(node), V)
  <1> DEFINE s == Size(node)
             c == s - 1
             h == Filled(f, v)
  <1>1. s \in Nat \ {0} /\ Kid(node, s) = a  BY KidsOf DEF LastIs
  <1>2. c \in Nat /\ s = c + 1 /\ s \in 1..s /\ \A j \in 1..s : j \in 1..c \/ j = s  BY <1>1
  <1>3. \A j \in 1..c : j \in 1..s  BY <1>1
  <1>4. Has(f, node, c, V)  OBVIOUS
  <1>5. CASE f.obj
    <2> DEFINE mm == [x \in DOMAIN f.members \cup {f.key} |-> IF x = f.key THEN v ELSE f.members[x]]
    <2>1. h.obj /\ h.members = mm
      BY <1>5 DEF Filled, WithMember, IsFrame
    <2>2. node.kind = "object" /\ DOMAIN f.members = {node.obj[j].name : j \in 1..c}
          /\ \A j \in 1..c : f.members[node.obj[j].name] = V[node.obj[j].val]
      BY <1>4, <1>5 DEF Has
    <2>3. node.obj[s].name = f.key /\ node.obj[s].val = a
      BY <1>1, <1>5, <2>2 DEF LastIs, Kid
    <2> HIDE DEF s, c, h
    <2>4. DOMAIN mm = {node.obj[j].name : j \in 1..s}  BY <1>2, <1>3, <2>2, <2>3
    <2>5. ASSUME NEW j \in 1..s  PROVE mm[node.obj[j].name] = V[node.obj[j].val]
      <3>1. CASE j = s  BY <2>3, <3>1
      <3>2. CASE j # s
        <4>1. j \in 1..c  BY <1>2, <3>2
        <4>2. node.obj[j].name \in DOMAIN f.members /\ node.obj[j].name # f.key  BY <1>5, <2>2, <4>1
        <4>3. QED  BY <2>2, <4>1, <4>2
      <3>3. QED  BY <3>1, <3>2
    <2>6. mm = [x \in DOMAIN mm |-> mm[x]]  OBVIOUS
    <2> HIDE DEF mm
    <2>7. Has(h, node, s, V)  BY <2>1, <2>2, <2>4, <2>5, <2>6 DEF Has
    <2>8. QED  BY <2>7 DEF h, s
  <1>6. CASE ~f.obj
    <2>1. ~h.obj /\ h.els = Append(f.els, v)
      BY <1>6 DEF Filled, WithElement, IsFrame
    <2>2. node.kind = "array" /\ f.els = [j \in 1..c |-> V[node.arr[j]]]  BY <1>4, <1>6 DEF Has
    <2>3. node.arr[s] = a
      <3>1. node.kind # "object"  BY <2>2
      <3>2. QED  BY <1>1, <3>1 DEF Kid
    <2> HIDE DEF s, c, h
    <2>4. /\ f.els \in Seq({V[node.arr[j]] : j \in 1..c}) /\ Len(f.els) = c
      BY <1>2, <2>2
    <2>5. Append(f.els, v) = [j \in 1..s |-> V[node.arr[j]]]
      <3>1. IsStack(f.els)  BY <2>4 DEF IsStack
      <3>2. /\ IsStack(Append(f.els, v)) /\ Len(Append(f.els, v)) = s /\ Append(f.els, v)[s] = v
            /\ \A j \in 1..c : Append(f.els, v)[j] = V[node.arr[j]]
        BY <1>2, <2>2, <2>4, <3>1, Pushed
      <3>3. PICK S : Append(f.els, v) \in Seq(S)  BY <3>2 DEF IsStack
      <3>4. Append(f.els, v) = [j \in 1..s |-> Append(f.els, v)[j]]  BY <3>2, <3>3
      <3>5. \A j \in 1..s : Append(f.els, v)[j] = V[node.arr[j]]  BY <1>2, <2>3, <3>2
      <3>6. QED  BY <3>4, <3>5
    <2>6. Has(h, node, s, V)  BY <2>1, <2>2, <2>5 DEF Has
    <2>7. QED  BY <2>6 DEF h, s
  <1>7. QED  BY <1>5, <1>6

LEMMA Uncovered ==
    ASSUME NEW hp, NEW vs, OpenNodes(hp, vs), vs # <<>>, NEW x
    PROVE  OnStack(x, Rest(vs)) <=> OnStack(x, vs) /\ x # Top(vs)
  <1> DEFINE r == Len(vs)
             vq == Rest(vs)
  <1>1. r \in Nat \ {0} /\ Len(vq) = r - 1 /\ \A k \in 1..(r - 1) : vq[k] = vs[k]
    BY Popped DEF OpenNodes
  <1>2. /\ \A k \in 1..(r - 1) : k \in 1..r /\ k # r
        /\ \A k \in 1..r : k # r => k \in 1..(r - 1)
        /\ r \in 1..r
    BY <1>1
  <1>3. \A k, l \in 1..r : vs[k] = vs[l] => k = l  BY DEF OpenNodes
  <1>4. Top(vs) = vs[r]  BY DEF Top
  <1> HIDE DEF vq
  <1>5. OnStack(x, vq) <=> \E k \in 1..(r - 1) : vs[k] = x  BY <1>1 DEF OnStack
  <1>6. OnStack(x, vs) <=> \E k \in 1..r : vs[k] = x  BY DEF OnStack
  <1> HIDE DEF r
  <1>7. (\E k \in 1..(r - 1) : vs[k] = x) <=> (\E k \in 1..r : vs[k] = x) /\ x # vs[r]
    BY <1>2, <1>3
  <1>8. QED  BY <1>4, <1>5, <1>6, <1>7 DEF vq

Uncovering(fs, hp, vs, V, v, W) ==
    /\ DOMAIN W = Nat /\ W[Top(vs)] = v /\ Len(fs) \in Nat /\ vs # <<>> /\ Top(vs) \in Nat
    /\ \A x \in Nat : x # Top(vs) => W[x] = V[x]
    /\ OpenNodes(hp, Rest(vs)) /\ Nodes(hp) /\ Shut(hp, Rest(vs), W)
    /\ Len(Rest(vs)) = Len(fs) /\ \A k \in 1..Len(fs) : Rest(vs)[k] = vs[k]

\* What is left of the tree when the top node is closed with its value.
LEMMA TreeUncovered ==
    ASSUME NEW fs, NEW hp, NEW vs, NEW V, NEW v, Tree(fs, hp, vs, V), Len(vs) = Len(fs) + 1,
           v = NodeValue(hp[Top(vs)], V), NEW W, W = [V EXCEPT ![Top(vs)] = v]
    PROVE  Uncovering(fs, hp, vs, V, v, W)
  <1> DEFINE m == Len(fs)
             n == Len(hp)
             a == Top(vs)
             vq == Rest(vs)
  <1>1. /\ IsStack(fs) /\ DOMAIN V = Nat /\ OpenNodes(hp, vs) /\ Nodes(hp) /\ Shut(hp, vs, V)
    BY DEF Tree
  <1>2. m \in Nat /\ n \in Nat /\ IsStack(hp) /\ IsStack(vs) /\ vs # <<>> /\ Len(vs) = m + 1
    BY <1>1, Bottom DEF OpenNodes
  <1>3. Free(hp[a], Size(hp[a]), vs)  BY <1>2 DEF Tree
  <1>4. a = vs[m + 1] /\ m + 1 \in 1..(m + 1)  BY <1>2 DEF Top
  <1>5. a \in 1..n  BY <1>1, <1>2, <1>4 DEF OpenNodes
  <1>6. /\ IsStack(vq) /\ Len(vq) = m /\ \A k \in 1..m : vq[k] = vs[k]
    <2>1. Len(vs) - 1 = m  BY <1>2
    <2> HIDE DEF m
    <2>2. QED  BY <1>2, <2>1, Popped
  <1>7. \A x : OnStack(x, vq) <=> OnStack(x, vs) /\ x # a  BY <1>1, <1>2, Uncovered
  <1>8. DOMAIN W = Nat /\ W[a] = v /\ \A x \in Nat : x # a => W[x] = V[x]
    <2>1. W = [V EXCEPT ![a] = v] /\ a \in Nat  BY <1>2, <1>5
    <2> HIDE DEF a
    <2>2. QED  BY <1>1, <2>1
  <1>9. OpenNodes(hp, vq)
    <2>1. /\ \A k \in 1..(m + 1) : vs[k] \in 1..n
          /\ \A k, l \in 1..(m + 1) : vs[k] = vs[l] => k = l
          /\ vs[1] = 1
      BY <1>1, <1>2 DEF OpenNodes
    <2>2. vq # <<>> => m # 0  BY <1>6, Bottom
    <2> HIDE DEF m, vq, n
    <2>3. \A k \in 1..m : k \in 1..(m + 1)  BY <1>2
    <2>4. /\ \A k \in 1..Len(vq) : vq[k] \in 1..n
          /\ \A k, l \in 1..Len(vq) : vq[k] = vq[l] => k = l
      BY <1>6, <2>1, <2>3
    <2>5. vq # <<>> => vq[1] = 1
      <3>1. m # 0 => 1 \in 1..m  BY <1>2
      <3>2. QED  BY <1>6, <2>1, <2>2, <3>1
    <2>6. QED  BY <1>2, <1>6, <2>4, <2>5 DEF OpenNodes, n
  <1>10. \A i \in 1..n : i \in Nat /\ IsNode(hp[i], i, n)  BY <1>1, <1>2 DEF Nodes
  <1>11. OnStack(a, vs)  BY <1>2, <1>4 DEF OnStack
  <1>12. Shut(hp, vq, W)
    <2> HIDE DEF a, vq, m, n
    <2>1. ASSUME NEW i \in 1..n, ~OnStack(i, vq)
          PROVE  W[i] = NodeValue(hp[i], W) /\ Free(hp[i], Size(hp[i]), vq)
      <3>1. Free(hp[i], Size(hp[i]), vs) /\ W[i] = NodeValue(hp[i], V)
        <4>1. CASE i = a
          BY <1>3, <1>8, <4>1 DEF a
        <4>2. CASE i # a
          <5>1. ~OnStack(i, vs)  BY <1>7, <2>1, <4>2
          <5>2. QED  BY <1>1, <1>8, <4>2, <5>1 DEF Shut, n
        <4>3. QED  BY <4>1, <4>2
      <3>2. ASSUME NEW j \in 1..Size(hp[i])
            PROVE  Kid(hp[i], j) # a /\ ~OnStack(Kid(hp[i], j), vq)
        BY <1>7, <1>11, <3>1 DEF Free
      <3>3. NodeValue(hp[i], V) = NodeValue(hp[i], W)
        <4>0. \A j \in 1..Size(hp[i]) : Kid(hp[i], j) \in (i + 1)..n  BY <1>2, <1>10, KidsOf
        <4>1. \A j \in 1..Size(hp[i]) : V[Kid(hp[i], j)] = W[Kid(hp[i], j)]  BY <1>2, <1>8, <3>2, <4>0
        <4>2. QED  BY <1>2, <1>10, <4>1, ValueOfKids
      <3>4. QED  BY <3>1, <3>2, <3>3 DEF Free
    <2>2. QED  BY <2>1 DEF Shut, n
  <1>13. a \in Nat  BY <1>2, <1>5
  <1>14. QED
    <2> HIDE DEF n
    <2>1. QED  BY <1>1, <1>2, <1>6, <1>8, <1>9, <1>12, <1>13 DEF Uncovering

Finished(hp, vs, v, W) ==
    Tree(<<>>, hp, Rest(vs), W) /\ Len(hp) \in Nat \ {0} /\ W[1] = v /\ Rest(vs) = <<>>

\* The root is closed: every node has its value.
LEMMA TreeFinished ==
    ASSUME NEW hp, NEW vs, NEW V, NEW v, Tree(<<>>, hp, vs, V), Len(vs) = 1,
           v = NodeValue(hp[Top(vs)], V), NEW W, W = [V EXCEPT ![Top(vs)] = v]
    PROVE  Finished(hp, vs, v, W)
  <1>1. Len(<<>>) = 0 /\ IsStack(<<>>)  BY EmptySeq DEF IsStack
  <1>2. /\ DOMAIN W = Nat /\ W[Top(vs)] = v /\ vs # <<>>
        /\ OpenNodes(hp, Rest(vs)) /\ Nodes(hp) /\ Shut(hp, Rest(vs), W)
        /\ Len(Rest(vs)) = 0
    <2> DEFINE fs == <<>>
    <2>1. Tree(fs, hp, vs, V) /\ Len(vs) = Len(fs) + 1  BY <1>1
    <2>2. Len(fs) = 0  BY <1>1
    <2> HIDE DEF fs
    <2>4. Uncovering(fs, hp, vs, V, v, W)  BY <2>1, TreeUncovered
    <2>5. QED  BY <2>2, <2>4 DEF Uncovering
  <1>3. Top(vs) = 1 /\ 1 \in 1..Len(hp)
    <2>1. OpenNodes(hp, vs) /\ 1 \in 1..Len(vs)  BY DEF Tree
    <2>2. QED  BY <1>2, <2>1 DEF OpenNodes, Top
  <1>4. Len(hp) \in Nat \ {0}
    <2>1. Len(hp) \in Nat  BY <1>2, Bottom DEF OpenNodes
    <2>2. QED  BY <1>3, <2>1
  <1>5. Rest(vs) = <<>>  BY <1>2, Bottom DEF OpenNodes
  <1>6. \A k \in 1..Len(<<>>) : FrameHas(<<>>, hp, Rest(vs), W, k)  BY <1>1
  <1>7. Tree(<<>>, hp, Rest(vs), W)  BY <1>1, <1>2, <1>6 DEF Tree
  <1>8. QED  BY <1>2, <1>3, <1>4, <1>5, <1>7 DEF Finished

\* The top node is closed, and its value delivered to the frame below it.
LEMMA TreeClosed ==
    ASSUME NEW fs, NEW hp, NEW vs, NEW V, NEW v, Tree(fs, hp, vs, V), Len(vs) = Len(fs) + 1,
           v = NodeValue(hp[Top(vs)], V), fs # <<>>, IsFrame(Top(fs)),
           Top(fs).obj => Top(fs).key \notin DOMAIN Top(fs).members
    PROVE  Tree(WithTop(fs, Filled(Top(fs), v)), hp, Rest(vs), [V EXCEPT ![Top(vs)] = v])
  <1> DEFINE m == Len(fs)
             n == Len(hp)
             a == Top(vs)
             f == Top(fs)
             W == [V EXCEPT ![a] = v]
             vq == Rest(vs)
             fq == WithTop(fs, Filled(f, v))
  <1>1. /\ DOMAIN W = Nat /\ W[a] = v /\ m \in Nat /\ \A x \in Nat : x # a => W[x] = V[x]
        /\ OpenNodes(hp, vq) /\ Nodes(hp) /\ Shut(hp, vq, W)
        /\ Len(vq) = m /\ \A k \in 1..m : vq[k] = vs[k]
    <2>1. W = [V EXCEPT ![Top(vs)] = v]  OBVIOUS
    <2> HIDE DEF W
    <2>2. Uncovering(fs, hp, vs, V, v, W)  BY <2>1, TreeUncovered
    <2>3. QED  BY <2>2 DEF Uncovering
  <1>2. /\ IsStack(fs) /\ OpenNodes(hp, vs) /\ \A k \in 1..m : FrameHas(fs, hp, vs, V, k)
        /\ vs # <<>> /\ Len(vs) = m + 1 /\ n \in Nat /\ m # 0
    <2>1. IsStack(fs) /\ OpenNodes(hp, vs) /\ \A k \in 1..m : FrameHas(fs, hp, vs, V, k)  BY DEF Tree
    <2>2. QED  BY <1>1, <2>1, Bottom DEF OpenNodes
  <1>3. /\ IsStack(fq) /\ Len(fq) = m /\ fq[m] = Filled(f, v)
        /\ \A k \in 1..m : k # m => fq[k] = fs[k]
    BY <1>2, Changed
  <1>4. a = vs[m + 1] /\ f = fs[m] /\ m \in 1..m /\ \A k \in 1..m : k \in 1..(m + 1)
    BY <1>1, <1>2 DEF Top
  <1>5. OnStack(a, vs)
    <2>1. m + 1 \in 1..(m + 1)  BY <1>1
    <2>2. QED  BY <1>2, <1>4, <2>1 DEF OnStack
  <1>6. \A x : OnStack(x, vq) <=> OnStack(x, vs) /\ x # a  BY <1>2, Uncovered
  <1>7. ASSUME NEW k \in 1..m  PROVE FrameHas(fq, hp, vq, W, k)
    <2> DEFINE b == vs[k]
               c == Size(hp[b]) - 1
               l == k + 1
    <2>1. b \in 1..n /\ k \in 1..(m + 1)  BY <1>2, <1>4 DEF OpenNodes
    <2>2. IsNode(hp[b], b, n) /\ b \in Nat  BY <1>1, <1>2, <2>1 DEF Nodes
    <2>3. /\ LastIs(fs[k], hp[b], vs[l]) /\ Has(fs[k], hp[b], c, V) /\ Free(hp[b], c, vs)
      <3>1. k < Len(vs) /\ FrameHas(fs, hp, vs, V, k)  BY <1>1, <1>2
      <3>2. QED  BY <3>1 DEF FrameHas
    <2>4. Size(hp[b]) \in Nat \ {0} /\ c \in Nat
      <3> HIDE DEF b, n
      <3>1. Size(hp[b]) \in Nat /\ n \in Nat  BY <1>2, <2>2, KidsOf
      <3>2. QED  BY <2>3, <3>1 DEF LastIs
    <2>5. \A j \in 1..c : Kid(hp[b], j) # a /\ ~OnStack(Kid(hp[b], j), vq)
      BY <1>5, <1>6, <2>3 DEF Free
    <2>6. Has(fs[k], hp[b], c, W)
      <3>0. \A j \in 1..c : Kid(hp[b], j) \in Nat
        <4>1. \A j \in 1..c : j \in 1..Size(hp[b])  BY <2>4
        <4> HIDE DEF b, n, c
        <4>2. \A j \in 1..Size(hp[b]) : Kid(hp[b], j) \in (b + 1)..n  BY <1>2, <2>2, KidsOf
        <4>3. (b + 1)..n \subseteq Nat  BY <1>2, <2>2
        <4>4. QED  BY <4>1, <4>2, <4>3
      <3>1. \A j \in 1..c : V[Kid(hp[b], j)] = W[Kid(hp[b], j)]  BY <1>1, <2>5, <3>0
      <3> HIDE DEF b, c, W
      <3>2. QED  BY <2>3, <3>1, HasSame
    <2>7. vq[k] = b  BY <1>1
    <2>8. CASE k = m
      <3>1. fs[k] = f /\ vs[l] = a /\ fq[k] = Filled(f, v)  BY <1>3, <1>4, <2>8
      <3>2. Has(Filled(f, v), hp[b], Size(hp[b]), W)
        <4> DEFINE node == hp[b]
        <4>1. LastIs(f, node, a) /\ Has(f, node, Size(node) - 1, W) /\ IsNode(node, b, n) /\ W[a] = v
          BY <1>1, <2>2, <2>3, <2>6, <3>1
        <4>2. IsFrame(f) /\ (f.obj => f.key \notin DOMAIN f.members)  OBVIOUS
        <4> HIDE DEF node, b, n, W, a, f
        <4>3. QED  BY <1>2, <2>2, <4>1, <4>2, HasMore DEF node
      <3>3. Free(hp[b], Size(hp[b]), vq)
        <4>1. Kid(hp[b], Size(hp[b])) = a  BY <2>3, <3>1 DEF LastIs
        <4>2. ~OnStack(a, vq)  BY <1>6
        <4>3. \A j \in 1..Size(hp[b]) : j \in 1..c \/ j = Size(hp[b])  BY <2>4
        <4> HIDE DEF c, b
        <4>4. QED  BY <2>5, <4>1, <4>2, <4>3 DEF Free
      <3>4. ~(k < Len(vq))  BY <1>1, <2>8
      <3>5. QED  BY <2>7, <3>1, <3>2, <3>3, <3>4 DEF FrameHas
    <2>9. CASE k # m
      <3>1. k < Len(vq) /\ l \in 1..m  BY <1>1, <2>9
      <3>2. vq[l] = vs[l] /\ fq[k] = fs[k]
        <4> HIDE DEF l
        <4>1. QED  BY <1>1, <1>3, <2>9, <3>1
      <3>3. Free(hp[b], c, vq)  BY <2>5 DEF Free
      <3> HIDE DEF vq, fq, W
      <3>4. QED  BY <2>3, <2>6, <2>7, <3>1, <3>2, <3>3 DEF FrameHas
    <2>10. QED  BY <2>8, <2>9
  <1>8. Tree(fq, hp, vq, W)
    <2> HIDE DEF fq, vq, W
    <2>1. Len(vq) = Len(fq) /\ \A k \in 1..Len(fq) : FrameHas(fq, hp, vq, W, k)  BY <1>1, <1>3, <1>7
    <2>2. QED  BY <1>1, <1>3, <2>1 DEF Tree
  <1>9. QED  BY <1>8

\* The first value of a text.
LEMMA TreeRoot ==
    ASSUME NEW nd, NEW V, IsEmpty(nd), DOMAIN V = Nat
    PROVE  Tree(<<>>, <<nd>>, <<1>>, V)
  <1>1. /\ IsStack(<<>>) /\ Len(<<>>) = 0 /\ IsStack(<<nd>>) /\ Len(<<nd>>) = 1 /\ <<nd>>[1] = nd
        /\ IsStack(<<1>>) /\ Len(<<1>>) = 1 /\ <<1>>[1] = 1
    <2>1. <<>> \in Seq({}) /\ <<nd>> \in Seq({nd}) /\ <<1>> \in Seq({1})  OBVIOUS
    <2>2. QED  BY <2>1 DEF IsStack
  <1> DEFINE fs == <<>>
             hp == <<nd>>
             vs == <<1>>
  <1> HIDE DEF fs, hp, vs
  <1>2. /\ IsStack(fs) /\ Len(fs) = 0 /\ IsStack(hp) /\ Len(hp) = 1 /\ hp[1] = nd
        /\ IsStack(vs) /\ Len(vs) = 1 /\ vs[1] = 1 /\ Top(vs) = 1
    BY <1>1 DEF fs, hp, vs, Top
  <1>3. IsNode(nd, 1, 1) /\ Size(nd) = 0  BY EmptyNode
  <1>4. \A i \in 1..1 : i = 1  OBVIOUS
  <1>5. OpenNodes(hp, vs)  BY <1>2, <1>4 DEF OpenNodes
  <1>6. Nodes(hp)  BY <1>2, <1>3, <1>4 DEF Nodes
  <1>7. OnStack(1, vs)  BY <1>2 DEF OnStack
  <1>8. Shut(hp, vs, V)  BY <1>2, <1>4, <1>7 DEF Shut
  <1>9. Free(hp[Top(vs)], Size(hp[Top(vs)]), vs)  BY <1>2, <1>3 DEF Free
  <1>10. Len(vs) = Len(fs) + 1 /\ \A k \in 1..Len(fs) : FrameHas(fs, hp, vs, V, k)  BY <1>2
  <1>11. Tree(fs, hp, vs, V)  BY <1>2, <1>5, <1>6, <1>8, <1>9, <1>10 DEF Tree
  <1>12. QED  BY <1>11 DEF fs, hp, vs

\* Python pushes the frame of a container only once it is not empty.
LEMMA TreePushed ==
    ASSUME NEW fs, NEW hp, NEW vs, NEW V, NEW f, Tree(fs, hp, vs, V), Len(vs) = Len(fs) + 1,
           IsEmpty(hp[Top(vs)]),
           \/ hp[Top(vs)].kind = "array" /\ f = ArrayFrame
           \/ hp[Top(vs)].kind = "object" /\ \E k : f = ObjectFrame(k)
    PROVE  Tree(Append(fs, f), hp, vs, V)
  <1> DEFINE m == Len(fs)
             a == Top(vs)
             fq == Append(fs, f)
  <1>1. /\ IsStack(fs) /\ DOMAIN V = Nat /\ OpenNodes(hp, vs) /\ Nodes(hp) /\ Shut(hp, vs, V)
        /\ \A k \in 1..m : FrameHas(fs, hp, vs, V, k)
    BY DEF Tree
  <1>2. /\ IsStack(fq) /\ m \in Nat /\ Len(fq) = m + 1 /\ fq[m + 1] = f
        /\ \A k \in 1..m : fq[k] = fs[k]
    BY <1>1, Pushed
  <1>3. a = vs[m + 1] /\ Len(vs) = m + 1  BY <1>2 DEF Top
  <1>4. Size(hp[a]) = 0  BY EmptyNode
  <1>5. Has(f, hp[a], 0, V)
    <2>1. CASE hp[a].kind = "array" /\ f = ArrayFrame
      <3>1. ~f.obj /\ f.els = <<>>  BY <2>1 DEF ArrayFrame
      <3>2. <<>> = [j \in 1..0 |-> V[hp[a].arr[j]]]  OBVIOUS
      <3>3. QED  BY <2>1, <3>1, <3>2 DEF Has
    <2>2. CASE hp[a].kind = "object" /\ \E k : f = ObjectFrame(k)
      <3>1. f.obj /\ f.members = [x \in {} |-> NoKey]  BY <2>2 DEF ObjectFrame
      <3>2. DOMAIN f.members = {}  BY <3>1
      <3>3. f.members = [x \in DOMAIN f.members |-> f.members[x]]  BY <3>1
      <3>4. {hp[a].obj[j].name : j \in 1..0} = {}  OBVIOUS
      <3>5. \A j \in 1..0 : f.members[hp[a].obj[j].name] = V[hp[a].obj[j].val]  OBVIOUS
      <3>6. QED  BY <2>2, <3>1, <3>2, <3>3, <3>4, <3>5 DEF Has
    <2>3. QED  BY <2>1, <2>2
  <1>6. FrameHas(fq, hp, vs, V, m + 1)
    <2> HIDE DEF m, a, fq
    <2>1. ~(m + 1 < Len(vs)) /\ hp[vs[m + 1]] = hp[a]  BY <1>2, <1>3
    <2>2. Free(hp[a], 0, vs)  BY DEF Free
    <2>3. QED  BY <1>2, <1>4, <1>5, <2>1, <2>2 DEF FrameHas
  <1>7. \A k \in 1..m : FrameHas(fq, hp, vs, V, k)
    <2> HIDE DEF m, fq
    <2>1. QED  BY <1>1, <1>2 DEF FrameHas
  <1>8. Tree(fq, hp, vs, V)
    <2> HIDE DEF m, fq
    <2>1. \A k \in 1..(m + 1) : k \in 1..m \/ k = m + 1  BY <1>2
    <2>2. \A k \in 1..Len(fq) : FrameHas(fq, hp, vs, V, k)  BY <1>2, <1>6, <1>7, <2>1
    <2>3. Len(vs) = Len(fq)  BY <1>2, <1>3
    <2>4. QED  BY <1>1, <1>2, <2>2, <2>3 DEF Tree
  <1>9. QED  BY <1>8

\* Python takes the frame of a container off its stack when it is closed.
LEMMA TreePopped ==
    ASSUME NEW fs, NEW hp, NEW vs, NEW V, Tree(fs, hp, vs, V), Len(vs) = Len(fs), fs # <<>>
    PROVE  /\ Tree(Rest(fs), hp, vs, V) /\ Len(vs) = Len(Rest(fs)) + 1
           /\ NodeValue(hp[Top(vs)], V)
                = IF Top(fs).obj THEN [kind |-> "object", members |-> Top(fs).members]
                  ELSE [kind |-> "array", els |-> Top(fs).els]
  <1> DEFINE m == Len(fs)
             a == Top(vs)
             f == Top(fs)
             fq == Rest(fs)
             n == Len(hp)
  <1>1. /\ IsStack(fs) /\ DOMAIN V = Nat /\ OpenNodes(hp, vs) /\ Nodes(hp) /\ Shut(hp, vs, V)
        /\ \A k \in 1..m : FrameHas(fs, hp, vs, V, k)
    BY DEF Tree
  <1>2. /\ IsStack(fq) /\ m \in Nat \ {0} /\ Len(fq) = m - 1
        /\ \A k \in 1..(m - 1) : fq[k] = fs[k]
    BY <1>1, Popped
  <1>3. a = vs[m] /\ Len(vs) = m /\ m \in 1..m /\ f = fs[m]  BY <1>2 DEF Top
  <1>4. Has(f, hp[a], Size(hp[a]), V) /\ Free(hp[a], Size(hp[a]), vs)
    <2>1. FrameHas(fs, hp, vs, V, m) /\ ~(m < Len(vs))  BY <1>1, <1>2, <1>3
    <2>2. QED  BY <1>3, <2>1 DEF FrameHas
  <1>5. n \in Nat /\ a \in 1..n  BY <1>1, <1>3, Bottom DEF OpenNodes
  <1>6. IsNode(hp[a], a, n) /\ a \in Nat  BY <1>1, <1>5 DEF Nodes
  <1>7. NodeValue(hp[a], V) = IF f.obj THEN [kind |-> "object", members |-> f.members]
                              ELSE [kind |-> "array", els |-> f.els]
    <2> HIDE DEF a, n, f
    <2>1. QED  BY <1>4, <1>5, <1>6, FrameValue
  <1>8. Tree(fq, hp, vs, V) /\ Len(vs) = Len(fq) + 1
    <2>1. Free(hp[Top(vs)], Size(hp[Top(vs)]), vs)  BY <1>4
    <2>2. \A k \in 1..(m - 1) : k \in 1..m  BY <1>2
    <2> HIDE DEF m, fq, a
    <2>3. \A k \in 1..Len(fq) : FrameHas(fq, hp, vs, V, k)
      BY <1>1, <1>2, <2>2 DEF FrameHas
    <2>4. Len(vs) = Len(fq) + 1  BY <1>2, <1>3
    <2>5. QED  BY <1>1, <1>2, <2>1, <2>3, <2>4 DEF Tree
  <1>9. QED  BY <1>7, <1>8

\* The name of the next member.
LEMMA TreeNamed ==
    ASSUME NEW fs, NEW hp, NEW vs, NEW V, NEW g, Tree(fs, hp, vs, V), Len(vs) = Len(fs), fs # <<>>,
           g.obj = Top(fs).obj, g.members = Top(fs).members, g.els = Top(fs).els
    PROVE  Tree(WithTop(fs, g), hp, vs, V)
  <1> DEFINE m == Len(fs)
             fq == WithTop(fs, g)
  <1>1. /\ IsStack(fs) /\ DOMAIN V = Nat /\ OpenNodes(hp, vs) /\ Nodes(hp) /\ Shut(hp, vs, V)
        /\ \A k \in 1..m : FrameHas(fs, hp, vs, V, k)
    BY DEF Tree
  <1>2. /\ IsStack(fq) /\ m \in Nat \ {0} /\ Len(fq) = m /\ fq[m] = g
        /\ \A k \in 1..m : k # m => fq[k] = fs[k]
    BY <1>1, Changed
  <1>3. Len(vs) = m /\ fs[m] = Top(fs) /\ m \in 1..m  BY <1>2 DEF Top
  <1>4. FrameHas(fq, hp, vs, V, m)
    <2> DEFINE f == fs[m]
    <2>1. g.obj = f.obj /\ g.members = f.members /\ g.els = f.els  BY <1>3
    <2>2. FrameHas(fs, hp, vs, V, m) /\ ~(m < Len(vs))  BY <1>1, <1>2, <1>3
    <2> DEFINE node == hp[vs[m]]
    <2>3. Has(f, node, Size(node), V) /\ Free(node, Size(node), vs)  BY <2>2 DEF FrameHas
    <2> HIDE DEF f, node, m, fq
    <2>4. Has(g, node, Size(node), V)  BY <2>1, <2>3 DEF Has
    <2>5. QED  BY <1>2, <2>2, <2>3, <2>4 DEF FrameHas, node
  <1>5. \A k \in 1..m : k # m => FrameHas(fq, hp, vs, V, k)
    <2> HIDE DEF m, fq
    <2>1. QED  BY <1>1, <1>2 DEF FrameHas
  <1>6. Tree(fq, hp, vs, V)
    <2>1. Len(vs) = Len(fq) /\ \A k \in 1..Len(fq) : FrameHas(fq, hp, vs, V, k)
      BY <1>2, <1>3, <1>4, <1>5
    <2> HIDE DEF fq
    <2>2. QED  BY <1>1, <1>2, <2>1 DEF Tree
  <1>7. QED  BY <1>6

\* The definition of GoValue, for any heap.
Evaluated(hp) == CHOOSE c : c = [i \in 1..Len(hp) |-> NodeValue(hp[i], c)]

LEMMA GoValueIs == GoValue = Evaluated(go.heap)[1]
  BY DEF GoValue, Evaluated, NodeValue

LEMMA EvaluatesTo ==
    ASSUME NEW hp, NEW V, Tree(<<>>, hp, <<>>, V), Len(hp) # 0
    PROVE  Evaluated(hp)[1] = V[1]
  <1> DEFINE n == Len(hp)
             X == [i \in 1..n |-> V[i]]
             C == Evaluated(hp)
  <1>0. IsStack(<<>>) /\ Len(<<>>) = 0  BY EmptySeq DEF IsStack
  <1>1. n \in Nat \ {0} /\ \A i \in 1..n : i \in Nat /\ IsNode(hp[i], i, n)
    BY Bottom DEF Tree, OpenNodes, Nodes
  <1>2. \A i \in 1..n : V[i] = NodeValue(hp[i], V)
    <2>1. \A i : ~OnStack(i, <<>>)  BY <1>0 DEF OnStack
    <2>2. QED  BY <2>1 DEF Tree, Shut
  <1>3. ASSUME NEW i \in 1..n  PROVE \A j \in 1..Size(hp[i]) : Kid(hp[i], j) \in (i + 1)..n
    <2> HIDE DEF n
    <2>1. QED  BY <1>1, KidsOf
  <1>4. X = [i \in 1..n |-> NodeValue(hp[i], X)]
    <2>1. \A i \in 1..n : X[i] = V[i]  OBVIOUS
    <2> HIDE DEF X, n
    <2>2. ASSUME NEW i \in 1..n  PROVE NodeValue(hp[i], V) = NodeValue(hp[i], X)
      <3>1. (i + 1)..n \subseteq 1..n  BY <1>1
      <3>2. \A j \in 1..Size(hp[i]) : V[Kid(hp[i], j)] = X[Kid(hp[i], j)]  BY <1>3, <2>1, <3>1
      <3>3. QED  BY <1>1, <3>2, ValueOfKids
    <2>3. \A i \in 1..n : V[i] = NodeValue(hp[i], X)  BY <1>2, <2>2
    <2>4. QED  BY <2>3 DEF X
  <1>5. C = [i \in 1..n |-> NodeValue(hp[i], C)]
    <2>1. \E c : c = [i \in 1..Len(hp) |-> NodeValue(hp[i], c)]  BY <1>4
    <2> HIDE DEF X
    <2>2. QED  BY <2>1 DEF Evaluated
  <1>6. \A i \in 1..n : C[i] = NodeValue(hp[i], C)
    <2> HIDE DEF C
    <2>1. QED  BY <1>5
  \* From the last node down.
  <1> DEFINE S == {k \in Nat : \A i \in 1..n : i > n - k => C[i] = V[i]}
  <1>7. 0 \in S  BY <1>1
  <1>8. ASSUME NEW k \in S  PROVE k + 1 \in S
    <2> HIDE DEF C, n
    <2>1. k \in Nat /\ \A i \in 1..n : i > n - k => C[i] = V[i]  OBVIOUS
    <2>2. ASSUME NEW i \in 1..n, i > n - (k + 1)  PROVE C[i] = V[i]
      <3>1. ASSUME NEW x \in (i + 1)..n  PROVE C[x] = V[x]
        <4>1. x \in 1..n /\ x > n - k  BY <1>1, <2>1, <2>2
        <4>2. QED  BY <2>1, <4>1
      <3>2. \A j \in 1..Size(hp[i]) : C[Kid(hp[i], j)] = V[Kid(hp[i], j)]  BY <1>3, <3>1
      <3>3. NodeValue(hp[i], C) = NodeValue(hp[i], V)  BY <1>1, <3>2, ValueOfKids
      <3>4. QED  BY <1>2, <1>6, <3>3
    <2>3. k + 1 \in Nat  BY <2>1
    <2>4. QED  BY <2>2, <2>3
  <1>9. n \in S
    <2>1. S \in SUBSET Nat  OBVIOUS
    <2> HIDE DEF S
    <2>2. QED  BY <1>1, <1>7, <1>8, <2>1, NaturalsOf
  <1>10. 1 \in 1..n /\ 1 > n - n  BY <1>1
  <1>11. C[1] = V[1]
    <2> HIDE DEF C, n
    <2>1. QED  BY <1>9, <1>10
  <1>12. QED  BY <1>11

\* The nodes Go's frames point to.
Vals(s) == [k \in 1..Len(s) |-> s[k].val]

LEMMA ValsShape ==
    ASSUME NEW s, IsStack(s)
    PROVE  /\ IsStack(Vals(s)) /\ Len(Vals(s)) = Len(s) /\ Len(s) \in Nat
           /\ \A k \in 1..Len(s) : Vals(s)[k] = s[k].val
           /\ s # <<>> => Top(Vals(s)) = Top(s).val
  <1>1. Len(s) \in Nat  BY Bottom
  <1>2. Vals(s) \in Seq({s[k].val : k \in 1..Len(s)}) /\ Len(Vals(s)) = Len(s)  BY <1>1 DEF Vals
  <1>3. \A k \in 1..Len(s) : Vals(s)[k] = s[k].val  BY DEF Vals
  <1>4. s # <<>> => Len(s) \in 1..Len(s)  BY <1>1, Bottom
  <1>5. QED  BY <1>1, <1>2, <1>3, <1>4 DEF IsStack, Top

\* Stacks of the same frames are the same.
LEMMA SameStack ==
    ASSUME NEW s, NEW u, IsStack(s), IsStack(u), Len(s) = Len(u), \A k \in 1..Len(s) : s[k] = u[k]
    PROVE  s = u
  <1>1. PICK S : s \in Seq(S)  BY DEF IsStack
  <1>2. PICK U : u \in Seq(U)  BY DEF IsStack
  <1>3. s = [k \in 1..Len(s) |-> s[k]] /\ u = [k \in 1..Len(u) |-> u[k]]  BY <1>1, <1>2
  <1>4. QED  BY <1>3

LEMMA ValsPushed ==
    ASSUME NEW s, NEW f, IsStack(s)
    PROVE  Vals(Append(s, f)) = Append(Vals(s), f.val)
  <1> DEFINE n == Len(s)
             a == Append(s, f)
             b == Append(Vals(s), f.val)
  <1>1. /\ IsStack(a) /\ n \in Nat /\ Len(a) = n + 1 /\ a[n + 1] = f
        /\ \A i \in 1..n : a[i] = s[i]
    BY Pushed
  <1>2. IsStack(Vals(s)) /\ Len(Vals(s)) = n /\ \A k \in 1..n : Vals(s)[k] = s[k].val  BY ValsShape
  <1>3. /\ IsStack(b) /\ Len(b) = n + 1 /\ b[n + 1] = f.val /\ \A i \in 1..n : b[i] = Vals(s)[i]
    <2> HIDE DEF n
    <2>1. QED  BY <1>2, Pushed
  <1> HIDE DEF a, b, n
  <1>4. IsStack(Vals(a)) /\ Len(Vals(a)) = n + 1 /\ \A k \in 1..(n + 1) : Vals(a)[k] = a[k].val
    BY <1>1, ValsShape
  <1>5. \A k \in 1..(n + 1) : k \in 1..n \/ k = n + 1  BY <1>1
  <1>6. \A k \in 1..(n + 1) : Vals(a)[k] = b[k]  BY <1>1, <1>2, <1>3, <1>4, <1>5
  <1>7. Vals(a) = b  BY <1>3, <1>4, <1>6, SameStack
  <1>8. QED  BY <1>7 DEF a, b

LEMMA ValsChanged ==
    ASSUME NEW s, NEW f, IsStack(s), s # <<>>, f.val = Top(s).val
    PROVE  Vals(WithTop(s, f)) = Vals(s)
  <1> DEFINE n == Len(s)
             a == WithTop(s, f)
  <1>1. /\ IsStack(a) /\ n \in Nat \ {0} /\ Len(a) = n /\ a[n] = f
        /\ \A i \in 1..n : i # n => a[i] = s[i]
    BY Changed
  <1>2. IsStack(Vals(s)) /\ Len(Vals(s)) = n /\ \A k \in 1..n : Vals(s)[k] = s[k].val  BY ValsShape
  <1>3. f.val = s[n].val  BY DEF Top
  <1> HIDE DEF a, n
  <1>4. IsStack(Vals(a)) /\ Len(Vals(a)) = n /\ \A k \in 1..n : Vals(a)[k] = a[k].val
    BY <1>1, ValsShape
  <1>5. \A k \in 1..n : Vals(a)[k] = Vals(s)[k]
    <2>1. ASSUME NEW k \in 1..n  PROVE a[k].val = s[k].val
      BY <1>1, <1>3
    <2>2. QED  BY <1>2, <1>4, <2>1
  <1>6. Vals(a) = Vals(s)  BY <1>2, <1>4, <1>5, SameStack
  <1>7. QED  BY <1>6 DEF a

LEMMA ValsPopped ==
    ASSUME NEW s, IsStack(s), s # <<>>
    PROVE  Vals(Rest(s)) = Rest(Vals(s))
  <1> DEFINE n == Len(s)
             a == Rest(s)
             b == Rest(Vals(s))
             m == n - 1
  <1>1. /\ IsStack(a) /\ n \in Nat \ {0} /\ Len(a) = m /\ \A i \in 1..m : a[i] = s[i]
    BY Popped
  <1>2. IsStack(Vals(s)) /\ Len(Vals(s)) = n /\ \A k \in 1..n : Vals(s)[k] = s[k].val  BY ValsShape
  <1>3. IsStack(b) /\ Len(b) = m /\ \A i \in 1..m : b[i] = Vals(s)[i]
    <2>1. Vals(s) # <<>>  BY <1>1, <1>2, Bottom
    <2> HIDE DEF n
    <2>2. QED  BY <1>2, <2>1, Popped
  <1>4. \A k \in 1..m : k \in 1..n  BY <1>1
  <1> HIDE DEF a, b, n, m
  <1>5. IsStack(Vals(a)) /\ Len(Vals(a)) = m /\ \A k \in 1..m : Vals(a)[k] = a[k].val
    BY <1>1, ValsShape
  <1>6. \A k \in 1..m : Vals(a)[k] = b[k]  BY <1>1, <1>2, <1>3, <1>4, <1>5
  <1>7. Vals(a) = b  BY <1>3, <1>5, <1>6, SameStack
  <1>8. QED  BY <1>7 DEF a, b

LEMMA RestOfAppend ==
    ASSUME NEW s, NEW x, IsStack(s)
    PROVE  Rest(Append(s, x)) = s /\ Append(s, x) # <<>> /\ Top(Append(s, x)) = x
  <1> DEFINE n == Len(s)
             a == Append(s, x)
             b == Rest(a)
  <1>1. /\ IsStack(a) /\ n \in Nat /\ Len(a) = n + 1 /\ a[n + 1] = x
        /\ \A i \in 1..n : a[i] = s[i]
    BY Pushed
  <1> HIDE DEF a
  <1>2. a # <<>>  BY <1>1, Bottom
  <1>3. IsStack(b) /\ Len(b) = Len(a) - 1 /\ \A i \in 1..(Len(a) - 1) : b[i] = a[i]  BY <1>1, <1>2, Popped
  <1>4. Len(a) - 1 = n  BY <1>1
  <1> HIDE DEF b
  <1>5. Len(b) = Len(s) /\ \A i \in 1..Len(b) : b[i] = s[i]  BY <1>1, <1>3, <1>4
  <1>6. b = s  BY <1>3, <1>5, SameStack
  <1>7. QED  BY <1>1, <1>2, <1>6 DEF a, b, Top

\* The state of the parsers while Go builds.
OpeningPhase(p) == p.phase \in {"obj_open", "arr_open"}

ReadInv(p, g, V) ==
    /\ Tree(p.stack, g.heap, Vals(g.stack), V)
    /\ IF OpeningPhase(p)
       THEN /\ Len(g.stack) = Len(p.stack) + 1 /\ IsEmpty(g.heap[Top(g.stack).val])
            /\ g.heap[Top(g.stack).val].kind = IF p.phase = "obj_open" THEN "object" ELSE "array"
       ELSE Len(g.stack) = Len(p.stack)
    /\ p.phase \in {"value", "colon"} /\ p.stack # <<>> /\ Top(p.stack).obj =>
         Top(g.stack).pendKey = Top(p.stack).key
    /\ p.phase \in {"done", "accepted"} => V[1] = p.value /\ Len(g.heap) # 0

HasTree(p, g) == \E V : ReadInv(p, g, V)

\* A value is complete and delivered.
LEMMA DeliveryKeeps ==
    ASSUME NEW p, NEW g, NEW hp, NEW vs, NEW V, NEW v, IsPyState(p), IsStack(g.stack),
           Tree(p.stack, hp, vs, V), Len(vs) = Len(p.stack) + 1, v = NodeValue(hp[Top(vs)], V),
           p.stack # <<>> /\ Top(p.stack).obj => Top(p.stack).key \notin DOMAIN Top(p.stack).members,
           g.heap = hp, Vals(g.stack) = Rest(vs)
    PROVE  HasTree(PyDeliver(p, v), g)
  <1> DEFINE q == PyDeliver(p, v)
             a == Top(vs)
             W == [V EXCEPT ![a] = v]
  <1>1. IsStack(p.stack) /\ Len(p.stack) \in Nat /\ (p.stack = <<>> <=> Len(p.stack) = 0)
    BY Bottom DEF IsPyState
  <1>2. Len(Vals(g.stack)) = Len(g.stack)  BY ValsShape
  <1>3. CASE p.stack = <<>>
    <2>1. q.stack = p.stack /\ q.phase = "done" /\ q.value = v  BY <1>3 DEF PyDeliver, IsPyState
    <2>2. /\ Tree(<<>>, hp, Rest(vs), W) /\ Len(hp) \in Nat \ {0} /\ W[1] = v /\ Rest(vs) = <<>>
      <3>1. Tree(<<>>, hp, vs, V) /\ Len(vs) = 1  BY <1>1, <1>3
      <3>2. W = [V EXCEPT ![Top(vs)] = v]  OBVIOUS
      <3> HIDE DEF W
      <3>3. Finished(hp, vs, v, W)  BY <3>1, <3>2, TreeFinished
      <3>4. QED  BY <3>3 DEF Finished
    <2> HIDE DEF q, W
    <2>3. Len(g.stack) = Len(q.stack)  BY <1>2, <1>3, <2>1, <2>2
    <2>4. ReadInv(q, g, W)  BY <1>3, <2>1, <2>2, <2>3 DEF ReadInv, OpeningPhase
    <2>5. QED  BY <2>4 DEF HasTree, q
  <1>4. CASE p.stack # <<>>
    <2> DEFINE f == Top(p.stack)
               s == WithTop(p.stack, Filled(f, v))
    <2>1. IsFrame(f)  BY <1>1, <1>4 DEF IsPyState, Top
    <2>2. q.stack = s /\ q.phase \in {"arr_next", "obj_next"}
      <3>1. CASE f.obj
        <4>1. q = PyChange(p, "obj_next", WithMember(f, v))  BY <1>4, <3>1 DEF PyDeliver, PyChange
        <4>2. q.stack = WithTop(p.stack, WithMember(f, v)) /\ q.phase = "obj_next"
          BY <4>1 DEF PyChange, IsPyState
        <4>3. QED  BY <3>1, <4>2 DEF Filled
      <3>2. CASE ~f.obj
        <4>1. q = PyChange(p, "arr_next", WithElement(f, v))  BY <1>4, <3>2 DEF PyDeliver, PyChange
        <4>2. q.stack = WithTop(p.stack, WithElement(f, v)) /\ q.phase = "arr_next"
          BY <4>1 DEF PyChange, IsPyState
        <4>3. QED  BY <3>2, <4>2 DEF Filled
      <3>3. QED  BY <3>1, <3>2
    <2>3. Tree(s, hp, Rest(vs), W)  BY <1>4, <2>1, TreeClosed
    <2>4. Len(Rest(vs)) = Len(p.stack) /\ Len(s) = Len(p.stack)
      <3>1. IsStack(vs) /\ vs # <<>>
        <4>1. IsStack(vs)  BY DEF Tree, OpenNodes
        <4>2. QED  BY <1>1, <4>1, Bottom
      <3>2. Len(Rest(vs)) = Len(vs) - 1  BY <3>1, Popped
      <3>3. Len(s) = Len(p.stack)  BY <1>1, <1>4, Changed
      <3>4. QED  BY <1>1, <3>2, <3>3
    <2> HIDE DEF q, W, s
    <2>5. Len(g.stack) = Len(q.stack)  BY <1>2, <2>2, <2>4
    <2>6. ReadInv(q, g, W)  BY <2>2, <2>3, <2>5 DEF ReadInv, OpeningPhase
    <2>7. QED  BY <2>6 DEF HasTree, q
  <1>5. QED  BY <1>3, <1>4

LEMMA NewNodes ==
    ASSUME NEW t, StartsValue(t)
    PROVE  /\ IsEmpty(NewNode(t))
           /\ IsOpen(t) => NewNode(t).kind = IF t.kind = "{" THEN "object" ELSE "array"
           /\ ~IsOpen(t) => NewNode(t) = t /\ \A V : NodeValue(t, V) = t
  <1>1. CASE t.kind = "{"  BY <1>1 DEF NewNode, IsEmpty, IsOpen
  <1>2. CASE t.kind = "["  BY <1>2 DEF NewNode, IsEmpty, IsOpen
  <1>3. CASE t.kind \in {"string", "scalar"}  BY <1>3 DEF NewNode, IsEmpty, IsOpen, NodeValue
  <1>4. QED  BY <1>1, <1>2, <1>3 DEF StartsValue

\* The node of a value has been made, hp and vs with it; the value is
\* delivered, or its frame goes onto Go's stack.
LEMMA ValueTaken ==
    ASSUME NEW p, NEW h, NEW t, NEW V, NEW vs, IsPyState(p), p.phase = "value", StartsValue(t),
           p.stack # <<>> /\ Top(p.stack).obj => Top(p.stack).key \notin DOMAIN Top(p.stack).members,
           IsStack(vs), Tree(p.stack, h.heap, vs, V), Len(vs) = Len(p.stack) + 1,
           h.heap[Top(vs)] = NewNode(t), IsStack(h.stack),
           Vals(h.stack) = IF IsOpen(t) THEN vs ELSE Rest(vs)
    PROVE  HasTree(PyValue(p, t), h)
  <1>1. CASE IsOpen(t)
    <2> DEFINE ph == IF t.kind = "{" THEN "obj_open" ELSE "arr_open"
               q == PyTo(p, ph)
    <2>1. PyValue(p, t) = q /\ ph \in {"obj_open", "arr_open"} /\ (ph = "obj_open" <=> t.kind = "{")
      BY <1>1 DEF PyValue, PyTo, IsOpen
    <2> HIDE DEF ph
    <2>2. q.phase = ph /\ q.stack = p.stack  BY PhaseChanged
    <2> HIDE DEF q
    <2>3. Vals(h.stack) = vs /\ Len(h.stack) = Len(p.stack) + 1 /\ h.stack # <<>> /\ Top(h.stack).val = Top(vs)
      <3>1. Vals(h.stack) = vs  BY <1>1
      <3>2. Len(h.stack) = Len(p.stack) + 1  BY <3>1, ValsShape
      <3>3. Len(p.stack) \in Nat  BY Bottom DEF IsPyState
      <3>4. h.stack # <<>>  BY <3>2, <3>3, Bottom
      <3>5. QED  BY <3>1, <3>2, <3>4, ValsShape
    <2>4. /\ IsEmpty(NewNode(t))
          /\ NewNode(t).kind = IF ph = "obj_open" THEN "object" ELSE "array"
      BY <1>1, <2>1, NewNodes
    <2>5. ReadInv(q, h, V)  BY <2>1, <2>2, <2>3, <2>4 DEF ReadInv, OpeningPhase
    <2>6. QED  BY <2>1, <2>5 DEF HasTree
  <1>2. CASE ~IsOpen(t)
    <2>1. PyValue(p, t) = PyDeliver(p, t)  BY <1>2 DEF PyValue, StartsValue, IsOpen
    <2>2. t = NodeValue(h.heap[Top(vs)], V) /\ Vals(h.stack) = Rest(vs)  BY <1>2, NewNodes
    <2>3. QED  BY <2>1, <2>2, DeliveryKeeps
  <1>3. QED  BY <1>1, <1>2

LEMMA ValueKeeps ==
    ASSUME NEW p, NEW g, NEW t, NEW V, IsPyState(p), p.phase = "value", IsGo(g), StartsValue(t),
           Tree(p.stack, g.heap, Vals(g.stack), V), Len(g.stack) = Len(p.stack), p.stack # <<>>,
           Top(p.stack).obj => /\ Top(g.stack).pendKey = Top(p.stack).key
                               /\ Top(p.stack).key \notin DOMAIN Top(p.stack).members
    PROVE  HasTree(PyValue(p, t), GoAttach(g, t))
  <1> DEFINE f == Top(g.stack)
             e == Taken(f)
             n == Len(g.heap) + 1
             a == f.val
             hp == Append([g.heap EXCEPT ![a] = Attached(g.heap[a], f.pendKey, n)], NewNode(t))
             s == WithTop(g.stack, e)
             o == GoFrame(t, n)
             st == IF IsOpen(t) THEN Append(s, o) ELSE s
             h == GoAttach(g, t)
             vs == Append(Vals(g.stack), n)
  <1>1. h = GoBuilt(g, hp, st)  BY DEF GoAttach, GoBuilt, Taken, Between
  <1>2. g.stack # <<>> /\ IsStack(g.stack) /\ Len(p.stack) \in Nat
    <2>1. Len(p.stack) \in Nat \ {0}  BY Bottom DEF IsPyState
    <2>2. QED  BY <2>1, Bottom DEF IsGo
  <1>3. h.heap = hp /\ h.stack = st
    <2> HIDE DEF hp, st, h
    <2>1. QED  BY <1>1 DEF GoBuilt, IsGo
  <1>4. IsGoFrame(f)  BY <1>2, GoTop
  <1>5. e.val = f.val /\ o.val = n
    <2>1. e.val = f.val  BY <1>4 DEF Taken, IsGoFrame
    <2>2. o.val = n  BY DEF GoFrame
    <2>3. QED  BY <2>1, <2>2
  <1>6. Top(Vals(g.stack)) = a /\ IsStack(Vals(g.stack)) /\ Len(Vals(g.stack)) = Len(p.stack)
    BY <1>2, ValsShape
  <1>7. Tree(p.stack, hp, vs, V)
    <2> DEFINE key == f.pendKey
               nd == NewNode(t)
               us == Vals(g.stack)
    <2>1. IsEmpty(nd)  BY NewNodes
    <2>2. Top(p.stack).obj \in BOOLEAN
      <3>1. IsFrame(Top(p.stack))  BY <1>2, Bottom DEF IsPyState, Top
      <3>2. QED  BY <3>1 DEF IsFrame
    <2>3. Top(p.stack).obj => key = Top(p.stack).key /\ key \notin DOMAIN Top(p.stack).members  OBVIOUS
    <2>4. Tree(p.stack, g.heap, us, V) /\ Len(us) = Len(p.stack) /\ Top(us) = a  BY <1>6
    <2> HIDE DEF key, nd, us, a
    <2>5. Tree(p.stack, Append([g.heap EXCEPT ![Top(us)] = Attached(g.heap[Top(us)], key, Len(g.heap) + 1)], nd),
               Append(us, Len(g.heap) + 1), V)
      BY <2>1, <2>2, <2>3, <2>4, TreeOpened
    <2>6. QED  BY <2>4, <2>5 DEF key, nd, us
  <1>8. IsStack(vs) /\ Rest(vs) = Vals(g.stack) /\ Top(vs) = n /\ Len(vs) = Len(p.stack) + 1
    <2> HIDE DEF n
    <2>1. QED  BY <1>6, RestOfAppend, Pushed
  <1>9. hp[Top(vs)] = NewNode(t)
    <2> DEFINE hx == [g.heap EXCEPT ![a] = Attached(g.heap[a], f.pendKey, n)]
    <2>1. IsStack(hx) /\ Len(hx) = Len(g.heap)
      <3>1. IsStack(g.heap)  BY DEF Tree, OpenNodes
      <3>2. PICK S : g.heap \in Seq(S)  BY <3>1 DEF IsStack
      <3>0. a \in 1..Len(g.heap) /\ Len(g.heap) \in Nat
        <4> DEFINE us == Vals(g.stack)
        <4>1. OpenNodes(g.heap, us)  BY DEF Tree
        <4>2. Len(us) \in Nat /\ Len(us) # 0 /\ Top(us) = a
          <5>1. Len(us) = Len(p.stack) /\ Len(p.stack) \in Nat  BY <1>2, <1>6
          <5>2. Len(p.stack) # 0  BY Bottom DEF IsPyState
          <5>3. QED  BY <1>6, <5>1, <5>2
        <4> HIDE DEF us, a
        <4>3. Len(us) \in 1..Len(us) /\ us[Len(us)] = a  BY <4>2 DEF Top
        <4>4. QED  BY <3>1, <4>1, <4>3, Bottom DEF OpenNodes
      <3> DEFINE x == Attached(g.heap[a], f.pendKey, n)
      <3> HIDE DEF x, a
      <3>3. [g.heap EXCEPT ![a] = x] \in Seq(S \cup {x}) /\ Len([g.heap EXCEPT ![a] = x]) = Len(g.heap)
        BY <3>0, <3>2
      <3>4. QED  BY <3>3 DEF IsStack, x
    <2>2. hp = Append(hx, NewNode(t))  OBVIOUS
    <2> HIDE DEF hx, hp
    <2>3. hp[Len(g.heap) + 1] = NewNode(t)  BY <2>1, <2>2, Pushed
    <2>4. QED  BY <1>8, <2>3
  <1>10. IsStack(st) /\ Vals(st) = IF IsOpen(t) THEN vs ELSE Rest(vs)
    <2>1. IsStack(s) /\ Vals(s) = Vals(g.stack)
      <3> HIDE DEF e
      <3>1. QED  BY <1>2, <1>5, Changed, ValsChanged
    <2> HIDE DEF s, o
    <2>2. IsStack(Append(s, o)) /\ Vals(Append(s, o)) = Append(Vals(s), o.val)  BY <2>1, Pushed, ValsPushed
    <2>3. QED  BY <1>5, <1>8, <2>1, <2>2
  <1>11. QED
    <2> HIDE DEF h, hp, st, vs, n
    <2>1. /\ IsStack(vs) /\ Tree(p.stack, h.heap, vs, V) /\ Len(vs) = Len(p.stack) + 1
          /\ h.heap[Top(vs)] = NewNode(t) /\ IsStack(h.stack)
          /\ Vals(h.stack) = IF IsOpen(t) THEN vs ELSE Rest(vs)
      BY <1>3, <1>7, <1>8, <1>9, <1>10
    <2>2. HasTree(PyValue(p, t), h)  BY <2>1, ValueTaken
    <2>3. QED  BY <2>2 DEF h

LEMMA RootKeeps ==
    ASSUME NEW p, NEW g, NEW t, NEW V, IsPyState(p), p.phase = "value", IsGo(g), StartsValue(t),
           DOMAIN V = Nat, g.stack = <<>>, p.stack = <<>>
    PROVE  HasTree(PyValue(p, t), GoRoot(g, t))
  <1> DEFINE o == GoFrame(t, 1)
             st == IF IsOpen(t) THEN Append(g.stack, o) ELSE g.stack
             hp == <<NewNode(t)>>
             d == ~IsOpen(t)
             h == GoRoot(g, t)
             vs == <<1>>
  <1>1. h = GoRooted(g, hp, st, d)  BY DEF GoRoot, GoRooted, StartsValue
  <1>2. h.heap = hp /\ h.stack = st
    <2> HIDE DEF hp, st, h, d
    <2>1. QED  BY <1>1 DEF GoRooted, IsGo
  <1>3. Tree(<<>>, hp, vs, V)  BY NewNodes, TreeRoot
  <1>4. hp[1] = NewNode(t)  OBVIOUS
  <1>5. IsStack(<<>>) /\ Len(<<>>) = 0 /\ o.val = 1 /\ Vals(<<>>) = <<>>
    <2>1. IsStack(<<>>) /\ Len(<<>>) = 0  BY EmptySeq DEF IsStack
    <2>2. IsStack(Vals(<<>>)) /\ Len(Vals(<<>>)) = 0  BY <2>1, ValsShape
    <2>3. Vals(<<>>) = <<>>  BY <2>2, Bottom
    <2>4. QED  BY <2>1, <2>3 DEF GoFrame
  <1>6. IsStack(vs) /\ Len(vs) = 1 /\ Top(vs) = 1 /\ Rest(vs) = <<>> /\ vs = Append(<<>>, 1)
    <2>1. vs = Append(<<>>, 1)  OBVIOUS
    <2> HIDE DEF vs
    <2>2. IsStack(vs) /\ Len(vs) = 0 + 1  BY <1>5, <2>1, Pushed
    <2>3. Top(vs) = 1 /\ Rest(vs) = <<>>  BY <1>5, <2>1, RestOfAppend
    <2>4. QED  BY <2>1, <2>2, <2>3
  <1>7. IsStack(st) /\ Vals(st) = IF IsOpen(t) THEN vs ELSE Rest(vs)
    <2>0. st = IF IsOpen(t) THEN Append(<<>>, o) ELSE <<>>  OBVIOUS
    <2> HIDE DEF o, vs, st
    <2>1. IsStack(Append(<<>>, o)) /\ Vals(Append(<<>>, o)) = Append(Vals(<<>>), o.val)
      BY <1>5, Pushed, ValsPushed
    <2>2. QED  BY <1>5, <1>6, <2>0, <2>1
  <1>8. QED
    <2> HIDE DEF h, hp, st, vs
    <2>1. /\ IsStack(vs) /\ Tree(p.stack, h.heap, vs, V) /\ Len(vs) = Len(p.stack) + 1
          /\ h.heap[Top(vs)] = NewNode(t) /\ IsStack(h.stack)
          /\ Vals(h.stack) = IF IsOpen(t) THEN vs ELSE Rest(vs)
      BY <1>2, <1>3, <1>4, <1>5, <1>6, <1>7
    <2>2. p.stack # <<>> /\ Top(p.stack).obj => Top(p.stack).key \notin DOMAIN Top(p.stack).members  OBVIOUS
    <2>3. HasTree(PyValue(p, t), h)  BY <2>1, <2>2, ValueTaken
    <2>4. QED  BY <2>3 DEF h

\* A change of Go's top frame, and a pop, leave its heap.
SameHeap(h, g) ==
    /\ h.heap = g.heap /\ IsStack(h.stack) /\ Vals(h.stack) = Vals(g.stack) /\ Len(h.stack) = Len(g.stack)

LEMMA GoTopKept ==
    ASSUME NEW g, NEW f, IsGo(g), g.stack # <<>>, f.val = Top(g.stack).val
    PROVE  LET h == GoStacked(g, WithTop(g.stack, f))
           IN  SameHeap(h, g) /\ Top(h.stack) = f
  <1> DEFINE s == WithTop(g.stack, f)
             h == GoStacked(g, s)
  <1>1. IsStack(g.stack)  BY DEF IsGo
  <1>2. IsStack(s) /\ Len(s) = Len(g.stack) /\ s[Len(g.stack)] = f  BY <1>1, Changed
  <1>3. Vals(s) = Vals(g.stack)  BY <1>1, ValsChanged
  <1> HIDE DEF s
  <1>4. h.heap = g.heap /\ h.stack = s  BY DEF GoStacked, IsGo
  <1> HIDE DEF h
  <1>5. SameHeap(h, g) /\ Top(h.stack) = f  BY <1>2, <1>3, <1>4 DEF SameHeap, Top
  <1>6. QED  BY <1>5 DEF h, s

LEMMA GoTreeKept ==
    ASSUME NEW g, IsGo(g), g.stack # <<>>
    PROVE  /\ \A ph : SameHeap(InPhase(g, ph), g) /\ Top(InPhase(g, ph).stack).pendKey = Top(g.stack).pendKey
           /\ \A n : SameHeap(GoNames(g, n), g) /\ Top(GoNames(g, n).stack).pendKey = n
           /\ GoPop(g).heap = g.heap /\ IsStack(GoPop(g).stack) /\ Vals(GoPop(g).stack) = Rest(Vals(g.stack))
  <1>1. IsGoFrame(Top(g.stack)) /\ IsStack(g.stack)  BY GoTop DEF IsGo
  <1>2. ASSUME NEW ph
        PROVE  SameHeap(InPhase(g, ph), g) /\ Top(InPhase(g, ph).stack).pendKey = Top(g.stack).pendKey
    <2> DEFINE f == Phased(Top(g.stack), ph)
    <2>1. f.val = Top(g.stack).val /\ f.pendKey = Top(g.stack).pendKey  BY <1>1 DEF Phased, IsGoFrame
    <2>2. InPhase(g, ph) = GoStacked(g, WithTop(g.stack, f))  BY DEF InPhase, GoStacked, Phased
    <2> HIDE DEF f
    <2>3. QED  BY <2>1, <2>2, GoTopKept
  <1>3. ASSUME NEW n  PROVE SameHeap(GoNames(g, n), g) /\ Top(GoNames(g, n).stack).pendKey = n
    <2> DEFINE f == Named(Top(g.stack), n)
    <2>1. f.val = Top(g.stack).val /\ f.pendKey = n  BY <1>1 DEF Named, IsGoFrame
    <2>2. GoNames(g, n) = GoStacked(g, WithTop(g.stack, f))  BY DEF GoNames
    <2> HIDE DEF f
    <2>3. QED  BY <2>1, <2>2, GoTopKept
  <1>4. GoPop(g).heap = g.heap /\ GoPop(g).stack = Rest(g.stack)  BY DEF GoPop, IsGo
  <1>5. IsStack(Rest(g.stack)) /\ Vals(Rest(g.stack)) = Rest(Vals(g.stack))  BY <1>1, Popped, ValsPopped
  <1>6. QED  BY <1>2, <1>3, <1>4, <1>5

Rejects(g) == g.status = "rejected"

LEMMA GoFailRejects == ASSUME NEW g, IsGo(g)  PROVE Rejects(GoFail(g))
  BY GoFailShape DEF Rejects

\* Where a value is expected in the frame below, its name is a new one.
NewName(p) == p.stack # <<>> /\ Top(p.stack).obj => Top(p.stack).key \notin DOMAIN Top(p.stack).members

LEMMA WaitingName ==
    ASSUME NEW p, NEW g, IsPyState(p), \A i \in 1..Len(p.stack) : WaitingFrame(p.stack[i], g.stack[i])
    PROVE  NewName(p)
  <1>1. p.stack # <<>> => Len(p.stack) \in 1..Len(p.stack)  BY Bottom DEF IsPyState
  <1>2. QED  BY <1>1 DEF NewName, WaitingFrame, Top

LEMMA ValuePhaseKeeps ==
    ASSUME NEW p, NEW g, NEW t, NEW V, IsPy(p), IsGo(g), g.status = "reading", Mirror(p, g),
           ReadInv(p, g, V), p.phase = "value"
    PROVE  Rejects(GoStep(g, t)) \/ HasTree(PyStep(p, t), GoStep(g, t))
  <1>1. /\ Waiting(p, g) /\ ~g.rootDone
        /\ p.stack # <<>> => Top(g.stack).ph \in {"objValue", "arrVal"}
    BY DEF Mirror
  <1>2. (g.stack # <<>> <=> p.stack # <<>>) /\ Len(g.stack) = Len(p.stack)
    BY <1>1, Depths DEF IsPy, Waiting
  <1>3. GoStep(g, t) = GoTakes(g, t)
    BY <1>1, <1>2 DEF GoStep, GoEnd, GoBuild, GoRoot, GoElement, GoTakes, StartsValue
  <1>4. PyStep(p, t) = PyValue(p, t)  BY DEF PyStep
  <1>5. Tree(p.stack, g.heap, Vals(g.stack), V) /\ DOMAIN V = Nat  BY DEF ReadInv, Tree
  <1>6. NewName(p) /\ IsPyState(p)  BY <1>1, WaitingName DEF Waiting, IsPy
  <1>7. CASE ~StartsValue(t)
    BY <1>3, <1>7, GoFailRejects DEF GoTakes
  <1>8. CASE StartsValue(t) /\ p.stack = <<>>
    <2>1. GoTakes(g, t) = GoRoot(g, t)  BY <1>2, <1>8 DEF GoTakes
    <2>2. QED  BY <1>2, <1>3, <1>4, <1>5, <1>6, <1>8, <2>1, RootKeeps
  <1>9. CASE StartsValue(t) /\ p.stack # <<>>
    <2>1. GoTakes(g, t) = GoAttach(g, t)  BY <1>2, <1>9 DEF GoTakes
    <2>2. Top(p.stack).obj => /\ Top(g.stack).pendKey = Top(p.stack).key
                              /\ Top(p.stack).key \notin DOMAIN Top(p.stack).members
      BY <1>6, <1>9 DEF NewName, ReadInv
    <2>3. QED  BY <1>2, <1>3, <1>4, <1>5, <1>6, <1>9, <2>1, <2>2, ValueKeeps
  <1>10. QED  BY <1>7, <1>8, <1>9

LEMMA EmptyValues ==
    ASSUME NEW nd, NEW V, IsEmpty(nd)
    PROVE  /\ nd.kind = "object" => NodeValue(nd, V) = EmptyObject
           /\ nd.kind = "array" => NodeValue(nd, V) = EmptyArray
  <1>1. CASE nd.kind = "object"
    <2>1. nd.obj = <<>> /\ DOMAIN nd.obj = {}  BY <1>1 DEF IsEmpty
    <2> DEFINE at(n) == CHOOSE j \in DOMAIN nd.obj : nd.obj[j].name = n
    <2>2. {nd.obj[j].name : j \in DOMAIN nd.obj} = {}  BY <2>1
    <2> HIDE DEF at
    <2>3. [n \in {nd.obj[j].name : j \in DOMAIN nd.obj} |-> V[nd.obj[at(n)].val]] = [k \in {} |-> NoKey]
      BY <2>2
    <2>4. QED  BY <1>1, <2>3 DEF NodeValue, EmptyObject, at
  <1>2. CASE nd.kind = "array"
    <2>1. nd.arr = <<>> /\ DOMAIN nd.arr = {}  BY <1>2 DEF IsEmpty
    <2>2. [j \in DOMAIN nd.arr |-> V[nd.arr[j]]] = <<>>  BY <2>1
    <2>3. QED  BY <1>2, <2>2 DEF NodeValue, EmptyArray
  <1>3. QED  BY <1>1, <1>2

LEMMA OpenPhasesKeep ==
    ASSUME NEW p, NEW g, NEW t, NEW V, IsPy(p), IsGo(g), g.status = "reading", Mirror(p, g),
           ReadInv(p, g, V), OpeningPhase(p)
    PROVE  Rejects(GoStep(g, t)) \/ HasTree(PyStep(p, t), GoStep(g, t))
  <1> DEFINE a == Top(g.stack).val
             nd == g.heap[a]
             us == Vals(g.stack)
  <1>0. p.phase \in {"obj_open", "arr_open"}  BY DEF OpeningPhase
  <1>1. /\ Len(g.stack) = Len(p.stack) + 1 /\ ~g.rootDone
        /\ \A i \in 1..Len(p.stack) : WaitingFrame(p.stack[i], g.stack[i])
        /\ Top(g.stack).keys = {}
        /\ Top(g.stack).ph = IF p.phase = "obj_open" THEN "objKeyOrClose" ELSE "arrValOrClose"
    BY <1>0 DEF Mirror
  <1>2. IsPyState(p) /\ Len(p.stack) \in Nat /\ g.stack # <<>> /\ IsStack(g.stack)
    BY <1>1, Depths DEF IsPy, IsGo
  <1>3. /\ Tree(p.stack, g.heap, us, V) /\ IsEmpty(nd)
        /\ nd.kind = IF p.phase = "obj_open" THEN "object" ELSE "array"
    BY DEF ReadInv
  <1>4. Top(us) = a /\ Len(us) = Len(p.stack) + 1 /\ IsStack(us)  BY <1>1, <1>2, ValsShape
  <1>5. NewName(p)  BY <1>1, <1>2, WaitingName
  <1> HIDE DEF us, a
  <1>6. CASE t.kind = IF p.phase = "obj_open" THEN "}" ELSE "]"
    <2> DEFINE v == IF p.phase = "obj_open" THEN EmptyObject ELSE EmptyArray
               h == GoPop(g)
    <2>1. PyStep(p, t) = PyDeliver(p, v)  BY <1>0, <1>6 DEF PyStep, PyObjOpen, PyArrOpen
    <2>2. GoStep(g, t) = h  BY <1>1, <1>2, <1>6 DEF GoStep, GoBuild, GoName, GoElement
    <2>3. v = NodeValue(g.heap[Top(us)], V)  BY <1>0, <1>3, <1>4, EmptyValues
    <2>4. h.heap = g.heap /\ IsStack(h.stack) /\ Vals(h.stack) = Rest(us)  BY <1>2, GoTreeKept DEF us
    <2> HIDE DEF v, h
    <2>5. HasTree(PyDeliver(p, v), h)
      BY <1>2, <1>3, <1>4, <1>5, <2>3, <2>4, DeliveryKeeps DEF NewName
    <2>6. QED  BY <2>1, <2>2, <2>5
  <1>7. CASE p.phase = "obj_open" /\ t.kind = "string"
    <2> DEFINE f == ObjectFrame(t.text)
               q == PyPush(p, "colon", f)
               h == GoNames(g, t.text)
    <2>1. PyStep(p, t) = q  BY <1>7 DEF PyStep, PyObjOpen, PyPush
    <2>2. GoStep(g, t) = h
      BY <1>1, <1>2, <1>7 DEF GoStep, GoBuild, GoName, GoNames, GoStacked, Named
    <2>3. IsFrame(f) /\ f.key = t.text /\ \E k : f = ObjectFrame(k)  BY NewFrames
    <2> HIDE DEF f
    <2>4. q.stack = Append(p.stack, f) /\ q.phase = "colon" /\ Top(q.stack) = f
          /\ Len(q.stack) = Len(p.stack) + 1
      <3>1. q.stack = Append(p.stack, f)  BY <1>2 DEF PyPush, IsPyState
      <3>2. QED  BY <1>2, <2>3, <3>1, FramePushed
    <2>5. SameHeap(h, g) /\ Top(h.stack).pendKey = t.text  BY <1>2, GoTreeKept
    <2> HIDE DEF q, h
    <2>6. Tree(q.stack, g.heap, us, V)
      <3>1. nd.kind = "object"  BY <1>3, <1>7
      <3>2. QED  BY <1>3, <1>4, <2>3, <2>4, <3>1, TreePushed
    <2>7. ReadInv(q, h, V)
      <3>1. Tree(q.stack, h.heap, Vals(h.stack), V) /\ Len(h.stack) = Len(q.stack)
        BY <1>1, <2>4, <2>5, <2>6 DEF SameHeap, us
      <3>2. QED  BY <2>3, <2>4, <2>5, <3>1 DEF ReadInv, OpeningPhase
    <2>8. QED  BY <2>1, <2>2, <2>7 DEF HasTree
  <1>8. CASE p.phase = "obj_open" /\ t.kind \notin {"}", "string"}
    <2>1. GoStep(g, t) = GoFail(g)  BY <1>1, <1>2, <1>8 DEF GoStep, GoEnd, GoBuild, GoName
    <2>2. QED  BY <2>1, GoFailRejects
  <1>9. CASE p.phase = "arr_open" /\ t.kind # "]"
    <2> DEFINE f == ArrayFrame
               q == PyPush(p, "value", f)
    <2>1. PyStep(p, t) = PyValue(q, t)  BY <1>9 DEF PyStep, PyArrOpen, PyPush
    <2>2. GoStep(g, t) = GoTakes(g, t)
      BY <1>1, <1>2, <1>9 DEF GoStep, GoEnd, GoBuild, GoElement, GoTakes, StartsValue
    <2>3. IsFrame(f) /\ ~f.obj  BY NewFrames
    <2>4. f = ArrayFrame  OBVIOUS
    <2> HIDE DEF f
    <2>5. /\ q.stack = Append(p.stack, f) /\ q.phase = "value" /\ Top(q.stack) = f /\ q.stack # <<>>
          /\ Len(q.stack) = Len(p.stack) + 1 /\ IsPyState(q)
      <3>1. q.stack = Append(p.stack, f)  BY <1>2 DEF PyPush, IsPyState
      <3>2. QED  BY <1>2, <2>3, <3>1, FramePushed
    <2> HIDE DEF q
    <2>6. Tree(q.stack, g.heap, us, V)
      <3>1. nd.kind = "array"  BY <1>3, <1>9
      <3>2. QED  BY <1>3, <1>4, <2>4, <2>5, <3>1, TreePushed
    <2>7. CASE ~StartsValue(t)  BY <2>2, <2>7, GoFailRejects DEF GoTakes
    <2>8. CASE StartsValue(t)
      <3>1. GoTakes(g, t) = GoAttach(g, t)  BY <1>2, <2>8 DEF GoTakes
      <3>2. Len(g.stack) = Len(q.stack) /\ Tree(q.stack, g.heap, Vals(g.stack), V)
        BY <1>1, <2>5, <2>6 DEF us
      <3>3. HasTree(PyValue(q, t), GoAttach(g, t))  BY <2>3, <2>5, <2>8, <3>2, ValueKeeps
      <3>4. QED  BY <2>1, <2>2, <3>1, <3>3
    <2>9. QED  BY <2>7, <2>8
  <1>10. QED  BY <1>0, <1>6, <1>7, <1>8, <1>9

LEMMA KeyPhaseKeeps ==
    ASSUME NEW p, NEW g, NEW t, NEW V, IsPy(p), IsGo(g), g.status = "reading", Mirror(p, g),
           ReadInv(p, g, V), p.phase = "key"
    PROVE  Rejects(GoStep(g, t)) \/ HasTree(PyStep(p, t), GoStep(g, t))
  <1>1. Settled(p, g) /\ ~g.rootDone /\ Top(g.stack).ph = "objKey"  BY DEF Mirror
  <1>2. /\ Len(g.stack) = Len(p.stack) /\ p.stack # <<>> /\ IsPyState(p) /\ g.stack # <<>>
        /\ IsStack(g.stack) /\ IsStack(p.stack) /\ Len(p.stack) \in Nat \ {0}
    BY <1>1, Depths DEF Settled, IsPy, IsGo, IsPyState
  <1>3. IsFrame(Top(p.stack))  BY <1>2 DEF IsPyState, Top
  <1>4. Tree(p.stack, g.heap, Vals(g.stack), V)  BY DEF ReadInv
  <1>5. CASE t.kind # "string" \/ t.text \in Top(g.stack).keys
    <2>1. GoStep(g, t) = GoFail(g)  BY <1>1, <1>2, <1>5 DEF GoStep, GoEnd, GoBuild, GoName
    <2>2. QED  BY <2>1, GoFailRejects
  <1>6. CASE t.kind = "string" /\ t.text \notin Top(g.stack).keys
    <2> DEFINE f == [Top(p.stack) EXCEPT !.key = t.text]
               q == PyChange(p, "colon", f)
               h == GoNames(g, t.text)
    <2>1. PyStep(p, t) = q  BY <1>6 DEF PyStep, PyKey, PyChange
    <2>2. GoStep(g, t) = h
      BY <1>1, <1>2, <1>6 DEF GoStep, GoBuild, GoName, GoNames, GoStacked, Named
    <2>3. /\ IsFrame(f) /\ f.key = t.text /\ f.obj = Top(p.stack).obj
          /\ f.members = Top(p.stack).members /\ f.els = Top(p.stack).els
      BY <1>3 DEF IsFrame
    <2> HIDE DEF f
    <2>4. /\ q.stack = WithTop(p.stack, f) /\ q.phase = "colon" /\ Top(q.stack) = f
          /\ Len(q.stack) = Len(p.stack)
      <3>1. q.stack = WithTop(p.stack, f)  BY <1>2 DEF PyChange, IsPyState
      <3>2. QED  BY <1>2, <2>3, <3>1, FrameChanged
    <2>5. SameHeap(h, g) /\ Top(h.stack).pendKey = t.text  BY <1>2, GoTreeKept
    <2> HIDE DEF q, h
    <2>6. Tree(q.stack, g.heap, Vals(g.stack), V)
      <3>1. Len(Vals(g.stack)) = Len(p.stack)  BY <1>2, ValsShape
      <3>2. QED  BY <1>2, <1>4, <2>3, <2>4, <3>1, TreeNamed
    <2>7. ReadInv(q, h, V)
      <3>1. Tree(q.stack, h.heap, Vals(h.stack), V) /\ Len(h.stack) = Len(q.stack)
        BY <1>2, <2>4, <2>5, <2>6 DEF SameHeap
      <3>2. QED  BY <2>3, <2>4, <2>5, <3>1 DEF ReadInv, OpeningPhase
    <2>8. QED  BY <2>1, <2>2, <2>7 DEF HasTree
  <1>7. QED  BY <1>5, <1>6

LEMMA ColonPhaseKeeps ==
    ASSUME NEW p, NEW g, NEW t, NEW V, IsPy(p), IsGo(g), g.status = "reading", Mirror(p, g),
           ReadInv(p, g, V), p.phase = "colon"
    PROVE  Rejects(GoStep(g, t)) \/ HasTree(PyStep(p, t), GoStep(g, t))
  <1>1. /\ Waiting(p, g) /\ ~g.rootDone /\ Top(g.stack).ph = "objColon" /\ p.stack # <<>> /\ IsPyState(p)
    BY DEF Mirror, IsPy
  <1>2. g.stack # <<>> /\ Len(g.stack) = Len(p.stack)  BY <1>1, Depths DEF Waiting
  <1>3. CASE t.kind # ":"
    <2>1. GoStep(g, t) = GoFail(g)  BY <1>1, <1>2, <1>3 DEF GoStep, GoEnd, GoBuild
    <2>2. QED  BY <2>1, GoFailRejects
  <1>4. CASE t.kind = ":"
    <2> DEFINE q == PyTo(p, "value")
               h == InPhase(g, "objValue")
    <2>1. PyStep(p, t) = q  BY <1>4 DEF PyStep, PyColon, PyTo
    <2>2. GoStep(g, t) = h  BY <1>1, <1>2, <1>4 DEF GoStep, GoBuild
    <2>3. q.phase = "value" /\ q.stack = p.stack  BY <1>1, PhaseChanged
    <2>4. SameHeap(h, g) /\ Top(h.stack).pendKey = Top(g.stack).pendKey  BY <1>2, GoTreeKept
    <2> HIDE DEF q, h
    <2>5. ReadInv(q, h, V)
      <3>1. Tree(q.stack, h.heap, Vals(h.stack), V) /\ Len(h.stack) = Len(q.stack)
        BY <1>2, <2>3, <2>4 DEF SameHeap, ReadInv
      <3>2. Top(q.stack).obj => Top(h.stack).pendKey = Top(q.stack).key
        BY <1>1, <2>3, <2>4 DEF ReadInv
      <3>3. QED  BY <2>3, <3>1, <3>2 DEF ReadInv, OpeningPhase
    <2>6. QED  BY <2>1, <2>2, <2>5 DEF HasTree
  <1>5. QED  BY <1>3, <1>4

LEMMA NextPhasesKeep ==
    ASSUME NEW p, NEW g, NEW t, NEW V, IsPy(p), IsGo(g), g.status = "reading", Mirror(p, g),
           ReadInv(p, g, V), p.phase \in {"obj_next", "arr_next"}
    PROVE  Rejects(GoStep(g, t)) \/ HasTree(PyStep(p, t), GoStep(g, t))
  <1> DEFINE obj   == p.phase = "obj_next"
             close == IF obj THEN "}" ELSE "]"
             ph    == IF obj THEN "objKey" ELSE "arrVal"
  <1>1. Settled(p, g) /\ JoinedTo(g, Len(g.stack)) /\ ~g.rootDone  BY DEF Mirror
  <1>2. /\ Len(g.stack) = Len(p.stack) /\ p.stack # <<>> /\ SettledFrame(Top(p.stack), Top(g.stack))
        /\ \A i \in 1..(Len(p.stack) - 1) : WaitingFrame(p.stack[i], g.stack[i])
    BY <1>1 DEF Settled
  <1>3. /\ IsPyState(p) /\ Len(p.stack) \in Nat \ {0} /\ g.stack # <<>>
        /\ IsStack(g.stack) /\ IsStack(p.stack)
    BY <1>2, Depths DEF IsPy, IsGo, IsPyState
  <1>4. Top(p.stack).obj = obj /\ Top(g.stack).isObj = obj
    <2>1. IsFrame(Top(p.stack))  BY <1>3 DEF IsPyState, Top
    <2>2. Top(p.stack).obj = obj  BY <2>1 DEF IsPy, IsFrame
    <2>3. QED  BY <1>2, <2>2 DEF SettledFrame
  <1>5. Top(g.stack).ph = IF obj THEN "objCommaOrClose" ELSE "arrCommaOrClose"
    <2>1. Top(g.stack).ph = Between(Top(g.stack))  BY <1>1, <1>2, <1>3 DEF JoinedTo, Top
    <2>2. QED  BY <1>4, <2>1 DEF Between
  <1>6. GoStep(g, t) = IF t.kind = "," THEN InPhase(g, ph)
                       ELSE IF t.kind = close THEN GoPop(g) ELSE GoFail(g)
    BY <1>1, <1>3, <1>5 DEF GoStep, GoEnd, GoBuild, GoNext
  <1>7. Tree(p.stack, g.heap, Vals(g.stack), V)  BY DEF ReadInv
  <1>8. CASE t.kind = ","
    <2> DEFINE m == IF obj THEN "key" ELSE "value"
               q == PyTo(p, m)
               h == InPhase(g, ph)
    <2>1. PyStep(p, t) = q /\ GoStep(g, t) = h
      BY <1>6, <1>8 DEF PyStep, PyObjNext, PyArrNext, PyTo
    <2>2. q.phase = m /\ q.stack = p.stack  BY <1>3, PhaseChanged
    <2>3. SameHeap(h, g)  BY <1>3, GoTreeKept
    <2> HIDE DEF q, h
    <2>4. Tree(q.stack, h.heap, Vals(h.stack), V) /\ Len(h.stack) = Len(q.stack)
      BY <1>2, <1>7, <2>2, <2>3 DEF SameHeap
    <2>5. q.phase = "value" => ~Top(q.stack).obj  BY <1>4, <2>2
    <2>6. q.phase \in {"key", "value"}  BY <2>2
    <2>7. ReadInv(q, h, V)  BY <2>4, <2>5, <2>6 DEF ReadInv, OpeningPhase
    <2>8. QED  BY <2>1, <2>7 DEF HasTree
  <1>9. CASE t.kind = close
    <2> DEFINE r == PyPop(p)
               h == GoPop(g)
               us == Vals(g.stack)
               v == IF obj THEN [kind |-> "object", members |-> Top(p.stack).members]
                    ELSE [kind |-> "array", els |-> Top(p.stack).els]
    <2>1. PyStep(p, t) = PyDeliver(r, v)
      BY <1>9 DEF PyStep, PyObjNext, PyArrNext, PyPop
    <2>2. GoStep(g, t) = h  BY <1>6, <1>9
    <2>3. IsPyState(r) /\ r.stack = Rest(p.stack) /\ Len(r.stack) = Len(p.stack) - 1
          /\ \A i \in 1..(Len(p.stack) - 1) : r.stack[i] = p.stack[i]
      <3>1. r.stack = Rest(p.stack)  BY <1>3 DEF PyPop, IsPyState
      <3>2. QED  BY <1>2, <1>3, <3>1, FramePopped
    <2>4. NewName(r)
      <3> HIDE DEF r
      <3>1. \A i \in 1..Len(r.stack) : WaitingFrame(r.stack[i], g.stack[i])  BY <1>2, <2>3
      <3>2. QED  BY <2>3, <3>1, WaitingName
    <2>5. /\ Tree(Rest(p.stack), g.heap, us, V) /\ Len(us) = Len(Rest(p.stack)) + 1
          /\ v = NodeValue(g.heap[Top(us)], V)
      <3>1. Len(us) = Len(p.stack) /\ Tree(p.stack, g.heap, us, V)  BY <1>2, <1>3, <1>7, ValsShape
      <3> HIDE DEF us
      <3>2. /\ Tree(Rest(p.stack), g.heap, us, V) /\ Len(us) = Len(Rest(p.stack)) + 1
            /\ NodeValue(g.heap[Top(us)], V)
                 = IF Top(p.stack).obj THEN [kind |-> "object", members |-> Top(p.stack).members]
                   ELSE [kind |-> "array", els |-> Top(p.stack).els]
        BY <1>2, <3>1, TreePopped
      <3>3. Top(p.stack).obj <=> obj  BY <1>4
      <3>4. QED  BY <3>2, <3>3
    <2>6. h.heap = g.heap /\ IsStack(h.stack) /\ Vals(h.stack) = Rest(us)  BY <1>3, GoTreeKept
    <2> HIDE DEF v, h, us, r
    <2>7. HasTree(PyDeliver(r, v), h)  BY <2>3, <2>4, <2>5, <2>6, DeliveryKeeps DEF NewName
    <2>8. QED  BY <2>1, <2>2, <2>7
  <1>10. CASE t.kind \notin {",", close}
    <2>1. GoStep(g, t) = GoFail(g)  BY <1>6, <1>10
    <2>2. QED  BY <2>1, GoFailRejects
  <1>11. QED  BY <1>8, <1>9, <1>10

LEMMA DonePhaseKeeps ==
    ASSUME NEW p, NEW g, NEW t, NEW V, IsPy(p), IsGo(g), g.status = "reading", Mirror(p, g),
           ReadInv(p, g, V), p.phase = "done"
    PROVE  Rejects(GoStep(g, t)) \/ HasTree(PyStep(p, t), GoStep(g, t))
  <1>1. g.stack = <<>> /\ g.rootDone /\ IsPyState(p) /\ p.stack = <<>>  BY DEF Mirror, IsPy
  <1>2. CASE t.kind = "end"
    <2> DEFINE q == PyTo(p, "accepted")
               h == [g EXCEPT !.status = "accepted"]
    <2>1. PyStep(p, t) = q /\ GoStep(g, t) = h
      BY <1>1, <1>2 DEF PyStep, PyDone, PyTo, GoStep, GoEnd
    <2>2. q.phase = "accepted" /\ q.stack = p.stack /\ q.value = p.value  BY <1>1 DEF PyTo, IsPyState
    <2>3. h.heap = g.heap /\ h.stack = g.stack  BY DEF IsGo
    <2> HIDE DEF q, h
    <2>4. ReadInv(q, h, V)  BY <1>1, <2>2, <2>3 DEF ReadInv, OpeningPhase
    <2>5. QED  BY <2>1, <2>4 DEF HasTree
  <1>3. CASE t.kind # "end"
    <2>1. GoStep(g, t) = GoFail(g)  BY <1>1, <1>3 DEF GoStep, GoBuild
    <2>2. QED  BY <2>1, GoFailRejects
  <1>4. QED  BY <1>2, <1>3

\* The invariant: as long as Go has not rejected the text, its heap is the tree
\* of the values Python has.
TreeInv(p, g) == ParserInv(p, g) /\ (Rejects(g) \/ HasTree(p, g))

LEMMA StepKeepsTree ==
    ASSUME NEW p, NEW g, NEW t, TreeInv(p, g)
    PROVE  TreeInv(PyStep(p, t), GoStep(g, t))
  <1>1. ParserInv(PyStep(p, t), GoStep(g, t)) /\ IsPy(p) /\ IsGo(g)  BY StepAgrees DEF TreeInv, ParserInv
  <1>2. CASE g.status = "reading"
    <2>1. PICK V : ReadInv(p, g, V)  BY <1>2 DEF TreeInv, HasTree, Rejects
    <2>2. Mirror(p, g)  BY <1>2 DEF TreeInv, ParserInv
    <2>3. p.phase \notin {"accepted", "rejected"}  BY <2>2 DEF Mirror
    <2>4. Rejects(GoStep(g, t)) \/ HasTree(PyStep(p, t), GoStep(g, t))
      <3>1. p.phase \in {"value", "key", "colon", "obj_next", "arr_next", "done"} \/ OpeningPhase(p)
        BY <1>1, <2>3 DEF IsPy, Phases, OpeningPhase
      <3>2. QED
        BY <1>1, <1>2, <2>1, <2>2, <3>1, ValuePhaseKeeps, OpenPhasesKeep, KeyPhaseKeeps, ColonPhaseKeeps,
           NextPhasesKeep, DonePhaseKeeps
    <2>5. QED  BY <1>1, <2>4 DEF TreeInv
  <1>3. CASE g.status = "accepted"
    <2>1. p.phase = "accepted"  BY <1>3 DEF TreeInv, ParserInv
    <2>2. PyStep(p, t) = p /\ GoStep(g, t) = g  BY <1>3, <2>1 DEF PyStep, GoStep
    <2>3. QED  BY <2>2
  <1>4. CASE g.status = "rejected"
    <2>1. GoStep(g, t) = g  BY <1>4 DEF GoStep
    <2>2. QED  BY <1>1, <1>4, <2>1 DEF TreeInv, Rejects
  <1>5. QED  BY <1>1, <1>2, <1>3, <1>4 DEF IsGo

LEMMA StartHasTree == TreeInv(PyStart, GoStart)
  <1> DEFINE p == PyStart
             g == GoStart
             V == [i \in Nat |-> NoKey]
  <1>1. p.phase = "value" /\ p.stack = <<>> /\ g.stack = <<>> /\ g.heap = <<>>  BY DEF PyStart, GoStart
  <1>2. IsStack(<<>>) /\ Len(<<>>) = 0 /\ Vals(<<>>) = <<>>
    <2>1. IsStack(<<>>) /\ Len(<<>>) = 0  BY EmptySeq DEF IsStack
    <2>2. IsStack(Vals(<<>>)) /\ Len(Vals(<<>>)) = 0  BY <2>1, ValsShape
    <2>3. QED  BY <2>1, <2>2, Bottom
  <1>3. DOMAIN V = Nat  OBVIOUS
  <1> HIDE DEF p, g, V
  <1>4. Tree(<<>>, <<>>, <<>>, V)
    <2> DEFINE e == <<>>
    <2>1. IsStack(e) /\ Len(e) = 0 /\ e = <<>> /\ 1..Len(e) = {}  BY <1>2
    <2> HIDE DEF e
    <2>2. OpenNodes(e, e)  BY <2>1 DEF OpenNodes
    <2>3. Nodes(e) /\ Shut(e, e, V)  BY <2>1 DEF Nodes, Shut
    <2>4. Tree(e, e, e, V)  BY <1>3, <2>1, <2>2, <2>3 DEF Tree
    <2>5. QED  BY <2>1, <2>4
  <1>5. ReadInv(p, g, V)  BY <1>1, <1>2, <1>4 DEF ReadInv, OpeningPhase
  <1>6. ParserInv(p, g)  BY StartAgrees DEF p, g
  <1>7. QED  BY <1>5, <1>6 DEF TreeInv, HasTree, p, g

\* The Go parser builds, through pointers and from the root down, the value
\* the Python parser builds from the leaves up: for every text both accept, of
\* any length and nesting (parse_document of json_input.py, buildValue of
\* value.go).
THEOREM ValuesAgree == Spec => []SameValue
  <1>1. Init => TreeInv(py, go)  BY StartHasTree DEF Init
  <1>2. TreeInv(py, go) /\ [Next]_vars => TreeInv(py, go)'
    <2>1. ASSUME TreeInv(py, go), NEW t \in Tokens, Read(t)  PROVE TreeInv(py, go)'
      BY <2>1, StepKeepsTree DEF Read
    <2>2. ASSUME TreeInv(py, go), UNCHANGED vars  PROVE TreeInv(py, go)'
      BY <2>2 DEF vars
    <2>3. QED  BY <2>1, <2>2 DEF Next
  <1>3. TreeInv(py, go) => SameValue
    <2>1. SUFFICES ASSUME TreeInv(py, go), py.phase = "accepted", go.status = "accepted"
                   PROVE  GoValue = py.value
      BY DEF SameValue
    <2>2. PICK V : ReadInv(py, go, V)  BY <2>1 DEF TreeInv, HasTree, Rejects
    <2>3. py.stack = <<>> /\ IsStack(go.stack) /\ IsStack(py.stack)
      BY <2>1 DEF TreeInv, ParserInv, IsPy, IsGo, IsPyState
    <2>4. V[1] = py.value /\ Len(go.heap) # 0 /\ Len(go.stack) = Len(py.stack)
          /\ Tree(py.stack, go.heap, Vals(go.stack), V)
      BY <2>1, <2>2 DEF ReadInv, OpeningPhase
    <2>5. Vals(go.stack) = <<>>
      <3>1. Len(Vals(go.stack)) = 0 /\ IsStack(Vals(go.stack))  BY <2>3, <2>4, Bottom, ValsShape
      <3>2. QED  BY <3>1, Bottom
    <2>6. Evaluated(go.heap)[1] = V[1]  BY <2>3, <2>4, <2>5, EvaluatesTo
    <2>7. QED  BY <2>4, <2>6, GoValueIs
  <1>4. QED  BY <1>1, <1>2, <1>3, PTL DEF Spec

-----------------------------------------------------------------------------
(* The grammar.  What the Python parser accepts, token by token, are the     *)
(* texts that JsonText!IsJson derives.                                       *)

\* A function that is defined from one number to the next exists.
Stepwise(S, first, step) ==
    \E f \in [Nat -> S] : f[0] = first /\ \A n \in Nat \ {0} : f[n] = step[f[n - 1]]

\* f is such a function up to n.
StepwiseTo(f, S, n, first, step) ==
    f \in [0..n -> S] /\ f[0] = first /\ \A i \in 1..n : f[i] = step[f[i - 1]]

LEMMA StepwiseExists ==
    ASSUME NEW S, NEW first \in S, NEW step \in [S -> S]
    PROVE  Stepwise(S, first, step)
  <1> DEFINE Up(n, f) == StepwiseTo(f, S, n, first, step)
             A == {n \in Nat : \E f : Up(n, f)}
  <1>1. 0 \in A
    <2> DEFINE f == [i \in 0..0 |-> first]
    <2>1. f \in [0..0 -> S] /\ f[0] = first /\ \A i \in 1..0 : FALSE  OBVIOUS
    <2> HIDE DEF f
    <2>2. Up(0, f)  BY <2>1 DEF StepwiseTo
    <2>3. QED  BY <2>2
  <1>2. ASSUME NEW n \in A  PROVE n + 1 \in A
    <2>1. PICK f : Up(n, f)  OBVIOUS
    <2> DEFINE k == n + 1
               x == step[f[n]]
               h == [i \in 0..k |-> IF i = k THEN x ELSE f[i]]
    <2>2. /\ k \in Nat \ {0} /\ n \in Nat /\ k - 1 = n /\ n \in 0..n /\ k \in 0..k
          /\ \A i \in 0..k : i # k => i \in 0..n
          /\ \A i \in 1..k : i # k => i \in 1..n /\ i - 1 \in 0..n /\ i \in 0..n
          /\ \A i \in 0..n : i \in 0..k /\ i # k
      OBVIOUS
    <2>3. f[n] \in S /\ x \in S  BY <2>1, <2>2 DEF StepwiseTo
    <2> HIDE DEF k, x
    <2>4. h \in [0..k -> S]  BY <2>1, <2>2, <2>3 DEF StepwiseTo
    <2>5. h[k] = x /\ \A i \in 0..n : h[i] = f[i]  BY <2>2
    <2> HIDE DEF h
    <2>6. h[0] = first  BY <2>1, <2>2, <2>5 DEF StepwiseTo
    <2>7. ASSUME NEW i \in 1..k  PROVE h[i] = step[h[i - 1]]
      <3>1. CASE i = k  BY <2>2, <2>5, <3>1 DEF x
      <3>2. CASE i # k
        <4>1. i \in 1..n /\ h[i] = f[i] /\ h[i - 1] = f[i - 1]  BY <2>2, <2>5, <3>2
        <4>2. QED  BY <2>1, <4>1 DEF StepwiseTo
      <3>3. QED  BY <3>1, <3>2
    <2>8. Up(k, h)  BY <2>4, <2>6, <2>7 DEF StepwiseTo
    <2>9. QED  BY <2>2, <2>8 DEF k
  <1>3. \A n \in Nat : \E f : Up(n, f)
    <2>1. A \in SUBSET Nat  OBVIOUS
    <2> HIDE DEF A
    <2>2. \A n \in Nat : n \in A  BY <1>1, <1>2, <2>1, NaturalsOf
    <2>3. QED  BY <2>2 DEF A
  <1> DEFINE Same(i) == \A n, m \in Nat : \A f, h : i <= n /\ i <= m /\ Up(n, f) /\ Up(m, h) => f[i] = h[i]
             B == {k \in Nat : Same(k)}
  <1>4. 0 \in B  BY DEF StepwiseTo
  <1>5. ASSUME NEW k \in B  PROVE k + 1 \in B
    <2> SUFFICES ASSUME NEW n \in Nat, NEW m \in Nat, NEW f, NEW h, k + 1 <= n, k + 1 <= m, Up(n, f), Up(m, h)
                 PROVE  f[k + 1] = h[k + 1]
      OBVIOUS
    <2> DEFINE j == k + 1
    <2>1. k <= n /\ k <= m /\ j \in 1..n /\ j \in 1..m /\ j - 1 = k  OBVIOUS
    <2> HIDE DEF j
    <2>2. f[k] = h[k]  BY <2>1
    <2>3. f[j] = step[f[k]] /\ h[j] = step[h[k]]  BY <2>1 DEF StepwiseTo
    <2>4. QED  BY <2>2, <2>3 DEF j
  <1>6. \A k \in Nat : Same(k)
    <2>1. B \in SUBSET Nat  OBVIOUS
    <2> HIDE DEF B
    <2>2. \A k \in Nat : k \in B  BY <1>4, <1>5, <2>1, NaturalsOf
    <2>3. QED  BY <2>2 DEF B
  <1> DEFINE F == [n \in Nat |-> CHOOSE f : Up(n, f)]
             H == [n \in Nat |-> F[n][n]]
  <1>7. \A n \in Nat : Up(n, F[n])
    <2> SUFFICES ASSUME NEW n \in Nat  PROVE Up(n, F[n])
      OBVIOUS
    <2>1. Up(n, CHOOSE f : Up(n, f))  BY <1>3
    <2>2. QED  BY <2>1
  <1> HIDE DEF F
  <1>8. H \in [Nat -> S]
    <2> SUFFICES ASSUME NEW n \in Nat  PROVE F[n][n] \in S
      OBVIOUS
    <2>1. n \in 0..n  OBVIOUS
    <2>2. QED  BY <1>7, <2>1 DEF StepwiseTo
  <1>9. H[0] = first
    <2>1. H[0] = F[0][0] /\ 0 \in Nat  OBVIOUS
    <2>2. QED  BY <1>7, <2>1 DEF StepwiseTo
  <1>10. ASSUME NEW n \in Nat \ {0}  PROVE H[n] = step[H[n - 1]]
    <2> DEFINE b == n - 1
    <2>1. b \in Nat /\ b <= n /\ b <= b /\ n \in 1..n  OBVIOUS
    <2>2. F[n][n] = step[F[n][b]]  BY <1>7, <2>1 DEF StepwiseTo
    <2> HIDE DEF b
    <2>3. F[n][b] = F[b][b]
      <3>1. Up(n, F[n]) /\ Up(b, F[b]) /\ Same(b)  BY <1>6, <1>7, <2>1
      <3> HIDE DEF Up
      <3>2. QED  BY <2>1, <3>1
    <2>4. H[n] = F[n][n] /\ H[b] = F[b][b]  BY <2>1
    <2>5. QED  BY <2>2, <2>3, <2>4 DEF b
  <1> HIDE DEF H
  <1>11. QED  BY <1>8, <1>9, <1>10 DEF Stepwise

\* The parts of a text, as sets of places.
PartsOf(u) ==
    LET P == 1..Len(u)
    IN  [values : SUBSET (P \X P), lists : SUBSET (P \X P),
         members : SUBSET (P \X P \X SUBSET NamesIn(u))]

LEMMA PartsType ==
    \A u : /\ NothingDerived \in PartsOf(u)
           /\ \A g : Parts(u, g) \in PartsOf(u)
  BY DEF NothingDerived, Parts, PartsOf

\* What the grammar derives is defined, one application after the other.
LEMMA DerivedIs ==
    ASSUME NEW u
    PROVE  /\ Derived(u)[0] = NothingDerived
           /\ \A n \in Nat \ {0} : Derived(u)[n] = Parts(u, Derived(u)[n - 1])
  <1> DEFINE S == PartsOf(u)
             step == [g \in S |-> Parts(u, g)]
             Def(g) == g = [n \in Nat |-> IF n = 0 THEN NothingDerived ELSE Parts(u, g[n - 1])]
  <1>1. step \in [S -> S] /\ NothingDerived \in S  BY PartsType
  <1> HIDE DEF step
  <1>2. PICK f \in [Nat -> S] : f[0] = NothingDerived /\ \A n \in Nat \ {0} : f[n] = step[f[n - 1]]
    <2> HIDE DEF S
    <2>1. Stepwise(S, NothingDerived, step)  BY <1>1, StepwiseExists
    <2>2. QED  BY <2>1 DEF Stepwise
  <1>3. Def(f)
    <2>1. ASSUME NEW n \in Nat \ {0}  PROVE f[n] = Parts(u, f[n - 1])
      <3>1. n - 1 \in Nat  OBVIOUS
      <3>2. f[n - 1] \in S  BY <3>1
      <3>3. QED  BY <1>2, <3>2 DEF step
    <2> HIDE DEF S
    <2>2. QED  BY <1>2, <2>1
  <1>4. Def(CHOOSE g : Def(g))  BY <1>3
  <1>5. Derived(u) = CHOOSE g : Def(g)  BY DEF Derived
  <1>6. Def(Derived(u))  BY <1>4, <1>5
  <1>7. QED  BY <1>6

\* One application of the rules.
LEMMA Applied ==
    ASSUME NEW u, NEW n \in Nat
    PROVE  LET G == Derived(u) IN
           /\ \A i, j \in 1..Len(u) : <<i, j>> \in G[n + 1].values <=> ValueAt(u, G[n], i, j)
           /\ \A i, j \in 1..Len(u) : <<i, j>> \in G[n + 1].lists <=> ListAt(u, G[n], i, j)
           /\ \A i, j \in 1..Len(u) : \A r \in SUBSET NamesIn(u) :
                  <<i, j, r>> \in G[n + 1].members <=> MembersAt(u, G[n], i, j, r)
  <1> DEFINE G == Derived(u)
             k == n + 1
             g == G[n]
             h == Parts(u, g)
  <1>1. k \in Nat \ {0} /\ k - 1 = n  OBVIOUS
  <1> HIDE DEF k
  <1>2. G[k] = h  BY <1>1, DerivedIs
  <1> HIDE DEF G, g
  <1>3. /\ h.values = {s \in (1..Len(u)) \X (1..Len(u)) : ValueAt(u, g, s[1], s[2])}
        /\ h.lists = {s \in (1..Len(u)) \X (1..Len(u)) : ListAt(u, g, s[1], s[2])}
        /\ h.members = {s \in (1..Len(u)) \X (1..Len(u)) \X SUBSET NamesIn(u) :
                           MembersAt(u, g, s[1], s[2], s[3])}
    BY DEF Parts
  <1> HIDE DEF h
  <1>4. QED  BY <1>2, <1>3 DEF k, G, g

\* What is derived is made of places of the text.
LEMMA DerivedType ==
    ASSUME NEW u, NEW n \in Nat
    PROVE  LET G == Derived(u) IN
           /\ G[n].values \subseteq (1..Len(u)) \X (1..Len(u))
           /\ G[n].lists \subseteq (1..Len(u)) \X (1..Len(u))
           /\ G[n].members \subseteq (1..Len(u)) \X (1..Len(u)) \X SUBSET NamesIn(u)
  <1>1. Derived(u)[n] \in PartsOf(u)
    <2>1. CASE n = 0  BY <2>1, DerivedIs, PartsType
    <2>2. CASE n # 0
      <3>1. Derived(u)[n] = Parts(u, Derived(u)[n - 1])  BY <2>2, DerivedIs
      <3>2. QED  BY <3>1, PartsType
    <2>3. QED  BY <2>1, <2>2
  <1>2. QED  BY <1>1 DEF PartsOf

\* More applications derive more.
PartsWithin(g, h) == g.values \subseteq h.values /\ g.lists \subseteq h.lists /\ g.members \subseteq h.members

LEMMA RulesGrow ==
    ASSUME NEW u, NEW g, NEW h, PartsWithin(g, h)
    PROVE  /\ \A i, j : ValueAt(u, g, i, j) => ValueAt(u, h, i, j)
           /\ \A i, j : ListAt(u, g, i, j) => ListAt(u, h, i, j)
           /\ \A i, j, r : MembersAt(u, g, i, j, r) => MembersAt(u, h, i, j, r)
  <1>1. ASSUME NEW i, NEW j, ValueAt(u, g, i, j)  PROVE ValueAt(u, h, i, j)
    BY <1>1 DEF ValueAt, PartsWithin
  <1>2. ASSUME NEW i, NEW j, ListAt(u, g, i, j)  PROVE ListAt(u, h, i, j)
    BY <1>2 DEF ListAt, PartsWithin
  <1>3. \A i, j : MemberAt(u, g, i, j) => MemberAt(u, h, i, j)
    BY DEF MemberAt, PartsWithin
  <1>4. ASSUME NEW i, NEW j, NEW r, MembersAt(u, g, i, j, r)  PROVE MembersAt(u, h, i, j, r)
    BY <1>3, <1>4 DEF MembersAt, PartsWithin
  <1>5. QED  BY <1>1, <1>2, <1>4

LEMMA DerivedGrows ==
    ASSUME NEW u, NEW n \in Nat, NEW m \in Nat, n <= m
    PROVE  PartsWithin(Derived(u)[n], Derived(u)[m])
  <1> DEFINE G == Derived(u)
             A == {k \in Nat : PartsWithin(G[k], G[k + 1])}
             B == {k \in Nat : PartsWithin(G[n], G[n + k])}
  <1>1. \A k \in Nat : k \in A
    <2>1. 0 \in A  BY DerivedIs DEF NothingDerived, PartsWithin
    <2>2. ASSUME NEW k \in A  PROVE k + 1 \in A
      <3> DEFINE j == k + 1
                 g == G[k]
                 h == G[j]
      <3>1. /\ j \in Nat \ {0} /\ j + 1 \in Nat \ {0} /\ j - 1 = k /\ (j + 1) - 1 = j /\ PartsWithin(g, h)
        OBVIOUS
      <3> HIDE DEF j
      <3>2. h = Parts(u, g) /\ G[j + 1] = Parts(u, h)  BY <3>1, DerivedIs
      <3> HIDE DEF g, h, G
      <3>3. PartsWithin(Parts(u, g), Parts(u, h))
        <4>1. /\ Parts(u, g).values \subseteq Parts(u, h).values
              /\ Parts(u, g).lists \subseteq Parts(u, h).lists
              /\ Parts(u, g).members \subseteq Parts(u, h).members
          BY <3>1, RulesGrow DEF Parts
        <4>2. QED  BY <4>1 DEF PartsWithin
      <3>4. QED  BY <3>1, <3>2, <3>3 DEF j, h
    <2>3. A \in SUBSET Nat  OBVIOUS
    <2> HIDE DEF A
    <2>4. QED  BY <2>1, <2>2, <2>3, NaturalsOf
  <1>2. \A k \in Nat : k \in B
    <2>1. 0 \in B  BY DEF PartsWithin
    <2>2. ASSUME NEW k \in B  PROVE k + 1 \in B
      <3> DEFINE j == n + k
      <3>1. j \in Nat /\ j + 1 = n + (k + 1) /\ PartsWithin(G[n], G[j])  OBVIOUS
      <3>2. PartsWithin(G[j], G[j + 1])  BY <1>1, <3>1
      <3>3. PartsWithin(G[n], G[j + 1])
        <4> HIDE DEF G, j
        <4>1. QED  BY <3>1, <3>2 DEF PartsWithin
      <3>4. QED  BY <3>1, <3>3
    <2>3. B \in SUBSET Nat  OBVIOUS
    <2> HIDE DEF B
    <2>4. QED  BY <2>1, <2>2, <2>3, NaturalsOf
  <1>3. m - n \in Nat /\ n + (m - n) = m  OBVIOUS
  <1>4. QED  BY <1>2, <1>3

-----------------------------------------------------------------------------
\* A value, a list of elements, a list of members: no part needs more
\* applications than its length allows.
Val(u, i, j)    == /\ i \in 1..Len(u) /\ j \in i..Len(u)
                   /\ <<i, j>> \in Derived(u)[j - i + 1].values
List(u, i, j)   == /\ i \in 1..Len(u) /\ j \in i..Len(u)
                   /\ <<i, j>> \in Derived(u)[j - i + 2].lists
Mem(u, i, j, r) == /\ i \in 1..Len(u) /\ j \in i..Len(u) /\ r \in SUBSET NamesIn(u)
                   /\ <<i, j, r>> \in Derived(u)[j - i + 2].members

LEMMA ValueByRule ==
    ASSUME NEW u, Len(u) \in Nat, NEW i \in 1..Len(u), NEW j \in i..Len(u),
           ValueAt(u, Derived(u)[j - i], i, j)
    PROVE  Val(u, i, j)
  <1> DEFINE n == j - i
  <1>1. n \in Nat /\ n + 1 = j - i + 1 /\ j \in 1..Len(u)  OBVIOUS
  <1> HIDE DEF n
  <1>2. <<i, j>> \in Derived(u)[n + 1].values  BY <1>1, Applied DEF n
  <1>3. QED  BY <1>1, <1>2 DEF Val

LEMMA ListByRule ==
    ASSUME NEW u, Len(u) \in Nat, NEW i \in 1..Len(u), NEW j \in i..Len(u),
           ListAt(u, Derived(u)[j - i + 1], i, j)
    PROVE  List(u, i, j)
  <1> DEFINE n == j - i + 1
  <1>1. n \in Nat /\ n + 1 = j - i + 2 /\ j \in 1..Len(u)  OBVIOUS
  <1> HIDE DEF n
  <1>2. <<i, j>> \in Derived(u)[n + 1].lists  BY <1>1, Applied DEF n
  <1>3. QED  BY <1>1, <1>2 DEF List

LEMMA MembersByRule ==
    ASSUME NEW u, Len(u) \in Nat, NEW i \in 1..Len(u), NEW j \in i..Len(u), NEW r \in SUBSET NamesIn(u),
           MembersAt(u, Derived(u)[j - i + 1], i, j, r)
    PROVE  Mem(u, i, j, r)
  <1> DEFINE n == j - i + 1
  <1>1. n \in Nat /\ n + 1 = j - i + 2 /\ j \in 1..Len(u)  OBVIOUS
  <1> HIDE DEF n
  <1>2. <<i, j, r>> \in Derived(u)[n + 1].members  BY <1>1, Applied DEF n
  <1>3. QED  BY <1>1, <1>2 DEF Mem

\* A part within a longer one.
LEMMA ValueWithin ==
    ASSUME NEW u, Len(u) \in Nat, NEW i, NEW j, Val(u, i, j), NEW n \in Nat, j - i + 1 <= n
    PROVE  <<i, j>> \in Derived(u)[n].values
  <1> DEFINE m == j - i + 1
  <1>1. m \in Nat /\ m <= n /\ <<i, j>> \in Derived(u)[m].values  BY DEF Val
  <1> HIDE DEF m
  <1>2. QED  BY <1>1, DerivedGrows DEF PartsWithin

LEMMA ListWithin ==
    ASSUME NEW u, Len(u) \in Nat, NEW i, NEW j, List(u, i, j), NEW n \in Nat, j - i + 2 <= n
    PROVE  <<i, j>> \in Derived(u)[n].lists
  <1> DEFINE m == j - i + 2
  <1>1. m \in Nat /\ m <= n /\ <<i, j>> \in Derived(u)[m].lists  BY DEF List
  <1> HIDE DEF m
  <1>2. QED  BY <1>1, DerivedGrows DEF PartsWithin

LEMMA MembersWithin ==
    ASSUME NEW u, Len(u) \in Nat, NEW i, NEW j, NEW r, Mem(u, i, j, r), NEW n \in Nat, j - i + 2 <= n
    PROVE  <<i, j, r>> \in Derived(u)[n].members
  <1> DEFINE m == j - i + 2
  <1>1. m \in Nat /\ m <= n /\ <<i, j, r>> \in Derived(u)[m].members  BY DEF Mem
  <1> HIDE DEF m
  <1>2. QED  BY <1>1, DerivedGrows DEF PartsWithin

\* Places of a text of n tokens.
LEMMA PlacesTwo ==
    ASSUME NEW n \in Nat, NEW i \in 1..n, i + 1 \in 1..n
    PROVE  i + 1 \in i..n /\ i < i + 1
  OBVIOUS

LEMMA PlacesIn ==
    ASSUME NEW n \in Nat, NEW i \in 1..n, NEW j \in 1..n, i + 1 \in 1..n, j - 1 \in (i + 1)..n
    PROVE  (j - 1) - (i + 1) + 2 <= j - i /\ j - i \in Nat /\ i < j /\ j \in i..n
  OBVIOUS

LEMMA PlacesAround ==
    ASSUME NEW n \in Nat, NEW i \in 1..n, NEW c \in Nat, c - 1 \in i..n, c + 1 \in 1..n, NEW j \in (c + 1)..n
    PROVE  /\ j \in i..n /\ j - i + 1 \in Nat /\ c \in (i + 1)..(j - 1)
           /\ (c - 1) - i + 2 <= j - i + 1 /\ j - (c + 1) + 1 <= j - i + 1
  OBVIOUS

LEMMA PlacesBehind ==
    ASSUME NEW n \in Nat, NEW i \in 1..n, NEW c \in Nat, c - 1 \in i..n, c + 3 \in 1..n, NEW j \in (c + 3)..n
    PROVE  /\ j \in i..n /\ j - i + 1 \in Nat /\ c \in (i + 1)..(j - 1)
           /\ (c - 1) - i + 2 <= j - i + 1 /\ j - (c + 3) + 1 <= j - i + 1 /\ c + 3 <= j
           /\ (c + 1) + 2 = c + 3 /\ (c + 1) + 1 = c + 2 /\ c + 1 \in 1..n
  OBVIOUS

\* The rules of the grammar, for parts of any length.
LEMMA SimpleValue ==
    ASSUME NEW u, Len(u) \in Nat, NEW i \in 1..Len(u), u[i].kind \in {"string", "scalar"}
    PROVE  Val(u, i, i)
  <1>1. ValueAt(u, Derived(u)[i - i], i, i)  BY DEF ValueAt
  <1>2. i \in i..Len(u)  OBVIOUS
  <1>3. QED  BY <1>1, <1>2, ValueByRule

LEMMA EmptyValue ==
    ASSUME NEW u, Len(u) \in Nat, NEW i \in 1..Len(u), i + 1 \in 1..Len(u),
           \/ u[i].kind = "[" /\ u[i + 1].kind = "]"
           \/ u[i].kind = "{" /\ u[i + 1].kind = "}"
    PROVE  Val(u, i, i + 1)
  <1> DEFINE j == i + 1
  <1>1. j \in i..Len(u) /\ i < j /\ j = i + 1  BY PlacesTwo
  <1>2. ValueAt(u, Derived(u)[j - i], i, j)  BY <1>1 DEF ValueAt
  <1> HIDE DEF j
  <1>3. Val(u, i, j)  BY <1>1, <1>2, ValueByRule
  <1>4. QED  BY <1>3 DEF j

LEMMA ArrayValue ==
    ASSUME NEW u, Len(u) \in Nat, NEW i \in 1..Len(u), NEW j \in 1..Len(u), List(u, i + 1, j - 1),
           u[i].kind = "[", u[j].kind = "]"
    PROVE  Val(u, i, j)
  <1> DEFINE a == i + 1
             b == j - 1
             n == j - i
  <1>1. /\ a <= b /\ b - a + 2 <= n /\ n \in Nat /\ i < j /\ j \in i..Len(u)  BY DEF List
  <1> HIDE DEF n
  <1>2. <<a, b>> \in Derived(u)[n].lists
    <2>1. List(u, a, b)  OBVIOUS
    <2> HIDE DEF a, b
    <2>2. QED  BY <1>1, <2>1, ListWithin
  <1>3. ValueAt(u, Derived(u)[n], i, j)  BY <1>1, <1>2 DEF ValueAt
  <1>4. QED  BY <1>1, <1>3, ValueByRule DEF n

LEMMA ObjectValue ==
    ASSUME NEW u, Len(u) \in Nat, NEW i \in 1..Len(u), NEW j \in 1..Len(u), NEW r, Mem(u, i + 1, j - 1, r),
           u[i].kind = "{", u[j].kind = "}"
    PROVE  Val(u, i, j)
  <1> DEFINE a == i + 1
             b == j - 1
             n == j - i
  <1>0. a \in 1..Len(u) /\ b \in a..Len(u) /\ r \in SUBSET NamesIn(u)  BY DEF Mem
  <1>1. b - a + 2 <= n /\ n \in Nat /\ i < j /\ j \in i..Len(u)  BY <1>0, PlacesIn
  <1> HIDE DEF n
  <1>2. <<a, b, r>> \in Derived(u)[n].members
    <2>1. Mem(u, a, b, r)  OBVIOUS
    <2> HIDE DEF a, b
    <2>2. QED  BY <1>1, <2>1, MembersWithin
  <1>3. ValueAt(u, Derived(u)[n], i, j)  BY <1>0, <1>1, <1>2 DEF ValueAt
  <1>4. QED  BY <1>1, <1>3, ValueByRule DEF n

LEMMA FirstElement ==
    ASSUME NEW u, Len(u) \in Nat, NEW i, NEW j, Val(u, i, j)
    PROVE  List(u, i, j)
  <1> DEFINE n == j - i + 1
  <1>1. i \in 1..Len(u) /\ j \in i..Len(u) /\ n \in Nat /\ j - i + 1 <= n  BY DEF Val
  <1> HIDE DEF n
  <1>2. <<i, j>> \in Derived(u)[n].values  BY <1>1, ValueWithin
  <1>3. ListAt(u, Derived(u)[n], i, j)  BY <1>2 DEF ListAt
  <1>4. QED  BY <1>1, <1>3, ListByRule DEF n

LEMMA NextElement ==
    ASSUME NEW u, Len(u) \in Nat, NEW i, NEW c \in Nat, NEW j, List(u, i, c - 1), u[c].kind = ",",
           Val(u, c + 1, j)
    PROVE  List(u, i, j)
  <1> DEFINE n == j - i + 1
             a == c - 1
             b == c + 1
  <1>1. /\ i \in 1..Len(u) /\ j \in i..Len(u) /\ n \in Nat /\ c \in (i + 1)..(j - 1)
        /\ a - i + 2 <= n /\ j - b + 1 <= n
    <2>1. i \in 1..Len(u) /\ a \in i..Len(u) /\ b \in 1..Len(u) /\ j \in b..Len(u)  BY DEF Val, List
    <2>2. QED  BY <2>1, PlacesAround
  <1> HIDE DEF n
  <1>2. <<i, a>> \in Derived(u)[n].lists
    <2> HIDE DEF a
    <2>1. QED  BY <1>1, ListWithin DEF a
  <1>3. <<b, j>> \in Derived(u)[n].values
    <2> HIDE DEF b
    <2>1. QED  BY <1>1, ValueWithin DEF b
  <1>4. ListAt(u, Derived(u)[n], i, j)  BY <1>1, <1>2, <1>3 DEF ListAt
  <1>5. QED  BY <1>1, <1>4, ListByRule DEF n

LEMMA FirstMember ==
    ASSUME NEW u, Len(u) \in Nat, NEW i \in 1..Len(u), NEW j, u[i].kind = "string", u[i + 1].kind = ":",
           Val(u, i + 2, j)
    PROVE  Mem(u, i, j, {u[i].text})
  <1> DEFINE n == j - i + 1
             b == i + 2
             r == {u[i].text}
  <1>1. j \in i..Len(u) /\ n \in Nat /\ j - b + 1 <= n /\ b <= j  BY DEF Val
  <1> HIDE DEF n
  <1>2. <<b, j>> \in Derived(u)[n].values
    <2> HIDE DEF b
    <2>1. QED  BY <1>1, ValueWithin DEF b
  <1>3. r \in SUBSET NamesIn(u)  BY DEF NamesIn
  <1>4. MembersAt(u, Derived(u)[n], i, j, r)  BY <1>1, <1>2 DEF MembersAt, MemberAt
  <1> HIDE DEF r
  <1>5. Mem(u, i, j, r)  BY <1>1, <1>3, <1>4, MembersByRule DEF n
  <1>6. QED  BY <1>5 DEF r

LEMMA NextMember ==
    ASSUME NEW u, Len(u) \in Nat, NEW i, NEW c \in Nat, NEW j, NEW r, Mem(u, i, c - 1, r), u[c].kind = ",",
           u[c + 1].kind = "string", u[c + 2].kind = ":", u[c + 1].text \notin r, Val(u, c + 3, j)
    PROVE  Mem(u, i, j, r \cup {u[c + 1].text})
  <1> DEFINE n == j - i + 1
             a == c - 1
             b == c + 3
             x == u[c + 1].text
             q == r \cup {x}
  <1>1. /\ i \in 1..Len(u) /\ j \in i..Len(u) /\ n \in Nat /\ c \in (i + 1)..(j - 1)
        /\ a - i + 2 <= n /\ j - b + 1 <= n /\ b <= j /\ (c + 1) + 2 = b /\ (c + 1) + 1 = c + 2
        /\ c + 1 \in 1..Len(u)
    <2>1. i \in 1..Len(u) /\ a \in i..Len(u) /\ b \in 1..Len(u) /\ j \in b..Len(u)  BY DEF Val, Mem
    <2>2. /\ j \in i..Len(u) /\ j - i + 1 \in Nat /\ c \in (i + 1)..(j - 1)
          /\ (c - 1) - i + 2 <= j - i + 1 /\ j - (c + 3) + 1 <= j - i + 1 /\ c + 3 <= j
          /\ (c + 1) + 2 = c + 3 /\ (c + 1) + 1 = c + 2 /\ c + 1 \in 1..Len(u)
      BY <2>1, PlacesBehind, Zenon
    <2>3. QED  BY <2>1, <2>2, Zenon
  <1> HIDE DEF n
  <1>2. <<i, a, r>> \in Derived(u)[n].members
    <2> HIDE DEF a
    <2>1. QED  BY <1>1, MembersWithin DEF a
  <1>3. <<b, j>> \in Derived(u)[n].values
    <2> HIDE DEF b
    <2>1. QED  BY <1>1, ValueWithin DEF b
  <1>4. q \in SUBSET NamesIn(u)
    <2>1. r \in SUBSET NamesIn(u)  BY DEF Mem
    <2>2. x \in NamesIn(u)  BY <1>1 DEF NamesIn
    <2>3. QED  BY <2>1, <2>2
  <1>5. MemberAt(u, Derived(u)[n], c + 1, j)  BY <1>1, <1>3 DEF MemberAt
  <1>6. x \in q /\ q \ {x} = r  OBVIOUS
  <1> HIDE DEF q
  <1>7. MembersAt(u, Derived(u)[n], i, j, q)  BY <1>1, <1>2, <1>5, <1>6 DEF MembersAt
  <1>8. Mem(u, i, j, q)  BY <1>1, <1>4, <1>7, MembersByRule DEF n
  <1>9. QED  BY <1>8 DEF q

\* What follows a push, as a push.
LEMMA TopOfAppend ==
    ASSUME NEW s, NEW f, NEW h, IsStack(s)
    PROVE  WithTop(Append(s, f), h) = Append(s, h) /\ Top(Append(s, f)) = f /\ Append(s, f) # <<>>
  <1> DEFINE n == Len(s)
             a == Append(s, f)
             b == WithTop(a, h)
             c == Append(s, h)
  <1>1. /\ IsStack(a) /\ n \in Nat /\ Len(a) = n + 1 /\ a[n + 1] = f /\ \A i \in 1..n : a[i] = s[i]
    BY Pushed
  <1>2. /\ IsStack(c) /\ Len(c) = n + 1 /\ c[n + 1] = h /\ \A i \in 1..n : c[i] = s[i]
    BY Pushed
  <1> HIDE DEF a, c
  <1>3. a # <<>>  BY <1>1, Bottom
  <1>4. /\ IsStack(b) /\ Len(b) = Len(a) /\ b[Len(a)] = h /\ \A i \in 1..Len(a) : i # Len(a) => b[i] = a[i]
    BY <1>1, <1>3, Changed
  <1> HIDE DEF b
  <1>5. Len(b) = Len(c) /\ \A i \in 1..Len(b) : b[i] = c[i]  BY <1>1, <1>2, <1>4
  <1>6. b = c  BY <1>2, <1>4, <1>5, SameStack
  <1>7. QED  BY <1>1, <1>3, <1>6 DEF a, b, c, Top

\* A state with some of its fields changed, as a record.
LEMMA ChangedFields ==
    ASSUME NEW p, DOMAIN p = {"phase", "stack", "value"}, NEW ph, NEW s, NEW v
    PROVE  /\ [p EXCEPT !.phase = ph] = [phase |-> ph, stack |-> p.stack, value |-> p.value]
           /\ [p EXCEPT !.stack = s] = [phase |-> p.phase, stack |-> s, value |-> p.value]
           /\ [p EXCEPT !.phase = ph, !.stack = s] = [phase |-> ph, stack |-> s, value |-> p.value]
           /\ [p EXCEPT !.phase = ph, !.value = v] = [phase |-> ph, stack |-> p.stack, value |-> v]
  <1> DEFINE q == [p EXCEPT !.phase = ph]
  <1>1. q = [phase |-> ph, stack |-> p.stack, value |-> p.value]  OBVIOUS
  <1>2. [p EXCEPT !.stack = s] = [phase |-> p.phase, stack |-> s, value |-> p.value]  OBVIOUS
  <1>3. [p EXCEPT !.phase = ph, !.stack = s] = [q EXCEPT !.stack = s]  OBVIOUS
  <1>4. [p EXCEPT !.phase = ph, !.value = v] = [q EXCEPT !.value = v]  OBVIOUS
  <1> HIDE DEF q
  <1>5. [q EXCEPT !.stack = s] = [phase |-> ph, stack |-> s, value |-> p.value]  BY <1>1
  <1>6. [q EXCEPT !.value = v] = [phase |-> ph, stack |-> p.stack, value |-> v]  BY <1>1
  <1>7. QED  BY <1>1, <1>2, <1>3, <1>4, <1>5, <1>6 DEF q

LEMMA PushIs ==
    ASSUME NEW p, DOMAIN p = {"phase", "stack", "value"}, NEW ph, NEW f
    PROVE  /\ PyTo(p, ph) = [phase |-> ph, stack |-> p.stack, value |-> p.value]
           /\ PyPush(p, ph, f) = [phase |-> ph, stack |-> Append(p.stack, f), value |-> p.value]
           /\ PyChange(p, ph, f) = [phase |-> ph, stack |-> WithTop(p.stack, f), value |-> p.value]
           /\ PyPop(p) = [phase |-> p.phase, stack |-> Rest(p.stack), value |-> p.value]
  BY ChangedFields DEF PyTo, PyPush, PyChange, PyPop

LEMMA AfterPush ==
    ASSUME NEW p, IsPyState(p), NEW ph, NEW f, NEW ph2, NEW h
    PROVE  /\ PyTo(PyPush(p, ph, f), ph2) = PyPush(p, ph2, f)
           /\ PyChange(PyPush(p, ph, f), ph2, h) = PyPush(p, ph2, h)
           /\ PyPop(PyPush(p, ph, f)) = PyTo(p, ph)
           /\ PyPush(PyTo(p, ph), ph2, f) = PyPush(p, ph2, f)
           /\ PyPush(p, ph, f).phase = ph /\ Top(PyPush(p, ph, f).stack) = f /\ PyPush(p, ph, f).stack # <<>>
  <1> DEFINE a == Append(p.stack, f)
             b == Append(p.stack, h)
             q == PyPush(p, ph, f)
             t == PyTo(p, ph)
  <1>0. DOMAIN p = {"phase", "stack", "value"}  BY DEF IsPyState
  <1>1. /\ q = [phase |-> ph, stack |-> a, value |-> p.value]
        /\ PyPush(p, ph2, f) = [phase |-> ph2, stack |-> a, value |-> p.value]
        /\ PyPush(p, ph2, h) = [phase |-> ph2, stack |-> b, value |-> p.value]
        /\ t = [phase |-> ph, stack |-> p.stack, value |-> p.value]
    BY <1>0, PushIs
  <1>2. WithTop(a, h) = b /\ Top(a) = f /\ Rest(a) = p.stack /\ a # <<>>
    BY TopOfAppend, RestOfAppend DEF IsPyState
  <1> HIDE DEF a, b, q, t
  <1>3. /\ DOMAIN q = {"phase", "stack", "value"} /\ q.stack = a /\ q.value = p.value /\ q.phase = ph
        /\ DOMAIN t = {"phase", "stack", "value"} /\ t.stack = p.stack /\ t.value = p.value /\ t.phase = ph
    BY <1>1
  <1>4. /\ PyTo(q, ph2) = [phase |-> ph2, stack |-> a, value |-> p.value]
        /\ PyChange(q, ph2, h) = [phase |-> ph2, stack |-> WithTop(a, h), value |-> p.value]
        /\ PyPop(q) = [phase |-> ph, stack |-> Rest(a), value |-> p.value]
        /\ PyPush(t, ph2, f) = [phase |-> ph2, stack |-> Append(p.stack, f), value |-> p.value]
    BY <1>3, PushIs
  <1>5. QED  BY <1>1, <1>2, <1>3, <1>4 DEF q, t, a

LEMMA PushedState ==
    ASSUME NEW p, IsPyState(p), NEW ph, NEW f
    PROVE  /\ PyPush(p, ph, f).phase = ph /\ Top(PyPush(p, ph, f).stack) = f
           /\ \A ph2 : PyTo(PyPush(p, ph, f), ph2) = PyPush(p, ph2, f)
  <1>1. PyPush(p, ph, f).phase = ph /\ Top(PyPush(p, ph, f).stack) = f  BY AfterPush
  <1>2. ASSUME NEW ph2  PROVE PyTo(PyPush(p, ph, f), ph2) = PyPush(p, ph2, f)  BY AfterPush
  <1>3. QED  BY <1>1, <1>2

LEMMA DeliveryPhase ==
    ASSUME NEW p, IsPyState(p), NEW ph, NEW v
    PROVE  PyDeliver(PyTo(p, ph), v) = PyDeliver(p, v)
  <1> DEFINE q == PyTo(p, ph)
  <1>0. DOMAIN p = {"phase", "stack", "value"}  BY DEF IsPyState
  <1>1. q = [phase |-> ph, stack |-> p.stack, value |-> p.value]  BY <1>0, PushIs
  <1> HIDE DEF q
  <1>2. DOMAIN q = {"phase", "stack", "value"} /\ q.stack = p.stack /\ q.value = p.value  BY <1>1
  <1>3. \A s, x : [q EXCEPT !.phase = x, !.stack = s] = [p EXCEPT !.phase = x, !.stack = s]
    BY <1>0, <1>2, ChangedFields
  <1>4. \A w, x : [q EXCEPT !.phase = x, !.value = w] = [p EXCEPT !.phase = x, !.value = w]
    BY <1>0, <1>2, ChangedFields
  <1>5. \A x : [q EXCEPT !.phase = x] = [p EXCEPT !.phase = x]
    BY <1>0, <1>2, ChangedFields
  <1>6. CASE p.stack = <<>>
    <2>1. PyDeliver(p, v) = [p EXCEPT !.phase = "done", !.value = v]  BY <1>6 DEF PyDeliver
    <2>2. PyDeliver(q, v) = [q EXCEPT !.phase = "done", !.value = v]  BY <1>2, <1>6 DEF PyDeliver
    <2>3. QED  BY <1>4, <2>1, <2>2 DEF q
  <1>7. CASE p.stack # <<>> /\ ~Top(p.stack).obj
    <2> DEFINE s == WithTop(p.stack, WithElement(Top(p.stack), v))
    <2>1. PyDeliver(p, v) = [p EXCEPT !.phase = "arr_next", !.stack = s]  BY <1>7 DEF PyDeliver
    <2>2. PyDeliver(q, v) = [q EXCEPT !.phase = "arr_next", !.stack = s]  BY <1>2, <1>7 DEF PyDeliver
    <2> HIDE DEF s
    <2>3. QED  BY <1>3, <2>1, <2>2 DEF q
  <1>8. CASE p.stack # <<>> /\ Top(p.stack).obj /\ Top(p.stack).key \in DOMAIN Top(p.stack).members
    <2>1. PyDeliver(p, v) = [p EXCEPT !.phase = "rejected"]  BY <1>8 DEF PyDeliver, PyFail
    <2>2. PyDeliver(q, v) = [q EXCEPT !.phase = "rejected"]  BY <1>2, <1>8 DEF PyDeliver, PyFail
    <2>3. QED  BY <1>5, <2>1, <2>2 DEF q
  <1>9. CASE p.stack # <<>> /\ Top(p.stack).obj /\ Top(p.stack).key \notin DOMAIN Top(p.stack).members
    <2> DEFINE s == WithTop(p.stack, WithMember(Top(p.stack), v))
    <2>1. PyDeliver(p, v) = [p EXCEPT !.phase = "obj_next", !.stack = s]  BY <1>9 DEF PyDeliver
    <2>2. PyDeliver(q, v) = [q EXCEPT !.phase = "obj_next", !.stack = s]  BY <1>2, <1>9 DEF PyDeliver
    <2> HIDE DEF s
    <2>3. QED  BY <1>3, <2>1, <2>2 DEF q
  <1>10. QED  BY <1>6, <1>7, <1>8, <1>9

LEMMA DeliveryToPushed ==
    ASSUME NEW p, IsPyState(p), NEW ph, NEW f, IsFrame(f), NEW v
    PROVE  /\ ~f.obj => /\ PyDeliver(PyPush(p, ph, f), v) = PyPush(p, "arr_next", WithElement(f, v))
                        /\ IsFrame(WithElement(f, v)) /\ ~WithElement(f, v).obj
           /\ f.obj /\ f.key \notin DOMAIN f.members =>
                        /\ PyDeliver(PyPush(p, ph, f), v) = PyPush(p, "obj_next", WithMember(f, v))
                        /\ IsFrame(WithMember(f, v)) /\ WithMember(f, v).obj
                        /\ DOMAIN WithMember(f, v).members = DOMAIN f.members \cup {f.key}
  <1> DEFINE q == PyPush(p, ph, f)
  <1>1. \A ph2, h : PyChange(q, ph2, h) = PyPush(p, ph2, h)  BY AfterPush
  <1>2. Top(q.stack) = f /\ q.stack # <<>>  BY AfterPush
  <1> HIDE DEF q
  <1>3. ~f.obj => PyDeliver(q, v) = PyChange(q, "arr_next", WithElement(f, v))
    BY <1>2 DEF PyDeliver, PyChange
  <1>4. f.obj /\ f.key \notin DOMAIN f.members => PyDeliver(q, v) = PyChange(q, "obj_next", WithMember(f, v))
    BY <1>2 DEF PyDeliver, PyChange
  <1>5. ~f.obj => IsFrame(WithElement(f, v)) /\ ~WithElement(f, v).obj  BY DEF IsFrame, WithElement
  <1>6. f.obj => /\ IsFrame(WithMember(f, v)) /\ WithMember(f, v).obj
                 /\ DOMAIN WithMember(f, v).members = DOMAIN f.members \cup {f.key}
    BY DEF IsFrame, WithMember
  <1>7. QED  BY <1>1, <1>3, <1>4, <1>5, <1>6 DEF q

-----------------------------------------------------------------------------
\* The states the Python parser goes through while it reads a text.
Runs(u, S) == S[0] = PyStart /\ \A k \in 1..Len(u) : S[k] = PyStep(S[k - 1], u[k])

LEMMA RunsShape ==
    ASSUME NEW u, Len(u) \in Nat, NEW S, Runs(u, S)
    PROVE  \A k \in 0..Len(u) : IsPy(S[k])
  <1> DEFINE A == {k \in Nat : k <= Len(u) => IsPy(S[k])}
  <1>1. 0 \in A
    <2>1. IsPy(PyStart)
      <3>1. <<>> \in Seq({})  OBVIOUS
      <3>2. IsStack(<<>>) /\ Len(<<>>) = 0  BY <3>1 DEF IsStack
      <3>3. QED  BY <3>2 DEF PyStart, IsPy, IsPyState, Phases
    <2>2. QED  BY <2>1 DEF Runs
  <1>2. ASSUME NEW n \in A  PROVE n + 1 \in A
    <2> DEFINE k == n + 1
    <2>1. k \in Nat /\ k - 1 = n /\ (k <= Len(u) => k \in 1..Len(u) /\ n <= Len(u))  OBVIOUS
    <2> HIDE DEF k
    <2>2. ASSUME k <= Len(u)  PROVE IsPy(S[k])
      <3>1. IsPy(S[n]) /\ S[k] = PyStep(S[n], u[k])  BY <2>1, <2>2 DEF Runs
      <3>2. QED  BY <3>1, PyStepShape
    <2>3. QED  BY <2>1, <2>2 DEF k
  <1>3. A \in SUBSET Nat  OBVIOUS
  <1> HIDE DEF A
  <1>4. \A k \in Nat : k \in A  BY <1>1, <1>2, <1>3, NaturalsOf
  <1>5. QED  BY <1>4 DEF A

-----------------------------------------------------------------------------
(* A text of the grammar is read: a value is delivered to the frame that     *)
(* waits for it, elements and members are collected in a frame of their own. *)

\* The state in which the value behind a look ahead is read.
Opened(p) == IF p.phase = "arr_open" THEN PyPush(p, "value", ArrayFrame) ELSE p

ReadsValue(S, i, j) ==
    S[i - 1].phase \in {"value", "arr_open"} => \E v : S[j] = PyDeliver(Opened(S[i - 1]), v)
ReadsList(S, i, j) ==
    S[i - 1].phase = "arr_open" => \E f : IsFrame(f) /\ ~f.obj /\ S[j] = PyPush(S[i - 1], "arr_next", f)
ReadsMembers(S, i, j, r) ==
    S[i - 1].phase = "obj_open" =>
        \E f : IsFrame(f) /\ f.obj /\ DOMAIN f.members = r /\ S[j] = PyPush(S[i - 1], "obj_next", f)

ReadsAll(u, S, g) ==
    /\ \A i, j \in 1..Len(u) : <<i, j>> \in g.values => ReadsValue(S, i, j)
    /\ \A i, j \in 1..Len(u) : <<i, j>> \in g.lists => ReadsList(S, i, j)
    /\ \A i, j \in 1..Len(u) : \A r \in SUBSET NamesIn(u) : <<i, j, r>> \in g.members => ReadsMembers(S, i, j, r)

LEMMA OpenedValue ==
    ASSUME NEW p, IsPyState(p), NEW t, p.phase \in {"value", "arr_open"}, t.kind # "]"
    PROVE  PyStep(p, t) = PyValue(Opened(p), t) /\ IsPyState(Opened(p))
  <1>1. CASE p.phase = "value"  BY <1>1 DEF PyStep, Opened
  <1>2. CASE p.phase = "arr_open"
    <2>1. PyStep(p, t) = PyArrOpen(p, t)  BY <1>2 DEF PyStep
    <2>2. PyArrOpen(p, t) = PyValue(PyPush(p, "value", ArrayFrame), t)  BY DEF PyArrOpen, PyPush
    <2>3. IsPyState(PyPush(p, "value", ArrayFrame))  BY FramePushed, NewFrames
    <2>4. QED  BY <1>2, <2>1, <2>2, <2>3 DEF Opened
  <1>3. QED  BY <1>1, <1>2

\* The brackets around what was read.
LEMMA ReadsBrackets ==
    ASSUME NEW u, Len(u) \in Nat, NEW S, Runs(u, S), NEW g, ReadsAll(u, S, g),
           NEW i \in 1..Len(u), NEW j \in 1..Len(u), ValueAt(u, g, i, j)
    PROVE  ReadsValue(S, i, j)
  <1> DEFINE p == S[i - 1]
             q == Opened(p)
  <1> SUFFICES ASSUME p.phase \in {"value", "arr_open"}  PROVE \E v : S[j] = PyDeliver(q, v)
    BY DEF ReadsValue
  <1>1. /\ IsPyState(p) /\ S[i] = PyStep(p, u[i]) /\ S[j] = PyStep(S[j - 1], u[j])
    <2>1. i - 1 \in 0..Len(u)  OBVIOUS
    <2>2. IsPy(p)  BY <2>1, RunsShape
    <2>3. QED  BY <2>2 DEF IsPy, Runs
  <1> HIDE DEF p
  <1>2. CASE i = j /\ u[i].kind \in {"string", "scalar"}
    <2>1. S[i] = PyValue(q, u[i])  BY <1>1, <1>2, OpenedValue
    <2>2. S[j] = PyDeliver(q, u[i])  BY <1>2, <2>1 DEF PyValue
    <2>3. QED  BY <2>2
  <1>3. CASE i < j /\ u[i].kind = "[" /\ u[j].kind = "]" /\ (j = i + 1 \/ <<i + 1, j - 1>> \in g.lists)
    <2>1. S[i] = PyTo(q, "arr_open") /\ IsPyState(q)
      <3>1. S[i] = PyValue(q, u[i]) /\ IsPyState(q)  BY <1>1, <1>3, OpenedValue
      <3>2. QED  BY <1>3, <3>1 DEF PyValue, PyTo
    <2> HIDE DEF q
    <2>2. S[i].phase = "arr_open"  BY <2>1, PhaseChanged
    <2>3. CASE j = i + 1
      <3>1. j - 1 = i  BY <2>3
      <3>2. S[j] = PyDeliver(S[i], EmptyArray)  BY <1>1, <1>3, <2>2, <3>1 DEF PyStep, PyArrOpen
      <3>3. S[j] = PyDeliver(q, EmptyArray)  BY <2>1, <3>2, DeliveryPhase
      <3>4. QED  BY <3>3
    <2>4. CASE j # i + 1
      <3> DEFINE a == i + 1
                 b == j - 1
      <3>1. a \in 1..Len(u) /\ b \in 1..Len(u) /\ a - 1 = i  BY <1>3, <2>4
      <3>2. <<a, b>> \in g.lists  BY <1>3, <2>4
      <3> HIDE DEF a
      <3>3. ReadsList(S, a, b)  BY <3>1, <3>2 DEF ReadsAll
      <3>4. PICK f : IsFrame(f) /\ S[b] = PyPush(S[i], "arr_next", f)
        BY <2>2, <3>1, <3>3 DEF ReadsList
      <3>5. S[b] = PyPush(q, "arr_next", f)
        <4> HIDE DEF b
        <4>1. PyPush(PyTo(q, "arr_open"), "arr_next", f) = PyPush(q, "arr_next", f)  BY <2>1, AfterPush
        <4>2. QED  BY <2>1, <3>4, <4>1
      <3> DEFINE v == [kind |-> "array", els |-> Top(S[b].stack).els]
      <3>6. S[b].phase = "arr_next" /\ PyPop(S[b]) = PyTo(q, "arr_next")  BY <2>1, <3>5, AfterPush
      <3>7. S[j] = PyDeliver(PyPop(S[b]), v)
        BY <1>1, <1>3, <3>6 DEF PyStep, PyArrNext, PyPop
      <3> HIDE DEF v
      <3>8. S[j] = PyDeliver(q, v)  BY <2>1, <3>6, <3>7, DeliveryPhase
      <3>9. QED  BY <3>8
    <2>5. QED  BY <2>3, <2>4
  <1>4. CASE /\ i < j /\ u[i].kind = "{" /\ u[j].kind = "}"
             /\ j = i + 1 \/ \E r \in SUBSET NamesIn(u) : <<i + 1, j - 1, r>> \in g.members
    <2>0. i < j /\ u[i].kind = "{" /\ u[j].kind = "}"  BY <1>4
    <2>1. S[i] = PyTo(q, "obj_open") /\ IsPyState(q)
      <3>1. S[i] = PyValue(q, u[i]) /\ IsPyState(q)  
        <4>1. u[i].kind # "]"  BY <2>0
        <4>2. QED  BY <1>1, <4>1, OpenedValue
      <3>2. QED  BY <2>0, <3>1 DEF PyValue, PyTo
    <2> HIDE DEF q
    <2>2. S[i].phase = "obj_open"  BY <2>1, PhaseChanged
    <2>3. CASE j = i + 1
      <3>1. j - 1 = i  BY <2>3
      <3>2. S[j] = PyDeliver(S[i], EmptyObject)  BY <1>1, <2>0, <2>2, <3>1 DEF PyStep, PyObjOpen
      <3>3. S[j] = PyDeliver(q, EmptyObject)  BY <2>1, <3>2, DeliveryPhase
      <3>4. QED  BY <3>3
    <2>4. CASE j # i + 1
      <3> DEFINE a == i + 1
                 b == j - 1
      <3>1. a \in 1..Len(u) /\ b \in 1..Len(u) /\ a - 1 = i
        <4>1. i < j  BY <2>0
        <4>2. QED  BY <2>4, <4>1
      <3>2. PICK r \in SUBSET NamesIn(u) : <<a, b, r>> \in g.members  BY <1>4, <2>4
      <3> HIDE DEF a
      <3>3. ReadsMembers(S, a, b, r)  BY <3>1, <3>2 DEF ReadsAll
      <3>4. PICK f : IsFrame(f) /\ S[b] = PyPush(S[i], "obj_next", f)
        BY <2>2, <3>1, <3>3 DEF ReadsMembers
      <3>5. S[b] = PyPush(q, "obj_next", f)
        <4> HIDE DEF b
        <4>1. PyPush(PyTo(q, "obj_open"), "obj_next", f) = PyPush(q, "obj_next", f)  BY <2>1, AfterPush
        <4>2. QED  BY <2>1, <3>4, <4>1
      <3> DEFINE v == [kind |-> "object", members |-> Top(S[b].stack).members]
      <3>6. S[b].phase = "obj_next" /\ PyPop(S[b]) = PyTo(q, "obj_next")  BY <2>1, <3>5, AfterPush
      <3>7. S[j] = PyDeliver(PyPop(S[b]), v)
        BY <1>1, <2>0, <3>6 DEF PyStep, PyObjNext, PyPop
      <3> HIDE DEF v
      <3>8. S[j] = PyDeliver(q, v)  BY <2>1, <3>6, <3>7, DeliveryPhase
      <3>9. QED  BY <3>8
    <2>5. QED  BY <2>3, <2>4
  <1>5. QED  BY <1>2, <1>3, <1>4 DEF ValueAt

\* A list of elements, all in one frame.
LEMMA ReadsElements ==
    ASSUME NEW u, Len(u) \in Nat, NEW S, Runs(u, S), NEW g, ReadsAll(u, S, g),
           NEW i \in 1..Len(u), NEW j \in 1..Len(u), ListAt(u, g, i, j)
    PROVE  ReadsList(S, i, j)
  <1> DEFINE p == S[i - 1]
  <1> SUFFICES ASSUME p.phase = "arr_open"
               PROVE  \E f : IsFrame(f) /\ ~f.obj /\ S[j] = PyPush(p, "arr_next", f)
    BY DEF ReadsList
  <1>1. IsPyState(p)
    <2>1. i - 1 \in 0..Len(u)  OBVIOUS
    <2>2. IsPy(p)  BY <2>1, RunsShape
    <2>3. QED  BY <2>2 DEF IsPy
  <1>2. CASE <<i, j>> \in g.values
    <2>1. ReadsValue(S, i, j)  BY <1>2 DEF ReadsAll
    <2>2. PICK v : S[j] = PyDeliver(Opened(p), v)  BY <2>1 DEF ReadsValue
    <2>3. Opened(p) = PyPush(p, "value", ArrayFrame)  BY DEF Opened
    <2> HIDE DEF p
    <2> DEFINE f == WithElement(ArrayFrame, v)
    <2>4. S[j] = PyPush(p, "arr_next", f) /\ IsFrame(f) /\ ~f.obj
      BY <1>1, <2>2, <2>3, DeliveryToPushed, NewFrames
    <2> HIDE DEF f
    <2>5. QED  BY <2>4
  <1>3. ASSUME NEW c \in (i + 1)..(j - 1), u[c].kind = ",", <<i, c - 1>> \in g.lists, <<c + 1, j>> \in g.values
        PROVE  \E f : IsFrame(f) /\ ~f.obj /\ S[j] = PyPush(p, "arr_next", f)
    <2> DEFINE a == c - 1
               b == c + 1
    <2>1. a \in 1..Len(u) /\ b \in 1..Len(u) /\ c \in 1..Len(u) /\ b - 1 = c  OBVIOUS
    <2>2. ReadsList(S, i, a)  BY <1>3, <2>1 DEF ReadsAll
    <2>3. PICK f : IsFrame(f) /\ ~f.obj /\ S[a] = PyPush(p, "arr_next", f)  BY <2>2 DEF ReadsList
    <2>4. S[c] = PyStep(S[a], u[c])  BY <2>1 DEF Runs
    <2> HIDE DEF p, a
    <2>5. S[a].phase = "arr_next" /\ PyTo(S[a], "value") = PyPush(p, "value", f)  BY <1>1, <2>3, PushedState
    <2>6. S[c] = PyPush(p, "value", f)  BY <1>3, <2>4, <2>5 DEF PyStep, PyArrNext, PyTo
    <2>7. S[c].phase = "value"  BY <1>1, <2>6, PushedState
    <2>8. ReadsValue(S, b, j)  BY <1>3, <2>1 DEF ReadsAll
    <2> HIDE DEF b
    <2>9. PICK v : S[j] = PyDeliver(Opened(S[c]), v)  BY <2>1, <2>7, <2>8 DEF ReadsValue
    <2>10. Opened(S[c]) = S[c]  BY <2>7 DEF Opened
    <2> DEFINE h == WithElement(f, v)
    <2>11. S[j] = PyPush(p, "arr_next", h) /\ IsFrame(h) /\ ~h.obj
      BY <1>1, <2>3, <2>6, <2>9, <2>10, DeliveryToPushed
    <2> HIDE DEF h
    <2>12. QED  BY <2>11
  <1>4. QED  BY <1>2, <1>3 DEF ListAt

\* The name and the value of a member, when its frame has no such name yet.
MemberRead(q, p, f) ==
    \E h : /\ IsFrame(h) /\ h.obj /\ DOMAIN h.members = DOMAIN f.members \cup {f.key}
           /\ q = PyPush(p, "obj_next", h)

LEMMA ReadsMember ==
    ASSUME NEW u, Len(u) \in Nat, NEW S, Runs(u, S), NEW g, ReadsAll(u, S, g),
           NEW i \in 1..Len(u), NEW j \in 1..Len(u), MemberAt(u, g, i, j), NEW p, IsPyState(p),
           NEW f, IsFrame(f), f.obj, f.key = u[i].text, f.key \notin DOMAIN f.members,
           S[i] = PyPush(p, "colon", f)
    PROVE  MemberRead(S[j], p, f)
  <1> DEFINE c == i + 1
             b == i + 2
  <1>0. i + 2 <= j  BY DEF MemberAt
  <1>1. c \in 1..Len(u) /\ b \in 1..Len(u) /\ c - 1 = i /\ b - 1 = c  BY <1>0
  <1>2. u[c].kind = ":" /\ <<b, j>> \in g.values  BY DEF MemberAt
  <1>3. S[c] = PyStep(S[i], u[c])  BY <1>1 DEF Runs
  <1> HIDE DEF b, c
  <1>4. S[i].phase = "colon" /\ PyTo(S[i], "value") = PyPush(p, "value", f)  BY PushedState
  <1>5. S[c] = PyPush(p, "value", f)  BY <1>2, <1>3, <1>4 DEF PyStep, PyColon, PyTo
  <1>6. S[c].phase = "value"  BY <1>5, PushedState
  <1>7. ReadsValue(S, b, j)  BY <1>1, <1>2 DEF ReadsAll
  <1>8. PICK v : S[j] = PyDeliver(Opened(S[c]), v)  BY <1>1, <1>6, <1>7 DEF ReadsValue
  <1>9. Opened(S[c]) = S[c]  BY <1>6 DEF Opened
  <1> DEFINE h == WithMember(f, v)
  <1>10. /\ S[j] = PyPush(p, "obj_next", h) /\ IsFrame(h) /\ h.obj
         /\ DOMAIN h.members = DOMAIN f.members \cup {f.key}
    BY <1>5, <1>8, <1>9, DeliveryToPushed
  <1> HIDE DEF h
  <1>11. QED  BY <1>10 DEF MemberRead

\* A list of members with different names, all in one frame.
LEMMA ReadsAllMembers ==
    ASSUME NEW u, Len(u) \in Nat, NEW S, Runs(u, S), NEW g, ReadsAll(u, S, g),
           NEW i \in 1..Len(u), NEW j \in 1..Len(u), NEW r \in SUBSET NamesIn(u), MembersAt(u, g, i, j, r)
    PROVE  ReadsMembers(S, i, j, r)
  <1> DEFINE p == S[i - 1]
             Goal == \E f : /\ IsFrame(f) /\ f.obj /\ DOMAIN f.members = r
                            /\ S[j] = PyPush(p, "obj_next", f)
  <1> SUFFICES ASSUME p.phase = "obj_open"  PROVE  Goal
    BY DEF ReadsMembers
  <1>1. IsPyState(p) /\ S[i] = PyStep(p, u[i])
    <2>1. i - 1 \in 0..Len(u)  OBVIOUS
    <2>2. IsPy(p)  BY <2>1, RunsShape
    <2>3. QED  BY <2>2 DEF IsPy, Runs
  <1>2. ASSUME MemberAt(u, g, i, j), r = {u[i].text}  PROVE Goal
    <2> DEFINE f == ObjectFrame(u[i].text)
    <2>1. u[i].kind = "string"  BY <1>2 DEF MemberAt
    <2>2. S[i] = PyPush(p, "colon", f)  BY <1>1, <2>1 DEF PyStep, PyObjOpen, PyPush
    <2>3. IsFrame(f) /\ f.obj /\ f.key = u[i].text /\ DOMAIN f.members = {}  BY NewFrames
    <2> HIDE DEF f, p
    <2>4. PICK h : /\ IsFrame(h) /\ h.obj /\ DOMAIN h.members = DOMAIN f.members \cup {f.key}
                   /\ S[j] = PyPush(p, "obj_next", h)
      <3>1. f.key \notin DOMAIN f.members  BY <2>3
      <3>2. MemberRead(S[j], p, f)  BY <1>1, <1>2, <2>2, <2>3, <3>1, ReadsMember
      <3>3. QED  BY <3>2 DEF MemberRead
    <2>5. QED  BY <1>2, <2>3, <2>4
  <1>3. ASSUME NEW c \in (i + 1)..(j - 1), u[c].kind = ",", MemberAt(u, g, c + 1, j), u[c + 1].text \in r,
               <<i, c - 1, r \ {u[c + 1].text}>> \in g.members
        PROVE  Goal
    <2> DEFINE a == c - 1
               b == c + 1
               x == u[b].text
               old == r \ {x}
    <2>1. a \in 1..Len(u) /\ b \in 1..Len(u) /\ c \in 1..Len(u) /\ b - 1 = c  OBVIOUS
    <2>2. old \in SUBSET NamesIn(u) /\ <<i, a, old>> \in g.members /\ x \in r /\ MemberAt(u, g, b, j)
      BY <1>3
    <2> HIDE DEF old
    <2>3. ReadsMembers(S, i, a, old)  BY <2>1, <2>2 DEF ReadsAll
    <2>4. PICK f : IsFrame(f) /\ f.obj /\ DOMAIN f.members = old /\ S[a] = PyPush(p, "obj_next", f)
      BY <2>3 DEF ReadsMembers
    <2>5. S[c] = PyStep(S[a], u[c])  BY <2>1 DEF Runs
    <2> HIDE DEF p, a
    <2>6. S[a].phase = "obj_next" /\ PyTo(S[a], "key") = PyPush(p, "key", f)  BY <1>1, <2>4, PushedState
    <2>7. S[c] = PyPush(p, "key", f)  BY <1>3, <2>5, <2>6 DEF PyStep, PyObjNext, PyTo
    <2>8. S[b] = PyStep(S[c], u[b])  BY <2>1 DEF Runs
    <2>9. u[b].kind = "string"  BY <2>2 DEF MemberAt
    <2> HIDE DEF b
    <2> DEFINE h == [f EXCEPT !.key = x]
    <2>10. S[c].phase = "key" /\ Top(S[c].stack) = f /\ PyChange(S[c], "colon", h) = PyPush(p, "colon", h)
      BY <1>1, <2>7, AfterPush
    <2>11. S[b] = PyPush(p, "colon", h)  BY <2>8, <2>9, <2>10 DEF PyStep, PyKey, PyChange
    <2>12. IsFrame(h) /\ h.obj /\ h.key = x /\ h.members = f.members  BY <2>4 DEF IsFrame
    <2> HIDE DEF h
    <2>13. h.key \notin DOMAIN h.members  BY <2>4, <2>12 DEF old
    <2>14. PICK k : /\ IsFrame(k) /\ k.obj /\ DOMAIN k.members = DOMAIN h.members \cup {h.key}
                    /\ S[j] = PyPush(p, "obj_next", k)
      <3>1. MemberRead(S[j], p, h)  BY <1>1, <2>1, <2>2, <2>11, <2>12, <2>13, ReadsMember
      <3>2. QED  BY <3>1 DEF MemberRead
    <2>15. DOMAIN k.members = r  BY <2>2, <2>4, <2>12, <2>14 DEF old
    <2>16. QED  BY <2>14, <2>15
  <1>4. QED  BY <1>2, <1>3 DEF MembersAt

\* All that the grammar derives is read so.
LEMMA ReadsDerived ==
    ASSUME NEW u, Len(u) \in Nat, NEW S, Runs(u, S)
    PROVE  \A n \in Nat : ReadsAll(u, S, Derived(u)[n])
  <1> DEFINE A == {n \in Nat : ReadsAll(u, S, Derived(u)[n])}
  <1>1. 0 \in A
    <2>1. Derived(u)[0] = NothingDerived  BY DerivedIs
    <2>2. ReadsAll(u, S, NothingDerived)  BY DEF ReadsAll, NothingDerived
    <2>3. QED  BY <2>1, <2>2
  <1>2. ASSUME NEW n \in A  PROVE n + 1 \in A
    <2> DEFINE g == Derived(u)[n]
               h == Derived(u)[n + 1]
    <2>1. /\ \A i, j \in 1..Len(u) : <<i, j>> \in h.values <=> ValueAt(u, g, i, j)
          /\ \A i, j \in 1..Len(u) : <<i, j>> \in h.lists <=> ListAt(u, g, i, j)
          /\ \A i, j \in 1..Len(u) : \A r \in SUBSET NamesIn(u) :
                  <<i, j, r>> \in h.members <=> MembersAt(u, g, i, j, r)
      BY Applied
    <2>2. ReadsAll(u, S, g)  OBVIOUS
    <2> HIDE DEF g, h
    <2>3. ReadsAll(u, S, h)  BY <2>1, <2>2, ReadsBrackets, ReadsElements, ReadsAllMembers DEF ReadsAll
    <2>4. QED  BY <2>3 DEF h
  <1>3. A \in SUBSET Nat  OBVIOUS
  <1> HIDE DEF A
  <1>4. \A n \in Nat : n \in A  BY <1>1, <1>2, <1>3, NaturalsOf
  <1>5. QED  BY <1>4 DEF A

LEMMA JsonIsRead ==
    ASSUME NEW u, Len(u) \in Nat, NEW S, Runs(u, S), IsJson(u), Len(u) # 0
    PROVE  S[Len(u)].phase = "done"
  <1> DEFINE n == Len(u)
  <1>1. n \in 1..n /\ 1 \in 1..n /\ n \in Nat /\ <<1, n>> \in Derived(u)[n].values  BY DEF IsJson
  <1> HIDE DEF n
  <1>2. ReadsValue(S, 1, n)
    <2>1. ReadsAll(u, S, Derived(u)[n])  BY <1>1, ReadsDerived
    <2>2. QED  BY <1>1, <2>1 DEF ReadsAll, n
  <1>3. S[1 - 1] = PyStart  BY DEF Runs
  <1>4. PyStart.phase = "value" /\ PyStart.stack = <<>>  BY DEF PyStart
  <1>5. PICK v : S[n] = PyDeliver(Opened(PyStart), v)  BY <1>2, <1>3, <1>4 DEF ReadsValue
  <1>6. Opened(PyStart) = PyStart  BY <1>4 DEF Opened
  <1>7. PyDeliver(PyStart, v).phase = "done"
    <2>1. IsPy(PyStart)  BY RunsShape, <1>1, <1>3 DEF n
    <2>2. QED  BY <1>4, <2>1, Delivered DEF IsPy
  <1>8. QED  BY <1>5, <1>6, <1>7 DEF n

-----------------------------------------------------------------------------
(* What is read is of the grammar.  A frame of the Python parser stands for  *)
(* an open container: s is the place of its first token behind the bracket.  *)

\* The name of a member has been read at w.
NameRead(u, f, s, w) ==
    /\ w \in 1..Len(u) /\ u[w].kind = "string" /\ u[w].text = f.key
    /\ \/ w = s /\ DOMAIN f.members = {}
       \/ u[w - 1].kind = "," /\ Mem(u, s, w - 2, DOMAIN f.members)

\* A value is expected at w.
Awaits(u, f, s, w) ==
    IF f.obj THEN u[w - 1].kind = ":" /\ NameRead(u, f, s, w - 2)
    ELSE \/ w = s
         \/ u[w - 1].kind = "," /\ List(u, s, w - 2)

\* All up to e are elements or members.
Holds(u, f, s, e) == IF f.obj THEN Mem(u, s, e, DOMAIN f.members) ELSE List(u, s, e)

\* The bracket before s; the container is a value the frame below awaits.
OpenedBy(t, f) == t.kind = IF f.obj THEN "{" ELSE "["
ClosedBy(t, f) == t.kind = IF f.obj THEN "}" ELSE "]"
Opens(u, f, s) == s - 1 \in 1..Len(u) /\ OpenedBy(u[s - 1], f)
Place(u, st, b, x, w) == IF x = 0 THEN w = 1 ELSE Awaits(u, st[x], b[x], w)
Ground(u, st, b) ==
    \A x \in 1..Len(st) : Opens(u, st[x], b[x]) /\ Place(u, st, b, x - 1, b[x] - 1)

\* The state p of the parser after k tokens.
Reached(u, p, b, k) ==
    /\ p.phase \notin {"done", "rejected"} => Ground(u, p.stack, b)
    /\ p.phase = "value" => Place(u, p.stack, b, Len(p.stack), k + 1)
    /\ p.phase \in {"obj_open", "arr_open"} =>
         /\ k \in 1..Len(u) /\ Place(u, p.stack, b, Len(p.stack), k)
         /\ u[k].kind = IF p.phase = "obj_open" THEN "{" ELSE "["
    /\ p.phase = "colon" => NameRead(u, Top(p.stack), b[Len(p.stack)], k)
    /\ p.phase = "key" => u[k].kind = "," /\ Holds(u, Top(p.stack), b[Len(p.stack)], k - 1)
    /\ p.phase \in {"obj_next", "arr_next"} => Holds(u, Top(p.stack), b[Len(p.stack)], k)
    /\ p.phase = "done" => Val(u, 1, k)
    /\ p.phase # "accepted"

\* One element or member more.
LEMMA HoldsElement ==
    ASSUME NEW u, Len(u) \in Nat, NEW f, ~f.obj, NEW h, ~h.obj, NEW s, NEW w, NEW e,
           Awaits(u, f, s, w), Val(u, w, e)
    PROVE  Holds(u, h, s, e)
  <1>0. w \in 1..Len(u)  BY DEF Val
  <1>1. CASE w = s
    <2>1. List(u, s, e)  BY <1>1, FirstElement
    <2>2. QED  BY <2>1 DEF Holds
  <1>2. CASE u[w - 1].kind = "," /\ List(u, s, w - 2)
    <2> DEFINE c == w - 1
    <2>1. c \in Nat /\ c - 1 = w - 2 /\ c + 1 = w  BY <1>0
    <2> HIDE DEF c
    <2>2. List(u, s, c - 1) /\ u[c].kind = "," /\ Val(u, c + 1, e)  BY <1>2, <2>1 DEF c
    <2>3. List(u, s, e)  BY <2>1, <2>2, NextElement
    <2>4. QED  BY <2>3 DEF Holds
  <1>3. QED  BY <1>1, <1>2 DEF Awaits

LEMMA HoldsMember ==
    ASSUME NEW u, Len(u) \in Nat, NEW f, f.obj, f.key \notin DOMAIN f.members,
           NEW h, h.obj, DOMAIN h.members = DOMAIN f.members \cup {f.key}, NEW s, NEW w, NEW e,
           Awaits(u, f, s, w), Val(u, w, e)
    PROVE  Holds(u, h, s, e)
  <1> DEFINE i == w - 2
  <1>0. w \in 1..Len(u)  BY DEF Val
  <1>1. u[w - 1].kind = ":" /\ NameRead(u, f, s, i)  BY DEF Awaits
  <1>2. i \in Nat /\ i + 1 = w - 1 /\ i + 2 = w /\ i \in Nat \ {0}
    <2>1. i \in 1..Len(u)  BY <1>1 DEF NameRead
    <2>2. QED  BY <1>0, <2>1
  <1> HIDE DEF i
  <1>3. /\ i \in 1..Len(u) /\ u[i].kind = "string" /\ u[i].text = f.key /\ u[i + 1].kind = ":"
        /\ Val(u, i + 2, e)
    BY <1>1, <1>2 DEF NameRead
  <1>4. CASE i = s /\ DOMAIN f.members = {}
    <2>1. Mem(u, i, e, {f.key})  BY <1>3, FirstMember
    <2>2. DOMAIN h.members = {f.key}  BY <1>4
    <2>3. QED  BY <1>4, <2>1, <2>2 DEF Holds
  <1>5. CASE u[i - 1].kind = "," /\ Mem(u, s, i - 2, DOMAIN f.members)
    <2> DEFINE c == i - 1
    <2>1. c \in Nat /\ c - 1 = i - 2 /\ c + 1 = i /\ c + 2 = i + 1 /\ c + 3 = i + 2  BY <1>2
    <2> HIDE DEF c
    <2>2. /\ Mem(u, s, c - 1, DOMAIN f.members) /\ u[c].kind = "," /\ u[c + 1].kind = "string"
          /\ u[c + 2].kind = ":" /\ u[c + 1].text = f.key /\ Val(u, c + 3, e)
      BY <1>3, <1>5, <2>1 DEF c
    <2>3. Mem(u, s, e, DOMAIN f.members \cup {u[c + 1].text})  BY <2>1, <2>2, NextMember
    <2>4. QED  BY <2>2, <2>3 DEF Holds
  <1>6. QED  BY <1>1, <1>4, <1>5 DEF NameRead

\* The frames below the top are what they were.
LEMMA GroundKept ==
    ASSUME NEW u, NEW st, NEW b, Ground(u, st, b), NEW s2, Len(s2) \in Nat, Len(st) \in Nat, Len(s2) <= Len(st),
           \A x \in 1..Len(s2) : s2[x].obj = st[x].obj, \A x \in 1..(Len(s2) - 1) : s2[x] = st[x]
    PROVE  Ground(u, s2, b)
  <1> SUFFICES ASSUME NEW x \in 1..Len(s2)  PROVE Opens(u, s2[x], b[x]) /\ Place(u, s2, b, x - 1, b[x] - 1)
    BY DEF Ground
  <1>1. x \in 1..Len(st) /\ (x - 1 # 0 => x - 1 \in 1..(Len(s2) - 1))  OBVIOUS
  <1>2. Opens(u, st[x], b[x]) /\ Place(u, st, b, x - 1, b[x] - 1)  BY <1>1 DEF Ground
  <1>3. Opens(u, s2[x], b[x])  BY <1>2 DEF Opens, OpenedBy
  <1>4. Place(u, s2, b, x - 1, b[x] - 1)
    <2> DEFINE y == x - 1
               w == b[x] - 1
    <2>1. Place(u, st, b, y, w) /\ (y # 0 => s2[y] = st[y])  BY <1>1, <1>2
    <2> HIDE DEF y, w
    <2>2. Place(u, s2, b, y, w)  BY <2>1 DEF Place
    <2>3. QED  BY <2>2 DEF y, w
  <1>5. QED  BY <1>3, <1>4

\* A value from w to e is delivered.
LEMMA ReachedDelivery ==
    ASSUME NEW u, Len(u) \in Nat, NEW p, IsPyState(p), NEW b, Ground(u, p.stack, b), NEW w, NEW e, NEW v,
           Place(u, p.stack, b, Len(p.stack), w), Val(u, w, e)
    PROVE  Reached(u, PyDeliver(p, v), b, e)
  <1> DEFINE q == PyDeliver(p, v)
             m == Len(p.stack)
             f == Top(p.stack)
  <1>0. m \in Nat /\ (p.stack = <<>> <=> m = 0) /\ IsPy(q)  BY Bottom, Delivered DEF IsPyState
  <1>1. CASE p.stack = <<>>
    <2>1. q.phase = "done" /\ w = 1  BY <1>0, <1>1, Delivered DEF Place
    <2> HIDE DEF q
    <2>2. QED  BY <2>1 DEF Reached, q
  <1>2. CASE p.stack # <<>> /\ f.obj /\ f.key \in DOMAIN f.members
    <2>1. q.phase = "rejected"  BY <1>2, Delivered
    <2> HIDE DEF q
    <2>2. QED  BY <2>1 DEF Reached, q
  <1>3. CASE p.stack # <<>> /\ ~(f.obj /\ f.key \in DOMAIN f.members)
    <2> DEFINE h == Top(q.stack)
    <2>1. /\ q.phase = (IF f.obj THEN "obj_next" ELSE "arr_next") /\ Len(q.stack) = m
          /\ \A i \in 1..(m - 1) : q.stack[i] = p.stack[i]
          /\ h.obj = f.obj /\ (f.obj => DOMAIN h.members = DOMAIN f.members \cup {f.key})
      <3>1. /\ q.phase = (IF f.obj THEN "obj_next" ELSE "arr_next") /\ Len(q.stack) = m
            /\ \A i \in 1..(m - 1) : q.stack[i] = p.stack[i]
        BY <1>3, Delivered
      <3>2. h.obj = f.obj  BY <1>3, Delivered, Zenon
      <3>3. f.obj => DOMAIN h.members = DOMAIN f.members \cup {f.key}  BY <1>3, Delivered
      <3> HIDE DEF q, f, h, m
      <3>4. QED  BY <3>1, <3>2, <3>3, Zenon
    <2>2. Awaits(u, f, b[m], w)  BY <1>0, <1>3 DEF Place, Top
    <2>3. Holds(u, h, b[m], e)
      <3> HIDE DEF f, h, m, q
      <3>1. CASE f.obj  BY <1>3, <2>1, <2>2, <3>1, HoldsMember
      <3>2. CASE ~f.obj  BY <2>1, <2>2, <3>2, HoldsElement
      <3>3. QED  BY <3>1, <3>2
    <2>4. Ground(u, q.stack, b)
      <3>1. \A x \in 1..m : q.stack[x].obj = p.stack[x].obj
        <4>1. q.stack[m].obj = p.stack[m].obj  BY <2>1 DEF Top
        <4>2. QED  BY <1>0, <2>1, <4>1
      <3> HIDE DEF q
      <3>2. QED  BY <1>0, <2>1, <3>1, GroundKept
    <2> HIDE DEF q
    <2>5. QED  BY <2>1, <2>3, <2>4 DEF Reached, q
  <1>4. QED  BY <1>1, <1>2, <1>3

LEMMA ReachedFailure ==
    ASSUME NEW u, NEW p, IsPyState(p), NEW b, NEW k
    PROVE  Reached(u, PyFail(p), b, k)
  <1>1. PyFail(p).phase = "rejected"  BY PyFailShape
  <1>2. QED  BY <1>1 DEF Reached

\* A value begins at j, or is there.
LEMMA ReachedValue ==
    ASSUME NEW u, Len(u) \in Nat, NEW p, IsPyState(p), NEW b, Ground(u, p.stack, b), NEW j \in 1..Len(u),
           Place(u, p.stack, b, Len(p.stack), j)
    PROVE  Reached(u, PyValue(p, u[j]), b, j)
  <1> DEFINE t == u[j]
  <1>1. CASE t.kind \in {"{", "["}
    <2> DEFINE ph == IF t.kind = "{" THEN "obj_open" ELSE "arr_open"
               q == PyTo(p, ph)
    <2>1. PyValue(p, t) = q /\ ph \in {"obj_open", "arr_open"} /\ t.kind = IF ph = "obj_open" THEN "{" ELSE "["
      BY <1>1 DEF PyValue, PyTo
    <2> HIDE DEF ph
    <2>2. q.phase = ph /\ q.stack = p.stack  BY PhaseChanged
    <2> HIDE DEF q
    <2>3. Reached(u, q, b, j)  BY <2>1, <2>2 DEF Reached
    <2>4. QED  BY <2>1, <2>3
  <1>2. CASE t.kind \in {"string", "scalar"}
    <2>1. PyValue(p, t) = PyDeliver(p, t)  BY <1>2 DEF PyValue
    <2>2. Val(u, j, j)  BY <1>2, SimpleValue
    <2>3. QED  BY <2>1, <2>2, ReachedDelivery
  <1>3. CASE t.kind \notin {"{", "[", "string", "scalar"}
    <2>1. PyValue(p, t) = PyFail(p)  BY <1>3 DEF PyValue
    <2>2. QED  BY <2>1, ReachedFailure
  <1>4. QED  BY <1>1, <1>2, <1>3

\* c has s for n, and otherwise what b has.
Marked(b, c, n, s) == c \in [Nat -> Nat] /\ c[n] = s /\ \A x \in Nat : x # n => c[x] = b[x]

LEMMA Mark ==
    ASSUME NEW b \in [Nat -> Nat], NEW n \in Nat, NEW s \in Nat
    PROVE  Marked(b, [b EXCEPT ![n] = s], n, s)
  BY DEF Marked

\* The container that the bracket at k opens.
InContainer(u, q, c, f, s) ==
    /\ Ground(u, q.stack, c) /\ c[Len(q.stack)] = s
    /\ IsPyState(q) /\ Top(q.stack) = f /\ q.stack # <<>> /\ Len(q.stack) # 0

Ready(u, p, b, k) ==
    /\ IsPyState(p) /\ Ground(u, p.stack, b)
    /\ k \in 1..Len(u) /\ Place(u, p.stack, b, Len(p.stack), k)

LEMMA ReachedPush ==
    ASSUME NEW u, Len(u) \in Nat, NEW p, NEW b, NEW k, Ready(u, p, b, k), NEW f, IsFrame(f),
           OpenedBy(u[k], f), NEW c, Marked(b, c, Len(p.stack) + 1, k + 1), NEW ph
    PROVE  InContainer(u, PyPush(p, ph, f), c, f, k + 1) /\ PyPush(p, ph, f).phase = ph
  <1> DEFINE q == PyPush(p, ph, f)
  <1>0. /\ IsPyState(p) /\ Ground(u, p.stack, b)
        /\ k \in 1..Len(u) /\ Place(u, p.stack, b, Len(p.stack), k)
    BY DEF Ready
  <1> DEFINE m == Len(p.stack)
             n == m + 1
  <1>1. /\ IsPyState(q) /\ q.phase = ph /\ Top(q.stack) = f /\ q.stack # <<>> /\ Len(q.stack) = n
        /\ \A i \in 1..m : q.stack[i] = p.stack[i]
    BY <1>0, FramePushed
  <1> HIDE DEF q
  <1>2. m \in Nat  BY <1>0, Bottom DEF IsPyState
  <1> HIDE DEF m
  <1>3. n \in Nat \ {0} /\ n - 1 = m /\ k + 1 \in Nat /\ (k + 1) - 1 = k  BY <1>0, <1>2
  <1>4. c \in [Nat -> Nat] /\ c[n] = k + 1 /\ \A x \in Nat : x # n => c[x] = b[x]  BY DEF Marked, m
  <1>5. Ground(u, q.stack, c)
    <2> SUFFICES ASSUME NEW x \in 1..n  PROVE Opens(u, q.stack[x], c[x]) /\ Place(u, q.stack, c, x - 1, c[x] - 1)
      BY <1>1 DEF Ground, m
    <2>1. CASE x = n
      <3>1. q.stack[x] = f /\ c[x] = k + 1  BY <1>1, <1>4, <2>1 DEF Top
      <3>2. Opens(u, q.stack[x], c[x])  BY <1>0, <1>3, <3>1 DEF Opens
      <3>3. m # 0 => q.stack[m] = p.stack[m] /\ c[m] = b[m]
        <4>1. m # 0 => m \in 1..m /\ m # n  BY <1>2
        <4>2. QED  BY <1>1, <1>2, <1>4, <4>1
      <3> HIDE DEF n, m
      <3>4. Place(u, q.stack, c, m, k)  BY <1>0, <3>3 DEF Place, m
      <3>5. QED  BY <1>3, <2>1, <3>1, <3>2, <3>4
    <2>2. CASE x # n
      <3> DEFINE y == x - 1
      <3>1. x \in 1..m /\ x \in Nat /\ y \in Nat /\ y # n /\ (y # 0 => y \in 1..m)  BY <1>2, <2>2
      <3>2. q.stack[x] = p.stack[x] /\ c[x] = b[x] /\ c[y] = b[y] /\ (y # 0 => q.stack[y] = p.stack[y])
        BY <1>1, <1>4, <2>2, <3>1
      <3>3. Opens(u, p.stack[x], b[x]) /\ Place(u, p.stack, b, y, b[x] - 1)  BY <1>0, <3>1 DEF Ground, m
      <3> HIDE DEF y
      <3>4. Place(u, q.stack, c, y, c[x] - 1)  BY <3>2, <3>3 DEF Place
      <3>5. QED  BY <3>2, <3>3, <3>4 DEF y
    <2>3. QED  BY <2>1, <2>2
  <1>6. QED  BY <1>1, <1>3, <1>4, <1>5 DEF InContainer, q

\* The container at the top of the stack is closed at j.
LEMMA ReachedClose ==
    ASSUME NEW u, Len(u) \in Nat, NEW p, IsPyState(p), p.stack # <<>>, NEW b, Ground(u, p.stack, b),
           NEW j \in 1..Len(u), Holds(u, Top(p.stack), b[Len(p.stack)], j - 1),
           ClosedBy(u[j], Top(p.stack)), NEW v
    PROVE  Reached(u, PyDeliver(PyPop(p), v), b, j)
  <1> DEFINE m == Len(p.stack)
             f == Top(p.stack)
             s == b[m]
             i == s - 1
             q == PyPop(p)
  <1>1. /\ IsPyState(q) /\ m \in Nat \ {0} /\ Len(q.stack) = m - 1
        /\ \A x \in 1..(m - 1) : q.stack[x] = p.stack[x]
    BY FramePopped
  <1>2. m \in 1..m  BY <1>1
  <1>3. Opens(u, f, s) /\ Place(u, p.stack, b, m - 1, i)  BY <1>2 DEF Ground, Top
  <1> HIDE DEF q
  <1>4. Ground(u, q.stack, b)
    <2>1. Len(q.stack) \in Nat /\ m \in Nat /\ Len(q.stack) <= m  BY <1>1
    <2>2. \A x \in 1..Len(q.stack) : q.stack[x].obj = p.stack[x].obj  BY <1>1
    <2>3. \A x \in 1..(Len(q.stack) - 1) : q.stack[x] = p.stack[x]  BY <1>1
    <2>4. QED  BY <2>1, <2>2, <2>3, GroundKept
  <1>5. Place(u, q.stack, b, Len(q.stack), i)
    <2> DEFINE y == m - 1
    <2>1. Len(q.stack) = y /\ (y # 0 => q.stack[y] = p.stack[y])
      <3> HIDE DEF m
      <3>1. y # 0 => y \in 1..(m - 1)  BY <1>1
      <3>2. QED  BY <1>1, <3>1
    <2> HIDE DEF y, i
    <2>2. Place(u, p.stack, b, y, i)  BY <1>3 DEF y
    <2>3. QED  BY <2>1, <2>2 DEF Place
  <1>6. Val(u, i, j)
    <2>1. i \in 1..Len(u) /\ s \in 1..Len(u) /\ i + 1 = s
      <3>1. i \in 1..Len(u)  BY <1>3 DEF Opens
      <3>2. s \in 1..Len(u)  BY DEF Holds, List, Mem
      <3>3. QED  BY <3>1, <3>2
    <2>2. CASE f.obj
      <3> DEFINE r == DOMAIN f.members
      <3>1. Mem(u, i + 1, j - 1, r) /\ u[i].kind = "{" /\ u[j].kind = "}"
        BY <1>3, <2>1, <2>2 DEF Holds, Opens, OpenedBy, ClosedBy
      <3> HIDE DEF r, i
      <3>2. QED  BY <2>1, <3>1, ObjectValue
    <2>3. CASE ~f.obj
      <3>1. List(u, i + 1, j - 1) /\ u[i].kind = "[" /\ u[j].kind = "]"
        BY <1>3, <2>1, <2>3 DEF Holds, Opens, OpenedBy, ClosedBy
      <3> HIDE DEF i
      <3>2. QED  BY <2>1, <3>1, ArrayValue
    <2>4. QED  BY <2>2, <2>3
  <1> HIDE DEF i
  <1>7. Reached(u, PyDeliver(q, v), b, j)  BY <1>1, <1>4, <1>5, <1>6, ReachedDelivery
  <1>8. QED  BY <1>7 DEF q

AreMarks(b) == b \in [Nat -> Nat]
HasReached(u, p, k) == \E b : AreMarks(b) /\ Reached(u, p, b, k)

\* Behind a brace or a bracket.
LEMMA ReachedOpen ==
    ASSUME NEW u, Len(u) \in Nat, NEW k \in Nat, NEW j, j = k + 1, j \in 1..Len(u), NEW p, IsPy(p),
           p.phase \in {"obj_open", "arr_open"}, NEW b, AreMarks(b), Reached(u, p, b, k)
    PROVE  HasReached(u, PyStep(p, u[j]), j)
  <1> DEFINE t == u[j]
             m == Len(p.stack)
             c == [b EXCEPT ![m + 1] = j]
  <1>1. IsPyState(p) /\ m \in Nat  BY Bottom DEF IsPy, IsPyState
  <1>2. Ground(u, p.stack, b) /\ k \in 1..Len(u) /\ Place(u, p.stack, b, m, k)  BY DEF Reached
  <1>3. Marked(b, c, m + 1, k + 1) /\ AreMarks(c)
    <2> HIDE DEF m
    <2>1. m + 1 \in Nat /\ j \in Nat  BY <1>1
    <2>2. Marked(b, c, m + 1, j)  BY <2>1, Mark DEF AreMarks
    <2>3. QED  BY <2>2 DEF Marked, AreMarks
  <1> HIDE DEF c
  <1>7. Ready(u, p, b, k)  BY <1>1, <1>2 DEF Ready
  <1>4. CASE p.phase = "obj_open"
    <2>0. u[k].kind = "{"  BY <1>4 DEF Reached
    <2>1. PyStep(p, t) = PyObjOpen(p, t)  BY <1>4 DEF PyStep
    <2>2. CASE t.kind = "}"
      <3>1. PyStep(p, t) = PyDeliver(p, EmptyObject)  BY <2>1, <2>2 DEF PyObjOpen
      <3>2. Val(u, k, k + 1)  BY <1>2, <2>0, <2>2, EmptyValue
      <3>3. Reached(u, PyDeliver(p, EmptyObject), b, j)  BY <1>1, <1>2, <3>2, ReachedDelivery
      <3>4. QED  BY <3>1, <3>3 DEF HasReached
    <2>3. CASE t.kind = "string"
      <3> DEFINE f == ObjectFrame(t.text)
                 q == PyPush(p, "colon", f)
      <3>1. PyStep(p, t) = q  BY <2>1, <2>3 DEF PyObjOpen, PyPush
      <3>2. IsFrame(f) /\ f.obj /\ f.key = t.text /\ DOMAIN f.members = {}  BY NewFrames
      <3> HIDE DEF f
      <3>3. OpenedBy(u[k], f)  BY <2>0, <3>2 DEF OpenedBy
      <3>4. /\ Ground(u, q.stack, c) /\ c[Len(q.stack)] = j /\ q.phase = "colon" /\ Top(q.stack) = f
        <4>1. q = PyPush(p, "colon", f)  OBVIOUS
        <4> HIDE DEF q
        <4>2. InContainer(u, q, c, f, k + 1) /\ q.phase = "colon"
          BY <1>3, <1>7, <3>2, <3>3, <4>1, ReachedPush
        <4>3. QED  BY <4>2 DEF InContainer
      <3> HIDE DEF q
      <3>5. NameRead(u, f, j, j)  BY <2>3, <3>2 DEF NameRead
      <3>6. Reached(u, q, c, j)  BY <3>4, <3>5 DEF Reached
      <3>7. QED  BY <1>3, <3>1, <3>6 DEF HasReached
    <2>4. CASE t.kind \notin {"}", "string"}
      <3>1. PyStep(p, t) = PyFail(p)  BY <2>1, <2>4 DEF PyObjOpen
      <3>2. QED  BY <1>1, <3>1, ReachedFailure DEF HasReached
    <2>5. QED  BY <2>2, <2>3, <2>4
  <1>5. CASE p.phase = "arr_open"
    <2>0. u[k].kind = "["  BY <1>5 DEF Reached
    <2>1. PyStep(p, t) = PyArrOpen(p, t)  BY <1>5 DEF PyStep
    <2>2. CASE t.kind = "]"
      <3>1. PyStep(p, t) = PyDeliver(p, EmptyArray)  BY <2>1, <2>2 DEF PyArrOpen
      <3>2. Val(u, k, k + 1)  BY <1>2, <2>0, <2>2, EmptyValue
      <3>3. Reached(u, PyDeliver(p, EmptyArray), b, j)  BY <1>1, <1>2, <3>2, ReachedDelivery
      <3>4. QED  BY <3>1, <3>3 DEF HasReached
    <2>3. CASE t.kind # "]"
      <3> DEFINE f == ArrayFrame
                 q == PyPush(p, "value", f)
      <3>1. PyStep(p, t) = PyValue(q, t)  BY <2>1, <2>3 DEF PyArrOpen, PyPush
      <3>2. IsFrame(f) /\ ~f.obj  BY NewFrames
      <3> HIDE DEF f
      <3>3. OpenedBy(u[k], f)  BY <2>0, <3>2 DEF OpenedBy
      <3>4. /\ Ground(u, q.stack, c) /\ c[Len(q.stack)] = j /\ IsPyState(q) /\ Top(q.stack) = f
            /\ Len(q.stack) # 0
        <4>1. q = PyPush(p, "value", f)  OBVIOUS
        <4> HIDE DEF q
        <4>2. InContainer(u, q, c, f, k + 1) /\ q.phase = "value"
          BY <1>3, <1>7, <3>2, <3>3, <4>1, ReachedPush
        <4>3. QED  BY <4>2 DEF InContainer
      <3> HIDE DEF q
      <3>5. Awaits(u, f, j, j)  BY <3>2 DEF Awaits
      <3>6. Place(u, q.stack, c, Len(q.stack), j)  BY <3>4, <3>5 DEF Place, Top
      <3>7. Reached(u, PyValue(q, t), c, j)  BY <3>4, <3>6, ReachedValue
      <3>8. QED  BY <1>3, <3>1, <3>7 DEF HasReached
    <2>4. QED  BY <2>2, <2>3
  <1>6. QED  BY <1>4, <1>5

\* In an object.
LEMMA ReachedMember ==
    ASSUME NEW u, Len(u) \in Nat, NEW k \in Nat, NEW j, j = k + 1, j \in 1..Len(u), NEW p, IsPy(p),
           p.phase \in {"key", "colon"}, NEW b, AreMarks(b), Reached(u, p, b, k)
    PROVE  HasReached(u, PyStep(p, u[j]), j)
  <1> DEFINE t == u[j]
             m == Len(p.stack)
             s == b[m]
             f == Top(p.stack)
  <1>1. IsPyState(p) /\ m \in Nat /\ p.stack # <<>> /\ f.obj /\ m # 0 /\ IsFrame(f)
    <2>1. IsPyState(p) /\ p.stack # <<>> /\ f.obj  BY DEF IsPy
    <2>2. m \in Nat /\ m # 0  BY <2>1, Bottom DEF IsPyState
    <2>3. QED  BY <2>1, <2>2 DEF IsPyState, Top
  <1>2. Ground(u, p.stack, b)  BY DEF Reached
  <1>3. CASE p.phase = "key"
    <2>1. PyStep(p, t) = PyKey(p, t)  BY <1>3 DEF PyStep
    <2>2. u[k].kind = "," /\ Mem(u, s, k - 1, DOMAIN f.members)  BY <1>1, <1>3 DEF Reached, Holds
    <2>3. CASE t.kind = "string"
      <3> DEFINE h == [f EXCEPT !.key = t.text]
                 q == PyChange(p, "colon", h)
      <3>1. PyStep(p, t) = q  BY <2>1, <2>3 DEF PyKey, PyChange
      <3>2. IsFrame(h) /\ h.obj /\ h.key = t.text /\ h.members = f.members  BY <1>1 DEF IsFrame
      <3> HIDE DEF h
      <3>3. /\ q.phase = "colon" /\ Len(q.stack) = m /\ Top(q.stack) = h
            /\ \A i \in 1..(m - 1) : q.stack[i] = p.stack[i]
        <4>1. q = PyChange(p, "colon", h)  OBVIOUS
        <4> HIDE DEF q, f, m
        <4>2. LET z == PyChange(p, "colon", h)
              IN  /\ z.phase = "colon" /\ Len(z.stack) = Len(p.stack) /\ Top(z.stack) = h
                  /\ \A i \in 1..(Len(p.stack) - 1) : z.stack[i] = p.stack[i]
          BY <1>1, <3>2, FrameChanged
        <4>3. QED  BY <4>1, <4>2 DEF m
      <3> HIDE DEF q
      <3>4. Ground(u, q.stack, b)
        <4>1. \A x \in 1..m : x # m => q.stack[x] = p.stack[x]
          <5> HIDE DEF m
          <5>1. \A x \in 1..m : x # m => x \in 1..(m - 1)  BY <1>1
          <5>2. QED  BY <3>3, <5>1
        <4>2. q.stack[m].obj = p.stack[m].obj
          <5>1. q.stack[m] = h /\ p.stack[m] = f  BY <3>3 DEF Top
          <5>2. h.obj = f.obj  BY <1>1 DEF IsFrame, h
          <5>3. QED  BY <5>1, <5>2
        <4>3. \A x \in 1..m : q.stack[x].obj = p.stack[x].obj  BY <4>1, <4>2
        <4>4. m <= m  BY <1>1
        <4>5. QED  BY <1>1, <1>2, <3>3, <4>3, <4>4, GroundKept
      <3>5. NameRead(u, h, s, j)
        <4>1. j - 1 = k /\ j - 2 = k - 1  OBVIOUS
        <4>2. QED  BY <2>2, <2>3, <3>2, <4>1 DEF NameRead
      <3>6. Reached(u, q, b, j)  BY <3>3, <3>4, <3>5 DEF Reached
      <3>7. QED  BY <3>1, <3>6 DEF HasReached
    <2>4. CASE t.kind # "string"
      <3>1. PyStep(p, t) = PyFail(p)  BY <2>1, <2>4 DEF PyKey
      <3>2. QED  BY <1>1, <3>1, ReachedFailure DEF HasReached
    <2>5. QED  BY <2>3, <2>4
  <1>4. CASE p.phase = "colon"
    <2>1. PyStep(p, t) = PyColon(p, t)  BY <1>4 DEF PyStep
    <2>2. NameRead(u, f, s, k)  BY <1>4 DEF Reached
    <2>3. CASE t.kind = ":"
      <3> DEFINE q == PyTo(p, "value")
      <3>1. PyStep(p, t) = q  BY <2>1, <2>3 DEF PyColon, PyTo
      <3>2. q.phase = "value" /\ q.stack = p.stack  BY <1>1, PhaseChanged
      <3> HIDE DEF q
      <3> DEFINE w == j + 1
      <3>3. w - 1 = j /\ w - 2 = k  OBVIOUS
      <3> HIDE DEF w
      <3>4. Awaits(u, f, s, w)  BY <1>1, <2>2, <2>3, <3>3 DEF Awaits
      <3>5. Place(u, p.stack, b, m, w)  BY <1>1, <3>4 DEF Place, Top
      <3>6. Reached(u, q, b, j)  BY <1>2, <3>2, <3>5 DEF Reached, w
      <3>7. QED  BY <3>1, <3>6 DEF HasReached
    <2>4. CASE t.kind # ":"
      <3>1. PyStep(p, t) = PyFail(p)  BY <2>1, <2>4 DEF PyColon
      <3>2. QED  BY <1>1, <3>1, ReachedFailure DEF HasReached
    <2>5. QED  BY <2>3, <2>4
  <1>5. QED  BY <1>3, <1>4

\* Behind an element or a member.
LEMMA ReachedNext ==
    ASSUME NEW u, Len(u) \in Nat, NEW k \in Nat, NEW j, j = k + 1, j \in 1..Len(u), NEW p, IsPy(p),
           p.phase \in {"obj_next", "arr_next"}, NEW b, AreMarks(b), Reached(u, p, b, k)
    PROVE  HasReached(u, PyStep(p, u[j]), j)
  <1> DEFINE t == u[j]
             m == Len(p.stack)
             s == b[m]
             f == Top(p.stack)
             v == IF p.phase = "obj_next" THEN [kind |-> "object", members |-> f.members]
                  ELSE [kind |-> "array", els |-> f.els]
             close == IF p.phase = "obj_next" THEN "}" ELSE "]"
  <1>1. IsPyState(p) /\ m \in Nat /\ p.stack # <<>> /\ m # 0
    <2>1. IsPyState(p) /\ p.stack # <<>>  BY DEF IsPy
    <2>2. QED  BY <2>1, Bottom DEF IsPyState
  <1>2. (p.phase = "obj_next" => f.obj) /\ (p.phase = "arr_next" => ~f.obj)  BY DEF IsPy
  <1>3. Ground(u, p.stack, b) /\ Holds(u, f, s, k)  BY DEF Reached
  <1>4. j - 1 = k  OBVIOUS
  <1>5. CASE t.kind = close
    <2>1. PyStep(p, t) = PyDeliver(PyPop(p), v)  BY <1>5 DEF PyStep, PyObjNext, PyArrNext, PyPop
    <2>2. ClosedBy(t, f)  BY <1>2, <1>5 DEF ClosedBy
    <2> HIDE DEF v, close
    <2>3. Reached(u, PyDeliver(PyPop(p), v), b, j)  BY <1>1, <1>3, <1>4, <2>2, ReachedClose
    <2>4. QED  BY <2>1, <2>3 DEF HasReached
  <1>6. CASE t.kind = "," /\ p.phase = "obj_next"
    <2> DEFINE q == PyTo(p, "key")
    <2>1. PyStep(p, t) = q  BY <1>6 DEF PyStep, PyObjNext, PyTo
    <2>2. q.phase = "key" /\ q.stack = p.stack  BY <1>1, PhaseChanged
    <2> HIDE DEF q
    <2>3. Reached(u, q, b, j)  BY <1>3, <1>4, <1>6, <2>2 DEF Reached
    <2>4. QED  BY <2>1, <2>3 DEF HasReached
  <1>7. CASE t.kind = "," /\ p.phase = "arr_next"
    <2> DEFINE q == PyTo(p, "value")
               w == j + 1
    <2>1. PyStep(p, t) = q  BY <1>7 DEF PyStep, PyArrNext, PyTo
    <2>2. q.phase = "value" /\ q.stack = p.stack  BY <1>1, PhaseChanged
    <2> HIDE DEF q
    <2>3. w - 1 = j /\ w - 2 = k  OBVIOUS
    <2> HIDE DEF w
    <2>4. List(u, s, k)  BY <1>2, <1>3, <1>7 DEF Holds
    <2>5. Awaits(u, f, s, w)  BY <1>2, <1>7, <2>3, <2>4 DEF Awaits
    <2>6. Place(u, p.stack, b, m, w)  BY <1>1, <2>5 DEF Place, Top
    <2>7. Reached(u, q, b, j)  BY <1>3, <2>2, <2>6 DEF Reached, w
    <2>8. QED  BY <2>1, <2>7 DEF HasReached
  <1>8. CASE t.kind # close /\ t.kind # ","
    <2>1. PyStep(p, t) = PyFail(p)  BY <1>8 DEF PyStep, PyObjNext, PyArrNext
    <2>2. QED  BY <1>1, <2>1, ReachedFailure DEF HasReached
  <1>9. QED  BY <1>5, <1>6, <1>7, <1>8

LEMMA ReachedStep ==
    ASSUME NEW u, Len(u) \in Nat, NEW k \in Nat, NEW j, j = k + 1, j \in 1..Len(u), u[j].kind # "end",
           NEW p, IsPy(p), HasReached(u, p, k)
    PROVE  HasReached(u, PyStep(p, u[j]), j)
  <1>1. PICK b : AreMarks(b) /\ Reached(u, p, b, k)  BY DEF HasReached
  <1>2. IsPyState(p) /\ p.phase \in Phases /\ p.phase # "accepted"  BY <1>1 DEF IsPy, Reached
  <1>3. CASE p.phase = "value"
    <2>1. Ground(u, p.stack, b) /\ Place(u, p.stack, b, Len(p.stack), j)  BY <1>1, <1>3 DEF Reached
    <2>2. Reached(u, PyValue(p, u[j]), b, j)  BY <1>2, <2>1, ReachedValue
    <2>3. PyStep(p, u[j]) = PyValue(p, u[j])  BY <1>3 DEF PyStep
    <2>4. QED  BY <1>1, <2>2, <2>3 DEF HasReached
  <1>4. CASE p.phase \in {"obj_open", "arr_open"}  BY <1>1, <1>4, ReachedOpen
  <1>5. CASE p.phase \in {"key", "colon"}  BY <1>1, <1>5, ReachedMember
  <1>6. CASE p.phase \in {"obj_next", "arr_next"}  BY <1>1, <1>6, ReachedNext
  <1>7. CASE p.phase = "done"
    <2>1. PyStep(p, u[j]) = PyFail(p)  BY <1>7 DEF PyStep, PyDone
    <2>2. QED  BY <1>1, <1>2, <2>1, ReachedFailure DEF HasReached
  <1>8. CASE p.phase = "rejected"
    <2>1. PyStep(p, u[j]).phase = "rejected"  BY <1>8, PyStepShape
    <2>2. Reached(u, PyStep(p, u[j]), b, j)  BY <2>1 DEF Reached
    <2>3. QED  BY <1>1, <2>2 DEF HasReached
  <1>9. QED  BY <1>2, <1>3, <1>4, <1>5, <1>6, <1>7, <1>8 DEF Phases

NoEnd(u) == \A k \in 1..Len(u) : u[k].kind # "end"

LEMMA RunReaches ==
    ASSUME NEW u, Len(u) \in Nat, NoEnd(u), NEW S, Runs(u, S)
    PROVE  HasReached(u, S[Len(u)], Len(u))
  <1> DEFINE A == {k \in Nat : k <= Len(u) => HasReached(u, S[k], k)}
  <1>1. 0 \in A
    <2> DEFINE b == [x \in Nat |-> 0]
    <2>1. AreMarks(b)  BY DEF AreMarks
    <2> HIDE DEF b
    <2>2. PyStart.phase = "value" /\ PyStart.stack = <<>> /\ Len(<<>>) = 0 /\ 0 + 1 = 1  BY DEF PyStart
    <2>3. Ground(u, <<>>, b)  BY DEF Ground
    <2>4. Place(u, <<>>, b, 0, 1)  BY DEF Place
    <2>5. Reached(u, PyStart, b, 0)  BY <2>2, <2>3, <2>4 DEF Reached
    <2>6. QED  BY <2>1, <2>5 DEF HasReached, Runs
  <1>2. ASSUME NEW k \in A  PROVE k + 1 \in A
    <2> DEFINE j == k + 1
    <2>1. j \in Nat /\ j - 1 = k /\ (j <= Len(u) => j \in 1..Len(u) /\ k \in 0..Len(u) /\ k <= Len(u))
      OBVIOUS
    <2>2. ASSUME j <= Len(u)  PROVE HasReached(u, S[j], j)
      <3>1. IsPy(S[k])  BY <2>1, <2>2, RunsShape
      <3>2. HasReached(u, S[k], k)  BY <2>1, <2>2
      <3>3. j = k + 1 /\ j \in 1..Len(u) /\ u[j].kind # "end" /\ S[j] = PyStep(S[k], u[j])
        BY <2>1, <2>2 DEF NoEnd, Runs
      <3> HIDE DEF j
      <3>4. QED  BY <3>1, <3>2, <3>3, ReachedStep
    <2>3. QED  BY <2>1, <2>2
  <1>3. A \in SUBSET Nat  OBVIOUS
  <1> HIDE DEF A
  <1>4. \A k \in Nat : k \in A  BY <1>1, <1>2, <1>3, NaturalsOf
  <1>5. Len(u) <= Len(u)  OBVIOUS
  <1>6. QED  BY <1>4, <1>5 DEF A

\* A text is complete, for the parser, exactly when the grammar derives it.
LEMMA ReadsJson ==
    ASSUME NEW T, NEW u \in Seq(T), NoEnd(u), NEW S, Runs(u, S)
    PROVE  S[Len(u)].phase = "done" <=> IsJson(u)
  <1> DEFINE n == Len(u)
  <1>1. n \in Nat /\ (u = <<>> <=> n = 0)  OBVIOUS
  <1>2. ASSUME IsJson(u)  PROVE S[n].phase = "done"
    <2>1. n # 0  BY <1>1, <1>2 DEF IsJson
    <2>2. QED  BY <1>1, <1>2, <2>1, JsonIsRead
  <1>3. ASSUME S[n].phase = "done"  PROVE IsJson(u)
    <2>1. HasReached(u, S[n], n)  BY <1>1, RunReaches
    <2>2. Val(u, 1, n)  BY <1>3, <2>1 DEF HasReached, Reached
    <2> HIDE DEF n
    <2>3. n # 0 /\ n - 1 + 1 = n  BY <1>1, <2>2 DEF Val, n
    <2>4. <<1, n>> \in Derived(u)[n].values  BY <2>2, <2>3 DEF Val
    <2>5. QED  BY <1>1, <2>3, <2>4 DEF IsJson, n
  <1>4. QED  BY <1>2, <1>3

\* The end of the text is taken for one only where the document is complete.
LEMMA AtEnd ==
    ASSUME NEW p, IsPy(p), p.phase # "accepted", NEW t, t.kind = "end"
    PROVE  PyStep(p, t).phase = IF p.phase = "done" THEN "accepted" ELSE "rejected"
  <1>1. IsPyState(p) /\ p.phase \in Phases  BY DEF IsPy
  <1>2. CASE p.phase = "done"
    <2>1. PyStep(p, t) = PyTo(p, "accepted")  BY <1>2 DEF PyStep, PyDone, PyTo
    <2>2. QED  BY <1>1, <1>2, <2>1, PhaseChanged
  <1>3. CASE p.phase = "arr_open"
    <2> DEFINE q == PyPush(p, "value", ArrayFrame)
    <2>1. PyStep(p, t) = PyValue(q, t)  BY <1>3 DEF PyStep, PyArrOpen, PyPush
    <2>2. IsPyState(q)  BY <1>1, FramePushed, NewFrames
    <2> HIDE DEF q
    <2>3. PyValue(q, t) = PyFail(q)  BY DEF PyValue
    <2>4. QED  BY <1>3, <2>1, <2>2, <2>3, PyFailShape
  <1>4. CASE p.phase \in {"value", "obj_open", "key", "colon", "obj_next", "arr_next"}
    <2>1. PyStep(p, t) = PyFail(p)
      BY <1>4 DEF PyStep, PyValue, PyObjOpen, PyKey, PyColon, PyObjNext, PyArrNext
    <2>2. QED  BY <1>1, <1>4, <2>1, PyFailShape
  <1>5. CASE p.phase = "rejected"  BY <1>5, PyStepShape
  <1>6. QED  BY <1>1, <1>2, <1>3, <1>4, <1>5 DEF Phases

\* py is the state of the parser after the tokens of input, of which only the
\* last can be the end.
TextRead(u, p) ==
    /\ u \in Seq(Tokens)
    /\ \A k \in 1..(Len(u) - 1) : u[k].kind # "end"
    /\ \E S : Runs(u, S) /\ S[Len(u)] = p

LEMMA ReadOn ==
    ASSUME NEW u, NEW p, TextRead(u, p), u # <<>> => u[Len(u)].kind # "end", NEW t \in Tokens
    PROVE  TextRead(Append(u, t), PyStep(p, t))
  <1> DEFINE n == Len(u)
             m == n + 1
             a == Append(u, t)
  <1>1. u \in Seq(Tokens) /\ \A k \in 1..(n - 1) : u[k].kind # "end"  BY DEF TextRead
  <1>2. PICK S : Runs(u, S) /\ S[n] = p  BY DEF TextRead
  <1>3. /\ a \in Seq(Tokens) /\ Len(a) = m /\ n \in Nat /\ a[m] = t /\ (u = <<>> <=> n = 0)
        /\ \A k \in 1..n : a[k] = u[k]
    BY <1>1
  <1> HIDE DEF n, a
  <1>4. m \in Nat \ {0} /\ m - 1 = n  BY <1>3
  <1>5. \A k \in 1..(m - 1) : a[k].kind # "end"
    <2> SUFFICES ASSUME NEW k \in 1..n  PROVE u[k].kind # "end"
      BY <1>3, <1>4
    <2>1. CASE k = n  BY <1>3, <2>1 DEF n
    <2>2. CASE k # n
      <3>1. k \in 1..(n - 1)  BY <1>3, <2>2
      <3>2. QED  BY <1>1, <3>1
    <2>3. QED  BY <2>1, <2>2
  <1> DEFINE Z == [k \in 0..m |-> IF k = m THEN PyStep(p, t) ELSE S[k]]
  <1>6. /\ Z[m] = PyStep(p, t) /\ \A k \in 0..n : Z[k] = S[k]
    <2>1. m \in 0..m /\ \A k \in 0..n : k \in 0..m /\ k # m  BY <1>3
    <2> HIDE DEF m
    <2>2. QED  BY <2>1
  <1> HIDE DEF Z
  <1>7. Runs(a, Z)
    <2>1. Z[0] = PyStart
      <3>1. 0 \in 0..n  BY <1>3
      <3>2. QED  BY <1>2, <1>6, <3>1 DEF Runs
    <2>2. ASSUME NEW k \in 1..m  PROVE Z[k] = PyStep(Z[k - 1], a[k])
      <3>1. CASE k = m
        <4>1. n \in 0..n  BY <1>3
        <4> HIDE DEF m
        <4>2. QED  BY <1>2, <1>3, <1>4, <1>6, <3>1, <4>1
      <3>2. CASE k # m
        <4> DEFINE l == k - 1
        <4>1. k \in 1..n /\ k \in 0..n /\ l \in 0..n  BY <1>3, <3>2
        <4>2. Z[k] = S[k] /\ Z[l] = S[l] /\ a[k] = u[k]  BY <1>3, <1>6, <4>1
        <4>3. S[k] = PyStep(S[l], u[k])  BY <1>2, <4>1 DEF Runs, n
        <4>4. QED  BY <4>2, <4>3
      <3>3. QED  BY <3>1, <3>2
    <2>3. QED  BY <1>3, <2>1, <2>2 DEF Runs
  <1>8. TextRead(a, PyStep(p, t))  BY <1>3, <1>5, <1>6, <1>7 DEF TextRead
  <1>9. QED  BY <1>8 DEF a

LEMMA ReadNothing == TextRead(<<>>, PyStart)
  <1> DEFINE S == [k \in {0} |-> PyStart]
  <1>1. S[0] = PyStart /\ Len(<<>>) = 0 /\ <<>> \in Seq(Tokens) /\ \A k \in 1..0 : FALSE  OBVIOUS
  <1> HIDE DEF S
  <1>2. Runs(<<>>, S)  BY <1>1 DEF Runs
  <1>3. \A k \in 1..(Len(<<>>) - 1) : <<>>[k].kind # "end"  BY <1>1
  <1>4. QED  BY <1>1, <1>2, <1>3 DEF TextRead

LEMMA ReadExact ==
    ASSUME TextRead(input, py), Ended
    PROVE  py.phase = "accepted" <=> IsJson(Text)
  <1> DEFINE n == Len(input)
             w == Text
             m == n - 1
             t == input[n]
  <1>1. /\ input \in Seq(Tokens) /\ n \in Nat /\ (input = <<>> <=> n = 0)
        /\ \A k \in 1..(n - 1) : input[k].kind # "end"
    BY DEF TextRead
  <1>2. PICK S : Runs(input, S) /\ S[n] = py  BY DEF TextRead
  <1>3. n # 0 /\ t.kind = "end" /\ w = SubSeq(input, 1, m)  BY <1>1 DEF Ended, Text, Front
  <1>4. m \in Nat /\ n \in 1..n /\ m \in 0..n /\ \A k \in 1..m : k \in 1..n  BY <1>1, <1>3
  <1>5. w \in Seq(Tokens) /\ Len(w) = m /\ \A k \in 1..m : w[k] = input[k]
    <2> HIDE DEF w, m, n
    <2>1. \A k \in 1..m : input[k] \in Tokens  BY <1>1, <1>4 DEF n
    <2>2. 1 \in Int /\ m \in Int /\ (1 <= m => m - 1 + 1 = m) /\ (~(1 <= m) => m = 0)  BY <1>4
    <2>3. /\ w \in Seq(Tokens) /\ Len(w) = IF 1 <= m THEN m - 1 + 1 ELSE 0
          /\ \A k \in 1..(m - 1 + 1) : w[k] = input[1 + k - 1]
      BY <1>3, <2>1, <2>2, SubSeqProperties
    <2>4. \A k \in 1..m : k \in 1..(m - 1 + 1) /\ 1 + k - 1 = k  BY <1>4
    <2>5. QED  BY <2>2, <2>3, <2>4
  <1> HIDE DEF w
  <1>6. NoEnd(w)  BY <1>1, <1>5 DEF NoEnd
  <1>7. Runs(w, S)
    <2>1. \A k \in 1..m : S[k] = PyStep(S[k - 1], w[k])  BY <1>2, <1>4, <1>5 DEF Runs
    <2>2. QED  BY <1>2, <1>5, <2>1 DEF Runs
  <1>8. S[m].phase = "done" <=> IsJson(w)  BY <1>5, <1>6, <1>7, ReadsJson
  <1>9. IsPy(S[m]) /\ S[m].phase # "accepted"
    <2>1. IsPy(S[m])  BY <1>1, <1>2, <1>4, RunsShape
    <2>2. HasReached(w, S[m], m)  BY <1>4, <1>5, <1>6, <1>7, RunReaches
    <2>3. QED  BY <2>1, <2>2, Zenon DEF HasReached, Reached
  <1>10. py = PyStep(S[m], t)  BY <1>2, <1>4 DEF Runs
  <1>11. py.phase = IF S[m].phase = "done" THEN "accepted" ELSE "rejected"  BY <1>3, <1>9, <1>10, AtEnd
  <1>12. QED  BY <1>8, <1>11 DEF w

\* Canonicalising what was read leaves the parsers alone.
LEMMA TextParses == TextSpec => Spec
  <1>1. TextInit => Init  BY DEF TextInit
  <1>2. [TextNext]_textVars => [Next]_vars
    <2>1. ASSUME NEW t \in Tokens, ReadToken(t)  PROVE Next  BY <2>1 DEF ReadToken, Next
    <2>2. StartJcs \/ PyCanonicalize \/ GoCanonicalize => UNCHANGED vars
      BY DEF StartJcs, PyCanonicalize, GoCanonicalize, vars
    <2>3. UNCHANGED textVars => UNCHANGED vars  BY DEF textVars, vars
    <2>4. QED  BY <2>1, <2>2, <2>3 DEF TextNext
  <1>3. QED  BY <1>1, <1>2, PTL DEF TextSpec, Spec

LEMMA GrammarHeld == Spec => []TextRead(input, py)
  <1>1. Init => TextRead(input, py)  BY ReadNothing DEF Init
  <1>2. TextRead(input, py) /\ [Next]_vars => TextRead(input, py)'
    <2>1. ASSUME TextRead(input, py), NEW t \in Tokens, Read(t)  PROVE TextRead(input, py)'
      <3>1. input # <<>> => input[Len(input)].kind # "end"  BY <2>1 DEF Read, Ended
      <3>2. TextRead(Append(input, t), PyStep(py, t))  BY <2>1, <3>1, ReadOn
      <3>3. input' = Append(input, t) /\ py' = PyStep(py, t)  BY <2>1 DEF Read
      <3>4. QED  BY <3>2, <3>3
    <2>2. ASSUME TextRead(input, py), UNCHANGED vars  PROVE TextRead(input, py)'
      BY <2>2 DEF vars
    <2>3. QED  BY <2>1, <2>2 DEF Next
  <1>3. QED  BY <1>1, <1>2, PTL DEF Spec

\* The parsers accept a whole text, of any length and nesting, exactly when the
\* grammar derives it and no object has a name twice, so that at whatever token
\* they reject one, no continuation of it is derived; and they read the same
\* value from what they accept (parse_document of json_input.py, buildValue of
\* value.go).
THEOREM ParsersExact == TextSpec => []ReadsExactlyJson
  <1>1. TextRead(input, py) /\ SameValue => ReadsExactlyJson  BY ReadExact DEF ReadsExactlyJson
  <1>2. QED  BY <1>1, TextParses, GrammarHeld, ValuesAgree, PTL

-----------------------------------------------------------------------------
\* FlattenSeq, one sequence at a time.

FlattenOf(f, q) == f = [i \in 1..Len(q) |-> IF i = 1 THEN q[i] ELSE f[i - 1] \o q[i]]

\* The recursive function in the definition of FlattenSeq exists.
LEMMA FlattenExists ==
    ASSUME NEW T, NEW q \in Seq(Seq(T))
    PROVE  \E f : FlattenOf(f, q)
<1> DEFINE Upto(n, f) == f = [i \in 1..n |-> IF i = 1 THEN q[i] ELSE f[i - 1] \o q[i]]
           S == {n \in Nat : \E f : Upto(n, f)}
<1>1. 0 \in S
    <2>1. Upto(0, [i \in 1..0 |-> q[i]])
        OBVIOUS
    <2> QED  BY <2>1
<1>2. ASSUME NEW n \in S PROVE n + 1 \in S
    <2>1. PICK f : Upto(n, f)
        OBVIOUS
    <2> DEFINE g == [i \in 1..(n + 1) |-> IF i = n + 1 THEN (IF i = 1 THEN q[i] ELSE f[n] \o q[i]) ELSE f[i]]
    <2>2. ASSUME NEW i \in 1..(n + 1)
          PROVE  g[i] = IF i = 1 THEN q[i] ELSE g[i - 1] \o q[i]
        <3>1. CASE i = n + 1
            BY <3>1
        <3>2. CASE i # n + 1
            <4>1. i \in 1..n
                BY <3>2
            <4>2. g[i] = f[i] /\ (i # 1 => g[i - 1] = f[i - 1])
                BY <4>1
            <4> QED  BY <4>1, <4>2, <2>1
        <3> QED  BY <3>1, <3>2
    <2>3. Upto(n + 1, g)
        BY <2>2
    <2>4. n + 1 \in Nat
        OBVIOUS
    <2> HIDE DEF g
    <2> QED  BY <2>3, <2>4
<1>3. S \in SUBSET Nat
    OBVIOUS
<1>4. Len(q) \in S
    <2> HIDE DEF S
    <2>1. Len(q) \in Nat
        OBVIOUS
    <2> QED  BY <1>1, <1>2, <1>3, <2>1, NaturalsOf
<1> QED  BY <1>4 DEF FlattenOf

\* FlattenSeq is its last value.
LEMMA FlattenIs ==
    ASSUME NEW T, NEW q \in Seq(Seq(T)), q # <<>>
    PROVE  \E f : FlattenOf(f, q) /\ FlattenSeq(q) = f[Len(q)]
<1> DEFINE f == CHOOSE g : FlattenOf(g, q)
<1>1. FlattenOf(f, q)
    BY FlattenExists
<1>2. Len(q) # 0
    OBVIOUS
<1>3. FlattenSeq(q) = f[Len(q)]
    BY <1>2 DEF FlattenSeq, FlattenOf
<1> QED  BY <1>1, <1>3

\* Nothing flattened is nothing.
LEMMA FlattenNone == FlattenSeq(<<>>) = <<>>
    BY DEF FlattenSeq

\* A single sequence is itself.
LEMMA FlattenOne ==
    ASSUME NEW T, NEW e \in Seq(T)
    PROVE  FlattenSeq(<<e>>) = e
<1>1. <<e>> \in Seq(Seq(T)) /\ <<e>> # <<>> /\ Len(<<e>>) = 1
    OBVIOUS
<1>2. PICK f : FlattenOf(f, <<e>>) /\ FlattenSeq(<<e>>) = f[1]
    BY <1>1, FlattenIs
<1> QED  BY <1>1, <1>2 DEF FlattenOf

\* A sequence appended is put behind the others.
LEMMA FlattenAppend ==
    ASSUME NEW T, NEW q \in Seq(Seq(T)), NEW e \in Seq(T)
    PROVE  FlattenSeq(Append(q, e)) = FlattenSeq(q) \o e /\ FlattenSeq(q) \in Seq(T)
<1>1. CASE q = <<>>
    <2>1. Append(q, e) = <<e>> /\ <<>> \o e = e
        BY <1>1
    <2>2. FlattenSeq(q) = <<>> /\ <<>> \in Seq(T)
        BY <1>1, FlattenNone
    <2>3. FlattenSeq(<<e>>) = e
        BY FlattenOne
    <2> QED  BY <2>1, <2>2, <2>3
<1>2. CASE q # <<>>
    <2> DEFINE n == Len(q)
               r == Append(q, e)
    <2>1. n \in Nat \ {0} /\ r \in Seq(Seq(T)) /\ r # <<>> /\ Len(r) = n + 1 /\ r[n + 1] = e
          /\ \A i \in 1..n : r[i] = q[i]
        BY <1>2
    <2>2. PICK f : FlattenOf(f, q) /\ FlattenSeq(q) = f[n]
        BY <1>2, FlattenIs
    <2> HIDE DEF r
    <2>3. PICK g : FlattenOf(g, r) /\ FlattenSeq(r) = g[n + 1]
        BY <2>1, FlattenIs
    <2> DEFINE S == {i \in Nat : i + 1 \in 1..n => g[i + 1] = f[i + 1] /\ f[i + 1] \in Seq(T)}
    <2>4. 0 \in S
        <3>1. f[1] = q[1] /\ g[1] = r[1] /\ q[1] \in Seq(T)
            BY <2>1, <2>2, <2>3 DEF FlattenOf
        <3> QED  BY <3>1, <2>1
    <2>5. ASSUME NEW i \in S PROVE i + 1 \in S
        <3> SUFFICES ASSUME i + 2 \in 1..n PROVE g[i + 2] = f[i + 2] /\ f[i + 2] \in Seq(T)
            BY <2>1
        <3>1. g[i + 1] = f[i + 1] /\ f[i + 1] \in Seq(T)
            BY <2>1
        <3>2. f[i + 2] = f[i + 1] \o q[i + 2] /\ g[i + 2] = g[i + 1] \o r[i + 2]
            <4> DEFINE k == i + 2
            <4>1. k \in 1..n /\ k \in 1..Len(r) /\ k # 1 /\ k - 1 = i + 1
                BY <2>1
            <4> HIDE DEF k
            <4>2. f[k] = f[k - 1] \o q[k] /\ g[k] = g[k - 1] \o r[k]
                BY <2>2, <2>3, <4>1 DEF FlattenOf
            <4> QED  BY <4>1, <4>2 DEF k
        <3>3. r[i + 2] = q[i + 2] /\ q[i + 2] \in Seq(T)
            BY <2>1
        <3> QED  BY <3>1, <3>2, <3>3
    <2>6. n - 1 \in S
        <3>1. S \in SUBSET Nat /\ n - 1 \in Nat
            BY <2>1
        <3> HIDE DEF S
        <3> QED  BY <2>4, <2>5, <3>1, NaturalsOf
    <2>7. g[n] = f[n] /\ f[n] \in Seq(T)
        BY <2>1, <2>6
    <2>8. g[n + 1] = g[n] \o r[n + 1]
        <3> DEFINE k == n + 1
        <3>1. k \in 1..Len(r) /\ k # 1 /\ k - 1 = n
            BY <2>1
        <3> HIDE DEF k
        <3>2. g[k] = g[k - 1] \o r[k]
            BY <2>3, <3>1 DEF FlattenOf
        <3> QED  BY <3>1, <3>2 DEF k
    <2> QED  BY <2>1, <2>2, <2>3, <2>7, <2>8 DEF r
<1> QED  BY <1>1, <1>2

-----------------------------------------------------------------------------
(* The order of names.  Python compares the bytes of UTF-16, Go the units of *)
(* the first character that differs.                                         *)

CodePoints == {c \in Nat : c < 1114112 /\ ~(55296 <= c /\ c <= 57343)}

\* The bytes of one character.
PairBytes(w) == <<w \div 256, w % 256>>
CharBytes(c) == FlattenSeq([j \in DOMAIN Utf16(c) |-> PairBytes(Utf16(c)[j])])

\* One sequence is less than another at place i.
LessAt(a, b, i) ==
    i \in 1..Len(a) /\ i \in 1..Len(b) /\ a[i] < b[i] /\ \A j \in 1..(i - 1) : a[j] = b[j]

High(c) == 55296 + ((c - 65536) \div 1024)
Low(c)  == 56320 + ((c - 65536) % 1024)

\* A character is one unit, or a high and a low surrogate.
IsPairOf(c, h, l) ==
    /\ h \in Nat /\ l \in Nat /\ 55296 <= h /\ h < 56320 /\ 56320 <= l /\ l < 57344
    /\ c = 65536 + (h - 55296) * 1024 + (l - 56320)

LEMMA UnitsAre ==
    ASSUME NEW c \in CodePoints
    PROVE  /\ c \in Nat
           /\ c < 65536 => Utf16(c) = <<c>>
           /\ c >= 65536 => Utf16(c) = <<High(c), Low(c)>> /\ IsPairOf(c, High(c), Low(c))
  <1>1. c \in Nat /\ c < 1114112  BY SMT DEF CodePoints
  <1>2. c < 65536 => Utf16(c) = <<c>>  BY <1>1, SMT DEF Utf16
  <1>3. ASSUME c >= 65536 PROVE Utf16(c) = <<High(c), Low(c)>> /\ IsPairOf(c, High(c), Low(c))
    <2> DEFINE e == c - 65536
               h == e \div 1024
               l == e % 1024
    <2>1. e \in Nat /\ e < 1024 * 1024 /\ c = 65536 + e  BY <1>1, <1>3, SMT
    <2>2. Utf16(c) = <<High(c), Low(c)>>  BY <1>1, <1>3, SMT DEF Utf16, Surrogates, High, Low
    <2>3. High(c) = 55296 + h /\ Low(c) = 56320 + l  BY SMT DEF High, Low
    <2> HIDE DEF e
    <2>4. h \in Nat /\ l \in Nat /\ h < 1024 /\ l < 1024 /\ e = h * 1024 + l  BY <2>1, SMT
    <2> HIDE DEF h, l
    <2>5. IsPairOf(c, 55296 + h, 56320 + l)  BY <2>1, <2>4, SMT DEF IsPairOf
    <2>6. QED  BY <2>2, <2>3, <2>5, SMT
  <1>4. QED  BY <1>1, <1>2, <1>3, SMT

\* Sequences with the same elements are the same.
LEMMA SameElements ==
    ASSUME NEW T, NEW a \in Seq(T), NEW b \in Seq(T), Len(a) = Len(b),
           \A i \in 1..Len(a) : a[i] = b[i]
    PROVE  a = b
    OBVIOUS

LEMMA TwoElements ==
    ASSUME NEW T, NEW x \in T, NEW y \in T
    PROVE  Append(<<x>>, y) = <<x, y>>
  <1> DEFINE a == Append(<<x>>, y)
             b == <<x, y>>
  <1>1. /\ a \in Seq(T) /\ Len(a) = 2 /\ a[1] = x /\ a[2] = y
        /\ b \in Seq(T) /\ Len(b) = 2 /\ b[1] = x /\ b[2] = y
    OBVIOUS
  <1> HIDE DEF a, b
  <1>2. a = b  BY <1>1, SameElements
  <1>3. QED  BY <1>2 DEF a, b

LEMMA TwoAndTwo ==
    ASSUME NEW x \in Nat, NEW y \in Nat, NEW z \in Nat, NEW w \in Nat
    PROVE  <<x, y>> \o <<z, w>> = <<x, y, z, w>>
  <1> DEFINE a == <<x, y>> \o <<z, w>>
             b == <<x, y, z, w>>
  <1>1. a \in Seq(Nat) /\ Len(a) = 4 /\ a[1] = x /\ a[2] = y  OBVIOUS
  <1>2. a[3] = z /\ a[4] = w  OBVIOUS
  <1>3. b \in Seq(Nat) /\ Len(b) = 4 /\ b[1] = x /\ b[2] = y /\ b[3] = z /\ b[4] = w  OBVIOUS
  <1> HIDE DEF a, b
  <1>4. a = b
    <2>1. \A i \in 1..Len(a) : a[i] = b[i]  BY <1>1, <1>2, <1>3
    <2>2. Len(a) = Len(b)  BY <1>1, <1>3
    <2>3. QED  BY <1>1, <1>3, <2>1, <2>2, SameElements
  <1>5. QED  BY <1>4 DEF a, b

LEMMA BytesOfOne ==
    ASSUME NEW w \in Nat
    PROVE  FlattenSeq([j \in DOMAIN <<w>> |-> PairBytes(<<w>>[j])]) = <<w \div 256, w % 256>>
  <1> DEFINE e == PairBytes(w)
  <1>1. e \in Seq(Nat) /\ e = <<w \div 256, w % 256>>  BY DEF PairBytes
  <1>2. [j \in DOMAIN <<w>> |-> PairBytes(<<w>>[j])] = <<e>>  OBVIOUS
  <1> HIDE DEF e
  <1>3. FlattenSeq(<<e>>) = e  BY <1>1, FlattenOne
  <1>4. QED  BY <1>1, <1>2, <1>3

LEMMA BytesOfTwo ==
    ASSUME NEW w \in Nat, NEW x \in Nat
    PROVE  FlattenSeq([j \in DOMAIN <<w, x>> |-> PairBytes(<<w, x>>[j])])
             = <<w \div 256, w % 256, x \div 256, x % 256>>
  <1> DEFINE d == PairBytes(w)
             e == PairBytes(x)
  <1>1. d \in Seq(Nat) /\ e \in Seq(Nat) /\ d = <<w \div 256, w % 256>> /\ e = <<x \div 256, x % 256>>
    BY DEF PairBytes
  <1>2. [j \in DOMAIN <<w, x>> |-> PairBytes(<<w, x>>[j])] = <<d, e>>  OBVIOUS
  <1> HIDE DEF d, e
  <1>3. FlattenSeq(<<d>>) = d  BY <1>1, FlattenOne
  <1>4. <<d>> \in Seq(Seq(Nat)) /\ Append(<<d>>, e) = <<d, e>>
    <2>1. d \in Seq(Nat) /\ e \in Seq(Nat)  BY <1>1
    <2>2. QED  BY <2>1, TwoElements
  <1>5. FlattenSeq(Append(<<d>>, e)) = FlattenSeq(<<d>>) \o e
    <2> DEFINE q == <<d>>
    <2>1. q \in Seq(Seq(Nat)) /\ e \in Seq(Nat)  BY <1>1, <1>4
    <2> HIDE DEF q
    <2>2. FlattenSeq(Append(q, e)) = FlattenSeq(q) \o e  BY <2>1, FlattenAppend
    <2>3. QED  BY <2>2 DEF q
  <1>6. d \o e = <<w \div 256, w % 256, x \div 256, x % 256>>
    <2> DEFINE a == w \div 256
               b == w % 256
               f == x \div 256
               g == x % 256
    <2>1. a \in Nat /\ b \in Nat /\ f \in Nat /\ g \in Nat  OBVIOUS
    <2>2. d = <<a, b>> /\ e = <<f, g>>  BY <1>1
    <2> HIDE DEF a, b, f, g
    <2>3. <<a, b>> \o <<f, g>> = <<a, b, f, g>>  BY <2>1, TwoAndTwo
    <2>4. QED  BY <2>2, <2>3 DEF a, b, f, g
  <1>7. QED  BY <1>2, <1>3, <1>4, <1>5, <1>6

\* Two bytes are in the order of the unit they make up.
LEMMA ByteOrder ==
    ASSUME NEW w \in Nat, NEW x \in Nat
    PROVE  /\ w \div 256 \in Nat /\ w % 256 \in Nat
           /\ w < x => w \div 256 < x \div 256 \/ (w \div 256 = x \div 256 /\ w % 256 < x % 256)
  <1>1. \A n \in Nat : n \div 256 \in Nat /\ n % 256 \in 0..255 /\ n = 256 * (n \div 256) + (n % 256)
    OBVIOUS
  <1> DEFINE a == w \div 256
             b == w % 256
             c == x \div 256
             d == x % 256
  <1>2. a \in Nat /\ b \in 0..255 /\ c \in Nat /\ d \in 0..255 /\ w = 256 * a + b /\ x = 256 * c + d
    BY <1>1
  <1> HIDE DEF a, b, c, d
  <1>3. w < x => a < c \/ (a = c /\ b < d)  BY <1>2
  <1>4. QED  BY <1>2, <1>3 DEF a, b, c, d

LEMMA BytesAre ==
    ASSUME NEW c \in CodePoints
    PROVE  /\ CharBytes(c) \in Seq(Nat)
           /\ c < 65536 => CharBytes(c) = <<c \div 256, c % 256>>
           /\ c >= 65536 => CharBytes(c) = <<High(c) \div 256, High(c) % 256, Low(c) \div 256, Low(c) % 256>>
  <1>1. c \in Nat  BY UnitsAre
  <1>2. CASE c < 65536
    <2>1. Utf16(c) = <<c>>  BY <1>2, UnitsAre, SMT
    <2>2. CharBytes(c) = <<c \div 256, c % 256>>  BY <1>1, <2>1, BytesOfOne DEF CharBytes
    <2>3. c \div 256 \in Nat /\ c % 256 \in Nat  BY <1>1, ByteOrder
    <2>4. <<c \div 256, c % 256>> \in Seq(Nat)  BY <2>3
    <2>5. QED  BY <1>1, <1>2, <2>2, <2>4, SMT
  <1>3. CASE c >= 65536
    <2> DEFINE h == High(c)
               l == Low(c)
    <2>1. Utf16(c) = <<h, l>> /\ h \in Nat /\ l \in Nat  BY <1>3, UnitsAre, SMT DEF IsPairOf
    <2> HIDE DEF h, l
    <2>2. CharBytes(c) = <<h \div 256, h % 256, l \div 256, l % 256>>
      <3>1. CharBytes(c) = FlattenSeq([j \in DOMAIN <<h, l>> |-> PairBytes(<<h, l>>[j])])
        BY <2>1, Zenon DEF CharBytes
      <3>2. QED  BY <2>1, <3>1, BytesOfTwo
    <2>3. h \div 256 \in Nat /\ h % 256 \in Nat /\ l \div 256 \in Nat /\ l % 256 \in Nat
      BY <2>1, ByteOrder
    <2>4. <<h \div 256, h % 256, l \div 256, l % 256>> \in Seq(Nat)  BY <2>3
    <2>5. ~(c < 65536)  BY <1>1, <1>3, SMT
    <2>6. QED  BY <2>2, <2>4, <2>5, SMT DEF h, l
  <1>4. QED  BY <1>1, <1>2, <1>3, SMT

\* The order of two characters, by their units.
UnitsLess(c, d) ==
    /\ c < 65536 /\ d < 65536 => c < d
    /\ c < 65536 /\ d >= 65536 => c < High(d)
    /\ c >= 65536 /\ d < 65536 => High(c) < d
    /\ c >= 65536 /\ d >= 65536 =>
          \/ High(c) < High(d)
          \/ High(c) = High(d) /\ Low(c) < Low(d)

LEMMA LessOneOne ==
    ASSUME NEW w \in Nat, NEW x \in Nat
    PROVE  LexLess(<<w>>, <<x>>) <=> w < x
  BY DEF LexLess

LEMMA LessOneTwo ==
    ASSUME NEW w \in Nat, NEW x \in Nat, NEW y \in Nat, w # x
    PROVE  /\ LexLess(<<w>>, <<x, y>>) <=> w < x
           /\ LexLess(<<x, y>>, <<w>>) <=> x < w
  BY DEF LexLess

LEMMA LessTwoTwo ==
    ASSUME NEW v \in Nat, NEW w \in Nat, NEW x \in Nat, NEW y \in Nat
    PROVE  LexLess(<<v, w>>, <<x, y>>) <=> (v < x \/ (v = x /\ w < y))
  <1> DEFINE a == <<v, w>>
             b == <<x, y>>
  <1>1. Len(a) = 2 /\ Len(b) = 2 /\ a[1] = v /\ a[2] = w /\ b[1] = x /\ b[2] = y  OBVIOUS
  <1> HIDE DEF a, b
  <1>2. LexLess(a, b) <=> \E i \in 1..2 : (\A j \in 1..(i - 1) : a[j] = b[j]) /\ a[i] < b[i]
    BY <1>1 DEF LexLess
  <1>3. v < x => LexLess(a, b)
    <2>1. ASSUME v < x PROVE 1 \in 1..2 /\ (\A j \in 1..(1 - 1) : a[j] = b[j]) /\ a[1] < b[1]
      BY <1>1, <2>1
    <2>2. QED  BY <1>2, <2>1
  <1>4. v = x /\ w < y => LexLess(a, b)
    <2>1. ASSUME v = x, w < y PROVE 2 \in 1..2 /\ (\A j \in 1..(2 - 1) : a[j] = b[j]) /\ a[2] < b[2]
      BY <1>1, <2>1
    <2>2. QED  BY <1>2, <2>1
  <1>5. ASSUME LexLess(a, b) PROVE v < x \/ (v = x /\ w < y)
    <2>1. PICK i \in 1..2 : (\A j \in 1..(i - 1) : a[j] = b[j]) /\ a[i] < b[i]  BY <1>2, <1>5
    <2>2. CASE i = 1  BY <1>1, <2>1, <2>2
    <2>3. CASE i = 2
      <3>1. 1 \in 1..(i - 1)  BY <2>3
      <3>2. a[1] = b[1]  BY <2>1, <3>1
      <3>3. QED  BY <1>1, <2>1, <2>3, <3>2
    <2>4. QED  BY <2>1, <2>2, <2>3
  <1>6. QED  BY <1>3, <1>4, <1>5 DEF a, b

\* A character of one unit is none of the units of a pair.
LEMMA NotAUnit ==
    ASSUME NEW c \in CodePoints, NEW d \in CodePoints, c < 65536, d >= 65536
    PROVE  c \in Nat /\ High(d) \in Nat /\ Low(d) \in Nat /\ c # High(d)
  <1>1. c \in Nat /\ ~(55296 <= c /\ c <= 57343)  BY SMT DEF CodePoints
  <1>2. IsPairOf(d, High(d), Low(d))  BY UnitsAre, SMT
  <1>3. High(d) \in Nat /\ Low(d) \in Nat /\ 55296 <= High(d) /\ High(d) < 56320  BY <1>2, SMT DEF IsPairOf
  <1>4. QED  BY <1>1, <1>3, SMT

LEMMA UnitOrder ==
    ASSUME NEW c \in CodePoints, NEW d \in CodePoints
    PROVE  LexLess(Utf16(c), Utf16(d)) <=> UnitsLess(c, d)
  <1>1. c \in Nat /\ d \in Nat  BY UnitsAre
  <1>2. CASE c < 65536 /\ d < 65536
    <2>1. Utf16(c) = <<c>> /\ Utf16(d) = <<d>>  BY <1>2, UnitsAre, SMT
    <2>2. LexLess(<<c>>, <<d>>) <=> c < d  BY <1>1, LessOneOne
    <2>3. UnitsLess(c, d) <=> c < d  BY <1>1, <1>2, SMT DEF UnitsLess
    <2>4. QED  BY <2>1, <2>2, <2>3, SMT
  <1>3. CASE c < 65536 /\ d >= 65536
    <2>1. Utf16(c) = <<c>> /\ Utf16(d) = <<High(d), Low(d)>>  BY <1>3, UnitsAre, SMT
    <2>2. LexLess(<<c>>, <<High(d), Low(d)>>) <=> c < High(d)  BY <1>3, NotAUnit, LessOneTwo, SMT
    <2>3. UnitsLess(c, d) <=> c < High(d)  BY <1>1, <1>3, SMT DEF UnitsLess
    <2>4. QED  BY <2>1, <2>2, <2>3, SMT
  <1>4. CASE c >= 65536 /\ d < 65536
    <2>1. Utf16(c) = <<High(c), Low(c)>> /\ Utf16(d) = <<d>>  BY <1>4, UnitsAre, SMT
    <2>2. LexLess(<<High(c), Low(c)>>, <<d>>) <=> High(c) < d  BY <1>4, NotAUnit, LessOneTwo, SMT
    <2>3. UnitsLess(c, d) <=> High(c) < d  BY <1>1, <1>4, SMT DEF UnitsLess
    <2>4. QED  BY <2>1, <2>2, <2>3, SMT
  <1>5. CASE c >= 65536 /\ d >= 65536
    <2>1. Utf16(c) = <<High(c), Low(c)>> /\ Utf16(d) = <<High(d), Low(d)>>  BY <1>5, UnitsAre, SMT
    <2>2. IsPairOf(c, High(c), Low(c)) /\ IsPairOf(d, High(d), Low(d))  BY <1>5, UnitsAre, SMT
    <2>3. High(c) \in Nat /\ Low(c) \in Nat /\ High(d) \in Nat /\ Low(d) \in Nat  BY <2>2, SMT DEF IsPairOf
    <2>4. LexLess(<<High(c), Low(c)>>, <<High(d), Low(d)>>)
            <=> (High(c) < High(d) \/ (High(c) = High(d) /\ Low(c) < Low(d)))
      BY <2>3, LessTwoTwo, SMT
    <2>5. UnitsLess(c, d) <=> (High(c) < High(d) \/ (High(c) = High(d) /\ Low(c) < Low(d)))
      BY <1>1, <1>5, SMT DEF UnitsLess
    <2>6. QED  BY <2>1, <2>4, <2>5, SMT
  <1>6. QED  BY <1>1, <1>2, <1>3, <1>4, <1>5, SMT

\* Of two characters one is less.
LEMMA UnitsDiffer ==
    ASSUME NEW c \in CodePoints, NEW d \in CodePoints, c # d
    PROVE  UnitsLess(c, d) \/ UnitsLess(d, c)
  <1>1. c \in Nat /\ d \in Nat  BY UnitsAre
  <1>2. CASE c < 65536 /\ d < 65536  BY <1>1, <1>2, SMT DEF UnitsLess
  <1>3. CASE c < 65536 /\ d >= 65536
    <2>1. High(d) \in Nat /\ c # High(d)  BY <1>3, NotAUnit, SMT
    <2>2. QED  BY <1>1, <1>3, <2>1, SMT DEF UnitsLess
  <1>4. CASE c >= 65536 /\ d < 65536
    <2>1. High(c) \in Nat /\ d # High(c)  BY <1>4, NotAUnit, SMT
    <2>2. QED  BY <1>1, <1>4, <2>1, SMT DEF UnitsLess
  <1>5. CASE c >= 65536 /\ d >= 65536
    <2> DEFINE h == High(c)
               l == Low(c)
               i == High(d)
               m == Low(d)
    <2>1. IsPairOf(c, h, l) /\ IsPairOf(d, i, m)  BY <1>5, UnitsAre, SMT
    <2>2. UnitsLess(c, d) <=> (h < i \/ (h = i /\ l < m))  BY <1>1, <1>5, SMT DEF UnitsLess
    <2>3. UnitsLess(d, c) <=> (i < h \/ (i = h /\ m < l))  BY <1>1, <1>5, SMT DEF UnitsLess
    <2> HIDE DEF h, l, i, m
    <2>4. h # i \/ l # m  BY <1>1, <2>1, SMT DEF IsPairOf
    <2>5. h \in Nat /\ l \in Nat /\ i \in Nat /\ m \in Nat  BY <2>1, SMT DEF IsPairOf
    <2>6. QED  BY <2>2, <2>3, <2>4, <2>5, SMT
  <1>6. QED  BY <1>1, <1>2, <1>3, <1>4, <1>5, SMT

\* Bytes that begin with those of unit w are less, in one of the first two
\* places, than bytes that begin with those of a larger unit.
LEMMA FirstUnit ==
    ASSUME NEW a \in Seq(Nat), NEW b \in Seq(Nat), NEW w \in Nat, NEW x \in Nat, w < x,
           Len(a) >= 2, Len(b) >= 2,
           a[1] = w \div 256, a[2] = w % 256, b[1] = x \div 256, b[2] = x % 256
    PROVE  \E k \in Nat : LessAt(a, b, k)
  <1>1. a[1] < b[1] \/ (a[1] = b[1] /\ a[2] < b[2])  BY ByteOrder
  <1>2. CASE a[1] < b[1]
    <2>1. LessAt(a, b, 1)  BY <1>2 DEF LessAt
    <2>2. QED  BY <2>1
  <1>3. CASE a[1] = b[1] /\ a[2] < b[2]
    <2>1. \A j \in 1..(2 - 1) : a[j] = b[j]  BY <1>3
    <2>2. LessAt(a, b, 2)  BY <1>3, <2>1 DEF LessAt
    <2>3. QED  BY <2>2
  <1>4. QED  BY <1>1, <1>2, <1>3

LEMMA SecondUnit ==
    ASSUME NEW a \in Seq(Nat), NEW b \in Seq(Nat), NEW w \in Nat, NEW x \in Nat, w < x,
           Len(a) = 4, Len(b) = 4, a[1] = b[1], a[2] = b[2],
           a[3] = w \div 256, a[4] = w % 256, b[3] = x \div 256, b[4] = x % 256
    PROVE  \E k \in Nat : LessAt(a, b, k)
  <1>1. a[3] < b[3] \/ (a[3] = b[3] /\ a[4] < b[4])  BY ByteOrder
  <1>2. CASE a[3] < b[3]
    <2>1. \A j \in 1..(3 - 1) : a[j] = b[j]  OBVIOUS
    <2>2. LessAt(a, b, 3)  BY <1>2, <2>1 DEF LessAt
    <2>3. QED  BY <2>2
  <1>3. CASE a[3] = b[3] /\ a[4] < b[4]
    <2>1. \A j \in 1..(4 - 1) : a[j] = b[j]  BY <1>3
    <2>2. LessAt(a, b, 4)  BY <1>3, <2>1 DEF LessAt
    <2>3. QED  BY <2>2
  <1>4. QED  BY <1>1, <1>2, <1>3

\* The bytes of a character of units <<w>> or <<w, x>>.
BytesOf(a, w) == a \in Seq(Nat) /\ w \in Nat /\ Len(a) = 2 /\ a[1] = w \div 256 /\ a[2] = w % 256
BytesOfPair(a, w, x) ==
    /\ a \in Seq(Nat) /\ w \in Nat /\ x \in Nat /\ Len(a) = 4 /\ a[1] = w \div 256 /\ a[2] = w % 256
    /\ a[3] = x \div 256 /\ a[4] = x % 256

LEMMA BytesForm ==
    ASSUME NEW c \in CodePoints
    PROVE  /\ c < 65536 => BytesOf(CharBytes(c), c)
           /\ c >= 65536 => BytesOfPair(CharBytes(c), High(c), Low(c))
  <1> DEFINE a == CharBytes(c)
             h == High(c)
             l == Low(c)
  <1>1. c \in Nat /\ a \in Seq(Nat)  BY UnitsAre, BytesAre
  <1>2. c < 65536 => a = <<c \div 256, c % 256>>  BY BytesAre
  <1>3. c >= 65536 => a = <<h \div 256, h % 256, l \div 256, l % 256>> /\ h \in Nat /\ l \in Nat
    <2>1. c >= 65536 => h \in Nat /\ l \in Nat  BY UnitsAre, SMT DEF IsPairOf
    <2>2. QED  BY <2>1, BytesAre, SMT
  <1> HIDE DEF a, h, l
  <1>4. ASSUME c < 65536 PROVE BytesOf(a, c)  BY <1>1, <1>2, <1>4, SMT DEF BytesOf
  <1>5. ASSUME c >= 65536 PROVE BytesOfPair(a, h, l)
    <2>1. a = <<h \div 256, h % 256, l \div 256, l % 256>> /\ h \in Nat /\ l \in Nat  BY <1>3, <1>5, SMT
    <2>2. QED  BY <1>1, <2>1, SMT DEF BytesOfPair
  <1>6. QED  BY <1>4, <1>5, SMT DEF a, h, l

LEMMA CharOrder ==
    ASSUME NEW c \in CodePoints, NEW d \in CodePoints, UnitsLess(c, d)
    PROVE  \E k \in Nat : LessAt(CharBytes(c), CharBytes(d), k)
  <1> DEFINE a == CharBytes(c)
             b == CharBytes(d)
             h == High(c)
             l == Low(c)
             i == High(d)
             m == Low(d)
  <1>1. c \in Nat /\ d \in Nat  BY UnitsAre
  <1>2. /\ c < 65536 => BytesOf(a, c)
        /\ c >= 65536 => BytesOfPair(a, h, l)
        /\ d < 65536 => BytesOf(b, d)
        /\ d >= 65536 => BytesOfPair(b, i, m)
    BY BytesForm
  <1>3. /\ c < 65536 /\ d < 65536 => c < d
        /\ c < 65536 /\ d >= 65536 => c < i
        /\ c >= 65536 /\ d < 65536 => h < d
        /\ c >= 65536 /\ d >= 65536 => h < i \/ (h = i /\ l < m)
    BY <1>1, SMT DEF UnitsLess
  <1> HIDE DEF a, b, h, l, i, m
  <1>4. \A w, x : BytesOf(a, w) /\ BytesOf(b, x) /\ w < x => \E k \in Nat : LessAt(a, b, k)
    <2> SUFFICES ASSUME NEW w, NEW x, BytesOf(a, w), BytesOf(b, x), w < x PROVE \E k \in Nat : LessAt(a, b, k)
      OBVIOUS
    <2>1. /\ a \in Seq(Nat) /\ b \in Seq(Nat) /\ w \in Nat /\ x \in Nat /\ Len(a) >= 2 /\ Len(b) >= 2
          /\ a[1] = w \div 256 /\ a[2] = w % 256 /\ b[1] = x \div 256 /\ b[2] = x % 256
      BY DEF BytesOf
    <2>2. QED  BY <2>1, FirstUnit
  <1>5. \A w, x, y : BytesOf(a, w) /\ BytesOfPair(b, x, y) /\ w < x => \E k \in Nat : LessAt(a, b, k)
    <2> SUFFICES ASSUME NEW w, NEW x, NEW y, BytesOf(a, w), BytesOfPair(b, x, y), w < x PROVE \E k \in Nat : LessAt(a, b, k)
      OBVIOUS
    <2>1. /\ a \in Seq(Nat) /\ b \in Seq(Nat) /\ w \in Nat /\ x \in Nat /\ Len(a) >= 2 /\ Len(b) >= 2
          /\ a[1] = w \div 256 /\ a[2] = w % 256 /\ b[1] = x \div 256 /\ b[2] = x % 256
      BY DEF BytesOf, BytesOfPair
    <2>2. QED  BY <2>1, FirstUnit
  <1>6. \A w, x, y : BytesOfPair(a, w, y) /\ BytesOf(b, x) /\ w < x => \E k \in Nat : LessAt(a, b, k)
    <2> SUFFICES ASSUME NEW w, NEW x, NEW y, BytesOfPair(a, w, y), BytesOf(b, x), w < x PROVE \E k \in Nat : LessAt(a, b, k)
      OBVIOUS
    <2>1. /\ a \in Seq(Nat) /\ b \in Seq(Nat) /\ w \in Nat /\ x \in Nat /\ Len(a) >= 2 /\ Len(b) >= 2
          /\ a[1] = w \div 256 /\ a[2] = w % 256 /\ b[1] = x \div 256 /\ b[2] = x % 256
      BY DEF BytesOf, BytesOfPair
    <2>2. QED  BY <2>1, FirstUnit
  <1>7. \A w, x, y, z : BytesOfPair(a, w, y) /\ BytesOfPair(b, x, z) /\ w < x => \E k \in Nat : LessAt(a, b, k)
    <2> SUFFICES ASSUME NEW w, NEW x, NEW y, NEW z, BytesOfPair(a, w, y), BytesOfPair(b, x, z), w < x PROVE \E k \in Nat : LessAt(a, b, k)
      OBVIOUS
    <2>1. /\ a \in Seq(Nat) /\ b \in Seq(Nat) /\ w \in Nat /\ x \in Nat /\ Len(a) >= 2 /\ Len(b) >= 2
          /\ a[1] = w \div 256 /\ a[2] = w % 256 /\ b[1] = x \div 256 /\ b[2] = x % 256
      BY DEF BytesOfPair
    <2>2. QED  BY <2>1, FirstUnit
  <1>8. \A w, y, z : BytesOfPair(a, w, y) /\ BytesOfPair(b, w, z) /\ y < z => \E k \in Nat : LessAt(a, b, k)
    BY SecondUnit DEF BytesOfPair
  <1>9. \E k \in Nat : LessAt(a, b, k)
    <2>1. CASE c < 65536 /\ d < 65536  BY <1>2, <1>3, <1>4, <2>1, SMT
    <2>2. CASE c < 65536 /\ d >= 65536  BY <1>2, <1>3, <1>5, <2>2, SMT
    <2>3. CASE c >= 65536 /\ d < 65536  BY <1>2, <1>3, <1>6, <2>3, SMT
    <2>4. CASE c >= 65536 /\ d >= 65536  BY <1>2, <1>3, <1>7, <1>8, <2>4, SMT
    <2>5. QED  BY <1>1, <2>1, <2>2, <2>3, <2>4, SMT
  <1>10. QED  BY <1>9 DEF a, b

\* The bytes of a name with one character more.
LEMMA KeyAppend ==
    ASSUME NEW s \in Seq(CodePoints), NEW c \in CodePoints
    PROVE  /\ Utf16be(s) \in Seq(Nat) /\ CharBytes(c) \in Seq(Nat)
           /\ Utf16be(Append(s, c)) = Utf16be(s) \o CharBytes(c)
  <1> DEFINE n == Len(s)
             d == Append(s, c)
             q == [i \in DOMAIN s |-> CharBytes(s[i])]
             r == [i \in DOMAIN d |-> CharBytes(d[i])]
             T == Seq(Nat)
  <1>1. /\ n \in Nat /\ DOMAIN s = 1..n /\ DOMAIN d = 1..(n + 1) /\ d[n + 1] = c
        /\ \A i \in 1..n : d[i] = s[i] /\ s[i] \in CodePoints
    OBVIOUS
  <1>2. CharBytes(c) \in T /\ \A i \in 1..n : CharBytes(s[i]) \in T
    <2>1. \A x \in CodePoints : CharBytes(x) \in T  BY BytesAre
    <2>2. QED  BY <1>1, <2>1
  <1>3. Utf16be(s) = FlattenSeq(q) /\ Utf16be(d) = FlattenSeq(r)
    BY DEF Utf16be, CharBytes, PairBytes
  <1>4. q \in Seq(T) /\ Len(q) = n /\ \A i \in 1..n : q[i] = CharBytes(s[i])
    <2> HIDE DEF T
    <2>1. q = [i \in 1..n |-> CharBytes(s[i])]  BY <1>1
    <2> HIDE DEF q, n
    <2>2. QED  BY <1>1, <1>2, <2>1
  <1>5. r = Append(q, CharBytes(c))
    <2> DEFINE a == Append(q, CharBytes(c))
    <2>1. r = [i \in 1..(n + 1) |-> CharBytes(d[i])]  BY <1>1
    <2> HIDE DEF T, q, d, n
    <2>2. /\ a \in Seq(T) /\ Len(a) = n + 1 /\ a[n + 1] = CharBytes(c)
          /\ \A i \in 1..n : a[i] = CharBytes(s[i])
      BY <1>1, <1>2, <1>4
    <2>3. \A i \in 1..(n + 1) : CharBytes(d[i]) \in T /\ a[i] = CharBytes(d[i])
      BY <1>1, <1>2, <2>2
    <2> HIDE DEF r, a
    <2>4. r \in Seq(T) /\ Len(r) = n + 1 /\ \A i \in 1..(n + 1) : r[i] = CharBytes(d[i])
      BY <1>1, <2>1, <2>3
    <2>5. r = a  BY <2>2, <2>3, <2>4, SameElements
    <2>6. QED  BY <2>5 DEF a
  <1> HIDE DEF q, r, d
  <1>6. FlattenSeq(Append(q, CharBytes(c))) = FlattenSeq(q) \o CharBytes(c) /\ FlattenSeq(q) \in Seq(Nat)
    BY <1>2, <1>4, FlattenAppend
  <1>7. Utf16be(d) = Utf16be(s) \o CharBytes(c)  BY <1>3, <1>5, <1>6
  <1>8. QED  BY <1>2, <1>3, <1>6, <1>7 DEF d

Begins(u, v) == u \in Seq(Nat) /\ v \in Seq(Nat) /\ Len(u) <= Len(v) /\ \A i \in 1..Len(u) : u[i] = v[i]

LEMMA BeginsWith ==
    ASSUME NEW u \in Seq(Nat), NEW v \in Seq(Nat)
    PROVE  Begins(u, u) /\ Begins(u, u \o v)
  BY DEF Begins

LEMMA BeginsFurther ==
    ASSUME NEW u, NEW v, NEW w, Begins(u, v), Begins(v, w)
    PROVE  Begins(u, w)
  <1>1. /\ Len(u) \in Nat /\ Len(v) \in Nat /\ Len(w) \in Nat /\ Len(u) <= Len(v) /\ Len(v) <= Len(w)
    BY DEF Begins
  <1>2. \A i \in 1..Len(u) : i \in 1..Len(v)  BY <1>1
  <1>3. \A i \in 1..Len(u) : u[i] = w[i]  BY <1>2 DEF Begins
  <1>4. QED  BY <1>1, <1>3 DEF Begins

\* The bytes of the first n characters of a name.
KeyTo(s, n) == Utf16be(SubSeq(s, 1, n))

LEMMA KeyStep ==
    ASSUME NEW s \in Seq(CodePoints), NEW n \in Nat, n < Len(s)
    PROVE  /\ KeyTo(s, n) \in Seq(Nat) /\ s[n + 1] \in CodePoints /\ CharBytes(s[n + 1]) \in Seq(Nat)
           /\ KeyTo(s, n + 1) = KeyTo(s, n) \o CharBytes(s[n + 1])
  <1> DEFINE p == SubSeq(s, 1, n)
             q == SubSeq(s, 1, n + 1)
             c == s[n + 1]
  <1>1. c \in CodePoints /\ n + 1 \in 1..Len(s)  OBVIOUS
  <1>2. p \in Seq(CodePoints) /\ Len(p) = n /\ \A i \in 1..n : p[i] = s[i]  OBVIOUS
  <1>3. q \in Seq(CodePoints) /\ Len(q) = n + 1 /\ \A i \in 1..(n + 1) : q[i] = s[i]  OBVIOUS
  <1> HIDE DEF p, q
  <1>4. q = Append(p, c)
    <2> DEFINE a == Append(p, c)
    <2>1. a \in Seq(CodePoints) /\ Len(a) = n + 1 /\ a[n + 1] = c /\ \A i \in 1..n : a[i] = p[i]
      BY <1>1, <1>2
    <2> HIDE DEF a
    <2>2. \A i \in 1..Len(q) : q[i] = a[i]  BY <1>2, <1>3, <2>1
    <2>3. q = a  BY <1>3, <2>1, <2>2, SameElements
    <2>4. QED  BY <2>3 DEF a
  <1> HIDE DEF c
  <1>5. /\ Utf16be(p) \in Seq(Nat) /\ CharBytes(c) \in Seq(Nat)
        /\ Utf16be(Append(p, c)) = Utf16be(p) \o CharBytes(c)
    BY <1>1, <1>2, KeyAppend
  <1>6. QED  BY <1>1, <1>4, <1>5 DEF KeyTo, p, q, c

LEMMA KeyNone == Utf16be(<<>>) = <<>>
  <1>1. [i \in DOMAIN <<>> |-> CharBytes(<<>>[i])] = <<>>  OBVIOUS
  <1>2. Utf16be(<<>>) = FlattenSeq([i \in DOMAIN <<>> |-> CharBytes(<<>>[i])])
    BY DEF Utf16be, CharBytes, PairBytes
  <1>3. QED  BY <1>1, <1>2, FlattenNone

LEMMA KeyType ==
    ASSUME NEW s \in Seq(CodePoints)
    PROVE  Utf16be(s) \in Seq(Nat)
  <1>1. 0 \in CodePoints  BY SMT DEF CodePoints
  <1>2. QED  BY <1>1, KeyAppend

\* What the bytes of a name begin with.
LEMMA KeyBegins ==
    ASSUME NEW s \in Seq(CodePoints), NEW n \in Nat, n <= Len(s)
    PROVE  Begins(KeyTo(s, n), Utf16be(s))
  <1> DEFINE S == {m \in Nat : n + m <= Len(s) => Begins(KeyTo(s, n), KeyTo(s, n + m))}
  <1>1. 0 \in S
    <2>1. SubSeq(s, 1, n) \in Seq(CodePoints)  OBVIOUS
    <2>2. KeyTo(s, n) \in Seq(Nat)  BY <2>1, KeyType DEF KeyTo
    <2>3. n + 0 = n  OBVIOUS
    <2>4. QED  BY <2>2, <2>3, BeginsWith
  <1>2. ASSUME NEW m \in S PROVE m + 1 \in S
    <2> SUFFICES ASSUME n + (m + 1) <= Len(s) PROVE Begins(KeyTo(s, n), KeyTo(s, n + (m + 1)))
      OBVIOUS
    <2> DEFINE k == n + m
    <2>1. k \in Nat /\ k < Len(s) /\ k + 1 = n + (m + 1) /\ k <= Len(s)  OBVIOUS
    <2>2. Begins(KeyTo(s, n), KeyTo(s, k))  BY <2>1
    <2> HIDE DEF k
    <2>3. /\ KeyTo(s, k) \in Seq(Nat) /\ CharBytes(s[k + 1]) \in Seq(Nat)
          /\ KeyTo(s, k + 1) = KeyTo(s, k) \o CharBytes(s[k + 1])
      BY <2>1, KeyStep
    <2>4. Begins(KeyTo(s, k), KeyTo(s, k + 1))  BY <2>3, BeginsWith
    <2>5. Begins(KeyTo(s, n), KeyTo(s, k + 1))  BY <2>2, <2>4, BeginsFurther
    <2>6. QED  BY <2>1, <2>5
  <1>3. S \in SUBSET Nat /\ Len(s) - n \in Nat /\ n + (Len(s) - n) = Len(s)  OBVIOUS
  <1>4. Len(s) - n \in S
    <2> HIDE DEF S
    <2>1. QED  BY <1>1, <1>2, <1>3, NaturalsOf
  <1>5. Begins(KeyTo(s, n), KeyTo(s, Len(s)))  BY <1>3, <1>4
  <1>6. SubSeq(s, 1, Len(s)) = s  OBVIOUS
  <1>7. QED  BY <1>5, <1>6 DEF KeyTo

\* Sequences that begin with the same bytes u and go on with a and b, the one
\* less than the other at some place, are in the same order.
LEMMA LessBehind ==
    ASSUME NEW u \in Seq(Nat), NEW a \in Seq(Nat), NEW b \in Seq(Nat), NEW k, LessAt(a, b, k),
           NEW v, NEW w, Begins(u \o a, v), Begins(u \o b, w)
    PROVE  LexLess(v, w)
  <1> DEFINE n == Len(u)
             x == u \o a
             y == u \o b
             i == n + k
  <1>1. n \in Nat /\ k \in 1..Len(a) /\ k \in 1..Len(b) /\ Len(a) \in Nat /\ Len(b) \in Nat  BY DEF LessAt
  <1>2. /\ Len(x) = n + Len(a) /\ Len(y) = n + Len(b)
        /\ \A j \in 1..n : x[j] = u[j] /\ y[j] = u[j]
        /\ \A j \in 1..Len(a) : x[n + j] = a[j]
        /\ \A j \in 1..Len(b) : y[n + j] = b[j]
    OBVIOUS
  <1>3. x[i] < y[i]  BY <1>1, <1>2 DEF LessAt
  <1>4. ASSUME NEW j \in 1..(i - 1) PROVE x[j] = y[j]
    <2>1. CASE j \in 1..n  BY <1>2, <2>1
    <2>2. CASE j \notin 1..n
      <3>1. j - n \in 1..(k - 1) /\ j - n \in 1..Len(a) /\ j - n \in 1..Len(b) /\ n + (j - n) = j
        BY <1>1, <2>2
      <3>2. a[j - n] = b[j - n]  BY <3>1 DEF LessAt
      <3>3. QED  BY <1>2, <3>1, <3>2
    <2>3. QED  BY <2>1, <2>2
  <1>5. /\ i \in Nat /\ 1 <= i /\ i <= Len(x) /\ i <= Len(y)
    BY <1>1, <1>2
  <1> HIDE DEF x, y, i
  <1>6. /\ Len(x) \in Nat /\ Len(y) \in Nat /\ Len(v) \in Nat /\ Len(w) \in Nat
        /\ Len(x) <= Len(v) /\ Len(y) <= Len(w)
        /\ \A j \in 1..Len(x) : x[j] = v[j]
        /\ \A j \in 1..Len(y) : y[j] = w[j]
    BY DEF Begins, x, y
  <1>7. i \in 1..Len(w) /\ i <= Len(v) + 1 /\ v[i] < w[i]
    <2>1. i \in 1..Len(x) /\ i \in 1..Len(y)  BY <1>5, <1>6
    <2>2. QED  BY <1>3, <1>6, <2>1
  <1>8. \A j \in 1..(i - 1) : v[j] = w[j]
    <2>1. \A j \in 1..(i - 1) : j \in 1..Len(x) /\ j \in 1..Len(y)  BY <1>5, <1>6
    <2>2. QED  BY <1>4, <1>6, <2>1
  <1>9. QED  BY <1>7, <1>8 DEF LexLess

\* A sequence is less than one it is the beginning of, when that goes on.
LEMMA LessLonger ==
    ASSUME NEW u \in Seq(Nat), NEW a \in Seq(Nat), Len(a) > 0, NEW w, Begins(u \o a, w)
    PROVE  LexLess(u, w)
  <1> DEFINE n == Len(u)
             x == u \o a
             i == n + 1
  <1>1. n \in Nat /\ Len(x) \in Nat /\ Len(x) > n /\ \A j \in 1..n : x[j] = u[j]  OBVIOUS
  <1> HIDE DEF x, n
  <1>2. Len(w) \in Nat /\ Len(x) <= Len(w) /\ \A j \in 1..Len(x) : x[j] = w[j]  BY DEF Begins, x
  <1>3. i \in 1..Len(w) /\ i <= n + 1 /\ ~(i <= n)  BY <1>1, <1>2
  <1>4. \A j \in 1..(i - 1) : u[j] = w[j]
    <2>1. \A j \in 1..(i - 1) : j \in 1..n /\ j \in 1..Len(x)  BY <1>1
    <2>2. QED  BY <1>1, <1>2, <2>1
  <1>5. QED  BY <1>3, <1>4 DEF LexLess, n

\* No two sequences are each less than the other.
LEMMA LessOneWay ==
    ASSUME NEW a \in Seq(Nat), NEW b \in Seq(Nat), LexLess(a, b), LexLess(b, a)
    PROVE  FALSE
  <1>1. PICK i \in 1..Len(b) : /\ i <= Len(a) + 1 /\ \A j \in 1..(i - 1) : a[j] = b[j]
                               /\ i <= Len(a) => a[i] < b[i]
    BY DEF LexLess
  <1>2. PICK k \in 1..Len(a) : /\ k <= Len(b) + 1 /\ \A j \in 1..(k - 1) : b[j] = a[j]
                               /\ k <= Len(b) => b[k] < a[k]
    BY DEF LexLess
  <1>3. Len(a) \in Nat /\ Len(b) \in Nat /\ i \in Nat /\ k \in Nat  OBVIOUS
  <1>4. CASE i < k
    <2>1. i \in 1..(k - 1) /\ i <= Len(a) /\ i \in 1..Len(a)  BY <1>2, <1>3, <1>4
    <2>2. a[i] \in Nat /\ b[i] \in Nat  BY <2>1
    <2>3. QED  BY <1>1, <1>2, <2>1, <2>2
  <1>5. CASE k < i
    <2>1. k \in 1..(i - 1) /\ k <= Len(b) /\ k \in 1..Len(b)  BY <1>1, <1>3, <1>5
    <2>2. a[k] \in Nat /\ b[k] \in Nat  BY <2>1
    <2>3. QED  BY <1>1, <1>2, <2>1, <2>2
  <1>6. CASE i = k
    <2>1. i <= Len(a) /\ k <= Len(b) /\ i \in 1..Len(a) /\ i \in 1..Len(b)  BY <1>3, <1>6
    <2>2. a[i] \in Nat /\ b[i] \in Nat  BY <2>1
    <2>3. QED  BY <1>1, <1>2, <1>6, <2>1, <2>2
  <1>7. QED  BY <1>3, <1>4, <1>5, <1>6

\* The order of Go is that of Python.
LEMMA KeysInOrder ==
    ASSUME NEW a \in Seq(CodePoints), NEW b \in Seq(CodePoints), Utf16Less(a, b)
    PROVE  LexLess(Utf16be(a), Utf16be(b))
  <1>1. PICK i \in 1..Len(b) : /\ i <= Len(a) + 1
                               /\ \A j \in 1..(i - 1) : a[j] = b[j]
                               /\ i <= Len(a) => a[i] # b[i] /\ LexLess(Utf16(a[i]), Utf16(b[i]))
    BY DEF Utf16Less
  <1> DEFINE n == i - 1
             u == KeyTo(b, n)
  <1>2. n \in Nat /\ n < Len(b) /\ n <= Len(a) /\ n + 1 = i /\ i <= Len(b) /\ i \in Nat  BY <1>1
  <1>3. KeyTo(a, n) = u
    <2> DEFINE p == SubSeq(a, 1, n)
               q == SubSeq(b, 1, n)
    <2>1. p \in Seq(CodePoints) /\ q \in Seq(CodePoints) /\ Len(p) = n /\ Len(q) = n
      BY <1>2
    <2>2. \A j \in 1..n : p[j] = a[j] /\ q[j] = b[j]  BY <1>2
    <2> HIDE DEF p, q
    <2>3. \A j \in 1..Len(p) : p[j] = q[j]  BY <1>1, <2>1, <2>2
    <2>4. p = q  BY <2>1, <2>3, SameElements
    <2>5. QED  BY <2>4 DEF p, q, KeyTo
  <1> HIDE DEF n
  <1>4. /\ u \in Seq(Nat) /\ b[i] \in CodePoints /\ CharBytes(b[i]) \in Seq(Nat)
        /\ KeyTo(b, i) = u \o CharBytes(b[i])
    BY <1>2, KeyStep
  <1>5. Begins(u \o CharBytes(b[i]), Utf16be(b))  BY <1>2, <1>4, KeyBegins
  <1>6. CASE i <= Len(a)
    <2>1. n < Len(a)  BY <1>2, <1>6
    <2>2. /\ a[i] \in CodePoints /\ CharBytes(a[i]) \in Seq(Nat)
          /\ KeyTo(a, i) = u \o CharBytes(a[i])
      BY <1>2, <1>3, <2>1, KeyStep
    <2>3. Begins(u \o CharBytes(a[i]), Utf16be(a))  BY <1>2, <1>6, <2>2, KeyBegins
    <2>4. UnitsLess(a[i], b[i])  BY <1>1, <1>4, <1>6, <2>2, UnitOrder
    <2>5. PICK k \in Nat : LessAt(CharBytes(a[i]), CharBytes(b[i]), k)  BY <1>4, <2>2, <2>4, CharOrder
    <2> HIDE DEF u
    <2>6. QED  BY <1>4, <1>5, <2>2, <2>3, <2>5, LessBehind
  <1>7. CASE ~(i <= Len(a))
    <2>1. n = Len(a)  BY <1>2, <1>7
    <2>2. SubSeq(a, 1, Len(a)) = a  OBVIOUS
    <2>3. Utf16be(a) = u  BY <1>3, <2>1, <2>2 DEF KeyTo
    <2>4. Len(CharBytes(b[i])) > 0
      <3>1. BytesOf(CharBytes(b[i]), b[i]) \/ BytesOfPair(CharBytes(b[i]), High(b[i]), Low(b[i]))
        <4>1. b[i] \in Nat  BY <1>4, UnitsAre
        <4>2. b[i] < 65536 \/ b[i] >= 65536  BY <4>1, SMT
        <4>3. QED  BY <1>4, <4>2, BytesForm, SMT
      <3>2. QED  BY <3>1, SMT DEF BytesOf, BytesOfPair
    <2> HIDE DEF u
    <2>5. QED  BY <1>4, <1>5, <2>3, <2>4, LessLonger
  <1>8. QED  BY <1>6, <1>7

\* A non-empty set of naturals has a least element.
LEMMA LeastPlace ==
    ASSUME NEW M \in SUBSET Nat, M # {}
    PROVE  \E m \in M : \A x \in M : m <= x
  <1>1. PICK m \in M : \A y \in M : ~(<<y, m>> \in OpToRel(<, Nat))
    BY NatLessThanWellFounded, WFMin, Zenon
  <1>2. \A y \in M : ~(y < m)  BY <1>1 DEF OpToRel
  <1>3. QED  BY <1>2

\* Of two names one is less.
LEMMA NamesDiffer ==
    ASSUME NEW a \in Seq(CodePoints), NEW b \in Seq(CodePoints), a # b
    PROVE  Utf16Less(a, b) \/ Utf16Less(b, a)
  <1> DEFINE M == {i \in Nat : i > 0 /\ (i > Len(a) \/ i > Len(b) \/ a[i] # b[i])}
  <1>1. Len(a) \in Nat /\ Len(b) \in Nat  OBVIOUS
  <1>2. Len(a) + 1 \in M  BY <1>1
  <1>3. M \in SUBSET Nat /\ M # {}  BY <1>2
  <1>4. PICK i \in M : \A x \in M : i <= x
    <2> HIDE DEF M
    <2>1. QED  BY <1>3, LeastPlace
  <1>5. i \in Nat /\ i > 0 /\ (i > Len(a) \/ i > Len(b) \/ a[i] # b[i])  OBVIOUS
  <1>6. ASSUME NEW j \in 1..(i - 1) PROVE j <= Len(a) /\ j <= Len(b) /\ a[j] = b[j]
    <2>1. j \in Nat /\ j > 0 /\ ~(i <= j)  BY <1>5
    <2>2. j \notin M  BY <1>4, <2>1
    <2>3. QED  BY <1>1, <2>1, <2>2
  <1>7. i <= Len(a) + 1 /\ i <= Len(b) + 1
    <2>1. CASE i = 1  BY <1>1, <2>1
    <2>2. CASE i # 1
      <3>1. i - 1 \in 1..(i - 1)  BY <1>5, <2>2
      <3>2. i - 1 <= Len(a) /\ i - 1 <= Len(b)  BY <1>6, <3>1
      <3>3. QED  BY <1>1, <1>5, <3>2
    <2>3. QED  BY <2>1, <2>2
  <1> HIDE DEF M
  <1>8. CASE i <= Len(a) /\ i <= Len(b)
    <2>1. i \in 1..Len(a) /\ i \in 1..Len(b) /\ a[i] # b[i]  BY <1>1, <1>5, <1>8
    <2>2. a[i] \in CodePoints /\ b[i] \in CodePoints  BY <2>1
    <2>3. UnitsLess(a[i], b[i]) \/ UnitsLess(b[i], a[i])  BY <2>1, <2>2, UnitsDiffer
    <2>4. LexLess(Utf16(a[i]), Utf16(b[i])) \/ LexLess(Utf16(b[i]), Utf16(a[i]))
      BY <2>2, <2>3, UnitOrder
    <2>5. QED  BY <1>6, <1>7, <2>1, <2>4 DEF Utf16Less
  <1>9. CASE i > Len(a) /\ i <= Len(b)
    <2>1. i \in 1..Len(b) /\ ~(i <= Len(a))  BY <1>1, <1>5, <1>9
    <2>2. QED  BY <1>6, <1>7, <2>1 DEF Utf16Less
  <1>10. CASE i > Len(b) /\ i <= Len(a)
    <2>1. i \in 1..Len(a) /\ ~(i <= Len(b))  BY <1>1, <1>5, <1>10
    <2>2. \A j \in 1..(i - 1) : b[j] = a[j]  BY <1>6
    <2>3. QED  BY <1>7, <2>1, <2>2 DEF Utf16Less
  <1>11. CASE i > Len(a) /\ i > Len(b)
    <2>1. Len(a) = i - 1 /\ Len(b) = i - 1  BY <1>1, <1>5, <1>7, <1>11
    <2>2. \A j \in 1..Len(a) : a[j] = b[j]  BY <1>6, <2>1
    <2>3. a = b  BY <2>1, <2>2, SameElements
    <2>4. QED  BY <2>3
  <1>12. QED  BY <1>1, <1>5, <1>8, <1>9, <1>10, <1>11

\* The two canonicalisers order member names alike, although jcs.py compares
\* the bytes of the whole name in UTF-16 and utf16Less of jcs.go the units of
\* the first character that differs; and of two names one is less than the
\* other, so that a sorted list of them is unique.  Names have no surrogates:
\* the parsers admit none (StringsAlwaysExact).
THEOREM NamesOrderedAlike ==
    \A a, b \in Seq(CodePoints) :
        /\ Utf16Less(a, b) <=> LexLess(Utf16be(a), Utf16be(b))
        /\ a # b => Utf16Less(a, b) \/ Utf16Less(b, a)
        /\ ~(Utf16Less(a, b) /\ Utf16Less(b, a))
  <1> SUFFICES ASSUME NEW a \in Seq(CodePoints), NEW b \in Seq(CodePoints)
               PROVE  /\ Utf16Less(a, b) <=> LexLess(Utf16be(a), Utf16be(b))
                      /\ a # b => Utf16Less(a, b) \/ Utf16Less(b, a)
                      /\ ~(Utf16Less(a, b) /\ Utf16Less(b, a))
    OBVIOUS
  <1>1. Utf16be(a) \in Seq(Nat) /\ Utf16be(b) \in Seq(Nat)  BY KeyType
  <1>2. Utf16Less(a, b) => LexLess(Utf16be(a), Utf16be(b))  BY KeysInOrder
  <1>3. Utf16Less(b, a) => LexLess(Utf16be(b), Utf16be(a))  BY KeysInOrder
  <1>4. ~(LexLess(Utf16be(a), Utf16be(b)) /\ LexLess(Utf16be(b), Utf16be(a)))  BY <1>1, LessOneWay
  <1>5. a # b => Utf16Less(a, b) \/ Utf16Less(b, a)  BY NamesDiffer
  <1>6. a = b => ~LexLess(Utf16be(a), Utf16be(b))  BY <1>4
  <1>7. QED  BY <1>2, <1>3, <1>4, <1>5, <1>6
=============================================================================
